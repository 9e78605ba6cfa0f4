---------------------------- MODULE ChannelTarget ----------------------------
(***************************************************************************)
(* Which pull request something said or done in a channel is about          *)
(* (services/channel_target.py).  A channel has an owner and may hold       *)
(* stacked pull requests; each keeps its state when another is closed.      *)
(***************************************************************************)
EXTENDS Integers, FiniteSets

CONSTANTS
  Owner,    \* the pull request the channel belongs to
  None

Target(pr, open) == [pr |-> pr, open |-> open]

\* `named`: the pull request a command names, or None.  `about`: the pull
\* request of the message that is answered or reacted to, or None.
Resolve(named, about, open, strict) ==
  IF named # None THEN Target(named, {})
  ELSE IF about # None THEN Target(about, {})
  ELSE IF Cardinality(open) = 1 THEN Target(CHOOSE p \in open : TRUE, open)
  ELSE IF open = {} \/ (~strict /\ Owner \in open) THEN Target(Owner, open)
  ELSE Target(None, open)

Ambiguous(target) == target.pr = None /\ Cardinality(target.open) > 1
=============================================================================
