---------------------------- MODULE StackChannel ----------------------------
(***************************************************************************)
(* What the README promises of a pull request channel, STACK_CHANNELS      *)
(* included: pull requests join a channel and never leave it, the channel  *)
(* is archived when the last open one closes, and comes back when one is   *)
(* reopened.  There are no handlers here and no deliveries: what PRChannel *)
(* does in several awaits happens in one step.                             *)
(***************************************************************************)
CONSTANTS PRs, Channels

VARIABLES
  status,   \* "absent", "live" or "archived", per channel
  members,  \* the pull requests that post in each channel
  open      \* the pull requests that are open

vars == <<status, members, open>>

Init ==
  /\ status = [c \in Channels |-> "absent"]
  /\ members = [c \in Channels |-> {}]
  /\ open = {}

OpenMembers(c) == members[c] \cap open

Create(c) ==
  /\ status[c] = "absent"
  /\ status' = [status EXCEPT ![c] = "live"]
  /\ UNCHANGED <<members, open>>

Join(p, c) ==
  /\ \A other \in Channels : p \notin members[other]
  /\ status[c] = "live"
  /\ members' = [members EXCEPT ![c] = @ \cup {p}]
  /\ open' = open \cup {p}
  /\ UNCHANGED status

Close(p) ==
  /\ open' = open \ {p}
  /\ UNCHANGED <<status, members>>

Reopen(p) ==
  /\ \E c \in Channels : p \in members[c]
  /\ open' = open \cup {p}
  /\ UNCHANGED <<status, members>>

\* The last open pull request has closed.
Archive(c) ==
  /\ status[c] = "live"
  /\ members[c] # {}
  /\ OpenMembers(c) = {}
  /\ status' = [status EXCEPT ![c] = "archived"]
  /\ UNCHANGED <<members, open>>

Unarchive(c) ==
  /\ status[c] = "archived"
  /\ OpenMembers(c) # {}
  /\ status' = [status EXCEPT ![c] = "live"]
  /\ UNCHANGED <<members, open>>

Next ==
  \/ \E p \in PRs : Close(p) \/ Reopen(p) \/ \E c \in Channels : Join(p, c)
  \/ \E c \in Channels : Create(c) \/ Archive(c) \/ Unarchive(c)

Spec ==
  /\ Init /\ [][Next]_vars
  /\ \A c \in Channels : WF_vars(Archive(c)) /\ WF_vars(Unarchive(c))
=============================================================================
