---------------------------- MODULE MCMessageSync ----------------------------
(* Instances of SyncTexts for TLC. *)
EXTENDS SyncTexts

prose(n) == [len |-> n, fence |-> FALSE, late |-> {}]
fence == [len |-> 3, fence |-> TRUE, late |-> {}]

\* A block of code that is never closed, and one that a message cannot hold.
MCTexts == {"open", "long"}
MCBodies ==
  [t \in MCTexts |->
     CASE t = "open" -> <<fence, prose(4)>>
       [] t = "long" -> <<prose(3), fence, prose(4), fence>>]
MCHeading == prose(2)
MCParts == [t \in MCTexts |-> Split(<<MCHeading>> \o Blockquote(MCBodies[t]))]
MCOpen == {{1, 2}}

\* The handlers are alike.
MCSymmetry == Permutations(Handlers)
=============================================================================
