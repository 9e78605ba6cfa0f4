----------------------------- MODULE MCPRChannel -----------------------------
(* Instances of PRChannel for TLC. *)
EXTENDS PRChannel, TLC

CONSTANTS p1, p2, p3, c1, c2

\* p1 is the bottom of a stack with p2 on top of it; p3 is a pull request of
\* another repository whose channel name comes out the same as p1's.
MCChannelName == (p1 :> c1) @@ (p2 :> c2) @@ (p3 :> c1)
MCStackParents == (p1 :> {}) @@ (p2 :> {p1}) @@ (p3 :> {})
=============================================================================
