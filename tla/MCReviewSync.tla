---------------------------- MODULE MCReviewSync -----------------------------
(* Instances of ReviewSync for TLC. *)
EXTENDS ReviewSync, TLC

\* Two comments of the review, and a reply to the first.
MCRoot == 1 :> 1 @@ 2 :> 2 @@ 3 :> 1

MCSettings ==
  {<<TRUE, FALSE, "text">>, <<TRUE, TRUE, "text">>,
   <<TRUE, FALSE, "bare">>, <<FALSE, FALSE, "verdict">>}
=============================================================================
