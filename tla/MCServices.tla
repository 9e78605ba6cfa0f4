----------------------------- MODULE MCServices ------------------------------
(* Instances, for TLC, of the services that do not touch each other's state: *)
(* the cards, the CI notices, a user's GitHub token and the organisations'   *)
(* rows.  `part` says which of them a behaviour is about; the others rest,   *)
(* so the state spaces add up instead of multiplying.                        *)
EXTENDS Cards, CINotices, UserTokens, OrgLink, TLC

VARIABLE part

Parts == {"cards", "ci", "tokens", "organisations"}

Init ==
  /\ part \in Parts
  /\ CardsInit /\ CIInit /\ TokensInit /\ OrgInit
  /\ part # "cards" => kind = "pr" /\ place = NoPlace
  /\ part # "ci" => ~stacked

CardsStep == part = "cards" /\ CardsNext
             /\ UNCHANGED <<ciVars, tokenVars, orgVars, part>>
CIStep == part = "ci" /\ CINext
          /\ UNCHANGED <<cardVars, tokenVars, orgVars, part>>
TokenStep == part = "tokens" /\ TokensNext
             /\ UNCHANGED <<cardVars, ciVars, orgVars, part>>
OrgStep == part = "organisations" /\ OrgNext
           /\ UNCHANGED <<cardVars, ciVars, tokenVars, part>>

Next == CardsStep \/ CIStep \/ TokenStep \/ OrgStep

Spec == Init /\ [][Next]_<<cardVars, ciVars, tokenVars, orgVars, part>>

\* The outcomes of checks that differ in what is shown or announced of them.
MCMixes ==
  {{"running", "failed"}, {"failed", "passed"}, {"passed"}, {"inconclusive", "passed"}}

MCGitHubOrgs == {1, 2}
MCTeams == {"t1", "t2"}

MCSymmetry == Permutations(Workers) \cup Permutations(Places)

-----------------------------------------------------------------------------
Text == INSTANCE TextSplit WITH Limit <- 14

\* Every text of up to three lines is cut as it should be.
SmallLines ==
  {l \in [len : {0, 3, 5, 6, 7, 15}, fence : BOOLEAN, late : SUBSET {2, 3}] :
     (l.fence => l.len > 2) /\ (l.late # {} => l.len = 15)}
ASSUME SplitChecked ==
  \A n \in 1..3 : \A t \in [1..n -> SmallLines] :
    (Text!Length(t) <= 14 => Text!Balanced(t)) =>
      Text!KeepsText(t) /\ \A k \in DOMAIN Text!Split(t) : Text!Renders(Text!Split(t)[k])
=============================================================================
