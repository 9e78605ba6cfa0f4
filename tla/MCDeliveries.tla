---------------------------- MODULE MCDeliveries ----------------------------
(* Instances, for TLC, of what comes in by webhook: GitHub's pull request    *)
(* events and Slack's events.  They share no state.  `from` says whose       *)
(* deliveries a behaviour is about; the other side rests, so the state       *)
(* spaces add up instead of multiplying.                                     *)
EXTENDS MCPRChannel, SlackEvents

VARIABLE from

MCInit == from \in {"GitHub", "Slack"} /\ Init /\ EndpointInit

FromGitHub == from = "GitHub" /\ Next /\ UNCHANGED <<from, endpointVars>>
FromSlack  == from = "Slack" /\ EndpointNext /\ UNCHANGED <<from, vars>>
MCNext == FromGitHub \/ FromSlack

\* The fairness of PRChannel and of SlackEvents.
MCSpec ==
  /\ MCInit /\ [][MCNext]_<<from, vars, endpointVars>>
  /\ \A h \in Handlers : WF_vars(from = "GitHub" /\ Step(h))
  /\ \A h \in Requests : WF_endpointVars(from = "Slack" /\ EndpointStep(h))
=============================================================================
