-------------------------- MODULE SlackEventsProofs --------------------------
(***************************************************************************)
(* What holds of SlackEvents for any events and requests, however often    *)
(* Slack delivers, dispatches raise and requests crash.                    *)
(***************************************************************************)
EXTENDS SlackEvents, TLAPS

(* The inductive invariant *)

\* Slack delivers an event that is due only if it has an attempt left.
AttemptLeft ==
  \A e \in EventIds :
    /\ delivery[e] = "silent" => attempts[e] = 0
    /\ delivery[e] = "due" => attempts[e] < MaxAttempts

\* The claim is there as long as its dispatch lasts.
DispatchClaimed == \A h \in Requests : Dispatching(h) => event[h] \in claims

\* An event may be written as often as its dispatches raised, and once more
\* between the write and the end of the dispatch that did it.
PostsPaid ==
  /\ \A e \in EventIds : e \notin claims => posted[e] <= errors[e]
  /\ \A h \in Requests : stage[h] \in {"post", "release"} => posted[event[h]] <= errors[event[h]]

IInv ==
  /\ EndpointTypeOK /\ AttemptLeft
  /\ OneDispatch /\ DispatchClaimed
  /\ PostedOnce /\ PostsPaid
  /\ ClaimsBacked

-----------------------------------------------------------------------------
(* Lemmas *)

LEMMA InitInvariant == EndpointInit => IInv
BY SlackEventsAssumption DEF EndpointInit, IInv, EndpointTypeOK, SlackStates, AttemptLeft,
   OneDispatch, Dispatching, DispatchClaimed, PostedOnce, PostsPaid, ClaimsBacked

\* What becomes of Slack's view of an event leaves it an attempt.
LEMMA AgainType ==
  ASSUME EndpointTypeOK, NEW e \in EventIds
  PROVE  /\ Again(e) \in {"due", "dropped"}
         /\ Again(e) = "due" => attempts[e] < MaxAttempts
BY DEF Again

LEMMA SlackStep ==
  ASSUME IInv, NEW e \in EventIds, Happens(e) \/ TimeOut(e)
  PROVE  IInv'
  <1>. USE DEF IInv, Happens, TimeOut, effectVars, requestVars, faultVars
  <1>1. EndpointTypeOK'
    BY AgainType DEF EndpointTypeOK, SlackStates
  <1>2. AttemptLeft'
    BY AgainType, SlackEventsAssumption DEF EndpointTypeOK, AttemptLeft
  <1>3. (OneDispatch /\ DispatchClaimed /\ PostedOnce /\ PostsPaid)'
    BY DEF OneDispatch, Dispatching, DispatchClaimed, PostedOnce, PostsPaid
  <1>4. ClaimsBacked'
    BY DEF ClaimsBacked, WorkingOn, Dispatching
  <1>. QED BY <1>1, <1>2, <1>3, <1>4

\* An answer changes nothing but Slack's view of one event.
LEMMA AnswerType ==
  ASSUME EndpointTypeOK, AttemptLeft, NEW h \in Requests, stage[h] # "idle", NEW status,
         Answer(h, status), UNCHANGED attempts
  PROVE  delivery' \in [EventIds -> SlackStates] /\ AttemptLeft'
  <1>1. event[h] \in EventIds
    BY DEF EndpointTypeOK
  <1>2. Again(event[h]) \in {"due", "dropped"}
    BY <1>1, AgainType
  <1>3. delivery' \in [EventIds -> SlackStates]
    BY <1>1, <1>2 DEF Answer, EndpointTypeOK, SlackStates
  <1>4. AttemptLeft'
    BY <1>1, <1>2, AgainType DEF Answer, EndpointTypeOK, AttemptLeft
  <1>. QED BY <1>3, <1>4

\* A request that ends leaves its variables as it found them.
LEMMA FinishType ==
  ASSUME EndpointTypeOK, NEW h \in Requests, Leave(h)
  PROVE  /\ stage' \in [Requests -> Stages \cup {"idle"}]
         /\ event' \in [Requests -> EventIds \cup {NoEvent}]
         /\ \A g \in Requests : stage'[g] # "idle" => event'[g] \in EventIds
         /\ attempt' \in [Requests -> 0..MaxAttempts]
BY SlackEventsAssumption DEF EndpointTypeOK, Leave

LEMMA RequestStep ==
  ASSUME IInv, NEW h \in Requests,
         EndpointStep(h) \/ DispatchRaises(h) \/ DatabaseFails(h) \/ Crash(h)
  PROVE  IInv'
  <1>. USE DEF IInv, GoOn, Leave, Acknowledge, deliveryVars, effectVars, requestVars, faultVars
  <1>1. CASE Claim(h)
    <2>. USE <1>1 DEF Claim
    <2>1. EndpointTypeOK' /\ AttemptLeft'
      <3>1. CASE event[h] \in claims
        BY <3>1, AnswerType, FinishType DEF EndpointTypeOK
      <3>2. CASE event[h] \notin claims
        BY <3>2 DEF EndpointTypeOK, AttemptLeft, Stages
      <3>. QED BY <3>1, <3>2
    <2>2. OneDispatch' /\ DispatchClaimed'
      BY DEF EndpointTypeOK, OneDispatch, DispatchClaimed, Dispatching
    <2>3. PostedOnce' /\ PostsPaid'
      BY DEF EndpointTypeOK, OneDispatch, DispatchClaimed, Dispatching, PostedOnce, PostsPaid
    <2>4. ClaimsBacked'
      BY DEF EndpointTypeOK, OneDispatch, ClaimsBacked, WorkingOn, Dispatching
    <2>. QED BY <2>1, <2>2, <2>3, <2>4
  <1>2. CASE Ignore(h)
    <2>. USE <1>2 DEF Ignore
    <2>1. EndpointTypeOK' /\ AttemptLeft'
      BY AnswerType, FinishType DEF EndpointTypeOK, Stages
    <2>2. OneDispatch' /\ DispatchClaimed'
      BY DEF EndpointTypeOK, OneDispatch, DispatchClaimed, Dispatching
    <2>3. PostedOnce' /\ PostsPaid'
      BY DEF EndpointTypeOK, OneDispatch, DispatchClaimed, Dispatching, PostedOnce, PostsPaid
    <2>4. ClaimsBacked'
      BY DEF EndpointTypeOK, OneDispatch, ClaimsBacked, WorkingOn, Dispatching
    <2>. QED BY <2>1, <2>2, <2>3, <2>4
  <1>3. CASE Post(h)
    <2>. USE <1>3 DEF Post
    <2>1. EndpointTypeOK' /\ AttemptLeft'
      BY DEF EndpointTypeOK, AttemptLeft, Stages, SlackStates
    <2>2. OneDispatch' /\ DispatchClaimed'
      BY DEF EndpointTypeOK, OneDispatch, DispatchClaimed, Dispatching
    <2>3. PostedOnce' /\ PostsPaid'
      BY DEF EndpointTypeOK, OneDispatch, DispatchClaimed, Dispatching, PostedOnce, PostsPaid
    <2>4. ClaimsBacked'
      BY DEF EndpointTypeOK, OneDispatch, ClaimsBacked, WorkingOn, Dispatching
    <2>. QED BY <2>1, <2>2, <2>3, <2>4
  <1>4. CASE Record(h)
    <2>. USE <1>4 DEF Record
    <2>1. EndpointTypeOK' /\ AttemptLeft'
      BY AnswerType, FinishType DEF EndpointTypeOK, Stages
    <2>2. OneDispatch' /\ DispatchClaimed'
      BY DEF EndpointTypeOK, OneDispatch, DispatchClaimed, Dispatching
    <2>3. PostedOnce' /\ PostsPaid'
      BY DEF EndpointTypeOK, OneDispatch, DispatchClaimed, Dispatching, PostedOnce, PostsPaid
    <2>4. ClaimsBacked'
      BY DEF EndpointTypeOK, OneDispatch, ClaimsBacked, WorkingOn, Dispatching
    <2>. QED BY <2>1, <2>2, <2>3, <2>4
  <1>5. CASE Release(h)
    <2>. USE <1>5 DEF Release
    <2>1. EndpointTypeOK' /\ AttemptLeft'
      BY AnswerType, FinishType DEF EndpointTypeOK, Stages
    <2>2. OneDispatch' /\ DispatchClaimed'
      BY DEF EndpointTypeOK, OneDispatch, DispatchClaimed, Dispatching
    <2>3. PostedOnce' /\ PostsPaid'
      BY DEF EndpointTypeOK, OneDispatch, DispatchClaimed, Dispatching, PostedOnce, PostsPaid
    <2>4. ClaimsBacked'
      BY DEF EndpointTypeOK, OneDispatch, ClaimsBacked, WorkingOn, Dispatching
    <2>. QED BY <2>1, <2>2, <2>3, <2>4
  <1>6. CASE \E e \in EventIds : ReceiveEvent(h, e)
    <2>. USE <1>6 DEF ReceiveEvent
    <2>1. EndpointTypeOK' /\ AttemptLeft'
      <3>1. PICK e \in EventIds : ReceiveEvent(h, e)
        BY <1>6
      <3>2. attempts[e] + 1 \in 0..MaxAttempts
        BY <3>1, SlackEventsAssumption DEF EndpointTypeOK, AttemptLeft
      <3>. QED
        BY <3>1, <3>2 DEF EndpointTypeOK, AttemptLeft, Stages, SlackStates
    <2>2. OneDispatch' /\ DispatchClaimed'
      BY DEF EndpointTypeOK, OneDispatch, DispatchClaimed, Dispatching
    <2>3. PostedOnce' /\ PostsPaid'
      BY DEF EndpointTypeOK, OneDispatch, DispatchClaimed, Dispatching, PostedOnce, PostsPaid
    <2>4. ClaimsBacked'
      BY DEF EndpointTypeOK, OneDispatch, ClaimsBacked, WorkingOn, Dispatching
    <2>. QED BY <2>1, <2>2, <2>3, <2>4
  <1>7. CASE DispatchRaises(h)
    <2>. USE <1>7 DEF DispatchRaises
    <2>1. EndpointTypeOK' /\ AttemptLeft'
      BY DEF EndpointTypeOK, AttemptLeft, Stages, SlackStates
    <2>2. OneDispatch' /\ DispatchClaimed'
      BY DEF EndpointTypeOK, OneDispatch, DispatchClaimed, Dispatching
    <2>3. PostedOnce' /\ PostsPaid'
      BY DEF EndpointTypeOK, OneDispatch, DispatchClaimed, Dispatching, PostedOnce, PostsPaid
    <2>4. ClaimsBacked'
      BY DEF EndpointTypeOK, OneDispatch, ClaimsBacked, WorkingOn, Dispatching
    <2>. QED BY <2>1, <2>2, <2>3, <2>4
  <1>8. CASE DatabaseFails(h)
    <2>. USE <1>8 DEF DatabaseFails
    <2>1. EndpointTypeOK' /\ AttemptLeft'
      <3>1. stage[h] # "idle" /\ Leave(h) /\ Answer(h, 500) /\ UNCHANGED attempts
        OBVIOUS
      <3>2. delivery' \in [EventIds -> SlackStates] /\ AttemptLeft'
        BY <3>1, AnswerType
      <3>3. claims' \subseteq EventIds /\ crashes' \in Nat
        BY DEF EndpointTypeOK
      <3>. QED BY <3>1, <3>2, <3>3, FinishType DEF EndpointTypeOK
    <2>2. OneDispatch' /\ DispatchClaimed'
      BY DEF EndpointTypeOK, OneDispatch, DispatchClaimed, Dispatching
    <2>3. PostedOnce' /\ PostsPaid'
      BY DEF EndpointTypeOK, OneDispatch, DispatchClaimed, Dispatching, PostedOnce, PostsPaid
    <2>4. ClaimsBacked'
      BY DEF EndpointTypeOK, OneDispatch, ClaimsBacked, WorkingOn, Dispatching
    <2>. QED BY <2>1, <2>2, <2>3, <2>4
  <1>9. CASE Crash(h)
    <2>. USE <1>9 DEF Crash
    <2>1. EndpointTypeOK' /\ AttemptLeft'
      <3>1. Leave(h) /\ crashes' \in Nat
        BY DEF EndpointTypeOK
      <3>. QED BY <3>1, FinishType DEF EndpointTypeOK, AttemptLeft
    <2>2. OneDispatch' /\ DispatchClaimed'
      BY DEF EndpointTypeOK, OneDispatch, DispatchClaimed, Dispatching
    <2>3. PostedOnce' /\ PostsPaid'
      BY DEF EndpointTypeOK, OneDispatch, DispatchClaimed, Dispatching, PostedOnce, PostsPaid
    <2>4. ClaimsBacked'
      BY DEF EndpointTypeOK, OneDispatch, ClaimsBacked, WorkingOn, Dispatching
    <2>. QED BY <2>1, <2>2, <2>3, <2>4
  <1>. QED BY <1>1, <1>2, <1>3, <1>4, <1>5, <1>6, <1>7, <1>8, <1>9 DEF EndpointStep, Work

LEMMA StepInvariant == IInv /\ [EndpointNext]_endpointVars => IInv'
  <1>. SUFFICES ASSUME IInv, [EndpointNext]_endpointVars PROVE IInv'
    OBVIOUS
  <1>1. CASE UNCHANGED endpointVars
    <2>. USE <1>1 DEF endpointVars, deliveryVars, effectVars, requestVars, faultVars
    <2>1. (EndpointTypeOK /\ AttemptLeft)'
      BY DEF IInv, EndpointTypeOK, AttemptLeft
    <2>2. (OneDispatch /\ DispatchClaimed /\ PostedOnce /\ PostsPaid)'
      BY DEF IInv, OneDispatch, Dispatching, DispatchClaimed, PostedOnce, PostsPaid
    <2>3. ClaimsBacked'
      BY DEF IInv, ClaimsBacked, WorkingOn, Dispatching
    <2>. QED BY <2>1, <2>2, <2>3 DEF IInv
  <1>2. ASSUME NEW e \in EventIds, Happens(e) \/ TimeOut(e) PROVE IInv'
    BY <1>2, SlackStep
  <1>3. ASSUME NEW h \in Requests, EndpointStep(h) \/ DispatchRaises(h) \/ DatabaseFails(h) \/ Crash(h)
        PROVE  IInv'
    BY <1>3, RequestStep
  <1>. QED BY <1>1, <1>2, <1>3 DEF EndpointNext

-----------------------------------------------------------------------------
(* Theorems *)

\* The inductive invariant holds throughout.
THEOREM Invariance == EndpointSpec => []IInv
BY InitInvariant, StepInvariant, PTL DEF EndpointSpec

\* Every variable keeps its type; that Slack stays within its attempts takes
\* AttemptLeft.
THEOREM TypeCorrect == EndpointSpec => []EndpointTypeOK
  <1>1. IInv => EndpointTypeOK
    BY DEF IInv
  <1>. QED BY <1>1, Invariance, PTL

\* No two deliveries of one event are ever in dispatch together.
THEOREM Exclusive == EndpointSpec => []OneDispatch
  <1>1. IInv => OneDispatch
    BY DEF IInv
  <1>. QED BY <1>1, Invariance, PTL

\* An event is written once, and once more for each dispatch that raised.
THEOREM NoDoublePost == EndpointSpec => []PostedOnce
  <1>1. IInv => PostedOnce
    BY DEF IInv
  <1>. QED BY <1>1, Invariance, PTL

\* Unless a request ends without releasing its claim, a claimed event is done
\* or in dispatch.
THEOREM NoIdleClaim == EndpointSpec => []ClaimsBacked
  <1>1. IInv => ClaimsBacked
    BY DEF IInv
  <1>. QED BY <1>1, Invariance, PTL
=============================================================================
