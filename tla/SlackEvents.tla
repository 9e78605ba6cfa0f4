----------------------------- MODULE SlackEvents -----------------------------
(***************************************************************************)
(* The Slack Events endpoint (routers/slack_events.py): Slack delivers an  *)
(* event until one delivery is answered 200, every delivery races to       *)
(* insert the event's claim, the winner dispatches the event and the       *)
(* others are acknowledged unread.                                         *)
(*                                                                         *)
(* A dispatched event ends in at most two writes, in this order: the one   *)
(* that other people see (the GitHub comment of a channel message, the     *)
(* notice of a reaction) and the record of it (the message mapping).       *)
(* Requests are coroutines of several web processes: all their steps       *)
(* interleave.  Slack waits three seconds for an answer, which the model   *)
(* does not count: Slack may stop waiting at any time.                     *)
(***************************************************************************)
EXTENDS Naturals

CONSTANTS
  EventIds,     \* the events of one Slack app, by event_id
  Requests,     \* the deliveries that may be in progress together
  NoEvent,      \* no event
  MaxAttempts,  \* Slack gives up on an event after this many deliveries
  MaxErrors,    \* bound: exceptions the dispatch of one event raises
  MaxCrashes    \* bound: requests that end without releasing their claim

ASSUME SlackEventsAssumption ==
  /\ NoEvent \notin EventIds
  /\ MaxAttempts \in Nat \ {0} /\ MaxErrors \in Nat /\ MaxCrashes \in Nat

VARIABLES
  delivery,  \* what Slack knows of each event
  attempts,  \* how many times Slack has delivered it
  claims,    \* the event_ids in slack_event_claims
  posted,    \* how often the event's visible write has happened
  done,      \* the events whose dispatch has run to its end
  stage,     \* the next await of every request, or "idle"
  event,     \* the event a request works on
  attempt,   \* which delivery of the event it is
  errors,    \* how many dispatches of the event have raised
  crashes    \* how many requests ended without releasing their claim

deliveryVars == <<delivery, attempts>>
effectVars   == <<posted, done>>
faultVars    == <<errors, crashes>>
requestVars  == <<stage, event, attempt>>
endpointVars == <<deliveryVars, claims, effectVars, requestVars, faultVars>>

\* "due": to be delivered (again); "waiting": for the answer to the last
\* delivery; "acked": answered 200; "dropped": out of attempts.
SlackStates == {"silent", "due", "waiting", "acked", "dropped"}

Stages == {"claim", "post", "record", "release"}

EndpointTypeOK ==
  /\ delivery \in [EventIds -> SlackStates]
  /\ attempts \in [EventIds -> 0..MaxAttempts]
  /\ claims \subseteq EventIds
  /\ posted \in [EventIds -> Nat]
  /\ done \subseteq EventIds
  /\ stage \in [Requests -> Stages \cup {"idle"}]
  /\ event \in [Requests -> EventIds \cup {NoEvent}]
  /\ \A h \in Requests : stage[h] # "idle" => event[h] \in EventIds
  /\ attempt \in [Requests -> 0..MaxAttempts]
  /\ errors \in [EventIds -> Nat]
  /\ crashes \in Nat

EndpointInit ==
  /\ delivery = [e \in EventIds |-> "silent"]
  /\ attempts = [e \in EventIds |-> 0]
  /\ claims = {}
  /\ posted = [e \in EventIds |-> 0]
  /\ done = {}
  /\ stage = [h \in Requests |-> "idle"]
  /\ event = [h \in Requests |-> NoEvent]
  /\ attempt = [h \in Requests |-> 0]
  /\ errors = [e \in EventIds |-> 0]
  /\ crashes = 0

-----------------------------------------------------------------------------
(* Slack *)

\* Seeded fault: Slack never gives up.
AgainForever(e) == IF attempts[e] <= MaxAttempts THEN "due" ELSE "dropped"

\* After an attempt that was not answered with 200.
Again(e) == IF attempts[e] < MaxAttempts THEN "due" ELSE "dropped"

Happens(e) ==
  /\ delivery[e] = "silent"
  /\ delivery' = [delivery EXCEPT ![e] = "due"]
  /\ UNCHANGED <<attempts, claims, effectVars, requestVars, faultVars>>

\* Slack closes the connection; the request runs on.
TimeOut(e) ==
  /\ delivery[e] = "waiting"
  /\ delivery' = [delivery EXCEPT ![e] = Again(e)]
  /\ UNCHANGED <<attempts, claims, effectVars, requestVars, faultVars>>

\* The answer counts if Slack is still waiting for this very delivery.
Answer(h, status) ==
  LET e == event[h]
  IN  delivery' = IF delivery[e] = "waiting" /\ attempts[e] = attempt[h]
                 THEN [delivery EXCEPT ![e] = IF status = 200 THEN "acked" ELSE Again(e)]
                 ELSE delivery

-----------------------------------------------------------------------------
(* Requests *)

GoOn(h, step) ==
  /\ stage' = [stage EXCEPT ![h] = step]
  /\ UNCHANGED <<event, attempt, delivery>>

Leave(h) ==
  /\ stage' = [stage EXCEPT ![h] = "idle"]
  /\ event' = [event EXCEPT ![h] = NoEvent]
  /\ attempt' = [attempt EXCEPT ![h] = 0]

Acknowledge(h) == Leave(h) /\ Answer(h, 200)

ReceiveEvent(h, e) ==
  /\ stage[h] = "idle"
  /\ delivery[e] = "due"
  /\ delivery' = [delivery EXCEPT ![e] = "waiting"]
  /\ attempts' = [attempts EXCEPT ![e] = @ + 1]
  /\ stage' = [stage EXCEPT ![h] = "claim"]
  /\ event' = [event EXCEPT ![h] = e]
  /\ attempt' = [attempt EXCEPT ![h] = attempts[e] + 1]
  /\ UNCHANGED <<claims, effectVars, faultVars>>

\* Seeded fault: the record of the claim comes after the dispatch.
ClaimByLooking(h) ==
  /\ stage[h] = "claim"
  /\ IF event[h] \in done THEN Acknowledge(h) ELSE GoOn(h, "post")
  /\ UNCHANGED <<attempts, claims, effectVars, faultVars>>

\* Seeded fault: a duplicate takes the way out that gives the claim back.
ClaimReleasedByLoser(h) ==
  /\ stage[h] = "claim"
  /\ IF event[h] \in claims
       THEN GoOn(h, "release") /\ UNCHANGED claims
       ELSE claims' = claims \cup {event[h]} /\ GoOn(h, "post")
  /\ UNCHANGED <<attempts, effectVars, faultVars>>

\* Seeded fault: the test of rowcount is the wrong way round.
ClaimInverted(h) ==
  /\ stage[h] = "claim"
  /\ claims' = claims \cup {event[h]}
  /\ IF event[h] \in claims THEN GoOn(h, "post") ELSE Acknowledge(h)
  /\ UNCHANGED <<attempts, effectVars, faultVars>>

\* claim_slack_event: INSERT ... ON CONFLICT DO NOTHING.  The loser answers
\* 200 at once, whatever becomes of the winner.
Claim(h) ==
  /\ stage[h] = "claim"
  /\ IF event[h] \in claims
       THEN Acknowledge(h) /\ UNCHANGED claims
       ELSE claims' = claims \cup {event[h]} /\ GoOn(h, "post")
  /\ UNCHANGED <<attempts, effectVars, faultVars>>

\* Many events come to nothing: a channel without a pull request, the app's
\* own message, an edit that is none, another reaction.
Ignore(h) ==
  /\ stage[h] = "post"
  /\ done' = done \cup {event[h]}
  /\ Acknowledge(h)
  /\ UNCHANGED <<attempts, claims, posted, faultVars>>

Post(h) ==
  /\ stage[h] = "post"
  /\ posted' = [posted EXCEPT ![event[h]] = @ + 1]
  /\ GoOn(h, "record")
  /\ UNCHANGED <<attempts, claims, done, faultVars>>

Record(h) ==
  /\ stage[h] = "record"
  /\ done' = done \cup {event[h]}
  /\ Acknowledge(h)
  /\ UNCHANGED <<attempts, claims, posted, faultVars>>

\* An exception out of _dispatch_event.  A write whose answer got lost has
\* happened all the same.
DispatchRaises(h) ==
  /\ stage[h] \in {"post", "record"}
  /\ errors[event[h]] < MaxErrors
  /\ errors' = [errors EXCEPT ![event[h]] = @ + 1]
  /\ \/ UNCHANGED posted
     \/ stage[h] = "post" /\ posted' = [posted EXCEPT ![event[h]] = @ + 1]
  /\ GoOn(h, "release")
  /\ UNCHANGED <<attempts, claims, done, crashes>>

\* Seeded fault: the exception goes on and the claim stays.
KeepClaim(h) ==
  /\ stage[h] = "release"
  /\ Leave(h) /\ Answer(h, 500)
  /\ UNCHANGED <<attempts, claims, effectVars, faultVars>>

\* release_slack_event, then the exception goes on: 500.
Release(h) ==
  /\ stage[h] = "release"
  /\ claims' = claims \ {event[h]}
  /\ Leave(h) /\ Answer(h, 500)
  /\ UNCHANGED <<attempts, effectVars, faultVars>>

\* The database fails under claim_slack_event, whose insert may have been
\* committed, or under release_slack_event: 500, and no release follows.
DatabaseFails(h) ==
  /\ stage[h] \in {"claim", "release"}
  /\ crashes < MaxCrashes
  /\ crashes' = crashes + 1
  /\ \/ UNCHANGED claims
     \/ stage[h] = "claim" /\ claims' = claims \cup {event[h]}
  /\ Leave(h) /\ Answer(h, 500)
  /\ UNCHANGED <<attempts, effectVars, errors>>

\* The process ends, or the request is cancelled (CancelledError is not an
\* Exception): neither release nor answer.
Crash(h) ==
  /\ stage[h] # "idle"
  /\ crashes < MaxCrashes
  /\ crashes' = crashes + 1
  /\ Leave(h)
  /\ UNCHANGED <<deliveryVars, claims, effectVars, errors>>

Work(h) ==
  \/ Claim(h) \/ Ignore(h) \/ Post(h) \/ Record(h) \/ Release(h)

EndpointStep(h) == Work(h) \/ \E e \in EventIds : ReceiveEvent(h, e)

EndpointNext ==
  \/ \E e \in EventIds : Happens(e) \/ TimeOut(e)
  \/ \E h \in Requests : EndpointStep(h) \/ DispatchRaises(h) \/ DatabaseFails(h) \/ Crash(h)

\* Coroutines that have started go on, and Slack delivers what is due.
EndpointSpec ==
  /\ EndpointInit /\ [][EndpointNext]_endpointVars
  /\ \A h \in Requests : WF_endpointVars(EndpointStep(h))

-----------------------------------------------------------------------------
(* Properties *)

Dispatching(h) == stage[h] \in {"post", "record", "release"}
WorkingOn(e) == {h \in Requests : stage[h] # "idle" /\ event[h] = e}

\* "Only the claim winner processes the event" (claim_slack_event): no two
\* deliveries of one event are in dispatch together, through any number of
\* retries, exceptions, releases and crashes.
OneDispatch ==
  \A g, h \in Requests : Dispatching(g) /\ Dispatching(h) /\ event[g] = event[h] => g = h

\* "Retries - even ones racing an in-flight original - can't double-post"
\* (README): an event is written more than once only if a dispatch of it
\* raised, which gives the claim back, and once more for each time it did.
PostedOnce == \A e \in EventIds : posted[e] <= 1 + errors[e]

\* A claim never swallows an event by itself.  Unless a request ended without
\* releasing its claim, a claimed event was dispatched to the end or a request
\* is at it.
ClaimsBacked ==
  crashes = 0 =>
    \A e \in claims : e \in done \/ \E h \in WorkingOn(e) : Dispatching(h)

\* Slack may stop waiting, deliver again and take a duplicate's 200 for an
\* answer as often as it likes: where no dispatch fails, no event is lost.
NothingLost ==
  \A e \in EventIds :
    delivery[e] = "due" ~> (e \in done \/ errors[e] > 0 \/ crashes > 0)

\* "A genuine failure here should be rescued by Slack's next retry instead of
\* being swallowed by the claim" (slack_event): unless a request ended without
\* releasing its claim, an event that Slack has an answer for and that no
\* request works on has been dispatched to the end.
FailedIsRescued ==
  crashes = 0 =>
    \A e \in EventIds : delivery[e] = "acked" /\ WorkingOn(e) = {} => e \in done
=============================================================================
