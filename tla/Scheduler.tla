------------------------------ MODULE Scheduler ------------------------------
(***************************************************************************)
(* The recap and stale-reminder jobs: the in-app loop (scheduler.py), the  *)
(* endpoints an external cron posts to (routers/internal.py) and the claim *)
(* of a slot, a job of an organisation at a minute, that both take before  *)
(* they run the job.                                                       *)
(*                                                                         *)
(* A runner is the scheduler loop of one instance of the app, or one       *)
(* request in progress.  Runners share nothing but the claims, and all     *)
(* their steps interleave: one action per await.                           *)
(***************************************************************************)
EXTENDS Naturals

CONSTANTS
  Orgs,         \* the organisations
  RecapOrgs,    \* those with a recap channel
  RecapDue,     \* per minute, the organisations whose recap cron matches it
  StaleDue,     \* the minutes that the stale-reminder cron matches
  Loops,        \* the instances' scheduler loops
  Requests,     \* the requests to the endpoints that may be in progress
  None,         \* no job
  MaxMinute,    \* bound: the last minute of the run
  MaxRequests,  \* bound: the requests the external cron makes
  MaxFailures   \* bound: exceptions and crashes that the model injects

Minutes == 1..MaxMinute
Runners == Loops \cup Requests

ASSUME SchedulerAssumption ==
  /\ MaxMinute \in Nat \ {0} /\ MaxRequests \in Nat /\ MaxFailures \in Nat
  /\ RecapOrgs \subseteq Orgs
  /\ RecapDue \in [Minutes -> SUBSET RecapOrgs]
  /\ StaleDue \subseteq Minutes
  /\ Loops \cap Requests = {}
  /\ None \notin Orgs

VARIABLES
  now,       \* the current UTC minute
  claims,    \* the slots in scheduler_runs
  posts,     \* how often the job of each slot has posted
  forFiring, \* how often each job has posted for each firing of the cron
  requests,  \* how many requests the external cron has made
  pc,        \* "asleep" (a loop), "idle" (a request), or the next await
  kind,      \* the jobs a runner works on
  minute,    \* its local `minute`
  firing,    \* the minute in which the cron fired, for a request
  todo,      \* the organisations its for loop has yet to come to
  org,       \* the organisation whose job it runs
  failed,    \* the slots that ran into an exception or a crash
  failures   \* how many failures the model has injected

runnerVars == <<pc, kind, minute, firing, todo, org>>
faultVars  == <<failed, failures>>
vars == <<now, claims, posts, forFiring, requests, runnerVars, faultVars>>

Kinds == {"recap", "stale"}
Slots == [kind : Kinds, org : Orgs, minute : Minutes]

TypeOK ==
  /\ now \in Minutes
  /\ claims \subseteq Slots
  /\ posts \in [Slots -> Nat]
  /\ forFiring \in [Slots -> Nat]
  /\ requests \in Nat
  /\ pc \in [Runners -> {"asleep", "idle", "claim", "run"}]
  /\ kind \in [Runners -> Kinds]
  /\ minute \in [Runners -> Minutes]
  /\ firing \in [Runners -> Minutes]
  /\ todo \in [Runners -> SUBSET Orgs]
  /\ org \in [Runners -> Orgs \cup {None}]
  /\ \A r \in Runners : pc[r] = "run" => org[r] \in Orgs
  /\ failed \subseteq Slots
  /\ failures \in Nat

Resting(r) == IF r \in Loops THEN "asleep" ELSE "idle"

Init ==
  /\ now = 1
  /\ claims = {}
  /\ posts = [s \in Slots |-> 0]
  /\ forFiring = [s \in Slots |-> 0]
  /\ requests = 0
  /\ pc = [r \in Runners |-> Resting(r)]
  /\ kind = [r \in Runners |-> "recap"]
  /\ minute = [r \in Runners |-> 1]
  /\ firing = [r \in Runners |-> 1]
  /\ todo = [r \in Runners |-> {}]
  /\ org = [r \in Runners |-> None]
  /\ failed = {} /\ failures = 0

-----------------------------------------------------------------------------

ClockTicks ==
  /\ now < MaxMinute
  /\ now' = now + 1
  /\ UNCHANGED <<claims, posts, forFiring, requests, runnerVars, faultVars>>

\* Runner r starts on the jobs of kind k for minute m.  A request is for the
\* cron's firing of minute f.
Start(r, k, m, f, orgs) ==
  /\ pc' = [pc EXCEPT ![r] = "claim"]
  /\ kind' = [kind EXCEPT ![r] = k]
  /\ minute' = [minute EXCEPT ![r] = m]
  /\ firing' = [firing EXCEPT ![r] = f]
  /\ todo' = [todo EXCEPT ![r] = orgs]
  /\ org' = [org EXCEPT ![r] = None]

Rest(r) ==
  /\ pc' = [pc EXCEPT ![r] = Resting(r)]
  /\ kind' = [kind EXCEPT ![r] = "recap"]
  /\ minute' = [minute EXCEPT ![r] = 1]
  /\ firing' = [firing EXCEPT ![r] = 1]
  /\ todo' = [todo EXCEPT ![r] = {}]
  /\ org' = [org EXCEPT ![r] = None]

\* scheduler_loop wakes near a minute boundary.  It reads the clock anew: a
\* sleep that ends early sees the same minute again, a tick that took long
\* makes the loop skip minutes.
Wake(r) ==
  /\ pc[r] = "asleep"
  /\ Start(r, "recap", now, now, RecapDue[now])
  /\ UNCHANGED <<now, claims, posts, forFiring, requests, faultVars>>

\* The cron's firing of minute f reaches an endpoint: for the first time, once
\* more because an earlier request failed or got no answer, or twice.
Receive(r, k, f) ==
  /\ pc[r] = "idle"
  /\ f <= now
  /\ requests < MaxRequests
  /\ requests' = requests + 1
  /\ Start(r, k, now, f, IF k = "recap" THEN RecapOrgs ELSE Orgs)
  /\ UNCHANGED <<now, claims, posts, forFiring, faultVars>>

Slot(r, o) == [kind |-> kind[r], org |-> o, minute |-> minute[r]]

\* A tick with stale reminders to come once its recap loop is done.
StaleToCome(r) == r \in Loops /\ kind[r] = "recap" /\ minute[r] \in StaleDue

\* What runner r has begun and not done: the rest of its for loop, the job it
\* runs, and what a tick does after that.
Owed(r) ==
  {Slot(r, o) : o \in todo[r] \cup ({org[r]} \ {None})} \cup
  (IF StaleToCome(r) THEN [kind : {"stale"}, org : Orgs, minute : {minute[r]}] ELSE {})

FiringSlot(r) == [kind |-> kind[r], org |-> org[r], minute |-> firing[r]]

\* Seeded fault: a lost claim ends the tick or the request.
ClaimOrReturn(r, o) ==
  /\ pc[r] = "claim"
  /\ o \in todo[r]
  /\ claims' = claims \cup {Slot(r, o)}
  /\ IF Slot(r, o) \in claims
       THEN Rest(r)
       ELSE /\ todo' = [todo EXCEPT ![r] = @ \ {o}]
            /\ pc' = [pc EXCEPT ![r] = "run"]
            /\ org' = [org EXCEPT ![r] = o]
            /\ UNCHANGED <<kind, minute, firing>>
  /\ UNCHANGED <<now, posts, forFiring, requests, faultVars>>

\* Seeded fault: the slot is claimed once its job has run.
ClaimUnlessPosted(r, o) ==
  /\ pc[r] = "claim"
  /\ o \in todo[r]
  /\ todo' = [todo EXCEPT ![r] = @ \ {o}]
  /\ claims' = claims \cup {Slot(r, o)}
  /\ IF posts[Slot(r, o)] > 0
       THEN UNCHANGED <<pc, org>>
       ELSE /\ pc' = [pc EXCEPT ![r] = "run"]
            /\ org' = [org EXCEPT ![r] = o]
  /\ UNCHANGED <<now, posts, forFiring, requests, kind, minute, firing, faultVars>>

\* Take the next organisation of the for loop: claim_scheduled_run, an INSERT
\* ... ON CONFLICT DO NOTHING.  Rows come in no particular order.
Claim(r, o) ==
  /\ pc[r] = "claim"
  /\ o \in todo[r]
  /\ todo' = [todo EXCEPT ![r] = @ \ {o}]
  /\ claims' = claims \cup {Slot(r, o)}
  /\ IF Slot(r, o) \in claims
       THEN UNCHANGED <<pc, org>>
       ELSE /\ pc' = [pc EXCEPT ![r] = "run"]
            /\ org' = [org EXCEPT ![r] = o]
  /\ UNCHANGED <<now, posts, forFiring, requests, kind, minute, firing, faultVars>>

Posts(r) ==
  /\ posts' = [posts EXCEPT ![Slot(r, org[r])] = @ + 1]
  /\ forFiring' = IF r \in Requests
                    THEN [forFiring EXCEPT ![FiringSlot(r)] = @ + 1]
                    ELSE forFiring

\* Seeded fault: the for loop comes back to a job that has run.
RunForgettingOrg(r) ==
  /\ pc[r] = "run"
  /\ Posts(r)
  /\ org' = [org EXCEPT ![r] = None]
  /\ UNCHANGED <<now, claims, requests, pc, kind, minute, firing, todo, faultVars>>

\* run_recap_for_org or run_stale_reminders_for_org.  One post stands for all
\* the messages of the job.
Run(r) ==
  /\ pc[r] = "run"
  /\ Posts(r)
  /\ pc' = [pc EXCEPT ![r] = "claim"]
  /\ org' = [org EXCEPT ![r] = None]
  /\ UNCHANGED <<now, claims, requests, kind, minute, firing, todo, faultVars>>

\* The end of a for loop.  The recap loop of a tick is followed by the stale
\* loop, if its cron matches; the endpoints have one loop each.
EndLoop(r) ==
  /\ pc[r] = "claim"
  /\ todo[r] = {}
  /\ IF StaleToCome(r)
       THEN Start(r, "stale", minute[r], firing[r], Orgs)
       ELSE Rest(r)
  /\ UNCHANGED <<now, claims, posts, forFiring, requests, faultVars>>

\* An exception, or the end of the process, at any await.  No claim is given
\* back.  The rest of the tick, or of the request, is not done: the loop logs
\* the exception and sleeps (a new process does too), the endpoint answers 500
\* or not at all.  A claim or a post whose answer got lost has happened.
Fail(r) ==
  /\ pc[r] \in {"claim", "run"}
  /\ failures < MaxFailures
  /\ failures' = failures + 1
  /\ failed' = failed \cup Owed(r)
  /\ \/ UNCHANGED <<claims, posts, forFiring>>
     \/ /\ pc[r] = "claim"
        /\ \E o \in todo[r] : claims' = claims \cup {Slot(r, o)}
        /\ UNCHANGED <<posts, forFiring>>
     \/ pc[r] = "run" /\ Posts(r) /\ UNCHANGED claims
  /\ Rest(r)
  /\ UNCHANGED <<now, requests>>

Work(r) == Run(r) \/ EndLoop(r) \/ \E o \in Orgs : Claim(r, o)

Next ==
  \/ ClockTicks
  \/ \E r \in Loops : Wake(r)
  \/ \E r \in Requests, k \in Kinds, f \in Minutes : Receive(r, k, f)
  \/ \E r \in Runners : Work(r) \/ Fail(r)

\* A tick or a request that has begun goes on.
Spec == Init /\ [][Next]_vars /\ \A r \in Runners : WF_vars(Work(r))

-----------------------------------------------------------------------------
(* Properties *)

\* "Retries or overlapping crons can't double-post" (routers/internal.py): in
\* any interleaving of loops, requests and failures, the job of a slot posts
\* once at most.
AtMostOnce == \A s \in Slots : posts[s] <= 1

\* Whatever a runner has begun gets done, by it or by the one that took the
\* slot from under it: a due job is lost only to a runner that failed with the
\* job before it, never to the race for claims.
Served ==
  \A s \in Slots :
    (\E r \in Runners : pc[r] \in {"claim", "run"} /\ s \in Owed(r))
      ~> (posts[s] = 1 \/ s \in failed)

\* "Firing the same job twice (multiple instances, cron retries) is harmless"
\* (README): one firing of the external cron, however often its request is
\* repeated, posts the job of an organisation once at most.
RetryHarmless == \A s \in Slots : forFiring[s] <= 1
=============================================================================
