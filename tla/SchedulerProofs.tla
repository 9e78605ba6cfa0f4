--------------------------- MODULE SchedulerProofs ---------------------------
(***************************************************************************)
(* What holds of Scheduler for any organisations, cron schedules, loops    *)
(* and requests, and however often a runner fails.                         *)
(***************************************************************************)
EXTENDS Scheduler, TLAPS

(* The inductive invariant *)

RunSlot(r) == Slot(r, org[r])

\* A slot has posted only if it is claimed; a runner that has claimed a slot
\* and not yet run its job is alone with it.
Unposted == \A s \in Slots \ claims : posts[s] = 0

RunAlone ==
  /\ \A r \in Runners :
       pc[r] = "run" => RunSlot(r) \in claims /\ posts[RunSlot(r)] = 0
  /\ \A q, r \in Runners :
       pc[q] = "run" /\ pc[r] = "run" /\ RunSlot(q) = RunSlot(r) => q = r

IInv == TypeOK /\ AtMostOnce /\ Unposted /\ RunAlone

-----------------------------------------------------------------------------
(* Lemmas *)

\* What a runner works on is a slot.
LEMMA SlotType ==
  ASSUME TypeOK, NEW r \in Runners, NEW o \in Orgs
  PROVE  Slot(r, o) \in Slots
BY DEF TypeOK, Slot, Slots

LEMMA FiringSlotType ==
  ASSUME TypeOK, NEW r \in Runners, pc[r] = "run"
  PROVE  FiringSlot(r) \in Slots
BY DEF TypeOK, FiringSlot, Slots

\* A runner that ends leaves its variables as it found them.
LEMMA RestType ==
  ASSUME TypeOK, NEW r \in Runners, Rest(r)
  PROVE  /\ pc' \in [Runners -> {"asleep", "idle", "claim", "run"}]
         /\ kind' \in [Runners -> Kinds]
         /\ minute' \in [Runners -> Minutes]
         /\ firing' \in [Runners -> Minutes]
         /\ todo' \in [Runners -> SUBSET Orgs]
         /\ org' \in [Runners -> Orgs \cup {None}]
         /\ \A q \in Runners : pc'[q] = "run" => org'[q] \in Orgs
  <1>1. 1 \in Minutes
    BY SchedulerAssumption DEF Minutes
  <1>. QED BY <1>1 DEF TypeOK, Rest, Resting, Kinds

LEMMA StartType ==
  ASSUME TypeOK, NEW r \in Runners, NEW k \in Kinds, NEW m \in Minutes, NEW f \in Minutes,
         NEW orgs \in SUBSET Orgs, Start(r, k, m, f, orgs)
  PROVE  /\ pc' \in [Runners -> {"asleep", "idle", "claim", "run"}]
         /\ kind' \in [Runners -> Kinds]
         /\ minute' \in [Runners -> Minutes]
         /\ firing' \in [Runners -> Minutes]
         /\ todo' \in [Runners -> SUBSET Orgs]
         /\ org' \in [Runners -> Orgs \cup {None}]
         /\ \A q \in Runners : pc'[q] = "run" => org'[q] \in Orgs
BY DEF TypeOK, Start

\* A step that posts nothing, gives no claim back and leaves no runner at a new
\* job keeps what is said of posts.
LEMMA NoPostStep ==
  ASSUME IInv, UNCHANGED posts, claims \subseteq claims',
         \A r \in Runners : pc'[r] = "run" =>
           pc[r] = "run" /\ kind'[r] = kind[r] /\ minute'[r] = minute[r] /\ org'[r] = org[r]
  PROVE  (AtMostOnce /\ Unposted /\ RunAlone)'
BY DEF IInv, AtMostOnce, Unposted, RunAlone, RunSlot, Slot

\* What the job of a runner adds to the posts.
LEMMA PostsStep ==
  ASSUME IInv, NEW r \in Runners, pc[r] = "run", Posts(r)
  PROVE  /\ posts' \in [Slots -> Nat] /\ forFiring' \in [Slots -> Nat]
         /\ posts'[RunSlot(r)] = 1
         /\ \A s \in Slots \ {RunSlot(r)} : posts'[s] = posts[s]
  <1>1. RunSlot(r) \in Slots /\ FiringSlot(r) \in Slots
    BY SlotType, FiringSlotType DEF IInv, TypeOK, RunSlot
  <1>2. posts[RunSlot(r)] = 0
    BY DEF IInv, RunAlone
  <1>. QED BY <1>1, <1>2 DEF IInv, TypeOK, Posts, RunSlot

\* A runner that posts and leaves its job keeps the slots' posts at one.
LEMMA PostStep ==
  ASSUME IInv, NEW r \in Runners, pc[r] = "run", Posts(r), UNCHANGED claims, pc'[r] # "run",
         \A q \in Runners \ {r} :
           pc'[q] = pc[q] /\ kind'[q] = kind[q] /\ minute'[q] = minute[q] /\ org'[q] = org[q]
  PROVE  (AtMostOnce /\ Unposted /\ RunAlone)'
  <1>1. \A q \in Runners : pc[q] = "run" => RunSlot(q) \in Slots
    BY SlotType DEF IInv, TypeOK, RunSlot
  <1>2. \A q \in Runners : pc'[q] = "run" => q # r /\ pc[q] = "run" /\ RunSlot(q)' = RunSlot(q)
    BY DEF RunSlot, Slot
  <1>3. AtMostOnce'
    BY PostsStep DEF IInv, AtMostOnce
  <1>4. Unposted'
    BY PostsStep DEF IInv, Unposted, RunAlone
  <1>5. RunAlone'
    BY <1>1, <1>2, PostsStep DEF IInv, RunAlone
  <1>. QED BY <1>3, <1>4, <1>5

LEMMA InitInvariant == Init => IInv
  <1>. SUFFICES ASSUME Init PROVE IInv
    OBVIOUS
  <1>1. 1 \in Minutes
    BY SchedulerAssumption DEF Minutes
  <1>2. TypeOK
    BY <1>1 DEF Init, TypeOK, Resting, Kinds
  <1>3. AtMostOnce /\ Unposted /\ RunAlone
    BY DEF Init, AtMostOnce, Unposted, RunAlone, Resting
  <1>. QED BY <1>2, <1>3 DEF IInv

LEMMA ClaimStep ==
  ASSUME IInv, NEW r \in Runners, NEW o \in Orgs, Claim(r, o)
  PROVE  IInv'
  <1>. USE DEF IInv, Claim, faultVars
  <1>1. Slot(r, o) \in Slots
    BY SlotType
  <1>2. TypeOK'
    BY <1>1 DEF TypeOK
  <1>3. CASE Slot(r, o) \in claims
    BY <1>2, <1>3, NoPostStep
  <1>4. CASE Slot(r, o) \notin claims
    <2>1. /\ RunSlot(r)' = Slot(r, o) /\ pc'[r] = "run"
          /\ \A q \in Runners \ {r} : pc'[q] = pc[q] /\ RunSlot(q)' = RunSlot(q)
      BY <1>4 DEF TypeOK, RunSlot, Slot
    <2>2. AtMostOnce' /\ Unposted'
      BY DEF AtMostOnce, Unposted
    <2>3. RunAlone'
      BY <1>1, <1>4, <2>1 DEF RunAlone, Unposted
    <2>. QED BY <1>2, <2>2, <2>3
  <1>. QED BY <1>3, <1>4

LEMMA RunStep ==
  ASSUME IInv, NEW r \in Runners, Run(r)
  PROVE  IInv'
  <1>. USE DEF IInv, Run, faultVars
  <1>1. TypeOK'
    BY PostsStep DEF TypeOK
  <1>2. /\ pc'[r] # "run"
        /\ \A q \in Runners \ {r} :
             pc'[q] = pc[q] /\ kind'[q] = kind[q] /\ minute'[q] = minute[q] /\ org'[q] = org[q]
    BY DEF TypeOK
  <1>. QED BY <1>1, <1>2, PostStep

\* Wake, Receive and the move to the stale loop start a runner; the end of the
\* last loop rests it.
LEMMA StartStep ==
  ASSUME IInv, NEW r \in Runners,
         Wake(r) \/ EndLoop(r) \/ \E k \in Kinds, f \in Minutes : Receive(r, k, f)
  PROVE  IInv'
  <1>. USE DEF IInv, faultVars
  <1>1. \/ Rest(r)
        \/ \E k \in Kinds, m, f \in Minutes, orgs \in SUBSET Orgs : Start(r, k, m, f, orgs)
    <2>1. CASE Wake(r)
      BY <2>1, SchedulerAssumption DEF Wake, TypeOK, Kinds
    <2>2. CASE EndLoop(r)
      BY <2>2 DEF EndLoop, TypeOK, Kinds
    <2>3. CASE \E k \in Kinds, f \in Minutes : Receive(r, k, f)
      BY <2>3, SchedulerAssumption DEF Receive, TypeOK
    <2>. QED BY <2>1, <2>2, <2>3
  <1>2. /\ UNCHANGED <<now, claims, posts, forFiring, failed, failures>>
        /\ requests' \in Nat
    BY DEF Wake, EndLoop, Receive, TypeOK
  <1>3. TypeOK'
    BY <1>1, <1>2, RestType, StartType DEF TypeOK
  <1>4. \A q \in Runners : pc'[q] = "run" =>
          pc[q] = "run" /\ kind'[q] = kind[q] /\ minute'[q] = minute[q] /\ org'[q] = org[q]
    BY <1>1 DEF Start, Rest, Resting, TypeOK
  <1>. QED BY <1>2, <1>3, <1>4, NoPostStep

LEMMA FailStep ==
  ASSUME IInv, NEW r \in Runners, Fail(r)
  PROVE  IInv'
  <1>. USE DEF IInv
  <1>1. Rest(r) /\ UNCHANGED <<now, requests>> /\ failures' \in Nat
    BY DEF Fail, TypeOK
  <1>2. failed' \subseteq Slots
    BY DEF Fail, Owed, Slot, Slots, TypeOK, Kinds
  <1>3. /\ pc'[r] # "run"
        /\ \A q \in Runners \ {r} :
             pc'[q] = pc[q] /\ kind'[q] = kind[q] /\ minute'[q] = minute[q] /\ org'[q] = org[q]
    BY <1>1 DEF Rest, Resting, TypeOK
  <1>4. CASE UNCHANGED <<posts, forFiring>> /\ claims' \subseteq Slots /\ claims \subseteq claims'
    <2>1. TypeOK'
      BY <1>1, <1>2, <1>4, RestType DEF TypeOK
    <2>. QED BY <1>3, <1>4, <2>1, NoPostStep
  <1>5. CASE pc[r] = "run" /\ Posts(r) /\ UNCHANGED claims
    <2>1. TypeOK'
      BY <1>1, <1>2, <1>5, RestType, PostsStep DEF TypeOK
    <2>. QED BY <1>3, <1>5, <2>1, PostStep
  <1>6. ASSUME NEW o \in todo[r], claims' = claims \cup {Slot(r, o)}
        PROVE  claims' \subseteq Slots /\ claims \subseteq claims'
    BY <1>6, SlotType DEF TypeOK
  <1>. QED BY <1>4, <1>5, <1>6 DEF Fail, TypeOK

LEMMA StepInvariant == IInv /\ [Next]_vars => IInv'
  <1>. SUFFICES ASSUME IInv, [Next]_vars PROVE IInv'
    OBVIOUS
  <1>1. CASE UNCHANGED vars
    <2>1. TypeOK'
      BY <1>1 DEF IInv, TypeOK, vars, runnerVars, faultVars
    <2>. QED BY <1>1, <2>1, NoPostStep DEF IInv, vars, runnerVars
  <1>2. CASE ClockTicks
    <2>1. TypeOK'
      BY <1>2, SchedulerAssumption DEF ClockTicks, Minutes, IInv, TypeOK, runnerVars, faultVars
    <2>. QED BY <1>2, <2>1, NoPostStep DEF ClockTicks, IInv, runnerVars
  <1>3. ASSUME NEW r \in Loops, Wake(r) PROVE IInv'
    BY <1>3, StartStep DEF Runners
  <1>4. ASSUME NEW r \in Requests, NEW k \in Kinds, NEW f \in Minutes, Receive(r, k, f)
        PROVE  IInv'
    BY <1>4, StartStep DEF Runners, Wake, Receive, Start
  <1>5. ASSUME NEW r \in Runners, Work(r) PROVE IInv'
    BY <1>5, RunStep, ClaimStep, StartStep DEF Work, EndLoop, Wake
  <1>6. ASSUME NEW r \in Runners, Fail(r) PROVE IInv'
    BY <1>6, FailStep
  <1>. QED BY <1>1, <1>2, <1>3, <1>4, <1>5, <1>6 DEF Next

-----------------------------------------------------------------------------
(* Theorems *)

\* The inductive invariant holds throughout.
THEOREM Invariance == Spec => []IInv
BY InitInvariant, StepInvariant, PTL DEF Spec

\* Every variable keeps its type.
THEOREM TypeCorrect == Spec => []TypeOK
  <1>1. IInv => TypeOK
    BY DEF IInv
  <1>. QED BY <1>1, Invariance, PTL

\* The job of a slot posts once at most, whatever loops, requests and failures
\* come in each other's way.
THEOREM PostsAtMostOnce == Spec => []AtMostOnce
  <1>1. IInv => AtMostOnce
    BY DEF IInv
  <1>. QED BY <1>1, Invariance, PTL
=============================================================================
