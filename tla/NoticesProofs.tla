---------------------------- MODULE NoticesProofs -----------------------------
(***************************************************************************)
(* What the app shows of a pull request outside its conversation.  Of Cards: *)
(* the pending-review clock, the columns of the row and the cards that show *)
(* it, for any number of handlers, reviewers, webhooks and channels.  Of     *)
(* CINotices: the bookmark and the recaps, for any number of refreshes,      *)
(* commits, changes of the checks and failures.                             *)
(***************************************************************************)
EXTENDS Cards, CINotices, TLAPS, FiniteSetTheorems

-----------------------------------------------------------------------------
(* CARDS *)

(* The inductive invariant *)

\* Rows and jobs have the fields they are built with.
IsRow(r) ==
  \E id, title, draft, reviewers, clock :
    r = [id |-> id, title |-> title, draft |-> draft, reviewers |-> reviewers,
         clock |-> clock]
IsJob(j) ==
  \E todo, on, snap, chan, found :
    j = [todo |-> todo, on |-> on, snap |-> snap, chan |-> chan, found |-> found]

\* A handler at work is at work on a webhook GitHub has sent, which has a number.
Numbered(j) == j.todo = <<>> \/ j.on # 0

Typed ==
  /\ events \in Seq(Events) /\ 0 \notin queue
  /\ IsRow(row)
  /\ job = [h \in Workers |-> job[h]]
  /\ \A h \in Workers : IsJob(job[h]) /\ IsRow(job[h].snap) /\ Numbered(job[h])

\* The clock of a row runs while somebody is asked.
Clocked(r) == r.reviewers # {} <=> r.clock # 0

\* So do the row's and those of all the readings of it that handlers hold, as
\* long as no two changes of the reviewers crossed.
AllClocked ==
  "reviewers" \notin crossed => Clocked(row) /\ \A h \in Workers : Clocked(job[h].snap)

IInv == Typed /\ AllClocked

-----------------------------------------------------------------------------
(* Steps *)

\* What a step changes of a job, and what it leaves.
LEMMA JobFields ==
  ASSUME NEW todo, NEW on, NEW snap, NEW chan, NEW found, NEW j,
         j = [todo |-> todo, on |-> on, snap |-> snap, chan |-> chan, found |-> found]
  PROVE  /\ IsJob(j) /\ j.todo = todo /\ j.on = on /\ j.snap = snap /\ j.chan = chan
         /\ j.found = found
BY DEF IsJob

LEMMA SetTodo ==
  ASSUME NEW k, IsJob(k), NEW a, NEW j, j = [k EXCEPT !.todo = a]
  PROVE  IsJob(j) /\ j.todo = a /\ j.on = k.on /\ j.snap = k.snap /\ j.chan = k.chan /\ j.found = k.found
  <1>1. PICK todo, on, snap, chan, found :
          k = [todo |-> todo, on |-> on, snap |-> snap, chan |-> chan, found |-> found]
    BY DEF IsJob
  <1>2. [k EXCEPT !.todo = a] = [todo |-> a, on |-> on, snap |-> snap, chan |-> chan, found |-> found]
    BY ONLY <1>1
  <1>3. j = [todo |-> a, on |-> on, snap |-> snap, chan |-> chan, found |-> found]
    BY ONLY <1>2, j = [k EXCEPT !.todo = a], Zenon
  <1>. QED BY ONLY <1>1, <1>3, JobFields

LEMMA SetSnap ==
  ASSUME NEW k, IsJob(k), NEW a, NEW j, j = [k EXCEPT !.snap = a]
  PROVE  IsJob(j) /\ j.todo = k.todo /\ j.on = k.on /\ j.snap = a /\ j.chan = k.chan /\ j.found = k.found
  <1>1. PICK todo, on, snap, chan, found :
          k = [todo |-> todo, on |-> on, snap |-> snap, chan |-> chan, found |-> found]
    BY DEF IsJob
  <1>2. [k EXCEPT !.snap = a] = [todo |-> todo, on |-> on, snap |-> a, chan |-> chan, found |-> found]
    BY ONLY <1>1
  <1>3. j = [todo |-> todo, on |-> on, snap |-> a, chan |-> chan, found |-> found]
    BY ONLY <1>2, j = [k EXCEPT !.snap = a], Zenon
  <1>. QED BY ONLY <1>1, <1>3, JobFields

LEMMA SetChan ==
  ASSUME NEW k, IsJob(k), NEW a, NEW j, j = [k EXCEPT !.chan = a]
  PROVE  IsJob(j) /\ j.todo = k.todo /\ j.on = k.on /\ j.snap = k.snap /\ j.chan = a /\ j.found = k.found
  <1>1. PICK todo, on, snap, chan, found :
          k = [todo |-> todo, on |-> on, snap |-> snap, chan |-> chan, found |-> found]
    BY DEF IsJob
  <1>2. [k EXCEPT !.chan = a] = [todo |-> todo, on |-> on, snap |-> snap, chan |-> a, found |-> found]
    BY ONLY <1>1
  <1>3. j = [todo |-> todo, on |-> on, snap |-> snap, chan |-> a, found |-> found]
    BY ONLY <1>2, j = [k EXCEPT !.chan = a], Zenon
  <1>. QED BY ONLY <1>1, <1>3, JobFields

LEMMA SetFound ==
  ASSUME NEW k, IsJob(k), NEW a, NEW j, j = [k EXCEPT !.found = a]
  PROVE  IsJob(j) /\ j.todo = k.todo /\ j.on = k.on /\ j.snap = k.snap /\ j.chan = k.chan /\ j.found = a
  <1>1. PICK todo, on, snap, chan, found :
          k = [todo |-> todo, on |-> on, snap |-> snap, chan |-> chan, found |-> found]
    BY DEF IsJob
  <1>2. [k EXCEPT !.found = a] = [todo |-> todo, on |-> on, snap |-> snap, chan |-> chan, found |-> a]
    BY ONLY <1>1
  <1>3. j = [todo |-> todo, on |-> on, snap |-> snap, chan |-> chan, found |-> a]
    BY ONLY <1>2, j = [k EXCEPT !.found = a], Zenon
  <1>. QED BY ONLY <1>1, <1>3, JobFields

LEMMA JobSet ==
  ASSUME NEW k, IsJob(k), NEW a, NEW j,
         \/ j = [k EXCEPT !.todo = a] \/ j = [k EXCEPT !.found = a]
         \/ j = [k EXCEPT !.chan = a]
  PROVE  IsJob(j) /\ j.on = k.on /\ j.snap = k.snap
  <1>1. CASE j = [k EXCEPT !.todo = a]
    BY ONLY <1>1, IsJob(k), SetTodo
  <1>2. CASE j = [k EXCEPT !.found = a]
    BY ONLY <1>2, IsJob(k), SetFound
  <1>3. CASE j = [k EXCEPT !.chan = a]
    BY ONLY <1>3, IsJob(k), SetChan
  <1>. QED BY <1>1, <1>2, <1>3

LEMMA JobSetTwo ==
  ASSUME NEW k, NEW a, NEW b
  PROVE  /\ [k EXCEPT !.chan = a, !.todo = b] = [[k EXCEPT !.chan = a] EXCEPT !.todo = b]
         /\ [k EXCEPT !.snap = a, !.todo = b] = [[k EXCEPT !.snap = a] EXCEPT !.todo = b]
OBVIOUS

LEMMA NoRowClocked == IsRow(NoRow) /\ Clocked(NoRow) /\ NoRow.clock = 0
BY DEF NoRow, IsRow, Clocked

LEMMA IdleRests == IsJob(Idle) /\ IsRow(Idle.snap) /\ Numbered(Idle) /\ Clocked(Idle.snap)
  <1>1. Idle.snap = NoRow /\ Idle.todo = <<>> /\ IsJob(Idle)
    BY DEF Idle, IsJob
  <1>. QED BY <1>1, NoRowClocked DEF Numbered

\* A handler's step: j is what it is at afterwards.
LEMMA HandlerStep ==
  ASSUME IInv, NEW h \in Workers, NEW j,
         UNCHANGED events, queue' \subseteq queue, crossed \subseteq crossed',
         Become(h, j), IsJob(j), IsRow(j.snap), Numbered(j), IsRow(row)',
         "reviewers" \notin crossed' => Clocked(row)' /\ Clocked(j.snap)
  PROVE  IInv'
  <1>1. /\ job' = [g \in Workers |-> job'[g]] /\ job'[h] = j
        /\ \A g \in Workers \ {h} : job'[g] = job[g]
    BY DEF IInv, Typed, Become
  <1>2. \A g \in Workers : IsJob(job'[g]) /\ IsRow(job'[g].snap) /\ Numbered(job'[g])
    <2>1. ASSUME NEW g \in Workers
          PROVE  IsJob(job'[g]) /\ IsRow(job'[g].snap) /\ Numbered(job'[g])
      <3>1. CASE g = h
        BY <3>1, <1>1
      <3>2. CASE g # h
        BY <3>2, <1>1 DEF IInv, Typed
      <3>. QED BY <3>1, <3>2
    <2>. QED BY <2>1
  <1>3. Typed'
    <2>1. events' \in Seq(Events) /\ 0 \notin queue'
      BY DEF IInv, Typed
    <2>. QED BY <1>1, <1>2, <2>1 DEF Typed, IsJob, IsRow, Numbered
  <1>4. AllClocked'
    <2>1. ASSUME "reviewers" \notin crossed', NEW g \in Workers
          PROVE  Clocked(job'[g].snap)
      <3>1. CASE g = h
        BY <3>1, <2>1, <1>1
      <3>2. CASE g # h
        BY <3>2, <2>1, <1>1 DEF IInv, AllClocked
      <3>. QED BY <3>1, <3>2
    <2>2. ASSUME "reviewers" \notin crossed'
          PROVE  (Clocked(row) /\ \A g \in Workers : Clocked(job[g].snap))'
      BY <2>1, <2>2 DEF Clocked
    <2>. QED BY <2>2 DEF AllClocked
  <1>. QED BY <1>3, <1>4 DEF IInv

\* A step that leaves the row alone, after which the handler holds the reading
\* it held, or the row as it is, or none.
LEMMA AsideStep ==
  ASSUME IInv, NEW h \in Workers, NEW j,
         UNCHANGED <<events, row, crossed>>, queue' \subseteq queue,
         Become(h, j), IsJob(j), Numbered(j),
         j.snap \in {job[h].snap, row, NoRow}
  PROVE  IInv'
  <1>1. IsRow(row)' /\ (Clocked(row) => Clocked(row)')
    BY DEF IInv, Typed, IsRow, Clocked
  <1>2. IsRow(j.snap)
    BY NoRowClocked DEF IInv, Typed
  <1>3. "reviewers" \notin crossed => Clocked(row) /\ Clocked(j.snap)
    BY NoRowClocked DEF IInv, AllClocked
  <1>. QED BY <1>1, <1>2, <1>3, HandlerStep

\* It ends.
LEMMA StopStep ==
  ASSUME IInv, NEW h \in Workers, Stop(h),
         UNCHANGED <<events, row, crossed>>, queue' \subseteq queue
  PROVE  IInv'
  <1>1. Become(h, Idle) /\ Idle.snap = NoRow
    BY DEF Stop, Idle
  <1>. QED BY <1>1, IdleRests, AsideStep

\* It goes on.
LEMMA GoOnStep ==
  ASSUME IInv, NEW h \in Workers, Working(h), NEW j,
         IsJob(j), j.on = job[h].on, j.snap \in {job[h].snap, row},
         Become(h, j), UNCHANGED <<events, row, crossed, queue>>
  PROVE  IInv'
  <1>1. job[h].on # 0
    BY DEF IInv, Typed, Numbered, Working
  <1>. QED BY <1>1, AsideStep DEF Numbered

-----------------------------------------------------------------------------
(* The actions *)

\* GitHub, the organisation's people and Slack's.
LEMMA OutsideStep ==
  ASSUME IInv,
         \/ Happens
         \/ \E n \in DOMAIN events : Redeliver(n)
         \/ \E c \in Places : Repoint(c)
         \/ \E t \in DOMAIN cards : DeletedByHand(t)
  PROVE  IInv'
  <1>1. UNCHANGED <<row, job, crossed>>
    BY DEF Happens, Redeliver, Repoint, DeletedByHand, rows, traces
  <1>2. events' \in Seq(Events) /\ 0 \notin queue'
    <2>1. CASE UNCHANGED <<events, queue>>
      BY <2>1 DEF IInv, Typed
    <2>2. CASE \E n \in DOMAIN events : queue' = queue \cup {n} /\ UNCHANGED events
      BY <2>2 DEF IInv, Typed
    <2>3. ASSUME NEW what \in {"opened", "title", "draft", "asked", "unasked", "saved", "deleted"},
                 NEW draft \in BOOLEAN, NEW reviewers \in SUBSET People,
                 Send(what, draft, reviewers)
          PROVE  events' \in Seq(Events) /\ 0 \notin queue'
      <3>1. [what |-> what, draft |-> draft, reviewers |-> reviewers] \in Events
        BY DEF Events
      <3>. HIDE DEF Events
      <3>. QED BY <2>3, <3>1 DEF Send, IInv, Typed
    <2>4. CASE Happens
      <3>1. events # <<>> => Last(events) \in Events
        BY DEF IInv, Typed, Last
      <3>2. events # <<>> => /\ Last(events).draft \in BOOLEAN
                             /\ Last(events).reviewers \in SUBSET People
        BY <3>1 DEF Events
      <3>3. CASE \E draft \in BOOLEAN, some \in SUBSET People : Send("opened", draft, some)
        BY <2>3, <3>3
      <3>4. CASE /\ events # <<>>
                 /\ \/ Send("title", Last(events).draft, Last(events).reviewers)
                    \/ Send("draft", ~Last(events).draft, Last(events).reviewers)
                    \/ \E p \in People \ Last(events).reviewers :
                         Send("asked", Last(events).draft, Last(events).reviewers \cup {p})
                    \/ \E p \in Last(events).reviewers :
                         Send("unasked", Last(events).draft, Last(events).reviewers \ {p})
        <4>. DEFINE draft == Last(events).draft  some == Last(events).reviewers
        <4>1. draft \in BOOLEAN /\ some \in SUBSET People
          BY <3>2, <3>4
        <4>2. \A p \in People : some \cup {p} \in SUBSET People
          BY <4>1
        <4>3. \A p : some \ {p} \in SUBSET People
          BY <4>1
        <4>4. \/ Send("title", draft, some)
              \/ Send("draft", ~draft, some)
              \/ \E p \in People : Send("asked", draft, some \cup {p})
              \/ \E p : Send("unasked", draft, some \ {p})
          BY <3>4
        <4>. HIDE DEF draft, some
        <4>. QED BY <2>3, <4>1, <4>2, <4>3, <4>4
      <3>5. CASE Send("saved", FALSE, {}) \/ Send("deleted", FALSE, {})
        <4>1. FALSE \in BOOLEAN /\ {} \in SUBSET People
          OBVIOUS
        <4>2. CASE Send("saved", FALSE, {})
          BY <2>3, <4>1, <4>2
        <4>3. CASE Send("deleted", FALSE, {})
          BY <2>3, <4>1, <4>3
        <4>. QED BY <3>5, <4>2, <4>3
      <3>. QED BY <2>4, <3>3, <3>4, <3>5 DEF Happens, PRChanges, IssueChanges
    <2>5. CASE \E n \in DOMAIN events : Redeliver(n)
      BY <2>2, <2>5 DEF Redeliver
    <2>6. CASE \/ \E c \in Places : Repoint(c)
               \/ \E t \in DOMAIN cards : DeletedByHand(t)
      BY <2>1, <2>6 DEF Repoint, DeletedByHand, outside
    <2>. QED BY <2>4, <2>5, <2>6
  <1>3. Typed'
    <2>1. IsRow(row)'
      BY <1>1 DEF IInv, Typed, IsRow
    <2>2. job' = [h \in Workers |-> job'[h]]
      BY <1>1 DEF IInv, Typed
    <2>3. \A h \in Workers : IsJob(job'[h]) /\ IsRow(job'[h].snap) /\ Numbered(job'[h])
      BY <1>1 DEF IInv, Typed
    <2>. QED BY <1>2, <2>1, <2>2, <2>3 DEF Typed, IsJob, IsRow, Numbered
  <1>4. AllClocked'
    BY <1>1 DEF IInv, AllClocked, Clocked
  <1>. QED BY <1>3, <1>4 DEF IInv

LEMMA ReceiveStep ==
  ASSUME IInv, NEW h \in Workers, NEW n \in queue, Receive(h, n)
  PROVE  IInv'
  <1>. DEFINE j == [Idle EXCEPT !.todo = Flow[events[n].what], !.on = n]
  <1>1. /\ UNCHANGED <<events, row, crossed>> /\ queue' \subseteq queue
        /\ Become(h, j)
    BY DEF Receive, rows
  <1>2. IsJob(j) /\ j.snap = NoRow /\ j.on = n
    <2>1. PICK k, todo : k = [Idle EXCEPT !.todo = todo] /\ j = [k EXCEPT !.on = n]
      OBVIOUS
    <2>2. k = [todo |-> todo, on |-> 0, snap |-> NoRow, chan |-> NoPlace, found |-> 0]
      BY <2>1 DEF Idle
    <2>3. [k EXCEPT !.on = n]
          = [todo |-> todo, on |-> n, snap |-> NoRow, chan |-> NoPlace, found |-> 0]
      BY ONLY <2>2
    <2>4. j = [todo |-> todo, on |-> n, snap |-> NoRow, chan |-> NoPlace, found |-> 0]
      BY ONLY <2>1, <2>3, Zenon
    <2>. HIDE DEF j
    <2>. QED BY <2>4, JobFields
  <1>3. Numbered(j)
    BY <1>2 DEF IInv, Typed, Numbered
  <1>. HIDE DEF j
  <1>. QED BY <1>1, <1>2, <1>3, AsideStep

\* Steps of a handler that goes on with the reading it holds, or ends.
LEMMA PassingStep ==
  ASSUME IInv, NEW h \in Workers,
         \/ GetOrg(h) \/ InsertRaises(h) \/ Load(h) \/ Find(h) \/ Edit(h) \/ HoldBack(h)
         \/ Post(h) \/ Record(h) \/ TakeDown(h) \/ SlackFails(h) \/ Die(h)
  PROVE  IInv'
  <1>1. UNCHANGED <<events, queue, row, crossed>> /\ Working(h)
    BY DEF GetOrg, InsertRaises, Load, Find, Edit, HoldBack, Post, Record, TakeDown,
           SlackFails, Die, At, outside, rows, traces
  <1>2. IsJob(job[h])
    BY DEF IInv, Typed
  <1>3. CASE Stop(h)
    BY <1>1, <1>3, StopStep
  <1>4. ASSUME NEW j, Become(h, j), IsJob(j), j.on = job[h].on, j.snap \in {job[h].snap, row}
        PROVE  IInv'
    BY <1>1, <1>4, GoOnStep
  <1>5. ASSUME Step(h) PROVE IInv'
    <2>1. PICK rest : Become(h, [job[h] EXCEPT !.todo = rest])
      BY <1>5 DEF Step, Then
    <2>. QED BY <1>2, <1>4, <2>1, JobSet
  <1>6. ASSUME NEW ts, Then(h, [job[h] EXCEPT !.found = ts]) PROVE IInv'
    <2>1. PICK k, rest : k = [job[h] EXCEPT !.found = ts] /\ Become(h, [k EXCEPT !.todo = rest])
      BY <1>6 DEF Then
    <2>2. IsJob(k) /\ k.on = job[h].on /\ k.snap = job[h].snap
      BY <1>2, <2>1, JobSet
    <2>. QED BY <1>4, <2>1, <2>2, JobSet
  <1>7. CASE GetOrg(h) /\ ~Stop(h)
    <2>1. PICK k, rest : k = [job[h] EXCEPT !.chan = place] /\ Become(h, [k EXCEPT !.todo = rest])
      BY <1>7, JobSetTwo DEF GetOrg
    <2>2. IsJob(k) /\ k.on = job[h].on /\ k.snap = job[h].snap
      BY <1>2, <2>1, JobSet
    <2>. QED BY <1>4, <2>1, <2>2, JobSet
  <1>8. CASE Load(h) /\ ~Stop(h)
    <2>1. PICK k, rest : k = [job[h] EXCEPT !.snap = row] /\ Become(h, [k EXCEPT !.todo = rest])
      BY <1>8 DEF Load, Then
    <2>2. IsJob(k) /\ k.on = job[h].on /\ k.snap = row
      BY <1>2, <2>1, SetSnap
    <2>. QED BY <1>4, <2>1, <2>2, JobSet
  <1>9. CASE Find(h) \/ Post(h)
    BY <1>6, <1>9 DEF Find, Post
  <1>10. CASE TakeDown(h) \/ SlackFails(h)
    BY <1>3, <1>5, <1>10 DEF TakeDown, SlackFails
  <1>11. CASE InsertRaises(h) \/ Edit(h) \/ HoldBack(h) \/ Record(h) \/ Die(h)
    BY <1>3, <1>11 DEF InsertRaises, Edit, HoldBack, Record, Die
  <1>. QED BY <1>3, <1>7, <1>8, <1>9, <1>10, <1>11

LEMMA DropStep ==
  ASSUME IInv, NEW h \in Workers, Drop(h)
  PROVE  IInv' /\ row' \in {row, NoRow}
  <1>1. /\ UNCHANGED <<events, queue, crossed>> /\ Become(h, Idle)
        /\ row' \in {row, NoRow}
    BY DEF Drop, Stop, outside
  <1>2. IsRow(row)' /\ (Clocked(row) \/ row' = NoRow => Clocked(row)')
    BY <1>1, NoRowClocked DEF IInv, Typed, IsRow, Clocked
  <1>3. "reviewers" \notin crossed' => Clocked(row)' /\ Clocked(Idle.snap)
    BY <1>1, <1>2, IdleRests DEF IInv, AllClocked
  <1>. QED BY <1>1, <1>2, <1>3, IdleRests, HandlerStep

\* The row is new, nobody asked.
LEMMA FreshStep ==
  ASSUME IInv, NEW h \in Workers, Insert(h) \/ Save(h)
  PROVE  IInv' /\ row'.clock = 0
  <1>1. /\ UNCHANGED <<events, queue, crossed>> /\ Working(h)
    BY DEF Insert, Save, At, outside
  <1>2. PICK id, title, draft :
          row' = [id |-> id, title |-> title, draft |-> draft, reviewers |-> {}, clock |-> 0]
    <2>1. CASE Insert(h)
      BY <2>1 DEF Insert, NoRow
    <2>2. CASE Save(h)
      BY <2>2 DEF Save, NoRow
    <2>. QED BY <2>1, <2>2
  <1>3. IsRow(row') /\ row'.reviewers = {} /\ row'.clock = 0
    BY <1>2 DEF IsRow
  <1>4. IsJob(job[h]) /\ job[h].on # 0
    BY <1>1 DEF IInv, Typed, Numbered, Working
  <1>5. PICK new, k, rest, j :
          /\ new = row'
          /\ k = [job[h] EXCEPT !.snap = new] /\ j = [k EXCEPT !.todo = rest]
          /\ Become(h, j)
    BY JobSetTwo DEF Insert, Save, Then
  <1>6. IsJob(j) /\ j.snap = row' /\ j.on # 0
    <2>1. IsJob(k) /\ k.on = job[h].on /\ k.snap = new
      BY <1>4, <1>5, SetSnap
    <2>2. IsJob(j) /\ j.on = k.on /\ j.snap = k.snap
      <3>1. IsJob(k) /\ j = [k EXCEPT !.todo = rest]
        BY <1>5, <2>1
      <3>. QED BY ONLY <3>1, JobSet
    <2>3. j.on = job[h].on /\ j.snap = new
      BY ONLY <2>1, <2>2
    <2>4. j.snap = row'
      BY ONLY <1>5, <2>3
    <2>5. j.on # 0
      BY ONLY <1>4, <2>3
    <2>. QED BY <2>2, <2>4, <2>5
  <1>7. Clocked(row') /\ Numbered(j)
    BY <1>3, <1>6 DEF Clocked, Numbered
  <1>8. IsRow(row)' /\ Clocked(row)'
    BY <1>3, <1>7 DEF IsRow, Clocked
  <1>. QED BY <1>1, <1>3, <1>5, <1>6, <1>7, <1>8, HandlerStep

\* What a setter leaves of a reading r: only a request for a review, or the
\* end of one, touches the reviewers and their clock.
LEMMA ChangeMade ==
  ASSUME NEW r, IsRow(r), NEW n, NEW new, new = Changed(r, n)
  PROVE  \/ /\ events[n].what \in {"title", "draft"}
            /\ new.reviewers = r.reviewers /\ new.clock = r.clock
         \/ /\ events[n].what \notin {"title", "draft"}
            /\ new.reviewers = events[n].reviewers
            /\ new.clock = NextReviewRequestedAt(r.reviewers # {}, events[n].reviewers,
                                                 r.clock, n)
  <1>1. PICK id, title, draft, reviewers, clock :
          r = [id |-> id, title |-> title, draft |-> draft, reviewers |-> reviewers,
               clock |-> clock]
    BY DEF IsRow
  <1>2. PICK e, now : /\ e = events[n]
                      /\ now = NextReviewRequestedAt(r.reviewers # {}, e.reviewers, r.clock, n)
    OBVIOUS
  <1>3. CASE e.what = "title"
    <2>1. new = [r EXCEPT !.title = n]
      BY <1>2, <1>3 DEF Changed
    <2>2. [r EXCEPT !.title = n].reviewers = r.reviewers
          /\ [r EXCEPT !.title = n].clock = r.clock
      BY ONLY <1>1
    <2>. QED BY ONLY <2>1, <2>2, <1>2, <1>3
  <1>4. CASE e.what = "draft"
    <2>1. new = [r EXCEPT !.draft = e.draft]
      BY <1>2, <1>4 DEF Changed
    <2>2. [r EXCEPT !.draft = e.draft].reviewers = r.reviewers
          /\ [r EXCEPT !.draft = e.draft].clock = r.clock
      BY ONLY <1>1
    <2>. QED BY ONLY <2>1, <2>2, <1>2, <1>4
  <1>5. CASE e.what \notin {"title", "draft"}
    <2>1. new = [r EXCEPT !.reviewers = e.reviewers, !.clock = now]
      BY <1>2, <1>5 DEF Changed
    <2>2. [r EXCEPT !.reviewers = e.reviewers, !.clock = now].reviewers = e.reviewers
          /\ [r EXCEPT !.reviewers = e.reviewers, !.clock = now].clock = now
      BY ONLY <1>1
    <2>3. new.reviewers = e.reviewers /\ new.clock = now
      BY ONLY <2>1, <2>2, Zenon
    <2>. QED BY ONLY <2>3, <1>2, <1>5
  <1>. QED BY <1>3, <1>4, <1>5

\* What a commit leaves of the row: the columns that differ from the reading.
LEMMA CommitMade ==
  ASSUME NEW old, NEW new, IsRow(row), NEW now, now = Commit(old, new)
  PROVE  /\ IsRow(now)
         /\ now.reviewers = IF new.reviewers = old.reviewers THEN row.reviewers
                            ELSE new.reviewers
         /\ now.clock = IF new.clock = old.clock THEN row.clock ELSE new.clock
  <1>1. PICK id, title, draft, reviewers, clock :
          row = [id |-> id, title |-> title, draft |-> draft, reviewers |-> reviewers,
                 clock |-> clock]
    BY DEF IsRow
  <1>2. DOMAIN row = {"id", "title", "draft", "reviewers", "clock"}
    BY <1>1
  <1>3. now = [f \in DOMAIN row |-> IF new[f] = old[f] THEN row[f] ELSE new[f]]
    BY DEF Commit
  <1>4. now = [id |-> now.id, title |-> now.title, draft |-> now.draft,
               reviewers |-> now.reviewers, clock |-> now.clock]
    BY ONLY <1>2, <1>3
  <1>5. IsRow(now)
    BY ONLY <1>4, Zenon DEF IsRow
  <1>. QED BY ONLY <1>2, <1>3, <1>5

\* A commit of reviewers that nobody changed since the handler read them keeps
\* the clock of the row or starts one that stood still.
LEMMA WriteStep ==
  ASSUME IInv, NEW h \in Workers, Write(h)
  PROVE  /\ IInv'
         /\ "reviewers" \notin crossed' /\ row.clock # 0 /\ row'.clock # 0 =>
              row'.clock = row.clock
  <1>. DEFINE n == job[h].on  old == job[h].snap  asked == events[n].reviewers
  <1>1. PICK new, now :
          /\ new = Changed(old, n) /\ now = Commit(old, new) /\ row' = now
    BY DEF Write
  <1>2. UNCHANGED <<events, queue>> /\ Working(h) /\ crossed \subseteq crossed'
    BY DEF Write, At, outside
  <1>3. IsJob(job[h]) /\ IsRow(old) /\ IsRow(row) /\ n # 0
    BY <1>2 DEF IInv, Typed, Numbered, Working
  <1>4. /\ IsRow(now)
        /\ now.reviewers = IF new.reviewers = old.reviewers THEN row.reviewers
                           ELSE new.reviewers
        /\ now.clock = IF new.clock = old.clock THEN row.clock ELSE new.clock
    BY <1>1, <1>3, CommitMade
  <1>5. \/ /\ events[n].what \in {"title", "draft"}
           /\ new.reviewers = old.reviewers /\ new.clock = old.clock
        \/ /\ events[n].what \notin {"title", "draft"}
           /\ new.reviewers = asked
           /\ new.clock = NextReviewRequestedAt(old.reviewers # {}, asked, old.clock, n)
    BY <1>1, <1>3, ChangeMade
  <1>6. events[n].what \notin {"title", "draft"} /\ "reviewers" \notin crossed' =>
          row.reviewers = old.reviewers
    BY DEF Write, Event
  <1>7. "reviewers" \notin crossed' => Clocked(row) /\ Clocked(old)
    BY <1>2 DEF IInv, AllClocked
  <1>8. "reviewers" \notin crossed' =>
          /\ Clocked(now)
          /\ row.clock # 0 /\ now.clock # 0 => now.clock = row.clock
    <2>. SUFFICES ASSUME "reviewers" \notin crossed'
                  PROVE  /\ Clocked(now)
                         /\ row.clock # 0 /\ now.clock # 0 => now.clock = row.clock
      OBVIOUS
    <2>1. CASE new.reviewers = old.reviewers /\ new.clock = old.clock
      <3>1. now.reviewers = row.reviewers /\ now.clock = row.clock
        BY <1>4, <2>1
      <3>. QED BY <1>7, <3>1 DEF Clocked
    <2>2. CASE /\ new.reviewers = asked /\ row.reviewers = old.reviewers
               /\ new.clock = NextReviewRequestedAt(old.reviewers # {}, asked, old.clock, n)
      <3>1. now.reviewers = asked
        BY <1>4, <2>2
      <3>2. CASE asked = {}
        <4>1. new.clock = 0
          BY <2>2, <3>2 DEF NextReviewRequestedAt
        <4>2. now.clock = 0
          BY <1>4, <1>7, <2>2, <4>1 DEF Clocked
        <4>. QED BY <3>1, <3>2, <4>2 DEF Clocked
      <3>3. CASE asked # {} /\ old.reviewers = {}
        <4>1. new.clock = n
          BY <2>2, <3>3 DEF NextReviewRequestedAt
        <4>2. row.clock = 0 /\ old.clock = 0
          BY <1>7, <2>2, <3>3 DEF Clocked
        <4>3. now.clock = n
          BY <1>3, <1>4, <4>1, <4>2
        <4>. QED BY <1>3, <3>1, <3>3, <4>2, <4>3 DEF Clocked
      <3>4. CASE asked # {} /\ old.reviewers # {}
        <4>1. new.clock = old.clock
          BY <2>2, <3>4 DEF NextReviewRequestedAt
        <4>2. now.clock = row.clock /\ row.clock # 0
          BY <1>4, <1>7, <2>2, <3>4, <4>1 DEF Clocked
        <4>. QED BY <3>1, <3>4, <4>2 DEF Clocked
      <3>. QED BY <3>2, <3>3, <3>4
    <2>. QED BY <1>5, <1>6, <2>1, <2>2
  <1>9. PICK k, rest, j :
          /\ k = [job[h] EXCEPT !.snap = now] /\ j = [k EXCEPT !.todo = rest]
          /\ Become(h, j)
    BY <1>1 DEF Write, Then
  <1>10. IsJob(j) /\ j.snap = now /\ j.on = n
    <2>1. IsJob(k) /\ k.on = n /\ k.snap = now
      BY <1>3, <1>9, SetSnap
    <2>2. IsJob(j) /\ j.on = k.on /\ j.snap = k.snap
      <3>1. IsJob(k) /\ j = [k EXCEPT !.todo = rest]
        BY <1>9, <2>1
      <3>. QED BY ONLY <3>1, JobSet
    <2>. QED BY <2>1, <2>2
  <1>11. IsRow(row)' /\ Numbered(j)
    BY <1>1, <1>3, <1>4, <1>10 DEF IsRow, Numbered
  <1>12. "reviewers" \notin crossed' => Clocked(row)' /\ Clocked(j.snap)
    BY <1>1, <1>8, <1>10 DEF Clocked
  <1>13. IsRow(j.snap)
    BY <1>4, <1>10
  <1>14. IInv'
    BY <1>2, <1>9, <1>10, <1>11, <1>12, <1>13, HandlerStep
  <1>. QED BY <1>1, <1>8, <1>14

-----------------------------------------------------------------------------
(* The clock's theorem *)

LEMMA InitInvariant ==
  ASSUME CardsInit
  PROVE  IInv
  <1>1. events \in Seq(Events) /\ 0 \notin queue /\ row = NoRow
    BY DEF CardsInit
  <1>2. job = [h \in Workers |-> job[h]] /\ \A h \in Workers : job[h] = Idle
    BY DEF CardsInit
  <1>. QED BY <1>1, <1>2, NoRowClocked, IdleRests DEF IInv, Typed, AllClocked

\* What a step does to the clock of the row.
ClockKept ==
  "reviewers" \notin crossed' =>
    (row.clock # 0 /\ row'.clock # 0 => row'.clock = row.clock)

LEMMA StepInvariant ==
  ASSUME IInv, CardsNext
  PROVE  IInv' /\ ClockKept
  <1>1. CASE \/ Happens
             \/ \E n \in DOMAIN events : Redeliver(n)
             \/ \E c \in Places : Repoint(c)
             \/ \E t \in DOMAIN cards : DeletedByHand(t)
    <2>1. UNCHANGED row
      BY <1>1 DEF Happens, Redeliver, Repoint, DeletedByHand, rows
    <2>. QED BY <1>1, <2>1, OutsideStep DEF ClockKept
  <1>2. ASSUME NEW h \in Workers, Handle(h)
        PROVE  IInv' /\ ClockKept
    <2>1. CASE \E n \in queue : Receive(h, n)
      <3>1. UNCHANGED row
        BY <2>1 DEF Receive, rows
      <3>. QED BY <2>1, <3>1, ReceiveStep DEF ClockKept
    <2>2. CASE \/ GetOrg(h) \/ InsertRaises(h) \/ Load(h) \/ Find(h) \/ Edit(h) \/ HoldBack(h)
               \/ Post(h) \/ Record(h) \/ TakeDown(h) \/ SlackFails(h) \/ Die(h)
      <3>1. UNCHANGED row
        BY <2>2 DEF GetOrg, InsertRaises, Load, Find, Edit, HoldBack, Post, Record,
                    TakeDown, SlackFails, Die, rows
      <3>. QED BY <2>2, <3>1, PassingStep DEF ClockKept
    <2>3. CASE Insert(h) \/ Save(h)
      BY <2>3, FreshStep DEF ClockKept
    <2>4. CASE Write(h)
      BY <2>4, WriteStep DEF ClockKept
    <2>5. CASE Drop(h)
      BY <2>5, DropStep, NoRowClocked DEF ClockKept
    <2>. QED BY <1>2, <2>1, <2>2, <2>3, <2>4, <2>5 DEF Handle
  <1>. QED BY <1>1, <1>2 DEF CardsNext

\* A step that touches nothing.
LEMMA StutterInvariant ==
  ASSUME IInv, UNCHANGED cardVars
  PROVE  IInv' /\ ClockKept
  <1>1. UNCHANGED <<events, queue, row, job, crossed>>
    BY DEF cardVars, outside, rows, traces
  <1>2. IsRow(row)'
    BY <1>1 DEF IInv, Typed, IsRow
  <1>3. job' = [h \in Workers |-> job'[h]]
    BY <1>1 DEF IInv, Typed
  <1>4. \A h \in Workers : IsJob(job'[h]) /\ IsRow(job'[h].snap) /\ Numbered(job'[h])
    BY <1>1 DEF IInv, Typed
  <1>5. Typed'
    BY <1>1, <1>2, <1>3, <1>4 DEF IInv, Typed, IsJob, IsRow, Numbered
  <1>6. AllClocked'
    BY <1>1 DEF IInv, AllClocked, Clocked
  <1>. QED BY <1>1, <1>5, <1>6 DEF IInv, ClockKept

\* The pending-review clock runs exactly while somebody is asked for a review,
\* and no request, delivered again or handled beside others, restarts it
\* (queries.py:766-779), unless two changes of the reviewers crossed.
THEOREM ClockNeverRestarts == CardsSpec => ClockRuns
  <1>1. CardsInit => IInv
    BY InitInvariant
  <1>2. IInv /\ [CardsNext]_cardVars => IInv' /\ ClockKept
    BY StepInvariant, StutterInvariant
  <1>3. IInv' /\ ClockKept =>
          ("reviewers" \notin crossed' =>
             /\ row'.reviewers # {} <=> row'.clock # 0
             /\ row.clock # 0 /\ row'.clock # 0 => row'.clock = row.clock)
    BY DEF IInv, AllClocked, Clocked, ClockKept
  <1>. QED BY <1>1, <1>2, <1>3, PTL DEF CardsSpec, ClockRuns

-----------------------------------------------------------------------------
(* The cards and the columns *)

\* The step that follows a step, in the handler of an event.
Succ(what, step) ==
  CASE step = "org"    -> (CASE what = "opened"  -> "insert"
                             [] what = "saved"   -> "save"
                             [] what = "unasked" -> "load"
                             [] what = "deleted" -> "find"
                             [] OTHER            -> "read")
    [] step = "insert" -> "read"
    [] step = "read"   -> "write"
    [] step = "write"  -> (CASE what = "opened"  -> "show"
                             [] what = "unasked" -> "org"
                             [] OTHER            -> "load")
    [] step = "load"   -> (IF what = "deleted" THEN "org" ELSE "find")
    [] step = "save"   -> "find"
    [] step = "find"   -> (IF what = "deleted" THEN "remove" ELSE "show")
    [] step = "show"   -> "record"
    [] OTHER           -> "drop"

PRSteps == {"org", "insert", "read", "write", "load", "find", "show", "record"}
AllSteps == PRSteps \cup {"save", "remove", "drop"}
CardSteps == {"find", "show", "record", "remove"}

\* What is left to do is the end of a handler, of the one with a card only if
\* the organisation has a channel or has yet to be read.
Planned(what, todo, chan) ==
  /\ todo \in Seq(AllSteps)
  /\ \A i \in DOMAIN todo : \E k \in DOMAIN Flow[what] : Flow[what][k] = todo[i]
  /\ \A i \in DOMAIN todo : i + 1 \in DOMAIN todo => todo[i + 1] = Succ(what, todo[i])
  /\ \A i \in DOMAIN todo : todo[i] = "show" => i + 1 \in DOMAIN todo
  /\ \/ chan # NoPlace
     \/ \A i \in DOMAIN todo : todo[i] \notin CardSteps
     \/ \E i \in DOMAIN todo :
          todo[i] = "org" /\ \A k \in 1..(i - 1) : todo[k] \in {"read", "write", "load"}

\* A handler that is past its reading of the row holds the row it read, and one
\* that is past its search or its post the message it found or posted.
Held(what, j) ==
  LET at == Head(j.todo) IN
  /\ \/ at \in {"write", "find", "show", "record", "remove", "drop"}
     \/ at = "org" /\ what = "deleted"
     => j.snap.id # 0
  /\ at \in {"org", "insert", "read", "write", "load", "save", "find"} => j.found = 0
  /\ j.found # 0 => j.found \in DOMAIN cards /\ cards[j.found].chan = j.chan
  /\ at = "record" => j.found # 0

JobOK(j) ==
  /\ j.snap \in Rows /\ j.chan \in Places \cup {NoPlace} /\ j.found \in Nat
  /\ j.todo # <<>> =>
       /\ j.on \in DOMAIN events
       /\ Planned(events[j.on].what, j.todo, j.chan)
       /\ Held(events[j.on].what, j)
       /\ kind = "pr" /\ row.id = 0 => j.snap.id = 0

\* Cards are recorded for a row that is there.
Kept ==
  /\ \A c \in Places : digest[c] # 0 =>
       digest[c] \in DOMAIN cards /\ cards[digest[c]].chan = c
  /\ row.id = 0 => \A c \in Places : digest[c] = 0

\* An issue and a pull request keep apart, and a row that is not there yet has
\* no reviewers.
Kinds ==
  /\ \A i \in DOMAIN events : events[i].what \in {"saved", "deleted"} <=> kind = "issue"
  /\ wrote \in [Columns -> 0..Len(events)]
  /\ kind = "issue" => wrote["draft"] = 0 /\ wrote["reviewers"] = 0
  /\ kind = "pr" /\ row.id = 0 => wrote["reviewers"] = 0

\* What a handler that runs alone knows: its reading is the row, the card it
\* found is the recorded one, and nothing is recorded where it posts.
Fresh(j) ==
  /\ j.snap.id # 0 => j.snap = row
  /\ Head(j.todo) = "show" => j.found = digest[j.chan]
  /\ Head(j.todo) = "record" =>
       digest[j.chan] = 0 /\ cards[j.found].shows = Shown(j.snap)
  /\ events[j.on].what = "opened" /\ Head(j.todo) \in {"read", "write"} =>
       \A c \in Places : digest[c] = 0

AloneOK ==
  /\ \A h \in Workers : Working(h) /\ solo = {h} =>
       Fresh(job[h]) /\ \A g \in Workers : Working(g) => g = h
  /\ clean => \A h \in Workers : Working(h) => solo = {h}

Recording(h, t) ==
  Working(h) /\ Head(job[h].todo) = "record" /\ job[h].found = t

\* As long as nothing has gone wrong, a card that is there is recorded, or its
\* handler is about to record it.
CleanOK ==
  clean => \A t \in DOMAIN cards : cards[t].live =>
    digest[cards[t].chan] = t \/ \E h \in Workers : Recording(h, t)

RightAt(c) ==
  LET t == digest[c] IN
  IF row.id = 0
  THEN t = 0 /\ (clean => \A i \in DOMAIN cards : cards[i].chan = c => ~cards[i].live)
  ELSE IF t = 0 THEN HoldsBack(row)
  ELSE cards[t].live => cards[t].shows = Shown(row)

CalmOK == calm # NoPlace => Resting /\ calm \in Places /\ RightAt(calm)

Messages == [chan : Places, live : BOOLEAN, shows : Nat \X BOOLEAN \X SUBSET People]

\* The types that CardsTypeOK asks for, cards and rows of cards among them.
Shapes ==
  /\ kind \in {"pr", "issue"}
  /\ row \in Rows /\ rowIds \in Nat /\ queue \subseteq DOMAIN events
  /\ digest \in [Places -> Nat] /\ place \in Places \cup {NoPlace}
  /\ cards \in Seq(Messages)

JobsOK == \A h \in Workers : JobOK(job[h])

CardInv ==
  /\ Shapes /\ JobsOK /\ Kept /\ Kinds /\ AloneOK /\ CleanOK /\ CalmOK
  /\ RowTracks

-----------------------------------------------------------------------------
(* Handlers' plans *)

Whats == {"opened", "title", "draft", "asked", "unasked", "saved", "deleted"}

LEMMA FlowSteps ==
  ASSUME NEW w \in Whats, NEW a, \E k \in DOMAIN Flow[w] : Flow[w][k] = a
  PROVE  /\ w = "opened" => a \in {"org", "insert", "read", "write", "show", "record"}
         /\ w \in {"title", "draft", "asked", "unasked"} =>
              a \in {"org", "read", "write", "load", "find", "show", "record"}
         /\ w = "saved" => a \in {"org", "save", "find", "show", "record"}
         /\ w = "deleted" => a \in {"load", "org", "find", "remove", "drop"}
  <1>1. CASE w = "opened"
    BY <1>1 DEF Flow
  <1>2. CASE w \in {"title", "draft", "asked"}
    BY <1>2 DEF Flow
  <1>3. CASE w = "unasked"
    BY <1>3 DEF Flow
  <1>4. CASE w = "saved"
    BY <1>4 DEF Flow
  <1>5. CASE w = "deleted"
    BY <1>5 DEF Flow
  <1>. QED BY <1>1, <1>2, <1>3, <1>4, <1>5 DEF Whats

LEMMA FlowPlanned ==
  ASSUME NEW w \in Whats, NEW chan, NEW q, q = Flow[w]
  PROVE  /\ Planned(w, q, chan) /\ q # <<>>
         /\ Head(q) = IF w = "unasked" THEN "read" ELSE IF w = "deleted" THEN "load" ELSE "org"
  <1>1. CASE w = "opened"
    <2>1. q = <<"org", "insert", "read", "write", "show", "record">>
      BY <1>1 DEF Flow
    <2>2. q \in Seq(AllSteps) /\ DOMAIN q = 1..6 /\ q # <<>> /\ Head(q) = q[1]
      BY <2>1 DEF AllSteps, PRSteps
    <2>3. /\ q[1] = "org" /\ q[2] = "insert" /\ q[3] = "read" /\ q[4] = "write"
          /\ q[5] = "show" /\ q[6] = "record"
      BY <2>1
    <2>. QED BY ONLY <1>1, <2>2, <2>3, q = Flow[w] DEF Planned, Succ, CardSteps
  <1>2. CASE w \in {"title", "draft", "asked"}
    <2>1. q = <<"org", "read", "write", "load", "find", "show", "record">>
      BY <1>2 DEF Flow
    <2>2. q \in Seq(AllSteps) /\ DOMAIN q = 1..7 /\ q # <<>> /\ Head(q) = q[1]
      BY <2>1 DEF AllSteps, PRSteps
    <2>3. /\ q[1] = "org" /\ q[2] = "read" /\ q[3] = "write" /\ q[4] = "load"
          /\ q[5] = "find" /\ q[6] = "show" /\ q[7] = "record"
      BY <2>1
    <2>. QED BY ONLY <1>2, <2>2, <2>3, q = Flow[w] DEF Planned, Succ, CardSteps
  <1>3. CASE w = "unasked"
    <2>1. q = <<"read", "write", "org", "load", "find", "show", "record">>
      BY <1>3 DEF Flow
    <2>2. q \in Seq(AllSteps) /\ DOMAIN q = 1..7 /\ q # <<>> /\ Head(q) = q[1]
      BY <2>1 DEF AllSteps, PRSteps
    <2>3. /\ q[1] = "read" /\ q[2] = "write" /\ q[3] = "org" /\ q[4] = "load"
          /\ q[5] = "find" /\ q[6] = "show" /\ q[7] = "record"
      BY <2>1
    <2>. QED BY ONLY <1>3, <2>2, <2>3, q = Flow[w] DEF Planned, Succ, CardSteps
  <1>4. CASE w = "saved"
    <2>1. q = <<"org", "save", "find", "show", "record">>
      BY <1>4 DEF Flow
    <2>2. q \in Seq(AllSteps) /\ DOMAIN q = 1..5 /\ q # <<>> /\ Head(q) = q[1]
      BY <2>1 DEF AllSteps, PRSteps
    <2>3. /\ q[1] = "org" /\ q[2] = "save" /\ q[3] = "find" /\ q[4] = "show"
          /\ q[5] = "record"
      BY <2>1
    <2>. QED BY ONLY <1>4, <2>2, <2>3, q = Flow[w] DEF Planned, Succ, CardSteps
  <1>5. CASE w = "deleted"
    <2>1. q = <<"load", "org", "find", "remove", "drop">>
      BY <1>5 DEF Flow
    <2>2. q \in Seq(AllSteps) /\ DOMAIN q = 1..5 /\ q # <<>> /\ Head(q) = q[1]
      BY <2>1 DEF AllSteps, PRSteps
    <2>3. /\ q[1] = "load" /\ q[2] = "org" /\ q[3] = "find" /\ q[4] = "remove"
          /\ q[5] = "drop"
      BY <2>1
    <2>. QED BY ONLY <1>5, <2>2, <2>3, q = Flow[w] DEF Planned, Succ, CardSteps
  <1>. QED BY <1>1, <1>2, <1>3, <1>4, <1>5 DEF Whats

LEMMA NoCardPlanned ==
  ASSUME NEW w \in Whats, NEW chan, NEW q, q = NoCard[w]
  PROVE  /\ Planned(w, q, chan)
         /\ q # <<>> => Head(q) = IF w = "deleted" THEN "drop" ELSE Succ(w, "org")
         /\ w = "unasked" => q = <<>>
  <1>1. CASE w = "opened"
    <2>1. q = <<"insert", "read", "write">>
      BY <1>1 DEF NoCard
    <2>2. q \in Seq(AllSteps) /\ DOMAIN q = 1..3 /\ q # <<>> /\ Head(q) = q[1]
      BY <2>1 DEF AllSteps, PRSteps
    <2>3. /\ q[1] = "insert" /\ q[2] = "read" /\ q[3] = "write"
      BY <2>1
    <2>4. /\ \E k \in DOMAIN Flow[w] : Flow[w][k] = "insert"
          /\ \E k \in DOMAIN Flow[w] : Flow[w][k] = "read"
          /\ \E k \in DOMAIN Flow[w] : Flow[w][k] = "write"
      BY <1>1 DEF Flow
    <2>. QED BY ONLY <1>1, <2>2, <2>3, <2>4 DEF Planned, Succ, CardSteps
  <1>2. CASE w \in {"title", "draft", "asked"}
    <2>1. q = <<"read", "write">>
      BY <1>2 DEF NoCard
    <2>2. q \in Seq(AllSteps) /\ DOMAIN q = 1..2 /\ q # <<>> /\ Head(q) = q[1]
      BY <2>1 DEF AllSteps, PRSteps
    <2>3. /\ q[1] = "read" /\ q[2] = "write"
      BY <2>1
    <2>4. /\ \E k \in DOMAIN Flow[w] : Flow[w][k] = "read"
          /\ \E k \in DOMAIN Flow[w] : Flow[w][k] = "write"
      BY <1>2 DEF Flow
    <2>. QED BY ONLY <1>2, <2>2, <2>3, <2>4 DEF Planned, Succ, CardSteps
  <1>3. CASE w = "unasked"
    <2>1. q = <<>>
      BY <1>3 DEF NoCard
    <2>2. q \in Seq(AllSteps) /\ \A i : i \notin DOMAIN q
      BY <2>1
    <2>. QED BY <1>3, <2>1, <2>2 DEF Planned
  <1>4. CASE w = "saved"
    <2>1. q = <<"save">>
      BY <1>4 DEF NoCard
    <2>2. q \in Seq(AllSteps) /\ DOMAIN q = 1..1 /\ q # <<>> /\ Head(q) = q[1]
      BY <2>1 DEF AllSteps, PRSteps
    <2>3. /\ q[1] = "save"
      BY <2>1
    <2>4. /\ \E k \in DOMAIN Flow[w] : Flow[w][k] = "save"
      BY <1>4 DEF Flow
    <2>. QED BY ONLY <1>4, <2>2, <2>3, <2>4 DEF Planned, Succ, CardSteps
  <1>5. CASE w = "deleted"
    <2>1. q = <<"drop">>
      BY <1>5 DEF NoCard
    <2>2. q \in Seq(AllSteps) /\ DOMAIN q = 1..1 /\ q # <<>> /\ Head(q) = q[1]
      BY <2>1 DEF AllSteps, PRSteps
    <2>3. /\ q[1] = "drop"
      BY <2>1
    <2>4. /\ \E k \in DOMAIN Flow[w] : Flow[w][k] = "drop"
      BY <1>5 DEF Flow
    <2>. QED BY ONLY <1>5, <2>2, <2>3, <2>4 DEF Planned, Succ, CardSteps
  <1>. QED BY <1>1, <1>2, <1>3, <1>4, <1>5 DEF Whats

LEMMA CardPlanned ==
  ASSUME NEW chan, chan # NoPlace, NEW q, q = <<"show", "record">>
  PROVE  Planned("opened", q, chan) /\ q # <<>> /\ Head(q) = "show"
BY DEF Planned, Succ, AllSteps, PRSteps, CardSteps, Flow

\* The channel a handler has after a step: the one it had, or found when it read
\* the organisation.
Onward(q, chan, chan2) == IF Head(q) = "org" THEN chan2 # NoPlace ELSE chan2 = chan

\* A handler goes on as planned.
LEMMA TailPlanned ==
  ASSUME NEW w \in Whats, NEW q, q # <<>>, NEW chan, NEW chan2, Planned(w, q, chan),
         Onward(q, chan, chan2),
         NEW r, r = Tail(q)
  PROVE  /\ Planned(w, r, chan2)
         /\ r # <<>> => Head(r) = Succ(w, Head(q))
         /\ Head(q) = "show" => r # <<>>
         /\ \E k \in DOMAIN Flow[w] : Flow[w][k] = Head(q)
  <1>1. q \in Seq(AllSteps) /\ Len(q) \in Nat /\ Len(q) > 0 /\ DOMAIN q = 1..Len(q)
        /\ Head(q) = q[1]
    BY DEF Planned
  <1>2. r \in Seq(AllSteps) /\ DOMAIN r = 1..(Len(q) - 1)
        /\ \A i \in DOMAIN r : r[i] = q[i + 1] /\ i + 1 \in DOMAIN q
    BY <1>1
  <1>3. \A i \in DOMAIN r : \E k \in DOMAIN Flow[w] : Flow[w][k] = r[i]
    BY <1>2 DEF Planned
  <1>4. \A i \in DOMAIN r : i + 1 \in DOMAIN r => r[i + 1] = Succ(w, r[i])
    <2>1. ASSUME NEW i \in DOMAIN r, i + 1 \in DOMAIN r PROVE r[i + 1] = Succ(w, r[i])
      <3>1. i + 1 \in DOMAIN q /\ (i + 1) + 1 \in DOMAIN q /\ r[i] = q[i + 1]
            /\ r[i + 1] = q[(i + 1) + 1]
        BY <1>2, <2>1
      <3>. QED BY <3>1 DEF Planned
    <2>. QED BY <2>1
  <1>5. \/ chan2 # NoPlace
        \/ \A i \in DOMAIN r : r[i] \notin CardSteps
        \/ \E i \in DOMAIN r :
             r[i] = "org" /\ \A k \in 1..(i - 1) : r[k] \in {"read", "write", "load"}
    <2>1. CASE chan # NoPlace \/ Head(q) = "org"
      BY <2>1 DEF Onward
    <2>2. CASE \A i \in DOMAIN q : q[i] \notin CardSteps
      BY <2>2, <1>2
    <2>3. ASSUME Head(q) # "org", NEW i \in DOMAIN q, q[i] = "org",
                 \A k \in 1..(i - 1) : q[k] \in {"read", "write", "load"}
          PROVE  \E m \in DOMAIN r :
                   r[m] = "org" /\ \A k \in 1..(m - 1) : r[k] \in {"read", "write", "load"}
      <3>1. i - 1 \in DOMAIN r /\ r[i - 1] = "org"
        BY <1>1, <1>2, <2>3
      <3>2. \A k \in 1..((i - 1) - 1) : r[k] \in {"read", "write", "load"}
        BY <1>1, <1>2, <2>3
      <3>. QED BY <3>1, <3>2
    <2>. QED BY <2>1, <2>2, <2>3 DEF Planned, Onward
  <1>6. r # <<>> => Head(r) = Succ(w, Head(q))
    <2>1. ASSUME r # <<>> PROVE 1 \in DOMAIN r /\ Head(r) = r[1] /\ 1 \in DOMAIN q /\ 1 + 1 \in DOMAIN q
      BY <1>1, <1>2, <2>1
    <2>2. ASSUME r # <<>> PROVE r[1] = q[1 + 1] /\ q[1 + 1] = Succ(w, q[1])
      BY <1>2, <2>1, <2>2 DEF Planned
    <2>. QED BY <1>1, <2>1, <2>2
  <1>7. \E k \in DOMAIN Flow[w] : Flow[w][k] = Head(q)
    BY <1>1 DEF Planned
  <1>8. \A i \in DOMAIN r : r[i] = "show" => i + 1 \in DOMAIN r
    <2>1. ASSUME NEW i \in DOMAIN r, r[i] = "show" PROVE i + 1 \in DOMAIN r
      <3>1. i + 1 \in DOMAIN q /\ q[i + 1] = "show" /\ i \in Nat
        BY <1>2, <2>1
      <3>2. (i + 1) + 1 \in DOMAIN q
        BY <3>1 DEF Planned
      <3>. QED BY <1>1, <1>2, <2>1, <3>1, <3>2
    <2>. QED BY <2>1
  <1>9. Head(q) = "show" => r # <<>>
    <2>1. ASSUME Head(q) = "show" PROVE 1 \in DOMAIN r
      <3>1. 1 \in DOMAIN q /\ q[1] = "show"
        BY <1>1, <2>1
      <3>2. 1 + 1 \in DOMAIN q
        BY <3>1 DEF Planned
      <3>. QED BY <1>1, <1>2, <3>2
    <2>2. \A i : i \notin DOMAIN <<>>
      OBVIOUS
    <2>. QED BY <2>1, <2>2
  <1>. QED BY <1>2, <1>3, <1>4, <1>5, <1>6, <1>7, <1>8, <1>9 DEF Planned

\* Who is at a card has a channel.
LEMMA CardStepPlaced ==
  ASSUME NEW w, NEW q, q # <<>>, NEW chan, Planned(w, q, chan), Head(q) \in CardSteps
  PROVE  chan # NoPlace
  <1>1. q \in Seq(AllSteps) /\ 1 \in DOMAIN q /\ Head(q) = q[1] /\ DOMAIN q = 1..Len(q)
    BY DEF Planned
  <1>2. ASSUME NEW i \in DOMAIN q, q[i] = "org",
               \A k \in 1..(i - 1) : q[k] \in {"read", "write", "load"}
        PROVE  FALSE
    <2>1. i = 1 \/ 1 \in 1..(i - 1)
      BY <1>1
    <2>. QED BY <1>1, <1>2, <2>1 DEF CardSteps
  <1>. QED BY <1>1, <1>2 DEF Planned

-----------------------------------------------------------------------------
(* Jobs *)

\* A handler that is not at work.
LEMMA IdleOK == JobOK(Idle) /\ Idle.todo = <<>>
  <1>1. Idle.snap = NoRow /\ Idle.chan = NoPlace /\ Idle.found = 0 /\ Idle.todo = <<>>
    BY DEF Idle
  <1>2. NoRow \in Rows
    BY DEF NoRow, Rows
  <1>. QED BY <1>1, <1>2 DEF JobOK

\* Webhooks and messages are added and stay what they are, and the row of a
\* pull request is never removed.
OnlyAdds ==
  /\ kind' = kind
  /\ \A i \in DOMAIN events : i \in DOMAIN events' /\ events'[i] = events[i]
  /\ \A t \in DOMAIN cards : t \in DOMAIN cards' /\ cards'[t].chan = cards[t].chan
  /\ kind = "pr" /\ row'.id = 0 => row.id = 0

LEMMA JobStays ==
  ASSUME NEW j, JobOK(j), OnlyAdds
  PROVE  JobOK(j)'
BY DEF JobOK, OnlyAdds, Held

LEMMA JobsStay ==
  ASSUME IInv, JobsOK, NEW h \in Workers, NEW j, Become(h, j), JobOK(j)', OnlyAdds
  PROVE  /\ JobsOK'
         /\ job'[h] = j /\ \A g \in Workers \ {h} : job'[g] = job[g]
  <1>1. job'[h] = j /\ \A g \in Workers \ {h} : job'[g] = job[g]
    BY DEF IInv, Typed, Become
  <1>2. ASSUME NEW g \in Workers PROVE JobOK(job[g])'
    <2>1. CASE g = h
      BY <1>1, <2>1 DEF JobOK, Held
    <2>2. CASE g # h
      <3>1. PICK k : k = job[g]
        OBVIOUS
      <3>2. JobOK(k)'
        BY <3>1, JobStays DEF JobsOK
      <3>3. job'[g] = k
        BY <1>1, <2>2, <3>1
      <3>. QED BY <3>2, <3>3 DEF JobOK, Held
    <2>. QED BY <2>1, <2>2
  <1>3. JobsOK'
    BY <1>2 DEF JobsOK
  <1>. QED BY <1>1, <1>3

\* A step of a handler at work.
LEMMA WorkerStep ==
  ASSUME IInv, CardInv, NEW h \in Workers, Working(h), NEW j, Become(h, j),
         OnlyAdds, JobOK(j)', solo' = solo, clean' => clean,
         solo = {h} /\ j.todo # <<>> => Fresh(j)'
  PROVE  /\ JobsOK' /\ AloneOK'
         /\ job'[h] = j /\ \A g \in Workers \ {h} : job'[g] = job[g]
  <1>1. /\ JobsOK'
        /\ job'[h] = j /\ \A g \in Workers \ {h} : job'[g] = job[g]
    BY JobsStay DEF CardInv
  <1>2. \A g \in Workers : Working(g)' => Working(g)
    BY <1>1 DEF Working
  <1>3. ASSUME NEW g \in Workers, Working(g)', solo = {g}
        PROVE  Fresh(job[g])' /\ \A f \in Workers : Working(f)' => f = g
    <2>1. g = h
      BY <1>2, <1>3 DEF CardInv, AloneOK
    <2>2. j.todo # <<>> /\ Fresh(j)'
      BY <1>1, <1>3, <2>1 DEF Working
    <2>3. Fresh(job[g])'
      BY <1>1, <2>1, <2>2 DEF Fresh
    <2>. QED BY <1>2, <1>3, <2>1, <2>3 DEF CardInv, AloneOK
  <1>4. clean' => \A g \in Workers : Working(g)' => solo = {g}
    BY <1>2 DEF CardInv, AloneOK
  <1>5. AloneOK'
    BY <1>3, <1>4 DEF AloneOK
  <1>. QED BY <1>1, <1>5

\* No card comes to be that is not recorded.
LEMMA CleanStays ==
  ASSUME CardInv, NEW h \in Workers, Working(h), digest' = digest,
         clean' => clean /\ Head(job[h].todo) # "record",
         \A t \in DOMAIN cards' : cards'[t].live =>
           t \in DOMAIN cards /\ cards[t].live /\ cards'[t].chan = cards[t].chan
  PROVE  CleanOK'
  <1>. SUFFICES ASSUME clean', NEW t \in DOMAIN cards', cards'[t].live
                PROVE  digest'[cards'[t].chan] = t
    BY DEF CleanOK
  <1>1. solo = {h}
    BY DEF CardInv, AloneOK
  <1>2. \A g \in Workers : ~Recording(g, t)
    BY <1>1 DEF CardInv, AloneOK, Recording
  <1>. QED BY <1>2 DEF CardInv, CleanOK

LEMMA CalmStays ==
  ASSUME CardInv, NEW h \in Workers, Working(h), calm' \in {calm, NoPlace}
  PROVE  CalmOK'
BY DEF CardInv, CalmOK, Resting

\* A handler that ran alone has put its channel right.
LEMMA CalmSettles ==
  ASSUME CardInv, NEW h \in Workers, Working(h), Settle(h),
         \A g \in Workers \ {h} : job'[g] = job[g], job'[h].todo = <<>>,
         NEW c, c = job[h].chan, solo = {h} /\ c \in Places => RightAt(c)'
  PROVE  CalmOK'
  <1>. SUFFICES ASSUME calm' # NoPlace PROVE Resting' /\ calm' \in Places /\ RightAt(calm)'
    BY DEF CalmOK
  <1>1. solo = {h} /\ calm' = c /\ c \in Places
    BY DEF Settle, CardInv, JobsOK, JobOK
  <1>2. \A g \in Workers : ~Working(g)'
    BY <1>1 DEF CardInv, AloneOK, Working
  <1>3. RightAt(calm)'
    BY <1>1 DEF RightAt
  <1>. QED BY <1>1, <1>2, <1>3 DEF Resting

\* Messages stay where they are and what they are, and none comes to be live.
SameCards ==
  /\ cards' \in Seq(Messages) /\ DOMAIN cards' = DOMAIN cards
  /\ \A t \in DOMAIN cards :
       cards'[t].chan = cards[t].chan /\ (cards'[t].live => cards[t].live)

LEMMA ColumnsStay ==
  ASSUME CardInv, UNCHANGED <<row, wrote, crossed>>, OnlyAdds
  PROVE  RowTracks'
BY DEF CardInv, RowTracks, Kinds, OnlyAdds

\* What a handler at work knows of itself.
LEMMA AtWork ==
  ASSUME IInv, CardInv, NEW h \in Workers, NEW at, At(h, at),
         NEW k, k = job[h], NEW w, w = Event(h).what
  PROVE  /\ IsJob(k) /\ JobOK(k) /\ k.todo # <<>> /\ Head(k.todo) = at
         /\ k.on \in DOMAIN events /\ events[k.on].what = w /\ w \in Whats
         /\ Planned(w, k.todo, k.chan) /\ Held(w, k)
         /\ w = "opened" => at \in {"org", "insert", "read", "write", "show", "record"}
         /\ w \in {"title", "draft", "asked", "unasked"} =>
              at \in {"org", "read", "write", "load", "find", "show", "record"}
         /\ w = "saved" => at \in {"org", "save", "find", "show", "record"}
         /\ w = "deleted" => at \in {"load", "org", "find", "remove", "drop"}
         /\ w \in {"saved", "deleted"} <=> kind = "issue"
         /\ at \in CardSteps => k.chan \in Places
  <1>1. IsJob(k) /\ JobOK(k) /\ k.todo # <<>> /\ Head(k.todo) = at
    BY DEF At, Working, CardInv, JobsOK, IInv, Typed
  <1>2. /\ k.on \in DOMAIN events /\ events[k.on].what = w
        /\ Planned(w, k.todo, k.chan) /\ Held(w, k)
    BY <1>1 DEF JobOK, Event
  <1>3. w \in Whats
    <2>1. events[k.on] \in Events
      BY <1>2 DEF IInv, Typed
    <2>. QED BY <1>2, <2>1 DEF Events, Whats
  <1>4. w \in {"saved", "deleted"} <=> kind = "issue"
    BY <1>2 DEF CardInv, Kinds
  <1>5. \E i \in DOMAIN Flow[w] : Flow[w][i] = at
    <2>1. k.todo \in Seq(AllSteps)
      BY <1>2 DEF Planned
    <2>2. 1 \in DOMAIN k.todo /\ k.todo[1] = at
      BY <1>1, <2>1
    <2>. QED BY <1>2, <2>2 DEF Planned
  <1>6. at \in CardSteps => k.chan \in Places
    <2>1. at \in CardSteps => k.chan # NoPlace
      BY <1>1, <1>2, CardStepPlaced
    <2>. QED BY <1>1, <2>1 DEF JobOK
  <1>7. /\ w = "opened" => at \in {"org", "insert", "read", "write", "show", "record"}
        /\ w \in {"title", "draft", "asked", "unasked"} =>
             at \in {"org", "read", "write", "load", "find", "show", "record"}
        /\ w = "saved" => at \in {"org", "save", "find", "show", "record"}
        /\ w = "deleted" => at \in {"load", "org", "find", "remove", "drop"}
    BY <1>3, <1>5, FlowSteps
  <1>. QED BY <1>1, <1>2, <1>3, <1>4, <1>6, <1>7

Further(k, j) == j = [k EXCEPT !.todo = Tail(@)]

\* It goes on to the next step of its plan.
LEMMA GoesOn ==
  ASSUME NEW at, at # "org", NEW k, IsJob(k), k.todo # <<>>, Head(k.todo) = at,
         NEW w \in Whats, Planned(w, k.todo, k.chan), NEW j, Further(k, j)
  PROVE  /\ IsJob(j) /\ j.on = k.on /\ j.snap = k.snap /\ j.chan = k.chan
         /\ j.found = k.found /\ Planned(w, j.todo, j.chan)
         /\ j.todo # <<>> => Head(j.todo) = Succ(w, at)
         /\ j.todo = <<>> => at # "show"
  <1>0. PICK rest : rest = Tail(k.todo)
    OBVIOUS
  <1>3. j = [k EXCEPT !.todo = rest]
    BY <1>0 DEF Further
  <1>1. /\ IsJob(j) /\ j.todo = rest /\ j.on = k.on /\ j.snap = k.snap /\ j.chan = k.chan
        /\ j.found = k.found
    BY ONLY <1>3, IsJob(k), SetTodo
  <1>2. /\ Planned(w, rest, k.chan) /\ (rest # <<>> => Head(rest) = Succ(w, at))
        /\ at = "show" => rest # <<>>
    <2>1. PICK q, chan : q = k.todo /\ chan = k.chan
      OBVIOUS
    <2>2. /\ q # <<>> /\ Planned(w, q, chan) /\ rest = Tail(q) /\ Head(q) = at
          /\ Onward(q, chan, chan)
      BY <1>0, <2>1 DEF Onward
    <2>3. /\ Planned(w, rest, chan) /\ (rest # <<>> => Head(rest) = Succ(w, Head(q)))
          /\ Head(q) = "show" => rest # <<>>
      BY ONLY <2>2, TailPlanned, w \in Whats
    <2>. QED BY <2>1, <2>2, <2>3
  <1>. QED BY <1>1, <1>2

\* A step that changes nothing but what its handler is at, and messages.
LEMMA QuietStep ==
  ASSUME IInv, CardInv, NEW h \in Workers, Working(h), NEW j, Become(h, j), JobOK(j),
         UNCHANGED <<outside, rows, wrote, crossed, solo>>, SameCards, CalmOK',
         clean' => clean /\ Head(job[h].todo) # "record",
         solo = {h} /\ j.todo # <<>> => Fresh(j)'
  PROVE  CardInv'
  <1>1. /\ UNCHANGED <<kind, events, queue, place, row, digest, rowIds, wrote, crossed, solo>>
    BY DEF outside, rows
  <1>2. OnlyAdds
    BY <1>1 DEF OnlyAdds, SameCards
  <1>3. JobOK(j)'
    BY <1>2, JobStays
  <1>4. JobsOK' /\ AloneOK'
    BY <1>1, <1>2, <1>3, WorkerStep
  <1>5. CleanOK'
    BY <1>1, CleanStays DEF SameCards
  <1>6. RowTracks'
    BY <1>1, <1>2, ColumnsStay
  <1>7. Shapes' /\ Kept' /\ Kinds'
    BY <1>1 DEF CardInv, Shapes, Kept, Kinds, SameCards
  <1>. QED BY <1>4, <1>5, <1>6, <1>7 DEF CardInv

\* A step that changes nothing but what its handler is at.
LEMMA PlainStep ==
  ASSUME IInv, CardInv, NEW h \in Workers, Working(h), NEW j, Become(h, j), JobOK(j),
         UNCHANGED <<outside, rows, cards, wrote, crossed, solo>>, calm' \in {calm, NoPlace},
         clean' => clean /\ Head(job[h].todo) # "record",
         solo = {h} /\ j.todo # <<>> => Fresh(j)
  PROVE  CardInv'
  <1>1. SameCards
    BY DEF SameCards, CardInv, Shapes
  <1>2. solo = {h} /\ j.todo # <<>> => Fresh(j)'
    BY DEF Fresh, outside, rows
  <1>3. CalmOK'
    BY CalmStays
  <1>. QED BY <1>1, <1>2, <1>3, QuietStep

LEMMA StopKeeps ==
  ASSUME IInv, CardInv, NEW h \in Workers, Working(h), Stop(h),
         UNCHANGED <<outside, rows, cards, wrote, crossed, solo>>, calm' \in {calm, NoPlace},
         clean' => clean /\ Head(job[h].todo) # "record"
  PROVE  CardInv'
BY IdleOK, PlainStep DEF Stop

LEMMA GetOrgKeeps ==
  ASSUME IInv, CardInv, NEW h \in Workers, GetOrg(h)
  PROVE  CardInv'
  <1>1. /\ Working(h) /\ At(h, "org")
        /\ UNCHANGED <<outside, rows, cards, wrote, crossed, solo, calm, clean>>
        /\ Head(job[h].todo) # "record"
    BY DEF GetOrg, At, traces
  <1>2. CASE Stop(h)
    BY <1>1, <1>2, StopKeeps
  <1>3. PICK k, w : k = job[h] /\ w = Event(h).what
    OBVIOUS
  <1>4. /\ IsJob(k) /\ JobOK(k) /\ k.todo # <<>> /\ Head(k.todo) = "org"
        /\ k.on \in DOMAIN events /\ events[k.on].what = w /\ w \in Whats
        /\ Planned(w, k.todo, k.chan) /\ Held(w, k)
    BY <1>1, <1>3, AtWork
  <1>5. CASE ~Stop(h)
    <2>1. PICK j0, rest, j :
            /\ j0 = [k EXCEPT !.chan = place]
            /\ rest = IF place = NoPlace THEN NoCard[w] ELSE Tail(k.todo)
            /\ j = [j0 EXCEPT !.todo = rest] /\ Become(h, j)
      BY <1>3, <1>5, JobSetTwo DEF GetOrg
    <2>2. /\ IsJob(j0) /\ j0.todo = k.todo /\ j0.on = k.on /\ j0.snap = k.snap
          /\ j0.chan = place /\ j0.found = k.found
      BY <1>4, <2>1, SetChan
    <2>3. /\ j.todo = rest /\ j.on = k.on /\ j.snap = k.snap /\ j.chan = place
          /\ j.found = k.found
      BY <2>1, <2>2, SetTodo
    <2>4. /\ Planned(w, rest, place)
          /\ rest # <<>> => Head(rest) = IF place = NoPlace /\ w = "deleted" THEN "drop"
                                         ELSE Succ(w, "org")
      <3>1. CASE place = NoPlace
        BY <1>4, <2>1, <3>1, NoCardPlanned
      <3>2. CASE place # NoPlace
        <4>1. PICK q, chan, chan2 : q = k.todo /\ chan = k.chan /\ chan2 = place
          OBVIOUS
        <4>2. /\ q # <<>> /\ Planned(w, q, chan) /\ rest = Tail(q) /\ Head(q) = "org"
              /\ Onward(q, chan, chan2)
          BY <1>4, <2>1, <3>2, <4>1 DEF Onward
        <4>3. w \in Whats
          BY <1>4
        <4>4. Planned(w, rest, chan2) /\ (rest # <<>> => Head(rest) = Succ(w, Head(q)))
          BY ONLY <4>2, <4>3, TailPlanned
        <4>. QED BY <3>2, <4>1, <4>2, <4>4
      <3>. QED BY <3>1, <3>2
    <2>5. rest # <<>> => Head(rest) \in {"insert", "save", "load", "find", "read", "drop"}
      BY <2>4 DEF Succ
    <2>6. rest # <<>> => Head(rest) \notin {"write", "show", "record", "remove"}
      BY <2>5
    <2>7. rest # <<>> /\ Head(rest) = "find" => w = "deleted"
      BY <1>4, <2>4 DEF Succ, Whats
    <2>8. rest # <<>> /\ Head(rest) = "drop" => w = "deleted"
      BY <2>4 DEF Succ
    <2>9. rest # <<>> /\ Head(rest) = "read" => w # "opened"
      BY <2>4 DEF Succ
    <2>10. k.found = 0
      BY <1>4 DEF Held
    <2>11. JobOK(j)
      <3>1. place \in Places \cup {NoPlace}
        BY DEF CardInv, Shapes
      <3>2. rest # <<>> => Held(w, j)
        BY <1>4, <2>3, <2>5, <2>7, <2>8, <2>10 DEF Held
      <3>. QED BY <1>4, <2>3, <2>4, <3>1, <3>2 DEF JobOK
    <2>12. solo = {h} /\ j.todo # <<>> => Fresh(j)
      <3>1. solo = {h} => Fresh(k)
        BY <1>1, <1>3 DEF CardInv, AloneOK
      <3>. QED BY <1>4, <2>3, <2>6, <2>9, <3>1 DEF Fresh
    <2>. QED BY <1>1, <2>1, <2>11, <2>12, PlainStep
  <1>. QED BY <1>2, <1>5

LEMMA LoadKeeps ==
  ASSUME IInv, CardInv, NEW h \in Workers, Load(h)
  PROVE  CardInv'
  <1>1. PICK at, k, w : at \in {"read", "load"} /\ At(h, at) /\ k = job[h] /\ w = Event(h).what
    BY DEF Load
  <1>2. /\ Working(h) /\ Head(job[h].todo) # "record"
        /\ UNCHANGED <<outside, rows, cards, wrote, crossed, solo, calm, clean>>
    BY <1>1 DEF Load, At, traces
  <1>3. /\ IsJob(k) /\ JobOK(k) /\ k.todo # <<>> /\ Head(k.todo) = at
        /\ k.on \in DOMAIN events /\ events[k.on].what = w /\ w \in Whats
        /\ Planned(w, k.todo, k.chan) /\ Held(w, k)
        /\ w = "saved" => at \notin {"read", "load"}
        /\ w = "opened" => at # "load"
        /\ w = "deleted" => at # "read"
    BY <1>1, AtWork
  <1>4. CASE row.id = 0
    BY <1>2, <1>4, StopKeeps DEF Load
  <1>5. CASE row.id # 0
    <2>1. PICK j0, j : /\ j0 = [k EXCEPT !.snap = row] /\ j = [j0 EXCEPT !.todo = Tail(@)]
                       /\ Become(h, j)
      BY <1>1, <1>5 DEF Load, Then
    <2>2. /\ IsJob(j0) /\ j0.todo = k.todo /\ j0.on = k.on /\ j0.snap = row
          /\ j0.chan = k.chan /\ j0.found = k.found
      BY <1>3, <2>1, SetSnap
    <2>3. /\ IsJob(j) /\ j.on = k.on /\ j.snap = row /\ j.chan = k.chan
          /\ j.found = k.found /\ Planned(w, j.todo, j.chan)
          /\ j.todo # <<>> => Head(j.todo) = Succ(w, at)
      <3>1. Further(j0, j)
        BY <2>1 DEF Further
      <3>2. /\ IsJob(j0) /\ j0.todo # <<>> /\ Head(j0.todo) = at /\ w \in Whats
            /\ Planned(w, j0.todo, j0.chan) /\ at # "org"
        BY <1>1, <1>3, <2>2
      <3>3. /\ IsJob(j) /\ j.on = j0.on /\ j.snap = j0.snap /\ j.chan = j0.chan
            /\ j.found = j0.found /\ Planned(w, j.todo, j.chan)
            /\ j.todo # <<>> => Head(j.todo) = Succ(w, at)
        BY ONLY <3>1, <3>2, GoesOn
      <3>. QED BY <2>2, <3>3
    <2>4. j.todo # <<>> => Head(j.todo) \in {"write", "org", "find"}
      BY <1>1, <2>3 DEF Succ
    <2>5. j.found = 0
      BY <1>1, <1>3, <2>3 DEF Held
    <2>6. JobOK(j)
      <3>1. row \in Rows
        BY DEF CardInv, Shapes
      <3>2. j.todo # <<>> => Held(w, j)
        BY <1>5, <2>3, <2>4, <2>5 DEF Held
      <3>. QED BY <1>3, <2>3, <2>5, <3>1, <3>2 DEF JobOK
    <2>7. solo = {h} /\ j.todo # <<>> => Fresh(j)
      <3>1. solo = {h} => Fresh(k)
        BY <1>1, <1>2 DEF CardInv, AloneOK
      <3>. QED BY <1>1, <1>3, <2>3, <2>4, <3>1 DEF Fresh
    <2>. QED BY <1>2, <2>1, <2>6, <2>7, PlainStep
  <1>. QED BY <1>4, <1>5

LEMMA FindKeeps ==
  ASSUME IInv, CardInv, NEW h \in Workers, Find(h)
  PROVE  CardInv'
  <1>1. PICK k, w : k = job[h] /\ w = Event(h).what
    OBVIOUS
  <1>2. /\ Working(h) /\ Head(job[h].todo) # "record" /\ At(h, "find")
        /\ UNCHANGED <<outside, rows, cards, wrote, crossed, solo, calm, clean>>
    BY <1>1 DEF Find, At, traces
  <1>3. /\ IsJob(k) /\ JobOK(k) /\ k.todo # <<>> /\ Head(k.todo) = "find"
        /\ k.on \in DOMAIN events /\ events[k.on].what = w /\ w \in Whats
        /\ Planned(w, k.todo, k.chan) /\ Held(w, k) /\ w # "opened" /\ k.chan \in Places
    BY <1>1, <1>2, AtWork DEF CardSteps
  <1>4. PICK found, j0, j : /\ found = IF k.snap.id = row.id THEN digest[k.chan] ELSE 0
                            /\ j0 = [k EXCEPT !.found = found]
                            /\ j = [j0 EXCEPT !.todo = Tail(@)] /\ Become(h, j)
    BY <1>1 DEF Find, FoundIn, Then
  <1>5. /\ IsJob(j0) /\ j0.todo = k.todo /\ j0.on = k.on /\ j0.snap = k.snap
        /\ j0.chan = k.chan /\ j0.found = found
    BY ONLY <1>3, <1>4, SetFound
  <1>6. /\ j.on = k.on /\ j.snap = k.snap /\ j.chan = k.chan
        /\ j.found = found /\ Planned(w, j.todo, j.chan)
        /\ j.todo # <<>> => Head(j.todo) \in {"remove", "show"}
    <2>1. Further(j0, j)
      BY <1>4 DEF Further
    <2>2. /\ IsJob(j0) /\ j0.todo # <<>> /\ Head(j0.todo) = "find" /\ w \in Whats
          /\ Planned(w, j0.todo, j0.chan) /\ "find" # "org"
      BY <1>3, <1>5
    <2>3. /\ IsJob(j) /\ j.on = j0.on /\ j.snap = j0.snap /\ j.chan = j0.chan
          /\ j.found = j0.found /\ Planned(w, j.todo, j.chan)
          /\ j.todo # <<>> => Head(j.todo) = Succ(w, "find")
      BY ONLY <2>1, <2>2, GoesOn
    <2>. QED BY <1>5, <2>3 DEF Succ
  <1>7. JobOK(j)
    <2>1. found \in Nat /\ (found # 0 => found \in DOMAIN cards /\ cards[found].chan = k.chan)
      BY <1>3, <1>4 DEF CardInv, Shapes, Kept
    <2>2. k.snap.id # 0
      BY <1>3 DEF Held
    <2>3. j.todo # <<>> => Held(w, j)
      BY <1>6, <2>1, <2>2 DEF Held
    <2>. QED BY <1>3, <1>6, <2>1, <2>3 DEF JobOK
  <1>8. solo = {h} /\ j.todo # <<>> => Fresh(j)
    <2>1. solo = {h} => k.snap = row
      BY <1>1, <1>2, <1>3 DEF CardInv, AloneOK, Fresh, Held
    <2>. QED BY <1>3, <1>4, <1>6, <2>1 DEF Fresh
  <1>. QED BY <1>2, <1>4, <1>7, <1>8, PlainStep

\* A failure: its handler ends, or goes on to the next step of its plan.
LEMMA FailureKeeps ==
  ASSUME IInv, CardInv, NEW h \in Workers, InsertRaises(h) \/ SlackFails(h) \/ Die(h)
  PROVE  CardInv'
  <1>1. /\ Working(h) /\ clean' = FALSE
        /\ UNCHANGED <<outside, rows, cards, wrote, crossed, solo, calm>>
    BY DEF InsertRaises, SlackFails, Die, At
  <1>2. CASE Stop(h)
    BY <1>1, <1>2, StopKeeps
  <1>3. CASE At(h, "remove") /\ Step(h)
    <2>1. PICK k, w, j : /\ k = job[h] /\ w = Event(h).what
                         /\ j = [k EXCEPT !.todo = Tail(@)] /\ Become(h, j)
      BY <1>3 DEF Step, Then
    <2>2. /\ IsJob(k) /\ JobOK(k) /\ k.todo # <<>> /\ Head(k.todo) = "remove"
          /\ k.on \in DOMAIN events /\ events[k.on].what = w /\ w \in Whats
          /\ Planned(w, k.todo, k.chan) /\ Held(w, k) /\ w = "deleted"
      BY <1>3, <2>1, AtWork DEF Whats
    <2>3. /\ j.on = k.on /\ j.snap = k.snap /\ j.chan = k.chan
          /\ j.found = k.found /\ Planned(w, j.todo, j.chan)
          /\ j.todo # <<>> => Head(j.todo) = "drop"
      <3>1. Further(k, j)
        BY <2>1 DEF Further
      <3>2. /\ IsJob(k) /\ k.todo # <<>> /\ Head(k.todo) = "remove" /\ w \in Whats
            /\ Planned(w, k.todo, k.chan) /\ "remove" # "org"
        BY <2>2
      <3>3. /\ IsJob(j) /\ j.on = k.on /\ j.snap = k.snap /\ j.chan = k.chan
            /\ j.found = k.found /\ Planned(w, j.todo, j.chan)
            /\ j.todo # <<>> => Head(j.todo) = Succ(w, "remove")
        BY ONLY <3>1, <3>2, GoesOn
      <3>. QED BY <3>3 DEF Succ
    <2>4. JobOK(j)
      <3>1. j.todo # <<>> => Held(w, j)
        BY <2>2, <2>3 DEF Held
      <3>. QED BY <2>2, <2>3, <3>1 DEF JobOK
    <2>5. solo = {h} /\ j.todo # <<>> => Fresh(j)
      <3>1. solo = {h} => Fresh(k)
        BY <1>1, <2>1 DEF CardInv, AloneOK
      <3>. QED BY <2>2, <2>3, <3>1 DEF Fresh
    <2>. QED BY <1>1, <2>1, <2>4, <2>5, PlainStep
  <1>. QED BY <1>2, <1>3 DEF InsertRaises, SlackFails, Die

\* A message is edited or deleted.
LEMMA CardTouched ==
  ASSUME cards \in Seq(Messages), NEW t \in DOMAIN cards, NEW v, NEW card, card = cards[t]
  PROVE  /\ v \in Nat \X BOOLEAN \X SUBSET People
              /\ card.live /\ cards' = [cards EXCEPT ![t].shows = v] =>
              SameCards /\ cards'[t].shows = v
         /\ cards' = [cards EXCEPT ![t].live = FALSE] =>
              SameCards /\ \A i \in DOMAIN cards : cards'[i].shows = cards[i].shows
  <1>1. card \in Messages
    OBVIOUS
  <1>2. [card EXCEPT !.live = FALSE] \in Messages
    BY <1>1 DEF Messages
  <1>3. v \in Nat \X BOOLEAN \X SUBSET People => [card EXCEPT !.shows = v] \in Messages
    BY <1>1 DEF Messages
  <1>4. /\ [card EXCEPT !.live = FALSE].chan = card.chan
        /\ [card EXCEPT !.live = FALSE].live = FALSE
        /\ [card EXCEPT !.live = FALSE].shows = card.shows
        /\ [card EXCEPT !.shows = v].chan = card.chan
        /\ [card EXCEPT !.shows = v].live = card.live
        /\ [card EXCEPT !.shows = v].shows = v
    BY <1>1 DEF Messages
  <1>5. PICK dead, told : dead = [card EXCEPT !.live = FALSE] /\ told = [card EXCEPT !.shows = v]
    OBVIOUS
  <1>6. ASSUME v \in Nat \X BOOLEAN \X SUBSET People, cards' = [cards EXCEPT ![t].shows = v]
        PROVE  SameCards /\ cards'[t].shows = v
    <2>1. cards' = [cards EXCEPT ![t] = told]
      BY <1>5, <1>6
    <2>2. told \in Messages /\ told.chan = card.chan /\ told.live = card.live /\ told.shows = v
      BY <1>3, <1>4, <1>5, <1>6
    <2>. HIDE DEF Messages
    <2>3. /\ cards' \in Seq(Messages) /\ DOMAIN cards' = DOMAIN cards /\ cards'[t] = told
          /\ \A i \in DOMAIN cards : i # t => cards'[i] = cards[i]
      BY <2>1, <2>2
    <2>. QED BY <2>2, <2>3 DEF SameCards
  <1>7. ASSUME cards' = [cards EXCEPT ![t].live = FALSE]
        PROVE  SameCards /\ \A i \in DOMAIN cards : cards'[i].shows = cards[i].shows
    <2>1. cards' = [cards EXCEPT ![t] = dead]
      BY <1>5, <1>7
    <2>2. dead \in Messages /\ dead.chan = card.chan /\ dead.live = FALSE /\ dead.shows = card.shows
      BY <1>2, <1>4, <1>5
    <2>. HIDE DEF Messages
    <2>3. /\ cards' \in Seq(Messages) /\ DOMAIN cards' = DOMAIN cards /\ cards'[t] = dead
          /\ \A i \in DOMAIN cards : i # t => cards'[i] = cards[i]
      BY <2>1, <2>2
    <2>. QED BY <2>2, <2>3 DEF SameCards
  <1>. QED BY <1>6, <1>7

LEMMA SameUnchanged ==
  ASSUME CardInv, UNCHANGED cards
  PROVE  SameCards /\ \A i \in DOMAIN cards : cards'[i].shows = cards[i].shows
BY DEF CardInv, Shapes, SameCards

LEMMA ShownShapes ==
  ASSUME NEW r \in Rows
  PROVE  Shown(r) \in Nat \X BOOLEAN \X SUBSET People
BY DEF Shown, Rows

LEMMA TakeDownKeeps ==
  ASSUME IInv, CardInv, NEW h \in Workers, TakeDown(h)
  PROVE  CardInv'
  <1>1. PICK k, w, j : k = job[h] /\ w = Event(h).what /\ Further(k, j) /\ Become(h, j)
    BY DEF TakeDown, Step, Then, Further
  <1>2. /\ Working(h) /\ Head(job[h].todo) # "record" /\ At(h, "remove")
        /\ UNCHANGED <<outside, rows, wrote, crossed, solo, calm, clean>>
    BY DEF TakeDown, At, traces
  <1>3. /\ IsJob(k) /\ JobOK(k) /\ k.todo # <<>> /\ Head(k.todo) = "remove"
        /\ k.on \in DOMAIN events /\ events[k.on].what = w /\ w \in Whats
        /\ Planned(w, k.todo, k.chan) /\ Held(w, k) /\ w = "deleted"
    BY <1>1, <1>2, AtWork DEF Whats
  <1>4. /\ j.on = k.on /\ j.snap = k.snap /\ j.chan = k.chan
        /\ j.found = k.found /\ Planned(w, j.todo, j.chan)
        /\ j.todo # <<>> => Head(j.todo) = "drop"
    <2>1. /\ IsJob(j) /\ j.on = k.on /\ j.snap = k.snap /\ j.chan = k.chan
          /\ j.found = k.found /\ Planned(w, j.todo, j.chan)
          /\ j.todo # <<>> => Head(j.todo) = Succ(w, "remove")
      <3>1. /\ IsJob(k) /\ k.todo # <<>> /\ Head(k.todo) = "remove" /\ w \in Whats
            /\ Planned(w, k.todo, k.chan) /\ "remove" # "org" /\ Further(k, j)
        BY <1>1, <1>3
      <3>. QED BY ONLY <3>1, GoesOn
    <2>. QED BY <2>1 DEF Succ
  <1>5. SameCards /\ \A i \in DOMAIN cards : cards'[i].shows = cards[i].shows
    <2>1. CASE k.found = 0
      BY <1>1, <2>1, SameUnchanged DEF TakeDown
    <2>2. CASE k.found # 0
      <3>1. PICK t : t = k.found
        OBVIOUS
      <3>2. /\ t \in DOMAIN cards /\ cards \in Seq(Messages)
            /\ cards' = [cards EXCEPT ![t].live = FALSE]
        BY <1>1, <1>3, <2>2, <3>1 DEF TakeDown, Held, CardInv, Shapes
      <3>. QED BY <3>2, CardTouched
    <2>. QED BY <2>1, <2>2
  <1>6. JobOK(j)
    <2>1. j.todo # <<>> => Held(w, j)
      BY <1>3, <1>4 DEF Held
    <2>. QED BY <1>3, <1>4, <2>1 DEF JobOK
  <1>7. solo = {h} /\ j.todo # <<>> => Fresh(j)'
    <2>1. solo = {h} => Fresh(k)
      BY <1>1, <1>2 DEF CardInv, AloneOK
    <2>2. UNCHANGED <<row, digest, events>>
      BY <1>2 DEF outside, rows
    <2>. QED BY <1>3, <1>4, <2>1, <2>2 DEF Fresh
  <1>8. CalmOK'
    BY <1>2, CalmStays
  <1>. QED BY <1>1, <1>2, <1>5, <1>6, <1>7, <1>8, QuietStep

\* A handler alone has read the row as it is.
LEMMA AloneReads ==
  ASSUME CardInv, NEW h \in Workers, Working(h), solo = {h}, NEW k, k = job[h],
         k.snap.id # 0
  PROVE  k.snap = row /\ Fresh(k)
BY DEF CardInv, AloneOK, Fresh

\* An edit shows the row.  Where the pull request is in draft nothing is posted.
LEMMA ShowKeeps ==
  ASSUME IInv, CardInv, NEW h \in Workers, Edit(h) \/ HoldBack(h)
  PROVE  CardInv'
  <1>1. PICK k, w, t : k = job[h] /\ w = Event(h).what /\ t = k.found
    OBVIOUS
  <1>2. /\ Working(h) /\ Head(job[h].todo) # "record" /\ At(h, "show") /\ Stop(h)
        /\ UNCHANGED <<outside, rows, wrote, crossed, solo, clean>> /\ Settle(h)
    BY DEF Edit, HoldBack, At
  <1>3. /\ JobOK(k) /\ k.todo # <<>> /\ Head(k.todo) = "show" /\ Held(w, k)
        /\ k.chan \in Places
    BY <1>1, <1>2, AtWork DEF CardSteps
  <1>4. k.snap \in Rows /\ k.snap.id # 0 /\ (t # 0 => t \in DOMAIN cards)
    BY <1>1, <1>3 DEF JobOK, Held
  <1>5. /\ SameCards
        /\ t # 0 /\ cards'[t].live => cards'[t].shows = Shown(k.snap)
        /\ t = 0 => HoldsBack(k.snap)
    <2>1. CASE HoldBack(h) \/ (Edit(h) /\ ~cards[t].live)
      BY <1>1, <1>4, <2>1, SameUnchanged DEF HoldBack, Edit
    <2>2. CASE Edit(h) /\ cards[t].live
      <3>1. PICK v : v = Shown(k.snap)
        OBVIOUS
      <3>2. /\ t \in DOMAIN cards /\ cards \in Seq(Messages) /\ t # 0
            /\ cards' = [cards EXCEPT ![t].shows = v]
        BY <1>1, <1>4, <2>2, <3>1 DEF Edit, CardInv, Shapes
      <3>3. v \in Nat \X BOOLEAN \X SUBSET People
        BY <1>4, <3>1, ShownShapes
      <3>4. SameCards /\ cards'[t].shows = v
        BY <2>2, <3>2, <3>3, CardTouched
      <3>. QED BY <3>1, <3>2, <3>4
    <2>. QED BY <2>1, <2>2
  <1>6. job'[h].todo = <<>> /\ \A g \in Workers \ {h} : job'[g] = job[g]
    BY <1>2, IdleOK DEF Stop, Become, IInv, Typed
  <1>7. solo = {h} => RightAt(k.chan)'
    <2>. SUFFICES ASSUME solo = {h} PROVE RightAt(k.chan)'
      OBVIOUS
    <2>1. k.snap = row /\ t = digest[k.chan]
      BY <1>1, <1>2, <1>3, <1>4, AloneReads DEF Fresh
    <2>2. UNCHANGED <<row, digest, kind>>
      BY <1>2 DEF outside, rows
    <2>. QED BY <1>4, <1>5, <2>1, <2>2 DEF RightAt, HoldsBack
  <1>8. CalmOK'
    <2>1. PICK c : c = k.chan
      OBVIOUS
    <2>2. solo = {h} => RightAt(c)'
      BY <1>7, <2>1 DEF RightAt
    <2>. QED BY <1>1, <1>2, <1>6, <2>1, <2>2, CalmSettles
  <1>. QED BY <1>2, <1>5, <1>8, IdleOK, QuietStep DEF Stop

\* The message that is posted is the one its handler records.
LEMMA PostKeeps ==
  ASSUME IInv, CardInv, NEW h \in Workers, Post(h)
  PROVE  CardInv'
  <1>1. PICK k, w, n, card : /\ k = job[h] /\ w = Event(h).what /\ n = Len(cards) + 1
                             /\ card = [chan |-> k.chan, live |-> TRUE, shows |-> Shown(k.snap)]
    OBVIOUS
  <1>2. /\ Working(h) /\ Head(job[h].todo) # "record" /\ At(h, "show")
        /\ UNCHANGED <<outside, rows, wrote, crossed, solo, clean, calm>>
        /\ k.found = 0 /\ cards' = Append(cards, card)
    BY <1>1 DEF Post, At, traces
  <1>3. /\ IsJob(k) /\ JobOK(k) /\ k.todo # <<>> /\ Head(k.todo) = "show"
        /\ k.on \in DOMAIN events /\ events[k.on].what = w /\ w \in Whats
        /\ Planned(w, k.todo, k.chan) /\ Held(w, k) /\ k.chan \in Places
    BY <1>1, <1>2, AtWork DEF CardSteps
  <1>4. k.snap \in Rows /\ k.snap.id # 0
    BY <1>1, <1>3 DEF JobOK, Held
  <1>5. card \in Messages /\ card.chan = k.chan /\ card.shows = Shown(k.snap)
    BY <1>1, <1>3, <1>4, ShownShapes DEF Messages
  <1>6. /\ cards' \in Seq(Messages) /\ DOMAIN cards' = DOMAIN cards \cup {n} /\ n \notin DOMAIN cards
        /\ cards'[n] = card /\ n \in Nat /\ n # 0 /\ Len(cards') = n
        /\ \A t \in DOMAIN cards : cards'[t] = cards[t]
    <2>1. cards \in Seq(Messages)
      BY DEF CardInv, Shapes
    <2>. HIDE DEF Messages
    <2>. QED BY <1>1, <1>2, <1>5, <2>1
  <1>7. PICK j0, j : j0 = [k EXCEPT !.found = n] /\ Further(j0, j) /\ Become(h, j)
    BY <1>1, <1>6 DEF Post, Then, Further
  <1>8. /\ IsJob(j0) /\ j0.todo = k.todo /\ j0.on = k.on /\ j0.snap = k.snap
        /\ j0.chan = k.chan /\ j0.found = n
    BY ONLY <1>3, <1>7, SetFound
  <1>9. /\ j.on = k.on /\ j.snap = k.snap /\ j.chan = k.chan
        /\ j.found = n /\ Planned(w, j.todo, j.chan)
        /\ j.todo # <<>> /\ Head(j.todo) = "record"
    <2>0. PICK at : at = "show"
      OBVIOUS
    <2>1. /\ IsJob(j0) /\ j0.todo # <<>> /\ Head(j0.todo) = at /\ w \in Whats
          /\ Planned(w, j0.todo, j0.chan) /\ at # "org" /\ Further(j0, j)
      BY <1>3, <1>7, <1>8, <2>0
    <2>2. /\ IsJob(j) /\ j.on = j0.on /\ j.snap = j0.snap /\ j.chan = j0.chan
          /\ j.found = j0.found /\ Planned(w, j.todo, j.chan)
          /\ j.todo # <<>> => Head(j.todo) = Succ(w, at)
      BY ONLY <2>1, GoesOn
    <2>3. j.todo # <<>> \/ ~(at = "show")
      BY ONLY <2>1, GoesOn
    <2>. QED BY <1>8, <2>0, <2>2, <2>3 DEF Succ
  <1>10. UNCHANGED <<kind, events, queue, place, row, digest, rowIds, wrote, crossed, solo>>
    BY <1>2 DEF outside, rows
  <1>11. OnlyAdds
    BY <1>6, <1>10 DEF OnlyAdds
  <1>12. JobOK(j)'
    <2>1. Held(w, j)'
      BY <1>4, <1>5, <1>6, <1>9 DEF Held
    <2>2. Planned(w, j.todo, j.chan)' /\ events'[j.on].what = w /\ j.on \in DOMAIN events'
      BY <1>3, <1>9, <1>10 DEF Planned
    <2>3. kind' = "pr" /\ row'.id = 0 => j.snap.id = 0
      BY <1>3, <1>9, <1>10 DEF JobOK
    <2>. QED BY <1>3, <1>4, <1>6, <1>9, <2>1, <2>2, <2>3 DEF JobOK
  <1>13. solo = {h} => Fresh(j)'
    <2>. SUFFICES ASSUME solo = {h} PROVE Fresh(j)'
      OBVIOUS
    <2>1. k.snap = row /\ digest[k.chan] = 0
      BY <1>1, <1>2, <1>3, <1>4, AloneReads DEF Fresh
    <2>. QED BY <1>5, <1>6, <1>9, <1>10, <2>1 DEF Fresh
  <1>14. /\ JobsOK' /\ AloneOK' /\ job'[h] = j
    BY <1>2, <1>7, <1>10, <1>11, <1>12, <1>13, WorkerStep
  <1>15. CleanOK'
    <2>. SUFFICES ASSUME clean', NEW t \in DOMAIN cards', cards'[t].live
                  PROVE  (digest[cards[t].chan] = t \/ \E g \in Workers : Recording(g, t))'
      BY DEF CleanOK
    <2>1. CASE t = n
      BY <1>9, <1>14, <2>1 DEF Recording, Working
    <2>2. CASE t # n
      <3>1. t \in DOMAIN cards /\ cards'[t] = cards[t]
        BY <1>6, <2>2
      <3>2. solo = {h}
        BY <1>2 DEF CardInv, AloneOK
      <3>3. \A g \in Workers : ~Recording(g, t)
        BY <1>2, <3>2 DEF CardInv, AloneOK, Recording
      <3>. QED BY <1>2, <1>10, <3>1, <3>3 DEF CardInv, CleanOK
    <2>. QED BY <2>1, <2>2
  <1>16. CalmOK' /\ RowTracks'
    BY <1>2, <1>10, <1>11, CalmStays, ColumnsStay
  <1>17. Shapes' /\ Kept' /\ Kinds'
    BY <1>6, <1>10 DEF CardInv, Shapes, Kept, Kinds
  <1>. QED BY <1>14, <1>15, <1>16, <1>17 DEF CardInv

LEMMA RecordKeeps ==
  ASSUME IInv, CardInv, NEW h \in Workers, Record(h)
  PROVE  CardInv'
  <1>1. PICK k, w, t, c : k = job[h] /\ w = Event(h).what /\ t = k.found /\ c = k.chan
    OBVIOUS
  <1>2. /\ Working(h) /\ At(h, "record") /\ Stop(h)
        /\ UNCHANGED <<outside, row, rowIds, cards, wrote, crossed, solo>>
    BY DEF Record, At
  <1>3. /\ JobOK(k) /\ k.todo # <<>> /\ Head(k.todo) = "record" /\ Held(w, k)
        /\ c \in Places
    BY <1>1, <1>2, AtWork DEF CardSteps
  <1>4. k.snap.id # 0 /\ t # 0 /\ t \in DOMAIN cards /\ cards[t].chan = c /\ t \in Nat
    BY <1>1, <1>3 DEF JobOK, Held
  <1>5. CASE k.snap.id # row.id
    <2>1. clean' = FALSE /\ UNCHANGED <<digest, calm>>
      BY <1>1, <1>5 DEF Record
    <2>. QED BY <1>2, <2>1, StopKeeps DEF rows
  <1>6. CASE k.snap.id = row.id
    <2>1. /\ digest' = [digest EXCEPT ![c] = t] /\ Settle(h) /\ clean' = clean
      BY <1>1, <1>6 DEF Record, Recorded
    <2>2. UNCHANGED <<kind, events, queue, place, row, rowIds, cards, wrote, crossed, solo>>
      BY <1>2 DEF outside
    <2>3. digest' \in [Places -> Nat] /\ digest'[c] = t /\ \A d \in Places : d # c => digest'[d] = digest[d]
      BY <1>3, <1>4, <2>1 DEF CardInv, Shapes
    <2>4. OnlyAdds
      BY <2>2 DEF OnlyAdds
    <2>5. JobOK(Idle)' /\ Idle.todo = <<>>
      BY <2>4, IdleOK, JobStays
    <2>6. /\ JobsOK' /\ AloneOK' /\ job'[h] = Idle
          /\ \A g \in Workers \ {h} : job'[g] = job[g]
      BY <1>2, <2>1, <2>2, <2>4, <2>5, WorkerStep DEF Stop
    <2>7. solo = {h} => k.snap = row /\ digest[c] = 0 /\ cards[t].shows = Shown(row)
      BY <1>1, <1>2, <1>3, <1>4, AloneReads DEF Fresh
    <2>8. CleanOK'
      <3>. SUFFICES ASSUME clean', NEW i \in DOMAIN cards', cards'[i].live
                    PROVE  digest'[cards'[i].chan] = i
        BY DEF CleanOK
      <3>1. solo = {h} /\ i \in DOMAIN cards /\ cards[i].live
        BY <1>2, <2>1, <2>2 DEF CardInv, AloneOK
      <3>2. cards[i].chan \in Places /\ i # 0
        <4>1. cards[i] \in Messages /\ i # 0
          BY <3>1 DEF CardInv, Shapes
        <4>. QED BY <4>1 DEF Messages
      <3>3. CASE digest[cards[i].chan] = i
        BY <2>2, <2>3, <2>7, <3>1, <3>2, <3>3
      <3>4. CASE \E g \in Workers : Recording(g, i)
        <4>1. i = t
          BY <1>1, <1>2, <3>1, <3>4 DEF CardInv, AloneOK, Recording
        <4>. QED BY <1>4, <2>2, <2>3, <4>1
      <3>. QED BY <2>1, <3>1, <3>3, <3>4 DEF CardInv, CleanOK
    <2>9. CalmOK'
      <3>1. solo = {h} => RightAt(c)'
        BY <1>4, <1>6, <2>2, <2>3, <2>7 DEF RightAt
      <3>. QED BY <1>1, <1>2, <2>1, <2>5, <2>6, <3>1, CalmSettles
    <2>10. Shapes' /\ Kept' /\ Kinds'
      BY <1>4, <1>6, <2>2, <2>3 DEF CardInv, Shapes, Kept, Kinds
    <2>11. RowTracks'
      BY <2>2, <2>4, ColumnsStay
    <2>. QED BY <2>6, <2>8, <2>9, <2>10, <2>11 DEF CardInv
  <1>. QED BY <1>5, <1>6

\* The issue goes, and with it the rows of its cards.
LEMMA DropKeeps ==
  ASSUME IInv, CardInv, NEW h \in Workers, Drop(h)
  PROVE  CardInv'
  <1>1. PICK k, w, c : k = job[h] /\ w = Event(h).what /\ c = k.chan
    OBVIOUS
  <1>2. /\ Working(h) /\ Head(job[h].todo) # "record" /\ At(h, "drop") /\ Stop(h) /\ Settle(h)
        /\ UNCHANGED <<outside, rowIds, cards, wrote, crossed, solo>>
    BY DEF Drop, At
  <1>3. /\ k.todo # <<>> /\ Head(k.todo) = "drop" /\ Held(w, k) /\ kind = "issue"
    BY <1>1, <1>2, AtWork DEF Whats
  <1>4. k.snap.id # 0
    BY <1>1, <1>3 DEF Held
  <1>5. UNCHANGED <<kind, events, queue, place, rowIds, cards, wrote, crossed, solo>>
    BY <1>2 DEF outside
  <1>6. job'[h].todo = <<>> /\ \A g \in Workers \ {h} : job'[g] = job[g]
    BY <1>2, IdleOK DEF Stop, Become, IInv, Typed
  <1>7. CASE k.snap.id # row.id
    <2>1. UNCHANGED <<row, digest, clean>>
      BY <1>1, <1>7 DEF Drop
    <2>2. solo # {h}
      BY <1>1, <1>2, <1>4, <1>7, AloneReads
    <2>3. calm' = NoPlace
      BY <1>2, <2>2 DEF Settle
    <2>. QED BY <1>2, <1>5, <2>1, <2>3, StopKeeps DEF rows
  <1>8. CASE k.snap.id = row.id
    <2>1. /\ row' = NoRow /\ digest' = [d \in Places |-> 0]
          /\ clean' = (clean /\ \A t \in DOMAIN cards : ~cards[t].live)
      BY <1>1, <1>8 DEF Drop
    <2>2. row' \in Rows /\ row'.id = 0
      BY <2>1 DEF NoRow, Rows
    <2>3. OnlyAdds
      BY <1>3, <1>5 DEF OnlyAdds
    <2>4. JobOK(Idle)' /\ Idle.todo = <<>>
      BY <2>3, IdleOK, JobStays
    <2>5. JobsOK' /\ AloneOK'
      BY <1>2, <1>5, <2>1, <2>3, <2>4, WorkerStep DEF Stop
    <2>6. CleanOK'
      BY <1>5, <2>1 DEF CleanOK
    <2>7. CalmOK'
      <3>1. c \in Places => RightAt(c)'
        BY <1>5, <2>1, <2>2 DEF RightAt
      <3>. QED BY <1>1, <1>2, <1>6, <3>1, CalmSettles
    <2>8. Shapes' /\ Kept' /\ Kinds'
      BY <1>3, <1>5, <2>1, <2>2 DEF CardInv, Shapes, Kept, Kinds
    <2>9. RowTracks'
      BY <2>2 DEF RowTracks
    <2>. QED BY <2>5, <2>6, <2>7, <2>8, <2>9 DEF CardInv
  <1>. QED BY <1>7, <1>8

\* A delivery is taken up.
LEMMA ReceiveKeeps ==
  ASSUME IInv, CardInv, NEW h \in Workers, NEW n \in queue, Receive(h, n)
  PROVE  CardInv'
  <1>1. PICK w, q, j : /\ w = events[n].what /\ q = Flow[w]
                       /\ j = [Idle EXCEPT !.todo = q, !.on = n]
    OBVIOUS
  <1>2. /\ ~Working(h) /\ queue' = queue \ {n} /\ Become(h, j)
        /\ clean' = (clean /\ Resting) /\ solo' = (IF Resting THEN {h} ELSE {})
        /\ calm' = NoPlace
        /\ UNCHANGED <<kind, events, place, row, digest, rowIds, cards, wrote, crossed>>
    BY <1>1 DEF Receive, rows
  <1>3. j.todo = q /\ j.on = n /\ j.snap = NoRow /\ j.chan = NoPlace /\ j.found = 0
    <2>1. PICK k : k = [Idle EXCEPT !.todo = q] /\ j = [k EXCEPT !.on = n]
      BY <1>1
    <2>2. k = [todo |-> q, on |-> 0, snap |-> NoRow, chan |-> NoPlace, found |-> 0]
      BY ONLY <2>1 DEF Idle
    <2>3. [k EXCEPT !.on = n]
          = [todo |-> q, on |-> n, snap |-> NoRow, chan |-> NoPlace, found |-> 0]
      BY ONLY <2>2
    <2>4. j = [todo |-> q, on |-> n, snap |-> NoRow, chan |-> NoPlace, found |-> 0]
      BY ONLY <2>1, <2>3, Zenon
    <2>. QED BY ONLY <2>4
  <1>4. n \in DOMAIN events /\ w \in Whats
    <2>1. n \in DOMAIN events /\ events[n] \in Events
      BY DEF IInv, Typed, CardInv, Shapes
    <2>. QED BY <1>1, <2>1 DEF Events, Whats
  <1>5. /\ Planned(w, q, NoPlace) /\ q # <<>>
        /\ Head(q) = IF w = "unasked" THEN "read" ELSE IF w = "deleted" THEN "load" ELSE "org"
    BY <1>1, <1>4, FlowPlanned
  <1>6. NoRow.id = 0 /\ NoRow \in Rows
    BY DEF NoRow, Rows
  <1>7. JobOK(j)
    <2>1. Held(w, j)
      BY <1>3, <1>5 DEF Held
    <2>. QED BY <1>1, <1>3, <1>4, <1>5, <1>6, <2>1 DEF JobOK
  <1>8. OnlyAdds
    BY <1>2 DEF OnlyAdds
  <1>9. JobsOK' /\ job'[h] = j /\ \A g \in Workers \ {h} : job'[g] = job[g]
    <2>1. JobOK(j)'
      BY <1>7, <1>8, JobStays
    <2>. QED BY <1>2, <1>8, <2>1, JobsStay DEF CardInv
  <1>10. Resting => \A g \in Workers : Working(g)' => g = h
    BY <1>9 DEF Resting, Working
  <1>11. Fresh(j)'
    BY <1>1, <1>2, <1>3, <1>5, <1>6 DEF Fresh
  <1>12. AloneOK'
    <2>1. ASSUME NEW g \in Workers, Working(g)', solo' = {g}
          PROVE  Fresh(job[g])' /\ \A f \in Workers : Working(f)' => f = g
      <3>1. Resting /\ g = h
        BY <1>2, <2>1
      <3>2. Fresh(job[g])'
        BY <1>9, <1>11, <3>1 DEF Fresh
      <3>. QED BY <1>10, <3>1, <3>2
    <2>2. clean' => \A g \in Workers : Working(g)' => solo' = {g}
      BY <1>2, <1>10
    <2>. QED BY <2>1, <2>2 DEF AloneOK
  <1>13. CleanOK'
    <2>1. clean' => clean /\ \A g \in Workers : \A t : ~Recording(g, t)
      BY <1>2 DEF Resting, Recording
    <2>. QED BY <1>2, <2>1 DEF CardInv, CleanOK
  <1>14. CalmOK' /\ RowTracks'
    BY <1>2, <1>8, ColumnsStay DEF CalmOK
  <1>15. Shapes' /\ Kept' /\ Kinds'
    BY <1>2 DEF CardInv, Shapes, Kept, Kinds
  <1>. QED BY <1>9, <1>12, <1>13, <1>14, <1>15 DEF CardInv

\* The pull request is tracked, without reviewers.
LEMMA InsertKeeps ==
  ASSUME IInv, CardInv, NEW h \in Workers, Insert(h)
  PROVE  CardInv'
  <1>1. PICK k, w, n, new : /\ k = job[h] /\ w = Event(h).what /\ n = k.on
                            /\ new = [NoRow EXCEPT !.id = rowIds + 1, !.title = n,
                                                   !.draft = Event(h).draft]
    OBVIOUS
  <1>2. /\ Working(h) /\ Head(job[h].todo) # "record" /\ At(h, "insert") /\ row.id = 0
        /\ row' = new /\ rowIds' = rowIds + 1
        /\ wrote' = [wrote EXCEPT !["title"] = n, !["draft"] = n]
        /\ UNCHANGED <<kind, events, queue, place, digest, cards, crossed, solo, calm, clean>>
    BY <1>1 DEF Insert, At, outside
  <1>3. /\ IsJob(k) /\ JobOK(k) /\ k.todo # <<>> /\ Head(k.todo) = "insert"
        /\ n \in DOMAIN events /\ events[n].what = w /\ w = "opened" /\ w \in Whats
        /\ Planned(w, k.todo, k.chan) /\ Held(w, k) /\ kind # "issue"
    BY <1>1, <1>2, AtWork DEF Whats
  <1>4. events[n] \in Events /\ n \in Nat /\ n # 0 /\ n \in 0..Len(events)
    BY <1>3 DEF IInv, Typed
  <1>5. rowIds \in Nat /\ k.found = 0 /\ k.chan \in Places \cup {NoPlace}
    BY <1>3 DEF CardInv, Shapes, Held, JobOK
  <1>6. /\ new \in Rows /\ new.id # 0 /\ new.title = n /\ new.draft = events[n].draft
    <2>1. events[n].draft \in BOOLEAN
      BY <1>4 DEF Events
    <2>2. new = [id |-> rowIds + 1, title |-> n, draft |-> events[n].draft, reviewers |-> {},
                 clock |-> 0]
      BY <1>1 DEF NoRow, Event
    <2>. QED BY <1>4, <1>5, <2>1, <2>2 DEF Rows
  <1>7. PICK rest, j0, j :
          /\ rest = IF Event(h).reviewers # {} THEN Tail(k.todo)
                    ELSE IF k.chan = NoPlace THEN <<>> ELSE <<"show", "record">>
          /\ j0 = [k EXCEPT !.snap = new] /\ j = [j0 EXCEPT !.todo = rest]
          /\ Become(h, j)
    BY <1>1, JobSetTwo DEF Insert
  <1>8. /\ IsJob(j0) /\ j0.on = n /\ j0.snap = new /\ j0.chan = k.chan /\ j0.found = 0
    <2>0. IsJob(k) /\ j0 = [k EXCEPT !.snap = new]
      BY <1>3, <1>7
    <2>1. IsJob(j0) /\ j0.on = k.on /\ j0.snap = new /\ j0.chan = k.chan /\ j0.found = k.found
      BY ONLY <2>0, SetSnap
    <2>. QED BY <1>1, <1>5, <2>1
  <1>9. j.todo = rest /\ j.on = n /\ j.snap = new /\ j.chan = k.chan /\ j.found = 0
    <2>1. j = [j0 EXCEPT !.todo = rest]
      BY <1>7
    <2>2. j.todo = rest /\ j.on = j0.on /\ j.snap = j0.snap /\ j.chan = j0.chan /\ j.found = j0.found
      BY ONLY <1>8, <2>1, SetTodo
    <2>. QED BY <1>8, <2>2
  <1>10. rest # <<>> => /\ Planned(w, rest, k.chan)
                        /\ \/ Head(rest) = "read"
                           \/ Head(rest) = "show" /\ k.chan \in Places
    <2>1. CASE rest = Tail(k.todo)
      <3>1. PICK q, chan : q = k.todo /\ chan = k.chan
        OBVIOUS
      <3>2. q # <<>> /\ Planned(w, q, chan) /\ rest = Tail(q) /\ Onward(q, chan, chan)
        BY <1>3, <2>1, <3>1 DEF Onward
      <3>3. w \in Whats
        BY <1>3
      <3>4. Planned(w, rest, chan) /\ (rest # <<>> => Head(rest) = Succ(w, Head(q)))
        BY ONLY <3>2, <3>3, TailPlanned
      <3>. QED BY <1>3, <3>1, <3>4 DEF Succ
    <2>2. CASE rest = <<"show", "record">> /\ k.chan # NoPlace
      <3>1. PICK chan : chan = k.chan
        OBVIOUS
      <3>2. Planned("opened", rest, chan) /\ Head(rest) = "show"
        BY <2>2, <3>1, CardPlanned
      <3>. QED BY <1>3, <1>5, <2>2, <3>1, <3>2
    <2>. QED BY <1>7, <2>1, <2>2
  <1>11. OnlyAdds
    BY <1>2, <1>6 DEF OnlyAdds
  <1>12. JobOK(j)'
    <2>1. rest # <<>> => Held(w, j)'
      BY <1>6, <1>9, <1>10 DEF Held
    <2>2. rest # <<>> => Planned(w, rest, k.chan)'
      BY <1>10 DEF Planned
    <2>3. row'.id # 0
      BY <1>2, <1>6
    <2>. QED BY <1>2, <1>3, <1>5, <1>6, <1>9, <2>1, <2>2, <2>3 DEF JobOK
  <1>13. \A c \in Places : digest[c] = 0
    BY <1>2 DEF CardInv, Kept
  <1>14. j.todo # <<>> => Fresh(j)'
    BY <1>2, <1>9, <1>10, <1>13 DEF Fresh
  <1>15. JobsOK' /\ AloneOK'
    BY <1>2, <1>7, <1>11, <1>12, <1>14, WorkerStep
  <1>16. CleanOK' /\ CalmOK'
    BY <1>2, CleanStays, CalmStays
  <1>17. /\ Shapes' /\ Kept'
    BY <1>2, <1>5, <1>6 DEF CardInv, Shapes, Kept
  <1>18. /\ wrote' \in [Columns -> 0..Len(events)]
         /\ wrote'["title"] = n /\ wrote'["draft"] = n /\ wrote'["reviewers"] = 0
    BY <1>2, <1>3, <1>4 DEF CardInv, Kinds, Columns, Whats, Shapes
  <1>19. Kinds'
    BY <1>2, <1>3, <1>6, <1>18 DEF CardInv, Kinds
  <1>20. RowTracks'
    BY <1>2, <1>6, <1>18 DEF RowTracks, Columns
  <1>. QED BY <1>15, <1>16, <1>17, <1>19, <1>20 DEF CardInv

\* An issue is written whole.
LEMMA SaveKeeps ==
  ASSUME IInv, CardInv, NEW h \in Workers, Save(h)
  PROVE  CardInv'
  <1>1. PICK k, w, n, id, new :
          /\ k = job[h] /\ w = Event(h).what /\ n = k.on
          /\ id = IF row.id = 0 THEN rowIds + 1 ELSE row.id
          /\ new = [NoRow EXCEPT !.id = id, !.title = n]
    OBVIOUS
  <1>2. /\ Working(h) /\ Head(job[h].todo) # "record" /\ At(h, "save")
        /\ rowIds' = (IF row.id = 0 THEN rowIds + 1 ELSE rowIds)
        /\ wrote' = [wrote EXCEPT !["title"] = n]
        /\ UNCHANGED <<kind, events, queue, place, digest, cards, crossed, solo, calm, clean>>
    BY <1>1 DEF Save, At, outside
  <1>3. row' = new
    BY <1>1, <1>2 DEF Save
  <1>4. /\ IsJob(k) /\ JobOK(k) /\ k.todo # <<>> /\ Head(k.todo) = "save"
        /\ n \in DOMAIN events /\ events[n].what = w /\ w = "saved" /\ w \in Whats
        /\ Planned(w, k.todo, k.chan) /\ Held(w, k) /\ kind = "issue"
    BY <1>1, <1>2, AtWork DEF Whats
  <1>5. n \in Nat /\ n # 0 /\ n \in 0..Len(events)
    BY <1>4 DEF IInv, Typed
  <1>6. /\ rowIds \in Nat /\ k.found = 0 /\ k.chan \in Places \cup {NoPlace}
        /\ id \in Nat /\ id # 0
    BY <1>1, <1>4 DEF CardInv, Shapes, Held, JobOK, Rows
  <1>7. new \in Rows /\ new.id # 0 /\ new.title = n
    <2>1. new = [id |-> id, title |-> n, draft |-> FALSE, reviewers |-> {}, clock |-> 0]
      BY <1>1 DEF NoRow
    <2>. QED BY <1>5, <1>6, <2>1 DEF Rows
  <1>8. PICK j0, j : j0 = [k EXCEPT !.snap = new] /\ Further(j0, j) /\ Become(h, j)
    BY <1>1, <1>3 DEF Save, Then, Further
  <1>9. /\ IsJob(j0) /\ j0.todo = k.todo /\ j0.on = k.on /\ j0.snap = new
        /\ j0.chan = k.chan /\ j0.found = k.found
    <2>1. IsJob(k) /\ j0 = [k EXCEPT !.snap = new]
      BY <1>4, <1>8
    <2>. QED BY ONLY <2>1, SetSnap
  <1>10. /\ j.on = n /\ j.snap = new /\ j.chan = k.chan
         /\ j.found = 0 /\ Planned(w, j.todo, j.chan)
         /\ j.todo # <<>> => Head(j.todo) = "find"
    <2>1. /\ IsJob(j0) /\ j0.todo # <<>> /\ Head(j0.todo) = "save" /\ w \in Whats
          /\ Planned(w, j0.todo, j0.chan) /\ "save" # "org" /\ Further(j0, j)
      BY <1>4, <1>8, <1>9
    <2>2. /\ IsJob(j) /\ j.on = j0.on /\ j.snap = j0.snap /\ j.chan = j0.chan
          /\ j.found = j0.found /\ Planned(w, j.todo, j.chan)
          /\ j.todo # <<>> => Head(j.todo) = Succ(w, "save")
      BY ONLY <2>1, GoesOn
    <2>. QED BY <1>1, <1>6, <1>9, <2>2 DEF Succ
  <1>11. OnlyAdds
    BY <1>2, <1>3, <1>7 DEF OnlyAdds
  <1>12. JobOK(j)
    <2>1. j.todo # <<>> => Held(w, j)
      BY <1>7, <1>10 DEF Held
    <2>. QED BY <1>4, <1>6, <1>7, <1>10, <2>1 DEF JobOK
  <1>13. j.todo # <<>> => Fresh(j)'
    BY <1>2, <1>3, <1>10 DEF Fresh
  <1>14. JobsOK' /\ AloneOK'
    <2>1. JobOK(j)'
      BY <1>11, <1>12, JobStays
    <2>. QED BY <1>2, <1>8, <1>11, <1>13, <2>1, WorkerStep
  <1>15. CleanOK' /\ CalmOK'
    BY <1>2, CleanStays, CalmStays
  <1>16. /\ Shapes' /\ Kept'
    BY <1>2, <1>3, <1>6, <1>7 DEF CardInv, Shapes, Kept
  <1>17. /\ wrote' \in [Columns -> 0..Len(events)]
         /\ wrote'["title"] = n /\ wrote'["draft"] = 0 /\ wrote'["reviewers"] = 0
    BY <1>2, <1>4, <1>5 DEF CardInv, Kinds, Columns
  <1>18. Kinds'
    BY <1>2, <1>4, <1>17 DEF CardInv, Kinds
  <1>19. RowTracks'
    BY <1>3, <1>7, <1>17 DEF RowTracks, Columns
  <1>. QED BY <1>14, <1>15, <1>16, <1>18, <1>19 DEF CardInv

\* The row as a setter wants it: one column, and the clock with the reviewers.
LEMMA RowWanted ==
  ASSUME events \in Seq(Events), NEW n \in DOMAIN events, NEW r \in Rows, NEW w,
         w = events[n].what, NEW new, new = Changed(r, n)
  PROVE  /\ new \in Rows /\ new.id = r.id
         /\ w = "title" => /\ new.title = n /\ new.draft = r.draft
                           /\ new.reviewers = r.reviewers
         /\ w = "draft" => /\ new.draft = events[n].draft /\ new.title = r.title
                           /\ new.reviewers = r.reviewers
         /\ w \notin {"title", "draft"} => /\ new.reviewers = events[n].reviewers
                                           /\ new.title = r.title /\ new.draft = r.draft
  <1>1. PICK e, now : /\ e = events[n]
                      /\ now = NextReviewRequestedAt(r.reviewers # {}, e.reviewers, r.clock, n)
    OBVIOUS
  <1>2. e \in Events /\ n \in Nat
    BY <1>1
  <1>3. e.draft \in BOOLEAN /\ e.reviewers \in SUBSET People /\ e.what = w
    BY <1>1, <1>2 DEF Events
  <1>4. now \in Nat
    BY <1>1, <1>2 DEF NextReviewRequestedAt, Rows
  <1>5. CASE w = "title"
    <2>1. new = [r EXCEPT !.title = n]
      BY <1>1, <1>3, <1>5 DEF Changed
    <2>. QED BY <1>2, <1>5, <2>1 DEF Rows
  <1>6. CASE w = "draft"
    <2>1. new = [r EXCEPT !.draft = e.draft]
      BY <1>1, <1>3, <1>6 DEF Changed
    <2>. QED BY <1>1, <1>3, <1>6, <2>1 DEF Rows
  <1>7. CASE w \notin {"title", "draft"}
    <2>1. new = [r EXCEPT !.reviewers = e.reviewers, !.clock = now]
      BY <1>1, <1>3, <1>7 DEF Changed
    <2>2. PICK some : some = e.reviewers
      OBVIOUS
    <2>3. new = [r EXCEPT !.reviewers = some, !.clock = now] /\ some \in SUBSET People
      BY <1>3, <2>1, <2>2
    <2>4. /\ new \in Rows /\ new.id = r.id /\ new.reviewers = some /\ new.title = r.title
          /\ new.draft = r.draft
      BY ONLY <1>4, <2>3, r \in Rows DEF Rows
    <2>. QED BY <1>1, <1>7, <2>2, <2>4
  <1>. QED BY <1>5, <1>6, <1>7

LEMMA RowCommitted ==
  ASSUME row \in Rows, NEW old \in Rows, NEW new \in Rows, NEW now, now = Commit(old, new)
  PROVE  /\ now \in Rows
         /\ \A f \in {"id", "title", "draft", "reviewers"} :
              now[f] = IF new[f] = old[f] THEN row[f] ELSE new[f]
  <1>1. DOMAIN row = {"id", "title", "draft", "reviewers", "clock"}
    BY DEF Rows
  <1>2. now = [f \in DOMAIN row |-> IF new[f] = old[f] THEN row[f] ELSE new[f]]
    BY DEF Commit
  <1>3. \A f \in {"id", "title", "draft", "reviewers", "clock"} :
          now[f] = IF new[f] = old[f] THEN row[f] ELSE new[f]
    BY <1>1, <1>2
  <1>4. now = [id |-> now.id, title |-> now.title, draft |-> now.draft,
               reviewers |-> now.reviewers, clock |-> now.clock]
    BY ONLY <1>1, <1>2
  <1>5. /\ now.id \in Nat /\ now.title \in Nat /\ now.draft \in BOOLEAN
        /\ now.reviewers \in SUBSET People /\ now.clock \in Nat
    BY <1>3 DEF Rows
  <1>6. now \in Rows
    BY ONLY <1>4, <1>5 DEF Rows
  <1>. QED BY <1>3, <1>6

\* A setter's column.  It is the event's, unless another handler wrote it since
\* the row was read, and the other columns are the row's own.
LEMMA WriteKeeps ==
  ASSUME IInv, CardInv, NEW h \in Workers, Write(h)
  PROVE  CardInv'
  <1>1. PICK k, w, n, old, new, now, column :
          /\ k = job[h] /\ w = Event(h).what /\ n = k.on /\ old = k.snap
          /\ new = Changed(old, n) /\ now = Commit(old, new)
          /\ column = IF w \in {"title", "draft"} THEN w ELSE "reviewers"
    OBVIOUS
  <1>2. /\ Working(h) /\ Head(job[h].todo) # "record" /\ At(h, "write")
        /\ row' = now /\ wrote' = [wrote EXCEPT ![column] = n]
        /\ crossed' = (IF row[column] = old[column] THEN crossed ELSE crossed \cup {column})
        /\ UNCHANGED <<kind, events, queue, place, digest, rowIds, cards, solo, calm, clean>>
    BY <1>1 DEF Write, At, outside
  <1>3. /\ IsJob(k) /\ JobOK(k) /\ k.todo # <<>> /\ Head(k.todo) = "write"
        /\ n \in DOMAIN events /\ events[n].what = w /\ w \in Whats
        /\ Planned(w, k.todo, k.chan) /\ Held(w, k) /\ kind = "pr"
    <2>1. kind \in {"pr", "issue"}
      BY DEF CardInv, Shapes
    <2>. QED BY <1>1, <1>2, <2>1, AtWork DEF Whats
  <1>4. /\ row \in Rows /\ old \in Rows /\ old.id # 0 /\ k.found = 0
        /\ k.chan \in Places \cup {NoPlace}
    BY <1>1, <1>3 DEF CardInv, Shapes, JobOK, Held
  <1>5. row.id # 0
    BY <1>1, <1>3, <1>4 DEF JobOK
  <1>6. events \in Seq(Events) /\ n \in 1..Len(events)
    BY <1>3 DEF IInv, Typed
  <1>7. /\ new \in Rows /\ new.id = old.id
        /\ w = "title" => /\ new.title = n /\ new.draft = old.draft
                          /\ new.reviewers = old.reviewers
        /\ w = "draft" => /\ new.draft = events[n].draft /\ new.title = old.title
                          /\ new.reviewers = old.reviewers
        /\ w \notin {"title", "draft"} => /\ new.reviewers = events[n].reviewers
                                          /\ new.title = old.title /\ new.draft = old.draft
    BY <1>1, <1>3, <1>4, <1>6, RowWanted
  <1>8. /\ now \in Rows
        /\ \A f \in {"id", "title", "draft", "reviewers"} :
             now[f] = IF new[f] = old[f] THEN row[f] ELSE new[f]
    BY <1>1, <1>4, <1>7, RowCommitted
  <1>9. now.id = row.id
    BY <1>7, <1>8
  <1>10. PICK j0, j : j0 = [k EXCEPT !.snap = now] /\ Further(j0, j) /\ Become(h, j)
    BY <1>1, <1>2 DEF Write, Then, Further
  <1>11. /\ IsJob(j0) /\ j0.todo = k.todo /\ j0.on = k.on /\ j0.snap = now
         /\ j0.chan = k.chan /\ j0.found = k.found
    <2>1. IsJob(k) /\ j0 = [k EXCEPT !.snap = now]
      BY <1>3, <1>10
    <2>. QED BY ONLY <2>1, SetSnap
  <1>12. /\ j.on = n /\ j.snap = now /\ j.chan = k.chan
         /\ j.found = 0 /\ Planned(w, j.todo, j.chan)
         /\ j.todo # <<>> => Head(j.todo) = IF w = "opened" THEN "show"
                                            ELSE IF w = "unasked" THEN "org" ELSE "load"
    <2>1. /\ IsJob(j0) /\ j0.todo # <<>> /\ Head(j0.todo) = "write" /\ w \in Whats
          /\ Planned(w, j0.todo, j0.chan) /\ "write" # "org" /\ Further(j0, j)
      BY <1>3, <1>10, <1>11
    <2>2. /\ IsJob(j) /\ j.on = j0.on /\ j.snap = j0.snap /\ j.chan = j0.chan
          /\ j.found = j0.found /\ Planned(w, j.todo, j.chan)
          /\ j.todo # <<>> => Head(j.todo) = Succ(w, "write")
      BY ONLY <2>1, GoesOn
    <2>. QED BY <1>1, <1>4, <1>11, <2>2 DEF Succ
  <1>13. OnlyAdds
    BY <1>2, <1>5, <1>9 DEF OnlyAdds
  <1>14. JobOK(j)
    <2>1. j.todo # <<>> => Held(w, j)
      BY <1>5, <1>9, <1>3, <1>12 DEF Held
    <2>. QED BY <1>3, <1>4, <1>5, <1>8, <1>12, <2>1 DEF JobOK
  <1>15. solo = {h} /\ j.todo # <<>> => Fresh(j)'
    <2>. SUFFICES ASSUME solo = {h}, j.todo # <<>> PROVE Fresh(j)'
      OBVIOUS
    <2>1. w = "opened" => \A c \in Places : digest[c] = 0
      BY <1>1, <1>2, <1>3, <1>4, AloneReads DEF Fresh
    <2>2. Head(j.todo) = "show" => w = "opened" /\ j.chan \in Places
      <3>1. Head(j.todo) = "show" => j.chan # NoPlace
        BY <1>12, CardStepPlaced DEF CardSteps
      <3>. QED BY <1>4, <1>12, <3>1
    <2>. QED BY <1>2, <1>12, <2>1, <2>2 DEF Fresh
  <1>16. JobsOK' /\ AloneOK'
    <2>1. JobOK(j)'
      BY <1>13, <1>14, JobStays
    <2>. QED BY <1>2, <1>10, <1>13, <1>15, <2>1, WorkerStep
  <1>17. CleanOK' /\ CalmOK'
    BY <1>2, CleanStays, CalmStays
  <1>18. /\ Shapes' /\ Kept'
    BY <1>2, <1>5, <1>8, <1>9 DEF CardInv, Shapes, Kept
  <1>19. column \in Columns /\ wrote' \in [Columns -> 0..Len(events)]
         /\ wrote'[column] = n /\ \A c \in Columns : c # column => wrote'[c] = wrote[c]
    BY <1>1, <1>2, <1>6 DEF CardInv, Kinds, Columns
  <1>20. Kinds'
    BY <1>2, <1>3, <1>5, <1>9, <1>19 DEF CardInv, Kinds
  <1>21. RowTracks'
    <2>. SUFFICES ASSUME NEW c \in Columns, c \notin crossed', wrote'[c] # 0
                  PROVE  now[c] = IF c = "title" THEN wrote'[c] ELSE events[wrote'[c]][c]
      BY <1>2 DEF RowTracks
    <2>1. CASE c = column
      <3>1. row[c] = old[c]
        BY <1>2, <2>1
      <3>2. now[c] = new[c]
        BY <1>8, <3>1 DEF Columns
      <3>. QED BY <1>1, <1>3, <1>7, <1>19, <2>1, <3>2 DEF Whats
    <2>2. CASE c # column
      <3>1. new[c] = old[c]
        BY <1>1, <1>7, <2>2 DEF Columns
      <3>2. now[c] = row[c]
        BY <1>8, <3>1 DEF Columns
      <3>3. c \notin crossed /\ wrote'[c] = wrote[c]
        BY <1>2, <1>19, <2>2
      <3>. QED BY <1>5, <3>2, <3>3 DEF CardInv, RowTracks
    <2>. QED BY <2>1, <2>2
  <1>. QED BY <1>16, <1>17, <1>18, <1>20, <1>21 DEF CardInv

\* GitHub, the organisation's people and Slack's.
LEMMA OutsideKeeps ==
  ASSUME IInv, CardInv,
         \/ Happens
         \/ \E n \in DOMAIN events : Redeliver(n)
         \/ \E c \in Places : Repoint(c)
         \/ \E t \in DOMAIN cards : DeletedByHand(t)
  PROVE  CardInv'
  <1>1. UNCHANGED <<kind, row, digest, rowIds, job, clean, solo, calm, wrote, crossed>>
    BY DEF Happens, Redeliver, Repoint, DeletedByHand, rows, traces, outside
  <1>2. SameCards /\ \A i \in DOMAIN cards : cards'[i].shows = cards[i].shows
    <2>1. CASE UNCHANGED cards
      BY <2>1, SameUnchanged
    <2>2. ASSUME NEW t \in DOMAIN cards, DeletedByHand(t)
          PROVE  SameCards /\ \A i \in DOMAIN cards : cards'[i].shows = cards[i].shows
      <3>1. cards \in Seq(Messages) /\ cards' = [cards EXCEPT ![t].live = FALSE]
        BY <2>2 DEF DeletedByHand, CardInv, Shapes
      <3>. QED BY <3>1, CardTouched
    <2>. QED BY <2>1, <2>2 DEF Happens, Redeliver, Repoint
  <1>3. place' \in Places \cup {NoPlace}
    BY DEF Happens, Redeliver, Repoint, DeletedByHand, outside, CardInv, Shapes
  <1>4. ASSUME NEW e, events' = Append(events, e), queue' = queue \cup {Len(events) + 1},
               e.what \in {"saved", "deleted"} <=> kind = "issue"
        PROVE  /\ \A i \in DOMAIN events : i \in DOMAIN events' /\ events'[i] = events[i]
               /\ \A i \in DOMAIN events' : events'[i].what \in {"saved", "deleted"} <=> kind = "issue"
               /\ Len(events') \in Nat /\ Len(events) \in Nat /\ Len(events) <= Len(events')
               /\ queue' \subseteq DOMAIN events'
    <2>1. /\ events \in Seq(Events) /\ queue \subseteq DOMAIN events
          /\ \A i \in DOMAIN events : events[i].what \in {"saved", "deleted"} <=> kind = "issue"
      BY DEF IInv, Typed, CardInv, Shapes, Kinds
    <2>2. /\ DOMAIN events' = 1..(Len(events) + 1) /\ DOMAIN events = 1..Len(events)
          /\ Len(events) \in Nat /\ Len(events') = Len(events) + 1
          /\ \A i \in 1..Len(events) : events'[i] = events[i]
          /\ events'[Len(events) + 1] = e
      BY <1>4, <2>1
    <2>. QED BY <1>4, <2>1, <2>2
  <1>5. /\ \A i \in DOMAIN events : i \in DOMAIN events' /\ events'[i] = events[i]
        /\ \A i \in DOMAIN events' : events'[i].what \in {"saved", "deleted"} <=> kind = "issue"
        /\ Len(events') \in Nat /\ Len(events) \in Nat /\ Len(events) <= Len(events')
        /\ queue' \subseteq DOMAIN events'
    <2>1. CASE Happens
      <3>1. ASSUME NEW what, NEW draft, NEW reviewers, Send(what, draft, reviewers),
                   what \in {"saved", "deleted"} <=> kind = "issue"
            PROVE  \E e : /\ events' = Append(events, e) /\ queue' = queue \cup {Len(events) + 1}
                          /\ e.what \in {"saved", "deleted"} <=> kind = "issue"
        BY <3>1 DEF Send
      <3>2. CASE kind = "pr"
        <4>1. \E what, draft, reviewers : /\ Send(what, draft, reviewers)
                                          /\ what \notin {"saved", "deleted"}
          <5>1. PRChanges
            BY <2>1, <3>2 DEF Happens, IssueChanges
          <5>2. \E d, s : \/ Send("opened", d, s) \/ Send("title", d, s) \/ Send("draft", d, s)
                          \/ Send("asked", d, s) \/ Send("unasked", d, s)
            BY <5>1, Zenon DEF PRChanges
          <5>. QED BY <5>2
        <4>. QED BY <3>1, <3>2, <4>1, <1>4
      <3>3. CASE kind = "issue"
        <4>1. \E what, draft, reviewers : /\ Send(what, draft, reviewers)
                                          /\ what \in {"saved", "deleted"}
          BY <2>1, <3>3 DEF Happens, PRChanges, IssueChanges
        <4>. QED BY <3>1, <3>3, <4>1, <1>4
      <3>. QED BY <3>2, <3>3 DEF CardInv, Shapes
    <2>2. CASE UNCHANGED events /\ queue' \subseteq DOMAIN events
      BY <2>2 DEF IInv, Typed, CardInv, Kinds
    <2>. QED BY <2>1, <2>2 DEF Redeliver, Repoint, DeletedByHand, outside, CardInv, Shapes
  <1>6. OnlyAdds
    BY <1>1, <1>2, <1>5 DEF OnlyAdds, SameCards
  <1>7. JobsOK'
    <2>1. ASSUME NEW g \in Workers PROVE JobOK(job[g])'
      <3>1. PICK k : k = job[g]
        OBVIOUS
      <3>2. JobOK(k)'
        BY <1>6, <3>1, JobStays DEF CardInv, JobsOK
      <3>. QED BY <1>1, <3>1, <3>2 DEF JobOK, Held
    <2>. QED BY <2>1 DEF JobsOK
  <1>8. AloneOK'
    <2>1. ASSUME NEW g \in Workers, Working(g)', solo' = {g}
          PROVE  Fresh(job[g])' /\ \A f \in Workers : Working(f)' => f = g
      <3>1. PICK k : k = job[g]
        OBVIOUS
      <3>2. /\ Working(g) /\ Fresh(k) /\ \A f \in Workers : Working(f) => f = g
            /\ k.on \in DOMAIN events /\ (k.found # 0 => k.found \in DOMAIN cards)
            /\ Head(k.todo) = "record" => k.found # 0
        BY <1>1, <2>1, <3>1 DEF CardInv, AloneOK, Working, JobsOK, JobOK, Held
      <3>3. Fresh(k)'
        BY <1>1, <1>2, <1>5, <3>2 DEF Fresh
      <3>. QED BY <1>1, <3>1, <3>2, <3>3 DEF Fresh, Working
    <2>2. clean' => \A g \in Workers : Working(g)' => solo' = {g}
      BY <1>1 DEF CardInv, AloneOK, Working
    <2>. QED BY <2>1, <2>2 DEF AloneOK
  <1>9. CleanOK'
    BY <1>1, <1>2 DEF CardInv, CleanOK, SameCards, Recording, Working
  <1>10. CalmOK'
    <2>. SUFFICES ASSUME calm' # NoPlace PROVE Resting' /\ calm' \in Places /\ RightAt(calm)'
      BY DEF CalmOK
    <2>1. Resting /\ calm \in Places /\ RightAt(calm)
      BY <1>1 DEF CardInv, CalmOK
    <2>2. digest[calm] # 0 => digest[calm] \in DOMAIN cards
      BY <2>1 DEF CardInv, Kept
    <2>3. RightAt(calm)'
      BY <1>1, <1>2, <2>1, <2>2 DEF RightAt, SameCards, HoldsBack
    <2>. QED BY <1>1, <2>1, <2>3 DEF Resting, Working
  <1>11. Shapes' /\ Kept'
    BY <1>1, <1>2, <1>3, <1>5 DEF CardInv, Shapes, Kept, SameCards
  <1>12. Kinds'
    BY <1>1, <1>5 DEF CardInv, Kinds
  <1>13. RowTracks'
    BY <1>1, <1>6, ColumnsStay
  <1>. QED BY <1>7, <1>8, <1>9, <1>10, <1>11, <1>12, <1>13 DEF CardInv

-----------------------------------------------------------------------------
(* The cards' theorems *)

LEMMA InitKeeps ==
  ASSUME CardsInit
  PROVE  CardInv
  <1>1. NoRow \in Rows /\ NoRow.id = 0
    BY DEF NoRow, Rows
  <1>2. /\ kind \in {"pr", "issue"} /\ place \in Places \cup {NoPlace}
        /\ events = <<>> /\ queue = {} /\ row = NoRow /\ digest = [c \in Places |-> 0]
        /\ cards = <<>> /\ rowIds = 0 /\ calm = NoPlace
        /\ wrote = [c \in Columns |-> 0]
    BY DEF CardsInit
  <1>3. \A h \in Workers : job[h] = Idle
    BY DEF CardsInit
  <1>4. Shapes /\ Kept /\ Kinds
    BY <1>1, <1>2 DEF Shapes, Kept, Kinds, Columns
  <1>5. JobsOK
    BY <1>3, IdleOK DEF JobsOK
  <1>6. AloneOK
    BY <1>3, IdleOK DEF AloneOK, Working
  <1>7. CleanOK /\ CalmOK
    BY <1>2 DEF CleanOK, CalmOK
  <1>8. RowTracks
    BY <1>1, <1>2 DEF RowTracks
  <1>. QED BY <1>4, <1>5, <1>6, <1>7, <1>8 DEF CardInv

LEMMA StepKeeps ==
  ASSUME IInv, CardInv, CardsNext
  PROVE  CardInv'
  <1>1. CASE \/ Happens
             \/ \E n \in DOMAIN events : Redeliver(n)
             \/ \E c \in Places : Repoint(c)
             \/ \E t \in DOMAIN cards : DeletedByHand(t)
    BY <1>1, OutsideKeeps
  <1>2. ASSUME NEW h \in Workers, Handle(h)
        PROVE  CardInv'
    <2>1. CASE \E n \in queue : Receive(h, n)
      BY <2>1, ReceiveKeeps
    <2>2. CASE GetOrg(h) \/ Load(h) \/ Find(h)
      BY <2>2, GetOrgKeeps, LoadKeeps, FindKeeps
    <2>3. CASE InsertRaises(h) \/ SlackFails(h) \/ Die(h)
      BY <2>3, FailureKeeps
    <2>4. CASE Insert(h) \/ Save(h) \/ Write(h) \/ Drop(h)
      BY <2>4, InsertKeeps, SaveKeeps, WriteKeeps, DropKeeps
    <2>5. CASE Edit(h) \/ HoldBack(h) \/ Post(h) \/ Record(h) \/ TakeDown(h)
      BY <2>5, ShowKeeps, PostKeeps, RecordKeeps, TakeDownKeeps
    <2>. QED BY <1>2, <2>1, <2>2, <2>3, <2>4, <2>5 DEF Handle
  <1>. QED BY <1>1, <1>2 DEF CardsNext

LEMMA StutterKeeps ==
  ASSUME IInv, CardInv, UNCHANGED cardVars
  PROVE  CardInv'
  <1>1. UNCHANGED <<kind, events, queue, place, row, digest, rowIds, cards, job, clean, solo,
                    calm, wrote, crossed>>
    BY DEF cardVars, outside, rows, traces
  <1>2. Shapes' /\ Kept' /\ Kinds'
    BY <1>1 DEF CardInv, Shapes, Kept, Kinds
  <1>3. JobsOK'
    BY <1>1 DEF CardInv, JobsOK, JobOK, Held
  <1>4. AloneOK' /\ CleanOK'
    BY <1>1 DEF CardInv, AloneOK, CleanOK, Working, Recording, Fresh
  <1>5. CalmOK' /\ RowTracks'
    BY <1>1 DEF CardInv, CalmOK, RowTracks, Resting, Working, RightAt, HoldsBack
  <1>. QED BY <1>2, <1>3, <1>4, <1>5 DEF CardInv

LEMMA BothInvariant == CardsSpec => [](IInv /\ CardInv)
  <1>1. CardsInit => IInv /\ CardInv
    BY InitInvariant, InitKeeps
  <1>2. IInv /\ CardInv /\ [CardsNext]_cardVars => IInv' /\ CardInv'
    BY StepInvariant, StutterInvariant, StepKeeps, StutterKeeps
  <1>. QED BY <1>1, <1>2, PTL DEF CardsSpec

\* Rows, messages and handlers are what they are taken to be, and a channel's
\* recorded card is a message of that channel, two channels never sharing one
\* (pr_digest_message.py:14).
THEOREM CardsTyped == CardsSpec => []CardsTypeOK
  <1>1. ASSUME IInv, CardInv PROVE CardsTypeOK
    <2>1. ASSUME NEW h \in Workers
          PROVE  /\ Working(h) => ToSet(job[h].todo) \subseteq ToSet(Flow[events[job[h].on].what])
                 /\ job[h].snap \in Rows /\ job[h].chan \in Places \cup {NoPlace}
      BY <1>1 DEF CardInv, JobsOK, JobOK, Planned, ToSet, Working
    <2>2. \A t \in DOMAIN cards : cards[t].chan \in Places /\ cards[t].live \in BOOLEAN
      <3>1. \A t \in DOMAIN cards : cards[t] \in Messages
        BY <1>1 DEF CardInv, Shapes
      <3>. QED BY <3>1 DEF Messages
    <2>3. \A c \in Places : digest[c] # 0 => cards[digest[c]].chan = c
      BY <1>1 DEF CardInv, Kept
    <2>. QED BY <1>1, <2>1, <2>2, <2>3 DEF CardsTypeOK, CardInv, Shapes, IInv, Typed
  <1>. QED BY <1>1, BothInvariant, PTL

\* Each column holds what the last event that wrote it said (queries.py:787-846),
\* however many handlers interleave, unless two changes of it crossed.
THEOREM ColumnsTrack == CardsSpec => []RowTracks
  <1>1. CardInv => RowTracks
    BY DEF CardInv
  <1>. QED BY <1>1, BothInvariant, PTL

\* A channel holds at most one card of a subject (README.md:17), however often
\* it was repointed and whatever was delivered again, as long as handlers
\* neither overlapped nor failed and no card outlived its row.
THEOREM NeverTwoCards == CardsSpec => []OneCard
  <1>1. ASSUME IInv, CardInv PROVE OneCard
    <2>. SUFFICES ASSUME clean, NEW c \in Places
                  PROVE  Cardinality({t \in DOMAIN cards : cards[t].live /\ cards[t].chan = c}) <= 1
      BY DEF OneCard
    <2>. DEFINE S == {t \in DOMAIN cards : cards[t].live /\ cards[t].chan = c}
    <2>1. \A s, t \in S : s = t
      <3>. SUFFICES ASSUME NEW s \in S, NEW t \in S PROVE s = t
        OBVIOUS
      <3>1. /\ digest[c] = s \/ \E h \in Workers : Recording(h, s)
            /\ digest[c] = t \/ \E h \in Workers : Recording(h, t)
        BY <1>1 DEF CardInv, CleanOK
      <3>2. s # 0 /\ t # 0
        BY <1>1 DEF CardInv, Shapes
      <3>3. ASSUME NEW h \in Workers, NEW i \in S, Recording(h, i)
            PROVE  digest[c] = 0 /\ \A g \in Workers : \A u : Recording(g, u) => u = i
        <4>1. /\ Working(h) /\ solo = {h} /\ job[h].found = i /\ Head(job[h].todo) = "record"
              /\ Fresh(job[h]) /\ \A g \in Workers : Working(g) => g = h
          BY <1>1, <3>3 DEF CardInv, AloneOK, Recording
        <4>2. i # 0 => cards[i].chan = job[h].chan
          BY <1>1, <4>1 DEF CardInv, JobsOK, JobOK, Held, Working
        <4>3. i # 0
          BY <1>1 DEF CardInv, Shapes
        <4>. QED BY <4>1, <4>2, <4>3 DEF Fresh, Recording
      <3>. QED BY <3>1, <3>2, <3>3
    <2>2. CASE S = {}
      BY <2>2, FS_EmptySet
    <2>3. CASE S # {}
      <3>1. PICK s : S = {s}
        BY <2>1, <2>3
      <3>. QED BY <3>1, FS_Singleton
    <2>. QED BY <2>2, <2>3
  <1>. QED BY <1>1, BothInvariant, PTL

\* Whatever happened before, a handler that runs alone to its end leaves the
\* channel right: its recorded card shows the row, or there is none because the
\* pull request is in draft or the issue is deleted (pr_digest_service.py:155-163,
\* issue_service.py:159).
THEOREM RunAloneHeals == CardsSpec => []Healed
  <1>1. CardInv => Healed
    BY DEF CardInv, CalmOK, RightAt, Healed
  <1>. QED BY <1>1, BothInvariant, PTL

-----------------------------------------------------------------------------
(* CI NOTICES *)

(* The inductive invariant *)

Steps == {"idle", "fetch", "edit", "add", "save", "decide", "post"}
Work == [at : Steps, commit : {0} \cup Commits, id : Nat, runs : SUBSET Outcomes,
         made : Nat, recap : Nat]
Bookmarks == [live : BOOLEAN, shows : {AggregateCheckState(m) : m \in SUBSET Outcomes}]
Recaps == [state : {"passed", "failed"}, commit : Commits, posted : BOOLEAN]

RefreshAt(r, steps) == work[r].at \in steps

\* What a refresh carries exists; no two are to post the same recap.
CITyped ==
  /\ CITypeOK
  /\ changes \in Nat /\ faults \in Nat /\ fresh \subseteq Commits
  /\ bookmarks \in Seq(Bookmarks) /\ recaps \in Seq(Recaps)
  /\ work \in [Refreshers -> Work]
  /\ \A r \in Refreshers :
       /\ ~RefreshAt(r, {"idle"}) => work[r].commit \in Commits
       /\ RefreshAt(r, {"save"}) => work[r].made \in DOMAIN bookmarks
       /\ RefreshAt(r, {"post"}) => work[r].recap \in DOMAIN recaps
  /\ \A q, r \in Refreshers :
       RefreshAt(q, {"post"}) /\ RefreshAt(r, {"post"}) /\ work[q].recap = work[r].recap => q = r

\* last_ci_state is the verdict decided last.
LastDecided ==
  /\ recaps = <<>> => lastState = None
  /\ recaps # <<>> => lastState = recaps[Len(recaps)].state

\* A stacked pull request never comes near the bookmarks.
StackedBare ==
  stacked => bookmarks = <<>> /\ \A r \in Refreshers : ~RefreshAt(r, {"edit", "add", "save"})

\* As long as refreshes ran one by one, the live bookmark is the one in the row
\* or the one about to be stored there, and every recap is posted or about to be.
Serial ==
  serial =>
    /\ \A q, r \in Refreshers : ~RefreshAt(q, {"idle"}) /\ ~RefreshAt(r, {"idle"}) => q = r
    /\ \A b \in DOMAIN bookmarks : bookmarks[b].live =>
         /\ \A r \in Refreshers : ~RefreshAt(r, {"add"}) /\ (RefreshAt(r, {"save"}) => b = work[r].made)
         /\ b = bookmarkId \/ \E r \in Refreshers : RefreshAt(r, {"save"})
    /\ \A r \in Refreshers : RefreshAt(r, {"fetch", "edit"}) => work[r].id = bookmarkId
    /\ \A i \in DOMAIN recaps :
         recaps[i].posted \/ \E r \in Refreshers : RefreshAt(r, {"post"}) /\ work[r].recap = i

\* Bookmark b shows the checks of commit c.
Shows(b, c) ==
  /\ b \in DOMAIN bookmarks /\ bookmarks[b].live
  /\ bookmarks[b].shows = AggregateCheckState(checks[c])

\* What is right about commit c at each step of a refresh that runs alone.
OnItsWay(r, c) ==
  /\ work[r].commit = c
  /\ \A q \in Refreshers \ {r} : RefreshAt(q, {"idle"})
  /\ RefreshAt(r, {"fetch", "edit"}) => work[r].id = bookmarkId
  /\ ~RefreshAt(r, {"idle", "fetch"}) => work[r].runs = checks[c]
  /\ RefreshAt(r, {"save"}) => Shows(work[r].made, c)
  /\ RefreshAt(r, {"decide", "post"}) => stacked \/ Shows(bookmarkId, c)
  /\ RefreshAt(r, {"post"}) => lastState = CompletionState(checks[c])

Right(c) ==
  /\ stacked \/ Shows(bookmarkId, c)
  /\ CompletionState(checks[c]) # None => lastState = CompletionState(checks[c])

Alone ==
  \A c \in fresh : IF Quiet THEN Right(c)
                   ELSE \E r \in Refreshers : ~RefreshAt(r, {"idle"}) /\ OnItsWay(r, c)

CIInv == CITyped /\ LastDecided /\ NoDoubleRecap /\ StackedBare /\ Serial /\ Alone

-----------------------------------------------------------------------------
(* Lemmas *)

\* A verdict is one of two.
LEMMA Verdicts ==
  ASSUME NEW runs, CompletionState(runs) # None
  PROVE  CompletionState(runs) \in {"passed", "failed"}
BY DEF CompletionState

\* One field of one record of a sequence changes.
LEMMA BookmarkRemoved ==
  ASSUME NEW s \in Seq(Bookmarks), NEW i \in DOMAIN s, NEW t, t = [s EXCEPT ![i].live = FALSE]
  PROVE  t \in Seq(Bookmarks) /\ Len(t) = Len(s) /\ DOMAIN t = DOMAIN s
  <1>1. s \in [1..Len(s) -> Bookmarks] /\ i \in 1..Len(s) /\ Len(s) \in Nat
    OBVIOUS
  <1>2. t \in [1..Len(s) -> Bookmarks]
    BY <1>1 DEF Bookmarks
  <1>. QED BY <1>1, <1>2

LEMMA BookmarkEdited ==
  ASSUME NEW s \in Seq(Bookmarks), NEW i \in DOMAIN s, NEW m \in SUBSET Outcomes, NEW t,
         t = [s EXCEPT ![i].shows = AggregateCheckState(m)]
  PROVE  /\ t \in Seq(Bookmarks) /\ Len(t) = Len(s) /\ DOMAIN t = DOMAIN s
         /\ \A j \in DOMAIN s : t[j].live = s[j].live
         /\ t[i].shows = AggregateCheckState(m)
  <1>1. s \in [1..Len(s) -> Bookmarks] /\ i \in 1..Len(s) /\ Len(s) \in Nat
    OBVIOUS
  <1>2. t \in [1..Len(s) -> Bookmarks]
    BY <1>1 DEF Bookmarks
  <1>3. /\ \A j \in 1..Len(s) : t[j].live = s[j].live
        /\ t[i].shows = AggregateCheckState(m)
    BY <1>1 DEF Bookmarks
  <1>. QED BY <1>1, <1>2, <1>3

LEMMA RecapKept ==
  ASSUME NEW s \in Seq(Recaps), NEW i \in DOMAIN s, NEW t, t = [s EXCEPT ![i].posted = TRUE]
  PROVE  t \in Seq(Recaps) /\ Len(t) = Len(s) /\ DOMAIN t = DOMAIN s
  <1>1. s \in [1..Len(s) -> Recaps] /\ i \in 1..Len(s) /\ Len(s) \in Nat
    OBVIOUS
  <1>2. t \in [1..Len(s) -> Recaps]
    BY <1>1 DEF Recaps
  <1>. QED BY <1>1, <1>2

LEMMA RecapPosted ==
  ASSUME NEW s \in Seq(Recaps), NEW i \in DOMAIN s, NEW t, t = [s EXCEPT ![i].posted = TRUE]
  PROVE  /\ \A j \in DOMAIN s : t[j].state = s[j].state
         /\ \A j \in DOMAIN s : j # i => t[j].posted = s[j].posted
         /\ t[i].posted
  <1>1. s \in [1..Len(s) -> Recaps] /\ i \in 1..Len(s) /\ DOMAIN s = 1..Len(s)
    OBVIOUS
  <1>. QED BY <1>1 DEF Recaps

\* What a step leaves a refresh with.
LEMMA Moved ==
  ASSUME work \in [Refreshers -> Work], NEW r \in Refreshers, NEW step \in Steps,
         Goto(r, step)
  PROVE  /\ work' \in [Refreshers -> Work]
         /\ \A q \in Refreshers \ {r} : work'[q] = work[q]
         /\ work'[r].at = step /\ work'[r].commit = work[r].commit
         /\ work'[r].id = work[r].id /\ work'[r].runs = work[r].runs
         /\ work'[r].made = work[r].made /\ work'[r].recap = work[r].recap
BY DEF Goto, Turn, Work

LEMMA Rested ==
  ASSUME work \in [Refreshers -> Work], NEW r \in Refreshers, Turn(r, AtRest)
  PROVE  /\ work' \in [Refreshers -> Work]
         /\ \A q \in Refreshers \ {r} : work'[q] = work[q]
         /\ work'[r].at = "idle" /\ work'[r].id = 0
BY DEF Turn, AtRest, Work, Steps

LEMMA Received ==
  ASSUME work \in [Refreshers -> Work], NEW r \in Refreshers, NEW c \in Commits, NEW b \in Nat,
         Turn(r, [AtRest EXCEPT !.at = "fetch", !.commit = c, !.id = b])
  PROVE  /\ work' \in [Refreshers -> Work]
         /\ \A q \in Refreshers \ {r} : work'[q] = work[q]
         /\ work'[r].at = "fetch" /\ work'[r].commit = c /\ work'[r].id = b
BY DEF Turn, AtRest, Work, Steps

LEMMA Fetched ==
  ASSUME work \in [Refreshers -> Work], NEW r \in Refreshers, NEW step \in Steps,
         NEW m \in SUBSET Outcomes, Turn(r, [work[r] EXCEPT !.runs = m, !.at = step])
  PROVE  /\ work' \in [Refreshers -> Work]
         /\ \A q \in Refreshers \ {r} : work'[q] = work[q]
         /\ work'[r].at = step /\ work'[r].commit = work[r].commit
         /\ work'[r].id = work[r].id /\ work'[r].runs = m
BY DEF Turn, Work

LEMMA Made ==
  ASSUME work \in [Refreshers -> Work], NEW r \in Refreshers, NEW b \in Nat,
         Turn(r, [work[r] EXCEPT !.made = b, !.at = "save"])
  PROVE  /\ work' \in [Refreshers -> Work]
         /\ \A q \in Refreshers \ {r} : work'[q] = work[q]
         /\ work'[r].at = "save" /\ work'[r].commit = work[r].commit
         /\ work'[r].id = work[r].id /\ work'[r].runs = work[r].runs /\ work'[r].made = b
BY DEF Turn, Work, Steps

LEMMA Decided ==
  ASSUME work \in [Refreshers -> Work], NEW r \in Refreshers, NEW i \in Nat,
         Turn(r, [work[r] EXCEPT !.recap = i, !.at = "post"])
  PROVE  /\ work' \in [Refreshers -> Work]
         /\ \A q \in Refreshers \ {r} : work'[q] = work[q]
         /\ work'[r].at = "post" /\ work'[r].commit = work[r].commit
         /\ work'[r].id = work[r].id /\ work'[r].runs = work[r].runs /\ work'[r].recap = i
BY DEF Turn, Work, Steps

\* A refresh under way is the one a fresh commit is about.
LEMMA OnlyOne ==
  ASSUME Alone, NEW r \in Refreshers, ~RefreshAt(r, {"idle"}), NEW c \in fresh
  PROVE  OnItsWay(r, c)
BY DEF Alone, OnItsWay, RefreshAt, Quiet

LEMMA CIInitInvariant ==
  ASSUME CIInit
  PROVE  CIInv
  <1>. USE CINoticesAssumption DEF CIInit, AtRest, RefreshAt
  <1>1. 1 \in Commits
    BY DEF Commits
  <1>2. CITyped
    BY <1>1 DEF CITyped, CITypeOK, Steps, Work, Outcomes
  <1>3. LastDecided /\ NoDoubleRecap /\ StackedBare /\ Serial /\ Alone
    BY DEF LastDecided, NoDoubleRecap, StackedBare, Serial, Alone
  <1>. QED BY <1>2, <1>3 DEF CIInv

\* What GitHub does reaches no refresh before it begins.
LEMMA PushStep ==
  ASSUME CIInv, Push
  PROVE  CIInv'
  <1>. USE CINoticesAssumption DEF CIInv, Push
  <1>1. CITyped'
    BY DEF CITyped, CITypeOK, RefreshAt, Commits
  <1>2. (LastDecided /\ NoDoubleRecap /\ StackedBare /\ Serial)'
    BY DEF LastDecided, NoDoubleRecap, StackedBare, Serial, RefreshAt
  <1>3. Alone'
    BY DEF Alone, Quiet, Right, OnItsWay, Shows, RefreshAt
  <1>. QED BY <1>1, <1>2, <1>3

LEMMA ChecksChangeStep ==
  ASSUME CIInv, NEW c \in Commits, NEW runs \in Mixes, ChecksChange(c, runs)
  PROVE  CIInv'
  <1>. USE CINoticesAssumption DEF CIInv, ChecksChange
  <1>1. CITyped'
    BY DEF CITyped, CITypeOK, RefreshAt, Outcomes
  <1>2. (LastDecided /\ NoDoubleRecap /\ StackedBare /\ Serial /\ Alone)'
    BY DEF LastDecided, NoDoubleRecap, StackedBare, Serial, RefreshAt, Alone
  <1>. QED BY <1>1, <1>2

\* What every failure leaves behind: it may have touched the bookmarks and the
\* refresh it hit, but nothing that is decided.
LEMMA RemovedByHandStep ==
  ASSUME CIInv, NEW b \in DOMAIN bookmarks, RemovedByHand(b)
  PROVE  CIInv'
  <1>1. /\ bookmarks' \in Seq(Bookmarks) /\ Len(bookmarks') = Len(bookmarks)
        /\ DOMAIN bookmarks' = DOMAIN bookmarks
    BY BookmarkRemoved DEF RemovedByHand, CIInv, CITyped
  <1>2. /\ faults' = faults + 1 /\ serial' = FALSE /\ fresh' = {}
        /\ UNCHANGED <<stacked, head, checks, changes, hooks, bookmarkId, lastState,
                       recaps, work>>
    BY DEF RemovedByHand, Fault, github
  <1>3. CITyped'
    <2>1. CITypeOK'
      BY <1>1, <1>2 DEF CIInv, CITyped, CITypeOK
    <2>2. faults' \in Nat /\ fresh' \subseteq Commits
      BY <1>2 DEF CIInv, CITyped
    <2>. QED BY <1>1, <1>2, <2>1, <2>2 DEF CIInv, CITyped, RefreshAt
  <1>4. (LastDecided /\ NoDoubleRecap)'
    BY <1>2 DEF CIInv, LastDecided, NoDoubleRecap
  <1>5. ~stacked
    BY DEF CIInv, StackedBare
  <1>6. (StackedBare /\ Serial /\ Alone)'
    BY <1>2, <1>5 DEF StackedBare, Serial, Alone
  <1>. QED BY <1>3, <1>4, <1>6 DEF CIInv

LEMMA CIReceiveStep ==
  ASSUME CIInv, NEW r \in Refreshers, NEW w \in hooks, BeginRefresh(r, w)
  PROVE  CIInv'
  <1>1. w.commit \in Commits /\ bookmarkId \in Nat /\ work \in [Refreshers -> Work]
    BY DEF CIInv, CITyped, CITypeOK
  <1>2. /\ work' \in [Refreshers -> Work]
        /\ \A q \in Refreshers \ {r} : work'[q] = work[q]
        /\ work'[r].at = "fetch" /\ work'[r].commit = w.commit /\ work'[r].id = bookmarkId
    BY <1>1, Received DEF BeginRefresh
  <1>3. /\ work[r].at = "idle" /\ hooks' \subseteq hooks
        /\ serial' = (serial /\ Quiet) /\ fresh' = (IF Quiet THEN {w.commit} ELSE {})
        /\ UNCHANGED <<stacked, head, checks, changes, bookmarkId, lastState, bookmarks,
                       recaps, faults>>
    BY DEF BeginRefresh
  <1>4. CITyped'
    <2>1. CITypeOK'
      BY <1>1, <1>2, <1>3 DEF CIInv, CITyped, CITypeOK
    <2>2. fresh' \subseteq Commits
      BY <1>1, <1>3
    <2>. QED BY <1>1, <1>2, <1>3, <2>1, <2>2 DEF CIInv, CITyped, RefreshAt
  <1>5. (LastDecided /\ NoDoubleRecap)'
    BY <1>3 DEF CIInv, LastDecided, NoDoubleRecap
  <1>6. StackedBare'
    BY <1>2, <1>3 DEF CIInv, StackedBare, RefreshAt
  <1>7. Serial'
    BY <1>2, <1>3 DEF CIInv, Serial, RefreshAt, Quiet
  <1>8. Alone'
    BY <1>2, <1>3 DEF Alone, OnItsWay, RefreshAt, Quiet
  <1>. QED BY <1>4, <1>5, <1>6, <1>7, <1>8 DEF CIInv

LEMMA FetchStep ==
  ASSUME CIInv, NEW r \in Refreshers, Fetch(r)
  PROVE  CIInv'
  <1>. DEFINE step == IF stacked THEN "decide" ELSE "edit"
  <1>1. /\ work[r].at = "fetch" /\ work[r].commit \in Commits
        /\ work \in [Refreshers -> Work] /\ checks[work[r].commit] \in SUBSET Outcomes
    BY DEF Fetch, CIInv, CITyped, CITypeOK, RefreshAt
  <1>2. /\ work' \in [Refreshers -> Work]
        /\ \A q \in Refreshers \ {r} : work'[q] = work[q]
        /\ work'[r].at = step /\ work'[r].commit = work[r].commit
        /\ work'[r].id = work[r].id /\ work'[r].runs = checks[work[r].commit]
    <2>1. step \in Steps
      BY DEF Steps
    <2>2. Turn(r, [work[r] EXCEPT !.runs = checks[work[r].commit], !.at = step])
      BY DEF Fetch
    <2>. HIDE DEF step
    <2>. QED BY <1>1, <2>1, <2>2, Fetched
  <1>3. UNCHANGED <<stacked, head, checks, changes, hooks, bookmarkId, lastState, bookmarks,
                    recaps, faults, serial, fresh>>
    BY DEF Fetch, github
  <1>4. CITyped'
    <2>1. CITypeOK'
      BY <1>1, <1>2, <1>3 DEF CIInv, CITyped, CITypeOK
    <2>. QED BY <1>1, <1>2, <1>3, <2>1 DEF CIInv, CITyped, RefreshAt
  <1>5. (LastDecided /\ NoDoubleRecap)'
    BY <1>3 DEF CIInv, LastDecided, NoDoubleRecap
  <1>6. StackedBare'
    BY <1>2, <1>3 DEF CIInv, StackedBare, RefreshAt
  <1>7. Serial'
    BY <1>1, <1>2, <1>3 DEF CIInv, Serial, RefreshAt
  <1>8. Alone'
    BY <1>1, <1>2, <1>3 DEF CIInv, Alone, OnItsWay, RefreshAt, Quiet, Shows
  <1>. QED BY <1>4, <1>5, <1>6, <1>7, <1>8 DEF CIInv

LEMMA EditStep ==
  ASSUME CIInv, NEW r \in Refreshers, EditBookmark(r)
  PROVE  CIInv'
  <1>. DEFINE b == work[r].id
  <1>. DEFINE step == IF Lost(b) THEN "add" ELSE "decide"
  <1>1. /\ work[r].at = "edit" /\ work \in [Refreshers -> Work] /\ ~stacked
        /\ b \in {0} \cup DOMAIN bookmarks /\ work[r].runs \in SUBSET Outcomes
        /\ bookmarks \in Seq(Bookmarks)
    BY DEF EditBookmark, CIInv, CITyped, CITypeOK, RefreshAt, Work, StackedBare
  <1>2. /\ work' \in [Refreshers -> Work]
        /\ \A q \in Refreshers \ {r} : work'[q] = work[q]
        /\ work'[r].at = step /\ work'[r].commit = work[r].commit
        /\ work'[r].id = work[r].id /\ work'[r].runs = work[r].runs
    <2>1. step \in Steps /\ Goto(r, step)
      BY DEF Steps, EditBookmark
    <2>. HIDE DEF step
    <2>. QED BY <1>1, <2>1, Moved
  <1>3. UNCHANGED <<stacked, head, checks, changes, hooks, bookmarkId, lastState, recaps,
                    faults, serial, fresh>>
    BY DEF EditBookmark, github
  <1>9. /\ bookmarks' \in Seq(Bookmarks) /\ DOMAIN bookmarks' = DOMAIN bookmarks
        /\ \A i \in DOMAIN bookmarks : bookmarks'[i].live = bookmarks[i].live
        /\ ~Lost(b) => /\ b \in DOMAIN bookmarks /\ bookmarks[b].live
                       /\ bookmarks'[b].shows = AggregateCheckState(work[r].runs)
    <2>1. CASE Lost(b)
      BY <1>1, <2>1 DEF EditBookmark
    <2>2. CASE ~Lost(b)
      <3>1. /\ b \in DOMAIN bookmarks /\ bookmarks[b].live
            /\ bookmarks' = [bookmarks EXCEPT ![b].shows = AggregateCheckState(work[r].runs)]
        BY <1>1, <2>2 DEF EditBookmark, Lost
      <3>2. /\ bookmarks' \in Seq(Bookmarks) /\ Len(bookmarks') = Len(bookmarks)
            /\ DOMAIN bookmarks' = DOMAIN bookmarks
            /\ \A i \in DOMAIN bookmarks : bookmarks'[i].live = bookmarks[i].live
            /\ bookmarks'[b].shows = AggregateCheckState(work[r].runs)
        <4>. DEFINE m == work[r].runs
        <4>1. bookmarks \in Seq(Bookmarks) /\ m \in SUBSET Outcomes
          BY <1>1
        <4>2. bookmarks' = [bookmarks EXCEPT ![b].shows = AggregateCheckState(m)]
          BY <3>1
        <4>. HIDE DEF b, m
        <4>3. /\ bookmarks' \in Seq(Bookmarks) /\ Len(bookmarks') = Len(bookmarks)
              /\ DOMAIN bookmarks' = DOMAIN bookmarks
              /\ \A i \in DOMAIN bookmarks : bookmarks'[i].live = bookmarks[i].live
              /\ bookmarks'[b].shows = AggregateCheckState(m)
          BY <3>1, <4>1, <4>2, BookmarkEdited
        <4>. QED BY <4>3 DEF m
      <3>. QED BY <3>1, <3>2
    <2>. QED BY <2>1, <2>2
  <1>4. CITyped'
    <2>1. CITypeOK'
      BY <1>1, <1>2, <1>3, <1>9 DEF CIInv, CITyped, CITypeOK
    <2>. QED BY <1>1, <1>2, <1>3, <1>9, <2>1 DEF CIInv, CITyped, RefreshAt
  <1>5. (LastDecided /\ NoDoubleRecap)'
    BY <1>3 DEF CIInv, LastDecided, NoDoubleRecap
  <1>6. StackedBare'
    BY <1>1, <1>2, <1>3, <1>9 DEF CIInv, StackedBare, RefreshAt
  <1>7. Serial'
    <2>1. ASSUME serial, NEW d \in DOMAIN bookmarks, bookmarks[d].live
          PROVE  /\ \A q \in Refreshers :
                       ~RefreshAt(q, {"add"})' /\ (RefreshAt(q, {"save"})' => d = work'[q].made)
                 /\ d = bookmarkId \/ \E q \in Refreshers : RefreshAt(q, {"save"})'
      BY <1>1, <1>2, <2>1 DEF CIInv, Serial, RefreshAt, Lost
    <2>2. ASSUME serial
          PROVE  /\ \A p, q \in Refreshers : ~RefreshAt(p, {"idle"})' /\ ~RefreshAt(q, {"idle"})' => p = q
                 /\ \A q \in Refreshers : RefreshAt(q, {"fetch", "edit"})' => work'[q].id = bookmarkId
                 /\ \A i \in DOMAIN recaps : \/ recaps[i].posted
                      \/ \E q \in Refreshers : RefreshAt(q, {"post"})' /\ work'[q].recap = i
      BY <1>1, <1>2, <2>2 DEF CIInv, Serial, RefreshAt
    <2>. QED BY <1>3, <1>9, <2>1, <2>2 DEF Serial
  <1>8. Alone'
    BY <1>1, <1>2, <1>3, <1>9 DEF CIInv, Alone, OnItsWay, RefreshAt, Quiet, Shows, Right
  <1>. QED BY <1>4, <1>5, <1>6, <1>7, <1>8 DEF CIInv


LEMMA AddStep ==
  ASSUME CIInv, NEW r \in Refreshers, AddBookmark(r)
  PROVE  CIInv'
  <1>. DEFINE new == [live |-> TRUE, shows |-> AggregateCheckState(work[r].runs)]
  <1>1. /\ work[r].at = "add" /\ work \in [Refreshers -> Work] /\ ~stacked
        /\ work[r].runs \in SUBSET Outcomes /\ bookmarks \in Seq(Bookmarks)
    BY DEF AddBookmark, CIInv, CITyped, CITypeOK, RefreshAt, Work, StackedBare
  <1>9. /\ bookmarks' = Append(bookmarks, new) /\ new \in Bookmarks
        /\ bookmarks' \in Seq(Bookmarks) /\ Len(bookmarks') = Len(bookmarks) + 1
        /\ DOMAIN bookmarks' = DOMAIN bookmarks \cup {Len(bookmarks')}
        /\ Len(bookmarks') \notin DOMAIN bookmarks
        /\ \A i \in DOMAIN bookmarks : bookmarks'[i] = bookmarks[i]
        /\ bookmarks'[Len(bookmarks')] = new
    BY <1>1 DEF AddBookmark, Bookmarks
  <1>2. /\ work' \in [Refreshers -> Work]
        /\ \A q \in Refreshers \ {r} : work'[q] = work[q]
        /\ work'[r].at = "save" /\ work'[r].commit = work[r].commit
        /\ work'[r].id = work[r].id /\ work'[r].runs = work[r].runs
        /\ work'[r].made = Len(bookmarks')
    <2>1. Len(bookmarks') \in Nat
      BY <1>9
    <2>. QED BY <1>1, <2>1, Made DEF AddBookmark
  <1>3. UNCHANGED <<stacked, head, checks, changes, hooks, bookmarkId, lastState, recaps,
                    faults, serial, fresh>>
    BY DEF AddBookmark, github
  <1>4. CITyped'
    <2>1. CITypeOK'
      BY <1>1, <1>2, <1>3, <1>9 DEF CIInv, CITyped, CITypeOK
    <2>. QED BY <1>1, <1>2, <1>3, <1>9, <2>1 DEF CIInv, CITyped, RefreshAt
  <1>5. (LastDecided /\ NoDoubleRecap)'
    BY <1>3 DEF CIInv, LastDecided, NoDoubleRecap
  <1>6. StackedBare'
    BY <1>1, <1>2, <1>3, <1>9 DEF CIInv, StackedBare, RefreshAt
  <1>7. Serial'
    BY <1>1, <1>2, <1>3, <1>9 DEF CIInv, Serial, RefreshAt
  <1>8. Alone'
    <2>1. \A c \in fresh : OnItsWay(r, c)'
      BY <1>1, <1>2, <1>3, <1>9, OnlyOne DEF CIInv, OnItsWay, RefreshAt, Shows
    <2>. QED BY <1>2, <1>3, <2>1 DEF Alone, Quiet, RefreshAt
  <1>. QED BY <1>4, <1>5, <1>6, <1>7, <1>8 DEF CIInv


LEMMA SaveStep ==
  ASSUME CIInv, NEW r \in Refreshers, SaveBookmark(r)
  PROVE  CIInv'
  <1>1. /\ work[r].at = "save" /\ work \in [Refreshers -> Work] /\ ~stacked
        /\ work[r].made \in DOMAIN bookmarks
    BY DEF SaveBookmark, CIInv, CITyped, CITypeOK, RefreshAt, StackedBare
  <1>2. /\ work' \in [Refreshers -> Work]
        /\ \A q \in Refreshers \ {r} : work'[q] = work[q]
        /\ work'[r].at = "decide" /\ work'[r].commit = work[r].commit
        /\ work'[r].id = work[r].id /\ work'[r].runs = work[r].runs
    BY <1>1, Moved DEF SaveBookmark, Steps
  <1>3. /\ bookmarkId' = work[r].made
        /\ UNCHANGED <<stacked, head, checks, changes, hooks, lastState, bookmarks, recaps,
                       faults, serial, fresh>>
    BY DEF SaveBookmark, SetPRCIBookmarkId, github
  <1>4. CITyped'
    <2>1. CITypeOK'
      BY <1>1, <1>2, <1>3 DEF CIInv, CITyped, CITypeOK
    <2>. QED BY <1>1, <1>2, <1>3, <2>1 DEF CIInv, CITyped, RefreshAt
  <1>5. (LastDecided /\ NoDoubleRecap)'
    BY <1>3 DEF CIInv, LastDecided, NoDoubleRecap
  <1>6. StackedBare'
    BY <1>1, <1>2, <1>3 DEF CIInv, StackedBare, RefreshAt
  <1>7. Serial'
    BY <1>1, <1>2, <1>3 DEF CIInv, Serial, RefreshAt
  <1>8. Alone'
    <2>1. \A c \in fresh : OnItsWay(r, c)'
      BY <1>1, <1>2, <1>3, OnlyOne DEF CIInv, OnItsWay, RefreshAt, Shows
    <2>. QED BY <1>2, <1>3, <2>1 DEF Alone, Quiet, RefreshAt
  <1>. QED BY <1>4, <1>5, <1>6, <1>7, <1>8 DEF CIInv


\* A refresh that has nothing to announce ends.
LEMMA DecideNothingStep ==
  ASSUME CIInv, NEW r \in Refreshers, Decide(r),
         LET state == CompletionState(work[r].runs)
         IN  state = None \/ lastState = state
  PROVE  CIInv'
  <1>1. /\ work[r].at = "decide" /\ work \in [Refreshers -> Work]
        /\ CompletionState(work[r].runs) # None => lastState = CompletionState(work[r].runs)
    BY DEF Decide, CIInv, CITyped
  <1>2. /\ work' \in [Refreshers -> Work]
        /\ \A q \in Refreshers \ {r} : work'[q] = work[q]
        /\ work'[r].at = "idle" /\ work'[r].id = 0
    BY <1>1, Rested DEF Decide, Transition
  <1>3. UNCHANGED <<stacked, head, checks, changes, hooks, bookmarkId, lastState, bookmarks,
                    recaps, faults, serial, fresh>>
    BY <1>1 DEF Decide, Transition, github
  <1>4. CITyped'
    <2>1. CITypeOK'
      BY <1>1, <1>2, <1>3 DEF CIInv, CITyped, CITypeOK
    <2>. QED BY <1>1, <1>2, <1>3, <2>1 DEF CIInv, CITyped, RefreshAt
  <1>5. (LastDecided /\ NoDoubleRecap)'
    BY <1>1, <1>2, <1>3 DEF CIInv, LastDecided, NoDoubleRecap
  <1>6. StackedBare'
    BY <1>1, <1>2, <1>3 DEF CIInv, StackedBare, RefreshAt
  <1>7. Serial'
    BY <1>1, <1>2, <1>3 DEF CIInv, Serial, RefreshAt
  <1>8. Alone'
    <2>1. \A c \in fresh : OnItsWay(r, c)
      BY <1>1, OnlyOne DEF CIInv, RefreshAt
    <2>2. ASSUME NEW c \in fresh PROVE Quiet' /\ Right(c)'
      <3>1. Quiet'
        BY <1>2, <2>1 DEF OnItsWay, RefreshAt, Quiet
      <3>2. Right(c)'
        BY <1>1, <1>3, <2>1 DEF OnItsWay, RefreshAt, Right, Shows
      <3>. QED BY <3>1, <3>2
    <2>. QED BY <1>3, <2>2 DEF Alone
  <1>. QED BY <1>4, <1>5, <1>6, <1>7, <1>8 DEF CIInv


LEMMA DecideStep ==
  ASSUME CIInv, NEW r \in Refreshers, Decide(r),
         LET state == CompletionState(work[r].runs)
         IN  state # None /\ lastState # state
  PROVE  CIInv'
  <1>. DEFINE state == CompletionState(work[r].runs)
  <1>. DEFINE new == [state |-> state, commit |-> work[r].commit, posted |-> FALSE]
  <1>1. /\ work[r].at = "decide" /\ work \in [Refreshers -> Work] /\ work[r].commit \in Commits
        /\ recaps \in Seq(Recaps) /\ state \in {"passed", "failed"} /\ lastState # state
    BY Verdicts DEF Decide, CIInv, CITyped, RefreshAt
  <1>2. /\ lastState' = state /\ recaps' = Append(recaps, new)
        /\ Turn(r, [work[r] EXCEPT !.recap = Len(recaps'), !.at = "post"])
        /\ UNCHANGED <<stacked, head, checks, changes, hooks, bookmarkId, bookmarks,
                       faults, serial, fresh>>
    BY DEF Decide, Transition, github
  <1>3. /\ recaps' \in Seq(Recaps) /\ Len(recaps') = Len(recaps) + 1 /\ Len(recaps') \in Nat
        /\ DOMAIN recaps' = DOMAIN recaps \cup {Len(recaps')}
        /\ Len(recaps') \notin DOMAIN recaps /\ recaps' # <<>>
        /\ \A i \in DOMAIN recaps : recaps'[i] = recaps[i]
        /\ recaps'[Len(recaps')].state = state /\ ~recaps'[Len(recaps')].posted
    <2>. HIDE DEF state
    <2>1. new \in Recaps
      BY <1>1 DEF Recaps
    <2>. QED BY <1>1, <1>2, <2>1
  <1>9. /\ work' \in [Refreshers -> Work]
        /\ \A q \in Refreshers \ {r} : work'[q] = work[q]
        /\ work'[r].at = "post" /\ work'[r].commit = work[r].commit
        /\ work'[r].id = work[r].id /\ work'[r].runs = work[r].runs
        /\ work'[r].recap = Len(recaps')
    BY <1>1, <1>2, <1>3, Decided
  <1>. HIDE DEF state
  <1>4. CITyped'
    <2>1. \A q \in Refreshers : RefreshAt(q, {"post"})' =>
            work'[q].recap \in DOMAIN recaps' /\ ~recaps'[work'[q].recap].posted
      BY <1>1, <1>2, <1>3, <1>9 DEF CIInv, CITyped, CITypeOK, RefreshAt
    <2>2. \A p, q \in Refreshers :
            RefreshAt(p, {"post"})' /\ RefreshAt(q, {"post"})' /\ work'[p].recap = work'[q].recap => p = q
      BY <1>1, <1>2, <1>3, <1>9 DEF CIInv, CITyped, RefreshAt
    <2>3. CITypeOK'
      BY <1>1, <1>2, <1>3, <1>9, <2>1 DEF CIInv, CITyped, CITypeOK, RefreshAt
    <2>. QED BY <1>1, <1>2, <1>3, <1>9, <2>1, <2>2, <2>3 DEF CIInv, CITyped, RefreshAt
  <1>5. (LastDecided /\ NoDoubleRecap)'
    BY <1>1, <1>2, <1>3, <1>9 DEF CIInv, LastDecided, NoDoubleRecap
  <1>6. StackedBare'
    BY <1>1, <1>2, <1>3, <1>9 DEF CIInv, StackedBare, RefreshAt
  <1>7. Serial'
    BY <1>1, <1>2, <1>3, <1>9 DEF CIInv, Serial, RefreshAt
  <1>8. Alone'
    <2>1. \A c \in fresh : OnItsWay(r, c)
      BY <1>1, OnlyOne DEF CIInv, RefreshAt
    <2>2. \A c \in fresh : OnItsWay(r, c)'
      BY <1>1, <1>2, <1>9, <2>1 DEF state, OnItsWay, RefreshAt, Shows
    <2>. QED BY <1>2, <1>9, <2>2 DEF Alone, Quiet, RefreshAt
  <1>. QED BY <1>4, <1>5, <1>6, <1>7, <1>8 DEF CIInv


LEMMA PostStep ==
  ASSUME CIInv, NEW r \in Refreshers, PostRecap(r)
  PROVE  CIInv'
  <1>. DEFINE i == work[r].recap
  <1>1. /\ work[r].at = "post" /\ work \in [Refreshers -> Work]
        /\ recaps \in Seq(Recaps) /\ i \in DOMAIN recaps
    BY DEF PostRecap, CIInv, CITyped, RefreshAt
  <1>2. /\ work' \in [Refreshers -> Work]
        /\ \A q \in Refreshers \ {r} : work'[q] = work[q]
        /\ work'[r].at = "idle" /\ work'[r].id = 0
    BY <1>1, Rested DEF PostRecap
  <1>3. UNCHANGED <<stacked, head, checks, changes, hooks, bookmarkId, lastState, bookmarks,
                    faults, serial, fresh>>
    BY DEF PostRecap, github
  <1>9. /\ recaps' \in Seq(Recaps) /\ Len(recaps') = Len(recaps) /\ DOMAIN recaps' = DOMAIN recaps
        /\ \A j \in DOMAIN recaps : recaps'[j].state = recaps[j].state
        /\ \A j \in DOMAIN recaps : j # i => recaps'[j].posted = recaps[j].posted
        /\ recaps'[i].posted
    <2>1. recaps \in Seq(Recaps) /\ i \in DOMAIN recaps
      BY <1>1
    <2>2. recaps' = [recaps EXCEPT ![i].posted = TRUE]
      BY DEF PostRecap
    <2>. HIDE DEF i
    <2>3. recaps' \in Seq(Recaps) /\ Len(recaps') = Len(recaps) /\ DOMAIN recaps' = DOMAIN recaps
      BY <2>1, <2>2, RecapKept
    <2>4. \A j \in DOMAIN recaps : recaps'[j].state = recaps[j].state
      BY <2>1, <2>2, RecapPosted
    <2>5. \A j \in DOMAIN recaps : j # i => recaps'[j].posted = recaps[j].posted
      BY <2>1, <2>2, RecapPosted, Zenon
    <2>6. recaps'[i].posted
      BY <2>1, <2>2, RecapPosted
    <2>. QED BY <2>3, <2>4, <2>5, <2>6, Zenon
  <1>4. CITyped'
    <2>1. \A q \in Refreshers : RefreshAt(q, {"post"})' =>
            work'[q].recap \in DOMAIN recaps' /\ ~recaps'[work'[q].recap].posted
      BY <1>1, <1>2, <1>3, <1>9 DEF CIInv, CITyped, CITypeOK, RefreshAt
    <2>2. \A p, q \in Refreshers :
            RefreshAt(p, {"post"})' /\ RefreshAt(q, {"post"})' /\ work'[p].recap = work'[q].recap => p = q
      BY <1>1, <1>2, <1>3, <1>9 DEF CIInv, CITyped, RefreshAt
    <2>3. CITypeOK'
      BY <1>1, <1>2, <1>3, <1>9, <2>1 DEF CIInv, CITyped, CITypeOK, RefreshAt
    <2>. QED BY <1>1, <1>2, <1>3, <1>9, <2>1, <2>2, <2>3 DEF CIInv, CITyped, RefreshAt
  <1>5. (LastDecided /\ NoDoubleRecap)'
    <2>1. recaps # <<>> /\ recaps' # <<>> /\ Len(recaps) \in DOMAIN recaps
      BY <1>1, <1>9
    <2>2. \A j \in 2..Len(recaps) : j \in DOMAIN recaps /\ j - 1 \in DOMAIN recaps
      BY <1>1
    <2>3. \A j \in DOMAIN recaps : recaps'[j].state = recaps[j].state
      BY <1>9
    <2>4. Len(recaps') = Len(recaps) /\ lastState' = lastState
      BY <1>3, <1>9
    <2>5. LastDecided'
      BY <2>1, <2>3, <2>4 DEF CIInv, LastDecided
    <2>6. NoDoubleRecap'
      BY <2>1, <2>2, <2>3, <2>4, <2>5 DEF CIInv, LastDecided, NoDoubleRecap
    <2>. QED BY <2>5, <2>6
  <1>6. StackedBare'
    BY <1>1, <1>2, <1>3, <1>9 DEF CIInv, StackedBare, RefreshAt
  <1>7. Serial'
    BY <1>1, <1>2, <1>3, <1>9 DEF CIInv, Serial, RefreshAt
  <1>8. Alone'
    <2>1. \A c \in fresh : OnItsWay(r, c)
      BY <1>1, OnlyOne DEF CIInv, RefreshAt
    <2>2. ASSUME NEW c \in fresh PROVE Quiet' /\ Right(c)'
      <3>1. Quiet'
        BY <1>2, <2>1 DEF OnItsWay, RefreshAt, Quiet
      <3>2. Right(c)'
        BY <1>1, <1>3, <2>1 DEF OnItsWay, RefreshAt, Right, Shows
      <3>. QED BY <3>1, <3>2
    <2>. QED BY <1>3, <2>2 DEF Alone
  <1>. QED BY <1>4, <1>5, <1>6, <1>7, <1>8 DEF CIInv


LEMMA CallFailsStep ==
  ASSUME CIInv, NEW r \in Refreshers, CallFails(r)
  PROVE  CIInv'
  <1>1. work[r].at # "idle" /\ work \in [Refreshers -> Work]
    BY DEF CallFails, CIInv, CITyped
  <1>2. /\ work' \in [Refreshers -> Work]
        /\ \A q \in Refreshers \ {r} : work'[q] = work[q]
        /\ \/ work'[r].at = "idle" /\ work'[r].id = 0
           \/ /\ work'[r].at = "decide" /\ work[r].at = "add"
              /\ work'[r].commit = work[r].commit /\ work'[r].id = work[r].id
    BY <1>1, Rested, Moved DEF CallFails, Steps
  <1>3. /\ faults' = faults + 1 /\ serial' = FALSE /\ fresh' = {}
        /\ UNCHANGED <<stacked, head, checks, changes, hooks, bookmarkId, lastState, bookmarks,
                       recaps>>
    BY DEF CallFails, Fault, github
  <1>4. CITyped'
    <2>1. CITypeOK'
      BY <1>1, <1>2, <1>3 DEF CIInv, CITyped, CITypeOK
    <2>. QED BY <1>1, <1>2, <1>3, <2>1 DEF CIInv, CITyped, RefreshAt
  <1>5. (LastDecided /\ NoDoubleRecap)'
    BY <1>1, <1>2, <1>3 DEF CIInv, LastDecided, NoDoubleRecap
  <1>6. StackedBare'
    BY <1>1, <1>2, <1>3 DEF CIInv, StackedBare, RefreshAt
  <1>7. Serial'
    BY <1>1, <1>2, <1>3 DEF CIInv, Serial, RefreshAt
  <1>8. Alone'
    BY <1>3 DEF Alone
  <1>. QED BY <1>4, <1>5, <1>6, <1>7, <1>8 DEF CIInv


LEMMA CIStepInvariant ==
  ASSUME CIInv, [CINext]_ciVars
  PROVE  CIInv'
  <1>1. CASE Push
    BY <1>1, PushStep
  <1>2. ASSUME NEW c \in Commits, NEW runs \in Mixes, ChecksChange(c, runs)
        PROVE  CIInv'
    BY <1>2, ChecksChangeStep
  <1>3. ASSUME NEW b \in DOMAIN bookmarks, RemovedByHand(b)
        PROVE  CIInv'
    BY <1>3, RemovedByHandStep
  <1>4. ASSUME NEW r \in Refreshers, NEW w \in hooks, BeginRefresh(r, w)
        PROVE  CIInv'
    BY <1>4, CIReceiveStep
  <1>5. ASSUME NEW r \in Refreshers,
               Fetch(r) \/ EditBookmark(r) \/ AddBookmark(r) \/ SaveBookmark(r) \/ Decide(r) \/ PostRecap(r) \/ CallFails(r)
        PROVE  CIInv'
    BY <1>5, FetchStep, EditStep, AddStep, SaveStep, DecideNothingStep, DecideStep, PostStep,
       CallFailsStep
  <1>6. CASE UNCHANGED ciVars
    BY <1>6 DEF ciVars, github, CIInv, CITyped, CITypeOK, LastDecided, NoDoubleRecap, StackedBare,
                Serial, Alone, Quiet, Right, OnItsWay, Shows, RefreshAt
  <1>. QED BY <1>1, <1>2, <1>3, <1>4, <1>5, <1>6 DEF CINext

LEMMA CIInvariant == CISpec => []CIInv
  <1>1. CIInit => CIInv
    BY CIInitInvariant
  <1>2. CIInv /\ [CINext]_ciVars => CIInv'
    BY CIStepInvariant
  <1>. QED BY <1>1, <1>2, PTL DEF CISpec

-----------------------------------------------------------------------------
(* Theorems *)

\* The variables keep their types: what a refresh holds of the row and of Slack
\* exists (_refresh_ci_bookmark, _set_ci_bookmark).
THEOREM TypeCorrect == CISpec => []CITypeOK
  <1>1. CIInv => CITypeOK
    BY DEF CIInv, CITyped
  <1>. QED BY <1>1, CIInvariant, PTL

\* However many refreshes race, no verdict is decided on twice in a row
\* (transition_pr_last_ci_state).
THEOREM AnnouncedOnce == CISpec => []NoDoubleRecap
  <1>1. CIInv => NoDoubleRecap
    BY DEF CIInv
  <1>. QED BY <1>1, CIInvariant, PTL

\* As long as refreshes ran one by one and none failed, the channel has at most
\* one CI bookmark, and a stacked pull request has none (_set_ci_bookmark).
THEOREM OneInPlace == CISpec => []OneBookmark
  <1>. DEFINE live == {b \in DOMAIN bookmarks : bookmarks[b].live}
  <1>1. ASSUME CIInv, serial PROVE Cardinality(live) <= 1
    <2>1. ASSUME NEW a \in live, NEW b \in live PROVE a = b
      BY <1>1, <2>1 DEF CIInv, Serial
    <2>2. CASE live = {}
      BY <2>2, FS_EmptySet
    <2>3. CASE \E a \in live : live = {a}
      <3>. HIDE DEF live
      <3>1. Cardinality(live) = 1
        BY <2>3, FS_Singleton
      <3>. QED BY <3>1
    <2>. QED BY <2>1, <2>2, <2>3
  <1>2. ASSUME CIInv, stacked PROVE live = {}
    BY <1>2 DEF CIInv, StackedBare
  <1>3. CIInv => OneBookmark
    BY <1>1, <1>2 DEF OneBookmark
  <1>. QED BY <1>3, CIInvariant, PTL

\* After a refresh that ran alone, and until the checks change again, bookmark
\* and verdict are right whatever happened before it (_refresh_ci_bookmark).
THEOREM PutRight == CISpec => []ChannelShows
  <1>1. ASSUME CIInv, Quiet, NEW c \in fresh
        PROVE  Right(c) /\ (serial => \A i \in DOMAIN recaps : recaps[i].posted)
    BY <1>1 DEF CIInv, Alone, Serial, Quiet, RefreshAt
  <1>2. ASSUME CIInv, NEW b \in DOMAIN bookmarks PROVE b # 0
    BY <1>2 DEF CIInv, CITyped
  <1>3. CIInv => ChannelShows
    BY <1>1, <1>2 DEF ChannelShows, Right, Shows
  <1>. QED BY <1>3, CIInvariant, PTL

=============================================================================
