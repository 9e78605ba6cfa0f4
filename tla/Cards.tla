-------------------------------- MODULE Cards --------------------------------
(***************************************************************************)
(* The cards Pulley keeps in an organisation's pull request and issue      *)
(* channels (pr_digest_service.py, issue_service.py): one message for each *)
(* pull request or issue and channel, posted once and edited in place.     *)
(*                                                                         *)
(* One subject, a pull request or an issue, and every webhook about it     *)
(* that touches its row: for a pull request the handlers of                *)
(* channel_manager.py, each of which reads the row and writes the columns  *)
(* it changes; for an issue an upsert of the whole row, or its deletion.   *)
(* job[h].todo are the awaits that handler h has yet to reach.              *)
(***************************************************************************)
EXTENDS Naturals, Sequences, FiniteSets, SequencesExt

CONSTANTS
  Workers,      \* deliveries handled together
  Places,       \* the Slack channels an organisation can choose
  People,       \* who can be asked for a review
  NoPlace,      \* the setting while nobody chose a channel
  MaxEvents,    \* bound: webhooks GitHub sends
  MaxMishaps,   \* bound: failures, crashes, redeliveries and cards deleted
                \* by hand
  MaxInputs     \* bound: webhooks, mishaps and changes of the setting in all

ASSUME CardsAssumption ==
  /\ NoPlace \notin Places
  /\ MaxEvents \in Nat /\ MaxMishaps \in Nat /\ MaxInputs \in Nat

VARIABLES
  kind,       \* "pr" or "issue"
  events,     \* the webhooks GitHub has sent
  queue,      \* the numbers of those still to be handled
  row,        \* the row of PullRequest or Issue, id 0 while there is none
  digest,     \* PRDigestMessage or IssueDigestMessage, by channel; 0 for no row
  place,      \* Organization.pr_channel_id or issue_channel_id
  cards,      \* Slack: the messages posted, by timestamp
  job,        \* what each handler is at
  repoints,   \* how often the setting has changed
  mishaps,    \* how many the model has injected
  rowIds,     \* the ids given out to rows
  clean,      \* no handler overlapped another or failed so far, and no card
              \* outlived its row
  solo,       \* the handler that has run alone since it began
  calm,       \* the channel of the last run, if it was alone and reached Slack
  wrote,      \* the event each column was last written for
  crossed     \* the columns written from a reading out of date

outside == <<kind, events, queue, place, repoints>>
rows    == <<row, digest, rowIds>>
traces  == <<clean, solo, calm, wrote, crossed>>
cardVars == <<outside, rows, cards, job, mishaps, traces>>

\* What a webhook says of a pull request: the state it left it in.
Events ==
  [what : {"opened", "title", "draft", "asked", "unasked", "saved", "deleted"},
   draft : BOOLEAN, reviewers : SUBSET People]

\* A title, or the whole of an issue, is the number of the event it came with;
\* a time is the number of the event it was read for.
Rows ==
  [id : Nat, title : Nat, draft : BOOLEAN, reviewers : SUBSET People, clock : Nat]
NoRow == [id |-> 0, title |-> 0, draft |-> FALSE, reviewers |-> {}, clock |-> 0]
Shown(r) == <<r.title, r.draft, r.reviewers>>

Columns == {"title", "draft", "reviewers"}

\* The awaits of the handler of each event, in the order of the code.
Flow ==
  [opened  |-> <<"org", "insert", "read", "write", "show", "record">>,
   title   |-> <<"org", "read", "write", "load", "find", "show", "record">>,
   draft   |-> <<"org", "read", "write", "load", "find", "show", "record">>,
   asked   |-> <<"org", "read", "write", "load", "find", "show", "record">>,
   unasked |-> <<"read", "write", "org", "load", "find", "show", "record">>,
   saved   |-> <<"org", "save", "find", "show", "record">>,
   deleted |-> <<"load", "org", "find", "remove", "drop">>]

\* What is left of them once the organisation is read and has no channel.
NoCard ==
  [opened  |-> <<"insert", "read", "write">>,
   title   |-> <<"read", "write">>,
   draft   |-> <<"read", "write">>,
   asked   |-> <<"read", "write">>,
   unasked |-> <<>>,
   saved   |-> <<"save">>,
   deleted |-> <<"drop">>]

\* todo: the steps it has yet to take; on: the number of its event; snap: the
\* row as it last read it; chan: the channel in the organisation it read;
\* found: its local ts.
Idle == [todo |-> <<>>, on |-> 0, snap |-> NoRow, chan |-> NoPlace, found |-> 0]

CardsInit ==
  /\ kind \in {"pr", "issue"}
  /\ place \in Places \cup {NoPlace}
  /\ events = <<>> /\ queue = {}
  /\ row = NoRow /\ digest = [c \in Places |-> 0] /\ cards = <<>>
  /\ job = [h \in Workers |-> Idle]
  /\ repoints = 0 /\ mishaps = 0 /\ rowIds = 0
  /\ clean = TRUE /\ solo = {} /\ calm = NoPlace
  /\ wrote = [c \in Columns |-> 0] /\ crossed = {}

Working(h) == job[h].todo # <<>>
Resting == \A h \in Workers : ~Working(h)

-----------------------------------------------------------------------------
(* GitHub, Slack's people and what goes wrong *)

Room == Len(events) + repoints + mishaps < MaxInputs
Mishap == Room /\ mishaps < MaxMishaps /\ mishaps' = mishaps + 1

Send(what, draft, reviewers) ==
  /\ Room /\ Len(events) < MaxEvents
  /\ events' = Append(events, [what |-> what, draft |-> draft, reviewers |-> reviewers])
  /\ queue' = queue \cup {Len(events) + 1}

\* A pull request opens, then its title, draft state and reviewers change.
PRChanges ==
  LET now == Last(events)
  IN /\ kind = "pr"
     /\ \/ /\ events = <<>>
           /\ \E draft \in BOOLEAN, some \in SUBSET People : Send("opened", draft, some)
        \/ /\ events # <<>>
           /\ \/ Send("title", now.draft, now.reviewers)
              \/ Send("draft", ~now.draft, now.reviewers)
              \/ \E p \in People \ now.reviewers :
                   Send("asked", now.draft, now.reviewers \cup {p})
              \/ \E p \in now.reviewers :
                   Send("unasked", now.draft, now.reviewers \ {p})

\* An issue is opened, edited, closed, ..., and may be deleted in the end.
IssueChanges ==
  /\ kind = "issue"
  /\ \A i \in DOMAIN events : events[i].what # "deleted"
  /\ \/ Send("saved", FALSE, {})
     \/ events # <<>> /\ Send("deleted", FALSE, {})

Happens ==
  /\ PRChanges \/ IssueChanges
  /\ UNCHANGED <<kind, place, repoints, rows, cards, job, mishaps, traces>>

Redeliver(n) ==
  /\ Mishap
  /\ n \notin queue
  /\ queue' = queue \cup {n}
  /\ UNCHANGED <<kind, events, place, repoints, rows, cards, job, traces>>

\* `/pulley settings pr|issues #channel`.
Repoint(c) ==
  /\ Room /\ repoints' = repoints + 1
  /\ c # place
  /\ place' = c
  /\ UNCHANGED <<kind, events, queue, rows, cards, job, mishaps, traces>>

DeletedByHand(t) ==
  /\ Mishap
  /\ cards[t].live
  /\ cards' = [cards EXCEPT ![t].live = FALSE]
  /\ UNCHANGED <<outside, rows, job, traces>>

-----------------------------------------------------------------------------
(* A handler's steps *)

At(h, step) == Working(h) /\ Head(job[h].todo) = step
Event(h) == events[job[h].on]
Become(h, j) == job' = [job EXCEPT ![h] = j]
Then(h, j) == Become(h, [j EXCEPT !.todo = Tail(@)])
Step(h) == Then(h, job[h])
Stop(h) == Become(h, Idle)

\* A handler that reaches its end alone leaves the channel it worked on calm.
Settle(h) == calm' = IF solo = {h} THEN job[h].chan ELSE NoPlace

Receive(h, n) ==
  /\ ~Working(h)
  /\ n \in queue
  /\ queue' = queue \ {n}
  /\ Become(h, [Idle EXCEPT !.todo = Flow[events[n].what], !.on = n])
  /\ clean' = (clean /\ Resting)
  /\ solo' = (IF Resting THEN {h} ELSE {})
  /\ calm' = NoPlace
  /\ UNCHANGED <<kind, events, place, repoints, rows, cards, mishaps, wrote, crossed>>

\* The organisation is read.  The handlers of a pull request that is not
\* tracked end here, and so does `opened` for one that is.
GetOrg(h) ==
  /\ At(h, "org")
  /\ IF \/ Event(h).what \in {"title", "draft", "asked"} /\ row.id = 0
        \/ Event(h).what = "opened" /\ row.id # 0
     THEN Stop(h)
     ELSE Become(h, [job[h] EXCEPT
            !.chan = place,
            !.todo = IF place = NoPlace THEN NoCard[Event(h).what] ELSE Tail(@)])
  /\ UNCHANGED <<outside, rows, cards, mishaps, traces>>

\* create_pr_and_channel.  A second insert of the pull request raises.
InsertRaises(h) ==
  /\ At(h, "insert") /\ row.id # 0
  /\ Stop(h)
  /\ clean' = FALSE
  /\ UNCHANGED <<outside, rows, cards, mishaps, solo, calm, wrote, crossed>>

Insert(h) ==
  LET n == job[h].on
      new == [NoRow EXCEPT !.id = rowIds + 1, !.title = n, !.draft = Event(h).draft]
  IN /\ At(h, "insert") /\ row.id = 0
     /\ row' = new /\ rowIds' = rowIds + 1
     /\ Become(h, [job[h] EXCEPT
          !.snap = new,
          !.todo = IF Event(h).reviewers # {} THEN Tail(@)
                   ELSE IF job[h].chan = NoPlace THEN <<>> ELSE <<"show", "record">>])
     /\ wrote' = [wrote EXCEPT !["title"] = n, !["draft"] = n]
     /\ UNCHANGED <<outside, digest, cards, mishaps, clean, solo, calm, crossed>>

\* A setter selects the row; `update` loads it again, to show what the others
\* wrote meanwhile.  A handler that finds no row ends.
Load(h) ==
  /\ At(h, "read") \/ At(h, "load")
  /\ IF row.id = 0 THEN Stop(h) ELSE Then(h, [job[h] EXCEPT !.snap = row])
  /\ UNCHANGED <<outside, rows, cards, mishaps, traces>>

\* Seeded fault: every request restarts the clock.
NextReviewRestarts(pending, reviewers, current, now) ==
  IF reviewers = {} THEN 0 ELSE now

NextReviewRequestedAt(pending, reviewers, current, now) ==
  CASE reviewers = {} -> 0
    [] reviewers # {} /\ ~pending -> now
    [] OTHER -> current

\* The row as the handler wants it.
Changed(r, n) ==
  LET e == events[n] IN
  CASE e.what = "title" -> [r EXCEPT !.title = n]
    [] e.what = "draft" -> [r EXCEPT !.draft = e.draft]
    [] OTHER ->
         [r EXCEPT !.reviewers = e.reviewers,
                   !.clock = NextReviewRequestedAt(r.reviewers # {}, e.reviewers,
                                                   r.clock, n)]

\* Seeded fault: the commit sends every column.
CommitAll(old, new) == new

\* What its commit sends: the columns that differ from those it read, and no
\* other, so that another handler's column survives.
Commit(old, new) ==
  [f \in DOMAIN row |-> IF new[f] = old[f] THEN row[f] ELSE new[f]]

Write(h) ==
  LET n == job[h].on
      old == job[h].snap
      column == IF Event(h).what \in {"title", "draft"} THEN Event(h).what
                ELSE "reviewers"
  IN /\ At(h, "write")
     /\ row' = Commit(old, Changed(old, n))
     /\ Then(h, [job[h] EXCEPT !.snap = row'])
     /\ wrote' = [wrote EXCEPT ![column] = n]
     /\ crossed' = IF row[column] = old[column] THEN crossed ELSE crossed \cup {column}
     /\ UNCHANGED <<outside, digest, rowIds, cards, mishaps, clean, solo, calm>>

\* upsert_issue: the whole row, which it returns.
Save(h) ==
  /\ At(h, "save")
  /\ rowIds' = IF row.id = 0 THEN rowIds + 1 ELSE rowIds
  /\ row' = [NoRow EXCEPT !.id = IF row.id = 0 THEN rowIds' ELSE row.id,
                          !.title = job[h].on]
  /\ Then(h, [job[h] EXCEPT !.snap = row'])
  /\ wrote' = [wrote EXCEPT !["title"] = job[h].on]
  /\ UNCHANGED <<outside, digest, cards, mishaps, clean, solo, calm, crossed>>

\* Seeded fault: a card of any channel is taken.
FoundAnywhere(h) ==
  CHOOSE t \in {digest[c] : c \in Places} : \A c \in Places : digest[c] <= t

\* Seeded fault: the recorded card is not looked up.
FoundNothing(h) == 0

\* get_pr_digest_ts and get_issue_digest_ts: by row and by channel.
FoundIn(h) == IF job[h].snap.id = row.id THEN digest[job[h].chan] ELSE 0
Find(h) ==
  /\ At(h, "find")
  /\ Then(h, [job[h] EXCEPT !.found = FoundIn(h)])
  /\ UNCHANGED <<outside, rows, cards, mishaps, traces>>

HoldsBack(r) == kind = "pr" /\ r.draft

\* The card there is gets edited.  One that is gone is an error, which is
\* logged and swallowed.
Edit(h) ==
  LET t == job[h].found
  IN /\ At(h, "show") /\ t # 0
     /\ cards' = IF cards[t].live
                 THEN [cards EXCEPT ![t].shows = Shown(job[h].snap)] ELSE cards
     /\ Settle(h) /\ Stop(h)
     /\ UNCHANGED <<outside, rows, mishaps, clean, solo, wrote, crossed>>

\* A pull request in draft gets no card.
HoldBack(h) ==
  /\ At(h, "show") /\ job[h].found = 0 /\ HoldsBack(job[h].snap)
  /\ Settle(h) /\ Stop(h)
  /\ UNCHANGED <<outside, rows, cards, mishaps, clean, solo, wrote, crossed>>

Post(h) ==
  /\ At(h, "show") /\ job[h].found = 0 /\ ~HoldsBack(job[h].snap)
  /\ cards' = Append(cards, [chan |-> job[h].chan, live |-> TRUE,
                             shows |-> Shown(job[h].snap)])
  /\ Then(h, [job[h] EXCEPT !.found = Len(cards')])
  /\ UNCHANGED <<outside, rows, mishaps, traces>>

\* Seeded fault: the card is recorded under the channel chosen meanwhile.
RecordedUnderSetting(h) == [digest EXCEPT ![place] = job[h].found]

\* set_pr_digest_ts, set_issue_digest_ts: an upsert, which raises when the
\* issue's row has gone.
Recorded(h) == [digest EXCEPT ![job[h].chan] = job[h].found]
Record(h) ==
  /\ At(h, "record")
  /\ Stop(h)
  /\ IF job[h].snap.id = row.id
     THEN digest' = Recorded(h) /\ Settle(h) /\ UNCHANGED clean
     ELSE clean' = FALSE /\ UNCHANGED <<digest, calm>>
  /\ UNCHANGED <<outside, row, rowIds, cards, mishaps, solo, wrote, crossed>>

\* The deletion of an issue takes the card of the current channel with it.
TakeDown(h) ==
  LET t == job[h].found
  IN /\ At(h, "remove")
     /\ cards' = IF t = 0 THEN cards ELSE [cards EXCEPT ![t].live = FALSE]
     /\ Step(h)
     /\ UNCHANGED <<outside, rows, mishaps, traces>>

\* delete_issue: the rows of the cards, in every channel, and the issue.
Drop(h) ==
  /\ At(h, "drop")
  /\ Settle(h) /\ Stop(h)
  /\ IF row.id = job[h].snap.id
     THEN /\ row' = NoRow /\ digest' = [c \in Places |-> 0]
          /\ clean' = (clean /\ \A t \in DOMAIN cards : ~cards[t].live)
     ELSE UNCHANGED <<row, digest, clean>>
  /\ UNCHANGED <<outside, rowIds, cards, mishaps, solo, wrote, crossed>>

\* Slack refuses a call about a card: swallowed, and a deletion goes on.
SlackFails(h) ==
  /\ Mishap
  /\ \/ At(h, "show") /\ Stop(h)
     \/ At(h, "remove") /\ Step(h)
  /\ clean' = FALSE
  /\ UNCHANGED <<outside, rows, cards, solo, calm, wrote, crossed>>

\* The process ends, or the database fails.
Die(h) ==
  /\ Mishap
  /\ Working(h) /\ Stop(h)
  /\ clean' = FALSE
  /\ UNCHANGED <<outside, rows, cards, solo, calm, wrote, crossed>>

Handle(h) ==
  \/ \E n \in queue : Receive(h, n)
  \/ GetOrg(h) \/ InsertRaises(h) \/ Insert(h) \/ Load(h) \/ Write(h) \/ Save(h)
  \/ Find(h) \/ Edit(h) \/ HoldBack(h) \/ Post(h) \/ Record(h)
  \/ TakeDown(h) \/ Drop(h)
  \/ SlackFails(h) \/ Die(h)

CardsNext ==
  \/ Happens
  \/ \E n \in DOMAIN events : Redeliver(n)
  \/ \E c \in Places : Repoint(c)
  \/ \E t \in DOMAIN cards : DeletedByHand(t)
  \/ \E h \in Workers : Handle(h)

CardsSpec == CardsInit /\ [][CardsNext]_cardVars

-----------------------------------------------------------------------------
(* Properties *)

\* The variables have their types; a channel's recorded card is a message of
\* that channel, and two channels never share one (pr_digest_message.py:14).
CardsTypeOK ==
  /\ kind \in {"pr", "issue"}
  /\ events \in Seq(Events) /\ queue \subseteq DOMAIN events
  /\ row \in Rows /\ digest \in [Places -> Nat]
  /\ place \in Places \cup {NoPlace}
  /\ \A t \in DOMAIN cards : cards[t].chan \in Places /\ cards[t].live \in BOOLEAN
  /\ \A h \in Workers :
       /\ Working(h) =>
            ToSet(job[h].todo) \subseteq ToSet(Flow[events[job[h].on].what])
       /\ job[h].snap \in Rows /\ job[h].chan \in Places \cup {NoPlace}
  /\ \A c \in Places : digest[c] # 0 => cards[digest[c]].chan = c

\* One message for each pull request or issue and channel (README.md:17,
\* pr_digest_service.py:1-10): however the channel was repointed, away and
\* back, and whatever was delivered again, a channel holds at most one card,
\* unless two handlers overlapped, one of them failed, or an issue was deleted
\* while it had a card in another channel.
OneCard ==
  clean => \A c \in Places :
    Cardinality({t \in DOMAIN cards : cards[t].live /\ cards[t].chan = c}) <= 1

\* Whatever happened before (failures, crashes, handlers that overlapped, a
\* repoint), one handler that runs alone to its end puts the current channel
\* right: its recorded card shows the row, or there is none because the pull
\* request is in draft or the issue is deleted (pr_digest_service.py:155-163,
\* issue_service.py:159).  A card deleted by hand is the exception.
Healed ==
  calm # NoPlace /\ Resting =>
    LET t == digest[calm] IN
    IF row.id = 0
    THEN t = 0 /\ (clean => \A i \in DOMAIN cards :
                     cards[i].chan = calm => ~cards[i].live)
    ELSE IF t = 0 THEN HoldsBack(row)
    ELSE cards[t].live => cards[t].shows = Shown(row)

\* No handler undoes what another wrote into a different column: each column
\* holds what the last event that wrote it said, although every setter reads
\* the whole row first (queries.py:787-846).  Only two changes of one column
\* that cross may leave the older one: the second finds nothing to change.
RowTracks ==
  row.id # 0 =>
    \A c \in Columns \ crossed : wrote[c] # 0 =>
      row[c] = IF c = "title" THEN wrote[c] ELSE events[wrote[c]][c]

\* The pending review clock (queries.py:766-779): it runs exactly while somebody
\* is asked for a review, and a further request does not restart it, unless two
\* changes of the reviewers crossed.
ClockRuns ==
  []["reviewers" \notin crossed' =>
       /\ row'.reviewers # {} <=> row'.clock # 0
       /\ row.clock # 0 /\ row'.clock # 0 => row'.clock = row.clock]_cardVars
=============================================================================
