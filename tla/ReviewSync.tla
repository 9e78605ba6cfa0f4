----------------------------- MODULE ReviewSync ------------------------------
(***************************************************************************)
(* How a review on GitHub reaches Slack (sync_service.py).  GitHub sends an *)
(* event for the review and one for each of its comments, in any order.     *)
(* With collapse_review_comments, the comments of a review that has a text  *)
(* are left by their own handlers to the review's, which lists them and     *)
(* posts them in the thread of its summary; a reply waits for its thread to *)
(* be known.  Otherwise a comment starts a thread of its own.               *)
(*                                                                         *)
(* One review of one pull request, submitted: event 0 is the review's,      *)
(* event c > 0 that of comment c.  Every await is a step of a handler.  The *)
(* review's handler also stores the reviewers and brings the card up to     *)
(* date; module Cards has what those calls do.                              *)
(***************************************************************************)
EXTENDS Integers, Sequences, FiniteSets, FiniteSetsExt

CONSTANTS
  Root,        \* for each comment the first comment of its GitHub thread
  Settings,    \* the settings, the pull requests and the reviews looked at
  Handlers,    \* the deliveries that may be handled together, 1..n
  MaxUpsets    \* bound: events delivered again, failed calls and crashes

Comments == DOMAIN Root
Roots == {c \in Comments : Root[c] = c}

ASSUME ReviewSyncAssumption ==
  /\ Cardinality(Comments) \in Nat /\ Comments = 1..Cardinality(Comments)
  /\ \A c \in Comments : Root[c] \in Comments /\ Root[Root[c]] = Root[c]
  /\ Settings \subseteq BOOLEAN \X BOOLEAN \X {"text", "verdict", "bare"}
  /\ Cardinality(Handlers) \in Nat /\ Handlers = 1..Cardinality(Handlers)
  /\ MaxUpsets \in Nat

VARIABLES
  collapse,      \* the collapse_review_comments setting
  stacked,       \* the pull request has a thread of its own, which is then 0
  review,        \* "text", "verdict" if it has no text, "bare" if it is only
                 \* the wrapper of its comments
  inbox,         \* the events that are still to reach a handler
  messages,      \* Slack: what each message shows and in which thread it is
  threads,       \* thread_mappings
  rows,          \* message_mappings of the review and its comments
  pc, job, todo, at, ts,  \* per handler: await, event, comments left, thread, message
  upsets,
  again, unread, gaveUp, failed   \* ghosts: see the properties

settings == <<collapse, stacked, review>>
db       == <<threads, rows>>
locals   == <<job, todo, at, ts>>
ghosts   == <<again, unread, gaveUp, failed>>
vars == <<settings, inbox, messages, db, pc, locals, upsets, ghosts>>

Note == -1   \* in the place of a comment: the note that the comments are missing

TypeOK ==
  /\ {collapse, stacked} \subseteq BOOLEAN /\ review \in {"text", "verdict", "bare"}
  /\ inbox \subseteq Comments \cup {0}
  /\ \A m \in DOMAIN messages :
       messages[m].shows \in Comments \cup {0, Note} /\ messages[m].thread \in 0..(m - 1)
  /\ \A i \in DOMAIN threads :
       threads[i].root \in Roots /\ threads[i].thread \in 0..Len(messages)
  /\ \A i \in DOMAIN rows :
       rows[i].shows \in Comments \cup {0} /\ rows[i].ts \in DOMAIN messages
  /\ \A h \in Handlers :
       /\ pc[h] \in {"idle", "summary", "mapSummary", "list", "note", "next", "read", "find",
                     "wait", "reply", "start", "lookThread", "addThread", "mapMessage"}
       /\ job[h] \in Comments \cup {0} /\ todo[h] \in Seq(Roots)
       /\ {at[h], ts[h]} \subseteq 0..Len(messages)
  /\ upsets \in 0..MaxUpsets
  /\ again \subseteq Comments \cup {0} /\ unread \subseteq Roots /\ gaveUp \subseteq Roots
  /\ failed \subseteq Comments \cup {0}

Init ==
  /\ \E s \in Settings : collapse = s[1] /\ stacked = s[2] /\ review = s[3]
  /\ inbox = Comments \cup {0}
  /\ messages = <<>> /\ threads = <<>> /\ rows = <<>>
  /\ pc = [h \in Handlers |-> "idle"] /\ job = [h \in Handlers |-> 0]
  /\ todo = [h \in Handlers |-> <<>>]
  /\ at = [h \in Handlers |-> 0] /\ ts = [h \in Handlers |-> 0]
  /\ upsets = 0
  /\ again = {} /\ unread = {} /\ gaveUp = {} /\ failed = {}

-----------------------------------------------------------------------------
Busy(e) == \E h \in Handlers : pc[h] # "idle" /\ job[h] = e

Upset == upsets < MaxUpsets /\ upsets' = upsets + 1

\* A second delivery of a comment shows it again, one of the review only while
\* the first is being handled.
Redeliver(e) ==
  /\ e \notin inbox
  /\ Upset
  /\ inbox' = inbox \cup {e}
  /\ again' = again \cup (IF e = 0 THEN (IF Busy(0) THEN Roots \cup {0} ELSE {}) ELSE {e})
  /\ UNCHANGED <<settings, messages, db, pc, locals, unread, gaveUp, failed>>

-----------------------------------------------------------------------------
Goto(h, step) == pc' = [pc EXCEPT ![h] = step]

Done(h) ==
  /\ Goto(h, "idle")
  /\ job' = [job EXCEPT ![h] = 0] /\ todo' = [todo EXCEPT ![h] = <<>>]
  /\ at' = [at EXCEPT ![h] = 0] /\ ts' = [ts EXCEPT ![h] = 0]

\* What the handler is posting: the review, the comment it lists, or its own.
Subject(h) == IF todo[h] # <<>> THEN Head(todo[h]) ELSE job[h]

Collapses == collapse /\ review = "text"

Mapped(s) == {i \in DOMAIN rows : rows[i].shows = s}

\* The oldest mapping of a GitHub thread, 0 when there is none.
ThreadRow(c) ==
  LET found == {i \in DOMAIN threads : threads[i].root = Root[c]}
  IN IF found = {} THEN 0 ELSE Min(found)

\* Seeded fault: the oldest of several threads is taken.
AnswersToFirst(t) ==
  LET found == {i \in DOMAIN threads : threads[i].thread = t}
  IN IF found # {} THEN threads[Min(found)].root ELSE 0

\* The GitHub thread a reply in Slack thread t is sent to; 0 for none, when the
\* reply becomes a comment on the pull request.
AnswersTo(t) ==
  LET found == {i \in DOMAIN threads : threads[i].thread = t}
  IN IF Cardinality(found) = 1 THEN threads[Min(found)].root ELSE 0

Post(h, shows, thread) ==
  /\ messages' = Append(messages, [shows |-> shows, thread |-> thread])
  /\ ts' = [ts EXCEPT ![h] = Len(messages) + 1]

MapMessageRow(h) == rows' = Append(rows, [shows |-> Subject(h), ts |-> ts[h]])

\* Seeded fault: every comment is taken to start a thread.
ContinuesItself(h) == ts[h]

\* The thread that goes on from the message just posted.  A stacked pull
\* request's comments all stay in its own thread.
Continues(h) == IF at[h] # 0 \/ stacked THEN at[h] ELSE ts[h]

-----------------------------------------------------------------------------
\* The review's handler.

\* Handlers that are idle are alike: the first of them takes an event.
Free(h) == pc[h] = "idle" /\ \A g \in 1..(h - 1) : pc[g] # "idle"

\* The handlers that post a comment the review's handler is to post as well.
Alone == {g \in Handlers : Collapses /\ job[g] \in Roots /\ pc[g] \notin {"idle", "read"}}

ReceiveReview(h) ==
  /\ Free(h) /\ 0 \in inbox
  /\ inbox' = inbox \ {0}
  /\ unread' = unread \cup (IF review # "bare" THEN {job[g] : g \in Alone} ELSE {})
  /\ IF review # "bare" /\ Mapped(0) = {} THEN Goto(h, "summary") /\ UNCHANGED at
     ELSE IF Collapses
     THEN /\ Goto(h, "list")
          /\ at' = [at EXCEPT ![h] = IF stacked THEN 0 ELSE rows[Min(Mapped(0))].ts]
     ELSE UNCHANGED <<pc, at>>
  /\ UNCHANGED <<settings, messages, db, job, todo, ts, upsets, again, gaveUp, failed>>

Summary(h) ==
  /\ pc[h] = "summary"
  /\ Post(h, 0, 0) /\ Goto(h, "mapSummary")
  /\ UNCHANGED <<settings, inbox, db, job, todo, at, upsets, ghosts>>

\* The comments are posted all the same, each on its own; the error is raised
\* after them.
SummaryFails(h) ==
  /\ pc[h] = "summary" /\ Collapses
  /\ Upset
  /\ Goto(h, "list")
  /\ UNCHANGED <<settings, inbox, messages, db, locals, ghosts>>

MapSummary(h) ==
  /\ pc[h] = "mapSummary"
  /\ MapMessageRow(h)
  /\ IF Collapses
     THEN /\ Goto(h, "list")
          /\ at' = [at EXCEPT ![h] = IF stacked THEN 0 ELSE ts[h]]
          /\ ts' = [ts EXCEPT ![h] = 0] /\ UNCHANGED <<job, todo>>
     ELSE Done(h)
  /\ UNCHANGED <<settings, inbox, messages, threads, upsets, ghosts>>

\* The comments of the review that start threads, oldest first.
Listings ==
  {s \in [1..Cardinality(Roots) -> Roots] : \A i, j \in DOMAIN s : i < j => s[i] < s[j]}

List(h) ==
  /\ pc[h] = "list"
  /\ \E s \in Listings : todo' = [todo EXCEPT ![h] = s]
  /\ Goto(h, "next")
  /\ UNCHANGED <<settings, inbox, messages, db, job, at, ts, upsets, ghosts>>

\* Seeded fault: nothing is said in Slack.
ListFailsQuietly(h) ==
  /\ pc[h] = "list"
  /\ Upset
  /\ Done(h)
  /\ UNCHANGED <<settings, inbox, messages, db, ghosts>>

\* All three attempts fail.
ListFails(h) ==
  /\ pc[h] = "list"
  /\ Upset
  /\ Goto(h, "note")
  /\ UNCHANGED <<settings, inbox, messages, db, locals, ghosts>>

SayMissing(h) ==
  /\ pc[h] = "note"
  /\ messages' = Append(messages, [shows |-> Note, thread |-> at[h]])
  /\ Done(h)
  /\ UNCHANGED <<settings, inbox, db, upsets, ghosts>>

\* Seeded fault: comments that have a message are posted too.
NextCommentUnseen(h) ==
  /\ pc[h] = "next"
  /\ IF todo[h] = <<>> THEN Done(h) /\ failed' = failed \ {0}
     ELSE Goto(h, "start") /\ UNCHANGED <<locals, failed>>
  /\ UNCHANGED <<settings, inbox, messages, db, upsets, again, unread, gaveUp>>

NextComment(h) ==
  /\ pc[h] = "next"
  /\ IF todo[h] = <<>> THEN Done(h) /\ failed' = failed \ {0}
     ELSE /\ IF Mapped(Head(todo[h])) # {}
             THEN todo' = [todo EXCEPT ![h] = Tail(@)] /\ UNCHANGED pc
             ELSE Goto(h, "start") /\ UNCHANGED todo
          /\ UNCHANGED <<job, at, ts, failed>>
  /\ UNCHANGED <<settings, inbox, messages, db, upsets, again, unread, gaveUp>>

-----------------------------------------------------------------------------
\* A comment's handler.

ReceiveComment(h) ==
  /\ Free(h)
  /\ \E c \in inbox \ {0} :
       /\ inbox' = inbox \ {c}
       /\ job' = [job EXCEPT ![h] = c]
       /\ Goto(h, IF collapse /\ c \in Roots THEN "read" ELSE "find")
  /\ UNCHANGED <<settings, messages, db, todo, at, ts, upsets, ghosts>>

\* Whether the review collapses, from this process's cache or from GitHub: the
\* answer is the same, but GitHub may fail to give it.
Read(h) ==
  /\ pc[h] = "read"
  /\ IF Collapses THEN Done(h) ELSE Goto(h, "find") /\ UNCHANGED locals
  /\ UNCHANGED <<settings, inbox, messages, db, upsets, ghosts>>

ReadFails(h) ==
  /\ pc[h] = "read"
  /\ Upset
  /\ Goto(h, "find")
  /\ unread' = unread \cup {c \in {job[h]} : Collapses /\ (Busy(0) \/ Mapped(c) # {})}
  /\ UNCHANGED <<settings, inbox, messages, db, locals, again, gaveUp, failed>>

\* Starts a thread that a handler of the same GitHub thread may be starting too.
StartThread(h, others) ==
  /\ Goto(h, "start")
  /\ gaveUp' = gaveUp \cup {r \in {Root[job[h]]} :
       \E g \in others : pc[g] \in {"start", "lookThread", "addThread"} /\ Root[Subject(g)] = r}
  /\ UNCHANGED at

Find(h) ==
  LET i == ThreadRow(job[h]) IN
  /\ pc[h] = "find"
  /\ IF i # 0
     THEN Goto(h, "reply") /\ at' = [at EXCEPT ![h] = threads[i].thread] /\ UNCHANGED gaveUp
     ELSE IF collapse /\ job[h] \notin Roots
     THEN Goto(h, "wait") /\ UNCHANGED <<at, gaveUp>>
     ELSE StartThread(h, Handlers)
  /\ UNCHANGED <<settings, inbox, messages, db, job, todo, ts, upsets, again, unread, failed>>

\* Seeded fault: a reply waits until its thread is known.
WaitForEver(h) ==
  LET i == ThreadRow(job[h]) IN
  /\ pc[h] = "wait" /\ i # 0
  /\ Goto(h, "reply") /\ at' = [at EXCEPT ![h] = threads[i].thread]
  /\ UNCHANGED <<settings, inbox, messages, db, job, todo, ts, upsets, ghosts>>

\* After each of three pauses the thread is looked up; then the reply goes alone.
Wait(h) ==
  LET i == ThreadRow(job[h]) IN
  /\ pc[h] = "wait"
  /\ IF i # 0
     THEN Goto(h, "reply") /\ at' = [at EXCEPT ![h] = threads[i].thread] /\ UNCHANGED gaveUp
     ELSE Goto(h, "start") /\ gaveUp' = gaveUp \cup {Root[job[h]]} /\ UNCHANGED at
  /\ UNCHANGED <<settings, inbox, messages, db, job, todo, ts, upsets, again, unread, failed>>

InThread(h) ==
  /\ pc[h] = "reply"
  /\ Post(h, job[h], at[h]) /\ Goto(h, "mapMessage")
  /\ UNCHANGED <<settings, inbox, db, job, todo, at, upsets, ghosts>>

\* The thread is gone from Slack: the reply is posted as a new message.
ThreadGone(h) ==
  /\ pc[h] = "reply"
  /\ Upset
  /\ Goto(h, "start") /\ at' = [at EXCEPT ![h] = 0]
  /\ gaveUp' = gaveUp \cup {Root[job[h]]}
  /\ UNCHANGED <<settings, inbox, messages, db, job, todo, ts, again, unread, failed>>

-----------------------------------------------------------------------------
\* Both handlers: post a comment that starts or joins a thread, map both.

StartPost(h) ==
  /\ pc[h] = "start"
  /\ Post(h, Subject(h), at[h]) /\ Goto(h, "lookThread")
  /\ UNCHANGED <<settings, inbox, db, job, todo, at, upsets, ghosts>>

LookThread(h) ==
  /\ pc[h] = "lookThread"
  /\ Goto(h, IF ThreadRow(Subject(h)) = 0 THEN "addThread" ELSE "mapMessage")
  /\ UNCHANGED <<settings, inbox, messages, db, locals, upsets, ghosts>>

\* Seeded fault: a reply's own id is recorded as its thread's.
AddThreadOwn(h) ==
  /\ pc[h] = "addThread"
  /\ threads' = Append(threads, [root |-> Subject(h), thread |-> Continues(h)])
  /\ Goto(h, "mapMessage")
  /\ UNCHANGED <<settings, inbox, messages, rows, locals, upsets, ghosts>>

AddThread(h) ==
  /\ pc[h] = "addThread"
  /\ threads' = Append(threads, [root |-> Root[Subject(h)], thread |-> Continues(h)])
  /\ Goto(h, "mapMessage")
  /\ UNCHANGED <<settings, inbox, messages, rows, locals, upsets, ghosts>>

MapMessage(h) ==
  /\ pc[h] = "mapMessage"
  /\ MapMessageRow(h)
  /\ IF job[h] = 0
     THEN /\ Goto(h, "next") /\ todo' = [todo EXCEPT ![h] = Tail(@)]
          /\ ts' = [ts EXCEPT ![h] = 0] /\ UNCHANGED <<job, at>>
     ELSE Done(h)
  /\ UNCHANGED <<settings, inbox, messages, threads, upsets, ghosts>>

\* A call raises, or the process ends.  A comment posted but not yet mapped will
\* be posted again if its event or the review's comes again.
Die(h) ==
  /\ pc[h] # "idle"
  /\ Upset
  /\ failed' = failed \cup {job[h]}
  /\ again' = again \cup {s \in {Subject(h)} : ts[h] # 0}
  /\ Done(h)
  /\ UNCHANGED <<settings, inbox, messages, db, unread, gaveUp>>

-----------------------------------------------------------------------------
Step(h) ==
  \/ ReceiveReview(h) \/ Summary(h) \/ MapSummary(h)
  \/ List(h) \/ SayMissing(h) \/ NextComment(h)
  \/ ReceiveComment(h) \/ Read(h) \/ Find(h) \/ Wait(h) \/ InThread(h)
  \/ StartPost(h) \/ LookThread(h) \/ AddThread(h) \/ MapMessage(h)

Next ==
  \/ \E e \in Comments \cup {0} : Redeliver(e)
  \/ \E h \in Handlers :
       \/ Step(h)
       \/ SummaryFails(h) \/ ListFails(h) \/ ReadFails(h) \/ ThreadGone(h) \/ Die(h)

\* The event loop runs every handler that can run.  Nothing makes a
\* call fail, a process end or an event come again.
Spec == Init /\ [][Next]_vars /\ \A h \in Handlers : WF_vars(Step(h))

-----------------------------------------------------------------------------
ShownBy(s) == {m \in DOMAIN messages : messages[m].shows = s}
Noted == ShownBy(Note) # {}
ThreadOf(m) == IF messages[m].thread # 0 \/ stacked THEN messages[m].thread ELSE m
Quiet == \A h \in Handlers : pc[h] = "idle"

\* The summary and every comment are shown at most once, whichever of the two
\* handlers posts a comment and in whatever order the events come.  again: what
\* was delivered twice, or posted by a handler that ended before it could say
\* so.  unread: the comments whose handler could not read the review when the
\* review's handler had posted them, or was to.
ShownOnce ==
  \A s \in (Comments \cup {0}) \ (again \cup unread) : Cardinality(ShownBy(s)) <= 1

\* "When the review cannot be read, the comment is posted on its own; the review
\* handler then skips it, so it appears once either way" (sync_service.py:306).
\* Not when the review's handler was first: a comment's own handler posts it
\* without looking whether it has a message.
OnceEitherWay ==
  \A s \in (Comments \cup {0}) \ again : Cardinality(ShownBy(s)) <= 1

\* A comment its own handler leaves to the review's is not lost between them:
\* when nothing is under way it is shown, or Slack says that comments are
\* missing.  Not if a handler that was to show it died and did not run again.
NoneLost ==
  Quiet /\ inbox = {} =>
    \A c \in Comments :
      ShownBy(c) # {} \/ Noted \/ c \in failed \/ (c \in Roots /\ Collapses /\ 0 \in failed)

\* The comments of one GitHub thread are in one Slack thread, whichever of them
\* came first.  gaveUp: the threads whose reply waited in vain or found its
\* Slack thread gone, or that two handlers started together.
OneThread ==
  \A c \in Comments :
    LET r == Root[c] IN
    /\ r \notin gaveUp /\ {c, r} \cap (again \cup unread \cup failed) = {} /\ 0 \notin failed
    => \A m \in ShownBy(c), n \in ShownBy(r) : ThreadOf(m) = ThreadOf(n)

\* What is answered in a Slack thread goes to a GitHub thread only when all the
\* comments shown there belong to it.
AnswersRight ==
  Quiet /\ again \cup unread \cup failed \cup gaveUp = {} =>
    \A t \in DOMAIN messages :
      AnswersTo(t) # 0 =>
        \A c \in Comments : \A m \in ShownBy(c) : ThreadOf(m) = t => Root[c] = AnswersTo(t)

\* Every comment is shown or reported missing in the end, unless the
\* handler that was to show it died: the waiting of replies for their thread and
\* of comments for their review never blocks for good.
CommentsArrive ==
  <>[](\A c \in Comments : ShownBy(c) # {} \/ Noted \/ failed \cap {0, c} # {})
=============================================================================
