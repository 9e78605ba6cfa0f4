--------------------------- MODULE ReviewSyncProofs ---------------------------
(***************************************************************************)
(* A review's comments are each shown once, none is lost, and those of one *)
(* GitHub thread share a Slack thread, for any number of comments, threads,*)
(* handlers, failures and redeliveries (ReviewSync).                       *)
(***************************************************************************)
EXTENDS ReviewSync, TLAPS, FiniteSetTheorems, WellFoundedInduction

(* The inductive invariant *)

Steps ==
  {"idle", "summary", "mapSummary", "list", "note", "next", "read", "find", "wait",
   "reply", "start", "lookThread", "addThread", "mapMessage"}

\* The awaits of the review's handler alone, of a comment's alone, of both; and
\* those of a handler that has posted and not yet said so.
ReviewSteps == {"summary", "mapSummary", "list", "note", "next"}
CommentSteps == {"read", "find", "wait", "reply"}
PostSteps == {"start", "lookThread", "addThread", "mapMessage"}
Posted == {"mapSummary", "lookThread", "addThread", "mapMessage"}

Messages == [shows : Comments \cup {0, Note}, thread : Nat]
ThreadRows == [root : Roots, thread : Nat]
MessageRows == [shows : Comments \cup {0}, ts : Nat]

Typed ==
  /\ {collapse, stacked} \subseteq BOOLEAN /\ review \in {"text", "verdict", "bare"}
  /\ inbox \subseteq Comments \cup {0} /\ upsets \in 0..MaxUpsets
  /\ messages \in Seq(Messages) /\ threads \in Seq(ThreadRows) /\ rows \in Seq(MessageRows)
  /\ pc \in [Handlers -> Steps] /\ job \in [Handlers -> Comments \cup {0}]
  /\ todo \in [Handlers -> Seq(Roots)]
  /\ at \in [Handlers -> Nat] /\ ts \in [Handlers -> Nat]
  /\ again \subseteq Comments \cup {0} /\ unread \subseteq Roots /\ gaveUp \subseteq Roots
  /\ failed \subseteq Comments \cup {0}

\* Threads and rows name messages that are there, a row one that shows its
\* comment; only a stacked pull request has thread 0.
Backed ==
  /\ \A m \in DOMAIN messages : messages[m].thread < m
  /\ \A m \in DOMAIN messages : stacked => messages[m].thread = 0
  /\ \A i \in DOMAIN threads :
       threads[i].thread <= Len(messages) /\ (threads[i].thread = 0 <=> stacked)
  /\ \A i \in DOMAIN rows :
       rows[i].ts \in DOMAIN messages /\ messages[rows[i].ts].shows = rows[i].shows

\* What a handler has in its variables at each of its awaits.
LocalOK(h) ==
  /\ at[h] <= Len(messages) /\ ts[h] <= Len(messages)
  /\ stacked => at[h] = 0
  /\ pc[h] = "idle" => job[h] = 0 /\ at[h] = 0
  /\ pc[h] \in ReviewSteps => job[h] = 0
  /\ pc[h] \in CommentSteps => job[h] # 0
  /\ pc[h] = "read" => job[h] \in Roots /\ collapse
  /\ pc[h] \in {"list", "next", "note"} => Collapses
  /\ pc[h] \in PostSteps => job[h] # 0 \/ todo[h] # <<>>
  /\ todo[h] # <<>> => job[h] = 0 /\ Collapses /\ pc[h] \in PostSteps \cup {"next"}
  /\ pc[h] = "reply" /\ at[h] = 0 => stacked
  /\ ts[h] # 0 <=> pc[h] \in Posted
  /\ ts[h] # 0 => messages[ts[h]].shows = Subject(h)
  /\ pc[h] \in {"lookThread", "addThread"} => messages[ts[h]].thread = at[h]

Locals == \A h \in Handlers : LocalOK(h)

\* Nobody is forgotten: an event is to come, at work on or failed, or it has
\* led to a message, or a comment is left to the review's handler.
InTodo(h, r) == \E i \in DOMAIN todo[h] : todo[h][i] = r
Through(e) ==
  IF e = 0 THEN Collapses => Noted \/ \A r \in Roots : ShownBy(r) # {}
  ELSE ShownBy(e) # {} \/ (e \in Roots /\ Collapses)
Accounted ==
  /\ \A h \in Handlers : pc[h] \in PostSteps \cup {"next"} /\ job[h] = 0 =>
       \A r \in Roots : InTodo(h, r) \/ ShownBy(r) # {}
  /\ \A e \in Comments \cup {0} : e \in inbox \/ Busy(e) \/ e \in failed \/ Through(e)

\* A handler at work on an event, and one that is about to post the comment s or
\* has posted it.
On(h, e) == pc[h] # "idle" /\ job[h] = e
Holds(h, s) == pc[h] \notin {"idle", "read", "list", "note", "next"} /\ Subject(h) = s

\* An event that did not come twice is in one place.
Counted(e) == IF e = 0 THEN ~(Roots \cup {0} \subseteq again) ELSE e \notin again
Events ==
  \A e \in Comments \cup {0} : Counted(e) =>
    /\ \A g, h \in Handlers : On(g, e) /\ On(h, e) => g = h
    /\ e \in inbox => ~Busy(e)

\* What nobody else posts is not shown before its handler has begun.
Untouched ==
  \A c \in Comments \ again :
    /\ ~(c \in Roots /\ Collapses)
    /\ c \in inbox \/ \E h \in Handlers : On(h, c) /\ pc[h] = "read"
    => ShownBy(c) = {}

\* As long as the review can be read, its handler and that of a comment it is
\* to post do not both post.
Apart ==
  \A c \in Roots \ (again \cup unread) :
    Collapses /\ Busy(0) => \A h \in Handlers : On(h, c) => pc[h] = "read"

\* One handler posts s, and what it posted it records.
Single(s) ==
  /\ \A g, h \in Handlers : Holds(g, s) /\ Holds(h, s) => g = h
  /\ \A h \in Handlers : Holds(h, s) /\ ts[h] = 0 => ShownBy(s) = {}
  /\ \A m, n \in ShownBy(s) : m = n
  /\ ShownBy(s) # {} => Mapped(s) # {} \/ \E h \in Handlers : Holds(h, s) /\ ts[h] # 0

Singles == \A s \in (Comments \cup {0}) \ (again \cup unread) : Single(s)

\* One Slack thread for a GitHub thread: one row, or one handler that starts it.
Starter(h, r) == pc[h] \in {"start", "lookThread", "addThread"} /\ Root[Subject(h)] = r
Row(i, r) == i \in DOMAIN threads /\ threads[i].root = r
InRow(m, r) == \E i \in DOMAIN threads : Row(i, r) /\ ThreadOf(m) = threads[i].thread
Agreed(r) ==
  /\ \A i, j \in DOMAIN threads : Row(i, r) /\ Row(j, r) => i = j
  /\ \A g, h \in Handlers : Starter(g, r) /\ Starter(h, r) => g = h
  /\ \A h \in Handlers, i \in DOMAIN threads : ~(Starter(h, r) /\ Row(i, r))
  /\ \A h \in Handlers : pc[h] = "reply" /\ Root[job[h]] = r =>
       \E i \in DOMAIN threads : Row(i, r) /\ threads[i].thread = at[h]
  /\ \A m \in DOMAIN messages :
       messages[m].shows \in Comments \ again /\ Root[messages[m].shows] = r =>
         InRow(m, r) \/ \E h \in Handlers : Starter(h, r) /\ ts[h] = m
  /\ Collapses =>
       /\ \A i \in DOMAIN threads : Row(i, r) => ShownBy(r) # {}
       /\ \A h \in Handlers : Starter(h, r) => Subject(h) = r

Agreements == \A r \in Roots \ (gaveUp \cup again \cup unread) : Agreed(r)

IInv ==
  /\ Typed /\ Backed /\ Locals
  /\ Accounted /\ Events /\ Untouched /\ Apart /\ Singles /\ Agreements

-----------------------------------------------------------------------------
(* What the invariant says *)

LEMMA Types == Typed /\ Backed /\ Locals => TypeOK
  <1>. SUFFICES ASSUME Typed, Backed, Locals PROVE TypeOK
    OBVIOUS
  <1>0. /\ \A m \in DOMAIN messages : messages[m] \in Messages
        /\ \A i \in DOMAIN threads : threads[i] \in ThreadRows
        /\ \A i \in DOMAIN rows : rows[i] \in MessageRows
        /\ DOMAIN messages = 1..Len(messages) /\ Len(messages) \in Nat
    BY DEF Typed
  <1>1. \A m \in DOMAIN messages :
          messages[m].shows \in Comments \cup {0, Note} /\ messages[m].thread \in 0..(m - 1)
    BY <1>0 DEF Backed, Messages
  <1>2. \A i \in DOMAIN threads :
          threads[i].root \in Roots /\ threads[i].thread \in 0..Len(messages)
    BY <1>0 DEF Backed, ThreadRows
  <1>3. \A i \in DOMAIN rows :
          rows[i].shows \in Comments \cup {0} /\ rows[i].ts \in DOMAIN messages
    BY <1>0 DEF Backed, MessageRows
  <1>4. \A h \in Handlers :
          /\ pc[h] \in Steps /\ job[h] \in Comments \cup {0} /\ todo[h] \in Seq(Roots)
          /\ {at[h], ts[h]} \subseteq 0..Len(messages)
    BY DEF Typed, Locals, LocalOK
  <1>. QED BY <1>1, <1>2, <1>3, <1>4 DEF Typed, TypeOK, Steps

LEMMA Once == Singles => ShownOnce
  <1>. SUFFICES ASSUME Singles, NEW s \in (Comments \cup {0}) \ (again \cup unread)
                PROVE  Cardinality(ShownBy(s)) <= 1
    BY DEF ShownOnce
  <1>1. CASE ShownBy(s) = {}
    BY <1>1, FS_EmptySet
  <1>2. CASE ShownBy(s) # {}
    <2>1. PICK m \in ShownBy(s) : TRUE
      BY <1>2
    <2>2. ShownBy(s) = {m}
      BY <2>1 DEF Singles, Single
    <2>. QED BY <2>2, FS_Singleton
  <1>. QED BY <1>1, <1>2

LEMMA Kept == Accounted => NoneLost
  <1>. SUFFICES ASSUME Accounted, Quiet, inbox = {}, NEW c \in Comments
                PROVE  \/ ShownBy(c) # {} \/ Noted \/ c \in failed
                       \/ c \in Roots /\ Collapses /\ 0 \in failed
    BY DEF NoneLost
  <1>1. \A e \in Comments \cup {0} : e \in failed \/ Through(e)
    BY DEF Accounted, Quiet, Busy
  <1>2. c # 0
    BY ReviewSyncAssumption
  <1>. QED BY <1>1, <1>2 DEF Through

\* Two messages of a thread are in its row's Slack thread, or are the one its
\* starter has posted.
LEMMA Together == Typed /\ Agreements => OneThread
  <1>. SUFFICES ASSUME Typed, Agreements, NEW c \in Comments,
                       Root[c] \notin gaveUp,
                       {c, Root[c]} \cap (again \cup unread \cup failed) = {},
                       NEW m \in ShownBy(c), NEW n \in ShownBy(Root[c])
                PROVE  ThreadOf(m) = ThreadOf(n)
    BY DEF OneThread
  <1>1. Root[c] \in Roots /\ Root[c] \in Comments /\ Root[Root[c]] = Root[c]
    BY ReviewSyncAssumption DEF Roots
  <1>2. Agreed(Root[c])
    BY <1>1 DEF Agreements
  <1>. DEFINE r == Root[c]
  <1>3. /\ InRow(m, r) \/ \E h \in Handlers : Starter(h, r) /\ ts[h] = m
        /\ InRow(n, r) \/ \E h \in Handlers : Starter(h, r) /\ ts[h] = n
    BY <1>1, <1>2 DEF Agreed, ShownBy
  <1>. QED BY <1>2, <1>3 DEF Agreed, InRow

LEMMA Answered == Typed /\ Agreements => AnswersRight
  <1>. SUFFICES ASSUME Typed, Agreements, Quiet,
                       again \cup unread \cup failed \cup gaveUp = {},
                       NEW t \in DOMAIN messages, AnswersTo(t) # 0,
                       NEW c \in Comments, NEW m \in ShownBy(c), ThreadOf(m) = t
                PROVE  Root[c] = AnswersTo(t)
    BY DEF AnswersRight
  <1>. DEFINE found == {i \in DOMAIN threads : threads[i].thread = t}
  <1>1. Cardinality(found) = 1 /\ AnswersTo(t) = threads[Min(found)].root
    BY DEF AnswersTo
  <1>2. PICK i \in DOMAIN threads : Row(i, Root[c]) /\ threads[i].thread = t
    <2>1. Root[c] \in Roots /\ Agreed(Root[c])
      BY ReviewSyncAssumption DEF Agreements, Roots
    <2>2. \A h \in Handlers : ~Starter(h, Root[c])
      BY DEF Quiet, Starter
    <2>. QED BY <2>1, <2>2 DEF Agreed, ShownBy, InRow
  <1>3. \A j \in found : j = i
    <2>1. IsFiniteSet(DOMAIN threads)
      BY FS_Interval DEF Typed
    <2>2. IsFiniteSet(found) /\ i \in found
      BY <1>2, <2>1, FS_Subset
    <2>3. PICK x : found = {x}
      <3>. HIDE DEF found
      <3>. QED BY <1>1, <2>2, FS_Singleton
    <2>. QED BY <2>2, <2>3
  <1>4. Min(found) = i
    <2>1. i \in Nat
      BY DEF Typed
    <2>2. found = {i}
      BY <1>2, <1>3
    <2>. HIDE DEF found
    <2>. QED BY <2>1, <2>2 DEF Min
  <1>. QED BY <1>1, <1>2, <1>4 DEF Row

-----------------------------------------------------------------------------
(* What a step does *)

Others(h) ==
  \A g \in Handlers \ {h} :
    /\ pc'[g] = pc[g] /\ job'[g] = job[g] /\ todo'[g] = todo[g]
    /\ at'[g] = at[g] /\ ts'[g] = ts[g]

\* A handler goes to await p, with the event j, the list t, the thread a and
\* the message s.
Moves(h, p, j, t, a, s) ==
  /\ pc' \in [Handlers -> Steps] /\ job' \in [Handlers -> Comments \cup {0}]
  /\ todo' \in [Handlers -> Seq(Roots)] /\ at' \in [Handlers -> Nat] /\ ts' \in [Handlers -> Nat]
  /\ Others(h)
  /\ pc'[h] = p /\ job'[h] = j /\ todo'[h] = t /\ at'[h] = a /\ ts'[h] = s

Grown ==
  /\ DOMAIN messages \subseteq DOMAIN messages' /\ Len(messages) <= Len(messages')
  /\ \A m \in DOMAIN messages : messages'[m] = messages[m]

\* A message is posted.
Said(x, y) ==
  /\ messages' \in Seq(Messages) /\ Len(messages') = Len(messages) + 1
  /\ DOMAIN messages' = DOMAIN messages \cup {Len(messages) + 1}
  /\ \A m \in DOMAIN messages : messages'[m] = messages[m] /\ m <= Len(messages)
  /\ messages'[Len(messages) + 1] = [shows |-> x, thread |-> y]

LEMMA Facts ==
  Typed =>
    /\ DOMAIN messages = 1..Len(messages) /\ Len(messages) \in Nat
    /\ 0 \notin Comments /\ Note \notin Comments \cup {0} /\ Roots \subseteq Comments
    /\ \A m \in DOMAIN messages :
         messages[m].shows \in Comments \cup {0, Note} /\ messages[m].thread \in Nat
    /\ \A i \in DOMAIN threads : threads[i].root \in Roots /\ threads[i].thread \in Nat
    /\ \A i \in DOMAIN rows : rows[i].shows \in Comments \cup {0} /\ rows[i].ts \in Nat
    /\ \A h \in Handlers :
         /\ pc[h] \in Steps /\ job[h] \in Comments \cup {0}
         /\ todo[h] \in Seq(Roots) /\ at[h] \in Nat /\ ts[h] \in Nat
         /\ Subject(h) \in Comments \cup {0}
         /\ todo[h] # <<>> => Subject(h) \in Roots /\ Subject(h) = Head(todo[h])
         /\ todo[h] = <<>> => Subject(h) = job[h]
  <1>. SUFFICES ASSUME Typed
       PROVE  /\ DOMAIN messages = 1..Len(messages) /\ Len(messages) \in Nat
              /\ 0 \notin Comments /\ Note \notin Comments \cup {0} /\ Roots \subseteq Comments
              /\ \A m \in DOMAIN messages :
                   messages[m].shows \in Comments \cup {0, Note} /\ messages[m].thread \in Nat
              /\ \A i \in DOMAIN threads : threads[i].root \in Roots /\ threads[i].thread \in Nat
              /\ \A i \in DOMAIN rows : rows[i].shows \in Comments \cup {0} /\ rows[i].ts \in Nat
              /\ \A h \in Handlers :
                   /\ pc[h] \in Steps /\ job[h] \in Comments \cup {0}
                   /\ todo[h] \in Seq(Roots) /\ at[h] \in Nat /\ ts[h] \in Nat
                   /\ Subject(h) \in Comments \cup {0}
                   /\ todo[h] # <<>> => Subject(h) \in Roots /\ Subject(h) = Head(todo[h])
                   /\ todo[h] = <<>> => Subject(h) = job[h]
    OBVIOUS
  <1>1. /\ \A m \in DOMAIN messages : messages[m] \in Messages
        /\ \A i \in DOMAIN threads : threads[i] \in ThreadRows
        /\ \A i \in DOMAIN rows : rows[i] \in MessageRows
        /\ DOMAIN messages = 1..Len(messages) /\ Len(messages) \in Nat
    BY DEF Typed
  <1>2. 0 \notin Comments /\ Note \notin Comments \cup {0} /\ Roots \subseteq Comments
    BY ReviewSyncAssumption DEF Note, Roots
  <1>3. \A h \in Handlers :
          /\ pc[h] \in Steps /\ job[h] \in Comments \cup {0}
          /\ todo[h] \in Seq(Roots) /\ at[h] \in Nat /\ ts[h] \in Nat
    BY DEF Typed
  <1>4. \A t \in Seq(Roots) : t # <<>> => Head(t) \in Roots
    OBVIOUS
  <1>. QED BY <1>1, <1>2, <1>3, <1>4 DEF Messages, ThreadRows, MessageRows, Subject

LEMMA Moved ==
  ASSUME Typed, NEW h \in Handlers, NEW p \in Steps, NEW j \in Comments \cup {0},
         NEW t \in Seq(Roots), NEW a \in Nat, NEW s \in Nat,
         pc' = [pc EXCEPT ![h] = p] \/ (pc' = pc /\ pc[h] = p),
         job' = [job EXCEPT ![h] = j] \/ (job' = job /\ job[h] = j),
         todo' = [todo EXCEPT ![h] = t] \/ (todo' = todo /\ todo[h] = t),
         at' = [at EXCEPT ![h] = a] \/ (at' = at /\ at[h] = a),
         ts' = [ts EXCEPT ![h] = s] \/ (ts' = ts /\ ts[h] = s)
  PROVE  Moves(h, p, j, t, a, s)
  <1>1. pc' \in [Handlers -> Steps] /\ pc'[h] = p /\ \A g \in Handlers \ {h} : pc'[g] = pc[g]
    BY DEF Typed
  <1>2. /\ job' \in [Handlers -> Comments \cup {0}] /\ job'[h] = j
        /\ \A g \in Handlers \ {h} : job'[g] = job[g]
    BY DEF Typed
  <1>3. /\ todo' \in [Handlers -> Seq(Roots)] /\ todo'[h] = t
        /\ \A g \in Handlers \ {h} : todo'[g] = todo[g]
    BY DEF Typed
  <1>4. at' \in [Handlers -> Nat] /\ at'[h] = a /\ \A g \in Handlers \ {h} : at'[g] = at[g]
    BY DEF Typed
  <1>5. ts' \in [Handlers -> Nat] /\ ts'[h] = s /\ \A g \in Handlers \ {h} : ts'[g] = ts[g]
    BY DEF Typed
  <1>. QED BY <1>1, <1>2, <1>3, <1>4, <1>5 DEF Moves, Others

LEMMA MessageAdded ==
  ASSUME Typed, NEW x \in Comments \cup {0, Note}, NEW y \in Nat,
         messages' = Append(messages, [shows |-> x, thread |-> y])
  PROVE  Said(x, y) /\ Grown
  <1>1. messages \in Seq(Messages) /\ [shows |-> x, thread |-> y] \in Messages
    BY DEF Typed, Messages
  <1>2. PICK e : e = [shows |-> x, thread |-> y] /\ e \in Messages
    BY <1>1
  <1>3. messages' = Append(messages, e)
    BY <1>2
  <1>4. /\ messages' \in Seq(Messages) /\ Len(messages') = Len(messages) + 1
        /\ DOMAIN messages' = DOMAIN messages \cup {Len(messages) + 1}
        /\ \A m \in DOMAIN messages : messages'[m] = messages[m] /\ m <= Len(messages)
        /\ messages'[Len(messages) + 1] = e /\ Len(messages) \in Nat
    BY ONLY <1>1, <1>2, <1>3
  <1>. QED BY <1>2, <1>4 DEF Said, Grown

\* What is shown stays shown; what is posted is shown as well.
LEMMA ShownStays == Grown => \A s : ShownBy(s) \subseteq ShownBy(s)'
BY DEF Grown, ShownBy

LEMMA ShownMore ==
  ASSUME Typed, NEW x, NEW y, Said(x, y)
  PROVE  /\ \A s : s # x => ShownBy(s)' = ShownBy(s)
         /\ ShownBy(x)' = ShownBy(x) \cup {Len(messages) + 1}
  <1>1. messages'[Len(messages) + 1].shows = x
    BY DEF Said
  <1>. QED BY <1>1 DEF Said, ShownBy

LEMMA RowAdded ==
  ASSUME Typed, NEW e \in MessageRows, rows' = Append(rows, e)
  PROVE  /\ rows' \in Seq(MessageRows) /\ DOMAIN rows' = DOMAIN rows \cup {Len(rows) + 1}
         /\ \A i \in DOMAIN rows : rows'[i] = rows[i]
         /\ rows'[Len(rows) + 1] = e
  <1>1. rows \in Seq(MessageRows)
    BY DEF Typed
  <1>. QED BY ONLY <1>1, rows' = Append(rows, e), e \in MessageRows

LEMMA ThreadAdded ==
  ASSUME Typed, NEW e \in ThreadRows, threads' = Append(threads, e)
  PROVE  /\ threads' \in Seq(ThreadRows)
         /\ DOMAIN threads' = DOMAIN threads \cup {Len(threads) + 1}
         /\ \A i \in DOMAIN threads : threads'[i] = threads[i]
         /\ threads'[Len(threads) + 1] = e /\ Len(threads) + 1 \notin DOMAIN threads
  <1>1. threads \in Seq(ThreadRows)
    BY DEF Typed
  <1>. QED BY ONLY <1>1, threads' = Append(threads, e), e \in ThreadRows

LEMMA MinInside ==
  ASSUME NEW S \in SUBSET Nat, S # {}
  PROVE  Min(S) \in S
  <1>. DEFINE R == {p \in Nat \X Nat : p[1] < p[2]}
  <1>1. IsWellFoundedOn(R, Nat)
    BY NatLessThanWellFounded DEF OpToRel
  <1>. HIDE DEF R
  <1>2. PICK x \in S : \A y \in S : <<y, x>> \notin R
    BY <1>1, WFMin
  <1>3. ASSUME NEW y \in S PROVE x <= y
    <2>1. x \in Nat /\ y \in Nat /\ <<y, x>> \notin R
      BY <1>2
    <2>2. y < x => <<y, x>> \in R
      BY <2>1 DEF R
    <2>. QED BY <2>1, <2>2
  <1>. QED BY <1>3 DEF Min

LEMMA ThreadRowIs ==
  ASSUME Typed, NEW c
  PROVE  /\ ThreadRow(c) # 0 => ThreadRow(c) \in DOMAIN threads /\ Row(ThreadRow(c), Root[c])
         /\ ThreadRow(c) = 0 => \A i \in DOMAIN threads : ~Row(i, Root[c])
  <1>. DEFINE found == {i \in DOMAIN threads : threads[i].root = Root[c]}
  <1>1. DOMAIN threads \subseteq Nat /\ 0 \notin DOMAIN threads
    BY DEF Typed
  <1>2. found # {} => Min(found) \in found
    <2>1. found \in SUBSET Nat
      BY <1>1
    <2>. HIDE DEF found
    <2>. QED BY <2>1, MinInside
  <1>3. ThreadRow(c) = IF found = {} THEN 0 ELSE Min(found)
    BY DEF ThreadRow
  <1>. QED BY <1>1, <1>2, <1>3 DEF Row

-----------------------------------------------------------------------------
(* What a handler's step keeps *)

LEMMA LocalsKept ==
  ASSUME Typed, Locals, Typed', NEW h \in Handlers, Others(h), Grown, UNCHANGED settings,
         LocalOK(h)'
  PROVE  Locals'
  <1>. SUFFICES ASSUME NEW g \in Handlers \ {h} PROVE LocalOK(g)'
    BY DEF Locals
  <1>1. /\ pc'[g] = pc[g] /\ job'[g] = job[g] /\ todo'[g] = todo[g]
        /\ at'[g] = at[g] /\ ts'[g] = ts[g] /\ LocalOK(g)
    BY DEF Others, Locals
  <1>2. /\ Subject(g)' = Subject(g) /\ Collapses' = Collapses
        /\ stacked' = stacked /\ collapse' = collapse
    BY <1>1 DEF Subject, Collapses, settings
  <1>3. ts[g] # 0 => messages'[ts[g]] = messages[ts[g]]
    BY <1>1, Facts DEF LocalOK, Grown
  <1>4. at[g] <= Len(messages') /\ ts[g] <= Len(messages')
    <2>1. at[g] \in Nat /\ ts[g] \in Nat /\ Len(messages) \in Nat /\ Len(messages') \in Nat
      BY Facts DEF Typed
    <2>. QED BY <1>1, <2>1 DEF LocalOK, Grown
  <1>. QED BY <1>1, <1>2, <1>3, <1>4 DEF LocalOK, PostSteps, Posted

\* It lists what is not shown, and leaves an event only when it is dealt with.
AccountStep(h) ==
  /\ pc'[h] \in PostSteps \cup {"next"} /\ job'[h] = 0 =>
       \A r \in Roots : InTodo(h, r)' \/ ShownBy(r)' # {}
  /\ \A e \in Comments \cup {0} :
       /\ e \in inbox => e \in inbox' \/ On(h, e)' \/ Through(e)'
       /\ On(h, e) => On(h, e)' \/ e \in failed' \/ Through(e)'
       /\ e \in failed => e \in failed' \/ Through(e)'

LEMMA AccountedKept ==
  ASSUME Typed, Accounted, NEW h \in Handlers, Others(h), UNCHANGED settings, Grown,
         AccountStep(h)
  PROVE  Accounted'
  <1>. USE DEF AccountStep
  <1>1. \A s : ShownBy(s) \subseteq ShownBy(s)'
    BY ShownStays
  <1>2. \A e : Through(e) => Through(e)'
    BY <1>1 DEF Through, Noted, settings, Collapses
  <1>3. ASSUME NEW g \in Handlers, pc'[g] \in PostSteps \cup {"next"}, job'[g] = 0, NEW r \in Roots
        PROVE  InTodo(g, r)' \/ ShownBy(r)' # {}
    <2>1. CASE g # h
      BY <1>1, <1>3, <2>1 DEF Others, Accounted, InTodo
    <2>. QED BY <1>3, <2>1
  <1>4. ASSUME NEW e \in Comments \cup {0}
        PROVE  e \in inbox' \/ Busy(e)' \/ e \in failed' \/ Through(e)'
    <2>1. CASE \E g \in Handlers \ {h} : On(g, e)
      BY <2>1 DEF Others, On, Busy
    <2>2. On(h, e)' => Busy(e)'
      BY DEF On, Busy
    <2>3. Busy(e) => \E g \in Handlers : On(g, e)
      BY DEF On, Busy
    <2>. QED BY <1>2, <2>1, <2>2, <2>3 DEF Accounted
  <1>. QED BY <1>3, <1>4 DEF Accounted

\* It is at work on what it was, or on what it takes from the inbox.
EventStep(h) ==
  /\ inbox' \subseteq inbox /\ again \subseteq again'
  /\ \A e \in Comments \cup {0} : On(h, e)' => On(h, e) \/ e \in inbox \ inbox'

LEMMA EventsKept ==
  ASSUME Typed, Events, NEW h \in Handlers, Others(h), EventStep(h)
  PROVE  Events'
  <1>. USE DEF EventStep
  <1>1. \A e : Counted(e)' => Counted(e)
    BY DEF Counted
  <1>2. \A g \in Handlers \ {h} : \A e : On(g, e)' <=> On(g, e)
    BY DEF Others, On
  <1>3. ASSUME NEW e \in Comments \cup {0}, Counted(e)'
        PROVE  /\ \A f, g \in Handlers : On(f, e)' /\ On(g, e)' => f = g
               /\ e \in inbox' => ~Busy(e)'
    <2>1. /\ \A f, g \in Handlers : On(f, e) /\ On(g, e) => f = g
          /\ e \in inbox => \A g \in Handlers : ~On(g, e)
      BY <1>1, <1>3 DEF Events, Busy, On
    <2>2. e \in inbox' => \A g \in Handlers : ~On(g, e)'
      BY <1>2, <2>1
    <2>. QED BY <1>2, <2>1, <2>2 DEF Busy, On
  <1>. QED BY <1>3 DEF Events

\* It begins with what nobody has shown, and shows what it is past beginning.
UntouchedStep(h) ==
  /\ \A c \in Comments : On(h, c)' /\ pc'[h] = "read" => c \in inbox
  /\ \A c \in Comments :
       \/ ShownBy(c)' = ShownBy(c)
       \/ c = Subject(h) /\ pc[h] \notin {"idle", "read"} /\ pc'[h] # "read"

LEMMA UntouchedKept ==
  ASSUME Typed, Events, Untouched, Locals, NEW h \in Handlers, Others(h), EventStep(h),
         UNCHANGED settings, UntouchedStep(h)
  PROVE  Untouched'
  <1>. USE DEF EventStep, UntouchedStep
  <1>. SUFFICES ASSUME NEW c \in Comments \ again', ~(c \in Roots /\ Collapses)',
                       c \in inbox' \/ \E g \in Handlers : On(g, c)' /\ pc'[g] = "read"
                PROVE  ShownBy(c)' = {}
    BY DEF Untouched
  <1>1. ~(c \in Roots /\ Collapses) /\ c \in Comments \ again /\ c # 0
    BY Facts DEF settings, Collapses
  <1>2. c \in inbox \/ \E g \in Handlers \ {h} : On(g, c) /\ pc[g] = "read"
    BY DEF Others, On
  <1>3. ShownBy(c) = {}
    BY <1>1, <1>2 DEF Untouched
  <1>4. ~(c = Subject(h) /\ pc[h] \notin {"idle", "read"})
    <2>1. Counted(c)
      BY <1>1 DEF Counted
    <2>2. c = Subject(h) => job[h] = c
      BY <1>1, Facts DEF Locals, LocalOK
    <2>. QED BY <1>2, <2>1, <2>2 DEF Events, On, Busy
  <1>. QED BY <1>3, <1>4

\* The two kinds of handler take up a comment of the review only one without the
\* other.
ApartStep(h) ==
  /\ again \subseteq again' /\ unread \subseteq unread'
  /\ On(h, 0)' => \/ On(h, 0)
                  \/ Collapses => \A g \in Handlers :
                       job[g] \in Roots /\ pc[g] \notin {"idle", "read"} => job[g] \in unread'
  /\ \A c \in Roots \ (again' \cup unread') :
       On(h, c)' /\ Collapses => pc'[h] = "read" \/ (On(h, c) /\ pc[h] # "read") \/ ~Busy(0)

LEMMA ApartKept ==
  ASSUME Typed, Apart, NEW h \in Handlers, Others(h), UNCHANGED settings, ApartStep(h)
  PROVE  Apart'
  <1>. USE DEF ApartStep
  <1>. SUFFICES ASSUME NEW c \in Roots \ (again' \cup unread'), Collapses', Busy(0)',
                       NEW g \in Handlers, On(g, c)', pc'[g] # "read"
                PROVE  FALSE
    BY DEF Apart
  <1>1. c \in Roots \ (again \cup unread) /\ Collapses /\ c # 0
    BY Facts DEF settings, Collapses
  <1>2. \A f \in Handlers \ {h} : \A e : On(f, e)' <=> On(f, e)
    BY DEF Others, On
  <1>3. CASE Busy(0)
    <2>1. \A f \in Handlers : On(f, c) => pc[f] = "read"
      BY <1>1, <1>3 DEF Apart
    <2>. QED BY <1>1, <1>2, <1>3, <2>1 DEF Others
  <1>4. CASE ~Busy(0)
    <2>1. On(h, 0)' /\ ~On(h, 0) /\ g # h
      BY <1>1, <1>2, <1>4 DEF Busy, On
    <2>2. On(g, c) /\ pc[g] # "read"
      BY <1>2, <2>1 DEF Others
    <2>. QED BY <1>1, <2>1, <2>2 DEF On
  <1>. QED BY <1>3, <1>4

\* A step that shows no comment and adds no row of one: the handler may begin to
\* hold what nobody holds and nothing shows, and does not let go of what it posted.
SingleStep(h) ==
  /\ again \subseteq again' /\ unread \subseteq unread'
  /\ \A s \in (Comments \cup {0}) \ (again' \cup unread') :
       /\ Holds(h, s)' => \/ Holds(h, s) /\ (ts'[h] = 0 <=> ts[h] = 0)
                          \/ /\ ts'[h] = 0 /\ ShownBy(s) = {}
                             /\ \A g \in Handlers \ {h} : ~Holds(g, s)
       /\ Holds(h, s) /\ ts[h] # 0 => Holds(h, s)' /\ ts'[h] # 0

LEMMA SinglesQuiet ==
  ASSUME Typed, Singles, NEW h \in Handlers, Others(h), rows' = rows,
         \A s \in Comments \cup {0} : ShownBy(s)' = ShownBy(s),
         SingleStep(h)
  PROVE  Singles'
  <1>. USE DEF SingleStep
  <1>. SUFFICES ASSUME NEW s \in (Comments \cup {0}) \ (again' \cup unread') PROVE Single(s)'
    BY DEF Singles
  <1>1. Single(s)
    BY DEF Singles
  <1>2. \A g \in Handlers \ {h} : (Holds(g, s)' <=> Holds(g, s)) /\ ts'[g] = ts[g]
    BY DEF Others, Holds, Subject
  <1>3. ShownBy(s)' = ShownBy(s) /\ Mapped(s)' = Mapped(s)
    BY DEF Mapped
  <1>4. \A f, g \in Handlers : Holds(f, s)' /\ Holds(g, s)' => f = g
    BY <1>1, <1>2 DEF Single
  <1>5. \A g \in Handlers : Holds(g, s)' /\ ts'[g] = 0 => ShownBy(s) = {}
    BY <1>1, <1>2 DEF Single
  <1>6. ShownBy(s) # {} => Mapped(s) # {} \/ \E g \in Handlers : Holds(g, s)' /\ ts'[g] # 0
    BY <1>1, <1>2 DEF Single
  <1>7. \A m, n \in ShownBy(s) : m = n
    BY <1>1 DEF Single
  <1>. QED BY <1>3, <1>4, <1>5, <1>6, <1>7 DEF Single

\* A handler posts what it holds.
LEMMA SinglesPosted ==
  ASSUME Typed, Singles, NEW h \in Handlers, Others(h),
         again' = again, unread' = unread, rows' = rows,
         NEW y, Said(Subject(h), y), Holds(h, Subject(h)), ts[h] = 0,
         ts'[h] # 0, \A s : Holds(h, s)' <=> Holds(h, s)
  PROVE  Singles'
  <1>. SUFFICES ASSUME NEW s \in (Comments \cup {0}) \ (again \cup unread) PROVE Single(s)'
    BY DEF Singles
  <1>1. Single(s)
    BY DEF Singles
  <1>2. \A g \in Handlers \ {h} : (Holds(g, s)' <=> Holds(g, s)) /\ ts'[g] = ts[g]
    BY DEF Others, Holds, Subject
  <1>3. Mapped(s)' = Mapped(s)
    BY DEF Mapped
  <1>4. \A f, g \in Handlers : Holds(f, s)' /\ Holds(g, s)' => f = g
    BY <1>1, <1>2 DEF Single
  <1>5. CASE s = Subject(h)
    <2>1. ShownBy(s)' = {Len(messages) + 1}
      BY <1>1, <1>5, ShownMore DEF Single
    <2>. QED BY <1>1, <1>2, <1>3, <1>4, <1>5, <2>1 DEF Single
  <1>6. CASE s # Subject(h)
    <2>1. ShownBy(s)' = ShownBy(s) /\ ~Holds(h, s) /\ ~Holds(h, s)'
      BY <1>6, ShownMore DEF Holds
    <2>. QED BY <1>1, <1>2, <1>3, <1>4, <2>1 DEF Single
  <1>. QED BY <1>5, <1>6

\* A handler maps what it has posted.
LEMMA SinglesMapped ==
  ASSUME Typed, Singles, NEW h \in Handlers, Others(h),
         again' = again, unread' = unread, messages' = messages,
         Holds(h, Subject(h)), \A s : ~Holds(h, s)',
         rows' = Append(rows, [shows |-> Subject(h), ts |-> ts[h]])
  PROVE  Singles'
  <1>. SUFFICES ASSUME NEW s \in (Comments \cup {0}) \ (again \cup unread) PROVE Single(s)'
    BY DEF Singles
  <1>1. Single(s)
    BY DEF Singles
  <1>2. \A g \in Handlers \ {h} : (Holds(g, s)' <=> Holds(g, s)) /\ ts'[g] = ts[g]
    BY DEF Others, Holds, Subject
  <1>3. ShownBy(s)' = ShownBy(s)
    BY DEF ShownBy
  <1>4. Mapped(s) \subseteq Mapped(s)' /\ (s = Subject(h) => Mapped(s)' # {})
    <2>1. PICK e \in MessageRows : e = [shows |-> Subject(h), ts |-> ts[h]]
      BY Facts DEF MessageRows
    <2>2. e.shows = Subject(h)
      BY <2>1
    <2>. QED BY <2>1, <2>2, RowAdded DEF Mapped
  <1>5. s # Subject(h) => ~Holds(h, s)
    BY DEF Holds
  <1>. QED BY <1>1, <1>2, <1>3, <1>4, <1>5 DEF Single

\* A step that posts nothing and adds no thread: the handler may begin to start
\* a thread that nobody starts and no row has, and does not let go of what it
\* posted before there is a row.
AgreedStep(h) ==
  /\ again \subseteq again' /\ unread \subseteq unread' /\ gaveUp \subseteq gaveUp'
  /\ \A r \in Roots \ (gaveUp' \cup again' \cup unread') :
       /\ Starter(h, r)' =>
            \/ Starter(h, r) /\ Subject(h)' = Subject(h)
            \/ /\ \A g \in Handlers \ {h} : ~Starter(g, r)
               /\ \A i \in DOMAIN threads : ~Row(i, r)
               /\ Collapses => Subject(h)' = r
       /\ pc'[h] = "reply" /\ Root[job'[h]] = r =>
            \E i \in DOMAIN threads : Row(i, r) /\ threads[i].thread = at'[h]
       /\ Starter(h, r) /\ ts[h] # 0 /\ messages[ts[h]].shows \notin again' =>
            Starter(h, r)' /\ ts'[h] = ts[h]

LEMMA AgreementsQuiet ==
  ASSUME Typed, Agreements, NEW h \in Handlers, Others(h), UNCHANGED <<settings, messages, threads>>,
         AgreedStep(h)
  PROVE  Agreements'
  <1>. USE DEF AgreedStep
  <1>. SUFFICES ASSUME NEW r \in Roots \ (gaveUp' \cup again' \cup unread') PROVE Agreed(r)'
    BY DEF Agreements
  <1>1. Agreed(r)
    BY DEF Agreements
  <1>2. \A g \in Handlers \ {h} :
          /\ Starter(g, r)' <=> Starter(g, r)
          /\ pc'[g] = pc[g] /\ job'[g] = job[g] /\ at'[g] = at[g] /\ ts'[g] = ts[g]
          /\ Subject(g)' = Subject(g)
    BY DEF Others, Starter, Subject
  <1>3. /\ \A i : Row(i, r)' <=> Row(i, r)
        /\ \A m : InRow(m, r)' <=> InRow(m, r)
        /\ ShownBy(r)' = ShownBy(r) /\ Collapses' = Collapses
    BY DEF Row, InRow, ThreadOf, settings, ShownBy, Collapses
  <1>4. \A f, g \in Handlers : Starter(f, r)' /\ Starter(g, r)' => f = g
    BY <1>1, <1>2 DEF Agreed
  <1>5. \A g \in Handlers, i \in DOMAIN threads' : ~(Starter(g, r)' /\ Row(i, r)')
    BY <1>1, <1>2, <1>3 DEF Agreed
  <1>6. \A g \in Handlers : pc'[g] = "reply" /\ Root[job'[g]] = r =>
          \E i \in DOMAIN threads' : Row(i, r)' /\ threads'[i].thread = at'[g]
    BY <1>1, <1>2, <1>3 DEF Agreed
  <1>7. ASSUME NEW m \in DOMAIN messages,
               messages[m].shows \in Comments \ again', Root[messages[m].shows] = r
        PROVE  InRow(m, r)' \/ \E g \in Handlers : Starter(g, r)' /\ ts'[g] = m
    <2>1. m # 0 /\ messages[m].shows \in Comments \ again
      BY <1>7, Facts
    <2>2. CASE InRow(m, r)
      BY <1>3, <2>2
    <2>3. CASE \E g \in Handlers : Starter(g, r) /\ ts[g] = m
      <3>1. PICK g \in Handlers : Starter(g, r) /\ ts[g] = m
        BY <2>3
      <3>. QED BY <3>1, <2>1, <1>2, <1>7
    <2>. QED BY <1>1, <1>7, <2>1, <2>2, <2>3 DEF Agreed
  <1>8. Collapses' => \A g \in Handlers : Starter(g, r)' => Subject(g)' = r
    BY <1>1, <1>2, <1>3 DEF Agreed
  <1>9. Collapses' => \A i \in DOMAIN threads' : Row(i, r)' => ShownBy(r)' # {}
    BY <1>1, <1>3 DEF Agreed
  <1>10. \A i, j \in DOMAIN threads' : Row(i, r)' /\ Row(j, r)' => i = j
    BY <1>1, <1>3 DEF Agreed
  <1>. QED BY <1>4, <1>5, <1>6, <1>7, <1>8, <1>9, <1>10 DEF Agreed

\* A post, by a starter or into a thread that is known.
LEMMA AgreementsPosted ==
  ASSUME Typed, Agreements, NEW h \in Handlers, Others(h), UNCHANGED <<settings, threads>>,
         again' = again, unread' = unread, gaveUp' = gaveUp,
         NEW x, NEW y, Said(x, y), NEW n, n = Len(messages) + 1,
         ts[h] = 0, pc'[h] # "reply", Subject(h)' = Subject(h),
         \A r : Starter(h, r)' <=> Starter(h, r),
         x \in Comments /\ Root[x] \notin gaveUp \cup again \cup unread =>
           \/ Starter(h, Root[x])' /\ ts'[h] = n
           \/ InRow(n, Root[x])'
  PROVE  Agreements'
  <1>. SUFFICES ASSUME NEW r \in Roots \ (gaveUp \cup again \cup unread) PROVE Agreed(r)'
    BY DEF Agreements
  <1>1. Agreed(r)
    BY DEF Agreements
  <1>2. \A g \in Handlers \ {h} :
          /\ Starter(g, r)' <=> Starter(g, r)
          /\ pc'[g] = pc[g] /\ job'[g] = job[g] /\ at'[g] = at[g] /\ ts'[g] = ts[g]
          /\ Subject(g)' = Subject(g)
    BY DEF Others, Starter, Subject
  <1>3. /\ \A i : Row(i, r)' <=> Row(i, r)
        /\ \A m \in DOMAIN messages : InRow(m, r) => InRow(m, r)'
        /\ ShownBy(r) \subseteq ShownBy(r)' /\ Collapses' = Collapses
    BY DEF Row, InRow, ThreadOf, settings, ShownBy, Collapses, Said
  <1>4. \A f, g \in Handlers : Starter(f, r)' /\ Starter(g, r)' => f = g
    BY <1>1, <1>2 DEF Agreed
  <1>5. \A g \in Handlers, i \in DOMAIN threads' : ~(Starter(g, r)' /\ Row(i, r)')
    BY <1>1, <1>2, <1>3 DEF Agreed
  <1>6. \A g \in Handlers : pc'[g] = "reply" /\ Root[job'[g]] = r =>
          \E i \in DOMAIN threads' : Row(i, r)' /\ threads'[i].thread = at'[g]
    BY <1>1, <1>2, <1>3 DEF Agreed
  <1>7. ASSUME NEW m \in DOMAIN messages',
               messages'[m].shows \in Comments \ again, Root[messages'[m].shows] = r
        PROVE  InRow(m, r)' \/ \E g \in Handlers : Starter(g, r)' /\ ts'[g] = m
    <2>1. CASE m \in DOMAIN messages
      <3>1. messages[m] = messages'[m] /\ m # 0
        BY <2>1, Facts DEF Said
      <3>2. InRow(m, r) \/ \E g \in Handlers : Starter(g, r) /\ ts[g] = m
        BY <1>1, <1>7, <2>1, <3>1 DEF Agreed
      <3>. QED BY <1>2, <1>3, <2>1, <3>1, <3>2
    <2>2. CASE m = Len(messages) + 1
      <3>1. messages'[m].shows = x
        BY <2>2 DEF Said
      <3>. QED BY <1>7, <2>2, <3>1
    <2>. QED BY <2>1, <2>2 DEF Said
  <1>8. Collapses' => \A g \in Handlers : Starter(g, r)' => Subject(g)' = r
    BY <1>1, <1>2, <1>3 DEF Agreed
  <1>9. Collapses' => \A i \in DOMAIN threads' : Row(i, r)' => ShownBy(r)' # {}
    BY <1>1, <1>3 DEF Agreed
  <1>10. \A i, j \in DOMAIN threads' : Row(i, r)' /\ Row(j, r)' => i = j
    BY <1>1, <1>3 DEF Agreed
  <1>. QED BY <1>4, <1>5, <1>6, <1>7, <1>8, <1>9, <1>10 DEF Agreed

\* A starter adds the row of the thread its message is in.
LEMMA AgreementsAdded ==
  ASSUME Typed, Agreements, NEW h \in Handlers, Others(h), UNCHANGED <<settings, messages>>,
         again' = again, unread' = unread, gaveUp' = gaveUp,
         NEW t \in Nat, threads' = Append(threads, [root |-> Root[Subject(h)], thread |-> t]),
         Root[Subject(h)] \in Roots, Starter(h, Root[Subject(h)]),
         ts[h] \in DOMAIN messages, messages[ts[h]].shows = Subject(h), ThreadOf(ts[h]) = t,
         pc'[h] # "reply", \A r : ~Starter(h, r)'
  PROVE  Agreements'
  <1>. SUFFICES ASSUME NEW r \in Roots \ (gaveUp \cup again \cup unread) PROVE Agreed(r)'
    BY DEF Agreements
  <1>1. Agreed(r)
    BY DEF Agreements
  <1>2. \A g \in Handlers \ {h} :
          /\ Starter(g, r)' <=> Starter(g, r)
          /\ pc'[g] = pc[g] /\ job'[g] = job[g] /\ at'[g] = at[g] /\ ts'[g] = ts[g]
          /\ Subject(g)' = Subject(g)
    BY DEF Others, Starter, Subject
  <1>3. /\ \A m : ThreadOf(m)' = ThreadOf(m)
        /\ ShownBy(r)' = ShownBy(r) /\ Collapses' = Collapses
    BY DEF ThreadOf, settings, ShownBy, Collapses
  <1>4. PICK e \in ThreadRows : e = [root |-> Root[Subject(h)], thread |-> t]
    BY DEF ThreadRows
  <1>5. PICK n : n = Len(threads) + 1
    OBVIOUS
  <1>6. /\ DOMAIN threads' = DOMAIN threads \cup {n} /\ n \notin DOMAIN threads
        /\ \A i \in DOMAIN threads : threads'[i] = threads[i]
        /\ threads'[n] = e /\ e.root = Root[Subject(h)] /\ e.thread = t
    BY <1>4, <1>5, ThreadAdded
  <1>7. Starter(h, r) <=> Root[Subject(h)] = r
    BY DEF Starter
  <1>8. \A i \in DOMAIN threads' : Row(i, r)' <=> Row(i, r) \/ (i = n /\ Root[Subject(h)] = r)
    BY <1>6 DEF Row
  <1>9. \A i \in DOMAIN threads : Row(i, r) => Row(i, r)' /\ threads'[i].thread = threads[i].thread
    BY <1>6 DEF Row
  <1>10. \A i, j \in DOMAIN threads' : Row(i, r)' /\ Row(j, r)' => i = j
    BY <1>1, <1>6, <1>7, <1>8 DEF Agreed, Row
  <1>11. \A f, g \in Handlers : Starter(f, r)' /\ Starter(g, r)' => f = g
    BY <1>1, <1>2 DEF Agreed
  <1>12. \A g \in Handlers, i \in DOMAIN threads' : ~(Starter(g, r)' /\ Row(i, r)')
    BY <1>1, <1>2, <1>6, <1>7, <1>8 DEF Agreed, Row
  <1>13. \A g \in Handlers : pc'[g] = "reply" /\ Root[job'[g]] = r =>
           \E i \in DOMAIN threads' : Row(i, r)' /\ threads'[i].thread = at'[g]
    BY <1>1, <1>2, <1>6, <1>9 DEF Agreed
  <1>14. ASSUME NEW m \in DOMAIN messages,
                messages[m].shows \in Comments \ again, Root[messages[m].shows] = r
         PROVE  InRow(m, r)' \/ \E g \in Handlers : Starter(g, r)' /\ ts'[g] = m
    <2>1. InRow(m, r) => InRow(m, r)'
      BY <1>3, <1>6, <1>9 DEF InRow
    <2>2. ASSUME Starter(h, r), ts[h] = m PROVE InRow(m, r)'
      <3>1. Row(n, r)' /\ threads'[n].thread = ThreadOf(m)' /\ n \in DOMAIN threads'
        BY <1>3, <1>6, <1>7, <1>8, <2>2
      <3>. QED BY <3>1 DEF InRow
    <2>. QED BY <1>1, <1>2, <1>14, <2>1, <2>2 DEF Agreed
  <1>15. Collapses => \A g \in Handlers : Starter(g, r)' => Subject(g)' = r
    BY <1>1, <1>2 DEF Agreed
  <1>16. Collapses => \A i \in DOMAIN threads' : Row(i, r)' => ShownBy(r) # {}
    <2>1. Collapses /\ Root[Subject(h)] = r => ShownBy(r) # {}
      BY <1>1, <1>7 DEF Agreed, ShownBy
    <2>2. Collapses => \A i : Row(i, r) => ShownBy(r) # {}
      BY <1>1 DEF Agreed, Row
    <2>. QED BY <1>8, <2>1, <2>2
  <1>. QED BY <1>3, <1>10, <1>11, <1>12, <1>13, <1>14, <1>15, <1>16 DEF Agreed

-----------------------------------------------------------------------------
(* Steps that change neither Slack nor the database *)

\* A step that changes neither Slack nor the database.
LEMMA QuietStep ==
  ASSUME IInv, NEW h \in Handlers, NEW p, NEW j, NEW t, NEW a, NEW s, Moves(h, p, j, t, a, s),
         UNCHANGED <<settings, messages, db>>,
         upsets' \in 0..MaxUpsets, again' \subseteq Comments \cup {0}, unread' \subseteq Roots,
         gaveUp' \subseteq Roots, failed' \subseteq Comments \cup {0},
         LocalOK(h)', AccountStep(h), EventStep(h), UntouchedStep(h), ApartStep(h),
         SingleStep(h), AgreedStep(h)
  PROVE  IInv'
  <1>. USE DEF IInv, Moves
  <1>1. Typed'
    BY DEF Typed, EventStep, settings, db
  <1>2. Grown
    BY DEF Grown
  <1>3. UNCHANGED settings /\ threads' = threads /\ rows' = rows
    BY DEF db
  <1>4. Backed'
    BY <1>3 DEF Backed, settings
  <1>5. Locals'
    BY <1>1, <1>2, <1>3, LocalsKept
  <1>6. Accounted'
    BY <1>2, <1>3, AccountedKept
  <1>7. Events' /\ Untouched' /\ Apart'
    BY <1>3, EventsKept, UntouchedKept, ApartKept
  <1>8. Singles'
    <2>1. \A x \in Comments \cup {0} : ShownBy(x)' = ShownBy(x)
      BY DEF ShownBy
    <2>. QED BY <1>3, <2>1, SinglesQuiet
  <1>9. Agreements'
    BY <1>3, AgreementsQuiet
  <1>. QED BY <1>1, <1>4, <1>5, <1>6, <1>7, <1>8, <1>9

\* Such a step of a handler that stays at work on the same.
LEMMA Onward ==
  ASSUME IInv, NEW h \in Handlers, NEW p, NEW a, NEW s, Moves(h, p, job[h], todo[h], a, s),
         pc[h] \notin {"idle", "read"}, p \notin {"idle", "read"},
         UNCHANGED <<settings, inbox, messages, db, again, unread, failed>>,
         upsets' \in 0..MaxUpsets, gaveUp' \subseteq Roots,
         p \in PostSteps \cup {"next"} /\ job[h] = 0 => pc[h] \in PostSteps \cup {"next"},
         LocalOK(h)', SingleStep(h), AgreedStep(h)
  PROVE  IInv'
  <1>1. \A e : On(h, e)' <=> On(h, e)
    BY DEF On, Moves
  <1>2. pc'[h] = p /\ job'[h] = job[h] /\ todo'[h] = todo[h]
    BY DEF Moves
  <1>3. \A x : ShownBy(x)' = ShownBy(x)
    BY DEF ShownBy
  <1>4. AccountStep(h)
    <2>1. ASSUME pc'[h] \in PostSteps \cup {"next"}, job'[h] = 0, NEW r \in Roots
          PROVE  InTodo(h, r)' \/ ShownBy(r)' # {}
      BY <1>2, <1>3, <2>1 DEF IInv, Accounted, InTodo
    <2>2. \A e \in Comments \cup {0} :
       /\ e \in inbox => e \in inbox' \/ On(h, e)' \/ Through(e)'
       /\ On(h, e) => On(h, e)' \/ e \in failed' \/ Through(e)'
       /\ e \in failed => e \in failed' \/ Through(e)'
      BY <1>1
    <2>. QED BY <2>1, <2>2 DEF AccountStep
  <1>5. EventStep(h)
    BY <1>1 DEF EventStep
  <1>6. UntouchedStep(h)
    BY <1>2, <1>3 DEF UntouchedStep
  <1>7. ApartStep(h)
    BY <1>1 DEF ApartStep
  <1>8. again' \subseteq Comments \cup {0} /\ unread' \subseteq Roots /\ failed' \subseteq Comments \cup {0}
    BY DEF IInv, Typed
  <1>9. UNCHANGED <<settings, messages, db>>
    OBVIOUS
  <1>. QED BY <1>4, <1>5, <1>6, <1>7, <1>8, <1>9, QuietStep

\* What handler h has, at each await.
LEMMA Here ==
  ASSUME IInv, NEW h \in Handlers
  PROVE  /\ Typed /\ LocalOK(h) /\ Others(h) \in BOOLEAN
         /\ pc[h] \in Steps /\ job[h] \in Comments \cup {0} /\ todo[h] \in Seq(Roots)
         /\ at[h] \in Nat /\ ts[h] \in Nat /\ 0 \notin Comments /\ Roots \subseteq Comments
         /\ pc[h] \notin PostSteps \cup {"next"} => todo[h] = <<>> /\ Subject(h) = job[h]
         /\ pc[h] \notin Posted => ts[h] = 0
         /\ pc[h] \in Posted => ts[h] \in DOMAIN messages /\ messages[ts[h]].shows = Subject(h)
         /\ <<>> \in Seq(Roots)
  <1>1. Typed /\ LocalOK(h)
    BY DEF IInv, Locals
  <1>2. <<>> \in Seq(Roots)
    OBVIOUS
  <1>3. pc[h] \in Posted => ts[h] \in DOMAIN messages
    BY <1>1, Facts DEF LocalOK
  <1>. QED BY <1>1, <1>2, <1>3, Facts DEF LocalOK, Others

LEMMA SummaryFailsStep == ASSUME IInv, NEW h \in Handlers, SummaryFails(h) PROVE IInv'
  <1>1. Moves(h, "list", job[h], todo[h], at[h], ts[h])
    BY Here, Moved DEF SummaryFails, Goto, locals, Steps
  <1>2. LocalOK(h)'
    BY <1>1, Here DEF SummaryFails, Moves, LocalOK, Subject, Collapses, settings,
       ReviewSteps, CommentSteps, PostSteps, Posted
  <1>3. SingleStep(h)
    BY <1>1, Here DEF SingleStep, Holds, Moves, SummaryFails, ghosts, Posted
  <1>4. AgreedStep(h)
    BY <1>1 DEF AgreedStep, Starter, Moves, SummaryFails, ghosts
  <1>5. upsets' \in 0..MaxUpsets /\ gaveUp' \subseteq Roots
    BY ReviewSyncAssumption DEF SummaryFails, Upset, ghosts, IInv, Typed
  <1>. QED BY <1>1, <1>2, <1>3, <1>4, <1>5, Onward DEF SummaryFails, ghosts, PostSteps

LEMMA ListFailsStep == ASSUME IInv, NEW h \in Handlers, ListFails(h) PROVE IInv'
  <1>1. Moves(h, "note", job[h], todo[h], at[h], ts[h])
    BY Here, Moved DEF ListFails, Goto, locals, Steps
  <1>2. LocalOK(h)'
    BY <1>1, Here DEF ListFails, Moves, LocalOK, Subject, Collapses, settings,
       ReviewSteps, CommentSteps, PostSteps, Posted
  <1>3. SingleStep(h)
    BY <1>1, Here DEF SingleStep, Holds, Moves, ListFails, ghosts, Posted
  <1>4. AgreedStep(h)
    BY <1>1 DEF AgreedStep, Starter, Moves, ListFails, ghosts
  <1>5. upsets' \in 0..MaxUpsets /\ gaveUp' \subseteq Roots
    BY ReviewSyncAssumption DEF ListFails, Upset, ghosts, IInv, Typed
  <1>. QED BY <1>1, <1>2, <1>3, <1>4, <1>5, Onward DEF ListFails, ghosts, PostSteps

LEMMA LookThreadStep == ASSUME IInv, NEW h \in Handlers, LookThread(h) PROVE IInv'
  <1>. PICK p \in {"addThread", "mapMessage"} :
         /\ p = IF ThreadRow(Subject(h)) = 0 THEN "addThread" ELSE "mapMessage"
         /\ Goto(h, p)
    BY DEF LookThread
  <1>1. Moves(h, p, job[h], todo[h], at[h], ts[h])
    BY Here, Moved DEF LookThread, Goto, locals, Steps
  <1>2. LocalOK(h)'
    BY <1>1, Here DEF LookThread, Moves, LocalOK, Subject, Collapses, settings,
       ReviewSteps, CommentSteps, PostSteps, Posted
  <1>3. Subject(h)' = Subject(h) /\ pc[h] = "lookThread"
    BY <1>1 DEF Subject, Moves, LookThread
  <1>4. SingleStep(h)
    BY <1>1, <1>3 DEF SingleStep, Holds, Moves, LookThread, ghosts
  <1>5. ASSUME NEW r \in Roots \ (gaveUp' \cup again' \cup unread'), Starter(h, r)
        PROVE  p = "addThread"
    <2>1. Agreed(r)
      BY DEF IInv, Agreements, LookThread, ghosts
    <2>2. ThreadRow(Subject(h)) = 0
      BY <1>5, <2>1, Here, ThreadRowIs DEF Agreed, Starter
    <2>. QED BY <2>2
  <1>6. AgreedStep(h)
    BY <1>1, <1>3, <1>5 DEF AgreedStep, Starter, Moves, LookThread, ghosts
  <1>7. upsets' \in 0..MaxUpsets /\ gaveUp' \subseteq Roots
    BY DEF LookThread, ghosts, IInv, Typed
  <1>. QED BY <1>1, <1>2, <1>3, <1>4, <1>6, <1>7, Onward DEF LookThread, ghosts, PostSteps

\* The comment's handler has its own comment, and no list.
LEMMA AtComment ==
  ASSUME IInv, NEW h \in Handlers, pc[h] \in CommentSteps
  PROVE  /\ job[h] \in Comments /\ todo[h] = <<>> /\ Subject(h) = job[h] /\ ts[h] = 0
         /\ Root[job[h]] \in Roots /\ (job[h] \in Roots => Root[job[h]] = job[h])
  <1>1. job[h] # 0 /\ pc[h] \notin PostSteps \cup {"next"} /\ pc[h] \notin Posted
    BY Here DEF LocalOK, CommentSteps, PostSteps, Posted
  <1>. QED BY <1>1, Here, ReviewSyncAssumption DEF Roots

\* It answers in the thread of the row.
LEMMA ReplyStep ==
  ASSUME IInv, NEW h \in Handlers, pc[h] \in {"find", "wait"}, ThreadRow(job[h]) # 0,
         NEW a, a = threads[ThreadRow(job[h])].thread,
         pc' = [pc EXCEPT ![h] = "reply"], at' = [at EXCEPT ![h] = a],
         UNCHANGED <<settings, inbox, messages, db, job, todo, ts, upsets, ghosts>>
  PROVE  IInv'
  <1>1. PICK i \in DOMAIN threads : ThreadRow(job[h]) = i /\ Row(i, Root[job[h]])
    BY Here, ThreadRowIs
  <1>2. a \in Nat /\ a <= Len(messages) /\ (a = 0 <=> stacked) /\ a = threads[i].thread
    BY <1>1, Facts DEF IInv, Backed
  <1>3. Moves(h, "reply", job[h], todo[h], a, ts[h])
    BY <1>2, Here, Moved DEF Steps
  <1>4. /\ job[h] \in Comments /\ todo[h] = <<>> /\ Subject(h) = job[h] /\ ts[h] = 0
    BY AtComment DEF CommentSteps
  <1>5. LocalOK(h)'
    BY <1>2, <1>3, <1>4, Here DEF Moves, LocalOK, Subject, Collapses, settings,
       ReviewSteps, CommentSteps, PostSteps, Posted
  <1>6. Subject(h)' = Subject(h)
    BY <1>3 DEF Subject, Moves
  <1>7. SingleStep(h)
    BY <1>3, <1>6 DEF SingleStep, Holds, Moves, ghosts
  <1>8. AgreedStep(h)
    BY <1>1, <1>2, <1>3 DEF AgreedStep, Starter, Moves, ghosts
  <1>9. upsets' \in 0..MaxUpsets /\ gaveUp' \subseteq Roots
    BY DEF ghosts, IInv, Typed
  <1>10. /\ pc[h] \notin {"idle", "read"} /\ "reply" \notin {"idle", "read"}
         /\ "reply" \notin PostSteps \cup {"next"}
         /\ UNCHANGED <<settings, inbox, messages, db, again, unread, failed>>
    BY DEF ghosts, PostSteps
  <1>. QED BY <1>3, <1>5, <1>7, <1>8, <1>9, <1>10, Onward

\* It starts a thread, with no other that is not taken note of.
LEMMA StartStep ==
  ASSUME IInv, NEW h \in Handlers, pc[h] \in {"find", "wait", "reply"},
         NEW a \in {0, at[h]}, pc[h] = "reply" => a = 0,
         pc' = [pc EXCEPT ![h] = "start"],
         at' = [at EXCEPT ![h] = a] \/ (at' = at /\ at[h] = a),
         upsets' \in 0..MaxUpsets, gaveUp \subseteq gaveUp', gaveUp' \subseteq Roots,
         Root[job[h]] \in gaveUp' \/
           /\ \A g \in Handlers : ~Starter(g, Root[job[h]])
           /\ \A i \in DOMAIN threads : ~Row(i, Root[job[h]])
           /\ Collapses => job[h] \in Roots,
         UNCHANGED <<settings, inbox, messages, db, job, todo, ts, again, unread, failed>>
  PROVE  IInv'
  <1>1. a \in Nat /\ a <= Len(messages) /\ (stacked => a = 0)
    BY Here, Facts DEF LocalOK
  <1>2. Moves(h, "start", job[h], todo[h], a, ts[h])
    BY <1>1, Here, Moved DEF Steps
  <1>3. /\ job[h] \in Comments /\ todo[h] = <<>> /\ Subject(h) = job[h] /\ ts[h] = 0
        /\ job[h] \in Roots => Root[job[h]] = job[h]
    BY AtComment DEF CommentSteps
  <1>4. LocalOK(h)'
    BY <1>1, <1>2, <1>3, Here DEF Moves, LocalOK, Subject, Collapses, settings,
       ReviewSteps, CommentSteps, PostSteps, Posted
  <1>5. Subject(h)' = job[h]
    BY <1>2, <1>3 DEF Subject, Moves
  <1>6. SingleStep(h)
    BY <1>2, <1>3, <1>5 DEF SingleStep, Holds, Moves
  <1>7. AgreedStep(h)
    BY <1>2, <1>3, <1>5 DEF AgreedStep, Starter, Moves
  <1>8. /\ pc[h] \notin {"idle", "read"} /\ "start" \notin {"idle", "read"} /\ job[h] # 0
        /\ UNCHANGED <<settings, inbox, messages, db, again, unread, failed>>
    BY <1>3, Here
  <1>. QED BY <1>2, <1>4, <1>6, <1>7, <1>8, Onward

LEMMA FindStep == ASSUME IInv, NEW h \in Handlers, Find(h) PROVE IInv'
  <1>. DEFINE i == ThreadRow(job[h])
  <1>1. /\ pc[h] = "find"
        /\ UNCHANGED <<settings, inbox, messages, db, job, todo, ts, upsets, again, unread, failed>>
    BY DEF Find
  <1>2. CASE i # 0
    <2>1. PICK a : a = threads[i].thread
      OBVIOUS
    <2>2. pc' = [pc EXCEPT ![h] = "reply"] /\ at' = [at EXCEPT ![h] = a] /\ gaveUp' = gaveUp
      BY <1>2, <2>1 DEF Find, Goto
    <2>. QED BY <1>1, <1>2, <2>1, <2>2, ReplyStep DEF ghosts
  <1>3. CASE i = 0 /\ collapse /\ job[h] \notin Roots
    <2>1. Goto(h, "wait") /\ at' = at /\ gaveUp' = gaveUp
      BY <1>3 DEF Find
    <2>2. Moves(h, "wait", job[h], todo[h], at[h], ts[h])
      BY <1>1, <2>1, Here, Moved DEF Goto, Steps
    <2>3. LocalOK(h)'
      BY <1>1, <2>2, Here DEF Moves, LocalOK, Subject, Collapses, settings,
         ReviewSteps, CommentSteps, PostSteps, Posted
    <2>4. Subject(h)' = Subject(h)
      BY <2>2 DEF Subject, Moves
    <2>5. SingleStep(h)
      BY <1>1, <2>2, <2>4 DEF SingleStep, Holds, Moves
    <2>6. AgreedStep(h)
      BY <1>1, <2>1, <2>2 DEF AgreedStep, Starter, Moves
    <2>7. upsets' \in 0..MaxUpsets /\ gaveUp' \subseteq Roots
      BY <1>1, <2>1 DEF IInv, Typed
    <2>. QED BY <1>1, <2>1, <2>2, <2>3, <2>5, <2>6, <2>7, Onward DEF PostSteps
  <1>4. CASE i = 0 /\ ~(collapse /\ job[h] \notin Roots)
    <2>1. StartThread(h, Handlers)
      BY <1>4 DEF Find
    <2>2. \A j \in DOMAIN threads : ~Row(j, Root[job[h]])
      BY <1>4, ThreadRowIs, Here
    <2>3. /\ Root[job[h]] \in gaveUp' \/ \A g \in Handlers : ~Starter(g, Root[job[h]])
          /\ gaveUp \subseteq gaveUp' /\ gaveUp' \subseteq gaveUp \cup {Root[job[h]]}
      BY <2>1 DEF StartThread, Starter
    <2>4. gaveUp' \subseteq Roots /\ upsets' \in 0..MaxUpsets
      BY <1>1, <2>3, AtComment DEF IInv, Typed, CommentSteps
    <2>5. Collapses => job[h] \in Roots
      BY <1>4 DEF Collapses
    <2>. QED BY <1>1, <2>1, <2>2, <2>3, <2>4, <2>5, StartStep DEF StartThread, Goto
  <1>. QED BY <1>2, <1>3, <1>4

LEMMA WaitStep == ASSUME IInv, NEW h \in Handlers, Wait(h) PROVE IInv'
  <1>. DEFINE i == ThreadRow(job[h])
  <1>1. /\ pc[h] = "wait"
        /\ UNCHANGED <<settings, inbox, messages, db, job, todo, ts, upsets, again, unread, failed>>
    BY DEF Wait
  <1>2. CASE i # 0
    <2>1. PICK a : a = threads[i].thread
      OBVIOUS
    <2>2. pc' = [pc EXCEPT ![h] = "reply"] /\ at' = [at EXCEPT ![h] = a] /\ gaveUp' = gaveUp
      BY <1>2, <2>1 DEF Wait, Goto
    <2>. QED BY <1>1, <1>2, <2>1, <2>2, ReplyStep DEF ghosts
  <1>3. CASE i = 0
    <2>1. pc' = [pc EXCEPT ![h] = "start"] /\ at' = at /\ gaveUp' = gaveUp \cup {Root[job[h]]}
      BY <1>3 DEF Wait, Goto
    <2>2. gaveUp' \subseteq Roots /\ upsets' \in 0..MaxUpsets
      BY <1>1, <2>1, AtComment DEF IInv, Typed, CommentSteps
    <2>. QED BY <1>1, <2>1, <2>2, StartStep
  <1>. QED BY <1>2, <1>3

LEMMA ThreadGoneStep == ASSUME IInv, NEW h \in Handlers, ThreadGone(h) PROVE IInv'
  <1>1. gaveUp' \subseteq Roots
    BY AtComment DEF ThreadGone, IInv, Typed, CommentSteps
  <1>2. upsets' \in 0..MaxUpsets
    BY ReviewSyncAssumption DEF ThreadGone, Upset, IInv, Typed
  <1>. QED BY <1>1, <1>2, StartStep DEF ThreadGone, Goto

\* A handler of a comment it is the only one to post goes on to post it.
LEMMA BeginStep ==
  ASSUME IInv, NEW h \in Handlers, pc[h] = "read", pc' = [pc EXCEPT ![h] = "find"],
         UNCHANGED <<settings, inbox, messages, db, locals, again, gaveUp, failed>>,
         upsets' \in 0..MaxUpsets, unread \subseteq unread', unread' \subseteq Roots,
         job[h] \in unread' \/ ~Collapses \/ (~Busy(0) /\ Mapped(job[h]) = {})
  PROVE  IInv'
  <1>. DEFINE c == job[h]
  <1>1. Moves(h, "find", job[h], todo[h], at[h], ts[h])
    BY Here, Moved DEF locals, Steps
  <1>2. /\ c \in Comments /\ todo[h] = <<>> /\ Subject(h) = c /\ ts[h] = 0 /\ c \in Roots
    BY AtComment, Here DEF CommentSteps, LocalOK
  <1>3. LocalOK(h)'
    BY <1>1, <1>2, Here DEF Moves, LocalOK, Subject, Collapses, settings,
       ReviewSteps, CommentSteps, PostSteps, Posted
  <1>4. (\A e : On(h, e)' <=> On(h, e)) /\ Subject(h)' = c /\ pc'[h] = "find"
    BY <1>1, <1>2 DEF On, Moves, Subject
  <1>5. \A x : ShownBy(x)' = ShownBy(x)
    BY DEF ShownBy
  <1>6. AccountStep(h)
    BY <1>4 DEF AccountStep, PostSteps
  <1>7. EventStep(h) /\ UntouchedStep(h)
    BY <1>4, <1>5 DEF EventStep, UntouchedStep
  <1>8. ApartStep(h)
    BY <1>2, <1>4, Here DEF ApartStep, On
  <1>9. ASSUME c \notin again \cup unread'
        PROVE  ShownBy(c) = {} /\ \A g \in Handlers \ {h} : ~Holds(g, c)
    <2>1. ASSUME NEW g \in Handlers \ {h}, Holds(g, c) PROVE FALSE
      <3>1. CASE todo[g] = <<>>
        <4>1. On(g, c) /\ On(h, c)
          BY <1>2, <2>1, <3>1 DEF Holds, Subject, On
        <4>. QED BY <1>2, <1>9, <4>1, Here DEF IInv, Events, Counted
      <3>2. CASE todo[g] # <<>>
        <4>1. Collapses /\ Busy(0)
          BY <2>1, <3>2, Here DEF LocalOK, Busy, Holds
        <4>. QED BY <1>9, <4>1
      <3>. QED BY <3>1, <3>2
    <2>2. CASE ~Collapses
      BY <1>2, <1>9, <2>1, <2>2 DEF IInv, Untouched, On
    <2>3. CASE Mapped(c) = {}
      <3>1. Single(c)
        BY <1>2, <1>9 DEF IInv, Singles
      <3>. QED BY <1>2, <2>1, <2>3, <3>1 DEF Single
    <2>. QED BY <1>9, <2>1, <2>2, <2>3
  <1>10. SingleStep(h)
    <2>1. \A s : Holds(h, s)' => s = c
      BY <1>4 DEF Holds
    <2>2. \A s : ~Holds(h, s)
      BY DEF Holds
    <2>. QED BY <1>1, <1>2, <1>9, <2>1, <2>2 DEF SingleStep, Moves
  <1>11. AgreedStep(h)
    BY <1>4 DEF AgreedStep, Starter
  <1>12. again' \subseteq Comments \cup {0} /\ gaveUp' \subseteq Roots /\ failed' \subseteq Comments \cup {0}
    BY DEF IInv, Typed
  <1>13. UNCHANGED <<settings, messages, db>>
    OBVIOUS
  <1>. QED BY <1>1, <1>3, <1>6, <1>7, <1>8, <1>10, <1>11, <1>12, <1>13, QuietStep

LEMMA ReadFailsStep == ASSUME IInv, NEW h \in Handlers, ReadFails(h) PROVE IInv'
  <1>1. job[h] \in Roots
    BY Here DEF LocalOK, ReadFails
  <1>2. unread \subseteq unread' /\ unread' \subseteq Roots
    BY <1>1 DEF ReadFails, IInv, Typed
  <1>3. upsets' \in 0..MaxUpsets
    BY ReviewSyncAssumption DEF ReadFails, Upset, IInv, Typed
  <1>4. job[h] \in unread' \/ ~Collapses \/ (~Busy(0) /\ Mapped(job[h]) = {})
    BY DEF ReadFails
  <1>. QED BY <1>2, <1>3, <1>4, BeginStep DEF ReadFails, Goto

\* A handler ends: what it was at work on has gone through, or it failed.
LEMMA Ends ==
  ASSUME IInv, NEW h \in Handlers, Done(h), UNCHANGED <<settings, inbox, messages, db, unread, gaveUp>>,
         upsets' \in 0..MaxUpsets, again \subseteq again', again' \subseteq Comments \cup {0},
         failed' \subseteq Comments \cup {0},
         \A e \in failed : e \in failed' \/ Through(e),
         pc[h] # "idle" => job[h] \in failed' \/ Through(job[h]),
         ts[h] # 0 => Subject(h) \in again'
  PROVE  IInv'
  <1>1. Moves(h, "idle", 0, <<>>, 0, 0)
    BY Here, Moved DEF Done, Goto, Steps
  <1>2. pc'[h] = "idle" /\ job'[h] = 0 /\ todo'[h] = <<>> /\ at'[h] = 0 /\ ts'[h] = 0
    BY <1>1 DEF Moves
  <1>3. LocalOK(h)'
    BY <1>2, Facts DEF IInv, LocalOK, ReviewSteps, CommentSteps, PostSteps, Posted
  <1>4. \A e : Through(e)' <=> Through(e)
    BY DEF Through, Noted, ShownBy, Collapses, settings
  <1>5. \A e : ~On(h, e)'
    BY <1>2 DEF On
  <1>6. AccountStep(h)
    BY <1>2, <1>4 DEF AccountStep, PostSteps, On
  <1>7. EventStep(h)
    BY <1>5 DEF EventStep
  <1>8. UntouchedStep(h)
    BY <1>5 DEF UntouchedStep, ShownBy
  <1>9. ApartStep(h)
    BY <1>5 DEF ApartStep
  <1>10. SingleStep(h)
    BY <1>2 DEF SingleStep, Holds
  <1>11. AgreedStep(h)
    <2>1. ts[h] # 0 => messages[ts[h]].shows = Subject(h)
      BY Here DEF LocalOK
    <2>. QED BY <1>2, <2>1 DEF AgreedStep, Starter
  <1>12. unread' \subseteq Roots /\ gaveUp' \subseteq Roots
    BY DEF IInv, Typed
  <1>13. UNCHANGED <<settings, messages, db>>
    OBVIOUS
  <1>. QED BY <1>1, <1>3, <1>6, <1>7, <1>8, <1>9, <1>10, <1>11, <1>12, <1>13, QuietStep

LEMMA DieStep == ASSUME IInv, NEW h \in Handlers, Die(h) PROVE IInv'
  <1>1. upsets' \in 0..MaxUpsets
    BY ReviewSyncAssumption DEF Die, Upset, IInv, Typed
  <1>2. Subject(h) \in Comments \cup {0} /\ job[h] \in Comments \cup {0}
    BY Facts DEF IInv
  <1>3. /\ again \subseteq again' /\ again' \subseteq Comments \cup {0}
        /\ failed' \subseteq Comments \cup {0} /\ failed \subseteq failed' /\ job[h] \in failed'
        /\ ts[h] # 0 => Subject(h) \in again'
    BY <1>2 DEF Die, IInv, Typed
  <1>. QED BY <1>1, <1>3, Ends DEF Die

LEMMA ReadStep == ASSUME IInv, NEW h \in Handlers, Read(h) PROVE IInv'
  <1>1. CASE Collapses
    <2>1. job[h] \in Roots /\ ts[h] = 0 /\ job[h] # 0
      BY Here, AtComment DEF LocalOK, Read, CommentSteps
    <2>2. Through(job[h])
      BY <1>1, <2>1 DEF Through
    <2>3. /\ UNCHANGED <<settings, inbox, messages, db, unread, gaveUp, upsets, again, failed>>
          /\ Done(h)
      BY <1>1 DEF Read, ghosts
    <2>4. upsets' \in 0..MaxUpsets /\ again' \subseteq Comments \cup {0} /\ failed' \subseteq Comments \cup {0}
      BY <2>3 DEF IInv, Typed
    <2>. QED BY <2>1, <2>2, <2>3, <2>4, Ends
  <1>2. CASE ~Collapses
    <2>1. unread' \subseteq Roots /\ upsets' \in 0..MaxUpsets
      BY DEF Read, ghosts, IInv, Typed
    <2>. QED BY <1>2, <2>1, BeginStep DEF Read, Goto, ghosts
  <1>. QED BY <1>1, <1>2

\* A listing has every comment that starts a thread: as many as there are, none twice.
LEMMA ListsAll == \A s \in Listings : s \in Seq(Roots) /\ \A r \in Roots : \E i \in DOMAIN s : s[i] = r
  <1>. SUFFICES ASSUME NEW s \in Listings
                PROVE  s \in Seq(Roots) /\ \A r \in Roots : \E i \in DOMAIN s : s[i] = r
    OBVIOUS
  <1>. DEFINE n == Cardinality(Roots)
  <1>1. IsFiniteSet(Roots) /\ n \in Nat
    <2>1. IsFiniteSet(Comments) /\ Roots \subseteq Comments
      BY ReviewSyncAssumption, FS_Interval DEF Roots
    <2>. QED BY <2>1, FS_Subset, FS_CardinalityType
  <1>2. s \in [1..n -> Roots] /\ \A i, j \in 1..n : i < j => s[i] < s[j]
    BY DEF Listings
  <1>3. s \in Seq(Roots)
    BY <1>1, <1>2
  <1>4. IsInjective(s)
    <2>. SUFFICES ASSUME NEW i \in 1..n, NEW j \in 1..n, s[i] = s[j] PROVE i = j
      BY <1>2 DEF IsInjective
    <2>1. s[i] \in Int
      BY <1>2, ReviewSyncAssumption DEF Roots
    <2>. QED BY <1>1, <1>2, <2>1
  <1>. DEFINE R == {s[i] : i \in 1..n}
  <1>5. s \in Bijection(1..n, R)
    BY <1>2, <1>4 DEF Bijection, Injection, Surjection, IsInjective
  <1>6. Cardinality(R) = n /\ R \subseteq Roots
    <2>1. IsFiniteSet(1..n) /\ Cardinality(1..n) = n
      BY <1>1, FS_Interval
    <2>. QED BY <1>2, <1>5, <2>1, FS_Bijection DEF ExistsBijection
  <1>7. R = Roots
    BY <1>1, <1>6, FS_Subset
  <1>. QED BY <1>2, <1>3, <1>7

LEMMA ListStep == ASSUME IInv, NEW h \in Handlers, List(h) PROVE IInv'
  <1>1. PICK s \in Listings : todo' = [todo EXCEPT ![h] = s]
    BY DEF List
  <1>2. s \in Seq(Roots) /\ \A r \in Roots : \E i \in DOMAIN s : s[i] = r
    BY ListsAll
  <1>. HIDE DEF Listings
  <1>3. Moves(h, "next", job[h], s, at[h], ts[h])
    BY <1>1, <1>2, Here, Moved DEF List, Goto, Steps
  <1>4. pc'[h] = "next" /\ job'[h] = job[h] /\ todo'[h] = s /\ at'[h] = at[h] /\ ts'[h] = ts[h]
    BY <1>3 DEF Moves
  <1>5. job[h] = 0 /\ Collapses /\ ts[h] = 0
    BY Here DEF LocalOK, List, ReviewSteps, Posted
  <1>6. LocalOK(h)'
    BY <1>4, <1>5, Here DEF List, LocalOK, Collapses, settings,
       ReviewSteps, CommentSteps, PostSteps, Posted
  <1>7. \A e : On(h, e)' <=> On(h, e)
    BY <1>4 DEF On, List
  <1>8. AccountStep(h)
    BY <1>2, <1>4, <1>7 DEF AccountStep, InTodo, List, ghosts
  <1>9. EventStep(h)
    BY <1>7 DEF EventStep, List, ghosts
  <1>10. UntouchedStep(h)
    BY <1>4 DEF UntouchedStep, ShownBy, List
  <1>11. ApartStep(h)
    BY <1>7 DEF ApartStep, List, ghosts
  <1>12. SingleStep(h)
    BY <1>4, <1>5 DEF SingleStep, Holds, List, ghosts
  <1>13. AgreedStep(h)
    BY <1>4 DEF AgreedStep, Starter, List, ghosts
  <1>14. /\ again' \subseteq Comments \cup {0} /\ gaveUp' \subseteq Roots /\ failed' \subseteq Comments \cup {0}
         /\ unread' \subseteq Roots /\ upsets' \in 0..MaxUpsets
    BY DEF IInv, Typed, List, ghosts
  <1>15. UNCHANGED <<settings, messages, db>>
    BY DEF List
  <1>. QED BY <1>3, <1>6, <1>8, <1>9, <1>10, <1>11, <1>12, <1>13, <1>14, <1>15, QuietStep

\* The tail has what the list has, but for its head.
LEMMA TailHas ==
  ASSUME NEW t \in Seq(Roots), t # <<>>, NEW i \in DOMAIN t
  PROVE  t[i] = Head(t) \/ \E k \in DOMAIN Tail(t) : Tail(t)[k] = t[i]
  <1>1. i \in 1..Len(t) /\ Len(Tail(t)) = Len(t) - 1 /\ Tail(t) \in Seq(Roots)
    OBVIOUS
  <1>2. CASE i = 1
    BY <1>2
  <1>3. CASE i > 1
    <2>1. i - 1 \in DOMAIN Tail(t) /\ Tail(t)[i - 1] = t[i]
      BY <1>1, <1>3
    <2>. QED BY <2>1
  <1>. QED BY <1>1, <1>2, <1>3

LEMMA NextCommentStep == ASSUME IInv, NEW h \in Handlers, NextComment(h) PROVE IInv'
  <1>1. /\ pc[h] = "next" /\ job[h] = 0 /\ Collapses /\ ts[h] = 0 /\ todo[h] \in Seq(Roots)
        /\ UNCHANGED <<settings, inbox, messages, db, upsets, again, unread, gaveUp>>
    BY Here DEF LocalOK, NextComment, ReviewSteps, Posted
  <1>2. \A r \in Roots : InTodo(h, r) \/ ShownBy(r) # {}
    BY <1>1 DEF IInv, Accounted
  <1>3. /\ again' \subseteq Comments \cup {0} /\ gaveUp' \subseteq Roots
        /\ unread' \subseteq Roots /\ upsets' \in 0..MaxUpsets
    BY <1>1 DEF IInv, Typed
  <1>4. CASE todo[h] = <<>>
    <2>1. Through(0)
      BY <1>2, <1>4 DEF InTodo, Through
    <2>2. Done(h) /\ failed' = failed \ {0}
      BY <1>4 DEF NextComment
    <2>3. failed' \subseteq Comments \cup {0}
      BY <2>2 DEF IInv, Typed
    <2>. QED BY <1>1, <1>3, <2>1, <2>2, <2>3, Ends
  <1>. DEFINE c == Head(todo[h])
  <1>5. CASE todo[h] # <<>> /\ Mapped(c) # {}
    <2>1. /\ todo' = [todo EXCEPT ![h] = Tail(@)]
          /\ UNCHANGED <<pc, job, at, ts, failed>>
      BY <1>5 DEF NextComment
    <2>2. PICK t \in Seq(Roots) : t = Tail(todo[h])
      <3>1. \A t \in Seq(Roots) : t # <<>> => Tail(t) \in Seq(Roots)
        OBVIOUS
      <3>. QED BY <1>1, <1>5, <3>1
    <2>3. Moves(h, "next", job[h], t, at[h], ts[h])
      <3>1. todo' = [todo EXCEPT ![h] = t]
        BY <2>1, <2>2
      <3>. QED BY <1>1, <2>1, <3>1, Here, Moved DEF Steps
    <2>4. pc'[h] = "next" /\ job'[h] = job[h] /\ todo'[h] = t /\ at'[h] = at[h] /\ ts'[h] = ts[h]
      BY <2>3 DEF Moves
    <2>5. LocalOK(h)'
      BY <1>1, <2>4, Here DEF LocalOK, Collapses, settings,
         ReviewSteps, CommentSteps, PostSteps, Posted
    <2>6. \A e : On(h, e)' <=> On(h, e)
      BY <1>1, <2>4 DEF On
    <2>7. ShownBy(c) # {} /\ \A x : ShownBy(x)' = ShownBy(x)
      BY <1>1, <1>5, Facts DEF IInv, Backed, Mapped, ShownBy
    <2>8. ASSUME NEW r \in Roots PROVE InTodo(h, r)' \/ ShownBy(r)' # {}
      BY <1>1, <1>2, <1>5, <2>2, <2>4, <2>7, TailHas DEF InTodo
    <2>9. AccountStep(h)
      BY <1>1, <2>1, <2>6, <2>8 DEF AccountStep
    <2>10. EventStep(h) /\ ApartStep(h)
      BY <1>1, <2>6 DEF EventStep, ApartStep
    <2>11. UntouchedStep(h)
      BY <2>4, <2>7 DEF UntouchedStep
    <2>12. SingleStep(h)
      BY <1>1, <2>4 DEF SingleStep, Holds
    <2>13. AgreedStep(h)
      BY <1>1, <2>4 DEF AgreedStep, Starter
    <2>14. failed' \subseteq Comments \cup {0} /\ UNCHANGED <<settings, messages, db>>
      BY <1>1, <2>1 DEF IInv, Typed
    <2>. QED BY <1>3, <2>3, <2>5, <2>9, <2>10, <2>11, <2>12, <2>13, <2>14, QuietStep
  <1>6. CASE todo[h] # <<>> /\ Mapped(c) = {}
    <2>1. pc' = [pc EXCEPT ![h] = "start"] /\ UNCHANGED <<todo, job, at, ts, failed>>
      BY <1>6 DEF NextComment, Goto
    <2>2. Moves(h, "start", job[h], todo[h], at[h], ts[h])
      BY <2>1, Here, Moved DEF Steps
    <2>3. LocalOK(h)'
      BY <1>1, <1>6, <2>2, Here DEF Moves, LocalOK, Subject, Collapses, settings,
         ReviewSteps, CommentSteps, PostSteps, Posted
    <2>4. c \in Roots /\ Subject(h)' = c /\ Root[c] = c
      BY <1>1, <1>6, <2>2 DEF Moves, Subject, Roots
    <2>5. ASSUME c \notin again \cup unread
          PROVE  ShownBy(c) = {} /\ \A g \in Handlers \ {h} : ~Holds(g, c)
      <3>0. On(h, 0) /\ Busy(0) /\ c # 0 /\ 0 \notin Roots
        BY <1>1, <2>4, Here DEF On, Busy
      <3>1. ASSUME NEW g \in Handlers \ {h}, Holds(g, c) PROVE FALSE
        <4>1. CASE todo[g] = <<>>
          <5>1. On(g, c) /\ pc[g] # "read"
            BY <3>1, <4>1 DEF Holds, Subject, On
          <5>. QED BY <1>1, <2>4, <2>5, <3>0, <5>1 DEF IInv, Apart
        <4>2. CASE todo[g] # <<>>
          <5>1. On(g, 0)
            BY <3>1, <4>2, Here DEF LocalOK, On, Holds
          <5>2. Counted(0)
            BY <2>4, <2>5 DEF Counted
          <5>. QED BY <3>0, <5>1, <5>2 DEF IInv, Events
        <4>. QED BY <4>1, <4>2
      <3>2. Single(c)
        BY <2>4, <2>5, Here DEF IInv, Singles
      <3>3. ~Holds(h, c)
        BY <1>1 DEF Holds
      <3>. QED BY <1>6, <3>1, <3>2, <3>3 DEF Single
    <2>6. SingleStep(h)
      <3>1. \A s : (Holds(h, s)' => s = c) /\ ~Holds(h, s)
        BY <1>1, <2>4 DEF Holds
      <3>. QED BY <1>1, <2>1, <2>5, <3>1 DEF SingleStep
    <2>7. ASSUME c \notin gaveUp \cup again \cup unread
          PROVE  /\ \A g \in Handlers \ {h} : ~Starter(g, c)
                 /\ \A i \in DOMAIN threads : ~Row(i, c)
      <3>1. Agreed(c)
        BY <2>4, <2>7 DEF IInv, Agreements
      <3>2. \A g \in Handlers : Starter(g, c) => Holds(g, c)
        BY <1>1, <3>1 DEF Agreed, Starter, Holds
      <3>. QED BY <1>1, <2>5, <2>7, <3>1, <3>2 DEF Agreed
    <2>8. AgreedStep(h)
      <3>1. pc'[h] = "start"
        BY <2>2 DEF Moves
      <3>2. \A r : Starter(h, r)' => r = c
        BY <2>4 DEF Starter
      <3>. QED BY <1>1, <2>4, <2>7, <3>1, <3>2 DEF AgreedStep, Starter
    <2>9. /\ pc[h] \notin {"idle", "read"} /\ "start" \notin {"idle", "read"}
          /\ pc[h] \in PostSteps \cup {"next"}
          /\ UNCHANGED <<settings, inbox, messages, db, again, unread, failed>>
      BY <1>1, <2>1
    <2>. QED BY <1>3, <2>2, <2>3, <2>6, <2>8, <2>9, Onward
  <1>. QED BY <1>4, <1>5, <1>6

-----------------------------------------------------------------------------
(* Events that reach a handler *)

LEMMA ReceiveReviewStep == ASSUME IInv, NEW h \in Handlers, ReceiveReview(h) PROVE IInv'
  <1>1. /\ pc[h] = "idle" /\ job[h] = 0 /\ todo[h] = <<>> /\ at[h] = 0 /\ ts[h] = 0 /\ 0 \in inbox
        /\ inbox' = inbox \ {0}
        /\ UNCHANGED <<settings, messages, db, job, todo, ts, upsets, again, gaveUp, failed>>
    BY Here DEF ReceiveReview, Free, LocalOK, PostSteps, Posted
  <1>2. PICK p \in {"idle", "summary", "list"}, a \in Nat :
          /\ pc' = [pc EXCEPT ![h] = p] \/ (pc' = pc /\ p = "idle")
          /\ at' = [at EXCEPT ![h] = a] \/ (at' = at /\ a = 0)
          /\ a <= Len(messages) /\ (a # 0 => ~stacked)
          /\ p = "summary" => review # "bare" /\ Mapped(0) = {} /\ a = 0
          /\ p = "list" => Collapses
          /\ p = "idle" => ~Collapses /\ a = 0
    <2>1. CASE review # "bare" /\ Mapped(0) = {}
      <3>1. pc' = [pc EXCEPT ![h] = "summary"] /\ at' = at
        BY <2>1 DEF ReceiveReview, Goto
      <3>. QED BY <2>1, <3>1, Here, Facts
    <2>2. CASE ~(review # "bare" /\ Mapped(0) = {}) /\ Collapses
      <3>1. Mapped(0) # {} /\ Mapped(0) \subseteq DOMAIN rows
        BY <2>2 DEF Mapped, Collapses
      <3>2. Mapped(0) \in SUBSET Nat
        BY <3>1 DEF IInv, Typed
      <3>3. PICK i \in DOMAIN rows : i = Min(Mapped(0))
        BY <3>1, <3>2, MinInside
      <3>4. rows[i].ts \in Nat /\ rows[i].ts <= Len(messages)
        BY <3>3, Facts DEF IInv, Backed
      <3>5. PICK a \in Nat : a = IF stacked THEN 0 ELSE rows[i].ts
        BY <3>4
      <3>6. a <= Len(messages) /\ (a # 0 => ~stacked)
        BY <3>4, <3>5, Facts, Here
      <3>7. pc' = [pc EXCEPT ![h] = "list"] /\ at' = [at EXCEPT ![h] = a]
        BY <2>2, <3>3, <3>5 DEF ReceiveReview, Goto
      <3>. QED BY <2>2, <3>6, <3>7
    <2>3. CASE ~(review # "bare" /\ Mapped(0) = {}) /\ ~Collapses
      <3>1. pc' = pc /\ at' = at
        BY <2>3 DEF ReceiveReview
      <3>. QED BY <2>3, <3>1, Here, Facts
    <2>. QED BY <2>1, <2>2, <2>3
  <1>3. Moves(h, p, 0, <<>>, a, 0)
    BY <1>1, <1>2, Here, Moved DEF Steps
  <1>4. pc'[h] = p /\ job'[h] = 0 /\ todo'[h] = <<>> /\ at'[h] = a /\ ts'[h] = 0 /\ Subject(h)' = 0
    BY <1>3 DEF Moves, Subject
  <1>5. LocalOK(h)'
    BY <1>1, <1>2, <1>4, Here DEF LocalOK, Collapses, settings,
       ReviewSteps, CommentSteps, PostSteps, Posted
  <1>6. \A e : On(h, e)' => e = 0 /\ p # "idle"
    BY <1>4 DEF On
  <1>7. \A x : ShownBy(x)' = ShownBy(x)
    BY <1>1 DEF ShownBy
  <1>8. AccountStep(h)
    <2>1. On(h, 0)' \/ Through(0)'
      BY <1>1, <1>2, <1>4 DEF On, Through, Collapses, settings
    <2>. QED BY <1>1, <1>2, <1>4, <2>1 DEF AccountStep, PostSteps, On
  <1>9. EventStep(h)
    BY <1>1, <1>6, Here DEF EventStep
  <1>10. UntouchedStep(h)
    BY <1>2, <1>4, <1>7 DEF UntouchedStep
  <1>11. unread \subseteq unread' /\ unread' \subseteq Roots
    BY DEF ReceiveReview, Alone, IInv, Typed
  <1>12. ApartStep(h)
    <2>1. ASSUME Collapses, NEW g \in Handlers, job[g] \in Roots, pc[g] \notin {"idle", "read"}
          PROVE  job[g] \in unread'
      BY <2>1 DEF ReceiveReview, Alone, Collapses
    <2>. QED BY <1>1, <1>6, <1>11, <2>1, Here DEF ApartStep
  <1>13. SingleStep(h)
    <2>1. \A s : (Holds(h, s)' => s = 0 /\ p = "summary") /\ ~Holds(h, s)
      BY <1>1, <1>2, <1>4 DEF Holds
    <2>2. ASSUME 0 \notin again \cup unread, p = "summary"
          PROVE  ShownBy(0) = {} /\ \A g \in Handlers : ~Holds(g, 0)
      <3>1. ~Busy(0)
        BY <1>1, <2>2 DEF IInv, Events, Counted
      <3>2. ASSUME NEW g \in Handlers, Holds(g, 0) PROVE FALSE
        BY <3>1, <3>2, Facts, Here DEF IInv, Busy, Holds
      <3>3. Single(0)
        BY <2>2 DEF IInv, Singles
      <3>. QED BY <1>2, <2>2, <3>2, <3>3 DEF Single
    <2>. QED BY <1>1, <1>4, <1>11, <2>1, <2>2 DEF SingleStep
  <1>14. AgreedStep(h)
    BY <1>1, <1>2, <1>4, <1>11 DEF AgreedStep, Starter
  <1>15. /\ again' \subseteq Comments \cup {0} /\ gaveUp' \subseteq Roots /\ failed' \subseteq Comments \cup {0}
         /\ upsets' \in 0..MaxUpsets /\ UNCHANGED <<settings, messages, db>>
    BY <1>1 DEF IInv, Typed
  <1>. QED BY <1>3, <1>5, <1>8, <1>9, <1>10, <1>11, <1>12, <1>13, <1>14, <1>15, QuietStep

LEMMA ReceiveCommentStep == ASSUME IInv, NEW h \in Handlers, ReceiveComment(h) PROVE IInv'
  <1>1. /\ pc[h] = "idle" /\ job[h] = 0 /\ todo[h] = <<>> /\ at[h] = 0 /\ ts[h] = 0
        /\ UNCHANGED <<settings, messages, db, todo, at, ts, upsets, ghosts>>
    BY Here DEF ReceiveComment, Free, LocalOK, PostSteps, Posted
  <1>2. PICK c \in inbox \ {0} :
          /\ inbox' = inbox \ {c}
          /\ job' = [job EXCEPT ![h] = c]
          /\ Goto(h, IF collapse /\ c \in Roots THEN "read" ELSE "find")
    BY DEF ReceiveComment
  <1>3. c \in Comments /\ c # 0 /\ c \in inbox
    BY <1>2 DEF IInv, Typed
  <1>4. PICK p \in {"read", "find"} :
          p = IF collapse /\ c \in Roots THEN "read" ELSE "find"
    OBVIOUS
  <1>5. Moves(h, p, c, <<>>, 0, 0)
    BY <1>1, <1>2, <1>3, <1>4, Here, Moved DEF Steps, Goto
  <1>6. pc'[h] = p /\ job'[h] = c /\ todo'[h] = <<>> /\ at'[h] = 0 /\ ts'[h] = 0 /\ Subject(h)' = c
    BY <1>5 DEF Moves, Subject
  <1>7. LocalOK(h)'
    BY <1>1, <1>3, <1>4, <1>6, Here DEF LocalOK, Collapses, settings,
       ReviewSteps, CommentSteps, PostSteps, Posted
  <1>8. \A e : On(h, e)' <=> e = c
    BY <1>4, <1>6 DEF On
  <1>9. \A x : ShownBy(x)' = ShownBy(x)
    BY <1>1 DEF ShownBy
  <1>10. AccountStep(h)
    BY <1>1, <1>2, <1>4, <1>6, <1>8 DEF AccountStep, PostSteps, On, ghosts
  <1>11. EventStep(h)
    BY <1>1, <1>2, <1>8 DEF EventStep, ghosts
  <1>12. UntouchedStep(h)
    BY <1>3, <1>8, <1>9 DEF UntouchedStep
  <1>13. ApartStep(h)
    BY <1>1, <1>3, <1>4, <1>6, <1>8 DEF ApartStep, Collapses, ghosts
  <1>14. SingleStep(h)
    <2>1. \A s : (Holds(h, s)' => s = c /\ p = "find") /\ ~Holds(h, s)
      BY <1>1, <1>6 DEF Holds
    <2>2. ASSUME c \notin again \cup unread, p = "find"
          PROVE  ShownBy(c) = {} /\ \A g \in Handlers : ~Holds(g, c)
      <3>1. ~Busy(c) /\ ~(c \in Roots /\ Collapses)
        BY <1>3, <1>4, <2>2, Here DEF IInv, Events, Counted, Collapses
      <3>2. ASSUME NEW g \in Handlers, Holds(g, c) PROVE FALSE
        <4>1. todo[g] # <<>> => c \in Roots /\ Collapses
          BY <3>2, Facts, Here DEF IInv, Holds, LocalOK
        <4>. QED BY <3>1, <3>2, <4>1 DEF Busy, Holds, Subject
      <3>. QED BY <1>3, <2>2, <3>1, <3>2 DEF IInv, Untouched
    <2>. QED BY <1>1, <1>6, <2>1, <2>2 DEF SingleStep, ghosts
  <1>15. AgreedStep(h)
    BY <1>1, <1>4, <1>6 DEF AgreedStep, Starter, ghosts
  <1>16. /\ again' \subseteq Comments \cup {0} /\ gaveUp' \subseteq Roots /\ failed' \subseteq Comments \cup {0}
         /\ unread' \subseteq Roots /\ upsets' \in 0..MaxUpsets /\ UNCHANGED <<settings, messages, db>>
    BY <1>1 DEF IInv, Typed, ghosts
  <1>. QED BY <1>5, <1>7, <1>10, <1>11, <1>12, <1>13, <1>14, <1>15, <1>16, QuietStep

LEMMA RedeliverStep == ASSUME IInv, NEW e \in Comments \cup {0}, Redeliver(e) PROVE IInv'
  <1>. USE DEF IInv
  <1>1. /\ upsets' \in 0..MaxUpsets /\ inbox' = inbox \cup {e}
        /\ again \subseteq again' /\ again' \subseteq Comments \cup {0}
        /\ e # 0 => e \in again'
        /\ e = 0 /\ Busy(0) => Roots \cup {0} \subseteq again'
        /\ UNCHANGED <<settings, messages, db, pc, locals, unread, gaveUp, failed>>
    BY ReviewSyncAssumption DEF Redeliver, Upset, Typed, Roots
  <1>2. UNCHANGED <<collapse, stacked, review, messages, threads, rows, pc, job, todo, at, ts,
                    unread, gaveUp, failed>>
    BY <1>1 DEF settings, db, locals
  <1>3. Typed'
    BY <1>1, <1>2 DEF Typed
  <1>4. Backed'
    BY <1>2 DEF Backed
  <1>5. Locals'
    BY <1>2 DEF Locals, LocalOK, Subject, Collapses
  <1>6. Accounted'
    BY <1>1, <1>2 DEF Accounted, InTodo, ShownBy, Busy, Through, Noted, Collapses
  <1>7. Events'
    <2>1. \A x : Counted(x)' => Counted(x)
      BY <1>1 DEF Counted
    <2>2. \A x : (Busy(x)' <=> Busy(x)) /\ \A g \in Handlers : On(g, x)' <=> On(g, x)
      BY <1>2 DEF Busy, On
    <2>3. Counted(e)' => ~Busy(e)
      BY <1>1 DEF Counted
    <2>. QED BY <1>1, <2>1, <2>2, <2>3 DEF Events
  <1>8. Untouched'
    <2>1. \A c \in Comments \ again' : c # e
      BY <1>1, ReviewSyncAssumption
    <2>. QED BY <1>1, <1>2, <2>1 DEF Untouched, On, ShownBy, Collapses
  <1>9. Apart'
    BY <1>1, <1>2 DEF Apart, Busy, On, Collapses
  <1>10. Singles'
    <2>1. \A s : Single(s)' <=> Single(s)
      BY <1>2 DEF Single, Holds, Subject, ShownBy, Mapped
    <2>. QED BY <1>1, <1>2, <2>1 DEF Singles
  <1>11. Agreements'
    <2>. SUFFICES ASSUME NEW r \in Roots \ (gaveUp' \cup again' \cup unread') PROVE Agreed(r)'
      BY DEF Agreements
    <2>1. Agreed(r)
      BY <1>1, <1>2 DEF Agreements
    <2>2. /\ \A h : Starter(h, r)' <=> Starter(h, r)
          /\ \A i : Row(i, r)' <=> Row(i, r)
          /\ \A m : InRow(m, r)' <=> InRow(m, r)
          /\ ShownBy(r)' = ShownBy(r) /\ (Collapses' <=> Collapses)
          /\ \A h : Subject(h)' = Subject(h)
      BY <1>2 DEF Starter, Subject, Row, InRow, ThreadOf, ShownBy, Collapses
    <2>3. /\ \A i, j \in DOMAIN threads' : Row(i, r)' /\ Row(j, r)' => i = j
          /\ \A g, h \in Handlers : Starter(g, r)' /\ Starter(h, r)' => g = h
          /\ \A h \in Handlers, i \in DOMAIN threads' : ~(Starter(h, r)' /\ Row(i, r)')
      BY <1>2, <2>1, <2>2 DEF Agreed
    <2>4. \A h \in Handlers : pc'[h] = "reply" /\ Root[job'[h]] = r =>
            \E i \in DOMAIN threads' : Row(i, r)' /\ threads'[i].thread = at'[h]
      BY <1>2, <2>1, <2>2 DEF Agreed
    <2>5. \A m \in DOMAIN messages' :
            messages'[m].shows \in Comments \ again' /\ Root[messages'[m].shows] = r =>
              InRow(m, r)' \/ \E h \in Handlers : Starter(h, r)' /\ ts'[h] = m
      BY <1>1, <1>2, <2>1, <2>2 DEF Agreed
    <2>6. Collapses' =>
            /\ \A i \in DOMAIN threads' : Row(i, r)' => ShownBy(r)' # {}
            /\ \A h \in Handlers : Starter(h, r)' => Subject(h)' = r
      BY <1>2, <2>1, <2>2 DEF Agreed
    <2>. QED BY <2>3, <2>4, <2>5, <2>6 DEF Agreed
  <1>. QED BY <1>3, <1>4, <1>5, <1>6, <1>7, <1>8, <1>9, <1>10, <1>11

-----------------------------------------------------------------------------
(* Posting and mapping *)

\* A handler posts what it is to post, in thread y.
LEMMA PostStep ==
  ASSUME IInv, NEW h \in Handlers, NEW p \in {"mapSummary", "lookThread", "mapMessage"},
         NEW x, x = Subject(h), NEW y \in Nat, NEW n, n = Len(messages) + 1,
         pc[h] \in {"summary", "reply", "start"}, pc' = [pc EXCEPT ![h] = p],
         Post(h, x, y), y <= Len(messages), stacked => y = 0,
         UNCHANGED <<settings, inbox, db, job, todo, at, upsets, ghosts>>,
         pc[h] = "summary" <=> p = "mapSummary", pc[h] = "start" <=> p = "lookThread",
         p = "lookThread" => y = at[h],
         x \in Comments /\ Root[x] \notin gaveUp \cup again \cup unread =>
           pc[h] = "start" \/ InRow(n, Root[x])'
  PROVE  IInv'
  <1>. USE DEF IInv
  <1>1. /\ ts[h] = 0 /\ job[h] \in Comments \cup {0} /\ todo[h] \in Seq(Roots) /\ at[h] \in Nat
        /\ Len(messages) \in Nat /\ Subject(h) \in Comments \cup {0}
        /\ pc[h] \in ReviewSteps => Subject(h) = 0
    BY Here, Facts DEF LocalOK, Posted, PostSteps, ReviewSteps
  <1>2. Said(x, y) /\ Said(Subject(h), y) /\ Grown
    BY <1>1, MessageAdded DEF Post
  <1>3. Moves(h, p, job[h], todo[h], at[h], n)
    <2>1. ts' = [ts EXCEPT ![h] = n] /\ n \in Nat
      BY <1>1 DEF Post
    <2>2. p \in Steps /\ UNCHANGED <<job, todo, at>>
      BY DEF Steps
    <2>3. Typed
      OBVIOUS
    <2>. QED BY ONLY <1>1, <2>1, <2>2, <2>3, pc' = [pc EXCEPT ![h] = p], h \in Handlers, Moved
  <1>4. /\ pc'[h] = p /\ job'[h] = job[h] /\ todo'[h] = todo[h] /\ at'[h] = at[h] /\ ts'[h] = n
        /\ Subject(h)' = Subject(h) /\ Others(h)
    BY <1>3 DEF Moves, Subject
  <1>5. UNCHANGED <<inbox, threads, rows, upsets, again, unread, gaveUp, failed>>
    BY DEF db, ghosts
  <1>6. Typed'
    BY <1>2, <1>3, <1>5 DEF Typed, Moves, Said, settings
  <1>7. /\ messages'[n].shows = Subject(h) /\ messages'[n].thread = y
        /\ DOMAIN messages' = DOMAIN messages \cup {n} /\ Len(messages') = n /\ n # 0
        /\ \A m \in DOMAIN messages : messages'[m] = messages[m]
    BY <1>1, <1>2 DEF Said
  <1>8. Backed'
    <2>1. \A m \in DOMAIN messages' :
            messages'[m].thread < m /\ (stacked => messages'[m].thread = 0)
      BY <1>1, <1>7 DEF Backed
    <2>2. \A i \in DOMAIN threads :
            threads[i].thread <= Len(messages') /\ (threads[i].thread = 0 <=> stacked)
      BY <1>1, <1>7, Facts DEF Backed
    <2>3. \A i \in DOMAIN rows :
            rows[i].ts \in DOMAIN messages' /\ messages'[rows[i].ts].shows = rows[i].shows
      BY <1>7 DEF Backed
    <2>. QED BY <1>5, <2>1, <2>2, <2>3 DEF Backed, settings
  <1>9. LocalOK(h)'
    <2>1. at[h] <= Len(messages') /\ n <= Len(messages')
      BY <1>1, <1>7, Here DEF LocalOK
    <2>2. UNCHANGED <<stacked, collapse, Collapses>>
      BY DEF settings, Collapses
    <2>. QED BY <1>4, <1>7, <2>1, <2>2, Here DEF LocalOK, ReviewSteps, CommentSteps, PostSteps, Posted
  <1>10. Locals'
    BY <1>2, <1>4, <1>6, <1>9, LocalsKept
  <1>11. \A s : ShownBy(s) \subseteq ShownBy(s)'
    BY <1>2, ShownStays
  <1>12. \A e : On(h, e)' <=> On(h, e)
    BY <1>4 DEF On
  <1>13. AccountStep(h)
    <2>1. ASSUME pc'[h] \in PostSteps \cup {"next"}, job'[h] = 0, NEW r \in Roots
          PROVE  InTodo(h, r)' \/ ShownBy(r)' # {}
      <3>1. pc[h] = "start"
        BY <1>4, <2>1, Here DEF LocalOK, CommentSteps, PostSteps
      <3>. QED BY <1>4, <1>11, <2>1, <3>1 DEF Accounted, InTodo, PostSteps
    <2>. QED BY <1>5, <1>12, <2>1 DEF AccountStep
  <1>14. Accounted'
    BY <1>2, <1>4, <1>13, AccountedKept
  <1>15. EventStep(h)
    BY <1>5, <1>12 DEF EventStep
  <1>16. UntouchedStep(h)
    BY <1>2, <1>4, ShownMore DEF UntouchedStep
  <1>17. ApartStep(h)
    BY <1>5, <1>12 DEF ApartStep
  <1>18. Events' /\ Untouched' /\ Apart'
    BY <1>4, <1>15, <1>16, <1>17, EventsKept, UntouchedKept, ApartKept
  <1>19. Singles'
    <2>1. Holds(h, Subject(h)) /\ \A s : Holds(h, s)' <=> Holds(h, s)
      BY <1>4 DEF Holds
    <2>. QED BY <1>1, <1>2, <1>4, <1>5, <1>7, <2>1, SinglesPosted
  <1>20. Agreements'
    <2>1. \A r : Starter(h, r)' <=> Starter(h, r)
      BY <1>4 DEF Starter
    <2>2. x \in Comments /\ Root[x] \notin gaveUp \cup again \cup unread =>
            (Starter(h, Root[x])' /\ ts'[h] = n) \/ InRow(n, Root[x])'
      BY <1>4, <2>1 DEF Starter
    <2>. QED BY <1>1, <1>2, <1>4, <1>5, <2>1, <2>2, AgreementsPosted
  <1>. QED BY <1>6, <1>8, <1>10, <1>14, <1>18, <1>19, <1>20

LEMMA SummaryStep == ASSUME IInv, NEW h \in Handlers, Summary(h) PROVE IInv'
  <1>1. Subject(h) = 0 /\ 0 \notin Comments /\ Len(messages) \in Nat
    BY Here, Facts DEF Summary, LocalOK, ReviewSteps, PostSteps
  <1>2. PICK n : n = Len(messages) + 1
    OBVIOUS
  <1>3. PICK x : x = Subject(h)
    OBVIOUS
  <1>4. PICK y \in Nat : y = 0
    OBVIOUS
  <1>5. /\ x \notin Comments /\ y <= Len(messages) /\ Post(h, x, y)
        /\ pc[h] = "summary" /\ pc' = [pc EXCEPT ![h] = "mapSummary"]
        /\ UNCHANGED <<settings, inbox, db, job, todo, at, upsets, ghosts>>
    BY <1>1, <1>3, <1>4 DEF Summary, Goto
  <1>. QED BY <1>2, <1>3, <1>4, <1>5, PostStep

LEMMA InThreadStep == ASSUME IInv, NEW h \in Handlers, InThread(h) PROVE IInv'
  <1>1. PICK x : x = job[h]
    OBVIOUS
  <1>2. Subject(h) = x /\ x \in Comments /\ Root[x] \in Roots /\ ts[h] = 0
    BY <1>1, AtComment DEF InThread, CommentSteps
  <1>3. at[h] \in Nat /\ at[h] <= Len(messages) /\ (stacked => at[h] = 0) /\ Len(messages) \in Nat
    BY Here, Facts DEF LocalOK
  <1>4. PICK n : n = Len(messages) + 1
    OBVIOUS
  <1>5. Post(h, x, at[h])
    BY <1>1 DEF InThread
  <1>6. Said(x, at[h])
    BY <1>2, <1>3, <1>5, MessageAdded DEF Post, IInv
  <1>7. ASSUME NEW r, r = Root[x], r \notin gaveUp \cup again \cup unread
        PROVE  InRow(n, r)'
    <2>1. PICK i \in DOMAIN threads : Row(i, r) /\ threads[i].thread = at[h]
      <3>1. Agreed(r)
        BY <1>2, <1>7 DEF IInv, Agreements
      <3>. QED BY <1>1, <1>7, <3>1 DEF Agreed, InThread
    <2>2. messages'[n].thread = at[h]
      BY <1>4, <1>6 DEF Said
    <2>3. at[h] # 0 \/ stacked
      BY Here DEF LocalOK, InThread
    <2>4. n \in Nat /\ threads' = threads /\ stacked' = stacked
      BY <1>3, <1>4 DEF InThread, db, settings
    <2>5. ThreadOf(n)' = at[h]
      BY <2>2, <2>3, <2>4 DEF ThreadOf
    <2>. QED BY <2>1, <2>4, <2>5 DEF InRow, Row
  <1>8. Root[x] \notin gaveUp \cup again \cup unread => InRow(n, Root[x])'
    BY <1>7
  <1>. QED BY <1>2, <1>3, <1>4, <1>5, <1>8, PostStep DEF InThread, Goto

LEMMA StartPostStep == ASSUME IInv, NEW h \in Handlers, StartPost(h) PROVE IInv'
  <1>1. at[h] \in Nat /\ at[h] <= Len(messages) /\ (stacked => at[h] = 0)
    BY Here DEF LocalOK
  <1>2. PICK n : n = Len(messages) + 1
    OBVIOUS
  <1>3. PICK x : x = Subject(h)
    OBVIOUS
  <1>4. Post(h, x, at[h])
    BY <1>3 DEF StartPost
  <1>. QED BY <1>1, <1>2, <1>3, <1>4, PostStep DEF StartPost, Goto

LEMMA SayMissingStep == ASSUME IInv, NEW h \in Handlers, SayMissing(h) PROVE IInv'
  <1>. USE DEF IInv
  <1>1. /\ pc[h] = "note" /\ job[h] = 0 /\ todo[h] = <<>> /\ ts[h] = 0 /\ Subject(h) = 0
        /\ at[h] \in Nat /\ at[h] <= Len(messages) /\ (stacked => at[h] = 0)
        /\ Len(messages) \in Nat /\ Note \notin Comments \cup {0} /\ 0 \notin Comments
        /\ UNCHANGED <<settings, inbox, threads, rows, upsets, again, unread, gaveUp, failed>>
    BY Here, Facts DEF SayMissing, LocalOK, ReviewSteps, PostSteps, Posted, db, ghosts
  <1>2. Said(Note, at[h]) /\ Grown
    BY <1>1, MessageAdded DEF SayMissing
  <1>3. Moves(h, "idle", 0, <<>>, 0, 0)
    BY Here, Moved DEF SayMissing, Done, Goto, Steps
  <1>4. /\ pc'[h] = "idle" /\ job'[h] = 0 /\ todo'[h] = <<>> /\ at'[h] = 0 /\ ts'[h] = 0
        /\ Subject(h)' = 0 /\ Others(h)
    BY <1>3 DEF Moves, Subject
  <1>5. Typed'
    BY <1>1, <1>2, <1>3 DEF Typed, Moves, Said, settings
  <1>6. PICK n : n = Len(messages) + 1
    OBVIOUS
  <1>7. /\ messages'[n].shows = Note /\ messages'[n].thread = at[h]
        /\ DOMAIN messages' = DOMAIN messages \cup {n} /\ Len(messages') = n
        /\ \A m \in DOMAIN messages : messages'[m] = messages[m]
    BY <1>1, <1>2, <1>6 DEF Said
  <1>8. Backed'
    <2>1. \A m \in DOMAIN messages' :
            messages'[m].thread < m /\ (stacked => messages'[m].thread = 0)
      BY <1>1, <1>6, <1>7 DEF Backed
    <2>2. \A i \in DOMAIN threads :
            threads[i].thread <= Len(messages') /\ (threads[i].thread = 0 <=> stacked)
      BY <1>1, <1>6, <1>7, Facts DEF Backed
    <2>3. \A i \in DOMAIN rows :
            rows[i].ts \in DOMAIN messages' /\ messages'[rows[i].ts].shows = rows[i].shows
      BY <1>7 DEF Backed
    <2>. QED BY <1>1, <2>1, <2>2, <2>3 DEF Backed, settings
  <1>9. LocalOK(h)'
    BY <1>1, <1>4, <1>6, <1>7 DEF LocalOK, ReviewSteps, CommentSteps, PostSteps, Posted
  <1>10. Locals'
    BY <1>1, <1>2, <1>4, <1>5, <1>9, LocalsKept
  <1>11. \A s : s # Note => ShownBy(s)' = ShownBy(s)
    BY <1>2, ShownMore
  <1>12. \A e : ~On(h, e)'
    BY <1>4 DEF On
  <1>13. Through(0)'
    <2>1. Noted'
      BY <1>7 DEF Noted, ShownBy
    <2>. QED BY <2>1 DEF Through
  <1>14. AccountStep(h)
    BY <1>1, <1>4, <1>12, <1>13 DEF AccountStep, PostSteps, On
  <1>15. Accounted'
    BY <1>1, <1>2, <1>4, <1>14, AccountedKept
  <1>16. EventStep(h) /\ ApartStep(h)
    BY <1>1, <1>12 DEF EventStep, ApartStep
  <1>17. UntouchedStep(h)
    BY <1>1, <1>11, <1>12 DEF UntouchedStep
  <1>18. Events' /\ Untouched' /\ Apart'
    BY <1>1, <1>4, <1>16, <1>17, EventsKept, UntouchedKept, ApartKept
  <1>19. Singles'
    <2>1. SingleStep(h)
      BY <1>1, <1>4 DEF SingleStep, Holds
    <2>2. \A s \in Comments \cup {0} : ShownBy(s)' = ShownBy(s)
      BY <1>1, <1>11
    <2>. QED BY <1>1, <1>4, <2>1, <2>2, SinglesQuiet
  <1>20. Agreements'
    <2>1. \A r : Starter(h, r)' <=> Starter(h, r)
      BY <1>1, <1>4 DEF Starter
    <2>. QED BY <1>1, <1>2, <1>4, <1>6, <2>1, AgreementsPosted
  <1>. QED BY <1>5, <1>8, <1>10, <1>15, <1>18, <1>19, <1>20

\* A handler maps what it posted, and goes on or ends.
LEMMA MapStep ==
  ASSUME IInv, NEW h \in Handlers, NEW p \in {"idle", "list", "next"},
         NEW t \in Seq(Roots), NEW a \in Nat, Moves(h, p, 0, t, a, 0),
         pc[h] \in {"mapSummary", "mapMessage"}, MapMessageRow(h),
         UNCHANGED <<settings, inbox, messages, threads, upsets, ghosts>>,
         p # "idle" => job[h] = 0, a = 0 \/ a = at[h] \/ (~stacked /\ a = ts[h]),
         p = "idle" => a = 0, p # "next" => t = <<>>, p # "idle" => Collapses,
         p = "next" => \A r \in Roots : ShownBy(r) # {} \/ \E i \in DOMAIN t : t[i] = r,
         p = "idle" => Through(job[h])
  PROVE  IInv'
  <1>. USE DEF IInv
  <1>1. /\ UNCHANGED <<inbox, messages, threads, upsets, again, unread, gaveUp, failed>>
        /\ UNCHANGED settings
    BY DEF ghosts
  <1>2. /\ pc'[h] = p /\ job'[h] = 0 /\ todo'[h] = t /\ at'[h] = a /\ ts'[h] = 0 /\ Others(h)
    BY DEF Moves
  <1>3. ts[h] \in DOMAIN messages /\ messages[ts[h]].shows = Subject(h) /\ ts[h] # 0
    BY Here DEF Posted, LocalOK
  <1>4. PICK e \in MessageRows : e = [shows |-> Subject(h), ts |-> ts[h]]
    BY Here, Facts DEF MessageRows
  <1>5. PICK n : n = Len(rows) + 1
    OBVIOUS
  <1>6. /\ rows' \in Seq(MessageRows) /\ DOMAIN rows' = DOMAIN rows \cup {n}
        /\ \A i \in DOMAIN rows : rows'[i] = rows[i]
        /\ rows'[n] = e
    BY <1>4, <1>5, RowAdded DEF MapMessageRow
  <1>7. Typed'
    BY <1>1, <1>6 DEF Typed, Moves, settings
  <1>8. Backed'
    <2>1. \A i \in DOMAIN rows' :
            rows'[i].ts \in DOMAIN messages /\ messages[rows'[i].ts].shows = rows'[i].shows
      BY <1>3, <1>4, <1>6 DEF Backed
    <2>. QED BY <1>1, <2>1 DEF Backed, settings
  <1>9. LocalOK(h)'
    BY <1>1, <1>2, <1>3, Here, Facts DEF LocalOK, Collapses, settings,
       ReviewSteps, CommentSteps, PostSteps, Posted
  <1>10. Grown
    BY <1>1 DEF Grown
  <1>11. Locals'
    BY <1>1, <1>2, <1>7, <1>9, <1>10, LocalsKept
  <1>12. \A s : ShownBy(s)' = ShownBy(s)
    BY <1>1 DEF ShownBy
  <1>13. \A e2 : Through(e2)' <=> Through(e2)
    BY <1>1, <1>12 DEF Through, Noted, Collapses, settings
  <1>14. \A e2 : On(h, e2)' <=> p # "idle" /\ e2 = 0
    BY <1>2 DEF On
  <1>15. AccountStep(h)
    <2>1. ASSUME pc'[h] \in PostSteps \cup {"next"}, job'[h] = 0, NEW r \in Roots
          PROVE  InTodo(h, r)' \/ ShownBy(r)' # {}
      BY <1>2, <1>12, <2>1 DEF InTodo, PostSteps
    <2>2. \A e2 \in Comments \cup {0} : On(h, e2) => On(h, e2)' \/ Through(e2)'
      BY <1>13, <1>14 DEF On
    <2>. QED BY <1>1, <2>1, <2>2 DEF AccountStep
  <1>16. Accounted'
    BY <1>1, <1>2, <1>10, <1>15, AccountedKept
  <1>17. EventStep(h)
    BY <1>1, <1>14 DEF EventStep, On
  <1>18. UntouchedStep(h)
    BY <1>2, <1>12 DEF UntouchedStep
  <1>19. ApartStep(h)
    BY <1>1, <1>14, Here DEF ApartStep, On
  <1>20. Events' /\ Untouched' /\ Apart'
    BY <1>1, <1>2, <1>17, <1>18, <1>19, EventsKept, UntouchedKept, ApartKept
  <1>21. Singles'
    <2>1. Holds(h, Subject(h)) /\ \A s : ~Holds(h, s)'
      BY <1>2 DEF Holds
    <2>. QED BY <1>1, <1>2, <2>1, SinglesMapped DEF MapMessageRow
  <1>22. Agreements'
    <2>1. AgreedStep(h)
      BY <1>1, <1>2 DEF AgreedStep, Starter
    <2>. QED BY <1>1, <1>2, <2>1, AgreementsQuiet
  <1>. QED BY <1>7, <1>8, <1>11, <1>16, <1>20, <1>21, <1>22

LEMMA MapSummaryStep == ASSUME IInv, NEW h \in Handlers, MapSummary(h) PROVE IInv'
  <1>1. /\ pc[h] = "mapSummary" /\ job[h] = 0 /\ todo[h] = <<>> /\ ts[h] \in Nat
        /\ ts[h] \in DOMAIN messages
        /\ MapMessageRow(h) /\ UNCHANGED <<settings, inbox, messages, threads, upsets, ghosts>>
    BY Here DEF MapSummary, LocalOK, ReviewSteps, PostSteps, Posted
  <1>2. CASE Collapses
    <2>1. PICK a \in Nat : a = IF stacked THEN 0 ELSE ts[h]
      BY <1>1
    <2>2. /\ pc' = [pc EXCEPT ![h] = "list"] /\ at' = [at EXCEPT ![h] = a]
          /\ ts' = [ts EXCEPT ![h] = 0] /\ UNCHANGED <<job, todo>>
      BY <1>2, <2>1 DEF MapSummary, Goto
    <2>3. "list" \in Steps /\ <<>> \in Seq(Roots) /\ 0 \in Nat /\ 0 \in Comments \cup {0} /\ Typed
      BY Here DEF Steps
    <2>4. Moves(h, "list", 0, <<>>, a, 0)
      BY ONLY <1>1, <2>1, <2>2, <2>3, h \in Handlers, Moved
    <2>. QED BY <1>1, <1>2, <2>1, <2>4, Here, MapStep
  <1>3. CASE ~Collapses
    <2>1. Moves(h, "idle", 0, <<>>, 0, 0)
      BY <1>3, Here, Moved DEF MapSummary, Done, Goto, Steps
    <2>2. Through(job[h])
      BY <1>1, <1>3 DEF Through
    <2>. QED BY <1>1, <2>1, <2>2, Here, MapStep
  <1>. QED BY <1>2, <1>3

LEMMA MapMessageStep == ASSUME IInv, NEW h \in Handlers, MapMessage(h) PROVE IInv'
  <1>1. /\ pc[h] = "mapMessage" /\ todo[h] \in Seq(Roots) /\ at[h] \in Nat
        /\ ts[h] \in DOMAIN messages /\ messages[ts[h]].shows = Subject(h)
        /\ MapMessageRow(h) /\ UNCHANGED <<settings, inbox, messages, threads, upsets, ghosts>>
    BY Here DEF MapMessage, Posted
  <1>2. ShownBy(Subject(h)) # {}
    BY <1>1 DEF ShownBy
  <1>3. CASE job[h] = 0
    <2>1. todo[h] # <<>> /\ Collapses /\ Subject(h) = Head(todo[h])
      BY <1>1, <1>3, Here, Facts DEF LocalOK, PostSteps
    <2>2. PICK t \in Seq(Roots) : t = Tail(todo[h])
      <3>1. \A t \in Seq(Roots) : t # <<>> => Tail(t) \in Seq(Roots)
        OBVIOUS
      <3>. QED BY <1>1, <2>1, <3>1
    <2>3. /\ pc' = [pc EXCEPT ![h] = "next"] /\ todo' = [todo EXCEPT ![h] = t]
          /\ ts' = [ts EXCEPT ![h] = 0] /\ UNCHANGED <<job, at>>
      BY <1>3, <2>2 DEF MapMessage, Goto
    <2>4. Moves(h, "next", 0, t, at[h], 0)
      <3>1. "next" \in Steps /\ 0 \in Nat /\ 0 \in Comments \cup {0} /\ Typed
        BY Here DEF Steps
      <3>. QED BY ONLY <1>1, <1>3, <2>2, <2>3, <3>1, h \in Handlers, Moved
    <2>5. ASSUME NEW r \in Roots PROVE ShownBy(r) # {} \/ \E i \in DOMAIN t : t[i] = r
      <3>1. InTodo(h, r) \/ ShownBy(r) # {}
        BY <1>1, <1>3 DEF IInv, Accounted, PostSteps
      <3>. QED BY <1>1, <1>2, <2>1, <2>2, <3>1, TailHas DEF InTodo
    <2>. QED BY <1>1, <1>3, <2>1, <2>4, <2>5, MapStep
  <1>4. CASE job[h] # 0
    <2>1. Moves(h, "idle", 0, <<>>, 0, 0)
      BY <1>4, Here, Moved DEF MapMessage, Done, Goto, Steps
    <2>2. Through(job[h])
      BY <1>2, <1>4, Here DEF Through, LocalOK, Subject
    <2>. QED BY <1>1, <2>1, <2>2, Here, MapStep
  <1>. QED BY <1>3, <1>4

LEMMA AddThreadStep == ASSUME IInv, NEW h \in Handlers, AddThread(h) PROVE IInv'
  <1>. USE DEF IInv
  <1>1. /\ pc[h] = "addThread" /\ UNCHANGED <<settings, inbox, messages, rows, locals, upsets, ghosts>>
        /\ UNCHANGED <<job, todo, at, ts, again, unread, gaveUp, failed>>
    BY DEF AddThread, locals, ghosts
  <1>2. /\ ts[h] \in DOMAIN messages /\ messages[ts[h]].shows = Subject(h) /\ ts[h] # 0
        /\ messages[ts[h]].thread = at[h] /\ at[h] \in Nat /\ ts[h] \in Nat
        /\ at[h] <= Len(messages) /\ ts[h] <= Len(messages) /\ (stacked => at[h] = 0)
        /\ job[h] # 0 \/ todo[h] # <<>>
    BY <1>1, Here DEF LocalOK, Posted, PostSteps
  <1>3. Subject(h) \in Comments /\ Root[Subject(h)] \in Roots
    BY <1>2, Facts, Here, ReviewSyncAssumption DEF Subject, Roots
  <1>4. PICK t \in Nat : t = Continues(h)
    BY <1>2 DEF Continues
  <1>5. /\ t <= Len(messages) /\ (t = 0 <=> stacked) /\ ThreadOf(ts[h]) = t
    BY <1>2, <1>4 DEF Continues, ThreadOf
  <1>6. PICK e \in ThreadRows : e = [root |-> Root[Subject(h)], thread |-> t]
    BY <1>3 DEF ThreadRows
  <1>7. threads' = Append(threads, e) /\ threads' = Append(threads, [root |-> Root[Subject(h)], thread |-> t])
    BY <1>4, <1>6 DEF AddThread
  <1>8. PICK n : n = Len(threads) + 1
    OBVIOUS
  <1>9. /\ threads' \in Seq(ThreadRows) /\ DOMAIN threads' = DOMAIN threads \cup {n}
        /\ \A i \in DOMAIN threads : threads'[i] = threads[i]
        /\ threads'[n] = e /\ e.thread = t
    BY <1>6, <1>7, <1>8, ThreadAdded
  <1>10. Moves(h, "mapMessage", job[h], todo[h], at[h], ts[h])
    BY <1>1, Here, Moved DEF AddThread, Goto, Steps
  <1>11. /\ pc'[h] = "mapMessage" /\ job'[h] = job[h] /\ todo'[h] = todo[h] /\ at'[h] = at[h]
         /\ ts'[h] = ts[h] /\ Subject(h)' = Subject(h) /\ Others(h)
    BY <1>10 DEF Moves, Subject
  <1>12. Typed'
    BY <1>1, <1>9, <1>10 DEF Typed, Moves, settings
  <1>13. Backed'
    <2>1. \A i \in DOMAIN threads' :
            threads'[i].thread <= Len(messages) /\ (threads'[i].thread = 0 <=> stacked)
      BY <1>5, <1>9 DEF Backed
    <2>. QED BY <1>1, <2>1 DEF Backed, settings
  <1>14. LocalOK(h)'
    BY <1>1, <1>2, <1>11, Here DEF LocalOK, Collapses, settings,
       ReviewSteps, CommentSteps, PostSteps, Posted
  <1>15. Grown /\ UNCHANGED settings
    BY <1>1 DEF Grown
  <1>16. Locals'
    BY <1>11, <1>12, <1>14, <1>15, LocalsKept
  <1>17. (\A s : ShownBy(s)' = ShownBy(s)) /\ \A x : On(h, x)' <=> On(h, x)
    BY <1>1, <1>11 DEF ShownBy, On
  <1>18. AccountStep(h)
    <2>1. ASSUME pc'[h] \in PostSteps \cup {"next"}, job'[h] = 0, NEW r \in Roots
          PROVE  InTodo(h, r)' \/ ShownBy(r)' # {}
      BY <1>1, <1>11, <1>17, <2>1 DEF Accounted, InTodo, PostSteps
    <2>. QED BY <1>1, <1>17, <2>1 DEF AccountStep
  <1>19. Accounted'
    BY <1>11, <1>15, <1>18, AccountedKept
  <1>20. EventStep(h) /\ ApartStep(h)
    BY <1>1, <1>17 DEF EventStep, ApartStep
  <1>21. UntouchedStep(h)
    BY <1>11, <1>17 DEF UntouchedStep
  <1>22. Events' /\ Untouched' /\ Apart'
    BY <1>11, <1>15, <1>20, <1>21, EventsKept, UntouchedKept, ApartKept
  <1>23. Singles'
    <2>1. \A s : Holds(h, s)' <=> Holds(h, s)
      BY <1>1, <1>11 DEF Holds
    <2>2. SingleStep(h)
      BY <1>1, <1>11, <2>1 DEF SingleStep
    <2>. QED BY <1>1, <1>11, <1>17, <2>2, SinglesQuiet
  <1>24. Agreements'
    <2>1. Starter(h, Root[Subject(h)]) /\ \A r : ~Starter(h, r)'
      BY <1>1, <1>11 DEF Starter
    <2>. QED BY <1>1, <1>2, <1>3, <1>5, <1>7, <1>11, <1>15, <2>1, AgreementsAdded
  <1>. QED BY <1>12, <1>13, <1>16, <1>19, <1>22, <1>23, <1>24

-----------------------------------------------------------------------------
(* The theorems *)

LEMMA InitInvariant == Init => IInv
  <1>. SUFFICES ASSUME Init PROVE IInv
    OBVIOUS
  <1>1. /\ messages = <<>> /\ threads = <<>> /\ rows = <<>>
        /\ DOMAIN messages = {} /\ DOMAIN threads = {} /\ DOMAIN rows = {} /\ Len(messages) = 0
        /\ \A h \in Handlers :
             pc[h] = "idle" /\ job[h] = 0 /\ todo[h] = <<>> /\ at[h] = 0 /\ ts[h] = 0
        /\ inbox = Comments \cup {0} /\ again = {} /\ unread = {} /\ gaveUp = {} /\ failed = {}
    BY DEF Init
  <1>2. {collapse, stacked} \subseteq BOOLEAN /\ review \in {"text", "verdict", "bare"}
    BY ReviewSyncAssumption DEF Init
  <1>3. messages \in Seq(Messages) /\ threads \in Seq(ThreadRows) /\ rows \in Seq(MessageRows)
    BY <1>1
  <1>4. <<>> \in Seq(Roots)
    OBVIOUS
  <1>5. Typed
    BY <1>1, <1>2, <1>3, <1>4, ReviewSyncAssumption DEF Init, Typed, Steps
  <1>6. Backed
    BY <1>1 DEF Backed
  <1>7. Locals
    BY <1>1 DEF Locals, LocalOK, ReviewSteps, CommentSteps, PostSteps, Posted
  <1>8. (\A s : ShownBy(s) = {}) /\ \A h \in Handlers : \A e : ~On(h, e)
    BY <1>1 DEF ShownBy, On
  <1>9. Accounted /\ Events /\ Untouched /\ Apart
    BY <1>1, <1>8 DEF Accounted, Events, Untouched, Apart, PostSteps, Busy, On
  <1>10. Singles
    BY <1>1, <1>8 DEF Singles, Single, Holds
  <1>11. Agreements
    BY <1>1 DEF Agreements, Agreed, Starter, Row
  <1>. QED BY <1>5, <1>6, <1>7, <1>9, <1>10, <1>11 DEF IInv

LEMMA StepInvariant == IInv /\ [Next]_vars => IInv'
  <1>. SUFFICES ASSUME IInv, [Next]_vars PROVE IInv'
    OBVIOUS
  <1>1. CASE UNCHANGED vars
    <2>1. UNCHANGED <<collapse, stacked, review, inbox, messages, threads, rows,
                      pc, job, todo, at, ts, upsets, again, unread, gaveUp, failed>>
      BY <1>1 DEF vars, settings, db, locals, ghosts
    <2>2. Typed' /\ Backed' /\ Locals'
      BY <2>1 DEF IInv, Typed, Backed, Locals, LocalOK, Subject, Collapses
    <2>3. Accounted' /\ Events' /\ Untouched' /\ Apart'
      BY <2>1 DEF IInv, Accounted, Events, Untouched, Apart, InTodo, ShownBy, Busy, Through,
         Noted, Collapses, Counted, On
    <2>4. Singles'
      BY <2>1 DEF IInv, Singles, Single, Holds, Subject, ShownBy, Mapped
    <2>5. Agreements'
      BY <2>1 DEF IInv, Agreements, Agreed, Starter, Subject, Row, InRow, ThreadOf, ShownBy, Collapses
    <2>. QED BY <2>2, <2>3, <2>4, <2>5 DEF IInv
  <1>2. ASSUME NEW e \in Comments \cup {0}, Redeliver(e) PROVE IInv'
    BY <1>2, RedeliverStep
  <1>3. ASSUME NEW h \in Handlers, Step(h) PROVE IInv'
    BY <1>3, ReceiveReviewStep, SummaryStep, MapSummaryStep, ListStep, SayMissingStep,
       NextCommentStep, ReceiveCommentStep, ReadStep, FindStep, WaitStep, InThreadStep,
       StartPostStep, LookThreadStep, AddThreadStep, MapMessageStep DEF Step
  <1>4. ASSUME NEW h \in Handlers,
               SummaryFails(h) \/ ListFails(h) \/ ReadFails(h) \/ ThreadGone(h) \/ Die(h)
        PROVE  IInv'
    BY <1>4, SummaryFailsStep, ListFailsStep, ReadFailsStep, ThreadGoneStep, DieStep
  <1>. QED BY <1>1, <1>2, <1>3, <1>4 DEF Next

LEMMA Invariant == Spec => []IInv
BY InitInvariant, StepInvariant, PTL DEF Spec

\* Every variable keeps its type: every row names a message that exists, every
\* thread mapping a message or, for a stacked pull request, its own thread.
THEOREM ReviewsTyped == Spec => []TypeOK
  <1>1. IInv => TypeOK
    BY Types DEF IInv
  <1>. QED BY <1>1, Invariant, PTL

\* The summary and every comment get one message at most, whichever of the two
\* handlers posts a comment and in whatever order the events come, unless its
\* event came twice, a handler ended between posting and mapping it, or its
\* handler could not read the review.
THEOREM ShowsOnce == Spec => []ShownOnce
  <1>1. IInv => ShownOnce
    BY Once DEF IInv
  <1>. QED BY <1>1, Invariant, PTL

\* When all is handled, every comment is shown or Slack says that comments are
\* missing, unless a handler that was to show it died: neither handler leaves to
\* the other what the other leaves to it.
THEOREM LosesNone == Spec => []NoneLost
  <1>1. IInv => NoneLost
    BY Kept DEF IInv
  <1>. QED BY <1>1, Invariant, PTL

\* The comments of a GitHub thread are in the Slack thread of its first comment,
\* where no reply waited in vain and no two handlers started the thread together.
THEOREM KeepsThreads == Spec => []OneThread
  <1>1. IInv => OneThread
    BY Together DEF IInv
  <1>. QED BY <1>1, Invariant, PTL

\* Where an answer in a Slack thread goes to a GitHub thread, every comment shown
\* in that Slack thread is of that GitHub thread.
THEOREM RoutesAnswers == Spec => []AnswersRight
  <1>1. IInv => AnswersRight
    BY Answered DEF IInv
  <1>. QED BY <1>1, Invariant, PTL
=============================================================================
