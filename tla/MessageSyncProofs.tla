-------------------------- MODULE MessageSyncProofs ---------------------------
(***************************************************************************)
(* Nothing the app writes comes back, and what people write on one side is *)
(* shown on the other, for any number of pull requests, handlers,          *)
(* comments, messages and failures (MessageSync).                          *)
(***************************************************************************)
EXTENDS MessageSync, FiniteSetTheorems, SequenceTheorems, NaturalsInduction,
        WellFoundedInduction, TLAPS

(* The inductive invariant *)

\* Records as they are built; what does not matter here is of any set U.
CommentsOf(U) == [pr : U, of : Nat, text : U, tagged : BOOLEAN, live : BOOLEAN]
MessagesOf(U) == [by : {"person", "app", "notice", "parent"}, of : Nat, thread : U,
                  text : U, part : U, live : BOOLEAN]
RowsOf(U) == [pr : U, ts : U, extra : U, comment : U, origin : {"github", "slack"},
              live : BOOLEAN]

Stages == {"idle", "post", "map", "resync", "setExtra", "unpost", "comment", "record",
           "notice", "edit", "uncomment", "dropRow"}

Typed ==
  /\ \E U : comments \in Seq(CommentsOf(U))
  /\ \E U : messages \in Seq(MessagesOf(U))
  /\ \E U : rows \in Seq(RowsOf(U))
  /\ pc \in [Handlers -> Stages] /\ DOMAIN job = Handlers

\* A person's comment, a person's message.
OwnComment(c) == c \in DOMAIN comments /\ comments[c].of = 0
OwnMessage(m) == m \in DOMAIN messages /\ messages[m].by = "person"

\* Whatever the app made it made of a person's.
Copies ==
  /\ \A c \in DOMAIN comments : comments[c].of # 0 => OwnMessage(comments[c].of)
  /\ \A m \in DOMAIN messages :
       /\ messages[m].by = "app" => OwnComment(messages[m].of)
       /\ messages[m].by = "notice" => OwnMessage(messages[m].of)

\* What is reported as new, and not marked as the app's, is a person's.
Reported ==
  \A e \in inbox : e.kind = "new" /\ e.plain =>
    /\ e.side = "github" => OwnComment(e.item)
    /\ e.side = "slack" => OwnMessage(e.item)

\* A row that says a comment came first names a person's comment.
Origins ==
  \A i \in DOMAIN rows : rows[i].origin = "github" => OwnComment(rows[i].comment)

\* A handler that is to copy something copies a person's.
Sources ==
  \A h \in Handlers :
    /\ pc[h] \in {"post", "map", "resync"} => OwnComment(job[h].item)
    /\ pc[h] \in {"comment", "record", "notice"} => OwnMessage(job[h].item)

IInv == Typed /\ Copies /\ Reported /\ Origins /\ Sources

-----------------------------------------------------------------------------
(* The rows of a comment *)

LEMMA MinInside ==
  ASSUME NEW S \in SUBSET Nat, S # {}
  PROVE  Min(S) \in S
  <1>. DEFINE R == {p \in Nat \X Nat : p[1] < p[2]}
  <1>1. IsWellFoundedOn(R, Nat)
    BY NatLessThanWellFounded DEF OpToRel
  <1>. HIDE DEF R
  <1>2. PICK x \in S : \A y \in S : <<y, x>> \notin R
    BY <1>1, WFMin
  <1>3. ASSUME NEW y \in S PROVE x <= y
    <2>1. x \in Nat /\ y \in Nat /\ <<y, x>> \notin R
      BY <1>2
    <2>2. y < x => <<y, x>> \in R
      BY <2>1 DEF R
    <2>. QED BY <2>1, <2>2
  <1>. QED BY <1>3 DEF Min

LEMMA RowFound ==
  ASSUME Typed, NEW c, RowOfComment(c) # 0
  PROVE  RowOfComment(c) \in DOMAIN rows /\ rows[RowOfComment(c)].comment = c
  <1>. DEFINE found == {i \in DOMAIN rows : rows[i].live /\ rows[i].comment = c}
  <1>1. DOMAIN rows \subseteq Nat
    BY DEF Typed
  <1>2. RowOfComment(c) = Min(found) /\ found # {}
    BY DEF RowOfComment
  <1>3. Min(found) \in found
    <2>1. found \in SUBSET Nat
      BY <1>1
    <2>. HIDE DEF found
    <2>. QED BY <1>2, <2>1, MinInside
  <1>. QED BY <1>2, <1>3

-----------------------------------------------------------------------------
(* What a step does to the sequences *)

\* Nothing becomes another's that was a person's or the app's.
CommentsKept ==
  /\ (\E U : comments \in Seq(CommentsOf(U)))'
  /\ DOMAIN comments \subseteq DOMAIN comments'
  /\ \A c \in DOMAIN comments : comments'[c].of = comments[c].of

MessagesKept ==
  /\ (\E U : messages \in Seq(MessagesOf(U)))'
  /\ DOMAIN messages \subseteq DOMAIN messages'
  /\ \A m \in DOMAIN messages :
       messages'[m].by = messages[m].by /\ messages'[m].of = messages[m].of

LEMMA CommentAdded ==
  ASSUME Typed, NEW p, NEW of \in Nat, NEW t, NEW tagged \in BOOLEAN,
         comments' = Append(comments, [pr |-> p, of |-> of, text |-> t,
                                       tagged |-> tagged, live |-> TRUE])
  PROVE  /\ CommentsKept
         /\ DOMAIN comments' = DOMAIN comments \cup {Len(comments) + 1}
         /\ comments'[Len(comments) + 1].of = of
  <1>1. PICK U : comments \in Seq(CommentsOf(U))
    BY DEF Typed
  <1>. DEFINE V == U \cup {p, t}
  <1>. DEFINE new == [pr |-> p, of |-> of, text |-> t, tagged |-> tagged, live |-> TRUE]
  <1>2. comments \in Seq(CommentsOf(V))
    <2>1. CommentsOf(U) \subseteq CommentsOf(V)
      BY DEF CommentsOf
    <2>. HIDE DEF V
    <2>. QED BY <1>1, <2>1
  <1>3. new \in CommentsOf(V) /\ new.of = of
    BY DEF CommentsOf
  <1>. HIDE DEF V, new
  <1>4. comments' \in Seq(CommentsOf(V))
    BY <1>2, <1>3 DEF new
  <1>5. /\ DOMAIN comments' = DOMAIN comments \cup {Len(comments) + 1}
        /\ \A c \in DOMAIN comments : comments'[c] = comments[c]
        /\ comments'[Len(comments) + 1] = new
    BY <1>2, <1>3 DEF new
  <1>6. (\E W : comments \in Seq(CommentsOf(W)))'
    BY <1>4
  <1>. QED BY <1>3, <1>5, <1>6 DEF CommentsKept

LEMMA CommentChanged ==
  ASSUME Typed, NEW c, NEW t, NEW g \in BOOLEAN,
         \/ comments' = [comments EXCEPT ![c].text = t]
         \/ comments' = [comments EXCEPT ![c].text = t, ![c].tagged = g]
         \/ comments' = [comments EXCEPT ![c].live = FALSE]
         \/ UNCHANGED comments
  PROVE  CommentsKept /\ DOMAIN comments' = DOMAIN comments
  <1>1. PICK U : comments \in Seq(CommentsOf(U))
    BY DEF Typed
  <1>. DEFINE V == U \cup {t}
  <1>2. comments \in [1..Len(comments) -> CommentsOf(V)] /\ Len(comments) \in Nat
    <2>1. CommentsOf(U) \subseteq CommentsOf(V)
      BY DEF CommentsOf
    <2>. HIDE DEF V
    <2>. QED BY <1>1, <2>1
  <1>3. t \in V
    OBVIOUS
  <1>. HIDE DEF V
  <1>4. comments' \in [1..Len(comments) -> CommentsOf(V)]
    <2>1. CASE comments' = [comments EXCEPT ![c].text = t]
      BY <2>1, <1>2, <1>3 DEF CommentsOf
    <2>2. CASE comments' = [comments EXCEPT ![c].text = t, ![c].tagged = g]
      BY <2>2, <1>2, <1>3 DEF CommentsOf
    <2>3. CASE comments' = [comments EXCEPT ![c].live = FALSE]
      BY <2>3, <1>2, <1>3 DEF CommentsOf
    <2>. QED BY <1>2, <2>1, <2>2, <2>3
  <1>5. \A k \in DOMAIN comments : comments'[k].of = comments[k].of
    <2>1. CASE comments' = [comments EXCEPT ![c].text = t]
      BY <2>1, <1>2 DEF CommentsOf
    <2>2. CASE comments' = [comments EXCEPT ![c].text = t, ![c].tagged = g]
      BY <2>2, <1>2 DEF CommentsOf
    <2>3. CASE comments' = [comments EXCEPT ![c].live = FALSE]
      BY <2>3, <1>2 DEF CommentsOf
    <2>. QED BY <2>1, <2>2, <2>3
  <1>6. comments' \in Seq(CommentsOf(V))
    BY <1>2, <1>4
  <1>7. (\E W : comments \in Seq(CommentsOf(W)))'
    BY <1>6
  <1>. QED BY <1>2, <1>4, <1>5, <1>7 DEF CommentsKept

LEMMA MessageAdded ==
  ASSUME Typed, NEW by \in {"person", "app", "notice", "parent"}, NEW of \in Nat,
         NEW thread, NEW text, NEW part,
         messages' = Append(messages, Message(by, of, thread, text, part))
  PROVE  /\ MessagesKept
         /\ DOMAIN messages' = DOMAIN messages \cup {Len(messages) + 1}
         /\ messages'[Len(messages) + 1].by = by /\ messages'[Len(messages) + 1].of = of
  <1>1. PICK U : messages \in Seq(MessagesOf(U))
    BY DEF Typed
  <1>. DEFINE V == U \cup {thread, text, part}
  <1>. DEFINE new == Message(by, of, thread, text, part)
  <1>2. messages \in Seq(MessagesOf(V))
    <2>1. MessagesOf(U) \subseteq MessagesOf(V)
      BY DEF MessagesOf
    <2>. HIDE DEF V
    <2>. QED BY <1>1, <2>1
  <1>3. new \in MessagesOf(V) /\ new.by = by /\ new.of = of
    BY DEF Message, MessagesOf
  <1>. HIDE DEF V, new
  <1>4. messages' \in Seq(MessagesOf(V))
    BY <1>2, <1>3 DEF new
  <1>5. /\ DOMAIN messages' = DOMAIN messages \cup {Len(messages) + 1}
        /\ \A m \in DOMAIN messages : messages'[m] = messages[m]
        /\ messages'[Len(messages) + 1] = new
    BY <1>2, <1>3 DEF new
  <1>6. (\E W : messages \in Seq(MessagesOf(W)))'
    BY <1>4
  <1>. QED BY <1>3, <1>5, <1>6 DEF MessagesKept

LEMMA MessageChanged ==
  ASSUME Typed, NEW m, NEW t,
         \/ messages' = [messages EXCEPT ![m].text = t]
         \/ messages' = [messages EXCEPT ![m].part = t]
         \/ messages' = [messages EXCEPT ![m].live = FALSE]
         \/ UNCHANGED messages
  PROVE  MessagesKept /\ DOMAIN messages' = DOMAIN messages
  <1>1. PICK U : messages \in Seq(MessagesOf(U))
    BY DEF Typed
  <1>. DEFINE V == U \cup {t}
  <1>2. messages \in [1..Len(messages) -> MessagesOf(V)] /\ Len(messages) \in Nat
    <2>1. MessagesOf(U) \subseteq MessagesOf(V)
      BY DEF MessagesOf
    <2>. HIDE DEF V
    <2>. QED BY <1>1, <2>1
  <1>3. t \in V
    OBVIOUS
  <1>. HIDE DEF V
  <1>4. messages' \in [1..Len(messages) -> MessagesOf(V)]
    BY <1>2, <1>3 DEF MessagesOf
  <1>5. \A k \in DOMAIN messages :
          messages'[k].by = messages[k].by /\ messages'[k].of = messages[k].of
    BY <1>2 DEF MessagesOf
  <1>6. messages' \in Seq(MessagesOf(V))
    BY <1>2, <1>4
  <1>7. (\E W : messages \in Seq(MessagesOf(W)))'
    BY <1>6
  <1>. QED BY <1>2, <1>4, <1>5, <1>7 DEF MessagesKept

LEMMA RowAdded ==
  ASSUME Typed, NEW p, NEW ts, NEW extra, NEW comment, NEW origin \in {"github", "slack"},
         rows' = Append(rows, [pr |-> p, ts |-> ts, extra |-> extra, comment |-> comment,
                               origin |-> origin, live |-> TRUE])
  PROVE  /\ (\E U : rows \in Seq(RowsOf(U)))'
         /\ DOMAIN rows' = DOMAIN rows \cup {Len(rows) + 1}
         /\ \A i \in DOMAIN rows : rows'[i] = rows[i]
         /\ rows'[Len(rows) + 1].origin = origin /\ rows'[Len(rows) + 1].comment = comment
  <1>1. PICK U : rows \in Seq(RowsOf(U))
    BY DEF Typed
  <1>. DEFINE V == U \cup {p, ts, extra, comment}
  <1>. DEFINE new == [pr |-> p, ts |-> ts, extra |-> extra, comment |-> comment,
                      origin |-> origin, live |-> TRUE]
  <1>2. rows \in Seq(RowsOf(V))
    <2>1. RowsOf(U) \subseteq RowsOf(V)
      BY DEF RowsOf
    <2>. HIDE DEF V
    <2>. QED BY <1>1, <2>1
  <1>3. new \in RowsOf(V) /\ new.origin = origin /\ new.comment = comment
    BY DEF RowsOf
  <1>4. rows' = Append(rows, new)
    OBVIOUS
  <1>. HIDE DEF V, new
  <1>5. rows' \in Seq(RowsOf(V))
    BY <1>2, <1>3, <1>4
  <1>6. (\E W : rows \in Seq(RowsOf(W)))'
    BY <1>5
  <1>. QED BY <1>2, <1>3, <1>4, <1>6

LEMMA RowChanged ==
  ASSUME Typed, NEW i, NEW x,
         \/ rows' = [rows EXCEPT ![i].extra = x]
         \/ rows' = [rows EXCEPT ![i].live = FALSE]
         \/ UNCHANGED rows
  PROVE  /\ (\E U : rows \in Seq(RowsOf(U)))'
         /\ DOMAIN rows' = DOMAIN rows
         /\ \A k \in DOMAIN rows :
              rows'[k].origin = rows[k].origin /\ rows'[k].comment = rows[k].comment
  <1>1. PICK U : rows \in Seq(RowsOf(U))
    BY DEF Typed
  <1>. DEFINE V == U \cup {x}
  <1>2. rows \in [1..Len(rows) -> RowsOf(V)] /\ Len(rows) \in Nat
    <2>1. RowsOf(U) \subseteq RowsOf(V)
      BY DEF RowsOf
    <2>. HIDE DEF V
    <2>. QED BY <1>1, <2>1
  <1>3. x \in V
    OBVIOUS
  <1>. HIDE DEF V
  <1>4. rows' \in [1..Len(rows) -> RowsOf(V)]
    BY <1>2, <1>3 DEF RowsOf
  <1>5. \A k \in DOMAIN rows :
          rows'[k].origin = rows[k].origin /\ rows'[k].comment = rows[k].comment
    BY <1>2 DEF RowsOf
  <1>6. rows' \in Seq(RowsOf(V))
    BY <1>2, <1>4
  <1>7. (\E W : rows \in Seq(RowsOf(W)))'
    BY <1>6
  <1>. QED BY <1>2, <1>4, <1>5, <1>7

-----------------------------------------------------------------------------
(* Steps *)

\* What is new was made of a person's.
NewCopies ==
  /\ \A c \in DOMAIN comments' \ DOMAIN comments :
       comments'[c].of # 0 => OwnMessage(comments'[c].of)
  /\ \A m \in DOMAIN messages' \ DOMAIN messages :
       /\ messages'[m].by = "app" => OwnComment(messages'[m].of)
       /\ messages'[m].by = "notice" => OwnMessage(messages'[m].of)

LEMMA WorldKept ==
  ASSUME Copies, CommentsKept, MessagesKept, NewCopies
  PROVE  /\ Copies'
         /\ \A c : OwnComment(c) => OwnComment(c)'
         /\ \A m : OwnMessage(m) => OwnMessage(m)'
  <1>1. \A c : OwnComment(c) => OwnComment(c)'
    BY DEF OwnComment, CommentsKept
  <1>2. \A m : OwnMessage(m) => OwnMessage(m)'
    BY DEF OwnMessage, MessagesKept
  <1>3. \A c \in DOMAIN comments' : comments'[c].of # 0 => OwnMessage(comments'[c].of)
    BY DEF Copies, CommentsKept, NewCopies
  <1>4. \A m \in DOMAIN messages' :
          /\ messages'[m].by = "app" => OwnComment(messages'[m].of)
          /\ messages'[m].by = "notice" => OwnMessage(messages'[m].of)
    BY DEF Copies, MessagesKept, NewCopies
  <1>5. Copies'
    BY <1>1, <1>2, <1>3, <1>4 DEF Copies
  <1>. QED BY <1>1, <1>2, <1>5

\* A person's act reports what is a person's as such.
LEMMA ActStep ==
  ASSUME IInv, CommentsKept, MessagesKept, NewCopies,
         NEW kind, NEW side, NEW item, NEW text, NEW plain,
         Act(kind, side, item, text, plain),
         kind = "new" /\ side = "github" => OwnComment(item)',
         kind = "new" /\ side = "slack" => OwnMessage(item)'
  PROVE  IInv'
  <1>1. /\ Copies' /\ \A c : OwnComment(c) => OwnComment(c)'
        /\ \A m : OwnMessage(m) => OwnMessage(m)'
    BY WorldKept DEF IInv
  <1>2. /\ UNCHANGED <<rows, pc, job>>
        /\ \A e \in inbox' : e \in inbox \/ e = Event(acts + 1, side, kind, item, text, plain)
    BY DEF Act, handlers
  <1>3. Typed'
    BY <1>2 DEF IInv, Typed, CommentsKept, MessagesKept
  <1>4. Reported'
    <2>1. ASSUME NEW e \in inbox', e.kind = "new", e.plain
          PROVE  /\ e.side = "github" => OwnComment(e.item)'
                 /\ e.side = "slack" => OwnMessage(e.item)'
      <3>1. CASE e \in inbox
        BY <2>1, <3>1, <1>1 DEF IInv, Reported
      <3>2. CASE e = Event(acts + 1, side, kind, item, text, plain)
        BY <2>1, <3>2 DEF Event
      <3>. QED BY <3>1, <3>2, <1>2
    <2>. QED BY <2>1 DEF Reported
  <1>5. Origins'
    BY <1>1, <1>2 DEF IInv, Origins
  <1>6. Sources'
    BY <1>1, <1>2 DEF IInv, Sources
  <1>. QED BY <1>1, <1>3, <1>4, <1>5, <1>6 DEF IInv

\* What each kind of step is held to for what it copies.
Copying(step, item) ==
  /\ step \in {"post", "map", "resync"} => OwnComment(item)
  /\ step \in {"comment", "record", "notice"} => OwnMessage(item)

\* A handler's step.
LEMMA Progress ==
  ASSUME IInv, NEW h \in Handlers, CommentsKept, MessagesKept, NewCopies,
         (\E U : rows \in Seq(RowsOf(U)))',
         \A i \in DOMAIN rows' : rows'[i].origin = "github" => OwnComment(rows'[i].comment),
         inbox' \subseteq inbox,
         \/ Done(h)
         \/ UNCHANGED <<pc, job>>
         \/ \E step \in Stages : Goto(h, step) /\ Copying(step, job[h].item)
         \/ \E step \in Stages : \E e, i, p : Begin(h, e, step, i, p) /\ Copying(step, e.item)
  PROVE  IInv'
  <1>1. /\ Copies' /\ \A c : OwnComment(c) => OwnComment(c)'
        /\ \A m : OwnMessage(m) => OwnMessage(m)'
    BY WorldKept DEF IInv
  <1>2. pc \in [Handlers -> Stages] /\ DOMAIN job = Handlers
    BY DEF IInv, Typed
  <1>3. /\ pc' \in [Handlers -> Stages] /\ DOMAIN job' = Handlers
        /\ \A g \in Handlers \ {h} : pc'[g] = pc[g] /\ job'[g] = job[g]
        /\ Copying(pc'[h], job'[h].item)
    <2>1. CASE Done(h)
      <3>1. pc' = [pc EXCEPT ![h] = "idle"] /\ job' = [job EXCEPT ![h] = None]
        BY <2>1 DEF Done
      <3>2. pc'[h] = "idle" /\ pc' \in [Handlers -> Stages]
        BY <1>2, <3>1 DEF Stages
      <3>3. DOMAIN job' = Handlers /\ \A g \in Handlers \ {h} : job'[g] = job[g]
        BY <1>2, <3>1
      <3>4. \A g \in Handlers \ {h} : pc'[g] = pc[g]
        BY <1>2, <3>1
      <3>5. Copying(pc'[h], job'[h].item)
        BY <3>2 DEF Copying
      <3>. QED BY <3>2, <3>3, <3>4, <3>5
    <2>2. CASE UNCHANGED <<pc, job>>
      BY <1>2, <2>2 DEF IInv, Sources, Copying
    <2>3. ASSUME NEW step \in Stages, Goto(h, step), Copying(step, job[h].item)
          PROVE  /\ pc' \in [Handlers -> Stages] /\ DOMAIN job' = Handlers
                 /\ \A g \in Handlers \ {h} : pc'[g] = pc[g] /\ job'[g] = job[g]
                 /\ Copying(pc'[h], job'[h].item)
      <3>1. pc' = [pc EXCEPT ![h] = step] /\ job' = job
        BY <2>3 DEF Goto
      <3>2. pc'[h] = step /\ job'[h] = job[h]
        BY <1>2, <3>1
      <3>. QED BY <1>2, <2>3, <3>1, <3>2
    <2>4. ASSUME NEW step \in Stages, NEW e, NEW i, NEW p, Begin(h, e, step, i, p),
                 Copying(step, e.item)
          PROVE  /\ pc' \in [Handlers -> Stages] /\ DOMAIN job' = Handlers
                 /\ \A g \in Handlers \ {h} : pc'[g] = pc[g] /\ job'[g] = job[g]
                 /\ Copying(pc'[h], job'[h].item)
      <3>1. pc' = [pc EXCEPT ![h] = step] /\ job' = [job EXCEPT ![h] = e]
        BY <2>4 DEF Begin
      <3>2. pc'[h] = step /\ job'[h] = e
        BY <1>2, <3>1
      <3>. QED BY <1>2, <2>4, <3>1, <3>2
    <2>. QED BY <2>1, <2>2, <2>3, <2>4
  <1>4. Typed'
    BY <1>3 DEF Typed, CommentsKept, MessagesKept
  <1>5. Reported'
    BY <1>1 DEF IInv, Reported
  <1>6. Origins'
    BY <1>1 DEF Origins
  <1>7. Sources'
    BY <1>1, <1>3 DEF IInv, Sources, Copying
  <1>. QED BY <1>1, <1>4, <1>5, <1>6, <1>7 DEF IInv

LEMMA SameComments ==
  ASSUME Typed, UNCHANGED comments
  PROVE  CommentsKept /\ DOMAIN comments' = DOMAIN comments
BY CommentChanged

LEMMA SameMessages ==
  ASSUME Typed, UNCHANGED messages
  PROVE  MessagesKept /\ DOMAIN messages' = DOMAIN messages
BY MessageChanged

LEMMA SameRows ==
  ASSUME IInv, UNCHANGED rows
  PROVE  /\ (\E U : rows \in Seq(RowsOf(U)))'
         /\ \A i \in DOMAIN rows' : rows'[i].origin = "github" => OwnComment(rows'[i].comment)
BY DEF IInv, Typed, Origins

\* A handler's step that leaves both sides and the rows alone.
LEMMA AsideStep ==
  ASSUME IInv, NEW h \in Handlers, UNCHANGED <<comments, messages, rows>>,
         inbox' \subseteq inbox,
         \/ Done(h)
         \/ UNCHANGED <<pc, job>>
         \/ \E step \in Stages : Goto(h, step) /\ Copying(step, job[h].item)
         \/ \E step \in Stages : \E e, i, p : Begin(h, e, step, i, p) /\ Copying(step, e.item)
  PROVE  IInv'
  <1>1. CommentsKept /\ MessagesKept /\ NewCopies
    BY SameComments, SameMessages DEF IInv, NewCopies
  <1>2. /\ (\E U : rows \in Seq(RowsOf(U)))'
        /\ \A i \in DOMAIN rows' : rows'[i].origin = "github" => OwnComment(rows'[i].comment)
    BY SameRows
  <1>. QED BY <1>1, <1>2, Progress

\* One that changes comments or messages it found.
LEMMA ChangeStep ==
  ASSUME IInv, NEW h \in Handlers, UNCHANGED <<rows, inbox>>,
         CommentsKept, DOMAIN comments' = DOMAIN comments,
         MessagesKept, DOMAIN messages' = DOMAIN messages,
         \/ Done(h)
         \/ \E step \in Stages : Goto(h, step) /\ Copying(step, job[h].item)
  PROVE  IInv'
  <1>1. NewCopies
    BY DEF NewCopies
  <1>2. /\ (\E U : rows \in Seq(RowsOf(U)))'
        /\ \A i \in DOMAIN rows' : rows'[i].origin = "github" => OwnComment(rows'[i].comment)
    BY SameRows
  <1>. QED BY <1>1, <1>2, Progress

\* The app says something.
LEMMA SayStep ==
  ASSUME IInv, NEW h \in Handlers, UNCHANGED <<comments, rows, inbox>>,
         NEW by \in {"app", "notice"}, NEW thread, NEW part,
         Say(by, job[h].item, thread, part),
         by = "app" => OwnComment(job[h].item),
         by = "notice" => OwnMessage(job[h].item),
         \/ Done(h)
         \/ \E step \in Stages : Goto(h, step) /\ Copying(step, job[h].item)
  PROVE  IInv'
  <1>1. job[h].item \in Nat
    BY DEF IInv, Typed, OwnComment, OwnMessage
  <1>2. messages' = Append(messages, Message(by, job[h].item, thread, None, part))
    BY DEF Say
  <1>3. /\ MessagesKept /\ DOMAIN messages' = DOMAIN messages \cup {Len(messages) + 1}
        /\ messages'[Len(messages) + 1].by = by
        /\ messages'[Len(messages) + 1].of = job[h].item
    BY <1>1, <1>2, MessageAdded DEF IInv
  <1>4. CommentsKept /\ DOMAIN comments' = DOMAIN comments
    BY SameComments DEF IInv
  <1>5. NewCopies
    BY <1>3, <1>4 DEF NewCopies
  <1>6. /\ (\E U : rows \in Seq(RowsOf(U)))'
        /\ \A i \in DOMAIN rows' : rows'[i].origin = "github" => OwnComment(rows'[i].comment)
    BY SameRows
  <1>. QED BY <1>3, <1>4, <1>5, <1>6, Progress

-----------------------------------------------------------------------------
(* GitHub's events *)

LEMMA PostStep ==
  ASSUME IInv, NEW h \in Handlers, Post(h)
  PROVE  IInv'
  <1>. DEFINE k == Len(sent[h]) + 1
  <1>. DEFINE step == IF k = Len(Parts[job[h].text]) THEN "map" ELSE "post"
  <1>1. OwnComment(job[h].item)
    BY DEF Post, IInv, Sources
  <1>2. /\ Say("app", job[h].item, Reply(h), Parts[job[h].text][k])
        /\ UNCHANGED <<comments, rows, inbox>>
        /\ Goto(h, step) /\ step \in Stages
    BY DEF Post, Stages
  <1>3. Copying(step, job[h].item)
    BY <1>1 DEF Copying
  <1>. HIDE DEF k, step
  <1>. QED BY <1>1, <1>2, <1>3, SayStep

LEMMA MapCommentStep ==
  ASSUME IInv, NEW h \in Handlers, MapComment(h)
  PROVE  IInv'
  <1>1. OwnComment(job[h].item)
    BY DEF MapComment, IInv, Sources
  <1>2. /\ rows' = Append(rows, [pr |-> pr[h], ts |-> sent[h][1], extra |-> Tail(sent[h]),
                                 comment |-> job[h].item, origin |-> "github", live |-> TRUE])
        /\ UNCHANGED <<comments, messages, inbox>> /\ Done(h)
    BY DEF MapComment, Insert, world
  <1>3. CommentsKept /\ MessagesKept /\ NewCopies
    BY <1>2, SameComments, SameMessages DEF IInv, NewCopies
  <1>4. /\ (\E U : rows \in Seq(RowsOf(U)))'
        /\ DOMAIN rows' = DOMAIN rows \cup {Len(rows) + 1}
        /\ \A i \in DOMAIN rows : rows'[i] = rows[i]
        /\ rows'[Len(rows) + 1].comment = job[h].item
    BY <1>2, RowAdded DEF IInv
  <1>5. \A i \in DOMAIN rows : rows'[i].origin = "github" => OwnComment(rows'[i].comment)
    BY <1>4 DEF IInv, Origins
  <1>6. OwnComment(rows'[Len(rows) + 1].comment)
    BY <1>1, <1>4
  <1>7. \A i \in DOMAIN rows' : i \in DOMAIN rows \/ i = Len(rows) + 1
    BY <1>4
  <1>8. \A i \in DOMAIN rows' : rows'[i].origin = "github" => OwnComment(rows'[i].comment)
    BY <1>5, <1>6, <1>7
  <1>. QED BY <1>2, <1>3, <1>4, <1>8, Progress

LEMMA ResyncStep ==
  ASSUME IInv, NEW h \in Handlers, Resync(h)
  PROVE  IInv'
  <1>. DEFINE parts == Parts[job[h].text]
  <1>. DEFINE k == Len(sent[h]) + 1
  <1>. DEFINE old == k <= Len(shown[h])
  <1>. DEFINE m == IF old THEN shown[h][k] ELSE Len(messages) + 1
  <1>. DEFINE step == IF k >= Len(parts) /\ k >= Len(shown[h]) THEN "setExtra" ELSE "resync"
  <1>1. OwnComment(job[h].item) /\ UNCHANGED <<comments, rows, inbox>>
    BY DEF Resync, IInv, Sources
  <1>2. step \in Stages /\ Copying(step, job[h].item)
    BY <1>1 DEF Stages, Copying
  <1>3. CommentsKept /\ DOMAIN comments' = DOMAIN comments
    BY <1>1, SameComments DEF IInv
  <1>4. \/ Done(h) /\ UNCHANGED messages
        \/ /\ Goto(h, step)
           /\ \/ Say("app", job[h].item, shown[h][1], parts[k])
              \/ messages' = [messages EXCEPT ![m].part = parts[k]]
              \/ messages' = [messages EXCEPT ![m].live = FALSE]
    BY DEF Resync
  <1>. HIDE DEF step, parts, k, old, m
  <1>5. CASE Goto(h, step) /\ Say("app", job[h].item, shown[h][1], parts[k])
    BY <1>1, <1>2, <1>5, SayStep
  <1>6. CASE \/ Done(h) /\ UNCHANGED messages
             \/ /\ Goto(h, step)
                /\ \/ messages' = [messages EXCEPT ![m].part = parts[k]]
                   \/ messages' = [messages EXCEPT ![m].live = FALSE]
    <2>1. MessagesKept /\ DOMAIN messages' = DOMAIN messages
      BY <1>6, MessageChanged DEF IInv
    <2>. QED BY <1>1, <1>2, <1>3, <1>6, <2>1, ChangeStep
  <1>. QED BY <1>4, <1>5, <1>6

LEMMA RowStep ==
  ASSUME IInv, NEW h \in Handlers, SetExtra(h) \/ DropRow(h)
  PROVE  IInv'
  <1>1. UNCHANGED <<comments, messages, inbox>> /\ Done(h)
    BY DEF SetExtra, DropRow, world
  <1>2. \/ rows' = [rows EXCEPT ![row[h]].extra =
                      SubSeq(sent[h], 2, Len(Parts[job[h].text]))]
        \/ rows' = [rows EXCEPT ![row[h]].live = FALSE]
        \/ UNCHANGED rows
    BY DEF SetExtra, DropRow
  <1>3. CommentsKept /\ MessagesKept /\ NewCopies
    BY <1>1, SameComments, SameMessages DEF IInv, NewCopies
  <1>4. /\ (\E U : rows \in Seq(RowsOf(U)))'
        /\ DOMAIN rows' = DOMAIN rows
        /\ \A k \in DOMAIN rows :
             rows'[k].origin = rows[k].origin /\ rows'[k].comment = rows[k].comment
    BY <1>2, RowChanged DEF IInv
  <1>5. \A i \in DOMAIN rows' : rows'[i].origin = "github" => OwnComment(rows'[i].comment)
    BY <1>4 DEF IInv, Origins
  <1>. QED BY <1>1, <1>3, <1>4, <1>5, Progress

LEMMA UnpostStep ==
  ASSUME IInv, NEW h \in Handlers, Unpost(h)
  PROVE  IInv'
  <1>. DEFINE k == Len(sent[h]) + 1
  <1>. DEFINE m == shown[h][k]
  <1>. DEFINE step == IF k = Len(shown[h]) THEN "dropRow" ELSE "unpost"
  <1>1. step \in Stages /\ Copying(step, job[h].item)
    BY DEF Stages, Copying
  <1>2. /\ UNCHANGED <<comments, rows, inbox>>
        /\ \/ Done(h) /\ UNCHANGED messages
           \/ Goto(h, step) /\ messages' = [messages EXCEPT ![m].live = FALSE]
    BY DEF Unpost
  <1>. HIDE DEF k, m, step
  <1>3. MessagesKept /\ DOMAIN messages' = DOMAIN messages
    BY <1>2, MessageChanged DEF IInv
  <1>4. CommentsKept /\ DOMAIN comments' = DOMAIN comments
    BY <1>2, SameComments DEF IInv
  <1>. QED BY <1>1, <1>2, <1>3, <1>4, ChangeStep

-----------------------------------------------------------------------------
(* Slack's events *)

LEMMA CommentStep ==
  ASSUME IInv, NEW h \in Handlers, Comment(h)
  PROVE  IInv'
  <1>1. OwnMessage(job[h].item) /\ job[h].item \in Nat
    BY DEF Comment, IInv, Typed, Sources, OwnMessage
  <1>2. /\ UNCHANGED <<messages, rows, inbox>>
        /\ comments' = Append(comments, [pr |-> pr[h], of |-> job[h].item,
                                         text |-> job[h].text, tagged |-> TRUE, live |-> TRUE])
        /\ Goto(h, "record") /\ "record" \in Stages
    BY DEF Comment, Stages
  <1>3. Copying("record", job[h].item)
    BY <1>1 DEF Copying
  <1>4. /\ CommentsKept /\ DOMAIN comments' = DOMAIN comments \cup {Len(comments) + 1}
        /\ comments'[Len(comments) + 1].of = job[h].item
    BY <1>1, <1>2, CommentAdded DEF IInv
  <1>5. MessagesKept /\ DOMAIN messages' = DOMAIN messages
    BY <1>2, SameMessages DEF IInv
  <1>6. NewCopies
    BY <1>1, <1>4, <1>5 DEF NewCopies
  <1>7. /\ (\E U : rows \in Seq(RowsOf(U)))'
        /\ \A i \in DOMAIN rows' : rows'[i].origin = "github" => OwnComment(rows'[i].comment)
    BY <1>2, SameRows
  <1>. QED BY <1>2, <1>3, <1>4, <1>5, <1>6, <1>7, Progress

LEMMA RecordStep ==
  ASSUME IInv, NEW h \in Handlers, Record(h)
  PROVE  IInv'
  <1>1. /\ rows' = Append(rows, [pr |-> pr[h], ts |-> job[h].item, extra |-> <<>>,
                                 comment |-> sent[h][1], origin |-> "slack", live |-> TRUE])
        /\ UNCHANGED <<comments, messages, inbox>> /\ Done(h)
    BY DEF Record, Insert, world
  <1>2. CommentsKept /\ MessagesKept /\ NewCopies
    BY <1>1, SameComments, SameMessages DEF IInv, NewCopies
  <1>3. /\ (\E U : rows \in Seq(RowsOf(U)))'
        /\ DOMAIN rows' = DOMAIN rows \cup {Len(rows) + 1}
        /\ \A i \in DOMAIN rows : rows'[i] = rows[i]
        /\ rows'[Len(rows) + 1].origin = "slack"
    BY <1>1, RowAdded DEF IInv
  <1>4. \A i \in DOMAIN rows' : rows'[i].origin = "github" => OwnComment(rows'[i].comment)
    BY <1>3 DEF IInv, Origins
  <1>. QED BY <1>1, <1>2, <1>3, <1>4, Progress

LEMMA NotifyStep ==
  ASSUME IInv, NEW h \in Handlers, Notify(h)
  PROVE  IInv'
  <1>1. OwnMessage(job[h].item)
    BY DEF Notify, IInv, Sources
  <1>2. /\ UNCHANGED <<comments, rows, inbox>> /\ Done(h)
        /\ Say("notice", job[h].item, job[h].item, None)
    BY DEF Notify
  <1>. QED BY <1>1, <1>2, SayStep

LEMMA RewriteStep ==
  ASSUME IInv, NEW h \in Handlers, Rewrite(h) \/ Uncomment(h)
  PROVE  IInv'
  <1>. DEFINE c == rows[row[h]].comment
  <1>1. UNCHANGED <<messages, rows, inbox>> /\ (Done(h) \/ Goto(h, "dropRow"))
    BY DEF Rewrite, Uncomment
  <1>2. \/ comments' = [comments EXCEPT ![c].text = job[h].text, ![c].tagged = TRUE]
        \/ comments' = [comments EXCEPT ![c].live = FALSE]
        \/ UNCHANGED comments
    BY DEF Rewrite, Uncomment
  <1>3. "dropRow" \in Stages /\ Copying("dropRow", job[h].item)
    BY DEF Stages, Copying
  <1>. HIDE DEF c
  <1>4. CommentsKept /\ DOMAIN comments' = DOMAIN comments
    BY <1>2, CommentChanged DEF IInv
  <1>5. MessagesKept /\ DOMAIN messages' = DOMAIN messages
    BY <1>1, SameMessages DEF IInv
  <1>. QED BY <1>1, <1>3, <1>4, <1>5, ChangeStep

-----------------------------------------------------------------------------
(* Events that reach a handler *)

\* The events of what the app did are marked as the app's.
LEMMA EchoesMarked == \A e \in Echoes : ~e.plain
BY DEF Echoes, Event

LEMMA ReceiveStep ==
  ASSUME IInv, NEW h \in Handlers, Receive(h)
  PROVE  IInv'
  <1>1. UNCHANGED <<comments, messages, rows>>
    BY DEF Receive, world
  <1>2. PICK e \in inbox \cup Echoes :
          /\ Deliver(e)
          /\ OnComment(h, e) \/ OnCommentChanged(h, e) \/ OnMessage(h, e) \/ OnMessageChanged(h, e)
    BY DEF Receive
  <1>3. inbox' \subseteq inbox
    BY <1>2 DEF Deliver
  <1>4. e.plain => e \in inbox
    BY EchoesMarked
  <1>5. CASE UNCHANGED handlers
    BY <1>1, <1>3, <1>5, AsideStep DEF handlers
  <1>6. ASSUME NEW step \in Stages, NEW i, NEW p, Begin(h, e, step, i, p), Copying(step, e.item)
        PROVE  IInv'
    BY <1>1, <1>3, <1>6, AsideStep
  <1>7. CASE OnComment(h, e)
    <2>1. CASE e.plain
      <3>1. OwnComment(e.item) /\ Begin(h, e, "post", 0, comments[e.item].pr)
        BY <2>1, <1>4, <1>7 DEF OnComment, IInv, Reported
      <3>2. "post" \in Stages /\ Copying("post", e.item)
        BY <3>1 DEF Stages, Copying
      <3>. QED BY <3>1, <3>2, <1>6
    <2>. QED BY <2>1, <1>5, <1>7 DEF OnComment, Drop
  <1>8. CASE OnCommentChanged(h, e)
    <2>. DEFINE i == RowOfComment(e.item)
    <2>1. \/ UNCHANGED handlers
          \/ i # 0 /\ rows[i].origin = "github" /\ Begin(h, e, "resync", i, rows[i].pr)
          \/ Begin(h, e, "unpost", i, rows[i].pr)
      BY <1>8 DEF OnCommentChanged, Drop
    <2>2. CASE i # 0 /\ rows[i].origin = "github" /\ Begin(h, e, "resync", i, rows[i].pr)
      <3>1. i \in DOMAIN rows /\ rows[i].comment = e.item
        BY <2>2, RowFound DEF IInv
      <3>2. OwnComment(e.item)
        BY <2>2, <3>1 DEF IInv, Origins
      <3>3. "resync" \in Stages /\ Copying("resync", e.item)
        BY <3>2 DEF Stages, Copying
      <3>. QED BY <2>2, <3>3, <1>6
    <2>3. CASE Begin(h, e, "unpost", i, rows[i].pr)
      <3>1. "unpost" \in Stages /\ Copying("unpost", e.item)
        BY DEF Stages, Copying
      <3>. QED BY <2>3, <3>1, <1>6
    <2>. QED BY <2>1, <2>2, <2>3, <1>5
  <1>9. CASE OnMessage(h, e)
    <2>1. CASE e.plain
      <3>1. OwnMessage(e.item)
        BY <2>1, <1>4, <1>9 DEF OnMessage, IInv, Reported
      <3>2. \/ Begin(h, e, "notice", 0, 0)
            \/ \E p : Begin(h, e, "comment", 0, p)
        BY <2>1, <1>9 DEF OnMessage
      <3>3. /\ "notice" \in Stages /\ Copying("notice", e.item)
            /\ "comment" \in Stages /\ Copying("comment", e.item)
        BY <3>1 DEF Stages, Copying
      <3>. QED BY <3>2, <3>3, <1>6
    <2>. QED BY <2>1, <1>5, <1>9 DEF OnMessage, Drop
  <1>10. CASE OnMessageChanged(h, e)
    <2>1. \/ UNCHANGED handlers
          \/ \E i, p : Begin(h, e, "edit", i, p) \/ Begin(h, e, "uncomment", i, p)
      BY <1>10 DEF OnMessageChanged, Drop
    <2>2. /\ "edit" \in Stages /\ Copying("edit", e.item)
          /\ "uncomment" \in Stages /\ Copying("uncomment", e.item)
      BY DEF Stages, Copying
    <2>. QED BY <2>1, <2>2, <1>5, <1>6
  <1>. QED BY <1>2, <1>7, <1>8, <1>9, <1>10

LEMMA FallBackStep ==
  ASSUME IInv, NEW h \in Handlers, FallBack(h)
  PROVE  IInv'
BY AsideStep DEF FallBack, world

LEMMA DieStep ==
  ASSUME IInv, NEW h \in Handlers, Die(h)
  PROVE  IInv'
BY AsideStep DEF Die, world

-----------------------------------------------------------------------------
(* What people do *)

LEMMA WriteStep ==
  ASSUME IInv, NEW x, NEW t, WriteComment(x, t) \/ WriteMessage(x, t)
  PROVE  IInv'
  <1>1. CASE WriteComment(x, t)
    <2>1. /\ UNCHANGED messages /\ Act("new", "github", Len(comments) + 1, t, TRUE)
          /\ comments' = Append(comments, [pr |-> x, of |-> 0, text |-> t,
                                           tagged |-> FALSE, live |-> TRUE])
      BY <1>1 DEF WriteComment
    <2>2. /\ CommentsKept /\ DOMAIN comments' = DOMAIN comments \cup {Len(comments) + 1}
          /\ comments'[Len(comments) + 1].of = 0
      BY <2>1, CommentAdded DEF IInv
    <2>3. MessagesKept /\ DOMAIN messages' = DOMAIN messages
      BY <2>1, SameMessages DEF IInv
    <2>4. NewCopies
      <3>1. \A c \in DOMAIN comments' \ DOMAIN comments : comments'[c].of = 0
        BY <2>2
      <3>2. DOMAIN messages' \ DOMAIN messages = {}
        BY <2>3
      <3>. QED BY <3>1, <3>2 DEF NewCopies
    <2>5. PICK n : n = Len(comments) + 1
      OBVIOUS
    <2>6. OwnComment(n)'
      BY <2>2, <2>5 DEF OwnComment
    <2>. QED BY <2>1, <2>2, <2>3, <2>4, <2>5, <2>6, ActStep
  <1>2. CASE WriteMessage(x, t)
    <2>1. /\ UNCHANGED comments /\ Act("new", "slack", Len(messages) + 1, t, TRUE)
          /\ messages' = Append(messages, Message("person", 0, x, t, None))
      BY <1>2 DEF WriteMessage
    <2>2. /\ MessagesKept /\ DOMAIN messages' = DOMAIN messages \cup {Len(messages) + 1}
          /\ messages'[Len(messages) + 1].by = "person"
      BY <2>1, MessageAdded DEF IInv
    <2>3. CommentsKept /\ DOMAIN comments' = DOMAIN comments
      BY <2>1, SameComments DEF IInv
    <2>4. NewCopies
      <3>1. \A m \in DOMAIN messages' \ DOMAIN messages : messages'[m].by = "person"
        BY <2>2
      <3>2. DOMAIN comments' \ DOMAIN comments = {}
        BY <2>3
      <3>. QED BY <3>1, <3>2 DEF NewCopies
    <2>5. PICK n : n = Len(messages) + 1
      OBVIOUS
    <2>6. OwnMessage(n)'
      BY <2>2, <2>5 DEF OwnMessage
    <2>. QED BY <2>1, <2>2, <2>3, <2>4, <2>5, <2>6, ActStep
  <1>. QED BY <1>1, <1>2

\* An edit or a deletion, whoever wrote what it is about.
LEMMA AlterStep ==
  ASSUME IInv, CommentsKept, DOMAIN comments' = DOMAIN comments,
         MessagesKept, DOMAIN messages' = DOMAIN messages,
         NEW kind \in {"edit", "delete"}, NEW side, NEW item, NEW text, NEW plain,
         Act(kind, side, item, text, plain)
  PROVE  IInv'
  <1>1. NewCopies
    BY DEF NewCopies
  <1>. QED BY <1>1, ActStep

LEMMA AlterCommentStep ==
  ASSUME IInv, NEW c, NEW t, NEW kept \in BOOLEAN,
         \/ EditComment(c, t) \/ MeddleComment(c, t, kept)
         \/ DeleteComment(c) \/ MeddleDelete(c)
  PROVE  IInv'
  <1>1. /\ UNCHANGED messages
        /\ \E kind \in {"edit", "delete"} : \E text, plain : Act(kind, "github", c, text, plain)
    BY DEF EditComment, MeddleComment, DeleteComment, MeddleDelete
  <1>2. \/ comments' = [comments EXCEPT ![c].text = t]
        \/ comments' = [comments EXCEPT ![c].text = t, ![c].tagged = kept]
        \/ comments' = [comments EXCEPT ![c].live = FALSE]
    BY DEF EditComment, MeddleComment, DeleteComment, MeddleDelete
  <1>3. CommentsKept /\ DOMAIN comments' = DOMAIN comments
    BY <1>2, CommentChanged DEF IInv
  <1>4. MessagesKept /\ DOMAIN messages' = DOMAIN messages
    BY <1>1, SameMessages DEF IInv
  <1>. QED BY <1>1, <1>3, <1>4, AlterStep

LEMMA AlterMessageStep ==
  ASSUME IInv, NEW m, NEW t, EditMessage(m, t) \/ DeleteMessage(m) \/ MeddleMessage(m)
  PROVE  IInv'
  <1>1. /\ UNCHANGED comments
        /\ \E kind \in {"edit", "delete"} : \E text, plain : Act(kind, "slack", m, text, plain)
    BY DEF EditMessage, DeleteMessage, MeddleMessage
  <1>2. \/ messages' = [messages EXCEPT ![m].text = t]
        \/ messages' = [messages EXCEPT ![m].live = FALSE]
    BY DEF EditMessage, DeleteMessage, MeddleMessage
  <1>3. MessagesKept /\ DOMAIN messages' = DOMAIN messages
    BY <1>2, MessageChanged DEF IInv
  <1>4. CommentsKept /\ DOMAIN comments' = DOMAIN comments
    BY <1>1, SameComments DEF IInv
  <1>. QED BY <1>1, <1>3, <1>4, AlterStep

\* A step of none of what the invariant is about.
LEMMA StillStep ==
  ASSUME IInv, UNCHANGED <<comments, messages, rows, inbox, pc, job>>
  PROVE  IInv'
BY DEF IInv, Typed, Copies, Reported, Origins, Sources, OwnComment, OwnMessage

LEMMA PeopleStep ==
  ASSUME IInv, People
  PROVE  IInv'
  <1>1. CASE \E p \in Discussed, t \in Texts : WriteComment(p, t)
    BY <1>1, WriteStep
  <1>2. CASE \E c \in DOMAIN comments, t \in Texts :
               EditComment(c, t) \/ \E kept \in BOOLEAN : MeddleComment(c, t, kept)
    BY <1>2, AlterCommentStep
  <1>3. CASE \E c \in DOMAIN comments : DeleteComment(c) \/ MeddleDelete(c)
    BY <1>3, AlterCommentStep
  <1>4. CASE \E r \in 0..Len(messages), t \in Openers : WriteMessage(r, t)
    BY <1>4, WriteStep
  <1>5. CASE \E m \in DOMAIN messages : DeleteMessage(m) \/ MeddleMessage(m)
    BY <1>5, AlterMessageStep
  <1>6. CASE \E m \in DOMAIN messages, t \in Texts : EditMessage(m, t)
    BY <1>6, AlterMessageStep
  <1>7. CASE \E p \in PRs : Toggle(p)
    BY <1>7, StillStep DEF Toggle, handlers
  <1>. QED BY <1>1, <1>2, <1>3, <1>4, <1>5, <1>6, <1>7 DEF People

-----------------------------------------------------------------------------
(* The theorem *)

LEMMA InitInvariant == Init => IInv
  <1>. SUFFICES ASSUME Init PROVE IInv
    OBVIOUS
  <1>1. /\ comments = <<>> /\ rows = <<>> /\ inbox = {}
        /\ messages = [k \in 1..Stacked |-> Message("parent", k, 0, None, None)]
        /\ pc = [h \in Handlers |-> "idle"] /\ DOMAIN job = Handlers
    BY DEF Init
  <1>2. messages \in Seq(MessagesOf({0, None}))
    <2>1. Stacked \in Nat
      BY MessageSyncAssumption
    <2>2. \A k \in 1..Stacked : Message("parent", k, 0, None, None) \in MessagesOf({0, None})
      BY <2>1 DEF Message, MessagesOf
    <2>. DEFINE S == MessagesOf({0, None})
    <2>3. \A k \in 1..Stacked : messages[k] \in S
      BY <1>1, <2>2
    <2>. HIDE DEF S
    <2>4. messages \in [1..Stacked -> S]
      BY <1>1, <2>3
    <2>5. messages \in Seq(S)
      BY <2>1, <2>4
    <2>. QED BY <2>5 DEF S
  <1>3. \A m \in DOMAIN messages : messages[m].by = "parent"
    BY <1>1 DEF Message
  <1>4. Typed
    <2>1. comments \in Seq(CommentsOf({})) /\ rows \in Seq(RowsOf({}))
      BY <1>1
    <2>2. pc \in [Handlers -> Stages]
      BY <1>1 DEF Stages
    <2>. QED BY <1>1, <1>2, <2>1, <2>2 DEF Typed
  <1>5. Copies
    BY <1>1, <1>3 DEF Copies
  <1>6. Reported /\ Origins
    BY <1>1 DEF Reported, Origins
  <1>7. Sources
    BY <1>1 DEF Sources
  <1>. QED BY <1>4, <1>5, <1>6, <1>7 DEF IInv

LEMMA StepInvariant == IInv /\ [Next]_vars => IInv'
  <1>. SUFFICES ASSUME IInv, [Next]_vars PROVE IInv'
    OBVIOUS
  <1>1. CASE People
    BY <1>1, PeopleStep
  <1>2. ASSUME NEW h \in Handlers, Handle(h) PROVE IInv'
    <2>1. CASE Receive(h)
      BY <2>1, ReceiveStep
    <2>2. CASE Post(h) \/ FallBack(h) \/ MapComment(h)
      BY <2>2, PostStep, FallBackStep, MapCommentStep
    <2>3. CASE Resync(h) \/ SetExtra(h)
      BY <2>3, ResyncStep, RowStep
    <2>4. CASE Unpost(h) \/ DropRow(h)
      BY <2>4, UnpostStep, RowStep
    <2>5. CASE Comment(h) \/ Record(h) \/ Notify(h)
      BY <2>5, CommentStep, RecordStep, NotifyStep
    <2>6. CASE Rewrite(h) \/ Uncomment(h)
      BY <2>6, RewriteStep
    <2>7. CASE Die(h)
      BY <2>7, DieStep
    <2>. QED BY <1>2, <2>1, <2>2, <2>3, <2>4, <2>5, <2>6, <2>7 DEF Handle
  <1>3. CASE UNCHANGED vars
    BY <1>3, StillStep DEF vars, world, handlers
  <1>. QED BY <1>1, <1>2, <1>3 DEF Next

\* The copy of a copy and the notice about a notice never exist: in every
\* reachable state a comment the app made stands for a message a person wrote,
\* and a message the app posted for a person's comment or about a person's
\* message, however the events of its own writing come back, and whatever fails.
THEOREM NothingComesBack == Spec => []NoEcho
  <1>1. IInv => NoEcho
    BY DEF IInv, Copies, OwnComment, OwnMessage, NoEcho
  <1>. QED BY <1>1, InitInvariant, StepInvariant, PTL DEF Spec

-----------------------------------------------------------------------------
(* What the records hold, and what a handler at each of its stages *)

Shows == UNION {{Parts[t][k] : k \in 1..Len(Parts[t])} : t \in Texts}

Messages == [by : {"person", "app", "notice", "parent"}, of : Nat, thread : Nat,
             text : Texts \cup {None}, part : Shows \cup {None}, live : BOOLEAN]
Rows == [pr : PRs, ts : Nat, extra : Seq(Nat), comment : Nat,
         origin : {"github", "slack"}, live : BOOLEAN]

Own(item) ==
  \/ item[1] = "github" /\ item[2] \in DOMAIN comments /\ comments[item[2]].of = 0
  \/ item[1] = "slack" /\ item[2] \in DOMAIN messages /\ messages[item[2]].by = "person"

\* The messages the app posted for a comment.
AppsOf(c) == {m \in DOMAIN messages : messages[m].by = "app" /\ messages[m].of = c}

Stored ==
  /\ comments \in Seq(Comments) /\ messages \in Seq(Messages) /\ rows \in Seq(Rows)
  /\ open \subseteq PRs /\ acts \in Nat

Placed ==
  /\ Stacked \in 0..Len(messages)
  /\ \A m \in DOMAIN messages :
       /\ messages[m].by = "parent" <=> m \in 1..Stacked
       /\ messages[m].thread \in 0..(m - 1)
       /\ messages[m].by = "person" =>
            /\ messages[m].text \in Texts
            /\ messages[m].thread # 0 => messages[messages[m].thread].thread = 0
       /\ messages[m].by = "notice" => messages[m].of \in 1..(m - 1)

EventOK(e) ==
  /\ e.kind \in Events /\ e.plain \in BOOLEAN
  /\ \/ e.side = "github" /\ e.item \in DOMAIN comments
     \/ e.side = "slack" /\ e.item \in DOMAIN messages /\ (e.plain => messages[e.item].by = "person")
  /\ e.kind = "new" => Own(Item(e)) /\ e.plain
  /\ e.plain => e.text \in Texts

Posted == \A e \in inbox : EventOK(e)

RowOK(i) ==
  LET r == rows[i] IN
  /\ r.comment \in DOMAIN comments /\ r.pr = comments[r.comment].pr
  /\ \/ /\ r.origin = "github" /\ comments[r.comment].of = 0
        /\ r.ts \in AppsOf(r.comment) /\ r.extra \in Seq(AppsOf(r.comment))
     \/ /\ r.origin = "slack" /\ comments[r.comment].of = r.ts
        /\ r.ts \in DOMAIN messages /\ messages[r.ts].by = "person" /\ r.extra = <<>>

Mapped == \A i \in DOMAIN rows : RowOK(i)

\* What a handler has found.
FoundGitHub(h) ==
  /\ row[h] \in DOMAIN rows /\ rows[row[h]].origin = "github"
  /\ rows[row[h]].comment = job[h].item
  /\ shown[h] \in Seq(AppsOf(job[h].item)) /\ shown[h] # <<>>
FoundSlack(h) ==
  /\ row[h] \in DOMAIN rows /\ rows[row[h]].origin = "slack"
  /\ rows[row[h]].ts = job[h].item
  /\ shown[h] \in Seq(DOMAIN messages)

Longest(a, b) == IF a > b THEN a ELSE b

StageOK(h) ==
  LET e == job[h]  k == Len(sent[h])  n == Len(Parts[e.text]) IN
  /\ pc[h] \in {"post", "map"} =>
       /\ e.side = "github" /\ e.kind = "new" /\ e.plain /\ row[h] = 0 /\ shown[h] = <<>>
       /\ pr[h] = comments[e.item].pr /\ sent[h] \in Seq(AppsOf(e.item))
       /\ IF pc[h] = "post" THEN k < n ELSE k = n
  /\ pc[h] \in {"resync", "setExtra"} =>
       /\ e.side = "github" /\ e.kind = "edit" /\ e.plain /\ FoundGitHub(h)
       /\ sent[h] \in Seq(AppsOf(e.item))
       /\ IF pc[h] = "resync" THEN k < Longest(n, Len(shown[h])) ELSE k = Longest(n, Len(shown[h]))
  /\ pc[h] = "unpost" =>
       /\ e.side = "github" /\ e.kind = "delete" /\ FoundGitHub(h)
       /\ sent[h] \in Seq(AppsOf(e.item)) /\ k < Len(shown[h])
  /\ pc[h] = "dropRow" =>
       /\ e.kind = "delete"
       /\ \/ e.side = "github" /\ FoundGitHub(h) /\ sent[h] \in Seq(AppsOf(e.item))
          \/ e.side = "slack" /\ FoundSlack(h) /\ sent[h] = <<>>
  /\ pc[h] \in {"comment", "notice", "record"} =>
       /\ e.side = "slack" /\ e.kind = "new" /\ e.plain /\ row[h] = 0 /\ shown[h] = <<>>
       /\ IF pc[h] = "record"
          THEN /\ sent[h] = <<sent[h][1]>> /\ sent[h][1] \in DOMAIN comments
               /\ comments[sent[h][1]].of = e.item /\ comments[sent[h][1]].pr = pr[h]
          ELSE sent[h] = <<>>
  /\ pc[h] = "edit" =>
       e.side = "slack" /\ e.kind = "edit" /\ e.plain /\ FoundSlack(h) /\ sent[h] = <<>>
  /\ pc[h] = "uncomment" =>
       e.side = "slack" /\ e.kind = "delete" /\ FoundSlack(h) /\ sent[h] = <<>>

Resting(h) == row[h] = 0 /\ shown[h] = <<>> /\ sent[h] = <<>>

HandlerOK(h) ==
  /\ pr[h] \in PRs
  /\ IF pc[h] = "idle" THEN Resting(h)
     ELSE Own(Item(job[h])) /\ EventOK(job[h]) /\ StageOK(h)

LocalsOK ==
  /\ pc \in [Handlers -> Stages]
  /\ asUser \in [Handlers -> BOOLEAN]
  /\ DOMAIN job = Handlers /\ DOMAIN row = Handlers /\ DOMAIN shown = Handlers
  /\ DOMAIN pr = Handlers /\ DOMAIN sent = Handlers

Held == \A h \in Handlers : HandlerOK(h)

Sound == Stored /\ Placed /\ Posted /\ Mapped /\ LocalsOK /\ Held

-----------------------------------------------------------------------------
(* One event of an item at a time *)

On(h, item) == pc[h] # "idle" /\ Item(job[h]) = item

Lone(item) ==
  /\ \A e, f \in inbox : Item(e) = item /\ Item(f) = item => e = f
  /\ \A g, h \in Handlers : On(g, item) /\ On(h, item) => g = h
  /\ \A e \in inbox, h \in Handlers : ~(Item(e) = item /\ On(h, item))

OneByOne ==
  /\ \A c \in DOMAIN comments :
       comments[c].of = 0 /\ <<"github", c>> \notin tangled => Lone(<<"github", c>>)
  /\ \A m \in DOMAIN messages :
       messages[m].by = "person" /\ <<"slack", m>> \notin tangled => Lone(<<"slack", m>>)

-----------------------------------------------------------------------------
(* A message and what was made of it *)

Made(m) == {c \in DOMAIN comments : comments[c].of = m}
Notes(m) == {k \in DOMAIN messages : messages[k].by = "notice" /\ messages[k].of = m}
RowsAt(m) == {i \in DOMAIN rows : rows[i].live /\ rows[i].ts = m}

Untouched(m) == Made(m) = {} /\ Notes(m) = {} /\ RowsAt(m) = {}
Kept(m) ==
  \/ Made(m) = {} /\ RowsAt(m) = {} /\ \E k \in Notes(m) : Notes(m) = {k}
  \/ /\ Notes(m) = {}
     /\ \E c \in Made(m), i \in RowsAt(m) :
          /\ Made(m) = {c} /\ RowsAt(m) = {i} /\ rows[i].comment = c /\ comments[c].live
Says(m) == \A c \in Made(m) : comments[c].text = messages[m].text
Gone(m) == RowsAt(m) = {} /\ \A c \in Made(m) : ~comments[c].live

Pending(e, m) ==
  LET live == messages[m].live IN
  /\ e.kind = "new" => Untouched(m)
  /\ e.kind # "new" => Kept(m)
  /\ IF e.kind = "delete" THEN ~live ELSE live /\ e.text = messages[m].text /\ e.plain

InHand(h, m) ==
  LET c == rows[row[h]].comment IN
  /\ IF pc[h] \in {"uncomment", "dropRow"} THEN ~messages[m].live
     ELSE messages[m].live /\ job[h].text = messages[m].text
  /\ pc[h] \in {"comment", "notice"} => Untouched(m)
  /\ pc[h] = "record" =>
       /\ Made(m) = {sent[h][1]} /\ Notes(m) = {} /\ RowsAt(m) = {}
       /\ comments[sent[h][1]].live /\ Says(m)
  /\ pc[h] \in {"edit", "uncomment"} =>
       Made(m) = {c} /\ Notes(m) = {} /\ RowsAt(m) = {row[h]} /\ comments[c].live
  /\ pc[h] = "dropRow" =>
       RowsAt(m) = {row[h]} /\ \A k \in Made(m) : ~comments[k].live

MessageOK(m) ==
  /\ \A e \in inbox : Item(e) = <<"slack", m>> => Pending(e, m)
  /\ \A h \in Handlers : On(h, <<"slack", m>>) => InHand(h, m)
  /\ ~Busy(<<"slack", m>>) => IF messages[m].live THEN Kept(m) /\ Says(m) ELSE Gone(m)

MessagesOK ==
  \A m \in DOMAIN messages :
    messages[m].by = "person" /\ <<"slack", m>> \notin tangled => MessageOK(m)

-----------------------------------------------------------------------------
(* A comment and what shows it *)

LiveFor(c) == {m \in AppsOf(c) : messages[m].live}
RowsFor(c) == {i \in DOMAIN rows : rows[i].live /\ rows[i].comment = c}
Least(a, b) == IF a < b THEN a ELSE b

Ascending(s) == \A i, j \in 1..Len(s) : i < j => s[i] < s[j]
Telling(s, t, n) == \A k \in 1..n : messages[s[k]].part = Parts[t][k]
Under(s, p) == \A k \in 1..Len(s) :
  /\ messages[s[k]].thread \in {p, IF k > 1 THEN s[1] ELSE p}
  /\ k > 1 => messages[s[k]].thread # 0
Good(s, p) == Ascending(s) /\ Under(s, p)
Elements(s) == {s[k] : k \in 1..Len(s)}
First(s, n) == {s[k] : k \in 1..n}
Rest(s, n) == {s[k] : k \in (n + 1)..Len(s)}
Listed(i) == <<rows[i].ts>> \o rows[i].extra

Filed(c) == \E i \in RowsFor(c) :
  /\ RowsFor(c) = {i} /\ LiveFor(c) = Elements(Listed(i)) /\ Good(Listed(i), comments[c].pr)
Tells(c) == LET t == comments[c].text IN \A i \in RowsFor(c) :
  Len(Listed(i)) = Len(Parts[t]) /\ Telling(Listed(i), t, Len(Parts[t]))
Bare(c) == RowsFor(c) = {} /\ LiveFor(c) = {}

PendingComment(e, c) ==
  LET live == comments[c].live IN
  /\ e.kind = "new" => Bare(c)
  /\ e.kind # "new" => Filed(c)
  /\ IF e.kind = "delete" THEN ~live ELSE live /\ e.text = comments[c].text /\ e.plain

CommentInHand(h, c) ==
  LET t == comments[c].text  p == comments[c].pr
      n == Len(sent[h])  q == Len(shown[h])  parts == Len(Parts[t]) IN
  /\ IF pc[h] \in {"unpost", "dropRow"} THEN ~comments[c].live
     ELSE comments[c].live /\ job[h].text = t
  /\ pc[h] \in {"post", "map"} =>
       /\ RowsFor(c) = {} /\ LiveFor(c) = Elements(sent[h])
       /\ Good(sent[h], p) /\ Telling(sent[h], t, n)
  /\ pc[h] \in {"resync", "setExtra"} =>
       /\ RowsFor(c) = {row[h]} /\ rows[row[h]].ts = shown[h][1]
       /\ Good(shown[h], p) /\ Good(sent[h], p)
       /\ \A j \in 1..Least(n, q) : sent[h][j] = shown[h][j]
       /\ LiveFor(c) = First(sent[h], Least(n, parts)) \cup Rest(shown[h], n)
       /\ Telling(sent[h], t, Least(n, parts))
  /\ pc[h] = "unpost" =>
       RowsFor(c) = {row[h]} /\ Ascending(shown[h]) /\ LiveFor(c) = Rest(shown[h], n)
  /\ pc[h] = "dropRow" => RowsFor(c) = {row[h]} /\ LiveFor(c) = {}

CommentOK(c) ==
  /\ \A e \in inbox : Item(e) = <<"github", c>> => PendingComment(e, c)
  /\ \A h \in Handlers : On(h, <<"github", c>>) => CommentInHand(h, c)
  /\ ~Busy(<<"github", c>>) => IF comments[c].live THEN Filed(c) /\ Tells(c) ELSE Bare(c)

CommentsOK ==
  \A c \in DOMAIN comments :
    comments[c].of = 0 /\ <<"github", c>> \notin tangled => CommentOK(c)

-----------------------------------------------------------------------------
(* A reply and its pull request *)

About(r) ==
  CASE messages[r].by = "parent" -> {r}
    [] messages[r].by = "app"    -> {comments[messages[r].of].pr}
    [] messages[r].by = "person" -> {comments[k].pr : k \in Made(r)}
    [] OTHER -> {}

Past(item) ==
  /\ \A e \in inbox : Item(e) = item => e.kind # "new"
  /\ \A h \in Handlers : On(h, item) => job[h].kind # "new"

\* Message m is a reply to message r, and nothing about either got out of order.
Answers(m, r) ==
  /\ messages[m].by = "person" /\ messages[m].thread = r /\ r # 0 /\ messages[r].live
  /\ <<"slack", m>> \notin tangled /\ (Source(r) # None => Source(r) \notin tangled)

ReplyOK(m, r) ==
  /\ Source(r) # None => Past(Source(r))
  /\ \A e \in inbox : Item(e) = <<"slack", m>> /\ e.kind = "new" /\ Source(r) # None => ~Busy(Source(r))
  /\ \A h \in Handlers : On(h, <<"slack", m>>) /\ pc[h] = "comment" => About(r) \subseteq {pr[h]}
  /\ \A c \in Made(m) : About(r) \subseteq {comments[c].pr}

RepliesOK == \A m, r \in DOMAIN messages : Answers(m, r) => ReplyOK(m, r)

-----------------------------------------------------------------------------
(* Sequences, and what outlives a step *)

LEMMA TailTyped ==
  ASSUME NEW S, NEW s \in Seq(S), s # <<>>
  PROVE  Tail(s) \in Seq(S) /\ s[1] \in S /\ Len(Tail(s)) = Len(s) - 1
         /\ \A k \in 1..Len(Tail(s)) : Tail(s)[k] = s[k + 1]
OBVIOUS

LEMMA WiderSeq ==
  ASSUME NEW S, NEW T, S \subseteq T, NEW s \in Seq(S)
  PROVE  s \in Seq(T)
OBVIOUS

WorldGrows ==
  /\ DOMAIN comments \subseteq DOMAIN comments' /\ DOMAIN messages \subseteq DOMAIN messages'
  /\ \A c \in DOMAIN comments : comments'[c].of = comments[c].of /\ comments'[c].pr = comments[c].pr
  /\ \A m \in DOMAIN messages :
       /\ messages'[m].by = messages[m].by /\ messages'[m].of = messages[m].of
       /\ messages'[m].thread = messages[m].thread

RowsGrow ==
  /\ DOMAIN rows \subseteq DOMAIN rows'
  /\ \A i \in DOMAIN rows :
       /\ rows'[i].origin = rows[i].origin /\ rows'[i].comment = rows[i].comment
       /\ rows'[i].ts = rows[i].ts /\ rows'[i].pr = rows[i].pr

SameLocals(g) ==
  /\ pc'[g] = pc[g] /\ job'[g] = job[g] /\ row'[g] = row[g]
  /\ shown'[g] = shown[g] /\ pr'[g] = pr[g] /\ sent'[g] = sent[g]

----
LEMMA CommentNew ==
  ASSUME comments \in Seq(Comments), NEW new \in Comments, NEW n, n = Len(comments) + 1,
         comments' = Append(comments, new)
  PROVE  /\ comments' \in Seq(Comments) /\ n \in Nat /\ n \notin DOMAIN comments
         /\ DOMAIN comments' = DOMAIN comments \cup {n}
         /\ \A c \in DOMAIN comments : comments'[c] = comments[c]
         /\ comments'[n] = new
OBVIOUS

\* A comment is edited or deleted.
LEMMA CommentAltered ==
  ASSUME comments \in Seq(Comments), NEW c \in DOMAIN comments, NEW t \in Texts, NEW g \in BOOLEAN,
         \/ comments' = [comments EXCEPT ![c].text = t]
         \/ comments' = [comments EXCEPT ![c].text = t, ![c].tagged = g]
         \/ comments' = [comments EXCEPT ![c].live = FALSE]
  PROVE  /\ comments' \in Seq(Comments) /\ DOMAIN comments' = DOMAIN comments
         /\ \A k \in DOMAIN comments : /\ comments'[k].of = comments[k].of /\ comments'[k].pr = comments[k].pr
                                       /\ k # c => comments'[k] = comments[k]
         /\ comments' # [comments EXCEPT ![c].live = FALSE] =>
              comments'[c].text = t /\ comments'[c].live = comments[c].live
         /\ comments' = [comments EXCEPT ![c].live = FALSE] =>
              comments'[c].text = comments[c].text /\ ~comments'[c].live
  <1>1. comments \in [1..Len(comments) -> Comments] /\ Len(comments) \in Nat
    OBVIOUS
  <1>2. /\ comments' \in [1..Len(comments) -> Comments]
        /\ \A k \in DOMAIN comments : /\ comments'[k].of = comments[k].of /\ comments'[k].pr = comments[k].pr
                                      /\ k # c => comments'[k] = comments[k]
    <2>1. CASE comments' = [comments EXCEPT ![c].text = t]
      BY <1>1, <2>1 DEF Comments
    <2>2. CASE comments' = [comments EXCEPT ![c].text = t, ![c].tagged = g]
      <3>1. PICK r : r = [comments[c] EXCEPT !.text = t, !.tagged = g]
        OBVIOUS
      <3>2. r \in Comments /\ r.of = comments[c].of /\ r.pr = comments[c].pr
        BY <1>1, <3>1 DEF Comments
      <3>3. comments' = [comments EXCEPT ![c] = r]
        BY <1>1, <2>2, <3>1 DEF Comments
      <3>. QED BY <1>1, <3>2, <3>3
    <2>3. CASE comments' = [comments EXCEPT ![c].live = FALSE]
      BY <1>1, <2>3 DEF Comments
    <2>. QED BY <2>1, <2>2, <2>3
  <1>3. comments' # [comments EXCEPT ![c].live = FALSE] =>
              comments'[c].text = t /\ comments'[c].live = comments[c].live
    <2>1. CASE comments' = [comments EXCEPT ![c].text = t]
      BY <1>1, <2>1 DEF Comments
    <2>2. CASE comments' = [comments EXCEPT ![c].text = t, ![c].tagged = g]
      BY <1>1, <2>2 DEF Comments
    <2>. QED BY <2>1, <2>2
  <1>4. comments' = [comments EXCEPT ![c].live = FALSE] =>
              comments'[c].text = comments[c].text /\ ~comments'[c].live
    BY <1>1 DEF Comments
  <1>5. comments' \in Seq(Comments)
    BY <1>1, <1>2
  <1>. QED BY <1>1, <1>2, <1>3, <1>4, <1>5

LEMMA MessageNew ==
  ASSUME messages \in Seq(Messages), NEW by \in {"person", "app", "notice", "parent"},
         NEW of \in Nat, NEW thread \in Nat, NEW text \in Texts \cup {None},
         NEW part \in Shows \cup {None}, NEW n, n = Len(messages) + 1,
         messages' = Append(messages, Message(by, of, thread, text, part))
  PROVE  /\ messages' \in Seq(Messages) /\ n \in Nat /\ n \notin DOMAIN messages
         /\ DOMAIN messages' = DOMAIN messages \cup {n}
         /\ \A m \in DOMAIN messages : messages'[m] = messages[m] /\ m < n
         /\ messages'[n] = Message(by, of, thread, text, part)
  <1>. DEFINE new == Message(by, of, thread, text, part)
  <1>1. new \in Messages
    BY DEF Message, Messages
  <1>. HIDE DEF new
  <1>2. messages' = Append(messages, new)
    BY DEF new
  <1>3. /\ messages' \in Seq(Messages) /\ n \in Nat /\ n \notin DOMAIN messages
        /\ DOMAIN messages' = DOMAIN messages \cup {n}
        /\ \A m \in DOMAIN messages : messages'[m] = messages[m] /\ m < n
        /\ messages'[n] = new
    BY <1>1, <1>2
  <1>. QED BY <1>3 DEF new

LEMMA MessageAltered ==
  ASSUME messages \in Seq(Messages), NEW m \in DOMAIN messages, NEW x, 
         \/ messages' = [messages EXCEPT ![m].text = x] /\ x \in Texts
         \/ messages' = [messages EXCEPT ![m].part = x] /\ x \in Shows
         \/ messages' = [messages EXCEPT ![m].live = FALSE]
  PROVE  /\ messages' \in Seq(Messages) /\ DOMAIN messages' = DOMAIN messages
         /\ \A k \in DOMAIN messages :
              /\ messages'[k].of = messages[k].of /\ messages'[k].by = messages[k].by
              /\ messages'[k].thread = messages[k].thread
              /\ k # m => messages'[k] = messages[k]
         /\ messages' = [messages EXCEPT ![m].text = x] =>
              /\ messages'[m].text = x /\ messages'[m].live = messages[m].live
              /\ messages'[m].part = messages[m].part
         /\ messages' = [messages EXCEPT ![m].part = x] =>
              /\ messages'[m].part = x /\ messages'[m].live = messages[m].live
              /\ messages'[m].text = messages[m].text
         /\ messages' = [messages EXCEPT ![m].live = FALSE] =>
              ~messages'[m].live /\ messages'[m].text = messages[m].text
  <1>1. messages \in [1..Len(messages) -> Messages] /\ Len(messages) \in Nat
    OBVIOUS
  <1>2. /\ messages' \in [1..Len(messages) -> Messages]
        /\ \A k \in DOMAIN messages :
              /\ messages'[k].of = messages[k].of /\ messages'[k].by = messages[k].by
              /\ messages'[k].thread = messages[k].thread
              /\ k # m => messages'[k] = messages[k]
    <2>1. CASE messages' = [messages EXCEPT ![m].text = x] /\ x \in Texts
      BY <1>1, <2>1 DEF Messages
    <2>2. CASE messages' = [messages EXCEPT ![m].part = x] /\ x \in Shows
      BY <1>1, <2>2 DEF Messages
    <2>3. CASE messages' = [messages EXCEPT ![m].live = FALSE]
      BY <1>1, <2>3 DEF Messages
    <2>. QED BY <2>1, <2>2, <2>3
  <1>3. messages' = [messages EXCEPT ![m].text = x] =>
              /\ messages'[m].text = x /\ messages'[m].live = messages[m].live
              /\ messages'[m].part = messages[m].part
    BY <1>1 DEF Messages
  <1>4. messages' = [messages EXCEPT ![m].part = x] =>
              /\ messages'[m].part = x /\ messages'[m].live = messages[m].live
              /\ messages'[m].text = messages[m].text
    BY <1>1 DEF Messages
  <1>5. messages' = [messages EXCEPT ![m].live = FALSE] =>
              ~messages'[m].live /\ messages'[m].text = messages[m].text
    BY <1>1 DEF Messages
  <1>6. messages' \in Seq(Messages)
    BY <1>1, <1>2
  <1>. QED BY <1>1, <1>2, <1>3, <1>4, <1>5, <1>6

LEMMA RowNew ==
  ASSUME rows \in Seq(Rows), NEW new \in Rows, NEW n, n = Len(rows) + 1,
         rows' = Append(rows, new)
  PROVE  /\ rows' \in Seq(Rows) /\ n \in Nat \ {0} /\ n \notin DOMAIN rows
         /\ DOMAIN rows' = DOMAIN rows \cup {n}
         /\ \A i \in DOMAIN rows : rows'[i] = rows[i]
         /\ rows'[n] = new
OBVIOUS

LEMMA RowAltered ==
  ASSUME rows \in Seq(Rows), NEW i \in DOMAIN rows, NEW x \in Seq(Nat),
         \/ rows' = [rows EXCEPT ![i].extra = x]
         \/ rows' = [rows EXCEPT ![i].live = FALSE]
  PROVE  /\ rows' \in Seq(Rows) /\ DOMAIN rows' = DOMAIN rows
         /\ \A k \in DOMAIN rows :
              /\ rows'[k].origin = rows[k].origin /\ rows'[k].comment = rows[k].comment
              /\ rows'[k].ts = rows[k].ts /\ rows'[k].pr = rows[k].pr
              /\ k # i => rows'[k] = rows[k]
         /\ rows' = [rows EXCEPT ![i].extra = x] =>
              rows'[i].extra = x /\ rows'[i].live = rows[i].live
         /\ rows' = [rows EXCEPT ![i].live = FALSE] =>
              ~rows'[i].live /\ rows'[i].extra = rows[i].extra
  <1>1. rows \in [1..Len(rows) -> Rows] /\ Len(rows) \in Nat
    OBVIOUS
  <1>2. /\ rows' \in [1..Len(rows) -> Rows]
        /\ \A k \in DOMAIN rows :
              /\ rows'[k].origin = rows[k].origin /\ rows'[k].comment = rows[k].comment
              /\ rows'[k].ts = rows[k].ts /\ rows'[k].pr = rows[k].pr
              /\ k # i => rows'[k] = rows[k]
    <2>1. PICK r : \/ r = [rows[i] EXCEPT !.extra = x] /\ rows' = [rows EXCEPT ![i].extra = x]
                   \/ r = [rows[i] EXCEPT !.live = FALSE] /\ rows' = [rows EXCEPT ![i].live = FALSE]
      OBVIOUS
    <2>2. rows[i] \in Rows
      BY <1>1
    <2>3. /\ r \in Rows /\ r.origin = rows[i].origin /\ r.comment = rows[i].comment
          /\ r.ts = rows[i].ts /\ r.pr = rows[i].pr
      <3>. PICK S : S = Seq(Nat)
        OBVIOUS
      <3>. QED BY <2>1, <2>2 DEF Rows
    <2>4. rows' = [rows EXCEPT ![i] = r]
      BY <1>1, <2>1
    <2>. QED BY <1>1, <2>3, <2>4
  <1>3. rows' = [rows EXCEPT ![i].extra = x] =>
              rows'[i].extra = x /\ rows'[i].live = rows[i].live
    BY <1>1 DEF Rows
  <1>4. rows' = [rows EXCEPT ![i].live = FALSE] =>
              ~rows'[i].live /\ rows'[i].extra = rows[i].extra
    BY <1>1 DEF Rows
  <1>5. rows' \in Seq(Rows)
    <2>. PICK R : R = Rows
      OBVIOUS
    <2>1. rows' \in [1..Len(rows) -> R] /\ Len(rows) \in Nat
      BY <1>1, <1>2
    <2>2. rows' \in Seq(R)
      BY <2>1
    <2>. QED BY <2>2
  <1>. QED BY <1>1, <1>2, <1>3, <1>4, <1>5

----
LEMMA LocalsDone ==
  ASSUME LocalsOK, NEW h \in Handlers, Done(h)
  PROVE  /\ LocalsOK' /\ pc'[h] = "idle" /\ Resting(h)' /\ pr'[h] = 0 /\ job'[h] = None
         /\ \A g \in Handlers \ {h} : SameLocals(g)
  <1>1. LocalsOK'
    BY DEF LocalsOK, Done, Stages
  <1>2. pc'[h] = "idle" /\ Resting(h)' /\ pr'[h] = 0 /\ job'[h] = None
    BY DEF LocalsOK, Done, Resting
  <1>3. \A g \in Handlers \ {h} : SameLocals(g)
    BY DEF LocalsOK, Done, SameLocals
  <1>. QED BY <1>1, <1>2, <1>3

LEMMA LocalsBegin ==
  ASSUME LocalsOK, NEW h \in Handlers, NEW e, NEW step \in Stages, NEW i, NEW p,
         Begin(h, e, step, i, p)
  PROVE  /\ LocalsOK' /\ pc'[h] = step /\ job'[h] = e /\ row'[h] = i /\ pr'[h] = p
         /\ shown'[h] = (IF i = 0 THEN <<>> ELSE Listed(i)) /\ sent' = sent
         /\ \A g \in Handlers \ {h} : SameLocals(g)
  <1>1. LocalsOK'
    BY DEF LocalsOK, Begin
  <1>2. /\ pc'[h] = step /\ job'[h] = e /\ row'[h] = i /\ pr'[h] = p
        /\ shown'[h] = (IF i = 0 THEN <<>> ELSE Listed(i)) /\ sent' = sent
    BY DEF LocalsOK, Begin, Listed
  <1>3. \A g \in Handlers \ {h} : SameLocals(g)
    BY DEF LocalsOK, Begin, SameLocals
  <1>. QED BY <1>1, <1>2, <1>3

LEMMA LocalsGoto ==
  ASSUME LocalsOK, NEW h \in Handlers, NEW step \in Stages, NEW x,
         Goto(h, step), sent' = [sent EXCEPT ![h] = x] \/ (sent' = sent /\ sent[h] = x)
  PROVE  /\ LocalsOK' /\ pc'[h] = step /\ sent'[h] = x
         /\ job' = job /\ row' = row /\ shown' = shown /\ pr' = pr
         /\ \A g \in Handlers \ {h} : SameLocals(g)
  <1>1. LocalsOK'
    BY DEF LocalsOK, Goto
  <1>2. pc'[h] = step /\ sent'[h] = x /\ job' = job /\ row' = row /\ shown' = shown /\ pr' = pr
    BY DEF LocalsOK, Goto
  <1>3. \A g \in Handlers \ {h} : SameLocals(g)
    BY DEF LocalsOK, Goto, SameLocals
  <1>. QED BY <1>1, <1>2, <1>3

----
LEMMA OwnKept ==
  ASSUME WorldGrows, NEW x, Own(x)
  PROVE  Own(x)'
BY DEF WorldGrows, Own

LEMMA AppsKept ==
  ASSUME WorldGrows, NEW c
  PROVE  AppsOf(c) \subseteq AppsOf(c)'
BY DEF WorldGrows, AppsOf

LEMMA EventKept ==
  ASSUME WorldGrows, NEW e, EventOK(e)
  PROVE  EventOK(e)'
  <1>1. Own(Item(e)) => Own(Item(e))'
    <2>1. PICK x : x = Item(e)
      OBVIOUS
    <2>2. Own(x) => Own(x)'
      BY OwnKept
    <2>3. x = Item(e)'
      BY <2>1 DEF Item
    <2>. QED BY <2>1, <2>2, <2>3
  <1>. QED BY <1>1 DEF EventOK, WorldGrows

LEMMA RowKept ==
  ASSUME WorldGrows, RowsGrow, NEW i \in DOMAIN rows, RowOK(i), rows'[i].extra = rows[i].extra
  PROVE  RowOK(i)'
  <1>1. PICK c : c = rows[i].comment /\ rows'[i].comment = c
    BY DEF RowsGrow
  <1>2. AppsOf(c) \subseteq AppsOf(c)'
    BY AppsKept
  <1>3. \A s : s \in Seq(AppsOf(c)) => s \in Seq(AppsOf(c)')
    BY <1>2
  <1>4. /\ rows'[i].origin = rows[i].origin
        /\ rows'[i].ts = rows[i].ts /\ rows'[i].pr = rows[i].pr
    BY DEF RowsGrow
  <1>5. /\ c \in DOMAIN comments /\ rows[i].pr = comments[c].pr
        /\ \/ /\ rows[i].origin = "github" /\ comments[c].of = 0
              /\ rows[i].ts \in AppsOf(c) /\ rows[i].extra \in Seq(AppsOf(c))
           \/ /\ rows[i].origin = "slack" /\ comments[c].of = rows[i].ts
              /\ rows[i].ts \in DOMAIN messages /\ messages[rows[i].ts].by = "person" /\ rows[i].extra = <<>>
    BY <1>1 DEF RowOK
  <1>6. /\ c \in DOMAIN comments' /\ comments'[c].pr = comments[c].pr /\ comments'[c].of = comments[c].of
        /\ \A m \in DOMAIN messages : m \in DOMAIN messages' /\ messages'[m].by = messages[m].by
    BY <1>5 DEF WorldGrows
  <1>7. PICK d : d = rows'[i].comment
    OBVIOUS
  <1>8. d = c
    BY <1>1, <1>7
  <1>. QED BY <1>1, <1>2, <1>3, <1>4, <1>5, <1>6 DEF RowOK

LEMMA FoundKept ==
  ASSUME WorldGrows, RowsGrow, NEW g, job'[g] = job[g], row'[g] = row[g], shown'[g] = shown[g]
  PROVE  /\ FoundGitHub(g) => FoundGitHub(g)'
         /\ FoundSlack(g) => FoundSlack(g)'
  <1>1. PICK c : c = job[g].item
    OBVIOUS
  <1>2. AppsOf(c) \subseteq AppsOf(c)' /\ DOMAIN messages \subseteq DOMAIN messages'
    BY AppsKept DEF WorldGrows
  <1>3. /\ \A s : s \in Seq(AppsOf(c)) => s \in Seq(AppsOf(c)')
        /\ \A s : s \in Seq(DOMAIN messages) => s \in Seq(DOMAIN messages')
    BY <1>2
  <1>4. PICK d : d = job'[g].item
    OBVIOUS
  <1>5. d = c
    BY <1>1, <1>4
  <1>. QED BY <1>1, <1>3 DEF FoundGitHub, FoundSlack, RowsGrow

LEMMA HandlerKept ==
  ASSUME WorldGrows, RowsGrow, NEW g \in Handlers, HandlerOK(g), SameLocals(g)
  PROVE  HandlerOK(g)'
  <1>1. PICK e : e = job[g] /\ job'[g] = e
    BY DEF SameLocals
  <1>2. /\ pc'[g] = pc[g] /\ row'[g] = row[g]
        /\ shown'[g] = shown[g] /\ pr'[g] = pr[g] /\ sent'[g] = sent[g]
    BY DEF SameLocals
  <1>3. CASE pc[g] = "idle"
    BY <1>2, <1>3 DEF HandlerOK, Resting
  <1>4. CASE pc[g] # "idle"
    <2>1. Own(Item(e)) /\ EventOK(e) /\ StageOK(g)
      BY <1>1, <1>4 DEF HandlerOK
    <2>2. EventOK(e)' /\ e.item = e.item'
      BY <2>1, EventKept
    <2>3. PICK x : x = Item(e)
      OBVIOUS
    <2>4. Own(x)'
      BY <2>1, <2>3, OwnKept
    <2>5. /\ FoundGitHub(g) => FoundGitHub(g)'
          /\ FoundSlack(g) => FoundSlack(g)'
      BY <1>1, <1>2, FoundKept
    <2>6. PICK c : c = e.item
      OBVIOUS
    <2>7. AppsOf(c) \subseteq AppsOf(c)'
      BY AppsKept
    <2>8. \A s : s \in Seq(AppsOf(c)) => s \in Seq(AppsOf(c)')
      BY <2>7
    <2>9. StageOK(g)'
      <3>1. \A k \in DOMAIN comments : k \in DOMAIN comments'
               /\ comments'[k].of = comments[k].of /\ comments'[k].pr = comments[k].pr
        BY DEF WorldGrows
      <3>2. e.side = "github" => c \in DOMAIN comments
        BY <2>1, <2>6 DEF EventOK
      <3>. QED BY <1>1, <1>2, <2>1, <2>5, <2>6, <2>8, <3>1, <3>2 DEF StageOK
    <2>10. Own(Item(job[g]))' /\ EventOK(job[g])'
      BY <1>1, <2>2, <2>3, <2>4
    <2>11. pr'[g] \in PRs
      BY <1>2 DEF HandlerOK
    <2>. QED BY <1>2, <1>4, <2>9, <2>10, <2>11 DEF HandlerOK
  <1>. QED BY <1>3, <1>4

-----------------------------------------------------------------------------
(* A step that keeps the records sound *)

\* A handler's step.
LEMMA SoundStep ==
  ASSUME Sound, NEW h \in Handlers, WorldGrows, RowsGrow, Stored', Placed', LocalsOK',
         inbox' \subseteq inbox,
         \A i \in DOMAIN rows' : (i \in DOMAIN rows /\ rows'[i].extra = rows[i].extra) \/ RowOK(i)',
         \A g \in Handlers \ {h} : SameLocals(g), HandlerOK(h)'
  PROVE  Sound'
  <1>1. Posted'
    BY EventKept DEF Sound, Posted
  <1>2. Mapped'
    <2>1. ASSUME NEW i \in DOMAIN rows' PROVE RowOK(i)'
      <3>1. CASE i \in DOMAIN rows /\ rows'[i].extra = rows[i].extra
        BY <3>1, RowKept DEF Sound, Mapped
      <3>. QED BY <3>1
    <2>. QED BY <2>1 DEF Mapped
  <1>3. Held'
    <2>1. ASSUME NEW g \in Handlers PROVE HandlerOK(g)'
      <3>1. CASE g # h
        BY <3>1, HandlerKept DEF Sound, Held
      <3>. QED BY <3>1
    <2>. QED BY <2>1 DEF Held
  <1>. QED BY <1>1, <1>2, <1>3 DEF Sound

\* A person's act.
LEMMA SoundAct ==
  ASSUME Sound, WorldGrows, Stored', Placed', UNCHANGED <<rows, handlers>>,
         \A e \in inbox' : e \in inbox \/ EventOK(e)'
  PROVE  Sound'
  <1>1. RowsGrow
    BY DEF RowsGrow
  <1>2. Posted'
    BY EventKept DEF Sound, Posted
  <1>3. Mapped'
    BY <1>1, RowKept DEF Sound, Mapped
  <1>4. Held'
    BY <1>1, HandlerKept DEF Sound, Held, SameLocals, handlers
  <1>5. LocalsOK'
    BY DEF Sound, LocalsOK, handlers
  <1>. QED BY <1>2, <1>3, <1>4, <1>5 DEF Sound

LEMMA PlacedSame ==
  ASSUME Placed, messages \in Seq(Messages), messages' \in Seq(Messages),
         DOMAIN messages' = DOMAIN messages,
         \A k \in DOMAIN messages :
              /\ messages'[k].of = messages[k].of /\ messages'[k].by = messages[k].by
              /\ messages'[k].thread = messages[k].thread
              /\ messages[k].by = "person" => messages'[k].text \in Texts
  PROVE  Placed'
  <1>1. Len(messages') = Len(messages)
    OBVIOUS
  <1>2. ASSUME NEW m \in DOMAIN messages'
        PROVE  /\ messages'[m].by = "parent" <=> m \in 1..Stacked
               /\ messages'[m].thread \in 0..(m - 1)
               /\ messages'[m].by = "person" =>
                    /\ messages'[m].text \in Texts
                    /\ messages'[m].thread # 0 => messages'[messages'[m].thread].thread = 0
               /\ messages'[m].by = "notice" => messages'[m].of \in 1..(m - 1)
    <2>1. messages[m].thread \in 0..(m - 1) /\ m \in 1..Len(messages)
      BY DEF Placed
    <2>2. PICK r : r = messages[m].thread
      OBVIOUS
    <2>3. r # 0 => r \in DOMAIN messages
      BY <2>1, <2>2
    <2>. QED BY <2>2, <2>3 DEF Placed
  <1>. QED BY <1>1, <1>2 DEF Placed

LEMMA PlacedNew ==
  ASSUME Placed, messages \in Seq(Messages), messages' \in Seq(Messages), 
         NEW n, n = Len(messages) + 1, DOMAIN messages' = DOMAIN messages \cup {n},
         \A m \in DOMAIN messages : messages'[m] = messages[m],
         messages'[n].by # "parent", messages'[n].thread \in 0..Len(messages),
         messages'[n].by = "person" =>
           /\ messages'[n].text \in Texts
           /\ messages'[n].thread # 0 => messages[messages'[n].thread].thread = 0,
         messages'[n].by = "notice" => messages'[n].of \in DOMAIN messages
  PROVE  Placed'
  <1>1. Len(messages') = n /\ Len(messages) \in Nat /\ DOMAIN messages = 1..Len(messages)
    OBVIOUS
  <1>2. ASSUME NEW m \in DOMAIN messages'
        PROVE  /\ messages'[m].by = "parent" <=> m \in 1..Stacked
               /\ messages'[m].thread \in 0..(m - 1)
               /\ messages'[m].by = "person" =>
                    /\ messages'[m].text \in Texts
                    /\ messages'[m].thread # 0 => messages'[messages'[m].thread].thread = 0
               /\ messages'[m].by = "notice" => messages'[m].of \in 1..(m - 1)
    <2>1. CASE m = n
      <3>1. n \notin 1..Stacked
        BY <1>1 DEF Placed
      <3>2. n - 1 = Len(messages)
        BY <1>1
      <3>3. PICK r : r = messages'[n].thread
        OBVIOUS
      <3>4. r # 0 => r \in DOMAIN messages
        BY <3>3, <1>1
      <3>. QED BY <1>1, <2>1, <3>1, <3>2, <3>3, <3>4
    <2>2. CASE m \in DOMAIN messages
      <3>1. messages[m].thread \in 0..(m - 1) /\ m \in 1..Len(messages)
        BY <2>2 DEF Placed
      <3>2. PICK r : r = messages[m].thread
        OBVIOUS
      <3>3. r # 0 => r \in DOMAIN messages
        BY <3>1, <3>2
      <3>. QED BY <2>2, <3>2, <3>3 DEF Placed
    <2>. QED BY <2>1, <2>2
  <1>3. Stacked \in 0..Len(messages')
    BY <1>1 DEF Placed
  <1>. QED BY <1>2, <1>3 DEF Placed

----
LEMMA SameWorld ==
  ASSUME Sound, UNCHANGED <<comments, messages>>
  PROVE  WorldGrows /\ Placed'
BY DEF Sound, WorldGrows, Placed

LEMMA SameTable ==
  ASSUME UNCHANGED rows
  PROVE  /\ RowsGrow
         /\ \A i \in DOMAIN rows' : (i \in DOMAIN rows /\ rows'[i].extra = rows[i].extra) \/ RowOK(i)'
BY DEF RowsGrow

\* The app says something, and the handler goes on.
Added(n, by, of, thread, part) ==
  /\ messages' \in Seq(Messages) /\ n \in Nat /\ n \notin DOMAIN messages
  /\ DOMAIN messages' = DOMAIN messages \cup {n}
  /\ \A m \in DOMAIN messages : messages'[m] = messages[m] /\ m < n
  /\ messages'[n] = Message(by, of, thread, None, part)

LEMMA SayDone ==
  ASSUME Sound, NEW by \in {"app", "notice"}, NEW of \in Nat, NEW thread \in 0..Len(messages),
         NEW part \in Shows \cup {None}, Say(by, of, thread, part), UNCHANGED <<comments, open, rows, acts>>,
         by = "notice" => of \in DOMAIN messages,
         NEW n, n = Len(messages) + 1
  PROVE  /\ Added(n, by, of, thread, part) /\ WorldGrows /\ Stored' /\ Placed'
         /\ by = "app" => n \in AppsOf(of)'
  <1>1. messages' = Append(messages, Message(by, of, thread, None, part)) /\ messages \in Seq(Messages)
    BY DEF Say, Sound, Stored
  <1>2. thread \in Nat
    BY <1>1
  <1>3. Added(n, by, of, thread, part)
    <2>1. /\ by \in {"person", "app", "notice", "parent"} /\ messages \in Seq(Messages)
          /\ None \in Texts \cup {None} /\ messages' = Append(messages, Message(by, of, thread, None, part))
      BY <1>1
    <2>. HIDE <1>1
    <2>. QED BY <1>2, <2>1, MessageNew DEF Added
  <1>4. /\ messages'[n].by = by /\ messages'[n].of = of /\ messages'[n].thread = thread
    BY <1>3 DEF Added, Message
  <1>5. Placed'
    BY <1>1, <1>3, <1>4, PlacedNew DEF Added, Sound
  <1>6. WorldGrows
    BY <1>3 DEF Added, WorldGrows
  <1>7. Stored'
    BY <1>3 DEF Added, Sound, Stored
  <1>8. by = "app" => n \in AppsOf(of)'
    BY <1>3, <1>4 DEF AppsOf, Added
  <1>. QED BY <1>3, <1>5, <1>6, <1>7, <1>8

LEMMA PartShown ==
  ASSUME NEW t \in Texts, NEW k \in 1..Len(Parts[t])
  PROVE  Parts[t][k] \in Shows
BY DEF Shows

\* A message of the app's is shown otherwise or taken away.
LEMMA AlterDone ==
  ASSUME Sound, NEW m \in DOMAIN messages, NEW x,
         \/ messages' = [messages EXCEPT ![m].text = x] /\ x \in Texts
         \/ messages' = [messages EXCEPT ![m].part = x] /\ x \in Shows
         \/ messages' = [messages EXCEPT ![m].live = FALSE],
         UNCHANGED <<comments, open, rows>>, acts' \in Nat
  PROVE  WorldGrows /\ Stored' /\ Placed' /\ DOMAIN messages' = DOMAIN messages
  <1>1. messages \in Seq(Messages)
    BY DEF Sound, Stored
  <1>2. /\ messages' \in Seq(Messages) /\ DOMAIN messages' = DOMAIN messages
        /\ \A k \in DOMAIN messages :
              /\ messages'[k].of = messages[k].of /\ messages'[k].by = messages[k].by
              /\ messages'[k].thread = messages[k].thread
              /\ k # m => messages'[k] = messages[k]
        /\ messages' = [messages EXCEPT ![m].text = x] => messages'[m].text = x
        /\ messages' = [messages EXCEPT ![m].part = x] => messages'[m].text = messages[m].text
        /\ messages' = [messages EXCEPT ![m].live = FALSE] => messages'[m].text = messages[m].text
    BY <1>1, MessageAltered
  <1>3. \A k \in DOMAIN messages : messages[k].by = "person" => messages'[k].text \in Texts
    <2>1. \A k \in DOMAIN messages : messages[k].by = "person" => messages[k].text \in Texts
      BY DEF Sound, Placed
    <2>2. messages'[m].text \in Texts \/ messages'[m].text = messages[m].text
      <3>1. CASE messages' = [messages EXCEPT ![m].text = x] /\ x \in Texts
        BY <1>2, <3>1
      <3>2. CASE messages' = [messages EXCEPT ![m].part = x] /\ x \in Shows
        BY <1>2, <3>2
      <3>3. CASE messages' = [messages EXCEPT ![m].live = FALSE]
        BY <1>2, <3>3
      <3>. QED BY <3>1, <3>2, <3>3
    <2>. QED BY <1>2, <2>1, <2>2
  <1>4. Placed'
    <2>1. Placed
      BY DEF Sound
    <2>. QED BY <1>1, <1>2, <1>3, <2>1, PlacedSame
  <1>5. WorldGrows
    BY <1>2 DEF WorldGrows
  <1>6. Stored'
    BY <1>2 DEF Sound, Stored
  <1>. QED BY <1>2, <1>4, <1>5, <1>6

LEMMA CommentDone ==
  ASSUME Sound, NEW c \in DOMAIN comments, NEW t \in Texts, NEW g \in BOOLEAN,
         \/ comments' = [comments EXCEPT ![c].text = t]
         \/ comments' = [comments EXCEPT ![c].text = t, ![c].tagged = g]
         \/ comments' = [comments EXCEPT ![c].live = FALSE],
         UNCHANGED <<messages, open, rows>>, acts' \in Nat
  PROVE  WorldGrows /\ Stored' /\ Placed' /\ DOMAIN comments' = DOMAIN comments
  <1>1. /\ comments' \in Seq(Comments) /\ DOMAIN comments' = DOMAIN comments
        /\ \A k \in DOMAIN comments : comments'[k].of = comments[k].of /\ comments'[k].pr = comments[k].pr
    <2>. comments \in Seq(Comments)
      BY DEF Sound, Stored
    <2>. QED BY CommentAltered
  <1>2. Placed'
    BY DEF Sound, Placed
  <1>. QED BY <1>1, <1>2 DEF WorldGrows, Sound, Stored

LEMMA NewCommentDone ==
  ASSUME Sound, NEW p \in PRs, NEW of \in Nat, NEW t \in Texts, NEW g \in BOOLEAN,
         NEW n, n = Len(comments) + 1,
         comments' = Append(comments, [pr |-> p, of |-> of, text |-> t, tagged |-> g, live |-> TRUE]),
         UNCHANGED <<messages, open, rows>>, acts' \in Nat
  PROVE  /\ WorldGrows /\ Stored' /\ Placed' /\ n \in Nat /\ n \notin DOMAIN comments
         /\ DOMAIN comments' = DOMAIN comments \cup {n}
         /\ comments'[n] = [pr |-> p, of |-> of, text |-> t, tagged |-> g, live |-> TRUE]
         /\ \A c \in DOMAIN comments : comments'[c] = comments[c]
  <1>1. /\ comments' \in Seq(Comments) /\ n \in Nat /\ n \notin DOMAIN comments
        /\ DOMAIN comments' = DOMAIN comments \cup {n}
        /\ \A c \in DOMAIN comments : comments'[c] = comments[c]
        /\ comments'[n] = [pr |-> p, of |-> of, text |-> t, tagged |-> g, live |-> TRUE]
    <2>1. PICK new : new = [pr |-> p, of |-> of, text |-> t, tagged |-> g, live |-> TRUE]
      OBVIOUS
    <2>2. new \in Comments
      BY <2>1 DEF Comments
    <2>3. comments \in Seq(Comments)
      BY DEF Sound, Stored
    <2>4. comments' = Append(comments, new)
      BY <2>1
    <2>5. /\ comments' \in Seq(Comments) /\ n \in Nat /\ n \notin DOMAIN comments
          /\ DOMAIN comments' = DOMAIN comments \cup {n}
          /\ \A c \in DOMAIN comments : comments'[c] = comments[c]
          /\ comments'[n] = new
      BY ONLY n = Len(comments) + 1, <2>2, <2>3, <2>4, CommentNew
    <2>. QED BY <2>1, <2>5
  <1>2. Placed'
    BY DEF Sound, Placed
  <1>. QED BY <1>1, <1>2 DEF WorldGrows, Sound, Stored

-----------------------------------------------------------------------------
(* What a handler finds *)

LEMMA Resolved ==
  ASSUME open \subseteq PRs, NEW about \in PRs \cup {None}, NEW target,
         target = Resolve(None, about, open, FALSE)
  PROVE  /\ ~Ambiguous(target) => target.pr \in PRs
         /\ about # None => ~Ambiguous(target) /\ target.pr = about
  <1>0. None \notin PRs /\ 0 \in PRs
    BY MessageSyncAssumption DEF PRs
  <1>1. CASE about # None
    BY <1>0, <1>1 DEF Resolve, Target, Ambiguous
  <1>2. CASE about = None
    <2>1. IsFiniteSet(open)
      <3>1. IsFiniteSet(PRs)
        BY MessageSyncAssumption, FS_Interval DEF PRs
      <3>. QED BY <3>1, FS_Subset
    <2>2. Cardinality(open) \in Nat /\ (Cardinality(open) = 0 <=> open = {})
      BY <2>1, FS_CardinalityType, FS_EmptySet
    <2>3. CASE Cardinality(open) = 1
      <3>1. open # {}
        BY <2>2, <2>3
      <3>2. (CHOOSE p \in open : TRUE) \in open
        BY <3>1
      <3>3. target.pr = CHOOSE p \in open : TRUE
        BY <1>2, <2>3 DEF Resolve, Target
      <3>. QED BY <1>2, <3>2, <3>3
    <2>4. CASE Cardinality(open) # 1 /\ (open = {} \/ 0 \in open)
      <3>1. target.pr = 0
        BY <1>2, <2>4 DEF Resolve, Target
      <3>. QED BY <1>0, <1>2, <3>1
    <2>5. CASE Cardinality(open) # 1 /\ open # {} /\ 0 \notin open
      <3>1. target.pr = None /\ target.open = open
        BY <1>2, <2>5 DEF Resolve, Target
      <3>2. Cardinality(open) > 1
        BY <2>2, <2>5
      <3>. QED BY <1>2, <3>1, <3>2 DEF Ambiguous
    <2>. QED BY <2>3, <2>4, <2>5
  <1>. QED BY <1>1, <1>2

LEMMA ParentsKnown ==
  ASSUME Sound, NEW m, m = 0 \/ m \in DOMAIN messages
  PROVE  PRsOfMessage(m) \subseteq PRs \cup {None}
  <1>1. CASE m = 0
    BY <1>1 DEF PRsOfMessage
  <1>2. CASE m # 0 /\ messages[m].by = "parent"
    <2>1. m \in 1..Stacked /\ Stacked \in Nat
      BY <1>2, MessageSyncAssumption DEF Sound, Placed
    <2>. QED BY <1>2, <2>1 DEF PRsOfMessage, PRs
  <1>3. CASE m # 0 /\ messages[m].by # "parent"
    <2>1. ASSUME NEW i \in RowsOfMessage(m), i # 0 PROVE rows[i].pr \in PRs
      <3>1. i \in DOMAIN rows /\ rows \in Seq(Rows)
        BY <2>1 DEF RowsOfMessage, Sound, Stored
      <3>2. rows[i] \in Rows
        BY <3>1
      <3>. QED BY <3>2 DEF Rows
    <2>. QED BY <1>3, <2>1 DEF PRsOfMessage
  <1>. QED BY <1>1, <1>2, <1>3

\* The row of a comment, and what the rows of an item are.
LEMMA RowFor ==
  ASSUME Sound, NEW c, NEW i, i = RowOfComment(c)
  PROVE  IF RowsFor(c) = {} THEN i = 0 ELSE i \in RowsFor(c) /\ i # 0
  <1>1. RowsFor(c) \in SUBSET Nat /\ 0 \notin RowsFor(c)
    BY DEF RowsFor, Sound, Stored
  <1>2. RowsFor(c) # {} => Min(RowsFor(c)) \in RowsFor(c)
    BY <1>1, MinInside
  <1>3. i = IF RowsFor(c) = {} THEN 0 ELSE Min(RowsFor(c))
    BY DEF RowOfComment, RowsFor
  <1>. QED BY <1>1, <1>2, <1>3

LEMMA OwnRows ==
  ASSUME Sound
  PROVE  /\ \A c : Own(<<"github", c>>) => \A i \in RowsFor(c) : rows[i].origin = "github"
         /\ \A m : Own(<<"slack", m>>) => \A i \in RowsAt(m) : rows[i].origin = "slack"
         /\ \A i \in DOMAIN rows : IF rows[i].origin = "github" THEN Own(<<"github", rows[i].comment>>)
                                   ELSE Own(<<"slack", rows[i].ts>>)
  <1>1. \A i \in DOMAIN rows : RowOK(i)
    BY DEF Sound, Mapped
  <1>2. \A m \in DOMAIN messages : messages[m].by = "person" => m # 0
    BY DEF Sound, Stored
  <1>3. ASSUME NEW c, Own(<<"github", c>>), NEW i \in RowsFor(c) PROVE rows[i].origin = "github"
    <2>1. i \in DOMAIN rows /\ rows[i].comment = c /\ comments[c].of = 0
      BY <1>3 DEF RowsFor, Own
    <2>. QED BY <1>1, <1>2, <2>1 DEF RowOK
  <1>4. ASSUME NEW m, Own(<<"slack", m>>), NEW i \in RowsAt(m) PROVE rows[i].origin = "slack"
    <2>1. i \in DOMAIN rows /\ rows[i].ts = m /\ messages[m].by = "person"
      BY <1>4 DEF RowsAt, Own
    <2>. QED BY <1>1, <2>1 DEF RowOK, AppsOf
  <1>5. ASSUME NEW i \in DOMAIN rows
        PROVE  IF rows[i].origin = "github" THEN Own(<<"github", rows[i].comment>>)
               ELSE Own(<<"slack", rows[i].ts>>)
    BY <1>1 DEF RowOK, Own
  <1>. QED BY <1>3, <1>4, <1>5

----
\* An event leaves, or is kept to come once more.
Leaves(e) ==
  /\ e \in inbox
  /\ \/ inbox' = inbox \ {e} /\ tangled' = tangled
     \/ inbox' = inbox /\ tangled' = tangled \cup {Item(e)}

Ignored(e) ==
  /\ e.kind # "new"
  /\ e.kind = "delete" \/ e.plain =>
       IF e.side = "github" THEN RowsFor(e.item) = {} ELSE RowsAt(e.item) = {}

Taking(h, e) ==
  \/ /\ e.side = "github" /\ e.kind = "new" /\ e.plain
     /\ Begin(h, e, "post", 0, comments[e.item].pr)
  \/ /\ e.side = "github" /\ e.kind # "new"
     /\ \E i \in RowsFor(e.item) :
          /\ rows[i].origin = "github"
          /\ \/ e.kind = "edit" /\ e.plain /\ Begin(h, e, "resync", i, rows[i].pr)
             \/ e.kind = "delete" /\ Begin(h, e, "unpost", i, rows[i].pr)
  \/ e.side = "slack" /\ e.kind = "new" /\ e.plain /\ Begin(h, e, "notice", 0, 0)
  \/ /\ e.side = "slack" /\ e.kind = "new" /\ e.plain
     /\ \E p \in PRs :
          /\ Begin(h, e, "comment", 0, p)
          /\ \E about \in PRsOfMessage(messages[e.item].thread) : about # None => p = about
  \/ /\ e.side = "slack" /\ e.kind # "new"
     /\ \E i \in RowsAt(e.item) :
          /\ rows[i].origin = "slack"
          /\ \/ e.kind = "edit" /\ e.plain /\ Begin(h, e, "edit", i, rows[i].pr)
             \/ e.kind = "delete" /\ Begin(h, e, "uncomment", i, rows[i].pr)

LEMMA EchoesForeign ==
  ASSUME Sound, NEW e \in Echoes
  PROVE  /\ ~Own(Item(e)) /\ ~e.plain /\ e.kind \in Events
         /\ \/ e.side = "github" /\ e.item \in DOMAIN comments
            \/ e.side = "slack" /\ e.item \in DOMAIN messages
  BY DEF Echoes, Event, Own, Item, Events

\* What is taken up is an event of an item of a person's own.
LEMMA Taken ==
  ASSUME Sound, NEW h \in Handlers, Receive(h)
  PROVE  \E e :
           \/ UNCHANGED handlers /\ UNCHANGED <<inbox, tangled>>
           \/ UNCHANGED handlers /\ Leaves(e) /\ (Own(Item(e)) => Ignored(e))
           \/ Leaves(e) /\ Own(Item(e)) /\ EventOK(e) /\ Taking(h, e)
  <1>1. PICK e \in inbox \cup Echoes :
          /\ Deliver(e)
          /\ OnComment(h, e) \/ OnCommentChanged(h, e) \/ OnMessage(h, e) \/ OnMessageChanged(h, e)
    BY DEF Receive
  <1>2. e \in inbox => EventOK(e)
    BY DEF Sound, Posted
  <1>3. PICK c : c = e.item
    OBVIOUS
  <1>4. /\ e.kind \in Events
        /\ \/ e.side = "github" /\ c \in DOMAIN comments
           \/ e.side = "slack" /\ c \in DOMAIN messages /\ (e.plain => messages[c].by = "person")
        /\ e.kind = "new" /\ e \in inbox => Own(Item(e)) /\ e.plain
        /\ e \in Echoes => ~e.plain /\ ~Own(Item(e))
    <2>1. CASE e \in inbox
      <3>1. e \in Echoes => ~e.plain /\ ~Own(Item(e))
        BY EchoesForeign
      <3>. QED BY <1>2, <1>3, <2>1, <3>1 DEF EventOK
    <2>2. CASE e \notin inbox
      BY <1>3, <2>2, EchoesForeign
    <2>. QED BY <2>1, <2>2
  <1>5. Item(e) = <<e.side, c>>
    BY <1>3 DEF Item
  <1>6. Own(Item(e)) => e \in inbox /\ Leaves(e)
    BY <1>1, <1>4 DEF Deliver, Leaves
  <1>7. UNCHANGED <<inbox, tangled>> \/ Leaves(e)
    BY <1>1 DEF Deliver, Leaves
  <1>8. (UNCHANGED handlers /\ (Own(Item(e)) => Ignored(e))) \/ (Own(Item(e)) /\ Taking(h, e))
    <2>1. CASE OnComment(h, e)
      <3>1. e.plain => Own(Item(e))
        BY <1>4, <2>1 DEF OnComment
      <3>2. ~e.plain => ~Own(Item(e))
        BY <1>4, <1>6, <2>1 DEF OnComment
      <3>. QED BY <2>1, <3>1, <3>2 DEF OnComment, Drop, Taking
    <2>2. CASE OnCommentChanged(h, e)
      <3>1. PICK i : i = RowOfComment(c)
        OBVIOUS
      <3>2. IF RowsFor(c) = {} THEN i = 0 ELSE i \in RowsFor(c) /\ i # 0
        BY <3>1, RowFor
      <3>3. /\ e.side = "github" /\ e.kind # "new"
            /\ IF e.kind = "edit"
               THEN IF e.plain /\ i # 0 /\ rows[i].origin = "github"
                    THEN Begin(h, e, "resync", i, rows[i].pr) ELSE Drop
               ELSE IF i # 0 /\ rows[i].origin = "github"
                    THEN Begin(h, e, "unpost", i, rows[i].pr) ELSE Drop
        BY <1>3, <2>2, <3>1 DEF OnCommentChanged
      <3>4. e.kind = "edit" \/ e.kind = "delete"
        BY <1>4, <3>3 DEF Events
      <3>5. CASE i # 0 /\ rows[i].origin = "github"
        <4>1. i \in RowsFor(c) /\ i \in DOMAIN rows /\ rows[i].comment = c
          BY <3>2, <3>5 DEF RowsFor
        <4>2. Own(Item(e))
          BY <1>5, <3>3, <3>5, <4>1, OwnRows
        <4>3. CASE e.kind = "edit" /\ ~e.plain
          BY <3>3, <4>3 DEF Ignored, Drop
        <4>4. CASE e.kind = "delete" \/ e.plain
          <5>1. Taking(h, e)
            BY <1>3, <3>3, <3>4, <3>5, <4>1, <4>4 DEF Taking
          <5>. QED BY <4>2, <5>1
        <4>. QED BY <3>4, <4>3, <4>4
      <3>6. CASE ~(i # 0 /\ rows[i].origin = "github")
        <4>1. UNCHANGED handlers
          BY <3>3, <3>6 DEF Drop
        <4>2. Own(Item(e)) => RowsFor(c) = {}
          BY <1>5, <3>2, <3>3, <3>6, OwnRows
        <4>. QED BY <1>3, <3>3, <4>1, <4>2 DEF Ignored
      <3>. QED BY <3>5, <3>6
    <2>3. CASE OnMessage(h, e)
      <3>1. e.side = "slack" /\ e.kind = "new"
        BY <2>3 DEF OnMessage
      <3>2. CASE ~e.plain
        BY <1>4, <1>6, <2>3, <3>1, <3>2 DEF OnMessage, Drop
      <3>3. CASE e.plain
        <4>1. Own(Item(e)) /\ c \in DOMAIN messages
          BY <1>4, <3>1, <3>3
        <4>2. PICK about \in PRsOfMessage(messages[c].thread) :
                LET target == Resolve(None, about, open, FALSE) IN
                IF Ambiguous(target) THEN Begin(h, e, "notice", 0, 0)
                ELSE Begin(h, e, "comment", 0, target.pr)
          BY <1>3, <2>3, <3>3 DEF OnMessage
        <4>3. PICK target : target = Resolve(None, about, open, FALSE)
          OBVIOUS
        <4>4. messages[c].thread = 0 \/ messages[c].thread \in DOMAIN messages
          <5>1. messages[c].thread \in 0..(c - 1) /\ c \in 1..Len(messages)
            BY <4>1 DEF Sound, Placed, Stored
          <5>. QED BY <5>1
        <4>5. about \in PRs \cup {None} /\ open \subseteq PRs
          BY <4>4, ParentsKnown DEF Sound, Stored
        <4>6. /\ ~Ambiguous(target) => target.pr \in PRs
              /\ about # None => ~Ambiguous(target) /\ target.pr = about
          BY <4>3, <4>5, Resolved
        <4>7. CASE Ambiguous(target)
          BY <3>1, <3>3, <4>1, <4>2, <4>3, <4>7 DEF Taking
        <4>8. CASE ~Ambiguous(target)
          <5>1. PICK p \in PRs : p = target.pr
            BY <4>6, <4>8
          <5>2. Begin(h, e, "comment", 0, p)
            BY <4>2, <4>3, <4>8, <5>1
          <5>. QED BY <1>3, <3>1, <3>3, <4>1, <4>6, <5>1, <5>2 DEF Taking
        <4>. QED BY <4>7, <4>8
      <3>. QED BY <3>2, <3>3
    <2>4. CASE OnMessageChanged(h, e)
      <3>1. PICK i \in RowsOfMessage(c) :
               IF e.kind = "edit"
               THEN IF e.plain /\ i # 0 /\ rows[i].origin = "slack"
                    THEN Begin(h, e, "edit", i, rows[i].pr) ELSE Drop
               ELSE IF i # 0 /\ rows[i].origin = "slack"
                    THEN Begin(h, e, "uncomment", i, rows[i].pr) ELSE Drop
        BY <1>3, <2>4 DEF OnMessageChanged
      <3>2. e.side = "slack" /\ e.kind # "new"
        BY <2>4 DEF OnMessageChanged
      <3>3. IF RowsAt(c) = {} THEN i = 0 ELSE i \in RowsAt(c) /\ i # 0
        BY <3>1 DEF RowsOfMessage, RowsAt, Sound, Stored
      <3>4. e.kind = "edit" \/ e.kind = "delete"
        BY <1>4, <3>2 DEF Events
      <3>5. CASE i # 0 /\ rows[i].origin = "slack"
        <4>1. i \in RowsAt(c) /\ i \in DOMAIN rows /\ rows[i].ts = c
          BY <3>3, <3>5 DEF RowsAt
        <4>2. Own(Item(e))
          BY <1>5, <3>2, <3>5, <4>1, OwnRows
        <4>3. CASE e.kind = "edit" /\ ~e.plain
          BY <3>1, <4>3 DEF Ignored, Drop
        <4>4. CASE e.kind = "delete" \/ e.plain
          <5>1. Taking(h, e)
            BY <1>3, <3>1, <3>2, <3>4, <3>5, <4>1, <4>4 DEF Taking
          <5>. QED BY <4>2, <5>1
        <4>. QED BY <3>4, <4>3, <4>4
      <3>6. CASE ~(i # 0 /\ rows[i].origin = "slack")
        <4>1. UNCHANGED handlers
          BY <3>1, <3>6 DEF Drop
        <4>2. Own(Item(e)) => RowsAt(c) = {}
          BY <1>5, <3>2, <3>3, <3>6, OwnRows
        <4>. QED BY <1>3, <3>2, <4>1, <4>2 DEF Ignored
      <3>. QED BY <3>5, <3>6
    <2>. QED BY <1>1, <2>1, <2>2, <2>3, <2>4
  <1>. QED BY <1>2, <1>6, <1>7, <1>8

-----------------------------------------------------------------------------
(* Events that reach a handler keep the records sound *)

\* A handler that ends leaves nothing behind.
LEMMA SoundDone ==
  ASSUME Sound, NEW h \in Handlers, WorldGrows, RowsGrow, Stored', Placed', inbox' \subseteq inbox,
         \A i \in DOMAIN rows' : (i \in DOMAIN rows /\ rows'[i].extra = rows[i].extra) \/ RowOK(i)',
         Done(h)
  PROVE  Sound'
  <1>1. /\ LocalsOK' /\ pc'[h] = "idle" /\ Resting(h)' /\ pr'[h] = 0
        /\ \A g \in Handlers \ {h} : SameLocals(g)
    BY LocalsDone DEF Sound
  <1>2. 0 \in PRs
    BY MessageSyncAssumption DEF PRs
  <1>3. HandlerOK(h)'
    BY <1>1, <1>2 DEF HandlerOK
  <1>. QED BY <1>1, <1>3, SoundStep

LEMMA RowListed ==
  ASSUME Sound, NEW i \in DOMAIN rows
  PROVE  /\ rows[i].pr \in PRs /\ i # 0
         /\ rows[i].origin = "github" =>
              Listed(i) \in Seq(AppsOf(rows[i].comment)) /\ Listed(i) # <<>>
              /\ Listed(i)[1] = rows[i].ts /\ Len(Listed(i)) = Len(rows[i].extra) + 1
         /\ rows[i].origin = "slack" => Listed(i) \in Seq(DOMAIN messages)
  <1>1. rows \in Seq(Rows) /\ RowOK(i)
    BY DEF Sound, Stored, Mapped
  <1>2. rows[i] \in Rows /\ i # 0
    BY <1>1
  <1>3. rows[i].pr \in PRs
    BY <1>2 DEF Rows
  <1>4. CASE rows[i].origin = "github"
    <2>1. PICK A : A = AppsOf(rows[i].comment)
      OBVIOUS
    <2>2. PICK ts, x : ts = rows[i].ts /\ x = rows[i].extra
      OBVIOUS
    <2>3. ts \in A /\ x \in Seq(A)
      BY <1>1, <1>4, <2>1, <2>2 DEF RowOK
    <2>4. <<ts>> \o x \in Seq(A) /\ <<ts>> \o x # <<>> /\ (<<ts>> \o x)[1] = ts
          /\ Len(<<ts>> \o x) = Len(x) + 1
      BY <2>3
    <2>. QED BY <1>2, <1>3, <1>4, <2>1, <2>2, <2>4 DEF Listed
  <1>5. CASE rows[i].origin = "slack"
    <2>1. PICK ts : ts = rows[i].ts
      OBVIOUS
    <2>2. ts \in DOMAIN messages /\ rows[i].extra = <<>>
      BY <1>1, <1>5, <2>1 DEF RowOK
    <2>3. <<ts>> \o <<>> \in Seq(DOMAIN messages)
      BY <2>2
    <2>. QED BY <1>2, <1>3, <1>5, <2>1, <2>2, <2>3 DEF Listed
  <1>. QED BY <1>2, <1>3, <1>4, <1>5

\* The texts are cut into one part or more.
LEMMA PartsKnown ==
  ASSUME NEW t \in Texts
  PROVE  Len(Parts[t]) \in Nat \ {0}
BY MessageSyncAssumption

LEMMA LongestOf ==
  ASSUME NEW a \in Nat, NEW b \in Nat
  PROVE  /\ Longest(a, b) \in Nat /\ Longest(a, b) >= a /\ Longest(a, b) >= b
         /\ Longest(a, b) \in {a, b}
BY DEF Longest

LEMMA ReceiveSound ==
  ASSUME Sound, NEW h \in Handlers, Receive(h)
  PROVE  Sound'
  <1>1. UNCHANGED <<comments, messages, open, rows, acts>> /\ pc[h] = "idle"
    BY DEF Receive, world
  <1>2. WorldGrows /\ Placed' /\ RowsGrow /\ Stored'
        /\ \A i \in DOMAIN rows' : (i \in DOMAIN rows /\ rows'[i].extra = rows[i].extra) \/ RowOK(i)'
    BY <1>1, SameWorld, SameTable DEF Sound, Stored
  <1>3. PICK e :
           \/ UNCHANGED handlers /\ UNCHANGED <<inbox, tangled>>
           \/ UNCHANGED handlers /\ Leaves(e) /\ (Own(Item(e)) => Ignored(e))
           \/ Leaves(e) /\ Own(Item(e)) /\ EventOK(e) /\ Taking(h, e)
    BY Taken
  <1>4. inbox' \subseteq inbox
    BY <1>3 DEF Leaves
  <1>5. CASE UNCHANGED handlers
    <2>1. LocalsOK' /\ HandlerOK(h)' /\ \A g \in Handlers \ {h} : SameLocals(g)
      <3>1. SameLocals(h)
        BY <1>5 DEF SameLocals, handlers
      <3>2. HandlerOK(h)
        BY DEF Sound, Held
      <3>3. LocalsOK'
        BY <1>5 DEF Sound, LocalsOK, handlers
      <3>. QED BY <1>2, <1>5, <3>1, <3>2, <3>3, HandlerKept DEF SameLocals, handlers
    <2>. QED BY <1>2, <1>4, <2>1, SoundStep
  <1>6. CASE Own(Item(e)) /\ EventOK(e) /\ Taking(h, e)
    <2>0. Resting(h) /\ LocalsOK
      BY <1>1 DEF Sound, Held, HandlerOK
    <2>1. PICK c : c = e.item
      OBVIOUS
    <2>2. Own(Item(e))' /\ EventOK(e)'
      <3>1. PICK x : x = Item(e) /\ x = Item(e)'
        BY DEF Item
      <3>. QED BY <1>2, <1>6, <3>1, OwnKept, EventKept
    <2>3. e.plain => Len(Parts[e.text]) \in Nat \ {0}
      BY <1>6, PartsKnown DEF EventOK
    <2>4. ASSUME NEW step \in Stages, NEW i, NEW p \in PRs, Begin(h, e, step, i, p),
                 step # "idle",
                 LocalsOK' /\ pc'[h] = step /\ job'[h] = e /\ row'[h] = i /\ pr'[h] = p
                 /\ shown'[h] = (IF i = 0 THEN <<>> ELSE Listed(i)) /\ sent'[h] = <<>>
                 => StageOK(h)'
          PROVE  Sound'
      <3>1. /\ LocalsOK' /\ pc'[h] = step /\ job'[h] = e /\ row'[h] = i /\ pr'[h] = p
            /\ shown'[h] = (IF i = 0 THEN <<>> ELSE Listed(i)) /\ sent' = sent
            /\ \A g \in Handlers \ {h} : SameLocals(g)
        BY <2>0, <2>4, LocalsBegin
      <3>2. sent'[h] = <<>>
        BY <2>0, <3>1 DEF Resting
      <3>3. StageOK(h)'
        BY <2>4, <3>1, <3>2
      <3>4. Own(Item(job[h]))' /\ EventOK(job[h])'
        <4>1. PICK f : f = job'[h]
          OBVIOUS
        <4>. QED BY <2>2, <3>1, <4>1
      <3>5. HandlerOK(h)'
        BY <2>4, <3>1, <3>3, <3>4 DEF HandlerOK
      <3>. QED BY <1>2, <1>4, <3>1, <3>5, SoundStep
    <2>5. CASE /\ e.side = "github" /\ e.kind = "new" /\ e.plain
               /\ Begin(h, e, "post", 0, comments[c].pr)
      <3>1. c \in DOMAIN comments
        BY <1>6, <2>1, <2>5 DEF EventOK
      <3>2. comments[c] \in Comments
        BY <3>1 DEF Sound, Stored
      <3>3. comments[c].pr \in PRs /\ "post" \in Stages
        BY <3>2 DEF Comments, Stages
      <3>4. pc'[h] = "post" /\ job'[h] = e /\ row'[h] = 0 /\ pr'[h] = comments[c].pr
            /\ shown'[h] = <<>> /\ sent'[h] = <<>>
            => StageOK(h)'
        BY <1>1, <2>1, <2>3, <2>5 DEF StageOK
      <3>5. PICK p \in PRs : p = comments[c].pr
        BY <3>3
      <3>. QED BY <2>4, <2>5, <3>3, <3>4, <3>5
    <2>6. ASSUME e.side = "github", e.kind # "new", NEW i \in RowsFor(c), rows[i].origin = "github",
                 \/ e.kind = "edit" /\ e.plain /\ Begin(h, e, "resync", i, rows[i].pr)
                 \/ e.kind = "delete" /\ Begin(h, e, "unpost", i, rows[i].pr)
          PROVE  Sound'
      <3>1. i \in DOMAIN rows /\ rows[i].comment = c
        BY DEF RowsFor
      <3>2. /\ rows[i].pr \in PRs /\ i # 0 /\ Listed(i) \in Seq(AppsOf(c)) /\ Listed(i) # <<>>
        BY <2>6, <3>1, RowListed
      <3>3. PICK s : s = Listed(i)
        OBVIOUS
      <3>4. Len(s) \in Nat \ {0}
        BY <3>2, <3>3
      <3>5. AppsOf(c)' = AppsOf(c)
        BY <1>1 DEF AppsOf
      <3>6. row'[h] = i /\ job'[h] = e /\ shown'[h] = s => FoundGitHub(h)'
        <4>1. PICK A : A = AppsOf(c) /\ A = AppsOf(c)'
          BY <3>5
        <4>2. job'[h] = e => AppsOf(job[h].item)' = A
          BY <2>1, <4>1
        <4>. QED BY <1>1, <2>1, <2>6, <3>1, <3>2, <3>3, <4>1, <4>2 DEF FoundGitHub
      <3>7. CASE e.kind = "edit" /\ e.plain /\ Begin(h, e, "resync", i, rows[i].pr)
        <4>1. pc'[h] = "resync" /\ job'[h] = e /\ row'[h] = i
              /\ shown'[h] = s /\ sent'[h] = <<>> => StageOK(h)'
          <5>1. 0 < Longest(Len(Parts[e.text]), Len(s))
            BY <2>3, <3>4, <3>7 DEF Longest
          <5>. QED BY <2>6, <3>6, <3>7, <5>1 DEF StageOK
        <4>2. "resync" \in Stages /\ "resync" # "idle"
          BY DEF Stages
        <4>3. PICK p \in PRs : p = rows[i].pr
          BY <3>2
        <4>. QED BY <2>4, <3>2, <3>3, <3>7, <4>1, <4>2, <4>3
      <3>8. CASE e.kind = "delete" /\ Begin(h, e, "unpost", i, rows[i].pr)
        <4>1. pc'[h] = "unpost" /\ job'[h] = e /\ row'[h] = i
              /\ shown'[h] = s /\ sent'[h] = <<>> => StageOK(h)'
          BY <2>6, <3>4, <3>6, <3>8 DEF StageOK
        <4>2. "unpost" \in Stages /\ "unpost" # "idle"
          BY DEF Stages
        <4>3. PICK p \in PRs : p = rows[i].pr
          BY <3>2
        <4>. QED BY <2>4, <3>2, <3>3, <3>8, <4>1, <4>2, <4>3
      <3>. QED BY <2>6, <3>7, <3>8
    <2>7. ASSUME e.side = "slack", e.kind = "new", e.plain, NEW p \in PRs, NEW step \in {"comment", "notice"},
                 Begin(h, e, step, 0, p)
          PROVE  Sound'
      <3>1. pc'[h] = step /\ job'[h] = e /\ row'[h] = 0 /\ shown'[h] = <<>> /\ sent'[h] = <<>> => StageOK(h)'
        BY <2>7 DEF StageOK
      <3>2. step \in Stages /\ step # "idle"
        BY DEF Stages
      <3>. QED BY <2>4, <2>7, <3>1, <3>2
    <2>8. ASSUME e.side = "slack", e.kind # "new", NEW i \in RowsAt(c), rows[i].origin = "slack",
                 \/ e.kind = "edit" /\ e.plain /\ Begin(h, e, "edit", i, rows[i].pr)
                 \/ e.kind = "delete" /\ Begin(h, e, "uncomment", i, rows[i].pr)
          PROVE  Sound'
      <3>1. i \in DOMAIN rows /\ rows[i].ts = c
        BY DEF RowsAt
      <3>2. /\ rows[i].pr \in PRs /\ i # 0 /\ Listed(i) \in Seq(DOMAIN messages)
        BY <2>8, <3>1, RowListed
      <3>3. PICK s : s = Listed(i)
        OBVIOUS
      <3>4. row'[h] = i /\ job'[h] = e /\ shown'[h] = s => FoundSlack(h)'
        BY <1>1, <2>1, <2>8, <3>1, <3>2, <3>3 DEF FoundSlack
      <3>5. PICK p \in PRs : p = rows[i].pr
        BY <3>2
      <3>6. PICK step \in {"edit", "uncomment"} :
              /\ Begin(h, e, step, i, p)
              /\ step = "edit" => e.kind = "edit" /\ e.plain
              /\ step = "uncomment" => e.kind = "delete"
        BY <2>8, <3>5
      <3>7. pc'[h] = step /\ job'[h] = e /\ row'[h] = i
              /\ shown'[h] = s /\ sent'[h] = <<>> => StageOK(h)'
        BY <2>8, <3>4, <3>6 DEF StageOK
      <3>8. step \in Stages /\ step # "idle"
        BY <3>6 DEF Stages
      <3>. QED BY <2>4, <3>2, <3>3, <3>6, <3>7, <3>8
    <2>9. 0 \in PRs
      BY MessageSyncAssumption DEF PRs
    <2>10. Taking(h, e)
      BY <1>6
    <2>11. CASE e.side = "github"
      BY <2>1, <2>5, <2>6, <2>10, <2>11 DEF Taking
    <2>12. CASE e.side = "slack"
      BY <2>1, <2>7, <2>8, <2>9, <2>10, <2>12 DEF Taking
    <2>. QED BY <1>6, <2>11, <2>12 DEF EventOK
  <1>. QED BY <1>3, <1>5, <1>6

-----------------------------------------------------------------------------
(* So do a handler's posts *)

\* What a busy handler holds.
LEMMA Holding ==
  ASSUME Sound, NEW h \in Handlers, pc[h] # "idle"
  PROVE  /\ LocalsOK /\ StageOK(h) /\ Own(Item(job[h])) /\ EventOK(job[h]) /\ pr[h] \in PRs
         /\ job[h].plain => Len(Parts[job[h].text]) \in Nat \ {0}
         /\ job[h].side = "github" => job[h].item \in DOMAIN comments /\ comments[job[h].item].of = 0
         /\ job[h].side = "slack" => job[h].item \in DOMAIN messages /\ messages[job[h].item].by = "person"
  <1>1. LocalsOK /\ StageOK(h) /\ Own(Item(job[h])) /\ EventOK(job[h]) /\ pr[h] \in PRs
    BY DEF Sound, Held, HandlerOK
  <1>2. job[h].plain => Len(Parts[job[h].text]) \in Nat \ {0}
    BY <1>1, PartsKnown DEF EventOK
  <1>. QED BY <1>1, <1>2 DEF Own, Item, EventOK

\* A handler goes on with the same event.
LEMMA SoundGoto ==
  ASSUME Sound, NEW h \in Handlers, pc[h] # "idle", WorldGrows, RowsGrow, Stored', Placed',
         UNCHANGED <<rows, inbox>>,
         NEW step \in Stages, step # "idle", NEW x, Goto(h, step),
         sent' = [sent EXCEPT ![h] = x] \/ (sent' = sent /\ sent[h] = x),
         /\ pc'[h] = step /\ sent'[h] = x /\ job'[h] = job[h] /\ row'[h] = row[h] /\ pr'[h] = pr[h]
         /\ shown'[h] = shown[h] /\ (FoundGitHub(h) => FoundGitHub(h)')
         /\ (FoundSlack(h) => FoundSlack(h)')
         => StageOK(h)'
  PROVE  Sound'
  <1>1. LocalsOK /\ Own(Item(job[h])) /\ EventOK(job[h]) /\ pr[h] \in PRs
    BY Holding
  <1>2. /\ LocalsOK' /\ pc'[h] = step /\ sent'[h] = x
        /\ job' = job /\ row' = row /\ shown' = shown /\ pr' = pr
        /\ \A g \in Handlers \ {h} : SameLocals(g)
    BY <1>1, LocalsGoto
  <1>3. /\ FoundGitHub(h) => FoundGitHub(h)'
        /\ FoundSlack(h) => FoundSlack(h)'
    BY <1>2, FoundKept
  <1>4. StageOK(h)'
    BY <1>2, <1>3
  <1>5. Own(Item(job[h]))' /\ EventOK(job[h])'
    <2>1. PICK e : e = job[h] /\ e = job'[h]
      BY <1>2
    <2>2. PICK y : y = Item(e) /\ y = Item(e)'
      BY DEF Item
    <2>3. Own(y)' /\ EventOK(e)'
      BY <1>1, <2>1, <2>2, OwnKept, EventKept
    <2>. QED BY <2>1, <2>2, <2>3
  <1>6. HandlerOK(h)'
    BY <1>1, <1>2, <1>4, <1>5 DEF HandlerOK
  <1>. QED BY <1>2, <1>6, SoundStep, SameTable

LEMMA AppendTo ==
  ASSUME NEW A, NEW B, A \subseteq B, NEW s \in Seq(A), NEW m \in B
  PROVE  Append(s, m) \in Seq(B) /\ Len(Append(s, m)) = Len(s) + 1 /\ Len(s) \in Nat
         /\ Append(s, m)[Len(s) + 1] = m /\ \A k \in 1..Len(s) : Append(s, m)[k] = s[k]
  <1>1. s \in Seq(B)
    OBVIOUS
  <1>. QED BY <1>1

LEMMA PostSound ==
  ASSUME Sound, NEW h \in Handlers, Post(h)
  PROVE  Sound' /\ WorldGrows /\ RowsGrow
  <1>1. pc[h] = "post"
    BY DEF Post
  <1>2. PICK e, c, t, s : e = job[h] /\ c = e.item /\ t = e.text /\ s = sent[h]
    OBVIOUS
  <1>3. /\ StageOK(h) /\ EventOK(e) /\ pr[h] \in PRs /\ LocalsOK
        /\ e.plain => Len(Parts[t]) \in Nat \ {0}
        /\ e.side = "github" => c \in DOMAIN comments
    BY <1>1, <1>2, Holding
  <1>4. /\ e.side = "github" /\ e.kind = "new" /\ e.plain /\ row[h] = 0 /\ shown[h] = <<>>
        /\ pr[h] = comments[c].pr /\ s \in Seq(AppsOf(c)) /\ Len(s) < Len(Parts[t])
    BY <1>1, <1>2, <1>3 DEF StageOK
  <1>5. t \in Texts
    BY <1>2, <1>3, <1>4 DEF EventOK
  <1>6. PICK k, n : k = Len(s) + 1 /\ n = Len(messages) + 1
    OBVIOUS
  <1>7. k \in 1..Len(Parts[t])
    BY <1>3, <1>4, <1>6
  <1>8. PICK part \in Shows \cup {None} : part = Parts[t][k]
    BY <1>5, <1>7, PartShown
  <1>9. PICK thread \in 0..Len(messages) : thread = Reply(h)
    <2>1. Stacked \in 0..Len(messages) /\ Len(messages) \in Nat
      BY DEF Sound, Stored, Placed
    <2>2. s # <<>> => s[1] \in 1..Len(messages)
      BY <1>4 DEF AppsOf, Sound, Stored
    <2>. QED BY <1>2, <1>3, <2>1, <2>2 DEF Reply, PRs
  <1>10. /\ Say("app", c, thread, part)
         /\ sent' = [sent EXCEPT ![h] = Append(s, n)]
         /\ Goto(h, IF k = Len(Parts[t]) THEN "map" ELSE "post")
         /\ UNCHANGED <<comments, open, rows, inbox, tangled, acts>>
    BY <1>2, <1>6, <1>8, <1>9 DEF Post, bounds
  <1>11. c \in Nat
    BY <1>3, <1>4 DEF Sound, Stored
  <1>12. /\ WorldGrows /\ Stored' /\ Placed' /\ n \in AppsOf(c)'
    BY <1>6, <1>10, <1>11, SayDone
  <1>13. RowsGrow
    BY <1>10, SameTable
  <1>14. PICK step : step = IF k = Len(Parts[t]) THEN "map" ELSE "post"
    OBVIOUS
  <1>15. Append(s, n) \in Seq(AppsOf(c)') /\ Len(Append(s, n)) = k
    BY <1>4, <1>6, <1>12, AppsKept, AppendTo
  <1>16. /\ pc'[h] = step /\ sent'[h] = Append(s, n) /\ job'[h] = job[h] /\ row'[h] = row[h] /\ pr'[h] = pr[h]
         /\ shown'[h] = shown[h]
         => StageOK(h)'
    <2>1. CASE job'[h] = job[h]
      <3>1. PICK d, A : d = job'[h].item /\ A = AppsOf(d)'
        OBVIOUS
      <3>2. d = c /\ A = AppsOf(c)' /\ A = AppsOf(job[h].item)'
        BY <2>1, <1>2, <3>1
      <3>3. comments'[c].pr = comments[c].pr
        BY <1>10
      <3>. QED BY <1>2, <1>4, <1>7, <1>14, <1>15, <3>2, <3>3, <2>1 DEF StageOK
    <2>. QED BY <2>1
  <1>17. step \in Stages /\ step # "idle"
    BY <1>14 DEF Stages
  <1>18. Goto(h, step) /\ UNCHANGED <<rows, inbox>>
    BY <1>10, <1>14
  <1>19. PICK x : x = Append(s, n)
    OBVIOUS
  <1>. QED BY <1>1, <1>10, <1>12, <1>13, <1>16, <1>17, <1>18, <1>19, SoundGoto

LEMMA FallBackSound ==
  ASSUME Sound, NEW h \in Handlers, FallBack(h)
  PROVE  Sound' /\ WorldGrows /\ RowsGrow
  <1>1. pc[h] = "post" /\ UNCHANGED <<comments, messages, open, rows, inbox, pc, job, row, shown, pr, acts>>
    BY DEF FallBack, world
  <1>2. StageOK(h) /\ HandlerOK(h) /\ LocalsOK /\ (job[h].plain => Len(Parts[job[h].text]) \in Nat \ {0})
    BY <1>1, Holding DEF Sound, Held
  <1>3. sent' = [sent EXCEPT ![h] = <<>>] /\ asUser' = [asUser EXCEPT ![h] = FALSE]
    BY DEF FallBack
  <1>4. LocalsOK'
    BY <1>1, <1>2, <1>3 DEF LocalsOK
  <1>5. \A g \in Handlers \ {h} : SameLocals(g)
    BY <1>1, <1>2, <1>3 DEF LocalsOK, SameLocals
  <1>6. WorldGrows /\ Placed' /\ RowsGrow /\ Stored'
        /\ \A i \in DOMAIN rows' : (i \in DOMAIN rows /\ rows'[i].extra = rows[i].extra) \/ RowOK(i)'
    BY <1>1, SameWorld, SameTable DEF Sound, Stored
  <1>7. sent'[h] = <<>>
    BY <1>2, <1>3 DEF LocalsOK
  <1>8. StageOK(h)'
    BY <1>1, <1>2, <1>7 DEF StageOK
  <1>9. EventOK(job[h])' /\ Own(Item(job[h]))' /\ pr'[h] \in PRs
    BY <1>1, <1>2 DEF HandlerOK, EventOK, Own, Item
  <1>10. HandlerOK(h)'
    BY <1>1, <1>8, <1>9 DEF HandlerOK
  <1>11. inbox' \subseteq inbox
    BY <1>1
  <1>. QED BY <1>4, <1>5, <1>6, <1>10, <1>11, SoundStep

LEMMA MapCommentSound ==
  ASSUME Sound, NEW h \in Handlers, MapComment(h)
  PROVE  Sound' /\ WorldGrows /\ RowsGrow
  <1>1. pc[h] = "map" /\ Done(h) /\ UNCHANGED <<comments, messages, open, inbox, acts>>
    BY DEF MapComment, world, bounds
  <1>2. PICK c, s, p : c = job[h].item /\ s = sent[h] /\ p = pr[h]
    OBVIOUS
  <1>3. /\ c \in DOMAIN comments /\ comments[c].of = 0 /\ p \in PRs
        /\ p = comments[c].pr /\ s \in Seq(AppsOf(c)) /\ Len(s) \in Nat \ {0}
    <2>1. /\ StageOK(h) /\ EventOK(job[h]) /\ pr[h] \in PRs
          /\ job[h].plain => Len(Parts[job[h].text]) \in Nat \ {0}
          /\ job[h].side = "github" => job[h].item \in DOMAIN comments /\ comments[job[h].item].of = 0
      BY <1>1, Holding
    <2>. QED BY <1>1, <1>2, <2>1 DEF StageOK
  <1>4. PICK ts, x : ts = s[1] /\ x = Tail(s)
    OBVIOUS
  <1>5. ts \in AppsOf(c) /\ x \in Seq(AppsOf(c))
    <2>1. s # <<>>
      BY <1>3
    <2>. QED BY <1>3, <1>4, <2>1, TailTyped
  <1>6. AppsOf(c) \subseteq Nat /\ c \in Nat
    BY <1>3 DEF AppsOf, Sound, Stored
  <1>7. ts \in Nat /\ x \in Seq(Nat)
    BY <1>5, <1>6, WiderSeq
  <1>8. rows' = Append(rows, [pr |-> p, ts |-> ts, extra |-> x, comment |-> c,
                              origin |-> "github", live |-> TRUE])
    BY <1>2, <1>4 DEF MapComment, Insert
  <1>9. PICK n : n = Len(rows) + 1
    OBVIOUS
  <1>10. /\ rows' \in Seq(Rows) /\ n \in Nat \ {0} /\ n \notin DOMAIN rows
         /\ DOMAIN rows' = DOMAIN rows \cup {n}
         /\ \A i \in DOMAIN rows : rows'[i] = rows[i]
         /\ rows'[n] = [pr |-> p, ts |-> ts, extra |-> x, comment |-> c,
                        origin |-> "github", live |-> TRUE]
    <2>1. PICK new : new = [pr |-> p, ts |-> ts, extra |-> x, comment |-> c,
                            origin |-> "github", live |-> TRUE]
      OBVIOUS
    <2>2. new \in Rows
      BY <1>3, <1>6, <1>7, <2>1 DEF Rows
    <2>3. rows \in Seq(Rows)
      BY DEF Sound, Stored
    <2>4. rows' = Append(rows, new)
      BY <1>8, <2>1
    <2>5. /\ rows' \in Seq(Rows) /\ n \in Nat \ {0} /\ n \notin DOMAIN rows
          /\ DOMAIN rows' = DOMAIN rows \cup {n}
          /\ \A i \in DOMAIN rows : rows'[i] = rows[i]
          /\ rows'[n] = new
      BY ONLY n = Len(rows) + 1, <1>9, <2>2, <2>3, <2>4, RowNew
    <2>. QED BY <2>1, <2>5
  <1>11. RowsGrow
    BY <1>10 DEF RowsGrow
  <1>12. WorldGrows /\ Placed' /\ Stored'
    BY <1>1, <1>10, SameWorld DEF Sound, Stored
  <1>13. RowOK(n)'
    <2>1. AppsOf(c)' = AppsOf(c)
      BY <1>1 DEF AppsOf
    <2>2. PICK A : A = AppsOf(c)
      OBVIOUS
    <2>3. rows'[n].comment = c /\ rows'[n].pr = p /\ rows'[n].ts = ts /\ rows'[n].extra = x
          /\ rows'[n].origin = "github"
      BY <1>10
    <2>4. AppsOf(rows[n].comment)' = A
      BY <2>1, <2>2, <2>3 DEF AppsOf
    <2>. QED BY <1>1, <1>3, <1>5, <2>2, <2>3, <2>4 DEF RowOK
  <1>14. \A i \in DOMAIN rows' : (i \in DOMAIN rows /\ rows'[i].extra = rows[i].extra) \/ RowOK(i)'
    BY <1>10, <1>13
  <1>15. inbox' \subseteq inbox
    BY <1>1
  <1>. QED BY <1>1, <1>11, <1>12, <1>14, <1>15, SoundDone

-----------------------------------------------------------------------------
(* So do its edits and deletions *)

LEMMA CutOff ==
  ASSUME NEW A, NEW s \in Seq(A), NEW n \in Nat \ {0}, n <= Len(s)
  PROVE  /\ SubSeq(s, 2, n) \in Seq(A) /\ Len(SubSeq(s, 2, n)) = n - 1
         /\ \A k \in 1..(n - 1) : SubSeq(s, 2, n)[k] = s[k + 1]
  <1>1. \A k \in 2..n : s[k] \in A
    OBVIOUS
  <1>. QED BY <1>1, SubSeqProperties

LEMMA ResyncSound ==
  ASSUME Sound, NEW h \in Handlers, Resync(h)
  PROVE  Sound' /\ WorldGrows /\ RowsGrow
  <1>1. pc[h] = "resync" /\ UNCHANGED <<comments, open, rows, inbox, tangled, acts>>
    BY DEF Resync, bounds
  <1>2. PICK c, t, s, q : c = job[h].item /\ t = job[h].text /\ s = sent[h] /\ q = shown[h]
    OBVIOUS
  <1>3. /\ c \in DOMAIN comments /\ comments[c].of = 0 /\ t \in Texts /\ LocalsOK
        /\ Len(Parts[t]) \in Nat \ {0}
        /\ job[h].side = "github" /\ job[h].kind = "edit" /\ job[h].plain /\ FoundGitHub(h)
        /\ s \in Seq(AppsOf(c)) /\ Len(s) < Longest(Len(Parts[t]), Len(q))
        /\ q \in Seq(AppsOf(c)) /\ q # <<>>
    <2>1. /\ StageOK(h) /\ EventOK(job[h]) /\ LocalsOK
          /\ job[h].plain => Len(Parts[job[h].text]) \in Nat \ {0}
          /\ job[h].side = "github" => job[h].item \in DOMAIN comments /\ comments[job[h].item].of = 0
      BY <1>1, Holding
    <2>. QED BY <1>1, <1>2, <2>1 DEF StageOK, EventOK, FoundGitHub
  <1>4. PICK k, n, l, top : k = Len(s) + 1 /\ n = Len(Parts[t]) /\ l = Len(q) /\ top = Longest(n, l)
    OBVIOUS
  <1>5. k \in Nat \ {0} /\ n \in Nat \ {0} /\ l \in Nat \ {0} /\ top \in Nat /\ top >= n /\ top >= l
        /\ top \in {n, l} /\ k <= top
    <2>1. Len(s) \in Nat /\ n \in Nat \ {0} /\ l \in Nat \ {0} /\ Len(s) < top
      BY <1>3, <1>4
    <2>2. top = Longest(n, l) /\ top \in Nat /\ top >= n /\ top >= l /\ top \in {n, l}
      BY <1>4, <2>1, LongestOf
    <2>. QED BY <1>4, <2>1, <2>2
  <1>6. PICK m, step : /\ m = IF k <= l THEN q[k] ELSE Len(messages) + 1
                       /\ step = IF k >= n /\ k >= l THEN "setExtra" ELSE "resync"
    OBVIOUS
  <1>7. \/ Done(h) /\ UNCHANGED messages
        \/ /\ Goto(h, step) /\ sent' = [sent EXCEPT ![h] = Append(s, m)]
           /\ IF k > l THEN Say("app", c, q[1], Parts[t][k])
              ELSE IF k <= n THEN messages' = [messages EXCEPT ![m].part = Parts[t][k]]
              ELSE messages' = [messages EXCEPT ![m].live = FALSE]
    <2>1. job[h].item = c /\ Parts[job[h].text] = Parts[t] /\ sent[h] = s /\ shown[h] = q
      BY <1>2
    <2>2. CASE k > l
      <3>1. ~(k <= l) /\ m = Len(messages) + 1
        BY <1>5, <1>6, <2>2
      <3>2. \/ Done(h) /\ UNCHANGED messages
            \/ /\ IF ~(k <= Len(shown[h])) THEN Say("app", job[h].item, shown[h][1], Parts[job[h].text][k])
                  ELSE IF k <= Len(Parts[job[h].text])
                       THEN messages' = [messages EXCEPT ![m].part = Parts[job[h].text][k]]
                       ELSE messages' = [messages EXCEPT ![m].live = FALSE]
               /\ sent' = [sent EXCEPT ![h] = Append(sent[h], m)]
               /\ Goto(h, step)
        BY <1>2, <1>4, <1>6, <3>1 DEF Resync
      <3>. QED BY <1>4, <2>1, <2>2, <3>1, <3>2
    <2>3. CASE ~(k > l)
      <3>1. k <= l /\ m = q[k]
        BY <1>5, <1>6, <2>3
      <3>2. \/ Done(h) /\ UNCHANGED messages
            \/ /\ IF ~(k <= Len(shown[h])) THEN Say("app", job[h].item, shown[h][1], Parts[job[h].text][k])
                  ELSE IF k <= Len(Parts[job[h].text])
                       THEN messages' = [messages EXCEPT ![m].part = Parts[job[h].text][k]]
                       ELSE messages' = [messages EXCEPT ![m].live = FALSE]
               /\ sent' = [sent EXCEPT ![h] = Append(sent[h], m)]
               /\ Goto(h, step)
        BY <1>2, <1>4, <1>6, <3>1 DEF Resync
      <3>. QED BY <1>4, <2>1, <2>3, <3>1, <3>2
    <2>. QED BY <2>2, <2>3
  <1>8. RowsGrow /\ \A i \in DOMAIN rows' : (i \in DOMAIN rows /\ rows'[i].extra = rows[i].extra) \/ RowOK(i)'
    BY <1>1, SameTable
  <1>9. CASE Done(h) /\ UNCHANGED messages
    <2>1. WorldGrows /\ Placed' /\ Stored' /\ inbox' \subseteq inbox
      BY <1>1, <1>9, SameWorld DEF Sound, Stored
    <2>. QED BY <1>8, <1>9, <2>1, SoundDone
  <1>10. CASE /\ Goto(h, step) /\ sent' = [sent EXCEPT ![h] = Append(s, m)]
              /\ IF k > l THEN Say("app", c, q[1], Parts[t][k])
                 ELSE IF k <= n THEN messages' = [messages EXCEPT ![m].part = Parts[t][k]]
                 ELSE messages' = [messages EXCEPT ![m].live = FALSE]
    <2>1. WorldGrows /\ Placed' /\ Stored' /\ m \in AppsOf(c)'
      <3>1. k <= n => Parts[t][k] \in Shows
        BY <1>3, <1>4, <1>5, PartShown
      <3>2. CASE k > l
        <4>1. k <= n /\ m = Len(messages) + 1
          BY <1>5, <1>6, <3>2
        <4>2. q[1] \in 0..Len(messages) /\ c \in Nat
          BY <1>3 DEF AppsOf, Sound, Stored
        <4>3. PICK x \in Shows \cup {None} : x = Parts[t][k]
          BY <3>1, <4>1
        <4>4. PICK r \in 0..Len(messages) : r = q[1]
          BY <4>2
        <4>5. Say("app", c, r, x)
          BY <1>10, <3>2, <4>3, <4>4
        <4>. QED BY <1>1, <4>1, <4>2, <4>5, SayDone
      <3>3. CASE ~(k > l)
        <4>1. m = q[k] /\ k \in 1..l
          BY <1>5, <1>6, <3>3
        <4>2. m \in AppsOf(c)
          BY <1>3, <1>4, <4>1
        <4>3. m \in DOMAIN messages
          BY <4>2 DEF AppsOf
        <4>4. PICK x : x = Parts[t][k]
          OBVIOUS
        <4>5. \/ messages' = [messages EXCEPT ![m].part = x] /\ x \in Shows
              \/ messages' = [messages EXCEPT ![m].live = FALSE]
          BY <1>10, <3>1, <3>3, <4>4
        <4>6. acts' \in Nat
          BY <1>1 DEF Sound, Stored
        <4>7. WorldGrows /\ Placed' /\ Stored'
          BY <1>1, <4>3, <4>5, <4>6, AlterDone
        <4>. QED BY <4>2, <4>7, AppsKept
      <3>. QED BY <3>2, <3>3
    <2>2. Append(s, m) \in Seq(AppsOf(c)') /\ Len(Append(s, m)) = k
      BY <1>3, <1>4, <2>1, AppsKept, AppendTo
    <2>3. /\ pc'[h] = step /\ sent'[h] = Append(s, m) /\ job'[h] = job[h] /\ row'[h] = row[h]
          /\ shown'[h] = shown[h] /\ FoundGitHub(h)'
          => StageOK(h)'
      <3>1. CASE job'[h] = job[h]
        <4>1. PICK d, A : d = job'[h].item /\ A = AppsOf(d)'
          OBVIOUS
        <4>2. d = c /\ A = AppsOf(c)' /\ A = AppsOf(job[h].item)'
          BY <3>1, <1>2, <4>1
        <4>3. IF step = "resync" THEN k < top ELSE step = "setExtra" /\ k = top
          BY <1>5, <1>6
        <4>. QED BY <1>2, <1>3, <1>4, <1>6, <2>2, <3>1, <4>2, <4>3 DEF StageOK
      <3>. QED BY <3>1
    <2>4. step \in Stages /\ step # "idle"
      BY <1>6 DEF Stages
    <2>5. UNCHANGED <<rows, inbox>> /\ FoundGitHub(h)
      BY <1>1, <1>3
    <2>6. PICK x : x = Append(s, m)
      OBVIOUS
    <2>. QED BY <1>1, <1>8, <1>10, <2>1, <2>3, <2>4, <2>5, <2>6, SoundGoto
  <1>. QED BY <1>7, <1>9, <1>10

LEMMA SetExtraSound ==
  ASSUME Sound, NEW h \in Handlers, SetExtra(h)
  PROVE  Sound' /\ WorldGrows /\ RowsGrow
  <1>1. pc[h] = "setExtra" /\ Done(h) /\ UNCHANGED <<comments, messages, open, inbox, acts>>
    BY DEF SetExtra, world, bounds
  <1>2. PICK c, s, i, n : c = job[h].item /\ s = sent[h] /\ i = row[h] /\ n = Len(Parts[job[h].text])
    OBVIOUS
  <1>3. /\ FoundGitHub(h) /\ s \in Seq(AppsOf(c)) /\ n \in Nat \ {0} /\ Len(s) >= n
    <2>1. StageOK(h) /\ (job[h].plain => Len(Parts[job[h].text]) \in Nat \ {0})
      BY <1>1, Holding
    <2>2. /\ FoundGitHub(h) /\ s \in Seq(AppsOf(c)) /\ n \in Nat \ {0} /\ Len(s) = Longest(n, Len(shown[h]))
          /\ shown[h] \in Seq(AppsOf(c))
      BY <1>1, <1>2, <2>1 DEF StageOK, FoundGitHub
    <2>3. Len(shown[h]) \in Nat
      BY <2>2
    <2>. QED BY <2>2, <2>3, LongestOf
  <1>4. i \in DOMAIN rows /\ rows[i].origin = "github" /\ rows[i].comment = c
    BY <1>2, <1>3 DEF FoundGitHub
  <1>5. PICK x : x = SubSeq(s, 2, n)
    OBVIOUS
  <1>6. x \in Seq(AppsOf(c))
    <2>1. n <= Len(s)
      BY <1>3
    <2>2. SubSeq(s, 2, n) \in Seq(AppsOf(c))
      BY <1>3, <2>1, CutOff
    <2>. QED BY <1>5, <2>2
  <1>7. AppsOf(c) \subseteq Nat
    BY DEF AppsOf, Sound, Stored
  <1>8. x \in Seq(Nat)
    BY <1>6, <1>7, WiderSeq
  <1>9. rows' = [rows EXCEPT ![i].extra = x] \/ rows' = rows
    BY <1>2, <1>5 DEF SetExtra
  <1>10. CASE rows' = rows
    <2>1. WorldGrows /\ Placed' /\ Stored' /\ inbox' \subseteq inbox
      BY <1>1, <1>10, SameWorld DEF Sound, Stored
    <2>. QED BY <1>1, <1>10, <2>1, SoundDone, SameTable
  <1>11. CASE rows' = [rows EXCEPT ![i].extra = x]
    <2>1. rows \in Seq(Rows)
      BY DEF Sound, Stored
    <2>2. /\ rows' \in Seq(Rows) /\ DOMAIN rows' = DOMAIN rows
          /\ \A k \in DOMAIN rows :
              /\ rows'[k].origin = rows[k].origin /\ rows'[k].comment = rows[k].comment
              /\ rows'[k].ts = rows[k].ts /\ rows'[k].pr = rows[k].pr
              /\ k # i => rows'[k] = rows[k]
          /\ rows'[i].extra = x
      BY <1>4, <1>8, <1>11, <2>1, RowAltered
    <2>3. WorldGrows /\ Placed' /\ Stored' /\ inbox' \subseteq inbox /\ RowsGrow
      BY <1>1, <2>2, SameWorld DEF Sound, Stored, RowsGrow
    <2>4. RowOK(i)'
      <3>1. RowOK(i)
        BY <1>4 DEF Sound, Mapped
      <3>2. PICK A : A = AppsOf(c) /\ A = AppsOf(c)'
        BY <1>1 DEF AppsOf
      <3>3. AppsOf(rows[i].comment)' = A /\ AppsOf(rows[i].comment) = A
        BY <1>4, <2>2, <3>2 DEF AppsOf
      <3>. QED BY <1>1, <1>4, <1>6, <2>2, <3>1, <3>2, <3>3 DEF RowOK
    <2>5. \A k \in DOMAIN rows' : (k \in DOMAIN rows /\ rows'[k].extra = rows[k].extra) \/ RowOK(k)'
      BY <2>2, <2>4
    <2>. QED BY <1>1, <2>3, <2>5, SoundDone
  <1>. QED BY <1>9, <1>10, <1>11

LEMMA UnpostSound ==
  ASSUME Sound, NEW h \in Handlers, Unpost(h)
  PROVE  Sound' /\ WorldGrows /\ RowsGrow
  <1>1. pc[h] = "unpost" /\ UNCHANGED <<comments, open, rows, inbox, tangled, acts>>
    BY DEF Unpost, bounds
  <1>2. PICK c, s, q : c = job[h].item /\ s = sent[h] /\ q = shown[h]
    OBVIOUS
  <1>3. /\ LocalsOK /\ job[h].side = "github" /\ job[h].kind = "delete" /\ FoundGitHub(h)
        /\ s \in Seq(AppsOf(c)) /\ Len(s) < Len(q) /\ q \in Seq(AppsOf(c)) /\ q # <<>>
    <2>1. StageOK(h) /\ LocalsOK
      BY <1>1, Holding
    <2>. QED BY <1>1, <1>2, <2>1 DEF StageOK, FoundGitHub
  <1>4. PICK k, m, step : k = Len(s) + 1 /\ m = q[k] /\ step = IF k = Len(q) THEN "dropRow" ELSE "unpost"
    OBVIOUS
  <1>5. k \in 1..Len(q) /\ m \in AppsOf(c) /\ m \in DOMAIN messages
    <2>1. k \in 1..Len(q)
      BY <1>3, <1>4
    <2>2. m \in AppsOf(c)
      BY <1>3, <1>4, <2>1
    <2>. QED BY <2>1, <2>2 DEF AppsOf
  <1>6. \/ Done(h) /\ UNCHANGED messages
        \/ /\ messages' = [messages EXCEPT ![m].live = FALSE]
           /\ sent' = [sent EXCEPT ![h] = Append(s, m)] /\ Goto(h, step)
    BY <1>2, <1>4 DEF Unpost
  <1>7. RowsGrow /\ \A i \in DOMAIN rows' : (i \in DOMAIN rows /\ rows'[i].extra = rows[i].extra) \/ RowOK(i)'
    BY <1>1, SameTable
  <1>8. CASE Done(h) /\ UNCHANGED messages
    <2>1. WorldGrows /\ Placed' /\ Stored' /\ inbox' \subseteq inbox
      BY <1>1, <1>8, SameWorld DEF Sound, Stored
    <2>. QED BY <1>7, <1>8, <2>1, SoundDone
  <1>9. CASE /\ messages' = [messages EXCEPT ![m].live = FALSE]
             /\ sent' = [sent EXCEPT ![h] = Append(s, m)] /\ Goto(h, step)
    <2>1. WorldGrows /\ Placed' /\ Stored'
      <3>1. acts' \in Nat
        BY <1>1 DEF Sound, Stored
      <3>. QED BY <1>1, <1>5, <1>9, <3>1, AlterDone
    <2>2. Append(s, m) \in Seq(AppsOf(c)') /\ Len(Append(s, m)) = k
      <3>1. m \in AppsOf(c)'
        BY <1>5, <2>1, AppsKept
      <3>. QED BY <1>3, <1>4, <2>1, <3>1, AppsKept, AppendTo
    <2>3. /\ pc'[h] = step /\ sent'[h] = Append(s, m) /\ job'[h] = job[h] /\ row'[h] = row[h]
          /\ shown'[h] = shown[h] /\ FoundGitHub(h)'
          => StageOK(h)'
      <3>1. CASE job'[h] = job[h]
        <4>1. AppsOf(job[h].item)' = AppsOf(c)'
          BY <3>1, <1>2
        <4>2. step = "dropRow" \/ (step = "unpost" /\ k < Len(q))
          BY <1>4, <1>5
        <4>. QED BY <1>2, <1>3, <2>2, <3>1, <4>1, <4>2 DEF StageOK
      <3>. QED BY <3>1
    <2>4. step \in Stages /\ step # "idle"
      BY <1>4 DEF Stages
    <2>5. UNCHANGED <<rows, inbox>> /\ FoundGitHub(h)
      BY <1>1, <1>3
    <2>6. PICK x : x = Append(s, m)
      OBVIOUS
    <2>. QED BY <1>1, <1>7, <1>9, <2>1, <2>3, <2>4, <2>5, <2>6, SoundGoto
  <1>. QED BY <1>6, <1>8, <1>9

LEMMA DropRowSound ==
  ASSUME Sound, NEW h \in Handlers, DropRow(h)
  PROVE  Sound' /\ WorldGrows /\ RowsGrow
  <1>1. pc[h] = "dropRow" /\ Done(h) /\ UNCHANGED <<comments, messages, open, inbox, acts>>
    BY DEF DropRow, world, bounds
  <1>2. PICK i : i = row[h]
    OBVIOUS
  <1>3. i \in DOMAIN rows
    <2>1. StageOK(h)
      BY <1>1, Holding
    <2>. QED BY <1>1, <1>2, <2>1 DEF StageOK, FoundGitHub, FoundSlack
  <1>4. rows' = [rows EXCEPT ![i].live = FALSE] /\ rows \in Seq(Rows)
    BY <1>2 DEF DropRow, Sound, Stored
  <1>5. /\ rows' \in Seq(Rows) /\ DOMAIN rows' = DOMAIN rows
        /\ \A k \in DOMAIN rows :
             /\ rows'[k].origin = rows[k].origin /\ rows'[k].comment = rows[k].comment
             /\ rows'[k].ts = rows[k].ts /\ rows'[k].pr = rows[k].pr
             /\ k # i => rows'[k] = rows[k]
        /\ rows'[i].extra = rows[i].extra
    <2>1. <<>> \in Seq(Nat)
      OBVIOUS
    <2>. QED BY <1>3, <1>4, <2>1, RowAltered
  <1>6. WorldGrows /\ Placed' /\ Stored' /\ inbox' \subseteq inbox /\ RowsGrow
    BY <1>1, <1>5, SameWorld DEF Sound, Stored, RowsGrow
  <1>7. \A k \in DOMAIN rows' : (k \in DOMAIN rows /\ rows'[k].extra = rows[k].extra) \/ RowOK(k)'
    BY <1>5
  <1>. QED BY <1>1, <1>6, <1>7, SoundDone

-----------------------------------------------------------------------------
(* So does all that is left, and with it every step *)

LEMMA CommentSound ==
  ASSUME Sound, NEW h \in Handlers, Comment(h)
  PROVE  Sound' /\ WorldGrows /\ RowsGrow
  <1>1. pc[h] = "comment" /\ UNCHANGED <<messages, open, rows, inbox, acts>>
    BY DEF Comment, bounds
  <1>2. PICK m, t, p, n : m = job[h].item /\ t = job[h].text /\ p = pr[h] /\ n = Len(comments) + 1
    OBVIOUS
  <1>3. /\ job[h].side = "slack" /\ job[h].kind = "new" /\ job[h].plain /\ row[h] = 0 /\ shown[h] = <<>>
        /\ m \in DOMAIN messages /\ t \in Texts /\ p \in PRs
    <2>1. /\ StageOK(h) /\ EventOK(job[h]) /\ pr[h] \in PRs
          /\ job[h].side = "slack" => job[h].item \in DOMAIN messages /\ messages[job[h].item].by = "person"
      BY <1>1, Holding
    <2>2. job[h].side = "slack" /\ job[h].kind = "new" /\ job[h].plain /\ row[h] = 0 /\ shown[h] = <<>>
      BY <1>1, <2>1 DEF StageOK
    <2>3. job[h].text \in Texts
      BY <2>1, <2>2 DEF EventOK
    <2>. QED BY <1>2, <2>1, <2>2, <2>3
  <1>4. m \in Nat
    BY <1>3 DEF Sound, Stored
  <1>5. /\ comments' = Append(comments, [pr |-> p, of |-> m, text |-> t, tagged |-> TRUE, live |-> TRUE])
        /\ sent' = [sent EXCEPT ![h] = <<n>>] /\ Goto(h, "record")
    BY <1>2 DEF Comment
  <1>6. acts' \in Nat
    BY <1>1 DEF Sound, Stored
  <1>7. /\ WorldGrows /\ Stored' /\ Placed' /\ DOMAIN comments' = DOMAIN comments \cup {n}
        /\ comments'[n] = [pr |-> p, of |-> m, text |-> t, tagged |-> TRUE, live |-> TRUE]
    <2>1. PICK g \in BOOLEAN : g = TRUE
      OBVIOUS
    <2>2. comments' = Append(comments, [pr |-> p, of |-> m, text |-> t, tagged |-> g, live |-> TRUE])
      BY <1>5, <2>1
    <2>3. p \in PRs /\ m \in Nat /\ t \in Texts /\ UNCHANGED <<messages, open, rows>>
      BY <1>1, <1>3, <1>4
    <2>4. /\ WorldGrows /\ Stored' /\ Placed' /\ DOMAIN comments' = DOMAIN comments \cup {n}
          /\ comments'[n] = [pr |-> p, of |-> m, text |-> t, tagged |-> g, live |-> TRUE]
      BY <1>2, <1>6, <2>2, <2>3, NewCommentDone
    <2>. QED BY <2>1, <2>4
  <1>8. RowsGrow
    BY <1>1, SameTable
  <1>9. PICK x : x = <<n>>
    OBVIOUS
  <1>10. /\ pc'[h] = "record" /\ sent'[h] = x /\ job'[h] = job[h] /\ row'[h] = row[h] /\ pr'[h] = pr[h]
         /\ shown'[h] = shown[h]
         => StageOK(h)'
    <2>1. x = <<x[1]>> /\ x[1] = n
      BY <1>9
    <2>. QED BY <1>2, <1>3, <1>7, <2>1 DEF StageOK
  <1>11. "record" \in Stages /\ "record" # "idle"
    BY DEF Stages
  <1>. QED BY <1>1, <1>5, <1>7, <1>8, <1>9, <1>10, <1>11, SoundGoto

LEMMA RecordSound ==
  ASSUME Sound, NEW h \in Handlers, Record(h)
  PROVE  Sound' /\ WorldGrows /\ RowsGrow
  <1>1. pc[h] = "record" /\ Done(h) /\ UNCHANGED <<comments, messages, open, inbox, acts>>
    BY DEF Record, world, bounds
  <1>2. PICK m, c, p : m = job[h].item /\ c = sent[h][1] /\ p = pr[h]
    OBVIOUS
  <1>3. /\ m \in DOMAIN messages /\ messages[m].by = "person" /\ p \in PRs
        /\ c \in DOMAIN comments /\ comments[c].of = m /\ comments[c].pr = p
    <2>1. /\ StageOK(h) /\ EventOK(job[h]) /\ pr[h] \in PRs
          /\ job[h].side = "slack" => job[h].item \in DOMAIN messages /\ messages[job[h].item].by = "person"
      BY <1>1, Holding
    <2>. QED BY <1>1, <1>2, <2>1 DEF StageOK
  <1>4. m \in Nat /\ c \in Nat
    BY <1>3 DEF Sound, Stored
  <1>5. rows' = Append(rows, [pr |-> p, ts |-> m, extra |-> <<>>, comment |-> c,
                              origin |-> "slack", live |-> TRUE])
    BY <1>2 DEF Record, Insert
  <1>6. PICK n : n = Len(rows) + 1
    OBVIOUS
  <1>7. /\ rows' \in Seq(Rows) /\ DOMAIN rows' = DOMAIN rows \cup {n}
        /\ \A i \in DOMAIN rows : rows'[i] = rows[i]
        /\ rows'[n] = [pr |-> p, ts |-> m, extra |-> <<>>, comment |-> c,
                       origin |-> "slack", live |-> TRUE]
    <2>1. PICK new : new = [pr |-> p, ts |-> m, extra |-> <<>>, comment |-> c,
                            origin |-> "slack", live |-> TRUE]
      OBVIOUS
    <2>2. new \in Rows
      BY <1>3, <1>4, <2>1 DEF Rows
    <2>3. rows \in Seq(Rows)
      BY DEF Sound, Stored
    <2>4. rows' = Append(rows, new)
      BY <1>5, <2>1
    <2>5. /\ rows' \in Seq(Rows) /\ DOMAIN rows' = DOMAIN rows \cup {n}
          /\ \A i \in DOMAIN rows : rows'[i] = rows[i]
          /\ rows'[n] = new
      BY ONLY n = Len(rows) + 1, <1>6, <2>2, <2>3, <2>4, RowNew
    <2>. QED BY <2>1, <2>5
  <1>8. RowsGrow
    BY <1>7 DEF RowsGrow
  <1>9. WorldGrows /\ Placed' /\ Stored'
    BY <1>1, <1>7, SameWorld DEF Sound, Stored
  <1>10. RowOK(n)'
    <2>1. rows'[n].comment = c /\ rows'[n].pr = p /\ rows'[n].ts = m /\ rows'[n].extra = <<>>
          /\ rows'[n].origin = "slack"
      BY <1>7
    <2>. QED BY <1>1, <1>3, <2>1 DEF RowOK
  <1>11. \A i \in DOMAIN rows' : (i \in DOMAIN rows /\ rows'[i].extra = rows[i].extra) \/ RowOK(i)'
    BY <1>7, <1>10
  <1>12. inbox' \subseteq inbox
    BY <1>1
  <1>. QED BY <1>1, <1>8, <1>9, <1>11, <1>12, SoundDone

LEMMA NotifySound ==
  ASSUME Sound, NEW h \in Handlers, Notify(h)
  PROVE  Sound' /\ WorldGrows /\ RowsGrow
  <1>1. pc[h] = "notice" /\ Done(h) /\ UNCHANGED <<comments, open, rows, inbox, acts>>
    BY DEF Notify, bounds
  <1>2. PICK m : m = job[h].item
    OBVIOUS
  <1>3. m \in DOMAIN messages
    <2>1. /\ StageOK(h)
          /\ job[h].side = "slack" => job[h].item \in DOMAIN messages
      BY <1>1, Holding
    <2>. QED BY <1>1, <1>2, <2>1 DEF StageOK
  <1>4. m \in Nat /\ m \in 0..Len(messages)
    BY <1>3 DEF Sound, Stored
  <1>5. Say("notice", m, m, None)
    BY <1>2 DEF Notify
  <1>6. WorldGrows /\ Stored' /\ Placed'
    <2>1. PICK by \in {"app", "notice"} : by = "notice"
      OBVIOUS
    <2>2. PICK part \in Shows \cup {None} : part = None
      OBVIOUS
    <2>3. PICK n : n = Len(messages) + 1
      OBVIOUS
    <2>4. Say(by, m, m, part)
      BY <1>5, <2>1, <2>2
    <2>. QED BY <1>1, <1>3, <1>4, <2>3, <2>4, SayDone
  <1>7. inbox' \subseteq inbox
    BY <1>1
  <1>. QED BY <1>1, <1>6, <1>7, SameTable, SoundDone

LEMMA RewriteSound ==
  ASSUME Sound, NEW h \in Handlers, Rewrite(h) \/ Uncomment(h)
  PROVE  Sound' /\ WorldGrows /\ RowsGrow
  <1>1. /\ pc[h] \in {"edit", "uncomment"} /\ UNCHANGED <<messages, open, rows, inbox, acts>>
        /\ pc[h] = "uncomment" \/ Done(h)
    BY DEF Rewrite, Uncomment, bounds
  <1>2. PICK c, t : c = rows[row[h]].comment /\ t = job[h].text
    OBVIOUS
  <1>3. /\ LocalsOK /\ StageOK(h) /\ FoundSlack(h) /\ sent[h] = <<>> /\ job[h].side = "slack"
        /\ pc[h] = "edit" => job[h].plain /\ t \in Texts
        /\ pc[h] = "uncomment" => job[h].kind = "delete"
    <2>1. StageOK(h) /\ LocalsOK /\ EventOK(job[h])
      BY <1>1, Holding
    <2>. QED BY <1>1, <1>2, <2>1 DEF StageOK, EventOK
  <1>4. c \in DOMAIN comments
    BY <1>2, <1>3 DEF FoundSlack, Sound, Mapped, RowOK
  <1>5. \/ UNCHANGED comments /\ Done(h)
        \/ /\ comments' = [comments EXCEPT ![c].text = t, ![c].tagged = TRUE] /\ Done(h) /\ pc[h] = "edit"
        \/ comments' = [comments EXCEPT ![c].live = FALSE] /\ Goto(h, "dropRow") /\ UNCHANGED sent
           /\ pc[h] = "uncomment"
    BY <1>2 DEF Rewrite, Uncomment
  <1>6. WorldGrows /\ Stored' /\ Placed'
    <2>1. acts' \in Nat
      BY <1>1 DEF Sound, Stored
    <2>2. CASE UNCHANGED comments
      BY <1>1, <2>2, SameWorld DEF Sound, Stored
    <2>3. CASE comments' = [comments EXCEPT ![c].text = t, ![c].tagged = TRUE] /\ pc[h] = "edit"
      BY <1>1, <1>3, <1>4, <2>1, <2>3, CommentDone
    <2>4. CASE comments' = [comments EXCEPT ![c].live = FALSE]
      <3>1. comments[c] \in Comments
        BY <1>4 DEF Sound, Stored
      <3>2. PICK x \in Texts : x = comments[c].text
        BY <3>1 DEF Comments
      <3>3. TRUE \in BOOLEAN
        OBVIOUS
      <3>. QED BY <1>1, <1>4, <2>1, <2>4, <3>2, <3>3, CommentDone
    <2>. QED BY <1>5, <2>2, <2>3, <2>4
  <1>7. inbox' \subseteq inbox /\ RowsGrow
        /\ \A i \in DOMAIN rows' : (i \in DOMAIN rows /\ rows'[i].extra = rows[i].extra) \/ RowOK(i)'
    BY <1>1, SameTable
  <1>8. CASE Done(h)
    BY <1>6, <1>7, <1>8, SoundDone
  <1>9. CASE Goto(h, "dropRow") /\ UNCHANGED sent /\ pc[h] = "uncomment"
    <2>1. sent' = sent /\ sent[h] = <<>>
      BY <1>3, <1>9
    <2>2. /\ pc'[h] = "dropRow" /\ sent'[h] = <<>> /\ job'[h] = job[h] /\ row'[h] = row[h] /\ pr'[h] = pr[h]
          /\ shown'[h] = shown[h] /\ FoundSlack(h)'
          => StageOK(h)'
      BY <1>3, <1>9 DEF StageOK
    <2>3. "dropRow" \in Stages /\ "dropRow" # "idle" /\ pc[h] # "idle" /\ UNCHANGED <<rows, inbox>>
      BY <1>1, <1>9 DEF Stages
    <2>. QED BY <1>3, <1>6, <1>7, <1>9, <2>1, <2>2, <2>3, SoundGoto
  <1>. QED BY <1>5, <1>8, <1>9

LEMMA DieSound ==
  ASSUME Sound, NEW h \in Handlers, Die(h)
  PROVE  Sound' /\ WorldGrows /\ RowsGrow
  <1>1. Done(h) /\ UNCHANGED <<comments, messages, open, rows, inbox, acts>>
    BY DEF Die, world
  <1>2. WorldGrows /\ Placed' /\ Stored' /\ inbox' \subseteq inbox
    BY <1>1, SameWorld DEF Sound, Stored
  <1>. QED BY <1>1, <1>2, SameTable, SoundDone

----
\* What a person did to an item that is there.
LEMMA SoundActs ==
  ASSUME Sound, WorldGrows, Stored', Placed', NEW kind \in Events, NEW side \in {"github", "slack"},
         NEW item, NEW text, NEW plain \in BOOLEAN, Act(kind, side, item, text, plain),
         side = "github" => item \in DOMAIN comments',
         side = "slack" => item \in DOMAIN messages' /\ (plain => messages'[item].by = "person"),
         kind = "new" => plain /\ (side = "github" => comments'[item].of = 0),
         plain => text \in Texts
  PROVE  Sound'
  <1>1. UNCHANGED <<rows, handlers>> /\ inbox' = inbox \cup {Event(acts + 1, side, kind, item, text, plain)}
    BY DEF Act
  <1>2. PICK e : e = Event(acts + 1, side, kind, item, text, plain)
    OBVIOUS
  <1>3. e.side = side /\ e.kind = kind /\ e.item = item /\ e.text = text /\ e.plain = plain
    BY <1>2 DEF Event
  <1>4. EventOK(e)'
    <2>1. kind = "new" => Own(Item(e))'
      BY <1>3 DEF Own, Item
    <2>. QED BY <1>3, <2>1 DEF EventOK
  <1>. QED BY <1>1, <1>2, <1>4, SoundAct

LEMMA ActsCounted ==
  ASSUME Sound, NEW kind, NEW side, NEW item, NEW text, NEW plain, Act(kind, side, item, text, plain)
  PROVE  acts' \in Nat /\ UNCHANGED <<open, rows>>
BY DEF Sound, Stored, Act

LEMMA WriteCommentSound ==
  ASSUME Sound, NEW p \in Discussed, NEW t \in Texts, WriteComment(p, t)
  PROVE  Sound' /\ WorldGrows /\ RowsGrow
  <1>1. PICK n : n = Len(comments) + 1
    OBVIOUS
  <1>2. /\ comments' = Append(comments, [pr |-> p, of |-> 0, text |-> t, tagged |-> FALSE, live |-> TRUE])
        /\ Act("new", "github", n, t, TRUE) /\ UNCHANGED messages
    BY <1>1 DEF WriteComment
  <1>3. p \in PRs /\ acts' \in Nat /\ UNCHANGED <<open, rows>>
    BY <1>2, ActsCounted, MessageSyncAssumption DEF PRs
  <1>4. /\ WorldGrows /\ Stored' /\ Placed' /\ DOMAIN comments' = DOMAIN comments \cup {n}
        /\ comments'[n].of = 0
    <2>1. PICK z \in Nat, g \in BOOLEAN : z = 0 /\ g = FALSE
      OBVIOUS
    <2>2. comments' = Append(comments, [pr |-> p, of |-> z, text |-> t, tagged |-> g, live |-> TRUE])
      BY <1>2, <2>1
    <2>3. /\ WorldGrows /\ Stored' /\ Placed' /\ DOMAIN comments' = DOMAIN comments \cup {n}
          /\ comments'[n] = [pr |-> p, of |-> z, text |-> t, tagged |-> g, live |-> TRUE]
      <3>1. UNCHANGED <<messages, open, rows>>
        BY <1>2, <1>3
      <3>. QED BY <1>1, <1>3, <2>2, <3>1, NewCommentDone
    <2>. QED BY <2>1, <2>3
  <1>5. "new" \in Events /\ TRUE \in BOOLEAN
    BY DEF Events
  <1>20. RowsGrow
    BY <1>3, SameTable
  <1>. QED BY <1>20, <1>2, <1>4, <1>5, SoundActs

LEMMA AlterCommentSound ==
  ASSUME Sound, NEW c \in DOMAIN comments, NEW t \in Texts, NEW kept \in BOOLEAN,
         EditComment(c, t) \/ MeddleComment(c, t, kept) \/ DeleteComment(c) \/ MeddleDelete(c)
  PROVE  Sound' /\ WorldGrows /\ RowsGrow
  <1>1. \/ comments' = [comments EXCEPT ![c].text = t]
        \/ comments' = [comments EXCEPT ![c].text = t, ![c].tagged = kept]
        \/ comments' = [comments EXCEPT ![c].live = FALSE]
    BY DEF EditComment, MeddleComment, DeleteComment, MeddleDelete
  <1>2. comments[c].text \in Texts
    <2>1. comments[c] \in Comments
      BY DEF Sound, Stored
    <2>. QED BY <2>1 DEF Comments
  <1>3. PICK kind \in {"edit", "delete"}, text \in Texts, plain \in BOOLEAN :
          Act(kind, "github", c, text, plain)
    <2>1. \/ Act("edit", "github", c, t, TRUE) \/ Act("edit", "github", c, t, ~kept)
          \/ Act("delete", "github", c, comments[c].text, TRUE)
          \/ Act("delete", "github", c, comments[c].text, FALSE)
      BY DEF EditComment, MeddleComment, DeleteComment, MeddleDelete
    <2>2. PICK x \in Texts, off \in BOOLEAN : x = comments[c].text /\ off = ~kept
      BY <1>2
    <2>. QED BY <2>1, <2>2
  <1>4. UNCHANGED messages /\ acts' \in Nat /\ UNCHANGED <<open, rows>>
    BY <1>3, ActsCounted DEF EditComment, MeddleComment, DeleteComment, MeddleDelete
  <1>5. WorldGrows /\ Stored' /\ Placed' /\ DOMAIN comments' = DOMAIN comments
    BY <1>1, <1>4, CommentDone
  <1>6. kind \in Events /\ kind # "new"
    BY DEF Events
  <1>20. RowsGrow
    BY <1>4, SameTable
  <1>. QED BY <1>20, <1>3, <1>5, <1>6, SoundActs

LEMMA WriteMessageSound ==
  ASSUME Sound, NEW r \in 0..Len(messages), NEW t \in Texts, WriteMessage(r, t)
  PROVE  Sound' /\ WorldGrows /\ RowsGrow
  <1>1. PICK n : n = Len(messages) + 1
    OBVIOUS
  <1>2. /\ messages' = Append(messages, Message("person", 0, r, t, None))
        /\ Act("new", "slack", n, t, TRUE) /\ UNCHANGED comments
        /\ r # 0 => messages[r].thread = 0
    BY <1>1 DEF WriteMessage
  <1>3. acts' \in Nat /\ UNCHANGED <<open, rows>> /\ messages \in Seq(Messages)
    BY <1>2, ActsCounted DEF Sound, Stored
  <1>4. /\ messages' \in Seq(Messages) /\ n \in Nat /\ n \notin DOMAIN messages
        /\ DOMAIN messages' = DOMAIN messages \cup {n}
        /\ \A m \in DOMAIN messages : messages'[m] = messages[m] /\ m < n
        /\ messages'[n] = Message("person", 0, r, t, None)
    <2>1. 0 \in Nat /\ r \in Nat /\ t \in Texts \cup {None} /\ None \in Shows \cup {None}
          /\ "person" \in {"person", "app", "notice", "parent"}
      BY <1>3
    <2>. QED BY <1>1, <1>2, <1>3, <2>1, MessageNew
  <1>5. messages'[n].by = "person" /\ messages'[n].thread = r /\ messages'[n].text = t
    BY <1>4 DEF Message
  <1>6. Placed'
    <2>1. Placed
      BY DEF Sound
    <2>. QED BY <1>1, <1>2, <1>3, <1>4, <1>5, <2>1, PlacedNew
  <1>7. WorldGrows /\ Stored'
    BY <1>2, <1>3, <1>4 DEF WorldGrows, Sound, Stored
  <1>8. "new" \in Events /\ TRUE \in BOOLEAN
    BY DEF Events
  <1>20. RowsGrow
    BY <1>3, SameTable
  <1>. QED BY <1>20, <1>2, <1>4, <1>5, <1>6, <1>7, <1>8, SoundActs

LEMMA AlterMessageSound ==
  ASSUME Sound, NEW m \in DOMAIN messages,
         (\E t \in Texts : EditMessage(m, t)) \/ DeleteMessage(m) \/ MeddleMessage(m)
  PROVE  Sound' /\ WorldGrows /\ RowsGrow
  <1>1. PICK t : \/ messages' = [messages EXCEPT ![m].text = t] /\ t \in Texts
                 \/ messages' = [messages EXCEPT ![m].live = FALSE]
    BY DEF EditMessage, DeleteMessage, MeddleMessage
  <1>2. messages[m].by = "person" => messages[m].text \in Texts
    BY DEF Sound, Placed
  <1>3. PICK kind \in {"edit", "delete"}, text \in Texts \cup {None}, plain \in BOOLEAN :
          /\ Act(kind, "slack", m, text, plain)
          /\ plain => (text \in Texts /\ messages[m].by = "person")
    <2>1. \/ \E u \in Texts : Act("edit", "slack", m, u, TRUE) /\ messages[m].by = "person"
          \/ Act("delete", "slack", m, messages[m].text, TRUE) /\ messages[m].by = "person"
          \/ Act("delete", "slack", m, None, FALSE)
      BY DEF EditMessage, DeleteMessage, MeddleMessage
    <2>. QED BY <1>2, <2>1
  <1>4. UNCHANGED comments /\ acts' \in Nat /\ UNCHANGED <<open, rows>>
    BY <1>3, ActsCounted DEF EditMessage, DeleteMessage, MeddleMessage
  <1>5. WorldGrows /\ Stored' /\ Placed' /\ DOMAIN messages' = DOMAIN messages
    BY <1>1, <1>4, AlterDone
  <1>6. plain => messages'[m].by = "person"
    BY <1>3, <1>5 DEF WorldGrows
  <1>7. kind \in Events /\ kind # "new"
    BY DEF Events
  <1>20. RowsGrow
    BY <1>4, SameTable
  <1>. QED BY <1>20, <1>3, <1>5, <1>6, <1>7, SoundActs

LEMMA SoundStill ==
  ASSUME Sound, UNCHANGED <<comments, messages, rows, inbox, handlers, acts>>, open' \subseteq PRs
  PROVE  Sound'
  <1>1. WorldGrows /\ Placed'
    BY SameWorld
  <1>2. Stored'
    BY DEF Sound, Stored
  <1>. QED BY <1>1, <1>2, SoundAct

\* The acts there are; what one is about is there.
LEMMA Acts ==
  ASSUME Sound, People
  PROVE  \/ \E p \in Discussed, t \in Texts : WriteComment(p, t)
         \/ \E c \in DOMAIN comments, t \in Texts : EditComment(c, t) \/ DeleteComment(c)
         \/ \E c \in DOMAIN comments, t \in Texts, kept \in BOOLEAN :
              MeddleComment(c, t, kept) \/ MeddleDelete(c)
         \/ \E r \in 0..Len(messages), t \in Texts : WriteMessage(r, t)
         \/ \E m \in DOMAIN messages : DeleteMessage(m) \/ \E t \in Texts : EditMessage(m, t)
         \/ \E m \in DOMAIN messages : MeddleMessage(m)
         \/ \E p \in PRs : Toggle(p)
  <1>1. CASE \E c \in DOMAIN comments : DeleteComment(c) \/ MeddleDelete(c)
    <2>1. PICK c \in DOMAIN comments : DeleteComment(c) \/ MeddleDelete(c)
      BY <1>1
    <2>2. comments[c] \in Comments
      BY DEF Sound, Stored
    <2>3. comments[c].text \in Texts /\ TRUE \in BOOLEAN
      BY <2>2 DEF Comments
    <2>. QED BY <2>1, <2>3
  <1>2. CASE \E r \in 0..Len(messages), t \in Openers : WriteMessage(r, t)
    BY <1>2, MessageSyncAssumption
  <1>3. CASE \E c \in DOMAIN comments, t \in Texts :
               EditComment(c, t) \/ \E kept \in BOOLEAN : MeddleComment(c, t, kept)
    BY <1>3
  <1>. QED BY <1>1, <1>2, <1>3 DEF People

LEMMA SoundPeople ==
  ASSUME Sound, People
  PROVE  Sound'
  <1>1. TRUE \in BOOLEAN
    OBVIOUS
  <1>2. ASSUME NEW p \in PRs, Toggle(p) PROVE Sound'
    BY <1>2, SoundStill DEF Toggle, Sound, Stored
  <1>. QED BY <1>1, <1>2, Acts, WriteCommentSound, AlterCommentSound, WriteMessageSound, AlterMessageSound

LEMMA SoundNext ==
  ASSUME Sound, [Next]_vars
  PROVE  Sound'
  <1>1. CASE People
    BY <1>1, SoundPeople
  <1>2. ASSUME NEW h \in Handlers, Handle(h) PROVE Sound'
    <2>1. CASE Receive(h) \/ Die(h)
      BY <2>1, ReceiveSound, DieSound
    <2>2. CASE Post(h) \/ FallBack(h) \/ MapComment(h)
      BY <2>2, PostSound, FallBackSound, MapCommentSound
    <2>3. CASE Resync(h) \/ SetExtra(h)
      BY <2>3, ResyncSound, SetExtraSound
    <2>4. CASE Unpost(h) \/ DropRow(h)
      BY <2>4, UnpostSound, DropRowSound
    <2>5. CASE Comment(h) \/ Record(h) \/ Notify(h)
      BY <2>5, CommentSound, RecordSound, NotifySound
    <2>6. CASE Rewrite(h) \/ Uncomment(h)
      BY <2>6, RewriteSound
    <2>. QED BY <1>2, <2>1, <2>2, <2>3, <2>4, <2>5, <2>6 DEF Handle
  <1>3. CASE UNCHANGED vars
    BY <1>3, SoundStill DEF vars, world, bounds, Sound, Stored
  <1>. QED BY <1>1, <1>2, <1>3 DEF Next

LEMMA SoundInit == Init => Sound
  <1>. SUFFICES ASSUME Init PROVE Sound
    OBVIOUS
  <1>1. /\ comments = <<>> /\ rows = <<>> /\ inbox = {} /\ acts = 0
        /\ messages = [k \in 1..Stacked |-> Message("parent", k, 0, None, None)]
        /\ pc = [h \in Handlers |-> "idle"]
    BY DEF Init
  <1>2. Stacked \in Nat
    BY MessageSyncAssumption
  <1>3. messages \in Seq(Messages) /\ Len(messages) = Stacked
    <2>1. \A k \in 1..Stacked : Message("parent", k, 0, None, None) \in Messages
      BY <1>2 DEF Message, Messages
    <2>2. PICK M : M = Messages
      OBVIOUS
    <2>3. messages \in [1..Stacked -> M]
      BY <1>1, <2>1, <2>2
    <2>4. messages \in Seq(M) /\ Len(messages) = Stacked
      BY <1>2, <2>3
    <2>. QED BY <2>2, <2>4
  <1>4. Stored
    <2>1. open \subseteq PRs
      BY MessageSyncAssumption DEF Init, PRs
    <2>2. comments \in Seq(Comments) /\ rows \in Seq(Rows)
      BY <1>1
    <2>. QED BY <1>1, <1>3, <2>1, <2>2 DEF Stored
  <1>5. Placed
    BY <1>1, <1>2, <1>3 DEF Placed, Message
  <1>6. Posted /\ Mapped
    BY <1>1 DEF Posted, Mapped
  <1>7. LocalsOK
    BY DEF Init, LocalsOK, Stages
  <1>8. Held
    <2>1. 0 \in PRs
      BY <1>2 DEF PRs
    <2>. QED BY <2>1 DEF Init, Held, HandlerOK, Resting
  <1>. QED BY <1>4, <1>5, <1>6, <1>7, <1>8 DEF Sound

LEMMA SoundTyped ==
  ASSUME Sound, IInv
  PROVE  TypeOK
  <1>1. comments \in Seq(Comments) /\ messages \in Seq(Messages) /\ rows \in Seq(Rows) /\ open \subseteq PRs
    BY DEF Sound, Stored
  <1>2. ASSUME NEW m \in DOMAIN messages
        PROVE  /\ messages[m].by \in {"person", "app", "notice", "parent"}
               /\ messages[m].thread \in 0..(m - 1)
               /\ messages[m].live \in BOOLEAN
               /\ messages[m].by = "person" => messages[m].text \in Texts
               /\ messages[m].by = "app" => messages[m].of \in DOMAIN comments
               /\ messages[m].by = "notice" => messages[m].of \in 1..(m - 1)
    <2>1. messages[m] \in Messages
      BY <1>1
    <2>2. messages[m].by = "app" => messages[m].of \in DOMAIN comments
      BY DEF IInv, Copies, OwnComment
    <2>. QED BY <2>1, <2>2 DEF Messages, Sound, Placed
  <1>3. \A c \in DOMAIN comments : comments[c].of \in 0..Len(messages)
    BY <1>1 DEF IInv, Copies, OwnMessage
  <1>4. ASSUME NEW i \in DOMAIN rows
        PROVE  /\ rows[i].pr \in PRs /\ rows[i].ts \in DOMAIN messages
               /\ rows[i].extra \in Seq(DOMAIN messages) /\ rows[i].comment \in DOMAIN comments
               /\ rows[i].origin \in {"github", "slack"} /\ rows[i].live \in BOOLEAN
    <2>1. rows[i] \in Rows /\ RowOK(i)
      BY <1>1 DEF Sound, Mapped
    <2>2. PICK A, x : A = AppsOf(rows[i].comment) /\ x = rows[i].extra
      OBVIOUS
    <2>3. A \subseteq DOMAIN messages
      BY <2>2 DEF AppsOf
    <2>4. x \in Seq(A) \/ x = <<>>
      BY <2>1, <2>2 DEF RowOK
    <2>5. x \in Seq(DOMAIN messages)
      <3>1. CASE x = <<>>
        BY <3>1
      <3>2. CASE x \in Seq(A)
        BY <2>3, <3>2, WiderSeq
      <3>. QED BY <2>4, <3>1, <3>2
    <2>6. rows[i].pr \in PRs /\ rows[i].origin \in {"github", "slack"} /\ rows[i].live \in BOOLEAN
      <3>. PICK S : S = Seq(Nat)
        OBVIOUS
      <3>. QED BY <2>1 DEF Rows
    <2>7. rows[i].ts \in DOMAIN messages /\ rows[i].comment \in DOMAIN comments
      BY <2>1, <2>2, <2>3 DEF RowOK
    <2>. QED BY <2>2, <2>5, <2>6, <2>7
  <1>5. ASSUME NEW h \in Handlers
        PROVE  /\ pc[h] \in Stages
               /\ pc[h] # "idle" => job[h].kind \in Events
               /\ row[h] \in DOMAIN rows \cup {0} /\ pr[h] \in PRs
               /\ shown[h] \in Seq(DOMAIN messages)
               /\ sent[h] \in Seq(DOMAIN messages \cup DOMAIN comments) /\ asUser[h] \in BOOLEAN
    <2>1. LocalsOK /\ HandlerOK(h)
      BY DEF Sound, Held
    <2>2. pc[h] \in Stages /\ asUser[h] \in BOOLEAN /\ pr[h] \in PRs
      BY <2>1 DEF LocalsOK, HandlerOK
    <2>3. PICK A, q, s : A = AppsOf(job[h].item) /\ q = shown[h] /\ s = sent[h]
      OBVIOUS
    <2>4. A \subseteq DOMAIN messages
      BY <2>3 DEF AppsOf
    <2>5. CASE pc[h] = "idle"
      <3>1. row[h] = 0 /\ shown[h] = <<>> /\ sent[h] = <<>>
        BY <2>1, <2>5 DEF HandlerOK, Resting
      <3>2. <<>> \in Seq(DOMAIN messages) /\ <<>> \in Seq(DOMAIN messages \cup DOMAIN comments)
        OBVIOUS
      <3>. QED BY <2>2, <2>5, <3>1, <3>2
    <2>6. CASE pc[h] # "idle"
      <3>1. StageOK(h) /\ EventOK(job[h])
        BY <2>6, Holding
      <3>2. row[h] \in DOMAIN rows \cup {0}
        BY <2>2, <2>6, <3>1 DEF StageOK, FoundGitHub, FoundSlack, Stages
      <3>3. q \in Seq(A) \/ q \in Seq(DOMAIN messages) \/ q = <<>>
        BY <2>2, <2>3, <2>6, <3>1 DEF StageOK, FoundGitHub, FoundSlack, Stages
      <3>4. s \in Seq(A) \/ s = <<>> \/ (s = <<s[1]>> /\ s[1] \in DOMAIN comments)
        BY <2>2, <2>3, <2>6, <3>1 DEF StageOK, Stages
      <3>5. PICK D : D = DOMAIN messages \cup DOMAIN comments
        OBVIOUS
      <3>6. s \in Seq(D)
        <4>1. CASE s \in Seq(A)
          <5>1. A \subseteq D
            BY <2>4, <3>5
          <5>. QED BY <4>1, <5>1, WiderSeq
        <4>2. CASE s = <<s[1]>> /\ s[1] \in DOMAIN comments
          <5>1. PICK x \in D : x = s[1]
            BY <4>2, <3>5
          <5>2. <<x>> \in Seq(D)
            OBVIOUS
          <5>. QED BY <4>2, <5>1, <5>2
        <4>3. CASE s = <<>>
          BY <4>3
        <4>. QED BY <3>4, <4>1, <4>2, <4>3
      <3>7. q \in Seq(DOMAIN messages)
        <4>1. CASE q \in Seq(A)
          BY <2>4, <4>1, WiderSeq
        <4>2. CASE q = <<>>
          BY <4>2
        <4>. QED BY <3>3, <4>1, <4>2
      <3>. QED BY <2>2, <2>3, <3>1, <3>2, <3>5, <3>6, <3>7 DEF EventOK
    <2>. QED BY <2>5, <2>6
  <1>. QED BY <1>1, <1>2, <1>3, <1>4, <1>5 DEF TypeOK, Stages

-----------------------------------------------------------------------------
(* What a step writes of one comment or one message *)

\* What a step writes when it is about comment c; about message m.
WritesComment(c) ==
  /\ \A k \in DOMAIN comments' :
       (k \in DOMAIN comments /\ comments'[k] = comments[k]) \/ (k = c /\ comments'[k].of = 0)
  /\ \A m \in DOMAIN messages' :
       \/ m \in DOMAIN messages /\ messages'[m] = messages[m]
       \/ messages'[m].by = "app" /\ messages'[m].of = c
  /\ \A i \in DOMAIN rows' :
       \/ i \in DOMAIN rows /\ rows'[i] = rows[i]
       \/ rows'[i].comment = c /\ messages'[rows'[i].ts].by = "app"

WritesMessage(m) ==
  /\ \A k \in DOMAIN messages' :
       \/ k \in DOMAIN messages /\ messages'[k] = messages[k]
       \/ k = m /\ messages'[k].by = "person"
       \/ messages'[k].by = "notice" /\ messages'[k].of = m
  /\ \A c \in DOMAIN comments' :
       (c \in DOMAIN comments /\ comments'[c] = comments[c]) \/ comments'[c].of = m
  /\ \A i \in DOMAIN rows' :
       \/ i \in DOMAIN rows /\ rows'[i] = rows[i]
       \/ rows'[i].ts = m /\ comments'[rows'[i].comment].of = m

StillMessage(m) ==
  /\ messages'[m] = messages[m]
  /\ Made(m)' = Made(m) /\ Notes(m)' = Notes(m) /\ RowsAt(m)' = RowsAt(m)
  /\ \A c \in Made(m) : comments'[c] = comments[c]

StillComment(c) ==
  /\ comments'[c] = comments[c] /\ AppsOf(c)' = AppsOf(c) /\ RowsFor(c)' = RowsFor(c)
  /\ \A m \in AppsOf(c) : messages'[m] = messages[m]
  /\ \A i \in RowsFor(c) : rows'[i] = rows[i]

LEMMA AsideFromComment ==
  ASSUME Sound, WorldGrows, RowsGrow, NEW c, WritesComment(c)
  PROVE  /\ \A m \in DOMAIN messages : messages[m].by = "person" => StillMessage(m)
         /\ \A k \in DOMAIN comments : comments[k].of = 0 /\ k # c => StillComment(k)
  <1>1. \A m \in DOMAIN messages : m \in Nat \ {0}
    BY DEF Sound, Stored
  <1>2. ASSUME NEW m \in DOMAIN messages, messages[m].by = "person"
        PROVE  StillMessage(m)
    <2>1. messages'[m] = messages[m]
      BY <1>2 DEF WritesComment, WorldGrows
    <2>2. Made(m)' = Made(m)
      BY <1>1 DEF Made, WritesComment, WorldGrows
    <2>3. Notes(m)' = Notes(m)
      BY DEF Notes, WritesComment, WorldGrows
    <2>4. \A k \in DOMAIN rows' : rows'[k].ts = m => k \in DOMAIN rows /\ rows'[k] = rows[k]
      BY <1>2, <2>1 DEF WritesComment
    <2>5. RowsAt(m)' = RowsAt(m)
      BY <2>4 DEF RowsAt, RowsGrow
    <2>6. \A k \in Made(m) : comments'[k] = comments[k]
      BY <1>1 DEF Made, WritesComment, WorldGrows
    <2>. QED BY <2>1, <2>2, <2>3, <2>5, <2>6 DEF StillMessage
  <1>3. ASSUME NEW k \in DOMAIN comments, comments[k].of = 0, k # c
        PROVE  StillComment(k)
    <2>1. comments'[k] = comments[k]
      BY <1>3 DEF WritesComment, WorldGrows
    <2>2. \A m \in DOMAIN messages' : messages'[m].of = k /\ messages'[m].by = "app"
            => m \in DOMAIN messages /\ messages'[m] = messages[m]
      BY <1>3 DEF WritesComment
    <2>3. AppsOf(k)' = AppsOf(k) /\ \A m \in AppsOf(k) : messages'[m] = messages[m]
      BY <2>2 DEF AppsOf, WorldGrows
    <2>4. \A i \in DOMAIN rows' : rows'[i].comment = k => i \in DOMAIN rows /\ rows'[i] = rows[i]
      BY <1>3 DEF WritesComment
    <2>5. RowsFor(k)' = RowsFor(k) /\ \A i \in RowsFor(k) : rows'[i] = rows[i]
      BY <2>4 DEF RowsFor, RowsGrow
    <2>. QED BY <2>1, <2>3, <2>5 DEF StillComment
  <1>. QED BY <1>2, <1>3

LEMMA AsideFromMessage ==
  ASSUME Sound, WorldGrows, RowsGrow, NEW m, m # 0, WritesMessage(m)
  PROVE  /\ \A k \in DOMAIN messages : messages[k].by = "person" /\ k # m => StillMessage(k)
         /\ \A c \in DOMAIN comments : comments[c].of = 0 => StillComment(c)
  <1>2. ASSUME NEW k \in DOMAIN messages, messages[k].by = "person", k # m
        PROVE  StillMessage(k)
    <2>1. messages'[k] = messages[k]
      BY <1>2 DEF WritesMessage, WorldGrows
    <2>2. \A c \in DOMAIN comments' : comments'[c].of = k => c \in DOMAIN comments /\ comments'[c] = comments[c]
      BY <1>2 DEF WritesMessage
    <2>3. Made(k)' = Made(k) /\ \A c \in Made(k) : comments'[c] = comments[c]
      BY <2>2 DEF Made, WorldGrows
    <2>4. Notes(k)' = Notes(k)
      <3>1. \A n \in DOMAIN messages' : messages'[n].by = "notice" /\ messages'[n].of = k
              => n \in DOMAIN messages /\ messages'[n] = messages[n]
        BY <1>2 DEF WritesMessage
      <3>. QED BY <3>1 DEF Notes, WorldGrows
    <2>5. RowsAt(k)' = RowsAt(k)
      <3>1. \A i \in DOMAIN rows' : rows'[i].ts = k => i \in DOMAIN rows /\ rows'[i] = rows[i]
        BY <1>2 DEF WritesMessage
      <3>. QED BY <3>1 DEF RowsAt, RowsGrow
    <2>. QED BY <2>1, <2>3, <2>4, <2>5 DEF StillMessage
  <1>3. ASSUME NEW c \in DOMAIN comments, comments[c].of = 0
        PROVE  StillComment(c)
    <2>1. comments'[c] = comments[c] /\ comments'[c].of = 0
      BY <1>3 DEF WritesMessage, WorldGrows
    <2>2. \A n \in DOMAIN messages' : messages'[n].by = "app"
            => n \in DOMAIN messages /\ messages'[n] = messages[n]
      BY DEF WritesMessage
    <2>3. AppsOf(c)' = AppsOf(c) /\ \A n \in AppsOf(c) : messages'[n] = messages[n]
      BY <2>2 DEF AppsOf, WorldGrows
    <2>4. \A i \in DOMAIN rows' : rows'[i].comment = c => i \in DOMAIN rows /\ rows'[i] = rows[i]
      BY <2>1 DEF WritesMessage
    <2>5. RowsFor(c)' = RowsFor(c) /\ \A i \in RowsFor(c) : rows'[i] = rows[i]
      BY <2>4 DEF RowsFor, RowsGrow
    <2>. QED BY <2>1, <2>3, <2>5 DEF StillComment
  <1>. QED BY <1>2, <1>3

LEMMA Appended ==
  ASSUME NEW S, NEW s \in Seq(S), NEW x, NEW r, r = Append(s, x), NEW n, n = Len(s) + 1
  PROVE  /\ n \in Nat \ {0} /\ n \notin DOMAIN s /\ DOMAIN r = DOMAIN s \cup {n}
         /\ r[n] = x /\ \A k \in DOMAIN s : r[k] = s[k]
OBVIOUS

LEMMA Elsewhere ==
  ASSUME NEW s, NEW k \in DOMAIN s, NEW x, NEW r, r = [s EXCEPT ![k] = x]
  PROVE  DOMAIN r = DOMAIN s /\ r[k] = x /\ \A j \in DOMAIN s : j # k => r[j] = s[j]
OBVIOUS

-----------------------------------------------------------------------------
(* What each step writes *)

LEMMA Said ==
  ASSUME Sound, NEW by, NEW of, NEW thread, NEW part, Say(by, of, thread, part)
  PROVE  \A k \in DOMAIN messages' :
           \/ k \in DOMAIN messages /\ messages'[k] = messages[k]
           \/ k \notin DOMAIN messages /\ messages'[k].by = by /\ messages'[k].of = of
  <1>1. PICK x, r, n : x = Message(by, of, thread, None, part) /\ r = messages' /\ n = Len(messages) + 1
    OBVIOUS
  <1>2. r = Append(messages, x) /\ messages \in Seq(Messages)
    BY <1>1 DEF Say, Sound, Stored
  <1>3. n \notin DOMAIN messages /\ DOMAIN r = DOMAIN messages \cup {n} /\ r[n] = x
        /\ \A k \in DOMAIN messages : r[k] = messages[k]
    BY ONLY <1>1, <1>2, Appended
  <1>4. x.by = by /\ x.of = of
    BY <1>1 DEF Message
  <1>. QED BY <1>1, <1>3, <1>4

LEMMA Inserted ==
  ASSUME Sound, NEW p, NEW ts, NEW extra, NEW c, NEW origin, Insert(p, ts, extra, c, origin)
  PROVE  \A i \in DOMAIN rows' :
           \/ i \in DOMAIN rows /\ rows'[i] = rows[i]
           \/ i \notin DOMAIN rows /\ rows'[i].ts = ts /\ rows'[i].comment = c
  <1>1. PICK x, r, n : x = [pr |-> p, ts |-> ts, extra |-> extra, comment |-> c,
                            origin |-> origin, live |-> TRUE] /\ r = rows' /\ n = Len(rows) + 1
    OBVIOUS
  <1>2. r = Append(rows, x) /\ rows \in Seq(Rows)
    BY <1>1 DEF Insert, Sound, Stored
  <1>3. n \notin DOMAIN rows /\ DOMAIN r = DOMAIN rows \cup {n} /\ r[n] = x
        /\ \A k \in DOMAIN rows : r[k] = rows[k]
    BY ONLY <1>1, <1>2, Appended
  <1>4. x.ts = ts /\ x.comment = c
    BY <1>1
  <1>. QED BY <1>1, <1>3, <1>4

LEMMA Commented ==
  ASSUME Sound, NEW x, comments' = Append(comments, x)
  PROVE  \A c \in DOMAIN comments' :
           \/ c \in DOMAIN comments /\ comments'[c] = comments[c]
           \/ c = Len(comments) + 1 /\ comments'[c] = x
  <1>1. PICK r, n : r = comments' /\ n = Len(comments) + 1
    OBVIOUS
  <1>2. r = Append(comments, x) /\ comments \in Seq(Comments)
    BY <1>1 DEF Sound, Stored
  <1>3. n \notin DOMAIN comments /\ DOMAIN r = DOMAIN comments \cup {n} /\ r[n] = x
        /\ \A k \in DOMAIN comments : r[k] = comments[k]
    BY ONLY <1>1, <1>2, Appended
  <1>. QED BY <1>1, <1>3

LEMMA WritesOfComment ==
  ASSUME Sound, NEW h \in Handlers, NEW c, c = job[h].item, WorldGrows,
         \/ Post(h) \/ MapComment(h) \/ Resync(h) \/ SetExtra(h) \/ Unpost(h)
         \/ DropRow(h) /\ job[h].side = "github"
  PROVE  WritesComment(c)
  <1>1. pc[h] # "idle" /\ (pc[h] = "dropRow" => job[h].side = "github")
        /\ pc[h] \in {"post", "map", "resync", "setExtra", "unpost", "dropRow"}
    BY DEF Post, MapComment, Resync, SetExtra, Unpost, DropRow
  <1>2. StageOK(h)
    BY <1>1, Holding
  <1>3. pc[h] \in {"resync", "setExtra", "unpost", "dropRow"} =>
          row[h] \in DOMAIN rows /\ rows[row[h]].comment = c /\ rows[row[h]].origin = "github"
    BY <1>1, <1>2 DEF StageOK, FoundGitHub, FoundSlack
  <1>4. CASE Post(h)
    <2>1. PICK r, p : Say("app", c, r, p)
      BY <1>4 DEF Post
    <2>2. UNCHANGED <<comments, rows>>
      BY <1>4 DEF Post
    <2>. QED BY <2>1, <2>2, Said DEF WritesComment
  <1>5. CASE Resync(h)
    <2>1. UNCHANGED <<comments, rows>>
      BY <1>5 DEF Resync
    <2>2. \/ messages' = messages
          \/ \E r, p : Say("app", c, r, p)
          \/ \E k \in 1..Len(shown[h]) : \E p : messages' = [messages EXCEPT ![shown[h][k]].part = p]
          \/ \E k \in 1..Len(shown[h]) : messages' = [messages EXCEPT ![shown[h][k]].live = FALSE]
      <3>1. sent[h] \in Seq(AppsOf(c))
        BY <1>2, <1>5 DEF Resync, StageOK
      <3>2. PICK k : k = Len(sent[h]) + 1
        OBVIOUS
      <3>3. k \in Nat \ {0} /\ Len(shown[h]) \in Nat
        BY <3>1, <3>2, <1>2, <1>5 DEF Resync, StageOK, FoundGitHub
      <3>4. CASE k <= Len(shown[h])
        <4>1. k \in 1..Len(shown[h])
          BY <3>3, <3>4
        <4>2. \/ messages' = messages
              \/ messages' = [messages EXCEPT ![shown[h][k]].part = Parts[job[h].text][k]]
              \/ messages' = [messages EXCEPT ![shown[h][k]].live = FALSE]
          BY <1>5, <3>2, <3>4 DEF Resync
        <4>. QED BY <4>1, <4>2
      <3>5. CASE ~(k <= Len(shown[h]))
        BY <1>5, <3>2, <3>5 DEF Resync
      <3>. QED BY <3>4, <3>5
    <2>3. \A k \in 1..Len(shown[h]) : shown[h][k] \in AppsOf(c)
      BY <1>2, <1>5 DEF Resync, StageOK, FoundGitHub
    <2>4. CASE \E r, p : Say("app", c, r, p)
      BY <2>1, <2>4, Said DEF WritesComment
    <2>5. CASE messages' = messages
      BY <2>1, <2>5 DEF WritesComment
    <2>6. ASSUME NEW m \in AppsOf(c), NEW p,
                 \/ messages' = [messages EXCEPT ![m].part = p]
                 \/ messages' = [messages EXCEPT ![m].live = FALSE]
          PROVE  WritesComment(c)
      <3>1. m \in DOMAIN messages /\ messages[m].by = "app" /\ messages[m].of = c
        BY DEF AppsOf
      <3>2. DOMAIN messages' = DOMAIN messages /\ \A k \in DOMAIN messages : k # m => messages'[k] = messages[k]
        BY <2>6
      <3>3. messages'[m].by = "app" /\ messages'[m].of = c
        BY <3>1 DEF WorldGrows
      <3>. QED BY <2>1, <3>2, <3>3 DEF WritesComment
    <2>. QED BY <2>2, <2>3, <2>4, <2>5, <2>6
  <1>6. CASE Unpost(h)
    <2>1. UNCHANGED <<comments, rows>>
      BY <1>6 DEF Unpost
    <2>2. PICK k, m : k = Len(sent[h]) + 1 /\ m = shown[h][k]
      OBVIOUS
    <2>3. messages' = messages \/ messages' = [messages EXCEPT ![m].live = FALSE]
      BY <1>6, <2>2 DEF Unpost
    <2>4. m \in AppsOf(c)
      <3>1. sent[h] \in Seq(AppsOf(c)) /\ shown[h] \in Seq(AppsOf(c)) /\ Len(sent[h]) < Len(shown[h])
        BY <1>2, <1>6 DEF Unpost, StageOK, FoundGitHub
      <3>2. k \in 1..Len(shown[h])
        BY <2>2, <3>1
      <3>. QED BY <2>2, <3>1, <3>2
    <2>5. CASE messages' = messages
      BY <2>1, <2>5 DEF WritesComment
    <2>6. CASE messages' = [messages EXCEPT ![m].live = FALSE]
      <3>1. m \in DOMAIN messages /\ messages[m].by = "app" /\ messages[m].of = c
        BY <2>4 DEF AppsOf
      <3>2. DOMAIN messages' = DOMAIN messages /\ \A j \in DOMAIN messages : j # m => messages'[j] = messages[j]
        BY <2>6
      <3>3. messages'[m].by = "app" /\ messages'[m].of = c
        BY <3>1 DEF WorldGrows
      <3>. QED BY <2>1, <3>2, <3>3 DEF WritesComment
    <2>. QED BY <2>3, <2>5, <2>6
  <1>7. CASE MapComment(h)
    <2>1. PICK p, ts, x : ts = sent[h][1] /\ Insert(p, ts, x, c, "github")
      BY <1>7 DEF MapComment
    <2>2. UNCHANGED <<comments, messages>>
      BY <1>7 DEF MapComment, world
    <2>3. ts \in AppsOf(c)
      <3>1. /\ sent[h] \in Seq(AppsOf(c)) /\ Len(sent[h]) = Len(Parts[job[h].text]) /\ job[h].plain
        BY <1>2, <1>7 DEF MapComment, StageOK
      <3>2. Len(Parts[job[h].text]) \in Nat \ {0}
        BY <1>1, <3>1, Holding
      <3>. QED BY <2>1, <3>1, <3>2
    <2>4. messages'[ts].by = "app"
      BY <2>2, <2>3 DEF AppsOf
    <2>. QED BY <2>1, <2>2, <2>4, Inserted DEF WritesComment
  <1>8. CASE SetExtra(h) \/ DropRow(h)
    <2>1. UNCHANGED <<comments, messages>>
      BY <1>8 DEF SetExtra, DropRow, world
    <2>2. PICK i : i = row[h]
      OBVIOUS
    <2>3. i \in DOMAIN rows /\ rows[i].comment = c /\ rows[i].origin = "github"
      BY <1>3, <1>8, <2>2 DEF SetExtra, DropRow
    <2>4. rows[i].ts \in AppsOf(c)
      BY <2>3 DEF Sound, Mapped, RowOK
    <2>5. messages'[rows[i].ts].by = "app"
      BY <2>1, <2>4 DEF AppsOf
    <2>6. PICK x : \/ rows' = rows
                   \/ rows' = [rows EXCEPT ![i].extra = x]
                   \/ rows' = [rows EXCEPT ![i].live = FALSE]
      BY <1>8, <2>2 DEF SetExtra, DropRow
    <2>7. /\ DOMAIN rows' = DOMAIN rows /\ \A k \in DOMAIN rows : k # i => rows'[k] = rows[k]
          /\ rows'[i].comment = c /\ rows'[i].ts = rows[i].ts
      <3>1. rows[i] \in Rows
        BY <2>3 DEF Sound, Stored
      <3>2. PICK S : S = Seq(Nat)
        OBVIOUS
      <3>3. rows[i] \in [pr : PRs, ts : Nat, extra : S, comment : Nat,
                         origin : {"github", "slack"}, live : BOOLEAN]
        BY <3>1, <3>2 DEF Rows
      <3>. QED BY <2>3, <2>6, <3>3
    <2>. QED BY <2>1, <2>5, <2>7 DEF WritesComment
  <1>. QED BY <1>4, <1>5, <1>6, <1>7, <1>8

LEMMA WritesOfMessage ==
  ASSUME Sound, NEW h \in Handlers, NEW m, m = job[h].item, WorldGrows,
         \/ Comment(h) \/ Record(h) \/ Notify(h) \/ Rewrite(h) \/ Uncomment(h)
         \/ DropRow(h) /\ job[h].side = "slack"
  PROVE  WritesMessage(m)
  <1>1. pc[h] # "idle" /\ (pc[h] = "dropRow" => job[h].side = "slack")
        /\ pc[h] \in {"comment", "record", "notice", "edit", "uncomment", "dropRow"}
    BY DEF Comment, Record, Notify, Rewrite, Uncomment, DropRow
  <1>2. StageOK(h)
    BY <1>1, Holding
  <1>3. pc[h] \in {"edit", "uncomment", "dropRow"} =>
          /\ row[h] \in DOMAIN rows /\ rows[row[h]].ts = m
          /\ rows[row[h]].comment \in DOMAIN comments /\ comments[rows[row[h]].comment].of = m
    <2>1. pc[h] \in {"edit", "uncomment", "dropRow"} =>
            row[h] \in DOMAIN rows /\ rows[row[h]].ts = m /\ rows[row[h]].origin = "slack"
      BY <1>1, <1>2 DEF StageOK, FoundGitHub, FoundSlack
    <2>. QED BY <2>1 DEF Sound, Mapped, RowOK
  <1>4. CASE Comment(h)
    <2>1. PICK x : comments' = Append(comments, x) /\ x.of = m
      BY <1>4 DEF Comment
    <2>2. UNCHANGED <<messages, rows>>
      BY <1>4 DEF Comment
    <2>. QED BY <2>1, <2>2, Commented DEF WritesMessage
  <1>5. CASE Record(h)
    <2>1. PICK p, x, c : c = sent[h][1] /\ Insert(p, m, x, c, "slack")
      BY <1>5 DEF Record
    <2>2. UNCHANGED <<comments, messages>>
      BY <1>5 DEF Record, world
    <2>3. comments[c].of = m
      BY <1>2, <1>5, <2>1 DEF Record, StageOK
    <2>. QED BY <2>1, <2>2, <2>3, Inserted DEF WritesMessage
  <1>6. CASE Notify(h)
    <2>1. Say("notice", m, m, None) /\ UNCHANGED <<comments, rows>>
      BY <1>6 DEF Notify
    <2>. QED BY <2>1, Said DEF WritesMessage
  <1>7. CASE Rewrite(h) \/ Uncomment(h)
    <2>1. PICK c : c = rows[row[h]].comment
      OBVIOUS
    <2>2. c \in DOMAIN comments /\ comments[c].of = m
      BY <1>3, <1>7, <2>1 DEF Rewrite, Uncomment
    <2>3. UNCHANGED <<messages, rows>>
      BY <1>7 DEF Rewrite, Uncomment
    <2>4. PICK t : \/ comments' = comments
                   \/ comments' = [comments EXCEPT ![c].text = t, ![c].tagged = TRUE]
                   \/ comments' = [comments EXCEPT ![c].live = FALSE]
      BY <1>7, <2>1 DEF Rewrite, Uncomment
    <2>5. DOMAIN comments' = DOMAIN comments /\ \A k \in DOMAIN comments : k # c => comments'[k] = comments[k]
      BY <2>2, <2>4
    <2>6. comments'[c].of = m
      BY <2>2 DEF WorldGrows
    <2>. QED BY <2>3, <2>5, <2>6 DEF WritesMessage
  <1>8. CASE DropRow(h)
    <2>1. UNCHANGED <<comments, messages>>
      BY <1>8 DEF DropRow, world
    <2>2. PICK i : i = row[h]
      OBVIOUS
    <2>3. i \in DOMAIN rows /\ rows[i].ts = m /\ comments[rows[i].comment].of = m
      BY <1>3, <1>8, <2>2 DEF DropRow
    <2>4. rows' = [rows EXCEPT ![i].live = FALSE]
      BY <1>8, <2>2 DEF DropRow
    <2>7. /\ DOMAIN rows' = DOMAIN rows /\ \A k \in DOMAIN rows : k # i => rows'[k] = rows[k]
          /\ rows'[i].comment = rows[i].comment /\ rows'[i].ts = rows[i].ts
      <3>1. rows[i] \in Rows
        BY <2>3 DEF Sound, Stored
      <3>2. PICK S : S = Seq(Nat)
        OBVIOUS
      <3>3. rows[i] \in [pr : PRs, ts : Nat, extra : S, comment : Nat,
                         origin : {"github", "slack"}, live : BOOLEAN]
        BY <3>1, <3>2 DEF Rows
      <3>. QED BY <2>3, <2>4, <3>3
    <2>. QED BY <2>1, <2>3, <2>7 DEF WritesMessage
  <1>. QED BY <1>4, <1>5, <1>6, <1>7, <1>8

-----------------------------------------------------------------------------
(* An item that a handler is not at *)

\* The events of an item and its handlers are as they were.
StillItem(x) ==
  /\ \A e : Item(e) = x => (e \in inbox' <=> e \in inbox)
  /\ \A h \in Handlers : (On(h, x)' <=> On(h, x)) /\ (On(h, x) => SameLocals(h))

\* A step about item y leaves what is about the others.
Aside(y) ==
  /\ \A m \in DOMAIN messages : messages[m].by = "person" /\ <<"slack", m>> # y =>
       StillItem(<<"slack", m>>) /\ StillMessage(m)
  /\ \A c \in DOMAIN comments : comments[c].of = 0 /\ <<"github", c>> # y =>
       StillItem(<<"github", c>>) /\ StillComment(c)
  /\ \A m \in DOMAIN messages' \ DOMAIN messages : messages'[m].by = "person" => y = <<"slack", m>>
  /\ \A c \in DOMAIN comments' \ DOMAIN comments : comments'[c].of = 0 => y = <<"github", c>>

LEMMA AsideOf ==
  ASSUME Sound, WorldGrows, RowsGrow, NEW y, NEW c,
         \/ y = <<"github", c>> /\ WritesComment(c)
         \/ y = <<"slack", c>> /\ c # 0 /\ WritesMessage(c),
         \A x : Own(x) /\ x # y => StillItem(x)
  PROVE  Aside(y)
  <1>1. \A m \in DOMAIN messages : messages[m].by = "person" => Own(<<"slack", m>>)
    BY DEF Own
  <1>2. \A k \in DOMAIN comments : comments[k].of = 0 => Own(<<"github", k>>)
    BY DEF Own
  <1>3. CASE y = <<"github", c>> /\ WritesComment(c)
    <2>1. /\ \A m \in DOMAIN messages : messages[m].by = "person" => StillMessage(m)
          /\ \A k \in DOMAIN comments : comments[k].of = 0 /\ k # c => StillComment(k)
      BY <1>3, AsideFromComment
    <2>2. \A k : <<"github", k>> # y => k # c
      BY <1>3
    <2>3. /\ \A m \in DOMAIN messages' \ DOMAIN messages : messages'[m].by # "person"
          /\ \A k \in DOMAIN comments' \ DOMAIN comments : k = c
      BY <1>3 DEF WritesComment
    <2>. QED BY <1>1, <1>2, <1>3, <2>1, <2>2, <2>3 DEF Aside
  <1>4. CASE y = <<"slack", c>> /\ c # 0 /\ WritesMessage(c)
    <2>1. /\ \A k \in DOMAIN messages : messages[k].by = "person" /\ k # c => StillMessage(k)
          /\ \A k \in DOMAIN comments : comments[k].of = 0 => StillComment(k)
      BY <1>4, AsideFromMessage
    <2>2. \A k : <<"slack", k>> # y => k # c
      BY <1>4
    <2>3. /\ \A m \in DOMAIN messages' \ DOMAIN messages : messages'[m].by = "person" => m = c
          /\ \A k \in DOMAIN comments' \ DOMAIN comments : comments'[k].of # 0
      BY <1>4 DEF WritesMessage
    <2>. QED BY <1>1, <1>2, <1>4, <2>1, <2>2, <2>3 DEF Aside
  <1>. QED BY <1>3, <1>4

LEMMA AsideStill ==
  ASSUME UNCHANGED <<comments, messages, rows>>, NEW y, \A x : Own(x) /\ x # y => StillItem(x)
  PROVE  Aside(y)
  <1>1. \A m \in DOMAIN messages : messages[m].by = "person" => Own(<<"slack", m>>)
    BY DEF Own
  <1>2. \A k \in DOMAIN comments : comments[k].of = 0 => Own(<<"github", k>>)
    BY DEF Own
  <1>3. \A m : StillMessage(m)
    BY DEF StillMessage, Made, Notes, RowsAt
  <1>4. \A c : StillComment(c)
    BY DEF StillComment, AppsOf, RowsFor
  <1>. QED BY <1>1, <1>2, <1>3, <1>4 DEF Aside

LEMMA WorkerStill ==
  ASSUME NEW h \in Handlers, pc[h] # "idle", inbox' = inbox,
         \A g \in Handlers \ {h} : SameLocals(g), pc'[h] = "idle" \/ job'[h] = job[h],
         NEW x, x # Item(job[h])
  PROVE  StillItem(x)
  <1>1. ~On(h, x)
    BY DEF On
  <1>2. ~On(h, x)'
    BY DEF On, Item
  <1>3. \A g \in Handlers \ {h} : On(g, x)' <=> On(g, x)
    BY DEF On, SameLocals, Item
  <1>. QED BY <1>1, <1>2, <1>3 DEF StillItem

Working(h) ==
  \/ Post(h) \/ FallBack(h) \/ MapComment(h) \/ Resync(h) \/ SetExtra(h) \/ Unpost(h) \/ DropRow(h)
  \/ Comment(h) \/ Record(h) \/ Notify(h) \/ Rewrite(h) \/ Uncomment(h) \/ Die(h)

LEMMA WorkSound ==
  ASSUME Sound, NEW h \in Handlers, Working(h)
  PROVE  /\ Sound' /\ WorldGrows /\ RowsGrow /\ pc[h] # "idle" /\ inbox' = inbox
         /\ \A g \in Handlers \ {h} : SameLocals(g)
         /\ pc'[h] = "idle" \/ (job' = job /\ row' = row /\ shown' = shown /\ pr' = pr)
  <1>1. Sound' /\ WorldGrows /\ RowsGrow
    BY PostSound, FallBackSound, MapCommentSound, ResyncSound, SetExtraSound, UnpostSound, DropRowSound,
       CommentSound, RecordSound, NotifySound, RewriteSound, DieSound DEF Working
  <1>2. pc[h] # "idle" /\ inbox' = inbox
    BY DEF Working, Post, FallBack, MapComment, Resync, SetExtra, Unpost, DropRow, Comment, Record,
           Notify, Rewrite, Uncomment, Die, world
  <1>3. LocalsOK
    BY DEF Sound
  <1>4. CASE Done(h)
    BY <1>1, <1>2, <1>3, <1>4, LocalsDone
  <1>5. CASE FallBack(h)
    <2>1. UNCHANGED <<pc, job, row, shown, pr>> /\ sent' = [sent EXCEPT ![h] = <<>>]
      BY <1>5 DEF FallBack
    <2>2. \A g \in Handlers \ {h} : SameLocals(g)
      BY <1>3, <2>1 DEF SameLocals, LocalsOK
    <2>. QED BY <1>1, <1>2, <2>1, <2>2
  <1>6. ASSUME NEW step \in Stages, NEW x, Goto(h, step),
               sent' = [sent EXCEPT ![h] = x] \/ (sent' = sent /\ sent[h] = x)
        PROVE  /\ UNCHANGED <<job, row, shown, pr>>
               /\ \A g \in Handlers \ {h} : SameLocals(g)
    BY <1>3, <1>6, LocalsGoto
  <1>7. \/ Done(h) \/ FallBack(h)
        \/ \E step \in Stages : \E x : Goto(h, step) /\ (sent' = [sent EXCEPT ![h] = x] \/ (sent' = sent /\ sent[h] = x))
    <2>1. CASE Post(h) \/ Comment(h)
      <3>1. \E step \in Stages : \E x : Goto(h, step) /\ sent' = [sent EXCEPT ![h] = x]
        BY <2>1 DEF Post, Comment, Stages
      <3>. QED BY <3>1
    <2>2. CASE Resync(h)
      <3>1. PICK s, x : /\ s = IF Len(sent[h]) + 1 >= Len(Parts[job[h].text]) /\ Len(sent[h]) + 1 >= Len(shown[h])
                               THEN "setExtra" ELSE "resync"
                        /\ x = Append(sent[h], IF Len(sent[h]) + 1 <= Len(shown[h])
                                               THEN shown[h][Len(sent[h]) + 1] ELSE Len(messages) + 1)
        OBVIOUS
      <3>2. Done(h) \/ (Goto(h, s) /\ sent' = [sent EXCEPT ![h] = x])
        BY <2>2, <3>1 DEF Resync
      <3>3. s \in Stages
        BY <3>1 DEF Stages
      <3>. QED BY <3>2, <3>3
    <2>3. CASE Unpost(h)
      <3>1. PICK s, x : /\ s = IF Len(sent[h]) + 1 = Len(shown[h]) THEN "dropRow" ELSE "unpost"
                        /\ x = Append(sent[h], shown[h][Len(sent[h]) + 1])
        OBVIOUS
      <3>2. Done(h) \/ (Goto(h, s) /\ sent' = [sent EXCEPT ![h] = x])
        BY <2>3, <3>1 DEF Unpost
      <3>3. s \in Stages
        BY <3>1 DEF Stages
      <3>. QED BY <3>2, <3>3
    <2>4. CASE Uncomment(h)
      <3>1. Done(h) \/ (Goto(h, "dropRow") /\ sent' = sent)
        BY <2>4 DEF Uncomment
      <3>2. "dropRow" \in Stages
        BY DEF Stages
      <3>. QED BY <3>1, <3>2
    <2>5. CASE MapComment(h) \/ SetExtra(h) \/ DropRow(h) \/ Record(h) \/ Notify(h) \/ Rewrite(h) \/ Die(h)
      BY <2>5 DEF MapComment, SetExtra, DropRow, Record, Notify, Rewrite, Die
    <2>. QED BY <2>1, <2>2, <2>3, <2>4, <2>5 DEF Working
  <1>. QED BY <1>1, <1>2, <1>4, <1>5, <1>6, <1>7

LEMMA WorkAside ==
  ASSUME Sound, NEW h \in Handlers, Working(h)
  PROVE  Aside(Item(job[h]))
  <1>1. /\ WorldGrows /\ RowsGrow /\ pc[h] # "idle" /\ inbox' = inbox
        /\ \A g \in Handlers \ {h} : SameLocals(g)
        /\ pc'[h] = "idle" \/ job'[h] = job[h]
    BY WorkSound
  <1>2. PICK y, c : y = Item(job[h]) /\ c = job[h].item
    OBVIOUS
  <1>3. \A x : x # y => StillItem(x)
    BY <1>1, <1>2, WorkerStill
  <1>4. CASE UNCHANGED <<comments, messages, rows>>
    BY <1>2, <1>3, <1>4, AsideStill
  <1>5. EventOK(job[h])
    BY <1>1, Holding
  <1>6. CASE \/ Post(h) \/ MapComment(h) \/ Resync(h) \/ SetExtra(h) \/ Unpost(h)
             \/ DropRow(h) /\ job[h].side = "github"
    <2>1. WritesComment(c)
      BY <1>1, <1>2, <1>6, WritesOfComment
    <2>2. job[h].side = "github"
      <3>1. StageOK(h)
        BY <1>1, Holding
      <3>. QED BY <1>6, <3>1 DEF StageOK, Post, MapComment, Resync, SetExtra, Unpost
    <2>. QED BY <1>1, <1>2, <1>3, <2>1, <2>2, AsideOf DEF Item
  <1>7. CASE \/ Comment(h) \/ Record(h) \/ Notify(h) \/ Rewrite(h) \/ Uncomment(h)
             \/ DropRow(h) /\ job[h].side = "slack"
    <2>1. WritesMessage(c)
      BY <1>1, <1>2, <1>7, WritesOfMessage
    <2>2. job[h].side = "slack"
      <3>1. StageOK(h)
        BY <1>1, Holding
      <3>. QED BY <1>7, <3>1 DEF StageOK, Comment, Record, Notify, Rewrite, Uncomment
    <2>3. c # 0
      BY <1>2, <1>5, <2>2 DEF EventOK, Sound, Stored
    <2>. QED BY <1>1, <1>2, <1>3, <2>1, <2>2, <2>3, AsideOf DEF Item
  <1>8. CASE FallBack(h) \/ Die(h)
    BY <1>4, <1>8 DEF FallBack, Die, world
  <1>9. job[h].side \in {"github", "slack"}
    BY <1>5 DEF EventOK
  <1>. QED BY <1>2, <1>6, <1>7, <1>8, <1>9 DEF Working

-----------------------------------------------------------------------------
(* An item that nobody is at *)

LEMMA ActStill ==
  ASSUME NEW kind, NEW side, NEW item, NEW text, NEW plain, Act(kind, side, item, text, plain),
         NEW x, x # <<side, item>>
  PROVE  StillItem(x)
  <1>1. PICK e : e = Event(acts + 1, side, kind, item, text, plain)
    OBVIOUS
  <1>2. Item(e) # x
    BY <1>1 DEF Event, Item
  <1>3. inbox' = inbox \cup {e} /\ UNCHANGED handlers
    BY <1>1 DEF Act
  <1>4. \A h \in Handlers : SameLocals(h)
    BY <1>3 DEF handlers, SameLocals
  <1>5. \A h \in Handlers : On(h, x)' <=> On(h, x)
    BY <1>4 DEF SameLocals, On, Item
  <1>. QED BY <1>2, <1>3, <1>4, <1>5 DEF StillItem

LEMMA WriteCommentAside ==
  ASSUME Sound, NEW p \in Discussed, NEW t \in Texts, WriteComment(p, t), NEW n, n = Len(comments) + 1
  PROVE  Aside(<<"github", n>>) /\ WritesComment(n)
  <1>1. WorldGrows /\ RowsGrow
    BY WriteCommentSound
  <1>2. UNCHANGED <<messages, rows>> /\ Act("new", "github", n, t, TRUE)
    BY DEF WriteComment, Act
  <1>3. PICK x : comments' = Append(comments, x) /\ x.of = 0
    BY DEF WriteComment
  <1>4. WritesComment(n)
    BY <1>2, <1>3, Commented DEF WritesComment
  <1>5. \A y : y # <<"github", n>> => StillItem(y)
    BY <1>2, ActStill
  <1>. QED BY <1>1, <1>4, <1>5, AsideOf

LEMMA AlterCommentAside ==
  ASSUME Sound, NEW c \in DOMAIN comments, NEW t \in Texts, EditComment(c, t) \/ DeleteComment(c)
  PROVE  Aside(<<"github", c>>)
  <1>1. WorldGrows /\ RowsGrow
    <2>1. TRUE \in BOOLEAN
      OBVIOUS
    <2>. QED BY <2>1, AlterCommentSound
  <1>2. PICK kind, text, plain :
          UNCHANGED <<messages, rows>> /\ Act(kind, "github", c, text, plain) /\ comments[c].of = 0
    BY DEF EditComment, DeleteComment, Act
  <1>3. comments' = [comments EXCEPT ![c].text = t] \/ comments' = [comments EXCEPT ![c].live = FALSE]
    BY DEF EditComment, DeleteComment
  <1>4. DOMAIN comments' = DOMAIN comments /\ \A k \in DOMAIN comments : k # c => comments'[k] = comments[k]
    BY <1>3
  <1>5. WritesComment(c)
    BY <1>1, <1>2, <1>4 DEF WritesComment, WorldGrows
  <1>6. \A x : x # <<"github", c>> => StillItem(x)
    BY <1>2, ActStill
  <1>. QED BY <1>1, <1>5, <1>6, AsideOf

LEMMA MeddleCommentAside ==
  ASSUME Sound, IInv, NEW c \in DOMAIN comments, NEW t \in Texts, NEW kept \in BOOLEAN,
         MeddleComment(c, t, kept) \/ MeddleDelete(c)
  PROVE  /\ Aside(<<"slack", comments[c].of>>) /\ <<"slack", comments[c].of>> \in tangled'
         /\ tangled \subseteq tangled'
  <1>1. WorldGrows /\ RowsGrow
    BY AlterCommentSound
  <1>2. PICK kind, text, plain :
          UNCHANGED <<messages, rows>> /\ Act(kind, "github", c, text, plain) /\ comments[c].of # 0
    BY DEF MeddleComment, MeddleDelete, Act
  <1>3. PICK m : m = comments[c].of
    OBVIOUS
  <1>4. \/ comments' = [comments EXCEPT ![c].text = t, ![c].tagged = kept]
        \/ comments' = [comments EXCEPT ![c].live = FALSE]
    BY DEF MeddleComment, MeddleDelete
  <1>5. DOMAIN comments' = DOMAIN comments /\ \A k \in DOMAIN comments : k # c => comments'[k] = comments[k]
    BY <1>4
  <1>6. WritesMessage(m)
    BY <1>1, <1>2, <1>3, <1>5 DEF WritesMessage, WorldGrows
  <1>7. m # 0 /\ messages[m].by = "person"
    BY <1>2, <1>3 DEF IInv, Copies, OwnMessage
  <1>8. \A x : Own(x) => x # <<"github", c>>
    BY <1>2 DEF Own
  <1>9. \A x : Own(x) => StillItem(x)
    BY <1>2, <1>8, ActStill
  <1>10. tangled' = tangled \cup {<<"slack", m>>}
    BY <1>3, <1>7 DEF MeddleComment, MeddleDelete, Source
  <1>. QED BY <1>1, <1>3, <1>6, <1>7, <1>9, <1>10, AsideOf

LEMMA WriteMessageAside ==
  ASSUME Sound, NEW r \in 0..Len(messages), NEW t \in Texts, WriteMessage(r, t),
         NEW n, n = Len(messages) + 1
  PROVE  Aside(<<"slack", n>>) /\ WritesMessage(n)
  <1>1. WorldGrows /\ RowsGrow
    BY WriteMessageSound
  <1>2. UNCHANGED <<comments, rows>> /\ Act("new", "slack", n, t, TRUE)
    BY DEF WriteMessage, Act
  <1>3. PICK x, s : s = messages' /\ s = Append(messages, x) /\ x.by = "person"
    BY DEF WriteMessage, Message
  <1>4. messages \in Seq(Messages)
    BY DEF Sound, Stored
  <1>5. n \in Nat \ {0} /\ DOMAIN s = DOMAIN messages \cup {n} /\ s[n] = x
        /\ \A k \in DOMAIN messages : s[k] = messages[k]
    BY ONLY n = Len(messages) + 1, <1>3, <1>4, Appended
  <1>6. WritesMessage(n)
    BY <1>2, <1>3, <1>5 DEF WritesMessage
  <1>7. \A y : y # <<"slack", n>> => StillItem(y)
    BY <1>2, ActStill
  <1>. QED BY <1>1, <1>5, <1>6, <1>7, AsideOf

LEMMA AlterMessageAside ==
  ASSUME Sound, NEW m \in DOMAIN messages, (\E t \in Texts : EditMessage(m, t)) \/ DeleteMessage(m)
  PROVE  Aside(<<"slack", m>>) /\ WorldGrows
  <1>1. WorldGrows /\ RowsGrow
    BY AlterMessageSound
  <1>2. PICK kind, text, plain :
          UNCHANGED <<comments, rows>> /\ Act(kind, "slack", m, text, plain) /\ messages[m].by = "person"
    BY DEF EditMessage, DeleteMessage, Act
  <1>3. PICK t : messages' = [messages EXCEPT ![m].text = t] \/ messages' = [messages EXCEPT ![m].live = FALSE]
    BY DEF EditMessage, DeleteMessage
  <1>4. DOMAIN messages' = DOMAIN messages /\ \A k \in DOMAIN messages : k # m => messages'[k] = messages[k]
    BY <1>3
  <1>5. WritesMessage(m)
    BY <1>1, <1>2, <1>4 DEF WritesMessage, WorldGrows
  <1>6. \A x : x # <<"slack", m>> => StillItem(x)
    BY <1>2, ActStill
  <1>7. m # 0
    BY DEF Sound, Stored
  <1>. QED BY <1>1, <1>5, <1>6, <1>7, AsideOf

LEMMA MeddleMessageAside ==
  ASSUME Sound, NEW m \in DOMAIN messages, MeddleMessage(m)
  PROVE  /\ Aside(<<"github", messages[m].of>>) /\ <<"github", messages[m].of>> \in tangled'
         /\ tangled \subseteq tangled' /\ WorldGrows
  <1>1. WorldGrows /\ RowsGrow
    BY AlterMessageSound
  <1>2. PICK kind, text, plain :
          UNCHANGED <<comments, rows>> /\ Act(kind, "slack", m, text, plain) /\ messages[m].by = "app"
    BY DEF MeddleMessage, Act
  <1>3. PICK c : c = messages[m].of
    OBVIOUS
  <1>4. messages' = [messages EXCEPT ![m].live = FALSE]
    BY DEF MeddleMessage
  <1>5. DOMAIN messages' = DOMAIN messages /\ \A k \in DOMAIN messages : k # m => messages'[k] = messages[k]
    BY <1>4
  <1>6. WritesComment(c)
    BY <1>1, <1>2, <1>3, <1>5 DEF WritesComment, WorldGrows
  <1>8. \A x : Own(x) => x # <<"slack", m>>
    BY <1>2 DEF Own
  <1>9. \A x : Own(x) => StillItem(x)
    BY <1>2, <1>8, ActStill
  <1>10. tangled' = tangled \cup {<<"github", c>>}
    BY <1>2, <1>3 DEF MeddleMessage, Source
  <1>. QED BY <1>1, <1>3, <1>6, <1>9, <1>10, AsideOf

LEMMA NothingAside ==
  ASSUME UNCHANGED <<comments, messages, rows, inbox, handlers>>, NEW y
  PROVE  Aside(y)
  <1>1. \A h \in Handlers : SameLocals(h)
    BY DEF handlers, SameLocals
  <1>2. \A x : StillItem(x)
    BY <1>1 DEF StillItem, SameLocals, On, Item
  <1>. QED BY <1>2, AsideStill

LEMMA ReceiveAside ==
  ASSUME Sound, NEW h \in Handlers, Receive(h), NEW e,
         \/ UNCHANGED handlers
         \/ Own(Item(e)) /\ Taking(h, e),
         inbox' = inbox \/ inbox' = inbox \ {e}
  PROVE  Aside(Item(e))
  <1>1. UNCHANGED <<comments, messages, rows>> /\ pc[h] = "idle"
    BY DEF Receive, world
  <1>2. ASSUME NEW x, x # Item(e) PROVE StillItem(x)
    <2>1. \A f : Item(f) = x => (f \in inbox' <=> f \in inbox)
      BY <1>2
    <2>2. CASE UNCHANGED handlers
      <3>1. \A g \in Handlers : SameLocals(g)
        BY <2>2 DEF handlers, SameLocals
      <3>. QED BY <2>1, <3>1 DEF StillItem, SameLocals, On, Item
    <2>3. CASE Taking(h, e)
      <3>1. PICK step, i, p : step \in Stages /\ Begin(h, e, step, i, p)
        BY <2>3 DEF Taking, Stages
      <3>2. job'[h] = e /\ \A g \in Handlers \ {h} : SameLocals(g)
        BY <3>1, LocalsBegin DEF Sound
      <3>3. ~On(h, x) /\ ~On(h, x)'
        BY <1>1, <1>2, <3>2 DEF On, Item
      <3>4. \A g \in Handlers \ {h} : On(g, x)' <=> On(g, x)
        BY <3>2 DEF On, SameLocals, Item
      <3>. QED BY <2>1, <3>2, <3>3, <3>4 DEF StillItem
    <2>. QED BY <2>2, <2>3
  <1>. QED BY <1>1, <1>2, AsideStill

-----------------------------------------------------------------------------
(* A handler and the events that are still to come *)

LEMMA LoneStill ==
  ASSUME NEW x, Lone(x), StillItem(x)
  PROVE  Lone(x)'
BY DEF Lone, StillItem, On, SameLocals

LEMMA LoneShrinks ==
  ASSUME NEW x, Lone(x), inbox' \subseteq inbox, \A g \in Handlers : On(g, x)' => On(g, x)
  PROVE  Lone(x)'
BY DEF Lone

LEMMA LoneAct ==
  ASSUME NEW kind, NEW side, NEW item, NEW text, NEW plain, Act(kind, side, item, text, plain),
         NEW x, x = <<side, item>>, ~Busy(x)
  PROVE  Lone(x)'
  <1>1. PICK e : inbox' = inbox \cup {e} /\ UNCHANGED handlers
    BY DEF Act
  <1>2. \A h \in Handlers : ~On(h, x)'
    BY <1>1 DEF Busy, On, handlers
  <1>3. \A f \in inbox : Item(f) # x
    BY DEF Busy
  <1>. QED BY <1>1, <1>2, <1>3 DEF Lone

\* Who is not there is not busy.
LEMMA NotYet ==
  ASSUME Sound, NEW x, x[1] = "github" => x[2] \notin DOMAIN comments,
         x[1] = "slack" => x[2] \notin DOMAIN messages
  PROVE  ~Busy(x)
  <1>1. \A e \in inbox : Item(e) # x
    BY DEF Sound, Posted, EventOK, Item
  <1>2. \A h \in Handlers : pc[h] # "idle" => Item(job[h]) # x
    BY Holding DEF EventOK, Item
  <1>. QED BY <1>1, <1>2 DEF Busy

LEMMA OneByOneBut ==
  ASSUME OneByOne, WorldGrows, tangled \subseteq tangled', NEW y, Aside(y),
         Own(y)' /\ y \notin tangled' => Lone(y)'
  PROVE  OneByOne'
  <1>1. ASSUME NEW c \in DOMAIN comments', comments'[c].of = 0, NEW x, x = <<"github", c>>, x \notin tangled'
        PROVE  Lone(x)'
    <2>1. CASE x = y
      BY <1>1, <2>1 DEF Own
    <2>2. CASE x # y
      <3>1. c \in DOMAIN comments /\ StillItem(x)
        BY <1>1, <2>2 DEF Aside, WorldGrows
      <3>2. comments[c].of = 0 /\ x \notin tangled
        BY <1>1, <3>1 DEF WorldGrows
      <3>3. Lone(x)
        BY <1>1, <3>1, <3>2 DEF OneByOne
      <3>. QED BY <3>1, <3>3, LoneStill
    <2>. QED BY <2>1, <2>2
  <1>2. ASSUME NEW m \in DOMAIN messages', messages'[m].by = "person", NEW x, x = <<"slack", m>>, x \notin tangled'
        PROVE  Lone(x)'
    <2>1. CASE x = y
      BY <1>2, <2>1 DEF Own
    <2>2. CASE x # y
      <3>1. m \in DOMAIN messages /\ StillItem(x)
        BY <1>2, <2>2 DEF Aside, WorldGrows
      <3>2. messages[m].by = "person" /\ x \notin tangled
        BY <1>2, <3>1 DEF WorldGrows
      <3>3. Lone(x)
        BY <1>2, <3>1, <3>2 DEF OneByOne
      <3>. QED BY <3>1, <3>3, LoneStill
    <2>. QED BY <2>1, <2>2
  <1>3. \A c \in DOMAIN comments' : comments'[c].of = 0 /\ <<"github", c>> \notin tangled' => Lone(<<"github", c>>)'
    <2>1. ASSUME NEW c \in DOMAIN comments', comments'[c].of = 0, <<"github", c>> \notin tangled'
          PROVE  Lone(<<"github", c>>)'
      <3>1. PICK x : x = <<"github", c>>
        OBVIOUS
      <3>2. Lone(x)'
        BY <1>1, <2>1, <3>1
      <3>. QED BY <3>1, <3>2 DEF Lone, On
    <2>. QED BY <2>1
  <1>4. \A m \in DOMAIN messages' : messages'[m].by = "person" /\ <<"slack", m>> \notin tangled' => Lone(<<"slack", m>>)'
    <2>1. ASSUME NEW m \in DOMAIN messages', messages'[m].by = "person", <<"slack", m>> \notin tangled'
          PROVE  Lone(<<"slack", m>>)'
      <3>1. PICK x : x = <<"slack", m>>
        OBVIOUS
      <3>2. Lone(x)'
        BY <1>2, <2>1, <3>1
      <3>. QED BY <3>1, <3>2 DEF Lone, On
    <2>. QED BY <2>1
  <1>. QED BY <1>3, <1>4 DEF OneByOne

LEMMA OwnBefore ==
  ASSUME OneByOne, WorldGrows, tangled \subseteq tangled', NEW x, Own(x), Own(x)', x \notin tangled',
         x = <<"github", x[2]>> \/ x = <<"slack", x[2]>>
  PROVE  Lone(x)
  <1>1. PICK k : k = x[2]
    OBVIOUS
  <1>2. CASE x = <<"github", k>>
    BY <1>1, <1>2 DEF OneByOne, Own
  <1>3. CASE x = <<"slack", k>>
    BY <1>1, <1>3 DEF OneByOne, Own
  <1>. QED BY <1>1, <1>2, <1>3

LEMMA WorkOneByOne ==
  ASSUME Sound, OneByOne, NEW h \in Handlers, Working(h)
  PROVE  OneByOne' /\ tangled \subseteq tangled'
  <1>1. /\ WorldGrows /\ pc[h] # "idle" /\ inbox' = inbox
        /\ \A g \in Handlers \ {h} : SameLocals(g)
        /\ pc'[h] = "idle" \/ job'[h] = job[h]
    BY WorkSound
  <1>2. PICK y : y = Item(job[h])
    OBVIOUS
  <1>3. Aside(y)
    BY <1>2, WorkAside
  <1>4. tangled \subseteq tangled'
    BY DEF Working, Post, FallBack, MapComment, Resync, SetExtra, Unpost, DropRow, Comment, Record,
           Notify, Rewrite, Uncomment, Die
  <1>5. Own(y) /\ (y = <<"github", y[2]>> \/ y = <<"slack", y[2]>>)
    BY <1>1, <1>2, Holding DEF EventOK, Item
  <1>6. \A g \in Handlers : On(g, y)' => On(g, y)
    BY <1>1, <1>2 DEF On, SameLocals, Item
  <1>7. Own(y)' /\ y \notin tangled' => Lone(y)'
    BY <1>1, <1>4, <1>5, <1>6, OwnBefore, LoneShrinks
  <1>. QED BY <1>1, <1>3, <1>4, <1>7, OneByOneBut

LEMMA EventItem ==
  ASSUME Sound, NEW e, EventOK(e)
  PROVE  Item(e) = <<"github", Item(e)[2]>> \/ Item(e) = <<"slack", Item(e)[2]>>
BY DEF EventOK, Item

LEMMA ReceiveOneByOne ==
  ASSUME Sound, OneByOne, NEW h \in Handlers, Receive(h)
  PROVE  OneByOne' /\ tangled \subseteq tangled'
  <1>1. UNCHANGED <<comments, messages, rows>> /\ pc[h] = "idle"
    BY DEF Receive, world
  <1>2. WorldGrows
    BY <1>1 DEF WorldGrows
  <1>3. PICK e :
           \/ UNCHANGED handlers /\ UNCHANGED <<inbox, tangled>>
           \/ UNCHANGED handlers /\ Leaves(e) /\ (Own(Item(e)) => Ignored(e))
           \/ Leaves(e) /\ Own(Item(e)) /\ EventOK(e) /\ Taking(h, e)
    BY Taken
  <1>4. tangled \subseteq tangled' /\ (inbox' = inbox \/ inbox' = inbox \ {e})
    BY <1>3 DEF Leaves
  <1>5. PICK y : y = Item(e)
    OBVIOUS
  <1>6. Aside(y)
    BY <1>3, <1>4, <1>5, ReceiveAside
  <1>7. ASSUME e \in inbox, Own(y)', y \notin tangled' PROVE Lone(y)'
    <2>1. Own(y)
      BY <1>1, <1>7 DEF Own
    <2>2. EventOK(e)
      BY <1>7 DEF Sound, Posted
    <2>3. Lone(y)
      BY <1>2, <1>4, <1>5, <1>7, <2>1, <2>2, EventItem, OwnBefore
    <2>4. CASE UNCHANGED handlers
      <3>1. \A g \in Handlers : On(g, y)' => On(g, y)
        BY <2>4 DEF On, handlers
      <3>. QED BY <1>4, <2>3, <3>1, LoneShrinks
    <2>5. CASE Leaves(e) /\ Taking(h, e)
      <3>1. inbox' = inbox \ {e}
        BY <1>5, <1>7, <2>5 DEF Leaves
      <3>2. PICK step, i, p : step \in Stages /\ Begin(h, e, step, i, p)
        BY <2>5 DEF Taking, Stages
      <3>3. \A g \in Handlers \ {h} : SameLocals(g)
        BY <3>2, LocalsBegin DEF Sound
      <3>4. \A g \in Handlers \ {h} : ~On(g, y)'
        BY <1>5, <1>7, <2>3, <3>3 DEF Lone, On, SameLocals
      <3>5. \A f \in inbox' : Item(f) # y
        BY <1>5, <1>7, <2>3, <3>1 DEF Lone
      <3>. QED BY <3>4, <3>5 DEF Lone
    <2>. QED BY <1>3, <2>4, <2>5
  <1>8. CASE e \in inbox
    BY <1>2, <1>4, <1>6, <1>7, <1>8, OneByOneBut
  <1>9. CASE e \notin inbox
    <2>1. UNCHANGED handlers /\ UNCHANGED <<inbox, tangled>>
      BY <1>3, <1>9 DEF Leaves
    <2>2. OneByOne'
      BY <1>1, <2>1 DEF OneByOne, Lone, On, handlers
    <2>. QED BY <2>1, <2>2
  <1>. QED BY <1>8, <1>9

-----------------------------------------------------------------------------
(* One event of an item at a time: every step *)

LEMMA PeopleOneByOne ==
  ASSUME Sound, IInv, OneByOne, People
  PROVE  OneByOne' /\ tangled \subseteq tangled'
  <1>1. ASSUME NEW p \in Discussed, NEW t \in Texts, WriteComment(p, t)
        PROVE  OneByOne' /\ tangled \subseteq tangled'
    <2>1. PICK n, y : n = Len(comments) + 1 /\ y = <<"github", n>>
      OBVIOUS
    <2>2. Aside(y) /\ WorldGrows
      BY <1>1, <2>1, WriteCommentAside, WriteCommentSound
    <2>3. Act("new", "github", n, t, TRUE) /\ tangled' = tangled
      BY <1>1, <2>1 DEF WriteComment
    <2>4. n \notin DOMAIN comments
      BY <2>1 DEF Sound, Stored
    <2>5. ~Busy(y)
      BY <2>1, <2>4, NotYet
    <2>6. Lone(y)'
      BY <2>1, <2>3, <2>5, LoneAct
    <2>. QED BY <2>2, <2>3, <2>6, OneByOneBut
  <1>2. ASSUME NEW c \in DOMAIN comments, NEW t \in Texts, EditComment(c, t) \/ DeleteComment(c)
        PROVE  OneByOne' /\ tangled \subseteq tangled'
    <2>1. PICK y : y = <<"github", c>>
      OBVIOUS
    <2>2. Aside(y)
      BY <1>2, <2>1, AlterCommentAside
    <2>3. WorldGrows
      <3>1. TRUE \in BOOLEAN
        OBVIOUS
      <3>. QED BY <1>2, <3>1, AlterCommentSound
    <2>4. PICK kind, text : Act(kind, "github", c, text, TRUE) /\ Touch(y)
      BY <1>2, <2>1 DEF EditComment, DeleteComment
    <2>5. tangled \subseteq tangled' /\ (y \notin tangled' => ~Busy(y))
      BY <2>4 DEF Touch
    <2>6. y \notin tangled' => Lone(y)'
      BY <2>1, <2>4, <2>5, LoneAct
    <2>. QED BY <2>2, <2>3, <2>5, <2>6, OneByOneBut
  <1>3. ASSUME NEW c \in DOMAIN comments, NEW t \in Texts, NEW kept \in BOOLEAN,
               MeddleComment(c, t, kept) \/ MeddleDelete(c)
        PROVE  OneByOne' /\ tangled \subseteq tangled'
    <2>1. PICK y : y = <<"slack", comments[c].of>>
      OBVIOUS
    <2>2. Aside(y) /\ y \in tangled' /\ tangled \subseteq tangled' /\ WorldGrows
      BY <1>3, <2>1, MeddleCommentAside, AlterCommentSound
    <2>. QED BY <2>2, OneByOneBut
  <1>4. ASSUME NEW r \in 0..Len(messages), NEW t \in Texts, WriteMessage(r, t)
        PROVE  OneByOne' /\ tangled \subseteq tangled'
    <2>1. PICK n, y : n = Len(messages) + 1 /\ y = <<"slack", n>>
      OBVIOUS
    <2>2. Aside(y) /\ WorldGrows
      BY <1>4, <2>1, WriteMessageAside, WriteMessageSound
    <2>3. Act("new", "slack", n, t, TRUE) /\ tangled \subseteq tangled'
      BY <1>4, <2>1 DEF WriteMessage
    <2>4. n \notin DOMAIN messages
      BY <2>1 DEF Sound, Stored
    <2>5. ~Busy(y)
      BY <2>1, <2>4, NotYet
    <2>6. Lone(y)'
      BY <2>1, <2>3, <2>5, LoneAct
    <2>. QED BY <2>2, <2>3, <2>6, OneByOneBut
  <1>5. ASSUME NEW m \in DOMAIN messages, (\E t \in Texts : EditMessage(m, t)) \/ DeleteMessage(m)
        PROVE  OneByOne' /\ tangled \subseteq tangled'
    <2>1. PICK y : y = <<"slack", m>>
      OBVIOUS
    <2>2. Aside(y) /\ WorldGrows
      BY <1>5, <2>1, AlterMessageAside
    <2>4. PICK kind, text : Act(kind, "slack", m, text, TRUE) /\ Touch(y)
      BY <1>5, <2>1 DEF EditMessage, DeleteMessage
    <2>5. tangled \subseteq tangled' /\ (y \notin tangled' => ~Busy(y))
      BY <2>4 DEF Touch
    <2>6. y \notin tangled' => Lone(y)'
      BY <2>1, <2>4, <2>5, LoneAct
    <2>. QED BY <2>2, <2>5, <2>6, OneByOneBut
  <1>6. ASSUME NEW m \in DOMAIN messages, MeddleMessage(m)
        PROVE  OneByOne' /\ tangled \subseteq tangled'
    <2>1. PICK y : y = <<"github", messages[m].of>>
      OBVIOUS
    <2>2. Aside(y) /\ y \in tangled' /\ tangled \subseteq tangled' /\ WorldGrows
      BY <1>6, <2>1, MeddleMessageAside
    <2>. QED BY <2>2, OneByOneBut
  <1>7. ASSUME NEW p, Toggle(p) PROVE OneByOne' /\ tangled \subseteq tangled'
    <2>1. UNCHANGED <<comments, messages, inbox, handlers, tangled>>
      BY <1>7 DEF Toggle
    <2>. QED BY <2>1 DEF OneByOne, Lone, On, handlers
  <1>. QED BY <1>1, <1>2, <1>3, <1>4, <1>5, <1>6, <1>7, Acts

LEMMA WorkOrNot ==
  ASSUME NEW h, Handle(h)
  PROVE  Receive(h) \/ Working(h)
BY DEF Handle, Working

LEMMA OneByOneNext ==
  ASSUME Sound, IInv, OneByOne, [Next]_vars
  PROVE  OneByOne' /\ tangled \subseteq tangled'
  <1>1. CASE UNCHANGED vars
    BY <1>1 DEF vars, world, OneByOne, Lone, On, handlers
  <1>. QED BY <1>1, PeopleOneByOne, WorkOrNot, ReceiveOneByOne, WorkOneByOne DEF Next

-----------------------------------------------------------------------------
(* A message that a step is not about *)

LEMMA MessageStill ==
  ASSUME Sound, RowsGrow, NEW m \in DOMAIN messages, NEW x, x = <<"slack", m>>,
         StillItem(x), StillMessage(m), MessageOK(m)
  PROVE  MessageOK(m)'
  <1>1. /\ messages'[m] = messages[m] /\ Made(m)' = Made(m) /\ Notes(m)' = Notes(m)
        /\ RowsAt(m)' = RowsAt(m) /\ \A c \in Made(m) : comments'[c] = comments[c]
    BY DEF StillMessage
  <1>2. \A i \in RowsAt(m) : rows'[i].comment = rows[i].comment
    BY DEF RowsAt, RowsGrow
  <1>3. /\ Untouched(m) => Untouched(m)'
        /\ Kept(m) => Kept(m)'
        /\ Says(m) => Says(m)'
        /\ Gone(m) => Gone(m)'
    BY <1>1, <1>2 DEF Untouched, Kept, Says, Gone
  <1>4. ASSUME NEW e \in inbox', Item(e) = x PROVE Pending(e, m)'
    <2>1. Pending(e, m)
      BY <1>4 DEF StillItem, MessageOK
    <2>. QED BY <1>1, <1>3, <2>1 DEF Pending
  <1>5. ASSUME NEW h \in Handlers, On(h, x)' PROVE InHand(h, m)'
    <2>1. On(h, x) /\ SameLocals(h)
      BY <1>5 DEF StillItem
    <2>2. InHand(h, m) /\ pc[h] # "idle"
      BY <2>1 DEF MessageOK, On
    <2>3. pc'[h] = pc[h] /\ job'[h] = job[h] /\ row'[h] = row[h] /\ sent'[h] = sent[h]
      BY <2>1 DEF SameLocals
    <2>4. StageOK(h)
      BY <2>2, Holding
    <2>5. pc[h] \in {"edit", "uncomment"} => rows'[row[h]].comment = rows[row[h]].comment
      BY <2>4 DEF StageOK, FoundSlack, RowsGrow
    <2>. QED BY <1>1, <1>3, <2>2, <2>3, <2>5 DEF InHand
  <1>6. Busy(x)' <=> Busy(x)
    BY DEF StillItem, Busy, On, SameLocals
  <1>7. ~Busy(x)' => IF messages'[m].live THEN Kept(m)' /\ Says(m)' ELSE Gone(m)'
    BY <1>1, <1>3, <1>6 DEF MessageOK
  <1>8. (\A e \in inbox' : Item(e) = x => Pending(e, m)') /\ (\A h \in Handlers : On(h, x)' => InHand(h, m)')
    BY <1>4, <1>5
  <1>. QED BY <1>7, <1>8 DEF MessageOK, On, Busy

LEMMA MessagesBut ==
  ASSUME Sound, WorldGrows, RowsGrow, MessagesOK, tangled \subseteq tangled', NEW y, Aside(y),
         \A m \in DOMAIN messages' : y = <<"slack", m>> /\ messages'[m].by = "person" /\ y \notin tangled'
           => MessageOK(m)'
  PROVE  MessagesOK'
  <1>1. ASSUME NEW m \in DOMAIN messages', messages'[m].by = "person", <<"slack", m>> \notin tangled'
        PROVE  MessageOK(m)'
    <2>1. CASE y = <<"slack", m>>
      BY <1>1, <2>1
    <2>2. CASE y # <<"slack", m>>
      <3>1. m \in DOMAIN messages
        BY <1>1, <2>2 DEF Aside
      <3>2. messages[m].by = "person" /\ <<"slack", m>> \notin tangled
        BY <1>1, <3>1 DEF WorldGrows
      <3>3. PICK x : x = <<"slack", m>>
        OBVIOUS
      <3>4. StillItem(x) /\ StillMessage(m) /\ MessageOK(m)
        BY <2>2, <3>1, <3>2, <3>3 DEF Aside, MessagesOK
      <3>. QED BY <3>1, <3>3, <3>4, MessageStill
    <2>. QED BY <2>1, <2>2
  <1>. QED BY <1>1 DEF MessagesOK

LEMMA MessageNow ==
  ASSUME NEW m, NEW h \in Handlers, NEW x, x = <<"slack", m>>,
         \A e \in inbox' : Item(e) # x, \A g \in Handlers \ {h} : ~On(g, x)',
         On(h, x)' => InHand(h, m)',
         ~On(h, x)' => IF messages'[m].live THEN Kept(m)' /\ Says(m)' ELSE Gone(m)'
  PROVE  MessageOK(m)'
  <1>1. \A g \in Handlers : On(g, x)' => InHand(g, m)'
    OBVIOUS
  <1>2. ~Busy(x)' => ~On(h, x)'
    BY DEF Busy, On
  <1>. QED BY <1>1, <1>2 DEF MessageOK, On, Busy

LEMMA MessageReported ==
  ASSUME NEW m, NEW x, x = <<"slack", m>>, NEW e, Item(e) = x, inbox' = inbox \cup {e},
         UNCHANGED handlers, ~Busy(x), Pending(e, m)'
  PROVE  MessageOK(m)'
  <1>1. \A g \in Handlers : ~On(g, x)'
    BY DEF Busy, On, handlers
  <1>2. \A f \in inbox' : Item(f) = x => f = e
    BY DEF Busy
  <1>3. Busy(x)'
    BY DEF Busy
  <1>4. \A f \in inbox' : Item(f) = x => Pending(f, m)'
    BY <1>2
  <1>. QED BY <1>1, <1>3, <1>4 DEF MessageOK, On, Busy

LEMMA Alone ==
  ASSUME NEW x, Lone(x), NEW h \in Handlers, On(h, x), inbox' = inbox,
         \A g \in Handlers \ {h} : SameLocals(g)
  PROVE  (\A e \in inbox' : Item(e) # x) /\ \A g \in Handlers \ {h} : ~On(g, x)'
BY DEF Lone, On, SameLocals

\* The same, when what is tested of a handler does not change its record.
LEMMA CommentMessage ==
  ASSUME Sound, NEW h \in Handlers, Comment(h), NEW m, m = job[h].item, InHand(h, m)
  PROVE  On(h, <<"slack", m>>)' /\ InHand(h, m)'
  <1>1. /\ pc[h] = "comment" /\ UNCHANGED <<messages, rows>> /\ Goto(h, "record")
    BY DEF Comment
  <1>2. PICK x, n : x = [pr |-> pr[h], of |-> m, text |-> job[h].text, tagged |-> TRUE, live |-> TRUE]
                    /\ n = Len(comments) + 1
    OBVIOUS
  <1>3. comments' = Append(comments, x) /\ sent' = [sent EXCEPT ![h] = <<n>>]
    BY <1>2 DEF Comment
  <1>4. n \in DOMAIN comments' /\ comments'[n] = x /\ DOMAIN comments' = DOMAIN comments \cup {n}
        /\ \A c \in DOMAIN comments : comments'[c] = comments[c]
    <2>1. PICK r : r = comments'
      OBVIOUS
    <2>2. r = Append(comments, x) /\ comments \in Seq(Comments) /\ n = Len(comments) + 1
      BY <1>2, <1>3, <2>1 DEF Sound, Stored
    <2>3. DOMAIN r = DOMAIN comments \cup {n} /\ r[n] = x /\ \A k \in DOMAIN comments : r[k] = comments[k]
      BY ONLY <2>2, Appended
    <2>. QED BY <2>1, <2>3
  <1>5. Made(m) = {} /\ Notes(m) = {} /\ RowsAt(m) = {} /\ messages[m].live /\ job[h].text = messages[m].text
    BY <1>1 DEF InHand, Untouched
  <1>6. Made(m)' = {n}
    <2>1. x.of = m
      BY <1>2
    <2>2. \A c \in DOMAIN comments : comments[c].of # m
      BY <1>5 DEF Made
    <2>. QED BY <1>4, <2>1, <2>2 DEF Made
  <1>7. Notes(m)' = {} /\ RowsAt(m)' = {}
    BY <1>1, <1>5 DEF Notes, RowsAt
  <1>8. LocalsOK /\ "record" \in Stages /\ Item(job[h]) = <<"slack", m>>
    <2>1. StageOK(h) /\ LocalsOK
      BY <1>1, Holding
    <2>. QED BY <1>1, <2>1 DEF StageOK, Stages, Item
  <1>9. PICK s : s = <<n>>
    OBVIOUS
  <1>10. pc'[h] = "record" /\ sent'[h] = s /\ job' = job
    <2>1. Goto(h, "record") /\ sent' = [sent EXCEPT ![h] = s]
      BY <1>1, <1>3, <1>9
    <2>. QED BY <1>8, <2>1, LocalsGoto
  <1>11. x.live /\ x.text = messages[m].text
    BY <1>2, <1>5
  <1>12. Says(m)'
    BY <1>1, <1>4, <1>6, <1>11 DEF Says
  <1>13. InHand(h, m)'
    <2>1. s[1] = n
      BY <1>9
    <2>2. sent'[h][1] = n /\ comments'[n].live /\ messages'[m] = messages[m] /\ job'[h] = job[h]
      BY <1>1, <1>4, <1>10, <1>11, <2>1
    <2>. QED BY <1>5, <1>6, <1>7, <1>10, <1>12, <2>2 DEF InHand
  <1>. QED BY <1>8, <1>10, <1>13 DEF On

-----------------------------------------------------------------------------
(* What a handler does about a message *)

\* How a message is left when nothing is to be done about it.
MessageClosed(m) == IF messages[m].live THEN Kept(m) /\ Says(m) ELSE Gone(m)

LEMMA RecordMessage ==
  ASSUME Sound, NEW h \in Handlers, Record(h), NEW m, m = job[h].item, InHand(h, m)
  PROVE  MessageClosed(m)'
  <1>1. pc[h] = "record" /\ UNCHANGED <<comments, messages>>
    BY DEF Record, world
  <1>2. PICK c, p, n : c = sent[h][1] /\ p = pr[h] /\ n = Len(rows) + 1
    OBVIOUS
  <1>3. PICK x : x = [pr |-> p, ts |-> m, extra |-> <<>>, comment |-> c, origin |-> "slack", live |-> TRUE]
    OBVIOUS
  <1>4. DOMAIN rows' = DOMAIN rows \cup {n} /\ rows'[n] = x /\ \A k \in DOMAIN rows : rows'[k] = rows[k]
    <2>1. PICK r : r = rows'
      OBVIOUS
    <2>2. r = Append(rows, x) /\ rows \in Seq(Rows) /\ n = Len(rows) + 1
      BY <1>2, <1>3, <2>1 DEF Sound, Stored, Record, Insert
    <2>3. DOMAIN r = DOMAIN rows \cup {n} /\ r[n] = x /\ \A k \in DOMAIN rows : r[k] = rows[k]
      BY ONLY <2>2, Appended
    <2>. QED BY <2>1, <2>3
  <1>5. /\ messages[m].live /\ Made(m) = {c} /\ Notes(m) = {} /\ RowsAt(m) = {}
        /\ comments[c].live /\ Says(m)
    BY <1>1, <1>2 DEF InHand
  <1>6. Made(m)' = {c} /\ Notes(m)' = {} /\ Says(m)'
    BY <1>1, <1>5 DEF Made, Notes, Says
  <1>7. x.ts = m /\ x.live /\ x.comment = c
    BY <1>3
  <1>8. RowsAt(m)' = {n}
    BY <1>4, <1>5, <1>7 DEF RowsAt
  <1>9. messages'[m].live /\ comments'[c].live /\ rows'[n].comment = c
    BY <1>1, <1>4, <1>5, <1>7
  <1>10. Kept(m)'
    BY <1>6, <1>8, <1>9 DEF Kept
  <1>. QED BY <1>6, <1>9, <1>10 DEF MessageClosed

LEMMA NotifyMessage ==
  ASSUME Sound, NEW h \in Handlers, Notify(h), NEW m \in DOMAIN messages, m = job[h].item, InHand(h, m)
  PROVE  MessageClosed(m)'
  <1>1. pc[h] = "notice" /\ UNCHANGED <<comments, rows>>
    BY DEF Notify
  <1>2. PICK x, n : x = Message("notice", m, m, None, None) /\ n = Len(messages) + 1
    OBVIOUS
  <1>3. DOMAIN messages' = DOMAIN messages \cup {n} /\ messages'[n] = x
        /\ \A k \in DOMAIN messages : messages'[k] = messages[k]
    <2>1. PICK r : r = messages'
      OBVIOUS
    <2>2. r = Append(messages, x) /\ messages \in Seq(Messages) /\ n = Len(messages) + 1
      BY <1>2, <2>1 DEF Sound, Stored, Notify, Say
    <2>3. DOMAIN r = DOMAIN messages \cup {n} /\ r[n] = x /\ \A k \in DOMAIN messages : r[k] = messages[k]
      BY ONLY <2>2, Appended
    <2>. QED BY <2>1, <2>3
  <1>4. messages[m].live /\ Made(m) = {} /\ Notes(m) = {} /\ RowsAt(m) = {}
    BY <1>1 DEF InHand, Untouched
  <1>5. x.by = "notice" /\ x.of = m
    BY <1>2 DEF Message
  <1>6. Notes(m)' = {n}
    BY <1>3, <1>4, <1>5 DEF Notes
  <1>7. Made(m)' = {} /\ RowsAt(m)' = {} /\ messages'[m].live
    BY <1>1, <1>3, <1>4 DEF Made, RowsAt
  <1>8. Kept(m)' /\ Says(m)'
    BY <1>6, <1>7 DEF Kept, Says
  <1>. QED BY <1>7, <1>8 DEF MessageClosed

LEMMA RewriteMessage ==
  ASSUME Sound, NEW h \in Handlers, Rewrite(h), NEW m, m = job[h].item, InHand(h, m)
  PROVE  MessageClosed(m)'
  <1>1. pc[h] = "edit" /\ UNCHANGED <<messages, rows>>
    BY DEF Rewrite
  <1>2. PICK c, t, i : c = rows[i].comment /\ t = job[h].text /\ i = row[h]
    OBVIOUS
  <1>3. /\ messages[m].live /\ t = messages[m].text
        /\ Made(m) = {c} /\ Notes(m) = {} /\ RowsAt(m) = {i} /\ comments[c].live
    BY <1>1, <1>2 DEF InHand
  <1>4. comments' = [comments EXCEPT ![c].text = t, ![c].tagged = TRUE]
    BY <1>2, <1>3 DEF Rewrite
  <1>5. c \in DOMAIN comments /\ comments \in Seq(Comments) /\ t \in Texts
    <2>1. EventOK(job[h]) /\ StageOK(h)
      BY <1>1, Holding
    <2>2. job[h].plain
      BY <1>1, <2>1 DEF StageOK
    <2>. QED BY <1>2, <1>3, <2>1, <2>2 DEF Made, EventOK, Sound, Stored
  <1>6. DOMAIN comments' = DOMAIN comments /\ \A k \in DOMAIN comments : comments'[k].of = comments[k].of
    BY <1>4, <1>5, CommentAltered
  <1>7. comments'[c].live /\ comments'[c].text = t
    <2>1. comments[c] \in Comments
      BY <1>5
    <2>2. comments'[c].live = comments[c].live /\ comments'[c].text = t
      BY <1>4, <1>5, <2>1 DEF Comments
    <2>. QED BY <1>3, <2>2
  <1>8. Made(m)' = {c} /\ Notes(m)' = {} /\ RowsAt(m)' = {i}
    BY <1>1, <1>3, <1>6 DEF Made, Notes, RowsAt
  <1>9. Kept(m)' /\ Says(m)'
    BY <1>1, <1>2, <1>3, <1>7, <1>8 DEF Kept, Says
  <1>. QED BY <1>1, <1>3, <1>9 DEF MessageClosed

LEMMA UncommentMessage ==
  ASSUME Sound, NEW h \in Handlers, Uncomment(h), NEW m, m = job[h].item, InHand(h, m)
  PROVE  On(h, <<"slack", m>>)' /\ InHand(h, m)'
  <1>1. pc[h] = "uncomment" /\ UNCHANGED <<messages, rows>>
    BY DEF Uncomment
  <1>2. PICK c, i : c = rows[i].comment /\ i = row[h]
    OBVIOUS
  <1>3. /\ ~messages[m].live
        /\ Made(m) = {c} /\ Notes(m) = {} /\ RowsAt(m) = {i} /\ comments[c].live
    BY <1>1, <1>2 DEF InHand
  <1>4. comments' = [comments EXCEPT ![c].live = FALSE] /\ Goto(h, "dropRow") /\ sent' = sent
    BY <1>2, <1>3 DEF Uncomment
  <1>5. c \in DOMAIN comments /\ comments[c] \in Comments
    BY <1>3 DEF Made, Sound, Stored
  <1>6. /\ DOMAIN comments' = DOMAIN comments /\ \A k \in DOMAIN comments : comments'[k].of = comments[k].of
        /\ ~comments'[c].live
    BY <1>4, <1>5 DEF Comments
  <1>7. Made(m)' = {c} /\ RowsAt(m)' = {i}
    BY <1>1, <1>3, <1>6 DEF Made, RowsAt
  <1>8. LocalsOK /\ Item(job[h]) = <<"slack", m>>
    <2>1. StageOK(h) /\ LocalsOK
      BY <1>1, Holding
    <2>. QED BY <1>1, <2>1 DEF StageOK, Item
  <1>9. pc'[h] = "dropRow" /\ job' = job /\ row' = row
    BY <1>4, <1>8 DEF Goto, LocalsOK
  <1>10. InHand(h, m)'
    BY <1>1, <1>2, <1>3, <1>6, <1>7, <1>9 DEF InHand
  <1>. QED BY <1>8, <1>9, <1>10 DEF On

LEMMA DropRowMessage ==
  ASSUME Sound, NEW h \in Handlers, DropRow(h), NEW m, m = job[h].item, InHand(h, m)
  PROVE  MessageClosed(m)'
  <1>1. pc[h] = "dropRow" /\ UNCHANGED <<comments, messages>>
    BY DEF DropRow, world
  <1>2. PICK i : i = row[h]
    OBVIOUS
  <1>3. ~messages[m].live /\ RowsAt(m) = {i} /\ \A k \in Made(m) : ~comments[k].live
    BY <1>1, <1>2 DEF InHand
  <1>4. rows' = [rows EXCEPT ![i].live = FALSE]
    BY <1>2 DEF DropRow
  <1>5. i \in DOMAIN rows
    BY <1>3 DEF RowsAt
  <1>6. rows[i] \in Rows
    BY <1>5 DEF Sound, Stored
  <1>7. DOMAIN rows' = DOMAIN rows /\ ~rows'[i].live /\ \A k \in DOMAIN rows : k # i => rows'[k] = rows[k]
    BY <1>4, <1>5, <1>6 DEF Rows
  <1>8. RowsAt(m)' = {}
    BY <1>3, <1>7 DEF RowsAt
  <1>9. Gone(m)'
    BY <1>1, <1>3, <1>8 DEF Gone, Made
  <1>. QED BY <1>1, <1>3, <1>9 DEF MessageClosed

LEMMA WorkMessage ==
  ASSUME Sound, OneByOne, MessagesOK, NEW h \in Handlers, Working(h), NEW m, m \in DOMAIN messages,
         messages[m].by = "person", NEW x, x = <<"slack", m>>, x = Item(job[h]), x \notin tangled'
  PROVE  MessageOK(m)'
  <1>1. /\ pc[h] # "idle" /\ inbox' = inbox /\ tangled \subseteq tangled'
        /\ \A g \in Handlers \ {h} : SameLocals(g)
    BY WorkSound, WorkOneByOne
  <1>2. On(h, x) /\ job[h].side = "slack" /\ m = job[h].item
    BY <1>1 DEF On, Item
  <1>3. Lone(x) /\ MessageOK(m)
    BY <1>1 DEF OneByOne, MessagesOK
  <1>4. InHand(h, m)
    BY <1>2, <1>3 DEF MessageOK
  <1>5. (\A e \in inbox' : Item(e) # x) /\ \A g \in Handlers \ {h} : ~On(g, x)'
    BY <1>1, <1>2, <1>3, Alone
  <1>6. \/ Comment(h) \/ Record(h) \/ Notify(h) \/ Rewrite(h) \/ Uncomment(h) \/ DropRow(h)
    <2>1. StageOK(h)
      BY <1>1, Holding
    <2>2. pc[h] \notin {"post", "map", "resync", "setExtra", "unpost"}
      BY <1>2, <2>1 DEF StageOK
    <2>3. ~Die(h)
      BY DEF Die
    <2>. QED BY <2>2, <2>3 DEF Working, Post, FallBack, MapComment, Resync, SetExtra, Unpost
  <1>7. CASE Comment(h) \/ Uncomment(h)
    <2>1. On(h, x)' /\ InHand(h, m)'
      BY <1>2, <1>4, <1>7, CommentMessage, UncommentMessage DEF On
    <2>. QED BY <1>5, <2>1, MessageNow
  <1>8. CASE Record(h) \/ Notify(h) \/ Rewrite(h) \/ DropRow(h)
    <2>1. MessageClosed(m)'
      BY <1>2, <1>4, <1>8, RecordMessage, NotifyMessage, RewriteMessage, DropRowMessage
    <2>2. pc'[h] = "idle"
      BY <1>8 DEF Record, Notify, Rewrite, DropRow, Done, Sound, LocalsOK
    <2>3. ~On(h, x)'
      BY <2>2 DEF On
    <2>. QED BY <1>5, <2>1, <2>3, MessageNow DEF MessageClosed
  <1>. QED BY <1>6, <1>7, <1>8

-----------------------------------------------------------------------------
(* What a handler does: every message *)

LEMMA ReceiveMessage ==
  ASSUME Sound, OneByOne, MessagesOK, NEW h \in Handlers, Receive(h), NEW e,
         \/ UNCHANGED handlers /\ Leaves(e) /\ (Own(Item(e)) => Ignored(e))
         \/ Leaves(e) /\ Own(Item(e)) /\ EventOK(e) /\ Taking(h, e),
         NEW m, m \in DOMAIN messages, messages[m].by = "person",
         NEW x, x = <<"slack", m>>, x = Item(e), x \notin tangled'
  PROVE  MessageOK(m)'
  <1>1. UNCHANGED <<comments, messages, rows>> /\ pc[h] = "idle"
    BY DEF Receive, world
  <1>2. e \in inbox /\ inbox' = inbox \ {e} /\ x \notin tangled
    BY DEF Leaves
  <1>3. Lone(x) /\ MessageOK(m)
    BY <1>2 DEF OneByOne, MessagesOK
  <1>4. EventOK(e) /\ Pending(e, m)
    BY <1>2, <1>3 DEF Sound, Posted, MessageOK
  <1>5. \A f \in inbox' : Item(f) # x
    BY <1>2, <1>3 DEF Lone
  <1>6. e.side = "slack" /\ e.item = m
    BY DEF Item
  <1>7. /\ Untouched(m)' = Untouched(m) /\ Kept(m)' = Kept(m) /\ Says(m)' = Says(m)
        /\ Gone(m)' = Gone(m) /\ Made(m)' = Made(m) /\ Notes(m)' = Notes(m) /\ RowsAt(m)' = RowsAt(m)
    BY <1>1 DEF Untouched, Kept, Says, Gone, Made, Notes, RowsAt
  <1>8. CASE UNCHANGED handlers /\ (Own(Item(e)) => Ignored(e))
    <2>1. \A g \in Handlers : ~On(g, x)'
      BY <1>2, <1>3, <1>8 DEF Lone, On, handlers
    <2>2. Own(Item(e))
      BY <1>6 DEF Own, Item
    <2>3. e.kind # "new" /\ RowsAt(m) = {}
      <3>1. e.kind \in {"edit", "delete"} /\ (e.kind = "edit" => e.plain)
        BY <1>4, <1>8, <2>2 DEF EventOK, Events, Pending, Ignored
      <3>. QED BY <1>6, <1>8, <2>2, <3>1 DEF Ignored
    <2>4. Kept(m)
      BY <1>4, <2>3 DEF Pending
    <2>5. Made(m) = {}
      BY <2>3, <2>4 DEF Kept
    <2>6. Says(m) /\ Gone(m)
      BY <2>3, <2>5 DEF Says, Gone
    <2>7. IF messages'[m].live THEN Kept(m)' /\ Says(m)' ELSE Gone(m)'
      BY <1>7, <2>4, <2>6
    <2>8. \A g \in Handlers \ {h} : ~On(g, x)'
      BY <2>1
    <2>9. ~On(h, x)'
      BY <2>1
    <2>. QED BY <1>5, <2>7, <2>8, <2>9, MessageNow
  <1>9. CASE Taking(h, e)
    <2>1. PICK step, i, p : /\ step \in Stages \ {"idle"} /\ Begin(h, e, step, i, p)
                            /\ \/ e.kind = "new" /\ step \in {"notice", "comment"}
                               \/ i \in RowsAt(m) /\ e.kind = "edit" /\ step = "edit"
                               \/ i \in RowsAt(m) /\ e.kind = "delete" /\ step = "uncomment"
      BY <1>6, <1>9 DEF Taking, Stages
    <2>2. /\ pc'[h] = step /\ job'[h] = e /\ row'[h] = i
          /\ \A g \in Handlers \ {h} : SameLocals(g)
      BY <2>1, LocalsBegin DEF Sound
    <2>3. \A g \in Handlers \ {h} : ~On(g, x)'
      BY <1>2, <1>3, <2>2 DEF Lone, On, SameLocals
    <2>4. On(h, x)'
      BY <2>1, <2>2 DEF On
    <2>5. CASE e.kind = "new" /\ step \in {"notice", "comment"}
      <3>1. Untouched(m) /\ messages[m].live /\ e.text = messages[m].text
        BY <1>4, <2>5 DEF Pending
      <3>2. InHand(h, m)'
        BY <1>1, <1>7, <2>2, <2>5, <3>1 DEF InHand
      <3>. QED BY <1>5, <2>3, <2>4, <3>2, MessageNow
    <2>6. CASE i \in RowsAt(m) /\ e.kind \in {"edit", "delete"} /\ step = (IF e.kind = "edit" THEN "edit" ELSE "uncomment")
      <3>1. Kept(m) /\ RowsAt(m) # {}
        BY <1>4, <2>6 DEF Pending
      <3>2. /\ Notes(m) = {} /\ RowsAt(m) = {i} /\ Made(m) = {rows[i].comment}
            /\ comments[rows[i].comment].live
        BY <2>6, <3>1 DEF Kept
      <3>3. IF e.kind = "delete" THEN ~messages[m].live
            ELSE messages[m].live /\ e.text = messages[m].text
        BY <1>4 DEF Pending
      <3>4. InHand(h, m)'
        BY <1>1, <1>7, <2>2, <2>6, <3>2, <3>3 DEF InHand
      <3>. QED BY <1>5, <2>3, <2>4, <3>4, MessageNow
    <2>. QED BY <2>1, <2>5, <2>6
  <1>. QED BY <1>8, <1>9

LEMMA WorkMessages ==
  ASSUME Sound, OneByOne, MessagesOK, NEW h \in Handlers, Working(h)
  PROVE  MessagesOK'
  <1>1. WorldGrows /\ RowsGrow /\ tangled \subseteq tangled' /\ pc[h] # "idle"
    BY WorkSound, WorkOneByOne
  <1>2. PICK y : y = Item(job[h])
    OBVIOUS
  <1>3. Aside(y) /\ Own(y)
    BY <1>1, <1>2, WorkAside, Holding
  <1>4. ASSUME NEW m \in DOMAIN messages', y = <<"slack", m>>, messages'[m].by = "person", y \notin tangled'
        PROVE  MessageOK(m)'
    <2>1. m \in DOMAIN messages /\ messages[m].by = "person"
      BY <1>3, <1>4 DEF Own
    <2>. QED BY <1>2, <1>4, <2>1, WorkMessage
  <1>. QED BY <1>1, <1>3, <1>4, MessagesBut

LEMMA ReceiveMessages ==
  ASSUME Sound, OneByOne, MessagesOK, NEW h \in Handlers, Receive(h)
  PROVE  MessagesOK'
  <1>1. UNCHANGED <<comments, messages, rows>> /\ tangled \subseteq tangled'
    BY ReceiveOneByOne DEF Receive, world
  <1>2. WorldGrows /\ RowsGrow
    BY <1>1 DEF WorldGrows, RowsGrow
  <1>3. PICK e :
           \/ UNCHANGED handlers /\ UNCHANGED <<inbox, tangled>>
           \/ UNCHANGED handlers /\ Leaves(e) /\ (Own(Item(e)) => Ignored(e))
           \/ Leaves(e) /\ Own(Item(e)) /\ EventOK(e) /\ Taking(h, e)
    BY Taken
  <1>4. PICK y : y = Item(e)
    OBVIOUS
  <1>5. CASE UNCHANGED handlers /\ UNCHANGED <<inbox, tangled>>
    BY <1>1, <1>5 DEF MessagesOK, MessageOK, Pending, InHand, Untouched, Kept, Says, Gone, Made, Notes, RowsAt,
                      Busy, On, handlers
  <1>6. CASE \/ UNCHANGED handlers /\ Leaves(e) /\ (Own(Item(e)) => Ignored(e))
             \/ Leaves(e) /\ Own(Item(e)) /\ EventOK(e) /\ Taking(h, e)
    <2>1. Aside(y)
      BY <1>4, <1>6, ReceiveAside DEF Leaves
    <2>2. ASSUME NEW m \in DOMAIN messages', y = <<"slack", m>>, messages'[m].by = "person", y \notin tangled'
          PROVE  MessageOK(m)'
      <3>1. m \in DOMAIN messages /\ messages[m].by = "person"
        BY <1>1, <2>2
      <3>. QED BY <1>4, <1>6, <2>2, <3>1, ReceiveMessage
    <2>. QED BY <1>1, <1>2, <2>1, <2>2, MessagesBut
  <1>. QED BY <1>3, <1>5, <1>6

-----------------------------------------------------------------------------
(* Messages: every step, and the theorems *)

LEMMA FreshMessage ==
  ASSUME Sound, IInv, NEW r \in 0..Len(messages), NEW t \in Texts, WriteMessage(r, t),
         NEW n, n = Len(messages) + 1
  PROVE  MessageOK(n)'
  <1>1. PICK x, e : x = <<"slack", n>> /\ e = Event(acts + 1, "slack", "new", n, t, TRUE)
    OBVIOUS
  <1>2. inbox' = inbox \cup {e} /\ UNCHANGED <<comments, rows>> /\ UNCHANGED handlers
    BY <1>1 DEF WriteMessage, Act
  <1>3. e.kind = "new" /\ e.text = t /\ e.plain /\ Item(e) = x
    BY <1>1 DEF Event, Item
  <1>4. PICK s, new : s = messages' /\ s = Append(messages, new) /\ new = Message("person", 0, r, t, None)
    BY DEF WriteMessage
  <1>5. messages \in Seq(Messages)
    BY DEF Sound, Stored
  <1>6. n \in Nat \ {0} /\ n \notin DOMAIN messages /\ DOMAIN s = DOMAIN messages \cup {n} /\ s[n] = new
        /\ \A k \in DOMAIN messages : s[k] = messages[k]
    BY ONLY n = Len(messages) + 1, <1>4, <1>5, Appended
  <1>7. new.by = "person" /\ new.text = t /\ new.live
    BY <1>4 DEF Message
  <1>8. Made(n)' = {}
    <2>1. \A c \in DOMAIN comments : comments[c].of # n
      BY <1>6 DEF IInv, Copies, OwnMessage
    <2>. QED BY <1>2, <2>1 DEF Made
  <1>9. Notes(n)' = {}
    <2>1. \A k \in DOMAIN messages : messages[k].by = "notice" => messages[k].of # n
      BY <1>6 DEF IInv, Copies, OwnMessage
    <2>. QED BY <1>4, <1>6, <1>7, <2>1 DEF Notes
  <1>10. RowsAt(n)' = {}
    <2>1. \A i \in DOMAIN rows : rows[i].ts # n
      BY <1>6 DEF Sound, Mapped, RowOK, AppsOf
    <2>. QED BY <1>2, <2>1 DEF RowsAt
  <1>11. Pending(e, n)'
    BY <1>3, <1>4, <1>6, <1>7, <1>8, <1>9, <1>10 DEF Pending, Untouched
  <1>12. ~Busy(x)
    BY <1>1, <1>6, NotYet
  <1>. QED BY <1>1, <1>2, <1>3, <1>11, <1>12, MessageReported

LEMMA AlteredMessage ==
  ASSUME Sound, MessagesOK, NEW m \in DOMAIN messages, (\E t \in Texts : EditMessage(m, t)) \/ DeleteMessage(m),
         NEW x, x = <<"slack", m>>, x \notin tangled'
  PROVE  MessageOK(m)'
  <1>1. /\ UNCHANGED <<comments, rows>> /\ messages[m].by = "person" /\ messages[m].live
        /\ Touch(x) /\ UNCHANGED handlers
    BY DEF EditMessage, DeleteMessage, Act
  <1>2. ~Busy(x) /\ x \notin tangled
    BY <1>1 DEF Touch
  <1>3. MessageOK(m)
    BY <1>1, <1>2 DEF MessagesOK
  <1>4. Kept(m)
    BY <1>1, <1>2, <1>3 DEF MessageOK
  <1>5. PICK t : \/ t \in Texts /\ EditMessage(m, t)
                 \/ DeleteMessage(m)
    OBVIOUS
  <1>6. messages[m] \in Messages
    BY DEF Sound, Stored
  <1>7. CASE t \in Texts /\ EditMessage(m, t)
    <2>1. PICK e : e = Event(acts + 1, "slack", "edit", m, t, TRUE)
      OBVIOUS
    <2>2. inbox' = inbox \cup {e} /\ messages' = [messages EXCEPT ![m].text = t]
      BY <1>7, <2>1 DEF EditMessage, Act
    <2>3. e.kind = "edit" /\ e.text = t /\ e.plain /\ Item(e) = x
      BY <2>1 DEF Event, Item
    <2>4. /\ DOMAIN messages' = DOMAIN messages /\ messages'[m].text = t /\ messages'[m].live
          /\ \A k \in DOMAIN messages : messages'[k].by = messages[k].by /\ messages'[k].of = messages[k].of
      BY <1>1, <1>6, <2>2 DEF Messages
    <2>5. Made(m)' = Made(m) /\ Notes(m)' = Notes(m) /\ RowsAt(m)' = RowsAt(m)
      BY <1>1, <2>4 DEF Made, Notes, RowsAt
    <2>6. Kept(m)'
      BY <1>1, <1>4, <2>5 DEF Kept
    <2>7. Pending(e, m)'
      BY <2>3, <2>4, <2>6 DEF Pending
    <2>. QED BY <1>1, <1>2, <2>2, <2>3, <2>7, MessageReported
  <1>8. CASE DeleteMessage(m)
    <2>1. PICK e : e = Event(acts + 1, "slack", "delete", m, messages[m].text, TRUE)
      OBVIOUS
    <2>2. inbox' = inbox \cup {e} /\ messages' = [messages EXCEPT ![m].live = FALSE]
      BY <1>8, <2>1 DEF DeleteMessage, Act
    <2>3. e.kind = "delete" /\ Item(e) = x
      BY <2>1 DEF Event, Item
    <2>4. /\ DOMAIN messages' = DOMAIN messages /\ ~messages'[m].live
          /\ \A k \in DOMAIN messages : messages'[k].by = messages[k].by /\ messages'[k].of = messages[k].of
      BY <1>1, <1>6, <2>2 DEF Messages
    <2>5. Made(m)' = Made(m) /\ Notes(m)' = Notes(m) /\ RowsAt(m)' = RowsAt(m)
      BY <1>1, <2>4 DEF Made, Notes, RowsAt
    <2>6. Kept(m)'
      BY <1>1, <1>4, <2>5 DEF Kept
    <2>7. Pending(e, m)'
      BY <2>3, <2>4, <2>6 DEF Pending
    <2>. QED BY <1>1, <1>2, <2>2, <2>3, <2>7, MessageReported
  <1>. QED BY <1>5, <1>7, <1>8

LEMMA PeopleMessages ==
  ASSUME Sound, IInv, OneByOne, MessagesOK, People
  PROVE  MessagesOK'
  <1>1. tangled \subseteq tangled'
    BY PeopleOneByOne
  <1>2. ASSUME NEW y, Aside(y), WorldGrows, UNCHANGED rows, \A m : y # <<"slack", m>> \/ y \in tangled'
        PROVE  MessagesOK'
    <2>1. RowsGrow
      BY <1>2, SameTable
    <2>. QED BY <1>1, <1>2, <2>1, MessagesBut
  <1>3. ASSUME NEW m, Aside(<<"slack", m>>), WorldGrows, UNCHANGED rows,
               <<"slack", m>> \notin tangled' => MessageOK(m)'
        PROVE  MessagesOK'
    <2>1. RowsGrow
      BY <1>3, SameTable
    <2>2. PICK y : y = <<"slack", m>>
      OBVIOUS
    <2>3. \A k : y = <<"slack", k>> => k = m
      BY <2>2
    <2>. QED BY <1>1, <1>3, <2>1, <2>2, <2>3, MessagesBut
  <1>4. ASSUME NEW p \in Discussed, NEW t \in Texts, WriteComment(p, t) PROVE MessagesOK'
    <2>1. PICK n, y : n = Len(comments) + 1 /\ y = <<"github", n>>
      OBVIOUS
    <2>2. Aside(y) /\ WorldGrows /\ UNCHANGED rows
      BY <1>4, <2>1, WriteCommentAside, WriteCommentSound DEF WriteComment, Act
    <2>. QED BY <1>2, <2>1, <2>2
  <1>5. ASSUME NEW c \in DOMAIN comments, NEW t \in Texts, EditComment(c, t) \/ DeleteComment(c)
        PROVE  MessagesOK'
    <2>1. PICK y : y = <<"github", c>>
      OBVIOUS
    <2>2. TRUE \in BOOLEAN
      OBVIOUS
    <2>3. Aside(y) /\ WorldGrows /\ UNCHANGED rows
      BY <1>5, <2>1, <2>2, AlterCommentAside, AlterCommentSound DEF EditComment, DeleteComment, Act
    <2>. QED BY <1>2, <2>1, <2>3
  <1>6. ASSUME NEW c \in DOMAIN comments, NEW t \in Texts, NEW kept \in BOOLEAN,
               MeddleComment(c, t, kept) \/ MeddleDelete(c)
        PROVE  MessagesOK'
    <2>1. PICK y : y = <<"slack", comments[c].of>>
      OBVIOUS
    <2>2. Aside(y) /\ y \in tangled' /\ WorldGrows /\ UNCHANGED rows
      BY <1>6, <2>1, MeddleCommentAside, AlterCommentSound DEF MeddleComment, MeddleDelete, Act
    <2>. QED BY <1>2, <2>2
  <1>7. ASSUME NEW r \in 0..Len(messages), NEW t \in Texts, WriteMessage(r, t) PROVE MessagesOK'
    <2>1. PICK n : n = Len(messages) + 1
      OBVIOUS
    <2>2. Aside(<<"slack", n>>) /\ MessageOK(n)' /\ WorldGrows /\ UNCHANGED rows
      BY <1>7, <2>1, WriteMessageAside, WriteMessageSound, FreshMessage DEF WriteMessage, Act
    <2>. QED BY <1>3, <2>2
  <1>8. ASSUME NEW m \in DOMAIN messages, (\E t \in Texts : EditMessage(m, t)) \/ DeleteMessage(m)
        PROVE  MessagesOK'
    <2>1. Aside(<<"slack", m>>) /\ WorldGrows /\ UNCHANGED rows
      BY <1>8, AlterMessageAside DEF EditMessage, DeleteMessage, Act
    <2>2. <<"slack", m>> \notin tangled' => MessageOK(m)'
      BY <1>8, AlteredMessage
    <2>. QED BY <1>3, <2>1, <2>2
  <1>9. ASSUME NEW m \in DOMAIN messages, MeddleMessage(m) PROVE MessagesOK'
    <2>1. PICK y : y = <<"github", messages[m].of>>
      OBVIOUS
    <2>2. Aside(y) /\ y \in tangled' /\ WorldGrows /\ UNCHANGED rows
      BY <1>9, <2>1, MeddleMessageAside DEF MeddleMessage, Act
    <2>. QED BY <1>2, <2>2
  <1>10. ASSUME NEW p \in PRs, Toggle(p) PROVE MessagesOK'
    <2>1. UNCHANGED <<comments, messages, rows, inbox, handlers, tangled>>
      BY <1>10 DEF Toggle
    <2>2. Aside(None) /\ WorldGrows
      BY <2>1, NothingAside DEF WorldGrows
    <2>3. \A m : None # <<"slack", m>> \/ None \in tangled' \/ m \notin DOMAIN messages
      <3>1. ASSUME NEW m \in DOMAIN messages PROVE None # <<"slack", m>>
        <4>1. m \in Nat
          BY DEF Sound, Stored
        <4>. QED BY <4>1, MessageSyncAssumption
      <3>. QED BY <3>1
    <2>4. RowsGrow
      BY <2>1, SameTable
    <2>. QED BY <1>1, <2>1, <2>2, <2>3, <2>4, MessagesBut
  <1>. QED BY <1>4, <1>5, <1>6, <1>7, <1>8, <1>9, <1>10, Acts

LEMMA MessagesNext ==
  ASSUME Sound, IInv, OneByOne, MessagesOK, [Next]_vars
  PROVE  MessagesOK'
  <1>1. CASE UNCHANGED vars
    <2>1. UNCHANGED <<comments, messages, rows, inbox, pc, job, row, shown, pr, sent, tangled>>
      BY <1>1 DEF vars, world, handlers
    <2>. QED BY <2>1 DEF MessagesOK, MessageOK, Pending, InHand, Untouched, Kept, Says, Gone, Made, Notes, RowsAt,
                         Busy, On
  <1>. QED BY <1>1, PeopleMessages, WorkOrNot, ReceiveMessages, WorkMessages DEF Next

LEMMA OrderInit == Init => OneByOne /\ MessagesOK
  <1>. SUFFICES ASSUME Init PROVE OneByOne /\ MessagesOK
    OBVIOUS
  <1>1. comments = <<>> /\ \A m \in DOMAIN messages : messages[m].by = "parent"
    BY DEF Init, Message
  <1>. QED BY <1>1 DEF OneByOne, MessagesOK

LEMMA MessagesSeen ==
  ASSUME Sound, MessagesOK
  PROVE  MessagesShown
  <1>. SUFFICES ASSUME NEW m \in DOMAIN messages, messages[m].by = "person", Settled(<<"slack", m>>),
                       NEW cs, cs = {c \in DOMAIN comments : comments[c].of = m /\ comments[c].live},
                       NEW notices, notices = {k \in DOMAIN messages : messages[k].by = "notice" /\ messages[k].of = m}
                PROVE  IF messages[m].live
                       THEN \/ notices = {} /\ \E c \in cs : cs = {c} /\ comments[c].text = messages[m].text
                            \/ cs = {} /\ Cardinality(notices) = 1
                       ELSE cs = {}
    BY DEF MessagesShown
  <1>1. IF messages[m].live THEN Kept(m) /\ Says(m) ELSE Gone(m)
    BY DEF MessagesOK, MessageOK, Settled
  <1>2. notices = Notes(m) /\ cs \subseteq Made(m) /\ \A c \in Made(m) : comments[c].live => c \in cs
    BY DEF Notes, Made
  <1>3. CASE messages[m].live
    <2>1. CASE Made(m) = {} /\ \E k \in Notes(m) : Notes(m) = {k}
      BY <1>2, <1>3, <2>1, FS_Singleton
    <2>2. CASE Notes(m) = {} /\ \E c \in Made(m) : Made(m) = {c} /\ comments[c].live
      BY <1>1, <1>2, <1>3, <2>2 DEF Says
    <2>. QED BY <1>1, <1>3, <2>1, <2>2 DEF Kept
  <1>4. CASE ~messages[m].live
    <2>1. \A c \in Made(m) : ~comments[c].live
      BY <1>1, <1>4 DEF Gone
    <2>. QED BY <1>4, <2>1 DEF Made
  <1>. QED BY <1>3, <1>4

LEMMA MessagesInvariant == Spec => [](IInv /\ Sound /\ OneByOne /\ MessagesOK)
  <1>1. Init => IInv /\ Sound /\ OneByOne /\ MessagesOK
    BY InitInvariant, SoundInit, OrderInit
  <1>2. IInv /\ Sound /\ OneByOne /\ MessagesOK /\ [Next]_vars => (IInv /\ Sound /\ OneByOne /\ MessagesOK)'
    BY StepInvariant, SoundNext, OneByOneNext, MessagesNext
  <1>. QED BY <1>1, <1>2, PTL DEF Spec

\* Every comment, message, row, event and handler has its shape.
THEOREM MessagesTyped == Spec => []TypeOK
  <1>1. IInv /\ Sound => TypeOK
    BY SoundTyped
  <1>. QED BY <1>1, MessagesInvariant, PTL

\* A person's message in a pull request's channel is on GitHub, as one comment with its
\* text, or one note in its thread says why not; and one deleted is not on GitHub: once
\* nothing about it is under way, unless its handlers ran into each other
\* or failed.
THEOREM SlackReachesGitHub == Spec => []MessagesShown
  <1>1. Sound /\ MessagesOK => MessagesShown
    BY MessagesSeen
  <1>. QED BY <1>1, MessagesInvariant, PTL

-----------------------------------------------------------------------------
(* A comment that a step is not about *)

\* A message keeps its thread, so what is good stays good.
LEMMA GoodStill ==
  ASSUME WorldGrows, NEW c, NEW s \in Seq(AppsOf(c)), NEW p, Good(s, p)
  PROVE  Good(s, p)'
  <1>1. \A k \in 1..Len(s) : messages'[s[k]].thread = messages[s[k]].thread
    BY DEF AppsOf, WorldGrows
  <1>. QED BY <1>1 DEF Good, Ascending, Under

LEMMA GoodPrefix ==
  ASSUME NEW S, NEW s \in Seq(S), NEW q \in Seq(S), Len(s) <= Len(q), \A j \in 1..Len(s) : s[j] = q[j],
         NEW p, Good(q, p)
  PROVE  Good(s, p)
  <1>1. Len(s) \in Nat /\ Len(q) \in Nat
    OBVIOUS
  <1>2. Ascending(s)
    BY <1>1 DEF Good, Ascending
  <1>3. Under(s, p)
    <2>1. ASSUME NEW k \in 1..Len(s)
          PROVE  /\ messages[s[k]].thread \in {p, IF k > 1 THEN s[1] ELSE p}
                 /\ k > 1 => messages[s[k]].thread # 0
      <3>1. k \in 1..Len(q) /\ s[k] = q[k] /\ s[1] = q[1]
        BY <1>1
      <3>. QED BY <3>1 DEF Good, Under
    <2>. QED BY <2>1 DEF Under
  <1>. QED BY <1>2, <1>3 DEF Good

LEMMA GoodAppend ==
  ASSUME WorldGrows, NEW c, NEW s \in Seq(AppsOf(c)), NEW p, Good(s, p),
         NEW m \in Nat, \A k \in DOMAIN messages : k \in Nat /\ k < m,
         NEW r, messages'[m].thread = r, r \in {p, IF s # <<>> THEN s[1] ELSE p}, s # <<>> => r # 0,
         NEW z, z = Append(s, m)
  PROVE  Good(z, p)'
  <1>1. Good(s, p)'
    BY GoodStill
  <1>2. PICK n : n = Len(s) /\ n \in Nat
    OBVIOUS
  <1>3. Len(z) = n + 1 /\ z[n + 1] = m /\ \A k \in 1..n : z[k] = s[k]
    BY <1>2
  <1>4. \A k \in 1..n : s[k] \in Nat /\ s[k] < m
    BY <1>2 DEF AppsOf
  <1>5. Ascending(z)
    BY <1>1, <1>2, <1>3, <1>4 DEF Good, Ascending
  <1>6. Under(z, p)'
    <2>1. ASSUME NEW k \in 1..Len(z)
          PROVE  /\ messages'[z[k]].thread \in {p, IF k > 1 THEN z[1] ELSE p}
                 /\ k > 1 => messages'[z[k]].thread # 0
      <3>1. CASE k \in 1..n
        <4>1. z[k] = s[k] /\ z[1] = s[1]
          BY <1>2, <1>3, <3>1
        <4>. QED BY <1>1, <1>2, <3>1, <4>1 DEF Good, Under
      <3>2. CASE k = n + 1
        <4>1. k > 1 => s # <<>> /\ z[1] = s[1]
          BY <1>2, <1>3, <3>2
        <4>2. k = 1 => s = <<>>
          BY <1>2, <3>2
        <4>3. k > 1 \/ k = 1
          BY <1>2, <3>2
        <4>. QED BY <1>2, <1>3, <3>2, <4>1, <4>2, <4>3
      <3>. QED BY <1>2, <1>3, <2>1, <3>1, <3>2
    <2>. QED BY <2>1 DEF Under
  <1>. QED BY <1>5, <1>6 DEF Good, Ascending

LEMMA OwnListed ==
  ASSUME Sound, NEW c, comments[c].of = 0, NEW i \in RowsFor(c)
  PROVE  /\ i \in DOMAIN rows /\ rows[i].origin = "github" /\ rows[i].comment = c
         /\ Listed(i) \in Seq(AppsOf(c)) /\ Listed(i) # <<>> /\ Listed(i)[1] = rows[i].ts
         /\ Len(Listed(i)) = Len(rows[i].extra) + 1
  <1>1. i \in DOMAIN rows /\ rows[i].comment = c
    BY DEF RowsFor
  <1>2. rows[i].origin = "github"
    <2>1. RowOK(i)
      BY <1>1 DEF Sound, Mapped
    <2>2. rows[i].origin # "github" => rows[i].ts = 0 /\ rows[i].ts \in DOMAIN messages
      BY <1>1, <2>1 DEF RowOK
    <2>. QED BY <2>2 DEF Sound, Stored
  <1>. QED BY <1>1, <1>2, RowListed

\* What a handler holds, by the names of its values.
LEMMA HoldsWriting ==
  ASSUME NEW h, NEW c, NEW s, NEW p, NEW t, NEW n, sent'[h] = s, comments'[c].pr = p,
         comments'[c].text = t, n = Len(s), pc'[h] \in {"post", "map"},
         comments'[c].live, job'[h].text = t,
         RowsFor(c)' = {}, LiveFor(c)' = Elements(s), Good(s, p)', Telling(s, t, n)'
  PROVE  CommentInHand(h, c)'
  <1>1. Good(sent[h], comments[c].pr)'
    BY DEF Good, Ascending, Under
  <1>2. Telling(sent[h], comments[c].text, Len(sent[h]))'
    BY DEF Telling
  <1>3. LiveFor(c)' = Elements(sent[h])'
    BY DEF Elements
  <1>. QED BY <1>1, <1>2, <1>3 DEF CommentInHand

LEMMA HoldsRewriting ==
  ASSUME NEW h, NEW c, NEW i, NEW s, NEW q, NEW p, NEW t,
         sent'[h] = s, shown'[h] = q, row'[h] = i, comments'[c].pr = p, comments'[c].text = t,
         pc'[h] \in {"resync", "setExtra"}, comments'[c].live, job'[h].text = t,
         RowsFor(c)' = {i}, rows'[i].ts = q[1], Good(q, p)', Good(s, p)',
         \A j \in 1..Least(Len(s), Len(q)) : s[j] = q[j],
         LiveFor(c)' = First(s, Least(Len(s), Len(Parts[t]))) \cup Rest(q, Len(s)),
         Telling(s, t, Least(Len(s), Len(Parts[t])))'
  PROVE  CommentInHand(h, c)'
  <1>1. Good(sent[h], comments[c].pr)' /\ Good(shown[h], comments[c].pr)'
    BY DEF Good, Ascending, Under
  <1>2. Telling(sent[h], comments[c].text, Least(Len(sent[h]), Len(Parts[comments[c].text])))'
    BY DEF Telling
  <1>3. /\ RowsFor(c)' = {row'[h]} /\ rows'[row'[h]].ts = shown'[h][1]
        /\ \A j \in 1..Least(Len(sent'[h]), Len(shown'[h])) : sent'[h][j] = shown'[h][j]
        /\ LiveFor(c)' = First(sent[h], Least(Len(sent[h]), Len(Parts[comments[c].text])))'
                         \cup Rest(shown[h], Len(sent[h]))'
    BY DEF First, Rest
  <1>. QED BY <1>1, <1>2, <1>3 DEF CommentInHand

LEMMA CommentStill ==
  ASSUME Sound, WorldGrows, RowsGrow, NEW c \in DOMAIN comments, comments[c].of = 0,
         NEW x, x = <<"github", c>>, StillItem(x), StillComment(c), CommentOK(c)
  PROVE  CommentOK(c)'
  <1>1. /\ comments'[c] = comments[c] /\ AppsOf(c)' = AppsOf(c) /\ RowsFor(c)' = RowsFor(c)
        /\ \A m \in AppsOf(c) : messages'[m] = messages[m]
        /\ \A i \in RowsFor(c) : rows'[i] = rows[i]
    BY DEF StillComment
  <1>2. LiveFor(c)' = LiveFor(c)
    BY <1>1 DEF LiveFor
  <1>3. \A i \in RowsFor(c) : Listed(i)' = Listed(i)
    BY <1>1 DEF Listed
  <1>4. PICK p : p = comments[c].pr
    OBVIOUS
  <1>5. \A s \in Seq(AppsOf(c)) : Good(s, p) => Good(s, p)'
    BY GoodStill
  <1>6. \A i \in RowsFor(c) : Good(Listed(i), p) => Good(Listed(i), p)'
    <2>1. ASSUME NEW i \in RowsFor(c), Good(Listed(i), p) PROVE Good(Listed(i), p)'
      <3>1. PICK s : s = Listed(i)
        OBVIOUS
      <3>2. s \in Seq(AppsOf(c)) /\ Good(s, p)
        BY <2>1, <3>1, OwnListed
      <3>3. Good(s, p)' /\ s = Listed(i)'
        BY <1>3, <1>5, <3>1, <3>2
      <3>. QED BY <3>3 DEF Good, Ascending, Under
    <2>. QED BY <2>1
  <1>7. Filed(c) => Filed(c)'
    <2>1. ASSUME NEW i \in RowsFor(c), RowsFor(c) = {i}, LiveFor(c) = Elements(Listed(i)), Good(Listed(i), p)
          PROVE  Filed(c)'
      <3>1. Good(Listed(i), comments[c].pr)'
        BY <1>1, <1>4, <1>6, <2>1 DEF Good, Ascending, Under
      <3>2. (LiveFor(c) = Elements(Listed(i)))'
        BY <1>2, <1>3, <2>1 DEF Elements
      <3>. QED BY <1>1, <2>1, <3>1, <3>2 DEF Filed
    <2>. QED BY <1>4, <2>1 DEF Filed
  <1>8. \A t : \A s \in Seq(AppsOf(c)), n \in Nat : n <= Len(s) /\ Telling(s, t, n) => Telling(s, t, n)'
    <2>1. ASSUME NEW t, NEW s \in Seq(AppsOf(c)), NEW n \in Nat, n <= Len(s), Telling(s, t, n)
          PROVE  Telling(s, t, n)'
      <3>1. \A k \in 1..n : s[k] \in AppsOf(c)
        BY <2>1
      <3>. QED BY <1>1, <2>1, <3>1 DEF Telling
    <2>. QED BY <2>1
  <1>9. Tells(c) => Tells(c)'
    <2>1. PICK t : t = comments[c].text
      OBVIOUS
    <2>2. ASSUME NEW i \in RowsFor(c), Tells(c)
          PROVE  Len(Listed(i))' = Len(Parts[t]) /\ Telling(Listed(i), t, Len(Parts[t]))'
      <3>1. PICK s, n : s = Listed(i) /\ n = Len(Parts[t])
        OBVIOUS
      <3>2. s \in Seq(AppsOf(c)) /\ Len(s) = n /\ Telling(s, t, n)
        BY <2>1, <2>2, <3>1, OwnListed DEF Tells
      <3>3. Telling(s, t, n)'
        BY <1>8, <3>2
      <3>4. s = Listed(i)'
        BY <1>3, <3>1
      <3>. QED BY <3>1, <3>2, <3>3, <3>4 DEF Telling
    <2>3. ASSUME Tells(c), NEW i \in RowsFor(c)'
          PROVE  Len(Listed(i))' = Len(Parts[t]) /\ Telling(Listed(i), t, Len(Parts[t]))'
      BY <1>1, <2>2, <2>3
    <2>. QED BY <1>1, <2>1, <2>3 DEF Tells
  <1>10. Bare(c) => Bare(c)'
    BY <1>1, <1>2 DEF Bare
  <1>11. ASSUME NEW e \in inbox', Item(e) = x PROVE PendingComment(e, c)'
    <2>1. PendingComment(e, c)
      BY <1>11 DEF StillItem, CommentOK
    <2>. QED BY <1>1, <1>7, <1>10, <2>1 DEF PendingComment
  <1>12. ASSUME NEW h \in Handlers, On(h, x)' PROVE CommentInHand(h, c)'
    <2>1. On(h, x) /\ SameLocals(h)
      BY <1>12 DEF StillItem
    <2>2. CommentInHand(h, c) /\ pc[h] # "idle" /\ job[h].item = c
      BY <2>1 DEF CommentOK, On, Item
    <2>3. /\ pc'[h] = pc[h] /\ job'[h] = job[h] /\ row'[h] = row[h] /\ sent'[h] = sent[h]
          /\ shown'[h] = shown[h]
      BY <2>1 DEF SameLocals
    <2>4. StageOK(h) /\ EventOK(job[h]) /\ job[h].side = "github"
      BY <2>1, <2>2, Holding DEF On, Item
    <2>5. PICK s, q, t, n, l, k : /\ s = sent[h] /\ q = shown[h] /\ t = comments[c].text /\ n = Len(s)
                                  /\ l = Len(q) /\ k = Least(n, Len(Parts[t]))
      OBVIOUS
    <2>6. pc[h] \in {"post", "map", "resync", "setExtra"} =>
            s \in Seq(AppsOf(c)) /\ n \in Nat /\ k \in Nat /\ k <= n
      <3>1. pc[h] \in {"post", "map", "resync", "setExtra"} => s \in Seq(AppsOf(c)) /\ job[h].plain
        BY <2>2, <2>4, <2>5 DEF StageOK
      <3>2. pc[h] \in {"post", "map", "resync", "setExtra"} => job[h].text = t
        BY <2>2, <2>5 DEF CommentInHand
      <3>3. job[h].plain => Len(Parts[job[h].text]) \in Nat
        BY <2>2, Holding
      <3>. QED BY <2>5, <3>1, <3>2, <3>3 DEF Least
    <2>7. pc[h] \in {"resync", "setExtra"} => q \in Seq(AppsOf(c))
      BY <2>2, <2>4, <2>5 DEF StageOK, FoundGitHub
    <2>8. CASE pc[h] \in {"post", "map"}
      <3>1. Good(s, p) /\ Telling(s, t, n) /\ RowsFor(c) = {} /\ LiveFor(c) = Elements(s)
        BY <1>4, <2>2, <2>5, <2>8 DEF CommentInHand
      <3>2. Good(s, p)' /\ Telling(s, t, n)'
        BY <1>5, <1>8, <2>5, <2>6, <2>8, <3>1
      <3>3. comments[c].live /\ job[h].text = t
        BY <2>2, <2>5, <2>8 DEF CommentInHand
      <3>4. /\ sent'[h] = s /\ comments'[c].pr = p /\ comments'[c].text = t /\ pc'[h] \in {"post", "map"}
            /\ comments'[c].live /\ job'[h].text = t /\ RowsFor(c)' = {} /\ LiveFor(c)' = Elements(s)
        BY <1>1, <1>2, <1>4, <2>3, <2>5, <2>8, <3>1, <3>3
      <3>5. n = Len(s)
        BY <2>5
      <3>. QED BY <3>2, <3>4, <3>5, HoldsWriting
    <2>9. CASE pc[h] \in {"resync", "setExtra"}
      <3>1. Good(s, p) /\ Good(q, p) /\ Telling(s, t, k) /\ RowsFor(c) = {row[h]} /\ rows[row[h]].ts = q[1]
        BY <1>4, <2>2, <2>5, <2>9 DEF CommentInHand
      <3>2. Good(s, p)' /\ Good(q, p)' /\ Telling(s, t, k)'
        BY <1>5, <1>8, <2>5, <2>6, <2>7, <2>9, <3>1
      <3>3. rows'[row[h]].ts = q[1]
        BY <1>1, <3>1
      <3>4. /\ comments[c].live /\ job[h].text = t
            /\ \A j \in 1..Least(n, l) : s[j] = q[j]
            /\ LiveFor(c) = First(s, k) \cup Rest(q, n)
        BY <2>2, <2>5, <2>9 DEF CommentInHand
      <3>5. PICK i, parts : i = row[h] /\ parts = Len(Parts[t])
        OBVIOUS
      <3>6. /\ sent'[h] = s /\ shown'[h] = q /\ row'[h] = i /\ comments'[c].pr = p /\ comments'[c].text = t
            /\ pc'[h] \in {"resync", "setExtra"} /\ comments'[c].live /\ job'[h].text = t
            /\ RowsFor(c)' = {i} /\ rows'[i].ts = q[1]
            /\ LiveFor(c)' = First(s, k) \cup Rest(q, n)
        BY <1>1, <1>2, <1>4, <2>3, <2>5, <2>9, <3>1, <3>3, <3>4, <3>5
      <3>7. n = Len(s) /\ l = Len(q) /\ k = Least(Len(s), Len(Parts[t]))
        BY <2>5, <3>5
      <3>8. \A j \in 1..Least(Len(s), Len(q)) : s[j] = q[j]
        BY <3>4, <3>7
      <3>9. LiveFor(c)' = First(s, Least(Len(s), Len(Parts[t]))) \cup Rest(q, Len(s))
        BY <3>6, <3>7
      <3>10. Telling(s, t, Least(Len(s), Len(Parts[t])))'
        BY <3>2, <3>7
      <3>. QED BY ONLY <3>2, <3>6, <3>8, <3>9, <3>10, HoldsRewriting
    <2>10. CASE pc[h] \notin {"post", "map", "resync", "setExtra"}
      BY <1>1, <1>2, <2>2, <2>3, <2>10 DEF CommentInHand
    <2>. QED BY <2>8, <2>9, <2>10
  <1>13. Busy(x)' <=> Busy(x)
    BY DEF StillItem, Busy, On, SameLocals
  <1>14. ~Busy(x)' => IF comments'[c].live THEN Filed(c)' /\ Tells(c)' ELSE Bare(c)'
    BY <1>1, <1>7, <1>9, <1>10, <1>13 DEF CommentOK
  <1>15. (\A e \in inbox' : Item(e) = x => PendingComment(e, c)')
         /\ (\A h \in Handlers : On(h, x)' => CommentInHand(h, c)')
    BY <1>11, <1>12
  <1>. QED BY <1>14, <1>15 DEF CommentOK, On, Busy

-----------------------------------------------------------------------------
(* What a step makes of a comment *)

LEMMA CommentsBut ==
  ASSUME Sound, WorldGrows, RowsGrow, CommentsOK, tangled \subseteq tangled', NEW y, Aside(y),
         \A c \in DOMAIN comments' : y = <<"github", c>> /\ comments'[c].of = 0 /\ y \notin tangled'
           => CommentOK(c)'
  PROVE  CommentsOK'
  <1>1. ASSUME NEW c \in DOMAIN comments', comments'[c].of = 0, <<"github", c>> \notin tangled'
        PROVE  CommentOK(c)'
    <2>1. CASE y = <<"github", c>>
      BY <1>1, <2>1
    <2>2. CASE y # <<"github", c>>
      <3>1. c \in DOMAIN comments
        BY <1>1, <2>2 DEF Aside
      <3>2. comments[c].of = 0 /\ <<"github", c>> \notin tangled
        BY <1>1, <3>1 DEF WorldGrows
      <3>3. PICK x : x = <<"github", c>>
        OBVIOUS
      <3>4. StillItem(x) /\ StillComment(c) /\ CommentOK(c)
        BY <2>2, <3>1, <3>2, <3>3 DEF Aside, CommentsOK
      <3>. QED BY <3>1, <3>2, <3>3, <3>4, CommentStill
    <2>. QED BY <2>1, <2>2
  <1>. QED BY <1>1 DEF CommentsOK

\* How a comment is left when nothing is to be done about it.
CommentClosed(c) == IF comments[c].live THEN Filed(c) /\ Tells(c) ELSE Bare(c)

LEMMA CommentNow ==
  ASSUME NEW c, NEW h \in Handlers, NEW x, x = <<"github", c>>,
         \A e \in inbox' : Item(e) # x, \A g \in Handlers \ {h} : ~On(g, x)',
         On(h, x)' => CommentInHand(h, c)',
         ~On(h, x)' => CommentClosed(c)'
  PROVE  CommentOK(c)'
  <1>1. \A g \in Handlers : On(g, x)' => CommentInHand(g, c)'
    OBVIOUS
  <1>2. ~Busy(x)' => ~On(h, x)'
    BY DEF Busy, On
  <1>. QED BY <1>1, <1>2 DEF CommentOK, CommentClosed, On, Busy

LEMMA CommentReported ==
  ASSUME NEW c, NEW x, x = <<"github", c>>, NEW e, Item(e) = x, inbox' = inbox \cup {e},
         UNCHANGED handlers, ~Busy(x), PendingComment(e, c)'
  PROVE  CommentOK(c)'
  <1>1. \A g \in Handlers : ~On(g, x)'
    BY DEF Busy, On, handlers
  <1>2. \A f \in inbox' : Item(f) = x => f = e
    BY DEF Busy
  <1>3. Busy(x)'
    BY DEF Busy
  <1>4. \A f \in inbox' : Item(f) = x => PendingComment(f, c)'
    BY <1>2
  <1>. QED BY <1>1, <1>3, <1>4 DEF CommentOK, On, Busy

\* One message more.
LEMMA TellingNext ==
  ASSUME NEW S, NEW s \in Seq(S), NEW n, n = Len(s), NEW t, Telling(s, t, n),
         \A j \in 1..n : messages'[s[j]].part = messages[s[j]].part,
         NEW m, messages'[m].part = Parts[t][n + 1], NEW z, z = Append(s, m)
  PROVE  Telling(z, t, n + 1)'
  <1>1. n \in Nat /\ z[n + 1] = m /\ \A j \in 1..n : z[j] = s[j]
    OBVIOUS
  <1>2. ASSUME NEW k \in 1..(n + 1) PROVE messages'[z[k]].part = Parts[t][k]
    <2>1. CASE k = n + 1
      BY <1>1, <2>1
    <2>2. CASE k \in 1..n
      BY <1>1, <2>2 DEF Telling
    <2>. QED BY <1>1, <2>1, <2>2
  <1>. QED BY <1>2 DEF Telling

LEMMA ElementsNext ==
  ASSUME NEW S, NEW s \in Seq(S), NEW m, NEW z, z = Append(s, m)
  PROVE  Elements(z) = Elements(s) \cup {m}
  <1>1. PICK n : n = Len(s) /\ n \in Nat
    OBVIOUS
  <1>2. Len(z) = n + 1 /\ z[n + 1] = m /\ \A j \in 1..n : z[j] = s[j]
    BY <1>1
  <1>3. 1..(n + 1) = (1..n) \cup {n + 1}
    BY <1>1
  <1>. QED BY <1>1, <1>2, <1>3 DEF Elements

\* A message posted for a comment.
LEMMA SaidFor ==
  ASSUME Sound, NEW c, NEW r, NEW part, Say("app", c, r, part), NEW m, m = Len(messages) + 1
  PROVE  /\ m \in Nat \ {0} /\ DOMAIN messages' = DOMAIN messages \cup {m}
         /\ \A k \in DOMAIN messages : k \in Nat /\ k < m /\ messages'[k] = messages[k]
         /\ messages'[m].thread = r /\ messages'[m].part = part /\ messages'[m].live
         /\ LiveFor(c)' = LiveFor(c) \cup {m}
  <1>1. PICK new, w : new = Message("app", c, r, None, part) /\ w = messages'
    OBVIOUS
  <1>2. w = Append(messages, new) /\ messages \in Seq(Messages)
    BY <1>1 DEF Sound, Stored, Say
  <1>3. m \in Nat \ {0} /\ m \notin DOMAIN messages /\ DOMAIN w = DOMAIN messages \cup {m} /\ w[m] = new
        /\ \A k \in DOMAIN messages : w[k] = messages[k]
    BY ONLY <1>2, m = Len(messages) + 1, Appended
  <1>4. \A k \in DOMAIN messages : k \in Nat /\ k < m
    BY <1>2
  <1>5. new.by = "app" /\ new.of = c /\ new.thread = r /\ new.part = part /\ new.live
    BY <1>1 DEF Message
  <1>6. LiveFor(c)' = LiveFor(c) \cup {m}
    <2>1. /\ DOMAIN messages' = DOMAIN messages \cup {m} /\ \A k \in DOMAIN messages : messages'[k] = messages[k]
          /\ messages'[m].by = "app" /\ messages'[m].of = c /\ messages'[m].live
      BY <1>1, <1>3, <1>5
    <2>2. \A k \in LiveFor(c)' : k \in LiveFor(c) \/ k = m
      BY <2>1 DEF LiveFor, AppsOf
    <2>3. \A k : k \in LiveFor(c) \/ k = m => k \in LiveFor(c)'
      BY <2>1 DEF LiveFor, AppsOf
    <2>. QED BY <2>2, <2>3
  <1>. QED BY <1>1, <1>3, <1>4, <1>5, <1>6

LEMMA PostComment ==
  ASSUME Sound, WorldGrows, NEW h \in Handlers, Post(h), NEW c, c = job[h].item, CommentInHand(h, c)
  PROVE  On(h, <<"github", c>>)' /\ CommentInHand(h, c)'
  <1>1. pc[h] = "post" /\ UNCHANGED <<comments, rows>>
    BY DEF Post
  <1>2. StageOK(h) /\ Own(Item(job[h])) /\ EventOK(job[h]) /\ LocalsOK
    BY <1>1, Holding
  <1>3. PICK s, n, m, z, t, p : /\ s = sent[h] /\ n = Len(s) /\ m = Len(messages) + 1 /\ z = Append(s, m)
                                /\ t = comments[c].text /\ p = comments[c].pr
    OBVIOUS
  <1>4. PICK r : r = Reply(h)
    OBVIOUS
  <1>5. /\ comments[c].live /\ job[h].text = t /\ RowsFor(c) = {} /\ LiveFor(c) = Elements(s)
        /\ Good(s, p) /\ Telling(s, t, n)
    BY <1>1, <1>3 DEF CommentInHand
  <1>6. job[h].side = "github" /\ pr[h] = p /\ s \in Seq(AppsOf(c)) /\ n \in Nat
    BY <1>1, <1>2, <1>3 DEF StageOK
  <1>7. Say("app", c, r, Parts[t][n + 1])
    BY <1>3, <1>4, <1>5 DEF Post
  <1>8. /\ m \in Nat \ {0} /\ \A k \in DOMAIN messages : k \in Nat /\ k < m /\ messages'[k] = messages[k]
        /\ messages'[m].thread = r /\ messages'[m].part = Parts[t][n + 1] /\ messages'[m].live
        /\ LiveFor(c)' = LiveFor(c) \cup {m}
    <2>1. PICK part : part = Parts[t][n + 1]
      OBVIOUS
    <2>2. Say("app", c, r, part) /\ m = Len(messages) + 1
      BY <1>3, <1>7, <2>1
    <2>3. /\ m \in Nat \ {0} /\ \A k \in DOMAIN messages : k \in Nat /\ k < m /\ messages'[k] = messages[k]
          /\ messages'[m].thread = r /\ messages'[m].part = part /\ messages'[m].live
          /\ LiveFor(c)' = LiveFor(c) \cup {m}
      BY ONLY Sound, <2>2, SaidFor
    <2>. QED BY <2>1, <2>3
  <1>9. r \in {p, IF s # <<>> THEN s[1] ELSE p} /\ (s # <<>> => r # 0)
    <2>1. s # <<>> => s[1] \in DOMAIN messages
      BY <1>6 DEF AppsOf
    <2>2. s # <<>> => s[1] # 0
      BY <2>1 DEF Sound, Stored
    <2>3. r = IF p # 0 THEN p ELSE IF s = <<>> THEN 0 ELSE s[1]
      BY <1>3, <1>4, <1>6 DEF Reply
    <2>. QED BY <2>2, <2>3
  <1>10. Good(z, p)'
    BY <1>3, <1>5, <1>6, <1>8, <1>9, GoodAppend
  <1>11. Telling(z, t, n + 1)'
    <2>1. \A j \in 1..n : messages'[s[j]].part = messages[s[j]].part
      BY <1>3, <1>6, <1>8 DEF AppsOf
    <2>. QED BY <1>3, <1>5, <1>6, <1>8, <2>1, TellingNext
  <1>12. LiveFor(c)' = Elements(z) /\ Len(z) = n + 1
    <2>1. Elements(z) = Elements(s) \cup {m}
      BY <1>3, <1>6, ElementsNext
    <2>. QED BY <1>3, <1>5, <1>6, <1>8, <2>1
  <1>13. RowsFor(c)' = {}
    BY <1>1, <1>5 DEF RowsFor
  <1>14. pc'[h] \in {"post", "map"} /\ job' = job /\ sent'[h] = z
    <2>1. PICK step : step \in {"post", "map"} /\ step = IF n + 1 = Len(Parts[t]) THEN "map" ELSE "post"
      OBVIOUS
    <2>2. Goto(h, step) /\ sent' = [sent EXCEPT ![h] = z] /\ step \in Stages
      BY <1>3, <1>5, <2>1 DEF Post, Stages
    <2>. QED BY <1>2, <2>1, <2>2, LocalsGoto
  <1>15. comments'[c].pr = p /\ comments'[c].text = t /\ comments'[c].live /\ job'[h].text = t
    BY <1>1, <1>3, <1>5, <1>14
  <1>16. CommentInHand(h, c)'
    BY <1>10, <1>11, <1>12, <1>13, <1>14, <1>15, HoldsWriting
  <1>. QED BY <1>6, <1>14, <1>16 DEF On, Item

LEMMA FallBackComment ==
  ASSUME Sound, NEW h \in Handlers, FallBack(h), NEW c, c = job[h].item, CommentInHand(h, c),
         Item(job[h]) \notin tangled'
  PROVE  On(h, <<"github", c>>)' /\ CommentInHand(h, c)'
  <1>1. pc[h] = "post" /\ UNCHANGED <<comments, messages, rows, pc, job>>
    BY DEF FallBack, world
  <1>2. sent[h] = <<>>
    BY DEF FallBack
  <1>3. sent'[h] = <<>>
    BY DEF FallBack, Sound, LocalsOK
  <1>4. CommentInHand(h, c)'
    <2>1. PICK s, t, p, n : s = sent[h] /\ t = comments[c].text /\ p = comments[c].pr /\ n = Len(s)
      OBVIOUS
    <2>2. /\ comments[c].live /\ job[h].text = t /\ RowsFor(c) = {} /\ LiveFor(c) = Elements(s)
          /\ Good(s, p) /\ Telling(s, t, n)
      BY <1>1, <2>1 DEF CommentInHand
    <2>3. Good(s, p)' /\ Telling(s, t, n)'
      BY <1>1, <2>2 DEF Good, Ascending, Under, Telling
    <2>4. RowsFor(c)' = {} /\ LiveFor(c)' = Elements(s)
      BY <1>1, <2>2 DEF RowsFor, LiveFor, AppsOf
    <2>5. /\ sent'[h] = s /\ comments'[c].pr = p /\ comments'[c].text = t /\ pc'[h] \in {"post", "map"}
          /\ comments'[c].live /\ job'[h].text = t /\ n = Len(s)
      BY <1>1, <1>2, <1>3, <2>1, <2>2
    <2>. QED BY <2>3, <2>4, <2>5, HoldsWriting
  <1>5. StageOK(h)
    BY <1>1, Holding
  <1>. QED BY <1>1, <1>4, <1>5 DEF On, Item, StageOK

LEMMA ClosedShown ==
  ASSUME NEW c, NEW i, NEW s, NEW p, NEW t, NEW n, comments'[c].live, comments'[c].text = t,
         comments'[c].pr = p, n = Len(Parts[t]), n = Len(s), RowsFor(c)' = {i}, s = Listed(i)',
         LiveFor(c)' = Elements(s), Good(s, p)', Telling(s, t, n)'
  PROVE  CommentClosed(c)'
  <1>1. Good(Listed(i), comments[c].pr)'
    BY DEF Good, Ascending, Under
  <1>2. Telling(Listed(i), t, n)' /\ Len(Listed(i))' = n
    BY DEF Telling
  <1>3. LiveFor(c)' = Elements(Listed(i))'
    BY DEF Elements
  <1>4. Filed(c)'
    BY <1>1, <1>3 DEF Filed
  <1>5. Tells(c)'
    <2>1. ASSUME NEW k \in RowsFor(c)'
          PROVE  Len(Listed(k))' = Len(Parts[comments'[c].text])
                 /\ Telling(Listed(k), comments[c].text, Len(Parts[comments[c].text]))'
      <3>1. k = i
        BY <2>1
      <3>. QED BY <1>2, <3>1 DEF Telling
    <2>. QED BY <2>1 DEF Tells
  <1>. QED BY <1>4, <1>5 DEF CommentClosed

LEMMA FirstAndRest ==
  ASSUME NEW S, NEW s \in Seq(S), s # <<>>
  PROVE  <<s[1]>> \o Tail(s) = s
BY HeadTailProperties

LEMMA MapCommentComment ==
  ASSUME Sound, NEW h \in Handlers, MapComment(h), NEW c, c = job[h].item, CommentInHand(h, c)
  PROVE  CommentClosed(c)'
  <1>1. pc[h] = "map" /\ UNCHANGED <<comments, messages>>
    BY DEF MapComment, world
  <1>2. StageOK(h) /\ EventOK(job[h])
    BY <1>1, Holding
  <1>3. PICK s, n, t, p, i : /\ s = sent[h] /\ n = Len(s) /\ t = comments[c].text /\ p = comments[c].pr
                             /\ i = Len(rows) + 1
    OBVIOUS
  <1>4. /\ comments[c].live /\ job[h].text = t /\ RowsFor(c) = {} /\ LiveFor(c) = Elements(s)
        /\ Good(s, p) /\ Telling(s, t, n)
    BY <1>1, <1>3 DEF CommentInHand
  <1>5. pr[h] = p /\ s \in Seq(AppsOf(c)) /\ n = Len(Parts[t]) /\ n \in Nat \ {0}
    <2>1. n = Len(Parts[t]) /\ job[h].plain
      BY <1>1, <1>2, <1>3, <1>4 DEF StageOK
    <2>2. Len(Parts[job[h].text]) \in Nat \ {0}
      BY <1>1, <2>1, Holding
    <2>. QED BY <1>1, <1>2, <1>3, <1>4, <2>1, <2>2 DEF StageOK
  <1>6. PICK x : x = [pr |-> p, ts |-> s[1], extra |-> Tail(s), comment |-> c, origin |-> "github", live |-> TRUE]
    OBVIOUS
  <1>7. DOMAIN rows' = DOMAIN rows \cup {i} /\ rows'[i] = x /\ \A k \in DOMAIN rows : rows'[k] = rows[k]
    <2>1. PICK r : r = rows'
      OBVIOUS
    <2>2. r = Append(rows, x) /\ rows \in Seq(Rows) /\ i = Len(rows) + 1
      BY <1>3, <1>5, <1>6, <2>1 DEF Sound, Stored, MapComment, Insert
    <2>3. DOMAIN r = DOMAIN rows \cup {i} /\ r[i] = x /\ \A k \in DOMAIN rows : r[k] = rows[k]
      BY ONLY <2>2, Appended
    <2>. QED BY <2>1, <2>3
  <1>8. x.comment = c /\ x.live /\ x.ts = s[1] /\ x.extra = Tail(s)
    BY <1>6
  <1>9. RowsFor(c)' = {i}
    BY <1>4, <1>7, <1>8 DEF RowsFor
  <1>10. s = Listed(i)'
    <2>1. s # <<>>
      BY <1>3, <1>5
    <2>2. <<s[1]>> \o Tail(s) = s
      BY <1>5, <2>1, FirstAndRest
    <2>. QED BY <1>7, <1>8, <2>2 DEF Listed
  <1>11. LiveFor(c)' = Elements(s) /\ Good(s, p)' /\ Telling(s, t, n)'
    BY <1>1, <1>4 DEF LiveFor, AppsOf, Good, Ascending, Under, Telling
  <1>12. comments'[c].live /\ comments'[c].text = t /\ comments'[c].pr = p
    BY <1>1, <1>3, <1>4
  <1>. QED BY <1>3, <1>5, <1>9, <1>10, <1>11, <1>12, ClosedShown

-----------------------------------------------------------------------------
(* An edited comment *)

LEMMA FirstSame ==
  ASSUME NEW S, NEW s \in Seq(S), NEW m, NEW z, z = Append(s, m)
  PROVE  \A k \in 0..Len(s) : First(z, k) = First(s, k)
  <1>1. \A j \in 1..Len(s) : z[j] = s[j]
    OBVIOUS
  <1>2. ASSUME NEW k \in 0..Len(s) PROVE First(z, k) = First(s, k)
    <2>1. \A j \in 1..k : z[j] = s[j]
      BY <1>1
    <2>. QED BY <2>1 DEF First
  <1>. QED BY <1>2

LEMMA FirstNext ==
  ASSUME NEW S, NEW s \in Seq(S), NEW m, NEW z, z = Append(s, m)
  PROVE  First(z, Len(s) + 1) = First(s, Len(s)) \cup {m}
  <1>1. PICK n : n = Len(s) /\ n \in Nat
    OBVIOUS
  <1>2. z[n + 1] = m /\ \A j \in 1..n : z[j] = s[j]
    BY <1>1
  <1>3. 1..(n + 1) = (1..n) \cup {n + 1}
    BY <1>1
  <1>. QED BY <1>1, <1>2, <1>3 DEF First

LEMMA RestOnly ==
  ASSUME NEW S, NEW q \in Seq(S), NEW n \in Nat
  PROVE  /\ n < Len(q) => Rest(q, n) = {q[n + 1]} \cup Rest(q, n + 1)
         /\ Len(q) <= n => Rest(q, n) = {}
  <1>1. PICK l : l = Len(q) /\ l \in Nat
    OBVIOUS
  <1>2. CASE n < l
    <2>1. (n + 1)..l = {n + 1} \cup ((n + 1) + 1)..l
      BY <1>1, <1>2
    <2>. QED BY <1>1, <1>2, <2>1 DEF Rest
  <1>3. CASE l <= n
    <2>1. (n + 1)..l = {}
      BY <1>1, <1>3
    <2>. QED BY <1>1, <1>3, <2>1 DEF Rest
  <1>. QED BY <1>1, <1>2, <1>3

\* A message deleted; a message given another part.
LEMMA Deleted ==
  ASSUME Sound, NEW m \in DOMAIN messages, messages' = [messages EXCEPT ![m].live = FALSE], NEW c
  PROVE  /\ DOMAIN messages' = DOMAIN messages
         /\ \A k \in DOMAIN messages : messages'[k].part = messages[k].part
         /\ LiveFor(c)' = LiveFor(c) \ {m}
  <1>1. messages[m] \in Messages
    BY DEF Sound, Stored
  <1>2. /\ DOMAIN messages' = DOMAIN messages /\ ~messages'[m].live
        /\ \A k \in DOMAIN messages : k # m => messages'[k] = messages[k]
        /\ messages'[m].part = messages[m].part
        /\ messages'[m].by = messages[m].by /\ messages'[m].of = messages[m].of
    BY <1>1 DEF Messages
  <1>3. LiveFor(c)' = LiveFor(c) \ {m}
    BY <1>2 DEF LiveFor, AppsOf
  <1>. QED BY <1>2, <1>3

LEMMA Updated ==
  ASSUME Sound, NEW m \in DOMAIN messages, NEW part, messages' = [messages EXCEPT ![m].part = part], NEW c
  PROVE  /\ DOMAIN messages' = DOMAIN messages /\ messages'[m].part = part
         /\ \A k \in DOMAIN messages : k # m => messages'[k].part = messages[k].part
         /\ LiveFor(c)' = LiveFor(c)
  <1>1. messages[m] \in Messages
    BY DEF Sound, Stored
  <1>2. /\ DOMAIN messages' = DOMAIN messages /\ messages'[m].part = part
        /\ \A k \in DOMAIN messages : k # m => messages'[k] = messages[k]
        /\ messages'[m].live = messages[m].live
        /\ messages'[m].by = messages[m].by /\ messages'[m].of = messages[m].of
    BY <1>1 DEF Messages
  <1>3. LiveFor(c)' = LiveFor(c)
    BY <1>2 DEF LiveFor, AppsOf
  <1>. QED BY <1>2, <1>3

\* What a resync of comment c goes by, and the message m that it takes next.
Resyncing(h, c, s, q, n, l, t, p, parts, m, z, k) ==
  /\ s = sent[h] /\ q = shown[h] /\ n = Len(s) /\ l = Len(q)
  /\ t = comments[c].text /\ p = comments[c].pr /\ parts = Len(Parts[t])
  /\ m = IF n + 1 <= l THEN q[n + 1] ELSE Len(messages) + 1
  /\ z = Append(s, m) /\ k = Least(n + 1, parts)

Resynced(c, q, n, l, t, p, m, z, k) ==
  /\ LiveFor(c)' = First(z, k) \cup Rest(q, n + 1) /\ Telling(z, t, k)' /\ Good(z, p)' /\ Good(q, p)'
  /\ \A j \in 1..Least(n + 1, l) : z[j] = q[j]
  /\ ~(n + 1 <= l /\ ~messages[m].live)

LEMMA ResyncTaken ==
  ASSUME Sound, WorldGrows, NEW h \in Handlers, Resync(h), NEW c, c = job[h].item, CommentInHand(h, c),
         NEW s, NEW q, NEW n, NEW l, NEW t, NEW p, NEW parts, NEW m, NEW z, NEW k,
         Resyncing(h, c, s, q, n, l, t, p, parts, m, z, k)
  PROVE  Resynced(c, q, n, l, t, p, m, z, k)
  <1>. SUFFICES /\ LiveFor(c)' = First(z, k) \cup Rest(q, n + 1)
                /\ Telling(z, t, k)' /\ Good(z, p)' /\ Good(q, p)'
                /\ \A j \in 1..Least(n + 1, l) : z[j] = q[j]
                /\ ~(n + 1 <= l /\ ~messages[m].live)
    BY Zenon DEF Resynced
  <1>0. /\ n = Len(s) /\ l = Len(q) /\ parts = Len(Parts[t]) /\ z = Append(s, m) /\ k = Least(n + 1, parts)
    BY DEF Resyncing
  <1>15. /\ s = sent[h] /\ q = shown[h] /\ t = comments[c].text /\ p = comments[c].pr
    BY DEF Resyncing
  <1>16. m = IF n + 1 <= l THEN q[n + 1] ELSE Len(messages) + 1
    BY DEF Resyncing
  <1>1. pc[h] = "resync" /\ UNCHANGED <<comments, rows>>
    BY DEF Resync
  <1>2. StageOK(h) /\ Own(Item(job[h])) /\ EventOK(job[h]) /\ LocalsOK
    BY <1>1, Holding
  <1>3. /\ comments[c].live /\ job[h].text = t /\ Good(s, p) /\ Good(q, p)
        /\ \A j \in 1..Least(n, l) : s[j] = q[j]
        /\ LiveFor(c) = First(s, Least(n, parts)) \cup Rest(q, n)
        /\ Telling(s, t, Least(n, parts))
    BY <1>0, <1>1, <1>15 DEF CommentInHand
  <1>4. /\ s \in Seq(AppsOf(c)) /\ q \in Seq(AppsOf(c)) /\ n \in Nat /\ l \in Nat \ {0} /\ parts \in Nat \ {0}
        /\ n < parts \/ n < l
    <2>1. FoundGitHub(h) /\ s \in Seq(AppsOf(c)) /\ n < Longest(Len(Parts[t]), Len(q)) /\ job[h].plain
      BY <1>0, <1>1, <1>2, <1>3, <1>15 DEF StageOK
    <2>2. Len(Parts[job[h].text]) \in Nat \ {0}
      BY <1>1, <2>1, Holding
    <2>3. q \in Seq(AppsOf(c)) /\ q # <<>>
      BY <1>15, <2>1 DEF FoundGitHub
    <2>4. l \in Nat \ {0} /\ n \in Nat
      BY ONLY <1>0, <2>1, <2>3
    <2>5. parts \in Nat \ {0}
      BY ONLY <1>0, <1>3, <2>2
    <2>6. n < parts \/ n < l
      BY ONLY <1>0, <2>1, <2>4, <2>5 DEF Longest
    <2>. QED BY ONLY <1>0, <2>1, <2>3, <2>4, <2>5, <2>6
  <1>5. AppsOf(c) \subseteq DOMAIN messages
    BY DEF AppsOf
  <1>6. \A j \in 1..n : s[j] \in AppsOf(c)
    BY ONLY <1>0, <1>4
  <1>7. Good(q, p)'
    BY ONLY <1>0, <1>3, <1>4, GoodStill, WorldGrows
  <1>8. Len(z) = n + 1 /\ z[n + 1] = m /\ \A j \in 1..n : z[j] = s[j]
    BY ONLY <1>0, <1>4
  <1>9. ASSUME NEW j \in 1..l, NEW i \in 1..l, j < i PROVE q[j] # q[i]
    <2>1. q[j] < q[i]
      BY <1>0, <1>3, <1>9 DEF Good, Ascending
    <2>2. q[j] \in DOMAIN messages
      BY ONLY <1>0, <1>4, <1>5
    <2>3. q[j] \in Nat
      BY <2>2 DEF Sound, Stored
    <2>. QED BY ONLY <1>0, <2>1, <2>3
  <1>10. Rest(q, n) = IF n < l THEN {q[n + 1]} \cup Rest(q, n + 1) ELSE {}
    BY ONLY <1>0, <1>4, RestOnly
  <1>13. /\ \A j \in 0..n : First(z, j) = First(s, j)
         /\ First(z, n + 1) = First(s, n) \cup {m}
    <2>1. s \in Seq(AppsOf(c)) /\ n \in Nat
      BY <1>4
    <2>2. n = Len(s) /\ z = Append(s, m)
      BY ONLY <1>0
    <2>3. \A j \in 0..n : First(z, j) = First(s, j)
      BY ONLY <2>1, <2>2, FirstSame
    <2>4. First(z, n + 1) = First(s, n) \cup {m}
      BY ONLY <2>1, <2>2, FirstNext
    <2>. QED BY <2>3, <2>4
  <1>11. CASE n < l
    <2>1. m = q[n + 1] /\ m \in AppsOf(c) /\ Least(n, l) = n /\ m \in DOMAIN messages
      <3>1. n + 1 <= l /\ n + 1 \in 1..l /\ Least(n, l) = n
        BY ONLY <1>4, <1>11 DEF Least
      <3>2. m = q[n + 1]
        BY ONLY <1>16, <3>1
      <3>3. q[n + 1] \in AppsOf(c)
        BY ONLY <1>0, <1>4, <3>1
      <3>. QED BY ONLY <1>5, <3>1, <3>2, <3>3
    <2>2. m \in LiveFor(c) /\ messages[m].live
      BY <1>3, <1>10, <1>11, <2>1 DEF LiveFor
    <2>3. \A j \in 1..n : s[j] = q[j] /\ s[j] # m
      BY ONLY <1>0, <1>3, <1>4, <1>9, <1>11, <2>1
    <2>4. \A j \in 1..(n + 1) : z[j] = q[j]
      BY ONLY <1>0, <1>4, <1>8, <2>1, <2>3
    <2>5. Good(z, p)'
      <3>1. z \in Seq(AppsOf(c)) /\ Len(z) <= Len(q)
        BY ONLY <1>0, <1>4, <1>8, <1>11, <2>1
      <3>2. Good(z, p)
        BY ONLY <1>0, <1>3, <1>4, <1>8, <2>4, <3>1, GoodPrefix
      <3>. QED BY ONLY <1>0, <3>1, <3>2, GoodStill, WorldGrows
    <2>6. Least(n + 1, l) = n + 1
      BY <1>4, <1>11 DEF Least
    <2>7. CASE n < parts
      <3>1. k = n + 1 /\ Least(n, parts) = n
        BY ONLY <1>0, <1>4, <2>7 DEF Least
      <3>2. PICK part : part = Parts[t][n + 1]
        OBVIOUS
      <3>3. messages' = [messages EXCEPT ![m].part = part]
        <4>1. n + 1 <= l /\ n + 1 <= parts
          BY ONLY <1>0, <1>4, <1>11, <2>7
        <4>. QED BY <1>0, <1>3, <1>15, <2>1, <2>2, <3>2, <4>1 DEF Resync
      <3>4. /\ messages'[m].part = part /\ LiveFor(c)' = LiveFor(c)
            /\ \A j \in DOMAIN messages : j # m => messages'[j].part = messages[j].part
        BY ONLY <1>0, <2>1, <3>3, Sound, Updated
      <3>5. \A j \in 1..n : messages'[s[j]].part = messages[s[j]].part
        BY ONLY <1>0, <1>5, <1>6, <2>3, <3>4
      <3>6. Telling(z, t, n + 1)'
        BY ONLY <1>0, <1>3, <1>4, <3>1, <3>2, <3>4, <3>5, TellingNext
      <3>7. First(z, n + 1) = First(s, n) \cup {m}
        BY ONLY <1>0, <1>13
      <3>8. LiveFor(c)' = First(z, n + 1) \cup Rest(q, n + 1)
        BY ONLY <1>0, <1>3, <1>10, <1>11, <2>1, <3>1, <3>4, <3>7
      <3>. QED BY ONLY <1>0, <1>7, <2>2, <2>4, <2>5, <2>6, <3>1, <3>6, <3>8
    <2>8. CASE parts <= n
      <3>1. k = parts /\ Least(n, parts) = parts /\ parts \in 0..n
        BY ONLY <1>0, <1>4, <2>8 DEF Least
      <3>2. messages' = [messages EXCEPT ![m].live = FALSE]
        <4>1. n + 1 <= l /\ ~(n + 1 <= parts)
          BY ONLY <1>0, <1>4, <1>11, <2>8
        <4>. QED BY <1>0, <1>3, <1>15, <2>1, <2>2, <4>1 DEF Resync
      <3>3. /\ LiveFor(c)' = LiveFor(c) \ {m}
            /\ \A j \in DOMAIN messages : messages'[j].part = messages[j].part
        BY ONLY <1>0, <2>1, <3>2, Sound, Deleted
      <3>4. Telling(z, t, parts)'
        <4>1. ASSUME NEW j \in 1..parts PROVE messages'[z[j]].part = Parts[t][j]
          <5>1. j \in 1..n
            BY ONLY <1>0, <1>4, <2>8
          <5>2. z[j] = s[j] /\ s[j] \in DOMAIN messages
            BY ONLY <1>0, <1>5, <1>6, <1>8, <5>1
          <5>. QED BY ONLY <1>0, <1>3, <3>1, <3>3, <5>2 DEF Telling
        <4>. QED BY ONLY <1>0, <4>1 DEF Telling
      <3>5. First(z, parts) = First(s, parts)
        BY ONLY <1>0, <1>13, <3>1
      <3>6. m \notin First(s, parts)
        <4>1. \A j \in 1..parts : j \in 1..n
          BY ONLY <1>0, <1>4, <3>1
        <4>. QED BY ONLY <1>0, <2>3, <4>1 DEF First
      <3>7. m \notin Rest(q, n + 1)
        <4>1. ASSUME NEW j \in ((n + 1) + 1)..l PROVE q[j] # m
          <5>1. n + 1 \in 1..l /\ j \in 1..l /\ n + 1 < j
            BY ONLY <1>0, <1>4, <1>11
          <5>. QED BY ONLY <1>0, <1>9, <2>1, <5>1
        <4>. QED BY ONLY <1>0, <4>1 DEF Rest
      <3>8. LiveFor(c)' = First(z, parts) \cup Rest(q, n + 1)
        BY ONLY <1>0, <1>3, <1>10, <1>11, <2>1, <3>1, <3>3, <3>5, <3>6, <3>7
      <3>. QED BY ONLY <1>0, <1>7, <2>2, <2>4, <2>5, <2>6, <3>1, <3>4, <3>8
    <2>9. n < parts \/ parts <= n
      BY ONLY <1>4
    <2>. QED BY ONLY <2>7, <2>8, <2>9
  <1>12. CASE l <= n
    <2>1. n < parts /\ ~(n + 1 <= l) /\ m = Len(messages) + 1 /\ Least(n, l) = l /\ Least(n + 1, l) = l
      <3>1. n < parts /\ ~(n + 1 <= l) /\ Least(n, l) = l /\ Least(n + 1, l) = l
        BY ONLY <1>4, <1>12 DEF Least
      <3>. QED BY <1>16, <3>1
    <2>2. k = n + 1 /\ Least(n, parts) = n
      <3>1. k = Least(n + 1, parts)
        BY ONLY <1>0
      <3>. QED BY ONLY <1>4, <2>1, <3>1 DEF Least
    <2>3. PICK r, part : r = q[1] /\ part = Parts[t][n + 1]
      OBVIOUS
    <2>4. Say("app", c, r, part)
      BY <1>0, <1>3, <1>15, <2>1, <2>3 DEF Resync
    <2>5. /\ m \in Nat /\ \A j \in DOMAIN messages : j \in Nat /\ j < m /\ messages'[j] = messages[j]
          /\ messages'[m].thread = r /\ messages'[m].part = part
          /\ LiveFor(c)' = LiveFor(c) \cup {m}
      BY ONLY <1>0, <2>1, <2>4, Sound, SaidFor
    <2>6. s # <<>> /\ s[1] = q[1] /\ q[1] \in DOMAIN messages
      <3>1. 1 \in 1..Least(n, l) /\ 1 \in 1..n /\ 1 \in 1..l
        BY ONLY <1>0, <1>4, <1>12, <2>1
      <3>2. s # <<>>
        BY ONLY <1>0, <1>4, <1>12
      <3>. QED BY ONLY <1>0, <1>3, <1>4, <1>5, <3>1, <3>2
    <2>7. q[1] # 0
      BY <2>6 DEF Sound, Stored
    <2>8. Good(z, p)'
      <3>1. r \in {p, IF s # <<>> THEN s[1] ELSE p} /\ (s # <<>> => r # 0)
        BY ONLY <1>0, <2>3, <2>6, <2>7
      <3>. QED BY ONLY <1>0, <1>3, <1>4, <2>5, <3>1, WorldGrows, GoodAppend
    <2>9. Telling(z, t, n + 1)'
      <3>1. \A j \in 1..n : messages'[s[j]].part = messages[s[j]].part
        BY ONLY <1>0, <1>5, <1>6, <2>5
      <3>. QED BY ONLY <1>0, <1>3, <1>4, <2>2, <2>3, <2>5, <3>1, TellingNext
    <2>10. First(z, n + 1) = First(s, n) \cup {m}
      BY ONLY <1>0, <1>13
    <2>11. Rest(q, n) = {} /\ Rest(q, n + 1) = {}
      BY ONLY <1>0, <1>4, <1>12, RestOnly
    <2>12. LiveFor(c)' = First(z, n + 1) \cup Rest(q, n + 1)
      BY ONLY <1>0, <1>3, <2>2, <2>5, <2>10, <2>11
    <2>13. \A j \in 1..l : z[j] = q[j]
      <3>1. \A j \in 1..l : j \in 1..n
        BY ONLY <1>0, <1>4, <1>12
      <3>. QED BY ONLY <1>0, <1>3, <1>8, <2>1, <3>1
    <2>. QED BY ONLY <1>0, <1>7, <2>1, <2>2, <2>8, <2>9, <2>12, <2>13
  <1>14. n < l \/ l <= n
    BY ONLY <1>4
  <1>. QED BY ONLY <1>11, <1>12, <1>14

LEMMA ResyncComment ==
  ASSUME Sound, WorldGrows, NEW h \in Handlers, Resync(h), NEW c, c = job[h].item, CommentInHand(h, c)
  PROVE  On(h, <<"github", c>>)' /\ CommentInHand(h, c)'
  <1>1. pc[h] = "resync" /\ UNCHANGED <<comments, rows>>
    BY DEF Resync
  <1>2. StageOK(h) /\ LocalsOK
    BY <1>1, Holding
  <1>3. PICK s, q, n, l, t, p, parts, i : /\ s = sent[h] /\ q = shown[h] /\ n = Len(s) /\ l = Len(q)
                                          /\ t = comments[c].text /\ p = comments[c].pr /\ parts = Len(Parts[t])
                                          /\ i = row[h]
    OBVIOUS
  <1>4. PICK m : m = IF n + 1 <= l THEN q[n + 1] ELSE Len(messages) + 1
    OBVIOUS
  <1>5. PICK z, k : z = Append(s, m) /\ k = Least(n + 1, parts)
    OBVIOUS
  <1>16. Resyncing(h, c, s, q, n, l, t, p, parts, m, z, k)
    BY <1>3, <1>4, <1>5 DEF Resyncing
  <1>17. /\ LiveFor(c)' = First(z, k) \cup Rest(q, n + 1) /\ Telling(z, t, k)' /\ Good(z, p)' /\ Good(q, p)'
         /\ \A j \in 1..Least(n + 1, l) : z[j] = q[j]
         /\ ~(n + 1 <= l /\ ~messages[m].live)
    <2>1. Resynced(c, q, n, l, t, p, m, z, k)
      BY <1>16, ResyncTaken
    <2>. QED BY <2>1, Zenon DEF Resynced
  <1>18. s \in Seq(AppsOf(c)) /\ job[h].side = "github"
    BY <1>1, <1>2, <1>3 DEF StageOK
  <1>19. n + 1 = Len(z)
    BY <1>3, <1>5, <1>18
  <1>6. /\ LiveFor(c)' = First(z, Least(Len(z), Len(Parts[t]))) \cup Rest(q, Len(z))
        /\ Telling(z, t, Least(Len(z), Len(Parts[t])))' /\ Good(z, p)' /\ Good(q, p)'
        /\ \A j \in 1..Least(Len(z), Len(q)) : z[j] = q[j]
    BY <1>3, <1>5, <1>17, <1>19
  <1>7. comments[c].live /\ job[h].text = t /\ RowsFor(c) = {i} /\ rows[i].ts = q[1]
    BY <1>1, <1>3 DEF CommentInHand
  <1>9. PICK step : step = IF n + 1 >= parts /\ n + 1 >= l THEN "setExtra" ELSE "resync"
    OBVIOUS
  <1>10. Goto(h, step) /\ sent' = [sent EXCEPT ![h] = z]
    BY <1>3, <1>4, <1>5, <1>17, <1>7, <1>9 DEF Resync
  <1>11. step \in Stages /\ step \in {"resync", "setExtra"}
    BY <1>9 DEF Stages
  <1>12. pc'[h] = step /\ sent'[h] = z /\ job' = job /\ row' = row /\ shown' = shown
    BY <1>2, <1>10, <1>11, LocalsGoto
  <1>13. RowsFor(c)' = {i} /\ rows'[i].ts = q[1]
    BY <1>1, <1>7 DEF RowsFor
  <1>14. /\ sent'[h] = z /\ shown'[h] = q /\ row'[h] = i /\ comments'[c].pr = p /\ comments'[c].text = t
         /\ pc'[h] \in {"resync", "setExtra"} /\ comments'[c].live /\ job'[h].text = t
    BY <1>1, <1>3, <1>7, <1>11, <1>12
  <1>15. CommentInHand(h, c)'
    BY ONLY <1>6, <1>13, <1>14, HoldsRewriting
  <1>. QED BY <1>18, <1>11, <1>12, <1>15 DEF On, Item

-----------------------------------------------------------------------------
(* An edit or a deletion cut short, and what a handler does at the end of one *)

LEMMA CutShort ==
  ASSUME NEW A, NEW s \in Seq(A), NEW n \in Nat \ {0}, n <= Len(s), NEW w, w = <<s[1]>> \o SubSeq(s, 2, n)
  PROVE  w \in Seq(A) /\ Len(w) = n /\ \A k \in 1..n : w[k] = s[k]
  <1>1. PICK r : r = SubSeq(s, 2, n)
    OBVIOUS
  <1>2. r \in Seq(A) /\ Len(r) = n - 1 /\ \A k \in 1..(n - 1) : r[k] = s[k + 1]
    BY <1>1, CutOff
  <1>3. PICK a : a = s[1]
    OBVIOUS
  <1>4. a \in A
    BY <1>3
  <1>5. w = <<a>> \o r
    BY <1>1, <1>3
  <1>6. w \in Seq(A) /\ Len(w) = n /\ w[1] = a /\ \A k \in 2..n : w[k] = r[k - 1]
    BY ONLY <1>2, <1>4, <1>5, n \in Nat \ {0}
  <1>7. ASSUME NEW k \in 1..n PROVE w[k] = s[k]
    <2>1. CASE k = 1
      BY <1>3, <1>6, <2>1
    <2>2. CASE k \in 2..n
      <3>1. k - 1 \in 1..(n - 1) /\ (k - 1) + 1 = k
        BY <2>2
      <3>. QED BY <1>2, <1>6, <2>2, <3>1
    <2>. QED BY <1>7, <2>1, <2>2
  <1>. QED BY <1>6, <1>7

LEMMA SetExtraComment ==
  ASSUME Sound, NEW h \in Handlers, SetExtra(h), NEW c, c = job[h].item, CommentInHand(h, c)
  PROVE  CommentClosed(c)'
  <1>1. pc[h] = "setExtra" /\ UNCHANGED <<comments, messages>>
    BY DEF SetExtra, world
  <1>2. StageOK(h) /\ EventOK(job[h])
    BY <1>1, Holding
  <1>3. PICK s, q, n, l, t, p, parts, i : /\ s = sent[h] /\ q = shown[h] /\ n = Len(s) /\ l = Len(q)
                                          /\ t = comments[c].text /\ p = comments[c].pr /\ parts = Len(Parts[t])
                                          /\ i = row[h]
    OBVIOUS
  <1>4. /\ comments[c].live /\ job[h].text = t /\ Good(s, p) /\ Good(q, p)
        /\ RowsFor(c) = {i} /\ rows[i].ts = q[1]
        /\ \A j \in 1..Least(n, l) : s[j] = q[j]
        /\ LiveFor(c) = First(s, Least(n, parts)) \cup Rest(q, n)
        /\ Telling(s, t, Least(n, parts))
    BY <1>1, <1>3 DEF CommentInHand
  <1>5. /\ s \in Seq(AppsOf(c)) /\ q \in Seq(AppsOf(c)) /\ n \in Nat \ {0} /\ l \in Nat \ {0}
        /\ parts \in Nat \ {0} /\ parts <= n /\ l <= n
    <2>1. FoundGitHub(h) /\ s \in Seq(AppsOf(c)) /\ n = Longest(Len(Parts[t]), Len(q)) /\ job[h].plain
      BY <1>1, <1>2, <1>3, <1>4 DEF StageOK
    <2>2. Len(Parts[job[h].text]) \in Nat \ {0}
      BY <1>1, <2>1, Holding
    <2>3. q \in Seq(AppsOf(c)) /\ q # <<>>
      BY <1>3, <2>1 DEF FoundGitHub
    <2>4. l \in Nat \ {0} /\ parts \in Nat \ {0}
      BY <1>3, <1>4, <2>2, <2>3
    <2>5. n = Longest(parts, l)
      BY <1>3, <2>1
    <2>6. n \in Nat \ {0} /\ parts <= n /\ l <= n
      BY ONLY <2>4, <2>5 DEF Longest
    <2>. QED BY <2>1, <2>3, <2>4, <2>6
  <1>6. Least(n, parts) = parts /\ Least(n, l) = l
    BY ONLY <1>5 DEF Least
  <1>7. LiveFor(c) = First(s, parts) /\ s[1] = q[1]
    <2>1. Rest(q, n) = {}
      BY ONLY <1>3, <1>5, RestOnly
    <2>2. 1 \in 1..l
      BY ONLY <1>5
    <2>. QED BY <1>4, <1>6, <2>1, <2>2
  <1>8. PICK x, w : x = SubSeq(s, 2, parts) /\ w = <<s[1]>> \o x
    OBVIOUS
  <1>9. w \in Seq(AppsOf(c)) /\ Len(w) = parts /\ \A k \in 1..parts : w[k] = s[k]
    BY ONLY <1>3, <1>5, <1>8, CutShort
  <1>10. i \in DOMAIN rows /\ rows[i].live /\ rows[i].comment = c /\ rows[i] \in Rows
    <2>1. i \in DOMAIN rows /\ rows[i].live /\ rows[i].comment = c
      BY <1>4 DEF RowsFor
    <2>. QED BY <2>1 DEF Sound, Stored
  <1>11. rows' = [rows EXCEPT ![i].extra = x]
    BY <1>3, <1>4, <1>8, <1>10 DEF SetExtra
  <1>12. /\ DOMAIN rows' = DOMAIN rows /\ rows'[i].extra = x /\ rows'[i].ts = rows[i].ts
         /\ rows'[i].live = rows[i].live /\ rows'[i].comment = rows[i].comment
         /\ \A k \in DOMAIN rows : k # i => rows'[k] = rows[k]
    BY ONLY <1>10, <1>11 DEF Rows
  <1>13. RowsFor(c)' = {i}
    BY <1>4, <1>10, <1>12 DEF RowsFor
  <1>14. w = Listed(i)'
    BY <1>4, <1>7, <1>8, <1>12 DEF Listed
  <1>15. LiveFor(c)' = Elements(w)
    <2>1. LiveFor(c)' = LiveFor(c)
      BY <1>1 DEF LiveFor, AppsOf
    <2>2. First(s, parts) = Elements(w)
      BY <1>9 DEF First, Elements
    <2>. QED BY <1>7, <2>1, <2>2
  <1>16. Good(w, p)'
    <2>1. Len(w) <= Len(s) /\ \A j \in 1..Len(w) : w[j] = s[j]
      BY ONLY <1>3, <1>5, <1>9
    <2>2. Good(w, p)
      BY ONLY <1>4, <1>5, <1>9, <2>1, GoodPrefix
    <2>. QED BY <1>1, <2>2 DEF Good, Ascending, Under
  <1>17. Telling(w, t, parts)'
    BY <1>1, <1>4, <1>6, <1>9 DEF Telling
  <1>18. comments'[c].live /\ comments'[c].text = t /\ comments'[c].pr = p /\ parts = Len(Parts[t]) /\ parts = Len(w)
    BY <1>1, <1>3, <1>4, <1>9
  <1>. QED BY ONLY <1>13, <1>14, <1>15, <1>16, <1>17, <1>18, ClosedShown

LEMMA UnpostComment ==
  ASSUME Sound, NEW h \in Handlers, Unpost(h), NEW c, c = job[h].item, CommentInHand(h, c)
  PROVE  On(h, <<"github", c>>)' /\ CommentInHand(h, c)'
  <1>1. pc[h] = "unpost" /\ UNCHANGED <<comments, rows>>
    BY DEF Unpost
  <1>2. StageOK(h) /\ LocalsOK
    BY <1>1, Holding
  <1>3. PICK s, q, n, l, i : s = sent[h] /\ q = shown[h] /\ n = Len(s) /\ l = Len(q) /\ i = row[h]
    OBVIOUS
  <1>4. ~comments[c].live /\ RowsFor(c) = {i} /\ Ascending(q) /\ LiveFor(c) = Rest(q, n)
    BY <1>1, <1>3 DEF CommentInHand
  <1>5. s \in Seq(AppsOf(c)) /\ q \in Seq(AppsOf(c)) /\ n \in Nat /\ l \in Nat /\ n < l
        /\ job[h].side = "github"
    <2>1. FoundGitHub(h) /\ s \in Seq(AppsOf(c)) /\ n < l /\ job[h].side = "github"
      BY <1>1, <1>2, <1>3 DEF StageOK
    <2>. QED BY <1>3, <2>1 DEF FoundGitHub
  <1>6. PICK m, z, u : m = q[u] /\ z = Append(s, m) /\ u = n + 1
    OBVIOUS
  <1>7. Rest(q, n) = {m} \cup Rest(q, u)
    BY ONLY <1>3, <1>5, <1>6, RestOnly
  <1>8. m \in LiveFor(c) /\ m \in DOMAIN messages /\ messages[m].live
    BY <1>4, <1>7 DEF LiveFor, AppsOf
  <1>9. PICK step : step = IF u = l THEN "dropRow" ELSE "unpost"
    OBVIOUS
  <1>10. messages' = [messages EXCEPT ![m].live = FALSE] /\ Goto(h, step) /\ sent' = [sent EXCEPT ![h] = z]
    BY <1>3, <1>6, <1>8, <1>9 DEF Unpost
  <1>11. step \in Stages
    BY <1>9 DEF Stages
  <1>12. pc'[h] = step /\ sent'[h] = z /\ job' = job /\ row' = row /\ shown' = shown
    BY <1>2, <1>10, <1>11, LocalsGoto
  <1>13. m \notin Rest(q, u)
    <2>1. ASSUME NEW j \in (u + 1)..l PROVE q[j] # m
      <3>1. u \in 1..l /\ j \in 1..l /\ u < j
        BY ONLY <1>5, <1>6, <2>1
      <3>2. q[u] < q[j]
        BY <1>3, <1>4, <3>1 DEF Ascending
      <3>3. q[j] \in DOMAIN messages
        BY <1>3, <1>5, <3>1 DEF AppsOf
      <3>4. q[j] \in Nat
        BY <3>3 DEF Sound, Stored
      <3>. QED BY ONLY <1>6, <3>2, <3>4
    <2>. QED BY <1>3, <2>1 DEF Rest
  <1>14. LiveFor(c)' = Rest(q, u)
    <2>1. LiveFor(c)' = LiveFor(c) \ {m}
      BY <1>8, <1>10, Deleted
    <2>. QED BY <1>4, <1>7, <1>13, <2>1
  <1>15. RowsFor(c)' = {i}
    BY <1>1, <1>4 DEF RowsFor
  <1>16. u = Len(z)
    BY ONLY <1>3, <1>5, <1>6
  <1>17. u = l => Rest(q, u) = {}
    BY ONLY <1>3, <1>5, <1>6, RestOnly
  <1>18. CommentInHand(h, c)'
    <2>1. ~comments'[c].live /\ row'[h] = i /\ shown'[h] = q
      BY <1>1, <1>3, <1>4, <1>12
    <2>2. CASE step = "dropRow"
      <3>1. LiveFor(c)' = {}
        BY <1>9, <1>14, <1>17, <2>2
      <3>. QED BY <1>12, <1>15, <2>1, <2>2, <3>1 DEF CommentInHand
    <2>3. CASE step = "unpost"
      <3>1. Ascending(shown[h])' /\ LiveFor(c)' = Rest(shown[h], Len(sent[h]))'
        BY <1>4, <1>12, <1>14, <1>16, <2>1 DEF Ascending, Rest
      <3>. QED BY <1>12, <1>15, <2>1, <2>3, <3>1 DEF CommentInHand
    <2>. QED BY <1>9, <2>2, <2>3
  <1>. QED BY <1>5, <1>9, <1>12, <1>18 DEF On, Item

LEMMA DropRowComment ==
  ASSUME Sound, NEW h \in Handlers, DropRow(h), NEW c, c = job[h].item, CommentInHand(h, c)
  PROVE  CommentClosed(c)'
  <1>1. pc[h] = "dropRow" /\ UNCHANGED <<comments, messages>>
    BY DEF DropRow, world
  <1>2. PICK i : i = row[h]
    OBVIOUS
  <1>3. ~comments[c].live /\ RowsFor(c) = {i} /\ LiveFor(c) = {}
    BY <1>1, <1>2 DEF CommentInHand
  <1>4. rows' = [rows EXCEPT ![i].live = FALSE]
    BY <1>2 DEF DropRow
  <1>5. i \in DOMAIN rows
    BY <1>3 DEF RowsFor
  <1>6. rows[i] \in Rows
    BY <1>5 DEF Sound, Stored
  <1>7. DOMAIN rows' = DOMAIN rows /\ ~rows'[i].live /\ \A k \in DOMAIN rows : k # i => rows'[k] = rows[k]
    BY <1>4, <1>5, <1>6 DEF Rows
  <1>8. RowsFor(c)' = {}
    BY <1>3, <1>7 DEF RowsFor
  <1>9. LiveFor(c)' = {}
    BY <1>1, <1>3 DEF LiveFor, AppsOf
  <1>. QED BY <1>1, <1>3, <1>8, <1>9 DEF CommentClosed, Bare

-----------------------------------------------------------------------------
(* What a handler does: every comment *)

LEMMA WorkComment ==
  ASSUME Sound, OneByOne, CommentsOK, NEW h \in Handlers, Working(h), NEW c, c \in DOMAIN comments,
         comments[c].of = 0, NEW x, x = <<"github", c>>, x = Item(job[h]), x \notin tangled'
  PROVE  CommentOK(c)'
  <1>1. /\ pc[h] # "idle" /\ inbox' = inbox /\ tangled \subseteq tangled' /\ WorldGrows
        /\ \A g \in Handlers \ {h} : SameLocals(g)
    BY WorkSound, WorkOneByOne
  <1>2. On(h, x) /\ job[h].side = "github" /\ c = job[h].item
    BY <1>1 DEF On, Item
  <1>3. Lone(x) /\ CommentOK(c)
    BY <1>1 DEF OneByOne, CommentsOK
  <1>4. CommentInHand(h, c)
    BY <1>2, <1>3 DEF CommentOK
  <1>5. (\A e \in inbox' : Item(e) # x) /\ \A g \in Handlers \ {h} : ~On(g, x)'
    BY <1>1, <1>2, <1>3, Alone
  <1>6. \/ Post(h) \/ FallBack(h) \/ Resync(h) \/ Unpost(h)
        \/ MapComment(h) \/ SetExtra(h) \/ DropRow(h)
    <2>1. StageOK(h)
      BY <1>1, Holding
    <2>2. pc[h] \notin {"comment", "record", "notice", "edit", "uncomment"}
      BY <1>2, <2>1 DEF StageOK
    <2>3. ~Die(h)
      BY DEF Die
    <2>. QED BY <2>2, <2>3 DEF Working, Comment, Record, Notify, Rewrite, Uncomment
  <1>7. CASE Post(h) \/ FallBack(h) \/ Resync(h) \/ Unpost(h)
    <2>1. On(h, x)' /\ CommentInHand(h, c)'
      BY <1>1, <1>2, <1>4, <1>7, PostComment, FallBackComment, ResyncComment, UnpostComment
    <2>. QED BY <1>5, <2>1, CommentNow
  <1>8. CASE MapComment(h) \/ SetExtra(h) \/ DropRow(h)
    <2>1. CommentClosed(c)'
      BY <1>2, <1>4, <1>8, MapCommentComment, SetExtraComment, DropRowComment
    <2>2. pc'[h] = "idle"
      BY <1>8 DEF MapComment, SetExtra, DropRow, Done, Sound, LocalsOK
    <2>3. ~On(h, x)'
      BY <2>2 DEF On
    <2>. QED BY <1>5, <2>1, <2>3, CommentNow
  <1>. QED BY <1>6, <1>7, <1>8

LEMMA ReceiveComment ==
  ASSUME Sound, OneByOne, CommentsOK, NEW h \in Handlers, Receive(h), NEW e,
         \/ UNCHANGED handlers /\ Leaves(e) /\ (Own(Item(e)) => Ignored(e))
         \/ Leaves(e) /\ Own(Item(e)) /\ EventOK(e) /\ Taking(h, e),
         NEW c, c \in DOMAIN comments, comments[c].of = 0,
         NEW x, x = <<"github", c>>, x = Item(e), x \notin tangled'
  PROVE  CommentOK(c)'
  <1>1. UNCHANGED <<comments, messages, rows>> /\ pc[h] = "idle"
    BY DEF Receive, world
  <1>2. e \in inbox /\ inbox' = inbox \ {e} /\ x \notin tangled
    BY DEF Leaves
  <1>3. Lone(x) /\ CommentOK(c)
    BY <1>2 DEF OneByOne, CommentsOK
  <1>4. EventOK(e) /\ PendingComment(e, c)
    BY <1>2, <1>3 DEF Sound, Posted, CommentOK
  <1>5. \A f \in inbox' : Item(f) # x
    BY <1>2, <1>3 DEF Lone
  <1>6. e.side = "github" /\ e.item = c /\ Own(x)
    BY DEF Item, Own
  <1>7. RowsFor(c)' = RowsFor(c) /\ LiveFor(c)' = LiveFor(c)
    BY <1>1 DEF RowsFor, LiveFor, AppsOf
  <1>8. PICK t, p, s : t = comments[c].text /\ p = comments[c].pr /\ s = <<>>
    OBVIOUS
  <1>9. Taking(h, e)
    <2>1. ASSUME Own(Item(e)) => Ignored(e) PROVE FALSE
      <3>1. Ignored(e)
        BY <1>6, <2>1
      <3>2. e.kind \in {"edit", "delete"} /\ (e.kind = "edit" => e.plain)
        BY <1>4, <3>1 DEF EventOK, Events, PendingComment, Ignored
      <3>3. RowsFor(c) = {}
        BY <1>6, <3>1, <3>2 DEF Ignored
      <3>. QED BY <1>4, <3>2, <3>3 DEF PendingComment, Filed
    <2>. QED BY <2>1
  <1>10. /\ s \in Seq(AppsOf(c)) /\ Good(s, p)' /\ Telling(s, t, 0)' /\ Elements(s) = {} /\ Len(s) = 0
    <2>1. s \in Seq(AppsOf(c)) /\ Len(s) = 0
      BY <1>8
    <2>2. \A k : k \notin 1..0
      OBVIOUS
    <2>. QED BY <2>1, <2>2 DEF Good, Ascending, Under, Telling, Elements
  <1>11. sent[h] = s
    BY <1>1, <1>8 DEF Sound, Held, HandlerOK, Resting
  <1>12. PICK step, i, b : /\ step \in Stages \ {"idle"} /\ Begin(h, e, step, i, b)
                           /\ \/ e.kind = "new" /\ step = "post"
                              \/ i \in RowsFor(c) /\ e.kind = "edit" /\ step = "resync"
                              \/ i \in RowsFor(c) /\ e.kind = "delete" /\ step = "unpost"
    BY <1>6, <1>9 DEF Taking, Stages
  <1>13. /\ pc'[h] = step /\ job'[h] = e /\ row'[h] = i /\ sent'[h] = s
         /\ shown'[h] = IF i = 0 THEN <<>> ELSE Listed(i)
         /\ \A g \in Handlers \ {h} : SameLocals(g)
    BY <1>11, <1>12, LocalsBegin DEF Sound
  <1>14. \A g \in Handlers \ {h} : ~On(g, x)'
    BY <1>2, <1>3, <1>13 DEF Lone, On, SameLocals
  <1>15. On(h, x)'
    BY <1>12, <1>13 DEF On
  <1>16. comments'[c].pr = p /\ comments'[c].text = t
    BY <1>1, <1>8
  <1>17. CASE e.kind = "new" /\ step = "post"
    <2>1. RowsFor(c) = {} /\ LiveFor(c) = {} /\ comments[c].live /\ e.text = t
      BY <1>4, <1>8, <1>17 DEF PendingComment, Bare
    <2>2. /\ pc'[h] \in {"post", "map"} /\ comments'[c].live /\ job'[h].text = t
          /\ RowsFor(c)' = {} /\ LiveFor(c)' = Elements(s)
      BY <1>1, <1>7, <1>10, <1>13, <1>17, <2>1
    <2>3. PICK n : n = Len(s) /\ Telling(s, t, n)'
      BY <1>10
    <2>4. CommentInHand(h, c)'
      BY ONLY <1>10, <1>13, <1>16, <2>2, <2>3, HoldsWriting
    <2>. QED BY <1>5, <1>14, <1>15, <2>4, CommentNow
  <1>18. CASE i \in RowsFor(c) /\ e.kind \in {"edit", "delete"} /\ step = (IF e.kind = "edit" THEN "resync" ELSE "unpost")
    <2>1. Filed(c)
      BY <1>4, <1>18 DEF PendingComment
    <2>2. PICK q : q = Listed(i)
      OBVIOUS
    <2>3. RowsFor(c) = {i} /\ LiveFor(c) = Elements(q) /\ Good(q, p)
      BY <1>8, <1>18, <2>1, <2>2 DEF Filed
    <2>4. q \in Seq(AppsOf(c)) /\ q[1] = rows[i].ts /\ i # 0
      <3>1. i \in DOMAIN rows /\ Listed(i) \in Seq(AppsOf(c)) /\ Listed(i)[1] = rows[i].ts
        BY <1>18, OwnListed
      <3>2. i # 0
        BY <3>1, RowListed
      <3>. QED BY <2>2, <3>1, <3>2
    <2>5. shown'[h] = q
      BY <1>13, <2>2, <2>4
    <2>6. Elements(q) = Rest(q, 0)
      BY <2>4 DEF Elements, Rest
    <2>7. RowsFor(c)' = {i} /\ LiveFor(c)' = Rest(q, 0)
      BY <1>7, <2>3, <2>6
    <2>8. CASE e.kind = "edit"
      <3>1. comments[c].live /\ e.text = t /\ e.plain
        BY <1>4, <1>8, <2>8 DEF PendingComment
      <3>2. Len(Parts[t]) \in Nat
        <4>1. t \in Texts
          BY <1>4, <3>1 DEF EventOK
        <4>. QED BY <4>1, MessageSyncAssumption
      <3>3. Len(q) \in Nat
        BY <2>4
      <3>4. Least(Len(s), Len(Parts[t])) = 0 /\ Least(Len(s), Len(q)) = 0
        BY <1>10, <3>2, <3>3 DEF Least
      <3>5. First(s, 0) = {}
        <4>1. \A k : k \notin 1..0
          OBVIOUS
        <4>. QED BY <4>1 DEF First
      <3>6. LiveFor(c)' = First(s, Least(Len(s), Len(Parts[t]))) \cup Rest(q, Len(s))
        BY <1>10, <2>7, <3>4, <3>5
      <3>7. Telling(s, t, Least(Len(s), Len(Parts[t])))' /\ \A j \in 1..Least(Len(s), Len(q)) : s[j] = q[j]
        <4>1. \A j : j \notin 1..0
          OBVIOUS
        <4>. QED BY <1>10, <3>4, <4>1
      <3>8. Good(q, p)' /\ rows'[i].ts = q[1]
        BY <1>1, <2>3, <2>4 DEF Good, Ascending, Under
      <3>9. pc'[h] \in {"resync", "setExtra"} /\ comments'[c].live /\ job'[h].text = t
        BY <1>1, <1>13, <1>18, <2>8, <3>1
      <3>10. CommentInHand(h, c)'
        BY ONLY <1>10, <1>13, <1>16, <2>5, <2>7, <3>6, <3>7, <3>8, <3>9, HoldsRewriting
      <3>. QED BY <1>5, <1>14, <1>15, <3>10, CommentNow
    <2>9. CASE e.kind = "delete"
      <3>1. ~comments'[c].live /\ pc'[h] = "unpost"
        BY <1>1, <1>4, <1>13, <1>18, <2>9 DEF PendingComment
      <3>2. Ascending(shown[h])' /\ LiveFor(c)' = Rest(shown[h], Len(sent[h]))'
        BY <1>10, <1>13, <2>3, <2>5, <2>7 DEF Good, Ascending, Rest
      <3>3. CommentInHand(h, c)'
        BY <1>13, <2>7, <3>1, <3>2 DEF CommentInHand
      <3>. QED BY <1>5, <1>14, <1>15, <3>3, CommentNow
    <2>. QED BY <1>18, <2>8, <2>9
  <1>. QED BY <1>12, <1>17, <1>18

LEMMA WorkComments ==
  ASSUME Sound, OneByOne, CommentsOK, NEW h \in Handlers, Working(h)
  PROVE  CommentsOK'
  <1>1. WorldGrows /\ RowsGrow /\ tangled \subseteq tangled' /\ pc[h] # "idle"
    BY WorkSound, WorkOneByOne
  <1>2. PICK y : y = Item(job[h])
    OBVIOUS
  <1>3. Aside(y) /\ Own(y)
    BY <1>1, <1>2, WorkAside, Holding
  <1>4. ASSUME NEW c \in DOMAIN comments', y = <<"github", c>>, comments'[c].of = 0, y \notin tangled'
        PROVE  CommentOK(c)'
    <2>1. c \in DOMAIN comments /\ comments[c].of = 0
      BY <1>3, <1>4 DEF Own
    <2>. QED BY <1>2, <1>4, <2>1, WorkComment
  <1>. QED BY <1>1, <1>3, <1>4, CommentsBut

LEMMA ReceiveComments ==
  ASSUME Sound, OneByOne, CommentsOK, NEW h \in Handlers, Receive(h)
  PROVE  CommentsOK'
  <1>1. UNCHANGED <<comments, messages, rows>> /\ tangled \subseteq tangled'
    BY ReceiveOneByOne DEF Receive, world
  <1>2. WorldGrows /\ RowsGrow
    BY <1>1 DEF WorldGrows, RowsGrow
  <1>3. PICK e :
           \/ UNCHANGED handlers /\ UNCHANGED <<inbox, tangled>>
           \/ UNCHANGED handlers /\ Leaves(e) /\ (Own(Item(e)) => Ignored(e))
           \/ Leaves(e) /\ Own(Item(e)) /\ EventOK(e) /\ Taking(h, e)
    BY Taken
  <1>4. PICK y : y = Item(e)
    OBVIOUS
  <1>5. CASE UNCHANGED handlers /\ UNCHANGED <<inbox, tangled>>
    <2>1. Aside(None)
      BY <1>1, <1>5, NothingAside
    <2>2. \A c : None # <<"github", c>> \/ c \notin DOMAIN comments
      <3>1. ASSUME NEW c \in DOMAIN comments PROVE None # <<"github", c>>
        <4>1. c \in Nat
          BY DEF Sound, Stored
        <4>. QED BY <4>1, MessageSyncAssumption
      <3>. QED BY <3>1
    <2>. QED BY <1>1, <1>2, <2>1, <2>2, CommentsBut
  <1>6. CASE \/ UNCHANGED handlers /\ Leaves(e) /\ (Own(Item(e)) => Ignored(e))
             \/ Leaves(e) /\ Own(Item(e)) /\ EventOK(e) /\ Taking(h, e)
    <2>1. Aside(y)
      BY <1>4, <1>6, ReceiveAside DEF Leaves
    <2>2. ASSUME NEW c \in DOMAIN comments', y = <<"github", c>>, comments'[c].of = 0, y \notin tangled'
          PROVE  CommentOK(c)'
      <3>1. c \in DOMAIN comments /\ comments[c].of = 0
        BY <1>1, <2>2
      <3>. QED BY <1>4, <1>6, <2>2, <3>1, ReceiveComment
    <2>. QED BY <1>1, <1>2, <2>1, <2>2, CommentsBut
  <1>. QED BY <1>3, <1>5, <1>6

-----------------------------------------------------------------------------
(* Comments: every step *)

LEMMA FreshComment ==
  ASSUME Sound, IInv, NEW p \in Discussed, NEW t \in Texts, WriteComment(p, t),
         NEW n, n = Len(comments) + 1
  PROVE  CommentOK(n)'
  <1>1. PICK x, e : x = <<"github", n>> /\ e = Event(acts + 1, "github", "new", n, t, TRUE)
    OBVIOUS
  <1>2. inbox' = inbox \cup {e} /\ UNCHANGED <<messages, rows>> /\ UNCHANGED handlers
    BY <1>1 DEF WriteComment, Act
  <1>3. e.kind = "new" /\ e.text = t /\ e.plain /\ Item(e) = x
    BY <1>1 DEF Event, Item
  <1>4. PICK s, new : s = comments' /\ s = Append(comments, new) /\ new.text = t /\ new.live
    BY DEF WriteComment
  <1>5. comments \in Seq(Comments)
    BY DEF Sound, Stored
  <1>6. n \in Nat \ {0} /\ n \notin DOMAIN comments /\ s[n] = new
    BY ONLY n = Len(comments) + 1, <1>4, <1>5, Appended
  <1>7. AppsOf(n)' = {}
    <2>1. \A m \in DOMAIN messages : messages[m].by = "app" => messages[m].of # n
      BY <1>6 DEF IInv, Copies, OwnComment
    <2>. QED BY <1>2, <2>1 DEF AppsOf
  <1>8. RowsFor(n)' = {}
    <2>1. \A i \in DOMAIN rows : rows[i].comment # n
      BY <1>6 DEF Sound, Mapped, RowOK
    <2>. QED BY <1>2, <2>1 DEF RowsFor
  <1>9. Bare(n)'
    BY <1>7, <1>8 DEF Bare, LiveFor
  <1>10. PendingComment(e, n)'
    BY <1>3, <1>4, <1>6, <1>9 DEF PendingComment
  <1>11. ~Busy(x)
    BY <1>1, <1>6, NotYet
  <1>. QED BY <1>1, <1>2, <1>3, <1>10, <1>11, CommentReported

LEMMA AlteredComment ==
  ASSUME Sound, CommentsOK, NEW c \in DOMAIN comments, (\E t \in Texts : EditComment(c, t)) \/ DeleteComment(c),
         NEW x, x = <<"github", c>>, x \notin tangled'
  PROVE  CommentOK(c)'
  <1>1. /\ UNCHANGED <<messages, rows>> /\ comments[c].of = 0 /\ comments[c].live
        /\ Touch(x) /\ UNCHANGED handlers
    BY DEF EditComment, DeleteComment, Act
  <1>2. ~Busy(x) /\ x \notin tangled
    BY <1>1 DEF Touch
  <1>3. CommentOK(c)
    BY <1>1, <1>2 DEF CommentsOK
  <1>4. Filed(c)
    BY <1>1, <1>2, <1>3 DEF CommentOK
  <1>5. PICK t : \/ t \in Texts /\ EditComment(c, t)
                 \/ DeleteComment(c)
    OBVIOUS
  <1>6. comments[c] \in Comments
    BY DEF Sound, Stored
  <1>7. ASSUME comments'[c].pr = comments[c].pr
        PROVE  Filed(c)'
    <2>1. RowsFor(c)' = RowsFor(c) /\ LiveFor(c)' = LiveFor(c)
      BY <1>1 DEF RowsFor, LiveFor, AppsOf
    <2>2. PICK i \in RowsFor(c) : RowsFor(c) = {i} /\ LiveFor(c) = Elements(Listed(i))
                                  /\ Good(Listed(i), comments[c].pr)
      BY <1>4 DEF Filed
    <2>3. Listed(i)' = Listed(i)
      BY <1>1 DEF Listed
    <2>4. Good(Listed(i), comments[c].pr)'
      BY <1>1, <1>7, <2>2, <2>3 DEF Good, Ascending, Under
    <2>5. LiveFor(c)' = Elements(Listed(i))'
      BY <2>1, <2>2, <2>3 DEF Elements
    <2>. QED BY <2>1, <2>2, <2>4, <2>5 DEF Filed
  <1>8. CASE t \in Texts /\ EditComment(c, t)
    <2>1. PICK e : e = Event(acts + 1, "github", "edit", c, t, TRUE)
      OBVIOUS
    <2>2. inbox' = inbox \cup {e} /\ comments' = [comments EXCEPT ![c].text = t]
      BY <1>8, <2>1 DEF EditComment, Act
    <2>3. e.kind = "edit" /\ e.text = t /\ e.plain /\ Item(e) = x
      BY <2>1 DEF Event, Item
    <2>4. comments'[c].text = t /\ comments'[c].live /\ comments'[c].pr = comments[c].pr
      BY <1>1, <1>6, <2>2 DEF Comments
    <2>5. PendingComment(e, c)'
      BY <1>7, <2>3, <2>4 DEF PendingComment
    <2>. QED BY <1>1, <1>2, <2>2, <2>3, <2>5, CommentReported
  <1>9. CASE DeleteComment(c)
    <2>1. PICK e : e = Event(acts + 1, "github", "delete", c, comments[c].text, TRUE)
      OBVIOUS
    <2>2. inbox' = inbox \cup {e} /\ comments' = [comments EXCEPT ![c].live = FALSE]
      BY <1>9, <2>1 DEF DeleteComment, Act
    <2>3. e.kind = "delete" /\ Item(e) = x
      BY <2>1 DEF Event, Item
    <2>4. ~comments'[c].live /\ comments'[c].pr = comments[c].pr
      BY <1>1, <1>6, <2>2 DEF Comments
    <2>5. PendingComment(e, c)'
      BY <1>7, <2>3, <2>4 DEF PendingComment
    <2>. QED BY <1>1, <1>2, <2>2, <2>3, <2>5, CommentReported
  <1>. QED BY <1>5, <1>8, <1>9

LEMMA PeopleComments ==
  ASSUME Sound, IInv, OneByOne, CommentsOK, People
  PROVE  CommentsOK'
  <1>1. tangled \subseteq tangled'
    BY PeopleOneByOne
  <1>2. ASSUME NEW y, Aside(y), WorldGrows, UNCHANGED rows, \A c : y # <<"github", c>> \/ y \in tangled'
        PROVE  CommentsOK'
    <2>1. RowsGrow
      BY <1>2, SameTable
    <2>. QED BY <1>1, <1>2, <2>1, CommentsBut
  <1>3. ASSUME NEW c, Aside(<<"github", c>>), WorldGrows, UNCHANGED rows,
               <<"github", c>> \notin tangled' => CommentOK(c)'
        PROVE  CommentsOK'
    <2>1. RowsGrow
      BY <1>3, SameTable
    <2>2. PICK y : y = <<"github", c>>
      OBVIOUS
    <2>3. \A k : y = <<"github", k>> => k = c
      BY <2>2
    <2>. QED BY <1>1, <1>3, <2>1, <2>2, <2>3, CommentsBut
  <1>4. ASSUME NEW p \in Discussed, NEW t \in Texts, WriteComment(p, t) PROVE CommentsOK'
    <2>1. PICK n : n = Len(comments) + 1
      OBVIOUS
    <2>2. Aside(<<"github", n>>) /\ CommentOK(n)' /\ WorldGrows /\ UNCHANGED rows
      BY <1>4, <2>1, WriteCommentAside, WriteCommentSound, FreshComment DEF WriteComment, Act
    <2>. QED BY <1>3, <2>2
  <1>5. ASSUME NEW c \in DOMAIN comments, NEW t \in Texts, EditComment(c, t) \/ DeleteComment(c)
        PROVE  CommentsOK'
    <2>1. TRUE \in BOOLEAN
      OBVIOUS
    <2>2. Aside(<<"github", c>>) /\ WorldGrows /\ UNCHANGED rows
      BY <1>5, <2>1, AlterCommentAside, AlterCommentSound DEF EditComment, DeleteComment, Act
    <2>3. <<"github", c>> \notin tangled' => CommentOK(c)'
      BY <1>5, AlteredComment
    <2>. QED BY <1>3, <2>2, <2>3
  <1>6. ASSUME NEW c \in DOMAIN comments, NEW t \in Texts, NEW kept \in BOOLEAN,
               MeddleComment(c, t, kept) \/ MeddleDelete(c)
        PROVE  CommentsOK'
    <2>1. PICK y : y = <<"slack", comments[c].of>>
      OBVIOUS
    <2>2. Aside(y) /\ y \in tangled' /\ WorldGrows /\ UNCHANGED rows
      BY <1>6, <2>1, MeddleCommentAside, AlterCommentSound DEF MeddleComment, MeddleDelete, Act
    <2>. QED BY <1>2, <2>2
  <1>7. ASSUME NEW r \in 0..Len(messages), NEW t \in Texts, WriteMessage(r, t) PROVE CommentsOK'
    <2>1. PICK n, y : n = Len(messages) + 1 /\ y = <<"slack", n>>
      OBVIOUS
    <2>2. Aside(y) /\ WorldGrows /\ UNCHANGED rows
      BY <1>7, <2>1, WriteMessageAside, WriteMessageSound DEF WriteMessage, Act
    <2>. QED BY <1>2, <2>1, <2>2
  <1>8. ASSUME NEW m \in DOMAIN messages, (\E t \in Texts : EditMessage(m, t)) \/ DeleteMessage(m)
        PROVE  CommentsOK'
    <2>1. PICK y : y = <<"slack", m>>
      OBVIOUS
    <2>2. Aside(y) /\ WorldGrows /\ UNCHANGED rows
      BY <1>8, <2>1, AlterMessageAside DEF EditMessage, DeleteMessage, Act
    <2>. QED BY <1>2, <2>1, <2>2
  <1>9. ASSUME NEW m \in DOMAIN messages, MeddleMessage(m) PROVE CommentsOK'
    <2>1. PICK y : y = <<"github", messages[m].of>>
      OBVIOUS
    <2>2. Aside(y) /\ y \in tangled' /\ WorldGrows /\ UNCHANGED rows
      BY <1>9, <2>1, MeddleMessageAside DEF MeddleMessage, Act
    <2>. QED BY <1>2, <2>2
  <1>10. ASSUME NEW p \in PRs, Toggle(p) PROVE CommentsOK'
    <2>1. UNCHANGED <<comments, messages, rows, inbox, handlers, tangled>>
      BY <1>10 DEF Toggle
    <2>2. Aside(None) /\ WorldGrows
      BY <2>1, NothingAside DEF WorldGrows
    <2>3. \A c : None # <<"github", c>> \/ None \in tangled' \/ c \notin DOMAIN comments
      <3>1. ASSUME NEW c \in DOMAIN comments PROVE None # <<"github", c>>
        <4>1. c \in Nat
          BY DEF Sound, Stored
        <4>. QED BY <4>1, MessageSyncAssumption
      <3>. QED BY <3>1
    <2>4. RowsGrow
      BY <2>1, SameTable
    <2>. QED BY <1>1, <2>1, <2>2, <2>3, <2>4, CommentsBut
  <1>. QED BY <1>4, <1>5, <1>6, <1>7, <1>8, <1>9, <1>10, Acts

LEMMA CommentsNext ==
  ASSUME Sound, IInv, OneByOne, CommentsOK, [Next]_vars
  PROVE  CommentsOK'
  <1>1. CASE UNCHANGED vars
    <2>1. UNCHANGED <<comments, messages, rows, inbox, handlers, tangled>>
      BY <1>1 DEF vars, world
    <2>2. Aside(None) /\ WorldGrows
      BY <2>1, NothingAside DEF WorldGrows
    <2>3. \A c : None # <<"github", c>> \/ c \notin DOMAIN comments
      <3>1. ASSUME NEW c \in DOMAIN comments PROVE None # <<"github", c>>
        <4>1. c \in Nat
          BY DEF Sound, Stored
        <4>. QED BY <4>1, MessageSyncAssumption
      <3>. QED BY <3>1
    <2>4. RowsGrow
      BY <2>1, SameTable
    <2>. QED BY <2>1, <2>2, <2>3, <2>4, CommentsBut
  <1>. QED BY <1>1, PeopleComments, WorkOrNot, ReceiveComments, WorkComments DEF Next

LEMMA CommentsInvariant == Spec => [](Sound /\ CommentsOK)
  <1>1. Init => CommentsOK
    BY DEF Init, CommentsOK
  <1>2. IInv /\ Sound /\ OneByOne /\ CommentsOK /\ [Next]_vars => CommentsOK'
    BY CommentsNext
  <1>. QED BY <1>1, <1>2, MessagesInvariant, PTL DEF Spec

-----------------------------------------------------------------------------
(* Oldest first, and the theorems about comments *)

\* The elements of an ascending sequence, in order, are the sequence itself.
LEMMA Counted ==
  ASSUME NEW s \in Seq(Nat), Ascending(s), NEW k \in 0..Len(s)
  PROVE  Cardinality(First(s, k)) = k
  <1>1. k \in Nat /\ \A i \in 1..k : i \in 1..Len(s) /\ s[i] \in Nat
    OBVIOUS
  <1>2. PICK f : f = [i \in 1..k |-> s[i]]
    OBVIOUS
  <1>3. f \in [1..k -> First(s, k)] /\ \A y \in First(s, k) : \E i \in 1..k : f[i] = y
    BY <1>2 DEF First
  <1>4. ASSUME NEW i \in 1..k, NEW j \in 1..k, f[i] = f[j] PROVE i = j
    <2>1. ~(s[i] < s[j]) /\ ~(s[j] < s[i])
      BY <1>1, <1>2, <1>4
    <2>2. ~(i < j) /\ ~(j < i)
      BY <1>1, <2>1 DEF Ascending
    <2>. QED BY <1>1, <2>2
  <1>5. ExistsBijection(1..k, First(s, k))
    BY <1>3, <1>4 DEF ExistsBijection, Bijection, Injection, Surjection, IsInjective
  <1>. QED BY <1>1, <1>5, FS_CountingElements

LEMMA Earlier ==
  ASSUME NEW s \in Seq(Nat), Ascending(s), NEW k \in 1..Len(s)
  PROVE  {j \in Elements(s) : j < s[k]} = First(s, k - 1)
  <1>1. \A i \in 1..Len(s) : s[i] \in Nat
    OBVIOUS
  <1>2. ASSUME NEW i \in 1..Len(s) PROVE s[i] < s[k] <=> i \in 1..(k - 1)
    <2>1. CASE i < k
      BY <2>1 DEF Ascending
    <2>2. CASE i = k
      BY <1>1, <2>2
    <2>3. CASE i > k
      BY <1>1, <2>3 DEF Ascending
    <2>. QED BY <2>1, <2>2, <2>3
  <1>3. 1..(k - 1) \subseteq 1..Len(s)
    OBVIOUS
  <1>. QED BY <1>2, <1>3 DEF Elements, First

LEMMA InOrder ==
  ASSUME NEW s \in Seq(Nat), Ascending(s), NEW c, LiveFor(c) = Elements(s)
  PROVE  ShownFor(c) = s
  <1>1. PICK live : live = Elements(s)
    OBVIOUS
  <1>2. Len(s) \in Nat /\ s = [k \in 1..Len(s) |-> s[k]]
    OBVIOUS
  <1>3. Cardinality(live) = Len(s)
    <2>1. Elements(s) = First(s, Len(s)) /\ Len(s) \in 0..Len(s)
      BY <1>2 DEF Elements, First
    <2>. QED BY <1>1, <2>1, Counted
  <1>4. ASSUME NEW k \in 1..Len(s)
        PROVE  s[k] \in live /\ \A m \in live : Cardinality({j \in live : j < m}) = k - 1 <=> m = s[k]
    <2>1. s[k] \in live
      BY <1>1 DEF Elements
    <2>2. ASSUME NEW i \in 1..Len(s)
          PROVE  Cardinality({j \in live : j < s[i]}) = i - 1
      <3>1. {j \in live : j < s[i]} = First(s, i - 1)
        BY <1>1, Earlier
      <3>2. i - 1 \in 0..Len(s)
        BY <1>2
      <3>. QED BY <3>1, <3>2, Counted
    <2>3. \A m \in live : \E i \in 1..Len(s) : m = s[i]
      BY <1>1 DEF Elements
    <2>. QED BY <2>1, <2>2, <2>3
  <1>5. \A k \in 1..Len(s) : Nth(live, k) = s[k]
    BY <1>4 DEF Nth
  <1>6. {m \in DOMAIN messages : messages[m].by = "app" /\ messages[m].of = c /\ messages[m].live} = live
    BY <1>1 DEF LiveFor, AppsOf
  <1>7. ShownFor(c) = OldestFirst(live)
    BY <1>6 DEF ShownFor
  <1>8. OldestFirst(live) = [k \in 1..Len(s) |-> Nth(live, k)]
    BY <1>3 DEF OldestFirst
  <1>. QED BY <1>2, <1>5, <1>7, <1>8

LEMMA ShownInOrder ==
  ASSUME Sound, CommentsOK, NEW c \in DOMAIN comments, comments[c].of = 0, Settled(<<"github", c>>)
  PROVE  IF comments[c].live
         THEN \E i \in RowsFor(c) :
                /\ RowsFor(c) = {i} /\ ShownFor(c) = Listed(i) /\ Good(Listed(i), comments[c].pr)
                /\ Len(Listed(i)) = Len(Parts[comments[c].text]) /\ Listed(i) \in Seq(Nat)
                /\ Telling(Listed(i), comments[c].text, Len(Parts[comments[c].text]))
         ELSE RowsFor(c) = {} /\ ShownFor(c) = <<>>
  <1>1. IF comments[c].live THEN Filed(c) /\ Tells(c) ELSE Bare(c)
    BY DEF CommentsOK, CommentOK, Settled
  <1>2. CASE comments[c].live
    <2>1. PICK i \in RowsFor(c) : RowsFor(c) = {i} /\ LiveFor(c) = Elements(Listed(i))
                                  /\ Good(Listed(i), comments[c].pr)
      BY <1>1, <1>2 DEF Filed
    <2>2. PICK s : s = Listed(i)
      OBVIOUS
    <2>3. s \in Seq(AppsOf(c)) /\ AppsOf(c) \subseteq Nat
      BY <2>2, OwnListed DEF AppsOf, Sound, Stored
    <2>4. s \in Seq(Nat)
      BY <2>3
    <2>5. ShownFor(c) = s
      BY <2>1, <2>2, <2>4, InOrder DEF Good
    <2>. QED BY <1>1, <1>2, <2>1, <2>2, <2>4, <2>5 DEF Tells
  <1>3. CASE ~comments[c].live
    <2>1. PICK s : s = <<>>
      OBVIOUS
    <2>2. s \in Seq(Nat) /\ Ascending(s) /\ Elements(s) = {}
      BY <2>1 DEF Ascending, Elements
    <2>3. ShownFor(c) = s
      BY <1>1, <1>3, <2>2, InOrder DEF Bare
    <2>. QED BY <1>1, <1>3, <2>1, <2>3 DEF Bare
  <1>. QED BY <1>2, <1>3

LEMMA CommentsSeen ==
  ASSUME Sound, CommentsOK
  PROVE  CommentsShown /\ RowsName
  <1>1. ASSUME NEW c \in DOMAIN comments, comments[c].of = 0, Settled(<<"github", c>>), NEW ms, ms = ShownFor(c)
        PROVE  /\ [k \in DOMAIN ms |-> messages[ms[k]].part] =
                    IF comments[c].live THEN Parts[comments[c].text] ELSE <<>>
               /\ \A k \in DOMAIN ms : k = 1 \/ comments[c].pr = 0 =>
                    messages[ms[k]].thread = IF k = 1 THEN comments[c].pr ELSE ms[1]
    <2>1. CASE comments[c].live
      <3>1. PICK t, n : t = comments[c].text /\ n = Len(Parts[t])
        OBVIOUS
      <3>2. Len(ms) = n /\ ms \in Seq(Nat) /\ Under(ms, comments[c].pr) /\ Telling(ms, t, n)
        BY <1>1, <2>1, <3>1, ShownInOrder DEF Good
      <3>3. DOMAIN ms = 1..n
        BY <3>2
      <3>4. Parts[t] = [k \in 1..n |-> Parts[t][k]]
        <4>1. t \in Texts
          <5>1. comments[c] \in Comments
            BY DEF Sound, Stored
          <5>. QED BY <3>1, <5>1 DEF Comments
        <4>. QED BY <3>1, <4>1, MessageSyncAssumption
      <3>5. ASSUME NEW k \in DOMAIN ms, k = 1 \/ comments[c].pr = 0
            PROVE  messages[ms[k]].thread = IF k = 1 THEN comments[c].pr ELSE ms[1]
        <4>1. k \in 1..Len(ms) /\ (k # 1 => k > 1)
          BY <3>2
        <4>. QED BY <3>2, <3>5, <4>1 DEF Under
      <3>6. [k \in DOMAIN ms |-> messages[ms[k]].part] = Parts[t]
        BY <3>2, <3>3, <3>4 DEF Telling
      <3>. QED BY <2>1, <3>1, <3>5, <3>6
    <2>2. CASE ~comments[c].live
      <3>1. ms = <<>> /\ DOMAIN ms = {}
        BY <1>1, <2>2, ShownInOrder
      <3>. QED BY <2>2, <3>1
    <2>. QED BY <2>1, <2>2
  <1>2. ASSUME NEW c \in DOMAIN comments, comments[c].of = 0, Settled(<<"github", c>>), NEW found,
               found = {i \in DOMAIN rows : rows[i].live /\ rows[i].comment = c}
        PROVE  IF comments[c].live
               THEN \E i \in found : found = {i} /\ <<rows[i].ts>> \o rows[i].extra = ShownFor(c)
               ELSE found = {}
    <2>1. found = RowsFor(c)
      BY <1>2 DEF RowsFor
    <2>. QED BY <1>2, <2>1, ShownInOrder DEF Listed
  <1>. QED BY <1>1, <1>2 DEF CommentsShown, RowsName

\* A person's comment is in Slack part by part, in order and nothing else of it, and one
\* deleted is not there: once nothing about it is under way, unless its handlers ran into
\* each other or failed.  Its first message is in the pull request's place, and in the
\* pull request's own channel the others are in the first one's thread.
THEOREM GitHubReachesSlack == Spec => []CommentsShown
BY CommentsSeen, CommentsInvariant, PTL

\* The row of a person's comment names the messages that show it, all of them and no others,
\* once nothing about it is under way, unless its handlers ran into each other or failed.
THEOREM RowsRight == Spec => []RowsName
BY CommentsSeen, CommentsInvariant, PTL

-----------------------------------------------------------------------------
(* A reply and what it answers *)

LEMMA SourceOf ==
  ASSUME Sound, IInv, NEW r \in DOMAIN messages
  PROVE  /\ messages[r].by = "person" => Source(r) = <<"slack", r>> /\ Source(r) # None
         /\ messages[r].by = "app" => Source(r) = <<"github", messages[r].of>> /\ Source(r) # None
                                      /\ messages[r].of \in DOMAIN comments /\ comments[messages[r].of].of = 0
         /\ messages[r].by \notin {"person", "app"} => Source(r) = None
  <1>1. r \in Nat
    BY DEF Sound, Stored
  <1>2. CASE messages[r].by = "person"
    BY <1>1, <1>2, MessageSyncAssumption DEF Source
  <1>3. CASE messages[r].by = "app"
    <2>1. messages[r].of \in DOMAIN comments /\ comments[messages[r].of].of = 0
      BY <1>3 DEF IInv, Copies, OwnComment
    <2>2. messages[r].of \in Nat
      BY <2>1 DEF Sound, Stored
    <2>. QED BY <1>3, <2>1, <2>2, MessageSyncAssumption DEF Source
  <1>4. CASE messages[r].by \notin {"person", "app"}
    BY <1>4 DEF Source
  <1>. QED BY <1>2, <1>3, <1>4

LEMMA SourceKept ==
  ASSUME WorldGrows, NEW r \in DOMAIN messages
  PROVE  Source(r)' = Source(r)
BY DEF WorldGrows, Source

LEMMA AboutKept ==
  ASSUME Sound, IInv, WorldGrows, NEW r \in DOMAIN messages, messages[r].by = "person" => Made(r)' = Made(r)
  PROVE  About(r)' = About(r)
  <1>1. messages'[r].by = messages[r].by /\ messages'[r].of = messages[r].of
    BY DEF WorldGrows
  <1>2. CASE messages[r].by = "person"
    <2>1. \A k \in Made(r) : comments'[k].pr = comments[k].pr
      BY DEF WorldGrows, Made
    <2>2. {comments'[k].pr : k \in Made(r)'} = {comments[k].pr : k \in Made(r)}
      BY <1>2, <2>1
    <2>. QED BY <1>1, <1>2, <2>2 DEF About
  <1>3. CASE messages[r].by = "app"
    <2>1. comments'[messages[r].of].pr = comments[messages[r].of].pr
      BY <1>3, SourceOf DEF WorldGrows
    <2>. QED BY <1>1, <1>3, <2>1 DEF About
  <1>4. CASE messages[r].by \notin {"person", "app"}
    BY <1>1, <1>4 DEF About
  <1>. QED BY <1>2, <1>3, <1>4

\* What a reply needs, part by part.
LEMMA ReplyNow ==
  ASSUME Sound, IInv, WorldGrows, NEW m, NEW r \in DOMAIN messages, NEW x, x = <<"slack", m>>, NEW y, y = Source(r),
         messages[r].by = "person" => Made(r)' = Made(r),
         y # None => Past(y)',
         \A e \in inbox' : Item(e) = x /\ e.kind = "new" /\ y # None => ~Busy(y)',
         \A h \in Handlers : On(h, x)' /\ pc'[h] = "comment" => About(r) \subseteq {pr'[h]},
         \A c \in Made(m)' : About(r) \subseteq {comments'[c].pr}
  PROVE  ReplyOK(m, r)'
  <1>1. Source(r)' = y /\ About(r)' = About(r)
    BY SourceKept, AboutKept
  <1>2. (y # None => Past(y)') => (Source(r) # None => Past(Source(r)))'
    BY <1>1 DEF Past, On
  <1>3. \A e \in inbox' : Item(e) = x /\ e.kind = "new" /\ Source(r)' # None => ~Busy(Source(r))'
    BY <1>1 DEF Busy
  <1>4. \A h \in Handlers : On(h, x)' /\ pc'[h] = "comment" => About(r)' \subseteq {pr'[h]}
    BY <1>1
  <1>5. \A c \in Made(m)' : About(r)' \subseteq {comments'[c].pr}
    BY <1>1
  <1>. QED BY <1>2, <1>3, <1>4, <1>5 DEF ReplyOK, On

LEMMA PastStill ==
  ASSUME NEW y, StillItem(y)
  PROVE  (Past(y) => Past(y)') /\ (Busy(y)' <=> Busy(y))
  <1>1. Past(y) => Past(y)'
    BY DEF Past, StillItem, SameLocals
  <1>2. Busy(y)' <=> Busy(y)
    BY DEF StillItem, Busy, On, SameLocals
  <1>. QED BY <1>1, <1>2

LEMMA ReplyStill ==
  ASSUME Sound, IInv, WorldGrows, NEW m, NEW r \in DOMAIN messages, NEW x, x = <<"slack", m>>, NEW y, y = Source(r),
         StillItem(x), StillMessage(m), messages[r].by = "person" => StillMessage(r), y # None => StillItem(y),
         ReplyOK(m, r)
  PROVE  ReplyOK(m, r)'
  <1>1. messages[r].by = "person" => Made(r)' = Made(r)
    BY DEF StillMessage
  <1>2. y # None => Past(y)'
    BY PastStill DEF ReplyOK
  <1>3. ASSUME NEW e \in inbox', Item(e) = x, e.kind = "new", y # None PROVE ~Busy(y)'
    <2>1. e \in inbox
      BY <1>3 DEF StillItem
    <2>. QED BY <1>3, <2>1, PastStill DEF ReplyOK
  <1>4. ASSUME NEW h \in Handlers, On(h, x)', pc'[h] = "comment" PROVE About(r) \subseteq {pr'[h]}
    <2>1. On(h, x) /\ pc[h] = "comment" /\ pr'[h] = pr[h]
      BY <1>4 DEF StillItem, SameLocals
    <2>. QED BY <2>1 DEF ReplyOK
  <1>5. \A c \in Made(m)' : About(r) \subseteq {comments'[c].pr}
    BY DEF StillMessage, ReplyOK
  <1>. QED BY <1>1, <1>2, <1>3, <1>4, <1>5, ReplyNow

\* No message comes back, and one comes at a time.
MessagesPass ==
  /\ \A k \in DOMAIN messages : messages'[k].live => messages[k].live
  /\ DOMAIN messages' \subseteq 1..(Len(messages) + 1)

LEMMA RepliesBut ==
  ASSUME Sound, IInv, Sound', RepliesOK, WorldGrows, MessagesPass, tangled \subseteq tangled', NEW y, Aside(y),
         \A m \in DOMAIN messages' : \A r \in DOMAIN messages :
           /\ y \notin tangled' /\ Answers(m, r)'
           /\ y = <<"slack", m>> \/ (y = Source(r) /\ y # None /\ m \in DOMAIN messages)
           => ReplyOK(m, r)'
  PROVE  RepliesOK'
  <1>1. ASSUME NEW m \in DOMAIN messages', NEW r \in DOMAIN messages', Answers(m, r)'
        PROVE  ReplyOK(m, r)'
    <2>1. PICK x : x = <<"slack", m>>
      OBVIOUS
    <2>2. messages'[m].by = "person" /\ r = messages'[m].thread /\ r # 0 /\ x \notin tangled'
          /\ messages'[r].live /\ (Source(r)' # None => Source(r)' \notin tangled')
      BY <1>1, <2>1 DEF Answers
    <2>3. r \in Nat /\ m \in Nat /\ r < m
      BY <2>2 DEF Sound, Stored, Placed
    <2>4. r \in DOMAIN messages
      <3>1. messages \in Seq(Messages)
        BY DEF Sound, Stored
      <3>2. m <= Len(messages) + 1
        BY <3>1 DEF MessagesPass
      <3>. QED BY <2>2, <2>3, <3>1, <3>2
    <2>5. Source(r)' = Source(r)
      BY <2>4, SourceKept
    <2>6. CASE y = x
      BY <1>1, <2>1, <2>2, <2>4, <2>6
    <2>7. CASE y # x
      <3>1. m \in DOMAIN messages
        BY <2>1, <2>2, <2>7 DEF Aside
      <3>2. CASE y = Source(r) /\ y # None
        BY <1>1, <2>2, <2>4, <2>5, <3>1, <3>2
      <3>3. CASE ~(y = Source(r) /\ y # None)
        <4>1. messages[m].by = "person" /\ messages[m].thread = r
          BY <2>2, <3>1 DEF WorldGrows
        <4>2. messages[r].live
          BY <2>2, <2>4 DEF MessagesPass
        <4>3. ReplyOK(m, r)
          BY <2>1, <2>2, <2>4, <2>5, <3>1, <4>1, <4>2 DEF RepliesOK, Answers
        <4>4. StillItem(x) /\ StillMessage(m)
          BY <2>1, <2>7, <3>1, <4>1 DEF Aside
        <4>5. messages[r].by = "person" => StillMessage(r) /\ StillItem(Source(r))
          BY <2>4, <3>3, SourceOf DEF Aside
        <4>6. messages[r].by = "app" => StillItem(Source(r))
          BY <2>4, <3>3, SourceOf DEF Aside
        <4>7. PICK z : z = Source(r)
          OBVIOUS
        <4>8. messages[r].by \notin {"person", "app"} => z = None
          BY <2>4, <4>7, SourceOf
        <4>. QED BY <2>1, <2>4, <4>3, <4>4, <4>5, <4>6, <4>7, <4>8, ReplyStill
      <3>. QED BY <3>2, <3>3
    <2>. QED BY <2>6, <2>7
  <1>. QED BY <1>1 DEF RepliesOK

\* Only what copies a message makes a comment of one.
LEMMA MadeByWork ==
  ASSUME Sound, NEW h \in Handlers, Working(h), NEW k
  PROVE  \A c \in Made(k)' :
           \/ c \in Made(k) /\ comments'[c].pr = comments[c].pr
           \/ pc[h] = "comment" /\ k = job[h].item /\ comments'[c].pr = pr[h]
  <1>1. WorldGrows
    BY WorkSound
  <1>2. comments \in Seq(Comments)
    BY DEF Sound, Stored
  <1>3. CASE Comment(h)
    <2>1. PICK new, n, s : /\ new = [pr |-> pr[h], of |-> job[h].item, text |-> job[h].text, tagged |-> TRUE, live |-> TRUE]
                           /\ n = Len(comments) + 1 /\ s = comments'
      OBVIOUS
    <2>2. s = Append(comments, new) /\ pc[h] = "comment"
      BY <1>3, <2>1 DEF Comment
    <2>3. DOMAIN s = DOMAIN comments \cup {n} /\ s[n] = new /\ \A j \in DOMAIN comments : s[j] = comments[j]
      BY ONLY <1>2, <2>1, <2>2, Appended
    <2>4. new.pr = pr[h] /\ new.of = job[h].item
      BY <2>1
    <2>5. ASSUME NEW c \in DOMAIN comments', comments'[c].of = k
          PROVE  \/ c \in DOMAIN comments /\ comments'[c] = comments[c]
                 \/ k = job[h].item /\ comments'[c].pr = pr[h]
      BY <2>1, <2>3, <2>4, <2>5
    <2>. QED BY <2>2, <2>5 DEF Made
  <1>4. CASE ~Comment(h)
    <2>1. DOMAIN comments' = DOMAIN comments
      <3>1. CASE Rewrite(h) \/ Uncomment(h)
        BY <1>2, <3>1 DEF Rewrite, Uncomment
      <3>2. CASE ~(Rewrite(h) \/ Uncomment(h))
        BY <1>4, <3>2 DEF Working, Post, FallBack, MapComment, Resync, SetExtra, Unpost, DropRow, Record, Notify, Die,
                          world
      <3>. QED BY <3>1, <3>2
    <2>. QED BY <1>1, <2>1 DEF Made, WorldGrows
  <1>. QED BY <1>3, <1>4

LEMMA MessagesPassOne ==
  ASSUME Sound, \/ UNCHANGED messages
                \/ \E new : messages' = Append(messages, new)
                \/ \E k, part : messages' = [messages EXCEPT ![k].part = part]
                \/ \E k : messages' = [messages EXCEPT ![k].live = FALSE]
                \/ \E k, text : messages' = [messages EXCEPT ![k].text = text]
  PROVE  MessagesPass
  <1>1. /\ messages \in Seq(Messages) /\ DOMAIN messages = 1..Len(messages) /\ Len(messages) \in Nat
        /\ 1..Len(messages) \subseteq 1..(Len(messages) + 1)
    BY DEF Sound, Stored
  <1>2. CASE UNCHANGED messages
    BY <1>1, <1>2 DEF MessagesPass
  <1>3. ASSUME NEW new, messages' = Append(messages, new) PROVE MessagesPass
    <2>1. PICK s, n : s = messages' /\ n = Len(messages) + 1
      OBVIOUS
    <2>2. DOMAIN s = DOMAIN messages \cup {n} /\ \A j \in DOMAIN messages : s[j] = messages[j]
      BY ONLY <1>1, <1>3, <2>1, Appended
    <2>. QED BY ONLY <1>1, <2>1, <2>2 DEF MessagesPass
  <1>4. ASSUME NEW k, NEW part, messages' = [messages EXCEPT ![k].part = part] PROVE MessagesPass
    <2>1. DOMAIN messages' = 1..Len(messages)
      BY <1>1, <1>4
    <2>2. ASSUME NEW j \in DOMAIN messages PROVE messages'[j].live => messages[j].live
      <3>1. messages[j] \in Messages
        BY <1>1
      <3>2. j # k => messages'[j] = messages[j]
        BY <1>1, <1>4
      <3>3. k \in DOMAIN messages => messages'[k] = [messages[k] EXCEPT !.part = part]
        BY <1>1, <1>4
      <3>4. k \in DOMAIN messages => (messages'[k].live => messages[k].live)
        <4>1. PICK v, w : v = messages[k] /\ w = messages'[k]
          OBVIOUS
        <4>2. ASSUME k \in DOMAIN messages PROVE w.live => v.live
          <5>1. v \in Messages /\ w = [v EXCEPT !.part = part]
            BY <1>1, <3>3, <4>1, <4>2
          <5>. QED BY <5>1 DEF Messages
        <4>. QED BY <4>1, <4>2
      <3>. QED BY <3>2, <3>4
    <2>. QED BY ONLY <1>1, <2>1, <2>2 DEF MessagesPass
  <1>5. ASSUME NEW k, messages' = [messages EXCEPT ![k].live = FALSE] PROVE MessagesPass
    <2>1. DOMAIN messages' = 1..Len(messages)
      BY <1>1, <1>5
    <2>2. ASSUME NEW j \in DOMAIN messages PROVE messages'[j].live => messages[j].live
      <3>1. messages[j] \in Messages
        BY <1>1
      <3>2. j # k => messages'[j] = messages[j]
        BY <1>1, <1>5
      <3>3. k \in DOMAIN messages => messages'[k] = [messages[k] EXCEPT !.live = FALSE]
        BY <1>1, <1>5
      <3>4. k \in DOMAIN messages => (messages'[k].live => messages[k].live)
        <4>1. PICK v, w : v = messages[k] /\ w = messages'[k]
          OBVIOUS
        <4>2. ASSUME k \in DOMAIN messages PROVE w.live => v.live
          <5>1. v \in Messages /\ w = [v EXCEPT !.live = FALSE]
            BY <1>1, <3>3, <4>1, <4>2
          <5>. QED BY <5>1 DEF Messages
        <4>. QED BY <4>1, <4>2
      <3>. QED BY <3>2, <3>4
    <2>. QED BY ONLY <1>1, <2>1, <2>2 DEF MessagesPass
  <1>6. ASSUME NEW k, NEW text, messages' = [messages EXCEPT ![k].text = text] PROVE MessagesPass
    <2>1. DOMAIN messages' = 1..Len(messages)
      BY <1>1, <1>6
    <2>2. ASSUME NEW j \in DOMAIN messages PROVE messages'[j].live => messages[j].live
      <3>1. messages[j] \in Messages
        BY <1>1
      <3>2. j # k => messages'[j] = messages[j]
        BY <1>1, <1>6
      <3>3. k \in DOMAIN messages => messages'[k] = [messages[k] EXCEPT !.text = text]
        BY <1>1, <1>6
      <3>4. k \in DOMAIN messages => (messages'[k].live => messages[k].live)
        <4>1. PICK v, w : v = messages[k] /\ w = messages'[k]
          OBVIOUS
        <4>2. ASSUME k \in DOMAIN messages PROVE w.live => v.live
          <5>1. v \in Messages /\ w = [v EXCEPT !.text = text]
            BY <1>1, <3>3, <4>1, <4>2
          <5>. QED BY <5>1 DEF Messages
        <4>. QED BY <4>1, <4>2
      <3>. QED BY <3>2, <3>4
    <2>. QED BY ONLY <1>1, <2>1, <2>2 DEF MessagesPass
  <1>. QED BY <1>2, <1>3, <1>4, <1>5, <1>6

LEMMA WorkPasses ==
  ASSUME Sound, NEW h \in Handlers, Working(h)
  PROVE  MessagesPass
  <1>1. \/ UNCHANGED messages
        \/ \E new : messages' = Append(messages, new)
        \/ \E k, part : messages' = [messages EXCEPT ![k].part = part]
        \/ \E k : messages' = [messages EXCEPT ![k].live = FALSE]
    <2>1. CASE Post(h) \/ Notify(h)
      BY <2>1 DEF Post, Notify, Say
    <2>2. CASE Resync(h)
      BY <2>2 DEF Resync, Say
    <2>3. CASE Unpost(h)
      BY <2>3 DEF Unpost
    <2>4. CASE ~(Post(h) \/ Notify(h) \/ Resync(h) \/ Unpost(h))
      BY <2>4 DEF Working, FallBack, MapComment, SetExtra, DropRow, Comment, Record, Rewrite, Uncomment, Die, world
    <2>. QED BY <2>1, <2>2, <2>3, <2>4
  <1>. QED BY <1>1, MessagesPassOne

-----------------------------------------------------------------------------
(* What a handler does to a reply *)

LEMMA AnsweredBefore ==
  ASSUME WorldGrows, MessagesPass, tangled \subseteq tangled', NEW m \in DOMAIN messages, NEW r \in DOMAIN messages,
         Answers(m, r)'
  PROVE  Answers(m, r)
  <1>1. Source(r)' = Source(r)
    BY SourceKept
  <1>. QED BY <1>1 DEF Answers, WorldGrows, MessagesPass

LEMMA ThreadBefore ==
  ASSUME Sound, IInv, NEW m \in DOMAIN messages, NEW r \in DOMAIN messages, Answers(m, r), NEW x, x = <<"slack", m>>
  PROVE  r # m /\ messages[r].thread = 0 /\ (Source(r) # None => Source(r) # x /\ Own(Source(r)))
  <1>1. messages[m].by = "person" /\ messages[m].thread = r /\ r # 0
    BY DEF Answers
  <1>2. r \in Nat /\ m \in Nat /\ r < m /\ messages[r].thread = 0
    BY <1>1 DEF Sound, Stored, Placed
  <1>3. Source(r) # None => Source(r) # x /\ Own(Source(r))
    BY <1>2, SourceOf DEF Own
  <1>. QED BY <1>2, <1>3

LEMMA WorkedOn ==
  ASSUME Sound, NEW h \in Handlers, Working(h)
  PROVE  pc'[h] # "comment"
  <1>1. pc \in [Handlers -> Stages] /\ pc[h] # "idle"
    BY WorkSound DEF Sound, LocalsOK
  <1>2. CASE FallBack(h)
    BY <1>2 DEF FallBack
  <1>3. CASE ~FallBack(h)
    BY <1>1, <1>3 DEF Working, Post, MapComment, Resync, SetExtra, Unpost, DropRow, Comment, Record, Notify, Rewrite,
                      Uncomment, Die, Goto, Done
  <1>. QED BY <1>2, <1>3

LEMMA WorkReply ==
  ASSUME Sound, IInv, NEW h \in Handlers, Working(h), NEW m \in DOMAIN messages, NEW r \in DOMAIN messages,
         Answers(m, r), ReplyOK(m, r), NEW x, x = <<"slack", m>>, NEW s, s = Source(r),
         NEW y, y = Item(job[h]), y = x \/ (y = s /\ s # None)
  PROVE  ReplyOK(m, r)'
  <1>1. /\ WorldGrows /\ pc[h] # "idle" /\ inbox' = inbox
        /\ \A g \in Handlers \ {h} : SameLocals(g)
        /\ pc'[h] = "idle" \/ job' = job
    BY WorkSound
  <1>2. Aside(y) /\ pc'[h] # "comment"
    BY WorkAside, WorkedOn
  <1>3. messages[m].by = "person" /\ r # m /\ (s # None => s # x /\ Own(s))
    BY ThreadBefore DEF Answers
  <1>4. On(h, y)
    BY <1>1 DEF On
  <1>5. /\ s # None => Past(s)
        /\ \A e \in inbox : Item(e) = x /\ e.kind = "new" /\ s # None => ~Busy(s)
        /\ \A g \in Handlers : On(g, x) /\ pc[g] = "comment" => About(r) \subseteq {pr[g]}
        /\ \A c \in Made(m) : About(r) \subseteq {comments[c].pr}
    BY DEF ReplyOK
  <1>6. CASE y = x
    <2>1. messages[r].by = "person" => StillMessage(r)
      <3>1. messages[r].by = "person" => <<"slack", r>> # y
        BY <1>3, <1>6
      <3>. QED BY <1>2, <3>1 DEF Aside
    <2>2. s # None => StillItem(s)
      <3>1. ASSUME s # None PROVE StillItem(s)
        <4>1. s # y
          BY <1>3, <1>6, <3>1
        <4>2. CASE messages[r].by = "person"
          BY <1>2, <4>1, <4>2, SourceOf DEF Aside
        <4>3. CASE messages[r].by = "app"
          BY <1>2, <4>1, <4>3, SourceOf DEF Aside
        <4>. QED BY <3>1, <4>2, <4>3, SourceOf
      <3>. QED BY <3>1
    <2>3. messages[r].by = "person" => Made(r)' = Made(r)
      BY <2>1 DEF StillMessage
    <2>4. s # None => Past(s)'
      BY <1>5, <2>2, PastStill
    <2>5. \A e \in inbox' : Item(e) = x /\ e.kind = "new" /\ s # None => ~Busy(s)'
      BY <1>1, <1>5, <2>2, PastStill
    <2>6. \A g \in Handlers : On(g, x)' /\ pc'[g] = "comment" => About(r) \subseteq {pr'[g]}
      BY <1>1, <1>2, <1>5 DEF On, SameLocals
    <2>7. \A c \in Made(m)' : About(r) \subseteq {comments'[c].pr}
      <3>1. ASSUME NEW c \in Made(m)' PROVE About(r) \subseteq {comments'[c].pr}
        <4>1. CASE c \in Made(m) /\ comments'[c].pr = comments[c].pr
          BY <1>5, <4>1
        <4>2. CASE pc[h] = "comment" /\ comments'[c].pr = pr[h]
          BY <1>4, <1>5, <1>6, <4>2
        <4>. QED BY <3>1, <4>1, <4>2, MadeByWork
      <3>. QED BY <3>1
    <2>. QED BY <1>1, <2>3, <2>4, <2>5, <2>6, <2>7, ReplyNow
  <1>7. CASE y = s /\ s # None
    <2>1. StillItem(x) /\ StillMessage(m)
      BY <1>2, <1>3, <1>7 DEF Aside
    <2>2. job[h].kind # "new" /\ pc[h] # "comment"
      <3>1. job[h].kind # "new"
        BY <1>4, <1>5, <1>7 DEF Past
      <3>2. StageOK(h)
        BY <1>1, Holding
      <3>. QED BY <3>1, <3>2 DEF StageOK
    <2>3. Made(r)' = Made(r)
      <3>1. Made(r)' \subseteq Made(r)
        BY <2>2, MadeByWork
      <3>2. Made(r) \subseteq Made(r)'
        BY <1>1 DEF Made, WorldGrows
      <3>. QED BY <3>1, <3>2
    <2>4. Past(s)'
      <3>1. \A g \in Handlers : On(g, s)' => job'[g].kind # "new"
        BY <1>1, <1>5, <1>7, <2>2 DEF Past, On, SameLocals
      <3>2. \A e \in inbox' : Item(e) = s => e.kind # "new"
        BY <1>1, <1>5, <1>7 DEF Past
      <3>. QED BY <3>1, <3>2 DEF Past, On
    <2>5. \A e \in inbox' : ~(Item(e) = x /\ e.kind = "new")
      BY <1>1, <1>4, <1>5, <1>7 DEF Busy, On
    <2>6. \A g \in Handlers : On(g, x)' /\ pc'[g] = "comment" => About(r) \subseteq {pr'[g]}
      BY <1>5, <2>1 DEF StillItem, SameLocals
    <2>7. \A c \in Made(m)' : About(r) \subseteq {comments'[c].pr}
      BY <1>5, <2>1 DEF StillMessage
    <2>. QED BY <1>1, <2>3, <2>4, <2>5, <2>6, <2>7, ReplyNow
  <1>. QED BY <1>6, <1>7

LEMMA WorkReplies ==
  ASSUME Sound, IInv, OneByOne, RepliesOK, NEW h \in Handlers, Working(h)
  PROVE  RepliesOK'
  <1>1. Sound' /\ WorldGrows /\ pc[h] # "idle" /\ tangled \subseteq tangled' /\ MessagesPass
    BY WorkSound, WorkOneByOne, WorkPasses
  <1>2. PICK y : y = Item(job[h])
    OBVIOUS
  <1>3. Aside(y) /\ Own(y)
    BY <1>1, <1>2, WorkAside, Holding
  <1>4. ASSUME NEW m \in DOMAIN messages', NEW r \in DOMAIN messages, Answers(m, r)',
               y = <<"slack", m>> \/ (y = Source(r) /\ y # None /\ m \in DOMAIN messages)
        PROVE  ReplyOK(m, r)'
    <2>1. m \in DOMAIN messages
      BY <1>3, <1>4 DEF Own
    <2>2. Answers(m, r)
      BY <1>1, <1>4, <2>1, AnsweredBefore
    <2>3. ReplyOK(m, r)
      BY <2>1, <2>2 DEF RepliesOK
    <2>4. PICK x, s : x = <<"slack", m>> /\ s = Source(r)
      OBVIOUS
    <2>. QED BY <1>2, <1>4, <2>1, <2>2, <2>3, <2>4, WorkReply
  <1>. QED BY <1>1, <1>3, <1>4, RepliesBut

-----------------------------------------------------------------------------
(* Where a reply goes *)

LEMMA OneRow ==
  ASSUME Sound, NEW r, r # 0, messages[r].by # "parent", NEW i, RowsAt(r) = {i}
  PROVE  PRsOfMessage(r) = {rows[i].pr} /\ i \in DOMAIN rows
  <1>1. i \in DOMAIN rows /\ i # 0
    BY DEF RowsAt, Sound, Stored
  <1>2. RowsOfMessage(r) = {i}
    BY DEF RowsOfMessage, RowsAt
  <1>. QED BY <1>1, <1>2 DEF PRsOfMessage

\* What the first message of a thread is about is found.
LEMMA RoutedTo ==
  ASSUME Sound, IInv, MessagesOK, CommentsOK, NEW r \in DOMAIN messages, messages[r].live, messages[r].thread = 0,
         Source(r) # None => Source(r) \notin tangled /\ ~Busy(Source(r)),
         NEW about \in PRsOfMessage(r), NEW p, about # None => p = about
  PROVE  About(r) \subseteq {p}
  <1>1. r # 0 /\ r \in Nat
    BY DEF Sound, Stored
  <1>2. ASSUME NEW i \in DOMAIN rows PROVE RowOK(i) /\ rows[i].pr # None
    <2>1. rows[i] \in Rows /\ RowOK(i)
      BY DEF Sound, Mapped, Stored
    <2>2. rows[i].pr \in 0..Stacked
      BY <2>1 DEF Rows, PRs
    <2>. QED BY <2>1, <2>2, MessageSyncAssumption
  <1>3. CASE messages[r].by = "parent"
    <2>1. about = r /\ About(r) = {r}
      BY <1>1, <1>3 DEF PRsOfMessage, About
    <2>2. r \in 0..Stacked
      BY <1>3, MessageSyncAssumption DEF Sound, Placed
    <2>3. r # None
      BY <2>2, MessageSyncAssumption
    <2>. QED BY <2>1, <2>3
  <1>4. CASE messages[r].by = "person"
    <2>1. Kept(r)
      BY <1>4, SourceOf DEF MessagesOK, MessageOK
    <2>2. CASE Made(r) = {}
      BY <1>4, <2>2 DEF About
    <2>3. CASE \E c \in Made(r), i \in RowsAt(r) : Made(r) = {c} /\ RowsAt(r) = {i} /\ rows[i].comment = c
      <3>1. PICK c, i : Made(r) = {c} /\ RowsAt(r) = {i} /\ rows[i].comment = c
        BY <2>3
      <3>2. PRsOfMessage(r) = {rows[i].pr} /\ i \in DOMAIN rows
        BY <1>1, <1>4, <3>1, OneRow
      <3>3. rows[i].pr = comments[c].pr /\ rows[i].pr # None
        BY <1>2, <3>1, <3>2 DEF RowOK
      <3>4. About(r) = {comments[c].pr}
        BY <1>4, <3>1 DEF About
      <3>. QED BY <3>2, <3>3, <3>4
    <2>. QED BY <2>1, <2>2, <2>3 DEF Kept
  <1>5. CASE messages[r].by = "app"
    <2>1. PICK c : c = messages[r].of
      OBVIOUS
    <2>2. Source(r) = <<"github", c>> /\ Source(r) # None /\ c \in DOMAIN comments /\ comments[c].of = 0
      BY <1>5, <2>1, SourceOf
    <2>3. CommentOK(c)
      BY <2>2 DEF CommentsOK
    <2>4. r \in LiveFor(c)
      BY <1>5, <2>1 DEF LiveFor, AppsOf
    <2>5. Filed(c)
      BY <2>2, <2>3, <2>4 DEF CommentOK, Bare
    <2>6. PICK i \in RowsFor(c) : RowsFor(c) = {i} /\ LiveFor(c) = Elements(Listed(i))
                                  /\ Good(Listed(i), comments[c].pr)
      BY <2>5 DEF Filed
    <2>7. PICK q : q = Listed(i)
      OBVIOUS
    <2>8. i \in DOMAIN rows /\ rows[i].comment = c /\ q[1] = rows[i].ts
      BY <2>2, <2>6, <2>7, OwnListed
    <2>9. PICK k \in 1..Len(q) : r = q[k]
      BY <2>4, <2>6, <2>7 DEF Elements
    <2>10. r = rows[i].ts
      <3>1. k > 1 => messages[q[k]].thread # 0
        BY <2>6, <2>7 DEF Good, Under
      <3>2. k = 1
        <4>1. ~(k > 1)
          BY <2>9, <3>1
        <4>2. k \in Nat /\ k >= 1
          BY ONLY k \in 1..Len(q)
        <4>. QED BY <4>1, <4>2
      <3>. QED BY <2>8, <2>9, <3>2
    <2>11. RowsAt(r) = {i}
      <3>1. i \in RowsAt(r)
        BY <2>6, <2>8, <2>10 DEF RowsAt, RowsFor
      <3>2. ASSUME NEW j \in RowsAt(r) PROVE j = i
        <4>1. j \in DOMAIN rows /\ rows[j].live /\ rows[j].ts = r /\ RowOK(j)
          BY <1>2, <3>2 DEF RowsAt
        <4>2. r \in AppsOf(rows[j].comment)
          BY <1>5, <4>1 DEF RowOK
        <4>3. j \in RowsFor(c)
          BY <2>1, <4>1, <4>2 DEF AppsOf, RowsFor
        <4>. QED BY <2>6, <4>3
      <3>. QED BY <3>1, <3>2
    <2>12. PRsOfMessage(r) = {rows[i].pr}
      BY <1>1, <1>5, <2>11, OneRow
    <2>13. rows[i].pr = comments[c].pr /\ rows[i].pr # None
      BY <1>2, <2>8 DEF RowOK
    <2>14. About(r) = {comments[c].pr}
      BY <1>5, <2>1 DEF About
    <2>. QED BY <2>12, <2>13, <2>14
  <1>6. CASE messages[r].by \notin {"parent", "person", "app"}
    BY <1>6 DEF About
  <1>. QED BY <1>3, <1>4, <1>5, <1>6

LEMMA ReceiveReply ==
  ASSUME Sound, IInv, OneByOne, MessagesOK, CommentsOK, NEW h \in Handlers, Receive(h), NEW e,
         \/ UNCHANGED handlers /\ Leaves(e)
         \/ Leaves(e) /\ Own(Item(e)) /\ Taking(h, e),
         NEW m \in DOMAIN messages, NEW r \in DOMAIN messages, Answers(m, r), ReplyOK(m, r),
         NEW x, x = <<"slack", m>>, NEW s, s = Source(r),
         NEW y, y = Item(e), y = x \/ (y = s /\ s # None), y \notin tangled'
  PROVE  ReplyOK(m, r)'
  <1>1. UNCHANGED <<comments, messages, rows>> /\ WorldGrows
    BY DEF Receive, world, WorldGrows
  <1>2. e \in inbox /\ inbox' = inbox \ {e} /\ y \notin tangled
    BY DEF Leaves
  <1>3. messages[m].by = "person" /\ r # m /\ (s # None => s # x /\ Own(s)) /\ messages[m].thread = r
    BY ThreadBefore DEF Answers
  <1>4. /\ s # None => Past(s)
        /\ \A f \in inbox : Item(f) = x /\ f.kind = "new" /\ s # None => ~Busy(s)
        /\ \A g \in Handlers : On(g, x) /\ pc[g] = "comment" => About(r) \subseteq {pr[g]}
        /\ \A c \in Made(m) : About(r) \subseteq {comments[c].pr}
    BY DEF ReplyOK
  <1>5. Made(r)' = Made(r) /\ \A c \in Made(m)' : About(r) \subseteq {comments'[c].pr}
    BY <1>1, <1>4 DEF Made
  <1>6. CASE UNCHANGED handlers
    <2>1. \A g \in Handlers : SameLocals(g)
      BY <1>6 DEF handlers, SameLocals
    <2>2. s # None => Past(s)'
      BY <1>2, <1>4, <2>1 DEF Past, On, SameLocals
    <2>3. Busy(s)' => Busy(s)
      BY <1>2, <2>1 DEF Busy, SameLocals
    <2>4. \A f \in inbox' : Item(f) = x /\ f.kind = "new" /\ s # None => ~Busy(s)'
      BY <1>2, <1>4, <2>3
    <2>5. \A g \in Handlers : On(g, x)' /\ pc'[g] = "comment" => About(r) \subseteq {pr'[g]}
      BY <1>4, <2>1 DEF On, SameLocals
    <2>. QED BY <1>1, <1>5, <2>2, <2>4, <2>5, ReplyNow
  <1>7. CASE Leaves(e) /\ Own(Item(e)) /\ Taking(h, e)
    <2>1. Aside(y)
      BY <1>2, <1>7, ReceiveAside
    <2>2. PICK step, i, p :
            /\ step \in Stages \ {"idle"} /\ Begin(h, e, step, i, p)
            /\ step = "comment" =>
                 /\ e.side = "slack" /\ e.kind = "new"
                 /\ \E about \in PRsOfMessage(messages[e.item].thread) : about # None => p = about
      BY <1>7 DEF Taking, Stages
    <2>3. /\ pc'[h] = step /\ job'[h] = e /\ pr'[h] = p /\ \A g \in Handlers \ {h} : SameLocals(g)
      BY <2>2, LocalsBegin DEF Sound
    <2>4. CASE y = x
      <3>1. Lone(x)
        BY <1>2, <1>3, <2>4 DEF OneByOne
      <3>2. \A f \in inbox' : Item(f) # x
        BY <1>2, <2>4, <3>1 DEF Lone
      <3>3. s # None => StillItem(s)
        <4>1. ASSUME s # None PROVE StillItem(s)
          <5>1. s # y
            BY <1>3, <2>4, <4>1
          <5>2. CASE messages[r].by = "person"
            BY <2>1, <5>1, <5>2, SourceOf DEF Aside
          <5>3. CASE messages[r].by = "app"
            BY <2>1, <5>1, <5>3, SourceOf DEF Aside
          <5>. QED BY <4>1, <5>2, <5>3, SourceOf
        <4>. QED BY <4>1
      <3>4. s # None => Past(s)'
        BY <1>4, <3>3, PastStill
      <3>5. \A g \in Handlers \ {h} : ~On(g, x)'
        BY <1>2, <2>3, <2>4, <3>1 DEF Lone, On, SameLocals
      <3>6. step = "comment" => About(r) \subseteq {p}
        <4>1. ASSUME step = "comment" PROVE About(r) \subseteq {p}
          <5>1. e.item = m /\ e.kind = "new"
            BY <2>2, <2>4, <4>1 DEF Item
          <5>2. PICK about \in PRsOfMessage(r) : about # None => p = about
            BY <1>3, <2>2, <4>1, <5>1
          <5>3. s # None => ~Busy(s)
            BY <1>2, <1>4, <2>4, <5>1
          <5>4. messages[r].live /\ messages[r].thread = 0 /\ (s # None => s \notin tangled)
            BY ThreadBefore DEF Answers
          <5>. QED BY <5>2, <5>3, <5>4, RoutedTo
        <4>. QED BY <4>1
      <3>7. \A g \in Handlers : On(g, x)' /\ pc'[g] = "comment" => About(r) \subseteq {pr'[g]}
        BY <2>3, <3>5, <3>6
      <3>. QED BY <1>1, <1>5, <3>2, <3>4, <3>7, ReplyNow
    <2>5. CASE y = s /\ s # None
      <3>1. StillItem(x)
        BY <1>3, <2>1, <2>5 DEF Aside
      <3>2. e.kind # "new"
        BY <1>2, <1>4, <2>5 DEF Past
      <3>3. Past(s)'
        <4>1. \A g \in Handlers : On(g, s)' => job'[g].kind # "new"
          BY <1>4, <2>3, <2>5, <3>2 DEF Past, On, SameLocals
        <4>2. \A f \in inbox' : Item(f) = s => f.kind # "new"
          BY <1>2, <1>4, <2>5 DEF Past
        <4>. QED BY <4>1, <4>2 DEF Past, On
      <3>4. \A f \in inbox' : ~(Item(f) = x /\ f.kind = "new")
        BY <1>2, <1>4, <2>5 DEF Busy
      <3>5. \A g \in Handlers : On(g, x)' /\ pc'[g] = "comment" => About(r) \subseteq {pr'[g]}
        BY <1>4, <3>1 DEF StillItem, SameLocals
      <3>. QED BY <1>1, <1>5, <3>3, <3>4, <3>5, ReplyNow
    <2>. QED BY <2>4, <2>5
  <1>. QED BY <1>6, <1>7

LEMMA ReceiveReplies ==
  ASSUME Sound, IInv, OneByOne, MessagesOK, CommentsOK, RepliesOK, NEW h \in Handlers, Receive(h)
  PROVE  RepliesOK'
  <1>1. UNCHANGED <<comments, messages, rows>> /\ tangled \subseteq tangled' /\ Sound'
    BY ReceiveOneByOne, ReceiveSound DEF Receive, world
  <1>2. WorldGrows /\ MessagesPass
    BY <1>1, MessagesPassOne DEF WorldGrows
  <1>3. PICK e :
           \/ UNCHANGED handlers /\ UNCHANGED <<inbox, tangled>>
           \/ UNCHANGED handlers /\ Leaves(e) /\ (Own(Item(e)) => Ignored(e))
           \/ Leaves(e) /\ Own(Item(e)) /\ EventOK(e) /\ Taking(h, e)
    BY Taken
  <1>4. CASE UNCHANGED handlers /\ UNCHANGED <<inbox, tangled>>
    <2>1. Aside(None)
      BY <1>1, <1>4, NothingAside
    <2>2. \A m \in DOMAIN messages' : None # <<"slack", m>>
      <3>1. ASSUME NEW m \in DOMAIN messages PROVE None # <<"slack", m>>
        <4>1. m \in Nat
          BY DEF Sound, Stored
        <4>. QED BY <4>1, MessageSyncAssumption
      <3>. QED BY <1>1, <3>1
    <2>. QED BY <1>1, <1>2, <2>1, <2>2, RepliesBut
  <1>5. CASE \/ UNCHANGED handlers /\ Leaves(e)
             \/ Leaves(e) /\ Own(Item(e)) /\ Taking(h, e)
    <2>1. PICK y : y = Item(e)
      OBVIOUS
    <2>2. Aside(y)
      BY <1>5, <2>1, ReceiveAside DEF Leaves
    <2>3. ASSUME NEW m \in DOMAIN messages', NEW r \in DOMAIN messages, Answers(m, r)', y \notin tangled',
                 y = <<"slack", m>> \/ (y = Source(r) /\ y # None /\ m \in DOMAIN messages)
          PROVE  ReplyOK(m, r)'
      <3>1. m \in DOMAIN messages
        BY <1>1, <2>3
      <3>2. Answers(m, r)
        BY <1>1, <1>2, <2>3, <3>1, AnsweredBefore
      <3>3. ReplyOK(m, r)
        BY <3>1, <3>2 DEF RepliesOK
      <3>4. PICK x, s : x = <<"slack", m>> /\ s = Source(r)
        OBVIOUS
      <3>. QED BY <1>5, <2>1, <2>3, <3>1, <3>2, <3>3, <3>4, ReceiveReply
    <2>. QED BY <1>1, <1>2, <2>2, <2>3, RepliesBut
  <1>. QED BY <1>3, <1>4, <1>5

-----------------------------------------------------------------------------
(* Replies: every step, and the theorem *)

LEMMA FreshReply ==
  ASSUME Sound, IInv, NEW o \in 0..Len(messages), NEW t \in Texts, WriteMessage(o, t), NEW n, n = Len(messages) + 1,
         NEW r \in DOMAIN messages, Answers(n, r)'
  PROVE  ReplyOK(n, r)'
  <1>1. PICK x, e, s : x = <<"slack", n>> /\ e = Event(acts + 1, "slack", "new", n, t, TRUE) /\ s = Source(r)
    OBVIOUS
  <1>2. inbox' = inbox \cup {e} /\ UNCHANGED comments /\ UNCHANGED handlers /\ Item(e) = x
    BY <1>1 DEF WriteMessage, Act, Event, Item
  <1>3. WorldGrows
    BY WriteMessageSound
  <1>4. PICK w, new : w = messages' /\ w = Append(messages, new) /\ new = Message("person", 0, o, t, None)
    BY DEF WriteMessage
  <1>5. messages \in Seq(Messages)
    BY DEF Sound, Stored
  <1>6. n \in Nat \ {0} /\ n \notin DOMAIN messages /\ w[n] = new
    BY ONLY n = Len(messages) + 1, <1>4, <1>5, Appended
  <1>7. o = r /\ r # 0
    BY <1>4, <1>6 DEF Answers, Message
  <1>8. ~Busy(s)
    <2>1. x \notin tangled'
      BY <1>1 DEF Answers
    <2>. QED BY <1>1, <1>7, <2>1 DEF WriteMessage
  <1>9. s # None => s # x
    BY <1>1, <1>6, SourceOf
  <1>10. ~Busy(x)
    BY <1>1, <1>6, NotYet
  <1>11. \A g \in Handlers : SameLocals(g)
    BY <1>2 DEF handlers, SameLocals
  <1>12. s # None => ~Busy(s)'
    BY <1>2, <1>8, <1>9, <1>11 DEF Busy, SameLocals
  <1>13. s # None => Past(s)'
    BY <1>12 DEF Busy, Past, On
  <1>14. \A g \in Handlers : ~On(g, x)'
    BY <1>10, <1>11 DEF Busy, On, SameLocals
  <1>15. Made(r)' = Made(r)
    BY <1>2 DEF Made
  <1>16. Made(n)' = {}
    <2>1. \A c \in DOMAIN comments : comments[c].of # n
      BY <1>6 DEF IInv, Copies, OwnMessage
    <2>. QED BY <1>2, <2>1 DEF Made
  <1>. QED BY <1>1, <1>3, <1>12, <1>13, <1>14, <1>15, <1>16, ReplyNow

\* What people do about an item leaves a reply to it, and a reply that it is, where it was.
LEMMA AlteredReply ==
  ASSUME Sound, IInv, WorldGrows, UNCHANGED handlers, DOMAIN comments' = DOMAIN comments,
         NEW y, Touch(y), NEW e, Item(e) = y, e.kind # "new", inbox' = inbox \cup {e},
         NEW m \in DOMAIN messages, NEW r \in DOMAIN messages, Answers(m, r), ReplyOK(m, r),
         NEW x, x = <<"slack", m>>, x \notin tangled', NEW s, s = Source(r), y = x \/ (y = s /\ s # None)
  PROVE  ReplyOK(m, r)'
  <1>1. \A g \in Handlers : SameLocals(g)
    BY DEF handlers, SameLocals
  <1>2. \A k : Made(k)' = Made(k)
    BY DEF Made, WorldGrows
  <1>3. messages[m].by = "person" /\ messages[m].thread = r /\ r # 0 /\ (s # None => s # x)
    BY ThreadBefore DEF Answers
  <1>4. /\ s # None => Past(s)
        /\ \A f \in inbox : Item(f) = x /\ f.kind = "new" /\ s # None => ~Busy(s)
        /\ \A g \in Handlers : On(g, x) /\ pc[g] = "comment" => About(r) \subseteq {pr[g]}
        /\ \A c \in Made(m) : About(r) \subseteq {comments[c].pr}
    BY DEF ReplyOK
  <1>5. s # None => Past(s)'
    BY <1>1, <1>4 DEF Past, On, SameLocals
  <1>6. ASSUME NEW f \in inbox', Item(f) = x, f.kind = "new", s # None PROVE ~Busy(s)'
    <2>1. f \in inbox /\ ~Busy(s)
      BY <1>4, <1>6
    <2>2. CASE y = x
      BY <1>1, <1>3, <1>6, <2>1, <2>2 DEF Busy, SameLocals
    <2>3. CASE y = s
      <3>1. x \in RepliesTo(y)
        BY <1>3, <2>3 DEF RepliesTo
      <3>2. ~Busy(x)
        BY <3>1 DEF Touch
      <3>. QED BY <1>6, <2>1, <3>2 DEF Busy
    <2>. QED BY <2>2, <2>3, <1>6
  <1>7. \A g \in Handlers : On(g, x)' /\ pc'[g] = "comment" => About(r) \subseteq {pr'[g]}
    BY <1>1, <1>4 DEF On, SameLocals
  <1>8. \A c \in Made(m)' : About(r) \subseteq {comments'[c].pr}
    BY <1>2, <1>4 DEF Made, WorldGrows
  <1>. QED BY <1>2, <1>5, <1>6, <1>7, <1>8, ReplyNow

LEMMA PeopleReplies ==
  ASSUME Sound, IInv, OneByOne, RepliesOK, People
  PROVE  RepliesOK'
  <1>1. tangled \subseteq tangled' /\ Sound'
    BY PeopleOneByOne, SoundPeople
  <1>2. ASSUME NEW y, Aside(y), WorldGrows, MessagesPass,
               y \in tangled' \/ \A m \in DOMAIN messages' : y # <<"slack", m>>,
               y \in tangled' \/ \A r \in DOMAIN messages : y # Source(r) \/ y = None
        PROVE  RepliesOK'
    BY <1>1, <1>2, RepliesBut
  <1>3. ASSUME NEW y, Aside(y), WorldGrows, MessagesPass, UNCHANGED handlers, DOMAIN comments' = DOMAIN comments,
               DOMAIN messages' = DOMAIN messages, Touch(y),
               NEW e, Item(e) = y, e.kind # "new", inbox' = inbox \cup {e}
        PROVE  RepliesOK'
    <2>1. ASSUME NEW m \in DOMAIN messages', NEW r \in DOMAIN messages, Answers(m, r)', y \notin tangled',
                 y = <<"slack", m>> \/ (y = Source(r) /\ y # None /\ m \in DOMAIN messages)
          PROVE  ReplyOK(m, r)'
      <3>1. m \in DOMAIN messages
        BY <1>3
      <3>2. Answers(m, r)
        BY <1>1, <1>3, <2>1, <3>1, AnsweredBefore
      <3>3. ReplyOK(m, r)
        BY <3>1, <3>2 DEF RepliesOK
      <3>4. PICK x, s : x = <<"slack", m>> /\ s = Source(r)
        OBVIOUS
      <3>5. x \notin tangled'
        BY <2>1, <3>4 DEF Answers
      <3>. QED BY <1>3, <2>1, <3>1, <3>2, <3>3, <3>4, <3>5, AlteredReply
    <2>. QED BY <1>1, <1>3, <2>1, RepliesBut
  <1>4. ASSUME NEW p \in Discussed, NEW t \in Texts, WriteComment(p, t) PROVE RepliesOK'
    <2>1. PICK n, y : n = Len(comments) + 1 /\ y = <<"github", n>>
      OBVIOUS
    <2>2. Aside(y) /\ WorldGrows /\ UNCHANGED messages
      BY <1>4, <2>1, WriteCommentAside, WriteCommentSound DEF WriteComment
    <2>3. MessagesPass
      BY <2>2, MessagesPassOne
    <2>4. n \notin DOMAIN comments
      BY <2>1 DEF Sound, Stored
    <2>5. \A r \in DOMAIN messages : y # Source(r) \/ y = None
      BY <2>1, <2>4, SourceOf
    <2>. QED BY <1>2, <2>1, <2>2, <2>3, <2>5
  <1>5. ASSUME NEW c \in DOMAIN comments, NEW t \in Texts, EditComment(c, t) \/ DeleteComment(c)
        PROVE  RepliesOK'
    <2>1. PICK y : y = <<"github", c>>
      OBVIOUS
    <2>2. TRUE \in BOOLEAN
      OBVIOUS
    <2>3. Aside(y) /\ WorldGrows /\ UNCHANGED messages
      BY <1>5, <2>1, <2>2, AlterCommentAside, AlterCommentSound DEF EditComment, DeleteComment
    <2>4. MessagesPass
      BY <2>3, MessagesPassOne
    <2>5. UNCHANGED handlers /\ Touch(y) /\ DOMAIN comments' = DOMAIN comments
      BY <1>5, <2>1 DEF EditComment, DeleteComment, Act
    <2>6. PICK e : Item(e) = y /\ e.kind # "new" /\ inbox' = inbox \cup {e}
      BY <1>5, <2>1 DEF EditComment, DeleteComment, Act, Event, Item
    <2>. QED BY <1>3, <2>3, <2>4, <2>5, <2>6
  <1>6. ASSUME NEW c \in DOMAIN comments, NEW t \in Texts, NEW kept \in BOOLEAN,
               MeddleComment(c, t, kept) \/ MeddleDelete(c)
        PROVE  RepliesOK'
    <2>1. PICK y : y = <<"slack", comments[c].of>>
      OBVIOUS
    <2>2. Aside(y) /\ y \in tangled' /\ WorldGrows /\ UNCHANGED messages
      BY <1>6, <2>1, MeddleCommentAside, AlterCommentSound DEF MeddleComment, MeddleDelete
    <2>3. MessagesPass
      BY <2>2, MessagesPassOne
    <2>. QED BY <1>2, <2>2, <2>3
  <1>7. ASSUME NEW o \in 0..Len(messages), NEW t \in Texts, WriteMessage(o, t) PROVE RepliesOK'
    <2>1. PICK n, y : n = Len(messages) + 1 /\ y = <<"slack", n>>
      OBVIOUS
    <2>2. Aside(y) /\ WorldGrows /\ \E new : messages' = Append(messages, new)
      BY <1>7, <2>1, WriteMessageAside, WriteMessageSound DEF WriteMessage
    <2>3. MessagesPass
      BY <2>2, MessagesPassOne
    <2>4. n \notin DOMAIN messages
      BY <2>1 DEF Sound, Stored
    <2>5. \A r \in DOMAIN messages : y # Source(r) \/ y = None
      BY <2>1, <2>4, SourceOf
    <2>6. ASSUME NEW m \in DOMAIN messages', NEW r \in DOMAIN messages, Answers(m, r)', y = <<"slack", m>>
          PROVE  ReplyOK(m, r)'
      <3>1. m = n
        BY <2>1, <2>6
      <3>. QED BY <1>7, <2>1, <2>6, <3>1, FreshReply
    <2>. QED BY <1>1, <2>2, <2>3, <2>5, <2>6, RepliesBut
  <1>8. ASSUME NEW m \in DOMAIN messages, (\E t \in Texts : EditMessage(m, t)) \/ DeleteMessage(m)
        PROVE  RepliesOK'
    <2>1. PICK y : y = <<"slack", m>>
      OBVIOUS
    <2>2. Aside(y) /\ WorldGrows /\ UNCHANGED comments
      BY <1>8, <2>1, AlterMessageAside DEF EditMessage, DeleteMessage
    <2>3. (\E k, text : messages' = [messages EXCEPT ![k].text = text])
          \/ (\E k : messages' = [messages EXCEPT ![k].live = FALSE])
      BY <1>8 DEF EditMessage, DeleteMessage
    <2>4. MessagesPass /\ DOMAIN messages' = DOMAIN messages
      BY <2>3, MessagesPassOne
    <2>5. UNCHANGED handlers /\ Touch(y)
      BY <1>8, <2>1 DEF EditMessage, DeleteMessage, Act
    <2>6. PICK e : Item(e) = y /\ e.kind # "new" /\ inbox' = inbox \cup {e}
      BY <1>8, <2>1 DEF EditMessage, DeleteMessage, Act, Event, Item
    <2>. QED BY <1>3, <2>2, <2>4, <2>5, <2>6
  <1>9. ASSUME NEW m \in DOMAIN messages, MeddleMessage(m) PROVE RepliesOK'
    <2>1. PICK y : y = <<"github", messages[m].of>>
      OBVIOUS
    <2>2. Aside(y) /\ y \in tangled' /\ WorldGrows /\ messages' = [messages EXCEPT ![m].live = FALSE]
      BY <1>9, <2>1, MeddleMessageAside DEF MeddleMessage
    <2>3. MessagesPass
      BY <2>2, MessagesPassOne
    <2>. QED BY <1>2, <2>2, <2>3
  <1>10. ASSUME NEW p \in PRs, Toggle(p) PROVE RepliesOK'
    <2>1. UNCHANGED <<comments, messages, rows, inbox, handlers, tangled>>
      BY <1>10 DEF Toggle
    <2>2. Aside(None) /\ WorldGrows /\ MessagesPass
      BY <2>1, NothingAside, MessagesPassOne DEF WorldGrows
    <2>3. \A m \in DOMAIN messages' : None # <<"slack", m>>
      <3>1. ASSUME NEW m \in DOMAIN messages PROVE None # <<"slack", m>>
        <4>1. m \in Nat
          BY DEF Sound, Stored
        <4>. QED BY <4>1, MessageSyncAssumption
      <3>. QED BY <2>1, <3>1
    <2>. QED BY <1>2, <2>2, <2>3
  <1>. QED BY <1>4, <1>5, <1>6, <1>7, <1>8, <1>9, <1>10, Acts

LEMMA RepliesNext ==
  ASSUME Sound, IInv, OneByOne, MessagesOK, CommentsOK, RepliesOK, [Next]_vars
  PROVE  RepliesOK'
  <1>1. CASE UNCHANGED vars
    <2>1. UNCHANGED <<comments, messages, rows, inbox, handlers, tangled>>
      BY <1>1 DEF vars, world
    <2>2. Aside(None) /\ WorldGrows /\ MessagesPass
      BY <2>1, NothingAside, MessagesPassOne DEF WorldGrows
    <2>3. \A m \in DOMAIN messages' : None # <<"slack", m>>
      <3>1. ASSUME NEW m \in DOMAIN messages PROVE None # <<"slack", m>>
        <4>1. m \in Nat
          BY DEF Sound, Stored
        <4>. QED BY <4>1, MessageSyncAssumption
      <3>. QED BY <2>1, <3>1
    <2>4. Sound'
      BY SoundNext
    <2>. QED BY <2>1, <2>2, <2>3, <2>4, RepliesBut
  <1>. QED BY <1>1, PeopleReplies, WorkOrNot, ReceiveReplies, WorkReplies DEF Next

LEMMA RepliesSeen ==
  ASSUME Sound, IInv, RepliesOK
  PROVE  RepliesRouted
  <1>. SUFFICES ASSUME NEW c \in DOMAIN comments, NEW m, m = comments[c].of,
                       NEW r, r = IF m = 0 THEN 0 ELSE messages[m].thread,
                       r # 0, messages[r].live, Settled(<<"slack", m>>), Source(r) # None => Settled(Source(r))
                PROVE  (IF r = 0 THEN {} ELSE
                          CASE messages[r].by = "parent" -> {r}
                            [] messages[r].by = "app"    -> {comments[messages[r].of].pr}
                            [] messages[r].by = "person" -> {comments[k].pr : k \in {k \in DOMAIN comments : comments[k].of = r}}
                            [] OTHER -> {}) \subseteq {comments[c].pr}
    BY Zenon DEF RepliesRouted
  <1>1. m \in DOMAIN messages /\ messages[m].by = "person" /\ messages[m].thread = r
    BY DEF IInv, Copies, OwnMessage
  <1>2. r \in DOMAIN messages
    BY <1>1 DEF Sound, Stored, Placed
  <1>3. Answers(m, r)
    BY <1>1 DEF Answers, Settled
  <1>4. About(r) \subseteq {comments[c].pr}
    BY <1>1, <1>2, <1>3 DEF RepliesOK, ReplyOK, Made
  <1>. QED BY <1>4 DEF About, Made

LEMMA RepliesInvariant == Spec => [](IInv /\ Sound /\ RepliesOK)
  <1>1. Init => RepliesOK
    BY DEF Init, Message, RepliesOK, Answers
  <1>2. IInv /\ Sound /\ OneByOne /\ MessagesOK /\ CommentsOK /\ RepliesOK /\ [Next]_vars => RepliesOK'
    BY RepliesNext
  <1>. QED BY <1>1, <1>2, MessagesInvariant, CommentsInvariant, PTL DEF Spec

\* A reply in a thread goes to the pull request that the thread's first message is about,
\* unless what is done about either of the two got out of order.
THEOREM RepliesArrive == Spec => []RepliesRouted
BY RepliesSeen, RepliesInvariant, PTL

=============================================================================
