----------------------------- MODULE MessageSync -----------------------------
(***************************************************************************)
(* The two-way mirror between the comments of a channel's pull requests on  *)
(* GitHub and the messages of the channel on Slack (sync_service.py).       *)
(*                                                                         *)
(* People comment on one side and write on the other, edit and delete; each *)
(* act is an event that a handler takes up, in any order and beside another *)
(* handler.  What the app itself writes makes events as well: they reach    *)
(* the handlers too, and nothing may come of them.  Every awaited call to   *)
(* Slack, to GitHub or to the database is one step of a handler, and a      *)
(* handler may die at any of them.                                          *)
(*                                                                         *)
(* One channel, whose pull request 0 owns it; pull request k > 0 is stacked *)
(* and has message k as its parent message.                                 *)
(***************************************************************************)
EXTENDS Integers, Sequences, SequencesExt

CONSTANTS
  Stacked,          \* how many stacked pull requests the channel holds
  Handlers,
  None,
  Texts,            \* what people write
  Parts,            \* the messages each text is cut into on Slack
  OpenAtFirst,      \* the sets of pull requests that may be open at first
  Discussed,        \* the pull requests people comment on
  Openers,          \* what a message on Slack says before it is edited
  MaxItems,         \* bound: comments and messages people write
  MaxActs,          \* bound: those, their edits and their deletions
  MaxUpsets         \* bound: pull requests closed or reopened, events delivered
                    \* once more, calls that fail and crashes, in all

PRs == 0..Stacked
INSTANCE ChannelTarget WITH Owner <- 0

ASSUME MessageSyncAssumption ==
  /\ Stacked \in Nat /\ None \notin 0..Stacked
  /\ None \notin {"github", "slack"} \X Nat
  /\ OpenAtFirst \subseteq SUBSET (0..Stacked)
  /\ DOMAIN Parts = Texts
  /\ \A t \in Texts :
       /\ Len(Parts[t]) \in Nat \ {0}
       /\ Parts[t] = [k \in 1..Len(Parts[t]) |-> Parts[t][k]]
  /\ Discussed \subseteq 0..Stacked /\ Openers \subseteq Texts
  /\ {MaxItems, MaxActs, MaxUpsets} \subseteq Nat

VARIABLES
  comments,      \* GitHub: the comments, in the order they were made
  messages,      \* Slack: the messages of the channel; the index is the ts
  open,          \* the pull requests whose row says "open"
  rows,          \* message_mappings, in the order they were inserted
  inbox,         \* events of what people did, still to be handled
  pc, job, row, shown, pr, sent,  \* per handler: next await, event, locals
  asUser,        \* whether it still tries the author's own Slack token
  tangled,       \* ghost: items whose events were not handled one by one
  acts, upsets

world    == <<comments, messages, open>>
handlers == <<pc, job, row, shown, pr, sent, asUser>>
bounds   == <<acts, upsets>>
vars == <<world, rows, inbox, handlers, tangled, bounds>>

Events == {"new", "edit", "delete"}

\* of: the message a comment was made from by the app, 0 for a person's own.
Comments == [pr : PRs, of : Nat, text : Texts, tagged : BOOLEAN, live : BOOLEAN]

\* by: a person; the app, for comment `of`; the app, to say that message `of`
\* reached no pull request; the app, as the parent of a stack's thread.  thread:
\* the thread_ts it was posted with, 0 for none.  Slack's threads do not nest: only
\* a message that has none starts one, and people answer such messages only.  Where
\* Slack shows what the app posts under a reply is left open.
\* text: None unless a person's; part: what is shown of a comment.
Message(by, of, thread, text, part) ==
  [by |-> by, of |-> of, thread |-> thread, text |-> text, part |-> part, live |-> TRUE]

\* plain: the comment's body holds no SYNC_TAG, the message no bot_id.
Event(n, side, kind, item, text, plain) ==
  [n |-> n, side |-> side, kind |-> kind, item |-> item, text |-> text, plain |-> plain]

Item(e) == <<e.side, e.item>>

TypeOK ==
  /\ comments \in Seq(Comments)
  /\ \A m \in DOMAIN messages :
       /\ messages[m].by \in {"person", "app", "notice", "parent"}
       /\ messages[m].thread \in 0..(m - 1)
       /\ messages[m].live \in BOOLEAN
       /\ messages[m].by = "person" => messages[m].text \in Texts
       /\ messages[m].by = "app" => messages[m].of \in DOMAIN comments
       /\ messages[m].by = "notice" => messages[m].of \in 1..(m - 1)
  /\ \A c \in DOMAIN comments : comments[c].of \in 0..Len(messages)
  /\ open \subseteq PRs
  /\ \A i \in DOMAIN rows :
       /\ rows[i].pr \in PRs /\ rows[i].ts \in DOMAIN messages
       /\ rows[i].extra \in Seq(DOMAIN messages) /\ rows[i].comment \in DOMAIN comments
       /\ rows[i].origin \in {"github", "slack"} /\ rows[i].live \in BOOLEAN
  /\ \A h \in Handlers :
       /\ pc[h] \in {"idle", "post", "map", "resync", "setExtra", "unpost",
                     "comment", "record", "notice", "edit", "uncomment", "dropRow"}
       /\ pc[h] # "idle" => job[h].kind \in Events
       /\ row[h] \in DOMAIN rows \cup {0} /\ pr[h] \in PRs
       /\ shown[h] \in Seq(DOMAIN messages)
       /\ sent[h] \in Seq(DOMAIN messages \cup DOMAIN comments) /\ asUser[h] \in BOOLEAN

Init ==
  /\ comments = <<>>
  /\ messages = [k \in 1..Stacked |-> Message("parent", k, 0, None, None)]
  /\ open \in OpenAtFirst
  /\ rows = <<>> /\ inbox = {}
  /\ pc = [h \in Handlers |-> "idle"] /\ job = [h \in Handlers |-> None]
  /\ row = [h \in Handlers |-> 0] /\ shown = [h \in Handlers |-> <<>>]
  /\ pr = [h \in Handlers |-> 0]
  /\ sent = [h \in Handlers |-> <<>>] /\ asUser = [h \in Handlers |-> TRUE]
  /\ tangled = {}
  /\ acts = 0 /\ upsets = 0

-----------------------------------------------------------------------------
\* What people do.

Busy(item) ==
  \/ \E e \in inbox : Item(e) = item
  \/ \E h \in Handlers : pc[h] # "idle" /\ Item(job[h]) = item

\* The item a thread's first message stands for, and the item a copy is of.
Source(m) ==
  CASE messages[m].by = "person" -> <<"slack", m>>
    [] messages[m].by = "app"    -> <<"github", messages[m].of>>
    [] OTHER                     -> None

RepliesTo(item) ==
  {<<"slack", m>> : m \in {k \in DOMAIN messages :
     /\ messages[k].by = "person" /\ messages[k].thread # 0
     /\ Source(messages[k].thread) = item}}

Act(kind, side, item, text, plain) ==
  /\ acts < MaxActs /\ acts' = acts + 1
  /\ inbox' = inbox \cup {Event(acts + 1, side, kind, item, text, plain)}
  /\ UNCHANGED <<open, rows, handlers, upsets>>

\* An act on an item that is still being handled tangles it; so does an act on
\* the first message of a thread for a reply that is still being handled.
Touch(item) ==
  tangled' = tangled \cup {x \in {item} \cup RepliesTo(item) : Busy(x)}

Items ==
  Cardinality({c \in DOMAIN comments : comments[c].of = 0})
  + Cardinality({m \in DOMAIN messages : messages[m].by = "person"})

WriteComment(p, t) ==
  /\ Items < MaxItems
  /\ comments' = Append(comments, [pr |-> p, of |-> 0, text |-> t, tagged |-> FALSE, live |-> TRUE])
  /\ Act("new", "github", Len(comments) + 1, t, TRUE)
  /\ UNCHANGED <<messages, tangled>>

EditComment(c, t) ==
  /\ comments[c].of = 0 /\ comments[c].live /\ comments[c].text # t
  /\ comments' = [comments EXCEPT ![c].text = t]
  /\ Act("edit", "github", c, t, TRUE) /\ Touch(<<"github", c>>)
  /\ UNCHANGED messages

DeleteComment(c) ==
  /\ comments[c].of = 0 /\ comments[c].live
  /\ comments' = [comments EXCEPT ![c].live = FALSE]
  /\ Act("delete", "github", c, comments[c].text, TRUE) /\ Touch(<<"github", c>>)
  /\ UNCHANGED messages

WriteMessage(r, t) ==
  LET m == Len(messages) + 1 IN
  /\ Items < MaxItems
  /\ r # 0 => messages[r].thread = 0 /\ messages[r].live
  /\ messages' = Append(messages, Message("person", 0, r, t, None))
  /\ Act("new", "slack", m, t, TRUE)
  /\ tangled' = tangled \cup
       {x \in {<<"slack", m>>} : r # 0 /\ (Busy(Source(r)) \/ Source(r) \in tangled)}
  /\ UNCHANGED comments

EditMessage(m, t) ==
  /\ messages[m].by = "person" /\ messages[m].live /\ messages[m].text # t
  /\ messages' = [messages EXCEPT ![m].text = t]
  /\ Act("edit", "slack", m, t, TRUE) /\ Touch(<<"slack", m>>)
  /\ UNCHANGED comments

DeleteMessage(m) ==
  /\ messages[m].by = "person" /\ messages[m].live
  /\ messages' = [messages EXCEPT ![m].live = FALSE]
  /\ Act("delete", "slack", m, messages[m].text, TRUE) /\ Touch(<<"slack", m>>)
  /\ UNCHANGED comments

\* A comment the app made as its author is theirs to edit, with the tag kept or
\* not, and to delete; and so is a message.
MeddleComment(c, t, kept) ==
  /\ comments[c].of # 0 /\ comments[c].live /\ comments[c].text # t
  /\ comments' = [comments EXCEPT ![c].text = t, ![c].tagged = kept]
  /\ Act("edit", "github", c, t, ~kept)
  /\ tangled' = tangled \cup {Source(comments[c].of)}
  /\ UNCHANGED messages

MeddleDelete(c) ==
  /\ comments[c].of # 0 /\ comments[c].live
  /\ comments' = [comments EXCEPT ![c].live = FALSE]
  /\ Act("delete", "github", c, comments[c].text, FALSE)
  /\ tangled' = tangled \cup {Source(comments[c].of)}
  /\ UNCHANGED messages

MeddleMessage(m) ==
  /\ messages[m].by = "app" /\ messages[m].live
  /\ messages' = [messages EXCEPT ![m].live = FALSE]
  /\ Act("delete", "slack", m, None, FALSE)
  /\ tangled' = tangled \cup {Source(m)}
  /\ UNCHANGED comments

Toggle(p) ==
  /\ upsets < MaxUpsets /\ upsets' = upsets + 1
  /\ open' = IF p \in open THEN open \ {p} ELSE open \cup {p}
  /\ UNCHANGED <<comments, messages, rows, inbox, handlers, tangled, acts>>

People ==
  \/ \E p \in Discussed, t \in Texts : WriteComment(p, t)
  \/ \E c \in DOMAIN comments, t \in Texts :
       EditComment(c, t) \/ \E kept \in BOOLEAN : MeddleComment(c, t, kept)
  \/ \E c \in DOMAIN comments : DeleteComment(c) \/ MeddleDelete(c)
  \/ \E r \in 0..Len(messages), t \in Openers : WriteMessage(r, t)
  \/ \E m \in DOMAIN messages : DeleteMessage(m) \/ MeddleMessage(m)
  \/ \E m \in DOMAIN messages, t \in Texts : EditMessage(m, t)
  \/ \E p \in PRs : Toggle(p)

-----------------------------------------------------------------------------
\* The events of what the app wrote, edited and deleted.  One may reach a
\* handler at any time after the act and more than once.
Echoes ==
  LET made == {c \in DOMAIN comments : comments[c].of # 0}
      said == {m \in DOMAIN messages : messages[m].by # "person"} IN
  {Event(0, "github", k, c, comments[c].text, FALSE) :
     k \in {"new", "edit"}, c \in made}
  \cup {Event(0, "github", "delete", c, comments[c].text, FALSE) :
          c \in {c \in made : ~comments[c].live}}
  \cup {Event(0, "slack", k, m, None, FALSE) : k \in {"new", "edit"}, m \in said}
  \cup {Event(0, "slack", "delete", m, None, FALSE) :
          m \in {m \in said : ~messages[m].live}}

Deliver(e) ==
  \/ e \in Echoes /\ UNCHANGED <<inbox, upsets, tangled>>
  \/ e \in inbox /\ inbox' = inbox \ {e} /\ UNCHANGED <<upsets, tangled>>
  \/ /\ e \in inbox /\ upsets < MaxUpsets /\ upsets' = upsets + 1
     /\ tangled' = tangled \cup {Item(e)} /\ UNCHANGED inbox

\* shown: the messages of the row as it is read now.
Begin(h, e, step, i, p) ==
  /\ pc' = [pc EXCEPT ![h] = step] /\ job' = [job EXCEPT ![h] = e]
  /\ row' = [row EXCEPT ![h] = i] /\ pr' = [pr EXCEPT ![h] = p]
  /\ shown' = [shown EXCEPT ![h] = IF i = 0 THEN <<>> ELSE <<rows[i].ts>> \o rows[i].extra]
  /\ UNCHANGED <<sent, asUser>>

Drop == UNCHANGED handlers

Done(h) ==
  /\ pc' = [pc EXCEPT ![h] = "idle"] /\ job' = [job EXCEPT ![h] = None]
  /\ row' = [row EXCEPT ![h] = 0] /\ shown' = [shown EXCEPT ![h] = <<>>]
  /\ pr' = [pr EXCEPT ![h] = 0]
  /\ sent' = [sent EXCEPT ![h] = <<>>] /\ asUser' = [asUser EXCEPT ![h] = TRUE]

Goto(h, step) == pc' = [pc EXCEPT ![h] = step] /\ UNCHANGED <<job, row, shown, pr, asUser>>

-----------------------------------------------------------------------------
\* message_mappings.

\* Seeded fault: the comment and the message are swapped.
InsertSwapped(p, ts, extra, comment, origin) ==
  rows' = Append(rows, [pr |-> p, ts |-> comment, extra |-> extra, comment |-> ts,
                        origin |-> origin, live |-> TRUE])

Insert(p, ts, extra, comment, origin) ==
  rows' = Append(rows, [pr |-> p, ts |-> ts, extra |-> extra, comment |-> comment,
                        origin |-> origin, live |-> TRUE])

\* The oldest row of a comment; any row of a message; 0 when there is none.
RowOfComment(c) ==
  LET found == {i \in DOMAIN rows : rows[i].live /\ rows[i].comment = c}
  IN IF found = {} THEN 0 ELSE Min(found)

RowsOfMessage(m) ==
  LET found == {i \in DOMAIN rows : rows[i].live /\ rows[i].ts = m}
  IN IF found = {} THEN {0} ELSE found

\* Seeded fault: only the parents of stacked pull requests are looked up.
PRsOfParents(m) == {IF m # 0 /\ messages[m].by = "parent" THEN m ELSE None}

\* The pull requests a message may be taken to belong to.
PRsOfMessage(m) ==
  IF m = 0 THEN {None}
  ELSE IF messages[m].by = "parent" THEN {m}
  ELSE {IF i = 0 THEN None ELSE rows[i].pr : i \in RowsOfMessage(m)}

-----------------------------------------------------------------------------
\* GitHub's events.

\* Seeded fault: the tag is not looked for.
OnCommentTagUnread(h, e) ==
  /\ e.side = "github" /\ e.kind = "new"
  /\ Begin(h, e, "post", 0, comments[e.item].pr)

OnComment(h, e) ==
  /\ e.side = "github" /\ e.kind = "new"
  /\ IF e.plain THEN Begin(h, e, "post", 0, comments[e.item].pr) ELSE Drop

\* Only a comment that people wrote has its edits and deletion mirrored.
OnCommentChanged(h, e) ==
  LET i == RowOfComment(e.item)
      ours == i # 0 /\ rows[i].origin = "github" IN
  /\ e.side = "github" /\ e.kind # "new"
  /\ IF e.kind = "edit"
     THEN IF e.plain /\ ours THEN Begin(h, e, "resync", i, rows[i].pr) ELSE Drop
     ELSE IF ours THEN Begin(h, e, "unpost", i, rows[i].pr) ELSE Drop

\* The first part goes to the pull request's thread or to the channel, the
\* others to the same thread or under the first.
Reply(h) == IF pr[h] # 0 THEN pr[h] ELSE IF sent[h] = <<>> THEN 0 ELSE sent[h][1]

Say(by, of, thread, part) ==
  messages' = Append(messages, Message(by, of, thread, None, part))

Post(h) ==
  LET parts == Parts[job[h].text]
      k == Len(sent[h]) + 1 IN
  /\ pc[h] = "post"
  /\ Say("app", job[h].item, Reply(h), parts[k])
  /\ sent' = [sent EXCEPT ![h] = Append(@, Len(messages) + 1)]
  /\ Goto(h, IF k = Len(parts) THEN "map" ELSE "post")
  /\ UNCHANGED <<comments, open, rows, inbox, tangled, bounds>>

\* Slack refuses the author's token part of the way: the bot posts it all.
FallBack(h) ==
  /\ pc[h] = "post" /\ asUser[h]
  /\ upsets < MaxUpsets /\ upsets' = upsets + 1
  /\ asUser' = [asUser EXCEPT ![h] = FALSE]
  /\ tangled' = tangled \cup {x \in {Item(job[h])} : sent[h] # <<>>}
  /\ sent' = [sent EXCEPT ![h] = <<>>]
  /\ UNCHANGED <<world, rows, inbox, pc, job, row, shown, pr, acts>>

MapComment(h) ==
  /\ pc[h] = "map"
  /\ Insert(pr[h], sent[h][1], Tail(sent[h]), job[h].item, "github")
  /\ Done(h)
  /\ UNCHANGED <<world, inbox, tangled, bounds>>

\* An edited comment: every message that still has a part is updated, the parts
\* that came are posted under the first, which for a stacked pull request is a
\* reply itself, and the messages left over are deleted.
\* Slack raises on the update or the deletion of a message that is gone.
Resync(h) ==
  LET parts == Parts[job[h].text]
      k == Len(sent[h]) + 1
      old == k <= Len(shown[h])
      m == IF old THEN shown[h][k] ELSE Len(messages) + 1
      last == k >= Len(parts) /\ k >= Len(shown[h]) IN
  /\ pc[h] = "resync"
  /\ IF old /\ ~messages[m].live
     THEN Done(h) /\ UNCHANGED messages
     ELSE /\ IF ~old THEN Say("app", job[h].item, shown[h][1], parts[k])
             ELSE IF k <= Len(parts) THEN messages' = [messages EXCEPT ![m].part = parts[k]]
             ELSE messages' = [messages EXCEPT ![m].live = FALSE]
          /\ sent' = [sent EXCEPT ![h] = Append(@, m)]
          /\ Goto(h, IF last THEN "setExtra" ELSE "resync")
  /\ UNCHANGED <<comments, open, rows, inbox, tangled, bounds>>

\* Seeded fault: the deleted messages stay in the row.
SetExtraAll(h) ==
  /\ pc[h] = "setExtra"
  /\ rows' = [rows EXCEPT ![row[h]].extra = Tail(sent[h])]
  /\ Done(h)
  /\ UNCHANGED <<world, inbox, tangled, bounds>>

SetExtra(h) ==
  /\ pc[h] = "setExtra"
  /\ rows' = IF rows[row[h]].live
             THEN [rows EXCEPT ![row[h]].extra = SubSeq(sent[h], 2, Len(Parts[job[h].text]))]
             ELSE rows
  /\ Done(h)
  /\ UNCHANGED <<world, inbox, tangled, bounds>>

\* Seeded fault: the messages under the first one are left.
UnpostFirst(h) ==
  LET m == shown[h][1] IN
  /\ pc[h] = "unpost"
  /\ IF ~messages[m].live
     THEN Done(h) /\ UNCHANGED messages
     ELSE messages' = [messages EXCEPT ![m].live = FALSE] /\ Goto(h, "dropRow") /\ UNCHANGED sent
  /\ UNCHANGED <<comments, open, rows, inbox, tangled, bounds>>

Unpost(h) ==
  LET k == Len(sent[h]) + 1
      m == shown[h][k] IN
  /\ pc[h] = "unpost"
  /\ IF ~messages[m].live
     THEN Done(h) /\ UNCHANGED messages
     ELSE /\ messages' = [messages EXCEPT ![m].live = FALSE]
          /\ sent' = [sent EXCEPT ![h] = Append(@, m)]
          /\ Goto(h, IF k = Len(shown[h]) THEN "dropRow" ELSE "unpost")
  /\ UNCHANGED <<comments, open, rows, inbox, tangled, bounds>>

DropRow(h) ==
  /\ pc[h] = "dropRow"
  /\ rows' = [rows EXCEPT ![row[h]].live = FALSE]
  /\ Done(h)
  /\ UNCHANGED <<world, inbox, tangled, bounds>>

-----------------------------------------------------------------------------
\* Slack's events.

OnMessage(h, e) ==
  /\ e.side = "slack" /\ e.kind = "new"
  /\ IF ~e.plain THEN Drop
     ELSE \E about \in PRsOfMessage(messages[e.item].thread) :
            LET target == Resolve(None, about, open, FALSE) IN
            IF Ambiguous(target) THEN Begin(h, e, "notice", 0, 0)
            ELSE Begin(h, e, "comment", 0, target.pr)

OnMessageChanged(h, e) ==
  /\ e.side = "slack" /\ e.kind # "new"
  /\ \E i \in RowsOfMessage(e.item) :
       LET ours == i # 0 /\ rows[i].origin = "slack" IN
       IF e.kind = "edit"
       THEN IF e.plain /\ ours THEN Begin(h, e, "edit", i, rows[i].pr) ELSE Drop
       ELSE IF ours THEN Begin(h, e, "uncomment", i, rows[i].pr) ELSE Drop

Comment(h) ==
  /\ pc[h] = "comment"
  /\ comments' = Append(comments, [pr |-> pr[h], of |-> job[h].item, text |-> job[h].text,
                                   tagged |-> TRUE, live |-> TRUE])
  /\ sent' = [sent EXCEPT ![h] = <<Len(comments) + 1>>]
  /\ Goto(h, "record")
  /\ UNCHANGED <<messages, open, rows, inbox, tangled, bounds>>

\* Seeded fault: the row says that the comment came first.
RecordAsGitHub(h) ==
  /\ pc[h] = "record"
  /\ Insert(pr[h], job[h].item, <<>>, sent[h][1], "github")
  /\ Done(h)
  /\ UNCHANGED <<world, inbox, tangled, bounds>>

Record(h) ==
  /\ pc[h] = "record"
  /\ Insert(pr[h], job[h].item, <<>>, sent[h][1], "slack")
  /\ Done(h)
  /\ UNCHANGED <<world, inbox, tangled, bounds>>

Notify(h) ==
  /\ pc[h] = "notice"
  /\ Say("notice", job[h].item, job[h].item, None)
  /\ Done(h)
  /\ UNCHANGED <<comments, open, rows, inbox, tangled, bounds>>

\* GitHub answers 404 for a comment that is gone, which raises.
Rewrite(h) ==
  LET c == rows[row[h]].comment IN
  /\ pc[h] = "edit"
  /\ comments' = IF comments[c].live
                 THEN [comments EXCEPT ![c].text = job[h].text, ![c].tagged = TRUE]
                 ELSE comments
  /\ Done(h)
  /\ UNCHANGED <<messages, open, rows, inbox, tangled, bounds>>

Uncomment(h) ==
  LET c == rows[row[h]].comment IN
  /\ pc[h] = "uncomment"
  /\ IF comments[c].live
     THEN comments' = [comments EXCEPT ![c].live = FALSE] /\ Goto(h, "dropRow") /\ UNCHANGED sent
     ELSE Done(h) /\ UNCHANGED comments
  /\ UNCHANGED <<messages, open, rows, inbox, tangled, bounds>>

-----------------------------------------------------------------------------
Receive(h) ==
  /\ pc[h] = "idle"
  /\ \E e \in inbox \cup Echoes :
       /\ Deliver(e)
       /\ OnComment(h, e) \/ OnCommentChanged(h, e) \/ OnMessage(h, e) \/ OnMessageChanged(h, e)
  /\ UNCHANGED <<world, rows, acts>>

\* A call fails, or the process ends: what was done stays, the rest is not.
Die(h) ==
  /\ pc[h] # "idle"
  /\ upsets < MaxUpsets /\ upsets' = upsets + 1
  /\ tangled' = tangled \cup {Item(job[h])}
  /\ Done(h)
  /\ UNCHANGED <<world, rows, inbox, acts>>

Handle(h) ==
  \/ Receive(h)
  \/ Post(h) \/ FallBack(h) \/ MapComment(h)
  \/ Resync(h) \/ SetExtra(h)
  \/ Unpost(h) \/ DropRow(h)
  \/ Comment(h) \/ Record(h) \/ Notify(h)
  \/ Rewrite(h) \/ Uncomment(h)
  \/ Die(h)

Next == People \/ \E h \in Handlers : Handle(h)

Spec == Init /\ [][Next]_vars

-----------------------------------------------------------------------------
\* An item all of whose events were handled, one at a time and to the end.
Settled(item) == ~Busy(item) /\ item \notin tangled

\* The messages of a set, oldest first.
Nth(S, k) == CHOOSE m \in S : Cardinality({j \in S : j < m}) = k - 1
OldestFirst(S) == [k \in 1..Cardinality(S) |-> Nth(S, k)]

\* The live messages that show comment c.
ShownFor(c) ==
  OldestFirst({m \in DOMAIN messages : messages[m].by = "app" /\ messages[m].of = c /\ messages[m].live})

\* What the app writes is never taken up as if a person had written it: the copy
\* of a copy, and the notice about a notice, do not exist.
NoEcho ==
  /\ \A c \in DOMAIN comments :
       comments[c].of # 0 => messages[comments[c].of].by = "person"
  /\ \A m \in DOMAIN messages :
       /\ messages[m].by = "app" => comments[messages[m].of].of = 0
       /\ messages[m].by = "notice" => messages[messages[m].of].by = "person"

\* Once the events of a comment were handled one by one, Slack has its latest
\* text, part by part and once, beginning where its pull request is discussed,
\* and nothing of it when it is deleted.  What happens to other items at the
\* same time does not matter.  In the owner's case the other parts are in the
\* first one's thread.  In a stack nothing is said of them: a resync posts what
\* an edit adds under the first message, which is a reply there, and Slack's
\* threads do not nest.
CommentsShown ==
  \A c \in DOMAIN comments :
    LET ms == ShownFor(c) IN
    comments[c].of = 0 /\ Settled(<<"github", c>>) =>
      /\ [k \in DOMAIN ms |-> messages[ms[k]].part] =
           IF comments[c].live THEN Parts[comments[c].text] ELSE <<>>
      /\ \A k \in DOMAIN ms : k = 1 \/ comments[c].pr = 0 =>
           messages[ms[k]].thread = IF k = 1 THEN comments[c].pr ELSE ms[1]

\* The row of such a comment names its messages, all of them and in order: the
\* next edit or deletion will find them.
RowsName ==
  \A c \in DOMAIN comments :
    LET found == {i \in DOMAIN rows : rows[i].live /\ rows[i].comment = c} IN
    comments[c].of = 0 /\ Settled(<<"github", c>>) =>
      IF comments[c].live
      THEN \E i \in found : found = {i} /\ <<rows[i].ts>> \o rows[i].extra = ShownFor(c)
      ELSE found = {}

\* Once the events of a Slack message were handled one by one, it has one comment
\* with its latest text or one notice, and no comment when it is deleted.
MessagesShown ==
  \A m \in DOMAIN messages :
    LET cs == {c \in DOMAIN comments : comments[c].of = m /\ comments[c].live}
        notices == {k \in DOMAIN messages : messages[k].by = "notice" /\ messages[k].of = m} IN
    messages[m].by = "person" /\ Settled(<<"slack", m>>) =>
      IF messages[m].live
      THEN \/ notices = {} /\ \E c \in cs : cs = {c} /\ comments[c].text = messages[m].text
           \/ cs = {} /\ Cardinality(notices) = 1
      ELSE cs = {}

\* A reply goes to the pull request its thread is about, whatever else is open
\* and whenever the thread was started.
RepliesRouted ==
  \A c \in DOMAIN comments :
    LET m == comments[c].of
        r == IF m = 0 THEN 0 ELSE messages[m].thread
        others == IF r = 0 THEN {} ELSE
          CASE messages[r].by = "parent" -> {r}
            [] messages[r].by = "app"    -> {comments[messages[r].of].pr}
            [] messages[r].by = "person" -> {comments[k].pr : k \in {k \in DOMAIN comments : comments[k].of = r}}
            [] OTHER -> {} IN
    /\ r # 0 /\ messages[r].live
    /\ Settled(<<"slack", m>>) /\ (Source(r) # None => Settled(Source(r)))
    => others \subseteq {comments[c].pr}
=============================================================================
