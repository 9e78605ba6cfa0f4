------------------------------ MODULE PRChannel ------------------------------
(***************************************************************************)
(* The life of a pull request's Slack channel (channel_manager.py): the    *)
(* opened, labeled, closed and reopened webhooks of GitHub, the rows the   *)
(* handlers write and the Slack channels they create, archive and          *)
(* unarchive.                                                              *)
(*                                                                         *)
(* A delivery runs in a handler, a coroutine of one of the web processes.  *)
(* Every await of a handler is a point where the others may run, so every  *)
(* awaited database transaction or Slack call is one action and pc[h] is   *)
(* the next await of handler h.  Nothing orders deliveries: GitHub sends   *)
(* each one once, they may overtake each other, and an operator may        *)
(* redeliver any of them.  A handler may die at any await: an exception    *)
(* (Slack or the database fails), or the end of its process.               *)
(***************************************************************************)
EXTENDS Naturals

CONSTANTS
  PRs,              \* the pull requests
  Channels,         \* Slack channel names; a name identifies its channel
  Handlers,         \* the deliveries that may be in progress together
  None,             \* SQL NULL, Python None
  ChannelName,      \* the name each pull request's own channel gets
  StackParents,     \* the pull requests whose head branch is each one's base
  LabelGate,        \* whether SLACK_CHANNEL_LABEL is configured
  InOrder,          \* deliveries are handled one at a time, oldest first
  MaxDeliveries,    \* bound: webhooks GitHub sends
  MaxRedeliveries,  \* bound: redeliveries an operator asks for
  MaxFailures       \* bound: exceptions and crashes that the model injects

\* ChannelName need not be one-to-one: names are lower-cased, sanitised and
\* cut to 80 characters.  StackParents[p] is empty when stacking is off, or
\* p's base is the default branch or an excluded one.
ASSUME PRChannelAssumption ==
  /\ None \notin PRs /\ None \notin Channels
  /\ ChannelName \in [PRs -> Channels]
  /\ StackParents \in [PRs -> SUBSET PRs]
  /\ LabelGate \in BOOLEAN /\ InOrder \in BOOLEAN
  /\ MaxDeliveries \in Nat /\ MaxRedeliveries \in Nat /\ MaxFailures \in Nat

VARIABLES
  github,        \* GitHub: "unborn", "open" or "closed", per pull request
  sent,          \* how many deliveries GitHub has sent
  inbox,         \* the deliveries that are still to reach a handler
  redeliveries,  \* how many deliveries came more than once
  state,         \* PullRequest.state, "untracked" while there is no row
  channelOf,     \* PullRequest.slack_channel_id
  thread,        \* PullRequest.slack_thread_ts, 0 for NULL
  owner,         \* SlackChannel.pull_request_id, None while there is no row
  isArchived,    \* SlackChannel.is_archived
  slack,         \* Slack: "absent", "live" or "archived", per channel
  parents,       \* Slack: the parent messages of stacked pull requests
  clock,         \* Slack: the last message timestamp given out
  pc,            \* the next await of every handler, or "idle"
  job,           \* the delivery a handler works on
  chan,          \* its local channel_id
  ts,            \* its local parent_msg["ts"]
  failed,        \* the deliveries that ended in an exception or a crash
  unanswered,    \* ghost: stacked pull requests whose row was committed by a
                 \* create_pr_and_channel that then raised
  failures       \* how many failures the model has injected

ghVars      == <<github, sent, inbox, redeliveries>>
rowVars     == <<state, channelOf, thread>>
dbVars      == <<rowVars, owner, isArchived>>
slackVars   == <<slack, parents, clock>>
handlerVars == <<pc, job, chan, ts, failed, unanswered>>
vars == <<ghVars, dbVars, slackVars, handlerVars, failures>>

Events == {"opened", "labeled", "closed", "reopened"}

\* `wanted`: nothing in the payload or in the configuration keeps the open
\* flow from running, that is, no _noslackchannel marker, the channel label is
\* there if one is configured, and the organisation has a bot token.
Deliveries == [n : 1..MaxDeliveries, pr : PRs, event : Events, wanted : BOOLEAN]

ParentMessages == [channel : Channels, ts : Nat, pr : PRs]

OpenSteps    == {"check", "findParent", "create", "setup", "insert"}
StackSteps   == {"joinUnarchive", "joinPost", "joinInsert", "joinUndo"}
CloseSteps   == {"close", "closePost", "count", "archive", "markArchived"}
ReopenSteps  == {"lookup", "reopen", "unarchive", "markLive", "reopenPost"}
Steps        == OpenSteps \cup StackSteps \cup CloseSteps \cup ReopenSteps

TypeOK ==
  /\ github \in [PRs -> {"unborn", "open", "closed"}]
  /\ sent \in Nat
  /\ inbox \subseteq Deliveries
  /\ redeliveries \in Nat
  /\ state \in [PRs -> {"untracked", "open", "closed"}]
  /\ channelOf \in [PRs -> Channels \cup {None}]
  /\ thread \in [PRs -> Nat]
  /\ owner \in [Channels -> PRs \cup {None}]
  /\ isArchived \in [Channels -> BOOLEAN]
  /\ slack \in [Channels -> {"absent", "live", "archived"}]
  /\ parents \subseteq ParentMessages
  /\ clock \in Nat
  /\ pc \in [Handlers -> Steps \cup {"idle"}]
  /\ job \in [Handlers -> Deliveries \cup {None}]
  /\ \A h \in Handlers : pc[h] # "idle" => job[h] \in Deliveries
  /\ chan \in [Handlers -> Channels \cup {None}]
  /\ ts \in [Handlers -> Nat]
  /\ failed \subseteq Deliveries
  /\ unanswered \subseteq PRs
  /\ failures \in Nat

Init ==
  /\ github = [p \in PRs |-> "unborn"]
  /\ sent = 0 /\ inbox = {} /\ redeliveries = 0
  /\ state = [p \in PRs |-> "untracked"]
  /\ channelOf = [p \in PRs |-> None]
  /\ thread = [p \in PRs |-> 0]
  /\ owner = [c \in Channels |-> None]
  /\ isArchived = [c \in Channels |-> FALSE]
  /\ slack = [c \in Channels |-> "absent"]
  /\ parents = {} /\ clock = 0
  /\ pc = [h \in Handlers |-> "idle"]
  /\ job = [h \in Handlers |-> None]
  /\ chan = [h \in Handlers |-> None]
  /\ ts = [h \in Handlers |-> 0]
  /\ failed = {} /\ unanswered = {} /\ failures = 0

-----------------------------------------------------------------------------
(* GitHub *)

Send(p, event, wanted) ==
  LET d == [n |-> sent + 1, pr |-> p, event |-> event, wanted |-> wanted]
  IN  /\ sent < MaxDeliveries
      /\ sent' = sent + 1
      /\ inbox' = inbox \cup {d}
      /\ UNCHANGED redeliveries

GitHubOpens(p) ==
  /\ github[p] = "unborn"
  /\ github' = [github EXCEPT ![p] = "open"]
  /\ \E wanted \in BOOLEAN : Send(p, "opened", wanted)

\* Labels are looked at only where a channel label is configured.  The handler
\* drops a label set on a closed pull request.
GitHubLabels(p) ==
  /\ LabelGate
  /\ github[p] # "unborn"
  /\ Send(p, "labeled", github[p] = "open")
  /\ UNCHANGED github

GitHubCloses(p) ==
  /\ github[p] = "open"
  /\ github' = [github EXCEPT ![p] = "closed"]
  /\ Send(p, "closed", TRUE)

GitHubReopens(p) ==
  /\ github[p] = "closed"
  /\ github' = [github EXCEPT ![p] = "open"]
  /\ \E wanted \in BOOLEAN : Send(p, "reopened", wanted)

GitHub ==
  /\ \E p \in PRs :
       GitHubOpens(p) \/ GitHubLabels(p) \/ GitHubCloses(p) \/ GitHubReopens(p)
  /\ UNCHANGED <<dbVars, slackVars, handlerVars, failures>>

-----------------------------------------------------------------------------
(* Handlers *)

PR(h) == job[h].pr

Goto(h, step) ==
  /\ pc' = [pc EXCEPT ![h] = step]
  /\ UNCHANGED <<job, chan, ts, failed, unanswered>>

\* Go on with local channel_id c and local ts t.
GotoWith(h, step, c, t) ==
  /\ pc' = [pc EXCEPT ![h] = step]
  /\ chan' = [chan EXCEPT ![h] = c]
  /\ ts' = [ts EXCEPT ![h] = t]
  /\ UNCHANGED <<job, failed, unanswered>>

\* The handler is done and its local variables are gone.
Finish(h) ==
  /\ pc' = [pc EXCEPT ![h] = "idle"]
  /\ job' = [job EXCEPT ![h] = None]
  /\ chan' = [chan EXCEPT ![h] = None]
  /\ ts' = [ts EXCEPT ![h] = 0]

Return(h) == Finish(h) /\ UNCHANGED <<failed, unanswered>>

\* Seeded fault: the handler's job is gone before the failure is recorded.
RaiseForgettingJob(h) ==
  Finish(h) /\ failed' = failed \cup {job'[h]} /\ UNCHANGED unanswered

\* An exception: the route answers 500 and GitHub records a failed delivery.
Raise(h) == Finish(h) /\ failed' = failed \cup {job[h]} /\ UNCHANGED unanswered

\* The event's handler, and its first await.  With a channel label configured
\* the labeled event opens the channel and opened is ignored.
FirstStep(d) ==
  CASE d.event = "closed"   -> "close"
    [] d.event = "reopened" -> "lookup"
    [] d.event = "opened"   -> IF ~LabelGate /\ d.wanted THEN "check" ELSE "idle"
    [] d.event = "labeled"  -> IF LabelGate /\ d.wanted THEN "check" ELSE "idle"

Ignored(d) == FirstStep(d) = "idle"

\* A delivery that an operator redelivers stays in the inbox: it comes again
\* at any later time, while the first copy is being handled or after it.
Receive(h, d) ==
  /\ pc[h] = "idle"
  /\ InOrder => \A e \in inbox : d.n <= e.n
  /\ \/ inbox' = inbox \ {d} /\ UNCHANGED redeliveries
     \/ /\ redeliveries < MaxRedeliveries
        /\ redeliveries' = redeliveries + 1
        /\ UNCHANGED inbox
  /\ failed' = failed \ {d}
  /\ IF Ignored(d)
       THEN UNCHANGED <<pc, job>>
       ELSE /\ pc' = [pc EXCEPT ![h] = FirstStep(d)]
            /\ job' = [job EXCEPT ![h] = d]
  /\ UNCHANGED <<github, sent, dbVars, slackVars, chan, ts, unanswered, failures>>

-----------------------------------------------------------------------------
(* The open flow: _open_channel *)

CheckTracked(h) ==
  /\ pc[h] = "check"
  /\ IF state[PR(h)] = "untracked" THEN Goto(h, "findParent") ELSE Return(h)
  /\ UNCHANGED <<ghVars, dbVars, slackVars, failures>>

\* get_stack_parent takes the newest candidate; the model takes any of them.
StackParentRows(p) == {q \in StackParents[p] : state[q] = "open"}

FindParent(h) ==
  /\ pc[h] = "findParent"
  /\ \/ \E q \in StackParentRows(PR(h)) :
          GotoWith(h, "joinUnarchive", channelOf[q], 0)
     \/ /\ StackParentRows(PR(h)) = {}
        /\ GotoWith(h, "create", ChannelName[PR(h)], 0)
  /\ UNCHANGED <<ghVars, dbVars, slackVars, failures>>

\* Seeded fault: give up, without an exception, when the name is taken.
CreateChannelOnce(h) ==
  /\ pc[h] = "create"
  /\ IF slack[chan[h]] = "absent"
       THEN slack' = [slack EXCEPT ![chan[h]] = "live"] /\ Goto(h, "setup")
       ELSE Return(h) /\ UNCHANGED slack
  /\ UNCHANGED <<ghVars, dbVars, parents, clock, failures>>

\* name_taken: resume on the channel that has the name, an archived one too.
CreateChannel(h) ==
  /\ pc[h] = "create"
  /\ slack' = [slack EXCEPT ![chan[h]] = IF @ = "absent" THEN "live" ELSE @]
  /\ Goto(h, "setup")
  /\ UNCHANGED <<ghVars, dbVars, parents, clock, failures>>

\* Topic, bookmark, first message and invitations: Slack refuses every one of
\* these calls in an archived channel.
SetUpChannel(h) ==
  /\ pc[h] = "setup"
  /\ IF slack[chan[h]] = "archived" THEN Raise(h) ELSE Goto(h, "insert")
  /\ UNCHANGED <<ghVars, dbVars, slackVars, failures>>

\* The PullRequest row.  github_pr_id is unique.
InsertRow(p, c, t) ==
  /\ state' = [state EXCEPT ![p] = "open"]
  /\ channelOf' = [channelOf EXCEPT ![p] = c]
  /\ thread' = [thread EXCEPT ![p] = t]

\* Seeded fault: no unique constraint on slack_channel_id.
CanInsertAnyOwner(p, c) == state[p] = "untracked"

\* The PullRequest and SlackChannel rows are one transaction: when either
\* unique constraint (github_pr_id, slack_channel_id) refuses, neither is
\* written and create_pr_and_channel raises.  It raises as well if the commit's
\* answer is lost or the row cannot be read back after it: then both are there.
CanInsertOwner(p, c) == state[p] = "untracked" /\ owner[c] = None

InsertOwner(h) ==
  /\ pc[h] = "insert"
  /\ IF CanInsertOwner(PR(h), chan[h])
       THEN /\ InsertRow(PR(h), chan[h], 0)
            /\ owner' = [owner EXCEPT ![chan[h]] = PR(h)]
            /\ isArchived' = [isArchived EXCEPT ![chan[h]] = FALSE]
            /\ \/ Return(h) /\ UNCHANGED failures
               \/ failures < MaxFailures /\ failures' = failures + 1 /\ Raise(h)
       ELSE Raise(h) /\ UNCHANGED <<dbVars, failures>>
  /\ UNCHANGED <<ghVars, slackVars>>

-----------------------------------------------------------------------------
(* The open flow of a stacked pull request: _join_stack *)

\* `except Exception` drops the answer of Slack, not_archived or a failure.
Unarchive(h, next) ==
  /\ \/ /\ slack' = [slack EXCEPT ![chan[h]] = "live"]
        /\ UNCHANGED failures
     \/ /\ failures < MaxFailures
        /\ slack[chan[h]] = "archived"
        /\ failures' = failures + 1
        /\ UNCHANGED slack
  /\ Goto(h, next)
  /\ UNCHANGED <<ghVars, dbVars, parents, clock>>

JoinUnarchive(h) == pc[h] = "joinUnarchive" /\ Unarchive(h, "joinPost")

PostParent(h) ==
  /\ pc[h] = "joinPost"
  /\ IF slack[chan[h]] = "archived"
       THEN Raise(h) /\ UNCHANGED <<parents, clock>>
       ELSE /\ clock' = clock + 1
            /\ parents' = parents \cup
                 {[channel |-> chan[h], ts |-> clock + 1, pr |-> PR(h)]}
            /\ GotoWith(h, "joinInsert", chan[h], clock + 1)
  /\ UNCHANGED <<ghVars, dbVars, slack, failures>>

\* Seeded fault: the parent message is not removed when the row exists.
JoinInsertKeepingParent(h) ==
  /\ pc[h] = "joinInsert"
  /\ IF state[PR(h)] = "untracked"
       THEN InsertRow(PR(h), chan[h], ts[h]) /\ Return(h)
       ELSE UNCHANGED rowVars /\ Raise(h)
  /\ UNCHANGED <<ghVars, owner, isArchived, slackVars, failures>>

JoinInsert(h) ==
  /\ pc[h] = "joinInsert"
  /\ IF state[PR(h)] = "untracked"
       THEN InsertRow(PR(h), chan[h], ts[h]) /\ Return(h)
       ELSE UNCHANGED rowVars /\ Goto(h, "joinUndo")
  /\ UNCHANGED <<ghVars, owner, isArchived, slackVars, failures>>

\* The insert may also fail because the database does.
JoinInsertFails(h) ==
  /\ pc[h] = "joinInsert"
  /\ failures < MaxFailures
  /\ failures' = failures + 1
  /\ Goto(h, "joinUndo")
  /\ UNCHANGED <<ghVars, dbVars, slackVars>>

\* The row is committed, and then the commit's answer is lost or the row cannot
\* be read back: to _join_stack this is an insert that failed.
JoinInsertUnanswered(h) ==
  /\ pc[h] = "joinInsert"
  /\ state[PR(h)] = "untracked"
  /\ failures < MaxFailures
  /\ failures' = failures + 1
  /\ InsertRow(PR(h), chan[h], ts[h])
  /\ unanswered' = unanswered \cup {PR(h)}
  /\ pc' = [pc EXCEPT ![h] = "joinUndo"]
  /\ UNCHANGED <<ghVars, owner, isArchived, slackVars, job, chan, ts, failed>>

HeldParent(h) == [channel |-> chan[h], ts |-> ts[h], pr |-> PR(h)]

\* Seeded fault: the clean-up removes every parent message of the pull request.
UndoAllParents(h) ==
  /\ pc[h] = "joinUndo"
  /\ parents' = {m \in parents : m.pr # PR(h)}
  /\ Raise(h)
  /\ UNCHANGED <<ghVars, dbVars, slack, clock, failures>>

\* Remove the parent message, then raise.  Slack may refuse the deletion.
UndoParent(h) ==
  /\ pc[h] = "joinUndo"
  /\ \/ parents' = parents \ {HeldParent(h)} /\ UNCHANGED failures
     \/ /\ failures < MaxFailures
        /\ failures' = failures + 1
        /\ UNCHANGED parents
  /\ Raise(h)
  /\ UNCHANGED <<ghVars, dbVars, slack, clock>>

-----------------------------------------------------------------------------
(* handle_pr_closed *)

\* close_pr reads the row and writes state = closed in one transaction.  The
\* handler keeps the returned row, whose channel and thread never change.
ClosePR(h) ==
  /\ pc[h] = "close"
  /\ IF state[PR(h)] = "untracked"
       THEN Return(h) /\ UNCHANGED <<state>>
       ELSE /\ state' = [state EXCEPT ![PR(h)] = "closed"]
            /\ GotoWith(h, "closePost", channelOf[PR(h)], 0)
  /\ UNCHANGED <<ghVars, channelOf, thread, owner, isArchived, slackVars, failures>>

\* Slack refuses a post while the channel is archived.
ClosePost(h) ==
  /\ pc[h] = "closePost"
  /\ IF slack[chan[h]] = "archived" THEN Raise(h) ELSE Goto(h, "count")
  /\ UNCHANGED <<ghVars, dbVars, slackVars, failures>>

OpenInChannel(c) == {p \in PRs : channelOf[p] = c /\ state[p] = "open"}

\* Seeded fault: a closed pull request always takes its channel with it.
CloseWithoutCounting(h) ==
  /\ pc[h] = "count"
  /\ Goto(h, "archive")
  /\ UNCHANGED <<ghVars, dbVars, slackVars, failures>>

CountOpen(h) ==
  /\ pc[h] = "count"
  /\ IF OpenInChannel(chan[h]) = {} THEN Goto(h, "archive") ELSE Return(h)
  /\ UNCHANGED <<ghVars, dbVars, slackVars, failures>>

\* Slack answers already_archived with an exception.
ArchiveChannel(h) ==
  /\ pc[h] = "archive"
  /\ IF slack[chan[h]] = "archived"
       THEN Raise(h) /\ UNCHANGED slack
       ELSE slack' = [slack EXCEPT ![chan[h]] = "archived"] /\ Goto(h, "markArchived")
  /\ UNCHANGED <<ghVars, dbVars, parents, clock, failures>>

\* set_channel_archived: nothing happens when the channel has no row.
SetArchived(h, archived) ==
  isArchived' = [isArchived EXCEPT ![chan[h]] =
                   IF owner[chan[h]] = None THEN @ ELSE archived]

MarkArchived(h) ==
  /\ pc[h] = "markArchived"
  /\ SetArchived(h, TRUE)
  /\ Return(h)
  /\ UNCHANGED <<ghVars, rowVars, owner, slackVars, failures>>

-----------------------------------------------------------------------------
(* handle_pr_reopened *)

\* A pull request that was never tracked takes the whole open flow.
Lookup(h) ==
  /\ pc[h] = "lookup"
  /\ \/ state[PR(h)] # "untracked" /\ Goto(h, "reopen")
     \/ state[PR(h)] = "untracked" /\ job[h].wanted /\ Goto(h, "check")
     \/ state[PR(h)] = "untracked" /\ ~job[h].wanted /\ Return(h)
  /\ UNCHANGED <<ghVars, dbVars, slackVars, failures>>

ReopenPR(h) ==
  /\ pc[h] = "reopen"
  /\ state' = [state EXCEPT ![PR(h)] = "open"]
  /\ GotoWith(h, "unarchive", channelOf[PR(h)], 0)
  /\ UNCHANGED <<ghVars, channelOf, thread, owner, isArchived, slackVars, failures>>

ReopenUnarchive(h) == pc[h] = "unarchive" /\ Unarchive(h, "markLive")

\* Seeded fault: a reopened channel stays marked as archived.
KeepMark(h) ==
  /\ pc[h] = "markLive"
  /\ Goto(h, "reopenPost")
  /\ UNCHANGED <<ghVars, dbVars, slackVars, failures>>

MarkLive(h) ==
  /\ pc[h] = "markLive"
  /\ SetArchived(h, FALSE)
  /\ Goto(h, "reopenPost")
  /\ UNCHANGED <<ghVars, rowVars, owner, slackVars, failures>>

ReopenPost(h) ==
  /\ pc[h] = "reopenPost"
  /\ IF slack[chan[h]] = "archived" THEN Raise(h) ELSE Return(h)
  /\ UNCHANGED <<ghVars, dbVars, slackVars, failures>>

-----------------------------------------------------------------------------

\* Any await may raise, and the process may end at any await.
Die(h) ==
  /\ pc[h] # "idle"
  /\ failures < MaxFailures
  /\ failures' = failures + 1
  /\ Raise(h)
  /\ UNCHANGED <<ghVars, dbVars, slackVars>>

OpenFlow(h) ==
  \/ CheckTracked(h) \/ FindParent(h) \/ CreateChannel(h)
  \/ SetUpChannel(h) \/ InsertOwner(h)

StackFlow(h) ==
  \/ JoinUnarchive(h) \/ PostParent(h) \/ JoinInsert(h)
  \/ JoinInsertFails(h) \/ JoinInsertUnanswered(h) \/ UndoParent(h)

CloseFlow(h) ==
  \/ ClosePR(h) \/ ClosePost(h) \/ CountOpen(h)
  \/ ArchiveChannel(h) \/ MarkArchived(h)

ReopenFlow(h) ==
  \/ Lookup(h) \/ ReopenPR(h) \/ ReopenUnarchive(h)
  \/ MarkLive(h) \/ ReopenPost(h)

Step(h) ==
  \/ \E d \in inbox : Receive(h, d)
  \/ OpenFlow(h) \/ StackFlow(h) \/ CloseFlow(h) \/ ReopenFlow(h)

Next == GitHub \/ \E h \in Handlers : Step(h) \/ Die(h)

\* The event loop keeps running every coroutine, and what Slack or the
\* database is asked for is answered in the end.  Nothing makes GitHub or the
\* operator act.
Spec == Init /\ [][Next]_vars /\ \A h \in Handlers : WF_vars(Step(h))

-----------------------------------------------------------------------------
(* Properties *)

Tracked(p) == state[p] # "untracked"
Stacked(p) == Tracked(p) /\ thread[p] # 0
Quiescent == inbox = {} /\ \A h \in Handlers : pc[h] = "idle"

\* The message that p's row points to.
ParentOf(p) == [channel |-> channelOf[p], ts |-> thread[p], pr |-> p]

\* get_pr_by_channel, asked on every message, command and reaction in a
\* channel, uses scalar_one_or_none and raises when two pull requests own the
\* channel.  However the channel names collide and deliveries overlap, a
\* channel has one owner, which is the pull request its SlackChannel row names.
OwnerConsistent ==
  \A p \in PRs : Tracked(p) /\ thread[p] = 0 => owner[channelOf[p]] = p

\* All that is said about a stacked pull request goes in the thread under its
\* parent message.  Whatever copies of the open flow race, fail and clean up
\* after themselves, the message a row points to is still there and is about that
\* pull request, unless the commit of the row itself was reported as a failure;
\* and in any case its channel has its own SlackChannel row.
StackedThreadsLive ==
  \A p \in PRs : Stacked(p) =>
    /\ p \notin unanswered => ParentOf(p) \in parents
    /\ owner[channelOf[p]] # None

\* "It gets one parent message there, and all its activity goes in that thread"
\* (README, STACK_CHANNELS): when all is handled, the parent message that the row
\* of a stacked pull request points to is there.
ParentStands ==
  Quiescent => \A p \in PRs : Stacked(p) => ParentOf(p) \in parents

Holds(h, m) == pc[h] \in {"joinInsert", "joinUndo"} /\ HeldParent(h) = m

\* _join_stack removes its parent message when the row cannot be written, "so
\* a redelivery does not leave an orphaned parent behind".  As long as nothing
\* but the constraints fails, every parent message belongs to a row or to a
\* handler that has yet to write the row or remove the message.
NoOrphanedParent ==
  failures = 0 =>
    \A m \in parents :
      \/ Tracked(m.pr) /\ thread[m.pr] = m.ts
      \/ \E h \in Handlers : Holds(h, m)

\* Every delivery that should open a channel leads to a tracked pull request,
\* or GitHub shows one of the pull request's deliveries as failed, which can be
\* redelivered: after a crash halfway, the open flow picks up what it finds.
OpenedIsTracked ==
  \A p \in PRs :
    (\E d \in inbox : d.pr = p /\ FirstStep(d) = "check")
      ~> (Tracked(p) \/ \E d \in failed : d.pr = p)

\* When deliveries do not overlap, arrive in the order GitHub sent them and
\* nothing fails, the handlers keep the README's promise: "the channel is
\* archived when the last open PR in it closes", never before and always then.
Promise == INSTANCE StackChannel WITH
  status <- slack,
  members <- [c \in Channels |-> {p \in PRs : channelOf[p] = c}],
  open <- {p \in PRs : state[p] = "open"}

KeepsPromise == Promise!Spec

\* Under the same conditions, whenever all is handled the database agrees with
\* GitHub and with Slack: a tracked pull request is open exactly if it is on
\* GitHub, and a channel's row is marked archived exactly if the channel is.
Settled ==
  Quiescent =>
    /\ \A p \in PRs : Tracked(p) => state[p] = github[p]
    /\ \A c \in Channels : owner[c] # None =>
         (isArchived[c] <=> slack[c] = "archived")

\* "A stack's channel stays open while any PR in it is still open"
\* (handle_pr_closed).  When every delivery has been handled, without a single
\* exception, the channel of a tracked pull request that is open is live.
StackStaysOpen ==
  Quiescent /\ failed = {} =>
    \A p \in PRs : state[p] = "open" /\ github[p] = "open" => slack[channelOf[p]] = "live"
=============================================================================
