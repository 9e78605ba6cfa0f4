------------------------------ MODULE CINotices ------------------------------
(***************************************************************************)
(* What a pull request's channel shows of its checks                       *)
(* (notification_service.py): a bookmark that is edited in place, and a    *)
(* recap when the checks are all done and their verdict changed.           *)
(*                                                                         *)
(* GitHub sends two webhooks when a check completes, check_suite and       *)
(* workflow_run; the handler of either does the same refresh, and two      *)
(* refreshes may run together.  The check runs of a commit are abstracted  *)
(* to the set of outcomes among them, which is all the code tells apart.   *)
(***************************************************************************)
EXTENDS Naturals, Sequences, FiniteSets

CONSTANTS
  Refreshers,   \* webhooks handled together
  None,         \* SQL NULL, Python None
  Mixes,        \* the outcomes a commit's check runs may come to
  MaxPushes,    \* bound: commits after the first
  MaxChanges,   \* bound: how often the checks change
  MaxFaults     \* bound: failed calls, crashes, bookmarks removed by hand

ASSUME CINoticesAssumption ==
  /\ {MaxPushes, MaxChanges, MaxFaults} \subseteq Nat
  /\ Mixes \subseteq SUBSET {"running", "failed", "inconclusive", "passed"}

VARIABLES
  stacked,      \* slack_thread_ts is set: the channel is another pull request's
  head,         \* the newest commit
  checks,       \* GitHub: the outcomes among each commit's check runs
  changes,      \* how often they have changed
  hooks,        \* the webhooks still to be handled: a commit and an event
  bookmarkId,   \* PullRequest.ci_bookmark_id, 0 for NULL
  lastState,    \* PullRequest.last_ci_state
  bookmarks,    \* Slack: the CI bookmarks added to the channel
  recaps,       \* the verdicts to announce, in the order they were decided
  work,         \* what each refresh is at
  faults,       \* how many the model has injected
  serial,       \* no two refreshes overlapped, and none failed, so far
  fresh         \* the commit of the last refresh, if it ran alone and nothing
                \* changed since it began

github == <<stacked, head, checks, changes, hooks>>
ciVars == <<github, bookmarkId, lastState, bookmarks, recaps, work, faults,
            serial, fresh>>

\* "inconclusive" stands for cancelled and stale runs, "passed" for neutral and
\* skipped ones too.
Outcomes == {"running", "failed", "inconclusive", "passed"}
Commits == 1..(1 + MaxPushes)
Triggers == {"check_suite", "workflow_run"}

\* Seeded fault: runs that have not ended are given a verdict too.
CompletionSoFar(runs) ==
  IF runs = {} THEN None ELSE IF "running" \in runs THEN "running"
  ELSE IF "failed" \in runs THEN "failed" ELSE "passed"

\* A verdict needs every run done and none cut short.
CompletionState(runs) ==
  IF runs = {} \/ "running" \in runs THEN None
  ELSE IF "failed" \in runs THEN "failed"
  ELSE IF "inconclusive" \in runs THEN None ELSE "passed"

\* The bookmark shows the worst there is, a failure before what still runs.
Rank == [failed |-> 1, running |-> 2, inconclusive |-> 3, passed |-> 4]
AggregateCheckState(runs) ==
  IF runs = {} THEN "waiting"
  ELSE CHOOSE o \in runs : \A p \in runs : Rank[o] <= Rank[p]

AtRest == [at |-> "idle", commit |-> 0, id |-> 0, runs |-> {}, made |-> 0, recap |-> 0]

CIInit ==
  /\ stacked \in BOOLEAN
  /\ head = 1 /\ checks = [c \in Commits |-> {}] /\ changes = 0
  /\ hooks = {}
  /\ bookmarkId = 0 /\ lastState = None
  /\ bookmarks = <<>> /\ recaps = <<>>
  /\ work = [r \in Refreshers |-> AtRest]
  /\ faults = 0 /\ serial = TRUE /\ fresh = {}

Quiet == \A r \in Refreshers : work[r].at = "idle"
Fault == faults < MaxFaults /\ faults' = faults + 1 /\ serial' = FALSE /\ fresh' = {}

-----------------------------------------------------------------------------
(* GitHub and Slack's people *)

Push ==
  /\ head < 1 + MaxPushes
  /\ head' = head + 1
  /\ UNCHANGED <<stacked, checks, changes, hooks, bookmarkId, lastState,
                 bookmarks, recaps, work, faults, serial, fresh>>

\* A check of a commit registers, completes or is run again.
ChecksChange(c, runs) ==
  /\ changes < MaxChanges /\ c <= head /\ runs # checks[c]
  /\ checks' = [checks EXCEPT ![c] = runs]
  /\ changes' = changes + 1
  /\ hooks' = hooks \cup {[n |-> changes', commit |-> c, by |-> t] : t \in Triggers}
  /\ fresh' = {}
  /\ UNCHANGED <<stacked, head, bookmarkId, lastState, bookmarks, recaps, work,
                 faults, serial>>

RemovedByHand(b) ==
  /\ Fault
  /\ bookmarks[b].live
  /\ bookmarks' = [bookmarks EXCEPT ![b].live = FALSE]
  /\ UNCHANGED <<github, bookmarkId, lastState, recaps, work>>

-----------------------------------------------------------------------------
(* _refresh_ci_bookmark *)

Turn(r, w) == work' = [work EXCEPT ![r] = w]
Goto(r, step) == Turn(r, [work[r] EXCEPT !.at = step])

\* The pull request's row is read.
BeginRefresh(r, w) ==
  /\ work[r].at = "idle"
  /\ w \in hooks
  /\ hooks' = hooks \ {w}
  /\ Turn(r, [AtRest EXCEPT !.at = "fetch", !.commit = w.commit, !.id = bookmarkId])
  /\ serial' = (serial /\ Quiet)
  /\ fresh' = (IF Quiet THEN {w.commit} ELSE {})
  /\ UNCHANGED <<stacked, head, checks, changes, bookmarkId, lastState, bookmarks,
                 recaps, faults>>

\* The check runs are fetched.  A stacked pull request leaves the bookmarks to
\* the owner of the channel.
Fetch(r) ==
  LET c == work[r].commit
  IN /\ work[r].at = "fetch"
     /\ Turn(r, [work[r] EXCEPT !.runs = checks[c],
                                !.at = IF stacked THEN "decide" ELSE "edit"])
     /\ UNCHANGED <<github, bookmarkId, lastState, bookmarks, recaps, faults,
                    serial, fresh>>

\* Seeded fault: a bookmark that is gone is edited all the same.
LostIfNull(b) == b = 0

\* The bookmark the row named is edited; when there is none, or Slack no longer
\* has it, a new one is added.
Lost(b) == b = 0 \/ ~bookmarks[b].live
EditBookmark(r) ==
  LET b == work[r].id
  IN /\ work[r].at = "edit"
     /\ IF Lost(b) THEN Goto(r, "add") /\ UNCHANGED bookmarks
        ELSE /\ bookmarks' = [bookmarks EXCEPT ![b].shows = AggregateCheckState(work[r].runs)]
             /\ Goto(r, "decide")
     /\ UNCHANGED <<github, bookmarkId, lastState, recaps,
                    faults, serial, fresh>>

AddBookmark(r) ==
  /\ work[r].at = "add"
  /\ bookmarks' = Append(bookmarks, [live |-> TRUE,
                                     shows |-> AggregateCheckState(work[r].runs)])
  /\ Turn(r, [work[r] EXCEPT !.made = Len(bookmarks'), !.at = "save"])
  /\ UNCHANGED <<github, bookmarkId, lastState, recaps,
                 faults, serial, fresh>>

\* Seeded fault: the new bookmark's id is not stored.
SetNothing(b) == bookmarkId

SetPRCIBookmarkId(b) == b
SaveBookmark(r) ==
  /\ work[r].at = "save"
  /\ bookmarkId' = SetPRCIBookmarkId(work[r].made)
  /\ Goto(r, "decide")
  /\ UNCHANGED <<github, lastState, bookmarks, recaps,
                 faults, serial, fresh>>

\* Seeded fault: the recorded verdict is not compared.
TransitionAlways(state) == TRUE

\* transition_pr_last_ci_state: one conditional update, which tells the refresh
\* that changed the row from the one that came second.
Transition(state) == lastState # state
Decide(r) ==
  LET state == CompletionState(work[r].runs)
  IN /\ work[r].at = "decide"
     /\ IF state # None /\ Transition(state)
        THEN /\ lastState' = state
             /\ recaps' = Append(recaps, [state |-> state, commit |-> work[r].commit,
                                          posted |-> FALSE])
             /\ Turn(r, [work[r] EXCEPT !.recap = Len(recaps'), !.at = "post"])
        ELSE Turn(r, AtRest) /\ UNCHANGED <<lastState, recaps>>
     /\ UNCHANGED <<github, bookmarkId, bookmarks, faults,
                    serial, fresh>>

PostRecap(r) ==
  /\ work[r].at = "post"
  /\ recaps' = [recaps EXCEPT ![work[r].recap].posted = TRUE]
  /\ Turn(r, AtRest)
  /\ UNCHANGED <<github, bookmarkId, lastState, bookmarks,
                 faults, serial, fresh>>

\* A call fails, or the process ends.  A failed fetch ends the refresh, a failed
\* edit raises, a failed add goes on to the recap, a recap that Slack refuses is
\* never posted.
CallFails(r) ==
  /\ Fault
  /\ work[r].at # "idle"
  /\ IF work[r].at = "add" THEN Goto(r, "decide") ELSE Turn(r, AtRest)
  /\ UNCHANGED <<github, bookmarkId, lastState, bookmarks, recaps>>

CINext ==
  \/ Push
  \/ \E c \in Commits, runs \in Mixes : ChecksChange(c, runs)
  \/ \E b \in DOMAIN bookmarks : RemovedByHand(b)
  \/ \E r \in Refreshers :
       \/ \E w \in hooks : BeginRefresh(r, w)
       \/ Fetch(r) \/ EditBookmark(r) \/ AddBookmark(r) \/ SaveBookmark(r)
       \/ Decide(r) \/ PostRecap(r)
       \/ CallFails(r)

CISpec == CIInit /\ [][CINext]_ciVars

-----------------------------------------------------------------------------
(* Properties *)

\* The variables have their types; last_ci_state only ever holds a verdict, and
\* an id in the row or in a handler's hands is one Slack has given out.
CITypeOK ==
  /\ stacked \in BOOLEAN /\ head \in Commits
  /\ checks \in [Commits -> SUBSET Outcomes]
  /\ hooks \subseteq [n : Nat, commit : Commits, by : Triggers]
  /\ lastState \in {None, "passed", "failed"}
  /\ bookmarkId \in {0} \cup DOMAIN bookmarks
  /\ \A r \in Refreshers :
       /\ work[r].at \in {"idle", "fetch", "edit", "add", "save", "decide", "post"}
       /\ work[r].id \in {0} \cup DOMAIN bookmarks
       /\ work[r].at = "post" => ~recaps[work[r].recap].posted

\* However check_suite and workflow_run race, the same verdict is never
\* decided on twice in a row: each recap goes with a flip of the one before
\* (queries.py:714-718, notification_service.py:188-190).
NoDoubleRecap ==
  /\ \A i \in 2..Len(recaps) : recaps[i].state # recaps[i - 1].state
  /\ lastState # None => recaps # <<>> /\ recaps[Len(recaps)].state = lastState

\* A channel has one CI bookmark as long as refreshes did not overlap or fail;
\* a stacked pull request has none.  Two refreshes that both found the row
\* without one add two, and the first is never edited again.
OneBookmark ==
  LET live == {b \in DOMAIN bookmarks : bookmarks[b].live}
  IN /\ serial => Cardinality(live) <= 1
     /\ stacked => live = {}

\* After a refresh that ran alone, and before the checks change again, the
\* channel is right about that commit whatever happened before: the recorded
\* bookmark is there and shows the checks, and a verdict was announced if there
\* is one.
ChannelShows ==
  Quiet => \A c \in fresh :
    LET verdict == CompletionState(checks[c])
    IN /\ ~stacked => /\ bookmarkId # 0 /\ bookmarks[bookmarkId].live
                      /\ bookmarks[bookmarkId].shows = AggregateCheckState(checks[c])
       /\ verdict # None => lastState = verdict
       /\ serial => \A i \in DOMAIN recaps : recaps[i].posted
=============================================================================
