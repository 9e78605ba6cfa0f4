# TLA+ project for Pulley

Pulley connects GitHub pull requests with Slack: a channel per pull request, comments
mirrored both ways, digests, CI notices and scheduled recaps. It is a set of asyncio
request handlers over PostgreSQL, run in one or more web processes. Nothing orders the
requests, every `await` lets other handlers run, most handlers mix calls to Slack and
GitHub with database transactions, and both sides deliver events more than once. That is
what these modules are about.

## The system

| Part | State | Operations | Hard because |
| --- | --- | --- | --- |
| Pull request channels (`services/channel_manager.py`, `db/queries.py`) | `pull_requests`, `slack_channels`, Slack's channels | opened, labeled, closed, reopened, edited, reviewer added or removed | one flow is up to ten awaits on Slack and the database; deliveries overlap, repeat and fail halfway; stacked pull requests share a channel |
| Slack event endpoint (`routers/slack_events.py`) | `slack_event_claims` | claim, dispatch, release | Slack retries after three seconds, while the first delivery is still in dispatch |
| Scheduled jobs (`scheduler.py`, `routers/internal.py`) | `scheduler_runs` | the in-app loop's tick, two endpoints for an external cron | instances, requests and retries race for slots; failures end a tick |
| Message sync (`services/sync_service.py`, `services/channel_target.py`) | `message_mappings` | new, edited and deleted comments and messages in both directions | echoes of its own posts; edits that arrive before the mapping; partial resync |
| Pull request digest (`services/pr_digest_service.py`) | `pr_digest_messages` | first post, update in place | check then act; renders applied out of order |
| Issue cards (`services/issue_service.py`) | `issues`, `issue_digest_messages` | every issue event, deletion | events carry no version |
| CI and deployment notices (`services/notification_service.py`) | CI bookmark, `last_ci_state` | check suites, workflow runs, deployments | two refreshes apply what they fetched in either order |
| Reviews on Slack (`sync_service.py`) | `thread_mappings`, `message_mappings` | a review, its comments, replies | the review's handler and the comments' handlers share the work; a reply may come before its thread |
| Reviewers and time slots (`channel_manager.py`, `services/timeslot_service.py`) | reviewers, `review_requested_at`, time slots | request, removal, stale reminder | a clock that must survive changes of the reviewers |
| Commands and app home (`services/command_service.py`, `services/app_home_service.py`) | settings, links | slash commands, home view | acts on a state read before several awaits |
| Organisations and tokens (`services/installation_service.py`, `routers/auth.py`, `services/github_service.py`) | `organizations`, `users`, token caches | install, OAuth, link, refresh | placeholder rows merged under unique constraints; single-use refresh tokens |
| Text conversion (`utils/markdown.py`) | none | GitHub and Slack markup, splitting long messages | boundaries |
| Configuration, migrations, health, webhook signatures | none that changes while serving | | not modelled |

GitHub's webhooks enter through `routers/github_webhooks.py`, which awaits the handler
before it answers: an exception is a 500 that GitHub shows as a failed delivery and does
not retry; an operator may redeliver any delivery. Slack's events enter through
`routers/slack_events.py`. The channel handlers end in the digest; sync, CI and commands
find their pull request by channel.

What makes each part correct, and is the aim of its module:

- Channels: one owner per channel; rows, Slack and GitHub agree once all is handled; a
  channel is archived exactly when its last open pull request closes; nothing that should
  get a channel is silently lost.
- Slack events: one dispatch at a time, no double post, nothing lost.
- Scheduled jobs: once at most per slot, and every due job done or failed visibly.
- Sync: no echo, one counterpart per comment, edits and deletions reach it.
- Reviews: each comment shown once, in its thread, whichever handler posts it; none lost
  without a word.
- Digests and cards: one message per pull request or issue and channel, that shows the row.
- CI: one bookmark that shows the checks, each flip of the verdict decided on once.
- Organisations: one row per installation and per team; users and pull requests follow.
- Tokens: the refresh token that is stored is one GitHub still takes.
- Text: what is cut into several messages renders as it did in one.

`PROJECT.json` lists the hazards one by one, at the line where each bites.

## Modules

| Module | What it is |
| --- | --- |
| `PRChannel` | The opened, labeled, closed and reopened flows, one action per await |
| `StackChannel` | What the README promises of a channel, without handlers; `PRChannel` implements it when deliveries do not overlap |
| `SlackEvents` | The Slack Events endpoint and Slack's retries |
| `Scheduler` | The scheduler loop, the endpoints and the slot claim |
| `MessageSync` | The mirror between comments on GitHub and messages on Slack |
| `ChannelTarget` | Which pull request something said in a channel is about; part of `MessageSync` |
| `TextSplit` | How a long text is cut into messages |
| `SyncTexts` | `MessageSync` with the texts it carries: the parts a comment is posted in are those `TextSplit` cuts |
| `ReviewSync` | How a review, its comments and their replies reach Slack |
| `Cards` | The cards of pull requests and issues, with the setters of the row they show |
| `CINotices` | The CI bookmark and the recap of a pull request's channel |
| `UserTokens` | The refresh of a user's GitHub token |
| `OrgLink` | The rows of `organizations`, and the requests that make, complete and merge them |
| `MCPRChannel`, `MCDeliveries`, `MCScheduler`, `MCMessageSync`, `MCReviewSync`, `MCServices` | Instances for TLC. `MCDeliveries` puts `SlackEvents` and `PRChannel` side by side, `MCServices` does the same for `Cards`, `CINotices`, `UserTokens` and `OrgLink` |
| `PRChannelProofs`, `SlackEventsProofs`, `SchedulerProofs`, `MessageSyncProofs`, `ReviewSyncProofs`, `SyncTextsProofs` | Inductive invariants and theorems |
| `NoticesProofs` | The same for `Cards` and `CINotices` |
| `AccountsProofs` | The same for `UserTokens` and `OrgLink` |

Operators whose comment begins with "Seeded fault" are not part of the models. Each one is
a plausible bug in the definition after it; `PROJECT.json` ("mutants") pairs it with the
property that finds it.

Variables marked as ghosts, and `clean`, `solo`, `calm`, `wrote`, `crossed`, `serial`,
`fresh`, `overwritten` and `unmerged`, record what the properties speak of (that two
handlers overlapped, for instance). No guard of a handler reads them.

### PRChannel

A handler `h` stands for one webhook in progress. `pc[h]` is its next await, `job[h]` its
payload, `chan[h]` and `ts[h]` the two locals that matter (`channel_id`,
`parent_msg["ts"]`). The rows are `state`, `channelOf`, `thread` (`pull_requests`) and
`owner`, `isArchived` (`slack_channels`); Slack is `slack`, `parents`, `clock`; GitHub is
`github` and `inbox`. Everything a handler does between two awaits, and everything inside
one transaction, is one action.

| Actions | Code |
| --- | --- |
| `CheckTracked`, `FindParent`, `CreateChannel`, `SetUpChannel`, `InsertOwner` | `_open_channel`, `create_pr_and_channel` |
| `JoinUnarchive`, `PostParent`, `JoinInsert`, `JoinInsertFails`, `JoinInsertUnanswered`, `UndoParent` | `_join_stack` |
| `ClosePR`, `ClosePost`, `CountOpen`, `ArchiveChannel`, `MarkArchived` | `handle_pr_closed`, `close_pr`, `count_open_prs_in_channel`, `set_channel_archived` |
| `Lookup`, `ReopenPR`, `ReopenUnarchive`, `MarkLive`, `ReopenPost` | `handle_pr_reopened`, `reopen_pr` |
| `Receive`, `Die` | `github_webhook`: a delivery, a redelivery; an exception or the end of the process |

Slack's own answers matter where the code depends on them: `name_taken`, `is_archived`
for a post, `already_archived` and `not_archived`. The topic, the bookmark, the first
message and the invitations are one step, since they differ in nothing but the text and
all fail in an archived channel. The payload is reduced to `wanted`: whether anything in it
keeps the open flow from running. Reviewers and the digest, which follow the insert and
the archiving, are in `Cards`.

An insert may be refused by a constraint, fail without a trace, or commit and raise all the
same, because the commit's answer is lost or the row cannot be read back after it
(`create_pr_and_channel` does both). `_join_stack` cannot tell the last from the others and
removes its parent message: `unanswered` keeps the pull requests to which this has happened.
`StackedThreadsLive` makes an exception of them, so that it says what the clean-up does to
the rows of others; `ParentStands` is the promise without the exception, and does not hold.

### SlackEvents

`claims` is the table; `posted` and `done` count what the dispatch did;
`delivery` and `attempts` are what Slack knows. A dispatch is one write that others see and one record of
it, in this order, as in `handle_slack_message`. A write may have happened although its
answer was lost. The three seconds are not counted: Slack may stop waiting at any time.
`crashes` counts every end of a request that does not release its claim: the process ends,
the request is cancelled (`CancelledError` is not an `Exception`), or the database fails
under the claim or the release.

### Scheduler

A runner is the loop of one instance or one request. `todo` is what is left of its `for`
loop, `claims` the table `scheduler_runs`, `posts` what each slot has posted. `forFiring`
counts the same posts by the firing of the external cron, which the code does not know of.
The loop reads the clock after it sleeps, so `Wake` may see the same minute twice or skip
minutes. One post stands for all the messages of a job.

### MessageSync, ChannelTarget, TextSplit, SyncTexts

One channel: pull request 0 owns it, the others are stacked. `comments` is GitHub,
`messages` is Slack (the index is the ts), `rows` is `message_mappings` in the order of
insertion, `open` the states of the pull requests. People write, edit and delete on either
side; each act puts an event in `inbox`, which any idle handler may take at any time. What
the app wrote makes events too: `Echoes` is the set of those it may be sent at any moment,
any number of times. An event is `plain` when nothing in it gives it away as the app's: no
sync tag in the comment, no bot id on the message.

| Actions | Code |
| --- | --- |
| `OnComment`, `Post`, `FallBack`, `MapComment` | `handle_issue_comment`, posting as the author or as the bot, `create_message_mapping` |
| `OnCommentChanged`, `Resync`, `SetExtra`, `Unpost`, `DropRow` | edited and deleted comments, `slack_ts_extra` |
| `OnMessage`, `Comment`, `Record`, `Notify` | `handle_slack_message`, the choice of the pull request, the notice that there is none |
| `OnMessageChanged`, `Rewrite`, `Uncomment`, `DropRow` | edited and deleted messages |
| `Die` | an exception at any await, the end of the process |

An edit that reaches a handler before the mapping is written is dropped by the code, and so
in the model: the properties are about items none of whose events overlapped, came twice or
failed. `tangled` collects the others. It is not a way out of the hard cases: events of
different items interleave freely and a settled item is one among handlers at work on
others, with rows, threads and messages that other handlers change.

`thread` of a message is the `thread_ts` it was posted with. Slack's threads do not nest, and
where Slack shows a message posted under a reply is left open. A stacked pull request's
comment is posted part by part in the pull request's thread, but what an edit adds to it goes
under its first message (`Resync`). So `CommentsShown` says of the owner's comments where
every part is, and of a stacked pull request's where the first one is, no more.
`OnMessage` does the reads that find the target of a message in one step.

`TextSplit` has lines of a given length in the place of characters: what it keeps of a line is
its length, whether it begins with a fence, and which of its later pieces do when it has to be
wrapped. The loop of `split_for_slack` is the function `Cut`; its length counter is kept as the
code keeps it, apart from the true length, so that a miscount shows.

`SyncTexts` composes the two. A comment is rendered as a line that says where it is from and
the body, quoted (`Rendered`), and the parts of a text are `Split(Rendered(t))`. `PartsRender`
looks at the messages on Slack: each is within the limit and has its fences in pairs, or is the
whole of a text whose author left one open, which the code posts as it is. `ReadsAsWritten`
says that the messages of a settled comment, read one after another, hold its latest text; it
follows from `CommentsShown` and from how texts are cut, and is proved from them.

### ReviewSync

Event 0 is the review's, event c that of comment c. `Root` gives each comment the first of
its GitHub thread. `threads` is `thread_mappings`, `rows` is `message_mappings`. The
handler of the review (`ReceiveReview`, `Summary`, `MapSummary`, `List`, `SayMissing`,
`NextComment`: `handle_pr_review`, `_post_review_comments_in_thread`) and those of the
comments (`ReceiveComment`, `Read`, `Find`, `Wait`, `InThread`: `handle_review_comment`,
`_collapsed_into_review`, the wait for a thread) share `StartPost`, `LookThread`,
`AddThread` and `MapMessage`. `SummaryFails`, `ListFails`, `ReadFails` and `ThreadGone` are
the failures the code goes on from, `Die` all others. The waits of a reply are one step: a
look-up after the last pause, before which the other handlers may have gone any distance.
`AnswersTo` is `get_thread_mapping_by_slack_ts` with its refusal to choose among several
threads.

### Cards

One subject, a pull request or an issue, and every webhook that touches its row. `Flow`
lists the awaits of each handler in the order of the code, and `job[h].todo` what is left
of it. A setter of a pull request reads the row, awaits, and writes the columns that differ
from what it read (`Commit`: SQLAlchemy sends changed columns only); `upsert_issue` writes
the whole row. Then the card: `Find` (`get_pr_digest_ts`), `Edit`, `HoldBack`, `Post`,
`Record`. `place` is the channel the organisation chose, which `Repoint` changes between
any two steps; a handler keeps the one it read. The step `org` stands for
two reads, the tracked check and the organisation.

### CINotices, UserTokens, OrgLink

`CINotices`: `BeginRefresh` to `PostRecap` are the awaits of `_refresh_ci_bookmark`. The
check runs of a commit are the set of their outcomes. `Decide` is the one conditional
update of `transition_pr_last_ci_state`, and `NoDoubleRecap` is about the order of these
decisions: the posts that follow them may fail or overtake each other.

`UserTokens`: a pair of tokens is a number. `Read`, `Use`, `Refresh`, `Refused` and
`SaveTokens` are `get_valid_user_token`; `Connect` is `github_oauth_callback`. GitHub takes
a refresh token once.

`OrgLink`: `Statements` is what each query sends, statement by statement, because the
database checks a unique constraint at each. `Write` commits when all pass and `WriteFails`
rolls back when one does not. A request selects in one step and writes in another, between
which others commit.

`MCServices` runs these, which share no state while they run, in one state space: `part`
says which one a behaviour is about, so the state spaces add up instead of multiplying.
`MCDeliveries` does so for `SlackEvents` and `PRChannel`. The assumption of `MCServices`,
`SplitChecked`, has TLC cut every text of up to three lines of the lengths that
matter and compares with `KeepsText` and `Renders`.

## Runs

| Run | Shows | Bounds |
| --- | --- | --- |
| `pr_channel_races` | `OwnerConsistent`, `StackedThreadsLive`, `NoOrphanedParent`, `OpenedIsTracked` under races, a redelivery and a failure | 3 pull requests (a stack of two, and one with a colliding name), 2 channels, 2 handlers, 3 webhooks, 1 redelivery, 1 failure |
| `deliveries` | Slack's events: `OneDispatch`, `PostedOnce`, `ClaimsBacked`, `NothingLost`; GitHub's in order: `KeepsPromise` (`PRChannel` implements `StackChannel`), `Settled` (all sides agree at rest) | Slack: 2 events, 2 handlers, 3 attempts, 2 exceptions per event, 1 crash; GitHub: the same pull requests, 1 handler, 6 webhooks, channel label on |
| `pr_channel_archive_race` | violation: `StackStaysOpen` | 2 handlers, 3 webhooks, no failure |
| `pr_channel_unanswered` | violation: `ParentStands` | 1 handler, 3 webhooks in order, 1 failure |
| `slack_events_lost` | violation: `FailedIsRescued` | 1 event, 2 handlers, no crash |
| `scheduler` | `AtMostOnce`, `Served` | 2 organisations, 1 loop, 1 request at a time, 2 requests, 2 minutes, 1 failure |
| `scheduler_retry` | violation: `RetryHarmless` | 2 organisations, no loop, 2 requests of one firing, 1 failure |
| `message_sync` | `NoEcho`; `CommentsShown`, `RowsName`, `MessagesShown`: what is handled in order is shown on the other side as it stands; `RepliesRouted`; `PartsRender` | 2 stacked pull requests, 2 handlers, 2 items, 3 acts, 1 upset; one text is a block never closed, in one part, and one a block cut in two |
| `review_sync` | `ShownOnce`, `NoneLost`, `OneThread`, `AnswersRight`, `CommentsArrive` | 3 comments (one a reply), 2 handlers, 1 upset, 4 settings |
| `review_read_fails` | violation: `OnceEitherWay` | the same |
| `services` | `OneCard`, `Healed`, `RowTracks`, `ClockRuns`; `NoDoubleRecap`, `OneBookmark`, `ChannelShows`; `TokenKept`; `PRsStayHome`; `SplitChecked` | cards: 2 workers, 2 channels, 1 reviewer, 3 events, 1 mishap, 5 inputs; CI: 2 refreshes, 1 push, 2 changes, 1 fault; tokens: 3 callers, 4 grants, 1 death; organisations: 2, with 2 teams and 4 requests |
| `org_link_merges` | violation: `LinkMerges` | the same |

The largest, `services`, has three million distinct states, `review_sync` and
`message_sync` about one million each.

Why the bounds are enough: every race in these parts is between two handlers over one
row, channel or claim, so two handlers meet in every pair of steps. Three webhooks give a
pair in a race and one before or between; one redelivery and one failure give every repeat
and every crash point.

- Channels: the third pull request brings the collision of names, the stack brings the
  shared channel.
- In order, six webhooks open a channel, join it, close both pull requests, and reopen and close
  one again; the theorems have the safety part for any number.
- Slack endpoint: a request that is done takes the next delivery, so two are enough.
- Scheduler: a loop and a request, which is what the scheduler races with, run the same code
  as two loops would; the second request and minute are there for the retry.
- Sync: two items are a message and a reply to it or to a comment, or two things that race;
  three acts are a new item, its edit and its deletion, or an edit that crosses a reply. The
  second stacked pull request makes the choice of one ambiguous. An edit from the text of
  one part to that of two, or the other way, makes a resync grow or shrink.
- Reviews: a thread with a reply and a thread without; the settings are those in which the
  two handlers share the work, with and without a thread of the pull request's own, and
  those in which they do not.
- Cards: five inputs are a webhook, its redelivery and a repoint away and back with one more
  webhook after; two channels are one to leave and one to come to.
- Tokens: with three callers a third can hold the pair that two others fight about.
- Organisations: four requests are two that make a row on either side, one that refers to
  it, and a link.

Safety holds beyond the bounds where a theorem below says so; liveness and the fair
part of the refinement are checked within them only.

Deadlock is not checked: GitHub need not send anything, Slack may have given up, and all
handlers may rest.

### What the violations show

- `pr_channel_archive_race`. `handle_pr_closed` counts the open pull requests and archives
  in a later await. A reopen handled in between unarchives a live channel, in vain, and is
  done; then the close archives it. Nothing failed, and an open pull request is in an
  archived channel, against the comment at the count.
- `pr_channel_unanswered`. The row of a stacked pull request is committed, then the read after
  the commit raises (or the commit's answer is lost). `_join_stack` removes the parent message
  as an orphan although the row names it, and a redelivery stops at the tracked check: what is
  said of the pull request from then on has no message to be under. The README promises
  it one parent message with all its activity in that thread.
- `slack_events_lost`. A retry that overlaps the dispatch is answered 200. If the dispatch
  then raises, the claim is released for a retry that Slack no longer sends: the event is
  lost, which the comment in `slack_event` says will not happen.
- `scheduler_retry`. The endpoints claim the minute the request comes in. A cron request
  that is retried a minute later, because another organisation's job failed say, posts
  again for those already served; README and `internal.py` say retries are harmless.
- `review_read_fails`. The handler of a comment that cannot read the review posts the
  comment itself without looking whether it has a message. If the review's handler was
  first, the comment is there twice; the docstring of `_collapsed_into_review` says it
  appears once either way.
- `org_link_merges`. The merge of a GitHub-only and a Slack-only row is one flush. The
  UPDATE that gives the GitHub row the workspace id comes before the DELETE of the Slack
  row, which still has it: the unique constraint fails and the link with it. The README says
  the rows are merged automatically.

### What else the models brought out

An edit that makes the comment of a stacked pull request longer has its added parts posted
with the ts of the comment's first message as their `thread_ts`
(`_resync_attributed_to_github_user`, `src/src/services/sync_service.py:1110-1113`). That
message is a reply already, and the code says twice that Slack's threads do not nest (lines
187-188 and 458); the README has all activity of a stacked pull request go in its thread. The
first posting of a long comment keeps to that, the edit does not, and `CommentsShown` makes
no claim of where the added parts are.

Nothing in the repository promises otherwise of the rest:

- A card deleted by hand is never replaced: the edit fails, is logged, and the recorded ts
  stays (`Healed` makes the exception).
- Two refreshes that both find no CI bookmark add two, and nothing edits the first again
  (`OneBookmark` speaks of refreshes that do not overlap); cards likewise (`OneCard`).
- A link request that finds only the GitHub row reports success and does not set the team.
- A second Slack workspace that installs first collides with the first one's placeholder on
  `github_org_id` 0; the request fails.
- A comment's edit that overtakes its mapping, or comes while the comment is still being
  posted, is dropped for good.

### Assumptions about the outside

Messages the app posts, as itself or with a user's token, carry a `bot_id`. GitHub takes a
refresh token once and its answer to a used one holds no token. A SQLAlchemy flush sends a
mapper's UPDATEs before its DELETEs, no constraint is deferrable, and the database runs
READ COMMITTED. Slack refuses to edit or delete a message that is gone, and GitHub a
comment. Definitions that rest on these are marked external in `PROJECT.json` or say so.

### Fairness

A coroutine that has started goes on: the event loop runs it, and its calls to Slack,
GitHub and the database return or raise. So the steps of a handler are weakly fair.
Nothing makes GitHub, an operator, the cron or the clock act, and no failure is fair.
In `SlackEvents` a request's steps include the receipt of what is due: Slack does deliver
until it gives up. In `Scheduler` neither `Wake` nor `Receive` is fair; `Served` speaks
only of ticks and requests that have begun. In `ReviewSync` the events are sent from the
start and a free handler's receipt of one is among its steps. `StackChannel` makes
`Archive` and `Unarchive` fair, which is the "always then" of the promise. The other modules
state no fairness: what they say of the end of a handler is an invariant of the states in
which it has ended.

## Theorems

All are for any values of the constants under the named assumptions of the modules
(`PRChannelAssumption`, `SlackEventsAssumption`, `SchedulerAssumption`,
`MessageSyncAssumption`, `LimitAssumption`, `SyncTextsAssumption`, `ReviewSyncAssumption`,
`CardsAssumption`, `CINoticesAssumption`, `OrgLinkAssumption`; `UserTokens` needs none), which
say that `None` or `Null` is no value of the other sets and give the constants their types;
that a message has room for a wrapped line with a fence on either side; and that the parts of
a text are what the code cuts it into. The bounds may be any numbers. Two theorems about
`PRChannel` have one assumption more, `OneByOne`, and say so.

- `PRChannelProofs`. `TypeOK` is not inductive: a handler that posts must have a channel,
  which comes from the row of another pull request (`Located`). `OwnerConsistent` and
  `StackedThreadsLive` lean on each other: a pull request that joins a stack takes the
  channel of a parent that may own it or be stacked itself (`StackOwned`). That a clean-up
  removes no row's message rests on the timestamps: one that a handler holds is in no row
  and in no other handler, but for a row whose insert was reported as failed after its commit
  (`HeldApart`), and its message stands until the row is written
  (`HeldStands`). Most steps touch none of this; `QuietStep` says so once. Theorems:
  `TypeCorrect`, `OneOwner`, `ThreadsLive`, and `NoOrphans`, which needs the invariant and
  nothing more. What the README promises holds when deliveries come in order, one at a time
  and without failures (`OneByOne`, as in the run `deliveries`; that it does not hold in
  general is what the runs that expect a violation show). Then what a
  delivery tells of its pull request is true until the next (`Queue`), a row is up to date
  with all that was handled (`CaughtUp`) or its handler knows what is missing (`Working`),
  and the channel and its flag follow (`Open`, `Marked`, `Nowhere`). From this come
  `InOrderSettles` and, step by step, that `PRChannel` implements `StackChannel` as far as
  safety goes (`KeepsPromiseSteps`); that the channel is archived in the end stays with TLC.
- `SlackEventsProofs`. `OneDispatch` needs `DispatchClaimed`: the claim is there as long as
  its dispatch lasts, so nobody else can take it. `PostedOnce` needs the count at every
  step (`PostsPaid`): an unclaimed event has been written at most as often as its
  dispatches raised. Theorems: `TypeCorrect`, `Exclusive`, `NoDoublePost`, `NoIdleClaim`.
- `SchedulerProofs`. A slot without a claim has not posted (`Unposted`), and a runner that
  has claimed a slot is alone with it and it has not posted (`RunAlone`). Theorems:
  `TypeCorrect`, `PostsAtMostOnce`.
- `MessageSyncProofs`. That no echo is taken up is no matter of one guard: an event is
  handled long after it was made, a row names its comment for later events, and a handler
  works on what it has read. So the invariant follows a person's items all along: new events
  that are not marked are about them (`Reported`), rows that say the comment came first name
  them (`Origins`), a handler that is to copy something copies one of them (`Sources`), and
  everything the app made was made of one (`Copies`). Items only ever gain followers, so
  each step has to be looked at only for what it adds (`WorldKept`, `Progress`). Theorem:
  `NothingComesBack`. For the other theorems the invariant says what every record holds and
  what a handler at each of its awaits has read and written (`Sound`); that an item that is
  not tangled has one event to come or one handler at work, never two (`OneByOne`); and
  then how far that handler is: a message before its copy, its row or its note is there, and
  after (`MessagesOK`). Most steps are not about the item in question, and what they leave
  alone is said once (`Aside`): a handler for another item can write
  nothing of this one. The same is done for a comment and the messages that show it
  (`CommentsOK`): while it is posted, the messages on Slack are those the handler has sent;
  while an edit goes through the old messages, they are the ones already gone through and
  the rest of the row's; all of them ascend, so the row's order is the order on Slack, which
  is what a count of the earlier ones gives back (`InOrder`). A reply (`RepliesOK`) is
  about the message it answers only if that was settled when it was written, so nothing new
  is to come for it, and if whoever handles the reply looks the pull request up while it
  still is (`RoutedTo`, which rests on both of the above: the one live row of the message
  names its pull request). Theorems: `MessagesTyped`, `SlackReachesGitHub`,
  `GitHubReachesSlack`, `RowsRight`, `RepliesArrive`.
- `SyncTextsProofs`. What the operators on texts return is defined by recursive functions over
  the lines. A set of numbers that is not empty has a least element (`LeastOf`), so what holds
  of no line and goes from each line to the next holds of all (`UpTo`), and a recursive
  function is the one that unfolds as its definition says (`Built`, `BuiltOnce`). From these
  come the lengths, fences and contents of a text with one line more (`LengthAppend`,
  `BalancedAppend`, `ContentAppend`). The loop keeps `Faithful`: the messages cut off render;
  what they and the one being filled say is what the lines taken say; the length counted is the
  true one, and with its fence closed the message still fits; and a fence is open in it just
  when one is open in the text, which is why reopening it changes nothing of what is code.
  Theorems about every text: `SplitRenders`, `SplitKeepsText`, `WrapKeepsLength` (wrapping adds
  line ends and no more), `QuoteKeepsCode`. That messages on Slack are parts of texts
  (`AppsShow`) is an invariant with that of `MessageSyncProofs`. Theorems about the mirror:
  `MessagesRender`, `CommentsReadAsWritten`.
- `NoticesProofs`, for `Cards`. The clock of the row is right only if the readings that handlers hold are:
  a setter computes it from what it read and sends it only if it differs. So the invariant
  is about the row and all readings at once (`AllClocked`), and a commit of reviewers that
  nobody changed meanwhile keeps the row's clock or starts one that stood still
  (`WriteStep`). Theorem: `ClockNeverRestarts`. The invariant of the other theorems
  (`CardInv`) has the types (`Shapes`), what a handler at each of its awaits holds of the row
  and of the message it found (`JobsOK`), that a card is recorded only under its own channel
  and for a row that is there (`Kept`), and then one part for each property, under its
  condition: a handler that runs alone is right about all that it has read (`AloneOK`); as
  long as nothing overlapped or failed, every live card is recorded or about to be
  (`CleanOK`); and where a handler ended that ran alone, the channel is right (`CalmOK`).
  Theorems: `CardsTyped`, `ColumnsTrack`, `NeverTwoCards`, `RunAloneHeals`.
- `NoticesProofs`, for `CINotices`. The row holds the verdict of the last recap decided (`LastDecided`).
  As long as refreshes ran one by one, the live bookmark is the one in the row or the one
  about to be stored there (`Serial`), and a stacked pull request never comes near one
  (`StackedBare`). For `ChannelShows`, a refresh that is alone with its commit is on its way
  to put the channel right, stage by stage (`Alone`), whatever state it found. Theorems:
  `TypeCorrect`, `AnnouncedOnce`, `OneInPlace`, `PutRight`.
- `AccountsProofs`. `UserTokens`: a pair on its way to the database is known to nobody else:
  no other caller has it, it is not in the row and it is not spent (`Unseen`). So whatever
  caller stores its pair, the row's refresh token is then a fresh one. Theorem:
  `NeverLockedOut`. `OrgLink`: a request writes long after its select, so what it selected
  must stay true (`Sound`): rows are never deleted, for the merge breaks a unique constraint
  and never commits (`NoMerge`), they keep their workspace, and they lose their organisation
  only to a link, which the ghost `overwritten` remembers (`Home`). Theorems: `EachAtHome`,
  `ReferencesHold`.
- `ReviewSyncProofs`. Two kinds of handler may post a comment, and each trusts the other to
  do it or not. The invariant says who may, at every await: an event that came once is in
  one place (`Events`); a handler of a comment that only it can post finds it not shown
  (`Untouched`); while the review's handler is at work, the handler of a comment that it is
  to post has not gone beyond reading the review, or the ghosts tell (`Apart`). So one
  handler at a time holds a comment, holds it before it is shown and maps what it posts
  (`Singles`). Nobody is forgotten because every event is to come, at work on, failed, or
  has led to a message, and because the review's handler still has in its list what is not
  shown (`Accounted`). A GitHub thread has one row, or one handler that is starting it, and
  every message of the thread is in the one or the other's (`Agreements`). A step is held to
  what it adds to each of these (`AccountStep`, `SingleStep`, `AgreedStep`, ...), and each
  action is shown to keep to that. That the listing has every comment that starts a thread
  is a count: as many as there are, none twice (`ListsAll`). Theorems: `ReviewsTyped`,
  `ShowsOnce`, `LosesNone`, `KeepsThreads`, `RoutesAnswers`.

Only model-checked: the liveness properties (`OpenedIsTracked`, `NothingLost`, `Served`,
`CommentsArrive`) and the fair part of `KeepsPromise`, which are beyond the prover. Every
invariant that a passing run checks is a theorem. `SplitChecked` stays although theorems now
say it of all texts: it fails at once when the cut is changed for the worse.

## Not modelled

- The change of a pull request's base branch, `last_review_state`, and the update of the
  card on close and reopen: each writes one more column, or renders the card, as the setters
  in `Cards` do.
- Deployment and conflict notices, the CI channel of default-branch runs, the notes that a
  review was dismissed or its thread resolved: one post each, no state kept but the columns
  above.
- The App Home's views and forms, and the commands that are one call to GitHub: what they
  act on is chosen by `ChannelTarget`. Files and mentions in messages.
- Time slots: arithmetic on local times over the time zone database, with no steps; the
  repository's tests enumerate the cases a model would.
- The OAuth `state` parameter, the choice among several installations of one user, webhook
  signatures, and the cache of installation tokens, which is asked for again when it is gone.
- Markup conversion other than splitting and quoting: it rewrites strings character by
  character.
- Configuration, start-up and migrations, which end before anything is served.
