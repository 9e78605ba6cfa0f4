--------------------------- MODULE PRChannelProofs ---------------------------
(***************************************************************************)
(* What holds of PRChannel for any pull requests, stacks, channel names    *)
(* and handlers, however many deliveries GitHub sends, an operator repeats *)
(* and failures break off: the constants that bound them may be any        *)
(* numbers.  And what holds when deliveries are handled one by one, in     *)
(* order and without failures (OneByOne): then PRChannel implements        *)
(* StackChannel, step by step.                                             *)
(***************************************************************************)
EXTENDS PRChannel, TLAPS

(* The inductive invariant *)


\* The steps of a handler that knows its channel.
ChannelSteps == Steps \ {"check", "findParent", "close", "lookup", "reopen"}

\* A handler past its first reads has a channel, and a row that it has read as
\* tracked stays so.
Located ==
  /\ \A p \in PRs : Tracked(p) => channelOf[p] \in Channels
  /\ \A h \in Handlers : pc[h] \in ChannelSteps => chan[h] \in Channels
  /\ \A h \in Handlers : pc[h] = "reopen" => Tracked(PR(h))

\* Whoever joins a stack joins the channel of some row's owner.
StackOwned ==
  \A h \in Handlers :
    pc[h] \in {"joinUnarchive", "joinPost", "joinInsert"} => owner[chan[h]] # None

Holding(h) == pc[h] \in {"joinInsert", "joinUndo"}

\* The timestamp of a parent message that is not yet, or no longer, a row's
\* belongs to one handler alone.  A handler whose insert committed unanswered
\* holds the row's own message.
HeldApart ==
  /\ \A p \in PRs : thread[p] <= clock
  /\ \A h \in Handlers : Holding(h) => ts[h] \in 1..clock
  /\ \A h \in Handlers, p \in PRs :
       Holding(h) /\ p \notin unanswered => thread[p] # ts[h]
  /\ \A g, h \in Handlers : Holding(g) /\ Holding(h) /\ ts[g] = ts[h] => g = h

\* The parent message is there until the row is written.
HeldStands ==
  \A h \in Handlers : pc[h] = "joinInsert" => HeldParent(h) \in parents

IInv ==
  /\ TypeOK /\ Located
  /\ OwnerConsistent /\ StackedThreadsLive
  /\ StackOwned /\ HeldApart /\ HeldStands

-----------------------------------------------------------------------------
(* Lemmas *)

\* A delivery is about a pull request.
LEMMA DeliveryPR == \A d \in Deliveries : d.pr \in PRs
BY DEF Deliveries

\* What GitHub sends is a delivery.
LEMMA SendType ==
  ASSUME TypeOK, NEW p \in PRs, NEW e \in Events, NEW wanted \in BOOLEAN, Send(p, e, wanted)
  PROVE  sent' \in Nat /\ inbox' \subseteq Deliveries /\ redeliveries' \in Nat
  <1>1. sent + 1 \in 1..MaxDeliveries
    BY PRChannelAssumption DEF TypeOK, Send
  <1>2. [n |-> sent + 1, pr |-> p, event |-> e, wanted |-> wanted] \in Deliveries
    BY <1>1 DEF Deliveries
  <1>. QED BY <1>1, <1>2 DEF TypeOK, Send

\* The invariant says nothing of GitHub beyond its type.
LEMMA GitHubStep ==
  ASSUME IInv, GitHub
  PROVE  IInv'
  <1>1. PICK p \in PRs :
          GitHubOpens(p) \/ GitHubLabels(p) \/ GitHubCloses(p) \/ GitHubReopens(p)
    BY DEF GitHub
  <1>2. \E e \in Events, wanted \in BOOLEAN : Send(p, e, wanted)
    <2>1. CASE GitHubOpens(p)   BY <2>1 DEF GitHubOpens, Events
    <2>2. CASE GitHubLabels(p)  BY <2>2 DEF GitHubLabels, Events
    <2>3. CASE GitHubCloses(p)  BY <2>3 DEF GitHubCloses, Events
    <2>4. CASE GitHubReopens(p) BY <2>4 DEF GitHubReopens, Events
    <2>. QED BY <1>1, <2>1, <2>2, <2>3, <2>4
  <1>3. sent' \in Nat /\ inbox' \subseteq Deliveries /\ redeliveries' \in Nat
    BY <1>2, SendType DEF IInv
  <1>4. github' \in [PRs -> {"unborn", "open", "closed"}]
    BY <1>1 DEF IInv, TypeOK, GitHubOpens, GitHubLabels, GitHubCloses, GitHubReopens
  <1>5. UNCHANGED <<dbVars, slackVars, handlerVars, failures>>
    BY DEF GitHub
  <1>6. TypeOK'
    BY <1>3, <1>4, <1>5 DEF IInv, TypeOK, dbVars, rowVars, slackVars, handlerVars
  <1>7. (Located /\ StackOwned /\ HeldApart /\ HeldStands)'
    BY <1>5 DEF IInv, Located, StackOwned, HeldApart, HeldStands, Holding, HeldParent,
                Tracked, PR, dbVars, rowVars, slackVars, handlerVars
  <1>8. (OwnerConsistent /\ StackedThreadsLive)'
    BY <1>5 DEF IInv, OwnerConsistent, StackedThreadsLive, Tracked, Stacked, ParentOf,
                dbVars, rowVars, slackVars, handlerVars
  <1>. QED BY <1>6, <1>7, <1>8 DEF IInv

\* A step of handler h that writes no row but an open or closed state, posts
\* and removes no parent message, and leaves h outside the stack flow.
Quiet(h) ==
  /\ UNCHANGED <<channelOf, thread, owner, parents, clock, unanswered>>
  /\ \A p \in PRs : Tracked(p) <=> state'[p] # "untracked"
  /\ pc'[h] \notin StackSteps
  /\ \A g \in Handlers \ {h} :
       pc'[g] = pc[g] /\ job'[g] = job[g] /\ chan'[g] = chan[g] /\ ts'[g] = ts[g]

LEMMA QuietStep ==
  ASSUME IInv, NEW h \in Handlers, Quiet(h), TypeOK', Located'
  PROVE  IInv'
  <1>. USE DEF IInv, Quiet, StackSteps
  <1>1. OwnerConsistent' /\ StackedThreadsLive'
    BY DEF OwnerConsistent, StackedThreadsLive, Stacked, ParentOf, Tracked
  <1>2. StackOwned' /\ HeldStands'
    BY DEF StackOwned, HeldStands, HeldParent, PR
  <1>3. HeldApart'
    BY DEF HeldApart, Holding
  <1>. QED BY <1>1, <1>2, <1>3

\* A delivery sets a handler on a first step that needs no channel yet.
LEMMA ReceiveStep ==
  ASSUME IInv, NEW h \in Handlers, NEW d \in inbox, Receive(h, d)
  PROVE  IInv'
  <1>. USE DEF IInv, Receive, dbVars, rowVars, slackVars
  <1>1. d \in Deliveries /\ FirstStep(d) \in {"close", "lookup", "check", "idle"}
    BY DEF TypeOK, FirstStep, Deliveries, Events
  <1>2. TypeOK'
    BY <1>1 DEF TypeOK, Steps, OpenSteps, CloseSteps, ReopenSteps, Ignored
  <1>3. pc'[h] \in {"close", "lookup", "check", "idle"}
    BY <1>1 DEF TypeOK, Ignored
  <1>4. Quiet(h)
    BY <1>3 DEF Quiet, TypeOK, StackSteps, Tracked
  <1>5. Located'
    BY <1>3, <1>4 DEF Located, ChannelSteps, Quiet, Tracked, PR, Steps, OpenSteps,
                      StackSteps, CloseSteps, ReopenSteps
  <1>. QED BY <1>2, <1>4, <1>5, QuietStep

\* The open flow.
LEMMA OpenFlowStep ==
  ASSUME IInv, NEW h \in Handlers, OpenFlow(h)
  PROVE  IInv'
  <1>. USE PRChannelAssumption, DeliveryPR
  <1>. USE DEF IInv, Goto, GotoWith, Finish, Return, Raise, PR, Tracked, ghVars, dbVars,
               rowVars, slackVars, Steps, OpenSteps, StackSteps, CloseSteps, ReopenSteps
  <1>1. CASE CheckTracked(h)
    <2>. USE <1>1 DEF CheckTracked
    <2>1. TypeOK'
      BY DEF TypeOK
    <2>2. Located'
      BY DEF TypeOK, Located, ChannelSteps
    <2>3. Quiet(h)
      BY DEF TypeOK, Quiet
    <2>. QED BY <2>1, <2>2, <2>3, QuietStep
  <1>2. CASE FindParent(h)
    <2>. USE <1>2 DEF FindParent, StackParentRows
    <2>1. TypeOK'
      BY DEF TypeOK, Located, ChannelSteps, ParentMessages
    <2>2. Located'
      BY DEF TypeOK, Located, ChannelSteps
    <2>3. OwnerConsistent'
      BY DEF TypeOK, Located, ChannelSteps, OwnerConsistent, HeldApart, Holding
    <2>4. StackedThreadsLive'
      BY DEF TypeOK, Located, ChannelSteps, OwnerConsistent, StackedThreadsLive, Stacked, ParentOf,
             StackOwned, HeldApart, HeldStands, HeldParent, Holding
    <2>5. StackOwned'
      <3>1. \A q \in PRs : Tracked(q) => owner[channelOf[q]] # None
        BY DEF OwnerConsistent, StackedThreadsLive, Stacked
      <3>2. StackParentRows(PR(h)) \subseteq PRs
        BY DEF TypeOK
      <3>. QED BY <3>1, <3>2 DEF TypeOK, StackOwned
    <2>6. HeldApart'
      BY DEF TypeOK, HeldApart, Holding
    <2>7. HeldStands'
      BY DEF TypeOK, Located, ChannelSteps, HeldApart, HeldStands, HeldParent, Holding
    <2>. QED BY <2>1, <2>2, <2>3, <2>4, <2>5, <2>6, <2>7
  <1>3. CASE CreateChannel(h)
    <2>. USE <1>3 DEF CreateChannel
    <2>1. TypeOK'
      BY DEF TypeOK
    <2>2. Located'
      BY DEF TypeOK, Located, ChannelSteps
    <2>3. Quiet(h)
      BY DEF TypeOK, Quiet
    <2>. QED BY <2>1, <2>2, <2>3, QuietStep
  <1>4. CASE SetUpChannel(h)
    <2>. USE <1>4 DEF SetUpChannel
    <2>1. TypeOK'
      BY DEF TypeOK
    <2>2. Located'
      BY DEF TypeOK, Located, ChannelSteps
    <2>3. Quiet(h)
      BY DEF TypeOK, Quiet
    <2>. QED BY <2>1, <2>2, <2>3, QuietStep
  <1>5. CASE InsertOwner(h)
    <2>. USE <1>5 DEF InsertOwner, CanInsertOwner, InsertRow
    <2>1. TypeOK'
      <3>1. CASE CanInsertOwner(PR(h), chan[h])
        <4>1. PR(h) \in PRs /\ chan[h] \in Channels
          BY DEF TypeOK, Located, ChannelSteps
        <4>2. /\ state' \in [PRs -> {"untracked", "open", "closed"}]
              /\ channelOf' \in [PRs -> Channels \cup {None}]
              /\ thread' \in [PRs -> Nat]
          BY <3>1, <4>1 DEF TypeOK
        <4>3. /\ owner' \in [Channels -> PRs \cup {None}]
              /\ isArchived' \in [Channels -> BOOLEAN]
          BY <3>1, <4>1 DEF TypeOK
        <4>. QED BY <3>1, <4>2, <4>3 DEF TypeOK
      <3>2. CASE ~(CanInsertOwner(PR(h), chan[h]))
        BY <3>2 DEF TypeOK
      <3>. QED BY <3>1, <3>2
    <2>2. Located'
      BY DEF TypeOK, Located, ChannelSteps
    <2>3. OwnerConsistent'
      BY DEF TypeOK, Located, ChannelSteps, OwnerConsistent, HeldApart, Holding
    <2>4. StackedThreadsLive'
      BY DEF TypeOK, Located, ChannelSteps, OwnerConsistent, StackedThreadsLive, Stacked, ParentOf,
             StackOwned, HeldApart, HeldStands, HeldParent, Holding
    <2>5. StackOwned'
      BY DEF TypeOK, Located, ChannelSteps, OwnerConsistent, StackedThreadsLive, Stacked,
             StackOwned
    <2>6. HeldApart'
      <3>1. \A p \in PRs : thread'[p] \in {thread[p], 0}
        BY DEF TypeOK
      <3>2. \A g \in Handlers : Holding(g)' => Holding(g) /\ ts'[g] = ts[g]
        BY DEF TypeOK, Holding
      <3>. QED BY <3>1, <3>2 DEF TypeOK, HeldApart
    <2>7. HeldStands'
      BY DEF TypeOK, Located, ChannelSteps, HeldApart, HeldStands, HeldParent, Holding
    <2>. QED BY <2>1, <2>2, <2>3, <2>4, <2>5, <2>6, <2>7
  <1>. QED BY <1>1, <1>2, <1>3, <1>4, <1>5 DEF OpenFlow

\* The stack flow, where parent messages come and go.
LEMMA StackFlowStep ==
  ASSUME IInv, NEW h \in Handlers, StackFlow(h)
  PROVE  IInv'
  <1>. USE PRChannelAssumption, DeliveryPR
  <1>. USE DEF IInv, Goto, GotoWith, Finish, Return, Raise, PR, Tracked, ghVars, dbVars,
               rowVars, slackVars, Steps, OpenSteps, StackSteps, CloseSteps, ReopenSteps
  <1>1. CASE JoinUnarchive(h)
    <2>. USE <1>1 DEF JoinUnarchive, Unarchive
    <2>1. TypeOK'
      BY DEF TypeOK, Located, ChannelSteps, ParentMessages
    <2>2. Located'
      BY DEF TypeOK, Located, ChannelSteps
    <2>3. OwnerConsistent'
      BY DEF TypeOK, Located, ChannelSteps, OwnerConsistent, HeldApart, Holding
    <2>4. StackedThreadsLive'
      BY DEF TypeOK, Located, ChannelSteps, OwnerConsistent, StackedThreadsLive, Stacked, ParentOf,
             StackOwned, HeldApart, HeldStands, HeldParent, Holding
    <2>5. StackOwned'
      BY DEF TypeOK, Located, ChannelSteps, OwnerConsistent, StackedThreadsLive, Stacked,
             StackOwned
    <2>6. HeldApart'
      BY DEF TypeOK, HeldApart, Holding
    <2>7. HeldStands'
      BY DEF TypeOK, Located, ChannelSteps, HeldApart, HeldStands, HeldParent, Holding
    <2>. QED BY <2>1, <2>2, <2>3, <2>4, <2>5, <2>6, <2>7
  <1>2. CASE PostParent(h)
    <2>. USE <1>2 DEF PostParent
    <2>1. TypeOK'
      BY DEF TypeOK, Located, ChannelSteps, ParentMessages
    <2>2. Located'
      BY DEF TypeOK, Located, ChannelSteps
    <2>3. OwnerConsistent'
      BY DEF TypeOK, Located, ChannelSteps, OwnerConsistent, HeldApart, Holding
    <2>4. StackedThreadsLive'
      BY DEF TypeOK, Located, ChannelSteps, OwnerConsistent, StackedThreadsLive, Stacked, ParentOf,
             StackOwned, HeldApart, HeldStands, HeldParent, Holding
    <2>5. StackOwned'
      BY DEF TypeOK, Located, ChannelSteps, OwnerConsistent, StackedThreadsLive, Stacked,
             StackOwned
    <2>6. HeldApart'
      BY DEF TypeOK, HeldApart, Holding
    <2>7. HeldStands'
      BY DEF TypeOK, Located, ChannelSteps, HeldApart, HeldStands, HeldParent, Holding
    <2>. QED BY <2>1, <2>2, <2>3, <2>4, <2>5, <2>6, <2>7
  <1>3. CASE JoinInsert(h)
    <2>. USE <1>3 DEF JoinInsert, InsertRow
    <2>1. TypeOK'
      <3>1. CASE state[PR(h)] = "untracked"
        <4>1. PR(h) \in PRs /\ chan[h] \in Channels
          BY DEF TypeOK, Located, ChannelSteps
        <4>2. /\ state' \in [PRs -> {"untracked", "open", "closed"}]
              /\ channelOf' \in [PRs -> Channels \cup {None}]
              /\ thread' \in [PRs -> Nat]
          BY <3>1, <4>1 DEF TypeOK
        <4>3. /\ owner' \in [Channels -> PRs \cup {None}]
              /\ isArchived' \in [Channels -> BOOLEAN]
          BY <3>1, <4>1 DEF TypeOK
        <4>. QED BY <3>1, <4>2, <4>3 DEF TypeOK
      <3>2. CASE ~(state[PR(h)] = "untracked")
        BY <3>2 DEF TypeOK
      <3>. QED BY <3>1, <3>2
    <2>2. Located'
      BY DEF TypeOK, Located, ChannelSteps
    <2>3. OwnerConsistent'
      BY DEF TypeOK, Located, ChannelSteps, OwnerConsistent, HeldApart, Holding
    <2>4. StackedThreadsLive'
      BY DEF TypeOK, Located, ChannelSteps, OwnerConsistent, StackedThreadsLive, Stacked, ParentOf,
             StackOwned, HeldApart, HeldStands, HeldParent, Holding
    <2>5. StackOwned'
      BY DEF TypeOK, Located, ChannelSteps, OwnerConsistent, StackedThreadsLive, Stacked,
             StackOwned
    <2>6. HeldApart'
      <3>1. \A p \in PRs : thread'[p] \in {thread[p], ts[h]}
        BY DEF TypeOK
      <3>2. \A g \in Handlers : Holding(g)' => Holding(g) /\ ts'[g] = ts[g]
        BY DEF TypeOK, Holding
      <3>3. CASE state[PR(h)] = "untracked"
        <4>1. \A g \in Handlers : Holding(g)' => g # h
          BY <3>3 DEF TypeOK, Holding
        <4>. QED BY <3>1, <3>2, <4>1 DEF TypeOK, HeldApart, Holding
      <3>4. CASE state[PR(h)] # "untracked"
        BY <3>2, <3>4 DEF TypeOK, HeldApart, Holding
      <3>. QED BY <3>3, <3>4
    <2>7. HeldStands'
      BY DEF TypeOK, Located, ChannelSteps, HeldApart, HeldStands, HeldParent, Holding
    <2>. QED BY <2>1, <2>2, <2>3, <2>4, <2>5, <2>6, <2>7
  <1>4. CASE JoinInsertFails(h)
    <2>. USE <1>4 DEF JoinInsertFails
    <2>1. TypeOK'
      BY DEF TypeOK, Located, ChannelSteps, ParentMessages
    <2>2. Located'
      BY DEF TypeOK, Located, ChannelSteps
    <2>3. OwnerConsistent'
      BY DEF TypeOK, Located, ChannelSteps, OwnerConsistent, HeldApart, Holding
    <2>4. StackedThreadsLive'
      BY DEF TypeOK, Located, ChannelSteps, OwnerConsistent, StackedThreadsLive, Stacked, ParentOf,
             StackOwned, HeldApart, HeldStands, HeldParent, Holding
    <2>5. StackOwned'
      BY DEF TypeOK, Located, ChannelSteps, OwnerConsistent, StackedThreadsLive, Stacked,
             StackOwned
    <2>6. HeldApart'
      BY DEF TypeOK, HeldApart, Holding
    <2>7. HeldStands'
      BY DEF TypeOK, Located, ChannelSteps, HeldApart, HeldStands, HeldParent, Holding
    <2>. QED BY <2>1, <2>2, <2>3, <2>4, <2>5, <2>6, <2>7
  <1>5. CASE JoinInsertUnanswered(h)
    <2>. USE <1>5 DEF JoinInsertUnanswered, InsertRow
    <2>0. PR(h) \in PRs /\ chan[h] \in Channels
      BY DEF TypeOK, Located, ChannelSteps
    <2>1. TypeOK'
      <3>1. /\ state' \in [PRs -> {"untracked", "open", "closed"}]
            /\ channelOf' \in [PRs -> Channels \cup {None}]
            /\ thread' \in [PRs -> Nat]
        BY <2>0 DEF TypeOK
      <3>2. /\ pc' \in [Handlers -> Steps \cup {"idle"}]
            /\ unanswered' \subseteq PRs /\ failures' \in Nat
        BY <2>0 DEF TypeOK
      <3>. QED BY <3>1, <3>2 DEF TypeOK
    <2>2. Located'
      BY DEF TypeOK, Located, ChannelSteps
    <2>3. OwnerConsistent'
      BY DEF TypeOK, Located, ChannelSteps, OwnerConsistent, HeldApart, Holding
    <2>4. StackedThreadsLive'
      BY <2>0 DEF TypeOK, StackedThreadsLive, Stacked, ParentOf, StackOwned
    <2>5. StackOwned'
      BY DEF TypeOK, StackOwned
    <2>6. HeldApart'
      <3>1. \A p \in PRs : thread'[p] \in {thread[p], ts[h]}
        BY DEF TypeOK
      <3>2. \A p \in PRs : p \notin unanswered' => thread'[p] = thread[p]
        BY DEF TypeOK
      <3>3. \A g \in Handlers : Holding(g)' => Holding(g) /\ ts'[g] = ts[g]
        BY DEF TypeOK, Holding
      <3>. QED BY <3>1, <3>2, <3>3 DEF TypeOK, HeldApart, Holding
    <2>7. HeldStands'
      BY DEF TypeOK, HeldStands, HeldParent
    <2>. QED BY <2>1, <2>2, <2>3, <2>4, <2>5, <2>6, <2>7
  <1>6. CASE UndoParent(h)
    <2>. USE <1>6 DEF UndoParent
    <2>1. TypeOK'
      BY DEF TypeOK, Located, ChannelSteps, ParentMessages
    <2>2. Located'
      BY DEF TypeOK, Located, ChannelSteps
    <2>3. OwnerConsistent'
      BY DEF TypeOK, Located, ChannelSteps, OwnerConsistent, HeldApart, Holding
    <2>4. StackedThreadsLive'
      BY DEF TypeOK, Located, ChannelSteps, OwnerConsistent, StackedThreadsLive, Stacked, ParentOf,
             StackOwned, HeldApart, HeldStands, HeldParent, Holding
    <2>5. StackOwned'
      BY DEF TypeOK, Located, ChannelSteps, OwnerConsistent, StackedThreadsLive, Stacked,
             StackOwned
    <2>6. HeldApart'
      BY DEF TypeOK, HeldApart, Holding
    <2>7. HeldStands'
      BY DEF TypeOK, Located, ChannelSteps, HeldApart, HeldStands, HeldParent, Holding
    <2>. QED BY <2>1, <2>2, <2>3, <2>4, <2>5, <2>6, <2>7
  <1>. QED BY <1>1, <1>2, <1>3, <1>4, <1>5, <1>6 DEF StackFlow

\* The close flow.
LEMMA CloseFlowStep ==
  ASSUME IInv, NEW h \in Handlers, CloseFlow(h)
  PROVE  IInv'
  <1>. USE PRChannelAssumption, DeliveryPR
  <1>. USE DEF IInv, Goto, GotoWith, Finish, Return, Raise, PR, Tracked, ghVars, dbVars,
               rowVars, slackVars, Steps, OpenSteps, StackSteps, CloseSteps, ReopenSteps
  <1>1. CASE ClosePR(h)
    <2>. USE <1>1 DEF ClosePR
    <2>1. TypeOK'
      BY DEF TypeOK
    <2>2. Located'
      BY DEF TypeOK, Located, ChannelSteps
    <2>3. Quiet(h)
      BY DEF TypeOK, Quiet
    <2>. QED BY <2>1, <2>2, <2>3, QuietStep
  <1>2. CASE ClosePost(h)
    <2>. USE <1>2 DEF ClosePost
    <2>1. TypeOK'
      BY DEF TypeOK
    <2>2. Located'
      BY DEF TypeOK, Located, ChannelSteps
    <2>3. Quiet(h)
      BY DEF TypeOK, Quiet
    <2>. QED BY <2>1, <2>2, <2>3, QuietStep
  <1>3. CASE CountOpen(h)
    <2>. USE <1>3 DEF CountOpen
    <2>1. TypeOK'
      BY DEF TypeOK
    <2>2. Located'
      BY DEF TypeOK, Located, ChannelSteps
    <2>3. Quiet(h)
      BY DEF TypeOK, Quiet
    <2>. QED BY <2>1, <2>2, <2>3, QuietStep
  <1>4. CASE ArchiveChannel(h)
    <2>. USE <1>4 DEF ArchiveChannel
    <2>1. TypeOK'
      BY DEF TypeOK
    <2>2. Located'
      BY DEF TypeOK, Located, ChannelSteps
    <2>3. Quiet(h)
      BY DEF TypeOK, Quiet
    <2>. QED BY <2>1, <2>2, <2>3, QuietStep
  <1>5. CASE MarkArchived(h)
    <2>. USE <1>5 DEF MarkArchived, SetArchived
    <2>1. TypeOK'
      BY DEF TypeOK
    <2>2. Located'
      BY DEF TypeOK, Located, ChannelSteps
    <2>3. Quiet(h)
      BY DEF TypeOK, Quiet
    <2>. QED BY <2>1, <2>2, <2>3, QuietStep
  <1>. QED BY <1>1, <1>2, <1>3, <1>4, <1>5 DEF CloseFlow

\* The reopen flow.
LEMMA ReopenFlowStep ==
  ASSUME IInv, NEW h \in Handlers, ReopenFlow(h)
  PROVE  IInv'
  <1>. USE PRChannelAssumption, DeliveryPR
  <1>. USE DEF IInv, Goto, GotoWith, Finish, Return, Raise, PR, Tracked, ghVars, dbVars,
               rowVars, slackVars, Steps, OpenSteps, StackSteps, CloseSteps, ReopenSteps
  <1>1. CASE Lookup(h)
    <2>. USE <1>1 DEF Lookup
    <2>1. TypeOK'
      BY DEF TypeOK
    <2>2. Located'
      BY DEF TypeOK, Located, ChannelSteps
    <2>3. Quiet(h)
      BY DEF TypeOK, Quiet
    <2>. QED BY <2>1, <2>2, <2>3, QuietStep
  <1>2. CASE ReopenPR(h)
    <2>. USE <1>2 DEF ReopenPR
    <2>1. TypeOK'
      BY DEF TypeOK
    <2>2. Located'
      BY DEF TypeOK, Located, ChannelSteps
    <2>3. Quiet(h)
      BY DEF TypeOK, Quiet, Located
    <2>. QED BY <2>1, <2>2, <2>3, QuietStep
  <1>3. CASE ReopenUnarchive(h)
    <2>. USE <1>3 DEF ReopenUnarchive, Unarchive
    <2>1. TypeOK'
      BY DEF TypeOK
    <2>2. Located'
      BY DEF TypeOK, Located, ChannelSteps
    <2>3. Quiet(h)
      BY DEF TypeOK, Quiet
    <2>. QED BY <2>1, <2>2, <2>3, QuietStep
  <1>4. CASE MarkLive(h)
    <2>. USE <1>4 DEF MarkLive, SetArchived
    <2>1. TypeOK'
      BY DEF TypeOK
    <2>2. Located'
      BY DEF TypeOK, Located, ChannelSteps
    <2>3. Quiet(h)
      BY DEF TypeOK, Quiet
    <2>. QED BY <2>1, <2>2, <2>3, QuietStep
  <1>5. CASE ReopenPost(h)
    <2>. USE <1>5 DEF ReopenPost
    <2>1. TypeOK'
      BY DEF TypeOK
    <2>2. Located'
      BY DEF TypeOK, Located, ChannelSteps
    <2>3. Quiet(h)
      BY DEF TypeOK, Quiet
    <2>. QED BY <2>1, <2>2, <2>3, QuietStep
  <1>. QED BY <1>1, <1>2, <1>3, <1>4, <1>5 DEF ReopenFlow

\* An exception or a crash: the handler is gone, what it has done stays.
LEMMA DieStep ==
  ASSUME IInv, NEW h \in Handlers, Die(h)
  PROVE  IInv'
  <1>. USE DEF IInv, Die, Raise, Finish, ghVars, dbVars, rowVars, slackVars
  <1>1. TypeOK'
    BY DEF TypeOK
  <1>2. Located'
    BY DEF TypeOK, Located, ChannelSteps, Tracked, PR, Steps, OpenSteps, StackSteps,
           CloseSteps, ReopenSteps
  <1>3. Quiet(h)
    BY DEF TypeOK, Quiet, Tracked, StackSteps
  <1>. QED BY <1>1, <1>2, <1>3, QuietStep

LEMMA InitInvariant == Init => IInv
BY DEF Init, IInv, TypeOK, Located, ChannelSteps, Steps, OpenSteps, StackSteps, CloseSteps,
       ReopenSteps, OwnerConsistent, StackedThreadsLive, StackOwned, HeldApart, HeldStands,
       Holding, Tracked, Stacked, ParentOf

LEMMA StepInvariant == IInv /\ [Next]_vars => IInv'
  <1>. SUFFICES ASSUME IInv, [Next]_vars PROVE IInv'
    OBVIOUS
  <1>1. CASE UNCHANGED vars
    BY <1>1 DEF IInv, TypeOK, Located, OwnerConsistent, StackedThreadsLive, StackOwned,
                HeldApart, HeldStands, HeldParent, Holding, Tracked, Stacked, ParentOf, PR, vars,
                ghVars, dbVars, rowVars, slackVars, handlerVars
  <1>2. CASE GitHub
    BY <1>2, GitHubStep
  <1>3. ASSUME NEW h \in Handlers, Step(h) PROVE IInv'
    BY <1>3, ReceiveStep, OpenFlowStep, StackFlowStep, CloseFlowStep, ReopenFlowStep DEF Step
  <1>4. ASSUME NEW h \in Handlers, Die(h) PROVE IInv'
    BY <1>4, DieStep
  <1>. QED BY <1>1, <1>2, <1>3, <1>4 DEF Next


\* Outside the stack flow a step keeps the parent messages, their holders and
\* the rows' threads: a row is inserted, or a tracked one stays tracked.
Aside(h) ==
  /\ pc[h] \notin {"joinInsert", "joinUndo"}
  /\ UNCHANGED parents
  /\ failures' \in Nat /\ failures' >= failures
  /\ \A p \in PRs : Tracked(p) => state'[p] # "untracked" /\ thread'[p] = thread[p]
  /\ \A g \in Handlers \ {h} :
       pc'[g] = pc[g] /\ job'[g] = job[g] /\ chan'[g] = chan[g] /\ ts'[g] = ts[g]

LEMMA AsideStep ==
  ASSUME IInv, NoOrphanedParent, NEW h \in Handlers, Aside(h)
  PROVE  NoOrphanedParent'
  <1>1. \A m \in parents : m.pr \in PRs
    BY DEF IInv, TypeOK, ParentMessages
  <1>. QED
    BY <1>1 DEF Aside, IInv, TypeOK, NoOrphanedParent, Holds, HeldParent, PR, Tracked

LEMMA NoOrphanStep == IInv /\ NoOrphanedParent /\ [Next]_vars => NoOrphanedParent'
  <1>. SUFFICES ASSUME IInv, NoOrphanedParent, [Next]_vars PROVE NoOrphanedParent'
    OBVIOUS
  <1>. USE DEF ghVars, dbVars, rowVars, slackVars, Goto, GotoWith, Finish, Return, Raise
  <1>1. CASE UNCHANGED vars
    BY <1>1 DEF NoOrphanedParent, Holds, HeldParent, PR, Tracked, vars, handlerVars
  <1>2. CASE GitHub
    BY <1>2 DEF GitHub, NoOrphanedParent, Holds, HeldParent, PR, Tracked, handlerVars
  <1>3. ASSUME NEW h \in Handlers, NEW d \in inbox, Receive(h, d) PROVE Aside(h)
    BY <1>3 DEF IInv, TypeOK, Receive, Aside, Tracked
  <1>4. ASSUME NEW h \in Handlers, OpenFlow(h) PROVE Aside(h)
    <2>. USE DEF IInv, TypeOK, Aside, Tracked
    <2>1. CASE CheckTracked(h) BY <2>1 DEF CheckTracked
    <2>2. CASE FindParent(h) BY <2>2 DEF FindParent
    <2>3. CASE CreateChannel(h) BY <2>3 DEF CreateChannel
    <2>4. CASE SetUpChannel(h) BY <2>4 DEF SetUpChannel
    <2>5. CASE InsertOwner(h) BY <2>5 DEF InsertOwner, CanInsertOwner, InsertRow, PR
    <2>. QED BY <1>4, <2>1, <2>2, <2>3, <2>4, <2>5 DEF OpenFlow
  <1>5. ASSUME NEW h \in Handlers, CloseFlow(h) PROVE Aside(h)
    <2>. USE DEF IInv, TypeOK, Aside, Tracked
    <2>1. CASE ClosePR(h) BY <2>1 DEF ClosePR
    <2>2. CASE ClosePost(h) BY <2>2 DEF ClosePost
    <2>3. CASE CountOpen(h) BY <2>3 DEF CountOpen
    <2>4. CASE ArchiveChannel(h) BY <2>4 DEF ArchiveChannel
    <2>5. CASE MarkArchived(h) BY <2>5 DEF MarkArchived
    <2>. QED BY <1>5, <2>1, <2>2, <2>3, <2>4, <2>5 DEF CloseFlow
  <1>6. ASSUME NEW h \in Handlers, ReopenFlow(h) PROVE Aside(h)
    <2>. USE DEF IInv, TypeOK, Aside, Tracked
    <2>1. CASE Lookup(h) BY <2>1 DEF Lookup
    <2>2. CASE ReopenPR(h) BY <2>2 DEF ReopenPR
    <2>3. CASE ReopenUnarchive(h) BY <2>3 DEF ReopenUnarchive, Unarchive
    <2>4. CASE MarkLive(h) BY <2>4 DEF MarkLive
    <2>5. CASE ReopenPost(h) BY <2>5 DEF ReopenPost
    <2>. QED BY <1>6, <2>1, <2>2, <2>3, <2>4, <2>5 DEF ReopenFlow
  <1>7. ASSUME NEW h \in Handlers, StackFlow(h) PROVE NoOrphanedParent'
    <2>1. CASE JoinUnarchive(h)
      <3>. Aside(h)
        BY <2>1 DEF IInv, TypeOK, Aside, Tracked, JoinUnarchive, Unarchive
      <3>. QED BY AsideStep
    <2>2. CASE PostParent(h)
      <3>1. \A m \in parents' : m \in parents \/ (HeldParent(h)' = m /\ pc'[h] = "joinInsert")
        BY <2>2 DEF PostParent, IInv, TypeOK, HeldParent, PR
      <3>2. \A g \in Handlers : g # h => pc'[g] = pc[g] /\ HeldParent(g)' = HeldParent(g)
        BY <2>2 DEF PostParent, IInv, TypeOK, HeldParent, PR
      <3>. QED
        BY <2>2, <3>1, <3>2 DEF PostParent, NoOrphanedParent, Holds, Tracked
    <2>3. CASE JoinInsert(h)
      <3>. QED
        BY <2>3, DeliveryPR DEF JoinInsert, InsertRow, IInv, TypeOK, ParentMessages,
           NoOrphanedParent, Holds, HeldParent, PR, Tracked
    <2>4. CASE JoinInsertFails(h)
      BY <2>4 DEF JoinInsertFails, IInv, TypeOK, NoOrphanedParent
    <2>5. CASE JoinInsertUnanswered(h)
      BY <2>5 DEF JoinInsertUnanswered, IInv, TypeOK, NoOrphanedParent
    <2>6. CASE UndoParent(h)
      BY <2>6 DEF UndoParent, IInv, TypeOK, NoOrphanedParent, Holds, HeldParent, PR, Tracked
    <2>. QED BY <1>7, <2>1, <2>2, <2>3, <2>4, <2>5, <2>6 DEF StackFlow
  <1>8. ASSUME NEW h \in Handlers, Die(h) PROVE NoOrphanedParent'
    BY <1>8 DEF Die, IInv, TypeOK, NoOrphanedParent
  <1>. QED
    BY <1>1, <1>2, <1>3, <1>4, <1>5, <1>6, <1>7, <1>8, AsideStep DEF Next, Step

-----------------------------------------------------------------------------
(* Deliveries in order *)

\* The conditions under which the README's promise is kept.
OneByOne ==
  /\ InOrder /\ MaxRedeliveries = 0 /\ MaxFailures = 0
  /\ \A g, h \in Handlers : g = h

\* What the pull request was on GitHub before and after what a delivery tells.
After(d) ==
  CASE d.event \in {"opened", "reopened"} -> "open"
    [] d.event = "closed"  -> "closed"
    [] d.event = "labeled" -> IF d.wanted THEN "open" ELSE "closed"

Before(d) ==
  CASE d.event = "opened"   -> "unborn"
    [] d.event = "reopened" -> "closed"
    [] d.event = "closed"   -> "open"
    [] d.event = "labeled"  -> After(d)

\* Who has seen all of p up to delivery n, and takes it to be in state s, is
\* told nothing else by the next delivery, or by GitHub when there is none.
From(p, n, s) ==
  /\ \A e \in inbox :
       e.pr = p /\ e.n > n /\ (\A f \in inbox : f.pr = p /\ f.n > n => f.n >= e.n)
         => Before(e) = s
  /\ (\A e \in inbox : e.pr = p => e.n <= n) => github[p] = s

\* Deliveries are numbered apart, and each tells what is true of its pull
\* request until the next.
Queue ==
  /\ \A d \in inbox : d.n <= sent /\ From(d.pr, d.n, After(d))
  /\ \A d, e \in inbox : d.n = e.n => d = e

\* A handler is at work on the pull request.
AtWork(p) == \E h \in Handlers : pc[h] # "idle" /\ PR(h) = p

\* Else the row is up to date with all that has been handled.
CaughtUp == \A p \in PRs : Tracked(p) /\ ~AtWork(p) => From(p, 0, state[p])

\* The steps after the row of the delivery's pull request is written.
Written ==
  {"closePost", "count", "archive", "markArchived", "unarchive", "markLive", "reopenPost"}

\* Where a handler stands between the state before and the state after.
Progress(h) ==
  /\ From(PR(h), 0, After(job[h]))
  /\ pc[h] \in OpenSteps \cup StackSteps \cup ReopenSteps => After(job[h]) = "open"
  /\ pc[h] = "close" => After(job[h]) = "closed"
  /\ pc[h] \in {"check", "close"} /\ Tracked(PR(h)) => state[PR(h)] = "open"
  /\ pc[h] \in (OpenSteps \cup StackSteps) \ {"check"} => ~Tracked(PR(h))
  /\ pc[h] # "joinUndo"
  /\ pc[h] \in Written =>
       /\ Tracked(PR(h)) /\ state[PR(h)] = After(job[h])
       /\ chan[h] = channelOf[PR(h)]

\* What a handler knows of its channel.
Knows(h) ==
  /\ pc[h] = "setup" => slack[chan[h]] # "absent"
  /\ pc[h] \in {"insert", "joinUnarchive", "joinPost", "joinInsert", "closePost", "count",
                "archive", "markLive"} => slack[chan[h]] = "live"
  /\ pc[h] = "archive" => OpenInChannel(chan[h]) = {}
  /\ pc[h] = "markArchived" => slack[chan[h]] = "archived"

Working == \A h \in Handlers : pc[h] # "idle" => Progress(h) /\ Knows(h)

InHand(c, steps) == \E h \in Handlers : pc[h] \in steps /\ chan[h] = c

\* The channel of an open pull request is live, but while it is coming back.
Open ==
  \A p \in PRs : Tracked(p) =>
    /\ slack[channelOf[p]] # "absent"
    /\ state[p] = "open" /\ ~InHand(channelOf[p], {"unarchive"})
         => slack[channelOf[p]] = "live"

\* is_archived says what Slack says, but in the middle of a change of both.
Marked ==
  \A c \in Channels :
    owner[c] # None /\ ~InHand(c, {"unarchive", "markArchived", "markLive"})
      => (isArchived[c] <=> slack[c] = "archived")

\* A pull request without a row is in no channel.
Nowhere == \A p \in PRs : ~Tracked(p) => channelOf[p] = None

OrderInv ==
  /\ Queue /\ CaughtUp /\ Working
  /\ Open /\ Marked /\ Nowhere

\* What a delivery can tell.
LEMMA Told ==
  \A d \in Deliveries :
    /\ After(d) \in {"open", "closed"}
    /\ Before(d) \in {"unborn", "open", "closed"}
    /\ d.n \in Nat /\ d.n > 0 /\ d.pr \in PRs
BY PRChannelAssumption DEF Deliveries, Events, After, Before

\* What GitHub sends follows on what it sent before.
LEMMA SendFollows ==
  ASSUME IInv, Queue, GitHub
  PROVE  /\ Queue'
         /\ \A q \in PRs, n \in 0..sent : \A s : From(q, n, s) => From(q, n, s)'
  <1>1. PICK p \in PRs :
          GitHubOpens(p) \/ GitHubLabels(p) \/ GitHubCloses(p) \/ GitHubReopens(p)
    BY DEF GitHub
  <1>2. PICK d \in Deliveries :
          /\ d.pr = p /\ d.n = sent + 1 /\ Before(d) = github[p]
          /\ inbox' = inbox \cup {d} /\ sent' = sent + 1
          /\ github' = [github EXCEPT ![p] = After(d)]
    <2>0. ASSUME NEW e \in Events, NEW w \in BOOLEAN, sent < MaxDeliveries
          PROVE  [n |-> sent + 1, pr |-> p, event |-> e, wanted |-> w] \in Deliveries
      BY <2>0, PRChannelAssumption DEF IInv, TypeOK, Deliveries
    <2>1. CASE GitHubOpens(p)
      BY <2>1, <2>0 DEF GitHubOpens, Send, Events, Before, After
    <2>2. CASE GitHubLabels(p)
      <3>1. github[p] \in {"open", "closed"}
        BY <2>2 DEF GitHubLabels, IInv, TypeOK
      <3>2. github = [github EXCEPT ![p] = @]
        BY DEF IInv, TypeOK
      <3>. QED BY <2>2, <2>0, <3>1, <3>2 DEF GitHubLabels, Send, Events, Before, After
    <2>3. CASE GitHubCloses(p)
      BY <2>3, <2>0 DEF GitHubCloses, Send, Events, Before, After
    <2>4. CASE GitHubReopens(p)
      BY <2>4, <2>0 DEF GitHubReopens, Send, Events, Before, After
    <2>. QED BY <1>1, <2>1, <2>2, <2>3, <2>4
  <1>3. sent \in Nat /\ inbox \subseteq Deliveries /\ github \in [PRs -> {"unborn", "open", "closed"}]
    BY DEF IInv, TypeOK
  <1>4. \A e \in inbox : e.n \in Nat /\ e.n <= sent /\ e.pr \in PRs
    BY <1>3, Told DEF Queue
  <1>5. ASSUME NEW q \in PRs, NEW n \in 0..sent, NEW s, From(q, n, s)
        PROVE  From(q, n, s)'
    BY <1>2, <1>3, <1>4, <1>5 DEF From
  <1>6. From(d.pr, d.n, After(d))'
    BY <1>2, <1>3, <1>4 DEF From
  <1>7. \A e \in inbox' : e.n <= sent' /\ From(e.pr, e.n, After(e))'
    <2>1. ASSUME NEW e \in inbox PROVE e.n <= sent' /\ From(e.pr, e.n, After(e))'
      <3>1. e.n \in 0..sent /\ e.pr \in PRs /\ From(e.pr, e.n, After(e))
        BY <1>3, <1>4 DEF Queue
      <3>2. e.n <= sent'
        BY ONLY <3>1, <1>2, <1>3
      <3>. QED BY <3>1, <3>2, <1>5
    <2>2. d.n <= sent' /\ From(d.pr, d.n, After(d))'
      BY <1>2, <1>3, <1>6
    <2>3. ASSUME NEW e \in inbox' PROVE e \in inbox \/ e = d
      BY <2>3, <1>2
    <2>. QED BY ONLY <2>1, <2>2, <2>3, Zenon
  <1>8. \A e, f \in inbox' : e.n = f.n => e = f
    BY <1>2, <1>3, <1>4 DEF Queue
  <1>9. Queue'
    BY <1>7, <1>8 DEF Queue
  <1>. QED BY <1>5, <1>9

\* Something happens on GitHub.
LEMMA GitHubOrder ==
  ASSUME IInv, OrderInv, GitHub
  PROVE  OrderInv'
  <1>1. Queue' /\ \A q \in PRs, n \in 0..sent : \A s : From(q, n, s) => From(q, n, s)'
    BY SendFollows DEF OrderInv
  <1>2. UNCHANGED <<dbVars, slackVars, handlerVars>>
    BY DEF GitHub
  <1>3. 0 \in 0..sent
    BY DEF IInv, TypeOK
  <1>4. \A h \in Handlers : pc[h] # "idle" => PR(h) \in PRs
    BY DeliveryPR DEF IInv, TypeOK, PR
  <1>. USE <1>2 DEF dbVars, rowVars, slackVars, handlerVars, PR, Tracked
  <1>5. CaughtUp'
    BY <1>1, <1>3 DEF OrderInv, CaughtUp, AtWork
  <1>6. Working'
    BY <1>1, <1>3, <1>4 DEF OrderInv, Working, Progress, Knows, OpenInChannel
  <1>7. (Open /\ Marked /\ Nowhere)'
    BY DEF OrderInv, Open, Marked, Nowhere, InHand
  <1>. QED BY <1>1, <1>5, <1>6, <1>7 DEF OrderInv

\* The oldest delivery is taken up, or has nothing for a handler to do.
LEMMA ReceiveOrder ==
  ASSUME OneByOne, IInv, OrderInv, NEW h \in Handlers, NEW d \in inbox, Receive(h, d)
  PROVE  OrderInv'
  <1>1. /\ inbox' = inbox \ {d} /\ d \in Deliveries /\ inbox \subseteq Deliveries
        /\ \A e \in inbox : d.n <= e.n
        /\ pc[h] = "idle" /\ redeliveries \in Nat
        /\ \A g \in Handlers : g = h
    BY DEF Receive, OneByOne, IInv, TypeOK
  <1>2. \A e \in inbox : e.n \in Nat /\ e.n > 0
    BY <1>1, Told
  <1>3. \A e \in inbox : e.n = d.n => e = d
    BY DEF OrderInv, Queue
  <1>4. github' = github /\ sent' = sent
    BY DEF Receive
  <1>5. ASSUME NEW q, NEW n, NEW s, q # d.pr \/ n >= d.n, n \in Nat, From(q, n, s)
        PROVE  From(q, n, s)'
    BY <1>1, <1>2, <1>3, <1>4, <1>5 DEF From
  <1>6. From(d.pr, 0, After(d))'
    <2>1. From(d.pr, d.n, After(d))
      BY DEF OrderInv, Queue
    <2>. QED BY <1>1, <1>2, <1>3, <1>4, <2>1 DEF From
  <1>7. Tracked(d.pr) => state[d.pr] = Before(d)
    <2>1. ~AtWork(d.pr)
      BY <1>1 DEF AtWork
    <2>2. Tracked(d.pr) => From(d.pr, 0, state[d.pr])
      BY <2>1, <1>1, Told DEF OrderInv, CaughtUp
    <2>. QED BY <1>1, <1>2, <2>2 DEF From
  <1>8. Queue'
    <2>1. ASSUME NEW e \in inbox' PROVE e.n <= sent' /\ From(e.pr, e.n, After(e))'
      <3>1. e \in inbox /\ e.n \in Nat /\ e.n >= d.n /\ e.n <= sent /\ From(e.pr, e.n, After(e))
        BY <1>1, <1>2 DEF OrderInv, Queue
      <3>. QED BY <3>1, <1>4, <1>5
    <2>. QED BY <2>1, <1>1 DEF OrderInv, Queue
  <1>. USE DEF Receive, dbVars, rowVars, slackVars, Tracked
  <1>9. \A q \in PRs : Tracked(q) => From(q, 0, state[q])
    BY <1>1 DEF OrderInv, CaughtUp, AtWork
  <1>10. CASE Ignored(d)
    <2>1. pc' = pc /\ job' = job
      BY <1>10
    <2>2. Tracked(d.pr) => state[d.pr] = After(d)
      <3>. USE <1>7, <1>1, PRChannelAssumption
           DEF IInv, TypeOK, Ignored, FirstStep, Deliveries, Events, Before, After
      <3>. QED BY <1>10
    <2>3. CaughtUp'
      BY <1>5, <1>6, <1>9, <2>2 DEF CaughtUp
    <2>4. Working'
      BY <1>1, <2>1 DEF Working
    <2>5. (Open /\ Marked /\ Nowhere)'
      BY <2>1 DEF OrderInv, Open, Marked, Nowhere, InHand
    <2>. QED BY <1>8, <2>3, <2>4, <2>5 DEF OrderInv
  <1>11. CASE ~Ignored(d)
    <2>1. /\ pc' = [pc EXCEPT ![h] = FirstStep(d)] /\ job' = [job EXCEPT ![h] = d]
          /\ pc \in [Handlers -> Steps \cup {"idle"}] /\ DOMAIN job = Handlers
          /\ chan' = chan
      BY <1>11 DEF IInv, TypeOK
    <2>2. pc'[h] = FirstStep(d) /\ PR(h)' = d.pr /\ job'[h] = d
      BY <2>1 DEF PR
    <2>3. /\ FirstStep(d) \in {"close", "lookup", "check"}
          /\ FirstStep(d) = "close" => After(d) = "closed" /\ Before(d) = "open"
          /\ FirstStep(d) = "lookup" => After(d) = "open"
          /\ FirstStep(d) = "check" => After(d) = "open" /\ Before(d) \in {"unborn", "open"}
      BY <1>1, <1>11 DEF Deliveries, Events, FirstStep, Ignored, After, Before
    <2>4. CaughtUp'
      BY <1>5, <1>9, <2>2, <2>3 DEF CaughtUp, AtWork
    <2>5. state[d.pr] \in {"untracked", "open", "closed"}
      BY <1>1, Told DEF IInv, TypeOK
    <2>6. Progress(h)'
      BY <1>6, <1>7, <2>2, <2>3, <2>5 DEF Progress, Written, OpenSteps, StackSteps, ReopenSteps
    <2>7. Knows(h)'
      BY <2>2, <2>3 DEF Knows
    <2>8. Working'
      BY <1>1, <2>6, <2>7 DEF Working
    <2>9. (Open /\ Marked /\ Nowhere)'
      <3>1. \A c, steps : InHand(c, steps) => pc[h] \in steps
        BY <1>1 DEF InHand
      <3>2. \A c : ~InHand(c, {"unarchive"})
                   /\ ~InHand(c, {"unarchive", "markArchived", "markLive"})
        BY <1>1, <3>1
      <3>. QED BY <3>2 DEF OrderInv, Open, Marked, Nowhere
    <2>. QED BY <1>8, <2>4, <2>8, <2>9 DEF OrderInv
  <1>. QED BY <1>10, <1>11

\* Seen from the one handler there is: a step of it about its own pull request.
LEMMA HandlerOrder ==
  ASSUME OneByOne, IInv, OrderInv, NEW h \in Handlers, pc[h] # "idle",
         UNCHANGED ghVars,
         \A q \in PRs : q # PR(h) => state'[q] = state[q],
         pc'[h] = "idle" => (state'[PR(h)] = "untracked" \/ state'[PR(h)] = After(job[h])),
         pc'[h] # "idle" => job'[h] = job[h] /\ Progress(h)' /\ Knows(h)',
         (Open /\ Marked /\ Nowhere)'
  PROVE  OrderInv'
  <1>1. \A g \in Handlers : g = h
    BY DEF OneByOne
  <1>2. \A q, n, s : From(q, n, s) => From(q, n, s)'
    BY DEF From, ghVars
  <1>3. Queue'
    <2>1. inbox' = inbox /\ sent' = sent
      BY DEF ghVars
    <2>. QED BY <1>2, <2>1 DEF OrderInv, Queue
  <1>4. Working'
    BY <1>1 DEF Working
  <1>5. From(PR(h), 0, After(job[h]))
    BY DEF OrderInv, Working, Progress
  <1>6. \A q \in PRs : Tracked(q) /\ q # PR(h) => From(q, 0, state[q])
    BY <1>1 DEF OrderInv, CaughtUp, AtWork
  <1>7. ASSUME NEW q \in PRs, state'[q] # "untracked", q # PR(h) \/ pc'[h] = "idle"
        PROVE  From(q, 0, state[q])'
    <2>1. From(q, 0, state'[q])
      BY <1>5, <1>6, <1>7 DEF Tracked
    <2>2. PICK s : s = state'[q]
      OBVIOUS
    <2>3. From(q, 0, s)'
      BY <1>2, <2>1, <2>2
    <2>. QED BY <2>2, <2>3
  <1>8. CaughtUp'
    <2>1. ASSUME NEW q \in PRs, Tracked(q)', ~AtWork(q)'
          PROVE  From(q, 0, state[q])'
      <3>1. q # PR(h) \/ pc'[h] = "idle"
        BY <2>1 DEF AtWork, PR
      <3>. QED BY <1>7, <2>1, <3>1 DEF Tracked
    <2>. QED BY <2>1 DEF CaughtUp
  <1>. QED BY <1>3, <1>4, <1>8 DEF OrderInv

\* The open flow writes the row of a pull request that has none.
LEMMA OpenFlowOrder ==
  ASSUME OneByOne, IInv, OrderInv, NEW h \in Handlers, OpenFlow(h)
  PROVE  OrderInv'
  <1>0. /\ \A g \in Handlers : g = h
        /\ pc[h] # "idle" => Progress(h) /\ Knows(h) /\ job[h] \in Deliveries /\ PR(h) \in PRs
        /\ failures \in Nat /\ MaxFailures = 0
        /\ \A c, steps : InHand(c, steps) <=> pc[h] \in steps /\ chan[h] = c
        /\ pc[h] \in ChannelSteps => chan[h] \in Channels
    BY DeliveryPR DEF OneByOne, OrderInv, Working, IInv, TypeOK, Located, PR, InHand
  <1>. USE <1>0, PRChannelAssumption
  <1>1. CASE CheckTracked(h)
    <2>. USE <1>1 DEF CheckTracked, Goto, GotoWith, Finish, Return, Raise, PR, Tracked, ghVars,
             dbVars, rowVars, slackVars
    <2>1. \A q \in PRs : q # PR(h) => state'[q] = state[q]
      BY DEF IInv, TypeOK
    <2>2. pc'[h] = "idle" => (state'[PR(h)] = "untracked" \/ state'[PR(h)] = After(job[h]))
      BY DEF IInv, TypeOK, Progress, Written, OpenSteps, StackSteps
    <2>3. ASSUME pc'[h] # "idle" PROVE job'[h] = job[h] /\ Progress(h)'
      BY <2>3 DEF IInv, TypeOK, Located, Progress, Written, OpenSteps, StackSteps,
                 ReopenSteps, From
    <2>4. ASSUME pc'[h] # "idle" PROVE Knows(h)'
      BY <2>4 DEF IInv, TypeOK, Located, Progress, Knows, Written, OrderInv, Open, OpenInChannel,
                 ChannelSteps, Steps, OpenSteps, StackSteps, CloseSteps, ReopenSteps
    <2>5. Open'
      BY DEF IInv, TypeOK, Located, Progress, Knows, Written, OrderInv, Open, InHand, OpenInChannel
    <2>6. Marked'
      BY DEF IInv, TypeOK, Located, Progress, Knows, Written, OrderInv, Open, Marked, InHand
    <2>7. Nowhere'
      BY DEF IInv, TypeOK, OrderInv, Nowhere
    <2>. QED BY <2>1, <2>2, <2>3, <2>4, <2>5, <2>6, <2>7, HandlerOrder
  <1>2. CASE FindParent(h)
    <2>. USE <1>2 DEF FindParent, StackParentRows, Goto, GotoWith, Finish, Return, Raise, PR, Tracked, ghVars,
             dbVars, rowVars, slackVars
    <2>1. \A q \in PRs : q # PR(h) => state'[q] = state[q]
      BY DEF IInv, TypeOK
    <2>2. pc'[h] = "idle" => (state'[PR(h)] = "untracked" \/ state'[PR(h)] = After(job[h]))
      BY DEF IInv, TypeOK, Progress, Written, OpenSteps, StackSteps
    <2>3. ASSUME pc'[h] # "idle" PROVE job'[h] = job[h] /\ Progress(h)'
      BY <2>3 DEF IInv, TypeOK, Located, Progress, Written, OpenSteps, StackSteps,
                 ReopenSteps, From
    <2>4. ASSUME pc'[h] # "idle" PROVE Knows(h)'
      BY <2>4 DEF IInv, TypeOK, Located, Progress, Knows, Written, OrderInv, Open, OpenInChannel,
                 ChannelSteps, Steps, OpenSteps, StackSteps, CloseSteps, ReopenSteps
    <2>5. Open'
      BY DEF IInv, TypeOK, Located, Progress, Knows, Written, OrderInv, Open, InHand, OpenInChannel
    <2>6. Marked'
      BY DEF IInv, TypeOK, Located, Progress, Knows, Written, OrderInv, Open, Marked, InHand
    <2>7. Nowhere'
      BY DEF IInv, TypeOK, OrderInv, Nowhere
    <2>. QED BY <2>1, <2>2, <2>3, <2>4, <2>5, <2>6, <2>7, HandlerOrder
  <1>3. CASE CreateChannel(h)
    <2>. USE <1>3 DEF CreateChannel, Goto, GotoWith, Finish, Return, Raise, PR, Tracked, ghVars,
             dbVars, rowVars, slackVars
    <2>1. \A q \in PRs : q # PR(h) => state'[q] = state[q]
      BY DEF IInv, TypeOK
    <2>2. pc'[h] = "idle" => (state'[PR(h)] = "untracked" \/ state'[PR(h)] = After(job[h]))
      BY DEF IInv, TypeOK, Progress, Written, OpenSteps, StackSteps
    <2>3. ASSUME pc'[h] # "idle" PROVE job'[h] = job[h] /\ Progress(h)'
      BY <2>3 DEF IInv, TypeOK, Located, Progress, Written, OpenSteps, StackSteps,
                 ReopenSteps, From
    <2>4. ASSUME pc'[h] # "idle" PROVE Knows(h)'
      BY <2>4 DEF IInv, TypeOK, Located, Progress, Knows, Written, OrderInv, Open, OpenInChannel,
                 ChannelSteps, Steps, OpenSteps, StackSteps, CloseSteps, ReopenSteps
    <2>5. Open'
      BY DEF IInv, TypeOK, Located, Progress, Knows, Written, OrderInv, Open, InHand, OpenInChannel
    <2>6. Marked'
      BY DEF IInv, TypeOK, Located, Progress, Knows, Written, OrderInv, Open, Marked, InHand
    <2>7. Nowhere'
      BY DEF IInv, TypeOK, OrderInv, Nowhere
    <2>. QED BY <2>1, <2>2, <2>3, <2>4, <2>5, <2>6, <2>7, HandlerOrder
  <1>4. CASE SetUpChannel(h)
    <2>. USE <1>4 DEF SetUpChannel, Goto, GotoWith, Finish, Return, Raise, PR, Tracked, ghVars,
             dbVars, rowVars, slackVars
    <2>1. \A q \in PRs : q # PR(h) => state'[q] = state[q]
      BY DEF IInv, TypeOK
    <2>2. pc'[h] = "idle" => (state'[PR(h)] = "untracked" \/ state'[PR(h)] = After(job[h]))
      BY DEF IInv, TypeOK, Progress, Written, OpenSteps, StackSteps
    <2>3. ASSUME pc'[h] # "idle" PROVE job'[h] = job[h] /\ Progress(h)'
      BY <2>3 DEF IInv, TypeOK, Located, Progress, Written, OpenSteps, StackSteps,
                 ReopenSteps, From
    <2>4. ASSUME pc'[h] # "idle" PROVE Knows(h)'
      BY <2>4 DEF IInv, TypeOK, Located, Progress, Knows, Written, OrderInv, Open, OpenInChannel,
                 ChannelSteps, Steps, OpenSteps, StackSteps, CloseSteps, ReopenSteps
    <2>5. Open'
      BY DEF IInv, TypeOK, Located, Progress, Knows, Written, OrderInv, Open, InHand, OpenInChannel
    <2>6. Marked'
      BY DEF IInv, TypeOK, Located, Progress, Knows, Written, OrderInv, Open, Marked, InHand
    <2>7. Nowhere'
      BY DEF IInv, TypeOK, OrderInv, Nowhere
    <2>. QED BY <2>1, <2>2, <2>3, <2>4, <2>5, <2>6, <2>7, HandlerOrder
  <1>5. CASE InsertOwner(h)
    <2>. USE <1>5 DEF InsertOwner, CanInsertOwner, InsertRow, Goto, GotoWith, Finish, Return, Raise, PR, Tracked, ghVars,
             dbVars, rowVars, slackVars
    <2>1. \A q \in PRs : q # PR(h) => state'[q] = state[q]
      BY DEF IInv, TypeOK
    <2>2. pc'[h] = "idle" => (state'[PR(h)] = "untracked" \/ state'[PR(h)] = After(job[h]))
      BY DEF IInv, TypeOK, Progress, Written, OpenSteps, StackSteps
    <2>3. ASSUME pc'[h] # "idle" PROVE job'[h] = job[h] /\ Progress(h)'
      BY <2>3 DEF IInv, TypeOK, Located, Progress, Written, OpenSteps, StackSteps,
                 ReopenSteps, From
    <2>4. ASSUME pc'[h] # "idle" PROVE Knows(h)'
      BY <2>4 DEF IInv, TypeOK, Located, Progress, Knows, Written, OrderInv, Open, OpenInChannel,
                 ChannelSteps, Steps, OpenSteps, StackSteps, CloseSteps, ReopenSteps
    <2>5. Open'
      BY DEF IInv, TypeOK, Located, Progress, Knows, Written, OrderInv, Open, InHand, OpenInChannel
    <2>6. Marked'
      BY DEF IInv, TypeOK, Located, Progress, Knows, Written, OrderInv, Open, Marked, InHand
    <2>7. Nowhere'
      BY DEF IInv, TypeOK, OrderInv, Nowhere
    <2>. QED BY <2>1, <2>2, <2>3, <2>4, <2>5, <2>6, <2>7, HandlerOrder
  <1>. QED BY <1>1, <1>2, <1>3, <1>4, <1>5 DEF OpenFlow

\* The stack flow does, too, in the channel of its parent.
LEMMA StackFlowOrder ==
  ASSUME OneByOne, IInv, OrderInv, NEW h \in Handlers, StackFlow(h)
  PROVE  OrderInv'
  <1>0. /\ \A g \in Handlers : g = h
        /\ pc[h] # "idle" => Progress(h) /\ Knows(h) /\ job[h] \in Deliveries /\ PR(h) \in PRs
        /\ failures \in Nat /\ MaxFailures = 0
        /\ \A c, steps : InHand(c, steps) <=> pc[h] \in steps /\ chan[h] = c
        /\ pc[h] \in ChannelSteps => chan[h] \in Channels
    BY DeliveryPR DEF OneByOne, OrderInv, Working, IInv, TypeOK, Located, PR, InHand
  <1>. USE <1>0, PRChannelAssumption
  <1>1. CASE JoinUnarchive(h)
    <2>. USE <1>1 DEF JoinUnarchive, Unarchive, Goto, GotoWith, Finish, Return, Raise, PR, Tracked, ghVars,
             dbVars, rowVars, slackVars
    <2>1. \A q \in PRs : q # PR(h) => state'[q] = state[q]
      BY DEF IInv, TypeOK
    <2>2. pc'[h] = "idle" => (state'[PR(h)] = "untracked" \/ state'[PR(h)] = After(job[h]))
      BY DEF IInv, TypeOK, Progress, Written, OpenSteps, StackSteps
    <2>3. ASSUME pc'[h] # "idle" PROVE job'[h] = job[h] /\ Progress(h)'
      BY <2>3 DEF IInv, TypeOK, Located, Progress, Written, OpenSteps, StackSteps,
                 ReopenSteps, From
    <2>4. ASSUME pc'[h] # "idle" PROVE Knows(h)'
      BY <2>4 DEF IInv, TypeOK, Located, Progress, Knows, Written, OrderInv, Open, OpenInChannel,
                 ChannelSteps, Steps, OpenSteps, StackSteps, CloseSteps, ReopenSteps
    <2>5. Open'
      BY DEF IInv, TypeOK, Located, Progress, Knows, Written, OrderInv, Open, InHand, OpenInChannel
    <2>6. Marked'
      BY DEF IInv, TypeOK, Located, Progress, Knows, Written, OrderInv, Open, Marked, InHand
    <2>7. Nowhere'
      BY DEF IInv, TypeOK, OrderInv, Nowhere
    <2>. QED BY <2>1, <2>2, <2>3, <2>4, <2>5, <2>6, <2>7, HandlerOrder
  <1>2. CASE PostParent(h)
    <2>. USE <1>2 DEF PostParent, Goto, GotoWith, Finish, Return, Raise, PR, Tracked, ghVars,
             dbVars, rowVars, slackVars
    <2>1. \A q \in PRs : q # PR(h) => state'[q] = state[q]
      BY DEF IInv, TypeOK
    <2>2. pc'[h] = "idle" => (state'[PR(h)] = "untracked" \/ state'[PR(h)] = After(job[h]))
      BY DEF IInv, TypeOK, Progress, Written, OpenSteps, StackSteps
    <2>3. ASSUME pc'[h] # "idle" PROVE job'[h] = job[h] /\ Progress(h)'
      BY <2>3 DEF IInv, TypeOK, Located, Progress, Written, OpenSteps, StackSteps,
                 ReopenSteps, From
    <2>4. ASSUME pc'[h] # "idle" PROVE Knows(h)'
      BY <2>4 DEF IInv, TypeOK, Located, Progress, Knows, Written, OrderInv, Open, OpenInChannel,
                 ChannelSteps, Steps, OpenSteps, StackSteps, CloseSteps, ReopenSteps
    <2>5. Open'
      BY DEF IInv, TypeOK, Located, Progress, Knows, Written, OrderInv, Open, InHand, OpenInChannel
    <2>6. Marked'
      BY DEF IInv, TypeOK, Located, Progress, Knows, Written, OrderInv, Open, Marked, InHand
    <2>7. Nowhere'
      BY DEF IInv, TypeOK, OrderInv, Nowhere
    <2>. QED BY <2>1, <2>2, <2>3, <2>4, <2>5, <2>6, <2>7, HandlerOrder
  <1>3. CASE JoinInsert(h)
    <2>. USE <1>3 DEF JoinInsert, InsertRow, Goto, GotoWith, Finish, Return, Raise, PR, Tracked, ghVars,
             dbVars, rowVars, slackVars
    <2>1. \A q \in PRs : q # PR(h) => state'[q] = state[q]
      BY DEF IInv, TypeOK
    <2>2. pc'[h] = "idle" => (state'[PR(h)] = "untracked" \/ state'[PR(h)] = After(job[h]))
      BY DEF IInv, TypeOK, Progress, Written, OpenSteps, StackSteps
    <2>3. ASSUME pc'[h] # "idle" PROVE job'[h] = job[h] /\ Progress(h)'
      BY <2>3 DEF IInv, TypeOK, Located, Progress, Written, OpenSteps, StackSteps,
                 ReopenSteps, From
    <2>4. ASSUME pc'[h] # "idle" PROVE Knows(h)'
      BY <2>4 DEF IInv, TypeOK, Located, Progress, Knows, Written, OrderInv, Open, OpenInChannel,
                 ChannelSteps, Steps, OpenSteps, StackSteps, CloseSteps, ReopenSteps
    <2>5. Open'
      BY DEF IInv, TypeOK, Located, Progress, Knows, Written, OrderInv, Open, InHand, OpenInChannel
    <2>6. Marked'
      BY DEF IInv, TypeOK, Located, Progress, Knows, Written, OrderInv, Open, Marked, InHand
    <2>7. Nowhere'
      BY DEF IInv, TypeOK, OrderInv, Nowhere
    <2>. QED BY <2>1, <2>2, <2>3, <2>4, <2>5, <2>6, <2>7, HandlerOrder
  <1>4. CASE JoinInsertFails(h)
    BY <1>4 DEF JoinInsertFails, Progress, Steps, OpenSteps, StackSteps
  <1>5. CASE JoinInsertUnanswered(h)
    BY <1>5 DEF JoinInsertUnanswered
  <1>6. CASE UndoParent(h)
    BY <1>6 DEF UndoParent, Progress, Steps, OpenSteps, StackSteps
  <1>. QED BY <1>1, <1>2, <1>3, <1>4, <1>5, <1>6 DEF StackFlow

\* The close flow archives the channel if nothing in it is open.
LEMMA CloseFlowOrder ==
  ASSUME OneByOne, IInv, OrderInv, NEW h \in Handlers, CloseFlow(h)
  PROVE  OrderInv'
  <1>0. /\ \A g \in Handlers : g = h
        /\ pc[h] # "idle" => Progress(h) /\ Knows(h) /\ job[h] \in Deliveries /\ PR(h) \in PRs
        /\ failures \in Nat /\ MaxFailures = 0
        /\ \A c, steps : InHand(c, steps) <=> pc[h] \in steps /\ chan[h] = c
        /\ pc[h] \in ChannelSteps => chan[h] \in Channels
    BY DeliveryPR DEF OneByOne, OrderInv, Working, IInv, TypeOK, Located, PR, InHand
  <1>. USE <1>0, PRChannelAssumption
  <1>1. CASE ClosePR(h)
    <2>. USE <1>1 DEF ClosePR, Goto, GotoWith, Finish, Return, Raise, PR, Tracked, ghVars,
             dbVars, rowVars, slackVars
    <2>1. \A q \in PRs : q # PR(h) => state'[q] = state[q]
      BY DEF IInv, TypeOK
    <2>2. pc'[h] = "idle" => (state'[PR(h)] = "untracked" \/ state'[PR(h)] = After(job[h]))
      BY DEF IInv, TypeOK, Progress, Written, OpenSteps, StackSteps
    <2>3. ASSUME pc'[h] # "idle" PROVE job'[h] = job[h] /\ Progress(h)'
      BY <2>3 DEF IInv, TypeOK, Located, Progress, Written, OpenSteps, StackSteps,
                 ReopenSteps, From
    <2>4. ASSUME pc'[h] # "idle" PROVE Knows(h)'
      BY <2>4 DEF IInv, TypeOK, Located, Progress, Knows, Written, OrderInv, Open, OpenInChannel,
                 ChannelSteps, Steps, OpenSteps, StackSteps, CloseSteps, ReopenSteps
    <2>5. Open'
      BY DEF IInv, TypeOK, Located, Progress, Knows, Written, OrderInv, Open, InHand, OpenInChannel
    <2>6. Marked'
      BY DEF IInv, TypeOK, Located, Progress, Knows, Written, OrderInv, Open, Marked, InHand
    <2>7. Nowhere'
      BY DEF IInv, TypeOK, OrderInv, Nowhere
    <2>. QED BY <2>1, <2>2, <2>3, <2>4, <2>5, <2>6, <2>7, HandlerOrder
  <1>2. CASE ClosePost(h)
    <2>. USE <1>2 DEF ClosePost, Goto, GotoWith, Finish, Return, Raise, PR, Tracked, ghVars,
             dbVars, rowVars, slackVars
    <2>1. \A q \in PRs : q # PR(h) => state'[q] = state[q]
      BY DEF IInv, TypeOK
    <2>2. pc'[h] = "idle" => (state'[PR(h)] = "untracked" \/ state'[PR(h)] = After(job[h]))
      BY DEF IInv, TypeOK, Progress, Written, OpenSteps, StackSteps
    <2>3. ASSUME pc'[h] # "idle" PROVE job'[h] = job[h] /\ Progress(h)'
      BY <2>3 DEF IInv, TypeOK, Located, Progress, Written, OpenSteps, StackSteps,
                 ReopenSteps, From
    <2>4. ASSUME pc'[h] # "idle" PROVE Knows(h)'
      BY <2>4 DEF IInv, TypeOK, Located, Progress, Knows, Written, OrderInv, Open, OpenInChannel,
                 ChannelSteps, Steps, OpenSteps, StackSteps, CloseSteps, ReopenSteps
    <2>5. Open'
      BY DEF IInv, TypeOK, Located, Progress, Knows, Written, OrderInv, Open, InHand, OpenInChannel
    <2>6. Marked'
      BY DEF IInv, TypeOK, Located, Progress, Knows, Written, OrderInv, Open, Marked, InHand
    <2>7. Nowhere'
      BY DEF IInv, TypeOK, OrderInv, Nowhere
    <2>. QED BY <2>1, <2>2, <2>3, <2>4, <2>5, <2>6, <2>7, HandlerOrder
  <1>3. CASE CountOpen(h)
    <2>. USE <1>3 DEF CountOpen, Goto, GotoWith, Finish, Return, Raise, PR, Tracked, ghVars,
             dbVars, rowVars, slackVars
    <2>1. \A q \in PRs : q # PR(h) => state'[q] = state[q]
      BY DEF IInv, TypeOK
    <2>2. pc'[h] = "idle" => (state'[PR(h)] = "untracked" \/ state'[PR(h)] = After(job[h]))
      BY DEF IInv, TypeOK, Progress, Written, OpenSteps, StackSteps
    <2>3. ASSUME pc'[h] # "idle" PROVE job'[h] = job[h] /\ Progress(h)'
      BY <2>3 DEF IInv, TypeOK, Located, Progress, Written, OpenSteps, StackSteps,
                 ReopenSteps, From
    <2>4. ASSUME pc'[h] # "idle" PROVE Knows(h)'
      BY <2>4 DEF IInv, TypeOK, Located, Progress, Knows, Written, OrderInv, Open, OpenInChannel,
                 ChannelSteps, Steps, OpenSteps, StackSteps, CloseSteps, ReopenSteps
    <2>5. Open'
      BY DEF IInv, TypeOK, Located, Progress, Knows, Written, OrderInv, Open, InHand, OpenInChannel
    <2>6. Marked'
      BY DEF IInv, TypeOK, Located, Progress, Knows, Written, OrderInv, Open, Marked, InHand
    <2>7. Nowhere'
      BY DEF IInv, TypeOK, OrderInv, Nowhere
    <2>. QED BY <2>1, <2>2, <2>3, <2>4, <2>5, <2>6, <2>7, HandlerOrder
  <1>4. CASE ArchiveChannel(h)
    <2>. USE <1>4 DEF ArchiveChannel, Goto, GotoWith, Finish, Return, Raise, PR, Tracked, ghVars,
             dbVars, rowVars, slackVars
    <2>1. \A q \in PRs : q # PR(h) => state'[q] = state[q]
      BY DEF IInv, TypeOK
    <2>2. pc'[h] = "idle" => (state'[PR(h)] = "untracked" \/ state'[PR(h)] = After(job[h]))
      BY DEF IInv, TypeOK, Progress, Written, OpenSteps, StackSteps
    <2>3. ASSUME pc'[h] # "idle" PROVE job'[h] = job[h] /\ Progress(h)'
      BY <2>3 DEF IInv, TypeOK, Located, Progress, Written, OpenSteps, StackSteps,
                 ReopenSteps, From
    <2>4. ASSUME pc'[h] # "idle" PROVE Knows(h)'
      BY <2>4 DEF IInv, TypeOK, Located, Progress, Knows, Written, OrderInv, Open, OpenInChannel,
                 ChannelSteps, Steps, OpenSteps, StackSteps, CloseSteps, ReopenSteps
    <2>5. Open'
      BY DEF IInv, TypeOK, Located, Progress, Knows, Written, OrderInv, Open, InHand, OpenInChannel
    <2>6. Marked'
      BY DEF IInv, TypeOK, Located, Progress, Knows, Written, OrderInv, Open, Marked, InHand
    <2>7. Nowhere'
      BY DEF IInv, TypeOK, OrderInv, Nowhere
    <2>. QED BY <2>1, <2>2, <2>3, <2>4, <2>5, <2>6, <2>7, HandlerOrder
  <1>5. CASE MarkArchived(h)
    <2>. USE <1>5 DEF MarkArchived, SetArchived, Goto, GotoWith, Finish, Return, Raise, PR, Tracked, ghVars,
             dbVars, rowVars, slackVars
    <2>1. \A q \in PRs : q # PR(h) => state'[q] = state[q]
      BY DEF IInv, TypeOK
    <2>2. pc'[h] = "idle" => (state'[PR(h)] = "untracked" \/ state'[PR(h)] = After(job[h]))
      BY DEF IInv, TypeOK, Progress, Written, OpenSteps, StackSteps
    <2>3. ASSUME pc'[h] # "idle" PROVE job'[h] = job[h] /\ Progress(h)'
      BY <2>3 DEF IInv, TypeOK, Located, Progress, Written, OpenSteps, StackSteps,
                 ReopenSteps, From
    <2>4. ASSUME pc'[h] # "idle" PROVE Knows(h)'
      BY <2>4 DEF IInv, TypeOK, Located, Progress, Knows, Written, OrderInv, Open, OpenInChannel,
                 ChannelSteps, Steps, OpenSteps, StackSteps, CloseSteps, ReopenSteps
    <2>5. Open'
      BY DEF IInv, TypeOK, Located, Progress, Knows, Written, OrderInv, Open, InHand, OpenInChannel
    <2>6. Marked'
      BY DEF IInv, TypeOK, Located, Progress, Knows, Written, OrderInv, Open, Marked, InHand
    <2>7. Nowhere'
      BY DEF IInv, TypeOK, OrderInv, Nowhere
    <2>. QED BY <2>1, <2>2, <2>3, <2>4, <2>5, <2>6, <2>7, HandlerOrder
  <1>. QED BY <1>1, <1>2, <1>3, <1>4, <1>5 DEF CloseFlow

\* The reopen flow brings the channel back.
LEMMA ReopenFlowOrder ==
  ASSUME OneByOne, IInv, OrderInv, NEW h \in Handlers, ReopenFlow(h)
  PROVE  OrderInv'
  <1>0. /\ \A g \in Handlers : g = h
        /\ pc[h] # "idle" => Progress(h) /\ Knows(h) /\ job[h] \in Deliveries /\ PR(h) \in PRs
        /\ failures \in Nat /\ MaxFailures = 0
        /\ \A c, steps : InHand(c, steps) <=> pc[h] \in steps /\ chan[h] = c
        /\ pc[h] \in ChannelSteps => chan[h] \in Channels
    BY DeliveryPR DEF OneByOne, OrderInv, Working, IInv, TypeOK, Located, PR, InHand
  <1>. USE <1>0, PRChannelAssumption
  <1>1. CASE Lookup(h)
    <2>. USE <1>1 DEF Lookup, Goto, GotoWith, Finish, Return, Raise, PR, Tracked, ghVars,
             dbVars, rowVars, slackVars
    <2>1. \A q \in PRs : q # PR(h) => state'[q] = state[q]
      BY DEF IInv, TypeOK
    <2>2. pc'[h] = "idle" => (state'[PR(h)] = "untracked" \/ state'[PR(h)] = After(job[h]))
      BY DEF IInv, TypeOK, Progress, Written, OpenSteps, StackSteps
    <2>3. ASSUME pc'[h] # "idle" PROVE job'[h] = job[h] /\ Progress(h)'
      BY <2>3 DEF IInv, TypeOK, Located, Progress, Written, OpenSteps, StackSteps,
                 ReopenSteps, From
    <2>4. ASSUME pc'[h] # "idle" PROVE Knows(h)'
      BY <2>4 DEF IInv, TypeOK, Located, Progress, Knows, Written, OrderInv, Open, OpenInChannel,
                 ChannelSteps, Steps, OpenSteps, StackSteps, CloseSteps, ReopenSteps
    <2>5. Open'
      BY DEF IInv, TypeOK, Located, Progress, Knows, Written, OrderInv, Open, InHand, OpenInChannel
    <2>6. Marked'
      BY DEF IInv, TypeOK, Located, Progress, Knows, Written, OrderInv, Open, Marked, InHand
    <2>7. Nowhere'
      BY DEF IInv, TypeOK, OrderInv, Nowhere
    <2>. QED BY <2>1, <2>2, <2>3, <2>4, <2>5, <2>6, <2>7, HandlerOrder
  <1>2. CASE ReopenPR(h)
    <2>. USE <1>2 DEF ReopenPR, Goto, GotoWith, Finish, Return, Raise, PR, Tracked, ghVars,
             dbVars, rowVars, slackVars
    <2>1. \A q \in PRs : q # PR(h) => state'[q] = state[q]
      BY DEF IInv, TypeOK
    <2>2. pc'[h] = "idle" => (state'[PR(h)] = "untracked" \/ state'[PR(h)] = After(job[h]))
      BY DEF IInv, TypeOK, Progress, Written, OpenSteps, StackSteps
    <2>3. ASSUME pc'[h] # "idle" PROVE job'[h] = job[h] /\ Progress(h)'
      BY <2>3 DEF IInv, TypeOK, Located, Progress, Written, OpenSteps, StackSteps,
                 ReopenSteps, From
    <2>4. ASSUME pc'[h] # "idle" PROVE Knows(h)'
      BY <2>4 DEF IInv, TypeOK, Located, Progress, Knows, Written, OrderInv, Open, OpenInChannel,
                 ChannelSteps, Steps, OpenSteps, StackSteps, CloseSteps, ReopenSteps
    <2>5. Open'
      BY DEF IInv, TypeOK, Located, Progress, Knows, Written, OrderInv, Open, InHand, OpenInChannel
    <2>6. Marked'
      BY DEF IInv, TypeOK, Located, Progress, Knows, Written, OrderInv, Open, Marked, InHand
    <2>7. Nowhere'
      BY DEF IInv, TypeOK, OrderInv, Nowhere
    <2>. QED BY <2>1, <2>2, <2>3, <2>4, <2>5, <2>6, <2>7, HandlerOrder
  <1>3. CASE ReopenUnarchive(h)
    <2>. USE <1>3 DEF ReopenUnarchive, Unarchive, Goto, GotoWith, Finish, Return, Raise, PR, Tracked, ghVars,
             dbVars, rowVars, slackVars
    <2>1. \A q \in PRs : q # PR(h) => state'[q] = state[q]
      BY DEF IInv, TypeOK
    <2>2. pc'[h] = "idle" => (state'[PR(h)] = "untracked" \/ state'[PR(h)] = After(job[h]))
      BY DEF IInv, TypeOK, Progress, Written, OpenSteps, StackSteps
    <2>3. ASSUME pc'[h] # "idle" PROVE job'[h] = job[h] /\ Progress(h)'
      BY <2>3 DEF IInv, TypeOK, Located, Progress, Written, OpenSteps, StackSteps,
                 ReopenSteps, From
    <2>4. ASSUME pc'[h] # "idle" PROVE Knows(h)'
      BY <2>4 DEF IInv, TypeOK, Located, Progress, Knows, Written, OrderInv, Open, OpenInChannel,
                 ChannelSteps, Steps, OpenSteps, StackSteps, CloseSteps, ReopenSteps
    <2>5. Open'
      BY DEF IInv, TypeOK, Located, Progress, Knows, Written, OrderInv, Open, InHand, OpenInChannel
    <2>6. Marked'
      BY DEF IInv, TypeOK, Located, Progress, Knows, Written, OrderInv, Open, Marked, InHand
    <2>7. Nowhere'
      BY DEF IInv, TypeOK, OrderInv, Nowhere
    <2>. QED BY <2>1, <2>2, <2>3, <2>4, <2>5, <2>6, <2>7, HandlerOrder
  <1>4. CASE MarkLive(h)
    <2>. USE <1>4 DEF MarkLive, SetArchived, Goto, GotoWith, Finish, Return, Raise, PR, Tracked, ghVars,
             dbVars, rowVars, slackVars
    <2>1. \A q \in PRs : q # PR(h) => state'[q] = state[q]
      BY DEF IInv, TypeOK
    <2>2. pc'[h] = "idle" => (state'[PR(h)] = "untracked" \/ state'[PR(h)] = After(job[h]))
      BY DEF IInv, TypeOK, Progress, Written, OpenSteps, StackSteps
    <2>3. ASSUME pc'[h] # "idle" PROVE job'[h] = job[h] /\ Progress(h)'
      BY <2>3 DEF IInv, TypeOK, Located, Progress, Written, OpenSteps, StackSteps,
                 ReopenSteps, From
    <2>4. ASSUME pc'[h] # "idle" PROVE Knows(h)'
      BY <2>4 DEF IInv, TypeOK, Located, Progress, Knows, Written, OrderInv, Open, OpenInChannel,
                 ChannelSteps, Steps, OpenSteps, StackSteps, CloseSteps, ReopenSteps
    <2>5. Open'
      BY DEF IInv, TypeOK, Located, Progress, Knows, Written, OrderInv, Open, InHand, OpenInChannel
    <2>6. Marked'
      BY DEF IInv, TypeOK, Located, Progress, Knows, Written, OrderInv, Open, Marked, InHand
    <2>7. Nowhere'
      BY DEF IInv, TypeOK, OrderInv, Nowhere
    <2>. QED BY <2>1, <2>2, <2>3, <2>4, <2>5, <2>6, <2>7, HandlerOrder
  <1>5. CASE ReopenPost(h)
    <2>. USE <1>5 DEF ReopenPost, Goto, GotoWith, Finish, Return, Raise, PR, Tracked, ghVars,
             dbVars, rowVars, slackVars
    <2>1. \A q \in PRs : q # PR(h) => state'[q] = state[q]
      BY DEF IInv, TypeOK
    <2>2. pc'[h] = "idle" => (state'[PR(h)] = "untracked" \/ state'[PR(h)] = After(job[h]))
      BY DEF IInv, TypeOK, Progress, Written, OpenSteps, StackSteps
    <2>3. ASSUME pc'[h] # "idle" PROVE job'[h] = job[h] /\ Progress(h)'
      BY <2>3 DEF IInv, TypeOK, Located, Progress, Written, OpenSteps, StackSteps,
                 ReopenSteps, From
    <2>4. ASSUME pc'[h] # "idle" PROVE Knows(h)'
      BY <2>4 DEF IInv, TypeOK, Located, Progress, Knows, Written, OrderInv, Open, OpenInChannel,
                 ChannelSteps, Steps, OpenSteps, StackSteps, CloseSteps, ReopenSteps
    <2>5. Open'
      BY DEF IInv, TypeOK, Located, Progress, Knows, Written, OrderInv, Open, InHand, OpenInChannel
    <2>6. Marked'
      BY DEF IInv, TypeOK, Located, Progress, Knows, Written, OrderInv, Open, Marked, InHand
    <2>7. Nowhere'
      BY DEF IInv, TypeOK, OrderInv, Nowhere
    <2>. QED BY <2>1, <2>2, <2>3, <2>4, <2>5, <2>6, <2>7, HandlerOrder
  <1>. QED BY <1>1, <1>2, <1>3, <1>4, <1>5 DEF ReopenFlow

LEMMA OrderInit == Init => OrderInv
  <1>. SUFFICES ASSUME Init PROVE OrderInv
    OBVIOUS
  <1>. USE DEF Init, Tracked
  <1>1. Queue /\ CaughtUp
    BY DEF Queue, CaughtUp
  <1>2. Working /\ Open /\ Marked /\ Nowhere
    BY DEF Working, Open, Marked, Nowhere
  <1>. QED BY <1>1, <1>2 DEF OrderInv

LEMMA OrderUnchanged == OrderInv /\ UNCHANGED vars => OrderInv'
  <1>. SUFFICES ASSUME OrderInv, UNCHANGED vars PROVE OrderInv'
    OBVIOUS
  <1>. USE DEF OrderInv, vars, ghVars, dbVars, rowVars, slackVars, handlerVars
  <1>1. Queue'
    BY DEF Queue, From
  <1>2. CaughtUp'
    BY DEF CaughtUp, From, AtWork, Tracked, PR
  <1>3. Working'
    BY DEF Working, Progress, Knows, From, Tracked, PR, OpenInChannel
  <1>4. (Open /\ Marked /\ Nowhere)'
    BY DEF Open, Marked, Nowhere, InHand, Tracked
  <1>. QED BY <1>1, <1>2, <1>3, <1>4

LEMMA OrderStep ==
  ASSUME OneByOne
  PROVE  IInv /\ OrderInv /\ [Next]_vars => OrderInv'
  <1>. SUFFICES ASSUME IInv, OrderInv, [Next]_vars PROVE OrderInv'
    OBVIOUS
  <1>1. CASE UNCHANGED vars
    BY <1>1, OrderUnchanged
  <1>2. CASE GitHub
    BY <1>2, GitHubOrder
  <1>3. ASSUME NEW h \in Handlers, Step(h) PROVE OrderInv'
    BY <1>3, ReceiveOrder, OpenFlowOrder, StackFlowOrder, CloseFlowOrder, ReopenFlowOrder
       DEF Step
  <1>4. \A h \in Handlers : ~Die(h)
    BY DEF Die, OneByOne, IInv, TypeOK
  <1>. QED BY <1>1, <1>2, <1>3, <1>4 DEF Next

\* With nothing to do the invariant leaves no room for a difference.
LEMMA OrderSettles == IInv /\ OrderInv => Settled
  <1>. SUFFICES ASSUME IInv, OrderInv, Quiescent
       PROVE  /\ \A p \in PRs : Tracked(p) => state[p] = github[p]
              /\ \A c \in Channels : owner[c] # None =>
                   (isArchived[c] <=> slack[c] = "archived")
    BY DEF Settled
  <1>1. \A p \in PRs : ~AtWork(p)
    BY DEF Quiescent, AtWork
  <1>2. \A p \in PRs : Tracked(p) => state[p] = github[p]
    BY <1>1 DEF OrderInv, CaughtUp, From, Quiescent
  <1>3. \A c : ~InHand(c, {"unarchive", "markArchived", "markLive"})
    BY DEF Quiescent, InHand
  <1>. QED BY <1>2, <1>3 DEF OrderInv, Marked

-----------------------------------------------------------------------------
(* StackChannel *)

\* StackChannel's variables seen in PRChannel's.
Members == [c \in Channels |-> {p \in PRs : channelOf[p] = c}]
OpenPRs == {p \in PRs : state[p] = "open"}

LEMMA PromiseInit == Init => Promise!Init
BY PRChannelAssumption DEF Init, Promise!Init

\* A step that StackChannel does not see.
LEMMA PromiseStutter ==
  ASSUME slack' = slack, channelOf' = channelOf, OpenPRs' = OpenPRs
  PROVE  UNCHANGED Promise!vars
BY DEF Promise!vars, OpenPRs

\* A row is inserted: the pull request joins the channel.
LEMMA PromiseJoins ==
  \A p \in PRs, c \in Channels : \A t :
    IInv /\ OrderInv /\ ~Tracked(p) /\ InsertRow(p, c, t) /\ slack' = slack /\ slack[c] = "live"
      => Promise!Next
  <1>. SUFFICES ASSUME NEW p \in PRs, NEW c \in Channels, NEW t,
                       IInv, OrderInv, ~Tracked(p), InsertRow(p, c, t),
                       slack' = slack, slack[c] = "live"
                PROVE  Promise!Join(p, c)
    BY DEF Promise!Next
  <1>. USE DEF IInv, TypeOK, InsertRow, Tracked
  <1>1. \A other \in Channels : p \notin Members[other]
    BY PRChannelAssumption DEF OrderInv, Nowhere, Members
  <1>2. Members' = [Members EXCEPT ![c] = @ \cup {p}]
    <2>1. channelOf[p] = None
      BY DEF OrderInv, Nowhere
    <2>2. ASSUME NEW x \in Channels
          PROVE  Members'[x] = [Members EXCEPT ![c] = @ \cup {p}][x]
      BY <2>1, PRChannelAssumption DEF Members
    <2>. QED BY <2>2 DEF Members
  <1>3. OpenPRs' = OpenPRs \cup {p}
    BY DEF OpenPRs
  <1>. QED BY <1>1, <1>2, <1>3 DEF Promise!Join, Members, OpenPRs

\* The steps that leave channels, rows and states as they are.
LEMMA PromiseQuiet ==
  ASSUME UNCHANGED <<rowVars, slack>>
  PROVE  UNCHANGED Promise!vars
BY PromiseStutter DEF rowVars, OpenPRs

\* The open flow creates a channel, then joins it.
LEMMA PromiseOpens ==
  ASSUME OneByOne, IInv, OrderInv, NEW h \in Handlers, OpenFlow(h)
  PROVE  [Promise!Next]_(Promise!vars)
  <1>. USE DEF ghVars, dbVars, slackVars
  <1>0. /\ job[h] \in Deliveries /\ PR(h) \in PRs /\ Progress(h) /\ Knows(h)
        /\ pc[h] \in ChannelSteps => chan[h] \in Channels
        /\ ChannelSteps = Steps \ {"check", "findParent", "close", "lookup", "reopen"}
    <2>1. pc[h] # "idle"
      BY DEF OpenFlow, CheckTracked, FindParent, CreateChannel, SetUpChannel, InsertOwner
    <2>. QED BY <2>1, DeliveryPR DEF OrderInv, Working, IInv, TypeOK, Located, PR, ChannelSteps
  <1>1. CASE CheckTracked(h)
    BY <1>1, PromiseQuiet DEF CheckTracked
  <1>2. CASE FindParent(h)
    BY <1>2, PromiseQuiet DEF FindParent
  <1>3. CASE CreateChannel(h)
    <2>1. chan[h] \in Channels
      BY <1>0, <1>3 DEF CreateChannel, Steps, OpenSteps
    <2>2. CASE slack[chan[h]] = "absent"
      <3>1. Promise!Create(chan[h])
        BY <1>3, <2>1, <2>2 DEF CreateChannel, Promise!Create, rowVars
      <3>. QED BY <2>1, <3>1 DEF Promise!Next
    <2>3. CASE slack[chan[h]] # "absent"
      <3>1. slack' = slack
        BY <1>3, <2>1, <2>3 DEF CreateChannel, IInv, TypeOK
      <3>. QED BY <1>3, <3>1, PromiseQuiet DEF CreateChannel
    <2>. QED BY <2>2, <2>3
  <1>4. CASE SetUpChannel(h)
    BY <1>4, PromiseQuiet DEF SetUpChannel
  <1>5. CASE InsertOwner(h)
    <2>1. chan[h] \in Channels /\ slack[chan[h]] = "live"
      BY <1>0, <1>5 DEF InsertOwner, Steps, OpenSteps, Knows
    <2>2. CASE CanInsertOwner(PR(h), chan[h])
      <3>1. ~Tracked(PR(h)) /\ InsertRow(PR(h), chan[h], 0) /\ slack' = slack
        BY <1>5, <2>2 DEF InsertOwner, CanInsertOwner, Tracked
      <3>. QED BY <1>0, <2>1, <3>1, PromiseJoins
    <2>3. CASE ~CanInsertOwner(PR(h), chan[h])
      BY <1>5, <2>3, PromiseQuiet DEF InsertOwner
    <2>. QED BY <2>2, <2>3
  <1>. QED BY <1>1, <1>2, <1>3, <1>4, <1>5 DEF OpenFlow

\* The stack flow joins a channel, or unarchives it.
LEMMA PromiseStacks ==
  ASSUME OneByOne, IInv, OrderInv, NEW h \in Handlers, StackFlow(h)
  PROVE  [Promise!Next]_(Promise!vars)
  <1>. USE DEF ghVars, dbVars, slackVars
  <1>0. /\ job[h] \in Deliveries /\ PR(h) \in PRs /\ Progress(h) /\ Knows(h)
        /\ chan[h] \in Channels
    <2>1. pc[h] \in StackSteps
      BY DEF StackFlow, JoinUnarchive, PostParent, JoinInsert, JoinInsertFails,
             JoinInsertUnanswered, UndoParent, StackSteps
    <2>. QED BY <2>1, DeliveryPR DEF OrderInv, Working, IInv, TypeOK, Located, PR,
             ChannelSteps, Steps, StackSteps
  <1>1. CASE JoinUnarchive(h)
    <2>1. slack' = slack
      BY <1>0, <1>1 DEF JoinUnarchive, Unarchive, Knows, IInv, TypeOK
    <2>. QED BY <1>1, <2>1, PromiseQuiet DEF JoinUnarchive, Unarchive
  <1>2. CASE PostParent(h)
    BY <1>2, PromiseQuiet DEF PostParent
  <1>3. CASE JoinInsert(h)
    <2>1. slack[chan[h]] = "live" /\ slack' = slack
      BY <1>0, <1>3 DEF JoinInsert, Knows
    <2>2. ~Tracked(PR(h))
      BY <1>0, <1>3 DEF JoinInsert, Progress, StackSteps
    <2>3. InsertRow(PR(h), chan[h], ts[h])
      BY <1>3, <2>2 DEF JoinInsert, Tracked
    <2>. QED BY <1>0, <2>1, <2>2, <2>3, PromiseJoins
  <1>4. CASE JoinInsertFails(h)
    BY <1>4, PromiseQuiet DEF JoinInsertFails
  <1>5. CASE JoinInsertUnanswered(h)
    BY <1>5 DEF JoinInsertUnanswered, OneByOne, IInv, TypeOK
  <1>6. CASE UndoParent(h)
    BY <1>6, PromiseQuiet DEF UndoParent
  <1>. QED BY <1>1, <1>2, <1>3, <1>4, <1>5, <1>6 DEF StackFlow

\* The close flow closes the pull request and archives the channel.
LEMMA PromiseCloses ==
  ASSUME OneByOne, IInv, OrderInv, NEW h \in Handlers, CloseFlow(h)
  PROVE  [Promise!Next]_(Promise!vars)
  <1>. USE DEF ghVars, dbVars, slackVars
  <1>0. /\ job[h] \in Deliveries /\ PR(h) \in PRs /\ Progress(h) /\ Knows(h)
        /\ pc[h] \in ChannelSteps => chan[h] \in Channels
    <2>1. pc[h] # "idle"
      BY DEF CloseFlow, ClosePR, ClosePost, CountOpen, ArchiveChannel, MarkArchived
    <2>. QED BY <2>1, DeliveryPR DEF OrderInv, Working, IInv, TypeOK, Located, PR
  <1>1. CASE ClosePR(h)
    <2>1. CASE state[PR(h)] = "untracked"
      BY <1>1, <2>1, PromiseQuiet DEF ClosePR, rowVars
    <2>2. CASE state[PR(h)] # "untracked"
      <3>1. PICK p \in PRs : p = PR(h)
        BY <1>0
      <3>2. OpenPRs' = OpenPRs \ {p}
        BY <1>1, <2>2, <3>1 DEF ClosePR, OpenPRs, IInv, TypeOK
      <3>3. Promise!Close(p)
        BY <1>1, <3>2 DEF ClosePR, OpenPRs, Promise!Close
      <3>. QED BY <3>3 DEF Promise!Next
    <2>. QED BY <2>1, <2>2
  <1>2. CASE ClosePost(h)
    BY <1>2, PromiseQuiet DEF ClosePost
  <1>3. CASE CountOpen(h)
    BY <1>3, PromiseQuiet DEF CountOpen
  <1>4. CASE ArchiveChannel(h)
    <2>1. /\ chan[h] \in Channels /\ slack[chan[h]] = "live" /\ OpenInChannel(chan[h]) = {}
          /\ chan[h] = channelOf[PR(h)]
      BY <1>0, <1>4 DEF ArchiveChannel, ChannelSteps, Steps, CloseSteps, Knows, Progress, Written
    <2>2. PICK c \in Channels : c = chan[h]
      BY <2>1
    <2>3. Members[c] # {} /\ Members[c] \cap OpenPRs = {}
      BY <1>0, <2>1, <2>2 DEF Members, OpenPRs, OpenInChannel
    <2>4. slack' = [slack EXCEPT ![c] = "archived"] /\ UNCHANGED rowVars
      BY <1>4, <2>1, <2>2 DEF ArchiveChannel
    <2>5. Promise!Archive(c)
      BY <2>1, <2>2, <2>3, <2>4 DEF Promise!Archive, Promise!OpenMembers, Members, OpenPRs, rowVars
    <2>. QED BY <2>2, <2>5 DEF Promise!Next
  <1>5. CASE MarkArchived(h)
    BY <1>5, PromiseQuiet DEF MarkArchived
  <1>. QED BY <1>1, <1>2, <1>3, <1>4, <1>5 DEF CloseFlow

\* The reopen flow reopens it and unarchives the channel.
LEMMA PromiseReopens ==
  ASSUME OneByOne, IInv, OrderInv, NEW h \in Handlers, ReopenFlow(h)
  PROVE  [Promise!Next]_(Promise!vars)
  <1>. USE DEF ghVars, dbVars, slackVars
  <1>0. /\ job[h] \in Deliveries /\ PR(h) \in PRs /\ Progress(h) /\ Knows(h)
        /\ pc[h] \in ChannelSteps => chan[h] \in Channels
        /\ pc[h] = "reopen" => Tracked(PR(h))
        /\ Tracked(PR(h)) => channelOf[PR(h)] \in Channels
        /\ Tracked(PR(h)) => slack[channelOf[PR(h)]] # "absent"
    <2>1. pc[h] # "idle"
      BY DEF ReopenFlow, Lookup, ReopenPR, ReopenUnarchive, MarkLive, ReopenPost
    <2>. QED BY <2>1, DeliveryPR DEF OrderInv, Working, Open, IInv, TypeOK, Located, PR
  <1>1. CASE Lookup(h)
    BY <1>1, PromiseQuiet DEF Lookup
  <1>2. CASE ReopenPR(h)
    <2>1. channelOf[PR(h)] \in Channels
      BY <1>0, <1>2 DEF ReopenPR
    <2>2. PICK p \in PRs : p = PR(h)
      BY <1>0
    <2>3. \E c \in Channels : p \in Members[c]
      BY <2>1, <2>2 DEF Members
    <2>4. OpenPRs' = OpenPRs \cup {p}
      BY <1>2, <2>2 DEF ReopenPR, OpenPRs, IInv, TypeOK
    <2>5. Promise!Reopen(p)
      BY <1>2, <2>3, <2>4 DEF ReopenPR, Members, OpenPRs, Promise!Reopen
    <2>. QED BY <2>5 DEF Promise!Next
  <1>3. CASE ReopenUnarchive(h)
    <2>1. /\ chan[h] \in Channels /\ chan[h] = channelOf[PR(h)]
          /\ Tracked(PR(h)) /\ state[PR(h)] = After(job[h])
      BY <1>0, <1>3 DEF ReopenUnarchive, ChannelSteps, Steps, ReopenSteps, Progress, Written
    <2>2. After(job[h]) = "open"
      BY <1>0, <1>3 DEF ReopenUnarchive, Progress, ReopenSteps
    <2>3. PICK c \in Channels : c = chan[h]
      BY <2>1
    <2>4. Members[c] \cap OpenPRs # {}
      BY <1>0, <2>1, <2>2, <2>3 DEF Members, OpenPRs
    <2>5. failures \in Nat /\ MaxFailures = 0
      BY DEF OneByOne, IInv, TypeOK
    <2>6. slack' = [slack EXCEPT ![c] = "live"] /\ UNCHANGED rowVars
      BY <1>3, <2>3, <2>5 DEF ReopenUnarchive, Unarchive
    <2>7. CASE slack[c] = "archived"
      <3>1. Promise!Unarchive(c)
        BY <2>4, <2>6, <2>7
           DEF Promise!Unarchive, Promise!OpenMembers, Members, OpenPRs, rowVars
      <3>. QED BY <2>3, <3>1 DEF Promise!Next
    <2>8. CASE slack[c] = "live"
      <3>1. slack' = slack
        BY <2>6, <2>8 DEF IInv, TypeOK
      <3>. QED BY <2>6, <3>1, PromiseQuiet
    <2>. QED BY <1>0, <2>1, <2>3, <2>7, <2>8 DEF IInv, TypeOK
  <1>4. CASE MarkLive(h)
    BY <1>4, PromiseQuiet DEF MarkLive
  <1>5. CASE ReopenPost(h)
    BY <1>5, PromiseQuiet DEF ReopenPost
  <1>. QED BY <1>1, <1>2, <1>3, <1>4, <1>5 DEF ReopenFlow

LEMMA PromiseStep ==
  ASSUME OneByOne
  PROVE  IInv /\ OrderInv /\ [Next]_vars => [Promise!Next]_(Promise!vars)
  <1>. SUFFICES ASSUME IInv, OrderInv, [Next]_vars PROVE [Promise!Next]_(Promise!vars)
    OBVIOUS
  <1>1. CASE UNCHANGED vars
    BY <1>1, PromiseQuiet DEF vars, dbVars, slackVars
  <1>2. CASE GitHub
    BY <1>2, PromiseQuiet DEF GitHub, dbVars, slackVars
  <1>3. ASSUME NEW h \in Handlers, NEW d \in inbox, Receive(h, d)
        PROVE  [Promise!Next]_(Promise!vars)
    BY <1>3, PromiseQuiet DEF Receive, dbVars, slackVars
  <1>4. ASSUME NEW h \in Handlers, Step(h) PROVE [Promise!Next]_(Promise!vars)
    BY <1>3, <1>4, PromiseOpens, PromiseStacks, PromiseCloses, PromiseReopens DEF Step
  <1>5. \A h \in Handlers : ~Die(h)
    BY DEF Die, OneByOne, IInv, TypeOK
  <1>. QED BY <1>1, <1>2, <1>4, <1>5 DEF Next

-----------------------------------------------------------------------------
(* Theorems *)

\* The inductive invariant holds throughout.
THEOREM Invariance == Spec => []IInv
BY InitInvariant, StepInvariant, PTL DEF Spec

\* Every variable keeps its type.  For the parent messages and the rows this
\* takes Located: a handler that posts or writes has a channel.
THEOREM TypeCorrect == Spec => []TypeOK
  <1>1. IInv => TypeOK
    BY DEF IInv
  <1>. QED BY <1>1, Invariance, PTL

\* A channel has one owner, the pull request its SlackChannel row names,
\* whatever the names collide on and however many copies of the open flow race.
THEOREM OneOwner == Spec => []OwnerConsistent
  <1>1. IInv => OwnerConsistent
    BY DEF IInv
  <1>. QED BY <1>1, Invariance, PTL

\* The message that a stacked pull request's row points to is never removed by
\* the clean-up of another copy of the open flow: the one thing that removes it
\* is an insert of that very row which committed and was reported as failed.
THEOREM ThreadsLive == Spec => []StackedThreadsLive
  <1>1. IInv => StackedThreadsLive
    BY DEF IInv
  <1>. QED BY <1>1, Invariance, PTL

\* Unless something other than a constraint fails, no parent message is left
\* without a row or a handler that answers for it.
THEOREM NoOrphans == Spec => []NoOrphanedParent
  <1>1. Init => NoOrphanedParent
    BY DEF Init, NoOrphanedParent
  <1>. QED BY <1>1, NoOrphanStep, Invariance, PTL DEF Spec

\* When deliveries are handled one at a time, in the order GitHub sent them,
\* and nothing fails, whenever all is handled the database agrees with GitHub
\* and with Slack.
THEOREM InOrderSettles ==
  ASSUME OneByOne
  PROVE  Spec => []Settled
  <1>1. IInv /\ OrderInv /\ [Next]_vars => OrderInv'
    BY OrderStep
  <1>. QED BY <1>1, OrderInit, Invariance, OrderSettles, PTL DEF Spec

\* Under the same conditions every step is a step of StackChannel or none.
THEOREM KeepsPromiseSteps ==
  ASSUME OneByOne
  PROVE  Spec => Promise!Init /\ [][Promise!Next]_(Promise!vars)
  <1>1. IInv /\ OrderInv /\ [Next]_vars => OrderInv'
    BY OrderStep
  <1>2. IInv /\ OrderInv /\ [Next]_vars => [Promise!Next]_(Promise!vars)
    BY PromiseStep
  <1>. QED BY <1>1, <1>2, OrderInit, PromiseInit, Invariance, PTL DEF Spec
=============================================================================
