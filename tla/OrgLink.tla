------------------------------- MODULE OrgLink -------------------------------
(***************************************************************************)
(* The rows of `organizations`, where a GitHub installation and a Slack    *)
(* workspace meet: the installation webhooks (installation_service.py),    *)
(* the row an opened pull request back-fills (channel_manager.py), Slack's *)
(* OAuth callback, the user's GitHub connection and the "Link              *)
(* organization" button (auth.py), and the queries below them.             *)
(*                                                                         *)
(* Each query is one transaction that selects rows and then writes; the    *)
(* database runs it under READ COMMITTED, so another may commit between    *)
(* its select and its write.                                               *)
(***************************************************************************)
EXTENDS Naturals, Sequences, FiniteSets

CONSTANTS
  Requests,     \* webhooks and OAuth callbacks handled together
  GitHubOrgs,   \* GitHub organisations, positive numbers
  Teams,        \* Slack workspaces
  Null,         \* SQL NULL, Python None
  MaxInstalls,  \* bound: how often each organisation installs the app
  MaxRequests   \* bound: webhooks and OAuth callbacks

ASSUME OrgLinkAssumption == Null \notin Teams

VARIABLES
  installs,     \* GitHub: each organisation's installations so far
  rowsOf,       \* the table organizations, by id
  prOrg,        \* the row each organisation's tracked pull request belongs to
  userOrg,      \* the row the connected user belongs to, 0 while there is none
  tx,           \* what each request is at
  requests,     \* how many there have been
  overwritten,  \* organisations whose row a link gave to another one
  unmerged      \* links that ended and left two rows

orgVars == <<installs, rowsOf, prOrg, userOrg, tx, requests, overwritten, unmerged>>

\* A row that only Slack knows has zeroes for its GitHub columns.
Placeholder == 0
OrgRows == [gh : GitHubOrgs \cup {Placeholder}, install : Nat,
            team : Teams \cup {Null}, token : BOOLEAN, live : BOOLEAN]
NoTx == [at |-> "rest", op |-> Null, gh |-> Placeholder, install |-> 0,
         team |-> Null, ghRow |-> 0, slackRow |-> 0]

OrgInit ==
  /\ installs = [g \in GitHubOrgs |-> 0]
  /\ rowsOf = <<>>
  /\ prOrg = [g \in GitHubOrgs |-> 0] /\ userOrg = 0
  /\ tx = [r \in Requests |-> NoTx] /\ requests = 0
  /\ overwritten = {} /\ unmerged = {}

-----------------------------------------------------------------------------
(* The table *)

Live(table) == {i \in DOMAIN table : table[i].live}

\* unique: github_org_id, slack_team_id unless NULL, and the installation, whose
\* number here is its organisation's.
Same(a, b) == a.gh = b.gh \/ (a.team # Null /\ a.team = b.team)
Unique(table) ==
  \A i, j \in Live(table) : i # j => ~Same(table[i], table[j])

IdOf(found) == IF found = {} THEN 0 ELSE CHOOSE i \in found : TRUE
RowOfOrg(g) == IdOf({i \in Live(rowsOf) : rowsOf[i].gh = g})
RowOfTeam(t) == IdOf({i \in Live(rowsOf) : rowsOf[i].team = t})
\* Seeded fault: any row with a Slack token is taken.
RowOfAnyToken(g, n) == IdOf({i \in Live(rowsOf) : rowsOf[i].token})

RowOfInstallation(g, n) ==
  IdOf({i \in Live(rowsOf) : rowsOf[i].gh = g /\ rowsOf[i].install = n})

New(g, n, t, token) ==
  [gh |-> g, install |-> n, team |-> t, token |-> token, live |-> TRUE]

-----------------------------------------------------------------------------
(* What reaches the service *)

Installs(g) ==
  /\ installs[g] < MaxInstalls
  /\ installs' = [installs EXCEPT ![g] = @ + 1]
  /\ UNCHANGED <<rowsOf, prOrg, userOrg, tx, requests, overwritten, unmerged>>

\* A request begins with its select.
Begin(r, t) ==
  /\ tx[r].at = "rest"
  /\ requests < MaxRequests /\ requests' = requests + 1
  /\ tx' = [tx EXCEPT ![r] = t]
  /\ UNCHANGED <<installs, rowsOf, prOrg, userOrg, overwritten, unmerged>>

\* installation.created and unsuspend: upsert_organization.
Installed(r, g, n) ==
  Begin(r, [NoTx EXCEPT !.at = "write", !.op = "upsert", !.gh = g,
                        !.install = n, !.ghRow = RowOfOrg(g)])

\* A pull request opens: the row of its installation, or a back-filled one.
Opened(r, g, n) ==
  LET row == RowOfInstallation(g, n)
  IN Begin(r, [NoTx EXCEPT !.at = IF row = 0 THEN "select" ELSE "track",
                           !.op = "backfill", !.gh = g, !.install = n,
                           !.ghRow = row])

\* /auth/slack/callback: upsert_org_slack.
SlackInstalled(r, t) ==
  Begin(r, [NoTx EXCEPT !.at = "write", !.op = "slack", !.team = t,
                        !.slackRow = RowOfTeam(t)])

\* "Link organization", by a user who sees one installation.
Link(r, g, t) ==
  /\ installs[g] > 0
  /\ Begin(r, [NoTx EXCEPT !.at = "write", !.op = "link", !.gh = g,
                           !.install = installs[g], !.team = t,
                           !.ghRow = RowOfInstallation(g, installs[g]),
                           !.slackRow = RowOfTeam(t)])

\* /auth/github/callback: the row of one of the user's organisations, else the
\* row of the workspace the user came from.  A user who is known stays put.
ConnectGitHub(r, g, t) ==
  LET row == IF RowOfOrg(g) # 0 THEN RowOfOrg(g) ELSE RowOfTeam(t)
  IN /\ row # 0
     /\ Begin(r, [NoTx EXCEPT !.at = "user", !.op = "connect", !.ghRow = row])

-----------------------------------------------------------------------------
(* Their writes *)

End(r) == tx' = [tx EXCEPT ![r] = NoTx]

\* The back-fill's own select.
Select(r) ==
  /\ tx[r].at = "select"
  /\ tx' = [tx EXCEPT ![r].at = "write", ![r].ghRow = RowOfOrg(tx[r].gh)]
  /\ UNCHANGED <<installs, rowsOf, prOrg, userOrg, requests, overwritten, unmerged>>

\* The table after each statement of the transaction.  A flush sends its
\* UPDATEs before its DELETEs, so the merge gives the workspace to the GitHub
\* row while the Slack row still has it.
Statements(q) ==
  LET g == q.ghRow  s == q.slackRow
      renewed == [rowsOf EXCEPT ![g].install = q.install]
      moved   == [rowsOf EXCEPT ![g].team = rowsOf[s].team, ![g].token = rowsOf[s].token]
      filled  == [rowsOf EXCEPT ![s].gh = q.gh, ![s].install = q.install]
      refreshed == [rowsOf EXCEPT ![s].token = TRUE]
  IN CASE q.op \in {"upsert", "backfill"} ->
            <<IF g # 0 THEN renewed ELSE Append(rowsOf, New(q.gh, q.install, Null, FALSE))>>
       [] q.op = "slack" ->
            <<IF s # 0 THEN refreshed ELSE Append(rowsOf, New(Placeholder, 0, q.team, TRUE))>>
       [] q.op = "link" /\ g # 0 /\ s # 0 /\ g # s ->
            <<moved, [moved EXCEPT ![s].live = FALSE]>>
       [] q.op = "link" /\ g # 0 /\ (s = 0 \/ g = s) -> <<rowsOf>>
       [] q.op = "link" /\ g = 0 /\ s # 0 -> <<filled>>
       [] OTHER -> <<Append(rowsOf, New(q.gh, q.install, q.team, FALSE))>>

Merges(q) == q.op = "link" /\ q.ghRow # 0 /\ q.slackRow # 0 /\ q.ghRow # q.slackRow

\* Seeded fault: the row before the new one is returned.
InsertedBefore(table) == Len(table) - 1

Inserted(table) == Len(table)

\* The transaction commits; a back-fill goes on with the row it wrote.
CommitTx(r) ==
  LET q == tx[r]
      steps == Statements(q)
      after == steps[Len(steps)]
      move(row) == IF Merges(q) /\ row = q.slackRow THEN q.ghRow ELSE row
  IN /\ q.at = "write"
     /\ \A i \in DOMAIN steps : Unique(steps[i])
     /\ rowsOf' = after
     /\ prOrg' = [g \in GitHubOrgs |-> move(prOrg[g])]
     /\ userOrg' = move(userOrg)
     /\ overwritten' = overwritten \cup
          {rowsOf[i].gh : i \in {j \in DOMAIN rowsOf : rowsOf[j].gh # after[j].gh}}
     /\ tx' = [tx EXCEPT ![r] =
          IF q.op # "backfill" THEN NoTx
          ELSE [q EXCEPT !.at = "track",
                         !.ghRow = IF q.ghRow # 0 THEN q.ghRow ELSE Inserted(after)]]
     /\ UNCHANGED <<installs, requests, unmerged>>

\* A statement breaks a unique constraint: the transaction is rolled back and
\* the request fails.
WriteFails(r) ==
  LET q == tx[r]
      steps == Statements(q)
  IN /\ q.at = "write"
     /\ \E i \in DOMAIN steps : ~Unique(steps[i])
     /\ End(r)
     /\ unmerged' = IF Merges(q) /\ \A o \in Requests \ {r} : tx[o].at = "rest"
                    THEN unmerged \cup {<<q.gh, q.team>>} ELSE unmerged
     /\ UNCHANGED <<installs, rowsOf, prOrg, userOrg, requests, overwritten>>

\* The pull request's row names the organisation; without a bot token there is
\* no channel and no row.
Track(r) ==
  LET q == tx[r]
  IN /\ q.at = "track"
     /\ prOrg' = IF rowsOf[q.ghRow].token /\ prOrg[q.gh] = 0
                 THEN [prOrg EXCEPT ![q.gh] = q.ghRow] ELSE prOrg
     /\ End(r)
     /\ UNCHANGED <<installs, rowsOf, userOrg, requests, overwritten, unmerged>>

\* upsert_user.
SaveUser(r) ==
  /\ tx[r].at = "user"
  /\ userOrg' = IF userOrg = 0 THEN tx[r].ghRow ELSE userOrg
  /\ End(r)
  /\ UNCHANGED <<installs, rowsOf, prOrg, requests, overwritten, unmerged>>

OrgNext ==
  \/ \E g \in GitHubOrgs : Installs(g)
  \/ \E r \in Requests :
       \/ \E g \in GitHubOrgs : \E n \in 1..installs[g] :
            Installed(r, g, n) \/ Opened(r, g, n)
       \/ \E t \in Teams : SlackInstalled(r, t)
       \/ \E g \in GitHubOrgs, t \in Teams : Link(r, g, t) \/ ConnectGitHub(r, g, t)
       \/ Select(r) \/ CommitTx(r) \/ WriteFails(r) \/ Track(r) \/ SaveUser(r)

OrgSpec == OrgInit /\ [][OrgNext]_orgVars

-----------------------------------------------------------------------------
(* Properties *)

\* The variables have their types, the table keeps its unique columns, and every
\* reference names a row that is there.
OrgTypeOK ==
  /\ rowsOf \in Seq(OrgRows) /\ Unique(rowsOf)
  /\ \A g \in GitHubOrgs : prOrg[g] # 0 => prOrg[g] \in Live(rowsOf)
  /\ userOrg # 0 => userOrg \in Live(rowsOf)
  /\ \A r \in Requests : tx[r].at = "track" => tx[r].ghRow \in Live(rowsOf)

\* A pull request belongs to the row of the GitHub organisation it is in, whose
\* installation and bot token are used to act for it, unless a link gave that
\* row to another organisation (queries.py:369-372 overwrites whatever the
\* workspace was linked to).
PRsStayHome ==
  \A g \in GitHubOrgs :
    prOrg[g] # 0 /\ g \notin overwritten => rowsOf[prOrg[g]].gh = g

\* "if there's exactly one match the rows are merged automatically"
\* (README.md:150), and link_installation_to_slack_team's case 3: a link request
\* that finds the two rows, undisturbed by any other request, leaves one.
LinkMerges == unmerged = {}
=============================================================================
