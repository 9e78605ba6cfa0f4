---------------------------- MODULE AccountsProofs ----------------------------
(***************************************************************************)
(* What holds of UserTokens for any number of callers and of tokens, and    *)
(* of OrgLink for any number of organisations, workspaces and requests that *)
(* race.                                                                   *)
(***************************************************************************)
EXTENDS UserTokens, OrgLink, TLAPS

(* A user's token *)

Pairs == [access : Nat, refresh : Nat]
Calls == [at : {"free", "check", "save"}, row : Pairs, stale : BOOLEAN, got : Pairs]

\* No number is given out twice.
TokensTyped ==
  /\ granted \in Nat /\ deaths \in Nat /\ stale \in BOOLEAN
  /\ stored \in Pairs /\ call \in [Callers -> Calls]
  /\ spent \subseteq Nat /\ \A n \in spent : n # 0 /\ n <= granted
  /\ stored.refresh <= granted
  /\ stored.access = 0 <=> stored.refresh = 0
  /\ \A c \in Callers : call[c].at = "check" =>
       call[c].row.refresh # 0 /\ call[c].row.refresh <= granted

\* A pair on its way to the database is known to nobody else: nobody has read it,
\* so nobody can have spent it.
Unseen ==
  \A c \in Callers : call[c].at = "save" =>
    LET new == call[c].got.refresh
    IN /\ new # 0 /\ new <= granted /\ call[c].got.access = new
       /\ new \notin spent /\ stored.refresh # new
       /\ \A d \in Callers :
            /\ call[d].at = "check" => call[d].row.refresh # new
            /\ call[d].at = "save" /\ d # c => call[d].got.refresh # new

TokensInv == TokensTyped /\ Unseen /\ TokenKept

-----------------------------------------------------------------------------
(* Lemmas *)

LEMMA TokensInitInvariant == TokensInit => TokensInv
  <1>. SUFFICES ASSUME TokensInit PROVE TokensInv
    OBVIOUS
  <1>1. Free \in Calls /\ Free.at = "free"
    BY DEF Free, Calls, Pairs, Nothing, Pair
  <1>2. Nothing \in Pairs /\ Nothing.access = 0 /\ Nothing.refresh = 0
    BY DEF Nothing, Pair, Pairs
  <1>3. /\ granted = 0 /\ spent = {} /\ stored = Nothing /\ stale = FALSE /\ deaths = 0
        /\ call \in [Callers -> Calls] /\ \A c \in Callers : call[c].at = "free"
    BY <1>1 DEF TokensInit
  <1>4. TokensTyped
    <2>1. stale \in BOOLEAN
      BY <1>3
    <2>2. stored \in Pairs /\ stored.refresh <= granted /\ stored.access = 0 /\ stored.refresh = 0
      BY <1>2, <1>3
    <2>. QED BY <1>3, <2>1, <2>2 DEF TokensTyped
  <1>5. Unseen
    BY <1>3 DEF Unseen
  <1>6. TokenKept
    BY <1>3 DEF TokenKept
  <1>. QED BY <1>4, <1>5, <1>6 DEF TokensInv

\* What a handler's step does to the handlers' variables.
LEMMA Became ==
  ASSUME TokensTyped, NEW c \in Callers, NEW s \in Calls, Goes(c, s)
  PROVE  /\ call' \in [Callers -> Calls] /\ call'[c] = s
         /\ \A d \in Callers \ {c} : call'[d] = call[d]
BY DEF TokensTyped, Goes

\* A handler that ends or only uses what it read.
LEMMA CallStep ==
  ASSUME TokensInv, NEW c \in Callers, Goes(c, Free), UNCHANGED <<granted, spent, stored, stale>>,
         \/ call[c].at # "save" /\ UNCHANGED deaths
         \/ deaths' = deaths + 1
  PROVE  TokensInv'
  <1>1. Free \in Calls /\ Free.at = "free"
    BY DEF Free, Calls, Pairs, Nothing, Pair
  <1>2. /\ call' \in [Callers -> Calls] /\ call'[c] = Free
        /\ \A d \in Callers \ {c} : call'[d] = call[d]
    BY <1>1, Became DEF TokensInv
  <1>3. TokensTyped'
    <2>1. stale' \in BOOLEAN
      BY DEF TokensInv, TokensTyped
    <2>2. deaths' \in Nat
      BY DEF TokensInv, TokensTyped
    <2>3. stored' \in Pairs /\ granted' \in Nat /\ call' \in [Callers -> Calls]
      BY <1>2 DEF TokensInv, TokensTyped
    <2>4. spent' \subseteq Nat /\ \A n \in spent' : n # 0 /\ n <= granted'
      BY DEF TokensInv, TokensTyped
    <2>5. /\ stored'.refresh <= granted'
          /\ stored'.access = 0 <=> stored'.refresh = 0
      BY DEF TokensInv, TokensTyped
    <2>6. \A d \in Callers : call'[d].at = "check" =>
            call'[d].row.refresh # 0 /\ call'[d].row.refresh <= granted'
      BY <1>1, <1>2 DEF TokensInv, TokensTyped
    <2>. QED BY <2>1, <2>2, <2>3, <2>4, <2>5, <2>6 DEF TokensTyped
  <1>4. Unseen'
    BY <1>1, <1>2 DEF TokensInv, Unseen
  <1>5. TokenKept'
    BY <1>1, <1>2 DEF TokensInv, TokensTyped, TokenKept
  <1>. QED BY <1>3, <1>4, <1>5 DEF TokensInv

\* A handler that has got a new pair from GitHub holds one that nobody has seen.
LEMMA Granted ==
  ASSUME TokensTyped, Unseen, NEW c \in Callers, NEW s \in Calls, NEW token \in Nat,
         call[c].at # "save", s.at = "save",
         s.got.access = granted + 1, s.got.refresh = granted + 1, granted' = granted + 1,
         \/ spent' = spent
         \/ /\ spent' = spent \cup {token} /\ token # 0 /\ token <= granted
            /\ \A d \in Callers : call[d].at = "save" => call[d].got.refresh # token,
         call' \in [Callers -> Calls], call'[c] = s,
         \A d \in Callers \ {c} : call'[d] = call[d],
         UNCHANGED <<stored, stale, deaths>>
  PROVE  TokensTyped' /\ Unseen'
  <1>1. granted \in Nat /\ stored.refresh \in Nat /\ stored.refresh <= granted
    BY DEF TokensTyped, Pairs
  <1>2. \A n \in spent' : n \in Nat /\ n # 0 /\ n <= granted
    BY DEF TokensTyped
  <1>3. \A d \in Callers : call[d].at = "check" =>
          /\ call[d].row.refresh \in Nat /\ call[d].row.refresh # 0
          /\ call[d].row.refresh <= granted
    BY DEF TokensTyped, Calls, Pairs
  <1>4. \A d \in Callers : call[d].at = "save" =>
          /\ call[d].got.refresh \in Nat /\ call[d].got.refresh # 0
          /\ call[d].got.refresh <= granted
    BY DEF TokensTyped, Unseen, Calls, Pairs
  <1>5. TokensTyped'
    <2>1. granted' \in Nat /\ stored.refresh <= granted'
      BY <1>1
    <2>2. \A n \in spent' : n \in Nat /\ n # 0 /\ n <= granted'
      BY <1>1, <1>2
    <2>3. \A d \in Callers : call'[d].at = "check" =>
            call'[d].row.refresh # 0 /\ call'[d].row.refresh <= granted'
      BY <1>1, <1>3
    <2>4. stale' \in BOOLEAN /\ deaths' \in Nat /\ stored' \in Pairs
      BY DEF TokensTyped
    <2>5. stored'.access = 0 <=> stored'.refresh = 0
      BY DEF TokensTyped
    <2>. QED BY <2>1, <2>2, <2>3, <2>4, <2>5 DEF TokensTyped
  <1>6. ASSUME NEW e \in Callers, call'[e].at = "save"
        PROVE  LET new == call'[e].got.refresh
               IN /\ new # 0 /\ new <= granted' /\ call'[e].got.access = new
                  /\ new \notin spent' /\ stored'.refresh # new
                  /\ \A d \in Callers :
                       /\ call'[d].at = "check" => call'[d].row.refresh # new
                       /\ call'[d].at = "save" /\ d # e => call'[d].got.refresh # new
    <2>1. CASE e = c
      BY <2>1, <1>1, <1>2, <1>3, <1>4
    <2>2. CASE e # c
      <3>1. call'[e] = call[e] /\ call[e].at = "save"
        BY <1>6, <2>2
      <3>2. /\ call[e].got.access = call[e].got.refresh
            /\ call[e].got.refresh \notin spent /\ stored.refresh # call[e].got.refresh
            /\ \A d \in Callers :
                 /\ call[d].at = "check" => call[d].row.refresh # call[e].got.refresh
                 /\ call[d].at = "save" /\ d # e =>
                      call[d].got.refresh # call[e].got.refresh
        BY <3>1 DEF Unseen
      <3>3. call[e].got.refresh \in Nat /\ call[e].got.refresh <= granted
            /\ call[e].got.refresh # 0
        BY <3>1, <1>4
      <3>4. call[e].got.refresh \notin spent'
        BY <3>1, <3>2
      <3>. QED BY <3>1, <3>2, <3>3, <3>4, <1>1
    <2>. QED BY <2>1, <2>2
  <1>7. Unseen'
    BY <1>6 DEF Unseen
  <1>. QED BY <1>5, <1>7

LEMMA ConnectStep ==
  ASSUME TokensInv, NEW c \in Callers, Connect(c)
  PROVE  TokensInv'
  <1>. DEFINE s == [Free EXCEPT !.at = "save", !.got = Pair(granted')]
  <1>1. /\ call[c].at = "free" /\ granted' = granted + 1 /\ granted' \in Nat
        /\ UNCHANGED <<spent, stored, stale, deaths>>
    BY DEF Connect, Grant, TokensInv, TokensTyped
  <1>2. /\ s \in Calls /\ s.at = "save"
        /\ s.got.access = granted + 1 /\ s.got.refresh = granted + 1
    BY <1>1 DEF Free, Calls, Pairs, Nothing, Pair
  <1>3. /\ call' \in [Callers -> Calls] /\ call'[c] = s
        /\ \A d \in Callers \ {c} : call'[d] = call[d]
    <2>1. Goes(c, s)
      BY DEF Connect
    <2>. HIDE DEF s
    <2>. QED BY <1>2, <2>1, Became DEF TokensInv
  <1>. HIDE DEF s
  <1>4. TokensTyped' /\ Unseen'
    BY <1>1, <1>2, <1>3, Granted DEF TokensInv
  <1>6. TokenKept'
    BY <1>1, <1>2, <1>3 DEF TokensInv, TokenKept
  <1>. QED BY <1>4, <1>6 DEF TokensInv

LEMMA ReadStep ==
  ASSUME TokensInv, NEW c \in Callers, Read(c)
  PROVE  TokensInv'
  <1>. DEFINE s == [Free EXCEPT !.at = "check", !.row = stored, !.stale = stale]
  <1>1. /\ call[c].at = "free" /\ stored \in Pairs /\ stale \in BOOLEAN
        /\ UNCHANGED <<granted, spent, stored, stale, deaths>>
    BY DEF Read, TokensInv, TokensTyped
  <1>2. stored.refresh # 0
    BY DEF Read, TokensInv, TokensTyped, Nothing, Pair, Pairs
  <1>3. s \in Calls /\ s.at = "check" /\ s.row = stored
    BY <1>1 DEF Free, Calls, Pairs, Nothing, Pair
  <1>4. /\ call' \in [Callers -> Calls] /\ call'[c] = s
        /\ \A d \in Callers \ {c} : call'[d] = call[d]
    <2>1. Goes(c, s)
      BY DEF Read
    <2>. HIDE DEF s
    <2>. QED BY <1>3, <2>1, Became DEF TokensInv
  <1>. HIDE DEF s
  <1>5. TokensTyped'
    BY <1>1, <1>2, <1>3, <1>4 DEF TokensInv, TokensTyped
  <1>6. Unseen'
    BY <1>1, <1>3, <1>4 DEF TokensInv, Unseen
  <1>7. TokenKept'
    BY <1>1, <1>4 DEF TokensInv, TokenKept
  <1>. QED BY <1>5, <1>6, <1>7 DEF TokensInv

LEMMA RefreshStep ==
  ASSUME TokensInv, NEW c \in Callers, Refresh(c)
  PROVE  TokensInv'
  <1>. DEFINE token == call[c].row.refresh
  <1>. DEFINE s == [call[c] EXCEPT !.at = "save", !.got = Pair(granted')]
  <1>1. /\ call[c].at = "check" /\ granted' = granted + 1 /\ granted' \in Nat
        /\ call[c] \in Calls /\ spent' = spent \cup {token}
        /\ UNCHANGED <<stored, stale, deaths>>
    BY DEF Refresh, Grant, TokensInv, TokensTyped
  <1>2. /\ s \in Calls /\ s.at = "save" /\ s.row = call[c].row
        /\ s.got.access = granted + 1 /\ s.got.refresh = granted + 1
    BY <1>1 DEF Calls, Pairs, Pair
  <1>3. /\ call' \in [Callers -> Calls] /\ call'[c] = s
        /\ \A d \in Callers \ {c} : call'[d] = call[d]
    <2>1. Goes(c, s)
      BY DEF Refresh
    <2>. HIDE DEF s
    <2>. QED BY <1>2, <2>1, Became DEF TokensInv
  <1>4. token \in Nat /\ token # 0 /\ token <= granted
    BY <1>1 DEF TokensInv, TokensTyped, Calls, Pairs
  <1>5. \A d \in Callers : call[d].at = "save" => call[d].got.refresh # token
    BY <1>1 DEF TokensInv, Unseen
  <1>. HIDE DEF s, token
  <1>6. TokensTyped' /\ Unseen'
    BY <1>1, <1>2, <1>3, <1>4, <1>5, Granted DEF TokensInv
  <1>7. TokenKept'
    <2>1. ASSUME stored.refresh \in spent'
          PROVE  deaths = 0 => \E d \in Callers : /\ call'[d].at = "save"
                                                   /\ call'[d].row.refresh = stored.refresh
      <3>1. CASE stored.refresh = token
        BY <3>1, <1>2, <1>3 DEF token
      <3>2. CASE stored.refresh # token
        <4>1. ASSUME deaths = 0
              PROVE  \E d \in Callers : /\ call[d].at = "save"
                                         /\ call[d].row.refresh = stored.refresh
          BY <2>1, <3>2, <1>1, <4>1 DEF TokensInv, TokenKept
        <4>. QED BY <4>1, <1>1, <1>3
      <3>. QED BY <3>1, <3>2
    <2>. QED BY <2>1, <1>1 DEF TokenKept
  <1>. QED BY <1>6, <1>7 DEF TokensInv

LEMMA SaveStep ==
  ASSUME TokensInv, NEW c \in Callers, SaveTokens(c)
  PROVE  TokensInv'
  <1>1. /\ call[c].at = "save" /\ call[c] \in Calls /\ UNCHANGED <<granted, spent, deaths>>
        /\ stale' = FALSE
    BY DEF SaveTokens, TokensInv, TokensTyped
  <1>2. stored' \in Pairs /\ stored'.access = call[c].got.refresh
        /\ stored'.refresh = call[c].got.refresh
    BY <1>1 DEF SaveTokens, Kept, TokensInv, Unseen, Calls, Pairs
  <1>3. Free \in Calls /\ Free.at = "free"
    BY DEF Free, Calls, Pairs, Nothing, Pair
  <1>4. /\ call' \in [Callers -> Calls] /\ call'[c] = Free
        /\ \A d \in Callers \ {c} : call'[d] = call[d]
    BY <1>3, Became DEF TokensInv, SaveTokens
  <1>5. TokensTyped'
    <2>1. granted' \in Nat /\ deaths' \in Nat /\ stale' \in BOOLEAN
      BY <1>1 DEF TokensInv, TokensTyped
    <2>2. \A n \in spent' : n \in Nat /\ n # 0 /\ n <= granted'
      BY <1>1 DEF TokensInv, TokensTyped
    <2>3. stored'.refresh <= granted' /\ stored'.access # 0 /\ stored'.refresh # 0
      BY <1>1, <1>2 DEF TokensInv, Unseen
    <2>4. \A d \in Callers : call'[d].at = "check" =>
            call'[d].row.refresh # 0 /\ call'[d].row.refresh <= granted'
      BY <1>1, <1>3, <1>4 DEF TokensInv, TokensTyped
    <2>. QED BY <1>2, <1>4, <2>1, <2>2, <2>3, <2>4 DEF TokensTyped
  <1>6. Unseen'
    BY <1>1, <1>2, <1>3, <1>4 DEF TokensInv, Unseen
  <1>7. TokenKept'
    BY <1>1, <1>2 DEF TokensInv, Unseen, TokenKept
  <1>. QED BY <1>5, <1>6, <1>7 DEF TokensInv

LEMMA TokensStepInvariant == TokensInv /\ [TokensNext]_tokenVars => TokensInv'
  <1>. SUFFICES ASSUME TokensInv, [TokensNext]_tokenVars PROVE TokensInv'
    OBVIOUS
  <1>1. CASE Expire
    BY <1>1 DEF Expire, TokensInv, TokensTyped, Unseen, TokenKept
  <1>2. ASSUME NEW c \in Callers, Use(c) \/ Refused(c) \/ CallerDies(c) PROVE TokensInv'
    BY <1>2, CallStep DEF Use, Refused, CallerDies
  <1>3. ASSUME NEW c \in Callers, Connect(c) \/ Read(c) \/ Refresh(c) \/ SaveTokens(c) PROVE TokensInv'
    BY <1>3, ConnectStep, ReadStep, RefreshStep, SaveStep
  <1>4. CASE UNCHANGED tokenVars
    BY <1>4 DEF tokenVars, TokensInv, TokensTyped, Unseen, TokenKept
  <1>. QED BY <1>1, <1>2, <1>3, <1>4 DEF TokensNext

-----------------------------------------------------------------------------
(* Theorem *)

\* No race for a refresh token locks a user out: what is in the row can still be
\* used, or the handler that used it is about to store the next one
\* (get_valid_user_token).
THEOREM NeverLockedOut == TokensSpec => []TokenKept
  <1>1. TokensInv => TokenKept
    BY DEF TokensInv
  <1>. QED BY <1>1, TokensInitInvariant, TokensStepInvariant, PTL DEF TokensSpec

-----------------------------------------------------------------------------
(* The rows of organisations *)

\* Row i is the row of organisation g, unless a link has taken it from it.
Home(i, g) == i \in DOMAIN rowsOf /\ (g \notin overwritten => rowsOf[i].gh = g)

Stages == {"rest", "select", "write", "track", "user"}
Ops == {Null, "upsert", "backfill", "slack", "link", "connect"}
Txs == [at : Stages, op : Ops,
        gh : GitHubOrgs \cup {Placeholder}, install : Nat,
        team : Teams \cup {Null}, ghRow : Nat, slackRow : Nat]

\* No row is ever deleted: the only DELETE is that of a merge, which fails.
Table == rowsOf \in Seq(OrgRows) /\ \A i \in DOMAIN rowsOf : rowsOf[i].live

OrgsTyped ==
  /\ installs \in [GitHubOrgs -> Nat]
  /\ prOrg \in [GitHubOrgs -> Nat] /\ userOrg \in Nat
  /\ tx \in [Requests -> Txs]

\* What a request selected is still true when it writes: rows stay, keep their
\* workspace, and change their organisation only by a link.
Sound(q) ==
  /\ q.at # "rest" /\ q.ghRow # 0 => q.ghRow \in DOMAIN rowsOf
  /\ q.at = "write" /\ q.ghRow # 0 => Home(q.ghRow, q.gh)
  /\ q.at = "write" /\ q.slackRow # 0 =>
       /\ q.slackRow \in DOMAIN rowsOf
       /\ q.team # Null /\ rowsOf[q.slackRow].team = q.team
  /\ q.at = "select" => q.slackRow = 0
  /\ q.at = "track" => q.ghRow # 0 /\ Home(q.ghRow, q.gh)
  /\ q.at = "user" => q.ghRow # 0

References ==
  /\ \A g \in GitHubOrgs : prOrg[g] # 0 => Home(prOrg[g], g)
  /\ userOrg # 0 => userOrg \in DOMAIN rowsOf

OrgsInv ==
  /\ OrgsTyped /\ Table /\ Unique(rowsOf) /\ References
  /\ \A r \in Requests : Sound(tx[r])
-----------------------------------------------------------------------------
(* Rows that a write changes or adds *)

\* What a query that finds a row finds.
LEMMA FoundIs ==
  ASSUME NEW found
  PROVE  IdOf(found) # 0 => IdOf(found) \in found
BY DEF IdOf

\* A column of one row.
LEMMA ColumnSet ==
  ASSUME NEW t \in Seq(OrgRows), NEW k \in DOMAIN t, NEW row \in OrgRows,
         NEW u, u = [t EXCEPT ![k] = row]
  PROVE  /\ u \in Seq(OrgRows) /\ DOMAIN u = DOMAIN t /\ Len(u) = Len(t)
         /\ u[k] = row /\ \A i \in DOMAIN t \ {k} : u[i] = t[i]
OBVIOUS

\* A row of its own.
LEMMA RowAdded ==
  ASSUME NEW t \in Seq(OrgRows), NEW row \in OrgRows, NEW u, u = Append(t, row)
  PROVE  /\ u \in Seq(OrgRows) /\ Len(u) \in DOMAIN u /\ u[Len(u)] = row
         /\ Len(u) \in Nat /\ Len(u) # 0
         /\ \A i \in DOMAIN t : i \in DOMAIN u /\ u[i] = t[i]
         /\ \A i \in DOMAIN u : i \in DOMAIN t \/ u[i] = row
OBVIOUS

LEMMA NewRow ==
  ASSUME NEW g \in GitHubOrgs \cup {Placeholder}, NEW n \in Nat, NEW t \in Teams \cup {Null},
         NEW token \in BOOLEAN
  PROVE  /\ New(g, n, t, token) \in OrgRows
         /\ New(g, n, t, token).gh = g /\ New(g, n, t, token).live
BY DEF New, OrgRows

\* A row keeps its workspace and its life when other columns change.
LEMMA RowChanged ==
  ASSUME NEW row \in OrgRows, NEW n \in Nat, NEW g \in GitHubOrgs \cup {Placeholder}
  PROVE  /\ [row EXCEPT !.install = n] \in OrgRows
         /\ [row EXCEPT !.install = n].gh = row.gh
         /\ [row EXCEPT !.install = n].team = row.team
         /\ [row EXCEPT !.install = n].live = row.live
         /\ [row EXCEPT !.token = TRUE] \in OrgRows
         /\ [row EXCEPT !.token = TRUE].gh = row.gh
         /\ [row EXCEPT !.token = TRUE].team = row.team
         /\ [row EXCEPT !.token = TRUE].live = row.live
         /\ [row EXCEPT !.gh = g, !.install = n] \in OrgRows
         /\ [row EXCEPT !.gh = g, !.install = n].team = row.team
         /\ [row EXCEPT !.gh = g, !.install = n].live = row.live
BY DEF OrgRows

-----------------------------------------------------------------------------
(* What a transaction does *)

\* The UPDATE of a merge gives the GitHub row the workspace that the Slack row
\* still has, so a merge never commits.
LEMMA NoMerge ==
  ASSUME OrgsInv, NEW r \in Requests, CommitTx(r)
  PROVE  ~Merges(tx[r])
  <1>. DEFINE g == tx[r].ghRow  s == tx[r].slackRow
             moved == [rowsOf EXCEPT ![g].team = rowsOf[s].team, ![g].token = rowsOf[s].token]
  <1>. SUFFICES ASSUME Merges(tx[r]) PROVE FALSE
    OBVIOUS
  <1>1. /\ tx[r].op = "link" /\ g # 0 /\ s # 0 /\ g # s
        /\ tx[r].at = "write" /\ Sound(tx[r])
    BY DEF Merges, CommitTx, OrgsInv
  <1>2. /\ g \in DOMAIN rowsOf /\ s \in DOMAIN rowsOf
        /\ rowsOf[s].team # Null /\ rowsOf[s].live /\ rowsOf[g].live
        /\ rowsOf[g] \in OrgRows /\ rowsOf[s] \in OrgRows /\ rowsOf \in Seq(OrgRows)
    BY <1>1 DEF Sound, Home, OrgsInv, Table
  <1>3. Unique(moved)
    <2>1. PICK after : Statements(tx[r]) = <<moved, after>>
      BY <1>1 DEF Statements
    <2>2. PICK steps : /\ steps = Statements(tx[r])
                       /\ \A i \in DOMAIN steps : Unique(steps[i])
      BY DEF CommitTx
    <2>3. 1 \in DOMAIN steps /\ steps[1] = moved
      <3>. HIDE DEF moved
      <3>1. steps = <<moved, after>>
        BY <2>1, <2>2
      <3>. QED BY ONLY <3>1
    <2>4. Unique(steps[1])
      BY ONLY <2>2, <2>3, Zenon
    <2>. HIDE DEF moved
    <2>. QED BY ONLY <2>3, <2>4, Zenon
  <1>4. /\ g \in DOMAIN moved /\ s \in DOMAIN moved
        /\ moved[g].team = rowsOf[s].team /\ moved[g].live
        /\ moved[s] = rowsOf[s]
    BY <1>1, <1>2 DEF OrgRows
  <1>5. g \in Live(moved) /\ s \in Live(moved)
    BY <1>2, <1>4 DEF Live
  <1>6. Same(moved[g], moved[s])
    BY <1>2, <1>4 DEF Same
  <1>. QED BY <1>1, <1>3, <1>5, <1>6 DEF Unique

\* Everything else changes one row or adds one: rows keep their workspace, and
\* a row added for an organisation is the last.
LEMMA WriteMakes ==
  ASSUME OrgsInv, NEW r \in Requests, CommitTx(r)
  PROVE  /\ rowsOf' \in Seq(OrgRows) /\ \A i \in DOMAIN rowsOf' : rowsOf'[i].live
         /\ Unique(rowsOf')
         /\ \A i \in DOMAIN rowsOf :
              i \in DOMAIN rowsOf' /\ rowsOf'[i].team = rowsOf[i].team
         /\ tx[r].op = "backfill" /\ tx[r].ghRow = 0 =>
              /\ Len(rowsOf') \in DOMAIN rowsOf' /\ Len(rowsOf') # 0
              /\ rowsOf'[Len(rowsOf')].gh = tx[r].gh
  <1>. DEFINE q == tx[r]  g == q.ghRow  s == q.slackRow
  <1>1. /\ rowsOf \in Seq(OrgRows) /\ \A i \in DOMAIN rowsOf : rowsOf[i].live
        /\ q.gh \in GitHubOrgs \cup {Placeholder} /\ q.install \in Nat
        /\ q.team \in Teams \cup {Null}
        /\ g # 0 => g \in DOMAIN rowsOf
        /\ s # 0 => s \in DOMAIN rowsOf
    BY DEF OrgsInv, OrgsTyped, Table, Txs, Sound, CommitTx
  <1>2. PICK steps :
          /\ steps = Statements(q) /\ rowsOf' = steps[Len(steps)]
          /\ \A i \in DOMAIN steps : Unique(steps[i])
    BY DEF CommitTx
  <1>3. ~Merges(q)
    BY NoMerge
  <1>4. ASSUME NEW after, steps = <<after>>
        PROVE  rowsOf' = after /\ Unique(rowsOf')
    BY <1>2, <1>4
  <1>. DEFINE Made ==
         /\ rowsOf' \in Seq(OrgRows) /\ \A i \in DOMAIN rowsOf' : rowsOf'[i].live
         /\ Unique(rowsOf')
         /\ \A i \in DOMAIN rowsOf :
              i \in DOMAIN rowsOf' /\ rowsOf'[i].team = rowsOf[i].team
  <1>5. ASSUME NEW k \in DOMAIN rowsOf, NEW row \in OrgRows,
               row.live = rowsOf[k].live, row.team = rowsOf[k].team,
               steps = <<[rowsOf EXCEPT ![k] = row]>>
        PROVE  Made
    <2>1. PICK after : after = [rowsOf EXCEPT ![k] = row]
      OBVIOUS
    <2>2. /\ after \in Seq(OrgRows) /\ DOMAIN after = DOMAIN rowsOf
          /\ after[k] = row /\ \A i \in DOMAIN rowsOf \ {k} : after[i] = rowsOf[i]
      BY <1>1, <2>1, ColumnSet
    <2>3. rowsOf' = after /\ Unique(rowsOf')
      BY <1>4, <1>5, <2>1
    <2>4. \A i \in DOMAIN after : after[i].live /\ after[i].team = rowsOf[i].team
      BY <1>1, <1>5, <2>2
    <2>. QED BY <2>2, <2>3, <2>4
  <1>6. ASSUME NEW row \in OrgRows, row.live, steps = <<Append(rowsOf, row)>>
        PROVE  /\ Made /\ Len(rowsOf') \in DOMAIN rowsOf' /\ Len(rowsOf') # 0
               /\ rowsOf'[Len(rowsOf')] = row
    <2>1. PICK after : after = Append(rowsOf, row)
      OBVIOUS
    <2>2. /\ after \in Seq(OrgRows) /\ Len(after) \in DOMAIN after /\ after[Len(after)] = row
          /\ Len(after) # 0
          /\ \A i \in DOMAIN rowsOf : i \in DOMAIN after /\ after[i] = rowsOf[i]
          /\ \A i \in DOMAIN after : i \in DOMAIN rowsOf \/ after[i] = row
      BY <1>1, <2>1, RowAdded
    <2>3. rowsOf' = after /\ Unique(rowsOf')
      BY <1>4, <1>6, <2>1
    <2>4. \A i \in DOMAIN after : after[i].live
      BY <1>1, <1>6, <2>2
    <2>. QED BY <2>2, <2>3, <2>4
  <1>7. CASE q.op \in {"upsert", "backfill"} /\ g # 0
    <2>1. steps = <<[rowsOf EXCEPT ![g].install = q.install]>>
      BY <1>2, <1>7 DEF Statements
    <2>2. PICK row, old, n, h : /\ old = rowsOf[g] /\ n = q.install /\ h = q.gh
                              /\ row = [old EXCEPT !.install = n]
      OBVIOUS
    <2>3. row \in OrgRows /\ row.live = old.live /\ row.team = old.team
      <3>1. old \in OrgRows /\ n \in Nat /\ h \in GitHubOrgs \cup {Placeholder}
        BY <1>1, <1>7, <2>2
      <3>2. row = [old EXCEPT !.install = n]
        BY <2>2
      <3>. QED BY ONLY <3>1, <3>2, RowChanged
    <2>4. steps = <<[rowsOf EXCEPT ![g] = row]>>
      BY <2>1, <2>2
    <2>. QED BY <1>1, <1>5, <1>7, <2>2, <2>3, <2>4
  <1>8. CASE q.op \in {"upsert", "backfill"} /\ g = 0
    <2>. DEFINE row == New(q.gh, q.install, Null, FALSE)
    <2>1. steps = <<Append(rowsOf, row)>>
      BY <1>2, <1>8 DEF Statements
    <2>2. row \in OrgRows /\ row.live /\ row.gh = q.gh
      <3>1. Null \in Teams \cup {Null} /\ FALSE \in BOOLEAN
        OBVIOUS
      <3>. QED BY ONLY <1>1, <3>1, NewRow, Zenon
    <2>. HIDE DEF row
    <2>. QED BY <1>6, <1>8, <2>1, <2>2
  <1>9. CASE q.op = "slack" /\ s # 0
    <2>1. steps = <<[rowsOf EXCEPT ![s].token = TRUE]>>
      BY <1>2, <1>9 DEF Statements
    <2>2. PICK row, old, n, h : /\ old = rowsOf[s] /\ n = q.install /\ h = q.gh
                              /\ row = [old EXCEPT !.token = TRUE]
      OBVIOUS
    <2>3. row \in OrgRows /\ row.live = old.live /\ row.team = old.team
      <3>1. old \in OrgRows /\ n \in Nat /\ h \in GitHubOrgs \cup {Placeholder}
        BY <1>1, <1>9, <2>2
      <3>2. row = [old EXCEPT !.token = TRUE]
        BY <2>2
      <3>. QED BY ONLY <3>1, <3>2, RowChanged
    <2>4. steps = <<[rowsOf EXCEPT ![s] = row]>>
      BY <2>1, <2>2
    <2>. QED BY <1>1, <1>5, <1>9, <2>2, <2>3, <2>4
  <1>10. CASE q.op = "slack" /\ s = 0
    <2>1. steps = <<Append(rowsOf, New(Placeholder, 0, q.team, TRUE))>>
      BY <1>2, <1>10 DEF Statements
    <2>2. New(Placeholder, 0, q.team, TRUE) \in OrgRows /\ New(Placeholder, 0, q.team, TRUE).live
      BY <1>1, NewRow
    <2>. QED BY <1>6, <1>10, <2>1, <2>2
  <1>11. CASE q.op = "link" /\ g # 0
    <2>1. steps = <<rowsOf>>
      BY <1>2, <1>3, <1>11 DEF Statements, Merges
    <2>. QED BY <1>1, <1>4, <1>11, <2>1
  <1>12. CASE q.op = "link" /\ g = 0 /\ s # 0
    <2>1. steps = <<[rowsOf EXCEPT ![s].gh = q.gh, ![s].install = q.install]>>
      BY <1>2, <1>12 DEF Statements
    <2>2. PICK row, old, n, h : /\ old = rowsOf[s] /\ n = q.install /\ h = q.gh
                              /\ row = [old EXCEPT !.gh = h, !.install = n]
      OBVIOUS
    <2>3. row \in OrgRows /\ row.live = old.live /\ row.team = old.team
      <3>1. old \in OrgRows /\ n \in Nat /\ h \in GitHubOrgs \cup {Placeholder}
        BY <1>1, <1>12, <2>2
      <3>2. row = [old EXCEPT !.gh = h, !.install = n]
        BY <2>2
      <3>. QED BY ONLY <3>1, <3>2, RowChanged
    <2>4. steps = <<[rowsOf EXCEPT ![s] = row]>>
      BY <1>1, <1>12, <2>1, <2>2 DEF OrgRows
    <2>. QED BY <1>1, <1>5, <1>12, <2>2, <2>3, <2>4
  <1>13. CASE /\ q.op \notin {"upsert", "backfill", "slack"}
              /\ ~(q.op = "link" /\ (g # 0 \/ s # 0))
    <2>1. steps = <<Append(rowsOf, New(q.gh, q.install, q.team, FALSE))>>
      BY <1>2, <1>13 DEF Statements
    <2>2. /\ New(q.gh, q.install, q.team, FALSE) \in OrgRows
          /\ New(q.gh, q.install, q.team, FALSE).live
      BY <1>1, NewRow
    <2>. QED BY <1>6, <1>13, <2>1, <2>2
  <1>. QED BY <1>7, <1>8, <1>9, <1>10, <1>11, <1>12, <1>13

-----------------------------------------------------------------------------
(* Steps *)

\* Rows stay where requests and pull requests look for them.
RowsKept ==
  /\ overwritten \subseteq overwritten'
  /\ \A i \in DOMAIN rowsOf :
       /\ i \in DOMAIN rowsOf' /\ rowsOf'[i].team = rowsOf[i].team
       /\ rowsOf'[i].gh = rowsOf[i].gh \/ rowsOf[i].gh \in overwritten'

LEMMA HomeKept ==
  ASSUME RowsKept, NEW i, NEW g, Home(i, g)
  PROVE  Home(i, g)'
BY DEF RowsKept, Home

LEMMA SoundKept ==
  ASSUME RowsKept, NEW q, Sound(q)
  PROVE  Sound(q)'
  <1>1. Home(q.ghRow, q.gh) => Home(q.ghRow, q.gh)'
    BY HomeKept
  <1>2. q.ghRow \in DOMAIN rowsOf => q.ghRow \in DOMAIN rowsOf'
    BY DEF RowsKept
  <1>3. q.slackRow \in DOMAIN rowsOf =>
          q.slackRow \in DOMAIN rowsOf' /\ rowsOf'[q.slackRow].team = rowsOf[q.slackRow].team
    BY DEF RowsKept
  <1>. QED BY <1>1, <1>2, <1>3 DEF Sound

\* What a request does to its own transaction leaves those of the others.
LEMMA TxStep ==
  ASSUME OrgsInv, RowsKept, NEW r \in Requests, NEW q \in Txs,
         tx' = [tx EXCEPT ![r] = q], Sound(q)'
  PROVE  tx' \in [Requests -> Txs] /\ (\A o \in Requests : Sound(tx[o]))'
  <1>1. tx' \in [Requests -> Txs]
    BY DEF OrgsInv, OrgsTyped
  <1>2. ASSUME NEW o \in Requests
        PROVE  Sound(tx[o])'
    <2>1. CASE o = r
      <3>1. tx'[o] = q
        BY <2>1 DEF OrgsInv, OrgsTyped
      <3>. QED BY <3>1 DEF Sound, Home
    <2>2. CASE o # r
      <3>1. PICK k : k = tx[o] /\ tx'[o] = k
        BY <2>2 DEF OrgsInv, OrgsTyped
      <3>2. Sound(k)'
        BY <3>1, SoundKept DEF OrgsInv
      <3>. QED BY <3>1, <3>2 DEF Sound, Home
    <2>. QED BY <2>1, <2>2
  <1>. QED BY <1>1, <1>2

\* A request begins with what it has selected.
LEMMA BeginStep ==
  ASSUME OrgsInv, NEW r \in Requests, NEW q \in Txs, Begin(r, q), Sound(q)
  PROVE  OrgsInv'
  <1>1. /\ UNCHANGED <<installs, rowsOf, prOrg, userOrg, overwritten>>
        /\ tx' = [tx EXCEPT ![r] = q]
    BY DEF Begin
  <1>2. RowsKept
    BY <1>1 DEF RowsKept
  <1>3. tx' \in [Requests -> Txs] /\ (\A o \in Requests : Sound(tx[o]))'
    BY <1>1, <1>2, SoundKept, TxStep
  <1>4. OrgsTyped'
    BY <1>1, <1>3 DEF OrgsInv, OrgsTyped
  <1>5. Table' /\ Unique(rowsOf)' /\ References'
    BY <1>1 DEF OrgsInv, Table, Unique, Live, References, Home
  <1>. QED BY <1>3, <1>4, <1>5 DEF OrgsInv

\* A request that ends forgets what it has selected.
LEMMA NoTxSound ==
  ASSUME OrgsInv
  PROVE  NoTx \in Txs /\ Sound(NoTx)'
  <1>1. NoTx \in Txs
    BY DEF NoTx, Txs, Stages, Ops
  <1>2. NoTx.at = "rest"
    BY DEF NoTx
  <1>. QED BY <1>1, <1>2 DEF Sound

\* The rows that a select finds are rows of what it looks for.
LEMMA SelectFinds ==
  ASSUME OrgsInv, NEW g, NEW n, NEW t
  PROVE  /\ RowOfOrg(g) \in Nat /\ RowOfInstallation(g, n) \in Nat /\ RowOfTeam(t) \in Nat
         /\ RowOfOrg(g) # 0 => Home(RowOfOrg(g), g)
         /\ RowOfInstallation(g, n) # 0 => Home(RowOfInstallation(g, n), g)
         /\ RowOfTeam(t) # 0 => /\ RowOfTeam(t) \in DOMAIN rowsOf
                                /\ rowsOf[RowOfTeam(t)].team = t
  <1>1. DOMAIN rowsOf \subseteq Nat
    BY DEF OrgsInv, Table
  <1>2. RowOfOrg(g) \in Nat /\ (RowOfOrg(g) # 0 => Home(RowOfOrg(g), g))
    <2>. DEFINE found == {i \in Live(rowsOf) : rowsOf[i].gh = g}
    <2>1. IdOf(found) # 0 => IdOf(found) \in found
      BY FoundIs
    <2>. QED BY <1>1, <2>1 DEF RowOfOrg, Live, Home
  <1>3. /\ RowOfInstallation(g, n) \in Nat
        /\ RowOfInstallation(g, n) # 0 => Home(RowOfInstallation(g, n), g)
    <2>. DEFINE found == {i \in Live(rowsOf) : rowsOf[i].gh = g /\ rowsOf[i].install = n}
    <2>1. IdOf(found) # 0 => IdOf(found) \in found
      BY FoundIs
    <2>. QED BY <1>1, <2>1 DEF RowOfInstallation, Live, Home
  <1>4. /\ RowOfTeam(t) \in Nat
        /\ RowOfTeam(t) # 0 => /\ RowOfTeam(t) \in DOMAIN rowsOf
                               /\ rowsOf[RowOfTeam(t)].team = t
    <2>. DEFINE found == {i \in Live(rowsOf) : rowsOf[i].team = t}
    <2>1. IdOf(found) # 0 => IdOf(found) \in found
      BY FoundIs
    <2>. QED BY <1>1, <2>1 DEF RowOfTeam, Live
  <1>. QED BY <1>2, <1>3, <1>4

-----------------------------------------------------------------------------
(* The actions *)

LEMMA InstallsStep ==
  ASSUME OrgsInv, NEW g \in GitHubOrgs, Installs(g)
  PROVE  OrgsInv'
  <1>1. /\ UNCHANGED <<rowsOf, prOrg, userOrg, tx, overwritten>>
        /\ installs' \in [GitHubOrgs -> Nat]
    BY DEF Installs, OrgsInv, OrgsTyped
  <1>2. OrgsTyped' /\ Table' /\ Unique(rowsOf)' /\ References'
    BY <1>1 DEF OrgsInv, OrgsTyped, Table, Unique, Live, References, Home
  <1>3. (\A o \in Requests : Sound(tx[o]))'
    BY <1>1 DEF OrgsInv, Sound, Home
  <1>. QED BY <1>2, <1>3 DEF OrgsInv

\* A record with the fields of a transaction.
Fields == {"at", "op", "gh", "install", "team", "ghRow", "slackRow"}
IsTx(q) == DOMAIN q = Fields /\ q = [x \in DOMAIN q |-> q[x]]

LEMMA TxOf ==
  ASSUME NEW q, IsTx(q), q.at \in Stages, q.op \in Ops, q.gh \in GitHubOrgs \cup {Placeholder},
         q.install \in Nat, q.team \in Teams \cup {Null}, q.ghRow \in Nat, q.slackRow \in Nat
  PROVE  q \in Txs
  <1>1. q = [at |-> q.at, op |-> q.op, gh |-> q.gh, install |-> q.install, team |-> q.team,
             ghRow |-> q.ghRow, slackRow |-> q.slackRow]
    BY DEF IsTx, Fields
  <1>2. PICK at, op, g, n, t, i, j :
          /\ at = q.at /\ op = q.op /\ g = q.gh /\ n = q.install /\ t = q.team
          /\ i = q.ghRow /\ j = q.slackRow
    OBVIOUS
  <1>3. q = [at |-> at, op |-> op, gh |-> g, install |-> n, team |-> t,
             ghRow |-> i, slackRow |-> j]
    BY ONLY <1>1, <1>2
  <1>4. /\ at \in Stages /\ op \in Ops /\ g \in GitHubOrgs \cup {Placeholder} /\ n \in Nat
        /\ t \in Teams \cup {Null} /\ i \in Nat /\ j \in Nat
    BY <1>2
  <1>. QED BY ONLY <1>3, <1>4 DEF Txs

LEMMA BeginsStep ==
  ASSUME OrgsInv, NEW r \in Requests,
         \/ \E g \in GitHubOrgs : \E n \in 1..installs[g] :
              Installed(r, g, n) \/ Opened(r, g, n)
         \/ \E t \in Teams : SlackInstalled(r, t)
         \/ \E g \in GitHubOrgs, t \in Teams : Link(r, g, t) \/ ConnectGitHub(r, g, t)
  PROVE  OrgsInv'
  <1>1. ASSUME NEW g \in GitHubOrgs, NEW n \in Nat, Installed(r, g, n)
        PROVE  OrgsInv'
    <2>. DEFINE row == RowOfOrg(g)
               q == [NoTx EXCEPT !.at = "write", !.op = "upsert", !.gh = g,
                                  !.install = n, !.ghRow = row]
    <2>1. row \in Nat /\ (row # 0 => Home(row, g))
      BY SelectFinds
    <2>2. /\ IsTx(q)
          /\ q.at = "write" /\ q.op = "upsert" /\ q.gh = g /\ q.install = n
          /\ q.team = Null /\ q.ghRow = row /\ q.slackRow = 0
      BY DEF NoTx, IsTx, Fields
    <2>3. Begin(r, q)
      BY <1>1 DEF Installed
    <2>. HIDE DEF q
    <2>4. q \in Txs
      BY <2>1, <2>2, TxOf DEF Stages, Ops
    <2>5. Sound(q)
      BY <2>1, <2>2, OrgLinkAssumption DEF Sound, Home
    <2>. QED BY <2>3, <2>4, <2>5, BeginStep
  <1>2. ASSUME NEW g \in GitHubOrgs, NEW n \in Nat, Opened(r, g, n)
        PROVE  OrgsInv'
    <2>. DEFINE row == RowOfInstallation(g, n)
               at == IF row = 0 THEN "select" ELSE "track"
               q == [NoTx EXCEPT !.at = at, !.op = "backfill", !.gh = g,
                                  !.install = n, !.ghRow = row]
    <2>1. row \in Nat /\ (row # 0 => Home(row, g))
      BY SelectFinds
    <2>2. /\ IsTx(q)
          /\ q.at = at /\ q.op = "backfill" /\ q.gh = g /\ q.install = n
          /\ q.team = Null /\ q.ghRow = row /\ q.slackRow = 0
      BY DEF NoTx, IsTx, Fields
    <2>3. Begin(r, q)
      BY <1>2 DEF Opened
    <2>. HIDE DEF q
    <2>4. q \in Txs
      BY <2>1, <2>2, TxOf DEF Stages, Ops
    <2>5. Sound(q)
      BY <2>1, <2>2, OrgLinkAssumption DEF Sound, Home
    <2>. QED BY <2>3, <2>4, <2>5, BeginStep
  <1>3. ASSUME NEW t \in Teams, SlackInstalled(r, t)
        PROVE  OrgsInv'
    <2>. DEFINE row == RowOfTeam(t)
               q == [NoTx EXCEPT !.at = "write", !.op = "slack", !.team = t,
                                  !.slackRow = row]
    <2>1. row \in Nat /\ (row # 0 => row \in DOMAIN rowsOf /\ rowsOf[row].team = t)
      BY SelectFinds
    <2>2. /\ IsTx(q)
          /\ q.at = "write" /\ q.op = "slack" /\ q.gh = Placeholder /\ q.install = 0
          /\ q.team = t /\ q.ghRow = 0 /\ q.slackRow = row
      BY DEF NoTx, IsTx, Fields
    <2>3. Begin(r, q)
      BY <1>3 DEF SlackInstalled
    <2>. HIDE DEF q
    <2>4. q \in Txs
      BY <2>1, <2>2, TxOf DEF Stages, Ops
    <2>5. Sound(q)
      BY <2>1, <2>2, OrgLinkAssumption DEF Sound, Home
    <2>. QED BY <2>3, <2>4, <2>5, BeginStep
  <1>4. ASSUME NEW g \in GitHubOrgs, NEW t \in Teams, Link(r, g, t)
        PROVE  OrgsInv'
    <2>. DEFINE n == installs[g]
               row == RowOfInstallation(g, n)
               from == RowOfTeam(t)
               q == [NoTx EXCEPT !.at = "write", !.op = "link", !.gh = g,
                                  !.install = n, !.team = t, !.ghRow = row,
                                  !.slackRow = from]
    <2>1. /\ n \in Nat /\ row \in Nat /\ (row # 0 => Home(row, g))
          /\ from \in Nat /\ (from # 0 => from \in DOMAIN rowsOf /\ rowsOf[from].team = t)
      BY SelectFinds DEF OrgsInv, OrgsTyped
    <2>2. /\ IsTx(q)
          /\ q.at = "write" /\ q.op = "link" /\ q.gh = g /\ q.install = n
          /\ q.team = t /\ q.ghRow = row /\ q.slackRow = from
      BY DEF NoTx, IsTx, Fields
    <2>3. Begin(r, q)
      BY <1>4 DEF Link
    <2>. HIDE DEF q
    <2>4. q \in Txs
      BY <2>1, <2>2, TxOf DEF Stages, Ops
    <2>5. Sound(q)
      BY <2>1, <2>2, OrgLinkAssumption DEF Sound, Home
    <2>. QED BY <2>3, <2>4, <2>5, BeginStep
  <1>5. ASSUME NEW g \in GitHubOrgs, NEW t \in Teams, ConnectGitHub(r, g, t)
        PROVE  OrgsInv'
    <2>. DEFINE row == IF RowOfOrg(g) # 0 THEN RowOfOrg(g) ELSE RowOfTeam(t)
               q == [NoTx EXCEPT !.at = "user", !.op = "connect", !.ghRow = row]
    <2>1. row \in Nat /\ row # 0 /\ row \in DOMAIN rowsOf
      BY <1>5, SelectFinds DEF ConnectGitHub, Home
    <2>2. /\ IsTx(q)
          /\ q.at = "user" /\ q.op = "connect" /\ q.gh = Placeholder /\ q.install = 0
          /\ q.team = Null /\ q.ghRow = row /\ q.slackRow = 0
      BY DEF NoTx, IsTx, Fields
    <2>3. Begin(r, q)
      BY <1>5 DEF ConnectGitHub
    <2>. HIDE DEF q
    <2>4. q \in Txs
      BY <2>1, <2>2, TxOf DEF Stages, Ops
    <2>5. Sound(q)
      BY <2>1, <2>2, OrgLinkAssumption DEF Sound, Home
    <2>. QED BY <2>3, <2>4, <2>5, BeginStep
  <1>6. \A g \in GitHubOrgs : 1..installs[g] \subseteq Nat
    BY DEF OrgsInv, OrgsTyped
  <1>. QED BY <1>1, <1>2, <1>3, <1>4, <1>5, <1>6

\* What a request does to one or two fields of its transaction.
LEMMA TxMoves ==
  ASSUME NEW q \in Txs, NEW at \in Stages, NEW row \in Nat
  PROVE  /\ [q EXCEPT !.at = at, !.ghRow = row] \in Txs
         /\ [q EXCEPT !.at = at, !.ghRow = row].at = at
         /\ [q EXCEPT !.at = at, !.ghRow = row].op = q.op
         /\ [q EXCEPT !.at = at, !.ghRow = row].gh = q.gh
         /\ [q EXCEPT !.at = at, !.ghRow = row].team = q.team
         /\ [q EXCEPT !.at = at, !.ghRow = row].ghRow = row
         /\ [q EXCEPT !.at = at, !.ghRow = row].slackRow = q.slackRow
BY DEF Txs

LEMMA SelectStep ==
  ASSUME OrgsInv, NEW r \in Requests, Select(r)
  PROVE  OrgsInv'
  <1>1. PICK q, row, new :
          /\ q = tx[r] /\ row = RowOfOrg(q.gh)
          /\ new = [q EXCEPT !.at = "write", !.ghRow = row]
    OBVIOUS
  <1>2. /\ UNCHANGED <<installs, rowsOf, prOrg, userOrg, overwritten>>
        /\ q.at = "select" /\ q \in Txs /\ Sound(q)
    BY <1>1 DEF Select, OrgsInv, OrgsTyped
  <1>3. tx' = [tx EXCEPT ![r] = new]
    BY <1>1, <1>2 DEF Select, OrgsInv, OrgsTyped, Txs
  <1>4. row \in Nat /\ (row # 0 => Home(row, q.gh))
    BY <1>1, SelectFinds
  <1>5. /\ new \in Txs /\ new.at = "write" /\ new.gh = q.gh /\ new.ghRow = row
        /\ new.slackRow = q.slackRow
    <2>1. q \in Txs /\ row \in Nat /\ "write" \in Stages
      BY <1>2, <1>4 DEF Stages
    <2>2. new = [q EXCEPT !.at = "write", !.ghRow = row]
      BY <1>1
    <2>3. new \in Txs /\ new.at = "write" /\ new.gh = q.gh /\ new.ghRow = row
      BY ONLY <2>1, <2>2, TxMoves
    <2>4. new.slackRow = q.slackRow
      BY ONLY <2>1, <2>2 DEF Txs
    <2>. QED BY <2>3, <2>4
  <1>6. RowsKept
    BY <1>2 DEF RowsKept
  <1>7. Sound(new)
    <2>1. q.slackRow = 0
      BY <1>2 DEF Sound
    <2>. QED BY <1>4, <1>5, <2>1 DEF Sound, Home
  <1>8. Sound(new)'
    BY <1>6, <1>7, SoundKept
  <1>9. tx' \in [Requests -> Txs] /\ (\A o \in Requests : Sound(tx[o]))'
    BY <1>3, <1>5, <1>6, <1>8, TxStep
  <1>10. OrgsTyped' /\ Table' /\ Unique(rowsOf)' /\ References'
    BY <1>2, <1>9 DEF OrgsInv, OrgsTyped, Table, Unique, Live, References, Home
  <1>. QED BY <1>9, <1>10 DEF OrgsInv

\* A request that ends, having left the table alone.
LEMMA EndStep ==
  ASSUME OrgsInv, NEW r \in Requests, End(r), UNCHANGED <<installs, rowsOf, overwritten>>,
         prOrg' \in [GitHubOrgs -> Nat], userOrg' \in Nat,
         \A g \in GitHubOrgs : prOrg'[g] = prOrg[g] \/ Home(prOrg'[g], g),
         userOrg' = userOrg \/ userOrg' \in DOMAIN rowsOf
  PROVE  OrgsInv'
  <1>1. RowsKept
    BY DEF RowsKept
  <1>2. tx' \in [Requests -> Txs] /\ (\A o \in Requests : Sound(tx[o]))'
    BY <1>1, NoTxSound, TxStep DEF End
  <1>3. OrgsTyped' /\ Table' /\ Unique(rowsOf)'
    BY <1>2 DEF OrgsInv, OrgsTyped, Table, Unique, Live
  <1>4. References'
    BY DEF OrgsInv, References, Home
  <1>. QED BY <1>2, <1>3, <1>4 DEF OrgsInv

LEMMA EndingStep ==
  ASSUME OrgsInv, NEW r \in Requests, WriteFails(r) \/ Track(r) \/ SaveUser(r)
  PROVE  OrgsInv'
  <1>1. /\ tx[r] \in Txs /\ Sound(tx[r]) /\ tx[r].ghRow \in Nat
        /\ prOrg \in [GitHubOrgs -> Nat] /\ userOrg \in Nat
    BY DEF OrgsInv, OrgsTyped, Txs
  <1>2. CASE WriteFails(r)
    BY <1>1, <1>2, EndStep DEF WriteFails
  <1>3. CASE Track(r)
    <2>1. /\ End(r) /\ UNCHANGED <<installs, rowsOf, userOrg, overwritten>>
          /\ Home(tx[r].ghRow, tx[r].gh)
          /\ prOrg' = [prOrg EXCEPT ![tx[r].gh] = tx[r].ghRow] \/ prOrg' = prOrg
      BY <1>1, <1>3 DEF Track, Sound
    <2>2. prOrg' \in [GitHubOrgs -> Nat]
      BY <1>1, <2>1
    <2>3. \A g \in GitHubOrgs : prOrg'[g] = prOrg[g] \/ Home(prOrg'[g], g)
      BY <1>1, <2>1
    <2>. QED BY <1>1, <2>1, <2>2, <2>3, EndStep
  <1>4. CASE SaveUser(r)
    <2>1. tx[r].ghRow \in DOMAIN rowsOf
      BY <1>1, <1>4 DEF SaveUser, Sound
    <2>. QED BY <1>1, <1>4, <2>1, EndStep DEF SaveUser
  <1>. QED BY <1>2, <1>3, <1>4

\* A commit: the others still find what they selected, and a back-fill goes on
\* with a row of its organisation.
LEMMA WriteStep ==
  ASSUME OrgsInv, NEW r \in Requests, CommitTx(r)
  PROVE  OrgsInv'
  <1>1. PICK q : q = tx[r] /\ q \in Txs /\ Sound(q) /\ q.at = "write"
    BY DEF CommitTx, OrgsInv, OrgsTyped
  <1>2. /\ rowsOf' \in Seq(OrgRows) /\ \A i \in DOMAIN rowsOf' : rowsOf'[i].live
        /\ Unique(rowsOf')
        /\ \A i \in DOMAIN rowsOf :
             i \in DOMAIN rowsOf' /\ rowsOf'[i].team = rowsOf[i].team
        /\ q.op = "backfill" /\ q.ghRow = 0 =>
             /\ Len(rowsOf') \in DOMAIN rowsOf' /\ Len(rowsOf') # 0
             /\ rowsOf'[Len(rowsOf')].gh = q.gh
    BY <1>1, WriteMakes
  <1>3. /\ overwritten \subseteq overwritten'
        /\ \A i \in DOMAIN rowsOf :
             rowsOf'[i].gh = rowsOf[i].gh \/ rowsOf[i].gh \in overwritten'
    BY DEF CommitTx
  <1>4. RowsKept
    BY <1>2, <1>3 DEF RowsKept
  <1>5. UNCHANGED <<installs, userOrg>> /\ prOrg' = [g \in GitHubOrgs |-> prOrg[g]]
    BY NoMerge DEF CommitTx
  <1>6. tx' \in [Requests -> Txs] /\ (\A o \in Requests : Sound(tx[o]))'
    <2>1. CASE q.op # "backfill"
      <3>1. tx' = [tx EXCEPT ![r] = NoTx]
        BY <1>1, <2>1 DEF CommitTx
      <3>. QED BY <1>4, <3>1, NoTxSound, TxStep
    <2>2. CASE q.op = "backfill"
      <3>1. PICK row, new :
              /\ row = IF q.ghRow # 0 THEN q.ghRow ELSE Len(rowsOf')
              /\ new = [q EXCEPT !.at = "track", !.ghRow = row]
              /\ tx' = [tx EXCEPT ![r] = new]
        BY <1>1, <2>2 DEF CommitTx, Inserted
      <3>2. row # 0 /\ row \in Nat /\ Home(row, q.gh)'
        <4>1. CASE q.ghRow # 0
          <5>1. Home(q.ghRow, q.gh)
            BY <1>1, <4>1 DEF Sound
          <5>. QED BY <1>1, <1>4, <3>1, <4>1, <5>1, HomeKept DEF Txs
        <4>2. CASE q.ghRow = 0
          BY <1>2, <2>2, <3>1, <4>2 DEF Home
        <4>. QED BY <4>1, <4>2
      <3>3. new \in Txs /\ new.at = "track" /\ new.gh = q.gh /\ new.ghRow = row
        <4>1. q \in Txs /\ row \in Nat /\ "track" \in Stages
          BY <1>1, <3>2 DEF Stages
        <4>2. new = [q EXCEPT !.at = "track", !.ghRow = row]
          BY <3>1
        <4>. QED BY ONLY <4>1, <4>2, TxMoves
      <3>4. Sound(new)'
        BY <3>2, <3>3 DEF Sound, Home
      <3>. QED BY <1>4, <3>1, <3>3, <3>4, TxStep
    <2>. QED BY <2>1, <2>2
  <1>7. prOrg' = prOrg /\ OrgsTyped'
    BY <1>5, <1>6 DEF OrgsInv, OrgsTyped
  <1>8. Table' /\ Unique(rowsOf)'
    BY <1>2 DEF Table, Unique, Live
  <1>9. References'
    <2>1. ASSUME NEW g \in GitHubOrgs, prOrg'[g] # 0
          PROVE  Home(prOrg[g], g)'
      <3>1. PICK k : k = prOrg[g] /\ prOrg'[g] = k /\ Home(k, g)
        BY <1>7, <2>1 DEF OrgsInv, References
      <3>2. Home(k, g)'
        BY <1>4, <3>1, HomeKept
      <3>. QED BY <3>1, <3>2 DEF Home
    <2>2. userOrg' # 0 => userOrg' \in DOMAIN rowsOf'
      BY <1>4, <1>5 DEF OrgsInv, References, RowsKept
    <2>. QED BY <2>1, <2>2 DEF References
  <1>. QED BY <1>6, <1>7, <1>8, <1>9 DEF OrgsInv

-----------------------------------------------------------------------------
(* The theorems *)

LEMMA OrgsInitInvariant ==
  ASSUME OrgInit
  PROVE  OrgsInv
  <1>1. OrgsTyped
    <2>1. NoTx \in Txs
      BY DEF NoTx, Txs, Stages, Ops
    <2>. QED BY <2>1 DEF OrgInit, OrgsTyped
  <1>2. Table /\ Unique(rowsOf) /\ References
    BY DEF OrgInit, Table, Unique, Live, References, Home
  <1>3. ASSUME NEW r \in Requests
        PROVE  Sound(tx[r])
    <2>1. tx[r].at = "rest" /\ tx[r].ghRow = 0
      BY DEF OrgInit, NoTx
    <2>. QED BY <2>1 DEF Sound
  <1>. QED BY <1>1, <1>2, <1>3 DEF OrgsInv

LEMMA OrgsStepInvariant ==
  ASSUME OrgsInv, [OrgNext]_orgVars
  PROVE  OrgsInv'
  <1>1. CASE \E g \in GitHubOrgs : Installs(g)
    BY <1>1, InstallsStep
  <1>2. ASSUME NEW r \in Requests,
               \/ \E g \in GitHubOrgs : \E n \in 1..installs[g] :
                    Installed(r, g, n) \/ Opened(r, g, n)
               \/ \E t \in Teams : SlackInstalled(r, t)
               \/ \E g \in GitHubOrgs, t \in Teams : Link(r, g, t) \/ ConnectGitHub(r, g, t)
        PROVE  OrgsInv'
    BY <1>2, BeginsStep
  <1>3. ASSUME NEW r \in Requests, Select(r)
        PROVE  OrgsInv'
    BY <1>3, SelectStep
  <1>4. ASSUME NEW r \in Requests, CommitTx(r)
        PROVE  OrgsInv'
    BY <1>4, WriteStep
  <1>5. ASSUME NEW r \in Requests, WriteFails(r) \/ Track(r) \/ SaveUser(r)
        PROVE  OrgsInv'
    BY <1>5, EndingStep
  <1>6. CASE UNCHANGED orgVars
    <2>1. UNCHANGED <<installs, rowsOf, prOrg, userOrg, tx, overwritten>>
      BY <1>6 DEF orgVars
    <2>2. OrgsTyped' /\ Table' /\ Unique(rowsOf)' /\ References'
      BY <2>1 DEF OrgsInv, OrgsTyped, Table, Unique, Live, References, Home
    <2>3. (\A o \in Requests : Sound(tx[o]))'
      BY <2>1 DEF OrgsInv, Sound, Home
    <2>. QED BY <2>2, <2>3 DEF OrgsInv
  <1>. QED BY <1>1, <1>2, <1>3, <1>4, <1>5, <1>6 DEF OrgNext

\* A pull request belongs to the row of the organisation it is in, whose
\* installation and token act for it, however many installations, workspaces,
\* links and pull requests race, unless a link gave the row to another one
\* (upsert_organization and link_installation_to_slack_team, queries.py).
THEOREM EachAtHome == OrgSpec => []PRsStayHome
  <1>1. OrgInit => OrgsInv
    BY OrgsInitInvariant
  <1>2. OrgsInv /\ [OrgNext]_orgVars => OrgsInv'
    BY OrgsStepInvariant
  <1>3. OrgsInv => PRsStayHome
    BY DEF OrgsInv, References, Home, PRsStayHome
  <1>. QED BY <1>1, <1>2, <1>3, PTL DEF OrgSpec

\* The table keeps its unique columns and every reference names a row that is
\* there: the merge, which alone deletes one, never commits.
THEOREM ReferencesHold == OrgSpec => []OrgTypeOK
  <1>1. OrgInit => OrgsInv
    BY OrgsInitInvariant
  <1>2. OrgsInv /\ [OrgNext]_orgVars => OrgsInv'
    BY OrgsStepInvariant
  <1>3. OrgsInv => OrgTypeOK
    <2>. SUFFICES ASSUME OrgsInv PROVE OrgTypeOK
      OBVIOUS
    <2>1. rowsOf \in Seq(OrgRows) /\ Live(rowsOf) = DOMAIN rowsOf /\ Unique(rowsOf)
      BY DEF OrgsInv, Table, Live
    <2>2. \A r \in Requests : tx[r].at = "track" => tx[r].ghRow \in DOMAIN rowsOf
      BY DEF OrgsInv, Sound, Home
    <2>. QED BY <2>1, <2>2 DEF OrgsInv, References, Home, OrgTypeOK
  <1>. QED BY <1>1, <1>2, <1>3, PTL DEF OrgSpec
==============================================================================
