----------------------------- MODULE UserTokens ------------------------------
(***************************************************************************)
(* A user's GitHub token, which expires and is refreshed by whoever finds  *)
(* it stale (github_service.py, get_valid_user_token; auth.py,             *)
(* github_oauth_callback).  GitHub takes a refresh token once: two         *)
(* handlers that read the same row race for it, and a process that ends    *)
(* between GitHub's answer and the database loses the new one.             *)
(***************************************************************************)
EXTENDS Naturals

CONSTANTS
  Callers,     \* handlers that need the token
  MaxGrants,   \* bound: pairs of tokens GitHub gives out
  MaxDeaths    \* bound: processes that end part-way

VARIABLES
  granted,     \* GitHub: how many pairs it has given out
  spent,       \* GitHub: the refresh tokens it has taken
  stored,      \* the row of User: its access and refresh tokens, 0 for NULL
  stale,       \* the stored access token expires within five minutes
  call,        \* what each caller is at
  deaths       \* how many the model has injected

tokenVars == <<granted, spent, stored, stale, call, deaths>>

Pair(n) == [access |-> n, refresh |-> n]
Nothing == Pair(0)
Free == [at |-> "free", row |-> Nothing, stale |-> FALSE, got |-> Nothing]

TokensInit ==
  /\ granted = 0 /\ spent = {} /\ stored = Nothing /\ stale = FALSE
  /\ call = [c \in Callers |-> Free] /\ deaths = 0

Goes(c, s) == call' = [call EXCEPT ![c] = s]
Grant == granted < MaxGrants /\ granted' = granted + 1

\* The access token comes close to its end.
Expire ==
  /\ stored # Nothing /\ ~stale
  /\ stale' = TRUE
  /\ UNCHANGED <<granted, spent, stored, call, deaths>>

\* The user connects GitHub from the App Home: exchange_code_for_token.
Connect(c) ==
  /\ call[c].at = "free"
  /\ Grant
  /\ Goes(c, [Free EXCEPT !.at = "save", !.got = Pair(granted')])
  /\ UNCHANGED <<spent, stored, stale, deaths>>

\* A handler reads the user.
Read(c) ==
  /\ call[c].at = "free"
  /\ stored # Nothing
  /\ Goes(c, [Free EXCEPT !.at = "check", !.row = stored, !.stale = stale])
  /\ UNCHANGED <<granted, spent, stored, stale, deaths>>

\* A token that is not close to its end is used as it is.
Use(c) ==
  /\ call[c].at = "check" /\ ~call[c].stale
  /\ Goes(c, Free)
  /\ UNCHANGED <<granted, spent, stored, stale, deaths>>

\* refresh_user_token.
Refresh(c) ==
  LET token == call[c].row.refresh
  IN /\ call[c].at = "check" /\ call[c].stale
     /\ token \notin spent /\ Grant
     /\ spent' = spent \cup {token}
     /\ Goes(c, [call[c] EXCEPT !.at = "save", !.got = Pair(granted')])
     /\ UNCHANGED <<stored, stale, deaths>>

\* The token was refreshed by another handler since the row was read: GitHub's
\* answer holds no token, and the caller gets an exception.
Refused(c) ==
  /\ call[c].at = "check" /\ call[c].stale
  /\ call[c].row.refresh \in spent
  /\ Goes(c, Free)
  /\ UNCHANGED <<granted, spent, stored, stale, deaths>>

\* Seeded fault: the refresh token of the row is kept.
KeepRow(old, got) ==
  [access |-> got.access, refresh |-> IF old.refresh # 0 THEN old.refresh ELSE got.refresh]

\* update_user_tokens, upsert_user: the new access token, and the refresh token
\* of GitHub's answer before the one the row had.
Kept(old, got) ==
  [access |-> got.access, refresh |-> IF got.refresh # 0 THEN got.refresh ELSE old.refresh]
SaveTokens(c) ==
  /\ call[c].at = "save"
  /\ stored' = Kept(call[c].row, call[c].got)
  /\ stale' = FALSE
  /\ Goes(c, Free)
  /\ UNCHANGED <<granted, spent, deaths>>

CallerDies(c) ==
  /\ deaths < MaxDeaths /\ deaths' = deaths + 1
  /\ call[c].at # "free"
  /\ Goes(c, Free)
  /\ UNCHANGED <<granted, spent, stored, stale>>

TokensNext ==
  \/ Expire
  \/ \E c \in Callers : Connect(c) \/ Read(c) \/ Use(c) \/ Refresh(c) \/ Refused(c)
                        \/ SaveTokens(c) \/ CallerDies(c)

TokensSpec == TokensInit /\ [][TokensNext]_tokenVars

\* No race locks a user out: the refresh token in the row is one GitHub still
\* takes, or a handler that took it there is about to store the next one.  Only
\* a process that ends in between loses it, and the user must connect again.
TokenKept ==
  deaths = 0 /\ stored.refresh \in spent =>
    \E c \in Callers : /\ call[c].at = "save"
                       /\ call[c].row.refresh = stored.refresh
=============================================================================
