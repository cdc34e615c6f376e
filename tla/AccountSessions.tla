--------------------------- MODULE AccountSessions ---------------------------
(***************************************************************************)
(* Accounts in SQLite: sign-in through GitHub, sessions, GitHub user       *)
(* tokens and their refresh, the allowlist, consent, erasure and the       *)
(* 30-day purge.  A row has an id of its own; GitHub accounts are known by *)
(* id and may change their login, and a login given up may be taken by     *)
(* another account.  Calls to GitHub are two steps, the call served and    *)
(* its answer received, and an answer may be lost.  What else an account   *)
(* does is kept for what it enters in the audit log.                       *)
(***************************************************************************)
EXTENDS Naturals, FiniteSets

CONSTANTS
  GithubAccounts,  \* GitHub user ids
  Names,           \* GitHub logins, in every spelling
  Lower,           \* Lower[n]: n in lower case
  FirstName,       \* FirstName[g]: the login g starts with
  EnvAllowlist,    \* DEPLOY_ALLOWLIST
  Calls,           \* bound: handlers waiting for GitHub or for a teardown
  MaxRows,         \* bound: rows ever inserted into users
  MaxGrants,       \* bound: refresh tokens GitHub issues
  MaxForeign,      \* bound: entries that are not an account's own
  Nobody

ASSUME AccountAssumption ==
  /\ FirstName \in [GithubAccounts -> Names]
  /\ Lower \in [Names -> Names]
  /\ \A g, h \in GithubAccounts : Lower[FirstName[g]] = Lower[FirstName[h]] => g = h
  /\ EnvAllowlist \subseteq Names
  /\ {MaxRows, MaxGrants, MaxForeign} \subseteq Nat
  /\ Nobody \notin GithubAccounts \cup Names
  /\ Names \cap (1..MaxRows) = {}   \* a login has no underscore, the placeholder has one

VARIABLES
  loginOf,    \* GitHub: the present login of an account
  valid,      \* GitHub: refresh tokens it accepts
  grants,     \* GitHub: how many refresh tokens it has issued
  users,      \* the users table
  sessions,   \* the sessions table: users with an unexpired session
  audit,      \* audit_log: who an entry names, and whose act it records
              \* (history: and whether that row was live and so spelled)
  call,       \* call[q]: the handler waiting in slot q
  renamed,    \* history: rows whose login changed while they were live
  broken      \* history: rows for which the answer to a rotation was lost

accountVars == <<loginOf, valid, grants, users, sessions, audit, call, renamed, broken>>

-----------------------------------------------------------------------------
(* Rows                                                                    *)

RowIds == 1..MaxRows
Unused == [state |-> "unused", github |-> Nobody, login |-> Nobody, allowed |-> FALSE,
           refresh |-> 0, fresh |-> FALSE]

\* The placeholder deleted_<id> is the id itself, as an actor and as a login Nobody.
UserRows == [state : {"unused", "live", "erased", "purged"},
             github : GithubAccounts \cup {Nobody}, login : Names \cup {Nobody},
             allowed : BOOLEAN, refresh : 0..MaxGrants,
             fresh : BOOLEAN]
AuditEntries == [actor : Names \cup RowIds, by : RowIds, own : BOOLEAN]

Waiting == [kind |-> "none", row |-> 0, github |-> Nobody, login |-> Nobody, token |-> 0]
CallRecords == [kind : {"none", "exchange", "signin", "refresh", "refreshed", "work", "erase"},
                row : 0..MaxRows, github : GithubAccounts \cup {Nobody},
                login : Names \cup {Nobody}, token : 0..MaxGrants]

AccountTypeOK ==
  /\ loginOf \in [GithubAccounts -> Names]
  /\ valid \subseteq 1..grants /\ grants \in 0..MaxGrants
  /\ users \in [RowIds -> UserRows]
  /\ sessions \subseteq RowIds
  /\ audit \subseteq AuditEntries
  /\ call \in [Calls -> CallRecords]
  /\ renamed \subseteq RowIds /\ broken \subseteq RowIds

Live(i) == users[i].state = "live"
HasRow(i) == users[i].state \in {"live", "erased"}

\* The spellings of one login; the allowlist knows it in any.
Spellings(n) == {m \in Names : n \in Names /\ Lower[m] = Lower[n]}
InEnv(n) == \E m \in EnvAllowlist : n \in Spellings(m)

\* An entry under the spelling s for an act of the row i.
Entry(s, i) == [actor |-> s, by |-> i, own |-> Live(i) /\ s = users[i].login]

AccountInit ==
  /\ loginOf = FirstName
  /\ valid = {} /\ grants = 0
  /\ users = [i \in RowIds |-> Unused]
  /\ sessions = {} /\ audit = {}
  /\ call = [q \in Calls |-> Waiting]
  /\ renamed = {} /\ broken = {}

github == <<loginOf, valid, grants>>

-----------------------------------------------------------------------------
(* GitHub                                                                  *)

\* An account takes a login no other has in any spelling.
Rename(g, n) ==
  /\ loginOf[g] # n
  /\ \A h \in GithubAccounts \ {g} : Lower[loginOf[h]] # Lower[n]
  /\ loginOf' = [loginOf EXCEPT ![g] = n]
  /\ UNCHANGED <<valid, grants, users, sessions, audit, call, renamed, broken>>

\* The code is exchanged and the user is read: tokens and the login of that moment.
ServeExchange(q) ==
  /\ call[q].kind = "exchange" /\ grants < MaxGrants
  /\ grants' = grants + 1 /\ valid' = valid \cup {grants + 1}
  /\ call' = [call EXCEPT ![q].kind = "signin", ![q].token = grants + 1,
                          ![q].login = loginOf[call[q].github]]
  /\ UNCHANGED <<loginOf, users, sessions, audit, renamed, broken>>

\* A refresh token is good for one rotation.
ServeRefresh(q) ==
  /\ call[q].kind = "refresh"
  /\ \/ /\ call[q].token \in valid /\ grants < MaxGrants
        /\ grants' = grants + 1
        /\ valid' = (valid \ {call[q].token}) \cup {grants + 1}
        /\ call' = [call EXCEPT ![q].kind = "refreshed", ![q].token = grants + 1]
     \/ /\ call[q].token \notin valid
        /\ call' = [call EXCEPT ![q] = Waiting]
        /\ UNCHANGED <<valid, grants>>
  /\ UNCHANGED <<loginOf, users, sessions, audit, renamed, broken>>

-----------------------------------------------------------------------------
(* Sign-in, sessions, consent                                              *)

StartExchange(q, g) ==
  /\ call[q].kind = "none"
  /\ call' = [call EXCEPT ![q] = [Waiting EXCEPT !.kind = "exchange", !.github = g]]
  /\ UNCHANGED <<github, users, sessions, audit, renamed, broken>>

\* INSERT ... ON CONFLICT(github_id) DO UPDATE: the row of the account, or a new
\* one; none when the UNIQUE login belongs to another row.
UpsertTargets(g, n) ==
  IF \E i \in RowIds : users[i].login = n /\ users[i].github # g
  THEN {}
  ELSE IF \E i \in RowIds : users[i].github = g
  THEN {i \in RowIds : users[i].github = g}
  ELSE {i \in RowIds : users[i].state = "unused" /\ \A j \in RowIds : j < i => users[j].state # "unused"}

SignedIn(i, g, n, t) ==
  [users[i] EXCEPT !.state = "live", !.github = g, !.login = n,
                   !.allowed = @ \/ InEnv(n), !.refresh = t, !.fresh = TRUE]

\* The answer: upsert, lazy seed of the allowlist, tokens, audit, session.
SignIn(q) ==
  /\ call[q].kind = "signin"
  /\ call' = [call EXCEPT ![q] = Waiting]
  /\ LET c == call[q] IN
     IF UpsertTargets(c.github, c.login) = {}
     THEN UNCHANGED <<users, sessions, audit, renamed, broken>>
     ELSE \E i \in UpsertTargets(c.github, c.login) :
       /\ users' = [users EXCEPT ![i] = SignedIn(i, c.github, c.login, c.token)]
       /\ audit' = audit \cup {[actor |-> c.login, by |-> i, own |-> TRUE]}
       /\ sessions' = sessions \cup {i}
       /\ renamed' = IF Live(i) /\ users[i].login # c.login THEN renamed \cup {i} ELSE renamed
       /\ broken' = broken \ {i}
  /\ UNCHANGED <<github>>

\* verifySessionToken and findById, as every guard and handler of the session does.
Verified(i) == i \in sessions /\ Live(i)

\* The user's last session ends, by logging out or by its age.
Logout(i) ==
  /\ i \in sessions
  /\ sessions' = sessions \ {i}
  /\ UNCHANGED <<github, users, audit, call, renamed, broken>>

AcceptConsent(i) ==
  /\ Verified(i)
  /\ audit' = audit \cup {Entry(users[i].login, i)}
  /\ UNCHANGED <<github, users, sessions, call, renamed, broken>>

\* Any other audited request or turn of a cron: it holds the row, and its login, over
\* calls to GitHub and to the cluster.
StartWork(q, i) ==
  /\ call[q].kind = "none" /\ Live(i)
  /\ call' = [call EXCEPT ![q] = [Waiting EXCEPT !.kind = "work", !.row = i,
                                                !.login = users[i].login]]
  /\ UNCHANGED <<github, users, sessions, audit, renamed, broken>>

\* Its entry, whatever has become of the row: under the login held, in lower case, or
\* as the address spelled it.
FinishWork(q) ==
  /\ call[q].kind = "work"
  /\ \E s \in Spellings(call[q].login) : audit' = audit \cup {Entry(s, call[q].row)}
  /\ Cardinality({e \in audit' : ~e.own}) <= MaxForeign
  /\ call' = [call EXCEPT ![q] = Waiting]
  /\ UNCHANGED <<github, users, sessions, renamed, broken>>

-----------------------------------------------------------------------------
(* User tokens                                                             *)

\* The access token is within a minute of its end.
TokenAges(i) ==
  /\ users[i].fresh
  /\ users' = [users EXCEPT ![i].fresh = FALSE]
  /\ UNCHANGED <<github, sessions, audit, call, renamed, broken>>

\* getValidAccessToken, for a handler that holds the row of a session: only a stale
\* token needs GitHub.
StartRefresh(q, i) ==
  /\ call[q].kind = "none"
  /\ Verified(i) /\ users[i].refresh # 0 /\ ~users[i].fresh
  /\ call' = [call EXCEPT ![q] = [Waiting EXCEPT !.kind = "refresh", !.row = i,
                                                !.token = users[i].refresh]]
  /\ UNCHANGED <<github, users, sessions, audit, renamed, broken>>

RotatedAccessOnly(i, t) == [users[i] EXCEPT !.fresh = TRUE]
Rotated(i, t) == [users[i] EXCEPT !.refresh = t, !.fresh = TRUE]

\* saveTokens: UPDATE ... WHERE id, whatever has become of the row.
SaveRefreshed(q) ==
  /\ call[q].kind = "refreshed"
  /\ LET i == call[q].row IN
     users' = IF HasRow(i) THEN [users EXCEPT ![i] = Rotated(i, call[q].token)] ELSE users
  /\ call' = [call EXCEPT ![q] = Waiting]
  /\ UNCHANGED <<github, sessions, audit, renamed, broken>>

\* The call failed, or was served and its answer is lost.
LoseAnswer(q) ==
  /\ call[q].kind \in {"exchange", "signin", "refresh", "refreshed", "work"}
  /\ broken' = IF call[q].kind = "refreshed" THEN broken \cup {call[q].row} ELSE broken
  /\ call' = [call EXCEPT ![q] = Waiting]
  /\ UNCHANGED <<github, users, sessions, audit, renamed>>

-----------------------------------------------------------------------------
(* The allowlist and the boot                                              *)

PatchUser(n, b) ==
  /\ \E i \in RowIds : users[i].login \in Spellings(n)
  /\ users' = [i \in RowIds |-> IF users[i].login \in Spellings(n)
                                THEN [users[i] EXCEPT !.allowed = b] ELSE users[i]]
  /\ UNCHANGED <<github, sessions, audit, call, renamed, broken>>

\* The process stops: what waits is lost; seedAllowlist runs at the next boot.
Reboot ==
  /\ call' = [q \in Calls |-> Waiting]
  /\ broken' = broken \cup {call[q].row : q \in {r \in Calls : call[r].kind = "refreshed"}}
  /\ users' = [i \in RowIds |-> IF InEnv(users[i].login)
                                THEN [users[i] EXCEPT !.allowed = TRUE] ELSE users[i]]
  /\ UNCHANGED <<github, sessions, audit, renamed>>

-----------------------------------------------------------------------------
(* Erasure and purge                                                       *)

\* DELETE /account holds the account's lock and awaits the teardown.
StartErasure(q, i) ==
  /\ call[q].kind = "none" /\ Verified(i)
  /\ \A r \in Calls : ~(call[r].kind = "erase" /\ call[r].row = i)
  /\ call' = [call EXCEPT ![q] = [Waiting EXCEPT !.kind = "erase", !.row = i,
                                                !.login = users[i].login]]
  /\ UNCHANGED <<github, users, sessions, audit, renamed, broken>>

Erased(i) == [Unused EXCEPT !.state = "erased"]

SessionsKept(i) == sessions
SessionsWithout(i) == sessions \ {i}

AnonymisedEmpty(entries, i) ==
  {IF e.actor = users[i].login THEN [e EXCEPT !.actor = Nobody] ELSE e : e \in entries}

\* Mutant: in lower case, as the login of the reservations is.
AnonymisedLowered(entries, i) ==
  {IF e.actor = Lower[users[i].login] THEN [e EXCEPT !.actor = i] ELSE e : e \in entries}

\* softDeleteUser's UPDATE of audit_log, by the login as the row spells it.
Anonymised(entries, i) ==
  {IF e.actor = users[i].login THEN [e EXCEPT !.actor = i] ELSE e : e \in entries}

\* The ACCOUNT_DELETE entry, then softDeleteUser in one transaction.
FinishErasure(q) ==
  /\ call[q].kind = "erase"
  /\ LET i == call[q].row IN
     /\ audit' = Anonymised(audit \cup {Entry(call[q].login, i)}, i)
     /\ users' = [users EXCEPT ![i] = Erased(i)]
     /\ sessions' = SessionsWithout(i)
  /\ call' = [call EXCEPT ![q] = Waiting]
  /\ UNCHANGED <<github, renamed, broken>>

\* hardDeleteOldUsers: the rows thirty days past their erasure, any of the erased
\* here, and the entries under their placeholders.
Purge(old) ==
  /\ old # {}
  /\ users' = [i \in RowIds |-> IF i \in old THEN [Unused EXCEPT !.state = "purged"] ELSE users[i]]
  /\ audit' = {e \in audit : e.actor \notin old}
  /\ UNCHANGED <<github, sessions, call, renamed, broken>>

-----------------------------------------------------------------------------
AccountNext ==
  \/ \E g \in GithubAccounts, n \in Names : Rename(g, n)
  \/ \E q \in Calls : \/ ServeExchange(q) \/ ServeRefresh(q)
                      \/ SignIn(q) \/ SaveRefreshed(q) \/ LoseAnswer(q)
                      \/ FinishWork(q) \/ FinishErasure(q)
  \/ \E q \in Calls, g \in GithubAccounts : StartExchange(q, g)
  \/ \E i \in sessions : Logout(i) \/ AcceptConsent(i)
  \/ \E q \in Calls, i \in sessions : StartRefresh(q, i) \/ StartErasure(q, i)
  \/ \E i \in RowIds : TokenAges(i)
  \/ \E q \in Calls, i \in RowIds : StartWork(q, i)
  \/ \E n \in Names, b \in BOOLEAN : PatchUser(n, b)
  \/ Reboot
  \/ \E old \in SUBSET {i \in RowIds : users[i].state = "erased"} : Purge(old)

AccountSpec == AccountInit /\ [][AccountNext]_accountVars

-----------------------------------------------------------------------------
(* Properties                                                              *)

\* A session outlives neither its account nor its erasure: what hasSession accepts
\* belongs to a row findById returns, and a login or a GitHub id leads to one row
\* (auth.service verifySessionToken, users.repository softDeleteUser, upsertUser).
SessionsLive ==
  /\ \A i \in sessions : Live(i)
  /\ \A i, j \in RowIds : Live(i) /\ Live(j) /\ i # j =>
       users[i].github # users[j].github /\ users[i].login # users[j].login

\* However sign-ins and refreshes of one account overlap, the refresh token in a row
\* is one GitHub still accepts or one whose rotation is on its way, unless the answer
\* to a rotation was lost (auth.service getValidAccessToken, exchangeCodeForUser).
ChainUnbroken ==
  \A i \in RowIds : users[i].refresh # 0 /\ i \notin broken =>
    \/ users[i].refresh \in valid
    \/ \E q \in Calls : call[q].kind = "refreshed" /\ call[q].row = i

\* Of an account whose login never changed, the entries written while its row was live
\* and in the row's own spelling: an erasure puts every one under the placeholder and the
\* purge deletes it, and no erasure of another account touches it before.  Entries in
\* lower case, as domain.service writes them, or written by a handler the erasure did not
\* wait for stay under the login (users.repository softDeleteUser, hardDeleteOldUsers).
OwnEntriesFollowTheRow ==
  \A e \in audit : e.own /\ e.by \notin renamed =>
    /\ Live(e.by) => e.actor = users[e.by].login
    /\ users[e.by].state = "erased" => e.actor = e.by
    /\ users[e.by].state # "purged"

\* Of what an erasure leaves behind, the sessions and these entries.
ErasureComplete == SessionsLive /\ OwnEntriesFollowTheRow
=============================================================================
