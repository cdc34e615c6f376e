--------------------------- MODULE AccountProofs ----------------------------
(***************************************************************************)
(* What the proof system establishes of accounts and of signing in: what   *)
(* an erasure leaves behind and the chain of refresh tokens, for any number*)
(* of accounts, logins, rows and handlers waiting for GitHub; the way back *)
(* from GitHub and the consent to the policies, for any number of tabs,    *)
(* returns and revisions.                                                  *)
(***************************************************************************)
EXTENDS AccountSessions, SignInCookies, ConsentGate, TLAPS

Holds(q) == call[q].kind \in {"signin", "refresh", "refreshed"}
HasAnswer(q) == call[q].kind \in {"signin", "refreshed"}

\* A token is one GitHub issued, and known to one row.
RowTokens ==
  /\ \A i, j \in RowIds : users[i].refresh # 0 /\ users[i].refresh = users[j].refresh => i = j
  /\ \A i \in RowIds : users[i].refresh <= grants
  /\ \A i \in RowIds : users[i].state \in {"unused", "purged"} => users[i].refresh = 0

CallTokens ==
  \A q \in Calls : /\ Holds(q) => call[q].token # 0 /\ call[q].token <= grants
                   /\ call[q].kind \in {"refresh", "refreshed"} => call[q].row \in RowIds

\* The one in an answer on its way is good, and nobody else has it.
AnswersOwned ==
  \A q \in Calls : HasAnswer(q) =>
    /\ call[q].token \in valid
    /\ \A i \in RowIds : users[i].refresh # call[q].token
    /\ \A r \in Calls : r # q /\ Holds(r) => call[r].token # call[q].token

\* A refresh under way asks with the token of its own row, as it is or as it was.
AsksOwned ==
  \A q \in Calls : call[q].kind = "refresh" =>
    \A i \in RowIds : users[i].refresh = call[q].token => i = call[q].row

TokensOwned == RowTokens /\ CallTokens /\ AnswersOwned /\ AsksOwned

\* Only a live row has a login and an account, and no two rows the same.
RowsApart ==
  /\ \A i \in RowIds : IF Live(i) THEN users[i].github \in GithubAccounts /\ users[i].login \in Names
                       ELSE users[i].github = Nobody /\ users[i].login = Nobody
  /\ SessionsLive
  /\ \A q \in Calls : call[q].kind \in {"exchange", "signin"} => call[q].github \in GithubAccounts
  /\ \A q \in Calls : call[q].kind = "signin" => call[q].login \in Names

\* An entry of its own names the login of a live row, the placeholder of an erased one.
EntriesNamed ==
  /\ \A e \in audit : users[e.by].state # "unused"
  /\ \A e \in audit : e.own /\ e.by \notin renamed =>
       /\ Live(e.by) => e.actor = users[e.by].login
       /\ users[e.by].state = "erased" => e.actor = e.by
       /\ users[e.by].state # "purged"
  /\ \A q \in Calls : call[q].kind = "erase" =>
       /\ call[q].row \in RowIds /\ Live(call[q].row) /\ call[q].login \in Names
       /\ call[q].row \notin renamed => call[q].login = users[call[q].row].login
       /\ \A r \in Calls : call[r].kind = "erase" /\ call[r].row = call[q].row => r = q
  /\ \A q \in Calls : call[q].kind = "work" =>
       call[q].row \in RowIds /\ users[call[q].row].state # "unused"

AccountInv == AccountTypeOK /\ RowsApart /\ EntriesNamed /\ TokensOwned /\ ChainUnbroken

LEMMA AccountsBegin == ASSUME AccountAssumption, AccountInit PROVE AccountInv
<1>1. AccountTypeOK
  BY DEF AccountAssumption, AccountInit, AccountTypeOK, UserRows, Unused, CallRecords, Waiting, RowIds
<1>2. RowsApart /\ EntriesNamed
  BY DEF AccountInit, RowsApart, SessionsLive, EntriesNamed, Live, Unused, Waiting
<1>3. TokensOwned /\ ChainUnbroken
  BY DEF AccountInit, TokensOwned, RowTokens, CallTokens, AnswersOwned, AsksOwned, ChainUnbroken,
     HasAnswer, Holds, Unused, Waiting, AccountAssumption
<1>4. QED
  BY <1>1, <1>2, <1>3 DEF AccountInv

LEMMA WaitingIsACall ==
  ASSUME AccountAssumption PROVE Waiting \in CallRecords /\ Waiting.kind = "none"
BY DEF Waiting, CallRecords, AccountAssumption

LEMMA UnusedIsARow ==
  ASSUME AccountAssumption
  PROVE  /\ Unused \in UserRows /\ Unused.github = Nobody /\ Unused.login = Nobody /\ Unused.refresh = 0
         /\ DOMAIN Unused = {"state", "github", "login", "allowed", "refresh", "fresh"}
BY DEF Unused, UserRows, AccountAssumption

\* Rows that keep their state, account and login stay apart.
LEMMA RowsStay ==
  ASSUME AccountTypeOK, RowsApart, sessions' \subseteq sessions,
         \A i \in RowIds : /\ users'[i].state = users[i].state /\ users'[i].github = users[i].github
                           /\ users'[i].login = users[i].login,
         \A q \in Calls : call'[q].kind \in {"exchange", "signin"} => call'[q].github \in GithubAccounts,
         \A q \in Calls : call'[q].kind = "signin" => call'[q].login \in Names
  PROVE  RowsApart'
<1>1. \A i \in RowIds : Live(i)' <=> Live(i)
  BY DEF Live
<1>2. SessionsLive'
  BY <1>1 DEF RowsApart, SessionsLive, AccountTypeOK
<1>3. QED
  BY <1>1, <1>2 DEF RowsApart

\* So do the entries, if no erasure begins.
LEMMA EntriesStay ==
  ASSUME AccountTypeOK, EntriesNamed, audit' \subseteq audit, UNCHANGED renamed,
         \A i \in RowIds : users'[i].state = users[i].state /\ users'[i].login = users[i].login,
         \A q \in Calls : call'[q].kind = "erase" =>
           call[q].kind = "erase" /\ call'[q].row = call[q].row /\ call'[q].login = call[q].login,
         \A q \in Calls : call'[q].kind = "work" =>
           call[q].kind = "work" /\ call'[q].row = call[q].row
  PROVE  EntriesNamed'
<1>1. \A i \in RowIds : Live(i)' <=> Live(i)
  BY DEF Live
<1>2. \A e \in audit' : e \in audit /\ e.by \in RowIds
  BY DEF AccountTypeOK, AuditEntries
<1>3. QED
  BY <1>1, <1>2 DEF EntriesNamed

\* And the tokens, when no call takes or gives one up.
LEMMA TokensStay ==
  ASSUME TokensOwned, ChainUnbroken, UNCHANGED <<valid, grants, broken>>,
         \A i \in RowIds : users'[i].state = users[i].state /\ users'[i].refresh = users[i].refresh,
         \A q \in Calls : Holds(q)' =>
           call'[q].kind = call[q].kind /\ call'[q].row = call[q].row /\ call'[q].token = call[q].token,
         \A q \in Calls : call[q].kind = "refreshed" => call'[q] = call[q]
  PROVE  TokensOwned' /\ ChainUnbroken'
<1>1. \A q \in Calls : (Holds(q)' => Holds(q)) /\ (HasAnswer(q)' => HasAnswer(q) /\ Holds(q)')
  BY DEF Holds, HasAnswer
<1>2. TokensOwned'
  <2>1. RowTokens'
    BY DEF TokensOwned, RowTokens
  <2>2. CallTokens'
    BY <1>1 DEF TokensOwned, CallTokens, Holds
  <2>3. AnswersOwned'
    BY <1>1 DEF TokensOwned, AnswersOwned
  <2>4. AsksOwned'
    BY DEF TokensOwned, AsksOwned, Holds
  <2>5. QED
    BY <2>1, <2>2, <2>3, <2>4 DEF TokensOwned
<1>3. ChainUnbroken'
  BY DEF ChainUnbroken
<1>4. QED
  BY <1>2, <1>3

-----------------------------------------------------------------------------
(* The steps                                                               *)

\* A call that is begun or given up.
LEMMA CallBegins ==
  ASSUME AccountAssumption, AccountInv, NEW q \in Calls, NEW c \in CallRecords,
         UNCHANGED <<loginOf, valid, grants, users, sessions, audit, renamed, broken>>,
         call' = [call EXCEPT ![q] = c], call[q].kind # "refreshed", c.kind \notin {"signin", "refreshed"},
         c.kind = "exchange" => c.github \in GithubAccounts,
         c.kind = "refresh" => /\ c.row \in RowIds /\ c.token = users[c.row].refresh /\ c.token # 0,
         c.kind = "erase" => /\ c.row \in RowIds /\ Live(c.row) /\ c.login = users[c.row].login
                             /\ \A r \in Calls : ~(call[r].kind = "erase" /\ call[r].row = c.row),
         c.kind = "work" => c.row \in RowIds /\ Live(c.row)
  PROVE  AccountInv'
<1>0. AccountTypeOK
  BY DEF AccountInv
<1>1. \A r \in Calls : call'[r] = IF r = q THEN c ELSE call[r]
  BY <1>0 DEF AccountTypeOK
<1>2. AccountTypeOK'
  BY DEF AccountInv, AccountTypeOK
<1>3. RowsApart'
  BY <1>1, RowsStay DEF AccountInv, RowsApart
<1>4. EntriesNamed'
  BY <1>1 DEF AccountInv, EntriesNamed, RowsApart, Live
<1>5. TokensOwned'
  <2>1. \A r \in Calls : /\ HasAnswer(r)' => HasAnswer(r) /\ r # q
                         /\ Holds(r)' => IF r = q THEN c.kind = "refresh" ELSE Holds(r)
    BY <1>1 DEF Holds, HasAnswer
  <2>2. RowTokens' /\ CallTokens'
    BY <1>0, <1>1, <2>1 DEF AccountInv, AccountTypeOK, UserRows, TokensOwned, RowTokens, CallTokens
  <2>3. AnswersOwned'
    BY <1>1, <2>1 DEF AccountInv, TokensOwned, AnswersOwned
  <2>4. AsksOwned'
    BY <1>1 DEF AccountInv, TokensOwned, RowTokens, AsksOwned
  <2>5. QED
    BY <2>2, <2>3, <2>4 DEF TokensOwned
<1>6. ChainUnbroken'
  BY <1>1 DEF AccountInv, ChainUnbroken
<1>7. QED
  BY <1>2, <1>3, <1>4, <1>5, <1>6 DEF AccountInv

LEMMA ExchangeServed ==
  ASSUME AccountAssumption, AccountInv, NEW q \in Calls, ServeExchange(q) PROVE AccountInv'
<1> DEFINE c == [call[q] EXCEPT !.kind = "signin", !.token = grants + 1, !.login = loginOf[call[q].github]]
<1>0. AccountTypeOK /\ grants \in Nat /\ MaxGrants \in Nat
  BY DEF AccountInv, AccountTypeOK, AccountAssumption
<1>1. /\ call[q].kind = "exchange" /\ grants' = grants + 1 /\ valid' = valid \cup {grants + 1}
      /\ call' = [call EXCEPT ![q] = c] /\ UNCHANGED <<loginOf, users, sessions, audit, renamed, broken>>
      /\ grants < MaxGrants
  BY DEF ServeExchange
<1>10. grants + 1 \in 0..MaxGrants /\ call[q].github \in GithubAccounts
  BY <1>0, <1>1 DEF AccountInv, RowsApart
<1>2. /\ c \in CallRecords /\ c.kind = "signin" /\ c.token = grants + 1 /\ c.login \in Names
      /\ c.github \in GithubAccounts
  <2>1. call[q] \in CallRecords /\ loginOf[call[q].github] \in Names
    BY <1>0, <1>10 DEF AccountTypeOK
  <2>2. QED
    BY <1>1, <1>10, <2>1 DEF CallRecords
<1> HIDE DEF c
<1>3. \A r \in Calls : call'[r] = IF r = q THEN c ELSE call[r]
  BY <1>0, <1>1 DEF AccountTypeOK
<1>4. AccountTypeOK'
  <2>1. valid' \subseteq 1..grants' /\ grants' \in 0..MaxGrants
    BY <1>0, <1>1, <1>10 DEF AccountTypeOK
  <2>2. QED
    BY <1>0, <1>1, <1>2, <2>1 DEF AccountTypeOK
<1>5. RowsApart'
  BY <1>1, <1>2, <1>3, RowsStay DEF AccountInv, RowsApart
<1>6. EntriesNamed'
  BY <1>1, <1>2, <1>3, EntriesStay DEF AccountInv
<1>7. TokensOwned'
  <2>1. \A i \in RowIds : users[i].refresh \in Nat /\ users[i].refresh < grants + 1
    BY <1>0 DEF AccountInv, TokensOwned, RowTokens, AccountTypeOK, UserRows
  <2>2. \A r \in Calls : call[r].token \in Nat /\ (Holds(r) => call[r].token < grants + 1)
    BY <1>0 DEF AccountInv, TokensOwned, CallTokens, AccountTypeOK, CallRecords
  <2>3. \A r \in Calls : /\ r # q => (Holds(r)' <=> Holds(r)) /\ (HasAnswer(r)' <=> HasAnswer(r))
                         /\ r = q => Holds(r)' /\ HasAnswer(r)'
    BY <1>2, <1>3 DEF Holds, HasAnswer
  <2>4. RowTokens' /\ CallTokens'
    BY <1>0, <1>1, <1>2, <1>3, <2>1, <2>2, <2>3 DEF AccountInv, TokensOwned, RowTokens, CallTokens
  <2>5. AnswersOwned'
    <3>1. SUFFICES ASSUME NEW r \in Calls, HasAnswer(r)'
          PROVE  /\ call'[r].token \in valid' /\ \A i \in RowIds : users'[i].refresh # call'[r].token
                 /\ \A t \in Calls : t # r /\ Holds(t)' => call'[t].token # call'[r].token
      BY DEF AnswersOwned
    <3>2. CASE r = q
      BY <1>1, <1>2, <1>3, <2>1, <2>2, <2>3, <3>2
    <3>3. CASE r # q
      <4>1. HasAnswer(r) /\ Holds(r) /\ call'[r] = call[r] /\ call[r].token < grants + 1
        BY <1>3, <2>2, <2>3, <3>1, <3>3 DEF HasAnswer, Holds
      <4>2. QED
        BY <1>1, <1>2, <1>3, <2>2, <2>3, <3>3, <4>1 DEF AccountInv, TokensOwned, AnswersOwned
    <3>4. QED
      BY <3>2, <3>3
  <2>6. AsksOwned'
    BY <1>1, <1>2, <1>3 DEF AccountInv, TokensOwned, AsksOwned
  <2>7. QED
    BY <2>4, <2>5, <2>6 DEF TokensOwned
<1>8. ChainUnbroken'
  BY <1>1, <1>2, <1>3 DEF AccountInv, ChainUnbroken
<1>9. QED
  BY <1>4, <1>5, <1>6, <1>7, <1>8 DEF AccountInv

\* A rotation takes the token from the row the call is about, and from no other.
LEMMA RefreshServed ==
  ASSUME AccountAssumption, AccountInv, NEW q \in Calls, ServeRefresh(q) PROVE AccountInv'
<1> DEFINE old == call[q].token
<1>1. CASE old \notin valid
  <2>1. /\ call[q].kind = "refresh" /\ call' = [call EXCEPT ![q] = Waiting]
        /\ UNCHANGED <<loginOf, valid, grants, users, sessions, audit, renamed, broken>>
    BY <1>1 DEF ServeRefresh
  <2>2. QED
    BY <2>1, CallBegins, WaitingIsACall
<1>2. CASE old \in valid
  <2> DEFINE c == [call[q] EXCEPT !.kind = "refreshed", !.token = grants + 1]
  <2>1. AccountTypeOK /\ grants \in Nat /\ MaxGrants \in Nat
    BY DEF AccountInv, AccountTypeOK, AccountAssumption
  <2>2. /\ call[q].kind = "refresh" /\ grants' = grants + 1 /\ valid' = (valid \ {old}) \cup {grants + 1}
        /\ call' = [call EXCEPT ![q] = c]
        /\ UNCHANGED <<loginOf, users, sessions, audit, renamed, broken>>
        /\ grants < MaxGrants
    BY <1>2 DEF ServeRefresh
  <2>3. grants + 1 \in 0..MaxGrants /\ call[q].row \in RowIds
    BY <2>1, <2>2 DEF AccountInv, TokensOwned, CallTokens
  <2>4. c \in CallRecords /\ c.kind = "refreshed" /\ c.token = grants + 1 /\ c.row = call[q].row
    <3>1. call[q] \in CallRecords
      BY <2>1 DEF AccountTypeOK
    <3>2. QED
      BY <2>3, <3>1 DEF CallRecords
  <2> HIDE DEF c
  <2>5. \A r \in Calls : call'[r] = IF r = q THEN c ELSE call[r]
    BY <2>1, <2>2 DEF AccountTypeOK
  <2>6. AccountTypeOK'
    <3>1. valid' \subseteq 1..grants' /\ grants' \in 0..MaxGrants
      <4>1. valid \subseteq 1..grants /\ 1..grants \subseteq 1..(grants + 1) /\ grants + 1 \in 1..(grants + 1)
        BY <2>1 DEF AccountTypeOK
      <4>2. QED
        BY <2>2, <2>3, <4>1
    <3>2. QED
      BY <2>1, <2>2, <2>4, <3>1 DEF AccountTypeOK
  <2>7. RowsApart'
    BY <2>1, <2>2, <2>4, <2>5, RowsStay DEF AccountInv, RowsApart
  <2>8. EntriesNamed'
    BY <2>1, <2>2, <2>4, <2>5, EntriesStay DEF AccountInv
  <2>9. TokensOwned'
    <3>1. \A i \in RowIds : users[i].refresh \in Nat /\ users[i].refresh < grants + 1
      BY <2>1 DEF AccountInv, TokensOwned, RowTokens, AccountTypeOK, UserRows
    <3>2. \A r \in Calls : call[r].token \in Nat /\ (Holds(r) => call[r].token < grants + 1)
      BY <2>1 DEF AccountInv, TokensOwned, CallTokens, AccountTypeOK, CallRecords
    <3>3. \A r \in Calls : HasAnswer(r) => r # q /\ call[r].token # old
      BY <2>2 DEF AccountInv, TokensOwned, AnswersOwned, HasAnswer, Holds
    <3>4. \A r \in Calls : /\ r # q => (Holds(r)' <=> Holds(r)) /\ (HasAnswer(r)' <=> HasAnswer(r))
                           /\ r = q => Holds(r)' /\ HasAnswer(r)'
      BY <2>4, <2>5 DEF Holds, HasAnswer
    <3>5. RowTokens' /\ CallTokens'
      BY <2>1, <2>2, <2>3, <2>4, <2>5, <3>1, <3>2, <3>4 DEF AccountInv, TokensOwned, RowTokens, CallTokens
    <3>6. AnswersOwned'
      <4>1. SUFFICES ASSUME NEW r \in Calls, HasAnswer(r)'
            PROVE  /\ call'[r].token \in valid' /\ \A i \in RowIds : users'[i].refresh # call'[r].token
                   /\ \A t \in Calls : t # r /\ Holds(t)' => call'[t].token # call'[r].token
        BY DEF AnswersOwned
      <4>2. CASE r = q
        BY <2>2, <2>4, <2>5, <3>1, <3>2, <3>4, <4>2
      <4>3. CASE r # q
        <5>1. HasAnswer(r) /\ Holds(r) /\ call'[r] = call[r] /\ call[r].token < grants + 1
          BY <2>5, <3>2, <3>4, <4>1, <4>3 DEF HasAnswer, Holds
        <5>2. call[r].token \in valid'
          BY <2>2, <3>3, <5>1 DEF AccountInv, TokensOwned, AnswersOwned
        <5>3. QED
          BY <2>2, <2>4, <2>5, <3>2, <3>4, <4>3, <5>1, <5>2 DEF AccountInv, TokensOwned, AnswersOwned
      <4>4. QED
        BY <4>2, <4>3
    <3>7. AsksOwned'
      BY <2>2, <2>4, <2>5 DEF AccountInv, TokensOwned, AsksOwned
    <3>8. QED
      BY <3>5, <3>6, <3>7 DEF TokensOwned
  <2>10. ChainUnbroken'
    <3>1. \A i \in RowIds : users[i].refresh = old => i = c.row
      BY <2>2, <2>4 DEF AccountInv, TokensOwned, AsksOwned
    <3>2. QED
      BY <2>2, <2>4, <2>5, <3>1 DEF AccountInv, ChainUnbroken
  <2>11. QED
    BY <2>6, <2>7, <2>8, <2>9, <2>10 DEF AccountInv
<1>3. QED
  BY <1>1, <1>2

\* The same account in the same state, with the same token to refresh.
SameRow(u, w) ==
  w \in UserRows /\ w.state = u.state /\ w.github = u.github /\ w.login = u.login /\ w.refresh = u.refresh

\* What leaves the rows as they are for the others: calls may be given up, and the tokens
\* of a lost answer are known to be lost.
Quiet ==
  /\ UNCHANGED <<valid, grants, renamed>> /\ sessions' \subseteq sessions
  /\ \A i \in RowIds : SameRow(users[i], users'[i])
  /\ \A e \in audit' : \/ e \in audit
                       \/ /\ users[e.by].state # "unused"
                          /\ e.own => Live(e.by) /\ e.actor = users[e.by].login
  /\ \A q \in Calls : call'[q] = call[q] \/ call'[q] = Waiting
  /\ broken \subseteq broken'
  /\ \A q \in Calls : call[q].kind = "refreshed" => call'[q] = call[q] \/ call[q].row \in broken'

LEMMA RowsAlike ==
  ASSUME NEW u \in UserRows, NEW b \in BOOLEAN
  PROVE  /\ SameRow(u, u) /\ SameRow(u, [u EXCEPT !.allowed = b])
         /\ SameRow(u, [u EXCEPT !.fresh = b])
BY DEF SameRow, UserRows

LEMMA QuietStep == ASSUME AccountInv, AccountTypeOK', Quiet PROVE AccountInv'
<1> USE DEF Quiet, SameRow
<1>1. AccountTypeOK /\ Waiting.kind = "none"
  BY DEF AccountInv, Waiting
<1>2. \A q \in Calls : call'[q].kind # "none" => call'[q] = call[q]
  BY <1>1
<1>3. RowsApart'
  BY <1>1, <1>2, RowsStay DEF AccountInv, RowsApart
<1>4. EntriesNamed'
  <2>1. \A i \in RowIds : Live(i)' <=> Live(i)
    BY DEF Live
  <2>2. \A e \in audit' : e.by \in RowIds
    BY DEF AccountTypeOK, AuditEntries
  <2>3. \A e \in audit' : users'[e.by].state # "unused"
    BY <2>2 DEF AccountInv, EntriesNamed, Live
  <2>4. ASSUME NEW e \in audit', e.own, e.by \notin renamed
        PROVE  /\ Live(e.by) => e.actor = users[e.by].login
               /\ users[e.by].state = "erased" => e.actor = e.by
               /\ users[e.by].state # "purged"
    BY <2>4 DEF AccountInv, EntriesNamed, Live
  <2>5. QED
    BY <1>2, <2>1, <2>2, <2>3, <2>4 DEF AccountInv, EntriesNamed
<1>5. TokensOwned'
  <2>1. \A q \in Calls : /\ Holds(q)' => Holds(q) /\ call'[q] = call[q]
                         /\ HasAnswer(q)' => HasAnswer(q)
    BY <1>2 DEF Holds, HasAnswer
  <2>2. RowTokens'
    BY DEF AccountInv, TokensOwned, RowTokens
  <2>3. CallTokens'
    BY <1>2, <2>1 DEF AccountInv, TokensOwned, CallTokens
  <2>4. AnswersOwned'
    <3>1. \A q \in Calls : HasAnswer(q)' => call'[q] = call[q]
      BY <1>2 DEF HasAnswer
    <3>2. QED
      BY <2>1, <3>1 DEF AccountInv, TokensOwned, AnswersOwned
  <2>5. AsksOwned'
    BY <1>2 DEF AccountInv, TokensOwned, AsksOwned
  <2>6. QED
    BY <2>2, <2>3, <2>4, <2>5 DEF TokensOwned
<1>6. ChainUnbroken'
  BY DEF AccountInv, ChainUnbroken
<1>7. QED
  BY <1>3, <1>4, <1>5, <1>6 DEF AccountInv

LEMMA EntryTyped ==
  ASSUME NEW s \in Names, NEW i \in RowIds
  PROVE  /\ Entry(s, i) \in AuditEntries /\ Entry(s, i).by = i /\ Entry(s, i).actor = s
         /\ Entry(s, i).own => Live(i) /\ s = users[i].login
<1>1. (Live(i) /\ s = users[i].login) \in BOOLEAN
  OBVIOUS
<1>2. QED
  BY <1>1 DEF Entry, AuditEntries

\* An entry in the audit log is all that is left of the call that ends with it.
LEMMA EntryAdded ==
  ASSUME AccountInv, NEW s \in Names, NEW i \in RowIds, users[i].state # "unused",
         audit' = audit \cup {Entry(s, i)}, call' \in [Calls -> CallRecords],
         UNCHANGED <<loginOf, valid, grants, users, sessions, renamed, broken>>,
         \A q \in Calls : call'[q] = call[q] \/ (call'[q] = Waiting /\ call[q].kind # "refreshed")
  PROVE  AccountInv'
<1>1. AccountTypeOK
  BY DEF AccountInv
<1>2. /\ Entry(s, i) \in AuditEntries /\ Entry(s, i).by = i
      /\ Entry(s, i).own => Live(i) /\ Entry(s, i).actor = users[i].login
  BY EntryTyped
<1>3. AccountTypeOK'
  BY <1>1, <1>2 DEF AccountTypeOK
<1>4. \A j \in RowIds : SameRow(users[j], users'[j])
  BY <1>1, RowsAlike DEF AccountTypeOK
<1>5. Quiet
  BY <1>2, <1>4 DEF Quiet
<1>6. QED
  BY <1>3, <1>5, QuietStep

LEMMA QuietActions ==
  ASSUME AccountAssumption, AccountInv,
         \/ UNCHANGED accountVars \/ Reboot
         \/ \E g \in GithubAccounts, n \in Names : Rename(g, n)
         \/ \E q \in Calls : LoseAnswer(q) \/ FinishWork(q)
         \/ \E i \in sessions : Logout(i) \/ AcceptConsent(i)
         \/ \E i \in RowIds : TokenAges(i)
         \/ \E n \in Names, b \in BOOLEAN : PatchUser(n, b)
  PROVE  AccountInv'
<1>1. AccountTypeOK /\ Waiting \in CallRecords
  BY WaitingIsACall DEF AccountInv
<1>2. CASE UNCHANGED accountVars
  <2>1. AccountTypeOK'
    BY <1>1, <1>2 DEF accountVars, AccountTypeOK
  <2>2. Quiet
    BY <1>1, <1>2, RowsAlike DEF accountVars, AccountTypeOK, Quiet
  <2>3. QED
    BY <2>1, <2>2, QuietStep
<1>3. CASE Reboot
  <2>1. /\ users' = [i \in RowIds |-> IF InEnv(users[i].login)
                                      THEN [users[i] EXCEPT !.allowed = TRUE] ELSE users[i]]
        /\ call' = [q \in Calls |-> Waiting]
        /\ UNCHANGED <<loginOf, valid, grants, sessions, audit, renamed>>
        /\ broken' = broken \cup {call[q].row : q \in {r \in Calls : call[r].kind = "refreshed"}}
    BY <1>3 DEF Reboot, github
  <2>2. \A i \in RowIds : SameRow(users[i], users'[i])
    BY <1>1, <2>1, RowsAlike DEF AccountTypeOK
  <2>3. broken' \subseteq RowIds
    BY <1>1, <2>1 DEF AccountInv, AccountTypeOK, TokensOwned, CallTokens
  <2>4. AccountTypeOK'
    BY <1>1, <2>1, <2>2, <2>3 DEF AccountTypeOK, SameRow
  <2>5. Quiet
    BY <2>1, <2>2, <2>4 DEF Quiet
  <2>6. QED
    BY <2>4, <2>5, QuietStep
<1>4. ASSUME NEW g \in GithubAccounts, NEW n \in Names, Rename(g, n) PROVE AccountInv'
  <2>1. AccountTypeOK'
    BY <1>1, <1>4 DEF Rename, AccountTypeOK
  <2>2. Quiet
    BY <1>1, <1>4, RowsAlike DEF Quiet, Rename, AccountTypeOK
  <2>3. QED
    BY <2>1, <2>2, QuietStep
<1>5. ASSUME NEW q \in Calls, LoseAnswer(q) PROVE AccountInv'
  <2>1. /\ call' = [call EXCEPT ![q] = Waiting]
        /\ UNCHANGED <<loginOf, valid, grants, users, sessions, audit, renamed>>
        /\ broken' = IF call[q].kind = "refreshed" THEN broken \cup {call[q].row} ELSE broken
    BY <1>5 DEF LoseAnswer, github
  <2>2. \A r \in Calls : call'[r] = IF r = q THEN Waiting ELSE call[r]
    BY <1>1, <2>1 DEF AccountTypeOK
  <2>3. AccountTypeOK'
    BY <1>1, <2>1 DEF AccountInv, AccountTypeOK, TokensOwned, CallTokens
  <2>4. Quiet
    BY <1>1, <2>1, <2>2, RowsAlike DEF Quiet, AccountTypeOK
  <2>5. QED
    BY <2>3, <2>4, QuietStep
<1>6. ASSUME NEW i \in sessions, Logout(i) PROVE AccountInv'
  <2>1. AccountTypeOK'
    BY <1>1, <1>6 DEF Logout, AccountTypeOK, github
  <2>2. Quiet
    BY <1>1, <1>6, RowsAlike DEF Quiet, Logout, github, AccountTypeOK
  <2>3. QED
    BY <2>1, <2>2, QuietStep
<1>7. ASSUME NEW i \in sessions, AcceptConsent(i) PROVE AccountInv'
  <2>1. /\ Live(i) /\ audit' = audit \cup {Entry(users[i].login, i)}
        /\ UNCHANGED <<loginOf, valid, grants, users, sessions, call, renamed, broken>>
    BY <1>7 DEF AcceptConsent, Verified, github
  <2>2. i \in RowIds /\ users[i].login \in Names
    BY <1>1, <2>1 DEF AccountInv, AccountTypeOK, RowsApart
  <2>3. call' \in [Calls -> CallRecords] /\ users[i].state # "unused"
    BY <1>1, <2>1 DEF AccountTypeOK, Live
  <2>4. QED
    BY <2>1, <2>2, <2>3, <1>1, EntryAdded
<1>8. ASSUME NEW i \in RowIds, TokenAges(i) PROVE AccountInv'
  <2>1. /\ users' = [users EXCEPT ![i].fresh = FALSE]
        /\ UNCHANGED <<loginOf, valid, grants, sessions, audit, call, renamed, broken>>
    BY <1>8 DEF TokenAges, github
  <2>2. \A j \in RowIds : SameRow(users[j], users'[j])
    BY <1>1, <2>1, RowsAlike DEF AccountTypeOK
  <2>3. AccountTypeOK'
    BY <1>1, <2>1, <2>2 DEF AccountTypeOK, SameRow
  <2>4. Quiet
    BY <2>1, <2>2, <2>3 DEF Quiet
  <2>5. QED
    BY <2>3, <2>4, QuietStep
<1>9. ASSUME NEW n \in Names, NEW b \in BOOLEAN, PatchUser(n, b) PROVE AccountInv'
  <2>1. /\ users' = [i \in RowIds |-> IF users[i].login \in Spellings(n)
                                      THEN [users[i] EXCEPT !.allowed = b] ELSE users[i]]
        /\ UNCHANGED <<loginOf, valid, grants, sessions, audit, call, renamed, broken>>
    BY <1>9 DEF PatchUser, github
  <2>2. \A j \in RowIds : SameRow(users[j], users'[j])
    BY <1>1, <2>1, RowsAlike DEF AccountTypeOK
  <2>3. AccountTypeOK'
    BY <1>1, <2>1, <2>2 DEF AccountTypeOK, SameRow
  <2>4. Quiet
    BY <2>1, <2>2, <2>3 DEF Quiet
  <2>5. QED
    BY <2>3, <2>4, QuietStep
<1>10. ASSUME NEW q \in Calls, FinishWork(q) PROVE AccountInv'
  <2> DEFINE i == call[q].row
  <2>1. PICK s \in Spellings(call[q].login) : audit' = audit \cup {Entry(s, i)}
    BY <1>10 DEF FinishWork
  <2>2. /\ call[q].kind = "work" /\ call' = [call EXCEPT ![q] = Waiting]
        /\ UNCHANGED <<loginOf, valid, grants, users, sessions, renamed, broken>>
    BY <1>10 DEF FinishWork, github
  <2>3. s \in Names /\ i \in RowIds /\ users[i].state # "unused"
    BY <2>2 DEF Spellings, AccountInv, EntriesNamed
  <2>4. \A r \in Calls : call'[r] = IF r = q THEN Waiting ELSE call[r]
    BY <1>1, <2>2 DEF AccountTypeOK
  <2>5. call' \in [Calls -> CallRecords]
    BY <1>1, <2>2 DEF AccountTypeOK
  <2> HIDE DEF i
  <2>6. QED
    BY <1>1, <2>1, <2>2, <2>3, <2>4, <2>5, EntryAdded
<1>11. QED
  BY <1>2, <1>3, <1>4, <1>5, <1>6, <1>7, <1>8, <1>9, <1>10

\* The token is saved in the row it was taken from, or in none when that is gone.
LEMMA RefreshSaved ==
  ASSUME AccountAssumption, AccountInv, NEW q \in Calls, SaveRefreshed(q) PROVE AccountInv'
<1> DEFINE i == call[q].row
           t == call[q].token
<1>1. /\ AccountTypeOK /\ call[q].kind = "refreshed" /\ i \in RowIds /\ t \in 0..MaxGrants
      /\ call' = [call EXCEPT ![q] = Waiting]
      /\ UNCHANGED <<loginOf, valid, grants, sessions, audit, renamed, broken>>
      /\ users' = IF HasRow(i) THEN [users EXCEPT ![i] = Rotated(i, t)] ELSE users
      /\ Waiting \in CallRecords /\ Waiting.kind = "none"
  BY WaitingIsACall
     DEF SaveRefreshed, AccountInv, AccountTypeOK, TokensOwned, CallTokens, CallRecords, github
<1>2. t \in valid /\ t # 0 /\ \A j \in RowIds : users[j].refresh # t
  BY <1>1 DEF AccountInv, TokensOwned, CallTokens, AnswersOwned, HasAnswer, Holds
<1>3. \A r \in Calls : call'[r] = IF r = q THEN Waiting ELSE call[r]
  BY <1>1 DEF AccountTypeOK
<1>4. \A j \in RowIds : /\ users'[j] \in UserRows
                        /\ users'[j].state = users[j].state /\ users'[j].github = users[j].github
                        /\ users'[j].login = users[j].login
                        /\ users'[j].refresh = IF j = i /\ HasRow(i) THEN t ELSE users[j].refresh
  <2>1. ASSUME NEW u \in UserRows
        PROVE  LET w == [u EXCEPT !.refresh = t, !.fresh = TRUE] IN
               w \in UserRows /\ w.state = u.state /\ w.github = u.github
               /\ w.login = u.login /\ w.refresh = t
    BY <1>1 DEF UserRows
  <2>2. users[i] \in UserRows
    BY <1>1 DEF AccountTypeOK
  <2>3. QED
    BY <1>1, <2>1, <2>2 DEF AccountTypeOK, Rotated
<1>5. AccountTypeOK'
  BY <1>1, <1>4 DEF AccountTypeOK
<1>6. RowsApart'
  BY <1>1, <1>3, <1>4, RowsStay DEF AccountInv, RowsApart
<1>7. EntriesNamed'
  BY <1>1, <1>3, <1>4, EntriesStay DEF AccountInv
<1> HIDE DEF i, t
<1>8. \A r \in Calls : /\ Holds(r)' => Holds(r) /\ r # q /\ call'[r] = call[r]
                       /\ HasAnswer(r)' => HasAnswer(r)
  BY <1>1, <1>3 DEF Holds, HasAnswer
<1>9. \A r \in Calls : Holds(r) /\ r # q => call[r].token # t
  BY <1>1 DEF AccountInv, TokensOwned, AnswersOwned, HasAnswer, t
<1>10. TokensOwned'
  <2>1. RowTokens'
    <3>1. t <= grants
      BY <1>1 DEF AccountInv, TokensOwned, CallTokens, Holds, t
    <3>2. QED
      BY <1>1, <1>2, <1>4, <3>1 DEF AccountInv, TokensOwned, RowTokens, HasRow
  <2>2. CallTokens'
    BY <1>1, <1>3, <1>8 DEF AccountInv, TokensOwned, CallTokens
  <2>3. AnswersOwned'
    BY <1>1, <1>4, <1>8, <1>9 DEF AccountInv, TokensOwned, AnswersOwned, HasAnswer, Holds
  <2>4. AsksOwned'
    BY <1>1, <1>3, <1>4, <1>9 DEF AccountInv, TokensOwned, AsksOwned, Holds
  <2>5. QED
    BY <2>1, <2>2, <2>3, <2>4 DEF TokensOwned
<1>11. ChainUnbroken'
  <2>1. ASSUME NEW j \in RowIds, users'[j].refresh # 0, j \notin broken
        PROVE  \/ users'[j].refresh \in valid
               \/ \E r \in Calls : call'[r].kind = "refreshed" /\ call'[r].row = j
    <3>1. CASE j = i
      <4>1. ~HasRow(i) => users[i].refresh = 0
        BY <1>1 DEF AccountInv, AccountTypeOK, UserRows, TokensOwned, RowTokens, HasRow
      <4>2. QED
        BY <1>2, <1>4, <2>1, <3>1, <4>1
    <3>2. CASE j # i
      BY <1>3, <1>4, <2>1, <3>2 DEF AccountInv, ChainUnbroken, i
    <3>3. QED
      BY <3>1, <3>2
  <2>2. QED
    BY <1>1, <2>1 DEF ChainUnbroken
<1>12. QED
  BY <1>5, <1>6, <1>7, <1>10, <1>11 DEF AccountInv

\* One erasure of an account is under way, and its entries, which no other row's share, go
\* by the placeholder.
LEMMA ErasureFinished ==
  ASSUME AccountAssumption, AccountInv, NEW q \in Calls, FinishErasure(q) PROVE AccountInv'
<1> DEFINE i == call[q].row
           n == users[i].login
           all == audit \cup {Entry(call[q].login, i)}
<1>1. /\ AccountTypeOK /\ call[q].kind = "erase" /\ i \in RowIds /\ Live(i) /\ call[q].login \in Names
      /\ i \notin renamed => call[q].login = n
      /\ \A r \in Calls : call[r].kind = "erase" /\ call[r].row = i => r = q
  BY DEF FinishErasure, AccountInv, EntriesNamed
<1>2. /\ call' = [call EXCEPT ![q] = Waiting] /\ UNCHANGED <<loginOf, valid, grants, renamed, broken>>
      /\ users' = [users EXCEPT ![i] = Erased(i)] /\ sessions' = sessions \ {i}
      /\ audit' = Anonymised(all, i)
      /\ Waiting \in CallRecords /\ Waiting.kind = "none"
  BY WaitingIsACall DEF FinishErasure, SessionsWithout, github
<1>3. n \in Names /\ i \notin Names
  BY <1>1 DEF AccountInv, RowsApart, AccountAssumption, RowIds
<1>4. \A r \in Calls : call'[r] = IF r = q THEN Waiting ELSE call[r]
  BY <1>1, <1>2 DEF AccountTypeOK
<1>5. /\ Erased(i) \in UserRows /\ Erased(i).state = "erased" /\ Erased(i).github = Nobody
      /\ Erased(i).login = Nobody /\ Erased(i).refresh = 0
  <2>1. users[i] \in UserRows
    BY <1>1 DEF AccountTypeOK
  <2>2. QED
    BY <2>1, UnusedIsARow DEF Erased, UserRows
<1>6. \A j \in RowIds : users'[j] = IF j = i THEN Erased(i) ELSE users[j]
  BY <1>1, <1>2 DEF AccountTypeOK
<1>7. all \subseteq AuditEntries
  <2>1. Entry(call[q].login, i) \in AuditEntries
    BY <1>1, EntryTyped
  <2>2. QED
    BY <1>1, <2>1 DEF AccountTypeOK
<1>8. ASSUME NEW e \in audit'
      PROVE  \E d \in all :
               /\ e.by = d.by /\ e.own = d.own /\ e \in AuditEntries
               /\ e.actor = IF d.actor = n THEN i ELSE d.actor
  <2> HIDE DEF all
  <2>1. PICK d \in all : e = IF d.actor = n THEN [d EXCEPT !.actor = i] ELSE d
    BY <1>2, <1>8 DEF Anonymised
  <2>2. QED
    BY <1>1, <1>7, <2>1 DEF AuditEntries
<1>9. AccountTypeOK'
  <2>1. audit' \subseteq AuditEntries
    BY <1>8
  <2>2. QED
    BY <1>1, <1>2, <1>5, <2>1 DEF AccountTypeOK
<1>10. RowsApart'
  <2>1. \A j \in RowIds : Live(j)' <=> j # i /\ Live(j)
    BY <1>5, <1>6 DEF Live
  <2>2. SessionsLive'
    BY <1>1, <1>2, <1>6, <2>1 DEF AccountInv, RowsApart, SessionsLive, AccountTypeOK
  <2>3. QED
    BY <1>1, <1>2, <1>4, <1>5, <1>6, <2>1, <2>2 DEF AccountInv, RowsApart
<1>11. EntriesNamed'
  <2>1. \A j \in RowIds : Live(j)' <=> j # i /\ Live(j)
    BY <1>5, <1>6 DEF Live
  <2>2. ASSUME NEW e \in audit'
        PROVE  /\ users'[e.by].state # "unused"
               /\ e.own /\ e.by \notin renamed =>
                    /\ Live(e.by)' => e.actor = users'[e.by].login
                    /\ users'[e.by].state = "erased" => e.actor = e.by
                    /\ users'[e.by].state # "purged"
    <3>1. PICK d \in all : /\ e.by = d.by /\ e.own = d.own
                           /\ e.actor = IF d.actor = n THEN i ELSE d.actor
      BY <1>8, <2>2
    <3>2. d.by \in RowIds /\ (d.by # i => d \in audit)
      BY <1>7 DEF AuditEntries, Entry
    <3>3. CASE d.by = i
      <4>1. d.own /\ i \notin renamed => d.actor = n
        BY <1>1, <3>3 DEF AccountInv, EntriesNamed, Entry
      <4>2. QED
        BY <1>1, <1>5, <1>6, <2>1, <3>1, <3>3, <4>1
    <3>4. CASE d.by # i
      <4>1. users'[e.by] = users[d.by] /\ (Live(e.by)' <=> Live(d.by)) /\ d \in audit
        BY <1>6, <2>1, <3>1, <3>2, <3>4
      <4>2. Live(d.by) => users[d.by].login # n
        BY <1>1, <3>2, <3>4 DEF AccountInv, RowsApart, SessionsLive
      <4>3. d.by # n
        BY <1>3, <3>2 DEF AccountAssumption, RowIds
      <4>4. QED
        BY <3>1, <4>1, <4>2, <4>3 DEF AccountInv, EntriesNamed
    <3>5. QED
      BY <3>3, <3>4
  <2>3. ASSUME NEW r \in Calls, call'[r].kind = "erase"
        PROVE  /\ call'[r].row \in RowIds /\ users'[call'[r].row].state = "live"
               /\ call'[r].login \in Names
               /\ call'[r].row \notin renamed => call'[r].login = users'[call'[r].row].login
               /\ \A s \in Calls : call'[s].kind = "erase" /\ call'[s].row = call'[r].row => s = r
    <3>1. r # q /\ call'[r] = call[r] /\ call[r].kind = "erase"
      BY <1>2, <1>4, <2>3
    <3>2. call[r].row # i /\ call[r].row \in RowIds
      BY <1>1, <3>1 DEF AccountInv, EntriesNamed
    <3>3. users'[call'[r].row] = users[call[r].row] /\ call'[r].row = call[r].row
      BY <1>6, <3>1, <3>2
    <3>4. /\ Live(call[r].row) /\ call[r].login \in Names
          /\ call[r].row \notin renamed => call[r].login = users[call[r].row].login
      BY <3>1 DEF AccountInv, EntriesNamed
    <3>5. \A s \in Calls : call'[s].kind = "erase" /\ call'[s].row = call'[r].row => s = r
      BY <1>2, <1>4, <3>1 DEF AccountInv, EntriesNamed
    <3>6. QED
      BY <3>1, <3>2, <3>3, <3>4, <3>5 DEF Live
  <2>4. ASSUME NEW r \in Calls, call'[r].kind = "work"
        PROVE  call'[r].row \in RowIds /\ users'[call'[r].row].state # "unused"
    BY <1>2, <1>4, <1>5, <1>6, <2>4 DEF AccountInv, EntriesNamed
  <2>5. QED
    BY <1>2, <2>2, <2>3, <2>4 DEF EntriesNamed, Live
<1>12. \A r \in Calls : /\ Holds(r)' => Holds(r) /\ r # q /\ call'[r] = call[r]
                        /\ HasAnswer(r)' => HasAnswer(r)
  BY <1>2, <1>4 DEF Holds, HasAnswer
<1>13. TokensOwned'
  <2>1. RowTokens'
    BY <1>1, <1>2, <1>5, <1>6 DEF AccountInv, AccountTypeOK, TokensOwned, RowTokens
  <2>2. CallTokens'
    BY <1>2, <1>4, <1>12 DEF AccountInv, TokensOwned, CallTokens
  <2>3. AnswersOwned'
    BY <1>2, <1>5, <1>6, <1>12 DEF AccountInv, TokensOwned, AnswersOwned, CallTokens, HasAnswer, Holds
  <2>4. AsksOwned'
    BY <1>2, <1>4, <1>5, <1>6 DEF AccountInv, TokensOwned, AsksOwned, CallTokens, Holds
  <2>5. QED
    BY <2>1, <2>2, <2>3, <2>4 DEF TokensOwned
<1>14. ChainUnbroken'
  BY <1>1, <1>2, <1>4, <1>5, <1>6 DEF AccountInv, ChainUnbroken
<1>15. QED
  BY <1>9, <1>10, <1>11, <1>13, <1>14 DEF AccountInv

\* The entries of the rows purged went by their placeholders.
LEMMA Purged ==
  ASSUME AccountAssumption, AccountInv, NEW old \in SUBSET {i \in RowIds : users[i].state = "erased"},
         Purge(old)
  PROVE  AccountInv'
<1> DEFINE gone == [Unused EXCEPT !.state = "purged"]
<1>1. /\ AccountTypeOK /\ users' = [i \in RowIds |-> IF i \in old THEN gone ELSE users[i]]
      /\ audit' = {e \in audit : e.actor \notin old}
      /\ UNCHANGED <<loginOf, valid, grants, sessions, call, renamed, broken>>
  BY DEF Purge, AccountInv, github
<1>2. /\ gone \in UserRows /\ gone.state = "purged" /\ gone.github = Nobody /\ gone.login = Nobody
      /\ gone.refresh = 0
  BY UnusedIsARow DEF UserRows
<1> HIDE DEF gone
<1>3. \A i \in RowIds : /\ i \in old => users[i].state = "erased" /\ users'[i] = gone
                        /\ i \notin old => users'[i] = users[i]
  BY <1>1
<1>4. \A i \in RowIds : Live(i)' <=> Live(i)
  BY <1>2, <1>3 DEF Live
<1>5. AccountTypeOK'
  BY <1>1, <1>2 DEF AccountTypeOK
<1>6. RowsApart'
  <2>1. SessionsLive'
    BY <1>1, <1>3, <1>4 DEF AccountInv, RowsApart, SessionsLive, AccountTypeOK, Live
  <2>2. ASSUME NEW i \in RowIds
        PROVE  IF Live(i)' THEN users'[i].github \in GithubAccounts /\ users'[i].login \in Names
               ELSE users'[i].github = Nobody /\ users'[i].login = Nobody
    BY <1>2, <1>3, <1>4 DEF AccountInv, RowsApart, Live
  <2>3. QED
    BY <1>1, <2>1, <2>2 DEF AccountInv, RowsApart
<1>7. EntriesNamed'
  <2>1. ASSUME NEW e \in audit'
        PROVE  /\ users'[e.by].state # "unused"
               /\ e.own /\ e.by \notin renamed =>
                    /\ Live(e.by)' => e.actor = users'[e.by].login
                    /\ users'[e.by].state = "erased" => e.actor = e.by
                    /\ users'[e.by].state # "purged"
    <3>1. e \in audit /\ e.actor \notin old /\ e.by \in RowIds
      BY <1>1, <2>1 DEF AccountTypeOK, AuditEntries
    <3>2. e.own /\ e.by \in old => e.by \in renamed
      BY <1>3, <3>1 DEF AccountInv, EntriesNamed
    <3>3. QED
      BY <1>2, <1>3, <1>4, <3>1, <3>2 DEF AccountInv, EntriesNamed
  <2>2. \A i \in RowIds : users[i].state # "unused" => users'[i].state # "unused"
    BY <1>2, <1>3
  <2>3. QED
    BY <1>1, <1>3, <1>4, <2>1, <2>2 DEF AccountInv, EntriesNamed, Live
<1>8. TokensOwned'
  <2>1. RowTokens'
    BY <1>1, <1>2, <1>3 DEF AccountInv, AccountTypeOK, TokensOwned, RowTokens
  <2>2. CallTokens'
    BY <1>1 DEF AccountInv, TokensOwned, CallTokens, Holds
  <2>3. AnswersOwned'
    BY <1>1, <1>2, <1>3 DEF AccountInv, TokensOwned, AnswersOwned, CallTokens, HasAnswer, Holds
  <2>4. AsksOwned'
    BY <1>1, <1>2, <1>3 DEF AccountInv, TokensOwned, AsksOwned, CallTokens, Holds
  <2>5. QED
    BY <2>1, <2>2, <2>3, <2>4 DEF TokensOwned
<1>9. ChainUnbroken'
  BY <1>1, <1>2, <1>3 DEF AccountInv, ChainUnbroken
<1>10. QED
  BY <1>5, <1>6, <1>7, <1>8, <1>9 DEF AccountInv

\* A sign-in updates the one row of the account or takes an unused one, and nobody else's login.
LEMMA SignedInKeeps ==
  ASSUME AccountAssumption, AccountInv, NEW q \in Calls, SignIn(q) PROVE AccountInv'
<1> DEFINE g == call[q].github
           n == call[q].login
           t == call[q].token
<1>1. /\ AccountTypeOK /\ call[q].kind = "signin" /\ call' = [call EXCEPT ![q] = Waiting]
      /\ UNCHANGED <<loginOf, valid, grants>> /\ g \in GithubAccounts /\ n \in Names /\ t \in 0..MaxGrants
      /\ Waiting \in CallRecords /\ Waiting.kind = "none"
  BY WaitingIsACall DEF SignIn, AccountInv, AccountTypeOK, RowsApart, CallRecords, github
<1>2. \A r \in Calls : call'[r] = IF r = q THEN Waiting ELSE call[r]
  BY <1>1 DEF AccountTypeOK
<1>3. CASE UpsertTargets(g, n) = {}
  <2>1. UNCHANGED <<users, sessions, audit, renamed, broken>>
    BY <1>3 DEF SignIn
  <2>2. AccountTypeOK'
    BY <1>1, <2>1 DEF AccountTypeOK
  <2>3. Quiet
    BY <1>1, <1>2, <2>1, RowsAlike DEF Quiet, AccountTypeOK
  <2>4. QED
    BY <2>2, <2>3, QuietStep
<1>4. ASSUME NEW i \in UpsertTargets(g, n),
             users' = [users EXCEPT ![i] = SignedIn(i, g, n, t)],
             audit' = audit \cup {[actor |-> n, by |-> i, own |-> TRUE]},
             sessions' = sessions \cup {i}, broken' = broken \ {i},
             renamed' = IF Live(i) /\ users[i].login # n THEN renamed \cup {i} ELSE renamed
      PROVE  AccountInv'
  <2>1. /\ i \in RowIds /\ \A j \in RowIds : users[j].login = n => users[j].github = g
        /\ users[i].github = g \/ (users[i].state = "unused" /\ \A j \in RowIds : users[j].github # g)
    BY <1>4 DEF UpsertTargets
  <2>2. \/ Live(i) /\ users[i].github = g
        \/ users[i].state = "unused" /\ \A j \in RowIds : users[j].github # g
    <3>1. g # Nobody
      BY <1>1 DEF AccountAssumption
    <3>2. QED
      BY <2>1, <3>1 DEF AccountInv, RowsApart
  <2>3. LET w == SignedIn(i, g, n, t) IN
        w \in UserRows /\ w.state = "live" /\ w.github = g /\ w.login = n /\ w.refresh = t
    <3>1. users[i] \in UserRows /\ (users[i].allowed \/ InEnv(n)) \in BOOLEAN
      BY <1>1, <2>1 DEF AccountTypeOK
    <3>2. QED
      BY <1>1, <3>1 DEF SignedIn, UserRows
  <2>4. \A j \in RowIds : users'[j] = IF j = i THEN SignedIn(i, g, n, t) ELSE users[j]
    BY <1>1, <1>4 DEF AccountTypeOK
  <2>5. \A j \in RowIds : users'[j].state = "live" <=> j = i \/ Live(j)
    BY <2>3, <2>4 DEF Live
  <2>6. AccountTypeOK'
    <3>1. [actor |-> n, by |-> i, own |-> TRUE] \in AuditEntries
      BY <1>1, <2>1 DEF AuditEntries
    <3>2. users' \in [RowIds -> UserRows]
      BY <1>1, <1>4, <2>3 DEF AccountTypeOK
    <3>3. QED
      BY <1>1, <1>4, <2>1, <3>1, <3>2 DEF AccountTypeOK
  <2>7. \A j \in RowIds : Live(j) /\ j # i => users[j].github # g /\ users[j].login # n
    BY <2>1, <2>2 DEF AccountInv, RowsApart, SessionsLive
  <2>8. RowsApart'
    <3>1. SessionsLive'
      <4>1. \A j \in sessions' : j \in RowIds /\ users'[j].state = "live"
        BY <1>1, <1>4, <2>1, <2>5 DEF AccountInv, RowsApart, SessionsLive, AccountTypeOK
      <4>2. ASSUME NEW j \in RowIds, NEW k \in RowIds,
                   users'[j].state = "live", users'[k].state = "live", j # k
            PROVE  users'[j].github # users'[k].github /\ users'[j].login # users'[k].login
        BY <2>3, <2>4, <2>5, <2>7, <4>2 DEF AccountInv, RowsApart, SessionsLive
      <4>3. QED
        BY <4>1, <4>2 DEF SessionsLive, Live
    <3>2. ASSUME NEW j \in RowIds
          PROVE  IF Live(j)' THEN users'[j].github \in GithubAccounts /\ users'[j].login \in Names
                 ELSE users'[j].github = Nobody /\ users'[j].login = Nobody
      BY <1>1, <2>3, <2>4, <2>5 DEF AccountInv, RowsApart, Live
    <3>3. QED
      BY <1>1, <1>2, <3>1, <3>2 DEF AccountInv, RowsApart
  <2>9. EntriesNamed'
    <3>1. ASSUME NEW e \in audit'
          PROVE  /\ users'[e.by].state # "unused"
                 /\ e.own /\ e.by \notin renamed' =>
                      /\ Live(e.by)' => e.actor = users'[e.by].login
                      /\ users'[e.by].state = "erased" => e.actor = e.by
                      /\ users'[e.by].state # "purged"
      <4>1. CASE e \in audit /\ e.by # i
        <5>1. e.by \in RowIds /\ users'[e.by] = users[e.by] /\ (e.by \notin renamed' => e.by \notin renamed)
          BY <1>1, <1>4, <2>4, <4>1 DEF AccountTypeOK, AuditEntries
        <5>2. QED
          BY <4>1, <5>1 DEF AccountInv, EntriesNamed, Live
      <4>2. CASE e \in audit /\ e.by = i
        <5>1. Live(i)
          BY <2>2, <4>2 DEF AccountInv, EntriesNamed
        <5>2. i \notin renamed' => i \notin renamed /\ users[i].login = n
          BY <1>4, <5>1
        <5>3. QED
          BY <2>1, <2>3, <2>4, <4>2, <5>1, <5>2 DEF AccountInv, EntriesNamed
      <4>3. CASE e = [actor |-> n, by |-> i, own |-> TRUE]
        BY <2>1, <2>3, <2>4, <4>3
      <4>4. QED
        BY <1>4, <4>1, <4>2, <4>3
    <3>2. ASSUME NEW r \in Calls, call'[r].kind = "erase"
          PROVE  /\ call'[r].row \in RowIds /\ users'[call'[r].row].state = "live"
                 /\ call'[r].login \in Names
                 /\ call'[r].row \notin renamed' => call'[r].login = users'[call'[r].row].login
                 /\ \A s \in Calls : call'[s].kind = "erase" /\ call'[s].row = call'[r].row => s = r
      <4>1. r # q /\ call'[r] = call[r] /\ call[r].kind = "erase"
        BY <1>1, <1>2, <3>2
      <4>2. /\ call[r].row \in RowIds /\ Live(call[r].row) /\ call[r].login \in Names
            /\ call[r].row \notin renamed => call[r].login = users[call[r].row].login
        BY <4>1 DEF AccountInv, EntriesNamed
      <4>3. call[r].row \notin renamed' =>
              call[r].row \notin renamed /\ users'[call[r].row].login = users[call[r].row].login
        BY <1>4, <2>3, <2>4, <4>2
      <4>4. \A s \in Calls : call'[s].kind = "erase" /\ call'[s].row = call'[r].row => s = r
        BY <1>1, <1>2, <4>1 DEF AccountInv, EntriesNamed
      <4>5. QED
        BY <2>5, <4>1, <4>2, <4>3, <4>4
    <3>3. ASSUME NEW r \in Calls, call'[r].kind = "work"
          PROVE  call'[r].row \in RowIds /\ users'[call'[r].row].state # "unused"
      <4>1. call'[r] = call[r]
        BY <1>1, <1>2, <3>3
      <4>2. call[r].row \in RowIds /\ users[call[r].row].state # "unused"
        BY <3>3, <4>1 DEF AccountInv, EntriesNamed
      <4>3. QED
        BY <2>3, <2>4, <4>1, <4>2
    <3>4. QED
      BY <3>1, <3>2, <3>3 DEF EntriesNamed, Live
  <2>10. /\ t \in valid /\ t # 0 /\ t <= grants /\ \A j \in RowIds : users[j].refresh # t
         /\ \A r \in Calls : Holds(r) /\ r # q => call[r].token # t
    BY <1>1 DEF AccountInv, TokensOwned, CallTokens, AnswersOwned, HasAnswer, Holds
  <2>11. \A r \in Calls : /\ Holds(r)' => Holds(r) /\ r # q /\ call'[r] = call[r]
                          /\ HasAnswer(r)' => HasAnswer(r) /\ Holds(r)
    BY <1>1, <1>2 DEF Holds, HasAnswer
  <2>12. TokensOwned'
    <3> HIDE DEF t
    <3>1. RowTokens'
      BY <1>1, <2>3, <2>4, <2>10 DEF AccountInv, TokensOwned, RowTokens
    <3>2. CallTokens'
      BY <1>1, <1>2, <2>11 DEF AccountInv, TokensOwned, CallTokens
    <3>3. AnswersOwned'
      <4>1. \A r \in Calls : HasAnswer(r)' => Holds(r)'
        BY DEF HasAnswer, Holds
      <4>2. QED
        BY <1>1, <2>3, <2>4, <2>10, <2>11, <4>1 DEF AccountInv, TokensOwned, AnswersOwned
    <3>4. AsksOwned'
      BY <1>1, <1>2, <2>3, <2>4, <2>10 DEF AccountInv, TokensOwned, AsksOwned, Holds
    <3>5. QED
      BY <3>1, <3>2, <3>3, <3>4 DEF TokensOwned
  <2>13. ChainUnbroken'
    <3>1. ASSUME NEW j \in RowIds, users'[j].refresh # 0, j \notin broken'
          PROVE  \/ users'[j].refresh \in valid
                 \/ \E r \in Calls : call'[r].kind = "refreshed" /\ call'[r].row = j
      <4>1. CASE j = i
        BY <2>3, <2>4, <2>10, <4>1
      <4>2. CASE j # i
        BY <1>1, <1>2, <1>4, <2>4, <3>1, <4>2 DEF AccountInv, ChainUnbroken
      <4>3. QED
        BY <4>1, <4>2
    <3>2. QED
      BY <1>1, <3>1 DEF ChainUnbroken
  <2>14. QED
    BY <2>6, <2>8, <2>9, <2>12, <2>13 DEF AccountInv
<1>5. QED
  BY <1>3, <1>4 DEF SignIn

LEMMA AccountsKept ==
  ASSUME AccountAssumption, AccountInv, [AccountNext]_accountVars PROVE AccountInv'
<1>1. ASSUME NEW q \in Calls, NEW g \in GithubAccounts, StartExchange(q, g) PROVE AccountInv'
  <2> DEFINE c == [Waiting EXCEPT !.kind = "exchange", !.github = g]
  <2>1. c \in CallRecords /\ c.kind = "exchange" /\ c.github = g
    BY WaitingIsACall DEF CallRecords
  <2>2. /\ call[q].kind = "none" /\ call' = [call EXCEPT ![q] = c]
        /\ UNCHANGED <<loginOf, valid, grants, users, sessions, audit, renamed, broken>>
    BY <1>1 DEF StartExchange, github
  <2> HIDE DEF c
  <2>3. QED
    BY <2>1, <2>2, CallBegins
<1>2. ASSUME NEW q \in Calls, NEW i \in sessions, StartRefresh(q, i) PROVE AccountInv'
  <2> DEFINE c == [Waiting EXCEPT !.kind = "refresh", !.row = i, !.token = users[i].refresh]
  <2>1. i \in RowIds /\ i \in 0..MaxRows /\ users[i].refresh \in 0..MaxGrants
    <3>1. i \in RowIds /\ users[i] \in UserRows
      BY DEF AccountInv, AccountTypeOK
    <3>2. QED
      BY <3>1 DEF UserRows, RowIds, AccountAssumption
  <2>2. c \in CallRecords /\ c.kind = "refresh" /\ c.row = i /\ c.token = users[i].refresh
    BY <2>1, WaitingIsACall DEF CallRecords
  <2>3. /\ call[q].kind = "none" /\ call' = [call EXCEPT ![q] = c] /\ users[i].refresh # 0
        /\ UNCHANGED <<loginOf, valid, grants, users, sessions, audit, renamed, broken>>
    BY <1>2 DEF StartRefresh, github
  <2> HIDE DEF c
  <2>4. QED
    BY <2>1, <2>2, <2>3, CallBegins
<1>3. ASSUME NEW q \in Calls, NEW i \in sessions, StartErasure(q, i) PROVE AccountInv'
  <2> DEFINE c == [Waiting EXCEPT !.kind = "erase", !.row = i, !.login = users[i].login]
  <2>1. i \in RowIds /\ i \in 0..MaxRows /\ users[i].login \in Names \cup {Nobody}
    <3>1. i \in RowIds /\ users[i] \in UserRows
      BY DEF AccountInv, AccountTypeOK
    <3>2. QED
      BY <3>1 DEF UserRows, RowIds, AccountAssumption
  <2>2. c \in CallRecords /\ c.kind = "erase" /\ c.row = i /\ c.login = users[i].login
    BY <2>1, WaitingIsACall DEF CallRecords
  <2>3. /\ call[q].kind = "none" /\ call' = [call EXCEPT ![q] = c] /\ Live(i)
        /\ \A r \in Calls : ~(call[r].kind = "erase" /\ call[r].row = i)
        /\ UNCHANGED <<loginOf, valid, grants, users, sessions, audit, renamed, broken>>
    BY <1>3 DEF StartErasure, Verified, github
  <2> HIDE DEF c
  <2>4. QED
    BY <2>1, <2>2, <2>3, CallBegins
<1>4. ASSUME NEW q \in Calls, NEW i \in RowIds, StartWork(q, i) PROVE AccountInv'
  <2> DEFINE c == [Waiting EXCEPT !.kind = "work", !.row = i, !.login = users[i].login]
  <2>1. i \in 0..MaxRows /\ users[i].login \in Names \cup {Nobody}
    <3>1. users[i] \in UserRows
      BY DEF AccountInv, AccountTypeOK
    <3>2. QED
      BY <3>1 DEF UserRows, RowIds, AccountAssumption
  <2>2. c \in CallRecords /\ c.kind = "work" /\ c.row = i
    BY <2>1, WaitingIsACall DEF CallRecords
  <2>3. /\ call[q].kind = "none" /\ call' = [call EXCEPT ![q] = c] /\ Live(i)
        /\ UNCHANGED <<loginOf, valid, grants, users, sessions, audit, renamed, broken>>
    BY <1>4 DEF StartWork, github
  <2> HIDE DEF c
  <2>4. QED
    BY <2>2, <2>3, CallBegins
<1>5. QED
  BY <1>1, <1>2, <1>3, <1>4, QuietActions, ExchangeServed, RefreshServed, SignedInKeeps, RefreshSaved,
     ErasureFinished,
     Purged DEF AccountNext

LEMMA AccountInvariant == ASSUME AccountAssumption PROVE AccountSpec => []AccountInv
<1>1. AccountInit => AccountInv
  BY AccountsBegin
<1>2. AccountInv /\ [AccountNext]_accountVars => AccountInv'
  BY AccountsKept
<1>3. QED
  BY <1>1, <1>2, PTL DEF AccountSpec

\* Whatever sign-ins, erasures, purges and other handlers overlap, a session belongs to a live
\* account of its own, and of an account that never changed its login the entries written in
\* time and in the row's spelling follow the row to its placeholder and go with it; what was
\* written in lower case or after the erasure is not among them (users.repository
\* softDeleteUser, hardDeleteOldUsers).
THEOREM ErasuresComplete == AccountSpec => []ErasureComplete
<1> USE AccountAssumption
<1>1. AccountInv => ErasureComplete
  BY DEF AccountInv, RowsApart, EntriesNamed, ErasureComplete, OwnEntriesFollowTheRow
<1>2. QED
  BY <1>1, AccountInvariant, PTL

\* However sign-ins and refreshes overlap, the refresh token of a row is good, or its successor
\* is on its way, unless an answer of GitHub was lost (auth.service getValidAccessToken).
THEOREM ChainHolds == AccountSpec => []ChainUnbroken
<1> USE AccountAssumption
<1>1. AccountInv => ChainUnbroken
  BY DEF AccountInv
<1>2. QED
  BY <1>1, AccountInvariant, PTL

-----------------------------------------------------------------------------
(* The cookies of a sign-in                                                *)

\* A tab on its way back finds its own path under its own state, or none.
CookiesInv ==
  /\ CookiesTypeOK
  /\ returnCookie.state <= states
  /\ \A t \in Tabs :
       /\ tab[t].state <= states
       /\ tab[t].at = "github" => /\ tab[t].state # 0
                                  /\ returnCookie.state = tab[t].state =>
                                       returnCookie.path = tab[t].asked
       /\ tab[t].at \in {"exchange", "signedIn"} => tab[t].landing \in {tab[t].asked, HomePath}

LEMMA PageIsATab ==
  ASSUME SignInAssumption PROVE Page \in TabRecords /\ Page.at = "page" /\ Page.state = 0
BY DEF SignInAssumption, Page, TabRecords, StateIds, Landings

LEMMA CookiesBegin == ASSUME SignInAssumption, CookieInit PROVE CookiesInv
BY PageIsATab
   DEF SignInAssumption, CookieInit, CookiesInv, CookiesTypeOK, StateIds, Returns, NoReturn,
       Landings, Page, TabRecords

LEMMA CookiesKept ==
  ASSUME SignInAssumption, CookiesInv, [CookieNext]_cookieVars PROVE CookiesInv'
<1> USE DEF CookiesInv, CookiesTypeOK, StateIds, Landings, NoReturn, Returns
<1>1. CASE UNCHANGED cookieVars
  BY <1>1 DEF cookieVars, TabRecords
<1>2. ASSUME NEW t \in Tabs, NEW p \in Landings, startOauth(t, p) PROVE CookiesInv'
  BY <1>2 DEF startOauth, ToGithub, safeReturnPath, TabRecords, SignInAssumption
<1>3. ASSUME NEW t \in Tabs, startInstall(t) PROVE CookiesInv'
  BY <1>3 DEF startInstall, ToGithub, safeReturnPath, TabRecords, SignInAssumption
<1>4. ASSUME NEW t \in Tabs, SetupCallback(t) PROVE CookiesInv'
  BY <1>4, PageIsATab DEF SetupCallback, SignInAssumption
<1>5. ASSUME NEW t \in Tabs, Callback(t) PROVE CookiesInv'
  <2>1. CASE tab[t].state # stateCookie
    BY <1>5, <2>1, PageIsATab DEF Callback, SignInAssumption
  <2>2. CASE tab[t].state = stateCookie
    <3> DEFINE landing == ReturnPath(tab[t].state)
    <3>2. landing \in Landings /\ landing \in {tab[t].asked, HomePath}
      BY <1>5 DEF Callback, ReturnPath
    <3>3. tab' = [tab EXCEPT ![t] = [tab[t] EXCEPT !.at = "exchange", !.landing = landing]]
      BY <1>5, <2>2 DEF Callback
    <3>4. [tab[t] EXCEPT !.at = "exchange", !.landing = landing] \in TabRecords
      <4>1. tab[t] \in TabRecords
        OBVIOUS
      <4> HIDE DEF landing
      <4>2. QED
        BY <3>2, <4>1 DEF TabRecords
    <3> HIDE DEF landing
    <3>5. tab' \in [Tabs -> TabRecords] /\ UNCHANGED <<stateCookie, returnCookie, states>>
      BY <1>5, <3>3, <3>4 DEF Callback
    <3>6. \A u \in Tabs \ {t} : tab'[u] = tab[u]
      BY <3>3
    <3>7. /\ tab'[t].at = "exchange" /\ tab'[t].landing = landing
          /\ tab'[t].state = tab[t].state /\ tab'[t].asked = tab[t].asked
      BY <3>3, <3>4 DEF TabRecords
    <3>8. QED
      BY <3>2, <3>5, <3>6, <3>7
  <2>3. QED
    BY <2>1, <2>2
<1>6. ASSUME NEW t \in Tabs, CallbackAnswers(t) PROVE CookiesInv'
  <2>1. CASE tab' = [tab EXCEPT ![t].at = "signedIn"]
    BY <1>6, <2>1 DEF CallbackAnswers, TabRecords, SignInAssumption
  <2>2. CASE tab' = [tab EXCEPT ![t] = Page]
    BY <1>6, <2>2, PageIsATab DEF CallbackAnswers, SignInAssumption
  <2>3. QED
    BY <1>6, <2>1, <2>2 DEF CallbackAnswers
<1>7. ASSUME NEW t \in Tabs, Abandon(t) PROVE CookiesInv'
  BY <1>7, PageIsATab DEF Abandon, SignInAssumption
<1>8. QED
  BY <1>1, <1>2, <1>3, <1>4, <1>5, <1>6, <1>7 DEF CookieNext

\* However many tabs sign in and install at a time, each lands where its own start asked for,
\* or on the deploy page (auth.controller handleCallback).
THEOREM LandsRight == CookieSpec => []LandsWhereStarted
<1>1. CookieInit => CookiesInv
  BY SignInAssumption, CookiesBegin
<1>2. CookiesInv /\ [CookieNext]_cookieVars => CookiesInv'
  BY SignInAssumption, CookiesKept
<1>3. CookiesInv => LandsWhereStarted
  BY DEF CookiesInv, LandsWhereStarted
<1>4. QED
  BY <1>1, <1>2, <1>3, PTL DEF CookieSpec

-----------------------------------------------------------------------------
(* The consent to the policies                                             *)

\* The version accepted was recorded, and an account that a tab takes to be past a version
\* has accepted it.
ConsentInv ==
  /\ ConsentTypeOK
  /\ accepted <= current
  /\ \A a \in acceptances : a.recorded = a.shown
  /\ accepted # 0 => \E a \in acceptances : a.recorded = accepted
  /\ \A t \in ConsentTabs :
       /\ view[t].at \in Gated => view[t].me.state # "asked"
       /\ view[t].me.state = "past" => /\ view[t].me.version <= accepted
                                      /\ \E a \in acceptances : a.recorded = view[t].me.version

Views == [at : Gated \cup {"closed", "consent"}, next : Gated, me : Mes, checked : BOOLEAN,
          sent : 0..MaxPolicies, answered : BOOLEAN]

\* What a tab knows of the account is what the account did.
Known(m) ==
  /\ m \in Mes
  /\ m.state = "past" => /\ m.version <= accepted
                        /\ \E a \in acceptances : a.recorded = m.version

LEMMA MeKnown == ASSUME ConsentAssumption, ConsentInv PROVE Known(Me)
BY DEF ConsentAssumption, ConsentInv, ConsentTypeOK, Known, Me, Mes, NoAccount, Policies

LEMMA StartsKnown == Known(Loading) /\ Known(NoAccount)
BY DEF Known, Loading, NoAccount, Mes

LEMMA ShowsOK ==
  ASSUME ConsentAssumption, NEW page \in Gated \cup {"consent"}, NEW next \in Gated, NEW m, Known(m)
  PROVE  /\ Shows(page, next, m) \in Views
         /\ Shows(page, next, m).me = m
         /\ Shows(page, next, m).at \in Gated => m.state # "asked"
         /\ Shows(page, next, m).sent = 0
<1>1. Closed \in Views
  BY DEF ConsentAssumption, Closed, Views, Gated, Loading, Mes
<1>2. m \in Mes /\ m.state \in {"loading", "none", "asked", "past"}
  BY DEF Known, Mes
<1>3. QED
  BY <1>1, <1>2 DEF Shows, Views, Gated, Closed

\* A tab moves, and the account stays.
LEMMA TabMoves ==
  ASSUME ConsentInv, NEW t \in ConsentTabs, NEW v \in Views, Known(v.me),
         v.at \in Gated => v.me.state # "asked", OnlyView(t, v)
  PROVE  ConsentInv'
BY DEF ConsentInv, ConsentTypeOK, OnlyView, Known, Views

LEMMA ConsentBegins == ASSUME ConsentAssumption, ConsentInit PROVE ConsentInv
BY StartsKnown
   DEF ConsentAssumption, ConsentInit, ConsentInv, ConsentTypeOK, Closed, Gated, Policies, Known, Loading

\* The only step that writes the account records the version that is on the screen.
LEMMA ConsentServed ==
  ASSUME ConsentAssumption, ConsentInv, NEW t \in ConsentTabs, ServeConsent(t)
  PROVE  ConsentInv'
<1>1. CASE Takes(view[t].sent)
  <2>1. /\ accepted' = current /\ UNCHANGED <<current, signedIn>>
        /\ acceptances' = acceptances \cup {[recorded |-> current, shown |-> current]}
        /\ view' = [view EXCEPT ![t].answered = TRUE]
    BY <1>1 DEF ServeConsent, Takes
  <2>2. ConsentTypeOK'
    <3>1. [view[t] EXCEPT !.answered = TRUE] \in Views
      BY DEF ConsentInv, ConsentTypeOK, Views
    <3>2. view' \in [ConsentTabs -> Views]
      BY <2>1, <3>1 DEF ConsentInv, ConsentTypeOK, Views
    <3>3. current' \in Policies /\ accepted' \in 0..MaxPolicies /\ signedIn' \in BOOLEAN
          /\ acceptances' \subseteq [recorded : Policies, shown : Policies]
      BY <2>1 DEF ConsentInv, ConsentTypeOK, ConsentAssumption, Policies
    <3>4. QED
      BY <3>2, <3>3 DEF ConsentTypeOK, Views
  <2>3. \A u \in ConsentTabs : view'[u].at = view[u].at /\ view'[u].me = view[u].me
    BY <2>1 DEF ConsentInv, ConsentTypeOK
  <2>4. accepted <= current /\ acceptances \subseteq acceptances'
        /\ [recorded |-> current, shown |-> current] \in acceptances'
    BY <2>1 DEF ConsentInv
  <2>5. accepted' <= current' /\ (\A a \in acceptances' : a.recorded = a.shown)
        /\ \E a \in acceptances' : a.recorded = accepted'
    <3>1. accepted' <= current'
      BY <2>1 DEF ConsentInv, ConsentTypeOK, ConsentAssumption, Policies
    <3>2. ASSUME NEW a \in acceptances' PROVE a.recorded = a.shown
      BY <2>1, <3>2 DEF ConsentInv
    <3>3. \E a \in acceptances' : a.recorded = accepted'
      BY <2>1, <2>4
    <3>4. QED
      BY <3>1, <3>2, <3>3
  <2>6. ASSUME NEW u \in ConsentTabs, view'[u].me.state = "past"
        PROVE  /\ view'[u].me.version <= accepted'
               /\ \E a \in acceptances' : a.recorded = view'[u].me.version
    <3>1. view[u].me.version \in Nat
      BY DEF ConsentInv, ConsentTypeOK, Mes, Policies, ConsentAssumption
    <3>2. QED
      BY <2>1, <2>3, <2>4, <2>6, <3>1 DEF ConsentInv, ConsentTypeOK, ConsentAssumption, Policies
  <2>7. QED
    BY <2>2, <2>3, <2>5, <2>6 DEF ConsentInv
<1>2. CASE ~Takes(view[t].sent)
  <2>1. [view[t] EXCEPT !.sent = 0] \in Views
    BY DEF ConsentInv, ConsentTypeOK, ConsentAssumption, Views
  <2>2. OnlyView(t, [view[t] EXCEPT !.sent = 0])
    BY <1>2 DEF ServeConsent, OnlyView
  <2>3. QED
    BY <2>1, <2>2, TabMoves DEF ConsentInv, Known, ConsentTypeOK, Views
<1>3. QED
  BY <1>1, <1>2

LEMMA ConsentKept ==
  ASSUME ConsentAssumption, ConsentInv, [ConsentNext]_consentVars PROVE ConsentInv'
<1>1. \A t \in ConsentTabs : view[t] \in Views /\ Known(view[t].me)
  BY DEF ConsentInv, ConsentTypeOK, Known, Views
<1>2. CASE UNCHANGED consentVars
  BY <1>2 DEF consentVars, ConsentInv, ConsentTypeOK
<1>3. CASE PolicyChanges
  BY <1>3 DEF PolicyChanges, ConsentInv, ConsentTypeOK, ConsentAssumption, Policies
<1>4. CASE SessionComesOrGoes
  BY <1>4 DEF SessionComesOrGoes, ConsentInv, ConsentTypeOK
<1>5. ASSUME NEW t \in ConsentTabs, Visit(t) PROVE ConsentInv'
  <2>1. ASSUME NEW page \in Gated, OnlyView(t, Shows(page, page, Loading)) PROVE ConsentInv'
    BY <2>1, StartsKnown, ShowsOK, TabMoves
  <2>2. ASSUME NEW target \in Gated \cup {"elsewhere"},
               OnlyView(t, Shows("consent", safeRedirect(target), Loading))
        PROVE  ConsentInv'
    <3>1. safeRedirect(target) \in Gated
      BY DEF safeRedirect, Gated
    <3>2. QED
      BY <2>2, <3>1, StartsKnown, ShowsOK, TabMoves
  <2>3. QED
    BY <1>5, <2>1, <2>2 DEF Visit
<1>6. ASSUME NEW t \in ConsentTabs, MeArrives(t) PROVE ConsentInv'
  <2>1. PICK m \in {Me} \cup (IF view[t].me = Loading THEN {NoAccount} ELSE {}) :
          IF view[t].at = "consent" /\ m.state = "asked"
          THEN OnlyView(t, [view[t] EXCEPT !.me = m])
          ELSE OnlyView(t, [Shows(view[t].at, view[t].next, m) EXCEPT
                              !.sent = view[t].sent, !.answered = view[t].answered])
    BY <1>6 DEF MeArrives
  <2>2. Known(m)
    BY <2>1, MeKnown, StartsKnown
  <2>3. view[t].at \in Gated \cup {"consent"} /\ view[t].next \in Gated
    BY <1>1, <1>6 DEF MeArrives, Views
  <2>4. CASE view[t].at = "consent" /\ m.state = "asked"
    <3>1. [view[t] EXCEPT !.me = m] \in Views
      BY <1>1, <2>2 DEF Views, Known
    <3>2. QED
      BY <1>1, <2>1, <2>2, <2>4, <3>1, TabMoves DEF Views, Gated
  <2>5. CASE ~(view[t].at = "consent" /\ m.state = "asked")
    <3> DEFINE shown == Shows(view[t].at, view[t].next, m)
               v == [shown EXCEPT !.sent = view[t].sent, !.answered = view[t].answered]
    <3>1. shown \in Views /\ shown.me = m /\ (shown.at \in Gated => m.state # "asked")
      BY <2>2, <2>3, ShowsOK
    <3>2. OnlyView(t, v)
      BY <2>1, <2>5
    <3> HIDE DEF shown
    <3>3. v \in Views /\ v.me = m /\ v.at = shown.at
      BY <1>1, <3>1 DEF Views
    <3> HIDE DEF v
    <3>4. QED
      BY <2>2, <3>1, <3>2, <3>3, TabMoves
  <2>6. QED
    BY <2>4, <2>5
<1>7. ASSUME NEW t \in ConsentTabs, TickPolicies(t) PROVE ConsentInv'
  <2>1. [view[t] EXCEPT !.checked = ~@] \in Views
    BY <1>1 DEF Views
  <2>2. QED
    BY <1>1, <1>7, <2>1, TabMoves DEF TickPolicies, Views, Gated
<1>8. ASSUME NEW t \in ConsentTabs, HandleAccept(t) PROVE ConsentInv'
  <2>1. [view[t] EXCEPT !.sent = view[t].me.version] \in Views
    BY <1>1 DEF Views, Mes, Policies, ConsentAssumption
  <2>2. QED
    BY <1>1, <1>8, <2>1, TabMoves DEF HandleAccept, Views, Gated
<1>9. ASSUME NEW t \in ConsentTabs, Accepted(t) PROVE ConsentInv'
  <2>1. PICK m \in {Me, view[t].me} : OnlyView(t, Shows(view[t].next, view[t].next, m))
    BY <1>9 DEF Accepted
  <2>2. Known(m) /\ view[t].next \in Gated
    BY <1>1, MeKnown DEF Views
  <2>3. QED
    BY <2>1, <2>2, ShowsOK, TabMoves
<1>10. ASSUME NEW t \in ConsentTabs, ConsentFails(t) PROVE ConsentInv'
  <2>1. [view[t] EXCEPT !.sent = 0, !.answered = FALSE] \in Views
    <3>1. 0 \in 0..MaxPolicies
      BY DEF ConsentAssumption
    <3>2. QED
      BY <1>1, <3>1 DEF Views
  <2>2. QED
    BY <1>1, <1>10, <2>1, TabMoves DEF ConsentFails, Views, ConsentInv
<1>11. QED
  BY <1>2, <1>3, <1>4, <1>5, <1>6, <1>7, <1>8, <1>9, <1>10, ConsentServed DEF ConsentNext

\* Whatever tabs are open and whenever the version changes, the version recorded is the one
\* on the screen, and no gated page opens before it (auth.controller acceptConsent).
THEOREM ConsentHolds == ConsentSpec => []ConsentAsShown
<1>1. ConsentInit => ConsentInv
  BY ConsentAssumption, ConsentBegins
<1>2. ConsentInv /\ [ConsentNext]_consentVars => ConsentInv'
  BY ConsentAssumption, ConsentKept
<1>3. ConsentInv => ConsentAsShown
  BY DEF ConsentInv, ConsentAsShown, ConsentTypeOK, ConsentAssumption, Mes, Policies
<1>4. QED
  BY <1>1, <1>2, <1>3, PTL DEF ConsentSpec

\* However the tabs of a sign-in and of its consent interleave, it lands where it started and
\* consents to what was shown (auth.controller, the consent page).
THEOREM SignInRight == CookieSpec /\ ConsentSpec => []SignInHolds
<1>1. LandsWhereStarted /\ ConsentAsShown => SignInHolds
  BY DEF SignInHolds
<1>2. QED
  BY <1>1, LandsRight, ConsentHolds, PTL
=============================================================================
