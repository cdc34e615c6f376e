---------------------------- MODULE CustomDomain ----------------------------
(***************************************************************************)
(* Custom domains (src/domain) beside registration and removal             *)
(* (deploy.service): the row of custom_domains, the Ingress the deploy     *)
(* repository lists, what Argo CD and cert-manager make of it, and the     *)
(* certificate cache.  Mutations of one account exclude each other (that   *)
(* DeployLifecycle implements KeyedMutex is proved there); a GET takes no  *)
(* lock, and its toInfo moves a row to active.  The process may crash      *)
(* between any two steps.  One app per account; the redeploy of this       *)
(* module is the part of registerForUser that concerns the domain.         *)
(***************************************************************************)
EXTENDS Naturals, FiniteSets

CONSTANTS
  Users,          \* logins
  Domains,        \* host names users may ask for
  Requests,       \* bound: requests in the process at a time
  MaxId,          \* bound: rows created in one behaviour
  Grandfathered,  \* the account with a row of the first scheme (TXT and CNAME), or None
  LegacyDomain,   \* its domain
  None

ASSUME DomainAssumption ==
  /\ MaxId \in Nat \ {0}
  /\ None \notin Users \cup Domains
  /\ Grandfathered \in Users \cup {None} /\ LegacyDomain \in Domains

VARIABLES
  op,           \* op[q]: the handler request q is running, with its locals
  row,          \* row[u]: the account's row of custom_domains
  nextId,       \* sqlite_sequence: the next AUTOINCREMENT id
  registered,   \* accounts with a registration file
  route,        \* route[u]: domain of the Ingress listed in the deploy repository
  routedFor,    \* history: the row in whose name that Ingress was last committed, or 0
  ingress,      \* ingress[u]: domain of the Ingress in the cluster
  cert,         \* cert[u]: domain of the Certificate that is Ready
  cache,        \* cache[u]: CertStatusCache entry of the account's Certificate
  cname,        \* cname[d]: the row whose CNAME target d points at, or 0
  txt,          \* txt[d]: the row whose token d's TXT record carries, or 0
  proven,       \* history: ids of the rows whose own proof the DNS carried when looked up
  issued        \* history: <<account, domain>> a certificate was issued for

store == <<row, nextId>>
git == <<registered, route, routedFor>>
cluster == <<ingress, cert>>
dns == <<cname, txt>>
history == <<proven, issued>>
vars == <<op, store, git, cluster, cache, dns, history>>

-----------------------------------------------------------------------------
(* Types                                                                   *)

Statuses == {"pending", "verified", "applying", "active", "error"}
NoRow == [id |-> 0, domain |-> None, scheme |-> "cname", status |-> "pending",
          applied |-> FALSE]
RowsOfTable == [id : 1..MaxId, domain : Domains, scheme : {"txt", "cname"},
                status : Statuses, applied : BOOLEAN]

Kinds == {"none", "get", "register", "verify", "remove", "deploy", "teardown"}
Steps == {"idle", "lookup", "info", "served", "txt", "cname", "commit", "committed",
          "uncommit", "uncommitted", "manifests", "publish", "unregister", "unregistered"}

Idle == [kind |-> "none", step |-> "idle", user |-> None, row |-> NoRow, ready |-> FALSE]
Ops == [kind : Kinds, step : Steps, user : Users \cup {None},
        row : RowsOfTable \cup {NoRow}, ready : BOOLEAN]

StepOf(kind, step) ==
  \/ kind = "none" /\ step = "idle"
  \/ kind = "get" /\ step \in {"lookup", "info", "served"}
  \/ kind = "register" /\ step \in {"info", "served"}
  \/ kind = "verify" /\ step \in {"txt", "cname", "commit", "committed", "info", "served"}
  \/ kind = "remove" /\ step \in {"uncommit", "uncommitted"}
  \/ kind = "deploy" /\ step \in {"manifests", "publish"}
  \/ kind = "teardown" /\ step \in {"unregister", "unregistered"}

\* Steps that go on with the row they remember.
WithRow == {"info", "served", "txt", "cname", "commit", "committed", "uncommit",
            "uncommitted"}

HandlerOK(o) ==
  /\ StepOf(o.kind, o.step)
  /\ IF o.kind = "none" THEN o = Idle ELSE o.user \in Users
  /\ o.step \in WithRow => o.row # NoRow

HasDomain(u) == row[u] # NoRow

OpOK == op \in [Requests -> Ops] /\ \A q \in Requests : HandlerOK(op[q])

\* Ids are never used twice: the row a slow handler remembers is this row or gone.
TableOK ==
  /\ row \in [Users -> RowsOfTable \cup {NoRow}]
  /\ nextId \in 1..(MaxId + 1)
  /\ \A u \in Users : row[u].id < nextId

WorldOK ==
  /\ registered \subseteq Users
  /\ route \in [Users -> Domains \cup {None}] /\ routedFor \in [Users -> 0..MaxId]
  /\ ingress \in [Users -> Domains \cup {None}] /\ cert \in [Users -> Domains \cup {None}]
  /\ cache \in [Users -> {"none", "ready", "waiting"}]
  /\ cname \in [Domains -> 0..MaxId] /\ txt \in [Domains -> 0..MaxId]
  /\ proven \subseteq 1..MaxId /\ issued \subseteq Users \X Domains

TypeOK == OpOK /\ TableOK /\ WorldOK

LegacyRow == [id |-> 1, domain |-> LegacyDomain, scheme |-> "txt", status |-> "pending",
              applied |-> FALSE]

Init ==
  /\ op = [q \in Requests |-> Idle]
  /\ row = [u \in Users |-> IF u = Grandfathered THEN LegacyRow ELSE NoRow]
  /\ nextId = IF Grandfathered = None THEN 1 ELSE 2
  /\ registered = Users
  /\ route = [u \in Users |-> None] /\ routedFor = [u \in Users |-> 0]
  /\ ingress = [u \in Users |-> None] /\ cert = [u \in Users |-> None]
  /\ cache = [u \in Users |-> "none"]
  /\ cname = [d \in Domains |-> 0] /\ txt = [d \in Domains |-> 0]
  /\ proven = {} /\ issued = {}

-----------------------------------------------------------------------------
(* Requests                                                                *)

\* A mutation starts when its account has none running; a GET always may.
Free(q, u) == op[q] = Idle /\ \A p \in Requests : op[p].user = u => op[p].kind = "get"

Begin(q, u, kind, step, r) ==
  /\ op[q] = Idle
  /\ kind = "get" \/ Free(q, u)
  /\ op' = [op EXCEPT ![q] = [Idle EXCEPT !.kind = kind, !.step = step,
                                          !.user = u, !.row = r]]

Go(q, step) == op' = [op EXCEPT ![q].step = step]
GoWith(q, step, r) == op' = [op EXCEPT ![q] = [@ EXCEPT !.step = step, !.row = r]]
End(q) == op' = [op EXCEPT ![q] = Idle]

\* UPDATE ... WHERE id = ?: nothing happens to a row that is gone.
Updated(r, id, status) == IF r.id = id THEN [r EXCEPT !.status = status] ELSE r

\* The handler answers with the row it changed, or with the one it remembers.
AnswerWith(q, r) == GoWith(q, "info", IF r.id = op[q].row.id THEN r ELSE op[q].row)

Errored(q) ==
  LET u == op[q].user
      r == Updated(row[u], op[q].row.id, "error")
  IN row' = [row EXCEPT ![u] = r] /\ AnswerWith(q, r)

\* The single replica stops; the cache goes with it.
Crash ==
  /\ op # [q \in Requests |-> Idle]
  /\ op' = [q \in Requests |-> Idle]
  /\ cache' = [u \in Users |-> "none"]
  /\ UNCHANGED <<store, git, cluster, dns, history>>

-----------------------------------------------------------------------------
(* DomainService.get and toInfo                                            *)

\* The controller awaits the current deployment before the row is looked up.
BeginGet(q, u) ==
  /\ u \in registered
  /\ Begin(q, u, "get", "lookup", NoRow)
  /\ UNCHANGED <<store, git, cluster, cache, dns, history>>

Lookup(q) ==
  LET r == row[op[q].user]
  IN /\ op[q].step = "lookup"
     /\ IF r = NoRow THEN End(q) ELSE GoWith(q, "info", r)
     /\ UNCHANGED <<store, git, cluster, cache, dns, history>>

\* Mutant: a row is shown active as soon as its certificate is, whatever its status.
FlippedAlways(current, seen, ready) ==
  IF ready THEN Updated(current, seen.id, "active") ELSE current

\* The status looked at is the one remembered, the row changed is the stored one.
Flipped(current, seen, ready) ==
  IF seen.status = "applying" /\ ready
    THEN Updated(current, seen.id, "active") ELSE current

\* A fresh cache entry answers at once; else the Certificate is read, perhaps in vain.
ReadCertificate(q) ==
  LET u == op[q].user
  IN /\ op[q].step = "info"
     /\ \/ /\ cache[u] # "none"
           /\ row' = [row EXCEPT ![u] = Flipped(@, op[q].row, cache[u] = "ready")]
           /\ End(q)
        \/ /\ cache[u] = "none"
           /\ \E ready \in {cert[u] # None, FALSE} :
                op' = [op EXCEPT ![q] = [@ EXCEPT !.step = "served", !.ready = ready]]
           /\ UNCHANGED row
     /\ UNCHANGED <<nextId, git, cluster, cache, dns, history>>

\* The answer arrives, whatever happened since: it is cached and acted upon.
StoreCertificate(q) ==
  LET u == op[q].user
  IN /\ op[q].step = "served"
     /\ cache' = [cache EXCEPT ![u] = IF op[q].ready THEN "ready" ELSE "waiting"]
     /\ row' = [row EXCEPT ![u] = Flipped(@, op[q].row, op[q].ready)]
     /\ End(q)
     /\ UNCHANGED <<nextId, git, cluster, dns, history>>

\* The 20 seconds of an entry pass.
ExpireCache(u) ==
  /\ cache[u] # "none"
  /\ cache' = [cache EXCEPT ![u] = "none"]
  /\ UNCHANGED <<op, store, git, cluster, dns, history>>

-----------------------------------------------------------------------------
(* register                                                                *)

\* Mutant: the id of the last row is used again.
InsertReusingId(u, d) ==
  /\ row' = [row EXCEPT ![u] = [id |-> nextId, domain |-> d, scheme |-> "cname",
                                status |-> "pending", applied |-> FALSE]]
  /\ UNCHANGED nextId

\* New rows are always of the tokenized CNAME scheme.
Insert(u, d) ==
  /\ row' = [row EXCEPT ![u] = [id |-> nextId, domain |-> d, scheme |-> "cname",
                                status |-> "pending", applied |-> FALSE]]
  /\ nextId' = nextId + 1

\* One domain per app, and no domain twice.
Register(q, u, d) ==
  /\ u \in registered /\ nextId <= MaxId
  /\ ~HasDomain(u)
  /\ \A v \in Users : row[v].domain # d
  /\ Insert(u, d)
  /\ Begin(q, u, "register", "info", row'[u])
  /\ UNCHANGED <<git, cluster, cache, dns, history>>

-----------------------------------------------------------------------------
(* verify                                                                  *)

\* A request within the cooldown is refused and changes nothing, so it is left out.
BeginVerify(q, u) ==
  LET r == row[u]
  IN /\ u \in registered /\ HasDomain(u)
     /\ Begin(q, u, "verify",
              CASE r.status \in {"applying", "active"} -> "info"
                [] r.status \notin {"applying", "active"} /\ r.scheme = "txt" -> "txt"
                [] OTHER -> "cname", r)
     /\ UNCHANGED <<store, git, cluster, cache, dns, history>>

\* checkDns, the TXT challenge of grandfathered rows.
CheckTxt(q) ==
  LET r == op[q].row
  IN /\ op[q].step = "txt"
     /\ \/ txt[r.domain] = r.id /\ Go(q, "cname") /\ UNCHANGED row
        \/ Errored(q)
     /\ UNCHANGED <<nextId, git, cluster, cache, dns, history>>

\* Mutant: a domain that points at the platform at all is good enough.
MatchesAnyTarget(r) == cname[r.domain] # 0

Matches(r) == cname[r.domain] = r.id

\* checkDns, the CNAME; a lookup that fails is an error of the row as well.
CheckCname(q) ==
  LET o == op[q]
  IN /\ o.step = "cname"
     /\ \/ /\ Matches(o.row)
           /\ proven' = IF cname[o.row.domain] = o.row.id
                          THEN proven \cup {o.row.id} ELSE proven
           /\ row' = [row EXCEPT ![o.user] = Updated(@, o.row.id, "verified")]
           /\ Go(q, "commit")
        \/ Errored(q) /\ UNCHANGED proven
     /\ UNCHANGED <<nextId, git, cluster, cache, dns, issued>>

\* The repository lists the Ingress of a row from now on, or none.
Routes(u, r) ==
  route' = [route EXCEPT ![u] = r.domain] /\ routedFor' = [routedFor EXCEPT ![u] = r.id]

\* commitCustomDomainIngress, as far as the repository is concerned.
CommitIngress(q) ==
  LET o == op[q]
  IN /\ o.step = "commit"
     /\ \/ Routes(o.user, o.row) /\ Go(q, "committed") /\ UNCHANGED row
        \/ Errored(q) /\ UNCHANGED <<route, routedFor>>
     /\ UNCHANGED <<nextId, registered, cluster, cache, dns, history>>

\* markApplied and updateStatus.
AppliedRow(r, id) ==
  IF r.id = id THEN [r EXCEPT !.status = "applying", !.applied = TRUE] ELSE r

\* Its answer arrives and the row is marked, or is lost and the row is in error.
MarkApplied(q) ==
  LET o == op[q]
      r == AppliedRow(row[o.user], o.row.id)
  IN /\ o.step = "committed"
     /\ \/ row' = [row EXCEPT ![o.user] = r] /\ AnswerWith(q, r)
        \/ Errored(q)
     /\ UNCHANGED <<nextId, git, cluster, cache, dns, history>>

-----------------------------------------------------------------------------
(* delete                                                                  *)

\* A row whose commit never landed, as far as it knows, is dropped at once.
Drop(q, u) ==
  /\ u \in registered /\ HasDomain(u) /\ ~row[u].applied
  /\ Free(q, u)
  /\ row' = [row EXCEPT ![u] = NoRow]
  /\ cache' = [cache EXCEPT ![u] = "none"]
  /\ UNCHANGED <<op, nextId, git, cluster, dns, history>>

BeginRemove(q, u) ==
  /\ u \in registered /\ HasDomain(u) /\ row[u].applied
  /\ Begin(q, u, "remove", "uncommit", row[u])
  /\ UNCHANGED <<store, git, cluster, cache, dns, history>>

\* The row stays, in error, when the removal did not land or is not known to have.
KeepRow(q) ==
  LET u == op[q].user
  IN /\ row' = [row EXCEPT ![u] = Updated(@, op[q].row.id, "error")]
     /\ UNCHANGED cache
     /\ End(q)

DropRow(q) ==
  LET u == op[q].user
  IN /\ row' = [row EXCEPT ![u] = NoRow]
     /\ cache' = [cache EXCEPT ![u] = "none"]
     /\ End(q)

\* Mutant: the row goes whether or not the removal was committed.
AfterFailedRemoveDropping(q) == DropRow(q)

AfterFailedRemove(q) == KeepRow(q)

CommitRemoval(q) ==
  /\ op[q].step = "uncommit"
  /\ \/ /\ Routes(op[q].user, NoRow)
        /\ Go(q, "uncommitted") /\ UNCHANGED <<row, cache>>
     \/ AfterFailedRemove(q) /\ UNCHANGED <<route, routedFor>>
  /\ UNCHANGED <<nextId, registered, cluster, dns, history>>

FinishRemoval(q) ==
  /\ op[q].step = "uncommitted"
  /\ DropRow(q) \/ AfterFailedRemove(q)
  /\ UNCHANGED <<nextId, git, cluster, dns, history>>

-----------------------------------------------------------------------------
(* registerForUser and deleteDeployment, as far as domains are concerned   *)

\* Mutant: a row in error is not rendered.
RenderedActivePhase(u) ==
  IF row[u].status \in {"applying", "active"} THEN row[u] ELSE NoRow

\* findForRender.
Rendered(u) ==
  IF row[u].status \in {"applying", "active"} \/ row[u].applied THEN row[u] ELSE NoRow

\* A first deployment waits until the previous one is drained.
BeginDeploy(q, u) ==
  /\ u \in registered \/ (ingress[u] = None /\ cert[u] = None)
  /\ Begin(q, u, "deploy", "manifests", Rendered(u))
  /\ UNCHANGED <<store, git, cluster, cache, dns, history>>

\* kustomization.yaml is rewritten whole; the row was looked up long before.
CommitManifests(q) ==
  /\ op[q].step = "manifests"
  /\ Routes(op[q].user, op[q].row)
  /\ Go(q, "publish") \/ End(q)
  /\ UNCHANGED <<store, registered, cluster, cache, dns, history>>

CommitRegistration(q) ==
  /\ op[q].step = "publish"
  /\ registered' = registered \cup {op[q].user}
  /\ End(q)
  /\ UNCHANGED <<store, route, routedFor, cluster, cache, dns, history>>

BeginTeardown(q, u) ==
  /\ Begin(q, u, "teardown", "unregister", NoRow)
  /\ UNCHANGED <<store, git, cluster, cache, dns, history>>

\* GitHub refuses to delete a registration file that is not there (Fail).
CommitUnregister(q) ==
  /\ op[q].step = "unregister" /\ op[q].user \in registered
  /\ registered' = registered \ {op[q].user}
  /\ Go(q, "unregistered")
  /\ UNCHANGED <<store, route, routedFor, cluster, cache, dns, history>>

\* deleteByLogin once the commit is known to have landed; a lost answer ends the request.
DeleteOrphans(q) ==
  /\ op[q].step = "unregistered"
  /\ row' = [row EXCEPT ![op[q].user] = NoRow] \/ UNCHANGED row
  /\ End(q)
  /\ UNCHANGED <<nextId, git, cluster, cache, dns, history>>

\* A call of a redeploy or a teardown that fails without effect.
Fail(q) ==
  /\ op[q].step \in {"manifests", "publish", "unregister"}
  /\ End(q)
  /\ UNCHANGED <<store, git, cluster, cache, dns, history>>

-----------------------------------------------------------------------------
(* DNS, Argo CD and cert-manager                                           *)

\* Whoever controls d follows, or undoes, the instructions of a row for it.
PointDomain(d) ==
  LET of(schemes) == {0} \cup {row[u].id : u \in {v \in Users : /\ row[v].domain = d
                                                              /\ row[v].scheme \in schemes}}
  IN /\ \/ /\ \E id \in of({"txt", "cname"}) \ {cname[d]} : cname' = [cname EXCEPT ![d] = id]
           /\ UNCHANGED txt
        \/ /\ \E id \in of({"txt"}) \ {txt[d]} : txt' = [txt EXCEPT ![d] = id]
           /\ UNCHANGED cname
     /\ UNCHANGED <<op, store, git, cluster, cache, history>>

SyncIngress(u) ==
  LET wanted == IF u \in registered THEN route[u] ELSE None
  IN /\ ingress[u] # wanted
     /\ ingress' = [ingress EXCEPT ![u] = wanted]
     /\ UNCHANGED <<op, store, git, cert, cache, dns, history>>

\* The Certificate is named after the app: it outlives a change of domain for a while.
IssueCertificate(u) ==
  /\ ingress[u] # None /\ cert[u] = None
  /\ cert' = [cert EXCEPT ![u] = ingress[u]]
  /\ issued' = issued \cup {<<u, ingress[u]>>}
  /\ UNCHANGED <<op, store, git, ingress, cache, dns, proven>>

RemoveCertificate(u) ==
  /\ cert[u] # None /\ cert[u] # ingress[u]
  /\ cert' = [cert EXCEPT ![u] = None]
  /\ UNCHANGED <<op, store, git, ingress, cache, dns, history>>

-----------------------------------------------------------------------------

Begins(q, u) == \/ BeginGet(q, u) \/ BeginVerify(q, u) \/ BeginRemove(q, u) \/ Drop(q, u)
                \/ BeginDeploy(q, u) \/ BeginTeardown(q, u)
                \/ \E d \in Domains : Register(q, u, d)

Handler(q) == \/ Lookup(q) \/ ReadCertificate(q) \/ StoreCertificate(q)
              \/ CheckTxt(q) \/ CheckCname(q) \/ CommitIngress(q) \/ MarkApplied(q)
              \/ CommitRemoval(q) \/ FinishRemoval(q)
              \/ CommitManifests(q) \/ CommitRegistration(q)
              \/ CommitUnregister(q) \/ DeleteOrphans(q) \/ Fail(q)

World == \/ \E d \in Domains : PointDomain(d)
         \/ \E u \in Users : \/ SyncIngress(u) \/ IssueCertificate(u)
                             \/ RemoveCertificate(u) \/ ExpireCache(u)

Next == \/ \E q \in Requests : (\E u \in Users : Begins(q, u)) \/ Handler(q)
        \/ World \/ Crash

Spec == Init /\ [][Next]_vars

-----------------------------------------------------------------------------
(* Safety                                                                  *)

\* The Ingress of a domain was last committed in the name of a row whose own proof the DNS
\* had carried: an earlier registration's proof, of the same domain and account even, does
\* not count for a later one, and redeploys, retries and resumed rows never skip it.
RouteProven ==
  \A u \in Users : route[u] # None => routedFor[u] \in proven

\* What is shown as applying or active is recorded as committed, whoever moved the row
\* there: removal and redeploy decide by that record.
ShownIsRecorded ==
  \A u \in Users : row[u].status \in {"applying", "active"} => row[u].applied

\* A redeploy keeps an applied domain: only the account's own removal takes it away.
RedeployKeepsDomain ==
  [][\A u \in Users :
       row[u].applied /\ route[u] = row[u].domain =>
         route'[u] = route[u] \/ \E q \in Requests : op[q].user = u /\ op[q].kind = "remove"]_vars

\* A domain is reported gone only when it is no longer routed: an applied row
\* disappears after its Ingress left the repository, or with the whole registration.
GoneMeansUnrouted ==
  [][\A u \in Users :
       row[u].applied /\ row'[u].id # row[u].id => route'[u] = None \/ u \notin registered']_vars

\* The strengthening from which both invariants follow: what a handler remembers of
\* a row still holds of the row with that id, and proof comes before what needs it.
Recalls(o) ==
  /\ o.row.id < nextId
  /\ o.row.status \in {"applying", "active"} => o.row.applied
  /\ o.row # NoRow /\ row[o.user].id = o.row.id =>
       /\ row[o.user].domain = o.row.domain
       /\ o.row.applied => row[o.user].applied

Remembered == \A q \in Requests : Recalls(op[q])

NeedsProof(o) == \/ o.step \in {"commit", "committed"}
                 \/ o.step = "manifests" /\ o.row # NoRow

ProofFirst ==
  /\ \A u \in Users : row[u].applied => row[u].id \in proven
  /\ \A q \in Requests : NeedsProof(op[q]) => op[q].row.id \in proven

DomainInv == TypeOK /\ RouteProven /\ ShownIsRecorded /\ Remembered /\ ProofFirst

-----------------------------------------------------------------------------
(* What comments say that the code does not keep                           *)

Resting(u) == \A q \in Requests : op[q].user = u => op[q].kind = "get"

\* domain.service: a pending row never had a commit, so no routed domain is without row.
RoutedHasRow ==
  \A u \in Users : u \in registered /\ Resting(u) /\ route[u] # None =>
    row[u].domain = route[u]

\* domain.service toInfo: active once the certificate of the new Ingress is issued.
ActiveHasCertificate ==
  \A u \in Users : row[u].status = "active" => <<u, row[u].domain>> \in issued
=============================================================================
