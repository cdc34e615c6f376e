-------------------------- MODULE RegistrationProofs --------------------------
(* What the interceptor's keys buy: between the moment a handler reads the *)
(* registration and the moment it writes, nobody else has changed what it  *)
(* read.  From that: one app per account, publication in order, recovery   *)
(* that deletes nothing in use, and a ledger that covers what runs.        *)
EXTENDS DeployLifecycleProofs

-----------------------------------------------------------------------------
(* The inductive invariant                                                 *)

\* The steps from admission, or from the check that none is needed, to publication.
Publishing == {"claim", "storage", "source", "ensure", "manifests", "publish"}

\* The registration file a handler read is still the file.
FileKnown(o) ==
  o.kind \in {"register", "env"} /\ o.step # "registration" => o.reg = registration[o.user]

\* A first deployment goes on only where nothing is left of an earlier one; any
\* other handler works on the app that is registered.
AppKnown(o) ==
  /\ o.step \in {"metrics", "admit"} => o.reg = NoReg /\ argo[o.user] = None
  /\ o.step \in Publishing => o.reg.app = o.app \/ (o.reg = NoReg /\ argo[o.user] = None)
  /\ o.step \in {"write", "restart"} => o.reg.app = o.app

\* A first deployment holds its reservation until it is published.
RowHeld(o) == o.step \in Publishing /\ o.reg = NoReg => Reserved(o.user) # {}

\* A removal archives and frees the reservation of what is no longer registered.
Unregistered(o) == o.step \in {"archive", "finish"} => ~Registered(o.user)

\* What a recovery has probed so far still holds when it decides.
ProbesHold(o) ==
  o.kind = "release" =>
    /\ o.clear /\ "registration" \notin o.todo => ~Registered(o.target)
    /\ o.clear /\ "application" \notin o.todo => Registered(o.target) \/ argo[o.target] = None
    /\ \A r \in Reserved(o.target) : r.stamp = o.digest => plan[o.target] = o.digest

Knows(o) == FileKnown(o) /\ AppKnown(o) /\ RowHeld(o) /\ Unregistered(o) /\ ProbesHold(o)

\* Only an Application makes a namespace, and it outlives it.
NamespaceOwned == \A u \in namespaces : argo[u] # None

\* An app whose pods were seen has no row any more: it is weighed once.
WeighedOnce == \A u \in counted : Reserved(u) = {}

LifecycleInv ==
  /\ TypeOK /\ LedgerInv /\ RegistrationSerialised
  /\ NamespaceOwned /\ WeighedOnce /\ Accounted
  /\ \A q \in Requests : Knows(op[q])

-----------------------------------------------------------------------------
(* Who may change what                                                     *)

\* Two running handlers serve different accounts, and one of them is an
\* environment change.
LEMMA Excluded ==
  ASSUME TypeOK, RegistrationSerialised, NEW q \in Requests, NEW r \in Requests, q # r,
         op[q].step # "idle", op[r].step # "idle"
  PROVE  /\ op[q].user # op[r].user
         /\ op[q].kind = "env" \/ op[r].kind = "env"
<1>1. HeldKeys[q] \cap HeldKeys[r] = {}
  BY DEF RegistrationSerialised, Mutex!LockInv, Mutex!Exclusive
<1>2. /\ HeldKeys[q] = Keys(op[q].user, op[q].kind)
      /\ HeldKeys[r] = Keys(op[r].user, op[r].kind)
  BY DEF HeldKeys
<1>3. QED
  BY <1>1, <1>2 DEF Keys

\* What a step may do to one handler.
LEMMA HandlerChanges ==
  ASSUME TypeOK, Next, NEW q \in Requests
  PROVE  \/ op'[q] = op[q]
         \/ op'[q] = Idle
         \/ \E u \in Users : Begins(q, u)
         \/ Handler(q)
<1>1. ASSUME NEW r \in Requests, NEW o, op' = [op EXCEPT ![r] = o], q # r PROVE op'[q] = op[q]
  BY <1>1 DEF TypeOK, ProcessOK
<1>2. ASSUME NEW r \in Requests, Handler(r), q # r PROVE op'[q] = op[q]
  <2>1. Continues(r) \/ End(r)
    BY <1>2, HandlerKeepsOrSettles
  <2>2. QED
    BY <1>1, <1>2, <2>1 DEF Continues, End
<1>3. ASSUME NEW r \in Requests, NEW u \in Users, Begins(r, u), q # r PROVE op'[q] = op[q]
  BY <1>1, <1>3 DEF Begins, BeginRegister, BeginDelete, BeginDeleteAccount, BeginRelease,
                   BeginEnv, Begin
<1>4. ASSUME NEW u \in Users, Inspect(u) \/ SignIn(u) \/ SetAllowed(u) PROVE op' = op
  BY <1>4 DEF Inspect, SignIn, SetAllowed
<1>5. ASSUME NEW u \in Users, ClusterStep(u) \/ LosePods(u) PROVE op' = op
  BY <1>5 DEF ClusterStep, LosePods, CreateApplication, SyncApplication, PruneApplication,
              RemoveNamespace, RemoveApplication, RemoveVolume, External
<1>6. ASSUME Scrape \/ Cleanup PROVE op' = op
  BY <1>6 DEF Scrape, Cleanup, ListArchived, DeleteExpired, External
<1>7. CASE Crash
  BY <1>7 DEF Crash
<1>8. QED
  BY <1>2, <1>3, <1>4, <1>5, <1>6, <1>7 DEF Next

\* The registration file of an account is written by its own handlers.
LEMMA RegistrationChanges ==
  ASSUME TypeOK, Next, NEW u \in Users, registration'[u] # registration[u]
  PROVE  \E q \in Requests : op[q].user = u /\ (CommitRegistration(q) \/ CommitRemoval(q))
<1>1. ASSUME NEW q \in Requests, NEW v \in Users, Begins(q, v) PROVE UNCHANGED registration
  BY <1>1 DEF Begins, BeginRegister, BeginDelete, BeginDeleteAccount, BeginRelease, BeginEnv, git
<1>2. ASSUME NEW q \in Requests, Fail(q) \/ EnvStep(q) \/ ReleaseStep(q)
      PROVE  UNCHANGED registration
  BY <1>2 DEF Fail, EnvStep, WriteEnv, TriggerRestart, ReleaseStep, Probe, Recover, git
<1>3. ASSUME NEW q \in Requests, RegisterStep(q), ~CommitRegistration(q)
      PROVE  UNCHANGED registration
  BY <1>3 DEF RegisterStep, ReadRegistration, ReadApplication, ReadMetrics, Admit, Decline,
              ClaimHost, ReadStorage, CommitSource, EnsureRepo, CommitManifests, git
<1>4. ASSUME NEW q \in Requests, DeleteStep(q), ~CommitRemoval(q) PROVE UNCHANGED registration
  BY <1>4 DEF DeleteStep, ArchiveRepo, FinishDelete, Anonymise, git
<1>5. ASSUME NEW v \in Users, Inspect(v) \/ SignIn(v) \/ SetAllowed(v)
      PROVE  UNCHANGED registration
  BY <1>5 DEF Inspect, SignIn, SetAllowed, git
<1>6. ASSUME NEW v \in Users, ClusterStep(v) \/ LosePods(v) PROVE UNCHANGED registration
  BY <1>6 DEF ClusterStep, LosePods, CreateApplication, SyncApplication, PruneApplication,
              RemoveNamespace, RemoveApplication, RemoveVolume, External, git
<1>7. ASSUME Scrape \/ Cleanup \/ Crash PROVE UNCHANGED registration
  BY <1>7 DEF Scrape, Cleanup, ListArchived, DeleteExpired, Crash, External, git
<1>8. PICK q \in Requests : CommitRegistration(q) \/ CommitRemoval(q)
  BY <1>1, <1>2, <1>3, <1>4, <1>5, <1>6, <1>7 DEF Next, Handler
<1>9. op[q].user = u
  BY <1>8 DEF TypeOK, GitOK, CommitRegistration, CommitRemoval
<1>10. QED
  BY <1>8, <1>9

\* The ledger is written by mutations that hold the registration key.
LEMMA LedgerChanges ==
  ASSUME Next, <<reservations, counted, blind>>' # <<reservations, counted, blind>>
  PROVE  \E q \in Requests : Admit(q) \/ CommitRemoval(q) \/ FinishDelete(q) \/ Anonymise(q)
                               \/ Recover(q)
<1> DEFINE Same == UNCHANGED <<reservations, counted, blind>>
<1>1. ASSUME NEW q \in Requests, NEW v \in Users, Begins(q, v) PROVE Same
  BY <1>1 DEF Begins, BeginRegister, BeginDelete, BeginDeleteAccount, BeginRelease, BeginEnv,
              db, history
<1>2. ASSUME NEW q \in Requests, Fail(q) \/ EnvStep(q) \/ ReleaseStep(q), ~Recover(q)
      PROVE  Same
  BY <1>2 DEF Fail, EnvStep, WriteEnv, TriggerRestart, ReleaseStep, Probe, db, history
<1>3. ASSUME NEW q \in Requests, RegisterStep(q), ~Admit(q) PROVE Same
  BY <1>3 DEF RegisterStep, ReadRegistration, ReadApplication, ReadMetrics, Decline,
              ClaimHost, ReadStorage, CommitSource, EnsureRepo, CommitManifests,
              CommitRegistration, db, history
<1>4. ASSUME NEW q \in Requests, ArchiveRepo(q) PROVE Same
  BY <1>4 DEF ArchiveRepo, db, history
<1>5. ASSUME NEW v \in Users, Inspect(v) \/ SignIn(v) \/ SetAllowed(v) PROVE Same
  BY <1>5 DEF Inspect, SignIn, SetAllowed, db, history
<1>6. ASSUME NEW v \in Users, ClusterStep(v) \/ LosePods(v) PROVE Same
  BY <1>6 DEF ClusterStep, LosePods, CreateApplication, SyncApplication, PruneApplication,
              RemoveNamespace, RemoveApplication, RemoveVolume, External, db, history
<1>7. ASSUME Scrape \/ Cleanup \/ Crash PROVE Same
  BY <1>7 DEF Scrape, Cleanup, ListArchived, DeleteExpired, Crash, External, db, history
<1>8. QED
  BY <1>1, <1>2, <1>3, <1>4, <1>5, <1>6, <1>7 DEF Next, Handler, DeleteStep

\* Argo CD makes an Application only of a registration.
LEMMA ApplicationChanges ==
  ASSUME TypeOK, Next
  PROVE  \A u \in Users : argo[u] = None /\ ~Registered(u) => argo'[u] = None
<1> DEFINE Goal == \A u \in Users : argo[u] = None /\ ~Registered(u) => argo'[u] = None
<1>1. ASSUME NEW q \in Requests, NEW v \in Users, Begins(q, v) PROVE Goal
  BY <1>1 DEF Begins, BeginRegister, BeginDelete, BeginDeleteAccount, BeginRelease, BeginEnv,
              cluster
<1>2. ASSUME NEW q \in Requests, Handler(q) PROVE Goal
  BY <1>2 DEF Handler, Fail, EnvStep, WriteEnv, TriggerRestart, ReleaseStep, Probe, Recover,
              RegisterStep, ReadRegistration, ReadApplication, ReadMetrics, Admit, Decline,
              ClaimHost, ReadStorage, CommitSource, EnsureRepo, CommitManifests,
              CommitRegistration, DeleteStep, CommitRemoval, ArchiveRepo, FinishDelete,
              Anonymise, cluster
<1>3. ASSUME NEW v \in Users, Inspect(v) \/ SignIn(v) \/ SetAllowed(v) PROVE Goal
  BY <1>3 DEF Inspect, SignIn, SetAllowed, cluster
<1>4. ASSUME NEW v \in Users, CreateApplication(v) PROVE Goal
  BY <1>4 DEF CreateApplication, TypeOK, ClusterOK
<1>5. ASSUME NEW v \in Users, RemoveApplication(v) PROVE Goal
  BY <1>5 DEF RemoveApplication, TypeOK, ClusterOK
<1>6. ASSUME NEW v \in Users, ClusterStep(v) \/ LosePods(v), ~CreateApplication(v),
             ~RemoveApplication(v)
      PROVE  Goal
  BY <1>6 DEF ClusterStep, LosePods, SyncApplication, PruneApplication, RemoveNamespace,
              RemoveVolume
<1>7. ASSUME Scrape \/ Cleanup \/ Crash PROVE Goal
  BY <1>7 DEF Scrape, Cleanup, ListArchived, DeleteExpired, Crash, cluster
<1>8. QED
  BY <1>1, <1>2, <1>3, <1>4, <1>5, <1>6, <1>7 DEF Next

\* The digest the admin holds is the one of the row an inspection showed.
LEMMA PlanChanges ==
  ASSUME TypeOK, Next, NEW u \in Users, plan'[u] # plan[u]
  PROVE  \E r \in Reserved(u) : plan'[u] = r.stamp
<1>1. ASSUME NEW q \in Requests, NEW v \in Users, Begins(q, v) PROVE UNCHANGED plan
  BY <1>1 DEF Begins, BeginRegister, BeginDelete, BeginDeleteAccount, BeginRelease, BeginEnv
<1>2. ASSUME NEW q \in Requests, Handler(q) PROVE UNCHANGED plan
  BY <1>2 DEF Handler, Fail, EnvStep, WriteEnv, TriggerRestart, ReleaseStep, Probe, Recover,
              RegisterStep, ReadRegistration, ReadApplication, ReadMetrics, Admit, Decline,
              ClaimHost, ReadStorage, CommitSource, EnsureRepo, CommitManifests,
              CommitRegistration, DeleteStep, CommitRemoval, ArchiveRepo, FinishDelete,
              Anonymise
<1>3. ASSUME NEW v \in Users, SignIn(v) \/ SetAllowed(v) \/ ClusterStep(v) \/ LosePods(v)
      PROVE  UNCHANGED plan
  BY <1>3 DEF SignIn, SetAllowed, ClusterStep, LosePods, CreateApplication, SyncApplication,
              PruneApplication, RemoveNamespace, RemoveApplication, RemoveVolume, External
<1>4. ASSUME Scrape \/ Cleanup \/ Crash PROVE UNCHANGED plan
  BY <1>4 DEF Scrape, Cleanup, ListArchived, DeleteExpired, Crash, External
<1>5. PICK v \in Users : Inspect(v)
  BY <1>1, <1>2, <1>3, <1>4 DEF Next
<1>6. PICK r \in Reserved(v) : plan' = [plan EXCEPT ![v] = r.stamp]
  BY <1>5 DEF Inspect
<1>7. QED
  BY <1>6 DEF TypeOK, StoreOK

\* A Secret goes with its namespace, and is written by an environment change only.
LEMMA SecretChanges ==
  ASSUME TypeOK, Next, NEW u \in Users, secret'[u] # secret[u], secret'[u] # None
  PROVE  \E q \in Requests : WriteEnv(q)
<1>1. ASSUME NEW q \in Requests, NEW v \in Users, Begins(q, v) PROVE UNCHANGED secret
  BY <1>1 DEF Begins, BeginRegister, BeginDelete, BeginDeleteAccount, BeginRelease, BeginEnv
<1>2. ASSUME NEW q \in Requests, Handler(q), ~WriteEnv(q) PROVE UNCHANGED secret
  BY <1>2 DEF Handler, Fail, EnvStep, TriggerRestart, ReleaseStep, Probe, Recover,
              RegisterStep, ReadRegistration, ReadApplication, ReadMetrics, Admit, Decline,
              ClaimHost, ReadStorage, CommitSource, EnsureRepo, CommitManifests,
              CommitRegistration, DeleteStep, CommitRemoval, ArchiveRepo, FinishDelete,
              Anonymise
<1>3. ASSUME NEW v \in Users, ClusterStep(v) \/ LosePods(v)
      PROVE  secret'[u] \in {secret[u], None}
  BY <1>3 DEF ClusterStep, LosePods, CreateApplication, SyncApplication, PruneApplication,
              RemoveNamespace, RemoveApplication, RemoveVolume, TypeOK, ClusterOK
<1>4. ASSUME NEW v \in Users, Inspect(v) \/ SignIn(v) \/ SetAllowed(v) PROVE UNCHANGED secret
  BY <1>4 DEF Inspect, SignIn, SetAllowed
<1>5. ASSUME Scrape \/ Cleanup \/ Crash PROVE UNCHANGED secret
  BY <1>5 DEF Scrape, Cleanup, ListArchived, DeleteExpired, Crash
<1>6. QED
  BY <1>1, <1>2, <1>3, <1>4, <1>5 DEF Next

\* A namespace is made by a sync, and goes before its Application.
LEMMA NamespaceStep ==
  ASSUME TypeOK, NamespaceOwned, [Next]_vars
  PROVE  NamespaceOwned'
<1>1. ASSUME UNCHANGED cluster PROVE NamespaceOwned'
  BY <1>1 DEF NamespaceOwned, cluster
<1>2. ASSUME NEW q \in Requests, NEW v \in Users, Begins(q, v) PROVE UNCHANGED cluster
  BY <1>2 DEF Begins, BeginRegister, BeginDelete, BeginDeleteAccount, BeginRelease, BeginEnv
<1>3. ASSUME NEW q \in Requests, Handler(q) PROVE UNCHANGED cluster
  BY <1>3 DEF Handler, Fail, EnvStep, WriteEnv, TriggerRestart, ReleaseStep, Probe, Recover,
              RegisterStep, ReadRegistration, ReadApplication, ReadMetrics, Admit, Decline,
              ClaimHost, ReadStorage, CommitSource, EnsureRepo, CommitManifests,
              CommitRegistration, DeleteStep, CommitRemoval, ArchiveRepo, FinishDelete,
              Anonymise
<1>4. ASSUME NEW v \in Users, Inspect(v) \/ SignIn(v) \/ SetAllowed(v) PROVE UNCHANGED cluster
  BY <1>4 DEF Inspect, SignIn, SetAllowed
<1>5. ASSUME NEW v \in Users, CreateApplication(v) \/ RemoveApplication(v) PROVE NamespaceOwned'
  <2>1. CASE CreateApplication(v)
    BY <2>1 DEF CreateApplication, NamespaceOwned, TypeOK, ClusterOK
  <2>2. CASE RemoveApplication(v)
    BY <2>2 DEF RemoveApplication, NamespaceOwned, TypeOK, ClusterOK
  <2>3. QED
    BY <1>5, <2>1, <2>2
<1>6. ASSUME NEW v \in Users, SyncApplication(v) \/ PruneApplication(v) \/ RemoveNamespace(v)
                                \/ RemoveVolume(v) \/ LosePods(v)
      PROVE  NamespaceOwned'
  BY <1>6 DEF SyncApplication, PruneApplication, RemoveNamespace, RemoveVolume, LosePods,
              NamespaceOwned
<1>7. ASSUME Cleanup \/ Crash \/ UNCHANGED vars PROVE UNCHANGED cluster
  BY <1>7 DEF Cleanup, ListArchived, DeleteExpired, Crash, vars
<1>8. CASE Scrape
  BY <1>8 DEF Scrape, NamespaceOwned
<1>9. QED
  BY <1>1, <1>2, <1>3, <1>4, <1>5, <1>6, <1>7, <1>8 DEF Next, ClusterStep

-----------------------------------------------------------------------------
(* What a handler knows stays true                                         *)

\* While a handler waits, whoever else steps leaves what it knows true.
LEMMA KnowsUndisturbed ==
  ASSUME LifecycleAssumption, LifecycleInv, Next, NEW q \in Requests,
         op[q].step # "idle", op'[q] = op[q], ~Handler(q)
  PROVE  Knows(op[q])'
<1> DEFINE o == op[q]
           u == o.user
           t == o.target
<1>1. o \in Ops /\ HandlerOK(o) /\ TypeOK /\ RegistrationSerialised /\ LedgerInv /\ Knows(o)
  BY AtStep DEF LifecycleInv, TypeOK
<1>2. ASSUME NEW r \in Requests, Handler(r)
      PROVE  op[r].user # u /\ (op[r].kind = "env" \/ o.kind = "env")
  <2>1. op[r].step # "idle"
    BY <1>1, <1>2, HandlerKeepsOrSettles
  <2>2. QED
    BY <1>1, <1>2, <2>1, Excluded
<1>3. u \in Users => registration'[u] = registration[u]
  BY <1>1, <1>2, RegistrationChanges DEF Handler, RegisterStep, DeleteStep
<1>4. ASSUME NEW r \in Requests,
             \/ Admit(r) \/ CommitRemoval(r) \/ FinishDelete(r) \/ Anonymise(r)
             \/ Recover(r) \/ CommitRegistration(r)
      PROVE  Handler(r) /\ op[r].kind # "env"
  <2>1. op[r].step \in {"admit", "publish", "unregister", "finish", "anonymise", "probe"}
    BY <1>4 DEF Admit, CommitRegistration, CommitRemoval, FinishDelete, Anonymise, Recover
  <2>2. op[r].kind # "env"
    BY <1>1, <2>1, AtStep DEF TypeOK
  <2>3. QED
    BY <1>4, <2>2 DEF Handler, RegisterStep, DeleteStep, ReleaseStep
<1>5. o.kind # "env" => UNCHANGED reservations
  BY <1>2, <1>4, LedgerChanges
<1>6. o.kind # "env" => \A v \in Users : registration'[v] = registration[v]
  BY <1>1, <1>2, <1>4, RegistrationChanges
<1>7. u \in Users /\ argo[u] = None /\ registration[u] = NoReg => argo'[u] = None
  BY <1>1, ApplicationChanges DEF Registered
<1>8. FileKnown(o)'
  BY <1>1, <1>3 DEF Knows, FileKnown, HandlerOK
<1>9. AppKnown(o)'
  <2>1. o.step \in Publishing \cup {"metrics", "admit"} =>
          o.kind = "register" /\ u \in Users /\ o.reg = registration[u]
    BY <1>1 DEF HandlerOK, StepOf, Publishing, Knows, FileKnown
  <2>2. QED
    BY <1>1, <1>7, <2>1 DEF Knows, AppKnown
<1>10. RowHeld(o)'
  <2>1. o.step \in Publishing => o.kind = "register"
    BY <1>1 DEF HandlerOK, StepOf, Publishing
  <2>2. QED
    BY <1>1, <1>5, <2>1 DEF Knows, RowHeld, Reserved
<1>11. Unregistered(o)'
  BY <1>1, <1>3 DEF Knows, Unregistered, Registered, HandlerOK, StepOf
<1>12. ProbesHold(o)'
  <2>1. SUFFICES ASSUME o.kind = "release" PROVE ProbesHold(o)'
    BY DEF ProbesHold
  <2>2. t \in Users /\ UNCHANGED reservations /\ registration'[t] = registration[t]
    BY <1>1, <1>5, <1>6, <2>1 DEF HandlerOK
  <2>3. o.clear /\ "registration" \notin o.todo => ~Registered(t)'
    BY <1>1, <2>1, <2>2 DEF Knows, ProbesHold, Registered
  <2>4. o.clear /\ "application" \notin o.todo => Registered(t)' \/ argo'[t] = None
    BY <1>1, <2>1, <2>2, ApplicationChanges DEF Knows, ProbesHold, Registered
  <2>5. ASSUME NEW r \in Reserved(t)', r.stamp = o.digest PROVE plan'[t] = o.digest
    <3>1. r \in Reserved(t)
      BY <2>2 DEF Reserved
    <3>2. plan[t] = o.digest
      BY <1>1, <2>1, <2>5, <3>1 DEF Knows, ProbesHold
    <3>3. CASE plan'[t] # plan[t]
      <4>1. PICK s \in Reserved(t) : plan'[t] = s.stamp
        BY <1>1, <2>2, <3>3, PlanChanges
      <4>2. s = r
        BY <1>1, <3>1, <4>1 DEF LedgerInv, OneRowPerLogin, Reserved
      <4>3. QED
        BY <2>5, <4>1, <4>2
    <3>4. QED
      BY <3>2, <3>3
  <2>6. QED
    BY <2>3, <2>4, <2>5 DEF ProbesHold
<1>13. QED
  BY <1>8, <1>9, <1>10, <1>11, <1>12 DEF Knows

\* A handler that has settled knows nothing.
LEMMA KnowsIdle ==
  ASSUME NEW q \in Requests, op'[q] = Idle PROVE Knows(op[q])'
BY DEF Knows, FileKnown, AppKnown, RowHeld, Unregistered, ProbesHold, Idle, Publishing

LEMMA EndIdles ==
  ASSUME TypeOK, NEW q \in Requests, End(q) PROVE op'[q] = Idle
BY DEF TypeOK, ProcessOK, End

LEMMA GoFields ==
  ASSUME TypeOK, NEW q \in Requests, NEW step, Go(q, step)
  PROVE  /\ op'[q].step = step /\ op'[q].kind = op[q].kind /\ op'[q].user = op[q].user
         /\ op'[q].app = op[q].app /\ op'[q].reg = op[q].reg /\ op'[q].host = op[q].host
<1>1. op[q] \in Ops
  BY AtStep DEF TypeOK
<1>2. op'[q] = [op[q] EXCEPT !.step = step]
  BY DEF TypeOK, ProcessOK, Go
<1>3. QED
  BY <1>1, <1>2 DEF Ops

\* A failed or finished step before erasure.
LEMMA KnowsAbort ==
  ASSUME TypeOK, NEW q \in Requests, Abort(q), op[q].step # "idle"
  PROVE  Knows(op[q])'
<1>1. CASE op[q].kind = "account" /\ Go(q, "anonymise")
  <2>1. op'[q].kind = "account" /\ op'[q].step = "anonymise"
    BY <1>1, GoFields
  <2>2. QED
    BY <2>1 DEF Knows, FileKnown, AppKnown, RowHeld, Unregistered, ProbesHold, Publishing
<1>2. QED
  BY <1>1, EndIdles, KnowsIdle DEF Abort

\* Between the check and publication a handler only adds to its locals.
LEMMA KnowsCarried ==
  ASSUME LifecycleInv, NEW q \in Requests, op[q].step \in Publishing, op[q].kind = "register",
         op'[q].kind = op[q].kind, op'[q].user = op[q].user, op'[q].app = op[q].app,
         op'[q].reg = op[q].reg, op'[q].step \in Publishing,
         UNCHANGED <<registration, reservations, argo>>
  PROVE  Knows(op[q])'
<1>1. Knows(op[q])
  BY DEF LifecycleInv
<1>2. op[q].step # "registration"
  BY DEF Publishing
<1>3. FileKnown(op[q])' /\ RowHeld(op[q])'
  BY <1>1, <1>2 DEF Knows, FileKnown, RowHeld, Reserved
<1>4. AppKnown(op[q])'
  BY <1>1 DEF Knows, AppKnown, Publishing
<1>5. Unregistered(op[q])' /\ ProbesHold(op[q])'
  BY DEF Unregistered, ProbesHold, Publishing
<1>6. QED
  BY <1>3, <1>4, <1>5 DEF Knows

\* getCurrentDeployment and the admission it leads to.
LEMMA KnowsChecked ==
  ASSUME LifecycleAssumption, LifecycleInv, NEW q \in Requests,
         ReadRegistration(q) \/ ReadApplication(q) \/ ReadMetrics(q) \/ Admit(q) \/ Decline(q)
  PROVE  Knows(op[q])'
<1> DEFINE o == op[q]
           u == o.user
<1>1. o \in Ops /\ TypeOK /\ Knows(o)
  BY AtStep DEF LifecycleInv, TypeOK
<1>2. /\ o.kind \in {"register", "env"} /\ u \in Users /\ o.app \in Apps
      /\ o.step \in {"metrics", "admit"} => o.kind = "register"
  BY <1>1, AtStep DEF TypeOK, ReadRegistration, ReadApplication, ReadMetrics, Admit, Decline
<1>3. o.app # NoReg.app
  BY <1>2 DEF LifecycleAssumption, NoReg
<1>4. CASE ReadRegistration(q)
  <2>1. op'[q] = [o EXCEPT !.step = "application", !.reg = registration[u]]
    BY <1>1, <1>4 DEF ReadRegistration, TypeOK, ProcessOK
  <2>2. /\ op'[q].step = "application" /\ op'[q].reg = registration[u]
        /\ op'[q].user = u /\ op'[q].kind = o.kind
    BY <1>1, <2>1 DEF Ops
  <2>3. UNCHANGED registration
    BY <1>4 DEF ReadRegistration, git
  <2>4. QED
    BY <1>2, <2>2, <2>3 DEF Knows, FileKnown, AppKnown, RowHeld, Unregistered, ProbesHold, Publishing
<1>5. CASE ReadApplication(q)
  <2>1. UNCHANGED <<registration, argo>> /\ o.reg = registration[u]
    BY <1>1, <1>2, <1>5 DEF ReadApplication, git, cluster, Knows, FileKnown
  <2>2. CASE Fresh(o) /\ Go(q, "metrics")
    <3>1. /\ op'[q].step = "metrics" /\ op'[q].reg = o.reg
          /\ op'[q].user = u /\ op'[q].kind = o.kind
      BY <1>1, <2>2, GoFields
    <3>2. QED
      BY <1>2, <2>1, <2>2, <3>1
         DEF Fresh, Knows, FileKnown, AppKnown, RowHeld, Unregistered, ProbesHold, Publishing
  <2>3. ASSUME NEW st \in {"claim", "write"}, Current(o), Go(q, st) PROVE Knows(op[q])'
    <3>1. /\ op'[q].step = st /\ op'[q].reg = o.reg /\ op'[q].app = o.app
          /\ op'[q].user = u /\ op'[q].kind = o.kind
      BY <1>1, <2>3, GoFields
    <3>2. QED
      BY <1>2, <1>3, <2>1, <2>3, <3>1
         DEF Current, Knows, FileKnown, AppKnown, RowHeld, Unregistered, ProbesHold, Publishing
  <2>4. CASE End(q)
    BY <1>1, <2>4, EndIdles, KnowsIdle
  <2>5. QED
    BY <1>5, <2>2, <2>3, <2>4 DEF ReadApplication
<1>6. CASE ReadMetrics(q)
  <2>1. op'[q] = [o EXCEPT !.step = "admit", !.seen = scraped]
    BY <1>1, <1>6 DEF ReadMetrics, TypeOK, ProcessOK
  <2>2. /\ op'[q].step = "admit" /\ op'[q].reg = o.reg
        /\ op'[q].user = u /\ op'[q].kind = o.kind
    BY <1>1, <2>1 DEF Ops
  <2>3. UNCHANGED <<registration, argo>> /\ o.step = "metrics"
    BY <1>6 DEF ReadMetrics, git, cluster
  <2>4. QED
    BY <1>1, <1>2, <2>2, <2>3
       DEF Knows, FileKnown, AppKnown, RowHeld, Unregistered, ProbesHold, Publishing
<1>7. CASE Admit(q)
  <2>1. Go(q, "claim") /\ UNCHANGED <<registration, argo>> /\ o.step = "admit"
    BY <1>7 DEF Admit, git, cluster
  <2>2. /\ op'[q].step = "claim" /\ op'[q].reg = o.reg /\ op'[q].app = o.app
        /\ op'[q].user = u /\ op'[q].kind = o.kind
    BY <1>1, <2>1, GoFields
  <2>3. Reserved(u)' # {}
    <3>1. reservations' = RowsAfter(u, o.seen) /\ u \notin o.seen
      BY <1>7 DEF Admit
    <3>2. CASE Reserved(u) = {}
      <4>1. [user |-> u, stamp |-> clock + 1, anon |-> FALSE] \in reservations'
        BY <3>1, <3>2 DEF RowsAfter
      <4>2. QED
        BY <2>2, <4>1 DEF Reserved
    <3>3. CASE Reserved(u) # {}
      <4>1. PICK r \in reservations : r.user = u /\ ~r.anon
        BY <3>3 DEF Reserved
      <4>2. r \in reservations'
        BY <3>1, <4>1 DEF RowsAfter, Observed
      <4>3. QED
        BY <2>2, <4>1, <4>2 DEF Reserved
    <3>4. QED
      BY <3>2, <3>3
  <2>4. QED
    BY <1>1, <1>2, <2>1, <2>2, <2>3
       DEF Knows, FileKnown, AppKnown, RowHeld, Unregistered, ProbesHold, Publishing
<1>8. CASE Decline(q)
  BY <1>1, <1>8, EndIdles, KnowsIdle DEF Decline
<1>9. QED
  BY <1>4, <1>5, <1>6, <1>7, <1>8

\* registerForUser from the host to the registration file.
LEMMA KnowsPublishing ==
  ASSUME LifecycleAssumption, LifecycleInv, NEW q \in Requests,
         \/ ClaimHost(q) \/ ReadStorage(q) \/ CommitSource(q) \/ EnsureRepo(q)
         \/ CommitManifests(q) \/ CommitRegistration(q)
  PROVE  Knows(op[q])'
<1> DEFINE o == op[q]
<1>1. o \in Ops /\ TypeOK
  BY AtStep DEF LifecycleInv, TypeOK
<1>2. o.kind = "register" /\ o.step \in Publishing
  BY <1>1, AtStep DEF TypeOK, Publishing, ClaimHost, ReadStorage, CommitSource, EnsureRepo,
                      CommitManifests, CommitRegistration
<1>3. ASSUME NEW st \in Publishing, Answered(q, st), UNCHANGED <<registration, reservations, argo>>
      PROVE  Knows(op[q])'
  <2>1. CASE Go(q, st)
    BY <1>1, <1>2, <1>3, <2>1, GoFields, KnowsCarried
  <2>2. CASE Abort(q)
    BY <1>1, <1>2, <2>2, KnowsAbort DEF Publishing
  <2>3. QED
    BY <1>3, <2>1, <2>2 DEF Answered
<1>4. ASSUME NEW h, op' = [op EXCEPT ![q] = [@ EXCEPT !.step = "storage", !.host = h]],
             UNCHANGED <<registration, reservations, argo>>
      PROVE  Knows(op[q])'
  <2>1. op'[q] = [o EXCEPT !.step = "storage", !.host = h]
    BY <1>1, <1>4 DEF TypeOK, ProcessOK
  <2>2. /\ op'[q].step = "storage" /\ op'[q].reg = o.reg /\ op'[q].app = o.app
        /\ op'[q].user = o.user /\ op'[q].kind = o.kind
    BY <1>1, <2>1 DEF Ops
  <2>3. QED
    BY <1>2, <1>4, <2>2, KnowsCarried DEF Publishing
<1>5. CASE ClaimHost(q)
  <2>1. UNCHANGED <<registration, reservations, argo>>
    BY <1>5 DEF ClaimHost, git, cluster
  <2>2. CASE End(q)
    BY <1>1, <2>2, EndIdles, KnowsIdle
  <2>3. CASE ~End(q)
    <3>1. PICK h : op' = [op EXCEPT ![q] = [@ EXCEPT !.step = "storage", !.host = h]]
      BY <1>5, <2>3 DEF ClaimHost
    <3>2. QED
      BY <1>4, <2>1, <3>1
  <2>4. QED
    BY <2>2, <2>3
<1>6. CASE ReadStorage(q)
  <2>1. PICK p : op' = [op EXCEPT ![q] = [@ EXCEPT !.step = "source", !.profile = p]]
    BY <1>6 DEF ReadStorage
  <2>2. op'[q] = [o EXCEPT !.step = "source", !.profile = p]
    BY <1>1, <2>1 DEF TypeOK, ProcessOK
  <2>3. /\ op'[q].step = "source" /\ op'[q].reg = o.reg /\ op'[q].app = o.app
        /\ op'[q].user = o.user /\ op'[q].kind = o.kind
    BY <1>1, <2>2 DEF Ops
  <2>4. UNCHANGED <<registration, reservations, argo>>
    BY <1>6 DEF ReadStorage, db, git, cluster
  <2>5. QED
    BY <1>2, <2>3, <2>4, KnowsCarried DEF Publishing
<1>7. CASE CommitSource(q) \/ EnsureRepo(q) \/ CommitManifests(q)
  <2>1. UNCHANGED <<registration, reservations, argo>>
    BY <1>7 DEF CommitSource, EnsureRepo, CommitManifests, db, cluster
  <2>2. PICK st \in Publishing : Answered(q, st)
    BY <1>7 DEF CommitSource, EnsureRepo, CommitManifests, Publishing
  <2>3. QED
    BY <1>3, <2>1, <2>2
<1>8. CASE CommitRegistration(q)
  BY <1>1, <1>8, EndIdles, KnowsIdle DEF CommitRegistration
<1>9. QED
  BY <1>5, <1>6, <1>7, <1>8

\* deleteDeployment and the erasure after it.
LEMMA KnowsRemoval ==
  ASSUME LifecycleAssumption, LifecycleInv, NEW q \in Requests, DeleteStep(q)
  PROVE  Knows(op[q])'
<1> DEFINE o == op[q]
<1>1. o \in Ops /\ TypeOK /\ Knows(o)
  BY AtStep DEF LifecycleInv, TypeOK
<1>2. o.kind \in {"delete", "account"} /\ o.user \in Users /\ o.step # "idle"
  BY <1>1, AtStep DEF TypeOK, DeleteStep, CommitRemoval, ArchiveRepo, FinishDelete, Anonymise
<1>3. ASSUME NEW st \in {"archive", "finish", "anonymise"}, Go(q, st),
             st # "anonymise" => ~Registered(o.user)'
      PROVE  Knows(op[q])'
  <2>1. op'[q].step = st /\ op'[q].kind = o.kind /\ op'[q].user = o.user
    BY <1>1, <1>3, GoFields
  <2>2. QED
    BY <1>2, <1>3, <2>1
       DEF Knows, FileKnown, AppKnown, RowHeld, Unregistered, ProbesHold, Publishing, Registered
<1>4. CASE CommitRemoval(q)
  <2>1. CASE Go(q, "archive")
    <3>1. op'[q].user = o.user
      BY <1>1, <2>1, GoFields
    <3>2. ~Registered(o.user)'
      BY <1>1, <1>2, <1>4, <3>1 DEF CommitRemoval, Registered, TypeOK, GitOK
    <3>3. QED
      BY <1>3, <2>1, <3>2
  <2>2. QED
    BY <1>1, <1>2, <1>4, <2>1, KnowsAbort DEF CommitRemoval, Answered
<1>5. CASE ArchiveRepo(q)
  <2>1. Go(q, "finish") /\ UNCHANGED registration /\ ~Registered(o.user)
    BY <1>1, <1>5 DEF ArchiveRepo, Knows, Unregistered
  <2>2. op'[q].user = o.user
    BY <1>1, <2>1, GoFields
  <2>3. QED
    BY <1>3, <2>1, <2>2 DEF Registered
<1>6. CASE FinishDelete(q)
  BY <1>1, <1>3, <1>6, EndIdles, KnowsIdle DEF FinishDelete
<1>7. CASE Anonymise(q)
  BY <1>1, <1>7, EndIdles, KnowsIdle DEF Anonymise
<1>8. QED
  BY <1>4, <1>5, <1>6, <1>7 DEF DeleteStep

\* A probe answers for the state it is made in.
LEMMA KnowsRelease ==
  ASSUME LifecycleAssumption, LifecycleInv, NEW q \in Requests, ReleaseStep(q)
  PROVE  Knows(op[q])'
<1> DEFINE o == op[q]
           t == o.target
<1>1. o \in Ops /\ TypeOK /\ Knows(o)
  BY AtStep DEF LifecycleInv, TypeOK
<1>2. ASSUME NEW probe \in Probes, Probe(q, probe) PROVE Knows(op[q])'
  <2>1. op'[q] = Probed(o, probe) /\ UNCHANGED <<registration, argo, reservations, plan>>
    BY <1>1, <1>2 DEF Probe, TypeOK, ProcessOK, git, cluster, db
  <2>2. /\ op'[q].todo = o.todo \ {probe} /\ op'[q].clear = (o.clear /\ Clear(t, probe))
        /\ op'[q].kind = o.kind /\ op'[q].step = o.step /\ op'[q].target = t
        /\ op'[q].digest = o.digest
    BY <1>1, <2>1 DEF Probed, Ops
  <2>3. o.kind = "release" /\ o.step = "probe"
    BY <1>1, <1>2, AtStep DEF TypeOK, Probe
  <2>4. FileKnown(op[q])' /\ AppKnown(op[q])' /\ RowHeld(op[q])' /\ Unregistered(op[q])'
    BY <2>2, <2>3 DEF FileKnown, AppKnown, RowHeld, Unregistered, Publishing
  <2>5. op'[q].clear => o.clear /\ Clear(t, probe)
    BY <2>2
  <2>6. op'[q].clear /\ "registration" \notin op'[q].todo => ~Registered(t)'
    BY <1>1, <2>1, <2>2, <2>3, <2>5 DEF Knows, ProbesHold, Registered, Clear
  <2>7. op'[q].clear /\ "application" \notin op'[q].todo => Registered(t)' \/ argo'[t] = None
    BY <1>1, <2>1, <2>2, <2>3, <2>5 DEF Knows, ProbesHold, Registered, Clear
  <2>8. \A r \in Reserved(t)' : r.stamp = o.digest => plan'[t] = o.digest
    BY <1>1, <2>1, <2>2, <2>3 DEF Knows, ProbesHold, Reserved
  <2>9. ProbesHold(op[q])'
    BY <2>2, <2>6, <2>7, <2>8 DEF ProbesHold, Registered, Reserved
  <2>10. QED
    BY <2>4, <2>9 DEF Knows
<1>3. CASE Recover(q)
  BY <1>1, <1>3, EndIdles, KnowsIdle DEF Recover
<1>4. QED
  BY <1>2, <1>3 DEF ReleaseStep

LEMMA KnowsEnv ==
  ASSUME LifecycleAssumption, LifecycleInv, NEW q \in Requests, EnvStep(q)
  PROVE  Knows(op[q])'
<1> DEFINE o == op[q]
<1>1. o \in Ops /\ TypeOK /\ Knows(o)
  BY AtStep DEF LifecycleInv, TypeOK
<1>2. CASE WriteEnv(q) /\ Go(q, "restart")
  <2>1. /\ op'[q].step = "restart" /\ op'[q].kind = o.kind /\ op'[q].user = o.user
        /\ op'[q].app = o.app /\ op'[q].reg = o.reg
    BY <1>1, <1>2, GoFields
  <2>2. UNCHANGED registration /\ o.step = "write" /\ o.kind = "env"
    BY <1>1, <1>2, AtStep DEF WriteEnv, TypeOK, git
  <2>3. QED
    BY <1>1, <2>1, <2>2
       DEF Knows, FileKnown, AppKnown, RowHeld, Unregistered, ProbesHold, Publishing
<1>3. CASE WriteEnv(q) /\ Abort(q)
  BY <1>1, <1>3, KnowsAbort DEF WriteEnv
<1>4. CASE TriggerRestart(q)
  BY <1>1, <1>4, EndIdles, KnowsIdle DEF TriggerRestart
<1>5. QED
  BY <1>2, <1>3, <1>4 DEF EnvStep, WriteEnv, Answered

LEMMA KnowsFail ==
  ASSUME LifecycleAssumption, LifecycleInv, NEW q \in Requests, Fail(q)
  PROVE  Knows(op[q])'
<1>1. TypeOK /\ Knows(op[q]) /\ op[q].step # "idle" /\ UNCHANGED registration
  BY DEF LifecycleInv, Fail, git
<1>2. CASE op[q].step = "archive" /\ Go(q, "finish")
  <2>1. /\ op'[q].step = "finish" /\ op'[q].kind = op[q].kind /\ op'[q].user = op[q].user
    BY <1>1, <1>2, GoFields
  <2>2. op[q].kind \in {"delete", "account"}
    BY <1>1, <1>2, AtStep DEF TypeOK
  <2>3. QED
    BY <1>1, <1>2, <2>1, <2>2
       DEF Knows, FileKnown, AppKnown, RowHeld, Unregistered, ProbesHold, Publishing, Registered
<1>3. CASE Abort(q)
  BY <1>1, <1>3, KnowsAbort
<1>4. QED
  BY <1>2, <1>3 DEF Fail, AfterFailure

\* A handler starts knowing nothing but the digest it was given.
LEMMA KnowsBegins ==
  ASSUME LifecycleAssumption, LifecycleInv, NEW q \in Requests, NEW u \in Users, Begins(q, u)
  PROVE  Knows(op[q])'
<1> USE DEF Knows, FileKnown, AppKnown, RowHeld, Unregistered, ProbesHold, Publishing
<1>1. op \in [Requests -> Ops]
  BY DEF LifecycleInv, TypeOK, ProcessOK
<1>2. CASE BeginRegister(q, u)
  <2>1. PICK a, s, d :
          op'[q] = [Idle EXCEPT !.kind = "register", !.user = u, !.step = "registration",
                                !.app = a, !.slug = s, !.detected = d]
    BY <1>1, <1>2 DEF BeginRegister, Begin
  <2>2. op'[q].kind = "register" /\ op'[q].step = "registration"
    BY <2>1 DEF Idle
  <2>3. QED
    BY <2>2
<1>3. CASE BeginDelete(q, u) \/ BeginDeleteAccount(q, u)
  <2>1. PICK kind \in {"delete", "account"}, step \in {"unregister", "anonymise"} :
          op'[q] = [Idle EXCEPT !.kind = kind, !.user = u, !.step = step]
    BY <1>1, <1>3 DEF BeginDelete, BeginDeleteAccount, Begin
  <2>2. op'[q].kind = kind /\ op'[q].step = step
    BY <2>1 DEF Idle
  <2>3. QED
    BY <2>2
<1>4. CASE BeginRelease(q, u)
  <2>1. op'[q] = [Idle EXCEPT !.kind = "release", !.user = Admin, !.step = "probe",
                              !.target = u, !.digest = plan[u], !.todo = Probes]
    BY <1>1, <1>4 DEF BeginRelease, Begin
  <2>2. /\ op'[q].kind = "release" /\ op'[q].step = "probe" /\ op'[q].target = u
        /\ op'[q].digest = plan[u] /\ op'[q].todo = Probes
    BY <2>1 DEF Idle
  <2>3. UNCHANGED plan
    BY <1>4 DEF BeginRelease
  <2>4. QED
    BY <2>2, <2>3 DEF Probes
<1>5. CASE BeginEnv(q, u)
  <2>1. PICK a : op'[q] = [Idle EXCEPT !.kind = "env", !.user = u, !.step = "registration",
                                       !.app = a]
    BY <1>1, <1>5 DEF BeginEnv, Begin
  <2>2. op'[q].kind = "env" /\ op'[q].step = "registration"
    BY <2>1 DEF Idle
  <2>3. QED
    BY <2>2
<1>6. QED
  BY <1>2, <1>3, <1>4, <1>5 DEF Begins

LEMMA KnowsStep ==
  ASSUME LifecycleAssumption, LifecycleInv, Next, NEW q \in Requests
  PROVE  Knows(op[q])'
<1>1. TypeOK
  BY DEF LifecycleInv
<1>2. CASE Handler(q)
  BY <1>2, KnowsFail, KnowsChecked, KnowsPublishing, KnowsRemoval, KnowsEnv, KnowsRelease
     DEF Handler, RegisterStep
<1>3. CASE \E u \in Users : Begins(q, u)
  BY <1>3, KnowsBegins
<1>4. CASE op'[q] = Idle
  BY <1>4, KnowsIdle
<1>5. CASE op'[q] = op[q] /\ ~Handler(q)
  <2>1. CASE op[q].step = "idle"
    <3>1. op[q].kind = "none"
      BY <1>1, <2>1, AtStep DEF TypeOK, HandlerOK, StepOf
    <3>2. QED
      BY <1>5, <2>1, <3>1 DEF Knows, FileKnown, AppKnown, RowHeld, Unregistered, ProbesHold, Publishing
  <2>2. CASE op[q].step # "idle"
    BY <1>5, <2>2, KnowsUndisturbed
  <2>3. QED
    BY <2>1, <2>2
<1>6. QED
  BY <1>1, <1>2, <1>3, <1>4, <1>5, HandlerChanges

-----------------------------------------------------------------------------
(* The ledger against what git deploys                                     *)

\* Every ledger step at its point in the handler, with what the handler knows.
LEMMA AtLedgerStep ==
  ASSUME LifecycleAssumption, LifecycleInv, NEW q \in Requests,
         \/ Admit(q) \/ CommitRemoval(q) \/ FinishDelete(q) \/ Anonymise(q) \/ Recover(q)
         \/ CommitRegistration(q)
  PROVE  /\ op[q] \in Ops
         /\ Recover(q) \/ op[q].user \in Users
         /\ Admit(q) => ~Registered(op[q].user) /\ argo[op[q].user] = None
         /\ FinishDelete(q) => ~Registered(op[q].user)
         /\ Recover(q) /\ op[q].clear =>
              ~Registered(op[q].target) /\ argo[op[q].target] = None
         /\ CommitRegistration(q) /\ ~Registered(op[q].user) =>
              Reserved(op[q].user) # {} /\ argo[op[q].user] = None
<1> DEFINE o == op[q]
<1>1. o \in Ops /\ Knows(o) /\ ProcessOK
  BY AtStep DEF LifecycleInv, TypeOK
<1>2. Recover(q) \/ o.user \in Users
  BY <1>1, AtStep DEF Admit, CommitRemoval, FinishDelete, Anonymise, CommitRegistration
<1>3. Admit(q) => ~Registered(o.user) /\ argo[o.user] = None
  <2>1. Admit(q) => o.step = "admit" /\ o.kind = "register"
    BY <1>1, AtStep DEF Admit
  <2>2. QED
    BY <1>1, <2>1 DEF Knows, AppKnown, FileKnown, Registered
<1>4. FinishDelete(q) => ~Registered(o.user)
  BY <1>1 DEF FinishDelete, Knows, Unregistered
<1>5. Recover(q) /\ o.clear => ~Registered(o.target) /\ argo[o.target] = None
  <2>1. Recover(q) => o.step = "probe" /\ o.kind = "release" /\ o.todo = {}
    BY <1>1, AtStep DEF Recover
  <2>2. QED
    BY <1>1, <2>1 DEF Knows, ProbesHold
<1>6. ASSUME CommitRegistration(q), ~Registered(o.user)
      PROVE  Reserved(o.user) # {} /\ argo[o.user] = None
  <2>1. o.step = "publish" /\ o.kind = "register" /\ o.app \in Apps
    BY <1>1, <1>6, AtStep DEF CommitRegistration
  <2>2. o.reg = NoReg
    BY <1>1, <1>6, <2>1 DEF Knows, FileKnown, Registered
  <2>3. o.reg.app # o.app
    BY <2>1, <2>2 DEF NoReg, LifecycleAssumption
  <2>4. QED
    BY <1>1, <2>1, <2>2, <2>3 DEF Knows, RowHeld, AppKnown, Publishing
<1>7. QED
  BY <1>1, <1>2, <1>3, <1>4, <1>5, <1>6

LEMMA WeighedOnceStep ==
  ASSUME LifecycleAssumption, LifecycleInv, Next PROVE WeighedOnce'
<1> SUFFICES ASSUME NEW u \in counted', NEW r \in reservations', r.user = u, ~r.anon
             PROVE  FALSE
  BY DEF WeighedOnce, Reserved
<1>1. WeighedOnce /\ TypeOK /\ reservations \subseteq Rows
  BY DEF LifecycleInv, TypeOK, StoreOK
<1>2. CASE u \in counted /\ r \in reservations
  BY <1>1, <1>2 DEF WeighedOnce, Reserved
<1>3. ASSUME NEW q \in Requests, Admit(q) PROVE FALSE
  <2> DEFINE v == op[q].user
             seen == op[q].seen
  <2>1. /\ counted' = (counted \cup {w \in Users : w \in seen /\ Reserved(w) # {}}) \ {v}
        /\ reservations' = RowsAfter(v, seen)
    BY <1>3 DEF Admit
  <2>2. r \in reservations /\ ~Observed(r, seen)
    BY <2>1 DEF RowsAfter
  <2>3. QED
    BY <1>2, <2>1, <2>2 DEF Observed
<1>4. ASSUME NEW q \in Requests, Anonymise(q) PROVE FALSE
  <2>1. reservations' = RowsRenamed(op[q].user) /\ counted' = counted
    BY <1>4 DEF Anonymise, history
  <2>2. ASSUME NEW s \in Reserved(op[q].user), r = [s EXCEPT !.anon = TRUE] PROVE FALSE
    BY <1>1, <2>2 DEF Reserved, Rows
  <2>3. QED
    BY <1>2, <2>1, <2>2 DEF RowsRenamed
<1>5. ASSUME NEW q \in Requests, CommitRemoval(q) \/ FinishDelete(q) \/ Recover(q) PROVE FALSE
  BY <1>2, <1>5 DEF CommitRemoval, FinishDelete, Recover, db, history
<1>6. QED
  BY <1>2, <1>3, <1>4, <1>5, LedgerChanges

LEMMA AccountedStep ==
  ASSUME LifecycleAssumption, LifecycleInv, Next PROVE Accounted'
<1> SUFFICES ASSUME NEW u \in Users, Registered(u)'
             PROVE  u \in counted' \/ \E r \in reservations' : r.user = u
  BY DEF Accounted
<1>1. TypeOK /\ Accounted /\ reservations \subseteq Rows
  BY DEF LifecycleInv, TypeOK, StoreOK
<1>2. CASE ~Registered(u)
  <2>1. PICK q \in Requests : op[q].user = u /\ (CommitRegistration(q) \/ CommitRemoval(q))
    BY <1>1, <1>2, RegistrationChanges DEF Registered
  <2>2. CommitRegistration(q)
    BY <1>1, <2>1 DEF CommitRemoval, Registered, TypeOK, GitOK
  <2>3. Reserved(u) # {} /\ UNCHANGED reservations
    BY <1>2, <2>1, <2>2, AtLedgerStep DEF CommitRegistration, db
  <2>4. QED
    BY <2>3 DEF Reserved
<1>3. CASE Registered(u)
  <2>1. u \in counted \/ \E r \in reservations : r.user = u
    BY <1>1, <1>3 DEF Accounted
  <2>2. ASSUME NEW q \in Requests, Admit(q) PROVE u \in counted' \/ \E r \in reservations' : r.user = u
    <3> DEFINE v == op[q].user
               seen == op[q].seen
    <3>1. u # v
      BY <1>3, <2>2, AtLedgerStep
    <3>2. /\ counted' = (counted \cup {w \in Users : w \in seen /\ Reserved(w) # {}}) \ {v}
          /\ reservations' = RowsAfter(v, seen)
      BY <2>2 DEF Admit
    <3>3. ASSUME NEW r \in reservations, r.user = u, Observed(r, seen) PROVE u \in counted'
      BY <3>1, <3>2, <3>3 DEF Observed, Reserved
    <3>4. QED
      BY <2>1, <3>1, <3>2, <3>3 DEF RowsAfter
  <2>3. ASSUME NEW q \in Requests, CommitRemoval(q) \/ FinishDelete(q) \/ Recover(q)
        PROVE  u \in counted' \/ \E r \in reservations' : r.user = u
    <3>1. CASE CommitRemoval(q)
      <4>1. u # op[q].user
        BY <1>1, <3>1 DEF CommitRemoval, Registered, TypeOK, GitOK
      <4>2. QED
        BY <2>1, <3>1, <4>1 DEF CommitRemoval, db
    <3>2. CASE FinishDelete(q)
      <4>1. u # op[q].user
        BY <1>3, <3>2, AtLedgerStep
      <4>2. QED
        BY <2>1, <3>2, <4>1 DEF FinishDelete, Reserved, history
    <3>3. CASE Recover(q)
      <4>1. op[q].clear => u # op[q].target
        BY <1>3, <3>3, AtLedgerStep
      <4>2. QED
        BY <2>1, <3>3, <4>1 DEF Recover, Reserved, history
    <3>4. QED
      BY <2>3, <3>1, <3>2, <3>3
  <2>4. ASSUME NEW q \in Requests, Anonymise(q)
        PROVE  u \in counted' \/ \E r \in reservations' : r.user = u
    <3>1. reservations' = RowsRenamed(op[q].user) /\ counted' = counted
      BY <2>4 DEF Anonymise, history
    <3>2. ASSUME NEW s \in reservations, s.user = u PROVE \E r \in reservations' : r.user = u
      <4>1. [s EXCEPT !.anon = TRUE].user = u
        BY <1>1, <3>2 DEF Rows
      <4>2. s \in reservations' \/ [s EXCEPT !.anon = TRUE] \in reservations'
        BY <3>1 DEF RowsRenamed
      <4>3. QED
        BY <3>2, <4>1, <4>2
    <3>3. QED
      BY <2>1, <3>1, <3>2
  <2>5. CASE UNCHANGED <<reservations, counted, blind>>
    BY <2>1, <2>5
  <2>6. QED
    BY <2>2, <2>3, <2>4, <2>5, LedgerChanges
<1>4. QED
  BY <1>2, <1>3

LEMMA LifecycleInit ==
  ASSUME LifecycleAssumption, Init PROVE LifecycleInv
<1>1. TypeOK /\ LedgerInv
  BY TypeInit, LedgerInit
<1>2. RegistrationSerialised
  BY DEF Init, RegistrationSerialised, Mutex!LockInv, Mutex!Exclusive, Mutex!NoLeak, HeldKeys, Idle
<1>3. NamespaceOwned
  BY DEF Init, NamespaceOwned, LifecycleAssumption
<1>4. WeighedOnce
  BY DEF Init, WeighedOnce, Reserved
<1>5. Accounted
  BY DEF Init, Accounted, Registered
<1>6. ASSUME NEW q \in Requests PROVE Knows(op[q])
  <2>1. op[q] = Idle
    BY DEF Init
  <2>2. QED
    BY <2>1 DEF Idle, Knows, FileKnown, AppKnown, RowHeld, Unregistered, ProbesHold, Publishing
<1>7. QED
  BY <1>1, <1>2, <1>3, <1>4, <1>5, <1>6 DEF LifecycleInv

\* Every step of every actor keeps it; that keys exclude is the interceptor's theorem.
LEMMA LifecycleStep ==
  ASSUME LifecycleAssumption, LifecycleInv, [Next]_vars, RegistrationSerialised'
  PROVE  LifecycleInv'
<1>1. CASE Next
  <2>1. TypeOK' /\ LedgerInv' /\ NamespaceOwned'
    BY <1>1, TypeNext, LedgerStep, NamespaceStep DEF LifecycleInv
  <2>2. WeighedOnce' /\ Accounted'
    BY <1>1, WeighedOnceStep, AccountedStep
  <2>3. \A q \in Requests : Knows(op[q])'
    BY <1>1, KnowsStep
  <2>4. QED
    BY <2>1, <2>2, <2>3 DEF LifecycleInv
<1>2. CASE UNCHANGED vars
  <2>1. TypeOK' /\ LedgerInv' /\ NamespaceOwned'
    BY TypeNext, LedgerStep, NamespaceStep DEF LifecycleInv
  <2>2. UNCHANGED <<op, registration, argo, reservations, plan, counted>>
    BY <1>2 DEF vars, db, git, cluster, history
  <2>3. WeighedOnce' /\ Accounted'
    BY <2>2 DEF LifecycleInv, WeighedOnce, Accounted, Reserved, Registered
  <2>4. \A q \in Requests : Knows(op[q])'
    BY <2>2 DEF LifecycleInv, Knows, FileKnown, AppKnown, RowHeld, Unregistered, ProbesHold,
                Registered, Reserved
  <2>5. QED
    BY <2>1, <2>3, <2>4 DEF LifecycleInv
<1>3. QED
  BY <1>1, <1>2

\* What every handler read or probed is still true when it acts on it, whatever other
\* handlers, the admin, Argo CD and Prometheus did in between, and through crashes.
THEOREM KnowledgeHolds == Spec => []LifecycleInv
<1>1. Init => LifecycleInv
  BY LifecycleInit, LifecycleAssumption
<1>2. LifecycleInv /\ [Next]_vars /\ RegistrationSerialised' => LifecycleInv'
  BY LifecycleStep, LifecycleAssumption
<1>3. QED
  BY <1>1, <1>2, Serialised, PTL DEF Spec

\* The ledger covers what git deploys: no order of admissions, removals, erasures,
\* recoveries and failed calls leaves a registered app neither reserved nor seen.
THEOREM AppsAccounted == Spec => []Accounted
<1>1. LifecycleInv => Accounted
  BY DEF LifecycleInv
<1>2. QED
  BY <1>1, KnowledgeHolds, PTL

\* One app per account: a redeploy is of the registered app, and a first registration
\* comes when nothing of an earlier deployment is left to drain.
THEOREM OneAppHolds == Spec => OneApp
<1> DEFINE Step == \A u \in Users : Registered(u)' =>
       IF Registered(u) THEN registration'[u].app = registration[u].app
       ELSE argo[u] = None /\ u \notin namespaces
<1>1. LifecycleInv /\ [Next]_vars => [Step]_vars
  <2> SUFFICES ASSUME LifecycleInv, Next, NEW u \in Users, Registered(u)'
               PROVE  IF Registered(u) THEN registration'[u].app = registration[u].app
                      ELSE argo[u] = None /\ u \notin namespaces
    OBVIOUS
  <2>1. TypeOK /\ NamespaceOwned
    BY DEF LifecycleInv
  <2>2. CASE registration'[u] = registration[u]
    BY <2>2 DEF Registered
  <2>3. CASE registration'[u] # registration[u]
    <3>1. PICK q \in Requests : op[q].user = u /\ (CommitRegistration(q) \/ CommitRemoval(q))
      BY <2>1, <2>3, RegistrationChanges
    <3>2. CommitRegistration(q)
      BY <2>1, <3>1 DEF CommitRemoval, Registered, TypeOK, GitOK
    <3>3. CASE Registered(u)
      <4>1. /\ op[q].step = "publish" /\ op[q].kind = "register"
            /\ Knows(op[q])
        BY <2>1, <3>2, AtStep DEF CommitRegistration, LifecycleInv, TypeOK
      <4>2. op[q].reg = registration[u] /\ op[q].reg.app = op[q].app
        BY <3>1, <3>3, <4>1 DEF Knows, FileKnown, AppKnown, Publishing, Registered
      <4>3. registration'[u].app = op[q].app
        BY <2>1, <3>1, <3>2 DEF CommitRegistration, TypeOK, GitOK
      <4>4. QED
        BY <3>3, <4>2, <4>3
    <3>4. CASE ~Registered(u)
      <4>1. argo[u] = None
        BY <3>1, <3>2, <3>4, AtLedgerStep, LifecycleAssumption
      <4>2. QED
        BY <2>1, <3>4, <4>1 DEF NamespaceOwned
    <3>5. QED
      BY <3>3, <3>4
  <2>4. QED
    BY <2>2, <2>3
<1>2. QED
  BY <1>1, KnowledgeHolds, PTL DEF Spec, OneApp

\* Environment values go only to the app the account has registered at that moment,
\* although the file was read several calls before the Secret is written.
THEOREM EnvOnly == Spec => EnvOnlyForRegisteredApp
<1> DEFINE Step == \A u \in Users : secret'[u] # secret[u] /\ secret'[u] # None =>
                      registration[u].app = secret'[u]
<1>1. LifecycleInv /\ [Next]_vars => [Step]_vars
  <2> SUFFICES ASSUME LifecycleInv, Next, NEW u \in Users, secret'[u] # secret[u],
                      secret'[u] # None
               PROVE  registration[u].app = secret'[u]
    OBVIOUS
  <2>1. TypeOK
    BY DEF LifecycleInv
  <2>2. PICK q \in Requests : WriteEnv(q)
    BY <2>1, SecretChanges
  <2>3. op[q].user = u /\ secret'[u] = op[q].app
    BY <2>1, <2>2 DEF WriteEnv, TypeOK, ClusterOK
  <2>4. op[q].kind = "env" /\ op[q].step = "write" /\ Knows(op[q])
    BY <2>1, <2>2, AtStep DEF WriteEnv, LifecycleInv, TypeOK
  <2>5. QED
    BY <2>3, <2>4 DEF Knows, FileKnown, AppKnown
<1>2. QED
  BY <1>1, KnowledgeHolds, PTL DEF Spec, EnvOnlyForRegisteredApp

\* A recovery deletes a reservation only while its login has no registration, no
\* Application and no namespace, and only the row of the plan the admin last saw.
THEOREM RecoverySafe == Spec => RecoveryIsSafe
<1> DEFINE Ended == \E q \in Requests : op[q].kind = "release" /\ op'[q].kind # "release"
           Freed(r) == /\ \A probe \in Probes \ {"volumes"} : Clear(r.user, probe)
                       /\ plan[r.user] = r.stamp
           Step == \A r \in reservations \ reservations' : Ended => Freed(r)
<1>1. LifecycleInv /\ [Next]_vars => [Step]_vars
  <2> SUFFICES ASSUME LifecycleInv, Next, NEW r \in reservations \ reservations',
                      NEW p \in Requests, op[p].kind = "release", op'[p].kind # "release"
               PROVE  Freed(r)
    OBVIOUS
  <2>1. TypeOK /\ RegistrationSerialised /\ NamespaceOwned
    BY DEF LifecycleInv
  <2>2. PICK q \in Requests : \/ Admit(q) \/ CommitRemoval(q) \/ FinishDelete(q)
                              \/ Anonymise(q) \/ Recover(q)
    BY LedgerChanges
  <2>3. op[q].step # "idle" /\ op[q].kind # "env" /\ (op[q].kind = "release" => Recover(q))
    <3>1. op[q].step \in {"admit", "unregister", "finish", "anonymise", "probe"}
      BY <2>2 DEF Admit, CommitRemoval, FinishDelete, Anonymise, Recover
    <3>2. QED
      BY <2>1, <2>2, <3>1, AtStep DEF TypeOK, Admit, CommitRemoval, FinishDelete, Anonymise
  <2>4. op[p].step # "idle"
    BY <2>1, AtStep DEF TypeOK, HandlerOK, StepOf
  <2>5. p = q
    BY <2>1, <2>3, <2>4, Excluded
  <2>6. Recover(q) /\ r \in Reserved(op[q].target) /\ op[q].clear /\ r.stamp = op[q].digest
    BY <2>3, <2>5 DEF Recover
  <2>7. ~Registered(r.user) /\ argo[r.user] = None
    BY <2>6, AtLedgerStep, LifecycleAssumption DEF Reserved
  <2>8. r.user \notin namespaces
    BY <2>1, <2>7 DEF NamespaceOwned
  <2>9. plan[r.user] = r.stamp
    BY <2>5, <2>6 DEF LifecycleInv, Knows, ProbesHold, Reserved
  <2>10. QED
    BY <2>7, <2>8, <2>9 DEF Probes, Clear
<1>2. QED
  BY <1>1, KnowledgeHolds, PTL DEF Spec, RecoveryIsSafe

\* Only a removal archives a repository.
LEMMA Archived ==
  ASSUME TypeOK, Next, NEW u \in Users, deployRepo[u] = "active", deployRepo'[u] = "archived"
  PROVE  \E q \in Requests : ArchiveRepo(q) /\ op[q].user = u
<1>1. ASSUME UNCHANGED deployRepo PROVE FALSE
  BY <1>1
<1>2. ASSUME NEW v, NEW d, deployRepo' = [deployRepo EXCEPT ![v] = d], d # "archived"
      PROVE  FALSE
  BY <1>2 DEF TypeOK, GitOK
<1>3. ASSUME NEW q \in Requests, NEW v \in Users, Begins(q, v) PROVE FALSE
  BY <1>1, <1>3 DEF Begins, BeginRegister, BeginDelete, BeginDeleteAccount, BeginRelease, BeginEnv,
              git
<1>4. ASSUME NEW q \in Requests, Fail(q) \/ EnvStep(q) \/ ReleaseStep(q) PROVE FALSE
  BY <1>1, <1>4 DEF Fail, EnvStep, WriteEnv, TriggerRestart, ReleaseStep, Probe, Recover, git
<1>5. ASSUME NEW q \in Requests, RegisterStep(q) PROVE FALSE
  <2>1. CASE EnsureRepo(q)
    BY <1>2, <2>1 DEF EnsureRepo
  <2>2. CASE ~EnsureRepo(q)
    BY <1>1, <1>5, <2>2 DEF RegisterStep, ReadRegistration, ReadApplication, ReadMetrics, Admit, Decline,
       ClaimHost, ReadStorage, CommitSource, CommitManifests, CommitRegistration, git
  <2>3. QED
    BY <2>1, <2>2
<1>6. ASSUME NEW q \in Requests, DeleteStep(q) PROVE ArchiveRepo(q) /\ op[q].user = u
  <2>1. ArchiveRepo(q)
    BY <1>1, <1>6 DEF DeleteStep, CommitRemoval, FinishDelete, Anonymise, git
  <2>2. QED
    BY <2>1 DEF ArchiveRepo, TypeOK, GitOK
<1>7. ASSUME NEW v \in Users, \/ Inspect(v) \/ SignIn(v) \/ SetAllowed(v) \/ ClusterStep(v)
                             \/ LosePods(v)
      PROVE  FALSE
  BY <1>1, <1>7 DEF Inspect, SignIn, SetAllowed, ClusterStep, LosePods, CreateApplication,
     SyncApplication, PruneApplication, RemoveNamespace, RemoveApplication, RemoveVolume, External, git
<1>8. ASSUME Cleanup PROVE FALSE
  <2>1. ASSUME NEW v \in Users, DeleteExpired(v) PROVE FALSE
    BY <1>1, <1>2, <2>1 DEF DeleteExpired
  <2>2. QED
    BY <1>1, <1>8, <2>1 DEF Cleanup, ListArchived, git
<1>9. ASSUME Scrape \/ Crash PROVE FALSE
  BY <1>1, <1>9 DEF Scrape, Crash, External, git
<1>10. QED
  BY <1>3, <1>4, <1>5, <1>6, <1>7, <1>8, <1>9 DEF Next, Handler

\* What a removal does after its commit, archiving and freeing the reservation, never
\* reaches an app that is registered: the shared key outlasts both, whatever failed.
THEOREM RemovalSpares == Spec => RemovalTakesItsOwn
<1> DEFINE Spared(u) ==
             /\ deployRepo[u] = "active" => deployRepo'[u] # "archived"
             /\ (\E q \in Requests : op[q].step = "finish" /\ op'[q] # op[q]) =>
                  Reserved(u)' = Reserved(u)
           Step == \A u \in Users : Registered(u)' => Spared(u)
<1>1. LifecycleInv /\ [Next]_vars => [Step]_vars
  <2> SUFFICES ASSUME LifecycleInv, Next, NEW u \in Users, Registered(u)'
               PROVE  Spared(u)
    OBVIOUS
  <2>1. TypeOK /\ RegistrationSerialised /\ \A q \in Requests : Unregistered(op[q])
    BY DEF LifecycleInv, Knows
  <2>2. ASSUME deployRepo[u] = "active", deployRepo'[u] = "archived" PROVE FALSE
    <3>1. PICK q \in Requests : ArchiveRepo(q) /\ op[q].user = u
      BY <2>1, <2>2, Archived
    <3>2. ~Registered(u) /\ UNCHANGED registration
      BY <2>1, <3>1 DEF ArchiveRepo, Unregistered
    <3>3. QED
      BY <3>2 DEF Registered
  <2>3. ASSUME NEW p \in Requests, op[p].step = "finish", op'[p] # op[p], Reserved(u)' # Reserved(u)
        PROVE  FALSE
    <3>1. PICK q \in Requests : \/ Admit(q) \/ FinishDelete(q) \/ Anonymise(q) \/ Recover(q)
      <4>1. reservations' # reservations
        BY <2>3 DEF Reserved
      <4>2. PICK q \in Requests : \/ Admit(q) \/ CommitRemoval(q) \/ FinishDelete(q)
                                  \/ Anonymise(q) \/ Recover(q)
        BY <2>1, <4>1, LedgerChanges
      <4>3. ~CommitRemoval(q)
        BY <4>1 DEF CommitRemoval, db
      <4>4. QED
        BY <4>2, <4>3
    <3>2. op[q].step # "idle" /\ op[q].kind # "env"
      <4>1. op[q].step \in {"admit", "finish", "anonymise", "probe"}
        BY <3>1 DEF Admit, FinishDelete, Anonymise, Recover
      <4>2. QED
        BY <2>1, <4>1, AtStep DEF TypeOK, HandlerOK, StepOf
    <3>3. op[p].step # "idle" /\ op[p].kind # "env"
      BY <2>1, <2>3, AtStep DEF TypeOK, HandlerOK, StepOf
    <3>4. p = q
      BY <2>1, <3>2, <3>3, Excluded
    <3>5. FinishDelete(q)
      BY <2>3, <3>1, <3>4 DEF Admit, Anonymise, Recover
    <3>6. ~Registered(op[q].user) /\ UNCHANGED registration
      BY <2>1, <2>3, <3>4, <3>5 DEF FinishDelete, Unregistered, git
    <3>7. op[q].user # u
      BY <3>6 DEF Registered
    <3>8. QED
      BY <2>3, <3>5, <3>7 DEF FinishDelete, Reserved
  <2>4. QED
    BY <2>2, <2>3
<1>2. QED
  BY <1>1, KnowledgeHolds, PTL DEF Spec, RemovalTakesItsOwn

-----------------------------------------------------------------------------
(* Registered and reserved apps fit the node together                      *)

\* What m apps already seen and n still reserved leave.
AppsFit(m, n) == m * PodUnits + n * ReserveUnits + Headroom <= Allocatable

LEMMA LighterFits ==
  ASSUME LifecycleAssumption, NEW m \in Nat, NEW n \in Nat, NEW i \in Nat, NEW j \in Nat,
         i <= m, j <= n, AppsFit(m, n)
  PROVE  AppsFit(i, j)
<1>1. PICK d \in Nat, e \in Nat : m = i + d /\ n = j + e
  <2>1. m - i \in Nat /\ n - j \in Nat /\ m = i + (m - i) /\ n = j + (n - j)
    OBVIOUS
  <2>2. QED
    BY <2>1
<1>2. m * PodUnits = i * PodUnits + d * PodUnits /\ n * ReserveUnits = j * ReserveUnits + e * ReserveUnits
  BY <1>1, ConstantsOK
<1>3. /\ i * PodUnits \in Nat /\ d * PodUnits \in Nat
      /\ j * ReserveUnits \in Nat /\ e * ReserveUnits \in Nat
  BY <1>1, ConstantsOK
<1>4. QED
  BY <1>2, <1>3, ConstantsOK DEF AppsFit

LEMMA LiveFinite ==
  ASSUME LifecycleAssumption, NEW C
  PROVE  /\ IsFiniteSet(Live \cap C) /\ Cardinality(Live \cap C) \in Nat
         /\ IsFiniteSet(Live \ C) /\ Cardinality(Live \ C) \in Nat
<1>1. Live \cap C \in SUBSET Users /\ Live \ C \in SUBSET Users /\ IsFiniteSet(Users)
  BY DEF Live, LifecycleAssumption
<1>2. QED
  BY <1>1, FS_Subset, FS_CardinalityType

\* Apps only go, and none turns from seen to unseen.
LEMMA FewerApps ==
  ASSUME LifecycleAssumption, CapacityWhenVisible, blind \in BOOLEAN, blind' = blind,
         (Live \cap counted)' \subseteq Live \cap counted, (Live \ counted)' \subseteq Live \ counted
  PROVE  CapacityWhenVisible'
<1> DEFINE S == (Live \cap counted)'
           T == (Live \ counted)'
<1>1. /\ Cardinality(S) \in Nat /\ Cardinality(S) <= Cardinality(Live \cap counted)
      /\ Cardinality(T) \in Nat /\ Cardinality(T) <= Cardinality(Live \ counted)
  <2>1. S \in SUBSET (Live \cap counted) /\ T \in SUBSET (Live \ counted)
    OBVIOUS
  <2> HIDE DEF S, T
  <2>2. QED
    BY <2>1, LiveFinite, FS_Subset, FS_CardinalityType
<1>2. ~blind => AppsFit(Cardinality(Live \cap counted), Cardinality(Live \ counted))
  BY DEF CapacityWhenVisible, AppsFit
<1> HIDE DEF S, T
<1>3. ~blind => AppsFit(Cardinality(S), Cardinality(T))
  BY <1>1, <1>2, LiveFinite, LighterFits
<1>4. QED
  BY <1>3 DEF CapacityWhenVisible, AppsFit, S, T

\* An admission weighs every app that stays: the seen ones by their pods, the others
\* by a row the snapshot does not show, and the newcomer on top.
LEMMA CapacityAdmit ==
  ASSUME LifecycleAssumption, LifecycleInv, NEW q \in Requests, Admit(q)
  PROVE  CapacityWhenVisible'
<1> DEFINE v == op[q].user
           seen == op[q].seen
           rows == Unobserved(v, seen)
           S == (Live \cap counted)'
           T == (Live \ counted)'
           served == {r.user : r \in rows}
<1> SUFFICES ASSUME ~blind' PROVE AppsFit(Cardinality(S), Cardinality(T))
  BY DEF CapacityWhenVisible, AppsFit
<1>1. /\ TypeOK /\ WeighedOnce /\ Accounted /\ v \in Users /\ seen \subseteq Users /\ v \notin seen
      /\ IsFiniteSet(reservations)
  <2>1. op[q] \in Ops /\ v \in Users
    BY AtStep DEF LifecycleInv, TypeOK, Admit
  <2>2. QED
    BY <2>1 DEF LifecycleInv, LedgerInv, Ops, Admit
<1>2. /\ counted' = (counted \cup {w \in Users : w \in seen /\ Reserved(w) # {}}) \ {v}
      /\ reservations' = RowsAfter(v, seen) /\ UNCHANGED registration
      /\ blind' = (blind \/ \E w \in counted \ seen : Registered(w))
      /\ Fits(v, seen)
  BY DEF Admit, git
<1>3. S \subseteq seen
  <2> SUFFICES ASSUME NEW w \in S, w \notin seen PROVE FALSE
    OBVIOUS
  <2>1. w \in Users /\ w # v /\ w \in counted /\ (Registered(w)' \/ Reserved(w)' # {})
    BY <1>2 DEF Live
  <2>2. ~Registered(w)'
    BY <1>2, <2>1 DEF Registered
  <2>3. PICK r \in reservations' : r.user = w /\ ~r.anon
    BY <2>1, <2>2 DEF Reserved
  <2>4. r \in reservations
    BY <1>2, <2>1, <2>3 DEF RowsAfter
  <2>5. QED
    BY <1>1, <2>1, <2>3, <2>4 DEF WeighedOnce, Reserved
<1>4. T \subseteq served \cup {v}
  <2> SUFFICES ASSUME NEW w \in T, w # v PROVE \E r \in rows : r.user = w
    OBVIOUS
  <2>1. w \in Users /\ w \notin counted' /\ (Registered(w)' \/ Reserved(w)' # {})
    BY DEF Live
  <2>2. w \notin counted /\ (w \in seen => Reserved(w) = {})
    BY <1>2, <2>1
  <2>3. CASE Registered(w)'
    <3>1. PICK r \in reservations : r.user = w
      BY <1>1, <1>2, <2>1, <2>2, <2>3 DEF Accounted, Registered
    <3>2. ~Observed(r, seen) /\ r \notin Reserved(v)
      BY <2>2, <3>1 DEF Observed, Reserved
    <3>3. QED
      BY <3>1, <3>2 DEF Unobserved
  <2>4. CASE Reserved(w)' # {}
    <3>1. PICK r \in reservations' : r.user = w /\ ~r.anon
      BY <2>4 DEF Reserved
    <3>2. r \in reservations /\ ~Observed(r, seen)
      BY <1>2, <3>1 DEF RowsAfter
    <3>3. QED
      BY <3>1, <3>2 DEF Unobserved, Reserved
  <2>5. QED
    BY <2>1, <2>3, <2>4
<1>5. /\ IsFiniteSet(rows) /\ Cardinality(rows) \in Nat
      /\ IsFiniteSet(served) /\ Cardinality(served) \in Nat
      /\ Cardinality(served) <= Cardinality(rows)
  <2>1. rows \in SUBSET reservations
    BY DEF Unobserved
  <2>2. IsFiniteSet(rows) /\ Cardinality(rows) \in Nat
    BY <1>1, <2>1, FS_Subset, FS_CardinalityType
  <2> DEFINE f == [r \in rows |-> r.user]
  <2>3. f \in Surjection(rows, served)
    BY DEF Surjection
  <2> HIDE DEF f, served
  <2>4. QED
    BY <2>2, <2>3, FS_Surjection, FS_CardinalityType
<1>6. Cardinality(S) \in Nat /\ Cardinality(seen) \in Nat /\ Cardinality(S) <= Cardinality(seen)
  <2>1. S \in SUBSET seen /\ IsFiniteSet(seen)
    BY <1>1, <1>3, FS_Subset DEF LifecycleAssumption
  <2> HIDE DEF S, seen
  <2>2. QED
    BY <2>1, FS_Subset, FS_CardinalityType
<1>7. Cardinality(T) \in Nat /\ Cardinality(T) <= Cardinality(rows) + 1
  <2>1. T \in SUBSET (served \cup {v})
    BY <1>4
  <2> HIDE DEF T, served, v, rows
  <2>2. /\ IsFiniteSet(served \cup {v})
        /\ Cardinality(served \cup {v}) \in {Cardinality(served), Cardinality(served) + 1}
    BY <1>5, FS_AddElement
  <2>3. /\ IsFiniteSet(T) /\ Cardinality(T) \in Nat
        /\ Cardinality(T) <= Cardinality(served \cup {v})
    BY <2>1, <2>2, FS_Subset, FS_CardinalityType
  <2>4. QED
    BY <1>5, <2>2, <2>3
<1>8. AppsFit(Cardinality(seen), Cardinality(rows) + 1)
  BY <1>2 DEF Fits, AppsFit
<1> HIDE DEF S, T, rows, seen
<1>9. QED
  BY <1>5, <1>6, <1>7, <1>8, LighterFits

LEMMA CapacityStep ==
  ASSUME LifecycleAssumption, LifecycleInv, CapacityWhenVisible, Next
  PROVE  CapacityWhenVisible'
<1>1. TypeOK /\ WeighedOnce /\ blind \in BOOLEAN /\ reservations \subseteq Rows
  BY DEF LifecycleInv, TypeOK, StoreOK
<1>2. ASSUME blind' = blind, \A u \in Live' : u \in Live /\ (u \in counted <=> u \in counted')
      PROVE  CapacityWhenVisible'
  BY <1>1, <1>2, FewerApps
<1>3. ASSUME NEW u \in Users, Registered(u)', ~Registered(u), UNCHANGED reservations
      PROVE  u \in Live
  <2>1. PICK q \in Requests : op[q].user = u /\ (CommitRegistration(q) \/ CommitRemoval(q))
    BY <1>1, <1>3, RegistrationChanges DEF Registered
  <2>2. CommitRegistration(q)
    BY <1>1, <1>3, <2>1 DEF CommitRemoval, Registered, TypeOK, GitOK
  <2>3. QED
    BY <1>3, <2>1, <2>2, AtLedgerStep DEF Live
<1>4. CASE UNCHANGED <<reservations, counted, blind>>
  BY <1>2, <1>3, <1>4 DEF Live, Reserved
<1>5. ASSUME NEW q \in Requests, CommitRemoval(q) PROVE CapacityWhenVisible'
  <2> DEFINE v == op[q].user
  <2>1. /\ UNCHANGED <<reservations, blind>> /\ counted' = counted \ {v}
        /\ v \in Users /\ registration' = [registration EXCEPT ![v] = NoReg]
    BY <1>1, <1>5, AtStep DEF CommitRemoval, db, TypeOK
  <2>2. ASSUME NEW u \in Live' PROVE u \in Live /\ (u \in counted <=> u \in counted')
    <3>1. u \in Users /\ (Registered(u)' \/ Reserved(u) # {})
      BY <2>1 DEF Live, Reserved
    <3>2. CASE u = v
      BY <1>1, <2>1, <3>1, <3>2 DEF Registered, TypeOK, GitOK, Live, WeighedOnce
    <3>3. CASE u # v
      BY <1>1, <2>1, <3>1, <3>3 DEF Registered, TypeOK, GitOK, Live
    <3>4. QED
      BY <3>2, <3>3
  <2>3. QED
    BY <1>2, <2>1, <2>2
<1>6. ASSUME NEW q \in Requests, FinishDelete(q) \/ Recover(q) PROVE CapacityWhenVisible'
  <2>1. UNCHANGED <<registration, counted, blind>> /\ reservations' \subseteq reservations
    BY <1>6 DEF FinishDelete, Recover, git, history
  <2>2. Live' \subseteq Live
    BY <2>1 DEF Live, Registered, Reserved
  <2>3. QED
    BY <1>2, <2>1, <2>2
<1>7. ASSUME NEW q \in Requests, Anonymise(q) PROVE CapacityWhenVisible'
  <2>1. /\ UNCHANGED <<registration, counted, blind>>
        /\ reservations' = RowsRenamed(op[q].user)
    BY <1>7 DEF Anonymise, git, history
  <2>2. ASSUME NEW r \in reservations', ~r.anon PROVE r \in reservations
    <3>1. ASSUME NEW s \in Reserved(op[q].user), r = [s EXCEPT !.anon = TRUE] PROVE FALSE
      BY <1>1, <2>2, <3>1 DEF Reserved, Rows
    <3>2. QED
      BY <2>1, <3>1 DEF RowsRenamed
  <2>3. Live' \subseteq Live
    BY <2>1, <2>2 DEF Live, Registered, Reserved
  <2>4. QED
    BY <1>2, <2>1, <2>3
<1>8. QED
  BY <1>4, <1>5, <1>6, <1>7, CapacityAdmit, LedgerChanges

\* While every admission sees the apps counted before, registered and reserved apps
\* together leave the headroom free: the snapshot and the ledger never both miss one.
THEOREM CapacityHolds == Spec => []CapacityWhenVisible
<1>1. Init => CapacityWhenVisible
  <2> SUFFICES ASSUME Init PROVE CapacityWhenVisible
    OBVIOUS
  <2>1. Live \cap counted = Legacy /\ Live \ counted = {}
    BY LifecycleAssumption DEF Init, Live, Registered, Reserved, LifecycleAssumption,
                               RegistrationFiles, NoReg
  <2>2. Cardinality(Live \ counted) = 0
    BY <2>1, FS_EmptySet
  <2>3. Cardinality(Legacy) \in Nat
    BY FS_Subset, FS_CardinalityType, LifecycleAssumption DEF LifecycleAssumption
  <2>4. Cardinality(Legacy) * PodUnits \in Nat /\ 0 * ReserveUnits = 0
    BY <2>3, ConstantsOK, LifecycleAssumption
  <2>5. Headroom + Cardinality(Legacy) * PodUnits <= Allocatable
    BY LifecycleAssumption DEF LifecycleAssumption
  <2>6. Cardinality(Legacy) * PodUnits + 0 * ReserveUnits + Headroom <= Allocatable
    BY <2>4, <2>5, ConstantsOK, LifecycleAssumption
  <2>7. QED
    BY <2>1, <2>2, <2>6 DEF CapacityWhenVisible
<1>2. LifecycleInv /\ CapacityWhenVisible /\ [Next]_vars => CapacityWhenVisible'
  <2>1. ASSUME LifecycleInv, CapacityWhenVisible, Next PROVE CapacityWhenVisible'
    BY <2>1, CapacityStep, LifecycleAssumption
  <2>2. ASSUME CapacityWhenVisible, UNCHANGED vars PROVE CapacityWhenVisible'
    BY <2>2 DEF vars, db, git, history, CapacityWhenVisible, Live, Registered, Reserved
  <2>3. QED
    BY <2>1, <2>2
<1>3. QED
  BY <1>1, <1>2, KnowledgeHolds, PTL DEF Spec

-----------------------------------------------------------------------------
(* Publication in order, where the retention cron does not run             *)

\* What registerForUser has already committed for the registration it will publish.
Prepared(o) ==
  /\ o.step \in {"storage", "source", "ensure", "manifests", "publish"} =>
       o.host = HostOf(o.user, o.app)
  /\ o.step \in {"ensure", "manifests", "publish"} => <<o.user, o.app>> \in source
  /\ o.step \in {"manifests", "publish"} => deployRepo[o.user] = "active"
  /\ o.step = "publish" => manifest[o.user].app = o.app /\ manifest[o.user].host = o.host

OrderInv == /\ expired = {}
            /\ PublishedInOrder
            /\ \A q \in Requests : Prepared(op[q])

\* Without the cron, an account's repository, manifests and slug change only in a
\* handler of that account, and source files are only added.
LEMMA RepositoryChanges ==
  ASSUME "cleanup" \notin Operations, TypeOK, expired = {}, Next
  PROVE  /\ expired' = {} /\ source \subseteq source'
         /\ \A u \in Users :
              <<deployRepo[u], manifest[u], slug[u]>>' # <<deployRepo[u], manifest[u], slug[u]>> =>
                \E q \in Requests : op[q].user = u /\
                  (ClaimHost(q) \/ EnsureRepo(q) \/ CommitManifests(q) \/ ArchiveRepo(q) \/ Anonymise(q))
<1> DEFINE Same == UNCHANGED <<expired, source, deployRepo, manifest, slug>>
           Touches(q) == ClaimHost(q) \/ EnsureRepo(q) \/ CommitManifests(q) \/ ArchiveRepo(q)
                           \/ Anonymise(q)
<1>1. ASSUME NEW q \in Requests, NEW v \in Users, Begins(q, v) PROVE Same
  BY <1>1 DEF Begins, BeginRegister, BeginDelete, BeginDeleteAccount, BeginRelease, BeginEnv,
              db, git
<1>2. ASSUME NEW q \in Requests, Fail(q) \/ EnvStep(q) \/ ReleaseStep(q) PROVE Same
  BY <1>2 DEF Fail, EnvStep, WriteEnv, TriggerRestart, ReleaseStep, Probe, Recover, db, git
<1>3. ASSUME NEW q \in Requests, RegisterStep(q), ~Touches(q)
      PROVE  UNCHANGED <<expired, deployRepo, manifest, slug>> /\ source \subseteq source'
  BY <1>3 DEF RegisterStep, ReadRegistration, ReadApplication, ReadMetrics, Admit, Decline,
              ReadStorage, CommitSource, CommitRegistration, db, git
<1>4. ASSUME NEW q \in Requests, DeleteStep(q), ~Touches(q) PROVE Same
  BY <1>4 DEF DeleteStep, CommitRemoval, FinishDelete, db, git
<1>5. ASSUME NEW v \in Users, Inspect(v) \/ SignIn(v) \/ SetAllowed(v) PROVE Same
  BY <1>5 DEF Inspect, SignIn, SetAllowed, db, git
<1>6. ASSUME NEW v \in Users, ClusterStep(v) \/ LosePods(v) PROVE Same
  BY <1>6 DEF ClusterStep, LosePods, CreateApplication, SyncApplication, PruneApplication,
              RemoveNamespace, RemoveApplication, RemoveVolume, External, db, git
<1>7. ASSUME Scrape \/ Cleanup PROVE Same
  BY <1>7 DEF Scrape, Cleanup, ListArchived, DeleteExpired, External, db, git
<1>8. CASE Crash
  BY <1>8 DEF Crash, db, git
<1>9. ASSUME NEW q \in Requests, Touches(q)
      PROVE  /\ UNCHANGED <<expired, source>>
             /\ \A u \in Users \ {op[q].user} : UNCHANGED <<deployRepo[u], manifest[u], slug[u]>>
  BY <1>9 DEF ClaimHost, EnsureRepo, CommitManifests, ArchiveRepo, Anonymise, db, git, TypeOK,
              StoreOK, GitOK
<1>10. CASE \E q \in Requests : Touches(q)
  BY <1>9, <1>10
<1>11. CASE ~ \E q \in Requests : Touches(q)
  BY <1>1, <1>2, <1>3, <1>4, <1>5, <1>6, <1>7, <1>8, <1>11 DEF Next, Handler
<1>12. QED
  BY <1>10, <1>11

LEMMA PreparedUndisturbed ==
  ASSUME LifecycleAssumption, "cleanup" \notin Operations, LifecycleInv, OrderInv, Next,
         NEW q \in Requests, op[q].step # "idle", op'[q] = op[q], ~Handler(q)
  PROVE  Prepared(op[q])'
<1> DEFINE o == op[q]
           u == o.user
<1>1. TypeOK /\ RegistrationSerialised /\ Prepared(o)
  BY DEF LifecycleInv, OrderInv
<1>2. ASSUME NEW r \in Requests, Handler(r) PROVE op[r].user # u
  BY <1>1, <1>2, HandlerKeepsOrSettles, Excluded
<1>3. ASSUME NEW r \in Requests, \/ ClaimHost(r) \/ EnsureRepo(r) \/ CommitManifests(r)
                                 \/ ArchiveRepo(r) \/ Anonymise(r)
      PROVE  op[r].user # u
  BY <1>2, <1>3 DEF Handler, RegisterStep, DeleteStep
<1>4. u \in Users => UNCHANGED <<deployRepo[u], manifest[u], slug[u]>>
  BY <1>1, <1>3, RepositoryChanges DEF OrderInv
<1>5. source \subseteq source'
  BY <1>1, RepositoryChanges DEF OrderInv
<1>6. o.step \in {"storage", "source", "ensure", "manifests", "publish"} => u \in Users
  BY <1>1, AtStep DEF TypeOK
<1>7. QED
  BY <1>1, <1>4, <1>5, <1>6 DEF Prepared, HostOf

\* A handler's own step: each commit prepares the next.
LEMMA PreparedOwn ==
  ASSUME LifecycleAssumption, LifecycleInv, OrderInv, NEW q \in Requests, Handler(q),
         op'[q].step \in {"storage", "source", "ensure", "manifests", "publish"}
  PROVE  Prepared(op[q])'
<1> DEFINE o == op[q]
           u == o.user
           Late == {"storage", "source", "ensure", "manifests", "publish"}
<1>1. o \in Ops /\ TypeOK /\ Prepared(o)
  BY AtStep DEF LifecycleInv, TypeOK, OrderInv
<1>2. ASSUME NEW st, Go(q, st), st \notin Late PROVE FALSE
  BY <1>1, <1>2, GoFields
<1>3. ~End(q) /\ ~Abort(q)
  BY <1>1, <1>2, EndIdles DEF Abort, Idle
<1>4. ~Fail(q) /\ ~DeleteStep(q) /\ ~EnvStep(q)
  BY <1>2, <1>3 DEF Fail, AfterFailure, DeleteStep, CommitRemoval, ArchiveRepo, FinishDelete,
                    Anonymise, EnvStep, WriteEnv, TriggerRestart, Answered
<1>5. ~ReleaseStep(q)
  <2>1. ASSUME NEW probe \in Probes, Probe(q, probe) PROVE FALSE
    <3>1. PICK b : op'[q] = [o EXCEPT !.todo = o.todo \ {probe}, !.clear = b]
      BY <1>1, <2>1 DEF Probe, Probed, TypeOK, ProcessOK
    <3>2. op'[q].step = o.step
      BY <1>1, <3>1 DEF Ops
    <3>3. o.step = "probe"
      BY <2>1 DEF Probe
    <3>4. QED
      BY <3>2, <3>3
  <2>2. QED
    BY <1>3, <2>1 DEF ReleaseStep, Recover
<1>6. ~ReadRegistration(q) /\ ~ReadMetrics(q)
  <2>1. op \in [Requests -> Ops]
    BY <1>1 DEF TypeOK, ProcessOK
  <2>2. ASSUME ReadRegistration(q) PROVE FALSE
    <3>1. op'[q] = [o EXCEPT !.step = "application", !.reg = registration[u]]
      BY <2>1, <2>2 DEF ReadRegistration
    <3>2. op'[q].step = "application"
      BY <1>1, <3>1 DEF Ops
    <3>3. QED
      BY <3>2
  <2>3. ASSUME ReadMetrics(q) PROVE FALSE
    <3>1. op'[q] = [o EXCEPT !.step = "admit", !.seen = scraped]
      BY <2>1, <2>3 DEF ReadMetrics
    <3>2. op'[q].step = "admit"
      BY <1>1, <3>1 DEF Ops
    <3>3. QED
      BY <3>2
  <2>4. QED
    BY <2>2, <2>3
<1>7. ~ReadApplication(q) /\ ~Admit(q) /\ ~Decline(q) /\ ~CommitRegistration(q)
  BY <1>2, <1>3 DEF ReadApplication, Admit, Decline, CommitRegistration
<1>8. ClaimHost(q) \/ ReadStorage(q) \/ CommitSource(q) \/ EnsureRepo(q) \/ CommitManifests(q)
  BY <1>4, <1>5, <1>6, <1>7 DEF Handler, RegisterStep
<1>9. u \in Users /\ o.app \in Apps
  BY <1>1, <1>8, AtStep DEF TypeOK, ClaimHost, ReadStorage, CommitSource, EnsureRepo, CommitManifests
<1>10. CASE ClaimHost(q)
  <2>1. PICK h : op' = [op EXCEPT ![q] = [@ EXCEPT !.step = "storage", !.host = h]]
                 /\ \/ h = HostOf(u, o.app) /\ UNCHANGED slug
                    \/ h # None /\ slug' = [slug EXCEPT ![u] = h]
    BY <1>3, <1>10 DEF ClaimHost
  <2>2. op'[q] = [o EXCEPT !.step = "storage", !.host = h]
    BY <1>1, <2>1 DEF TypeOK, ProcessOK
  <2>3. op'[q].step = "storage" /\ op'[q].host = h /\ op'[q].user = u /\ op'[q].app = o.app
    BY <1>1, <2>2 DEF Ops
  <2>4. h # None => (slug' = [slug EXCEPT ![u] = h] => slug'[u] = h)
    BY <1>1, <1>9 DEF TypeOK, StoreOK
  <2>5. h = IF slug'[u] = None THEN DefaultHost[u][o.app] ELSE slug'[u]
    BY <2>1, <2>4 DEF HostOf
  <2>6. QED
    BY <2>3, <2>5 DEF Prepared, HostOf
<1>11. CASE ReadStorage(q)
  <2>1. PICK p : op' = [op EXCEPT ![q] = [@ EXCEPT !.step = "source", !.profile = p]]
    BY <1>11 DEF ReadStorage
  <2>2. op'[q] = [o EXCEPT !.step = "source", !.profile = p]
    BY <1>1, <2>1 DEF TypeOK, ProcessOK
  <2>3. op'[q].step = "source" /\ op'[q].host = o.host /\ op'[q].user = u /\ op'[q].app = o.app
    BY <1>1, <2>2 DEF Ops
  <2>4. UNCHANGED slug /\ o.step = "storage"
    BY <1>11 DEF ReadStorage, db
  <2>5. QED
    BY <1>1, <2>3, <2>4 DEF Prepared, HostOf
<1>12. CASE CommitSource(q) \/ EnsureRepo(q) \/ CommitManifests(q)
  <2>1. PICK st : Go(q, st) /\ \/ st = "ensure" /\ CommitSource(q)
                               \/ st = "manifests" /\ EnsureRepo(q)
                               \/ st = "publish" /\ CommitManifests(q)
    BY <1>3, <1>12 DEF CommitSource, EnsureRepo, CommitManifests, Answered
  <2>2. op'[q].step = st /\ op'[q].host = o.host /\ op'[q].user = u /\ op'[q].app = o.app
    BY <1>1, <2>1, GoFields
  <2>3. UNCHANGED slug /\ o.step \in {"source", "ensure", "manifests"}
    BY <1>12 DEF CommitSource, EnsureRepo, CommitManifests, db
  <2>4. op'[q].host = HostOf(u, o.app)'
    BY <1>1, <2>2, <2>3 DEF Prepared, HostOf
  <2>5. CASE st = "ensure" /\ CommitSource(q)
    BY <2>2, <2>4, <2>5 DEF Prepared, HostOf, CommitSource
  <2>6. CASE st = "manifests" /\ EnsureRepo(q)
    <3>1. deployRepo'[u] = "active" /\ UNCHANGED source /\ o.step = "ensure"
      BY <1>1, <1>9, <2>6 DEF EnsureRepo, TypeOK, GitOK
    <3>2. QED
      BY <1>1, <2>2, <2>4, <2>6, <3>1 DEF Prepared, HostOf
  <2>7. CASE st = "publish" /\ CommitManifests(q)
    <3>1. /\ manifest'[u] = [app |-> o.app, host |-> o.host, storage |-> o.profile]
          /\ UNCHANGED <<source, deployRepo>> /\ o.step = "manifests"
      BY <1>1, <1>9, <2>7 DEF CommitManifests, TypeOK, GitOK
    <3>2. manifest'[u].app = o.app /\ manifest'[u].host = o.host
      BY <3>1
    <3>3. <<u, o.app>> \in source' /\ deployRepo'[u] = "active"
      BY <1>1, <2>7, <3>1 DEF Prepared, CommitManifests
    <3>4. QED
      BY <2>2, <2>4, <2>7, <3>2, <3>3 DEF Prepared
  <2>8. QED
    BY <2>1, <2>5, <2>6, <2>7
<1>13. QED
  BY <1>8, <1>10, <1>11, <1>12

\* A handler starts before its first call.
LEMMA BeginsFirst ==
  ASSUME TypeOK, NEW q \in Requests, NEW u \in Users, Begins(q, u)
  PROVE  op'[q].step \in {"registration", "unregister", "anonymise", "probe"}
<1>1. op \in [Requests -> Ops]
  BY DEF TypeOK, ProcessOK
<1>2. CASE BeginRegister(q, u)
  <2>1. PICK a \in Apps, s \in Slugs \cup {None}, d \in Detections :
          op'[q] = [Idle EXCEPT !.kind = "register", !.user = u, !.step = "registration",
                                !.app = a, !.slug = s, !.detected = d]
    BY <1>1, <1>2 DEF BeginRegister, Begin
  <2>2. QED
    BY <2>1 DEF Idle
<1>3. CASE BeginDelete(q, u) \/ BeginDeleteAccount(q, u)
  <2>1. PICK kind \in {"delete", "account"}, step \in {"unregister", "anonymise"} :
          op'[q] = [Idle EXCEPT !.kind = kind, !.user = u, !.step = step]
    BY <1>1, <1>3 DEF BeginDelete, BeginDeleteAccount, Begin
  <2>2. QED
    BY <2>1 DEF Idle
<1>4. CASE BeginRelease(q, u)
  <2>1. op'[q] = [Idle EXCEPT !.kind = "release", !.user = Admin, !.step = "probe",
                              !.target = u, !.digest = plan[u], !.todo = Probes]
    BY <1>1, <1>4 DEF BeginRelease, Begin
  <2>2. QED
    BY <2>1 DEF Idle
<1>5. CASE BeginEnv(q, u)
  <2>1. PICK a : op'[q] = [Idle EXCEPT !.kind = "env", !.user = u, !.step = "registration",
                                       !.app = a]
    BY <1>1, <1>5 DEF BeginEnv, Begin
  <2>2. QED
    BY <2>1 DEF Idle
<1>6. QED
  BY <1>2, <1>3, <1>4, <1>5 DEF Begins

LEMMA PreparedStep ==
  ASSUME LifecycleAssumption, "cleanup" \notin Operations, LifecycleInv, OrderInv, Next,
         NEW q \in Requests
  PROVE  Prepared(op[q])'
<1> DEFINE Late == {"storage", "source", "ensure", "manifests", "publish"}
<1>1. TypeOK
  BY DEF LifecycleInv
<1>2. CASE op'[q].step \notin Late
  BY <1>2 DEF Prepared
<1>3. CASE op'[q].step \in Late /\ Handler(q)
  BY <1>3, PreparedOwn
<1>4. CASE op'[q].step \in Late /\ op'[q] = op[q] /\ ~Handler(q)
  BY <1>4, PreparedUndisturbed
<1>5. op'[q] = Idle => op'[q].step \notin Late
  BY DEF Idle
<1>6. ASSUME NEW u \in Users, Begins(q, u) PROVE op'[q].step \notin Late
  BY <1>1, <1>6, BeginsFirst
<1>7. QED
  BY <1>1, <1>2, <1>3, <1>4, <1>5, <1>6, HandlerChanges

LEMMA PublishedStep ==
  ASSUME LifecycleAssumption, "cleanup" \notin Operations, LifecycleInv, OrderInv, Next
  PROVE  PublishedInOrder'
<1> SUFFICES ASSUME NEW u \in Users, Registered(u)'
             PROVE  /\ <<u, registration'[u].app>> \in source'
                    /\ deployRepo'[u] = "active"
                    /\ manifest'[u].app = registration'[u].app
  BY DEF PublishedInOrder
<1>1. TypeOK /\ source \subseteq source' /\ PublishedInOrder
  BY RepositoryChanges DEF LifecycleInv, OrderInv
<1>2. CASE registration'[u] # registration[u]
  <2>1. PICK q \in Requests : op[q].user = u /\ (CommitRegistration(q) \/ CommitRemoval(q))
    BY <1>1, <1>2, RegistrationChanges
  <2>2. CommitRegistration(q)
    BY <1>1, <2>1 DEF CommitRemoval, Registered, TypeOK, GitOK
  <2>3. /\ registration'[u].app = op[q].app /\ UNCHANGED <<source, deployRepo, manifest>>
        /\ op[q].step = "publish"
    BY <1>1, <2>1, <2>2 DEF CommitRegistration, TypeOK, GitOK
  <2>4. QED
    BY <2>1, <2>3 DEF OrderInv, Prepared
<1>3. CASE registration'[u] = registration[u]
  <2>1. /\ <<u, registration[u].app>> \in source /\ deployRepo[u] = "active"
        /\ manifest[u].app = registration[u].app /\ Registered(u)
    BY <1>1, <1>3 DEF PublishedInOrder, Registered
  <2>2. CASE UNCHANGED <<deployRepo[u], manifest[u]>>
    BY <1>1, <1>3, <2>1, <2>2
  <2>3. CASE ~ UNCHANGED <<deployRepo[u], manifest[u]>>
    <3>1. PICK q \in Requests : op[q].user = u /\
            (ClaimHost(q) \/ EnsureRepo(q) \/ CommitManifests(q) \/ ArchiveRepo(q) \/ Anonymise(q))
      BY <1>1, <2>3, RepositoryChanges DEF OrderInv
    <3>2. ~ClaimHost(q) /\ ~Anonymise(q)
      BY <2>3 DEF ClaimHost, Anonymise, git
    <3>3. ~ArchiveRepo(q)
      BY <2>1, <3>1 DEF ArchiveRepo, LifecycleInv, Knows, Unregistered
    <3>4. CASE EnsureRepo(q)
      BY <1>1, <1>3, <2>1, <3>1, <3>4 DEF EnsureRepo, TypeOK, GitOK
    <3>5. CASE CommitManifests(q)
      <4>1. /\ op[q].step = "manifests" /\ op[q].kind = "register" /\ Knows(op[q])
            /\ UNCHANGED <<source, deployRepo>>
        BY <1>1, <3>5, AtStep DEF CommitManifests, LifecycleInv, TypeOK
      <4>2. op[q].app = registration[u].app
        BY <2>1, <3>1, <4>1 DEF Knows, FileKnown, AppKnown, Publishing, Registered
      <4>3. manifest'[u] = [app |-> op[q].app, host |-> op[q].host, storage |-> op[q].profile]
        BY <1>1, <3>1, <3>5 DEF CommitManifests, TypeOK, GitOK
      <4>4. manifest'[u].app = op[q].app
        BY <4>3
      <4>5. QED
        BY <1>1, <1>3, <2>1, <4>1, <4>2, <4>4
    <3>6. QED
      BY <3>1, <3>2, <3>3, <3>4, <3>5
  <2>4. QED
    BY <2>2, <2>3
<1>4. QED
  BY <1>2, <1>3

\* Every commit a registration rests on is still in place when it is published.
LEMMA OrderHolds ==
  ASSUME "cleanup" \notin Operations PROVE Spec => []OrderInv
<1>1. Init => OrderInv
  <2> SUFFICES ASSUME Init PROVE OrderInv
    OBVIOUS
  <2>1. PublishedInOrder
    <3> SUFFICES ASSUME NEW u \in Users, Registered(u)
                 PROVE  /\ <<u, registration[u].app>> \in source /\ deployRepo[u] = "active"
                        /\ manifest[u].app = registration[u].app
      BY DEF PublishedInOrder
    <3>1. u \in Legacy
      BY DEF Init, Registered
    <3>2. registration[u].app = LegacyApp /\ manifest[u].app = LegacyApp
      BY <3>1 DEF Init
    <3>3. QED
      BY <3>1, <3>2 DEF Init
  <2>2. \A q \in Requests : Prepared(op[q])
    BY DEF Init, Prepared, Idle
  <2>3. QED
    BY <2>1, <2>2 DEF Init, OrderInv
<1>2. LifecycleInv /\ OrderInv /\ [Next]_vars => OrderInv'
  <2>1. ASSUME LifecycleInv, OrderInv, Next PROVE OrderInv'
    <3>1. expired' = {}
      BY <2>1, RepositoryChanges DEF LifecycleInv, OrderInv
    <3>2. QED
      BY <2>1, <3>1, PublishedStep, PreparedStep, LifecycleAssumption DEF OrderInv
  <2>2. ASSUME OrderInv, UNCHANGED vars PROVE OrderInv'
    BY <2>2 DEF vars, db, git, OrderInv, PublishedInOrder, Prepared, HostOf, Registered
  <2>3. QED
    BY <2>1, <2>2
<1>3. QED
  BY <1>1, <1>2, KnowledgeHolds, PTL DEF Spec

\* Where the retention cron does not run, a published registration has its source
\* files, an active repository and manifests of the same app, whatever calls fail,
\* are answered too late or are cut off by a restart.
THEOREM PublicationOrdered ==
  ASSUME "cleanup" \notin Operations PROVE Spec => []PublishedInOrder
<1>1. OrderInv => PublishedInOrder
  BY DEF OrderInv
<1>2. QED
  BY <1>1, OrderHolds, PTL

\* Where the retention cron does not run, a first registration is published with
\* manifests (PublicationOrdered), and they are for the host the platform reports.
THEOREM HostClaimed ==
  ASSUME "cleanup" \notin Operations PROVE Spec => PublishedHostIsClaimed
<1> DEFINE Step == \A u \in Users : ~Registered(u) /\ Registered(u)' /\ manifest[u] # NoManifest
                      => manifest[u].host = HostOf(u, manifest[u].app)
<1>1. LifecycleInv /\ OrderInv /\ [Next]_vars => [Step]_vars
  <2> SUFFICES ASSUME LifecycleInv, OrderInv, Next, NEW u \in Users, ~Registered(u), Registered(u)'
               PROVE  manifest[u].host = HostOf(u, manifest[u].app)
    OBVIOUS
  <2>1. TypeOK
    BY DEF LifecycleInv
  <2>2. PICK q \in Requests : op[q].user = u /\ (CommitRegistration(q) \/ CommitRemoval(q))
    BY <2>1, RegistrationChanges DEF Registered
  <2>3. CommitRegistration(q)
    BY <2>1, <2>2 DEF CommitRemoval, Registered, TypeOK, GitOK
  <2>4. Prepared(op[q]) /\ op[q].step = "publish"
    BY <2>3 DEF OrderInv, CommitRegistration
  <2>5. QED
    BY <2>2, <2>4 DEF Prepared
<1>2. QED
  BY <1>1, KnowledgeHolds, OrderHolds, PTL DEF Spec, PublishedHostIsClaimed
=============================================================================
