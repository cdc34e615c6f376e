-------------------------- MODULE DeployLifecycle --------------------------
(***************************************************************************)
(* The life of user deployments on one backend replica: registration       *)
(* (deploy.service registerForUser), removal (deleteDeployment), account   *)
(* deletion, environment changes, the admin's reservation recovery and the *)
(* retention cron, interleaved at every await, against a control           *)
(* repository, per-user deploy repositories, Argo CD, the cluster and a    *)
(* lagging Prometheus.  The process may crash between any two steps:       *)
(* handlers and locks are lost, SQLite and the outside world are not.      *)
(* Any account may have several requests in the process at a time; only    *)
(* the interceptor keeps them apart.                                       *)
(***************************************************************************)
EXTENDS Naturals, FiniteSets

CONSTANTS
  Users,          \* GitHub logins (lowercase), each with at most one account
  Admin,          \* the operator's account, which issues recovery requests
  Requests,       \* bound: mutation requests in the process at a time
  Apps,           \* repositories a user may deploy
  Hosts,          \* first labels under *.apps.swkoo.kr
  Slugs,          \* the valid sub-slugs a request may ask for
  DefaultHost,    \* DefaultHost[u][a]: sanitizeName(login-app)
  Detections,     \* what detectStack may say of persistent storage
  Legacy,         \* users registered before admission and quota volumes existed
  LegacyApp,      \* the app they run
  Allocatable,    \* node capacity, in units of one running app's requests
  Headroom,       \* capacity that must stay free after an admission
  PodUnits,       \* units one observed namespace requests
  ReserveUnits,   \* units an admission sets aside: new pods plus replacement
  MaxStamp,       \* bound: admissions granted in one behaviour
  Operations,     \* operations a configuration enables
  Registration,   \* the interceptor's shared key
  None

Kinds == {"register", "delete", "account", "release", "env", "access", "cleanup", "churn"}

ASSUME LifecycleAssumption ==
  /\ IsFiniteSet(Users)
  /\ Admin \notin Users /\ Registration \notin Users \cup {Admin}
  /\ None \notin Users \cup {Admin} \cup Apps \cup Hosts
  /\ Slugs \subseteq Hosts /\ DefaultHost \in [Users -> [Apps -> Hosts]]
  /\ Detections \subseteq BOOLEAN
  /\ Legacy \subseteq Users /\ LegacyApp \in Apps
  /\ Operations \subseteq Kinds
  /\ {Allocatable, Headroom, PodUnits, ReserveUnits, MaxStamp} \subseteq Nat
  /\ PodUnits <= ReserveUnits
  /\ Headroom + Cardinality(Legacy) * PodUnits <= Allocatable

VARIABLES
  op,             \* op[q]: the handler request q is running, with its locals
  active,         \* AccountMutationInterceptor.active
  expired,        \* the retention cron's list of repositories still to delete
  present,        \* users with a live row (deleted_at IS NULL)
  allowed,        \* is_allowed
  slug,           \* users.subdomain
  reservations,   \* admission_reservations; anon marks a row renamed deleted_<id>
  clock,          \* the last created_at handed out
  plan,           \* plan[u]: the reservation in the digest the admin holds, or 0
  registration,   \* deploy/users/<login>.yaml on the deployment-data branch
  source,         \* <<user, app>> whose source repository has the build files
  deployRepo,     \* swkoo-deploy/<login>: absent, active or archived
  manifest,       \* what its main branch deploys
  argo,           \* the app of Application swkoo-user-<login>, or None
  draining,       \* Applications being deleted (resources finalizer pending)
  namespaces, pods, volumes,  \* users whose namespace, pods, PVs exist
  secret,         \* secret[u]: the app whose env Secret is in the namespace
  scraped,        \* namespaces with pod requests in Prometheus
  counted,        \* history: registered apps an admission saw in its snapshot
  blind           \* history: some admission missed an app counted before

db == <<present, allowed, slug, reservations, clock>>
git == <<registration, source, deployRepo, manifest>>
cluster == <<argo, draining, namespaces, pods, volumes, scraped>>
history == <<counted, blind>>
vars == <<op, active, expired, db, plan, git, cluster, secret, history>>

-----------------------------------------------------------------------------
(* Types                                                                   *)

Accounts == Users \cup {Admin}
Profiles == {"none", "local-path", "swkoo-user-quota"}
Probes == {"registration", "application", "namespace", "volumes"}

NoReg == [app |-> None, storage |-> "none"]
NoManifest == [app |-> None, host |-> None, storage |-> "none"]
RegistrationFiles == [app : Apps, storage : Profiles]
Manifests == [app : Apps, host : Hosts, storage : Profiles]
Rows == [user : Users, stamp : 1..MaxStamp, anon : BOOLEAN]

Steps == {"idle", "registration", "application", "metrics", "admit", "claim",
          "storage", "source", "ensure", "manifests", "publish",
          "unregister", "archive", "finish", "anonymise",
          "probe", "write", "restart"}

Idle == [kind |-> "none", step |-> "idle", user |-> None, app |-> None, slug |-> None,
         detected |-> FALSE, reg |-> NoReg, seen |-> {}, profile |-> "none",
         host |-> None, target |-> None, digest |-> 0, todo |-> {}, clear |-> TRUE]

Ops == [kind : {"none", "register", "delete", "account", "release", "env"},
        step : Steps, user : Accounts \cup {None}, app : Apps \cup {None},
        slug : Slugs \cup {None}, detected : BOOLEAN,
        reg : RegistrationFiles \cup {NoReg}, seen : SUBSET Users,
        profile : Profiles, host : Hosts \cup {None}, target : Users \cup {None},
        digest : 0..MaxStamp, todo : SUBSET Probes, clear : BOOLEAN]

\* The steps of each kind of handler.
StepOf(kind, step) ==
  \/ kind = "none" /\ step = "idle"
  \/ kind = "register" /\ step \in {"registration", "application", "metrics", "admit",
                                    "claim", "storage", "source", "ensure", "manifests",
                                    "publish"}
  \/ kind \in {"delete", "account"} /\ step \in {"unregister", "archive", "finish"}
  \/ kind = "account" /\ step = "anonymise"
  \/ kind = "env" /\ step \in {"registration", "application", "write", "restart"}
  \/ kind = "release" /\ step = "probe"

\* What a handler's locals hold by the time a step uses them.
HandlerOK(o) ==
  /\ StepOf(o.kind, o.step)
  /\ o.kind \in {"register", "delete", "account", "env"} => o.user \in Users
  /\ o.kind = "release" => o.user = Admin /\ o.target \in Users
  /\ o.kind \in {"register", "env"} => o.app \in Apps
  /\ o.step \in {"storage", "source", "ensure", "manifests", "publish"} => o.host \in Hosts

ProcessOK ==
  /\ op \in [Requests -> Ops] /\ \A q \in Requests : HandlerOK(op[q])
  /\ active \subseteq Accounts \cup {Registration}

StoreOK ==
  /\ present \subseteq Users /\ allowed \subseteq present
  /\ slug \in [Users -> Slugs \cup {None}]
  /\ reservations \subseteq Rows
  /\ clock \in 0..MaxStamp
  /\ plan \in [Users -> 0..MaxStamp]
  /\ counted \subseteq Users /\ blind \in BOOLEAN

GitOK ==
  /\ registration \in [Users -> RegistrationFiles \cup {NoReg}]
  /\ source \subseteq Users \X Apps
  /\ deployRepo \in [Users -> {"absent", "active", "archived"}]
  /\ manifest \in [Users -> Manifests \cup {NoManifest}]

ClusterOK ==
  /\ argo \in [Users -> Apps \cup {None}]
  /\ draining \subseteq Users /\ namespaces \subseteq Users
  /\ pods \subseteq namespaces /\ volumes \subseteq Users
  /\ secret \in [Users -> Apps \cup {None}]
  /\ scraped \subseteq Users /\ expired \subseteq Users

TypeOK == ProcessOK /\ StoreOK /\ GitOK /\ ClusterOK

Registered(u) == registration[u] # NoReg
Reserved(u) == {r \in reservations : r.user = u /\ ~r.anon}
Observed(r, seen) == ~r.anon /\ r.user \in seen

Init ==
  /\ op = [q \in Requests |-> Idle]
  /\ active = {} /\ expired = {}
  /\ present = Users /\ allowed = Users
  /\ slug = [u \in Users |-> None]
  /\ reservations = {} /\ clock = 0
  /\ plan = [u \in Users |-> 0]
  /\ registration = [u \in Users |->
       IF u \in Legacy THEN [app |-> LegacyApp, storage |-> "local-path"] ELSE NoReg]
  /\ source = Legacy \X {LegacyApp}
  /\ deployRepo = [u \in Users |-> IF u \in Legacy THEN "active" ELSE "absent"]
  /\ manifest = [u \in Users |->
       IF u \in Legacy
         THEN [app |-> LegacyApp, host |-> DefaultHost[u][LegacyApp], storage |-> "local-path"]
         ELSE NoManifest]
  /\ argo = [u \in Users |-> IF u \in Legacy THEN LegacyApp ELSE None]
  /\ draining = {}
  /\ namespaces = Legacy /\ pods = Legacy /\ volumes = Legacy
  /\ secret = [u \in Users |-> None]
  /\ scraped = Legacy /\ counted = Legacy
  /\ blind = FALSE

-----------------------------------------------------------------------------
(* The interceptor                                                         *)

\* Mutant: environment changes take no key of their account.
KeysWithoutEnv(user, kind) == IF kind = "env" THEN {} ELSE {user, Registration}

\* Mutant: recovery does not exclude registrations.
KeysWithoutRecovery(user, kind) ==
  {user} \cup IF kind \in {"env", "release"} THEN {} ELSE {Registration}

\* Registration, removal, account deletion and recovery share one key.
Keys(user, kind) == {user} \cup IF kind = "env" THEN {} ELSE {Registration}

\* Mutant: refused only when every key is held (every for some).
BeginUnlessAllHeld(q, o) ==
  /\ o.kind \in Operations
  /\ op[q].step = "idle"
  /\ ~(Keys(o.user, o.kind) \subseteq active)
  /\ active' = active \cup Keys(o.user, o.kind)
  /\ op' = [op EXCEPT ![q] = o]

Begin(q, o) ==
  /\ o.kind \in Operations
  /\ op[q].step = "idle"
  /\ Keys(o.user, o.kind) \cap active = {}
  /\ active' = active \cup Keys(o.user, o.kind)
  /\ op' = [op EXCEPT ![q] = o]

\* finally: the keys go when the handler settles, however it settles.
End(q) ==
  /\ op' = [op EXCEPT ![q] = Idle]
  /\ active' = active \ Keys(op[q].user, op[q].kind)

Go(q, step) ==
  /\ op' = [op EXCEPT ![q].step = step]
  /\ UNCHANGED active

\* deleteAccount logs a failed teardown and erases the account all the same.
Abort(q) == IF op[q].kind = "account" THEN Go(q, "anonymise") ELSE End(q)

\* A call that took effect: its answer arrives, or is lost and reported as a failure.
Answered(q, step) == Go(q, step) \/ Abort(q)

\* Mutant: a failed manifest commit is logged and the registration published.
ContinueAfterManifests(q) ==
  CASE op[q].step = "archive" -> Go(q, "finish")
    [] op[q].step = "manifests" -> Go(q, "publish")
    [] OTHER -> Abort(q)

\* Mutant: the removal commit is best effort as well.
AfterFailureOfRemoval(q) ==
  CASE op[q].step = "unregister" -> Go(q, "archive")
    [] op[q].step = "archive" -> Go(q, "finish")
    [] OTHER -> Abort(q)

\* Archiving is best effort; any other failure ends the mutation.
AfterFailure(q) == IF op[q].step = "archive" THEN Go(q, "finish") ELSE Abort(q)

\* An outside call that fails without effect.
Fail(q) ==
  /\ op[q].step \in {"registration", "application", "metrics", "source", "ensure",
                     "manifests", "publish", "unregister", "archive", "probe",
                     "write", "restart"}
  /\ AfterFailure(q)
  /\ UNCHANGED <<expired, db, plan, git, cluster, secret, history>>

\* The single replica stops; its replacement starts with no handler and no key.
Crash ==
  /\ expired # {} \/ \E q \in Requests : op[q].step # "idle"
  /\ op' = [q \in Requests |-> Idle]
  /\ active' = {} /\ expired' = {}
  /\ UNCHANGED <<db, plan, git, cluster, secret, history>>

-----------------------------------------------------------------------------
(* getCurrentDeployment: the registration file, then the Application       *)

ReadRegistration(q) ==
  /\ op[q].step = "registration"
  /\ op' = [op EXCEPT ![q] = [@ EXCEPT !.step = "application",
                                       !.reg = registration[op[q].user]]]
  /\ UNCHANGED <<active, expired, db, plan, git, cluster, secret, history>>

\* Mutant: only the registration file is asked, not Argo CD.
FreshWithoutFile(o) == o.reg = NoReg

\* Neither a registration nor an Application being deleted.
Fresh(o) == o.reg = NoReg /\ argo[o.user] = None

\* Mutant: any registered app may be redeployed over.
AnyRegistered(o) == o.reg # NoReg

Current(o) == o.reg.app = o.app

\* A first deployment asks for admission; an existing one of this app does not;
\* one being deleted, or of another app, is refused.  Environment changes need
\* the app registered.
ReadApplication(q) ==
  LET o == op[q]
  IN /\ o.step = "application"
     /\ \/ o.kind = "register" /\ Fresh(o) /\ Go(q, "metrics")
        \/ o.kind = "register" /\ Current(o) /\ Go(q, "claim")
        \/ o.kind = "register" /\ ~Fresh(o) /\ ~Current(o) /\ End(q)
        \/ o.kind = "env" /\ Current(o) /\ Go(q, "write")
        \/ o.kind = "env" /\ ~Current(o) /\ End(q)
     /\ UNCHANGED <<expired, db, plan, git, cluster, secret, history>>

-----------------------------------------------------------------------------
(* DeploymentAdmissionService.reserve                                      *)

\* A login that still has its row gets no new one.
WithinBound(u) == clock < MaxStamp \/ Reserved(u) # {}

\* Every query is evaluated at one instant.
ReadMetrics(q) ==
  /\ op[q].step = "metrics"
  /\ WithinBound(op[q].user)
  /\ op' = [op EXCEPT ![q] = [@ EXCEPT !.step = "admit", !.seen = scraped]]
  /\ UNCHANGED <<active, expired, db, plan, git, cluster, secret, history>>

\* Mutant: rows renamed with a deleted account are taken for stale ones.
UnobservedOfAccounts(u, seen) ==
  {r \in reservations : ~r.anon /\ ~Observed(r, seen)} \ Reserved(u)

\* Reservations the snapshot does not show yet, the requester's own aside.
Unobserved(u, seen) ==
  {r \in reservations : ~Observed(r, seen)} \ Reserved(u)

\* Mutant: the newcomer itself is not counted.
FitsWithoutNewcomer(u, seen) ==
  Cardinality(seen) * PodUnits + Cardinality(Unobserved(u, seen)) * ReserveUnits
    + Headroom <= Allocatable

Fits(u, seen) ==
  Cardinality(seen) * PodUnits + (Cardinality(Unobserved(u, seen)) + 1) * ReserveUnits
    + Headroom <= Allocatable

\* INSERT ... ON CONFLICT(login) DO NOTHING, after the observed rows are dropped.
RowsAfter(u, seen) ==
  {r \in reservations : ~Observed(r, seen)} \cup
  IF Reserved(u) = {} THEN {[user |-> u, stamp |-> clock + 1, anon |-> FALSE]} ELSE {}

Admit(q) ==
  LET u == op[q].user
      seen == op[q].seen
  IN /\ op[q].step = "admit"
     /\ u \notin seen /\ Fits(u, seen)
     /\ WithinBound(u)
     /\ reservations' = RowsAfter(u, seen)
     /\ clock' = IF Reserved(u) = {} THEN clock + 1 ELSE clock
     /\ counted' = (counted \cup {v \in Users : v \in seen /\ Reserved(v) # {}}) \ {u}
     /\ blind' = (blind \/ \E v \in counted \ seen : Registered(v))
     /\ Go(q, "claim")
     /\ UNCHANGED <<expired, present, allowed, slug, plan, git, cluster, secret>>

\* NAMESPACE_NOT_CLEARED or CAPACITY_UNAVAILABLE.
Decline(q) ==
  /\ op[q].step = "admit"
  /\ op[q].user \in op[q].seen \/ ~Fits(op[q].user, op[q].seen)
  /\ End(q)
  /\ UNCHANGED <<expired, db, plan, git, cluster, secret, history>>

-----------------------------------------------------------------------------
(* registerForUser                                                         *)

BeginRegister(q, u) ==
  /\ u \in present \cap allowed
  /\ \E a \in Apps, s \in Slugs \cup {None}, d \in Detections :
       Begin(q, [Idle EXCEPT !.kind = "register", !.user = u, !.step = "registration",
                             !.app = a, !.slug = s, !.detected = d])
  /\ UNCHANGED <<expired, db, plan, git, cluster, secret, history>>

\* resolveSubdomain: the host the platform says an app has.
HostOf(u, a) == IF slug[u] = None THEN DefaultHost[u][a] ELSE slug[u]

\* Mutant: a slug another user owns counts as this user's.
ClaimHostUnchecked(q) ==
  LET o == op[q]
      taken == \E v \in Users \ {o.user} : slug[v] = o.slug
  IN /\ o.step = "claim"
     /\ op' = [op EXCEPT ![q] = [@ EXCEPT !.step = "storage",
                 !.host = IF o.slug = None THEN HostOf(o.user, o.app) ELSE o.slug]]
     /\ slug' = IF o.slug = None \/ taken THEN slug ELSE [slug EXCEPT ![o.user] = o.slug]
     /\ UNCHANGED <<active, expired, present, allowed, reservations, clock,
                    plan, git, cluster, secret, history>>

\* claimSubdomainOrDefault: the column changes before any repository does.
ClaimHost(q) ==
  LET o == op[q]
      taken == \E v \in Users \ {o.user} : slug[v] = o.slug
  IN /\ o.step = "claim"
     /\ \/ /\ o.slug = None
           /\ op' = [op EXCEPT ![q] = [@ EXCEPT !.step = "storage",
                                                !.host = HostOf(o.user, o.app)]]
           /\ UNCHANGED <<active, slug>>
        \/ /\ o.slug # None /\ ~taken
           /\ op' = [op EXCEPT ![q] = [@ EXCEPT !.step = "storage", !.host = o.slug]]
           /\ slug' = [slug EXCEPT ![o.user] = o.slug]
           /\ UNCHANGED active
        \/ o.slug # None /\ taken /\ End(q) /\ UNCHANGED slug
     /\ UNCHANGED <<expired, present, allowed, reservations, clock,
                    plan, git, cluster, secret, history>>

\* An existing profile keeps its volume class; otherwise detection decides.
EffectiveProfile(existing, detected) ==
  CASE existing # "none" -> existing
    [] existing = "none" /\ detected -> "swkoo-user-quota"
    [] OTHER -> "none"

\* readExistingStorageProfile: a failed read counts as no profile.
ReadStorage(q) ==
  /\ op[q].step = "storage"
  /\ \E existing \in {registration[op[q].user].storage, "none"} :
       op' = [op EXCEPT ![q] = [@ EXCEPT !.step = "source",
                !.profile = EffectiveProfile(existing, op[q].detected)]]
  /\ UNCHANGED <<active, expired, db, plan, git, cluster, secret, history>>

CommitSource(q) ==
  /\ op[q].step = "source"
  /\ source' = source \cup {<<op[q].user, op[q].app>>}
  /\ Answered(q, "ensure")
  /\ UNCHANGED <<expired, db, plan, registration, deployRepo, manifest,
                 cluster, secret, history>>

\* ensureRepoInOrg creates the repository or takes it out of the archive.
EnsureRepo(q) ==
  /\ op[q].step = "ensure"
  /\ deployRepo' = [deployRepo EXCEPT ![op[q].user] = "active"]
  /\ Answered(q, "manifests")
  /\ UNCHANGED <<expired, db, plan, registration, source, manifest,
                 cluster, secret, history>>

CommitManifests(q) ==
  LET o == op[q]
  IN /\ o.step = "manifests"
     /\ deployRepo[o.user] = "active"
     /\ manifest' = [manifest EXCEPT ![o.user] =
                       [app |-> o.app, host |-> o.host, storage |-> o.profile]]
     /\ Answered(q, "publish")
     /\ UNCHANGED <<expired, db, plan, registration, source, deployRepo,
                    cluster, secret, history>>

CommitRegistration(q) ==
  LET o == op[q]
  IN /\ o.step = "publish"
     /\ registration' = [registration EXCEPT ![o.user] =
                           [app |-> o.app, storage |-> o.profile]]
     /\ End(q)
     /\ UNCHANGED <<expired, db, plan, source, deployRepo, manifest,
                    cluster, secret, history>>

-----------------------------------------------------------------------------
(* deleteDeployment and AccountController.deleteAccount                    *)

BeginDelete(q, u) ==
  /\ u \in present \cap allowed
  /\ Begin(q, [Idle EXCEPT !.kind = "delete", !.user = u, !.step = "unregister"])
  /\ UNCHANGED <<expired, db, plan, git, cluster, secret, history>>

\* Without access the teardown is refused and the account goes regardless.
BeginDeleteAccount(q, u) ==
  /\ u \in present
  /\ Begin(q, [Idle EXCEPT !.kind = "account", !.user = u,
                            !.step = IF u \in allowed THEN "unregister" ELSE "anonymise"])
  /\ UNCHANGED <<expired, db, plan, git, cluster, secret, history>>

\* GitHub refuses to delete a file that is not there: a removal made again after a lost
\* answer fails here, and only recovery frees the reservation.
CommitRemoval(q) ==
  /\ op[q].step = "unregister" /\ Registered(op[q].user)
  /\ registration' = [registration EXCEPT ![op[q].user] = NoReg]
  /\ counted' = counted \ {op[q].user}
  /\ Answered(q, "archive")
  /\ UNCHANGED <<expired, db, plan, source, deployRepo, manifest,
                 cluster, secret, blind>>

ArchiveRepo(q) ==
  /\ op[q].step = "archive"
  /\ deployRepo' = [deployRepo EXCEPT ![op[q].user] =
                      IF @ = "active" THEN "archived" ELSE @]
  /\ Go(q, "finish")
  /\ UNCHANGED <<expired, db, plan, registration, source, manifest,
                 cluster, secret, history>>

\* releaseAdmissionReservation comes last.
FinishDelete(q) ==
  /\ op[q].step = "finish"
  /\ reservations' = reservations \ Reserved(op[q].user)
  /\ IF op[q].kind = "account" THEN Go(q, "anonymise") ELSE End(q)
  /\ UNCHANGED <<expired, present, allowed, slug, clock, plan, git, cluster,
                 secret, history>>

\* Mutant: erasure drops the reservation with the account.
RowsDropped(u) == reservations \ Reserved(u)

\* The reservation is kept under the placeholder name.
RowsRenamed(u) ==
  (reservations \ Reserved(u)) \cup {[r EXCEPT !.anon = TRUE] : r \in Reserved(u)}

\* Mutant: the erased row keeps its access.
AnonymiseKeepingAccess(q) ==
  LET u == op[q].user
  IN /\ op[q].step = "anonymise"
     /\ reservations' = RowsRenamed(u)
     /\ present' = present \ {u}
     /\ slug' = [slug EXCEPT ![u] = None]
     /\ End(q)
     /\ UNCHANGED <<expired, allowed, clock, plan, git, cluster, secret, history>>

\* softDeleteUser's transaction.
Anonymise(q) ==
  LET u == op[q].user
  IN /\ op[q].step = "anonymise"
     /\ reservations' = RowsRenamed(u)
     /\ present' = present \ {u} /\ allowed' = allowed \ {u}
     /\ slug' = [slug EXCEPT ![u] = None]
     /\ End(q)
     /\ UNCHANGED <<expired, clock, plan, git, cluster, secret, history>>

-----------------------------------------------------------------------------
(* DeploymentRecoveryService                                               *)

Clear(u, probe) ==
  CASE probe = "registration" -> ~Registered(u)
    [] probe = "application" -> argo[u] = None
    [] probe = "namespace" -> u \notin namespaces
    [] probe = "volumes" -> u \notin volumes

\* GET: no lock.  A releasable plan's digest tells only its reservation apart.
Inspect(u) ==
  /\ "release" \in Operations
  /\ \A probe \in Probes : Clear(u, probe)
  /\ \E r \in Reserved(u) : plan[u] # r.stamp /\ plan' = [plan EXCEPT ![u] = r.stamp]
  /\ UNCHANGED <<op, active, expired, db, git, cluster, secret, history>>

BeginRelease(q, u) ==
  /\ plan[u] # 0
  /\ Begin(q, [Idle EXCEPT !.kind = "release", !.user = Admin, !.step = "probe",
                            !.target = u, !.digest = plan[u], !.todo = Probes])
  /\ UNCHANGED <<expired, db, plan, git, cluster, secret, history>>

Probed(o, probe) ==
  [o EXCEPT !.todo = @ \ {probe}, !.clear = @ /\ Clear(o.target, probe)]

\* release() inspects again: parallel reads, answered in any order.
Probe(q, probe) ==
  /\ op[q].step = "probe" /\ probe \in op[q].todo
  /\ op' = [op EXCEPT ![q] = Probed(op[q], probe)]
  /\ UNCHANGED <<active, expired, db, plan, git, cluster, secret, history>>

\* The row the plan named, found again, and nothing left: delete it; else refuse.
Recover(q) ==
  LET o == op[q]
      named == {r \in Reserved(o.target) : o.clear /\ r.stamp = o.digest}
  IN /\ o.step = "probe" /\ o.todo = {}
     /\ reservations' = reservations \ named
     /\ End(q)
     /\ UNCHANGED <<expired, present, allowed, slug, clock, plan, git, cluster,
                    secret, history>>

-----------------------------------------------------------------------------
(* EnvService.setEnv behind the controller's check                         *)

BeginEnv(q, u) ==
  /\ u \in present \cap allowed
  /\ \E a \in Apps : Begin(q, [Idle EXCEPT !.kind = "env", !.user = u,
                                            !.step = "registration", !.app = a])
  /\ UNCHANGED <<expired, db, plan, git, cluster, secret, history>>

WriteEnv(q) ==
  /\ op[q].step = "write"
  /\ op[q].user \in namespaces
  /\ secret' = [secret EXCEPT ![op[q].user] = op[q].app]
  /\ Answered(q, "restart")
  /\ UNCHANGED <<expired, db, plan, git, cluster, history>>

TriggerRestart(q) ==
  /\ op[q].step = "restart"
  /\ End(q)
  /\ UNCHANGED <<expired, db, plan, git, cluster, secret, history>>

-----------------------------------------------------------------------------
(* Accounts: sign-in and the admin's allowlist take no lock                *)

\* upsertUser makes a new row with a new id; the allowlist seed may admit it.
SignIn(u) ==
  /\ "account" \in Operations /\ u \notin present
  /\ present' = present \cup {u}
  /\ allowed' \in {allowed, allowed \cup {u}}
  /\ UNCHANGED <<op, active, expired, slug, reservations, clock, plan, git,
                 cluster, secret, history>>

SetAllowed(u) ==
  /\ "access" \in Operations /\ u \in present
  /\ allowed' = IF u \in allowed THEN allowed \ {u} ELSE allowed \cup {u}
  /\ UNCHANGED <<op, active, expired, present, slug, reservations, clock, plan,
                 git, cluster, secret, history>>

-----------------------------------------------------------------------------
(* CleanupService.cleanupArchivedDeployRepos, outside the lock             *)

\* Any archived repository may be past the 30 days when the cron lists them.
ListArchived ==
  /\ "cleanup" \in Operations /\ expired = {}
  /\ expired' \in SUBSET {u \in Users : deployRepo[u] = "archived"} \ {{}}
  /\ UNCHANGED <<op, active, db, plan, git, cluster, secret, history>>

\* One repository of the list; a token or a call that fails skips it.
DeleteExpired(u) ==
  /\ u \in expired
  /\ expired' = expired \ {u}
  /\ \/ /\ deployRepo' = [deployRepo EXCEPT ![u] = "absent"]
        /\ manifest' = [manifest EXCEPT ![u] = NoManifest]
     \/ UNCHANGED <<deployRepo, manifest>>
  /\ UNCHANGED <<op, active, db, plan, registration, source, cluster, secret, history>>

-----------------------------------------------------------------------------
(* Argo CD, the cluster and Prometheus                                     *)

External == <<op, active, expired, db, plan, git, history>>

\* The ApplicationSet makes one Application per registration file.
CreateApplication(u) ==
  /\ Registered(u) /\ argo[u] = None
  /\ argo' = [argo EXCEPT ![u] = registration[u].app]
  /\ UNCHANGED <<External, draining, namespaces, pods, volumes, scraped, secret>>

\* Sync from the deploy repository; an archived one can still be read.
SyncApplication(u) ==
  /\ argo[u] # None /\ u \notin draining /\ manifest[u] # NoManifest
  /\ u \notin pods \/ (manifest[u].storage # "none" /\ u \notin volumes)
  /\ namespaces' = namespaces \cup {u} /\ pods' = pods \cup {u}
  /\ volumes' = IF manifest[u].storage = "none" THEN volumes ELSE volumes \cup {u}
  /\ UNCHANGED <<External, argo, draining, scraped, secret>>

PruneApplication(u) ==
  /\ ~Registered(u) /\ argo[u] # None /\ u \notin draining
  /\ draining' = draining \cup {u}
  /\ UNCHANGED <<External, argo, namespaces, pods, volumes, scraped, secret>>

\* The finalizer removes what the Application deployed before the Application.
RemoveNamespace(u) ==
  /\ u \in draining \cap namespaces
  /\ namespaces' = namespaces \ {u} /\ pods' = pods \ {u}
  /\ secret' = [secret EXCEPT ![u] = None]
  /\ UNCHANGED <<External, argo, draining, volumes, scraped>>

RemoveApplication(u) ==
  /\ u \in draining \ namespaces
  /\ argo' = [argo EXCEPT ![u] = None]
  /\ draining' = draining \ {u}
  /\ UNCHANGED <<External, namespaces, pods, volumes, scraped, secret>>

\* A released volume is reclaimed some time after its namespace.
RemoveVolume(u) ==
  /\ u \in volumes \ namespaces
  /\ volumes' = volumes \ {u}
  /\ UNCHANGED <<External, argo, draining, namespaces, pods, scraped, secret>>

\* A Recreate rollout or an eviction leaves a namespace without pods for a while.
LosePods(u) ==
  /\ "churn" \in Operations /\ u \in pods
  /\ pods' = pods \ {u}
  /\ UNCHANGED <<External, argo, draining, namespaces, volumes, scraped, secret>>

Scrape ==
  /\ scraped # pods
  /\ scraped' = pods
  /\ UNCHANGED <<External, argo, draining, namespaces, pods, volumes, secret>>

-----------------------------------------------------------------------------

Begins(q, u) == \/ BeginRegister(q, u) \/ BeginDelete(q, u) \/ BeginDeleteAccount(q, u)
                \/ BeginRelease(q, u) \/ BeginEnv(q, u)

RegisterStep(q) == \/ ReadRegistration(q) \/ ReadApplication(q) \/ ReadMetrics(q)
                   \/ Admit(q) \/ Decline(q) \/ ClaimHost(q) \/ ReadStorage(q)
                   \/ CommitSource(q) \/ EnsureRepo(q) \/ CommitManifests(q)
                   \/ CommitRegistration(q)

DeleteStep(q) == \/ CommitRemoval(q) \/ ArchiveRepo(q) \/ FinishDelete(q)
                 \/ Anonymise(q)

EnvStep(q) == WriteEnv(q) \/ TriggerRestart(q)

ReleaseStep(q) == (\E probe \in Probes : Probe(q, probe)) \/ Recover(q)

Handler(q) == Fail(q) \/ RegisterStep(q) \/ DeleteStep(q) \/ EnvStep(q) \/ ReleaseStep(q)

Cleanup == ListArchived \/ \E u \in Users : DeleteExpired(u)

ClusterStep(u) == \/ CreateApplication(u) \/ SyncApplication(u) \/ PruneApplication(u)
                  \/ RemoveNamespace(u) \/ RemoveApplication(u) \/ RemoveVolume(u)

Next == \/ \E q \in Requests : (\E u \in Users : Begins(q, u)) \/ Handler(q)
        \/ \E u \in Users : Inspect(u) \/ SignIn(u) \/ SetAllowed(u)
        \/ \E u \in Users : ClusterStep(u) \/ LosePods(u)
        \/ Scrape \/ Cleanup \/ Crash

Spec == Init /\ [][Next]_vars

-----------------------------------------------------------------------------
(* Safety                                                                  *)

\* Every row of admission_reservations was granted within the node's capacity:
\* the rows together never promise more than what is left above the headroom.
ReservationsFit ==
  Cardinality(reservations) * ReserveUnits + Headroom <= Allocatable \/ reservations = {}

\* The ledger covers what git deploys: a registered app is held by a reservation
\* (perhaps renamed with its deleted account) until an admission has seen its pods.
Accounted ==
  \A u \in Users : Registered(u) =>
    u \in counted \/ \E r \in reservations : r.user = u

\* As long as admissions saw every app counted before, registered and reserved apps
\* fit the node together: each weighs a whole reservation until an admission has
\* seen its pods, and what its pods request afterwards.
Live == {u \in Users : Registered(u) \/ Reserved(u) # {}}
CapacityWhenVisible ==
  ~blind => Cardinality(Live \cap counted) * PodUnits
              + Cardinality(Live \ counted) * ReserveUnits
              + Headroom <= Allocatable

\* A registration is published only after its source files and its manifests.
PublishedInOrder ==
  \A u \in Users : Registered(u) =>
    /\ <<u, registration[u].app>> \in source
    /\ deployRepo[u] = "active"
    /\ manifest[u].app = registration[u].app

\* "One app per account": a registered app is never replaced by another one, and a
\* registration appears only where nothing of an earlier deployment is left to drain.
OneApp ==
  [][\A u \in Users : Registered(u)' =>
       IF Registered(u) THEN registration'[u].app = registration[u].app
       ELSE argo[u] = None /\ u \notin namespaces]_vars

\* An app's first registration is published with manifests for the very host the
\* platform reports, unless the cron has deleted them (RegisteredKeepsRepo): the slug
\* claimed at the start is still the account's own.
PublishedHostIsClaimed ==
  [][\A u \in Users : ~Registered(u) /\ Registered(u)' /\ manifest[u] # NoManifest =>
       manifest[u].host = HostOf(u, manifest[u].app)]_vars

\* Recovery deletes a reservation only while that login has no registration, no
\* Application and no namespace, and only the one the admin reviewed.
RecoveryIsSafe ==
  [][\A r \in reservations \ reservations' :
       (\E q \in Requests : op[q].kind = "release" /\ op'[q].kind # "release") =>
         /\ \A probe \in Probes \ {"volumes"} : Clear(r.user, probe)
         /\ plan[r.user] = r.stamp]_vars

\* What a removal still does after its commit, to the repository and the reservation, it
\* never does to an app that is registered: not after a failed or lost commit, nor to a
\* registration that follows an erasure and a new sign-in.
RemovalTakesItsOwn ==
  [][\A u \in Users : Registered(u)' =>
       /\ deployRepo[u] = "active" => deployRepo'[u] # "archived"
       /\ (\E q \in Requests : op[q].step = "finish" /\ op'[q] # op[q]) =>
            Reserved(u)' = Reserved(u)]_vars

\* Environment values go only to the app the account has registered.
EnvOnlyForRegisteredApp ==
  [][\A u \in Users : secret'[u] # secret[u] /\ secret'[u] # None =>
       registration[u].app = secret'[u]]_vars

-----------------------------------------------------------------------------
(* The interceptor's promise: this specification implements KeyedMutex     *)

HeldKeys == [q \in Requests |->
               IF op[q].step = "idle" THEN {} ELSE Keys(op[q].user, op[q].kind)]

Mutex == INSTANCE KeyedMutex WITH
           Processes <- Requests, held <- HeldKeys,
           KeySets <- {{a} : a \in Accounts} \cup {{a, Registration} : a \in Accounts}

\* Mutations take all their keys or none and give back exactly those, when they settle.
ImplementsKeyedMutex == Mutex!LockSpec

\* At most one registration, removal, erasure or recovery runs at a time, one mutation
\* per account, and the interceptor's Set holds what running handlers hold.
RegistrationSerialised == Mutex!LockInv

-----------------------------------------------------------------------------
(* What comments and documents say that the code does not keep             *)

\* deploy.service: the storage profile of a registered app is never silently dropped
\* or moved to another volume class by a redeploy.
StoragePreserved ==
  [][\A u \in Users : Registered(u) /\ Registered(u)' /\ registration[u].storage # "none" =>
       registration'[u].storage = registration[u].storage]_vars

\* cleanup.service: only archived repositories are hard-deleted, so a registered
\* app keeps the repository it is deployed from.
RegisteredKeepsRepo ==
  [][\A u \in Users : Registered(u) /\ deployRepo[u] = "active" =>
       deployRepo'[u] # "absent"]_vars

\* subdomain.ts: two users' registered apps never have the same host.
HostsDistinct ==
  \A u, v \in Users : u # v /\ Registered(u) /\ Registered(v) =>
    manifest[u].host # manifest[v].host
=============================================================================
