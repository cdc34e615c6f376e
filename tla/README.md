# Verification of swkoo-kr

TLA+ models of the deployment service of swkoo-kr (`apps/backend`), TLC configurations that check
them on small instances, and TLAPS proofs of their main properties for every instance. Paths below
are relative to the repository root (`src/` of a checkout); `deploy.service.ts` and the like mean
the file of that name under `apps/backend/src`.

1. [The system](#1-the-system): components, state, interactions, what is hard
2. [The modules](#2-the-modules-and-the-code): how state and actions correspond to the code
3. [The runs](#3-the-runs): what TLC checks, with which bounds and why
4. [Findings](#4-findings): where the code and its comments disagree
5. [Fairness](#5-fairness)
6. [The proofs](#6-the-proofs)
7. [What is not modelled](#7-what-is-not-modelled)
8. [Plan](#8-plan)
9. [Running it](#9-running-it)

## 1. The system

swkoo-kr is a self-service platform on one Kubernetes node. A user signs in with GitHub, picks a
repository, and the backend (one replica, NestJS on Node, SQLite) commits build files to the user's
repository, manifests to the deploy repository `swkoo-deploy/<login>`, and a registration file
`deploy/users/<login>.yaml` to the branch `deployment-data` of the control repository. An Argo CD
ApplicationSet turns registration files into Applications, which deploy the manifests into the
namespace `user-<login>`. Everything the backend does to the outside goes through HTTP calls that
may fail, or take effect and lose their answer.

### Components

| component | state | operations | modelled in |
|---|---|---|---|
| Mutation lock (`account-mutation.interceptor.ts`) | a process-local Set of keys | take all keys or answer 409; give them back when the handler settles | `KeyedMutex`, `DeployLifecycle` |
| Deployment registration and removal (`deploy.service.ts`, `github-app.service.ts`, `account.controller.ts`) | files in three kinds of repositories | registerForUser, deleteDeployment, deleteAccount, commitFilesAtomic | `DeployLifecycle`, `GitCommit`, `Manifests` |
| Admission (`deployment-admission.service.ts`) | `admission_reservations` | reserve | `DeployLifecycle`, one resource |
| Reservation recovery (`deployment-recovery.service.ts`) | the digest an administrator reviewed | inspect, release | `DeployLifecycle` |
| Environment variables (`env.service.ts`) | a Secret in the user's namespace | getEnv, setEnv, restart | `DeployLifecycle` (exclusion), `AppPage` (the rest) |
| Retention cron (`cleanup.service.ts`) | the list of one pass | delete archived repositories, purge erased users | `DeployLifecycle`, `AccountSessions` |
| Users, tokens, sessions and audit (`users.repository.ts`, `auth.service.ts`, `auth.controller.ts`) | `users`, `sessions`, tokens, `audit_log`, two cookies | sign-in, token refresh, consent, allowlist, erasure, purge | `AccountSessions`, `SignInCookies`, `ConsentGate`, `DeployLifecycle` (slugs, access) |
| Custom domains (`domain/`) | `custom_domains`, the certificate cache | register, verify, delete, get | `CustomDomain`, one app per account |
| Deploy notifications (`deploy-notifications.service.ts`) | `deploy_notifications`, sent marks | check readiness, queue, send, record | `DeployNotifications` |
| Security patch (`security-patch.service.ts`) | `security_patch_plans`, the busy flags | prepare, status, createPr, prune | `SecurityPatch` |
| Source setup (`source-setup.ts`) | - | inspect, createMissing, createPr | `GitCommit`, `DeployPage` |
| Deploy status, readiness and diagnostics (`deploy-status.service.ts`) | - | one answer from six reads | `DeployStatus`, without the diagnosis |
| Repository scan and stack detection (`scan.service.ts`, `deploy.service.ts`) | `scan_results`; - | the daily scan; the checklist of a repository | `ImageScan`, `StackCheck` |
| Templates and storage profiles (`templates.ts`, `subdomain.ts`) | - | manifests, quota, Dockerfile, volume class, host names | `Manifests`, `StackCheck`, `DeployLifecycle` |
| Pipelines and provenance (`pipelines/`) | a cache, an Argo CD session, `image_provenance` | list applications, trace an image to a commit | `PipelineList`, `Provenance` |
| Alerts, events, webhooks (`alerts/`, `events/`, `webhooks/`) | a cache, `deployment_events` | ingest a report, summarise a pipeline, list alerts | `EventFeed`, `AlertList` |
| Backup (`backup.service.ts`) | files | copy on a schedule | no |
| Overview, health, metrics, Kubernetes client | - | stateless reads | no |
| Frontend (`apps/frontend`) | component state, SWR caches | render, poll, call the API | `DeployPage`, `AppPage`, `DomainPanel`, `ConsentGate` |
| Operation scripts and storage quota (`scripts/ops`, `deploy/storage`) | registry tags, XFS project quotas | retention, quota set-up | no |

### How they interact

- **The lock** is an interceptor around HTTP handlers: it knows nothing of what they do. Register,
  delete, account deletion and recovery take the account's key and the shared key of the
  registration branch; environment changes and the mutations of a custom domain take the account's
  key only. GETs, sign-in, the administrator's allowlist and the cron take none.
- **Registration** calls the current-deployment check (registration file, then the Application), the
  admission service for a first deployment, the `users` table for the host, then commits to the
  source repository, the deploy repository and the registration branch, in this order. A redeploy
  also asks the domain service which custom domain the manifests must keep.
- **Removal** commits to the registration branch, drops the domain's row, archives the deploy
  repository (best effort) and releases the reservation. **Account deletion** runs the removal, goes
  on if it failed, and renames what is left of the account in one transaction.
- **SQLite** is the shared memory of these services; every statement between two awaits is atomic,
  as Node runs one callback at a time.
- **Argo CD, the cluster, Prometheus, cert-manager and DNS** react in their own time. The backend
  learns of them only by reading them.
- **The pages** hold what they last read (SWR keeps it per key and reads it again after a mutation,
  on reconnection or on an interval) and act on it; the handlers behind them check what they can.
- **Crons** in the backend send mails every minute, prune patch plans every hour, scan, purge and
  delete every day. They take no lock.

### What is hard, and what makes the parts correct

*Mutation lock.* Handlers interleave at every await. Correct: no two mutations of an account, no two
writers of the registration branch; a key is free exactly when no running handler holds it; a crash
frees all of them. That a handler ends, and gives its keys back, cannot be said: the calls it makes
under the lock have no time limit (section 5).

*Registration and removal.* Three commits in three repositories with no transaction around them; any
may fail or lose its answer, and the process may stop between two. Correct: a registration is never
ahead of its source files and manifests; one app per account; no registration into resources that
are still draining; storage once granted is kept; what a removal still does after its commit, or
after the failure of one, never reaches an app that is registered; the host reported is the host
deployed, and belongs to one user.

*Admission.* The capacity of the node is judged on metrics that lag behind. Correct: reservations
never promise more than the node has, and everything that git deploys is covered by a reservation
until it has been seen in the metrics.

*Recovery.* An administrator releases a reservation on four reads made in parallel. Correct: only of
a login whose deployment is gone, and only the reservation that was reviewed.

*Environment variables.* Checked against the current app, written some awaits later. Correct: values
go to the app they were checked against.

*Cron.* Reads a list, then works through it outside the lock. Correct: a repository in use survives.

*Custom domains.* A GET updates the row it remembers, without the lock; a commit and the record of it
are two steps; the certificate belongs to the app, not to the domain. Correct: what is routed was
proved by DNS for the very row, with its token, in whose name it is routed, a redeploy neither drops
an applied domain nor brings back another, a domain is not reported gone while it is routed, nor
active before it has a certificate.

*Git commits.* A commit reads the head of a branch, builds a tree over several calls and moves the
branch forward; the owner and other handlers commit in between. Correct: nobody's change is lost, a
setup only adds files and only to the reviewed head, one plan makes one pull request.

*Manifests in the cluster.* Deployments, removals, domains and new images of one account are applied
by controllers that share a quota of two app pods. Correct: whatever stops halfway, what the
repository says comes to run.

*Accounts.* Sign-ins and token refreshes of one account overlap, their answers are lost, the erasure
comes in between, and logins change hands on GitHub. Correct: no session or login outlives its row,
the refresh token kept is one GitHub accepts, and what an account entered in the audit log under its
login goes with its row, as far as the code finds it: other spellings, earlier logins and late entries
stay (section 7). Tabs share cookies and hold answers of any age. Correct: a sign-in lands where it
began, and the policies agreed to are the ones on the screen.

*Notifications.* A mail is sent and then recorded, through a provider that remembers keys for a day.
A tick looks at an image only while its build is a success, and any of its reads may fail or hang.
Correct: one mail per image, nothing recorded that was not delivered, and an image that ticks go on
finding in order is announced or given up, not retried for ever.

*Security patch.* Jobs, branches and pull requests are made over calls whose answers are lost, while
the account may be erased. Correct: one pull request per plan, a recorded one stays recorded, the
plan of an erased account does not stay.

*Answers put together from many reads* (status, checklist, provenance, lists, alerts, summaries).
The systems behind them move between two reads; requests overlap over one cache or table. Correct:
live means the latest build, a green checklist builds, a verified row is not replaced by an estimate
made later, a list is as fresh as it says and empty without cause only if the answer behind it was no
list, the numbers of a summary fit each other and the events.

*Daily scans.* One run works through all accounts, with Jobs that fail or hang. Correct: the failure
of one account leaves the others alone, and a report is read before its Job goes.

*Pages.* What a user agreed to or was told may be stale by the time it is acted on. Correct: a
repository is changed only from the plan that was shown when the user agreed; variables reported as
saved reach the pods; a panel in sight shows in the end that its domain is no longer being applied.

`PROJECT.json` lists every hazard at its line with the properties that cover it, and says what they
leave open.

## 2. The modules and the code

| module | what it is |
|---|---|
| `KeyedMutex` | the abstract lock: who holds which keys |
| `DeployLifecycle` | the handlers of registration, removal, account deletion, environment, recovery, the cron, sign-in and access, with Git, Argo CD, the cluster and Prometheus |
| `CustomDomain` | the handlers of a custom domain, what redeploys and removals do to one, DNS, Argo CD and cert-manager |
| `GitCommit` | commits of several writers on one branch, and the setup of a source repository |
| `Manifests` | an account's deploy repository and what its namespace makes of it |
| `AccountSessions`, `SignInCookies`, `ConsentGate` | rows, sessions and tokens; the cookies of a sign-in; the consent to the policies |
| `DeployNotifications`, `SecurityPatch`, `ImageScan` | the crons and the patch plans |
| `DeployStatus`, `StackCheck`, `Provenance`, `PipelineList`, `AlertList`, `EventFeed` | answers put together from reads, caches and tables |
| `DeployPage`, `AppPage`, `DomainPanel` | the pages in front of their handlers |
| `MCDeployLifecycle`, `MCCustomDomain`, `MCServices`, `MCBackground` | values for the constants, symmetry, the choice of a component |
| `KeyedMutexProofs`, `DeployLifecycleProofs`, `RegistrationProofs`, `CustomDomainProofs` | theorems about the core: the lock; types, refinement and ledger; what the keys keep true of a registration; domains |
| `AccountProofs`, `LookupProofs` | theorems about `AccountSessions`, `SignInCookies` and `ConsentGate`; `Provenance`, `StackCheck`, `DeployStatus`, `ImageScan`, `PipelineList`, `AlertList` and `EventFeed` |
| `ServicesProofs`, `BackgroundProofs` | theorems about `GitCommit`, `DeployPage`, `AppPage` and all services of `MCServices` side by side; `SecurityPatch`, `DeployNotifications`, `Manifests`, `DomainPanel` and `MCBackground` |

`PROJECT.json` maps every definition to the lines it stands for.

### Handlers as records

Both detailed modules keep `op[q]`, the handler that request `q` is running: its kind, the step it
is at and its local variables. A step runs from one await to the next. Whatever the code reads
before an await and uses after it is a field of the record (`reg`, `seen`, `profile`, `host`,
`digest`, `row`), never read again. An outside call has three outcomes: it takes effect and answers
(`Go`), takes effect and is reported as a failure, because the answer was lost or timed out (the
second disjunct of `Answered`), or fails without effect (`Fail`). `Crash` puts every handler to
`Idle`, empties the lock, the cron's list and the cache, and leaves SQLite and the outside alone. A
crash in the middle of a call is a crash before or after its effect.

### `KeyedMutex`

`active` is the interceptor's Set, `held[p]` what a process holds. `Acquire` takes a whole key set or
is not enabled (the 409 changes nothing), `Settle` is the `finally`, `Restart` the crash.
`DeployLifecycle` implements it with `held <- HeldKeys`: the keys of the request's kind and account
while its handler runs.

### `DeployLifecycle`

| steps of a handler | code |
|---|---|
| `registration`, `application` (`ReadRegistration`, `ReadApplication`) | `getCurrentDeployment` and the branch on what it found: first deployment, redeploy of the same app, 409 |
| `metrics`, `admit` (`ReadMetrics`, `Admit`, `Decline`) | `DeploymentAdmissionService.reserve`: the queries of one instant, then the synchronous check, release of observed rows and insertion |
| `claim` (`ClaimHost`) | `claimSubdomainOrDefault`, which writes `users.subdomain` before any commit |
| `storage` (`ReadStorage`) | `readExistingStorageProfile`, a failure of which counts as "none", and the choice of the profile |
| `source`, `ensure`, `manifests`, `publish` | the source commit, `ensureRepoInOrg` (creates or unarchives), the manifests, the registration file |
| `unregister`, `archive`, `finish` | `deleteDeployment`: removal commit, archive (failure ignored), release of the reservation |
| `anonymise` | `softDeleteUser`'s transaction, reached also when the removal failed or was refused |
| `probe` | `DeploymentRecoveryService.release`: four reads answered in any order, then the guarded delete |
| `write`, `restart` | `EnvService.setEnv`: the Secret, then the restart of the Deployment |

Without a handler: `Inspect` (the recovery GET, which hands out the digest), `SignIn`, `SetAllowed`,
`ListArchived` and `DeleteExpired` (the cron), and the cluster: `CreateApplication`,
`SyncApplication`, `PruneApplication`, `RemoveNamespace`, `RemoveApplication`, `RemoveVolume`,
`LosePods`, `Scrape`. The cluster is external code; it is modelled from what the backend relies on
when it reads it (an Application outlives its registration file until its resources are gone,
metrics are older than pods, volumes outlive namespaces).

`counted` and `blind` are history variables: which registered apps an admission has seen in its
snapshot, and whether a later admission missed one of them. They change nothing else.

### `CustomDomain`

`row[u]` is the account's row of `custom_domains`, with its AUTOINCREMENT id; `route[u]` the domain
of the Ingress that `kustomization.yaml` of the deploy repository lists; `ingress`, `cert` and `cache`
follow it in the cluster, in cert-manager and in `CertStatusCache`; `cname[d]` and `txt[d]` are the
row whose token the DNS of `d` carries.

| steps | code |
|---|---|
| `lookup` | `DomainService.get`, after the controller has awaited the current deployment |
| `info`, `served` (`ReadCertificate`, `StoreCertificate`) | `toInfo`: a fresh cache entry answers, else the Certificate is read; the answer is cached and may flip the stored row of the remembered id to active |
| `txt`, `cname`, `commit`, `committed` | `verify`: `checkDns`, `commitCustomDomainIngress`, `markApplied` with `updateStatus`; any failure records `error` |
| `uncommit`, `uncommitted`, and `Drop` | `delete`: a row with `applied_commit` is removed from the repository first, another is dropped at once |
| `manifests`, `publish` | the part of `registerForUser` that renders `findForRender`'s row into the rewritten kustomization |
| `unregister`, `unregistered` | the part of `deleteDeployment` that ends with `deleteByLogin` |

Mutations of one account exclude each other here by `Free`: that the interceptor provides it is what
`DeployLifecycle`'s refinement of `KeyedMutex` shows. A GET starts at any time. `proven` (the ids of
rows whose own token the DNS carried when it was looked up), `routedFor` (the row in whose name the
Ingress was last committed) and `issued` are history variables.

### The services

The modules below have one variable or record per request under way (`call`, `task`, `run`, `poll`,
`resolving`, `listRequest`, ...), with the step it is at and what it has read. Here a call to the
outside is cut where it matters: served, and answered or not.

| module | state | actions and code |
|---|---|---|
| `GitCommit` | `commits`: the trees the branch has had; `run[w]`: the handler; `proposal`, `request`: branch and pull request of a plan | `ReadRef`, `BuildCommit`, `MoveBranch`: `commitFilesAtomic`, with `FastForward` the PATCH GitHub refuses when the branch has moved; `Inspect`, `StartSetup`: the reviewed head; `FindSetupPull` to `OpenSetupPull`: `createPr`; the owner pushes and changes proposals |
| `Manifests` | `files`, `listed`, `stateful`: the repository; `change`: the mutation under way; `live`, `objects`, `pods`, `solver`: the namespace | `CommitManifests`, `Unregister`, `CommitIngress`, `CommitRemoval`: what each commit puts, keeps and deletes; `Sync` fails while the list names a missing file; `StartPod` and `StartSolver` wait for the quota |
| `AccountSessions` | `users` by row id, `sessions`, `audit`, GitHub's `valid` refresh tokens, `call[q]` | `StartExchange` .. `SignIn`, `StartRefresh` .. `SaveRefreshed` (a call served, then its answer, which `LoseAnswer` drops), `Logout`, `AcceptConsent`, `StartWork`/`FinishWork` (any other audited request, which enters its act under any spelling of the login it began with, whatever has become of the row), `PatchUser`, `Reboot` (the allowlist of the environment), `StartErasure`/`FinishErasure`, `Purge`; logins change on GitHub |
| `SignInCookies` | the two cookies of the browser, `tab[t]` | `startOauth`, `startInstall`, `Callback` (the request with the cookies of its moment), `CallbackAnswers` (the answer, which clears them) |
| `ConsentGate` | the current and the accepted version, `view[t]`: page, answer of `/auth/me`, box | `MeArrives`, `TickPolicies`, `HandleAccept`, `ServeConsent`, `Accepted`; a new backend brings a new version |
| `DeployNotifications` | the row per digest, the tick, the provider's keys with their age; the ready image, and whether the head is built and into it | `StartTick`, `ReadReadyDigest`, `ReadStages` (every stage a success, for the same digest), `Dispatch` (queue, window, attempt), `Serve`, `RecordSent`, `SendFails`; `BuildChanges`: a push, a failed build, a token of no more use |
| `SecurityPatch` | `plan`, `busy`, `task[u]`, jobs, branches, pulls | the awaits of `prepare`, `status` and `createPr`; `Prune`, `EraseOwner`, `PatchCrash` |
| `ImageScan` | the run of the cron, the Job, the newest row per account | `StartScans`, `ReadCurrent`, `ReadPodImages`, `CreateScanJob`, waiting, reading the log, deleting the Job, `StoreResult`; `UserFails`, `ScanCrash` |
| `DeployStatus` | head, builds, images, Argo CD's and the controller's last word, pods, `poll` | one action per read of `getStages`, `Conclude` for what follows from them |
| `StackCheck` | the branch as far as it is looked at, the check with its rows | one action per read of `detectStack` and one per failure; `BuildNeeds` is what the rendered Dockerfile and workflow ask for |
| `Provenance` | versions and runs on GitHub, `row[d]`, the step of every entry of every request | `Cached`/`isStale`, `GetToken`, `ListVersions`, `FetchRun`, `TimeWindow`, each ending in the upsert `Persist` |
| `PipelineList`, `AlertList` | the cache with the time it claims, `listRequest[v]`, `alertRequest[v]`; what there was since when | `GetPipelines`, `ListApplications`, `RefreshSession` (one retry after a 401), `Fill`; `GetActiveAlerts`, `ListAlerts`, `FillAlerts`; an answer 200 that is no list is an empty list (`PayloadUnexpected`, and a disjunct of `ListAlerts`) |
| `EventFeed` | what happened, what is on the wire, the rows | arrivals in any order, once, twice or never; `Summary` is the query and the loop of `events.repository`, as a recursive function over the rows (`LoopAfter`, with `Turn`) |
| `DeployPage` | the branch, the session, what the page keeps per repository, the box, requests | `Select`, `PlanArrives`, `AskAgain`, `TickConsent`, `Deploy`, `AnswerArrives`; `ReviewPlan` and `Change` are the handler's two looks at the head |
| `AppPage` | registration, namespace (Secret, pods), the save being served, `appTab[t]` | `ReadEnv`, `EditRows`, `SaveRows`, `ServePut`, then `CheckCurrent`, `ReplaceSecret`, `PatchRestart`, `AnswerPut`; lost answers, failures, `RemoveApp` |
| `DomainPanel` | the row, the certificate, `panel[t]` | what each state of the panel may send; what SWR does: `Poll` while a visible tab shows applying and no error, `Retry` after a failed read, `Return` to a hidden tab; handlers are one step here (`RemovalFails` and `RequestFails` among them), their awaits are in `CustomDomain` |

Variables marked *history* in a module record what the properties compare with.

## 3. The runs

Runs of `DeployLifecycle` and `CustomDomain` check for deadlock. `services`, `background` and
`rollouts` do not: their components stop by themselves when pushes, images or rows have reached their
bounds, or when a request is answered. Passing runs:

| run | properties | shows |
|---|---|---|
| `lifecycle_safety` | `TypeOK`, `ReservationsFit`, `Accounted`, `CapacityWhenVisible`, `ImplementsKeyedMutex` | two accounts register, remove and erase themselves on a node with room for one reservation, with pods that come and go: the ledger and the published apps fit the node, the interceptor is an exclusive keyed lock |
| `lifecycle_apps` | `PublishedInOrder`, `OneApp`, `EnvOnlyForRegisteredApp`, `RecoveryIsSafe`, `RemovalTakesItsOwn` | one account with two repositories registers, removes, erases itself and sets variables while its access is switched and an administrator recovers its reservation |
| `hosts` | `PublishedHostIsClaimed` | two accounts claim a slug that is the default host of one of them, one request after the other, beside the retention cron: a first publication carries the host the platform reports |
| `domains` | `TypeOK`, `RouteProven`, `ShownIsRecorded`, `RedeployKeepsDomain`, `GoneMeansUnrouted` | an account with a grandfathered domain verifies, removes, registers anew, redeploys and tears down beside a GET without lock, with crashes, lost answers and DNS that changes |
| `services` | `ServicesTypeOK`, `ErasureComplete`, `ChainUnbroken`, `OneSetupPull`, `SignInHolds`, `LiveIsLatest`, `RunsReachEveryone`, `GreenChecklistBuilds`, `AnsweredWillRun`, `SummaryHolds`, `ListsAsFreshAsSaid`, `ChangedAsAgreed`, `NothingOverwritten`, `VerifiedStands` | thirteen services whose promises are about a state or a step, one at a time |
| `background` | `BackgroundTypeOK`, `MailedOnce`, `OnePullRequest`, `ProposalKept`, `NoteSettles`, `ErasedPlanPruned` | mails and patch plans, with lost answers, requests that hang, builds that fail, restarts and erasure; under fairness |
| `rollouts` | `RolloutGoesOn`, `RolloutsEnd`, `PanelCatchesUp` | manifests on their way into the cluster, and the domain panel in two tabs; under fairness |

`MCServices` and `MCBackground` extend several modules that share no variable. Their `focus` is chosen
in the initial state (`MCBackground`: from `Foci`, which tells `background` and `rollouts` apart), and
a behaviour is one of that module while the others stay as they begin: the state space is the sum of
the components', not their product, and nothing is lost, since no property relates two of them. For
the same reason TLC may tell the states of `services` apart by the variables of the focus alone (`VIEW
MCView`); of the accounts it leaves out `allowed`, which `PatchUser`, `SignIn` and `Reboot` set and no
guard and no other property reads, so that states that differ in it alone have the same future.

`SignInHolds` is `LandsWhereStarted` of `SignInCookies` with `ConsentAsShown` of `ConsentGate`, which
extends it for that; `ListsAsFreshAsSaid` is `AnswerIsAsFreshAsSaid` of `PipelineList` with
`AlertsAsFreshAsSaid` of `AlertList`, which extends that; `ErasureComplete` is `SessionsLive` with
`OwnEntriesFollowTheRow`.

What the less obvious properties say:

- `Accounted` and `CapacityWhenVisible` relate the ledger to what git deploys, which
  `ReservationsFit` alone does not: an app that is registered but not yet seen in the metrics must be
  held by a reservation, through removal, a failed teardown, erasure and a new sign-in.
  `CapacityWhenVisible` is conditional on `~blind`: when an app whose row was released (because its
  pods had been seen) is without pods in a later snapshot, for instance in a Recreate rollout, the
  admission counts it nowhere. The code accepts that; the condition makes the limit explicit, and
  the run reaches `blind` states through `LosePods`.
- `OneApp` is about the moment of publication, many awaits after the check of the Application: a
  registered account keeps its app, and a new registration comes when nothing of an earlier
  deployment is left to drain.
- `RemovalTakesItsOwn` is about the archive and the release of the reservation that follow the commit of
  a removal: not after a commit that failed, also where an account deletion goes on regardless, and not
  to an app that is registered by then, though an erasure and a new sign-in may lie in between.
- `PublishedHostIsClaimed` is about first publications whose manifests are there; the cron may have
  deleted them (finding `repo_deleted`), and the cron is part of the run. For a redeploy the
  corresponding claim is false: the slug is stored before the commits, and when one of them fails the
  account reports a host its manifests do not have.
- `RecoveryIsSafe` demands at the moment of the delete what was read earlier, probe by probe, and in
  any order; it holds because release excludes registration, and because the digest names the
  reservation. Volumes are left out of the claim: nothing in the cluster makes a volume come back
  without its namespace, but a volume probe alone proves nothing about the reservation.
- `RouteProven` demands, of every Ingress in the repository, that the DNS carried the token of the row
  in whose name it was last committed. The proof of an earlier registration of the same domain by the
  same account does not count, nor does a domain that points at the platform with another token.
- `RedeployKeepsDomain` and `GoneMeansUnrouted` are about steps: a route of an applied row changes
  only in a removal of that account; an applied row disappears only with its route, or with the
  whole registration.

- `NothingOverwritten` is about the step that moves the branch, in a state that other commits may
  have changed since the tree was built; for a setup it covers files the owner added after the review.
- `ChainUnbroken` excepts rows for which the answer to a rotation was lost: GitHub has then spent
  the old refresh token, and the user has to sign in again, which the code accepts.
- `OwnEntriesFollowTheRow` is about the entries that `softDeleteUser` can find: of rows whose login never
  changed, in the spelling of the row, written while it was live. All others are in the model too: a
  handler enters its act under any spelling of the login it began with, also after the erasure. The
  property says that the ones that can be found are all found, that no erasure or purge of another
  account takes them, and that none comes back under the login. Its mutant rewrites the lowercased login.
- `NoteSettles` is about images that ticks find in order again and again; a failed build of a later push
  silences the mail of a ready image for as long as it lasts, which the code accepts.
- `ListsAsFreshAsSaid` allows the empty list for an answer that was no list, and for nothing else:
  neither an overlapping request nor the other cache may make a list empty, or older than it says.
- `LiveIsLatest` demands a pod that was ready while the request ran and whose image is of a commit
  no older than the head at its beginning; each read alone may be of an earlier image.
- `GreenChecklistBuilds` excepts the Prisma CLI (a schema that could not be read leaves its row
  out, and the row is content with the client) and branches that were pushed to during the check.
- `SummaryHolds` relates the loop over the rows to the events behind them: recoveries are never
  counted more often than they happened unless a report was repeated or overtaken.
- `VerifiedStands` allows one thing only: a lookup already under way when the image was verified may
  still replace the row.
- `AnsweredWillRun` demands that after an answered save the pods run with those values or newer
  ones, or will be started with them. It says nothing of a save that failed halfway.
- `ChangedAsAgreed` spans the page and the handler: what was shown at the tick, what is kept when
  plans are fetched again, the digest that is sent, the two looks of the handler at the head.
- `MailedOnce` rests on the retry window ending before the provider forgets a key
  (`RetryWindow + SendTime <= KeyRetention`, 23 and 24 hours in the code).
- `RolloutsEnd` says that an account's repository is in the end what runs, infinitely often: a list
  that names a missing file, or a quota without room for the next pod, would stop it. The safety
  beneath it, `RolloutGoesOn`, is checked beside it and proved (section 6).
- `PanelCatchesUp` and `ErasedPlanPruned` are about what no handler is asked to do again: the step to
  active, and the row a slow request stores after the erasure. A tab that is hidden, or that shows the
  error of a failed read, does not poll, and `PanelCatchesUp` promises nothing of one that starts so;
  one that runs into an error on the way is covered, by the retries of SWR.

Violation runs, one property each, are explained in section 4: `storage_dropped`, `repo_deleted`,
`host_shared`, `domain_orphaned`, `domain_active`.

Each property of a passing run has a mutant: an operator with a comment `Mutant:` just before
the definition it replaces (`FitsWithoutNewcomer` for `Fits`, `KeysWithoutRecovery` for `Keys`,
`FlippedAlways` for `Flipped`, ...), a plausible bug under which TLC finds the property violated.

### Bounds

| constant | value | why it is enough |
|---|---|---|
| `Requests` | 2 (1 in `hosts`) | every hazard is a race of two requests, or of one with the cron, the cluster or the administrator, which are no requests; registrations exclude each other by the shared key, so what `hosts` needs is one after the other |
| `Users` | 2 where users compete (capacity, hosts), else 1 | accounts meet only in the shared key, the ledger and the host names |
| `Allocatable` 4, `Headroom` 1, `PodUnits` 1, `ReserveUnits` 2 | | exactly one reservation fits: the second account is admitted only when the first one is seen or gone, and each check is at its limit |
| `MaxStamp` | 2 | two grants in a behaviour: a reservation released and another one made, told apart by the digest. The bound stands in the guard `WithinBound` |
| `Apps` | 2 where an app may replace another, else 1 | |
| `Hosts`, `Slugs` | 2 hosts; none or one may be asked for | in `hosts` and `host_shared` the slug is a user's own default, another user's default, or another user's slug |
| `Detections` | both where storage matters (`storage_dropped`), else one | |
| `Legacy` | a user registered before quotas (`storage_dropped`) | |
| `Operations` | per run | a run enables what its properties are about, so that the rest does not fill the state space |
| `Domains`, `MaxId` | 1 and 2; 2 domains in the violation runs | a removal and a new registration of the same name with a new id; `domain_active` needs two names |
| `Grandfathered` | the account (`domains`) or none | the TXT scheme exists only for rows of that age |
| `services`: `Calls`, `MaxRows`, `MaxGrants`, `Names`, `Lower`, `MaxForeign` | 2 handlers, 2 rows, 3 refresh tokens; a login in 2 spellings; 1 entry that is not a row's own | two overlapping rotations, a rotation and an erasure, an act and an erasure; an account that comes back under a new row; a token rotated twice; an entry in another spelling, or after the erasure |
| `Writers`, `Setups`, `MaxCommits` | 1, 1, 3 | a commit and a setup on one branch, and the owner in between |
| `Tabs`, `ConsentTabs`, `MaxSignIns`, `MaxPolicies` | 2, 2, 3, 2 | two tabs, one of which starts over; one new version |
| `MaxPushes`, `MaxImages` (`services`) | 2, 2 | the image of the commit before is healthy while the next is built |
| `Entries`, `Digests`, `Commits`, provenance `Requests` | 2, 1, 2, 2 | a rollback deploys one image twice; the estimate may name another commit |
| `Viewers`, `CacheTtl`, `MaxTime`, `MaxChanges` | 2, 2, 2, 1 | a slower request fills the cache after a faster one, the entry expires |
| `AlertViewers`, `AlertTtl`, `ListTtl`, `MaxAlertTime`, `MaxTurns`, `Subjects` | 2, 2, 2, 2, 2, 1 | the same, over a list of pipelines that is itself up to a lifetime old |
| `EventWindow`, `MaxEventTime`, `MaxReports`, `MaxArrivals` | 2, 3, 3, 3 | a failure on one side of the window and its success on the other; two failures before a success |
| `Repos`, `PageRequests`, `MaxHeads`, `ToReview` | 2, 1, 2, the second head | another repository is selected, the branch moves once, only the new head asks for review |
| `AppTabs`, `MaxSaves` | 2, 2 | two saves of two tabs, in either order |
| `ScanOrder`, `ScanImages` | 2 accounts, 2 images | one account fails before another; the image changes during the run |
| `background`: `Digests`, `RetryWindow`, `RetryPause`, `KeyRetention`, `SendTime` | 2, 2, 1, 3, 1 | ages in units; two attempts fit the window and the last request may end when the key is forgotten |
| `Owners`, `Proposers`, `PreparingLimit`, `MaxPlans`, `MaxHeads` | 2, 1, 1, 1, 2 | two owners compete for one slot, one goes on to a pull request while the branch moves |
| `rollouts`: `PanelTabs`, `Hosts` | 2, 1 | one tab acts while the other shows an older row |
| `rollouts`: `MaxChanges`, `MaxImages` | 4, 1 | deploy, claim and verify a domain, redeploy or remove; one image built meanwhile |

Requests are symmetric in `lifecycle_safety`, `lifecycle_apps` and the runs of `CustomDomain`; users
are declared symmetric only in `lifecycle_safety`, where they share their default host and nothing
else tells them apart. No symmetry is used for liveness.

## 4. Findings

Each is a run in which TLC finds a behaviour of the code that contradicts a comment of the code.

- `storage_dropped`: a redeploy whose read of the registration file fails takes the account for one
  without storage profile and publishes manifests without the volume, or with the other volume class
  (`deploy.service.ts:942`; the comment at 694-701 promises the profile is never silently dropped).
- `repo_deleted`: the retention cron lists archived repositories once and deletes them one by one.
  One that a registration has meanwhile taken out of the archive is deleted under the registered app
  (`cleanup.service.ts:89`; comment at 19-20).
- `host_shared`: a default host is never reserved, so another user may claim it as a slug
  (`deploy.service.ts:1131`; `subdomain.ts:8-9` says the index on `users.subdomain` enforces
  uniqueness).
- `domain_orphaned`: when the Ingress commit lands and its answer is lost, or the process stops before
  `markApplied`, a removal drops the row and leaves the Ingress routed with nothing left to remove it
  by (`domain.service.ts:306`; comments at 340-343 and 352-353).
- `domain_active`: `toInfo` asks for the Certificate of the app. After a removal and a new
  registration the certificate of the old domain, in the cluster or in the cache, makes the new row
  active (`domain.service.ts:608`; comment at 604-606).

## 5. Fairness

Of the handlers behind the mutation lock nothing is assumed, and no liveness is claimed: the calls to
GitHub and to Kubernetes they make have no time limit (`github-app.service.ts:101-378`,
`deploy.service.ts:954`, `domain.service.ts:586`), so a handler may wait for ever with its keys, and
with the shared key it stops all registrations until the next restart. `DeployLifecycle` and
`CustomDomain` are specifications of safety alone. Nothing is assumed of users, administrators, pushes,
restarts and deliveries anywhere. The fairness of the components of `background` and `rollouts`, each
where it is the focus (`MCFairness`):

- Mail (`MailFairness`): time passes; a request to the provider ends in one of three ways, as it has a
  limit of 10 seconds (`email.service.ts`); and, for each image, the live URL does not fail for ever
  when it is asked again and again (strong fairness of `Dispatch`; the request has a limit of 3
  seconds). The other reads may fail or hang for ever, and the cron need not start: that a tick comes
  as far as the live URL infinitely often is a hypothesis of `NoteSettles`, as is an account that stays
  allowed. Nothing is assumed of the provider: a mail may never be served.
- Patch plans (`PatchFairness`): weak fairness of the hourly `Prune`. A request under way may hang.
- Panel (`PanelFairness`): in a visible tab the interval of SWR fires while it shows a domain being
  applied and no error (`Poll`), and a failed read is tried again (`Retry`: `onErrorRetry` has no last
  time). A read does not fail for ever (strong fairness of `RefreshServed`); browsers give up a read
  that is not answered, which makes it a failed one. The tab may be hidden at any time, which ends the
  obligation, and mutations may hang.
- Manifests (`ManifestsFairness`): Argo CD, the Deployment controller and cert-manager try again for
  ever; a pod that is started becomes ready, one that is replaced stops, a challenge ends. These are
  controllers outside this code; what `RolloutsEnd` asks is whether what the code commits lets them
  finish. Nothing is assumed of the backend's mutations, which may fail or stop anywhere.

## 6. The proofs

Each component's constants have one named assumption (`LifecycleAssumption`, `DomainAssumption`,
`CommitAssumption`, ...): finite users, distinct special values, slugs among the hosts, natural bounds,
and a node that can carry what was deployed before admission existed. `AccountAssumption` says that no
login is a placeholder of the audit log, which has an underscore where a login may have none;
`NotificationAssumption` that the retry window and one request end before the provider forgets a key.
TLC evaluates them in every run that extends the module. Nothing bounds the constants from above: the
theorems hold for any number of users, requests, apps, commits, tabs and so on. The theorems about the
services are about the component alone, under its own specification (`CommitSpec`, `PatchSpec`,
`PageSpec`, ...); `EachAsAlone` is the proof that a behaviour of `MCServices` or `MCBackground` is one
of every such specification (without fairness), so they hold of what the two runs check.

| theorem | states |
|---|---|
| `KeyedMutexProofs!LockSafety` | `LockSpec => []LockInv`: no key has two holders and `active` is exactly what is held |
| `DeployLifecycleProofs!TypeCorrect` | `Spec => []TypeOK` |
| `DeployLifecycleProofs!Refinement` | `Spec => ImplementsKeyedMutex` |
| `DeployLifecycleProofs!Serialised` | `Spec => []RegistrationSerialised` |
| `DeployLifecycleProofs!LedgerFits` | `Spec => []ReservationsFit` |
| `RegistrationProofs!KnowledgeHolds` | `Spec => []LifecycleInv` |
| `RegistrationProofs!AppsAccounted`, `CapacityHolds` | `Spec => []Accounted`, `[]CapacityWhenVisible` |
| `RegistrationProofs!OneAppHolds`, `EnvOnly`, `RecoverySafe`, `RemovalSpares` | `Spec => OneApp`, `EnvOnlyForRegisteredApp`, `RecoveryIsSafe`, `RemovalTakesItsOwn` |
| `RegistrationProofs!PublicationOrdered`, `HostClaimed` | if `"cleanup" \notin Operations`: `Spec => []PublishedInOrder`, `PublishedHostIsClaimed` |
| `CustomDomainProofs!DomainInvariant`, `TypeCorrect`, `RoutesProven`, `ShownRecorded` | `Spec => []DomainInv`, `[]TypeOK`, `[]RouteProven`, `[]ShownIsRecorded` |
| `CustomDomainProofs!MutationsHold` | `Spec => [](DomainInv /\ MutationInv)` |
| `CustomDomainProofs!DomainKept`, `GoneUnrouted` | `Spec => RedeployKeepsDomain`, `GoneMeansUnrouted` |
| `AccountProofs!ErasuresComplete`, `ChainHolds` | `AccountSpec => []ErasureComplete`, `[]ChainUnbroken` |
| `AccountProofs!LandsRight`, `ConsentHolds` | `CookieSpec => []LandsWhereStarted`, `ConsentSpec => []ConsentAsShown` |
| `AccountProofs!SignInRight` | `CookieSpec /\ ConsentSpec => []SignInHolds` |
| `ServicesProofs!CommitsSpare` | `CommitSpec => NothingOverwritten` |
| `ServicesProofs!OneSetupPullPerPlan` | `OneHandler /\ CommitSpec => []OneSetupPull` |
| `ServicesProofs!AgreedOnly`, `AnsweredRuns` | `PageSpec => []ChangedAsAgreed`, `AppPageSpec => []AnsweredWillRun` |
| `ServicesProofs!EachAsAlone` | `MCSpec =>` the specification of each of the thirteen services |
| `ServicesProofs!ServicesTyped` | `MCSpec => []ServicesTypeOK` |
| `BackgroundProofs!OnePullPerPlan`, `RecordedPlanKept` | `PatchSpec => []OnePullRequest`, `PatchSpec => ProposalKept` |
| `BackgroundProofs!OneMailPerImage` | `MailSpec => []MailedOnce` |
| `BackgroundProofs!RolloutsGoOn` | `ManifestsSpec => []RolloutGoesOn` |
| `BackgroundProofs!EachAsAlone` | `MCSpec =>` `MailSpec`, `PatchSpec`, and panel and manifests without their fairness |
| `BackgroundProofs!BackgroundTyped` | `MCSpec => []BackgroundTypeOK` |
| `LookupProofs!VerifiedImages` | `ProvenanceSpec => VerifiedStands` |
| `LookupProofs!GreenChecklist` | `StackSpec => []GreenChecklistBuilds` |
| `LookupProofs!LiveShownIsLatest` | `StatusSpec => []LiveIsLatest` |
| `LookupProofs!EveryoneScanned` | `ScanSpec => []RunsReachEveryone` |
| `LookupProofs!ListsTrue` | `PipelineSpec /\ AlertSpec => []ListsAsFreshAsSaid` |
| `LookupProofs!SummaryTrue` | `EventSpec => []SummaryHolds` |

**The lock.** `LockInv` is inductive with the type invariant. The one interesting case is `Settle`:
removing a holder's keys from `active` frees nothing of another one because holders are disjoint.

**Types of the lifecycle.** `TypeOK` is inductive because it includes `HandlerOK`: which steps belong
to which kind of handler, and which locals are set by then. Without it `CommitManifests` could write
a manifest without host. The steps share lemmas for how a handler moves (`GoOK`, `EndOK`,
`AnsweredOK`); the step lemmas follow the sections of the module.

**Refinement.** A handler step either keeps kind and account and goes on to a step other than idle,
so that `HeldKeys` and `active` stay, or ends the handler, which is `Settle`
(`HandlerKeepsOrSettles`). `Begin` is `Acquire`, `Crash` is `Restart`, every other action leaves the
lock alone. `Serialised` is `LockSafety` with the substitution, through the refinement; no second
invariant is needed.

**The ledger.** `ReservationsFit` is not inductive: `Fits` counts the rows left after the requester's
own is set aside, so the new set has at most one row more only if a login has at most one row.
`LedgerInv` adds `OneRowPerLogin` and finiteness. An admission (`LedgerAdmit`) ends with at most
`Unobserved + 1` rows, which `Fits` bounds; an erasure (`LedgerAnonymise`) maps rows and cannot
increase their number; every other action shrinks the ledger or leaves it.

**Registration.** Most of what could go wrong here is a handler that acts on something it read many
awaits ago. `LifecycleInv` adds to the types, the ledger and the lock what each handler knows
(`Knows`): the registration file it read is still the file (`FileKnown`); a first deployment goes on
only where nothing is left of an earlier one, any other handler works on the registered app
(`AppKnown`); a first deployment holds its row until it is published (`RowHeld`); a removal past its
commit archives what is not registered (`Unregistered`); a recovery's answers still hold, whichever
came first (`ProbesHold`). That is kept by the keys: two running handlers serve different accounts,
and one of them only sets variables (`Excluded`, from `RegistrationSerialised`). So a lemma per
variable says which handlers may change it (`RegistrationChanges`, `LedgerChanges`, ...), and every
other handler keeps what it knows. An Application can come only for a registered account, and a
namespace only with its Application (`NamespaceOwned`), so what a first deployment or a recovery saw
absent stays absent. `OneApp`, `EnvOnlyForRegisteredApp`, `RecoveryIsSafe` and `RemovalTakesItsOwn`
are then a look at the one step that publishes, writes, deletes or archives. TLC finds no violation of
`LifecycleInv` in the instances of `lifecycle_apps`, `lifecycle_safety` and `hosts`.

**Capacity.** `Accounted` is part of `LifecycleInv`: a row is released when the pods are seen, and from
then the app is in `counted`. `WeighedOnce` is the other direction, no app that was seen has a row,
so registered and reserved apps are weighed once each: seen ones by their pods, unseen ones by their
reservation, which is no smaller (`PodUnits <= ReserveUnits`). An admission that misses none of the
seen apps bounds exactly this sum, and what other steps add to it they take from the same place.

**Publication.** `OrderInv` says what a registration has committed by each step (`Prepared`): host,
source files, active repository, manifests of its app. It holds without the retention cron only: with
it the run `repo_deleted` (section 4) shows a repository deleted under a registered app, so the two
theorems have `"cleanup" \notin Operations` as their hypothesis, as `lifecycle_apps` has. Of the host
TLC checks more than that: `PublishedHostIsClaimed` only speaks of manifests that are there, and the
run `hosts` has the cron.

**Domains.** `RouteProven` depends on what slow handlers remember: a redeploy writes the domain it
looked up earlier, a verification the one it started with, each in the name of a row it remembers by
id. `DomainInv` adds `ProofFirst` (the ids of applied rows, and of rows in the hands of handlers at a
step that will write the route, are among the proved ones) and `Remembered` (what a
handler remembers of a row still holds of the row of that id, and rows it remembers as shown were
recorded). The argument is in `Kept`: rows change only in ways under which what is remembered by id
survives, which rests on ids never being used again (`TableOK`). Each handler step then shows that it
changes its own row in such a way (`RowChanged`) and moves itself to a step whose demands it meets
(`Moved`); `ShownIsRecorded` follows as a GET flips only a row that it remembers as recorded. TLC
checked `DomainInv` as an invariant before it was proved.

`RedeployKeepsDomain` and `GoneMeansUnrouted` are about mutations. `MutationInv` says that an account
has one at a time, and what it relies on: a verification, the id of the row; a redeploy past its
lookup, that the domain it will render is the one of the applied row; a removal past its commit, that
nothing is routed; an unregistration past its commit, that the account is not registered. A GET has no
lock, but it changes no domain, no id and no route.

**Accounts.** `RowsApart` (live rows differ in account and login) carries the session half. For the
log, `EntriesNamed` says of the entries that are a row's own, of a row that was never renamed, that
they carry its login while it lives and its placeholder once it is erased; that an erasure under way,
one per row, remembers the login it will rewrite; and that a handler that still has to enter its act
knows a row that was once in use. An entry is its row's own when it is written under the login the row
has at that moment, which no other row has, live or erased; an entry that comes late, or in another
spelling, is nobody's own and can neither be taken for one nor make one false. For the tokens,
`TokensOwned` says that a token is known to one row or to one answer on its way, and that a refresh
asks only with a token of its own row. So a rotation spends the token of no other row, whatever order
the answers are written in, which is `ChainUnbroken`. TLC checked
`AccountInv` on the accounts of the run `services` before it was proved.

**Commits.** A tree is built on a commit that may be old by the time the branch is moved. `BuildInv`
says of every handler past the read of the head that its base is a commit of the branch, for a setup
the reviewed one, and that its tree differs from the base only where the handler may write
(`Confined`). The move is a fast-forward, so the base it succeeds on is the head, and `Spares` follows.
That the branch only grows (`BranchGrows`) keeps the base of everybody else.

**Pull requests.** Both arguments count: one was opened exactly if there is one, open or closed. Past
the search there is none, and what could change that is another request of the same plan: the `busy` flag
excludes it in `SecurityPatch` (`task` holds one task per account), the mutation lock for a setup. In
`GitCommit` that is the hypothesis `OneHandler`; two handlers that both searched, and an owner who closed
the first pull request between them, would open a second. `PatchInv` also says that nobody works on a
recorded plan, which is `ProposalKept`: the only writers of an earlier state are tasks.

**Mails.** A second mail could come only from a request that begins, or is served, after the provider
forgot the key. `MailInv` says that the key is never older than the first attempt that the row
remembers (`KeyInv`), and that a request under way began within the retry window (`SendInv`); with
`RetryWindow + SendTime <= KeyRetention` the key is there when it is needed.

**Lookups.** `VerifiedInv` says what `racing` is for: whoever is resolving an entry of a verified image
was doing so when it was verified, since a lookup starts only from a row that may be stale. `RowsInv`
relates each green row of a checklist to the branch as long as nobody has pushed; a failed read
writes no green row, and a checklist that lacks a row is not all green. `PollInv` follows a status
request: the commit it judges is no older than the head it began with, the image it expects was built
from that commit, and it calls nothing live before it found a pod of that image ready. That newest
runs and versions exist is `LeastElement` and `GreatestElement`, minima and maxima of naturals from
the library's well-founded induction. `ScanInv` says of who is due in a run that it is still to come or
has its row, and that the log is read before the Job goes. `ListInv` and `AlertInv` say of the cache,
of a request under way and of the answer alike that they are true of the time they claim, or empty with
the mark that their payload was no list (`listed`, `lists`); what was seen stays seen, so the clock and
slower requests take nothing from that.

**Pages.** `ChangedAsAgreed` needs to know which plan the screen shows while requests overlap:
`AgreedInv` says that while the box is ticked the plan it was ticked for is the one shown, and that a
request carries the plan the user agreed to. `SavedInv` orders the versions of an app's values: what a
page was told is at most as new as the Secret and has reached it (`Reached`), and so has the version of
a save that is about to answer. `CookiesInv` and `ConsentInv` follow a cookie and a shown version from
the tab that started to the one that ends.

**Summaries.** `EventInv` is small: rows are stored in the order of their times, none later than the
clock, and while nothing was repeated or overtaken in the order of what they report. The work is in
the loop of `summary`, a recursive function over the numbers of the rows. The library's induction
theorems cannot be applied here, so `ReachesAll` proves once, from the least number that fails, that
what holds of 0 and goes on from each number to the next holds of all up to `Len(rows)`, and
`RecursionDefines` with it that the recursion defines `LoopAfter` and the partial sums. The invariants
of the loop are `Counted` (it has counted the recoveries up to the row, summed their times, and
remembers the failure that is open, `OpenFailure`) and, for the intervals, that the partial sums
telescope. For lost reports, each recovery in the rows is assigned a recovery that happened between
the two reports (`CameBack`), no two the same one, so there are no more of them (`FS_Injection`).

**Rollouts.** `RolloutsEnd` is liveness, but what could be wrong beneath it is safety: a list that
names a missing file, or an app pod and the challenge of a domain that hold the room the other waits
for. `ManifestsInv` says that a list computed from `kustomization.yaml` is committed before the file
changes (mutations exclude each other), so that each line has its file, and that a stateful app has its
claim listed, hence applied with it. `RoomBeside` is the arithmetic of the quota: beside one app pod
there is room for another one or for the solver. Any other state has a pod to start, to become
ready or to stop. TLC checked `RolloutGoesOn` with 5 mutations and 2 images before it was proved
(135 thousand states), and finds it violated with the quota of the mutant `QuotaOfOne`.

**Side by side.** In `MCServices` and `MCBackground` a behaviour follows one component while the others
stand still, so each sees its own steps and stutterings: `EachAsAlone`. The types of a component
are a conjunct of its inductive invariant above or proved beside it where that did not need them
(`PullTypes`, `TabTypes`, `ScanTypes`, `PatchTypes`, `PanelInv`). Two of them say more than a shape:
`PatchTypes`, that an account is busy as long as its task is under way and no longer, and `PanelInv`,
that a tab that asks for a domain names one, without which a row could get a status and no host.

**Model-checked only.** Liveness under fairness is out of the prover's reach: `NoteSettles`,
`ErasedPlanPruned`, `PanelCatchesUp`, `RolloutsEnd`. Every invariant and every action property that a
passing run checks is proved for all values of the constants, `OneSetupPull`, `PublishedInOrder` and
`PublishedHostIsClaimed` under the hypotheses of the table.

## 7. What is not modelled

- A request to the outside that is given up and lands long afterwards: an effect happens before the
  handler hears of the failure, or not at all.
- In `DeployLifecycle` a commit is one step that takes effect or not; `GitCommit` has its calls.
- The plausibility checks of the metrics (their failure is the failure of the read), and all
  resources but one; the limits on CPU, memory, disks and inodes have the same form.
- Texts: YAML beyond which files and resources there are, workflow files, messages, mails, audit
  details, validation of names; the policy over package files and the script of the patch worker.
- The cooldown of a verification: a refusal that changes nothing.
- More than one app per account in `CustomDomain`; the current service registers one.
- Token encryption, the settings of the admin page, the diagnosis of a failed build, the counting of
  findings in a scan, the alert on an increase and the scan of the operator's own images, the
  platform's own deployments and workflows in `pipelines.service.ts`: joins and formatting of one
  answer, without state.
- Pages other than `/deploy`, `/deploy/<login>/<repo>`, `/consent` and the gate of `/admin`: the
  observatory pages, the scan, patch and diagnostics panels render what they fetch.
- Backup: a copy of the SQLite file a day, after the cleanup of the same night. Overview, health,
  metrics: stateless reads. Scripts under `scripts/ops` and `deploy/storage` run by hand or outside the
  backend.

What the models show and no property claims:

- An erasure leaves names in the audit log. `softDeleteUser` rewrites the entries whose actor is the
  login as the row spells it (`users.repository.ts:337-341`), once. Where they differ from it, entries
  of custom domains carry the lowercased login (`domain.service.ts:219-382`, `:610`), those of
  environment variables the login as the address spelled it (`env.service.ts:110`), those from before
  a rename the earlier login; and handlers that take no lock enter their act after an erasure they did
  not wait for (`security-patch.service.ts:147`, `domain.service.ts:608-616`,
  `deployment-diagnostics.service.ts:72`). They are neither anonymised nor found by the purge,
  although the comment at `users.repository.ts:321-323` speaks of the entries of the user, and the
  dialog of the deletion (`app/deploy/page.client.tsx:345`) and the privacy page say the same. The
  mail cron is not among the late ones: it looks the row up again before it records
  (`deploy-notifications.service.ts:70-72`).
- A mutation may never end (section 5), nor may a tick of the mail cron: `getCurrentDeployment` has no
  time limit, and a tick that hangs keeps the `running` flag for all accounts.
- A later push whose build fails, never runs or cannot be read for want of a valid token silences the
  mail of a ready image while it lasts.
- An answer 200 of Argo CD or Alertmanager that is no list is cached as an empty list and shown as
  fresh (`argo-cd.client.ts:64-65`, `alertmanager.client.ts:51-52`).
- A removal of an account that is no longer registered is refused by GitHub, which deletes no missing
  path (`deploy.service.ts:999`); `DeployLifecycle` lets it succeed as well, which only adds behaviours.

And, because the code promises nothing: a save that fails
after the Secret was replaced leaves the page with the new values and a disabled button while the
pods run with the old ones; two saves of two tabs replace each other whole; `DELETE /deploy` names no
app and removes whatever is registered; a repeated report counts as another deployment; a consent page
that holds an answer of an earlier version is refused until it is loaded again.

## 8. Plan

The modules planned at the beginning are written. `DeployLifecycle` composes with `CustomDomain` only
through the lock and the redeploy, and with `Manifests` through the commits; each side models what the
other relies on, and a joint module would repeat them.

What is left to model is small: the diagnosis of failed builds and the trimming of scan reports as
pure functions, and the tag retention of `scripts/ops`.

What is left to prove is liveness, which needs `ENABLED` for the fairness of its actions and so stays
with TLC.

## 9. Running it

In this directory, with the community modules on the path:

```
tlc -workers 2 -config lifecycle_safety.cfg MCDeployLifecycle.tla
tlc -workers 2 -config domains.cfg MCCustomDomain.tla
tlc -workers 2 -config services.cfg MCServices.tla
tlc -workers 2 -config background.cfg MCBackground.tla
tlc -workers 2 -config rollouts.cfg MCBackground.tla
for m in KeyedMutex DeployLifecycle Registration CustomDomain Account Lookup Services Background
do tlapm ${m}Proofs.tla; done
```

The passing runs take between half a minute and a few minutes each on two workers (75 thousand to 2.0
million distinct states).
