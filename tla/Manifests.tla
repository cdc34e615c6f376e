----------------------------- MODULE Manifests -----------------------------
(***************************************************************************)
(* One account's deploy repository (templates.ts, the commits of           *)
(* deploy.service and domain.service) and what its namespace makes of it:  *)
(* Argo CD builds kustomization.yaml and applies it, the Deployment        *)
(* controller rolls the app over, cert-manager solves the challenge of a   *)
(* custom domain in a pod of its own, and all of them share the            *)
(* ResourceQuota the templates render.  Mutations of the account exclude   *)
(* each other (KeyedMutex), so one is under way at most; any call may fail,*)
(* land with its answer lost, or end with the process.                     *)
(***************************************************************************)
EXTENDS Naturals, FiniteSets

CONSTANTS
  MaxChanges,  \* bound: mutations of the account in one behaviour
  MaxImages    \* bound: images built in one behaviour

ASSUME ManifestsAssumption == MaxChanges \in Nat /\ MaxImages \in Nat

VARIABLES
  change,        \* the mutation under way, with its locals
  files,         \* paths on main of the deploy repository
  listed,        \* the resources of its kustomization.yaml
  stateful,      \* its deployment.yaml mounts /data
  registration,  \* the registration file: "absent", "plain" or "storage"
  domain,        \* the account's row of custom_domains
  image,         \* builds so far: what :latest stands for
  live,          \* the template of the Deployment in the cluster
  objects,       \* the other objects Argo CD has applied
  pods,          \* pods[t]: the pod of template t
  solver,        \* the pod of the HTTP-01 challenge
  changes        \* mutations begun

repository == <<files, listed, stateful>>
namespace == <<live, objects, pods, solver>>
manifestVars == <<change, repository, registration, domain, image, namespace, changes>>

-----------------------------------------------------------------------------
(* templates.ts                                                            *)

Base == {"namespace", "resource-quota", "limit-range", "network-policy", "role",
         "role-binding", "deployment", "service", "ingress"}
Paths == Base \cup {"kustomization", "custom-domain-ingress", "pvc"}

\* What a redeploy emits beside the base, and lists: with a domain its Ingress, with a
\* profile the claim.
Extra(storage, routed) ==
  (IF routed THEN {"custom-domain-ingress"} ELSE {}) \cup (IF storage THEN {"pvc"} ELSE {})

RenderDeployRepoFiles(storage, routed) == Base \cup {"kustomization"} \cup Extra(storage, routed)

\* Mutant: the claim of a profile is emitted but not listed.
KustomizationWithoutClaim(storage, routed) == Base \cup Extra(FALSE, routed)

RenderKustomization(storage, routed) == Base \cup Extra(storage, routed)

\* Millicores, Mi of memory and of ephemeral storage; requests, then limits.
Resources == {"requests.cpu", "requests.memory", "requests.ephemeral", "limits.cpu",
              "limits.memory", "limits.ephemeral", "pods"}

\* Mutant: a quota of one container, as if nothing were ever replaced.
QuotaOfOne == [r \in Resources |->
  CASE r = "requests.cpu" -> 100 [] r = "requests.memory" -> 256
    [] r = "requests.ephemeral" -> 128 [] r = "limits.cpu" -> 500
    [] r = "limits.memory" -> 512 [] r = "limits.ephemeral" -> 1024 [] r = "pods" -> 3]

ResourceQuota == [r \in Resources |->
  CASE r = "requests.cpu" -> 500 [] r = "requests.memory" -> 512
    [] r = "requests.ephemeral" -> 256 [] r = "limits.cpu" -> 1000
    [] r = "limits.memory" -> 1024 [] r = "limits.ephemeral" -> 2048 [] r = "pods" -> 3]

\* The container of renderDeployment; its init container runs before it and asks for no more.
AppPod == [r \in Resources |->
  CASE r = "requests.cpu" -> 100 [] r = "requests.memory" -> 256
    [] r = "requests.ephemeral" -> 128 [] r = "limits.cpu" -> 500
    [] r = "limits.memory" -> 512 [] r = "limits.ephemeral" -> 1024 [] r = "pods" -> 1]

\* What a container that says nothing gets.
LimitRangeDefault == [r \in {"requests.ephemeral", "limits.ephemeral"} |->
  IF r = "requests.ephemeral" THEN 128 ELSE 1024]

\* cert-manager sets CPU and memory of its solver; ephemeral storage is the LimitRange's.
SolverPod == [r \in Resources |->
  CASE r = "requests.cpu" -> 10 [] r = "requests.memory" -> 64
    [] r = "limits.cpu" -> 100 [] r = "limits.memory" -> 64 [] r = "pods" -> 1
    [] OTHER -> LimitRangeDefault[r]]

-----------------------------------------------------------------------------
Templates == [stateful : BOOLEAN, image : 0..MaxImages]
NoTemplate == [stateful |-> FALSE, image |-> MaxImages + 1]
NoChange == [step |-> "idle", storage |-> FALSE, routed |-> FALSE, listed |-> {}]

ManifestsTypeOK ==
  /\ change \in [step : {"idle", "profile", "manifests", "publish", "fetch", "commit",
                         "record", "fetchRemoval", "commitRemoval", "drop"},
                 storage : BOOLEAN, routed : BOOLEAN, listed : SUBSET Paths]
  /\ files \subseteq Paths /\ listed \subseteq Paths /\ stateful \in BOOLEAN
  /\ registration \in {"absent", "plain", "storage"}
  /\ domain \in {"none", "pending", "applied"}
  /\ image \in 0..MaxImages
  /\ live \in Templates \cup {NoTemplate}
  /\ objects \subseteq {"resource-quota", "custom-domain-ingress", "pvc"}
  /\ pods \in [Templates -> {"none", "starting", "ready"}]
  /\ solver \in {"none", "waiting", "running", "done"}
  /\ changes \in 0..MaxChanges

ManifestsInit ==
  /\ change = NoChange
  /\ files = {} /\ listed = {} /\ stateful = FALSE
  /\ registration = "absent" /\ domain = "none"
  /\ image = 0 /\ live = NoTemplate /\ objects = {}
  /\ pods = [t \in Templates |-> "none"]
  /\ solver = "none" /\ changes = 0

Registered == registration # "absent"

\* A mutation begins when none is under way.
BeginChange(c) ==
  /\ change = NoChange /\ changes < MaxChanges
  /\ change' = c /\ changes' = changes + 1

\* A call fails, or its answer is lost, or the process ends: nothing is undone.
ChangeEnds ==
  /\ change # NoChange
  /\ change' = NoChange
  /\ UNCHANGED <<repository, registration, domain, image, namespace, changes>>

-----------------------------------------------------------------------------
(* registerForUser: the domain, the profile, the manifests, the registration *)

\* Not while the Application of an earlier registration is still there.
StartDeploy(detected) ==
  /\ Registered \/ live = NoTemplate
  /\ BeginChange([NoChange EXCEPT !.step = "profile", !.storage = detected,
                                  !.routed = domain = "applied"])
  /\ UNCHANGED <<repository, registration, domain, image, namespace>>

\* The profile detected, or the one on record; a failed read counts as none.
ReadProfile ==
  /\ change.step = "profile"
  /\ \E existing \in {registration = "storage", FALSE} :
       change' = [change EXCEPT !.step = "manifests", !.storage = @ \/ existing]
  /\ UNCHANGED <<repository, registration, domain, image, namespace, changes>>

\* Files are only written: an Ingress or a claim of before stays, unlisted.
CommitManifests ==
  /\ change.step = "manifests"
  /\ files' = files \cup RenderDeployRepoFiles(change.storage, change.routed)
  /\ listed' = RenderKustomization(change.storage, change.routed)
  /\ stateful' = change.storage
  /\ change' = [change EXCEPT !.step = "publish"]
  /\ UNCHANGED <<registration, domain, image, namespace, changes>>

CommitRegistration ==
  /\ change.step = "publish"
  /\ registration' = IF change.storage THEN "storage" ELSE "plain"
  /\ change' = NoChange
  /\ UNCHANGED <<repository, domain, image, namespace, changes>>

\* deleteDeployment: the registration goes and the rows with it; the repository is
\* archived as it is.
Unregister ==
  /\ Registered /\ BeginChange(NoChange)
  /\ registration' = "absent" /\ domain' = "none"
  /\ UNCHANGED <<repository, image, namespace>>

-----------------------------------------------------------------------------
(* domain.service: the Ingress of a custom domain                          *)

ClaimDomain ==
  /\ Registered /\ domain = "none"
  /\ BeginChange(NoChange)
  /\ domain' = "pending"
  /\ UNCHANGED <<repository, registration, image, namespace>>

\* verify, once DNS has been found right; of an applied row after a removal that failed.
StartVerify ==
  /\ Registered /\ domain # "none"
  /\ BeginChange([NoChange EXCEPT !.step = "fetch"])
  /\ UNCHANGED <<repository, registration, domain, image, namespace>>

\* updateKustomizationAddEntry
AddEntry ==
  /\ change.step = "fetch" /\ "kustomization" \in files
  /\ change' = [change EXCEPT !.step = "commit",
                              !.listed = listed \cup {"custom-domain-ingress"}]
  /\ UNCHANGED <<repository, registration, domain, image, namespace, changes>>

CommitIngress ==
  /\ change.step = "commit"
  /\ files' = files \cup {"custom-domain-ingress"} /\ listed' = change.listed
  /\ change' = [change EXCEPT !.step = "record"]
  /\ UNCHANGED <<stateful, registration, domain, image, namespace, changes>>

MarkApplied ==
  /\ change.step = "record"
  /\ domain' = "applied" /\ change' = NoChange
  /\ UNCHANGED <<repository, registration, image, namespace, changes>>

\* delete: a row that was never applied has nothing to take back.
DropPending ==
  /\ Registered /\ domain = "pending" /\ BeginChange(NoChange)
  /\ domain' = "none"
  /\ UNCHANGED <<repository, registration, image, namespace>>

StartRemoval ==
  /\ Registered /\ domain = "applied"
  /\ BeginChange([NoChange EXCEPT !.step = "fetchRemoval"])
  /\ UNCHANGED <<repository, registration, domain, image, namespace>>

\* Mutant: the file goes while its line stays.
KeepEntry(resources) == resources

\* updateKustomizationRemoveEntry
RemoveEntry(resources) == resources \ {"custom-domain-ingress"}

FetchForRemoval ==
  /\ change.step = "fetchRemoval" /\ "kustomization" \in files
  /\ change' = [change EXCEPT !.step = "commitRemoval", !.listed = RemoveEntry(listed)]
  /\ UNCHANGED <<repository, registration, domain, image, namespace, changes>>

\* The Ingress goes with its line, in one commit.
CommitRemoval ==
  /\ change.step = "commitRemoval"
  /\ files' = files \ {"custom-domain-ingress"} /\ listed' = change.listed
  /\ change' = [change EXCEPT !.step = "drop"]
  /\ UNCHANGED <<stateful, registration, domain, image, namespace, changes>>

DropRow ==
  /\ change.step = "drop"
  /\ domain' = "none" /\ change' = NoChange
  /\ UNCHANGED <<repository, registration, image, namespace, changes>>

-----------------------------------------------------------------------------
(* GitHub Actions, Argo CD, the Deployment controller, cert-manager        *)

\* The workflow of renderBuildWorkflow pushes a commit's image as :latest as well, the
\* tag that renderDeployment runs and Image Updater follows.
ImageBuilt ==
  /\ image < MaxImages
  /\ image' = image + 1
  /\ UNCHANGED <<change, repository, registration, domain, namespace, changes>>

\* kustomize fails on a resource that is not there.
Builds == listed \subseteq files
Synced == (listed \cap {"resource-quota", "custom-domain-ingress", "pvc"})
            \cup (objects \cap {"pvc"})

\* A sync applies what is listed and prunes the rest, save the claim (Prune=false).
Sync ==
  /\ Registered /\ Builds
  /\ <<live, objects>> # <<[stateful |-> stateful, image |-> image], Synced>>
  /\ live' = [stateful |-> stateful, image |-> image]
  /\ objects' = Synced
  /\ solver' = IF "custom-domain-ingress" \notin listed THEN "none"
               ELSE IF solver = "none" THEN "waiting" ELSE solver
  /\ UNCHANGED <<change, repository, registration, domain, image, pods, changes>>

\* The Application goes after its registration, and the namespace with all that is in it.
ApplicationPruned ==
  /\ ~Registered /\ live # NoTemplate
  /\ live' = NoTemplate /\ objects' = {} /\ solver' = "none"
  /\ pods' = [t \in Templates |-> "none"]
  /\ UNCHANGED <<change, repository, registration, domain, image, changes>>

Running == {t \in Templates : pods[t] # "none"}
Used(r) == Cardinality(Running) * AppPod[r] + (IF solver = "running" THEN SolverPod[r] ELSE 0)
Admitted(pod) ==
  "resource-quota" \in objects => \A r \in Resources : Used(r) + pod[r] <= ResourceQuota[r]

\* Recreate for a stateful app; else one pod beside the old one, which waits for it.
PodMayStart ==
  /\ live \in Templates /\ pods[live] = "none"
  /\ Cardinality(Running) < (IF live.stateful THEN 1 ELSE 2)
  /\ Admitted(AppPod)

StartPod ==
  /\ PodMayStart
  /\ pods' = [pods EXCEPT ![live] = "starting"]
  /\ UNCHANGED <<change, repository, registration, domain, image, live, objects, solver,
                 changes>>

\* A pod that mounts the claim waits for it.
PodMayBeReady(t) == pods[t] = "starting" /\ (t.stateful => "pvc" \in objects)

PodReady(t) ==
  /\ PodMayBeReady(t)
  /\ pods' = [pods EXCEPT ![t] = "ready"]
  /\ UNCHANGED <<change, repository, registration, domain, image, live, objects, solver,
                 changes>>

\* An old pod goes when the app is recreated, when it is not ready, or when another is:
\* one has to stay available.
OldMayStop(t) ==
  /\ live \in Templates /\ t # live /\ pods[t] # "none"
  /\ live.stateful \/ pods[t] = "starting" \/ \E s \in Templates \ {t} : pods[s] = "ready"

StopOld(t) ==
  /\ OldMayStop(t)
  /\ pods' = [pods EXCEPT ![t] = "none"]
  /\ UNCHANGED <<change, repository, registration, domain, image, live, objects, solver,
                 changes>>

SolverMayStart == solver = "waiting" /\ Admitted(SolverPod)

StartSolver ==
  /\ SolverMayStart
  /\ solver' = "running"
  /\ UNCHANGED <<change, repository, registration, domain, image, live, objects, pods, changes>>

ChallengeSolved ==
  /\ solver = "running"
  /\ solver' = "done"
  /\ UNCHANGED <<change, repository, registration, domain, image, live, objects, pods, changes>>

-----------------------------------------------------------------------------
Mutation ==
  \/ ChangeEnds
  \/ \E detected \in BOOLEAN : StartDeploy(detected)
  \/ ReadProfile \/ CommitManifests \/ CommitRegistration \/ Unregister
  \/ ClaimDomain \/ StartVerify \/ AddEntry \/ CommitIngress \/ MarkApplied
  \/ DropPending \/ StartRemoval \/ FetchForRemoval \/ CommitRemoval \/ DropRow

ManifestsNext ==
  \/ Mutation \/ ImageBuilt
  \/ Sync \/ ApplicationPruned
  \/ StartPod \/ \E t \in Templates : PodReady(t) \/ StopOld(t)
  \/ StartSolver \/ ChallengeSolved

\* The controllers try again for ever; an app starts, and a challenge ends.
ManifestsFairness ==
  /\ WF_manifestVars(Sync \/ ApplicationPruned) /\ WF_manifestVars(StartPod)
  /\ \A t \in Templates : WF_manifestVars(PodReady(t)) /\ WF_manifestVars(StopOld(t))
  /\ WF_manifestVars(StartSolver \/ ChallengeSolved)

ManifestsSpec == ManifestsInit /\ [][ManifestsNext]_manifestVars /\ ManifestsFairness

-----------------------------------------------------------------------------
\* The latest template runs alone, and a listed domain has its certificate.
Settled ==
  /\ live = [stateful |-> stateful, image |-> image]
  /\ pods = [t \in Templates |-> IF t = live THEN "ready" ELSE "none"]
  /\ "custom-domain-ingress" \in listed => solver = "done"

\* The list builds, and while the pods of the namespace are not as the Deployment and the
\* Ingress ask, the quota lets one of them start, end or go: the pod that takes over and the
\* pod of the challenge never hold the room the other waits for.
RolloutGoesOn ==
  /\ Builds
  /\ \/ live = NoTemplate
     \/ /\ pods = [t \in Templates |-> IF t = live THEN "ready" ELSE "none"]
        /\ solver \in {"none", "done"}
     \/ PodMayStart \/ SolverMayStart \/ solver = "running"
     \/ \E t \in Templates : PodMayBeReady(t) \/ OldMayStop(t)

\* Whatever deployments, removals, domains and images an account goes through, and
\* wherever they stop halfway, what its repository says is what runs in the end: the
\* list always builds, and the quota has room for the pod that takes over and for the
\* challenge of a domain, which may have to wait for one another.
RolloutsEnd == []<>(~Registered \/ Settled)
=============================================================================
