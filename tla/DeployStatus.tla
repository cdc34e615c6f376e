----------------------------- MODULE DeployStatus -----------------------------
(***************************************************************************)
(* DeployStatusService.getStages: five stages of one app, put together     *)
(* from reads of GitHub, Argo CD and the cluster that are awaited one      *)
(* after the other or side by side, while the user pushes, builds end in   *)
(* any order, the image updater and Argo CD follow late and pods come and  *)
(* go.  A build stands for its image; tags, URLs and texts are left out.   *)
(***************************************************************************)
EXTENDS Naturals, FiniteSets

CONSTANTS
  MaxPushes,   \* bound: commits on the default branch
  MaxImages    \* bound: images built

ASSUME StatusAssumption == {MaxPushes, MaxImages} \subseteq Nat \ {0}

VARIABLES
  pushed,      \* the head of the default branch
  ci,          \* ci[c]: the build.yml run of commit c
  built,       \* built[i]: the commit image i was built from, 0 if not built
  desired,     \* the image in the Argo CD application, 0 for none
  argo,        \* the application's status as Argo CD last wrote it
  template,    \* the image in the Deployment
  rollout,     \* the Deployment's status as its controller last wrote it
  pods,        \* pods[i]: the pod of image i, other than those being deleted
  poll         \* the request: what it has read and the stages it answers with

statusVars == <<pushed, ci, built, desired, argo, template, rollout, pods, poll>>

-----------------------------------------------------------------------------
Pushes == 1..MaxPushes
Images == 1..MaxImages
Tagged(c) == {i \in Images : built[i] = c}

\* A tag of a commit is moved by the last build of it.
ImageFor(c) == IF Tagged(c) = {} THEN 0
               ELSE CHOOSE i \in Tagged(c) : \A j \in Tagged(c) : j <= i
Newest == CHOOSE i \in 0..MaxImages :
            (i = 0 \/ built[i] # 0) /\ \A j \in Images : built[j] # 0 => j <= i

ArgoStatuses == [compared : 0..MaxImages, settled : BOOLEAN]
Rollouts == [seen : 0..MaxImages, updated : 0..1, available : 0..MaxImages]
Pending == [build |-> "pending", image |-> "pending", deploy |-> "pending", live |-> "pending"]
Idle == [step |-> "idle", from |-> 0, sha |-> 0, app |-> <<>>, expected |-> 0,
         rolledOut |-> "unread", current |-> "unread", served |-> {}, stages |-> Pending]

StatusTypeOK ==
  /\ pushed \in Pushes
  /\ ci \in [Pushes -> {"none", "running", "success", "failure"}]
  /\ built \in [Images -> 0..MaxPushes]
  /\ desired \in 0..MaxImages /\ template \in 0..MaxImages
  /\ argo \in ArgoStatuses /\ rollout \in Rollouts
  /\ pods \in [Images -> {"none", "waiting", "ready"}]
  /\ poll.step \in {"idle", "head", "run", "versions", "runtime", "live", "done"}
  /\ DOMAIN poll = DOMAIN Idle

\* The app is registered and its first commit built; the rest of the world follows.
StatusInit ==
  /\ pushed = 1 /\ ci = [c \in Pushes |-> IF c = 1 THEN "success" ELSE "none"]
  /\ built = [i \in Images |-> IF i = 1 THEN 1 ELSE 0]
  /\ desired = 1 /\ template = 1
  /\ argo = [compared |-> 0, settled |-> FALSE]
  /\ rollout = [seen |-> 0, updated |-> 0, available |-> 0]
  /\ pods = [i \in Images |-> "none"] /\ poll = Idle

-----------------------------------------------------------------------------
(* GitHub, the image updater, Argo CD and the cluster, until the answer    *)

Open == poll.step # "done" /\ poll' = poll
cluster == <<desired, argo, template, rollout, pods>>

Push ==
  /\ Open
  /\ pushed < MaxPushes /\ pushed' = pushed + 1
  /\ UNCHANGED <<ci, built, cluster>>

\* A run begins, or is started over after a failure.
BuildStarts(c) ==
  /\ Open
  /\ c <= pushed /\ ci[c] \in {"none", "failure"} /\ ci' = [ci EXCEPT ![c] = "running"]
  /\ UNCHANGED <<pushed, built, cluster>>

BuildEnds(c) ==
  /\ Open
  /\ ci[c] = "running"
  /\ \/ \E i \in Images :
          /\ built[i] = 0 /\ \A j \in Images : j < i => built[j] # 0
          /\ built' = [built EXCEPT ![i] = c] /\ ci' = [ci EXCEPT ![c] = "success"]
     \/ built' = built /\ ci' = [ci EXCEPT ![c] = "failure"]
  /\ UNCHANGED <<pushed, cluster>>

ImageUpdated ==
  /\ Open
  /\ desired # Newest /\ desired' = Newest
  /\ UNCHANGED <<pushed, ci, built, argo, template, rollout, pods>>

Synced ==
  /\ Open
  /\ template # desired /\ template' = desired
  /\ UNCHANGED <<pushed, ci, built, desired, argo, rollout, pods>>

Ready == {i \in Images : pods[i] = "ready"}

\* Sync, health, the last operation and the images in use, all of one moment.
ArgoRefreshes ==
  /\ Open
  /\ argo' = [compared |-> desired,
              settled |-> /\ template = desired /\ rollout.seen = template
                          /\ rollout.updated = 1 /\ rollout.available = 1]
  /\ argo' # argo
  /\ UNCHANGED <<pushed, ci, built, desired, template, rollout, pods>>

ControllerObserves ==
  /\ Open
  /\ rollout' = [seen |-> template,
                 updated |-> IF template # 0 /\ pods[template] # "none" THEN 1 ELSE 0,
                 available |-> Cardinality(Ready)]
  /\ rollout' # rollout
  /\ UNCHANGED <<pushed, ci, built, desired, argo, template, pods>>

\* The pod of the template is made, becomes ready, crashes; an older one goes once the new
\* one is ready.
PodChanges(i) ==
  /\ Open
  /\ \/ pods[i] = "none" /\ i = template /\ pods' = [pods EXCEPT ![i] = "waiting"]
     \/ pods[i] = "waiting" /\ pods' = [pods EXCEPT ![i] = "ready"]
     \/ pods[i] = "ready" /\ pods' = [pods EXCEPT ![i] = "waiting"]
     \/ /\ pods[i] # "none" /\ i # template /\ template # 0 /\ template \in Ready
        /\ pods' = [pods EXCEPT ![i] = "none"]
  /\ UNCHANGED <<pushed, ci, built, desired, argo, template, rollout>>

-----------------------------------------------------------------------------
(* getStages                                                               *)

outside == <<pushed, ci, built, cluster>>
Answered(s) == poll' = [poll EXCEPT !.step = "done", !.stages = s]

StartPoll ==
  /\ poll.step = "idle"
  /\ poll' = [Idle EXCEPT !.step = "head", !.from = pushed]
  /\ UNCHANGED outside

\* readyImageDigest: the desired image, if the status is of this image and agrees.
ReadyImage ==
  IF argo.settled /\ argo.compared = desired THEN desired ELSE 0

\* getApplication runs beside the reads of the build and may fail.
ReadApplication ==
  /\ poll.step \in {"head", "run"} /\ poll.app = <<>>
  /\ \/ poll' = [poll EXCEPT !.app = <<desired, ReadyImage>>]
     \/ poll' = [poll EXCEPT !.app = <<0, 0>>]
  /\ UNCHANGED outside

\* checkBuildStage: the head of the default branch, and the run of that very commit.
ReadCommit ==
  /\ poll.step = "head"
  /\ poll' = [poll EXCEPT !.step = "run", !.sha = pushed]
  /\ UNCHANGED outside

\* The run to judge: the one of the head that was read.
RunStatus == ci[poll.sha]

BuildStage == CASE RunStatus = "success" -> "success"
                [] RunStatus = "failure" -> "failed"
                [] RunStatus = "running" -> "running"
                [] OTHER -> "pending"

ReadRun ==
  /\ poll.step = "run" /\ poll.app # <<>>
  /\ LET s == [Pending EXCEPT !.build = BuildStage] IN
     IF BuildStage = "success" THEN poll' = [poll EXCEPT !.step = "versions", !.stages = s]
     ELSE Answered(s)
  /\ UNCHANGED outside

ExpectedDeployed(i) == poll.app[1] # 0
Expected(i) == poll.app[1] = i

\* The package version tagged with the commit must be the image of the application.
ReadVersions ==
  /\ poll.step = "versions"
  /\ LET i == ImageFor(poll.sha) IN
     IF i = 0 \/ ~Expected(i) THEN Answered(poll.stages)
     ELSE poll' = [poll EXCEPT !.step = "runtime", !.expected = poll.app[1], !.stages.image = "success"]
  /\ UNCHANGED outside

\* Replicas 1: the new template is observed, updated and alone available.
RolledOut == /\ template = poll.expected /\ rollout.seen = template
             /\ rollout.updated = 1 /\ rollout.available = 1

\* checkRuntime: the Deployment and the pods, side by side.
ReadDeployment ==
  /\ poll.step = "runtime" /\ poll.rolledOut = "unread"
  /\ poll' = [poll EXCEPT !.rolledOut = IF RolledOut THEN "yes" ELSE "no"]
  /\ UNCHANGED outside

ReadPods ==
  /\ poll.step = "runtime" /\ poll.current = "unread"
  /\ \E broken \in {FALSE, pods[poll.expected] = "waiting"} :
       poll' = [poll EXCEPT !.served = Ready,
                            !.current = IF broken THEN "broken" ELSE pods[poll.expected]]
  /\ UNCHANGED outside

\* A pod out of memory or that cannot start has failed, one without room waits.
Runtime == IF poll.current = "broken" THEN "failed"
           ELSE IF poll.rolledOut = "yes" /\ poll.current = "ready" THEN "success"
           ELSE "running"

\* checkDeployStage says failed for Degraded, which a rollout past its deadline is.
Conclude ==
  /\ poll.step = "runtime" /\ poll.rolledOut # "unread" /\ poll.current # "unread"
  /\ \E degraded \in {FALSE, poll.app[2] = 0} :
       LET d == IF Runtime = "failed" \/ degraded THEN "failed"
                ELSE IF poll.app[2] # poll.expected THEN "running" ELSE Runtime
           s == [poll.stages EXCEPT !.deploy = d]
       IN IF d = "success" THEN poll' = [poll EXCEPT !.step = "live", !.stages = s]
          ELSE Answered(s)
  /\ UNCHANGED outside

ReadLive ==
  /\ poll.step = "live"
  /\ \E r \in {"success", "failed"} : Answered([poll.stages EXCEPT !.live = r])
  /\ UNCHANGED outside

\* A read fails: its stage is pending and so is what follows.  The manifests of the
\* registration, read beside the build, end the poll in the same way.
ReadFails ==
  /\ poll.step \in {"head", "run", "versions"}
  /\ Answered(poll.stages)
  /\ UNCHANGED outside

-----------------------------------------------------------------------------
StatusNext ==
  \/ Push \/ \E c \in Pushes : BuildStarts(c) \/ BuildEnds(c)
  \/ ImageUpdated \/ Synced \/ ArgoRefreshes \/ ControllerObserves
  \/ \E i \in Images : PodChanges(i)
  \/ StartPoll \/ ReadApplication \/ ReadCommit \/ ReadRun \/ ReadVersions
  \/ ReadDeployment \/ ReadPods \/ Conclude \/ ReadLive \/ ReadFails

StatusSpec == StatusInit /\ [][StatusNext]_statusVars

-----------------------------------------------------------------------------
\* A deployment is shown as live only when, while the request ran, a pod was ready whose
\* image was built from a commit no older than the head when the request began: never
\* because an earlier image is still healthy (deploy-status.service getStages,
\* deployment-readiness readyImageDigest).
LiveIsLatest ==
  poll.step = "done" /\ poll.stages.live = "success" =>
    \E i \in poll.served : built[i] >= poll.from
=============================================================================
