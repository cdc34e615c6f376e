--------------------------- MODULE SecurityPatch ---------------------------
(***************************************************************************)
(* Dependency patch plans: prepare, status and createPr, each under the    *)
(* busy flag of its account, over awaited calls to the cluster and to      *)
(* GitHub whose answers may be lost.  The owner moves branches and closes  *)
(* pull requests, the process may crash at any await, and the account may  *)
(* be erased during status, a GET the mutation lock does not cover.        *)
(***************************************************************************)
EXTENDS Naturals, FiniteSets

CONSTANTS
  Owners,         \* user ids with one deployed repository each
  Proposers,      \* bound: owners who go on to status and pull request, once alone
  PreparingLimit, \* 2: plans in preparation at a time
  MaxPlans,       \* bound: plans per owner
  MaxHeads        \* bound: commits on a repository's default branch

ASSUME PatchAssumption ==
  /\ Proposers \subseteq Owners
  /\ {PreparingLimit, MaxPlans, MaxHeads} \subseteq Nat /\ MaxHeads # 0

VARIABLES
  member,    \* owners whose row is live
  plan,      \* security_patch_plans: one row per user
  busy,      \* SecurityPatchService.busy
  task,      \* task[u]: the request that holds u's busy flag, with its locals
  job,       \* job[u][id]: the worker job of a plan
  head,      \* the commit of the default branch
  branch,    \* branch[u][id]: swkoo/security-<id> as the service made it, or changed
  pull,      \* pull[u][id]: the pull request from that branch
  opened     \* history: pull requests opened per plan

patchVars == <<member, plan, busy, task, job, head, branch, pull, opened>>

-----------------------------------------------------------------------------
PlanIds == 1..MaxPlans
States == {"preparing", "ready", "blocked", "failed", "creating", "pr"}

\* age: 0 under 420 seconds, 1 under 24 hours, 2 older.
Old == 2
NoPlan == [id |-> 0, sha |-> 0, state |-> "failed", age |-> Old]
Plans == [id : 0..MaxPlans, sha : 0..MaxHeads, state : States, age : 0..Old]

\* A task works on the plan it read; only its state and age change under it.
NoTask == [step |-> "idle", id |-> 0, sha |-> 0]
Steps == {"idle", "prepare", "jobs", "read", "start", "status", "job",
          "create", "find", "base", "ref", "compare", "pull", "again", "found"}
Tasks == [step : Steps, id : 0..MaxPlans, sha : 0..MaxHeads]

PatchTypeOK ==
  /\ member \subseteq Owners /\ busy \subseteq Owners
  /\ plan \in [Owners -> Plans] /\ task \in [Owners -> Tasks]
  /\ job \in [Owners -> [PlanIds -> {"none", "running", "succeeded", "failed"}]]
  /\ head \in [Owners -> 1..MaxHeads]
  /\ branch \in [Owners -> [PlanIds -> {"none", "reviewed", "changed"}]]
  /\ pull \in [Owners -> [PlanIds -> {"none", "open", "closed"}]]
  /\ opened \in [Owners -> [PlanIds -> Nat]]
  /\ \A u \in Owners : u \in busy <=> task[u].step # "idle"

PatchInit ==
  /\ \/ member = Owners
     \/ \E u \in Proposers : member = {u}
  /\ busy = {}
  /\ plan = [u \in Owners |-> NoPlan] /\ task = [u \in Owners |-> NoTask]
  /\ job = [u \in Owners |-> [i \in PlanIds |-> "none"]]
  /\ head = [u \in Owners |-> 1]
  /\ branch = [u \in Owners |-> [i \in PlanIds |-> "none"]]
  /\ pull = [u \in Owners |-> [i \in PlanIds |-> "none"]]
  /\ opened = [u \in Owners |-> [i \in PlanIds |-> 0]]

repos == <<head, branch, pull, opened>>
rest == <<member, job, repos>>

-----------------------------------------------------------------------------
(* Helpers                                                                 *)

LeaveBusy(u) == busy' = busy /\ task' = [task EXCEPT ![u] = NoTask]

\* exclusive: the flag is set before the task runs and cleared however it ends.
Enter(u, step) ==
  /\ u \notin busy /\ u \in member
  /\ busy' = busy \cup {u} /\ task' = [task EXCEPT ![u] = [NoTask EXCEPT !.step = step]]
Leave(u) == busy' = busy \ {u} /\ task' = [task EXCEPT ![u] = NoTask]
Await(u, step) == task' = [task EXCEPT ![u].step = step] /\ busy' = busy

\* The row is written whether or not the account is still there, and created_at is the
\* plan's: a row that was pruned comes back old, one that was erased as old as it is.
Save(u, p) == plan' = [plan EXCEPT ![u] = p]
Ages(u) == IF plan[u].id = task[u].id THEN {plan[u].age}
           ELSE IF u \in member THEN {Old} ELSE 0..Old
SaveState(u, state) ==
  \E a \in Ages(u) : Save(u, [id |-> task[u].id, sha |-> task[u].sha, state |-> state, age |-> a])

Holding(step, p) == [step |-> step, id |-> p.id, sha |-> p.sha]
PrunedByAge(v) == IF plan[v].age = Old THEN NoPlan ELSE plan[v]
Pruned(v) == IF v \notin member \/ plan[v].age = Old THEN NoPlan ELSE plan[v]
Preparing == {v \in Owners : plan[v].state = "preparing" /\ plan[v].age = 0}
RunningJobs == Cardinality({x \in Owners \X PlanIds : job[x[1]][x[2]] = "running"})
FreshId(u) == {i \in PlanIds : job[u][i] = "none" /\ branch[u][i] = "none" /\ plan[u].id < i}

\* Bound: plans of different owners share no more than the two counts of prepare, so
\* what follows a preparation is followed for one owner alone.
Alone(u) == u \in Proposers /\ member = {u}

-----------------------------------------------------------------------------
(* prepare                                                                 *)

StartPrepare(u) == Enter(u, "prepare") /\ UNCHANGED <<plan, rest>>

\* ownedRepo has answered: prune, then an earlier plan is returned, or is less than a
\* minute old.
PrepareChecks(u) ==
  /\ task[u].step = "prepare"
  /\ plan' = [v \in Owners |-> Pruned(v)]
  /\ \/ /\ plan'[u].state \in {"preparing", "ready", "creating"} \/ plan'[u].age = 0
        /\ Leave(u)
     \/ /\ plan'[u].state \notin {"preparing", "ready", "creating"}
        /\ Await(u, "jobs")
  /\ UNCHANGED rest

\* listNamespacedJob.
ReadJobs(u) ==
  /\ task[u].step = "jobs"
  /\ IF RunningJobs >= PreparingLimit THEN Leave(u) ELSE Await(u, "read")
  /\ UNCHANGED <<plan, rest>>

\* The head of the default branch; an open pull request of an earlier plan ends it.
ReadHead(u) ==
  /\ task[u].step = "read" /\ task[u].sha = 0
  /\ IF \E i \in PlanIds : pull[u][i] = "open" THEN Leave(u)
     ELSE task' = [task EXCEPT ![u].sha = head[u]] /\ busy' = busy
  /\ UNCHANGED <<plan, rest>>

RoomToPrepare == Cardinality(Preparing) < PreparingLimit

\* The files are read: the second count and the save run without an await.
SavePlan(u) ==
  /\ task[u].step = "read" /\ task[u].sha # 0
  /\ IF ~RoomToPrepare
     THEN Leave(u) /\ plan' = plan
     ELSE \E i \in FreshId(u) :
       LET p == [id |-> i, sha |-> task[u].sha, state |-> "preparing", age |-> 0] IN
       /\ Save(u, p)
       /\ task' = [task EXCEPT ![u].step = "start", ![u].id = i] /\ busy' = busy
  /\ UNCHANGED rest

\* createNamespacedJob: created, created with the answer lost, or refused.
CreateJob(u) ==
  /\ task[u].step = "start"
  /\ \/ /\ job' = [job EXCEPT ![u][task[u].id] = "running"]
        /\ plan' = plan \/ SaveState(u, "failed")
     \/ job' = job /\ SaveState(u, "failed")
  /\ Leave(u)
  /\ UNCHANGED <<member, repos>>

-----------------------------------------------------------------------------
(* status                                                                  *)

StartStatus(u) == Alone(u) /\ Enter(u, "status") /\ UNCHANGED <<plan, rest>>

UnsettledByAge(p) == p.age < Old
Unsettled(p) == p.state = "preparing"

StatusChecks(u) ==
  /\ task[u].step = "status"
  /\ plan' = [v \in Owners |-> Pruned(v)]
  /\ IF Unsettled(plan'[u])
     THEN task' = [task EXCEPT ![u] = Holding("job", plan'[u])] /\ busy' = busy
     ELSE Leave(u)
  /\ UNCHANGED rest

\* The job, its pod and its log: a result accepted or not, a job that failed, is gone
\* or took too long, or one to wait for.  The job is deleted once it is settled.
ReadResult(u) ==
  /\ task[u].step = "job"
  /\ LET i == task[u].id  gone == plan[u].id # i IN
     \/ /\ job[u][i] = "running" /\ (gone \/ plan[u].age = 0)
        /\ UNCHANGED <<plan, job>>
     \/ /\ job[u][i] = "succeeded"
        /\ \E s \in {"ready", "blocked", "failed"} : SaveState(u, s)
        /\ job' = [job EXCEPT ![u][i] = "none"]
     \/ /\ job[u][i] = "running" => gone \/ plan[u].age > 0
        /\ job[u][i] # "succeeded"
        /\ SaveState(u, "failed")
        /\ job' = [job EXCEPT ![u][i] = "none"]
  /\ Leave(u)
  /\ UNCHANGED <<member, repos>>

-----------------------------------------------------------------------------
(* createPr                                                                *)

StartCreatePr(u) ==
  /\ Alone(u) /\ busy = {}
  /\ Enter(u, "create")
  /\ UNCHANGED <<plan, rest>>

\* The plan in the table is the one asked for, young enough and reviewed.
CreateChecks(u) ==
  /\ task[u].step = "create"
  /\ IF plan[u].state \in {"ready", "creating"} /\ plan[u].age < Old
     THEN task' = [task EXCEPT ![u] = Holding("find", plan[u])] /\ busy' = busy
     ELSE Leave(u)
  /\ UNCHANGED <<plan, rest>>

\* Any pull request from the plan's branch, open or closed.
FindOpenPull(u) == pull[u][task[u].id] = "open"
FindPull(u) == pull[u][task[u].id] # "none"

FindEarlier(u) ==
  /\ task[u].step = "find"
  /\ Await(u, IF FindPull(u) THEN "found" ELSE "base")
  /\ UNCHANGED <<plan, rest>>

\* The base moved: blocked.  Otherwise the intent is saved before anything is made.
CheckBase(u) ==
  /\ task[u].step = "base"
  /\ IF head[u] # task[u].sha THEN SaveState(u, "blocked") /\ Leave(u)
     ELSE SaveState(u, "creating") /\ Await(u, "ref")
  /\ UNCHANGED rest

\* POST refs: created, created with the answer lost, or 422 for a branch that exists.
CreateRef(u) ==
  /\ task[u].step = "ref"
  /\ LET i == task[u].id IN
     IF branch[u][i] = "none"
     THEN branch' = [branch EXCEPT ![u][i] = "reviewed"] /\ (Await(u, "pull") \/ Leave(u))
     ELSE branch' = branch /\ Await(u, "compare")
  /\ UNCHANGED <<plan, member, job, head, pull, opened>>

\* An existing branch is used only when it holds the reviewed tree on the base.
CompareBranch(u) ==
  /\ task[u].step = "compare"
  /\ IF branch[u][task[u].id] = "reviewed"
     THEN Await(u, "pull") /\ plan' = plan
     ELSE SaveState(u, "blocked") /\ Leave(u)
  /\ UNCHANGED rest

\* POST pulls: refused while one is open or without the branch; the answer may be lost.
OpenPull(u) ==
  /\ task[u].step = "pull"
  /\ LET i == task[u].id IN
     IF branch[u][i] # "none" /\ pull[u][i] # "open"
     THEN /\ pull' = [pull EXCEPT ![u][i] = "open"]
          /\ opened' = [opened EXCEPT ![u][i] = @ + 1]
          /\ Await(u, "found") \/ Await(u, "again")
     ELSE Await(u, "again") /\ UNCHANGED <<pull, opened>>
  /\ UNCHANGED <<plan, member, job, head, branch>>

\* After a failed POST the pull request is looked for once more.
FindAgain(u) ==
  /\ task[u].step = "again"
  /\ IF FindPull(u) THEN Await(u, "found") ELSE Leave(u)
  /\ UNCHANGED <<plan, rest>>

RecordPull(u) ==
  /\ task[u].step = "found"
  /\ SaveState(u, "pr") /\ Leave(u)
  /\ UNCHANGED rest

\* A call fails: the task ends with an error and nothing more is saved.
CallFails(u) ==
  /\ task[u].step \in {"prepare", "jobs", "read", "status", "create", "find", "base",
                       "ref", "compare", "again"}
  /\ Leave(u)
  /\ UNCHANGED <<plan, rest>>

-----------------------------------------------------------------------------
(* Surroundings                                                            *)

JobEnds(u, i) ==
  /\ job[u][i] = "running"
  /\ \E r \in {"succeeded", "failed"} : job' = [job EXCEPT ![u][i] = r]
  /\ UNCHANGED <<member, plan, busy, task, repos>>

OwnerPushes(u) ==
  /\ Alone(u)
  /\ \/ head[u] < MaxHeads /\ head' = [head EXCEPT ![u] = @ + 1] /\ branch' = branch
     \/ \E i \in PlanIds : branch[u][i] = "reviewed"
          /\ branch' = [branch EXCEPT ![u][i] = "changed"] /\ head' = head
  /\ UNCHANGED <<member, plan, busy, task, job, pull, opened>>

OwnerCloses(u, i) ==
  /\ pull[u][i] = "open"
  /\ pull' = [pull EXCEPT ![u][i] = "closed"]
  /\ UNCHANGED <<member, plan, busy, task, job, head, branch, opened>>

PlanAges(u) ==
  /\ plan[u].id # 0 /\ plan[u].age < Old
  /\ plan' = [plan EXCEPT ![u].age = @ + 1]
  /\ UNCHANGED <<busy, task, rest>>

\* softDeleteUser deletes the plan; prepare and createPr hold the account's lock.
EraseOwner(u) ==
  /\ u \in member /\ task[u].step \in {"idle", "status", "job"}
  /\ member' = member \ {u} /\ plan' = [plan EXCEPT ![u] = NoPlan]
  /\ UNCHANGED <<busy, task, job, repos>>

\* The hourly cron.
Prune ==
  /\ plan' = [v \in Owners |-> Pruned(v)]
  /\ UNCHANGED <<busy, task, rest>>

PatchCrash ==
  /\ busy # {}
  /\ busy' = {} /\ task' = [u \in Owners |-> NoTask]
  /\ UNCHANGED <<plan, rest>>

-----------------------------------------------------------------------------
PatchStep(u) ==
  \/ PrepareChecks(u) \/ ReadJobs(u) \/ ReadHead(u) \/ SavePlan(u) \/ CreateJob(u)
  \/ StatusChecks(u) \/ ReadResult(u)
  \/ CreateChecks(u) \/ FindEarlier(u) \/ CheckBase(u) \/ CreateRef(u)
  \/ CompareBranch(u) \/ OpenPull(u) \/ FindAgain(u) \/ RecordPull(u)
  \/ CallFails(u)

PatchNext ==
  \/ \E u \in Owners :
       \/ StartPrepare(u) \/ StartStatus(u) \/ StartCreatePr(u) \/ PatchStep(u)
       \/ OwnerPushes(u) \/ PlanAges(u) \/ EraseOwner(u)
       \/ \E i \in PlanIds : JobEnds(u, i) \/ OwnerCloses(u, i)
  \/ Prune \/ PatchCrash

\* The cron runs every hour.  A request under way may hang.
PatchFairness == WF_patchVars(Prune)

PatchSpec == PatchInit /\ [][PatchNext]_patchVars

-----------------------------------------------------------------------------
(* Properties                                                              *)

\* One plan leads to one pull request, whatever answers are lost, whoever closes it
\* and however often the user asks again (security-patch.service createPr).
OnePullRequest == \A u \in Owners, i \in PlanIds : opened[u][i] <= 1

\* A plan whose pull request is recorded stays so until it is replaced or deleted: no
\* slower request writes an older copy of the plan back.
ProposalKept ==
  [][\A u \in Owners : plan[u].state = "pr" /\ plan'[u].id = plan[u].id
       => plan'[u].state = "pr"]_patchVars

\* A request under way at the erasure may store its plan again; the row does not
\* outlive the next run of the cron for good.
ErasedPlanPruned == \A u \in Owners : u \notin member ~> [](plan[u] = NoPlan)
=============================================================================
