--------------------------- MODULE BackgroundProofs ---------------------------
(***************************************************************************)
(* What the proof system establishes of what the platform does on its own: *)
(* the pull requests of dependency patches, the deploy-success mails and   *)
(* the rollouts of manifests in the quota of their namespace, for any      *)
(* number of accounts, plans, heads, images and changes and any times; and *)
(* of these and the custom-domain panel side by side, that each behaves as *)
(* it does alone, and the types of their state.                            *)
(***************************************************************************)
EXTENDS MCBackground, FiniteSetTheorems, TLAPS

-----------------------------------------------------------------------------
(* Pull requests of dependency patches                                     *)

\* Steps that work on a plan, and those past the search for its pull request.
Working == {"start", "job", "find", "base", "ref", "compare", "pull", "again", "found"}
Making == {"base", "ref", "compare", "pull"}

PlanHolds(p) == p.state # "failed" => p.id \in PlanIds
TaskHolds(p, t, pulled) ==
  /\ t.step \in Working => t.id \in PlanIds /\ p.state # "pr"
  /\ t.step \in Making => pulled[t.id] = "none"
CountHolds(pulled, count) == \A i \in PlanIds : count[i] = IF pulled[i] = "none" THEN 0 ELSE 1

\* A recorded plan has nobody working on it; a plan whose pull request is being made has none.
PatchInv ==
  /\ plan \in [Owners -> Plans] /\ task \in [Owners -> Tasks] /\ head \in [Owners -> 1..MaxHeads]
  /\ pull \in [Owners -> [PlanIds -> {"none", "open", "closed"}]]
  /\ opened \in [Owners -> [PlanIds -> Nat]]
  /\ \A u \in Owners :
       PlanHolds(plan[u]) /\ TaskHolds(plan[u], task[u], pull[u]) /\ CountHolds(pull[u], opened[u])

\* What ProposalKept asks of a step.
Kept(u) == plan[u].state = "pr" /\ plan'[u].id = plan[u].id => plan'[u].state = "pr"
AllKept == \A u \in Owners : Kept(u)

LEMMA Nothing ==
  ASSUME PatchAssumption
  PROVE  /\ NoPlan \in Plans /\ NoPlan.state = "failed" /\ NoPlan.id = 0
         /\ NoTask \in Tasks /\ NoTask.step = "idle" /\ NoTask.step \notin Working \cup Making
         /\ 0 \notin PlanIds /\ PlanIds \subseteq 0..MaxPlans
BY DEF PatchAssumption, NoPlan, Plans, NoTask, Tasks, Steps, States, Old, Working, Making, PlanIds

LEMMA PatchBegins == ASSUME PatchAssumption, PatchInit PROVE PatchInv
<1>1. 1 \in 1..MaxHeads
  BY DEF PatchAssumption
<1>2. QED
  BY <1>1, Nothing DEF PatchInit, PatchInv, PlanHolds, TaskHolds, CountHolds

\* The task of one account goes on, over plans that are kept, pruned or, for its own, written.
LEMMA TaskGoes ==
  ASSUME PatchAssumption, PatchInv, NEW u \in Owners, NEW t \in Tasks,
         task' = [task EXCEPT ![u] = t], UNCHANGED <<pull, opened>>,
         head' \in [Owners -> 1..MaxHeads], plan' \in [Owners -> Plans],
         \A v \in Owners \ {u} : plan'[v] \in {plan[v], NoPlan},
         PlanHolds(plan'[u]), Kept(u), TaskHolds(plan'[u], t, pull[u])
  PROVE  PatchInv' /\ AllKept
<1>1. task' \in [Owners -> Tasks] /\ task'[u] = t /\ \A v \in Owners \ {u} : task'[v] = task[v]
  BY DEF PatchInv
<1>2. ASSUME NEW v \in Owners \ {u}
      PROVE  Kept(v) /\ PlanHolds(plan'[v]) /\ TaskHolds(plan'[v], task'[v], pull'[v])
  <2>1. task'[v] = task[v] /\ pull'[v] = pull[v]
    BY <1>1
  <2>2. PlanHolds(plan[v]) /\ TaskHolds(plan[v], task[v], pull[v])
    BY DEF PatchInv
  <2>3. CASE plan'[v] = plan[v]
    BY <2>1, <2>2, <2>3 DEF Kept
  <2>4. CASE plan'[v] = NoPlan
    BY <2>1, <2>2, <2>4, Nothing DEF Kept, PlanHolds, TaskHolds
  <2>5. QED
    BY <2>3, <2>4
<1>3. AllKept
  BY <1>2 DEF AllKept
<1>4. \A v \in Owners : CountHolds(pull'[v], opened'[v])
  BY DEF PatchInv
<1>5. \A v \in Owners : PlanHolds(plan'[v]) /\ TaskHolds(plan'[v], task'[v], pull'[v])
  BY <1>1, <1>2
<1>6. QED
  BY <1>1, <1>3, <1>4, <1>5 DEF PatchInv, PlanHolds, TaskHolds, CountHolds

\* A task that ends.
LEMMA TaskLeaves ==
  ASSUME PatchAssumption, PatchInv, NEW u \in Owners, task' = [task EXCEPT ![u] = NoTask],
         UNCHANGED <<pull, opened>>, head' \in [Owners -> 1..MaxHeads], plan' \in [Owners -> Plans],
         \A v \in Owners \ {u} : plan'[v] \in {plan[v], NoPlan},
         PlanHolds(plan'[u]), Kept(u)
  PROVE  PatchInv' /\ AllKept
<1>1. TaskHolds(plan'[u], NoTask, pull[u])
  BY Nothing DEF TaskHolds
<1>2. QED
  BY <1>1, Nothing, TaskGoes

\* A task that goes to its next step, the plan in its hands and in the table as they are.
LEMMA TaskAwaits ==
  ASSUME PatchAssumption, PatchInv, NEW u \in Owners, NEW step \in Steps,
         task' = [task EXCEPT ![u].step = step],
         UNCHANGED <<plan, pull, opened, head>>,
         step \in Working => task[u].step \in Working,
         step \in Making => task[u].step \in Making \/ pull[u][task[u].id] = "none"
  PROVE  PatchInv' /\ AllKept
<1> DEFINE t == [task[u] EXCEPT !.step = step]
<1>1. t \in Tasks /\ t.step = step /\ t.id = task[u].id /\ task' = [task EXCEPT ![u] = t]
  BY DEF PatchInv, Tasks
<1>2. PlanHolds(plan'[u]) /\ Kept(u) /\ TaskHolds(plan'[u], t, pull[u])
  BY <1>1 DEF PatchInv, TaskHolds, Kept
<1>3. QED
  BY <1>1, <1>2, TaskGoes DEF PatchInv

LEMMA StateSaved ==
  ASSUME PatchInv, NEW u \in Owners, NEW state \in States, SaveState(u, state)
  PROVE  /\ plan' \in [Owners -> Plans] /\ plan'[u].id = task[u].id /\ plan'[u].state = state
         /\ \A v \in Owners \ {u} : plan'[v] = plan[v]
<1>1. PICK a \in Ages(u) :
        plan' = [plan EXCEPT ![u] = [id |-> task[u].id, sha |-> task[u].sha, state |-> state, age |-> a]]
  BY DEF SaveState, Save
<1>2. a \in 0..Old
  <2>1. plan[u].age \in 0..Old /\ Old \in 0..Old
    BY DEF PatchInv, Plans, Old
  <2>2. QED
    BY <2>1 DEF Ages
<1>3. [id |-> task[u].id, sha |-> task[u].sha, state |-> state, age |-> a] \in Plans
  BY <1>2 DEF PatchInv, Tasks, Plans
<1>4. QED
  BY <1>1, <1>3 DEF PatchInv

\* What a task that ends writes of the plan it worked on.
LEMMA TaskSaves ==
  ASSUME PatchAssumption, PatchInv, NEW u \in Owners, NEW state \in States, SaveState(u, state),
         task[u].step \in Working, Leave(u), UNCHANGED <<head, pull, opened>>
  PROVE  PatchInv' /\ AllKept
<1>1. /\ plan' \in [Owners -> Plans] /\ plan'[u].id = task[u].id
      /\ \A v \in Owners \ {u} : plan'[v] = plan[v]
  BY StateSaved
<1>2. PlanHolds(plan'[u]) /\ Kept(u)
  BY <1>1 DEF PatchInv, PlanHolds, TaskHolds, Kept
<1>3. QED
  BY <1>1, <1>2, TaskLeaves DEF Leave, PatchInv

\* prepare and status.
LEMMA PrepareKept ==
  ASSUME PatchAssumption, PatchInv, NEW u \in Owners,
         \/ StartPrepare(u) \/ PrepareChecks(u) \/ ReadJobs(u) \/ ReadHead(u) \/ SavePlan(u)
         \/ CreateJob(u) \/ StartStatus(u) \/ StatusChecks(u) \/ ReadResult(u)
  PROVE  PatchInv' /\ AllKept
<1>1. ASSUME NEW step \in {"prepare", "status"}, Enter(u, step), UNCHANGED <<plan, rest>>
      PROVE  PatchInv' /\ AllKept
  <2> DEFINE t == [NoTask EXCEPT !.step = step]
  <2>1. t \in Tasks /\ t.step = step /\ task' = [task EXCEPT ![u] = t]
    BY <1>1 DEF Enter, NoTask, Tasks, Steps, PatchAssumption
  <2>2. TaskHolds(plan'[u], t, pull[u])
    BY <1>1, <2>1 DEF TaskHolds, Working, Making
  <2>3. QED
    BY <1>1, <2>1, <2>2, TaskGoes DEF rest, repos, PatchInv, Kept
<1>2. ASSUME Leave(u) \/ task' = [task EXCEPT ![u] = NoTask], UNCHANGED <<plan, pull, opened, head>>
      PROVE  PatchInv' /\ AllKept
  BY <1>2, TaskLeaves DEF Leave, PatchInv, Kept
<1>3. ASSUME NEW v \in Owners PROVE Pruned(v) \in {plan[v], NoPlan}
  BY DEF Pruned
<1>4. CASE PrepareChecks(u)
  <2>1. plan' = [v \in Owners |-> Pruned(v)] /\ UNCHANGED <<pull, opened, head>>
    BY <1>4 DEF PrepareChecks, rest, repos
  <2>2. /\ plan' \in [Owners -> Plans] /\ plan'[u] \in {plan[u], NoPlan}
        /\ \A v \in Owners \ {u} : plan'[v] \in {plan[v], NoPlan}
    BY <1>3, <2>1, Nothing DEF PatchInv
  <2>3. PlanHolds(plan'[u]) /\ Kept(u)
    BY <2>2, Nothing DEF PatchInv, PlanHolds, Kept
  <2>4. CASE Leave(u)
    BY <2>1, <2>2, <2>3, <2>4, TaskLeaves DEF Leave, PatchInv
  <2>5. CASE Await(u, "jobs")
    <3> DEFINE t == [task[u] EXCEPT !.step = "jobs"]
    <3>1. t \in Tasks /\ t.step = "jobs" /\ task' = [task EXCEPT ![u] = t]
      BY <2>5 DEF Await, Tasks, Steps, PatchInv
    <3>2. TaskHolds(plan'[u], t, pull[u])
      BY <3>1 DEF TaskHolds, Working, Making
    <3>3. QED
      BY <2>1, <2>2, <2>3, <3>1, <3>2, TaskGoes DEF PatchInv
  <2>6. QED
    BY <1>4, <2>4, <2>5 DEF PrepareChecks
<1>5. CASE ReadJobs(u)
  <2>1. UNCHANGED <<plan, pull, opened, head>> /\ (Leave(u) \/ Await(u, "read"))
    BY <1>5 DEF ReadJobs, rest, repos
  <2>2. CASE Await(u, "read")
    BY <2>1, <2>2, TaskAwaits DEF Await, Steps, Working, Making
  <2>3. QED
    BY <1>2, <2>1, <2>2
<1>6. CASE ReadHead(u)
  <2>1. UNCHANGED <<plan, pull, opened, head>> /\ task[u].step = "read"
        /\ (Leave(u) \/ task' = [task EXCEPT ![u].sha = head[u]])
    BY <1>6 DEF ReadHead, rest, repos
  <2>2. CASE task' = [task EXCEPT ![u].sha = head[u]]
    <3> DEFINE t == [task[u] EXCEPT !.sha = head[u]]
    <3>1. head[u] \in 0..MaxHeads
      BY DEF PatchInv, PatchAssumption
    <3>2. t \in Tasks /\ t.step = "read" /\ task' = [task EXCEPT ![u] = t]
      BY <2>1, <2>2, <3>1 DEF Tasks, PatchInv
    <3>3. TaskHolds(plan'[u], t, pull[u])
      BY <3>2 DEF TaskHolds, Working, Making
    <3>4. QED
      BY <2>1, <3>2, <3>3, TaskGoes DEF PatchInv, Kept
  <2>3. QED
    BY <1>2, <2>1, <2>2
<1>7. CASE SavePlan(u)
  <2>1. UNCHANGED <<pull, opened, head>>
    BY <1>7 DEF SavePlan, rest, repos
  <2>2. CASE Leave(u) /\ plan' = plan
    BY <1>2, <2>1, <2>2
  <2>3. ASSUME NEW i \in FreshId(u),
               plan' = [plan EXCEPT ![u] = [id |-> i, sha |-> task[u].sha, state |-> "preparing", age |-> 0]],
               task' = [task EXCEPT ![u].step = "start", ![u].id = i]
        PROVE  PatchInv' /\ AllKept
    <3> DEFINE p == [id |-> i, sha |-> task[u].sha, state |-> "preparing", age |-> 0]
               t == [task[u] EXCEPT !.step = "start", !.id = i]
    <3>1. i \in PlanIds /\ i \in 0..MaxPlans /\ plan[u].id < i /\ plan[u].id \in Nat
      BY <2>3 DEF FreshId, PlanIds, PatchInv, Plans
    <3>2. p \in Plans
      BY <3>1 DEF PatchInv, Tasks, Plans, States, Old
    <3>3. t \in Tasks /\ t.step = "start" /\ t.id = i /\ task' = [task EXCEPT ![u] = t]
      BY <2>3, <3>1 DEF PatchInv, Tasks, Steps
    <3>4. plan' \in [Owners -> Plans] /\ plan'[u] = p /\ \A v \in Owners \ {u} : plan'[v] = plan[v]
      BY <2>3, <3>2 DEF PatchInv
    <3>5. PlanHolds(plan'[u]) /\ Kept(u) /\ TaskHolds(plan'[u], t, pull[u])
      BY <3>1, <3>3, <3>4 DEF PlanHolds, Kept, TaskHolds, Working, Making
    <3>6. QED
      BY <2>1, <3>3, <3>4, <3>5, TaskGoes DEF PatchInv
  <2>4. QED
    BY <1>7, <2>2, <2>3 DEF SavePlan, Save
<1>8. CASE CreateJob(u)
  <2>1. UNCHANGED <<pull, opened, head>> /\ Leave(u) /\ task[u].step \in Working
        /\ (plan' = plan \/ SaveState(u, "failed"))
    BY <1>8 DEF CreateJob, repos, Working
  <2>2. QED
    BY <1>2, <2>1, TaskSaves DEF States
<1>9. CASE StatusChecks(u)
  <2>1. plan' = [v \in Owners |-> Pruned(v)] /\ UNCHANGED <<pull, opened, head>>
    BY <1>9 DEF StatusChecks, rest, repos
  <2>2. /\ plan' \in [Owners -> Plans] /\ plan'[u] \in {plan[u], NoPlan}
        /\ \A v \in Owners \ {u} : plan'[v] \in {plan[v], NoPlan}
    BY <1>3, <2>1, Nothing DEF PatchInv
  <2>3. PlanHolds(plan'[u]) /\ Kept(u)
    BY <2>2, Nothing DEF PatchInv, PlanHolds, Kept
  <2>4. CASE Leave(u)
    BY <2>1, <2>2, <2>3, <2>4, TaskLeaves DEF Leave, PatchInv
  <2>5. CASE Unsettled(plan'[u]) /\ task' = [task EXCEPT ![u] = Holding("job", plan'[u])]
    <3> DEFINE t == Holding("job", plan'[u])
    <3>1. plan'[u].state = "preparing" /\ plan'[u].id \in PlanIds /\ plan'[u] \in Plans
      BY <2>2, <2>3, <2>5 DEF Unsettled, PlanHolds
    <3>2. t \in Tasks /\ t.step = "job" /\ t.id = plan'[u].id
      BY <3>1 DEF Holding, Tasks, Steps, Plans
    <3>3. TaskHolds(plan'[u], t, pull[u])
      BY <3>1, <3>2 DEF TaskHolds, Making
    <3>4. QED
      BY <2>1, <2>2, <2>3, <2>5, <3>2, <3>3, TaskGoes DEF PatchInv
  <2>6. QED
    BY <1>9, <2>4, <2>5 DEF StatusChecks
<1>10. CASE ReadResult(u)
  <2>1. UNCHANGED <<pull, opened, head>> /\ Leave(u) /\ task[u].step \in Working
        /\ (plan' = plan \/ \E s \in {"ready", "blocked", "failed"} : SaveState(u, s))
    BY <1>10 DEF ReadResult, repos, Working
  <2>2. QED
    BY <1>2, <2>1, TaskSaves DEF States
<1>11. QED
  BY <1>1, <1>4, <1>5, <1>6, <1>7, <1>8, <1>9, <1>10 DEF StartPrepare, StartStatus

\* createPr.
LEMMA CreatePrKept ==
  ASSUME PatchAssumption, PatchInv, NEW u \in Owners,
         \/ StartCreatePr(u) \/ CreateChecks(u) \/ FindEarlier(u) \/ CheckBase(u) \/ CreateRef(u)
         \/ CompareBranch(u) \/ OpenPull(u) \/ FindAgain(u) \/ RecordPull(u) \/ CallFails(u)
  PROVE  PatchInv' /\ AllKept
<1>1. CASE StartCreatePr(u)
  <2> DEFINE t == [NoTask EXCEPT !.step = "create"]
  <2>1. t \in Tasks /\ t.step = "create" /\ task' = [task EXCEPT ![u] = t]
    BY <1>1 DEF StartCreatePr, Enter, NoTask, Tasks, Steps, PatchAssumption
  <2>2. TaskHolds(plan'[u], t, pull[u])
    BY <2>1 DEF TaskHolds, Working, Making
  <2>3. UNCHANGED <<plan, pull, opened, head>>
    BY <1>1 DEF StartCreatePr, rest, repos
  <2>4. QED
    BY <2>1, <2>2, <2>3, TaskGoes DEF PatchInv, Kept
<1>2. ASSUME Leave(u), UNCHANGED <<plan, pull, opened, head>> PROVE PatchInv' /\ AllKept
  BY <1>2, TaskLeaves DEF Leave, PatchInv, Kept
<1>3. CASE CreateChecks(u)
  <2>1. UNCHANGED <<plan, pull, opened, head>>
    BY <1>3 DEF CreateChecks, rest, repos
  <2>2. CASE plan[u].state \in {"ready", "creating"} /\ task' = [task EXCEPT ![u] = Holding("find", plan[u])]
    <3> DEFINE t == Holding("find", plan[u])
    <3>1. t \in Tasks /\ t.step = "find" /\ t.id = plan[u].id
      BY DEF Holding, Tasks, Steps, Plans, PatchInv
    <3>2. TaskHolds(plan'[u], t, pull[u])
      BY <2>1, <2>2, <3>1 DEF TaskHolds, Making, PatchInv, PlanHolds
    <3>3. QED
      BY <2>1, <2>2, <3>1, <3>2, TaskGoes DEF PatchInv, Kept
  <2>3. QED
    BY <1>2, <1>3, <2>1, <2>2 DEF CreateChecks
<1>4. CASE FindEarlier(u)
  <2>1. UNCHANGED <<plan, pull, opened, head>> /\ task[u].step = "find"
    BY <1>4 DEF FindEarlier, rest, repos
  <2>2. CASE FindPull(u)
    BY <1>4, <2>1, <2>2, TaskAwaits DEF FindEarlier, Await, Steps, Working, Making
  <2>3. CASE ~FindPull(u)
    BY <1>4, <2>1, <2>3, TaskAwaits DEF FindEarlier, FindPull, Await, Steps, Working, Making
  <2>4. QED
    BY <2>2, <2>3
<1>5. CASE CheckBase(u)
  <2>1. UNCHANGED <<pull, opened, head>> /\ task[u].step = "base"
    BY <1>5 DEF CheckBase, rest, repos
  <2>2. CASE SaveState(u, "blocked") /\ Leave(u)
    BY <2>1, <2>2, TaskSaves DEF States, Working
  <2>3. CASE SaveState(u, "creating") /\ Await(u, "ref")
    <3> DEFINE t == [task[u] EXCEPT !.step = "ref"]
    <3>1. t \in Tasks /\ t.step = "ref" /\ t.id = task[u].id /\ task' = [task EXCEPT ![u] = t]
      BY <2>3 DEF Await, Tasks, Steps, PatchInv
    <3>2. /\ plan' \in [Owners -> Plans] /\ plan'[u].id = task[u].id /\ plan'[u].state = "creating"
          /\ \A v \in Owners \ {u} : plan'[v] = plan[v]
      BY <2>3, StateSaved DEF States
    <3>3. TaskHolds(plan[u], task[u], pull[u])
      BY DEF PatchInv
    <3>4. task[u].id \in PlanIds /\ plan[u].state # "pr" /\ pull[u][task[u].id] = "none"
      BY <2>1, <3>3 DEF TaskHolds, Working, Making
    <3>5. PlanHolds(plan'[u]) /\ Kept(u) /\ TaskHolds(plan'[u], t, pull[u])
      BY <3>1, <3>2, <3>4 DEF PlanHolds, Kept, TaskHolds
    <3>6. QED
      BY <2>1, <3>1, <3>2, <3>5, TaskGoes DEF PatchInv
  <2>4. QED
    BY <1>5, <2>2, <2>3 DEF CheckBase
<1>6. CASE CreateRef(u)
  <2>1. UNCHANGED <<plan, pull, opened, head>> /\ task[u].step = "ref"
        /\ (Leave(u) \/ \E step \in {"pull", "compare"} : Await(u, step))
    BY <1>6 DEF CreateRef
  <2>2. ASSUME NEW step \in {"pull", "compare"}, Await(u, step) PROVE PatchInv' /\ AllKept
    BY <2>1, <2>2, TaskAwaits DEF Await, Steps, Working, Making
  <2>3. QED
    BY <1>2, <2>1, <2>2
<1>7. CASE CompareBranch(u)
  <2>1. UNCHANGED <<pull, opened, head>> /\ task[u].step = "compare"
    BY <1>7 DEF CompareBranch, rest, repos
  <2>2. CASE Await(u, "pull") /\ plan' = plan
    BY <2>1, <2>2, TaskAwaits DEF Await, Steps, Working, Making
  <2>3. CASE SaveState(u, "blocked") /\ Leave(u)
    BY <2>1, <2>3, TaskSaves DEF States, Working
  <2>4. QED
    BY <1>7, <2>2, <2>3 DEF CompareBranch
<1>8. CASE OpenPull(u)
  <2> DEFINE i == task[u].id
  <2>1. /\ UNCHANGED <<plan, head>> /\ task[u].step = "pull"
        /\ \E step \in {"found", "again"} : Await(u, step)
    BY <1>8 DEF OpenPull
  <2>2. PICK step \in {"found", "again"} : Await(u, step)
    BY <2>1
  <2>3. CASE UNCHANGED <<pull, opened>>
    BY <2>1, <2>2, <2>3, TaskAwaits DEF Await, Steps, Working, Making
  <2>4. CASE /\ pull' = [pull EXCEPT ![u][i] = "open"]
             /\ opened' = [opened EXCEPT ![u][i] = @ + 1]
    <3> DEFINE t == [task[u] EXCEPT !.step = step]
    <3>1. t \in Tasks /\ t.step = step /\ t.id = i /\ task' = [task EXCEPT ![u] = t]
      BY <2>2 DEF Await, Tasks, Steps, PatchInv
    <3>2. TaskHolds(plan[u], task[u], pull[u]) /\ CountHolds(pull[u], opened[u])
      BY DEF PatchInv
    <3>3. i \in PlanIds /\ plan[u].state # "pr" /\ pull[u][i] = "none" /\ opened[u][i] = 0
      BY <2>1, <3>2 DEF TaskHolds, CountHolds, Working, Making
    <3>4. /\ pull' \in [Owners -> [PlanIds -> {"none", "open", "closed"}]]
          /\ opened' \in [Owners -> [PlanIds -> Nat]]
      BY <2>4, <3>3 DEF PatchInv
    <3>5. CountHolds(pull'[u], opened'[u]) /\ TaskHolds(plan'[u], t, pull'[u])
      BY <2>1, <2>4, <3>1, <3>2, <3>3 DEF CountHolds, TaskHolds, Making, PatchInv
    <3>6. \A v \in Owners \ {u} : task'[v] = task[v] /\ pull'[v] = pull[v] /\ opened'[v] = opened[v]
      BY <2>4, <3>1 DEF PatchInv
    <3>7. task' \in [Owners -> Tasks] /\ task'[u] = t
      BY <3>1 DEF PatchInv
    <3>8. \A v \in Owners : CountHolds(pull'[v], opened'[v]) /\ TaskHolds(plan'[v], task'[v], pull'[v])
      BY <2>1, <3>5, <3>6, <3>7 DEF PatchInv
    <3>9. AllKept /\ \A v \in Owners : PlanHolds(plan'[v])
      BY <2>1 DEF AllKept, Kept, PatchInv
    <3>10. QED
      BY <2>1, <3>4, <3>7, <3>8, <3>9 DEF PatchInv, PlanHolds, TaskHolds, CountHolds
  <2>5. QED
    BY <1>8, <2>3, <2>4 DEF OpenPull
<1>9. CASE FindAgain(u)
  <2>1. UNCHANGED <<plan, pull, opened, head>> /\ task[u].step = "again"
        /\ (Leave(u) \/ Await(u, "found"))
    BY <1>9 DEF FindAgain, rest, repos
  <2>2. CASE Await(u, "found")
    BY <2>1, <2>2, TaskAwaits DEF Await, Steps, Working, Making
  <2>3. QED
    BY <1>2, <2>1, <2>2
<1>10. CASE RecordPull(u)
  BY <1>10, TaskSaves DEF RecordPull, States, Working, rest, repos
<1>11. CASE CallFails(u)
  BY <1>2, <1>11 DEF CallFails, rest, repos
<1>12. QED
  BY <1>1, <1>3, <1>4, <1>5, <1>6, <1>7, <1>8, <1>9, <1>10, <1>11

\* GitHub, the clock, the cron, an erasure, a crash: plans stay or go, tasks go on or are gone.
LEMMA SurroundingsMove ==
  ASSUME PatchAssumption, PatchInv, opened' = opened,
         plan' \in [Owners -> Plans], task' \in [Owners -> Tasks], head' \in [Owners -> 1..MaxHeads],
         pull' \in [Owners -> [PlanIds -> {"none", "open", "closed"}]],
         \A u \in Owners :
           /\ task'[u] \in {task[u], NoTask}
           /\ plan'[u] = NoPlan \/ (plan'[u].id = plan[u].id /\ plan'[u].state = plan[u].state)
           /\ \A i \in PlanIds : pull'[u][i] = "none" <=> pull[u][i] = "none"
  PROVE  PatchInv' /\ AllKept
<1>1. ASSUME NEW u \in Owners
      PROVE  /\ PlanHolds(plan'[u]) /\ Kept(u) /\ CountHolds(pull'[u], opened'[u])
             /\ TaskHolds(plan'[u], task'[u], pull'[u])
  <2>1. PlanHolds(plan[u]) /\ TaskHolds(plan[u], task[u], pull[u]) /\ CountHolds(pull[u], opened[u])
    BY DEF PatchInv
  <2>2. PlanHolds(plan'[u]) /\ Kept(u)
    BY <2>1, Nothing DEF PlanHolds, Kept
  <2>3. CountHolds(pull'[u], opened'[u])
    BY <2>1 DEF CountHolds
  <2>4. CASE task'[u] = NoTask
    BY <2>2, <2>3, <2>4, Nothing DEF TaskHolds
  <2>5. CASE task'[u] = task[u]
    <3>1. task[u].step \in Making => task[u].step \in Working
      BY DEF Working, Making
    <3>2. plan[u].state # "pr" => plan'[u].state # "pr"
      BY Nothing
    <3>3. QED
      BY <2>1, <2>2, <2>3, <2>5, <3>1, <3>2 DEF TaskHolds
  <2>6. QED
    BY <2>4, <2>5
<1>2. QED
  BY <1>1 DEF AllKept, PatchInv, PlanHolds, TaskHolds, CountHolds

LEMMA PatchKept ==
  ASSUME PatchAssumption, PatchInv, [PatchNext]_patchVars
  PROVE  PatchInv' /\ AllKept
<1>1. CASE UNCHANGED patchVars
  BY <1>1 DEF patchVars, PatchInv, AllKept, Kept, PlanHolds, TaskHolds, CountHolds
<1>2. ASSUME NEW u \in Owners, StartPrepare(u) \/ StartStatus(u) \/ StartCreatePr(u) \/ PatchStep(u)
      PROVE  PatchInv' /\ AllKept
  BY <1>2, PrepareKept, CreatePrKept DEF PatchStep
<1>3. ASSUME NEW u \in Owners, OwnerPushes(u) PROVE PatchInv' /\ AllKept
  <2>1. UNCHANGED <<plan, task, pull, opened>> /\ head' \in [Owners -> 1..MaxHeads]
    BY <1>3 DEF OwnerPushes, PatchInv, PatchAssumption
  <2>2. QED
    BY <2>1, SurroundingsMove DEF PatchInv
<1>4. ASSUME NEW u \in Owners, NEW i \in PlanIds, JobEnds(u, i) PROVE PatchInv' /\ AllKept
  BY <1>4, SurroundingsMove DEF JobEnds, repos, PatchInv
<1>5. ASSUME NEW u \in Owners, NEW i \in PlanIds, OwnerCloses(u, i) PROVE PatchInv' /\ AllKept
  <2>1. /\ pull' \in [Owners -> [PlanIds -> {"none", "open", "closed"}]]
        /\ \A v \in Owners, j \in PlanIds : pull'[v][j] = "none" <=> pull[v][j] = "none"
    BY <1>5 DEF OwnerCloses, PatchInv
  <2>2. QED
    BY <1>5, <2>1, SurroundingsMove DEF OwnerCloses, PatchInv
<1>6. ASSUME NEW u \in Owners, PlanAges(u) PROVE PatchInv' /\ AllKept
  <2> DEFINE p == [plan[u] EXCEPT !.age = @ + 1]
  <2>1. p \in Plans /\ p.id = plan[u].id /\ p.state = plan[u].state
    <3>1. plan[u] \in Plans /\ plan[u].age \in 0..Old /\ plan[u].age < Old
      BY <1>6 DEF PlanAges, PatchInv, Plans
    <3>2. plan[u].age + 1 \in 0..Old
      BY <3>1 DEF Old
    <3>3. QED
      BY <3>1, <3>2 DEF Plans
  <2>2. plan' = [plan EXCEPT ![u] = p] /\ UNCHANGED <<task, head, pull, opened>>
    BY <1>6 DEF PlanAges, rest, repos
  <2>3. /\ plan' \in [Owners -> Plans]
        /\ \A v \in Owners : plan'[v].id = plan[v].id /\ plan'[v].state = plan[v].state
    BY <2>1, <2>2 DEF PatchInv
  <2>4. QED
    BY <2>2, <2>3, SurroundingsMove DEF PatchInv
<1>7. ASSUME NEW u \in Owners, EraseOwner(u) PROVE PatchInv' /\ AllKept
  <2>1. plan' \in [Owners -> Plans] /\ \A v \in Owners : plan'[v] \in {plan[v], NoPlan}
    BY <1>7, Nothing DEF EraseOwner, PatchInv
  <2>2. QED
    BY <1>7, <2>1, SurroundingsMove DEF EraseOwner, repos, PatchInv
<1>8. CASE Prune
  <2>1. plan' \in [Owners -> Plans] /\ \A v \in Owners : plan'[v] \in {plan[v], NoPlan}
    BY <1>8, Nothing DEF Prune, Pruned, PatchInv
  <2>2. QED
    BY <1>8, <2>1, SurroundingsMove DEF Prune, rest, repos, PatchInv
<1>9. CASE PatchCrash
  <2>1. task' \in [Owners -> Tasks] /\ \A v \in Owners : task'[v] = NoTask
    BY <1>9, Nothing DEF PatchCrash
  <2>2. QED
    BY <1>9, <2>1, SurroundingsMove DEF PatchCrash, rest, repos, PatchInv
<1>10. QED
  BY <1>1, <1>2, <1>3, <1>4, <1>5, <1>6, <1>7, <1>8, <1>9 DEF PatchNext

\* Whatever answers are lost and however often the user asks, one patch plan leads to one pull
\* request (security-patch.service createPr).
THEOREM OnePullPerPlan == PatchSpec => []OnePullRequest
<1>1. PatchInit => PatchInv
  BY PatchAssumption, PatchBegins
<1>2. PatchInv /\ [PatchNext]_patchVars => PatchInv'
  BY PatchAssumption, PatchKept
<1>3. PatchInv => OnePullRequest
  BY DEF PatchInv, CountHolds, OnePullRequest
<1>4. QED
  BY <1>1, <1>2, <1>3, PTL DEF PatchSpec

\* A plan whose pull request is recorded is not written back to an earlier state by a slower
\* request (security-patch.service exclusive, status, createPr).
THEOREM RecordedPlanKept == PatchSpec => ProposalKept
<1>1. PatchInit => PatchInv
  BY PatchAssumption, PatchBegins
<1>2. PatchInv /\ [PatchNext]_patchVars => PatchInv'
  BY PatchAssumption, PatchKept
<1>3. PatchInv /\ [PatchNext]_patchVars => [AllKept]_patchVars
  BY PatchAssumption, PatchKept
<1>4. QED
  BY <1>1, <1>2, <1>3, PTL DEF PatchSpec, ProposalKept, AllKept, Kept

-----------------------------------------------------------------------------
(* The deploy-success mail                                                 *)

\* The provider's key of a delivered mail is as old as the delivery, the first attempt is
\* no younger, and a request that may still be served began within the retry window.
KeyInv(d) ==
  /\ delivered[d] \in {0, 1} /\ (delivered[d] = 0 => remembered[d] = Forgotten)
  /\ note[d].tried => note[d].state # "none"
  /\ note[d].state = "sent" => delivered[d] = 1
  /\ delivered[d] = 1 /\ owner # "erased" =>
       /\ note[d].tried
       /\ note[d].since < RetryWindow => remembered[d] <= note[d].since

SendInv ==
  /\ tick.step \in {"stages", "live", "sending", "served"} => tick.digest \in Digests
  /\ tick.step \in {"sending", "served"} /\ owner # "erased" => note[tick.digest].tried
  /\ tick.step = "sending" /\ delivered[tick.digest] = 1 =>
       remembered[tick.digest] < RetryWindow + tick.underWay
  /\ tick.step = "served" => delivered[tick.digest] = 1

MailInv ==
  /\ MailTypeOK /\ SendInv /\ \A d \in Digests : KeyInv(d)
  /\ lastNotified # NoDigest => delivered[lastNotified] = 1

LEMMA MailBegins == ASSUME NotificationAssumption, MailInit PROVE MailInv
<1>0. NoNote \in Notes
  BY DEF NotificationAssumption, NoNote, Notes
<1>1. NoNote \in Notes /\ NoTick \in Ticks
  BY <1>0 DEF NotificationAssumption, NoTick, Ticks
<1>2. \A d \in Digests : note[d] = NoNote /\ delivered[d] = 0 /\ remembered[d] = Forgotten
  BY DEF MailInit
<1>3. MailTypeOK
  <2>1. Forgotten \in 0..Forgotten
    BY DEF NotificationAssumption, Forgotten
  <2>2. remembered \in [Digests -> 0..Forgotten]
    BY <2>1 DEF MailInit
  <2>3. delivered \in [Digests -> Nat] /\ note \in [Digests -> Notes] /\ tick \in Ticks
    BY <1>1 DEF MailInit
  <2>4. QED
    BY <2>2, <2>3 DEF MailInit, MailTypeOK
<1>4. SendInv
  BY DEF MailInit, SendInv, NoTick
<1>5. ASSUME NEW d \in Digests PROVE KeyInv(d)
  BY <1>2 DEF KeyInv, NoNote
<1>6. lastNotified = NoDigest
  BY DEF MailInit
<1>7. QED
  BY <1>3, <1>4, <1>5, <1>6 DEF MailInv

\* Nothing but the tick moves, and not to a request.
LEMMA TickMoves ==
  ASSUME NotificationAssumption, MailInv, UNCHANGED <<owner, note, lastNotified, provider>>,
         ready' \in Digests \cup {NoDigest}, built' \in BOOLEAN, tick' \in Ticks,
         tick'.step \in {"stages", "live"} => tick'.digest \in Digests,
         tick'.step \notin {"sending", "served"}
  PROVE  MailInv'
BY DEF MailInv, MailTypeOK, SendInv, KeyInv, provider

LEMMA OwnerStep ==
  ASSUME NotificationAssumption, MailInv, NEW o \in {"allowed", "revoked", "erased"}, OwnerChanges(o)
  PROVE  MailInv'
<1>1. NoNote \in Notes
  BY DEF NotificationAssumption, NoNote, Notes
<1>2. \A d \in Digests : note'[d] = IF o = "erased" THEN NoNote ELSE note[d]
  BY DEF OwnerChanges
<1>3. note' \in [Digests -> Notes]
  BY <1>1 DEF OwnerChanges, MailInv, MailTypeOK
<1>4. owner' = o /\ UNCHANGED <<ready, built, tick, lastNotified, remembered, delivered>> /\ owner # "erased"
  BY DEF OwnerChanges, provider
<1>5. MailTypeOK' /\ SendInv'
  BY <1>2, <1>3, <1>4 DEF MailInv, MailTypeOK, SendInv
<1>6. ASSUME NEW d \in Digests PROVE KeyInv(d)'
  BY <1>2, <1>4 DEF MailInv, KeyInv, NoNote
<1>7. QED
  BY <1>4, <1>5, <1>6 DEF MailInv

\* Time passes for the key, the first attempt and the request alike.
LEMMA TimeStep ==
  ASSUME NotificationAssumption, MailInv, MailTime
  PROVE  MailInv'
<1>1. /\ UNCHANGED <<ready, built, owner, lastNotified, delivered>>
      /\ tick \in Ticks /\ note \in [Digests -> Notes] /\ remembered \in [Digests -> 0..Forgotten]
      /\ RetryWindow \in Nat /\ RetryPause \in Nat /\ KeyRetention \in Nat /\ SendTime \in Nat
  BY DEF NotificationAssumption, MailTime, MailInv, MailTypeOK
<1>2. /\ tick' \in Ticks /\ tick'.step = tick.step /\ tick'.digest = tick.digest
      /\ tick.step = "sending" => tick'.underWay = tick.underWay + 1
  <2>1. CASE tick.step \in {"sending", "served"}
    <3>1. tick.underWay \in 0..SendTime /\ tick.underWay < SendTime
      BY <1>1, <2>1 DEF MailTime, Ticks
    <3>2. tick' = [tick EXCEPT !.underWay = tick.underWay + 1]
      BY <2>1 DEF MailTime
    <3>3. tick.underWay + 1 \in 0..SendTime
      BY <1>1, <3>1
    <3>4. QED
      BY <1>1, <3>2, <3>3 DEF Ticks
  <2>2. CASE tick.step \notin {"sending", "served"}
    BY <1>1, <2>2 DEF MailTime
  <2>3. QED
    BY <2>1, <2>2
<1>3. ASSUME NEW d \in Digests
      PROVE  /\ note'[d] \in Notes /\ remembered'[d] \in 0..Forgotten
             /\ note'[d].state = note[d].state /\ note'[d].tried = note[d].tried
             /\ note[d].tried /\ note[d].since < RetryWindow => note'[d].since = note[d].since + 1
             /\ note[d].since >= RetryWindow => note'[d].since >= RetryWindow
             /\ remembered[d] = Forgotten => remembered'[d] = Forgotten
             /\ remembered'[d] <= remembered[d] + 1
  <2>1. /\ note[d] \in Notes /\ remembered[d] \in 0..Forgotten /\ Forgotten \in Nat
        /\ remembered'[d] = Older(remembered[d], Forgotten)
        /\ note'[d] = [note[d] EXCEPT
             !.since = IF note[d].tried THEN Older(note[d].since, RetryWindow) ELSE note[d].since,
             !.wait = IF note[d].wait > 0 THEN note[d].wait - 1 ELSE 0]
    <3>1. note[d] \in Notes /\ remembered[d] \in 0..Forgotten /\ Forgotten \in Nat
      BY <1>1 DEF Forgotten
    <3>2. remembered'[d] = Older(remembered[d], Forgotten)
      BY DEF MailTime
    <3>3. QED
      BY <3>1, <3>2 DEF MailTime
  <2>2. /\ note'[d].state = note[d].state /\ note'[d].tried = note[d].tried
        /\ note'[d].since = IF note[d].tried THEN Older(note[d].since, RetryWindow) ELSE note[d].since
        /\ note'[d].wait = IF note[d].wait > 0 THEN note[d].wait - 1 ELSE 0
    BY <2>1 DEF Notes
  <2>3. note'[d].since \in 0..RetryWindow /\ note'[d].wait \in 0..RetryPause
    BY <1>1, <2>1, <2>2 DEF Notes, Older
  <2>4. note'[d] \in Notes
    BY <2>1, <2>3 DEF Notes
  <2>5. QED
    BY <1>1, <2>1, <2>2, <2>4 DEF Older, Notes
<1>4. MailTypeOK'
  <2>1. note' \in [Digests -> Notes] /\ remembered' \in [Digests -> 0..Forgotten]
    BY <1>3 DEF MailTime
  <2>2. QED
    BY <1>1, <1>2, <2>1 DEF MailInv, MailTypeOK
<1>5. SendInv'
  <2>1. CASE tick.step = "sending"
    <3>1. tick.digest \in Digests
      BY <2>1 DEF MailInv, SendInv
    <3>2. QED
      BY <1>1, <1>2, <1>3, <2>1, <3>1 DEF MailInv, SendInv, Ticks
  <2>2. CASE tick.step # "sending"
    BY <1>1, <1>2, <1>3, <2>2 DEF MailInv, SendInv
  <2>3. QED
    BY <2>1, <2>2
<1>6. ASSUME NEW d \in Digests PROVE KeyInv(d)'
  <2>1. /\ note[d].since \in Nat /\ remembered[d] \in Nat /\ remembered'[d] \in Nat
        /\ note'[d].since \in Nat
    BY <1>1, <1>3 DEF Notes, Forgotten
  <2>2. KeyInv(d)
    BY DEF MailInv
  <2>3. QED
    BY <1>1, <1>3, <2>1, <2>2 DEF KeyInv, Forgotten
<1>7. QED
  BY <1>1, <1>4, <1>5, <1>6 DEF MailInv

\* A request goes out within the window of the first attempt.
LEMMA DispatchStep ==
  ASSUME NotificationAssumption, MailInv, Dispatch
  PROVE  MailInv'
<1>0. PICK d \in Digests : d = tick.digest
  BY DEF Dispatch, MailInv, SendInv
<1> DEFINE n == Queued(d)
<1>1. /\ UNCHANGED <<ready, built, owner, lastNotified, remembered, delivered>>
      /\ tick \in Ticks /\ note[d] \in Notes /\ KeyInv(d) /\ tick.step = "live"
      /\ RetryWindow \in Nat /\ RetryPause \in Nat /\ SendTime \in Nat
  BY <1>0 DEF Dispatch, provider, MailInv, MailTypeOK, SendInv, NotificationAssumption
<1>2. NoTick \in Ticks /\ NoTick.step = "idle"
  BY <1>1 DEF NoTick, Ticks
<1>3. /\ n \in Notes /\ n.state # "none" /\ n.tried = note[d].tried /\ n.state \in {note[d].state, "pending"}
      /\ note[d].tried => n = note[d]
  <2>1. CASE note[d].state = "none"
    <3>1. n = [state |-> "pending", since |-> 0, wait |-> 0, tried |-> FALSE]
      BY <2>1 DEF Queued, NoNote
    <3>2. note[d].tried = FALSE
      BY <1>1, <2>1 DEF KeyInv, Notes
    <3>3. n \in Notes
      BY <1>1, <3>1 DEF Notes
    <3>4. n.state = "pending" /\ n.tried = FALSE
      BY <3>1
    <3>5. QED
      BY <3>2, <3>3, <3>4
  <2>2. CASE note[d].state # "none"
    BY <1>1, <2>2 DEF Queued
  <2>3. QED
    BY <2>1, <2>2
<1>4. CASE owner # "allowed"
  BY <1>1, <1>2, <1>4, TickMoves DEF Dispatch, MailInv, MailTypeOK, provider
<1>5. ASSUME NEW m \in Notes, note' = [note EXCEPT ![d] = m], owner = "allowed",
             m.tried \/ ~n.tried, m.state # "none", m.state = "sent" => note[d].state = "sent",
             n.tried => m.since = n.since
      PROVE  /\ note' \in [Digests -> Notes] /\ note'[d] = m
             /\ \A e \in Digests : KeyInv(e)'
  <2>1. note' \in [Digests -> Notes] /\ note'[d] = m
    BY <1>1, <1>5 DEF MailInv, MailTypeOK
  <2>2. KeyInv(d)'
    BY <1>1, <1>3, <1>5, <2>1 DEF KeyInv
  <2>3. ASSUME NEW e \in Digests, e # d PROVE KeyInv(e)'
    BY <1>1, <1>5, <2>3 DEF MailInv, MailTypeOK, KeyInv
  <2>4. QED
    BY <2>1, <2>2, <2>3
<1>6. CASE owner = "allowed" /\ Due(n)
  <2> DEFINE m == Attempted(n)
  <2>1. /\ m \in Notes /\ m.tried /\ m.state = n.state /\ (n.tried => m.since = n.since)
        /\ n.state = "pending"
    <3>1. n.tried \in BOOLEAN /\ n.since \in 0..RetryWindow /\ RetryPause \in 0..RetryPause
      BY <1>1, <1>3 DEF Notes
    <3>2. (IF n.tried THEN n.since ELSE 0) \in 0..RetryWindow
      BY <1>1, <3>1
    <3>3. QED
      BY <1>1, <1>3, <1>6, <3>1, <3>2 DEF Attempted, Notes, Due
  <2>2. note' = [note EXCEPT ![d] = m] /\ tick' = [tick EXCEPT !.step = "sending", !.underWay = 0]
    BY <1>0, <1>6 DEF Dispatch
  <2>3. /\ note' \in [Digests -> Notes] /\ note'[d] = m
        /\ \A e \in Digests : KeyInv(e)'
    <3> HIDE DEF m
    <3>1. QED
      BY <1>5, <1>6, <1>3, <2>1, <2>2
  <2>4. tick' \in Ticks /\ tick'.step = "sending" /\ tick'.digest = d /\ tick'.underWay = 0
    <3>1. 0 \in 0..SendTime /\ tick \in Ticks
      BY <1>1
    <3>2. QED
      BY <1>0, <2>2, <3>1 DEF Ticks
  <2>5. delivered[d] = 1 => remembered[d] < RetryWindow + 0
    <3>1. SUFFICES ASSUME delivered[d] = 1 PROVE remembered[d] < RetryWindow
      BY <1>1
    <3>2. note[d].tried /\ n = note[d]
      BY <1>1, <1>3, <1>6, <3>1 DEF KeyInv
    <3>3. note[d].since < RetryWindow /\ remembered[d] <= note[d].since
      BY <1>1, <1>6, <3>1, <3>2 DEF Due, WindowClosed, KeyInv, Notes
    <3>4. remembered[d] \in Nat /\ note[d].since \in Nat
      BY <1>1 DEF MailInv, MailTypeOK, Notes, Forgotten, NotificationAssumption
    <3>5. QED
      BY <1>1, <3>3, <3>4
  <2>6. SendInv'
    BY <1>1, <2>1, <2>3, <2>4, <2>5 DEF SendInv
  <2>7. QED
    BY <1>1, <2>3, <2>4, <2>6 DEF MailInv, MailTypeOK
<1>7. CASE owner = "allowed" /\ ~Due(n)
  <2>1. PICK m \in Notes : /\ note' = [note EXCEPT ![d] = m] /\ m.tried = n.tried /\ m.since = n.since
                           /\ m.state \in {n.state, "expired"}
    <3>1. CASE n.state = "pending" /\ WindowClosed(n)
      <4> DEFINE m == [n EXCEPT !.state = "expired"]
      <4>1. m \in Notes /\ m.tried = n.tried /\ m.since = n.since /\ m.state = "expired"
        BY <1>3 DEF Notes
      <4>2. note' = [note EXCEPT ![d] = m]
        BY <1>0, <1>7, <3>1 DEF Dispatch
      <4>3. QED
        BY <4>1, <4>2
    <3>2. CASE ~(n.state = "pending" /\ WindowClosed(n))
      BY <1>0, <1>3, <1>7, <3>2 DEF Dispatch
    <3>3. QED
      BY <3>1, <3>2
  <2>2. note' \in [Digests -> Notes] /\ \A e \in Digests : KeyInv(e)'
    BY <1>3, <1>5, <1>7, <2>1
  <2>3. tick' = NoTick
    BY <1>0, <1>7 DEF Dispatch
  <2>4. QED
    BY <1>1, <1>2, <2>2, <2>3 DEF MailInv, MailTypeOK, SendInv
<1>8. QED
  BY <1>4, <1>6, <1>7

\* While the provider may forget the key the request can no longer be under way.
LEMMA ServeStep ==
  ASSUME NotificationAssumption, MailInv, Serve
  PROVE  MailInv'
<1>0. PICK d \in Digests : d = tick.digest
  BY DEF Serve, MailInv, SendInv
<1>1. /\ UNCHANGED <<ready, built, owner, note, lastNotified>> /\ tick' = [tick EXCEPT !.step = "served"]
      /\ d \in Digests /\ tick \in Ticks /\ tick.step = "sending" /\ KeyInv(d) /\ note[d] \in Notes
      /\ RetryWindow \in Nat /\ KeyRetention \in Nat /\ SendTime \in Nat
      /\ RetryWindow + SendTime <= KeyRetention /\ remembered[d] \in 0..Forgotten
  BY <1>0 DEF Serve, MailInv, MailTypeOK, SendInv, NotificationAssumption
<1>2. tick' \in Ticks /\ tick'.step = "served" /\ tick'.digest = d
  BY <1>0, <1>1 DEF Ticks
<1>3. CASE remembered[d] < KeyRetention
  <2>1. UNCHANGED <<remembered, delivered>> /\ delivered[d] = 1
    BY <1>0, <1>1, <1>3 DEF Serve, provider, KeyInv, Forgotten
  <2>2. QED
    BY <1>1, <1>2, <2>1 DEF MailInv, MailTypeOK, SendInv, KeyInv
<1>4. CASE ~(remembered[d] < KeyRetention)
  <2>1. delivered[d] = 0
    <3>1. tick.underWay \in 0..SendTime
      BY <1>1 DEF Ticks
    <3>2. delivered[d] = 1 => remembered[d] < RetryWindow + tick.underWay
      BY <1>0, <1>1 DEF MailInv, SendInv
    <3>3. QED
      BY <1>1, <1>4, <3>1, <3>2 DEF KeyInv, Forgotten
  <2>2. /\ remembered' = [remembered EXCEPT ![d] = 0]
        /\ delivered' = [delivered EXCEPT ![d] = 1]
    BY <1>0, <1>4, <2>1 DEF Serve
  <2>3. MailTypeOK'
    BY <1>1, <1>2, <2>2 DEF MailInv, MailTypeOK, Forgotten
  <2>4. delivered'[d] = 1 /\ remembered'[d] = 0
    BY <1>1, <2>2 DEF MailInv, MailTypeOK
  <2>5. SendInv'
    BY <1>1, <1>2, <2>4 DEF MailInv, SendInv
  <2>6. KeyInv(d)'
    BY <1>0, <1>1, <2>4 DEF MailInv, SendInv, KeyInv, Notes
  <2>7. ASSUME NEW e \in Digests, e # d PROVE KeyInv(e)'
    BY <1>1, <2>2, <2>7 DEF MailInv, MailTypeOK, KeyInv
  <2>8. lastNotified' # NoDigest => delivered'[lastNotified'] = 1
    BY <1>1, <2>2, <2>4 DEF MailInv, MailTypeOK
  <2>9. QED
    BY <2>3, <2>5, <2>6, <2>7, <2>8 DEF MailInv
<1>5. QED
  BY <1>3, <1>4

\* What is recorded was delivered.
LEMMA RecordStep ==
  ASSUME NotificationAssumption, MailInv, RecordSent
  PROVE  MailInv'
<1>0. PICK d \in Digests : d = tick.digest
  BY DEF RecordSent, MailInv, SendInv
<1>1. /\ UNCHANGED <<ready, built, owner, remembered, delivered>> /\ tick' = NoTick
      /\ d \in Digests /\ delivered[d] = 1 /\ KeyInv(d) /\ note[d] \in Notes
      /\ owner # "erased" => note[d].tried
  BY <1>0 DEF RecordSent, provider, MailInv, MailTypeOK, SendInv
<1>2. NoTick \in Ticks /\ NoTick.step = "idle"
  BY DEF NotificationAssumption, NoTick, Ticks
<1>3. CASE owner = "erased"
  BY <1>1, <1>2, <1>3, TickMoves DEF RecordSent, MailInv, MailTypeOK, provider
<1>4. CASE owner # "erased"
  <2> DEFINE m == [note[d] EXCEPT !.state = "sent"]
  <2>1. m \in Notes /\ m.state = "sent" /\ m.tried = note[d].tried /\ m.since = note[d].since
    BY <1>1 DEF Notes
  <2>2. note' = [note EXCEPT ![d] = m] /\ lastNotified' = d
    BY <1>0, <1>4 DEF RecordSent
  <2> HIDE DEF m
  <2>3. note' \in [Digests -> Notes] /\ note'[d] = m
    BY <1>1, <2>1, <2>2 DEF MailInv, MailTypeOK
  <2>4. KeyInv(d)'
    BY <1>1, <2>1, <2>3 DEF KeyInv
  <2>5. ASSUME NEW e \in Digests, e # d PROVE KeyInv(e)'
    BY <1>1, <2>2, <2>5 DEF MailInv, MailTypeOK, KeyInv
  <2>6. QED
    BY <1>1, <1>2, <2>2, <2>3, <2>4, <2>5 DEF MailInv, MailTypeOK, SendInv
<1>5. QED
  BY <1>3, <1>4

LEMMA MailGoes ==
  ASSUME NotificationAssumption, MailInv, [MailNext]_mailVars
  PROVE  MailInv'
<1>1. tick \in Ticks /\ NoTick \in Ticks /\ NoTick.step = "idle" /\ ready \in Digests \cup {NoDigest}
      /\ built \in BOOLEAN
      /\ (tick.step = "stages" => tick.digest \in Digests)
  BY DEF MailInv, MailTypeOK, SendInv, NotificationAssumption, NoTick, Ticks
<1>2. CASE UNCHANGED mailVars
  BY <1>2 DEF mailVars, provider, MailInv, MailTypeOK, SendInv, KeyInv
<1>3. ASSUME NEW d \in Digests \cup {NoDigest}, ImageChanges(d) \/ BuildChanges PROVE MailInv'
  BY <1>3 DEF ImageChanges, BuildChanges, provider, MailInv, MailTypeOK, SendInv, KeyInv
<1>4. CASE MailCrash \/ MailCheckFails \/ SendFails
  BY <1>1, <1>4, TickMoves DEF MailCrash, MailCheckFails, SendFails, quiet
<1>5. CASE StartTick
  <2>1. tick' \in Ticks /\ tick'.step = "argo"
    BY <1>1, <1>5 DEF StartTick, NoTick, Ticks
  <2>2. QED
    BY <1>1, <1>5, <2>1, TickMoves DEF StartTick, quiet
<1>6. CASE ReadReadyDigest
  <2>1. tick' = NoTick \/ (tick' \in Ticks /\ tick'.step = "stages" /\ tick'.digest \in Digests)
    BY <1>1, <1>6 DEF ReadReadyDigest, Ticks
  <2>2. QED
    BY <1>1, <1>6, <2>1, TickMoves DEF ReadReadyDigest, quiet
<1>7. CASE ReadStages
  <2>1. tick' = NoTick \/ (tick' \in Ticks /\ tick'.step = "live" /\ tick'.digest \in Digests)
    BY <1>1, <1>7 DEF ReadStages, Ticks
  <2>2. QED
    BY <1>1, <1>7, <2>1, TickMoves DEF ReadStages, quiet
<1>8. QED
  BY <1>2, <1>3, <1>4, <1>5, <1>6, <1>7, OwnerStep, TimeStep, DispatchStep, ServeStep, RecordStep
     DEF MailNext

\* At most one mail is delivered per image, and what counts as sent was delivered,
\* whatever answers are lost: a request that could be served again after the provider
\* forgot its key would have begun after the window of the first attempt.
THEOREM OneMailPerImage == MailSpec => []MailedOnce
<1>1. MailInit => MailInv
  BY MailBegins, NotificationAssumption
<1>2. MailInv /\ [MailNext]_mailVars => MailInv'
  BY MailGoes, NotificationAssumption
<1>3. MailInv => MailedOnce
  BY DEF MailInv, KeyInv, MailedOnce
<1>4. QED
  BY <1>1, <1>2, <1>3, PTL DEF MailSpec

-----------------------------------------------------------------------------
(* The rollouts of an account's manifests                                  *)

\* The mutations of an account exclude each other: the list a removal or a new Ingress was
\* computed from is still the list when it is committed.  An app that mounts a claim has it listed.
ManifestsInv ==
  /\ ManifestsTypeOK /\ Builds
  /\ change.step = "commit" => change.listed = listed \cup {"custom-domain-ingress"}
  /\ change.step = "commitRemoval" => change.listed = listed \ {"custom-domain-ingress"}
  /\ stateful => "pvc" \in listed
  /\ live \in Templates /\ live.stateful => "pvc" \in objects

LEMMA ManifestsBegin == ASSUME ManifestsAssumption, ManifestsInit PROVE ManifestsInv
<1>1. NoTemplate \notin Templates
  BY DEF ManifestsAssumption, NoTemplate, Templates
<1>2. NoChange \in [step : {"idle"}, storage : BOOLEAN, routed : BOOLEAN, listed : SUBSET Paths]
  BY DEF NoChange
<1>3. pods \in [Templates -> {"none", "starting", "ready"}] /\ image \in 0..MaxImages
      /\ changes \in 0..MaxChanges
  BY DEF ManifestsAssumption, ManifestsInit
<1>4. ManifestsTypeOK
  BY <1>2, <1>3 DEF ManifestsInit, ManifestsTypeOK
<1>5. QED
  BY <1>1, <1>2, <1>4 DEF ManifestsInit, ManifestsInv, Builds

\* A mutation that neither commits nor leaves a list to commit.
LEMMA ChangeMoves ==
  ASSUME ManifestsInv, UNCHANGED <<repository, image, namespace>>,
         change' \in [step : {"idle", "profile", "manifests", "publish", "fetch", "commit",
                              "record", "fetchRemoval", "commitRemoval", "drop"},
                      storage : BOOLEAN, routed : BOOLEAN, listed : SUBSET Paths],
         change'.step = "commit" => change'.listed = listed \cup {"custom-domain-ingress"},
         change'.step = "commitRemoval" => change'.listed = listed \ {"custom-domain-ingress"},
         registration' \in {"absent", "plain", "storage"},
         domain' \in {"none", "pending", "applied"}, changes' \in 0..MaxChanges
  PROVE  ManifestsInv'
BY DEF repository, namespace, ManifestsInv, ManifestsTypeOK, Builds

LEMMA MutationKept == ASSUME ManifestsAssumption, ManifestsInv, Mutation PROVE ManifestsInv'
<1>1. /\ NoChange \in [step : {"idle"}, storage : BOOLEAN, routed : BOOLEAN, listed : SUBSET Paths]
      /\ changes \in 0..MaxChanges /\ (changes < MaxChanges => changes + 1 \in 0..MaxChanges)
      /\ registration \in {"absent", "plain", "storage"} /\ domain \in {"none", "pending", "applied"}
      /\ listed \subseteq Paths /\ files \subseteq Paths
  BY DEF ManifestsAssumption, ManifestsInv, ManifestsTypeOK, NoChange
<1>2. change \in [step : {"idle", "profile", "manifests", "publish", "fetch", "commit", "record",
                          "fetchRemoval", "commitRemoval", "drop"},
                  storage : BOOLEAN, routed : BOOLEAN, listed : SUBSET Paths]
  BY DEF ManifestsInv, ManifestsTypeOK
<1>3. "custom-domain-ingress" \in Paths /\ "kustomization" \in Paths /\ Base \subseteq Paths
      /\ "pvc" \in Paths
  BY DEF Paths
<1>4. CASE ChangeEnds
  BY <1>1, <1>4, ChangeMoves DEF ChangeEnds
<1>5. ASSUME NEW detected \in BOOLEAN, StartDeploy(detected) PROVE ManifestsInv'
  <2>1. change' = [NoChange EXCEPT !.step = "profile", !.storage = detected, !.routed = domain = "applied"]
        /\ changes' \in 0..MaxChanges
    BY <1>1, <1>5 DEF StartDeploy, BeginChange
  <2>2. QED
    BY <1>1, <1>5, <2>1, ChangeMoves DEF StartDeploy
<1>6. CASE ReadProfile
  <2>1. PICK existing \in BOOLEAN :
          change' = [change EXCEPT !.step = "manifests", !.storage = change.storage \/ existing]
    BY <1>6 DEF ReadProfile
  <2>2. QED
    BY <1>1, <1>2, <1>6, <2>1, ChangeMoves DEF ReadProfile
<1>7. CASE CommitManifests
  <2>1. /\ files' = files \cup RenderDeployRepoFiles(change.storage, change.routed)
        /\ listed' = RenderKustomization(change.storage, change.routed)
        /\ stateful' = change.storage /\ change' = [change EXCEPT !.step = "publish"]
        /\ UNCHANGED <<registration, domain, image, live, objects, pods, solver, changes>>
    BY <1>7 DEF CommitManifests, namespace
  <2>2. change.storage \in BOOLEAN
    BY <1>2
  <2>3. files' \subseteq Paths /\ listed' \subseteq Paths /\ listed' \subseteq files'
    BY <1>1, <1>3, <2>1 DEF RenderDeployRepoFiles, RenderKustomization, Extra
  <2>4. stateful' => "pvc" \in listed'
    BY <2>1 DEF RenderKustomization, Extra
  <2>5. QED
    BY <1>2, <2>1, <2>2, <2>3, <2>4 DEF ManifestsInv, ManifestsTypeOK, Builds
<1>8. CASE CommitRegistration
  BY <1>1, <1>8, ChangeMoves DEF CommitRegistration
<1>9. CASE Unregister \/ ClaimDomain \/ DropPending
  BY <1>1, <1>9, ChangeMoves DEF Unregister, ClaimDomain, DropPending, BeginChange
<1>10. CASE StartVerify \/ StartRemoval
  <2>1. PICK step \in {"fetch", "fetchRemoval"} : change' = [NoChange EXCEPT !.step = step]
    BY <1>10 DEF StartVerify, StartRemoval, BeginChange
  <2>2. changes' \in 0..MaxChanges /\ UNCHANGED <<repository, registration, domain, image, namespace>>
    BY <1>1, <1>10 DEF StartVerify, StartRemoval, BeginChange
  <2>3. QED
    BY <1>1, <2>1, <2>2, ChangeMoves
<1>11. CASE AddEntry
  BY <1>1, <1>2, <1>3, <1>11, ChangeMoves DEF AddEntry
<1>12. CASE FetchForRemoval
  BY <1>1, <1>2, <1>12, ChangeMoves DEF FetchForRemoval, RemoveEntry
<1>13. CASE CommitIngress
  <2>1. /\ files' = files \cup {"custom-domain-ingress"}
        /\ listed' = listed \cup {"custom-domain-ingress"} /\ change' = [change EXCEPT !.step = "record"]
        /\ UNCHANGED <<stateful, registration, domain, image, live, objects, pods, solver, changes>>
    BY <1>13 DEF CommitIngress, namespace, ManifestsInv
  <2>2. QED
    BY <1>1, <1>2, <1>3, <2>1 DEF ManifestsInv, ManifestsTypeOK, Builds
<1>14. CASE CommitRemoval
  <2>1. /\ files' = files \ {"custom-domain-ingress"}
        /\ listed' = listed \ {"custom-domain-ingress"} /\ change' = [change EXCEPT !.step = "drop"]
        /\ UNCHANGED <<stateful, registration, domain, image, live, objects, pods, solver, changes>>
    BY <1>14 DEF CommitRemoval, namespace, ManifestsInv
  <2>2. QED
    BY <1>1, <1>2, <2>1 DEF ManifestsInv, ManifestsTypeOK, Builds
<1>15. CASE MarkApplied \/ DropRow
  BY <1>1, <1>15, ChangeMoves DEF MarkApplied, DropRow
<1>16. QED
  BY <1>4, <1>5, <1>6, <1>7, <1>8, <1>9, <1>10, <1>11, <1>12, <1>13, <1>14, <1>15 DEF Mutation

LEMMA ManifestsKept ==
  ASSUME ManifestsAssumption, ManifestsInv, [ManifestsNext]_manifestVars PROVE ManifestsInv'
<1>1. CASE UNCHANGED manifestVars
  BY <1>1 DEF manifestVars, repository, namespace, ManifestsInv, ManifestsTypeOK, Builds
<1>2. CASE ImageBuilt
  BY <1>2 DEF ImageBuilt, repository, namespace, ManifestsInv, ManifestsTypeOK, Builds, ManifestsAssumption
<1>3. CASE Sync
  <2>1. /\ live' = [stateful |-> stateful, image |-> image] /\ objects' = Synced
        /\ solver' \in {"none", "waiting", solver}
        /\ UNCHANGED <<change, files, listed, stateful, registration, domain, image, pods, changes>>
    BY <1>3 DEF Sync, repository
  <2>2. live' \in Templates /\ live'.stateful = stateful
    BY <2>1 DEF ManifestsInv, ManifestsTypeOK, Templates
  <2>3. objects' \subseteq {"resource-quota", "custom-domain-ingress", "pvc"}
        /\ ("pvc" \in listed => "pvc" \in objects')
    BY <2>1 DEF Synced
  <2>4. QED
    BY <2>1, <2>2, <2>3 DEF ManifestsInv, ManifestsTypeOK, Builds
<1>4. CASE ApplicationPruned
  <2>1. NoTemplate \notin Templates
    BY DEF ManifestsAssumption, NoTemplate, Templates
  <2>2. /\ live' = NoTemplate /\ objects' = {} /\ solver' = "none" /\ pods' = [t \in Templates |-> "none"]
        /\ UNCHANGED <<change, files, listed, stateful, registration, domain, image, changes>>
    BY <1>4 DEF ApplicationPruned, repository
  <2>3. QED
    BY <2>1, <2>2 DEF ManifestsInv, ManifestsTypeOK, Builds
<1>5. ASSUME UNCHANGED <<change, repository, registration, domain, image, live, objects, changes>>,
             pods' \in [Templates -> {"none", "starting", "ready"}],
             solver' \in {"none", "waiting", "running", "done"}
      PROVE  ManifestsInv'
  BY <1>5 DEF repository, ManifestsInv, ManifestsTypeOK, Builds
<1>6. CASE StartPod \/ \E t \in Templates : PodReady(t) \/ StopOld(t)
  BY <1>5, <1>6 DEF StartPod, PodReady, StopOld, ManifestsInv, ManifestsTypeOK
<1>7. CASE StartSolver \/ ChallengeSolved
  BY <1>5, <1>7 DEF StartSolver, ChallengeSolved, ManifestsInv, ManifestsTypeOK
<1>8. QED
  BY <1>1, <1>2, <1>3, <1>4, <1>6, <1>7, MutationKept DEF ManifestsNext

\* Beside one app pod there is room for another, or for the pod of a challenge.
LEMMA RoomBeside ==
  ASSUME Cardinality(Running) \in {0, 1}, solver # "running"
  PROVE  Admitted(AppPod) /\ Admitted(SolverPod)
<1> DEFINE c == Cardinality(Running)
<1>1. ASSUME NEW r \in Resources
      PROVE  Used(r) \in {0, AppPod[r]}
  <2>1. AppPod[r] \in Nat
    BY DEF AppPod, Resources
  <2>2. Used(r) = c * AppPod[r]
    BY <2>1 DEF Used
  <2>3. QED
    BY <2>1, <2>2
<1>2. ASSUME NEW r \in Resources
      PROVE  /\ AppPod[r] \in Nat /\ AppPod[r] + AppPod[r] <= ResourceQuota[r]
             /\ SolverPod[r] \in Nat /\ AppPod[r] + SolverPod[r] <= ResourceQuota[r]
             /\ ResourceQuota[r] \in Nat
  BY DEF Resources, AppPod, SolverPod, ResourceQuota, LimitRangeDefault
<1>3. QED
  BY <1>1, <1>2 DEF Admitted

\* The kustomization lists no file that is not there, whatever mutations of an account stop
\* halfway, and no rollout or challenge waits for room that the other holds (templates.ts, the
\* quota and the requests and limits it renders; what RolloutsEnd rests on).
THEOREM RolloutsGoOn == ManifestsSpec => []RolloutGoesOn
<1>1. ManifestsInit => ManifestsInv
  BY ManifestsBegin, ManifestsAssumption
<1>2. ManifestsInv /\ [ManifestsNext]_manifestVars => ManifestsInv'
  BY ManifestsKept, ManifestsAssumption
<1>3. ManifestsInv => RolloutGoesOn
  <2> SUFFICES ASSUME ManifestsInv, live \in Templates, ~PodMayStart, ~SolverMayStart,
                      solver # "running",
                      \A t \in Templates : ~PodMayBeReady(t) /\ ~OldMayStop(t)
               PROVE  /\ pods = [t \in Templates |-> IF t = live THEN "ready" ELSE "none"]
                      /\ solver \in {"none", "done"}
    BY DEF RolloutGoesOn, ManifestsInv, ManifestsTypeOK
  <2>1. pods \in [Templates -> {"none", "starting", "ready"}] /\ live.stateful \in BOOLEAN
    BY DEF ManifestsInv, ManifestsTypeOK, Templates
  <2>2. pods[live] # "starting"
    BY DEF PodMayBeReady, ManifestsInv
  <2>3. ASSUME NEW t \in Templates, t # live, pods[t] # "none" PROVE FALSE
    <3>1. ~live.stateful /\ pods[t] = "ready" /\ \A s \in Templates \ {t} : pods[s] # "ready"
      BY <2>1, <2>3 DEF OldMayStop
    <3>2. \A s \in Templates \ {t} : pods[s] = "none"
      BY <2>1, <2>2, <3>1 DEF OldMayStop
    <3>3. Running = {t}
      BY <2>3, <3>2 DEF Running
    <3>4. Cardinality(Running) = 1
      BY <3>3, FS_Singleton
    <3>5. QED
      BY <2>3, <3>1, <3>2, <3>4, RoomBeside DEF PodMayStart
  <2>4. pods[live] = "ready"
    <3>1. SUFFICES ASSUME pods[live] = "none" PROVE FALSE
      BY <2>1, <2>2
    <3>2. Running = {}
      BY <2>3, <3>1 DEF Running
    <3>3. Cardinality(Running) = 0
      BY <3>2, FS_EmptySet
    <3>4. QED
      BY <2>1, <3>1, <3>3, RoomBeside DEF PodMayStart
  <2>5. Running = {live}
    BY <2>3, <2>4 DEF Running
  <2>6. Cardinality(Running) = 1
    BY <2>5, FS_Singleton
  <2>7. solver \in {"none", "done"}
    BY <2>6, RoomBeside DEF SolverMayStart, ManifestsInv, ManifestsTypeOK
  <2>8. QED
    BY <2>1, <2>3, <2>4, <2>7
<1>4. QED
  BY <1>1, <1>2, <1>3, PTL DEF ManifestsSpec

-----------------------------------------------------------------------------
(* Types                                                                   *)

\* The rest of the state of the patch plans: an account is busy as long as its task is under way.
PatchTypes ==
  /\ member \subseteq Owners /\ busy \subseteq Owners
  /\ job \in [Owners -> [PlanIds -> {"none", "running", "succeeded", "failed"}]]
  /\ branch \in [Owners -> [PlanIds -> {"none", "reviewed", "changed"}]]
  /\ \A u \in Owners : u \in busy <=> task[u].step # "idle"

\* How a step of a task ends: with the flag cleared, or at another await.
TaskOn(u) ==
  \/ Leave(u)
  \/ /\ busy' = busy /\ task[u].step # "idle"
     /\ \E t \in Tasks : t.step # "idle" /\ task' = [task EXCEPT ![u] = t]

LEMMA TasksGoOn == ASSUME PatchInv, NEW u \in Owners, PatchStep(u) PROVE TaskOn(u)
<1>1. task[u] \in Tasks /\ plan[u] \in Plans
  BY DEF PatchInv
<1>2. ASSUME NEW step \in Steps \ {"idle"}, task[u].step # "idle", Await(u, step) PROVE TaskOn(u)
  <2>1. [task[u] EXCEPT !.step = step] \in Tasks /\ [task[u] EXCEPT !.step = step].step = step
    BY <1>1 DEF Tasks
  <2>2. QED
    BY <1>2, <2>1 DEF Await, TaskOn
<1>3. CASE PrepareChecks(u) \/ ReadJobs(u)
  BY <1>2, <1>3 DEF PrepareChecks, ReadJobs, Steps, TaskOn
<1>4. CASE ReadHead(u)
  <2>1. CASE task' = [task EXCEPT ![u].sha = head[u]] /\ busy' = busy
    <3>1. head[u] \in 0..MaxHeads
      BY PatchAssumption DEF PatchInv, PatchAssumption
    <3>2. [task[u] EXCEPT !.sha = head[u]] \in Tasks /\ [task[u] EXCEPT !.sha = head[u]].step = "read"
      BY <1>1, <1>4, <3>1 DEF Tasks, ReadHead
    <3>3. QED
      BY <1>4, <2>1, <3>2 DEF ReadHead, TaskOn
  <2>2. QED
    BY <1>4, <2>1 DEF ReadHead, TaskOn
<1>5. CASE SavePlan(u)
  <2>1. ASSUME NEW i \in FreshId(u), busy' = busy,
               task' = [task EXCEPT ![u].step = "start", ![u].id = i]
        PROVE  TaskOn(u)
    <3> DEFINE t == [task[u] EXCEPT !.step = "start", !.id = i]
    <3>1. t \in Tasks /\ t.step = "start"
      BY <1>1, Nothing, PatchAssumption DEF Tasks, Steps, FreshId
    <3>2. task' = [task EXCEPT ![u] = t]
      BY <2>1 DEF PatchInv
    <3>3. QED
      BY <1>5, <2>1, <3>1, <3>2 DEF SavePlan, TaskOn
  <2>2. QED
    BY <1>5, <2>1 DEF SavePlan, TaskOn
<1>6. CASE CreateJob(u) \/ ReadResult(u) \/ RecordPull(u) \/ CallFails(u)
  BY <1>6 DEF CreateJob, ReadResult, RecordPull, CallFails, TaskOn
<1>7. ASSUME NEW step \in {"job", "find"}, NEW p \in Plans, task[u].step # "idle", busy' = busy,
             task' = [task EXCEPT ![u] = Holding(step, p)]
      PROVE  TaskOn(u)
  <2>1. Holding(step, p) \in Tasks /\ Holding(step, p).step # "idle"
    BY DEF Holding, Tasks, Steps, Plans
  <2>2. QED
    BY <1>7, <2>1 DEF TaskOn
<1>8. CASE StatusChecks(u)
  <2>1. plan'[u] \in Plans
    BY <1>1, <1>8, Nothing, PatchAssumption DEF StatusChecks, Pruned
  <2>2. QED
    BY <1>7, <1>8, <2>1 DEF StatusChecks, TaskOn
<1>9. CASE CreateChecks(u)
  BY <1>1, <1>7, <1>9 DEF CreateChecks, TaskOn
<1>10. CASE FindEarlier(u)
  BY <1>2, <1>10 DEF FindEarlier, Steps
<1>11. CASE CheckBase(u) \/ CreateRef(u) \/ CompareBranch(u)
  BY <1>2, <1>11 DEF CheckBase, CreateRef, CompareBranch, Steps, TaskOn
<1>12. CASE OpenPull(u) \/ FindAgain(u)
  BY <1>2, <1>12 DEF OpenPull, FindAgain, Steps, TaskOn
<1>13. QED
  BY <1>3, <1>4, <1>5, <1>6, <1>8, <1>9, <1>10, <1>11, <1>12 DEF PatchStep

LEMMA PatchTypesKept ==
  ASSUME PatchInv, PatchTypes, [PatchNext]_patchVars PROVE PatchTypes'
<1> DEFINE Jobs == [Owners -> [PlanIds -> {"none", "running", "succeeded", "failed"}]]
           Branches == [Owners -> [PlanIds -> {"none", "reviewed", "changed"}]]
<1>1. task \in [Owners -> Tasks] /\ NoTask.step = "idle"
  BY DEF PatchInv, NoTask
<1>2. ASSUME NEW u \in Owners, TaskOn(u), member' = member, job' \in Jobs, branch' \in Branches
      PROVE  PatchTypes'
  <2>1. CASE Leave(u)
    BY <1>1, <1>2, <2>1 DEF Leave, PatchTypes
  <2>2. CASE ~Leave(u)
    BY <1>1, <1>2, <2>2 DEF TaskOn, PatchTypes
  <2>3. QED
    BY <2>1, <2>2
<1>3. ASSUME NEW u \in Owners, PatchStep(u) PROVE PatchTypes'
  <2>1. member' = member
    BY <1>3 DEF PatchStep, PrepareChecks, ReadJobs, ReadHead, SavePlan, CreateJob, StatusChecks,
       ReadResult, CreateChecks, FindEarlier, CheckBase, CreateRef, CompareBranch, OpenPull,
       FindAgain, RecordPull, CallFails, rest
  <2>2. job' \in Jobs
    <3>1. CASE CreateJob(u)
      BY <3>1 DEF CreateJob, PatchTypes
    <3>2. CASE ReadResult(u)
      BY <3>2 DEF ReadResult, PatchTypes
    <3>3. CASE ~CreateJob(u) /\ ~ReadResult(u)
      <4>1. job' = job
        BY <1>3, <3>3 DEF PatchStep, PrepareChecks, ReadJobs, ReadHead, SavePlan, StatusChecks,
           CreateChecks, FindEarlier, CheckBase, CreateRef, CompareBranch, OpenPull,
           FindAgain, RecordPull, CallFails, rest
      <4>2. QED
        BY <4>1 DEF PatchTypes
    <3>4. QED
      BY <3>1, <3>2, <3>3
  <2>3. branch' \in Branches
    <3>1. CASE CreateRef(u)
      BY <3>1 DEF CreateRef, PatchTypes
    <3>2. CASE ~CreateRef(u)
      <4>1. branch' = branch
        BY <1>3, <3>2 DEF PatchStep, PrepareChecks, ReadJobs, ReadHead, SavePlan, CreateJob,
           StatusChecks, ReadResult, CreateChecks, FindEarlier, CheckBase, CompareBranch, OpenPull,
           FindAgain, RecordPull, CallFails, rest, repos
      <4>2. QED
        BY <4>1 DEF PatchTypes
    <3>3. QED
      BY <3>1, <3>2
  <2>4. QED
    BY <1>2, <1>3, <2>1, <2>2, <2>3, TasksGoOn
<1>4. ASSUME NEW u \in Owners, NEW step \in {"prepare", "status", "create"}, Enter(u, step),
             UNCHANGED rest
      PROVE  PatchTypes'
  <2>1. task'[u].step = step /\ \A v \in Owners \ {u} : task'[v] = task[v]
    BY <1>1, <1>4 DEF Enter, NoTask
  <2>2. QED
    BY <1>4, <2>1 DEF Enter, rest, repos, PatchTypes
<1>5. ASSUME NEW u \in Owners, StartPrepare(u) \/ StartStatus(u) \/ StartCreatePr(u) PROVE PatchTypes'
  BY <1>4, <1>5 DEF StartPrepare, StartStatus, StartCreatePr
<1>6. ASSUME UNCHANGED <<busy, task>>, member' \subseteq Owners, job' \in Jobs, branch' \in Branches
      PROVE  PatchTypes'
  BY <1>6 DEF PatchTypes
<1>7. ASSUME NEW u \in Owners,
             \/ OwnerPushes(u) \/ PlanAges(u) \/ EraseOwner(u) \/ Prune
             \/ \E i \in PlanIds : JobEnds(u, i) \/ OwnerCloses(u, i)
      PROVE  PatchTypes'
  <2>1. UNCHANGED <<busy, task>> /\ member' \subseteq Owners
    BY <1>7 DEF OwnerPushes, PlanAges, EraseOwner, Prune, JobEnds, OwnerCloses, rest, PatchTypes
  <2>2. job' \in Jobs
    <3>1. ASSUME NEW i \in PlanIds, JobEnds(u, i) PROVE job' \in Jobs
      BY <3>1 DEF JobEnds, PatchTypes
    <3>2. CASE job' = job
      BY <3>2 DEF PatchTypes
    <3>3. QED
      BY <1>7, <3>1, <3>2 DEF OwnerPushes, PlanAges, EraseOwner, Prune, OwnerCloses, rest
  <2>3. branch' \in Branches
    BY <1>7 DEF OwnerPushes, PlanAges, EraseOwner, Prune, JobEnds, OwnerCloses, rest, repos, PatchTypes
  <2>4. QED
    BY <1>6, <2>1, <2>2, <2>3
<1>8. CASE Prune
  BY <1>6, <1>8 DEF Prune, rest, repos, PatchTypes
<1>9. CASE PatchCrash
  BY <1>1, <1>9 DEF PatchCrash, rest, repos, PatchTypes
<1>10. CASE UNCHANGED patchVars
  BY <1>6, <1>10 DEF patchVars, PatchTypes
<1>11. QED
  BY <1>3, <1>5, <1>7, <1>8, <1>9, <1>10 DEF PatchNext

LEMMA PatchesTyped == PatchSpec => []PatchTypeOK
<1>1. PatchInit => PatchInv /\ PatchTypes
  BY PatchBegins, PatchAssumption DEF PatchInit, PatchTypes, NoTask, PatchAssumption
<1>2. PatchInv /\ PatchTypes /\ [PatchNext]_patchVars => PatchInv' /\ PatchTypes'
  BY PatchKept, PatchTypesKept, PatchAssumption
<1>3. PatchInv /\ PatchTypes => PatchTypeOK
  BY DEF PatchInv, PatchTypes, PatchTypeOK
<1>4. QED
  BY <1>1, <1>2, <1>3, PTL DEF PatchSpec

LEMMA MailTyped == MailSpec => []MailTypeOK
<1>1. MailInit => MailInv
  BY MailBegins, NotificationAssumption
<1>2. MailInv /\ [MailNext]_mailVars => MailInv'
  BY MailGoes, NotificationAssumption
<1>3. MailInv => MailTypeOK
  BY DEF MailInv
<1>4. QED
  BY <1>1, <1>2, <1>3, PTL DEF MailSpec

\* A tab that asks for a domain names one.
PanelInv ==
  /\ PanelTypeOK
  /\ \A t \in PanelTabs : panel[t].doing \in {"register", "switch", "claim"} => panel[t].host \in Hosts

LEMMA PanelKept == ASSUME PanelInv, [PanelNext]_panelVars PROVE PanelInv'
<1>1. /\ panel \in [PanelTabs -> Panels] /\ domainRow \in DomainRows /\ certified \in BOOLEAN
      /\ Opened \in Panels /\ NoHost \notin Hosts
  BY PanelAssumption DEF PanelInv, PanelTypeOK, PanelAssumption, Opened, NoDomainRow, Panels, DomainRows
<1>2. ASSUME NEW t \in PanelTabs, NEW p \in Panels, panel' = [panel EXCEPT ![t] = p],
             p.doing \in {"register", "switch", "claim"} => p.host \in Hosts,
             domainRow' \in DomainRows, certified' \in BOOLEAN,
             (domainRow'.status = "none") = (domainRow'.host = NoHost)
      PROVE  PanelInv'
  BY <1>1, <1>2 DEF PanelInv, PanelTypeOK
<1>3. ASSUME NEW t \in PanelTabs,
             NEW what \in {"register", "verify", "delete", "switch", "claim", "refresh"},
             NEW d \in Hosts \cup {NoHost}, Sends(t, what, d),
             what \in {"register", "switch", "claim"} => d \in Hosts
      PROVE  PanelInv'
  <2> DEFINE p == [panel[t] EXCEPT !.doing = what, !.host = d]
  <2>1. p \in Panels /\ p.doing = what /\ p.host = d /\ panel' = [panel EXCEPT ![t] = p]
    BY <1>1, <1>3 DEF Sends, Panels
  <2>2. UNCHANGED <<domainRow, certified>>
    BY <1>3 DEF Sends
  <2> HIDE DEF p
  <2>3. QED
    BY <1>1, <1>2, <1>3, <2>1, <2>2 DEF PanelInv, PanelTypeOK
<1>4. ASSUME NEW t \in PanelTabs, NEW doing \in {"nothing", "refresh", "claim"}, Then(t, doing),
             doing = "claim" => panel[t].doing = "switch",
             domainRow' \in DomainRows, certified' = certified,
             (domainRow'.status = "none") = (domainRow'.host = NoHost)
      PROVE  PanelInv'
  <2> DEFINE host == IF doing = "claim" THEN panel[t].host ELSE NoHost
             p == [panel[t] EXCEPT !.doing = doing, !.host = host]
  <2>0. host \in Hosts \cup {NoHost} /\ panel' = [panel EXCEPT ![t] = p]
    BY <1>1, <1>4 DEF Then, Panels
  <2>1. p \in Panels /\ p.doing = doing /\ (doing = "claim" => p.host = panel[t].host)
        /\ panel' = [panel EXCEPT ![t] = p]
    BY <1>1, <2>0 DEF Panels
  <2>2. doing = "claim" => panel[t].host \in Hosts
    BY <1>4 DEF PanelInv
  <2> HIDE DEF p
  <2>3. QED
    BY <1>1, <1>2, <1>4, <2>1, <2>2
<1>4a. ASSUME NEW t \in PanelTabs, NEW doing \in {"nothing", "refresh", "claim"}, Done(t, doing),
              doing = "claim" => panel[t].doing = "switch",
              domainRow' \in DomainRows, certified' = certified,
              (domainRow'.status = "none") = (domainRow'.host = NoHost)
       PROVE  PanelInv'
  BY <1>4, <1>4a DEF Done
<1>5. ASSUME NEW t \in PanelTabs, Refused(t) PROVE PanelInv'
  BY <1>1, <1>4, <1>5 DEF Refused, PanelInv, PanelTypeOK
<1>6. CASE CertificateChanges \/ UNCHANGED panelVars
  BY <1>6 DEF CertificateChanges, panelVars, PanelInv, PanelTypeOK
<1>7. ASSUME NEW t \in PanelTabs, NEW d \in Hosts, Submit(t, d) \/ SwitchTo(t, d) PROVE PanelInv'
  BY <1>3, <1>7 DEF Submit, SwitchTo
<1>8. ASSUME NEW t \in PanelTabs, Verify(t) \/ Delete(t) \/ Refresh(t) \/ Poll(t) \/ Retry(t)
      PROVE  PanelInv'
  BY <1>3, <1>8 DEF Verify, Delete, Refresh, Poll, Retry
<1>9. ASSUME NEW t \in PanelTabs, RegisterServed(t) PROVE PanelInv'
  <2>1. CASE domainRow = NoDomainRow
    <3>1. panel[t].host \in Hosts /\ certified' = certified /\ Done(t, "refresh")
          /\ domainRow' = [host |-> panel[t].host, status |-> "pending"]
      BY <1>9, <2>1 DEF RegisterServed, PanelInv
    <3>2. domainRow' \in DomainRows /\ domainRow'.status # "none" /\ domainRow'.host # NoHost
      BY <1>1, <3>1 DEF DomainRows
    <3>3. QED
      BY <1>4a, <3>1, <3>2
  <2>2. QED
    BY <1>5, <1>9, <2>1 DEF RegisterServed
<1>9a. Seen \in DomainRows /\ (Seen.status = "none") = (Seen.host = NoHost)
  BY <1>1 DEF Seen, DomainRows, PanelInv, PanelTypeOK
<1>10. ASSUME NEW t \in PanelTabs, VerifyServed(t) PROVE PanelInv'
  <2>1. CASE domainRow.status \notin {"none", "applying", "active"}
    <3>1. PICK s \in {"error", "verified", "applying"} :
            /\ domainRow' = [domainRow EXCEPT !.status = s]
            /\ Done(t, IF s = "verified" THEN "nothing" ELSE "refresh")
      BY <1>10, <2>1 DEF VerifyServed
    <3>2. certified' = certified
      BY <1>10, <2>1 DEF VerifyServed
    <3>3. domainRow' \in DomainRows /\ domainRow'.status = s /\ domainRow'.host = domainRow.host
      BY <1>1, <3>1 DEF DomainRows
    <3>4. domainRow.host # NoHost
      BY <2>1 DEF PanelInv, PanelTypeOK
    <3>5. QED
      BY <1>4a, <3>1, <3>2, <3>3, <3>4
  <2>2. CASE domainRow.status \in {"applying", "active"}
    <3>1. domainRow' = Seen /\ Done(t, "refresh") /\ certified' = certified
      BY <1>10, <2>2 DEF VerifyServed
    <3>2. QED
      BY <1>4a, <1>9a, <3>1
  <2>3. QED
    BY <1>5, <1>10, <2>1, <2>2 DEF VerifyServed
<1>11. ASSUME NEW t \in PanelTabs, DeleteServed(t) PROVE PanelInv'
  <2>1. NoDomainRow \in DomainRows /\ NoDomainRow.status = "none" /\ NoDomainRow.host = NoHost
    BY DEF NoDomainRow, DomainRows
  <2>2. domainRow' = NoDomainRow /\ certified' = certified
        /\ Done(t, IF panel[t].doing = "switch" THEN "claim" ELSE "refresh")
    BY <1>11 DEF DeleteServed
  <2>3. QED
    BY <1>4a, <2>1, <2>2
<1>11a. ASSUME NEW t \in PanelTabs, RemovalFails(t) PROVE PanelInv'
  <2>1. domainRow' \in DomainRows /\ domainRow'.status = "error" /\ domainRow'.host = domainRow.host
    BY <1>1, <1>11a DEF RemovalFails, DomainRows
  <2>2. domainRow.host # NoHost /\ certified' = certified /\ Then(t, "nothing")
    BY <1>11a DEF RemovalFails, PanelInv, PanelTypeOK
  <2>3. QED
    BY <1>4, <2>1, <2>2
<1>11b. ASSUME NEW t \in PanelTabs, NEW hidden \in BOOLEAN,
               NEW doing \in {panel[t].doing, "refresh"}, Turns(t, hidden, doing)
        PROVE  PanelInv'
  <2> DEFINE p == [panel[t] EXCEPT !.hidden = hidden, !.doing = doing]
  <2>1. p \in Panels /\ p.doing = doing /\ p.host = panel[t].host /\ panel' = [panel EXCEPT ![t] = p]
    BY <1>1, <1>11b DEF Turns, Panels
  <2>2. UNCHANGED <<domainRow, certified>>
    BY <1>11b DEF Turns
  <2> HIDE DEF p
  <2>3. QED
    BY <1>1, <1>2, <1>11b, <2>1, <2>2 DEF PanelInv, PanelTypeOK
<1>11c. ASSUME NEW t \in PanelTabs, Hide(t) \/ Return(t) PROVE PanelInv'
  BY <1>11b, <1>11c DEF Hide, Return
<1>12. ASSUME NEW t \in PanelTabs, RequestFails(t) PROVE PanelInv'
  BY <1>5, <1>12 DEF RequestFails
<1>13. ASSUME NEW t \in PanelTabs, RefreshServed(t) PROVE PanelInv'
  <2> DEFINE p == [Opened EXCEPT !.shown = Seen, !.doing = "nothing", !.hidden = panel[t].hidden]
  <2>1. p \in Panels /\ p.doing = "nothing"
    BY <1>1, <1>9a DEF Panels
  <2>2. QED
    BY <1>1, <1>2, <1>9a, <1>13, <2>1 DEF RefreshServed
<1>14. ASSUME NEW t \in PanelTabs, RefreshFails(t) PROVE PanelInv'
  <2> DEFINE p == [panel[t] EXCEPT !.doing = "nothing", !.error = TRUE, !.retry = ~panel[t].hidden]
  <2>1. p \in Panels /\ p.doing = "nothing" /\ panel' = [panel EXCEPT ![t] = p]
    BY <1>1, <1>14 DEF RefreshFails, Panels
  <2> HIDE DEF p
  <2>2. QED
    BY <1>1, <1>2, <1>14, <2>1 DEF RefreshFails, PanelInv, PanelTypeOK
<1>15. QED
  BY <1>6, <1>7, <1>8, <1>9, <1>10, <1>11, <1>11a, <1>11c, <1>12, <1>13, <1>14
  DEF PanelNext, PanelServed

LEMMA PanelsTyped == PanelInit /\ [][PanelNext]_panelVars => []PanelTypeOK
<1>1. PanelInit => PanelInv
  <2>1. NoDomainRow \in DomainRows /\ NoDomainRow.status = "none" /\ NoDomainRow.host = NoHost
    BY DEF NoDomainRow, DomainRows
  <2>2. Opened \in Panels /\ Opened.doing = "refresh"
    BY <2>1 DEF Opened, Panels
  <2>3. QED
    BY <2>1, <2>2 DEF PanelInit, PanelInv, PanelTypeOK
<1>2. PanelInv /\ [PanelNext]_panelVars => PanelInv'
  BY PanelKept
<1>3. PanelInv => PanelTypeOK
  BY DEF PanelInv
<1>4. QED
  BY <1>1, <1>2, <1>3, PTL

LEMMA ManifestsTyped == ManifestsInit /\ [][ManifestsNext]_manifestVars => []ManifestsTypeOK
<1>1. ManifestsInit => ManifestsInv
  BY ManifestsBegin, ManifestsAssumption
<1>2. ManifestsInv /\ [ManifestsNext]_manifestVars => ManifestsInv'
  BY ManifestsKept, ManifestsAssumption
<1>3. ManifestsInv => ManifestsTypeOK
  BY DEF ManifestsInv
<1>4. QED
  BY <1>1, <1>2, <1>3, PTL

-----------------------------------------------------------------------------
(* Side by side                                                            *)

\* Whatever is safe in every behaviour of one of them is safe in every behaviour of the four:
\* each steps as it does alone, or stands still while another is the focus.
THEOREM EachAsAlone ==
  MCSpec => /\ MailSpec /\ PatchSpec
            /\ PanelInit /\ [][PanelNext]_panelVars
            /\ ManifestsInit /\ [][ManifestsNext]_manifestVars
<1>1. MCInit => MailInit /\ PatchInit /\ PanelInit /\ ManifestsInit
  BY DEF MCInit
<1>2. [MCNext]_backgroundVars =>
        /\ [MailNext]_mailVars /\ [PatchNext]_patchVars /\ [PanelNext]_panelVars
        /\ [ManifestsNext]_manifestVars
  BY DEF MCNext, backgroundVars
<1>3. QED
  BY <1>1, <1>2, PTL DEF MCSpec, MailSpec, PatchSpec

\* The state of each of them is of the shape its steps read and write; an account is busy just
\* as long as a request of its patch plan is under way, and a domain row without a host has no
\* status (security-patch.service exclusive, domain.repository).
THEOREM BackgroundTyped == MCSpec => []BackgroundTypeOK
<1>1. MailTypeOK /\ PatchTypeOK /\ PanelTypeOK /\ ManifestsTypeOK => BackgroundTypeOK
  BY DEF BackgroundTypeOK
<1>2. QED
  BY <1>1, EachAsAlone, MailTyped, PatchesTyped, PanelsTyped, ManifestsTyped, PTL
=============================================================================
