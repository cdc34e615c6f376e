------------------------------ MODULE AlertList ------------------------------
(***************************************************************************)
(* GET /alerts: the active alerts of Alertmanager, each with the pipeline  *)
(* it is about, behind a cache of their own.  A request that finds the     *)
(* cache too old asks Alertmanager and getPipelines at a time; of the      *)
(* latter only what PipelineList shows is known, that its list is of some  *)
(* moment less than its own lifetime before it was asked for, or empty     *)
(* because the payload was no list; the two modules share no variable.     *)
(***************************************************************************)
EXTENDS Integers, PipelineList

CONSTANTS
  AlertViewers,   \* requests, by who makes them
  AlertScopeOf,   \* the pipelines whose namespaces a viewer sees
  Subjects,       \* names of pipelines an alert may be about
  AlertTtl,       \* ALERTS cacheTtl, in ticks
  ListTtl,        \* PIPELINES cacheTtl, in ticks
  MaxAlertTime,   \* bound: clock ticks
  MaxTurns        \* bound: changes of alerts and applications

ASSUME AlertAssumption ==
  /\ AlertScopeOf \in [AlertViewers -> SUBSET Subjects]
  /\ {AlertTtl, ListTtl} \subseteq Nat \ {0} /\ {MaxAlertTime, MaxTurns} \subseteq Nat

VARIABLES
  alertNow,
  firing,       \* subjects with an active alert now
  running,      \* subjects with an application now
  seenAt,       \* history: seenAt[t]: all there was of both while the clock was at t
  alertCache,   \* what is cached and the time it claims
  alertRequest  \* alertRequest[v]: the request of a viewer

alertVars == <<alertNow, firing, running, seenAt, alertCache, alertRequest>>

-----------------------------------------------------------------------------
AlertTimes == 0..MaxAlertTime
NoAlerts == [fetchedAt |-> 0, about |-> {}, linked |-> {}, lists |-> {}, filled |-> FALSE]

\* linked: those with an associatedPipeline; lists (history): the payloads that were lists.
AlertAnswers == [fetchedAt : AlertTimes, about : SUBSET Subjects, linked : SUBSET Subjects,
                 lists : SUBSET {"alerts", "pipelines"}, filled : BOOLEAN]
AlertIdle == [step |-> "idle", began |-> 0, raw |-> {}, lists |-> {}, answer |-> NoAlerts]

AlertTypeOK ==
  /\ alertNow \in AlertTimes /\ {firing, running} \subseteq SUBSET Subjects
  /\ \A t \in AlertTimes : seenAt[t] \subseteq [firing : SUBSET Subjects, running : SUBSET Subjects]
  /\ alertCache \in AlertAnswers
  /\ alertRequest \in [AlertViewers -> [step : {"idle", "both", "listed", "done"},
                          began : AlertTimes, raw : SUBSET Subjects, lists : SUBSET {"alerts"},
                          answer : AlertAnswers]]

AlertInit ==
  /\ alertNow = 0 /\ firing = {} /\ running = {}
  /\ seenAt = [t \in AlertTimes |-> IF t = 0 THEN {[firing |-> {}, running |-> {}]} ELSE {}]
  /\ alertCache = NoAlerts /\ alertRequest = [v \in AlertViewers |-> AlertIdle]

-----------------------------------------------------------------------------
AlertTick ==
  /\ alertNow < MaxAlertTime /\ alertNow' = alertNow + 1
  /\ seenAt' = [seenAt EXCEPT ![alertNow + 1] = {[firing |-> firing, running |-> running]}]
  /\ UNCHANGED <<firing, running, alertCache, alertRequest>>

Toggled(s, x) == IF x \in s THEN s \ {x} ELSE s \cup {x}

\* An alert starts or ends, an application is registered or removed.
ClusterTurns(x) ==
  /\ Cardinality(UNION {seenAt[t] : t \in AlertTimes}) <= MaxTurns
  /\ \/ firing' = Toggled(firing, x) /\ running' = running
     \/ running' = Toggled(running, x) /\ firing' = firing
  /\ seenAt' = [seenAt EXCEPT ![alertNow] = @ \cup {[firing |-> firing', running |-> running']}]
  /\ UNCHANGED <<alertNow, alertCache, alertRequest>>

-----------------------------------------------------------------------------
(* getActiveAlerts and listActiveAlerts                                    *)

inSight == <<alertNow, firing, running, seenAt>>

AlertsInScope(v, e) == [e EXCEPT !.about = @ \cap AlertScopeOf[v], !.linked = @ \cap AlertScopeOf[v]]

AlertsFresh == alertCache.filled /\ alertNow - alertCache.fetchedAt < AlertTtl

GetActiveAlerts(v) ==
  /\ alertRequest[v].step \in {"idle", "done"}
  /\ alertRequest' = [alertRequest EXCEPT ![v] =
       [AlertIdle EXCEPT !.began = alertNow, !.step = IF AlertsFresh THEN "done" ELSE "both",
                         !.answer = IF AlertsFresh THEN AlertsInScope(v, alertCache) ELSE NoAlerts]]
  /\ UNCHANGED <<inSight, alertCache>>

\* The active ones, neither silenced nor inhibited; InfoInhibitor is dropped.  200 with
\* something else: none, and no error.
ListAlerts(v) ==
  /\ alertRequest[v].step = "both"
  /\ \/ alertRequest' = [alertRequest EXCEPT ![v].step = "listed", ![v].raw = firing,
                                             ![v].lists = {"alerts"}]
     \/ alertRequest' = [alertRequest EXCEPT ![v].step = "listed", ![v].raw = {}, ![v].lists = {}]
  /\ UNCHANGED <<inSight, alertCache>>

\* Promise.all: the first failure fails the request and leaves the cache alone.
AlertsFail(v) ==
  /\ alertRequest[v].step \in {"both", "listed"}
  /\ alertRequest' = [alertRequest EXCEPT ![v] = AlertIdle]
  /\ UNCHANGED <<inSight, alertCache>>

\* The promise of getPipelines, to a request of time t.
ListedSince(t) == UNION {{s.running : s \in seenAt[u]} : u \in {w \in AlertTimes : w > t - ListTtl}}

\* With what it was taken from: nothing when Argo CD's payload was no list.
PipelineLists(t) ==
  {[names |-> names, from |-> {"pipelines"}] : names \in ListedSince(t)}
    \cup {[names |-> {}, from |-> {}]}

\* findAssociatedPipeline, by the labels of an alert.
Associated(about, names) == about \cap names

\* Mutant: what is cached is what the first viewer was to see.
AlertsAnsweredInScope(v, list) ==
  LET q == alertRequest[v] IN
  AlertsInScope(v, [fetchedAt |-> q.began, about |-> q.raw, filled |-> TRUE,
                    linked |-> Associated(q.raw, list.names), lists |-> q.lists \cup list.from])

\* For all viewers, with the time at which the request began.
AlertsAnswered(v, list) ==
  LET q == alertRequest[v] IN
  [fetchedAt |-> q.began, about |-> q.raw, linked |-> Associated(q.raw, list.names),
   lists |-> q.lists \cup list.from, filled |-> TRUE]

\* The list of pipelines has come as well, now or before.
FillAlerts(v) ==
  /\ alertRequest[v].step = "listed"
  /\ \E list \in PipelineLists(alertRequest[v].began) :
       LET e == AlertsAnswered(v, list) IN
       /\ alertCache' = e
       /\ alertRequest' = [alertRequest EXCEPT ![v].step = "done", ![v].raw = {}, ![v].lists = {},
                                               ![v].answer = AlertsInScope(v, e)]
  /\ UNCHANGED inSight

AlertNext ==
  \/ AlertTick \/ \E x \in Subjects : ClusterTurns(x)
  \/ \E v \in AlertViewers : GetActiveAlerts(v) \/ ListAlerts(v) \/ AlertsFail(v) \/ FillAlerts(v)

AlertSpec == AlertInit /\ [][AlertNext]_alertVars

-----------------------------------------------------------------------------
\* However requests of different viewers overlap and fill the one cache, the alerts a
\* viewer gets are all in scope that were active at one moment since the fetchedAt of the
\* answer, which is younger than the lifetime of the cache, and they are tied to the
\* pipelines of one moment at most the lifetime of the other cache earlier.  No alert at all,
\* or none tied to a pipeline, for want of a list is said to be as fresh, but only of a fetch
\* whose payload was no list (alerts.service getActiveAlerts, alerts.controller
\* listActiveAlerts, alertmanager.client listAlerts).
AlertsAsFreshAsSaid ==
  \A v \in AlertViewers : LET q == alertRequest[v] IN q.step = "done" =>
    /\ q.began - q.answer.fetchedAt < AlertTtl
    /\ IF "alerts" \in q.answer.lists
       THEN \E t \in q.answer.fetchedAt..alertNow : \E s \in seenAt[t] :
              q.answer.about = s.firing \cap AlertScopeOf[v]
       ELSE q.answer.about = {}
    /\ IF "pipelines" \in q.answer.lists
       THEN \E names \in ListedSince(q.answer.fetchedAt) :
              q.answer.linked = Associated(q.answer.about, names)
       ELSE q.answer.linked = {}

\* Both lists, the one of pipelines and the one of alerts.
ListsAsFreshAsSaid == AnswerIsAsFreshAsSaid /\ AlertsAsFreshAsSaid
=============================================================================
