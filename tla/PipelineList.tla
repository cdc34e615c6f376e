----------------------------- MODULE PipelineList -----------------------------
(***************************************************************************)
(* GET /pipelines: the applications of Argo CD, behind one cache for all   *)
(* viewers and one session token for all requests.  Requests overlap; each *)
(* takes the time before it asks, asks once more after a 401, and leaves   *)
(* what it got in the cache.  A viewer is shown the rows of the scope.     *)
(***************************************************************************)
EXTENDS Naturals, FiniteSets

CONSTANTS
  Viewers,      \* requests, by who makes them
  ScopeOf,      \* the logins whose namespaces a viewer sees besides the operator's
  Owners,       \* logins, each with an application
  MaxTime,      \* bound: clock ticks
  MaxChanges,   \* bound: lists of applications seen
  CacheTtl      \* PIPELINES cacheTtl, in ticks

ASSUME PipelineAssumption ==
  /\ ScopeOf \in [Viewers -> SUBSET Owners]
  /\ {MaxTime, MaxChanges} \subseteq Nat /\ CacheTtl \in Nat \ {0}

VARIABLES
  now,
  deployed,     \* owners with an application now
  sinceTick,    \* history: sinceTick[t]: all that was deployed when the clock was at t
  argoSession,  \* Argo CD still accepts the token the server holds
  cache,        \* what is cached and the time it claims
  listRequest   \* listRequest[v]: the request of a viewer

pipelineVars == <<now, deployed, sinceTick, argoSession, cache, listRequest>>

-----------------------------------------------------------------------------
Times == 0..MaxTime
NoList == [fetchedAt |-> 0, rows |-> {}, listed |-> FALSE, filled |-> FALSE]

\* listed (history): the payload the rows were taken from was a list.
Envelopes == [fetchedAt : Times, rows : SUBSET Owners, listed : BOOLEAN, filled : BOOLEAN]
Unasked == [step |-> "idle", began |-> 0, answer |-> NoList]

PipelineTypeOK ==
  /\ now \in Times /\ deployed \subseteq Owners
  /\ sinceTick \in [Times -> SUBSET SUBSET Owners]
  /\ argoSession \in BOOLEAN /\ cache \in Envelopes
  /\ listRequest \in [Viewers -> [step : {"idle", "list", "session", "again", "served", "done", "failed"},
                              began : Times, answer : Envelopes]]

PipelineInit ==
  /\ now = 0 /\ deployed = {}
  /\ sinceTick = [t \in Times |-> IF t = 0 THEN {{}} ELSE {}]
  /\ argoSession = TRUE /\ cache = NoList
  /\ listRequest = [v \in Viewers |-> Unasked]

-----------------------------------------------------------------------------
ListTick ==
  /\ now < MaxTime /\ now' = now + 1
  /\ sinceTick' = [sinceTick EXCEPT ![now + 1] = {deployed}]
  /\ UNCHANGED <<deployed, argoSession, cache, listRequest>>

\* An application is registered or removed.
Deploys(o) ==
  /\ Cardinality(UNION {sinceTick[t] : t \in Times}) <= MaxChanges
  /\ deployed' = IF o \in deployed THEN deployed \ {o} ELSE deployed \cup {o}
  /\ sinceTick' = [sinceTick EXCEPT ![now] = @ \cup {deployed'}]
  /\ UNCHANGED <<now, argoSession, cache, listRequest>>

SessionExpires ==
  /\ argoSession /\ argoSession' = FALSE
  /\ UNCHANGED <<now, deployed, sinceTick, cache, listRequest>>

-----------------------------------------------------------------------------
(* getPipelines and listPipelines                                          *)

inCluster == <<now, deployed, sinceTick>>

\* isVisibleToScope, row by row, on whatever the cache or Argo CD gave.
Visible(v, rows) == rows \cap ScopeOf[v]
InScope(v, e) == [e EXCEPT !.rows = Visible(v, @)]

Fresh == cache.filled /\ now - cache.fetchedAt < CacheTtl

GetPipelines(v) ==
  /\ listRequest[v].step \in {"idle", "done", "failed"}
  /\ listRequest' = [listRequest EXCEPT ![v] =
       IF Fresh THEN [step |-> "done", began |-> now, answer |-> InScope(v, cache)]
       ELSE [step |-> "list", began |-> now, answer |-> NoList]]
  /\ UNCHANGED <<inCluster, argoSession, cache>>

ListServed(v) ==
  /\ listRequest' = [listRequest EXCEPT ![v].step = "served", ![v].answer.rows = deployed,
                                        ![v].answer.listed = TRUE]
  /\ UNCHANGED <<inCluster, argoSession, cache>>

FetchedAtAnswer(v) == [listRequest[v].answer EXCEPT !.fetchedAt = now, !.filled = TRUE]

\* The time is the one taken when the request began, whenever the list arrives.
Fetched(v) == [listRequest[v].answer EXCEPT !.fetchedAt = listRequest[v].began, !.filled = TRUE]

Fill(v) ==
  /\ listRequest[v].step = "served"
  /\ cache' = Fetched(v)
  /\ listRequest' = [listRequest EXCEPT ![v].step = "done", ![v].answer = InScope(v, Fetched(v))]
  /\ UNCHANGED <<inCluster, argoSession>>

ListFails(v) ==
  /\ listRequest' = [listRequest EXCEPT ![v].step = "failed"]
  /\ UNCHANGED <<inCluster, argoSession, cache>>

\* 200 with something else: no rows, and no error.
PayloadUnexpected(v) ==
  /\ listRequest' = [listRequest EXCEPT ![v].step = "served", ![v].answer = NoList]
  /\ UNCHANGED <<inCluster, argoSession, cache>>

\* A 401 asks for a session first, but only once.
ListApplications(v) ==
  \/ listRequest[v].step \in {"list", "again"} /\ argoSession /\ ListServed(v)
  \/ listRequest[v].step \in {"list", "again"} /\ PayloadUnexpected(v)
  \/ /\ listRequest[v].step = "list" /\ ~argoSession
     /\ listRequest' = [listRequest EXCEPT ![v].step = "session"]
     /\ UNCHANGED <<inCluster, argoSession, cache>>
  \/ listRequest[v].step = "again" /\ ~argoSession /\ ListFails(v)
  \/ listRequest[v].step \in {"list", "session", "again", "served"} /\ ListFails(v)

RefreshSession(v) ==
  /\ listRequest[v].step = "session"
  /\ argoSession' = TRUE /\ listRequest' = [listRequest EXCEPT ![v].step = "again"]
  /\ UNCHANGED <<inCluster, cache>>

-----------------------------------------------------------------------------
PipelineNext ==
  \/ ListTick \/ SessionExpires \/ \E o \in Owners : Deploys(o)
  \/ \E v \in Viewers : GetPipelines(v) \/ ListApplications(v) \/ Fill(v) \/ RefreshSession(v)

PipelineSpec == PipelineInit /\ [][PipelineNext]_pipelineVars

-----------------------------------------------------------------------------
\* However requests of different viewers overlap and fill the one cache, the rows a viewer
\* gets are those in scope of one moment no earlier than the fetchedAt of the answer, which
\* is younger than the lifetime of the cache; or none, said to be as fresh, but only if the
\* payload of that fetch was no list (pipelines.service getPipelines, pipelines.controller
\* listPipelines, argo-cd.client listApplications).
AnswerIsAsFreshAsSaid ==
  \A v \in Viewers : LET q == listRequest[v] IN q.step = "done" =>
    /\ q.began - q.answer.fetchedAt < CacheTtl
    /\ IF q.answer.listed
       THEN \E t \in q.answer.fetchedAt..now : \E rows \in sinceTick[t] :
              q.answer.rows = Visible(v, rows)
       ELSE q.answer.rows = {}
=============================================================================
