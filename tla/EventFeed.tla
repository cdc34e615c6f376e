------------------------------ MODULE EventFeed ------------------------------
(***************************************************************************)
(* The event store behind the webhooks: Argo CD reports the syncs of a     *)
(* pipeline and GitHub its workflow runs, a report may be lost, sent again *)
(* or overtaken by a later one, and what arrives is stored under the time  *)
(* of its arrival.  The summary of a pipeline is computed from the rows of *)
(* the last days each time it is asked for.  Times are the milliseconds of *)
(* received_at; no two rows are of one.                                    *)
(***************************************************************************)
EXTENDS Integers, FiniteSets, Sequences, FiniteSetsExt

CONSTANTS
  EventWindow,   \* windowDays
  MaxEventTime,  \* bound: clock ticks
  MaxReports,    \* bound: things that happen to the pipeline
  MaxArrivals    \* bound: rows stored

ASSUME EventAssumption == {EventWindow, MaxEventTime, MaxReports, MaxArrivals} \subseteq Nat

VARIABLES
  clock,
  happened,  \* the reports of this pipeline, in the order of what they report
  wire,      \* reports that may still arrive, or never do
  rows,      \* deployment_events, in the order of insertion
  inOrder    \* history: every arrival was the first of its report and overtook none

eventVars == <<clock, happened, wire, rows, inOrder>>

-----------------------------------------------------------------------------
(* Reports                                                                 *)

\* A workflow run or a degraded health is stored and counted as neither; a ping and a
\* report whose secret or signature is refused are not stored.
Reports == {"sync_succeeded", "sync_failed", "other", "unstored"}
EventRows == [of : 1..MaxReports, at : 0..MaxEventTime]

EventTypeOK ==
  /\ clock \in 0..MaxEventTime
  /\ happened \in Seq(Reports) /\ Len(happened) <= MaxReports
  /\ wire \subseteq 1..Len(happened)
  /\ rows \in Seq(EventRows) /\ Len(rows) <= MaxArrivals
  /\ inOrder \in BOOLEAN

EventInit == clock = 0 /\ happened = <<>> /\ wire = {} /\ rows = <<>> /\ inOrder = TRUE

EventTick ==
  /\ clock < MaxEventTime /\ clock' = clock + 1
  /\ UNCHANGED <<happened, wire, rows, inOrder>>

Report(r) ==
  /\ Len(happened) < MaxReports
  /\ happened' = Append(happened, r) /\ wire' = wire \cup {Len(happened) + 1}
  /\ UNCHANGED <<clock, rows, inOrder>>

\* receiveArgocd, receiveGithub: authenticated, parsed, normalised and inserted before the
\* answer; when that is lost the report is sent again.
Receive(n) ==
  /\ n \in wire /\ \A i \in DOMAIN rows : rows[i].at < clock
  /\ wire' \in {wire, wire \ {n}}
  /\ IF happened[n] = "unstored" THEN UNCHANGED <<rows, inOrder>>
     ELSE /\ Len(rows) < MaxArrivals
          /\ rows' = Append(rows, [of |-> n, at |-> clock])
          /\ inOrder' = (inOrder /\ \A i \in DOMAIN rows : rows[i].of < n)
  /\ UNCHANGED <<clock, happened>>

EventNext ==
  \/ EventTick
  \/ \E r \in Reports : Report(r)
  \/ \E n \in wire : Receive(n)

EventSpec == EventInit /\ [][EventNext]_eventVars

-----------------------------------------------------------------------------
(* summary                                                                 *)

Type(row) == happened[row.of]
Syncs == {"sync_succeeded", "sync_failed"}

\* WHERE received_at >= sinceIso, for the counts as for the sequence.  Rows are known by
\* their number, which is the order of received_at.
InWindow == {i \in DOMAIN rows : rows[i].at >= clock - EventWindow}
SyncRows == {i \in InWindow : Type(rows[i]) \in Syncs}
CountOf(type) == Cardinality({i \in InWindow : Type(rows[i]) = type})

NoMean == -1
\* Math.round of the mean of n numbers with sum s.
Mean(s, n) == IF n = 0 THEN NoMean ELSE (2 * s + n) \div (2 * n)

NoFailure == -1
FreshLoop == [sum |-> 0, count |-> 0, failedAt |-> NoFailure]

\* Mutants: the failure is not forgotten once it is recovered from; a repeated failure
\* does not start the recovery anew.
FailureKept(loop, row) ==
  IF Type(row) = "sync_failed" THEN [loop EXCEPT !.failedAt = row.at]
  ELSE IF loop.failedAt = NoFailure THEN loop
  ELSE [loop EXCEPT !.sum = @ + row.at - loop.failedAt, !.count = @ + 1]
FirstFailureCounts(loop, row) ==
  IF Type(row) = "sync_failed"
  THEN [loop EXCEPT !.failedAt = IF @ = NoFailure THEN row.at ELSE @]
  ELSE IF loop.failedAt = NoFailure THEN loop
  ELSE [sum |-> loop.sum + row.at - loop.failedAt, count |-> loop.count + 1, failedAt |-> NoFailure]

\* One turn of the loop over the rows.
Turn(loop, row) ==
  IF Type(row) = "sync_failed" THEN [loop EXCEPT !.failedAt = row.at]
  ELSE IF loop.failedAt = NoFailure THEN loop
  ELSE [sum |-> loop.sum + row.at - loop.failedAt, count |-> loop.count + 1, failedAt |-> NoFailure]

\* The loop as it stands after row i.
LoopAfter[i \in 0..Len(rows)] ==
  IF i = 0 THEN FreshLoop
  ELSE IF i \in SyncRows THEN Turn(LoopAfter[i - 1], rows[i])
  ELSE LoopAfter[i - 1]
Loop == LoopAfter[Len(rows)]

\* The sum of the numbers f gives to rows.
Sum(f) ==
  LET upTo[i \in 0..Len(rows)] ==
        IF i = 0 THEN 0 ELSE IF i \in DOMAIN f THEN upTo[i - 1] + f[i] ELSE upTo[i - 1]
  IN upTo[Len(rows)]

\* From each success to the one before it.
Successes == {i \in SyncRows : Type(rows[i]) = "sync_succeeded"}
Intervals ==
  [i \in {j \in Successes : j # Min(Successes)} |->
     rows[i].at - rows[Max({j \in Successes : j < i})].at]

Summary ==
  [deployCount |-> CountOf("sync_succeeded"), failureCount |-> CountOf("sync_failed"),
   lastEvent |-> IF rows = <<>> THEN "none" ELSE Type(rows[Len(rows)]),
   mttr |-> Mean(Loop.sum, Loop.count),
   avgInterval |-> Mean(Sum(Intervals), Cardinality(DOMAIN Intervals))]

\* What a card of the observatory shows of it.
HasEventSignal ==
  Summary.deployCount > 0 \/ Summary.failureCount > 0 \/ Summary.lastEvent # "none"
ShowsRecovery == Summary.mttr # NoMean

-----------------------------------------------------------------------------
(* Property                                                                *)

\* Successes right after a failure, and how long each took.
Recoveries ==
  {i \in Successes : \E f \in SyncRows \ Successes :
     f < i /\ \A j \in SyncRows : ~(f < j /\ j < i)}
RecoveryTimes == [i \in Recoveries |-> rows[i].at - rows[Max({j \in SyncRows : j < i})].at]

\* Failures the pipeline came back from.
TrueRecoveries ==
  {i \in DOMAIN happened : happened[i] = "sync_succeeded" /\ \E f \in 1..(i - 1) :
     happened[f] = "sync_failed" /\ \A j \in (f + 1)..(i - 1) : happened[j] \notin Syncs}

\* The loop over the rows of the window averages the times from a failure to the success
\* next after it and nothing else, whichever rows of a pair the window cuts off; the
\* intervals average to what lies between the first and the last deployment; a recovery is
\* shown only beside the failure and the deployment it is made of; and unless a report was
\* repeated or overtaken, lost ones never make the pipeline recover more often than it did
\* (events.repository summary, PipelineSection).
SummaryHolds == rows # <<>> =>
  /\ Summary.mttr = Mean(Sum(RecoveryTimes), Cardinality(Recoveries))
  /\ LET n == Cardinality(Successes) IN
     IF n < 2 THEN Summary.avgInterval = NoMean
     ELSE Summary.avgInterval = Mean(rows[Max(Successes)].at - rows[Min(Successes)].at, n - 1)
  /\ ShowsRecovery => /\ HasEventSignal /\ Summary.mttr <= EventWindow
                      /\ Summary.failureCount > 0 /\ Summary.deployCount > 0
  /\ inOrder => Loop.count <= Cardinality(TrueRecoveries)
=============================================================================
