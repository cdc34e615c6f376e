------------------------------- MODULE ImageScan -------------------------------
(***************************************************************************)
(* The daily image scans (scan.service.ts, run by the cron of              *)
(* cleanup.service.ts): the admitted accounts are listed once and gone     *)
(* through one by one; the image that runs is read from the pods, a Job    *)
(* scans it in the workers' namespace, its log is the report, and what it  *)
(* counts becomes the account's latest row.  Whatever fails for one account *)
(* is to leave the others alone; the process may stop at any await.        *)
(***************************************************************************)
EXTENDS Naturals, Sequences, SequencesExt

CONSTANTS
  ScanOrder,  \* the admitted accounts, as listAllUsers returns them
  ScanImages,
  NoImage

ASSUME ScanAssumption == ScanOrder \in Seq(ToSet(ScanOrder)) /\ NoImage \notin ScanImages

VARIABLES
  apps,       \* accounts with an active app
  podImages,  \* podImages[u]: images of the app's ready pods
  scanRun,    \* the run of the cron, with its locals
  scanJob,    \* the Job of the scan under way
  latest,     \* latest[u]: the image of the newest row of scan_results
  due         \* history: one image has run since the run began, and nothing failed

scanVars == <<apps, podImages, scanRun, scanJob, latest, due>>

-----------------------------------------------------------------------------
Scanned == ToSet(ScanOrder)
NoScan == [step |-> "idle", left |-> <<>>, image |-> NoImage]

ScanTypeOK ==
  /\ apps \subseteq Scanned /\ due \subseteq apps
  /\ podImages \in [Scanned -> SUBSET ScanImages]
  /\ scanRun \in [step : {"idle", "current", "pods", "create", "wait", "logs", "delete", "store"},
                  left : {SubSeq(ScanOrder, n, Len(ScanOrder)) : n \in 1..Len(ScanOrder) + 1},
                  image : ScanImages \cup {NoImage}]
  /\ scanJob \in {"none", "running", "succeeded", "failed"}
  /\ latest \in [Scanned -> ScanImages \cup {NoImage}]

ScanInit ==
  /\ apps = {} /\ podImages = [u \in Scanned |-> {}]
  /\ scanRun = NoScan /\ scanJob = "none"
  /\ latest = [u \in Scanned |-> NoImage] /\ due = {}

-----------------------------------------------------------------------------
(* Accounts and their apps                                                 *)

AppAppears(u) ==
  /\ u \notin apps /\ apps' = apps \cup {u}
  /\ UNCHANGED <<podImages, scanRun, scanJob, latest, due>>

\* Removed or erased; the rows of scan_results stay.
AppGoes(u) ==
  /\ u \in apps /\ apps' = apps \ {u} /\ podImages' = [podImages EXCEPT ![u] = {}]
  /\ due' = due \ {u}
  /\ UNCHANGED <<scanRun, scanJob, latest>>

\* During a rollout pods of two images are ready, or none.
PodsChange(u, images) ==
  /\ u \in apps /\ images # podImages[u] /\ podImages' = [podImages EXCEPT ![u] = images]
  /\ due' = due \ {u}
  /\ UNCHANGED <<apps, scanRun, scanJob, latest>>

-----------------------------------------------------------------------------
(* scanAllActiveUsers                                                      *)

aside == <<apps, podImages, latest>>

\* The next account's turn, or the end of the run.
TurnTo(left) == [NoScan EXCEPT !.left = left, !.step = IF left = <<>> THEN "idle" ELSE "current"]
User == Head(scanRun.left)
NextUser == scanRun' = TurnTo(Tail(scanRun.left))
Scans(step) == scanRun' = [scanRun EXCEPT !.step = step]
WithoutReport == scanRun' = [scanRun EXCEPT !.step = "delete", !.image = NoImage]

StartScans ==
  /\ scanRun.step = "idle" /\ scanRun' = TurnTo(ScanOrder)
  /\ due' = {u \in apps : \E i \in ScanImages : podImages[u] = {i}}
  /\ UNCHANGED <<scanJob, aside>>

ReadCurrent ==
  /\ scanRun.step = "current"
  /\ IF User \in apps THEN Scans("pods") ELSE NextUser
  /\ UNCHANGED <<scanJob, due, aside>>

\* runningImage: with two images ready, or none, there is nothing to scan.
ReadPodImages ==
  /\ scanRun.step = "pods"
  /\ \/ \E i \in ScanImages : /\ podImages[User] = {i}
                          /\ scanRun' = [scanRun EXCEPT !.step = "create", !.image = i]
     \/ (\A i \in ScanImages : podImages[User] # {i}) /\ NextUser
  /\ UNCHANGED <<scanJob, due, aside>>

CreateScanJob ==
  /\ scanRun.step = "create" /\ Scans("wait") /\ scanJob' = "running"
  /\ UNCHANGED <<due, aside>>

\* One pod, once, and no longer than its deadline (backoffLimit 0).
ScanEnds ==
  /\ scanJob = "running" /\ scanJob' \in {"succeeded", "failed"}
  /\ UNCHANGED <<scanRun, due, aside>>

Succeeded == scanRun.step = "wait" /\ scanJob = "succeeded"

\* Mutant: the Job is deleted as soon as it is done, and its pod with it.
DeleteWhenDone == Succeeded /\ Scans("logs") /\ scanJob' = "none" /\ UNCHANGED <<due, aside>>

SeeSuccess == Succeeded /\ Scans("logs") /\ UNCHANGED <<scanJob, due, aside>>

\* The Job has failed, or five minutes are over, whatever it is doing.
GiveUpWaiting ==
  /\ scanRun.step = "wait" /\ WithoutReport /\ due' = due \ {User}
  /\ UNCHANGED <<scanJob, aside>>

\* The report is in the log of the Job's pod, as long as there is the Job.
ReadJobLogs ==
  /\ scanRun.step = "logs" /\ scanJob = "succeeded" /\ Scans("delete")
  /\ UNCHANGED <<scanJob, due, aside>>

\* The log cannot be read or holds no report; or the Job has no pod any more.
LogsUnreadable ==
  /\ scanRun.step = "logs" /\ WithoutReport
  /\ due' = IF scanJob = "succeeded" THEN due \ {User} ELSE due
  /\ UNCHANGED <<scanJob, aside>>

\* finally: with or without a report, and with or without success; what is left of a Job
\* goes by its ttl, and nobody reads it again.
DeleteScanJob ==
  /\ scanRun.step = "delete" /\ scanJob' = "none"
  /\ IF scanRun.image = NoImage THEN NextUser ELSE Scans("store")
  /\ UNCHANGED <<due, aside>>

\* One insert, with the row it follows read just before; an increase of the counts is
\* posted to Discord, once, and nothing comes of it here.
StoreResult ==
  /\ scanRun.step = "store" /\ latest' = [latest EXCEPT ![User] = scanRun.image] /\ NextUser
  /\ UNCHANGED <<apps, podImages, scanJob, due>>

CallFails == scanRun.step \in {"current", "pods", "create"} /\ due' = due \ {User}

\* Mutant: what fails for one account ends the run.
FailureEndsRun == CallFails /\ scanRun' = NoScan /\ UNCHANGED <<scanJob, aside>>

\* A read fails, or the Job is not created: the account waits for the next day.
UserFails == CallFails /\ NextUser /\ UNCHANGED <<scanJob, aside>>

\* Nobody takes the run up again.
ScanCrash ==
  /\ scanRun.step # "idle"
  /\ scanRun' = NoScan /\ scanJob' = "none" /\ due' = {}
  /\ UNCHANGED aside

-----------------------------------------------------------------------------
ScanNext ==
  \/ \E u \in Scanned : AppAppears(u) \/ AppGoes(u)
  \/ \E u \in Scanned, images \in SUBSET ScanImages : PodsChange(u, images)
  \/ StartScans \/ ReadCurrent \/ ReadPodImages \/ CreateScanJob \/ ScanEnds \/ SeeSuccess
  \/ GiveUpWaiting \/ ReadJobLogs \/ LogsUnreadable \/ DeleteScanJob \/ StoreResult
  \/ UserFails \/ ScanCrash

ScanSpec == ScanInit /\ [][ScanNext]_scanVars

-----------------------------------------------------------------------------
\* A run that came to its end has scanned every app that ran one image throughout and that
\* nothing failed for, and its newest row is of that image; whatever failed for accounts
\* before it (scanAllActiveUsers: "a single user's failure doesn't block the rest"), and
\* although the Job goes with its log (runScan reads the log before its finally).
RunsReachEveryone ==
  scanRun.step = "idle" => \A u \in due : podImages[u] = {latest[u]}
=============================================================================
