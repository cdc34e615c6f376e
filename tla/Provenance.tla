------------------------------ MODULE Provenance ------------------------------
(***************************************************************************)
(* GET /pipelines/:name/deployments of a user's app.  Every entry of the   *)
(* Argo CD history is traced to a commit by its image digest: the entries  *)
(* of one request are resolved side by side and requests overlap, all over *)
(* one table of what is known of a digest.  An answer of GitHub is of the  *)
(* moment it is given: package versions come and go, and so do runs.       *)
(***************************************************************************)
EXTENDS Naturals, FiniteSets

CONSTANTS
  Requests,
  Entries,      \* the history of the application
  Digests,
  DigestOf,     \* the image of an entry: a rollback deploys one twice
  DeployedAt,   \* when an entry landed, 0 if Argo CD does not say
  Commits,
  FinishedAt,   \* when the successful run of a commit ended
  BuiltFrom,    \* the commit an image was built from
  NoCommit

ASSUME ProvenanceAssumption ==
  /\ DigestOf \in [Entries -> Digests] /\ DeployedAt \in [Entries -> Nat]
  /\ FinishedAt \in [Commits -> Nat] /\ BuiltFrom \in [Digests -> Commits]
  /\ \A c, d \in Commits : FinishedAt[c] = FinishedAt[d] => c = d
  /\ NoCommit \notin Commits

VARIABLES
  tagged,     \* images whose version GitHub shows with the tag of a commit
  listed,     \* the commits whose runs are among the last ten successful ones
  row,        \* image_provenance
  resolving,  \* resolving[r][e]: how far request r is with entry e
  racing      \* history: what was being resolved when its image was verified

provenanceVars == <<tagged, listed, row, resolving, racing>>

-----------------------------------------------------------------------------
Rows == [confidence : {"none", "unknown", "estimated", "verified"},
         sha : Commits \cup {NoCommit}, old : BOOLEAN]
NoRow == [confidence |-> "none", sha |-> NoCommit, old |-> FALSE]
Steps == {"idle", "token", "versions", "window", "run", "resolved"}
Active == Steps \ {"idle", "resolved"}

ProvenanceTypeOK ==
  /\ tagged \subseteq Digests /\ listed \subseteq Commits
  /\ row \in [Digests -> Rows]
  /\ resolving \in [Requests -> [Entries -> Steps]]
  /\ racing \subseteq Requests \X Entries

ProvenanceInit ==
  /\ tagged = {} /\ listed = {}
  /\ row = [d \in Digests |-> NoRow]
  /\ resolving = [r \in Requests |-> [e \in Entries |-> "idle"]]
  /\ racing = {}

-----------------------------------------------------------------------------
(* GitHub and the clock                                                    *)

\* An image appears, is collected, or its package is hidden.
PackagesChange(ds) ==
  /\ ds # tagged /\ tagged' = ds
  /\ UNCHANGED <<listed, row, resolving, racing>>

RunsChange(cs) ==
  /\ cs # listed /\ listed' = cs
  /\ UNCHANGED <<tagged, row, resolving, racing>>

\* An hour passes over an unknown row, half a day over an estimate.
RowAges(d) ==
  /\ row[d] # NoRow /\ ~row[d].old
  /\ row' = [row EXCEPT ![d].old = TRUE]
  /\ UNCHANGED <<tagged, listed, resolving, racing>>

-----------------------------------------------------------------------------
(* resolve                                                                 *)

isStaleByAge(x) == x.old

\* What is verified is never looked up again.
isStale(x) == x.confidence # "verified" /\ x.old
Cached(d) == row[d] # NoRow /\ ~isStale(row[d])

\* The rows of all entries are read before anything is awaited.
GetDeployments(r) ==
  /\ \A e \in Entries : resolving[r][e] = "idle"
  /\ resolving' = [resolving EXCEPT ![r] =
       [e \in Entries |-> IF Cached(DigestOf[e]) THEN "resolved" ELSE "token"]]
  /\ UNCHANGED <<tagged, listed, row, racing>>

Goes(r, e, from, to) ==
  /\ resolving[r][e] = from
  /\ resolving' = [resolving EXCEPT ![r][e] = to]
  /\ UNCHANGED <<tagged, listed, row, racing>>

\* The upsert of an outcome, over whatever the row holds by now.
Persist(r, e, from, confidence, sha) ==
  LET d == DigestOf[e] IN
  /\ resolving[r][e] = from
  /\ row' = [row EXCEPT ![d] = [confidence |-> confidence, sha |-> sha, old |-> FALSE]]
  /\ resolving' = [resolving EXCEPT ![r][e] = "resolved"]
  /\ racing' = (racing \ {<<r, e>>}) \cup
       IF confidence # "verified" THEN {}
       ELSE {q \in Requests \X Entries :
               /\ resolving[q[1]][q[2]] \in Active /\ DigestOf[q[2]] = d /\ q # <<r, e>>}
  /\ UNCHANGED <<tagged, listed>>

\* Without an installation on the repository of the image, the runs must do.
GetToken(r, e) == Goes(r, e, "token", "versions") \/ Goes(r, e, "token", "window")

ListVersions(r, e) ==
  Goes(r, e, "versions", IF DigestOf[e] \in tagged THEN "run" ELSE "window")

\* The run of the commit is decoration, and so is its failure.
FetchRun(r, e) == Persist(r, e, "run", "verified", BuiltFrom[DigestOf[e]])

\* The last run that ended before the deployment.
Before(e) == {c \in listed : FinishedAt[c] <= DeployedAt[e]}
Closest(e) == {c \in Before(e) : \A b \in Before(e) : FinishedAt[b] <= FinishedAt[c]}

\* Without a run the image is unknown; the runs also fail to be read.
TimeWindow(r, e) ==
  \/ \E c \in Closest(e) : Persist(r, e, "window", "estimated", c)
  \/ Persist(r, e, "window", "unknown", NoCommit)

\* Whatever throws is written down as unknown.
ResolveFails(r, e) == Persist(r, e, "versions", "unknown", NoCommit)

\* Commits and runs of the resolved entries are read for display, and the request ends.
Answer(r) ==
  /\ \A e \in Entries : resolving[r][e] = "resolved"
  /\ resolving' = [resolving EXCEPT ![r] = [e \in Entries |-> "idle"]]
  /\ UNCHANGED <<tagged, listed, row, racing>>

-----------------------------------------------------------------------------
ProvenanceNext ==
  \/ \E ds \in SUBSET Digests : PackagesChange(ds)
  \/ \E cs \in SUBSET Commits : RunsChange(cs)
  \/ \E d \in Digests : RowAges(d)
  \/ \E r \in Requests : GetDeployments(r) \/ Answer(r)
  \/ \E r \in Requests, e \in Entries :
       GetToken(r, e) \/ ListVersions(r, e) \/ FetchRun(r, e)
       \/ TimeWindow(r, e) \/ ResolveFails(r, e)

ProvenanceSpec == ProvenanceInit /\ [][ProvenanceNext]_provenanceVars

-----------------------------------------------------------------------------
\* An image that was verified is overwritten only by a lookup that was under way at that
\* moment, and what is verified is the commit of the image (provenance.service resolve,
\* provenance.repository isStale: "verified rows never re-resolve").  An older lookup
\* that ends later may still replace it by an estimate.
VerifiedStands ==
  [][\A d \in Digests : row[d].confidence = "verified" =>
       /\ row[d].sha = BuiltFrom[d]
       /\ <<row'[d].confidence, row'[d].sha>> # <<row[d].confidence, row[d].sha>> =>
            \E q \in racing : DigestOf[q[2]] = d /\ q \notin racing']_provenanceVars
=============================================================================
