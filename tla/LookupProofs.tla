---------------------------- MODULE LookupProofs ----------------------------
(***************************************************************************)
(* What the proof system establishes of answers put together from several  *)
(* reads: the provenance of images, the checklist of a repository, the stage*)
(* shown as live, the daily scans, the cached lists of pipelines and alerts*)
(* and the summary of the events, for any number of requests, viewers,     *)
(* images, commits, reports and moments.                                   *)
(***************************************************************************)
EXTENDS Provenance, StackCheck, DeployStatus, ImageScan, AlertList, EventFeed,
        FiniteSetTheorems, WellFoundedInduction, TLAPS

-----------------------------------------------------------------------------
(* Provenance                                                              *)

\* What is verified is right, and whoever may still write over it is known.
VerifiedInv ==
  /\ ProvenanceTypeOK
  /\ \A d \in Digests : row[d].confidence = "verified" =>
       /\ row[d].sha = BuiltFrom[d]
       /\ \A r \in Requests, e \in Entries :
            resolving[r][e] \in Active /\ DigestOf[e] = d => <<r, e>> \in racing

\* What VerifiedStands asks of a step.
Stands ==
  \A d \in Digests : row[d].confidence = "verified" =>
    /\ row[d].sha = BuiltFrom[d]
    /\ <<row'[d].confidence, row'[d].sha>> # <<row[d].confidence, row[d].sha>> =>
         \E q \in racing : DigestOf[q[2]] = d /\ q \notin racing'

LEMMA VerifiedBegins == ASSUME ProvenanceAssumption, ProvenanceInit PROVE VerifiedInv
BY DEF ProvenanceAssumption, ProvenanceInit, VerifiedInv, ProvenanceTypeOK, Rows, NoRow, Steps

\* The rows stay, and no lookup begins of what is verified.
LEMMA LookupsMove ==
  ASSUME VerifiedInv, UNCHANGED <<row, racing>>,
         tagged' \subseteq Digests, listed' \subseteq Commits,
         resolving' \in [Requests -> [Entries -> Steps]],
         \A r \in Requests, e \in Entries :
           resolving'[r][e] \in Active =>
             resolving[r][e] \in Active \/ row[DigestOf[e]].confidence # "verified"
  PROVE  VerifiedInv' /\ Stands
BY DEF VerifiedInv, ProvenanceTypeOK, Stands

\* The upsert of an outcome.
LEMMA OutcomePersists ==
  ASSUME ProvenanceAssumption, VerifiedInv, NEW r \in Requests, NEW e \in Entries,
         NEW from \in Active, NEW confidence \in {"unknown", "estimated", "verified"},
         NEW sha \in Commits \cup {NoCommit}, Persist(r, e, from, confidence, sha),
         confidence = "verified" => sha = BuiltFrom[DigestOf[e]]
  PROVE  VerifiedInv' /\ Stands
<1> DEFINE d == DigestOf[e]
           new == [confidence |-> confidence, sha |-> sha, old |-> FALSE]
<1>1. d \in Digests /\ new \in Rows
  BY DEF ProvenanceAssumption, Rows
<1>2. /\ row' = [row EXCEPT ![d] = new] /\ UNCHANGED <<tagged, listed>>
      /\ resolving' = [resolving EXCEPT ![r][e] = "resolved"]
      /\ resolving[r][e] = from
      /\ racing' = (racing \ {<<r, e>>}) \cup
           IF confidence # "verified" THEN {}
           ELSE {q \in Requests \X Entries :
                   /\ resolving[q[1]][q[2]] \in Active /\ DigestOf[q[2]] = d /\ q # <<r, e>>}
  BY DEF Persist
<1>3. ProvenanceTypeOK'
  <2>1. resolving' \in [Requests -> [Entries -> Steps]]
    BY <1>2 DEF VerifiedInv, ProvenanceTypeOK, Steps
  <2>2. row' \in [Digests -> Rows]
    BY <1>1, <1>2 DEF VerifiedInv, ProvenanceTypeOK
  <2>3. racing' \subseteq Requests \X Entries
    BY <1>2 DEF VerifiedInv, ProvenanceTypeOK
  <2>4. QED
    BY <1>2, <2>1, <2>2, <2>3 DEF VerifiedInv, ProvenanceTypeOK
<1>4. \A p \in Requests, f \in Entries :
        resolving'[p][f] \in Active => resolving[p][f] \in Active /\ <<p, f>> # <<r, e>>
  BY <1>2 DEF VerifiedInv, ProvenanceTypeOK, Active
<1>5. \A c \in Digests \ {d} : row'[c] = row[c]
  BY <1>1, <1>2 DEF VerifiedInv, ProvenanceTypeOK
<1>6. row'[d] = new
  BY <1>1, <1>2 DEF VerifiedInv, ProvenanceTypeOK
<1>7. VerifiedInv'
  <2>1. SUFFICES ASSUME NEW c \in Digests, row'[c].confidence = "verified"
                 PROVE  /\ row'[c].sha = BuiltFrom[c]
                        /\ \A p \in Requests, f \in Entries :
                             resolving'[p][f] \in Active /\ DigestOf[f] = c => <<p, f>> \in racing'
    BY <1>3 DEF VerifiedInv
  <2>2. CASE c = d
    BY <1>2, <1>4, <1>6, <2>1, <2>2
  <2>3. CASE c # d
    BY <1>2, <1>4, <1>5, <2>1, <2>3 DEF VerifiedInv
  <2>4. QED
    BY <2>2, <2>3
<1>8. Stands
  <2>1. SUFFICES ASSUME NEW c \in Digests, row[c].confidence = "verified",
                        <<row'[c].confidence, row'[c].sha>> # <<row[c].confidence, row[c].sha>>
                 PROVE  \E q \in racing : DigestOf[q[2]] = c /\ q \notin racing'
    BY DEF Stands, VerifiedInv
  <2>2. c = d /\ confidence # "verified"
    BY <1>5, <1>6, <2>1 DEF VerifiedInv
  <2>3. <<r, e>> \in racing /\ <<r, e>> \notin racing'
    BY <1>2, <2>1, <2>2 DEF VerifiedInv
  <2>4. QED
    BY <2>2, <2>3
<1>9. QED
  BY <1>7, <1>8

LEMMA VerifiedKept ==
  ASSUME ProvenanceAssumption, VerifiedInv, [ProvenanceNext]_provenanceVars
  PROVE  VerifiedInv' /\ Stands
<1> USE DEF VerifiedInv, ProvenanceTypeOK
<1>1. CASE UNCHANGED provenanceVars
  BY <1>1, LookupsMove DEF provenanceVars
<1>2. ASSUME NEW ds \in SUBSET Digests, PackagesChange(ds) PROVE VerifiedInv' /\ Stands
  BY <1>2, LookupsMove DEF PackagesChange
<1>3. ASSUME NEW cs \in SUBSET Commits, RunsChange(cs) PROVE VerifiedInv' /\ Stands
  BY <1>3, LookupsMove DEF RunsChange
<1>4. ASSUME NEW d \in Digests, RowAges(d) PROVE VerifiedInv' /\ Stands
  <2>1. \A c \in Digests : row'[c].confidence = row[c].confidence /\ row'[c].sha = row[c].sha
    BY <1>4 DEF RowAges, Rows
  <2>2. row' \in [Digests -> Rows]
    BY <1>4 DEF RowAges, Rows
  <2>3. QED
    BY <1>4, <2>1, <2>2 DEF RowAges, Stands
<1>5. ASSUME NEW r \in Requests, GetDeployments(r) PROVE VerifiedInv' /\ Stands
  <2>1. \A e \in Entries : row[DigestOf[e]].confidence = "verified" => Cached(DigestOf[e])
    BY DEF Cached, isStale, NoRow
  <2>2. resolving' \in [Requests -> [Entries -> Steps]]
    BY <1>5 DEF GetDeployments, Steps
  <2>3. ASSUME NEW p \in Requests, NEW e \in Entries, resolving'[p][e] \in Active
        PROVE  resolving[p][e] \in Active \/ row[DigestOf[e]].confidence # "verified"
    BY <1>5, <2>1, <2>3 DEF GetDeployments, Active
  <2>4. QED
    BY <1>5, <2>2, <2>3, LookupsMove DEF GetDeployments
<1>6. ASSUME NEW r \in Requests, Answer(r) PROVE VerifiedInv' /\ Stands
  <2>1. resolving' \in [Requests -> [Entries -> Steps]]
    BY <1>6 DEF Answer, Steps
  <2>2. \A p \in Requests, e \in Entries : resolving'[p][e] \in Active => resolving[p][e] \in Active
    BY <1>6 DEF Answer, Active
  <2>3. QED
    BY <1>6, <2>1, <2>2, LookupsMove DEF Answer
<1>7. ASSUME NEW r \in Requests, NEW e \in Entries, NEW from \in Active, NEW to \in Active,
             Goes(r, e, from, to)
      PROVE  VerifiedInv' /\ Stands
  <2>1. resolving' \in [Requests -> [Entries -> Steps]]
    BY <1>7 DEF Goes, Active
  <2>2. \A p \in Requests, f \in Entries : resolving'[p][f] \in Active => resolving[p][f] \in Active
    BY <1>7 DEF Goes
  <2>3. QED
    BY <1>7, <2>1, <2>2, LookupsMove DEF Goes
<1>8. {"token", "versions", "window", "run"} \subseteq Active
  BY DEF Active, Steps
<1>9. ASSUME NEW r \in Requests, NEW e \in Entries, GetToken(r, e) \/ ListVersions(r, e)
      PROVE  VerifiedInv' /\ Stands
  BY <1>7, <1>8, <1>9 DEF GetToken, ListVersions
<1>10. ASSUME NEW r \in Requests, NEW e \in Entries, FetchRun(r, e) PROVE VerifiedInv' /\ Stands
  <2>1. BuiltFrom[DigestOf[e]] \in Commits
    BY DEF ProvenanceAssumption
  <2>2. QED
    BY <1>8, <1>10, <2>1, OutcomePersists DEF FetchRun
<1>11. ASSUME NEW r \in Requests, NEW e \in Entries, TimeWindow(r, e) \/ ResolveFails(r, e)
       PROVE  VerifiedInv' /\ Stands
  <2>1. Closest(e) \subseteq Commits
    BY DEF Closest, Before
  <2>2. QED
    BY <1>8, <1>11, <2>1, OutcomePersists DEF TimeWindow, ResolveFails
<1>12. QED
  BY <1>1, <1>2, <1>3, <1>4, <1>5, <1>6, <1>9, <1>10, <1>11 DEF ProvenanceNext

\* However lookups overlap, a verified image keeps its commit, unless a lookup that was under way
\* when it was verified ends later (provenance.service resolve, provenance.repository isStale).
THEOREM VerifiedImages == ProvenanceSpec => VerifiedStands
<1>1. ProvenanceInit => VerifiedInv
  BY ProvenanceAssumption, VerifiedBegins
<1>2. VerifiedInv /\ [ProvenanceNext]_provenanceVars => VerifiedInv'
  BY ProvenanceAssumption, VerifiedKept
<1>3. VerifiedInv /\ [ProvenanceNext]_provenanceVars => [Stands]_provenanceVars
  BY ProvenanceAssumption, VerifiedKept
<1>4. QED
  BY <1>1, <1>2, <1>3, PTL DEF ProvenanceSpec, VerifiedStands, Stands

-----------------------------------------------------------------------------
(* StackCheck                                                              *)

Checks == [step : CheckSteps, rows : [RowKeys -> RowStates],
           profile : {"none", "db-push", "migrate-deploy"}]

\* A green row of a branch that has not moved since is right about the branch.
RowsInv ==
  /\ check \in Checks /\ source \in Sources
  /\ ~movedOn =>
       /\ check.rows["default_branch"] = "pass" => source.branch = "main"
       /\ check.rows["package_json"] = "pass" => source.package
       /\ check.rows["next_dep"] = "pass" => source.next
       /\ check.rows["build_script"] = "pass" => source.build
       /\ check.rows["package_lockfile"] = "pass" => source.lock

LEMMA RowsBegin == ASSUME StackInit PROVE RowsInv
BY DEF StackInit, RowsInv, Checks, FreshCheck, CheckSteps, RowKeys, RowStates

\* What the reads of a check write.
LEMMA AddsRows ==
  ASSUME check \in Checks, NEW step \in CheckSteps, NEW found \in [RowKeys -> RowStates], Adds(step, found)
  PROVE  check' \in Checks /\ check'.rows = found
BY DEF Adds, Checks

LEMMA WritesRow ==
  ASSUME check \in Checks, NEW k \in RowKeys, NEW state \in RowStates
  PROVE  /\ Row(k, state) \in [RowKeys -> RowStates]
         /\ \A j \in RowKeys : Row(k, state)[j] = IF j = k THEN state ELSE check.rows[j]
BY DEF Row, Checks

LEMMA Concludes ==
  ASSUME check \in Checks, NEW found \in [RowKeys -> RowStates],
         NEW profile \in {"none", "db-push", "migrate-deploy"}, ConcludeCheck(found, profile)
  PROVE  check' \in Checks /\ check'.rows = found
BY DEF ConcludeCheck, Checks, CheckSteps

\* A check stays a check, and this is all a step does to the rows.
Green(k) == check.rows[k] = "pass"
GreenAfter(k) == check'.rows[k] = "pass"
Warranted(k) ==
  \/ k = "default_branch" /\ source.branch = "main"
  \/ k = "package_json" /\ source.package
  \/ k = "next_dep" /\ source.next
  \/ k = "build_script" /\ source.build
  \/ k = "package_lockfile" /\ source.lock
ReadKeys == {"default_branch", "package_json", "next_dep", "build_script", "package_lockfile"}

LEMMA RowsWritten ==
  ASSUME check \in Checks, source \in Sources, StackNext, ~OwnerPushesStack
  PROVE  /\ check' \in Checks
         /\ \A k \in ReadKeys : GreenAfter(k) => Green(k) \/ Warranted(k)
<1> USE DEF Green, GreenAfter, Warranted
<1> DEFINE Goal == \A k \in ReadKeys : GreenAfter(k) => Green(k) \/ Warranted(k)
<1>1. /\ RowKeys = ReadKeys \cup {"repo_access", "prisma_sqlite"}
      /\ RowStates = {"none", "pass", "warn", "fail"}
      /\ {"repo", "package", "lockfile", "schema", "migrations", "nextjs", "unsupported"} = CheckSteps
  BY DEF RowKeys, ReadKeys, RowStates, CheckSteps
<1>2. check.rows \in [RowKeys -> RowStates]
  BY DEF Checks
<1>3. CASE ReadRepo \/ RepoUnreadable
  <2> DEFINE state == PassIf(source.branch = "main", "fail")
             read == [Row("repo_access", "pass") EXCEPT !["default_branch"] = state]
  <2>1. read \in [RowKeys -> RowStates] /\ \A k \in ReadKeys :
          read[k] = IF k = "default_branch" THEN state ELSE check.rows[k]
    BY <1>1, WritesRow DEF PassIf, ReadKeys
  <2>2. Row("repo_access", "fail") \in [RowKeys -> RowStates] /\ \A k \in ReadKeys :
          Row("repo_access", "fail")[k] = check.rows[k]
    BY <1>1, WritesRow DEF ReadKeys
  <2>3. \/ Adds("package", read)
        \/ Adds("unsupported", Row("repo_access", "fail"))
    BY <1>3 DEF ReadRepo, RepoUnreadable
  <2>4. CASE Adds("package", read)
    <3>1. check' \in Checks /\ check'.rows = read
      BY <1>1, <2>1, <2>4, AddsRows
    <3>2. state = "pass" => source.branch = "main"
      BY DEF PassIf
    <3>3. QED
      BY <2>1, <3>1, <3>2
  <2>5. CASE Adds("unsupported", Row("repo_access", "fail"))
    <3>1. check' \in Checks /\ check'.rows = Row("repo_access", "fail")
      BY <1>1, <2>2, <2>5, AddsRows
    <3>2. QED
      BY <2>2, <3>1
  <2>6. QED
    BY <2>3, <2>4, <2>5
<1>4. CASE ReadPackage \/ PackageUnreadable
  <2> DEFINE read == [Row("package_json", "pass") EXCEPT
                        !["next_dep"] = PassIf(source.next, "fail"),
                        !["build_script"] = PassIf(source.build, "warn")]
  <2>1. read \in [RowKeys -> RowStates] /\ \A k \in ReadKeys :
          read[k] = CASE k = "package_json" -> "pass" [] k = "next_dep" -> PassIf(source.next, "fail")
                      [] k = "build_script" -> PassIf(source.build, "warn") [] OTHER -> check.rows[k]
    BY <1>1, WritesRow DEF PassIf, ReadKeys
  <2>2. Row("package_json", "fail") \in [RowKeys -> RowStates] /\ \A k \in ReadKeys :
          Row("package_json", "fail")[k] # check.rows[k] => k = "package_json"
    BY <1>1, WritesRow DEF ReadKeys
  <2>3. Row("package_json", "fail")["package_json"] = "fail"
    BY <1>1, WritesRow DEF ReadKeys
  <2>4. \/ source.package /\ Adds("lockfile", read)
        \/ Adds("lockfile", Row("package_json", "fail"))
    BY <1>4 DEF ReadPackage, PackageUnreadable
  <2>5. CASE source.package /\ Adds("lockfile", read)
    <3>1. check' \in Checks /\ check'.rows = read
      BY <1>1, <2>1, <2>5, AddsRows
    <3>2. /\ PassIf(source.next, "fail") = "pass" => source.next
          /\ PassIf(source.build, "warn") = "pass" => source.build
      BY DEF PassIf
    <3>3. QED
      BY <2>1, <2>5, <3>1, <3>2
  <2>6. CASE Adds("lockfile", Row("package_json", "fail"))
    <3>1. check' \in Checks /\ check'.rows = Row("package_json", "fail")
      BY <1>1, <2>2, <2>6, AddsRows
    <3>2. QED
      BY <2>2, <2>3, <3>1
  <2>7. QED
    BY <2>4, <2>5, <2>6
<1>5. CASE ReadLockfile \/ LockfileUnreadable
  <2>1. LockfileRow(source.lock) \in RowStates /\ (LockfileRow(source.lock) = "pass" => source.lock)
    BY <1>1 DEF LockfileRow, PassIf
  <2>2. CASE ReadLockfile
    <3> DEFINE read == Row("package_lockfile", LockfileRow(source.lock))
    <3>1. read \in [RowKeys -> RowStates] /\ \A k \in ReadKeys :
            read[k] = IF k = "package_lockfile" THEN LockfileRow(source.lock) ELSE check.rows[k]
      BY <1>1, <2>1, WritesRow DEF ReadKeys
    <3>2. check' \in Checks /\ check'.rows = read
      BY <1>1, <2>2, <3>1, AddsRows DEF ReadLockfile
    <3>3. QED
      BY <2>1, <3>1, <3>2
  <2>3. CASE LockfileUnreadable
    <3>1. check' \in Checks /\ check'.rows = check.rows
      BY <1>1, <2>3 DEF LockfileUnreadable, Checks
    <3>2. QED
      BY <3>1
  <2>4. QED
    BY <1>5, <2>2, <2>3
<1>6. ASSUME NEW found, found = check.rows \/ \E state \in RowStates : found = Row("prisma_sqlite", state)
      PROVE  found \in [RowKeys -> RowStates] /\ \A k \in ReadKeys : found[k] = check.rows[k]
  BY <1>1, <1>2, <1>6, WritesRow DEF ReadKeys
<1>7. ASSUME NEW found, NEW profile \in {"none", "db-push", "migrate-deploy"},
             found = check.rows \/ \E state \in RowStates : found = Row("prisma_sqlite", state),
             ConcludeCheck(found, profile)
      PROVE  check' \in Checks /\ Goal
  <2>1. found \in [RowKeys -> RowStates] /\ \A k \in ReadKeys : found[k] = check.rows[k]
    BY <1>6, <1>7
  <2>2. check' \in Checks /\ check'.rows = found
    BY <1>7, <2>1, Concludes
  <2>3. QED
    BY <2>1, <2>2
<1>8. CASE ReadSchema
  <2>1. \/ \E state \in RowStates : ConcludeCheck(Row("prisma_sqlite", state), "none")
        \/ ConcludeCheck(check.rows, "none")
        \/ check' = [check EXCEPT !.step = "migrations"]
    BY <1>1, <1>8 DEF ReadSchema
  <2>2. CASE check' = [check EXCEPT !.step = "migrations"]
    <3>1. check' \in Checks /\ check'.rows = check.rows
      BY <1>1, <2>2 DEF Checks
    <3>2. QED
      BY <3>1
  <2>3. QED
    BY <1>7, <2>1, <2>2
<1>9. CASE SchemaUnreadable \/ ReadMigrations
  BY <1>1, <1>7, <1>9 DEF SchemaUnreadable, ReadMigrations
<1>10. CASE CheckAgain
  BY <1>1, <1>10 DEF CheckAgain, FreshCheck, Checks
<1>11. QED
  BY <1>3, <1>4, <1>5, <1>8, <1>9, <1>10 DEF StackNext

LEMMA RowsKept ==
  ASSUME RowsInv, [StackNext]_stackVars
  PROVE  RowsInv'
<1> USE DEF RowsInv, Green, GreenAfter, Warranted
<1>1. CASE UNCHANGED stackVars
  BY <1>1 DEF stackVars
<1>2. CASE OwnerPushesStack
  BY <1>2 DEF OwnerPushesStack, Sources
<1>3. CASE StackNext /\ ~OwnerPushesStack
  <2>1. UNCHANGED <<source, movedOn>> \/ CheckAgain
    BY <1>3 DEF StackNext, ReadRepo, RepoUnreadable, ReadPackage, PackageUnreadable, ReadLockfile,
       LockfileUnreadable, ReadSchema, SchemaUnreadable, ReadMigrations
  <2>2. CASE UNCHANGED <<source, movedOn>>
    <3>1. check' \in Checks /\ source' \in Sources
      BY <1>3, <2>2, RowsWritten
    <3>2. \A k \in ReadKeys : GreenAfter(k) => Green(k) \/ Warranted(k)
      BY <1>3, RowsWritten
    <3>3. /\ GreenAfter("default_branch") => Green("default_branch") \/ source.branch = "main"
          /\ GreenAfter("package_json") => Green("package_json") \/ source.package
          /\ GreenAfter("next_dep") => Green("next_dep") \/ source.next
          /\ GreenAfter("build_script") => Green("build_script") \/ source.build
          /\ GreenAfter("package_lockfile") => Green("package_lockfile") \/ source.lock
      BY <3>2 DEF ReadKeys
    <3>4. QED
      BY <2>2, <3>1, <3>3
  <2>3. CASE CheckAgain
    BY <1>3, <2>3, RowsWritten DEF CheckAgain, FreshCheck, RowKeys
  <2>4. QED
    BY <2>1, <2>2, <2>3
<1>4. QED
  BY <1>1, <1>2, <1>3

\* A checklist that is all green over a branch nobody pushed to meanwhile misses nothing the
\* build will ask for but the Prisma CLI, however many of its reads failed (deploy.service
\* detectStack, templates.ts renderDockerfile).
THEOREM GreenChecklist == StackSpec => []GreenChecklistBuilds
<1>1. RowsInv => GreenChecklistBuilds
  <2> SUFFICES ASSUME RowsInv, AllGreen, ~movedOn
               PROVE  BuildNeeds(source) \ Has(source) \subseteq {"prisma"}
    BY DEF GreenChecklistBuilds
  <2>1. \A k \in ReadKeys : check.rows[k] = "pass"
    BY DEF AllGreen, RowKeys, ReadKeys
  <2>2. /\ source.branch = "main" /\ source.package /\ source.next
        /\ source.build /\ source.lock
    BY <2>1 DEF RowsInv, ReadKeys
  <2>3. {"main", "package.json", "package-lock.json", "build", "next"} \subseteq Has(source)
    BY <2>2 DEF Has
  <2>4. QED
    BY <2>3 DEF BuildNeeds
<1>2. QED
  BY <1>1, RowsBegin, RowsKept, PTL DEF StackSpec

-----------------------------------------------------------------------------
(* Least and greatest elements, induction and recursion up to a number     *)

LEMMA LeastElement ==
  ASSUME NEW T, T \subseteq Nat, T # {}
  PROVE  \E n \in T : \A m \in T : n <= m
<1> DEFINE R == OpToRel(<, Nat)
<1>1. IsWellFoundedOn(R, Nat)
  BY NatLessThanWellFounded
<1>2. \A x, y \in Nat : <<x, y>> \in R <=> x < y
  BY DEF OpToRel
<1> HIDE DEF R
<1>3. PICK n \in T : \A m \in T : <<m, n>> \notin R
  BY <1>1, WFMin, Zenon
<1>4. ASSUME NEW m \in T PROVE n <= m
  <2>1. m \in Nat /\ n \in Nat /\ <<m, n>> \notin R
    BY <1>3
  <2>2. ~(m < n)
    BY <1>2, <2>1
  <2>3. QED
    BY <2>1, <2>2
<1>5. QED
  BY <1>4

LEMMA GreatestElement ==
  ASSUME NEW N \in Nat, NEW T, T \subseteq 0..N, T # {}
  PROVE  \E n \in T : \A m \in T : m <= n
<1> DEFINE Left == {k \in Nat : N - k \in T}
<1>1. \A m \in T : N - m \in Left /\ m \in 0..N
  BY DEF Left
<1>2. PICK k \in Left : \A l \in Left : k <= l
  <2>1. Left \subseteq Nat /\ Left # {}
    BY <1>1
  <2> HIDE DEF Left
  <2>2. QED
    BY <2>1, LeastElement
<1>3. ASSUME NEW m \in T PROVE m <= N - k
  <2>1. k \in Nat /\ k <= N - m /\ m \in 0..N
    BY <1>1, <1>2
  <2>2. QED
    BY <2>1
<1>4. N - k \in T
  BY <1>2
<1>5. QED
  BY <1>3, <1>4

\* Rows are finitely many.
LEMMA FiniteUpTo == ASSUME NEW N \in Nat, NEW D \in SUBSET (1..N) PROVE IsFiniteSet(D)
<1>1. IsFiniteSet(1..N)
  BY FS_Interval
<1>2. QED
  BY <1>1, FS_Subset

\* Induction up to N, for a set of numbers.
LEMMA ReachesAll ==
  ASSUME NEW N \in Nat, NEW T, 0 \in T, \A n \in 0..N : n \in T /\ n < N => n + 1 \in T
  PROVE  0..N \subseteq T
<1> DEFINE Left == (0..N) \ T
<1> SUFFICES ASSUME Left # {} PROVE FALSE
  OBVIOUS
<1>1. PICK n \in Left : \A m \in Left : n <= m
  <2>1. Left \subseteq Nat
    OBVIOUS
  <2> HIDE DEF Left
  <2>2. QED
    BY <2>1, LeastElement
<1>2. n # 0 /\ n - 1 \in 0..N /\ n - 1 < N /\ n - 1 \in T
  BY <1>1
<1>3. QED
  BY <1>1, <1>2

\* A function is defined by its first value and the step from each value to the next.
StepsIn(N, S) == [1..N -> [S -> S]]
Defines(N, S, a, step) ==
  \E g \in [0..N -> S] : g[0] = a /\ \A i \in 1..N : g[i] = step[i][g[i - 1]]

LEMMA RecursionDefines ==
  ASSUME NEW N \in Nat, NEW S, NEW a \in S, NEW step \in StepsIn(N, S)
  PROVE  Defines(N, S, a, step)
<1> DEFINE Upto(n, g) == g[0] = a /\ \A i \in 1..n : g[i] = step[i][g[i - 1]]
           T == {n \in 0..N : \E g \in [0..n -> S] : Upto(n, g)}
<1>1. 0 \in T
  <2>1. [i \in 0..0 |-> a] \in [0..0 -> S] /\ Upto(0, [i \in 0..0 |-> a])
    OBVIOUS
  <2>2. \E g \in [0..0 -> S] : Upto(0, g)
    BY <2>1, Zenon
  <2>3. QED
    BY <2>2
<1>2. ASSUME NEW n \in 0..N, n \in T, n < N PROVE n + 1 \in T
  <2>1. PICK g \in [0..n -> S] : Upto(n, g)
    BY <1>2
  <2> DEFINE h == [i \in 0..(n + 1) |-> IF i = n + 1 THEN step[n + 1][g[n]] ELSE g[i]]
  <2>2. h \in [0..(n + 1) -> S]
    <3>1. n \in Nat /\ n + 1 \in 1..N /\ g[n] \in S
      BY <1>2
    <3>2. step[n + 1][g[n]] \in S
      BY <3>1 DEF StepsIn
    <3>3. \A i \in 0..(n + 1) : i # n + 1 => i \in 0..n
      BY <3>1
    <3>4. QED
      BY <3>2, <3>3
  <2>3. h[0] = a
    BY <2>1
  <2>4. ASSUME NEW i \in 1..(n + 1) PROVE h[i] = step[i][h[i - 1]]
    BY <2>1
  <2>5. Upto(n + 1, h)
    BY <2>3, <2>4
  <2>6. n + 1 \in 0..N
    BY <1>2
  <2> HIDE DEF h, Upto
  <2>7. \E k \in [0..(n + 1) -> S] : Upto(n + 1, k)
    BY <2>2, <2>5, Zenon
  <2>8. QED
    BY <2>6, <2>7
<1> HIDE DEF T
<1>3. N \in T
  <2>1. 0..N \subseteq T
    BY <1>1, <1>2, ReachesAll
  <2>2. QED
    BY <2>1
<1>4. QED
  BY <1>3 DEF T, Defines


\* The step is of numbers: the provers take no instance of the lemma at Int itself.
LEMMA SumsDefine ==
  ASSUME NEW N \in Nat, NEW step \in StepsIn(N, Int)
  PROVE  Defines(N, Int, 0, step)
<1> DEFINE S == Int
           a == 0
<1>1. step \in StepsIn(N, S) /\ a \in S
  OBVIOUS
<1> HIDE DEF S, a
<1>2. Defines(N, S, a, step)
  BY <1>1, RecursionDefines
<1>3. QED
  BY <1>2 DEF S, a

LEMMA GreatestIs ==
  ASSUME NEW N \in Nat, NEW T, T \subseteq 0..N, T # {}
  PROVE  Max(T) \in T /\ \A m \in T : m <= Max(T)
<1>1. PICK n \in T : \A m \in T : m <= n
  BY GreatestElement
<1>2. \A m \in T : n >= m
  BY <1>1
<1>3. Max(T) \in T /\ \A m \in T : Max(T) >= m
  BY <1>2, Zenon DEF Max
<1>4. QED
  BY <1>3

LEMMA LeastIs ==
  ASSUME NEW T, T \subseteq Nat, T # {}
  PROVE  Min(T) \in T /\ \A m \in T : Min(T) <= m
<1>1. PICK n \in T : \A m \in T : n <= m
  BY LeastElement
<1>2. Min(T) \in T /\ \A m \in T : Min(T) <= m
  BY <1>1, Zenon DEF Min
<1>3. QED
  BY <1>2

LEMMA MaxOf ==
  ASSUME NEW N \in Nat, NEW T, T \subseteq 0..N, NEW n \in T, \A m \in T : m <= n
  PROVE  Max(T) = n
<1>1. Max(T) \in T /\ n <= Max(T)
  BY GreatestIs
<1>2. \A m \in T : m \in Nat
  OBVIOUS
<1>3. Max(T) <= n /\ Max(T) \in Nat /\ n \in Nat
  BY <1>1, <1>2
<1>4. QED
  BY <1>1, <1>3

LEMMA MinOf ==
  ASSUME NEW T, T \subseteq Nat, NEW n \in T, \A m \in T : n <= m
  PROVE  Min(T) = n
<1>1. Min(T) \in T /\ Min(T) <= n
  BY LeastIs
<1>2. n <= Min(T) /\ Min(T) \in Nat /\ n \in Nat
  BY <1>1
<1>3. QED
  BY <1>1, <1>2

-----------------------------------------------------------------------------
(* The stages of a deployment                                              *)

StageWords == {"pending", "success", "failed", "running"}
Polls == [step : {"idle", "head", "run", "versions", "runtime", "live", "done"},
          from : 0..MaxPushes, sha : 0..MaxPushes,
          app : {<<>>} \cup ((0..MaxImages) \X (0..MaxImages)), expected : 0..MaxImages,
          rolledOut : {"unread", "yes", "no"},
          current : {"unread", "none", "waiting", "ready", "broken"}, served : SUBSET Images,
          stages : [build : StageWords, image : StageWords, deploy : StageWords, live : StageWords]]

\* What a request has read stays what it means: the commit it judges is no older than the
\* head it began with, the image it expects was built from that commit, and it found the
\* pod ready before it calls the deployment live.
PollInv ==
  /\ poll.step # "idle" => poll.from <= pushed
  /\ poll.step \in {"run", "versions", "runtime", "live"} =>
       poll.sha \in Pushes /\ poll.from <= poll.sha
  /\ poll.step = "runtime" => poll.expected \in Images /\ built[poll.expected] = poll.sha
  /\ poll.current = "ready" => \E i \in poll.served : built[i] >= poll.from
  /\ poll.step = "live" \/ poll.stages.live = "success" => poll.current = "ready"

StatusInv == StatusTypeOK /\ poll \in Polls /\ PollInv

LEMMA NewestFacts ==
  ASSUME StatusAssumption, StatusTypeOK
  PROVE  Newest \in 0..MaxImages
<1> DEFINE S == {i \in 0..MaxImages : i = 0 \/ built[i] # 0}
<1>1. MaxImages \in Nat /\ S \subseteq 0..MaxImages /\ 0 \in S
  BY DEF StatusAssumption
<1>2. PICK i \in S : \A j \in S : j <= i
  <2> HIDE DEF S
  <2>1. QED
    BY <1>1, GreatestElement
<1>3. (i = 0 \/ built[i] # 0) /\ \A j \in Images : built[j] # 0 => j <= i
  BY <1>1, <1>2 DEF Images
<1>4. \E k \in 0..MaxImages : (k = 0 \/ built[k] # 0) /\ \A j \in Images : built[j] # 0 => j <= k
  BY <1>3
<1>5. QED
  BY <1>4 DEF Newest

LEMMA ImageForFacts ==
  ASSUME StatusAssumption, NEW c, ImageFor(c) # 0
  PROVE  ImageFor(c) \in Images /\ built[ImageFor(c)] = c
<1>1. Tagged(c) # {} /\ Tagged(c) \subseteq 0..MaxImages /\ MaxImages \in Nat
  BY DEF ImageFor, Tagged, Images, StatusAssumption
<1>2. \E i \in Tagged(c) : \A j \in Tagged(c) : j <= i
  BY <1>1, GreatestElement
<1>3. ImageFor(c) \in Tagged(c)
  BY <1>1, <1>2 DEF ImageFor
<1>4. QED
  BY <1>3 DEF Tagged

LEMMA ReadyFacts ==
  ASSUME StatusAssumption
  PROVE  Ready \subseteq Images /\ Cardinality(Ready) \in 0..MaxImages
<1>1. MaxImages \in Nat /\ Ready \subseteq 1..MaxImages
  BY DEF StatusAssumption, Ready, Images
<1>2. IsFiniteSet(1..MaxImages) /\ Cardinality(1..MaxImages) = MaxImages
  BY <1>1, FS_Interval
<1>3. Cardinality(Ready) \in Nat /\ Cardinality(Ready) <= MaxImages
  BY <1>1, <1>2, FS_Subset, FS_CardinalityType
<1>4. QED
  BY <1>1, <1>3 DEF Images

LEMMA StatusBegins == ASSUME StatusAssumption, StatusInit PROVE StatusInv
<1>1. StatusTypeOK
  BY DEF StatusAssumption, StatusInit, StatusTypeOK, Pushes, Images, ArgoStatuses, Rollouts, Idle
<1>2. poll \in Polls /\ PollInv
  BY DEF StatusAssumption, StatusInit, Polls, PollInv, StageWords, Idle, Pending, Pushes
<1>3. QED
  BY <1>1, <1>2 DEF StatusInv

\* The world outside goes on while the request is answered: heads only move forward, and
\* an image keeps the commit it was built from.
LEMMA WorldMoves ==
  ASSUME StatusAssumption, StatusInv, poll' = poll, pushed' \in Pushes, pushed <= pushed',
         built' \in [Images -> 0..MaxPushes],
         \A i \in Images : built[i] # 0 => built'[i] = built[i],
         ci' \in [Pushes -> {"none", "running", "success", "failure"}],
         desired' \in 0..MaxImages, template' \in 0..MaxImages, argo' \in ArgoStatuses,
         rollout' \in Rollouts, pods' \in [Images -> {"none", "waiting", "ready"}]
  PROVE  StatusInv'
<1>1. StatusTypeOK' /\ poll' \in Polls
  BY DEF StatusInv, StatusTypeOK
<1>2. /\ poll.from \in Nat /\ pushed \in Nat /\ pushed' \in Nat /\ poll.served \subseteq Images
      /\ built \in [Images -> 0..MaxPushes] /\ 0 \notin Pushes
  BY DEF StatusInv, StatusTypeOK, Polls, Pushes, StatusAssumption
<1>3. \A i \in Images : built'[i] >= built[i] /\ built[i] \in Nat /\ built'[i] \in Nat
  BY <1>2
<1>4. PollInv'
  BY <1>2, <1>3 DEF StatusInv, PollInv
<1>5. QED
  BY <1>1, <1>4 DEF StatusInv

\* The request goes on with a record that keeps what PollInv asks.
LEMMA PollMoves ==
  ASSUME StatusInv, UNCHANGED outside, poll' \in Polls, PollInv'
  PROVE  StatusInv'
<1>1. DOMAIN poll' = DOMAIN Idle
  BY DEF Polls, Idle
<1>2. QED
  BY <1>1 DEF StatusInv, StatusTypeOK, Polls, outside, cluster

LEMMA OutsideOK ==
  ASSUME StatusAssumption, StatusInv,
         \/ Push \/ (\E c \in Pushes : BuildStarts(c) \/ BuildEnds(c))
         \/ ImageUpdated \/ Synced \/ ArgoRefreshes \/ ControllerObserves
         \/ \E i \in Images : PodChanges(i)
  PROVE  StatusInv'
<1>1. StatusTypeOK /\ MaxPushes \in Nat /\ MaxImages \in Nat /\ pushed \in 1..MaxPushes
  BY DEF StatusInv, StatusTypeOK, Pushes, StatusAssumption
<1>2. CASE Push
  <2>1. pushed' \in Pushes /\ pushed <= pushed'
    BY <1>1, <1>2 DEF Push, Pushes
  <2>2. QED
    BY <1>1, <1>2, <2>1, WorldMoves DEF Push, Open, cluster, StatusTypeOK
<1>3. ASSUME NEW c \in Pushes, BuildStarts(c) PROVE StatusInv'
  BY <1>1, <1>3, WorldMoves DEF BuildStarts, Open, cluster, StatusTypeOK
<1>4. ASSUME NEW c \in Pushes, BuildEnds(c) PROVE StatusInv'
  <2>1. /\ built' \in [Images -> 0..MaxPushes]
        /\ \A i \in Images : built[i] # 0 => built'[i] = built[i]
        /\ ci' \in [Pushes -> {"none", "running", "success", "failure"}]
    BY <1>1, <1>4 DEF BuildEnds, StatusTypeOK, Pushes
  <2>2. QED
    BY <1>1, <1>4, <2>1, WorldMoves DEF BuildEnds, Open, cluster, StatusTypeOK
<1>5. CASE ImageUpdated
  BY <1>1, <1>5, NewestFacts, WorldMoves DEF ImageUpdated, Open, StatusTypeOK
<1>6. CASE Synced
  BY <1>1, <1>6, WorldMoves DEF Synced, Open, StatusTypeOK
<1>7. CASE ArgoRefreshes
  <2>1. argo' \in ArgoStatuses
    BY <1>1, <1>7 DEF ArgoRefreshes, ArgoStatuses, StatusTypeOK
  <2>2. QED
    BY <1>1, <1>7, <2>1, WorldMoves DEF ArgoRefreshes, Open, StatusTypeOK
<1>8. CASE ControllerObserves
  <2>1. rollout' \in Rollouts
    <3>1. Cardinality(Ready) \in 0..MaxImages /\ template \in 0..MaxImages
      BY <1>1, ReadyFacts DEF StatusTypeOK
    <3>2. (IF template # 0 /\ pods[template] # "none" THEN 1 ELSE 0) \in 0..1
      OBVIOUS
    <3>3. QED
      BY <1>8, <3>1, <3>2 DEF ControllerObserves, Rollouts
  <2>2. QED
    BY <1>1, <1>8, <2>1, WorldMoves DEF ControllerObserves, Open, StatusTypeOK
<1>9. ASSUME NEW i \in Images, PodChanges(i) PROVE StatusInv'
  BY <1>1, <1>9, WorldMoves DEF PodChanges, Open, StatusTypeOK
<1>10. QED
  BY <1>2, <1>3, <1>4, <1>5, <1>6, <1>7, <1>8, <1>9

\* An answer that does not say live says nothing the invariant asks about.
LEMMA AnswersOK ==
  ASSUME StatusInv, UNCHANGED outside, poll.step # "idle",
         NEW s \in [build : StageWords, image : StageWords, deploy : StageWords, live : StageWords],
         Answered(s), s.live = "success" => poll.current = "ready"
  PROVE  StatusInv'
<1>1. poll \in Polls /\ poll' = [poll EXCEPT !.step = "done", !.stages = s]
  BY DEF StatusInv, Answered
<1>2. poll' \in Polls
  BY <1>1 DEF Polls
<1>3. /\ poll'.step = "done" /\ poll'.stages = s /\ poll'.from = poll.from
      /\ poll'.current = poll.current /\ poll'.served = poll.served
  BY <1>1 DEF Polls
<1>4. PollInv'
  BY <1>3 DEF StatusInv, PollInv, outside
<1>5. QED
  BY <1>2, <1>4, PollMoves

LEMMA FirstReadsOK ==
  ASSUME StatusAssumption, StatusInv,
         StartPoll \/ ReadApplication \/ ReadCommit \/ ReadRun \/ ReadFails
  PROVE  StatusInv'
<1>1. /\ StatusTypeOK /\ poll \in Polls /\ PollInv /\ pushed \in Pushes /\ pushed \in Nat
      /\ pushed \in 0..MaxPushes /\ Pending \in [build : StageWords, image : StageWords,
                                                 deploy : StageWords, live : StageWords]
      /\ Pending.live = "pending"
  BY DEF StatusInv, StatusTypeOK, Pushes, StatusAssumption, Pending, StageWords
<1>2. CASE StartPoll
  <2>1. poll' = [Idle EXCEPT !.step = "head", !.from = pushed] /\ UNCHANGED outside
    BY <1>2 DEF StartPoll
  <2>2. poll' \in Polls
    <3>1. 0 \in 0..MaxPushes /\ 0 \in 0..MaxImages
      BY DEF StatusAssumption
    <3>2. poll' = [step |-> "head", from |-> pushed, sha |-> 0, app |-> <<>>, expected |-> 0,
                   rolledOut |-> "unread", current |-> "unread", served |-> {}, stages |-> Pending]
      BY <2>1 DEF Idle
    <3>3. <<>> \in {<<>>} \cup ((0..MaxImages) \X (0..MaxImages)) /\ {} \in SUBSET Images
      OBVIOUS
    <3> HIDE DEF Pending
    <3>4. QED
      BY <1>1, <3>1, <3>2, <3>3 DEF Polls
  <2>3. /\ poll'.step = "head" /\ poll'.from = pushed /\ poll'.current = "unread"
        /\ poll'.stages.live = "pending"
    BY <2>1 DEF Idle, Pending
  <2>4. PollInv'
    BY <1>1, <2>1, <2>3 DEF PollInv, outside
  <2>5. QED
    BY <2>1, <2>2, <2>4, PollMoves
<1>3. CASE ReadApplication
  <2>1. PICK a \in (0..MaxImages) \X (0..MaxImages) : poll' = [poll EXCEPT !.app = a]
    <3>1. desired \in 0..MaxImages /\ ReadyImage \in 0..MaxImages /\ 0 \in 0..MaxImages
      BY <1>1 DEF StatusTypeOK, ReadyImage, StatusAssumption
    <3>2. QED
      BY <1>3, <3>1 DEF ReadApplication
  <2>2. poll' \in Polls
    BY <1>1, <2>1 DEF Polls
  <2>3. /\ poll'.step = poll.step /\ poll'.from = poll.from /\ poll'.sha = poll.sha
        /\ poll'.expected = poll.expected /\ poll'.current = poll.current
        /\ poll'.served = poll.served /\ poll'.stages = poll.stages
    BY <1>1, <2>1 DEF Polls
  <2>4. PollInv'
    BY <1>1, <1>3, <2>3 DEF PollInv, outside, ReadApplication
  <2>5. QED
    BY <1>3, <2>2, <2>4, PollMoves DEF ReadApplication
<1>4. CASE ReadCommit
  <2>1. poll' = [poll EXCEPT !.step = "run", !.sha = pushed] /\ UNCHANGED outside /\ poll.step = "head"
    BY <1>4 DEF ReadCommit
  <2>2. poll' \in Polls
    BY <1>1, <2>1 DEF Polls
  <2>3. /\ poll'.step = "run" /\ poll'.from = poll.from /\ poll'.sha = pushed
        /\ poll'.current = poll.current /\ poll'.served = poll.served /\ poll'.stages = poll.stages
    BY <1>1, <2>1 DEF Polls
  <2>4. PollInv'
    BY <1>1, <2>1, <2>3 DEF PollInv, outside
  <2>5. QED
    BY <2>1, <2>2, <2>4, PollMoves
<1>5. CASE ReadRun
  <2> DEFINE s == [Pending EXCEPT !.build = BuildStage]
  <2>1. s \in [build : StageWords, image : StageWords, deploy : StageWords, live : StageWords]
        /\ s.live = "pending"
    <3>1. BuildStage \in StageWords
      BY DEF BuildStage, StageWords
    <3>2. QED
      BY <3>1 DEF Pending, StageWords
  <2>2. CASE Answered(s)
    BY <1>5, <2>1, <2>2, AnswersOK DEF ReadRun
  <2>3. CASE ~Answered(s)
    <3>1. poll' = [poll EXCEPT !.step = "versions", !.stages = s] /\ poll.step = "run" /\ UNCHANGED outside
      BY <1>5, <2>3 DEF ReadRun
    <3> HIDE DEF s
    <3>2. poll' \in Polls
      BY <1>1, <2>1, <3>1 DEF Polls
    <3>3. /\ poll'.step = "versions" /\ poll'.from = poll.from /\ poll'.sha = poll.sha
          /\ poll'.current = poll.current /\ poll'.served = poll.served /\ poll'.stages = s
      BY <1>1, <3>1 DEF Polls
    <3>4. PollInv'
      BY <1>1, <2>1, <3>1, <3>3 DEF PollInv, outside
    <3>5. QED
      BY <3>1, <3>2, <3>4, PollMoves
  <2>4. QED
    BY <2>2, <2>3
<1>6. CASE ReadFails
  <2>1. poll.stages \in [build : StageWords, image : StageWords, deploy : StageWords, live : StageWords]
    BY <1>1 DEF Polls
  <2>2. QED
    BY <1>1, <1>6, <2>1, AnswersOK DEF ReadFails, PollInv
<1>7. QED
  BY <1>2, <1>3, <1>4, <1>5, <1>6

LEMMA LaterReadsOK ==
  ASSUME StatusAssumption, StatusInv,
         ReadVersions \/ ReadDeployment \/ ReadPods \/ Conclude \/ ReadLive
  PROVE  StatusInv'
<1> DEFINE Stages == [build : StageWords, image : StageWords, deploy : StageWords, live : StageWords]
<1>1. StatusTypeOK /\ poll \in Polls /\ PollInv /\ poll.stages \in Stages
  BY DEF StatusInv, Polls
<1>2. CASE ReadVersions
  <2>1. CASE Answered(poll.stages)
    BY <1>1, <1>2, <2>1, AnswersOK DEF ReadVersions, PollInv
  <2>2. CASE ~Answered(poll.stages)
    <3>1. /\ ImageFor(poll.sha) # 0 /\ poll.app[1] = ImageFor(poll.sha) /\ poll.step = "versions"
          /\ poll' = [poll EXCEPT !.step = "runtime", !.expected = poll.app[1], !.stages.image = "success"]
          /\ UNCHANGED outside
      BY <1>2, <2>2 DEF ReadVersions, Expected
    <3>2. poll.app[1] \in Images /\ built[poll.app[1]] = poll.sha /\ poll.app[1] \in 0..MaxImages
      BY <3>1, ImageForFacts DEF Images, StatusAssumption
    <3>3. /\ poll' \in Polls /\ poll'.stages.live = poll.stages.live
          /\ poll'.step = "runtime" /\ poll'.from = poll.from /\ poll'.sha = poll.sha
          /\ poll'.expected = poll.app[1] /\ poll'.current = poll.current /\ poll'.served = poll.served
      BY <1>1, <3>1, <3>2 DEF Polls, StageWords
    <3>4. PollInv'
      BY <1>1, <3>1, <3>2, <3>3 DEF PollInv, outside
    <3>5. QED
      BY <3>1, <3>3, <3>4, PollMoves
  <2>3. QED
    BY <2>1, <2>2
<1>3. CASE ReadDeployment
  <2>1. PICK w \in {"yes", "no"} : poll' = [poll EXCEPT !.rolledOut = w]
    BY <1>3 DEF ReadDeployment
  <2>2. /\ poll' \in Polls
        /\ poll'.step = poll.step /\ poll'.from = poll.from /\ poll'.sha = poll.sha
        /\ poll'.expected = poll.expected /\ poll'.current = poll.current
        /\ poll'.served = poll.served /\ poll'.stages = poll.stages
    BY <1>1, <2>1 DEF Polls
  <2>3. UNCHANGED outside /\ PollInv'
    BY <1>1, <1>3, <2>2 DEF ReadDeployment, PollInv, outside
  <2>4. QED
    BY <2>2, <2>3, PollMoves
<1>4. CASE ReadPods
  <2>1. PICK w \in {"broken", pods[poll.expected]} : poll' = [poll EXCEPT !.served = Ready, !.current = w]
    BY <1>4 DEF ReadPods
  <2>2. /\ poll.step = "runtime" /\ UNCHANGED outside /\ poll.expected \in Images
        /\ built[poll.expected] = poll.sha /\ poll.sha \in Pushes /\ poll.from <= poll.sha
    BY <1>1, <1>4 DEF ReadPods, PollInv
  <2>3. w \in {"none", "waiting", "ready", "broken"} /\ Ready \in SUBSET Images
    BY <1>1, <2>2 DEF StatusTypeOK, Ready
  <2>4. /\ poll' \in Polls
        /\ poll'.step = poll.step /\ poll'.from = poll.from /\ poll'.sha = poll.sha
        /\ poll'.expected = poll.expected /\ poll'.current = w
        /\ poll'.served = Ready /\ poll'.stages = poll.stages
    BY <1>1, <2>1, <2>3 DEF Polls
  <2>5. w = "ready" => \E i \in Ready : built[i] >= poll.from
    <3>1. poll.sha \in Nat /\ poll.from \in Nat
      BY <1>1, <2>2 DEF Polls, Pushes, StatusAssumption
    <3>2. QED
      BY <2>1, <2>2, <3>1 DEF Ready
  <2>6. poll.current = "unread"
    BY <1>4 DEF ReadPods
  <2>7. PollInv'
    BY <1>1, <2>2, <2>4, <2>5, <2>6 DEF PollInv, outside
  <2>8. QED
    BY <2>2, <2>4, <2>7, PollMoves
<1>5. CASE Conclude
  <2>1. PICK degraded \in {FALSE, poll.app[2] = 0} :
          LET d == IF Runtime = "failed" \/ degraded THEN "failed"
                   ELSE IF poll.app[2] # poll.expected THEN "running" ELSE Runtime
              s == [poll.stages EXCEPT !.deploy = d]
          IN IF d = "success" THEN poll' = [poll EXCEPT !.step = "live", !.stages = s] ELSE Answered(s)
    BY <1>5 DEF Conclude
  <2> DEFINE d == IF Runtime = "failed" \/ degraded THEN "failed"
                  ELSE IF poll.app[2] # poll.expected THEN "running" ELSE Runtime
             s == [poll.stages EXCEPT !.deploy = d]
  <2>2. d \in StageWords /\ (d = "success" => poll.current = "ready")
    BY DEF Runtime, StageWords
  <2>3. IF d = "success" THEN poll' = [poll EXCEPT !.step = "live", !.stages = s] ELSE Answered(s)
    BY <2>1
  <2> HIDE DEF d
  <2>4. s \in Stages /\ s.live = poll.stages.live
    BY <1>1, <2>2
  <2>5. poll.step = "runtime" /\ UNCHANGED outside
    BY <1>5 DEF Conclude
  <2> HIDE DEF s
  <2>6. CASE d = "success"
    <3>1. poll' = [poll EXCEPT !.step = "live", !.stages = s] /\ poll.current = "ready"
      BY <2>2, <2>3, <2>6
    <3>2. /\ poll' \in Polls /\ poll'.step = "live" /\ poll'.from = poll.from /\ poll'.sha = poll.sha
          /\ poll'.current = poll.current /\ poll'.served = poll.served /\ poll'.stages = s
      BY <1>1, <2>4, <3>1 DEF Polls
    <3>3. PollInv'
      BY <1>1, <2>5, <3>1, <3>2 DEF PollInv, outside
    <3>4. QED
      BY <2>5, <3>2, <3>3, PollMoves
  <2>7. CASE d # "success"
    BY <1>1, <2>3, <2>4, <2>5, <2>7, AnswersOK DEF PollInv
  <2>8. QED
    BY <2>6, <2>7
<1>6. CASE ReadLive
  <2>1. PICK r \in StageWords : Answered([poll.stages EXCEPT !.live = r])
    BY <1>6 DEF ReadLive, StageWords
  <2> DEFINE s == [poll.stages EXCEPT !.live = r]
  <2>2. s \in Stages
    BY <1>1
  <2>3. poll.step = "live" /\ UNCHANGED outside /\ poll.current = "ready"
    BY <1>1, <1>6 DEF ReadLive, PollInv
  <2>4. Answered(s)
    BY <2>1
  <2> HIDE DEF s
  <2>5. QED
    BY <2>2, <2>3, <2>4, AnswersOK
<1>7. QED
  BY <1>2, <1>3, <1>4, <1>5, <1>6

\* What the shown state rests on is kept by every step of the page and of the cluster.
LEMMA StatusInvariant == StatusSpec => []StatusInv
<1>1. StatusInit => StatusInv
  BY StatusBegins, StatusAssumption
<1>2. StatusInv /\ [StatusNext]_statusVars => StatusInv'
  <2>1. CASE UNCHANGED statusVars
    BY <2>1 DEF statusVars, StatusInv, StatusTypeOK, PollInv, Ready
  <2>2. CASE StatusNext
    BY <2>2, StatusAssumption, OutsideOK, FirstReadsOK, LaterReadsOK DEF StatusNext
  <2>3. QED
    BY <2>1, <2>2
<1>3. QED
  BY <1>1, <1>2, PTL DEF StatusSpec

\* A deployment is called live only after the pod of an image was found ready that was
\* built from a commit no older than the head at the start of the request.
THEOREM LiveShownIsLatest == StatusSpec => []LiveIsLatest
<1>1. StatusInv => LiveIsLatest
  BY DEF StatusInv, PollInv, LiveIsLatest
<1>2. QED
  BY <1>1, StatusInvariant, PTL

-----------------------------------------------------------------------------
(* The daily scans                                                         *)

\* Who is due is still to come or has its row; the scan under way is of the image that
\* runs; and while its log is read the Job has not been deleted.
ScanInv ==
  /\ apps \subseteq Scanned /\ due \subseteq apps
  /\ podImages \in [Scanned -> SUBSET ScanImages]
  /\ latest \in [Scanned -> ScanImages \cup {NoImage}]
  /\ scanRun \in [step : {"idle", "current", "pods", "create", "wait", "logs", "delete", "store"},
                  left : Seq(Scanned), image : ScanImages \cup {NoImage}]
  /\ scanRun.left = <<>> <=> scanRun.step = "idle"
  /\ \A u \in due : /\ \E i \in ScanImages : podImages[u] = {i}
                    /\ u \in ToSet(scanRun.left) \/ podImages[u] = {latest[u]}
  /\ scanRun.step \in {"create", "wait", "logs", "delete", "store"} /\ User \in due =>
       podImages[User] = {scanRun.image}
  /\ scanRun.step \in {"create", "wait", "logs", "store"} => scanRun.image # NoImage
  /\ scanRun.step = "logs" => scanJob = "succeeded"

LEMMA LeftFacts ==
  ASSUME NEW S, NEW s \in Seq(S), s # <<>>
  PROVE  /\ Head(s) \in S /\ Tail(s) \in Seq(S)
         /\ \A x : x \in ToSet(s) => x = Head(s) \/ x \in ToSet(Tail(s))
<1>1. Head(s) \in S /\ Tail(s) \in Seq(S) /\ Len(s) \in Nat \ {0} /\ Head(s) = s[1]
      /\ Len(Tail(s)) = Len(s) - 1 /\ \A i \in 1..(Len(s) - 1) : Tail(s)[i] = s[i + 1]
  OBVIOUS
<1>2. DOMAIN s = 1..Len(s) /\ DOMAIN Tail(s) = 1..(Len(s) - 1)
  BY <1>1
<1>3. ASSUME NEW x, x \in ToSet(s), x # Head(s) PROVE x \in ToSet(Tail(s))
  <2>1. PICK i \in 1..Len(s) : x = s[i]
    BY <1>2, <1>3 DEF ToSet
  <2>2. i - 1 \in 1..(Len(s) - 1) /\ Tail(s)[i - 1] = x
    BY <1>1, <1>3, <2>1
  <2>3. QED
    BY <1>2, <2>2 DEF ToSet
<1>4. QED
  BY <1>1, <1>3

LEMMA ScansBegin == ASSUME ScanAssumption, ScanInit PROVE ScanInv
BY DEF ScanInit, ScanInv, NoScan, User

\* The next account's turn, after an account that has its row or is not due.
LEMMA NextTurn ==
  ASSUME ScanAssumption, ScanInv, NextUser, scanRun.step # "idle",
         apps' = apps, podImages' = podImages, due' \subseteq due,
         latest' \in [Scanned -> ScanImages \cup {NoImage}],
         \A u \in Scanned \ {User} : latest'[u] = latest[u],
         User \in due' => podImages[User] = {latest'[User]}
  PROVE  ScanInv'
<1>1. /\ scanRun.left \in Seq(Scanned) /\ scanRun.left # <<>> /\ User \in Scanned
      /\ Tail(scanRun.left) \in Seq(Scanned)
      /\ \A u : u \in ToSet(scanRun.left) => u = User \/ u \in ToSet(Tail(scanRun.left))
  BY LeftFacts DEF ScanInv, User
<1>2. /\ scanRun'.left = Tail(scanRun.left) /\ scanRun'.image = NoImage
      /\ scanRun'.step = IF scanRun'.left = <<>> THEN "idle" ELSE "current"
      /\ scanRun' = [step |-> scanRun'.step, left |-> scanRun'.left, image |-> NoImage]
  BY DEF NextUser, TurnTo, NoScan
<1>3. scanRun' \in [step : {"idle", "current", "pods", "create", "wait", "logs", "delete", "store"},
                    left : Seq(Scanned), image : ScanImages \cup {NoImage}]
  BY <1>1, <1>2
<1>4. ASSUME NEW u \in due' PROVE u \in ToSet(scanRun'.left) \/ podImages[u] = {latest'[u]}
  BY <1>1, <1>2, <1>4 DEF ScanInv
<1>5. QED
  BY <1>2, <1>3, <1>4 DEF ScanInv

\* The scan of the same account goes on.
LEMMA SameTurn ==
  ASSUME ScanInv, UNCHANGED aside, due' \subseteq due, scanRun.step # "idle",
         NEW step \in {"pods", "create", "wait", "logs", "delete", "store"},
         NEW image \in ScanImages \cup {NoImage},
         scanRun' = [scanRun EXCEPT !.step = step, !.image = image],
         step # "pods" /\ User \in due' => podImages[User] = {image},
         step \in {"create", "wait", "logs", "store"} => image # NoImage,
         step = "logs" => scanJob' = "succeeded"
  PROVE  ScanInv'
<1>1. /\ scanRun' \in [step : {"idle", "current", "pods", "create", "wait", "logs", "delete", "store"},
                       left : Seq(Scanned), image : ScanImages \cup {NoImage}]
      /\ scanRun'.step = step /\ scanRun'.image = image /\ scanRun'.left = scanRun.left
  BY DEF ScanInv
<1>2. User' = User
  BY <1>1 DEF User
<1>3. QED
  BY <1>1, <1>2 DEF ScanInv, aside

LEMMA ScansGoOn ==
  ASSUME ScanAssumption, ScanInv, [ScanNext]_scanVars
  PROVE  ScanInv'
<1>1. CASE UNCHANGED scanVars
  BY <1>1 DEF scanVars, ScanInv, User
<1>2. ASSUME NEW u \in Scanned, AppAppears(u) \/ AppGoes(u) PROVE ScanInv'
  <2>1. UNCHANGED <<scanRun, scanJob, latest>> /\ due' \subseteq due /\ apps' \subseteq Scanned
        /\ due' \subseteq apps' /\ User' = User
    BY <1>2 DEF AppAppears, AppGoes, ScanInv, User
  <2>2. podImages' \in [Scanned -> SUBSET ScanImages] /\ \A v \in due' : podImages'[v] = podImages[v]
    BY <1>2 DEF AppAppears, AppGoes, ScanInv
  <2>3. QED
    BY <2>1, <2>2 DEF ScanInv
<1>3. ASSUME NEW u \in Scanned, NEW images \in SUBSET ScanImages, PodsChange(u, images)
      PROVE  ScanInv'
  <2>1. UNCHANGED <<apps, scanRun, scanJob, latest>> /\ due' = due \ {u} /\ User' = User
    BY <1>3 DEF PodsChange, User
  <2>2. podImages' \in [Scanned -> SUBSET ScanImages] /\ \A v \in due' : podImages'[v] = podImages[v]
    BY <1>3, <2>1 DEF PodsChange, ScanInv
  <2>3. QED
    BY <2>1, <2>2 DEF ScanInv
<1>4. CASE StartScans
  <2>1. /\ ScanOrder \in Seq(Scanned) /\ UNCHANGED <<scanJob, apps, podImages, latest>>
        /\ due' = {u \in apps : \E i \in ScanImages : podImages[u] = {i}}
    BY <1>4 DEF StartScans, aside, ScanAssumption, Scanned
  <2>2. /\ scanRun' = [step |-> scanRun'.step, left |-> ScanOrder, image |-> NoImage]
        /\ scanRun'.step = IF ScanOrder = <<>> THEN "idle" ELSE "current"
        /\ scanRun'.left = ScanOrder
    BY <1>4 DEF StartScans, TurnTo, NoScan
  <2>3. scanRun' \in [step : {"idle", "current", "pods", "create", "wait", "logs", "delete", "store"},
                      left : Seq(Scanned), image : ScanImages \cup {NoImage}]
    BY <2>1, <2>2
  <2>4. \A u \in due' : u \in ToSet(scanRun'.left)
    BY <2>1, <2>2 DEF ScanInv, Scanned
  <2>5. QED
    BY <2>1, <2>2, <2>3, <2>4 DEF ScanInv
<1>5. CASE ReadCurrent
  <2>1. UNCHANGED <<apps, podImages, latest, due>> /\ scanRun.step = "current"
    BY <1>5 DEF ReadCurrent, aside
  <2>2. CASE User \in apps
    <3>1. scanRun' = [scanRun EXCEPT !.step = "pods", !.image = scanRun.image]
      BY <1>5, <2>2 DEF ReadCurrent, Scans, ScanInv
    <3>2. scanRun.image \in ScanImages \cup {NoImage}
      BY DEF ScanInv
    <3>3. QED
      BY <2>1, <3>1, <3>2, SameTurn DEF aside
  <2>3. CASE User \notin apps
    BY <1>5, <2>1, <2>3, NextTurn DEF ReadCurrent, ScanInv
  <2>4. QED
    BY <2>2, <2>3
<1>6. CASE ReadPodImages
  <2>1. UNCHANGED <<apps, podImages, latest, due>> /\ scanRun.step = "pods"
    BY <1>6 DEF ReadPodImages, aside
  <2>2. ASSUME NEW i \in ScanImages, podImages[User] = {i},
               scanRun' = [scanRun EXCEPT !.step = "create", !.image = i]
        PROVE  ScanInv'
    <3>1. i # NoImage
      BY DEF ScanAssumption
    <3>2. QED
      BY <2>1, <2>2, <3>1, SameTurn DEF aside
  <2>3. CASE (\A i \in ScanImages : podImages[User] # {i}) /\ NextUser
    <3>1. User \notin due
      BY <2>3 DEF ScanInv
    <3>2. QED
      BY <2>1, <2>3, <3>1, NextTurn DEF ScanInv
  <2>4. QED
    BY <1>6, <2>2, <2>3 DEF ReadPodImages
<1>7. ASSUME NEW step \in {"wait", "logs", "delete"}, scanRun.step \in {"create", "wait", "logs"},
             Scans(step), UNCHANGED <<due, aside>>, step = "logs" => scanJob' = "succeeded"
      PROVE  ScanInv'
  <2>1. /\ scanRun' = [scanRun EXCEPT !.step = step, !.image = scanRun.image]
        /\ scanRun.image \in ScanImages \cup {NoImage} /\ scanRun.image # NoImage
        /\ User \in due => podImages[User] = {scanRun.image}
    BY <1>7 DEF Scans, ScanInv
  <2>2. QED
    BY <1>7, <2>1, SameTurn
<1>8. CASE CreateScanJob
  BY <1>7, <1>8 DEF CreateScanJob
<1>9. CASE ScanEnds
  <2>1. UNCHANGED <<scanRun, due, apps, podImages, latest>> /\ scanJob = "running" /\ User' = User
    BY <1>9 DEF ScanEnds, aside, User
  <2>2. QED
    BY <2>1 DEF ScanInv
<1>10. CASE SeeSuccess
  BY <1>7, <1>10 DEF SeeSuccess, Succeeded
<1>11. CASE ReadJobLogs
  BY <1>7, <1>11 DEF ReadJobLogs
<1>12. CASE GiveUpWaiting \/ LogsUnreadable
  <2>1. /\ scanRun' = [scanRun EXCEPT !.step = "delete", !.image = NoImage]
        /\ UNCHANGED aside /\ due' = due \ {User} /\ scanRun.step # "idle"
    BY <1>12 DEF GiveUpWaiting, LogsUnreadable, WithoutReport, ScanInv
  <2>2. QED
    BY <2>1, SameTurn
<1>13. CASE DeleteScanJob
  <2>1. UNCHANGED <<due, apps, podImages, latest>> /\ scanRun.step = "delete"
    BY <1>13 DEF DeleteScanJob, aside
  <2>2. CASE scanRun.image = NoImage
    <3>1. User \notin due
      BY <2>1, <2>2 DEF ScanInv, ScanAssumption
    <3>2. QED
      BY <1>13, <2>1, <2>2, <3>1, NextTurn DEF DeleteScanJob, ScanInv
  <2>3. CASE scanRun.image # NoImage
    <3>1. /\ scanRun' = [scanRun EXCEPT !.step = "store", !.image = scanRun.image]
          /\ scanRun.image \in ScanImages \cup {NoImage}
          /\ User \in due => podImages[User] = {scanRun.image}
      BY <1>13, <2>1, <2>3 DEF DeleteScanJob, Scans, ScanInv
    <3>2. QED
      BY <2>1, <2>3, <3>1, SameTurn DEF aside
  <2>4. QED
    BY <2>2, <2>3
<1>14. CASE StoreResult
  <2>1. /\ UNCHANGED <<apps, podImages, due>> /\ NextUser /\ scanRun.step = "store"
        /\ latest' = [latest EXCEPT ![User] = scanRun.image]
    BY <1>14 DEF StoreResult
  <2>2. User \in Scanned
    BY <2>1, LeftFacts DEF ScanInv, User
  <2>3. /\ latest' \in [Scanned -> ScanImages \cup {NoImage}] /\ latest'[User] = scanRun.image
        /\ \A u \in Scanned \ {User} : latest'[u] = latest[u]
    BY <2>1, <2>2 DEF ScanInv
  <2>4. User \in due' => podImages[User] = {latest'[User]}
    BY <2>1, <2>3 DEF ScanInv
  <2>5. QED
    BY <2>1, <2>3, <2>4, NextTurn
<1>15. CASE UserFails
  BY <1>15, NextTurn DEF UserFails, CallFails, aside, ScanInv
<1>16. CASE ScanCrash
  <2>1. UNCHANGED <<apps, podImages, latest>> /\ due' = {} /\ scanRun' = NoScan
    BY <1>16 DEF ScanCrash, aside
  <2>2. QED
    BY <2>1 DEF ScanInv, NoScan
<1>17. QED
  BY <1>1, <1>2, <1>3, <1>4, <1>5, <1>6, <1>8, <1>9, <1>10, <1>11, <1>12, <1>13, <1>14, <1>15, <1>16
     DEF ScanNext

\* A run that came to its end scanned every app that ran one image throughout and that
\* nothing failed for, whatever failed for the accounts before it.
THEOREM EveryoneScanned == ScanSpec => []RunsReachEveryone
<1>1. ScanInit => ScanInv
  BY ScansBegin, ScanAssumption
<1>2. ScanInv /\ [ScanNext]_scanVars => ScanInv'
  BY ScansGoOn, ScanAssumption
<1>3. ScanInv => RunsReachEveryone
  BY DEF ScanInv, RunsReachEveryone, ToSet
<1>4. QED
  BY <1>1, <1>2, <1>3, PTL DEF ScanSpec

-----------------------------------------------------------------------------
(* The list of pipelines                                                   *)

\* What an answer says of its time is true, of the cache as of a request under way; of an
\* unexpected payload nothing was taken.
ListedAt(e, t) == IF e.listed THEN \E u \in t..now : e.rows \in sinceTick[u] ELSE e.rows = {}

\* And true of what a viewer is shown.
ShownAt(v, e) ==
  IF e.listed THEN \E t \in e.fetchedAt..now : \E list \in sinceTick[t] : e.rows = Visible(v, list)
  ELSE e.rows = {}

ListInv ==
  /\ PipelineTypeOK /\ deployed \in sinceTick[now]
  /\ cache.filled => cache.fetchedAt <= now /\ ListedAt(cache, cache.fetchedAt)
  /\ \A v \in Viewers :
       /\ listRequest[v].began <= now
       /\ listRequest[v].step = "served" => ListedAt(listRequest[v].answer, listRequest[v].began)
  /\ AnswerIsAsFreshAsSaid

LEMMA ListBegins == ASSUME PipelineAssumption, PipelineInit PROVE ListInv
BY DEF PipelineAssumption, PipelineInit, ListInv, PipelineTypeOK, Times, NoList, Envelopes, Unasked,
       AnswerIsAsFreshAsSaid

\* The clock and the applications move on: what was listed stays listed.
LEMMA ClusterMoves ==
  ASSUME PipelineAssumption, ListInv, now' \in Times, now <= now', deployed' \subseteq Owners,
         sinceTick' \in [Times -> SUBSET SUBSET Owners], deployed' \in sinceTick'[now'],
         \A t \in 0..now : sinceTick[t] \subseteq sinceTick'[t],
         argoSession' \in BOOLEAN, UNCHANGED <<cache, listRequest>>
  PROVE  ListInv'
<1>1. now \in Nat /\ now' \in Nat /\ PipelineTypeOK'
  BY DEF ListInv, PipelineTypeOK, Times, PipelineAssumption
<1>2. ASSUME NEW e, NEW t \in Nat, ListedAt(e, t)
      PROVE  IF e.listed THEN \E u \in t..now' : e.rows \in sinceTick'[u] ELSE e.rows = {}
  <2>1. CASE e.listed
    <3>1. PICK u \in t..now : e.rows \in sinceTick[u]
      BY <1>2, <2>1 DEF ListedAt
    <3>2. u \in t..now' /\ u \in 0..now
      BY <1>1, <3>1
    <3>3. QED
      BY <2>1, <3>1, <3>2
  <2>2. CASE ~e.listed
    BY <1>2, <2>2 DEF ListedAt
  <2>3. QED
    BY <2>1, <2>2
<1>3. cache'.filled => cache'.fetchedAt <= now' /\ ListedAt(cache, cache.fetchedAt)'
  <2>1. /\ cache.fetchedAt \in Nat
        /\ cache.filled => cache.fetchedAt <= now /\ ListedAt(cache, cache.fetchedAt)
    BY DEF ListInv, PipelineTypeOK, Envelopes, Times
  <2>2. QED
    BY <1>1, <1>2, <2>1 DEF ListedAt
<1>4. ASSUME NEW v \in Viewers
      PROVE  /\ listRequest'[v].began <= now'
             /\ listRequest'[v].step = "served" =>
                  ListedAt(listRequest[v].answer, listRequest[v].began)'
  <2>1. listRequest[v].began \in Nat /\ listRequest[v].began <= now
    BY DEF ListInv, PipelineTypeOK, Times
  <2>2. QED
    BY <1>1, <1>2, <2>1 DEF ListInv, ListedAt
<1>5. AnswerIsAsFreshAsSaid'
  <2>1. SUFFICES ASSUME NEW v \in Viewers, listRequest[v].step = "done", listRequest[v].answer.listed
        PROVE  \E t \in listRequest[v].answer.fetchedAt..now' : \E list \in sinceTick'[t] :
                 listRequest[v].answer.rows = Visible(v, list)
    BY DEF ListInv, AnswerIsAsFreshAsSaid, Visible
  <2>2. PICK t \in listRequest[v].answer.fetchedAt..now : \E list \in sinceTick[t] :
          listRequest[v].answer.rows = Visible(v, list)
    BY <2>1 DEF ListInv, AnswerIsAsFreshAsSaid
  <2>3. listRequest[v].answer.fetchedAt \in Nat
    BY DEF ListInv, PipelineTypeOK, Envelopes, Times
  <2>4. t \in 0..now /\ t \in listRequest[v].answer.fetchedAt..now'
    BY <1>1, <2>3
  <2>5. QED
    BY <2>2, <2>4
<1>6. QED
  BY <1>1, <1>3, <1>4, <1>5 DEF ListInv, ListedAt

\* A request goes on; whatever it holds and answers is of the time it says.
LEMMA RequestMoves ==
  ASSUME PipelineAssumption, ListInv, UNCHANGED inCluster, NEW v \in Viewers,
         argoSession' \in BOOLEAN, cache' \in Envelopes,
         cache'.filled => cache'.fetchedAt <= now /\ ListedAt(cache', cache'.fetchedAt),
         NEW q \in [step : {"idle", "list", "session", "again", "served", "done", "failed"},
                    began : Times, answer : Envelopes],
         listRequest' = [listRequest EXCEPT ![v] = q], q.began <= now,
         q.step = "served" => ListedAt(q.answer, q.began),
         q.step = "done" => q.began - q.answer.fetchedAt < CacheTtl /\ ShownAt(v, q.answer)
  PROVE  ListInv'
<1>1. \A w \in Viewers : listRequest'[w] = IF w = v THEN q ELSE listRequest[w]
  BY DEF ListInv, PipelineTypeOK
<1>2. PipelineTypeOK'
  BY DEF ListInv, PipelineTypeOK, inCluster
<1>3. AnswerIsAsFreshAsSaid'
  BY <1>1 DEF ListInv, AnswerIsAsFreshAsSaid, inCluster, Visible, ShownAt
<1>4. \A w \in Viewers :
        /\ listRequest'[w].began <= now
        /\ listRequest'[w].step = "served" => ListedAt(listRequest'[w].answer, listRequest'[w].began)
  BY <1>1 DEF ListInv
<1>5. QED
  BY <1>2, <1>3, <1>4 DEF ListInv, ListedAt, inCluster

LEMMA ListGoes ==
  ASSUME PipelineAssumption, ListInv, [PipelineNext]_pipelineVars
  PROVE  ListInv'
<1> USE DEF Times
<1>1. /\ PipelineTypeOK /\ now \in Nat /\ MaxTime \in Nat /\ CacheTtl \in Nat \ {0}
      /\ deployed \in sinceTick[now] /\ cache \in Envelopes /\ now \in Times
      /\ NoList \in Envelopes
  BY DEF ListInv, PipelineTypeOK, PipelineAssumption, NoList, Envelopes
<1>2. CASE UNCHANGED pipelineVars
  BY <1>2 DEF pipelineVars, ListInv, PipelineTypeOK, ListedAt, AnswerIsAsFreshAsSaid, Visible
<1>3. CASE ListTick
  <2>1. /\ now' = now + 1 /\ now' \in Times /\ UNCHANGED <<deployed, argoSession, cache, listRequest>>
        /\ sinceTick' = [sinceTick EXCEPT ![now + 1] = {deployed}]
    BY <1>1, <1>3 DEF ListTick
  <2>2. /\ sinceTick' \in [Times -> SUBSET SUBSET Owners] /\ deployed' \in sinceTick'[now']
        /\ \A t \in 0..now : sinceTick'[t] = sinceTick[t]
    BY <1>1, <2>1 DEF PipelineTypeOK
  <2>3. QED
    BY <1>1, <2>1, <2>2, ClusterMoves DEF PipelineTypeOK
<1>4. CASE SessionExpires
  <2>1. argoSession' \in BOOLEAN /\ UNCHANGED <<now, deployed, sinceTick, cache, listRequest>>
    BY <1>4 DEF SessionExpires
  <2>2. /\ now' \in Times /\ now <= now' /\ deployed' \subseteq Owners /\ deployed' \in sinceTick'[now']
        /\ sinceTick' \in [Times -> SUBSET SUBSET Owners]
        /\ \A t \in 0..now : sinceTick[t] \subseteq sinceTick'[t]
    BY <1>1, <2>1 DEF PipelineTypeOK
  <2>3. QED
    BY <2>1, <2>2, ClusterMoves
<1>5. ASSUME NEW o \in Owners, Deploys(o) PROVE ListInv'
  <2>1. /\ deployed' \subseteq Owners /\ UNCHANGED <<now, argoSession, cache, listRequest>>
        /\ sinceTick' = [sinceTick EXCEPT ![now] = sinceTick[now] \cup {deployed'}]
    BY <1>1, <1>5 DEF Deploys, PipelineTypeOK
  <2>2. /\ sinceTick' \in [Times -> SUBSET SUBSET Owners] /\ deployed' \in sinceTick'[now']
        /\ \A t \in 0..now : sinceTick[t] \subseteq sinceTick'[t]
    BY <1>1, <2>1 DEF PipelineTypeOK
  <2>3. QED
    BY <1>1, <2>1, <2>2, ClusterMoves DEF PipelineTypeOK
<1>6. ASSUME NEW v \in Viewers, GetPipelines(v) PROVE ListInv'
  <2>1. /\ UNCHANGED inCluster /\ argoSession' \in BOOLEAN /\ cache' \in Envelopes
        /\ cache' = cache /\ now <= now
    BY <1>1, <1>6 DEF GetPipelines, PipelineTypeOK
  <2>2. CASE Fresh
    <3> DEFINE e == InScope(v, cache)
               q == [step |-> "done", began |-> now, answer |-> e]
    <3>1. /\ e \in Envelopes /\ e.rows = Visible(v, cache.rows) /\ e.fetchedAt = cache.fetchedAt
          /\ e.listed = cache.listed
      BY <1>1 DEF InScope, Envelopes, Visible
    <3>2. /\ cache.filled /\ now - cache.fetchedAt < CacheTtl
          /\ ListedAt(cache, cache.fetchedAt)
      BY <2>2 DEF Fresh, ListInv
    <3>3. listRequest' = [listRequest EXCEPT ![v] = q]
      BY <1>6, <2>2 DEF GetPipelines
    <3> HIDE DEF e
    <3>4. q \in [step : {"idle", "list", "session", "again", "served", "done", "failed"},
                 began : Times, answer : Envelopes]
      BY <1>1, <3>1
    <3>5. q.began - q.answer.fetchedAt < CacheTtl /\ ShownAt(v, q.answer)
      <4>1. q.began = now /\ q.answer = e /\ ({} \cap ScopeOf[v] = {})
        OBVIOUS
      <4>2. QED
        BY <3>1, <3>2, <4>1 DEF ListedAt, ShownAt, Visible
    <3>6. q.began = now /\ q.step = "done"
      OBVIOUS
    <3> HIDE DEF q
    <3>7. cache'.filled => cache'.fetchedAt <= now /\ ListedAt(cache', cache'.fetchedAt)
      BY <2>1 DEF ListInv
    <3>8. QED
      BY <1>1, <2>1, <3>3, <3>4, <3>5, <3>6, <3>7, RequestMoves
  <2>3. CASE ~Fresh
    <3> DEFINE q == [step |-> "list", began |-> now, answer |-> NoList]
    <3>1. listRequest' = [listRequest EXCEPT ![v] = q]
      BY <1>6, <2>3 DEF GetPipelines
    <3>2. /\ q \in [step : {"idle", "list", "session", "again", "served", "done", "failed"},
                    began : Times, answer : Envelopes]
          /\ q.began = now /\ q.step = "list"
      BY <1>1
    <3> HIDE DEF q
    <3>3. cache'.filled => cache'.fetchedAt <= now /\ ListedAt(cache', cache'.fetchedAt)
      BY <2>1 DEF ListInv
    <3>4. QED
      BY <1>1, <2>1, <3>1, <3>2, <3>3, RequestMoves
  <2>4. QED
    BY <2>2, <2>3
<1>7. ASSUME NEW v \in Viewers, UNCHANGED inCluster, UNCHANGED cache, argoSession' \in BOOLEAN,
             NEW step \in {"session", "again", "failed"},
             listRequest' = [listRequest EXCEPT ![v].step = step]
      PROVE  ListInv'
  <2> DEFINE q == [listRequest[v] EXCEPT !.step = step]
  <2>1. /\ q \in [step : {"idle", "list", "session", "again", "served", "done", "failed"},
                  began : Times, answer : Envelopes]
        /\ q.began = listRequest[v].began /\ q.step = step
    BY <1>1 DEF PipelineTypeOK
  <2>2. listRequest' = [listRequest EXCEPT ![v] = q] /\ q.began <= now
    BY <1>7, <2>1 DEF ListInv
  <2> HIDE DEF q
  <2>3. cache'.filled => cache'.fetchedAt <= now /\ ListedAt(cache', cache'.fetchedAt)
    BY <1>7 DEF ListInv
  <2>4. QED
    BY <1>1, <1>7, <2>1, <2>2, <2>3, RequestMoves
<1>8. ASSUME NEW v \in Viewers, ListServed(v) PROVE ListInv'
  <2> DEFINE q == [listRequest[v] EXCEPT !.step = "served", !.answer.rows = deployed,
                                         !.answer.listed = TRUE]
  <2>1. /\ q \in [step : {"idle", "list", "session", "again", "served", "done", "failed"},
                  began : Times, answer : Envelopes]
        /\ q.began = listRequest[v].began /\ q.step = "served"
        /\ q.answer.rows = deployed /\ q.answer.listed
    <3>1. listRequest[v] \in [step : {"idle", "list", "session", "again", "served", "done", "failed"},
                              began : Times, answer : Envelopes] /\ deployed \subseteq Owners
      BY <1>1 DEF PipelineTypeOK
    <3>2. QED
      BY <3>1 DEF Envelopes
  <2>2. listRequest' = [listRequest EXCEPT ![v] = q] /\ UNCHANGED <<inCluster, argoSession, cache>>
    BY <1>8 DEF ListServed
  <2>3. q.began \in Nat /\ q.began <= now
    BY <1>1, <2>1 DEF ListInv, PipelineTypeOK
  <2> HIDE DEF q
  <2>4. ListedAt(q.answer, q.began)
    BY <1>1, <2>1, <2>3 DEF ListedAt
  <2>5. cache'.filled => cache'.fetchedAt <= now /\ ListedAt(cache', cache'.fetchedAt)
    BY <2>2 DEF ListInv
  <2>6. QED
    BY <1>1, <2>1, <2>2, <2>3, <2>4, <2>5, RequestMoves DEF PipelineTypeOK
<1>9. ASSUME NEW v \in Viewers, Fill(v) PROVE ListInv'
  <2> DEFINE e == Fetched(v)
             a == InScope(v, e)
             q == [listRequest[v] EXCEPT !.step = "done", !.answer = a]
  <2>1. /\ e \in Envelopes /\ e.rows = listRequest[v].answer.rows
        /\ e.listed = listRequest[v].answer.listed
        /\ e.fetchedAt = listRequest[v].began /\ listRequest[v].began \in Nat
    <3>1. listRequest[v].answer \in Envelopes /\ listRequest[v].began \in Times
      BY <1>1 DEF PipelineTypeOK
    <3>2. ASSUME NEW w \in Envelopes, NEW t \in Times
          PROVE  LET f == [w EXCEPT !.fetchedAt = t, !.filled = TRUE]
                 IN  /\ f \in Envelopes /\ f.rows = w.rows /\ f.listed = w.listed
                     /\ f.fetchedAt = t
      BY DEF Envelopes
    <3>3. Times \subseteq Nat
      BY DEF Times
    <3>4. e = [listRequest[v].answer EXCEPT !.fetchedAt = listRequest[v].began, !.filled = TRUE]
      BY DEF Fetched
    <3> HIDE DEF e
    <3>5. QED
      BY <3>1, <3>2, <3>3, <3>4
  <2>2. listRequest[v].step = "served" /\ cache' = e /\ UNCHANGED <<inCluster, argoSession>>
        /\ listRequest' = [listRequest EXCEPT ![v] = q]
    BY <1>9 DEF Fill
  <2>3. e.fetchedAt <= now /\ ListedAt(e, e.fetchedAt)
    BY <2>1, <2>2 DEF ListInv, ListedAt
  <2> HIDE DEF e
  <2>4. a \in Envelopes /\ a.rows = Visible(v, e.rows) /\ a.fetchedAt = e.fetchedAt
      /\ a.listed = e.listed
    BY <2>1 DEF InScope, Envelopes, Visible
  <2> HIDE DEF a
  <2>5. /\ q \in [step : {"idle", "list", "session", "again", "served", "done", "failed"},
                  began : Times, answer : Envelopes]
        /\ q.began = listRequest[v].began /\ q.step = "done" /\ q.answer = a
    BY <1>1, <2>4 DEF PipelineTypeOK
  <2>6. q.began - q.answer.fetchedAt < CacheTtl /\ ShownAt(v, q.answer)
    BY <1>1, <2>1, <2>3, <2>4, <2>5 DEF ListedAt, ShownAt, Visible
  <2> HIDE DEF q
  <2>7. q.began <= now
    BY <2>1, <2>3, <2>5
  <2>8. QED
    BY <1>1, <2>1, <2>2, <2>3, <2>5, <2>6, <2>7, RequestMoves DEF PipelineTypeOK
<1>10. ASSUME NEW v \in Viewers, PayloadUnexpected(v) PROVE ListInv'
  <2> DEFINE q == [listRequest[v] EXCEPT !.step = "served", !.answer = NoList]
  <2>1. /\ q \in [step : {"idle", "list", "session", "again", "served", "done", "failed"},
                  began : Times, answer : Envelopes]
        /\ q.began = listRequest[v].began /\ q.step = "served" /\ q.answer = NoList
    BY <1>1 DEF PipelineTypeOK
  <2>2. listRequest' = [listRequest EXCEPT ![v] = q] /\ UNCHANGED <<inCluster, argoSession, cache>>
    BY <1>10 DEF PayloadUnexpected
  <2>3. q.began <= now /\ ListedAt(q.answer, q.began)
    BY <2>1 DEF ListInv, ListedAt, NoList
  <2> HIDE DEF q
  <2>4. cache'.filled => cache'.fetchedAt <= now /\ ListedAt(cache', cache'.fetchedAt)
    BY <2>2 DEF ListInv
  <2>5. QED
    BY <1>1, <2>1, <2>2, <2>3, <2>4, RequestMoves DEF PipelineTypeOK
<1>11. ASSUME NEW v \in Viewers, ListApplications(v) \/ RefreshSession(v) PROVE ListInv'
  BY <1>1, <1>7, <1>8, <1>10, <1>11 DEF ListApplications, RefreshSession, ListFails, PipelineTypeOK
<1>12. QED
  BY <1>2, <1>3, <1>4, <1>5, <1>6, <1>9, <1>11 DEF PipelineNext

\* However requests of different viewers overlap, a list of pipelines is the one of its time
\* (pipelines.service getPipelines, pipelines.controller listPipelines).
LEMMA PipelinesAsFreshAsSaid == ASSUME PipelineAssumption PROVE PipelineSpec => []AnswerIsAsFreshAsSaid
<1>1. PipelineInit => ListInv
  BY ListBegins
<1>2. ListInv /\ [PipelineNext]_pipelineVars => ListInv'
  BY ListGoes
<1>3. ListInv => AnswerIsAsFreshAsSaid
  BY DEF ListInv
<1>4. QED
  BY <1>1, <1>2, <1>3, PTL DEF PipelineSpec

-----------------------------------------------------------------------------
(* The list of alerts                                                      *)

Moments == [firing : SUBSET Subjects, running : SUBSET Subjects]
AlertRequests == [step : {"idle", "both", "listed", "done"}, began : AlertTimes, raw : SUBSET Subjects,
                  lists : SUBSET {"alerts"}, answer : AlertAnswers]

\* These were all the alerts at some moment since t.
ActiveSince(about, t) == \E u \in t..alertNow : \E s \in seenAt[u] : about = s.firing

\* The pipelines linked to the alerts are those of a list the other cache may have given at t.
LinkedSince(about, linked, t) == \E names \in ListedSince(t) : linked = Associated(about, names)

\* Either, or nothing for want of a list.
AlertsTrue(about, lists, t) == IF "alerts" \in lists THEN ActiveSince(about, t) ELSE about = {}
LinksTrue(about, linked, lists, t) ==
  IF "pipelines" \in lists THEN LinkedSince(about, linked, t) ELSE linked = {}

\* The same of what a viewer is shown.
AlertsShown(v, e) ==
  IF "alerts" \in e.lists
  THEN \E t \in e.fetchedAt..alertNow : \E s \in seenAt[t] : e.about = s.firing \cap AlertScopeOf[v]
  ELSE e.about = {}

AlertTypes ==
  /\ alertNow \in AlertTimes /\ firing \subseteq Subjects /\ running \subseteq Subjects
  /\ seenAt \in [AlertTimes -> SUBSET Moments]
  /\ alertCache \in AlertAnswers /\ alertRequest \in [AlertViewers -> AlertRequests]

CacheTrue(e) ==
  e.filled => e.fetchedAt <= alertNow /\ AlertsTrue(e.about, e.lists, e.fetchedAt)
              /\ LinksTrue(e.about, e.linked, e.lists, e.fetchedAt)

\* What an answer says of its time is true, the one cached, the one under way and the one given.
RequestTrue(v, q) ==
  /\ q.began <= alertNow
  /\ q.step = "listed" => AlertsTrue(q.raw, q.lists, q.began)
  /\ q.step = "done" => /\ q.began - q.answer.fetchedAt < AlertTtl
                        /\ AlertsShown(v, q.answer)
                        /\ LinksTrue(q.answer.about, q.answer.linked, q.answer.lists, q.answer.fetchedAt)

AlertInv ==
  /\ AlertTypes
  /\ [firing |-> firing, running |-> running] \in seenAt[alertNow]
  /\ \A t \in AlertTimes : t > alertNow => seenAt[t] = {}
  /\ CacheTrue(alertCache)
  /\ \A v \in AlertViewers : RequestTrue(v, alertRequest[v])

LEMMA AlertBegins == ASSUME AlertAssumption, AlertInit PROVE AlertInv
BY DEF AlertAssumption, AlertInit, AlertInv, AlertTypes, Moments, AlertRequests, AlertTimes, NoAlerts,
       AlertAnswers, AlertIdle, CacheTrue, RequestTrue

\* What was seen stays seen.
LEMMA MomentsKept ==
  ASSUME AlertAssumption, AlertInv, alertNow' \in AlertTimes, alertNow <= alertNow',
         firing' \subseteq Subjects, running' \subseteq Subjects,
         seenAt' \in [AlertTimes -> SUBSET Moments],
         [firing |-> firing', running |-> running'] \in seenAt'[alertNow'],
         \A t \in AlertTimes : seenAt[t] \subseteq seenAt'[t],
         \A t \in AlertTimes : t > alertNow' => seenAt'[t] = {},
         UNCHANGED <<alertCache, alertRequest>>
  PROVE  AlertInv'
<1> USE DEF AlertTimes
<1>1. /\ alertNow \in Nat /\ alertNow' \in Nat /\ MaxAlertTime \in Nat /\ ListTtl \in Nat /\ AlertTypes
      /\ alertNow' <= MaxAlertTime
  BY DEF AlertInv, AlertTypes, AlertAssumption
<1>2. ASSUME NEW t \in Nat PROVE ListedSince(t) \subseteq ListedSince(t)'
  <2>1. SUFFICES ASSUME NEW names \in ListedSince(t) PROVE names \in ListedSince(t)'
    OBVIOUS
  <2>2. PICK u \in AlertTimes : u > t - ListTtl /\ \E s \in seenAt[u] : names = s.running
    BY DEF ListedSince
  <2>3. \E s \in seenAt'[u] : names = s.running
    BY <2>2
  <2>4. QED
    BY <2>2, <2>3 DEF ListedSince
<1>3. ASSUME NEW about, NEW linked, NEW t \in Nat, LinkedSince(about, linked, t)
      PROVE  LinkedSince(about, linked, t)'
  BY <1>2, <1>3 DEF LinkedSince, Associated
<1>4. ASSUME NEW t \in Nat, NEW u \in t..alertNow
      PROVE  u \in t..alertNow' /\ seenAt[u] \subseteq seenAt'[u]
  BY <1>1
<1>5. CacheTrue(alertCache)'
  <2> DEFINE e == alertCache
  <2>1. e.fetchedAt \in Nat /\ CacheTrue(e)
    BY <1>1 DEF AlertInv, AlertTypes, AlertAnswers
  <2>2. e.filled => /\ AlertsTrue(e.about, e.lists, e.fetchedAt)'
                    /\ LinksTrue(e.about, e.linked, e.lists, e.fetchedAt)'
    <3>1. UNCHANGED <<e.about, e.linked, e.lists, e.fetchedAt>>
      OBVIOUS
    <3>2. QED
      BY <1>4, <1>2, <2>1, <3>1
         DEF CacheTrue, AlertsTrue, LinksTrue, ActiveSince, LinkedSince, Associated
  <2>3. QED
    BY <1>1, <2>1, <2>2 DEF CacheTrue
<1>6. ASSUME NEW v \in AlertViewers PROVE RequestTrue(v, alertRequest[v])'
  <2> DEFINE q == alertRequest[v]
             a == q.answer
  <2>1. /\ q.began \in Nat /\ a.fetchedAt \in Nat /\ q' = q
        /\ q.began <= alertNow'
        /\ q.step = "listed" => AlertsTrue(q.raw, q.lists, q.began)
        /\ q.step = "done" => /\ q.began - a.fetchedAt < AlertTtl /\ AlertsShown(v, a)
                              /\ LinksTrue(a.about, a.linked, a.lists, a.fetchedAt)
    BY <1>1 DEF AlertInv, AlertTypes, AlertRequests, AlertAnswers, RequestTrue
  <2>2. q.step = "listed" => AlertsTrue(q.raw, q.lists, q.began)'
    BY <1>4, <2>1 DEF AlertsTrue, ActiveSince
  <2>3. q.step = "done" => AlertsShown(v, a)'
    BY <1>4, <2>1 DEF AlertsShown
  <2>4. q.step = "done" => LinksTrue(a.about, a.linked, a.lists, a.fetchedAt)'
    BY <1>2, <2>1 DEF LinksTrue, LinkedSince, Associated
  <2>5. QED
    BY <2>1, <2>2, <2>3, <2>4 DEF RequestTrue
<1>7. QED
  BY <1>1, <1>5, <1>6 DEF AlertInv, AlertTypes

\* A request goes on; what it holds, answers and leaves in the cache is true.
LEMMA AlertRequestMoves ==
  ASSUME AlertInv, UNCHANGED inSight, alertCache' \in AlertAnswers, CacheTrue(alertCache'),
         NEW v \in AlertViewers, NEW q \in AlertRequests, RequestTrue(v, q),
         alertRequest' = [alertRequest EXCEPT ![v] = q]
  PROVE  AlertInv'
<1>1. \A w \in AlertViewers : alertRequest'[w] = IF w = v THEN q ELSE alertRequest[w]
  BY DEF AlertInv, AlertTypes
<1>2. AlertTypes'
  BY DEF AlertInv, AlertTypes, inSight
<1>3. \A w \in AlertViewers : RequestTrue(w, alertRequest'[w])
  BY <1>1 DEF AlertInv
<1>4. UNCHANGED <<alertNow, firing, running, seenAt>>
  BY DEF inSight
<1>5. CacheTrue(alertCache)'
  BY <1>4 DEF CacheTrue, AlertsTrue, LinksTrue, ActiveSince, LinkedSince, ListedSince, Associated
<1>6. ASSUME NEW w \in AlertViewers PROVE RequestTrue(w, alertRequest[w])'
  BY <1>3, <1>4 DEF RequestTrue, AlertsTrue, AlertsShown, LinksTrue, ActiveSince, LinkedSince,
     ListedSince, Associated
<1>7. QED
  BY <1>2, <1>4, <1>5, <1>6 DEF AlertInv

\* A viewer's part of a true entry is true.
LEMMA ScopeOfTrue ==
  ASSUME AlertAssumption, NEW v \in AlertViewers, NEW e \in AlertAnswers, e.filled, CacheTrue(e),
         NEW began \in AlertTimes, began <= alertNow, began - e.fetchedAt < AlertTtl,
         NEW q \in AlertRequests, q.step = "done", q.began = began, q.answer = AlertsInScope(v, e)
  PROVE  RequestTrue(v, q)
<1>1. /\ q.answer.about = e.about \cap AlertScopeOf[v] /\ q.answer.linked = e.linked \cap AlertScopeOf[v]
      /\ q.answer.fetchedAt = e.fetchedAt /\ q.answer.lists = e.lists
  BY DEF AlertsInScope, AlertAnswers
<1>2. AlertsShown(v, q.answer)
  BY <1>1 DEF CacheTrue, AlertsTrue, ActiveSince, AlertsShown
<1>3. LinksTrue(q.answer.about, q.answer.linked, q.answer.lists, e.fetchedAt)
  BY <1>1 DEF CacheTrue, LinksTrue, LinkedSince, Associated
<1>4. QED
  BY <1>1, <1>2, <1>3 DEF RequestTrue

LEMMA AlertGoes == ASSUME AlertAssumption, AlertInv, [AlertNext]_alertVars PROVE AlertInv'
<1> USE DEF AlertTimes
<1>1. /\ AlertTypes /\ alertNow \in Nat /\ MaxAlertTime \in Nat /\ AlertTtl \in Nat \ {0}
      /\ alertNow <= MaxAlertTime /\ NoAlerts \in AlertAnswers /\ CacheTrue(alertCache)
  BY DEF AlertInv, AlertTypes, AlertAssumption, NoAlerts, AlertAnswers
<1>2. CASE UNCHANGED alertVars
  <2>1. /\ alertNow' \in AlertTimes /\ alertNow <= alertNow' /\ UNCHANGED <<alertCache, alertRequest>>
        /\ firing' \subseteq Subjects /\ running' \subseteq Subjects
        /\ seenAt' \in [AlertTimes -> SUBSET Moments]
        /\ [firing |-> firing', running |-> running'] \in seenAt'[alertNow']
        /\ \A t \in AlertTimes : seenAt[t] \subseteq seenAt'[t]
        /\ \A t \in AlertTimes : t > alertNow' => seenAt'[t] = {}
    BY <1>1, <1>2 DEF alertVars, AlertInv, AlertTypes
  <2>2. QED
    BY <2>1, MomentsKept
<1>3. CASE AlertTick
  <2>1. /\ alertNow' = alertNow + 1 /\ alertNow' \in AlertTimes
        /\ UNCHANGED <<firing, running, alertCache, alertRequest>>
        /\ seenAt' = [seenAt EXCEPT ![alertNow + 1] = {[firing |-> firing, running |-> running]}]
    BY <1>1, <1>3 DEF AlertTick
  <2>2. /\ seenAt' \in [AlertTimes -> SUBSET Moments]
        /\ [firing |-> firing', running |-> running'] \in seenAt'[alertNow']
    BY <1>1, <2>1 DEF AlertTypes, Moments
  <2>3. seenAt[alertNow + 1] = {}
    BY <1>1, <2>1 DEF AlertInv
  <2>4. /\ \A t \in AlertTimes : seenAt[t] \subseteq seenAt'[t]
        /\ \A t \in AlertTimes : t > alertNow' => seenAt'[t] = {}
    BY <1>1, <2>1, <2>3 DEF AlertTypes, AlertInv
  <2>5. alertNow <= alertNow' /\ firing' \subseteq Subjects /\ running' \subseteq Subjects
    BY <1>1, <2>1 DEF AlertTypes
  <2>6. QED
    BY <2>1, <2>2, <2>4, <2>5, MomentsKept
<1>4. ASSUME NEW x \in Subjects, ClusterTurns(x) PROVE AlertInv'
  <2>1. /\ firing' \subseteq Subjects /\ running' \subseteq Subjects
        /\ UNCHANGED <<alertNow, alertCache, alertRequest>>
    BY <1>1, <1>4 DEF ClusterTurns, AlertTypes, Toggled
  <2>2. seenAt' = [seenAt EXCEPT ![alertNow] =
                     seenAt[alertNow] \cup {[firing |-> firing', running |-> running']}]
    BY <1>4 DEF ClusterTurns
  <2>3. /\ alertNow' \in AlertTimes /\ alertNow <= alertNow'
        /\ seenAt' \in [AlertTimes -> SUBSET Moments]
        /\ [firing |-> firing', running |-> running'] \in seenAt'[alertNow']
        /\ \A t \in AlertTimes : seenAt[t] \subseteq seenAt'[t]
    BY <1>1, <2>1, <2>2 DEF AlertTypes, Moments
  <2>4. \A t \in AlertTimes : t > alertNow' => seenAt'[t] = {}
    BY <1>1, <2>1, <2>2 DEF AlertTypes, AlertInv
  <2>5. QED
    BY <2>1, <2>3, <2>4, MomentsKept
<1>5. ASSUME NEW v \in AlertViewers, GetActiveAlerts(v) PROVE AlertInv'
  <2>1. UNCHANGED inSight /\ alertCache' \in AlertAnswers /\ CacheTrue(alertCache')
    BY <1>1, <1>5 DEF GetActiveAlerts, AlertTypes
  <2>2. CASE AlertsFresh
    <3> DEFINE a == AlertsInScope(v, alertCache)
               q == [AlertIdle EXCEPT !.began = alertNow, !.step = "done", !.answer = a]
    <3>1. alertRequest' = [alertRequest EXCEPT ![v] = q]
      BY <1>5, <2>2 DEF GetActiveAlerts
    <3>2. a \in AlertAnswers
      BY <1>1 DEF AlertTypes, AlertAnswers, AlertsInScope
    <3> HIDE DEF a
    <3>3. q \in AlertRequests /\ q.step = "done" /\ q.began = alertNow /\ q.answer = a
      BY <1>1, <3>2 DEF AlertRequests, AlertIdle, AlertTypes
    <3> HIDE DEF q
    <3>4. RequestTrue(v, q)
      <4>1. alertCache \in AlertAnswers /\ alertCache.filled /\ alertNow - alertCache.fetchedAt < AlertTtl
        BY <1>1, <2>2 DEF AlertsFresh, AlertTypes
      <4>2. alertNow \in AlertTimes /\ alertNow <= alertNow /\ q.answer = AlertsInScope(v, alertCache)
        BY <1>1, <3>3 DEF a
      <4>3. QED
        BY <1>1, <3>3, <4>1, <4>2, ScopeOfTrue
    <3>5. QED
      BY <2>1, <3>1, <3>3, <3>4, AlertRequestMoves
  <2>3. CASE ~AlertsFresh
    <3> DEFINE q == [AlertIdle EXCEPT !.began = alertNow, !.step = "both", !.answer = NoAlerts]
    <3>1. alertRequest' = [alertRequest EXCEPT ![v] = q]
      BY <1>5, <2>3 DEF GetActiveAlerts
    <3>2. q \in AlertRequests /\ q.began = alertNow /\ q.step = "both"
      BY <1>1 DEF AlertRequests, AlertIdle, AlertTypes
    <3> HIDE DEF q
    <3>3. RequestTrue(v, q)
      BY <1>1, <3>2 DEF RequestTrue
    <3>4. QED
      BY <2>1, <3>1, <3>2, <3>3, AlertRequestMoves
  <2>4. QED
    BY <2>2, <2>3
<1>6. ASSUME NEW v \in AlertViewers, ListAlerts(v) PROVE AlertInv'
  <2>1. /\ UNCHANGED inSight /\ alertCache' \in AlertAnswers /\ CacheTrue(alertCache')
        /\ alertRequest[v] \in AlertRequests /\ firing \subseteq Subjects
    BY <1>1, <1>6 DEF ListAlerts, AlertTypes
  <2>2. PICK raw \in SUBSET Subjects, lists \in SUBSET {"alerts"} :
          /\ alertRequest' = [alertRequest EXCEPT ![v].step = "listed", ![v].raw = raw, ![v].lists = lists]
          /\ IF "alerts" \in lists THEN raw = firing ELSE raw = {}
    <3>1. CASE alertRequest' = [alertRequest EXCEPT ![v].step = "listed", ![v].raw = firing,
                                                     ![v].lists = {"alerts"}]
      BY <2>1, <3>1
    <3>2. CASE alertRequest' = [alertRequest EXCEPT ![v].step = "listed", ![v].raw = {}, ![v].lists = {}]
      BY <3>2
    <3>3. QED
      BY <1>6, <3>1, <3>2 DEF ListAlerts
  <2> DEFINE q == [alertRequest[v] EXCEPT !.step = "listed", !.raw = raw, !.lists = lists]
  <2>3. /\ q \in AlertRequests /\ q.began = alertRequest[v].began /\ q.step = "listed"
        /\ q.raw = raw /\ q.lists = lists
    BY <2>1 DEF AlertRequests
  <2>4. alertRequest' = [alertRequest EXCEPT ![v] = q]
    BY <2>2
  <2> HIDE DEF q
  <2>5. q.began \in Nat /\ q.began <= alertNow
    BY <1>1, <2>3 DEF AlertTypes, AlertRequests, AlertInv, RequestTrue
  <2>6. alertNow \in q.began..alertNow /\ \E s \in seenAt[alertNow] : firing = s.firing
    BY <1>1, <2>5 DEF AlertInv
  <2>7. RequestTrue(v, q)
    BY <2>2, <2>3, <2>5, <2>6 DEF RequestTrue, AlertsTrue, ActiveSince
  <2>8. QED
    BY <2>1, <2>3, <2>4, <2>7, AlertRequestMoves
<1>7. ASSUME NEW v \in AlertViewers, AlertsFail(v) PROVE AlertInv'
  <2>1. /\ UNCHANGED inSight /\ alertCache' \in AlertAnswers /\ CacheTrue(alertCache')
        /\ alertRequest' = [alertRequest EXCEPT ![v] = AlertIdle]
    BY <1>1, <1>7 DEF AlertsFail, AlertTypes
  <2>2. AlertIdle \in AlertRequests /\ RequestTrue(v, AlertIdle)
    BY <1>1 DEF AlertRequests, AlertIdle, RequestTrue
  <2>3. QED
    BY <2>1, <2>2, AlertRequestMoves
<1>8. ASSUME NEW v \in AlertViewers, FillAlerts(v) PROVE AlertInv'
  <2>1. PICK list \in PipelineLists(alertRequest[v].began) :
          /\ alertCache' = AlertsAnswered(v, list)
          /\ alertRequest' = [alertRequest EXCEPT ![v].step = "done", ![v].raw = {}, ![v].lists = {},
                                ![v].answer = AlertsInScope(v, AlertsAnswered(v, list))]
    BY <1>8 DEF FillAlerts
  <2> DEFINE e == AlertsAnswered(v, list)
             a == AlertsInScope(v, e)
             q == [alertRequest[v] EXCEPT !.step = "done", !.raw = {}, !.lists = {}, !.answer = a]
  <2>0. /\ list.from \in SUBSET {"pipelines"}
        /\ IF "pipelines" \in list.from THEN list.names \in ListedSince(alertRequest[v].began)
                                        ELSE list.names = {}
    BY <2>1 DEF PipelineLists
  <2>2. /\ UNCHANGED inSight /\ alertRequest[v].step = "listed" /\ alertCache' = e
        /\ alertRequest' = [alertRequest EXCEPT ![v] = q]
    BY <1>8, <2>1 DEF FillAlerts
  <2>3. /\ e \in AlertAnswers /\ e.filled /\ e.fetchedAt = alertRequest[v].began
        /\ e.about = alertRequest[v].raw /\ e.linked = Associated(e.about, list.names)
        /\ e.lists = alertRequest[v].lists \cup list.from
        /\ e.fetchedAt \in AlertTimes /\ e.fetchedAt - e.fetchedAt < AlertTtl
    <3>1. alertRequest[v] \in AlertRequests
      BY <1>1 DEF AlertTypes
    <3>2. QED
      BY <1>1, <2>0, <3>1 DEF AlertsAnswered, AlertAnswers, AlertRequests, Associated
  <2>4. CacheTrue(e) /\ e.fetchedAt <= alertNow
    <3>1. /\ e.fetchedAt <= alertNow
          /\ AlertsTrue(alertRequest[v].raw, alertRequest[v].lists, alertRequest[v].began)
      BY <2>2, <2>3 DEF AlertInv, RequestTrue
    <3>2. alertRequest[v].lists \subseteq {"alerts"}
      BY <1>1 DEF AlertTypes, AlertRequests
    <3>3. AlertsTrue(e.about, e.lists, e.fetchedAt)
      BY <2>0, <2>3, <3>1, <3>2 DEF AlertsTrue
    <3>4. LinksTrue(e.about, e.linked, e.lists, e.fetchedAt)
      BY <2>0, <2>3, <3>2 DEF LinksTrue, LinkedSince, Associated
    <3>5. QED
      BY <3>1, <3>3, <3>4 DEF CacheTrue
  <2> HIDE DEF e
  <2>5. a \in AlertAnswers /\ a = AlertsInScope(v, e)
    BY <2>3 DEF AlertsInScope, AlertAnswers
  <2> HIDE DEF a
  <2>6. q \in AlertRequests /\ q.step = "done" /\ q.began = e.fetchedAt /\ q.answer = a
    BY <1>1, <2>3, <2>5 DEF AlertTypes, AlertRequests
  <2> HIDE DEF q
  <2>7. RequestTrue(v, q)
    BY <2>3, <2>4, <2>5, <2>6, ScopeOfTrue
  <2>8. QED
    BY <2>2, <2>3, <2>4, <2>6, <2>7, AlertRequestMoves
<1>9. QED
  BY <1>2, <1>3, <1>4, <1>5, <1>6, <1>7, <1>8 DEF AlertNext

\* However requests overlap and fill the two caches, a list of pipelines or of alerts is the
\* one of the time it gives, in the scope of its viewer, and the alerts are tied to pipelines of
\* one moment not much earlier (pipelines.service getPipelines, alerts.service getActiveAlerts).
THEOREM ListsTrue == PipelineSpec /\ AlertSpec => []ListsAsFreshAsSaid
<1> USE PipelineAssumption, AlertAssumption
<1>1. PipelineSpec => []AnswerIsAsFreshAsSaid
  BY PipelinesAsFreshAsSaid
<1>2. AlertInit => AlertInv
  BY AlertBegins
<1>3. AlertInv /\ [AlertNext]_alertVars => AlertInv'
  BY AlertGoes
<1>4. AlertInv => AlertsAsFreshAsSaid
  BY DEF AlertInv, RequestTrue, AlertsShown, LinksTrue, AlertsAsFreshAsSaid, LinkedSince
<1>5. AnswerIsAsFreshAsSaid /\ AlertsAsFreshAsSaid => ListsAsFreshAsSaid
  BY DEF ListsAsFreshAsSaid
<1>6. QED
  BY <1>1, <1>2, <1>3, <1>4, <1>5, PTL DEF AlertSpec

-----------------------------------------------------------------------------
(* The summary of a pipeline                                               *)

\* Rows are stored in the order of their times, and unless a report was repeated or
\* overtaken in the order of what they report.
EventInv ==
  /\ EventTypeOK
  /\ \A i \in DOMAIN rows : rows[i].at <= clock /\ rows[i].of <= Len(happened)
  /\ \A i, j \in DOMAIN rows : i < j => rows[i].at < rows[j].at
  /\ inOrder => \A i, j \in DOMAIN rows : i < j => rows[i].of < rows[j].of

LEMMA EventsBegin == ASSUME EventAssumption, EventInit PROVE EventInv
BY DEF EventAssumption, EventInit, EventInv, EventTypeOK, Reports, EventRows

LEMMA RowFacts ==
  ASSUME EventAssumption, EventTypeOK
  PROVE  /\ clock \in Nat /\ {MaxEventTime, EventWindow, MaxReports, MaxArrivals} \subseteq Nat
         /\ Len(rows) \in Nat /\ Len(happened) \in Nat
         /\ DOMAIN rows = 1..Len(rows) /\ DOMAIN happened = 1..Len(happened)
         /\ \A i \in DOMAIN rows : rows[i] \in EventRows /\ rows[i].at \in Nat /\ rows[i].of \in 1..MaxReports
<1>1. rows \in Seq(EventRows) /\ happened \in Seq(Reports) /\ clock \in 0..MaxEventTime
  BY DEF EventTypeOK
<1>2. {MaxEventTime, EventWindow, MaxReports, MaxArrivals} \subseteq Nat
  BY DEF EventAssumption
<1>3. \A e \in EventRows : e.at \in 0..MaxEventTime /\ e.of \in 1..MaxReports
  BY DEF EventRows
<1>4. /\ Len(rows) \in Nat /\ DOMAIN rows = 1..Len(rows)
      /\ \A i \in DOMAIN rows : rows[i] \in EventRows
  BY <1>1
<1>5. Len(happened) \in Nat /\ DOMAIN happened = 1..Len(happened)
  BY <1>1
<1>6. \A i \in DOMAIN rows : rows[i].at \in Nat /\ rows[i].of \in 1..MaxReports
  BY <1>2, <1>3, <1>4
<1>7. clock \in Nat
  BY <1>1, <1>2
<1>8. QED
  BY <1>2, <1>4, <1>5, <1>6, <1>7

LEMMA EventsKept == ASSUME EventAssumption, EventInv, [EventNext]_eventVars PROVE EventInv'
<1>1. /\ EventTypeOK /\ clock \in Nat /\ MaxEventTime \in Nat /\ Len(rows) \in Nat
      /\ MaxArrivals \in Nat /\ MaxReports \in Nat /\ Len(happened) \in Nat /\ DOMAIN rows = 1..Len(rows)
      /\ \A i \in DOMAIN rows : rows[i].at \in Nat /\ rows[i].of \in 1..MaxReports
  BY RowFacts DEF EventInv
<1>2. CASE UNCHANGED eventVars
  BY <1>2 DEF eventVars, EventInv, EventTypeOK
<1>3. CASE EventTick
  <2>1. EventTypeOK'
    <3>1. clock' \in 0..MaxEventTime
      BY <1>1, <1>3 DEF EventTick
    <3>2. QED
      BY <1>1, <1>3, <3>1 DEF EventTick, EventTypeOK
  <2>2. QED
    BY <1>1, <1>3, <2>1 DEF EventTick, EventInv
<1>4. ASSUME NEW r \in Reports, Report(r) PROVE EventInv'
  <2>1. Len(happened') = Len(happened) + 1 /\ happened' \in Seq(Reports)
    BY <1>1, <1>4 DEF Report, EventTypeOK
  <2>2. EventTypeOK'
    <3>1. wire \subseteq 1..Len(happened) /\ wire' = wire \cup {Len(happened) + 1}
      BY <1>1, <1>4 DEF Report, EventTypeOK
    <3>2. ASSUME NEW n \in wire' PROVE n \in 1..Len(happened')
      BY <1>1, <2>1, <3>1
    <3>3. Len(happened') <= MaxReports
      BY <1>1, <1>4, <2>1 DEF Report
    <3>4. QED
      BY <1>1, <1>4, <2>1, <3>2, <3>3 DEF Report, EventTypeOK
  <2>3. QED
    BY <1>1, <1>4, <2>1, <2>2 DEF Report, EventInv
<1>5. ASSUME NEW n \in wire, Receive(n) PROVE EventInv'
  <2>1. CASE happened[n] = "unstored"
    <3>1. EventTypeOK'
      BY <1>5, <2>1 DEF Receive, EventTypeOK, EventInv
    <3>2. QED
      BY <1>1, <1>5, <2>1, <3>1 DEF Receive, EventInv
  <2>2. CASE happened[n] # "unstored"
    <3> DEFINE new == [of |-> n, at |-> clock]
    <3>1. n \in 1..Len(happened) /\ n \in 1..MaxReports /\ new \in EventRows
      BY <1>1 DEF EventTypeOK, EventRows
    <3>2. /\ rows' = Append(rows, new) /\ Len(rows) < MaxArrivals /\ UNCHANGED <<clock, happened>>
          /\ wire' \subseteq wire /\ inOrder' = (inOrder /\ \A i \in DOMAIN rows : rows[i].of < n)
          /\ \A i \in DOMAIN rows : rows[i].at < clock
      BY <1>5, <2>2 DEF Receive
    <3> HIDE DEF new
    <3>3. /\ rows' \in Seq(EventRows) /\ Len(rows') = Len(rows) + 1
          /\ DOMAIN rows' = 1..(Len(rows) + 1)
          /\ rows'[Len(rows) + 1] = new /\ \A i \in DOMAIN rows : rows'[i] = rows[i]
      BY <1>1, <3>1, <3>2 DEF EventTypeOK
    <3>4. EventTypeOK'
      BY <1>1, <3>2, <3>3 DEF EventTypeOK
    <3>5. new.of = n /\ new.at = clock
      BY DEF new
    <3>6. \A i \in DOMAIN rows' : i \in DOMAIN rows \/ i = Len(rows) + 1
      BY <1>1, <3>3
    <3>7. \A i \in DOMAIN rows' : rows'[i].at <= clock' /\ rows'[i].of <= Len(happened')
      BY <1>1, <3>1, <3>2, <3>3, <3>5, <3>6 DEF EventInv
    <3>8. ASSUME NEW i \in DOMAIN rows', NEW j \in DOMAIN rows', i < j
          PROVE  rows'[i].at < rows'[j].at /\ (inOrder' => rows'[i].of < rows'[j].of)
      <4>1. i \in DOMAIN rows
        BY <1>1, <3>3, <3>8
      <4>2. QED
        BY <1>1, <3>2, <3>3, <3>5, <3>6, <3>8, <4>1 DEF EventInv
    <3>9. QED
      BY <3>4, <3>7, <3>8 DEF EventInv
  <2>3. QED
    BY <2>1, <2>2
<1>6. QED
  BY <1>2, <1>3, <1>4, <1>5 DEF EventNext

Loops == [sum : Int, count : Nat, failedAt : Int]

LEMMA TurnOK == ASSUME NEW l \in Loops, NEW r \in EventRows, MaxEventTime \in Nat
  PROVE  Turn(l, r) \in Loops
BY DEF Loops, EventRows, Turn, NoFailure

LEMMA LoopDefined ==
  ASSUME EventAssumption, EventTypeOK
  PROVE  /\ LoopAfter \in [0..Len(rows) -> Loops] /\ LoopAfter[0] = FreshLoop
         /\ \A i \in 1..Len(rows) : LoopAfter[i] = IF i \in SyncRows THEN Turn(LoopAfter[i - 1], rows[i]) ELSE LoopAfter[i - 1]
<1> DEFINE N == Len(rows)
           step == [i \in 1..N |-> [l \in Loops |-> IF i \in SyncRows THEN Turn(l, rows[i]) ELSE l]]
<1>1. N \in Nat /\ \A i \in 1..N : rows[i] \in EventRows
  BY DEF EventTypeOK
<1>2. FreshLoop \in Loops
  BY DEF FreshLoop, Loops, NoFailure
<1>3. step \in StepsIn(N, Loops)
  BY <1>1, TurnOK DEF EventAssumption, StepsIn
<1> DEFINE Def(g) == [i \in 0..N |-> IF i = 0 THEN FreshLoop
             ELSE IF i \in SyncRows THEN Turn(g[i - 1], rows[i]) ELSE g[i - 1]]
<1>4. PICK g \in [0..N -> Loops] : g[0] = FreshLoop /\ \A i \in 1..N : g[i] = step[i][g[i - 1]]
  <2> HIDE DEF step, N
  <2>1. Defines(N, Loops, FreshLoop, step)
    BY <1>1, <1>2, <1>3, RecursionDefines
  <2>2. QED
    BY <2>1 DEF Defines
<1>5. g = Def(g)
  <2>1. ASSUME NEW i \in 1..N PROVE g[i] = IF i \in SyncRows THEN Turn(g[i - 1], rows[i]) ELSE g[i - 1]
    <3>1. g[i - 1] \in Loops
      BY <1>1
    <3>2. QED
      BY <1>4, <3>1
  <2>2. QED
    BY <1>1, <1>4, <2>1
<1>6. LoopAfter = CHOOSE f : f = Def(f)
  BY Zenon DEF LoopAfter
<1>7. LoopAfter = Def(LoopAfter)
  <2> HIDE DEF Def
  <2> QED BY <1>5, <1>6
<1>8. LoopAfter[0] = FreshLoop /\ \A i \in 1..N : LoopAfter[i] = IF i \in SyncRows THEN Turn(LoopAfter[i - 1], rows[i]) ELSE LoopAfter[i - 1]
  BY <1>1, <1>7
<1>9. \A i \in 0..N : LoopAfter[i] \in Loops
 <2> DEFINE T == {i \in 0..N : LoopAfter[i] \in Loops}
 <2>1. 0 \in T
   BY <1>1, <1>2, <1>8
 <2>2. ASSUME NEW n \in 0..N, n \in T, n < N PROVE n + 1 \in T
   <3>1. n + 1 \in 1..N /\ (n + 1) - 1 = n /\ rows[n + 1] \in EventRows
     BY <1>1, <2>2
   <3>2. Turn(LoopAfter[n], rows[n + 1]) \in Loops
     BY <2>2, <3>1, TurnOK DEF EventAssumption
   <3>3. QED
     BY <1>8, <3>1, <3>2, <2>2
 <2>3. QED
   BY <1>1, <2>1, <2>2, ReachesAll
<1>10. QED
  BY <1>1, <1>7, <1>8, <1>9

\* What the sum of numbers given to rows is.
Amounts(D) == [D -> Int]
SummedUp(f, D, u) ==
  /\ u[0] = 0 /\ Sum(f) = u[Len(rows)]
  /\ \A i \in 1..Len(rows) : u[i] = IF i \in D THEN u[i - 1] + f[i] ELSE u[i - 1]

LEMMA SumDefined ==
  ASSUME EventAssumption, EventTypeOK, NEW D \in SUBSET (1..Len(rows)), NEW f \in Amounts(D)
  PROVE  \E u \in [0..Len(rows) -> Int] : SummedUp(f, D, u)
<1> DEFINE N == Len(rows)
           step == [i \in 1..N |-> [x \in Int |-> IF i \in D THEN x + f[i] ELSE x]]
           Def(g) == [i \in 0..N |-> IF i = 0 THEN 0
                        ELSE IF i \in DOMAIN f THEN g[i - 1] + f[i] ELSE g[i - 1]]
           u == CHOOSE g : g = Def(g)
<1>1. N \in Nat
  BY RowFacts
<1>2. step \in StepsIn(N, Int) /\ f \in [D -> Int]
  BY DEF StepsIn, Amounts
<1>3. PICK g \in [0..N -> Int] : g[0] = 0 /\ \A i \in 1..N : g[i] = step[i][g[i - 1]]
  <2> HIDE DEF step, N
  <2>1. Defines(N, Int, 0, step)
    BY <1>1, <1>2, SumsDefine
  <2>2. QED
    BY <2>1 DEF Defines
<1>4. g = Def(g)
  <2>1. ASSUME NEW i \in 1..N PROVE g[i] = IF i \in DOMAIN f THEN g[i - 1] + f[i] ELSE g[i - 1]
    <3>1. g[i - 1] \in Int
      BY <1>1
    <3>2. QED
      BY <1>2, <1>3, <3>1
  <2>2. QED
    BY <1>1, <1>3, <2>1
<1>5. u = Def(u)
  <2> HIDE DEF Def
  <2> QED BY <1>4
<1>6. Sum(f) = u[N]
  BY Zenon DEF Sum
<1> HIDE DEF u
<1>7. u[0] = 0 /\ \A i \in 1..N : u[i] = IF i \in D THEN u[i - 1] + f[i] ELSE u[i - 1]
  <2>1. \A i \in 0..N : Def(u)[i] = IF i = 0 THEN 0
                        ELSE IF i \in D THEN u[i - 1] + f[i] ELSE u[i - 1]
    BY <1>2
  <2> HIDE DEF Def, N
  <2>2. \A i \in 0..N : u[i] = IF i = 0 THEN 0
                        ELSE IF i \in D THEN u[i - 1] + f[i] ELSE u[i - 1]
    BY <1>5, <2>1
  <2>3. QED
    BY <1>1, <2>2
<1>8. u \in [0..N -> Int]
  <2> DEFINE T == {i \in 0..N : u[i] \in Int}
  <2>1. 0 \in T
    BY <1>1, <1>7
  <2>2. ASSUME NEW n \in 0..N, n \in T, n < N PROVE n + 1 \in T
    <3>1. n + 1 \in 1..N /\ (n + 1) - 1 = n /\ u[n] \in Int
      BY <1>1, <2>2
    <3>2. n + 1 \in D => f[n + 1] \in Int
      BY <1>2
    <3>3. u[n + 1] \in Int
      BY <1>7, <3>1, <3>2
    <3>4. QED
      BY <3>1, <3>3
  <2>3. 0..N \subseteq T
    <3> HIDE DEF T, N
    <3>1. QED
      BY <1>1, <2>1, <2>2, ReachesAll
  <2>4. u = [i \in 0..N |-> u[i]]
    BY <1>5
  <2>5. QED
    BY <2>3, <2>4
<1>9. SummedUp(f, D, u)
  BY <1>6, <1>7 DEF SummedUp
<1>10. QED
  BY <1>8, <1>9

\* The rows of the window.
LEMMA WindowFacts ==
  ASSUME EventAssumption, EventInv
  PROVE  /\ Successes \subseteq SyncRows /\ SyncRows \subseteq InWindow /\ InWindow \subseteq 1..Len(rows)
         /\ Recoveries \subseteq Successes
         /\ \A i \in SyncRows : /\ Type(rows[i]) = IF i \in Successes THEN "sync_succeeded" ELSE "sync_failed"
                                /\ clock - EventWindow <= rows[i].at /\ rows[i].at <= clock
BY RowFacts DEF EventInv, Successes, SyncRows, InWindow, Recoveries, Syncs

\* The loop remembers the failure that is not recovered from.
OpenFailure(i, at) ==
  \/ at = NoFailure /\ \A f \in SyncRows \ Successes : f <= i => \E j \in SyncRows : f < j /\ j <= i
  \/ \E f \in SyncRows \ Successes :
       f <= i /\ at = rows[f].at /\ \A j \in SyncRows : ~(f < j /\ j <= i)

\* A success closes it.
LEMMA RecoveryFollows ==
  ASSUME EventAssumption, EventInv, NEW k \in SyncRows, NEW at, OpenFailure(k - 1, at), k \in Successes
  PROVE  IF at = NoFailure THEN k \notin Recoveries
         ELSE k \in Recoveries /\ RecoveryTimes[k] = rows[k].at - at /\ at \in Nat
                /\ RecoveryTimes[k] \in 0..EventWindow
<1>1. /\ k \in 1..Len(rows) /\ Len(rows) \in Nat /\ SyncRows \subseteq 1..Len(rows) /\ EventWindow \in Nat
      /\ \A i \in SyncRows : /\ rows[i].at \in Nat
                             /\ clock - EventWindow <= rows[i].at /\ rows[i].at <= clock
      /\ clock \in Nat
  BY RowFacts, WindowFacts DEF EventInv
<1>2. CASE at = NoFailure
  <2>1. \A f \in SyncRows \ Successes : f <= k - 1 => \E j \in SyncRows : f < j /\ j <= k - 1
    BY <1>1, <1>2 DEF OpenFailure, NoFailure
  <2>2. \A f \in SyncRows \ Successes : f < k => \E j \in SyncRows : f < j /\ j < k
    BY <1>1, <2>1
  <2>3. QED
    BY <1>2, <2>2 DEF Recoveries
<1>3. CASE at # NoFailure
  <2>1. PICK f \in SyncRows \ Successes :
          f <= k - 1 /\ at = rows[f].at /\ \A j \in SyncRows : ~(f < j /\ j <= k - 1)
    BY <1>3 DEF OpenFailure
  <2>2. f < k /\ \A j \in SyncRows : ~(f < j /\ j < k)
    BY <1>1, <2>1
  <2>3. k \in Recoveries
    BY <2>2 DEF Recoveries
  <2> DEFINE Earlier == {j \in SyncRows : j < k}
  <2>4. Max(Earlier) = f
    <3>1. f \in Earlier
      BY <2>2
    <3>2. ASSUME NEW j \in Earlier PROVE j \in 0..Len(rows)
      BY <1>1
    <3>3. ASSUME NEW j \in Earlier PROVE j <= f
      <4>1. j \in SyncRows /\ j < k /\ j \in 1..Len(rows) /\ f \in 1..Len(rows)
        BY <1>1
      <4>2. QED
        BY <1>1, <2>2, <4>1
    <3> HIDE DEF Earlier
    <3>4. QED
      <4>1. Earlier \subseteq 0..Len(rows)
        BY <3>2
      <4> HIDE DEF Earlier
      <4>2. QED
        BY <1>1, <3>1, <3>3, <4>1, MaxOf
  <2>5. RecoveryTimes[k] = rows[k].at - rows[f].at
    BY <2>3, <2>4 DEF RecoveryTimes
  <2>6. rows[f].at < rows[k].at
    BY <1>1, <2>2, RowFacts DEF EventInv
  <2>7. QED
    BY <1>1, <1>3, <2>1, <2>3, <2>5, <2>6
<1>4. QED
  BY <1>2, <1>3

LEMMA RecoveryTimesOK ==
  ASSUME EventAssumption, EventInv
  PROVE  /\ Recoveries \in SUBSET (1..Len(rows)) /\ RecoveryTimes \in [Recoveries -> Int]
         /\ \A i \in Recoveries : RecoveryTimes[i] \in 0..EventWindow
<1>1. /\ Len(rows) \in Nat /\ SyncRows \subseteq 1..Len(rows) /\ Recoveries \subseteq SyncRows
      /\ EventWindow \in Nat /\ clock \in Nat
      /\ \A i \in SyncRows : /\ rows[i].at \in Nat
                             /\ clock - EventWindow <= rows[i].at /\ rows[i].at <= clock
      /\ \A i, j \in SyncRows : i < j => rows[i].at < rows[j].at
  BY RowFacts, WindowFacts DEF EventInv
<1>2. ASSUME NEW i \in Recoveries PROVE RecoveryTimes[i] \in 0..EventWindow
  <2> DEFINE Earlier == {j \in SyncRows : j < i}
  <2>1. Earlier \subseteq SyncRows /\ Earlier # {} /\ \A j \in Earlier : j < i
    BY DEF Recoveries
  <2>2. RecoveryTimes[i] = rows[i].at - rows[Max(Earlier)].at
    BY DEF RecoveryTimes
  <2> HIDE DEF Earlier
  <2>3. Max(Earlier) \in Earlier
    <3>1. ASSUME NEW j \in Earlier PROVE j \in 0..Len(rows)
      BY <1>1, <2>1
    <3>2. Earlier \subseteq 0..Len(rows)
      BY <3>1
    <3>3. QED
      BY <1>1, <2>1, <3>2, GreatestIs
  <2> DEFINE m == Max(Earlier)
  <2> HIDE DEF m
  <2>4. rows[m].at < rows[i].at /\ i \in SyncRows /\ m \in SyncRows
    BY <1>1, <2>1, <2>3 DEF m
  <2>5. /\ rows[m].at \in Nat /\ rows[i].at \in Nat
        /\ clock - EventWindow <= rows[m].at /\ rows[i].at <= clock
    BY <1>1, <2>4
  <2>6. RecoveryTimes[i] = rows[i].at - rows[m].at
    BY <2>2 DEF m
  <2>7. QED
    BY <1>1, <2>4, <2>5, <2>6
<1>3. RecoveryTimes \in [Recoveries -> Int]
  <2>1. RecoveryTimes = [i \in Recoveries |-> RecoveryTimes[i]]
    BY DEF RecoveryTimes
  <2>2. \A i \in Recoveries : RecoveryTimes[i] \in Int
    BY <1>1, <1>2
  <2> HIDE DEF RecoveryTimes
  <2>3. QED
    BY <2>1, <2>2
<1>4. QED
  BY <1>1, <1>2, <1>3

\* Counting the rows of a set one row further.
LEMMA OneMore ==
  ASSUME NEW N \in Nat, NEW D \in SUBSET (1..N), NEW i \in 0..N, i < N
  PROVE  /\ IsFiniteSet(D \cap (1..i)) /\ Cardinality(D \cap (1..i)) \in Nat
         /\ Cardinality(D \cap (1..(i + 1))) =
              IF i + 1 \in D THEN Cardinality(D \cap (1..i)) + 1 ELSE Cardinality(D \cap (1..i))
<1>1. IsFiniteSet(D \cap (1..i))
  <2>1. i \in Nat /\ D \cap (1..i) \in SUBSET (1..i)
    OBVIOUS
  <2>2. QED
    BY <2>1, FiniteUpTo
<1>2. Cardinality(D \cap (1..i)) \in Nat
  BY <1>1, FS_CardinalityType
<1>3. CASE i + 1 \in D
  <2>1. D \cap (1..(i + 1)) = (D \cap (1..i)) \cup {i + 1} /\ i + 1 \notin D \cap (1..i)
    BY <1>3
  <2>2. QED
    BY <1>1, <1>2, <1>3, <2>1, FS_AddElement
<1>4. CASE i + 1 \notin D
  <2>1. D \cap (1..(i + 1)) = D \cap (1..i)
    BY <1>4
  <2>2. QED
    BY <1>1, <1>2, <1>4, <2>1
<1>5. QED
  BY <1>3, <1>4

LEMMA OpenKept ==
  ASSUME EventAssumption, EventInv, NEW i \in 0..Len(rows), NEW at, OpenFailure(i, at), i < Len(rows)
  PROVE  /\ i + 1 \notin SyncRows => OpenFailure(i + 1, at)
         /\ i + 1 \in SyncRows \ Successes => OpenFailure(i + 1, rows[i + 1].at)
         /\ i + 1 \in Successes => OpenFailure(i + 1, NoFailure)
<1>1. Len(rows) \in Nat /\ SyncRows \subseteq 1..Len(rows) /\ Successes \subseteq SyncRows
  BY RowFacts, WindowFacts DEF EventInv
<1>2. \A j \in SyncRows : j \in Nat /\ (j <= i + 1 <=> (j <= i \/ j = i + 1))
  BY <1>1
<1>3. CASE i + 1 \notin SyncRows
  <2>1. \A j \in SyncRows : j <= i + 1 <=> j <= i
    BY <1>2, <1>3
  <2>2. OpenFailure(i + 1, at)
    BY <1>1, <2>1 DEF OpenFailure
  <2>3. QED
    BY <1>1, <1>3, <2>2
<1>4. CASE i + 1 \in SyncRows \ Successes
  <2>1. \A j \in SyncRows : ~(i + 1 < j /\ j <= i + 1)
    BY <1>2
  <2>2. QED
    BY <1>1, <1>2, <1>4, <2>1 DEF OpenFailure
<1>5. CASE i + 1 \in Successes
  <2>1. ASSUME NEW f \in SyncRows \ Successes, f <= i + 1
        PROVE  \E j \in SyncRows : f < j /\ j <= i + 1
    <3>1. f < i + 1 /\ i + 1 \in SyncRows
      BY <1>1, <1>2, <1>5, <2>1
    <3>2. QED
      BY <1>2, <3>1
  <2>2. OpenFailure(i + 1, NoFailure)
    BY <2>1 DEF OpenFailure
  <2>3. QED
    BY <1>1, <1>5, <2>2
<1>6. QED
  BY <1>3, <1>4, <1>5

\* What the loop has counted and summed up after row i: the recoveries so far.
Counted(i, sum) ==
  /\ LoopAfter[i].count = Cardinality(Recoveries \cap (1..i))
  /\ LoopAfter[i].sum = sum
  /\ OpenFailure(i, LoopAfter[i].failedAt)

LEMMA CountedNext ==
  ASSUME EventAssumption, EventInv, NEW i \in 0..Len(rows), i < Len(rows),
         NEW sum \in Int, Counted(i, sum)
  PROVE  Counted(i + 1, IF i + 1 \in Recoveries THEN sum + RecoveryTimes[i + 1] ELSE sum)
<1> DEFINE k == i + 1
           l == LoopAfter[i]
<1>1. /\ EventTypeOK /\ Len(rows) \in Nat /\ k \in 1..Len(rows) /\ k - 1 = i /\ rows[k].at \in Nat
  <2>1. EventTypeOK
    BY DEF EventInv
  <2>2. Len(rows) \in Nat /\ k \in DOMAIN rows
    BY <2>1, RowFacts
  <2>3. QED
    BY <2>1, <2>2, RowFacts
<1>10. /\ Recoveries \subseteq Successes /\ Successes \subseteq SyncRows
      /\ \A j \in SyncRows : Type(rows[j]) = IF j \in Successes THEN "sync_succeeded" ELSE "sync_failed"
  BY WindowFacts
<1>2. /\ l \in Loops
      /\ LoopAfter[k] = IF k \in SyncRows THEN Turn(l, rows[k]) ELSE l
  BY <1>1, <1>10, LoopDefined
<1>3. Cardinality(Recoveries \cap (1..k)) =
        IF k \in Recoveries THEN Cardinality(Recoveries \cap (1..i)) + 1
        ELSE Cardinality(Recoveries \cap (1..i))
  BY <1>1, <1>10, RecoveryTimesOK, OneMore
<1>4. /\ l.count = Cardinality(Recoveries \cap (1..i)) /\ l.sum = sum /\ OpenFailure(i, l.failedAt)
  BY DEF Counted
<1>5. /\ k \notin SyncRows => OpenFailure(k, l.failedAt)
      /\ k \in SyncRows \ Successes => OpenFailure(k, rows[k].at)
      /\ k \in Successes => OpenFailure(k, NoFailure)
  BY <1>4, OpenKept
<1> HIDE DEF l
<1>6. CASE k \notin SyncRows
  BY <1>1, <1>10, <1>2, <1>3, <1>4, <1>5, <1>6 DEF Counted
<1>7. CASE k \in SyncRows \ Successes
  <2>1. LoopAfter[k] = [l EXCEPT !.failedAt = rows[k].at]
    BY <1>1, <1>10, <1>2, <1>7 DEF Turn
  <2>2. LoopAfter[k].count = l.count /\ LoopAfter[k].sum = l.sum /\ LoopAfter[k].failedAt = rows[k].at
    BY <1>2, <2>1 DEF Loops
  <2>3. QED
    BY <1>1, <1>10, <1>3, <1>4, <1>5, <1>7, <2>2 DEF Counted
<1>8. CASE k \in Successes
  <2>1. Type(rows[k]) = "sync_succeeded" /\ k \in SyncRows /\ OpenFailure(k - 1, l.failedAt)
    BY <1>1, <1>10, <1>4, <1>8
  <2>2. IF l.failedAt = NoFailure THEN k \notin Recoveries
        ELSE k \in Recoveries /\ RecoveryTimes[k] = rows[k].at - l.failedAt /\ l.failedAt \in Nat
    BY <1>8, <2>1, RecoveryFollows
  <2>3. CASE l.failedAt = NoFailure
    <3>1. LoopAfter[k] = l
      BY <1>2, <2>1, <2>3 DEF Turn
    <3>2. QED
      BY <1>3, <1>4, <1>5, <1>8, <2>2, <2>3, <3>1 DEF Counted
  <2>4. CASE l.failedAt # NoFailure
    <3>1. LoopAfter[k] = [sum |-> l.sum + rows[k].at - l.failedAt, count |-> l.count + 1, failedAt |-> NoFailure]
      BY <1>2, <2>1, <2>4 DEF Turn
    <3>2. l.sum + rows[k].at - l.failedAt = sum + RecoveryTimes[k]
      BY <1>1, <1>10, <1>4, <2>2, <2>4
    <3>3. QED
      BY <1>3, <1>4, <1>5, <1>8, <2>2, <2>4, <3>1, <3>2 DEF Counted
  <2>5. QED
    BY <2>3, <2>4
<1>9. QED
  BY <1>6, <1>7, <1>8

\* The recoveries counted are the recoveries there are.
LEMMA LoopCounts ==
  ASSUME EventAssumption, EventInv
  PROVE  /\ Loop.count = Cardinality(Recoveries) /\ Loop.sum = Sum(RecoveryTimes)
         /\ Loop.count \in Nat /\ Loop.sum \in 0..(Loop.count * EventWindow)
<1> DEFINE N == Len(rows)
<1>1. /\ EventTypeOK /\ N \in Nat /\ EventWindow \in Nat
      /\ Recoveries \in SUBSET (1..N) /\ RecoveryTimes \in [Recoveries -> Int]
      /\ \A i \in Recoveries : RecoveryTimes[i] \in 0..EventWindow
  BY RowFacts, RecoveryTimesOK DEF EventInv
<1>2. PICK u \in [0..N -> Int] : SummedUp(RecoveryTimes, Recoveries, u)
  <2>1. RecoveryTimes \in Amounts(Recoveries)
    BY <1>1 DEF Amounts
  <2>2. QED
    BY <1>1, <2>1, SumDefined
<1> DEFINE Right(i) == Counted(i, u[i]) /\ u[i] \in 0..(LoopAfter[i].count * EventWindow)
           T == {i \in 0..N : Right(i)}
<1>3. 0 \in T
  <2>1. LoopAfter[0] = FreshLoop
    BY <1>1, LoopDefined
  <2>2. Recoveries \cap (1..0) = {} /\ Cardinality({}) = 0
    BY FS_EmptySet
  <2>3. OpenFailure(0, NoFailure)
    BY <1>1, WindowFacts DEF OpenFailure
  <2>4. QED
    BY <1>1, <1>2, <2>1, <2>2, <2>3 DEF Counted, FreshLoop, SummedUp
<1>4. ASSUME NEW i \in 0..N, i \in T, i < N PROVE i + 1 \in T
  <2>1. Counted(i, u[i]) /\ u[i] \in 0..(LoopAfter[i].count * EventWindow) /\ u[i] \in Int
    BY <1>2, <1>4
  <2>2. u[i + 1] = IF i + 1 \in Recoveries THEN u[i] + RecoveryTimes[i + 1] ELSE u[i]
    BY <1>1, <1>2, <1>4 DEF SummedUp
  <2>3. Counted(i + 1, u[i + 1])
    BY <1>4, <2>1, <2>2, CountedNext
  <2>4. /\ LoopAfter[i].count \in Nat
        /\ LoopAfter[i + 1].count = IF i + 1 \in Recoveries THEN LoopAfter[i].count + 1 ELSE LoopAfter[i].count
    <3>1. i \in 0..N /\ i < N
      BY <1>4
    <3> HIDE DEF T
    <3>2. /\ Cardinality(Recoveries \cap (1..i)) \in Nat
          /\ Cardinality(Recoveries \cap (1..(i + 1))) =
               IF i + 1 \in Recoveries THEN Cardinality(Recoveries \cap (1..i)) + 1
               ELSE Cardinality(Recoveries \cap (1..i))
      BY <1>1, <3>1, OneMore
    <3>3. QED
      BY <2>1, <2>3, <3>2 DEF Counted
  <2>5. u[i + 1] \in 0..(LoopAfter[i + 1].count * EventWindow)
    <3>1. CASE i + 1 \in Recoveries
      <4>1. RecoveryTimes[i + 1] \in 0..EventWindow
        BY <1>1, <3>1
      <4>2. ASSUME NEW c \in Nat, NEW w \in Nat, NEW s \in 0..(c * w), NEW t \in 0..w
            PROVE  s + t \in 0..((c + 1) * w)
        <5>1. (c + 1) * w = c * w + w /\ c * w \in Nat
          OBVIOUS
        <5>2. QED
          BY <5>1
      <4>3. u[i] + RecoveryTimes[i + 1] \in 0..((LoopAfter[i].count + 1) * EventWindow)
        BY <1>1, <2>1, <2>4, <4>1, <4>2
      <4>4. QED
        BY <2>2, <2>4, <3>1, <4>3
    <3>2. QED
      BY <2>1, <2>2, <2>4, <3>1
  <2>6. i + 1 \in 0..N
    BY <1>1, <1>4
  <2>7. QED
    BY <2>3, <2>5, <2>6
<1>5. Right(N)
  <2> HIDE DEF N, Right
  <2>1. 0..N \subseteq T
    <3> HIDE DEF T
    <3>1. QED
      BY <1>1, <1>3, <1>4, ReachesAll
  <2>2. QED
    BY <1>1, <2>1
<1>6. Recoveries \cap (1..N) = Recoveries
  BY <1>1
<1>7. Loop.count \in Nat
  <2>1. Loop \in Loops
    BY <1>1, LoopDefined DEF Loop
  <2>2. QED
    BY <2>1 DEF Loops
<1>8. QED
  BY <1>2, <1>5, <1>6, <1>7 DEF Counted, Loop, SummedUp

\* The row the intervals up to row i are added up to, from the first success.
SpanUpTo(i, sum) ==
  \/ (\A s \in Successes : i < s) /\ sum = 0
  \/ \E s \in Successes :
       /\ s <= i /\ \A j \in Successes : j <= i => j <= s
       /\ sum = rows[s].at - rows[Min(Successes)].at

LEMMA IntervalsOK ==
  ASSUME EventAssumption, EventInv, Successes # {}
  PROVE  /\ Min(Successes) \in Successes /\ \A s \in Successes : Min(Successes) <= s
         /\ DOMAIN Intervals = Successes \ {Min(Successes)}
         /\ Intervals \in [DOMAIN Intervals -> Int]
         /\ \A k \in DOMAIN Intervals, s \in Successes :
              s < k /\ (\A j \in Successes : j < k => j <= s) => Intervals[k] = rows[k].at - rows[s].at
<1>1. /\ Len(rows) \in Nat /\ Successes \subseteq 1..Len(rows) /\ Successes \subseteq Nat
      /\ \A i \in Successes : rows[i].at \in Nat
  BY RowFacts, WindowFacts DEF EventInv
<1>2. Min(Successes) \in Successes /\ \A s \in Successes : Min(Successes) <= s
  BY <1>1, LeastIs
<1>3. DOMAIN Intervals = Successes \ {Min(Successes)}
  BY DEF Intervals
<1>4. ASSUME NEW k \in DOMAIN Intervals, NEW s \in Successes, s < k, \A j \in Successes : j < k => j <= s
      PROVE  Intervals[k] = rows[k].at - rows[s].at
  <2> DEFINE Earlier == {j \in Successes : j < k}
  <2>1. s \in Earlier /\ \A j \in Earlier : j <= s
    BY <1>4
  <2>2. Earlier \subseteq 0..Len(rows)
    <3>1. \A j \in Earlier : j \in 0..Len(rows)
      BY <1>1
    <3>2. QED
      BY <3>1
  <2>3. Intervals[k] = rows[k].at - rows[Max(Earlier)].at
    BY <1>3 DEF Intervals
  <2> HIDE DEF Earlier
  <2>4. Max(Earlier) = s
    BY <1>1, <2>1, <2>2, MaxOf
  <2>5. QED
    BY <2>3, <2>4
<1>5. ASSUME NEW k \in DOMAIN Intervals PROVE Intervals[k] \in Int
  <2> DEFINE Earlier == {j \in Successes : j < k}
  <2>1. Min(Successes) \in Earlier
    <3>1. k \in Successes /\ k # Min(Successes) /\ Min(Successes) <= k /\ k \in Nat /\ Min(Successes) \in Nat
      BY <1>1, <1>2, <1>3
    <3>2. QED
      BY <1>2, <3>1
  <2>2. Earlier \subseteq 0..Len(rows) /\ Earlier \subseteq Successes
    <3>1. \A j \in Earlier : j \in 0..Len(rows)
      BY <1>1
    <3>2. QED
      BY <3>1
  <2>3. Intervals[k] = rows[k].at - rows[Max(Earlier)].at
    BY <1>3 DEF Intervals
  <2> HIDE DEF Earlier
  <2>4. Max(Earlier) \in Successes /\ k \in Successes
    BY <1>1, <1>3, <2>1, <2>2, GreatestIs
  <2> DEFINE m == Max(Earlier)
  <2> HIDE DEF m
  <2>5. rows[m].at \in Nat /\ rows[k].at \in Nat
    BY <1>1, <2>4 DEF m
  <2>6. QED
    BY <2>3, <2>5 DEF m
<1>6. Intervals \in [DOMAIN Intervals -> Int]
  <2>1. Intervals = [i \in DOMAIN Intervals |-> Intervals[i]]
    BY DEF Intervals
  <2> HIDE DEF Intervals
  <2>2. QED
    BY <1>5, <2>1
<1>7. QED
  BY <1>2, <1>3, <1>4, <1>6

LEMMA SpanNext ==
  ASSUME EventAssumption, EventInv, Successes # {}, NEW i \in 0..Len(rows), i < Len(rows),
         NEW sum \in Int, SpanUpTo(i, sum)
  PROVE  SpanUpTo(i + 1, IF i + 1 \in DOMAIN Intervals THEN sum + Intervals[i + 1] ELSE sum)
<1> DEFINE k == i + 1
           first == Min(Successes)
<1>1. /\ Len(rows) \in Nat /\ Successes \subseteq 1..Len(rows)
      /\ \A s \in Successes : rows[s].at \in Nat
  BY RowFacts, WindowFacts DEF EventInv
<1>2. /\ first \in Successes /\ \A s \in Successes : first <= s
      /\ DOMAIN Intervals = Successes \ {first}
  BY IntervalsOK
<1>3. \A s \in Successes : /\ s \in Nat /\ (s <= k <=> (s <= i \/ s = k)) /\ (s < k <=> s <= i)
                            /\ (i < s <=> (k < s \/ s = k))
  BY <1>1
<1> HIDE DEF first
<1>4. CASE k \notin Successes
  <2>1. \A s \in Successes : (s <= k <=> s <= i) /\ (k < s <=> i < s)
    BY <1>3, <1>4
  <2>2. SpanUpTo(k, sum)
    BY <2>1 DEF SpanUpTo
  <2>3. QED
    BY <1>2, <1>4, <2>2
<1>5. CASE k = first
  <2>1. \A s \in Successes : ~(s <= i)
    BY <1>2, <1>3, <1>5
  <2>2. sum = 0
    BY <2>1 DEF SpanUpTo
  <2>3. \A j \in Successes : j <= k => j <= k
    OBVIOUS
  <2>4. rows[k].at - rows[k].at = 0 /\ k <= k
    BY <1>1, <1>2, <1>5
  <2>5. SpanUpTo(k, 0)
    BY <1>2, <1>5, <2>3, <2>4 DEF SpanUpTo, first
  <2>6. QED
    BY <1>2, <1>5, <2>2, <2>5
<1>6. CASE k \in Successes /\ k # first
  <2>1. first <= i
    BY <1>2, <1>3, <1>6
  <2>2. ~(i < first)
    BY <1>2, <1>3, <2>1
  <2>3. PICK s \in Successes : /\ s <= i /\ \A j \in Successes : j <= i => j <= s
                                /\ sum = rows[s].at - rows[first].at
    BY <1>2, <2>2 DEF SpanUpTo, first
  <2>4. k \in DOMAIN Intervals /\ s < k /\ \A j \in Successes : j < k => j <= s
    BY <1>2, <1>3, <1>6, <2>3
  <2>5. Intervals[k] = rows[k].at - rows[s].at
    BY <2>4, IntervalsOK
  <2>6. sum + Intervals[k] = rows[k].at - rows[first].at
    <3>1. rows[k].at \in Nat /\ rows[s].at \in Nat /\ rows[first].at \in Nat
      BY <1>1, <1>2, <1>6
    <3>2. \A x, y, z \in Nat : (y - z) + (x - y) = x - z
      OBVIOUS
    <3>3. (rows[s].at - rows[first].at) + (rows[k].at - rows[s].at) = rows[k].at - rows[first].at
      BY <3>1, <3>2
    <3>4. QED
      BY <2>3, <2>5, <3>3
  <2>7. k <= k /\ \A j \in Successes : j <= k => j <= k
    BY <1>3, <1>6
  <2>8. SpanUpTo(k, sum + Intervals[k])
    BY <1>6, <2>6, <2>7 DEF SpanUpTo, first
  <2>9. QED
    BY <2>4, <2>8
<1>7. QED
  BY <1>4, <1>5, <1>6

\* The intervals add up to what lies between the first and the last success.
LEMMA IntervalsTelescope ==
  ASSUME EventAssumption, EventInv, Successes # {}
  PROVE  /\ Sum(Intervals) = rows[Max(Successes)].at - rows[Min(Successes)].at
         /\ Cardinality(DOMAIN Intervals) = Cardinality(Successes) - 1
<1> DEFINE N == Len(rows)
           D == DOMAIN Intervals
<1>1. /\ EventTypeOK /\ N \in Nat /\ Successes \subseteq 1..N
      /\ D = Successes \ {Min(Successes)} /\ Min(Successes) \in Successes
      /\ Intervals \in [D -> Int] /\ D \subseteq 1..N
  BY RowFacts, WindowFacts, IntervalsOK DEF EventInv
<1>2. PICK u \in [0..N -> Int] : SummedUp(Intervals, D, u)
  <2>1. Intervals \in Amounts(D)
    BY <1>1 DEF Amounts
  <2> HIDE DEF D
  <2>2. QED
    BY <1>1, <2>1, SumDefined
<1> HIDE DEF D
<1> DEFINE T == {i \in 0..N : SpanUpTo(i, u[i])}
<1>3. 0 \in T
  <2>1. \A s \in Successes : 0 < s
    BY <1>1
  <2>2. u[0] = 0
    BY <1>2 DEF SummedUp
  <2>3. QED
    BY <1>1, <2>1, <2>2 DEF SpanUpTo
<1>4. ASSUME NEW i \in 0..N, i \in T, i < N PROVE i + 1 \in T
  <2>1. SpanUpTo(i, u[i]) /\ u[i] \in Int /\ i + 1 \in 1..N
    BY <1>1, <1>4
  <2>2. u[i + 1] = IF i + 1 \in D THEN u[i] + Intervals[i + 1] ELSE u[i]
    BY <1>1, <1>2, <2>1 DEF SummedUp
  <2>3. SpanUpTo(i + 1, u[i + 1])
    BY <1>4, <2>1, <2>2, SpanNext DEF D
  <2>4. QED
    BY <2>1, <2>3
<1>5. SpanUpTo(N, u[N])
  <2> HIDE DEF N
  <2>1. 0..N \subseteq T
    <3> HIDE DEF T
    <3>1. QED
      BY <1>1, <1>3, <1>4, ReachesAll
  <2>2. QED
    BY <1>1, <2>1
<1>6. Sum(Intervals) = rows[Max(Successes)].at - rows[Min(Successes)].at
  <2>1. \A s \in Successes : s <= N /\ ~(N < s)
    BY <1>1
  <2>2. PICK s \in Successes : /\ \A j \in Successes : j <= s
                                /\ u[N] = rows[s].at - rows[Min(Successes)].at
    BY <1>1, <1>5, <2>1 DEF SpanUpTo
  <2>3. Successes \subseteq 0..N
    BY <1>1
  <2>4. Max(Successes) = s
    BY <1>1, <2>2, <2>3, MaxOf
  <2>5. QED
    BY <1>2, <2>2, <2>4 DEF SummedUp
<1>7. Cardinality(D) = Cardinality(Successes) - 1
  <2>1. IsFiniteSet(Successes)
    BY <1>1, FiniteUpTo
  <2>2. QED
    BY <1>1, <2>1, FS_RemoveElement
<1>8. QED
  BY <1>6, <1>7 DEF D

\* The rounded mean of numbers up to w is one of them.
LEMMA MeanBounded ==
  ASSUME NEW w \in Nat, NEW n \in Nat, NEW s \in 0..(n * w), n # 0
  PROVE  Mean(s, n) \in 0..w
<1> DEFINE a == 2 * s + n
           b == 2 * n
<1>1. a \in Nat /\ b \in Nat /\ 0 < b /\ n * w \in Nat /\ s \in Nat
  OBVIOUS
<1>2. a < b * w + b
  <2>1. b * w = 2 * (n * w)
    OBVIOUS
  <2>2. QED
    BY <1>1, <2>1
<1>3. a \div b \in 0..w
  <2> HIDE DEF a, b
  <2>1. a \div b \in Nat /\ b * (a \div b) <= a
    BY <1>1
  <2>2. ASSUME w < a \div b PROVE FALSE
    <3>1. w + 1 <= a \div b
      BY <2>1, <2>2
    <3>2. b * (w + 1) <= b * (a \div b)
      BY <1>1, <2>1, <3>1
    <3>3. b * (w + 1) = b * w + b
      BY <1>1
    <3>4. b * w \in Nat /\ b * (a \div b) \in Nat
      BY <1>1, <2>1
    <3>5. QED
      BY <1>1, <1>2, <2>1, <3>2, <3>3, <3>4
  <2>3. QED
    BY <2>1, <2>2
<1>4. QED
  BY <1>3 DEF Mean

\* A recovery that is shown lies in the window, beside its failure and its deployment.
LEMMA RecoveryShown ==
  ASSUME EventAssumption, EventInv, ShowsRecovery
  PROVE  /\ HasEventSignal /\ Summary.mttr <= EventWindow
         /\ Summary.failureCount > 0 /\ Summary.deployCount > 0
<1>1. /\ Loop.count = Cardinality(Recoveries) /\ Loop.count \in Nat
      /\ Loop.sum \in 0..(Loop.count * EventWindow) /\ EventWindow \in Nat
  BY LoopCounts DEF EventAssumption
<1>2. Summary.mttr = Mean(Loop.sum, Loop.count)
  BY DEF Summary
<1>3. Loop.count # 0
  BY <1>2 DEF ShowsRecovery, Mean
<1>4. Summary.mttr <= EventWindow
  <2>1. Mean(Loop.sum, Loop.count) \in 0..EventWindow
    BY <1>1, <1>3, MeanBounded
  <2>2. QED
    BY <1>1, <1>2, <2>1
<1>5. PICK i \in Recoveries : TRUE
  <2>1. Recoveries # {}
    BY <1>1, <1>3, FS_EmptySet
  <2>2. QED
    BY <2>1
<1>6. PICK f \in SyncRows \ Successes : TRUE
  BY <1>5 DEF Recoveries
<1>7. /\ i \in InWindow /\ Type(rows[i]) = "sync_succeeded"
      /\ f \in InWindow /\ Type(rows[f]) = "sync_failed"
  BY <1>5, <1>6, WindowFacts
<1>8. ASSUME NEW type, NEW k \in InWindow, Type(rows[k]) = type PROVE CountOf(type) > 0
  <2> DEFINE Of == {j \in InWindow : Type(rows[j]) = type}
  <2>1. InWindow \in SUBSET (1..Len(rows)) /\ Len(rows) \in Nat /\ k \in Of
    BY <1>8, RowFacts, WindowFacts DEF EventInv
  <2>2. IsFiniteSet(Of)
    <3>1. Of \in SUBSET (1..Len(rows))
      BY <2>1
    <3> HIDE DEF Of
    <3>2. QED
      BY <2>1, <3>1, FiniteUpTo
  <2>3. Cardinality(Of) \in Nat /\ Cardinality(Of) # 0
    BY <2>1, <2>2, FS_CardinalityType, FS_EmptySet
  <2>4. CountOf(type) = Cardinality(Of)
    BY DEF CountOf
  <2>5. QED
    BY <2>3, <2>4
<1>9. Summary.failureCount > 0 /\ Summary.deployCount > 0
  <2>1. CountOf("sync_succeeded") > 0 /\ CountOf("sync_failed") > 0
    BY <1>7, <1>8
  <2>2. QED
    BY <2>1 DEF Summary
<1>10. QED
  BY <1>4, <1>9 DEF HasEventSignal

\* The pipeline itself recovered between the failure and the success of a recovery.
CameBack(i, n) ==
  \E f \in SyncRows \ Successes :
    /\ f < i /\ \A j \in SyncRows : ~(f < j /\ j < i)
    /\ rows[f].of < n /\ n <= rows[i].of /\ n \in TrueRecoveries

LEMMA CameBackSome ==
  ASSUME EventAssumption, EventInv, inOrder, NEW i \in Recoveries
  PROVE  \E n \in TrueRecoveries : CameBack(i, n)
<1>1. PICK f \in SyncRows \ Successes : f < i /\ \A j \in SyncRows : ~(f < j /\ j < i)
  BY DEF Recoveries
<1>2. /\ Len(happened) \in Nat /\ DOMAIN happened = 1..Len(happened) /\ EventTypeOK
      /\ \A k \in DOMAIN rows : rows[k].of \in Nat /\ 1 <= rows[k].of /\ rows[k].of <= Len(happened)
  BY RowFacts DEF EventInv
<1>3. f \in DOMAIN rows /\ i \in DOMAIN rows /\ i \in SyncRows /\ i \in Successes
  BY <1>2, WindowFacts, RowFacts
<1> DEFINE a == rows[f].of
           b == rows[i].of
<1>4. a \in 1..Len(happened) /\ b \in 1..Len(happened) /\ a < b
  BY <1>1, <1>2, <1>3 DEF EventInv
<1>5. happened[a] = "sync_failed" /\ happened[b] = "sync_succeeded"
  BY <1>1, <1>3, WindowFacts DEF Type
<1> HIDE DEF a, b
<1> DEFINE Came == {n \in 1..Len(happened) : a < n /\ n <= b /\ happened[n] = "sync_succeeded"}
<1>6. PICK n \in Came : \A m \in Came : n <= m
  <2>1. b \in Came /\ Came \subseteq Nat
    BY <1>4, <1>5
  <2> HIDE DEF Came
  <2>2. QED
    BY <2>1, LeastElement
<1>7. n \in 1..Len(happened) /\ a < n /\ n <= b /\ happened[n] = "sync_succeeded"
  BY <1>6
<1> DEFINE Failed == {m \in 1..Len(happened) : a <= m /\ m < n /\ happened[m] = "sync_failed"}
<1>8. PICK g \in Failed : \A m \in Failed : m <= g
  <2>1. a \in Failed /\ \A m \in Failed : m \in 0..Len(happened)
    BY <1>2, <1>4, <1>5, <1>7
  <2> HIDE DEF Failed
  <2>2. QED
    BY <1>2, <2>1, GreatestElement
<1>9. g \in 1..Len(happened) /\ a <= g /\ g < n /\ happened[g] = "sync_failed"
  BY <1>8
<1>10. ASSUME NEW j \in (g + 1)..(n - 1) PROVE happened[j] \notin Syncs
  <2>1. j \in 1..Len(happened) /\ a < j /\ j < n /\ j <= b /\ g < j
    BY <1>2, <1>4, <1>7, <1>9
  <2>2. j \notin Came
    BY <1>6, <1>7, <2>1
  <2>3. j \notin Failed
    BY <1>8, <1>9, <2>1
  <2>4. a <= j
    BY <1>4, <2>1
  <2>5. happened[j] # "sync_succeeded" /\ happened[j] # "sync_failed"
    BY <2>1, <2>2, <2>3, <2>4
  <2>6. QED
    BY <2>5 DEF Syncs
<1>11. n \in TrueRecoveries
  <2>1. g \in 1..(n - 1)
    BY <1>7, <1>9
  <2>2. QED
    BY <1>2, <1>7, <1>9, <1>10, <2>1 DEF TrueRecoveries
<1>12. QED
  BY <1>1, <1>7, <1>11 DEF CameBack, a, b

LEMMA CameBackOnce ==
  ASSUME EventAssumption, EventInv, inOrder, NEW i \in Recoveries, NEW k \in Recoveries, i < k,
         NEW n, CameBack(i, n), NEW m, CameBack(k, m)
  PROVE  n # m
<1>1. PICK f \in SyncRows \ Successes :
        /\ f < k /\ \A j \in SyncRows : ~(f < j /\ j < k)
        /\ rows[f].of < m /\ m \in TrueRecoveries
  BY DEF CameBack
<1>2. n <= rows[i].of /\ n \in TrueRecoveries
  BY DEF CameBack
<1>3. /\ EventTypeOK /\ i \in Successes /\ i \in SyncRows /\ SyncRows \subseteq DOMAIN rows
      /\ DOMAIN rows = 1..Len(rows) /\ Len(rows) \in Nat
      /\ \A j \in DOMAIN rows : rows[j].of \in Nat
      /\ TrueRecoveries \subseteq Nat
  BY RowFacts, WindowFacts DEF EventInv, TrueRecoveries
<1>4. i < f
  <2>1. f \in Nat /\ i \in Nat /\ ~(f < i) /\ f # i
    BY <1>1, <1>3
  <2>2. QED
    BY <2>1
<1>5. rows[i].of < rows[f].of
  BY <1>1, <1>3, <1>4 DEF EventInv
<1>6. rows[i].of \in Nat /\ rows[f].of \in Nat /\ n \in Nat /\ m \in Nat
  BY <1>1, <1>2, <1>3
<1>7. QED
  BY <1>1, <1>2, <1>5, <1>6

\* So there are no more recoveries in the rows than there were.
LEMMA RecoveriesWere ==
  ASSUME EventAssumption, EventInv, inOrder
  PROVE  Cardinality(Recoveries) <= Cardinality(TrueRecoveries)
<1> DEFINE back == [i \in Recoveries |-> CHOOSE n \in TrueRecoveries : CameBack(i, n)]
<1>1. ASSUME NEW i \in Recoveries PROVE back[i] \in TrueRecoveries /\ CameBack(i, back[i])
  <2>1. \E n \in TrueRecoveries : CameBack(i, n)
    BY CameBackSome
  <2>2. QED
    BY <2>1
<1>2. ASSUME NEW i \in Recoveries, NEW k \in Recoveries, i # k PROVE back[i] # back[k]
  <2>1. Recoveries \subseteq Nat
    BY WindowFacts
  <2>2. i < k \/ k < i
    BY <1>2, <2>1
  <2>3. CameBack(i, back[i]) /\ CameBack(k, back[k])
    BY <1>1
  <2> HIDE DEF back
  <2>4. QED
    BY <2>2, <2>3, CameBackOnce
<1>3. back \in [Recoveries -> TrueRecoveries]
  BY <1>1
<1> HIDE DEF back
<1>4. back \in Injection(Recoveries, TrueRecoveries)
  BY <1>2, <1>3 DEF Injection, IsInjective
<1>5. IsFiniteSet(TrueRecoveries)
  <2>1. Len(happened) \in Nat /\ DOMAIN happened = 1..Len(happened)
    BY RowFacts DEF EventInv
  <2>2. TrueRecoveries \in SUBSET (1..Len(happened))
    BY <2>1 DEF TrueRecoveries
  <2>3. QED
    BY <2>1, <2>2, FiniteUpTo
<1>6. QED
  BY <1>4, <1>5, FS_Injection

LEMMA SummaryFollows == ASSUME EventAssumption, EventInv PROVE SummaryHolds
<1>1. Summary.mttr = Mean(Sum(RecoveryTimes), Cardinality(Recoveries))
  BY LoopCounts DEF Summary
<1>2. LET n == Cardinality(Successes) IN
      IF n < 2 THEN Summary.avgInterval = NoMean
      ELSE Summary.avgInterval = Mean(rows[Max(Successes)].at - rows[Min(Successes)].at, n - 1)
  <2>1. Summary.avgInterval = Mean(Sum(Intervals), Cardinality(DOMAIN Intervals))
    BY DEF Summary
  <2>2. CASE Successes = {}
    <3>1. DOMAIN Intervals = {}
      BY <2>2 DEF Intervals
    <3>2. Cardinality({}) = 0
      BY FS_EmptySet
    <3>3. QED
      BY <2>1, <2>2, <3>1, <3>2 DEF Mean
  <2>3. CASE Successes # {}
    <3>1. /\ Sum(Intervals) = rows[Max(Successes)].at - rows[Min(Successes)].at
          /\ Cardinality(DOMAIN Intervals) = Cardinality(Successes) - 1
      BY <2>3, IntervalsTelescope
    <3>2. Cardinality(Successes) \in Nat /\ Cardinality(Successes) # 0
      <4>1. Len(rows) \in Nat /\ Successes \in SUBSET (1..Len(rows))
        BY RowFacts, WindowFacts DEF EventInv
      <4>2. IsFiniteSet(Successes)
        BY <4>1, FiniteUpTo
      <4>3. QED
        BY <2>3, <4>2, FS_CardinalityType, FS_EmptySet
    <3>3. CASE Cardinality(Successes) < 2
      <4>1. Cardinality(DOMAIN Intervals) = 0
        BY <3>1, <3>2, <3>3
      <4>2. QED
        BY <2>1, <3>3, <4>1 DEF Mean
    <3>4. QED
      BY <2>1, <3>1, <3>3
  <2>4. QED
    BY <2>2, <2>3
<1>3. inOrder => Loop.count <= Cardinality(TrueRecoveries)
  BY LoopCounts, RecoveriesWere
<1>4. QED
  BY <1>1, <1>2, <1>3, RecoveryShown DEF SummaryHolds

\* The summary of a pipeline averages the recoveries and the intervals in the window and
\* nothing else, and shows a recovery only beside what it is made of, however reports are
\* lost, repeated or overtaken (events.repository summary, PipelineSection).
THEOREM SummaryTrue == EventSpec => []SummaryHolds
<1>1. EventInit => EventInv
  BY EventAssumption, EventsBegin
<1>2. EventInv /\ [EventNext]_eventVars => EventInv'
  BY EventAssumption, EventsKept
<1>3. EventInv => SummaryHolds
  BY EventAssumption, SummaryFollows
<1>4. QED
  BY <1>1, <1>2, <1>3, PTL DEF EventSpec
=============================================================================
