------------------------------ MODULE StackCheck ------------------------------
(***************************************************************************)
(* The checklist of a repository before it is deployed (deploy.service     *)
(* detectStack, read again when it is registered) beside the Dockerfile    *)
(* that will build it (templates.ts): five reads of GitHub, each of which  *)
(* may fail, become rows that pass, warn or fail, a verdict, and perhaps a *)
(* storage profile.  The owner may push between two reads.                 *)
(***************************************************************************)
EXTENDS FiniteSets

VARIABLES
  source,  \* the default branch of the repository, as far as it is looked at
  check,   \* the check under way, or its outcome
  movedOn  \* history: the branch has moved since the check began

stackVars == <<source, check, movedOn>>

-----------------------------------------------------------------------------
\* With no package.json there is nothing in it; a schema has another provider, SQLite at a
\* fixed path, or SQLite at DATABASE_URL.
Sources == {s \in [branch : {"main", "other"}, package : BOOLEAN, next : BOOLEAN, build : BOOLEAN,
                   lock : BOOLEAN, deps : SUBSET {"prisma", "@prisma/client"},
                   schema : {"none", "other", "fixed", "env"}, migrations : BOOLEAN] :
              /\ ~s.package => ~s.next /\ ~s.build /\ s.deps = {}
              /\ s.schema = "none" => ~s.migrations}

RowKeys == {"repo_access", "default_branch", "package_json", "next_dep", "build_script",
            "package_lockfile", "prisma_sqlite"}
RowStates == {"none", "pass", "warn", "fail"}
CheckSteps == {"repo", "package", "lockfile", "schema", "migrations", "nextjs", "unsupported"}
FreshCheck == [step |-> "repo", rows |-> [k \in RowKeys |-> "none"], profile |-> "none"]

StackTypeOK ==
  /\ source \in Sources
  /\ check \in [step : CheckSteps, rows : [RowKeys -> RowStates],
                profile : {"none", "db-push", "migrate-deploy"}]
  /\ movedOn \in BOOLEAN

StackInit == source \in Sources /\ check = FreshCheck /\ movedOn = FALSE

OwnerPushesStack ==
  /\ ~movedOn /\ movedOn' = TRUE /\ check' = check
  /\ \/ source' = [source EXCEPT !.lock = ~@]
     \/ \E s \in {"none", "env"} \ {source.schema} :
          source' = [source EXCEPT !.schema = s, !.migrations = FALSE]

-----------------------------------------------------------------------------
(* detectStack                                                             *)

\* The rows a read adds, and the step it leads to.
Row(k, state) == [check.rows EXCEPT ![k] = state]
Adds(step, rows) == check' = [check EXCEPT !.step = step, !.rows = rows]
PassIf(condition, otherwise) == IF condition THEN "pass" ELSE otherwise

\* Anything that failed makes the stack unsupported.
ConcludeCheck(rows, profile) ==
  check' = [check EXCEPT !.rows = rows, !.profile = profile,
              !.step = IF \E k \in RowKeys : rows[k] = "fail" THEN "unsupported" ELSE "nextjs"]

ReadRepo ==
  /\ check.step = "repo"
  /\ Adds("package", [Row("repo_access", "pass") EXCEPT
                        !["default_branch"] = PassIf(source.branch = "main", "fail")])
  /\ UNCHANGED <<source, movedOn>>

RepoUnreadable ==
  /\ check.step = "repo" /\ Adds("unsupported", Row("repo_access", "fail"))
  /\ UNCHANGED <<source, movedOn>>

\* What is not read counts as not being there; without package.json its rows are left out.
ReadPackage ==
  /\ check.step = "package" /\ source.package
  /\ Adds("lockfile", [Row("package_json", "pass") EXCEPT
                         !["next_dep"] = PassIf(source.next, "fail"),
                         !["build_script"] = PassIf(source.build, "warn")])
  /\ UNCHANGED <<source, movedOn>>

PackageUnreadable ==
  /\ check.step = "package" /\ Adds("lockfile", Row("package_json", "fail"))
  /\ UNCHANGED <<source, movedOn>>

\* Mutant: the lockfile is not looked for, or its absence taken for a transient error.
LockfileAssumed(there) == "pass"

LockfileRow(there) == PassIf(there, "warn")

ReadLockfile ==
  /\ check.step = "lockfile" /\ Adds("schema", Row("package_lockfile", LockfileRow(source.lock)))
  /\ UNCHANGED <<source, movedOn>>

LockfileUnreadable ==
  /\ check.step = "lockfile" /\ check' = [check EXCEPT !.step = "schema"]
  /\ UNCHANGED <<source, movedOn>>

\* The dependencies of a package.json that could not be read are none.
PrismaDeps == IF check.rows["package_json"] = "pass" THEN source.deps ELSE {}

ReadSchema ==
  /\ check.step = "schema"
  /\ CASE source.schema = "none" -> ConcludeCheck(check.rows, "none")
       [] source.schema = "other" -> ConcludeCheck(Row("prisma_sqlite", "warn"), "none")
       [] source.schema = "fixed" -> ConcludeCheck(Row("prisma_sqlite", "fail"), "none")
       [] source.schema = "env" /\ PrismaDeps = {} -> ConcludeCheck(Row("prisma_sqlite", "warn"), "none")
       [] OTHER -> check' = [check EXCEPT !.step = "migrations"]
  /\ UNCHANGED <<source, movedOn>>

\* Taken for a repository without a schema.
SchemaUnreadable ==
  /\ check.step = "schema" /\ ConcludeCheck(check.rows, "none")
  /\ UNCHANGED <<source, movedOn>>

\* Without migrations, or with a directory of them that cannot be read, the database is pushed.
ReadMigrations ==
  /\ check.step = "migrations"
  /\ \/ ConcludeCheck(Row("prisma_sqlite", "pass"), "db-push")
     \/ source.migrations /\ ConcludeCheck(Row("prisma_sqlite", "pass"), "migrate-deploy")
  /\ UNCHANGED <<source, movedOn>>

\* Shown again, or registered: detected again from the start.
CheckAgain ==
  /\ check.step \in {"nextjs", "unsupported"}
  /\ check' = FreshCheck /\ movedOn' = FALSE /\ UNCHANGED source

StackNext ==
  \/ OwnerPushesStack \/ ReadRepo \/ RepoUnreadable \/ ReadPackage \/ PackageUnreadable
  \/ ReadLockfile \/ LockfileUnreadable \/ ReadSchema \/ SchemaUnreadable \/ ReadMigrations
  \/ CheckAgain

StackSpec == StackInit /\ [][StackNext]_stackVars

-----------------------------------------------------------------------------
(* renderDockerfile, renderBuildWorkflow                                   *)

\* What the build needs: it runs on main, where the workflow is committed; npm ci wants the
\* lockfile, a schema is generated by a Prisma that --no-install does not fetch, and then
\* come npm run build and next.
BuildNeeds(s) ==
  {"main", "package.json", "package-lock.json", "build", "next"}
    \cup (IF s.schema = "none" THEN {} ELSE {"prisma"})

Has(s) ==
  s.deps \cup {n \in {"main", "package.json", "package-lock.json", "build", "next"} :
    CASE n = "main" -> s.branch = "main" [] n = "package.json" -> s.package
      [] n = "package-lock.json" -> s.lock [] n = "build" -> s.build [] n = "next" -> s.next}

\* Nothing is red or yellow, and no row but Prisma's is missing.
AllGreen ==
  /\ check.step = "nextjs"
  /\ \A k \in RowKeys : check.rows[k] = "pass" \/ (k = "prisma_sqlite" /\ check.rows[k] = "none")

-----------------------------------------------------------------------------
\* Reads that failed left out or taken for absence, and all: a checklist that is all green
\* over a branch nobody pushed to meanwhile misses nothing of what the Dockerfile will ask
\* for, but the Prisma CLI: the row of Prisma is content with @prisma/client alone, and is
\* left out when the schema was not read.
GreenChecklistBuilds ==
  AllGreen /\ ~movedOn => BuildNeeds(source) \ Has(source) \subseteq {"prisma"}
=============================================================================
