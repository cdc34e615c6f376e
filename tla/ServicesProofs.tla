---------------------------- MODULE ServicesProofs ----------------------------
(***************************************************************************)
(* What the proof system establishes of the commits to GitHub, of the      *)
(* deploy page and of the page of an app, for any number of files, handlers,*)
(* repositories, pushes, tabs and saves; and of the services side by side, *)
(* that a behaviour of them all is one of each.                            *)
(***************************************************************************)
EXTENDS MCServices, AccountProofs, LookupProofs, SequenceTheorems

-----------------------------------------------------------------------------
(* commitFilesAtomic                                                       *)

All == Writers \cup Setups

\* What tree may differ in from the commit it was built on, for a handler w.
Confined(w, tree, from) ==
  \A p \in Paths :
    p \notin Owned(w) \/ (w \in Setups /\ from[p] # "none") => tree[p] = from[p]

\* The commit that is being built stands on a commit of the branch and, for a setup, on
\* the reviewed one.
BuildInv ==
  /\ commits \in Seq(Trees) /\ Top \in CommitIds /\ run \in [All -> Runs]
  /\ \A w \in All :
       /\ run[w].reviewed \in 0..Top
       /\ run[w].step \in {"build", "move"} =>
            /\ run[w].base \in 1..Top
            /\ w \in Setups => run[w].base = run[w].reviewed
       /\ run[w].step = "move" => Confined(w, run[w].tree, commits[run[w].base])

\* What NothingOverwritten asks of a step.
Spares ==
  \A w \in All : Moved(w) =>
    \A p \in Paths : p \notin Owned(w) \/ (w \in Setups /\ commits[Top][p] # "none") =>
      commits'[Top'][p] = commits[Top][p]

LEMMA BuildBegins == ASSUME CommitAssumption, CommitInit PROVE BuildInv
<1>1. PICK t \in [Paths -> {"none", "owner"}] : commits = <<t>>
  BY DEF CommitInit
<1>2. t \in Trees
  BY DEF Trees, Contents
<1>3. commits \in Seq(Trees)
  BY <1>1, <1>2
<1>4. NoRun \in Runs
  BY CommitAssumption DEF NoRun, Runs, Trees, Contents, CommitAssumption
<1>5. QED
  BY <1>1, <1>3, <1>4 DEF CommitInit, BuildInv, All, NoRun, Top, CommitIds, CommitAssumption

\* One handler goes on, and the branch stays.
LEMMA HandlerGoesOn ==
  ASSUME BuildInv, NEW w \in All, commits' = commits, NEW new \in Runs,
         run' = [run EXCEPT ![w] = new],
         new.reviewed \in 0..Top,
         new.step \in {"build", "move"} =>
           new.base \in 1..Top /\ (w \in Setups => new.base = new.reviewed),
         new.step = "move" => Confined(w, new.tree, commits[new.base])
  PROVE  BuildInv' /\ Spares
<1>1. /\ run' \in [All -> Runs] /\ run'[w] = new
      /\ \A x \in All \ {w} : run'[x] = run[x]
  BY DEF BuildInv
<1>2. BuildInv'
  BY <1>1 DEF BuildInv, Top, Confined, Owned
<1>3. Spares
  BY DEF Spares, Moved
<1>4. QED
  BY <1>2, <1>3

\* The branch gets a commit.
LEMMA BranchGrows ==
  ASSUME BuildInv, NEW t \in Trees, commits' = Append(commits, t)
  PROVE  /\ commits' \in Seq(Trees) /\ Top' = Top + 1 /\ commits'[Top'] = t
         /\ Top \in Nat /\ \A i \in 1..Top : commits'[i] = commits[i]
BY DEF BuildInv, Top

LEMMA RunStops ==
  ASSUME CommitAssumption, BuildInv, NEW w \in All, commits' = commits, Done(w)
  PROVE  BuildInv' /\ Spares
<1> DEFINE new == [NoRun EXCEPT !.reviewed = run[w].reviewed]
<1>1. run[w] \in Runs /\ run[w].reviewed \in 0..Top /\ run[w].reviewed \in 0..MaxCommits
  BY DEF BuildInv, Runs
<1>2. NoRun \in Runs
  BY DEF NoRun, Runs, Trees, Contents, CommitAssumption
<1>3. new \in Runs /\ new.reviewed = run[w].reviewed /\ new.step = "idle"
  BY <1>1, <1>2 DEF Runs, NoRun
<1>4. run' = [run EXCEPT ![w] = new]
  BY DEF Done
<1>5. QED
  BY <1>1, <1>3, <1>4, HandlerGoesOn

LEMMA RunAwaits ==
  ASSUME BuildInv, NEW w \in All, commits' = commits,
         NEW step \in {"ref", "find", "base", "branch", "compare", "pull"}, Step(w, step)
  PROVE  BuildInv' /\ Spares
<1> DEFINE new == [run[w] EXCEPT !.step = step]
<1>1. run[w] \in Runs /\ run[w].reviewed \in 0..Top
  BY DEF BuildInv
<1>2. new \in Runs /\ new.reviewed = run[w].reviewed /\ new.step = step
  BY <1>1 DEF Runs
<1>3. run' = [run EXCEPT ![w] = new]
  BY DEF Step
<1>4. QED
  BY <1>1, <1>2, <1>3, HandlerGoesOn

\* The new tree differs from its base only where the handler may write.
LEMMA TreeConfined ==
  ASSUME BuildInv, NEW w \in All, run[w].step = "build"
  PROVE  /\ NewTree(w, commits[run[w].base]) \in Trees
         /\ Confined(w, NewTree(w, commits[run[w].base]), commits[run[w].base])
<1>1. commits[run[w].base] \in Trees /\ (w \in Setups => run[w].base = run[w].reviewed)
  BY DEF BuildInv, Top
<1>2. NewTree(w, commits[run[w].base]) \in Trees
  BY <1>1 DEF NewTree, Trees, Contents
<1>3. SUFFICES ASSUME NEW p \in Paths,
                      p \notin Owned(w) \/ (w \in Setups /\ commits[run[w].base][p] # "none")
               PROVE  NewTree(w, commits[run[w].base])[p] = commits[run[w].base][p]
  BY <1>2 DEF Confined
<1>4. p \notin Written(w)
  BY <1>1, <1>3 DEF Written, Create, Owned
<1>5. p \notin Deleted(w, commits[run[w].base])
  BY <1>3 DEF Deleted, Owned
<1>6. QED
  BY <1>4, <1>5 DEF NewTree

LEMMA BuildKept ==
  ASSUME CommitAssumption, BuildInv, [CommitNext]_gitVars
  PROVE  BuildInv' /\ Spares
<1>1. CASE UNCHANGED gitVars
  BY <1>1 DEF gitVars, BuildInv, Spares, Moved, Confined, Owned, Top
<1>2. ASSUME NEW w \in Writers, StartCommit(w) PROVE BuildInv' /\ Spares
  BY <1>2, RunAwaits DEF StartCommit, All
<1>3. ASSUME NEW w \in Setups, Inspect(w) PROVE BuildInv' /\ Spares
  <2> DEFINE new == [run[w] EXCEPT !.reviewed = Top]
  <2>1. run[w] \in Runs /\ Top \in 0..MaxCommits /\ w \in All /\ Top \in 0..Top
    BY DEF BuildInv, All, CommitIds, CommitAssumption
  <2>2. new \in Runs /\ new.reviewed = Top /\ new.step = "idle"
    BY <1>3, <2>1 DEF Runs, Inspect
  <2>3. run' = [run EXCEPT ![w] = new] /\ commits' = commits
    BY <1>3 DEF Inspect
  <2>4. QED
    BY <2>1, <2>2, <2>3, HandlerGoesOn
<1>4. ASSUME NEW w \in Setups,
             \/ StartSetup(w) \/ StartProposal(w) \/ FindSetupPull(w) \/ CheckSetupBase(w)
             \/ CreateSetupBranch(w) \/ CompareSetupBranch(w) \/ OpenSetupPull(w)
      PROVE  BuildInv' /\ Spares
  <2>1. w \in All /\ commits' = commits
    BY <1>4 DEF All, StartSetup, StartProposal, FindSetupPull, CheckSetupBase, CreateSetupBranch,
       CompareSetupBranch, OpenSetupPull
  <2>2. \/ Done(w)
        \/ \E step \in {"ref", "find", "base", "branch", "compare", "pull"} : Step(w, step)
    BY <1>4 DEF StartSetup, StartProposal, FindSetupPull, CheckSetupBase, CreateSetupBranch,
       CompareSetupBranch, OpenSetupPull
  <2>3. QED
    BY <2>1, <2>2, RunStops, RunAwaits
<1>5. ASSUME NEW w \in All, ReadRef(w) PROVE BuildInv' /\ Spares
  <2>1. CASE HeadExpected(w)
    <3> DEFINE new == [run[w] EXCEPT !.step = "build", !.base = Top]
    <3>1. run[w] \in Runs /\ run[w].reviewed \in 0..Top /\ Top \in 0..MaxCommits
      BY DEF BuildInv, CommitIds, CommitAssumption
    <3>2. new \in Runs /\ new.reviewed = run[w].reviewed /\ new.step = "build" /\ new.base = Top
      BY <3>1 DEF Runs
    <3>3. run' = [run EXCEPT ![w] = new] /\ commits' = commits
      BY <1>5, <2>1 DEF ReadRef
    <3>4. Top \in 1..Top
      BY DEF BuildInv, CommitIds, CommitAssumption
    <3>5. QED
      BY <2>1, <3>1, <3>2, <3>3, <3>4, HandlerGoesOn DEF HeadExpected
  <2>2. QED
    BY <1>5, <2>1, RunStops DEF ReadRef
<1>6. ASSUME NEW w \in All, BuildCommit(w) PROVE BuildInv' /\ Spares
  <2> DEFINE tree == NewTree(w, commits[run[w].base])
             new == [run[w] EXCEPT !.step = "move", !.tree = tree]
  <2>1. commits' = commits /\ run[w].step = "build"
    BY <1>6 DEF BuildCommit
  <2>2. tree \in Trees /\ Confined(w, tree, commits[run[w].base])
    BY <2>1, TreeConfined
  <2>3. CASE Done(w)
    BY <2>1, <2>3, RunStops
  <2>4. CASE run' = [run EXCEPT ![w].step = "move", ![w].tree = tree]
    <3>1. run[w] \in Runs /\ run[w].reviewed \in 0..Top
          /\ run[w].base \in 1..Top /\ (w \in Setups => run[w].base = run[w].reviewed)
      BY <2>1 DEF BuildInv
    <3>2. new \in Runs /\ new.reviewed = run[w].reviewed /\ new.step = "move"
          /\ new.base = run[w].base /\ new.tree = tree
      BY <2>2, <3>1 DEF Runs
    <3>3. run' = [run EXCEPT ![w] = new]
      BY <2>4
    <3>4. QED
      BY <2>1, <2>2, <3>1, <3>2, <3>3, HandlerGoesOn
  <2>5. QED
    BY <1>6, <2>3, <2>4 DEF BuildCommit
<1>7. ASSUME NEW w \in All, MoveBranch(w) PROVE BuildInv' /\ Spares
  <2>1. CASE commits' = commits
    BY <1>7, <2>1, RunStops DEF MoveBranch
  <2>2. CASE FastForward(w) /\ Top < MaxCommits /\ commits' = Append(commits, run[w].tree)
    <3> DEFINE new == [NoRun EXCEPT !.reviewed = run[w].reviewed]
    <3>1. run[w] \in Runs /\ run[w].tree \in Trees /\ run[w].step = "move"
          /\ Confined(w, run[w].tree, commits[Top])
      BY <1>7, <2>2 DEF MoveBranch, BuildInv, Runs, FastForward
    <3>2. /\ commits' \in Seq(Trees) /\ Top' = Top + 1 /\ commits'[Top'] = run[w].tree
          /\ Top \in Nat /\ \A i \in 1..Top : commits'[i] = commits[i]
      BY <2>2, <3>1, BranchGrows
    <3>3. NoRun \in Runs
      BY DEF NoRun, Runs, Trees, Contents, CommitAssumption
    <3>4. new \in Runs /\ new.step = "idle" /\ new.reviewed = run[w].reviewed
      BY <3>1, <3>3 DEF Runs, NoRun
    <3>5. /\ run' \in [All -> Runs] /\ run'[w] = new
          /\ \A x \in All \ {w} : run'[x] = run[x]
      BY <1>7, <3>4 DEF MoveBranch, Done, BuildInv
    <3>6. BuildInv'
      <4>1. ASSUME NEW x \in All \ {w}
            PROVE  /\ run'[x].reviewed \in 0..Top'
                   /\ run'[x].step \in {"build", "move"} =>
                        /\ run'[x].base \in 1..Top'
                        /\ x \in Setups => run'[x].base = run'[x].reviewed
                   /\ run'[x].step = "move" =>
                        Confined(x, run'[x].tree, commits'[run'[x].base])
        BY <3>2, <3>5 DEF BuildInv, Confined
      <4>2. run'[w].reviewed \in 0..Top' /\ run'[w].step = "idle"
        BY <3>2, <3>4, <3>5 DEF BuildInv
      <4>3. commits' \in Seq(Trees) /\ Top' \in CommitIds /\ run' \in [All -> Runs]
        BY <2>2, <3>2, <3>5 DEF CommitAssumption, CommitIds
      <4>4. QED
        BY <4>1, <4>2, <4>3 DEF BuildInv, Confined, Owned
    <3>7. Spares
      <4>1. \A x \in All : Moved(x) => x = w
        BY <3>5 DEF Moved
      <4>2. QED
        BY <3>1, <3>2, <4>1 DEF Spares, Confined
    <3>8. QED
      BY <3>6, <3>7
  <2>3. QED
    BY <1>7, <2>1, <2>2 DEF MoveBranch
<1>8. ASSUME NEW w \in All, RunEnds(w) PROVE BuildInv' /\ Spares
  BY <1>8, RunStops DEF RunEnds
<1>9. ASSUME NEW p \in Paths, NEW c \in {"none", "owner"}, OwnerCommits(p, c)
      PROVE  BuildInv' /\ Spares
  <2> DEFINE t == [commits[Top] EXCEPT ![p] = c]
  <2>1. commits[Top] \in Trees
    BY DEF BuildInv, CommitIds, CommitAssumption, Top
  <2>2. t \in Trees
    BY <2>1 DEF Trees, Contents
  <2>3. run' = run /\ Top < MaxCommits /\ commits' = Append(commits, t)
    BY <1>9 DEF OwnerCommits
  <2>4. /\ commits' \in Seq(Trees) /\ Top' = Top + 1
        /\ Top \in Nat /\ \A i \in 1..Top : commits'[i] = commits[i]
    BY <2>2, <2>3, BranchGrows
  <2>5. Top' \in CommitIds
    BY <2>3, <2>4 DEF CommitIds, CommitAssumption
  <2>6. BuildInv'
    <3>1. ASSUME NEW x \in All
          PROVE  /\ run'[x].reviewed \in 0..Top'
                 /\ run'[x].step \in {"build", "move"} =>
                      /\ run'[x].base \in 1..Top'
                      /\ x \in Setups => run'[x].base = run'[x].reviewed
                 /\ run'[x].step = "move" =>
                      Confined(x, run'[x].tree, commits'[run'[x].base])
      <4>1. run'[x] = run[x] /\ run[x].reviewed \in 0..Top
        BY <2>3 DEF BuildInv
      <4>2. ASSUME run[x].step \in {"build", "move"}
            PROVE  /\ run[x].base \in 1..Top /\ commits'[run[x].base] = commits[run[x].base]
                   /\ x \in Setups => run[x].base = run[x].reviewed
        BY <2>4, <4>2 DEF BuildInv
      <4>3. run[x].step = "move" => Confined(x, run[x].tree, commits'[run[x].base])
        BY <4>2 DEF BuildInv
      <4>4. QED
        BY <2>4, <4>1, <4>2, <4>3 DEF Confined, Owned
    <3>2. commits' \in Seq(Trees) /\ run' \in [All -> Runs]
      BY <2>3, <2>4 DEF BuildInv
    <3>3. QED
      BY <2>5, <3>1, <3>2 DEF BuildInv, Confined, Owned
  <2>7. QED
    BY <2>3, <2>6 DEF Spares, Moved
<1>10. ASSUME NEW c \in CommitIds, OwnerChangesProposal(c) PROVE BuildInv' /\ Spares
  BY <1>10 DEF OwnerChangesProposal, BuildInv, Spares, Moved, Confined, Owned, Top
<1>11. QED
  BY <1>1, <1>2, <1>3, <1>4, <1>5, <1>6, <1>7, <1>8, <1>9, <1>10 DEF CommitNext, All

\* Whoever else commits while a handler builds its commit, the branch loses nothing outside the
\* paths the handler writes, and a setup overwrites no file that main has (github-app.service
\* commitFilesAtomic, source-setup createMissing).
THEOREM CommitsSpare == CommitSpec => NothingOverwritten
<1>1. CommitInit => BuildInv
  BY CommitAssumption, BuildBegins
<1>2. BuildInv /\ [CommitNext]_gitVars => BuildInv'
  BY CommitAssumption, BuildKept
<1>3. BuildInv /\ [CommitNext]_gitVars => [Spares]_gitVars
  BY CommitAssumption, BuildKept
<1>4. QED
  BY <1>1, <1>2, <1>3, PTL DEF CommitSpec, NothingOverwritten, Spares, All

-----------------------------------------------------------------------------
(* Pull requests of a source setup                                         *)

\* The mutation lock of an account lets one handler of its setup run at a time.
OneHandler == \A s, t \in Setups : s = t

\* A plan has a pull request exactly when one was opened, and past the search for it there
\* is none.
PullInv ==
  /\ request \in [CommitIds -> {"none", "open", "closed"}]
  /\ requested \in [CommitIds -> Nat]
  /\ \A c \in CommitIds : requested[c] = IF request[c] = "none" THEN 0 ELSE 1
  /\ \A w \in Setups : run[w].step \in {"find", "base", "branch", "compare", "pull"} =>
       /\ run[w].reviewed \in CommitIds
       /\ run[w].step # "find" => request[run[w].reviewed] = "none"

\* Steps that open no pull request, and lead to none but after a search.
LEMMA PullsStay ==
  ASSUME PullInv, requested' = requested,
         \/ request' = request
         \/ \E c \in CommitIds : request[c] = "open" /\ request' = [request EXCEPT ![c] = "closed"],
         \A w \in Setups : run'[w].step \in {"find", "base", "branch", "compare", "pull"} =>
           /\ run'[w].reviewed \in CommitIds
           /\ run'[w].step # "find" => request[run'[w].reviewed] = "none"
  PROVE  PullInv'
<1>1. request' \in [CommitIds -> {"none", "open", "closed"}]
  BY DEF PullInv
<1>2. \A c \in CommitIds : request'[c] = "none" <=> request[c] = "none"
  BY DEF PullInv
<1>3. QED
  BY <1>1, <1>2 DEF PullInv

LEMMA PullKept ==
  ASSUME CommitAssumption, OneHandler, BuildInv, BuildInv', PullInv, [CommitNext]_gitVars
  PROVE  PullInv'
<1> DEFINE Pulling == {"find", "base", "branch", "compare", "pull"}
           Found(w) == run'[w].step \in Pulling =>
             /\ run'[w].reviewed \in CommitIds
             /\ run'[w].step # "find" => request[run'[w].reviewed] = "none"
<1>1. CASE UNCHANGED gitVars
  BY <1>1 DEF gitVars, PullInv
<1>2. ASSUME NEW w \in All, UNCHANGED <<request, requested>>,
             \A x \in All \ {w} : run'[x] = run[x], w \in Setups => Found(w)
      PROVE  PullInv'
  <2>1. \A x \in Setups : Found(x)
    BY <1>2 DEF PullInv, All
  <2>2. QED
    BY <1>2, <2>1, PullsStay
<1>3. ASSUME NEW w \in All, UNCHANGED <<request, requested>>, Done(w) PROVE PullInv'
  <2>1. run'[w].step = "idle" /\ \A x \in All \ {w} : run'[x] = run[x]
    BY <1>3 DEF Done, NoRun, BuildInv
  <2>2. QED
    BY <1>2, <1>3, <2>1
<1>4. ASSUME NEW w \in All, UNCHANGED <<request, requested>>, NEW step, Step(w, step),
             w \in Setups /\ step \in Pulling =>
               /\ run[w].reviewed \in CommitIds
               /\ step # "find" => request[run[w].reviewed] = "none"
      PROVE  PullInv'
  <2>1. /\ run'[w].step = step /\ run'[w].reviewed = run[w].reviewed
        /\ \A x \in All \ {w} : run'[x] = run[x]
    BY <1>4 DEF Step, BuildInv, Runs
  <2>2. QED
    BY <1>2, <1>4, <2>1
<1>5. ASSUME NEW w \in Writers, StartCommit(w) PROVE PullInv'
  BY <1>4, <1>5 DEF StartCommit, pulls, All
<1>6. ASSUME NEW w \in Setups, Inspect(w) PROVE PullInv'
  <2>1. run'[w].step = "idle" /\ \A x \in All \ {w} : run'[x] = run[x]
    BY <1>6 DEF Inspect, BuildInv, All, Runs
  <2>2. QED
    BY <1>2, <1>6, <2>1 DEF Inspect, pulls, All
<1>7. ASSUME NEW w \in Setups, StartSetup(w) \/ StartProposal(w) PROVE PullInv'
  <2>1. run[w].reviewed \in CommitIds
    BY <1>7 DEF StartSetup, StartProposal, BuildInv
  <2>2. QED
    BY <1>4, <1>7, <2>1 DEF StartSetup, StartProposal, pulls, All
<1>8. ASSUME NEW w \in Setups,
             FindSetupPull(w) \/ CheckSetupBase(w) \/ CreateSetupBranch(w) \/ CompareSetupBranch(w)
      PROVE  PullInv'
  <2>1. /\ run[w].reviewed \in CommitIds
        /\ request[run[w].reviewed] = "none" \/ Done(w)
    BY <1>8 DEF FindSetupPull, PullOfPlan, CheckSetupBase, CreateSetupBranch, CompareSetupBranch,
       PullInv
  <2>2. Done(w) \/ \E step \in Pulling : Step(w, step)
    BY <1>8 DEF FindSetupPull, CheckSetupBase, CreateSetupBranch, CompareSetupBranch
  <2>3. UNCHANGED <<request, requested>> /\ w \in All
    BY <1>8 DEF FindSetupPull, CheckSetupBase, CreateSetupBranch, CompareSetupBranch, pulls, All
  <2>4. QED
    BY <1>3, <1>4, <2>1, <2>2, <2>3
<1>9. ASSUME NEW w \in Setups, OpenSetupPull(w) PROVE PullInv'
  <2> DEFINE c == run[w].reviewed
  <2>1. c \in CommitIds /\ request[c] = "none" /\ requested[c] = 0
    BY <1>9 DEF OpenSetupPull, PullInv
  <2>2. /\ request' = [request EXCEPT ![c] = "open"]
        /\ requested' = [requested EXCEPT ![c] = @ + 1]
    BY <1>9, <2>1 DEF OpenSetupPull
  <2>3. run'[w].step = "idle"
    BY <1>9 DEF OpenSetupPull, Done, NoRun, BuildInv, All
  <2>4. \A x \in Setups : run'[x].step = "idle"
    BY <2>3 DEF OneHandler
  <2>5. QED
    BY <2>1, <2>2, <2>4 DEF PullInv
<1>10. ASSUME NEW w \in All, ReadRef(w) \/ BuildCommit(w) PROVE PullInv'
  <2>1. CASE Done(w)
    BY <1>3, <1>10, <2>1 DEF ReadRef, BuildCommit, pulls
  <2>2. CASE ~Done(w)
    <3>1. run'[w].step \in {"build", "move"} /\ \A x \in All \ {w} : run'[x] = run[x]
      BY <1>10, <2>2 DEF ReadRef, BuildCommit, BuildInv, Runs
    <3>2. QED
      BY <1>2, <1>10, <3>1 DEF ReadRef, BuildCommit, pulls
  <2>3. QED
    BY <2>1, <2>2
<1>11. ASSUME NEW w \in All, MoveBranch(w) \/ RunEnds(w) PROVE PullInv'
  BY <1>3, <1>11 DEF MoveBranch, RunEnds, pulls
<1>12. ASSUME NEW p \in Paths, NEW c \in {"none", "owner"}, OwnerCommits(p, c) PROVE PullInv'
  BY <1>12 DEF OwnerCommits, pulls, PullInv
<1>13. ASSUME NEW c \in CommitIds, OwnerChangesProposal(c) PROVE PullInv'
  BY <1>13, PullsStay DEF OwnerChangesProposal, PullInv
<1>14. QED
  BY <1>1, <1>5, <1>6, <1>7, <1>8, <1>9, <1>10, <1>11, <1>12, <1>13 DEF CommitNext, All

\* However often the user asks and whatever answers are lost, one plan of a source setup leads to
\* one pull request, given that one request of the account runs at a time (source-setup createPr,
\* mutation.lock).
THEOREM OneSetupPullPerPlan == OneHandler /\ CommitSpec => []OneSetupPull
<1>1. CommitInit => BuildInv /\ PullInv
  BY CommitAssumption, BuildBegins DEF CommitInit, PullInv, NoRun, CommitIds, All
<1>2. OneHandler /\ BuildInv /\ PullInv /\ [CommitNext]_gitVars => BuildInv' /\ PullInv'
  BY CommitAssumption, BuildKept, PullKept
<1>3. OneHandler => OneHandler'
  BY DEF OneHandler
<1>4. PullInv => OneSetupPull
  BY DEF PullInv, OneSetupPull
<1>5. QED
  BY <1>1, <1>2, <1>3, <1>4, PTL DEF CommitSpec

-----------------------------------------------------------------------------
(* The plan that was agreed to                                             *)

PageRequestRecords ==
  [step : {"none", "sent", "reviewed", "done", "refused"}, plan : Plans, agreed : Plans,
   mounted : BOOLEAN]
Triggers == [consent : BOOLEAN, pending : BOOLEAN, done : BOOLEAN]

\* The box is ticked only over the plan it was ticked for, and a request carries that plan.
AgreedInv ==
  /\ PageTypeOK
  /\ trigger.consent => ticked = ShownPlan
  /\ \A q \in PageRequests : pageRequest[q].plan = pageRequest[q].agreed
  /\ ChangedAsAgreed

LEMMA ShownPlanOK == ASSUME PageAssumption, PageTypeOK PROVE ShownPlan \in Plans
BY DEF PageAssumption, PageTypeOK, ShownPlan, Mounted, Plans, NoPlan, Heads

\* The effects of a new page: the box survives only beside the very plan it was beside before.
LEMMA RendersOK ==
  ASSUME PageAssumption, AgreedInv,
         NEW m \in {"loading", "anonymous", "gated", "open"}, NEW s \in Repos \cup {NoRepo},
         NEW p \in [Repos -> {"loading", "passed", "blocked"}], NEW pl \in [Repos -> Heads],
         Renders(m, s, p, pl),
         head' \in [Repos -> 1..MaxHeads], access' \in {"anonymous", "gated", "open"},
         planFails' \subseteq Repos, modal' \in {"idle", "pending"}, UNCHANGED history
  PROVE  AgreedInv'
<1>1. me' = m /\ selected' = s /\ preview' = p /\ plan' = pl
  BY DEF Renders
<1>2. trigger' \in Triggers
  BY DEF Renders, AgreedInv, PageTypeOK, Triggers, Untouched
<1>3. pageRequest' \in [PageRequests -> PageRequestRecords]
      /\ \A q \in PageRequests : pageRequest'[q].plan = pageRequest'[q].agreed
  <2>1. pageRequest \in [PageRequests -> PageRequestRecords]
    BY DEF AgreedInv, PageTypeOK, PageRequestRecords
  <2>2. ASSUME NEW q \in PageRequests
        PROVE  /\ [pageRequest[q] EXCEPT !.mounted = FALSE] \in PageRequestRecords
               /\ [pageRequest[q] EXCEPT !.mounted = FALSE].plan = pageRequest[q].plan
               /\ [pageRequest[q] EXCEPT !.mounted = FALSE].agreed = pageRequest[q].agreed
    BY <2>1 DEF PageRequestRecords
  <2>3. \/ pageRequest' = pageRequest
        \/ pageRequest' = [q \in PageRequests |-> [pageRequest[q] EXCEPT !.mounted = FALSE]]
    BY DEF Renders
  <2>4. \A q \in PageRequests : pageRequest[q].plan = pageRequest[q].agreed
    BY DEF AgreedInv
  <2>5. CASE pageRequest' = pageRequest
    BY <2>1, <2>4, <2>5
  <2>6. CASE pageRequest' = [q \in PageRequests |-> [pageRequest[q] EXCEPT !.mounted = FALSE]]
    BY <2>2, <2>4, <2>6
  <2>7. QED
    BY <2>3, <2>5, <2>6
<1>4. PageTypeOK'
  BY <1>1, <1>2, <1>3 DEF AgreedInv, PageTypeOK, history, Triggers, PageRequestRecords
<1>5. ASSUME trigger'.consent PROVE ticked' = ShownPlan'
  <2>1. Mounted(m, s, p) /\ TriggerKept(s, pl) /\ trigger' = trigger
    BY <1>5 DEF Renders, Untouched
  <2>2. ShownPlan' = [repo |-> s, head |-> pl[s]]
    BY <1>1, <2>1 DEF ShownPlan
  <2>3. ShownPlan = [repo |-> s, head |-> pl[s]]
    BY <2>1 DEF TriggerKept, ShownPlan, NoPlan, Mounted
  <2>4. QED
    BY <1>5, <2>1, <2>2, <2>3 DEF AgreedInv, history
<1>6. QED
  BY <1>3, <1>4, <1>5 DEF AgreedInv, ChangedAsAgreed, history

LEMMA AgreedBegins == ASSUME PageAssumption, PageInit PROVE AgreedInv
BY DEF PageAssumption, PageInit, AgreedInv, PageTypeOK, ChangedAsAgreed, Heads, Plans, NoPlan,
       Untouched, NoRequest

\* Requests and answers: the page and the history of the box stay.
LEMMA RequestsMove ==
  ASSUME PageAssumption, AgreedInv, NEW q \in PageRequests, NEW r \in PageRequestRecords,
         r.plan = r.agreed, pageRequest' = [pageRequest EXCEPT ![q] = r],
         trigger' \in Triggers, trigger'.consent => trigger.consent,
         UNCHANGED <<head, access, me, selected, preview, plan, planFails, modal, ticked>>,
         changed' \in [from : Plans, agreed : Plans], changed'.from = changed'.agreed
  PROVE  AgreedInv'
<1>1. pageRequest \in [PageRequests -> PageRequestRecords]
  BY DEF AgreedInv, PageTypeOK, PageRequestRecords
<1>2. pageRequest' \in [PageRequests -> PageRequestRecords]
  BY <1>1
<1>3. PageTypeOK'
  BY <1>2 DEF AgreedInv, PageTypeOK, Triggers, PageRequestRecords
<1>4. ShownPlan' = ShownPlan
  BY DEF ShownPlan
<1>5. \A p \in PageRequests : pageRequest'[p].plan = pageRequest'[p].agreed
  BY <1>1 DEF AgreedInv
<1>6. QED
  BY <1>3, <1>4, <1>5 DEF AgreedInv, ChangedAsAgreed

\* Steps of the page that leave what it shows and its requests alone.
LEMMA PageWaits ==
  ASSUME PageAssumption, AgreedInv, head' \in [Repos -> 1..MaxHeads],
         access' \in {"anonymous", "gated", "open"}, planFails' \subseteq Repos,
         modal' \in {"idle", "pending"}, trigger' \in Triggers, ticked' \in Plans,
         trigger'.consent => ticked' = ShownPlan,
         UNCHANGED <<me, selected, preview, plan, pageRequest, changed>>
  PROVE  AgreedInv'
<1>1. ShownPlan' = ShownPlan
  BY DEF ShownPlan
<1>2. PageTypeOK'
  BY DEF AgreedInv, PageTypeOK, Triggers
<1>3. QED
  BY <1>1, <1>2 DEF AgreedInv, ChangedAsAgreed

LEMMA AgreedKept ==
  ASSUME PageAssumption, AgreedInv, [PageNext]_pageVars PROVE AgreedInv'
<1>1. PageTypeOK /\ trigger \in Triggers /\ ticked \in Plans /\ ShownPlan \in Plans
  BY ShownPlanOK DEF AgreedInv, PageTypeOK, Triggers
<1>2. pageRequest \in [PageRequests -> PageRequestRecords]
  BY <1>1 DEF PageTypeOK, PageRequestRecords
<1>chg. changed \in [from : Plans, agreed : Plans] /\ changed.from = changed.agreed
  BY DEF AgreedInv, PageTypeOK, ChangedAsAgreed
<1>3. CASE UNCHANGED pageVars
  BY <1>1, <1>3, PageWaits DEF pageVars, PageTypeOK, AgreedInv
<1>4. ASSUME NEW r \in Repos, PushRepo(r) PROVE AgreedInv'
  <2>1. head' \in [Repos -> 1..MaxHeads]
    BY <1>1, <1>4 DEF PushRepo, PageTypeOK, PageAssumption
  <2>2. QED
    BY <1>1, <1>4, <2>1, PageWaits DEF PushRepo, history, PageTypeOK, AgreedInv
<1>5. ASSUME NEW a \in {"anonymous", "gated", "open"}, AccessChanges(a) PROVE AgreedInv'
  BY <1>1, <1>5, PageWaits DEF AccessChanges, history, PageTypeOK, AgreedInv
<1>6. CASE ReadMe
  BY <1>1, <1>6, RendersOK DEF ReadMe, PageTypeOK, history
<1>7. CASE PageLogout
  BY <1>1, <1>7, RendersOK DEF PageLogout, PageTypeOK, history
<1>8. ASSUME NEW s \in Repos \cup {NoRepo}, Select(s) PROVE AgreedInv'
  BY <1>1, <1>8, RendersOK DEF Select, PageTypeOK, history
<1>9. ASSUME NEW r \in Repos, PreviewArrives(r) PROVE AgreedInv'
  <2>1. PICK p \in {"passed", "blocked"} :
          Renders(me, selected, [preview EXCEPT ![r] = p], plan)
    BY <1>9 DEF PreviewArrives
  <2>2. [preview EXCEPT ![r] = p] \in [Repos -> {"loading", "passed", "blocked"}]
    BY <1>1 DEF PageTypeOK
  <2>3. QED
    BY <1>1, <1>9, <2>1, <2>2, RendersOK DEF PreviewArrives, PageTypeOK, history
<1>10. CASE PlanArrives
  <2>1. [plan EXCEPT ![selected] = head[selected]] \in [Repos -> Heads]
    BY <1>1, <1>10 DEF PlanArrives, Mounted, PageTypeOK, Heads, PageAssumption
  <2>2. QED
    BY <1>1, <1>10, <2>1, RendersOK DEF PlanArrives, PageTypeOK, history
<1>11. CASE PlanFails
  BY <1>1, <1>11, PageWaits DEF PlanFails, Mounted, history, PageTypeOK, AgreedInv
<1>12. CASE AskAgain
  BY <1>1, <1>12, PageWaits DEF AskAgain, history, PageTypeOK, Triggers, AgreedInv
<1>13. CASE TickConsent
  <2>1. trigger' \in Triggers /\ trigger'.consent = ~trigger.consent
    BY <1>1, <1>13 DEF TickConsent, Triggers
  <2>2. ticked' \in Plans /\ (trigger'.consent => ticked' = ShownPlan)
    BY <1>1, <1>13, <2>1 DEF TickConsent, Triggers, Plans, NoPlan, Heads, PageAssumption
  <2>3. QED
    BY <1>1, <1>13, <2>1, <2>2, PageWaits DEF TickConsent, PageTypeOK
<1>14. ASSUME NEW q \in PageRequests, Deploy(q) PROVE AgreedInv'
  <2> DEFINE r == [step |-> "sent", plan |-> ShownPlan, agreed |-> ticked, mounted |-> TRUE]
  <2>1. r \in PageRequestRecords /\ r.plan = r.agreed
    BY <1>1, <1>14 DEF Deploy, canDeploy, PageRequestRecords, AgreedInv
  <2>2. trigger' \in Triggers /\ trigger'.consent = trigger.consent
    BY <1>1, <1>14 DEF Deploy, Triggers
  <2>3. pageRequest' = [pageRequest EXCEPT ![q] = r]
    BY <1>14 DEF Deploy
  <2> HIDE DEF r
  <2>4. UNCHANGED <<head, access, me, selected, preview, plan, planFails, modal, ticked, changed>>
    BY <1>14 DEF Deploy, history
  <2>5. changed' \in [from : Plans, agreed : Plans] /\ changed'.from = changed'.agreed
    BY <1>chg, <2>4
  <2>6. QED
    BY <2>1, <2>2, <2>3, <2>4, <2>5, RequestsMove
<1>15. ASSUME NEW q \in PageRequests, AnswerArrives(q) PROVE AgreedInv'
  <2>1. NoRequest \in PageRequestRecords /\ NoRequest.plan = NoRequest.agreed
    BY DEF NoRequest, PageRequestRecords, Plans, NoPlan, Heads, PageAssumption
  <2>2. trigger' \in Triggers /\ (trigger'.consent => trigger.consent)
    BY <1>1, <1>15 DEF AnswerArrives, Triggers
  <2>3. QED
    BY <1>15, <1>chg, <2>1, <2>2, RequestsMove DEF AnswerArrives, history
<1>16. ASSUME NEW q \in PageRequests, ReviewPlan(q) PROVE AgreedInv'
  <2>1. PICK step \in {"reviewed", "refused"} :
          pageRequest' = [pageRequest EXCEPT ![q] = [pageRequest[q] EXCEPT !.step = step]]
    BY <1>16 DEF ReviewPlan
  <2>2. [pageRequest[q] EXCEPT !.step = step] \in PageRequestRecords
        /\ [pageRequest[q] EXCEPT !.step = step].plan = [pageRequest[q] EXCEPT !.step = step].agreed
    BY <1>2 DEF PageRequestRecords, AgreedInv
  <2>3. QED
    BY <1>1, <1>16, <1>chg, <2>1, <2>2, RequestsMove DEF ReviewPlan, server
<1>17. ASSUME NEW q \in PageRequests, Change(q) PROVE AgreedInv'
  <2>1. PICK step \in {"done", "refused"} :
          pageRequest' = [pageRequest EXCEPT ![q] = [pageRequest[q] EXCEPT !.step = step]]
    BY <1>17 DEF Change
  <2>2. [pageRequest[q] EXCEPT !.step = step] \in PageRequestRecords
        /\ [pageRequest[q] EXCEPT !.step = step].plan = [pageRequest[q] EXCEPT !.step = step].agreed
    BY <1>2 DEF PageRequestRecords, AgreedInv
  <2>3. changed' \in [from : Plans, agreed : Plans] /\ changed'.from = changed'.agreed
    <3>1. CASE ~assertReviewed(q)
      BY <1>1, <1>17, <3>1 DEF Change, AgreedInv, PageTypeOK, ChangedAsAgreed
    <3>2. CASE assertReviewed(q)
      <4>1. pageRequest[q].plan \in Plans /\ pageRequest[q].plan = pageRequest[q].agreed
        BY <1>2 DEF PageRequestRecords, AgreedInv
      <4>2. changed' = [from |-> [repo |-> pageRequest[q].plan.repo,
                                  head |-> pageRequest[q].plan.head],
                        agreed |-> pageRequest[q].agreed]
        BY <1>17, <3>2 DEF Change, assertReviewed
      <4>3. QED
        BY <4>1, <4>2 DEF Plans
    <3>3. QED
      BY <3>1, <3>2
  <2>4. QED
    BY <1>1, <1>17, <2>1, <2>2, <2>3, RequestsMove DEF Change, server
<1>18. CASE ConfirmDeletion
  BY <1>1, <1>18, PageWaits DEF ConfirmDeletion, history, PageTypeOK, AgreedInv
<1>19. CASE AccountDeleted
  BY <1>1, <1>19, RendersOK DEF AccountDeleted, PageTypeOK, history
<1>20. CASE DeletionFails
  BY <1>1, <1>20, PageWaits DEF DeletionFails, history, PageTypeOK, AgreedInv
<1>21. QED
  BY <1>3, <1>4, <1>5, <1>6, <1>7, <1>8, <1>9, <1>10, <1>11, <1>12, <1>13, <1>14, <1>15,
     <1>16, <1>17, <1>18, <1>19, <1>20 DEF PageNext

\* A repository is changed only from the very plan that was shown when the user agreed,
\* whatever is fetched, selected or pushed in between (DeployTrigger, assertReviewed).
THEOREM AgreedOnly == PageSpec => []ChangedAsAgreed
<1>1. PageInit => AgreedInv
  BY PageAssumption, AgreedBegins
<1>2. AgreedInv /\ [PageNext]_pageVars => AgreedInv'
  BY PageAssumption, AgreedKept
<1>3. AgreedInv => ChangedAsAgreed
  BY DEF AgreedInv
<1>4. QED
  BY <1>1, <1>2, <1>3, PTL DEF PageSpec

-----------------------------------------------------------------------------
(* The variables that were reported as saved                               *)

Namespaces == [granted : BOOLEAN, deployed : BOOLEAN, secret : Versions, running : Versions,
               starting : BOOLEAN]

PutRecords == [tab : AppTabs \cup {NoTab}, step : 0..4, version : Versions]

\* The pods have a version or a newer one, or are to start, or there is none.
Reached(v, n) == v <= n.running \/ n.starting \/ ~n.deployed

\* Secrets are numbered as they are written; a save that is being served is of this app from
\* its second call on, and once the pods were asked to restart its values are on their way.
SavedInv ==
  /\ saves \in Versions /\ promised \in Versions /\ namespace \in Namespaces
  /\ namespace.secret <= saves /\ promised <= namespace.secret
  /\ Reached(promised, namespace)
  /\ put \in PutRecords
  /\ put = NoPut \/ put.step # 0
  /\ put.step \in 2..4 => registered = "this"
  /\ put.step \in 3..4 => put.version <= namespace.secret
  /\ put.step = 4 => Reached(put.version, namespace)

LEMMA CallsAre ==
  ASSUME put \in PutRecords, put = NoPut \/ put.step # 0
  PROVE  /\ Calling("current") => put.step = 1
         /\ Calling("replace") => put.step = 2
         /\ Calling("restart") => put.step = 3
         /\ Calling("answer") => put.step = 4
BY DEF Calling, SetEnvCalls, NoPut, PutRecords

LEMMA NoPutOK ==
  ASSUME AppPageAssumption
  PROVE  NoPut \in PutRecords /\ NoPut.step = 0 /\ NoPut.version = 0 /\ Versions \subseteq Nat
BY DEF AppPageAssumption, NoPut, PutRecords, Versions

\* A step that leaves the namespace and what was promised alone.
LEMMA PutMoves ==
  ASSUME AppPageAssumption, SavedInv, UNCHANGED <<namespace, saves, promised>>,
         put' \in PutRecords,
         \/ UNCHANGED <<put, registered>>
         \/ put' = NoPut
         \/ put'.step = 1 /\ put'.version = 0
         \/ /\ put.step = 1 /\ put'.step = 2 /\ put'.version = put.version
            /\ registered = "this" /\ registered' = registered
  PROVE  SavedInv'
BY NoPutOK DEF SavedInv, Reached, PutRecords

LEMMA SavesBegin == ASSUME AppPageAssumption, AppPageInit PROVE SavedInv
BY NoPutOK DEF AppPageAssumption, AppPageInit, NoNamespace, SavedInv, Namespaces, Reached, Versions

LEMMA SavedKept ==
  ASSUME AppPageAssumption, SavedInv, [AppPageNext]_appPageVars PROVE SavedInv'
<1>1. ASSUME UNCHANGED <<namespace, saves, promised, put, registered>> PROVE SavedInv'
  BY <1>1, PutMoves DEF SavedInv
<1>2. CASE UNCHANGED appPageVars
  BY <1>1, <1>2 DEF appPageVars
<1>3. CASE SessionChanges
  BY <1>1, <1>3 DEF SessionChanges
<1>4. CASE RegistrationChanges
  BY <1>4, PutMoves, NoPutOK DEF RegistrationChanges
<1>5. CASE NamespaceSyncs
  BY <1>5 DEF NamespaceSyncs, SavedInv, Namespaces, Reached
<1>6. CASE NamespaceGoes
  BY <1>6, NoPutOK DEF NamespaceGoes, NoNamespace, SavedInv, Namespaces, Reached, Versions, AppPageAssumption
<1>7. CASE PodReadsSecret
  <2>1. /\ namespace'.starting = FALSE /\ namespace'.running = namespace.secret
        /\ namespace'.secret = namespace.secret /\ namespace' \in Namespaces
    BY <1>7 DEF PodReadsSecret, SavedInv, Namespaces
  <2>2. UNCHANGED <<saves, promised, put, registered>>
    BY <1>7 DEF PodReadsSecret
  <2>3. QED
    BY <2>1, <2>2 DEF SavedInv, Reached
<1>8. ASSUME NEW t \in AppTabs,
             PollStatus(t) \/ ReadEnv(t) \/ EditRows(t) \/ SaveRows(t) \/ PutAnswerLost(t) \/ Refetch(t)
      PROVE  SavedInv'
  BY <1>1, <1>8 DEF PollStatus, ReadEnv, EditRows, SaveRows, PutAnswerLost, Refetch
<1>9. ASSUME NEW t \in AppTabs, ServePut(t) PROVE SavedInv'
  <2>1. put' \in PutRecords /\ (UNCHANGED put \/ (put'.step = 1 /\ put'.version = 0))
    <3>1. UNCHANGED put \/ put' = [tab |-> t, step |-> 1, version |-> 0]
      BY <1>9 DEF ServePut, NoPut
    <3>2. 0 \in Versions
      BY DEF AppPageAssumption, Versions
    <3>3. QED
      BY <3>1, <3>2 DEF PutRecords, SavedInv
  <2>2. QED
    BY <1>9, <2>1, PutMoves DEF ServePut
<1>10. ASSUME NEW t \in AppTabs, RemoveApp(t) PROVE SavedInv'
  BY <1>10, PutMoves, NoPutOK DEF RemoveApp
<1>11. CASE CheckCurrent
  <2>1. put.step = 1
    BY <1>11, CallsAre DEF CheckCurrent, SavedInv
  <2>2. CASE registered = "this"
    <3>1. put' = [put EXCEPT !.step = 2] /\ put \in PutRecords
      BY <1>11, <2>1, <2>2 DEF CheckCurrent, NextCall, SavedInv
    <3>2. put' \in PutRecords /\ put'.step = 2 /\ put'.version = put.version
      BY <3>1 DEF PutRecords
    <3>3. QED
      BY <1>11, <2>1, <2>2, <3>2, PutMoves DEF CheckCurrent
  <2>3. CASE registered # "this"
    BY <1>11, <2>3, PutMoves, NoPutOK DEF CheckCurrent
  <2>4. QED
    BY <2>2, <2>3
<1>12. CASE ReplaceSecret
  <2> DEFINE s == saves + 1
  <2>1. s \in Versions /\ saves < s
    BY <1>12 DEF ReplaceSecret, SavedInv, Versions, AppPageAssumption
  <2>2. put.step = 2 /\ registered = "this" /\ UNCHANGED <<registered, promised>>
    BY <1>12, CallsAre DEF ReplaceSecret, SavedInv
  <2>3. namespace' = [namespace EXCEPT !.secret = s] /\ saves' = s
        /\ put' = [put EXCEPT !.step = 3, !.version = s]
    BY <1>12, <2>2 DEF ReplaceSecret, NextCall
  <2> HIDE DEF s
  <2>4. /\ namespace' \in Namespaces /\ namespace'.secret = s
        /\ namespace'.running = namespace.running /\ namespace'.starting = namespace.starting
        /\ namespace'.deployed = namespace.deployed
    BY <2>1, <2>3 DEF SavedInv, Namespaces
  <2>5. put' \in PutRecords /\ put'.step = 3 /\ put'.version = s
    <3>1. put \in PutRecords /\ 3 \in 0..4
      BY DEF SavedInv
    <3>2. put' = [tab |-> put.tab, step |-> 3, version |-> s]
      BY <2>3, <3>1 DEF PutRecords
    <3>3. QED
      BY <2>1, <3>1, <3>2 DEF PutRecords
  <2>6. promised \in Nat /\ saves \in Nat /\ s \in Nat /\ namespace.secret \in Nat
    BY <2>1, NoPutOK DEF SavedInv, Namespaces
  <2>7. promised <= s
    BY <2>1, <2>6 DEF SavedInv
  <2>8. Reached(promised', namespace')
    BY <2>2, <2>4 DEF SavedInv, Reached
  <2>9. /\ saves' \in Versions /\ promised' \in Versions
        /\ namespace'.secret <= saves' /\ promised' <= namespace'.secret
    BY <2>1, <2>2, <2>3, <2>4, <2>6, <2>7 DEF SavedInv
  <2>10. put'.step \in 2..4 => registered' = "this"
    BY <2>2
  <2>11. put'.version <= namespace'.secret
    BY <2>4, <2>5, <2>6
  <2>12. QED
    BY <2>4, <2>5, <2>8, <2>9, <2>10, <2>11 DEF SavedInv
<1>13. CASE PatchRestart
  BY <1>13, CallsAre DEF PatchRestart, NextCall, SavedInv, PutRecords, Namespaces, Reached
<1>14. CASE AnswerPut
  BY <1>14, CallsAre, NoPutOK DEF AnswerPut, SavedInv, PutRecords
<1>15. CASE PutFails
  BY <1>15, PutMoves, NoPutOK DEF PutFails
<1>16. QED
  BY <1>2, <1>3, <1>4, <1>5, <1>6, <1>7, <1>8, <1>9, <1>10, <1>11, <1>12, <1>13, <1>14, <1>15
     DEF AppPageNext

\* Values a page was told are saved are those the app runs with, or newer ones, or pods are to
\* start that have not read the Secret yet (EnvService.setEnv, EnvVarsPanel).
THEOREM AnsweredRuns == AppPageSpec => []AnsweredWillRun
<1>1. AppPageInit => SavedInv
  BY AppPageAssumption, SavesBegin
<1>2. SavedInv /\ [AppPageNext]_appPageVars => SavedInv'
  BY AppPageAssumption, SavedKept
<1>3. SavedInv => AnsweredWillRun
  BY DEF SavedInv, Reached, AnsweredWillRun
<1>4. QED
  BY <1>1, <1>2, <1>3, PTL DEF AppPageSpec

-----------------------------------------------------------------------------
(* Types                                                                   *)

LEMMA AccountsTyped == AccountSpec => []AccountTypeOK
<1>1. AccountInv => AccountTypeOK
  BY DEF AccountInv
<1>2. QED
  BY <1>1, AccountInvariant, AccountAssumption, PTL

LEMMA CookiesTyped == CookieSpec => []CookiesTypeOK
<1>1. CookieInit => CookiesInv
  BY CookiesBegin, SignInAssumption
<1>2. CookiesInv /\ [CookieNext]_cookieVars => CookiesInv'
  BY CookiesKept, SignInAssumption
<1>3. CookiesInv => CookiesTypeOK
  BY DEF CookiesInv
<1>4. QED
  BY <1>1, <1>2, <1>3, PTL DEF CookieSpec

LEMMA ConsentTyped == ConsentSpec => []ConsentTypeOK
<1>1. ConsentInit => ConsentInv
  BY ConsentBegins, ConsentAssumption
<1>2. ConsentInv /\ [ConsentNext]_consentVars => ConsentInv'
  BY ConsentKept, ConsentAssumption
<1>3. ConsentInv => ConsentTypeOK
  BY DEF ConsentInv
<1>4. QED
  BY <1>1, <1>2, <1>3, PTL DEF ConsentSpec

LEMMA StatusTyped == StatusSpec => []StatusTypeOK
<1>1. StatusInv => StatusTypeOK
  BY DEF StatusInv
<1>2. QED
  BY <1>1, StatusInvariant, PTL

LEMMA ProvenanceTyped == ProvenanceSpec => []ProvenanceTypeOK
<1>1. ProvenanceInit => VerifiedInv
  BY VerifiedBegins, ProvenanceAssumption
<1>2. VerifiedInv /\ [ProvenanceNext]_provenanceVars => VerifiedInv'
  BY VerifiedKept, ProvenanceAssumption
<1>3. VerifiedInv => ProvenanceTypeOK
  BY DEF VerifiedInv
<1>4. QED
  BY <1>1, <1>2, <1>3, PTL DEF ProvenanceSpec

LEMMA PipelinesTyped == PipelineSpec => []PipelineTypeOK
<1>1. PipelineInit => ListInv
  BY ListBegins, PipelineAssumption
<1>2. ListInv /\ [PipelineNext]_pipelineVars => ListInv'
  BY ListGoes, PipelineAssumption
<1>3. ListInv => PipelineTypeOK
  BY DEF ListInv
<1>4. QED
  BY <1>1, <1>2, <1>3, PTL DEF PipelineSpec

LEMMA PageTyped == PageSpec => []PageTypeOK
<1>1. PageInit => AgreedInv
  BY AgreedBegins, PageAssumption
<1>2. AgreedInv /\ [PageNext]_pageVars => AgreedInv'
  BY AgreedKept, PageAssumption
<1>3. AgreedInv => PageTypeOK
  BY DEF AgreedInv
<1>4. QED
  BY <1>1, <1>2, <1>3, PTL DEF PageSpec

LEMMA EventsTyped == EventSpec => []EventTypeOK
<1>1. EventInit => EventInv
  BY EventsBegin, EventAssumption
<1>2. EventInv /\ [EventNext]_eventVars => EventInv'
  BY EventsKept, EventAssumption
<1>3. EventInv => EventTypeOK
  BY DEF EventInv
<1>4. QED
  BY <1>1, <1>2, <1>3, PTL DEF EventSpec

LEMMA AlertsTyped == AlertSpec => []AlertTypeOK
<1>1. AlertInit => AlertInv
  BY AlertBegins, AlertAssumption
<1>2. AlertInv /\ [AlertNext]_alertVars => AlertInv'
  BY AlertGoes, AlertAssumption
<1>3. AlertInv => AlertTypeOK
  BY DEF AlertInv, AlertTypes, AlertTypeOK, AlertRequests, Moments
<1>4. QED
  BY <1>1, <1>2, <1>3, PTL DEF AlertSpec

\* The branch of a setup and its pull request, beside the commits and runs of BuildInv.
PullTypes ==
  /\ proposal \in [CommitIds -> {"none", "proposed", "changed"}]
  /\ request \in [CommitIds -> {"none", "open", "closed"}]
  /\ requested \in [CommitIds -> Nat]

LEMMA PullTypesKept == ASSUME PullTypes, [CommitNext]_gitVars PROVE PullTypes'
<1>1. CASE UNCHANGED pulls
  BY <1>1 DEF pulls, PullTypes
<1>2. CASE UNCHANGED gitVars
  BY <1>1, <1>2 DEF gitVars, pulls
<1>3. ASSUME NEW w, \/ StartCommit(w) \/ Inspect(w) \/ StartSetup(w) \/ StartProposal(w)
                    \/ FindSetupPull(w) \/ CheckSetupBase(w) \/ CompareSetupBranch(w)
                    \/ ReadRef(w) \/ BuildCommit(w) \/ MoveBranch(w) \/ RunEnds(w)
      PROVE  UNCHANGED pulls
  BY <1>3 DEF StartCommit, Inspect, StartSetup, StartProposal, FindSetupPull, CheckSetupBase,
              CompareSetupBranch, ReadRef, BuildCommit, MoveBranch, RunEnds
<1>4. ASSUME NEW w, CreateSetupBranch(w) PROVE PullTypes'
  <2>1. UNCHANGED <<request, requested>> /\ \/ proposal' = proposal
                                            \/ proposal' = [proposal EXCEPT ![run[w].reviewed] = "proposed"]
    BY <1>4 DEF CreateSetupBranch
  <2>2. QED
    BY <2>1 DEF PullTypes
<1>5. ASSUME NEW w, OpenSetupPull(w) PROVE PullTypes'
  <2> DEFINE c == run[w].reviewed
  <2>1. /\ proposal' = proposal
        /\ \/ UNCHANGED <<request, requested>>
           \/ request' = [request EXCEPT ![c] = "open"] /\ requested' = [requested EXCEPT ![c] = @ + 1]
    BY <1>5 DEF OpenSetupPull
  <2> HIDE DEF c
  <2>2. QED
    BY <2>1 DEF PullTypes
<1>6. ASSUME NEW p, NEW c, OwnerCommits(p, c) PROVE UNCHANGED pulls
  BY <1>6 DEF OwnerCommits
<1>7. ASSUME NEW c, OwnerChangesProposal(c) PROVE PullTypes'
  BY <1>7 DEF OwnerChangesProposal, PullTypes
<1>8. QED
  BY <1>1, <1>2, <1>3, <1>4, <1>5, <1>6, <1>7 DEF CommitNext

LEMMA CommitsTyped == CommitSpec => []CommitTypeOK
<1>1. CommitInit => BuildInv /\ PullTypes
  BY BuildBegins, CommitAssumption DEF CommitInit, PullTypes
<1>2. BuildInv /\ PullTypes /\ [CommitNext]_gitVars => BuildInv' /\ PullTypes'
  BY BuildKept, PullTypesKept, CommitAssumption
<1>3. BuildInv /\ PullTypes => CommitTypeOK
  BY DEF BuildInv, PullTypes, CommitTypeOK, All, Top
<1>4. QED
  BY <1>1, <1>2, <1>3, PTL DEF CommitSpec

\* The tabs of an app's page, beside the save and the namespace of SavedInv.
TabRows == [shown : BOOLEAN, read : BOOLEAN, served : Versions, edited : BOOLEAN,
            saving : {"no", "sent", "served", "refetch"}]
TabTypes ==
  /\ owner \in BOOLEAN /\ registered \in {"this", "another", "none"}
  /\ appTab \in [AppTabs -> TabRows]

LEMMA TabTypesKept ==
  ASSUME AppPageAssumption, SavedInv, TabTypes, [AppPageNext]_appPageVars PROVE TabTypes'
<1>1. ClosedTab \in TabRows /\ namespace.secret \in Versions
  BY NoPutOK DEF AppPageAssumption, ClosedTab, TabRows, Versions, SavedInv, Namespaces
<1>2. ASSUME NEW r \in TabRows PROVE WithRead(r) \in TabRows
  BY <1>1, <1>2 DEF WithRead, TabRows
<1>3. ASSUME NEW t \in AppTabs, NEW r \in TabRows, Sees(t, r), UNCHANGED <<owner, registered>>
      PROVE  TabTypes'
  BY <1>3 DEF Sees, TabTypes
<1>4. ASSUME NEW t \in AppTabs PROVE appTab[t] \in TabRows
  BY DEF TabTypes
<1>5. ASSUME NEW r \in TabRows, NEW saving \in {"no", "sent", "served", "refetch"}
      PROVE  [r EXCEPT !.saving = saving] \in TabRows
  BY DEF TabRows
<1>6. ASSUME NEW saving \in {"no", "refetch"}, AnswerSave(saving), UNCHANGED <<owner, registered>>
      PROVE  TabTypes'
  BY <1>4, <1>5, <1>6 DEF AnswerSave, TabTypes
<1>7. CASE UNCHANGED appPageVars
  BY <1>7 DEF appPageVars, TabTypes
<1>8. CASE SessionChanges \/ RegistrationChanges \/ NamespaceSyncs \/ NamespaceGoes \/ PodReadsSecret
           \/ ReplaceSecret \/ PatchRestart
  BY <1>8 DEF SessionChanges, RegistrationChanges, NamespaceSyncs, NamespaceGoes, PodReadsSecret,
              ReplaceSecret, PatchRestart, TabTypes
<1>9. ASSUME NEW t \in AppTabs, PollStatus(t) PROVE TabTypes'
  <2>1. [ClosedTab EXCEPT !.shown = owner, !.read = appTab[t].read, !.served = appTab[t].served] \in TabRows
    BY <1>1, <1>4 DEF TabRows, TabTypes
  <2>2. QED
    BY <1>3, <1>9, <2>1 DEF PollStatus
<1>10. ASSUME NEW t \in AppTabs, ReadEnv(t) PROVE TabTypes'
  BY <1>2, <1>3, <1>4, <1>10 DEF ReadEnv
<1>11. ASSUME NEW t \in AppTabs, EditRows(t) PROVE TabTypes'
  <2>1. [appTab[t] EXCEPT !.edited = ~@] \in TabRows
    BY <1>4 DEF TabRows
  <2>2. QED
    BY <1>3, <1>11, <2>1 DEF EditRows
<1>12. ASSUME NEW t \in AppTabs, SaveRows(t) \/ ServePut(t) \/ PutAnswerLost(t) PROVE TabTypes'
  <2>1. PICK saving \in {"no", "sent", "served"} : Sees(t, [appTab[t] EXCEPT !.saving = saving])
    BY <1>12 DEF SaveRows, ServePut, PutAnswerLost
  <2>2. UNCHANGED <<owner, registered>>
    BY <1>12 DEF SaveRows, ServePut, PutAnswerLost
  <2>3. QED
    BY <1>3, <1>4, <1>5, <2>1, <2>2
<1>13. ASSUME NEW t \in AppTabs, Refetch(t) PROVE TabTypes'
  <2>1. PICK r \in {appTab[t], WithRead(appTab[t])} : Sees(t, [r EXCEPT !.saving = "no"])
    BY <1>13 DEF Refetch
  <2>2. r \in TabRows /\ UNCHANGED <<owner, registered>>
    BY <1>2, <1>4, <1>13, <2>1 DEF Refetch
  <2>3. QED
    BY <1>3, <1>5, <2>1, <2>2
<1>14. ASSUME NEW t \in AppTabs, RemoveApp(t) PROVE TabTypes'
  BY <1>1, <1>14 DEF RemoveApp, Sees, TabTypes
<1>15. CASE CheckCurrent
  BY <1>6, <1>15 DEF CheckCurrent, TabTypes
<1>16. CASE AnswerPut \/ PutFails
  BY <1>6, <1>16 DEF AnswerPut, PutFails
<1>17. QED
  BY <1>7, <1>8, <1>9, <1>10, <1>11, <1>12, <1>13, <1>14, <1>15, <1>16 DEF AppPageNext

LEMMA AppPageTyped == AppPageSpec => []AppPageTypeOK
<1>1. AppPageInit => SavedInv /\ TabTypes
  <2>1. AppPageInit => SavedInv
    BY SavesBegin, AppPageAssumption
  <2>2. AppPageInit => TabTypes
    BY AppPageAssumption DEF AppPageAssumption, AppPageInit, TabTypes, ClosedTab, TabRows, Versions
  <2>3. QED
    BY <2>1, <2>2
<1>2. SavedInv /\ TabTypes /\ [AppPageNext]_appPageVars => SavedInv' /\ TabTypes'
  BY SavedKept, TabTypesKept, AppPageAssumption
<1>3. SavedInv /\ TabTypes => AppPageTypeOK
  BY DEF SavedInv, TabTypes, AppPageTypeOK, TabRows, Namespaces, PutRecords
<1>4. QED
  BY <1>1, <1>2, <1>3, PTL DEF AppPageSpec

LEMMA StackTyped == StackSpec => []StackTypeOK
<1> DEFINE Inv == RowsInv /\ movedOn \in BOOLEAN
<1>1. StackInit => Inv
  BY RowsBegin DEF StackInit
<1>2. Inv /\ [StackNext]_stackVars => Inv'
  <2> SUFFICES ASSUME Inv, [StackNext]_stackVars PROVE Inv'
    OBVIOUS
  <2>1. movedOn' \in {movedOn, TRUE, FALSE}
    BY DEF stackVars, StackNext, OwnerPushesStack, ReadRepo, RepoUnreadable, ReadPackage,
           PackageUnreadable, ReadLockfile, LockfileUnreadable, ReadSchema, SchemaUnreadable,
           ReadMigrations, CheckAgain
  <2>2. RowsInv'
    BY RowsKept
  <2>3. QED
    BY <2>1, <2>2
<1>3. Inv => StackTypeOK
  BY DEF RowsInv, StackTypeOK, Checks
<1>4. QED
  BY <1>1, <1>2, <1>3, PTL DEF StackSpec

\* A run has an end of ScanOrder left, beside ScanInv.
Rest == {SubSeq(ScanOrder, n, Len(ScanOrder)) : n \in 1..Len(ScanOrder) + 1}
ScanTypes ==
  /\ scanRun.left \in Rest
  /\ scanJob \in {"none", "running", "succeeded", "failed"}

LEMMA RestFacts ==
  ASSUME ScanAssumption
  PROVE  /\ ScanOrder \in Rest /\ <<>> \in Rest
         /\ \A s \in Rest : s # <<>> => Tail(s) \in Rest
<1> DEFINE L == Len(ScanOrder)
<1>1. ScanOrder \in Seq(Scanned) /\ L \in Nat
  BY DEF ScanAssumption, Scanned
<1>2. SubSeq(ScanOrder, 1, L) = ScanOrder
  BY <1>1, SubSeqFull
<1>3. SubSeq(ScanOrder, L + 1, L) = <<>>
  BY <1>1, SubSeqEmpty
<1>4. ASSUME NEW s \in Rest, s # <<>> PROVE Tail(s) \in Rest
  <2>1. PICK n \in 1..L + 1 : s = SubSeq(ScanOrder, n, L)
    BY DEF Rest
  <2>2. n # L + 1
    BY <1>3, <1>4, <2>1
  <2>3. n \in 1..L /\ L \in n..L /\ n + 1 \in 1..L + 1
    BY <1>1, <2>2
  <2>4. Tail(s) = SubSeq(ScanOrder, n + 1, L)
    BY <1>1, <2>1, <2>3, HeadTailOfSubSeq
  <2>5. QED
    BY <2>3, <2>4 DEF Rest
<1>5. 1 \in 1..L + 1 /\ L + 1 \in 1..L + 1
  BY <1>1
<1>6. QED
  BY <1>2, <1>3, <1>4, <1>5 DEF Rest

LEMMA ScanTypesKept ==
  ASSUME ScanAssumption, ScanInv, ScanTypes, [ScanNext]_scanVars PROVE ScanTypes'
<1>1. ASSUME NextUser, scanRun.step # "idle" PROVE scanRun'.left \in Rest
  BY <1>1, RestFacts DEF NextUser, TurnTo, NoScan, ScanInv, ScanTypes
<1>2. ASSUME NEW step, Scans(step) PROVE scanRun'.left = scanRun.left
  BY <1>2 DEF Scans, ScanInv
<1>3. ASSUME WithoutReport PROVE scanRun'.left = scanRun.left
  BY <1>3 DEF WithoutReport, ScanInv
<1>4. CASE UNCHANGED scanVars
  BY <1>4 DEF scanVars, ScanTypes
<1>5. ASSUME NEW u, AppAppears(u) \/ AppGoes(u) \/ \E images \in SUBSET ScanImages : PodsChange(u, images)
      PROVE  UNCHANGED <<scanRun, scanJob>>
  BY <1>5 DEF AppAppears, AppGoes, PodsChange
<1>6. CASE StartScans \/ ScanCrash
  <2>1. CASE StartScans
    BY <2>1, RestFacts DEF StartScans, TurnTo, NoScan, ScanTypes
  <2>2. CASE ScanCrash
    BY <2>2, RestFacts DEF ScanCrash, NoScan, ScanTypes
  <2>3. QED
    BY <1>6, <2>1, <2>2
<1>7. CASE ReadCurrent \/ UserFails
  BY <1>1, <1>2, <1>7 DEF ReadCurrent, UserFails, CallFails, ScanTypes
<1>8. CASE ReadPodImages
  <2>1. scanRun'.left = scanRun.left \/ NextUser
    BY <1>8 DEF ReadPodImages, ScanInv
  <2>2. QED
    BY <1>1, <1>8, <2>1 DEF ReadPodImages, ScanTypes
<1>9. CASE CreateScanJob \/ SeeSuccess \/ ReadJobLogs
  BY <1>2, <1>9 DEF CreateScanJob, SeeSuccess, ReadJobLogs, ScanTypes
<1>10. CASE ScanEnds
  BY <1>10 DEF ScanEnds, ScanTypes
<1>11. CASE GiveUpWaiting \/ LogsUnreadable
  BY <1>3, <1>11 DEF GiveUpWaiting, LogsUnreadable, ScanTypes
<1>12. CASE DeleteScanJob \/ StoreResult
  BY <1>1, <1>2, <1>12 DEF DeleteScanJob, StoreResult, ScanTypes
<1>13. QED
  BY <1>4, <1>5, <1>6, <1>7, <1>8, <1>9, <1>10, <1>11, <1>12 DEF ScanNext, ScanTypes

LEMMA ScansTyped == ScanSpec => []ScanTypeOK
<1>1. ScanInit => ScanInv /\ ScanTypes
  BY ScansBegin, RestFacts, ScanAssumption DEF ScanInit, NoScan, ScanTypes
<1>2. ScanInv /\ ScanTypes /\ [ScanNext]_scanVars => ScanInv' /\ ScanTypes'
  BY ScansGoOn, ScanTypesKept, ScanAssumption
<1>3. ScanInv /\ ScanTypes => ScanTypeOK
  BY DEF ScanInv, ScanTypes, ScanTypeOK, Rest
<1>4. QED
  BY <1>1, <1>2, <1>3, PTL DEF ScanSpec

-----------------------------------------------------------------------------
(* Side by side                                                            *)

\* Whatever holds of every behaviour of a service holds of every behaviour of them all: each
\* steps as it does alone, or stands still while another is the focus.
THEOREM EachAsAlone ==
  MCSpec => /\ AccountSpec /\ CommitSpec /\ CookieSpec /\ StatusSpec /\ ProvenanceSpec
            /\ PipelineSpec /\ PageSpec /\ AppPageSpec /\ ScanSpec /\ StackSpec /\ EventSpec
            /\ AlertSpec /\ ConsentSpec
<1>1. MCInit => /\ AccountInit /\ CommitInit /\ CookieInit /\ StatusInit /\ ProvenanceInit
                /\ PipelineInit /\ PageInit /\ AppPageInit /\ ScanInit /\ StackInit /\ EventInit
                /\ AlertInit /\ ConsentInit
  BY DEF MCInit
<1>2. UNCHANGED servicesVars =>
        UNCHANGED <<accountVars, gitVars, cookieVars, statusVars, provenanceVars, pipelineVars, pageVars,
                    appPageVars, scanVars, stackVars, eventVars, alertVars, consentVars>>
  BY DEF servicesVars
<1>3. [MCNext]_servicesVars =>
        /\ [AccountNext]_accountVars /\ [CommitNext]_gitVars /\ [CookieNext]_cookieVars
        /\ [StatusNext]_statusVars /\ [ProvenanceNext]_provenanceVars /\ [PipelineNext]_pipelineVars
        /\ [PageNext]_pageVars /\ [AppPageNext]_appPageVars /\ [ScanNext]_scanVars
        /\ [StackNext]_stackVars /\ [EventNext]_eventVars /\ [AlertNext]_alertVars
        /\ [ConsentNext]_consentVars
  BY <1>2 DEF MCNext
<1>4. QED
  BY <1>1, <1>3, PTL DEF MCSpec, AccountSpec, CommitSpec, CookieSpec, StatusSpec, ProvenanceSpec,
     PipelineSpec, PageSpec, AppPageSpec, ScanSpec, StackSpec, EventSpec, AlertSpec, ConsentSpec

\* The state of each service is of the shape its handlers read and write.
THEOREM ServicesTyped == MCSpec => []ServicesTypeOK
<1>1. AccountTypeOK /\ CommitTypeOK /\ CookiesTypeOK /\ StatusTypeOK /\ ProvenanceTypeOK
      /\ PipelineTypeOK /\ PageTypeOK /\ AppPageTypeOK /\ ScanTypeOK /\ StackTypeOK /\ EventTypeOK
      /\ AlertTypeOK /\ ConsentTypeOK => ServicesTypeOK
  BY DEF ServicesTypeOK
<1>2. QED
  BY <1>1, EachAsAlone, AccountsTyped, CommitsTyped, CookiesTyped, StatusTyped, ProvenanceTyped,
     PipelinesTyped, PageTyped, AppPageTyped, ScansTyped, StackTyped, EventsTyped, AlertsTyped,
     ConsentTyped, PTL
=============================================================================
