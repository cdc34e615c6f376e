----------------------------- MODULE GitCommit -----------------------------
(***************************************************************************)
(* A branch on GitHub and the two ways the platform changes a repository:  *)
(* commitFilesAtomic, which reads the head, builds a commit over several   *)
(* calls and moves the branch only forward, and the proposal of a source   *)
(* setup, a branch and a draft pull request of its own.  Several handlers  *)
(* and the repository's owner work at the same time; answers get lost.     *)
(* Blobs, trees and commits are immutable, so the calls that read or make  *)
(* them by their hash are one step with the commit they build.             *)
(***************************************************************************)
EXTENDS Naturals, FiniteSets, Sequences

CONSTANTS
  Paths,       \* files of the repository
  Writers,     \* handlers that commit without a reviewed plan
  Puts,        \* Puts[w]: the paths w writes
  Drops,       \* Drops[w]: deletePaths
  Replaces,    \* Replaces[w]: the paths under w's replaceDirPath
  Template,    \* the paths a source setup wants
  Setups,      \* handlers of the source setup
  MaxCommits   \* bound: commits on the branch

ASSUME CommitAssumption ==
  /\ Template \subseteq Paths /\ Writers \cap Setups = {}
  /\ {Puts, Drops, Replaces} \subseteq [Writers -> SUBSET Paths]
  /\ MaxCommits \in Nat \ {0}

VARIABLES
  commits,    \* the commits the branch has had, each with its tree
  run,        \* run[w]: the commit or the proposal w works on
  proposal,   \* proposal[c]: the branch swkoo/setup-<digest> of the plan on commit c
  request,    \* request[c]: its pull request
  requested   \* history: pull requests opened per plan

gitVars == <<commits, run, proposal, request, requested>>

-----------------------------------------------------------------------------
Contents == {"none", "owner", "platform"}
Trees == [Paths -> Contents]
Top == Len(commits)
CommitIds == 1..MaxCommits

NoRun == [step |-> "idle", base |-> 0, reviewed |-> 0, tree |-> [p \in Paths |-> "none"]]
Runs == [step : {"idle", "ref", "build", "move", "find", "base", "branch", "compare", "pull",
                 "again"},
         base : 0..MaxCommits, reviewed : 0..MaxCommits, tree : Trees]

CommitTypeOK ==
  /\ Top \in CommitIds /\ \A i \in 1..Top : commits[i] \in Trees
  /\ run \in [Writers \cup Setups -> Runs]
  /\ proposal \in [CommitIds -> {"none", "proposed", "changed"}]
  /\ request \in [CommitIds -> {"none", "open", "closed"}]
  /\ requested \in [CommitIds -> Nat]

CommitInit ==
  /\ \E t \in [Paths -> {"none", "owner"}] : commits = <<t>>
  /\ run = [w \in Writers \cup Setups |-> NoRun]
  /\ proposal = [c \in CommitIds |-> "none"] /\ request = [c \in CommitIds |-> "none"]
  /\ requested = [c \in CommitIds |-> 0]

pulls == <<proposal, request, requested>>
Step(w, step) == run' = [run EXCEPT ![w].step = step]
Done(w) == run' = [run EXCEPT ![w] = [NoRun EXCEPT !.reviewed = run[w].reviewed]]

-----------------------------------------------------------------------------
(* The source setup: inspect, review                                       *)

\* What inspect says of each wanted file.
Create(t) == {p \in Template : t[p] = "none"}
Review(t) == {p \in Template : t[p] = "owner"}

\* GET setup: the plan the user looks at is that of the head.
Inspect(w) ==
  /\ w \in Setups /\ run[w].step = "idle" /\ run[w].reviewed # Top
  /\ run' = [run EXCEPT ![w].reviewed = Top]
  /\ UNCHANGED <<commits, pulls>>

\* register: inspected again, the digest is that of the reviewed plan, no file asks for
\* a review, and some file is missing.  The commit follows several awaits later.
StartSetup(w) ==
  /\ w \in Setups /\ run[w].step = "idle" /\ run[w].reviewed = Top
  /\ Review(commits[Top]) = {} /\ Create(commits[Top]) # {}
  /\ Step(w, "ref")
  /\ UNCHANGED <<commits, pulls>>

-----------------------------------------------------------------------------
(* commitFilesAtomic                                                       *)

StartCommit(w) ==
  /\ w \in Writers /\ run[w].step = "idle"
  /\ Step(w, "ref")
  /\ UNCHANGED <<commits, pulls>>

AnyHead(w) == TRUE
HeadExpected(w) == w \in Setups => run[w].reviewed = Top

\* The head of the branch, which is the reviewed one where one is expected.
ReadRef(w) ==
  /\ run[w].step = "ref"
  /\ IF ~HeadExpected(w) THEN Done(w)
     ELSE run' = [run EXCEPT ![w].step = "build", ![w].base = Top]
  /\ UNCHANGED <<commits, pulls>>

Written(w) == IF w \in Setups THEN Create(commits[run[w].reviewed]) ELSE Puts[w]
Deleted(w, t) ==
  IF w \in Setups THEN {}
  ELSE (Drops[w] \ Puts[w]) \cup {p \in Replaces[w] \ Puts[w] : t[p] # "none"}

NewTree(w, t) ==
  [p \in Paths |-> IF p \in Written(w) THEN "platform"
                   ELSE IF p \in Deleted(w, t) THEN "none" ELSE t[p]]

\* Blobs, tree, commit.  GitHub refuses a tree that deletes a path it does not have; a
\* tree like the base's ends the operation with the base.
BuildCommit(w) ==
  /\ run[w].step = "build"
  /\ LET t == commits[run[w].base] IN
     IF \/ \E p \in Deleted(w, t) : t[p] = "none"
        \/ Written(w) \cup Deleted(w, t) = {}
        \/ NewTree(w, t) = t
     THEN Done(w)
     ELSE run' = [run EXCEPT ![w].step = "move", ![w].tree = NewTree(w, t)]
  /\ UNCHANGED <<commits, pulls>>

\* PATCH ref without force: only forward, so only from the base.
Forced(w) == TRUE
FastForward(w) == run[w].base = Top

\* The answer may be lost.
MoveBranch(w) ==
  /\ run[w].step = "move"
  /\ \/ FastForward(w) /\ Top < MaxCommits /\ commits' = Append(commits, run[w].tree)
     \/ ~FastForward(w) /\ commits' = commits
  /\ Done(w)
  /\ UNCHANGED pulls

-----------------------------------------------------------------------------
(* createPr                                                                *)

StartProposal(w) ==
  /\ w \in Setups /\ run[w].step = "idle" /\ run[w].reviewed = Top
  /\ Review(commits[Top]) # {}
  /\ Step(w, "find")
  /\ UNCHANGED <<commits, pulls>>

PullOfPlanOpen(c) == request[c] = "open"
PullOfPlan(c) == request[c] # "none"

\* A pull request of this plan, open or closed, or an open one of another plan ends it.
FindSetupPull(w) ==
  /\ run[w].step = "find"
  /\ IF PullOfPlan(run[w].reviewed) \/ \E c \in CommitIds : request[c] = "open"
     THEN Done(w) ELSE Step(w, "base")
  /\ UNCHANGED <<commits, pulls>>

CheckSetupBase(w) ==
  /\ run[w].step = "base"
  /\ IF run[w].reviewed # Top THEN Done(w) ELSE Step(w, "branch")
  /\ UNCHANGED <<commits, pulls>>

\* Created, created with the answer lost, or 422 for a branch that exists.
CreateSetupBranch(w) ==
  /\ run[w].step = "branch"
  /\ LET c == run[w].reviewed IN
     IF proposal[c] = "none"
     THEN proposal' = [proposal EXCEPT ![c] = "proposed"] /\ (Step(w, "pull") \/ Done(w))
     ELSE proposal' = proposal /\ Step(w, "compare")
  /\ UNCHANGED <<commits, request, requested>>

CompareSetupBranch(w) ==
  /\ run[w].step = "compare"
  /\ IF proposal[run[w].reviewed] = "proposed" THEN Step(w, "pull") ELSE Done(w)
  /\ UNCHANGED <<commits, pulls>>

\* Opened, with or without an answer, or refused while one is open; a failure looks for
\* an open pull request and ends either way.
OpenSetupPull(w) ==
  /\ run[w].step = "pull"
  /\ LET c == run[w].reviewed IN
     IF request[c] # "open"
     THEN request' = [request EXCEPT ![c] = "open"] /\ requested' = [requested EXCEPT ![c] = @ + 1]
     ELSE UNCHANGED <<request, requested>>
  /\ Done(w)
  /\ UNCHANGED <<commits, proposal>>

\* A call fails or the process stops: nothing of the run remains but what is on GitHub.
RunEnds(w) ==
  /\ run[w].step # "idle"
  /\ Done(w)
  /\ UNCHANGED <<commits, pulls>>

-----------------------------------------------------------------------------
(* The repository's owner                                                  *)

OwnerCommits(p, c) ==
  /\ Top < MaxCommits /\ commits[Top][p] # c
  /\ commits' = Append(commits, [commits[Top] EXCEPT ![p] = c])
  /\ UNCHANGED <<run, pulls>>

OwnerChangesProposal(c) ==
  /\ \/ proposal[c] = "proposed" /\ proposal' = [proposal EXCEPT ![c] = "changed"]
        /\ request' = request
     \/ request[c] = "open" /\ request' = [request EXCEPT ![c] = "closed"]
        /\ proposal' = proposal
  /\ UNCHANGED <<commits, run, requested>>

-----------------------------------------------------------------------------
CommitNext ==
  \/ \E w \in Writers : StartCommit(w)
  \/ \E w \in Setups :
       \/ Inspect(w) \/ StartSetup(w) \/ StartProposal(w)
       \/ FindSetupPull(w) \/ CheckSetupBase(w) \/ CreateSetupBranch(w)
       \/ CompareSetupBranch(w) \/ OpenSetupPull(w)
  \/ \E w \in Writers \cup Setups :
       ReadRef(w) \/ BuildCommit(w) \/ MoveBranch(w) \/ RunEnds(w)
  \/ \E p \in Paths, c \in {"none", "owner"} : OwnerCommits(p, c)
  \/ \E c \in CommitIds : OwnerChangesProposal(c)

CommitSpec == CommitInit /\ [][CommitNext]_gitVars

-----------------------------------------------------------------------------
(* Properties                                                              *)

Moved(w) == run[w].step = "move" /\ run'[w].step = "idle" /\ commits' # commits
Owned(w) == IF w \in Setups THEN Template ELSE Puts[w] \cup Drops[w] \cup Replaces[w]

\* Whoever else commits while a handler builds its commit, the branch never loses a change
\* to a path the handler has no business with (github-app.service PATCH ref); and the setup
\* only adds what main does not have: a file of the owner's, added since the review or not,
\* is never overwritten (source-setup createMissing).
NothingOverwritten ==
  [][\A w \in Writers \cup Setups : Moved(w) =>
       \A p \in Paths : p \notin Owned(w) \/ (w \in Setups /\ commits[Top][p] # "none") =>
         commits'[Top'][p] = commits[Top][p]]_gitVars

\* One plan leads to one pull request, closed or not (source-setup createPr).
OneSetupPull == \A c \in CommitIds : requested[c] <= 1
=============================================================================
