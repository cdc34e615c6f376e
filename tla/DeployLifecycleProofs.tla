----------------------- MODULE DeployLifecycleProofs -----------------------
(* What the proof system establishes of DeployLifecycle for every value of *)
(* its constants.                                                          *)
EXTENDS DeployLifecycle, FiniteSetTheorems, TLAPS

-----------------------------------------------------------------------------
(* The interceptor's steps keep every handler well formed                  *)

LEMMA ConstantsOK ==
  ASSUME LifecycleAssumption
  PROVE  /\ Allocatable \in Nat /\ Headroom \in Nat /\ PodUnits \in Nat
         /\ ReserveUnits \in Nat /\ MaxStamp \in Nat
         /\ Legacy \subseteq Users /\ LegacyApp \in Apps
         /\ None \notin Users /\ None # Admin
BY DEF LifecycleAssumption

LEMMA IdleOK ==
  ASSUME LifecycleAssumption PROVE Idle \in Ops /\ HandlerOK(Idle)
BY DEF LifecycleAssumption, Idle, Ops, Steps, HandlerOK, StepOf, NoReg, Profiles, Accounts

LEMMA BeginOK ==
  ASSUME ProcessOK, NEW q \in Requests, NEW o \in Ops, HandlerOK(o), o.user \in Accounts,
         Begin(q, o)
  PROVE  ProcessOK'
BY DEF ProcessOK, Begin, Keys

\* A handler about to start, from the few fields its action sets.
LEMMA FirstOK ==
  ASSUME LifecycleAssumption, NEW o, NEW q \in Requests, ProcessOK, Begin(q, o),
         o \in Ops, StepOf(o.kind, o.step), o.user \in Accounts,
         o.kind # "release" => o.user \in Users,
         o.kind = "release" => o.user = Admin /\ o.target \in Users,
         o.kind \in {"register", "env"} => o.app \in Apps /\ o.step = "registration",
         o.kind \in {"register", "delete", "account", "release", "env"}
  PROVE  ProcessOK'
<1>1. HandlerOK(o)
  BY DEF HandlerOK, StepOf
<1>2. QED
  BY <1>1, BeginOK

LEMMA EndOK ==
  ASSUME LifecycleAssumption, ProcessOK, NEW q \in Requests, End(q)
  PROVE  ProcessOK'
BY IdleOK DEF ProcessOK, End

LEMMA GoOK ==
  ASSUME ProcessOK, NEW q \in Requests, NEW step, Go(q, step),
         StepOf(op[q].kind, step),
         step \in {"storage", "source", "ensure", "manifests", "publish"}
           => op[q].host \in Hosts
  PROVE  ProcessOK'
<1>1. op[q] \in Ops /\ HandlerOK(op[q])
  BY DEF ProcessOK
<1>2. step \in Steps
  BY DEF StepOf, Steps
<1>3. [op[q] EXCEPT !.step = step] \in Ops
  BY <1>1, <1>2 DEF Ops
<1>4. HandlerOK([op[q] EXCEPT !.step = step])
  BY <1>1 DEF HandlerOK, Ops
<1>5. QED
  BY <1>3, <1>4 DEF ProcessOK, Go

\* A handler of registerForUser or setEnv that moves on with more in its locals.
LEMMA MovedOK ==
  ASSUME ProcessOK, NEW q \in Requests, NEW o \in Ops, op' = [op EXCEPT ![q] = o],
         UNCHANGED active,
         o.kind \in {"register", "env"}, StepOf(o.kind, o.step),
         o.user \in Users, o.app \in Apps,
         o.step \in {"storage", "source", "ensure", "manifests", "publish"}
           => o.host \in Hosts
  PROVE  ProcessOK'
<1>1. HandlerOK(o)
  BY DEF HandlerOK
<1>2. QED
  BY <1>1 DEF ProcessOK

LEMMA AbortOK ==
  ASSUME LifecycleAssumption, ProcessOK, NEW q \in Requests, Abort(q)
  PROVE  ProcessOK'
<1>1. CASE op[q].kind = "account" /\ Go(q, "anonymise")
  BY <1>1, GoOK DEF StepOf
<1>2. CASE End(q)
  BY <1>2, EndOK
<1>3. QED
  BY <1>1, <1>2 DEF Abort

LEMMA AnsweredOK ==
  ASSUME LifecycleAssumption, ProcessOK, NEW q \in Requests, NEW step, Answered(q, step),
         StepOf(op[q].kind, step),
         step \in {"storage", "source", "ensure", "manifests", "publish"}
           => op[q].host \in Hosts
  PROVE  ProcessOK'
BY GoOK, AbortOK DEF Answered

\* The kind and the locals of a handler that is at a given step.
LEMMA AtStep ==
  ASSUME ProcessOK, NEW q \in Requests
  PROVE  /\ op[q] \in Ops /\ HandlerOK(op[q])
         /\ op[q].step \in {"metrics", "admit", "claim", "storage", "source", "ensure",
                            "manifests", "publish"}
              => op[q].kind = "register" /\ op[q].user \in Users /\ op[q].app \in Apps
         /\ op[q].step \in {"registration", "application", "write", "restart"}
              => op[q].kind \in {"register", "env"} /\ op[q].user \in Users
                   /\ op[q].app \in Apps
         /\ op[q].step \in {"unregister", "archive", "finish", "anonymise"}
              => op[q].kind \in {"delete", "account"} /\ op[q].user \in Users
         /\ op[q].step = "probe" => op[q].kind = "release" /\ op[q].target \in Users
         /\ op[q].step \in {"write", "restart"} => op[q].kind = "env"
         /\ op[q].step = "anonymise" => op[q].kind = "account"
<1>1. op[q] \in Ops /\ HandlerOK(op[q])
  BY DEF ProcessOK
<1>2. QED
  BY <1>1 DEF HandlerOK, StepOf

-----------------------------------------------------------------------------
(* Type correctness, one lemma per group of actions                        *)

LEMMA TypeInit ==
  ASSUME LifecycleAssumption, Init PROVE TypeOK
<1>1. ProcessOK
  BY IdleOK DEF Init, ProcessOK
<1>2. StoreOK
  <2>1. slug \in [Users -> Slugs \cup {None}] /\ clock \in 0..MaxStamp
    BY ConstantsOK DEF Init
  <2>2. plan \in [Users -> 0..MaxStamp]
    BY ConstantsOK DEF Init
  <2>3. present \subseteq Users /\ allowed \subseteq present /\ reservations \subseteq Rows
    BY DEF Init
  <2>4. counted \subseteq Users /\ blind \in BOOLEAN
    BY ConstantsOK DEF Init
  <2>5. QED
    BY <2>1, <2>2, <2>3, <2>4 DEF StoreOK
<1>5. ClusterOK
  BY ConstantsOK DEF Init, ClusterOK
<1>3. GitOK
  BY DEF LifecycleAssumption, Init, GitOK, RegistrationFiles, NoReg, Manifests, NoManifest,
         Profiles
<1>4. QED
  BY <1>1, <1>2, <1>3, <1>5 DEF TypeOK

\* What a step that only moves its handler on leaves alone.
LEMMA Untouched ==
  ASSUME StoreOK, GitOK, ClusterOK,
         UNCHANGED <<expired, db, plan, git, cluster, secret, history>>
  PROVE  StoreOK' /\ GitOK' /\ ClusterOK'
<1>1. StoreOK'
  BY DEF StoreOK, db, history
<1>2. GitOK'
  BY DEF GitOK, git
<1>3. ClusterOK'
  BY DEF ClusterOK, cluster
<1>4. QED
  BY <1>1, <1>2, <1>3

LEMMA TypeBegins ==
  ASSUME LifecycleAssumption, TypeOK, NEW q \in Requests, NEW u \in Users, Begins(q, u)
  PROVE  TypeOK'
<1> USE DEF TypeOK
<1>1. CASE BeginRegister(q, u)
  <2>1. PICK a, s, d, o :
          /\ a \in Apps /\ s \in Slugs \cup {None} /\ d \in Detections
          /\ o = [Idle EXCEPT !.kind = "register", !.user = u, !.step = "registration",
                              !.app = a, !.slug = s, !.detected = d]
          /\ Begin(q, o)
    BY <1>1 DEF BeginRegister
  <2>2. o \in Ops
    BY <2>1, IdleOK DEF Ops, Steps, Accounts, LifecycleAssumption
  <2>3. o.kind = "register" /\ o.user = u /\ o.step = "registration" /\ o.app \in Apps
    BY <2>1, IdleOK DEF Ops
  <2>4. ProcessOK'
    BY <2>1, <2>2, <2>3, FirstOK DEF StepOf, Accounts
  <2>5. QED
    BY <1>1, <2>4, Untouched DEF BeginRegister
<1>2. CASE BeginDelete(q, u)
  <2>1. PICK o : /\ o = [Idle EXCEPT !.kind = "delete", !.user = u, !.step = "unregister"]
                 /\ Begin(q, o)
    BY <1>2 DEF BeginDelete
  <2>2. o \in Ops
    BY <2>1, IdleOK DEF Ops, Steps, Accounts
  <2>3. o.kind = "delete" /\ o.user = u /\ o.step = "unregister"
    BY <2>1, IdleOK DEF Ops
  <2>4. ProcessOK'
    BY <2>1, <2>2, <2>3, FirstOK DEF StepOf, Accounts
  <2>5. QED
    BY <1>2, <2>4, Untouched DEF BeginDelete
<1>3. CASE BeginDeleteAccount(q, u)
  <2> DEFINE st == IF u \in allowed THEN "unregister" ELSE "anonymise"
             o == [Idle EXCEPT !.kind = "account", !.user = u, !.step = st]
  <2>1. /\ st \in {"unregister", "anonymise"}
        /\ o = [Idle EXCEPT !.kind = "account", !.user = u, !.step = st]
        /\ Begin(q, o)
    BY <1>3 DEF BeginDeleteAccount
  <2> HIDE DEF st, o
  <2>2. o \in Ops
    BY <2>1, IdleOK DEF Ops, Steps, Accounts
  <2>3. o.kind = "account" /\ o.user = u /\ o.step = st
    BY <2>1, IdleOK DEF Ops
  <2>4. ProcessOK'
    BY <2>1, <2>2, <2>3, FirstOK DEF StepOf, Accounts
  <2>5. QED
    BY <1>3, <2>4, Untouched DEF BeginDeleteAccount
<1>4. CASE BeginRelease(q, u)
  <2>1. PICK o : /\ o = [Idle EXCEPT !.kind = "release", !.user = Admin, !.step = "probe",
                                     !.target = u, !.digest = plan[u], !.todo = Probes]
                 /\ Begin(q, o)
    BY <1>4 DEF BeginRelease
  <2>2. o \in Ops
    BY <2>1, IdleOK DEF Ops, Steps, Accounts, StoreOK
  <2>3. o.kind = "release" /\ o.user = Admin /\ o.step = "probe" /\ o.target = u
    BY <2>1, IdleOK DEF Ops
  <2>4. ProcessOK'
    BY <2>1, <2>2, <2>3, FirstOK DEF StepOf, Accounts
  <2>5. QED
    BY <1>4, <2>4, Untouched DEF BeginRelease
<1>5. CASE BeginEnv(q, u)
  <2>1. PICK a, o :
          /\ a \in Apps
          /\ o = [Idle EXCEPT !.kind = "env", !.user = u, !.step = "registration", !.app = a]
          /\ Begin(q, o)
    BY <1>5 DEF BeginEnv
  <2>2. o \in Ops
    BY <2>1, IdleOK DEF Ops, Steps, Accounts
  <2>3. o.kind = "env" /\ o.user = u /\ o.step = "registration" /\ o.app \in Apps
    BY <2>1, IdleOK DEF Ops
  <2>4. ProcessOK'
    BY <2>1, <2>2, <2>3, FirstOK DEF StepOf, Accounts
  <2>5. QED
    BY <1>5, <2>4, Untouched DEF BeginEnv
<1>6. QED
  BY <1>1, <1>2, <1>3, <1>4, <1>5 DEF Begins

\* Failures and crashes.
LEMMA TypeFail ==
  ASSUME LifecycleAssumption, TypeOK, NEW q \in Requests, Fail(q) PROVE TypeOK'
<1>1. ProcessOK
  BY DEF TypeOK
<1>2. CASE op[q].step = "archive" /\ Go(q, "finish")
  <2>1. ProcessOK'
    BY <1>1, <1>2, AtStep, GoOK DEF StepOf
  <2>2. QED
    BY <2>1, Untouched DEF TypeOK, Fail
<1>3. CASE Abort(q)
  BY <1>1, <1>3, AbortOK, Untouched DEF TypeOK, Fail
<1>4. QED
  BY <1>2, <1>3 DEF Fail, AfterFailure

LEMMA TypeCrash ==
  ASSUME LifecycleAssumption, TypeOK, Crash PROVE TypeOK'
<1>1. ProcessOK'
  BY IdleOK DEF Crash, ProcessOK
<1>2. StoreOK'
  BY DEF TypeOK, StoreOK, Crash, db, history
<1>3. GitOK'
  BY DEF TypeOK, GitOK, Crash, git
<1>4. ClusterOK'
  BY DEF TypeOK, ClusterOK, Crash, cluster
<1>5. QED
  BY <1>1, <1>2, <1>3, <1>4 DEF TypeOK

\* Reading what is registered, and the answer to it.
LEMMA TypeCurrent ==
  ASSUME LifecycleAssumption, TypeOK, NEW q \in Requests,
         ReadRegistration(q) \/ ReadApplication(q) \/ ReadMetrics(q)
  PROVE  TypeOK'
<1> USE DEF TypeOK
<1> DEFINE p == op[q]
<1>0. p \in Ops
  BY AtStep
<1>1. CASE ReadRegistration(q)
  <2>1. p.kind \in {"register", "env"} /\ p.user \in Users /\ p.app \in Apps
    BY <1>1, AtStep DEF ReadRegistration
  <2>2. registration[p.user] \in RegistrationFiles \cup {NoReg}
    BY <2>1 DEF GitOK
  <2>3. PICK o : /\ o = [p EXCEPT !.step = "application", !.reg = registration[p.user]]
                 /\ op' = [op EXCEPT ![q] = o] /\ UNCHANGED active
    BY <1>1 DEF ReadRegistration, ProcessOK
  <2>4. o \in Ops
    BY <1>0, <2>2, <2>3 DEF Ops, Steps
  <2>5. o.step = "application" /\ o.kind = p.kind /\ o.user = p.user /\ o.app = p.app
    BY <1>0, <2>3 DEF Ops
  <2>6. StepOf(o.kind, o.step)
    BY <2>1, <2>5 DEF StepOf
  <2>7. ProcessOK'
    BY <2>1, <2>3, <2>4, <2>5, <2>6, MovedOK
  <2>8. QED
    BY <1>1, <2>7, Untouched DEF ReadRegistration
<1>2. CASE ReadApplication(q)
  <2>1. CASE p.kind = "register" /\ (Go(q, "metrics") \/ Go(q, "claim"))
    BY <1>2, <2>1, GoOK, Untouched DEF ReadApplication, StepOf
  <2>2. CASE p.kind = "env" /\ Go(q, "write")
    BY <1>2, <2>2, GoOK, Untouched DEF ReadApplication, StepOf
  <2>3. CASE End(q)
    BY <1>2, <2>3, EndOK, Untouched DEF ReadApplication
  <2>4. QED
    BY <1>2, <2>1, <2>2, <2>3 DEF ReadApplication
<1>3. CASE ReadMetrics(q)
  <2>1. p.kind = "register" /\ p.user \in Users /\ p.app \in Apps
    BY <1>3, AtStep DEF ReadMetrics
  <2>2. PICK o : /\ o = [p EXCEPT !.step = "admit", !.seen = scraped]
                 /\ op' = [op EXCEPT ![q] = o] /\ UNCHANGED active
    BY <1>3 DEF ReadMetrics, ProcessOK
  <2>3. o \in Ops
    BY <1>0, <2>2 DEF Ops, Steps, ClusterOK
  <2>4. o.step = "admit" /\ o.kind = p.kind /\ o.user = p.user /\ o.app = p.app
    BY <1>0, <2>2 DEF Ops
  <2>5. ProcessOK'
    BY <2>1, <2>2, <2>3, <2>4, MovedOK DEF StepOf
  <2>6. QED
    BY <1>3, <2>5, Untouched DEF ReadMetrics
<1>4. QED
  BY <1>1, <1>2, <1>3

\* A grant's row is well formed.
LEMMA RowsOK ==
  ASSUME LifecycleAssumption, TypeOK, NEW u \in Users, NEW seen, WithinBound(u)
  PROVE  /\ RowsAfter(u, seen) \subseteq Rows
         /\ (IF Reserved(u) = {} THEN clock + 1 ELSE clock) \in 0..MaxStamp
<1>1. CASE Reserved(u) = {}
  <2>1. clock + 1 \in 1..MaxStamp
    BY <1>1, ConstantsOK DEF TypeOK, StoreOK, WithinBound
  <2>2. [user |-> u, stamp |-> clock + 1, anon |-> FALSE] \in Rows
    BY <2>1 DEF Rows
  <2>3. RowsAfter(u, seen) \subseteq Rows
    BY <1>1, <2>2 DEF TypeOK, StoreOK, RowsAfter
  <2>4. clock + 1 \in 0..MaxStamp
    BY <2>1, ConstantsOK
  <2>5. QED
    BY <1>1, <2>3, <2>4
<1>2. CASE Reserved(u) # {}
  BY <1>2 DEF TypeOK, StoreOK, RowsAfter
<1>3. QED
  BY <1>1, <1>2

LEMMA TypeAdmission ==
  ASSUME LifecycleAssumption, TypeOK, NEW q \in Requests, Admit(q) \/ Decline(q)
  PROVE  TypeOK'
<1> USE DEF TypeOK
<1>1. CASE Admit(q)
  <2>1. op[q].kind = "register" /\ op[q].user \in Users /\ WithinBound(op[q].user)
    BY <1>1, AtStep DEF Admit
  <2>2. ProcessOK'
    BY <1>1, <2>1, GoOK DEF Admit, StepOf
  <2>3. reservations' \subseteq Rows /\ clock' \in 0..MaxStamp
    BY <1>1, <2>1, RowsOK DEF Admit
  <2>4. counted' \subseteq Users /\ blind' \in BOOLEAN
    <3>1. counted' \subseteq Users
      BY <1>1 DEF Admit, StoreOK
    <3>2. blind' = (blind \/ \E v \in counted \ op[q].seen : Registered(v))
      BY <1>1 DEF Admit
    <3>3. QED
      BY <3>1, <3>2
  <2>5. StoreOK'
    BY <1>1, <2>3, <2>4 DEF Admit, StoreOK
  <2>6. GitOK' /\ ClusterOK'
    BY <1>1 DEF Admit, GitOK, ClusterOK, git, cluster
  <2>7. QED
    BY <2>2, <2>5, <2>6
<1>2. CASE Decline(q)
  BY <1>2, EndOK, Untouched DEF Decline
<1>3. QED
  BY <1>1, <1>2

LEMMA TypeHost ==
  ASSUME LifecycleAssumption, TypeOK, NEW q \in Requests, ClaimHost(q) \/ ReadStorage(q)
  PROVE  TypeOK'
<1> USE DEF TypeOK
<1> DEFINE p == op[q]
<1>1. p \in Ops
  BY AtStep
<1>2. p.kind = "register" /\ p.user \in Users /\ p.app \in Apps
  BY AtStep DEF ClaimHost, ReadStorage
<1>3. HostOf(p.user, p.app) \in Hosts
  <2>1. /\ DefaultHost \in [Users -> [Apps -> Hosts]] /\ Slugs \subseteq Hosts
        /\ slug \in [Users -> Slugs \cup {None}]
    BY DEF LifecycleAssumption, StoreOK
  <2>2. DefaultHost[p.user][p.app] \in Hosts /\ slug[p.user] \in Slugs \cup {None}
    BY <1>2, <2>1
  <2>3. QED
    BY <2>1, <2>2 DEF HostOf
<1>4. ASSUME NEW h \in Hosts, UNCHANGED active,
             op' = [op EXCEPT ![q] = [p EXCEPT !.step = "storage", !.host = h]]
      PROVE  ProcessOK'
  <2>1. PICK o : /\ o = [p EXCEPT !.step = "storage", !.host = h]
                 /\ op' = [op EXCEPT ![q] = o]
    BY <1>4
  <2>2. o \in Ops
    BY <1>1, <2>1 DEF Ops, Steps
  <2>3. /\ o.step = "storage" /\ o.kind = p.kind /\ o.user = p.user /\ o.app = p.app
        /\ o.host = h
    BY <1>1, <2>1 DEF Ops
  <2>4. QED
    BY <1>2, <1>4, <2>1, <2>2, <2>3, MovedOK DEF StepOf
<1>5. CASE ClaimHost(q)
  <2>1. p.slug \in Slugs \cup {None}
    BY <1>1 DEF Ops
  <2>2. CASE /\ op' = [op EXCEPT ![q] = [p EXCEPT !.step = "storage",
                                                   !.host = HostOf(p.user, p.app)]]
             /\ UNCHANGED <<active, slug>>
    <3>1. ProcessOK'
      BY <1>3, <1>4, <2>2
    <3>2. QED
      BY <1>5, <2>2, <3>1 DEF ClaimHost, StoreOK, GitOK, ClusterOK, git, cluster, history
  <2>3. CASE /\ p.slug # None
             /\ op' = [op EXCEPT ![q] = [p EXCEPT !.step = "storage", !.host = p.slug]]
             /\ slug' = [slug EXCEPT ![p.user] = p.slug]
             /\ UNCHANGED active
    <3>1. p.slug \in Hosts
      BY <2>1, <2>3 DEF LifecycleAssumption
    <3>2. ProcessOK'
      BY <1>4, <2>3, <3>1
    <3>3. slug' \in [Users -> Slugs \cup {None}]
      BY <2>1, <2>3 DEF StoreOK
    <3>4. QED
      BY <1>5, <3>2, <3>3 DEF ClaimHost, StoreOK, GitOK, ClusterOK, git, cluster, history
  <2>4. CASE End(q) /\ UNCHANGED slug
    <3>1. ProcessOK'
      BY <2>4, EndOK
    <3>2. QED
      BY <1>5, <2>4, <3>1 DEF ClaimHost, StoreOK, GitOK, ClusterOK, git, cluster, history
  <2>5. op \in [Requests -> Ops]
    BY DEF ProcessOK
  <2>6. QED
    BY <1>5, <2>2, <2>3, <2>4, <2>5 DEF ClaimHost
<1>6. CASE ReadStorage(q)
  <2>1. PICK existing \in {registration[p.user].storage, "none"} :
          op' = [op EXCEPT ![q] = [p EXCEPT !.step = "source",
                   !.profile = EffectiveProfile(existing, p.detected)]]
    BY <1>6 DEF ReadStorage, ProcessOK
  <2>2. registration[p.user] \in RegistrationFiles \cup {NoReg}
    BY <1>2 DEF GitOK
  <2>3. existing \in Profiles
    BY <2>1, <2>2 DEF RegistrationFiles, NoReg, Profiles
  <2>4. EffectiveProfile(existing, p.detected) \in Profiles
    BY <2>3 DEF EffectiveProfile, Profiles
  <2>5. PICK o : /\ o = [p EXCEPT !.step = "source",
                                  !.profile = EffectiveProfile(existing, p.detected)]
                 /\ op' = [op EXCEPT ![q] = o]
    BY <2>1
  <2>6. o \in Ops
    BY <1>1, <2>4, <2>5 DEF Ops, Steps
  <2>7. /\ o.step = "source" /\ o.kind = p.kind /\ o.user = p.user /\ o.app = p.app
        /\ o.host = p.host
    BY <1>1, <2>5 DEF Ops
  <2>8. p.host \in Hosts
    BY <1>6, AtStep DEF ReadStorage, HandlerOK
  <2>9. ProcessOK'
    <3>1. o.kind = "register" /\ o.user \in Users /\ o.app \in Apps /\ o.host \in Hosts
      BY <1>2, <2>7, <2>8
    <3>2. StepOf(o.kind, o.step)
      BY <2>7, <3>1 DEF StepOf
    <3>3. op' = [op EXCEPT ![q] = o] /\ UNCHANGED active
      BY <1>6, <2>5 DEF ReadStorage
    <3>4. QED
      BY <2>6, <3>1, <3>2, <3>3, MovedOK
  <2>10. QED
    BY <1>6, <2>9, Untouched DEF ReadStorage
<1>7. QED
  BY <1>5, <1>6

\* Commits to the source, deploy and control repositories.
LEMMA TypeRepository ==
  ASSUME LifecycleAssumption, TypeOK, NEW q \in Requests,
         \/ CommitSource(q) \/ EnsureRepo(q) \/ CommitManifests(q) \/ CommitRegistration(q)
  PROVE  TypeOK'
<1> USE DEF TypeOK
<1> DEFINE p == op[q]
<1>1. p \in Ops /\ HandlerOK(p)
  BY AtStep
<1>2. p.kind = "register" /\ p.user \in Users /\ p.app \in Apps /\ p.host \in Hosts
  BY <1>1, AtStep DEF CommitSource, EnsureRepo, CommitManifests, CommitRegistration, HandlerOK
<1>3. p.profile \in Profiles
  BY <1>1 DEF Ops
<1>4. StoreOK' /\ ClusterOK'
  BY DEF CommitSource, EnsureRepo, CommitManifests, CommitRegistration, StoreOK, ClusterOK,
         db, cluster, history
<1>5. CASE CommitSource(q)
  <2>1. ProcessOK'
    BY <1>2, <1>5, AnsweredOK DEF CommitSource, StepOf
  <2>2. GitOK'
    BY <1>2, <1>5 DEF CommitSource, GitOK
  <2>3. QED
    BY <1>4, <2>1, <2>2
<1>6. CASE EnsureRepo(q)
  <2>1. ProcessOK'
    BY <1>2, <1>6, AnsweredOK DEF EnsureRepo, StepOf
  <2>2. GitOK'
    BY <1>2, <1>6 DEF EnsureRepo, GitOK
  <2>3. QED
    BY <1>4, <2>1, <2>2
<1>7. CASE CommitManifests(q)
  <2>1. ProcessOK'
    BY <1>2, <1>7, AnsweredOK DEF CommitManifests, StepOf
  <2>2. [app |-> p.app, host |-> p.host, storage |-> p.profile] \in Manifests
    BY <1>2, <1>3 DEF Manifests
  <2>3. GitOK'
    BY <1>2, <1>7, <2>2 DEF CommitManifests, GitOK
  <2>4. QED
    BY <1>4, <2>1, <2>3
<1>8. CASE CommitRegistration(q)
  <2>1. ProcessOK'
    BY <1>8, EndOK DEF CommitRegistration
  <2>2. [app |-> p.app, storage |-> p.profile] \in RegistrationFiles
    BY <1>2, <1>3 DEF RegistrationFiles
  <2>3. GitOK'
    BY <1>2, <1>8, <2>2 DEF CommitRegistration, GitOK
  <2>4. QED
    BY <1>4, <2>1, <2>3
<1>9. QED
  BY <1>5, <1>6, <1>7, <1>8

\* Renaming a reservation keeps it a row.
LEMMA RenamedOK ==
  ASSUME StoreOK, NEW u \in Users
  PROVE  RowsRenamed(u) \subseteq Rows
<1>1. \A r \in Reserved(u) : [r EXCEPT !.anon = TRUE] \in Rows
  BY DEF StoreOK, Reserved, Rows
<1>2. QED
  BY <1>1 DEF StoreOK, RowsRenamed

\* Removal and account deletion.
LEMMA TypeRemoval ==
  ASSUME LifecycleAssumption, TypeOK, NEW q \in Requests, DeleteStep(q)
  PROVE  TypeOK'
<1> USE DEF TypeOK
<1> DEFINE p == op[q]
<1>1. p.kind \in {"delete", "account"} /\ p.user \in Users
  BY AtStep DEF DeleteStep, CommitRemoval, ArchiveRepo, FinishDelete, Anonymise
<1>2. CASE CommitRemoval(q)
  <2>1. ProcessOK'
    BY <1>1, <1>2, AnsweredOK DEF CommitRemoval, StepOf
  <2>2. StoreOK' /\ ClusterOK'
    BY <1>2 DEF CommitRemoval, StoreOK, ClusterOK, db, cluster
  <2>3. GitOK'
    BY <1>1, <1>2 DEF CommitRemoval, GitOK
  <2>4. QED
    BY <2>1, <2>2, <2>3
<1>3. CASE ArchiveRepo(q)
  <2>1. ProcessOK'
    BY <1>1, <1>3, GoOK DEF ArchiveRepo, StepOf
  <2>2. StoreOK' /\ ClusterOK'
    BY <1>3 DEF ArchiveRepo, StoreOK, ClusterOK, db, cluster, history
  <2>3. GitOK'
    BY <1>1, <1>3 DEF ArchiveRepo, GitOK
  <2>4. QED
    BY <2>1, <2>2, <2>3
<1>4. CASE FinishDelete(q)
  <2>1. ProcessOK'
    BY <1>1, <1>4, EndOK, GoOK DEF FinishDelete, StepOf
  <2>2. StoreOK' /\ ClusterOK' /\ GitOK'
    BY <1>4 DEF FinishDelete, StoreOK, ClusterOK, GitOK, git, cluster, history
  <2>3. QED
    BY <2>1, <2>2
<1>5. CASE Anonymise(q)
  <2>1. ProcessOK'
    BY <1>5, EndOK DEF Anonymise
  <2>2. slug' \in [Users -> Slugs \cup {None}]
    BY <1>1, <1>5 DEF Anonymise, StoreOK
  <2>3. reservations' \subseteq Rows
    BY <1>1, <1>5, RenamedOK DEF Anonymise
  <2>4. StoreOK' /\ ClusterOK' /\ GitOK'
    BY <1>5, <2>2, <2>3 DEF Anonymise, StoreOK, ClusterOK, GitOK, git, cluster, history
  <2>5. QED
    BY <2>1, <2>4
<1>6. QED
  BY <1>2, <1>3, <1>4, <1>5 DEF DeleteStep

\* Recovery: the plan, the probes, the release.
LEMMA TypeRecovery ==
  ASSUME LifecycleAssumption, TypeOK,
         \/ \E u \in Users : Inspect(u)
         \/ \E q \in Requests : ReleaseStep(q)
  PROVE  TypeOK'
<1> USE DEF TypeOK
<1>1. CASE \E u \in Users : Inspect(u)
  <2>1. PICK u \in Users : Inspect(u)
    BY <1>1
  <2>2. PICK r \in Reserved(u) : plan' = [plan EXCEPT ![u] = r.stamp]
    BY <2>1 DEF Inspect
  <2>3. r.stamp \in 0..MaxStamp
    BY <2>2, ConstantsOK DEF Reserved, StoreOK, Rows
  <2>4. plan' \in [Users -> 0..MaxStamp]
    BY <2>2, <2>3 DEF StoreOK
  <2>5. StoreOK' /\ ProcessOK'
    BY <2>1, <2>4 DEF Inspect, StoreOK, ProcessOK, db, history
  <2>6. GitOK' /\ ClusterOK'
    BY <2>1 DEF Inspect, GitOK, ClusterOK, git, cluster
  <2>7. QED
    BY <2>5, <2>6
<1>2. ASSUME NEW q \in Requests, NEW probe \in Probes, Probe(q, probe) PROVE TypeOK'
  <2> DEFINE p == op[q]
  <2>1. p \in Ops /\ HandlerOK(p) /\ p.kind = "release" /\ p.step = "probe"
    BY <1>2, AtStep DEF Probe
  <2>2. PICK b \in BOOLEAN : Probed(p, probe) = [p EXCEPT !.todo = p.todo \ {probe}, !.clear = b]
    <3>1. (p.clear /\ Clear(p.target, probe)) \in BOOLEAN
      OBVIOUS
    <3>2. QED
      BY <2>1, <3>1 DEF Probed, Ops
  <2>3. PICK o : o = Probed(p, probe)
    OBVIOUS
  <2>4. o \in Ops
    <3>1. PICK t \in SUBSET Probes : o = [p EXCEPT !.todo = t, !.clear = b]
      BY <2>1, <2>2, <2>3 DEF Ops
    <3>2. QED
      BY <2>1, <3>1 DEF Ops
  <2>5. o.kind = p.kind /\ o.step = p.step /\ o.user = p.user /\ o.target = p.target
    BY <2>1, <2>2, <2>3 DEF Ops
  <2>6. HandlerOK(o)
    BY <2>1, <2>5 DEF HandlerOK
  <2>7. ProcessOK'
    BY <1>2, <2>3, <2>4, <2>6 DEF Probe, ProcessOK
  <2>8. QED
    BY <1>2, <2>7, Untouched DEF Probe
<1>3. ASSUME NEW q \in Requests, Recover(q) PROVE TypeOK'
  <2>1. ProcessOK'
    BY <1>3, EndOK DEF Recover
  <2>2. StoreOK' /\ GitOK' /\ ClusterOK'
    BY <1>3 DEF Recover, StoreOK, GitOK, ClusterOK, git, cluster, history
  <2>3. QED
    BY <2>1, <2>2
<1>4. QED
  BY <1>1, <1>2, <1>3 DEF ReleaseStep

\* Environment changes.
LEMMA TypeEnv ==
  ASSUME LifecycleAssumption, TypeOK, NEW q \in Requests, EnvStep(q)
  PROVE  TypeOK'
<1> USE DEF TypeOK
<1>1. CASE WriteEnv(q)
  <2>1. op[q].kind = "env" /\ op[q].user \in Users /\ op[q].app \in Apps
    BY <1>1, AtStep DEF WriteEnv
  <2>2. ProcessOK'
    BY <1>1, <2>1, AnsweredOK DEF WriteEnv, StepOf
  <2>3. StoreOK' /\ GitOK'
    BY <1>1 DEF WriteEnv, StoreOK, GitOK, db, git, history
  <2>4. secret' \in [Users -> Apps \cup {None}]
    BY <1>1, <2>1 DEF WriteEnv, ClusterOK
  <2>5. ClusterOK'
    BY <1>1, <2>4 DEF WriteEnv, ClusterOK, cluster
  <2>6. QED
    BY <2>2, <2>3, <2>5
<1>2. CASE TriggerRestart(q)
  BY <1>2, EndOK, Untouched DEF TriggerRestart
<1>3. QED
  BY <1>1, <1>2 DEF EnvStep

\* Sign-in, the allowlist and the retention cron take no lock.
LEMMA TypeOutsideLock ==
  ASSUME LifecycleAssumption, TypeOK,
         (\E u \in Users : SignIn(u) \/ SetAllowed(u)) \/ Cleanup
  PROVE  TypeOK'
<1> USE DEF TypeOK
<1>1. CASE \E u \in Users : SignIn(u) \/ SetAllowed(u)
  <2>1. ProcessOK'
    BY <1>1 DEF SignIn, SetAllowed, ProcessOK
  <2>2. StoreOK'
    BY <1>1 DEF SignIn, SetAllowed, StoreOK, history
  <2>3. GitOK' /\ ClusterOK'
    BY <1>1 DEF SignIn, SetAllowed, GitOK, ClusterOK, git, cluster
  <2>4. QED
    BY <2>1, <2>2, <2>3
<1>2. CASE ListArchived
  BY <1>2 DEF ListArchived, ProcessOK, StoreOK, GitOK, ClusterOK, db, git, cluster, history
<1>3. ASSUME NEW u \in Users, DeleteExpired(u) PROVE TypeOK'
  <2>1. ProcessOK' /\ StoreOK' /\ ClusterOK'
    BY <1>3 DEF DeleteExpired, ProcessOK, StoreOK, ClusterOK, db, cluster, history
  <2>2. GitOK'
    BY <1>3 DEF DeleteExpired, GitOK
  <2>3. QED
    BY <2>1, <2>2
<1>4. QED
  BY <1>1, <1>2, <1>3 DEF Cleanup

\* Argo CD, the cluster and Prometheus.
LEMMA TypeCluster ==
  ASSUME LifecycleAssumption, TypeOK,
         (\E u \in Users : ClusterStep(u) \/ LosePods(u)) \/ Scrape
  PROVE  TypeOK'
<1> USE DEF TypeOK
<1>1. ASSUME UNCHANGED External PROVE ProcessOK' /\ StoreOK' /\ GitOK' /\ UNCHANGED expired
  BY <1>1 DEF External, ProcessOK, StoreOK, GitOK, db, git, history
<1>2. ASSUME NEW u \in Users, CreateApplication(u) PROVE TypeOK'
  <2>1. registration[u].app \in Apps
    BY <1>2 DEF CreateApplication, Registered, GitOK, RegistrationFiles
  <2>2. ClusterOK'
    BY <1>1, <1>2, <2>1 DEF CreateApplication, ClusterOK
  <2>3. QED
    BY <1>1, <1>2, <2>2 DEF CreateApplication
<1>3. ASSUME NEW u \in Users, SyncApplication(u) PROVE TypeOK'
  BY <1>1, <1>3 DEF SyncApplication, ClusterOK
<1>4. ASSUME NEW u \in Users, PruneApplication(u) PROVE TypeOK'
  BY <1>1, <1>4 DEF PruneApplication, ClusterOK
<1>5. ASSUME NEW u \in Users, RemoveNamespace(u) PROVE TypeOK'
  BY <1>1, <1>5 DEF RemoveNamespace, ClusterOK
<1>6. ASSUME NEW u \in Users, RemoveApplication(u) PROVE TypeOK'
  BY <1>1, <1>6 DEF RemoveApplication, ClusterOK
<1>7. ASSUME NEW u \in Users, RemoveVolume(u) \/ LosePods(u) PROVE TypeOK'
  BY <1>1, <1>7 DEF RemoveVolume, LosePods, ClusterOK
<1>8. CASE Scrape
  BY <1>1, <1>8 DEF Scrape, ClusterOK
<1>9. QED
  BY <1>2, <1>3, <1>4, <1>5, <1>6, <1>7, <1>8 DEF ClusterStep

LEMMA TypeNext ==
  ASSUME LifecycleAssumption, TypeOK, [Next]_vars PROVE TypeOK'
<1>1. ASSUME NEW q \in Requests, Handler(q) PROVE TypeOK'
  BY <1>1, TypeFail, TypeCurrent, TypeAdmission, TypeHost, TypeRepository, TypeRemoval,
     TypeEnv, TypeRecovery DEF Handler, RegisterStep
<1>2. CASE UNCHANGED vars
  <2>1. ProcessOK' /\ StoreOK'
    BY <1>2 DEF TypeOK, ProcessOK, StoreOK, vars, db, history
  <2>2. GitOK' /\ ClusterOK'
    BY <1>2 DEF TypeOK, GitOK, ClusterOK, vars, git, cluster
  <2>3. QED
    BY <2>1, <2>2 DEF TypeOK
<1>3. QED
  BY <1>1, <1>2, TypeBegins, TypeCrash, TypeRecovery, TypeOutsideLock, TypeCluster DEF Next

\* Every reachable state is well formed: each handler holds the locals its step
\* reads, access is only given to accounts that exist, pods run in namespaces.
THEOREM TypeCorrect == Spec => []TypeOK
<1>1. Init => TypeOK
  BY TypeInit, LifecycleAssumption
<1>2. TypeOK /\ [Next]_vars => TypeOK'
  BY TypeNext, LifecycleAssumption
<1>3. QED
  BY <1>1, <1>2, PTL DEF Spec

-----------------------------------------------------------------------------
(* The backend implements the keyed mutex                                  *)

\* A handler's step that keeps its keys: it goes on, with kind and account unchanged.
Continues(q) ==
  /\ UNCHANGED active
  /\ \E o : /\ op' = [op EXCEPT ![q] = o]
            /\ o.kind = op[q].kind /\ o.user = op[q].user /\ o.step # "idle"

LEMMA GoContinues ==
  ASSUME ProcessOK, NEW q \in Requests, NEW step, Go(q, step), step # "idle"
  PROVE  Continues(q)
<1>1. op[q] \in Ops
  BY DEF ProcessOK
<1>2. PICK o : o = [op[q] EXCEPT !.step = step]
  OBVIOUS
<1>3. o.kind = op[q].kind /\ o.user = op[q].user /\ o.step = step
  BY <1>1, <1>2 DEF Ops
<1>4. op' = [op EXCEPT ![q] = o] /\ UNCHANGED active
  BY <1>2 DEF Go
<1>5. QED
  BY <1>3, <1>4 DEF Continues

LEMMA AnsweredContinues ==
  ASSUME ProcessOK, NEW q \in Requests, NEW step, Answered(q, step) \/ Abort(q), step # "idle"
  PROVE  Continues(q) \/ End(q)
<1>1. CASE Go(q, step)
  BY <1>1, GoContinues
<1>2. CASE Go(q, "anonymise")
  BY <1>2, GoContinues
<1>3. QED
  BY <1>1, <1>2 DEF Answered, Abort

\* Every step of a handler keeps all its keys or settles.
LEMMA HandlerKeepsOrSettles ==
  ASSUME TypeOK, NEW q \in Requests, Handler(q)
  PROVE  op[q].step # "idle" /\ (Continues(q) \/ End(q))
<1>1. ProcessOK /\ op[q] \in Ops
  BY AtStep DEF TypeOK
<1>2. op[q].step # "idle"
  BY DEF Handler, Fail, RegisterStep, DeleteStep, EnvStep, ReleaseStep, ReadRegistration,
         ReadApplication, ReadMetrics, Admit, Decline, ClaimHost, ReadStorage, CommitSource,
         EnsureRepo, CommitManifests, CommitRegistration, CommitRemoval, ArchiveRepo,
         FinishDelete, Anonymise, WriteEnv, TriggerRestart, Probe, Recover
<1>3. CASE Fail(q)
  BY <1>1, <1>3, GoContinues, AnsweredContinues DEF Fail, AfterFailure
<1>4. CASE DeleteStep(q) \/ EnvStep(q)
  BY <1>1, <1>4, GoContinues, AnsweredContinues
     DEF DeleteStep, EnvStep, CommitRemoval, ArchiveRepo, FinishDelete, Anonymise, WriteEnv,
         TriggerRestart
<1>5. ASSUME NEW probe \in Probes, Probe(q, probe) PROVE Continues(q)
  <2>1. PICK b, o : /\ o = [op[q] EXCEPT !.todo = op[q].todo \ {probe}, !.clear = b]
                    /\ o = Probed(op[q], probe)
    BY DEF Probed
  <2>2. o.kind = op[q].kind /\ o.user = op[q].user /\ o.step = op[q].step
    BY <1>1, <2>1 DEF Ops
  <2>3. op' = [op EXCEPT ![q] = o] /\ UNCHANGED active
    BY <1>5, <2>1 DEF Probe
  <2>4. QED
    BY <1>2, <2>2, <2>3 DEF Continues
<1>6. CASE ReadApplication(q) \/ Admit(q) \/ Decline(q) \/ Recover(q)
  BY <1>1, <1>6, GoContinues DEF ReadApplication, Admit, Decline, Recover
<1>7. CASE CommitSource(q) \/ EnsureRepo(q) \/ CommitManifests(q) \/ CommitRegistration(q)
  BY <1>1, <1>7, GoContinues, AnsweredContinues
     DEF CommitSource, EnsureRepo, CommitManifests, CommitRegistration
<1>8. CASE ReadRegistration(q) \/ ReadMetrics(q)
  <2>1. ASSUME NEW st, st # "idle", NEW x, UNCHANGED active,
               \/ op' = [op EXCEPT ![q] = [op[q] EXCEPT !.step = st, !.reg = x]]
               \/ op' = [op EXCEPT ![q] = [op[q] EXCEPT !.step = st, !.seen = x]]
        PROVE  Continues(q)
    <3>1. PICK o : /\ op' = [op EXCEPT ![q] = o]
                   /\ \/ o = [op[q] EXCEPT !.step = st, !.reg = x]
                      \/ o = [op[q] EXCEPT !.step = st, !.seen = x]
      BY <2>1
    <3>2. o.kind = op[q].kind /\ o.user = op[q].user /\ o.step = st
      BY <1>1, <3>1 DEF Ops
    <3>3. QED
      BY <2>1, <3>1, <3>2 DEF Continues
  <2>2. op \in [Requests -> Ops]
    BY <1>1 DEF ProcessOK
  <2>3. QED
    BY <1>8, <2>1, <2>2 DEF ReadRegistration, ReadMetrics
<1>9. CASE ClaimHost(q) \/ ReadStorage(q)
  <2>1. ASSUME NEW st, st # "idle", NEW x, UNCHANGED active,
               \/ op' = [op EXCEPT ![q] = [op[q] EXCEPT !.step = st, !.host = x]]
               \/ op' = [op EXCEPT ![q] = [op[q] EXCEPT !.step = st, !.profile = x]]
        PROVE  Continues(q)
    <3>1. PICK o : /\ op' = [op EXCEPT ![q] = o]
                   /\ \/ o = [op[q] EXCEPT !.step = st, !.host = x]
                      \/ o = [op[q] EXCEPT !.step = st, !.profile = x]
      BY <2>1
    <3>2. o.kind = op[q].kind /\ o.user = op[q].user /\ o.step = st
      BY <1>1, <3>1 DEF Ops
    <3>3. QED
      BY <2>1, <3>1, <3>2 DEF Continues
  <2>2. op \in [Requests -> Ops]
    BY <1>1 DEF ProcessOK
  <2>3. QED
    BY <1>9, <2>1, <2>2 DEF ClaimHost, ReadStorage
<1>10. QED
  BY <1>2, <1>3, <1>4, <1>5, <1>6, <1>7, <1>8, <1>9 DEF Handler, RegisterStep, ReleaseStep

LEMMA ContinuesStutters ==
  ASSUME ProcessOK, NEW q \in Requests, op[q].step # "idle", Continues(q)
  PROVE  UNCHANGED <<active, HeldKeys>>
BY DEF ProcessOK, Continues, HeldKeys, Keys

LEMMA EndSettles ==
  ASSUME ProcessOK, NEW q \in Requests, op[q].step # "idle", End(q)
  PROVE  Mutex!Settle(q)
<1>1. HeldKeys[q] = Keys(op[q].user, op[q].kind)
  BY DEF HeldKeys
<1>2. HeldKeys' = [HeldKeys EXCEPT ![q] = {}]
  BY DEF ProcessOK, End, HeldKeys, Idle
<1>3. HeldKeys[q] # {}
  BY <1>1 DEF Keys
<1>4. QED
  BY <1>1, <1>2, <1>3 DEF Mutex!Settle, End

LEMMA BeginAcquires ==
  ASSUME ProcessOK, NEW q \in Requests, NEW o, Begin(q, o), o.step # "idle",
         o.user \in Accounts
  PROVE  Mutex!LockNext
<1>1. HeldKeys[q] = {}
  BY DEF HeldKeys, Begin
<1>2. HeldKeys' = [HeldKeys EXCEPT ![q] = Keys(o.user, o.kind)]
  BY DEF ProcessOK, Begin, HeldKeys
<1>3. Keys(o.user, o.kind) \in {{a} : a \in Accounts} \cup {{a, Registration} : a \in Accounts}
  BY DEF Keys
<1>4. Mutex!Acquire(q, Keys(o.user, o.kind))
  BY <1>1, <1>2, <1>3 DEF Mutex!Acquire, Begin
<1>5. QED
  BY <1>3, <1>4 DEF Mutex!LockNext

LEMMA BeginsAcquires ==
  ASSUME ProcessOK, NEW q \in Requests, NEW u \in Users, Begins(q, u)
  PROVE  Mutex!LockNext
<1> DEFINE Starts(o) == Begin(q, o) /\ o.step # "idle" /\ o.user \in Accounts
<1>1. CASE BeginRegister(q, u)
  <2>1. PICK a, s, d, o :
          /\ a \in Apps /\ s \in Slugs \cup {None} /\ d \in Detections
          /\ o = [Idle EXCEPT !.kind = "register", !.user = u, !.step = "registration",
                              !.app = a, !.slug = s, !.detected = d]
          /\ Begin(q, o)
    BY <1>1 DEF BeginRegister
  <2>2. Starts(o)
    BY <2>1 DEF Idle, Accounts
  <2>3. QED
    BY <2>2, BeginAcquires
<1>2. CASE BeginDelete(q, u) \/ BeginDeleteAccount(q, u)
  <2>1. PICK kind, step, o : /\ o = [Idle EXCEPT !.kind = kind, !.user = u, !.step = step]
                             /\ step # "idle" /\ Begin(q, o)
    BY <1>2 DEF BeginDelete, BeginDeleteAccount
  <2>2. Starts(o)
    BY <2>1 DEF Idle, Accounts
  <2>3. QED
    BY <2>2, BeginAcquires
<1>3. CASE BeginRelease(q, u)
  <2>1. PICK o : /\ o = [Idle EXCEPT !.kind = "release", !.user = Admin, !.step = "probe",
                                     !.target = u, !.digest = plan[u], !.todo = Probes]
                 /\ Begin(q, o)
    BY <1>3 DEF BeginRelease
  <2>2. Starts(o)
    BY <2>1 DEF Idle, Accounts
  <2>3. QED
    BY <2>2, BeginAcquires
<1>4. CASE BeginEnv(q, u)
  <2>1. PICK a, o :
          /\ o = [Idle EXCEPT !.kind = "env", !.user = u, !.step = "registration", !.app = a]
          /\ Begin(q, o)
    BY <1>4 DEF BeginEnv
  <2>2. Starts(o)
    BY <2>1 DEF Idle, Accounts
  <2>3. QED
    BY <2>2, BeginAcquires
<1>5. QED
  BY <1>1, <1>2, <1>3, <1>4 DEF Begins

LEMMA CrashRestarts ==
  ASSUME Crash PROVE Mutex!Restart
BY DEF Crash, Mutex!Restart, HeldKeys, Idle

\* Each step of the backend and its surroundings is a step of the mutex or a stutter.
LEMMA LockStep ==
  ASSUME TypeOK, [Next]_vars PROVE [Mutex!LockNext]_<<active, HeldKeys>>
<1>1. ProcessOK
  BY DEF TypeOK
<1>2. ASSUME NEW q \in Requests, Handler(q) PROVE [Mutex!LockNext]_<<active, HeldKeys>>
  BY <1>1, <1>2, HandlerKeepsOrSettles, ContinuesStutters, EndSettles DEF Mutex!LockNext
<1>3. ASSUME UNCHANGED <<op, active>> PROVE UNCHANGED <<active, HeldKeys>>
  BY <1>3 DEF HeldKeys
<1>4. ASSUME NEW u \in Users, Inspect(u) \/ SignIn(u) \/ SetAllowed(u)
      PROVE  UNCHANGED <<op, active>>
  BY <1>4 DEF Inspect, SignIn, SetAllowed
<1>5. ASSUME NEW u \in Users, ClusterStep(u) \/ LosePods(u) PROVE UNCHANGED <<op, active>>
  BY <1>5 DEF ClusterStep, LosePods, CreateApplication, SyncApplication, PruneApplication,
              RemoveNamespace, RemoveApplication, RemoveVolume, External
<1>6. ASSUME Scrape \/ Cleanup PROVE UNCHANGED <<op, active>>
  BY <1>6 DEF Scrape, Cleanup, ListArchived, DeleteExpired, External
<1>7. CASE Crash
  BY <1>7, CrashRestarts DEF Mutex!LockNext
<1>8. CASE UNCHANGED vars
  BY <1>3, <1>8 DEF vars
<1>9. CASE \E q \in Requests : (\E u \in Users : Begins(q, u)) \/ Handler(q)
  BY <1>1, <1>2, <1>9, BeginsAcquires
<1>10. QED
  BY <1>3, <1>4, <1>5, <1>6, <1>7, <1>8, <1>9 DEF Next

\* The mutations of the backend take and give back their keys as KeyedMutex says,
\* whatever step fails and wherever the process stops.
THEOREM Refinement == Spec => ImplementsKeyedMutex
<1>1. Init => Mutex!LockInit
  BY DEF Init, Mutex!LockInit, HeldKeys, Idle
<1>2. TypeOK /\ [Next]_vars => [Mutex!LockNext]_(Mutex!lockVars)
  BY LockStep DEF Mutex!lockVars
<1>3. QED
  BY <1>1, <1>2, TypeCorrect, PTL DEF Spec, ImplementsKeyedMutex, Mutex!LockSpec

Lock == INSTANCE KeyedMutexProofs WITH
          Processes <- Requests, held <- HeldKeys,
          KeySets <- {{a} : a \in Accounts} \cup {{a, Registration} : a \in Accounts}

\* No two mutations hold one key: in particular at most one of all registrations,
\* removals, account deletions and recoveries runs, and no key is ever left behind.
THEOREM Serialised == Spec => []RegistrationSerialised
<1>1. {} \notin {{a} : a \in Accounts} \cup {{a, Registration} : a \in Accounts}
  OBVIOUS
<1>2. Lock!LockSpec => []Lock!LockInv
  BY <1>1, Lock!LockSafety
<1>3. Mutex!LockInit => Lock!LockInit
  BY DEF Mutex!LockInit, Lock!LockInit
<1>4. [Mutex!LockNext]_(Mutex!lockVars) => [Lock!LockNext]_(Lock!lockVars)
  BY DEF Mutex!LockNext, Mutex!lockVars, Mutex!Acquire, Mutex!Settle, Mutex!Restart,
         Lock!LockNext, Lock!lockVars, Lock!Acquire, Lock!Settle, Lock!Restart
<1>5. Lock!LockInv => RegistrationSerialised
  BY DEF Lock!LockInv, Lock!Exclusive, Lock!NoLeak, RegistrationSerialised,
         Mutex!LockInv, Mutex!Exclusive, Mutex!NoLeak
<1>6. QED
  BY <1>2, <1>3, <1>4, <1>5, Refinement, PTL
     DEF ImplementsKeyedMutex, Mutex!LockSpec, Lock!LockSpec

-----------------------------------------------------------------------------
(* The admission ledger never promises more than the node has above its    *)
(* headroom, for any node, any reservation size and any number of users.   *)

\* login is the primary key of admission_reservations.
OneRowPerLogin ==
  \A r, s \in reservations : ~r.anon /\ ~s.anon /\ r.user = s.user => r = s

\* What capacity n rows leave.
RowsFit(n) == n * ReserveUnits + Headroom <= Allocatable

LedgerInv == /\ IsFiniteSet(reservations)
             /\ OneRowPerLogin
             /\ ReservationsFit

LEMMA FewerRowsFit ==
  ASSUME LifecycleAssumption, NEW m \in Nat, NEW n \in Nat, m <= n, RowsFit(n)
  PROVE  RowsFit(m)
<1>1. PICK d \in Nat : n = m + d
  <2>1. n - m \in Nat /\ n = m + (n - m)
    OBVIOUS
  <2>2. QED
    BY <2>1
<1>2. n * ReserveUnits = m * ReserveUnits + d * ReserveUnits
  BY <1>1, ConstantsOK
<1>3. d * ReserveUnits \in Nat /\ m * ReserveUnits \in Nat
  BY <1>1, ConstantsOK
<1>4. QED
  BY <1>2, <1>3, ConstantsOK DEF RowsFit

\* A ledger with no more rows than before fits as before.
LEMMA NoMoreRows ==
  ASSUME LifecycleAssumption, LedgerInv, NEW S, IsFiniteSet(S),
         Cardinality(S) <= Cardinality(reservations)
  PROVE  Cardinality(S) * ReserveUnits + Headroom <= Allocatable \/ S = {}
<1>1. Cardinality(S) \in Nat /\ Cardinality(reservations) \in Nat
  BY FS_CardinalityType DEF LedgerInv
<1>2. CASE reservations = {}
  BY <1>1, <1>2, FS_EmptySet
<1>3. CASE reservations # {}
  BY <1>1, <1>3, FewerRowsFit DEF LedgerInv, ReservationsFit, RowsFit
<1>4. QED
  BY <1>2, <1>3

\* A login has at most one row.
LEMMA ReservedCardinality ==
  ASSUME LedgerInv, NEW u
  PROVE  Reserved(u) = {} \/ \E r \in reservations : ~r.anon /\ r.user = u /\ Reserved(u) = {r}
BY DEF LedgerInv, OneRowPerLogin, Reserved

\* Rows only go.
LEMMA LedgerShrinks ==
  ASSUME LifecycleAssumption, LedgerInv, reservations' \subseteq reservations
  PROVE  LedgerInv'
<1>1. IsFiniteSet(reservations') /\ Cardinality(reservations') <= Cardinality(reservations)
  BY FS_Subset DEF LedgerInv
<1>2. ReservationsFit'
  BY <1>1, NoMoreRows DEF ReservationsFit
<1>3. QED
  BY <1>1, <1>2 DEF LedgerInv, OneRowPerLogin

\* An admission: what the snapshot shows is dropped, the rest was weighed together
\* with the newcomer.
LEMMA LedgerAdmit ==
  ASSUME LifecycleAssumption, TypeOK, LedgerInv, NEW q \in Requests, Admit(q)
  PROVE  LedgerInv'
<1> DEFINE u == op[q].user
           seen == op[q].seen
           kept == {r \in reservations : ~Observed(r, seen)}
           new == [user |-> u, stamp |-> clock + 1, anon |-> FALSE]
<1>1. seen \subseteq Users /\ u \notin seen /\ u \in Users
  <2>1. op[q] \in Ops /\ u \in Users
    BY AtStep DEF TypeOK, Admit
  <2>2. QED
    BY <2>1 DEF Ops, Admit
<1>2. reservations' = kept \cup IF Reserved(u) = {} THEN {new} ELSE {}
  BY DEF Admit, RowsAfter
<1>3. IsFiniteSet(kept) /\ Cardinality(kept) \in Nat
  BY FS_Subset, FS_CardinalityType DEF LedgerInv
<1>4. OneRowPerLogin'
  <2>1. CASE Reserved(u) = {}
    <3>1. reservations' = kept \cup {new} /\ new.user = u
      BY <1>2, <2>1
    <3>2. \A r \in kept : r.anon \/ r.user # u
      BY <2>1 DEF Reserved
    <3>3. QED
      BY <3>1, <3>2 DEF LedgerInv, OneRowPerLogin
  <2>2. CASE Reserved(u) # {}
    BY <1>2, <2>2 DEF LedgerInv, OneRowPerLogin
  <2>3. QED
    BY <2>1, <2>2
<1>5. IsFiniteSet(reservations') /\ Cardinality(reservations') <= Cardinality(Unobserved(u, seen)) + 1
  <2>1. Unobserved(u, seen) = kept \ Reserved(u)
    BY DEF Unobserved
  <2>2. CASE Reserved(u) = {}
    <3>1. Unobserved(u, seen) = kept /\ reservations' = kept \cup {new}
      BY <1>2, <2>1, <2>2
    <3>2. /\ IsFiniteSet(kept \cup {new})
          /\ \/ Cardinality(kept \cup {new}) = Cardinality(kept)
             \/ Cardinality(kept \cup {new}) = Cardinality(kept) + 1
      BY <1>3, FS_AddElement
    <3>3. QED
      BY <1>3, <3>1, <3>2
  <2>3. CASE Reserved(u) # {}
    <3>1. PICK r \in reservations : ~r.anon /\ r.user = u /\ Reserved(u) = {r}
      BY <2>3, ReservedCardinality
    <3>2. reservations' = kept /\ Unobserved(u, seen) = kept \ {r}
      BY <1>2, <2>1, <2>3, <3>1
    <3>3. \/ Cardinality(kept \ {r}) = Cardinality(kept)
          \/ Cardinality(kept \ {r}) = Cardinality(kept) - 1
      BY <1>3, FS_RemoveElement
    <3>4. QED
      BY <1>3, <3>2, <3>3
  <2>4. QED
    BY <2>2, <2>3
<1>6. RowsFit(Cardinality(Unobserved(u, seen)) + 1)
  <2>1. IsFiniteSet(seen) /\ Cardinality(seen) \in Nat
    BY <1>1, FS_Subset, FS_CardinalityType DEF LifecycleAssumption
  <2>2. IsFiniteSet(Unobserved(u, seen)) /\ Cardinality(Unobserved(u, seen)) \in Nat
    <3>1. Unobserved(u, seen) \subseteq reservations
      BY DEF Unobserved
    <3>2. QED
      BY <3>1, FS_Subset, FS_CardinalityType DEF LedgerInv
  <2>3. Fits(u, seen)
    BY DEF Admit
  <2>4. /\ Cardinality(seen) * PodUnits \in Nat
        /\ (Cardinality(Unobserved(u, seen)) + 1) * ReserveUnits \in Nat
    BY <2>1, <2>2, ConstantsOK
  <2>5. QED
    BY <2>3, <2>4, ConstantsOK DEF Fits, RowsFit
<1>7. ReservationsFit'
  <2>1. Cardinality(reservations') \in Nat /\ Cardinality(Unobserved(u, seen)) + 1 \in Nat
    <3>1. Unobserved(u, seen) \subseteq reservations
      BY DEF Unobserved
    <3>2. IsFiniteSet(Unobserved(u, seen))
      BY <3>1, FS_Subset DEF LedgerInv
    <3>3. QED
      BY <1>5, <3>2, FS_CardinalityType
  <2>2. RowsFit(Cardinality(reservations'))
    BY <1>5, <1>6, <2>1, FewerRowsFit
  <2>3. QED
    BY <2>2 DEF ReservationsFit, RowsFit
<1>8. QED
  BY <1>4, <1>5, <1>7 DEF LedgerInv

\* Erasing an account renames its row, if it has one.
LEMMA LedgerAnonymise ==
  ASSUME LifecycleAssumption, TypeOK, LedgerInv, NEW q \in Requests, Anonymise(q)
  PROVE  LedgerInv'
<1> DEFINE u == op[q].user
<1>1. reservations' = RowsRenamed(u)
  BY DEF Anonymise
<1>2. CASE Reserved(u) = {}
  <2>1. reservations' \subseteq reservations
    BY <1>1, <1>2 DEF RowsRenamed
  <2>2. QED
    BY <2>1, LedgerShrinks
<1>3. CASE Reserved(u) # {}
  <2>1. PICK r \in reservations : ~r.anon /\ r.user = u /\ Reserved(u) = {r}
    BY <1>3, ReservedCardinality
  <2>2. PICK a : a = [r EXCEPT !.anon = TRUE]
    OBVIOUS
  <2>3. reservations' = (reservations \ {r}) \cup {a}
    BY <1>1, <2>1, <2>2 DEF RowsRenamed
  <2>4. a.anon
    BY <2>1, <2>2 DEF TypeOK, StoreOK, Rows
  <2>5. IsFiniteSet(reservations') /\ Cardinality(reservations') <= Cardinality(reservations)
    <3>1. /\ IsFiniteSet(reservations \ {r})
          /\ Cardinality(reservations \ {r}) = Cardinality(reservations) - 1
      BY <2>1, FS_RemoveElement DEF LedgerInv
    <3>2. Cardinality(reservations) \in Nat /\ Cardinality(reservations \ {r}) \in Nat
      BY <3>1, FS_CardinalityType DEF LedgerInv
    <3>3. PICK S : S = reservations \ {r}
      OBVIOUS
    <3>4. /\ IsFiniteSet(S \cup {a})
          /\ \/ Cardinality(S \cup {a}) = Cardinality(S)
             \/ Cardinality(S \cup {a}) = Cardinality(S) + 1
      BY <3>1, <3>3, FS_AddElement
    <3>5. QED
      BY <2>3, <3>1, <3>2, <3>3, <3>4
  <2>6. ReservationsFit'
    BY <2>5, NoMoreRows DEF ReservationsFit
  <2>7. OneRowPerLogin'
    BY <2>3, <2>4 DEF LedgerInv, OneRowPerLogin
  <2>8. QED
    BY <2>5, <2>6, <2>7 DEF LedgerInv
<1>4. QED
  BY <1>2, <1>3

\* Every other step leaves the rows alone or deletes some.
LEMMA LedgerElsewhere ==
  ASSUME Next
  PROVE  \/ reservations' \subseteq reservations
         \/ \E q \in Requests : Admit(q) \/ Anonymise(q)
<1>1. ASSUME NEW q \in Requests, NEW u \in Users, Begins(q, u)
      PROVE  reservations' \subseteq reservations
  BY <1>1 DEF Begins, BeginRegister, BeginDelete, BeginDeleteAccount, BeginRelease, BeginEnv, db
<1>2. ASSUME NEW q \in Requests, Fail(q) \/ EnvStep(q) \/ ReleaseStep(q)
      PROVE  reservations' \subseteq reservations
  BY <1>2 DEF Fail, EnvStep, WriteEnv, TriggerRestart, ReleaseStep, Probe, Recover, db
<1>3. ASSUME NEW q \in Requests, RegisterStep(q), ~Admit(q)
      PROVE  reservations' \subseteq reservations
  BY <1>3 DEF RegisterStep, ReadRegistration, ReadApplication, ReadMetrics, Decline, ClaimHost,
              ReadStorage, CommitSource, EnsureRepo, CommitManifests, CommitRegistration, db
<1>4. ASSUME NEW q \in Requests, DeleteStep(q), ~Anonymise(q)
      PROVE  reservations' \subseteq reservations
  BY <1>4 DEF DeleteStep, CommitRemoval, ArchiveRepo, FinishDelete, db
<1>5. ASSUME NEW u \in Users, Inspect(u) \/ SignIn(u) \/ SetAllowed(u)
      PROVE  reservations' \subseteq reservations
  BY <1>5 DEF Inspect, SignIn, SetAllowed, db
<1>6. ASSUME NEW u \in Users, ClusterStep(u) \/ LosePods(u)
      PROVE  reservations' \subseteq reservations
  BY <1>6 DEF ClusterStep, LosePods, CreateApplication, SyncApplication, PruneApplication,
              RemoveNamespace, RemoveApplication, RemoveVolume, External, db
<1>7. ASSUME Scrape \/ Cleanup \/ Crash PROVE reservations' \subseteq reservations
  BY <1>7 DEF Scrape, Cleanup, ListArchived, DeleteExpired, Crash, External, db
<1>8. QED
  BY <1>1, <1>2, <1>3, <1>4, <1>5, <1>6, <1>7 DEF Next, Handler

LEMMA LedgerInit == ASSUME Init PROVE LedgerInv
BY FS_EmptySet DEF Init, LedgerInv, OneRowPerLogin, ReservationsFit

LEMMA LedgerStep ==
  ASSUME LifecycleAssumption, TypeOK, LedgerInv, [Next]_vars PROVE LedgerInv'
<1>1. CASE Next
  BY <1>1, LedgerElsewhere, LedgerShrinks, LedgerAdmit, LedgerAnonymise
<1>2. CASE UNCHANGED vars
  BY <1>2 DEF vars, db, LedgerInv, OneRowPerLogin, ReservationsFit
<1>3. QED
  BY <1>1, <1>2

\* The admitted reservations together leave the headroom free, whatever the order
\* of admissions, removals, erasures, recoveries and crashes.
THEOREM LedgerFits == Spec => []ReservationsFit
<1>1. Init => LedgerInv
  BY LedgerInit
<1>2. TypeOK /\ LedgerInv /\ [Next]_vars => LedgerInv'
  BY LedgerStep, LifecycleAssumption
<1>3. LedgerInv => ReservationsFit
  BY DEF LedgerInv
<1>4. QED
  BY <1>1, <1>2, <1>3, TypeCorrect, PTL DEF Spec
=============================================================================
