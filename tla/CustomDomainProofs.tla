------------------------- MODULE CustomDomainProofs -------------------------
(***************************************************************************)
(* RouteProven and ShownIsRecorded for any accounts, domains and requests. *)
(* DomainInv is inductive: a handler that resumes after an await acts on   *)
(* the row it remembers, by id, so the proof shows for every step that     *)
(* rows change only in ways what is remembered survives (Kept).            *)
(***************************************************************************)
EXTENDS CustomDomain, TLAPS

\* How a step may change rows: an id keeps its domain and its recorded commit, and
\* an id that is gone does not come back.
Kept ==
  /\ nextId <= nextId' /\ proven \subseteq proven'
  /\ \A u \in Users :
       \/ row'[u].id \notin 1..(nextId - 1)
       \/ /\ row'[u].id = row[u].id /\ row'[u].domain = row[u].domain
          /\ row[u].applied => row'[u].applied

LEMMA RowFacts ==
  ASSUME DomainAssumption, TableOK, NEW u \in Users
  PROVE  /\ row[u] \in RowsOfTable \cup {NoRow}
         /\ row[u].id \in 0..MaxId /\ row[u].id < nextId
         /\ row[u].id = 0 <=> row[u] = NoRow
         /\ row[u] # NoRow => row[u] \in RowsOfTable
<1>1. row[u] \in RowsOfTable \cup {NoRow} /\ row[u].id < nextId
  BY DEF TableOK
<1>2. CASE row[u] = NoRow
  BY <1>1, <1>2 DEF NoRow, DomainAssumption
<1>3. CASE row[u] # NoRow
  <2>1. row[u] \in RowsOfTable /\ row[u].id \in 1..MaxId
    BY <1>1, <1>3 DEF RowsOfTable
  <2>2. QED
    BY <1>1, <1>3, <2>1 DEF DomainAssumption
<1>4. QED
  BY <1>2, <1>3

LEMMA OpFacts ==
  ASSUME OpOK, NEW q \in Requests
  PROVE  /\ op[q] \in Ops /\ HandlerOK(op[q])
         /\ op[q].kind = "none" <=> op[q].step = "idle"
         /\ op[q].step # "idle" => op[q].user \in Users
         /\ op[q].step \in WithRow => op[q].row \in RowsOfTable
         /\ op[q].row # NoRow => op[q].row \in RowsOfTable /\ op[q].user \in Users
<1>1. op[q] \in Ops /\ HandlerOK(op[q])
  BY DEF OpOK
<1>2. op[q].kind = "none" <=> op[q].step = "idle"
  BY <1>1 DEF HandlerOK, StepOf
<1>3. op[q].step # "idle" => op[q].user \in Users
  BY <1>1, <1>2 DEF HandlerOK
<1>4. op[q].row \in RowsOfTable \cup {NoRow}
  BY <1>1 DEF Ops
<1>5. op[q].row # NoRow => op[q].user \in Users
  BY <1>1 DEF HandlerOK, Idle
<1>6. QED
  BY <1>1, <1>2, <1>3, <1>4, <1>5 DEF HandlerOK

\* What a handler remembers of a row survives every step that keeps ids.
LEMMA RecallKept ==
  ASSUME DomainAssumption, TableOK, TableOK', Kept, NEW o \in Ops, HandlerOK(o), Recalls(o)
  PROVE  Recalls(o)'
<1>1. /\ nextId \in Nat /\ nextId' \in Nat /\ nextId <= nextId'
      /\ o.row \in RowsOfTable \cup {NoRow}
  BY DEF Kept, TableOK, Ops, DomainAssumption
<1>2. o.row.id < nextId'
  <2>1. o.row.id \in Nat
    BY <1>1 DEF RowsOfTable, NoRow, DomainAssumption
  <2>2. QED
    BY <1>1, <2>1 DEF Recalls
<1>3. ASSUME o.row # NoRow, row'[o.user].id = o.row.id
      PROVE  /\ row'[o.user].domain = o.row.domain
             /\ o.row.applied => row'[o.user].applied
  <2>1. o.user \in Users
    BY <1>3 DEF HandlerOK, Idle
  <2>2. o.row.id \in 1..(nextId - 1)
    BY <1>1, <1>3 DEF Recalls, RowsOfTable, DomainAssumption
  <2>3. row[o.user].id = o.row.id
    BY <1>3, <2>1, <2>2 DEF Kept
  <2>4. QED
    BY <1>3, <2>1, <2>2, <2>3 DEF Kept, Recalls
<1>4. QED
  BY <1>2, <1>3 DEF Recalls

\* One handler moves: what has to be checked of its new locals and of the rest.
LEMMA Moved ==
  ASSUME DomainAssumption, DomainInv, NEW q \in Requests, NEW o \in Ops,
         op' = [op EXCEPT ![q] = o], HandlerOK(o), TableOK', WorldOK', Kept,
         Recalls(o)', NeedsProof(o) => o.row.id \in proven',
         RouteProven', ShownIsRecorded',
         \A u \in Users : row'[u].applied => row'[u].id \in proven'
  PROVE  DomainInv'
<1>1. \A p \in Requests : op'[p] = IF p = q THEN o ELSE op[p]
  BY DEF DomainInv, TypeOK, OpOK
<1>2. OpOK'
  BY <1>1 DEF DomainInv, TypeOK, OpOK
<1>3. Remembered'
  <2>1. SUFFICES ASSUME NEW p \in Requests, p # q
                 PROVE  Recalls(op[p])'
    BY <1>1 DEF Remembered, Recalls
  <2>2. op[p] \in Ops /\ HandlerOK(op[p]) /\ Recalls(op[p])
    BY DEF DomainInv, TypeOK, OpOK, Remembered
  <2>3. op'[p] = op[p]
    BY <1>1, <2>1
  <2> DEFINE o2 == op[p]
  <2>4. QED
    BY <2>2, <2>3, RecallKept DEF DomainInv, TypeOK, Recalls
<1>4. ProofFirst'
  BY <1>1 DEF DomainInv, ProofFirst, NeedsProof, Kept
<1>5. QED
  BY <1>2, <1>3, <1>4 DEF DomainInv, TypeOK

-----------------------------------------------------------------------------
(* Steps that leave the table alone                                        *)

LEMMA IdleOK ==
  ASSUME DomainAssumption, TableOK
  PROVE  /\ Idle \in Ops /\ HandlerOK(Idle) /\ ~NeedsProof(Idle) /\ Recalls(Idle)
<1>1. Idle \in Ops /\ HandlerOK(Idle) /\ ~NeedsProof(Idle)
  BY DEF Idle, Ops, Kinds, Steps, HandlerOK, StepOf, WithRow, NeedsProof
<1>2. 0 < nextId
  BY DEF TableOK, DomainAssumption
<1>3. QED
  BY <1>1, <1>2 DEF Recalls, Idle, NoRow

LEMMA TableUnchanged ==
  ASSUME DomainInv, UNCHANGED <<row, nextId, proven>>
  PROVE  /\ TableOK' /\ Kept /\ ShownIsRecorded'
         /\ \A u \in Users : row'[u].applied => row'[u].id \in proven'
         /\ nextId \in Nat
         /\ \A o : Recalls(o)' <=> Recalls(o)
<1>1. TableOK' /\ nextId \in Nat
  BY DEF DomainInv, TypeOK, TableOK
<1>2. Kept
  BY <1>1 DEF Kept
<1>3. QED
  BY <1>1, <1>2 DEF DomainInv, ShownIsRecorded, ProofFirst, Recalls

LEMMA Stays ==
  ASSUME DomainAssumption, DomainInv, UNCHANGED <<row, nextId, proven>>,
         WorldOK', RouteProven',
         NEW q \in Requests, NEW o \in Ops, op' = [op EXCEPT ![q] = o],
         HandlerOK(o), Recalls(o), NeedsProof(o) => o.row.id \in proven
  PROVE  DomainInv'
BY TableUnchanged, Moved

\* Nothing but the world outside moves.
LEMMA Outside ==
  ASSUME DomainInv, UNCHANGED <<op, row, nextId, proven, route, routedFor>>, WorldOK'
  PROVE  DomainInv'
BY DEF DomainInv, TypeOK, OpOK, TableOK, RouteProven, ShownIsRecorded, Remembered, Recalls,
       ProofFirst

LEMMA Ended ==
  ASSUME DomainAssumption, DomainInv, UNCHANGED <<row, nextId, proven>>,
         WorldOK', RouteProven', NEW q \in Requests, End(q)
  PROVE  DomainInv'
BY IdleOK, Stays DEF End, DomainInv, TypeOK

LEMMA Went ==
  ASSUME DomainAssumption, DomainInv, UNCHANGED <<row, nextId, proven>>,
         WorldOK', RouteProven', NEW q \in Requests, NEW step \in Steps \ {"idle", "manifests"},
         Go(q, step), StepOf(op[q].kind, step), op[q].kind # "none",
         step \in WithRow => op[q].row # NoRow,
         step \in {"commit", "committed"} => op[q].row.id \in proven
  PROVE  DomainInv'
<1> DEFINE o == [op[q] EXCEPT !.step = step]
<1>1. op[q] \in Ops /\ HandlerOK(op[q]) /\ Recalls(op[q])
  BY DEF DomainInv, TypeOK, OpOK, Remembered
<1>2. op' = [op EXCEPT ![q] = o]
  BY DEF Go
<1>3. /\ o \in Ops /\ o.kind = op[q].kind /\ o.step = step /\ o.user = op[q].user
      /\ o.row = op[q].row
  BY <1>1 DEF Ops
<1>4. HandlerOK(o)
  BY <1>1, <1>3 DEF HandlerOK
<1>5. Recalls(o)
  BY <1>1, <1>3 DEF Recalls
<1>6. NeedsProof(o) => o.row.id \in proven
  BY <1>3 DEF NeedsProof
<1> HIDE DEF o
<1>7. QED
  BY <1>2, <1>3, <1>4, <1>5, <1>6, Stays

LEMMA OwnRowRecalled ==
  ASSUME DomainAssumption, DomainInv, NEW u \in Users, NEW o, o.user = u,
         o.row \in {NoRow, row[u]}
  PROVE  Recalls(o)
<1>1. row[u].id < nextId /\ 0 < nextId
  BY DEF DomainInv, TypeOK, TableOK, DomainAssumption
<1>2. CASE o.row = NoRow
  BY <1>1, <1>2 DEF NoRow, Recalls
<1>3. CASE o.row = row[u]
  BY <1>1, <1>3 DEF DomainInv, ShownIsRecorded, Recalls
<1>4. QED
  BY <1>2, <1>3

LEMMA Began ==
  ASSUME DomainAssumption, DomainInv, UNCHANGED <<row, nextId, proven>>,
         WorldOK', RouteProven', NEW q \in Requests, NEW u \in Users,
         NEW kind \in Kinds \ {"none"}, NEW step \in Steps \ {"commit", "committed"},
         NEW r \in {NoRow, row[u]}, Begin(q, u, kind, step, r), StepOf(kind, step),
         step \in WithRow => r # NoRow,
         step = "manifests" /\ r # NoRow => r.id \in proven
  PROVE  DomainInv'
<1> DEFINE o == [Idle EXCEPT !.kind = kind, !.step = step, !.user = u, !.row = r]
<1>1. op' = [op EXCEPT ![q] = o]
  BY DEF Begin
<1>2. r \in RowsOfTable \cup {NoRow}
  BY DEF DomainInv, TypeOK, TableOK
<1>3. /\ o \in Ops /\ o.kind = kind /\ o.step = step /\ o.user = u /\ o.row = r
  BY <1>2 DEF Ops, Idle
<1> HIDE DEF o
<1>4. HandlerOK(o)
  BY <1>3 DEF HandlerOK
<1>5. Recalls(o)
  BY <1>3, OwnRowRecalled
<1>6. NeedsProof(o) => o.row.id \in proven
  BY <1>3 DEF NeedsProof
<1>7. QED
  BY <1>1, <1>3, <1>4, <1>5, <1>6, Stays

-----------------------------------------------------------------------------
(* Steps that change one row                                               *)

\* r may take the place of u's row: it is none, or the row of the same id with no
\* commit forgotten, shown only if committed, committed only if its own proof was seen.
Succeeds(u, r) ==
  \/ r = NoRow
  \/ /\ r \in RowsOfTable
     /\ r.id = row[u].id /\ r.domain = row[u].domain
     /\ row[u].applied => r.applied
     /\ r.status \in {"applying", "active"} => r.applied
     /\ r.applied => r.id \in proven'

LEMMA RowChanged ==
  ASSUME DomainAssumption, DomainInv, NEW u \in Users, NEW r,
         row' = [row EXCEPT ![u] = r], nextId' = nextId, proven \subseteq proven',
         Succeeds(u, r)
  PROVE  /\ TableOK' /\ Kept /\ ShownIsRecorded'
         /\ \A v \in Users : row'[v].applied => row'[v].id \in proven'
<1>1. TableOK /\ ShownIsRecorded
  BY DEF DomainInv, TypeOK
<1>2. nextId \in Nat /\ 0 < nextId
  BY <1>1 DEF TableOK, DomainAssumption
<1>3. \A v \in Users : row'[v] = IF v = u THEN r ELSE row[v]
  BY <1>1 DEF TableOK
<1>4. /\ r \in RowsOfTable \cup {NoRow} /\ r.id < nextId
      /\ r.status \in {"applying", "active"} => r.applied
      /\ r.applied => r.id \in proven'
      /\ \/ r.id \notin 1..(nextId - 1)
         \/ /\ r.id = row[u].id /\ r.domain = row[u].domain
            /\ row[u].applied => r.applied
  <2>1. CASE r = NoRow
    BY <1>2, <2>1 DEF NoRow
  <2>2. CASE r # NoRow
    BY <1>1, <2>2 DEF Succeeds, TableOK
  <2>3. QED
    BY <2>1, <2>2
<1>5. TableOK'
  BY <1>1, <1>3, <1>4 DEF TableOK
<1>6. Kept
  BY <1>2, <1>3, <1>4 DEF Kept
<1>7. ShownIsRecorded'
  BY <1>1, <1>3, <1>4 DEF ShownIsRecorded
<1>8. ASSUME NEW v \in Users, row'[v].applied PROVE row'[v].id \in proven'
  BY <1>3, <1>4, <1>8 DEF DomainInv, ProofFirst
<1>9. QED
  BY <1>5, <1>6, <1>7, <1>8

\* An update by id leaves the row of another id, or no row, as it is.
LEMMA UpdatedSucceeds ==
  ASSUME DomainAssumption, DomainInv, NEW u \in Users, NEW id \in 1..MaxId,
         NEW status \in Statuses, proven \subseteq proven',
         row[u].id = id /\ status \in {"applying", "active"} => row[u].applied
  PROVE  /\ Succeeds(u, Updated(row[u], id, status))
         /\ Updated(row[u], id, status) \in RowsOfTable \cup {NoRow}
<1>1. /\ row[u] \in RowsOfTable \cup {NoRow}
      /\ row[u].id = 0 <=> row[u] = NoRow
      /\ row[u].status \in {"applying", "active"} => row[u].applied
      /\ row[u].applied => row[u].id \in proven
  BY RowFacts DEF DomainInv, TypeOK, ShownIsRecorded, ProofFirst
<1>2. CASE row[u].id # id
  BY <1>1, <1>2 DEF Updated, Succeeds
<1>3. CASE row[u].id = id
  <2> DEFINE r == [row[u] EXCEPT !.status = status]
  <2>1. row[u] \in RowsOfTable
    BY <1>1, <1>3 DEF DomainAssumption
  <2>2. /\ r \in RowsOfTable /\ r.id = row[u].id /\ r.domain = row[u].domain
        /\ r.applied = row[u].applied /\ r.status = status
    BY <2>1 DEF RowsOfTable
  <2>3. Updated(row[u], id, status) = r
    BY <1>3 DEF Updated
  <2> HIDE DEF r
  <2>4. QED
    BY <1>1, <1>3, <2>2, <2>3 DEF Succeeds
<1>4. QED
  BY <1>2, <1>3

\* A handler moves on and its account's row with it.
LEMMA MovedWithRow ==
  ASSUME DomainAssumption, DomainInv, NEW u \in Users, NEW r, Succeeds(u, r),
         row' = [row EXCEPT ![u] = r], nextId' = nextId, proven \subseteq proven',
         WorldOK', RouteProven',
         NEW q \in Requests, NEW o \in Ops, op' = [op EXCEPT ![q] = o],
         HandlerOK(o), Recalls(o)', NeedsProof(o) => o.row.id \in proven'
  PROVE  DomainInv'
BY RowChanged, Moved

LEMMA EndedWithRow ==
  ASSUME DomainAssumption, DomainInv, NEW u \in Users, NEW r, Succeeds(u, r),
         row' = [row EXCEPT ![u] = r], nextId' = nextId, proven \subseteq proven',
         WorldOK', RouteProven', NEW q \in Requests, End(q)
  PROVE  DomainInv'
<1>1. Idle \in Ops /\ HandlerOK(Idle) /\ ~NeedsProof(Idle) /\ Recalls(Idle)
  BY IdleOK DEF DomainInv, TypeOK
<1>2. Recalls(Idle)'
  BY <1>1 DEF Recalls, Idle
<1>3. QED
  BY <1>1, <1>2, MovedWithRow DEF End

\* The handler answers with the row as it is now, or with the one it remembers.
LEMMA AnsweredWithRow ==
  ASSUME DomainAssumption, DomainInv, NEW q \in Requests, NEW r, Succeeds(op[q].user, r),
         op[q].step \in WithRow, r \in RowsOfTable \cup {NoRow},
         row' = [row EXCEPT ![op[q].user] = r], nextId' = nextId, proven \subseteq proven',
         WorldOK', RouteProven', StepOf(op[q].kind, "info"), AnswerWith(q, r)
  PROVE  DomainInv'
<1> DEFINE u == op[q].user
           r2 == IF r.id = op[q].row.id THEN r ELSE op[q].row
<1>1. /\ op[q] \in Ops /\ HandlerOK(op[q]) /\ Recalls(op[q])
      /\ u \in Users /\ op[q].row \in RowsOfTable
  BY OpFacts DEF DomainInv, TypeOK, WithRow, Remembered
<1>2. r2 \in RowsOfTable
  BY <1>1 DEF RowsOfTable, NoRow, DomainAssumption
<1>3. PICK o \in Ops : /\ op' = [op EXCEPT ![q] = o]
                       /\ o.kind = op[q].kind /\ o.step = "info" /\ o.user = u /\ o.row = r2
  <2> DEFINE o2 == [op[q] EXCEPT !.step = "info", !.row = r2]
  <2>1. /\ o2 \in Ops /\ o2.kind = op[q].kind /\ o2.step = "info" /\ o2.user = u
        /\ o2.row = r2
    BY <1>1, <1>2 DEF Ops, Steps
  <2>2. op' = [op EXCEPT ![q] = o2]
    BY DEF AnswerWith, GoWith
  <2> HIDE DEF o2
  <2>3. QED
    BY <2>1, <2>2
<1>4. HandlerOK(o) /\ ~NeedsProof(o)
  <2>1. r2 # NoRow
    BY <1>2 DEF RowsOfTable, NoRow, DomainAssumption
  <2>2. o.kind # "none"
    BY <1>1, <1>3 DEF HandlerOK, StepOf, WithRow
  <2>3. QED
    BY <1>1, <1>3, <2>1, <2>2 DEF HandlerOK, NeedsProof
<1>5. TableOK' /\ ShownIsRecorded' /\ Kept
  BY <1>1, RowChanged
<1>6. row'[u] = r
  BY <1>1 DEF DomainInv, TypeOK, TableOK
<1>7. Recalls(o)'
  <2>1. CASE o.row = r
    <3>1. row'[o.user] = o.row
      BY <1>1, <1>3, <1>6, <2>1
    <3>2. QED
      BY <1>1, <1>3, <1>5, <3>1 DEF Recalls, TableOK, ShownIsRecorded
  <2>2. CASE o.row = op[q].row
    <3>1. Recalls(o)
      BY <1>1, <1>3, <2>2 DEF Recalls
    <3>2. QED
      BY <1>3, <1>4, <1>5, <3>1, RecallKept DEF DomainInv, TypeOK
  <2>3. QED
    BY <1>3, <2>1, <2>2
<1>8. QED
  BY <1>1, <1>3, <1>4, <1>7, MovedWithRow

-----------------------------------------------------------------------------
(* The invariant holds at first and is kept by every step                  *)

LEMMA InitOK ==
  ASSUME DomainAssumption, Init
  PROVE  DomainInv
<1>1. \A u \in Users : row[u] \in RowsOfTable \cup {NoRow} /\ row[u].id < nextId
                       /\ row[u].status = "pending" /\ ~row[u].applied
  BY DEF Init, LegacyRow, NoRow, RowsOfTable, Statuses, DomainAssumption
<1>2. TableOK
  BY <1>1 DEF TableOK, Init, DomainAssumption
<1>3. OpOK /\ Remembered /\ ProofFirst
  BY <1>1, <1>2, IdleOK DEF Init, OpOK, Remembered, ProofFirst
<1>4. WorldOK /\ RouteProven /\ ShownIsRecorded
  BY <1>1 DEF Init, WorldOK, RouteProven, ShownIsRecorded, DomainAssumption
<1>5. QED
  BY <1>2, <1>3, <1>4 DEF DomainInv, TypeOK

\* What the steps that touch neither routes nor DNS have in common.
LEMMA SameWorld ==
  ASSUME DomainInv, UNCHANGED <<git, cluster, dns, issued>>,
         proven' = proven,
         cache' \in [Users -> {"none", "ready", "waiting"}]
  PROVE  WorldOK' /\ RouteProven'
BY DEF DomainInv, TypeOK, WorldOK, RouteProven, git, cluster, dns

LEMMA CacheOK ==
  ASSUME DomainInv, cache' = cache
  PROVE  cache' \in [Users -> {"none", "ready", "waiting"}]
BY DEF DomainInv, TypeOK, WorldOK

LEMMA CacheSetOK ==
  ASSUME DomainInv, NEW u, NEW c \in {"none", "ready", "waiting"},
         cache' = [cache EXCEPT ![u] = c]
  PROVE  cache' \in [Users -> {"none", "ready", "waiting"}]
BY DEF DomainInv, TypeOK, WorldOK

LEMMA BeginsOK ==
  ASSUME DomainAssumption, DomainInv, NEW q \in Requests, NEW u \in Users, Begins(q, u)
  PROVE  DomainInv'
<1>1. CASE BeginGet(q, u)
  <2>1. UNCHANGED <<row, nextId, proven>> /\ WorldOK' /\ RouteProven'
    BY <1>1, SameWorld, CacheOK DEF BeginGet, store, history
  <2>2. QED
    BY <1>1, <2>1, Began DEF BeginGet, Kinds, Steps, StepOf, WithRow
<1>2. CASE BeginVerify(q, u)
  <2>1. UNCHANGED <<row, nextId, proven>> /\ WorldOK' /\ RouteProven'
    BY <1>2, SameWorld, CacheOK DEF BeginVerify, store, history
  <2>2. PICK step \in {"info", "txt", "cname"} : Begin(q, u, "verify", step, row[u])
    BY <1>2 DEF BeginVerify
  <2>3. row[u] # NoRow
    BY <1>2 DEF BeginVerify, HasDomain
  <2>4. QED
    BY <2>1, <2>2, <2>3, Began DEF Kinds, Steps, StepOf, WithRow
<1>3. CASE BeginRemove(q, u)
  <2>1. UNCHANGED <<row, nextId, proven>> /\ WorldOK' /\ RouteProven'
    BY <1>3, SameWorld, CacheOK DEF BeginRemove, store, history
  <2>2. QED
    BY <1>3, <2>1, Began DEF BeginRemove, HasDomain, Kinds, Steps, StepOf, WithRow
<1>4. CASE Drop(q, u)
  <2>1. /\ row' = [row EXCEPT ![u] = NoRow] /\ nextId' = nextId /\ proven' = proven
        /\ op' = op
    BY <1>4 DEF Drop, history
  <2>2. WorldOK' /\ RouteProven'
    BY <1>4, SameWorld, CacheSetOK DEF Drop, history
  <2>3. op[q] = Idle
    BY <1>4 DEF Drop, Free
  <2>4. End(q)
    BY <2>1, <2>3 DEF End, DomainInv, TypeOK, OpOK
  <2>5. QED
    BY <2>1, <2>2, <2>4, EndedWithRow DEF Succeeds
<1>5. CASE BeginDeploy(q, u)
  <2>1. UNCHANGED <<row, nextId, proven>> /\ WorldOK' /\ RouteProven'
    BY <1>5, SameWorld, CacheOK DEF BeginDeploy, store, history
  <2>2. PICK r \in {NoRow, row[u]} : /\ Begin(q, u, "deploy", "manifests", r)
                                     /\ r # NoRow => row[u].applied
    BY <1>5 DEF BeginDeploy, Rendered, DomainInv, ShownIsRecorded
  <2>3. r # NoRow => r.id \in proven
    BY <2>2 DEF DomainInv, ProofFirst
  <2>4. QED
    BY <2>1, <2>2, <2>3, Began DEF Kinds, Steps, StepOf, WithRow
<1>6. CASE BeginTeardown(q, u)
  <2>1. UNCHANGED <<row, nextId, proven>> /\ WorldOK' /\ RouteProven'
    BY <1>6, SameWorld, CacheOK DEF BeginTeardown, store, history
  <2>2. QED
    BY <1>6, <2>1, Began DEF BeginTeardown, Kinds, Steps, StepOf, WithRow
<1>7. ASSUME NEW d \in Domains, Register(q, u, d)
      PROVE  DomainInv'
  <2> DEFINE r == [id |-> nextId, domain |-> d, scheme |-> "cname", status |-> "pending",
                   applied |-> FALSE]
  <2>1. /\ row' = [row EXCEPT ![u] = r] /\ nextId' = nextId + 1 /\ proven' = proven
        /\ Begin(q, u, "register", "info", row'[u])
    BY <1>7 DEF Register, Insert, history
  <2>2. TableOK /\ nextId \in Nat /\ nextId \in 1..MaxId
    BY <1>7 DEF Register, DomainInv, TypeOK, TableOK, DomainAssumption
  <2>3. r \in RowsOfTable
    BY <2>2 DEF RowsOfTable, Statuses
  <2>4. \A v \in Users : row'[v] = IF v = u THEN r ELSE row[v]
    BY <2>1, <2>2 DEF TableOK
  <2>5. TableOK'
    <3>1. nextId' \in 1..(MaxId + 1)
      BY <2>1, <2>2 DEF DomainAssumption
    <3>2. row' \in [Users -> RowsOfTable \cup {NoRow}]
      BY <2>1, <2>2, <2>3 DEF TableOK
    <3>3. ASSUME NEW v \in Users PROVE row'[v].id < nextId'
      <4>1. row[v].id \in 0..MaxId /\ row[v].id < nextId
        BY <2>2, RowFacts
      <4>2. QED
        BY <2>1, <2>2, <2>4, <4>1 DEF DomainAssumption
    <3>4. QED
      BY <3>1, <3>2, <3>3 DEF TableOK
  <2>6. Kept
    BY <2>1, <2>2, <2>4 DEF Kept
  <2>7. /\ ShownIsRecorded'
        /\ \A v \in Users : row'[v].applied => row'[v].id \in proven'
    BY <2>1, <2>4 DEF DomainInv, ShownIsRecorded, ProofFirst
  <2>8. WorldOK' /\ RouteProven'
    BY <1>7, SameWorld, CacheOK DEF Register, history
  <2>9. PICK o \in Ops : /\ op' = [op EXCEPT ![q] = o]
                         /\ o.kind = "register" /\ o.step = "info" /\ o.user = u /\ o.row = r
    <3> DEFINE o2 == [Idle EXCEPT !.kind = "register", !.step = "info", !.user = u, !.row = r]
    <3>1. o2 \in Ops /\ o2.kind = "register" /\ o2.step = "info" /\ o2.user = u /\ o2.row = r
      BY <2>3 DEF Ops, Idle, Kinds, Steps
    <3>2. op' = [op EXCEPT ![q] = o2]
      BY <2>1, <2>4 DEF Begin
    <3> HIDE DEF o2, r
    <3>3. QED
      BY <3>1, <3>2
  <2>10. HandlerOK(o) /\ ~NeedsProof(o)
    BY <2>2, <2>9 DEF HandlerOK, StepOf, NoRow, NeedsProof, DomainAssumption
  <2>11. Recalls(o)'
    BY <2>1, <2>2, <2>4, <2>9 DEF Recalls
  <2>12. QED
    BY <2>5, <2>6, <2>7, <2>8, <2>9, <2>10, <2>11, Moved
<1>8. QED
  BY <1>1, <1>2, <1>3, <1>4, <1>5, <1>6, <1>7 DEF Begins

\* A certificate that is ready moves only the row remembered as applying.
LEMMA FlippedSucceeds ==
  ASSUME DomainAssumption, DomainInv, NEW q \in Requests, op[q].step \in WithRow,
         NEW ready, proven' = proven
  PROVE  Succeeds(op[q].user, Flipped(row[op[q].user], op[q].row, ready))
<1> DEFINE o == op[q]
           u == o.user
<1>1. /\ u \in Users /\ o.row \in RowsOfTable /\ o.row.id \in 1..MaxId /\ Recalls(o)
      /\ o.row # NoRow
  BY OpFacts DEF DomainInv, TypeOK, RowsOfTable, WithRow, Remembered, HandlerOK
<1>2. CASE o.row.status = "applying" /\ ready
  <2>1. row[u].id = o.row.id => row[u].applied
    BY <1>1, <1>2 DEF Recalls
  <2>2. Succeeds(u, Updated(row[u], o.row.id, "active"))
    BY <1>1, <2>1, UpdatedSucceeds DEF Statuses
  <2>3. QED
    BY <1>2, <2>2 DEF Flipped
<1>3. CASE ~(o.row.status = "applying" /\ ready)
  <2>1. row[u] \in RowsOfTable \cup {NoRow}
    BY <1>1 DEF DomainInv, TypeOK, TableOK
  <2>2. QED
    BY <1>1, <1>3, <2>1 DEF Flipped, Succeeds, DomainInv, ShownIsRecorded, ProofFirst
<1>4. QED
  BY <1>2, <1>3

LEMMA ErroredOK ==
  ASSUME DomainAssumption, DomainInv, NEW q \in Requests,
         op[q].step \in {"txt", "cname", "commit", "committed"},
         Errored(q), nextId' = nextId, proven' = proven, WorldOK', RouteProven'
  PROVE  DomainInv'
<1> DEFINE u == op[q].user
           r == Updated(row[u], op[q].row.id, "error")
<1>1. /\ u \in Users /\ op[q].row \in RowsOfTable /\ op[q].row.id \in 1..MaxId
      /\ op[q].kind = "verify" /\ op[q].step \in WithRow
  BY OpFacts DEF DomainInv, TypeOK, RowsOfTable, WithRow, HandlerOK, StepOf
<1>2. Succeeds(u, r) /\ r \in RowsOfTable \cup {NoRow}
  BY <1>1, UpdatedSucceeds DEF Statuses
<1>3. row' = [row EXCEPT ![u] = r] /\ AnswerWith(q, r)
  BY DEF Errored
<1>4. StepOf(op[q].kind, "info")
  BY <1>1 DEF StepOf
<1> HIDE DEF r
<1>5. QED
  BY <1>1, <1>2, <1>3, <1>4, AnsweredWithRow

LEMMA ReadsOK ==
  ASSUME DomainAssumption, DomainInv, NEW q \in Requests,
         Lookup(q) \/ ReadCertificate(q) \/ StoreCertificate(q)
  PROVE  DomainInv'
<1> DEFINE u == op[q].user
<1>1. op[q] \in Ops /\ HandlerOK(op[q]) /\ op[q].step # "idle" /\ u \in Users
  BY OpFacts DEF DomainInv, TypeOK, Lookup, ReadCertificate, StoreCertificate
<1>2. CASE Lookup(q)
  <2>1. UNCHANGED <<row, nextId, proven>> /\ WorldOK' /\ RouteProven'
    BY <1>2, SameWorld, CacheOK DEF Lookup, store, history
  <2>2. CASE End(q)
    BY <2>1, <2>2, Ended
  <2>3. CASE row[u] # NoRow /\ GoWith(q, "info", row[u])
    <3>1. PICK o \in Ops : /\ op' = [op EXCEPT ![q] = o]
                           /\ o.kind = op[q].kind /\ o.step = "info" /\ o.user = u
                           /\ o.row = row[u]
      <4> DEFINE o2 == [op[q] EXCEPT !.step = "info", !.row = row[u]]
      <4>1. row[u] \in RowsOfTable
        BY <1>1, <2>3, RowFacts DEF DomainInv, TypeOK
      <4>2. /\ o2 \in Ops /\ o2.kind = op[q].kind /\ o2.step = "info" /\ o2.user = u
            /\ o2.row = row[u]
        BY <1>1, <4>1 DEF Ops, Steps
      <4>3. op' = [op EXCEPT ![q] = o2]
        BY <2>3 DEF GoWith
      <4> HIDE DEF o2
      <4>4. QED
        BY <4>2, <4>3
    <3>2. op[q].kind = "get"
      BY <1>1, <1>2 DEF HandlerOK, StepOf, Lookup
    <3>3. HandlerOK(o) /\ ~NeedsProof(o)
      BY <1>1, <2>3, <3>1, <3>2 DEF HandlerOK, StepOf, NeedsProof
    <3>4. Recalls(o)
      BY <1>1, <3>1, OwnRowRecalled
    <3>5. QED
      BY <2>1, <3>1, <3>3, <3>4, Stays
  <2>4. QED
    BY <1>2, <2>2, <2>3 DEF Lookup
<1>3. CASE ReadCertificate(q)
  <2>1. nextId' = nextId /\ proven' = proven /\ WorldOK' /\ RouteProven'
    BY <1>3, SameWorld, CacheOK DEF ReadCertificate, history
  <2>2. CASE /\ row' = [row EXCEPT ![u] = Flipped(row[u], op[q].row, cache[u] = "ready")]
             /\ End(q)
    <3>1. Succeeds(u, Flipped(row[u], op[q].row, cache[u] = "ready"))
      BY <1>3, <2>1, FlippedSucceeds DEF ReadCertificate, WithRow
    <3>2. QED
      BY <1>1, <2>1, <2>2, <3>1, EndedWithRow
  <2>3. ASSUME row' = row, NEW ready \in BOOLEAN,
               op' = [op EXCEPT ![q] = [@ EXCEPT !.step = "served", !.ready = ready]]
        PROVE  DomainInv'
    <3> DEFINE o == [op[q] EXCEPT !.step = "served", !.ready = ready]
    <3>1. op' = [op EXCEPT ![q] = o]
      BY <2>3
    <3>2. /\ o \in Ops /\ o.kind = op[q].kind /\ o.step = "served" /\ o.user = u
          /\ o.row = op[q].row
      BY <1>1 DEF Ops, Steps
    <3> HIDE DEF o
    <3>3. HandlerOK(o) /\ ~NeedsProof(o)
      BY <1>1, <1>3, <3>2 DEF HandlerOK, StepOf, NeedsProof, WithRow, ReadCertificate
    <3>4. Recalls(o)
      BY <3>2 DEF Recalls, DomainInv, Remembered
    <3>5. QED
      BY <2>1, <2>3, <3>1, <3>2, <3>3, <3>4, Stays
  <2>4. QED
    BY <1>3, <2>2, <2>3 DEF ReadCertificate
<1>4. CASE StoreCertificate(q)
  <2>1. nextId' = nextId /\ proven' = proven /\ WorldOK' /\ RouteProven'
    <3>1. PICK c \in {"none", "ready", "waiting"} : cache' = [cache EXCEPT ![u] = c]
      BY <1>4 DEF StoreCertificate
    <3>2. QED
      BY <1>4, <3>1, SameWorld, CacheSetOK DEF StoreCertificate, history
  <2>2. Succeeds(u, Flipped(row[u], op[q].row, op[q].ready))
    BY <1>4, <2>1, FlippedSucceeds DEF StoreCertificate, WithRow
  <2>3. row' = [row EXCEPT ![u] = Flipped(row[u], op[q].row, op[q].ready)] /\ End(q)
    BY <1>4 DEF StoreCertificate
  <2>4. QED
    BY <1>1, <2>1, <2>2, <2>3, EndedWithRow
<1>5. QED
  BY <1>2, <1>3, <1>4

LEMMA ChecksOK ==
  ASSUME DomainAssumption, DomainInv, NEW q \in Requests, CheckTxt(q) \/ CheckCname(q)
  PROVE  DomainInv'
<1> DEFINE u == op[q].user
<1>1. /\ op[q] \in Ops /\ HandlerOK(op[q]) /\ Recalls(op[q]) /\ op[q].kind = "verify"
      /\ op[q].row \in RowsOfTable /\ op[q].row # NoRow /\ u \in Users
      /\ op[q].row.id \in 1..MaxId /\ op[q].row.domain \in Domains
  <2>1. op[q].step \in {"txt", "cname"}
    BY DEF CheckTxt, CheckCname
  <2>2. op[q] \in Ops /\ HandlerOK(op[q]) /\ Recalls(op[q]) /\ op[q].kind = "verify"
    BY <2>1 DEF DomainInv, TypeOK, OpOK, Remembered, HandlerOK, StepOf
  <2>3. op[q].row \in RowsOfTable /\ op[q].row # NoRow /\ u \in Users
    BY <2>1, <2>2, OpFacts DEF DomainInv, TypeOK, WithRow, HandlerOK
  <2>4. QED
    BY <2>2, <2>3 DEF RowsOfTable
<1>2. CASE CheckTxt(q)
  <2>1. nextId' = nextId /\ proven' = proven /\ WorldOK' /\ RouteProven'
    BY <1>2, SameWorld, CacheOK DEF CheckTxt, history
  <2>2. CASE Errored(q)
    BY <1>2, <2>1, <2>2, ErroredOK DEF CheckTxt
  <2>3. CASE Go(q, "cname") /\ UNCHANGED row
    BY <1>1, <2>1, <2>3, Went DEF Steps, StepOf
  <2>4. QED
    BY <1>2, <2>2, <2>3 DEF CheckTxt
<1>3. CASE CheckCname(q) /\ Errored(q) /\ UNCHANGED proven
  <2>1. nextId' = nextId /\ proven' = proven /\ WorldOK' /\ RouteProven'
    BY <1>3, SameWorld, CacheOK DEF CheckCname
  <2>2. QED
    BY <1>3, <2>1, ErroredOK DEF CheckCname
<1>4. CASE /\ CheckCname(q) /\ Matches(op[q].row) /\ Go(q, "commit")
           /\ proven' = proven \cup {op[q].row.id}
           /\ row' = [row EXCEPT ![u] = Updated(@, op[q].row.id, "verified")]
  <2> DEFINE r == Updated(row[u], op[q].row.id, "verified")
  <2>1. nextId' = nextId /\ proven \subseteq proven' /\ op[q].row.id \in proven'
    BY <1>4 DEF CheckCname
  <2>2. WorldOK' /\ RouteProven'
    BY <1>1, <1>4 DEF CheckCname, DomainInv, TypeOK, WorldOK, RouteProven, git, cluster, dns
  <2>3. Succeeds(u, r)
    BY <1>1, <2>1, UpdatedSucceeds DEF Statuses
  <2>4. row' = [row EXCEPT ![u] = r]
    BY <1>4
  <2> HIDE DEF r
  <2>5. TableOK' /\ Kept
    BY <1>1, <2>1, <2>3, <2>4, RowChanged
  <2>6. PICK o \in Ops : /\ op' = [op EXCEPT ![q] = o]
                         /\ o.kind = op[q].kind /\ o.step = "commit" /\ o.user = u
                         /\ o.row = op[q].row
    <3> DEFINE o2 == [op[q] EXCEPT !.step = "commit"]
    <3>1. /\ o2 \in Ops /\ o2.kind = op[q].kind /\ o2.step = "commit" /\ o2.user = u
          /\ o2.row = op[q].row
      BY <1>1 DEF Ops, Steps
    <3>2. op' = [op EXCEPT ![q] = o2]
      BY <1>4 DEF Go
    <3> HIDE DEF o2
    <3>3. QED
      BY <3>1, <3>2
  <2>7. HandlerOK(o)
    BY <1>1, <2>6 DEF HandlerOK, StepOf
  <2>8. Recalls(o)
    BY <1>1, <2>6 DEF Recalls
  <2>9. Recalls(o)'
    BY <2>5, <2>6, <2>7, <2>8, RecallKept DEF DomainInv, TypeOK
  <2>10. QED
    BY <1>1, <2>1, <2>2, <2>3, <2>4, <2>6, <2>7, <2>9, MovedWithRow
<1>5. QED
  BY <1>2, <1>3, <1>4 DEF CheckCname, Matches

\* A route changes to that of a row with a proof of its own, or to none.
LEMMA RouteChanged ==
  ASSUME DomainAssumption, DomainInv, NEW u \in Users, NEW r \in RowsOfTable \cup {NoRow},
         Routes(u, r), r # NoRow => r.id \in proven,
         UNCHANGED <<registered, cluster, dns, proven, issued>>,
         cache' \in [Users -> {"none", "ready", "waiting"}]
  PROVE  WorldOK' /\ RouteProven'
<1>1. r.domain \in Domains \cup {None} /\ r.id \in 0..MaxId /\ (r = NoRow => r.domain = None)
  BY DEF RowsOfTable, NoRow, DomainAssumption
<1>2. \A v \in Users : /\ route'[v] = IF v = u THEN r.domain ELSE route[v]
                       /\ routedFor'[v] = IF v = u THEN r.id ELSE routedFor[v]
  BY DEF Routes, DomainInv, TypeOK, WorldOK
<1>3. route' \in [Users -> Domains \cup {None}] /\ routedFor' \in [Users -> 0..MaxId]
  BY <1>1 DEF Routes, DomainInv, TypeOK, WorldOK
<1>4. WorldOK'
  BY <1>3 DEF DomainInv, TypeOK, WorldOK, cluster, dns
<1>5. RouteProven'
  BY <1>1, <1>2 DEF DomainInv, RouteProven
<1>6. QED
  BY <1>4, <1>5

LEMMA CommitsOK ==
  ASSUME DomainAssumption, DomainInv, NEW q \in Requests, CommitIngress(q) \/ MarkApplied(q)
  PROVE  DomainInv'
<1> DEFINE u == op[q].user
<1>1. op[q].step \in {"commit", "committed"}
  BY DEF CommitIngress, MarkApplied
<1>2. /\ op[q] \in Ops /\ HandlerOK(op[q]) /\ Recalls(op[q]) /\ op[q].kind = "verify"
      /\ op[q].row \in RowsOfTable /\ op[q].row # NoRow /\ u \in Users
      /\ op[q].row.id \in proven
  <2>1. op[q] \in Ops /\ HandlerOK(op[q]) /\ Recalls(op[q]) /\ op[q].kind = "verify"
    BY <1>1 DEF DomainInv, TypeOK, OpOK, Remembered, HandlerOK, StepOf
  <2>2. op[q].row \in RowsOfTable /\ op[q].row # NoRow /\ u \in Users
    BY <1>1, <2>1, OpFacts DEF DomainInv, TypeOK, WithRow, HandlerOK
  <2>3. op[q].row.id \in proven
    BY <1>1 DEF DomainInv, ProofFirst, NeedsProof
  <2>4. QED
    BY <2>1, <2>2, <2>3
<1>3. /\ op[q].row.id \in 1..MaxId /\ op[q].row.domain \in Domains
      /\ op[q].row.domain # None
  BY <1>2 DEF RowsOfTable, DomainAssumption
<1>4. CASE Errored(q) /\ UNCHANGED <<nextId, git, cluster, cache, dns, history>>
  <2>1. nextId' = nextId /\ proven' = proven /\ WorldOK' /\ RouteProven'
    BY <1>4, SameWorld, CacheOK DEF history
  <2>2. QED
    BY <1>1, <1>4, <2>1, ErroredOK
<1>5. CASE /\ CommitIngress(q) /\ Go(q, "committed") /\ UNCHANGED row
           /\ Routes(u, op[q].row)
  <2>1. UNCHANGED <<row, nextId, proven>> /\ WorldOK' /\ RouteProven'
    BY <1>2, <1>3, <1>5, RouteChanged, CacheOK DEF CommitIngress, history
  <2>2. QED
    BY <1>2, <1>5, <2>1, Went DEF Steps, StepOf
<1>6. CASE /\ MarkApplied(q) /\ row' = [row EXCEPT ![u] = AppliedRow(row[u], op[q].row.id)]
           /\ AnswerWith(q, AppliedRow(row[u], op[q].row.id))
  <2> DEFINE r == AppliedRow(row[u], op[q].row.id)
  <2>1. nextId' = nextId /\ proven' = proven /\ WorldOK' /\ RouteProven'
    BY <1>6, SameWorld, CacheOK DEF MarkApplied, history
  <2>2. Succeeds(u, r) /\ r \in RowsOfTable \cup {NoRow}
    <3>1. /\ row[u] \in RowsOfTable \cup {NoRow}
          /\ row[u].id = 0 <=> row[u] = NoRow
          /\ row[u].status \in {"applying", "active"} => row[u].applied
          /\ row[u].applied => row[u].id \in proven
      BY <1>2, RowFacts DEF DomainInv, TypeOK, ShownIsRecorded, ProofFirst
    <3>2. CASE row[u].id # op[q].row.id
      BY <2>1, <3>1, <3>2 DEF AppliedRow, Succeeds
    <3>3. CASE row[u].id = op[q].row.id
      <4> DEFINE r2 == [row[u] EXCEPT !.status = "applying", !.applied = TRUE]
      <4>1. row[u] \in RowsOfTable
        BY <1>3, <3>1, <3>3 DEF DomainAssumption
      <4>2. /\ r2 \in RowsOfTable /\ r2.id = row[u].id /\ r2.domain = row[u].domain
            /\ r2.applied
        BY <4>1 DEF RowsOfTable, Statuses
      <4>3. r = r2
        BY <3>3 DEF AppliedRow
      <4> HIDE DEF r, r2
      <4>4. QED
        BY <1>2, <2>1, <3>3, <4>2, <4>3 DEF Succeeds
    <3>4. QED
      BY <3>2, <3>3
  <2>3. StepOf(op[q].kind, "info") /\ op[q].step \in WithRow
    BY <1>1, <1>2 DEF StepOf, WithRow
  <2>4. row' = [row EXCEPT ![u] = r] /\ AnswerWith(q, r)
    BY <1>6
  <2> HIDE DEF r
  <2>5. QED
    BY <2>1, <2>2, <2>3, <2>4, AnsweredWithRow
<1>7. QED
  BY <1>4, <1>5, <1>6 DEF CommitIngress, MarkApplied, history, git

LEMMA RemovalsOK ==
  ASSUME DomainAssumption, DomainInv, NEW q \in Requests,
         CommitRemoval(q) \/ FinishRemoval(q) \/ DeleteOrphans(q)
  PROVE  DomainInv'
<1> DEFINE u == op[q].user
<1>1. /\ op[q] \in Ops /\ HandlerOK(op[q]) /\ u \in Users
      /\ op[q].step \in {"uncommit", "uncommitted", "unregistered"}
  BY OpFacts DEF CommitRemoval, FinishRemoval, DeleteOrphans, DomainInv, TypeOK
<1>2. ASSUME KeepRow(q), op[q].step \in {"uncommit", "uncommitted"},
             nextId' = nextId, proven' = proven, WorldOK', RouteProven'
      PROVE  DomainInv'
  <2> DEFINE r == Updated(row[u], op[q].row.id, "error")
  <2>1. op[q].row.id \in 1..MaxId
    BY <1>2, OpFacts DEF DomainInv, TypeOK, WithRow, RowsOfTable
  <2>2. Succeeds(u, r)
    BY <1>1, <1>2, <2>1, UpdatedSucceeds DEF Statuses
  <2>3. row' = [row EXCEPT ![u] = r] /\ End(q)
    BY <1>2 DEF KeepRow
  <2> HIDE DEF r
  <2>4. QED
    BY <1>1, <1>2, <2>2, <2>3, EndedWithRow
<1>3. ASSUME row' = [row EXCEPT ![u] = NoRow], End(q), nextId' = nextId, proven' = proven,
             WorldOK', RouteProven'
      PROVE  DomainInv'
  BY <1>1, <1>3, EndedWithRow DEF Succeeds
<1>4. CASE CommitRemoval(q)
  <2>1. CASE KeepRow(q) /\ UNCHANGED <<route, routedFor>>
    <3>1. nextId' = nextId /\ proven' = proven /\ WorldOK' /\ RouteProven'
      BY <1>4, <2>1, SameWorld, CacheOK DEF CommitRemoval, KeepRow, history, git
    <3>2. QED
      BY <1>2, <1>4, <2>1, <3>1 DEF CommitRemoval
  <2>2. CASE /\ Routes(u, NoRow) /\ Go(q, "uncommitted")
             /\ UNCHANGED <<row, cache>>
    <3>1. UNCHANGED <<row, nextId, proven>> /\ WorldOK' /\ RouteProven'
      BY <1>1, <1>4, <2>2, RouteChanged, CacheOK DEF CommitRemoval, history
    <3>2. op[q].kind = "remove" /\ op[q].row # NoRow
      BY <1>1, <1>4 DEF CommitRemoval, HandlerOK, StepOf, WithRow
    <3>3. QED
      BY <2>2, <3>1, <3>2, Went DEF Steps, StepOf
  <2>3. QED
    BY <1>4, <2>1, <2>2 DEF CommitRemoval, AfterFailedRemove
<1>5. CASE FinishRemoval(q)
  <2>1. nextId' = nextId /\ proven' = proven /\ WorldOK' /\ RouteProven'
    <3>1. cache' = cache \/ cache' = [cache EXCEPT ![u] = "none"]
      BY <1>5 DEF FinishRemoval, DropRow, AfterFailedRemove, KeepRow
    <3>2. QED
      BY <1>5, <3>1, SameWorld, CacheOK, CacheSetOK DEF FinishRemoval, history
  <2>2. QED
    BY <1>2, <1>3, <1>5, <2>1 DEF FinishRemoval, DropRow, AfterFailedRemove
<1>6. CASE DeleteOrphans(q)
  <2>1. nextId' = nextId /\ proven' = proven /\ WorldOK' /\ RouteProven' /\ End(q)
    BY <1>6, SameWorld, CacheOK DEF DeleteOrphans, history
  <2>2. QED
    BY <1>3, <1>6, <2>1, Ended DEF DeleteOrphans
<1>7. QED
  BY <1>4, <1>5, <1>6

LEMMA DeploysOK ==
  ASSUME DomainAssumption, DomainInv, NEW q \in Requests,
         \/ CommitManifests(q) \/ CommitRegistration(q) \/ CommitUnregister(q) \/ Fail(q)
  PROVE  DomainInv'
<1> DEFINE u == op[q].user
<1>1. /\ op[q] \in Ops /\ HandlerOK(op[q]) /\ u \in Users
  BY OpFacts DEF CommitManifests, CommitRegistration, CommitUnregister, Fail, DomainInv, TypeOK
<1>2. CASE CommitManifests(q)
  <2>1. /\ Routes(u, op[q].row)
        /\ op[q].step = "manifests" /\ op[q].kind = "deploy"
    BY <1>1, <1>2 DEF CommitManifests, HandlerOK, StepOf
  <2>2. /\ op[q].row \in RowsOfTable \cup {NoRow}
        /\ op[q].row # NoRow => op[q].row.id \in proven
    BY <1>1, <2>1 DEF Ops, DomainInv, ProofFirst, NeedsProof
  <2>3. UNCHANGED <<row, nextId, proven>> /\ WorldOK' /\ RouteProven'
    BY <1>1, <1>2, <2>1, <2>2, RouteChanged, CacheOK DEF CommitManifests, store, history
  <2>4. CASE End(q)
    BY <2>3, <2>4, Ended
  <2>5. CASE Go(q, "publish")
    BY <2>1, <2>3, <2>5, Went DEF Steps, StepOf, WithRow
  <2>6. QED
    BY <1>2, <2>4, <2>5 DEF CommitManifests
<1>3. ASSUME registered' \subseteq Users, UNCHANGED <<store, route, routedFor, cluster, cache, dns, history>>
      PROVE  UNCHANGED <<row, nextId, proven>> /\ WorldOK' /\ RouteProven'
  BY <1>3 DEF DomainInv, TypeOK, WorldOK, RouteProven, store, cluster, dns, history
<1>4. registered \subseteq Users
  BY DEF DomainInv, TypeOK, WorldOK
<1>5. CASE CommitRegistration(q)
  BY <1>1, <1>3, <1>4, <1>5, Ended DEF CommitRegistration
<1>6. CASE CommitUnregister(q)
  <2>1. UNCHANGED <<row, nextId, proven>> /\ WorldOK' /\ RouteProven'
    BY <1>3, <1>4, <1>6 DEF CommitUnregister
  <2>2. op[q].kind = "teardown" /\ Go(q, "unregistered")
    BY <1>1, <1>6 DEF CommitUnregister, HandlerOK, StepOf
  <2>3. QED
    BY <2>1, <2>2, Went DEF Steps, StepOf, WithRow
<1>7. CASE Fail(q)
  <2>1. UNCHANGED <<row, nextId, proven>> /\ WorldOK' /\ RouteProven'
    BY <1>7, SameWorld, CacheOK DEF Fail, store, history
  <2>2. QED
    BY <1>7, <2>1, Ended DEF Fail
<1>8. QED
  BY <1>2, <1>5, <1>6, <1>7

LEMMA WorldStepOK ==
  ASSUME DomainAssumption, DomainInv, World
  PROVE  DomainInv'
<1>1. ASSUME NEW d \in Domains, PointDomain(d)
      PROVE  DomainInv'
  <2>1. \A u \in Users : row[u].id \in 0..MaxId
    BY RowFacts DEF DomainInv, TypeOK
  <2>2. cname' \in [Domains -> 0..MaxId] /\ txt' \in [Domains -> 0..MaxId]
    <3>1. cname \in [Domains -> 0..MaxId] /\ txt \in [Domains -> 0..MaxId] /\ 0 \in 0..MaxId
      BY DEF DomainInv, TypeOK, WorldOK, DomainAssumption
    <3>2. \/ txt' = txt /\ \E id \in 0..MaxId : cname' = [cname EXCEPT ![d] = id]
          \/ cname' = cname /\ \E id \in 0..MaxId : txt' = [txt EXCEPT ![d] = id]
      BY <1>1, <2>1, <3>1, Zenon DEF PointDomain
    <3>3. QED
      BY <3>1, <3>2
  <2>3. UNCHANGED <<op, row, nextId, proven, route, routedFor>> /\ WorldOK'
    BY <1>1, <2>2 DEF PointDomain, DomainInv, TypeOK, WorldOK, store, git, cluster, history
  <2>4. QED
    BY <2>3, Outside
<1>2. ASSUME NEW u \in Users, SyncIngress(u)
      PROVE  DomainInv'
  <2>1. UNCHANGED <<op, row, nextId, proven, route, routedFor>> /\ WorldOK'
    BY <1>2 DEF SyncIngress, DomainInv, TypeOK, WorldOK, store, git, dns, history
  <2>2. QED
    BY <2>1, Outside
<1>3. ASSUME NEW u \in Users, IssueCertificate(u)
      PROVE  DomainInv'
  <2>1. UNCHANGED <<op, row, nextId, proven, route, routedFor>> /\ WorldOK'
    BY <1>3 DEF IssueCertificate, DomainInv, TypeOK, WorldOK, store, git, dns
  <2>2. QED
    BY <2>1, Outside
<1>4. ASSUME NEW u \in Users, RemoveCertificate(u)
      PROVE  DomainInv'
  <2>1. UNCHANGED <<op, row, nextId, proven, route, routedFor>> /\ WorldOK'
    BY <1>4 DEF RemoveCertificate, DomainInv, TypeOK, WorldOK, store, git, dns, history
  <2>2. QED
    BY <2>1, Outside
<1>5. ASSUME NEW u \in Users, ExpireCache(u)
      PROVE  DomainInv'
  <2>1. UNCHANGED <<op, row, nextId, proven, route, routedFor>> /\ WorldOK'
    BY <1>5 DEF ExpireCache, DomainInv, TypeOK, WorldOK, store, git, cluster, dns, history
  <2>2. QED
    BY <2>1, Outside
<1>6. QED
  BY <1>1, <1>2, <1>3, <1>4, <1>5 DEF World

LEMMA CrashOK ==
  ASSUME DomainAssumption, DomainInv, Crash
  PROVE  DomainInv'
<1>1. UNCHANGED <<row, nextId, proven>> /\ WorldOK' /\ RouteProven'
  BY SameWorld DEF Crash, store, history
<1>2. TableOK' /\ ShownIsRecorded' /\ \A u \in Users : row'[u].applied => row'[u].id \in proven'
  BY <1>1, TableUnchanged
<1>3. \A q \in Requests : op'[q] = Idle
  BY DEF Crash
<1>4. Idle \in Ops /\ HandlerOK(Idle) /\ ~NeedsProof(Idle) /\ Recalls(Idle)
  BY IdleOK DEF DomainInv, TypeOK
<1>5. OpOK'
  BY <1>4 DEF Crash, OpOK
<1>6. Remembered'
  BY <1>1, <1>3, <1>4 DEF Remembered, Recalls
<1>7. ProofFirst'
  BY <1>2, <1>3, <1>4 DEF ProofFirst
<1>8. QED
  BY <1>1, <1>2, <1>5, <1>6, <1>7 DEF DomainInv, TypeOK

LEMMA NextOK ==
  ASSUME DomainAssumption, DomainInv, [Next]_vars
  PROVE  DomainInv'
<1>1. CASE UNCHANGED vars
  <2>1. WorldOK'
    BY <1>1 DEF vars, store, git, cluster, dns, history, DomainInv, TypeOK, WorldOK
  <2>2. QED
    BY <1>1, <2>1, Outside DEF vars, store, git, history
<1>2. ASSUME NEW q \in Requests, NEW u \in Users, Begins(q, u)
      PROVE  DomainInv'
  BY <1>2, BeginsOK
<1>3. ASSUME NEW q \in Requests, Handler(q)
      PROVE  DomainInv'
  BY <1>3, ReadsOK, ChecksOK, CommitsOK, RemovalsOK, DeploysOK DEF Handler
<1>4. QED
  BY <1>1, <1>2, <1>3, WorldStepOK, CrashOK DEF Next

-----------------------------------------------------------------------------
(* Theorems                                                                *)

\* Whatever handlers are in flight, restarted or overtaken: what they remember of a
\* row still holds of the row with that id, and a proof precedes what relies on it.
THEOREM DomainInvariant == Spec => []DomainInv
<1>1. Init => DomainInv
  BY DomainAssumption, InitOK
<1>2. DomainInv /\ [Next]_vars => DomainInv'
  BY DomainAssumption, NextOK
<1>3. QED
  BY <1>1, <1>2, PTL DEF Spec

\* Rows, handlers and the cluster stay within their types: in particular no id of
\* custom_domains is used twice, and a handler resumes only where its operation can be.
THEOREM TypeCorrect == Spec => []TypeOK
<1>1. DomainInv => TypeOK
  BY DEF DomainInv
<1>2. QED
  BY <1>1, DomainInvariant, PTL

\* The deploy repository never lists an Ingress in the name of a row whose own CNAME
\* target the DNS was not seen to carry, through verify, redeploys of a remembered row,
\* removals, new registrations and crashes: the proof of an earlier row does not count.
THEOREM RoutesProven == Spec => []RouteProven
<1>1. DomainInv => RouteProven
  BY DEF DomainInv
<1>2. QED
  BY <1>1, DomainInvariant, PTL

\* A row shown as applying or active has its commit recorded, although a GET moves
\* it to active without a lock: updates go by id and ids are not reused.
THEOREM ShownRecorded == Spec => []ShownIsRecorded
<1>1. DomainInv => ShownIsRecorded
  BY DEF DomainInv
<1>2. QED
  BY <1>1, DomainInvariant, PTL

-----------------------------------------------------------------------------
(* Mutations of one account exclude each other                             *)

Mutation(o) == o.kind \notin {"none", "get"}

OneMutation ==
  \A p, q \in Requests :
    p # q /\ op[p].user = op[q].user /\ Mutation(op[p]) => ~Mutation(op[q])

\* What a mutation relies on until it settles: a verification on the row it checks, a
\* redeploy on the domain it renders, a removal on its commit.
Holds(o) ==
  /\ o.kind = "verify" => row[o.user].id = o.row.id
  /\ o.step = "manifests" /\ row[o.user].applied => o.row.domain = row[o.user].domain
  /\ o.step = "uncommitted" => route[o.user] = None
  /\ o.step = "unregistered" => o.user \notin registered

MutationInv == OneMutation /\ \A q \in Requests : Holds(op[q])

\* At most its status changes.
SameRow(u) ==
  row'[u].id = row[u].id /\ row'[u].domain = row[u].domain /\ row'[u].applied = row[u].applied

LEMMA UpdatedSame ==
  ASSUME TableOK, NEW u \in Users, NEW id, NEW status
  PROVE  LET r == Updated(row[u], id, status)
         IN r.id = row[u].id /\ r.domain = row[u].domain /\ r.applied = row[u].applied
<1>1. row[u] \in RowsOfTable \cup {NoRow}
  BY DEF TableOK
<1>2. QED
  BY <1>1 DEF Updated, RowsOfTable, NoRow

\* A row comes, goes or is marked in a mutation of its account.
LEMMA RowsSettled ==
  ASSUME DomainAssumption, DomainInv, Next, NEW u \in Users, ~SameRow(u)
  PROVE  \/ \E q \in Requests : op[q].user = u /\
               (MarkApplied(q) \/ FinishRemoval(q) \/ DeleteOrphans(q))
         \/ \E q \in Requests : Drop(q, u)
         \/ \E q \in Requests, d \in Domains : Register(q, u, d)
<1>1. TableOK /\ OpOK
  BY DEF DomainInv, TypeOK
<1>2. ASSUME UNCHANGED row PROVE FALSE
  BY <1>2 DEF SameRow
<1>3. ASSUME NEW v, NEW r, row' = [row EXCEPT ![v] = r], v # u PROVE FALSE
  BY <1>1, <1>3 DEF SameRow, TableOK
<1>4. ASSUME NEW v, NEW id, NEW status, row' = [row EXCEPT ![v] = Updated(row[v], id, status)]
      PROVE  FALSE
  <2>1. v = u
    BY <1>3, <1>4
  <2>2. row'[u] = Updated(row[u], id, status)
    BY <1>1, <1>4, <2>1 DEF TableOK
  <2>3. QED
    BY <1>1, <2>2, UpdatedSame DEF SameRow
<1>5. ASSUME NEW q \in Requests, Errored(q) PROVE FALSE
  BY <1>4, <1>5 DEF Errored
<1>6. ASSUME NEW v, NEW seen, NEW ready, row' = [row EXCEPT ![v] = Flipped(row[v], seen, ready)]
      PROVE  FALSE
  <2>1. v = u
    BY <1>3, <1>6
  <2>2. row'[u] = Flipped(row[u], seen, ready)
    BY <1>1, <1>6, <2>1 DEF TableOK
  <2>3. QED
    BY <1>1, <2>2, UpdatedSame DEF SameRow, Flipped
<1>7. ASSUME NEW q \in Requests, NEW v \in Users, Begins(q, v)
      PROVE  Drop(q, u) \/ \E d \in Domains : Register(q, u, d)
  <2>1. Drop(q, v) \/ \E d \in Domains : Register(q, v, d)
    BY <1>2, <1>7 DEF Begins, BeginGet, BeginVerify, BeginRemove, BeginDeploy, BeginTeardown, store
  <2>2. v = u
    BY <1>3, <2>1 DEF Drop, Register, Insert
  <2>3. QED
    BY <2>1, <2>2
<1>8. ASSUME NEW q \in Requests, Handler(q)
      PROVE  op[q].user = u /\ (MarkApplied(q) \/ FinishRemoval(q) \/ DeleteOrphans(q))
  <2>1. ~Lookup(q) /\ ~CommitManifests(q) /\ ~CommitRegistration(q) /\ ~CommitUnregister(q) /\ ~Fail(q)
    BY <1>2 DEF Lookup, CommitManifests, CommitRegistration, CommitUnregister, Fail, store
  <2>2. ~ReadCertificate(q) /\ ~StoreCertificate(q)
    BY <1>1, <1>2, <1>6 DEF ReadCertificate, StoreCertificate, TableOK
  <2>3. ~CheckTxt(q) /\ ~CheckCname(q) /\ ~CommitIngress(q)
    BY <1>2, <1>4, <1>5 DEF CheckTxt, CheckCname, CommitIngress
  <2>4. ~CommitRemoval(q)
    BY <1>2, <1>4 DEF CommitRemoval, AfterFailedRemove, KeepRow
  <2>5. MarkApplied(q) \/ FinishRemoval(q) \/ DeleteOrphans(q)
    BY <1>8, <2>1, <2>2, <2>3, <2>4 DEF Handler
  <2>6. op[q].user = u
    BY <1>2, <1>3, <2>5 DEF MarkApplied, Errored, FinishRemoval, DropRow, AfterFailedRemove, KeepRow,
                        DeleteOrphans
  <2>7. QED
    BY <2>5, <2>6
<1>9. ~World /\ ~Crash
  BY <1>2 DEF World, PointDomain, SyncIngress, IssueCertificate, RemoveCertificate, ExpireCache,
              Crash, store
<1>10. QED
  BY <1>7, <1>8, <1>9 DEF Next

\* The Ingress in the repository and the registration change in mutations.
LEMMA GitSettled ==
  ASSUME DomainInv, Next, NEW u \in Users
  PROVE  /\ route'[u] # route[u] =>
              \E q \in Requests : op[q].user = u /\
                (CommitIngress(q) \/ CommitRemoval(q) \/ CommitManifests(q))
         /\ (u \in registered') # (u \in registered) =>
              \E q \in Requests : op[q].user = u /\ (CommitRegistration(q) \/ CommitUnregister(q))
<1>1. ASSUME NEW q \in Requests, NEW v \in Users, Begins(q, v) PROVE UNCHANGED git
  BY <1>1 DEF Begins, BeginGet, BeginVerify, BeginRemove, Drop, BeginDeploy, BeginTeardown, Register
<1>2. ASSUME NEW q \in Requests, \/ Lookup(q) \/ ReadCertificate(q) \/ StoreCertificate(q)
                                 \/ CheckTxt(q) \/ CheckCname(q) \/ MarkApplied(q)
                                 \/ FinishRemoval(q) \/ DeleteOrphans(q) \/ Fail(q)
      PROVE  UNCHANGED git
  BY <1>2 DEF Lookup, ReadCertificate, StoreCertificate, CheckTxt, CheckCname, MarkApplied,
              FinishRemoval, DeleteOrphans, Fail
<1>3. ASSUME World \/ Crash PROVE UNCHANGED git
  BY <1>3 DEF World, PointDomain, SyncIngress, IssueCertificate, RemoveCertificate, ExpireCache,
              Crash
<1>4. ASSUME NEW q \in Requests, CommitIngress(q) \/ CommitRemoval(q) \/ CommitManifests(q)
      PROVE  UNCHANGED registered /\ \A v \in Users \ {op[q].user} : route'[v] = route[v]
  BY <1>4 DEF CommitIngress, CommitRemoval, CommitManifests, Routes, DomainInv, TypeOK, WorldOK
<1>5. ASSUME NEW q \in Requests, CommitRegistration(q) \/ CommitUnregister(q)
      PROVE  UNCHANGED route
             /\ \A v \in Users \ {op[q].user} : (v \in registered') = (v \in registered)
  BY <1>5 DEF CommitRegistration, CommitUnregister
<1>6. QED
  BY <1>1, <1>2, <1>3, <1>4, <1>5 DEF Next, Handler, git

\* A step moves at most one handler, and keeps what it is and for whom.
LEMMA OpSettled ==
  ASSUME DomainInv, Next
  PROVE  \/ UNCHANGED op
         \/ op' = [q \in Requests |-> Idle]
         \/ \E q \in Requests, u \in Users : Begins(q, u) /\ ~Drop(q, u)
         \/ \E q \in Requests : Handler(q)
BY DEF Next, World, PointDomain, SyncIngress, IssueCertificate, RemoveCertificate, ExpireCache,
       Crash, Drop

\* A handler that moves ends, or goes on as the same operation of the same account.
LEMMA HandlerKeeps ==
  ASSUME DomainInv, NEW q \in Requests, Handler(q)
  PROVE  /\ op[q].kind # "none" /\ op[q].user \in Users
         /\ \A p \in Requests \ {q} : op'[p] = op[p]
         /\ op'[q] # op[q]
         /\ \/ op'[q] = Idle
            \/ /\ op'[q].kind = op[q].kind /\ op'[q].user = op[q].user
               /\ op'[q].row.id = op[q].row.id \/ op[q].kind = "get"
               /\ op'[q].step # "manifests"
<1> DEFINE Live == op[q].step # "idle" /\ op[q] \in Ops
           EndsQ == op' = [op EXCEPT ![q] = Idle]
           GoesQ == \E step \in Steps \ {"manifests", op[q].step} :
                      op' = [op EXCEPT ![q] = [op[q] EXCEPT !.step = step]]
           AnswersQ == \E r \in {row'[op[q].user], op[q].row} :
                         /\ op[q].step # "info"
                         /\ r.id = op[q].row.id \/ op[q].kind = "get"
                         /\ op' = [op EXCEPT ![q] = [op[q] EXCEPT !.step = "info", !.row = r]]
           ServedQ == \E ready \in BOOLEAN :
                        /\ op[q].step # "served"
                        /\ op' = [op EXCEPT ![q] = [op[q] EXCEPT !.step = "served", !.ready = ready]]
<1>1. op[q] \in Ops /\ HandlerOK(op[q]) /\ TableOK /\ op \in [Requests -> Ops]
  BY DEF DomainInv, TypeOK, OpOK
<1>2. op[q].step # "idle"
  BY DEF Handler, Lookup, ReadCertificate, StoreCertificate, CheckTxt, CheckCname, CommitIngress,
         MarkApplied, CommitRemoval, FinishRemoval, CommitManifests, CommitRegistration,
         CommitUnregister, DeleteOrphans, Fail
<1>3. op[q].kind # "none" /\ op[q].user \in Users
  BY <1>1, <1>2 DEF HandlerOK, StepOf
<1>4. ASSUME NEW r, AnswerWith(q, r), op[q].step # "info", row' = [row EXCEPT ![op[q].user] = r]
      PROVE  AnswersQ
  <2>1. row'[op[q].user] = r
    BY <1>1, <1>3, <1>4 DEF TableOK
  <2>2. QED
    BY <1>4, <2>1 DEF AnswerWith, GoWith
<1>5. ASSUME Errored(q), op[q].step # "info" PROVE AnswersQ
  BY <1>4, <1>5 DEF Errored
<1>6. EndsQ \/ GoesQ \/ AnswersQ \/ ServedQ
  <2>1. CASE \/ StoreCertificate(q) \/ FinishRemoval(q) \/ CommitRegistration(q)
             \/ DeleteOrphans(q) \/ Fail(q)
    BY <2>1 DEF StoreCertificate, FinishRemoval, DropRow, AfterFailedRemove, KeepRow,
                CommitRegistration, DeleteOrphans, Fail, End
  <2>2. CASE CommitManifests(q) \/ CommitUnregister(q) \/ CommitRemoval(q)
    BY <2>2 DEF CommitManifests, CommitUnregister, CommitRemoval, AfterFailedRemove, KeepRow,
                End, Go, Steps
  <2>3. CASE CheckTxt(q) \/ CheckCname(q) \/ CommitIngress(q)
    BY <1>5, <2>3 DEF CheckTxt, CheckCname, CommitIngress, Go, Steps
  <2>4. CASE MarkApplied(q)
    BY <1>4, <1>5, <2>4 DEF MarkApplied
  <2>5. CASE ReadCertificate(q)
    <3>1. CASE End(q)
      BY <3>1 DEF End
    <3>2. CASE ~End(q)
      BY <2>5, <3>2 DEF ReadCertificate
    <3>3. QED
      BY <3>1, <3>2
  <2>6. CASE Lookup(q)
    <3>1. UNCHANGED row /\ op[q].kind = "get" /\ op[q].step = "lookup"
      BY <1>1, <2>6 DEF Lookup, store, HandlerOK, StepOf
    <3>2. QED
      BY <2>6, <3>1 DEF Lookup, End, GoWith
  <2>7. QED
    BY <2>1, <2>2, <2>3, <2>4, <2>5, <2>6 DEF Handler
<1>7. CASE EndsQ
  BY <1>1, <1>2, <1>3, <1>7 DEF Idle
<1>8. CASE GoesQ
  BY <1>1, <1>3, <1>8 DEF Ops
<1>9. CASE AnswersQ
  <2>1. PICK r : /\ op[q].step # "info" /\ (r.id = op[q].row.id \/ op[q].kind = "get")
                 /\ op' = [op EXCEPT ![q] = [op[q] EXCEPT !.step = "info", !.row = r]]
    BY <1>9
  <2>2. /\ op'[q].kind = op[q].kind /\ op'[q].user = op[q].user
        /\ op'[q].row = r /\ op'[q].step = "info"
    BY <1>1, <2>1 DEF Ops
  <2>3. QED
    BY <1>1, <1>3, <2>1, <2>2
<1>10. CASE ServedQ
  <2>1. PICK ready : /\ op[q].step # "served"
                     /\ op' = [op EXCEPT ![q] = [op[q] EXCEPT !.step = "served", !.ready = ready]]
    BY <1>10
  <2>2. /\ op'[q].kind = op[q].kind /\ op'[q].user = op[q].user
        /\ op'[q].row = op[q].row /\ op'[q].step = "served"
    BY <1>1, <2>1 DEF Ops
  <2>3. QED
    BY <1>1, <1>3, <2>1, <2>2
<1>11. QED
  BY <1>6, <1>7, <1>8, <1>9, <1>10

\* A request that begins was idle, and a mutation begins alone.
LEMMA BeginKeeps ==
  ASSUME DomainInv, NEW q \in Requests, NEW u \in Users, Begins(q, u), ~Drop(q, u)
  PROVE  /\ op[q] = Idle
         /\ \A p \in Requests \ {q} : op'[p] = op[p]
         /\ op'[q].user = u
         /\ op'[q].kind = "get" \/ Free(q, u)
<1>1. ASSUME NEW kind, NEW step, NEW r, Begin(q, u, kind, step, r)
      PROVE  /\ op[q] = Idle /\ \A p \in Requests \ {q} : op'[p] = op[p]
             /\ op'[q].user = u /\ op'[q].kind = kind
             /\ kind = "get" \/ Free(q, u)
  BY <1>1 DEF Begin, Idle, DomainInv, TypeOK, OpOK
<1>2. PICK kind, step, r : Begin(q, u, kind, step, r)
  <2>1. CASE BeginGet(q, u)
    BY <2>1 DEF BeginGet
  <2>2. CASE BeginVerify(q, u)
    BY <2>2 DEF BeginVerify
  <2>3. CASE BeginRemove(q, u)
    BY <2>3 DEF BeginRemove
  <2>4. CASE BeginDeploy(q, u)
    BY <2>4 DEF BeginDeploy
  <2>5. CASE BeginTeardown(q, u)
    BY <2>5 DEF BeginTeardown
  <2>6. CASE \E d \in Domains : Register(q, u, d)
    BY <2>6 DEF Register
  <2>7. QED
    BY <2>1, <2>2, <2>3, <2>4, <2>5, <2>6 DEF Begins
<1>3. QED
  BY <1>1, <1>2

LEMMA OneMutationStep ==
  ASSUME DomainInv, OneMutation, Next
  PROVE  OneMutation'
<1>1. CASE UNCHANGED op
  BY <1>1 DEF OneMutation
<1>2. CASE op' = [q \in Requests |-> Idle]
  BY <1>2 DEF OneMutation, Mutation, Idle
<1>3. ASSUME NEW q \in Requests, NEW u \in Users, Begins(q, u), ~Drop(q, u)
      PROVE  OneMutation'
  <2>1. /\ \A p \in Requests \ {q} : op'[p] = op[p]
        /\ op'[q].user = u
        /\ op'[q].kind = "get" \/ Free(q, u)
    BY <1>3, BeginKeeps
  <2>2. QED
    BY <2>1 DEF OneMutation, Mutation, Free
<1>4. ASSUME NEW q \in Requests, Handler(q)
      PROVE  OneMutation'
  <2>1. /\ \A p \in Requests \ {q} : op'[p] = op[p]
        /\ op'[q] = Idle \/ (op'[q].kind = op[q].kind /\ op'[q].user = op[q].user)
    BY <1>4, HandlerKeeps
  <2>2. QED
    BY <2>1 DEF OneMutation, Mutation, Idle
<1>5. QED
  BY <1>1, <1>2, <1>3, <1>4, OpSettled

\* Only mutations rely on anything.
LEMMA ReadsHold ==
  ASSUME NEW o, HandlerOK(o), ~Mutation(o)
  PROVE  Holds(o)
BY DEF HandlerOK, StepOf, Mutation, Holds

\* The mutation in flight is the only one that moves its account's row, route and
\* registration.
LEMMA Undisturbed ==
  ASSUME DomainAssumption, DomainInv, OneMutation, Next, NEW q \in Requests,
         Mutation(op[q]), op'[q] = op[q]
  PROVE  LET u == op[q].user
         IN SameRow(u) /\ route'[u] = route[u] /\ (u \in registered') = (u \in registered)
<1> DEFINE u == op[q].user
<1>1. u \in Users
  BY DEF DomainInv, TypeOK, OpOK, HandlerOK, Mutation
<1>2. ASSUME NEW p \in Requests, op[p].user = u, Handler(p), op[p].kind # "get"
      PROVE  FALSE
  <2>1. Mutation(op[p])
    BY <1>2, HandlerKeeps DEF Mutation
  <2>2. p = q
    BY <1>2, <2>1 DEF OneMutation
  <2>3. QED
    BY <1>2, <2>2, HandlerKeeps
<1>3. ASSUME NEW p \in Requests, Free(p, u)
      PROVE  FALSE
  BY <1>3 DEF Free, Mutation
<1>4. \A p \in Requests : HandlerOK(op[p])
  BY DEF DomainInv, TypeOK, OpOK
<1>5. SameRow(u)
  <2>1. ASSUME NEW p \in Requests, op[p].user = u,
               MarkApplied(p) \/ FinishRemoval(p) \/ DeleteOrphans(p)
        PROVE  FALSE
    <3>1. Handler(p)
      BY <2>1 DEF Handler
    <3>2. op[p].kind # "get"
      BY <1>4, <2>1 DEF MarkApplied, FinishRemoval, DeleteOrphans, HandlerOK, StepOf
    <3>3. QED
      BY <1>2, <2>1, <3>1, <3>2
  <2>2. ASSUME NEW p \in Requests, Drop(p, u) PROVE FALSE
    BY <1>3, <2>2 DEF Drop
  <2>3. ASSUME NEW p \in Requests, NEW d \in Domains, Register(p, u, d) PROVE FALSE
    BY <1>3, <2>3 DEF Register, Begin
  <2>4. QED
    BY <1>1, <2>1, <2>2, <2>3, RowsSettled
<1>6. ASSUME NEW p \in Requests, op[p].user = u,
             \/ CommitIngress(p) \/ CommitRemoval(p) \/ CommitManifests(p)
             \/ CommitRegistration(p) \/ CommitUnregister(p)
      PROVE  FALSE
  <2>1. Handler(p)
    BY <1>6 DEF Handler
  <2>2. op[p].kind # "get"
    BY <1>4, <1>6 DEF CommitIngress, CommitRemoval, CommitManifests, CommitRegistration,
                      CommitUnregister, HandlerOK, StepOf
  <2>3. QED
    BY <1>2, <1>6, <2>1, <2>2
<1>7. route'[u] = route[u] /\ (u \in registered') = (u \in registered)
  BY <1>1, <1>6, GitSettled
<1>8. QED
  BY <1>5, <1>7

LEMMA UndisturbedHolds ==
  ASSUME DomainAssumption, DomainInv, OneMutation, Next, NEW q \in Requests, op'[q] = op[q],
         Holds(op[q])
  PROVE  Holds(op[q])'
<1>1. op'[q].step = op[q].step /\ HandlerOK(op[q]) /\ HandlerOK(op'[q])
  BY DEF DomainInv, TypeOK, OpOK, HandlerOK
<1>2. CASE ~Mutation(op[q])
  BY <1>1, <1>2 DEF HandlerOK, StepOf, Mutation, Holds
<1>3. CASE Mutation(op[q])
  BY <1>3, Undisturbed DEF Holds, SameRow
<1>4. QED
  BY <1>2, <1>3

\* What the new mutation starts from is what it relies on.
LEMMA BeginHolds ==
  ASSUME DomainAssumption, DomainInv, NEW q \in Requests, NEW u \in Users, Begins(q, u), ~Drop(q, u)
  PROVE  Holds(op[q])'
<1>1. ASSUME NEW kind, NEW step, NEW r, Begin(q, u, kind, step, r)
      PROVE  op'[q].kind = kind /\ op'[q].step = step /\ op'[q].user = u /\ op'[q].row = r
  BY <1>1 DEF Begin, Idle, DomainInv, TypeOK, OpOK
<1>2. CASE BeginGet(q, u)
  BY <1>1, <1>2 DEF BeginGet, Holds
<1>3. CASE BeginVerify(q, u)
  <2>1. /\ op'[q].kind = "verify" /\ op'[q].user = u /\ op'[q].row = row[u] /\ row' = row
        /\ op'[q].step \in {"info", "txt", "cname"}
    BY <1>1, <1>3 DEF BeginVerify, store
  <2>2. QED
    BY <2>1 DEF Holds
<1>4. CASE BeginRemove(q, u)
  BY <1>1, <1>4 DEF BeginRemove, Holds
<1>5. CASE BeginDeploy(q, u)
  <2>1. /\ op'[q].kind = "deploy" /\ op'[q].step = "manifests" /\ op'[q].user = u
        /\ op'[q].row = Rendered(u) /\ row' = row
    BY <1>1, <1>5 DEF BeginDeploy, store
  <2>2. QED
    BY <2>1 DEF Holds, Rendered
<1>6. CASE BeginTeardown(q, u)
  BY <1>1, <1>6 DEF BeginTeardown, Holds
<1>7. CASE \E d \in Domains : Register(q, u, d)
  <2>1. op'[q].kind = "register" /\ op'[q].step = "info"
    BY <1>1, <1>7 DEF Register
  <2>2. QED
    BY <2>1 DEF Holds
<1>8. QED
  BY <1>2, <1>3, <1>4, <1>5, <1>6, <1>7 DEF Begins

\* A verification keeps the id of the row it checks; a removal that goes on has taken
\* the Ingress out, a teardown that goes on the registration.
LEMMA HandlerHolds ==
  ASSUME DomainAssumption, DomainInv, NEW q \in Requests, Handler(q), Holds(op[q])
  PROVE  Holds(op[q])'
<1> DEFINE u == op[q].user
<1>1. /\ u \in Users /\ op[q].kind # "none"
      /\ \/ op'[q] = Idle
         \/ /\ op'[q].kind = op[q].kind /\ op'[q].user = u
            /\ op'[q].row.id = op[q].row.id \/ op[q].kind = "get"
            /\ op'[q].step # "manifests"
  BY HandlerKeeps
<1>2. HandlerOK(op[q]) /\ OpOK /\ TableOK /\ WorldOK
  BY DEF DomainInv, TypeOK, OpOK
<1>3. CASE op'[q] = Idle
  BY <1>3 DEF Holds, Idle
<1>4. CASE op'[q] # Idle
  <2>1. op'[q].kind = op[q].kind /\ op'[q].user = u /\ op'[q].step # "manifests"
    BY <1>1, <1>4
  <2>2. CASE op[q].kind = "verify"
    <3>1. op'[q].row.id = op[q].row.id
      BY <1>1, <1>4, <2>2
    <3>2. row'[u].id = row[u].id
      <4>1. ASSUME NEW id, NEW status, row' = [row EXCEPT ![u] = Updated(row[u], id, status)]
            PROVE  row'[u].id = row[u].id
        <5>1. row'[u] = Updated(row[u], id, status)
          BY <1>1, <1>2, <4>1 DEF TableOK
        <5>2. QED
          BY <1>1, <1>2, <5>1, UpdatedSame
      <4>2. ASSUME Errored(q) PROVE row'[u].id = row[u].id
        BY <4>1, <4>2 DEF Errored
      <4>3. CASE MarkApplied(q) /\ ~Errored(q)
        <5>1. row'[u] = AppliedRow(row[u], op[q].row.id)
          BY <1>1, <1>2, <4>3 DEF MarkApplied, TableOK
        <5>2. row[u] \in RowsOfTable \cup {NoRow}
          BY <1>1, <1>2 DEF TableOK
        <5>3. QED
          BY <5>1, <5>2 DEF AppliedRow, RowsOfTable, NoRow
      <4>4. CASE ReadCertificate(q)
        <5>1. ~End(q)
          BY <1>2, <1>4 DEF End, OpOK
        <5>2. QED
          BY <4>4, <5>1 DEF ReadCertificate
      <4>5. CASE CheckTxt(q) \/ CheckCname(q) \/ CommitIngress(q)
        BY <4>1, <4>2, <4>5 DEF CheckTxt, CheckCname, CommitIngress
      <4>6. ~StoreCertificate(q)
        BY <1>2, <1>4 DEF StoreCertificate, End, OpOK
      <4>7. op[q].step \in {"txt", "cname", "commit", "committed", "info", "served"}
        BY <1>2, <2>2 DEF HandlerOK, StepOf
      <4>8. \/ CheckTxt(q) \/ CheckCname(q) \/ CommitIngress(q) \/ MarkApplied(q) \/ ReadCertificate(q)
        BY <4>6, <4>7 DEF Handler, Lookup, CommitRemoval, FinishRemoval, CommitManifests,
                          CommitRegistration, CommitUnregister, DeleteOrphans, Fail
      <4>9. QED
        BY <4>2, <4>3, <4>4, <4>5, <4>8
    <3>3. op'[q].step \notin {"uncommitted", "unregistered", "manifests"}
      <4>1. HandlerOK(op'[q])
        <5>1. DomainInv'
          BY NextOK DEF Next
        <5>2. QED
          BY <5>1 DEF DomainInv, TypeOK, OpOK, HandlerOK
      <4>2. QED
        BY <2>1, <2>2, <4>1 DEF HandlerOK, StepOf
    <3>4. row[u].id = op[q].row.id
      BY <2>2 DEF Holds
    <3>5. QED
      BY <2>1, <3>1, <3>2, <3>3, <3>4 DEF Holds
  <2>3. CASE op[q].kind # "verify"
    <3>1. CASE CommitRemoval(q)
      <4>1. route' = [route EXCEPT ![u] = None]
        BY <1>2, <1>4, <3>1 DEF CommitRemoval, AfterFailedRemove, KeepRow, End, OpOK, Routes, NoRow
      <4>2. route'[u] = None
        BY <1>1, <1>2, <4>1 DEF WorldOK
      <4>3. op'[q].step = "uncommitted"
        BY <1>2, <1>4, <3>1 DEF CommitRemoval, AfterFailedRemove, KeepRow, End, Go, OpOK, Ops
      <4>4. QED
        BY <2>1, <2>3, <4>2, <4>3 DEF Holds
    <3>2. CASE CommitUnregister(q)
      <4>1. u \notin registered'
        BY <3>2 DEF CommitUnregister
      <4>2. op'[q].step = "unregistered"
        BY <1>2, <3>2 DEF CommitUnregister, Go, OpOK, Ops
      <4>3. QED
        BY <2>1, <2>3, <4>1, <4>2 DEF Holds
    <3>3. CASE ~CommitRemoval(q) /\ ~CommitUnregister(q)
      <4>1. op[q] \in Ops
        BY <1>2 DEF OpOK
      <4>2. op'[q].step \notin {"uncommitted", "unregistered"}
        <5>1. op[q].step \in {"lookup", "info", "served", "uncommitted", "manifests",
                              "publish", "unregistered", "unregister", "uncommit"}
          BY <1>1, <1>2, <2>3 DEF HandlerOK, StepOf
        <5>2. \/ Lookup(q) \/ ReadCertificate(q) \/ CommitManifests(q)
          BY <1>2, <1>4, <3>3, <5>1 DEF Handler, StoreCertificate, CheckTxt, CheckCname,
             CommitIngress, MarkApplied, FinishRemoval, DropRow, AfterFailedRemove, KeepRow,
             CommitRegistration, DeleteOrphans, Fail, End, OpOK
        <5>3. op'[q].step \in {"info", "served", "publish"}
          <6>1. CASE Lookup(q)
            BY <1>2, <1>4, <4>1, <6>1 DEF Lookup, End, GoWith, OpOK, Ops
          <6>2. CASE CommitManifests(q)
            BY <1>2, <1>4, <4>1, <6>2 DEF CommitManifests, End, Go, OpOK, Ops
          <6>3. CASE ReadCertificate(q)
            <7>1. PICK ready : op' = [op EXCEPT ![q] = [op[q] EXCEPT !.step = "served", !.ready = ready]]
              BY <1>2, <1>4, <6>3 DEF ReadCertificate, End, OpOK
            <7>2. QED
              BY <1>2, <4>1, <7>1 DEF OpOK, Ops
          <6>4. QED
            BY <5>2, <6>1, <6>2, <6>3
        <5>4. QED
          BY <5>3
      <4>3. QED
        BY <2>1, <2>3, <4>2 DEF Holds
    <3>4. QED
      BY <3>1, <3>2, <3>3
  <2>4. QED
    BY <2>2, <2>3
<1>5. QED
  BY <1>3, <1>4

LEMMA MutationStep ==
  ASSUME DomainAssumption, DomainInv, MutationInv, Next
  PROVE  MutationInv'
<1>1. OneMutation'
  BY OneMutationStep DEF MutationInv
<1>2. ASSUME NEW q \in Requests
      PROVE  Holds(op[q])'
  <2>1. CASE op'[q] = op[q]
    BY <2>1, UndisturbedHolds DEF MutationInv
  <2>2. CASE op'[q] = Idle
    BY <2>2 DEF Holds, Idle
  <2>3. CASE op'[q] # op[q] /\ op'[q] # Idle
    <3>1. ASSUME NEW p \in Requests, NEW u \in Users, Begins(p, u), ~Drop(p, u)
          PROVE  Holds(op[q])'
      <4>1. p = q
        BY <2>3, <3>1, BeginKeeps
      <4>2. QED
        BY <3>1, <4>1, BeginHolds
    <3>2. ASSUME NEW p \in Requests, Handler(p)
          PROVE  Holds(op[q])'
      <4>1. p = q
        BY <2>3, <3>2, HandlerKeeps
      <4>2. QED
        BY <3>2, <4>1, HandlerHolds DEF MutationInv
    <3>3. QED
      BY <2>3, <3>1, <3>2, OpSettled
  <2>4. QED
    BY <2>1, <2>2, <2>3
<1>3. QED
  BY <1>1, <1>2 DEF MutationInv

\* No two mutations of an account are ever in flight, and until a mutation settles
\* what it relies on holds: its row, the domain it renders, its own commit.
THEOREM MutationsHold == Spec => [](DomainInv /\ MutationInv)
<1>1. Init => MutationInv
  BY DEF Init, MutationInv, OneMutation, Mutation, Holds, Idle
<1>2. DomainInv /\ MutationInv /\ [Next]_vars => MutationInv'
  <2>1. CASE Next
    BY <2>1, MutationStep, DomainAssumption
  <2>2. CASE UNCHANGED vars
    BY <2>2 DEF vars, store, git, MutationInv, OneMutation, Holds
  <2>3. QED
    BY <2>1, <2>2
<1>3. QED
  BY <1>1, <1>2, DomainInvariant, PTL DEF Spec

-----------------------------------------------------------------------------
(* What only the account's own removal may take away                       *)

\* A redeploy, a verification or a crash never takes an applied domain out of the
\* repository: only a removal the account itself asked for does.
THEOREM DomainKept == Spec => RedeployKeepsDomain
<1>1. DomainInv /\ MutationInv /\ [Next]_vars =>
        [\A u \in Users :
           row[u].applied /\ route[u] = row[u].domain =>
             route'[u] = route[u] \/ \E q \in Requests : op[q].user = u /\ op[q].kind = "remove"]_vars
  <2>1. SUFFICES ASSUME DomainInv, MutationInv, Next, NEW u \in Users, row[u].applied,
                        route[u] = row[u].domain, route'[u] # route[u]
                 PROVE  \E q \in Requests : op[q].user = u /\ op[q].kind = "remove"
    OBVIOUS
  <2>2. PICK q \in Requests : op[q].user = u /\
               (CommitIngress(q) \/ CommitRemoval(q) \/ CommitManifests(q))
    BY <2>1, GitSettled
  <2>3. /\ op[q] \in Ops /\ HandlerOK(op[q]) /\ WorldOK /\ TableOK
        /\ Holds(op[q]) /\ Recalls(op[q])
    BY <2>1 DEF DomainInv, TypeOK, OpOK, MutationInv, Remembered
  <2>4. ~CommitIngress(q)
    <3>1. SUFFICES ASSUME CommitIngress(q) PROVE FALSE
      OBVIOUS
    <3>2. op[q].kind = "verify" /\ op[q].row # NoRow
      BY <2>3, <3>1 DEF CommitIngress, HandlerOK, StepOf, WithRow
    <3>3. op[q].row.domain = row[u].domain
      BY <2>2, <2>3, <3>2 DEF Holds, Recalls
    <3>4. route'[u] = op[q].row.domain
      BY <2>1, <2>2, <2>3, <3>1 DEF CommitIngress, Routes, WorldOK
    <3>5. QED
      BY <2>1, <3>3, <3>4
  <2>5. ~CommitManifests(q)
    <3>1. SUFFICES ASSUME CommitManifests(q) PROVE FALSE
      OBVIOUS
    <3>2. op[q].row.domain = row[u].domain
      BY <2>1, <2>2, <2>3, <3>1 DEF CommitManifests, Holds
    <3>3. route'[u] = op[q].row.domain
      BY <2>1, <2>2, <2>3, <3>1 DEF CommitManifests, Routes, WorldOK
    <3>4. QED
      BY <2>1, <3>2, <3>3
  <2>6. CommitRemoval(q)
    BY <2>2, <2>4, <2>5
  <2>7. op[q].kind = "remove"
    BY <2>3, <2>6 DEF CommitRemoval, HandlerOK, StepOf
  <2>8. QED
    BY <2>2, <2>7
<1>2. QED
  BY <1>1, MutationsHold, PTL DEF Spec, RedeployKeepsDomain

\* An account that sees an applied domain gone finds its Ingress out of the repository,
\* or the whole registration removed.
THEOREM GoneUnrouted == Spec => GoneMeansUnrouted
<1>1. DomainInv /\ MutationInv /\ [Next]_vars =>
        [\A u \in Users :
           row[u].applied /\ row'[u].id # row[u].id => route'[u] = None \/ u \notin registered']_vars
  <2>1. SUFFICES ASSUME DomainInv, MutationInv, Next, NEW u \in Users, row[u].applied,
                        row'[u].id # row[u].id
                 PROVE  route'[u] = None \/ u \notin registered'
    OBVIOUS
  <2>2. ~SameRow(u) /\ DomainAssumption
    BY <2>1, DomainAssumption DEF SameRow
  <2>3. ASSUME NEW q \in Requests, Drop(q, u) PROVE FALSE
    BY <2>1, <2>3 DEF Drop
  <2>4. ASSUME NEW q \in Requests, NEW d \in Domains, Register(q, u, d) PROVE FALSE
    BY <2>1, <2>4 DEF Register, HasDomain, NoRow
  <2>5. PICK q \in Requests : op[q].user = u /\
               (MarkApplied(q) \/ FinishRemoval(q) \/ DeleteOrphans(q))
    BY <2>1, <2>2, <2>3, <2>4, RowsSettled
  <2>6. TableOK /\ Holds(op[q]) /\ row[u] \in RowsOfTable \cup {NoRow}
    BY <2>1 DEF DomainInv, TypeOK, TableOK, MutationInv
  <2>7. CASE MarkApplied(q)
    <3>1. CASE row' = [row EXCEPT ![u] = AppliedRow(row[u], op[q].row.id)]
      <4>1. row'[u] = AppliedRow(row[u], op[q].row.id)
        BY <2>6, <3>1 DEF TableOK
      <4>2. QED
        BY <2>1, <2>6, <4>1 DEF AppliedRow, RowsOfTable, NoRow
    <3>2. CASE row' = [row EXCEPT ![u] = Updated(row[u], op[q].row.id, "error")]
      <4>1. row'[u] = Updated(row[u], op[q].row.id, "error")
        BY <2>6, <3>2 DEF TableOK
      <4>2. QED
        BY <2>1, <2>6, <4>1, UpdatedSame
    <3>3. QED
      BY <2>5, <2>7, <3>1, <3>2 DEF MarkApplied, Errored
  <2>8. CASE FinishRemoval(q)
    <3>1. route[u] = None
      BY <2>5, <2>6, <2>8 DEF FinishRemoval, Holds
    <3>2. UNCHANGED route
      BY <2>8 DEF FinishRemoval, git
    <3>3. QED
      BY <3>1, <3>2
  <2>9. CASE DeleteOrphans(q)
    <3>1. u \notin registered
      BY <2>5, <2>6, <2>9 DEF DeleteOrphans, Holds
    <3>2. UNCHANGED registered
      BY <2>9 DEF DeleteOrphans, git
    <3>3. QED
      BY <3>1, <3>2
  <2>10. QED
    BY <2>5, <2>7, <2>8, <2>9
<1>2. QED
  BY <1>1, MutationsHold, PTL DEF Spec, GoneMeansUnrouted
=============================================================================
