-------------------------- MODULE KeyedMutexProofs --------------------------
(* The interceptor's promise for any number of processes and any key sets. *)
EXTENDS KeyedMutex, TLAPS

LEMMA LockInitOK ==
  LockInit => LockTypeOK /\ LockInv
BY DEF LockInit, LockTypeOK, LockInv, Exclusive, NoLeak

\* A grant takes keys nobody holds, so it shares none with another process.
LEMMA AcquireOK ==
  ASSUME LockTypeOK, LockInv, NEW p \in Processes, NEW ks \in KeySets, Acquire(p, ks)
  PROVE  LockTypeOK' /\ LockInv'
<1>1. LockTypeOK'
  BY DEF LockTypeOK, Acquire
<1>2. \A q \in Processes : held'[q] = IF q = p THEN ks ELSE held[q]
  BY DEF LockTypeOK, Acquire
<1>3. \A q \in Processes : held[q] \subseteq active
  BY DEF LockInv, NoLeak
<1>4. Exclusive'
  BY <1>2, <1>3 DEF LockInv, Exclusive, Acquire
<1>5. NoLeak'
  <2>1. UNION {held'[q] : q \in Processes} \subseteq active'
    BY <1>2, <1>3 DEF Acquire
  <2>2. active' \subseteq UNION {held'[q] : q \in Processes}
    <3>1. SUFFICES ASSUME NEW k \in active'
                   PROVE  \E q \in Processes : k \in held'[q]
      OBVIOUS
    <3>2. CASE k \in ks
      BY <1>2, <3>2
    <3>3. CASE k \in active
      <4>1. PICK q \in Processes : k \in held[q]
        BY <3>3 DEF LockInv, NoLeak
      <4>2. q # p
        BY <4>1 DEF Acquire
      <4>3. QED
        BY <1>2, <4>1, <4>2
    <3>4. QED
      BY <3>2, <3>3 DEF Acquire
  <2>3. QED
    BY <2>1, <2>2 DEF NoLeak
<1>6. QED
  BY <1>1, <1>4, <1>5 DEF LockInv

\* A settled mutation gives back its own keys and no other's.
LEMMA SettleOK ==
  ASSUME LockTypeOK, LockInv, NEW p \in Processes, Settle(p)
  PROVE  LockTypeOK' /\ LockInv'
<1>1. LockTypeOK'
  BY DEF LockTypeOK, Settle
<1>2. \A q \in Processes : held'[q] = IF q = p THEN {} ELSE held[q]
  BY DEF LockTypeOK, Settle
<1>3. Exclusive'
  BY <1>2 DEF LockInv, Exclusive
<1>4. NoLeak'
  <2>1. ASSUME NEW k PROVE k \in active' <=> \E q \in Processes : k \in held'[q]
    <3>1. k \in active <=> \E q \in Processes : k \in held[q]
      BY DEF LockInv, NoLeak
    <3>2. \A q \in Processes \ {p} : ~(k \in held[q] /\ k \in held[p])
      BY DEF LockInv, Exclusive
    <3>3. QED
      BY <1>2, <3>1, <3>2 DEF Settle
  <2>2. QED
    BY <2>1 DEF NoLeak
<1>5. QED
  BY <1>1, <1>3, <1>4 DEF LockInv

LEMMA LockNextOK ==
  ASSUME LockTypeOK, LockInv, [LockNext]_lockVars
  PROVE  LockTypeOK' /\ LockInv'
<1>1. CASE Restart
  BY <1>1 DEF Restart, LockTypeOK, LockInv, Exclusive, NoLeak
<1>2. CASE UNCHANGED lockVars
  BY <1>2 DEF lockVars, LockTypeOK, LockInv, Exclusive, NoLeak
<1>3. QED
  BY <1>1, <1>2, AcquireOK, SettleOK DEF LockNext

\* Two mutations never hold one key, and the Set is exactly what running
\* mutations hold: no key outlives its handler, none goes before it.
THEOREM LockSafety == LockSpec => []LockInv
<1>1. LockInit => LockTypeOK /\ LockInv
  BY LockInitOK
<1>2. (LockTypeOK /\ LockInv) /\ [LockNext]_lockVars => (LockTypeOK /\ LockInv)'
  BY LockNextOK
<1>3. QED
  BY <1>1, <1>2, PTL DEF LockSpec
=============================================================================
