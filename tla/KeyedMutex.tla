----------------------------- MODULE KeyedMutex -----------------------------
(***************************************************************************)
(* What AccountMutationInterceptor promises: a process holds a set of keys *)
(* from the moment its mutation starts until the handler has settled, and  *)
(* no two processes hold one key.  A process that cannot get all its keys  *)
(* is refused at once (409), it never waits; a restart of the single       *)
(* backend replica forgets every key together with every handler.          *)
(* Which keys an operation takes is left open (KeySets).                   *)
(***************************************************************************)
EXTENDS FiniteSets

CONSTANTS Processes,  \* whoever may have a mutation running
          KeySets     \* the sets of keys operations ask for

VARIABLES active,     \* the interceptor's Set of held keys
          held        \* held[p]: the keys of p's running mutation, {} if none

lockVars == <<active, held>>

LockTypeOK == /\ held \in [Processes -> KeySets \cup {{}}]
              /\ active \subseteq UNION KeySets

LockInit == /\ active = {}
            /\ held = [p \in Processes |-> {}]

\* All keys at once or none: the test and the additions share one synchronous block.
Acquire(p, ks) ==
  /\ held[p] = {}
  /\ ks \in KeySets
  /\ ks \cap active = {}
  /\ active' = active \cup ks
  /\ held' = [held EXCEPT ![p] = ks]

\* The finally block, reached only when the handler's promise settles.
Settle(p) ==
  /\ held[p] # {}
  /\ active' = active \ held[p]
  /\ held' = [held EXCEPT ![p] = {}]

Restart == /\ active' = {}
           /\ held' = [p \in Processes |-> {}]

LockNext == \/ \E p \in Processes : \/ \E ks \in KeySets : Acquire(p, ks)
                                    \/ Settle(p)
            \/ Restart

LockSpec == LockInit /\ [][LockNext]_lockVars

-----------------------------------------------------------------------------
\* No key has two holders.
Exclusive == \A p, q \in Processes : p # q => held[p] \cap held[q] = {}

\* The Set is exactly what running handlers hold: nothing leaks, nothing is freed early.
NoLeak == active = UNION {held[p] : p \in Processes}

LockInv == Exclusive /\ NoLeak
=============================================================================
