----------------------------- MODULE IndexSLock -----------------------------
(***************************************************************************)
(* Scan_ctx::index_s_lock() and index_s_unlock() (row0pread.cc) share one *)
(* S latch on the index among the workers of a scan: a counter m_s_locks  *)
(* decides who latches (the caller whose fetch_add returned 0) and who    *)
(* unlatches (the caller whose fetch_sub returned 1); the latch may be    *)
(* released by a thread that did not take it.  Workers call them around   *)
(* Ctx::split() and around a traversal above the leaf level, and read     *)
(* non-leaf pages in between.  Another transaction's structure            *)
(* modification takes the index latch in X mode.                          *)
(***************************************************************************)
EXTENDS Naturals, FiniteSets

CONSTANTS
  Threads,    \* the workers of one scan
  MaxCycles,  \* lock/unlock pairs each worker makes
  MaxSMOs     \* X-latched structure modifications by other transactions

VARIABLES
  sLocks,  \* Scan_ctx::m_s_locks
  sHeld,   \* S holds on the index rw-lock
  xHeld,   \* an SMO holds the index rw-lock in X mode
  smos,    \* SMOs so far
  pc,      \* per worker: "idle", "latching", "in", "unlatching"
  cycles   \* per worker: lock/unlock pairs completed

vars == <<sLocks, sHeld, xHeld, smos, pc, cycles>>

\* Mutant: the caller that sees 1 takes the latch.
SLockFetchAddOffByOne(t) ==
  /\ pc[t] = "idle" /\ cycles[t] < MaxCycles
  /\ sLocks' = sLocks + 1
  /\ pc' = [pc EXCEPT ![t] = IF sLocks = 1 THEN "latching" ELSE "in"]
  /\ UNCHANGED <<sHeld, xHeld, smos, cycles>>

\* index_s_lock(): m_s_locks.fetch_add(1); only the first takes the latch.
SLockFetchAdd(t) ==
  /\ pc[t] = "idle" /\ cycles[t] < MaxCycles
  /\ sLocks' = sLocks + 1
  /\ pc' = [pc EXCEPT ![t] = IF sLocks = 0 THEN "latching" ELSE "in"]
  /\ UNCHANGED <<sHeld, xHeld, smos, cycles>>

\* rw_lock_s_lock_gen(): waits while the index is X-latched.
SLockLatch(t) ==
  /\ pc[t] = "latching" /\ ~xHeld
  /\ sHeld' = sHeld + 1
  /\ pc' = [pc EXCEPT ![t] = "in"]
  /\ UNCHANGED <<sLocks, xHeld, smos, cycles>>

\* index_s_unlock(): m_s_locks.fetch_sub(1); only the last unlatches.
SUnlockFetchSub(t) ==
  /\ pc[t] = "in"
  /\ sLocks' = sLocks - 1
  /\ pc' = [pc EXCEPT ![t] = IF sLocks = 1 THEN "unlatching" ELSE "idle"]
  /\ cycles' = [cycles EXCEPT ![t] = @ + 1]
  /\ UNCHANGED <<sHeld, xHeld, smos>>

\* rw_lock_s_unlock_gen().
SUnlockLatch(t) ==
  /\ pc[t] = "unlatching"
  /\ sHeld' = sHeld - 1
  /\ pc' = [pc EXCEPT ![t] = "idle"]
  /\ UNCHANGED <<sLocks, xHeld, smos, cycles>>

\* A structure modification X-latches the index when no S latch is held.
XLock ==
  /\ ~xHeld /\ sHeld = 0 /\ smos < MaxSMOs
  /\ xHeld' = TRUE
  /\ smos' = smos + 1
  /\ UNCHANGED <<sLocks, sHeld, pc, cycles>>

XUnlock ==
  /\ xHeld
  /\ xHeld' = FALSE
  /\ UNCHANGED <<sLocks, sHeld, smos, pc, cycles>>

Init ==
  /\ sLocks = 0 /\ sHeld = 0 /\ xHeld = FALSE /\ smos = 0
  /\ pc = [t \in Threads |-> "idle"]
  /\ cycles = [t \in Threads |-> 0]

Worker(t) ==
  \/ SLockFetchAdd(t) \/ SLockLatch(t) \/ SUnlockFetchSub(t) \/ SUnlockLatch(t)

Finished == \A t \in Threads : pc[t] = "idle" /\ cycles[t] = MaxCycles

Next ==
  \/ \E t \in Threads : Worker(t)
  \/ XLock \/ XUnlock
  \/ Finished /\ ~xHeld /\ UNCHANGED vars

Spec == Init /\ [][Next]_vars

-----------------------------------------------------------------------------
(* Properties.                                                            *)

TypeOK ==
  /\ sLocks \in Nat /\ sHeld \in Nat /\ xHeld \in BOOLEAN
  /\ pc \in [Threads -> {"idle", "latching", "in", "unlatching"}]
  /\ cycles \in [Threads -> 0 .. MaxCycles]

\* The S holds on the index are exactly those the counter protocol owes:
\* one for the current round of callers once its first caller has
\* latched, and one for each last caller of an earlier round that has not
\* unlatched yet.  So no hold is leaked and none is released twice, even
\* when a round ends and the next begins before the old hold is released.
LatchBalanced ==
  sHeld = Cardinality({t \in Threads : pc[t] = "unlatching"})
          + (IF sLocks > 0 /\ \A t \in Threads : pc[t] # "latching" THEN 1 ELSE 0)

\* A worker past index_s_lock() reads non-leaf pages; the index must not be
\* X-latched by a structure modification meanwhile.
NoReadUnderX == \A t \in Threads : pc[t] = "in" => ~xHeld

=============================================================================
