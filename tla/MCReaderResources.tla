------------------------- MODULE MCReaderResources -------------------------
(***************************************************************************)
(* The two resource protocols a parallel read shares with other readers   *)
(* and its own workers, checked side by side: the global thread budget   *)
(* (ThreadBudget) and the index S latch shared through Scan_ctx::m_s_locks *)
(* (IndexSLock).  They touch disjoint state, so the run interleaves the   *)
(* two freely.                                                             *)
(***************************************************************************)
EXTENDS Naturals, TLC

CONSTANTS r1, r2, t1, t2

VARIABLES active, tbPc, req, useRes, seen, maxT, nThreads, sync,
          sLocks, sHeld, xHeld, smos, isPc, cycles

tbVars == <<active, tbPc, req, useRes, seen, maxT, nThreads, sync>>
isVars == <<sLocks, sHeld, xHeld, smos, isPc, cycles>>

\* Two readers asking for 1 to 3 threads out of 2 plus 1 reserved.
TB == INSTANCE ThreadBudget
        WITH Readers <- {r1, r2}, MAX_THREADS <- 2, MAX_RESERVED_THREADS <- 1,
             Requests <- {1, 2, 3}, pc <- tbPc

\* Two workers, two lock/unlock pairs each, two structure modifications.
IS == INSTANCE IndexSLock
        WITH Threads <- {t1, t2}, MaxCycles <- 2, MaxSMOs <- 2, pc <- isPc

Init == TB!Init /\ IS!Init

Next == \/ TB!Next /\ UNCHANGED isVars
        \/ IS!Next /\ UNCHANGED tbVars

Spec == Init /\ [][Next]_<<tbVars, isVars>>

\* Readers and workers are interchangeable.
Symmetry == {p @@ q : p \in Permutations({r1, r2}), q \in Permutations({t1, t2})}

TypeOK == TB!TypeOK /\ IS!TypeOK

\* See ThreadBudget: s_active_threads equals what the readers hold.
BudgetAccounted == TB!BudgetAccounted

\* See ThreadBudget: no caller is granted threads beyond its limit.
CapRespected == TB!CapRespected

\* See IndexSLock: the S holds are exactly those the m_s_locks protocol owes.
LatchBalanced == IS!LatchBalanced

=============================================================================
