---------------------------- MODULE ThreadBudget ----------------------------
(***************************************************************************)
(* The global budget of parallel-read threads (row0pread.cc).  Each       *)
(* reader asks available_threads() for threads: fetch_add on the global   *)
(* s_active_threads, then a local decision that gives back what it cannot *)
(* grant with fetch_sub.  The reader is constructed with what it got      *)
(* (m_max_threads); spawn() gives back what run(n) does not use, and the  *)
(* destructor gives back the threads it ran unless the read was           *)
(* synchronous.  release_unused_threads() is in the header, not in this   *)
(* tree: it is a fetch_sub of its argument.                                *)
(***************************************************************************)
EXTENDS Naturals, Integers, FiniteSets, Functions

CONSTANTS
  Readers,              \* concurrent Parallel_reader instances
  MAX_THREADS,          \* Parallel_reader::MAX_THREADS
  MAX_RESERVED_THREADS, \* Parallel_reader::MAX_RESERVED_THREADS
  Requests              \* the n_required a caller may ask for

VARIABLES
  active,   \* s_active_threads (an Int: a wrap below 0 shows as negative)
  pc,       \* per reader: "start", "avail", "ready", "ran", "done"
  req,      \* per reader: n_required
  useRes,   \* per reader: use_reserved
  seen,     \* per reader: the value fetch_add returned
  maxT,     \* per reader: m_max_threads
  nThreads, \* per reader: m_n_threads
  sync      \* per reader: m_sync

vars == <<active, pc, req, useRes, seen, maxT, nThreads, sync>>

\* available_threads(): fetch_add of the request.
AvailFetchAdd(r) ==
  /\ pc[r] = "start"
  /\ \E n \in Requests, res \in BOOLEAN :
       /\ req' = [req EXCEPT ![r] = n]
       /\ useRes' = [useRes EXCEPT ![r] = res]
       /\ seen' = [seen EXCEPT ![r] = active]
       /\ active' = active + n
  /\ pc' = [pc EXCEPT ![r] = "avail"]
  /\ UNCHANGED <<maxT, nThreads, sync>>

\* The threads a caller gets, given the fetch_add result and its limit.
Granted(n, act, max) == IF act < max THEN IF n <= max - act THEN n ELSE max - act
                        ELSE 0

\* Mutant: the reserved threads are added for every caller.
AvailDecideAlwaysReserved(r) ==
  /\ pc[r] = "avail"
  /\ LET g == Granted(req[r], seen[r], MAX_THREADS + MAX_RESERVED_THREADS)
     IN  /\ active' = active - (req[r] - g)
         /\ maxT' = [maxT EXCEPT ![r] = g]
         /\ nThreads' = [nThreads EXCEPT ![r] = g]
         /\ sync' = [sync EXCEPT ![r] = (g = 0)]
  /\ pc' = [pc EXCEPT ![r] = "ready"]
  /\ UNCHANGED <<req, useRes, seen>>

\* The rest of available_threads(): give back, with one fetch_sub, what
\* is not granted; then the Parallel_reader constructor.
AvailDecide(r) ==
  /\ pc[r] = "avail"
  /\ LET max == IF useRes[r] THEN MAX_THREADS + MAX_RESERVED_THREADS ELSE MAX_THREADS
         g   == Granted(req[r], seen[r], max)
     IN  /\ active' = active - (req[r] - g)
         /\ maxT' = [maxT EXCEPT ![r] = g]
         /\ nThreads' = [nThreads EXCEPT ![r] = g]
         /\ sync' = [sync EXCEPT ![r] = (g = 0)]
  /\ pc' = [pc EXCEPT ![r] = "ready"]
  /\ UNCHANGED <<req, useRes, seen>>

\* Mutant: spawn() keeps the threads run() does not use.
RunNoRelease(r, n) ==
  /\ pc[r] = "ready"
  /\ n <= maxT[r]
  /\ sync' = [sync EXCEPT ![r] = @ \/ n = 0]
  /\ nThreads' = [nThreads EXCEPT ![r] = n]
  /\ UNCHANGED active
  /\ pc' = [pc EXCEPT ![r] = "ran"]
  /\ UNCHANGED <<req, useRes, seen, maxT>>

\* run(n) and spawn(n): m_n_threads = n, release_unused_threads() of the
\* rest.  The threads' work is ParallelReader's concern.
Run(r, n) ==
  /\ pc[r] = "ready"
  /\ n <= maxT[r]
  /\ sync' = [sync EXCEPT ![r] = @ \/ n = 0]
  /\ nThreads' = [nThreads EXCEPT ![r] = n]
  /\ active' = IF maxT[r] > n THEN active - (maxT[r] - n) ELSE active
  /\ pc' = [pc EXCEPT ![r] = "ran"]
  /\ UNCHANGED <<req, useRes, seen, maxT>>

\* Mutant: the destructor releases m_max_threads, not m_n_threads.
DestroyReleasesMax(r) ==
  /\ pc[r] \in {"ready", "ran"}
  /\ active' = IF ~sync[r] THEN active - maxT[r] ELSE active
  /\ pc' = [pc EXCEPT ![r] = "done"]
  /\ UNCHANGED <<req, useRes, seen, maxT, nThreads, sync>>

\* ~Parallel_reader(): release_unused_threads(m_n_threads) unless m_sync.
Destroy(r) ==
  /\ pc[r] \in {"ready", "ran"}
  /\ active' = IF ~sync[r] THEN active - nThreads[r] ELSE active
  /\ pc' = [pc EXCEPT ![r] = "done"]
  /\ UNCHANGED <<req, useRes, seen, maxT, nThreads, sync>>

Init ==
  /\ active = 0
  /\ pc = [r \in Readers |-> "start"]
  /\ req = [r \in Readers |-> 0]
  /\ useRes = [r \in Readers |-> FALSE]
  /\ seen = [r \in Readers |-> 0]
  /\ maxT = [r \in Readers |-> 0]
  /\ nThreads = [r \in Readers |-> 0]
  /\ sync = [r \in Readers |-> FALSE]

Done == \A r \in Readers : pc[r] = "done"

Next ==
  \/ \E r \in Readers :
       \/ AvailFetchAdd(r) \/ AvailDecide(r) \/ Destroy(r)
       \/ \E n \in 0 .. MAX_THREADS + MAX_RESERVED_THREADS : Run(r, n)
  \/ Done /\ UNCHANGED vars

Spec == Init /\ [][Next]_vars

-----------------------------------------------------------------------------
(* Properties.                                                            *)

\* The threads reader r has counted in s_active_threads and not given back:
\* its request while available_threads() runs, what it was granted until
\* run(), the threads it ran until it is destroyed (none if synchronous).
Owed(r) ==
  CASE pc[r] = "avail" -> req[r]
    [] pc[r] = "ready" -> maxT[r]
    [] pc[r] = "ran"   -> IF sync[r] THEN 0 ELSE nThreads[r]
    [] OTHER           -> 0

SumOver(f) == FoldFunction(+, 0, f)

TypeOK ==
  /\ active \in Nat
  /\ pc \in [Readers -> {"start", "avail", "ready", "ran", "done"}]
  /\ req \in [Readers -> Requests \cup {0}] /\ useRes \in [Readers -> BOOLEAN]
  /\ maxT \in [Readers -> Nat] /\ nThreads \in [Readers -> Nat]
  /\ \A r \in Readers : nThreads[r] <= maxT[r]

\* s_active_threads is exactly the sum of what every reader has taken and
\* not given back: available_threads(), spawn() and the destructor
\* together release each thread once, so no later caller is refused
\* threads that are free, nor granted threads that are taken.
BudgetAccounted == active = SumOver([r \in Readers |-> Owed(r)])

\* Never more threads are granted than MAX_THREADS plus the reserve, and
\* the callers that may not use the reserve together hold at most
\* MAX_THREADS: available_threads() decides on a counter that other
\* callers move between its fetch_add and its fetch_sub.
CapRespected ==
  LET held(r) == IF pc[r] \in {"ready", "ran"} THEN Owed(r) ELSE 0
  IN  /\ SumOver([r \in Readers |-> held(r)]) <= MAX_THREADS + MAX_RESERVED_THREADS
      /\ SumOver([r \in Readers |-> IF useRes[r] THEN 0 ELSE held(r)]) <= MAX_THREADS

=============================================================================
