-------------------------- MODULE MCParallelReader --------------------------
(* Model-checking instances of ParallelReader.                             *)
EXTENDS ParallelReader

\* Fail points of the passing runs: everything the code handles.
MC_FailPointsHandled == {"thread_start", "thread_finish", "row", "interrupt", "spawn"}
MC_FailPointsNone       == {}
MC_FailPointsCtxStart   == {"ctx_start"}
MC_FailPointsCtxFinish  == {"ctx_finish"}
MC_FailPointsPageFinish == {"page_finish"}

\* C++ leaves the order of the two loads unspecified.  The passing runs fix
\* it to the order the source reads (m_n_completed first); the race run
\* lets each evaluation take either order.
MC_OrderLeftFirst == {"n_completed_first"}
MC_OrderAny       == {"n_completed_first", "ctx_id_first"}

\* A reader of max_threads() 2 with up to three initial ranges and splits
\* of up to two, failing at the given points.
Pair(n, fail) == [n |-> n, max |-> 2, ranges |-> {0, 1, 3}, depths |-> {2, 3},
                  sub |-> 2, fail |-> fail]
\* Three workers and one initial context that is split (depth 3 >=
\* SPLIT_THRESHOLD) into one child, so a worker can take the child while
\* another is already in the completion test.
Three(fail) == [n |-> 3, max |-> 3, ranges |-> {1}, depths |-> {3}, sub |-> 1, fail |-> fail]

\* run(0) or run(2) with every handled failure, and three workers around a
\* split with none.
MC_ScenariosParallel == {Pair(0, MC_FailPointsHandled), Pair(2, MC_FailPointsHandled),
                         Three(MC_FailPointsNone)}
MC_ScenariosRace       == {Three(MC_FailPointsNone)}
MC_ScenariosCtxStart   == {Pair(2, MC_FailPointsCtxStart)}
MC_ScenariosCtxFinish  == {Pair(2, MC_FailPointsCtxFinish)}
MC_ScenariosPageFinish == {Pair(2, MC_FailPointsPageFinish)}

=============================================================================
