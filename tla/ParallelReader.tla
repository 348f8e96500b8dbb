--------------------------- MODULE ParallelReader ---------------------------
(***************************************************************************)
(* The worker scheduler of InnoDB's parallel reader                       *)
(* (storage/innobase/row/row0pread.cc): Scan_ctx::create_contexts() puts  *)
(* the execution contexts of a scan in the reader's FIFO queue, run()     *)
(* spawns the worker threads (parallel_read()) or runs one worker in the  *)
(* caller (synchronous mode), and each worker() dequeues contexts,        *)
(* either traverses one (with context start/finish callbacks) or splits   *)
(* an oversized one into new contexts, publishes its count of completed   *)
(* contexts, and sleeps on the shared os_event until more work appears or *)
(* all contexts are done.  Errors go to the Scan_ctx and the reader's     *)
(* first-error slot and make the other workers leave lazily.              *)
(*                                                                         *)
(* A context's traversal is one step with a nondeterministic outcome; the *)
(* traversal itself is modelled in LeafScan.  A split returns 0..         *)
(* sc.sub new contexts; the range arithmetic is in Partitioner.           *)
(***************************************************************************)
EXTENDS Naturals, Sequences, FiniteSets

CONSTANTS
  Scenarios,      \* the readers to check, each a record:
                  \*   n      - the n_threads run() is called with; 0 is the synchronous path
                  \*   max    - max_threads() of the reader, used by create_contexts()
                  \*   ranges - possible numbers of ranges returned by the first partition()
                  \*   depths - possible values of Scan_ctx::m_depth after partitioning
                  \*   sub    - most ranges a runtime split() may produce
                  \*   fail   - which of the failing operations may fail
  CompareOrders   \* orders in which "m_n_completed == m_ctx_id" may load its operands

ASSUME \A s \in Scenarios :
         /\ s.n \in 0 .. s.max /\ s.ranges \subseteq Nat /\ s.depths \subseteq Nat
         /\ s.sub \in Nat
         /\ s.fail \subseteq {"thread_start", "ctx_start", "ctx_finish", "thread_finish",
                              "row", "page_finish", "interrupt", "spawn"}
ASSUME CompareOrders # {} /\ CompareOrders \subseteq {"n_completed_first", "ctx_id_first"}

\* dberr_t values that occur in this part of the code.
OK           == "DB_SUCCESS"
ERR          == "DB_ERROR"            \* an error returned by a user callback
INTERRUPTED  == "DB_INTERRUPTED"
OOR          == "DB_OUT_OF_RESOURCES"
Errors       == {ERR, INTERRUPTED, OOR}

\* row0pread.cc: SPLIT_THRESHOLD, tree depth below which ranges are not split.
SPLIT_THRESHOLD == 3

MaxOf(S) == CHOOSE x \in S : \A y \in S : y <= x

\* Worker slots: the synchronous path runs worker 1 in the calling thread.
Workers == 1 .. MaxOf({s.n : s \in Scenarios} \cup {1})
\* Every context that can be created: the initial ones and the ones split() adds.
MaxCtxs == MaxOf({MaxOf(s.ranges) * (1 + s.sub) : s \in Scenarios})
MaxSub  == MaxOf({s.sub : s \in Scenarios})
CtxIds  == 0 .. (MaxCtxs - 1)

VARIABLES
  queue,        \* Parallel_reader::m_ctxs, the FIFO of context ids
  ctxId,        \* Parallel_reader::m_ctx_id, number of contexts ever created
  isSplit,      \* Ctx::m_split of each created context
  nCompleted,   \* Parallel_reader::m_n_completed
  readerErr,    \* Parallel_reader::m_err
  scanErr,      \* Scan_ctx::m_err
  event,        \* Parallel_reader::m_event: [set, count] of the os_event
  interrupted,  \* trx_is_interrupted(): the query was killed
  sc,           \* the scenario of this behaviour
  nThreads,     \* n_threads passed to run()
  mainPc,       \* control point of the thread that called run()
  spawned,      \* worker threads started so far
  result,       \* value returned by run()
  pc,           \* control point of each worker()
  err,          \* worker() local err
  cbErr,        \* worker() local cb_err
  cur,          \* the context a worker dequeued
  nLocal,       \* worker() local n_completed
  sig,          \* worker() local sig_count
  pending,      \* contexts split() still has to create
  loaded,       \* first operand loaded by "m_n_completed == m_ctx_id"
  completed     \* history: times each context was traversed or split to the end

vars == <<queue, ctxId, isSplit, nCompleted, readerErr, scanErr, event, interrupted,
          sc, nThreads, mainPc, spawned, result, pc, err, cbErr, cur, nLocal, sig, pending,
          loaded, completed>>
workerVars == <<pc, err, cbErr, cur, nLocal, sig, pending, loaded>>

\* run(): m_sync is set when no threads are requested.
Sync == nThreads = 0

WorkerPcs == {"idle", "thr_start", "wait_spawn", "reset", "loop", "deq", "chk_scan",
              "split", "create", "ctx_start", "traverse", "ctx_finish", "intr", "publish",
              "cmp1", "cmp2", "wait", "post", "post_wake", "thr_finish", "exit", "done"}

-----------------------------------------------------------------------------
(* The os_event (os0event.cc, not part of this source tree): set() bumps   *)
(* signal_count only when the event was reset; reset() returns the count;  *)
(* wait(c) returns once the event is set or the count differs from c.      *)
(* The count starts at 1, so the "count 0 means now" case never arises.    *)
EventSet(e)          == IF e.set THEN e ELSE [set |-> TRUE, count |-> e.count + 1]
EventReset(e)        == [e EXCEPT !.set = FALSE]
EventCanReturn(e, c) == e.set \/ e.count # c
\* Parallel_reader(): m_sig_count = os_event_reset(m_event) of a fresh event.
InitSigCount == 1

\* The outcomes a callback or check may have, by fail point.
Outcomes(fp) == IF fp \in sc.fail THEN {OK, ERR} ELSE {OK}

\* Scan_ctx::create_contexts(): contexts at index >= split_point are split ones.
SplitPoint(nRanges, depth) ==
  LET n == IF sc.max > 1 THEN sc.max ELSE 1
  IN  IF nRanges > n THEN (nRanges \div n) * n
      ELSE IF depth < SPLIT_THRESHOLD THEN n
      ELSE 0

\* Ctx::is_error_set(): the reader or the context's scan has an error.
CtxErrorSet == readerErr # OK \/ scanErr # OK

-----------------------------------------------------------------------------
(* Parallel_reader::add_scan() -> partition() -> create_contexts(), done   *)
(* before run(): the queue holds one context per range.                   *)
Init ==
  \E s \in Scenarios : \E r \in s.ranges, d \in s.depths :
    /\ sc = s
    /\ queue = [i \in 1..r |-> i - 1]
    /\ ctxId = r
    /\ isSplit = [c \in CtxIds |-> c < r /\ c >= SplitPoint(r, d)]
    /\ nCompleted = 0
    /\ readerErr = OK
    /\ scanErr = OK
    /\ event = [set |-> FALSE, count |-> InitSigCount]
    /\ interrupted = FALSE
    /\ nThreads = s.n
    /\ mainPc = "start"
    /\ spawned = 0
    /\ result = OK
    /\ pc = [w \in Workers |-> "idle"]
    /\ err = [w \in Workers |-> OK]
    /\ cbErr = [w \in Workers |-> OK]
    /\ cur = [w \in Workers |-> 0]
    /\ nLocal = [w \in Workers |-> 0]
    /\ sig = [w \in Workers |-> 0]
    /\ pending = [w \in Workers |-> 0]
    /\ loaded = [w \in Workers |-> <<"none", 0>>]
    /\ completed = [c \in CtxIds |-> 0]

-----------------------------------------------------------------------------
(* The calling thread: run() -> spawn() -> parallel_read() -> join().      *)

\* parallel_read(): an empty queue returns at once and no worker is started.
ParallelRead ==
  /\ mainPc = "start"
  /\ mainPc' = IF queue = <<>> THEN "join" ELSE IF Sync THEN "signal" ELSE "spawn"
  /\ UNCHANGED <<queue, ctxId, isSplit, nCompleted, readerErr, scanErr, event,
                 interrupted, spawned, result, completed, workerVars>>

\* parallel_read(): start worker thread i.
SpawnThread ==
  /\ mainPc = "spawn"
  /\ spawned < nThreads
  /\ spawned' = spawned + 1
  /\ pc' = [pc EXCEPT ![spawned + 1] = "thr_start"]
  /\ UNCHANGED <<queue, ctxId, isSplit, nCompleted, readerErr, scanErr, event,
                 interrupted, mainPc, result, completed, err, cbErr, cur, nLocal,
                 sig, pending, loaded>>

\* parallel_read(): os_thread_create() throws; set the error and stop spawning.
SpawnFail ==
  /\ mainPc = "spawn"
  /\ spawned < nThreads
  /\ "spawn" \in sc.fail
  /\ readerErr' = OOR
  /\ mainPc' = "signal"
  /\ UNCHANGED <<queue, ctxId, isSplit, nCompleted, scanErr, event, interrupted,
                 spawned, result, completed, workerVars>>

SpawnDone ==
  /\ mainPc = "spawn"
  /\ spawned = nThreads
  /\ mainPc' = "signal"
  /\ UNCHANGED <<queue, ctxId, isSplit, nCompleted, readerErr, scanErr, event,
                 interrupted, spawned, result, completed, workerVars>>

\* parallel_read(): os_event_set() releases the spawned workers; in the
\* synchronous mode it is followed by worker() in the calling thread.
SignalWorkers ==
  /\ mainPc = "signal"
  /\ event' = EventSet(event)
  /\ IF Sync THEN /\ pc' = [pc EXCEPT ![1] = "thr_start"]
                  /\ spawned' = 1
             ELSE UNCHANGED <<pc, spawned>>
  /\ mainPc' = "join"
  /\ UNCHANGED <<queue, ctxId, isSplit, nCompleted, readerErr, scanErr, interrupted,
                 result, completed, err, cbErr, cur, nLocal, sig, pending, loaded>>

\* run(): join() and return the reader's error, or in the non-synchronous
\* case the scan's error; the synchronous path returns the reader's only.
Join ==
  /\ mainPc = "join"
  /\ \A w \in 1..spawned : pc[w] = "done"
  /\ result' = IF readerErr # OK THEN readerErr
               ELSE IF Sync THEN OK ELSE scanErr
  /\ mainPc' = "done"
  /\ UNCHANGED <<queue, ctxId, isSplit, nCompleted, readerErr, scanErr, event,
                 interrupted, spawned, completed, workerVars>>

\* KILL QUERY: marks the transaction interrupted (may be repeated).
Interrupt ==
  /\ "interrupt" \in sc.fail
  /\ interrupted' = TRUE
  /\ UNCHANGED <<queue, ctxId, isSplit, nCompleted, readerErr, scanErr, event,
                 mainPc, spawned, result, completed, workerVars>>

-----------------------------------------------------------------------------
(* worker(): one action per step between accesses to shared state.        *)

Goto(w, l) == pc' = [pc EXCEPT ![w] = l]

\* Thread start callback; a failure is the worker's err and the reader's.
ThreadStart(w) ==
  /\ pc[w] = "thr_start"
  /\ \E cb \in Outcomes("thread_start") :
       /\ cbErr' = [cbErr EXCEPT ![w] = cb]
       /\ err' = [err EXCEPT ![w] = cb]
       /\ readerErr' = IF cb # OK THEN cb ELSE readerErr
  /\ Goto(w, IF Sync THEN "reset" ELSE "wait_spawn")
  /\ UNCHANGED <<queue, ctxId, isSplit, nCompleted, scanErr, event, interrupted,
                 mainPc, spawned, result, completed, cur, nLocal, sig, pending, loaded>>

\* Wait until parallel_read() has spawned all threads (m_sig_count).
WaitSpawned(w) ==
  /\ pc[w] = "wait_spawn"
  /\ EventCanReturn(event, InitSigCount)
  /\ Goto(w, "reset")
  /\ UNCHANGED <<queue, ctxId, isSplit, nCompleted, readerErr, scanErr, event,
                 interrupted, mainPc, spawned, result, completed, err, cbErr, cur,
                 nLocal, sig, pending, loaded>>

\* Top of for (;;): n_completed = 0, sig_count = os_event_reset(m_event).
ResetEvent(w) ==
  /\ pc[w] = "reset"
  /\ sig' = [sig EXCEPT ![w] = event.count]
  /\ event' = EventReset(event)
  /\ nLocal' = [nLocal EXCEPT ![w] = 0]
  /\ Goto(w, "loop")
  /\ UNCHANGED <<queue, ctxId, isSplit, nCompleted, readerErr, scanErr, interrupted,
                 mainPc, spawned, result, completed, err, cbErr, cur, pending, loaded>>

\* while (err == DB_SUCCESS && cb_err == DB_SUCCESS && !is_error_set())
LoopCond(w) ==
  /\ pc[w] = "loop"
  /\ Goto(w, IF err[w] = OK /\ cbErr[w] = OK /\ readerErr = OK THEN "deq" ELSE "publish")
  /\ UNCHANGED <<queue, ctxId, isSplit, nCompleted, readerErr, scanErr, event,
                 interrupted, mainPc, spawned, result, completed, err, cbErr, cur,
                 nLocal, sig, pending, loaded>>

\* Mutant: dequeue() that reads m_ctxs.front() but forgets pop_front().
DequeueNoPop(w) ==
  /\ pc[w] = "deq"
  /\ IF queue = <<>>
       THEN /\ Goto(w, "publish")
            /\ UNCHANGED <<queue, cur>>
       ELSE /\ cur' = [cur EXCEPT ![w] = Head(queue)]
            /\ Goto(w, "chk_scan")
            /\ UNCHANGED queue
  /\ UNCHANGED <<ctxId, isSplit, nCompleted, readerErr, scanErr, event, interrupted,
                 mainPc, spawned, result, completed, err, cbErr, nLocal, sig,
                 pending, loaded>>

\* dequeue() under m_mutex; an empty queue ends the inner loop.
Dequeue(w) ==
  /\ pc[w] = "deq"
  /\ IF queue = <<>>
       THEN /\ Goto(w, "publish")
            /\ UNCHANGED <<queue, cur>>
       ELSE /\ cur' = [cur EXCEPT ![w] = Head(queue)]
            /\ queue' = Tail(queue)
            /\ Goto(w, "chk_scan")
  /\ UNCHANGED <<ctxId, isSplit, nCompleted, readerErr, scanErr, event, interrupted,
                 mainPc, spawned, result, completed, err, cbErr, nLocal, sig,
                 pending, loaded>>

\* if (scan_ctx->is_error_set()) break;  -- the dequeued context is dropped.
CheckScanError(w) ==
  /\ pc[w] = "chk_scan"
  /\ Goto(w, IF scanErr # OK THEN "publish"
             ELSE IF isSplit[cur[w]] THEN "split" ELSE "ctx_start")
  /\ UNCHANGED <<queue, ctxId, isSplit, nCompleted, readerErr, scanErr, event,
                 interrupted, mainPc, spawned, result, completed, err, cbErr, cur,
                 nLocal, sig, pending, loaded>>

\* Ctx::split(): partition() the context's range into sub-ranges.
Split(w) ==
  /\ pc[w] = "split"
  /\ \E k \in 0..sc.sub : pending' = [pending EXCEPT ![w] = k]
  /\ Goto(w, "create")
  /\ UNCHANGED <<queue, ctxId, isSplit, nCompleted, readerErr, scanErr, event,
                 interrupted, mainPc, spawned, result, completed, err, cbErr, cur,
                 nLocal, sig, loaded>>

\* Mutant: the loop over the split's ranges runs one time too many.
CreateContextUnbounded(w) ==
  /\ pc[w] = "create"
  /\ pending[w] >= 0
  /\ ctxId' = ctxId + 1
  /\ isSplit' = [isSplit EXCEPT ![ctxId] = FALSE]
  /\ queue' = Append(queue, ctxId)
  /\ pending' = [pending EXCEPT ![w] = pending[w] - 1]
  /\ UNCHANGED <<nCompleted, readerErr, scanErr, event, interrupted, mainPc, spawned,
                 result, completed, pc, err, cbErr, cur, nLocal, sig, loaded>>

\* Scan_ctx::create_context(range, false): m_ctx_id.fetch_add(1), enqueue().
CreateContext(w) ==
  /\ pc[w] = "create"
  /\ pending[w] > 0
  /\ ctxId' = ctxId + 1
  /\ isSplit' = [isSplit EXCEPT ![ctxId] = FALSE]
  /\ queue' = Append(queue, ctxId)
  /\ pending' = [pending EXCEPT ![w] = pending[w] - 1]
  /\ UNCHANGED <<nCompleted, readerErr, scanErr, event, interrupted, mainPc, spawned,
                 result, completed, pc, err, cbErr, cur, nLocal, sig, loaded>>

\* split() returns; os_event_set() tells the other threads there is work.
SplitDone(w) ==
  /\ pc[w] = "create"
  /\ pending[w] = 0
  /\ event' = EventSet(event)
  /\ completed' = [completed EXCEPT ![cur[w]] = @ + 1]
  /\ Goto(w, "intr")
  /\ UNCHANGED <<queue, ctxId, isSplit, nCompleted, readerErr, scanErr, interrupted,
                 mainPc, spawned, result, err, cbErr, cur, nLocal, sig, pending, loaded>>

\* Context start callback.
CtxStart(w) ==
  /\ pc[w] = "ctx_start"
  /\ \E cb \in Outcomes("ctx_start") :
       /\ cbErr' = [cbErr EXCEPT ![w] = cb]
       /\ Goto(w, IF cb = OK /\ err[w] = OK THEN "traverse" ELSE "ctx_finish")
  /\ UNCHANGED <<queue, ctxId, isSplit, nCompleted, readerErr, scanErr, event,
                 interrupted, mainPc, spawned, result, completed, err, cur, nLocal,
                 sig, pending, loaded>>

\* The outcomes of Ctx::traverse(): a row or page callback error is stored in
\* the Scan_ctx by traverse_recs(); an error of the page-finish callback run
\* after the record loop is only returned; an interrupted trx is seen at a
\* page boundary; a traversal that sees is_error_set() stops early with
\* DB_SUCCESS.  Only a full traversal counts in the history.
TraverseOutcomes ==
  {"done"}
  \cup (IF "row" \in sc.fail THEN {"row_error"} ELSE {})
  \cup (IF "page_finish" \in sc.fail THEN {"page_finish_error"} ELSE {})
  \cup (IF interrupted THEN {"interrupted"} ELSE {})
  \cup (IF CtxErrorSet THEN {"stopped"} ELSE {})

\* Mutant: traverse_recs() returns a row callback error without storing it
\* in the Scan_ctx.
TraverseRowErrorUnrecorded(w) ==
  /\ pc[w] = "traverse"
  /\ \E out \in TraverseOutcomes :
       /\ err' = [err EXCEPT ![w] =
                    CASE out = "row_error"         -> ERR
                      [] out = "page_finish_error" -> ERR
                      [] out = "interrupted"       -> INTERRUPTED
                      [] OTHER                     -> OK]
       /\ scanErr' = IF out = "interrupted" THEN INTERRUPTED ELSE scanErr
       /\ completed' = IF out = "done" THEN [completed EXCEPT ![cur[w]] = @ + 1]
                       ELSE completed
  /\ Goto(w, "ctx_finish")
  /\ UNCHANGED <<queue, ctxId, isSplit, nCompleted, readerErr, event, interrupted,
                 mainPc, spawned, result, cbErr, cur, nLocal, sig, pending, loaded>>

Traverse(w) ==
  /\ pc[w] = "traverse"
  /\ \E out \in TraverseOutcomes :
       /\ err' = [err EXCEPT ![w] =
                    CASE out = "row_error"         -> ERR
                      [] out = "page_finish_error" -> ERR
                      [] out = "interrupted"       -> INTERRUPTED
                      [] OTHER                     -> OK]
       /\ scanErr' = CASE out = "row_error"   -> ERR
                       [] out = "interrupted" -> INTERRUPTED
                       [] OTHER               -> scanErr
       /\ completed' = IF out = "done" THEN [completed EXCEPT ![cur[w]] = @ + 1]
                       ELSE completed
  /\ Goto(w, "ctx_finish")
  /\ UNCHANGED <<queue, ctxId, isSplit, nCompleted, readerErr, event, interrupted,
                 mainPc, spawned, result, cbErr, cur, nLocal, sig, pending, loaded>>

\* Context finish callback: its result overwrites cb_err.
CtxFinish(w) ==
  /\ pc[w] = "ctx_finish"
  /\ \E cb \in Outcomes("ctx_finish") : cbErr' = [cbErr EXCEPT ![w] = cb]
  /\ Goto(w, "intr")
  /\ UNCHANGED <<queue, ctxId, isSplit, nCompleted, readerErr, scanErr, event,
                 interrupted, mainPc, spawned, result, completed, err, cur, nLocal,
                 sig, pending, loaded>>

\* trx_is_interrupted() check, then ++n_completed.
CheckInterrupted(w) ==
  /\ pc[w] = "intr"
  /\ IF err[w] = OK /\ interrupted
       THEN /\ err' = [err EXCEPT ![w] = INTERRUPTED]
            /\ scanErr' = INTERRUPTED
            /\ Goto(w, "publish")
            /\ UNCHANGED nLocal
       ELSE /\ nLocal' = [nLocal EXCEPT ![w] = @ + 1]
            /\ Goto(w, "loop")
            /\ UNCHANGED <<err, scanErr>>
  /\ UNCHANGED <<queue, ctxId, isSplit, nCompleted, readerErr, event, interrupted,
                 mainPc, spawned, result, completed, cbErr, cur, sig, pending, loaded>>

\* After the inner loop: leave on any error, else m_n_completed.fetch_add().
Publish(w) ==
  /\ pc[w] = "publish"
  /\ IF cbErr[w] # OK \/ err[w] # OK \/ readerErr # OK
       THEN /\ Goto(w, "post")
            /\ UNCHANGED nCompleted
       ELSE /\ nCompleted' = nCompleted + nLocal[w]
            /\ Goto(w, "cmp1")
  /\ UNCHANGED <<queue, ctxId, isSplit, readerErr, scanErr, event, interrupted,
                 mainPc, spawned, result, completed, err, cbErr, cur, nLocal, sig,
                 pending, loaded>>

\* "m_n_completed == m_ctx_id" loads two atomics one after the other; the
\* order of the loads is not fixed by the language, and both are relaxed.
LoadFirstOperand(w) ==
  /\ pc[w] = "cmp1"
  /\ \E o \in CompareOrders :
       loaded' = [loaded EXCEPT ![w] = IF o = "n_completed_first"
                                       THEN <<"n_completed", nCompleted>>
                                       ELSE <<"ctx_id", ctxId>>]
  /\ Goto(w, "cmp2")
  /\ UNCHANGED <<queue, ctxId, isSplit, nCompleted, readerErr, scanErr, event,
                 interrupted, mainPc, spawned, result, completed, err, cbErr, cur,
                 nLocal, sig, pending>>

\* Mutant: the last worker leaves without os_event_set().
CompareCompletedNoWake(w) ==
  /\ pc[w] = "cmp2"
  /\ LET second == IF loaded[w][1] = "n_completed" THEN ctxId ELSE nCompleted
     IN  Goto(w, IF loaded[w][2] = second THEN "post"
                 ELSE IF Sync THEN "reset" ELSE "wait")
  /\ UNCHANGED <<queue, ctxId, isSplit, nCompleted, readerErr, scanErr, event,
                 interrupted, mainPc, spawned, result, completed, err, cbErr, cur,
                 nLocal, sig, pending, loaded>>

\* Mutant: the completion test is lost, so a worker never leaves the loop
\* on "m_n_completed == m_ctx_id".
CompareCompletedNoBreak(w) ==
  /\ pc[w] = "cmp2"
  /\ Goto(w, IF Sync THEN "reset" ELSE "wait")
  /\ UNCHANGED <<queue, ctxId, isSplit, nCompleted, readerErr, scanErr, event,
                 interrupted, mainPc, spawned, result, completed, err, cbErr, cur,
                 nLocal, sig, pending, loaded>>

\* Equal: os_event_set() to wake the others and leave the loop.  Otherwise
\* wait on the event with this iteration's sig_count (no wait when m_sync).
CompareCompleted(w) ==
  /\ pc[w] = "cmp2"
  /\ LET second == IF loaded[w][1] = "n_completed" THEN ctxId ELSE nCompleted
     IN  IF loaded[w][2] = second
           THEN /\ event' = EventSet(event)
                /\ Goto(w, "post")
           ELSE /\ Goto(w, IF Sync THEN "reset" ELSE "wait")
                /\ UNCHANGED event
  /\ UNCHANGED <<queue, ctxId, isSplit, nCompleted, readerErr, scanErr, interrupted,
                 mainPc, spawned, result, completed, err, cbErr, cur, nLocal, sig,
                 pending, loaded>>

\* os_event_wait_time_low(m_event, max, sig_count).
WaitEvent(w) ==
  /\ pc[w] = "wait"
  /\ EventCanReturn(event, sig[w])
  /\ Goto(w, "reset")
  /\ UNCHANGED <<queue, ctxId, isSplit, nCompleted, readerErr, scanErr, event,
                 interrupted, mainPc, spawned, result, completed, err, cbErr, cur,
                 nLocal, sig, pending, loaded>>

\* Mutant: a worker that fails leaves without set_error_state(err).
PropagateErrorDropped(w) ==
  /\ pc[w] = "post"
  /\ Goto(w, "post_wake")
  /\ UNCHANGED <<queue, ctxId, isSplit, nCompleted, readerErr, scanErr, event,
                 interrupted, mainPc, spawned, result, completed, err, cbErr, cur,
                 nLocal, sig, pending, loaded>>

\* if (err != DB_SUCCESS && !is_error_set()) set_error_state(err);
PropagateError(w) ==
  /\ pc[w] = "post"
  /\ readerErr' = IF err[w] # OK /\ readerErr = OK THEN err[w] ELSE readerErr
  /\ Goto(w, "post_wake")
  /\ UNCHANGED <<queue, ctxId, isSplit, nCompleted, scanErr, event, interrupted,
                 mainPc, spawned, result, completed, err, cbErr, cur, nLocal, sig,
                 pending, loaded>>

\* if (is_error_set()) os_event_set(m_event);
WakeOnError(w) ==
  /\ pc[w] = "post_wake"
  /\ event' = IF readerErr # OK THEN EventSet(event) ELSE event
  /\ Goto(w, "thr_finish")
  /\ UNCHANGED <<queue, ctxId, isSplit, nCompleted, readerErr, scanErr, interrupted,
                 mainPc, spawned, result, completed, err, cbErr, cur, nLocal, sig,
                 pending, loaded>>

\* Thread finish callback; a failure is stored in the reader.
ThreadFinish(w) ==
  /\ pc[w] = "thr_finish"
  /\ \E cb \in Outcomes("thread_finish") :
       /\ cbErr' = [cbErr EXCEPT ![w] = cb]
       /\ err' = IF cb # OK THEN [err EXCEPT ![w] = cb] ELSE err
       /\ readerErr' = IF cb # OK THEN cb ELSE readerErr
  /\ Goto(w, "exit")
  /\ UNCHANGED <<queue, ctxId, isSplit, nCompleted, scanErr, event, interrupted,
                 mainPc, spawned, result, completed, cur, nLocal, sig, pending, loaded>>

\* The ut_a() at the end of worker(), then the thread exits.
ExitWorker(w) ==
  /\ pc[w] = "exit"
  /\ Goto(w, "done")
  /\ UNCHANGED <<queue, ctxId, isSplit, nCompleted, readerErr, scanErr, event,
                 interrupted, mainPc, spawned, result, completed, err, cbErr, cur,
                 nLocal, sig, pending, loaded>>

-----------------------------------------------------------------------------
Worker(w) ==
  \/ ThreadStart(w) \/ WaitSpawned(w) \/ ResetEvent(w) \/ LoopCond(w)
  \/ Dequeue(w) \/ CheckScanError(w) \/ Split(w) \/ CreateContext(w)
  \/ SplitDone(w) \/ CtxStart(w) \/ Traverse(w) \/ CtxFinish(w)
  \/ CheckInterrupted(w) \/ Publish(w) \/ LoadFirstOperand(w)
  \/ CompareCompleted(w) \/ WaitEvent(w) \/ PropagateError(w)
  \/ WakeOnError(w) \/ ThreadFinish(w) \/ ExitWorker(w)

Main ==
  \/ ParallelRead \/ SpawnThread \/ SpawnFail \/ SpawnDone \/ SignalWorkers \/ Join

\* run() has returned; the system stays where it is.
Terminated ==
  /\ mainPc = "done"
  /\ UNCHANGED vars

Next ==
  /\ \/ Main
     \/ \E w \in Workers : Worker(w)
     \/ Interrupt
     \/ Terminated
  /\ UNCHANGED <<sc, nThreads>>

\* Threads are scheduled by the OS: each thread that can take a step
\* eventually does.  A blocked wait is not enabled, so weak fairness is
\* what the code relies on.  The kill is an environment action: no fairness.
Fairness == /\ WF_vars(Main /\ UNCHANGED <<sc, nThreads>>)
            /\ \A w \in Workers : WF_vars(Worker(w) /\ UNCHANGED <<sc, nThreads>>)

Spec == Init /\ [][Next]_vars /\ Fairness

-----------------------------------------------------------------------------
(* Properties.                                                             *)

TypeOK ==
  /\ queue \in Seq(CtxIds)
  /\ ctxId \in 0..MaxCtxs /\ nCompleted \in 0..MaxCtxs
  /\ isSplit \in [CtxIds -> BOOLEAN]
  /\ readerErr \in {OK} \cup Errors /\ scanErr \in {OK} \cup Errors
  /\ event \in [set : BOOLEAN, count : Nat]
  /\ interrupted \in BOOLEAN
  /\ mainPc \in {"start", "spawn", "signal", "join", "done"}
  /\ spawned \in 0..Cardinality(Workers)
  /\ result \in {OK} \cup Errors
  /\ pc \in [Workers -> WorkerPcs]
  /\ err \in [Workers -> {OK} \cup Errors] /\ cbErr \in [Workers -> {OK} \cup Errors]
  /\ cur \in [Workers -> CtxIds] /\ nLocal \in [Workers -> 0..MaxCtxs]
  /\ sig \in [Workers -> Nat] /\ pending \in [Workers -> 0..MaxSub]
  /\ loaded \in [Workers -> {"none", "n_completed", "ctx_id"} \X Nat]
  /\ completed \in [CtxIds -> Nat]

\* No context is run twice, and when run() returns DB_SUCCESS every context
\* the scan created (initially or by a split) ran to its end exactly once:
\* the scan result is complete.  A worker that drops or skips a context
\* without recording an error breaks this.
ScanExactlyOnce ==
  /\ \A c \in CtxIds : completed[c] <= 1
  /\ (mainPc = "done" /\ result = OK) => \A c \in 0..(ctxId - 1) : completed[c] = 1

\* The ut_a() at the end of worker(): a worker leaves only when an error is
\* set or all contexts are completed and the queue is empty.  Checked on the
\* step that executes it, in the state it reads.
ExitCondition ==
  readerErr # OK \/ (nCompleted = ctxId /\ queue = <<>>)
WorkerExitAssert ==
  [][\A w \in Workers : (pc[w] = "exit" /\ pc'[w] = "done") => ExitCondition]_vars

\* The ut_ad() after a context ran: a context that failed has stored its
\* error in the Scan_ctx, so that run() can report it.
ContextErrorRecorded ==
  \A w \in Workers : (pc[w] = "intr" /\ err[w] # OK) => scanErr # OK

\* run() returns: no worker waits forever on the event, whatever fails.
Termination == <>(mainPc = "done")

=============================================================================
