# TLA+ models of InnoDB's parallel reader and R-tree search

This directory holds TLA+ models of the concurrency core of this MySQL 8.0.42 tree:

- the parallel index scan in `storage/innobase/row/row0pread.cc`;
- the spatial (R-tree) search in `storage/innobase/gis/gis0sea.cc` and `include/gis0rtree.h`.

TLC checks the models. `PROJECT.json` lists:

- every component and whether it is modelled;
- every TLC run with the properties it checks;
- the mutants that show each property can fail;
- the source lines each definition translates;
- the findings and the hazards.

## 1. The system

### 1.1 Parallel reader (`row0pread.cc`)

The caller builds a scan in two steps:

- `add_scan()` partitions the index into key ranges. It calls `partition()`, which calls the recursive `create_ranges()`.
- `create_contexts()` turns each range into an execution context (`Ctx`). It appends them to the reader's FIFO `m_ctxs`. A context whose index is at or past the *split point* is marked `m_split`. The split point depends on the number of ranges, `max_threads()` and the tree depth against `SPLIT_THRESHOLD`.

`run(n)` then works in one of two ways:

- With `n = 0` it runs `worker()` in the caller (synchronous mode).
- Otherwise it spawns `n` threads in `parallel_read()` and `join()`s them.

Each worker:

1. Runs the thread-start callback.
2. Waits until `parallel_read()` sets `m_event`, meaning all threads are spawned or spawning failed.
3. Loops:
   - `os_event_reset()`, which remembers `sig_count`;
   - dequeue contexts until the queue is empty or an error is set;
   - `split()` a marked context into new contexts, and `os_event_set()`;
   - or run ctx-start callback, `traverse()`, ctx-finish callback;
   - add the contexts it finished to `m_n_completed`;
   - leave if `m_n_completed == m_ctx_id`, otherwise sleep on the event.
4. Propagates its error to `m_err`, wakes the others and runs the thread-finish callback.
5. Asserts `is_error_set() || (m_n_completed == m_ctx_id && queue empty)`.

`traverse()` walks the leaf records of the range with a `PCursor`:

- it calls the row callback per record and the page callbacks at page boundaries;
- it checks `trx_is_interrupted()` every `TRX_IS_INTERRUPTED_PROBE` pages;
- it gives up the page latch when the index lock has waiters: it saves the position, yields and restores.

`available_threads()` hands out threads from a global budget `s_active_threads`.

### 1.2 R-tree search (`gis0sea.cc`)

An R-tree search keeps a stack of node pointers still to visit (`rtr_info->path`). Each entry is tagged with the index's split sequence number (SSN) at push time.

`rtr_pcur_getnext_from_path()` pops a node. If the page's SSN is newer than the tag, the node was split after the push, and its right sibling is pushed too.

Two structures let the search survive concurrent changes:

- Active cursors are registered in `index->rtr_track`. `rtr_check_discard_page()` removes a page that a merge frees from every registered path.
- `rtr_cur_restore_position()` follows right siblings by SSN when a stored record has moved.

A user transaction that deletes or updates a spatial record first finds it with a LOCATE search (`rtr_pcur_open_low()`). The search dives once and then continues in `rtr_pcur_getnext_from_path()`. On non-leaf pages it descends into children whose MBR holds the record's. On a leaf it wants an exact match of MBR and key.

### 1.3 The rest of the tree

The other files are a sample of the server: router forwarders, Group Replication notification and XDR streams, data-dictionary and performance-schema declarations, client dump interfaces and unit tests. `PROJECT.json` lists them as components, with the reason they are not modelled.

## 2. Modules

| Module | Models | State | Actions |
|---|---|---|---|
| `ParallelReader` | the worker scheduler of row0pread.cc | `m_ctxs` (`queue`), `m_ctx_id`, `m_n_completed`, `m_err`, `Scan_ctx::m_err`, the `os_event` as `[set, count]`, each worker's `err`, `cb_err`, `n_completed`, `sig_count` and control point | one action per step of `run`/`parallel_read`/`join` and per step of `worker()` between two accesses to shared state; `Interrupt` is KILL QUERY |
| `MCParallelReader` | the scenarios of the cfgs (thread count, `max_threads()`, initial ranges, tree depth, split size, fail points) and the load orders | | |
| `Partitioner` | `add_scan()`, `Scan_ctx::partition()` with the recursive `create_ranges()`, `start_range()`, `search()`, `create_range()`; `create_contexts()`; `Ctx::split()` | the tree (levels of pages of `[key, child]` records), the scan range, the read level, `max_threads()`, `m_depth`, the contexts created with their range, `m_split` and whether they were split | `AddScan`, `Split(i)`, `Purge` (another transaction) |
| `MCPartitioner` | every B-tree over the keys 1, 2, 4, 5 (or 2, 4) with at most 2 records per leaf, 3 node pointers per page and 3 levels above the leaves | | |
| `RangeScan` | what a context promises its caller: an abstract range scan | the visible keys (`table`), per context the keys visible since it started (`stable`), the keys handed over (`out`), `phase` | `Start`, `Change` (any change of the table), `Report(c, k)`, `Finish` |
| `LeafScan` | the traversal of row0pread.cc (`Ctx::traverse`, `traverse_recs`, `PCursor`) at the leaves or at level one, with other transactions changing the tree | the chain of pages at the read level, each page's records, delete marks, node-pointer keys, the read level, the level-one page a merge holds (`merging`), whether the index lock has waiters; per context its phase, page, cursor key, stored position and block, whether the block is unmodified since the store (`hint`), the keys handed over | `ScanStart`, `ScanRecord`, `ScanNextPage`, `SaveAndYield`, `RestoreAfterYield` per context; `Insert`, `DeleteMark`, `Undelete`, `Purge`, `SplitPage`, `MergeLeft` (leaves), `Remove`, `MergeLatch`, `MergeDone` (level one) for the other transactions; `Waiters` |
| `MCLeafScan` | a two-page level with three page ids and two adjacent ranges, read as the leaves or as level one | | |
| `ThreadBudget` | the global thread budget: `available_threads()`, `spawn()`'s release of unused threads, the destructor | `s_active_threads` (`active`); per reader its control point, `n_required`, `use_reserved`, the value `fetch_add` returned, `m_max_threads`, `m_n_threads`, `m_sync` | `AvailFetchAdd`, `AvailDecide` (the local decision and its `fetch_sub`, then the constructor), `Run(r, n)`, `Destroy` |
| `IndexSLock` | `Scan_ctx::index_s_lock()`/`index_s_unlock()`: the workers of one scan share one S latch on the index through the counter `m_s_locks`; another transaction's SMO takes the X latch | `m_s_locks`, the S holds, the X hold, per worker its control point and rounds | `SLockFetchAdd`, `SLockLatch`, `SUnlockFetchSub`, `SUnlockLatch`; `XLock`, `XUnlock` |
| `MCIndexSLock` | three workers as model values, with symmetry | | |
| `RTreeSearch` | a search of gis0sea.cc in the modes INTERSECT, CONTAIN, WITHIN, MBR_EQUAL and DISJOINT (`rtr_pcur_move_to_next`, the loop of `rtr_pcur_getnext_from_path`, `rtr_cur_search_with_match`) while other transactions split pages | the pages (`[level, ssn, next, recs]`, records `[lo, hi, child]` with interval MBRs), the free pages, the index SSN, the search MBR and mode, `rtr_info->path` as a sequence of `[page, level, ssn]`, `matched_recs` as a sequence of keys, the keys returned, the caller's control point, the pages the search holds a predicate page lock on, the page the buffered matches came from | `GetNextIter` (one loop iteration), `MoveToNextMatch`, `MoveToNextPage`; `Split(p, mv)` and `Merge(p, l)` (with `CheckDiscardPage`) for the other transactions; the INSERT mode's choice of child on a page is the RECURSIVE operator `InsertChoice` |
| `SpatialScan` | what a spatial search promises its caller | the keys to return (`want`), the sequence returned, `done` | `Return(k)`, `Finish` |
| `MCRTreeSearch` | a two-level index of two overlapping leaves and a three-level one, each with three free pages; search MBRs [2, 3] and [1, 5]; new-record MBRs [0, 0], [6, 6] and [3, 6] for the insert choice | | |
| `MCReaderResources` | composes `ThreadBudget` (two readers, `MAX_THREADS` 2, reserve 1) and `IndexSLock` (two workers) by interleaving; the two share no variable, and the composite checks both under one symmetry | | |

### How ParallelReader corresponds to the code

- Each worker step is one action, named after what it does (`ResetEvent`, `Dequeue`, `Split`, `CreateContext`, ...). `PROJECT.json` maps each action to its lines.
- Failing operations are callbacks, thread creation and the kill. `FailPoints` decides which may fail. A failing callback returns `DB_ERROR`.
- The traversal of one context is a single step. Its outcomes are those `traverse_recs()` can return:
  - complete;
  - a row error, stored in the Scan_ctx;
  - a page-finish error after the loop, returned only;
  - interrupted, stored;
  - stopped early because an error is set.
- A split creates 0..`MaxSubRanges` children, one `CreateContext` step each. Each child advances `m_ctx_id` and is enqueued. Split children are never split again, because `create_context(range, false)` creates them unsplit.
- `os_event` follows os0event.cc, which is not part of this tree:
  - `set` bumps `signal_count` only when the event was reset;
  - `reset` returns the count;
  - `wait(c)` returns when the event is set or the count differs from `c`.
- `m_n_completed == m_ctx_id` is two loads, `LoadFirstOperand` and then `CompareCompleted`. `CompareOrders` says which operand is loaded first. C++ does not fix the order, and both atomics are read relaxed.
- `completed` is a history variable. It counts how often each context ran to its end.

### How LeafScan corresponds to the code

- Records are their keys. A page's records are a set, since a page is sorted. The leaf level is the sequence `chain` of page ids, and `low[p]` is the key of the node pointer to `p`. A search by key (`LeafFor`) lands on the leaf with the greatest node-pointer key not above the key.
- Visibility is that of a scan without a read view, which `check_visibility()` also serves (no trx, READ UNCOMMITTED): a record is visible unless delete-marked. With a read view, records inserted after the view are invisible anyway.
- A context holds the S latch of its page while it scans (`Latched`). A change by another transaction is one mini-transaction that X-latches the pages it changes, so it waits for, and is not enabled on, a page a context holds.
- The persistent cursor (btr0pcur.cc, not in this tree) is modelled from its specification. A restore is optimistic when the stored block was not modified since the store; `hint[c]` stands for an unchanged modify clock. A purge, a node-pointer removal, a split and a merge clear it (`Touch`). An insert, a delete-mark and an undelete change a record in place and clear it only nondeterministically (`MaybeTouch`): that stands for a reorganising insert or an eviction of the block. Otherwise the restore searches by key: a position stored ON a record (the range start) uses PAGE_CUR_LE, one stored AFTER a record (the yield) PAGE_CUR_G.
- `ScanStart` is `Ctx::traverse()`: restore the start cursor, and step to the next record unless the restore found the stored record itself.
- `ScanRecord` is one turn of the loop in `traverse_recs()` on a user record: stop at the first record `>=` the end tuple (`ret <= 0`), hand a visible record to the row callback and move to the next record.
- At the end of a page `move_to_next_block_at_leaf_level()` either latch-couples to the next leaf (`ScanNextPage`) or, when the index lock has waiters, stores the last record AFTER, releases everything and yields (`SaveAndYield`), then restores (`RestoreAfterYield`).
- The page callbacks, the interrupt probe and errors are the scheduler's concern and appear in `ParallelReader`.
- At level one (`Config::m_read_level = 1`) the chain is the level above the leaves and its records are node pointers. A node pointer is removed at once (`Remove`, `btr_node_ptr_delete()`), not delete-marked. The right sibling is S-latched with `buf_page_get_known_nowait()` (lines 503-520), because a level-one merge (`btr_compress()`, not in this tree) X-latches the page it frees before the left sibling. `MergeLatch` is that first half and `MergeDone` the second, enabled once neither sibling is latched by a context. When the no-wait latch fails (the sibling is held by or waited for by the merge), `NextBlock` is the loop of `move_to_next_block_at_level_one()` (lines 572-612): `save_level_one_progress()` stores the last record ON and commits, `m_block_when_stored.clear()` forces a search from the root, and `restore_level_one_progress()` (lines 376-393) restores PAGE_CUR_LE and steps to the next record. A search from the root, or a restore of the stored block, waits for a pending merge (`RestoreOK`).
- `waiters` is `rw_lock_get_waiters()` of the index lock, toggled by `Waiters` at level one. There it decides between coupling to the next page and saving to yield, so it is state. At the leaves either branch is free at any page end.
- `LeafScan` implements `RangeScan` through `INSTANCE RangeScan WITH` `table <- Visible` and a yielding context counted as scanning. `stable` is a history variable kept by `LeafScan`: a key leaves it when it is delete-marked.

### How Partitioner corresponds to the code

- `create_ranges()` is the RECURSIVE operator `CreateRanges`, with its record loop as `CreateRangesLoop`: a cursor index into the page and an accumulator of the ranges made and `m_depth`. The loop has three branches: recurse one level down while `depth < split_level`, call `start_range()` for a subtree, or position on the page itself at the read level. They follow the code's branches.
- `page_cur_search` is `SearchLE`/`SearchGE` over the page's keys. The min-rec record of a level's leftmost page has key `MinRec` (0), below every key.
- A range's persistent cursor is abstracted to `Iter::m_tuple`, the copy of its first record. `create_range()` points the previous range's end at it. Restoring the cursor is `LeafScan`'s business.
- Creating the ranges runs under the index S latch, and a partition is one step. Purge is an optimistic delete of a leaf record: its page keeps a record and no node pointer changes. So node-pointer keys become stale lower bounds, as in InnoDB.
- `RangesCover` reads a context's range as the keys in `[from, to)`. That is what `traverse_recs()` delivers: it starts at the restored first record and stops at the first record `>=` the end tuple.

### How RTreeSearch corresponds to the code

- MBRs are one-dimensional intervals, and a leaf record's child is its key. That keeps what the path protocol depends on: several children of a page may intersect the search MBR, and their MBRs overlap.
- `GetNextIter` is one iteration of the `do ... while` loop of `rtr_pcur_getnext_from_path()` (lines 156-408): pop the top entry; if the page's SSN is above the entry's, push `btr_page_get_next()` with the entry's SSN (`SplitPush`, lines 277-292); then `rtr_cur_search_with_match()`. On a non-leaf page it pushes every child passing the mode's non-leaf test with `rtr_get_current_ssn_id()` (`ChildPush`, lines 1630-1669). On a leaf it buffers the records passing the mode's own test (`LeafHits`), pops the last one and positions on it (line 1761); the loop then breaks with `found`. Each iteration latches one page, so it is one step.
- `Holds(m, q, r)` is `cmp_dtuple_rec_with_gis()` returning 0 for mode `m`: q intersects r, contains it, lies within it, equals it or is disjoint from it. `NonLeafMatch` is the switch at lines 1559-1583: CONTAIN, INTERSECT and MBR_EQUAL descend into a child that the search MBR contains or intersects, DISJOINT into one it is disjoint from or intersects, WITHIN into one that holds the search MBR.
- `InsertChoice(q, rs, avoid, skip)` is the PAGE_CUR_RTREE_INSERT scan of a non-leaf page (lines 1531-1553 and 1584-1612). The first record whose MBR holds `q` ends the scan. Otherwise the record of least `rtr_rec_cal_increase()` wins. The code's replacement of an increase of 0 by `DBL_MAX / 2` is left out: a record whose MBR holds `q` has already ended the scan, so with intervals the branch is never reached. `avoid` is `first_rec` set: once the first record is the best so far, any later record replaces it. `skip` is a compressed index's left-most page with two records or more, where the scan starts at the second record. The insert's descent and its parent path are not modelled.
- `MoveToNextMatch` and `MoveToNextPage` are `rtr_pcur_move_to_next()`: the buffer is drained from the back, then `rtr_pcur_getnext_from_path()` is called, which returns at once on an empty path (line 113).
- `Split(p, mv)` stands for `rtr_page_split_and_insert()` in gis0rtree.cc, which is not in this tree. Any non-empty proper subset `mv` of the records moves to a new right sibling `q`. `q` takes `p`'s SSN and next link. `p` gets a new SSN from `rtr_get_new_ssn_id()` and points to `q`. The split takes two steps. `Split` moves the records and sets the SSNs. `SplitParentUpdate` (`rtr_adjust_upper_level()`) then shrinks the parent's node pointer to `p` to `p`'s new MBR and inserts a pointer to `q` after it. Between the two steps the split holds `p`, `q` and the parent X-latched (`SplitLatches`), and `GetNextIter` waits for a latched page. The index SX latch keeps a second split or a merge from starting in between. Without the parent latch (the mutant `SplitLatchesNoParent`), a search reads the parent before its pointer to `q` exists. It then pushes `p` with the new SSN and misses `q`. `SpatialScanRefined` catches this. The root is not split. A parent that is full is not split together with its child.
- Each child pushed is page-locked (`ChildLocks`, lines 1664-1668), and so is a right sibling pushed after a split (`SplitLock`, lines 282-286). `lock_prdt_update_split()` (lock0prdt.cc, not in this tree) copies the split page's page locks to the new page, so `SplitLock` adds nothing here; removing it changes no result.
- `Merge(p, l)` stands for `btr_compress()` of an R-tree page, which is not in this tree: page `p` goes into its left sibling `l` under the same parent. `l` takes `p`'s records and next link, the parent's pointer to `l` grows to the new MBR, and the pointer to `p` goes. A page another transaction holds a page lock on is not shrunk away (the comment at lines 150-152). The freed page is handed to `rtr_check_discard_page()` (`CheckDiscardPage`, lines 1072-1127), which removes it from the search's path (`RebuildPath`, `rtr_rebuild_path()`) and drops buffered matches copied from it. A leaf whose matches are buffered was pushed and so is page-locked, which means no merge frees it while the search runs: the match-dropping branch is never taken here, and keeping a stale `matchBlock` (`InitMatch`) changes no result.
- The search starts as `btr_cur_search_to_nth_level()` leaves it: the root on the path, tagged with the current SSN. `Init` picks the mode and, for LOCATE, a target record from `Targets`.
- LOCATE (`rtr_pcur_open_low()`, lines 491-588). Its first dive is not split from the loop: a miss continues in `rtr_pcur_getnext_from_path()`, which here starts from the root. On a leaf, `LeafMatch` is the `page_cur_search(PAGE_CUR_LE)` exact match (lines 297-317). A hit breaks the loop, and the caller works on the record, so the search is `"done"`. `NonLeafMatch` maps LOCATE to WITHIN (line 1517). No page lock goes on a split sibling (`SplitLock`). The child locks stay, because the transaction has a `thr` (`need_page_lock`). Delete-marked records (`fd_del`) are not modelled, and purge's LOCATE without a `thr` is not modelled either; purge SX-latches the tree, so no split runs beside it.
- `IndexSLatched` is the index S-latch that `rtr_pcur_getnext_from_path()` holds for a whole call (lines 136-139). A spatial merge X-latches the index, so `Merge` waits until the search is between calls. With page locks copied on split, dropping this guard changes no result either.
- `RestorePosition(p, s, r)` is the second half of `rtr_cur_restore_position()` (lines 1197-1270). It searches page `p` for record `r`. On a miss it moves to the right sibling while the page's SSN is above `s`, the SSN the path node was pushed with. The code uses it for the parent cursors of tree-modifying operations. Those are not modelled, so the operator is checked on its own against the index the splits produce.
- The record whose insert caused a split is not modelled. Splits only move records, so the set the search must return stays fixed and the property can compare against it. Concurrent inserts and deletes inside the search MBR are a matter of predicate locks, which are not modelled.

### How ThreadBudget and IndexSLock correspond to the code

- `available_threads()` (lines 102-130) is two steps. The `fetch_add` of the request is one step, since other readers' steps may fall between it and the decision. The decision is the other step: compare the returned value with the limit (`MAX_THREADS`, plus `MAX_RESERVED_THREADS` when `use_reserved`), give back what is not granted with one `fetch_sub`, and run the constructor (`m_max_threads`, `m_n_threads`, `m_sync`).
- `Run(r, n)` is `run(n)` with `spawn(n)`: `m_n_threads = n`, and the release of `max_threads() - n` (lines 1496-1509). `n = 0` is the synchronous path.
- `Destroy` is `~Parallel_reader()` (lines 90-101): release `m_n_threads` unless `m_sync`. A reader may also be destroyed without `run()`.
- `s_active_threads` is an `Int`, so a release of too many would show as a negative value, where the code's unsigned counter would wrap.
- In `IndexSLock`, `fetch_add`/`fetch_sub` on `m_s_locks` and the latch operations are separate steps, because in the code they are. A caller whose `fetch_add` returned non-zero goes straight "in". A latch request waits while the index is X-latched. The X side (an SMO of another transaction) waits for no S hold, which is how `rw_lock_x_lock` behaves.

## 3. Properties and runs

| Property | Kind | What it says |
|---|---|---|
| `TypeOK` | invariant | types and bounds of every variable |
| `ScanExactlyOnce` | invariant | no context runs twice, and when `run()` returns DB_SUCCESS every context ever created ran to its end |
| `ContextErrorRecorded` | invariant | the `ut_ad` after a context: a worker whose context failed has stored the error in the Scan_ctx |
| `WorkerExitAssert` | action property | the `ut_a` at the end of `worker()`, checked on the step that executes it |
| `Termination` | liveness | `run()` returns, whatever fails |

| `RangeScanRefined` | refinement (LeafScan) | every context hands over only in-range keys that are visible, in strictly increasing order, and finishes only when it has handed over every key that stayed visible since it started |
| `Termination` (LeafScan) | liveness | every context's traversal ends, also at level one, where a merge holds a page while it waits for its left sibling |
| `BudgetAccounted` | invariant (ThreadBudget) | `s_active_threads` equals the sum of what every reader has taken and not given back, so each thread is released exactly once |
| `CapRespected` | invariant (ThreadBudget) | the granted threads never exceed `MAX_THREADS` plus the reserve, and readers that may not use the reserve hold at most `MAX_THREADS` together |
| `LatchBalanced` | invariant (IndexSLock) | the S holds on the index are exactly those the `m_s_locks` protocol owes: no hold is leaked or released twice, even when a round ends and the next begins before the last unlatch |
| `RangesCover` | invariant (Partitioner) | the contexts still to run cut the scan range into pieces with no gap and no overlap: each record of the read level inside `[start, end)` is in exactly one of their ranges, after `add_scan()` and after any `Ctx::split()` |
| `SpatialScanRefined` | refinement (RTreeSearch) | in every mode (in LOCATE, the record looked for, returned together with the end), each step of the caller's loop returns a key of a leaf record standing in the mode's relation to the search MBR that it has not returned before, and the search ends only when it has returned all of them, while other transactions split pages on the path, pages already searched and their parents, and merge pages the search holds no page lock on |
| `RestoreFindsRecord` | invariant (RTreeSearch) | take any record of the starting index, at any level, remembered from its page with SSN 0. While no merge has run, `RestorePosition` finds it exactly when the index still holds it: after one split, after two, or after a split of a page it already moved to. A node pointer a split rewrote is not found |
| `SearchEnds` | liveness (RTreeSearch) | every search reaches the end. This holds while other transactions split pages the search waits to latch, and while it follows chains of split siblings. It needs the caller to keep fetching and a split in progress to commit |
| `InsertChoiceLeastIncrease` | invariant (RTreeSearch) | in every state, on every non-leaf page as splits and merges leave it, for each new MBR and each `avoid`/`skip`, `InsertChoice` picks the first scanned child that holds the new MBR, or else a child of least increase that is not the avoided first record when another is there; this is the code's comments checked against its loop |
| `NoReadUnderX` | invariant (IndexSLock) | no worker past `index_s_lock()` reads while an SMO holds the index X latch |

The `ExitCondition` of `WorkerExitAssert` is evaluated atomically. The code's own assertion reads the two counters one after the other, but once every worker has left neither counter changes, so the atomic reading is the one that matters.

| Run | Result | Shows |
|---|---|---|
| `sched_parallel` | pass | two scenarios, all five properties. (1) `run(0)` (synchronous) or `run(2)`, with the handled failures: thread callbacks, row callback, kill, spawn. (2) Three workers around a split context, with `m_n_completed` loaded first: no early exit, no lost context, termination |
| `sched_completion_race` | violation (finding) | if `m_ctx_id` is loaded first, a worker leaves while a child context still runs |
| `sched_ctx_start_error` | violation (finding) | a failed ctx-start callback is overwritten by the ctx-finish callback; the context is skipped and `run()` returns DB_SUCCESS |
| `sched_ctx_finish_error` | violation (finding) | a failed ctx-finish callback leaves without publishing its count or setting `m_err`; the exit `ut_a` fails |
| `sched_page_finish_error` | violation (finding) | a failed page-finish callback after the loop is not stored in the Scan_ctx; the `ut_ad` fails |

| `leaf_scan` | pass | two contexts over ranges [1, 3) and [3, end) of a two-page level, read at the leaves or at level one, with up to six inserts, delete-marks, re-inserts, purges or node-pointer removals, splits and merges, implement `RangeScan` and finish, if no range's start record is purged. At level one the no-wait latch and the restore from the root are what keep a merge and a scan from waiting on each other (1,175,864 states) |
| `partition` | pass | full and end-bounded scans (ends 3 and 4) of all 55 trees, at read level 0 or 1, with 1 or 2 threads. Purges come before and after `add_scan()`, and splits follow them. The ranges always cover the scan range |
| `partition_gap_start` | violation (finding) | a scan range starting at key 3, between leaf `{2}` and leaf `{4, 5}` under one level-1 page: `start_range()` lands on the supremum of `{2}`, the subtree gets no range, and `add_scan()` sees an empty table |
| `rtree_search` | pass | a search in each of the five modes, or a LOCATE, on either index, with up to three splits at any time and at any level below the root, refines `SpatialScan`: merges of pages the search has not locked, splits of queued pages, pages split twice (a chain of right siblings), and node-pointer pages that split are all followed through the SSN test. `InsertChoiceLeastIncrease` and `RestoreFindsRecord` hold on every index reached, also halfway through a split, and every search ends (272,293 states) |
| `reader_resources` | pass | two readers competing for the thread budget and two workers sharing the index S latch: `TypeOK`, `BudgetAccounted`, `CapRespected`, `LatchBalanced` |
| `index_s_lock_x_race` | violation (finding) | with three workers and one SMO, a second caller of `index_s_lock()` sees `m_s_locks = 1`, returns before the first caller has latched, and reads while the SMO holds the X latch |
| `leaf_scan_start_purged` | violation (finding) | once a range's start record may be purged and a split moves its node pointer, the first restore lands on the previous leaf; a yield there stores an out-of-range position, and a record inserted below the range start is handed to this context |

### Bounds

The initial partition yields 0, 1 or 3 ranges:

- 0 takes the empty-queue return of `parallel_read()`;
- 1 with depth 3 puts the split point at 0, so the one context is split;
- 3 with `max_threads = 2` puts the split point at 2, so the third context is split.

Tree depth 2 or 3 decides whether small partitions are split. A split yields 0 to 2 children.

Two workers interleave every pair of steps. Three are needed for a child context to be taken by a worker other than the splitter while a third is in the completion test. That is why the third scenario of `sched_parallel` and the race run use three workers. In that scenario nothing fails, which keeps it small enough.

`MCPartitioner` generates every tree: cut the key sequence into leaves of one or two records, then group each level into pages of up to three node pointers, until one root remains. A level below the root has at least two pages, because `btr_lift_page_up()` removes an only child. That gives 55 trees with up to four levels. Four levels are needed for `Ctx::split()` (split level 1) to descend twice in `start_range()`, and `create_contexts()` splits every context once `m_depth` reaches 3. The key 3 is missing on purpose, so a scan start and an end can fall in a gap.

LeafScan starts from two leaves `{1}` and `{3, 4}` over keys 1..4, with a third free page id and at most two records per page. That is enough for a split and a merge, and for the records of a page to move to another page. Six modifications let a range start record be deleted, purged and its page merged and split again, with a record inserted before the restore; `leaf_scan_start_purged` needs five of them. Both runs choose the read level in `Init`, 0 or 1. At level one two pages give one merge, which is all a wait cycle between a merge and a scan needs: the scan holds the left page and wants the right one, the merge holds the right one and wants the left.

`MCRTreeSearch` uses two indexes. The two-level one has a leaf of three records, so that leaf can be split twice while its path entry waits; its siblings then form the chain that the SSN test must follow with the entry's original SSN. The three-level one lets a non-leaf page split and move node pointers to a new page while those pointers are still unvisited. Three structure modifications (`MaxSMOs`), at most one of them a merge (`MaxMerges`), and three free pages are enough for a leaf split, a second split of the same leaf, and a split of its parent in one search, or for a split followed by a merge of the new page or of a page the search has passed. The search MBR [2, 3] cuts across the leaves' MBRs, and [1, 5] holds everything. With the five modes that gives searches that match all, some or none of the records, and whose non-leaf test descends into pages with no match. The LOCATE targets [2, 3] key 4 and [5, 5] key 5 are each in one index. In the other index, a record with the same MBR and another key stands where the target would be, so a match on the MBR alone would return the wrong key. For the insert choice, [0, 0] lies left of every MBR and grows the first node pointer least, so the avoidance of the first record matters. [6, 6] lies right of them, and [3, 6] overlaps them. Each of the three is checked on every non-leaf page the splits produce.

`ThreadBudget` takes requests of 1 to 3 threads against a budget of 2 plus 1 reserved, so a request can be granted in full, in part or not at all, and two readers can each see the other's transient overshoot. `IndexSLock` takes two rounds per worker and two SMOs in the composite, so a round ends and the next begins while the last unlatch is pending. Three workers and one SMO are needed for the race run: one latches, one goes "in" behind it, and the SMO slips in between.

### Fairness

Each worker and the main thread are weakly fair. The OS scheduler runs a thread that can run, and a blocked `os_event_wait` is simply not enabled.

In LeafScan each context is weakly fair, for the same reason. The other transactions are not obliged to do anything, and their changes are bounded by `MaxMods`.

At level one a merge that holds a page and waits for its left sibling is weakly fair (`WF_vars(MergeDone)`): it is a thread blocked on a latch, and it goes on once the latch is free. Starting a merge (`MergeLatch`) carries no fairness.

`RTreeSearch` is checked under `FairSpec`, with the following fairness:

- The search's own steps (`GetNextIter`, `MoveToNextMatch`, `MoveToNextPage`) are weakly fair. The caller is a scan that fetches until the end.
- A split's second step (`SplitParentUpdate`) is weakly fair. It is the same thread, holding its latches, finishing its mini-transaction.
- Starting a split or a merge carries no fairness.

`SearchEnds` fails if a split keeps its latches after it commits (the mutant `SplitParentUpdateKeepLatch`).

`ThreadBudget` and `IndexSLock` are checked for safety only, with no fairness. Whether a reader is ever destroyed, or a worker ever unlocks, is up to callers outside this tree.

The kill (`Interrupt`) has no fairness, because it is an environment event. It can repeat, so `Termination` is checked with a kill possible at any time.

## 4. Plan

The modules are built in this order:

1. **ParallelReader** (done): the worker scheduler.
2. **LeafScan** (done, at the leaves and at level one): refines `RangeScan` and terminates, including the level-one no-wait retry loop against a merge.
3. **Partitioner** (done): `create_ranges()` as a RECURSIVE operator over every small tree, checked against `RangesCover`. Not pinned by a property: the split-point heuristic, which decides only how work is spread.
4. **ThreadBudget** and **IndexSLock** (done): the thread budget with concurrent readers, and the shared index S latch. Not checked: a `run()` retried after `DB_OUT_OF_RESOURCES`. Its callers are not in this tree, and each `spawn()` would release `max_threads() - n` again (see the hazard at line 1504).
5. **RTreeSearch** (done for the five query modes and LOCATE, merges with page discard, the insert choice on one page, the sibling search of `rtr_cur_restore_position()`, the split as two latched steps, and termination): the path stack with SSN tags and concurrent splits, refining `SpatialScan`. Still to do:
   - the GET_FATHER mode and the parent path of tree-modifying operations, and LOCATE's skipping of delete-marked records;
6. The periphery is out of scope (see below).

## 5. Not modelled

- Several R-tree searches at once: `rtr_check_discard_page()` treats each active search's path alone, under that search's `rtr_path_mutex`, so one search is modelled. The rtr_active list (`rtr_create_rtr_info`, `rtr_clean_rtr_info`) is not modelled.
- The R-tree's GET_FATHER mode and the parent path (`rtr_store_parent_path()`, `rtr_non_leaf_insert_stack_push()`), whose use is within one tree-modifying operation, in gis0rtree.cc and btr0cur.cc; LOCATE's `fd_del` for delete-marked records; the insert's descent (its choice on one page is modelled), predicate locks, and root splits that raise the tree.
- Two-dimensional MBRs. The intervals keep the containment and least-increase tests that the search and the insert choice rest on.
- spec.md line 49 says the insert choice prefers another child over the first record on ties. The code does more: with `first_rec` set, a later record replaces the first one even when the first has a strictly smaller increase. spec.md line 109 calls the heuristic an open question and asks only for its effect. `InsertChoiceLeastIncrease` states the code's behaviour.
- The rest of the tree: router forwarders, Group Replication notification and XDR streams, client libraries, data-dictionary and performance-schema declarations, and unit tests. spec.md puts replication, client libraries and plugin scaffolding out of scope. Several of these files are declarations only, with the code they declare not in this tree.

- Page format, buffer pool, MVCC visibility (`check_visibility`) and the SQL layer. These are external services of the scan.
- The `ut::new_withkey` null checks in `parallel_read()` and `create_context()`. `new_withkey` throws on failure, so these branches are dead. The one at line 1468 would return without `os_event_set()` and leave started workers waiting.
- Multiple Scan_ctx per reader. The scheduler treats contexts alike, and the model has one scan.
