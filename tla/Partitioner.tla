---------------------------- MODULE Partitioner -----------------------------
(***************************************************************************)
(* How a parallel scan cuts the index into ranges (row0pread.cc):         *)
(* Scan_ctx::partition() and its recursive create_ranges(), start_range() *)
(* and search(); create_contexts() that decides which contexts are split; *)
(* and Ctx::split() that later cuts a context's own range again one level *)
(* deeper.  Both run under the index S latch, so a partition is one step. *)
(* Between them purge removes leaf records without a structure change,    *)
(* which leaves the node pointers' keys stale (still a lower bound).      *)
(*                                                                         *)
(* A tree is a sequence of levels, t[l + 1] being level l (0 = leaf); a   *)
(* level is the sequence of its pages in key order; a page the sequence   *)
(* of its records [key, child], child indexing the level below.  The      *)
(* first record of the leftmost page of a non-leaf level is the min-rec,  *)
(* key MinRec, below every key.  A range is [from, to): from is the copy  *)
(* of its first record (Iter::m_tuple), to the copy that ends it or Null. *)
(***************************************************************************)
EXTENDS Naturals, Sequences, FiniteSets, FiniteSetsExt

CONSTANTS
  Trees,          \* the indexes a scan may start on
  ScanRanges,     \* the Config::m_scan_range values: [start, end], Null = open
  ThreadCounts,   \* max_threads() of the reader
  ReadLevels,     \* Config::m_read_level
  Null,           \* a null tuple
  MinRec          \* the key the min-rec flag makes compare below all keys

SPLIT_THRESHOLD == 3

VARIABLES
  tree,      \* the index
  scan,      \* the Scan_range of add_scan()
  readLevel, \* m_config.m_read_level
  nThreads,  \* max_threads()
  mDepth,    \* Scan_ctx::m_depth
  ctxs,      \* the contexts created: [from, to, split, state]
  pc         \* "add" before add_scan(), then "run"

vars == <<tree, scan, readLevel, nThreads, mDepth, ctxs, pc>>

Lvl(t, l) == t[l + 1]
Height(t) == Len(t) - 1

\* page_cur_search(PAGE_CUR_LE): the last record <= k, 0 if before first.
SearchLE(pg, k) ==
  LET js == {j \in 1 .. Len(pg) : pg[j].key <= k} IN IF js = {} THEN 0 ELSE Max(js)

\* page_cur_search(PAGE_CUR_GE): the first record >= k, Len + 1 (supremum).
SearchGE(pg, k) ==
  LET js == {j \in 1 .. Len(pg) : pg[j].key >= k} IN IF js = {} THEN Len(pg) + 1 ELSE Min(js)

\* Scan_ctx::search(): the child of the node pointer LE the key (the first
\* one for a null key, or when the key is before the first).
Search(pg, key) ==
  LET j == IF key # Null THEN SearchLE(pg, key) ELSE 0
  IN  pg[IF j = 0 THEN 1 ELSE j].child

\* Mutant: the savepoint of the page the descent starts from is counted
\* twice.
RECURSIVE StartRangeCountsParent(_, _, _, _, _)
StartRangeCountsParent(t, l, p, key, rl) ==
  IF l # 0 /\ l # rl
  THEN LET r == StartRangeCountsParent(t, l - 1, Search(Lvl(t, l)[p], key), key, rl)
       IN  [r EXCEPT !.pages = @ + 1]
  ELSE [page |-> p,
        pos |-> IF key # Null THEN SearchGE(Lvl(t, l)[p], key) ELSE 1,
        pages |-> 2]

\* Scan_ctx::start_range(): follow search() down to the read level (or the
\* leaf), there position on the first record >= key.  pages counts the
\* savepoints pushed.  pos = Len + 1 is the supremum.
RECURSIVE StartRange(_, _, _, _, _)
StartRange(t, l, p, key, rl) ==
  IF l # 0 /\ l # rl
  THEN LET r == StartRange(t, l - 1, Search(Lvl(t, l)[p], key), key, rl)
       IN  [r EXCEPT !.pages = @ + 1]
  ELSE [page |-> p,
        pos |-> IF key # Null THEN SearchGE(Lvl(t, l)[p], key) ELSE 1,
        pages |-> 1]

\* Mutant: the previous range is not pointed at the new one.
CreateRangeNoLink(rs, key) == rs \o <<[from |-> key, to |-> Null]>>

\* Scan_ctx::create_range(): the previous range ends where this one starts.
CreateRange(rs, key) ==
  (IF rs = <<>> THEN rs ELSE [rs EXCEPT ![Len(rs)].to = key])
    \o <<[from |-> key, to |-> Null]>>

\* Scan_ctx::create_ranges() on page p of level l, the record loop being
\* CreateRangesLoop from cursor i with the local start.  The after-last
\* return after the PAGE_CUR_LE search cannot happen: LE never lands on
\* the supremum.
RECURSIVE CreateRanges(_, _, _, _, _, _, _, _, _)
RECURSIVE CreateRangesLoop(_, _, _, _, _, _, _, _, _, _, _)
CreateRangesLoop(t, s, e, l, p, i, start, depth, split, rl, acc) ==
  LET pg == Lvl(t, l)[p] IN
  IF i > Len(pg) \/ (e # Null /\ e <= pg[i].key) THEN acc
  ELSE IF l > rl /\ depth < split
  THEN CreateRangesLoop(t, s, e, l, p, i + 1, start, depth, split, rl,
         CreateRanges(t, s, e, l - 1, pg[i].child, depth + 1, split, rl, acc))
  ELSE IF l > rl
  THEN LET r   == StartRange(t, l - 1, pg[i].child, start, rl)
           rp  == Lvl(t, rl)[r.page]
           acc1 == [ranges |-> IF r.pos <= Len(rp)
                               THEN CreateRange(acc.ranges, rp[r.pos].key)
                               ELSE acc.ranges,
                    mDepth |-> IF acc.mDepth = 0 /\ depth = 0
                               THEN r.pages ELSE acc.mDepth]
       IN  CreateRangesLoop(t, s, e, l, p, i + 1, Null, depth, split, rl, acc1)
  ELSE LET j == IF start # Null THEN SearchGE(pg, start) ELSE 1
       IN  [acc EXCEPT !.ranges = IF j <= Len(pg) THEN CreateRange(@, pg[j].key)
                                  ELSE @]

CreateRanges(t, s, e, l, p, depth, split, rl, acc) ==
  LET pg == Lvl(t, l)[p]
      i0 == IF s # Null THEN SearchLE(pg, s) ELSE 0
  IN  CreateRangesLoop(t, s, e, l, p, IF i0 = 0 THEN 1 ELSE i0, s, depth, split, rl, acc)

\* Scan_ctx::partition(): create_ranges() from the root; the last range
\* ends at the scan range's end tuple.
Partition(t, s, e, split, rl, md) ==
  LET a == CreateRanges(t, s, e, Height(t), 1, 0, split, rl,
                        [ranges |-> <<>>, mDepth |-> md])
  IN  [a EXCEPT !.ranges = IF e # Null /\ @ # <<>> THEN [@ EXCEPT ![Len(@)].to = e]
                           ELSE @]

\* create_contexts(): contexts from split_point on are split.
SplitPoint(nr, n, md) ==
  LET n1 == Max({n, 1})
  IN  IF nr > n1 THEN (nr \div n1) * n1
      ELSE IF md < SPLIT_THRESHOLD THEN n1 ELSE 0

NewCtx(r, split) == [from |-> r.from, to |-> r.to, split |-> split, state |-> "queued"]

\* Parallel_reader::add_scan(): partition at the root (split level 0); an
\* empty result means an empty table; otherwise create_contexts().
AddScan ==
  /\ pc = "add"
  /\ LET a  == Partition(tree, scan.start, scan.end, 0, readLevel, mDepth)
         sp == SplitPoint(Len(a.ranges), nThreads, a.mDepth)
     IN  /\ mDepth' = a.mDepth
         /\ ctxs' = [i \in 1 .. Len(a.ranges) |-> NewCtx(a.ranges[i], i - 1 >= sp)]
  /\ pc' = "run"
  /\ UNCHANGED <<tree, scan, readLevel, nThreads>>

\* Ctx::split(): partition the context's own range one level deeper; the
\* last sub-range keeps the context's end; the sub-ranges are enqueued
\* unsplit and the context itself is not traversed.
Split(i) ==
  /\ pc = "run"
  /\ ctxs[i].split /\ ctxs[i].state = "queued"
  /\ LET a  == Partition(tree, ctxs[i].from, ctxs[i].to, 1, readLevel, mDepth)
         rs == IF a.ranges # <<>> THEN [a.ranges EXCEPT ![Len(a.ranges)].to = ctxs[i].to]
               ELSE a.ranges
     IN  /\ mDepth' = a.mDepth
         /\ ctxs' = [ctxs EXCEPT ![i].state = "split"]
                    \o [j \in 1 .. Len(rs) |-> NewCtx(rs[j], FALSE)]
  /\ UNCHANGED <<tree, scan, readLevel, nThreads, pc>>

\* Purge removes a leaf record by an optimistic delete: the page keeps a
\* record and no node pointer changes.
Purge ==
  \E p \in DOMAIN Lvl(tree, 0) : \E j \in DOMAIN Lvl(tree, 0)[p] :
    /\ Len(Lvl(tree, 0)[p]) >= 2
    /\ tree' = [tree EXCEPT ![1][p] = SubSeq(@, 1, j - 1) \o SubSeq(@, j + 1, Len(@))]
    /\ UNCHANGED <<scan, readLevel, nThreads, mDepth, ctxs, pc>>

Init ==
  /\ tree \in Trees
  /\ scan \in ScanRanges
  /\ readLevel \in {rl \in ReadLevels : rl <= Height(tree)}
  /\ nThreads \in ThreadCounts
  /\ mDepth = 0
  /\ ctxs = <<>>
  /\ pc = "add"

Next ==
  \/ AddScan
  \/ \E i \in DOMAIN ctxs : Split(i)
  \/ Purge
  \/ pc = "run" /\ UNCHANGED vars

Spec == Init /\ [][Next]_vars

-----------------------------------------------------------------------------
(* Properties.                                                            *)

\* The keys of the records on level l.
LevelKeys(t, l) == UNION {{Lvl(t, l)[q][j].key : j \in DOMAIN Lvl(t, l)[q]} : q \in DOMAIN Lvl(t, l)}

InScan(k) == (scan.start = Null \/ scan.start <= k) /\ (scan.end = Null \/ k < scan.end)

Covers(c, k) == c.from <= k /\ (c.to = Null \/ k < c.to)

TypeOK ==
  /\ pc \in {"add", "run"}
  /\ mDepth \in 0 .. Height(tree)
  /\ \A i \in DOMAIN ctxs : ctxs[i].state \in {"queued", "split"}

\* The contexts still to be traversed cut the scan range into pieces with
\* no gap and no overlap: every record of the read level inside
\* [start, end) lies in exactly one of their ranges, and no record outside
\* it in any.  This is what create_ranges() promises for add_scan(), and
\* Ctx::split() for the range it replaces, after purges made node
\* pointer keys stale and range start records disappear.
RangesCover ==
  pc = "run" =>
    \A k \in LevelKeys(tree, readLevel) :
      Cardinality({i \in DOMAIN ctxs : ctxs[i].state = "queued" /\ Covers(ctxs[i], k)})
        = IF InScan(k) THEN 1 ELSE 0

=============================================================================
