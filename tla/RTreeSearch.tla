---------------------------- MODULE RTreeSearch -----------------------------
(***************************************************************************)
(* A spatial index search (gis/gis0sea.cc) running while other             *)
(* transactions split and merge pages.  The search keeps a stack of pages  *)
(* still to visit (rtr_info->path), each entry tagged with the split       *)
(* sequence number (SSN) current when it was pushed, and a buffer of leaf  *)
(* matches (rtr_info->matches).  rtr_pcur_move_to_next() returns the       *)
(* buffered matches, then rtr_pcur_getnext_from_path() pops pages: a page  *)
(* whose SSN is above the entry's was split since, and its right sibling   *)
(* is pushed too; rtr_cur_search_with_match() pushes, and page-locks,      *)
(* every child of a non-leaf page that passes the mode's test and buffers  *)
(* the matching records of a leaf.  Each loop iteration latches one page,  *)
(* so splits and merges interleave between iterations.  A merge frees a    *)
(* page and rtr_check_discard_page() takes it out of the search's path.    *)
(*                                                                         *)
(* MBRs are intervals [lo, hi].  A page is [level, ssn, next, recs], recs  *)
(* the sequence of its records [lo, hi, child]; a leaf record's child is   *)
(* its key.  The search mode is one of the PAGE_CUR_ modes of a query:     *)
(* INTERSECT, CONTAIN (the search MBR contains the record's), WITHIN (it   *)
(* lies within the record's), MBR_EQUAL and DISJOINT; or LOCATE, the       *)
(* search rtr_pcur_open_low() makes for one record [lo, hi, key] that a    *)
(* user transaction is about to delete-mark or update.                     *)
(***************************************************************************)
EXTENDS Naturals, Sequences, FiniteSets, SequencesExt

CONSTANTS
  Trees,      \* the indexes a search may start on: [root, pages, free]
  Queries,    \* the search MBRs
  Targets,    \* the records a LOCATE search looks for
  Modes,      \* the search modes
  InsertMBRs, \* the MBRs of records being inserted
  NodeCap,    \* records a non-leaf page holds
  MaxSMOs,    \* splits and merges by other transactions during one search
  MaxMerges,  \* of which merges
  NoPage      \* FIL_NULL

VARIABLES
  root,     \* the root page
  pages,    \* page number -> [level, ssn, next, recs]
  free,     \* pages not yet allocated
  ssn,      \* index->rtr_ssn.m_ssn
  splits,   \* splits so far
  query,    \* the search tuple's MBR
  mode,     \* the search mode
  path,     \* rtr_info->path: sequence of [page, level, ssn], top at the end
  matches,  \* rtr_info->matches->matched_recs: keys, top at the end
  results,  \* the keys returned to the caller, in order
  pc,       \* "loop" in getnext_from_path, "idle" between calls, "done"
  locked,   \* pages the search's transaction holds a predicate page lock on
  merges,   \* merges so far
  matchBlock, \* rtr_info->matches->block: the leaf the matches came from
  xlatched,  \* pages X-latched by a split in progress
  pending    \* the parent update of that split: [page, recs], page NoPage if none

vars == <<root, pages, free, ssn, splits, query, mode, path, matches, results,
          pc, locked, merges, matchBlock, xlatched, pending>>

NoPending == [page |-> NoPage, recs |-> <<>>]

Intersects(r, q) == r.lo <= q.hi /\ q.lo <= r.hi

\* cmp_dtuple_rec_with_gis(tuple, rec, m) = 0: the search MBR q stands in
\* relation m to the record's MBR r.
Holds(m, q, r) ==
  CASE m = "INTERSECT" -> Intersects(r, q)
    [] m = "CONTAIN"   -> q.lo <= r.lo /\ r.hi <= q.hi
    [] m = "WITHIN"    -> r.lo <= q.lo /\ q.hi <= r.hi
    [] m = "MBR_EQUAL" -> r.lo = q.lo /\ r.hi = q.hi
    [] m = "DISJOINT"  -> ~Intersects(r, q)

\* Mutant: a DISJOINT search tests a node pointer for DISJOINT only.
NonLeafMatchDisjointOnly(m, q, r) ==
  IF m \in {"CONTAIN", "INTERSECT", "MBR_EQUAL"}
    THEN Holds("CONTAIN", q, r) \/ Holds("INTERSECT", q, r)
    ELSE Holds(m, q, r)

\* rtr_cur_search_with_match() on a non-leaf page: CONTAIN, INTERSECT and
\* MBR_EQUAL push a child whose MBR the search MBR contains or intersects,
\* DISJOINT one it is disjoint from or intersects, WITHIN (and LOCATE) one
\* whose MBR holds the search MBR.
NonLeafMatch(m, q, r) ==
  CASE m \in {"CONTAIN", "INTERSECT", "MBR_EQUAL"} ->
         Holds("CONTAIN", q, r) \/ Holds("INTERSECT", q, r)
    [] m = "DISJOINT" -> Holds("DISJOINT", q, r) \/ Holds("INTERSECT", q, r)
    [] m = "LOCATE"   -> Holds("WITHIN", q, r)
    [] OTHER -> Holds(m, q, r)

\* The MBR enclosing a non-empty sequence of records.
MBR(rs) == [lo |-> Min({rs[i].lo : i \in DOMAIN rs}),
            hi |-> Max({rs[i].hi : i \in DOMAIN rs})]

\* The node pointer to page c for the records rs.
NodePtr(rs, c) == [lo |-> MBR(rs).lo, hi |-> MBR(rs).hi, child |-> c]

\* The records of rs at the positions in S, in page order.
Pick(rs, S) == LET ix == SetToSortSeq(S, <) IN [i \in DOMAIN ix |-> rs[ix[i]]]

Entry(p, l, s) == [page |-> p, level |-> l, ssn |-> s]

\* Mutant: the right sibling is followed when the SSN is not above the
\* entry's, so also for a page that was never split.
SplitPushGe(pg, e) ==
  IF pg.ssn >= e.ssn THEN <<Entry(pg.next, e.level, e.ssn)>> ELSE <<>>

\* Mutant: the right sibling is pushed with the page's own SSN.
SplitPushPageSsn(pg, e) ==
  IF pg.ssn > e.ssn THEN <<Entry(pg.next, e.level, pg.ssn)>> ELSE <<>>

\* rtr_pcur_getnext_from_path(): a page split since its entry was pushed
\* has its right sibling pushed with the entry's SSN.
SplitPush(pg, e) ==
  IF pg.ssn > e.ssn THEN <<Entry(pg.next, e.level, e.ssn)>> ELSE <<>>

\* rtr_cur_search_with_match() on a non-leaf page: one entry per matching
\* child, in page order, tagged with the index's current SSN
\* (rtr_non_leaf_stack_push() with rtr_get_current_ssn_id()).
ChildPush(pg, l) ==
  LET hits == SelectSeq(pg.recs, LAMBDA r : NonLeafMatch(mode, query, r))
  IN  [i \in DOMAIN hits |-> Entry(hits[i].child, l - 1, ssn)]

\* Mutant: a pushed child is not page-locked.
ChildLocksNone(pg, l) == {}

\* The pages of the entries ChildPush(pg, l) pushes, each given a predicate
\* page lock (lock_place_prdt_page_lock()) as it is pushed.
ChildLocks(pg, l) == {ChildPush(pg, l)[i].page : i \in DOMAIN ChildPush(pg, l)}

\* rtr_pcur_getnext_from_path(): the right sibling pushed after a split is
\* page-locked too, except in LOCATE mode.  The split already copied the
\* page locks of the left page to it.
SplitLock(pg, e) == IF pg.ssn > e.ssn /\ mode # "LOCATE" THEN {pg.next} ELSE {}

\* Mutant: the exact match compares the MBR only, not the key.
LeafMatchMbrOnly(m, q, r) ==
  IF m = "LOCATE" THEN Holds("MBR_EQUAL", q, r) ELSE Holds(m, q, r)

\* A leaf record the search takes: in LOCATE mode (level = target_level =
\* 0) page_cur_search(PAGE_CUR_LE) matching all the fields of the tuple,
\* MBR and key; otherwise rtr_cur_search_with_match()'s relation test.
LeafMatch(m, q, r) ==
  IF m = "LOCATE" THEN r = q ELSE Holds(m, q, r)

\* The keys of the leaf records the search takes on page pg.
LeafHits(pg) ==
  LET hits == SelectSeq(pg.recs, LAMBDA r : LeafMatch(mode, query, r))
  IN  [i \in DOMAIN hits |-> hits[i].child]

\* Mutant: the last match is returned but not popped from the buffer.
PopLastMatchKeep(hits) ==
  /\ matches' = hits
  /\ results' = Append(results, Last(hits))

\* rtr_init_match(): the match buffer becomes a shadow copy of leaf p, the
\* block the buffered records are copied from.
InitMatch(p) == matchBlock' = p

\* The end of rtr_cur_search_with_match() on a leaf: with no match the
\* cursor stays on the supremum; otherwise the last buffered match is
\* popped and the cursor positioned on it.
PopLastMatch(hits) ==
  /\ matches' = Front(hits)
  /\ results' = Append(results, Last(hits))

\* rtr_rec_cal_increase(): how much r's MBR grows to cover q.
Increase(q, r) == (Max({r.hi, q.hi}) - Min({r.lo, q.lo})) - (r.hi - r.lo)

\* DBL_MAX: above every increase of these MBRs.
DblMax == 1000

\* The position the scan starts at: the second record when the page is
\* the left-most of a compressed index and holds two records or more.
InsertScanStart(rs, skip) == IF skip /\ Len(rs) >= 2 THEN 2 ELSE 1

\* Mutant: the first record is not avoided once it is the best so far.
InsertChoiceNoAvoid(q, rs, avoid, skip) ==
  LET RECURSIVE Scan(_, _, _)
      Scan(i, best, least) ==
        IF i > Len(rs) THEN best
        ELSE IF Holds("WITHIN", q, rs[i]) THEN i
        ELSE LET inc == IF Increase(q, rs[i]) = 0 THEN DblMax \div 2
                        ELSE Increase(q, rs[i])
             IN  IF inc < least THEN Scan(i + 1, i, inc)
                 ELSE Scan(i + 1, best, least)
  IN  Scan(InsertScanStart(rs, skip), 0, DblMax)

\* rtr_cur_search_with_match() in PAGE_CUR_RTREE_INSERT mode on a non-leaf
\* page: the position of the child the insert descends to.  The first
\* record whose MBR holds q ends the scan; otherwise the record of least
\* increase wins, an increase of 0 counting as DBL_MAX / 2.  avoid: the
\* first record is smaller than the new one (first_rec is set), and once
\* it is the best so far any later record replaces it.
InsertChoice(q, rs, avoid, skip) ==
  LET RECURSIVE Scan(_, _, _)
      Scan(i, best, least) ==
        IF i > Len(rs) THEN best
        ELSE IF Holds("WITHIN", q, rs[i]) THEN i
        ELSE LET inc == IF Increase(q, rs[i]) = 0 THEN DblMax \div 2
                        ELSE Increase(q, rs[i])
             IN  IF inc < least \/ (avoid /\ best = 1)
                   THEN Scan(i + 1, i, inc)
                   ELSE Scan(i + 1, best, least)
  IN  Scan(InsertScanStart(rs, skip), 0, DblMax)

\* One iteration of the loop of rtr_pcur_getnext_from_path(): pop the top
\* entry, latch its page, push its right sibling if it was split, search
\* it.  A leaf with matches ends the call: the last match is popped from
\* the buffer and the cursor positioned on it; the rest stay buffered.  A
\* LOCATE search found its record and the caller works on it: the search
\* is over.  Otherwise the loop goes on while the path is not empty.
GetNextIter ==
  /\ pc = "loop" /\ path # <<>> /\ Last(path).page \notin xlatched
  /\ LET e    == Last(path)
         pg   == pages[e.page]
         rest == Front(path) \o SplitPush(pg, e)
         hits == LeafHits(pg)
     IN  /\ locked' = locked \cup SplitLock(pg, e)
                     \cup (IF e.level > 0 THEN ChildLocks(pg, e.level) ELSE {})
         /\ IF e.level > 0
            THEN /\ path' = rest \o ChildPush(pg, e.level)
                 /\ pc' = IF path' = <<>> THEN "done" ELSE "loop"
                 /\ UNCHANGED <<matches, results, matchBlock>>
            ELSE IF hits # <<>>
            THEN /\ path' = rest
                 /\ PopLastMatch(hits)
                 /\ IF mode = "LOCATE" THEN UNCHANGED matchBlock ELSE InitMatch(e.page)
                 /\ pc' = IF mode = "LOCATE" THEN "done" ELSE "idle"
            ELSE /\ path' = rest
                 /\ pc' = IF rest = <<>> THEN "done" ELSE "loop"
                 /\ UNCHANGED <<matches, results, matchBlock>>
  /\ UNCHANGED <<root, pages, free, ssn, splits, query, mode, merges, xlatched,
                 pending>>

\* rtr_pcur_move_to_next(): the next buffered match, from the back.
MoveToNextMatch ==
  /\ pc = "idle" /\ matches # <<>>
  /\ results' = Append(results, Last(matches))
  /\ matches' = Front(matches)
  /\ UNCHANGED <<root, pages, free, ssn, splits, query, mode, path, pc,
                 locked, merges, matchBlock, xlatched, pending>>

\* rtr_pcur_move_to_next() with the buffer empty calls
\* rtr_pcur_getnext_from_path(), which returns at once when the path is
\* exhausted.
MoveToNextPage ==
  /\ pc = "idle" /\ matches = <<>>
  /\ pc' = IF path = <<>> THEN "done" ELSE "loop"
  /\ UNCHANGED <<root, pages, free, ssn, splits, query, mode, path, matches,
                 results, locked, merges, matchBlock, xlatched, pending>>

\* The page holding the node pointer to p.
Parent(p) == CHOOSE x \in (DOMAIN pages) \ free :
               /\ pages[x].level = pages[p].level + 1
               /\ \E i \in DOMAIN pages[x].recs : pages[x].recs[i].child = p

\* Mutant: the parent is not X-latched until its node pointers change.
SplitLatchesNoParent(p, q, f) == {p, q}

\* The pages a split holds X-latched until its mini-transaction commits:
\* the page, its new sibling and the parent the insert's descent latched.
SplitLatches(p, q, f) == {p, q, f}

\* Another transaction splits page p into p and a new right sibling q
\* (rtr_page_split_and_insert() in gis0rtree.cc), in two steps.  First the
\* records in mv move to q, q takes p's SSN and its next link, p gets a new
\* SSN from rtr_get_new_ssn_id() and points to q, and the page locks on p
\* are copied to q (lock_prdt_update_split() in lock0prdt.cc).  The parent
\* update follows (SplitParentUpdate).  The split holds the index
\* SX-latched, so it runs alone among splits and merges.  The root is not
\* split and a parent is not split with its child.
Split(p, mv) ==
  LET pg   == pages[p]
      q    == Min(free)
      keep == Pick(pg.recs, (DOMAIN pg.recs) \ mv)
      move == Pick(pg.recs, mv)
      f    == Parent(p)
      fr   == pages[f].recs
      at   == CHOOSE i \in DOMAIN fr : fr[i].child = p
      ptrs == InsertAt([fr EXCEPT ![at] = NodePtr(keep, p)], at + 1, NodePtr(move, q))
  IN  /\ splits + merges < MaxSMOs /\ free # {} /\ p # root
      /\ pending = NoPending
      /\ Len(fr) < NodeCap
      /\ pages' = [pages EXCEPT
                     ![p] = [@ EXCEPT !.ssn = ssn + 1, !.next = q, !.recs = keep],
                     ![q] = [level |-> pg.level, ssn |-> pg.ssn, next |-> pg.next,
                             recs |-> move]]
      /\ xlatched' = SplitLatches(p, q, f)
      /\ pending' = [page |-> f, recs |-> ptrs]
      /\ ssn' = ssn + 1
      /\ free' = free \ {q}
      /\ splits' = splits + 1
      /\ locked' = IF p \in locked THEN locked \cup {q} ELSE locked
      /\ UNCHANGED <<root, query, mode, path, matches, results, pc, merges,
                     matchBlock>>

\* Mutant: the split's mini-transaction commits without releasing the latches.
SplitParentUpdateKeepLatch ==
  /\ pending # NoPending
  /\ pages' = [pages EXCEPT ![pending.page] = [@ EXCEPT !.recs = pending.recs]]
  /\ pending' = NoPending
  /\ UNCHANGED <<root, free, ssn, splits, query, mode, path, matches, results,
                 pc, locked, merges, matchBlock, xlatched>>

\* The second step of the split (rtr_adjust_upper_level() in gis0rtree.cc):
\* the parent's node pointer to p shrinks to p's new MBR and one to q is
\* inserted after it; the mini-transaction commits and the latches go.
SplitParentUpdate ==
  /\ pending # NoPending
  /\ pages' = [pages EXCEPT ![pending.page] = [@ EXCEPT !.recs = pending.recs]]
  /\ xlatched' = {} /\ pending' = NoPending
  /\ UNCHANGED <<root, free, ssn, splits, query, mode, path, matches, results,
                 pc, locked, merges, matchBlock>>

\* rtr_rebuild_path(): the path without its entries for page p.
RebuildPath(p) == SelectSeq(path, LAMBDA x : x.page # p)

\* rtr_check_discard_page() for page p, freed by another transaction: p
\* leaves the search's path, and the buffered matches are dropped if they
\* were copied from p.
CheckDiscardPage(p) ==
  /\ path' = RebuildPath(p)
  /\ matches' = IF matchBlock = p THEN <<>> ELSE matches

\* rtr_pcur_getnext_from_path() S-latches the index for the whole call
\* when the caller has not latched it, and a merge in a spatial index
\* X-latches it (btr_cur_search_to_nth_level() in btr0cur.cc).
IndexSLatched == pc = "loop"

\* Another transaction merges page p into its left sibling l under the
\* same parent (btr_compress() and rtr_merge_and_update_mbr(), not in this
\* tree): l takes p's records and next link, the parent's pointer to l
\* grows to l's new MBR, the one to p goes, p is freed and
\* rtr_check_discard_page() runs.  A page that another transaction holds a
\* predicate page lock on is not shrunk away, and none is merged while a
\* getnext_from_path call holds the index S-latched.
Merge(p, l) ==
  LET f     == Parent(p)
      fr    == pages[f].recs
      lrecs == pages[l].recs \o pages[p].recs
      at    == CHOOSE i \in DOMAIN fr : fr[i].child = l
      ptrs  == [fr EXCEPT ![at] = NodePtr(lrecs, l)]
  IN  /\ merges < MaxMerges /\ splits + merges < MaxSMOs
      /\ p # root /\ p \notin locked /\ ~IndexSLatched /\ pending = NoPending
      /\ pages[l].next = p /\ Parent(l) = f
      /\ Len(lrecs) <= NodeCap
      /\ pages' = [pages EXCEPT
                     ![l] = [@ EXCEPT !.next = pages[p].next, !.recs = lrecs],
                     ![f] = [@ EXCEPT !.recs = SelectSeq(ptrs, LAMBDA r : r.child # p)]]
      /\ free' = free \cup {p}
      /\ merges' = merges + 1
      /\ CheckDiscardPage(p)
      /\ UNCHANGED <<root, ssn, splits, query, mode, results, pc, locked,
                     matchBlock, xlatched, pending>>

MergeAny ==
  \E p, l \in (DOMAIN pages) \ free : Merge(p, l)

SplitAny ==
  \E p \in (DOMAIN pages) \ free :
    \E mv \in SUBSET DOMAIN pages[p].recs :
      mv # {} /\ mv # DOMAIN pages[p].recs /\ Split(p, mv)

\* Mutant: on a miss only the one right sibling is searched.
RestorePositionOneHop(p, s, r) ==
  \/ \E i \in DOMAIN pages[p].recs : pages[p].recs[i] = r
  \/ /\ pages[p].ssn > s /\ pages[p].next # NoPage
     /\ \E i \in DOMAIN pages[pages[p].next].recs : pages[pages[p].next].recs[i] = r

\* rtr_cur_restore_position() once the optimistic restore has failed:
\* record r, stored from page p when that page's path node was pushed with
\* SSN s, is searched for (PAGE_CUR_LE, all fields equal) on p and, while
\* the page searched has an SSN above s, on its right sibling.
RECURSIVE RestorePosition(_, _, _)
RestorePosition(p, s, r) ==
  IF \E i \in DOMAIN pages[p].recs : pages[p].recs[i] = r THEN TRUE
  ELSE IF pages[p].ssn > s THEN RestorePosition(pages[p].next, s, r)
  ELSE FALSE

\* The search starts at the root with the current SSN
\* (btr_cur_search_to_nth_level() in btr0cur.cc).  A LOCATE search whose
\* first dive misses continues in rtr_pcur_getnext_from_path() from the
\* path that dive left; this starts it from the root.
Init ==
  /\ \E t \in Trees : root = t.root /\ pages = t.pages /\ free = t.free
  /\ ssn = 0 /\ splits = 0
  /\ mode \in Modes
  /\ query \in IF mode = "LOCATE" THEN Targets ELSE Queries
  /\ path = <<Entry(root, pages[root].level, 0)>>
  /\ matches = <<>> /\ results = <<>>
  /\ pc = "loop"
  /\ locked = {} /\ merges = 0 /\ matchBlock = NoPage
  /\ xlatched = {} /\ pending = NoPending

Next ==
  \/ GetNextIter \/ MoveToNextMatch \/ MoveToNextPage
  \/ SplitAny \/ SplitParentUpdate \/ MergeAny
  \/ pc = "done" /\ UNCHANGED vars

Spec == Init /\ [][Next]_vars

\* The caller fetches until the end (a scan reads all rows), and the thread
\* in the middle of a split holds its latches and goes on; other
\* transactions need not split or merge anything.
FairSpec ==
  /\ Spec
  /\ WF_vars(GetNextIter) /\ WF_vars(MoveToNextMatch) /\ WF_vars(MoveToNextPage)
  /\ WF_vars(SplitParentUpdate)

-----------------------------------------------------------------------------
(* Properties.                                                            *)

\* The leaf records.
LeafRecs == UNION {{pages[p].recs[i] : i \in DOMAIN pages[p].recs} :
                   p \in {x \in (DOMAIN pages) \ free : pages[x].level = 0}}

\* The keys the search must return: in LOCATE mode the key of the record
\* looked for, if the index holds it.
Matching ==
  IF mode = "LOCATE" THEN {r.child : r \in LeafRecs \cap {query}}
  ELSE {r.child : r \in {x \in LeafRecs : Holds(mode, query, x)}}

TypeOK ==
  /\ pc \in {"loop", "idle", "done"} /\ mode \in Modes
  /\ ssn \in 0 .. MaxSMOs /\ splits \in 0 .. MaxSMOs
  /\ merges \in 0 .. MaxMerges /\ locked \subseteq DOMAIN pages
  /\ matchBlock \in (DOMAIN pages) \cup {NoPage}
  /\ xlatched \subseteq DOMAIN pages
  /\ pending.page \in (DOMAIN pages) \cup {NoPage}
  /\ \A i \in DOMAIN path : path[i].page \in (DOMAIN pages) \ free
                          /\ path[i].level = pages[path[i].page].level
                          /\ path[i].ssn <= ssn

\* An insert descends, on every non-leaf page as splits leave it, to the
\* first scanned child whose MBR already holds the new record's, and
\* failing one to a child of least increase, which is not the first record
\* when that is to be avoided (first_rec set) and another is there: the
\* comments of rtr_cur_search_with_match() ("select the record that result
\* in least increased area", "we will try to avoid it") against its loop.
\* It is checked in every state, so on every non-leaf page that splits and
\* merges (which wait for the search's index S latch) can produce.
InsertChoiceLeastIncrease ==
  \A p \in {x \in (DOMAIN pages) \ free : pages[x].level > 0} :
    \A q \in InsertMBRs, avoid, skip \in BOOLEAN :
      LET rs     == pages[p].recs
          c      == InsertChoice(q, rs, avoid, skip)
          cand   == InsertScanStart(rs, skip) .. Len(rs)
          within == {i \in cand : Holds("WITHIN", q, rs[i])}
          pool   == IF avoid /\ Cardinality(cand) >= 2 THEN cand \ {1} ELSE cand
      IN  IF within # {}
            THEN c = Min(within)
            ELSE /\ c \in pool
                 /\ \A i \in pool : Increase(q, rs[c]) <= Increase(q, rs[i])

\* The records of the pages in use at level l.
LevelRecs(l) == UNION {{pages[p].recs[i] : i \in DOMAIN pages[p].recs} :
                       p \in {x \in (DOMAIN pages) \ free : pages[x].level = l}}

\* Restoring a stored position finds the record, at any level, exactly
\* when the index still holds it: a record remembered from a page of the
\* starting tree with SSN 0 is found from that page however splits have
\* since moved it right, and a node pointer that a split rewrote is not
\* found.  rtr_cur_restore_position()'s comment ("the page cannot be
\* shrunk away, so we search the page and its right siblings") and the
\* ut_ad(ret) of rtr_get_father_node() against its loop; it assumes no
\* merge, as that comment does.
RestoreFindsRecord ==
  merges = 0 =>
    LET t == CHOOSE x \in Trees : DOMAIN x.pages = DOMAIN pages
    IN  \A p \in (DOMAIN t.pages) \ t.free : \A i \in DOMAIN t.pages[p].recs :
          LET r == t.pages[p].recs[i]
          IN  RestorePosition(p, 0, r) <=> r \in LevelRecs(t.pages[p].level)

\* Every search ends: a page latched by a split is released when the split
\* commits, so the search waiting on it goes on, and the SSN chain of
\* rtr_pcur_getnext_from_path() and the buffer of rtr_pcur_move_to_next()
\* run out.
SearchEnds == <>(pc = "done")

Abstract == INSTANCE SpatialScan
              WITH want <- Matching, returned <- results, done <- (pc = "done")

\* The search refines SpatialScan: each step of the caller's loop returns a
\* key of a record standing in the search relation to the search MBR that
\* it has not returned before, and the search ends only when every such
\* record has been returned, though other transactions split pages queued
\* in the path, pages already searched and the parents of both, and merge
\* pages the search holds no page lock on.  This is the SSN protocol of
\* rtr_pcur_getnext_from_path(), the stack order, the per-mode non-leaf
\* tests and the page locks of rtr_cur_search_with_match() at work, with
\* the parent of a split page X-latched until its new pointer is in.
SpatialScanRefined == Abstract!Spec

=============================================================================
