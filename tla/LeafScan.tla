----------------------------- MODULE LeafScan ------------------------------
(***************************************************************************)
(* The leaf-level traversal of the parallel reader (row0pread.cc):         *)
(* Ctx::traverse() restores the context's start cursor, traverse_recs()    *)
(* walks the records of the range page by page until a record reaches the *)
(* range's end tuple or the index ends, and PCursor moves to the next leaf *)
(* either by latch coupling or, when the index lock has waiters, by        *)
(* saving the position, releasing every latch, yielding and restoring.    *)
(* Several contexts over adjacent ranges run at once while other           *)
(* transactions insert, delete-mark, re-insert and purge records and split *)
(* and merge leaf pages; a modification is one mini-transaction that      *)
(* X-latches the pages it changes, so it cannot touch a page a context    *)
(* holds S-latched.                                                        *)
(*                                                                         *)
(* Records are their keys.  A page's records are a set (a page is sorted), *)
(* the leaf level is the chain of page ids, and low[p] is the key of the   *)
(* node pointer to p, which decides which leaf an insert or a search by    *)
(* key lands on.  The persistent cursor (btr0pcur.cc, not in this tree)   *)
(* follows its specification: a restore is optimistic when the page was   *)
(* not modified since the position was stored, and otherwise searches by   *)
(* key.  hint[c] stands for "modify clock unchanged".                      *)
(*                                                                         *)
(* A scan may read level one, the node pointers above the leaves, instead *)
(* (Config::m_read_level = 1).  There a record is removed at once, not    *)
(* delete-marked, and the move to the right sibling takes its S-latch     *)
(* without waiting: a merge at that level X-latches the page it frees     *)
(* before its left sibling, the reverse of the scan's order.  On          *)
(* DB_LOCK_NOWAIT the cursor is stored, every latch released and the      *)
(* position searched again from the root.                                  *)
(***************************************************************************)
EXTENDS Naturals, Sequences, FiniteSets

CONSTANTS
  Keys,        \* the possible keys, a finite set of naturals
  Pages,       \* page ids of the leaf level, including free ones
  Cap,         \* most records a page holds
  InitChain,   \* initial leaf chain, a sequence of distinct pages
  InitRecs,    \* initial records of each page
  InitLow,     \* initial node-pointer key of each page
  Starts,      \* Starts[i]: the key the i-th range starts at
  NoEnd,       \* the open end of the last range (null end tuple)
  INF, SUP,    \* page cursor on the infimum / supremum record
  FIL_NULL,    \* no next page
  MaxMods,     \* bound on the modifications other transactions make
  StartsPurgeable, \* may purge remove a record a range starts at?
  ReadLevels   \* the levels a scan may read, a subset of {0, 1}

Ctxs == 1 .. Len(Starts)
\* Ctx::m_range: [Starts[c], Starts[c+1]), the last one is open.
RangeHi(c) == IF c < Len(Starts) THEN Starts[c + 1] ELSE NoEnd
InRange(c, k) == Starts[c] <= k /\ (RangeHi(c) = NoEnd \/ k < RangeHi(c))

VARIABLES
  chain,     \* the leaf level, left to right
  recs,      \* records on each page
  marked,    \* delete-marked records (still on their page)
  low,       \* node-pointer key of each page in the chain
  phase,     \* per context: "idle", "scan", "yield", "done"
  page,      \* per context: the page its cursor is on
  cur,       \* per context: a key on page[c], or SUP
  saved,     \* per context: the key of the stored position (rel. pos AFTER)
  savedPage, \* per context: the block the position was stored on
  hint,      \* per context: the stored block is unmodified since the store
  out,       \* per context: keys handed to the row callback
  stable,    \* history: per context, keys visible since it started
  mods,      \* modifications made so far (bounded by MaxMods)
  level,     \* Config::m_read_level of the scan
  merging,   \* level one: the page a merge holds X-latched while it waits
             \* for its left sibling, or FIL_NULL
  waiters    \* rw_lock_get_waiters() of the index lock

vars == <<chain, recs, marked, low, phase, page, cur, saved, savedPage, hint,
          out, stable, mods, level, merging, waiters>>
treeVars == <<chain, recs, marked, low, mods, level, merging, waiters>>
ctxVars  == <<phase, page, cur, saved, savedPage, hint, out, stable>>

-----------------------------------------------------------------------------
(* The tree.                                                              *)

InChain(p) == \E i \in 1..Len(chain) : chain[i] = p
Pos(p)     == CHOOSE i \in 1..Len(chain) : chain[i] = p
\* btr_page_get_next(): FIL_NULL for the last leaf.
NextPage(p) == IF Pos(p) < Len(chain) THEN chain[Pos(p) + 1] ELSE FIL_NULL
Visible    == UNION {recs[p] \ marked : p \in {chain[i] : i \in 1..Len(chain)}}
AllRecs    == UNION {recs[p] : p \in {chain[i] : i \in 1..Len(chain)}}
PageOf(k)  == CHOOSE p \in {chain[i] : i \in 1..Len(chain)} : k \in recs[p]

\* A search by key descends the node pointers to the leaf with the
\* greatest node-pointer key <= k (the leftmost leaf for smaller keys).
LeafFor(k) ==
  LET cand == {i \in 1..Len(chain) : low[chain[i]] <= k}
  IN  IF cand = {} THEN chain[1]
      ELSE chain[CHOOSE i \in cand : \A j \in cand : j <= i]

MinOf(S) == CHOOSE x \in S : \A y \in S : x <= y
MaxKey(S) == CHOOSE x \in S : \A y \in S : y <= x

\* page_cur_move_to_next() from key k (or from the infimum) on page p.
NextOnPage(p, k) ==
  LET above == {r \in recs[p] : k = INF \/ r > k}
  IN  IF above = {} THEN SUP ELSE MinOf(above)

\* Pages a context holds S-latched.
Latched == {page[c] : c \in {d \in Ctxs : phase[d] = "scan"}}

\* A purge, node-pointer removal, split or merge of the pages P bumps their
\* modify clocks: positions stored on them can no longer be restored
\* optimistically.  Only a
\* context that has not started or is yielding holds a stored position.
Touch(P) ==
  /\ hint' = [c \in Ctxs |-> IF phase[c] \in {"idle", "yield"}
                             THEN hint[c] /\ savedPage[c] \notin P
                             ELSE hint[c]]
  /\ mods' = mods + 1

\* Insert, delete-mark and undelete change records in place and do not call
\* buf_block_modify_clock_inc(); the clock moves only if the insert has to
\* reorganise the page or the block is evicted and read again meanwhile.
MaybeTouch(P) == Touch(P) \/ (UNCHANGED hint /\ mods' = mods + 1)

\* Pages a pending level-one merge holds X-latched or waits for: the page
\* it frees and its left sibling, whose lock has the X request queued.
MergePages ==
  IF merging = FIL_NULL THEN {} ELSE {merging, chain[Pos(merging) - 1]}

-----------------------------------------------------------------------------
(* Other transactions: each is one mini-transaction under X latches.      *)

\* Optimistic insert of a new record on the leaf its key belongs to.
Insert(k) ==
  /\ k \notin AllRecs
  /\ LET p == LeafFor(k)
     IN  /\ p \notin Latched
         /\ Cardinality(recs[p]) < Cap
         /\ recs' = [recs EXCEPT ![p] = @ \cup {k}]
         /\ MaybeTouch({p})
  /\ UNCHANGED <<chain, marked, low, phase, page, cur, saved, savedPage, out, stable,
                 level, merging, waiters>>

\* A delete (or the delete half of an update) delete-marks the record.
DeleteMark(k) ==
  /\ level = 0
  /\ k \in AllRecs \ marked
  /\ PageOf(k) \notin Latched
  /\ marked' = marked \cup {k}
  /\ MaybeTouch({PageOf(k)})
  /\ stable' = [c \in Ctxs |-> stable[c] \ {k}]
  /\ UNCHANGED <<chain, recs, low, phase, page, cur, saved, savedPage, out,
                 level, merging, waiters>>

\* Re-inserting a delete-marked key clears the mark in place.
Undelete(k) ==
  /\ level = 0
  /\ k \in marked
  /\ PageOf(k) \notin Latched
  /\ marked' = marked \ {k}
  /\ MaybeTouch({PageOf(k)})
  /\ UNCHANGED <<chain, recs, low, phase, page, cur, saved, savedPage, out, stable,
                 level, merging, waiters>>

\* Purge removes a delete-marked record.  A leaf keeps at least one record:
\* emptying a page is the merge below (and an empty root is not modelled).
Purge(k) ==
  /\ k \in marked
  /\ StartsPurgeable \/ k \notin {Starts[c] : c \in Ctxs}
  /\ LET p == PageOf(k)
     IN  /\ p \notin Latched
         /\ Cardinality(recs[p]) > 1
         /\ recs' = [recs EXCEPT ![p] = @ \ {k}]
         /\ Touch({p})
  /\ marked' = marked \ {k}
  /\ UNCHANGED <<chain, low, phase, page, cur, saved, savedPage, out, stable,
                 level, merging, waiters>>

\* Page split: the records from key m on move to a free page linked in
\* after p, whose node pointer is m.  p and its right sibling are X-latched.
SplitPage(p, q, m) ==
  /\ InChain(p) /\ ~InChain(q)
  /\ m \in recs[p] /\ m # MinOf(recs[p])
  /\ {p, NextPage(p)} \cap Latched = {}
  /\ chain' = SubSeq(chain, 1, Pos(p)) \o <<q>> \o SubSeq(chain, Pos(p) + 1, Len(chain))
  /\ recs' = [recs EXCEPT ![p] = {r \in @ : r < m}, ![q] = {r \in recs[p] : r >= m}]
  /\ low' = [low EXCEPT ![q] = m]
  /\ Touch({p, q})
  /\ UNCHANGED <<marked, phase, page, cur, saved, savedPage, out, stable,
                 level, merging, waiters>>

\* The records of p move to its left sibling, p leaves the chain and
\* btr_node_ptr_delete() removes its node pointer.
MergeInto(p) ==
  LET l == chain[Pos(p) - 1]
  IN  /\ recs' = [recs EXCEPT ![l] = @ \cup recs[p], ![p] = {}]
      /\ Touch({l, p})
      /\ chain' = SubSeq(chain, 1, Pos(p) - 1) \o SubSeq(chain, Pos(p) + 1, Len(chain))
      /\ low' = [low EXCEPT ![p] = 0]

CanMerge(p) ==
  InChain(p) /\ Pos(p) > 1
  /\ Cardinality(recs[chain[Pos(p) - 1]]) + Cardinality(recs[p]) <= Cap

\* btr_compress() on a leaf: the left sibling, p and its right sibling are
\* X-latched in that order before p is merged into its left sibling.
MergeLeft(p) ==
  /\ level = 0 /\ CanMerge(p)
  /\ {chain[Pos(p) - 1], p, NextPage(p)} \cap Latched = {}
  /\ MergeInto(p)
  /\ UNCHANGED <<marked, phase, page, cur, saved, savedPage, out, stable,
                 level, merging, waiters>>

\* Level one: btr_node_ptr_delete() removes a node pointer at once (its
\* leaf was freed); a page keeps at least one.
Remove(k) ==
  /\ level = 1
  /\ k \in AllRecs
  /\ StartsPurgeable \/ k \notin {Starts[c] : c \in Ctxs}
  /\ LET p == PageOf(k)
     IN  /\ p \notin Latched
         /\ Cardinality(recs[p]) > 1
         /\ recs' = [recs EXCEPT ![p] = @ \ {k}]
         /\ Touch({p})
  /\ stable' = [c \in Ctxs |-> stable[c] \ {k}]
  /\ UNCHANGED <<chain, marked, low, phase, page, cur, saved, savedPage, out,
                 level, merging, waiters>>

\* btr_compress() of a level-one page p, first half: p is X-latched (the
\* search of the tree-modifying operation reached it from its parent) and
\* then its left sibling is requested: the merge waits for that latch.
MergeLatch(p) ==
  /\ level = 1 /\ CanMerge(p)
  /\ p \notin Latched
  /\ merging' = p
  /\ UNCHANGED <<chain, recs, marked, low, mods, level, waiters, ctxVars>>

\* Second half, once the left sibling and the right one are X-latched.
MergeDone ==
  /\ merging # FIL_NULL
  /\ {chain[Pos(merging) - 1], NextPage(merging)} \cap Latched = {}
  /\ MergeInto(merging)
  /\ merging' = FIL_NULL
  /\ UNCHANGED <<marked, phase, page, cur, saved, savedPage, out, stable, level,
                 waiters>>

-----------------------------------------------------------------------------
(* A context's traversal.                                                 *)

\* Mutant: the cursor is left on the next page's infimum.
MoveToUserRecOnNextPageNoSkip(c, p) ==
  IF NextPage(p) = FIL_NULL
    THEN /\ phase' = [phase EXCEPT ![c] = "done"]
         /\ UNCHANGED <<page, cur>>
    ELSE /\ page' = [page EXCEPT ![c] = NextPage(p)]
         /\ cur' = [cur EXCEPT ![c] = INF]
         /\ phase' = [phase EXCEPT ![c] = "scan"]

\* PCursor::move_to_user_rec_on_next_page() from page p: latch the right
\* sibling, release p, skip the infimum; DB_END_OF_INDEX ends the scan.
MoveToUserRecOnNextPage(c, p) ==
  IF NextPage(p) = FIL_NULL
    THEN /\ phase' = [phase EXCEPT ![c] = "done"]
         /\ UNCHANGED <<page, cur>>
    ELSE /\ page' = [page EXCEPT ![c] = NextPage(p)]
         /\ cur' = [cur EXCEPT ![c] = NextOnPage(NextPage(p), INF)]
         /\ phase' = [phase EXCEPT ![c] = "scan"]

\* The cursor's position is stored on the last record of page p and the
\* mtr committed: save_previous_user_record_as_last_processed() with
\* BTR_PCUR_AFTER, save_level_one_progress() ON that record.  h: the
\* restore may try the stored block optimistically.
SaveLast(c, p, h) ==
  /\ saved' = [saved EXCEPT ![c] = MaxKey(recs[p])]
  /\ savedPage' = [savedPage EXCEPT ![c] = p]
  /\ hint' = [hint EXCEPT ![c] = h]
  /\ phase' = [phase EXCEPT ![c] = "yield"]

\* Mutant: at level one the right sibling is S-latched by waiting for it.
NextBlockWait(c, p) ==
  /\ NextPage(p) \notin MergePages
  /\ MoveToUserRecOnNextPage(c, p)
  /\ UNCHANGED <<saved, savedPage, hint>>

\* move_to_user_rec_on_next_page() from page p and, at level one, the
\* DB_LOCK_NOWAIT loop of PCursor::move_to_next_block_at_level_one(): the
\* right sibling's S-latch is tried without waiting; if a merge holds it,
\* or waits for it, save_level_one_progress() stores the last record of p
\* ON and commits, m_block_when_stored.clear() makes the restore search
\* from the root, and the scan waits for that restore.
NextBlock(c, p) ==
  IF level = 1 /\ NextPage(p) \in MergePages
    THEN /\ SaveLast(c, p, FALSE)
         /\ UNCHANGED <<page, cur>>
    ELSE /\ MoveToUserRecOnNextPage(c, p)
         /\ UNCHANGED <<saved, savedPage, hint>>

\* A restore latches the stored block itself, or searches from the root
\* through the parent a pending merge holds X-latched; either waits for
\* the merge.
RestoreOK(c) ==
  IF hint[c] THEN savedPage[c] \notin MergePages ELSE merging = FIL_NULL

\* Ctx::traverse(): restore the range's start cursor (stored ON its first
\* record): optimistically on the same record, else by a PAGE_CUR_LE
\* search; unless that is the stored record, move to the next one.
ScanStart(c) ==
  /\ phase[c] = "idle" /\ RestoreOK(c)
  /\ IF hint[c]
       THEN /\ page' = [page EXCEPT ![c] = savedPage[c]]
            /\ cur' = [cur EXCEPT ![c] = Starts[c]]
       ELSE LET p  == LeafFor(Starts[c])
                le == {r \in recs[p] : r <= Starts[c]}
            IN  /\ page' = [page EXCEPT ![c] = p]
                /\ cur' = [cur EXCEPT ![c] =
                             IF Starts[c] \in recs[p] THEN Starts[c]
                             ELSE NextOnPage(p, IF le = {} THEN INF ELSE MaxKey(le))]
  /\ phase' = [phase EXCEPT ![c] = "scan"]
  /\ stable' = [stable EXCEPT ![c] = Visible]
  /\ UNCHANGED <<treeVars, saved, savedPage, hint, out>>

\* Mutant: the end test is ret < 0, so the end tuple's own record is read.
ScanRecordEndExclusive(c) ==
  /\ phase[c] = "scan" /\ cur[c] # SUP
  /\ IF RangeHi(c) # NoEnd /\ cur[c] > RangeHi(c)
       THEN /\ phase' = [phase EXCEPT ![c] = "done"]
            /\ UNCHANGED <<cur, out>>
       ELSE /\ out' = IF cur[c] \in marked THEN out
                      ELSE [out EXCEPT ![c] = Append(@, cur[c])]
            /\ cur' = [cur EXCEPT ![c] = NextOnPage(page[c], cur[c])]
            /\ UNCHANGED phase
  /\ UNCHANGED <<treeVars, page, saved, savedPage, hint, stable>>

\* traverse_recs() on a user record: stop at the first record >= the end
\* tuple; otherwise hand a visible record to the row callback (a
\* delete-marked one is skipped by check_visibility()) and move on.
ScanRecord(c) ==
  /\ phase[c] = "scan" /\ cur[c] # SUP
  /\ IF RangeHi(c) # NoEnd /\ cur[c] >= RangeHi(c)
       THEN /\ phase' = [phase EXCEPT ![c] = "done"]
            /\ UNCHANGED <<cur, out>>
       ELSE /\ out' = IF cur[c] \in marked THEN out
                      ELSE [out EXCEPT ![c] = Append(@, cur[c])]
            /\ cur' = [cur EXCEPT ![c] = NextOnPage(page[c], cur[c])]
            /\ UNCHANGED phase
  /\ UNCHANGED <<treeVars, page, saved, savedPage, hint, stable>>

\* traverse_recs() after the last record of a page: move_to_next_node()
\* with no waiters on the index lock couples the latch to the next leaf.
ScanNextPage(c) ==
  /\ phase[c] = "scan" /\ cur[c] = SUP /\ (level = 0 \/ ~waiters)
  /\ NextBlock(c, page[c])
  /\ UNCHANGED <<treeVars, out, stable>>

\* With waiters: save_previous_user_record_as_last_processed() stores the
\* last record of the page with BTR_PCUR_AFTER and commits the mtr; at
\* level one save_level_one_progress() stores that record ON.
SaveAndYield(c) ==
  /\ phase[c] = "scan" /\ cur[c] = SUP /\ (level = 0 \/ waiters)
  /\ SaveLast(c, page[c], TRUE)
  /\ UNCHANGED <<treeVars, page, cur, out, stable>>

\* restore_to_largest_le_position_saved(): the stored block if it is
\* unmodified, else the page a search for the stored key reaches.
RestoredPage(c) == IF hint[c] THEN savedPage[c] ELSE LeafFor(saved[c])

\* restore_level_one_progress(): the PAGE_CUR_LE restore, then the next
\* record: the supremum of the unmodified stored page (its record was the
\* last), else the first record above the stored key on the page reached.
RestoredPos(c) ==
  IF hint[c] THEN SUP ELSE NextOnPage(RestoredPage(c), saved[c])

\* restore_to_first_unprocessed(): optimistically the cursor is back on
\* the supremum of the stored page; otherwise a PAGE_CUR_G search lands on
\* the first record after the stored one, or on a supremum.  From a
\* supremum the scan goes on with move_to_user_rec_on_next_page().
RestoreAfterYield(c) ==
  /\ phase[c] = "yield" /\ RestoreOK(c)
  /\ LET p   == RestoredPage(c)
         pos == RestoredPos(c)
     IN  IF pos = SUP
           THEN NextBlock(c, p)
           ELSE /\ page' = [page EXCEPT ![c] = p]
                /\ cur' = [cur EXCEPT ![c] = pos]
                /\ phase' = [phase EXCEPT ![c] = "scan"]
                /\ UNCHANGED <<saved, savedPage, hint>>
  /\ UNCHANGED <<treeVars, out, stable>>

-----------------------------------------------------------------------------
Init ==
  /\ chain = InitChain
  /\ recs = InitRecs
  /\ marked = {}
  /\ low = InitLow
  /\ phase = [c \in Ctxs |-> "idle"]
  \* create_persistent_cursor(): each range start is stored ON its record.
  /\ page = [c \in Ctxs |-> CHOOSE p \in Pages : Starts[c] \in InitRecs[p]]
  /\ cur = [c \in Ctxs |-> Starts[c]]
  /\ saved = [c \in Ctxs |-> Starts[c]]
  /\ savedPage = page
  /\ hint = [c \in Ctxs |-> TRUE]
  /\ out = [c \in Ctxs |-> <<>>]
  /\ stable = [c \in Ctxs |-> {}]
  /\ mods = 0
  /\ level \in ReadLevels
  /\ merging = FIL_NULL
  /\ waiters = FALSE

Context(c) ==
  \/ ScanStart(c) \/ ScanRecord(c) \/ ScanNextPage(c)
  \/ SaveAndYield(c) \/ RestoreAfterYield(c)

\* Other transactions; none starts while a level-one merge is pending.
Modify ==
  /\ mods < MaxMods /\ merging = FIL_NULL
  /\ \/ \E k \in Keys : Insert(k) \/ DeleteMark(k) \/ Undelete(k) \/ Purge(k)
     \/ \E k \in Keys : Remove(k)
     \/ \E p, q \in Pages, m \in Keys : SplitPage(p, q, m)
     \/ \E p \in Pages : MergeLeft(p) \/ MergeLatch(p)

\* Threads start and stop waiting for the index lock.  At the leaves
\* either branch of move_to_next_block_at_leaf_level() may be taken at any
\* page end; at level one whether the scan can yield decides whether it
\* can be stuck, so the waiters are state there.
Waiters ==
  /\ level = 1
  /\ waiters' = ~waiters
  /\ UNCHANGED <<chain, recs, marked, low, mods, level, merging, ctxVars>>

\* Every context has finished; the model stops here.
AllDone == \A c \in Ctxs : phase[c] = "done"

Next == (\E c \in Ctxs : Context(c)) \/ Modify \/ MergeDone \/ Waiters
        \/ (AllDone /\ UNCHANGED vars)

\* Worker threads are scheduled by the OS; a context that can step does.
\* Other transactions are not obliged to start anything, but a merge that
\* holds a page goes on once the latch it waits for is free.
Spec == Init /\ [][Next]_vars /\ \A c \in Ctxs : WF_vars(Context(c))
        /\ WF_vars(MergeDone)

-----------------------------------------------------------------------------
(* Properties.                                                            *)

TypeOK ==
  /\ chain \in Seq(Pages) /\ Len(chain) >= 1
  /\ recs \in [Pages -> SUBSET Keys] /\ marked \subseteq Keys
  /\ phase \in [Ctxs -> {"idle", "scan", "yield", "done"}]
  /\ page \in [Ctxs -> Pages] /\ cur \in [Ctxs -> Keys \cup {SUP}]
  /\ saved \in [Ctxs -> Keys] /\ hint \in [Ctxs -> BOOLEAN]
  /\ \A c \in Ctxs : out[c] \in Seq(Keys) /\ stable[c] \subseteq Keys
  /\ level \in ReadLevels /\ merging \in Pages \cup {FIL_NULL}
  /\ waiters \in BOOLEAN

\* Each context implements RangeScan for its range: under any concurrent
\* inserts, deletes, purges, splits and merges, and any sequence of
\* yields and restores, it reports visible in-range records in strictly
\* increasing order and skips none that stayed visible.
Abstract == INSTANCE RangeScan
              WITH Lo <- Starts, Hi <- [c \in Ctxs |-> RangeHi(c)],
                   table <- Visible,
                   phase <- [c \in Ctxs |-> IF phase[c] = "yield" THEN "scan"
                                             ELSE phase[c]]
RangeScanRefined == Abstract!SafeSpec

\* Every context's traversal ends, whatever the other transactions do.
Termination == \A c \in Ctxs : <>(phase[c] = "done")

=============================================================================
