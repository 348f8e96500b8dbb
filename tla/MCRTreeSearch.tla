--------------------------- MODULE MCRTreeSearch ----------------------------
(***************************************************************************)
(* Small spatial indexes for RTreeSearch.  Pages are numbers, FIL_NULL a  *)
(* model value; every page starts with SSN 0, the index counter too.      *)
(***************************************************************************)
EXTENDS RTreeSearch

\* A node pointer and a leaf record (key k, MBR [lo, hi]).
Ptr(lo, hi, c) == [lo |-> lo, hi |-> hi, child |-> c]
Rec(k, lo, hi) == [lo |-> lo, hi |-> hi, child |-> k]

Pg(l, nx, rs) == [level |-> l, ssn |-> 0, next |-> nx, recs |-> rs]

Unused == Pg(0, NoPage, <<>>)

\* Height 2: a root over two leaves with overlapping MBRs; each leaf holds
\* records of every relation to the queries, and the left one can be
\* split twice.
MC_Flat ==
  [root |-> 1,
   pages |-> (1 :> Pg(1, NoPage, <<Ptr(1, 5, 2), Ptr(2, 5, 3)>>)) @@
             (2 :> Pg(0, 3, <<Rec(1, 1, 1), Rec(2, 2, 4), Rec(3, 5, 5)>>)) @@
             (3 :> Pg(0, NoPage, <<Rec(4, 2, 3), Rec(5, 3, 5)>>)) @@
             [p \in 4 .. 6 |-> Unused],
   free |-> 4 .. 6]

\* Height 3: non-leaf pages split too, moving node pointers.
MC_Deep ==
  [root |-> 1,
   pages |-> (1 :> Pg(2, NoPage, <<Ptr(1, 4, 2), Ptr(2, 5, 3)>>)) @@
             (2 :> Pg(1, 3, <<Ptr(1, 3, 4), Ptr(4, 4, 5)>>)) @@
             (3 :> Pg(1, NoPage, <<Ptr(2, 5, 6)>>)) @@
             (4 :> Pg(0, 5, <<Rec(1, 1, 1), Rec(2, 2, 3)>>)) @@
             (5 :> Pg(0, 6, <<Rec(3, 4, 4)>>)) @@
             (6 :> Pg(0, NoPage, <<Rec(4, 2, 5), Rec(5, 5, 5)>>)) @@
             [p \in 7 .. 9 |-> Unused],
   free |-> 7 .. 9]

MC_Trees == {MC_Flat, MC_Deep}

\* New records left of, right of and overlapping the trees' MBRs.
MC_InsertMBRs == {[lo |-> 0, hi |-> 0], [lo |-> 6, hi |-> 6], [lo |-> 3, hi |-> 6]}

MC_Queries == {[lo |-> 2, hi |-> 3], [lo |-> 1, hi |-> 5]}

\* Records to locate: each is in one tree, and in the other a record of
\* the same MBR with another key stands where it would be.
MC_Targets == {Rec(4, 2, 3), Rec(5, 5, 5)}

MC_Modes == {"INTERSECT", "CONTAIN", "WITHIN", "MBR_EQUAL", "DISJOINT", "LOCATE"}

=============================================================================
