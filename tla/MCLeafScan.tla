----------------------------- MODULE MCLeafScan -----------------------------
(* Model-checking instance of LeafScan: two ranges [1, 3) and [3, end) over *)
(* two leaves {1} and {3, 4}; key 2 is free for inserts into the first     *)
(* leaf, one free page lets a leaf split, and pages hold two records, so   *)
(* that a leaf fills up, splits and, after a purge, merges.  Read at level *)
(* one, the same pages hold node pointers, and a merge of p2 into p1 waits *)
(* for p1 while the scan of the first range holds it.                      *)
EXTENDS LeafScan, TLC

CONSTANTS p1, p2, p3

MC_Keys      == 1..4
MC_Pages     == {p1, p2, p3}
MC_InitChain == <<p1, p2>>
MC_InitRecs  == (p1 :> {1}) @@ (p2 :> {3, 4}) @@ (p3 :> {})
MC_InitLow   == (p1 :> 0) @@ (p2 :> 3) @@ (p3 :> 0)
MC_Starts    == <<1, 3>>

=============================================================================
