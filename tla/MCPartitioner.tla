--------------------------- MODULE MCPartitioner ----------------------------
(***************************************************************************)
(* Every B-tree over one of the key sequences TreeKeys with at most LeafCap records on a  *)
(* leaf, NodeCap node pointers on a non-leaf page and MaxHeight levels    *)
(* above the leaves, with node pointer keys equal to their child's first  *)
(* key (purge makes them stale later).  A level below the root has at     *)
(* least two pages: btr_lift_page_up() removes an only child.              *)
(***************************************************************************)
EXTENDS Partitioner

CONSTANTS TreeKeys, LeafCap, NodeCap, MaxHeight

\* The ways to cut sequence s into consecutive non-empty pieces of at most
\* cap elements.
RECURSIVE Comps(_, _)
Comps(s, cap) ==
  IF s = <<>> THEN {<<>>}
  ELSE UNION {{<<SubSeq(s, 1, i)>> \o r : r \in Comps(SubSeq(s, i + 1, Len(s)), cap)}
              : i \in 1 .. Min({cap, Len(s)})}

LeafLevels ==
  {[q \in DOMAIN c |-> [m \in DOMAIN c[q] |-> [key |-> c[q][m], child |-> 0]]]
     : c \in UNION {Comps(ks, LeafCap) : ks \in TreeKeys}}

\* The levels that can sit on top of level below.
UpLevels(below) ==
  {[q \in DOMAIN c |-> [m \in DOMAIN c[q] |->
       [key |-> IF c[q][m] = 1 THEN MinRec ELSE below[c[q][m]][1].key,
        child |-> c[q][m]]]]
     : c \in Comps([i \in DOMAIN below |-> i], NodeCap)}

RECURSIVE Build(_)
Build(levels) ==
  LET top == levels[Len(levels)] IN
  IF Len(top) = 1 THEN {levels}
  ELSE IF Len(levels) > MaxHeight THEN {}
  ELSE UNION {Build(levels \o <<u>>) : u \in UpLevels(top)}

\* The scan ranges of the runs: open, or ending inside or between leaves;
\* MC_GapStarts begin between two leaves of the same subtree.
MC_OpenStarts == {[start |-> Null, end |-> e] : e \in {Null, 3, 4}}
MC_GapStarts == {[start |-> 3, end |-> e] : e \in {Null, 5}}
MC_TreeKeys == {<<1, 2, 4, 5>>, <<2, 4>>}

MC_Trees == UNION {Build(<<lv>>) : lv \in LeafLevels} \cup {<< << <<>> >> >>}

=============================================================================
