----------------------------- MODULE SpatialScan -----------------------------
(***************************************************************************)
(* What a spatial index search promises its caller: it returns, one at a  *)
(* time, each record whose MBR stands in the search relation to the      *)
(* search MBR, never one twice and never another, and it reports the end  *)
(* only when all have been returned.  want is the set to be returned,     *)
(* returned the sequence returned so far.                                 *)
(***************************************************************************)
EXTENDS Sequences

VARIABLES want, returned, done

Returned == {returned[i] : i \in DOMAIN returned}

Init == returned = <<>> /\ done = FALSE

Return(k) ==
  /\ ~done /\ k \in want \ Returned
  /\ returned' = Append(returned, k)
  /\ UNCHANGED <<want, done>>

Finish ==
  /\ ~done /\ Returned = want
  /\ done' = TRUE
  /\ UNCHANGED <<want, returned>>

\* The last record and the end reported in one answer, as a search for a
\* single record does when it finds it.
ReturnLast(k) ==
  /\ ~done /\ k \in want \ Returned /\ want = Returned \cup {k}
  /\ returned' = Append(returned, k)
  /\ done' = TRUE
  /\ UNCHANGED want

Next == (\E k \in want : Return(k) \/ ReturnLast(k)) \/ Finish

Spec == Init /\ [][Next]_<<want, returned, done>>

=============================================================================
