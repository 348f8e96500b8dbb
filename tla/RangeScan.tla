----------------------------- MODULE RangeScan -----------------------------
(***************************************************************************)
(* What the execution contexts of a parallel scan promise their caller,   *)
(* stated without pages, latches or cursors.  Context c scans the key      *)
(* range [Lo[c], Hi[c]).  While the table changes underneath, it hands     *)
(* records to the callback in strictly increasing key order, only records *)
(* in its range that are visible when handed over, and it misses no record *)
(* that stayed visible from the start of its scan until it moved past     *)
(* that record's key.                                                      *)
(*                                                                         *)
(* table  - the keys of the visible (not delete-marked) records            *)
(* stable - per context, the keys visible continuously since it started   *)
(* out    - per context, the keys handed over so far                       *)
(* phase  - per context, "idle" before it starts, "scan", then "done"      *)
(***************************************************************************)
EXTENDS Naturals, Sequences

CONSTANTS
  Keys,   \* the possible keys
  Ctxs,   \* the execution contexts
  Lo,     \* Lo[c]: first key of c's range (inclusive)
  Hi,     \* Hi[c]: end of c's range (exclusive), or NoEnd
  NoEnd

VARIABLES table, stable, out, phase

InRange(c, k) == Lo[c] <= k /\ (Hi[c] = NoEnd \/ k < Hi[c])

\* Beyond everything c has handed over so far.
Beyond(c, k) == out[c] = <<>> \/ k > out[c][Len(out[c])]

\* Keys c still owes the caller.
Owed(c) == {s \in stable[c] : InRange(c, s) /\ Beyond(c, s)}

Init ==
  /\ table \in SUBSET Keys
  /\ stable = [c \in Ctxs |-> {}]
  /\ out = [c \in Ctxs |-> <<>>]
  /\ phase = [c \in Ctxs |-> "idle"]

Start(c) ==
  /\ phase[c] = "idle"
  /\ phase' = [phase EXCEPT ![c] = "scan"]
  /\ stable' = [stable EXCEPT ![c] = table]
  /\ UNCHANGED <<table, out>>

\* Any change of the table; a key that disappears is no longer stable.
Change ==
  /\ table' \in SUBSET Keys
  /\ stable' = [c \in Ctxs |-> stable[c] \cap table']
  /\ UNCHANGED <<out, phase>>

\* c hands over k: visible, in range, beyond its last one, and no key it
\* still owes lies before k.
Report(c, k) ==
  /\ phase[c] = "scan"
  /\ k \in table /\ InRange(c, k) /\ Beyond(c, k)
  /\ \A s \in Owed(c) : k <= s
  /\ out' = [out EXCEPT ![c] = Append(@, k)]
  /\ UNCHANGED <<table, stable, phase>>

Finish(c) ==
  /\ phase[c] = "scan"
  /\ Owed(c) = {}
  /\ phase' = [phase EXCEPT ![c] = "done"]
  /\ UNCHANGED <<table, stable, out>>

Next ==
  \/ Change
  \/ \E c \in Ctxs : Start(c) \/ Finish(c) \/ \E k \in Keys : Report(c, k)

vars == <<table, stable, out, phase>>

SafeSpec == Init /\ [][Next]_vars

=============================================================================
