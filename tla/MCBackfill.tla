----------------------------- MODULE MCBackfill -----------------------------
(* Small instances of Backfill for TLC. *)
EXTENDS Backfill

\* The accounts' heights when the script starts.
HeightTwo    == [a \in Account |-> 2]
HeightEleven == [a \in Account |-> 11]

\* The tables that it may find.
Saved(lo, hi) == UNION { Segment(a, lo, hi) : a \in Account }

FirstBlocks == { Saved(1, k) : k \in 0..2 }
EightBlocks == { Saved(1, 8) }
=============================================================================
