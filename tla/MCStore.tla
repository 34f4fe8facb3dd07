------------------------------ MODULE MCStore ------------------------------
(***************************************************************************)
(* Small stores for TLC: blob sizes as a table, sums by folding over it.   *)
(***************************************************************************)
EXTENDS Store, TLC, FiniteSetsExt

CONSTANTS b0, b1, b2, b3, bn1, a1, t1, t2

MCBlobs2 == {b0, b1, b2}
MCBlobs3 == {b0, b1, b2, b3}

\* The empty blob, two alike and one somewhat larger.
SizeOf(b) == IF b = b0 THEN 0 ELSE IF b = b3 THEN 5 ELSE 4
MCBytes == [S \in SUBSET Blob |-> MapThenSumSet(SizeOf, S)]

\* Threads are alike, and so are b1 and b2.
Symmetry == Permutations({t1, t2}) \cup Permutations({b1, b2})

\* A bound on the calls of two threads: clients do not upload the empty blob,
\* which writing again does not change, nor batches of nothing.
SizedPuts ==
  phase = "serving" =>
    \A t \in Thread : op[t].making => op[t].batch # {} /\ Empty \notin op[t].batch
=============================================================================
