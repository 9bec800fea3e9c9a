-------------------------- MODULE MCSnapshotCache --------------------------
(***************************************************************************)
(* Two days, two positions and one purchase, on the first day or on the    *)
(* last.  Runs are alike.                                                  *)
(***************************************************************************)
EXTENDS SnapshotCache, TLC

CONSTANTS w1, n1, n2, q1

OnePurchase == {[pos |-> 1, day |-> 1]}
LatePurchase == {[pos |-> 1, day |-> 2]}
Runs == Permutations(Runner)
=============================================================================
