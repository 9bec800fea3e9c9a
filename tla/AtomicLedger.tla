---------------------------- MODULE AtomicLedger ----------------------------
(***************************************************************************)
(* What the write path of the transactions table promises: the table       *)
(* changes one accepted call at a time, every change leaves each position  *)
(* with a history that can be folded, and no cached snapshot outlives a    *)
(* change to the trades it was computed from.                              *)
(***************************************************************************)
EXTENDS Naturals

CONSTANTS Position, InitialLedger, SnapshotDays,
          Foldable(_)   \* a history that the position fold accepts

VARIABLES ledger, covered

Init == ledger = InitialLedger /\ covered = SnapshotDays

\* The rows one call inserts carry one time stamp.
AddRows ==
    /\ ledger \subseteq ledger'
    /\ \A t, u \in ledger' \ ledger : t.at = u.at

RemoveRow ==
    /\ ledger' \subseteq ledger
    /\ \A t, u \in ledger \ ledger' : t = u

\* An accepted call; it may cut more days than it has to.
Change ==
    /\ AddRows \/ RemoveRow
    /\ \A p \in Position : Foldable({t \in ledger' : t.pos = p})
    /\ covered' \subseteq covered
    /\ \A t \in (ledger' \ ledger) \union (ledger \ ledger') :
          \A d \in covered' : d < t.day

Spec == Init /\ [][Change]_<<ledger, covered>>
=============================================================================
