------------------------------- MODULE Trades -------------------------------
(***************************************************************************)
(* Rows of the transactions table and what the position fold makes of      *)
(* them.  A position is an (account, asset) pair; positions are numbered   *)
(* in the order in which the import sorts them.  A quantity is a count of  *)
(* the smallest storable unit (10^-8), a day is a day number.              *)
(***************************************************************************)
EXTENDS Naturals, FiniteSetsExt

CONSTANTS Ext,     \* external ids a CSV may carry
          NoExt    \* the NULL external id

(***************************************************************************)
(* What a client sends: one trade, before the database has stamped it.     *)
(* ASSUME (not needed for any proof): NoExt \notin Ext.                    *)
(***************************************************************************)
Row == [pos: Nat, kind: {"buy", "sell"}, qty: Nat, price: Nat, day: Nat,
        ext: Ext \union {NoExt}]

(***************************************************************************)
(* A stored row: created_at is the start time of its database transaction  *)
(* and id a random UUID, of which only the order among the rows of one     *)
(* transaction matters: <<at, tie>> identifies a row.  line is the place   *)
(* of the row in the request that inserted it.                             *)
(***************************************************************************)
Trade == [pos: Nat, kind: {"buy", "sell"}, qty: Nat, price: Nat, day: Nat,
          ext: Ext \union {NoExt}, at: Nat, tie: Nat, line: Nat]

Stamp(row, at, tie, line) ==
    [pos |-> row.pos, kind |-> row.kind, qty |-> row.qty, price |-> row.price,
     day |-> row.day, ext |-> row.ext, at |-> at, tie |-> tie, line |-> line]

\* ORDER BY traded_at, created_at, id
Before(t, u) ==
    \/ t.day < u.day
    \/ t.day = u.day /\ t.at < u.at
    \/ t.day = u.day /\ t.at = u.at /\ t.tie < u.tie

\* The columns by which a row without external id is recognised.
SameContent(x, y) ==
    /\ x.pos = y.pos
    /\ x.kind = y.kind
    /\ x.qty = y.qty
    /\ x.price = y.price
    /\ x.day = y.day

OnPosition(S, p) == {t \in S : t.pos = p}

Total(S, kind) == MapThenSumSet(LAMBDA t : t.qty, {t \in S : t.kind = kind})

(***************************************************************************)
(* The fold over a position's trades succeeds: no sale exceeds what the    *)
(* trades before it leave.  (PositionFold checks that this is what the     *)
(* step-by-step fold decides.)                                             *)
(***************************************************************************)
Fits(S) ==
    \A t \in S : t.kind = "sell" =>
        LET earlier == {u \in S : Before(u, t)}
        IN  Total(earlier, "sell") + t.qty <= Total(earlier, "buy")
=============================================================================
