------------------------------ MODULE MCLedger ------------------------------
(***************************************************************************)
(* Small workloads for Ledger: two positions, three days, prices equal     *)
(* except where a run says so.                                             *)
(***************************************************************************)
EXTENDS Ledger, TLC

CONSTANTS r1, r2, r3, n1, e1, e2

MCSymmetry == Permutations(Request)

RowOf(pos, kind, qty, day, ext) ==
    [pos |-> pos, kind |-> kind, qty |-> qty, price |-> 1, day |-> day, ext |-> ext]
Buy(pos, qty, day) == RowOf(pos, "buy", qty, day, NoExt)
Sell(pos, qty, day) == RowOf(pos, "sell", qty, day, NoExt)

CreateOf(row) == [op |-> "create", rows |-> <<row>>]
ImportOf(rows) == [op |-> "import", rows |-> rows]
DeleteOne == [op |-> "delete", rows |-> << >>]

\* One share bought on day 1.
OneShare == {Stamp(Buy(1, 1, 1), 0, 1, 1)}

\* The same two external ids in both orders, on different positions, so that
\* the imports can wait for each other inside the unique index.
CrossingImports ==
    {ImportOf(<<RowOf(1, "buy", 1, 1, e1), RowOf(1, "buy", 2, 1, e2)>>),
     ImportOf(<<RowOf(2, "buy", 1, 1, e2), RowOf(2, "buy", 1, 2, e1)>>)}

\* Sales that compete for the share with the deletion of its purchase and with
\* imports, CSVs that touch the two positions in both orders, one CSV with a
\* repeated row, and a call that is refused for each reason a create has.
MixedCalls ==
    {CreateOf(Sell(1, 1, 2)), DeleteOne,
     ImportOf(<<Sell(1, 1, 3), Buy(2, 1, 2)>>),
     ImportOf(<<Buy(2, 1, 2), Sell(1, 1, 2)>>),
     ImportOf(<<Buy(2, 1, 1), Buy(2, 1, 1)>>),
     CreateOf(Buy(1, 0, 1)), CreateOf(Buy(1, 1, 4)), CreateOf(Buy(9, 1, 1))}
    \union CrossingImports

\* The two ways to wait for each other, a call that waits for locks only, and one
\* CSV with rows of both positions and of different days.
CrossingCalls ==
    CrossingImports \union
    {ImportOf(<<Buy(2, 2, 2), Buy(1, 2, 1)>>), CreateOf(Buy(1, 1, 1)), DeleteOne}

\* A purchase and its sale on one day, in this order.
DayTradeCalls == {ImportOf(<<Buy(1, 1, 2), Sell(1, 1, 2)>>)}
=============================================================================
