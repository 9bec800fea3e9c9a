---------------------------- MODULE PositionFold ----------------------------
(***************************************************************************)
(* The fold that turns a position's trades into a holding: quantity, book  *)
(* value and realized profit, by the average cost.  One step applies one   *)
(* more trade; the trades come in the order in which the repository reads  *)
(* them.                                                                   *)
(*                                                                         *)
(* An amount is a count of the smallest unit the decimals keep.  A product *)
(* or quotient that needs more digits is rounded one way or the other: the *)
(* model allows both neighbours.                                           *)
(***************************************************************************)
EXTENDS Trades, Integers, Sequences

CONSTANTS PriceUnit,   \* how many units of quantity a price is for
          Deals,       \* trades the fold may meet: [kind, qty, price, fee]
          MaxTrades    \* bound on the number of trades

Deal == [kind: {"buy", "sell"}, qty: Nat \ {0}, price: Nat, fee: Nat]
Holding == [quantity: Nat, book_value: Nat, realized_pnl: Int]

ASSUME PriceUnitAssumption == PriceUnit \in Nat \ {0}
ASSUME DealsAssumption == Deals \subseteq Deal

VARIABLES
    history,   \* the trades applied so far, the refused one included
    holding,   \* what they leave
    failed,    \* the last one sold more than was held
    paid,      \* what all purchases have cost, fees included
    received,  \* what all sales have brought, fees deducted
    closings   \* how often the position has been sold off

vars == <<history, holding, failed, paid, received, closings>>

Nothing == [quantity |-> 0, book_value |-> 0, realized_pnl |-> 0]

TypeOK ==
    /\ history \in Seq(Deal)
    /\ holding \in Holding
    /\ failed \in BOOLEAN
    /\ paid \in Nat
    /\ received \in Int
    /\ closings \in Nat

Init ==
    /\ history = << >>
    /\ holding = Nothing
    /\ failed = FALSE
    /\ paid = 0
    /\ received = 0
    /\ closings = 0

-----------------------------------------------------------------------------
\* The neighbours of n / d.
Quotients(n, d) == {z \in n \div d .. n \div d + 1 : z * d < n + d}

\* quantity * price / price_unit
Gross(deal) == Quotients(deal.qty * deal.price, PriceUnit)

\* book_value * q / held: rounded twice, so it may be off by one unit.  A part
\* of the holding never takes more than the whole book, and zero is exact.
CostOfSold(book, q, held) ==
    {z \in 0 .. book + 1 :
        /\ z * held <= book * q + held
        /\ book * q <= z * held + held
        /\ (q < held \/ book = 0) => z <= book}

Bought(h, deal, gross) ==
    [quantity |-> h.quantity + deal.qty,
     book_value |-> h.book_value + (gross + deal.fee),
     realized_pnl |-> h.realized_pnl]

\* Selling everything resets the book.
Sold(h, deal, gross, cost) ==
    [quantity |-> h.quantity - deal.qty,
     book_value |-> IF deal.qty = h.quantity THEN 0 ELSE h.book_value - cost,
     realized_pnl |-> h.realized_pnl + gross - deal.fee - cost]

-----------------------------------------------------------------------------
Meets(deal) ==
    /\ ~failed /\ Len(history) < MaxTrades
    /\ history' = Append(history, deal)

Buy(deal) ==
    /\ deal.kind = "buy"
    /\ Meets(deal)
    /\ \E gross \in Gross(deal) :
        /\ holding' = Bought(holding, deal, gross)
        /\ paid' = paid + gross + deal.fee
    /\ UNCHANGED <<failed, received, closings>>

\* Mutant: the profit has the fee of a sale added instead of deducted.
SellFeeAdded(deal) ==
    /\ deal.kind = "sell" /\ deal.qty <= holding.quantity
    /\ Meets(deal)
    /\ \E gross \in Gross(deal),
          cost \in CostOfSold(holding.book_value, deal.qty, holding.quantity) :
        /\ holding' = Sold(holding, [deal EXCEPT !.fee = 0 - @], gross, cost)
        /\ received' = received + gross - deal.fee
    /\ closings' = IF deal.qty = holding.quantity THEN closings + 1 ELSE closings
    /\ UNCHANGED <<failed, paid>>

Sell(deal) ==
    /\ deal.kind = "sell" /\ deal.qty <= holding.quantity
    /\ Meets(deal)
    /\ \E gross \in Gross(deal),
          cost \in CostOfSold(holding.book_value, deal.qty, holding.quantity) :
        /\ holding' = Sold(holding, deal, gross, cost)
        /\ received' = received + gross - deal.fee
    /\ closings' = IF deal.qty = holding.quantity THEN closings + 1 ELSE closings
    /\ UNCHANGED <<failed, paid>>

\* Mutant: the sale of the whole position is refused, too.
OversellAtAll(deal) ==
    /\ deal.kind = "sell" /\ deal.qty >= holding.quantity
    /\ Meets(deal)
    /\ failed' = TRUE
    /\ UNCHANGED <<holding, paid, received, closings>>

Oversell(deal) ==
    /\ deal.kind = "sell" /\ deal.qty > holding.quantity
    /\ Meets(deal)
    /\ failed' = TRUE
    /\ UNCHANGED <<holding, paid, received, closings>>

Next == \E deal \in Deals : Buy(deal) \/ Sell(deal) \/ Oversell(deal)

Spec == Init /\ [][Next]_vars

-----------------------------------------------------------------------------
(* Properties.                                                             *)

\* Nothing sold, nothing left over: a position without units has no book value,
\* so the next purchase starts a fresh average.
ClosedIsEmpty == holding.quantity = 0 => holding.book_value = 0

\* What was paid and is neither in the book nor charged against proceeds.
Lost == paid - holding.book_value - (received - holding.realized_pnl)

\* Every unit of money is accounted for, however the sales were cut: only a
\* reset can lose a residue, of at most one unit.
MoneyConserved == 0 - closings <= Lost /\ Lost <= closings

\* The trades applied so far as rows of the transactions table.
AsRows ==
    {Stamp([pos |-> 1, kind |-> history[i].kind, qty |-> history[i].qty,
            price |-> history[i].price, day |-> 1, ext |-> NoExt], i, 1, 1) :
        i \in DOMAIN history}

\* The fold refuses a history exactly when some sale in it exceeds what the
\* trades before it leave: the definition the write path is modelled with.
FoldDecides == failed <=> ~Fits(AsRows)
=============================================================================
