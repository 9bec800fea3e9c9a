--------------------------- MODULE MCCalculations ---------------------------
(***************************************************************************)
(* The calculations of the service and of the pages, one subject at a      *)
(* time; the variables of the others keep their first values.              *)
(*                                                                         *)
(* "fold": quantities and prices that do not divide by the price unit,     *)
(* with and without a fee.  "timeline": three days and up to four trades   *)
(* of one or two units.  "ratios": four classes and small values, so that  *)
(* sevenths, elevenths and thirteenths give remainders of all sizes.       *)
(* "history": two accounts that share an asset, and half yens.             *)
(* "holdings": two accounts in both orders, two assets in two currencies.  *)
(* "periods": every day of three years, one of them a leap year.           *)
(***************************************************************************)
EXTENDS PositionFold, Timeline, Allocation, History, Holdings, Periods

VARIABLE subject

SmallDeals == [kind : {"buy", "sell"}, qty : 1 .. 3, price : {0, 5}, fee : {0, 1}]
FourClasses == 1 .. 4
SmallValues == 0 .. 5
SharedAsset == {<<"a1", "s">>, <<"a2", "s">>, <<"a2", "t">>}
OpenOrClosed ==
    {[quantity |-> 1, book_value |-> 2, realized_pnl |-> 0],
     [quantity |-> 0, book_value |-> 0, realized_pnl |-> 1]}

calculationVars ==
    <<subject, vars, timelineVars, allocationVars, historyVars, holdingsVars, periodVars>>

NoHistory ==
    /\ by = "none" /\ known = {} /\ perDay = << >> /\ todo = {} /\ acc = << >>
    /\ series = << >> /\ merged = {} /\ rows = << >>

NoHoldings ==
    /\ query = << >> /\ world = << >> /\ left = << >> /\ holdings = << >>
    /\ sorted = FALSE /\ counted = 0 /\ totals = << >> /\ byAccount = << >>

MCInit ==
    /\ subject \in {"fold", "timeline", "ratios", "history", "holdings", "periods"}
    /\ Init
    /\ TimelineInit /\ (subject # "timeline" => firstRate = 1 /\ firstPrice = 1)
    /\ AllocationInit /\ (subject # "ratios" => points = << >>)
    /\ PeriodInit /\ (subject # "periods" => today.y = 2023)
    /\ IF subject = "history" THEN HistoryInit ELSE NoHistory
    /\ IF subject = "holdings" THEN HoldingsInit ELSE NoHoldings

MCNext ==
    /\ UNCHANGED subject
    /\ IF subject = "fold" THEN Next ELSE UNCHANGED vars
    /\ IF subject = "timeline" THEN TimelineNext ELSE UNCHANGED timelineVars
    /\ IF subject = "ratios" THEN AllocationNext ELSE UNCHANGED allocationVars
    /\ IF subject = "history" THEN HistoryNext ELSE UNCHANGED historyVars
    /\ IF subject = "holdings" THEN HoldingsNext ELSE UNCHANGED holdingsVars
    /\ IF subject = "periods" THEN PeriodNext ELSE UNCHANGED periodVars

MCSpec == MCInit /\ [][MCNext]_calculationVars
=============================================================================
