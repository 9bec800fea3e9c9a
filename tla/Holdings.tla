------------------------------ MODULE Holdings ------------------------------
(***************************************************************************)
(* The list of holdings with its totals, as GET /holdings puts it together *)
(* and the page shows it: one item for each position, in the order of the  *)
(* names of the accounts, totals by currency over all items, and the same  *)
(* for each account.                                                       *)
(*                                                                         *)
(* What a position holds is module PositionFold's subject.  Accounts and   *)
(* assets are numbered by their ids; symbols are in the same order.        *)
(***************************************************************************)
EXTENDS Integers, FiniteSets, SequencesExt

CONSTANTS Account, Asset,
          Folded,       \* what the fold may leave: [quantity, book_value, realized_pnl]
          Price,        \* the latest prices that an asset may have
          Currency

ASSUME HoldingsAssumption ==
    /\ Account \subseteq Nat /\ IsFiniteSet(Account) /\ IsFiniteSet(Asset) /\ Price \subseteq Nat
    /\ Folded \subseteq [quantity : Nat, book_value : Nat, realized_pnl : Int]

VARIABLES
    query,      \* the account, or All, and whether closed positions are wanted
    world,      \* the database: positions, names, prices and currencies
    left,       \* the positions that have not been folded yet
    holdings,   \* the items
    sorted,
    counted,    \* how many items are in the totals
    totals,     \* by currency
    byAccount   \* the accounts, each with its totals

holdingsVars == <<query, world, left, holdings, sorted, counted, totals, byAccount>>

All == 0
NoPrice == -1

\* No two accounts of a user have the same name: `first` has the first one.
Worlds ==
    [folded : UNION {[P -> Folded] : P \in SUBSET (Account \X Asset)},
     first : Account, price : [Asset -> Price \cup {NoPrice}], currency : [Asset -> Currency]]

Zero == [book_value |-> 0, priced_book_value |-> 0, market_value |-> 0, unrealized_pnl |-> 0,
         realized_pnl |-> 0, unpriced_count |-> 0]
NoTotals == [c \in {} |-> Zero]

\* The trades come by account and asset.
ById(p, q) == p[1] < q[1] \/ (p[1] = q[1] /\ p[2] < q[2])

Wanted == {p \in DOMAIN world.folded : query.account \in {All, p[1]}}

HoldingsInit ==
    /\ query \in [account : Account \cup {All}, include_closed : BOOLEAN]
    /\ world \in Worlds
    /\ left \in Bijection(1 .. Cardinality(Wanted), Wanted)
    /\ \A m, n \in DOMAIN left : m < n => ById(left[m], left[n])
    /\ holdings = << >> /\ sorted = FALSE /\ counted = 0 /\ totals = NoTotals /\ byAccount = << >>

-----------------------------------------------------------------------------
\* evaluate, for assets with a price.
Item(p) ==
    LET h == world.folded[p]
        price == world.price[p[2]]
        market == IF price = NoPrice THEN 0 ELSE h.quantity * price
    IN  [account |-> p[1], asset |-> p[2], currency |-> world.currency[p[2]], price |-> price,
         book_value |-> h.book_value, realized_pnl |-> h.realized_pnl, market_value |-> market,
         unrealized_pnl |-> IF price = NoPrice THEN 0 ELSE market - h.book_value]

Fold ==
    /\ left # << >>
    /\ left' = Tail(left)
    /\ holdings' = IF world.folded[Head(left)].quantity = 0 /\ ~query.include_closed THEN holdings
                   ELSE Append(holdings, Item(Head(left)))
    /\ UNCHANGED <<query, world, sorted, counted, totals, byAccount>>

NameBefore(a, b) == a # b /\ (a = world.first \/ (b # world.first /\ a < b))

\* Mutant: by symbol first.
ListedBeforeBySymbol(x, y) ==
    x.asset < y.asset \/ (x.asset = y.asset /\ NameBefore(x.account, y.account))

\* By name, then by symbol.
ListedBefore(x, y) ==
    NameBefore(x.account, y.account) \/ (x.account = y.account /\ x.asset < y.asset)

Sort ==
    /\ left = << >> /\ ~sorted
    /\ sorted' = TRUE
    /\ \E p \in Bijection(DOMAIN holdings, DOMAIN holdings) :
        /\ \A m, n \in DOMAIN holdings : m < n => ListedBefore(holdings[p[m]], holdings[p[n]])
        /\ holdings' = [n \in DOMAIN holdings |-> holdings[p[n]]]
    /\ UNCHANGED <<query, world, left, counted, totals, byAccount>>

\* What has no price is in the book value, but not in the rate of profit.
Accumulate(t, x) ==
    [book_value |-> t.book_value + x.book_value, realized_pnl |-> t.realized_pnl + x.realized_pnl,
     priced_book_value |-> t.priced_book_value + IF x.price = NoPrice THEN 0 ELSE x.book_value,
     market_value |-> t.market_value + x.market_value,
     unrealized_pnl |-> t.unrealized_pnl + x.unrealized_pnl,
     unpriced_count |-> t.unpriced_count + IF x.price = NoPrice THEN 1 ELSE 0]

TotalsWith(ts, x) ==
    [c \in DOMAIN ts \cup {x.currency} |->
        LET t == IF c \in DOMAIN ts THEN ts[c] ELSE Zero
        IN  IF c = x.currency THEN Accumulate(t, x) ELSE t]

\* One more item; those of one account follow each other.
Summarize ==
    /\ sorted /\ counted < Len(holdings)
    /\ counted' = counted + 1
    /\ LET x == holdings[counted + 1]
           group == IF byAccount # << >> /\ Last(byAccount).account = x.account
                    THEN Last(byAccount) ELSE [account |-> x.account, totals |-> NoTotals]
           before == IF byAccount # << >> /\ Last(byAccount).account = x.account
                     THEN Front(byAccount) ELSE byAccount
       IN  /\ totals' = TotalsWith(totals, x)
           /\ byAccount' = Append(before, [group EXCEPT !.totals = TotalsWith(@, x)])
    /\ UNCHANGED <<query, world, left, holdings, sorted>>

HoldingsNext == Fold \/ Sort \/ Summarize

HoldingsSpec == HoldingsInit /\ [][HoldingsNext]_holdingsVars

-----------------------------------------------------------------------------
Listed == sorted /\ counted = Len(holdings)

\* The sum of a total of all accounts.
OverAccounts(c, field) ==
    FoldSeq(LAMBDA a, sum : sum + IF c \in DOMAIN a.totals THEN a.totals[c][field] ELSE 0, 0, byAccount)

\* The page shows each account once, and what it shows of the accounts adds up to
\* the totals, in each currency by itself.  What was left out of the market value
\* is what has no price (SummarySection: the book value contains it).
SummariesAddUp ==
    Listed =>
        /\ \A m, n \in DOMAIN byAccount : m # n => byAccount[m].account # byAccount[n].account
        /\ \A c \in DOMAIN totals : \A field \in DOMAIN Zero : totals[c][field] = OverAccounts(c, field)
        /\ \A c \in DOMAIN totals :
            /\ totals[c].market_value - totals[c].unrealized_pnl = totals[c].priced_book_value
            /\ totals[c].unpriced_count = 0 => totals[c].priced_book_value = totals[c].book_value
=============================================================================
