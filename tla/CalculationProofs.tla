-------------------------- MODULE CalculationProofs --------------------------
(***************************************************************************)
(* Proofs about the calculations of the service: PositionFold, for every   *)
(* price unit and every set of trades; Allocation, for every list of       *)
(* classes and values; Periods, for every day of any years.                *)
(***************************************************************************)
EXTENDS PositionFold, Allocation, Periods, Sums

-----------------------------------------------------------------------------
(* PositionFold.  The three invariants are inductive together: that no     *)
(* money is lost needs the type of the book, and that an empty position    *)
(* has an empty book needs no more than the steps themselves.              *)

BookInv == TypeOK /\ ClosedIsEmpty /\ MoneyConserved

\* A common positive factor can be cancelled.
LEMMA CancelAtMost ==
    ASSUME NEW a \in Nat, NEW b \in Nat, NEW q \in Nat \ {0}, a * q <= b * q
    PROVE  a <= b
<1>1. SUFFICES ASSUME b + 1 <= a PROVE FALSE
    OBVIOUS
<1>2. (b + 1) * q <= a * q
    BY <1>1
<1>3. (b + 1) * q = b * q + q
    OBVIOUS
<1> QED
    BY <1>2, <1>3

\* A rounded amount of money is not negative.
LEMMA QuotientsType ==
    ASSUME NEW n \in Nat, NEW d \in Nat \ {0}, NEW z \in Quotients(n, d)
    PROVE  z \in Nat
    BY DEF Quotients

\* The cost of a sale is at most one unit away from the whole book if
\* everything is sold, and never more than the book if something is left.
LEMMA CostBounds ==
    ASSUME NEW book \in Nat, NEW q \in Nat \ {0}, NEW held \in Nat, q <= held,
           NEW cost \in CostOfSold(book, q, held)
    PROVE  /\ cost \in Nat
           /\ q < held => cost <= book
           /\ q = held => cost <= book + 1 /\ book <= cost + 1
<1>1. cost \in Nat /\ cost <= book + 1 /\ (q < held => cost <= book)
    BY DEF CostOfSold
<1>2. ASSUME q = held PROVE book <= cost + 1
    <2>1. book * q <= cost * q + q
        BY <1>2 DEF CostOfSold
    <2>2. (cost + 1) * q = cost * q + q
        BY <1>1
    <2> QED
        BY <1>1, <2>1, <2>2, CancelAtMost
<1> QED
    BY <1>1, <1>2

LEMMA GrossType ==
    ASSUME NEW deal \in Deal, NEW gross \in Gross(deal)
    PROVE  gross \in Nat
<1>1. deal.qty * deal.price \in Nat
    BY DEF Deal
<1> QED
    BY <1>1, QuotientsType, PriceUnitAssumption DEF Gross

LEMMA BookInvInit == Init => BookInv
<1> SUFFICES ASSUME Init PROVE BookInv
    OBVIOUS
<1>1. /\ holding.quantity = 0 /\ holding.book_value = 0 /\ holding.realized_pnl = 0
      /\ paid = 0 /\ received = 0 /\ closings = 0
    BY DEF Init, Nothing
<1>2. history \in Seq(Deal)
    BY DEF Init
<1>3. holding \in Holding
    BY DEF Init, Nothing, Holding
<1>4. failed \in BOOLEAN
    BY DEF Init
<1>5. ClosedIsEmpty
    BY <1>1 DEF ClosedIsEmpty
<1>6. MoneyConserved
    BY <1>1 DEF MoneyConserved, Lost
<1> QED
    BY <1>1, <1>2, <1>3, <1>4, <1>5, <1>6 DEF BookInv, TypeOK

LEMMA BuyKeepsBook ==
    ASSUME BookInv, NEW deal \in Deals, Buy(deal)
    PROVE  BookInv'
<1>1. /\ deal \in Deal /\ deal.qty \in Nat \ {0} /\ deal.fee \in Nat
    BY DealsAssumption DEF Deal
<1>2. /\ holding.quantity \in Nat /\ holding.book_value \in Nat
      /\ holding.realized_pnl \in Int
      /\ paid \in Nat /\ received \in Int /\ closings \in Nat
    BY DEF BookInv, TypeOK, Holding
<1>3. PICK gross \in Gross(deal) : /\ holding' = Bought(holding, deal, gross)
                                   /\ paid' = paid + gross + deal.fee
    BY DEF Buy
<1>4. gross \in Nat
    BY <1>1, GrossType
<1>5. holding' = [quantity |-> holding.quantity + deal.qty,
                  book_value |-> holding.book_value + (gross + deal.fee),
                  realized_pnl |-> holding.realized_pnl]
    BY <1>3 DEF Bought
<1>6. received' = received /\ closings' = closings /\ failed' = failed
    BY DEF Buy
<1>7. holding' \in Holding
    BY <1>1, <1>2, <1>4, <1>5 DEF Holding
<1>8. TypeOK'
    <2>1. history' \in Seq(Deal)
        BY <1>1 DEF Buy, Meets, BookInv, TypeOK
    <2>2. failed' \in BOOLEAN
        BY <1>6 DEF BookInv, TypeOK
    <2> QED
        BY <1>1, <1>2, <1>3, <1>4, <1>6, <1>7, <2>1, <2>2 DEF TypeOK
<1>9. ClosedIsEmpty'
    BY <1>1, <1>2, <1>5 DEF ClosedIsEmpty
<1>10. Lost' = Lost
    BY <1>1, <1>2, <1>3, <1>4, <1>5, <1>6 DEF Lost
<1>11. MoneyConserved'
    BY <1>6, <1>10 DEF BookInv, MoneyConserved
<1> QED
    BY <1>8, <1>9, <1>11 DEF BookInv

LEMMA SellKeepsBook ==
    ASSUME BookInv, NEW deal \in Deals, Sell(deal)
    PROVE  BookInv'
<1>1. /\ deal \in Deal /\ deal.qty \in Nat \ {0} /\ deal.fee \in Nat
      /\ deal.qty <= holding.quantity
    BY DealsAssumption DEF Deal, Sell
<1>2. /\ holding.quantity \in Nat /\ holding.book_value \in Nat
      /\ holding.realized_pnl \in Int
      /\ paid \in Nat /\ received \in Int /\ closings \in Nat
    BY DEF BookInv, TypeOK, Holding
<1>3. PICK gross \in Gross(deal),
           cost \in CostOfSold(holding.book_value, deal.qty, holding.quantity) :
        /\ holding' = Sold(holding, deal, gross, cost)
        /\ received' = received + gross - deal.fee
    BY DEF Sell
<1>4. gross \in Nat
    BY <1>1, GrossType
<1>5. /\ cost \in Nat
      /\ deal.qty < holding.quantity => cost <= holding.book_value
      /\ deal.qty = holding.quantity =>
            cost <= holding.book_value + 1 /\ holding.book_value <= cost + 1
    BY <1>1, <1>2, CostBounds
<1>6. holding' = [quantity |-> holding.quantity - deal.qty,
                  book_value |-> IF deal.qty = holding.quantity THEN 0
                                 ELSE holding.book_value - cost,
                  realized_pnl |-> holding.realized_pnl + gross - deal.fee - cost]
    BY <1>3 DEF Sold
<1>7. /\ paid' = paid /\ failed' = failed
      /\ closings' = IF deal.qty = holding.quantity THEN closings + 1 ELSE closings
    BY DEF Sell
<1>8. holding' \in Holding
    BY <1>1, <1>2, <1>4, <1>5, <1>6 DEF Holding
<1>9. TypeOK'
    <2>1. history' \in Seq(Deal)
        BY <1>1 DEF Sell, Meets, BookInv, TypeOK
    <2>2. failed' \in BOOLEAN
        BY <1>7 DEF BookInv, TypeOK
    <2> QED
        BY <1>1, <1>2, <1>3, <1>4, <1>7, <1>8, <2>1, <2>2 DEF TypeOK
<1>10. ClosedIsEmpty'
    BY <1>1, <1>2, <1>6 DEF ClosedIsEmpty
<1>11. MoneyConserved'
    <2>1. CASE deal.qty = holding.quantity
        <3>1. Lost' = Lost + holding.book_value - cost
            BY <1>1, <1>2, <1>3, <1>4, <1>5, <1>6, <1>7, <2>1 DEF Lost
        <3>2. Lost \in Int
            BY <1>2 DEF Lost
        <3> QED
            BY <1>2, <1>5, <1>7, <2>1, <3>1, <3>2 DEF BookInv, MoneyConserved
    <2>2. CASE deal.qty < holding.quantity
        <3>1. Lost' = Lost
            BY <1>1, <1>2, <1>3, <1>4, <1>5, <1>6, <1>7, <2>2 DEF Lost
        <3>2. closings' = closings
            BY <1>1, <1>2, <1>7, <2>2
        <3> QED
            BY <3>1, <3>2 DEF BookInv, MoneyConserved
    <2> QED
        BY <1>1, <1>2, <2>1, <2>2
<1> QED
    BY <1>9, <1>10, <1>11 DEF BookInv

LEMMA OversellKeepsBook ==
    ASSUME BookInv, NEW deal \in Deals, Oversell(deal)
    PROVE  BookInv'
    BY DealsAssumption
    DEF BookInv, TypeOK, ClosedIsEmpty, MoneyConserved, Lost, Oversell, Meets

LEMMA BookInvHolds == Spec => []BookInv
<1>1. BookInv /\ [Next]_vars => BookInv'
    <2> SUFFICES ASSUME BookInv, [Next]_vars PROVE BookInv'
        OBVIOUS
    <2>1. ASSUME NEW deal \in Deals, Buy(deal) PROVE BookInv'
        BY <2>1, BuyKeepsBook
    <2>2. ASSUME NEW deal \in Deals, Sell(deal) PROVE BookInv'
        BY <2>2, SellKeepsBook
    <2>3. ASSUME NEW deal \in Deals, Oversell(deal) PROVE BookInv'
        BY <2>3, OversellKeepsBook
    <2>4. CASE UNCHANGED vars
        BY <2>4 DEF BookInv, TypeOK, ClosedIsEmpty, MoneyConserved, Lost, vars
    <2> QED
        BY <2>1, <2>2, <2>3, <2>4 DEF Next
<1> QED
    BY <1>1, BookInvInit, PTL DEF Spec

\* build_holding never produces a negative quantity or book value.
THEOREM FoldTypeCorrect == Spec => []TypeOK
    BY BookInvHolds, PTL DEF BookInv

\* A position that is sold off has no book value left.
THEOREM SoldOffIsEmpty == Spec => []ClosedIsEmpty
    BY BookInvHolds, PTL DEF BookInv

\* What was paid is in the book or in the realized profit, up to one unit per
\* time the position was sold off.
THEOREM NoMoneyLost == Spec => []MoneyConserved
    BY BookInvHolds, PTL DEF BookInv
-----------------------------------------------------------------------------
(* The fold decides what the write path is modelled with.  The rows of a   *)
(* history are numbered in their order, so one more trade is the latest of *)
(* all rows: it adds its quantity to one of the two totals, and no earlier *)
(* sale is judged by it.                                                   *)

Bring(S) == \A t \in S : t.qty \in Nat

\* Total adds up a field, SumOf the values of a function.
LEMMA QuantitiesAdd ==
    ASSUME NEW S, IsFiniteSet(S), Bring(S)
    PROVE  MapThenSumSet(LAMBDA t : t.qty, S) = SumOf([t \in S |-> t.qty], S)
<1> DEFINE First(s) == CHOOSE x \in s : TRUE
           Step(f) == [s \in SUBSET S |->
                          IF s = {} THEN 0 ELSE First(s).qty + f[s \ {First(s)}]]
           iter == CHOOSE f : f = Step(f)
           c == AnyFirst(S)
           w == [t \in S |-> t.qty]
<1>1. MapThenSumSet(LAMBDA t : t.qty, S) = iter[S]
    BY DEF MapThenSumSet, MapThenFoldSet
<1>2. \A x \in S : w[x] \in Int
    BY DEF Bring
<1>3. PICK f \in [SUBSET S -> Int] : SumsUp(f, w, c, S)
    BY <1>2, SumExists, AnyFirstChooses
<1>4. \A s \in SUBSET S : s # {} => c[s] = First(s) /\ First(s) \in s /\ w[First(s)] = First(s).qty
    BY DEF AnyFirst
<1>5. f = Step(f)
    BY <1>3, <1>4 DEF SumsUp
<1>6. iter = Step(iter)
    BY <1>5, Zenon
<1> HIDE DEF iter
<1>7. SumsUp(iter, w, c, S)
    <2>1. \A s \in SUBSET S : iter[s] = IF s = {} THEN 0
                                         ELSE First(s).qty + iter[s \ {First(s)}]
        BY <1>6
    <2> HIDE DEF First, c, w
    <2> QED
        BY <1>4, <2>1 DEF SumsUp
<1>8. SumOf(w, S) = iter[S]
    <2> HIDE DEF w
    <2> QED
        BY <1>2, <1>7, SumOfWeights
<1> QED
    BY <1>1, <1>8

LEMMA TotalOfNone ==
    ASSUME NEW S, NEW kind, \A t \in S : t.kind # kind
    PROVE  Total(S, kind) = 0
<1> DEFINE none == {t \in S : t.kind = kind}
<1>1. none = {} /\ IsFiniteSet(none) /\ Bring(none)
    BY FS_EmptySet DEF Bring
<1>2. Total(S, kind) = SumOf([t \in none |-> t.qty], none)
    BY <1>1, QuantitiesAdd DEF Total
<1>3. ASSUME NEW w PROVE SumOf(w, {}) = 0
    BY FS_EmptySet, SumAdds
<1> QED
    BY <1>1, <1>2, <1>3

LEMMA TotalOfOneMore ==
    ASSUME NEW S, IsFiniteSet(S), Bring(S), NEW u, u \notin S, u.qty \in Nat, NEW kind
    PROVE  /\ Total(S, kind) \in Int
           /\ Total(S \cup {u}, kind) = Total(S, kind) + (IF u.kind = kind THEN u.qty ELSE 0)
<1> DEFINE A == {t \in S : t.kind = kind}
           B == {t \in S \cup {u} : t.kind = kind}
           v == [t \in A |-> t.qty]
           w == [t \in B |-> t.qty]
<1>1. IsFiniteSet(A) /\ Bring(A) /\ A \subseteq S
    BY FS_Subset DEF Bring
<1>2. Total(S, kind) = SumOf(v, A) /\ SumOf(v, A) \in Int
    <2>1. \A x \in A : v[x] \in Int
        BY <1>1 DEF Bring
    <2>2. SumOf(v, A) \in Int
        <3> HIDE DEF v, A
        <3> QED  BY <1>1, <2>1, SumAdds
    <2>3. Total(S, kind) = SumOf(v, A)
        BY <1>1, QuantitiesAdd DEF Total
    <2> QED
        BY <2>2, <2>3
<1>3. IsFiniteSet(B) /\ Bring(B)
    <2>1. IsFiniteSet(S \cup {u}) /\ B \subseteq S \cup {u}
        BY FS_AddElement
    <2> QED
        BY <2>1, FS_Subset DEF Bring
<1>4. Total(S \cup {u}, kind) = SumOf(w, B)
    BY <1>3, QuantitiesAdd DEF Total
<1>5. \A x \in A : v[x] \in Int /\ v[x] = w[x] /\ w[x] \in Int
    BY <1>1 DEF Bring
<1>6. SumOf(v, A) = SumOf(w, A)
    <2> HIDE DEF v, w, A
    <2> QED
        BY <1>1, <1>5, SumOfSame
<1>7. CASE u.kind = kind
    <2>1. B = A \cup {u} /\ w[u] = u.qty /\ u \notin A
        BY <1>7
    <2>2. \A x \in A \cup {u} : w[x] \in Int
        <3>1. w[u] \in Int
            BY <2>1
        <3> HIDE DEF w, A
        <3> QED
            BY <1>5, <3>1
    <2>3. SumOf(w, A \cup {u}) = SumOf(w, A) + w[u]
        <3> HIDE DEF w, A
        <3> QED
            BY <1>1, <2>1, <2>2, SumOfOneMore
    <2> HIDE DEF v, w, A, B
    <2> QED
        BY <1>2, <1>4, <1>6, <1>7, <2>1, <2>3
<1>8. CASE u.kind # kind
    <2>1. B = A
        BY <1>8
    <2> HIDE DEF v, w, A, B
    <2> QED
        BY <1>2, <1>4, <1>6, <1>8, <2>1
<1> QED
    BY <1>7, <1>8

RowOf(h, i) ==
    Stamp([pos |-> 1, kind |-> h[i].kind, qty |-> h[i].qty,
           price |-> h[i].price, day |-> 1, ext |-> NoExt], i, 1, 1)

\* What is held while nothing was refused.
HeldIsNet == ~failed => holding.quantity = Total(AsRows, "buy") - Total(AsRows, "sell")

FoldInv == BookInv /\ HeldIsNet /\ FoldDecides

LEMMA RowsFacts ==
    ASSUME BookInv
    PROVE  /\ AsRows = {RowOf(history, i) : i \in 1 .. Len(history)}
           /\ IsFiniteSet(AsRows) /\ Bring(AsRows)
           /\ Len(history) \in Nat
           /\ \A t \in AsRows : /\ t.at \in 1 .. Len(history) /\ t.day = 1
                                /\ t.kind \in {"buy", "sell"} /\ t.qty \in Nat
<1>1. history \in Seq(Deal) /\ Len(history) \in Nat /\ DOMAIN history = 1 .. Len(history)
    BY DEF BookInv, TypeOK
<1>2. AsRows = {RowOf(history, i) : i \in 1 .. Len(history)}
    BY <1>1 DEF AsRows, RowOf
<1>3. IsFiniteSet(AsRows)
    <2> DEFINE f == [i \in 1 .. Len(history) |-> RowOf(history, i)]
    <2>1. IsFiniteSet(1 .. Len(history))
        BY <1>1, FS_Interval
    <2>2. f \in Surjection(1 .. Len(history), AsRows)
        BY <1>2 DEF Surjection
    <2> HIDE DEF f
    <2> QED
        BY <2>1, <2>2, FS_Surjection
<1>4. ASSUME NEW t \in AsRows
      PROVE  /\ t.at \in 1 .. Len(history) /\ t.day = 1
             /\ t.kind \in {"buy", "sell"} /\ t.qty \in Nat
    <2>1. PICK i \in 1 .. Len(history) : t = RowOf(history, i)
        BY <1>2
    <2>2. history[i] \in Deal
        BY <1>1, <2>1
    <2>3. t.at = i /\ t.day = 1 /\ t.kind = history[i].kind /\ t.qty = history[i].qty
        BY <2>1 DEF RowOf, Stamp
    <2> QED
        BY <2>2, <2>3 DEF Deal
<1> QED
    BY <1>1, <1>2, <1>3, <1>4 DEF Bring

\* One more trade is one more row, the latest.
LEMMA OneMoreRow ==
    ASSUME BookInv, NEW deal \in Deals, Meets(deal)
    PROVE  \E u : /\ AsRows' = AsRows \cup {u} /\ u \notin AsRows
                  /\ u.kind = deal.kind /\ u.qty = deal.qty /\ u.qty \in Nat \ {0}
                  /\ u.kind \in {"buy", "sell"}
                  /\ ~Before(u, u) /\ \A t \in AsRows : Before(t, u) /\ ~Before(u, t)
<1> DEFINE n == Len(history)
           u == RowOf(history', n + 1)
<1>1. history \in Seq(Deal) /\ n \in Nat /\ history' = Append(history, deal) /\ deal \in Deal
    BY DealsAssumption, RowsFacts DEF BookInv, TypeOK, Meets
<1>2. /\ Len(history') = n + 1 /\ history'[n + 1] = deal
      /\ \A i \in 1 .. n : history'[i] = history[i]
      /\ DOMAIN history' = 1 .. n + 1
    BY <1>1
<1>3. AsRows' = {RowOf(history', i) : i \in 1 .. n + 1}
    BY <1>1, <1>2 DEF AsRows, RowOf
<1>4. \A i \in 1 .. n : RowOf(history', i) = RowOf(history, i)
    BY <1>2 DEF RowOf
<1>5. AsRows = {RowOf(history, i) : i \in 1 .. n}
    BY RowsFacts
<1>6. AsRows' = AsRows \cup {u}
    <2> HIDE DEF u
    <2>1. 1 .. n + 1 = (1 .. n) \cup {n + 1}
        BY <1>1
    <2>2. AsRows' = {RowOf(history', i) : i \in 1 .. n} \cup {RowOf(history', n + 1)}
        BY <1>3, <2>1
    <2> QED
        BY <1>4, <1>5, <2>2 DEF u
<1>7. u.at = n + 1 /\ u.day = 1 /\ u.kind = deal.kind /\ u.qty = deal.qty
    BY <1>2 DEF RowOf, Stamp
<1> HIDE DEF u
<1>8. ASSUME NEW t \in AsRows PROVE Before(t, u) /\ ~Before(u, t) /\ t # u
    BY <1>1, <1>7, RowsFacts DEF Before
<1>9. ~Before(u, u)
    <2>1. ~(u.tie < u.tie)
        <3>1. u.tie = 1
            BY DEF u, RowOf, Stamp
        <3> QED  BY <3>1
    <2> QED
        BY <1>1, <1>7, <2>1 DEF Before
<1>10. u.qty \in Nat \ {0} /\ u.kind \in {"buy", "sell"}
    BY <1>1, <1>7 DEF Deal
<1> QED
    BY <1>6, <1>7, <1>8, <1>9, <1>10

\* What the latest row means for the totals and for the sales.
LEMMA LatestRow ==
    ASSUME NEW S, IsFiniteSet(S), Bring(S), NEW u, u \notin S, u.qty \in Nat,
           ~Before(u, u), \A t \in S : Before(t, u) /\ ~Before(u, t)
    PROVE  Fits(S \cup {u}) <=>
               /\ Fits(S)
               /\ u.kind = "sell" => Total(S, "sell") + u.qty <= Total(S, "buy")
<1> DEFINE E(t, R) == {x \in R : Before(x, t)}
<1>1. E(u, S \cup {u}) = S
    OBVIOUS
<1>2. \A t \in S : E(t, S \cup {u}) = E(t, S)
    OBVIOUS
<1> HIDE DEF E
<1>3. Fits(S) <=> \A t \in S : t.kind = "sell" =>
                     Total(E(t, S), "sell") + t.qty <= Total(E(t, S), "buy")
    BY DEF Fits, E
<1>4. Fits(S \cup {u}) <=> \A t \in S \cup {u} : t.kind = "sell" =>
          Total(E(t, S \cup {u}), "sell") + t.qty <= Total(E(t, S \cup {u}), "buy")
    BY DEF Fits, E
<1> QED
    BY <1>1, <1>2, <1>3, <1>4

LEMMA InitFolds == Init => FoldInv
<1> SUFFICES ASSUME Init PROVE FoldInv
    OBVIOUS
<1>1. BookInv
    BY BookInvInit
<1>2. AsRows = {}
    BY DEF AsRows, Init
<1>3. Total({}, "buy") = 0 /\ Total({}, "sell") = 0
    BY TotalOfNone
<1>4. HeldIsNet
    BY <1>2, <1>3 DEF HeldIsNet, Init, Nothing
<1>5. FoldDecides
    BY <1>2 DEF FoldDecides, Fits, Init
<1> QED
    BY <1>1, <1>4, <1>5 DEF FoldInv

LEMMA StepFolds ==
    ASSUME FoldInv, NEW deal \in Deals, Meets(deal), BookInv',
           \/ deal.kind = "buy" /\ ~failed' /\ holding'.quantity = holding.quantity + deal.qty
           \/ deal.kind = "sell" /\ ~failed' /\ deal.qty <= holding.quantity
              /\ holding'.quantity = holding.quantity - deal.qty
           \/ deal.kind = "sell" /\ failed' = TRUE /\ deal.qty > holding.quantity
    PROVE  FoldInv'
<1> DEFINE b == Total(AsRows, "buy")
           s == Total(AsRows, "sell")
<1>1. BookInv /\ ~failed /\ holding.quantity \in Nat
    BY DEF FoldInv, BookInv, TypeOK, Holding, Meets
<1>2. IsFiniteSet(AsRows) /\ Bring(AsRows)
    BY <1>1, RowsFacts
<1>3. PICK u : /\ AsRows' = AsRows \cup {u} /\ u \notin AsRows
               /\ u.kind = deal.kind /\ u.qty = deal.qty /\ u.qty \in Nat \ {0}
               /\ u.kind \in {"buy", "sell"}
               /\ ~Before(u, u) /\ \A t \in AsRows : Before(t, u) /\ ~Before(u, t)
    BY <1>1, OneMoreRow
<1>4. /\ b \in Int /\ s \in Int
      /\ Total(AsRows', "buy") = b + (IF deal.kind = "buy" THEN deal.qty ELSE 0)
      /\ Total(AsRows', "sell") = s + (IF deal.kind = "sell" THEN deal.qty ELSE 0)
    <2>0. u \notin AsRows /\ u.qty \in Nat
        BY <1>3
    <2>1. ASSUME NEW kind
          PROVE  /\ Total(AsRows, kind) \in Int
                 /\ Total(AsRows \cup {u}, kind)
                        = Total(AsRows, kind) + (IF u.kind = kind THEN u.qty ELSE 0)
        <3> HIDE DEF b, s
        <3> QED
            BY <1>2, <2>0, TotalOfOneMore
    <2>2. /\ b \in Int /\ s \in Int
          /\ Total(AsRows', "buy") = b + (IF u.kind = "buy" THEN u.qty ELSE 0)
          /\ Total(AsRows', "sell") = s + (IF u.kind = "sell" THEN u.qty ELSE 0)
        BY <1>3, <2>1
    <2> HIDE DEF b, s
    <2> QED
        BY <1>3, <2>2
<1>5. Fits(AsRows') <=> (Fits(AsRows) /\ (deal.kind = "sell" => s + deal.qty <= b))
    BY <1>2, <1>3, LatestRow
<1>6. Fits(AsRows) /\ holding.quantity = b - s
    BY <1>1 DEF FoldInv, HeldIsNet, FoldDecides
<1>7. deal.qty \in Nat /\ deal.kind \in {"buy", "sell"}
    BY <1>3
<1>8. HeldIsNet'
    <2>1. /\ Total(AsRows', "buy") = Total(AsRows, "buy")'
          /\ Total(AsRows', "sell") = Total(AsRows, "sell")'
        OBVIOUS
    <2> HIDE DEF b, s
    <2> QED
        BY <1>1, <1>4, <1>6, <1>7, <2>1 DEF HeldIsNet
<1>9. FoldDecides'
    <2>1. Fits(AsRows') = Fits(AsRows)'
        OBVIOUS
    <2> HIDE DEF b, s
    <2>2. Fits(AsRows') <=> ~failed'
        BY <1>1, <1>4, <1>5, <1>6, <1>7
    <2> QED
        BY <1>1, <2>1, <2>2 DEF FoldDecides
<1> QED
    BY <1>8, <1>9 DEF FoldInv

\* build_holding refuses a position's trades exactly when some sale exceeds what
\* the trades before it leave: what the model of the write path takes for granted.
THEOREM FoldIsFits == Spec => []FoldDecides
<1>1. ASSUME FoldInv, [Next]_vars PROVE FoldInv'
    <2>1. BookInv
        BY <1>1 DEF FoldInv
    <2>2. ASSUME NEW deal \in Deals, Buy(deal) PROVE FoldInv'
        <3>1. BookInv'
            BY <2>1, <2>2, BuyKeepsBook
        <3>2. Meets(deal) /\ deal.kind = "buy" /\ failed' = failed
              /\ holding'.quantity = holding.quantity + deal.qty
            BY <2>2 DEF Buy, Bought
        <3> QED
            BY <1>1, <3>1, <3>2, StepFolds DEF Meets
    <2>3. ASSUME NEW deal \in Deals, Sell(deal) PROVE FoldInv'
        <3>1. BookInv'
            BY <2>1, <2>3, SellKeepsBook
        <3>2. Meets(deal) /\ deal.kind = "sell" /\ deal.qty <= holding.quantity /\ failed' = failed
              /\ holding'.quantity = holding.quantity - deal.qty
            BY <2>3 DEF Sell, Sold
        <3> QED
            BY <1>1, <3>1, <3>2, StepFolds DEF Meets
    <2>4. ASSUME NEW deal \in Deals, Oversell(deal) PROVE FoldInv'
        <3>1. BookInv'
            BY <2>1, <2>4, OversellKeepsBook
        <3>2. Meets(deal) /\ deal.kind = "sell" /\ deal.qty > holding.quantity /\ failed' = TRUE
            BY <2>4 DEF Oversell
        <3> QED
            BY <1>1, <3>1, <3>2, StepFolds
    <2>5. CASE UNCHANGED vars
        BY <1>1, <2>5 DEF FoldInv, BookInv, TypeOK, ClosedIsEmpty, MoneyConserved, Lost, vars,
                          HeldIsNet, FoldDecides, AsRows
    <2> QED
        BY <1>1, <2>2, <2>3, <2>4, <2>5 DEF Next
<1>2. FoldInv => FoldDecides
    BY DEF FoldInv
<1> QED
    BY <1>1, <1>2, InitFolds, PTL DEF Spec

-----------------------------------------------------------------------------
(* Allocation.  After n divisions, the units given and the remainders make *)
(* up exactly the units due to the first n slices (Divided).  When all are *)
(* divided, what is left over is a multiple of the total and less than one *)
(* total per slice: so the deficit is fewer than the slices, and every     *)
(* unit of it finds one.                                                   *)

LEMMA Division ==
    ASSUME NEW a \in Nat, NEW b \in Nat \ {0}
    PROVE  /\ a \div b \in Nat /\ a % b \in Nat
           /\ a = (a \div b) * b + (a % b)
           /\ a % b < b
OBVIOUS

LEMMA CancelBelow ==
    ASSUME NEW a \in Int, NEW b \in Int, NEW q \in Nat \ {0}, a * q < b * q
    PROVE  a < b
<1>1. SUFFICES ASSUME b <= a PROVE FALSE
    OBVIOUS
<1>2. b * q <= a * q
    BY <1>1
<1> QED
    BY <1>2

\* s is what the first n numbers of f add up to.
AddsUp(f, n, s) ==
    \E acc \in [0 .. n -> Int] :
        /\ acc[0] = 0
        /\ \A k \in 1 .. n : acc[k] = acc[k - 1] + f[k]
        /\ acc[n] = s

LEMMA AddsUpAppend ==
    ASSUME NEW f \in Seq(Nat), NEW s \in Int, AddsUp(f, Len(f), s), NEW x \in Nat
    PROVE  AddsUp(Append(f, x), Len(f) + 1, s + x)
<1> DEFINE n == Len(f)
           g == Append(f, x)
<1>1. n \in Nat /\ g[n + 1] = x /\ \A k \in 1 .. n : g[k] = f[k]
    OBVIOUS
<1>2. PICK acc \in [0 .. n -> Int] :
        /\ acc[0] = 0
        /\ \A k \in 1 .. n : acc[k] = acc[k - 1] + f[k]
        /\ acc[n] = s
    BY DEF AddsUp
<1> DEFINE more == [k \in 0 .. n + 1 |-> IF k = n + 1 THEN s + x ELSE acc[k]]
<1>3. more \in [0 .. n + 1 -> Int]
    BY <1>1, <1>2
<1>4. more[0] = 0 /\ more[n + 1] = s + x
    BY <1>1, <1>2
<1>5. ASSUME NEW k \in 1 .. n + 1 PROVE more[k] = more[k - 1] + g[k]
    BY <1>1, <1>2
<1> QED
    BY <1>3, <1>4, <1>5 DEF AddsUp

LEMMA AddsUpBump ==
    ASSUME NEW f \in Seq(Nat), NEW s \in Int, AddsUp(f, Len(f), s), NEW p \in 1 .. Len(f)
    PROVE  AddsUp([f EXCEPT ![p] = @ + 1], Len(f), s + 1)
<1> DEFINE n == Len(f)
           g == [f EXCEPT ![p] = @ + 1]
<1>1. n \in Nat /\ \A k \in 1 .. n : f[k] \in Nat /\ g[k] = IF k = p THEN f[k] + 1 ELSE f[k]
    OBVIOUS
<1>2. PICK acc \in [0 .. n -> Int] :
        /\ acc[0] = 0
        /\ \A k \in 1 .. n : acc[k] = acc[k - 1] + f[k]
        /\ acc[n] = s
    BY DEF AddsUp
<1> DEFINE more == [k \in 0 .. n |-> IF k >= p THEN acc[k] + 1 ELSE acc[k]]
<1>3. more \in [0 .. n -> Int]
    BY <1>1, <1>2
<1>4. more[0] = 0 /\ more[n] = s + 1
    BY <1>1, <1>2
<1>5. ASSUME NEW k \in 1 .. n PROVE more[k] = more[k - 1] + g[k]
    <2>1. acc[k] = acc[k - 1] + f[k] /\ acc[k] \in Int /\ acc[k - 1] \in Int /\ f[k] \in Nat
        <3>1. n \in Nat /\ f[k] \in Nat
            BY <1>1
        <3>2. k - 1 \in 0 .. n /\ k \in 0 .. n
            BY <3>1
        <3> HIDE DEF more, g, n
        <3> QED
            BY <1>2, <3>1, <3>2
    <2>2. more[k] = IF k >= p THEN acc[k] + 1 ELSE acc[k]
        OBVIOUS
    <2>3. more[k - 1] = IF k - 1 >= p THEN acc[k - 1] + 1 ELSE acc[k - 1]
        BY <1>1
    <2>4. g[k] = IF k = p THEN f[k] + 1 ELSE f[k]
        BY <1>1
    <2>5. p \in Int /\ k \in Int
        BY <1>1
    <2> HIDE DEF more, g, n
    <2>6. CASE k < p
        BY ONLY <2>1, <2>2, <2>3, <2>4, <2>5, <2>6
    <2>7. CASE k = p
        BY ONLY <2>1, <2>2, <2>3, <2>4, <2>5, <2>7
    <2>8. CASE k > p
        <3>1. k - 1 >= p
            BY ONLY <2>5, <2>8
        <3> QED
            BY ONLY <2>1, <2>2, <2>3, <2>4, <2>5, <2>8, <3>1
    <2> QED
        BY ONLY <2>5, <2>6, <2>7, <2>8
<1> QED
    BY <1>3, <1>4, <1>5 DEF AddsUp

-----------------------------------------------------------------------------
\* What the variables are, and how far each loop has come.
RatioTypes ==
    /\ phase \in Phase
    /\ slices \in Seq(Class)
    /\ \A n \in DOMAIN slices : Worth(n) \in Nat \ {0}
    /\ sums \in Seq(Nat) /\ floors \in Seq(Nat)
    /\ given \in Nat /\ deficit \in Nat /\ handed \in 0 .. deficit
    /\ AddsUp(floors, Len(floors), given)

Progress ==
    /\ phase = "sum" => Len(sums) < Len(slices)
    /\ phase \in {"collect", "sum"} => floors = << >> /\ given = 0
    /\ phase = "collect" => slices = << >> /\ sums = << >>
    /\ phase \in {"divide", "rank", "hand"} => slices # << >> /\ Len(sums) = Len(slices)
    /\ phase = "divide" => Len(floors) < Len(slices)
    /\ phase \in {"rank", "hand"} => Len(floors) = Len(slices)
    /\ phase = "done" /\ slices # << >> => Len(floors) = Len(slices)
    /\ phase # "hand" /\ phase # "done" => handed = 0

\* The running total is one.
Summed ==
    \A n \in DOMAIN sums :
        /\ n \in DOMAIN slices
        /\ sums[n] = Worth(n) + (IF n = 1 THEN 0 ELSE sums[n - 1])

\* Of u units due for s, g wholes of t are given and k remainders are left.
Splits(u, s, g, t, k) == \E left \in 0 .. k * (t - 1) : u * s = g * t + left

\* The units given and the remainders, each below the total, make up what is due.
Divided ==
    LET n == Len(floors)
    IN  phase \in {"divide", "rank"} =>
            IF n = 0 THEN given = 0 ELSE Splits(TOTAL_UNITS, sums[n], given, total, n)

\* The deficit is what is missing, and finds a slice for every unit.
Handing ==
    /\ phase = "hand" =>
        /\ given + deficit = TOTAL_UNITS + handed
        /\ deficit < Len(slices)
        /\ ranking \in Bijection(1 .. Len(slices), 1 .. Len(slices))
    /\ RatiosSumTo100

\* The classes that have a point stay the same.
PointsOK == points \in UNION {[K -> Value] : K \in SUBSET Class}

RatioInv == PointsOK /\ RatioTypes /\ Progress /\ Summed /\ Divided /\ Handing

LEMMA ArrangementFacts ==
    ASSUME NEW S, IsFiniteSet(S), NEW s \in Arrangements(S)
    PROVE  /\ s \in Seq(S)
           /\ Len(s) = Cardinality(S) /\ Cardinality(S) \in Nat
           /\ s = << >> <=> S = {}
<1>1. Cardinality(S) \in Nat
    BY FS_CardinalityType
<1>2. s \in [1 .. Cardinality(S) -> S]
    BY DEF Arrangements, Bijection, Injection
<1>3. s \in Seq(S) /\ Len(s) = Cardinality(S)
    BY <1>1, <1>2
<1>4. Cardinality(S) = 0 <=> S = {}
    BY FS_EmptySet
<1> QED
    BY <1>1, <1>3, <1>4

LEMMA InitEstablishes == AllocationInit => RatioInv
<1> SUFFICES ASSUME AllocationInit PROVE RatioInv
    OBVIOUS
<1>1. AddsUp(floors, Len(floors), given)
    <2> DEFINE acc == [k \in 0 .. 0 |-> 0]
    <2>1. /\ acc \in [0 .. 0 -> Int] /\ acc[0] = 0
          /\ \A k \in 1 .. 0 : acc[k] = acc[k - 1] + floors[k]
        OBVIOUS
    <2>2. Len(floors) = 0 /\ given = 0
        BY DEF AllocationInit
    <2> HIDE DEF acc
    <2> QED
        BY <2>1, <2>2 DEF AddsUp
<1> QED
    BY <1>1 DEF AllocationInit, RatioInv, PointsOK, RatioTypes, Progress, Summed, Divided, Handing,
       RatiosSumTo100, Answered, Phase

LEMMA PointsFinite ==
    ASSUME PointsOK
    PROVE  IsFiniteSet(Positive) /\ Positive \subseteq Class
           /\ \A c \in Positive : points[c] \in Nat \ {0}
<1>1. PICK K \in SUBSET Class : points \in [K -> Value]
    BY DEF PointsOK
<1>2. Positive \subseteq K
    BY <1>1 DEF Positive
<1>3. IsFiniteSet(Positive)
    BY <1>2, ClassAssumption, FS_Subset
<1>4. ASSUME NEW c \in Positive PROVE points[c] \in Nat \ {0}
    <2>1. c \in K /\ points[c] > 0
        BY <1>1 DEF Positive
    <2>2. points[c] \in Value
        BY <2>1, <1>1
    <2>3. points[c] \in Nat
        BY <2>2, ValueAssumption
    <2> QED
        BY <2>1, <2>3
<1> QED
    BY <1>2, <1>3, <1>4

LEMMA CollectKeeps ==
    ASSUME RatioInv, Collect
    PROVE  RatioInv'
<1>1. PICK s \in Arrangements(Positive) : slices' = s
    BY DEF Collect
<1>2. s \in Seq(Positive) /\ (s = << >> <=> Positive = {})
    BY <1>1, PointsFinite, ArrangementFacts DEF RatioInv
<1>3. UNCHANGED <<points, sums, floors, given, deficit, handed>>
    BY DEF Collect
<1>4. phase' = (IF Positive = {} THEN "done" ELSE "sum") /\ phase = "collect"
    BY DEF Collect
<1>5. sums = << >> /\ floors = << >> /\ given = 0 /\ handed = 0
    BY <1>4 DEF RatioInv, Progress
<1>6. slices' \in Seq(Class) /\ \A n \in DOMAIN slices' : Worth(n)' \in Nat \ {0}
    BY <1>1, <1>2, <1>3, PointsFinite DEF Worth, RatioInv
<1>7. RatioTypes'
    BY <1>3, <1>4, <1>6 DEF RatioInv, RatioTypes, Phase
<1>8. Progress'
    BY <1>1, <1>2, <1>3, <1>4, <1>5 DEF Progress
<1>9. Summed' /\ Divided'
    BY <1>3, <1>4, <1>5 DEF Summed, Divided
<1>10. Handing'
    BY <1>1, <1>2, <1>4 DEF Handing, RatiosSumTo100, Answered
<1> QED
    BY <1>3, <1>7, <1>8, <1>9, <1>10 DEF RatioInv, PointsOK

LEMMA SumKeeps ==
    ASSUME RatioInv, Sum
    PROVE  RatioInv'
<1> DEFINE n == Len(sums) + 1
           more == Worth(n) + (IF n = 1 THEN 0 ELSE sums[n - 1])
<1>1. /\ phase = "sum" /\ sums' = Append(sums, more)
      /\ phase' = IF n = Len(slices) THEN "divide" ELSE "sum"
      /\ UNCHANGED <<points, slices, floors, given, deficit, handed>>
    BY DEF Sum
<1>2. sums \in Seq(Nat) /\ slices \in Seq(Class) /\ Len(sums) < Len(slices)
    BY <1>1 DEF RatioInv, RatioTypes, Progress
<1>3. floors = << >> /\ given = 0 /\ handed = 0
    BY <1>1 DEF RatioInv, Progress
<1>4. n \in DOMAIN slices /\ Worth(n) \in Nat /\ slices # << >>
    BY <1>2 DEF RatioInv, RatioTypes
<1>5. more \in Nat
    BY <1>2, <1>4
<1>6. /\ sums' \in Seq(Nat) /\ Len(sums') = n /\ sums'[n] = more
      /\ \A k \in DOMAIN sums : sums'[k] = sums[k]
    <2> HIDE DEF more
    <2> QED  BY <1>1, <1>2, <1>5
<1>7. \A k \in DOMAIN slices : Worth(k)' = Worth(k)
    BY <1>1 DEF Worth
<1>8. RatioTypes'
    BY <1>1, <1>6, <1>7 DEF RatioInv, RatioTypes, Phase
<1>9. Progress'
    BY <1>1, <1>2, <1>3, <1>4, <1>6 DEF Progress
<1>10. Summed'
    <2> SUFFICES ASSUME NEW k \in DOMAIN sums'
                 PROVE  /\ k \in DOMAIN slices
                        /\ sums'[k] = Worth(k) + (IF k = 1 THEN 0 ELSE sums'[k - 1])
        BY <1>1, <1>7 DEF Summed
    <2>1. CASE k = n
        <3>1. n # 1 => n - 1 \in DOMAIN sums
            BY <1>2
        <3> QED
            BY <2>1, <3>1, <1>4, <1>6
    <2>2. CASE k # n
        <3>1. k \in DOMAIN sums /\ (k # 1 => k - 1 \in DOMAIN sums)
            BY <2>2, <1>2, <1>6
        <3> QED
            BY <3>1, <1>6 DEF RatioInv, Summed
    <2> QED
        BY <2>1, <2>2
<1>11. Divided'
    BY <1>1, <1>3 DEF Divided
<1>12. Handing'
    BY <1>1 DEF Handing, RatiosSumTo100, Answered
<1> QED
    BY <1>1, <1>8, <1>9, <1>10, <1>11, <1>12 DEF RatioInv, PointsOK

\* One division more: what k slices have left over, and the remainder of the next.
LEMMA OneMore ==
    ASSUME NEW u \in Nat, NEW t \in Nat \ {0}, NEW w \in Nat, NEW k \in Nat,
           NEW g \in Nat, NEW s \in Nat, Splits(u, s, g, t, k),
           NEW q, q = (w * u) \div t
    PROVE  Splits(u, w + s, g + q, t, k + 1)
<1> DEFINE r == (w * u) % t
<1>1. q \in Nat /\ r \in Nat /\ w * u = q * t + r /\ r <= t - 1
    BY Division
<1>2. u * (w + s) = w * u + u * s
    OBVIOUS
<1>3. PICK left \in 0 .. k * (t - 1) : u * s = g * t + left
    BY DEF Splits
<1> HIDE DEF r
<1>4. (g + q) * t = g * t + q * t
    BY <1>1
<1>5. (k + 1) * (t - 1) = k * (t - 1) + (t - 1)
    OBVIOUS
<1>6. k * (t - 1) \in Nat /\ g * t \in Nat /\ q * t \in Nat /\ w * u \in Nat /\ u * s \in Nat
    BY <1>1
<1>7. left + r \in 0 .. (k + 1) * (t - 1)
    BY <1>1, <1>5, <1>6
<1>8. u * (w + s) = (g + q) * t + (left + r)
    BY <1>1, <1>2, <1>3, <1>4, <1>6
<1> QED
    BY <1>7, <1>8 DEF Splits

LEMMA TotalPositive ==
    ASSUME RatioInv, slices # << >>, Len(sums) = Len(slices)
    PROVE  total \in Nat \ {0}
<1>1. Len(slices) \in DOMAIN sums /\ Len(slices) \in DOMAIN slices
    BY DEF RatioInv, RatioTypes
<1>2. Worth(Len(slices)) \in Nat \ {0}
    BY <1>1 DEF RatioInv, RatioTypes
<1>3. total = Worth(Len(slices)) + (IF Len(slices) = 1 THEN 0 ELSE sums[Len(slices) - 1])
    BY <1>1 DEF RatioInv, Summed, total
<1>4. /\ \A k \in DOMAIN sums : sums[k] \in Nat
      /\ Len(slices) # 1 => Len(slices) - 1 \in DOMAIN sums
    BY <1>1 DEF RatioInv, RatioTypes
<1> QED
    BY <1>2, <1>3, <1>4

LEMMA DivideKeeps ==
    ASSUME RatioInv, Divide
    PROVE  RatioInv'
<1> DEFINE n == Len(floors) + 1
           q == (Worth(n) * TOTAL_UNITS) \div total
<1>1. /\ phase = "divide" /\ floors' = Append(floors, q) /\ given' = given + q
      /\ phase' = IF n = Len(slices) THEN "rank" ELSE "divide"
      /\ UNCHANGED <<points, slices, sums, ranking, deficit, handed>>
    BY DEF Divide
<1>2. /\ floors \in Seq(Nat) /\ sums \in Seq(Nat) /\ slices \in Seq(Class)
      /\ Len(floors) < Len(slices) /\ Len(sums) = Len(slices) /\ given \in Nat
      /\ handed = 0
    BY <1>1 DEF RatioInv, RatioTypes, Progress
<1>3. n \in DOMAIN slices /\ n \in DOMAIN sums /\ Worth(n) \in Nat \ {0}
    BY <1>2 DEF RatioInv, RatioTypes
<1>4. /\ \A k \in DOMAIN sums : sums[k] \in Nat
      /\ sums[n] = Worth(n) + (IF n = 1 THEN 0 ELSE sums[n - 1])
    BY <1>2, <1>3 DEF RatioInv, Summed
<1>5. total \in Nat \ {0}
    BY <1>2, <1>3, TotalPositive
<1>6. q \in Nat
    <2>1. Worth(n) * TOTAL_UNITS \in Nat
        BY <1>3, UnitsAssumption
    <2> QED
        BY <2>1, <1>5, Division
<1>7. /\ floors' \in Seq(Nat) /\ Len(floors') = n /\ given' \in Nat
    <2> HIDE DEF q
    <2> QED  BY <1>1, <1>2, <1>6
<1>8. AddsUp(floors', Len(floors'), given')
    <2>1. AddsUp(Append(floors, q), Len(floors) + 1, given + q)
        BY <1>2, <1>6, AddsUpAppend DEF RatioInv, RatioTypes
    <2> QED
        BY <2>1, <1>1, <1>7
<1>9. RatioTypes'
    BY <1>1, <1>2, <1>7, <1>8 DEF RatioInv, RatioTypes, Phase, Worth
<1>10. Progress'
    BY <1>1, <1>2, <1>3, <1>7 DEF Progress, RatioInv
<1>11. Summed'
    BY <1>1 DEF RatioInv, Summed, Worth
<1>12. Divided'
    <2>1. SUFFICES Splits(TOTAL_UNITS, sums[n], given + q, total, n)
        <3>1. total' = total
            BY <1>1 DEF total
        <3> QED
            BY <3>1, <1>1, <1>2, <1>7 DEF Divided
    <2>2. Worth(n) \in Nat
        BY <1>3
    <2>3. CASE n = 1
        <3>1. given = 0 /\ sums[n] = Worth(n)
            BY <2>3, <1>1, <1>2, <1>3, <1>4 DEF RatioInv, Divided
        <3>2. Splits(TOTAL_UNITS, 0, 0, total, 0)
            BY <1>5, UnitsAssumption DEF Splits
        <3>3. Splits(TOTAL_UNITS, Worth(n) + 0, 0 + q, total, 0 + 1)
            BY <2>2, <3>2, <1>5, UnitsAssumption, OneMore
        <3>4. Worth(n) + 0 = Worth(n) /\ 0 + q = given + q /\ 0 + 1 = n
            BY <2>2, <2>3, <3>1, <1>6
        <3> QED
            BY <3>1, <3>3, <3>4
    <2>4. CASE n # 1
        <3>1. Len(floors) = n - 1 /\ Len(floors) # 0 /\ n - 1 \in Nat
            BY <2>4, <1>2
        <3>2. Splits(TOTAL_UNITS, sums[n - 1], given, total, n - 1)
            BY <3>1, <1>1 DEF RatioInv, Divided
        <3>3. n - 1 \in DOMAIN sums /\ sums[n] = Worth(n) + sums[n - 1]
            BY <2>4, <1>2, <1>4
        <3>4. sums[n - 1] \in Nat
            BY <3>3, <1>4
        <3>5. Splits(TOTAL_UNITS, Worth(n) + sums[n - 1], given + q, total, (n - 1) + 1)
            <4> HIDE DEF n
            <4> QED
                BY ONLY <2>2, <3>1, <3>2, <3>4, <1>2, <1>5, UnitsAssumption, OneMore
        <3>6. (n - 1) + 1 = n
            BY <3>1
        <3> QED
            BY <3>3, <3>5, <3>6
    <2> QED
        BY <2>3, <2>4
<1>13. Handing'
    BY <1>1 DEF Handing, RatiosSumTo100, Answered
<1> QED
    BY <1>1, <1>9, <1>10, <1>11, <1>12, <1>13 DEF RatioInv, PointsOK

\* Of the units due for the whole total fewer than k are missing.
LEMMA FewMissing ==
    ASSUME NEW u \in Nat, NEW t \in Nat \ {0}, NEW k \in Nat \ {0}, NEW g \in Nat,
           Splits(u, t, g, t, k)
    PROVE  g <= u /\ u - g < k
<1>1. PICK left \in 0 .. k * (t - 1) : u * t = g * t + left
    BY DEF Splits
<1>2. k * (t - 1) = k * t - k /\ k * t \in Nat /\ u * t \in Nat /\ g * t \in Nat
    OBVIOUS
<1>3. g * t < (u + 1) * t
    <2>1. (u + 1) * t = u * t + t
        OBVIOUS
    <2> QED
        BY <2>1, <1>1, <1>2
<1>4. (u - g) * t < k * t
    <2>1. (u - g) * t = u * t - g * t
        OBVIOUS
    <2> QED
        BY <2>1, <1>1, <1>2
<1>5. g < u + 1
    BY <1>3, CancelBelow
<1>6. u - g < k
    BY <1>4, CancelBelow
<1> QED
    BY <1>5, <1>6

LEMMA RankKeeps ==
    ASSUME RatioInv, Rank
    PROVE  RatioInv'
<1> DEFINE N == Len(slices)
<1>1. /\ phase = "rank" /\ phase' = "hand"
      /\ deficit' = IF TOTAL_UNITS > given THEN TOTAL_UNITS - given ELSE 0
      /\ ranking' \in Arrangements(DOMAIN slices)
      /\ UNCHANGED <<points, slices, sums, floors, given, handed>>
    BY DEF Rank
<1>2. /\ N \in Nat \ {0} /\ Len(floors) = N /\ Len(sums) = N /\ DOMAIN slices = 1 .. N
      /\ slices # << >> /\ handed = 0 /\ given \in Nat
    BY <1>1 DEF RatioInv, RatioTypes, Progress
<1>3. total \in Nat \ {0}
    BY <1>2, TotalPositive
<1>4. Splits(TOTAL_UNITS, total, given, total, N)
    BY <1>1, <1>2 DEF RatioInv, Divided, total
<1>5. given <= TOTAL_UNITS /\ TOTAL_UNITS - given < N
    <2> HIDE DEF N
    <2> QED
        BY <1>2, <1>3, <1>4, UnitsAssumption, FewMissing
<1>6. given + deficit' = TOTAL_UNITS /\ deficit' \in Nat /\ deficit' < N
    BY <1>1, <1>2, <1>5, UnitsAssumption
<1>7. ranking' \in Bijection(1 .. N, 1 .. N)
    <2>1. Cardinality(1 .. N) = N
        <3> HIDE DEF N
        <3>1. 1 \in Int /\ N \in Int /\ ~ 1 > N /\ N - 1 + 1 = N
            BY <1>2
        <3>2. Cardinality(1 .. N) = N - 1 + 1
            BY ONLY <3>1, FS_Interval
        <3> QED
            BY <3>1, <3>2
    <2> QED
        BY <2>1, <1>1, <1>2 DEF Arrangements
<1>8. RatioTypes'
    BY <1>1, <1>2, <1>6 DEF RatioInv, RatioTypes, Phase, Worth
<1>9. Progress'
    BY <1>1, <1>2 DEF Progress
<1>10. Summed'
    BY <1>1 DEF RatioInv, Summed, Worth
<1>11. Divided'
    BY <1>1 DEF Divided
<1>12. Handing'
    BY <1>1, <1>2, <1>6, <1>7 DEF Handing, RatiosSumTo100, Answered
<1> QED
    BY <1>1, <1>8, <1>9, <1>10, <1>11, <1>12 DEF RatioInv, PointsOK

LEMMA HandKeeps ==
    ASSUME RatioInv, Hand
    PROVE  RatioInv'
<1> DEFINE N == Len(slices)
           p == ranking[handed + 1]
<1>1. /\ phase = "hand" /\ phase' = "hand" /\ handed < deficit
      /\ floors' = [floors EXCEPT ![p] = @ + 1] /\ given' = given + 1 /\ handed' = handed + 1
      /\ UNCHANGED <<points, slices, sums, ranking, deficit>>
    BY DEF Hand
<1>2. /\ N \in Nat \ {0} /\ Len(floors) = N /\ Len(sums) = N /\ slices # << >>
      /\ floors \in Seq(Nat) /\ given \in Nat /\ deficit \in Nat /\ handed \in 0 .. deficit
      /\ given + deficit = TOTAL_UNITS + handed /\ deficit < N
      /\ ranking \in Bijection(1 .. N, 1 .. N)
    BY <1>1 DEF RatioInv, RatioTypes, Progress, Handing
<1>3. handed + 1 \in 1 .. N /\ handed + 1 \in 0 .. deficit
    BY <1>1, <1>2
<1>4. p \in 1 .. N
    <2>1. ranking \in [1 .. N -> 1 .. N]
        BY <1>2 DEF Bijection, Injection
    <2> HIDE DEF N
    <2> QED
        BY <2>1, <1>3
<1>5. floors' \in Seq(Nat) /\ Len(floors') = N
    <2> HIDE DEF p
    <2> QED
        BY <1>1, <1>2, <1>4
<1>6. AddsUp(floors', Len(floors'), given')
    <2> HIDE DEF p
    <2>1. AddsUp([floors EXCEPT ![p] = @ + 1], Len(floors), given + 1)
        BY <1>2, <1>4, AddsUpBump DEF RatioInv, RatioTypes
    <2> QED
        BY <2>1, <1>1, <1>2, <1>5
<1>7. RatioTypes'
    BY <1>1, <1>2, <1>3, <1>5, <1>6 DEF RatioInv, RatioTypes, Phase, Worth
<1>8. Progress'
    BY <1>1, <1>2, <1>5 DEF Progress
<1>9. Summed'
    BY <1>1 DEF RatioInv, Summed, Worth
<1>10. Divided'
    BY <1>1 DEF Divided
<1>11. Handing'
    BY <1>1, <1>2, UnitsAssumption DEF Handing, RatiosSumTo100, Answered
<1> QED
    BY <1>1, <1>7, <1>8, <1>9, <1>10, <1>11 DEF RatioInv, PointsOK

LEMMA FinishKeeps ==
    ASSUME RatioInv, Finish
    PROVE  RatioInv'
<1> DEFINE N == Len(slices)
<1>1. /\ phase = "hand" /\ phase' = "done" /\ (handed = deficit \/ handed = Len(ranking))
      /\ UNCHANGED <<points, slices, sums, floors, given, ranking, deficit, handed>>
    BY DEF Finish
<1>2. /\ N \in Nat /\ Len(floors) = N /\ given \in Nat
      /\ deficit \in Nat /\ handed \in 0 .. deficit
      /\ given + deficit = TOTAL_UNITS + handed /\ deficit < N
      /\ ranking \in Bijection(1 .. N, 1 .. N)
    BY <1>1 DEF RatioInv, RatioTypes, Progress, Handing
<1>3. Len(ranking) = N
    <2>1. ranking \in [1 .. N -> 1 .. N]
        BY <1>2 DEF Bijection, Injection
    <2> HIDE DEF N
    <2> QED
        BY <2>1, <1>2
<1>4. given = TOTAL_UNITS
    BY <1>1, <1>2, <1>3, UnitsAssumption
<1>5. RatioTypes'
    BY <1>1 DEF RatioInv, RatioTypes, Phase, Worth
<1>6. Progress'
    BY <1>1, <1>2 DEF Progress
<1>7. Summed' /\ Divided'
    BY <1>1 DEF RatioInv, Summed, Divided, Worth
<1>8. Handing'
    BY <1>1, <1>4 DEF Handing, RatiosSumTo100
<1> QED
    BY <1>1, <1>5, <1>6, <1>7, <1>8 DEF RatioInv, PointsOK

LEMMA RatioStepKeeps == RatioInv /\ [AllocationNext]_allocationVars => RatioInv'
<1> SUFFICES ASSUME RatioInv, [AllocationNext]_allocationVars PROVE RatioInv'
    OBVIOUS
<1>1. CASE Collect
    BY <1>1, CollectKeeps
<1>2. CASE Sum
    BY <1>2, SumKeeps
<1>3. CASE Divide
    BY <1>3, DivideKeeps
<1>4. CASE Rank
    BY <1>4, RankKeeps
<1>5. CASE Hand
    BY <1>5, HandKeeps
<1>6. CASE Finish
    BY <1>6, FinishKeeps
<1>7. CASE UNCHANGED allocationVars
    BY <1>7 DEF allocationVars, RatioInv, PointsOK, RatioTypes, Progress, Summed, Divided, Handing,
       RatiosSumTo100, Answered, Worth, total
<1> QED
    BY <1>1, <1>2, <1>3, <1>4, <1>5, <1>6, <1>7 DEF AllocationNext

-----------------------------------------------------------------------------
\* Whatever the classes and their values are, and however many units make up the
\* whole, the units of an answer of `assign_ratios` add up to all of them.
THEOREM RatiosSum == AllocationSpec => []RatiosSumTo100
<1>1. RatioInv => RatiosSumTo100
    BY DEF RatioInv, Handing
<1> QED
    BY InitEstablishes, RatioStepKeeps, <1>1, PTL DEF AllocationSpec

\* `given` is the sum of the units of the slices, and there is one number of
\* units for each slice of an answer.
UnitsAddUp ==
    /\ AddsUp(floors, Len(floors), given)
    /\ Answered => Len(floors) = Len(slices)

\* What the theorem above says of `given` it says of the ratios themselves.
THEOREM UnitsAreGiven == AllocationSpec => []UnitsAddUp
<1>1. RatioInv => UnitsAddUp
    BY DEF RatioInv, RatioTypes, Progress, UnitsAddUp, Answered
<1> QED
    BY InitEstablishes, RatioStepKeeps, <1>1, PTL DEF AllocationSpec

-----------------------------------------------------------------------------
(* The ratios are in the order of the values.  What a slice has is its share,  *)
(* rounded down, and one unit more if its turn has come; and a slice that is   *)
(* worth no less than another, but has no more, has its turn before it.        *)

Raw(n) == Worth(n) * TOTAL_UNITS

InOrder(n) == \A m \in 1 .. n : points[slices[m]] >= points[slices[n]]

\* The slices that have had their turn.
Got == {ranking[j] : j \in 1 .. handed}

Ranked == \A m, n \in DOMAIN ranking : m < n => RanksBefore(ranking[m], ranking[n])

SortInv ==
    /\ \A n \in DOMAIN slices : InOrder(n)
    /\ phase \in {"collect", "sum"} => remainders = << >>
    /\ phase \in {"divide", "rank"} =>
        /\ remainders \in Seq(Nat) /\ Len(remainders) = Len(floors)
        /\ \A n \in DOMAIN floors :
            floors[n] = Raw(n) \div total /\ remainders[n] = Raw(n) % total
    /\ phase = "hand" =>
        /\ Ranked
        /\ \A n \in DOMAIN slices :
            /\ floors[n] = Raw(n) \div total + (IF n \in Got THEN 1 ELSE 0)
            /\ remainders[n] = Raw(n) % total
    /\ RatiosStaySorted

\* Of two numbers the larger one has the larger quotient, or the same one and no
\* smaller remainder.
LEMMA DivisionIsMonotone ==
    ASSUME NEW a \in Nat, NEW b \in Nat, NEW t \in Nat \ {0}, a >= b
    PROVE  \/ a \div t >= b \div t + 1
           \/ a \div t = b \div t /\ a % t >= b % t
<1> DEFINE x == a \div t
           y == b \div t
<1>1. /\ x \in Nat /\ a % t \in Nat /\ a = x * t + (a % t) /\ a % t < t
      /\ y \in Nat /\ b % t \in Nat /\ b = y * t + (b % t) /\ b % t < t
    BY Division
<1> HIDE DEF x, y
<1>2. y < x + 1
    <2>1. (x + 1) * t = x * t + t /\ x * t \in Nat /\ y * t \in Nat
        BY <1>1
    <2>2. y * t < (x + 1) * t
        BY <1>1, <2>1
    <2> QED
        BY <1>1, <2>2, CancelBelow
<1>3. CASE x = y
    <2>1. x * t \in Nat
        BY <1>1
    <2>2. a % t >= b % t
        BY <1>1, <1>3, <2>1
    <2> QED
        BY <1>3, <2>2 DEF x, y
<1>4. CASE x # y
    <2>1. x >= y + 1
        BY <1>1, <1>2, <1>4
    <2> QED
        BY <2>1 DEF x, y
<1> QED
    BY <1>3, <1>4

LEMMA CollectSorts ==
    ASSUME RatioInv, SortInv, Collect
    PROVE  SortInv'
<1>1. PICK s \in Arrangements(Positive) :
        slices' = s /\ \A m, n \in DOMAIN s : m < n => Precedes(s[m], s[n])
    BY DEF Collect
<1>2. s \in Seq(Positive)
    BY <1>1, PointsFinite, ArrangementFacts DEF RatioInv
<1>3. UNCHANGED <<points, floors, remainders>> /\ phase = "collect"
      /\ phase' \in {"done", "sum"} /\ (phase' = "done" => slices' = << >>)
    <2>1. slices' = << >> <=> Positive = {}
        BY <1>1, PointsFinite, ArrangementFacts DEF RatioInv
    <2> QED
        BY <2>1 DEF Collect
<1>4. ASSUME NEW n \in DOMAIN s, NEW m \in 1 .. n PROVE points[s[m]] >= points[s[n]]
    <2>1. n \in Nat /\ m \in DOMAIN s /\ points[s[n]] \in Nat
        BY <1>2, PointsFinite DEF RatioInv
    <2>2. CASE m < n
        BY <1>1, <2>1, <2>2, <1>2, PointsFinite DEF Precedes, RatioInv
    <2>3. CASE m = n
        BY <2>1, <2>3
    <2> QED
        BY <2>1, <2>2, <2>3
<1> QED
    BY <1>1, <1>3, <1>4 DEF SortInv, InOrder, RatiosStaySorted, Answered

LEMMA SumSorts ==
    ASSUME RatioInv, SortInv, Sum
    PROVE  SortInv'
<1>1. UNCHANGED <<points, slices, floors, remainders>> /\ phase = "sum"
      /\ phase' \in {"divide", "sum"}
    BY DEF Sum
<1>2. floors = << >> /\ remainders = << >>
    BY <1>1 DEF RatioInv, Progress, SortInv
<1> QED
    BY <1>1, <1>2 DEF SortInv, InOrder, RatiosStaySorted, Answered

LEMMA DivideSorts ==
    ASSUME RatioInv, SortInv, Divide
    PROVE  SortInv'
<1> DEFINE n == Len(floors) + 1
           q == Raw(n) \div total
           r == Raw(n) % total
<1>1. /\ phase = "divide" /\ phase' \in {"divide", "rank"}
      /\ floors' = Append(floors, q) /\ remainders' = Append(remainders, r)
      /\ UNCHANGED <<points, slices, sums>>
    BY DEF Divide, Raw
<1>2. /\ floors \in Seq(Nat) /\ remainders \in Seq(Nat) /\ Len(remainders) = Len(floors)
      /\ Len(floors) < Len(slices) /\ Len(sums) = Len(slices) /\ slices \in Seq(Class)
      /\ slices # << >>
    BY <1>1 DEF RatioInv, RatioTypes, Progress, SortInv
<1>3. q \in Nat /\ r \in Nat
    <2>1. n \in DOMAIN slices
        BY <1>2
    <2>2. Raw(n) \in Nat
        BY <2>1, UnitsAssumption DEF RatioInv, RatioTypes, Raw
    <2> QED
        BY <1>2, <2>2, TotalPositive, Division
<1>4. total' = total /\ \A k : Raw(k)' = Raw(k)
    BY <1>1 DEF total, Raw, Worth
<1>5. \A k \in DOMAIN floors :
        floors[k] = Raw(k) \div total /\ remainders[k] = Raw(k) % total
    BY <1>1 DEF SortInv
<1> HIDE DEF q, r
<1>6. /\ remainders' \in Seq(Nat) /\ Len(remainders') = Len(floors')
      /\ DOMAIN floors' = DOMAIN floors \cup {n}
      /\ \A k \in DOMAIN floors : floors'[k] = floors[k] /\ remainders'[k] = remainders[k]
      /\ floors'[n] = q /\ remainders'[n] = r
    BY <1>1, <1>2, <1>3
<1>7. \A k \in DOMAIN floors' :
        floors'[k] = Raw(k)' \div total' /\ remainders'[k] = Raw(k)' % total'
    BY <1>4, <1>5, <1>6 DEF q, r
<1> QED
    BY <1>1, <1>6, <1>7 DEF SortInv, InOrder, RatiosStaySorted, Answered

LEMMA RankSorts ==
    ASSUME RatioInv, SortInv, Rank
    PROVE  SortInv'
<1>1. /\ phase = "rank" /\ phase' = "hand" /\ handed = 0
      /\ UNCHANGED <<points, slices, sums, floors, remainders, handed>>
    BY DEF Rank, RatioInv, Progress
<1>2. Ranked'
    BY <1>1 DEF Rank, Ranked, RanksBefore
<1>3. Got' = {}
    BY <1>1 DEF Got
<1>4. total' = total /\ (\A k : Raw(k)' = Raw(k)) /\ DOMAIN slices = DOMAIN floors
    BY <1>1 DEF total, Raw, Worth, RatioInv, RatioTypes, Progress
<1>5. ASSUME NEW n \in DOMAIN slices'
      PROVE  floors'[n] = Raw(n)' \div total' + (IF n \in Got' THEN 1 ELSE 0)
             /\ remainders'[n] = Raw(n)' % total'
    <2>1. floors[n] = Raw(n) \div total /\ remainders[n] = Raw(n) % total /\ floors[n] \in Nat
        BY <1>1, <1>4 DEF SortInv, RatioInv, RatioTypes
    <2> QED
        BY <1>1, <1>3, <1>4, <2>1
<1> QED
    BY <1>1, <1>2, <1>5 DEF SortInv, InOrder, RatiosStaySorted, Answered

LEMMA HandSorts ==
    ASSUME RatioInv, SortInv, Hand
    PROVE  SortInv'
<1> DEFINE N == Len(slices)
           p == ranking[handed + 1]
<1>1. /\ phase = "hand" /\ phase' = "hand" /\ handed < deficit
      /\ floors' = [floors EXCEPT ![p] = @ + 1] /\ handed' = handed + 1
      /\ UNCHANGED <<points, slices, sums, remainders, ranking, deficit>>
    BY DEF Hand
<1>2. /\ N \in Nat /\ Len(floors) = N /\ floors \in Seq(Nat) /\ DOMAIN slices = 1 .. N
      /\ handed \in Nat /\ handed + 1 \in 1 .. N
      /\ ranking \in Bijection(1 .. N, 1 .. N)
    BY <1>1 DEF RatioInv, RatioTypes, Progress, Handing
<1>3. /\ ranking \in [1 .. N -> 1 .. N]
      /\ \A i, j \in 1 .. N : i # j => ranking[i] # ranking[j]
    BY <1>2 DEF Bijection, Injection, IsInjective
<1> HIDE DEF N
<1>4. Got' = Got \cup {p} /\ p \notin Got /\ p \in 1 .. N
    <2>1. 1 .. handed + 1 = (1 .. handed) \cup {handed + 1} /\ 1 .. handed \subseteq 1 .. N
        BY <1>2
    <2>2. p \notin Got
        BY <1>2, <1>3, <2>1 DEF Got
    <2> QED
        BY <1>1, <1>2, <1>3, <2>1, <2>2 DEF Got
<1>5. total' = total /\ (\A k : Raw(k)' = Raw(k)) /\ Ranked'
    BY <1>1 DEF total, Raw, Worth, Ranked, RanksBefore, SortInv
<1>6. ASSUME NEW n \in 1 .. N
      PROVE  floors'[n] = Raw(n)' \div total' + (IF n \in Got' THEN 1 ELSE 0)
             /\ remainders'[n] = Raw(n)' % total'
    <2> DEFINE b == Raw(n) \div total
    <2>1. /\ floors[n] = b + (IF n \in Got THEN 1 ELSE 0) /\ floors[n] \in Nat
          /\ remainders[n] = Raw(n) % total
        BY <1>1, <1>2 DEF SortInv
    <2>2. floors'[n] = IF n = p THEN floors[n] + 1 ELSE floors[n]
        BY <1>1, <1>2
    <2>3. b \in Nat
        <3>1. slices # << >> /\ Len(sums) = Len(slices) /\ Worth(n) \in Nat
            BY <1>1, <1>2 DEF RatioInv, Progress, RatioTypes
        <3>2. total \in Nat \ {0} /\ Raw(n) \in Nat
            BY <3>1, TotalPositive, UnitsAssumption DEF Raw
        <3> QED
            BY <3>2, Division
    <2> HIDE DEF b, p
    <2>4. floors'[n] = b + (IF n \in Got' THEN 1 ELSE 0)
        BY <1>4, <2>1, <2>2, <2>3
    <2> QED
        BY <1>1, <1>5, <2>1, <2>4 DEF b
<1> QED
    BY <1>1, <1>2, <1>5, <1>6 DEF SortInv, InOrder, RatiosStaySorted, Answered

\* Where the units are handed out, at any time, the order is that of the values.
LEMMA HandedInOrder ==
    ASSUME RatioInv, SortInv, phase = "hand",
           NEW m \in DOMAIN slices, NEW n \in DOMAIN slices, m < n
    PROVE  floors[m] >= floors[n]
<1> DEFINE N == Len(slices)
           a == Raw(m) \div total
           b == Raw(n) \div total
           c == Raw(m) % total
           d == Raw(n) % total
<1>1. /\ N \in Nat /\ DOMAIN slices = 1 .. N /\ slices # << >> /\ Len(sums) = N
      /\ ranking \in Bijection(1 .. N, 1 .. N) /\ handed \in Nat /\ handed <= N
      /\ Worth(m) \in Nat /\ Worth(n) \in Nat
    BY DEF RatioInv, RatioTypes, Progress, Handing
<1>2. /\ ranking \in [1 .. N -> 1 .. N]
      /\ \A x \in 1 .. N : \E i \in 1 .. N : ranking[i] = x
    BY <1>1 DEF Bijection, Injection, Surjection, IsInjective
<1>3. total \in Nat \ {0}
    BY <1>1, TotalPositive
<1>4. Raw(m) \in Nat /\ Raw(n) \in Nat /\ Raw(m) >= Raw(n)
    <2>1. Worth(m) >= Worth(n)
        BY <1>1 DEF SortInv, InOrder, Worth
    <2> QED
        BY <1>1, <2>1, UnitsAssumption DEF Raw
<1>5. a \in Nat /\ b \in Nat /\ c \in Nat /\ d \in Nat
    BY <1>3, <1>4, Division
<1>6. a >= b + 1 \/ (a = b /\ c >= d)
    BY <1>3, <1>4, DivisionIsMonotone
<1>7. /\ floors[m] = a + (IF m \in Got THEN 1 ELSE 0)
      /\ floors[n] = b + (IF n \in Got THEN 1 ELSE 0)
      /\ remainders[m] = c /\ remainders[n] = d /\ Ranked
    BY DEF SortInv
<1> HIDE DEF a, b, c, d, N
<1>8. CASE a >= b + 1
    BY <1>5, <1>7, <1>8
<1>9. CASE a = b /\ c >= d
    <2>1. ASSUME n \in Got PROVE m \in Got
        <3>1. PICK j \in 1 .. handed : n = ranking[j]
            BY <2>1 DEF Got
        <3>2. PICK i \in 1 .. N : m = ranking[i]
            BY <1>1, <1>2
        <3>3. j \in 1 .. N /\ i # j /\ m \in Nat /\ n \in Nat /\ DOMAIN ranking = 1 .. N
            <4>1. m \in Nat /\ n \in Nat /\ m # n
                BY <1>1
            <4>2. j \in 1 .. N
                BY <1>1, <3>1
            <4>3. DOMAIN ranking = 1 .. N
                BY <1>2
            <4> QED
                BY <4>1, <4>2, <4>3, <3>1, <3>2
        <3>4. CASE j < i
            <4>1. RanksBefore(n, m)
                BY <1>7, <3>1, <3>2, <3>3, <3>4 DEF Ranked
            <4> QED
                BY <1>5, <1>7, <1>9, <3>3, <4>1 DEF RanksBefore
        <3>5. CASE i < j
            <4>1. i \in 1 .. handed
                BY <1>1, <3>1, <3>2, <3>5
            <4> QED
                BY <3>2, <4>1 DEF Got
        <3> QED
            BY <3>3, <3>4, <3>5
    <2> QED
        BY <1>5, <1>7, <1>9, <2>1
<1> QED
    BY <1>6, <1>8, <1>9

LEMMA FinishSorts ==
    ASSUME RatioInv, SortInv, Finish
    PROVE  SortInv'
<1>1. /\ phase = "hand" /\ phase' = "done"
      /\ UNCHANGED <<points, slices, floors, remainders>>
    BY DEF Finish
<1>2. RatiosStaySorted'
    BY <1>1, HandedInOrder DEF RatiosStaySorted
<1> QED
    BY <1>1, <1>2 DEF SortInv, InOrder

LEMMA StepSorts == RatioInv /\ SortInv /\ [AllocationNext]_allocationVars => SortInv'
<1> SUFFICES ASSUME RatioInv, SortInv, [AllocationNext]_allocationVars PROVE SortInv'
    OBVIOUS
<1>1. CASE UNCHANGED allocationVars
    BY <1>1 DEF allocationVars, SortInv, InOrder, Ranked, RanksBefore, Got, Raw, Worth, total,
       RatiosStaySorted, Answered
<1> QED
    BY <1>1, CollectSorts, SumSorts, DivideSorts, RankSorts, HandSorts, FinishSorts
       DEF AllocationNext

\* Although `assign_ratios` gives what rounding down has left over to other slices
\* than the largest ones, the list stays in the order of the values.
THEOREM RatiosSorted == AllocationSpec => []RatiosStaySorted
<1>1. AllocationInit => SortInv
    BY DEF AllocationInit, SortInv, RatiosStaySorted, Answered
<1>2. SortInv => RatiosStaySorted
    BY DEF SortInv
<1> QED
    BY InitEstablishes, RatioStepKeeps, StepSorts, <1>1, <1>2, PTL DEF AllocationSpec

-----------------------------------------------------------------------------
(* A period of months.  A month is its number counted from the year 0, and *)
(* the year and the month can be read off the number again; so going back  *)
(* n months and putting the day right end in the month that is meant.      *)

AnyMonth(d) == d.y \in Int /\ d.m \in 1 .. 12

LEMMA MonthIsItsNumber ==
    ASSUME NEW y \in Int, NEW m \in 1 .. 12
    PROVE  (12 * y + m - 1) \div 12 = y /\ (12 * y + m - 1) % 12 = m - 1
OBVIOUS

LEMMA NumberIsItsMonth ==
    ASSUME NEW k \in Int
    PROVE  k \div 12 \in Int /\ k % 12 \in 0 .. 11 /\ 12 * (k \div 12) + (k % 12) = k
OBVIOUS

\* The month that comes n months before another.
LEMMA MonthsBack ==
    ASSUME NEW d, AnyMonth(d), NEW n \in Int
    PROVE  /\ AnyMonth(MonthBefore(d, n))
           /\ MonthNumber(MonthBefore(d, n)) = MonthNumber(d) - n
<1> DEFINE k == MonthNumber(d) - n
<1>1. k \in Int
    BY DEF MonthNumber, AnyMonth
<1>2. MonthBefore(d, n) = [y |-> k \div 12, m |-> (k % 12) + 1]
    BY DEF MonthBefore
<1> HIDE DEF k
<1>3. k \div 12 \in Int /\ k % 12 \in 0 .. 11 /\ 12 * (k \div 12) + (k % 12) = k
    BY <1>1, NumberIsItsMonth
<1>4. AnyMonth(MonthBefore(d, n)) /\ MonthNumber(MonthBefore(d, n)) = k
    BY <1>2, <1>3 DEF MonthNumber, AnyMonth
<1> QED
    BY <1>4 DEF k

LEMMA SameMonth ==
    ASSUME NEW d, AnyMonth(d), NEW e, AnyMonth(e), MonthNumber(d) = MonthNumber(e)
    PROVE  d.y = e.y /\ d.m = e.m
<1>1. MonthNumber(d) \div 12 = d.y /\ MonthNumber(d) % 12 = d.m - 1
    BY MonthIsItsNumber DEF MonthNumber, AnyMonth
<1>2. MonthNumber(e) \div 12 = e.y /\ MonthNumber(e) % 12 = e.m - 1
    BY MonthIsItsNumber DEF MonthNumber, AnyMonth
<1> QED
    BY <1>1, <1>2 DEF AnyMonth

LEMMA DaysOfMonth ==
    ASSUME NEW y, NEW m
    PROVE  DaysIn(y, m) \in 28 .. 31
BY DEF DaysIn

\* Back n months, and put right.
LEMMA PutRight ==
    ASSUME NEW d, AnyMonth(d), d.d \in 1 .. 31, NEW n \in Int,
           NEW from,
           from = IF SetMonthBack(d, n).d # d.d THEN LastOfMonthBefore(SetMonthBack(d, n))
                  ELSE SetMonthBack(d, n)
    PROVE  /\ MonthNumber(from) = MonthNumber(d) - n
           /\ from.d = d.d \/ (from.d < d.d /\ from.d = DaysIn(from.y, from.m))
<1> DEFINE k == MonthBefore(d, n)
           over == d.d - DaysIn(k.y, k.m)
           next == MonthBefore([y |-> k.y, m |-> k.m], 0 - 1)
           set == SetMonthBack(d, n)
<1>1. AnyMonth(k) /\ MonthNumber(k) = MonthNumber(d) - n
    BY MonthsBack
<1>2. DaysIn(k.y, k.m) \in 28 .. 31
    BY DaysOfMonth
<1>3. CASE over <= 0
    <2>1. set = [y |-> k.y, m |-> k.m, d |-> d.d]
        BY <1>3 DEF SetMonthBack
    <2>2. from = [y |-> k.y, m |-> k.m, d |-> d.d]
        BY <2>1
    <2> QED
        BY <1>1, <2>2 DEF MonthNumber
<1>4. CASE ~(over <= 0)
    <2>1. set = [y |-> next.y, m |-> next.m, d |-> over]
        BY <1>4 DEF SetMonthBack
    <2>2. over # d.d /\ DaysIn(k.y, k.m) < d.d
        BY <1>2, <1>4
    <2> DEFINE plain == [y |-> k.y, m |-> k.m]
               late == [y |-> next.y, m |-> next.m, d |-> over]
               j == MonthBefore(late, 1)
    <2>3. AnyMonth(plain) /\ MonthNumber(plain) = MonthNumber(k)
        BY <1>1 DEF AnyMonth, MonthNumber
    <2>4. AnyMonth(next) /\ MonthNumber(next) = MonthNumber(k) + 1
        <3>1. AnyMonth(MonthBefore(plain, 0 - 1))
              /\ MonthNumber(MonthBefore(plain, 0 - 1)) = MonthNumber(plain) - (0 - 1)
            BY <2>3, MonthsBack
        <3>2. MonthNumber(k) \in Int
            BY <1>1 DEF AnyMonth, MonthNumber
        <3> QED
            BY <2>3, <3>1, <3>2
    <2>5. AnyMonth(late) /\ MonthNumber(late) = MonthNumber(next)
        BY <2>4 DEF AnyMonth, MonthNumber
    <2>6. AnyMonth(j) /\ MonthNumber(j) = MonthNumber(k)
        <3>1. AnyMonth(j) /\ MonthNumber(j) = MonthNumber(late) - 1
            BY <2>5, MonthsBack
        <3>2. MonthNumber(k) \in Int
            BY <1>1 DEF AnyMonth, MonthNumber
        <3> QED
            BY <2>4, <2>5, <3>1, <3>2
    <2>7. j.y = k.y /\ j.m = k.m
        BY <1>1, <2>6, SameMonth
    <2>8. from = [y |-> j.y, m |-> j.m, d |-> DaysIn(j.y, j.m)]
        <3>1. set = late /\ late.d # d.d
            BY <2>1, <2>2
        <3>2. from = LastOfMonthBefore(late)
            BY <3>1
        <3> QED
            BY <3>2 DEF LastOfMonthBefore
    <2> QED
        BY <1>1, <2>2, <2>7, <2>8 DEF MonthNumber
<1> QED
    BY <1>3, <1>4

PeriodInv == AnyMonth(today) /\ today.d \in 1 .. 31 /\ preset \in PeriodPreset

\* resolveRange, on every day of every year: a period of n months begins on the
\* same day n months before, or on the last day of that month if it is shorter.
THEOREM PeriodsAreMonths == PeriodSpec => []PeriodIsMonths
<1>1. \A d \in Dates(Years) : AnyMonth(d) /\ d.d \in 1 .. 31
    BY YearsAssumption DEF Dates, AnyMonth
<1>2. PeriodInit => PeriodInv
    BY <1>1 DEF PeriodInit, PeriodInv, PeriodPreset
<1>3. PeriodInv /\ [PeriodNext]_periodVars => PeriodInv'
    <2> SUFFICES ASSUME PeriodInv, [PeriodNext]_periodVars PROVE PeriodInv'
        OBVIOUS
    <2>1. CASE ChoosePreset
        BY <2>1 DEF ChoosePreset, PeriodInv, AnyMonth
    <2>2. CASE Midnight
        BY <1>1, <2>2 DEF Midnight, PeriodInv, AnyMonth
    <2>3. CASE UNCHANGED periodVars
        BY <2>3 DEF periodVars, PeriodInv, AnyMonth
    <2> QED
        BY <2>1, <2>2, <2>3 DEF PeriodNext
<1>4. PeriodInv => PeriodIsMonths
    <2> SUFFICES ASSUME PeriodInv, preset # "all"
                 PROVE  LET from == ResolveFrom(preset)
                        IN  /\ MonthNumber(from) = MonthNumber(today) - Months[preset]
                            /\ \/ from.d = today.d
                               \/ from.d < today.d /\ from.d = DaysIn(from.y, from.m)
        BY DEF PeriodIsMonths
    <2> DEFINE n == Months[preset]
    <2>1. n \in Int
        BY DEF PeriodInv, PeriodPreset, Months
    <2> HIDE DEF n
    <2>2. ResolveFrom(preset) = IF SetMonthBack(today, n).d # today.d
                                THEN LastOfMonthBefore(SetMonthBack(today, n))
                                ELSE SetMonthBack(today, n)
        BY DEF ResolveFrom, n
    <2> QED
        BY <2>1, <2>2, PutRight DEF PeriodInv, n
<1> QED
    BY <1>2, <1>3, <1>4, PTL DEF PeriodSpec
=============================================================================
