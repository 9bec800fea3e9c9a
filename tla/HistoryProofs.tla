---------------------------- MODULE HistoryProofs ----------------------------
(***************************************************************************)
(* What asset-history and the list of holdings show, for every number of   *)
(* days, trades, accounts and positions.                                   *)
(*                                                                         *)
(* The timeline: as long as every trade could be converted, its last entry *)
(* is not before any other, so a further trade of that day or a later one  *)
(* changes the lookup of exactly the days from then on.  The chart: the    *)
(* sums of the groups and what is still to be added make up the exact      *)
(* value of the day at any time, and each series that is merged adds half  *)
(* a yen of rounding and its own assets without a value.  The holdings:    *)
(* after every item the totals are the sums over the accounts so far.      *)
(***************************************************************************)
EXTENDS Timeline, History, Holdings, Sums

-----------------------------------------------------------------------------
(* What a sequence of trades holds is a sum, taken from the latest trade.  *)

Moved(t, d) == IF t.day > d THEN 0 ELSE IF t.kind = "buy" THEN t.qty ELSE 0 - t.qty

Latest(n) == [s \in SUBSET (1 .. n) |-> Max(s)]

LEMMA LatestChooses ==
    ASSUME NEW n \in Nat
    PROVE  /\ Chooses(Latest(n), 1 .. n)
           /\ \A s \in SUBSET (1 .. n) : s # {} =>
                Latest(n)[s] \in s /\ \A i \in s : i <= Latest(n)[s]
<1>1. ASSUME NEW s \in SUBSET (1 .. n), s # {}
      PROVE  Latest(n)[s] \in s /\ \A i \in s : i <= Latest(n)[s]
    <2> DEFINE T == {n - i : i \in s}
    <2>1. T \in SUBSET Nat /\ T # {}
        BY <1>1
    <2>2. PICK k \in T : \A j \in T : k <= j
        BY <2>1, LeastNumber
    <2>3. PICK m \in s : k = n - m
        BY <2>2
    <2>4. ASSUME NEW i \in s PROVE m >= i
        <3>1. n - i \in T
            OBVIOUS
        <3>2. k <= n - i
            BY <2>2, <3>1
        <3> QED
            BY <2>3, <3>2
    <2>5. \E x \in s : \A y \in s : x >= y
        BY <2>4
    <2>6. Max(s) \in s /\ \A y \in s : Max(s) >= y
        BY <2>5 DEF Max
    <2> QED
        BY <2>6 DEF Latest
<1> QED
    BY <1>1 DEF Chooses

LEMMA LatestOfAll ==
    ASSUME NEW n \in Nat
    PROVE  Latest(n + 1)[1 .. n + 1] = n + 1
<1> DEFINE S == 1 .. n + 1
<1>1. n + 1 \in Nat /\ S \in SUBSET (1 .. n + 1) /\ n + 1 \in S /\ S # {}
    OBVIOUS
<1>2. \A i \in S : i <= Latest(n + 1)[S]
    BY <1>1, LatestChooses
<1>3. Latest(n + 1)[S] \in S
    BY <1>1, LatestChooses
<1>4. n + 1 <= Latest(n + 1)[S]
    BY <1>1, <1>2
<1> QED
    BY <1>3, <1>4

Moves(s, d, n) == [i \in 1 .. n |-> Moved(s[i], d)]

OfTrades(s, d, n) ==
    DOMAIN s = 1 .. n /\ \A i \in 1 .. n : Moved(s[i], d) \in Int /\ s[i].qty \in Int

SumsMoves(g, s, d, n) ==
    /\ g \in [SUBSET (1 .. n) -> Int]
    /\ SumsUp(g, Moves(s, d, n), Latest(n), 1 .. n)
    /\ Net(s, d) = g[1 .. n]

LEMMA NetIsSum ==
    ASSUME NEW n \in Nat, NEW s, NEW d, OfTrades(s, d, n)
    PROVE  \E g : SumsMoves(g, s, d, n)
<1> DEFINE Step(f) == [r \in SUBSET (1 .. n) |->
               IF r = {} THEN 0
               ELSE IF s[Max(r)].day > d THEN f[r \ {Max(r)}]
               ELSE IF s[Max(r)].kind = "buy" THEN f[r \ {Max(r)}] + s[Max(r)].qty
               ELSE f[r \ {Max(r)}] - s[Max(r)].qty]
           iter == CHOOSE f : f = Step(f)
           c == Latest(n)
           w == Moves(s, d, n)
<1>1. Net(s, d) = iter[1 .. n]
    BY DEF Net, FoldLeft, MapThenFoldSet, OfTrades
<1>2. IsFiniteSet(1 .. n) /\ Chooses(c, 1 .. n) /\ \A i \in 1 .. n : w[i] \in Int
    BY FS_Interval, LatestChooses DEF Moves, OfTrades
<1>3. PICK f \in [SUBSET (1 .. n) -> Int] : SumsUp(f, w, c, 1 .. n)
    <2> HIDE DEF c, w
    <2> QED
        BY <1>2, SumExists
<1>4. \A r \in SUBSET (1 .. n) : r # {} => c[r] = Max(r) /\ Max(r) \in r
    BY LatestChooses DEF Latest
<1>5. ASSUME NEW r \in SUBSET (1 .. n), r # {}, NEW v \in Int
      PROVE  w[Max(r)] + v = IF s[Max(r)].day > d THEN v
                             ELSE IF s[Max(r)].kind = "buy" THEN v + s[Max(r)].qty
                             ELSE v - s[Max(r)].qty
    <2>1. Max(r) \in 1 .. n
        BY <1>4, <1>5
    <2>2. w[Max(r)] = Moved(s[Max(r)], d)
        BY <2>1 DEF Moves
    <2>3. s[Max(r)].qty \in Int
        BY <2>1 DEF OfTrades
    <2> HIDE DEF w
    <2> QED
        BY <2>1, <2>2, <2>3, <1>5 DEF Moved
<1>6. f = Step(f)
    <2>1. ASSUME NEW r \in SUBSET (1 .. n) PROVE f[r] = Step(f)[r]
        <3>1. CASE r = {}
            BY <1>3, <3>1 DEF SumsUp
        <3>2. CASE r # {}
            <4>1. f[r] = w[Max(r)] + f[r \ {Max(r)}] /\ f[r \ {Max(r)}] \in Int
                BY <1>3, <1>4, <3>2 DEF SumsUp
            <4> HIDE DEF w
            <4> QED
                BY <1>5, <3>2, <4>1
        <3> QED
            BY <3>1, <3>2
    <2> QED
        BY <2>1
<1>7. iter = Step(iter)
    BY <1>6, Zenon
<1> HIDE DEF iter
<1>8. \A r \in SUBSET (1 .. n) : iter[r] = Step(iter)[r] /\ f[r] = Step(f)[r]
    BY <1>6, <1>7
<1>9. \A r \in SUBSET (1 .. n) : r = {} \/ iter[r \ {Max(r)}] = f[r \ {Max(r)}] => iter[r] = f[r]
    BY <1>8
<1>10. \A r \in SUBSET (1 .. n) : iter[r] = f[r]
    <2>1. StepsAgree(iter, f, c, 1 .. n)
        BY <1>4, <1>9 DEF StepsAgree
    <2> DEFINE D == 1 .. n
    <2> HIDE DEF c, D
    <2>2. IsFiniteSet(D) /\ Chooses(c, D) /\ StepsAgree(iter, f, c, D)
        BY <1>2, <2>1 DEF D
    <2>3. \A r \in SUBSET D : iter[r] = f[r]
        BY <2>2, SameByRemoval
    <2> QED
        BY <2>3 DEF D
<1> QED
    BY <1>1, <1>3, <1>10 DEF SumsMoves

LEMMA NetOfNone ==
    ASSUME NEW d
    PROVE  Net(<< >>, d) = 0
<1> DEFINE none == << >>
<1>1. OfTrades(none, d, 0)
    BY DEF OfTrades
<1>2. PICK g : SumsMoves(g, none, d, 0)
    <2> HIDE DEF none
    <2> QED
        BY <1>1, NetIsSum
<1>3. 1 .. 0 = {}
    OBVIOUS
<1> QED
    BY <1>2, <1>3 DEF SumsMoves, SumsUp

LEMMA NetOfOneMore ==
    ASSUME NEW s \in Seq(DayTrade), NEW t \in DayTrade, NEW d \in Day
    PROVE  /\ Net(s, d) \in Int
           /\ Net(Append(s, t), d) = Net(s, d) + Moved(t, d)
<1> USE TimelineAssumption
<1> DEFINE n == Len(s)
           r == Append(s, t)
           v == Moves(s, d, n)
           w == Moves(r, d, n + 1)
           D == 1 .. n
           E == 1 .. n + 1
<1>1. \A u \in DayTrade : Moved(u, d) \in Int /\ u.qty \in Int
    BY DEF Moved, DayTrade, Day
<1>2. /\ n \in Nat /\ DOMAIN s = 1 .. n /\ DOMAIN r = 1 .. n + 1
      /\ \A i \in 1 .. n : s[i] \in DayTrade /\ r[i] = s[i]
      /\ r[n + 1] = t
    OBVIOUS
<1> HIDE DEF r
<1>3. PICK g : SumsMoves(g, s, d, n)
    <2>1. OfTrades(s, d, n)
        BY <1>1, <1>2 DEF OfTrades
    <2> QED
        BY <1>2, <2>1, NetIsSum
<1>4. PICK h : SumsMoves(h, r, d, n + 1)
    <2>1. \A i \in 1 .. n + 1 : r[i] \in DayTrade
        BY <1>2
    <2>2. OfTrades(r, d, n + 1)
        BY <1>1, <1>2, <2>1 DEF OfTrades
    <2> QED
        BY <1>2, <2>2, NetIsSum
<1>5. SumsUp(g, v, Latest(n), D) /\ SumsUp(h, w, Latest(n + 1), E)
    BY <1>3, <1>4 DEF SumsMoves
<1>6. h[E] = Moved(t, d) + h[D]
    <2>1. Latest(n + 1)[E] = n + 1
        BY <1>2, LatestOfAll
    <2>2. E \ {n + 1} = D /\ E # {} /\ E \in SUBSET E
        BY <1>2
    <2>3. w[n + 1] = Moved(t, d)
        BY <1>2 DEF Moves
    <2> HIDE DEF w, E, D
    <2>4. h[E] = w[Latest(n + 1)[E]] + h[E \ {Latest(n + 1)[E]}]
        BY <1>5, <2>2, SumsUpAt
    <2> QED
        BY <2>1, <2>2, <2>3, <2>4
<1>7. g[D] = h[D]
    <2> DEFINE c == Latest(n)
    <2>1. D \subseteq E /\ IsFiniteSet(D)
        BY <1>2, FS_Interval
    <2>2. Chooses(c, D)
        BY <1>2, LatestChooses
    <2>3. \A q \in SUBSET D : c[q] = Latest(n + 1)[q]
        BY <1>2 DEF Latest
    <2>4. Agree(v, w, D)
        BY <1>2 DEF Agree, Moves
    <2> HIDE DEF D, E, c, v, w
    <2>5. SumsUp(h, w, c, D)
        BY <1>5, <2>1, <2>3 DEF SumsUp
    <2>6. SumsUp(g, v, c, D) /\ D \subseteq D /\ D \in SUBSET D
        BY <1>5 DEF c
    <2>7. \A q \in SUBSET D : g[q] = h[q]
        BY <2>1, <2>2, <2>4, <2>5, <2>6, SumUnique
    <2> QED
        BY <2>6, <2>7
<1>8. h[D] \in Int /\ Moved(t, d) \in Int /\ Net(s, d) = g[D] /\ Net(r, d) = h[E]
    <2>1. D \in SUBSET E
        BY <1>2
    <2> QED
        BY <1>1, <1>3, <1>4, <2>1 DEF SumsMoves
<1> QED
    BY <1>6, <1>7, <1>8 DEF r

-----------------------------------------------------------------------------
(* Looking up a day in a timeline whose last entry is not before the other *)
(* ones.                                                                   *)

Entry == [day : Day, quantity : Nat]

LEMMA DaysAreNumbers == (\A d \in Day : d \in Int) /\ \A x \in Entry : x.day \in Int
BY TimelineAssumption DEF Day, Entry

Found(tl, d) == {i \in DOMAIN tl : tl[i].day <= d}
Quantity(tl, d) ==
    IF Cardinality(Found(tl, d)) = 0 THEN 0 ELSE tl[Cardinality(Found(tl, d))].quantity

\* No entry is later than the day.
UpTo(tl, d) == \A i \in DOMAIN tl : tl[i].day <= d

LEMMA LookupInAll ==
    ASSUME NEW tl \in Seq(Entry), NEW d, UpTo(tl, d)
    PROVE  Quantity(tl, d) = IF tl = << >> THEN 0 ELSE Last(tl).quantity
<1>1. Found(tl, d) = 1 .. Len(tl) /\ Len(tl) \in Nat
    BY DEF Found, UpTo
<1>2. Cardinality(Found(tl, d)) = Len(tl)
    BY <1>1, FS_Interval
<1> QED
    BY <1>1, <1>2 DEF Quantity, Last

\* An entry of a later day is not found.
LEMMA LookupBefore ==
    ASSUME NEW tl \in Seq(Entry), NEW e \in Entry, NEW d \in Day, d < e.day
    PROVE  Quantity(Append(tl, e), d) = Quantity(tl, d)
<1> USE TimelineAssumption
<1> DEFINE n == Len(tl)
           long == Append(tl, e)
<1>1. /\ n \in Nat /\ DOMAIN tl = 1 .. n /\ DOMAIN long = 1 .. n + 1
      /\ \A i \in 1 .. n : long[i] = tl[i] /\ tl[i] \in Entry
      /\ long[n + 1] = e
    OBVIOUS
<1> HIDE DEF long
<1>2. ~(e.day <= d)
    BY DEF Entry, Day
<1>3. Found(long, d) = Found(tl, d)
    BY <1>1, <1>2 DEF Found
<1>4. Found(tl, d) \in SUBSET (1 .. n)
    BY <1>1 DEF Found
<1>5. Cardinality(Found(tl, d)) \in 0 .. n
    <2> DEFINE D == 1 .. n
               S == Found(tl, d)
    <2>1. IsFiniteSet(D) /\ Cardinality(D) = n /\ S \in SUBSET D
        <3>1. IsFiniteSet(1 .. n) /\ Cardinality(1 .. n) = IF 1 > n THEN 0 ELSE n - 1 + 1
            BY <1>1, FS_Interval
        <3> QED
            BY <1>1, <1>4, <3>1
    <2> HIDE DEF D, S
    <2>2. Cardinality(S) \in Nat /\ Cardinality(S) <= Cardinality(D)
        BY <2>1, FS_Subset, FS_CardinalityType
    <2> QED
        BY <1>1, <2>1, <2>2 DEF S
<1> HIDE DEF n
<1> QED
    BY <1>1, <1>3, <1>5 DEF Quantity, long

\* One more entry of the last day is what is found from that day on.
LEMMA LookupFrom ==
    ASSUME NEW tl \in Seq(Entry), NEW e \in Entry, NEW d \in Day,
           UpTo(tl, e.day), e.day <= d
    PROVE  Quantity(Append(tl, e), d) = e.quantity
<1> USE TimelineAssumption
<1> DEFINE long == Append(tl, e)
<1>1. /\ long \in Seq(Entry) /\ long # << >> /\ Last(long) = e
      /\ DOMAIN long = 1 .. Len(tl) + 1 /\ Len(tl) \in Nat
      /\ \A i \in 1 .. Len(tl) : long[i] = tl[i] /\ tl[i] \in Entry
      /\ long[Len(tl) + 1] = e
    BY DEF Last
<1>2. UpTo(long, d)
    <2> HIDE DEF long
    <2>1. ASSUME NEW i \in 1 .. Len(tl) PROVE long[i].day <= d
        <3>1. tl[i].day <= e.day
            BY <1>1 DEF UpTo
        <3>2. tl[i].day \in Int /\ e.day \in Int /\ d \in Int
            BY <1>1, DaysAreNumbers
        <3> QED
            BY <1>1, <3>1, <3>2
    <2> QED
        BY <1>1, <2>1 DEF UpTo
<1> HIDE DEF long
<1>3. Quantity(long, d) = Last(long).quantity
    BY <1>1, <1>2, LookupInAll
<1> QED
    BY <1>1, <1>3 DEF long

-----------------------------------------------------------------------------
TimelineTypes ==
    /\ trades \in Seq(DayTrade)
    /\ timeline \in Seq(Entry)
    /\ unconvertible \in BOOLEAN

\* While every trade could be converted, the last entry is of the day of the last
\* trade and not before any other, and every day is looked up right.
Followed ==
    /\ timeline # << >> => trades # << >> /\ Last(timeline).day = Last(trades).day
    /\ timeline # << >> => UpTo(timeline, Last(timeline).day)
    /\ \A d \in Day : Quantity(timeline, d) = Net(trades, d)

TimelineInv == TimelineTypes /\ (~unconvertible => Followed)

LEMMA InitTimeline == TimelineInit => TimelineInv
<1> SUFFICES ASSUME TimelineInit PROVE TimelineInv
    OBVIOUS
<1>1. trades = << >> /\ timeline = << >> /\ unconvertible = FALSE
    BY DEF TimelineInit
<1>2. \A d : Quantity(timeline, d) = 0
    <2>1. \A d : Found(timeline, d) = {}
        BY <1>1 DEF Found
    <2> QED
        BY <2>1, FS_EmptySet DEF Quantity
<1>3. \A d : Net(trades, d) = 0
    BY <1>1, NetOfNone
<1>4. << >> \in Seq(DayTrade) /\ << >> \in Seq(Entry)
    OBVIOUS
<1>5. TimelineTypes
    BY <1>1, <1>4 DEF TimelineTypes
<1>6. Followed
    BY <1>1, <1>2, <1>3 DEF Followed
<1> QED
    BY <1>5, <1>6 DEF TimelineInv

EntryOf(t) == [day |-> t.day, quantity |-> After(t)]

LEMMA EntryFacts ==
    ASSUME TimelineTypes, NEW t \in DayTrade, ~Refuses(t)
    PROVE  /\ EntryOf(t) \in Entry /\ EntryOf(t).day = t.day /\ EntryOf(t).quantity = After(t)
           /\ LastQuantity \in Nat /\ After(t) = LastQuantity + Moved(t, t.day)
<1> USE TimelineAssumption
<1>1. LastQuantity \in Nat
    <2>1. CASE timeline = << >>
        BY <2>1 DEF LastQuantity
    <2>2. CASE timeline # << >>
        <3>1. timeline[Len(timeline)] \in Entry
            BY <2>2 DEF TimelineTypes
        <3> QED
            BY <2>2, <3>1 DEF LastQuantity, Last, Entry
    <2> QED
        BY <2>1, <2>2
<1>2. t.kind \in {"buy", "sell"} /\ t.qty \in Nat /\ t.day \in Day /\ t.day \in Int
    BY DaysAreNumbers DEF DayTrade
<1>3. After(t) \in Nat /\ After(t) = LastQuantity + Moved(t, t.day)
    BY <1>1, <1>2 DEF After, Refuses, Moved
<1> QED
    BY <1>1, <1>2, <1>3 DEF EntryOf, Entry

LEMMA EntryTypes ==
    ASSUME TimelineTypes, NEW t \in DayTrade, ~Refuses(t),
           NEW base \in Seq(Entry), timeline' = Append(base, EntryOf(t)),
           Follows(t), UNCHANGED unconvertible
    PROVE  TimelineTypes'
<1> USE TimelineAssumption
<1>1. trades' \in Seq(DayTrade)
    BY DEF Follows, TimelineTypes
<1>2. timeline' \in Seq(Entry)
    BY EntryFacts
<1> QED
    BY <1>1, <1>2 DEF TimelineTypes

\* A trade that is converted: base is what stays of the timeline.
LEMMA EntryFollows ==
    ASSUME TimelineTypes, Followed, NEW t \in DayTrade, ~Refuses(t),
           NEW base \in Seq(Entry), timeline' = Append(base, EntryOf(t)), Follows(t),
           \/ base = timeline
           \/ \E e \in Entry : timeline = Append(base, e) /\ e.day = t.day
    PROVE  Followed'
<1> USE TimelineAssumption
<1> DEFINE new == EntryOf(t)
<1>1. /\ new \in Entry /\ new.day = t.day /\ new.quantity = LastQuantity + Moved(t, t.day)
      /\ LastQuantity \in Nat
    BY EntryFacts
<1>2. /\ trades \in Seq(DayTrade) /\ timeline \in Seq(Entry) /\ trades' = Append(trades, t)
      /\ trades # << >> => Last(trades).day <= t.day
    BY DEF Follows, TimelineTypes
<1>3. t.day \in Day /\ t.day \in Int /\ (\A d \in Day : d \in Int) /\ \A x \in Entry : x.day \in Int
    BY DaysAreNumbers DEF DayTrade
<1> HIDE DEF new
<1>4. ASSUME NEW d \in Day, t.day <= d PROVE UpTo(timeline, d)
    <2>1. CASE timeline = << >>
        BY <2>1 DEF UpTo
    <2>2. CASE timeline # << >>
        <3>1. /\ Last(timeline).day = Last(trades).day /\ trades # << >>
              /\ UpTo(timeline, Last(timeline).day)
            BY <2>2 DEF Followed
        <3>2. Last(timeline).day <= t.day
            BY <1>2, <3>1
        <3>3. Last(timeline) \in Entry
            BY <1>2, <2>2 DEF Last
        <3>4. ASSUME NEW i \in DOMAIN timeline PROVE timeline[i].day <= d
            <4>1. timeline[i].day <= Last(timeline).day
                BY <3>1 DEF UpTo
            <4>2. timeline[i] \in Entry
                BY <1>2
            <4>3. timeline[i].day \in Int /\ Last(timeline).day \in Int /\ d \in Int
                BY <1>3, <3>3, <4>2
            <4> QED
                BY <1>3, <1>4, <3>2, <4>1, <4>3
        <3> QED
            BY <3>4 DEF UpTo
    <2> QED
        BY <2>1, <2>2
<1>5. UpTo(base, t.day)
    <2>1. UpTo(timeline, t.day)
        BY <1>3, <1>4
    <2>2. ASSUME NEW e \in Entry, timeline = Append(base, e) PROVE UpTo(base, t.day)
        <3>1. \A i \in DOMAIN base : i \in DOMAIN timeline /\ timeline[i] = base[i]
            BY <2>2
        <3> QED
            BY <2>1, <3>1 DEF UpTo
    <2> QED
        BY <2>1, <2>2
<1>6. ASSUME NEW d \in Day PROVE Quantity(timeline, d) = Net(trades, d)
    BY DEF Followed
<1>7. ASSUME NEW d \in Day
      PROVE  Net(trades, d) \in Int /\ Net(trades', d) = Net(trades, d) + Moved(t, d)
    BY <1>2, NetOfOneMore
<1>8. ASSUME NEW d \in Day, d < t.day PROVE Quantity(timeline', d) = Net(trades', d)
    <2>1. Quantity(timeline', d) = Quantity(base, d)
        BY <1>1, <1>8, LookupBefore DEF new
    <2>2. Quantity(base, d) = Quantity(timeline, d)
        <3>1. ASSUME NEW e \in Entry, timeline = Append(base, e), e.day = t.day
              PROVE  Quantity(base, d) = Quantity(timeline, d)
            BY <1>8, <3>1, LookupBefore
        <3> QED
            BY <3>1
    <2>3. Moved(t, d) = 0
        BY <1>3, <1>8 DEF Moved
    <2> QED
        BY <1>6, <1>7, <2>1, <2>2, <2>3
<1>9. ASSUME NEW d \in Day, t.day <= d PROVE Quantity(timeline', d) = Net(trades', d)
    <2>1. Quantity(timeline', d) = new.quantity
        BY <1>1, <1>5, <1>9, LookupFrom DEF new
    <2>2. Quantity(timeline, d) = LastQuantity
        BY <1>2, <1>4, <1>9, LookupInAll DEF LastQuantity
    <2>3. Moved(t, d) = Moved(t, t.day)
        BY <1>3, <1>9 DEF Moved
    <2> QED
        BY <1>1, <1>6, <1>7, <2>1, <2>2, <2>3
<1>10. /\ timeline' # << >> /\ trades' # << >> /\ Last(timeline') = new /\ Last(trades') = t
    BY <1>2 DEF Last, new
<1>11. UpTo(timeline', t.day)
    <2>1. /\ DOMAIN timeline' = 1 .. Len(base) + 1 /\ timeline'[Len(base) + 1] = new
          /\ Len(base) \in Nat /\ \A i \in 1 .. Len(base) : timeline'[i] = base[i]
        BY DEF new
    <2>2. \A i \in 1 .. Len(base) : base[i].day <= t.day
        BY <1>5 DEF UpTo
    <2>3. new.day <= t.day
        BY <1>1, <1>3
    <2> QED
        BY <2>1, <2>2, <2>3 DEF UpTo
<1>12. \A d \in Day : Quantity(timeline', d) = Net(trades', d)
    BY <1>3, <1>8, <1>9
<1> QED
    BY <1>1, <1>10, <1>11, <1>12 DEF Followed

LEMMA TimelineStep ==
    ASSUME TimelineInv, [TimelineNext]_timelineVars
    PROVE  TimelineInv'
<1> USE TimelineAssumption
<1>1. ASSUME NEW t \in DayTrade, SkipUnrated(t) \/ SkipRefused(t) PROVE TimelineInv'
    <2>1. trades' = Append(trades, t) /\ timeline' = timeline /\ unconvertible' = TRUE
        BY <1>1 DEF SkipUnrated, SkipRefused, Follows
    <2> QED
        BY <2>1 DEF TimelineInv, TimelineTypes
<1>2. ASSUME NEW t \in DayTrade, Overwrite(t) PROVE TimelineInv'
    <2>1. /\ timeline \in Seq(Entry) /\ timeline # << >> /\ Last(timeline).day = t.day /\ Follows(t)
          /\ timeline' = Append(Front(timeline), EntryOf(t))
          /\ UNCHANGED unconvertible /\ ~Refuses(t)
        BY <1>2 DEF Overwrite, TimelineInv, TimelineTypes, EntryOf
    <2>2. /\ Front(timeline) \in Seq(Entry) /\ Last(timeline) \in Entry
          /\ timeline = Append(Front(timeline), Last(timeline))
        BY <2>1 DEF Front, Last
    <2>3. TimelineTypes'
        BY <2>1, <2>2, EntryTypes DEF TimelineInv
    <2>4. Followed => Followed'
        BY <2>1, <2>2, EntryFollows DEF TimelineInv
    <2> QED
        BY <2>1, <2>3, <2>4 DEF TimelineInv
<1>3. ASSUME NEW t \in DayTrade, Push(t) PROVE TimelineInv'
    <2>1. /\ timeline \in Seq(Entry) /\ Follows(t) /\ timeline' = Append(timeline, EntryOf(t))
          /\ UNCHANGED unconvertible /\ ~Refuses(t)
        BY <1>3 DEF Push, TimelineInv, TimelineTypes, EntryOf
    <2>2. TimelineTypes'
        BY <2>1, EntryTypes DEF TimelineInv
    <2>3. Followed => Followed'
        BY <2>1, EntryFollows DEF TimelineInv
    <2> QED
        BY <2>1, <2>2, <2>3 DEF TimelineInv
<1>4. CASE UNCHANGED timelineVars
    BY <1>4 DEF timelineVars, TimelineInv, TimelineTypes, Followed
<1> QED
    BY <1>1, <1>2, <1>3, <1>4 DEF TimelineNext

\* asset-history and the snapshot batch: a day that is valued shows what folding
\* all trades up to that day would give, never a part of them.
THEOREM LookupIsFold == TimelineSpec => []TimelineIsFold
<1>1. TimelineInv => TimelineIsFold
    <2> SUFFICES ASSUME TimelineInv, NEW d \in Day, Evaluate(d) = "valued" \/ ~unconvertible
                 PROVE  QuantityAt(d) = Net(trades, d)
        BY DEF TimelineIsFold
    <2>1. ~unconvertible
        BY DEF Evaluate
    <2>2. QuantityAt(d) = Quantity(timeline, d)
        BY DEF QuantityAt, PartitionPoint, Quantity, Found
    <2> QED
        BY <2>1, <2>2 DEF TimelineInv, Followed
<1>2. TimelineInv /\ [TimelineNext]_timelineVars => TimelineInv'
    BY TimelineStep
<1> QED
    BY <1>1, <1>2, InitTimeline, PTL DEF TimelineSpec

-----------------------------------------------------------------------------
(* The chart.                                                              *)

\* What a position is worth on a day, as a number.
Exactly(d) == [p \in Position |-> IF perDay[d][p] \in Values THEN perDay[d][p] ELSE 0]

\* What has been added up for the groups of a day, and the positions of the day
\* that have not been, or that have nothing to add.
Markets(d) == [k \in Keys |-> acc[<<k, d>>].market]
Left(d) == {p \in Position : <<d, p>> \in todo \/ perDay[d][p] = Absent}

MissingOf(k, d) ==
    {p \in Position : GroupOf(p) = k /\ perDay[d][p] = NoValue /\ <<d, p>> \notin todo}

WorldOK ==
    /\ by \in {"none", "account", "asset"}
    /\ perDay \in [ChartDays -> [Position -> Worths]]
    /\ known \in SUBSET Position /\ {p \in Position : Held(p)} \subseteq known
    /\ todo \in SUBSET (ChartDays \X Position)
    /\ \A x \in todo : perDay[x[1]][x[2]] # Absent

AccOK ==
    /\ acc \in [Keys \X ChartDays -> [market : Int, unpriced : SUBSET {p[2] : p \in Position}]]
    /\ \A d \in ChartDays :
        SumOf(Markets(d), Keys) + SumOf(Exactly(d), Left(d)) = SumOf(Exactly(d), Position)
    /\ \A k \in Keys, d \in ChartDays : acc[<<k, d>>].unpriced = {p[2] : p \in MissingOf(k, d)}

\* The assets without a value in some of the groups.
Named(d, M) == UNION {acc[<<k, d>>].unpriced : k \in M}

\* How far the rows are off, twice and in the smallest unit, after some groups.
Off(d) == 2 * (SumOf(rows[d].values, merged) * Unit - SumOf(Markets(d), merged))

RowOK(d) ==
    /\ DOMAIN rows[d].values = merged
    /\ \A k \in merged : rows[d].values[k] = Round(acc[<<k, d>>].market)
    /\ 0 - Unit * Cardinality(merged) <= Off(d) /\ Off(d) <= Unit * Cardinality(merged)
    /\ rows[d].unpricedCount \in Int
    /\ rows[d].unpricedCount >= Cardinality(Named(d, merged))
    /\ by # "account" => rows[d].unpricedCount = Cardinality(Named(d, merged))

RowsOK ==
    \/ series = << >> /\ merged = {}
    \/ /\ todo = {} /\ merged \in SUBSET Keys /\ DOMAIN rows = ChartDays
       /\ series = [k \in Keys |-> [d \in ChartDays |-> Point(k, d)]]
       /\ \A d \in ChartDays : RowOK(d)

ChartInv == WorldOK /\ AccOK /\ RowsOK

-----------------------------------------------------------------------------
LEMMA RoundIsNear ==
    ASSUME Unit \in Nat \ {0}, NEW v \in Int
    PROVE  /\ Round(v) \in Int
           /\ 0 - Unit <= 2 * (Round(v) * Unit - v) /\ 2 * (Round(v) * Unit - v) <= Unit
<1> DEFINE q == v \div Unit
           r == v % Unit
<1>1. /\ q \in Int /\ r \in Int /\ 0 <= r /\ r < Unit
      /\ v = q * Unit + r
    OBVIOUS
<1>2. (q + 1) * Unit = q * Unit + Unit /\ q * Unit \in Int
    BY <1>1
<1>3. \/ Round(v) = q /\ 2 * r <= Unit
      \/ Round(v) = q + 1 /\ 2 * r >= Unit
    BY <1>1 DEF Round
<1> HIDE DEF q, r
<1>4. CASE Round(v) = q /\ 2 * r <= Unit
    BY <1>1, <1>2, <1>4
<1>5. CASE Round(v) = q + 1 /\ 2 * r >= Unit
    BY <1>1, <1>2, <1>5
<1> QED
    BY <1>3, <1>4, <1>5

\* The values of a day add up to a number.
LEMMA ExactIsSum ==
    ASSUME WorldOK, NEW d \in ChartDays
    PROVE  Exact(d) = SumOf(Exactly(d), Position)
<1> DEFINE First(s) == CHOOSE p \in s : TRUE
           worth(p) == IF perDay[d][p] \in Values THEN perDay[d][p] ELSE 0
           Step(f) == [s \in SUBSET Position |->
               IF s = {} THEN 0 ELSE worth(First(s)) + f[s \ {First(s)}]]
           iter == CHOOSE f : f = Step(f)
           c == AnyFirst(Position)
           w == Exactly(d)
<1>1. Exact(d) = iter[Position]
    BY DEF Exact, MapThenSumSet, MapThenFoldSet
<1>2. \A p \in Position : w[p] \in Int
    <2>1. \A v \in Values : v \in Int
        BY ChartAssumption
    <2> QED
        BY <2>1 DEF Exactly
<1>3. PICK f \in [SUBSET Position -> Int] : SumsUp(f, w, c, Position)
    BY <1>2, SumExists, AnyFirstChooses, ChartAssumption
<1>4. \A s \in SUBSET Position : s # {} =>
        c[s] = First(s) /\ First(s) \in s /\ w[First(s)] = worth(First(s))
    BY DEF AnyFirst, Exactly
<1> HIDE DEF worth
<1>5. f = Step(f)
    BY <1>3, <1>4 DEF SumsUp
<1>6. iter = Step(iter)
    BY <1>5, Zenon
<1> HIDE DEF iter
<1>7. SumsUp(iter, w, c, Position)
    <2>1. \A s \in SUBSET Position : iter[s] = IF s = {} THEN 0
                                              ELSE worth(First(s)) + iter[s \ {First(s)}]
        BY <1>6
    <2> HIDE DEF First, c, w
    <2> QED
        BY <1>4, <2>1 DEF SumsUp
<1>8. SumOf(w, Position) = iter[Position]
    <2> HIDE DEF w
    <2> QED
        BY <1>2, <1>7, SumOfWeights, ChartAssumption
<1> QED
    BY <1>1, <1>8

Symbols == {p[2] : p \in Position}
GroupSum == [market : Int, unpriced : SUBSET Symbols]

LEMMA SumFacts ==
    /\ NoSum \in GroupSum /\ NoSum.market = 0 /\ NoSum.unpriced = {}
    /\ \A a \in GroupSum : \A v \in Int :
        LET b == WithMarket(a, v)
        IN  b \in GroupSum /\ b.market = a.market + v /\ b.unpriced = a.unpriced
    /\ \A a \in GroupSum : \A p \in Position :
        LET b == WithUnpriced(a, p)
        IN  b \in GroupSum /\ b.market = a.market /\ b.unpriced = a.unpriced \cup {p[2]}
BY DEF GroupSum, NoSum, WithUnpriced, WithMarket, Symbols

LEMMA WorldFacts ==
    ASSUME WorldOK
    PROVE  /\ IsFiniteSet(Keys) /\ IsFiniteSet(Symbols)
           /\ \A d \in ChartDays : \A p \in Position : perDay[d][p] \in Worths
           /\ \A d \in ChartDays : \A p \in Position : perDay[d][p] # Absent => GroupOf(p) \in Keys
           /\ NoValue # Absent /\ NoValue \notin Values /\ Absent \notin Values
           /\ \A d \in ChartDays : \A p \in Position : Exactly(d)[p] \in Int
           /\ \A d \in ChartDays : IsFiniteSet(Left(d)) /\ Left(d) \in SUBSET Position
<1>1. IsFiniteSet(known) /\ IsFiniteSet(Position)
    BY FS_Subset, ChartAssumption DEF WorldOK
<1>2. IsFiniteSet(Keys)
    <2> DEFINE f == [p \in known |-> GroupOf(p)]
    <2>1. f \in Surjection(known, Keys)
        BY DEF Surjection, Keys
    <2> HIDE DEF f
    <2> QED
        BY <1>1, <2>1, FS_Surjection
<1>3. IsFiniteSet(Symbols)
    <2> DEFINE f == [p \in Position |-> p[2]]
    <2>1. f \in Surjection(Position, Symbols)
        BY DEF Surjection, Symbols
    <2> HIDE DEF f
    <2> QED
        BY <1>1, <2>1, FS_Surjection
<1>4. \A d \in ChartDays : \A p \in Position : perDay[d][p] \in Worths
    BY DEF WorldOK
<1>5. \A d \in ChartDays : \A p \in Position : perDay[d][p] # Absent => GroupOf(p) \in Keys
    BY DEF WorldOK, Held, Keys
<1>6. NoValue # Absent /\ NoValue \notin Values /\ Absent \notin Values
    BY ChartAssumption DEF NoValue, Absent
<1>7. \A d \in ChartDays : \A p \in Position : Exactly(d)[p] \in Int
    <2>1. \A v \in Values : v \in Int
        BY ChartAssumption
    <2> QED
        BY <2>1 DEF Exactly
<1>8. ASSUME NEW d \in ChartDays PROVE IsFiniteSet(Left(d)) /\ Left(d) \in SUBSET Position
    <2>1. Left(d) \in SUBSET Position
        BY DEF Left
    <2> QED
        BY <1>1, <2>1, FS_Subset
<1> QED
    BY <1>2, <1>3, <1>4, <1>5, <1>6, <1>7, <1>8

LEMMA InitChart ==
    ASSUME HistoryInit
    PROVE  ChartInv
<1>1. WorldOK
    BY DEF WorldOK, HistoryInit
<1>2. /\ acc = [x \in Keys \X ChartDays |-> NoSum] /\ series = << >> /\ merged = {}
      /\ todo = {x \in ChartDays \X Position : perDay[x[1]][x[2]] # Absent}
    BY DEF HistoryInit
<1>3. acc \in [Keys \X ChartDays -> GroupSum]
    BY <1>2, SumFacts
<1>4. ASSUME NEW d \in ChartDays
      PROVE  SumOf(Markets(d), Keys) + SumOf(Exactly(d), Left(d)) = SumOf(Exactly(d), Position)
    <2>1. SumOf(Markets(d), Keys) = 0
        <3> DEFINE w == Markets(d)
        <3>1. \A k \in Keys : w[k] = 0
            BY <1>2, SumFacts DEF Markets
        <3> HIDE DEF w
        <3>2. SumOf(w, Keys) = 0
            BY <1>1, <3>1, WorldFacts, SumOfZeros
        <3> QED
            BY <3>2 DEF w
    <2>2. Left(d) = Position
        BY <1>2 DEF Left
    <2>3. SumOf(Exactly(d), Position) \in Int
        BY <1>1, WorldFacts, SumAdds, ChartAssumption
    <2> QED
        BY <2>1, <2>2, <2>3
<1>5. ASSUME NEW k \in Keys, NEW d \in ChartDays
      PROVE  acc[<<k, d>>].unpriced = {p[2] : p \in MissingOf(k, d)}
    <2>1. MissingOf(k, d) = {}
        BY <1>1, <1>2, WorldFacts DEF MissingOf
    <2>2. acc[<<k, d>>].unpriced = {}
        BY <1>2, SumFacts
    <2> QED
        BY <2>1, <2>2
<1>6. AccOK
    BY <1>3, <1>4, <1>5 DEF AccOK, GroupSum, Symbols
<1> QED
    BY <1>1, <1>2, <1>6 DEF ChartInv, RowsOK

LEMMA AddChart ==
    ASSUME ChartInv, NEW e \in ChartDays, NEW q \in Position, Add(e, q)
    PROVE  ChartInv'
<1> DEFINE k0 == GroupOf(q)
           x0 == <<k0, e>>
           new == IF perDay[e][q] = NoValue THEN WithUnpriced(acc[x0], q)
                  ELSE WithMarket(acc[x0], perDay[e][q])
<1>1. WorldOK /\ AccOK /\ RowsOK
    BY DEF ChartInv
<1>2. /\ <<e, q>> \in todo /\ todo' = todo \ {<<e, q>>}
      /\ acc' = [acc EXCEPT ![x0] = new]
      /\ UNCHANGED <<by, known, perDay, series, merged, rows>>
    <2>1. /\ <<e, q>> \in todo /\ todo' = todo \ {<<e, q>>}
          /\ UNCHANGED <<by, known, perDay, series, merged, rows>>
        BY DEF Add
    <2>2. acc' = [acc EXCEPT ![x0] = new]
        BY Zenon DEF Add
    <2> QED
        BY <2>1, <2>2
<1>3. perDay[e][q] # Absent /\ k0 \in Keys /\ x0 \in Keys \X ChartDays
    <2>1. perDay[e][q] # Absent
        <3>1. perDay[<<e, q>>[1]][<<e, q>>[2]] # Absent
            BY <1>1, <1>2 DEF WorldOK
        <3> QED
            BY <3>1
    <2> QED
        BY <1>1, <2>1, WorldFacts
<1>4. acc \in [Keys \X ChartDays -> GroupSum] /\ acc[x0] \in GroupSum
    BY <1>1, <1>3 DEF AccOK, GroupSum, Symbols
<1>5. \/ /\ perDay[e][q] = NoValue /\ new.market = acc[x0].market
         /\ new.unpriced = acc[x0].unpriced \cup {q[2]}
         /\ new \in GroupSum
      \/ /\ perDay[e][q] \in Values /\ perDay[e][q] # NoValue /\ perDay[e][q] \in Int
         /\ new.market = acc[x0].market + perDay[e][q] /\ new.unpriced = acc[x0].unpriced
         /\ new \in GroupSum
    <2>1. CASE perDay[e][q] = NoValue
        BY <1>4, <2>1, SumFacts
    <2>2. CASE perDay[e][q] # NoValue
        <3>1. perDay[e][q] \in Values /\ perDay[e][q] \in Int
            <4>1. perDay[e][q] \in Worths
                BY <1>1, WorldFacts
            <4>2. \A v \in Values : v \in Int
                BY ChartAssumption
            <4> QED
                BY <1>3, <2>2, <4>1, <4>2 DEF Worths
        <3> QED
            BY <1>4, <2>2, <3>1, SumFacts
    <2> QED
        BY <2>1, <2>2
<1> HIDE DEF new, k0
<1>6. WorldOK'
    BY <1>1, <1>2 DEF WorldOK, Held
<1>7. Keys' = Keys /\ \A d \in ChartDays : Exactly(d)' = Exactly(d)
    BY <1>2 DEF Keys, GroupOf, Exactly
<1>8. acc' \in [Keys \X ChartDays -> GroupSum]
    BY <1>2, <1>4, <1>5
<1>9. \A k \in Keys, d \in ChartDays :
        acc'[<<k, d>>] = IF k = k0 /\ d = e THEN new ELSE acc[<<k, d>>]
    BY <1>2, <1>4
<1>10. ASSUME NEW d \in ChartDays
       PROVE  SumOf(Markets(d)', Keys) + SumOf(Exactly(d), Left(d)') = SumOf(Exactly(d), Position)
    <2> DEFINE v == Markets(d)
               w == Markets(d)'
               z == Exactly(d)
               L == Left(d)
    <2>1. SumOf(v, Keys) + SumOf(z, L) = SumOf(z, Position)
        BY <1>1 DEF AccOK
    <2>2. \A k \in Keys : /\ v[k] \in Int /\ w[k] \in Int
                          /\ v[k] = acc[<<k, d>>].market /\ w[k] = acc'[<<k, d>>].market
        BY <1>4, <1>7, <1>8 DEF Markets, GroupSum
    <2>3. CASE d # e
        <3>1. Left(d)' = L
            BY <1>2, <2>3 DEF Left
        <3>2. \A k \in Keys : v[k] = w[k]
            BY <1>9, <2>2, <2>3
        <3> HIDE DEF v, w, z, L
        <3>3. SumOf(v, Keys) = SumOf(w, Keys)
            BY <1>1, <2>2, <3>2, SumOfSame, WorldFacts
        <3> QED
            BY <2>1, <3>1, <3>3 DEF v, w, z
    <2>4. CASE d = e
        <3>1. Left(d)' = L \ {q} /\ q \in L
            BY <1>2, <1>3, <2>4 DEF Left
        <3>2. IsFiniteSet(L) /\ (\A p \in L : z[p] \in Int) /\ IsFiniteSet(Keys)
            BY <1>1, WorldFacts
        <3>3. \A k \in Keys \ {k0} : v[k] = w[k]
            BY <1>9, <2>2
        <3>4. /\ v[k0] = acc[x0].market /\ w[k0] = new.market
            BY <1>3, <1>9, <2>2, <2>4
        <3>5. z[q] = IF perDay[e][q] \in Values THEN perDay[e][q] ELSE 0
            BY <2>4 DEF Exactly
        <3>6. w[k0] - v[k0] = z[q]
            <4>1. NoValue \notin Values /\ acc[x0].market \in Int
                BY <1>1, <1>4, WorldFacts DEF GroupSum
            <4> HIDE DEF v, w, z, L
            <4> QED
                BY <1>5, <3>4, <3>5, <4>1
        <3> HIDE DEF v, w, z, L
        <3>7. SumOf(w, Keys) = SumOf(v, Keys) + (w[k0] - v[k0])
            <4>1. \A k \in Keys : v[k] \in Int /\ w[k] \in Int
                BY <2>2
            <4> QED
                BY <1>3, <3>2, <3>3, <4>1, SumOfChanged
        <3>8. SumOf(z, L) = z[q] + SumOf(z, L \ {q}) /\ SumOf(z, L \ {q}) \in Int
            <4>1. IsFiniteSet(L \ {q})
                BY <3>2, FS_RemoveElement
            <4> QED
                BY <3>1, <3>2, <4>1, SumAdds
        <3>9. SumOf(v, Keys) \in Int /\ z[q] \in Int
            BY <2>2, <3>1, <3>2, SumAdds
        <3>10. SumOf(w, Keys) + SumOf(z, L \ {q}) = SumOf(z, Position)
            BY <2>1, <3>6, <3>7, <3>8, <3>9
        <3> QED
            BY <3>1, <3>10 DEF w, z
    <2> QED
        BY <2>3, <2>4
<1>11. ASSUME NEW k \in Keys, NEW d \in ChartDays
       PROVE  acc'[<<k, d>>].unpriced = {p[2] : p \in MissingOf(k, d)'}
    <2>1. acc[<<k, d>>].unpriced = {p[2] : p \in MissingOf(k, d)}
        BY <1>1 DEF AccOK
    <2>2. MissingOf(k, d)' = {p \in Position : GroupOf(p) = k /\ perDay[d][p] = NoValue
                                               /\ <<d, p>> \notin todo \ {<<e, q>>}}
        BY <1>2 DEF MissingOf, GroupOf
    <2>3. CASE k = k0 /\ d = e /\ perDay[e][q] = NoValue
        <3>1. MissingOf(k, d)' = MissingOf(k, d) \cup {q}
            BY <2>2, <2>3 DEF MissingOf, k0
        <3>2. acc'[<<k, d>>].unpriced = acc[<<k, d>>].unpriced \cup {q[2]}
            BY <1>5, <1>9, <2>3
        <3> QED
            BY <2>1, <3>1, <3>2
    <2>4. CASE ~(k = k0 /\ d = e /\ perDay[e][q] = NoValue)
        <3>1. MissingOf(k, d)' = MissingOf(k, d)
            BY <2>2, <2>4 DEF MissingOf, k0
        <3>2. acc'[<<k, d>>].unpriced = acc[<<k, d>>].unpriced
            BY <1>5, <1>9, <2>4
        <3> QED
            BY <2>1, <3>1, <3>2
    <2> QED
        BY <2>3, <2>4
<1>12. AccOK'
    <2>1. \A d \in ChartDays : SumOf(Markets(d)', Keys') + SumOf(Exactly(d)', Left(d)')
                                = SumOf(Exactly(d)', Position)
        BY <1>7, <1>10
    <2>2. \A k \in Keys', d \in ChartDays :
            acc'[<<k, d>>].unpriced = {p[2] : p \in MissingOf(k, d)'}
        BY <1>7, <1>11
    <2>3. acc' \in [Keys' \X ChartDays -> [market : Int, unpriced : SUBSET {p[2] : p \in Position}]]
        BY <1>7, <1>8 DEF GroupSum, Symbols
    <2> QED
        BY <2>1, <2>2, <2>3 DEF AccOK
<1>13. RowsOK'
    BY <1>1, <1>2 DEF RowsOK
<1> QED
    BY <1>6, <1>12, <1>13 DEF ChartInv

\* What is unchanged while the rows are made.
LEMMA ChartStays ==
    ASSUME UNCHANGED <<by, known, perDay, todo, acc>>
    PROVE  /\ WorldOK => WorldOK'
           /\ AccOK => AccOK'
           /\ Keys' = Keys
           /\ \A d : Markets(d)' = Markets(d) /\ \A M : Named(d, M)' = Named(d, M)
<1>1. Keys' = Keys
    BY DEF Keys, GroupOf
<1>2. ASSUME NEW d PROVE /\ Markets(d)' = Markets(d) /\ Exactly(d)' = Exactly(d)
                         /\ Left(d)' = Left(d) /\ \A M : Named(d, M)' = Named(d, M)
                         /\ \A k : MissingOf(k, d)' = MissingOf(k, d)
    BY <1>1 DEF Markets, Exactly, Left, Named, MissingOf, GroupOf
<1>3. WorldOK => WorldOK'
    BY DEF WorldOK, Held
<1>4. AccOK => AccOK'
    BY <1>1, <1>2 DEF AccOK
<1> QED
    BY <1>1, <1>2, <1>3, <1>4

LEMMA AnswerChart ==
    ASSUME ChartInv, Answer
    PROVE  ChartInv'
<1>1. WorldOK /\ AccOK /\ RowsOK
    BY DEF ChartInv
<1>2. /\ todo = {} /\ series = << >>
      /\ series' = [k \in Keys |-> [d \in ChartDays |-> Point(k, d)]]
      /\ rows' = [d \in ChartDays |-> [unpricedCount |-> 0, values |-> << >>]]
      /\ UNCHANGED <<by, known, perDay, todo, acc, merged>>
    BY DEF Answer
<1>3. WorldOK' /\ AccOK' /\ Keys' = Keys
    BY <1>1, <1>2, ChartStays
<1>4. ASSUME known # {}, series = << >> PROVE merged = {}
    <2>1. PICK p \in known : TRUE
        BY <1>4
    <2>2. Keys # {}
        BY <2>1 DEF Keys
    <2>3. CASE series = [k \in Keys |-> [d \in ChartDays |-> Point(k, d)]]
        <3>1. DOMAIN series = Keys
            BY <2>3
        <3> QED
            BY <1>4, <2>2, <3>1
    <2> QED
        BY <1>1, <2>3 DEF RowsOK
<1>5. merged = {}
    BY <1>4 DEF Answer
<1>6. ASSUME NEW d \in ChartDays PROVE RowOK(d)'
    <2>1. rows'[d].unpricedCount = 0 /\ rows'[d].values = << >>
        BY <1>2
    <2>2. merged' = {} /\ Cardinality({}) = 0 /\ IsFiniteSet({})
        BY <1>2, <1>5, FS_EmptySet
    <2>3. \A w : SumOf(w, {}) = 0
        BY <2>2, SumAdds
    <2>4. Named(d, merged)' = {}
        BY <2>2 DEF Named
    <2>5. Off(d)' = 0
        BY <2>2, <2>3, ChartAssumption DEF Off
    <2>6. Unit * Cardinality(merged') = 0
        BY <2>2, ChartAssumption
    <2>7. DOMAIN << >> = {} /\ Cardinality(Named(d, merged)') = 0
        BY <2>2, <2>4
    <2> QED
        BY <2>1, <2>2, <2>5, <2>6, <2>7 DEF RowOK
<1>7. RowsOK'
    <2>1. series' = [k \in Keys' |-> [d \in ChartDays |-> Point(k, d)']]
        <3>1. \A k, d : Point(k, d)' = Point(k, d)
            BY <1>2 DEF Point, Round
        <3> QED
            BY <1>2, <1>3, <3>1
    <2> QED
        BY <1>2, <1>5, <1>6, <2>1 DEF RowsOK
<1> QED
    BY <1>3, <1>7 DEF ChartInv

\* The points of a group.
LEMMA PointFacts ==
    ASSUME WorldOK, AccOK, NEW k \in Keys, NEW d \in ChartDays
    PROVE  /\ acc[<<k, d>>].market \in Int /\ Markets(d)[k] = acc[<<k, d>>].market
           /\ acc[<<k, d>>].unpriced \in SUBSET Symbols /\ IsFiniteSet(acc[<<k, d>>].unpriced)
           /\ Cardinality(acc[<<k, d>>].unpriced) \in Nat
           /\ Point(k, d).market = Round(acc[<<k, d>>].market)
           /\ Point(k, d).unpriced = Cardinality(acc[<<k, d>>].unpriced)
           /\ Round(acc[<<k, d>>].market) \in Int
<1>1. acc[<<k, d>>] \in GroupSum
    BY DEF AccOK, GroupSum, Symbols
<1>2. acc[<<k, d>>].market \in Int /\ acc[<<k, d>>].unpriced \in SUBSET Symbols
    BY <1>1 DEF GroupSum
<1>3. IsFiniteSet(acc[<<k, d>>].unpriced) /\ Cardinality(acc[<<k, d>>].unpriced) \in Nat
    BY <1>2, WorldFacts, FS_Subset, FS_CardinalityType
<1>4. Round(acc[<<k, d>>].market) \in Int
    BY <1>2, RoundIsNear, ChartAssumption
<1> QED
    BY <1>2, <1>3, <1>4 DEF Markets, Point

\* The assets of two groups are different ones unless the groups are accounts.
LEMMA NamedFacts ==
    ASSUME WorldOK, AccOK, NEW M \in SUBSET Keys, NEW k \in Keys \ M, NEW d \in ChartDays
    PROVE  /\ Named(d, M \cup {k}) = Named(d, M) \cup acc[<<k, d>>].unpriced
           /\ IsFiniteSet(Named(d, M))
           /\ by # "account" => Named(d, M) \cap acc[<<k, d>>].unpriced = {}
<1>1. Named(d, M \cup {k}) = Named(d, M) \cup acc[<<k, d>>].unpriced
    BY DEF Named
<1>2. \A j \in M : acc[<<j, d>>].unpriced \in SUBSET Symbols
    BY PointFacts
<1>3. IsFiniteSet(Named(d, M))
    <2>1. Named(d, M) \in SUBSET Symbols
        BY <1>2 DEF Named
    <2> QED
        BY <2>1, WorldFacts, FS_Subset
<1>4. CASE by = "none"
    <2>1. \A j \in Keys : j = "total"
        BY <1>4 DEF Keys, GroupOf
    <2>2. M = {}
        BY <2>1
    <2> QED
        BY <1>1, <1>3, <2>2 DEF Named
<1>5. CASE by = "asset"
    <2>1. \A j \in Keys : \A a \in acc[<<j, d>>].unpriced : a = j
        <3>1. ASSUME NEW j \in Keys, NEW a \in acc[<<j, d>>].unpriced PROVE a = j
            <4>1. PICK p \in MissingOf(j, d) : a = p[2]
                BY DEF AccOK
            <4> QED
                BY <1>5, <4>1 DEF MissingOf, GroupOf
        <3> QED
            BY <3>1
    <2>2. Named(d, M) \cap acc[<<k, d>>].unpriced = {}
        BY <2>1 DEF Named
    <2> QED
        BY <1>1, <1>3, <2>2
<1>6. CASE by = "account"
    BY <1>1, <1>3, <1>6
<1> QED
    BY <1>4, <1>5, <1>6 DEF WorldOK

LEMMA MergeRow ==
    ASSUME WorldOK, AccOK, NEW d \in ChartDays, RowOK(d), merged \in SUBSET Keys,
           NEW k \in Keys \ merged, merged' = merged \cup {k}, d \in DOMAIN rows',
           UNCHANGED <<by, known, perDay, todo, acc>>,
           rows'[d] = [unpricedCount |-> rows[d].unpricedCount + Point(k, d).unpriced,
                       values |-> [j \in DOMAIN rows[d].values \cup {k} |->
                           IF j = k THEN Point(k, d).market ELSE rows[d].values[j]]]
    PROVE  RowOK(d)'
<1> DEFINE old == rows[d].values
           v == rows'[d].values
           m == Markets(d)
           a == acc[<<k, d>>]
           point == Round(a.market)
           c == Cardinality(merged)
<1>1. /\ a.market \in Int /\ m[k] = a.market /\ point \in Int
      /\ IsFiniteSet(a.unpriced) /\ Cardinality(a.unpriced) \in Nat
      /\ Point(k, d).market = point /\ Point(k, d).unpriced = Cardinality(a.unpriced)
    BY PointFacts
<1>2. /\ DOMAIN old = merged /\ \A j \in merged : old[j] = Round(acc[<<j, d>>].market)
      /\ 0 - Unit * c <= Off(d) /\ Off(d) <= Unit * c
      /\ rows[d].unpricedCount \in Int
      /\ rows[d].unpricedCount >= Cardinality(Named(d, merged))
      /\ by # "account" => rows[d].unpricedCount = Cardinality(Named(d, merged))
    BY DEF RowOK
<1>3. /\ v = [j \in merged \cup {k} |-> IF j = k THEN point ELSE old[j]]
      /\ rows'[d].unpricedCount = rows[d].unpricedCount + Cardinality(a.unpriced)
    BY <1>1, <1>2
<1>4. IsFiniteSet(merged) /\ c \in Nat /\ Cardinality(merged \cup {k}) = c + 1
    BY WorldFacts, FS_Subset, FS_CardinalityType, FS_AddElement
<1>5. \A j \in merged : old[j] \in Int /\ m[j] \in Int /\ v[j] = old[j]
    <2>1. \A j \in merged : old[j] \in Int /\ m[j] \in Int
        BY <1>2, PointFacts
    <2> HIDE DEF old, v, m
    <2> QED
        BY <1>3, <2>1
<1>6. v[k] = point /\ DOMAIN v = merged \cup {k}
    BY <1>3
<1> HIDE DEF v, old, m, a
<1>7. SumOf(v, merged \cup {k}) = SumOf(old, merged) + point
    <2>1. \A j \in merged \cup {k} : v[j] \in Int
        BY <1>1, <1>5, <1>6
    <2>2. SumOf(v, merged \cup {k}) = SumOf(v, merged) + v[k]
        BY <1>4, <2>1, SumOfOneMore
    <2>3. SumOf(v, merged) = SumOf(old, merged)
        BY <1>4, <1>5, SumOfSame
    <2> QED
        BY <1>6, <2>2, <2>3
<1>8. SumOf(m, merged \cup {k}) = SumOf(m, merged) + a.market
    <2>1. \A j \in merged \cup {k} : m[j] \in Int
        BY <1>1, <1>5
    <2>2. SumOf(m, merged \cup {k}) = SumOf(m, merged) + m[k]
        BY <1>4, <2>1, SumOfOneMore
    <2> QED
        BY <1>1, <2>2
<1>9. SumOf(old, merged) \in Int /\ SumOf(m, merged) \in Int
    <2>1. (\A j \in merged : old[j] \in Int) /\ \A j \in merged : m[j] \in Int
        BY <1>5
    <2> QED
        BY <1>4, <2>1, SumAdds
<1>10. Off(d)' = Off(d) + 2 * (point * Unit - a.market) /\ Off(d) \in Int
    <2>1. Markets(d)' = m
        BY ChartStays DEF m
    <2>2. Off(d)' = 2 * (SumOf(v, merged \cup {k}) * Unit - SumOf(m, merged \cup {k}))
        BY <2>1 DEF Off, v
    <2>3. Off(d) = 2 * (SumOf(old, merged) * Unit - SumOf(m, merged))
        BY DEF Off, old, m
    <2> DEFINE s == SumOf(old, merged)
               r == SumOf(m, merged)
    <2>4. Unit \in Int
        BY ChartAssumption
    <2>5. (s + point) * Unit = s * Unit + point * Unit /\ s * Unit \in Int /\ point * Unit \in Int
        BY <1>1, <1>9, <2>4
    <2>6. Off(d)' = 2 * ((s + point) * Unit - (r + a.market))
        BY <1>7, <1>8, <2>2
    <2> HIDE DEF s, r
    <2>7. Off(d)' = 2 * (s * Unit - r) + 2 * (point * Unit - a.market)
        BY <1>1, <1>9, <2>5, <2>6 DEF s, r
    <2>8. 2 * (s * Unit - r) \in Int
        BY <1>9, <2>5 DEF s, r
    <2> QED
        BY <2>3, <2>7, <2>8 DEF s, r
<1>11. 0 - Unit * (c + 1) <= Off(d)' /\ Off(d)' <= Unit * (c + 1)
    <2> DEFINE step == 2 * (point * Unit - a.market)
    <2>1. 0 - Unit <= step /\ step <= Unit
        BY <1>1, RoundIsNear, ChartAssumption
    <2>2. step \in Int /\ Unit \in Int
        BY <1>1, ChartAssumption
    <2>3. Unit * (c + 1) = Unit * c + Unit /\ Unit * c \in Int
        BY <1>4, <2>2
    <2> HIDE DEF step, c
    <2>4. Off(d)' = Off(d) + step
        BY <1>10 DEF step
    <2> QED
        BY <1>2, <1>10, <2>1, <2>2, <2>3, <2>4
<1>12. /\ rows'[d].unpricedCount \in Int
       /\ rows'[d].unpricedCount >= Cardinality(Named(d, merged \cup {k}))
       /\ by # "account" => rows'[d].unpricedCount = Cardinality(Named(d, merged \cup {k}))
    <2> DEFINE N == Named(d, merged)
               U == a.unpriced
    <2>1. /\ Named(d, merged \cup {k}) = N \cup U /\ IsFiniteSet(N)
          /\ by # "account" => N \cap U = {}
        BY NamedFacts DEF a
    <2> HIDE DEF N
    <2>2. /\ Cardinality(N \cup U) = Cardinality(N) + Cardinality(U) - Cardinality(N \cap U)
          /\ Cardinality(N) \in Nat /\ Cardinality(N \cap U) \in Nat
        BY <1>1, <2>1, FS_Union, FS_Intersection, FS_CardinalityType
    <2>3. N \cap U = {} => Cardinality(N \cap U) = 0
        BY FS_EmptySet
    <2> HIDE DEF U
    <2>4. /\ rows'[d].unpricedCount = rows[d].unpricedCount + Cardinality(U)
          /\ Cardinality(U) \in Nat
          /\ rows[d].unpricedCount \in Int /\ rows[d].unpricedCount >= Cardinality(N)
          /\ by # "account" => rows[d].unpricedCount = Cardinality(N)
        BY <1>1, <1>2, <1>3 DEF N, U
    <2>5. by # "account" => Cardinality(N \cap U) = 0
        BY <2>1, <2>3
    <2>6. Cardinality(Named(d, merged \cup {k}))
          = Cardinality(N) + Cardinality(U) - Cardinality(N \cap U)
        BY <2>1, <2>2
    <2> QED
        BY <2>2, <2>4, <2>5, <2>6
<1>13. \A M : Named(d, M)' = Named(d, M)
    BY ChartStays
<1>14. \A j \in merged \cup {k} : v[j] = Round(acc[<<j, d>>].market)
    BY <1>2, <1>3, <1>5, <1>6 DEF a
<1>15. /\ acc' = acc /\ by' = by /\ merged' = merged \cup {k} /\ rows'[d].values = v
       /\ Cardinality(merged') = c + 1
    BY <1>4 DEF v
<1>16. Named(d, merged)' = Named(d, merged \cup {k})
    BY <1>13, <1>15
<1>17. \A j \in merged' : rows'[d].values[j] = Round(acc'[<<j, d>>].market)
    BY <1>14, <1>15
<1> QED
    BY <1>6, <1>11, <1>12, <1>15, <1>16, <1>17 DEF RowOK

LEMMA MergeChart ==
    ASSUME ChartInv, NEW k, Merge(k)
    PROVE  ChartInv'
<1>1. WorldOK /\ AccOK /\ RowsOK
    BY DEF ChartInv
<1>2. /\ k \in DOMAIN series \ merged /\ merged' = merged \cup {k}
      /\ rows' = [d \in DOMAIN rows |->
            [unpricedCount |-> rows[d].unpricedCount + series[k][d].unpriced,
             values |-> [j \in DOMAIN rows[d].values \cup {k} |->
                            IF j = k THEN series[k][d].market ELSE rows[d].values[j]]]]
      /\ UNCHANGED <<by, known, perDay, todo, acc, series>>
    BY DEF Merge
<1>3. /\ todo = {} /\ merged \in SUBSET Keys /\ DOMAIN rows = ChartDays /\ series # << >>
      /\ series = [j \in Keys |-> [d \in ChartDays |-> Point(j, d)]]
      /\ \A d \in ChartDays : RowOK(d)
    <2>1. series # << >>
        BY <1>2
    <2> QED
        BY <1>1, <2>1 DEF RowsOK
<1>4. k \in Keys \ merged
    BY <1>2, <1>3
<1>5. WorldOK' /\ AccOK' /\ Keys' = Keys
    BY <1>1, <1>2, ChartStays
<1>6. ASSUME NEW d \in ChartDays PROVE RowOK(d)'
    <2>1. series[k][d] = Point(k, d)
        BY <1>3, <1>4
    <2>2. rows'[d] = [unpricedCount |-> rows[d].unpricedCount + Point(k, d).unpriced,
                      values |-> [j \in DOMAIN rows[d].values \cup {k} |->
                          IF j = k THEN Point(k, d).market ELSE rows[d].values[j]]]
        BY <1>2, <1>3, <2>1
    <2>3. d \in DOMAIN rows'
        BY <1>2, <1>3
    <2> QED
        BY <1>1, <1>2, <1>3, <1>4, <2>2, <2>3, MergeRow
<1>7. RowsOK'
    <2>1. \A j, d : Point(j, d)' = Point(j, d)
        BY <1>2 DEF Point, Round
    <2>2. DOMAIN rows' = ChartDays /\ merged' \in SUBSET Keys' /\ todo' = {}
        BY <1>2, <1>3, <1>4, <1>5
    <2>3. series' = [j \in Keys' |-> [d \in ChartDays |-> Point(j, d)']]
        BY <1>2, <1>3, <1>5, <2>1
    <2> QED
        BY <1>6, <2>2, <2>3 DEF RowsOK
<1> QED
    BY <1>5, <1>7 DEF ChartInv

LEMMA ChartStep ==
    ASSUME ChartInv, [HistoryNext]_historyVars
    PROVE  ChartInv'
<1>1. ASSUME NEW d \in ChartDays, NEW p \in Position, Add(d, p) PROVE ChartInv'
    BY <1>1, AddChart
<1>2. CASE Answer
    BY <1>2, AnswerChart
<1>3. ASSUME NEW k \in DOMAIN series, Merge(k) PROVE ChartInv'
    BY <1>3, MergeChart
<1>4. CASE UNCHANGED historyVars
    <2>1. UNCHANGED <<by, known, perDay, todo, acc, series, merged, rows>>
        BY <1>4 DEF historyVars
    <2>2. WorldOK' /\ AccOK' /\ Keys' = Keys
        BY <2>1, ChartStays DEF ChartInv
    <2>3. RowsOK'
        <3>1. ASSUME NEW d PROVE RowOK(d)' <=> RowOK(d)
            <4>1. Off(d)' = Off(d) /\ Named(d, merged)' = Named(d, merged)
                BY <2>1, ChartStays DEF Off
            <4> QED
                BY <2>1, <4>1 DEF RowOK, Round
        <3>2. \A j, d : Point(j, d)' = Point(j, d)
            BY <2>1 DEF Point, Round
        <3> QED
            BY <2>1, <2>2, <3>1, <3>2 DEF ChartInv, RowsOK
    <2> QED
        BY <2>2, <2>3 DEF ChartInv
<1> QED
    BY <1>1, <1>2, <1>3, <1>4 DEF HistoryNext

\* When everything is added up, the groups hold the exact value of each day and
\* name each asset without a value.
LEMMA AllAdded ==
    ASSUME WorldOK, AccOK, todo = {}, NEW d \in ChartDays
    PROVE  /\ SumOf(Markets(d), Keys) = Exact(d) /\ Exact(d) \in Int
           /\ Named(d, Keys) = {p[2] : p \in Unpriced(d)}
<1> DEFINE L == Left(d)
           w == Exactly(d)
           v == Markets(d)
<1>1. SumOf(v, Keys) + SumOf(w, L) = SumOf(w, Position)
    BY DEF AccOK
<1>2. /\ IsFiniteSet(L) /\ IsFiniteSet(Keys) /\ IsFiniteSet(Position)
      /\ \A p \in Position : w[p] \in Int
    BY WorldFacts, ChartAssumption
<1>3. \A p \in L : w[p] = 0
    BY WorldFacts DEF Left, Exactly
<1>4. \A k \in Keys : v[k] \in Int
    BY PointFacts
<1>5. Exact(d) = SumOf(w, Position)
    BY ExactIsSum
<1>6. SumOf(v, Keys) = Exact(d) /\ Exact(d) \in Int
    <2> HIDE DEF L, w, v
    <2>1. SumOf(w, L) = 0
        BY <1>2, <1>3, SumOfZeros
    <2>2. SumOf(v, Keys) \in Int
        BY <1>2, <1>4, SumAdds
    <2>3. SumOf(w, Position) \in Int
        BY <1>2, SumAdds
    <2> QED
        BY <1>1, <1>5, <2>1, <2>2, <2>3
<1>7. Named(d, Keys) = {p[2] : p \in Unpriced(d)}
    <2>1. ASSUME NEW a \in Named(d, Keys) PROVE a \in {p[2] : p \in Unpriced(d)}
        <3>1. PICK k \in Keys : a \in acc[<<k, d>>].unpriced
            BY DEF Named
        <3>2. PICK p \in MissingOf(k, d) : a = p[2]
            BY <3>1 DEF AccOK
        <3> QED
            BY <3>2 DEF MissingOf, Unpriced
    <2>2. ASSUME NEW p \in Unpriced(d) PROVE p[2] \in Named(d, Keys)
        <3> DEFINE k == GroupOf(p)
        <3>1. k \in Keys /\ p \in Position
            BY WorldFacts DEF Unpriced
        <3>2. p \in MissingOf(k, d)
            BY <3>1 DEF MissingOf, Unpriced
        <3>3. p[2] \in acc[<<k, d>>].unpriced
            BY <3>1, <3>2 DEF AccOK
        <3> QED
            BY <3>1, <3>3 DEF Named
    <2> QED
        BY <2>1, <2>2
<1> QED
    BY <1>6, <1>7

\* resolve_history and the page: the stack of each day is off by half a yen a
\* series at most, and the assets without a value are all counted, once if no two
\* groups share one.
THEOREM ChartIsExact == HistorySpec => []ChartAddsUp
<1>1. ChartInv => ChartAddsUp
    <2> SUFFICES ASSUME ChartInv, Charted, NEW d \in ChartDays
                 PROVE  LET stack == MapThenSumSet(LAMBDA k : rows[d].values[k], DOMAIN series)
                            off == stack * Unit - Exact(d)
                            assets == Cardinality({p[2] : p \in Unpriced(d)})
                            n == Cardinality(DOMAIN series)
                        IN  /\ DOMAIN rows[d].values = DOMAIN series
                            /\ 2 * off \in -(Unit * n) .. Unit * n
                            /\ rows[d].unpricedCount >= assets
                            /\ by # "account" => rows[d].unpricedCount = assets
        BY DEF ChartAddsUp
    <2>1. WorldOK /\ AccOK /\ series # << >> /\ merged = DOMAIN series
        BY DEF ChartInv, Charted
    <2>2. todo = {} /\ DOMAIN series = Keys /\ merged = Keys /\ RowOK(d)
        BY <2>1 DEF ChartInv, RowsOK
    <2>3. /\ SumOf(Markets(d), Keys) = Exact(d) /\ Exact(d) \in Int
          /\ Named(d, Keys) = {p[2] : p \in Unpriced(d)}
        BY <2>1, <2>2, AllAdded
    <2> DEFINE stack == SumOf(rows[d].values, Keys)
    <2>4. MapThenSumSet(LAMBDA k : rows[d].values[k], Keys) = stack
        BY DEF SumOf
    <2>5. stack \in Int /\ Unit \in Int /\ Cardinality(Keys) \in Int
        <3>1. \A k \in Keys : rows[d].values[k] \in Int
            BY <2>1, <2>2, PointFacts DEF RowOK
        <3>2. IsFiniteSet(Keys)
            BY <2>1, WorldFacts
        <3> QED
            BY <3>1, <3>2, SumAdds, FS_CardinalityType, ChartAssumption
    <2> HIDE DEF stack
    <2>6. Off(d) = 2 * (stack * Unit - Exact(d))
        BY <2>2, <2>3 DEF Off, stack
    <2>7. 0 - Unit * Cardinality(Keys) <= Off(d) /\ Off(d) <= Unit * Cardinality(Keys)
        BY <2>2 DEF RowOK
    <2>8. stack * Unit \in Int /\ Unit * Cardinality(Keys) \in Int
        BY <2>5
    <2>9. 2 * (stack * Unit - Exact(d)) \in -(Unit * Cardinality(Keys)) .. Unit * Cardinality(Keys)
        BY <2>3, <2>6, <2>7, <2>8
    <2> QED
        BY <2>2, <2>3, <2>4, <2>9 DEF RowOK
<1>2. ChartInv /\ [HistoryNext]_historyVars => ChartInv'
    BY ChartStep
<1>3. HistoryInit => ChartInv
    BY InitChart
<1> QED
    BY <1>1, <1>2, <1>3, PTL DEF HistorySpec

-----------------------------------------------------------------------------
(* The list of holdings.  What one item adds to the totals is added to the *)
(* totals of one account, the last: so the totals are the sums over the    *)
(* accounts after every item.  As the items are sorted by the name of the  *)
(* account first, an account that is left never comes again.               *)

Field == DOMAIN Zero

AnyTotal == [book_value : Int, priced_book_value : Int, market_value : Int,
             unrealized_pnl : Int, realized_pnl : Int, unpriced_count : Int]

AnyTotals == UNION {[K -> AnyTotal] : K \in SUBSET Currency}

AnyItem == [account : Account, asset : Asset, currency : Currency, price : Int, book_value : Int,
            realized_pnl : Int, market_value : Int, unrealized_pnl : Int]

\* An item without a price is in neither of the two amounts that have one.
Valued ==
    {x \in AnyItem :
        x.market_value - x.unrealized_pnl = IF x.price = NoPrice THEN 0 ELSE x.book_value}

Group == [account : Account, totals : AnyTotals]

LEMMA ItemFacts ==
    ASSUME world \in Worlds, NEW p \in DOMAIN world.folded
    PROVE  Item(p) \in Valued
<1> DEFINE h == world.folded[p]
           price == world.price[p[2]]
<1>1. p \in Account \X Asset /\ h \in Folded
    BY DEF Worlds
<1>2. p[1] \in Account /\ p[2] \in Asset
    BY <1>1
<1>3. world.price \in [Asset -> Price \cup {NoPrice}] /\ world.currency \in [Asset -> Currency]
    BY DEF Worlds
<1>4. price \in Int /\ world.currency[p[2]] \in Currency
    <2>1. \A x \in Price \cup {NoPrice} : x \in Int
        BY HoldingsAssumption DEF NoPrice
    <2> QED
        BY <1>2, <1>3, <2>1
<1>5. h.quantity \in Int /\ h.book_value \in Int /\ h.realized_pnl \in Int
    BY <1>1, HoldingsAssumption
<1>6. h.quantity * price \in Int
    <2> HIDE DEF h, price
    <2> QED  BY <1>4, <1>5
<1> DEFINE market == IF price = NoPrice THEN 0 ELSE h.quantity * price
           gain == IF price = NoPrice THEN 0 ELSE market - h.book_value
<1>7. /\ market \in Int /\ gain \in Int
      /\ market - gain = IF price = NoPrice THEN 0 ELSE h.book_value
    <2> HIDE DEF h, price
    <2> QED  BY <1>5, <1>6
<1>8. Item(p) = [account |-> p[1], asset |-> p[2], currency |-> world.currency[p[2]],
                 price |-> price, book_value |-> h.book_value, realized_pnl |-> h.realized_pnl,
                 market_value |-> market, unrealized_pnl |-> gain]
    BY DEF Item
<1> HIDE DEF h, price, market, gain
<1> QED
    BY <1>2, <1>4, <1>5, <1>7, <1>8 DEF Valued, AnyItem

-----------------------------------------------------------------------------
(* What an item adds.                                                      *)

Share(x) == Accumulate(Zero, x)
Amount(ts, c, f) == IF c \in DOMAIN ts THEN ts[c][f] ELSE 0

\* A total fits together, as the page reads it.
Consistent(t) ==
    /\ t.market_value - t.unrealized_pnl = t.priced_book_value
    /\ t.unpriced_count \in Nat
    /\ t.unpriced_count = 0 => t.priced_book_value = t.book_value

LEMMA Fields ==
    Field = {"book_value", "priced_book_value", "market_value", "unrealized_pnl",
             "realized_pnl", "unpriced_count"}
BY DEF Field, Zero

LEMMA ZeroFacts == Zero \in AnyTotal /\ Consistent(Zero) /\ \A f \in Field : Zero[f] = 0
BY Fields DEF AnyTotal, Consistent, Zero

LEMMA AnyTotalFacts ==
    ASSUME NEW t \in AnyTotal
    PROVE  \A f \in Field : t[f] \in Int
BY Fields DEF AnyTotal

LEMMA AccumulateFacts ==
    ASSUME NEW t \in AnyTotal, NEW x \in Valued
    PROVE  /\ Accumulate(t, x) \in AnyTotal
           /\ \A f \in Field : Accumulate(t, x)[f] = t[f] + Share(x)[f]
           /\ Consistent(t) => Consistent(Accumulate(t, x))
<1>1. /\ x.book_value \in Int /\ x.realized_pnl \in Int /\ x.market_value \in Int
      /\ x.unrealized_pnl \in Int
      /\ x.market_value - x.unrealized_pnl = IF x.price = NoPrice THEN 0 ELSE x.book_value
    BY DEF Valued, AnyItem
<1>2. /\ t.book_value \in Int /\ t.priced_book_value \in Int /\ t.market_value \in Int
      /\ t.unrealized_pnl \in Int /\ t.realized_pnl \in Int /\ t.unpriced_count \in Int
    BY DEF AnyTotal
<1>3. Accumulate(t, x) \in AnyTotal
    BY <1>1, <1>2 DEF Accumulate, AnyTotal
<1>4. \A f \in Field : Accumulate(t, x)[f] = t[f] + Share(x)[f]
    BY <1>1, <1>2, Fields DEF Accumulate, Share, Zero
<1>5. Consistent(t) => Consistent(Accumulate(t, x))
    BY <1>1, <1>2 DEF Accumulate, Consistent
<1> QED
    BY <1>3, <1>4, <1>5

LEMMA AmountFacts ==
    ASSUME NEW ts \in AnyTotals, NEW c, NEW f \in Field
    PROVE  Amount(ts, c, f) \in Int
<1>1. c \in DOMAIN ts => ts[c] \in AnyTotal
    BY DEF AnyTotals
<1> QED
    BY <1>1, AnyTotalFacts DEF Amount

\* totals_by_currency: one more item adds its share to the totals of its currency.
LEMMA TotalsWithFacts ==
    ASSUME NEW ts \in AnyTotals, NEW x \in Valued
    PROVE  /\ TotalsWith(ts, x) \in AnyTotals
           /\ \A f \in Field : Share(x)[f] \in Int
           /\ \A c : \A f \in Field :
                Amount(TotalsWith(ts, x), c, f)
                = Amount(ts, c, f) + IF c = x.currency THEN Share(x)[f] ELSE 0
           /\ (\A c \in DOMAIN ts : Consistent(ts[c])) =>
                \A c \in DOMAIN TotalsWith(ts, x) : Consistent(TotalsWith(ts, x)[c])
<1> DEFINE old(c) == IF c \in DOMAIN ts THEN ts[c] ELSE Zero
           new(c) == IF c = x.currency THEN Accumulate(old(c), x) ELSE old(c)
           D == DOMAIN ts \cup {x.currency}
<1>1. TotalsWith(ts, x) = [c \in D |-> new(c)]
    BY DEF TotalsWith
<1>2. D \in SUBSET Currency
    BY DEF AnyTotals, Valued, AnyItem
<1>3. ASSUME NEW c
      PROVE  /\ old(c) \in AnyTotal /\ new(c) \in AnyTotal
             /\ \A f \in Field : /\ old(c)[f] \in Int /\ old(c)[f] = Amount(ts, c, f)
                                 /\ Share(x)[f] \in Int
                                 /\ new(c)[f] = old(c)[f] + IF c = x.currency THEN Share(x)[f]
                                                            ELSE 0
             /\ Consistent(old(c)) => Consistent(new(c))
    <2>1. old(c) \in AnyTotal
        BY ZeroFacts DEF AnyTotals
    <2>2. \A f \in Field : old(c)[f] \in Int
        BY <2>1, AnyTotalFacts
    <2>3. \A f \in Field : Share(x)[f] \in Int
        BY ZeroFacts, AccumulateFacts, AnyTotalFacts DEF Share
    <2>4. \A f \in Field : old(c)[f] = Amount(ts, c, f)
        BY ZeroFacts DEF Amount
    <2> HIDE DEF old
    <2>5. /\ Accumulate(old(c), x) \in AnyTotal
          /\ \A f \in Field : Accumulate(old(c), x)[f] = old(c)[f] + Share(x)[f]
          /\ Consistent(old(c)) => Consistent(Accumulate(old(c), x))
        BY <2>1, AccumulateFacts
    <2> QED
        BY <2>1, <2>2, <2>3, <2>4, <2>5
<1>4. \A c \in DOMAIN ts : old(c) = ts[c]
    OBVIOUS
<1>5. Consistent(Zero)
    BY ZeroFacts
<1>6. \A c : c \notin DOMAIN ts => old(c) = Zero
    OBVIOUS
<1> HIDE DEF old, new
<1>7. TotalsWith(ts, x) \in AnyTotals
    <2>1. [c \in D |-> new(c)] \in [D -> AnyTotal]
        BY <1>3
    <2> QED
        BY <1>1, <1>2, <2>1 DEF AnyTotals
<1>8. ASSUME NEW c, NEW f \in Field
      PROVE  Amount(TotalsWith(ts, x), c, f)
             = Amount(ts, c, f) + IF c = x.currency THEN Share(x)[f] ELSE 0
    <2>1. CASE c \in D
        <3>1. Amount(TotalsWith(ts, x), c, f) = new(c)[f]
            BY <1>1, <2>1 DEF Amount
        <3> QED
            BY <1>3, <3>1
    <2>2. CASE c \notin D
        <3>1. Amount(TotalsWith(ts, x), c, f) = 0 /\ Amount(ts, c, f) = 0 /\ c # x.currency
            BY <1>1, <2>2 DEF Amount
        <3> QED
            BY <3>1
    <2> QED
        BY <2>1, <2>2
<1>9. ASSUME \A c \in DOMAIN ts : Consistent(ts[c]), NEW c \in D
      PROVE  Consistent(TotalsWith(ts, x)[c])
    <2>1. Consistent(old(c))
        BY <1>4, <1>5, <1>6, <1>9
    <2> QED
        BY <1>1, <1>3, <2>1
<1>10. DOMAIN TotalsWith(ts, x) = D
    BY <1>1
<1>11. \A f \in Field : Share(x)[f] \in Int
    BY <1>3
<1> QED
    BY <1>7, <1>8, <1>9, <1>10, <1>11

-----------------------------------------------------------------------------
(* What the accounts add up to.                                            *)

Weights(s, c, f) == [n \in DOMAIN s |-> Amount(s[n].totals, c, f)]

LEMMA WeightFacts ==
    ASSUME NEW s \in Seq(Group), NEW c, NEW f \in Field
    PROVE  /\ DOMAIN s = 1 .. Len(s) /\ IsFiniteSet(DOMAIN s) /\ Len(s) \in Nat
           /\ \A n \in DOMAIN s : Weights(s, c, f)[n] \in Int
<1>1. DOMAIN s = 1 .. Len(s) /\ Len(s) \in Nat
    OBVIOUS
<1>2. IsFiniteSet(1 .. Len(s))
    BY <1>1, FS_Interval
<1>3. ASSUME NEW n \in DOMAIN s PROVE s[n].totals \in AnyTotals
    <2>1. s[n] \in Group
        BY <1>3
    <2> QED
        BY <2>1 DEF Group
<1> QED
    BY <1>1, <1>2, <1>3, AmountFacts DEF Weights

LEMMA OverAccountsIsSum ==
    ASSUME byAccount \in Seq(Group), NEW c, NEW f \in Field
    PROVE  OverAccounts(c, f) = SumOf(Weights(byAccount, c, f), DOMAIN byAccount)
<1> DEFINE S == DOMAIN byAccount
           w == Weights(byAccount, c, f)
           First(s) == CHOOSE n \in s : TRUE
           Of(n) == IF c \in DOMAIN byAccount[n].totals THEN byAccount[n].totals[c][f] ELSE 0
           Step(g) == [s \in SUBSET S |->
                          IF s = {} THEN 0 ELSE g[s \ {First(s)}] + Of(First(s))]
           iter == CHOOSE g : g = Step(g)
           a == AnyFirst(S)
<1>1. OverAccounts(c, f) = iter[S]
    BY DEF OverAccounts, FoldSeq, FoldFunction, FoldFunctionOnSet, MapThenFoldSet
<1>2. IsFiniteSet(S) /\ \A n \in S : w[n] \in Int /\ w[n] = Of(n)
    BY WeightFacts DEF Weights, Amount
<1>3. PICK g \in [SUBSET S -> Int] : SumsUp(g, w, a, S)
    BY <1>2, SumExists, AnyFirstChooses
<1>4. \A s \in SUBSET S : s # {} =>
        /\ a[s] = First(s) /\ First(s) \in S /\ s \ {First(s)} \in SUBSET S
        /\ w[First(s)] = Of(First(s)) /\ Of(First(s)) \in Int
    BY <1>2 DEF AnyFirst
<1> HIDE DEF w, First, Of, a
<1>5. g = Step(g)
    <2>1. ASSUME NEW s \in SUBSET S
          PROVE  g[s] = IF s = {} THEN 0 ELSE g[s \ {First(s)}] + Of(First(s))
        <3>1. CASE s = {}
            BY <1>3, <3>1 DEF SumsUp
        <3>2. CASE s # {}
            <4>1. g[s] = w[a[s]] + g[s \ {a[s]}]
                BY <1>3, <3>2 DEF SumsUp
            <4>2. w[a[s]] = Of(First(s)) /\ a[s] = First(s) /\ Of(First(s)) \in Int
                BY <1>4, <3>2
            <4>3. g[s \ {First(s)}] \in Int
                BY <1>4, <3>2
            <4> QED
                BY <3>2, <4>1, <4>2, <4>3
        <3> QED
            BY <3>1, <3>2
    <2>2. g = [s \in SUBSET S |-> g[s]]
        OBVIOUS
    <2> QED
        BY <2>1, <2>2
<1>6. iter = Step(iter)
    BY <1>5, Zenon
<1> HIDE DEF iter
<1>7. \A s \in SUBSET S : iter[s] = IF s = {} THEN 0 ELSE iter[s \ {First(s)}] + Of(First(s))
    BY <1>6
<1>8. iter[S] = g[S]
    <2>1. \A s \in SUBSET S : g[s] \in Int
        OBVIOUS
    <2>2. ASSUME NEW s \in SUBSET S, s = {} \/ iter[s \ {a[s]}] = g[s \ {a[s]}]
          PROVE  iter[s] = g[s]
        <3>1. CASE s = {}
            BY <1>3, <1>7, <3>1 DEF SumsUp
        <3>2. CASE s # {}
            <4>1. iter[s] = g[s \ {a[s]}] + w[a[s]]
                BY <1>4, <1>7, <2>2, <3>2
            <4>2. g[s] = w[a[s]] + g[s \ {a[s]}]
                BY <1>3, <3>2 DEF SumsUp
            <4>3. w[a[s]] \in Int /\ g[s \ {a[s]}] \in Int
                BY <1>4, <2>1, <3>2
            <4> QED
                BY <4>1, <4>2, <4>3
        <3> QED
            BY <3>1, <3>2
    <2>3. StepsAgree(iter, g, a, S) /\ Chooses(a, S)
        BY <2>2, AnyFirstChooses DEF StepsAgree, a
    <2>4. \A s \in SUBSET S : iter[s] = g[s]
        BY <1>2, <2>3, SameByRemoval
    <2> QED
        BY <2>4
<1>9. SumOf(w, S) = g[S]
    BY <1>2, <1>3, SumOfWeights DEF a
<1> QED
    BY <1>1, <1>8, <1>9 DEF w

\* One account more, or another last one.
Renewed(s, g) == Append(Front(s), g)

LEMMA AppendFacts ==
    ASSUME NEW G, NEW s \in Seq(G), NEW g \in G
    PROVE  /\ Append(s, g) \in Seq(G) /\ Len(Append(s, g)) = Len(s) + 1
           /\ Append(s, g)[Len(s) + 1] = g
           /\ \A n \in 1 .. Len(s) : Append(s, g)[n] = s[n]
OBVIOUS

LEMMA FrontFacts ==
    ASSUME NEW G, NEW s \in Seq(G), NEW n \in 1 .. Len(s)
    PROVE  /\ SubSeq(s, 1, n - 1) \in Seq(G) /\ Len(SubSeq(s, 1, n - 1)) = n - 1
           /\ \A i \in 1 .. n - 1 : SubSeq(s, 1, n - 1)[i] = s[i]
OBVIOUS

LEMMA RenewedFacts ==
    ASSUME NEW G, NEW s \in Seq(G), s # << >>, NEW g \in G
    PROVE  /\ Renewed(s, g) \in Seq(G) /\ Len(Renewed(s, g)) = Len(s) /\ Len(s) \in Nat \ {0}
           /\ Renewed(s, g)[Len(s)] = g
           /\ \A n \in 1 .. Len(s) - 1 : Renewed(s, g)[n] = s[n]
<1> DEFINE front == SubSeq(s, 1, Len(s) - 1)
<1>1. Len(s) \in Nat \ {0}
    OBVIOUS
<1>2. /\ front \in Seq(G) /\ Len(front) = Len(s) - 1
      /\ \A n \in 1 .. Len(s) - 1 : front[n] = s[n]
    <2>1. Len(s) \in 1 .. Len(s)
        BY <1>1
    <2> QED
        BY <2>1, FrontFacts
<1> HIDE DEF front
<1>3. Renewed(s, g) = Append(front, g)
    BY DEF Renewed, Front, front
<1> QED
    BY <1>1, <1>2, <1>3, AppendFacts

LEMMA SumWithOneMore ==
    ASSUME NEW s \in Seq(Group), NEW g \in Group, NEW c, NEW f \in Field
    PROVE  SumOf(Weights(Append(s, g), c, f), DOMAIN Append(s, g))
           = SumOf(Weights(s, c, f), DOMAIN s) + Amount(g.totals, c, f)
<1> DEFINE k == Len(s)
           t == Append(s, g)
           v == Weights(s, c, f)
           w == Weights(t, c, f)
           S == 1 .. k
<1>1. /\ t \in Seq(Group) /\ Len(t) = k + 1 /\ k \in Nat /\ t[k + 1] = g
      /\ \A n \in 1 .. k : t[n] = s[n]
    BY AppendFacts
<1>2. DOMAIN s = S /\ IsFiniteSet(S) /\ \A n \in S : v[n] \in Int
    BY WeightFacts
<1>3. DOMAIN t = S \cup {k + 1} /\ \A n \in S \cup {k + 1} : w[n] \in Int
    <2>1. DOMAIN t = 1 .. Len(t) /\ \A n \in DOMAIN t : w[n] \in Int
        BY <1>1, WeightFacts
    <2>2. 1 .. k + 1 = S \cup {k + 1}
        BY <1>1
    <2> HIDE DEF t, w, S
    <2> QED
        BY <1>1, <2>1, <2>2
<1>4. w[k + 1] = Amount(g.totals, c, f) /\ \A n \in S : w[n] = v[n]
    BY <1>1, <1>2, <1>3 DEF Weights
<1>5. k + 1 \notin S
    BY <1>1
<1> HIDE DEF k, t, v, w, S
<1>6. SumOf(v, S) = SumOf(w, S)
    BY <1>2, <1>4, SumOfSame
<1>7. SumOf(w, S \cup {k + 1}) = SumOf(w, S) + w[k + 1]
    BY <1>2, <1>3, <1>5, SumOfOneMore
<1> QED
    BY <1>2, <1>3, <1>4, <1>6, <1>7 DEF t, v, w

LEMMA SumWithRenewed ==
    ASSUME NEW s \in Seq(Group), s # << >>, NEW g \in Group, NEW c, NEW f \in Field
    PROVE  SumOf(Weights(Renewed(s, g), c, f), DOMAIN Renewed(s, g))
           = SumOf(Weights(s, c, f), DOMAIN s)
             + (Amount(g.totals, c, f) - Amount(s[Len(s)].totals, c, f))
<1> DEFINE k == Len(s)
           t == Renewed(s, g)
           v == Weights(s, c, f)
           w == Weights(t, c, f)
           S == 1 .. k
<1>1. /\ t \in Seq(Group) /\ Len(t) = k /\ k \in Nat \ {0} /\ t[k] = g
      /\ \A n \in 1 .. k - 1 : t[n] = s[n]
    BY RenewedFacts
<1>2. DOMAIN s = S /\ IsFiniteSet(S) /\ \A n \in S : v[n] \in Int
    BY WeightFacts
<1>3. DOMAIN t = S /\ \A n \in S : w[n] \in Int
    BY <1>1, WeightFacts
<1>4. k \in S /\ \A n \in S \ {k} : n \in 1 .. k - 1
    BY <1>1
<1>5. /\ w[k] = Amount(g.totals, c, f) /\ v[k] = Amount(s[k].totals, c, f)
      /\ \A n \in S \ {k} : v[n] = w[n]
    BY <1>1, <1>2, <1>3, <1>4 DEF Weights
<1> HIDE DEF t, v, w, S
<1>6. SumOf(w, S) = SumOf(v, S) + (w[k] - v[k])
    BY <1>2, <1>3, <1>4, <1>5, SumOfChanged
<1> QED
    BY <1>2, <1>3, <1>5, <1>6 DEF t, v, w

-----------------------------------------------------------------------------
(* The invariant.                                                          *)

HoldTypes ==
    /\ world \in Worlds /\ left \in Seq(DOMAIN world.folded)
    /\ holdings \in Seq(Valued) /\ sorted \in BOOLEAN /\ counted \in 0 .. Len(holdings)
    /\ totals \in AnyTotals /\ byAccount \in Seq(Group)

Ordered == \A m, n \in DOMAIN holdings : m < n => ListedBefore(holdings[m], holdings[n])

InOrder ==
    /\ ~sorted => counted = 0
    /\ sorted => left = << >> /\ Ordered

\* The accounts come in the order of their names, and the last one is that of the
\* item counted last.
Accounts ==
    /\ \A m, n \in DOMAIN byAccount :
        m < n => NameBefore(byAccount[m].account, byAccount[n].account)
    /\ counted = 0 => byAccount = << >>
    /\ counted > 0 => byAccount # << >> /\ Last(byAccount).account = holdings[counted].account

SumIs(c, f) ==
    Amount(totals, c, f) = SumOf(Weights(byAccount, c, f), DOMAIN byAccount)

Adding ==
    /\ \A c \in DOMAIN totals : Consistent(totals[c])
    /\ \A c : \A f \in Field : SumIs(c, f)

HoldInv == HoldTypes /\ InOrder /\ Accounts /\ Adding

\* No account has two places in the order of the names.
LEMMA NamesAscend ==
    ASSUME NEW a \in Int, NEW b \in Int, NEW d \in Int, NameBefore(a, b), NameBefore(b, d)
    PROVE  NameBefore(a, d)
BY DEF NameBefore

LEMMA AccountsAreNumbers == ASSUME NEW a \in Account PROVE a \in Int
<1>1. Account \subseteq Nat
    BY HoldingsAssumption
<1> QED
    BY <1>1

LEMMA NoTotalsFacts ==
    /\ NoTotals \in AnyTotals /\ DOMAIN NoTotals = {}
    /\ \A c : \A f \in Field : Amount(NoTotals, c, f) = 0
<1>1. NoTotals \in [{} -> AnyTotal] /\ DOMAIN NoTotals = {}
    BY DEF NoTotals
<1> QED
    BY <1>1 DEF AnyTotals, Amount

LEMMA InitHoldings == HoldingsInit => HoldInv
<1> SUFFICES ASSUME HoldingsInit PROVE HoldInv
    OBVIOUS
<1>1. /\ world \in Worlds /\ holdings = << >> /\ sorted = FALSE /\ counted = 0
      /\ totals = NoTotals /\ byAccount = << >>
      /\ left \in Bijection(1 .. Cardinality(Wanted), Wanted)
    BY DEF HoldingsInit
<1>2. left \in Seq(DOMAIN world.folded)
    <2>1. Wanted \subseteq DOMAIN world.folded /\ DOMAIN world.folded \subseteq Account \X Asset
        BY <1>1 DEF Wanted, Worlds
    <2>2. IsFiniteSet(Wanted)
        BY <2>1, HoldingsAssumption, FS_Product, FS_Subset
    <2>3. Cardinality(Wanted) \in Nat
        BY <2>2, FS_CardinalityType
    <2>4. left \in [1 .. Cardinality(Wanted) -> Wanted]
        BY <1>1 DEF Bijection, Injection
    <2> QED
        BY <2>1, <2>3, <2>4
<1>3. HoldTypes
    <2>1. holdings \in Seq(Valued) /\ byAccount \in Seq(Group) /\ Len(holdings) = 0
        BY <1>1
    <2>2. counted \in 0 .. Len(holdings)
        BY <1>1, <2>1
    <2> QED
        BY <1>1, <1>2, <2>1, <2>2, NoTotalsFacts DEF HoldTypes
<1>4. ASSUME NEW c, NEW f \in Field PROVE SumIs(c, f)
    <2>1. SumOf(Weights(byAccount, c, f), {}) = 0
        BY FS_EmptySet, SumAdds
    <2>2. DOMAIN byAccount = {}
        BY <1>1
    <2>3. Amount(totals, c, f) = 0
        BY <1>1, NoTotalsFacts
    <2> QED
        BY <2>1, <2>2, <2>3 DEF SumIs
<1> QED
    BY <1>1, <1>3, <1>4, NoTotalsFacts DEF HoldInv, InOrder, Accounts, Adding

LEMMA FoldHolds == ASSUME HoldInv, Fold PROVE HoldInv'
<1>1. /\ left # << >> /\ left' = Tail(left)
      /\ UNCHANGED <<query, world, sorted, counted, totals, byAccount>>
      /\ holdings' = holdings \/ holdings' = Append(holdings, Item(Head(left)))
    BY DEF Fold
<1>2. /\ world \in Worlds /\ left \in Seq(DOMAIN world.folded) /\ holdings \in Seq(Valued)
      /\ Head(left) \in DOMAIN world.folded
    BY <1>1 DEF HoldInv, HoldTypes
<1>3. ~sorted /\ counted = 0
    BY <1>1 DEF HoldInv, InOrder
<1>4. holdings' \in Seq(Valued)
    BY <1>1, <1>2, ItemFacts
<1>5. left' \in Seq(DOMAIN world'.folded)
    BY <1>1, <1>2
<1>6. HoldTypes'
    BY <1>1, <1>3, <1>4, <1>5 DEF HoldInv, HoldTypes
<1>7. InOrder'
    BY <1>1, <1>3 DEF InOrder
<1>8. Accounts' /\ Adding'
    BY <1>1, <1>3 DEF HoldInv, Accounts, Adding, SumIs, NameBefore
<1> QED
    BY <1>6, <1>7, <1>8 DEF HoldInv

LEMMA SortHolds == ASSUME HoldInv, Sort PROVE HoldInv'
<1>1. PICK p \in Bijection(DOMAIN holdings, DOMAIN holdings) :
        /\ \A m, n \in DOMAIN holdings : m < n => ListedBefore(holdings[p[m]], holdings[p[n]])
        /\ holdings' = [n \in DOMAIN holdings |-> holdings[p[n]]]
    BY DEF Sort
<1>2. /\ ~sorted /\ sorted' = TRUE /\ UNCHANGED <<query, world, left, counted, totals, byAccount>>
      /\ holdings \in Seq(Valued) /\ counted = 0
    BY DEF Sort, HoldInv, HoldTypes, InOrder
<1>9. left = << >>
    BY DEF Sort
<1>3. \A n \in DOMAIN holdings : p[n] \in DOMAIN holdings
    BY <1>1 DEF Bijection, Injection
<1>4. /\ holdings' \in Seq(Valued) /\ Len(holdings') = Len(holdings)
      /\ DOMAIN holdings' = DOMAIN holdings
    <2>1. DOMAIN holdings = 1 .. Len(holdings) /\ Len(holdings) \in Nat
        BY <1>2
    <2>2. \A n \in 1 .. Len(holdings) : holdings[p[n]] \in Valued
        BY <1>2, <1>3, <2>1
    <2>3. holdings' \in [1 .. Len(holdings) -> Valued]
        BY <1>1, <2>1, <2>2
    <2> QED
        BY <2>1, <2>3
<1>5. HoldTypes'
    BY <1>2, <1>4 DEF HoldInv, HoldTypes
<1>6. InOrder'
    <2>1. Ordered'
        BY <1>1, <1>2, <1>3, <1>4 DEF Ordered, ListedBefore, NameBefore
    <2> QED
        BY <1>2, <1>9, <2>1 DEF InOrder
<1>7. Accounts' /\ Adding'
    BY <1>2 DEF HoldInv, Accounts, Adding, SumIs, NameBefore
<1> QED
    BY <1>5, <1>6, <1>7 DEF HoldInv

\* One more item: it adds to the last account or begins a new one.
LEMMA SummarizeHolds == ASSUME HoldInv, Summarize PROVE HoldInv'
<1> DEFINE x == holdings[counted + 1]
           same == byAccount # << >> /\ Last(byAccount).account = x.account
           k == Len(byAccount)
<1>1. /\ sorted /\ counted \in Nat /\ counted < Len(holdings) /\ counted' = counted + 1
      /\ totals' = TotalsWith(totals, x)
      /\ UNCHANGED <<query, world, left, holdings, sorted>>
      /\ holdings \in Seq(Valued) /\ x \in Valued /\ x.account \in Account
      /\ byAccount \in Seq(Group) /\ totals \in AnyTotals
      /\ DOMAIN byAccount = 1 .. k /\ k \in Nat
    <2>1. /\ sorted /\ counted < Len(holdings) /\ counted' = counted + 1
          /\ totals' = TotalsWith(totals, x)
          /\ UNCHANGED <<query, world, left, holdings, sorted>>
        BY DEF Summarize
    <2>2. /\ holdings \in Seq(Valued) /\ counted \in 0 .. Len(holdings)
          /\ byAccount \in Seq(Group) /\ totals \in AnyTotals
        BY DEF HoldInv, HoldTypes
    <2>3. x \in Valued
        BY <2>1, <2>2
    <2>4. x.account \in Account
        BY <2>3 DEF Valued, AnyItem
    <2>5. DOMAIN byAccount = 1 .. k /\ k \in Nat /\ counted \in Nat
        BY <2>2
    <2> HIDE DEF x, k
    <2> QED
        BY <2>1, <2>2, <2>3, <2>4, <2>5
<1>2. PICK g : /\ g \in Group /\ g.account = x.account
               /\ \/ /\ same /\ k > 0 /\ g.totals = TotalsWith(byAccount[k].totals, x)
                     /\ byAccount' = Renewed(byAccount, g)
                  \/ /\ ~same /\ g.totals = TotalsWith(NoTotals, x)
                     /\ byAccount' = Append(byAccount, g)
    <2>1. CASE same
        <3> DEFINE last == Last(byAccount)
                   g == [last EXCEPT !.totals = TotalsWith(@, x)]
        <3>1. k > 0 /\ last = byAccount[k] /\ last \in Group
            BY <1>1, <2>1 DEF Last
        <3>2. last.totals \in AnyTotals /\ last.account \in Account
            BY <3>1 DEF Group
        <3>3. TotalsWith(last.totals, x) \in AnyTotals
            BY <1>1, <3>2, TotalsWithFacts
        <3>4. g = [account |-> last.account, totals |-> TotalsWith(last.totals, x)]
            BY <3>1 DEF Group
        <3>5. byAccount' = Renewed(byAccount, g)
            BY <2>1 DEF Summarize, Renewed
        <3> HIDE DEF last, g
        <3> QED
            BY <2>1, <3>1, <3>2, <3>3, <3>4, <3>5 DEF Group, last
    <2>2. CASE ~same
        <3> DEFINE new == [account |-> x.account, totals |-> NoTotals]
                   g == [new EXCEPT !.totals = TotalsWith(@, x)]
        <3>1. TotalsWith(NoTotals, x) \in AnyTotals
            BY <1>1, NoTotalsFacts, TotalsWithFacts
        <3>2. g = [account |-> x.account, totals |-> TotalsWith(NoTotals, x)]
            OBVIOUS
        <3>3. byAccount' = Append(byAccount, g)
            BY <2>2 DEF Summarize
        <3> HIDE DEF new, g
        <3> QED
            BY <1>1, <2>2, <3>1, <3>2, <3>3 DEF Group
    <2> QED
        BY <2>1, <2>2
<1> HIDE DEF x
<1>3. /\ Adding /\ Accounts /\ Ordered /\ left = << >>
    BY <1>1 DEF HoldInv, InOrder
<1>4. ASSUME NEW c, NEW f \in Field
      PROVE  /\ Amount(totals', c, f) = Amount(totals, c, f)
                                         + IF c = x.currency THEN Share(x)[f] ELSE 0
             /\ Amount(totals, c, f) = SumOf(Weights(byAccount, c, f), DOMAIN byAccount)
             /\ Amount(totals, c, f) \in Int /\ Share(x)[f] \in Int
    BY <1>1, <1>3, TotalsWithFacts, AmountFacts DEF Adding, SumIs
<1>5. totals' \in AnyTotals /\ \A c \in DOMAIN totals' : Consistent(totals'[c])
    BY <1>1, <1>3, TotalsWithFacts DEF Adding
<1>6. counted' \in 0 .. Len(holdings') /\ InOrder' /\ counted' > 0 /\ holdings'[counted'] = x
    BY <1>1, <1>3 DEF InOrder, Ordered, ListedBefore, NameBefore, x
<1>7. CASE same
    <2>1. /\ g.totals = TotalsWith(byAccount[k].totals, x) /\ k > 0
          /\ byAccount' = Renewed(byAccount, g) /\ byAccount # << >>
          /\ byAccount[k].account = x.account
        BY <1>2, <1>7 DEF Last
    <2>2. byAccount[k] \in Group
        BY <1>1, <2>1
    <2>3. byAccount[k].totals \in AnyTotals
        BY <2>2 DEF Group
    <2>4. /\ byAccount' \in Seq(Group) /\ Len(byAccount') = k /\ byAccount'[k] = g
          /\ \A n \in 1 .. k - 1 : byAccount'[n] = byAccount[n]
        <3>1. byAccount \in Seq(Group) /\ byAccount # << >> /\ g \in Group
            BY <1>1, <1>2, <2>1
        <3>2. /\ Renewed(byAccount, g) \in Seq(Group) /\ Len(Renewed(byAccount, g)) = k
              /\ Renewed(byAccount, g)[k] = g
              /\ \A n \in 1 .. k - 1 : Renewed(byAccount, g)[n] = byAccount[n]
            BY ONLY <3>1, RenewedFacts
        <3>3. byAccount' = Renewed(byAccount, g)
            BY <2>1
        <3> HIDE DEF k
        <3> QED  BY ONLY <3>2, <3>3
    <2>5. ASSUME NEW c, NEW f \in Field PROVE SumIs(c, f)'
        <3>1. Amount(g.totals, c, f) = Amount(byAccount[k].totals, c, f)
                                       + IF c = x.currency THEN Share(x)[f] ELSE 0
            BY <1>1, <2>1, <2>3, TotalsWithFacts
        <3>2. Amount(byAccount[k].totals, c, f) \in Int /\ Amount(g.totals, c, f) \in Int
            BY <1>2, <2>3, AmountFacts DEF Group
        <3> DEFINE W == SumOf(Weights(byAccount, c, f), DOMAIN byAccount)
                   V == SumOf(Weights(byAccount', c, f), DOMAIN byAccount')
                   delta == IF c = x.currency THEN Share(x)[f] ELSE 0
        <3>3. V = W + (Amount(g.totals, c, f) - Amount(byAccount[k].totals, c, f))
            BY <1>1, <1>2, <2>1, SumWithRenewed
        <3>4. W = Amount(totals, c, f) /\ Amount(totals', c, f) = Amount(totals, c, f) + delta
            BY <1>4
        <3>5. Amount(totals', c, f) = V
            <4> HIDE DEF V, W
            <4> QED  BY <1>4, <3>1, <3>2, <3>3, <3>4
        <3> QED
            BY <3>5 DEF SumIs
    <2>6. \A n \in 1 .. k : byAccount'[n].account = byAccount[n].account
        BY <1>2, <2>1, <2>4
    <2>7. Accounts'
        <3>1. DOMAIN byAccount' = 1 .. k
            BY <1>1, <2>4
        <3>2. \A m, n \in 1 .. k : m < n =>
                NameBefore(byAccount'[m].account, byAccount'[n].account)
            BY <1>1, <1>3, <2>6 DEF Accounts
        <3>3. byAccount' # << >> /\ Last(byAccount') = g
            BY <1>1, <2>1, <2>4 DEF Last
        <3>4. ~ (counted' = 0)
            BY <1>6
        <3>5. world' = world
            BY <1>1
        <3> QED
            BY <1>2, <1>6, <3>1, <3>2, <3>3, <3>4, <3>5 DEF Accounts, NameBefore
    <2> QED
        BY <1>1, <1>5, <1>6, <2>4, <2>5, <2>7 DEF HoldInv, HoldTypes, Adding
<1>8. CASE ~same
    <2>1. g.totals = TotalsWith(NoTotals, x) /\ byAccount' = Append(byAccount, g)
        BY <1>2, <1>8
    <2>2. /\ byAccount' \in Seq(Group) /\ Len(byAccount') = k + 1 /\ byAccount'[k + 1] = g
          /\ \A n \in 1 .. k : byAccount'[n] = byAccount[n]
        BY <1>1, <1>2, <2>1, AppendFacts
    <2>3. ASSUME NEW c, NEW f \in Field PROVE SumIs(c, f)'
        <3>1. Amount(g.totals, c, f) = 0 + IF c = x.currency THEN Share(x)[f] ELSE 0
            BY <1>1, <2>1, NoTotalsFacts, TotalsWithFacts
        <3>2. Amount(g.totals, c, f) \in Int
            BY <1>2, AmountFacts DEF Group
        <3> DEFINE W == SumOf(Weights(byAccount, c, f), DOMAIN byAccount)
                   V == SumOf(Weights(byAccount', c, f), DOMAIN byAccount')
                   delta == IF c = x.currency THEN Share(x)[f] ELSE 0
        <3>3. V = W + Amount(g.totals, c, f)
            BY <1>1, <1>2, <2>1, SumWithOneMore
        <3>4. W = Amount(totals, c, f) /\ Amount(totals', c, f) = Amount(totals, c, f) + delta
            BY <1>4
        <3>5. Amount(totals', c, f) = V
            <4> HIDE DEF V, W
            <4> QED  BY <1>4, <3>1, <3>2, <3>3, <3>4
        <3> QED
            BY <3>5 DEF SumIs
    <2>4. ASSUME k > 0 PROVE NameBefore(byAccount[k].account, x.account)
        <3>1. byAccount # << >> /\ Last(byAccount) = byAccount[k] /\ counted > 0
            BY <1>1, <1>3, <2>4 DEF Accounts, Last
        <3>2. byAccount[k].account = holdings[counted].account
            BY <1>3, <3>1 DEF Accounts
        <3>3. ListedBefore(holdings[counted], x)
            <4>1. counted \in DOMAIN holdings /\ counted + 1 \in DOMAIN holdings
                BY <1>1, <3>1
            <4> QED
                BY <1>1, <1>3, <4>1 DEF Ordered, x
        <3>4. byAccount[k].account # x.account
            BY <1>8, <3>1
        <3> QED
            BY <3>2, <3>3, <3>4 DEF ListedBefore
    <2>5. \A n \in 1 .. k : byAccount[n].account \in Int
        <3>1. ASSUME NEW n \in 1 .. k PROVE byAccount[n].account \in Int
            <4>1. byAccount[n] \in Group
                BY <1>1
            <4> QED
                BY <4>1, AccountsAreNumbers DEF Group
        <3> QED
            BY <3>1
    <2>6. \A n \in 1 .. k : NameBefore(byAccount[n].account, x.account)
        <3>1. ASSUME NEW n \in 1 .. k PROVE NameBefore(byAccount[n].account, x.account)
            <4>1. k \in Nat
                BY <1>1
            <4>2. (n = k \/ n < k) /\ k > 0 /\ k \in 1 .. k
                <5> HIDE DEF k
                <5> QED  BY ONLY <4>1, n \in 1 .. k
            <4>3. CASE n < k
                <5>1. NameBefore(byAccount[n].account, byAccount[k].account)
                    BY <1>1, <1>3, <4>2, <4>3 DEF Accounts
                <5>2. x.account \in Int
                    BY <1>1, AccountsAreNumbers
                <5>3. NameBefore(byAccount[k].account, x.account)
                    BY <2>4, <4>2
                <5> QED
                    BY <2>5, <4>2, <5>1, <5>2, <5>3, NamesAscend
            <4> QED
                BY <2>4, <4>1, <4>2, <4>3
        <3> QED
            BY <3>1
    <2>7. Accounts'
        <3>1. DOMAIN byAccount' = 1 .. k + 1 /\ k + 1 > 0
            BY <1>1, <2>2
        <3>2. \A m, n \in 1 .. k + 1 : m < n =>
                NameBefore(byAccount'[m].account, byAccount'[n].account)
            <4>1. ASSUME NEW m \in 1 .. k + 1, NEW n \in 1 .. k + 1, m < n
                  PROVE  NameBefore(byAccount'[m].account, byAccount'[n].account)
                <5>1. m \in 1 .. k /\ byAccount'[m] = byAccount[m]
                    BY <1>1, <2>2, <4>1
                <5>2. CASE n = k + 1
                    BY <1>2, <2>2, <2>6, <5>1, <5>2
                <5>3. CASE n # k + 1
                    <6>1. n \in 1 .. k /\ byAccount'[n] = byAccount[n]
                        BY <1>1, <2>2, <5>3
                    <6> QED
                        BY <1>1, <1>3, <4>1, <5>1, <6>1 DEF Accounts
                <5> QED
                    BY <5>2, <5>3
            <4> QED
                BY <4>1
        <3>3. byAccount' # << >> /\ Last(byAccount') = g
            BY <1>1, <2>2, <3>1 DEF Last
        <3>4. ~ (counted' = 0)
            BY <1>6
        <3>5. world' = world
            BY <1>1
        <3> QED
            BY <1>2, <1>6, <3>1, <3>2, <3>3, <3>4, <3>5 DEF Accounts, NameBefore
    <2> QED
        BY <1>1, <1>5, <1>6, <2>2, <2>3, <2>7 DEF HoldInv, HoldTypes, Adding
<1> QED
    BY <1>7, <1>8

LEMMA HoldStep == ASSUME HoldInv, [HoldingsNext]_holdingsVars PROVE HoldInv'
<1>1. CASE Fold
    BY <1>1, FoldHolds
<1>2. CASE Sort
    BY <1>2, SortHolds
<1>3. CASE Summarize
    BY <1>3, SummarizeHolds
<1>4. CASE UNCHANGED holdingsVars
    BY <1>4 DEF holdingsVars, HoldInv, HoldTypes, InOrder, Ordered, ListedBefore, NameBefore,
                Accounts, Adding, SumIs
<1> QED
    BY <1>1, <1>2, <1>3, <1>4 DEF HoldingsNext

LEMMA HoldIsEnough == HoldInv => SummariesAddUp
<1> SUFFICES ASSUME HoldInv PROVE SummariesAddUp
    OBVIOUS
<1>1. byAccount \in Seq(Group) /\ totals \in AnyTotals /\ Accounts /\ Adding
    BY DEF HoldInv, HoldTypes
<1>2. ASSUME NEW m \in DOMAIN byAccount, NEW n \in DOMAIN byAccount, m # n
      PROVE  byAccount[m].account # byAccount[n].account
    <2>1. m < n \/ n < m
        BY <1>1, <1>2
    <2> QED
        BY <1>1, <2>1 DEF Accounts, NameBefore
<1>3. ASSUME NEW c \in DOMAIN totals, NEW f \in Field
      PROVE  totals[c][f] = OverAccounts(c, f)
    BY <1>1, OverAccountsIsSum DEF Adding, SumIs, Amount
<1>4. ASSUME NEW c \in DOMAIN totals
      PROVE  /\ totals[c].market_value - totals[c].unrealized_pnl = totals[c].priced_book_value
             /\ totals[c].unpriced_count = 0 =>
                    totals[c].priced_book_value = totals[c].book_value
    BY <1>1 DEF Adding, Consistent
<1> QED
    BY <1>2, <1>3, <1>4 DEF SummariesAddUp, Field

\* GET /holdings and SummarySection: the totals that the page shows of the accounts add
\* up to the totals by currency, each account is shown once, and what has no price is in
\* the book value only.
THEOREM SummariesAgree == HoldingsSpec => []SummariesAddUp
<1>1. HoldInv /\ [HoldingsNext]_holdingsVars => HoldInv'
    BY HoldStep
<1> QED
    BY <1>1, InitHoldings, HoldIsEnough, PTL DEF HoldingsSpec
=============================================================================
