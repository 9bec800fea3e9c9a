------------------------------ MODULE FxProofs ------------------------------
(***************************************************************************)
(* Proofs about FxHistory, hence about CachedFx too: any calendar, any     *)
(* number of callers, any periods, any rates left by earlier requests and  *)
(* any limits, the callers' steps interleaved with those of the load.      *)
(***************************************************************************)
EXTENDS FxHistory, WellFoundedInduction, TLAPS

\* The days a rate is published for.
Working == (1 .. FirstToday - 1) \ (Weekend \union Holidays)

-----------------------------------------------------------------------------
(* The last day of a set up to a day.                                      *)

LEMMA LeastDay ==
    ASSUME NEW T \in SUBSET Nat, T # {}
    PROVE  \E x \in T : \A y \in T : x <= y
  <1>1. \E x \in T : \A y \in T : ~ (<<y, x>> \in OpToRel(<, Nat))
    BY WFMin, NatLessThanWellFounded, Zenon
  <1>2. PICK x \in T : \A y \in T : ~ (<<y, x>> \in OpToRel(<, Nat))
    BY <1>1
  <1>3. ASSUME NEW y \in T PROVE x <= y
    <2>1. x \in Nat /\ y \in Nat
      OBVIOUS
    <2>2. ~ (y < x)
      BY <1>2, <2>1, Zenon DEF OpToRel
    <2>. QED  BY <2>1, <2>2
  <1>. QED  BY <1>3

LEMMA MaxIsLargest ==
    ASSUME NEW T \in SUBSET Nat, T # {}, NEW d \in Nat, \A t \in T : t <= d
    PROVE  Max(T) \in T /\ \A t \in T : t <= Max(T)
  <1> DEFINE Gaps == {d - t : t \in T}
  <1>1. Gaps \in SUBSET Nat /\ Gaps # {}
    <2>1. \A t \in T : d - t \in Nat
      OBVIOUS
    <2>2. Gaps # {}
      OBVIOUS
    <2>. QED  BY <2>1, <2>2, Zenon
  <1>2. PICK g \in Gaps : \A h \in Gaps : g <= h
    BY <1>1, LeastDay
  <1>3. PICK m \in T : g = d - m
    OBVIOUS
  <1>4. ASSUME NEW t \in T PROVE m >= t
    <2>1. d - t \in Gaps
      OBVIOUS
    <2>2. g <= d - t
      BY <1>2, <2>1
    <2>. QED  BY <1>3, <2>2
  <1>5. \E x \in T : \A y \in T : x >= y
    BY <1>4
  <1>6. Max(T) \in T /\ \A t \in T : Max(T) >= t
    BY <1>5 DEF Max
  <1>. QED  BY <1>6

LEMMA DayFacts == FirstToday \in Day /\ \A d \in Day : d \in Nat /\ d # None
  BY FxDaysAssumption DEF Day, None

LEMMA LatestFacts ==
    ASSUME NEW S \in SUBSET Day, NEW d \in Nat
    PROVE  /\ Latest(S, d) \in Nat
           /\ Latest(S, d) # None => Latest(S, d) \in S /\ Latest(S, d) <= d
           /\ \A e \in S : e <= d => e <= Latest(S, d) /\ Latest(S, d) # None
  <1> DEFINE Upto == {e \in S : e <= d}
  <1>1. Upto \in SUBSET Nat /\ \A t \in Upto : t <= d
    BY DayFacts
  <1>2. CASE \E e \in S : e <= d
    <2>1. Max(Upto) \in Upto /\ \A t \in Upto : t <= Max(Upto)
      BY <1>1, <1>2, MaxIsLargest
    <2>2. Latest(S, d) = Max(Upto)
      BY <1>2 DEF Latest
    <2> HIDE DEF Upto
    <2>4. Latest(S, d) \in Upto /\ \A t \in Upto : t <= Latest(S, d)
      BY <2>1, <2>2
    <2>5. Latest(S, d) \in S /\ Latest(S, d) <= d
      BY <2>4 DEF Upto
    <2>6. ASSUME NEW e \in S, e <= d PROVE e <= Latest(S, d)
      BY <2>4, <2>6 DEF Upto
    <2>7. Latest(S, d) \in Nat /\ Latest(S, d) # None
      BY <2>5, DayFacts
    <2>. QED  BY <2>5, <2>6, <2>7
  <1>3. CASE ~ \E e \in S : e <= d
    BY <1>3 DEF Latest, None
  <1>. QED  BY <1>2, <1>3

\* A larger set has a later last day.
LEMMA LatestGrows ==
    ASSUME NEW S \in SUBSET Day, NEW T \in SUBSET Day, S \subseteq T, NEW d \in Nat
    PROVE  Latest(S, d) <= Latest(T, d)
  <1>1. CASE Latest(S, d) = None
    BY <1>1, LatestFacts DEF None
  <1>2. CASE Latest(S, d) # None
    <2>1. Latest(S, d) \in S /\ Latest(S, d) <= d
      BY <1>2, LatestFacts
    <2>. QED  BY <2>1, LatestFacts
  <1>. QED  BY <1>1, <1>2

LEMMA AcceptsMeans ==
    ASSUME NEW day, NEW want, Accepts(day, want)
    PROVE  /\ day # None /\ day <= want /\ want - day <= MaxCalendarDays
           /\ BusinessDaysBetween(day, want) <= MaxBusinessDays
  BY DEF Accepts
-----------------------------------------------------------------------------
(* The invariant of the callers.                                           *)

Places == {"idle", "lookup", "fetch", "store"} \union Ended

FxTypes ==
    /\ today \in Day
    /\ published \in SUBSET Day /\ published \subseteq 1 .. today
    /\ Working \subseteq published
    /\ cache \subseteq published
    /\ pc \in [Caller -> Places]
    /\ on \in [Caller -> Day]
    /\ hit \in [Caller -> Nat]
    /\ current \in [Caller -> BOOLEAN]
    /\ newest \in [Caller -> Nat]
    /\ tries \in [Caller -> Nat]
    /\ rated \in [Caller -> Nat]

WithinLimits(day, want) ==
    /\ want - day <= MaxCalendarDays
    /\ BusinessDaysBetween(day, want) <= MaxBusinessDays

\* What a caller has found out stays true while it is on its way: upstream still
\* answers with a rate at least as new as the newest when it looked.
CallerOK(c) ==
    /\ pc[c] = "fetch" => newest[c] <= Latest(published, on[c])
    /\ pc[c] = "store" => rated[c] \in published /\ newest[c] <= rated[c]
    /\ pc[c] = "fresh" /\ current[c] => newest[c] <= rated[c]
    /\ pc[c] \in {"fresh", "stale"} /\ rated[c] < newest[c] =>
           WithinLimits(rated[c], on[c])

Callers == FxTypes /\ \A c \in Caller : CallerOK(c)

LEMMA InitCallers == InitLoad => Callers
  <1> SUFFICES ASSUME InitLoad PROVE Callers
    OBVIOUS
  <1> USE DEF InitLoad, FxInit
  <1>1. Working \subseteq 1 .. FirstToday - 1 /\ published = Working
    BY DEF Working
  <1>2. 1 .. FirstToday - 1 \subseteq 1 .. FirstToday /\ 1 .. FirstToday - 1 \subseteq Day
    BY DayFacts, FxDaysAssumption DEF Day
  <1>3. cache \subseteq published
    BY FxLeftoversAssumption
  <1>4. FxTypes
    BY <1>1, <1>2, <1>3, DayFacts DEF FxTypes, Places, None
  <1>5. \A c \in Caller : CallerOK(c)
    BY DEF CallerOK, None
  <1>. QED  BY <1>4, <1>5 DEF Callers

LEMMA UpToFacts ==
    ASSUME FxTypes, NEW c \in Caller
    PROVE  /\ Latest(cache, on[c]) \in Nat
           /\ Latest(cache, on[c]) # None => Latest(cache, on[c]) <= on[c]
           /\ Latest(published, on[c]) \in Nat
           /\ Latest(published, on[c]) <= on[c]
           /\ Latest(published, on[c]) # None => Latest(published, on[c]) \in published
           /\ on[c] \in Nat
  <1>1. on[c] \in Day /\ on[c] \in Nat
    BY DayFacts DEF FxTypes
  <1>2. cache \in SUBSET Day /\ published \in SUBSET Day
    BY DEF FxTypes
  <1>. QED  BY <1>1, <1>2, LatestFacts DEF None

LEMMA AskCallers ==
    ASSUME Callers, NEW c \in Caller, Ask(c)
    PROVE  Callers'
  <1> USE DEF Callers, FxTypes, Ask, Goto
  <1>1. FxTypes'
    BY FxDaysAssumption DEF Places
  <1>2. ASSUME NEW k \in Caller PROVE CallerOK(k)'
    BY DEF CallerOK, WithinLimits
  <1>. QED  BY <1>1, <1>2

LEMMA LookupCallers ==
    ASSUME Callers, NEW c \in Caller, Lookup(c)
    PROVE  Callers'
  <1> DEFINE found == Latest(cache, on[c])
             last == Latest(published, on[c])
  <1>1. found \in Nat /\ last \in Nat /\ last <= on[c] /\ on[c] \in Nat
    BY UpToFacts DEF Callers
  <1>2. /\ UNCHANGED <<today, published, cache, on, tries>>
        /\ hit' = [hit EXCEPT ![c] = found]
        /\ current' = [current EXCEPT ![c] = (on[c] = today)]
        /\ newest' = [newest EXCEPT ![c] = last]
        /\ \/ /\ Usable(c, found)
              /\ pc' = [pc EXCEPT ![c] = "fresh"]
              /\ rated' = [rated EXCEPT ![c] = found]
           \/ pc' = [pc EXCEPT ![c] = "fetch"] /\ rated' = rated
    BY DEF Lookup, Goto
  <1>3. Usable(c, found) => found = on[c] \/ (on[c] # today /\ WithinLimits(found, on[c]))
    BY <1>1, DayFacts DEF Usable, Accepts, WithinLimits, Callers, FxTypes
  <1>4. last = Latest(published, on[c])
    OBVIOUS
  <1> HIDE DEF found, last
  <1>5. FxTypes'
    BY <1>1, <1>2 DEF Callers, FxTypes, Places, Ended
  <1>6. ASSUME NEW k \in Caller PROVE CallerOK(k)'
    <2>1. CASE k # c
      BY <1>2, <1>6, <2>1 DEF Callers, FxTypes, CallerOK, WithinLimits
    <2>2. CASE k = c
      <3>1. newest'[c] = last /\ current'[c] = (on[c] = today)
        BY <1>2 DEF Callers, FxTypes
      <3>2. CASE pc'[c] = "fetch"
        <4>1. newest'[c] <= Latest(published', on'[c])
          BY <1>1, <1>2, <1>4, <3>1
        <4>. QED  BY <2>2, <3>2, <4>1 DEF CallerOK
      <3>3. CASE Usable(c, found) /\ pc'[c] = "fresh" /\ rated'[c] = found
        <4>1. CASE found = on[c]
          <5>1. ~ rated'[c] < newest'[c] /\ newest'[c] <= rated'[c]
            BY <1>1, <3>1, <3>3, <4>1
          <5>. QED  BY <2>2, <3>3, <5>1 DEF CallerOK
        <4>2. CASE on[c] # today /\ WithinLimits(found, on[c])
          <5>1. ~ current'[c] /\ WithinLimits(rated'[c], on'[c])
            BY <1>2, <3>1, <3>3, <4>2
          <5>2. WithinLimits(rated[c], on[c])'
            BY <5>1 DEF WithinLimits
          <5>. QED  BY <2>2, <3>3, <5>1, <5>2 DEF CallerOK
        <4>. QED  BY <1>3, <3>3, <4>1, <4>2
      <3>. QED  BY <1>2, <3>2, <3>3 DEF Callers, FxTypes
    <2>. QED  BY <2>1, <2>2
  <1>. QED  BY <1>5, <1>6 DEF Callers

LEMMA ReplyCallers ==
    ASSUME Callers, NEW c \in Caller, Reply(c)
    PROVE  Callers'
  <1>1. /\ Latest(published, on[c]) \in Nat
        /\ Latest(published, on[c]) \in published
    BY UpToFacts DEF Callers, Reply
  <1> HIDE DEF Latest
  <1>2. FxTypes'
    BY <1>1 DEF Callers, FxTypes, Reply, Goto, Places
  <1>3. ASSUME NEW k \in Caller PROVE CallerOK(k)'
    <2>1. CASE k # c
      BY <2>1, <1>3 DEF Callers, FxTypes, CallerOK, WithinLimits, Reply, Goto
    <2>2. CASE k = c
      BY <1>1, <2>2 DEF Callers, FxTypes, CallerOK, Reply, Goto
    <2>. QED  BY <2>1, <2>2
  <1>. QED  BY <1>2, <1>3 DEF Callers

LEMMA GiveUpCallers ==
    ASSUME Callers, NEW c \in Caller, Transient(c) \/ Refused(c) \/ FallBack(c)
    PROVE  Callers'
  <1>1. CASE Transient(c)
    <2>1. FxTypes'
      BY <1>1 DEF Callers, FxTypes, Transient
    <2>. QED  BY <2>1, <1>1 DEF Callers, FxTypes, CallerOK, WithinLimits, Transient
  <1>2. CASE Refused(c)
    <2>1. FxTypes'
      BY <1>2 DEF Callers, FxTypes, Refused, Goto, Places, Ended
    <2>. QED  BY <2>1, <1>2 DEF Callers, FxTypes, CallerOK, WithinLimits, Refused, Goto
  <1>3. CASE FallBack(c)
    <2>1. FxTypes'
      BY <1>3 DEF Callers, FxTypes, FallBack, Goto, Places, Ended
    <2>2. ASSUME NEW k \in Caller PROVE CallerOK(k)'
      BY <1>3 DEF Callers, FxTypes, CallerOK, WithinLimits, FallBack, Goto, Accepts
    <2>. QED  BY <2>1, <2>2 DEF Callers
  <1>. QED  BY <1>1, <1>2, <1>3

LEMMA StoreCallers ==
    ASSUME Callers, NEW c \in Caller, Store(c)
    PROVE  Callers'
  <1>1. FxTypes'
    BY DEF Callers, FxTypes, CallerOK, Store, Goto, Places, Ended
  <1>2. ASSUME NEW k \in Caller PROVE CallerOK(k)'
    BY DEF Callers, FxTypes, CallerOK, WithinLimits, Store, Goto
  <1>. QED  BY <1>1, <1>2 DEF Callers

LEMMA DayCallers ==
    ASSUME Callers, Publish \/ Midnight
    PROVE  Callers'
  <1>1. today \in Nat /\ today \in 1 .. today /\ 1 .. today \subseteq 1 .. today + 1
    BY DayFacts DEF Callers, FxTypes, Day
  <1>2. CASE Publish
    <2>1. FxTypes'
      BY <1>1, <1>2 DEF Callers, FxTypes, Publish, calls
    <2>2. ASSUME NEW k \in Caller PROVE CallerOK(k)'
      <3>1. Latest(published, on[k]) <= Latest(published', on[k])
        <4>1. published' \in SUBSET Day /\ published \in SUBSET Day
          BY <2>1 DEF Callers, FxTypes
        <4>2. published \subseteq published' /\ on[k] \in Nat
          BY <1>2, DayFacts DEF Publish, Callers, FxTypes
        <4>. QED  BY <4>1, <4>2, LatestGrows
      <3>2. Latest(published, on[k]) \in Nat /\ Latest(published', on[k]) \in Nat
        BY <2>1, LatestFacts, DayFacts DEF Callers, FxTypes
      <3>. QED  BY <1>2, <3>1, <3>2 DEF Callers, FxTypes, CallerOK, WithinLimits, Publish,
                                        calls
    <2>. QED  BY <2>1, <2>2 DEF Callers
  <1>3. CASE Midnight
    <2>1. FxTypes'
      BY <1>1, <1>3, FxDaysAssumption DEF Callers, FxTypes, Midnight, calls, Day
    <2>2. ASSUME NEW k \in Caller PROVE CallerOK(k)'
      BY <1>3 DEF Callers, FxTypes, CallerOK, WithinLimits, Midnight, calls
    <2>. QED  BY <2>1, <2>2 DEF Callers
  <1>. QED  BY <1>2, <1>3
LEMMA FxStepCallers ==
    ASSUME Callers, FxNext
    PROVE  Callers' /\ cache \subseteq cache' /\ published \subseteq published'
  <1>1. ASSUME NEW c \in Caller, Ask(c) \/ Serve(c) PROVE Callers'
    BY <1>1, AskCallers, LookupCallers, ReplyCallers, GiveUpCallers, StoreCallers DEF Serve
  <1>2. cache \subseteq cache' /\ published \subseteq published'
    BY DEF FxNext, Serve, Ask, Lookup, Reply, Transient, Refused, FallBack, Store,
           Publish, Midnight
  <1>. QED  BY <1>1, <1>2, DayCallers DEF FxNext

-----------------------------------------------------------------------------
(* The invariant of the load.                                              *)

LoadTypes ==
    /\ phase \in {"start", "backfill", "store", "read", "done", "failed"}
    /\ range \in Ranges
    /\ fetched \in SUBSET Day /\ fetched \subseteq published
    /\ isStale \in BOOLEAN
    /\ points \in SUBSET Day
    /\ judged \in SUBSET Day /\ judged \subseteq range.from .. range.to

\* No day of the period lies long after the last of these rates, once there is one.
Steady(J) ==
    \A d \in range.from .. range.to :
        (\E e \in J : e <= d) => \E f \in J : f <= d /\ d - f <= MaxGapDays

\* These rates suffice: they are all that upstream has of the window, or the ones
\* that coverage accepted are among them.
Enough(S) ==
    \/ Window(Working) \subseteq S
    \/ fetched = {} /\ judged \subseteq S /\ Steady(judged)

LoadOK ==
    /\ phase \in {"start", "backfill"} => fetched = {}
    /\ phase = "store" => Window(Working) \subseteq fetched
    /\ phase = "read" /\ ~ isStale => Enough(cache)
    /\ phase = "done" /\ ~ isStale => Enough(points)

FxInv == Callers /\ LoadTypes /\ LoadOK

LEMMA RangeFacts ==
    ASSUME LoadTypes
    PROVE  /\ range.from \in Nat /\ range.to \in Nat
           /\ \A S \in SUBSET Day : InRange(S) \in SUBSET Day /\ Window(S) \in SUBSET Day
           /\ \A S \in SUBSET Day : InRange(S) \subseteq range.from .. range.to
  <1>1. range.from \in Day /\ range.to \in Day
    BY FxRangesAssumption DEF LoadTypes
  <1>2. range.from \in Nat /\ range.to \in Nat
    BY <1>1, DayFacts
  <1>3. ASSUME NEW S \in SUBSET Day
        PROVE  /\ InRange(S) \in SUBSET Day /\ Window(S) \in SUBSET Day
               /\ InRange(S) \subseteq range.from .. range.to
    BY <1>2, DayFacts DEF InRange, Window
  <1>. QED  BY <1>2, <1>3

\* Neither a gap nor the end of the table hides: a day that is long after the last
\* rate of the period up to it would lie in a gap that is too wide, or behind a
\* tail that is.
LEMMA CoveredIsSteady ==
    ASSUME FxInv, ~ NeedsBackfill
    PROVE  Steady(InRange(cache))
  <1> DEFINE J == InRange(cache)
  <1>1. cache \in SUBSET Day /\ range.from \in Nat /\ range.to \in Nat
    BY RangeFacts DEF FxInv, Callers, FxTypes
  <1>2. J \in SUBSET Day /\ J \subseteq range.from .. range.to
    BY <1>1, RangeFacts DEF FxInv
  <1>3. \A e \in cache : range.from <= e /\ e <= range.to => e \in J
    BY DEF InRange
  <1>4. \A d \in J : (\E e \in J : e < d) => ~ (d - Max({e \in J : e < d}) > MaxGapDays)
    BY DEF NeedsBackfill, GapTooWide
  <1>5. ~ (Latest(cache, range.to) < range.to - MaxTailDays)
    BY DEF NeedsBackfill, TailStale
  <1> HIDE DEF J
  <1>6. ASSUME NEW d \in range.from .. range.to, NEW a \in J, a <= d
        PROVE  \E f \in J : f <= d /\ d - f <= MaxGapDays
    <2>1. d \in Nat /\ MaxGapDays \in Nat /\ MaxTailDays \in Nat /\ MaxTailDays <= MaxGapDays
      BY <1>1, FxRangesAssumption
    <2> DEFINE f == Latest(J, d)
    <2>2. f \in J /\ f <= d /\ f \in Nat /\ \A e \in J : e <= d => e <= f
      BY <1>2, <1>6, <2>1, LatestFacts
    <2> HIDE DEF f
    <2>3. CASE \E g \in J : g > d
      <3>1. {g \in J : g > d} \in SUBSET Nat
        BY <1>2, DayFacts
      <3>2. PICK g \in {h \in J : h > d} : \A h \in {h \in J : h > d} : g <= h
        BY <2>3, <3>1, LeastDay
      <3>3. g \in J /\ g \in Nat /\ g > d
        BY <3>1, <3>2
      <3>4. \A e \in J : e < g => e <= f
        <4>1. ASSUME NEW e \in J, e < g PROVE e <= f
          <5>1. e \in Nat
            BY <1>2, DayFacts
          <5>2. ~ (e > d)
            BY <3>2, <3>3, <4>1, <5>1
          <5>. QED  BY <2>1, <2>2, <5>1, <5>2
        <4>. QED  BY <4>1
      <3>5. f < g
        BY <2>1, <2>2, <3>3
      <3>6. Max({e \in J : e < g}) = f
        <4>1. {e \in J : e < g} \in SUBSET Nat /\ f \in {e \in J : e < g}
          BY <1>2, <2>2, <3>5, DayFacts
        <4>2. \A t \in {e \in J : e < g} : t <= g
          BY <3>3, <4>1
        <4>3. /\ Max({e \in J : e < g}) \in {e \in J : e < g}
              /\ \A t \in {e \in J : e < g} : t <= Max({e \in J : e < g})
          BY <3>3, <4>1, <4>2, MaxIsLargest
        <4> DEFINE m == Max({e \in J : e < g})
        <4>4. m \in Nat /\ m <= f /\ f <= m
          BY <3>4, <4>1, <4>3
        <4> HIDE DEF m
        <4>5. m = f
          BY <2>2, <4>4
        <4>. QED  BY <4>5 DEF m
      <3>7. ~ (g - f > MaxGapDays)
        BY <1>4, <2>2, <3>3, <3>5, <3>6
      <3>. QED  BY <2>1, <2>2, <3>3, <3>7
    <2>4. CASE ~ \E g \in J : g > d
      <3> DEFINE last == Latest(cache, range.to)
      <3>1. last \in Nat /\ last >= range.to - MaxTailDays
        BY <1>1, <1>5, <2>1, LatestFacts
      <3>2. a \in cache /\ a <= range.to /\ range.from <= a
        BY <1>1, <1>2, <1>6 DEF J, InRange
      <3>3. last \in cache /\ last <= range.to /\ a <= last
        BY <1>1, <3>2, LatestFacts
      <3> HIDE DEF last
      <3>4. a \in Nat
        BY <1>2, DayFacts
      <3>5. last \in J
        BY <1>1, <1>3, <3>1, <3>2, <3>3, <3>4
      <3>6. last <= d
        BY <2>1, <2>4, <3>1, <3>5
      <3>. QED  BY <1>1, <2>1, <3>1, <3>5, <3>6
    <2>. QED  BY <2>3, <2>4
  <1>. QED  BY <1>6 DEF Steady, J

LEMMA InitLoadInv == InitLoad => FxInv
  <1> SUFFICES ASSUME InitLoad PROVE FxInv
    OBVIOUS
  <1>1. LoadTypes /\ LoadOK
    BY DEF InitLoad, LoadTypes, LoadOK
  <1>. QED  BY <1>1, InitCallers DEF FxInv

\* A step of a caller, or a day that passes.
LEMMA FxStepLoad ==
    ASSUME FxInv, FxNext, UNCHANGED load
    PROVE  FxInv'
  <1>1. Callers' /\ cache \subseteq cache' /\ published \subseteq published'
    BY FxStepCallers DEF FxInv
  <1>2. LoadTypes'
    BY <1>1 DEF FxInv, LoadTypes, load
  <1>3. Window(Working)' = Window(Working)
    BY DEF Window, Working, load
  <1>4. Steady(judged)' <=> Steady(judged)
    BY DEF Steady, load
  <1>5. LoadOK'
    <2>1. UNCHANGED <<phase, fetched, isStale, points, judged>>
      BY DEF load
    <2>2. Enough(cache) => Enough(cache)'
      BY <1>1, <1>3, <1>4, <2>1 DEF Enough
    <2>3. Enough(points) => Enough(points)'
      BY <1>3, <1>4, <2>1 DEF Enough
    <2>. QED  BY <1>3, <2>1, <2>2, <2>3 DEF FxInv, LoadOK
  <1>. QED  BY <1>1, <1>2, <1>5 DEF FxInv

LEMMA StillCallers ==
    ASSUME Callers, UNCHANGED vars
    PROVE  Callers'
  BY DEF Callers, FxTypes, CallerOK, WithinLimits, vars, calls

LEMMA LoadStep ==
    ASSUME FxInv, Load
    PROVE  FxInv'
  <1>1. CASE Coverage
    <2>1. Callers'
      BY <1>1, StillCallers DEF FxInv, Coverage
    <2>2. LoadTypes'
      BY <1>1, RangeFacts DEF FxInv, LoadTypes, Coverage, vars, Callers, FxTypes
    <2>3. CASE NeedsBackfill
      BY <1>1, <2>1, <2>2, <2>3 DEF FxInv, LoadOK, Coverage
    <2>4. CASE ~ NeedsBackfill
      <3>1. Steady(InRange(cache))
        BY <2>4, CoveredIsSteady
      <3>2. judged' = InRange(cache) /\ judged' \subseteq cache' /\ fetched' = {}
        BY <1>1 DEF FxInv, LoadOK, Coverage, vars, InRange
      <3>3. Steady(judged)'
        BY <1>1, <3>1, <3>2 DEF Steady, Coverage
      <3>4. Enough(cache)'
        BY <3>2, <3>3 DEF Enough
      <3>. QED  BY <1>1, <2>1, <2>2, <2>4, <3>2, <3>4 DEF FxInv, LoadOK, Coverage
    <2>. QED  BY <2>3, <2>4
  <1>2. CASE RangeReply
    <2>1. Callers'
      BY <1>2, StillCallers DEF FxInv, RangeReply
    <2>2. LoadTypes'
      BY <1>2, RangeFacts DEF FxInv, LoadTypes, RangeReply, vars, Callers, FxTypes, Window
    <2>3. Window(Working)' \subseteq fetched'
      BY <1>2 DEF FxInv, Callers, FxTypes, RangeReply, Window
    <2>. QED  BY <1>2, <2>1, <2>2, <2>3 DEF FxInv, LoadOK, RangeReply
  <1>3. CASE RangeTransient \/ RangeRefused
    <2>1. Callers'
      BY <1>3, StillCallers DEF FxInv, RangeTransient, RangeRefused
    <2>2. LoadTypes'
      BY <1>3 DEF FxInv, LoadTypes, RangeTransient, RangeRefused, vars
    <2>. QED  BY <1>3, <2>1, <2>2 DEF FxInv, LoadOK, RangeTransient, RangeRefused
  <1>4. CASE RangeStore
    <2>1. Callers'
      BY <1>4 DEF FxInv, Callers, FxTypes, LoadTypes, CallerOK, WithinLimits, RangeStore,
                  calls
    <2>2. LoadTypes'
      BY <1>4 DEF FxInv, LoadTypes, RangeStore
    <2>3. Window(Working)' \subseteq cache'
      BY <1>4 DEF FxInv, LoadOK, RangeStore, Window, Working
    <2>. QED  BY <1>4, <2>1, <2>2, <2>3 DEF FxInv, LoadOK, RangeStore, Enough
  <1>5. CASE Read
    <2>1. Callers'
      BY <1>5, StillCallers DEF FxInv, Read
    <2>2. LoadTypes'
      BY <1>5, RangeFacts DEF FxInv, LoadTypes, Read, vars, Callers, FxTypes
    <2>3. ASSUME ~ isStale PROVE Enough(points)'
      <3>1. points' = Window(cache) /\ UNCHANGED <<range, fetched, judged>>
        BY <1>5 DEF Read
      <3>2. CASE Window(Working) \subseteq cache
        BY <3>1, <3>2 DEF Enough, Window, Working
      <3>3. CASE fetched = {} /\ judged \subseteq cache /\ Steady(judged)
        <4>1. judged \subseteq Window(cache)
          <5>1. \A d \in judged : d \in Nat /\ range.from <= d /\ d <= range.to
            BY RangeFacts, DayFacts DEF FxInv, LoadTypes
          <5>. QED  BY <3>3, <5>1, RangeFacts, FxRangesAssumption DEF FxInv, Window
        <4>2. Steady(judged)'
          BY <3>1, <3>3 DEF Steady
        <4>. QED  BY <3>1, <3>3, <4>1, <4>2 DEF Enough
      <3>. QED  BY <1>5, <2>3, <3>2, <3>3 DEF FxInv, LoadOK, Enough, Read
    <2>. QED  BY <1>5, <2>1, <2>2, <2>3 DEF FxInv, LoadOK, Read
  <1>. QED  BY <1>1, <1>2, <1>3, <1>4, <1>5 DEF Load

LEMMA FxInductive == FxInv /\ [NextLoad]_allVars => FxInv'
  <1> SUFFICES ASSUME FxInv, [NextLoad]_allVars PROVE FxInv'
    OBVIOUS
  <1>1. CASE UNCHANGED allVars
    <2>1. Callers'
      BY <1>1, StillCallers DEF FxInv, allVars
    <2>2. LoadTypes' /\ LoadOK'
      BY <1>1 DEF FxInv, LoadTypes, LoadOK, Enough, Steady, Window, Working, allVars, vars,
                  load
    <2>. QED  BY <2>1, <2>2 DEF FxInv
  <1>. QED  BY <1>1, FxStepLoad, LoadStep DEF NextLoad
LEMMA LoadInvariant == LoadSpec => []FxInv
  BY InitLoadInv, FxInductive, PTL DEF LoadSpec

-----------------------------------------------------------------------------
(* Theorems.                                                               *)

\* An answer of rate.rs for today that is not flagged as stale is the newest rate
\* there was when the table was looked up, for any number of callers and loads of
\* periods that fill the same table.
THEOREM TodayNewest == LoadSpec => []TodayIsNewest
  <1>1. FxInv => TodayIsNewest
    BY DEF FxInv, Callers, FxTypes, CallerOK, TodayIsNewest
  <1>. QED  BY <1>1, LoadInvariant, PTL

\* Whichever way rate.rs found a rate that is not the newest up to the day, from
\* the table or after giving up upstream, both limits of StalePolicy hold for it.
THEOREM WithinPolicy == LoadSpec => []NeverTooOld
  <1>1. FxInv => NeverTooOld
    BY DEF FxInv, Callers, CallerOK, WithinLimits, NeverTooOld
  <1>. QED  BY <1>1, LoadInvariant, PTL

\* A load of fx_history.rs that is not flagged as stale has for every judged day a
\* rate at most MaxGapDays old, whatever single-day requests had left in the table
\* and add to it while it runs.
THEOREM JudgedFresh == LoadSpec => []JudgedDaysAreFresh
  <1>1. ASSUME FxInv PROVE JudgedDaysAreFresh
    <2> SUFFICES ASSUME Loaded, NEW d \in Judged
                 PROVE  RateOn(d) # None /\ d - RateOn(d) <= MaxGapDays
      BY DEF JudgedDaysAreFresh
    <2>1. d \in range.from .. range.to /\ d \in Nat /\ range \in Ranges
      BY <1>1, RangeFacts DEF FxInv, Judged, LoadTypes
    <2>2. Enough(points) /\ points \in SUBSET Day
      BY <1>1 DEF FxInv, LoadOK, LoadTypes, Loaded
    <2>3. ASSUME NEW e \in points, e <= d, d - e <= MaxGapDays
          PROVE  RateOn(d) # None /\ d - RateOn(d) <= MaxGapDays
      <3>1. e \in Nat /\ RateOn(d) \in Nat /\ e <= RateOn(d) /\ RateOn(d) # None
        BY <2>1, <2>2, <2>3, LatestFacts, DayFacts DEF RateOn
      <3>. QED  BY <2>1, <2>3, <3>1, FxRangesAssumption
    <2>4. CASE Window(Working) \subseteq points
      <3>1. PICK e \in Working : range.from - SeedLookbackDays <= e /\ e <= d
                                 /\ d - e <= MaxGapDays
        BY <2>1, FxCalendarAssumption DEF Working
      <3>2. e \in Nat /\ e <= range.to
        BY <1>1, <2>1, <3>1, RangeFacts, DayFacts DEF FxInv, Working
      <3>3. e \in points
        BY <2>4, <3>1, <3>2 DEF Window
      <3>. QED  BY <2>3, <3>1, <3>3
    <2>5. CASE fetched = {} /\ judged \subseteq points /\ Steady(judged)
      <3>1. \E e \in judged : e <= d
        BY <2>5 DEF Judged
      <3>2. PICK f \in judged : f <= d /\ d - f <= MaxGapDays
        BY <2>1, <2>5, <3>1 DEF Steady
      <3>. QED  BY <2>3, <2>5, <3>2
    <2>. QED  BY <2>2, <2>4, <2>5 DEF Enough
  <1>2. FxInv => JudgedDaysAreFresh
    BY <1>1
  <1>. QED  BY <1>2, LoadInvariant, PTL

-----------------------------------------------------------------------------
(* Attempts. *)

TriesInv == \A c \in Caller : tries[c] <= MaxAttempts

\* How many steps a caller has left, if every attempt fails.
StepsLeft(c) ==
    CASE pc[c] = "lookup" -> MaxAttempts + 3
      [] pc[c] = "fetch" -> MaxAttempts - tries[c] + 2
      [] pc[c] = "store" -> 1
      [] OTHER -> 0

CallersAdvance ==
    [][\A c \in Caller : Serve(c) =>
          StepsLeft(c)' \in Nat /\ StepsLeft(c)' < StepsLeft(c)]_allVars

LEMMA TriesInductive == FxInv /\ TriesInv /\ [NextLoad]_allVars => TriesInv'
  <1> SUFFICES ASSUME FxInv, TriesInv, [NextLoad]_allVars PROVE TriesInv'
    OBVIOUS
  <1>1. ASSUME tries' = tries PROVE TriesInv'
    BY <1>1 DEF TriesInv
  <1>2. ASSUME NEW c \in Caller, Transient(c) PROVE TriesInv'
    BY <1>2, FxPolicyAssumption DEF Transient, TriesInv, FxInv, Callers, FxTypes
  <1>3. ASSUME NEW c \in Caller,
               Ask(c) \/ Lookup(c) \/ Reply(c) \/ Refused(c) \/ Store(c) \/ FallBack(c)
        PROVE  tries' = tries
    BY <1>3 DEF Ask, Lookup, Reply, Refused, Store, FallBack
  <1>4. ASSUME Publish \/ Midnight \/ UNCHANGED allVars PROVE tries' = tries
    BY <1>4 DEF Publish, Midnight, calls, allVars, vars
  <1>5. ASSUME Load PROVE tries' = tries
    BY <1>5 DEF Load, Coverage, RangeReply, RangeTransient, RangeRefused, RangeStore, Read,
                vars, calls
  <1>. QED
    BY <1>1, <1>2, <1>3, <1>4, <1>5 DEF NextLoad, FxNext, Serve

\* Each step of a request to rate.rs takes it nearer to its answer: upstream is called at
\* most MaxAttempts times, whatever it answers and whichever days pass meanwhile.
THEOREM AttemptsEnd == LoadSpec => CallersAdvance
  <1>1. ASSUME FxInv, TriesInv, NEW c \in Caller, Serve(c)
        PROVE  StepsLeft(c)' \in Nat /\ StepsLeft(c)' < StepsLeft(c)
    <2>1. tries[c] \in Nat /\ tries[c] <= MaxAttempts /\ MaxAttempts \in Nat
      BY <1>1, FxPolicyAssumption DEF TriesInv, FxInv, Callers, FxTypes
    <2>2. pc \in [Caller -> Places] /\ tries \in [Caller -> Nat]
      BY <1>1 DEF FxInv, Callers, FxTypes
    <2>3. CASE Lookup(c)
      <3>1. pc[c] = "lookup" /\ pc'[c] \in {"fetch", "fresh"} /\ tries' = tries
        BY <2>2, <2>3 DEF Lookup, Goto
      <3>2. StepsLeft(c) = MaxAttempts + 3
        BY <3>1 DEF StepsLeft
      <3>3. StepsLeft(c)' \in {MaxAttempts - tries[c] + 2, 0}
        BY <3>1 DEF StepsLeft
      <3>. QED  BY <2>1, <3>2, <3>3
    <2>4. CASE Transient(c)
      <3>1. pc[c] = "fetch" /\ pc' = pc /\ tries'[c] = tries[c] + 1 /\ tries[c] < MaxAttempts
        BY <2>2, <2>4 DEF Transient
      <3>2. /\ StepsLeft(c) = MaxAttempts - tries[c] + 2
            /\ StepsLeft(c)' = MaxAttempts - (tries[c] + 1) + 2
        BY <3>1 DEF StepsLeft
      <3>. QED  BY <2>1, <3>1, <3>2
    <2>5. CASE Reply(c)
      <3>1. pc[c] = "fetch" /\ pc'[c] = "store"
        BY <2>2, <2>5 DEF Reply, Goto
      <3>2. StepsLeft(c) = MaxAttempts - tries[c] + 2 /\ StepsLeft(c)' = 1
        BY <3>1 DEF StepsLeft
      <3>. QED  BY <2>1, <3>2
    <2>6. CASE Refused(c) \/ Store(c) \/ FallBack(c)
      <3>1. pc[c] \in {"lookup", "fetch", "store"} /\ pc'[c] \in Ended
        BY <2>2, <2>6 DEF Refused, Store, FallBack, Goto, Ended
      <3>2. StepsLeft(c)' = 0
        BY <3>1 DEF StepsLeft, Ended
      <3>3. StepsLeft(c) \in {MaxAttempts + 3, MaxAttempts - tries[c] + 2, 1}
        BY <3>1 DEF StepsLeft
      <3>. QED  BY <2>1, <3>2, <3>3
    <2>. QED  BY <1>1, <2>3, <2>4, <2>5, <2>6 DEF Serve
  <1>2. InitLoad => TriesInv
    BY FxPolicyAssumption DEF InitLoad, FxInit, TriesInv
  <1>3. FxInv /\ TriesInv /\ [NextLoad]_allVars =>
          [\A c \in Caller : Serve(c) =>
              StepsLeft(c)' \in Nat /\ StepsLeft(c)' < StepsLeft(c)]_allVars
    BY <1>1
  <1>. QED
    BY <1>2, <1>3, InitLoadInv, FxInductive, TriesInductive, PTL DEF LoadSpec, CallersAdvance
=============================================================================
