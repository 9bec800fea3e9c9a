----------------------------- MODULE AtomicCache -----------------------------
(***************************************************************************)
(* What the cache of daily valuations promises as long as runs do not      *)
(* overlap.  A day is absent, or wholly there.  A call that changes a      *)
(* trade takes away the days from the trade's on, none in part, and leaves *)
(* of them at most what a run has put there.  A run puts the days of its   *)
(* range there, all of them at once and as computed from the trades and    *)
(* prices that it has read, and leaves the other days as they were.        *)
(* Nothing else touches what is kept.                                      *)
(***************************************************************************)
EXTENDS Naturals

CONSTANTS Day, Trade, Runner,
          InitialTrades, NoQuotes,
          Shown(_, _, _)    \* what a day shows, by the trades and the prices

VARIABLES
    trades, quote,  \* the trades and the prices now
    stored,         \* what is kept for each day
    got, priced     \* the trades and the prices that each run has read

vars == <<trades, quote, stored, got, priced>>

Absent == [there |-> FALSE, rows |-> {}]
PutBy(r, d) == [there |-> TRUE, rows |-> Shown(got[r], priced[r], d)]

Init ==
    /\ trades = InitialTrades /\ quote = NoQuotes
    /\ stored = [d \in Day |-> [there |-> TRUE, rows |-> Shown(trades, quote, d)]]
    /\ got = [r \in Runner |-> {}] /\ priced = [r \in Runner |-> NoQuotes]

Change(t) ==
    /\ trades' \in {trades \union {t}, trades \ {t}}
    /\ \E cut \in SUBSET {d \in Day : t.day <= d} :
        /\ stored' = [d \in Day |-> IF d \in cut THEN Absent ELSE stored[d]]
        /\ \A d \in Day \ cut : t.day <= d => \E r \in Runner : stored[d] = PutBy(r, d)
    /\ UNCHANGED <<quote, got, priced>>

Post == UNCHANGED <<trades, stored, got, priced>>

ReadTrades(r) ==
    /\ got' = [got EXCEPT ![r] = trades]
    /\ UNCHANGED <<trades, quote, stored, priced>>

ReadQuotes(r) ==
    /\ priced' = [priced EXCEPT ![r] = quote]
    /\ UNCHANGED <<trades, quote, stored, got>>

Put(r) ==
    /\ \E from, to \in Day :
        /\ from <= to
        /\ stored' = [d \in Day |-> IF d \in from .. to THEN PutBy(r, d) ELSE stored[d]]
    /\ UNCHANGED <<trades, quote, got, priced>>

Next ==
    \/ \E t \in Trade : Change(t)
    \/ Post
    \/ \E r \in Runner : ReadTrades(r) \/ ReadQuotes(r) \/ Put(r)

Spec == Init /\ [][Next]_vars
=============================================================================
