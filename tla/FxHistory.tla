----------------------------- MODULE FxHistory -----------------------------
(***************************************************************************)
(* The exchange rates of a whole period, as asset-history and the snapshot *)
(* batch load them: one statement says whether the table covers the period *)
(* well enough, if not the period is fetched upstream, and what the table  *)
(* then has is used, each day taking the last rate up to it.  The requests *)
(* of module CachedFx read and fill the same table, day by day.            *)
(***************************************************************************)
EXTENDS CachedFx

CONSTANTS Ranges,            \* periods that are asked for: [from, to]
          Leftovers,         \* what earlier requests can have left in the table
          MaxGapDays,        \* between two rates of the period
          SeedLookbackDays,  \* how far before the period rates are loaded
          MaxTailDays        \* between the last rate and the end

ASSUME FxRangesAssumption ==
    /\ Ranges \subseteq [from: Day, to: Day]
    /\ MaxGapDays \in Nat /\ SeedLookbackDays \in Nat
    /\ MaxTailDays \in Nat /\ MaxTailDays <= MaxGapDays
ASSUME FxLeftoversAssumption ==
    \A S \in Leftovers : S \subseteq (1 .. FirstToday - 1) \ (Weekend \union Holidays)

(***************************************************************************)
(* Markets are never closed for longer than MaxGapDays, nor for the whole  *)
(* look-back: two rates of the Central Bank are at most five days apart,   *)
(* says the comment on the constants in fx_history.rs.                     *)
(***************************************************************************)
ASSUME FxCalendarAssumption ==
    \A r \in Ranges : \A d \in r.from .. r.to :
        \E e \in (1 .. FirstToday - 1) \ (Weekend \union Holidays) :
            r.from - SeedLookbackDays <= e /\ e <= d /\ d - e <= MaxGapDays

VARIABLES
    phase,    \* where the load is
    range,    \* its period
    fetched,  \* what upstream has answered
    isStale,  \* upstream could not be reached
    points,   \* the rates loaded
    judged    \* (not in the code) the rates of the period when it was judged

load == <<phase, range, fetched, isStale, points, judged>>
allVars == <<vars, load>>

InitLoad ==
    /\ FxInit
    /\ cache \in Leftovers
    /\ phase = "start"
    /\ range \in Ranges
    /\ fetched = {}
    /\ isStale = FALSE
    /\ points = {}
    /\ judged = {}

-----------------------------------------------------------------------------
InRange(S) == {d \in S : range.from <= d /\ d <= range.to}
Window(S) == {d \in S : range.from - SeedLookbackDays <= d /\ d <= range.to}

\* lag() over the rates of the period only: the seed is not one of them.
GapTooWide ==
    \E d \in InRange(cache) :
        /\ \E e \in InRange(cache) : e < d
        /\ d - Max({e \in InRange(cache) : e < d}) > MaxGapDays

SeedMissing == Latest(cache, range.from) = None
TailStale == Latest(cache, range.to) < range.to - MaxTailDays

\* Mutant: the gaps are not looked at.
NeedsSeedOrTail == SeedMissing \/ TailStale
NeedsBackfill == SeedMissing \/ GapTooWide \/ TailStale

Coverage ==
    /\ phase = "start"
    /\ phase' = IF NeedsBackfill THEN "backfill" ELSE "read"
    /\ judged' = InRange(cache)
    /\ UNCHANGED <<vars, range, fetched, isStale, points>>

\* One call upstream, not repeated; a 5xx or a timeout leaves the table's rates.
RangeReply ==
    /\ phase = "backfill"
    /\ fetched' = Window(published)
    /\ phase' = "store"
    /\ UNCHANGED <<vars, range, isStale, points, judged>>

RangeTransient ==
    /\ phase = "backfill"
    /\ isStale' = TRUE
    /\ phase' = "read"
    /\ UNCHANGED <<vars, range, fetched, points, judged>>

RangeRefused ==
    /\ phase \in {"start", "backfill", "store", "read"}
    /\ phase' = "failed"
    /\ UNCHANGED <<vars, range, fetched, isStale, points, judged>>

RangeStore ==
    /\ phase = "store"
    /\ cache' = cache \union fetched
    /\ phase' = "read"
    /\ UNCHANGED <<today, published, calls, range, fetched, isStale, points, judged>>

Read ==
    /\ phase = "read"
    /\ points' = Window(cache)
    /\ phase' = "done"
    /\ UNCHANGED <<vars, range, fetched, isStale, judged>>

Load == Coverage \/ RangeReply \/ RangeTransient \/ RangeRefused \/ RangeStore \/ Read

NextLoad == Load \/ (FxNext /\ UNCHANGED load)

LoadSpec == InitLoad /\ [][NextLoad]_allVars

-----------------------------------------------------------------------------
(* Properties.                                                             *)

\* rate_on: the last rate up to a day.
RateOn(d) == Latest(points, d)

Loaded == phase = "done" /\ ~isStale

\* The days of the period from the first rate that the table had inside it, or
\* all of them if upstream was asked.
Judged ==
    {d \in range.from .. range.to : fetched # {} \/ \E e \in judged : e <= d}

\* A load that is not flagged as stale shows no rate as lying still for longer
\* than markets are closed: neither a gap nor the end of the table may hide
\* behind rates that single-day requests left there.
JudgedDaysAreFresh ==
    Loaded => \A d \in Judged : RateOn(d) # None /\ d - RateOn(d) <= MaxGapDays

=============================================================================
