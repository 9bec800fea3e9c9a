------------------------------ MODULE CachedFx ------------------------------
(***************************************************************************)
(* The exchange rate of one currency pair on one day (GET /fx/rates): a    *)
(* table of rates in front of the European Central Bank's, reached through *)
(* Frankfurter.  A rate is known by the day it was published for and never *)
(* changes.  Callers interleave between the reads of the table, the calls  *)
(* upstream and the writes of the table; days pass meanwhile.              *)
(***************************************************************************)
EXTENDS Integers, FiniteSets, FiniteSetsExt

CONSTANTS Caller,            \* concurrent requests; each serves one call and ends
          LastDay,           \* the days are 1 .. LastDay
          FirstToday,        \* the UTC date at the start
          Weekend,           \* Saturdays and Sundays
          Holidays,          \* weekdays for which nothing is published
          MaxCalendarDays,   \* StalePolicy
          MaxBusinessDays,   \* StalePolicy
          MaxAttempts,       \* calls upstream before giving up
          Wanted             \* days callers ask for

Day == 1 .. LastDay
None == 0

ASSUME FxDaysAssumption ==
    /\ LastDay \in Nat /\ FirstToday \in Day
    /\ Weekend \subseteq Day /\ Holidays \subseteq Day /\ Wanted \subseteq Day
ASSUME FxPolicyAssumption ==
    /\ MaxCalendarDays \in Nat /\ MaxBusinessDays \in Nat /\ MaxAttempts \in Nat \ {0}

VARIABLES
    today,      \* the UTC date
    published,  \* days whose rate upstream has
    cache,      \* days whose rate is in fx_rates
    pc,         \* where each caller is
    on,         \* the day it asks for
    hit,        \* the day of the cached rate it found, or None
    current,    \* the day it asks for was today when it looked
    newest,     \* the last day published by then, up to the day it asks for
    tries,      \* its calls upstream
    rated       \* the day of the rate it got upstream or answered with

calls == <<pc, on, hit, current, newest, tries, rated>>
vars == <<today, published, cache, calls>>

Ended == {"fresh", "stale", "unavailable", "refused"}

FxInit ==
    /\ today = FirstToday
    /\ published = (1 .. FirstToday - 1) \ (Weekend \union Holidays)
    /\ pc = [c \in Caller |-> "idle"]
    /\ on = [c \in Caller |-> FirstToday]
    /\ hit = [c \in Caller |-> None]
    /\ current = [c \in Caller |-> FALSE]
    /\ newest = [c \in Caller |-> None]
    /\ tries = [c \in Caller |-> 0]
    /\ rated = [c \in Caller |-> None]

Init == FxInit /\ cache = {}

-----------------------------------------------------------------------------
(* StalePolicy.                                                            *)

BusinessDaysBetween(from, to) == Cardinality((from + 1 .. to) \ Weekend)

\* Mutant: only calendar days are counted.
AcceptsAnyWeekday(day, want) == day # None /\ day <= want /\ want - day <= MaxCalendarDays

Accepts(day, want) ==
    /\ day # None /\ day <= want
    /\ want - day <= MaxCalendarDays
    /\ BusinessDaysBetween(day, want) <= MaxBusinessDays

\* find_latest_on_or_before; upstream answers the same way.
Latest(S, d) == IF \E e \in S : e <= d THEN Max({e \in S : e <= d}) ELSE None

-----------------------------------------------------------------------------
Goto(c, phase) == pc' = [pc EXCEPT ![c] = phase]

Ask(c) ==
    /\ pc[c] = "idle"
    /\ \E d \in Wanted : d <= today /\ on' = [on EXCEPT ![c] = d]
    /\ Goto(c, "lookup")
    /\ UNCHANGED <<today, published, cache, hit, current, newest, tries, rated>>

\* Mutant: what the policy accepts is used for today as well.
UsableToday(c, found) == Accepts(found, on[c])

\* A cached rate is used unasked if it is the day's own, or if the day is over
\* and the policy accepts it.
Usable(c, found) ==
    found # None /\ (found = on[c] \/ (on[c] < today /\ Accepts(found, on[c])))

Lookup(c) ==
    LET found == Latest(cache, on[c])
    IN  /\ pc[c] = "lookup"
        /\ hit' = [hit EXCEPT ![c] = found]
        /\ current' = [current EXCEPT ![c] = (on[c] = today)]
        /\ newest' = [newest EXCEPT ![c] = Latest(published, on[c])]
        /\ IF Usable(c, found)
           THEN Goto(c, "fresh") /\ rated' = [rated EXCEPT ![c] = found]
           ELSE Goto(c, "fetch") /\ UNCHANGED rated
        /\ UNCHANGED <<today, published, cache, on, tries>>

\* Upstream answers with the last rate published up to the day, and says which
\* day that is.
Reply(c) ==
    /\ pc[c] = "fetch" /\ tries[c] < MaxAttempts
    /\ Latest(published, on[c]) # None
    /\ rated' = [rated EXCEPT ![c] = Latest(published, on[c])]
    /\ Goto(c, "store")
    /\ UNCHANGED <<today, published, cache, on, hit, current, newest, tries>>

\* A timeout, a broken connection or a 5xx: tried again.
Transient(c) ==
    /\ pc[c] = "fetch" /\ tries[c] < MaxAttempts
    /\ tries' = [tries EXCEPT ![c] = @ + 1]
    /\ UNCHANGED <<today, published, cache, pc, on, hit, current, newest, rated>>

\* Any other answer, or an error of the database, ends the call.
Refused(c) ==
    /\ pc[c] \in {"lookup", "fetch", "store"}
    /\ Goto(c, "refused")
    /\ UNCHANGED <<today, published, cache, on, hit, current, newest, tries, rated>>

Store(c) ==
    /\ pc[c] = "store"
    /\ cache' = cache \union {rated[c]}
    /\ Goto(c, "fresh")
    /\ UNCHANGED <<today, published, on, hit, current, newest, tries, rated>>

\* Mutant: the retries start over.
RetryForEver(c) ==
    /\ pc[c] = "fetch" /\ tries[c] = MaxAttempts
    /\ tries' = [tries EXCEPT ![c] = 0]
    /\ UNCHANGED <<today, published, cache, pc, on, hit, current, newest, rated>>

\* Upstream cannot be reached: what the table had when the call began, if the
\* policy accepts it.
FallBack(c) ==
    /\ pc[c] = "fetch" /\ tries[c] = MaxAttempts
    /\ IF Accepts(hit[c], on[c])
       THEN Goto(c, "stale") /\ rated' = [rated EXCEPT ![c] = hit[c]]
       ELSE Goto(c, "unavailable") /\ UNCHANGED rated
    /\ UNCHANGED <<today, published, cache, on, hit, current, newest, tries>>

\* The rate of a weekday is published some time that day.
Publish ==
    /\ today \notin published \union Weekend \union Holidays
    /\ published' = published \union {today}
    /\ UNCHANGED <<today, cache, calls>>

Midnight ==
    /\ today < LastDay
    /\ today \in published \union Weekend \union Holidays
    /\ today' = today + 1
    /\ UNCHANGED <<published, cache, calls>>

-----------------------------------------------------------------------------
Serve(c) ==
    Lookup(c) \/ Reply(c) \/ Transient(c) \/ Refused(c) \/ Store(c) \/ FallBack(c)

FxNext == (\E c \in Caller : Ask(c) \/ Serve(c)) \/ Publish \/ Midnight

-----------------------------------------------------------------------------
(* Properties.                                                             *)

\* Asked for today, an answer that is not flagged as stale is the newest rate
\* there was when the call looked, although the policy would accept an older one.
TodayIsNewest ==
    \A c \in Caller : pc[c] = "fresh" /\ current[c] => rated[c] >= newest[c]

\* An answer that is not the newest rate up to the day is within both limits of
\* the policy, whichever way it was found.
NeverTooOld ==
    \A c \in Caller :
        pc[c] \in {"fresh", "stale"} /\ rated[c] < newest[c] =>
            /\ on[c] - rated[c] <= MaxCalendarDays
            /\ BusinessDaysBetween(rated[c], on[c]) <= MaxBusinessDays
=============================================================================
