-------------------------------- MODULE MCFx --------------------------------
(***************************************************************************)
(* One of two subjects.  "load": eight weeks with the service's own        *)
(* limits, and at most four rates left in the table by earlier requests    *)
(* when the period is loaded.  "today": eleven days around a weekend with  *)
(* a holiday before it, the Monday being the first day that is today, with *)
(* the service's own policy and three attempts.                            *)
(***************************************************************************)
EXTENDS FxHistory

CONSTANTS c1, c2

VARIABLE subject

fxVars == <<subject, allVars>>

Weekends == {d \in 1 .. 56 : d % 7 \in {6, 0}}
TwoRanges == {[from |-> 36, to |-> 55], [from |-> 37, to |-> 40]}

\* An empty table, and one that covers the longer period until somebody adds a
\* rate at its beginning.
TwoTables == {{}, {3, 54}}

Today == INSTANCE CachedFx WITH
    LastDay <- 11, FirstToday <- 8, Holidays <- {4}, MaxAttempts <- 3,
    Weekend <- {6, 7}, Wanted <- {4, 5, 6, 8, 9, 10, 11}

NoLoad ==
    /\ phase = "done" /\ range = [from |-> 1, to |-> 1]
    /\ fetched = {} /\ isStale = TRUE /\ points = {} /\ judged = {}

MCInit ==
    \/ subject = "today" /\ Today!Init /\ NoLoad
    \/ subject = "load" /\ InitLoad

MCNext ==
    /\ UNCHANGED subject
    /\ \/ subject = "today" /\ Today!FxNext /\ UNCHANGED load
       \/ subject = "load" /\ NextLoad

\* The runtime drives every accepted call, and every call upstream has a timeout.
MCFairness == \A c \in Caller : WF_vars(subject = "today" /\ Today!Serve(c))

MCSpec == MCInit /\ [][MCNext]_fxVars /\ MCFairness

\* Every call ends: upstream is given up after MaxAttempts.
EveryCallEnds ==
    \A c \in Caller : subject = "today" /\ pc[c] # "idle" ~> pc[c] \in Ended
=============================================================================
