----------------------------- MODULE Selections -----------------------------
(***************************************************************************)
(* What the pages with filters show while the user changes the filters:    *)
(* holdings, transactions, the search among the assets, and the two charts.*)
(*                                                                         *)
(* Each choice of the controls is a query with a key of its own.  Answers  *)
(* are kept by key, come in any order, and fail; until one is there most   *)
(* pages go on to show what they showed last.                              *)
(***************************************************************************)
EXTENDS Integers, FiniteSets

CONSTANTS Option,       \* what a filter can be set to
          Query,        \* texts to search for
          Delay,        \* how long the search waits, in steps of its timer
          MaxChoices    \* bound: how often the controls are used

ASSUME SelectionAssumption == Delay \in Nat \ {0} /\ MaxChoices \in Nat

VARIABLES
    view,       \* the page or the chart
    choice,     \* its controls
    search,     \* the text that is searched for
    timers,     \* of the search: the text and what is left of its delay
    answers,    \* the answer for each key that has one: what it is of, and whether it is empty
    asked,      \* the requests under way, by key, with what they ask for
    refused,    \* the keys whose last request failed
    last,       \* the last answer to a choice before this one
    choices

selectionVars == <<view, choice, search, timers, answers, asked, refused, last, choices>>

None == [of |-> [nothing |-> TRUE], empty |-> TRUE]
All == "all"
View == {"holdings", "transactions", "assets", "history", "allocation"}

-----------------------------------------------------------------------------
(* The controls, and the queries that they stand for.                      *)

HoldingsControls == [account : Option \cup {All}, closed : BOOLEAN]
TransactionsControls == [account : Option \cup {All}, period : Option \cup {All}]
AssetsControls == [q : Query \cup {All}]
HistoryControls == [preset : {"6m", "1y"}, group : {"none", "asset_class"}]
AllocationControls == [group : {"asset_class", "account"}]

Controls(v) ==
    CASE v = "holdings" -> HoldingsControls
      [] v = "transactions" -> TransactionsControls
      [] v = "assets" -> AssetsControls
      [] v = "history" -> HistoryControls
      [] v = "allocation" -> AllocationControls

First(v) ==
    CASE v = "holdings" -> [account |-> All, closed |-> FALSE]
      [] v = "transactions" -> [account |-> All, period |-> All]
      [] v = "assets" -> [q |-> All]
      [] v = "history" -> [preset |-> "6m", group |-> "none"]
      [] v = "allocation" -> [group |-> "asset_class"]

\* Mutant: the account is not in the key.
HoldingsKeyOfToggle(c) == [closed |-> c.closed]

HoldingsKey(c) == c
TransactionsKey(c) == c
AssetsKey(text) == [q |-> text]
HistoryKey(c) == [from |-> c.preset, granularity |-> IF c.preset = "1y" THEN "month" ELSE "day", group |-> c.group]
AllocationKey(c) == c

\* The key of a choice, when `text` is searched for.
QueryKey(c, text) ==
    CASE view = "holdings" -> HoldingsKey(c)
      [] view = "transactions" -> TransactionsKey(c)
      [] view = "assets" -> AssetsKey(text)
      [] view = "history" -> HistoryKey(c)
      [] view = "allocation" -> AllocationKey(c)

\* What the request of that key asks for: the assets do not know of the choice.
Asks(c, text) == IF view = "assets" THEN [q |-> text] ELSE c
Current == Asks(choice, search)

\* keepPreviousData.
Keeps == {"holdings", "assets", "history", "allocation"}

-----------------------------------------------------------------------------
(* What is shown.                                                          *)

Has(key) == key \in DOMAIN answers
Here == QueryKey(choice, search)

Phase ==
    IF Here \in refused THEN "error"
    ELSE IF Has(Here) THEN "answer"
    ELSE IF view \in Keeps /\ last # None THEN "previous"
    ELSE "loading"

Displayed ==
    CASE Phase = "answer" -> answers[Here]
      [] Phase = "previous" -> last
      [] OTHER -> None

Filtered == Current # Asks(First(view), All)

\* Mutant: a page without answer has no filters.
HoldingsOffersWhenAnswered == IF Displayed # None THEN {"choose"} ELSE {}

HoldingsOffers == {"choose"}
ListOffers ==
    CASE Phase = "error" -> {"retry"}
      [] Displayed # None /\ (~Displayed.empty \/ Filtered) -> {"choose"}
      [] OTHER -> {}
TransactionsOffers == ListOffers
AssetsOffers == ListOffers
HistoryOffers == {"choose"} \cup (IF Phase = "error" THEN {"retry"} ELSE {})
AllocationOffers == {"choose"} \cup (IF Phase = "error" THEN {"retry"} ELSE {})

\* What the user can do on the page.
Offers ==
    CASE view = "holdings" -> HoldingsOffers
      [] view = "transactions" -> TransactionsOffers
      [] view = "assets" -> AssetsOffers
      [] view = "history" -> HistoryOffers
      [] view = "allocation" -> AllocationOffers

-----------------------------------------------------------------------------
SelectionInit ==
    /\ view \in View
    /\ choice = First(view) /\ search = All /\ timers = {}
    /\ answers = << >> /\ refused = {} /\ last = None /\ choices = 0
    /\ asked = {[key |-> QueryKey(First(view), All), of |-> Asks(First(view), All)]}

\* A key without answer is asked for; an answer may be too old as well.
Look(c, text) ==
    LET key == QueryKey(c, text)
        request == [key |-> key, of |-> Asks(c, text)]
    IN  /\ \/ asked' = IF \E r \in asked : r.key = key THEN asked ELSE asked \cup {request}
           \/ Has(key) /\ key \notin refused /\ UNCHANGED asked
        /\ refused' = refused \ ({key} \ DOMAIN answers)
        /\ last' = IF Has(Here) THEN answers[Here] ELSE last

Use == choices < MaxChoices /\ choices' = choices + 1 /\ "choose" \in Offers

\* A filter, a toggle or a tab: the query changes with it.
Choose(c) ==
    /\ Use /\ view # "assets"
    /\ c \in Controls(view) \ {choice}
    /\ choice' = c /\ Look(c, search)
    /\ UNCHANGED <<view, search, timers, answers>>

\* Mutant: the timer of the text before goes on.
EnterOver(text) ==
    /\ choice' = [q |-> text]
    /\ timers' = timers \cup {[text |-> text, left |-> Delay]}

\* The effect that starts a timer has stopped the one before.
EnterText(text) ==
    /\ choice' = [q |-> text]
    /\ timers' = {[text |-> text, left |-> Delay]}

Search(text) ==
    /\ Use /\ view = "assets" /\ text # choice.q
    /\ EnterText(text)
    /\ UNCHANGED <<view, search, answers, asked, refused, last>>

TimerTick ==
    /\ timers # {} /\ \A t \in timers : t.left > 0
    /\ timers' = {[t EXCEPT !.left = @ - 1] : t \in timers}
    /\ UNCHANGED <<view, choice, search, answers, asked, refused, last, choices>>

Fire(t) ==
    /\ t.left = 0 /\ timers' = timers \ {t}
    /\ search' = t.text
    /\ IF t.text = search THEN UNCHANGED <<asked, refused, last>> ELSE Look(choice, t.text)
    /\ UNCHANGED <<view, choice, answers, choices>>

Retry ==
    /\ "retry" \in Offers /\ \A r \in asked : r.key # Here
    /\ asked' = asked \cup {[key |-> Here, of |-> Current]}
    /\ refused' = refused \ ({Here} \ DOMAIN answers)
    /\ UNCHANGED <<view, choice, search, timers, answers, last, choices>>

\* Answers come in any order, each for the key that was asked for.
Arrive(r) ==
    /\ asked' = asked \ {r}
    /\ \E empty \in BOOLEAN :
        answers' = [k \in DOMAIN answers \cup {r.key} |->
                        IF k = r.key THEN [of |-> r.of, empty |-> empty] ELSE answers[k]]
    /\ refused' = refused \ {r.key}
    /\ UNCHANGED <<view, choice, search, timers, last, choices>>

Fail(r) ==
    /\ asked' = asked \ {r} /\ refused' = refused \cup {r.key}
    /\ UNCHANGED <<view, choice, search, timers, answers, last, choices>>

SelectionNext ==
    \/ \E c \in Controls(view) : Choose(c)
    \/ \E text \in Query \cup {All} : Search(text)
    \/ TimerTick \/ Retry
    \/ \E t \in timers : Fire(t)
    \/ \E r \in asked : Arrive(r) \/ Fail(r)

SelectionSpec == SelectionInit /\ [][SelectionNext]_selectionVars

-----------------------------------------------------------------------------
SelectionTypeOK ==
    /\ view \in View /\ choice \in Controls(view) /\ search \in Query \cup {All}
    /\ \A t \in timers : t.text \in Query \cup {All} /\ t.left \in 0 .. Delay
    /\ \A r \in asked : r.of \in Controls(view)
    /\ \A k \in DOMAIN answers : answers[k].of \in Controls(view)
    /\ choices \in 0 .. MaxChoices

\* What is shown belongs to the controls, unless their own answer is under way.
ShownIsSelected ==
    Displayed = None \/ Displayed.of = Current \/ \E r \in asked : r.of = Current

\* No error and no empty list is a dead end: the user can always ask for
\* something else or again, once the answer is there (task-21-holdings-ui.md:
\* the way back from an account that does not exist).
NoDeadEnd == (\A r \in asked : r.key # Here) /\ (Phase = "error" \/ Filtered) => Offers # {}

\* A search is for what the field has by then, never for a text before
\* (useDebounced).
SearchIsTheText == [][search' # search => search' = choice'.q]_selectionVars
=============================================================================
