------------------------------ MODULE WebCache ------------------------------
(***************************************************************************)
(* The answers of the API that a browser tab keeps: one React Query client *)
(* whose queries the pages share, and the mutations that invalidate them.  *)
(*                                                                         *)
(* An answer is the number of changes the database had seen when it was    *)
(* read.  What the pages and hooks say is the repository's; what React     *)
(* Query does with it is its own, and marked external.                     *)
(***************************************************************************)
EXTENDS Integers, Sequences, FiniteSets

CONSTANTS Write,        \* the mutations of the tab
          Kinds,        \* what they may do
          Pages,        \* bound: the pages that are visited
          MaxVisits,    \* bound: how often the page changes
          MaxTrouble    \* bound: how many requests fail, and answers age or are dropped

VARIABLES
    page,       \* the page that is shown
    data,       \* the answer each query keeps
    fresh,      \* the queries whose answer is not asked for again when it is shown
    failed,     \* the queries whose last request failed
    fetch,      \* the request of each query
    write,      \* the mutations
    changes,    \* the changes in the database, in their order
    late,       \* the queries that an invalidation met under way and let run
    visits, trouble

cache == <<data, fresh, failed, fetch>>
vars == <<page, data, fresh, failed, fetch, write, changes, late, visits, trouble>>

None == -1
Query == {"accounts", "assets", "prices", "transactions", "holdings", "analytics"}
Page == {"accounts", "assets", "pricing", "transactions", "holdings", "analytics", "import"}

ASSUME WebAssumption == Pages \subseteq Page

-----------------------------------------------------------------------------
(* What a change and a query have to do with each other in the database.   *)

AccountChanges == {"createAccount", "updateAccount", "deleteAccount"}
AssetChanges == {"createAsset", "updateAsset"}
PriceChanges == {"upsertPrices"}
TransactionChanges == {"createTransaction", "deleteTransaction", "import"}

AccountsShow == AccountChanges
AssetsShow == AssetChanges
PricesShow == PriceChanges
TransactionsShow == TransactionChanges
HoldingsShow == AccountChanges \cup AssetChanges \cup PriceChanges \cup TransactionChanges
AnalyticsShow == AccountChanges \cup AssetChanges \cup PriceChanges \cup TransactionChanges

\* The changes that a query shows.
Shows ==
    [accounts |-> AccountsShow, assets |-> AssetsShow, prices |-> PricesShow,
     transactions |-> TransactionsShow, holdings |-> HoldingsShow, analytics |-> AnalyticsShow]

-----------------------------------------------------------------------------
(* What the hooks and pages say.                                           *)

\* Mutant: the valuation keeps the old price.
PriceRootsOfList == {"prices", "analytics"}

AccountRoots == {"accounts", "holdings", "analytics"}
AssetRoots == {"assets", "holdings", "analytics"}
PriceRoots == {"prices", "holdings", "analytics"}
TransactionRoots == {"transactions", "holdings", "analytics"}
ImportRoots == {"transactions", "holdings", "analytics"}

\* The roots that a mutation invalidates when it has succeeded.
Roots(k) ==
    CASE k \in AccountChanges -> AccountRoots
      [] k \in AssetChanges -> AssetRoots
      [] k \in PriceChanges -> PriceRoots
      [] k = "import" -> ImportRoots
      [] OTHER -> TransactionRoots

\* The keys of prices begin with the root of the assets.
Under(roots) == roots \cup (IF "assets" \in roots THEN {"prices"} ELSE {})

AccountsPage == <<"accounts">>
AssetsPage == <<"assets">>
TransactionsPage == <<"accounts", "assets", "transactions">>
HoldingsPage == <<"accounts", "holdings">>
AnalyticsPage == <<"analytics">>
PriceDialog == <<"assets", "prices">>

\* The queries of a page, in the order in which it looks for one that failed.
Uses(p) ==
    CASE p = "accounts" -> AccountsPage
      [] p = "assets" -> AssetsPage
      [] p = "pricing" -> PriceDialog
      [] p = "transactions" -> TransactionsPage
      [] p = "holdings" -> HoldingsPage
      [] p = "analytics" -> AnalyticsPage
      [] p = "import" -> << >>

UsedBy(p) == {Uses(p)[n] : n \in DOMAIN Uses(p)}
Observed == UsedBy(page)

\* What can be changed on a page.
Offers(p) ==
    CASE p = "accounts" -> AccountChanges
      [] p = "assets" -> AssetChanges
      [] p = "pricing" -> PriceChanges
      [] p = "transactions" -> {"createTransaction", "deleteTransaction"}
      [] p = "import" -> {"import"}
      [] OTHER -> {}

\* A page whose lists are not there, or failed, shows no buttons; the dialog of
\* prices needs no more than the list behind it.
Loaded(p) ==
    \A q \in UsedBy(p) \ {"prices"} : data[q] # None /\ q \notin failed

DefaultRetries == 2
HoldingsRetries == 3
AnalyticsRetries == 3

\* How often a request is tried again.
RetryLimit(q) ==
    CASE q = "holdings" -> HoldingsRetries
      [] q = "analytics" -> AnalyticsRetries
      [] OTHER -> DefaultRetries

-----------------------------------------------------------------------------
Idle == [phase |-> "idle", seen |-> None, tries |-> 0]
Asked(tries) == [phase |-> "sent", seen |-> None, tries |-> tries]
Read(n, tries) == [phase |-> "read", seen |-> n, tries |-> tries]

UnderWay(q) == fetch[q].phase # "idle"

NoWrite == [phase |-> "idle", kind |-> "none", seen |-> None, waits |-> {}]

MaxChanges == Cardinality(Write)

Init ==
    /\ page = "import"
    /\ data = [q \in Query |-> None]
    /\ fresh = {} /\ failed = {}
    /\ fetch = [q \in Query |-> Idle]
    /\ write = [w \in Write |-> NoWrite]
    /\ changes = << >>
    /\ late = {} /\ visits = 0 /\ trouble = 0

-----------------------------------------------------------------------------
(* Pages.                                                                  *)

\* New requests for some queries; an error without an answer is forgotten.
Start(qs) ==
    /\ fetch' = [q \in Query |-> IF q \in qs THEN Asked(0) ELSE fetch[q]]
    /\ failed' = failed \ {q \in qs : data[q] = None}
    /\ late' = late \ qs

\* The queries that are shown anew: a dialog leaves the page behind it alone.
Mounted(p) ==
    IF {page, p} = {"assets", "pricing"} THEN UsedBy(p) \ Observed ELSE UsedBy(p)

\* Mutant: what is in the cache is never asked for again.
GoQuietly(p) ==
    /\ visits < MaxVisits
    /\ p # page
    /\ p = "pricing" => page = "assets" /\ Loaded("assets")
    /\ page' = p
    /\ Start({q \in Mounted(p) : data[q] = None /\ ~UnderWay(q)})
    /\ visits' = visits + 1
    /\ UNCHANGED <<data, fresh, write, changes, trouble>>

\* Another page, or the dialog of prices: stale answers are asked for again, and
\* requests under way are joined.  Requests of the page that is left go on.
Go(p) ==
    /\ visits < MaxVisits
    /\ p # page
    /\ p = "pricing" => page = "assets" /\ Loaded("assets")
    /\ page' = p
    /\ Start({q \in Mounted(p) : q \notin fresh /\ ~UnderWay(q)})
    /\ visits' = visits + 1
    /\ UNCHANGED <<data, fresh, write, changes, trouble>>

\* The button beside an error asks for the first query that failed.
TryAgain ==
    /\ page \in {"accounts", "assets", "transactions", "analytics"}
    /\ \E n \in DOMAIN Uses(page) :
        /\ Uses(page)[n] \in failed /\ ~UnderWay(Uses(page)[n])
        /\ \A m \in 1 .. n - 1 : Uses(page)[m] \notin failed
        /\ Start({Uses(page)[n]})
    /\ UNCHANGED <<page, data, fresh, write, changes, visits, trouble>>

-----------------------------------------------------------------------------
(* Requests of queries.                                                    *)

\* A request that is over is not waited for.
Released(q) == [w \in Write |-> [write[w] EXCEPT !.waits = @ \ {q}]]

ServerReads(q) ==
    /\ fetch[q].phase = "sent"
    /\ fetch' = [fetch EXCEPT ![q] = Read(Len(changes), @.tries)]
    /\ UNCHANGED <<page, data, fresh, failed, write, changes, late, visits, trouble>>

Arrive(q) ==
    /\ fetch[q].phase = "read"
    /\ data' = [data EXCEPT ![q] = fetch[q].seen]
    /\ fresh' = fresh \cup {q} /\ failed' = failed \ {q}
    /\ fetch' = [fetch EXCEPT ![q] = Idle]
    /\ write' = Released(q)
    /\ UNCHANGED <<page, changes, late, visits, trouble>>

\* Mutant: a request is tried again until it succeeds.
MayRetryForEver(q) == q \in Observed

\* A request is not tried again when nobody looks at its query any more.
MayRetry(q) == fetch[q].tries < RetryLimit(q) /\ q \in Observed

NextTry(q) == IF fetch[q].tries < RetryLimit(q) THEN fetch[q].tries + 1 ELSE RetryLimit(q)

\* A request that fails for the first time.
Pays(q) ==
    /\ fetch[q].tries = 0 => trouble < MaxTrouble
    /\ trouble' = IF fetch[q].tries = 0 THEN trouble + 1 ELSE trouble

\* No connection, or an answer of 500 and above.
Retry(q) ==
    /\ UnderWay(q) /\ MayRetry(q)
    /\ Pays(q)
    /\ fetch' = [fetch EXCEPT ![q] = Asked(NextTry(q))]
    /\ UNCHANGED <<page, data, fresh, failed, write, changes, late, visits>>

\* The error of the list behind the dialog of prices takes the dialog with it.
Without(q) == IF page = "pricing" /\ q = "assets" THEN "assets" ELSE page

\* The last try fails, or the answer is a 4xx.
GiveUp(q) ==
    /\ UnderWay(q)
    /\ Pays(q)
    /\ failed' = failed \cup {q} /\ fresh' = fresh \ {q}
    /\ fetch' = [fetch EXCEPT ![q] = Idle]
    /\ write' = Released(q)
    /\ page' = Without(q)
    /\ UNCHANGED <<data, changes, late, visits>>

\* An answer is older than staleTime.
Age(q) ==
    /\ q \in fresh /\ trouble < MaxTrouble
    /\ fresh' = fresh \ {q}
    /\ trouble' = trouble + 1
    /\ UNCHANGED <<page, data, failed, fetch, write, changes, late, visits>>

\* An answer that nobody has looked at for gcTime.
Drop(q) ==
    /\ data[q] # None /\ q \notin Observed /\ ~UnderWay(q)
    /\ trouble < MaxTrouble
    /\ data' = [data EXCEPT ![q] = None]
    /\ fresh' = fresh \ {q} /\ failed' = failed \ {q}
    /\ trouble' = trouble + 1
    /\ UNCHANGED <<page, fetch, write, changes, late, visits>>

-----------------------------------------------------------------------------
(* Mutations.                                                              *)

Submit(w, k) ==
    /\ write[w].phase = "idle"
    /\ k \in Offers(page) /\ Loaded(page)
    /\ write' = [write EXCEPT ![w] = [NoWrite EXCEPT !.phase = "sent", !.kind = k]]
    /\ UNCHANGED <<page, cache, changes, late, visits, trouble>>

Commit(w) ==
    /\ write[w].phase = "sent"
    /\ changes' = Append(changes, write[w].kind)
    /\ write' = [write EXCEPT ![w].phase = "committed", ![w].seen = Len(changes) + 1]
    /\ UNCHANGED <<page, cache, late, visits, trouble>>

\* Nothing is changed: an error, or an import without a row to insert.
Refuse(w) ==
    /\ write[w].phase = "sent"
    /\ write' = [write EXCEPT ![w].phase = "failed"]
    /\ UNCHANGED <<page, cache, changes, late, visits, trouble>>

\* The change is made but the tab sees a network error.
LoseAnswer(w) ==
    /\ write[w].phase = "committed"
    /\ write' = [write EXCEPT ![w].phase = "failed"]
    /\ UNCHANGED <<page, cache, changes, late, visits, trouble>>

\* onSuccess: everything under the roots is stale.  What is shown is asked for
\* again, in place of a request under way unless that is the first one; requests
\* of queries that are not shown go on.
Succeed(w) ==
    /\ write[w].phase = "committed"
    /\ LET hit == Under(Roots(write[w].kind))
           restarted == {q \in hit \cap Observed : UnderWay(q) => data[q] # None}
       IN  /\ fresh' = fresh \ hit
           /\ fetch' = [q \in Query |-> IF q \in restarted THEN Asked(0) ELSE fetch[q]]
           /\ failed' = failed \ {q \in restarted : data[q] = None}
           /\ late' = (late \ restarted) \cup {q \in hit \ restarted : UnderWay(q)}
           /\ write' = [write EXCEPT ![w].phase = "settling",
                                     ![w].waits = hit \cap Observed]
    /\ UNCHANGED <<page, data, changes, visits, trouble>>

\* The mutation is over when the requests it has waited for are.
Settle(w) ==
    /\ write[w].phase = "settling" /\ write[w].waits = {}
    /\ write' = [write EXCEPT ![w].phase = "done"]
    /\ UNCHANGED <<page, cache, changes, late, visits, trouble>>

-----------------------------------------------------------------------------
Answering(w) == Commit(w) \/ Refuse(w) \/ LoseAnswer(w) \/ Succeed(w) \/ Settle(w)
Requesting(q) == ServerReads(q) \/ Arrive(q) \/ Retry(q) \/ GiveUp(q)

Next ==
    \/ \E p \in Pages : Go(p)
    \/ TryAgain
    \/ \E q \in Query : Requesting(q) \/ Age(q) \/ Drop(q)
    \/ \E w \in Write : Answering(w) \/ \E k \in Kinds : Submit(w, k)

Spec == Init /\ [][Next]_vars

FairSpec ==
    /\ Spec
    /\ \A q \in Query : WF_vars(Requesting(q))
    /\ \A w \in Write : WF_vars(Answering(w))

-----------------------------------------------------------------------------
(* Properties.                                                             *)

\* The changes that the tab has been told of.
Told(w) == write[w].phase \in {"settling", "done"}

\* Nothing that is kept as fresh is older than a change the tab was told of,
\* whatever page is opened next: an invalidation reaches every query that shows
\* the change.  The one exception is a request that the invalidation met under
\* way and could not replace.
FreshIsCurrent ==
    \A w \in Write, q \in fresh :
        Told(w) /\ write[w].kind \in Shows[q] => data[q] >= write[w].seen \/ q \in late

\* What a page shows, and is not asking for, has every change the tab was told of,
\* also when the answer has aged or a request of an earlier visit came in later.
ShownIsCurrent ==
    \A w \in Write, q \in Observed :
        (/\ Told(w) /\ write[w].kind \in Shows[q]
         /\ data[q] # None /\ ~UnderWay(q) /\ q \notin failed)
            => data[q] >= write[w].seen \/ q \in late

\* A dialog stays busy until the lists have been asked for again: this always ends.
EveryWriteEnds ==
    \A w \in Write : write[w].phase = "sent" ~> write[w].phase \in {"done", "failed"}
=============================================================================
