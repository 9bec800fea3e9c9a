--------------------------- MODULE WebCacheProofs ---------------------------
(***************************************************************************)
(* Proofs about WebCache, for any number of mutations of any kinds, and    *)
(* any number of visits, failures, and answers that age or are dropped.    *)
(***************************************************************************)
EXTENDS WebCache, TLAPS

AnyFetch == [phase : {"idle", "sent", "read"}, seen : Int, tries : Int]
AnyChange == AccountChanges \cup AssetChanges \cup PriceChanges \cup TransactionChanges
AnyWrite == [phase : {"idle", "sent", "committed", "settling", "done", "failed"},
             kind : AnyChange \cup {"none"}, seen : Int, waits : SUBSET Query]

WebTypes ==
    /\ page \in Page
    /\ data \in [Query -> Int]
    /\ fresh \subseteq Query
    /\ fetch \in [Query -> AnyFetch]
    /\ write \in [Write -> AnyWrite]
    /\ changes \in Seq(AnyChange)

\* What a mutation has done is in the database from its commit on.
CommitsCounted ==
    \A w \in Write :
        /\ write[w].seen <= Len(changes)
        /\ write[w].phase \in {"sent", "committed"} \/ Told(w) => write[w].kind \in AnyChange

\* A request that was sent, or sent again, after an invalidation brings an answer
\* that has the change.
AnswersAreNew ==
    \A w \in Write, q \in Query :
        Told(w) /\ write[w].kind \in Shows[q] /\ fetch[q].phase = "read" =>
            fetch[q].seen >= write[w].seen \/ q \in late

\* An answer that failed is asked for again when it is shown.
FailedIsStale == failed \cap fresh = {}

WebInv ==
    /\ WebTypes /\ CommitsCounted /\ AnswersAreNew /\ FailedIsStale
    /\ FreshIsCurrent /\ ShownIsCurrent

-----------------------------------------------------------------------------
(* The tables of hooks and pages.                                          *)

\* Every mutation invalidates every query that shows what it changes.
LEMMA EveryChangeIsTold ==
    ASSUME NEW k \in AnyChange, NEW q \in Query, k \in Shows[q]
    PROVE  q \in Under(Roots(k))
  <1> USE DEF Shows, Query, AccountsShow, AssetsShow, PricesShow, TransactionsShow, HoldingsShow,
              AnalyticsShow, Under, AccountRoots, AssetRoots, PriceRoots, TransactionRoots,
              ImportRoots, AccountChanges, AssetChanges, PriceChanges, TransactionChanges
  <1>1. CASE k \in AccountChanges
    BY <1>1 DEF Roots
  <1>2. CASE k \in AssetChanges
    BY <1>2 DEF Roots
  <1>3. CASE k \in PriceChanges
    BY <1>3 DEF Roots
  <1>4. CASE k \in TransactionChanges
    BY <1>4 DEF Roots
  <1>. QED  BY <1>1, <1>2, <1>3, <1>4 DEF AnyChange

LEMMA UsedFacts ==
    /\ \A p \in Page : UsedBy(p) \subseteq Query
    /\ UsedBy("assets") = {"assets"} /\ "assets" \in UsedBy("pricing")
    /\ UsedBy("import") = {}
  <1> USE DEF Uses, AccountsPage, AssetsPage, TransactionsPage, HoldingsPage, AnalyticsPage,
              PriceDialog, Query
  <1>1. /\ Uses("accounts") = <<"accounts">> /\ Uses("assets") = <<"assets">>
        /\ Uses("transactions") = <<"accounts", "assets", "transactions">>
        /\ Uses("holdings") = <<"accounts", "holdings">>
        /\ Uses("analytics") = <<"analytics">>
        /\ Uses("pricing") = <<"assets", "prices">> /\ Uses("import") = << >>
    OBVIOUS
  <1>2. \A p \in Page : UsedBy(p) \subseteq Query
    BY <1>1 DEF Page, UsedBy
  <1>3. UsedBy("assets") = {"assets"} /\ "assets" \in UsedBy("pricing") /\ UsedBy("import") = {}
    BY <1>1 DEF UsedBy
  <1>. QED  BY <1>2, <1>3

LEMMA OfferFacts ==
    ASSUME NEW p \in Page, NEW k \in Offers(p)
    PROVE  k \in AnyChange
  BY DEF Offers, Page, AnyChange, AccountChanges, AssetChanges, PriceChanges, TransactionChanges

LEMMA NewFetches ==
    /\ Idle \in AnyFetch /\ Idle.phase = "idle"
    /\ \A k \in Int : Asked(k) \in AnyFetch /\ Asked(k).phase = "sent"
    /\ \A n, k \in Int : Read(n, k) \in AnyFetch /\ Read(n, k).phase = "read"
                         /\ Read(n, k).seen = n
  BY DEF Idle, Asked, Read, AnyFetch, None

\* A request that is over, and who has waited for it.
LEMMA ReleasedFacts ==
    ASSUME WebTypes, NEW q \in Query
    PROVE  /\ Released(q) \in [Write -> AnyWrite]
           /\ \A w \in Write : /\ Released(q)[w].phase = write[w].phase
                               /\ Released(q)[w].kind = write[w].kind
                               /\ Released(q)[w].seen = write[w].seen
  <1>1. ASSUME NEW w \in Write
        PROVE  LET r == [write[w] EXCEPT !.waits = @ \ {q}]
               IN  /\ r \in AnyWrite /\ r.phase = write[w].phase /\ r.kind = write[w].kind
                   /\ r.seen = write[w].seen
    BY DEF WebTypes, AnyWrite
  <1>. QED  BY <1>1 DEF Released

-----------------------------------------------------------------------------
(* The steps.                                                              *)

LEMMA InitWeb == Init => WebInv
  <1> SUFFICES ASSUME Init PROVE WebInv
    OBVIOUS
  <1>1. WebTypes
    <2>1. NoWrite \in AnyWrite
      BY DEF NoWrite, AnyWrite, None
    <2>2. << >> \in Seq(AnyChange)
      OBVIOUS
    <2>. QED  BY <2>1, <2>2, NewFetches DEF Init, WebTypes, Page, None
  <1>2. \A w \in Write : ~ Told(w) /\ write[w].phase = "idle" /\ write[w].seen = -1
    BY DEF Init, NoWrite, Told, None
  <1>3. Len(changes) = 0
    BY DEF Init
  <1>4. CommitsCounted /\ AnswersAreNew /\ FailedIsStale /\ FreshIsCurrent /\ ShownIsCurrent
    BY <1>2, <1>3 DEF Init, CommitsCounted, AnswersAreNew, FailedIsStale, FreshIsCurrent,
                      ShownIsCurrent
  <1>. QED  BY <1>1, <1>4 DEF WebInv

\* New requests for queries that are not fresh, and what is shown then.
LEMMA StartStep ==
    ASSUME WebInv, NEW qs \in SUBSET Query, qs \cap fresh = {}, Start(qs),
           UNCHANGED <<data, fresh, write, changes>>, page' \in Page,
           \A q \in Observed' : q \in qs \/ UnderWay(q) \/ q \in fresh \/ q \in Observed
    PROVE  WebInv'
  <1>1. /\ fetch' \in [Query -> AnyFetch]
        /\ \A q \in Query : IF q \in qs THEN fetch'[q].phase = "sent" ELSE fetch'[q] = fetch[q]
    BY NewFetches DEF Start, WebInv, WebTypes
  <1>2. /\ failed' \subseteq failed /\ \A q \in failed : q \notin qs => q \in failed'
        /\ late' = late \ qs
    BY DEF Start
  <1>3. WebTypes' /\ CommitsCounted' /\ FailedIsStale'
    BY <1>1, <1>2 DEF WebInv, WebTypes, CommitsCounted, FailedIsStale, Told
  <1>4. AnswersAreNew'
    BY <1>1, <1>2 DEF WebInv, AnswersAreNew, Told
  <1>5. FreshIsCurrent'
    BY <1>2 DEF WebInv, FreshIsCurrent, Told
  <1>6. ShownIsCurrent'
    <2> SUFFICES ASSUME NEW w \in Write, NEW q \in Observed',
                        Told(w)', write[w]'.kind \in Shows[q], data'[q] # None,
                        ~ UnderWay(q)', q \notin failed'
                 PROVE  data'[q] >= write'[w].seen \/ q \in late'
      BY DEF ShownIsCurrent
    <2>1. q \in Query /\ q \notin qs
      BY <1>1, UsedFacts DEF Observed, UnderWay
    <2>2. /\ ~ UnderWay(q) /\ q \notin failed /\ (q \in late => q \in late')
          /\ Told(w) /\ write[w].kind \in Shows[q] /\ data[q] # None
      BY <1>1, <1>2, <2>1 DEF UnderWay, Told
    <2>3. q \in fresh \/ q \in Observed
      BY <2>1, <2>2
    <2>. QED  BY <2>2, <2>3 DEF WebInv, FreshIsCurrent, ShownIsCurrent
  <1>. QED  BY <1>3, <1>4, <1>5, <1>6 DEF WebInv

LEMMA GoStep ==
    ASSUME WebInv, NEW p \in Pages, Go(p)
    PROVE  WebInv'
  <1> DEFINE qs == {q \in Mounted(p) : q \notin fresh /\ ~ UnderWay(q)}
  <1>1. p \in Page /\ page \in Page
    BY WebAssumption DEF WebInv, WebTypes
  <1>2. UsedBy(p) \subseteq Query /\ Mounted(p) \subseteq UsedBy(p)
    BY <1>1, UsedFacts DEF Mounted
  <1>3. qs \in SUBSET Query /\ qs \cap fresh = {}
    BY <1>2
  <1>4. /\ page' = p /\ Start(qs) /\ UNCHANGED <<data, fresh, write, changes>>
        /\ Observed' = UsedBy(p)
    BY DEF Go, Observed, UsedBy
  <1>5. \A q \in Observed' : q \in Mounted(p) \/ q \in Observed
    BY <1>4 DEF Mounted
  <1>6. \A q \in Observed' : q \in qs \/ UnderWay(q) \/ q \in fresh \/ q \in Observed
    BY <1>5
  <1> HIDE DEF qs
  <1>. QED  BY <1>1, <1>3, <1>4, <1>6, StartStep

LEMMA TryAgainStep ==
    ASSUME WebInv, TryAgain
    PROVE  WebInv'
  <1>1. PICK q \in UsedBy(page) : /\ q \in failed /\ Start({q})
                                  /\ UNCHANGED <<page, data, fresh, write, changes>>
    BY DEF TryAgain, UsedBy
  <1>2. q \in Query /\ q \notin fresh
    BY <1>1, UsedFacts DEF WebInv, WebTypes, FailedIsStale
  <1>3. Observed' = Observed /\ page' \in Page
    BY <1>1 DEF Observed, UsedBy, WebInv, WebTypes
  <1>. QED  BY <1>1, <1>2, <1>3, StartStep

LEMMA ServerReadsStep ==
    ASSUME WebInv, NEW q \in Query, ServerReads(q)
    PROVE  WebInv'
  <1>1. /\ fetch' = [fetch EXCEPT ![q] = Read(Len(changes), fetch[q].tries)]
        /\ fetch[q].phase = "sent"
        /\ UNCHANGED <<page, data, fresh, failed, write, changes, late>>
    BY DEF ServerReads
  <1>2. Len(changes) \in Nat /\ fetch[q].tries \in Int
    BY DEF WebInv, WebTypes, AnyFetch
  <1>3. /\ fetch' \in [Query -> AnyFetch]
        /\ fetch'[q].phase = "read" /\ fetch'[q].seen = Len(changes)
        /\ \A k \in Query : k # q => fetch'[k] = fetch[k]
    BY <1>1, <1>2, NewFetches DEF WebInv, WebTypes
  <1>4. WebTypes' /\ CommitsCounted' /\ FailedIsStale' /\ FreshIsCurrent'
    BY <1>1, <1>3 DEF WebInv, WebTypes, CommitsCounted, FailedIsStale, FreshIsCurrent, Told
  <1>5. AnswersAreNew'
    BY <1>1, <1>2, <1>3 DEF WebInv, AnswersAreNew, CommitsCounted, Told
  <1>6. ShownIsCurrent'
    <2>1. \A k \in Query : UnderWay(k)' <=> UnderWay(k)
      BY <1>1, <1>3 DEF UnderWay
    <2>2. Observed' = Observed /\ Observed \subseteq Query
      BY <1>1, UsedFacts DEF Observed, UsedBy, WebInv, WebTypes
    <2>. QED  BY <1>1, <2>1, <2>2 DEF WebInv, ShownIsCurrent, Told
  <1>. QED  BY <1>4, <1>5, <1>6 DEF WebInv

LEMMA ArriveStep ==
    ASSUME WebInv, NEW q \in Query, Arrive(q)
    PROVE  WebInv'
  <1>1. /\ fetch[q].phase = "read"
        /\ data' = [data EXCEPT ![q] = fetch[q].seen]
        /\ fresh' = fresh \cup {q} /\ failed' = failed \ {q}
        /\ fetch' = [fetch EXCEPT ![q] = Idle]
        /\ write' = Released(q)
        /\ UNCHANGED <<page, changes, late>>
    BY DEF Arrive
  <1>2. /\ write' \in [Write -> AnyWrite]
        /\ \A w \in Write : /\ write'[w].phase = write[w].phase
                            /\ write'[w].kind = write[w].kind
                            /\ write'[w].seen = write[w].seen
    BY <1>1, ReleasedFacts DEF WebInv
  <1>3. /\ fetch' \in [Query -> AnyFetch] /\ fetch'[q].phase = "idle"
        /\ \A k \in Query : k # q => fetch'[k] = fetch[k] /\ data'[k] = data[k]
        /\ data' \in [Query -> Int] /\ data'[q] = fetch[q].seen
    BY <1>1, NewFetches DEF WebInv, WebTypes, AnyFetch
  <1>4. WebTypes' /\ CommitsCounted' /\ FailedIsStale'
    BY <1>1, <1>2, <1>3 DEF WebInv, WebTypes, CommitsCounted, FailedIsStale, Told
  <1>5. AnswersAreNew'
    BY <1>1, <1>2, <1>3 DEF WebInv, AnswersAreNew, Told
  <1>6. FreshIsCurrent'
    BY <1>1, <1>2, <1>3 DEF WebInv, WebTypes, AnswersAreNew, FreshIsCurrent, Told
  <1>7. ShownIsCurrent'
    <2>1. Observed' = Observed /\ Observed \subseteq Query
      BY <1>1, UsedFacts DEF Observed, UsedBy, WebInv, WebTypes
    <2>2. \A k \in Query : k # q => (UnderWay(k)' <=> UnderWay(k))
      BY <1>3 DEF UnderWay
    <2>. QED  BY <1>1, <1>2, <1>3, <2>1, <2>2 DEF WebInv, AnswersAreNew, ShownIsCurrent, Told
  <1>. QED  BY <1>4, <1>5, <1>6, <1>7 DEF WebInv

LEMMA RetryStep ==
    ASSUME WebInv, NEW q \in Query, Retry(q)
    PROVE  WebInv'
  <1>1. /\ UnderWay(q) /\ fetch' = [fetch EXCEPT ![q] = Asked(NextTry(q))]
        /\ UNCHANGED <<page, data, fresh, failed, write, changes, late>>
    BY DEF Retry
  <1>2. NextTry(q) \in Int
    BY DEF NextTry, RetryLimit, DefaultRetries, HoldingsRetries, AnalyticsRetries, WebInv,
           WebTypes, AnyFetch
  <1>3. /\ fetch' \in [Query -> AnyFetch] /\ fetch'[q].phase = "sent"
        /\ \A k \in Query : k # q => fetch'[k] = fetch[k]
    BY <1>1, <1>2, NewFetches DEF WebInv, WebTypes
  <1>4. WebTypes' /\ CommitsCounted' /\ FailedIsStale' /\ FreshIsCurrent'
    BY <1>1, <1>3 DEF WebInv, WebTypes, CommitsCounted, FailedIsStale, FreshIsCurrent, Told
  <1>5. AnswersAreNew'
    BY <1>1, <1>3 DEF WebInv, AnswersAreNew, Told
  <1>6. ShownIsCurrent'
    <2>1. \A k \in Query : UnderWay(k)' <=> UnderWay(k)
      BY <1>1, <1>3 DEF UnderWay
    <2>2. Observed' = Observed /\ Observed \subseteq Query
      BY <1>1, UsedFacts DEF Observed, UsedBy, WebInv, WebTypes
    <2>. QED  BY <1>1, <2>1, <2>2 DEF WebInv, ShownIsCurrent, Told
  <1>. QED  BY <1>4, <1>5, <1>6 DEF WebInv

LEMMA GiveUpStep ==
    ASSUME WebInv, NEW q \in Query, GiveUp(q)
    PROVE  WebInv'
  <1>1. /\ failed' = failed \cup {q} /\ fresh' = fresh \ {q}
        /\ fetch' = [fetch EXCEPT ![q] = Idle]
        /\ write' = Released(q)
        /\ page' = Without(q)
        /\ UNCHANGED <<data, changes, late>>
    BY DEF GiveUp
  <1>2. /\ write' \in [Write -> AnyWrite]
        /\ \A w \in Write : /\ write'[w].phase = write[w].phase
                            /\ write'[w].kind = write[w].kind
                            /\ write'[w].seen = write[w].seen
    BY <1>1, ReleasedFacts DEF WebInv
  <1>3. /\ fetch' \in [Query -> AnyFetch] /\ fetch'[q].phase = "idle"
        /\ \A k \in Query : k # q => fetch'[k] = fetch[k]
    BY <1>1, NewFetches DEF WebInv, WebTypes
  <1>4. page' \in Page
    BY <1>1 DEF Without, Page, WebInv, WebTypes
  <1>5. WebTypes' /\ CommitsCounted' /\ FailedIsStale'
    BY <1>1, <1>2, <1>3, <1>4 DEF WebInv, WebTypes, CommitsCounted, FailedIsStale, Told
  <1>6. AnswersAreNew' /\ FreshIsCurrent'
    BY <1>1, <1>2, <1>3 DEF WebInv, AnswersAreNew, FreshIsCurrent, Told
  <1>7. ShownIsCurrent'
    <2>1. Observed' \subseteq Observed /\ Observed \subseteq Query
      <3>1. page' = page \/ (page = "pricing" /\ page' = "assets")
        BY <1>1 DEF Without
      <3>2. CASE page' = page
        BY <3>2, UsedFacts DEF Observed, UsedBy, WebInv, WebTypes
      <3>3. CASE page = "pricing" /\ page' = "assets"
        <4>1. Observed' = UsedBy("assets") /\ Observed = UsedBy("pricing")
          BY <3>3 DEF Observed, UsedBy
        <4>. QED  BY <3>3, <4>1, UsedFacts DEF WebInv, WebTypes
      <3>. QED  BY <3>1, <3>2, <3>3
    <2>2. \A k \in Query : k # q => (UnderWay(k)' <=> UnderWay(k))
      BY <1>3 DEF UnderWay
    <2>. QED  BY <1>1, <1>2, <2>1, <2>2 DEF WebInv, ShownIsCurrent, Told
  <1>. QED  BY <1>5, <1>6, <1>7 DEF WebInv

\* An answer that ages, or that is dropped because no page shows it.
LEMMA AgeStep ==
    ASSUME WebInv, NEW q \in Query, Age(q) \/ Drop(q)
    PROVE  WebInv'
  <1>1. /\ fresh' = fresh \ {q} /\ failed' \subseteq failed
        /\ \/ data' = data /\ failed' = failed
           \/ q \notin Observed /\ data' = [data EXCEPT ![q] = None] /\ failed' = failed \ {q}
        /\ UNCHANGED <<page, fetch, write, changes, late>>
    BY DEF Age, Drop
  <1>2. /\ data' \in [Query -> Int]
        /\ \A k \in Query : k # q => data'[k] = data[k] /\ (k \in failed <=> k \in failed')
        /\ q \in Observed => data' = data /\ failed' = failed
    BY <1>1 DEF WebInv, WebTypes, None
  <1>3. WebTypes' /\ CommitsCounted' /\ FailedIsStale' /\ AnswersAreNew'
    BY <1>1, <1>2 DEF WebInv, WebTypes, CommitsCounted, FailedIsStale, AnswersAreNew, Told
  <1>4. FreshIsCurrent'
    BY <1>1, <1>2 DEF WebInv, WebTypes, FreshIsCurrent, Told
  <1>5. ShownIsCurrent'
    <2>1. Observed' = Observed /\ Observed \subseteq Query
      BY <1>1, UsedFacts DEF Observed, UsedBy, WebInv, WebTypes
    <2>2. \A k \in Query : UnderWay(k)' <=> UnderWay(k)
      BY <1>1 DEF UnderWay
    <2>. QED  BY <1>1, <1>2, <2>1, <2>2 DEF WebInv, ShownIsCurrent, Told
  <1>. QED  BY <1>3, <1>4, <1>5 DEF WebInv

\* A mutation that the tab has not been told of yet, or that is over.
LEMMA WriteStep ==
    ASSUME WebInv, NEW w \in Write, NEW r \in AnyWrite, write' = [write EXCEPT ![w] = r],
           r.phase \in {"settling", "done"} =>
               Told(w) /\ r.kind = write[w].kind /\ r.seen = write[w].seen,
           r.seen <= Len(changes'), r.phase \in {"sent", "committed"} => r.kind \in AnyChange,
           changes' \in Seq(AnyChange), Len(changes) <= Len(changes'),
           UNCHANGED <<page, data, fresh, failed, fetch, late>>
    PROVE  WebInv'
  <1>1. /\ write' \in [Write -> AnyWrite] /\ write'[w] = r
        /\ \A v \in Write : v # w => write'[v] = write[v]
    BY DEF WebInv, WebTypes
  <1>2. \A v \in Write : Told(v)' =>
            Told(v) /\ write'[v].kind = write[v].kind /\ write'[v].seen = write[v].seen
    BY <1>1 DEF Told
  <1>3. WebTypes'
    BY <1>1 DEF WebInv, WebTypes
  <1>4. CommitsCounted'
    <2>1. \A v \in Write : write[v].seen \in Int /\ Len(changes) \in Int /\ Len(changes') \in Int
      BY DEF WebInv, WebTypes, AnyWrite
    <2>2. ASSUME NEW v \in Write
          PROVE  /\ write'[v].seen <= Len(changes')
                 /\ write'[v].phase \in {"sent", "committed"} \/ Told(v)' =>
                        write'[v].kind \in AnyChange
      <3>1. CASE v = w
        BY <1>1, <1>2, <3>1 DEF WebInv, CommitsCounted, Told
      <3>2. CASE v # w
        BY <1>1, <2>1, <3>2 DEF WebInv, CommitsCounted, Told
      <3>. QED  BY <3>1, <3>2
    <2>. QED  BY <2>2 DEF CommitsCounted
  <1>5. FailedIsStale' /\ AnswersAreNew' /\ FreshIsCurrent'
    BY <1>2 DEF WebInv, FailedIsStale, AnswersAreNew, FreshIsCurrent
  <1>6. ShownIsCurrent'
    <2>1. Observed' = Observed /\ \A k : UnderWay(k)' <=> UnderWay(k)
      BY DEF Observed, UsedBy, UnderWay
    <2>. QED  BY <1>2, <2>1 DEF WebInv, ShownIsCurrent
  <1>. QED  BY <1>3, <1>4, <1>5, <1>6 DEF WebInv

LEMMA QuietStep ==
    ASSUME WebInv, NEW w \in Write,
           \/ \E k \in Kinds : Submit(w, k)
           \/ Commit(w) \/ Refuse(w) \/ LoseAnswer(w) \/ Settle(w)
    PROVE  WebInv'
  <1>1. write[w] \in AnyWrite /\ changes \in Seq(AnyChange) /\ Len(changes) \in Nat
    BY DEF WebInv, WebTypes
  <1>2. write[w].seen <= Len(changes)
    BY DEF WebInv, CommitsCounted
  <1>3. ASSUME NEW k \in Kinds, Submit(w, k) PROVE WebInv'
    <2> DEFINE r == [NoWrite EXCEPT !.phase = "sent", !.kind = k]
    <2>1. k \in AnyChange
      BY <1>3, OfferFacts DEF Submit, WebInv, WebTypes
    <2>2. /\ write' = [write EXCEPT ![w] = r]
          /\ UNCHANGED <<page, data, fresh, failed, fetch, changes, late>>
      BY <1>3 DEF Submit, cache
    <2>3. NoWrite \in AnyWrite /\ NoWrite.seen = -1
      BY DEF NoWrite, AnyWrite, None
    <2>4. r \in AnyWrite /\ r.phase = "sent" /\ r.kind = k /\ r.seen = -1
      BY <2>1, <2>3 DEF AnyWrite
    <2> HIDE DEF r
    <2>5. changes' \in Seq(AnyChange) /\ Len(changes) <= Len(changes')
          /\ r.seen <= Len(changes')
      BY <1>1, <2>2, <2>4
    <2>. QED  BY <2>1, <2>2, <2>4, <2>5, WriteStep
  <1>4. CASE Commit(w)
    <2> DEFINE r == [write[w] EXCEPT !.phase = "committed", !.seen = Len(changes) + 1]
    <2>1. /\ write' = [write EXCEPT ![w] = r]
          /\ changes' = Append(changes, write[w].kind)
          /\ UNCHANGED <<page, data, fresh, failed, fetch, late>>
      BY <1>1, <1>4 DEF Commit, cache, WebInv, WebTypes
    <2>2. write[w].kind \in AnyChange
      BY <1>4 DEF Commit, WebInv, CommitsCounted
    <2>3. changes' \in Seq(AnyChange) /\ Len(changes') = Len(changes) + 1
      BY <1>1, <2>1, <2>2
    <2>4. Len(changes) + 1 \in Int
      BY <1>1
    <2>5. /\ r \in AnyWrite /\ r.phase = "committed" /\ r.kind = write[w].kind
          /\ r.seen = Len(changes) + 1
      BY <1>1, <2>4 DEF AnyWrite
    <2> HIDE DEF r
    <2>6. r.seen <= Len(changes') /\ Len(changes) <= Len(changes')
      BY <1>1, <2>3, <2>5
    <2>. QED  BY <2>1, <2>2, <2>3, <2>5, <2>6, WriteStep
  <1>5. CASE Refuse(w) \/ LoseAnswer(w)
    <2> DEFINE r == [write[w] EXCEPT !.phase = "failed"]
    <2>1. /\ write' = [write EXCEPT ![w] = r]
          /\ UNCHANGED <<page, data, fresh, failed, fetch, changes, late>>
      BY <1>1, <1>5 DEF Refuse, LoseAnswer, cache, WebInv, WebTypes
    <2>2. r \in AnyWrite /\ r.phase = "failed" /\ r.seen = write[w].seen
      BY <1>1 DEF AnyWrite
    <2> HIDE DEF r
    <2>3. changes' \in Seq(AnyChange) /\ Len(changes) <= Len(changes')
          /\ r.seen <= Len(changes')
      BY <1>1, <1>2, <2>1, <2>2
    <2>. QED  BY <2>1, <2>2, <2>3, WriteStep
  <1>6. CASE Settle(w)
    <2> DEFINE r == [write[w] EXCEPT !.phase = "done"]
    <2>1. /\ write' = [write EXCEPT ![w] = r] /\ Told(w)
          /\ UNCHANGED <<page, data, fresh, failed, fetch, changes, late>>
      BY <1>1, <1>6 DEF Settle, cache, WebInv, WebTypes, Told
    <2>2. /\ r \in AnyWrite /\ r.phase = "done" /\ r.kind = write[w].kind
          /\ r.seen = write[w].seen
      BY <1>1 DEF AnyWrite
    <2> HIDE DEF r
    <2>3. changes' \in Seq(AnyChange) /\ Len(changes) <= Len(changes')
          /\ r.seen <= Len(changes')
      BY <1>1, <1>2, <2>1, <2>2
    <2>. QED  BY <2>1, <2>2, <2>3, WriteStep
  <1>. QED  BY <1>3, <1>4, <1>5, <1>6

\* onSuccess: what is stale is no longer fresh, what is shown is asked for again,
\* and what is under way without being replaced is remembered as late.
LEMMA SucceedStep ==
    ASSUME WebInv, NEW w \in Write, Succeed(w)
    PROVE  WebInv'
  <1> DEFINE hit == Under(Roots(write[w].kind))
             restarted == {q \in hit \cap Observed : UnderWay(q) => data[q] # None}
             r == [write[w] EXCEPT !.phase = "settling", !.waits = hit \cap Observed]
  <1>1. /\ write[w].phase = "committed"
        /\ fresh' = fresh \ hit
        /\ fetch' = [q \in Query |-> IF q \in restarted THEN Asked(0) ELSE fetch[q]]
        /\ failed' = failed \ {q \in restarted : data[q] = None}
        /\ late' = (late \ restarted) \cup {q \in hit \ restarted : UnderWay(q)}
        /\ UNCHANGED <<page, data, changes>>
    BY DEF Succeed
  <1>2. write[w] \in AnyWrite /\ write[w].kind \in AnyChange
    BY <1>1 DEF WebInv, WebTypes, CommitsCounted
  <1>3. Observed \subseteq Query /\ Observed' = Observed
    BY <1>1, UsedFacts DEF Observed, UsedBy, WebInv, WebTypes
  <1>4. write' = [write EXCEPT ![w] = r]
    BY <1>2 DEF Succeed, WebInv, WebTypes
  <1>5. /\ r \in AnyWrite /\ r.phase = "settling" /\ r.kind = write[w].kind
        /\ r.seen = write[w].seen
    BY <1>2, <1>3 DEF AnyWrite
  <1>6. \A q \in Query : write[w].kind \in Shows[q] => q \in hit
    BY <1>2, EveryChangeIsTold
  <1>7. \A q \in hit \cap Observed : q \notin restarted => UnderWay(q)
    OBVIOUS
  <1>8. restarted \subseteq hit \cap Observed
    OBVIOUS
  <1> HIDE DEF hit, restarted, r
  <1>9. /\ write' \in [Write -> AnyWrite] /\ write'[w] = r
        /\ \A v \in Write : v # w => write'[v] = write[v]
    BY <1>4, <1>5 DEF WebInv, WebTypes
  <1>10. /\ \A v \in Write : /\ write'[v].kind = write[v].kind /\ write'[v].seen = write[v].seen
                             /\ v # w => (Told(v)' <=> Told(v))
         /\ write'[w].phase = "settling"
    BY <1>5, <1>9 DEF Told
  <1>11. /\ fetch' \in [Query -> AnyFetch]
         /\ \A q \in Query : IF q \in restarted THEN fetch'[q].phase = "sent"
                             ELSE fetch'[q] = fetch[q]
    BY <1>1, NewFetches DEF WebInv, WebTypes
  <1>12. WebTypes'
    BY <1>1, <1>9, <1>11 DEF WebInv, WebTypes
  <1>13. CommitsCounted'
    BY <1>1, <1>2, <1>9, <1>10 DEF WebInv, CommitsCounted, Told
  <1>14. FailedIsStale'
    BY <1>1 DEF WebInv, FailedIsStale
  <1>15. AnswersAreNew'
    <2> SUFFICES ASSUME NEW v \in Write, NEW q \in Query, Told(v)', write'[v].kind \in Shows[q],
                        fetch'[q].phase = "read"
                 PROVE  fetch'[q].seen >= write'[v].seen \/ q \in late'
      BY DEF AnswersAreNew
    <2>1. q \notin restarted /\ fetch'[q] = fetch[q]
      BY <1>11
    <2>2. UnderWay(q)
      BY <2>1 DEF UnderWay
    <2>3. CASE v = w
      BY <1>1, <1>6, <1>10, <2>1, <2>2, <2>3
    <2>4. CASE v # w
      BY <1>1, <1>10, <2>1, <2>4 DEF WebInv, AnswersAreNew
    <2>. QED  BY <2>3, <2>4
  <1>16. FreshIsCurrent'
    <2> SUFFICES ASSUME NEW v \in Write, NEW q \in fresh', Told(v)', write'[v].kind \in Shows[q]
                 PROVE  data'[q] >= write'[v].seen \/ q \in late'
      BY DEF FreshIsCurrent
    <2>1. q \in fresh /\ q \notin hit /\ q \in Query
      BY <1>1 DEF WebInv, WebTypes
    <2>2. v # w
      BY <1>6, <1>10, <2>1
    <2>. QED  BY <1>1, <1>8, <1>10, <2>1, <2>2 DEF WebInv, FreshIsCurrent
  <1>17. ShownIsCurrent'
    <2> SUFFICES ASSUME NEW v \in Write, NEW q \in Observed, Told(v)',
                        write'[v].kind \in Shows[q], data'[q] # None, ~ UnderWay(q)',
                        q \notin failed'
                 PROVE  data'[q] >= write'[v].seen \/ q \in late'
      BY <1>3 DEF ShownIsCurrent
    <2>1. q \in Query /\ q \notin restarted
      BY <1>3, <1>11 DEF UnderWay
    <2>2. ~ UnderWay(q) /\ q \notin hit
      BY <1>7, <1>11, <2>1 DEF UnderWay
    <2>3. v # w /\ q \notin failed
      BY <1>1, <1>6, <1>10, <2>1, <2>2
    <2>. QED  BY <1>1, <1>10, <2>1, <2>2, <2>3 DEF WebInv, ShownIsCurrent
  <1>. QED  BY <1>12, <1>13, <1>14, <1>15, <1>16, <1>17 DEF WebInv

LEMMA WebInductive == WebInv /\ [Next]_vars => WebInv'
  <1> SUFFICES ASSUME WebInv, [Next]_vars PROVE WebInv'
    OBVIOUS
  <1>1. CASE UNCHANGED vars
    BY <1>1 DEF vars, WebInv, WebTypes, CommitsCounted, AnswersAreNew, FailedIsStale,
                FreshIsCurrent, ShownIsCurrent, Told, Observed, UsedBy, UnderWay
  <1>2. ASSUME NEW q \in Query, Requesting(q) \/ Age(q) \/ Drop(q) PROVE WebInv'
    BY <1>2, ServerReadsStep, ArriveStep, RetryStep, GiveUpStep, AgeStep DEF Requesting
  <1>3. ASSUME NEW w \in Write, Answering(w) \/ \E k \in Kinds : Submit(w, k) PROVE WebInv'
    BY <1>3, QuietStep, SucceedStep DEF Answering
  <1>. QED  BY <1>1, <1>2, <1>3, GoStep, TryAgainStep DEF Next

LEMMA WebInvariant == Spec => []WebInv
  BY InitWeb, WebInductive, PTL DEF Spec

-----------------------------------------------------------------------------
(* Theorems.                                                               *)

\* An answer that React Query would show without asking has every change that the
\* mutations of the tab were told of: invalidateQueries of each hook reaches every
\* query that shows its change, whatever was under way, sent again, or given up.
THEOREM FreshHasChanges == Spec => []FreshIsCurrent
  <1>1. WebInv => FreshIsCurrent
    BY DEF WebInv
  <1>. QED  BY <1>1, WebInvariant, PTL

\* What a page shows and is not asking for has those changes as well, whatever
\* pages were visited and answers aged or were dropped in between.
THEOREM ShownHasChanges == Spec => []ShownIsCurrent
  <1>1. WebInv => ShownIsCurrent
    BY DEF WebInv
  <1>. QED  BY <1>1, WebInvariant, PTL

-----------------------------------------------------------------------------
(* A mutation that keeps a dialog busy.                                     *)

WaitsOnlyForRequests == \A w \in Write : \A q \in write[w].waits : UnderWay(q)

TriesLimited == \A q \in Query : fetch[q].tries \in 0 .. RetryLimit(q)

WaitInv == WaitsOnlyForRequests /\ TriesLimited

LEMMA Limits == \A q \in Query : RetryLimit(q) \in Nat
  BY DEF RetryLimit, HoldingsRetries, AnalyticsRetries, DefaultRetries

LEMMA FetchTries ==
    /\ Idle.tries = 0 /\ Idle.phase = "idle"
    /\ \A k : Asked(k).tries = k /\ Asked(k).phase = "sent"
    /\ \A n, k : Read(n, k).tries = k /\ Read(n, k).phase = "read"
  BY DEF Idle, Asked, Read

\* Requests are sent anew, read and tried again; none of them ends.
LEMMA NoneEnds ==
    ASSUME WebInv, WaitInv, write' = write,
           \A q \in Query : /\ UnderWay(q) => UnderWay(q)'
                            /\ fetch'[q].tries \in 0 .. RetryLimit(q)
    PROVE  WaitInv'
  <1>1. \A w \in Write : write[w].waits \subseteq Query
    BY DEF WebInv, WebTypes, AnyWrite
  <1>2. WaitsOnlyForRequests'
    BY <1>1 DEF WaitInv, WaitsOnlyForRequests
  <1>. QED  BY <1>2 DEF WaitInv, TriesLimited

LEMMA StartWaits ==
    ASSUME WebInv, WaitInv, NEW qs \in SUBSET Query, Start(qs), write' = write
    PROVE  WaitInv'
  <1>1. \A q \in Query : fetch'[q] = Asked(0) \/ fetch'[q] = fetch[q]
    BY DEF Start
  <1>2. \A q \in Query : /\ UnderWay(q) => UnderWay(q)'
                         /\ fetch'[q].tries \in 0 .. RetryLimit(q)
    BY <1>1, Limits, FetchTries DEF UnderWay, WaitInv, TriesLimited
  <1>. QED  BY <1>2, NoneEnds

\* Who has waited for a request that ends waits for it no longer.
LEMMA EndWaits ==
    ASSUME WebInv, WaitInv, NEW q \in Query, write' = Released(q),
           fetch' = [fetch EXCEPT ![q] = Idle]
    PROVE  WaitInv'
  <1>1. \A v \in Query : /\ v # q => fetch'[v] = fetch[v]
                         /\ fetch'[v].tries \in 0 .. RetryLimit(v)
    BY Limits, FetchTries DEF WebInv, WebTypes, WaitInv, TriesLimited
  <1>2. ASSUME NEW w \in Write PROVE write'[w].waits = write[w].waits \ {q}
    BY DEF Released, WebInv, WebTypes, AnyWrite
  <1>3. \A w \in Write : write[w].waits \subseteq Query
    BY DEF WebInv, WebTypes, AnyWrite
  <1>4. WaitsOnlyForRequests'
    BY <1>1, <1>2, <1>3 DEF WaitInv, WaitsOnlyForRequests, UnderWay
  <1>. QED  BY <1>1, <1>4 DEF WaitInv, TriesLimited

LEMMA SucceedWaits ==
    ASSUME WebInv, WaitInv, NEW w \in Write, Succeed(w)
    PROVE  WaitInv'
  <1> DEFINE hit == Under(Roots(write[w].kind))
             restarted == {q \in hit \cap Observed : UnderWay(q) => data[q] # None}
  <1>1. /\ fetch' = [q \in Query |-> IF q \in restarted THEN Asked(0) ELSE fetch[q]]
        /\ \A q \in hit \cap Observed : q \in restarted \/ UnderWay(q)
    BY DEF Succeed
  <1>2. write'[w].waits = hit \cap Observed /\ \A v \in Write \ {w} : write'[v] = write[v]
    BY DEF Succeed, WebInv, WebTypes, AnyWrite
  <1>3. Observed \subseteq Query
    BY UsedFacts DEF Observed, UsedBy, WebInv, WebTypes
  <1>4. \A v \in Write : write[v].waits \subseteq Query
    BY DEF WebInv, WebTypes, AnyWrite
  <1> HIDE DEF hit, restarted
  <1>5. \A q \in Query : fetch'[q] = Asked(0) \/ (fetch'[q] = fetch[q] /\ q \notin restarted)
    BY <1>1
  <1>6. \A q \in Query : /\ UnderWay(q) \/ q \in restarted => UnderWay(q)'
                         /\ fetch'[q].tries \in 0 .. RetryLimit(q)
    BY <1>5, Limits, FetchTries DEF UnderWay, WaitInv, TriesLimited
  <1>7. WaitsOnlyForRequests'
    BY <1>1, <1>2, <1>3, <1>4, <1>6 DEF WaitInv, WaitsOnlyForRequests
  <1>. QED  BY <1>6, <1>7 DEF WaitInv, TriesLimited

LEMMA RequestWaits ==
    ASSUME WebInv, WaitInv, NEW q \in Query, ServerReads(q) \/ Retry(q)
    PROVE  WaitInv'
  <1>1. fetch[q].tries \in 0 .. RetryLimit(q) /\ RetryLimit(q) \in Nat
    BY Limits DEF WaitInv, TriesLimited
  <1>2. ASSUME Retry(q) PROVE NextTry(q) \in 0 .. RetryLimit(q)
    BY <1>1 DEF NextTry
  <1>3. write' = write
    BY DEF ServerReads, Retry
  <1>4. \A v \in Query \ {q} : fetch'[v] = fetch[v]
    BY DEF ServerReads, Retry, WebInv, WebTypes
  <1>5. fetch'[q].phase # "idle" /\ fetch'[q].tries \in 0 .. RetryLimit(q)
    <2>1. CASE ServerReads(q)
      <3>1. fetch'[q] = Read(Len(changes), fetch[q].tries)
        BY <2>1 DEF ServerReads, WebInv, WebTypes
      <3>. QED  BY <1>1, <3>1, FetchTries
    <2>2. CASE Retry(q)
      <3>1. fetch'[q] = Asked(NextTry(q))
        BY <2>2 DEF Retry, WebInv, WebTypes
      <3>. QED  BY <1>2, <2>2, <3>1, FetchTries
    <2>. QED  BY <2>1, <2>2
  <1>6. \A v \in Query : /\ UnderWay(v) => UnderWay(v)'
                         /\ fetch'[v].tries \in 0 .. RetryLimit(v)
    BY <1>4, <1>5 DEF UnderWay, WaitInv, TriesLimited
  <1>. QED  BY <1>3, <1>6, NoneEnds

\* The other steps of a mutation leave the requests, and what it waits for, alone.
LEMMA QuietWaits ==
    ASSUME WebInv, WaitInv, fetch' = fetch,
           \A w \in Write : write'[w].waits \subseteq write[w].waits
    PROVE  WaitInv'
  BY DEF WaitInv, WaitsOnlyForRequests, TriesLimited, UnderWay

LEMMA WaitInductive == WebInv /\ WaitInv /\ [Next]_vars => WaitInv'
  <1> SUFFICES ASSUME WebInv, WaitInv, [Next]_vars PROVE WaitInv'
    OBVIOUS
  <1>1. CASE UNCHANGED vars
    BY <1>1, QuietWaits DEF vars
  <1>2. ASSUME NEW p \in Pages, Go(p) PROVE WaitInv'
    <2> DEFINE qs == {q \in Mounted(p) : q \notin fresh /\ ~ UnderWay(q)}
    <2>1. Mounted(p) \subseteq Query
      BY WebAssumption, UsedFacts DEF Mounted
    <2>2. Start(qs) /\ qs \in SUBSET Query /\ write' = write
      BY <1>2, <2>1 DEF Go
    <2> HIDE DEF qs
    <2>. QED  BY <2>2, StartWaits
  <1>3. CASE TryAgain
    <2>1. PICK q \in UsedBy(page) : Start({q}) /\ write' = write
      BY <1>3 DEF TryAgain, UsedBy
    <2>2. q \in Query
      BY UsedFacts DEF WebInv, WebTypes
    <2>. QED  BY <2>1, <2>2, StartWaits
  <1>4. ASSUME NEW q \in Query, Arrive(q) \/ GiveUp(q) PROVE WaitInv'
    BY <1>4, EndWaits DEF Arrive, GiveUp
  <1>5. ASSUME NEW q \in Query, Age(q) \/ Drop(q) PROVE WaitInv'
    BY <1>5, QuietWaits DEF Age, Drop
  <1>6. ASSUME NEW w \in Write,
               \/ Commit(w) \/ Refuse(w) \/ LoseAnswer(w) \/ Settle(w)
               \/ \E k \in Kinds : Submit(w, k)
        PROVE  WaitInv'
    <2>1. fetch' = fetch
      BY <1>6 DEF Commit, Refuse, LoseAnswer, Settle, Submit, cache
    <2>2. \A v \in Write \ {w} : write'[v] = write[v]
      BY <1>6 DEF Commit, Refuse, LoseAnswer, Settle, Submit, WebInv, WebTypes
    <2>3. write'[w].waits \subseteq write[w].waits
      <3>1. CASE \E k \in Kinds : Submit(w, k)
        <4>1. write'[w].waits = {}
          BY <3>1 DEF Submit, NoWrite, WebInv, WebTypes
        <4>. QED  BY <4>1
      <3>2. CASE Commit(w) \/ Refuse(w) \/ LoseAnswer(w) \/ Settle(w)
        <4>1. write'[w].waits = write[w].waits
          BY <3>2 DEF Commit, Refuse, LoseAnswer, Settle, WebInv, WebTypes, AnyWrite
        <4>. QED  BY <4>1
      <3>. QED  BY <1>6, <3>1, <3>2
    <2>. QED  BY <2>1, <2>2, <2>3, QuietWaits
  <1>. QED
    BY <1>1, <1>2, <1>3, <1>4, <1>5, <1>6, RequestWaits, SucceedWaits
       DEF Next, Requesting, Answering

LEMMA WaitInvariant == Spec => [](WebInv /\ WaitInv)
  <1>1. Init => WaitInv
    <2> SUFFICES ASSUME Init PROVE WaitInv
      OBVIOUS
    <2>1. \A w \in Write : write[w].waits = {}
      BY DEF Init, NoWrite
    <2>2. \A q \in Query : fetch[q].tries = 0
      BY FetchTries DEF Init
    <2>. QED  BY <2>1, <2>2, Limits DEF WaitInv, WaitsOnlyForRequests, TriesLimited
  <1>. QED  BY <1>1, InitWeb, WebInductive, WaitInductive, PTL DEF Spec

\* A dialog that saves is busy only for requests that are under way: a request that
\* an invalidation has cancelled, or that was given up, keeps no mutation waiting.
THEOREM BusyForRequests == Spec => []WaitsOnlyForRequests
  <1>1. WaitInv => WaitsOnlyForRequests
    BY DEF WaitInv
  <1>. QED  BY <1>1, WaitInvariant, PTL

\* How many steps a request has left, if all its tries fail.
StepsLeft(q) ==
    2 * (RetryLimit(q) - fetch[q].tries)
      + (CASE fetch[q].phase = "sent" -> 2 [] fetch[q].phase = "read" -> 1 [] OTHER -> 0)

RequestsAdvance ==
    [][\A q \in Query : Requesting(q) =>
          \/ ~UnderWay(q)'
          \/ (StepsLeft(q)' \in Nat /\ StepsLeft(q)' < StepsLeft(q))]_vars

\* Every step of a request ends it or brings its end nearer, since each try is one of a
\* number that `retry` limits: with fairness no request is under way for ever, unless
\* it is asked for anew, which takes a visit, a click or another mutation.
THEOREM RequestsEnd == Spec => RequestsAdvance
  <1>1. ASSUME WebInv, WaitInv, NEW q \in Query, Requesting(q)
        PROVE  ~UnderWay(q)' \/ (StepsLeft(q)' \in Nat /\ StepsLeft(q)' < StepsLeft(q))
    <2>1. fetch[q].tries \in 0 .. RetryLimit(q) /\ RetryLimit(q) \in Nat
      BY <1>1, Limits DEF WaitInv, TriesLimited
    <2>2. CASE ServerReads(q)
      <3>1. fetch'[q] = Read(Len(changes), fetch[q].tries) /\ fetch[q].phase = "sent"
        BY <1>1, <2>2 DEF ServerReads, WebInv, WebTypes
      <3>2. fetch'[q].phase = "read" /\ fetch'[q].tries = fetch[q].tries
        BY <3>1, FetchTries
      <3>3. /\ StepsLeft(q) = 2 * (RetryLimit(q) - fetch[q].tries) + 2
            /\ StepsLeft(q)' = 2 * (RetryLimit(q) - fetch[q].tries) + 1
        BY <3>1, <3>2 DEF StepsLeft
      <3>. QED  BY <2>1, <3>3
    <2>3. CASE Retry(q)
      <3>1. fetch'[q] = Asked(NextTry(q)) /\ fetch[q].phase \in {"sent", "read"}
        BY <1>1, <2>3 DEF Retry, UnderWay, WebInv, WebTypes, AnyFetch
      <3>2. /\ fetch'[q].phase = "sent" /\ fetch'[q].tries = fetch[q].tries + 1
            /\ fetch[q].tries < RetryLimit(q)
        BY <2>3, <3>1, FetchTries DEF Retry, MayRetry, NextTry
      <3>3. StepsLeft(q)' = 2 * (RetryLimit(q) - (fetch[q].tries + 1)) + 2
        BY <3>2 DEF StepsLeft
      <3>4. StepsLeft(q) \in {2 * (RetryLimit(q) - fetch[q].tries) + 2,
                              2 * (RetryLimit(q) - fetch[q].tries) + 1}
        BY <3>1 DEF StepsLeft
      <3>. QED  BY <2>1, <3>2, <3>3, <3>4
    <2>4. CASE Arrive(q) \/ GiveUp(q)
      BY <1>1, <2>4, FetchTries DEF Arrive, GiveUp, UnderWay, WebInv, WebTypes
    <2>. QED  BY <1>1, <2>2, <2>3, <2>4 DEF Requesting
  <1>2. WebInv /\ WaitInv /\ [Next]_vars =>
          [\A q \in Query : Requesting(q) =>
              \/ ~UnderWay(q)'
              \/ (StepsLeft(q)' \in Nat /\ StepsLeft(q)' < StepsLeft(q))]_vars
    BY <1>1
  <1>. QED  BY <1>2, WaitInvariant, PTL DEF Spec, RequestsAdvance
=============================================================================
