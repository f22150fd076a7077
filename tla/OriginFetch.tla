------------------------------ MODULE OriginFetch ------------------------------
(***************************************************************************)
(* Set.Fetch: a goroutine for each origin renames the pairs by the aliases *)
(* of the origin, makes its requests one after the other by way of a pool  *)
(* of HTTP workers that is shared by all origins and that tries each       *)
(* request several times, and puts its results, under the names of the     *)
(* caller, in a common map. A handler that panics is recovered.            *)
(***************************************************************************)
EXTENDS OriginHandlers

CONSTANTS Handlers,      \* the origins that are fetched
          KindChoices,   \* the kinds each of them may be of
          Wanted,        \* the pairs the caller may want of each: sequences
          Aliases,       \* SymbolAliases of every origin
          Workers,       \* workerCount
          Retry          \* of MakeHTTPRequest

\* Pairs are two assets, and no retries at all means the default number of them.
ASSUME FetchAssumption ==
    /\ Workers \in Nat /\ Retry \in Nat \ {0}
    /\ \A h \in Handlers : \A w \in Wanted[h] :
        w \in Seq(ToSet(w)) /\ \A i \in 1..Len(w) : w[i] = <<w[i][1], w[i][2]>>

VARIABLES kind,      \* of each origin
          groups,    \* the pairs of the requests it has not made yet
          hpc,       \* where its goroutine is
          got,       \* results so far
          queue,     \* WorkerPool.input
          busy,      \* requests that workers are at, with the number of tries
          frs,       \* the map of results
          returned,  \* the map as the caller got it
          clean      \* origins whose requests have all been answered in full

fetchVars == <<kind, groups, hpc, got, queue, busy, frs, returned, clean>>

NoResults == <<>>

Replaced(a) == IF a \in DOMAIN Aliases THEN Aliases[a] ELSE a
Reverted(a) == IF \E x \in DOMAIN Aliases : Aliases[x] = a
               THEN CHOOSE x \in DOMAIN Aliases : Aliases[x] = a ELSE a

\* replacePair: what was replaced is marked.
replacePair(m) ==
    [base |-> Replaced(m[1]), quote |-> Replaced(m[2]),
     baseReplaced |-> m[1] \in DOMAIN Aliases, quoteReplaced |-> m[2] \in DOMAIN Aliases]

\* revertPair: only what is marked is put back.
revertPair(p) ==
    <<IF p.baseReplaced THEN Reverted(p.base) ELSE p.base,
      IF p.quoteReplaced THEN Reverted(p.quote) ELSE p.quote>>

Bases(ps) == {ps[i].base : i \in 1..Len(ps)}

\* The requests of a handler: one for all pairs, one for each, or one for each
\* base.
Groups(k, ps) ==
    IF k \in BatchOrigins THEN <<ps>>
    ELSE IF k = "fx"
         THEN LET bs == SetToSeq(Bases(ps))
              IN  [i \in 1..Len(bs) |-> SelectSeq(ps, LAMBDA p : p.base = bs[i])]
    ELSE [i \in 1..Len(ps) |-> <<ps[i]>>]

FetchInit ==
    /\ kind \in [Handlers -> Kinds] /\ \A h \in Handlers : kind[h] \in KindChoices[h]
    /\ \E want \in [Handlers -> UNION {Wanted[h] : h \in Handlers}] :
        /\ \A h \in Handlers : want[h] \in Wanted[h]
        /\ groups = [h \in Handlers |->
                        Groups(kind[h], [i \in 1..Len(want[h]) |-> replacePair(want[h][i])])]
        /\ got = [h \in Handlers |-> [want |-> want[h], list |-> <<>>]]
    /\ hpc = [h \in Handlers |-> "ask"]
    /\ queue = <<>> /\ busy = <<>>
    /\ frs = [h \in Handlers |-> NoResults]
    /\ returned = NoResults
    /\ clean = Handlers

At(h, at) == hpc' = [hpc EXCEPT ![h] = at]

\* All pairs of the caller with an error.
Failed(h) == [i \in 1..Len(got[h].want) |-> Error(replacePair(got[h].want[i]))]

EndWith(h, list) ==
    /\ got' = [got EXCEPT ![h].list = list]
    /\ groups' = [groups EXCEPT ![h] = <<>>]
    /\ At(h, "return")

\* What a handler makes of a reply to its request: it goes on with the next one,
\* or it panics, or it gives up.
Handle(h, r) ==
    LET ps == Head(groups[h])
        x == PullPrices(kind[h], ps, r)
    IN  IF EndsFetch(kind[h], ps[1], r) THEN EndWith(h, Failed(h))
        ELSE IF x.panic THEN At(h, "panicked") /\ UNCHANGED <<groups, got>>
        ELSE /\ got' = [got EXCEPT ![h].list = @ \o x.list]
             /\ groups' = [groups EXCEPT ![h] = Tail(@)]
             /\ At(h, "ask")

\* A group of pairs for which no request can be made.
SkipRequest(h) ==
    /\ hpc[h] = "ask" /\ groups[h] # <<>> /\ FailsAtOnce(kind[h], Head(groups[h]))
    /\ IF kind[h] \in SingleOrigins \ {"ishares"}
       THEN /\ got' = [got EXCEPT ![h].list = @ \o Errors(Head(groups[h]))]
            /\ groups' = [groups EXCEPT ![h] = Tail(@)] /\ UNCHANGED hpc
       ELSE EndWith(h, Failed(h))
    /\ clean' = clean \ {h}
    /\ UNCHANGED <<kind, queue, busy, frs, returned>>

CanAsk(h) == hpc[h] = "ask" /\ groups[h] # <<>> /\ ~FailsAtOnce(kind[h], Head(groups[h]))

\* WorkerPool.Query: the request is put in the channel of the pool.
Query(h) ==
    /\ CanAsk(h) /\ kind[h] \notin EthOrigins
    /\ Len(queue) < Workers
    /\ queue' = Append(queue, h) /\ At(h, "wait")
    /\ UNCHANGED <<kind, groups, got, busy, frs, returned, clean>>

\* A worker takes a request.
TakeRequest ==
    /\ queue # <<>> /\ Len(busy) < Workers
    /\ busy' = Append(busy, [of |-> Head(queue), tries |-> 1]) /\ queue' = Tail(queue)
    /\ UNCHANGED <<kind, groups, hpc, got, frs, returned, clean>>

\* The market under which the server of an origin has the price of a pair.
ListedAs(k, p) ==
    CASE k \in {"gsu", "gsu1", "gsu2"} -> GsuName(p)
      [] k = "balancer" -> TokenName(p)
      [] k = "bitfinex" -> BitfinexName(p)
      [] k = "poloniex" -> PoloniexName(p)
      [] k \in JoiningOrigins \ {"bitfinex"} -> SymbolName(p)
      [] OTHER -> Market(p)

\* What it may say to a request for these pairs. It knows the markets, in either
\* direction if they are pools.
Markets(k, ps) ==
    LET names == {ListedAs(k, ps[i]) : i \in 1..Len(ps)}
    IN  IF k \in PostOrigins \ {"balancer"}
        THEN {m \in Contracts : m \in names \/ Turned(m) \in names} ELSE names

Reply(f, g, x, e) == [failed |-> f, garbage |-> g, refused |-> x, entries |-> e]
NoEntries == [m \in {} |-> "good"]
FailedReply == Reply(TRUE, FALSE, FALSE, NoEntries)

Replies(k, ps) ==
    {Reply(FALSE, TRUE, FALSE, NoEntries), Reply(FALSE, FALSE, TRUE, NoEntries)}
    \cup UNION {{Reply(FALSE, FALSE, FALSE, e) : e \in [ms -> {"good", "blank", "bad", "short", "frozen"}]} :
                   ms \in SUBSET Markets(k, ps)}

\* The reply has a price for every market that was asked for.
Complete(k, ps, r) ==
    ~Lost(r) /\ ~r.refused /\ DOMAIN r.entries = Markets(k, ps)
    /\ \A m \in Markets(k, ps) : r.entries[m] = "good"

\* A request is answered. The body of a request is an io.Reader that the first
\* try has read: another one sends none, and that is refused.
Spent(h, tries) == kind[h] \in PostOrigins /\ tries > 1

Answer(h, tries) ==
    \E r \in Replies(kind[h], Head(groups[h])) :
        /\ Spent(h, tries) => r.refused
        /\ Handle(h, r)
        /\ clean' = IF Spent(h, tries) \/ Complete(kind[h], Head(groups[h]), r) THEN clean ELSE clean \ {h}

\* A try of a worker is answered: doMakeHTTPRequest.
TryAnswered(i) ==
    /\ i \in 1..Len(busy)
    /\ Answer(busy[i].of, busy[i].tries)
    /\ busy' = RemoveAt(busy, i)
    /\ UNCHANGED <<kind, queue, frs, returned>>

\* A try fails, by the timeout at the latest; the last one is the answer.
TryFails(i) ==
    /\ i \in 1..Len(busy)
    /\ IF busy[i].tries < Retry
       THEN /\ busy' = [busy EXCEPT ![i].tries = @ + 1]
            /\ UNCHANGED <<groups, hpc, got, clean>>
       ELSE /\ Handle(busy[i].of, FailedReply)
            /\ busy' = RemoveAt(busy, i) /\ clean' = clean \ {busy[i].of}
    /\ UNCHANGED <<kind, queue, frs, returned>>

\* The calls of an Ethereum client succeed or fail.
EthCall(h) ==
    /\ CanAsk(h) /\ kind[h] \in EthOrigins
    /\ \/ Answer(h, 1)
       \/ Handle(h, FailedReply) /\ clean' = clean \ {h}
    /\ UNCHANGED <<kind, queue, busy, frs, returned>>

\* BaseExchangeHandler.Fetch and the goroutine of Set.Fetch end.
Named(list) == [i \in 1..Len(list) |-> [list[i] EXCEPT !.pair = revertPair(list[i].pair)]]

GoroutineEnds(h) ==
    /\ hpc[h] = "return" \/ (hpc[h] = "ask" /\ groups[h] = <<>>)
    /\ frs' = [frs EXCEPT ![h] = Named(got[h].list)] /\ At(h, "done")
    /\ UNCHANGED <<kind, groups, got, queue, busy, returned, clean>>

\* Mutant: the deferred function does not count a panic.
PanicUncounted(h) ==
    /\ hpc[h] = "panicked" /\ At(h, "lost")
    /\ UNCHANGED <<kind, groups, got, queue, busy, frs, returned, clean>>

\* The deferred function: the goroutine is counted as done,
PanicDone(h) ==
    /\ hpc[h] = "panicked" /\ At(h, "counted")
    /\ UNCHANGED <<kind, groups, got, queue, busy, frs, returned, clean>>

\* and only then the errors are stored, maybe in a map that has been returned.
PanicStored(h) ==
    /\ hpc[h] = "counted"
    /\ frs' = [frs EXCEPT ![h] = Named(Failed(h))] /\ At(h, "done")
    /\ UNCHANGED <<kind, groups, got, queue, busy, returned, clean>>

FetchReturnsNow ==
    /\ returned = NoResults /\ \A h \in Handlers : hpc[h] \in {"counted", "done"}
    /\ returned' = frs
    /\ UNCHANGED <<kind, groups, hpc, got, queue, busy, frs, clean>>

FetchNext ==
    \/ \E h \in Handlers : SkipRequest(h) \/ Query(h) \/ EthCall(h) \/ GoroutineEnds(h)
                           \/ PanicDone(h) \/ PanicStored(h)
    \/ TakeRequest \/ FetchReturnsNow
    \/ \E i \in 1..Workers : TryAnswered(i) \/ TryFails(i)

\* Goroutines and workers are scheduled; every try ends by the timeout of its HTTP
\* client (5 seconds unless set), every call by that of the RPC splitter.
FetchFairness == WF_fetchVars(FetchNext)

FetchSpec == FetchInit /\ [][FetchNext]_fetchVars /\ FetchFairness

-----------------------------------------------------------------------------
(* Properties *)

\* Type correctness; there are no more requests under way than workers.
FetchTypeOK ==
    /\ kind \in [Handlers -> Kinds]
    /\ \A h \in Handlers : hpc[h] \in {"ask", "wait", "return", "panicked", "counted", "done"}
    /\ Len(queue) <= Workers /\ Len(busy) <= Workers
    /\ \A i \in 1..Len(busy) : busy[i].tries \in 1..Retry

Has(h) == returned # NoResults /\ returned[h] # NoResults
Listed(h) == {i \in 1..Len(returned[h]) : TRUE}

\* Origins that take the base for the whole pair and give its price in USD, which
\* the configuration only uses with the quote they mean.
QuoteBlind == {"gsu", "gsu1", "gsu2", "balancer"}

\* A price that the caller gets is the price of the market it is labelled with,
\* in the names of the caller, or zero: not that of the inverse, of another pair
\* of the same request, or of the pair whose alias has the same name. Bitfinex
\* serves USD for USDT, and Poloniex REPV2 for REP, by intention. Where symbols are
\* joined, it is that of the market which has the joined name.
LabelledRight ==
    \A h \in Handlers : Has(h) => \A i \in Listed(h) :
        LET x == returned[h][i]
            m == Market(replacePair(x.pair))
        IN  x.ok /\ x.of # ZeroPrice =>
              \/ x.of = m
              \/ kind[h] \in JoiningOrigins /\ x.of = Symbol(m)
              \/ kind[h] \in QuoteBlind /\ x.of = <<m[1], "USD">>
              \/ kind[h] = "bitfinex" /\ m[2] = "USDT" /\ x.of = Symbol(<<m[1], "USD">>)
              \/ kind[h] = "poloniex" /\ x.of = PoloniexName(replacePair(x.pair))

\* Every pair that is wanted is answered exactly once, whatever happens to the
\* requests, unless the handler panicked; IShares alone answers by what it finds.
AnsweredOnce ==
    \A h \in Handlers : Has(h) /\ kind[h] # "ishares" =>
        /\ Len(returned[h]) = Len(got[h].want)
        /\ {returned[h][i].pair : i \in Listed(h)} = ToSet(got[h].want)

\* CoinMarketCap knows no pair that has an alias, and Loopring wants as many rows
\* as there are pairs, also when two of them are one market.
Picky(h) ==
    \/ kind[h] = "coinmarketcap"
    \/ /\ kind[h] = "loopring"
       /\ Cardinality({Market(replacePair(m)) : m \in ToSet(got[h].want)}) < Len(got[h].want)

\* When every reply to an origin was complete there is a price for every pair, so
\* that no price is lost between the names of the caller, those of the handler
\* and those of the origin.
CompleteGivesPrices ==
    \A h \in Handlers : Has(h) /\ h \in clean /\ kind[h] \notin PostOrigins /\ ~Picky(h) =>
        \A i \in Listed(h) : returned[h][i].ok

\* "in case of error it will retry request `retry` amount of times": a request
\* that is answered at a later try gives prices just as at the first one.
RetryGivesPrices ==
    \A h \in Handlers : Has(h) /\ h \in clean /\ ~Picky(h) =>
        \A i \in Listed(h) : returned[h][i].ok

\* Set.Fetch returns, although handlers panic, origins fail, and there are fewer
\* workers than origins.
FetchReturns == []<>(returned # NoResults)

\* Set.Fetch answers what it was asked: one result per pair, the price of that
\* market and none that is lost although the reply had it, whatever else of a
\* reply is broken.
AnsweredAsAsked ==
    /\ FetchTypeOK /\ LabelledRight /\ AnsweredOnce /\ CompleteGivesPrices
===============================================================================
