# Verification of the Oracle Suite

TLA+ models of the services in `pkg/`, TLC configurations that check them on
small instances, and TLAPS proofs of what matters most for every instance.
Definitions carry the names of the Go functions they translate where TLA+ allows
it; `PROJECT.json` maps each of them to its lines.

## 1. Inventory of the system

The suite is a set of services. Feeds (`ghost`) compute prices and sign them, a
gossip network or the web API carries them, relayers (`spectre`) collect them and
update Medianizer contracts on Ethereum; `leeloo` observes teleport events and
`lair` stores and serves them; `gofer` and `gofernext` compute prices on demand;
`rpc-splitter` puts several Ethereum endpoints behind one; every command runs its
services under one supervisor.

| Component | State | Operations | Interacts with | What is hard | What makes it correct | Module |
|---|---|---|---|---|---|---|
| price messages (`price/median`, `transport/messages`) | none | sign, recover, encode as price/v0 and price/v1 | feeder, store | whole seconds and integers only are signed | both encodings carry the same price | `PriceNet` |
| price store (`price/store`) | one price per pair and feeder, under a mutex | Start, collector on two topics, `Add`, getters | transport, relayer, spire | reordered, repeated, invalid messages | newest genuine price kept, never goes back | `PriceStore` |
| relayer (`price/relayer`) | pairs, lists of feeder addresses, mutex | Start, relay at each tick, refresh of the lists | store, median client | decision from a store read and three contract reads, other relayers, pending transactions | only genuine batches, no blind overwrite, updates when due, eventually | `Relayer` |
| median client (`price/median/geth`, `ethereum/geth`) | none | Bar, Age, Val, Feeds, Poke; nonce and fees | Ethereum node | errors of multi-calls, equal nonces | errors are reported, a poke is sent | `Relayer`, `MedianContract` |
| feeder (`price/feeder`) | none beyond its ticker | Start, broadcast of each pair on two topics | price graph, transport | one of two broadcasts fails | topics agree, no future timestamps | `Feeder` |
| price graph (`price/provider/graph`) | last price of every origin node, a mutex each | refresh routine per origin, medians, cross rates | origins, feeder | refresh during an evaluation, failing or hanging origins, expiry, errors in a fold | usable prices kept, central median, true cross rate of all its children | `PriceGraph`, `PriceRates` |
| origins (`price/provider/origins`, `util/query`) | a pool of HTTP workers | `Set.Fetch`, some forty handlers, retries | exchanges | panics, broken replies, aliases, one pool for all | one answer per pair, under the right name, always | `OriginFetch`, `OriginHandlers` |
| graph configuration (`config/priceprovider`, `config/priceprovidernext`) | the graph being built | build roots, branches, references; search for cycles | both providers | references in any order, across models | an accepted graph has no cycle and serves its pairs | `GraphConfig` |
| next provider (`pricenext`) | last tick of every leaf | Ticks, updater with a limiter, six kinds of nodes | origins, `gofernext` | concurrent fetches, panics, old and wrong ticks | the update ends, nothing expired or far off is served | `PriceModels` |
| RPC splitter (`rpcsplitter`) | per request: answers, timer, context | call, four resolvers, block tags | endpoints, any client | order of answers and timeouts, dishonest endpoints | agreement, bounded gas and block number, an answer to each request | `RPCSplitter` |
| supervisor (`supervisor`) | watched services, context, wait channel | Watch, Start, monitor, Delayed | all services | failures at any moment, also during Start | no error lost, all stopped when it reports | `Supervisor` |
| teleport providers (`event/publisher/teleport*`) | last block seen, pending block | prefetch, fetch, processBlock | Ethereum or Starknet node | routines with heads of their own, lagging nodes, growing pending blocks | every confirmed block once, nothing unconfirmed, events once | `TeleportEVM`, `TeleportStarknet` |
| replayer and publisher (`event/publisher`) | cached events under a mutex | collect, replay, sign, broadcast | providers, transport | late ticks, a mutex held while sending | delivered after each period, nothing stuck | `EventPublisher` |
| event store and API (`event/store`, `event/api`) | messages by author and event, in memory or Redis, memory counters | Add, Get, garbage collection | transport, HTTP | read-modify-write in Redis, expiry, failing commands | newest message served, limit kept | `EventStore`, `EventStoreRedis` |
| web API (`transport/webapi`) | pack, last request per producer, address book | Broadcast, flush, handler, shutdown | network, consumers | lost, late, repeated requests, clocks, locks held while sending | punctual not refused, nothing received twice, stops | `WebAPI` |
| local, chain, channels (`transport/local`, `transport/chain`, `util/chanutil`) | subscriptions, channels | Broadcast, Messages, FanIn, FanOut | all | slow readers, closing | no gap, everything read, closed at the end | `Channels` |
| libp2p (`transport/libp2p`) | node, subscriptions, limiters | Start, Subscribe, loops, monitor, validators, shutdown | gossip library | locks of node and notifee, limiters | in order, no send on a closed channel, only genuine messages, authors not punished for relays | `P2PNode`, `P2PValidators` |
| metrics logger (`log/grafana`, `log/chain`) | map of points under a mutex | log, push, panic, stop | everybody who logs, a server | logging during a push, a server that hangs | sums conserved, nobody waits for the server, flushed at the end | `MetricsLog` |

`PROJECT.json` lists these and the parts without a model (section 6), and under
"hazards" the places in the code that are hard to test.

## 2. Plan

1. *Price pipeline* (done): `PriceNet`, `PriceStore`, `MedianContract`, `Relayer`;
   `PriceGraph`, `Feeder`, with `Feeder` implementing `PriceNet`.
2. *RPC splitter, supervision* (done).
3. *Event pipeline* (done): both providers, replayer with publisher, both stores.
4. *Transports* (done): web API, local and chain over the channel utilities,
   libp2p node and validators.
5. *Graphs* (done): cross rates, configuration, origins, the next provider.
6. *Metrics logger* (done).
7. *Proofs* (section 5): done for the store, the relayer, the feeder with its
   refinement, the configuration, the supervisor, the splitter, both event
   providers, the publisher, both event stores, the web API, the channels, the
   libp2p node and validators, the logger, the cross rates and the origins. Left to
   TLC: the evaluation of the next provider's models, three kinds of origin, and
   liveness (the end of section 5 says what is in the way).
8. *Models to come*: the values that pass between the calls of one splitter request.

## 3. Modules

### Prices from feed to contract

`PriceNet` is the abstract specification between the sending and the receiving
side: a clock and a growing set of messages without timestamps from the future.
It promises no delivery, order or uniqueness, which is what gossip offers.

`PriceStore` extends it with the collector (`Receive` takes any published message
at any time, with one of the faults the code handles) and `MemoryStorage.Add`.
`ctx` is the service's context; `newest` is a history variable. The storage is the
set of the values of the Go map.

`Relayer` extends it and `MedianContract` (external). The program counter `pc`
follows relayerRoutine; each call to the node is an action (`RelayReadsBar`,
`RelayReadsAge`, `RelayReadsVal`, `RelaySimulates`, `RelaySends`) with
`RelayCallFails` as its error path, and between any two of them the clock, the
store, the refresh, other relayers (`OtherPoke`), the owners (`Reconfigure`) and
the miners may act. `Locked` are the labels at which relay holds `Relayer.mu`.
`Truncations` and `Sorted` give every outcome of the random truncation and of the
unstable sort. A transaction remembers what relay had read (history). The nonce is
the one of the latest block, so at most one transaction is pending.

`PriceGraph` has the origin nodes, the refresh (`FeedTick`, `FeedEnd`) and the walk
of a reader over the children of a median; `last` is a history variable, the last
price that each origin gave as long as it may be used; `Feeder` extends it with the
broadcaster routine. Times have a resolution finer than the second so that the cut
to seconds of `Unix` is visible; prices likewise for `SetFloat64Price`.

`Ranks` has the median that the graph and the splitter both compute: the code sorts
the values and takes the middle one, or the mean of the middle two. A sorted slice
is told apart from another only by the value at each rank, so `Kth(f, I, k)` is the
value with at most k - 1 indices strictly below it and at least k up to it, over an index
set and not a set of values: equal values of two sources count twice. `MedianOf` is
the middle rank or the mean of two. `Sums` has the sum of finitely many numbers as
a count of their units, which needs neither an order nor a recursion; the counters
of `EventStoreRedis` and the points of `MetricsLog` are summed with it.

### Price providers

`PriceRates` is the indirect node: `ReadChildren` (prices with an error become
zero and are remembered) and the fold of crossRate, a rule per pair of pairs, over
fractions. `TrueRate` is the reference definition: the ratio of what the assets
are worth.

`OriginHandlers` gives for each origin what its handler makes of a reply; the
handlers fall into families (a list keyed by market, one request per pair, pools
that may be inverted, contracts that are called). Origins that join the symbols of a
pair without a separator find what the exchange lists under the joined name
(`Symbol`, over the collisions of `SameSymbol`); contracts are looked up in both
directions (`ByPair`) and asked for the one that is wanted (`Rate`); Curve and
Balancer V2 sort their pairs first (`Sorted`). `OriginFetch` is `Set.Fetch`: a
goroutine per handler, a queue and `Workers` shared by all, tries, panics and
their recovery in two steps, since `wg.Done` comes before the results are stored.

`GraphConfig` follows both builders node by node and the recursion of DetectCycle
frame by frame (`Enter`, `NextBranch`, `Return`). `ConfigOK` says which
configurations the decoder can produce. That a graph has a cycle is said without
paths: it has a *trap*, a set of nodes each of which has a branch into the set, and
a finite graph has one if and only if it has a cycle.

`PriceModels` is the next provider: `CallTicks`, the goroutines behind the limiter
(`BeginFetch`, `EndFetch`, `FetchPanics`), `SetTicks`, and the evaluation of each
model branch by branch over a stack of nodes (`AskModel`, `CallBranch`,
`TickReturns`), with an operator per kind of node for what it makes of the ticks of
its branches. The clock goes on in between, and a circuit breaker evaluates its
branches five times (`Plan`), so that leaves expire between two of them.
`EvaluatePanics` is a node that needs a price where there is none: an invert node
above a leaf that never had a tick, or a breaker whose branch has expired since it
was checked.

### Events

`TeleportEVM`: two routines over a chain that grows, each with the head that a
node tells, which may lag; `job` is what handleEvents works on, address by
address; `splitBlockRanges` as in the code; `NullAnswer` is a node that answers null,
which the routine takes for a cancelled context. `passed` are the blocks and
contracts that a routine has gone past, `evmSkipped` those it left out then.
`TeleportStarknet`: three routines
share processBlock under its mutex; `pendingParent` and `pendingTxs` are what the
provider remembers of the pending block. `EventPublisher`: collector, replays and
listener with the mutex and the unbuffered channel between them; `tickDue` is the
tick that Go's ticker keeps for a late reader, however late; `ticks` are the times at
which the replayer had its turns; the cache is a set and replays go
through it in any order, and the n-th period of the sorted list is the `Kth` of
`Ranks`. `EventStore`: the collector and
the in-memory maps, index and garbage collection. `EventStoreRedis`: one step per
Redis command, several lairs, keys that expire between any two of them, and commands
that fail, with errors that the code looks at or does not; `adrift` are the authors
whose counters a failure has left behind for good.

### Transports and services

`WebAPI`: one producer and one consumer with clocks of their own; a request may be
under way for any time (the client that is configured has no timeout), be lost, be
handled twice and at the same time as another; `overlap` are the requests that were
checked while another was between its check and its store. `Channels`: a chain
of local transports down to each goroutine of FanIn and FanOut. `P2PNode`: the
node from Start, where host and pubsub fail separately, to the end, with `Node.mu`,
the lock of the notifee and the connections' callbacks, which come from the moment
the host is up; `P2PValidators`: the token buckets of relays and authors, both of
which reject, and the validators in their order. `MetricsLog`: callers, the routine and the
server; collect goes through the metrics one at a time, since each reads the clock
by itself, and holds the mutex all the while. `RPCSplitter` follows one request: `Answer`, the two timeouts and `Round`,
one iteration of the loop in `call` including `resolve`; `calls` are the calls the
method still has to make. `Supervisor` has Start step by step, the monitor's
select and four kinds of services.

## 4. Runs

Sizes are distinct states; times are with two workers. Each property has a mutant
of the code (under a "Mutant" comment, before its original) that breaks it under
the same configuration.

Three runs put several components together: their state spaces are disjoint
behaviours of one specification, one component at a time while the others are at
rest (`...Over`), because they meet only in channels or in the network, and each
module already lets its environment do anything those permit.

Many properties are conjunctions, one per module, of parts that stand under names
and comments of their own; the table after this one lists the parts.

| Run | Checks | Instance | States, time |
|---|---|---|---|
| `relayer_race` | store: `NewestKept`, `AgeNeverGoesBack`; relayer: `AcceptedOnlyIfUnchanged`, `SubmittedIsGenuine`, `OnlyDueUpdates` | two feeders (symmetric), a configured and an unknown pair, values 0..2, two messages, clock to 3: an update, its expiry and a competing update fit; owners drop and restore the feeders; `Feeds` fails in both ways | 2 948 000, 150 s |
| `relayer_live` | `DueIsEventuallyDone` | two feeders, quorum 1, clock to 2, fairness | 21 000, 25 s |
| `feeder` | `BroadcastIsSound`, `LastPriceServed`, `ImplementsPriceNet`, `ReliableOriginsStayFresh` | a median of two origins, one of which may hang for ever, two prices, a second in half seconds; one price is sent, on both topics | 1 049 000, 205 s |
| `prices` | origins: `AnsweredAsAsked`, `FetchReturns`; configuration: `GraphVerdictRight`; cross rates: `RateIsRight`; next provider: `ServedIsSound`, `UpdateEnds` | every kind of origin beside Kraken, one worker, two tries, lists of pairs with an alias, a pair whose joined symbol is that of another, contracts of either direction; three models that refer to each other in every way, two of any kind of node, for both builders; every chain of up to three children over three assets; nine nodes over three origins, two calls, a clock that lets ticks expire in the middle of an evaluation | 1 010 000, 130 s |
| `events` | EVM: `BlocksAskedRight`, `FetchCatchesUp`; Starknet: `TeleportsComplete`, `AcceptedCatchesUp`; publisher: `ReplaysKeepPeriods`, `OfferedIsHandedOver`; stores: `StoreServesNewest`, `MemoryWithinLimit`, `NeverOverwrittenByOlder` | four new blocks in ranges of three, so that a split leaves a rest, one confirmation, a node one block behind, two contracts, a removed and a broken log, one null answer; three blocks that grow while pending; two events, two replay periods, ticks that are late by any time, so that one covers both periods or comes after the expiry; three to five messages per event by two authors; one lair, two events of an author, sizes 1 and 2 against a limit of 3, one failure that leaves a counter behind | 1 267 000, 235 s |
| `transports` | web API: `ReplayProtection`, `WebShutdownCompletes`; channels: `NothingSkipped`, `ChannelsLive` | flush every 3, skew 1, two messages, requests under way for any time, each delivered up to twice, a channel of one message, which can be full; two transports, two readers of whom one may stop reading | 506 000, 100 s |
| `services` | supervisor: `ReportsLast`, `ErrorIsNotLost`, `OneFailsAllStop`; splitter: `AnswersAreSound`, `RequestIsAnswered`; logger: `MetricsConserved`, `LoggerLive`; libp2p: `MessagesCarried`, `VerdictsAreRight`, `AuthorNotPenalized` | five services of four kinds; three endpoints, one of them arbitrary; two callers, three kinds of metrics, one of them panicking; two connections, one topic, a queue of two, a context that is done at any moment of Start or later; two authors, a relay, buckets of two and three | 280 000, 205 s |

| Property | Parts beside the types |
|---|---|
| `BroadcastIsSound` | `TopicsAgree`: a price on one topic is the same on the other; `MedianIsCentral` |
| `AnsweredAsAsked` | `LabelledRight`: a price is under the name of its market (Bitfinex serves USD for USDT and Poloniex REPV2 for REP by intention; the GSU origins and Balancer take the base for the pair and give its price in USD; where symbols are joined, it is the market that has the joined name); `AnsweredOnce`: one result per pair; `CompleteGivesPrices`: a reply that has the price gives it |
| `GraphVerdictRight` | `AcceptedAcyclic`; `ReportedIsCycle`; `AcceptedServes`: every model of an accepted graph has its branch, and checked branches have the pair of their node |
| `RateIsRight` | `RateIsTrue`; `RateNeedsAll`; `RateIsAsOld` |
| `ServedIsSound` | `TruthfulWhenHonest`; `RestsOnLive`: what is served rests on enough leaves that were live when the model's turn came; `Outvoted`: a wrong minority does not move a median; `BreakerHolds`: not far from the reference, if no leaf expires during the evaluation; `LeafIsNewest`: no answer replaces a newer one |
| `BlocksAskedRight` | `OnlyConfirmed`; `FetchedExactly`: no block left out or asked for twice by fetch; `NotSentTwice`; `PrefetchCovers`: back to the period, from the head that prefetch read; `NothingMissed`: the logs of what a routine went past are sent, but for what a null answer left out |
| `TeleportsComplete` | `PendingSentOnce`; `AcceptedComplete`; `SnPrefetchCovers` |
| `ReplaysKeepPeriods` | `DeliveredAfterEachPeriod`, with the two gaps of `Missed`: the turn comes after the event has expired, or another period fell exactly on the turn before; `ReplayedOncePerPeriod` |
| `StoreServesNewest` | `NewestServed`, through additions in any order and garbage collections |
| `MemoryWithinLimit` | `MemoryAccounted`: the counters cover what is stored; `LimitKept`; both but for the authors in `adrift` |
| `ReplayProtection` | `NotReceivedTwice`, except when two handlers were between check and store together; `PunctualNotRefused`: refused only after the stop, more than an interval late, or when it or a later one was accepted |
| `NothingSkipped` | `NoGap`; `ClosedAfterAll` |
| `ChannelsLive` | `AllRead` by readers that keep reading; `ChainStops` |
| `AnswersAreSound` | `AgreedByMin`; `GasNotInflated`; `BlockNotTooFarBehind` |
| `MetricsConserved` | `PointIsAggregate`, where the metrics that share a name and a time agree on what to do with duplicates; `SumsConserved`, for names that only summing metrics give and that never are NaN; `StoppedIsFlushed` |
| `LoggerLive` | `LogReturns`; `LoggerStops` |
| `MessagesCarried` | `NeverSendsOnClosed`; `CarriedInOrder` |
| `VerdictsAreRight` | `BytesBounded`; `AcceptedGenuine`; `HonestRelayNotPunished`: by the limiters only, and only when it or the author has sent more than a burst |

The bounds are chosen so that every action fires, every mutant is caught and the
hard cases happen: a clock long enough for an expiry after an update, a queue that
can be full, two actors wherever two may race. `MaxNulls` bounds the null answers,
`Drifts` the failures per author that leave a counter behind, because a counter could
fall without end. Deadlock checking is off only where the system may stop: a
request that was answered, a configuration that was loaded, a service whose
context is done.

Five runs show that the code departs from what a comment says of it; each is a
finding of `PROJECT.json`.

| Run | Property | What happens |
|---|---|---|
| `relayer_geth` | `DueIsEventuallyDone` | `Median.write` sets no sender and `Client.SendTransaction` refuses such a transaction: no oracle is ever updated. `relayer_live` is the same system with a client that fills it in. |
| `feeder_time` | `TimeIsOfASource` | if the first source of a median has an error, the median has the zero time, whatever its other sources say, and is broadcast with it. |
| `origins_retry` | `RetryGivesPrices` | the body of a posted request is a reader that the first try uses up; the second try posts nothing. |
| `p2p_stop` | `NodeStops` | a connection's callback holds the read lock of the notifee while it waits for the monitor to receive; the monitor waits for the write lock, Host.Close for the callback, and Wait is never served. |
| `event_store_two` | `NeverOverwrittenByOlder` | two lairs read a key before either writes it; Watch does not help, because no command is queued for EXEC. With one lair (`events`) the property holds. |

Divergences seen while modelling, without a run of their own; the models include
each of these behaviours unless it is said otherwise.

- Services close Wait on cancellation although a step is under way
  (`relayer.go:313`, against `supervisor.go:34`); a failed `Supervisor.Start`
  closes Wait while earlier services still stop (`supervisor.go:87`, against `:95`).
- `Median.Feeds` drops the error of MultiCall (`median.go:124`): the relayer
  installs an empty list and relays nothing until the next refresh.
- Splitter: with one endpoint the default resolver returns the error as the answer
  and the recovered panic becomes a success with a zero value (`resolver.go:47`,
  `server.go:513`); with two endpoints one answer is enough (`cmd_run.go:93`,
  against its README:38); the graceful timer fires once (`server.go:567`, against
  `:561`).
- EVM provider: blocks between the heads of prefetch and fetch are asked for by
  neither (`teleport.go:156`); a range may have one block more than the limit
  (`:366`); two logs of one transaction have the same ID (`event.go:48`). A null
  answer makes filterLogs return false (`:352`), which its caller takes for "Context
  was canceled" (`:227`): the contracts that were not asked for yet are left out of
  the range, and the next range goes on.
- Publisher: the configuration of a Starknet provider takes its replay periods for
  nanoseconds (`config/eventpublisher/eventpublisher.go:260`, against `:112`): all of
  them are over at the first tick.
- Replayer: a tick that comes after the expiry removes the event whatever replays it
  has left (`replayer.go:139`), and when a period falls exactly on a turn the loop
  ends there and the next one may be passed over (`:153`); both against `:45`,
  "eventually delivered". One late tick that covers two periods replays once.
- Redis: the errors of Set and ExpireAt are not looked at (`redis.go:198`, `:199`,
  `:205`, `:206`), so that a message whose expiry could not be set stays for ever
  while its counter expires; and when ExpireAt fails after IncrBy (`:285`), Add ends
  although the counter has moved. With a smaller message the counter is then too low
  for good.
- Web API: messages of a failed flush are gone (`webapi.go:333`); the window of
  the comment (`:84`) is not that of the code (`:475`). The producer's client is
  `http.DefaultClient` (`config/transport/transport.go:226`, `:304`), which has no
  timeout: a request may come after the next one and is then refused. The last
  request is compared under a read lock and stored later (`:488`): two handlers
  that run at the same time both pass and a message is received twice, against
  `:93`; their writes to one map may also stop the program (not modelled). A
  handler that waits at a full channel holds the read lock and does not look at the
  context (`:551`): the shutdown then never completes, unless someone reads.
- Next provider: the tick of an invert node has the pair of its branch
  (`invert.go:65`, against `:9`), so that a median above it drops it; a leaf
  without a tick below it ends the process (`:66`). A breaker evaluates its branches
  anew at each use (`dev_circuit_breaker.go:80`, `:87`, `:96`, `:97`, `:102`): when a
  leaf expires in between it dereferences a nil price, or returns a tick that is not
  the one it compared. The HTTP client has no timeout and the context no deadline
  (`config/gofernext/gofer.go:71`): a server that never answers keeps the caller
  waiting.
- Configuration: a median or indirect model with a single source becomes that
  source (`provider.go:376`): its minimum and its pair are not checked.
- Origins: Kucoin's bid and ask are swapped (`kucoin.go:104`), Loopring's reply is
  checked for one field too few (`loopring.go:96`, `:112`: the panic is recovered
  and fails all pairs); symbols joined without a separator may be those of another
  pair (`binance.go:44`, `hitbtc.go:48`, `huobi.go:45`), whose price is then served;
  bids and asks of cross rates are divided like by like
  (`indirect.go:206` says so).
- libp2p: limiters of authors are never forgotten (`options_rate_limiter.go:160`); a
  relay that passes on genuine messages of an author who sends too much is rejected,
  and so loses score, as if the fault were its own (`:146`).
- Logger: a panicking caller may end the process while the routine's request is
  under way (`log.go:255`); NaN in one metric loses its whole batch.

### Fairness

In all modules goroutines that can run do (weak fairness), and nobody has to log,
publish, fail or cancel. Beyond that:

- `Relayer.FairSpec`: tickers keep ticking; the endpoint does not fail every single
  call and truncation, which is random, picks each subset again and again (strong
  fairness of the successful calls); pending transactions are mined.
- `Feeder.FairSpec`: only the routine of a *reliable* origin runs, and its fetch
  succeeds again and again; every other origin may hang for ever.
- `SplitterFairness`: the context expires and a cancelled call returns; endpoints
  need not answer. `Supervisor.Fairness`: the timer of a delayed start fires.
- `EVMFairness`, `SNFairness`: the reader of the channel reads, requests succeed
  after some tries (`retry.TryForever`), the node does not lag for ever, and Go's
  mutex starves no waiter.
  `PubFairness`: the listener reads and the mutex is got between two ticks.
- `FetchFairness`: a try ends by the timeout of its HTTP client, 5 seconds unless it
  is set (`query/base_http.go:33`), an Ethereum call by the total timeout of the RPC
  splitter in front of the endpoints, 10 seconds (`config/ethereum/ethereum.go:24`).
- `PMFairness`: a fetch of the next provider need not end unless the context is done,
  since its client has no timeout; `UpdateEnds` is about updates whose requests end,
  and about all of them once the context is done.
- `WebFairness`: handlers that have begun (the server's ReadTimeout, a minute, ends
  the reading of a body) and the shutdown run, a consumer's reader reads until the
  context is done. `ChFairness`: a patient reader reads, another may stop.
- `NodeFairness`: nothing of the network. `MLFairness`: a mutex is handed to who
  waits (strong fairness of `Lock`; Go's mutex is starvation-free), a request is
  answered, fails or hangs for ever.

## 5. Proofs

All theorems are checked by TLAPS for every value of the constants that satisfies
the named assumptions of the modules; TLC evaluates the same assumptions in each
run. Most of an assumption is types. The rest:

- `RelayerAssumption`: an odd quorum, which the contract demands.
- `PriceGraphAssumption`: the zero time has expired when the clock starts, and
  prices are counted in a unit fine enough for the mean of two of them, where the
  code has floating-point numbers. `FeederAssumption`: `MaxVal` covers the prices.
- `EventStoreAssumption`: messages with one event ID have one event date, since
  the ID is that of a transaction.
- `WebAssumption`: the skew that is allowed is shorter than the flush interval (10
  seconds and a minute in the configuration). `LimiterAssumption`: a burst is a whole number of
  seconds of its rate, so that a bucket can be counted in whole seconds.
- Some theorems have a hypothesis of their own, without which the claim is false.
  `ValidatorsRight` wants `IgnoreAge + Transit <= RejectAge`: a message that was
  young enough to be relayed must not become one that is rejected while it travels.
  `SplitterAnswersSound` wants three endpoints or more and at most one that is not
  honest: with two endpoints one answer is enough. `ReplaysAreKept` is about the
  Ethereum provider (section 4 has what the Starknet configuration does).
  `RedisKeepsNewest` and `RedisWithinLimit` are about one lair, the second with a
  limit that is set (0 is none); `event_store_two` shows what two do. `VerdictsOnGraphsRight` is about the configurations of
  `ConfigOK`. `FetchAnswers` wants `AliasesDistinct`: `revertSymbol` ranges over a
  map of aliases (`origins/origin.go:104`) and gives back any symbol that has the
  alias, so that with two of them a pair may be answered under the name of the other;
  `FetchLabels` says what is left then. Both are about the kinds of `Followed`, all
  but `fx`, `balancerV2` and `curve`.
- `RatesAssumption`: assets are worth something; `FetchAssumption`: at least one try
  is made (the client takes 0 for its default), and a pair is two assets.

*RelayerProofs* begins with the store: `StoreTyped`, `StoreKeepsNewest`, `StoreAgesAreMonotone`. The store is a set, so that "one entry
per key" is a fact to prove and not the shape of the model. `TypeOK` is
inductive as it stands; `NewestKept`, that the store has exactly the newest of the
genuine messages received, is inductive together with `TypeOK`, which makes ages
numbers; monotonicity follows for each step from
both. Of the relayer, `RelayerTyped`, `SubmissionsAreGenuine`, `NoBlindOverwrite`,
`UpdatesAreDue` all follow from `IndInv` (last section of `Relayer.tla`), proved
action by action. `AcceptedOnlyIfUnchanged` is not inductive: it speaks of
pending transactions only, but depends on what relay had read several calls
before. The strengthening is `InView`: the age read is at most the contract's age;
while they are equal the value read is the contract's; once the contract has moved
on, no price at hand is newer than its last update. It holds because relay reads
the store *before* the contract and because nothing in the network is from the
future (`NothingFromFuture`): an update made after the store was read carries a
block time that is at least the age of each price taken from it. Reading the store
after the contract breaks it, which is the mutant of that property.
`OnlyDueUpdates` adds that expiry is stable and that the batch was stale with
respect to the value read.

*RankTheorems.* Facts about `Ranks` for finite index sets: `KthIsRanked` (every
rank has a value), `KthGrows`, `MedianIsMiddle` (at most half of the values are
below the median and at most half above), `MedianIsMean`. That a value of rank k
exists is an induction over data; it is avoided by taking the least value with at
least k indices up to it, and `LeastExists` and `GreatestExists` come from
minimal counterexamples of numbers and of cardinalities. `KthHits` turns ranks
round: every number has one, so that the sorted list leaves out no period. About
`Sums`: a sum grows with its numbers and its set (`SumGrows`), zeros do not count
(`SumOfOthers`), and when one number changes the sum changes by as much
(`SumChangesBy`); each is a bijection or a subset of units.

*FeederProofs.* `LastPricesServed` (`LastPriceServed`), `BroadcastsAreSound`
(`BroadcastIsSound`) and the refinement `FeederRefinesPriceNet`
(`ImplementsPriceNet`), which closes the chain from the origins to the contract:
what the proofs about store and relayer assume of the network is what the feeder
does. The inductive invariant has two parts. `GraphInd`: nodes and the walk under
way hold prices that were fetched and times that have passed; this is why a
message is never dated in the future, however many seconds go by between the walk
and the two broadcasts. It also has `LastInNode`: a node holds the last price it was
given while that one is usable, which no failed fetch may change. `SentInd`: `TopicsAgree` holds once the second broadcast is
made or gives up, and in between the price that price/v0 carried is still the one at
hand.

*ServiceProofs.* `MonitorReportsLast` and `FailuresAreReported` follow from an
inductive invariant with five parts beside the types: services are started in
order and none leaves the list before the monitor runs (`InOrder`); a service that
left the list has closed its channel (`LeftAreClosed`); an error is still on offer
or the monitor has one (`ErrorsAreSeen`); the monitor's error is that of a failed
service (`ErrIsACrash`) and is what the command receives (`DeliveredIsErr`).
`SplitterAnswersSound` is inductive with its types, but each resolver has to be
understood: the gas price is a middle of answers of which at most one is not
honest, so that `MedianIsMiddle` gives an honest answer that is not lower; the block
resolver takes the least of the answers near the greatest one. `LoggerConserves`
(`MetricsConserved`) is inductive with `LoggerInd`: `LoggerPoints` says that the map
and the batches hold numbers, never NaN under a summed name, and that a batch is
there exactly while its request is under way, so that what pushMetrics takes out of
the map overwrites nothing; `LoggerFlushed` says that `StoppedIsFlushed` holds from
the deferred push on, not only when the routine has ended.
Of libp2p, `ValidatorsRight` (`VerdictsAreRight`): the bytes that got through
plus the tokens left stay below the line burst + rate * time (`Account`), which
also holds when the garbage collector forgets a limiter, because by then its
bucket is full again. The same account bounds them from below by a burst: who has
not sent more than a burst in all is never rejected by a limiter, and beyond that
even an honest relay may be. `AuthorsNotPenalized` is an action property. `NodeCarries`
(`MessagesCarried`): what was delivered, what the two loops hold and the queue are
together one increasing sequence without a gap (`TopicInd`), and no callback is
in its critical section once the notifee is stopped (`MonitorInd`).

*GraphProofs.* `VerdictsOnGraphsRight` (`GraphVerdictRight`) for both builders and any
number of models. `GraphInd` follows the search: the nodes on the stack are a path (`Path`),
the nodes that are done form a set that no branch leaves and that has no trap
(`Search`), and of a node under way all branches before the present one are done
(`BranchesDone`). When a search has ended without a report, its root is in such a
set (`Searched`). For the new builder that is not enough, because it searches a root
when the roots after it have no branches yet: a cycle passes a root, since the
indices of inner nodes fall along branches (`Numbered`), and the last root of the
cycle was searched when all the others had their branches.

*EventProofs.* `EVMAsksRight` (`BlocksAskedRight`): the set of blocks that fetch
has asked for is an interval without the job under way (`FetchAsked`); that needs
the ranges still to be asked to be contiguous up to the new head, which is the
lemma on `splitBlockRanges`, and that for prefetch, which goes backwards, the
same is said from its head down (`PrefetchAsked`). A block counts as passed when
its answer was null too, since the routine does not come back to it; `NothingMissed`
then says that only a null answer loses logs: those of an answer go to `out` and
from there to what was sent (`NothingMissedKeeps`). `StarknetComplete`
(`TeleportsComplete`): per routine, what was sent together with what is left to
send is what the blocks up to the present one hold; the pending routine has to
know that what it sent of the present block is still remembered (`PendingSent`).
`EventStoreServesNewest`: inductive as it stands, since garbage collection takes
expired messages only. `RedisKeepsNewest` for one lair: what `Get` saw is still
stored or has expired when `Set` comes. `RedisWithinLimit` (`MemoryWithinLimit`):
`MemInd` says for *every set* of counters of an author that they cover what the
events charged to them take, since any of them may expire next; the charge of an
event is the size that was read between `Get` and `IncrBy`, the size written until
`ExpireAt`, and nothing once its counter has expired, which is after its key has
(`KeysExpire`). Once the limit was compared the message fits (`Room`). All of it is
said of the authors that are not `adrift`: a failed `Set`, `IncrBy` or `ExpireAt`
after which key and counter no longer go together takes its author out for good,
and the other authors have to be shown to be untouched by it (`GoodKeys`).
`ReplaysAreKept` (`ReplaysKeepPeriods`), with turns that come as late as they like:
the parts of `PubInd` say that what was due at the last turn has been handed over or
was missed at the first turn after it (`Skipped`), or in the middle of a turn belongs
to an event still to be looked at or that this turn misses (`DueDelivered`,
`SkippedNow`); that the cache forgets only events that have expired (`CacheKeeps`);
and that each copy has a period that fell due since the copy before (`OwnPeriods`).
A replay once missed stays missed, because turns only come after the ones recorded
(`SkippedStays`).

*TransportProofs.* `ReplaysRefused` (`ReplayProtection`), with requests that are
under way for any time: a pack is posted after its tick and before the ticks that
still wait (`PostedInTurn`), so that a message is in one request only
(`InOneRequest`) and what is read comes from a handler that stored its request
(`FromRequests`). `NoRequestTwice` says of every stored request that it is not later
than the last one stored nor than one that is between its check and its store,
unless the two overlapped. `PunctualNotRefused` follows step by step
(`WebPunctual`). `ChainSkipsNothing` (`NothingSkipped`): what a reader has got, with
the message in the hand of its fan-in and the one the fan-out owes him, is what the
transport fanned out since he subscribed (`ReadsOK`).

*ProviderProofs.* `RatesAreRight` (`RateIsRight`): a rate is a fraction, and the
four rules of `crossRate` are one identity each between products (`QuoteRule`,
`BaseRule`, `ChainRule`, `BackRule`). `RateInd` says that the list ahead of the index
is as the children answered (`AheadAsRead`) and that the price at the index is the
true rate of its pair or zero, rests on children that have a price unless an error
is kept, and is as old as the oldest of them (`FoldedRight`); errors are collected
and not returned at once, so that the list goes on being folded after one, and it
is the set of them that keeps a wrong price from being served. `FetchAnswers`
(`AnsweredAsAsked`) rests on `HandlersAnswer`, one lemma for each way in which a
handler finds a pair in a reply: it panics, which a complete reply never makes it
do, or its list answers the pairs of the request one by one (`Matches`). `FetchInd`
has four parts. `HandlersOK`: the results of a goroutine answer the first so many
of its pairs, and the requests it has not made ask for exactly the others
(`Handled`); it is what makes "one result per pair" inductive, for origins with one
request for all pairs and with one for each. `Places`: an origin that waits has one
request in the queue or with a worker and no other origin has it, so that an answer
reaches a goroutine that waits for it. `ToldOK`: what is in the map, and in the map
as it was returned, is such a list under the names of the caller; that the renaming
is undone is `RevertedPair`. `FetchShapes` are the types. The promise that a price
is there (`Good`) is never given back to an origin once a reply was not complete, so
that each step has to look at its own origin only (`StepKeeps`).

Each inductive invariant was also checked by TLC on the instance of its run
(`FetchInd` without the three kinds of origin it leaves out).

Only model-checked, since they are out of the prover's reach: liveness, that is
`DueIsEventuallyDone`, `ReliableOriginsStayFresh`, `RequestIsAnswered`,
`OneFailsAllStop`, `FetchReturns`, `UpdateEnds`, `FetchCatchesUp`,
`AcceptedCatchesUp`, `OfferedIsHandedOver`, `WebShutdownCompletes`, `ChannelsLive`
and `LoggerLive`; and what needs induction over data. That is the evaluation of the
models of the next provider (`ServedIsSound`): a tick is defined by recursion over a
graph of any depth, the median by sorting, and its prices are whole numbers of a
unit, true only in instances whose quotients are exact, as the threshold of the
breakers is one of the instance; and, of `AnsweredAsAsked`, the grouping of the
pairs of `fx` by base, the sorted pairs of `curve` and `balancerV2` and the nested
calls of the latter.

## 6. Not modelled

- The HCL decoder, interpolation and the wiring of the commands: they run once,
  before any service, over syntax trees of no bounded shape. What the price and
  event configurations build is in `GraphConfig` and `EventPublisher`.
- Front ends (output formats, the RPC agents of gofer and spire, HTTP middleware),
  plain loggers, the system monitor, number and text utilities: no state of their
  own, or output only. The agent of gofer logs the end of its server and does not
  report it through Wait (`price/provider/rpc/agent.go`).
- Ethereum and Starknet clients: requests without state; the sending of
  transactions is part of `Relayer`. Lift, Drop, SetBar and the storage reads of
  the median client are called by no service.
- libp2p: peer scoring, discovery, the deny list and direct peers configure the
  gossip library, which is external.
- Fees, gas limits, signatures and encodings are data that no property tells
  apart; a message that does not verify is one of the faults of its receiver.
- Origins are assumed not to report prices from the future (`FetchResults`): the
  code does not check it.
