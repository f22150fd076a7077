-------------------------------- MODULE Feeder --------------------------------
(***************************************************************************)
(* A price feed (pkg/price/feeder) over its price graph: at every tick     *)
(* broadcasterRoutine evaluates the price of each pair, signs it and hands *)
(* it to the transport twice, as price/v0 (JSON) and as price/v1           *)
(* (protobuf).  Shown to implement PriceNet, the sending side that the     *)
(* price store relies on.                                                  *)
(*                                                                         *)
(* contextCancelHandler closes waitCh as soon as the context is done,      *)
(* whatever the routine does; the channel is not a variable of its own.    *)
(***************************************************************************)
EXTENDS PriceGraph

CONSTANTS PairList,     \* Feeder.pairs, in order
          Self,         \* the address of the signer
          PriceScale,   \* units of price in 1/PriceMultiplier
          MaxVal,       \* bound on Vals in the abstract specification
          MaxNet        \* bound on the number of different prices sent

ASSUME FeederAssumption ==
    /\ PairList \in Seq(Pairs)
    /\ PriceScale \in Nat \ {0}
    /\ MaxVal \in Nat /\ MaxNet \in Nat
    /\ \A x \in FetchedPrices : x < PriceScale * (MaxVal + 1)

VARIABLES ctx,     \* Feeder.ctx: "none" before Start, "live", "done"
          pc,      \* where broadcasterRoutine is
          queue,   \* pairs the running tick has not reached yet
          sent     \* price messages the transport took, per topic

feederVars == <<ctx, pc, queue, sent>>
vars == <<graphVars, feederVars>>

Topics == {"price/v0", "price/v1"}

FeederInit ==
    /\ ctx = "none"
    /\ pc = "new"
    /\ queue = << >>
    /\ sent = {}

Init == GraphInit /\ FeederInit

-----------------------------------------------------------------------------
UnixRoundedUp(t) == IF t = ZeroTime THEN t ELSE (t + Second - 1) \div Second

\* Time.Unix, the seconds that are signed and sent.
Unix(t) == IF t = ZeroTime THEN t ELSE t \div Second

\* SetFloat64Price: the product with PriceMultiplier, cut to an integer.
SetFloat64Price(x) == x \div PriceScale

\* What a receiver makes of the message for the price of the finished walk: both
\* encodings carry the integer, the seconds and the signature.
PriceMessage(topic) ==
    [topic |-> topic,
     wat   |-> walk.pair,
     val   |-> SetFloat64Price(MedianPrice.price),
     age   |-> Unix(MedianPrice.time)]

-----------------------------------------------------------------------------
\* Feeder.Start; the provider's routines are started alongside.
StartFeeder ==
    /\ ctx = "none"
    /\ ctx' = "live"
    /\ pc' = "idle"
    /\ UNCHANGED <<graphVars, queue, sent>>

CancelCtx ==
    /\ ctx = "live"
    /\ ctx' = "done"
    /\ UNCHANGED <<graphVars, pc, queue, sent>>

\* broadcasterRoutine: a tick, or the end at ctx.Done() between two ticks.
BroadcastTick ==
    /\ pc = "idle"
    /\ queue' = PairList
    /\ pc' = "next"
    /\ UNCHANGED <<graphVars, ctx, sent>>

RoutineReturns ==
    /\ pc = "idle"
    /\ ctx = "done"
    /\ pc' = "stopped"
    /\ UNCHANGED <<graphVars, ctx, queue, sent>>

\* broadcast(pair): the first step of priceProvider.Price.
NextPair ==
    /\ pc = "next"
    /\ queue # << >>
    /\ StartWalk(Head(queue))
    /\ queue' = Tail(queue)
    /\ pc' = "walk"
    /\ UNCHANGED <<clock, node, fetching, last, ctx, sent>>

TickOver ==
    /\ pc = "next"
    /\ queue = << >>
    /\ pc' = "idle"
    /\ UNCHANGED <<graphVars, ctx, queue, sent>>

ReadChild ==
    /\ pc = "walk"
    /\ ~WalkDone
    /\ WalkChild
    /\ UNCHANGED feederVars

\* broadcast returns, with or without an error.
BroadcastReturns == pc' = "next" /\ walk' = NoWalk

\* The price is there.  A price with an error and a failed signature end
\* broadcast; the routine goes on with the next pair.
SignPrice ==
    /\ pc = "walk"
    /\ WalkDone
    /\ \/ ~MedianPrice.err /\ pc' = "v0" /\ walk' = walk
       \/ BroadcastReturns
    /\ UNCHANGED <<clock, node, fetching, last, ctx, queue, sent>>

\* The prices of the messages ms, with the address a receiver recovers from the
\* signature; a price is the same on both topics.
PricesIn(ms) == {[wat |-> m.wat, val |-> m.val, age |-> m.age, from |-> Self] : m \in ms}

\* transport.Broadcast on one topic takes the message or fails.
Send(topic) ==
    /\ sent' = sent \union {PriceMessage(topic)}
    /\ Cardinality(PricesIn(sent')) <= MaxNet

\* Mutant: price/v1 goes out even if price/v0 failed.
BroadcastV0Anyway ==
    /\ pc = "v0"
    /\ Send("price/v0") \/ sent' = sent
    /\ pc' = "v1"
    /\ UNCHANGED <<graphVars, ctx, queue>>

BroadcastV0 ==
    /\ pc = "v0"
    /\ \/ Send("price/v0") /\ pc' = "v1" /\ walk' = walk
       \/ BroadcastReturns /\ sent' = sent
    /\ UNCHANGED <<clock, node, fetching, last, ctx, queue>>

BroadcastV1 ==
    /\ pc = "v1"
    /\ Send("price/v1") \/ sent' = sent
    /\ BroadcastReturns
    /\ UNCHANGED <<clock, node, fetching, last, ctx, queue>>

FeederStep ==
    \/ BroadcastTick
    \/ NextPair
    \/ TickOver
    \/ ReadChild
    \/ SignPrice
    \/ BroadcastV0
    \/ BroadcastV1

FeedStep(o) == FeedTick(o) \/ FeedEnd(o)

Next ==
    \/ StartFeeder
    \/ CancelCtx
    \/ RoutineReturns
    \/ FeederStep
    \/ \E o \in Origins : ctx # "none" /\ FeedStep(o) /\ UNCHANGED feederVars
    \/ GraphAdvanceClock /\ UNCHANGED feederVars

Spec == Init /\ [][Next]_vars

-----------------------------------------------------------------------------
\* Type invariant of the graph and the feeder.
FeederTypeOK ==
    /\ GraphTypeOK
    /\ ctx \in {"none", "live", "done"}
    /\ pc \in {"new", "idle", "next", "walk", "v0", "v1", "stopped"}
    /\ queue \in Seq(Pairs)
    /\ sent \subseteq [topic : Topics, wat : Pairs, val : Nat, age : Nat \union {ZeroTime}]

\* Receivers of either topic see the same prices: whatever goes out as price/v1
\* went out as price/v0 before, although sources are refreshed and the clock
\* runs between the two calls ("Both messages contain the same data",
\* messages/price.go:48).
TopicsAgree ==
    \A m \in sent : m.topic = "price/v1" => [m EXCEPT !.topic = "price/v0"] \in sent

\* The abstract network: the clock in seconds and the messages as a receiver
\* reads them, the address recovered from the signature included.
Abstract == INSTANCE PriceNet WITH
    Wats <- Pairs, Feeders <- {Self}, Vals <- 0..MaxVal,
    MaxTime <- MaxClock \div Second,
    now <- clock \div Second,
    net <- PricesIn(sent)

\* The feeder implements PriceNet: no message carries a time from the future.
ImplementsPriceNet == Abstract!NetSpec

\* "There is no need to copy errors from prices to the MedianAggregatorNode
\* because there may be enough remaining prices to calculate median price"
\* (nodes/median.go:102): a price that is broadcast is as old as one of the
\* sources it was computed from.
TimeIsOfASource ==
    pc \in {"v0", "v1"} => \E i \in 1..Len(walk.seen) : walk.time = walk.seen[i].time

-----------------------------------------------------------------------------
(***************************************************************************)
(* Fairness: the routines of the reliable origins run and their fetches    *)
(* end, again and again with a present price; nothing is assumed of the    *)
(* other origins, whose fetch may hang forever.                            *)
(***************************************************************************)
CONSTANT Reliable

FetchSucceeds(o) ==
    FeedEnd(o) /\ \A p \in fetching[o] : node'[<<p, o>>].err = "none" /\ node'[<<p, o>>].time = clock

FairSpec ==
    /\ Spec
    /\ WF_vars(StartFeeder)
    /\ \A o \in Reliable :
          /\ WF_vars(ctx = "live" /\ FeedStep(o) /\ UNCHANGED feederVars)
          /\ SF_vars(ctx = "live" /\ FetchSucceeds(o) /\ UNCHANGED feederVars)

\* "problems with one origin should not delay the fetching of prices from other
\* origins" (async_provider.go:72): the nodes of a reliable origin become usable
\* again and again while other origins hang, until the context is done.
ReliableOriginsStayFresh ==
    \A o \in Reliable, p \in Pairs :
       []<>(ctx = "done" \/ (node[<<p, o>>].err = "none" /\ ~Expired(node[<<p, o>>])))

\* What is broadcast is sound: both topics carry the same prices, and the
\* median they come from is central.
BroadcastIsSound ==
    /\ FeederTypeOK /\ TopicsAgree /\ MedianIsCentral
===============================================================================
