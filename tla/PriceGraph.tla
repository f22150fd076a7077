------------------------------ MODULE PriceGraph ------------------------------
(***************************************************************************)
(* The price provider (pkg/price/provider/graph): origin nodes that cache  *)
(* the last fetched price, one routine per origin that refreshes them, and *)
(* the median node that a reader evaluates child by child.                 *)
(*                                                                         *)
(* Every origin node has its own mutex and nothing locks the graph, so a   *)
(* refresh may end between two children of the same median.  Times are in  *)
(* units of 1/Second seconds, prices in units fine enough for the mean of  *)
(* two of them.                                                            *)
(***************************************************************************)
EXTENDS Integers, Sequences, FiniteSets, Ranks

CONSTANTS Pairs,          \* asset pairs, each with a median of origin nodes
          Origins,        \* names of the origins
          Children,       \* Children[p]: the origins of p's median, in order
          MinSources,     \* MedianAggregatorNode.minSources
          MinTTL,         \* OriginNode.minTTL and maxTTL
          MaxTTL,
          FetchedPrices,  \* prices the origins may report
          Second,         \* units of time in a second
          ZeroTime,       \* the zero value of time.Time
          MaxClock        \* bound on the clock

ASSUME PriceGraphAssumption ==
    /\ Children \in [Pairs -> Seq(Origins)]
    /\ MinSources \in Nat /\ MinTTL \in Nat /\ MaxTTL \in Nat
    /\ FetchedPrices \subseteq Nat
    /\ \A x, y \in FetchedPrices : (x + y) % 2 = 0
    /\ Second \in Nat \ {0}
    /\ ZeroTime \in Int /\ ZeroTime + MaxTTL < 0
    /\ MaxClock \in Nat

VARIABLES clock,      \* wall clock
          node,       \* OriginNode.price, per pair and origin
          fetching,   \* per origin, the pairs its routine waits for
          walk,       \* a reader's evaluation of a median: the pair, the next
                      \* child, the prices without error and their time so far
          last        \* history: the last price, not an error, that an origin gave,
                      \* until it is older than maxTTL

graphVars == <<clock, node, fetching, walk, last>>

OriginPrice == [price : Nat, time : Nat \union {ZeroTime}, err : {"none", "ttl", "fetch"}]

\* The zero value of OriginPrice.
NoPrice == [price |-> 0, time |-> ZeroTime, err |-> "none"]

\* Outside an evaluation its local variables do not exist.
NoWalk == [pair |-> CHOOSE p \in Pairs : TRUE, next |-> 1, seen |-> << >>, time |-> ZeroTime]

GraphInit ==
    /\ clock = 0
    /\ node = [k \in Pairs \X Origins |-> NoPrice]
    /\ fetching = [o \in Origins |-> {}]
    /\ walk = NoWalk
    /\ last = node

GraphTypeOK ==
    /\ clock \in 0..MaxClock
    /\ node \in [Pairs \X Origins -> OriginPrice]
    /\ fetching \in [Origins -> SUBSET Pairs]
    /\ walk.seen \in Seq(OriginPrice)
    /\ walk.time \in Nat \union {ZeroTime}
    /\ last \in [Pairs \X Origins -> OriginPrice]

\* What there is of a price at time t, for the history.
Lasting(n, t) == IF n.time < t - MaxTTL THEN NoPrice ELSE n

GraphAdvanceClock ==
    /\ clock < MaxClock
    /\ clock' = clock + 1
    /\ last' = [k \in DOMAIN last |-> Lasting(last[k], clock + 1)]
    /\ UNCHANGED <<node, fetching, walk>>

-----------------------------------------------------------------------------
(* OriginNode *)

\* OriginNode.expired.
Expired(n) == n.time < clock - MaxTTL

\* OriginNode.Price: an expired price gets an error, and keeps it.
Price(n) == [n EXCEPT !.err = IF @ = "none" /\ Expired(n) THEN "ttl" ELSE @]

-----------------------------------------------------------------------------
(* The refresh of the origin nodes: AsyncProvider and graph/feeder *)

\* The interval of the ticker, at least a second: minTTL is its own gcdTTL.
Ttl == IF MinTTL < Second THEN Second ELSE MinTTL

\* Mutant: one routine for all origins.
FeedTickAlone(o) ==
    /\ \A q \in Origins : fetching[q] = {}
    /\ node' = [k \in DOMAIN node |-> IF k[2] = o THEN Price(node[k]) ELSE node[k]]
    /\ fetching' = [fetching EXCEPT ![o] = {p \in Pairs : clock + Ttl - node[<<p, o>>].time >= MinTTL}]
    /\ UNCHANGED <<clock, walk, last>>

\* A tick of the routine of origin o: findFeedableNodes asks every node for its
\* price (and so marks expired ones) and keeps the ones that are old enough.
FeedTick(o) ==
    /\ fetching[o] = {}
    /\ node' = [k \in DOMAIN node |-> IF k[2] = o THEN Price(node[k]) ELSE node[k]]
    /\ fetching' = [fetching EXCEPT ![o] = {p \in Pairs : clock + Ttl - node[<<p, o>>].time >= MinTTL}]
    /\ UNCHANGED <<clock, walk, last>>

\* What an origin handler answers for a pair: a price with the time the origin
\* gives it, or an error, dated now or not dated at all.
FetchResults ==
    [price : FetchedPrices, time : 0..clock, err : {"none"}]
    \union [price : {0}, time : {clock, ZeroTime}, err : {"fetch"}]

\* Mutant: an error replaces the price whatever its age.
IngestAlways(n, r) == r

\* The end of feedNodes for one node: an error does not replace a price that
\* may still be used.
Ingest(n, r) == IF r.err # "none" /\ ~Expired(n) THEN n ELSE r

\* The fetch of origin o ends.  Pairs the handler leaves out of its answer keep
\* their price; so do all of them when the handler panics and Set.Fetch returns
\* before the deferred function has stored the errors.
FeedEnd(o) ==
    /\ fetching[o] # {}
    /\ \E answered \in SUBSET fetching[o] : \E res \in [answered -> FetchResults] :
          /\ node' = [k \in DOMAIN node |->
                        IF k[2] = o /\ k[1] \in answered
                        THEN Ingest(node[k], res[k[1]])
                        ELSE node[k]]
          /\ last' = [k \in DOMAIN last |->
                        IF k[2] = o /\ k[1] \in answered /\ res[k[1]].err = "none"
                        THEN Lasting(res[k[1]], clock)
                        ELSE last[k]]
    /\ fetching' = [fetching EXCEPT ![o] = {}]
    /\ UNCHANGED <<clock, walk>>

-----------------------------------------------------------------------------
(* MedianAggregatorNode.Price *)

StartWalk(p) ==
    walk' = [pair |-> p, next |-> 1, seen |-> << >>, time |-> ZeroTime]

WalkDone == walk.next > Len(Children[walk.pair])

\* One round of the loop over the children.  A child with an error is skipped.
\* The time is the child's if it is the first child or is older.
WalkChild ==
    LET k == <<walk.pair, Children[walk.pair][walk.next]>>
        r == Price(node[k])
    IN  /\ node' = [node EXCEPT ![k] = r]
        /\ walk' = IF r.err # "none"
                   THEN [walk EXCEPT !.next = @ + 1]
                   ELSE [walk EXCEPT !.next = @ + 1,
                                     !.seen = Append(@, r),
                                     !.time = IF walk.next = 1 \/ r.time < @ THEN r.time ELSE @]
        /\ UNCHANGED <<clock, fetching, last>>

\* The positions of the prices that count.
Positive(s) == {i \in 1..Len(s) : s[i].price > 0}

PriceOf(s) == [i \in 1..Len(s) |-> s[i].price]

\* median: the middle of the sorted prices, the mean of the two in the middle.
Median(s) == IF Positive(s) = {} THEN 0 ELSE MedianOf(PriceOf(s), Positive(s))

\* The AggregatorPrice of a finished walk.
MedianPrice ==
    [price |-> Median(walk.seen),
     time  |-> walk.time,
     err   |-> Cardinality(Positive(walk.seen)) < MinSources]

-----------------------------------------------------------------------------
\* "If there was an error during fetching a Price but previous Price is still
\* not expired, do not try to override it" (graph/feeder/feeder.go:151): however
\* many refreshes fail, are left out or are still under way, a reader sees the last
\* price that the origin gave for as long as that price is not older than maxTTL,
\* and an error from then on.  The last price may be older than the one before it:
\* the code does not compare them.
LastPriceServed ==
    \A k \in Pairs \X Origins :
       IF last[k] = NoPrice THEN Price(node[k]).err # "none" ELSE Price(node[k]) = last[k]

\* The median of the sources a walk has used so far is central among them: as
\* many are above it as below, and it is one of them or the mean of two.
MedianIsCentral ==
    LET s == walk.seen
        used == Positive(s)
        m == Median(s)
        below == {i \in used : s[i].price < m}
        above == {i \in used : s[i].price > m}
    IN  used # {} =>
          /\ 2 * Cardinality(below) <= Cardinality(used)
          /\ 2 * Cardinality(above) <= Cardinality(used)
          /\ IF Cardinality(used) % 2 = 1
             THEN \E i \in used : s[i].price = m
             ELSE \E i, j \in used : i # j /\ s[i].price + s[j].price = 2 * m

===============================================================================
