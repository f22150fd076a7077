------------------------------ MODULE FeederProofs ------------------------------
(***************************************************************************)
(* Proofs about the price graph and the feeder: what the origin nodes keep, *)
(* what a median is, what both topics carry, and that the feeder implements *)
(* PriceNet.                                                               *)
(***************************************************************************)
EXTENDS Feeder, RankTheorems

Times == Nat \cup {ZeroTime}
NoPair == CHOOSE p \in Pairs : TRUE
Known == FetchedPrices \cup {0}

\* The types of FeederTypeOK that do not depend on what a median is, with the
\* shape of a walk.
FeederTypes ==
    /\ clock \in 0..MaxClock
    /\ node \in [Pairs \X Origins -> OriginPrice]
    /\ fetching \in [Origins -> SUBSET Pairs]
    /\ walk \in [pair : Pairs \cup {NoPair}, next : Nat \ {0}, seen : Seq(OriginPrice), time : Times]
    /\ ctx \in {"none", "live", "done"}
    /\ pc \in {"new", "idle", "next", "walk", "v0", "v1", "stopped"}
    /\ pc \in {"walk", "v0", "v1"} => walk.pair \in Pairs
    /\ queue \in Seq(Pairs)
    /\ last \in [Pairs \X Origins -> OriginPrice]

\* A node has a price of its origin, and none is from the future.
NodesPresent ==
    \A k \in Pairs \X Origins : node[k].price \in Known /\ node[k].time <= clock

\* So have the prices a walk has seen.
WalkPresent ==
    /\ \A i \in 1..Len(walk.seen) : walk.seen[i].price \in Known
    /\ walk.time <= clock

\* What a reader at time t may use of a node.
LastOf(n, t) == IF n.err = "none" /\ ~(n.time < t - MaxTTL) THEN n ELSE NoPrice

\* The last price of an origin that is not too old is the one in its node, as long
\* as there is one.
LastInNode == \A k \in Pairs \X Origins : last[k] = LastOf(node[k], clock)

GraphInd == FeederTypes /\ NodesPresent /\ WalkPresent /\ LastInNode

LEMMA Constants ==
    /\ Second \in Nat \ {0} /\ ZeroTime \in Int /\ ZeroTime < 0 /\ MaxTTL \in Nat
    /\ FetchedPrices \subseteq Nat /\ Known \subseteq Nat
    /\ Children \in [Pairs -> Seq(Origins)] /\ PairList \in Seq(Pairs)
    /\ MaxClock \in Nat /\ MinSources \in Nat
BY PriceGraphAssumption, FeederAssumption DEF Known

\* OriginNode.Price changes nothing but the error.
LEMMA PriceKeeps ==
    ASSUME NEW n \in OriginPrice
    PROVE  /\ Price(n) \in OriginPrice
           /\ Price(n).price = n.price /\ Price(n).time = n.time
           /\ LastOf(Price(n), clock) = LastOf(n, clock)
BY DEF Price, OriginPrice, LastOf, Expired

\* What a reader of a node gets.
LEMMA PriceServes ==
    ASSUME NEW n \in OriginPrice, clock \in Nat
    PROVE  IF LastOf(n, clock) = NoPrice
           THEN Price(n).err # "none"
           ELSE Price(n) = LastOf(n, clock)
<1> USE DEF OriginPrice
<1>1. CASE n.err = "none" /\ ~Expired(n)
  <2>1. LastOf(n, clock) = n
    BY <1>1 DEF LastOf, Expired
  <2>2. n # NoPrice
    BY <1>1, PriceGraphAssumption DEF NoPrice, Expired
  <2>3. Price(n) = n
    BY <1>1 DEF Price
  <2> QED BY <2>1, <2>2, <2>3
<1>2. CASE ~(n.err = "none" /\ ~Expired(n))
  <2>1. LastOf(n, clock) = NoPrice
    BY <1>2 DEF LastOf, Expired
  <2>2. Price(n).err # "none"
    BY <1>2 DEF Price
  <2> QED BY <2>1, <2>2
<1> QED BY <1>1, <1>2

\* What Ingest leaves in a node is its price or the result.
LEMMA IngestKeeps ==
    ASSUME NEW n \in OriginPrice, NEW r \in FetchResults, clock \in Nat
    PROVE  /\ Ingest(n, r) \in OriginPrice
           /\ Ingest(n, r) = n \/ (Ingest(n, r).price \in Known /\ Ingest(n, r).time <= clock)
           /\ r.err = "none" => LastOf(Ingest(n, r), clock) = Lasting(r, clock)
           /\ r.err # "none" => LastOf(Ingest(n, r), clock) = LastOf(n, clock)
           /\ Lasting(r, clock) \in OriginPrice
<1>1. r \in OriginPrice /\ r.price \in Known /\ r.time <= clock
  <2>1. CASE r \in [price : FetchedPrices, time : 0..clock, err : {"none"}]
    <3>1. /\ r = [price |-> r.price, time |-> r.time, err |-> r.err]
          /\ r.price \in FetchedPrices /\ r.time \in 0..clock /\ r.err = "none"
      BY <2>1
    <3>2. r.price \in Nat /\ r.price \in Known /\ r.time \in Nat /\ r.time <= clock
      BY <3>1, Constants DEF Known
    <3> QED BY <3>1, <3>2 DEF OriginPrice
  <2>2. CASE r \in [price : {0}, time : {clock, ZeroTime}, err : {"fetch"}]
    BY <2>2, Constants DEF OriginPrice, Known
  <2> QED BY <2>1, <2>2 DEF FetchResults
<1>2. NoPrice \in OriginPrice
  BY DEF NoPrice, OriginPrice
<1>3. r.err = "none" => LastOf(Ingest(n, r), clock) = Lasting(r, clock)
  BY DEF Ingest, LastOf, Lasting
<1>4. ASSUME r.err # "none" PROVE LastOf(Ingest(n, r), clock) = LastOf(n, clock)
  BY <1>4 DEF Ingest, LastOf, Expired
<1>5. Lasting(r, clock) \in OriginPrice
  BY <1>1, <1>2 DEF Lasting
<1>6. Ingest(n, r) = n \/ Ingest(n, r) = r
  BY DEF Ingest
<1> QED BY <1>1, <1>3, <1>4, <1>5, <1>6

LEMMA GraphInitially ==
    ASSUME Init
    PROVE  GraphInd
<1> USE Constants DEF Init, GraphInit, FeederInit
<1>1. FeederTypes
  BY DEF FeederTypes, OriginPrice, Times, NoWalk, NoPair, NoPrice
<1>2. NodesPresent /\ WalkPresent
  BY DEF NodesPresent, WalkPresent, NoWalk, Known, NoPrice
<1>3. LastInNode
  BY DEF LastInNode, LastOf, NoPrice
<1> QED BY <1>1, <1>2, <1>3 DEF GraphInd

\* The refresh of the nodes of an origin.
LEMMA FeedStepKeeps ==
    ASSUME GraphInd, NEW o \in Origins, FeedStep(o), UNCHANGED feederVars
    PROVE  GraphInd'
<1> USE DEF GraphInd
<1>0. clock \in Nat /\ UNCHANGED <<clock, walk, ctx, pc, queue>>
      /\ node \in [Pairs \X Origins -> OriginPrice]
  BY DEF FeedStep, FeedTick, FeedEnd, feederVars, FeederTypes
<1>1. CASE FeedTick(o)
  <2>0. last' = last
    BY <1>1 DEF FeedTick
  <2>1. /\ node' = [k \in Pairs \X Origins |-> IF k[2] = o THEN Price(node[k]) ELSE node[k]]
        /\ fetching' \in [Origins -> SUBSET Pairs]
    BY <1>0, <1>1 DEF FeedTick, FeederTypes
  <2>2. \A k \in Pairs \X Origins : node'[k] = node[k] \/ node'[k] = Price(node[k])
    BY <2>1
  <2>3. \A k \in Pairs \X Origins : node[k] \in OriginPrice
    BY <1>0
  <2>4. \A k \in Pairs \X Origins :
           /\ node'[k] \in OriginPrice /\ node'[k].price = node[k].price /\ node'[k].time = node[k].time
           /\ LastOf(node'[k], clock) = LastOf(node[k], clock)
    BY <2>2, <2>3, PriceKeeps
  <2>5. node' \in [Pairs \X Origins -> OriginPrice]
    BY <2>1, <2>4
  <2>6. FeederTypes'
    BY <1>0, <2>0, <2>1, <2>5 DEF FeederTypes
  <2>7. NodesPresent'
    BY <1>0, <2>4 DEF NodesPresent
  <2>8. WalkPresent'
    BY <1>0 DEF WalkPresent
  <2>9. LastInNode'
    BY <1>0, <2>0, <2>4 DEF LastInNode
  <2> QED BY <2>6, <2>7, <2>8, <2>9
<1>2. CASE FeedEnd(o)
  <2> DEFINE Answers(a, res) ==
           /\ node' = [k \in DOMAIN node |->
                         IF k[2] = o /\ k[1] \in a THEN Ingest(node[k], res[k[1]]) ELSE node[k]]
           /\ last' = [k \in DOMAIN last |->
                         IF k[2] = o /\ k[1] \in a /\ res[k[1]].err = "none"
                         THEN Lasting(res[k[1]], clock) ELSE last[k]]
  <2>1. PICK answered \in SUBSET fetching[o] : \E res \in [answered -> FetchResults] : Answers(answered, res)
    BY <1>2 DEF FeedEnd
  <2>2. PICK res \in [answered -> FetchResults] : Answers(answered, res)
    BY <2>1
  <2>3. \A k \in Pairs \X Origins :
           /\ node[k] \in OriginPrice /\ last[k] \in OriginPrice
           /\ last[k] = LastOf(node[k], clock)
    BY <1>0 DEF FeederTypes, LastInNode
  <2>4. DOMAIN node' = Pairs \X Origins /\ DOMAIN last' = Pairs \X Origins
    BY <1>0, <2>2 DEF FeederTypes
  <2>5. ASSUME NEW k \in Pairs \X Origins
        PROVE  /\ node'[k] \in OriginPrice /\ last'[k] \in OriginPrice
               /\ node'[k] = node[k] \/ (node'[k].price \in Known /\ node'[k].time <= clock)
               /\ last'[k] = LastOf(node'[k], clock)
    <3>1. CASE k[2] = o /\ k[1] \in answered
      <4>1. /\ res[k[1]] \in FetchResults
            /\ node'[k] = Ingest(node[k], res[k[1]])
            /\ last'[k] = IF res[k[1]].err = "none" THEN Lasting(res[k[1]], clock) ELSE last[k]
        BY <1>0, <2>2, <3>1 DEF FeederTypes
      <4> QED BY <1>0, <2>3, <4>1, IngestKeeps
    <3>2. CASE ~(k[2] = o /\ k[1] \in answered)
      <4>1. node'[k] = node[k] /\ last'[k] = last[k]
        BY <1>0, <2>2, <3>2 DEF FeederTypes
      <4> QED BY <2>3, <4>1
    <3> QED BY <3>1, <3>2
  <2>6. /\ node' \in [Pairs \X Origins -> OriginPrice]
        /\ last' \in [Pairs \X Origins -> OriginPrice]
    BY <2>2, <2>4, <2>5
  <2>7. FeederTypes'
    BY <1>0, <1>2, <2>6 DEF FeederTypes, FeedEnd
  <2>8. NodesPresent'
    BY <1>0, <2>5 DEF NodesPresent
  <2>9. WalkPresent'
    BY <1>0 DEF WalkPresent
  <2>10. LastInNode'
    BY <1>0, <2>5 DEF LastInNode
  <2> QED BY <2>7, <2>8, <2>9, <2>10
<1> QED BY <1>1, <1>2 DEF FeedStep

\* A round of the loop of a median.
LEMMA ReadChildKeeps ==
    ASSUME GraphInd, ReadChild
    PROVE  GraphInd'
<1> USE DEF GraphInd
<1> DEFINE c == <<walk.pair, Children[walk.pair][walk.next]>>
           r == Price(node[c])
<1>0. UNCHANGED <<clock, fetching, last, ctx, pc, queue>> /\ clock \in Nat /\ pc = "walk"
      /\ node \in [Pairs \X Origins -> OriginPrice]
  BY DEF ReadChild, WalkChild, feederVars, FeederTypes
<1>1. c \in Pairs \X Origins
  <2>1. walk.pair \in Pairs /\ walk.next \in Nat \ {0}
    BY DEF ReadChild, FeederTypes
  <2>2. Children[walk.pair] \in Seq(Origins)
    BY <2>1, Constants
  <2>3. walk.next \in 1..Len(Children[walk.pair])
    BY <2>1, <2>2 DEF ReadChild, WalkDone
  <2>4. Children[walk.pair][walk.next] \in Origins
    BY <2>2, <2>3
  <2> QED BY <2>1, <2>4
<1>2. node[c] \in OriginPrice /\ node[c].price \in Known /\ node[c].time <= clock
  BY <1>0, <1>1 DEF NodesPresent
<1>3. /\ r \in OriginPrice /\ r.price \in Known /\ r.time <= clock
      /\ r.price = node[c].price /\ r.time = node[c].time
      /\ LastOf(r, clock) = LastOf(node[c], clock)
  BY <1>2, PriceKeeps
<1>4. node' = [node EXCEPT ![c] = r]
  BY DEF ReadChild, WalkChild
<1>5. walk' = IF r.err # "none"
              THEN [walk EXCEPT !.next = @ + 1]
              ELSE [walk EXCEPT !.next = @ + 1,
                                !.seen = Append(@, r),
                                !.time = IF walk.next = 1 \/ r.time < @ THEN r.time ELSE @]
  BY DEF ReadChild, WalkChild
<1> HIDE DEF c, r
<1>6. node' \in [Pairs \X Origins -> OriginPrice]
  BY <1>0, <1>3, <1>4
<1>7. \A k \in Pairs \X Origins : node'[k] = IF k = c THEN r ELSE node[k]
  BY <1>0, <1>4
<1>8. /\ walk'.pair = walk.pair /\ walk'.next = walk.next + 1
      /\ walk' \in [pair : Pairs \cup {NoPair}, next : Nat \ {0}, seen : Seq(OriginPrice), time : Times]
      /\ walk'.seen = walk.seen \/ walk'.seen = Append(walk.seen, r)
      /\ walk'.time = walk.time \/ walk'.time = r.time
  <2>1. walk \in [pair : Pairs \cup {NoPair}, next : Nat \ {0}, seen : Seq(OriginPrice), time : Times]
    BY DEF FeederTypes
  <2>2. r.time \in Times
    BY <1>3 DEF OriginPrice, Times
  <2>3. CASE r.err # "none"
    BY <1>5, <2>1, <2>3
  <2>4. CASE r.err = "none"
    <3> DEFINE t == IF walk.next = 1 \/ r.time < walk.time THEN r.time ELSE walk.time
    <3>1. walk' = [walk EXCEPT !.next = walk.next + 1, !.seen = Append(walk.seen, r), !.time = t]
      BY <1>5, <2>1, <2>4
    <3>2. t \in Times /\ (t = walk.time \/ t = r.time)
      BY <2>1, <2>2
    <3>3. Append(walk.seen, r) \in Seq(OriginPrice)
      BY <1>3, <2>1
    <3> HIDE DEF t
    <3>4. walk' = [pair |-> walk.pair, next |-> walk.next + 1, seen |-> Append(walk.seen, r), time |-> t]
      BY <2>1, <3>1
    <3>5. walk.pair \in Pairs \cup {NoPair} /\ walk.next + 1 \in Nat \ {0}
      BY <2>1
    <3> QED BY <3>2, <3>3, <3>4, <3>5
  <2> QED BY <2>3, <2>4
<1>9. FeederTypes'
  BY <1>0, <1>6, <1>8 DEF FeederTypes
<1>10. NodesPresent'
  BY <1>0, <1>3, <1>7 DEF NodesPresent
<1>11. WalkPresent'
  <2>1. walk.seen \in Seq(OriginPrice)
    BY DEF FeederTypes
  <2>2. \A i \in 1..Len(walk'.seen) : walk'.seen[i].price \in Known
    BY <1>3, <1>8, <2>1 DEF WalkPresent
  <2> QED BY <1>0, <1>3, <1>8, <2>2 DEF WalkPresent
<1>12. LastInNode'
  BY <1>0, <1>3, <1>7 DEF LastInNode
<1> QED BY <1>9, <1>10, <1>11, <1>12

-----------------------------------------------------------------------------
(* The nodes *)

\* What every step keeps of the graph.
LEMMA GraphStep ==
    ASSUME GraphInd, Next
    PROVE  GraphInd'
<1>1. CASE StartFeeder \/ CancelCtx \/ RoutineReturns
  <2>1. UNCHANGED graphVars /\ queue' = queue
    BY <1>1 DEF StartFeeder, CancelCtx, RoutineReturns
  <2>2. FeederTypes'
    BY <1>1, <2>1 DEF GraphInd, FeederTypes, graphVars, StartFeeder, CancelCtx, RoutineReturns
  <2> QED BY <2>1, <2>2 DEF GraphInd, NodesPresent, WalkPresent, LastInNode, graphVars
<1>2. CASE BroadcastTick \/ TickOver
  <2>1. UNCHANGED graphVars
    BY <1>2 DEF BroadcastTick, TickOver
  <2>2. FeederTypes'
    BY <1>2, <2>1, Constants DEF GraphInd, FeederTypes, graphVars, BroadcastTick, TickOver
  <2> QED BY <2>1, <2>2 DEF GraphInd, NodesPresent, WalkPresent, LastInNode, graphVars
<1>3. CASE NextPair
  <2>1. Head(queue) \in Pairs /\ Tail(queue) \in Seq(Pairs)
    BY <1>3 DEF GraphInd, FeederTypes, NextPair
  <2>2. /\ UNCHANGED <<clock, node, fetching, last, ctx>> /\ pc' = "walk" /\ queue' = Tail(queue)
        /\ walk' = [pair |-> Head(queue), next |-> 1, seen |-> << >>, time |-> ZeroTime]
    BY <1>3 DEF NextPair, StartWalk
  <2>3. FeederTypes'
    BY <2>1, <2>2 DEF GraphInd, FeederTypes, Times
  <2>4. NodesPresent' /\ WalkPresent'
    BY <2>2, Constants DEF GraphInd, FeederTypes, NodesPresent, WalkPresent
  <2>5. LastInNode'
    BY <2>2 DEF GraphInd, LastInNode
  <2> QED BY <2>3, <2>4, <2>5 DEF GraphInd
<1>4. CASE ReadChild
  BY <1>4, ReadChildKeeps
<1>5. CASE SignPrice \/ BroadcastV0 \/ BroadcastV1
  <2>1. UNCHANGED <<clock, node, fetching, last, ctx, queue>>
    BY <1>5 DEF SignPrice, BroadcastV0, BroadcastV1
  <2>2. /\ pc \in {"walk", "v0", "v1"} /\ pc' \in {"next", "v0", "v1"}
        /\ (walk' = NoWalk /\ pc' = "next") \/ walk' = walk
    BY <1>5 DEF SignPrice, BroadcastV0, BroadcastV1, BroadcastReturns
  <2>3. NoWalk \in [pair : Pairs \cup {NoPair}, next : Nat \ {0}, seen : Seq(OriginPrice), time : Times]
    BY DEF NoWalk, NoPair, Times
  <2>4. FeederTypes'
    BY <2>1, <2>2, <2>3 DEF GraphInd, FeederTypes
  <2>5. NodesPresent'
    BY <2>1 DEF GraphInd, NodesPresent
  <2>6. WalkPresent'
    BY <2>1, <2>2, Constants DEF GraphInd, FeederTypes, WalkPresent, NoWalk
  <2>7. LastInNode'
    BY <2>1 DEF GraphInd, LastInNode
  <2> QED BY <2>4, <2>5, <2>6, <2>7 DEF GraphInd
<1>6. CASE \E o \in Origins : ctx # "none" /\ FeedStep(o) /\ UNCHANGED feederVars
  BY <1>6, FeedStepKeeps
<1>7. CASE GraphAdvanceClock /\ UNCHANGED feederVars
  <2>1. /\ UNCHANGED <<node, fetching, walk, ctx, pc, queue>> /\ clock' = clock + 1
        /\ clock \in Nat /\ clock' \in 0..MaxClock
    BY <1>7, Constants DEF GraphAdvanceClock, feederVars, GraphInd, FeederTypes
  <2>2. ASSUME NEW k \in Pairs \X Origins
        PROVE  /\ node[k] \in OriginPrice /\ node[k].time \in Int
               /\ last'[k] = LastOf(node[k], clock + 1) /\ last'[k] \in OriginPrice
    <3>1. node[k] \in OriginPrice /\ last[k] = LastOf(node[k], clock) /\ node[k].time \in Int
      BY Constants DEF GraphInd, FeederTypes, LastInNode, OriginPrice
    <3>2. last'[k] = Lasting(last[k], clock + 1)
      BY <1>7 DEF GraphAdvanceClock, GraphInd, FeederTypes
    <3>3. last'[k] = LastOf(node[k], clock + 1)
      BY <2>1, <3>1, <3>2, Constants DEF LastOf, Lasting
    <3>4. NoPrice \in OriginPrice
      BY DEF NoPrice, OriginPrice
    <3> QED BY <3>1, <3>3, <3>4 DEF LastOf
  <2>3. last' \in [Pairs \X Origins -> OriginPrice]
    BY <1>7, <2>2 DEF GraphAdvanceClock, GraphInd, FeederTypes
  <2>4. FeederTypes'
    BY <2>1, <2>3 DEF GraphInd, FeederTypes
  <2>5. NodesPresent'
    BY <2>1, <2>2 DEF GraphInd, NodesPresent
  <2>6. walk.time \in Int
    BY Constants DEF GraphInd, FeederTypes, Times
  <2>7. WalkPresent'
    BY <2>1, <2>6 DEF GraphInd, WalkPresent
  <2>8. LastInNode'
    BY <2>1, <2>2 DEF LastInNode
  <2> QED BY <2>4, <2>5, <2>7, <2>8 DEF GraphInd
<1> QED BY <1>1, <1>2, <1>3, <1>4, <1>5, <1>6, <1>7 DEF Next, FeederStep

LEMMA GraphStutters ==
    ASSUME GraphInd, UNCHANGED vars
    PROVE  GraphInd'
BY DEF GraphInd, FeederTypes, NodesPresent, WalkPresent, LastInNode, vars, graphVars, feederVars

LEMMA GraphInvariant == Spec => []GraphInd
<1>1. Init => GraphInd
  BY GraphInitially
<1>2. GraphInd /\ [Next]_vars => GraphInd'
  BY GraphStep, GraphStutters
<1> QED BY <1>1, <1>2, PTL DEF Spec

\* For any pairs and origins: however many refreshes fail, leave a pair out or
\* hang, a reader of an origin node gets the last price that the origin gave while
\* that price is not too old, and an error afterwards.
THEOREM LastPricesServed == Spec => []LastPriceServed
<1>1. GraphInd => LastPriceServed
  <2> SUFFICES ASSUME GraphInd, NEW k \in Pairs \X Origins
               PROVE  IF last[k] = NoPrice THEN Price(node[k]).err # "none" ELSE Price(node[k]) = last[k]
    BY DEF LastPriceServed
  <2>1. node[k] \in OriginPrice /\ clock \in Nat /\ last[k] = LastOf(node[k], clock)
    BY DEF GraphInd, FeederTypes, LastInNode
  <2> QED BY <2>1, PriceServes
<1> QED BY <1>1, GraphInvariant, PTL

-----------------------------------------------------------------------------
(* The median and the messages *)

\* Division by a positive number is monotone, and exact on multiples.
LEMMA DivBounds ==
    ASSUME NEW a \in Nat, NEW b \in Nat, NEW s \in Nat \ {0}
    PROVE  /\ a \div s \in Nat
           /\ a < s * (b + 1) => a \div s <= b
           /\ a <= b => a \div s <= b \div s
           /\ (a + 1) \div s = a \div s \/ (a + 1) \div s = a \div s + 1
<1> DEFINE q == a \div s
           p == b \div s
           n == (a + 1) \div s
<1>1. q \in Nat /\ s * q <= a /\ a < s * q + s
  OBVIOUS
<1>2. p \in Nat /\ s * p <= b /\ b < s * p + s
  OBVIOUS
<1>3. n \in Nat /\ s * n <= a + 1 /\ a + 1 < s * n + s
  OBVIOUS
<1> HIDE DEF q, p, n
<1>4. \A x, y \in Nat : x < y => s * x + s <= s * y
  <2>1. SUFFICES ASSUME NEW x \in Nat, NEW y \in Nat, x < y PROVE s * x + s <= s * y
    OBVIOUS
  <2>2. s * (x + 1) <= s * y
    BY <2>1
  <2>3. s * (x + 1) = s * x + s
    BY <2>1
  <2> QED BY <2>2, <2>3
<1>5. s * q \in Nat /\ s * p \in Nat /\ s * n \in Nat /\ s * (q + 1) = s * q + s /\ s * b \in Nat
      /\ s * (b + 1) = s * b + s
  BY <1>1, <1>2, <1>3
<1>6. a < s * (b + 1) => q <= b
  BY <1>1, <1>4, <1>5
<1>7. a <= b => q <= p
  BY <1>1, <1>2, <1>4, <1>5
<1>8. n >= q
  BY <1>1, <1>3, <1>4, <1>5
<1>9. n <= q + 1
  BY <1>1, <1>3, <1>4, <1>5
<1> QED BY <1>1, <1>3, <1>6, <1>7, <1>8, <1>9 DEF q, p, n

\* The sources of the walk as numbers.
LEMMA SourcesOfWalk ==
    ASSUME GraphInd
    PROVE  /\ IsFiniteSet(Positive(walk.seen))
           /\ \A i \in Positive(walk.seen) :
                 /\ PriceOf(walk.seen)[i] = walk.seen[i].price
                 /\ walk.seen[i].price \in FetchedPrices
                 /\ walk.seen[i].price \in Nat
<1>1. Len(walk.seen) \in Nat
  BY DEF GraphInd, FeederTypes
<1>2. Positive(walk.seen) \in SUBSET (1..Len(walk.seen))
  BY DEF Positive
<1>3. IsFiniteSet(1..Len(walk.seen))
  BY <1>1, FS_Interval
<1>4. IsFiniteSet(Positive(walk.seen))
  BY <1>2, <1>3, FS_Subset
<1>5. \A i \in Positive(walk.seen) :
         i \in 1..Len(walk.seen) /\ walk.seen[i].price \in Known /\ walk.seen[i].price > 0
  BY DEF Positive, GraphInd, WalkPresent
<1>6. \A i \in Positive(walk.seen) : walk.seen[i].price \in FetchedPrices
  BY <1>5 DEF Known
<1> QED BY <1>4, <1>5, <1>6, Constants DEF PriceOf

\* A median is a number that fits a message.
LEMMA MedianFits ==
    ASSUME GraphInd
    PROVE  /\ Median(walk.seen) \in Nat
           /\ SetFloat64Price(Median(walk.seen)) \in 0..MaxVal
<1> DEFINE I == Positive(walk.seen)
           f == PriceOf(walk.seen)
           m == Median(walk.seen)
<1>0. PriceScale \in Nat \ {0} /\ MaxVal \in Nat /\ PriceScale * (MaxVal + 1) \in Nat \ {0}
  BY FeederAssumption
<1>1. m \in Nat /\ m < PriceScale * (MaxVal + 1)
  <2>1. CASE I = {}
    BY <1>0, <2>1 DEF Median
  <2>2. CASE I # {}
    <3>1. m = MedianOf(f, I)
      BY <2>2 DEF Median
    <3>2. \A i \in I : f[i] \in Nat /\ f[i] < PriceScale * (MaxVal + 1)
      BY SourcesOfWalk, FeederAssumption
    <3>3. IsFiniteSet(I)
      BY SourcesOfWalk
    <3> HIDE DEF I, f
    <3>4. MedianOf(f, I) \in Nat /\ \E j \in I : MedianOf(f, I) <= f[j]
      BY <2>2, <3>2, <3>3, MedianIsMiddle
    <3> QED BY <1>0, <3>1, <3>2, <3>4
  <2> QED BY <2>1, <2>2
<1> HIDE DEF m
<1>2. m \div PriceScale \in Nat /\ m \div PriceScale <= MaxVal
  BY <1>0, <1>1, DivBounds
<1> QED BY <1>0, <1>1, <1>2 DEF m, SetFloat64Price

\* The median is central among the sources of the walk.
LEMMA MedianCentral ==
    ASSUME GraphInd
    PROVE  MedianIsCentral
<1> DEFINE s == walk.seen
           I == Positive(s)
           f == PriceOf(s)
           m == Median(s)
<1>1. SUFFICES ASSUME I # {}
               PROVE  /\ 2 * Cardinality({i \in I : s[i].price < m}) <= Cardinality(I)
                      /\ 2 * Cardinality({i \in I : s[i].price > m}) <= Cardinality(I)
                      /\ IF Cardinality(I) % 2 = 1
                         THEN \E i \in I : s[i].price = m
                         ELSE \E i, j \in I : i # j /\ s[i].price + s[j].price = 2 * m
  BY DEF MedianIsCentral
<1>2. m = MedianOf(f, I)
  BY <1>1 DEF Median
<1>3. IsFiniteSet(I) /\ \A i \in I : f[i] = s[i].price /\ f[i] \in Nat
  BY SourcesOfWalk
<1>4. \A i, j \in I : (f[i] + f[j]) % 2 = 0
  <2>1. \A i \in I : f[i] \in FetchedPrices
    BY SourcesOfWalk
  <2> QED BY <2>1, PriceGraphAssumption
<1>5. m \in Nat
  BY MedianFits
<1> HIDE DEF s, I, f, m
<1>6. /\ 2 * Cardinality(Below(f, I, m)) <= Cardinality(I)
      /\ 2 * Cardinality(UpTo(f, I, m)) >= Cardinality(I)
  BY <1>1, <1>2, <1>3, MedianIsMiddle
<1>7. {i \in I : s[i].price < m} = Below(f, I, m)
  BY <1>3 DEF Below
<1>8. {i \in I : s[i].price > m} = I \ UpTo(f, I, m) /\ I \cap UpTo(f, I, m) = UpTo(f, I, m)
  BY <1>3, <1>5 DEF UpTo
<1>9. Cardinality(I \ UpTo(f, I, m)) = Cardinality(I) - Cardinality(UpTo(f, I, m))
  BY <1>3, <1>8, FS_Difference
<1>10. 2 * Cardinality({i \in I : s[i].price > m}) <= Cardinality(I)
  <2>1. Cardinality(I) \in Nat /\ Cardinality(UpTo(f, I, m)) \in Nat
    BY <1>3, RanksFinite
  <2>2. Cardinality({i \in I : s[i].price > m}) = Cardinality(I) - Cardinality(UpTo(f, I, m))
    BY <1>8, <1>9
  <2> QED BY <1>6, <2>1, <2>2
<1>11. IF Cardinality(I) % 2 = 1
       THEN \E i \in I : f[i] = m
       ELSE \E i, j \in I : i # j /\ f[i] + f[j] = 2 * m
  BY <1>1, <1>2, <1>3, <1>4, MedianIsMean
<1>12. IF Cardinality(I) % 2 = 1
       THEN \E i \in I : s[i].price = m
       ELSE \E i, j \in I : i # j /\ s[i].price + s[j].price = 2 * m
  BY <1>3, <1>11
<1> QED BY <1>6, <1>7, <1>10, <1>12

\* The age of a message is that of the walk in seconds: never from the future.
LEMMA AgeFits ==
    ASSUME GraphInd
    PROVE  /\ Unix(walk.time) \in Times
           /\ Unix(walk.time) \in {ZeroTime} \cup 0..(clock \div Second)
<1>1. walk.time \in Times /\ walk.time <= clock /\ clock \in Nat /\ Second \in Nat \ {0}
  BY Constants DEF GraphInd, FeederTypes, WalkPresent
<1>2. CASE walk.time = ZeroTime
  BY <1>2 DEF Unix, Times
<1>3. CASE walk.time # ZeroTime
  <2>1. walk.time \in Nat
    BY <1>1, <1>3 DEF Times
  <2>2. walk.time \div Second \in Nat /\ clock \div Second \in Nat
        /\ walk.time \div Second <= clock \div Second
    BY <1>1, <2>1, DivBounds
  <2> QED BY <1>3, <2>2 DEF Unix, Times
<1> QED BY <1>2, <1>3

\* What was sent: typed, the same on both topics, and what goes out as price/v1
\* has gone out as price/v0.
SentInd ==
    /\ sent \subseteq [topic : Topics, wat : Pairs, val : Nat, age : Times]
    /\ TopicsAgree
    /\ pc = "v1" => PriceMessage("price/v0") \in sent
    /\ IsFiniteSet(PricesIn(sent))

\* What one more message means.
LEMMA SendAdds ==
    ASSUME GraphInd, SentInd, NEW topic \in Topics, Send(topic), walk.pair \in Pairs
    PROVE  LET m == PriceMessage(topic)
               x == [wat |-> m.wat, val |-> m.val, age |-> m.age, from |-> Self]
           IN  /\ m \in [topic : Topics, wat : Pairs, val : Nat, age : Times]
               /\ m.wat \in Pairs /\ m.val \in 0..MaxVal
               /\ m.age \in {ZeroTime} \cup 0..(clock \div Second)
               /\ m.topic = topic
               /\ sent' = sent \cup {m}
               /\ PricesIn(sent') = PricesIn(sent) \cup {x}
               /\ IsFiniteSet(PricesIn(sent'))
               /\ x \notin PricesIn(sent) => Cardinality(PricesIn(sent)) < MaxNet
<1> DEFINE m == PriceMessage(topic)
           x == [wat |-> m.wat, val |-> m.val, age |-> m.age, from |-> Self]
<1>1. m = [topic |-> topic, wat |-> walk.pair, val |-> SetFloat64Price(Median(walk.seen)),
           age |-> Unix(walk.time)]
  BY DEF PriceMessage, MedianPrice
<1>2. /\ m \in [topic : Topics, wat : Pairs, val : Nat, age : Times]
      /\ m.wat \in Pairs /\ m.val \in 0..MaxVal
      /\ m.age \in {ZeroTime} \cup 0..(clock \div Second)
      /\ m.topic = topic
  <2>1. SetFloat64Price(Median(walk.seen)) \in Nat
    BY MedianFits
  <2> QED BY <1>1, <2>1, MedianFits, AgeFits
<1>3. sent' = sent \cup {m} /\ Cardinality(PricesIn(sent')) <= MaxNet
  BY DEF Send
<1> HIDE DEF m
<1>4. PricesIn(sent') = PricesIn(sent) \cup {x}
  BY <1>3 DEF PricesIn
<1>5. IsFiniteSet(PricesIn(sent)) /\ Cardinality(PricesIn(sent)) \in Nat /\ MaxNet \in Nat
  BY FS_CardinalityType, FeederAssumption DEF SentInd
<1>6. /\ IsFiniteSet(PricesIn(sent) \cup {x})
      /\ x \notin PricesIn(sent) => Cardinality(PricesIn(sent) \cup {x}) = Cardinality(PricesIn(sent)) + 1
  BY <1>5, FS_AddElement
<1>7. /\ IsFiniteSet(PricesIn(sent'))
      /\ x \notin PricesIn(sent) => Cardinality(PricesIn(sent)) < MaxNet
  <2>1. ASSUME x \notin PricesIn(sent) PROVE Cardinality(PricesIn(sent)) < MaxNet
    <3>1. Cardinality(PricesIn(sent) \cup {x}) <= MaxNet
      BY <1>3, <1>4
    <3>2. Cardinality(PricesIn(sent) \cup {x}) = Cardinality(PricesIn(sent)) + 1
      BY <1>6, <2>1
    <3> HIDE DEF x
    <3> QED BY <1>5, <3>1, <3>2
  <2> QED BY <1>4, <1>6, <2>1
<1> QED BY <1>2, <1>3, <1>4, <1>7 DEF m

FeederInd == GraphInd /\ SentInd

\* Steps that send nothing, and leave the walk alone while it is being sent.
LEMMA SendingNothing ==
    ASSUME SentInd, sent' = sent, pc' = "v1" => pc = "v1" /\ walk' = walk
    PROVE  SentInd'
<1>1. pc' = "v1" => PriceMessage("price/v0")' = PriceMessage("price/v0")
  BY DEF PriceMessage, MedianPrice
<1> QED BY <1>1 DEF SentInd, TopicsAgree, PricesIn

LEMMA SentStep ==
    ASSUME GraphInd, SentInd, Next
    PROVE  SentInd'
<1>1. CASE StartFeeder \/ CancelCtx \/ RoutineReturns \/ BroadcastTick \/ TickOver \/ NextPair
  BY <1>1, SendingNothing
     DEF StartFeeder, CancelCtx, RoutineReturns, BroadcastTick, TickOver, NextPair, graphVars
<1>2. CASE ReadChild
  BY <1>2, SendingNothing DEF ReadChild, feederVars
<1>3. CASE SignPrice
  BY <1>3, SendingNothing DEF SignPrice, BroadcastReturns
<1>4. CASE BroadcastV0
  <2>1. CASE Send("price/v0") /\ pc' = "v1" /\ walk' = walk
    <3> DEFINE m == PriceMessage("price/v0")
    <3>1. walk.pair \in Pairs /\ "price/v0" \in Topics
      BY <1>4 DEF BroadcastV0, GraphInd, FeederTypes, Topics
    <3>2. /\ m \in [topic : Topics, wat : Pairs, val : Nat, age : Times] /\ m.topic = "price/v0"
          /\ sent' = sent \cup {m} /\ IsFiniteSet(PricesIn(sent'))
      BY <2>1, <3>1, SendAdds
    <3>3. m' = m
      BY <2>1 DEF PriceMessage, MedianPrice
    <3> HIDE DEF m
    <3>4. TopicsAgree'
      BY <3>2 DEF SentInd, TopicsAgree
    <3> QED BY <3>2, <3>3, <3>4 DEF SentInd, m
  <2>2. CASE BroadcastReturns /\ sent' = sent
    BY <2>2, SendingNothing DEF BroadcastReturns
  <2> QED BY <1>4, <2>1, <2>2 DEF BroadcastV0
<1>5. CASE BroadcastV1
  <2>0. pc' = "next"
    BY <1>5 DEF BroadcastV1, BroadcastReturns
  <2>1. CASE Send("price/v1")
    <3> DEFINE m == PriceMessage("price/v1")
    <3>1. walk.pair \in Pairs /\ "price/v1" \in Topics
      BY <1>5 DEF BroadcastV1, GraphInd, FeederTypes, Topics
    <3>2. /\ m \in [topic : Topics, wat : Pairs, val : Nat, age : Times] /\ m.topic = "price/v1"
          /\ sent' = sent \cup {m} /\ IsFiniteSet(PricesIn(sent'))
      BY <2>1, <3>1, SendAdds
    <3>3. [m EXCEPT !.topic = "price/v0"] \in sent
      BY <1>5 DEF BroadcastV1, SentInd, PriceMessage
    <3> HIDE DEF m
    <3>4. TopicsAgree'
      BY <3>2, <3>3 DEF SentInd, TopicsAgree
    <3> QED BY <2>0, <3>2, <3>4 DEF SentInd
  <2>2. CASE sent' = sent
    BY <2>0, <2>2, SendingNothing
  <2> QED BY <1>5, <2>1, <2>2 DEF BroadcastV1
<1>6. CASE \E o \in Origins : ctx # "none" /\ FeedStep(o) /\ UNCHANGED feederVars
  BY <1>6, SendingNothing DEF FeedStep, FeedTick, FeedEnd, feederVars
<1>7. CASE GraphAdvanceClock /\ UNCHANGED feederVars
  BY <1>7, SendingNothing DEF GraphAdvanceClock, feederVars
<1> QED BY <1>1, <1>2, <1>3, <1>4, <1>5, <1>6, <1>7 DEF Next, FeederStep

LEMMA FeederInvariant == Spec => []FeederInd
<1>1. Init => FeederInd
  <2>1. ASSUME Init PROVE SentInd
    <3>1. sent = {} /\ pc = "new"
      BY <2>1 DEF Init, FeederInit
    <3>2. PricesIn(sent) = {}
      BY <3>1 DEF PricesIn
    <3> QED BY <3>1, <3>2, FS_EmptySet DEF SentInd, TopicsAgree
  <2> QED BY <2>1, GraphInitially DEF FeederInd
<1>2. FeederInd /\ [Next]_vars => FeederInd'
  <2>1. ASSUME FeederInd, UNCHANGED vars PROVE FeederInd'
    <3>1. SentInd'
      BY <2>1, SendingNothing DEF FeederInd, vars, graphVars, feederVars
    <3> QED BY <2>1, <3>1, GraphStutters DEF FeederInd
  <2> QED BY <2>1, GraphStep, SentStep DEF FeederInd
<1> QED BY <1>1, <1>2, PTL DEF Spec

\* Receivers of either topic see the same prices, and the median they come from is
\* central among the sources that were used, for any number of pairs, origins and
\* sources: refreshes and the clock between the calls of a broadcast change
\* nothing of what it sends.
THEOREM BroadcastsAreSound == Spec => []BroadcastIsSound
<1>1. FeederInd => BroadcastIsSound
  <2>1. SUFFICES ASSUME FeederInd PROVE BroadcastIsSound
    OBVIOUS
  <2>2. FeederTypeOK
    BY <2>1 DEF FeederInd, GraphInd, SentInd, FeederTypes, FeederTypeOK, GraphTypeOK, Times
  <2> QED BY <2>1, <2>2, MedianCentral DEF FeederInd, SentInd, BroadcastIsSound
<1> QED BY <1>1, FeederInvariant, PTL

-----------------------------------------------------------------------------
(* The refinement *)

\* The abstract clock moves by one or not at all.
LEMMA ClockImplements ==
    ASSUME FeederInd, GraphAdvanceClock, sent' = sent
    PROVE  Abstract!AdvanceClock \/ UNCHANGED Abstract!netVars
<1>1. clock \in Nat /\ clock' = clock + 1 /\ clock + 1 <= MaxClock
      /\ MaxClock \in Nat /\ Second \in Nat \ {0}
  BY Constants DEF FeederInd, GraphInd, FeederTypes, GraphAdvanceClock
<1> DEFINE n == clock \div Second
           n1 == (clock + 1) \div Second
           top == MaxClock \div Second
<1>2. n \in Nat /\ (n1 = n \/ n1 = n + 1)
  BY <1>1, DivBounds
<1>3. n1 <= top
  BY <1>1, DivBounds
<1>4. top \in Nat
  BY <1>1, DivBounds
<1>5. n' = n1
  BY <1>1
<1>6. PricesIn(sent)' = PricesIn(sent)
  BY DEF PricesIn
<1> HIDE DEF n1
<1>7. CASE n1 = n
  BY <1>5, <1>6, <1>7 DEF Abstract!netVars
<1>8. CASE n1 = n + 1
  <2>1. n < top
    BY <1>2, <1>3, <1>4, <1>8
  <2> QED BY <1>5, <1>6, <1>8, <2>1 DEF Abstract!AdvanceClock
<1> QED BY <1>2, <1>7, <1>8

\* A message is published, or was before on the other topic.
LEMMA SendImplements ==
    ASSUME FeederInd, NEW topic \in Topics, Send(topic), walk.pair \in Pairs, clock' = clock
    PROVE  Abstract!Publish(Self) \/ UNCHANGED Abstract!netVars
<1> DEFINE m == PriceMessage(topic)
           x == [wat |-> m.wat, val |-> m.val, age |-> m.age, from |-> Self]
<1>1. /\ m.wat \in Pairs /\ m.val \in 0..MaxVal
      /\ m.age \in {ZeroTime} \cup 0..(clock \div Second)
      /\ PricesIn(sent') = PricesIn(sent) \cup {x}
      /\ x \notin PricesIn(sent) => Cardinality(PricesIn(sent)) < MaxNet
  BY SendAdds DEF FeederInd
<1>2. (clock \div Second)' = clock \div Second
  OBVIOUS
<1>3. PricesIn(sent)' = PricesIn(sent')
  BY DEF PricesIn
<1> HIDE DEF m
<1>4. CASE x \in PricesIn(sent)
  <2>1. PricesIn(sent)' = PricesIn(sent)
    BY <1>1, <1>3, <1>4
  <2> QED BY <1>2, <2>1 DEF Abstract!netVars
<1>5. CASE x \notin PricesIn(sent)
  <2>1. \E w \in Pairs, v \in 0..MaxVal, a \in {ZeroTime} \cup 0..(clock \div Second) :
           PricesIn(sent)' = PricesIn(sent) \cup {[wat |-> w, val |-> v, age |-> a, from |-> Self]}
    BY <1>1, <1>3
  <2>2. Abstract!Cardinality(PricesIn(sent)) = Cardinality(PricesIn(sent))
    BY DEF Abstract!Cardinality, Abstract!IsFiniteSet, Cardinality, IsFiniteSet
  <2>3. Abstract!Cardinality(PricesIn(sent)) < MaxNet
    BY <1>1, <1>5, <2>2
  <2> QED BY <1>2, <2>1, <2>3 DEF Abstract!Publish
<1> QED BY <1>4, <1>5

\* The feeder over its price graph implements PriceNet, the sending side that the
\* proofs about the price store and the relayer start from: whatever the origins
\* answer and whenever, the clock in seconds never goes back, messages are only
\* added, and none of them is dated after the second in which it is sent.
THEOREM FeederRefinesPriceNet == Spec => ImplementsPriceNet
<1>1. Init => Abstract!NetInit
  <2>1. SUFFICES ASSUME Init PROVE Abstract!NetInit
    OBVIOUS
  <2>2. clock = 0 /\ sent = {} /\ Second \in Nat \ {0}
    BY <2>1, Constants DEF Init, GraphInit, FeederInit
  <2>3. clock \div Second = 0
    BY <2>2
  <2>4. PricesIn(sent) = {}
    BY <2>2 DEF PricesIn
  <2> QED BY <2>3, <2>4 DEF Abstract!NetInit
<1>2. FeederInd /\ [Next]_vars => [Abstract!NetNext]_(Abstract!netVars)
  <2>1. SUFFICES ASSUME FeederInd, [Next]_vars
                 PROVE  Abstract!NetNext \/ UNCHANGED Abstract!netVars
    OBVIOUS
  <2>2. ASSUME clock' = clock, sent' = sent
        PROVE  UNCHANGED Abstract!netVars
    BY <2>2 DEF Abstract!netVars, PricesIn
  <2>3. CASE UNCHANGED vars
    BY <2>2, <2>3 DEF vars, graphVars, feederVars
  <2>4. CASE BroadcastV0
    <3>1. walk.pair \in Pairs /\ "price/v0" \in Topics
      BY <2>1, <2>4 DEF BroadcastV0, FeederInd, GraphInd, FeederTypes, Topics
    <3>2. clock' = clock /\ (Send("price/v0") \/ sent' = sent)
      BY <2>4 DEF BroadcastV0
    <3> QED BY <2>1, <2>2, <3>1, <3>2, SendImplements DEF Abstract!NetNext
  <2>5. CASE BroadcastV1
    <3>1. walk.pair \in Pairs /\ "price/v1" \in Topics
      BY <2>1, <2>5 DEF BroadcastV1, FeederInd, GraphInd, FeederTypes, Topics
    <3>2. clock' = clock /\ (Send("price/v1") \/ sent' = sent)
      BY <2>5 DEF BroadcastV1
    <3> QED BY <2>1, <2>2, <3>1, <3>2, SendImplements DEF Abstract!NetNext
  <2>6. CASE GraphAdvanceClock /\ UNCHANGED feederVars
    <3>1. sent' = sent
      BY <2>6 DEF feederVars
    <3> QED BY <2>1, <2>6, <3>1, ClockImplements DEF Abstract!NetNext
  <2>7. CASE \/ StartFeeder \/ CancelCtx \/ RoutineReturns \/ BroadcastTick \/ NextPair
             \/ TickOver \/ ReadChild \/ SignPrice
             \/ \E o \in Origins : ctx # "none" /\ FeedStep(o) /\ UNCHANGED feederVars
    <3>1. clock' = clock /\ sent' = sent
      BY <2>7 DEF StartFeeder, CancelCtx, RoutineReturns, BroadcastTick, NextPair, TickOver, ReadChild,
                  WalkChild, SignPrice, FeedStep, FeedTick, FeedEnd, graphVars, feederVars
    <3> QED BY <2>2, <3>1
  <2> QED BY <2>1, <2>3, <2>4, <2>5, <2>6, <2>7 DEF Next, FeederStep
<1> QED BY <1>1, <1>2, FeederInvariant, PTL DEF Spec, ImplementsPriceNet, Abstract!NetSpec
=============================================================================
