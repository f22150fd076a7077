------------------------------ MODULE PriceModels ------------------------------
(***************************************************************************)
(* Price models of the next provider (pkg/pricenext): a graph of nodes     *)
(* whose leaves hold the ticks of origins. Each call of Ticks updates the  *)
(* leaves that are not fresh, all origins at the same time but no more     *)
(* than the limiter lets through, and then evaluates the graph. Origins    *)
(* answer with old, wrong and invalid ticks, for some of the pairs only,   *)
(* panic, or do not answer at all: the HTTP client has no timeout.         *)
(*                                                                         *)
(* Tick of a node calls Tick of its branches, and every leaf reads the     *)
(* clock when its turn comes. The calls are followed one by one, so that a *)
(* leaf may expire between any two of them.                                *)
(*                                                                         *)
(* Prices are integers in units of 1/Unit, so that the quotients of the    *)
(* instances are exact; 0 is the price zero and NilPrice a nil pointer.    *)
(***************************************************************************)
EXTENDS Integers, Sequences, FiniteSets, SequencesExt

CONSTANTS Node,         \* the nodes, 1..n, branches before the nodes above
          Kind,         \* "origin", "reference", "invert", "indirect",
                        \* "median" or "breaker"
          PairOf,       \* the pair of a node: <<base, quote>>
          Branches,     \* its branches, a sequence of nodes
          OriginOf,     \* the origin of an origin node
          AskedModels,  \* the nodes that Ticks is asked for, in order
          MinSources,   \* min of the median nodes
          Threshold,    \* of the circuit breakers, in percent
          Worth,        \* what an asset is worth: the price an honest origin tells
          Answers,      \* what an origin may answer for a pair, see AnswerTick
          Fresh, Expiry,
          MaxConcurrent, \* maxConcurrentUpdates
          MaxCalls, NextMaxTime

Unit == 16
NilPrice == -1
NoTime == 0      \* time.Time{}

Roots == {AskedModels[i] : i \in DOMAIN AskedModels}
Origins == {OriginOf[n] : n \in {m \in Node : Kind[m] = "origin"}}
OriginNodes == {n \in Node : Kind[n] = "origin"}
Pairs == {PairOf[n] : n \in OriginNodes}

\* buildGraph adds branches that are built; buildOriginNode refuses a freshness
\* above the expiry; AddBranch of the single-branch nodes checks the pair.
ASSUME ModelsAssumption ==
    /\ Node = 1..Cardinality(Node) /\ AskedModels \in Seq(Node)
    /\ Fresh \in Nat \ {0} /\ Expiry \in Nat /\ Fresh <= Expiry
    /\ MaxConcurrent \in Nat \ {0} /\ MinSources \in Nat
    /\ \A n \in Node :
        /\ \A i \in 1..Len(Branches[n]) : Branches[n][i] < n
        /\ Kind[n] \in {"reference", "breaker"} =>
              \A i \in 1..Len(Branches[n]) : PairOf[Branches[n][i]] = PairOf[n]
        /\ Kind[n] = "invert" => PairOf[Branches[n][1]] = <<PairOf[n][2], PairOf[n][1]>>
        /\ Kind[n] = "breaker" => Len(Branches[n]) = 2

VARIABLES nextTime,   \* the clock; times of ticks are at least 1
          leaf,       \* the ticks of the origin nodes
          caller,     \* state of the call of Ticks
          toUpdate,   \* the origin nodes that the call updates
          wanted,     \* origins whose goroutine waits for the limiter
          fetching,   \* origins that are being fetched
          fetched,    \* the ticks that were fetched, by origin and pair
          interrupted, \* the context of the caller is done
          left,       \* the models that are still to be evaluated
          stack,      \* the calls of Tick under way: the node, and the ticks that
                      \* its own calls have returned so far
          liveThen,   \* history: the leaves that were live when the model's turn came
          newest,     \* history: the time of the newest valid tick offered to a leaf
          calls       \* number of calls so far

updateVars == <<toUpdate, wanted, fetching, fetched>>
evalVars == <<left, stack, liveThen>>
pmVars == <<nextTime, leaf, caller, updateVars, interrupted, evalVars, newest, calls>>

Tick(p, x, t, e) == [pair |-> p, price |-> x, time |-> t, err |-> e]
FailedTick(p) == Tick(p, NilPrice, NoTime, TRUE)

\* Tick.Validate.
Valid(t) == ~t.err /\ t.price > 0 /\ t.time # NoTime

\* The price that an honest origin has for a pair.
TruePrice(p) == (Unit * Worth[p[1]]) \div Worth[p[2]]

-----------------------------------------------------------------------------
(* The nodes *)

\* Mutant: an expired tick is served.
LeafTickAny(n) == leaf[n]

\* OriginNode.Tick: an expired tick becomes an error, for as long as it stays.
LeafTick(n) ==
    [leaf[n] EXCEPT !.err = @ \/ leaf[n].time + Expiry < nextTime]

Div(a, b) == IF b > 0 THEN (a * Unit) \div b ELSE 0

\* One step of crossRate: the two pairs share an asset. The cases are tried in
\* this order; the older of the two times is kept.
Cross(a, b) ==
    LET time == IF a.time < b.time THEN a.time ELSE b.time
        shared == \E i, j \in 1..2 : a.pair[i] = b.pair[j]
    IN  IF a.err \/ ~shared THEN [a EXCEPT !.err = TRUE]
        ELSE IF a.pair[2] = b.pair[2]
             THEN Tick(<<a.pair[1], b.pair[1]>>, Div(a.price, b.price), time, FALSE)
        ELSE IF a.pair[1] = b.pair[1]
             THEN Tick(<<a.pair[2], b.pair[2]>>, Div(b.price, a.price), time, FALSE)
        ELSE IF a.pair[2] = b.pair[1]
             THEN Tick(<<a.pair[1], b.pair[2]>>, (a.price * b.price) \div Unit, time, FALSE)
        ELSE Tick(<<a.pair[2], b.pair[1]>>, Div(Div(Unit, b.price), a.price), time, FALSE)

crossRate(ts) ==
    LET x[i \in 1..Len(ts)] ==
          IF i = 1 THEN ts[1] ELSE LET a == x[i - 1] IN Cross(a, ts[i])
    IN  x[Len(ts)]

\* IndirectNode.Tick: every branch has to be valid, and the pair as expected.
IndirectTick(n, ts) ==
    IF ts = <<>> \/ \E i \in 1..Len(ts) : ~Valid(ts[i]) THEN FailedTick(PairOf[n])
    ELSE LET x == crossRate(ts) IN
         IF x.err \/ x.pair # PairOf[n] THEN FailedTick(PairOf[n]) ELSE x

\* median of sorted prices.
Middle(s) ==
    LET k == Len(s) IN
    IF k = 0 THEN NilPrice
    ELSE IF k % 2 = 1 THEN s[(k + 1) \div 2]
    ELSE (s[k \div 2] + s[k \div 2 + 1]) \div 2

\* The time of the median: the smallest of the times so far, begun anew after a
\* tick that has none.
OldestTime(ts) ==
    LET tm[i \in 0..Len(ts)] ==
          IF i = 0 THEN NoTime
          ELSE LET before == tm[i - 1] IN
               IF before = NoTime \/ ts[i].time < before THEN ts[i].time ELSE before
    IN  tm[Len(ts)]

\* MedianNode.Tick: the branches that are valid and have the right pair count.
MedianTick(n, ts) ==
    LET used == SelectSeq(ts, LAMBDA t : t.pair = PairOf[n] /\ Valid(t))
        prices == SortSeq([i \in 1..Len(used) |-> used[i].price], LAMBDA x, y : x < y)
    IN  IF Len(used) < MinSources THEN FailedTick(PairOf[n])
        ELSE Tick(PairOf[n], Middle(prices), OldestTime(ts), FALSE)

Deviation(price, reference) ==
    LET d == 100 - (100 * reference) \div price IN IF d < 0 THEN -d ELSE d

TooFar(price, reference) == Deviation(price, reference) > Threshold

\* The calls that Tick of a node makes, in order. The circuit breaker asks its
\* branches for a tick each time it needs one: twice to validate, twice to
\* compare, and once for the tick that it returns.
Plan(n) ==
    LET b == Branches[n] IN
    IF Kind[n] = "breaker" THEN <<b[1], b[2], b[1], b[2], b[1]>> ELSE b

\* The node has all it asks for, or a breaker has a branch that is not valid.
Done(n, ts) ==
    \/ Len(ts) = Len(Plan(n))
    \/ Kind[n] = "breaker" /\ Len(ts) \in {1, 2} /\ ~Valid(ts[Len(ts)])

\* DevCircuitBreakerNode.Tick: the deviation is that of the second price and the
\* second reference, the tick the third of the price branch.
BreakerTick(n, ts) ==
    IF Len(ts) < 5 THEN FailedTick(PairOf[n])
    ELSE [ts[5] EXCEPT !.err = @ \/ TooFar(ts[3].price, ts[4].price)]

\* InvertNode.Tick: the pair of the tick is the inverse of the node's.
InvertTick(n, t) ==
    [t EXCEPT !.pair = <<PairOf[n][2], PairOf[n][1]>>, !.price = Div(Unit, t.price)]

\* A price that is not there is used: an invert node does not look whether its
\* branch has failed, and a circuit breaker not whether the ticks that it compares
\* are still those that it has validated. (Ticks of the instances have a volume.)
UsesNil(n, ts) ==
    \/ Kind[n] = "invert" /\ Len(ts) = 1 /\ ts[1].price = NilPrice
    \/ Kind[n] = "breaker" /\ Len(ts) = 4 /\ NilPrice \in {ts[3].price, ts[4].price}

\* Tick of a node, given what its calls returned.
NodeTick(n, ts) ==
    CASE Kind[n] = "origin" -> LeafTick(n)
      [] Kind[n] = "reference" -> ts[1]
      [] Kind[n] = "invert" -> InvertTick(n, ts[1])
      [] Kind[n] = "indirect" -> IndirectTick(n, ts)
      [] Kind[n] = "median" -> MedianTick(n, ts)
      [] OTHER -> BreakerTick(n, ts)

-----------------------------------------------------------------------------
(* The updater *)

IsFresh(n) == leaf[n].time + Fresh > nextTime

\* Walk: the nodes of a set of graphs.
Walk(roots) ==
    LET seen[i \in 0..Cardinality(Node)] ==
          IF i = 0 THEN roots
          ELSE LET before == seen[i - 1] IN
               before \cup {m \in Node : \E n \in before : m \in ToSet(Branches[n])}
    IN  seen[Cardinality(Node)]

\* What an origin says of a pair: a price that is true or not, and the time of
\* the last trade.
AnswerTick(p, a) == Tick(p, TruePrice(p) * a.factor, nextTime - a.age, FALSE)

PMInit ==
    /\ nextTime = 1 /\ leaf = [n \in OriginNodes |-> FailedTick(PairOf[n])]
    /\ caller = "idle" /\ toUpdate = {} /\ wanted = {} /\ fetching = {} /\ fetched = {}
    /\ interrupted = FALSE /\ left = <<>> /\ stack = <<>> /\ liveThen = {}
    /\ newest = [n \in OriginNodes |-> NoTime] /\ calls = 0

PMAdvance ==
    /\ nextTime < NextMaxTime
    /\ nextTime' = nextTime + 1
    /\ UNCHANGED <<leaf, caller, updateVars, interrupted, evalVars, newest, calls>>

\* The signal that ends the context of the command.
Interrupt ==
    /\ caller = "updating" /\ ~interrupted
    /\ interrupted' = TRUE
    /\ UNCHANGED <<nextTime, leaf, caller, updateVars, evalVars, newest, calls>>

\* Ticks: the stale origin nodes of the models, one goroutine per origin.
CallTicks ==
    /\ caller = "idle" /\ calls < MaxCalls
    /\ toUpdate' = {n \in Walk(Roots) \cap OriginNodes : ~IsFresh(n)}
    /\ wanted' = {OriginOf[n] : n \in toUpdate'}
    /\ caller' = "updating" /\ calls' = calls + 1
    /\ UNCHANGED <<nextTime, leaf, fetching, fetched, interrupted, evalVars, newest>>

\* The limiter lets a goroutine begin.
BeginFetch(o) ==
    /\ o \in wanted /\ Cardinality(fetching) < MaxConcurrent
    /\ wanted' = wanted \ {o} /\ fetching' = fetching \cup {o}
    /\ UNCHANGED <<nextTime, leaf, caller, toUpdate, fetched, interrupted, evalVars, newest, calls>>

WantedPairs(o) == {PairOf[n] : n \in {m \in toUpdate : OriginOf[m] = o}}

\* FetchTicks returns: a tick for some of the pairs. A request that failed or was
\* cancelled gives ticks with an error, which SetTick refuses.
EndFetch(o) ==
    /\ o \in fetching
    /\ \E ps \in SUBSET WantedPairs(o) :
        \E f \in [ps -> {a \in Answers[o] : a.age < nextTime}] :
            fetched' = fetched \cup {<<o, AnswerTick(p, f[p])>> : p \in ps}
    /\ fetching' = fetching \ {o}
    /\ UNCHANGED <<nextTime, leaf, caller, toUpdate, wanted, interrupted, evalVars, newest, calls>>

\* Mutant: a goroutine that panics is not counted as done.
FetchPanicsUncounted(o) ==
    /\ o \in fetching
    /\ fetching' = fetching \ {o} /\ wanted' = wanted \cup {"nobody"}
    /\ UNCHANGED <<nextTime, leaf, caller, toUpdate, fetched, interrupted, evalVars, newest, calls>>

\* FetchTicks panics (a query that gives null, a number of an unexpected
\* type): the ticks of all pairs of the origin are lost.
FetchPanics(o) ==
    /\ o \in fetching
    /\ fetching' = fetching \ {o}
    /\ UNCHANGED <<nextTime, leaf, caller, toUpdate, wanted, fetched, interrupted, evalVars, newest, calls>>

\* OriginNode.SetTick: valid and not older than the one it replaces.
SetTick(n, t) == IF Valid(t) /\ t.time >= leaf[n].time THEN t ELSE leaf[n]

\* What the fetches have for a node.
GotFor(n) == {f[2] : f \in {g \in fetched : n \in toUpdate /\ g[1] = OriginOf[n] /\ g[2].pair = PairOf[n]}}

\* All goroutines are done: the nodes are updated, and the models evaluated.
SetTicks ==
    /\ caller = "updating" /\ wanted = {} /\ fetching = {}
    /\ leaf' = [n \in OriginNodes |->
                  IF GotFor(n) = {} THEN leaf[n] ELSE SetTick(n, CHOOSE t \in GotFor(n) : TRUE)]
    /\ newest' = [n \in OriginNodes |->
                    Max({newest[n]} \cup {t.time : t \in {u \in GotFor(n) : Valid(u)}})]
    /\ caller' = "evaluating" /\ toUpdate' = {} /\ fetched' = {}
    /\ left' = AskedModels
    /\ UNCHANGED <<nextTime, wanted, fetching, interrupted, stack, liveThen, calls>>

Live(n) == leaf[n].time # NoTime /\ leaf[n].time + Expiry >= nextTime

\* Ticks asks the next model for its tick, or has asked all of them.
AskModel ==
    /\ caller = "evaluating" /\ stack = <<>> /\ left # <<>>
    /\ stack' = <<[node |-> Head(left), ts |-> <<>>]>> /\ left' = Tail(left)
    /\ liveThen' = {n \in OriginNodes : Live(n)}
    /\ UNCHANGED <<nextTime, leaf, caller, updateVars, interrupted, newest, calls>>

TicksReturns ==
    /\ caller = "evaluating" /\ stack = <<>> /\ left = <<>>
    /\ caller' = "idle" /\ liveThen' = {}
    /\ UNCHANGED <<nextTime, leaf, updateVars, interrupted, left, stack, newest, calls>>

Top == stack[Len(stack)]

\* A node asks the next of its branches.
CallBranch ==
    /\ stack # <<>> /\ ~Done(Top.node, Top.ts) /\ ~UsesNil(Top.node, Top.ts)
    /\ stack' = Append(stack, [node |-> Plan(Top.node)[Len(Top.ts) + 1], ts |-> <<>>])
    /\ UNCHANGED <<nextTime, leaf, caller, updateVars, interrupted, left, liveThen, newest, calls>>

\* A node returns its tick to the one that asked; a leaf keeps the error that it
\* puts in an expired tick.
TickReturns ==
    /\ stack # <<>> /\ Done(Top.node, Top.ts) /\ ~UsesNil(Top.node, Top.ts)
    /\ leaf' = IF Kind[Top.node] = "origin" THEN [leaf EXCEPT ![Top.node] = LeafTick(Top.node)] ELSE leaf
    /\ LET below == SubSeq(stack, 1, Len(stack) - 1)
       IN  stack' = IF below = <<>> THEN <<>>
                    ELSE [below EXCEPT ![Len(below)].ts = Append(@, NodeTick(Top.node, Top.ts))]
    /\ UNCHANGED <<nextTime, caller, updateVars, interrupted, left, liveThen, newest, calls>>

\* The nil price is dereferenced and nothing recovers.
EvaluatePanics ==
    /\ stack # <<>> /\ UsesNil(Top.node, Top.ts)
    /\ caller' = "panicked" /\ stack' = <<>> /\ left' = <<>> /\ liveThen' = {}
    /\ UNCHANGED <<nextTime, leaf, updateVars, interrupted, newest, calls>>

Evaluate == AskModel \/ CallBranch \/ TickReturns \/ TicksReturns \/ EvaluatePanics

PMNext ==
    \/ PMAdvance \/ CallTicks \/ Interrupt \/ SetTicks \/ Evaluate
    \/ \E o \in Origins : BeginFetch(o) \/ EndFetch(o) \/ FetchPanics(o)

\* The caller and the goroutines are scheduled. A request need not end: the
\* client that the commands give to the origins has no timeout, nor has their
\* context a deadline; but a request returns when the context is done.
PMFairness ==
    /\ WF_pmVars(SetTicks \/ Evaluate)
    /\ \A o \in Origins :
        /\ WF_pmVars(BeginFetch(o))
        /\ WF_pmVars(interrupted /\ EndFetch(o))

PMSpec == PMInit /\ [][PMNext]_pmVars /\ PMFairness

-----------------------------------------------------------------------------
(* Properties *)

Ticks == [pair : Pairs, price : Int, time : 0..NextMaxTime, err : BOOLEAN]

\* Type correctness; the limiter holds.
PMTypeOK ==
    /\ nextTime \in 1..NextMaxTime /\ caller \in {"idle", "updating", "evaluating", "panicked"}
    /\ \A n \in OriginNodes : leaf[n] \in Ticks /\ leaf[n].pair = PairOf[n]
    /\ wanted \cap fetching = {} /\ Cardinality(fetching) <= MaxConcurrent

Honest == \A n \in OriginNodes : leaf[n].price \in {NilPrice, TruePrice(PairOf[n])}

\* The node whose turn it is returns a valid tick.
Served == NodeTick(Top.node, Top.ts)
Serving == stack # <<>> /\ Done(Top.node, Top.ts) /\ ~UsesNil(Top.node, Top.ts) /\ Valid(Served)

\* As long as the origins tell true prices, every valid tick of every node has
\* the true price of the pair of the node: cross rates, inversions and medians
\* neither swap a pair nor a quotient. (The label of an inverted tick is that of
\* its branch, so that a node above which goes by labels gets it wrong.)
TruthfulWhenHonest == Serving /\ Honest => Served.price = TruePrice(PairOf[Top.node])

\* The nodes that may have a valid tick when the leaves of a set are live: below an
\* indirect node, an inverted one and a circuit breaker all branches have to, below
\* a median as many as it asks for.
Backed(leaves) ==
    LET up[n \in 0..Cardinality(Node)] ==
          IF n = 0 THEN {}
          ELSE LET below == up[n - 1]
                   backed == {i \in DOMAIN Branches[n] : Branches[n][i] \in below}
               IN  IF CASE Kind[n] = "origin" -> n \in leaves
                        [] Kind[n] = "median" -> Cardinality(backed) >= MinSources
                        [] OTHER -> backed = DOMAIN Branches[n]
                   THEN below \cup {n} ELSE below
    IN  up[Cardinality(Node)]

\* A valid tick rests on leaves that were live when the model's turn came, however
\* long its evaluation takes and whatever expires in the meantime.
RestsOnLive == Serving => Top.node \in Backed(liveThen)

\* A median is true when more than half of the branches it counts are: one
\* wrong origin of three is outvoted, also when it is the first to answer.
Outvoted ==
    Serving /\ Kind[Top.node] = "median" =>
        LET used == {i \in DOMAIN Top.ts : Valid(Top.ts[i]) /\ Top.ts[i].pair = PairOf[Top.node]}
            right == {i \in used : Top.ts[i].price = TruePrice(PairOf[Top.node])}
        IN  2 * Cardinality(right) > Cardinality(used) => Served.price = TruePrice(PairOf[Top.node])

\* A circuit breaker none of whose leaves expires while it is evaluated lets no
\* price through that is as far from its reference as twice or half of it. (When
\* one does, the tick that is returned need not be the one that was compared.)
BreakerHolds ==
    Serving /\ Kind[Top.node] = "breaker"
            /\ (\A n \in Walk({Top.node}) \cap OriginNodes : n \in liveThen => Live(n)) =>
        LET reference == Top.ts[4].price
        IN  Served.price < 2 * reference /\ reference < 2 * Served.price

\* No answer, late, repeated or out of order, makes a leaf go back in time, and
\* none that is newer is lost.
LeafIsNewest == \A n \in OriginNodes : leaf[n].time = newest[n]

\* An update ends as long as each of its requests does, and the caller goes on to
\* evaluate its models, although origins panic and the limiter is small; it ends in
\* any case after the context is done.
UpdateEnds ==
    (\A o \in Origins : []<>(o \notin fetching \/ interrupted)) => []<>(caller # "updating")

\* What a model serves is sound: true while the origins are, resting on live
\* ticks, right when most of a median are, near its reference, and of the newest
\* ticks; and the limiter holds.
ServedIsSound ==
    /\ PMTypeOK /\ TruthfulWhenHonest /\ RestsOnLive /\ Outvoted /\ BreakerHolds /\ LeafIsNewest
===============================================================================
