------------------------------- MODULE PriceRates -------------------------------
(***************************************************************************)
(* The indirect node of the price provider (IndirectAggregatorNode in      *)
(* pkg/price/provider/graph/nodes): the cross rate of the prices of its    *)
(* children, folded from first to last. Unlike the median it goes on after *)
(* an error, with a price of zero, and reports all errors at the end.      *)
(*                                                                         *)
(* Prices are fractions <<n, d>>, so that no rounding hides which of the   *)
(* four rules was applied. Bids and asks follow the same rules as prices.  *)
(***************************************************************************)
EXTENDS Integers, Sequences

CONSTANTS RateAssets,
          RateWorth,     \* what an asset is worth, for honest prices
          RateTimes,
          NodePairs,     \* pairs the node may be configured with
          MaxChildren

ASSUME RatesAssumption ==
    /\ RateWorth \in [RateAssets -> Nat \ {0}] /\ RateTimes \subseteq Nat
    /\ NodePairs \subseteq RateAssets \X RateAssets /\ MaxChildren \in Nat

VARIABLES expected,  \* the pair of the node
          children,  \* what its children answered: [pair, price, time, err]
          prices,    \* the list crossRate works on
          rateAt,    \* its index, from 1; 0 before crossRate
          errs,      \* the errors so far
          served     \* the price of the node

rateVars == <<expected, children, prices, rateAt, errs, served>>

AssetPairs == {p \in RateAssets \X RateAssets : p[1] # p[2]}
Zero == <<0, 1>>
TrueRate(p) == <<RateWorth[p[1]], RateWorth[p[2]]>>
NotServed == [pair |-> <<"", "">>, price |-> Zero, time |-> 0, err |-> TRUE]

IsPositive(x) == x[1] > 0
SameRate(x, y) == x[1] * y[2] = y[1] * x[2]
Times(x, y) == <<x[1] * y[1], x[2] * y[2]>>
Over(x, y) == <<x[1] * y[2], x[2] * y[1]>>

-----------------------------------------------------------------------------
(* crossRate *)

\* A/C and B/C; C/A and C/B; A/C and C/B; C/A and B/C.
CommonQuote(a, b) ==
    [pair |-> <<a.pair[1], b.pair[1]>>,
     price |-> IF IsPositive(b.price) THEN Over(a.price, b.price) ELSE Zero]
CommonBase(a, b) ==
    [pair |-> <<a.pair[2], b.pair[2]>>,
     price |-> IF IsPositive(a.price) THEN Over(b.price, a.price) ELSE Zero]
Chained(a, b) ==
    [pair |-> <<a.pair[1], b.pair[2]>>, price |-> Times(a.price, b.price)]
ChainedBack(a, b) ==
    [pair |-> <<a.pair[2], b.pair[1]>>,
     price |-> IF IsPositive(a.price) /\ IsPositive(b.price)
               THEN Over(Over(<<1, 1>>, b.price), a.price) ELSE Zero]

HaveCommon(a, b) == \E x, y \in 1..2 : a.pair[x] = b.pair[y]

\* The rules are tried in this order.
Joined(a, b) ==
    CASE a.pair[2] = b.pair[2] -> CommonQuote(a, b)
      [] a.pair[2] # b.pair[2] /\ a.pair[1] = b.pair[1] -> CommonBase(a, b)
      [] a.pair[2] # b.pair[2] /\ a.pair[1] # b.pair[1] /\ a.pair[2] = b.pair[1] -> Chained(a, b)
      [] OTHER -> ChainedBack(a, b)

\* Whether the rule that applies needs a price that is not there.
DividesByZero(a, b) ==
    \/ a.pair[2] = b.pair[2] /\ ~IsPositive(b.price)
    \/ a.pair[2] # b.pair[2] /\ a.pair[1] = b.pair[1] /\ ~IsPositive(a.price)
    \/ /\ a.pair[2] \notin {b.pair[1], b.pair[2]} /\ a.pair[1] = b.pair[2]
       /\ ~(IsPositive(a.price) /\ IsPositive(b.price))

RatesInit ==
    /\ expected \in NodePairs
    /\ children \in UNION {[1..n -> [pair : AssetPairs, time : RateTimes,
                                     state : {"ok", "zero", "failed"}]] : n \in 0..MaxChildren}
    /\ prices = <<>> /\ rateAt = 0 /\ errs = {} /\ served = NotServed

\* Mutant: children with an error are left out, as the median does.
ReadChildrenSkips ==
    /\ rateAt = 0
    /\ prices' = LET ok == SelectSeq(children, LAMBDA c : c.state # "failed")
                 IN  [k \in 1..Len(ok) |->
                        [pair |-> ok[k].pair, time |-> ok[k].time,
                         price |-> IF ok[k].state = "zero" THEN Zero ELSE TrueRate(ok[k].pair)]]
    /\ errs' = {}
    /\ rateAt' = 1
    /\ UNCHANGED <<expected, children, served>>

\* The loop over the children: errors are copied, prices are used all the same.
\* Without children nothing is resolved: served stays an error.
ReadChildren ==
    /\ rateAt = 0
    /\ prices' = [k \in 1..Len(children) |->
                 [pair |-> children[k].pair, time |-> children[k].time,
                  price |-> IF children[k].state = "zero" THEN Zero ELSE TrueRate(children[k].pair)]]
    /\ errs' = IF \E k \in 1..Len(children) : children[k].state = "failed" THEN {"price"} ELSE {}
    /\ rateAt' = 1
    /\ UNCHANGED <<expected, children, served>>

Older(a, b) == IF a < b THEN a ELSE b

\* One round of the loop of crossRate.
CrossStep ==
    /\ rateAt > 0 /\ rateAt < Len(prices)
    /\ HaveCommon(prices[rateAt], prices[rateAt + 1])
    /\ LET j == Joined(prices[rateAt], prices[rateAt + 1]) IN
       prices' = [prices EXCEPT ![rateAt + 1] = [pair |-> j.pair, price |-> j.price,
                                  time |-> Older(prices[rateAt].time, @.time)]]
    /\ errs' = IF DividesByZero(prices[rateAt], prices[rateAt + 1]) THEN errs \cup {"zero"} ELSE errs
    /\ rateAt' = rateAt + 1
    /\ UNCHANGED <<expected, children, served>>

\* The end of Price: the pair that was resolved, and whether it has a price.
Serve(x, es) ==
    /\ served' = [pair |-> x.pair, price |-> x.price, time |-> x.time,
                  err |-> es # {} \/ x.pair # expected \/ ~IsPositive(x.price)]
    /\ errs' = es
    /\ rateAt' = Len(prices) + 1
    /\ UNCHANGED <<expected, children, prices>>

\* crossRate returns what it has when two pairs share nothing.
NoCommonPart ==
    /\ rateAt > 0 /\ rateAt < Len(prices) /\ ~HaveCommon(prices[rateAt], prices[rateAt + 1])
    /\ Serve(prices[rateAt], errs \cup {"common"})

CrossDone == rateAt > 0 /\ rateAt = Len(prices) /\ Serve(prices[rateAt], errs)

RatesNext == ReadChildren \/ CrossStep \/ NoCommonPart \/ CrossDone

RatesSpec == RatesInit /\ [][RatesNext]_rateVars

-----------------------------------------------------------------------------
(* Properties *)

\* Types of the fold; the list is only rewritten behind the index.
RatesTypeOK ==
    /\ rateAt \in 0..MaxChildren + 1
    /\ rateAt > 0 => Len(prices) = Len(children)
    /\ \A k \in 1..Len(prices) : k > rateAt => prices[k].pair = children[k].pair
    /\ errs \subseteq {"price", "zero", "common"}

Usable == rateAt > Len(prices) /\ rateAt > 0 /\ ~served.err

\* A cross rate without an error is the true rate of the pair of the node, by
\* whichever of the four rules its children were joined, when they are honest
\* or have no price.
RateIsTrue == Usable => served.pair = expected /\ SameRate(served.price, TrueRate(expected))

\* It rests on children that all had a price and no error: a price of zero
\* anywhere in the chain is not taken for a rate.
RateNeedsAll == Usable => \A k \in 1..Len(children) : children[k].state = "ok"

\* It is as old as the oldest of them.
RateIsAsOld ==
    Usable => /\ \A k \in 1..Len(children) : served.time <= children[k].time
              /\ \E k \in 1..Len(children) : served.time = children[k].time

\* A rate that is served without an error is the true one, of all children,
\* and as old as the oldest of them, although the fold goes on after an error.
RateIsRight ==
    /\ RatesTypeOK /\ RateIsTrue /\ RateNeedsAll /\ RateIsAsOld
=============================================================================
