---------------------------- MODULE ProviderProofs ----------------------------
(***************************************************************************)
(* Proofs about the price provider, for any assets, pairs, aliases, times, *)
(* origins and workers.                                                    *)
(*                                                                         *)
(* PriceRates: RateIsRight, by the inductive invariant RateInd: the price  *)
(* at the index of crossRate is a true rate or zero, and rests on the      *)
(* children up to it.                                                      *)
(*                                                                         *)
(* OriginHandlers: the handlers of all origins but fx, balancerV2 and      *)
(* curve answer the pairs of a request in their order and with the prices  *)
(* of their markets, whatever the reply.                                   *)
(*                                                                         *)
(* OriginFetch: AnsweredAsAsked, by the inductive invariant FetchInd: the  *)
(* results of a goroutine answer the first of its pairs and its requests   *)
(* ask for the others, and an origin that waits has one request in the     *)
(* pool of workers.                                                        *)
(***************************************************************************)
EXTENDS PriceRates, OriginFetch, TLAPS, SequenceTheorems, FiniteSetTheorems

-----------------------------------------------------------------------------
(* crossRate *)

\* A common factor of two products can be left out.
LEMMA Cancels ==
    ASSUME NEW x \in Nat, NEW y \in Nat, NEW c \in Nat \ {0}, x * c = y * c
    PROVE  x = y
  OBVIOUS

\* Products of naturals.
LEMMA Products ==
    ASSUME NEW x \in Nat, NEW y \in Nat
    PROVE  x * y \in Nat /\ x * y = y * x /\ (x * y > 0 <=> x > 0 /\ y > 0)
  OBVIOUS

\* The arithmetic of the four rules of crossRate, with wa, wb and wc for what the
\* assets are worth: A/C over B/C is A/B,
LEMMA QuoteRule ==
    ASSUME NEW a1 \in Nat, NEW a2 \in Nat, NEW b1 \in Nat, NEW b2 \in Nat,
           NEW wa \in Nat, NEW wb \in Nat, NEW wc \in Nat \ {0},
           a1 * wc = wa * a2, b1 * wc = wb * b2
    PROVE  (a1 * b2) * wb = wa * (a2 * b1)
<1>1. ((a1 * b2) * wb) * wc = (a1 * wc) * (b2 * wb)
  OBVIOUS
<1>2. (wa * (a2 * b1)) * wc = (wa * a2) * (b1 * wc)
  OBVIOUS
<1>3. (a1 * wc) * (b2 * wb) = (wa * a2) * (b1 * wc)
  BY b2 * wb = wb * b2
<1>4. QED
  BY <1>1, <1>2, <1>3, Cancels, (a1 * b2) * wb \in Nat, wa * (a2 * b1) \in Nat

\* C/B over C/A is A/B,
LEMMA BaseRule ==
    ASSUME NEW a1 \in Nat, NEW a2 \in Nat, NEW b1 \in Nat, NEW b2 \in Nat,
           NEW wa \in Nat, NEW wb \in Nat, NEW wc \in Nat \ {0},
           a1 * wa = wc * a2, b1 * wb = wc * b2
    PROVE  (b1 * a2) * wb = wa * (b2 * a1)
<1>1. ((b1 * a2) * wb) * wc = (b1 * wb) * (wc * a2)
  OBVIOUS
<1>2. (wa * (b2 * a1)) * wc = (wc * b2) * (a1 * wa)
  OBVIOUS
<1>3. QED
  BY <1>1, <1>2, Cancels, (b1 * a2) * wb \in Nat, wa * (b2 * a1) \in Nat

\* A/C times C/B is A/B,
LEMMA ChainRule ==
    ASSUME NEW a1 \in Nat, NEW a2 \in Nat, NEW b1 \in Nat, NEW b2 \in Nat,
           NEW wa \in Nat, NEW wb \in Nat, NEW wc \in Nat \ {0},
           a1 * wc = wa * a2, b1 * wb = wc * b2
    PROVE  (a1 * b1) * wb = wa * (a2 * b2)
<1>1. ((a1 * b1) * wb) * wc = (a1 * wc) * (b1 * wb)
  OBVIOUS
<1>2. (wa * (a2 * b2)) * wc = (wa * a2) * (wc * b2)
  OBVIOUS
<1>3. QED
  BY <1>1, <1>2, Cancels, (a1 * b1) * wb \in Nat, wa * (a2 * b2) \in Nat

\* and one over C/A times B/C is A/B.
LEMMA BackRule ==
    ASSUME NEW a1 \in Nat, NEW a2 \in Nat, NEW b1 \in Nat, NEW b2 \in Nat,
           NEW wa \in Nat, NEW wb \in Nat, NEW wc \in Nat \ {0},
           a1 * wa = wc * a2, b1 * wc = wb * b2
    PROVE  (b2 * a2) * wb = wa * (b1 * a1)
<1>1. ((b2 * a2) * wb) * wc = (wb * b2) * (wc * a2)
  OBVIOUS
<1>2. (wa * (b1 * a1)) * wc = (b1 * wc) * (a1 * wa)
  OBVIOUS
<1>3. QED
  BY <1>1, <1>2, Cancels, (b2 * a2) * wb \in Nat, wa * (b1 * a1) \in Nat

\* What a price of the list is: of two assets, a fraction, and the true rate of
\* its pair unless it is zero.
Sound(x) ==
    /\ x.pair \in RateAssets \X RateAssets
    /\ x.price \in Nat \X (Nat \ {0})
    /\ IsPositive(x.price) => SameRate(x.price, TrueRate(x.pair))

\* What a rule gives: a sound price, which is only positive if both prices are.
JoinedRight(a, b, j) ==
    /\ Sound(j)
    /\ IsPositive(j.price) => IsPositive(a.price) /\ IsPositive(b.price)

\* The first rule of crossRate: two prices with one quote.
LEMMA CommonQuoteRight ==
    ASSUME NEW a, NEW b, Sound(a), Sound(b), a.pair[2] = b.pair[2]
    PROVE  JoinedRight(a, b, CommonQuote(a, b))
<1> DEFINE j == CommonQuote(a, b)
<1> SUFFICES JoinedRight(a, b, j)
  OBVIOUS
<1>1. /\ a.pair[1] \in RateAssets /\ a.pair[2] \in RateAssets
      /\ b.pair[1] \in RateAssets /\ b.pair[2] \in RateAssets
      /\ a.price[1] \in Nat /\ a.price[2] \in Nat \ {0}
      /\ b.price[1] \in Nat /\ b.price[2] \in Nat \ {0}
  BY DEF Sound
<1>2. /\ RateWorth[a.pair[1]] \in Nat \ {0} /\ RateWorth[a.pair[2]] \in Nat \ {0}
      /\ RateWorth[b.pair[1]] \in Nat \ {0} /\ RateWorth[b.pair[2]] \in Nat \ {0}
  BY <1>1, RatesAssumption
<1>3. j.pair = <<a.pair[1], b.pair[1]>> /\ j.pair \in RateAssets \X RateAssets
  BY <1>1 DEF CommonQuote
<1>4. CASE ~(IsPositive(b.price))
  <2>1. j.price = <<0, 1>>
    BY <1>4 DEF CommonQuote, Zero
  <2> HIDE DEF j
  <2>2. j.price \in Nat \X (Nat \ {0}) /\ ~IsPositive(j.price)
    BY <2>1 DEF IsPositive
  <2>3. QED
    BY <1>3, <2>2 DEF Sound, JoinedRight
<1>5. CASE IsPositive(b.price)
  <2>1. j.price = <<a.price[1] * b.price[2], a.price[2] * b.price[1]>>
    BY <1>5, <1>1 DEF CommonQuote, Over, Times
  <2>2. b.price[1] \in Nat \ {0}
    BY <1>5, <1>1 DEF IsPositive
  <2>3. /\ a.price[1] * b.price[2] \in Nat /\ a.price[2] * b.price[1] \in Nat \ {0}
        /\ a.price[1] * b.price[2] > 0 => a.price[1] > 0 /\ b.price[1] > 0
    BY <1>1, <2>2, Products
  <2>4. ASSUME IsPositive(a.price), IsPositive(b.price)
        PROVE  SameRate(j.price, TrueRate(j.pair))
    <3>1. /\ a.price[1] * RateWorth[a.pair[2]] = RateWorth[a.pair[1]] * a.price[2]
          /\ b.price[1] * RateWorth[a.pair[2]] = RateWorth[b.pair[1]] * b.price[2]
      BY <2>4 DEF Sound, SameRate, TrueRate
    <3>2. (a.price[1] * b.price[2]) * RateWorth[b.pair[1]] = RateWorth[a.pair[1]] * (a.price[2] * b.price[1])
      <4> DEFINE a1 == a.price[1]  a2 == a.price[2]  b1 == b.price[1]  b2 == b.price[2]
                 wa == RateWorth[a.pair[1]]  wb == RateWorth[b.pair[1]]  wc == RateWorth[a.pair[2]]
      <4>1. /\ a1 \in Nat /\ a2 \in Nat /\ b1 \in Nat /\ b2 \in Nat
            /\ wa \in Nat /\ wb \in Nat /\ wc \in Nat \ {0}
        BY <1>1, <1>2
      <4>2. a1 * wc = wa * a2 /\ b1 * wc = wb * b2
        BY <3>1
      <4> HIDE DEF a1, a2, b1, b2, wa, wb, wc
      <4>3. (a1 * b2) * wb = wa * (a2 * b1)
        BY <4>1, <4>2, QuoteRule
      <4>4. QED
        BY <4>3 DEF a1, a2, b1, b2, wa, wb, wc
    <3>3. QED
      BY <3>2, <2>1, <1>3 DEF SameRate, TrueRate
  <2> HIDE DEF j
  <2>5. j.price \in Nat \X (Nat \ {0}) /\ (IsPositive(j.price) => IsPositive(a.price) /\ IsPositive(b.price))
    BY <2>1, <2>3 DEF IsPositive
  <2>6. QED
    BY <1>3, <2>4, <2>5 DEF Sound, JoinedRight
<1>6. QED
  BY <1>4, <1>5

\* The second rule: two prices with one base.
LEMMA CommonBaseRight ==
    ASSUME NEW a, NEW b, Sound(a), Sound(b), a.pair[1] = b.pair[1]
    PROVE  JoinedRight(a, b, CommonBase(a, b))
<1> DEFINE j == CommonBase(a, b)
<1> SUFFICES JoinedRight(a, b, j)
  OBVIOUS
<1>1. /\ a.pair[1] \in RateAssets /\ a.pair[2] \in RateAssets
      /\ b.pair[1] \in RateAssets /\ b.pair[2] \in RateAssets
      /\ a.price[1] \in Nat /\ a.price[2] \in Nat \ {0}
      /\ b.price[1] \in Nat /\ b.price[2] \in Nat \ {0}
  BY DEF Sound
<1>2. /\ RateWorth[a.pair[1]] \in Nat \ {0} /\ RateWorth[a.pair[2]] \in Nat \ {0}
      /\ RateWorth[b.pair[1]] \in Nat \ {0} /\ RateWorth[b.pair[2]] \in Nat \ {0}
  BY <1>1, RatesAssumption
<1>3. j.pair = <<a.pair[2], b.pair[2]>> /\ j.pair \in RateAssets \X RateAssets
  BY <1>1 DEF CommonBase
<1>4. CASE ~(IsPositive(a.price))
  <2>1. j.price = <<0, 1>>
    BY <1>4 DEF CommonBase, Zero
  <2> HIDE DEF j
  <2>2. j.price \in Nat \X (Nat \ {0}) /\ ~IsPositive(j.price)
    BY <2>1 DEF IsPositive
  <2>3. QED
    BY <1>3, <2>2 DEF Sound, JoinedRight
<1>5. CASE IsPositive(a.price)
  <2>1. j.price = <<b.price[1] * a.price[2], b.price[2] * a.price[1]>>
    BY <1>5, <1>1 DEF CommonBase, Over, Times
  <2>2. a.price[1] \in Nat \ {0}
    BY <1>5, <1>1 DEF IsPositive
  <2>3. /\ b.price[1] * a.price[2] \in Nat /\ b.price[2] * a.price[1] \in Nat \ {0}
        /\ b.price[1] * a.price[2] > 0 => a.price[1] > 0 /\ b.price[1] > 0
    BY <1>1, <2>2, Products
  <2>4. ASSUME IsPositive(a.price), IsPositive(b.price)
        PROVE  SameRate(j.price, TrueRate(j.pair))
    <3>1. /\ a.price[1] * RateWorth[a.pair[2]] = RateWorth[a.pair[1]] * a.price[2]
          /\ b.price[1] * RateWorth[b.pair[2]] = RateWorth[a.pair[1]] * b.price[2]
      BY <2>4 DEF Sound, SameRate, TrueRate
    <3>2. (b.price[1] * a.price[2]) * RateWorth[b.pair[2]] = RateWorth[a.pair[2]] * (b.price[2] * a.price[1])
      <4> DEFINE a1 == a.price[1]  a2 == a.price[2]  b1 == b.price[1]  b2 == b.price[2]
                 wa == RateWorth[a.pair[2]]  wb == RateWorth[b.pair[2]]  wc == RateWorth[a.pair[1]]
      <4>1. /\ a1 \in Nat /\ a2 \in Nat /\ b1 \in Nat /\ b2 \in Nat
            /\ wa \in Nat /\ wb \in Nat /\ wc \in Nat \ {0}
        BY <1>1, <1>2
      <4>2. a1 * wa = wc * a2 /\ b1 * wb = wc * b2
        BY <3>1
      <4> HIDE DEF a1, a2, b1, b2, wa, wb, wc
      <4>3. (b1 * a2) * wb = wa * (b2 * a1)
        BY <4>1, <4>2, BaseRule
      <4>4. QED
        BY <4>3 DEF a1, a2, b1, b2, wa, wb, wc
    <3>3. QED
      BY <3>2, <2>1, <1>3 DEF SameRate, TrueRate
  <2> HIDE DEF j
  <2>5. j.price \in Nat \X (Nat \ {0}) /\ (IsPositive(j.price) => IsPositive(a.price) /\ IsPositive(b.price))
    BY <2>1, <2>3 DEF IsPositive
  <2>6. QED
    BY <1>3, <2>4, <2>5 DEF Sound, JoinedRight
<1>6. QED
  BY <1>4, <1>5

\* The third rule: the quote of the first is the base of the second.
LEMMA ChainedRight ==
    ASSUME NEW a, NEW b, Sound(a), Sound(b), a.pair[2] = b.pair[1]
    PROVE  JoinedRight(a, b, Chained(a, b))
<1> DEFINE j == Chained(a, b)
<1> SUFFICES JoinedRight(a, b, j)
  OBVIOUS
<1>1. /\ a.pair[1] \in RateAssets /\ a.pair[2] \in RateAssets
      /\ b.pair[1] \in RateAssets /\ b.pair[2] \in RateAssets
      /\ a.price[1] \in Nat /\ a.price[2] \in Nat \ {0}
      /\ b.price[1] \in Nat /\ b.price[2] \in Nat \ {0}
  BY DEF Sound
<1>2. /\ RateWorth[a.pair[1]] \in Nat \ {0} /\ RateWorth[a.pair[2]] \in Nat \ {0}
      /\ RateWorth[b.pair[1]] \in Nat \ {0} /\ RateWorth[b.pair[2]] \in Nat \ {0}
  BY <1>1, RatesAssumption
<1>3. j.pair = <<a.pair[1], b.pair[2]>> /\ j.pair \in RateAssets \X RateAssets
  BY <1>1 DEF Chained
<1>5. JoinedRight(a, b, j)
  <2>1. j.price = <<a.price[1] * b.price[1], a.price[2] * b.price[2]>>
    BY <1>1 DEF Chained, Over, Times
  <2>2. b.price[2] \in Nat \ {0}
    BY <1>1 DEF IsPositive
  <2>3. /\ a.price[1] * b.price[1] \in Nat /\ a.price[2] * b.price[2] \in Nat \ {0}
        /\ a.price[1] * b.price[1] > 0 => a.price[1] > 0 /\ b.price[1] > 0
    BY <1>1, <2>2, Products
  <2>4. ASSUME IsPositive(a.price), IsPositive(b.price)
        PROVE  SameRate(j.price, TrueRate(j.pair))
    <3>1. /\ a.price[1] * RateWorth[a.pair[2]] = RateWorth[a.pair[1]] * a.price[2]
          /\ b.price[1] * RateWorth[b.pair[2]] = RateWorth[a.pair[2]] * b.price[2]
      BY <2>4 DEF Sound, SameRate, TrueRate
    <3>2. (a.price[1] * b.price[1]) * RateWorth[b.pair[2]] = RateWorth[a.pair[1]] * (a.price[2] * b.price[2])
      <4> DEFINE a1 == a.price[1]  a2 == a.price[2]  b1 == b.price[1]  b2 == b.price[2]
                 wa == RateWorth[a.pair[1]]  wb == RateWorth[b.pair[2]]  wc == RateWorth[a.pair[2]]
      <4>1. /\ a1 \in Nat /\ a2 \in Nat /\ b1 \in Nat /\ b2 \in Nat
            /\ wa \in Nat /\ wb \in Nat /\ wc \in Nat \ {0}
        BY <1>1, <1>2
      <4>2. a1 * wc = wa * a2 /\ b1 * wb = wc * b2
        BY <3>1
      <4> HIDE DEF a1, a2, b1, b2, wa, wb, wc
      <4>3. (a1 * b1) * wb = wa * (a2 * b2)
        BY <4>1, <4>2, ChainRule
      <4>4. QED
        BY <4>3 DEF a1, a2, b1, b2, wa, wb, wc
    <3>3. QED
      BY <3>2, <2>1, <1>3 DEF SameRate, TrueRate
  <2> HIDE DEF j
  <2>5. j.price \in Nat \X (Nat \ {0}) /\ (IsPositive(j.price) => IsPositive(a.price) /\ IsPositive(b.price))
    BY <2>1, <2>3 DEF IsPositive
  <2>6. QED
    BY <1>3, <2>4, <2>5 DEF Sound, JoinedRight
<1>6. QED
  BY <1>5

\* The fourth rule: the base of the first is the quote of the second.
LEMMA ChainedBackRight ==
    ASSUME NEW a, NEW b, Sound(a), Sound(b), a.pair[1] = b.pair[2]
    PROVE  JoinedRight(a, b, ChainedBack(a, b))
<1> DEFINE j == ChainedBack(a, b)
<1> SUFFICES JoinedRight(a, b, j)
  OBVIOUS
<1>1. /\ a.pair[1] \in RateAssets /\ a.pair[2] \in RateAssets
      /\ b.pair[1] \in RateAssets /\ b.pair[2] \in RateAssets
      /\ a.price[1] \in Nat /\ a.price[2] \in Nat \ {0}
      /\ b.price[1] \in Nat /\ b.price[2] \in Nat \ {0}
  BY DEF Sound
<1>2. /\ RateWorth[a.pair[1]] \in Nat \ {0} /\ RateWorth[a.pair[2]] \in Nat \ {0}
      /\ RateWorth[b.pair[1]] \in Nat \ {0} /\ RateWorth[b.pair[2]] \in Nat \ {0}
  BY <1>1, RatesAssumption
<1>3. j.pair = <<a.pair[2], b.pair[1]>> /\ j.pair \in RateAssets \X RateAssets
  BY <1>1 DEF ChainedBack
<1>4. CASE ~(IsPositive(a.price) /\ IsPositive(b.price))
  <2>1. j.price = <<0, 1>>
    BY <1>4 DEF ChainedBack, Zero
  <2> HIDE DEF j
  <2>2. j.price \in Nat \X (Nat \ {0}) /\ ~IsPositive(j.price)
    BY <2>1 DEF IsPositive
  <2>3. QED
    BY <1>3, <2>2 DEF Sound, JoinedRight
<1>5. CASE IsPositive(a.price) /\ IsPositive(b.price)
  <2>1. j.price = <<b.price[2] * a.price[2], b.price[1] * a.price[1]>>
    BY <1>5, <1>1 DEF ChainedBack, Over, Times
  <2>2. a.price[1] \in Nat \ {0} /\ b.price[1] \in Nat \ {0}
    BY <1>5, <1>1 DEF IsPositive
  <2>3. /\ b.price[2] * a.price[2] \in Nat /\ b.price[1] * a.price[1] \in Nat \ {0}
        /\ b.price[2] * a.price[2] > 0 => a.price[1] > 0 /\ b.price[1] > 0
    BY <1>1, <2>2, Products
  <2>4. ASSUME IsPositive(a.price), IsPositive(b.price)
        PROVE  SameRate(j.price, TrueRate(j.pair))
    <3>1. /\ a.price[1] * RateWorth[a.pair[2]] = RateWorth[a.pair[1]] * a.price[2]
          /\ b.price[1] * RateWorth[a.pair[1]] = RateWorth[b.pair[1]] * b.price[2]
      BY <2>4 DEF Sound, SameRate, TrueRate
    <3>2. (b.price[2] * a.price[2]) * RateWorth[b.pair[1]] = RateWorth[a.pair[2]] * (b.price[1] * a.price[1])
      <4> DEFINE a1 == a.price[1]  a2 == a.price[2]  b1 == b.price[1]  b2 == b.price[2]
                 wa == RateWorth[a.pair[2]]  wb == RateWorth[b.pair[1]]  wc == RateWorth[a.pair[1]]
      <4>1. /\ a1 \in Nat /\ a2 \in Nat /\ b1 \in Nat /\ b2 \in Nat
            /\ wa \in Nat /\ wb \in Nat /\ wc \in Nat \ {0}
        BY <1>1, <1>2
      <4>2. a1 * wa = wc * a2 /\ b1 * wc = wb * b2
        BY <3>1
      <4> HIDE DEF a1, a2, b1, b2, wa, wb, wc
      <4>3. (b2 * a2) * wb = wa * (b1 * a1)
        BY <4>1, <4>2, BackRule
      <4>4. QED
        BY <4>3 DEF a1, a2, b1, b2, wa, wb, wc
    <3>3. QED
      BY <3>2, <2>1, <1>3 DEF SameRate, TrueRate
  <2> HIDE DEF j
  <2>5. j.price \in Nat \X (Nat \ {0}) /\ (IsPositive(j.price) => IsPositive(a.price) /\ IsPositive(b.price))
    BY <2>1, <2>3 DEF IsPositive
  <2>6. QED
    BY <1>3, <2>4, <2>5 DEF Sound, JoinedRight
<1>6. QED
  BY <1>4, <1>5

\* Joined by the first rule that applies: right, and an error if a price that it
\* rests on is zero, or zero itself.
LEMMA JoinedIsRight ==
    ASSUME NEW a, NEW b, Sound(a), Sound(b), HaveCommon(a, b)
    PROVE  JoinedRight(a, b, Joined(a, b))
<1>1. CASE a.pair[2] = b.pair[2]
  BY <1>1, CommonQuoteRight DEF Joined
<1>2. CASE a.pair[2] # b.pair[2] /\ a.pair[1] = b.pair[1]
  BY <1>2, CommonBaseRight DEF Joined
<1>3. CASE a.pair[2] # b.pair[2] /\ a.pair[1] # b.pair[1] /\ a.pair[2] = b.pair[1]
  BY <1>3, ChainedRight DEF Joined
<1>4. CASE a.pair[2] # b.pair[2] /\ a.pair[1] # b.pair[1] /\ a.pair[2] # b.pair[1]
  <2>1. a.pair[1] = b.pair[2]
    BY <1>4 DEF HaveCommon
  <2>2. Joined(a, b) = ChainedBack(a, b)
    BY <1>4 DEF Joined
  <2>3. QED
    BY <2>1, <2>2, ChainedBackRight
<1>5. QED
  BY <1>1, <1>2, <1>3, <1>4

\* The price of a child as it is read.
Read(c) == [pair |-> c.pair, time |-> c.time,
            price |-> IF c.state = "zero" THEN Zero ELSE TrueRate(c.pair)]

Children == [pair : AssetPairs, time : RateTimes, state : {"ok", "zero", "failed"}]

Priced == [pair : RateAssets \X RateAssets, time : Nat, price : Nat \X (Nat \ {0})]

\* Types of the fold before and after the children are read.
RateTypes ==
    /\ expected \in NodePairs
    /\ children \in Seq(Children) /\ Len(children) <= MaxChildren
    /\ errs \subseteq {"price", "zero", "common"}
    /\ rateAt \in 0..Len(children) + 1
    /\ rateAt = 0 => served = NotServed /\ prices = <<>>
    /\ rateAt > 0 => /\ Len(prices) = Len(children)
                     /\ prices \in Seq(Priced)

\* An error of a child is kept, and the list ahead of the index is as it was read.
AheadAsRead ==
    rateAt > 0 =>
        /\ \A k \in 1..Len(children) : children[k].state = "failed" => "price" \in errs
        /\ \A k \in 1..Len(children) : k > rateAt => prices[k] = Read(children[k])

\* The price at the index is the true rate or zero; it rests on children that
\* have a price, if no error says otherwise, and is as old as the oldest of them.
Behind(x, n, es, cs) ==
    /\ Sound(x)
    /\ es = {} /\ IsPositive(x.price) => \A k \in 1..n : cs[k].state = "ok"
    /\ \A k \in 1..n : x.time <= cs[k].time
    /\ \E k \in 1..n : x.time = cs[k].time

FoldedRight == rateAt \in 1..Len(children) => Behind(prices[rateAt], rateAt, errs, children)

\* The inductive invariant of the fold.
RateInd == RateTypes /\ AheadAsRead /\ FoldedRight /\ RateIsTrue /\ RateNeedsAll /\ RateIsAsOld

\* What a child answers is a true rate or zero.
LEMMA ReadIsSound ==
    ASSUME NEW c \in Children
    PROVE  Sound(Read(c)) /\ (IsPositive(Read(c).price) => c.state # "zero")
<1>1. /\ c.pair[1] \in RateAssets /\ c.pair[2] \in RateAssets
      /\ RateWorth[c.pair[1]] \in Nat \ {0} /\ RateWorth[c.pair[2]] \in Nat \ {0}
  BY RatesAssumption DEF Children, AssetPairs
<1>2. c.pair \in RateAssets \X RateAssets
  BY DEF Children, AssetPairs
<1>3. CASE c.state = "zero"
  BY <1>2, <1>3 DEF Read, Sound, Zero, IsPositive
<1>4. CASE c.state # "zero"
  <2>1. Read(c).price = <<RateWorth[c.pair[1]], RateWorth[c.pair[2]]>> /\ Read(c).pair = c.pair
    BY <1>4 DEF Read, TrueRate
  <2>2. Read(c).price \in Nat \X (Nat \ {0})
    BY <2>1, <1>1
  <2>3. SameRate(Read(c).price, TrueRate(Read(c).pair))
    BY <2>1, <1>1, Products DEF SameRate, TrueRate
  <2>4. QED
    BY <1>2, <1>4, <2>1, <2>2, <2>3 DEF Sound
<1>5. QED
  BY <1>3, <1>4

\* The inductive invariant holds before the children are read,
LEMMA RatesInitInd == RatesInit => RateInd
<1> SUFFICES ASSUME RatesInit
             PROVE  RateInd
  OBVIOUS
<1>1. PICK n \in 0..MaxChildren : children \in [1..n -> Children]
  BY DEF RatesInit, Children
<1>2. children \in Seq(Children) /\ Len(children) = n /\ n <= MaxChildren
  BY <1>1, RatesAssumption
<1>3. QED
  BY <1>2 DEF RatesInit, RateInd, RateTypes, AheadAsRead, FoldedRight, RateIsTrue, RateNeedsAll,
              RateIsAsOld, Usable

\* when they have been read,
LEMMA ReadChildrenKeeps ==
    ASSUME RateInd, ReadChildren
    PROVE  RateInd'
<1>1. /\ rateAt' = 1 /\ children' = children /\ expected' = expected /\ served' = served
      /\ served = NotServed
      /\ children \in Seq(Children) /\ Len(children) \in Nat /\ Len(children) <= MaxChildren
      /\ expected \in NodePairs
  BY DEF RateInd, RateTypes, ReadChildren
<1>2. \A k \in 1..Len(children) : children[k] \in Children
  BY <1>1
<1>3. prices' = [k \in 1..Len(children) |-> Read(children[k])]
  BY DEF ReadChildren, Read
<1>4. errs' \subseteq {"price", "zero", "common"}
      /\ \A k \in 1..Len(children) : children[k].state = "failed" => errs' = {"price"}
  BY DEF ReadChildren
<1>5. ASSUME NEW k \in 1..Len(children)
      PROVE  Read(children[k]) \in Priced
  <2>1. Sound(Read(children[k])) /\ children[k].time \in Nat
    BY <1>2, ReadIsSound, RatesAssumption DEF Children
  <2>2. QED
    BY <2>1 DEF Sound, Read, Priced
<1>6. /\ prices' \in Seq(Priced)
      /\ Len(prices') = Len(children)
  BY <1>1, <1>3, <1>5
<1>7. RateTypes'
  BY <1>1, <1>4, <1>6 DEF RateTypes
<1>8. AheadAsRead'
  BY <1>1, <1>3, <1>4 DEF AheadAsRead
<1>9. FoldedRight'
  <2>1. SUFFICES ASSUME 1 \in 1..Len(children)
                 PROVE  Behind(prices'[1], 1, errs', children')
    BY <1>1 DEF FoldedRight
  <2>2. /\ prices'[1] = Read(children[1]) /\ children[1] \in Children
        /\ children[1].time \in Nat
    BY <1>2, <1>3, <2>1, RatesAssumption DEF Children
  <2>3. prices'[1].time = children[1].time
    BY <2>2 DEF Read
  <2>4. errs' = {} /\ IsPositive(prices'[1].price) => children[1].state = "ok"
    BY <1>4, <2>1, <2>2, ReadIsSound DEF Children
  <2>5. Sound(prices'[1])
    BY <2>2, ReadIsSound
  <2>6. QED
    BY <1>1, <2>2, <2>3, <2>4, <2>5 DEF Behind, Sound
<1>10. served'.err
  BY <1>1 DEF NotServed
<1>11. QED
  BY <1>7, <1>8, <1>9, <1>10 DEF RateInd, RateIsTrue, RateNeedsAll, RateIsAsOld, Usable

\* after each step of the loop of crossRate,
LEMMA CrossStepKeeps ==
    ASSUME RateInd, CrossStep
    PROVE  RateInd'
<1> DEFINE n == rateAt  a == prices[n]  b == prices[n + 1]  j == Joined(a, b)
           c == children[n + 1]
<1>1. RateTypes /\ AheadAsRead /\ FoldedRight
  BY DEF RateInd
<1>2. /\ rateAt' = n + 1 /\ n = rateAt /\ children' = children /\ expected' = expected /\ served' = served
      /\ children \in Seq(Children) /\ Len(children) \in Nat /\ Len(children) <= MaxChildren
      /\ expected \in NodePairs
      /\ n \in 1..Len(children) /\ n + 1 \in 1..Len(children) /\ Len(prices) = Len(children)
      /\ prices \in Seq(Priced)
      /\ errs \subseteq {"price", "zero", "common"}
  <2>1. /\ rateAt' = n + 1 /\ n = rateAt /\ children' = children /\ expected' = expected /\ served' = served
        /\ rateAt > 0 /\ rateAt < Len(prices)
    BY DEF CrossStep
  <2>2. children \in Seq(Children) /\ rateAt \in Nat /\ Len(prices) = Len(children)
    BY <2>1, <1>1 DEF RateTypes
  <2>3. Len(children) \in Nat
    BY <2>2
  <2>4. n \in 1..Len(children) /\ n + 1 \in 1..Len(children)
    BY <2>1, <2>2, <2>3
  <2>5. QED
    BY <2>1, <2>2, <2>3, <2>4, <1>1 DEF RateTypes
<1>3. c \in Children /\ a \in Priced
  BY <1>2
<1>4. b = Read(c) /\ (c.state = "failed" => "price" \in errs)
  <2>1. n + 1 > rateAt /\ rateAt > 0
    BY <1>2
  <2>2. QED
    BY <2>1, <1>1, <1>2 DEF AheadAsRead
<1>5. Behind(a, n, errs, children) /\ HaveCommon(a, b)
  BY <1>1, <1>2 DEF FoldedRight, CrossStep
<1> DEFINE x == [pair |-> j.pair, price |-> j.price, time |-> Older(a.time, b.time)]
<1>6. prices' = [prices EXCEPT ![n + 1] = x]
  BY DEF CrossStep
<1>7. errs \subseteq errs' /\ errs' \subseteq {"price", "zero", "common"}
  BY <1>2 DEF CrossStep
<1> HIDE DEF n, a, b, c
<1>8. c.time \in Nat /\ a.time \in Nat /\ b.time = c.time
  BY <1>3, <1>4, RatesAssumption DEF Children, Read, Priced
<1>9. Sound(a) /\ Sound(b) /\ (IsPositive(b.price) => c.state # "zero")
  BY <1>3, <1>4, <1>5, ReadIsSound DEF Behind
<1>10. Sound(j) /\ (IsPositive(j.price) => IsPositive(a.price) /\ IsPositive(b.price))
  BY <1>5, <1>9, JoinedIsRight DEF JoinedRight
<1> HIDE DEF j
<1>11. x.time <= a.time /\ x.time <= c.time /\ x.time \in {a.time, c.time} /\ x.time \in Nat
  BY <1>8 DEF Older
<1>12. /\ x \in Priced
       /\ Sound(x) /\ x.price = j.price
  BY <1>10, <1>11 DEF Sound, Priced
<1> HIDE DEF x
<1>13. RateTypes'
  <2>1. /\ prices' \in Seq(Priced)
        /\ Len(prices') = Len(children)
    BY <1>2, <1>6, <1>12
  <2>2. QED
    BY <1>2, <1>7, <2>1 DEF RateTypes
<1>14. AheadAsRead'
  <2>1. ASSUME NEW k \in 1..Len(children), children[k].state = "failed"
        PROVE  "price" \in errs'
    BY <2>1, <1>1, <1>2, <1>7 DEF AheadAsRead
  <2>2. ASSUME NEW k \in 1..Len(children), k > n + 1
        PROVE  prices'[k] = Read(children[k])
    <3>1. prices'[k] = prices[k] /\ k > rateAt /\ rateAt > 0
      BY <2>2, <1>2, <1>6
    <3>2. QED
      BY <3>1, <1>1 DEF AheadAsRead
  <2>3. QED
    BY <2>1, <2>2, <1>2 DEF AheadAsRead, Read
<1>15. FoldedRight'
  <2>1. prices'[n + 1] = x
    BY <1>2, <1>6
  <2>2. ASSUME errs' = {}, IsPositive(x.price), NEW k \in 1..n + 1
        PROVE  children[k].state = "ok"
    <3>1. errs = {} /\ IsPositive(a.price) /\ IsPositive(b.price)
      BY <1>7, <1>10, <1>12, <2>2
    <3>2. CASE k \in 1..n
      BY <3>1, <3>2, <1>5 DEF Behind
    <3>3. CASE k = n + 1
      BY <3>1, <3>3, <1>3, <1>4, <1>9 DEF Children, c
    <3>4. QED
      BY <1>2, <3>2, <3>3
  <2>3. \A k \in 1..n : children[k].time \in Nat
    <3>1. \A k \in 1..n : children[k] \in Children
      BY <1>2
    <3>2. QED
      BY <3>1, RatesAssumption DEF Children
  <2>4. \A k \in 1..n : a.time <= children[k].time
    BY <1>5 DEF Behind
  <2>5. PICK i \in 1..n : a.time = children[i].time
    BY <1>5 DEF Behind
  <2>6. \A k \in 1..n + 1 : x.time <= children[k].time
    <3>1. \A k \in 1..n : x.time <= children[k].time
      BY <2>3, <2>4, <1>8, <1>11
    <3>2. x.time <= children[n + 1].time
      BY <1>11 DEF c
    <3>3. QED
      BY <3>1, <3>2, <1>2
  <2>7. \E k \in 1..n + 1 : x.time = children[k].time
    <3>1. CASE x.time = a.time
      <4>1. i \in 1..n + 1
        BY <1>2
      <4>2. QED
        BY <3>1, <2>5, <4>1
    <3>2. CASE x.time = c.time
      <4>1. n + 1 \in 1..n + 1
        BY <1>2
      <4>2. QED
        BY <3>2, <4>1 DEF c
    <3>3. QED
      BY <3>1, <3>2, <1>11
  <2>8. Behind(x, n + 1, errs', children)
    BY <1>12, <2>2, <2>6, <2>7 DEF Behind
  <2>9. QED
    BY <1>2, <2>1, <2>8 DEF FoldedRight
<1>16. ~Usable'
  BY <1>2, <1>13 DEF Usable, RateTypes
<1>17. QED
  BY <1>13, <1>14, <1>15, <1>16 DEF RateInd, RateIsTrue, RateNeedsAll, RateIsAsOld

\* The end: what is served has the facts of the price at the index.
LEMMA ServeKeeps ==
    ASSUME RateInd, NoCommonPart \/ CrossDone
    PROVE  RateInd'
<1> DEFINE x == prices[rateAt]
<1>1. PICK es : /\ Serve(x, es) /\ errs \subseteq es /\ es \subseteq {"price", "zero", "common"}
                /\ es = {} => rateAt = Len(prices)
  <2>1. CASE NoCommonPart
    BY <2>1 DEF NoCommonPart, RateInd, RateTypes
  <2>2. CASE CrossDone
    BY <2>2 DEF CrossDone, RateInd, RateTypes
  <2>3. QED
    BY <2>1, <2>2
<1>2. /\ rateAt \in 1..Len(children) /\ Len(prices) = Len(children) /\ Len(children) \in Nat
      /\ RateTypes /\ AheadAsRead /\ FoldedRight
  <2>1. rateAt > 0 /\ rateAt <= Len(prices) /\ RateTypes /\ AheadAsRead /\ FoldedRight
    <3>1. RateTypes /\ AheadAsRead /\ FoldedRight /\ rateAt > 0
      BY DEF RateInd, NoCommonPart, CrossDone
    <3>2. rateAt \in Nat /\ Len(prices) \in Nat
      BY <3>1 DEF RateTypes
    <3>3. QED
      BY <3>1, <3>2 DEF NoCommonPart, CrossDone
  <2>2. children \in Seq(Children) /\ Len(prices) = Len(children) /\ rateAt \in Nat
    BY <2>1 DEF RateTypes
  <2>3. Len(children) \in Nat
    BY <2>2
  <2>4. QED
    BY <2>1, <2>2, <2>3
<1>3. Behind(x, rateAt, errs, children)
  BY <1>2 DEF FoldedRight
<1> HIDE DEF x
<1>4. /\ rateAt' = Len(children) + 1 /\ errs' = es
      /\ expected' = expected /\ children' = children /\ prices' = prices
  BY <1>1, <1>2 DEF Serve
<1>5. /\ served'.pair = x.pair /\ served'.price = x.price /\ served'.time = x.time
      /\ ~served'.err => es = {} /\ x.pair = expected /\ IsPositive(x.price)
  BY <1>1 DEF Serve
<1>6. RateTypes'
  <2>1. Len(children) + 1 \in 0..Len(children) + 1 /\ Len(children) + 1 # 0
    BY <1>2
  <2>2. QED
    BY <1>1, <1>2, <1>4, <2>1 DEF RateTypes
<1>7. AheadAsRead'
  <2>1. "price" \in errs => "price" \in errs'
    BY <1>1, <1>4
  <2>2. \A k \in 1..Len(children) : ~(k > Len(children) + 1)
    BY <1>2
  <2>3. QED
    BY <1>2, <1>4, <2>1, <2>2 DEF AheadAsRead, Read
<1>8. FoldedRight'
  BY <1>2, <1>4 DEF FoldedRight
<1>9. ASSUME Usable'
      PROVE  /\ rateAt = Len(children) /\ errs = {} /\ IsPositive(x.price) /\ x.pair = expected
             /\ served'.pair = x.pair /\ served'.price = x.price /\ served'.time = x.time
  <2>1. ~served'.err
    BY <1>9 DEF Usable
  <2>2. es = {} /\ x.pair = expected /\ IsPositive(x.price)
    BY <1>5, <2>1
  <2>3. errs = {} /\ rateAt = Len(children)
    BY <1>1, <1>2, <2>2
  <2>4. QED
    BY <1>5, <2>2, <2>3
<1>10. (RateIsTrue /\ RateNeedsAll /\ RateIsAsOld)'
  <2> SUFFICES ASSUME Usable'
               PROVE  /\ served'.pair = expected' /\ SameRate(served'.price, TrueRate(expected'))
                      /\ \A k \in 1..Len(children) : children[k].state = "ok"
                      /\ \A k \in 1..Len(children) : served'.time <= children[k].time
                      /\ \E k \in 1..Len(children) : served'.time = children[k].time
    BY <1>4 DEF RateIsTrue, RateNeedsAll, RateIsAsOld, TrueRate
  <2>1. QED
    BY <1>4, <1>3, <1>9 DEF Behind, Sound
<1>11. QED
  BY <1>6, <1>7, <1>8, <1>10 DEF RateInd

\* A cross rate that is served without an error is the true rate of the pair of
\* the node, rests on all of its children, and is as old as the oldest of them:
\* for any number of children, any assets and any worth of them.
THEOREM RatesAreRight == RatesSpec => []RateIsRight
<1>1. RatesInit => RateInd
  BY RatesInitInd
<1>2. RateInd /\ [RatesNext]_rateVars => RateInd'
  <2> SUFFICES ASSUME RateInd, [RatesNext]_rateVars
               PROVE  RateInd'
    OBVIOUS
  <2>1. CASE UNCHANGED rateVars
    BY <2>1 DEF rateVars, RateInd, RateTypes, AheadAsRead, FoldedRight, RateIsTrue, RateNeedsAll,
                RateIsAsOld, Usable
  <2>2. QED
    BY <2>1, ReadChildrenKeeps, CrossStepKeeps, ServeKeeps DEF RatesNext
<1>3. RateInd => RateIsRight
  <2> SUFFICES ASSUME RateInd
               PROVE  RatesTypeOK
    BY DEF RateInd, RateIsRight
  <2>1. ASSUME rateAt > 0, NEW k \in 1..Len(prices), k > rateAt
        PROVE  prices[k].pair = children[k].pair
    <3>1. k \in 1..Len(children) /\ AheadAsRead
      BY <2>1 DEF RateInd, RateTypes
    <3>2. prices[k] = Read(children[k])
      BY <3>1, <2>1 DEF AheadAsRead
    <3>3. QED
      BY <3>2 DEF Read
  <2>2. rateAt = 0 => \A k \in 1..Len(prices) : k > rateAt => prices[k].pair = children[k].pair
    BY DEF RateInd, RateTypes
  <2>3. rateAt \in 0..MaxChildren + 1
    BY RatesAssumption DEF RateInd, RateTypes
  <2>4. QED
    BY <2>1, <2>2, <2>3 DEF RatesTypeOK, RateInd, RateTypes
<1>4. QED
  BY <1>1, <1>2, <1>3, PTL DEF RatesSpec

-----------------------------------------------------------------------------
(* The handlers *)

IsSeq(s) == s \in Seq(ToSet(s))

\* LabelledRight for a result with the names of the handler.
Labelled(k, y) ==
    /\ y = [pair |-> y.pair, ok |-> y.ok, of |-> y.of]
    /\ y.ok /\ y.of # ZeroPrice =>
        \/ y.of = Market(y.pair)
        \/ k \in JoiningOrigins /\ y.of = Symbol(Market(y.pair))
        \/ k \in QuoteBlind /\ y.of = <<y.pair.base, "USD">>
        \/ k = "bitfinex" /\ y.pair.quote = "USDT" /\ y.of = Symbol(<<y.pair.base, "USD">>)
        \/ k = "poloniex" /\ y.of = PoloniexName(y.pair)

\* A result that answers a pair.
Fits(k, p, y, good) == y.pair = p /\ Labelled(k, y) /\ (good => y.ok)

\* A list of results that answers a list of pairs.
Matches(k, ps, list, good) ==
    /\ IsSeq(list)
    /\ \A i \in 1..Len(list) : list[i].pair \in ToSet(ps) /\ Labelled(k, list[i])
    /\ k # "ishares" => Len(list) = Len(ps) /\ \A i \in 1..Len(list) : list[i].pair = ps[i]
    /\ good => \A i \in 1..Len(list) : list[i].ok

\* A function over 1..n is a sequence of its values.
LEMMA ListsAreSeqs ==
    ASSUME NEW n \in Nat, NEW f, f = [i \in 1..n |-> f[i]]
    PROVE  IsSeq(f) /\ Len(f) = n /\ DOMAIN f = 1..n
<1>1. DOMAIN f = 1..n
  OBVIOUS
<1>2. f \in [1..n -> ToSet(f)]
  BY <1>1 DEF ToSet
<1>3. QED
  BY <1>1, <1>2 DEF IsSeq

\* What is used of a sequence.
LEMMA SeqFacts ==
    ASSUME NEW s, IsSeq(s)
    PROVE  /\ Len(s) \in Nat /\ DOMAIN s = 1..Len(s) /\ s = [i \in 1..Len(s) |-> s[i]]
           /\ ToSet(s) = {s[i] : i \in 1..Len(s)}
  BY DEF IsSeq, ToSet

\* A list whose results answer the pairs one by one answers the list of pairs.
LEMMA FitsMatches ==
    ASSUME NEW k, NEW ps, NEW list, NEW good, IsSeq(ps),
           list = [i \in 1..Len(ps) |-> list[i]],
           \A i \in 1..Len(ps) : Fits(k, ps[i], list[i], good)
    PROVE  Matches(k, ps, list, good)
<1>1. Len(ps) \in Nat /\ \A i \in 1..Len(ps) : ps[i] \in ToSet(ps)
  BY SeqFacts
<1>2. IsSeq(list) /\ Len(list) = Len(ps)
  BY <1>1, ListsAreSeqs
<1>3. QED
  BY <1>1, <1>2 DEF Fits, Matches

\* fetchResultListWithErrors answers each pair.
LEMMA ErrorsMatch ==
    ASSUME NEW k, NEW ps, IsSeq(ps)
    PROVE  Matches(k, ps, Errors(ps), FALSE)
<1>1. Errors(ps) = [i \in 1..Len(ps) |-> Errors(ps)[i]]
      /\ \A i \in 1..Len(ps) : Errors(ps)[i] = Error(ps[i])
  BY DEF Errors
<1>2. \A p : Fits(k, p, Error(p), FALSE)
  BY DEF Fits, Error, Labelled
<1>3. \A i \in 1..Len(ps) : Fits(k, ps[i], Errors(ps)[i], FALSE)
  BY <1>1, <1>2
<1>4. QED
  BY <1>1, <1>3, FitsMatches

\* An entry is an error, the price of its market, or zero.
LEMMA EntryIs ==
    ASSUME NEW p, NEW r, NEW m, NEW strict \in BOOLEAN
    PROVE  /\ \/ Entry(p, r, m, strict) = Error(p)
              \/ Entry(p, r, m, strict) = Price(p, m) /\ m \in DOMAIN r.entries
              \/ Entry(p, r, m, strict) = Price(p, ZeroPrice)
           /\ m \in DOMAIN r.entries /\ r.entries[m] = "good" => Entry(p, r, m, strict) = Price(p, m)
  BY DEF Entry

\* A name by which a handler looks a pair up in a reply.
Names(k, p) ==
    {Market(p)} \cup (IF k \in JoiningOrigins THEN {SymbolName(p)} ELSE {})
    \cup (IF k \in QuoteBlind THEN {GsuName(p)} ELSE {})
    \cup (IF k = "bitfinex" THEN {BitfinexName(p)} ELSE {})
    \cup (IF k = "poloniex" THEN {PoloniexName(p)} ELSE {})

\* A price under a name of the pair answers the pair.
LEMMA PriceFits ==
    ASSUME NEW k, NEW p, NEW m \in Names(k, p), NEW good
    PROVE  Fits(k, p, Price(p, m), good)
<1>1. Price(p, m).pair = p /\ Price(p, m).of = m /\ Price(p, m).ok
  BY DEF Price
<1>2. m = Market(p) \/ (k \in JoiningOrigins /\ m = SymbolName(p))
      \/ (k \in QuoteBlind /\ m = GsuName(p)) \/ (k = "bitfinex" /\ m = BitfinexName(p))
      \/ (k = "poloniex" /\ m = PoloniexName(p))
  BY DEF Names
<1>3. m = Market(p) \/ (k \in JoiningOrigins /\ m = Symbol(Market(p)))
      \/ (k \in QuoteBlind /\ m = <<p.base, "USD">>)
      \/ (k = "bitfinex" /\ p.quote = "USDT" /\ m = Symbol(<<p.base, "USD">>))
      \/ (k = "poloniex" /\ m = PoloniexName(p))
  BY <1>2 DEF SymbolName, GsuName, BitfinexName, JoiningOrigins
<1> DEFINE y == Price(p, m)
<1>4. y = [pair |-> y.pair, ok |-> y.ok, of |-> y.of]
  BY DEF Price
<1>5. y.pair = p /\ y.of = m /\ y.ok
  BY <1>1
<1> HIDE DEF y
<1>6. Fits(k, p, y, good)
  BY <1>3, <1>4, <1>5 DEF Fits, Labelled
<1>7. QED
  BY <1>6 DEF y

\* So does an error, and a price of zero.
LEMMA OthersFit ==
    ASSUME NEW k, NEW p
    PROVE  Fits(k, p, Error(p), FALSE) /\ Fits(k, p, Price(p, ZeroPrice), TRUE)
  BY DEF Fits, Error, Price, Labelled

\* The entry of a reply that a handler looks up answers the pair,
LEMMA EntryFits ==
    ASSUME NEW k, NEW p, NEW r, NEW m, NEW strict \in BOOLEAN, NEW good \in BOOLEAN,
           m \in DOMAIN r.entries => m \in Names(k, p),
           good => m \in DOMAIN r.entries /\ r.entries[m] = "good"
    PROVE  Fits(k, p, Entry(p, r, m, strict), good)
<1>1. CASE Entry(p, r, m, strict) = Error(p) /\ ~good
  BY <1>1, OthersFit DEF Fits
<1>2. CASE Entry(p, r, m, strict) = Price(p, m) /\ m \in DOMAIN r.entries
  BY <1>2, PriceFits
<1>3. CASE Entry(p, r, m, strict) = Price(p, ZeroPrice)
  BY <1>3, OthersFit DEF Fits
<1>4. QED
  BY <1>1, <1>2, <1>3, EntryIs

\* and the entries answer the list of pairs.
LEMMA EntriesMatch ==
    ASSUME NEW k, NEW ps, NEW r, NEW nm, NEW strict \in BOOLEAN, NEW good \in BOOLEAN, IsSeq(ps),
           \A i \in 1..Len(ps) : nm[i] \in DOMAIN r.entries => nm[i] \in Names(k, ps[i]),
           good => \A i \in 1..Len(ps) : nm[i] \in DOMAIN r.entries /\ r.entries[nm[i]] = "good"
    PROVE  Matches(k, ps, [i \in 1..Len(ps) |-> Entry(ps[i], r, nm[i], strict)], good)
<1> DEFINE list == [i \in 1..Len(ps) |-> Entry(ps[i], r, nm[i], strict)]
<1>1. ASSUME NEW i \in 1..Len(ps)
      PROVE  Fits(k, ps[i], list[i], good)
  BY EntryFits
<1>2. list = [i \in 1..Len(ps) |-> list[i]]
  OBVIOUS
<1> HIDE DEF list
<1>3. Matches(k, ps, list, good)
  BY <1>1, <1>2, FitsMatches
<1>4. QED
  BY <1>3 DEF list

\* What a handler may make of a reply: it panics, or it answers the pairs.
Answers(k, ps, x, good) ==
    \/ x = Panic /\ ~good
    \/ \E list : x = Result(list) /\ Matches(k, ps, list, good)

\* Every price that is asked for is in the reply, and the handler can use it.
Served(k, ps, r) ==
    /\ Complete(k, ps, r) /\ k \notin PostOrigins /\ k # "coinmarketcap"
    /\ k = "loopring" => Cardinality(Markets(k, ps)) >= Len(ps)

\* A complete reply can be parsed and has no entry that is broken.
LEMMA CompleteIsTyped ==
    ASSUME NEW k, NEW ps, NEW r, Complete(k, ps, r)
    PROVE  Typed(r) /\ Bad(r) = {} /\ ~Lost(r) /\ ~r.refused
  BY DEF Complete, Typed, Bad

\* The name of a pair, joined or not.
LocalName(k, p) == IF k \in JoiningOrigins THEN SymbolName(p) ELSE Market(p)

MarketList(k, ps, r, strict) == [i \in 1..Len(ps) |-> Entry(ps[i], r, LocalName(k, ps[i]), strict)]

ByMarket == Kinds \ (PostOrigins \cup {"gsu", "gsu1", "gsu2", "bitfinex", "poloniex", "coinmarketcap"})

\* The names of the entries a reply may have.
LEMMA MarketsOf ==
    ASSUME NEW k \in Kinds, NEW ps
    PROVE  /\ k \in ByMarket \cup {"coinmarketcap"} =>
                Markets(k, ps) = {LocalName(k, ps[i]) : i \in 1..Len(ps)}
           /\ k \in {"gsu", "gsu1", "gsu2"} => Markets(k, ps) = {GsuName(ps[i]) : i \in 1..Len(ps)}
           /\ k = "bitfinex" => Markets(k, ps) = {BitfinexName(ps[i]) : i \in 1..Len(ps)}
           /\ k = "poloniex" => Markets(k, ps) = {PoloniexName(ps[i]) : i \in 1..Len(ps)}
<1>1. k \notin PostOrigins \ {"balancer"} => Markets(k, ps) = {ListedAs(k, ps[i]) : i \in 1..Len(ps)}
  BY DEF Markets
<1>2. k \in {"gsu", "gsu1", "gsu2"} => \A p : ListedAs(k, p) = GsuName(p)
  BY DEF ListedAs, JoiningOrigins
<1>3. k = "bitfinex" => \A p : ListedAs(k, p) = BitfinexName(p)
  BY DEF ListedAs, JoiningOrigins
<1>4. k = "poloniex" => \A p : ListedAs(k, p) = PoloniexName(p)
  BY DEF ListedAs, JoiningOrigins
<1>5. k \in ByMarket \cup {"coinmarketcap"} => \A p : ListedAs(k, p) = LocalName(k, p)
  <2>1. CASE k \in JoiningOrigins
    BY <2>1 DEF ListedAs, JoiningOrigins, LocalName, ByMarket
  <2>2. CASE k \notin JoiningOrigins
    BY <2>2 DEF ListedAs, LocalName, ByMarket, PostOrigins
  <2>3. QED
    BY <2>1, <2>2
<1>6. k \in ByMarket \cup {"coinmarketcap", "gsu", "gsu1", "gsu2", "bitfinex", "poloniex"} => k \notin PostOrigins
  BY DEF ByMarket, PostOrigins
<1>7. QED
  BY <1>1, <1>2, <1>3, <1>4, <1>5, <1>6

\* A handler that looks pairs up by their market answers them.
LEMMA MarketListAnswers ==
    ASSUME NEW k \in ByMarket, NEW ps, NEW r, NEW strict \in BOOLEAN, IsSeq(ps)
    PROVE  Answers(k, ps, Result(MarketList(k, ps, r, strict)), Served(k, ps, r))
<1> DEFINE nm == [i \in 1..Len(ps) |-> LocalName(k, ps[i])]
<1>1. \A i \in 1..Len(ps) : nm[i] \in Names(k, ps[i])
  BY DEF Names, LocalName
<1>2. Complete(k, ps, r) => \A i \in 1..Len(ps) : nm[i] \in DOMAIN r.entries /\ r.entries[nm[i]] = "good"
  BY MarketsOf DEF Complete, ByMarket
<1>3. MarketList(k, ps, r, strict) = [i \in 1..Len(ps) |-> Entry(ps[i], r, nm[i], strict)]
  BY DEF MarketList
<1>4. Served(k, ps, r) \in BOOLEAN /\ (Served(k, ps, r) => Complete(k, ps, r))
  BY DEF Served
<1> HIDE DEF nm
<1>5. Matches(k, ps, [i \in 1..Len(ps) |-> Entry(ps[i], r, nm[i], strict)], Served(k, ps, r))
  BY <1>1, <1>2, <1>4, EntriesMatch
<1>6. QED
  BY <1>3, <1>5 DEF Answers

\* A handler that gives up answers the pairs, if the reply was not complete.
LEMMA ErrorsAnswer ==
    ASSUME NEW k, NEW ps, NEW r, IsSeq(ps), ~Served(k, ps, r)
    PROVE  Answers(k, ps, Result(Errors(ps)), Served(k, ps, r))
  BY ErrorsMatch DEF Answers, Matches

\* There are no more markets than pairs.
LEMMA MarketsCounted ==
    ASSUME NEW ps, Len(ps) \in Nat
    PROVE  LET S == {Market(ps[i]) : i \in 1..Len(ps)}
           IN  Cardinality(S) \in Nat /\ Cardinality(S) <= Len(ps)
<1> DEFINE S == {Market(ps[i]) : i \in 1..Len(ps)}
           f == [i \in 1..Len(ps) |-> Market(ps[i])]
<1>1. f \in Surjection(1..Len(ps), S)
  BY DEF Surjection
<1>2. IsFiniteSet(1..Len(ps)) /\ Cardinality(1..Len(ps)) = Len(ps)
  BY FS_Interval
<1>3. QED
  BY <1>1, <1>2, FS_Surjection, FS_CardinalityType

\* Those that look a pair up by its market.
LEMMA BatchByMarket ==
    ASSUME NEW k \in {"binance", "cryptocompare", "ddex", "folgory", "gateio", "hitbtc", "huobi",
                      "kraken", "loopring", "okex", "upbit"},
           NEW ps, NEW r, IsSeq(ps)
    PROVE  Answers(k, ps, PullPrices(k, ps, r), Served(k, ps, r))
<1> DEFINE x == PullPrices(k, ps, r)
<1>1. k \in ByMarket /\ Len(ps) \in Nat
  BY SeqFacts DEF ByMarket, PostOrigins, Kinds, BatchOrigins
<1>2. \/ \E strict \in BOOLEAN : x = Result(MarketList(k, ps, r, strict))
      \/ x = Result(Errors(ps)) /\ ~Served(k, ps, r)
      \/ x = Panic /\ ~Served(k, ps, r)
  <2>1. CASE k = "gateio"
    <3>1. x = IF ~Lost(r) /\ DOMAIN r.entries # {} THEN Result(MarketList(k, ps, r, TRUE)) ELSE Result(Errors(ps))
      BY <2>1 DEF PullPrices, Gateio, ByName, MarketList, LocalName, JoiningOrigins
    <3>2. CASE Len(ps) = 0
      <4>1. Errors(ps) = MarketList(k, ps, r, TRUE)
        BY <3>2 DEF Errors, MarketList
      <4>2. QED
        BY <3>1, <4>1
    <3>3. CASE Len(ps) # 0
      <4>1. 1 \in 1..Len(ps)
        BY <3>3, <1>1
      <4>2. Complete(k, ps, r) => ~Lost(r) /\ DOMAIN r.entries # {}
        BY <4>1, <1>1, MarketsOf DEF Complete, ByMarket
      <4>3. QED
        BY <3>1, <4>2 DEF Served
    <3>4. QED
      BY <3>2, <3>3
  <2>2. CASE k = "kraken"
    <3>1. x = IF ~Lost(r) /\ \E m \in DOMAIN r.entries : r.entries[m] = "short" THEN Panic
              ELSE IF Typed(r) THEN Result(MarketList(k, ps, r, FALSE)) ELSE Result(Errors(ps))
      BY <2>2 DEF PullPrices, Kraken, ByName, MarketList, LocalName, JoiningOrigins
    <3>2. Complete(k, ps, r) => Typed(r) /\ ~\E m \in DOMAIN r.entries : r.entries[m] = "short"
      BY CompleteIsTyped DEF Complete
    <3>3. QED
      BY <3>1, <3>2 DEF Served
  <2>3. CASE k = "loopring"
    <3>1. x = IF Lost(r) \/ Cardinality(DOMAIN r.entries) # Len(ps) THEN Result(Errors(ps))
              ELSE IF \E i \in 1..Len(ps) : Market(ps[i]) \in DOMAIN r.entries
                                            /\ r.entries[Market(ps[i])] = "short"
              THEN Panic ELSE Result(MarketList(k, ps, r, TRUE))
      BY <2>3 DEF PullPrices, Loopring, ByName, MarketList, LocalName, JoiningOrigins
    <3>2. Complete(k, ps, r) => ~\E i \in 1..Len(ps) : Market(ps[i]) \in DOMAIN r.entries
                                            /\ r.entries[Market(ps[i])] = "short"
      BY DEF Complete
    <3>3. Served(k, ps, r) => ~Lost(r) /\ Cardinality(DOMAIN r.entries) = Len(ps)
      <4>1. Markets(k, ps) = {Market(ps[i]) : i \in 1..Len(ps)}
        BY <1>1, <2>3, MarketsOf DEF ByMarket, LocalName, JoiningOrigins
      <4>2. Cardinality(Markets(k, ps)) <= Len(ps) /\ Cardinality(Markets(k, ps)) \in Nat
        BY <1>1, <4>1, MarketsCounted
      <4>3. QED
        BY <2>3, <4>2, <1>1 DEF Served, Complete
    <3>4. QED
      BY <3>1, <3>2, <3>3 DEF Served
  <2>4. CASE k \notin {"gateio", "kraken", "loopring"}
    <3>1. \E strict \in BOOLEAN :
             \/ x = Result(MarketList(k, ps, r, strict))
             \/ x = Result(Errors(ps)) /\ (~Typed(r) \/ r.refused)
      <4> USE DEF PullPrices, ByName, MarketList, LocalName, JoiningOrigins
      <4>1. CASE k = "binance"
        BY <4>1 DEF Binance
      <4>2. CASE k = "cryptocompare"
        BY <4>2 DEF CryptoCompare
      <4>3. CASE k = "ddex"
        BY <4>3 DEF Ddex
      <4>4. CASE k = "folgory"
        BY <4>4 DEF Folgory
      <4>5. CASE k = "hitbtc"
        BY <4>5 DEF Hitbtc, Typed
      <4>6. CASE k = "huobi"
        BY <4>6 DEF Huobi
      <4>7. CASE k = "okex"
        BY <4>7 DEF Okex
      <4>8. CASE k = "upbit"
        BY <4>8 DEF Upbit
      <4>9. QED
        BY <2>4, <4>1, <4>2, <4>3, <4>4, <4>5, <4>6, <4>7, <4>8
    <3>2. QED
      BY <3>1, CompleteIsTyped DEF Served
  <2>5. QED
    BY <2>1, <2>2, <2>3, <2>4
<1>3. QED
  <2> HIDE DEF x
  <2>1. CASE x = Panic /\ ~Served(k, ps, r)
    BY <2>1 DEF Answers, x
  <2>2. QED
    BY <1>1, <1>2, <2>1, MarketListAnswers, ErrorsAnswer DEF x

\* Bitfinex looks pairs up by a name of its own, USD for USDT.
LEMMA BitfinexAnswers ==
    ASSUME NEW ps, NEW r, IsSeq(ps)
    PROVE  Answers("bitfinex", ps, PullPrices("bitfinex", ps, r), Served("bitfinex", ps, r))
<1> DEFINE k == "bitfinex"
           nm == [i \in 1..Len(ps) |-> BitfinexName(ps[i])]
           list == [i \in 1..Len(ps) |-> Entry(ps[i], r, nm[i], TRUE)]
<1>1. \A i \in 1..Len(ps) : nm[i] \in Names(k, ps[i])
  BY DEF Names
<1>2. Served(k, ps, r) => \A i \in 1..Len(ps) : nm[i] \in DOMAIN r.entries /\ r.entries[nm[i]] = "good"
  BY MarketsOf DEF Served, Complete, Kinds, BatchOrigins
<1>3. PullPrices(k, ps, r) = IF ~Lost(r) THEN Result(list) ELSE Result(Errors(ps))
  BY DEF PullPrices, Bitfinex, ByName
<1>4. Served(k, ps, r) \in BOOLEAN /\ (Lost(r) => ~Served(k, ps, r))
  BY DEF Served, Complete
<1>5. Matches(k, ps, list, Served(k, ps, r))
  <2> HIDE DEF nm, k
  <2>1. QED
    BY <1>1, <1>2, <1>4, EntriesMatch
<1>6. CASE Lost(r)
  BY <1>3, <1>4, <1>6, ErrorsAnswer
<1>7. CASE ~Lost(r)
  BY <1>3, <1>5, <1>7 DEF Answers
<1>8. QED
  BY <1>6, <1>7

\* An entry is only found by the number of one of the three markets, which is
\* never given for another market.
LEMMA CoinMarketCapAnswers ==
    ASSUME NEW ps, NEW r, IsSeq(ps), DOMAIN r.entries \subseteq Markets("coinmarketcap", ps)
    PROVE  Answers("coinmarketcap", ps, PullPrices("coinmarketcap", ps, r),
                   Served("coinmarketcap", ps, r))
<1> DEFINE k == "coinmarketcap"
           nm == [i \in 1..Len(ps) |-> CmcName(ps[i])]
           list == [i \in 1..Len(ps) |-> Entry(ps[i], r, nm[i], FALSE)]
<1>1. \A i \in 1..Len(ps) : nm[i] \in DOMAIN r.entries => nm[i] \in Names(k, ps[i])
  <2> SUFFICES ASSUME NEW i \in 1..Len(ps), nm[i] \in DOMAIN r.entries
               PROVE  nm[i] = Market(ps[i])
    BY DEF Names
  <2>0. k \in Kinds /\ \A p : LocalName(k, p) = <<p.base, p.quote>>
    BY DEF Kinds, BatchOrigins, Market, LocalName, JoiningOrigins
  <2>1. nm[i] \in {<<ps[j].base, ps[j].quote>> : j \in 1..Len(ps)}
    <3> HIDE DEF nm
    <3>1. Markets(k, ps) = {LocalName(k, ps[j]) : j \in 1..Len(ps)}
      BY <2>0, MarketsOf
    <3>2. {LocalName(k, ps[j]) : j \in 1..Len(ps)} = {<<ps[j].base, ps[j].quote>> : j \in 1..Len(ps)}
      BY <2>0
    <3>3. QED
      BY <3>1, <3>2
  <2>2. \A a, b : <<"unknown">> # <<a, b>>
    OBVIOUS
  <2>3. CmcName(ps[i]) # <<"unknown">>
    BY <2>1, <2>2
  <2>4. QED
    BY <2>3 DEF CmcName
<1>2. PullPrices(k, ps, r) = IF Typed(r) /\ ~r.refused THEN Result(list) ELSE Result(Errors(ps))
  BY DEF PullPrices, CoinMarketCap, ByName
<1>3. ~Served(k, ps, r)
  BY DEF Served
<1>4. Matches(k, ps, list, FALSE)
  <2> HIDE DEF nm, k
  <2>1. QED
    BY <1>1, EntriesMatch
<1>5. CASE Typed(r) /\ ~r.refused
  BY <1>2, <1>3, <1>4, <1>5 DEF Answers, Matches
<1>6. CASE ~(Typed(r) /\ ~r.refused)
  BY <1>2, <1>3, <1>6, ErrorsAnswer
<1>7. QED
  BY <1>5, <1>6

\* Poloniex looks pairs up by a name of its own, REPV2 for REP.
LEMMA PoloniexAnswers ==
    ASSUME NEW ps, NEW r, IsSeq(ps)
    PROVE  Answers("poloniex", ps, PullPrices("poloniex", ps, r), Served("poloniex", ps, r))
<1> DEFINE k == "poloniex"
           good == Served(k, ps, r)
           list == [i \in 1..Len(ps) |->
                      LET m == PoloniexName(ps[i]) IN
                      IF m \in DOMAIN r.entries /\ r.entries[m] = "good" THEN Price(ps[i], m) ELSE Error(ps[i])]
<1>1. PullPrices(k, ps, r) = IF ~Typed(r) THEN Result(Errors(ps)) ELSE Result(list)
  BY DEF PullPrices, Poloniex
<1>2. good => \A i \in 1..Len(ps) : PoloniexName(ps[i]) \in DOMAIN r.entries
                                  /\ r.entries[PoloniexName(ps[i])] = "good"
  BY MarketsOf DEF Served, Complete, Kinds, BatchOrigins
<1>3. good => Typed(r)
  BY CompleteIsTyped DEF Served
<1>4. ASSUME NEW i \in 1..Len(ps)
      PROVE  Fits(k, ps[i], list[i], good)
  <2> DEFINE m == PoloniexName(ps[i])
  <2>1. CASE m \in DOMAIN r.entries /\ r.entries[m] = "good"
    <3>1. list[i] = Price(ps[i], m) /\ m \in Names(k, ps[i])
      BY <2>1 DEF Names
    <3> HIDE DEF m, k, good, list
    <3>2. QED
      BY <3>1, PriceFits
  <2>2. CASE ~(m \in DOMAIN r.entries /\ r.entries[m] = "good")
    <3>1. list[i] = Error(ps[i]) /\ ~good
      BY <2>2, <1>2
    <3> HIDE DEF m, k, good, list
    <3>2. QED
      BY <3>1, OthersFit DEF Fits
  <2>3. QED
    BY <2>1, <2>2
<1>5. list = [i \in 1..Len(ps) |-> list[i]]
  OBVIOUS
<1>6. CASE Typed(r)
  <2>1. PullPrices(k, ps, r) = Result(list)
    BY <1>1, <1>6
  <2> HIDE DEF k, good, list
  <2>2. Matches(k, ps, list, good)
    BY <1>4, <1>5, FitsMatches
  <2>3. Answers(k, ps, PullPrices(k, ps, r), good)
    BY <2>1, <2>2 DEF Answers
  <2>4. QED
    BY <2>3 DEF k, good
<1>7. CASE ~Typed(r)
  BY <1>1, <1>3, <1>7, ErrorsAnswer
<1>8. QED
  BY <1>6, <1>7

IsResult(y, p) == y.pair = p /\ y = [pair |-> y.pair, ok |-> y.ok, of |-> y.of]

\* The price of a pool, in whichever direction it is served, answers the pair.
LEMMA PoolPriceFits ==
    ASSUME NEW k, NEW p, NEW r
    PROVE  Fits(k, p, PoolPrice(p, r), FALSE)
<1> DEFINE m == Market(p)  turned == Entry(p, r, Turned(m), FALSE)
<1>1. m \in Names(k, p)
  BY DEF Names
<1>2. CASE m \in DOMAIN r.entries
  <2>1. PoolPrice(p, r) = Entry(p, r, m, FALSE)
    BY <1>2 DEF PoolPrice
  <2> HIDE DEF m
  <2>2. Fits(k, p, Entry(p, r, m, FALSE), FALSE)
    BY <1>1, EntryFits
  <2>3. QED
    BY <2>1, <2>2
<1>3. CASE m \notin DOMAIN r.entries
  <2>1. PoolPrice(p, r) = IF turned.ok /\ turned.of # ZeroPrice THEN Price(p, m) ELSE turned
    BY <1>3 DEF PoolPrice
  <2>2. IsResult(turned, p)
    <3>1. \A n : IsResult(Error(p), p) /\ IsResult(Price(p, n), p)
      BY DEF Price, Error, IsResult
    <3>2. QED
      BY <3>1, EntryIs
  <2> HIDE DEF m, turned
  <2>3. CASE turned.ok /\ turned.of # ZeroPrice
    BY <1>1, <2>1, <2>3, PriceFits
  <2>4. CASE ~(turned.ok /\ turned.of # ZeroPrice)
    BY <2>1, <2>2, <2>4 DEF Fits, Labelled, IsResult
  <2>5. QED
    BY <2>3, <2>4
<1>4. QED
  BY <1>2, <1>3

\* Uniswap asks for all its pools in one request.
LEMMA UniswapAnswers ==
    ASSUME NEW ps, NEW r, IsSeq(ps)
    PROVE  Answers("uniswap", ps, PullPrices("uniswap", ps, r), Served("uniswap", ps, r))
<1> DEFINE k == "uniswap"
           list == [i \in 1..Len(ps) |-> PoolPrice(ps[i], r)]
<1>1. PullPrices(k, ps, r) = IF ~Typed(r) THEN Result(Errors(ps)) ELSE Result(list)
  BY DEF PullPrices, Uniswap
<1>2. ~Served(k, ps, r)
  BY DEF Served, PostOrigins
<1>3. \A i \in 1..Len(ps) : Fits(k, ps[i], list[i], FALSE)
  BY PoolPriceFits
<1>4. list = [i \in 1..Len(ps) |-> list[i]]
  OBVIOUS
<1>5. Matches(k, ps, list, FALSE)
  <2> HIDE DEF list
  <2>1. QED
    BY <1>3, <1>4, FitsMatches
<1>6. CASE Typed(r)
  BY <1>1, <1>2, <1>5, <1>6 DEF Answers, Matches
<1>7. CASE ~Typed(r)
  BY <1>1, <1>2, <1>7, ErrorsAnswer
<1>8. QED
  BY <1>6, <1>7

\* A list of one result for a list of one pair.
LEMMA OneAnswers ==
    ASSUME NEW k, NEW p, NEW y, NEW r, Fits(k, p, y, Served(k, <<p>>, r))
    PROVE  Answers(k, <<p>>, Result(<<y>>), Served(k, <<p>>, r))
<1> DEFINE ps == <<p>>  list == <<y>>
<1>1. IsSeq(ps) /\ Len(ps) = 1 /\ ps[1] = p
  BY DEF IsSeq, ToSet
<1>2. list = [i \in 1..Len(ps) |-> list[i]] /\ list[1] = y
  BY <1>1
<1> HIDE DEF ps, list
<1>3. \A i \in 1..Len(ps) : Fits(k, ps[i], list[i], Served(k, <<p>>, r))
  BY <1>1, <1>2
<1>4. Matches(k, ps, list, Served(k, <<p>>, r))
  BY <1>1, <1>2, <1>3, FitsMatches
<1>5. QED
  BY <1>4 DEF Answers, ps, list

\* A complete reply to a request for one pair has the entry of its market alone.
LEMMA OneMarket ==
    ASSUME NEW k \in Kinds, NEW p, NEW r, Served(k, <<p>>, r)
    PROVE  /\ Typed(r) /\ ~Lost(r) /\ Bad(r) = {} /\ ~r.refused
           /\ k \in ByMarket => /\ LocalName(k, p) \in DOMAIN r.entries
                                /\ r.entries[LocalName(k, p)] = "good"
                                /\ Cardinality(DOMAIN r.entries) = 1
           /\ k \in {"gsu", "gsu1", "gsu2"} => GsuName(p) \in DOMAIN r.entries /\ r.entries[GsuName(p)] = "good"
<1> DEFINE ps == <<p>>
<1>1. Complete(k, ps, r)
  BY DEF Served
<1>2. Len(ps) = 1 /\ ps[1] = p
  OBVIOUS
<1>3. k \in ByMarket => Markets(k, ps) = {LocalName(k, p)}
  <2>1. {LocalName(k, ps[i]) : i \in 1..Len(ps)} = {LocalName(k, p)}
    BY <1>2
  <2>2. QED
    BY <2>1, MarketsOf
<1>4. k \in {"gsu", "gsu1", "gsu2"} => Markets(k, ps) = {GsuName(p)}
  <2>1. {GsuName(ps[i]) : i \in 1..Len(ps)} = {GsuName(p)}
    BY <1>2
  <2>2. QED
    BY <2>1, MarketsOf
<1> HIDE DEF ps
<1>5. Typed(r) /\ ~Lost(r) /\ Bad(r) = {} /\ ~r.refused
  BY <1>1, CompleteIsTyped
<1>6. k \in ByMarket => Cardinality(DOMAIN r.entries) = 1
  BY <1>1, <1>3, FS_Singleton DEF Complete
<1>7. QED
  BY <1>1, <1>3, <1>4, <1>5, <1>6 DEF Complete

\* Those that take the only entry for the pair.
LEMMA SingleByMarket ==
    ASSUME NEW k \in {"bitstamp", "bithumb", "bittrex", "coinbasepro", "gemini", "kucoin", "okx",
                      "openexchangerates"},
           NEW p, NEW r
    PROVE  Answers(k, <<p>>, PullPrices(k, <<p>>, r), Served(k, <<p>>, r))
<1> DEFINE x == PullPrices(k, <<p>>, r)
           good == Served(k, <<p>>, r)
<1>1. k \in ByMarket /\ k \in Kinds
  BY DEF ByMarket, PostOrigins, Kinds, SingleOrigins
<1>2. \/ \E strict \in BOOLEAN : x = Result(<<Entry(p, r, LocalName(k, p), strict)>>)
      \/ x = Result(<<Error(p)>>) /\ ~good
  <2>1. \E strict \in BOOLEAN :
             \/ x = Result(<<Entry(p, r, LocalName(k, p), strict)>>)
             \/ x = Result(<<Error(p)>>) /\ (~Typed(r) \/ r.refused \/ Cardinality(DOMAIN r.entries) # 1)
    <3>0. <<p>>[1] = p
      OBVIOUS
    <3> USE <3>0 DEF PullPrices, Single, LocalName, JoiningOrigins
    <3>1. CASE k = "bitstamp"
      BY <3>1 DEF Bitstamp, Typed
    <3>2. CASE k = "bithumb"
      BY <3>2 DEF BitThump
    <3>3. CASE k = "bittrex"
      BY <3>3 DEF Bittrex
    <3>4. CASE k = "coinbasepro"
      BY <3>4 DEF CoinbasePro, Typed
    <3>5. CASE k = "gemini"
      BY <3>5 DEF Gemini, Typed
    <3>6. CASE k = "kucoin"
      BY <3>6 DEF Kucoin, Typed
    <3>7. CASE k = "okx"
      BY <3>7 DEF Okx
    <3>8. CASE k = "openexchangerates"
      BY <3>8 DEF OpenExchangeRates
    <3>9. QED
      BY <3>1, <3>2, <3>3, <3>4, <3>5, <3>6, <3>7, <3>8
  <2>2. good => Typed(r) /\ ~r.refused /\ Cardinality(DOMAIN r.entries) = 1
    BY <1>1, OneMarket
  <2> HIDE DEF x, good
  <2>3. QED
    BY <2>1, <2>2
<1>3. good \in BOOLEAN /\ (good => LocalName(k, p) \in DOMAIN r.entries /\ r.entries[LocalName(k, p)] = "good")
  BY <1>1, OneMarket DEF Served
<1>4. LocalName(k, p) \in Names(k, p)
  BY DEF Names, LocalName
<1>5. ASSUME NEW strict \in BOOLEAN
      PROVE  Fits(k, p, Entry(p, r, LocalName(k, p), strict), good)
  <2> HIDE DEF good
  <2>1. QED
    BY <1>3, <1>4, EntryFits
<1>6. ~good => Fits(k, p, Error(p), good)
  BY OthersFit DEF Fits
<1>7. QED
  BY <1>2, <1>5, <1>6, OneAnswers

\* The GSU origins look up the base in USD.
LEMMA GsuAnswers ==
    ASSUME NEW k \in {"gsu", "gsu1", "gsu2"}, NEW p, NEW r
    PROVE  Answers(k, <<p>>, PullPrices(k, <<p>>, r), Served(k, <<p>>, r))
<1>1. PullPrices(k, <<p>>, r) = Result(<<Entry(p, r, GsuName(p), TRUE)>>)
  <2>1. <<p>>[1] = p
    OBVIOUS
  <2>2. QED
    BY <2>1 DEF PullPrices, GSU, GSU1, GSU2
<1>2. k \in Kinds /\ GsuName(p) \in Names(k, p)
  BY DEF Kinds, SingleOrigins, Names, QuoteBlind
<1> DEFINE good == Served(k, <<p>>, r)
<1>3. good \in BOOLEAN /\ (good => GsuName(p) \in DOMAIN r.entries /\ r.entries[GsuName(p)] = "good")
  BY <1>2, OneMarket DEF Served
<1>4. Fits(k, p, Entry(p, r, GsuName(p), TRUE), good)
  <2> HIDE DEF good
  <2>1. QED
    BY <1>2, <1>3, EntryFits
<1>5. QED
  BY <1>1, <1>4, OneAnswers

\* IShares answers with the pair that it finds, or with none.
LEMMA ISharesAnswers ==
    ASSUME NEW p, NEW r
    PROVE  Answers("ishares", <<p>>, PullPrices("ishares", <<p>>, r), Served("ishares", <<p>>, r))
<1> DEFINE k == "ishares"  good == Served(k, <<p>>, r)
<1>1. PullPrices(k, <<p>>, r) = Result(IF SymbolName(p) \in DOMAIN r.entries /\ r.entries[SymbolName(p)] = "good"
                                      THEN <<Price(p, SymbolName(p))>> ELSE <<>>)
  <2>1. <<p>>[1] = p
    OBVIOUS
  <2>2. QED
    BY <2>1 DEF PullPrices, IShares
<1>2. Fits(k, p, Price(p, SymbolName(p)), good)
  <2>1. SymbolName(p) \in Names(k, p)
    BY DEF Names, JoiningOrigins
  <2>2. QED
    BY <2>1, PriceFits
<1>3. Matches(k, <<p>>, <<>>, good)
  BY DEF Matches, IsSeq, ToSet
<1>4. QED
  BY <1>1, <1>2, <1>3, OneAnswers DEF Answers

\* Pools and calls of contracts.
LEMMA ContractAnswers ==
    ASSUME NEW k \in {"uniswapV3", "sushiswap", "balancer", "rocketpool", "wsteth"}, NEW p, NEW r,
           DOMAIN r.entries \subseteq Markets(k, <<p>>)
    PROVE  Answers(k, <<p>>, PullPrices(k, <<p>>, r), Served(k, <<p>>, r))
<1> DEFINE x == PullPrices(k, <<p>>, r)  good == Served(k, <<p>>, r)
<1>0. <<p>>[1] = p
  OBVIOUS
<1>1. CASE k \in {"uniswapV3", "sushiswap"}
  <2>1. ~good
    BY <1>1 DEF Served, PostOrigins
  <2>2. x = Result(<<IF Typed(r) THEN PoolPrice(p, r) ELSE Error(p)>>)
    BY <1>0, <1>1 DEF PullPrices, UniswapV3, Sushiswap
  <2>3. Fits(k, p, PoolPrice(p, r), good) /\ Fits(k, p, Error(p), good)
    BY <2>1, PoolPriceFits, OthersFit DEF Fits
  <2>4. QED
    BY <2>2, <2>3, OneAnswers
<1>2. CASE k = "balancer"
  <2>1. ~good
    BY <1>2 DEF Served, PostOrigins
  <2> DEFINE first == CHOOSE m \in DOMAIN r.entries : TRUE
             y == IF first[1] # p.base THEN Error(p) ELSE Entry(p, r, first, FALSE)
  <2>2. x = IF ~Typed(r) THEN Result(<<Error(p)>>) ELSE IF DOMAIN r.entries = {} THEN Panic
            ELSE Result(<<y>>)
    BY <1>0, <1>2 DEF PullPrices, Balancer
  <2>3. Fits(k, p, Error(p), good)
    BY <2>1, OthersFit DEF Fits
  <2>4. ASSUME DOMAIN r.entries # {} PROVE Fits(k, p, y, good)
    <3>1. first \in DOMAIN r.entries
      BY <2>4
    <3>2. Markets(k, <<p>>) = {TokenName(p)}
      <4>1. {ListedAs(k, <<p>>[i]) : i \in 1..Len(<<p>>)} = {ListedAs(k, p)}
        OBVIOUS
      <4>2. ListedAs(k, p) = TokenName(p)
        BY <1>2 DEF ListedAs, JoiningOrigins
      <4>3. QED
        BY <1>2, <4>1, <4>2 DEF Markets
    <3>3. first = <<first[1], "USD">>
      BY <3>1, <3>2 DEF TokenName
    <3>4. CASE first[1] # p.base
      BY <2>3, <3>4
    <3>5. CASE first[1] = p.base
      <4>0. first = GsuName(p)
        <5> HIDE DEF first
        <5>1. QED
          BY <3>3, <3>5 DEF GsuName
      <4>1. first \in Names(k, p)
        <5> HIDE DEF first
        <5>1. QED
          BY <1>2, <4>0 DEF Names, QuoteBlind
      <4> HIDE DEF first
      <4>2. Fits(k, p, Entry(p, r, first, FALSE), FALSE)
        BY <4>1, EntryFits
      <4>3. QED
        BY <2>1, <3>5, <4>2 DEF Fits
    <3>6. QED
      BY <3>4, <3>5
  <2> HIDE DEF y
  <2>6. Answers(k, <<p>>, Panic, good)
    BY <2>1 DEF Answers
  <2>7. QED
    BY <2>2, <2>3, <2>4, <2>6, OneAnswers
<1>3. CASE k \in {"rocketpool", "wsteth"}
  <2>0. Rate(ByPair(p)) = Market(p)
    BY DEF Rate, ByPair, Turned, Market
  <2>1. x = Result(<<IF ~Lost(r) /\ Bad(r) = {} THEN Price(p, Market(p)) ELSE Error(p)>>)
    BY <1>0, <1>3, <2>0 DEF PullPrices, RocketPool, WrappedStakedETH, CallOneContract
  <2>2. good => ~Lost(r) /\ Bad(r) = {}
    BY CompleteIsTyped DEF Served
  <2>3. Market(p) \in Names(k, p)
    BY DEF Names
  <2>4. Fits(k, p, Price(p, Market(p)), good)
    BY <2>3, PriceFits
  <2>5. ~good => Fits(k, p, Error(p), good)
    BY OthersFit DEF Fits
  <2>6. QED
    BY <2>1, <2>2, <2>4, <2>5, OneAnswers
<1>4. QED
  BY <1>1, <1>2, <1>3

\* The kinds whose answers the provers can follow: not fx, which groups its pairs
\* by their base, and not balancerV2 and curve, which sort them.
Followed == Kinds \ {"fx", "balancerV2", "curve"}

\* Whatever an origin says to a request for pairs, the handler panics or answers
\* these pairs, in order, with the prices of their markets, and with one for each
\* of them if the reply has it.
THEOREM HandlersAnswer ==
    ASSUME NEW k \in Followed \ {"unknown"}, NEW ps, NEW r, IsSeq(ps),
           k \in SingleOrigins => Len(ps) = 1,
           DOMAIN r.entries \subseteq Markets(k, ps)
    PROVE  Answers(k, ps, PullPrices(k, ps, r), Served(k, ps, r))
<1>1. CASE k \in BatchOrigins
  BY <1>1, BatchByMarket, BitfinexAnswers, CoinMarketCapAnswers, PoloniexAnswers, UniswapAnswers
  DEF BatchOrigins, Followed
<1>2. CASE k \in SingleOrigins
  <2>1. ps = <<ps[1]>>
    BY <1>2, SeqFacts
  <2> DEFINE p == ps[1]
  <2>2. ps = <<p>>
    BY <2>1
  <2> HIDE DEF p
  <2>2a. DOMAIN r.entries \subseteq Markets(k, <<p>>)
    BY <2>2
  <2>3. Answers(k, <<p>>, PullPrices(k, <<p>>, r), Served(k, <<p>>, r))
    BY <1>2, <2>2a, SingleByMarket, GsuAnswers, ISharesAnswers, ContractAnswers DEF SingleOrigins
  <2>4. QED
    BY <2>2, <2>3
<1>3. QED
  BY <1>1, <1>2 DEF Followed, Kinds

-----------------------------------------------------------------------------
(* The goroutine of one origin *)

Renamed(w) == [i \in 1..Len(w) |-> replacePair(w[i])]

\* What is left to ask for when d of the pairs are answered.
Rest(k, ps, gs, d) ==
    IF k \in BatchOrigins
    THEN \/ d = 0 /\ gs = <<ps>>
         \/ d = Len(ps) /\ gs = <<>>
    ELSE gs = [j \in 1..(Len(ps) - d) |-> <<ps[d + j]>>]

\* What is promised of all replies is kept when less is promised.
LEMMA WeakerMatches ==
    ASSUME NEW k, NEW ps, NEW list, NEW good, NEW weaker, Matches(k, ps, list, good), weaker => good
    PROVE  Matches(k, ps, list, weaker)
  BY DEF Matches

\* The concatenation of sequences.
LEMMA ConcatSeqs ==
    ASSUME NEW s, NEW t, IsSeq(s), IsSeq(t)
    PROVE  /\ IsSeq(s \o t) /\ Len(s \o t) = Len(s) + Len(t)
           /\ \A i \in 1..Len(s) + Len(t) :
                (s \o t)[i] = IF i <= Len(s) THEN s[i] ELSE t[i - Len(s)]
           /\ Len(s) \in Nat /\ Len(t) \in Nat
<1> DEFINE S == ToSet(s) \cup ToSet(t)
<1>1. s \in Seq(S) /\ t \in Seq(S)
  <2>1. s \in Seq(ToSet(s)) /\ t \in Seq(ToSet(t)) /\ ToSet(s) \subseteq S /\ ToSet(t) \subseteq S
    BY DEF IsSeq
  <2>2. QED
    BY <2>1, SeqMonotonic
<1> HIDE DEF S
<1>2. /\ s \o t \in Seq(S) /\ Len(s \o t) = Len(s) + Len(t)
      /\ \A i \in 1..Len(s) + Len(t) : (s \o t)[i] = IF i <= Len(s) THEN s[i] ELSE t[i - Len(s)]
  BY <1>1, ConcatProperties
<1>3. Len(s) \in Nat /\ Len(t) \in Nat
  BY <1>1
<1>4. IsSeq(s \o t)
  <2> DEFINE u == s \o t
  <2>1. u \in Seq(S)
    BY <1>2
  <2> HIDE DEF u
  <2>2. IsSeq(u)
    <3>1. Len(u) \in Nat /\ u = [i \in 1..Len(u) |-> u[i]]
      BY <2>1
    <3>2. QED
      BY <3>1, ListsAreSeqs
  <2>3. QED
    BY <2>2 DEF u
<1>5. QED
  BY <1>2, <1>3, <1>4

\* Results for some pairs, followed by results for others.
LEMMA ConcatMatches ==
    ASSUME NEW k, NEW ps, NEW qs, NEW l, NEW m, NEW good, IsSeq(ps), IsSeq(qs),
           Matches(k, ps, l, good), Matches(k, qs, m, good)
    PROVE  Matches(k, ps \o qs, l \o m, good)
<1>1. /\ IsSeq(l) /\ IsSeq(m) /\ IsSeq(l \o m) /\ Len(l \o m) = Len(l) + Len(m)
      /\ Len(l) \in Nat /\ Len(m) \in Nat
      /\ \A i \in 1..Len(l) + Len(m) : (l \o m)[i] = IF i <= Len(l) THEN l[i] ELSE m[i - Len(l)]
  BY ConcatSeqs DEF Matches
<1>2. /\ Len(ps \o qs) = Len(ps) + Len(qs) /\ Len(ps) \in Nat /\ Len(qs) \in Nat
      /\ \A i \in 1..Len(ps) + Len(qs) : (ps \o qs)[i] = IF i <= Len(ps) THEN ps[i] ELSE qs[i - Len(ps)]
      /\ IsSeq(ps \o qs)
  BY ConcatSeqs
<1>3. ToSet(ps) \subseteq ToSet(ps \o qs) /\ ToSet(qs) \subseteq ToSet(ps \o qs)
  <2> DEFINE u == ps \o qs
  <2>1. ToSet(ps) = {ps[i] : i \in 1..Len(ps)} /\ ToSet(qs) = {qs[i] : i \in 1..Len(qs)}
        /\ ToSet(u) = {u[i] : i \in 1..Len(u)}
    BY <1>2, SeqFacts
  <2>2. ASSUME NEW i \in 1..Len(ps)
        PROVE  i \in 1..Len(u) /\ u[i] = ps[i]
    BY <1>2
  <2>3. ASSUME NEW i \in 1..Len(qs)
        PROVE  Len(ps) + i \in 1..Len(u) /\ u[Len(ps) + i] = qs[i]
    <3>1. Len(ps) + i \in 1..Len(ps) + Len(qs) /\ ~(Len(ps) + i <= Len(ps)) /\ (Len(ps) + i) - Len(ps) = i
      BY <1>2
    <3>2. QED
      BY <1>2, <3>1
  <2> HIDE DEF u
  <2>4. ToSet(ps) \subseteq ToSet(u) /\ ToSet(qs) \subseteq ToSet(u)
    BY <2>1, <2>2, <2>3
  <2>5. QED
    BY <2>4 DEF u
<1> DEFINE both == l \o m  all == ps \o qs
<1>4. \A i \in 1..Len(both) : \/ i \in 1..Len(l) /\ both[i] = l[i]
                              \/ i - Len(l) \in 1..Len(m) /\ both[i] = m[i - Len(l)] /\ ~(i <= Len(l))
  BY <1>1
<1>5. \A i \in 1..Len(both) : both[i].pair \in ToSet(all) /\ Labelled(k, both[i]) /\ (good => both[i].ok)
  <2> HIDE DEF both, all
  <2>1. /\ \A i \in 1..Len(l) : l[i].pair \in ToSet(ps) /\ Labelled(k, l[i]) /\ (good => l[i].ok)
        /\ \A i \in 1..Len(m) : m[i].pair \in ToSet(qs) /\ Labelled(k, m[i]) /\ (good => m[i].ok)
    BY DEF Matches
  <2>2. ToSet(ps) \subseteq ToSet(all) /\ ToSet(qs) \subseteq ToSet(all)
    BY <1>3 DEF all
  <2>3. QED
    BY <2>1, <2>2, <1>4
<1>6. ASSUME k # "ishares"
      PROVE  Len(both) = Len(all) /\ \A i \in 1..Len(both) : both[i].pair = all[i]
  <2>1. /\ Len(l) = Len(ps) /\ Len(m) = Len(qs)
        /\ \A i \in 1..Len(l) : l[i].pair = ps[i]
        /\ \A i \in 1..Len(m) : m[i].pair = qs[i]
    BY <1>6 DEF Matches
  <2>2. Len(both) = Len(all)
    BY <1>1, <1>2, <2>1
  <2>3. ASSUME NEW i \in 1..Len(both)
        PROVE  both[i].pair = all[i]
    <3>1. all[i] = IF i <= Len(ps) THEN ps[i] ELSE qs[i - Len(ps)]
      BY <1>2, <2>2
    <3> HIDE DEF both, all
    <3>2. CASE i \in 1..Len(l) /\ both[i] = l[i]
      BY <2>1, <3>1, <3>2
    <3>3. CASE i - Len(l) \in 1..Len(m) /\ both[i] = m[i - Len(l)] /\ ~(i <= Len(l))
      BY <2>1, <3>1, <3>3
    <3>4. QED
      BY <1>4, <3>2, <3>3
  <2>4. QED
    BY <2>2, <2>3
<1>7. QED
  BY <1>1, <1>5, <1>6 DEF Matches

\* The next request asks for the next pairs.
Advances(k, ps, gs, d) ==
    \E e \in 0..Len(ps) : Rest(k, ps, Tail(gs), e) /\ SubSeq(ps, 1, e) = SubSeq(ps, 1, d) \o Head(gs)

\* The next request asks for the pairs that follow those that are answered.
LEMMA NextGroup ==
    ASSUME NEW k, NEW ps, NEW gs, NEW d \in 0..Len(ps), IsSeq(ps), Rest(k, ps, gs, d), gs # <<>>
    PROVE  /\ IsSeq(Head(gs)) /\ IsSeq(SubSeq(ps, 1, d))
           /\ k \in BatchOrigins => Head(gs) = ps
           /\ k \notin BatchOrigins => Len(Head(gs)) = 1 /\ Head(gs)[1] \in ToSet(ps)
           /\ Advances(k, ps, gs, d)
<1>1. Len(ps) \in Nat /\ ps \in Seq(ToSet(ps)) /\ \A i \in 1..Len(ps) : ps[i] \in ToSet(ps)
  BY SeqFacts DEF IsSeq
<1>2. IsSeq(SubSeq(ps, 1, d))
  <2>1. SubSeq(ps, 1, d) \in Seq(ToSet(ps)) /\ d \in Int
    BY <1>1
  <2> DEFINE u == SubSeq(ps, 1, d)
  <2>2. Len(u) \in Nat /\ u = [i \in 1..Len(u) |-> u[i]]
    BY <2>1
  <2> HIDE DEF u
  <2>3. IsSeq(u)
    BY <2>2, ListsAreSeqs
  <2>4. QED
    BY <2>3 DEF u
<1>3. CASE k \in BatchOrigins
  <2>1. d = 0 /\ gs = <<ps>>
    BY <1>3 DEF Rest
  <2>2. Head(gs) = ps /\ Tail(gs) = <<>>
    BY <2>1
  <2>3. SubSeq(ps, 1, 0) = <<>> /\ SubSeq(ps, 1, Len(ps)) = ps
    BY <1>1, SubSeqEmpty, SubSeqFull
  <2>4. <<>> \o ps = ps
    BY <1>1, ConcatEmptySeq
  <2>5. Rest(k, ps, Tail(gs), Len(ps)) /\ Len(ps) \in 0..Len(ps)
    BY <1>1, <1>3, <2>2 DEF Rest
  <2>6. QED
    BY <1>2, <1>3, <2>1, <2>2, <2>3, <2>4, <2>5 DEF Advances
<1>4. CASE k \notin BatchOrigins
  <2> DEFINE n == Len(ps) - d
  <2>1. gs = [j \in 1..n |-> <<ps[d + j]>>] /\ n \in Nat
    BY <1>1, <1>4 DEF Rest
  <2>2. n > 0
    <3>1. n = 0 => gs = <<>>
      BY <2>1
    <3>2. QED
      BY <2>1, <3>1
  <2>3. gs \in Seq({<<ps[i]>> : i \in 1..Len(ps)}) /\ Len(gs) = n
    <3>1. \A j \in 1..n : d + j \in 1..Len(ps)
      BY <1>1
    <3>2. gs \in [1..n -> {<<ps[i]>> : i \in 1..Len(ps)}]
      BY <2>1, <3>1
    <3> DEFINE T == {<<ps[i]>> : i \in 1..Len(ps)}
    <3>4. gs \in [1..n -> T] /\ n \in Nat
      BY <2>1, <3>2
    <3> HIDE DEF n, T
    <3>5. gs \in Seq(T) /\ Len(gs) = n
      BY <3>4
    <3>6. QED
      BY <3>5 DEF T
  <2>4. Head(gs) = <<ps[d + 1]>> /\ d + 1 \in 1..Len(ps)
    <3>1. Head(gs) = gs[1] /\ 1 \in 1..n
      BY <2>1, <2>2, <2>3
    <3>2. QED
      BY <1>1, <2>1, <2>2, <3>1
  <2>5. Tail(gs) = [j \in 1..(Len(ps) - (d + 1)) |-> <<ps[(d + 1) + j]>>]
    <3>1. Tail(gs) = [j \in 1..(n - 1) |-> gs[j + 1]]
      <4> DEFINE T == {<<ps[i]>> : i \in 1..Len(ps)}
      <4>1. gs \in Seq(T) /\ Len(gs) = n /\ n \in Nat /\ n > 0
        BY <2>1, <2>2, <2>3
      <4> HIDE DEF T, n
      <4>2. Tail(gs) \in Seq(T) /\ Len(Tail(gs)) = n - 1
            /\ \A j \in 1..(n - 1) : Tail(gs)[j] = gs[j + 1]
        BY <4>1, HeadTailProperties
      <4> DEFINE t == Tail(gs)
      <4>3. t \in Seq(T) /\ Len(t) = n - 1 /\ \A j \in 1..(n - 1) : t[j] = gs[j + 1]
        BY <4>2
      <4> HIDE DEF t
      <4>4. DOMAIN t = 1..(n - 1) /\ t = [j \in 1..(n - 1) |-> t[j]]
        BY <4>3
      <4>5. t = [j \in 1..(n - 1) |-> gs[j + 1]]
        BY <4>3, <4>4
      <4>6. QED
        BY <4>5 DEF t
    <3>2. \A j \in 1..(n - 1) : gs[j + 1] = <<ps[(d + 1) + j]>>
      <4>1. ASSUME NEW j \in 1..(n - 1)
            PROVE  j + 1 \in 1..n /\ d + (j + 1) = (d + 1) + j
        BY <1>1
      <4>2. QED
        BY <2>1, <4>1
    <3>3. n - 1 = Len(ps) - (d + 1)
      BY <1>1
    <3>4. QED
      BY <3>1, <3>2, <3>3
  <2>6. SubSeq(ps, 1, d + 1) = SubSeq(ps, 1, d) \o <<ps[d + 1]>>
    <3>1. SubSeq(ps, 1, d + 1) = SubSeq(ps, 1, (d + 1) - 1) \o <<ps[d + 1]>>
      <4>1. 1 \in 1..Len(ps) /\ d + 1 \in 1..Len(ps)
        BY <1>1, <2>4
      <4>2. QED
        BY <1>1, <4>1, SubSeqRecursiveSecond
    <3>2. (d + 1) - 1 = d
      BY <1>1
    <3>3. QED
      BY <3>1, <3>2
  <2>7. IsSeq(Head(gs)) /\ Len(Head(gs)) = 1 /\ Head(gs)[1] \in ToSet(ps)
    <3>1. ps[d + 1] \in ToSet(ps)
      BY <1>1, <2>4
    <3>2. \A x : IsSeq(<<x>>) /\ Len(<<x>>) = 1 /\ <<x>>[1] = x
      BY DEF IsSeq, ToSet
    <3>3. QED
      BY <3>1, <3>2, <2>4
  <2>8. Rest(k, ps, Tail(gs), d + 1) /\ d + 1 \in 0..Len(ps)
    BY <1>1, <1>4, <2>4, <2>5 DEF Rest
  <2>9. QED
    BY <1>2, <1>4, <2>4, <2>6, <2>7, <2>8 DEF Advances
<1>5. QED
  BY <1>3, <1>4

IsWanted(w) == IsSeq(w) /\ \A i \in 1..Len(w) : w[i] = <<w[i][1], w[i][2]>>

\* Part of the pairs is answered, the others are still to be asked for.
Handled(k, w, list, gs, good) ==
    \E d \in 0..Len(w) :
        Rest(k, Renamed(w), gs, d) /\ Matches(k, SubSeq(Renamed(w), 1, d), list, good)

\* There is a price for each pair if all replies so far were complete.
Good(k, w, c) ==
    /\ c /\ k \notin PostOrigins /\ k # "coinmarketcap"
    /\ ~(k = "loopring" /\ Cardinality({Market(replacePair(m)) : m \in ToSet(w)}) < Len(w))

\* BaseExchangeHandler.Fetch renames every pair of the caller.
LEMMA RenamedIsSeq ==
    ASSUME NEW w, IsSeq(w)
    PROVE  /\ IsSeq(Renamed(w)) /\ Len(Renamed(w)) = Len(w) /\ Len(w) \in Nat
           /\ \A i \in 1..Len(w) : Renamed(w)[i] = replacePair(w[i])
           /\ ToSet(Renamed(w)) = {replacePair(w[i]) : i \in 1..Len(w)}
           /\ Renamed(w) \in Seq(ToSet(Renamed(w)))
<1> DEFINE ps == Renamed(w)
<1>1. Len(w) \in Nat
  BY SeqFacts
<1>2. ps = [i \in 1..Len(w) |-> ps[i]] /\ \A i \in 1..Len(w) : ps[i] = replacePair(w[i])
  BY DEF Renamed
<1> HIDE DEF ps
<1>3. IsSeq(ps) /\ Len(ps) = Len(w) /\ DOMAIN ps = 1..Len(w)
  BY <1>1, <1>2, ListsAreSeqs
<1>4. ToSet(ps) = {replacePair(w[i]) : i \in 1..Len(w)}
  BY <1>2, <1>3 DEF ToSet
<1>5. QED
  BY <1>1, <1>2, <1>3, <1>4 DEF ps, IsSeq

\* Nothing is answered at first, and all is to be asked for.
LEMMA HandledAtFirst ==
    ASSUME NEW k \in Followed, NEW w, IsSeq(w), NEW good
    PROVE  Handled(k, w, <<>>, Groups(k, Renamed(w)), good)
<1> DEFINE ps == Renamed(w)
<1>1. Len(ps) = Len(w) /\ Len(w) \in Nat
  BY RenamedIsSeq
<1>2. SubSeq(ps, 1, 0) = <<>>
  BY SubSeqEmpty
<1>3. Matches(k, <<>>, <<>>, good)
  BY DEF Matches, IsSeq, ToSet
<1> HIDE DEF ps
<1>4. Rest(k, ps, Groups(k, ps), 0)
  <2>1. CASE k \in BatchOrigins
    BY <2>1 DEF Rest, Groups
  <2>2. CASE k \notin BatchOrigins
    <3>1. Groups(k, ps) = [i \in 1..Len(ps) |-> <<ps[i]>>]
      BY <2>2 DEF Groups, Followed
    <3>2. Len(ps) - 0 = Len(ps) /\ \A j \in 1..Len(ps) : 0 + j = j
      BY <1>1
    <3>3. [j \in 1..(Len(ps) - 0) |-> <<ps[0 + j]>>] = [i \in 1..Len(ps) |-> <<ps[i]>>]
      BY <3>2
    <3>4. QED
      BY <2>2, <3>1, <3>3 DEF Rest
  <2>3. QED
    BY <2>1, <2>2
<1>5. 0 \in 0..Len(w)
  BY <1>1
<1>6. QED
  BY <1>2, <1>3, <1>4, <1>5 DEF Handled, ps

\* As WeakerMatches.
LEMMA HandledWeaker ==
    ASSUME NEW k, NEW w, NEW list, NEW gs, NEW good, NEW weaker, weaker => good,
           Handled(k, w, list, gs, good)
    PROVE  Handled(k, w, list, gs, weaker)
  BY WeakerMatches DEF Handled

\* A handler that gives up answers every pair with an error.
LEMMA HandledByErrors ==
    ASSUME NEW k, NEW w, IsSeq(w)
    PROVE  /\ Matches(k, Renamed(w), Errors(Renamed(w)), FALSE)
           /\ Handled(k, w, Errors(Renamed(w)), <<>>, FALSE)
<1> DEFINE ps == Renamed(w)
<1>1. IsSeq(ps) /\ Len(ps) = Len(w) /\ Len(w) \in Nat /\ ps \in Seq(ToSet(ps))
  BY RenamedIsSeq
<1> HIDE DEF ps
<1>2. Matches(k, ps, Errors(ps), FALSE)
  BY <1>1, ErrorsMatch
<1>3. SubSeq(ps, 1, Len(w)) = ps
  BY <1>1, SubSeqFull
<1>4. Rest(k, ps, <<>>, Len(w)) /\ Len(w) \in 0..Len(w)
  <2>1. Len(ps) - Len(w) = 0
    BY <1>1
  <2>2. [j \in 1..(Len(ps) - Len(w)) |-> <<ps[Len(w) + j]>>] = <<>>
    BY <2>1
  <2>3. QED
    BY <1>1, <2>2 DEF Rest
<1>5. QED
  BY <1>2, <1>3, <1>4 DEF Handled, ps

\* When nothing is left to ask for, all pairs are answered.
LEMMA HandledAtLast ==
    ASSUME NEW k, NEW w, NEW list, NEW good, IsSeq(w), Handled(k, w, list, <<>>, good)
    PROVE  Matches(k, Renamed(w), list, good)
<1> DEFINE ps == Renamed(w)
<1>1. IsSeq(ps) /\ Len(ps) = Len(w) /\ Len(w) \in Nat /\ ps \in Seq(ToSet(ps))
  BY RenamedIsSeq
<1>2. PICK d \in 0..Len(w) : Rest(k, ps, <<>>, d) /\ Matches(k, SubSeq(ps, 1, d), list, good)
  BY DEF Handled
<1> HIDE DEF ps
<1>3. d = Len(w)
  <2>1. CASE k \in BatchOrigins
    <3>1. <<>> # <<ps>>
      OBVIOUS
    <3>2. QED
      BY <1>1, <1>2, <2>1, <3>1 DEF Rest
  <2>2. CASE k \notin BatchOrigins
    <3> DEFINE f == [j \in 1..(Len(ps) - d) |-> <<ps[d + j]>>]
    <3>1. <<>> = f /\ DOMAIN f = 1..(Len(ps) - d)
      BY <1>2, <2>2 DEF Rest
    <3>2. 1..(Len(ps) - d) = {}
      <4>1. DOMAIN <<>> = {}
        OBVIOUS
      <4> HIDE DEF f
      <4>2. QED
        BY <3>1, <4>1
    <3>3. d < Len(ps) => 1 \in 1..(Len(ps) - d)
      BY <1>1
    <3>4. ~(d < Len(ps))
      BY <3>2, <3>3
    <3>5. QED
      BY <1>1, <3>4
  <2>3. QED
    BY <2>1, <2>2
<1>4. SubSeq(ps, 1, Len(w)) = ps
  BY <1>1, SubSeqFull
<1>5. QED
  BY <1>2, <1>3, <1>4 DEF ps

\* The results for the next pairs are added.
LEMMA HandledNext ==
    ASSUME NEW k, NEW w, NEW list, NEW gs, NEW good, NEW more, NEW weaker,
           IsSeq(w), Handled(k, w, list, gs, good), gs # <<>>,
           Matches(k, Head(gs), more, weaker), weaker => good
    PROVE  Handled(k, w, list \o more, Tail(gs), weaker)
<1> DEFINE ps == Renamed(w)
<1>1. IsSeq(ps) /\ Len(ps) = Len(w)
  BY RenamedIsSeq
<1>2. PICK d \in 0..Len(w) : Rest(k, ps, gs, d) /\ Matches(k, SubSeq(ps, 1, d), list, good)
  BY DEF Handled
<1> HIDE DEF ps
<1>3. d \in 0..Len(ps) /\ Rest(k, ps, gs, d)
  BY <1>1, <1>2
<1>4. IsSeq(Head(gs)) /\ IsSeq(SubSeq(ps, 1, d))
  BY <1>1, <1>3, NextGroup
<1>5. PICK e \in 0..Len(ps) : /\ Rest(k, ps, Tail(gs), e)
                              /\ SubSeq(ps, 1, e) = SubSeq(ps, 1, d) \o Head(gs)
  <2>1. Advances(k, ps, gs, d)
    BY <1>1, <1>3, NextGroup
  <2>2. QED
    BY <2>1 DEF Advances
<1>6. Matches(k, SubSeq(ps, 1, d) \o Head(gs), list \o more, weaker)
  <2>1. Matches(k, SubSeq(ps, 1, d), list, weaker)
    BY <1>2, WeakerMatches
  <2>2. QED
    BY <1>4, <2>1, ConcatMatches
<1>7. QED
  BY <1>1, <1>5, <1>6 DEF Handled, ps

\* The next group of pairs.
LEMMA HeadOfGroups ==
    ASSUME NEW k \in Followed, NEW w, NEW list, NEW gs, NEW good,
           IsSeq(w), Handled(k, w, list, gs, good), gs # <<>>
    PROVE  /\ IsSeq(Head(gs))
           /\ k \in BatchOrigins => Head(gs) = Renamed(w)
           /\ k \notin BatchOrigins => Len(Head(gs)) = 1
<1> DEFINE ps == Renamed(w)
<1>1. IsSeq(ps) /\ Len(ps) = Len(w)
  BY RenamedIsSeq
<1>2. PICK d \in 0..Len(w) : Rest(k, ps, gs, d)
  BY DEF Handled
<1> HIDE DEF ps
<1>3. d \in 0..Len(ps)
  BY <1>1
<1>4. QED
  BY <1>1, <1>2, <1>3, NextGroup DEF ps

\* A complete reply has what the handler can use, for origins that are not picky.
LEMMA CompleteIsServed ==
    ASSUME NEW k \in Followed, NEW w, NEW c, NEW qs, NEW r, IsSeq(w),
           k \in BatchOrigins => qs = Renamed(w),
           Good(k, w, c), Complete(k, qs, r)
    PROVE  Served(k, qs, r)
<1>1. CASE k = "loopring"
  <2>1. qs = Renamed(w) /\ Len(qs) = Len(w) /\ \A i \in 1..Len(w) : qs[i] = replacePair(w[i])
    BY <1>1, RenamedIsSeq DEF BatchOrigins
  <2>2. Markets(k, qs) = {Market(qs[i]) : i \in 1..Len(qs)}
    BY <1>1, MarketsOf DEF ByMarket, Kinds, BatchOrigins, PostOrigins, LocalName, JoiningOrigins
  <2>3. ToSet(w) = {w[i] : i \in 1..Len(w)}
    BY SeqFacts
  <2>4. {Market(qs[i]) : i \in 1..Len(qs)} = {Market(replacePair(m)) : m \in ToSet(w)}
    BY <2>1, <2>3
  <2>5. Cardinality(Markets(k, qs)) \in Nat /\ Len(qs) \in Nat
    BY <2>1, <2>2, RenamedIsSeq, MarketsCounted
  <2>6. ~(Cardinality(Markets(k, qs)) < Len(qs))
    BY <1>1, <2>1, <2>2, <2>4 DEF Good
  <2>7. QED
    BY <1>1, <2>5, <2>6 DEF Served, Good
<1>2. CASE k # "loopring"
  BY <1>2 DEF Good, Served
<1>3. QED
  BY <1>1, <1>2

\* No two symbols have the same alias, so that an alias names one of them.
AliasesDistinct == \A x, y \in DOMAIN Aliases : Aliases[x] = Aliases[y] => x = y

\* revertSymbol gives a symbol with this alias, and the one that was replaced if it
\* is the only one.
LEMMA RevertedSymbol ==
    ASSUME NEW a \in DOMAIN Aliases
    PROVE  /\ Reverted(Aliases[a]) \in DOMAIN Aliases /\ Aliases[Reverted(Aliases[a])] = Aliases[a]
           /\ AliasesDistinct => Reverted(Aliases[a]) = a
<1> DEFINE b == CHOOSE x \in DOMAIN Aliases : Aliases[x] = Aliases[a]
<1>1. \E x \in DOMAIN Aliases : Aliases[x] = Aliases[a]
  OBVIOUS
<1>2. b \in DOMAIN Aliases /\ Aliases[b] = Aliases[a]
  BY <1>1
<1>3. Reverted(Aliases[a]) = b
  BY <1>1 DEF Reverted
<1> HIDE DEF b
<1>4. QED
  BY <1>2, <1>3 DEF AliasesDistinct

\* The names of a pair for the caller and for the handler, there and back.
LEMMA RevertedPair ==
    ASSUME NEW m
    PROVE  LET p == replacePair(m)
               q == replacePair(revertPair(p))
           IN  /\ Market(q) = Market(p) /\ PoloniexName(q) = PoloniexName(p)
               /\ AliasesDistinct => revertPair(p) = <<m[1], m[2]>>
<1> DEFINE p == replacePair(m)  b == revertPair(p)[1]  c == revertPair(p)[2]  q == replacePair(revertPair(p))
<1>1. /\ p.base = Replaced(m[1]) /\ p.quote = Replaced(m[2])
      /\ p.baseReplaced <=> m[1] \in DOMAIN Aliases
      /\ p.quoteReplaced <=> m[2] \in DOMAIN Aliases
  BY DEF replacePair
<1>2. q.base = Replaced(b) /\ q.quote = Replaced(c)
  BY DEF replacePair
<1>3. /\ b = IF m[1] \in DOMAIN Aliases THEN Reverted(p.base) ELSE p.base
      /\ c = IF m[2] \in DOMAIN Aliases THEN Reverted(p.quote) ELSE p.quote
      /\ revertPair(p) = <<b, c>>
  <2> HIDE DEF p
  <2>1. QED
    BY <1>1 DEF revertPair
<1> HIDE DEF p, b, c, q
<1>4. Replaced(b) = p.base /\ (AliasesDistinct => b = m[1])
  <2>1. CASE m[1] \in DOMAIN Aliases
    BY <2>1, <1>1, <1>3, RevertedSymbol DEF Replaced
  <2>2. CASE m[1] \notin DOMAIN Aliases
    BY <2>2, <1>1, <1>3 DEF Replaced
  <2>3. QED
    BY <2>1, <2>2
<1>5. Replaced(c) = p.quote /\ (AliasesDistinct => c = m[2])
  <2>1. CASE m[2] \in DOMAIN Aliases
    BY <2>1, <1>1, <1>3, RevertedSymbol DEF Replaced
  <2>2. CASE m[2] \notin DOMAIN Aliases
    BY <2>2, <1>1, <1>3 DEF Replaced
  <2>3. QED
    BY <2>1, <2>2
<1>6. q.base = p.base /\ q.quote = p.quote
  BY <1>2, <1>4, <1>5
<1>7. Market(q) = Market(p) /\ PoloniexName(q) = PoloniexName(p)
  BY <1>6 DEF Market, PoloniexName
<1>8. QED
  BY <1>3, <1>4, <1>5, <1>7 DEF p, q

\* What the caller is told, in its own names.
Told(k, w, told, good) ==
    \E list : told = Named(list) /\ Matches(k, Renamed(w), list, good)

\* The parts of AnsweredAsAsked about the results of one origin.
LabelledFor(k, x) ==
    LET m == Market(replacePair(x.pair))
    IN  x.ok /\ x.of # ZeroPrice =>
          \/ x.of = m
          \/ k \in JoiningOrigins /\ x.of = Symbol(m)
          \/ k \in QuoteBlind /\ x.of = <<m[1], "USD">>
          \/ k = "bitfinex" /\ m[2] = "USDT" /\ x.of = Symbol(<<m[1], "USD">>)
          \/ k = "poloniex" /\ x.of = PoloniexName(replacePair(x.pair))

\* Results with the names of the handler are right with the names of the caller:
\* renaming changes no market, and it gives each pair its name back.
LEMMA ToldIsRight ==
    ASSUME NEW k, NEW w, NEW told, NEW good, IsWanted(w), Told(k, w, told, good)
    PROVE  /\ \A i \in 1..Len(told) : LabelledFor(k, told[i]) /\ (good => told[i].ok)
           /\ AliasesDistinct /\ k # "ishares" => /\ Len(told) = Len(w)
                                                  /\ {told[i].pair : i \in 1..Len(told)} = ToSet(w)
<1>1. PICK list : told = Named(list) /\ Matches(k, Renamed(w), list, good)
  BY DEF Told
<1>2. Len(list) \in Nat /\ IsSeq(w)
  BY <1>1, SeqFacts DEF Matches, IsWanted
<1>3. /\ Len(told) = Len(list)
      /\ \A i \in 1..Len(list) : told[i] = [list[i] EXCEPT !.pair = revertPair(list[i].pair)]
  BY <1>1, <1>2 DEF Named
<1>4. \A i \in 1..Len(list) :
        /\ Labelled(k, list[i]) /\ (good => list[i].ok)
        /\ \E n \in 1..Len(w) : list[i].pair = replacePair(w[n])
  BY <1>1, <1>2, RenamedIsSeq DEF Matches
<1>5. ASSUME NEW i \in 1..Len(list)
      PROVE  /\ told[i].pair = revertPair(list[i].pair)
             /\ told[i].ok = list[i].ok /\ told[i].of = list[i].of
  <2> DEFINE y == list[i]
  <2>1. y = [pair |-> y.pair, ok |-> y.ok, of |-> y.of] /\ told[i] = [y EXCEPT !.pair = revertPair(y.pair)]
    BY <1>3, <1>4 DEF Labelled
  <2> HIDE DEF y
  <2>2. told[i].pair = revertPair(y.pair) /\ told[i].ok = y.ok /\ told[i].of = y.of
    BY <2>1
  <2>3. QED
    BY <2>2 DEF y
<1>6. ASSUME NEW i \in 1..Len(list)
      PROVE  LabelledFor(k, told[i]) /\ (good => told[i].ok)
  <2> DEFINE y == list[i]  x == told[i]
  <2>1. PICK n \in 1..Len(w) : y.pair = replacePair(w[n])
    BY <1>4
  <2>2. x.pair = revertPair(y.pair) /\ x.ok = y.ok /\ x.of = y.of /\ Labelled(k, y) /\ (good => y.ok)
    BY <1>4, <1>5
  <2> HIDE DEF x, y
  <2>3. /\ Market(replacePair(x.pair)) = Market(y.pair)
        /\ PoloniexName(replacePair(x.pair)) = PoloniexName(y.pair)
    BY <2>1, <2>2, RevertedPair
  <2>4. Market(y.pair)[1] = y.pair.base /\ Market(y.pair)[2] = y.pair.quote
    BY DEF Market
  <2>5. LabelledFor(k, x) /\ (good => x.ok)
    BY <2>2, <2>3, <2>4 DEF LabelledFor, Labelled
  <2>6. QED
    BY <2>5 DEF x
<1>7. ASSUME AliasesDistinct, k # "ishares"
      PROVE  Len(told) = Len(w) /\ {told[i].pair : i \in 1..Len(told)} = ToSet(w)
  <2>1. Len(list) = Len(w) /\ \A i \in 1..Len(w) : list[i].pair = replacePair(w[i])
    BY <1>1, <1>2, <1>7, RenamedIsSeq DEF Matches
  <2>2. \A i \in 1..Len(w) : told[i].pair = w[i]
    <3>1. \A i \in 1..Len(w) : revertPair(replacePair(w[i])) = <<w[i][1], w[i][2]>>
      BY <1>7, RevertedPair
    <3>2. \A i \in 1..Len(w) : w[i] = <<w[i][1], w[i][2]>>
      BY DEF IsWanted
    <3>3. QED
      BY <1>5, <2>1, <3>1, <3>2
  <2>3. ToSet(w) = {w[i] : i \in 1..Len(w)}
    BY <1>2, SeqFacts
  <2>4. QED
    BY <1>3, <2>1, <2>2, <2>3
<1>8. QED
  BY <1>3, <1>6, <1>7

-----------------------------------------------------------------------------
(* The pool of workers *)

HandlerStates == {"ask", "wait", "return", "panicked", "counted", "done"}
Requests == [of : Handlers, tries : 1..Retry]

\* An origin that waits has one request in the queue or with a worker.
Places(q, b, pc) ==
    /\ q \in Seq(Handlers) /\ Len(q) <= Workers
    /\ b \in Seq(Requests) /\ Len(b) <= Workers
    /\ \A i \in 1..Len(q) : pc[q[i]] = "wait"
    /\ \A i \in 1..Len(b) : pc[b[i].of] = "wait"
    /\ \A i, j \in 1..Len(q) : q[i] = q[j] => i = j
    /\ \A i, j \in 1..Len(b) : b[i].of = b[j].of => i = j
    /\ \A i \in 1..Len(q), j \in 1..Len(b) : q[i] # b[j].of

\* An origin that does not wait goes on: its place is none of these.
LEMMA PlacesOther ==
    ASSUME NEW q, NEW b, NEW pc \in [Handlers -> HandlerStates], NEW h \in Handlers, NEW at,
           Places(q, b, pc), pc[h] # "wait"
    PROVE  Places(q, b, [pc EXCEPT ![h] = at])
<1>1. \A i \in 1..Len(q) : q[i] \in Handlers /\ q[i] # h
  BY DEF Places
<1>2. \A i \in 1..Len(b) : b[i].of \in Handlers /\ b[i].of # h
  <2>1. \A i \in 1..Len(b) : b[i] \in Requests
    BY DEF Places
  <2>2. \A x \in Requests : x.of \in Handlers
    BY DEF Requests
  <2>3. QED
    BY <2>1, <2>2 DEF Places
<1>3. QED
  BY <1>1, <1>2 DEF Places

\* WorkerPool.Query adds the request of an origin that did not wait.
LEMMA PlacesQuery ==
    ASSUME NEW q, NEW b, NEW pc \in [Handlers -> HandlerStates], NEW h \in Handlers,
           Places(q, b, pc), pc[h] # "wait", Len(q) < Workers
    PROVE  Places(Append(q, h), b, [pc EXCEPT ![h] = "wait"])
<1> DEFINE u == Append(q, h)  pd == [pc EXCEPT ![h] = "wait"]
<1>1. q \in Seq(Handlers) /\ Len(q) \in Nat /\ b \in Seq(Requests)
  BY DEF Places
<1>2. /\ u \in Seq(Handlers) /\ Len(u) = Len(q) + 1 /\ u[Len(q) + 1] = h
      /\ \A i \in 1..Len(q) : u[i] = q[i]
  BY <1>1
<1>3. \A i \in 1..Len(u) : i \in 1..Len(q) \/ i = Len(q) + 1
  BY <1>1, <1>2
<1>4. \A i \in 1..Len(q) : q[i] \in Handlers /\ q[i] # h
  BY DEF Places
<1>5. \A i \in 1..Len(b) : b[i].of \in Handlers /\ b[i].of # h
  <2>1. \A i \in 1..Len(b) : b[i] \in Requests
    BY DEF Places
  <2>2. \A x \in Requests : x.of \in Handlers
    BY DEF Requests
  <2>3. QED
    BY <2>1, <2>2 DEF Places
<1>6. pd[h] = "wait" /\ \A g \in Handlers : g # h => pd[g] = pc[g]
  OBVIOUS
<1> HIDE DEF u, pd
<1>7. \A i \in 1..Len(u) : pd[u[i]] = "wait"
  BY <1>2, <1>3, <1>4, <1>6 DEF Places
<1>8. \A i \in 1..Len(b) : pd[b[i].of] = "wait"
  BY <1>5, <1>6 DEF Places
<1>9. \A i, j \in 1..Len(u) : u[i] = u[j] => i = j
  BY <1>2, <1>3, <1>4 DEF Places
<1>10. \A i \in 1..Len(u), j \in 1..Len(b) : u[i] # b[j].of
  BY <1>2, <1>3, <1>5 DEF Places
<1>11. Len(u) <= Workers
  BY <1>1, <1>2, FetchAssumption
<1>12. Places(u, b, pd)
  BY <1>2, <1>7, <1>8, <1>9, <1>10, <1>11 DEF Places
<1>13. QED
  BY <1>12 DEF u, pd

\* A worker takes the first request.
LEMMA PlacesTake ==
    ASSUME NEW q, NEW b, NEW pc \in [Handlers -> HandlerStates],
           Places(q, b, pc), q # <<>>, Len(b) < Workers
    PROVE  Places(Tail(q), Append(b, [of |-> Head(q), tries |-> 1]), pc)
<1> DEFINE u == Tail(q)  x == [of |-> Head(q), tries |-> 1]  v == Append(b, x)
<1>1. q \in Seq(Handlers) /\ Len(q) \in Nat /\ b \in Seq(Requests) /\ Len(b) \in Nat /\ Len(q) <= Workers
  BY DEF Places
<1>2. /\ u \in Seq(Handlers) /\ Len(u) = Len(q) - 1 /\ \A i \in 1..Len(u) : u[i] = q[i + 1]
      /\ Head(q) = q[1] /\ q[1] \in Handlers /\ Len(q) > 0
  BY <1>1, HeadTailProperties
<1>3. x \in Requests /\ x.of = q[1]
  BY <1>2, FetchAssumption DEF Requests
<1> HIDE DEF x
<1>4. /\ v \in Seq(Requests) /\ Len(v) = Len(b) + 1 /\ v[Len(b) + 1] = x
      /\ \A i \in 1..Len(b) : v[i] = b[i]
  BY <1>1, <1>3
<1>5. \A i \in 1..Len(v) : i \in 1..Len(b) \/ i = Len(b) + 1
  BY <1>1, <1>4
<1>6. \A i \in 1..Len(u) : i + 1 \in 1..Len(q) /\ i + 1 # 1
  BY <1>1, <1>2
<1>7. 1 \in 1..Len(q)
  BY <1>1, <1>2
<1> HIDE DEF u, v
<1>8. \A i \in 1..Len(u) : pc[u[i]] = "wait"
  BY <1>2, <1>6 DEF Places
<1>9. \A i \in 1..Len(v) : pc[v[i].of] = "wait"
  BY <1>3, <1>4, <1>5, <1>7 DEF Places
<1>10. \A i, j \in 1..Len(u) : u[i] = u[j] => i = j
  <2> SUFFICES ASSUME NEW i \in 1..Len(u), NEW j \in 1..Len(u), u[i] = u[j]
               PROVE  i = j
    OBVIOUS
  <2>1. i + 1 = j + 1
    BY <1>2, <1>6 DEF Places
  <2>2. QED
    BY <2>1
<1>11. \A i, j \in 1..Len(v) : v[i].of = v[j].of => i = j
  BY <1>3, <1>4, <1>5, <1>7 DEF Places
<1>12. \A i \in 1..Len(u), j \in 1..Len(v) : u[i] # v[j].of
  <2> SUFFICES ASSUME NEW i \in 1..Len(u), NEW j \in 1..Len(v)
               PROVE  q[i + 1] # v[j].of
    BY <1>2
  <2>1. CASE j \in 1..Len(b)
    BY <1>4, <1>6, <2>1 DEF Places
  <2>2. CASE j = Len(b) + 1
    BY <1>3, <1>4, <1>6, <1>7, <2>2 DEF Places
  <2>3. QED
    BY <1>5, <2>1, <2>2
<1>13. Len(u) <= Workers /\ Len(v) <= Workers
  BY <1>1, <1>2, <1>4, FetchAssumption
<1>14. Places(u, v, pc)
  BY <1>2, <1>4, <1>8, <1>9, <1>10, <1>11, <1>12, <1>13 DEF Places
<1>15. QED
  BY <1>14 DEF u, v, x

\* A worker tries a request again.
LEMMA PlacesTry ==
    ASSUME NEW q, NEW b, NEW pc, NEW i \in 1..Len(b), Places(q, b, pc), b[i].tries < Retry
    PROVE  Places(q, [b EXCEPT ![i].tries = @ + 1], pc)
<1> DEFINE x == [b[i] EXCEPT !.tries = @ + 1]  v == [b EXCEPT ![i] = x]
<1>1. b \in Seq(Requests) /\ Len(b) \in Nat /\ b[i] \in Requests
  BY DEF Places
<1>2. x \in Requests /\ x.of = b[i].of
  <2> DEFINE y == b[i]
  <2>1. y \in Requests /\ y.tries < Retry /\ x = [y EXCEPT !.tries = @ + 1]
    BY <1>1
  <2> HIDE DEF y, x
  <2>2. y.tries + 1 \in 1..Retry
    BY <2>1, FetchAssumption DEF Requests
  <2>3. x = [of |-> y.of, tries |-> y.tries + 1] /\ y.of \in Handlers
    BY <2>1 DEF Requests
  <2>4. x \in Requests /\ x.of = y.of
    BY <2>2, <2>3 DEF Requests
  <2>5. QED
    BY <2>4 DEF y
<1>3. v = [b EXCEPT ![i].tries = @ + 1]
  OBVIOUS
<1> HIDE DEF x
<1>4. /\ v \in Seq(Requests) /\ Len(v) = Len(b)
      /\ \A j \in 1..Len(b) : v[j] = IF j = i THEN x ELSE b[j]
  BY <1>1, <1>2, ExceptSeq
<1>5. \A j \in 1..Len(b) : v[j].of = b[j].of
  BY <1>2, <1>4
<1> HIDE DEF v
<1>6. Places(q, v, pc)
  BY <1>4, <1>5 DEF Places
<1>7. QED
  BY <1>3, <1>6

\* A sequence without one of its elements.
LEMMA WithoutOne ==
    ASSUME NEW S, NEW b \in Seq(S), NEW i \in 1..Len(b)
    PROVE  /\ RemoveAt(b, i) \in Seq(S) /\ Len(RemoveAt(b, i)) = Len(b) - 1
           /\ \A j \in 1..Len(b) - 1 : RemoveAt(b, i)[j] = b[IF j < i THEN j ELSE j + 1]
<1> DEFINE u == SubSeq(b, 1, i - 1)  v == SubSeq(b, i + 1, Len(b))
<1>1. Len(b) \in Nat /\ i \in Nat /\ 1 <= i /\ i <= Len(b) /\ \A j \in 1..Len(b) : b[j] \in S
  OBVIOUS
<1>2. /\ u \in Seq(S) /\ Len(u) = i - 1
      /\ \A j \in 1..(i - 1) : u[j] = b[j]
  <2>1. 1 \in Int /\ i - 1 \in Int /\ \A j \in 1..(i - 1) : b[j] \in S
    BY <1>1
  <2>2. /\ u \in Seq(S) /\ Len(u) = IF 1 <= i - 1 THEN (i - 1) - 1 + 1 ELSE 0
        /\ \A j \in 1..((i - 1) - 1 + 1) : u[j] = b[1 + j - 1]
    BY <2>1, SubSeqProperties
  <2>3. (i - 1) - 1 + 1 = i - 1 /\ \A j \in 1..(i - 1) : 1 + j - 1 = j
    BY <1>1
  <2> HIDE DEF u
  <2>4. QED
    BY <1>1, <2>2, <2>3
<1>3. /\ v \in Seq(S) /\ Len(v) = Len(b) - i
      /\ \A j \in 1..(Len(b) - i) : v[j] = b[i + j]
  <2>1. i + 1 \in Int /\ Len(b) \in Int /\ \A j \in (i + 1)..Len(b) : b[j] \in S
    BY <1>1
  <2>2. /\ v \in Seq(S) /\ Len(v) = IF i + 1 <= Len(b) THEN Len(b) - (i + 1) + 1 ELSE 0
        /\ \A j \in 1..(Len(b) - (i + 1) + 1) : v[j] = b[(i + 1) + j - 1]
    BY <2>1, SubSeqProperties
  <2>3. Len(b) - (i + 1) + 1 = Len(b) - i /\ \A j \in 1..(Len(b) - i) : (i + 1) + j - 1 = i + j
    BY <1>1
  <2> HIDE DEF v
  <2>4. Len(v) = Len(b) - i
    BY <1>1, <2>2
  <2>5. QED
    BY <2>2, <2>3, <2>4
<1>4. RemoveAt(b, i) = u \o v
  BY DEF RemoveAt
<1> HIDE DEF u, v
<1>5. /\ u \o v \in Seq(S) /\ Len(u \o v) = Len(u) + Len(v)
      /\ \A j \in 1..Len(u) + Len(v) : (u \o v)[j] = IF j <= Len(u) THEN u[j] ELSE v[j - Len(u)]
  BY <1>2, <1>3, ConcatProperties
<1>6. Len(u) + Len(v) = Len(b) - 1
  BY <1>1, <1>2, <1>3
<1>7. ASSUME NEW j \in 1..Len(b) - 1
      PROVE  (u \o v)[j] = b[IF j < i THEN j ELSE j + 1]
  <2>1. CASE j < i
    <3>1. j \in 1..(i - 1) /\ j <= Len(u)
      BY <1>1, <1>2, <2>1
    <3>2. QED
      BY <1>2, <1>5, <1>6, <2>1, <3>1
  <2>2. CASE ~(j < i)
    <3>1. j - Len(u) \in 1..(Len(b) - i) /\ ~(j <= Len(u)) /\ i + (j - Len(u)) = j + 1
      BY <1>1, <1>2, <2>2
    <3>2. QED
      BY <1>3, <1>5, <1>6, <2>2, <3>1
  <2>3. QED
    BY <2>1, <2>2
<1>8. QED
  BY <1>4, <1>5, <1>6, <1>7

\* A request that is answered leaves its worker, and the origin waits no longer.
LEMMA PlacesLeave ==
    ASSUME NEW q, NEW b, NEW pc \in [Handlers -> HandlerStates], NEW i \in 1..Len(b), NEW at,
           Places(q, b, pc)
    PROVE  Places(q, RemoveAt(b, i), [pc EXCEPT ![b[i].of] = at])
<1> DEFINE v == RemoveAt(b, i)  h == b[i].of  pd == [pc EXCEPT ![h] = at]
           old(j) == IF j < i THEN j ELSE j + 1
<1>1. b \in Seq(Requests) /\ Len(b) \in Nat /\ Len(b) <= Workers
  BY DEF Places
<1>2. v \in Seq(Requests) /\ Len(v) = Len(b) - 1 /\ \A j \in 1..Len(v) : v[j] = b[old(j)]
  BY <1>1, WithoutOne
<1>3. \A j \in 1..Len(v) : old(j) \in 1..Len(b) /\ old(j) # i
  BY <1>1, <1>2
<1>4. \A j, k \in 1..Len(v) : old(j) = old(k) => j = k
  BY <1>1, <1>2
<1>5. \A j \in 1..Len(b) : b[j].of \in Handlers /\ (j # i => b[j].of # h)
  <2>1. \A j \in 1..Len(b) : b[j] \in Requests
    BY DEF Places
  <2>2. \A x \in Requests : x.of \in Handlers
    BY DEF Requests
  <2>3. QED
    BY <2>1, <2>2 DEF Places
<1>6. \A j \in 1..Len(q) : q[j] \in Handlers /\ q[j] # h
  BY DEF Places
<1>7. \A g \in Handlers : g # h => pd[g] = pc[g]
  OBVIOUS
<1> HIDE DEF v, h, pd, old
<1>8. \A j \in 1..Len(v) : pd[v[j].of] = "wait"
  BY <1>2, <1>3, <1>5, <1>7 DEF Places
<1>9. \A j \in 1..Len(q) : pd[q[j]] = "wait"
  BY <1>6, <1>7 DEF Places
<1>10. \A j, k \in 1..Len(v) : v[j].of = v[k].of => j = k
  <2> SUFFICES ASSUME NEW j \in 1..Len(v), NEW k \in 1..Len(v), v[j].of = v[k].of
               PROVE  j = k
    OBVIOUS
  <2>1. old(j) = old(k)
    BY <1>2, <1>3 DEF Places
  <2>2. QED
    BY <1>4, <2>1
<1>11. \A j \in 1..Len(q), k \in 1..Len(v) : q[j] # v[k].of
  BY <1>2, <1>3 DEF Places
<1>12. Len(v) <= Workers
  BY <1>1, <1>2, FetchAssumption
<1>13. Places(q, v, pd)
  BY <1>2, <1>8, <1>9, <1>10, <1>11, <1>12 DEF Places
<1>14. QED
  BY <1>13 DEF v, h, pd

-----------------------------------------------------------------------------
(* Set.Fetch *)

GoodNow(h) == Good(kind[h], got[h].want, h \in clean)

\* The goroutine of an origin, wherever it is.
HandlerOK(k, w, list, gs, pc, good) ==
    /\ Handled(k, w, list, gs, good)
    /\ pc = "wait" => gs # <<>> /\ k # "unknown"
    /\ pc = "return" => gs = <<>>
    /\ pc \in {"panicked", "counted"} => ~good

Tells(k, w, told, good) == told = NoResults \/ Told(k, w, told, good)

FetchShapes ==
    /\ kind \in [Handlers -> Followed] /\ hpc \in [Handlers -> HandlerStates]
    /\ groups = [h \in Handlers |-> groups[h]]
    /\ got = [h \in Handlers |-> [want |-> got[h].want, list |-> got[h].list]]
    /\ frs = [h \in Handlers |-> frs[h]]
    /\ \A h \in Handlers : IsWanted(got[h].want)

HandlersOK ==
    \A h \in Handlers : HandlerOK(kind[h], got[h].want, got[h].list, groups[h], hpc[h], GoodNow(h))

ToldOK ==
    \A h \in Handlers :
        /\ Tells(kind[h], got[h].want, frs[h], GoodNow(h))
        /\ returned # NoResults => Tells(kind[h], got[h].want, returned[h], GoodNow(h))

\* The inductive invariant of Set.Fetch.
FetchInd == FetchShapes /\ Places(queue, busy, hpc) /\ HandlersOK /\ ToldOK

\* A step of the goroutine of one origin.
StepOf(h, list, gs, at) ==
    /\ got' = [got EXCEPT ![h].list = list] /\ groups' = [groups EXCEPT ![h] = gs]
    /\ hpc' = [hpc EXCEPT ![h] = at] /\ clean' \in {clean, clean \ {h}} /\ kind' = kind

\* As WeakerMatches, for a goroutine
LEMMA HandlerWeaker ==
    ASSUME NEW k, NEW w, NEW list, NEW gs, NEW pc, NEW good, NEW weaker, weaker => good,
           HandlerOK(k, w, list, gs, pc, good)
    PROVE  HandlerOK(k, w, list, gs, pc, weaker)
  BY HandledWeaker DEF HandlerOK

\* and for its results in the map.
LEMMA TellsWeaker ==
    ASSUME NEW k, NEW w, NEW told, NEW good, NEW weaker, weaker => good, Tells(k, w, told, good)
    PROVE  Tells(k, w, told, weaker)
  BY WeakerMatches DEF Tells, Told

\* A step of one origin changes nothing of the others; no origin is given back the
\* promise that its replies were complete.
LEMMA StepShapes ==
    ASSUME FetchShapes, NEW h \in Handlers, NEW list, NEW gs, NEW at \in HandlerStates,
           StepOf(h, list, gs, at)
    PROVE  /\ \A g \in Handlers : /\ got'[g].want = got[g].want /\ (GoodNow(g)' => GoodNow(g))
                                  /\ g # h => /\ got'[g].list = got[g].list /\ groups'[g] = groups[g]
                                              /\ hpc'[g] = hpc[g]
           /\ got'[h].list = list /\ groups'[h] = gs /\ hpc'[h] = at
           /\ frs' = frs => FetchShapes'
<1>1. /\ kind \in [Handlers -> Followed] /\ hpc \in [Handlers -> HandlerStates]
      /\ groups = [g \in Handlers |-> groups[g]]
      /\ got = [g \in Handlers |-> [want |-> got[g].want, list |-> got[g].list]]
      /\ frs = [g \in Handlers |-> frs[g]]
      /\ \A g \in Handlers : IsWanted(got[g].want)
  BY DEF FetchShapes
<1>2. /\ got' = [g \in Handlers |-> IF g = h THEN [want |-> got[h].want, list |-> list] ELSE got[g]]
      /\ groups' = [g \in Handlers |-> IF g = h THEN gs ELSE groups[g]]
      /\ hpc' = [g \in Handlers |-> IF g = h THEN at ELSE hpc[g]]
      /\ kind' = kind /\ clean' \subseteq clean
  <2>1. [got[h] EXCEPT !.list = list] = [want |-> got[h].want, list |-> list]
    BY <1>1
  <2>2. got' = [got EXCEPT ![h] = [got[h] EXCEPT !.list = list]]
    BY DEF StepOf
  <2>3. got' = [g \in Handlers |-> IF g = h THEN [want |-> got[h].want, list |-> list] ELSE got[g]]
    BY <1>1, <2>1, <2>2
  <2>4. QED
    BY <1>1, <2>3 DEF StepOf
<1>3. \A g \in Handlers : got'[g].want = got[g].want
  BY <1>2
<1>4. \A g \in Handlers : GoodNow(g)' => GoodNow(g)
  BY <1>2, <1>3 DEF GoodNow, Good
<1>5. /\ \A g \in Handlers : g # h => got'[g].list = got[g].list /\ groups'[g] = groups[g] /\ hpc'[g] = hpc[g]
      /\ got'[h].list = list /\ groups'[h] = gs /\ hpc'[h] = at
  BY <1>2
<1>6. ASSUME frs' = frs
      PROVE  FetchShapes'
  <2>1. got' = [g \in Handlers |-> [want |-> got'[g].want, list |-> got'[g].list]]
    BY <1>1, <1>2
  <2>2. groups' = [g \in Handlers |-> groups'[g]] /\ hpc' \in [Handlers -> HandlerStates]
    BY <1>1, <1>2
  <2>3. \A g \in Handlers : IsWanted(got'[g].want)
    BY <1>1, <1>3
  <2>4. QED
    BY <1>1, <1>2, <1>6, <2>1, <2>2, <2>3 DEF FetchShapes, IsWanted
<1>7. QED
  BY <1>3, <1>4, <1>5, <1>6

\* It is enough to show that a step keeps what is said of its own origin.
LEMMA StepKeeps ==
    ASSUME FetchShapes, HandlersOK, ToldOK,
           NEW h \in Handlers, NEW list, NEW gs, NEW at \in HandlerStates, StepOf(h, list, gs, at),
           HandlerOK(kind[h], got[h].want, list, gs, at, GoodNow(h)'),
           frs' = frs, returned' = returned
    PROVE  FetchShapes' /\ HandlersOK' /\ ToldOK'
<1>1. /\ \A g \in Handlers : got'[g].want = got[g].want /\ (GoodNow(g)' => GoodNow(g))
      /\ \A g \in Handlers : g # h => got'[g].list = got[g].list /\ groups'[g] = groups[g] /\ hpc'[g] = hpc[g]
      /\ got'[h].list = list /\ groups'[h] = gs /\ hpc'[h] = at
      /\ FetchShapes' /\ kind' = kind
  <2>1. kind' = kind
    BY DEF StepOf
  <2>2. QED
    BY <2>1, StepShapes
<1>2. ASSUME NEW g \in Handlers
      PROVE  HandlerOK(kind'[g], got'[g].want, got'[g].list, groups'[g], hpc'[g], GoodNow(g)')
  <2>1. CASE g = h
    BY <1>1, <2>1
  <2>2. CASE g # h
    <3>1. HandlerOK(kind[g], got[g].want, got[g].list, groups[g], hpc[g], GoodNow(g))
      BY DEF HandlersOK
    <3>2. HandlerOK(kind[g], got[g].want, got[g].list, groups[g], hpc[g], GoodNow(g)')
      BY <1>1, <3>1, HandlerWeaker
    <3>3. QED
      BY <1>1, <2>2, <3>2
  <2>3. QED
    BY <2>1, <2>2
<1>3. ASSUME NEW g \in Handlers
      PROVE  /\ Tells(kind'[g], got'[g].want, frs'[g], GoodNow(g)')
             /\ returned' # NoResults => Tells(kind'[g], got'[g].want, returned'[g], GoodNow(g)')
  <2>1. /\ Tells(kind[g], got[g].want, frs[g], GoodNow(g))
        /\ returned # NoResults => Tells(kind[g], got[g].want, returned[g], GoodNow(g))
    BY DEF ToldOK
  <2>2. /\ Tells(kind[g], got[g].want, frs[g], GoodNow(g)')
        /\ returned # NoResults => Tells(kind[g], got[g].want, returned[g], GoodNow(g)')
    BY <1>1, <2>1, TellsWeaker
  <2>3. QED
    BY <1>1, <2>2
<1>4. QED
  BY <1>1, <1>2, <1>3 DEF HandlersOK, ToldOK

\* The two ways in which a handler goes on.
Goes(h, list, gs, at) ==
    /\ at \in HandlerStates \ {"wait"} /\ StepOf(h, list, gs, at)
    /\ HandlerOK(kind[h], got[h].want, list, gs, at, GoodNow(h)')

\* What is promised of an origin after a step of it.
LEMMA GoodWhenStepped ==
    ASSUME FetchShapes, NEW h \in Handlers, NEW list, NEW gs, NEW at \in HandlerStates,
           StepOf(h, list, gs, at)
    PROVE  /\ GoodNow(h)' <=> Good(kind[h], got[h].want, h \in clean')
           /\ GoodNow(h)' => GoodNow(h)
<1>1. got'[h].want = got[h].want /\ (GoodNow(h)' => GoodNow(h))
  BY StepShapes
<1>2. kind' = kind
  BY DEF StepOf
<1>3. QED
  BY <1>1, <1>2 DEF GoodNow, Good

\* The results and the requests when they stay as they are.
LEMMA SameExcept ==
    ASSUME FetchShapes, NEW h \in Handlers
    PROVE  got = [got EXCEPT ![h].list = got[h].list] /\ groups = [groups EXCEPT ![h] = groups[h]]
<1>1. /\ groups = [g \in Handlers |-> groups[g]]
      /\ got = [g \in Handlers |-> [want |-> got[g].want, list |-> got[g].list]]
  BY DEF FetchShapes
<1>2. [got[h] EXCEPT !.list = got[h].list] = got[h]
  BY <1>1
<1>3. got = [got EXCEPT ![h] = got[h]]
  BY <1>1
<1>4. QED
  BY <1>1, <1>2, <1>3

\* What a handler that gives up returns: all pairs of the caller, with an error.
LEMMA FailedIsErrors ==
    ASSUME FetchShapes, NEW h \in Handlers
    PROVE  Failed(h) = Errors(Renamed(got[h].want)) /\ IsSeq(got[h].want)
<1>1. IsSeq(got[h].want)
  BY DEF FetchShapes, IsWanted
<1> DEFINE w == got[h].want
<1>2. Len(Renamed(w)) = Len(w) /\ \A i \in 1..Len(w) : Renamed(w)[i] = replacePair(w[i])
  BY <1>1, RenamedIsSeq
<1>3. QED
  BY <1>1, <1>2 DEF Failed, Errors

\* A handler that gives up.
LEMMA EndWithGoes ==
    ASSUME FetchShapes, NEW h \in Handlers, EndWith(h, Failed(h)), kind' = kind,
           clean' \in {clean, clean \ {h}},
           ~Good(kind[h], got[h].want, h \in clean')
    PROVE  Goes(h, Failed(h), <<>>, "return")
<1>1. StepOf(h, Failed(h), <<>>, "return") /\ "return" \in HandlerStates \ {"wait"}
  BY DEF EndWith, StepOf, At, HandlerStates
<1>2. ~GoodNow(h)'
  BY <1>1, GoodWhenStepped
<1>3. Handled(kind[h], got[h].want, Failed(h), <<>>, FALSE)
  BY FailedIsErrors, HandledByErrors
<1>4. Handled(kind[h], got[h].want, Failed(h), <<>>, GoodNow(h)')
  BY <1>2, <1>3, HandledWeaker
<1>5. QED
  BY <1>1, <1>4 DEF Goes, HandlerOK

\* A reply is handled.
LEMMA HandleGoes ==
    ASSUME FetchShapes, HandlersOK, NEW h \in Handlers, NEW r, Handle(h, r), kind' = kind,
           groups[h] # <<>>, kind[h] # "unknown",
           DOMAIN r.entries \subseteq Markets(kind[h], Head(groups[h])),
           clean' \in {clean, clean \ {h}},
           h \in clean' /\ kind[h] \notin PostOrigins => Complete(kind[h], Head(groups[h]), r)
    PROVE  \E list, gs, at : Goes(h, list, gs, at)
<1> DEFINE k == kind[h]  w == got[h].want  gs == groups[h]  ps == Head(groups[h])
           x == PullPrices(k, ps, r)  good == Good(k, w, h \in clean')
<1>1. k \in Followed \ {"unknown"} /\ IsSeq(w)
  BY DEF FetchShapes, IsWanted
<1>2. Handled(k, w, got[h].list, gs, GoodNow(h))
  BY DEF HandlersOK, HandlerOK
<1>3. /\ IsSeq(ps)
      /\ k \in BatchOrigins => ps = Renamed(w)
      /\ k \notin BatchOrigins => Len(ps) = 1
  <2> HIDE DEF k, w
  <2>1. gs # <<>> /\ ps = Head(gs) /\ k \in Followed
    BY <1>1
  <2> HIDE DEF gs, ps
  <2>2. QED
    BY <1>1, <1>2, <2>1, HeadOfGroups
<1>4. good => Complete(k, ps, r) /\ Served(k, ps, r)
  <2>1. good => Complete(k, ps, r)
    BY DEF Good
  <2> HIDE DEF k, w, ps
  <2>2. QED
    BY <1>1, <1>3, <2>1, CompleteIsServed
<1>5. Answers(k, ps, x, Served(k, ps, r))
  <2>1. k \in SingleOrigins => k \notin BatchOrigins
    BY DEF SingleOrigins, BatchOrigins
  <2>2. DOMAIN r.entries \subseteq Markets(k, ps)
    OBVIOUS
  <2> HIDE DEF k, ps
  <2>3. QED
    BY <1>1, <1>3, <2>1, <2>2, HandlersAnswer
<1>6. CASE EndsFetch(k, ps[1], r)
  <2>1. ~Complete(k, ps, r)
    BY <1>6, CompleteIsTyped DEF EndsFetch
  <2>2. EndWith(h, Failed(h))
    BY <1>6 DEF Handle
  <2>3. QED
    BY <1>4, <2>1, <2>2, EndWithGoes
<1>7. CASE ~EndsFetch(k, ps[1], r) /\ x = Panic /\ ~Served(k, ps, r)
  <2>1. x.panic = TRUE
    <3> HIDE DEF x
    <3>1. QED
      BY <1>7 DEF Panic
  <2>2. At(h, "panicked") /\ UNCHANGED <<groups, got>>
    <3>1. x = PullPrices(kind[h], Head(groups[h]), r) /\ ~EndsFetch(kind[h], Head(groups[h])[1], r)
      BY <1>7
    <3> HIDE DEF x
    <3>2. QED
      BY <2>1, <3>1 DEF Handle
  <2>3. StepOf(h, got[h].list, gs, "panicked") /\ "panicked" \in HandlerStates \ {"wait"}
    BY <2>2, SameExcept DEF StepOf, At, HandlerStates
  <2>4. ~GoodNow(h)' /\ (GoodNow(h)' => GoodNow(h))
    BY <1>4, <1>7, <2>3, GoodWhenStepped
  <2>5. Handled(k, w, got[h].list, gs, GoodNow(h)')
    BY <1>2, <2>4, HandledWeaker
  <2>6. Goes(h, got[h].list, gs, "panicked")
    BY <2>3, <2>4, <2>5 DEF Goes, HandlerOK
  <2>7. QED
    BY <2>6
<1>8. ASSUME ~EndsFetch(k, ps[1], r), NEW more, x = Result(more), Matches(k, ps, more, Served(k, ps, r))
      PROVE  \E list, gt, at : Goes(h, list, gt, at)
  <2>1. /\ got' = [got EXCEPT ![h].list = @ \o more] /\ groups' = [groups EXCEPT ![h] = Tail(@)]
        /\ At(h, "ask")
    <3>1. x = PullPrices(kind[h], Head(groups[h]), r) /\ ~EndsFetch(kind[h], Head(groups[h])[1], r)
      BY <1>8
    <3> HIDE DEF x
    <3>2. x.panic = FALSE /\ x.list = more
      BY <1>8 DEF Result
    <3>3. QED
      BY <3>1, <3>2 DEF Handle
  <2>2. StepOf(h, got[h].list \o more, Tail(gs), "ask") /\ "ask" \in HandlerStates \ {"wait"}
    BY <2>1 DEF StepOf, At, HandlerStates
  <2>3. GoodNow(h)' => GoodNow(h) /\ Served(k, ps, r)
    BY <1>4, <2>2, GoodWhenStepped
  <2>4. Matches(k, ps, more, GoodNow(h)')
    BY <1>8, <2>3, WeakerMatches
  <2>5. Handled(k, w, got[h].list \o more, Tail(gs), GoodNow(h)')
    <3>1. gs # <<>> /\ ps = Head(gs)
      OBVIOUS
    <3> HIDE DEF k, w, gs, ps
    <3>2. QED
      BY <1>1, <1>2, <2>3, <2>4, <3>1, HandledNext
  <2>6. Goes(h, got[h].list \o more, Tail(gs), "ask")
    BY <2>2, <2>5 DEF Goes, HandlerOK
  <2>7. QED
    BY <2>6
<1>9. QED
  BY <1>5, <1>6, <1>7, <1>8 DEF Answers

\* A handler goes on, somehow.
Proceeds(h) == \E list, gs, at : Goes(h, list, gs, at)

\* Such a step keeps the inductive invariant.
LEMMA ProceedsKeeps ==
    ASSUME FetchInd, NEW h \in Handlers, Proceeds(h), UNCHANGED <<frs, returned>>,
           \A at : Places(queue', busy', [hpc EXCEPT ![h] = at])
    PROVE  FetchInd'
<1>1. PICK list, gs, at : Goes(h, list, gs, at)
  BY DEF Proceeds
<1>2. /\ at \in HandlerStates /\ StepOf(h, list, gs, at)
      /\ HandlerOK(kind[h], got[h].want, list, gs, at, GoodNow(h)')
  BY <1>1 DEF Goes
<1>3. FetchShapes' /\ HandlersOK' /\ ToldOK'
  <2>1. FetchShapes /\ HandlersOK /\ ToldOK
    BY DEF FetchInd
  <2>2. QED
    BY <1>2, <2>1, StepKeeps
<1>4. Places(queue', busy', hpc')
  BY <1>2 DEF StepOf
<1>5. Places(queue, busy, hpc)'
  BY <1>4 DEF Places
<1>6. QED
  BY <1>3, <1>5 DEF FetchInd

\* A server answers with markets that it was asked for.
LEMMA RepliesName ==
    ASSUME NEW k, NEW ps, NEW r, r \in Replies(k, ps) \/ r = FailedReply
    PROVE  DOMAIN r.entries \subseteq Markets(k, ps)
<1> DEFINE M == Markets(k, ps)  V == {"good", "blank", "bad", "short", "frozen"}
<1>1. CASE r \in {FailedReply, Reply(FALSE, TRUE, FALSE, NoEntries), Reply(FALSE, FALSE, TRUE, NoEntries)}
  <2>1. r.entries = NoEntries
    BY <1>1 DEF FailedReply, Reply
  <2>2. DOMAIN NoEntries = {}
    BY DEF NoEntries
  <2>3. QED
    BY <2>1, <2>2
<1>2. CASE r \in UNION {{Reply(FALSE, FALSE, FALSE, e) : e \in [ms -> V]} : ms \in SUBSET M}
  <2> HIDE DEF M, V
  <2>1. PICK ms \in SUBSET M : \E e \in [ms -> V] : r = Reply(FALSE, FALSE, FALSE, e)
    BY <1>2
  <2>2. PICK e \in [ms -> V] : r = Reply(FALSE, FALSE, FALSE, e)
    BY <2>1
  <2>3. r.entries = e
    BY <2>2 DEF Reply
  <2>4. DOMAIN r.entries \subseteq M
    BY <2>3
  <2>5. QED
    BY <2>4 DEF M
<1>3. QED
  BY <1>1, <1>2 DEF Replies

\* A request is answered, or it has failed for good.
LEMMA AnswerProceeds ==
    ASSUME FetchInd, NEW h \in Handlers, NEW tries, kind' = kind,
           groups[h] # <<>>, kind[h] # "unknown",
           Answer(h, tries) \/ (Handle(h, FailedReply) /\ clean' = clean \ {h})
    PROVE  Proceeds(h)
<1>1. FetchShapes /\ HandlersOK
  BY DEF FetchInd
<1>2. PICK r : /\ Handle(h, r)
               /\ r \in Replies(kind[h], Head(groups[h])) \/ r = FailedReply
               /\ clean' \in {clean, clean \ {h}}
               /\ h \in clean' /\ kind[h] \notin PostOrigins => Complete(kind[h], Head(groups[h]), r)
  <2>1. CASE Answer(h, tries)
    <3>1. PICK r \in Replies(kind[h], Head(groups[h])) :
            /\ Handle(h, r)
            /\ clean' = IF Spent(h, tries) \/ Complete(kind[h], Head(groups[h]), r) THEN clean ELSE clean \ {h}
      BY <2>1 DEF Answer
    <3>2. kind[h] \notin PostOrigins => ~Spent(h, tries)
      BY DEF Spent
    <3>3. QED
      BY <3>1, <3>2
  <2>2. CASE Handle(h, FailedReply) /\ clean' = clean \ {h}
    BY <2>2
  <2>3. QED
    BY <2>1, <2>2
<1>3. DOMAIN r.entries \subseteq Markets(kind[h], Head(groups[h]))
  BY <1>2, RepliesName
<1>4. QED
  BY <1>1, <1>2, <1>3, HandleGoes DEF Proceeds

\* A request is only made where there is a handler for it.
LEMMA AskedIsKnown ==
    ASSUME FetchInd, NEW h \in Handlers, CanAsk(h)
    PROVE  hpc[h] = "ask" /\ groups[h] # <<>> /\ kind[h] # "unknown"
<1>1. hpc[h] = "ask" /\ groups[h] # <<>> /\ ~FailsAtOnce(kind[h], Head(groups[h]))
  BY DEF CanAsk
<1>2. kind[h] \in Followed /\ IsSeq(got[h].want)
  BY DEF FetchInd, FetchShapes, IsWanted
<1>3. Handled(kind[h], got[h].want, got[h].list, groups[h], GoodNow(h))
  BY DEF FetchInd, HandlersOK, HandlerOK
<1>4. kind[h] \notin BatchOrigins => Len(Head(groups[h])) = 1
  BY <1>1, <1>2, <1>3, HeadOfGroups
<1>5. ASSUME kind[h] = "unknown"
      PROVE  FALSE
  <2>1. Len(Head(groups[h])) = 1
    BY <1>4, <1>5 DEF BatchOrigins
  <2>2. 1 \in 1..Len(Head(groups[h]))
    <3>1. \A n : n = 1 => 1 \in 1..n
      OBVIOUS
    <3>2. QED
      BY <2>1, <3>1
  <2>3. QED
    BY <1>1, <1>5, <2>2 DEF FailsAtOnce
<1>6. QED
  BY <1>1, <1>5

\* Each of the steps keeps the inductive invariant: a group that no request is made
\* for,
LEMMA SkipRequestKeeps ==
    ASSUME FetchInd, NEW h \in Handlers, SkipRequest(h)
    PROVE  FetchInd'
<1> DEFINE k == kind[h]  w == got[h].want  gs == groups[h]  ps == Head(groups[h])
<1>1. /\ hpc[h] = "ask" /\ gs # <<>> /\ clean' = clean \ {h} /\ kind' = kind
      /\ UNCHANGED <<queue, busy, frs, returned>>
  BY DEF SkipRequest
<1>2. FetchShapes /\ hpc \in [Handlers -> HandlerStates] /\ Places(queue, busy, hpc)
  BY DEF FetchInd, FetchShapes
<1>3. k \in Followed /\ IsSeq(w)
  BY DEF FetchInd, FetchShapes, IsWanted
<1>4. Handled(k, w, got[h].list, gs, GoodNow(h))
  BY DEF FetchInd, HandlersOK, HandlerOK
<1>5. ~Good(k, w, h \in clean')
  BY <1>1 DEF Good
<1>6. ASSUME k \in SingleOrigins \ {"ishares"}
      PROVE  Proceeds(h)
  <2>1. got' = [got EXCEPT ![h].list = got[h].list \o Errors(ps)] /\ groups' = [groups EXCEPT ![h] = Tail(gs)]
        /\ hpc' = hpc
    BY <1>6 DEF SkipRequest
  <2>2. hpc = [hpc EXCEPT ![h] = "ask"]
    BY <1>1, <1>2
  <2>3. StepOf(h, got[h].list \o Errors(ps), Tail(gs), "ask") /\ "ask" \in HandlerStates \ {"wait"}
    BY <1>1, <2>1, <2>2 DEF StepOf, HandlerStates
  <2>4. ~GoodNow(h)'
    BY <1>2, <1>5, <2>3, GoodWhenStepped
  <2>5. Handled(k, w, got[h].list \o Errors(ps), Tail(gs), FALSE)
    <3> HIDE DEF k, w
    <3>1. IsSeq(ps)
      BY <1>1, <1>3, <1>4, HeadOfGroups
    <3>2. Matches(k, ps, Errors(ps), FALSE)
      BY <3>1, ErrorsMatch
    <3>3. QED
      BY <1>1, <1>3, <1>4, <3>2, HandledNext
  <2>6. Handled(k, w, got[h].list \o Errors(ps), Tail(gs), GoodNow(h)')
    BY <2>4, <2>5, HandledWeaker
  <2>7. Goes(h, got[h].list \o Errors(ps), Tail(gs), "ask")
    BY <2>3, <2>6 DEF Goes, HandlerOK
  <2>8. QED
    BY <2>7 DEF Proceeds
<1>7. ASSUME k \notin SingleOrigins \ {"ishares"}
      PROVE  Proceeds(h)
  <2>1. EndWith(h, Failed(h))
    BY <1>7 DEF SkipRequest
  <2>2. Goes(h, Failed(h), <<>>, "return")
    BY <1>1, <1>2, <1>5, <2>1, EndWithGoes
  <2>3. QED
    BY <2>2 DEF Proceeds
<1>8. Proceeds(h)
  BY <1>6, <1>7
<1>9. \A at : Places(queue', busy', [hpc EXCEPT ![h] = at])
  BY <1>1, <1>2, PlacesOther
<1>10. QED
  BY <1>1, <1>8, <1>9, ProceedsKeeps

\* a request that is put in the channel,
LEMMA QueryKeeps ==
    ASSUME FetchInd, NEW h \in Handlers, Query(h)
    PROVE  FetchInd'
<1>1. /\ CanAsk(h) /\ Len(queue) < Workers /\ queue' = Append(queue, h) /\ At(h, "wait")
      /\ UNCHANGED <<kind, groups, got, busy, frs, returned, clean>>
  BY DEF Query
<1>2. hpc[h] = "ask" /\ groups[h] # <<>> /\ kind[h] # "unknown"
  BY <1>1, AskedIsKnown
<1>3. FetchShapes /\ HandlersOK /\ ToldOK /\ hpc \in [Handlers -> HandlerStates] /\ Places(queue, busy, hpc)
  BY DEF FetchInd, FetchShapes
<1>4. StepOf(h, got[h].list, groups[h], "wait") /\ "wait" \in HandlerStates
  BY <1>1, <1>3, SameExcept DEF StepOf, At, HandlerStates
<1>5. GoodNow(h)' => GoodNow(h)
  BY <1>3, <1>4, GoodWhenStepped
<1>6. Handled(kind[h], got[h].want, got[h].list, groups[h], GoodNow(h)')
  BY <1>3, <1>5, HandledWeaker DEF HandlersOK, HandlerOK
<1>7. HandlerOK(kind[h], got[h].want, got[h].list, groups[h], "wait", GoodNow(h)')
  BY <1>2, <1>6 DEF HandlerOK
<1>8. FetchShapes' /\ HandlersOK' /\ ToldOK'
  BY <1>1, <1>3, <1>4, <1>7, StepKeeps
<1>9. Places(queue', busy', hpc')
  BY <1>1, <1>2, <1>3, PlacesQuery DEF At
<1>10. Places(queue, busy, hpc)'
  BY <1>9 DEF Places
<1>11. QED
  BY <1>8, <1>10 DEF FetchInd

\* Nothing that the goroutines see has changed.
LEMMA Untouched ==
    ASSUME FetchInd, UNCHANGED <<kind, groups, hpc, got, frs, returned, clean>>
    PROVE  FetchShapes' /\ HandlersOK' /\ ToldOK'
  BY DEF FetchInd, FetchShapes, HandlersOK, ToldOK, GoodNow

\* taken from it by a worker,
LEMMA TakeRequestKeeps ==
    ASSUME FetchInd, TakeRequest
    PROVE  FetchInd'
<1>1. FetchShapes' /\ HandlersOK' /\ ToldOK'
  BY Untouched DEF TakeRequest
<1>2. hpc \in [Handlers -> HandlerStates] /\ Places(queue, busy, hpc)
  BY DEF FetchInd, FetchShapes
<1>3. Places(queue', busy', hpc')
  BY <1>2, PlacesTake DEF TakeRequest
<1>4. Places(queue, busy, hpc)'
  BY <1>3 DEF Places
<1>5. QED
  BY <1>1, <1>4 DEF FetchInd

\* The origin of a request that a worker is at.
LEMMA AtWorker ==
    ASSUME FetchInd, NEW i \in 1..Len(busy)
    PROVE  /\ busy[i].of \in Handlers
           /\ groups[busy[i].of] # <<>> /\ kind[busy[i].of] # "unknown"
           /\ \A at : Places(queue, RemoveAt(busy, i), [hpc EXCEPT ![busy[i].of] = at])
<1>1. Places(queue, busy, hpc) /\ hpc \in [Handlers -> HandlerStates]
  BY DEF FetchInd, FetchShapes
<1>2. busy[i].of \in Handlers /\ hpc[busy[i].of] = "wait"
  <2>1. busy[i] \in Requests /\ hpc[busy[i].of] = "wait"
    BY <1>1 DEF Places
  <2>2. QED
    BY <2>1 DEF Requests
<1>3. groups[busy[i].of] # <<>> /\ kind[busy[i].of] # "unknown"
  BY <1>2 DEF FetchInd, HandlersOK, HandlerOK
<1>4. \A at : Places(queue, RemoveAt(busy, i), [hpc EXCEPT ![busy[i].of] = at])
  BY <1>1, PlacesLeave
<1>5. QED
  BY <1>2, <1>3, <1>4

\* and answered;
LEMMA TryAnsweredKeeps ==
    ASSUME FetchInd, NEW i, TryAnswered(i)
    PROVE  FetchInd'
<1> DEFINE h == busy[i].of
<1>1. /\ i \in 1..Len(busy) /\ Answer(h, busy[i].tries) /\ busy' = RemoveAt(busy, i)
      /\ kind' = kind /\ queue' = queue /\ UNCHANGED <<frs, returned>>
  BY DEF TryAnswered
<1>2. /\ h \in Handlers /\ groups[h] # <<>> /\ kind[h] # "unknown"
      /\ \A at : Places(queue', busy', [hpc EXCEPT ![h] = at])
  BY <1>1, AtWorker
<1> HIDE DEF h
<1>3. Proceeds(h)
  BY <1>1, <1>2, AnswerProceeds
<1>4. QED
  BY <1>1, <1>2, <1>3, ProceedsKeeps

\* a try that fails, the last one or not;
LEMMA TryFailsKeeps ==
    ASSUME FetchInd, NEW i, TryFails(i)
    PROVE  FetchInd'
<1> DEFINE h == busy[i].of
<1>1. i \in 1..Len(busy) /\ kind' = kind /\ queue' = queue /\ UNCHANGED <<frs, returned>>
  BY DEF TryFails
<1>2. CASE busy[i].tries < Retry
  <2>1. busy' = [busy EXCEPT ![i].tries = @ + 1] /\ UNCHANGED <<groups, hpc, got, clean>>
    BY <1>2 DEF TryFails
  <2>2. FetchShapes' /\ HandlersOK' /\ ToldOK'
    BY <1>1, <2>1, Untouched
  <2>3. Places(queue, busy, hpc)
    BY DEF FetchInd
  <2>4. Places(queue', busy', hpc')
    BY <1>1, <1>2, <2>1, <2>3, PlacesTry
  <2>5. Places(queue, busy, hpc)'
    BY <2>4 DEF Places
  <2>6. QED
    BY <2>2, <2>5 DEF FetchInd
<1>3. CASE ~(busy[i].tries < Retry)
  <2>1. Handle(h, FailedReply) /\ busy' = RemoveAt(busy, i) /\ clean' = clean \ {h}
    BY <1>3 DEF TryFails
  <2>2. /\ h \in Handlers /\ groups[h] # <<>> /\ kind[h] # "unknown"
        /\ \A at : Places(queue', busy', [hpc EXCEPT ![h] = at])
    BY <1>1, <2>1, AtWorker
  <2> HIDE DEF h
  <2>3. Proceeds(h)
    BY <1>1, <2>1, <2>2, AnswerProceeds
  <2>4. QED
    BY <1>1, <2>2, <2>3, ProceedsKeeps
<1>4. QED
  BY <1>2, <1>3

\* the calls of an Ethereum client;
LEMMA EthCallKeeps ==
    ASSUME FetchInd, NEW h \in Handlers, EthCall(h)
    PROVE  FetchInd'
<1>1. /\ CanAsk(h) /\ kind' = kind /\ queue' = queue /\ busy' = busy /\ UNCHANGED <<frs, returned>>
      /\ Answer(h, 1) \/ (Handle(h, FailedReply) /\ clean' = clean \ {h})
  BY DEF EthCall
<1>2. hpc[h] = "ask" /\ groups[h] # <<>> /\ kind[h] # "unknown"
  BY <1>1, AskedIsKnown
<1>3. Proceeds(h)
  BY <1>1, <1>2, AnswerProceeds
<1>4. Places(queue, busy, hpc) /\ hpc \in [Handlers -> HandlerStates]
  BY DEF FetchInd, FetchShapes
<1>5. \A at : Places(queue', busy', [hpc EXCEPT ![h] = at])
  BY <1>1, <1>2, <1>4, PlacesOther
<1>6. QED
  BY <1>1, <1>3, <1>5, ProceedsKeeps

\* The results of an origin are put in the map.
LEMMA ToldKeeps ==
    ASSUME FetchInd, NEW h \in Handlers, NEW told, hpc[h] # "wait",
           Told(kind[h], got[h].want, told, GoodNow(h)),
           frs' = [frs EXCEPT ![h] = told], At(h, "done"),
           UNCHANGED <<kind, groups, got, queue, busy, returned, clean>>
    PROVE  FetchInd'
<1>1. /\ FetchShapes /\ hpc \in [Handlers -> HandlerStates] /\ frs = [g \in Handlers |-> frs[g]]
      /\ Places(queue, busy, hpc)
  BY DEF FetchInd, FetchShapes
<1>2. /\ \A g \in Handlers : hpc'[g] = IF g = h THEN "done" ELSE hpc[g]
      /\ hpc' \in [Handlers -> HandlerStates]
  BY <1>1 DEF At, HandlerStates
<1>3. /\ \A g \in Handlers : frs'[g] = IF g = h THEN told ELSE frs[g]
      /\ frs' = [g \in Handlers |-> frs'[g]]
  BY <1>1
<1>4. FetchShapes'
  BY <1>1, <1>2, <1>3 DEF FetchShapes
<1>5. \A g \in Handlers : GoodNow(g)' = GoodNow(g)
  BY DEF GoodNow
<1>6. ASSUME NEW g \in Handlers
      PROVE  HandlerOK(kind'[g], got'[g].want, got'[g].list, groups'[g], hpc'[g], GoodNow(g)')
  <2>1. HandlerOK(kind[g], got[g].want, got[g].list, groups[g], hpc[g], GoodNow(g))
    BY DEF FetchInd, HandlersOK
  <2>2. HandlerOK(kind[g], got[g].want, got[g].list, groups[g], hpc'[g], GoodNow(g))
    BY <1>2, <2>1 DEF HandlerOK
  <2>3. QED
    BY <1>5, <2>2
<1>7. ASSUME NEW g \in Handlers
      PROVE  /\ Tells(kind'[g], got'[g].want, frs'[g], GoodNow(g)')
             /\ returned' # NoResults => Tells(kind'[g], got'[g].want, returned'[g], GoodNow(g)')
  <2>1. /\ Tells(kind[g], got[g].want, frs[g], GoodNow(g))
        /\ returned # NoResults => Tells(kind[g], got[g].want, returned[g], GoodNow(g))
    BY DEF FetchInd, ToldOK
  <2>2. Tells(kind[h], got[h].want, told, GoodNow(h))
    BY DEF Tells
  <2>3. Tells(kind[g], got[g].want, frs'[g], GoodNow(g))
    BY <1>3, <2>1, <2>2
  <2>4. QED
    BY <1>5, <2>1, <2>3
<1>8. Places(queue', busy', hpc')
  BY <1>1, PlacesOther DEF At
<1>9. Places(queue, busy, hpc)'
  BY <1>8 DEF Places
<1>10. QED
  BY <1>4, <1>6, <1>7, <1>9 DEF FetchInd, HandlersOK, ToldOK

\* the end of a goroutine: nothing was left to ask for;
LEMMA GoroutineEndsKeeps ==
    ASSUME FetchInd, NEW h \in Handlers, GoroutineEnds(h)
    PROVE  FetchInd'
<1>1. /\ hpc[h] = "return" \/ (hpc[h] = "ask" /\ groups[h] = <<>>)
      /\ frs' = [frs EXCEPT ![h] = Named(got[h].list)] /\ At(h, "done")
      /\ UNCHANGED <<kind, groups, got, queue, busy, returned, clean>>
  BY DEF GoroutineEnds
<1>2. HandlerOK(kind[h], got[h].want, got[h].list, groups[h], hpc[h], GoodNow(h)) /\ IsSeq(got[h].want)
  BY DEF FetchInd, FetchShapes, HandlersOK, IsWanted
<1>3. groups[h] = <<>> /\ Handled(kind[h], got[h].want, got[h].list, groups[h], GoodNow(h))
  BY <1>1, <1>2 DEF HandlerOK
<1>4. Matches(kind[h], Renamed(got[h].want), got[h].list, GoodNow(h))
  BY <1>2, <1>3, HandledAtLast
<1>5. Told(kind[h], got[h].want, Named(got[h].list), GoodNow(h))
  BY <1>4 DEF Told
<1>6. hpc[h] # "wait"
  BY <1>1
<1>7. QED
  BY <1>1, <1>5, <1>6, ToldKeeps

\* the errors of a handler that panicked, which no complete reply makes it do;
LEMMA PanicStoredKeeps ==
    ASSUME FetchInd, NEW h \in Handlers, PanicStored(h)
    PROVE  FetchInd'
<1>1. /\ hpc[h] = "counted" /\ frs' = [frs EXCEPT ![h] = Named(Failed(h))] /\ At(h, "done")
      /\ UNCHANGED <<kind, groups, got, queue, busy, returned, clean>>
  BY DEF PanicStored
<1>2. FetchShapes /\ ~GoodNow(h)
  BY <1>1 DEF FetchInd, HandlersOK, HandlerOK
<1>3. Failed(h) = Errors(Renamed(got[h].want)) /\ IsSeq(got[h].want)
  BY <1>2, FailedIsErrors
<1>4. Matches(kind[h], Renamed(got[h].want), Failed(h), FALSE)
  BY <1>3, HandledByErrors
<1>5. Matches(kind[h], Renamed(got[h].want), Failed(h), GoodNow(h))
  BY <1>2, <1>4, WeakerMatches
<1>6. Told(kind[h], got[h].want, Named(Failed(h)), GoodNow(h))
  BY <1>5 DEF Told
<1>7. hpc[h] # "wait"
  BY <1>1
<1>8. QED
  BY <1>1, <1>6, <1>7, ToldKeeps

\* the deferred function that counts it as done;
LEMMA PanicDoneKeeps ==
    ASSUME FetchInd, NEW h \in Handlers, PanicDone(h)
    PROVE  FetchInd'
<1>1. /\ hpc[h] = "panicked" /\ At(h, "counted")
      /\ UNCHANGED <<kind, groups, got, queue, busy, frs, returned, clean>>
  BY DEF PanicDone
<1>2. FetchShapes /\ hpc \in [Handlers -> HandlerStates] /\ Places(queue, busy, hpc)
  BY DEF FetchInd, FetchShapes
<1>3. StepOf(h, got[h].list, groups[h], "counted") /\ "counted" \in HandlerStates \ {"wait"}
  BY <1>1, <1>2, SameExcept DEF StepOf, At, HandlerStates
<1>4. GoodNow(h)' => GoodNow(h)
  BY <1>2, <1>3, GoodWhenStepped
<1>5. HandlerOK(kind[h], got[h].want, got[h].list, groups[h], "panicked", GoodNow(h))
  BY <1>1 DEF FetchInd, HandlersOK
<1>6. HandlerOK(kind[h], got[h].want, got[h].list, groups[h], "panicked", GoodNow(h)')
  BY <1>4, <1>5, HandlerWeaker
<1>7. HandlerOK(kind[h], got[h].want, got[h].list, groups[h], "counted", GoodNow(h)')
  BY <1>6 DEF HandlerOK
<1>8. Proceeds(h)
  BY <1>3, <1>7 DEF Goes, Proceeds
<1>9. \A at : Places(queue', busy', [hpc EXCEPT ![h] = at])
  BY <1>1, <1>2, PlacesOther
<1>10. QED
  BY <1>1, <1>8, <1>9, ProceedsKeeps

\* the return of Set.Fetch;
LEMMA FetchReturnsNowKeeps ==
    ASSUME FetchInd, FetchReturnsNow
    PROVE  FetchInd'
<1>1. returned' = frs /\ UNCHANGED <<kind, groups, hpc, got, queue, busy, frs, clean>>
  BY DEF FetchReturnsNow
<1>2. ToldOK'
  BY <1>1 DEF FetchInd, ToldOK, GoodNow
<1>3. FetchShapes' /\ HandlersOK'
  BY <1>1 DEF FetchInd, FetchShapes, HandlersOK, GoodNow
<1>4. Places(queue, busy, hpc)'
  BY <1>1 DEF FetchInd, Places
<1>5. QED
  BY <1>2, <1>3, <1>4 DEF FetchInd

\* and no step at all.
LEMMA FetchStutters ==
    ASSUME FetchInd, UNCHANGED fetchVars
    PROVE  FetchInd'
<1>1. FetchShapes' /\ HandlersOK' /\ ToldOK'
  BY Untouched DEF fetchVars
<1>2. Places(queue, busy, hpc)'
  BY DEF fetchVars, FetchInd, Places
<1>3. QED
  BY <1>1, <1>2 DEF FetchInd

\* Only the kinds that the provers can follow are fetched.
KindsFollowed == \A h \in Handlers : KindChoices[h] \subseteq Followed

\* At first every pair is still to be asked for, and nothing is in the pool.
LEMMA FetchInitInd ==
    ASSUME KindsFollowed, FetchInit
    PROVE  FetchInd
<1>1. PICK want \in [Handlers -> UNION {Wanted[h] : h \in Handlers}] :
        /\ \A h \in Handlers : want[h] \in Wanted[h]
        /\ groups = [h \in Handlers |->
                        Groups(kind[h], [i \in 1..Len(want[h]) |-> replacePair(want[h][i])])]
        /\ got = [h \in Handlers |-> [want |-> want[h], list |-> <<>>]]
  BY DEF FetchInit
<1>2. /\ kind \in [Handlers -> Kinds] /\ \A h \in Handlers : kind[h] \in KindChoices[h]
      /\ hpc = [h \in Handlers |-> "ask"] /\ queue = <<>> /\ busy = <<>>
      /\ frs = [h \in Handlers |-> NoResults] /\ returned = NoResults /\ clean = Handlers
  BY DEF FetchInit
<1>3. kind \in [Handlers -> Followed]
  BY <1>2 DEF KindsFollowed
<1>4. \A h \in Handlers : got[h].want = want[h] /\ got[h].list = <<>> /\ IsWanted(got[h].want)
  <2>1. \A h \in Handlers : got[h].want = want[h] /\ got[h].list = <<>>
    BY <1>1
  <2>2. \A h \in Handlers : IsWanted(want[h])
    BY <1>1, FetchAssumption DEF IsWanted, IsSeq
  <2>3. QED
    BY <2>1, <2>2
<1>5. \A h \in Handlers : groups[h] = Groups(kind[h], Renamed(got[h].want))
  <2>1. \A h \in Handlers : Renamed(want[h]) = [i \in 1..Len(want[h]) |-> replacePair(want[h][i])]
    BY DEF Renamed
  <2>2. QED
    BY <1>1, <1>4, <2>1
<1>6. FetchShapes
  <2>1. hpc \in [Handlers -> HandlerStates] /\ frs = [h \in Handlers |-> frs[h]]
    BY <1>2 DEF HandlerStates
  <2>2. groups = [h \in Handlers |-> groups[h]]
    BY <1>1
  <2>3. got = [h \in Handlers |-> [want |-> got[h].want, list |-> got[h].list]]
    BY <1>1
  <2>4. QED
    BY <1>3, <1>4, <2>1, <2>2, <2>3 DEF FetchShapes
<1>7. HandlersOK
  <2>1. ASSUME NEW h \in Handlers
        PROVE  HandlerOK(kind[h], got[h].want, got[h].list, groups[h], hpc[h], GoodNow(h))
    <3>1. Handled(kind[h], got[h].want, <<>>, Groups(kind[h], Renamed(got[h].want)), GoodNow(h))
      BY <1>3, <1>4, HandledAtFirst DEF IsWanted
    <3>2. Handled(kind[h], got[h].want, got[h].list, groups[h], GoodNow(h)) /\ hpc[h] = "ask"
      BY <1>2, <1>4, <1>5, <3>1
    <3>3. QED
      BY <3>2 DEF HandlerOK
  <2>2. QED
    BY <2>1 DEF HandlersOK
<1>8. ToldOK
  BY <1>2 DEF ToldOK, Tells
<1>9. Places(queue, busy, hpc)
  <2>1. queue = <<>> /\ busy = <<>> /\ Workers \in Nat
    BY <1>2, FetchAssumption
  <2>2. Len(<<>>) = 0 /\ 1..0 = {} /\ \A S : <<>> \in Seq(S)
    OBVIOUS
  <2>3. 0 <= Workers
    BY <2>1
  <2>4. QED
    BY <2>1, <2>2, <2>3 DEF Places
<1>10. QED
  BY <1>6, <1>7, <1>8, <1>9 DEF FetchInd

\* The inductive invariant says what AnsweredAsAsked does, with the names of the
\* handlers.
LEMMA FetchIndAnswers ==
    ASSUME FetchInd
    PROVE  FetchTypeOK /\ LabelledRight /\ CompleteGivesPrices /\ (AliasesDistinct => AnsweredOnce)
<1>1. FetchTypeOK
  <2>1. kind \in [Handlers -> Kinds] /\ \A h \in Handlers : hpc[h] \in HandlerStates
    BY DEF FetchInd, FetchShapes, Followed
  <2>2. Len(queue) <= Workers /\ Len(busy) <= Workers
    BY DEF FetchInd, Places
  <2>3. \A i \in 1..Len(busy) : busy[i] \in Requests
    BY DEF FetchInd, Places
  <2>4. \A i \in 1..Len(busy) : busy[i].tries \in 1..Retry
    BY <2>3 DEF Requests
  <2>5. QED
    BY <2>1, <2>2, <2>4 DEF FetchTypeOK, HandlerStates
<1>2. ASSUME NEW h \in Handlers, Has(h)
      PROVE  /\ \A i \in Listed(h) : LabelledFor(kind[h], returned[h][i]) /\ (GoodNow(h) => returned[h][i].ok)
             /\ AliasesDistinct /\ kind[h] # "ishares" =>
                  /\ Len(returned[h]) = Len(got[h].want)
                  /\ {returned[h][i].pair : i \in Listed(h)} = ToSet(got[h].want)
  <2>1. Told(kind[h], got[h].want, returned[h], GoodNow(h)) /\ IsWanted(got[h].want)
    BY <1>2 DEF FetchInd, FetchShapes, ToldOK, Tells, Has
  <2>2. Listed(h) = 1..Len(returned[h])
    BY DEF Listed
  <2>3. QED
    BY <2>1, <2>2, ToldIsRight
<1>3. LabelledRight
  BY <1>2 DEF LabelledRight, LabelledFor
<1>4. AliasesDistinct => AnsweredOnce
  BY <1>2 DEF AnsweredOnce
<1>5. CompleteGivesPrices
  <2>1. \A h \in Handlers : h \in clean /\ kind[h] \notin PostOrigins /\ ~Picky(h) => GoodNow(h)
    BY DEF Picky, GoodNow, Good
  <2>2. QED
    BY <1>2, <2>1 DEF CompleteGivesPrices
<1>6. QED
  BY <1>1, <1>3, <1>4, <1>5

\* All steps together.
LEMMA FetchNextKeeps ==
    ASSUME FetchInd, [FetchNext]_fetchVars
    PROVE  FetchInd'
<1>1. CASE \E h \in Handlers : SkipRequest(h) \/ Query(h) \/ EthCall(h) \/ GoroutineEnds(h)
                               \/ PanicDone(h) \/ PanicStored(h)
  BY <1>1, SkipRequestKeeps, QueryKeeps, EthCallKeeps, GoroutineEndsKeeps, PanicDoneKeeps, PanicStoredKeeps
<1>2. CASE TakeRequest
  BY <1>2, TakeRequestKeeps
<1>3. CASE FetchReturnsNow
  BY <1>3, FetchReturnsNowKeeps
<1>4. CASE \E i \in 1..Workers : TryAnswered(i) \/ TryFails(i)
  BY <1>4, TryAnsweredKeeps, TryFailsKeeps
<1>5. CASE UNCHANGED fetchVars
  BY <1>5, FetchStutters
<1>6. QED
  BY <1>1, <1>2, <1>3, <1>4, <1>5 DEF FetchNext

\* Aliases that two symbols share can only give a result the name of the other
\* symbol, which the origin has under the same name: its price is still that of the
\* market it is labelled with, and none is lost.
THEOREM FetchLabels ==
    KindsFollowed => (FetchSpec => [](LabelledRight /\ CompleteGivesPrices))
<1> SUFFICES ASSUME KindsFollowed
             PROVE  FetchSpec => [](LabelledRight /\ CompleteGivesPrices)
  OBVIOUS
<1>1. FetchInit => FetchInd
  BY FetchInitInd
<1>2. FetchInd /\ [FetchNext]_fetchVars => FetchInd'
  BY FetchNextKeeps
<1>3. FetchInd => LabelledRight /\ CompleteGivesPrices
  BY FetchIndAnswers
<1>4. QED
  BY <1>1, <1>2, <1>3, PTL DEF FetchSpec

\* Whatever the origins answer, however their requests fail, are tried again and
\* interleave in the pool of workers, and whichever handlers panic, Set.Fetch gives
\* one result for every pair that was asked for, the price of that market or an
\* error, and a price wherever all replies were complete: for any number of origins
\* of these kinds, workers, retries and pairs, if no two symbols share an alias.
THEOREM FetchAnswers == KindsFollowed /\ AliasesDistinct => (FetchSpec => []AnsweredAsAsked)
<1> SUFFICES ASSUME KindsFollowed, AliasesDistinct
             PROVE  FetchSpec => []AnsweredAsAsked
  OBVIOUS
<1>1. FetchInit => FetchInd
  BY FetchInitInd
<1>2. FetchInd /\ [FetchNext]_fetchVars => FetchInd'
  BY FetchNextKeeps
<1>3. FetchInd => AnsweredAsAsked
  BY FetchIndAnswers DEF AnsweredAsAsked
<1>4. QED
  BY <1>1, <1>2, <1>3, PTL DEF FetchSpec
===============================================================================
