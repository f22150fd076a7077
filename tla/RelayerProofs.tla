----------------------------- MODULE RelayerProofs ----------------------------
(***************************************************************************)
(* Proofs about the price pipeline, for any sets of pairs, feeders and     *)
(* prices, any spread and expiration and any number of relays.             *)
(*                                                                         *)
(* PriceStore: the type invariant, NewestKept and the action property      *)
(* AgeNeverGoesBack.                                                       *)
(*                                                                         *)
(* Relayer: the type invariant, SubmittedIsGenuine,                        *)
(* AcceptedOnlyIfUnchanged and OnlyDueUpdates, which all follow from the   *)
(* inductive invariant IndInv of Relayer.                                  *)
(***************************************************************************)
EXTENDS Relayer, FiniteSetTheorems, TLAPS

-----------------------------------------------------------------------------
(* The store *)

allVars == <<netVars, storeVars>>

\* Ages are integers, and NoAge is below all of them.
LEMMA AgesAreIntegers ==
    /\ Ages \subseteq Int
    /\ NoAge \in Int
    /\ \A a \in Ages : NoAge < a
BY PriceNetAssumption DEF Ages, NoAge

\* The type invariant is inductive: every handler of the store and every step
\* of the network keeps the variables in their types.
LEMMA TypeInductive == TypeOK /\ [StoreNext]_allVars => TypeOK'
<1> SUFFICES ASSUME TypeOK, [StoreNext]_allVars PROVE TypeOK'
    OBVIOUS
<1> USE PriceNetAssumption, PriceStoreAssumption
<1> USE DEF TypeOK, NetTypeOK, StoreTypeOK, netVars, storeVars
<1>1. CASE StartStore
    BY <1>1 DEF StartStore
<1>2. CASE CancelCtx
    BY <1>2 DEF CancelCtx
<1>3. ASSUME NEW m \in net, NEW fault \in Faults, Receive(m, fault)
      PROVE  TypeOK'
  <2>1. m \in Message /\ KeyOf(m) \in Keys
      BY DEF Message, KeyOf, Keys
  <2>2. ps' \subseteq Message
      BY <1>3, <2>1 DEF Receive, Add
  <2>3. newest' \in [Keys -> Ages \union {NoAge}]
      BY <1>3, <2>1 DEF Receive, Message
  <2>4. QED
      BY <1>3, <2>2, <2>3 DEF Receive
<1>4. CASE NetNext /\ UNCHANGED storeVars
  <2>1. CASE AdvanceClock
      BY <1>4, <2>1 DEF AdvanceClock
  <2>2. ASSUME NEW f \in Feeders, Publish(f)
        PROVE  TypeOK'
      BY <1>4, <2>2 DEF Publish, Message, Ages
  <2>3. QED
      BY <1>4, <2>1, <2>2 DEF NetNext
<1>5. CASE UNCHANGED allVars
    BY <1>5 DEF allVars
<1>6. QED
    BY <1>1, <1>2, <1>3, <1>4, <1>5 DEF StoreNext, CollectorStep

\* The store's type invariant holds in every reachable state.
THEOREM StoreTyped == StoreSpec => []TypeOK
<1>1. NetAndStoreInit => TypeOK
    BY DEF NetAndStoreInit, NetInit, StoreInit, TypeOK, NetTypeOK, StoreTypeOK
<1>2. QED
    BY <1>1, TypeInductive, PTL DEF StoreSpec, allVars

-----------------------------------------------------------------------------
\* The storage is a map and each entry is one of the newest handled prices.
\* The type invariant is needed for the ages to be numbers.
LEMMA NewestInductive ==
    TypeOK /\ NewestKept /\ [StoreNext]_allVars => NewestKept'
<1> SUFFICES ASSUME TypeOK, NewestKept, [StoreNext]_allVars PROVE NewestKept'
    OBVIOUS
<1>1. ASSUME NEW m \in net, NEW fault \in Faults, Receive(m, fault)
      PROVE  NewestKept'
  <2> USE <1>1
  <2>1. m \in Message /\ m.age \in Ages /\ KeyOf(m) \in Keys
      BY DEF TypeOK, NetTypeOK, Message, KeyOf, Keys
  <2> USE AgesAreIntegers
  <2>2. newest \in [Keys -> Ages \union {NoAge}]
      BY DEF TypeOK, StoreTypeOK
  <2>3. CASE fault = "none" /\ ValidPrice(m)
    <3> SUFFICES ASSUME NEW k \in Keys
                 PROVE  LET kept == {q \in ps' : KeyOf(q) = k}
                        IN  IF newest'[k] = NoAge
                            THEN kept = {}
                            ELSE \E q \in kept : kept = {q} /\ q.age = newest'[k]
        BY DEF NewestKept
    <3>1. /\ Add(m)
          /\ newest' = IF newest[KeyOf(m)] < m.age
                       THEN [newest EXCEPT ![KeyOf(m)] = m.age] ELSE newest
        BY <2>3 DEF Receive, Collected, Genuine, ValidPrice
    <3>2. CASE k # KeyOf(m)
      <4>1. newest'[k] = newest[k]
          BY <2>1, <2>2, <3>1, <3>2
      <4>2. {q \in ps' : KeyOf(q) = k} = {q \in ps : KeyOf(q) = k}
          BY <3>1, <3>2 DEF Add, Entry
      <4>3. QED
          BY <4>1, <4>2 DEF NewestKept
    <3>3. CASE k = KeyOf(m)
      <4> DEFINE kept == {q \in ps : KeyOf(q) = k}
      <4>1. kept = Entry(m)
          BY <3>3 DEF Entry
      <4>2. newest'[k] = IF newest[k] < m.age THEN m.age ELSE newest[k]
          BY <2>1, <2>2, <3>1, <3>3
      <4>0. newest[k] \in Int /\ m.age \in Int /\ m.age # NoAge
        <5>1. newest[k] \in Ages \union {NoAge}
            BY <2>2
        <5>2. \A a \in Ages : a \in Int /\ NoAge < a
            OBVIOUS
        <5>3. newest[k] \in Int
            BY <5>1, <5>2
        <5>4. m.age \in Int /\ NoAge \in Int /\ NoAge < m.age
            BY <2>1, <5>2
        <5>5. m.age # NoAge
            BY <5>4
        <5> QED BY <5>3, <5>4, <5>5
      <4>3. CASE \E q \in Entry(m) : q.age > m.age
        <5>1. ps' = ps
            BY <3>1, <4>3 DEF Add
        <5>2. PICK q \in kept : kept = {q} /\ q.age = newest[k] /\ newest[k] # NoAge
            BY <4>1, <4>3 DEF NewestKept
        <5>3. newest[k] > m.age /\ newest'[k] = newest[k]
          <6>1. newest[k] > m.age
              BY <4>1, <4>3, <5>2
          <6> QED BY <4>0, <4>2, <6>1
        <5>4. QED
            BY <5>1, <5>2, <5>3
      <4>4. CASE ~\E q \in Entry(m) : q.age > m.age
        <5>1. ps' = (ps \ Entry(m)) \union {m}
            BY <3>1, <4>4 DEF Add
        <5>2. {q \in ps' : KeyOf(q) = k} = {m}
            BY <3>3, <5>1 DEF Entry
        <5>3. ~(newest[k] > m.age)
          <6>1. CASE newest[k] = NoAge
            <7>1. m.age \in Int /\ NoAge \in Int /\ NoAge < m.age
                BY <2>1
            <7>2. QED
                BY <6>1, <7>1
          <6>2. CASE newest[k] # NoAge
            <7>1. PICK q \in kept : q.age = newest[k]
                BY <6>2 DEF NewestKept
            <7>2. QED
                BY <4>1, <4>4, <7>1
          <6>3. QED
              BY <6>1, <6>2
        <5>4. newest'[k] = m.age /\ m.age # NoAge
            BY <4>0, <4>2, <5>3
        <5>5. QED
            BY <5>2, <5>4
      <4>5. QED
          BY <4>3, <4>4
    <3>4. QED
        BY <3>2, <3>3
  <2>4. CASE ~(fault = "none" /\ ValidPrice(m))
      BY <2>4 DEF Receive, Collected, Genuine, ValidPrice, NewestKept
  <2>5. QED
      BY <2>3, <2>4
<1>2. CASE (NetNext /\ UNCHANGED storeVars) \/ StartStore \/ CancelCtx \/ UNCHANGED allVars
  <2>1. ps' = ps /\ newest' = newest
      BY <1>2 DEF storeVars, StartStore, CancelCtx, allVars
  <2>2. QED
      BY <2>1 DEF NewestKept
<1>3. QED
    BY <1>1, <1>2 DEF StoreNext, CollectorStep

\* The storage holds exactly one price per pair and feeder, one of the newest
\* that were handled, whatever the order and number of deliveries.
THEOREM StoreKeepsNewest == StoreSpec => []NewestKept
<1>1. NetAndStoreInit => NewestKept
    BY DEF NetAndStoreInit, StoreInit, NewestKept
<1>2. QED
    BY <1>1, StoreTyped, NewestInductive, PTL DEF StoreSpec, allVars

-----------------------------------------------------------------------------
\* No step of the program makes a feeder's stored price older or removes it.
THEOREM StoreAgesAreMonotone == StoreSpec => AgeNeverGoesBack
<1> DEFINE Keeps ==
       \A m \in ps : \E q \in ps' : KeyOf(q) = KeyOf(m) /\ q.age >= m.age
<1>1. TypeOK /\ NewestKept /\ [StoreNext]_allVars => [Keeps]_storeVars
  <2> SUFFICES ASSUME TypeOK, NewestKept, [StoreNext]_allVars, storeVars' # storeVars
               PROVE  Keeps
      OBVIOUS
  <2>0. \A m \in ps : m.age \in Int
      BY AgesAreIntegers DEF TypeOK, StoreTypeOK, Message
  <2>1. ASSUME NEW m \in net, NEW fault \in Faults, Receive(m, fault)
        PROVE  Keeps
    <3>1. CASE fault = "none" /\ ValidPrice(m)
      <4>1. m.age \in Int
          BY AgesAreIntegers DEF TypeOK, NetTypeOK, Message
      <4>2. CASE \E q \in Entry(m) : q.age > m.age
          BY <2>0, <2>1, <3>1, <4>2 DEF Receive, Collected, Add
      <4>3. CASE ~\E q \in Entry(m) : q.age > m.age
        <5>1. ps' = (ps \ Entry(m)) \union {m}
            BY <2>1, <3>1, <4>3 DEF Receive, Collected, Add
        <5>2. \A r \in Entry(m) : m.age >= r.age /\ KeyOf(m) = KeyOf(r)
            BY <2>0, <4>1, <4>3 DEF Entry
        <5>3. QED
            BY <2>0, <5>1, <5>2
      <4>4. QED
          BY <4>2, <4>3
    <3>2. CASE ~(fault = "none" /\ ValidPrice(m))
        BY <2>0, <2>1, <3>2 DEF Receive, Collected
    <3>3. QED
        BY <3>1, <3>2
  <2>2. CASE StartStore \/ CancelCtx
      BY <2>0, <2>2 DEF StartStore, CancelCtx
  <2>3. QED
      BY <2>1, <2>2 DEF StoreNext, CollectorStep, allVars
<1>2. QED
    BY <1>1, StoreTyped, StoreKeepsNewest, PTL DEF StoreSpec, allVars, AgeNeverGoesBack

Contract == [bar : Nat, age : Nat, val : Nat, orcl : SUBSET Feeders]

-----------------------------------------------------------------------------
(* Facts about the operators of the relayer *)

\* truncate and sort.Slice: the result is a sequence of different prices of
\* the slice, in the order of their values.
LEMMA SortedFacts ==
    ASSUME NEW S, IsFiniteSet(S), S \subseteq Message,
           NEW n \in Nat, NEW T \in Truncations(S, n), NEW s \in Sorted(T)
    PROVE  /\ s \in Seq(Message)
           /\ \A i \in 1..Len(s) : s[i] \in S
           /\ \A i, j \in 1..Len(s) : i < j => s[i] # s[j] /\ s[i].val <= s[j].val
<1>1. T \subseteq S
    BY DEF Truncations
<1>2. Cardinality(T) \in Nat
    BY <1>1, FS_Subset, FS_CardinalityType
<1>3. /\ s \in [1..Cardinality(T) -> T]
      /\ \A i, j \in DOMAIN s : s[i] = s[j] => i = j
      /\ \A i, j \in DOMAIN s : i < j => s[i].val <= s[j].val
    BY DEF Sorted, AllOrders
<1>4. Len(s) = Cardinality(T) /\ s \in Seq(Message) /\ DOMAIN s = 1..Len(s)
    BY <1>1, <1>2, <1>3
<1>5. QED
    BY <1>1, <1>3, <1>4

\* A poke that the contract accepts carries a price that is newer than the
\* oracle, so the oracle is older than the present.
LEMMA AcceptedIsOlder ==
    ASSUME NEW c \in Contract, c.bar \in Bars, now \in Nat,
           NEW s, \A i \in 1..Len(s) : s[i].age \in Int /\ s[i].age <= now,
           PokeAccepted(c, s)
    PROVE  c.age < now
<1>1. c.bar \in Nat /\ c.bar >= 1 /\ c.age \in Nat
    BY RelayerAssumption DEF Contract
<1>2. 1 \in 1..Len(s)
    BY <1>1 DEF PokeAccepted
<1>3. s[1].age > c.age
    BY <1>2 DEF PokeAccepted
<1>4. QED
    BY <1>1, <1>2, <1>3

\* An update at the present time keeps what was read in view.
LEMMA PokeKeepsView ==
    ASSUME NEW c \in Contract, c.age < now, now \in Nat, NEW s,
           NEW age \in Nat, NEW val, NEW S, InView(c, age, val, S),
           \A m \in S : m.age \in Int /\ m.age <= now
    PROVE  InView(Poked(c, s, now), age, val, S)
<1>1. Poked(c, s, now).age = now
    BY DEF Poked, Contract
<1>2. age <= c.age /\ c.age \in Nat
    BY DEF InView, Contract
<1>3. age < now
    BY <1>2
<1>4. QED
    BY <1>1, <1>3 DEF InView

\* An accepted transaction found the oracle as relay had read it.
LEMMA AcceptedInView ==
    ASSUME NEW c \in Contract, c.bar \in Bars,
           NEW s, \A i \in 1..Len(s) : s[i].age \in Int,
           NEW age \in Nat, NEW val, InView(c, age, val, RangeOf(s)),
           PokeAccepted(c, s)
    PROVE  c.age = age /\ c.val = val
<1>1. c.bar \in Nat /\ c.bar >= 1 /\ c.age \in Nat
    BY RelayerAssumption DEF Contract
<1>2. 1 \in 1..Len(s)
    BY <1>1 DEF PokeAccepted
<1>3. s[1].age > c.age /\ s[1] \in RangeOf(s)
    BY <1>2 DEF PokeAccepted, RangeOf
<1>4. c.age = age
    BY <1>1, <1>2, <1>3 DEF InView
<1>5. QED
    BY <1>4 DEF InView

-----------------------------------------------------------------------------
(* Each group of actions keeps the inductive invariant *)

\* Facts every proof below needs: the ages at hand are numbers not ahead of
\* the clock.
LEMMA AgesAtHand ==
    ASSUME IndInv
    PROVE  /\ now \in Nat
           /\ \A m \in net : m.age \in Int /\ m.age <= now
           /\ \A m \in prices : m.age \in Int /\ m.age <= now
           /\ \A m \in RangeOf(batch) : m.age \in Int /\ m.age <= now
           /\ \A tx \in pending : \A m \in RangeOf(tx.prices) :
                 m.age \in Int /\ m.age <= now
           /\ \A p \in Pairs : median[p] \in Contract
<1>1. now \in Nat /\ \A m \in net : m.age \in Int /\ m.age <= now
    BY PriceNetAssumption
       DEF IndInv, RelayerTypeOK, TypeOK, NetTypeOK, NothingFromFuture, Message, Ages
<1>2. prices \subseteq net /\ RangeOf(batch) \subseteq net
    BY DEF IndInv, LocalsGenuine, GenuineBatch, RangeOf
<1>3. \A tx \in pending : RangeOf(tx.prices) \subseteq net
    BY DEF IndInv, PendingGenuine, GenuineBatch, RangeOf
<1>4. \A p \in Pairs : median[p] \in Contract
    BY DEF IndInv, RelayerTypeOK, Contract
<1>5. QED
    BY <1>1, <1>2, <1>3, <1>4

\* The clock and the feeders: messages are only added, with past ages.
LEMMA NetKeeps ==
    ASSUME IndInv, NetNext, UNCHANGED <<storeVars, chainVars, relayerVars>>
    PROVE  IndInv'
<1> USE DEF storeVars, chainVars, relayerVars, locals
<1>1. CASE AdvanceClock
  <2>0. now \in Nat /\ now' = now + 1 /\ net' = net
      BY <1>1 DEF AdvanceClock, IndInv, RelayerTypeOK, TypeOK, NetTypeOK
  <2>1. RelayerTypeOK'
      BY <2>0 DEF IndInv, RelayerTypeOK, TypeOK, NetTypeOK, StoreTypeOK
  <2>2. NothingFromFuture'
      BY <2>0, AgesAtHand DEF IndInv, NothingFromFuture, Contract
  <2>3. LocalsGenuine' /\ PendingGenuine'
      BY <2>0 DEF IndInv, LocalsGenuine, GenuineBatch, StoredIsGenuine, PendingGenuine
  <2>4. \A t \in Nat : IsExpired(t) => IsExpired(t)'
      BY <2>0, RelayerAssumption DEF IsExpired
  <2>5. RelayView'
      BY <2>4 DEF IndInv, RelayView, InView, RangeOf, IsStale, RelayerTypeOK
  <2>6. \A tx \in pending : tx.readAge \in Nat
      BY DEF IndInv, RelayerTypeOK, Transaction
  <2>7. PendingView'
      BY <2>4, <2>6 DEF IndInv, PendingView, InView, RangeOf, IsStale
  <2>8. QED
      BY <2>1, <2>2, <2>3, <2>5, <2>7 DEF IndInv
<1>2. ASSUME NEW f \in Feeders, Publish(f)
      PROVE  IndInv'
  <2>1. PICK w \in Wats, v \in Vals, a \in {ZeroTime} \union 0..now :
           net' = net \union {[wat |-> w, val |-> v, age |-> a, from |-> f]}
      BY <1>2 DEF Publish
  <2>2. now' = now /\ net \subseteq net'
      BY <1>2, <2>1 DEF Publish
  <2>3. RelayerTypeOK'
    <3>1. net' \subseteq Message
        BY <2>1, AgesAtHand, PriceNetAssumption
           DEF IndInv, RelayerTypeOK, TypeOK, NetTypeOK, Message, Ages
    <3>2. QED
        BY <2>2, <3>1 DEF IndInv, RelayerTypeOK, TypeOK, NetTypeOK, StoreTypeOK
  <2>4. NothingFromFuture'
    <3>1. IsFiniteSet(net')
        BY <2>1, FS_AddElement DEF IndInv, NothingFromFuture
    <3>2. \A m \in net' : m.age <= now
        BY <2>1, AgesAtHand, PriceNetAssumption
    <3>3. QED
        BY <2>2, <3>1, <3>2 DEF IndInv, NothingFromFuture
  <2>5. LocalsGenuine' /\ PendingGenuine'
      BY <2>2 DEF IndInv, LocalsGenuine, GenuineBatch, StoredIsGenuine, PendingGenuine
  <2>6. RelayView' /\ PendingView'
      BY <2>2 DEF IndInv, RelayView, PendingView, InView, RangeOf, IsStale, IsExpired
  <2>7. QED
      BY <2>3, <2>4, <2>5, <2>6 DEF IndInv
<1>3. QED
    BY <1>1, <1>2 DEF NetNext

\* The price store: relay works on the prices it has read, not on the store.
LEMMA StoreKeeps ==
    ASSUME IndInv, StartStore \/ CancelCtx \/ CollectorStep,
           UNCHANGED <<chainVars, relayerVars>>
    PROVE  IndInv'
<1> USE DEF netVars, chainVars, relayerVars, locals
<1>0. now' = now /\ net' = net
    BY DEF StartStore, CancelCtx, CollectorStep, Receive
<1>1. ASSUME TypeOK', StoredIsGenuine',
             (\A m, q \in ps : KeyOf(m) = KeyOf(q) => m = q)'
      PROVE  IndInv'
  <2>1. RelayerTypeOK' /\ NothingFromFuture'
      BY <1>0, <1>1 DEF IndInv, RelayerTypeOK, NothingFromFuture
  <2>2. LocalsGenuine' /\ PendingGenuine'
      BY <1>0, <1>1 DEF IndInv, LocalsGenuine, GenuineBatch, PendingGenuine
  <2>3. RelayView' /\ PendingView'
      BY <1>0 DEF IndInv, RelayView, PendingView, InView, RangeOf, IsStale, IsExpired
  <2>4. QED
      BY <2>1, <2>2, <2>3 DEF IndInv
<1>2. CASE StartStore \/ CancelCtx
    BY <1>0, <1>1, <1>2
       DEF StartStore, CancelCtx, IndInv, RelayerTypeOK, TypeOK, NetTypeOK,
           StoreTypeOK, LocalsGenuine, GenuineBatch, StoredIsGenuine
<1>3. ASSUME NEW m \in net, NEW fault \in Faults, Receive(m, fault)
      PROVE  IndInv'
  <2>1. m \in Message /\ m.age \in Ages /\ KeyOf(m) \in Keys
      BY DEF IndInv, RelayerTypeOK, TypeOK, NetTypeOK, Message, KeyOf, Keys
  <2>2. ps' \subseteq ps \union {m} /\ (m \in ps' => m \in ps \/ ValidPrice(m))
      BY <1>3 DEF Receive, Collected, Add
  <2>3. TypeOK'
    <3>1. newest' \in [Keys -> Ages \union {NoAge}]
        BY <1>3, <2>1 DEF Receive, IndInv, RelayerTypeOK, TypeOK, StoreTypeOK
    <3>2. ctx' = ctx
        BY <1>3 DEF Receive
    <3>3. QED
        BY <1>0, <2>1, <2>2, <3>1, <3>2
           DEF IndInv, RelayerTypeOK, TypeOK, NetTypeOK, StoreTypeOK
  <2>4. StoredIsGenuine'
      BY <1>0, <2>2 DEF IndInv, LocalsGenuine, GenuineBatch, StoredIsGenuine, ValidPrice
  <2>5. (\A r, q \in ps : KeyOf(r) = KeyOf(q) => r = q)'
    <3>1. \A r, q \in ps : KeyOf(r) = KeyOf(q) => r = q
        BY DEF IndInv, LocalsGenuine, GenuineBatch
    <3>2. ps' = ps \/ ps' = (ps \ Entry(m)) \union {m}
        BY <1>3 DEF Receive, Add
    <3>3. QED
        BY <3>1, <3>2 DEF Entry, KeyOf
  <2>6. QED
      BY <1>1, <2>3, <2>4, <2>5
<1>4. QED
    BY <1>2, <1>3 DEF CollectorStep

\* A poke of p by anyone, at the present time: what relay and the pending
\* transaction have read stays in view.
LEMMA PokeKeeps ==
    ASSUME IndInv, NEW p \in Pairs, NEW s \in Seq(Message),
           \A i \in 1..Len(s) : s[i] \in net,
           PokeAccepted(median[p], s),
           median' = [median EXCEPT ![p] = Poked(@, s, now)],
           pending' \subseteq pending,
           UNCHANGED <<netVars, storeVars, relayerVars>>
    PROVE  IndInv'
<1> USE DEF netVars, storeVars, relayerVars, locals
<1>1. median[p] \in Contract /\ median[p].bar \in Bars
    BY AgesAtHand DEF IndInv, NothingFromFuture
<1>2. median[p].age < now
    BY <1>1, AgesAtHand, AcceptedIsOlder
<1>3. median'[p] = Poked(median[p], s, now) /\ \A q \in Pairs \ {p} : median'[q] = median[q]
    BY DEF IndInv, RelayerTypeOK
<1>4. Poked(median[p], s, now) \in Contract
      /\ Poked(median[p], s, now).age = now
      /\ Poked(median[p], s, now).bar = median[p].bar
  <2>1. s[(Len(s) \div 2) + 1].val \in Nat
    <3>1. Len(s) \in Nat /\ Len(s) >= 1
        BY <1>1, RelayerAssumption DEF PokeAccepted, Contract
    <3>2. (Len(s) \div 2) + 1 \in 1..Len(s)
        BY <3>1
    <3>3. s[(Len(s) \div 2) + 1] \in Message
        BY <3>2
    <3>4. QED
        BY <3>3, PriceNetAssumption DEF Message
  <2>2. QED
      BY <1>1, <2>1, AgesAtHand DEF Poked, Contract
<1>5. RelayerTypeOK'
  <2>1. median' \in [Pairs -> Contract]
      BY <1>3, <1>4, AgesAtHand DEF IndInv, RelayerTypeOK
  <2>2. QED
      BY <2>1 DEF Contract, IndInv, RelayerTypeOK, TypeOK, NetTypeOK, StoreTypeOK
<1>6. NothingFromFuture'
  <2>1. ASSUME NEW q \in Pairs PROVE median'[q].age <= now /\ median'[q].bar \in Bars
      BY <1>1, <1>3, <1>4, AgesAtHand DEF IndInv, NothingFromFuture
  <2>2. QED
      BY <2>1 DEF IndInv, NothingFromFuture
<1>7. LocalsGenuine' /\ PendingGenuine'
    BY DEF IndInv, LocalsGenuine, GenuineBatch, StoredIsGenuine, PendingGenuine
<1>8. ASSUME NEW q \in Pairs, NEW age \in Nat, NEW val, NEW S,
             InView(median[q], age, val, S),
             \A m \in S : m.age \in Int /\ m.age <= now
      PROVE  InView(median'[q], age, val, S)
    BY <1>1, <1>2, <1>3, <1>8, AgesAtHand, PokeKeepsView
<1>9. RelayView'
  <2>1. CASE pc = "val"
    <3>1. cur \in Pairs /\ oracleTime \in Nat
        BY <2>1 DEF IndInv, RelayerTypeOK, Locked
    <3>2. InView(median[cur], oracleTime, median[cur].val, prices)
        BY <2>1 DEF IndInv, RelayView
    <3>3. InView(median'[cur], oracleTime, median[cur].val, prices)
        BY <1>8, <3>1, <3>2, AgesAtHand
    <3>4. InView(median'[cur], oracleTime, median'[cur].val, prices)
        BY <3>3 DEF InView
    <3>5. QED
        BY <2>1, <3>4 DEF RelayView, InView
  <2>2. CASE pc = "decide"
    <3>1. cur \in Pairs /\ oracleTime \in Nat
        BY <2>2 DEF IndInv, RelayerTypeOK, Locked
    <3>2. InView(median'[cur], oracleTime, oraclePrice, prices)
        BY <1>8, <2>2, <3>1, AgesAtHand DEF IndInv, RelayView
    <3>3. QED
        BY <2>2, <3>2 DEF RelayView, InView
  <2>3. CASE pc \in {"simulate", "send"}
    <3>1. cur \in Pairs /\ oracleTime \in Nat
        BY <2>3 DEF IndInv, RelayerTypeOK, Locked
    <3>2. InView(median'[cur], oracleTime, oraclePrice, RangeOf(batch))
        BY <1>8, <2>3, <3>1, AgesAtHand DEF IndInv, RelayView
    <3>3. QED
        BY <2>3, <3>2 DEF IndInv, RelayView, InView, RangeOf, IsExpired, IsStale
  <2>4. QED
      BY <2>1, <2>2, <2>3 DEF RelayView
<1>10. PendingView'
  <2>1. ASSUME NEW tx \in pending
        PROVE  InView(median'[tx.pair], tx.readAge, tx.readVal, RangeOf(tx.prices))
    <3>1. tx.pair \in Pairs /\ tx.readAge \in Nat
        BY DEF IndInv, RelayerTypeOK, Transaction
    <3>2. QED
        BY <1>8, <3>1, AgesAtHand DEF IndInv, PendingView
  <2>2. QED
      BY <2>1 DEF IndInv, PendingView, IsExpired, IsStale, InView, RangeOf
<1>11. QED
    BY <1>5, <1>6, <1>7, <1>9, <1>10 DEF IndInv

\* The chain: this relayer's transaction, another relayer, the owners.
LEMMA ChainKeeps ==
    ASSUME IndInv, MinePending \/ \E p \in Pairs : OtherPoke(p) \/ Reconfigure(p)
    PROVE  IndInv'
<1>1. CASE MinePending
  <2>1. PICK tx \in pending :
           IF PokeAccepted(median[tx.pair], tx.prices)
           THEN median' = [median EXCEPT ![tx.pair] = Poked(@, tx.prices, now)]
           ELSE median' = median
      BY <1>1 DEF MinePending
  <2>2. pending' = {} /\ UNCHANGED <<netVars, storeVars, relayerVars>>
      BY <1>1 DEF MinePending
  <2>3. CASE PokeAccepted(median[tx.pair], tx.prices)
    <3>1. tx.pair \in Pairs /\ tx.prices \in Seq(Message)
        BY DEF IndInv, RelayerTypeOK, Transaction
    <3>2. \A i \in 1..Len(tx.prices) : tx.prices[i] \in net
        BY DEF IndInv, PendingGenuine, GenuineBatch
    <3>3. QED
        BY <2>1, <2>2, <2>3, <3>1, <3>2, PokeKeeps
  <2>4. CASE ~PokeAccepted(median[tx.pair], tx.prices)
    <3> USE <2>1, <2>2, <2>4 DEF netVars, storeVars, relayerVars, locals
    <3>1. RelayerTypeOK' /\ NothingFromFuture' /\ LocalsGenuine'
        BY DEF IndInv, RelayerTypeOK, TypeOK, NetTypeOK, StoreTypeOK,
               NothingFromFuture, LocalsGenuine, GenuineBatch, StoredIsGenuine
    <3>2. RelayView' /\ PendingGenuine' /\ PendingView'
        BY DEF IndInv, RelayView, InView, RangeOf, IsExpired, IsStale,
               PendingGenuine, GenuineBatch, PendingView
    <3>3. QED
        BY <3>1, <3>2 DEF IndInv
  <2>5. QED
      BY <2>3, <2>4
<1>2. ASSUME NEW p \in Pairs, OtherPoke(p)
      PROVE  IndInv'
  <2>1. PICK S \in SUBSET {m \in net : m.wat = p} : \E s \in Sorted(S) :
           /\ PokeAccepted(median[p], s)
           /\ median' = [median EXCEPT ![p] = Poked(@, s, now)]
      BY <1>2 DEF OtherPoke
  <2>2. IsFiniteSet(S) /\ S \subseteq net /\ S \subseteq Message
      BY FS_Subset DEF IndInv, NothingFromFuture, RelayerTypeOK, TypeOK, NetTypeOK
  <2>3. PICK s \in Sorted(S) :
           /\ PokeAccepted(median[p], s)
           /\ median' = [median EXCEPT ![p] = Poked(@, s, now)]
      BY <2>1
  <2>4. Cardinality(S) \in Nat /\ S \in Truncations(S, Cardinality(S))
      BY <2>2, FS_CardinalityType DEF Truncations
  <2>5. s \in Seq(Message) /\ \A i \in 1..Len(s) : s[i] \in S
      BY <2>2, <2>3, <2>4, SortedFacts
  <2>6. pending' = pending /\ UNCHANGED <<netVars, storeVars, relayerVars>>
      BY <1>2 DEF OtherPoke
  <2>7. \A i \in 1..Len(s) : s[i] \in net
      BY <2>2, <2>5
  <2>8. QED
      BY <2>3, <2>5, <2>6, <2>7, PokeKeeps
<1>3. ASSUME NEW p \in Pairs, Reconfigure(p)
      PROVE  IndInv'
  <2> USE DEF netVars, storeVars, relayerVars, locals
  <2>1. PICK b \in Bars, o \in Orcls : median' = [median EXCEPT ![p] = [@ EXCEPT !.bar = b, !.orcl = o]]
      BY <1>3 DEF Reconfigure
  <2>2. pending' = pending /\ UNCHANGED <<netVars, storeVars, relayerVars>>
      BY <1>3 DEF Reconfigure
  <2>3. \A q \in Pairs : /\ median'[q] \in Contract
                         /\ median'[q].age = median[q].age
                         /\ median'[q].val = median[q].val
                         /\ median'[q].bar \in Bars
    <3>1. b \in Nat /\ o \in SUBSET Feeders
        BY RelayerAssumption
    <3>2. \A q \in Pairs : median[q] \in Contract /\ median[q].bar \in Bars
        BY AgesAtHand DEF IndInv, NothingFromFuture
    <3>3. /\ median'[p] = [median[p] EXCEPT !.bar = b, !.orcl = o]
          /\ \A q \in Pairs \ {p} : median'[q] = median[q]
        BY <2>1 DEF IndInv, RelayerTypeOK
    <3>4. QED
        BY <3>1, <3>2, <3>3 DEF Contract
  <2>4. median' \in [Pairs -> Contract]
      BY <2>1, <2>3 DEF IndInv, RelayerTypeOK
  <2>5. RelayerTypeOK'
      BY <2>2, <2>4 DEF Contract, IndInv, RelayerTypeOK, TypeOK, NetTypeOK, StoreTypeOK
  <2>6. NothingFromFuture' /\ LocalsGenuine' /\ PendingGenuine'
      BY <2>2, <2>3 DEF IndInv, NothingFromFuture, LocalsGenuine, GenuineBatch, StoredIsGenuine,
                        PendingGenuine
  <2>7. RelayView'
    <3>1. pc \in Locked => median'[cur].age = median[cur].age
                           /\ median'[cur].val = median[cur].val
        BY <2>3 DEF IndInv, RelayerTypeOK
    <3>2. QED
        BY <2>2, <3>1 DEF IndInv, RelayView, InView, RangeOf, IsExpired, IsStale, Locked
  <2>8. PendingView'
    <3>1. \A tx \in pending : tx.pair \in Pairs
        BY DEF IndInv, RelayerTypeOK, Transaction
    <3>2. QED
        BY <2>2, <2>3, <3>1 DEF IndInv, PendingView, InView, RangeOf, IsExpired, IsStale
  <2>9. QED
      BY <2>5, <2>6, <2>7, <2>8 DEF IndInv
<1>4. QED
    BY <1>1, <1>2, <1>3

\* Start, the refresh routines, the ticks and the shutdown touch neither the
\* prices at hand nor the chain, and only move the label outside the mutex.
LEMMA LifecycleKeeps ==
    ASSUME IndInv,
           \/ \E p \in Pairs : StartPair(p)
           \/ StartRelayer
           \/ \E p \in Pairs : \E outcome \in FeedsOutcomes : SyncTick(p, outcome)
           \/ RelayTick
           \/ RoutineReturns
           \/ ContextCancelHandler
    PROVE  IndInv'
<1> USE DEF netVars, storeVars, chainVars, locals
<1> DEFINE Quiet == UNCHANGED <<netVars, storeVars, chainVars, locals>>
<1>1. /\ Quiet
      /\ pc' = pc \/ (pc \in Labels \ Locked /\ pc' \in Labels \ Locked)
  <2>1. Quiet
      BY DEF StartPair, StartRelayer, SyncTick, RelayTick, RoutineReturns,
             ContextCancelHandler
  <2>2. CASE \E p \in Pairs : StartPair(p)
      BY <2>2 DEF StartPair, Labels, Locked
  <2>3. CASE StartRelayer \/ RelayTick \/ RoutineReturns
      BY <2>3 DEF StartRelayer, RelayTick, RoutineReturns, Labels, Locked
  <2>4. CASE \/ \E p \in Pairs : \E outcome \in FeedsOutcomes : SyncTick(p, outcome)
             \/ ContextCancelHandler
      BY <2>1, <2>4 DEF SyncTick, ContextCancelHandler
  <2>5. QED
      BY <2>1, <2>2, <2>3, <2>4
<1>2. /\ feederAddresses' \in [Pairs -> SUBSET Feeders]
      /\ synced' \subseteq Pairs
      /\ waitCh' \in {"open", "closed"}
      /\ todo' \subseteq Pairs
  <2>1. ASSUME NEW p \in Pairs, NEW outcome \in FeedsOutcomes,
               SyncFeederAddresses(p, outcome)
        PROVE  feederAddresses' \in [Pairs -> SUBSET Feeders]
    <3>1. FeedsAnswer(p, outcome) \in SUBSET Feeders
        BY DEF FeedsAnswer, IndInv, RelayerTypeOK
    <3>2. QED
        BY <2>1, <3>1 DEF SyncFeederAddresses, IndInv, RelayerTypeOK
  <2>2. feederAddresses' \in [Pairs -> SUBSET Feeders]
      BY <2>1 DEF StartPair, StartRelayer, SyncTick, RelayTick, RoutineReturns,
                  ContextCancelHandler, IndInv, RelayerTypeOK
  <2>3. QED
      BY <2>2 DEF StartPair, StartRelayer, SyncTick, RelayTick, RoutineReturns,
                  ContextCancelHandler, IndInv, RelayerTypeOK
<1>3. RelayerTypeOK'
    BY <1>1, <1>2 DEF IndInv, RelayerTypeOK, TypeOK, NetTypeOK, StoreTypeOK
<1>4. NothingFromFuture' /\ LocalsGenuine' /\ PendingGenuine'
  <2>1. feederAddresses' = feederAddresses \/ pc \notin Locked
      BY DEF StartPair, StartRelayer, SyncTick, RelayTick, RoutineReturns,
             ContextCancelHandler, Locked
  <2>2. feederAddresses' # feederAddresses => Len(batch) = 0
      BY <2>1 DEF IndInv, LocalsGenuine, Locked
  <2>3. (\A i \in 1..Len(batch) : batch[i].from \in feederAddresses[cur])'
      BY <1>1, <2>2 DEF IndInv, LocalsGenuine
  <2>4. QED
      BY <1>1, <2>3 DEF IndInv, NothingFromFuture, LocalsGenuine, GenuineBatch,
                        StoredIsGenuine, PendingGenuine, Labels, Locked
<1>5. RelayView' /\ PendingView'
    BY <1>1 DEF IndInv, RelayView, PendingView, InView, RangeOf, IsExpired, IsStale,
                Labels, Locked
<1>6. QED
    BY <1>3, <1>4, <1>5 DEF IndInv

\* relay returns to its caller: nothing is at hand any more.
LEMMA ReturnKeeps ==
    ASSUME IndInv, Return,
           PendingView', PendingGenuine', pending' \subseteq Transaction,
           UNCHANGED <<netVars, storeVars, median, synced, feederAddresses, waitCh, todo>>
    PROVE  IndInv'
<1> USE DEF netVars, storeVars, Return
<1>1. RelayerTypeOK'
    BY DEF IndInv, RelayerTypeOK, TypeOK, NetTypeOK, StoreTypeOK, Labels, Locked
<1>2. NothingFromFuture'
    BY DEF IndInv, NothingFromFuture
<1>3. LocalsGenuine'
    BY DEF IndInv, LocalsGenuine, GenuineBatch, StoredIsGenuine
<1>4. RelayView'
    BY DEF RelayView
<1>5. QED
    BY <1>1, <1>2, <1>3, <1>4 DEF IndInv

\* The same when nothing was sent.
LEMMA ReturnQuietlyKeeps ==
    ASSUME IndInv, Return, pending' = pending,
           UNCHANGED <<netVars, storeVars, median, synced, feederAddresses, waitCh, todo>>
    PROVE  IndInv'
<1>1. PendingGenuine' /\ PendingView' /\ pending' \subseteq Transaction
    BY DEF netVars, IndInv, RelayerTypeOK, PendingGenuine, GenuineBatch, PendingView, InView,
           RangeOf, IsExpired, IsStale
<1>2. QED
    BY <1>1, ReturnKeeps

\* The reads: the store first, then the quorum, the age and the price.
LEMMA ReadsKeep ==
    ASSUME IndInv,
           \/ \E p \in Pairs : RelayReadsStore(p)
           \/ RelayReadsBar \/ RelayReadsAge \/ RelayReadsVal
    PROVE  IndInv'
<1> USE DEF netVars, storeVars, chainVars
<1>0. median \in [Pairs -> Contract] /\ (pc \in Locked => cur \in Pairs)
    BY DEF IndInv, RelayerTypeOK, Contract
<1>1. ASSUME NEW p \in Pairs, RelayReadsStore(p) PROVE IndInv'
  <2> USE <1>1 DEF RelayReadsStore, GetByAssetPair
  <2>1. RelayerTypeOK'
      BY DEF IndInv, RelayerTypeOK, TypeOK, NetTypeOK, StoreTypeOK, Labels, Locked
  <2>2. NothingFromFuture' /\ PendingGenuine'
      BY DEF IndInv, NothingFromFuture, PendingGenuine, GenuineBatch
  <2>3. LocalsGenuine'
      BY DEF IndInv, LocalsGenuine, GenuineBatch, StoredIsGenuine, KeyOf
  <2>4. RelayView' /\ PendingView'
      BY DEF IndInv, RelayView, PendingView, InView, RangeOf, IsExpired, IsStale
  <2>5. QED
      BY <2>1, <2>2, <2>3, <2>4 DEF IndInv
<1>2. CASE RelayReadsBar
  <2> USE <1>2 DEF RelayReadsBar
  <2>1. RelayerTypeOK'
      BY <1>0 DEF IndInv, RelayerTypeOK, TypeOK, NetTypeOK, StoreTypeOK, Labels, Locked, Contract
  <2>2. NothingFromFuture' /\ LocalsGenuine' /\ PendingGenuine'
      BY DEF IndInv, NothingFromFuture, LocalsGenuine, GenuineBatch, StoredIsGenuine, PendingGenuine
  <2>3. RelayView' /\ PendingView'
      BY DEF IndInv, RelayView, PendingView, InView, RangeOf, IsExpired, IsStale
  <2>4. QED
      BY <2>1, <2>2, <2>3 DEF IndInv
<1>3. CASE RelayReadsAge
  <2> USE <1>3 DEF RelayReadsAge
  <2>1. RelayerTypeOK'
      BY <1>0 DEF IndInv, RelayerTypeOK, TypeOK, NetTypeOK, StoreTypeOK, Labels, Locked, Contract
  <2>2. NothingFromFuture' /\ LocalsGenuine' /\ PendingGenuine'
      BY DEF IndInv, NothingFromFuture, LocalsGenuine, GenuineBatch, StoredIsGenuine, PendingGenuine
  <2>3. InView(median[cur], median[cur].age, median[cur].val, prices)
      BY <1>0 DEF InView, Locked, Contract
  <2>4. RelayView' /\ PendingView'
      BY <2>3 DEF IndInv, RelayView, PendingView, InView, RangeOf, IsExpired, IsStale
  <2>5. QED
      BY <2>1, <2>2, <2>4 DEF IndInv
<1>4. CASE RelayReadsVal
  <2> USE <1>4 DEF RelayReadsVal
  <2>1. RelayerTypeOK'
      BY <1>0 DEF IndInv, RelayerTypeOK, TypeOK, NetTypeOK, StoreTypeOK, Labels, Locked, Contract
  <2>2. NothingFromFuture' /\ LocalsGenuine' /\ PendingGenuine'
      BY DEF IndInv, NothingFromFuture, LocalsGenuine, GenuineBatch, StoredIsGenuine, PendingGenuine
  <2>3. RelayView' /\ PendingView'
      BY DEF IndInv, RelayView, PendingView, InView, RangeOf, IsExpired, IsStale
  <2>4. QED
      BY <2>1, <2>2, <2>3 DEF IndInv
<1>5. QED
    BY <1>1, <1>2, <1>3, <1>4

\* The decision and the poke.
LEMMA PokeStepsKeep ==
    ASSUME IndInv, RelayDecides \/ RelaySimulates \/ RelaySends \/ RelayCallFails
    PROVE  IndInv'
<1> USE DEF chainVars
<1>1. CASE RelayDecides
  <2>0. UNCHANGED <<netVars, storeVars, median, pending, synced, feederAddresses, waitCh, todo>>
      BY <1>1 DEF RelayDecides
  <2>1. PICK sel \in Selections : \E s \in Sorted(sel) :
           IF (IsExpired(oracleTime) \/ IsStale(s, oraclePrice)) /\ Len(s) = oracleQuorum
           THEN /\ batch' = s
                /\ prices' = {}
                /\ pc' = "simulate"
                /\ UNCHANGED <<cur, oracleQuorum, oracleTime, oraclePrice>>
           ELSE Return
      BY <1>1 DEF RelayDecides
  <2>2. PICK s \in Sorted(sel) :
           IF (IsExpired(oracleTime) \/ IsStale(s, oraclePrice)) /\ Len(s) = oracleQuorum
           THEN /\ batch' = s
                /\ prices' = {}
                /\ pc' = "simulate"
                /\ UNCHANGED <<cur, oracleQuorum, oracleTime, oraclePrice>>
           ELSE Return
      BY <2>1
  <2>3. CASE ~((IsExpired(oracleTime) \/ IsStale(s, oraclePrice)) /\ Len(s) = oracleQuorum)
      BY <2>0, <2>2, <2>3, ReturnQuietlyKeeps
  <2>4. CASE (IsExpired(oracleTime) \/ IsStale(s, oraclePrice)) /\ Len(s) = oracleQuorum
    <3> DEFINE S == FilterAddresses(ClearOlderThan(prices, oracleTime), feederAddresses[cur])
    <3>1. /\ S \subseteq prices
          /\ \A m \in S : m.age >= oracleTime /\ m.from \in feederAddresses[cur]
        BY DEF FilterAddresses, ClearOlderThan
    <3>2. IsFiniteSet(S) /\ S \subseteq Message
      <4>1. IsFiniteSet(net) /\ prices \subseteq net /\ prices \subseteq Message
          BY DEF IndInv, NothingFromFuture, LocalsGenuine, GenuineBatch, RelayerTypeOK
      <4>2. QED
          BY <3>1, <4>1, FS_Subset
    <3>3. sel \in Truncations(S, oracleQuorum) /\ oracleQuorum \in Nat
        BY DEF Selections, IndInv, RelayerTypeOK
    <3> HIDE DEF S
    <3>4. /\ s \in Seq(Message)
          /\ \A i \in 1..Len(s) : s[i] \in S
          /\ \A i, j \in 1..Len(s) : i < j => s[i] # s[j] /\ s[i].val <= s[j].val
        BY <3>2, <3>3, SortedFacts
    <3>5. /\ batch' = s
          /\ prices' = {}
          /\ pc' = "simulate"
          /\ UNCHANGED <<cur, oracleQuorum, oracleTime, oraclePrice>>
        BY <2>2, <2>4
    <3>6. pc = "decide" /\ cur \in Pairs
        BY <1>1 DEF RelayDecides, IndInv, RelayerTypeOK, Locked
    <3>7. RelayerTypeOK'
        BY <2>0, <3>4, <3>5, <3>6
           DEF netVars, storeVars, IndInv, RelayerTypeOK, TypeOK, NetTypeOK, StoreTypeOK,
               Labels, Locked
    <3>8. NothingFromFuture' /\ PendingGenuine'
        BY <2>0 DEF netVars, IndInv, NothingFromFuture, PendingGenuine, GenuineBatch
    <3>9. LocalsGenuine'
      <4>1. \A i \in 1..Len(s) : /\ s[i] \in net
                                 /\ s[i].wat = cur
                                 /\ s[i].val > 0
                                 /\ s[i].age >= oracleTime
                                 /\ s[i].from \in feederAddresses[cur]
          BY <3>1, <3>4 DEF IndInv, LocalsGenuine, GenuineBatch
      <4>2. \A i, j \in 1..Len(s) :
               i < j => s[i].from # s[j].from /\ s[i].val <= s[j].val
          BY <3>1, <3>4 DEF IndInv, LocalsGenuine, GenuineBatch
      <4>3. StoredIsGenuine' /\ (\A m, q \in ps : KeyOf(m) = KeyOf(q) => m = q)'
          BY <2>0 DEF netVars, storeVars, IndInv, LocalsGenuine, GenuineBatch, StoredIsGenuine
      <4>4. QED
          BY <2>0, <3>5, <4>1, <4>2, <4>3 DEF netVars, LocalsGenuine, GenuineBatch
    <3>10. RelayView'
      <4>1. RangeOf(s) \subseteq prices
          BY <3>1, <3>4 DEF RangeOf
      <4>2. InView(median[cur], oracleTime, oraclePrice, RangeOf(s))
          BY <3>6, <4>1 DEF IndInv, RelayView, InView
      <4>3. (InView(median[cur], oracleTime, oraclePrice, RangeOf(batch)))'
          BY <2>0, <3>5, <4>2 DEF InView, RangeOf
      <4>4. (IsExpired(oracleTime) \/ IsStale(batch, oraclePrice))'
          BY <2>0, <2>4, <3>5 DEF netVars, IsExpired, IsStale
      <4>5. QED
          BY <3>5, <4>3, <4>4 DEF RelayView
    <3>11. PendingView'
        BY <2>0 DEF netVars, IndInv, PendingView, InView, RangeOf, IsExpired, IsStale
    <3>12. QED
        BY <3>7, <3>8, <3>9, <3>10, <3>11 DEF IndInv
  <2>5. QED
      BY <2>3, <2>4
<1>2. CASE RelaySimulates
  <2>1. CASE PokeAccepted(median[cur], batch)
    <3>1. pc = "simulate" /\ pc' = "send" /\ UNCHANGED locals
          /\ UNCHANGED <<netVars, storeVars, chainVars, synced, feederAddresses, waitCh, todo>>
        BY <1>2, <2>1 DEF RelaySimulates
    <3> USE <3>1 DEF locals, netVars, storeVars
    <3>2. RelayerTypeOK'
        BY DEF netVars, storeVars, IndInv, RelayerTypeOK, TypeOK, NetTypeOK, StoreTypeOK,
               Labels, Locked
    <3>3. NothingFromFuture' /\ LocalsGenuine' /\ PendingGenuine'
        BY DEF IndInv, NothingFromFuture, LocalsGenuine, GenuineBatch, StoredIsGenuine, PendingGenuine
    <3>4. RelayView' /\ PendingView'
        BY DEF IndInv, RelayView, PendingView, InView, RangeOf, IsExpired, IsStale
    <3>5. QED
        BY <3>2, <3>3, <3>4 DEF IndInv
  <2>2. CASE ~PokeAccepted(median[cur], batch)
      BY <1>2, <2>2, ReturnQuietlyKeeps DEF RelaySimulates
  <2>3. QED
      BY <2>1, <2>2
<1>3. CASE RelaySends
  <2> DEFINE tx == [pair |-> cur, prices |-> batch, readAge |-> oracleTime,
                    readVal |-> oraclePrice]
  <2>0. pc = "send" /\ Return
        /\ UNCHANGED <<netVars, storeVars, median, synced, feederAddresses, waitCh, todo>>
      BY <1>3 DEF RelaySends
  <2>1. CASE pending' = pending
      BY <2>0, <2>1, ReturnQuietlyKeeps
  <2>2. CASE pending' = {tx}
    <3>1. pending' \subseteq Transaction
        BY <2>0, <2>2 DEF IndInv, RelayerTypeOK, Locked, Transaction
    <3>2. PendingView'
      <4>1. /\ InView(median[cur], oracleTime, oraclePrice, RangeOf(batch))
            /\ IsExpired(oracleTime) \/ IsStale(batch, oraclePrice)
          BY <2>0 DEF IndInv, RelayView
      <4>2. QED
          BY <2>0, <2>2, <4>1 DEF netVars, PendingView, InView, RangeOf, IsExpired, IsStale
    <3>3. PendingGenuine'
        BY <2>0, <2>2 DEF netVars, IndInv, LocalsGenuine, GenuineBatch, PendingGenuine
    <3>4. QED
        BY <2>0, <3>1, <3>2, <3>3, ReturnKeeps
  <2>3. QED
      BY <1>3, <2>1, <2>2 DEF RelaySends
<1>4. CASE RelayCallFails
    BY <1>4, ReturnQuietlyKeeps DEF RelayCallFails
<1>5. QED
    BY <1>1, <1>2, <1>3, <1>4

-----------------------------------------------------------------------------
(* The theorems *)

\* IndInv is an inductive invariant of the pipeline.
LEMMA InvariantInductive == IndInv /\ [Next]_vars => IndInv'
<1> SUFFICES ASSUME IndInv, [Next]_vars PROVE IndInv'
    OBVIOUS
<1>1. CASE Environment
    BY <1>1, NetKeeps, StoreKeeps, ChainKeeps DEF Environment
<1>2. CASE RelayStep \/ RelayCallFails
    BY <1>2, ReadsKeep, PokeStepsKeep DEF RelayStep
<1>3. CASE UNCHANGED vars
  <2> USE <1>3 DEF vars, netVars, storeVars, chainVars, relayerVars, locals
  <2>1. RelayerTypeOK' /\ NothingFromFuture'
      BY DEF IndInv, RelayerTypeOK, TypeOK, NetTypeOK, StoreTypeOK, NothingFromFuture
  <2>2. LocalsGenuine' /\ PendingGenuine'
      BY DEF IndInv, LocalsGenuine, GenuineBatch, StoredIsGenuine, PendingGenuine
  <2>3. RelayView' /\ PendingView'
      BY DEF IndInv, RelayView, PendingView, InView, RangeOf, IsExpired, IsStale
  <2>4. QED
      BY <2>1, <2>2, <2>3 DEF IndInv
<1>4. QED
    BY <1>1, <1>2, <1>3, LifecycleKeeps DEF Next

LEMMA InvariantInitially == Init => IndInv
<1> SUFFICES ASSUME Init PROVE IndInv
    OBVIOUS
<1> USE DEF Init, NetInit, StoreInit, RelayerInit
<1>1. PICK b \in Bars, o \in Orcls, v \in Vals :
         median = [p \in Pairs |-> [bar |-> b, age |-> 0, val |-> v, orcl |-> o]]
    OBVIOUS
<1>2. RelayerTypeOK
  <2>1. b \in Nat /\ v \in Nat /\ o \in SUBSET Feeders
      BY RelayerAssumption, PriceNetAssumption
  <2>2. median \in [Pairs -> [bar : Nat, age : Nat, val : Nat, orcl : SUBSET Feeders]]
      BY <1>1, <2>1
  <2>3. QED
      BY <2>2 DEF RelayerTypeOK, TypeOK, NetTypeOK, StoreTypeOK, Labels, Locked
<1>3. NothingFromFuture
    BY <1>1, FS_EmptySet DEF NothingFromFuture
<1>4. LocalsGenuine /\ PendingGenuine /\ PendingView /\ RelayView
    BY DEF LocalsGenuine, GenuineBatch, StoredIsGenuine, PendingGenuine, PendingView, RelayView
<1>5. QED
    BY <1>2, <1>3, <1>4 DEF IndInv

\* IndInv holds in every reachable state of the pipeline.
THEOREM InvariantHolds == Spec => []IndInv
BY InvariantInitially, InvariantInductive, PTL DEF Spec

\* Every variable of the pipeline keeps its type.
THEOREM RelayerTyped == Spec => []RelayerTypeOK
<1>1. IndInv => RelayerTypeOK
    BY DEF IndInv
<1>2. QED
    BY <1>1, InvariantHolds, PTL

\* Every submitted price was published for the pair by a feeder of its own, is
\* positive and not older than the oracle, and the batch is ordered.
THEOREM SubmissionsAreGenuine == Spec => []SubmittedIsGenuine
<1>1. IndInv => SubmittedIsGenuine
    BY DEF IndInv, LocalsGenuine, GenuineBatch, SubmittedIsGenuine
<1>2. QED
    BY <1>1, InvariantHolds, PTL

\* The state form of the argument: a pending transaction is acceptable only
\* while the oracle is the one relay had read.
LEMMA ViewGivesUnchanged == IndInv => AcceptedOnlyIfUnchanged
<1> SUFFICES ASSUME IndInv, NEW tx \in pending,
                    PokeAccepted(median[tx.pair], tx.prices)
             PROVE  /\ median[tx.pair].age = tx.readAge
                    /\ median[tx.pair].val = tx.readVal
    BY DEF AcceptedOnlyIfUnchanged
<1>1. tx.pair \in Pairs /\ tx.readAge \in Nat
    BY DEF IndInv, RelayerTypeOK, Transaction
<1>2. median[tx.pair] \in Contract /\ median[tx.pair].bar \in Bars
    BY <1>1, AgesAtHand DEF IndInv, NothingFromFuture
<1>3. \A i \in 1..Len(tx.prices) : tx.prices[i].age \in Int
    BY AgesAtHand DEF RangeOf
<1>4. InView(median[tx.pair], tx.readAge, tx.readVal, RangeOf(tx.prices))
    BY DEF IndInv, PendingView
<1>5. QED
    BY <1>1, <1>2, <1>3, <1>4, AcceptedInView

\* No update of the oracle that relay did not see is ever overwritten by its
\* transaction, wherever in the sequence of reads and calls it fell.
THEOREM NoBlindOverwrite == Spec => []AcceptedOnlyIfUnchanged
BY ViewGivesUnchanged, InvariantHolds, PTL

\* The relayer changes the oracle only when it is expired or off by Spread.
THEOREM UpdatesAreDue == Spec => OnlyDueUpdates
<1> DEFINE Due ==
       \A tx \in pending :
          pending' = {} /\ median'[tx.pair] # median[tx.pair] =>
             \/ IsExpired(median[tx.pair].age)
             \/ IsStale(tx.prices, median[tx.pair].val)
<1>1. IndInv /\ [Next]_vars => [Due]_vars
  <2> SUFFICES ASSUME IndInv, [Next]_vars, NEW tx \in pending,
                      pending' = {}, median'[tx.pair] # median[tx.pair]
               PROVE  \/ IsExpired(median[tx.pair].age)
                      \/ IsStale(tx.prices, median[tx.pair].val)
      OBVIOUS
  <2>1. MinePending
      BY DEF Next, Environment, RelayStep, StartPair, StartRelayer, SyncTick, RelayTick,
             RoutineReturns, ContextCancelHandler, RelayReadsStore, RelayReadsBar,
             RelayReadsAge, RelayReadsVal, RelayDecides, RelaySimulates, RelaySends,
             RelayCallFails, OtherPoke, Reconfigure, vars, chainVars
  <2>2. PICK other \in pending :
           IF PokeAccepted(median[other.pair], other.prices)
           THEN median' = [median EXCEPT ![other.pair] = Poked(@, other.prices, now)]
           ELSE median' = median
      BY <2>1 DEF MinePending
  <2>3. other = tx
      BY DEF IndInv, PendingView
  <2>4. /\ IsExpired(tx.readAge) \/ IsStale(tx.prices, tx.readVal)
        /\ median[tx.pair].age = tx.readAge
        /\ median[tx.pair].val = tx.readVal
      BY <2>2, <2>3, ViewGivesUnchanged DEF AcceptedOnlyIfUnchanged, IndInv, PendingView
  <2>5. QED
      BY <2>4
<1>2. QED
    BY <1>1, InvariantHolds, PTL DEF Spec, OnlyDueUpdates

===============================================================================
