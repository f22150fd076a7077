-------------------------------- MODULE Relayer -------------------------------
(***************************************************************************)
(* The relayer (pkg/price/relayer) over the price store and the Medianizer *)
(* contracts.  relayerRoutine runs relay for every pair at each tick;      *)
(* relay reads the store and then the contract with three separate calls   *)
(* (Bar, Age, Val), decides whether the oracle needs an update, and pokes  *)
(* it: a simulated call followed by the transaction.  One routine per pair *)
(* refreshes the list of allowed feeders.  relay and the refresh hold      *)
(* Relayer.mu; nothing holds the contract, which other relayers poke and   *)
(* its owners reconfigure between any two of the calls.                    *)
(***************************************************************************)
EXTENDS PriceStore, MedianContract

CONSTANTS Spread,             \* Pair.Spread, in percent
          Expiration,         \* Pair.Expiration, in seconds
          Bars,               \* quorums the contract's owners may set
          Orcls,              \* lists of feeders the owners may set
          FeedsOutcomes,      \* how a call of Median.Feeds may end
          ClientNeedsSender,  \* ethereum/geth.Client.SendTransaction refuses
                              \* a transaction without a From address
          NoPair              \* the value of cur outside relay

ASSUME RelayerAssumption ==
    /\ Spread \in Nat
    /\ Expiration \in Nat
    /\ Bars \subseteq {b \in Nat : b % 2 = 1}  \* the contract wants an odd bar
    /\ Orcls \subseteq SUBSET Feeders
    /\ FeedsOutcomes \subseteq {"ok", "callFailed", "decodeFailed"}
    /\ ClientNeedsSender \in BOOLEAN
    /\ NoPair \notin Pairs

VARIABLES
    median,           \* the contract of each pair
    pending,          \* this relayer's transaction that waits to be mined, if any
    synced,           \* pairs whose first syncFeederAddresses returned, in Start
    feederAddresses,  \* Pair.FeederAddresses, of each pair
    waitCh,           \* the channel Wait returns: "open" or "closed"
    pc,               \* where relayerRoutine is
    todo,             \* pairs the running tick has not relayed yet
    cur,              \* relay's local variables: the pair,
    prices,           \* the prices taken from the store,
    oracleQuorum,     \* the answers of Bar, Age and Val,
    oracleTime,
    oraclePrice,
    batch             \* and the prices of the poke, in order

chainVars == <<median, pending>>
locals == <<cur, prices, oracleQuorum, oracleTime, oraclePrice, batch>>
relayerVars == <<synced, feederAddresses, waitCh, pc, todo, locals>>
vars == <<netVars, storeVars, chainVars, relayerVars>>

\* Labels at which relay holds Relayer.mu.
Locked == {"bar", "age", "val", "decide", "simulate", "send"}
Labels == Locked \union {"new", "failed", "idle", "next", "stopped"}

\* A transaction remembers what relay had read when it decided to send it.
Transaction == [pair : Pairs, prices : Seq(Message), readAge : Nat, readVal : Nat]

RelayerInit ==
    /\ \E b \in Bars, o \in Orcls, v \in Vals :
          median = [p \in Pairs |-> [bar |-> b, age |-> 0, val |-> v, orcl |-> o]]
    /\ pending = {}
    /\ synced = {}
    /\ feederAddresses = [p \in Pairs |-> {}]
    /\ waitCh = "open"
    /\ pc = "new"
    /\ todo = {}
    /\ cur = NoPair
    /\ prices = {}
    /\ oracleQuorum = 0
    /\ oracleTime = 0
    /\ oraclePrice = 0
    /\ batch = << >>

Init == NetInit /\ StoreInit /\ RelayerInit

-----------------------------------------------------------------------------
(* The slice helpers of relay.  The map of the store is read in no          *)
(* particular order, so a slice of prices is a set until it is sorted.      *)

\* clearOlderThan: a price as old as the oracle stays.
ClearNewerThan(S, t) == {m \in S : m.age <= t}

ClearOlderThan(S, t) == {m \in S : m.age >= t}

\* filterAddresses.
FilterAddresses(S, addrs) == {m \in S : m.from \in addrs}

\* truncate: all of a short slice, n random elements of a longer one.
Truncations(S, n) ==
    IF Cardinality(S) <= n THEN {S} ELSE {T \in SUBSET S : Cardinality(T) = n}

\* The orders sort.Slice can leave the prices in: by value, equal values in
\* any order.  relay sorts in calcMedian and again in Median.Poke; the second
\* sort of the same slice only matters when the first was skipped.
AllOrders(S) ==
    {s \in [1..Cardinality(S) -> S] : \A i, j \in DOMAIN s : s[i] = s[j] => i = j}

Sorted(S) ==
    {s \in AllOrders(S) : \A i, j \in DOMAIN s : i < j => s[i].val <= s[j].val}

\* calcMedian, of a sorted non-empty slice.
CalcMedian(s) ==
    LET count == Len(s)
    IN  IF count % 2 = 0
        THEN (s[count \div 2].val + s[(count \div 2) + 1].val) \div 2
        ELSE s[((count - 1) \div 2) + 1].val

Abs(x) == IF x < 0 THEN -x ELSE x

\* calcSpread >= Pair.Spread.  The spread is infinite when there is no price
\* or the oracle has none; otherwise it is the deviation in percent.
IsStale(s, old) ==
    \/ Len(s) = 0
    \/ old = 0
    \/ Abs(CalcMedian(s) - old) * 100 >= Spread * old

\* oracleTime.Add(Expiration).Before(time.Now()).
IsExpired(t) == t + Expiration < now

-----------------------------------------------------------------------------
(* Start and the refresh of the feeder lists *)

\* What Median.Feeds makes of the multicall over the 256 slots: the contract's
\* list; no address and no error when the call failed, because the error of
\* retry is never looked at; an error when an answer does not decode.
FeedsAnswer(p, outcome) == IF outcome = "ok" THEN median[p].orcl ELSE {}
FeedsReportsError(outcome) == outcome = "decodeFailed"

\* syncFeederAddresses: an error leaves the list as it is.
SyncFeederAddresses(p, outcome) ==
    feederAddresses' =
       IF FeedsReportsError(outcome)
       THEN feederAddresses
       ELSE [feederAddresses EXCEPT ![p] = FeedsAnswer(p, outcome)]

\* One round of the loop in Start: the first refresh of a pair, then its
\* refresh routine.  An error ends Start and leaves the earlier routines
\* running.
StartPair(p) ==
    /\ ctx = "live"
    /\ pc = "new"
    /\ p \notin synced
    /\ \E outcome \in FeedsOutcomes :
          /\ SyncFeederAddresses(p, outcome)
          /\ IF FeedsReportsError(outcome)
             THEN pc' = "failed" /\ synced' = synced
             ELSE pc' = pc /\ synced' = synced \union {p}
    /\ UNCHANGED <<netVars, storeVars, chainVars, waitCh, todo, locals>>

\* The end of Start: the ticker, relayerRoutine and contextCancelHandler.
StartRelayer ==
    /\ pc = "new"
    /\ synced = Pairs
    /\ pc' = "idle"
    /\ UNCHANGED <<netVars, storeVars, chainVars, synced, feederAddresses, waitCh, todo, locals>>

\* Mutant: the refresh does not take the mutex.
SyncTickUnlocked(p, outcome) ==
    /\ p \in synced
    /\ SyncFeederAddresses(p, outcome)
    /\ UNCHANGED <<netVars, storeVars, chainVars, synced, waitCh, pc, todo, locals>>

\* syncFeederAddressesRoutine at a tick, when the mutex is free.  After
\* cancellation select may still prefer the tick, but the call then fails.
SyncTick(p, outcome) ==
    /\ p \in synced
    /\ pc \notin Locked
    /\ ctx = "done" => outcome # "ok"
    /\ SyncFeederAddresses(p, outcome)
    /\ UNCHANGED <<netVars, storeVars, chainVars, synced, waitCh, pc, todo, locals>>

-----------------------------------------------------------------------------
(* relayerRoutine and relay *)

RelayTick ==
    /\ pc = "idle"
    /\ todo' = Pairs
    /\ pc' = "next"
    /\ UNCHANGED <<netVars, storeVars, chainVars, synced, feederAddresses, waitCh, locals>>

\* The routine returns at ctx.Done(), between two ticks only.
RoutineReturns ==
    /\ pc = "idle"
    /\ ctx = "done"
    /\ pc' = "stopped"
    /\ UNCHANGED <<netVars, storeVars, chainVars, synced, feederAddresses, waitCh, todo, locals>>

\* contextCancelHandler, started at the end of Start, does not wait for the
\* routines.
ContextCancelHandler ==
    /\ ctx = "done"
    /\ pc \notin {"new", "failed"}
    /\ waitCh' = "closed"
    /\ UNCHANGED <<netVars, storeVars, chainVars, synced, feederAddresses, pc, todo, locals>>

\* relay takes the mutex and reads the store.
RelayReadsStore(p) ==
    /\ pc = "next"
    /\ p \in todo
    /\ cur' = p
    /\ todo' = todo \ {p}
    /\ prices' = GetByAssetPair(p)
    /\ pc' = "bar"
    /\ UNCHANGED <<netVars, storeVars, chainVars, synced, feederAddresses,
                   waitCh, oracleQuorum, oracleTime, oraclePrice, batch>>

\* relay returns: the mutex is free, the local variables are gone, and the
\* tick is over when no pair is left.
Return ==
    /\ pc' = IF todo = {} THEN "idle" ELSE "next"
    /\ cur' = NoPair
    /\ prices' = {}
    /\ oracleQuorum' = 0
    /\ oracleTime' = 0
    /\ oraclePrice' = 0
    /\ batch' = << >>

RelayReadsBar ==
    /\ pc = "bar"
    /\ ctx = "live"
    /\ oracleQuorum' = median[cur].bar
    /\ pc' = "age"
    /\ UNCHANGED <<netVars, storeVars, chainVars, synced, feederAddresses, todo,
                   waitCh, cur, prices, oracleTime, oraclePrice, batch>>

RelayReadsAge ==
    /\ pc = "age"
    /\ ctx = "live"
    /\ oracleTime' = median[cur].age
    /\ pc' = "val"
    /\ UNCHANGED <<netVars, storeVars, chainVars, synced, feederAddresses, todo,
                   waitCh, cur, prices, oracleQuorum, oraclePrice, batch>>

\* Mutant: the store is read again after the contract was.
RelayReadsValThenStore ==
    /\ pc = "val"
    /\ ctx = "live"
    /\ oraclePrice' = median[cur].val
    /\ prices' = GetByAssetPair(cur)
    /\ pc' = "decide"
    /\ UNCHANGED <<netVars, storeVars, chainVars, synced, feederAddresses, todo,
                   waitCh, cur, oracleQuorum, oracleTime, batch>>

RelayReadsVal ==
    /\ pc = "val"
    /\ ctx = "live"
    /\ oraclePrice' = median[cur].val
    /\ pc' = "decide"
    /\ UNCHANGED <<netVars, storeVars, chainVars, synced, feederAddresses, todo,
                   waitCh, cur, prices, oracleQuorum, oracleTime, batch>>

\* A call to the contract fails: Bar, Age and Val return the error at once
\* (retry gives up after the first attempt), as do the simulated call and
\* SendTransaction.
RelayCallFails ==
    /\ pc \in {"bar", "age", "val", "simulate", "send"}
    /\ Return
    /\ UNCHANGED <<netVars, storeVars, chainVars, synced, feederAddresses, waitCh, todo>>

\* The prices that stay after clearOlderThan, filterAddresses and truncate.
Selections ==
    Truncations(FilterAddresses(ClearOlderThan(prices, oracleTime),
                                feederAddresses[cur]),
                oracleQuorum)

\* relay decides: no update, not enough prices, or a poke.
RelayDecides ==
    /\ pc = "decide"
    /\ \E sel \in Selections : \E s \in Sorted(sel) :
          IF (IsExpired(oracleTime) \/ IsStale(s, oraclePrice)) /\ Len(s) = oracleQuorum
          THEN /\ batch' = s
               /\ prices' = {}
               /\ pc' = "simulate"
               /\ UNCHANGED <<cur, oracleQuorum, oracleTime, oraclePrice>>
          ELSE Return
    /\ UNCHANGED <<netVars, storeVars, chainVars, synced, feederAddresses, waitCh, todo>>

\* Median.Poke runs the poke as a call first; a refusal is an error.
RelaySimulates ==
    /\ pc = "simulate"
    /\ ctx = "live"
    /\ IF PokeAccepted(median[cur], batch)
       THEN pc' = "send" /\ UNCHANGED locals
       ELSE Return
    /\ UNCHANGED <<netVars, storeVars, chainVars, synced, feederAddresses, waitCh, todo>>

\* Median.write and Client.SendTransaction.  The nonce is the number of mined
\* transactions, so a second transaction has the nonce of the first: the node
\* keeps one of them.  write sets no sender.
RelaySends ==
    /\ pc = "send"
    /\ ctx = "live"
    /\ ~ClientNeedsSender
    /\ \/ pending' = {[pair |-> cur, prices |-> batch, readAge |-> oracleTime,
                        readVal |-> oraclePrice]}
       \/ pending # {} /\ pending' = pending
    /\ Return
    /\ UNCHANGED <<netVars, storeVars, median, synced, feederAddresses, waitCh, todo>>

-----------------------------------------------------------------------------
(* The chain (external) *)

\* A block takes the pending transaction: the contract accepts or reverts.
MinePending ==
    /\ \E tx \in pending :
          IF PokeAccepted(median[tx.pair], tx.prices)
          THEN median' = [median EXCEPT ![tx.pair] = Poked(@, tx.prices, now)]
          ELSE median' = median
    /\ pending' = {}
    /\ UNCHANGED <<netVars, storeVars, relayerVars>>

\* Another relayer pokes the contract of p with prices from the network.
OtherPoke(p) ==
    /\ \E S \in SUBSET {m \in net : m.wat = p} :
          /\ Cardinality(S) = median[p].bar
          /\ \E s \in Sorted(S) :
                /\ PokeAccepted(median[p], s)
                /\ median' = [median EXCEPT ![p] = Poked(@, s, now)]
    /\ pending' = pending
    /\ UNCHANGED <<netVars, storeVars, relayerVars>>

\* The owners of the contract change the quorum or the list of feeders.
Reconfigure(p) ==
    /\ \E b \in Bars, o \in Orcls :
          median' = [median EXCEPT ![p] = [@ EXCEPT !.bar = b, !.orcl = o]]
    /\ pending' = pending
    /\ UNCHANGED <<netVars, storeVars, relayerVars>>

-----------------------------------------------------------------------------
Environment ==
    \/ NetNext /\ UNCHANGED <<storeVars, chainVars, relayerVars>>
    \/ (StartStore \/ CancelCtx \/ CollectorStep) /\ UNCHANGED <<chainVars, relayerVars>>
    \/ MinePending
    \/ \E p \in Pairs : OtherPoke(p) \/ Reconfigure(p)

RelayStep ==
    \/ \E p \in Pairs : RelayReadsStore(p)
    \/ RelayReadsBar
    \/ RelayReadsAge
    \/ RelayReadsVal
    \/ RelayDecides
    \/ RelaySimulates
    \/ RelaySends

Next ==
    \/ Environment
    \/ \E p \in Pairs : StartPair(p)
    \/ StartRelayer
    \/ \E p \in Pairs : \E outcome \in FeedsOutcomes : SyncTick(p, outcome)
    \/ RelayTick
    \/ RoutineReturns
    \/ ContextCancelHandler
    \/ RelayStep
    \/ RelayCallFails

Spec == Init /\ [][Next]_vars

(***************************************************************************)
(* Fairness.  The tickers never stop, so a tick is always followed by      *)
(* another (RelayTick, SyncTick); a goroutine that can run eventually does;*)
(* the endpoint does not fail every call (strong fairness of the successful*)
(* reads, simulation and sending) and the random choice of truncate takes  *)
(* every subset again and again; the chain mines what is pending.          *)
(***************************************************************************)
RelayPicksAccepted ==
    RelayDecides /\ pc' = "simulate" /\ PokeAccepted(median[cur], batch')

Fairness ==
    /\ \A p \in Pairs : /\ WF_vars(StartPair(p))
                        /\ SF_vars(SyncTick(p, "ok"))
    /\ WF_vars(StartRelayer)
    /\ WF_vars(RelayTick)
    /\ WF_vars(RelayStep \/ RelayCallFails)
    /\ SF_vars(RelayReadsBar)
    /\ SF_vars(RelayReadsAge)
    /\ SF_vars(RelayReadsVal)
    /\ SF_vars(RelayPicksAccepted)
    /\ SF_vars(RelaySimulates /\ pc' = "send")
    /\ SF_vars(RelaySends)
    /\ WF_vars(MinePending)

FairSpec == Spec /\ Fairness

-----------------------------------------------------------------------------
\* Type invariant of the whole pipeline.
RelayerTypeOK ==
    /\ TypeOK
    /\ median \in [Pairs -> [bar : Nat, age : Nat, val : Nat, orcl : SUBSET Feeders]]
    /\ pending \subseteq Transaction
    /\ synced \subseteq Pairs
    /\ feederAddresses \in [Pairs -> SUBSET Feeders]
    /\ waitCh \in {"open", "closed"}
    /\ pc \in Labels
    /\ todo \subseteq Pairs
    /\ cur \in Pairs \union {NoPair}
    /\ pc \in Locked => cur \in Pairs
    /\ prices \subseteq Message
    /\ oracleQuorum \in Nat
    /\ oracleTime \in Nat
    /\ oraclePrice \in Nat
    /\ batch \in Seq(Message)

\* The prices of s may be sent to the contract of p: they were signed and
\* published for p by feeders that are all different, are positive, are not
\* older than age, and stand in the order the contract wants.
GenuineBatch(p, s, age) ==
    \A i, j \in 1..Len(s) :
       /\ s[i] \in net
       /\ s[i].wat = p
       /\ s[i].val > 0
       /\ s[i].age >= age
       /\ i < j => s[i].from # s[j].from /\ s[i].val <= s[j].val

PendingGenuine == \A tx \in pending : GenuineBatch(tx.pair, tx.prices, tx.readAge)

\* What relay hands to Poke is genuine and comes from feeders that are still
\* in the relayer's list when the transaction leaves, although the list is
\* refreshed by another routine (both hold Relayer.mu), and so is what waits to
\* be mined ("It's important to send prices in correct order", median.go:143).
SubmittedIsGenuine ==
    /\ GenuineBatch(cur, batch, oracleTime)
    /\ \A i \in 1..Len(batch) : batch[i].from \in feederAddresses[cur]
    /\ PendingGenuine

\* relay decides from the store and from three separate reads of the contract,
\* and its transaction is mined later still; other relayers may have updated
\* the oracle at any point in between.  Even so the contract only accepts the
\* transaction when the oracle is still the one relay had read: the prices
\* were taken from the store before the contract was read, so an update that
\* relay did not see is at least as new as every price in the batch.
AcceptedOnlyIfUnchanged ==
    \A tx \in pending :
       PokeAccepted(median[tx.pair], tx.prices) =>
          /\ median[tx.pair].age = tx.readAge
          /\ median[tx.pair].val = tx.readVal

\* This relayer changes the oracle only when it had to: at the moment of the
\* update the oracle was expired or the new price deviates from it by Spread.
OnlyDueUpdates ==
    [][\A tx \in pending :
          pending' = {} /\ median'[tx.pair] # median[tx.pair] =>
             \/ IsExpired(median[tx.pair].age)
             \/ IsStale(tx.prices, median[tx.pair].val)]_vars

\* The oracle of p is expired and the store holds a quorum of prices that the
\* contract would accept.
UpdateDue(p) ==
    /\ ctx = "live"
    /\ pc # "failed"
    /\ IsExpired(median[p].age)
    /\ Cardinality({m \in GetByAssetPair(p) : m.age > median[p].age
                                              /\ m.from \in median[p].orcl})
         >= median[p].bar

\* An expired oracle with enough fresh prices in the store is eventually
\* updated, in spite of failing calls, replaced transactions and competition
\* ("Relayer is a service that relays prices to the Medianizer contracts",
\* relayer.go:43).
DueIsEventuallyDone == \A p \in Pairs : UpdateDue(p) ~> ~UpdateDue(p)

-----------------------------------------------------------------------------
(***************************************************************************)
(* The inductive invariant behind the theorems of RelayerProofs.  What     *)
(* makes AcceptedOnlyIfUnchanged inductive is InView: the age read from the*)
(* contract is at most its age, and when the contract has moved on since,  *)
(* none of the prices at hand is newer than its last update.               *)
(***************************************************************************)
\* Nothing comes from the future, and a poke carries at least one price.
NothingFromFuture ==
    /\ IsFiniteSet(net)
    /\ \A m \in net : m.age <= now
    /\ \A p \in Pairs : median[p].age <= now /\ median[p].bar \in Bars

\* What relay has read of the store and keeps across its calls.
LocalsGenuine ==
    /\ StoredIsGenuine
    /\ \A m, q \in ps : KeyOf(m) = KeyOf(q) => m = q
    /\ pc \notin {"simulate", "send"} => batch = << >>
    /\ prices \subseteq net
    /\ \A m \in prices : m.wat = cur /\ m.val > 0
    /\ \A m, q \in prices : m.from = q.from => m = q
    /\ GenuineBatch(cur, batch, oracleTime)
    /\ \A i \in 1..Len(batch) : batch[i].from \in feederAddresses[cur]

\* age and val were read from contract c before the prices in S could have
\* been overtaken.
InView(c, age, val, S) ==
    /\ age <= c.age
    /\ c.age = age => c.val = val
    /\ c.age # age => \A m \in S : m.age <= c.age

RangeOf(s) == {s[i] : i \in 1..Len(s)}

RelayView ==
    /\ pc = "val" => InView(median[cur], oracleTime, median[cur].val, prices)
    /\ pc = "decide" => InView(median[cur], oracleTime, oraclePrice, prices)
    /\ pc \in {"simulate", "send"} =>
          /\ InView(median[cur], oracleTime, oraclePrice, RangeOf(batch))
          /\ IsExpired(oracleTime) \/ IsStale(batch, oraclePrice)

PendingView ==
    \A tx \in pending :
       /\ pending = {tx}
       /\ InView(median[tx.pair], tx.readAge, tx.readVal, RangeOf(tx.prices))
       /\ IsExpired(tx.readAge) \/ IsStale(tx.prices, tx.readVal)

IndInv ==
    /\ RelayerTypeOK
    /\ NothingFromFuture
    /\ LocalsGenuine
    /\ RelayView
    /\ PendingGenuine
    /\ PendingView

===============================================================================
