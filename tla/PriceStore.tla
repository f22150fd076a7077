------------------------------ MODULE PriceStore ------------------------------
(***************************************************************************)
(* The price store (pkg/price/store): the collector routine that takes     *)
(* price messages from the transport and the in-memory storage that keeps  *)
(* one price per asset pair and feeder.                                    *)
(*                                                                         *)
(* The same price reaches the collector through two topics (price/v0 and   *)
(* price/v1) and through a network that reorders and repeats; Receive may  *)
(* therefore handle any published message at any time, any number of times.*)
(***************************************************************************)
EXTENDS PriceNet

CONSTANT Pairs          \* PriceStore.pairs: the configured asset pairs

ASSUME PriceStoreAssumption == Pairs \subseteq Wats

VARIABLES ctx,          \* PriceStore.ctx: "none" before Start, "live", "done"
          ps,           \* MemoryStorage.ps, as the set of its values
          newest        \* history: greatest age of a genuine price so far, per key

storeVars == <<ctx, ps, newest>>

Keys == Wats \X Feeders
KeyOf(m) == <<m.wat, m.from>>

\* The value of newest for a key without a price.
NoAge == ZeroTime - 1

StoreInit ==
    /\ ctx = "none"
    /\ ps = {}
    /\ newest = [k \in Keys |-> NoAge]

StoreTypeOK ==
    /\ ctx \in {"none", "live", "done"}
    /\ ps \subseteq Message
    /\ newest \in [Keys -> Ages \union {NoAge}]

-----------------------------------------------------------------------------
\* MemoryStorage.Add: under the lock, an entry that is strictly newer stays;
\* otherwise the entry of the same pair and feeder is replaced.
Entry(m) == {q \in ps : KeyOf(q) = KeyOf(m)}

\* Mutants: the comparison turned round, and the map keyed by the pair alone.
AddOldest(m) ==
    IF \E q \in Entry(m) : m.age > q.age
    THEN ps' = ps
    ELSE ps' = (ps \ Entry(m)) \union {m}

AddUnkeyed(m) ==
    IF \E q \in Entry(m) : q.age > m.age
    THEN ps' = ps
    ELSE ps' = ps \union {m}

Add(m) ==
    IF \E q \in Entry(m) : q.age > m.age
    THEN ps' = ps
    ELSE ps' = (ps \ Entry(m)) \union {m}

\* PriceStore.collectPrice: what is let through to the storage.  The
\* signature test is the fault "signature" of Receive.
ValidPrice(m) ==
    /\ m.wat \in Pairs
    /\ m.val > 0

\* What can be wrong with a received message before its price is looked at:
\* the transport reports an error, the message has another type, or no
\* address can be recovered from the signature.
Faults == {"none", "error", "type", "signature"}

\* PriceStore.Start: a second call is an error and changes nothing.
StartStore ==
    /\ ctx = "none"
    /\ ctx' = "live"
    /\ UNCHANGED <<netVars, ps, newest>>

\* The program's context is cancelled.  contextCancelHandler closes waitCh; the
\* collector's select may still prefer a message to ctx.Done() any number of
\* times before it returns.
CancelCtx ==
    /\ ctx = "live"
    /\ ctx' = "done"
    /\ UNCHANGED <<netVars, ps, newest>>

\* handlePriceMessage: the checks of a received message that come before its
\* price is looked at, and those of collectPrice.
Collected(m, fault) == fault = "none" /\ ValidPrice(m)

\* History: the message as it was received is a price that its feeder signed, of
\* a configured pair and positive, whatever the collector makes of it.
Genuine(m, fault) == fault = "none" /\ m.wat \in Pairs /\ m.val > 0

\* handlePriceMessage: one message taken from either topic's channel by
\* priceCollectorRoutine.
Receive(m, fault) ==
    /\ ctx # "none"
    /\ ctx' = ctx
    /\ IF Collected(m, fault) THEN Add(m) ELSE ps' = ps
    /\ newest' = IF Genuine(m, fault) /\ newest[KeyOf(m)] < m.age
                 THEN [newest EXCEPT ![KeyOf(m)] = m.age]
                 ELSE newest
    /\ UNCHANGED netVars

\* GetByAssetPair and GetByFeeder read under the read lock.
GetByAssetPair(p) == {m \in ps : m.wat = p}
GetByFeeder(p, f) == {m \in ps : m.wat = p /\ m.from = f}

CollectorStep == \E m \in net, fault \in Faults : Receive(m, fault)

StoreNext ==
    \/ StartStore
    \/ CancelCtx
    \/ CollectorStep
    \/ NetNext /\ UNCHANGED storeVars

NetAndStoreInit == NetInit /\ StoreInit

StoreSpec == NetAndStoreInit /\ [][StoreNext]_<<netVars, storeVars>>

-----------------------------------------------------------------------------
\* Type invariant of the network and the store.
TypeOK == NetTypeOK /\ StoreTypeOK

\* However messages are reordered, repeated and damaged, the storage holds, for
\* every pair and feeder, nothing before a genuine price was received and exactly
\* one afterwards, and it is one of the newest that were ("If a price from same
\* feeder already exists, the newer one will be used", store.go:136).
NewestKept ==
    \A k \in Keys :
       LET kept == {m \in ps : KeyOf(m) = k}
       IN  IF newest[k] = NoAge
           THEN kept = {}
           ELSE \E m \in kept : kept = {m} /\ m.age = newest[k]

\* Part of the relayer's inductive invariant: what is stored was sent, is about a
\* configured pair and has a positive price.
StoredIsGenuine ==
    \A m \in ps : m \in net /\ m.wat \in Pairs /\ m.val > 0

\* A reader that polls the store never sees the age of a feeder's price go
\* back, nor a price disappear.
AgeNeverGoesBack ==
    [][\A m \in ps : \E q \in ps' : KeyOf(q) = KeyOf(m) /\ q.age >= m.age]_storeVars

===============================================================================
