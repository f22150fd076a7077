------------------------------- MODULE EventStore -------------------------------
(***************************************************************************)
(* The event store of lair (pkg/event/store) with its in-memory storage,   *)
(* and what the event API answers from it (pkg/event/api). The collector   *)
(* adds the events that the transport delivers, late, repeated and in any  *)
(* order; the storage keeps one message per author and event, and removes  *)
(* expired ones at every gcevery-th write.                                 *)
(*                                                                         *)
(* The hashes of (type, index) and (author, ID) are taken to be injective: *)
(* keys are the pairs themselves.                                          *)
(***************************************************************************)
EXTENDS Integers, FiniteSets

CONSTANTS EsMsgs,         \* messages of the network: records, see below
          EventTypes,     \* the types that the store is configured for
          EsTTL,          \* how long an event is kept
          GcEvery,        \* gcevery, 100 in the code
          GcWrites,       \* bound on the number of writes
          EsMaxTime       \* bound on the time

\* ok: neither a transport error nor a value of another type.
MsgFields == [author : STRING, id : STRING, type : STRING, index : STRING,
              eventDate : Nat, messageDate : Nat, ok : BOOLEAN]

ASSUME EventStoreAssumption ==
    /\ EsMsgs \subseteq MsgFields /\ EsTTL \in Nat /\ GcEvery \in Nat \ {0}
    /\ GcWrites \in Nat /\ EsMaxTime \in Nat
    \* The ID is that of a transaction, which has one date.
    /\ \A m, n \in EsMsgs : m.id = n.id => m.eventDate = n.eventDate

VARIABLES esTime,      \* the clock
          events,      \* the index: the stored messages
          gccount,
          collected,   \* messages that were given to Add
          esDone       \* the context is done, and Wait is closed

esVars == <<esTime, events, gccount, collected, esDone>>

hashIndex(m) == <<m.type, m.index>>
hashUnique(m) == <<m.author, m.id>>
SameKey(m, n) == hashIndex(m) = hashIndex(n) /\ hashUnique(m) = hashUnique(n)

ESInit ==
    esTime = 0 /\ events = {} /\ gccount = 0 /\ collected = {} /\ esDone = FALSE

ESAdvance ==
    /\ esTime < EsMaxTime
    /\ esTime' = esTime + 1
    /\ UNCHANGED <<events, gccount, collected, esDone>>

ESCancel ==
    /\ ~esDone
    /\ esDone' = TRUE
    /\ UNCHANGED <<esTime, events, gccount, collected>>

-----------------------------------------------------------------------------
(* MemoryStorage *)

EventAge(m) == esTime - m.eventDate

\* Mutant: an index is dropped as soon as one of its events has expired.
GcIndex(s) == {m \in s : \A n \in s : hashIndex(n) = hashIndex(m) => EventAge(n) <= EsTTL}

\* Of an index that has expired events, those whose age is the TTL go as well.
Gc(s) ==
    {m \in s :
        LET same == {n \in s : hashIndex(n) = hashIndex(m)}
            expired == {n \in same : EventAge(n) > EsTTL}
        IN  expired = {} \/ (expired # same /\ EventAge(m) < EsTTL)}

\* Add: a message replaces an older one of the same key; each write counts.
AddEvent(m) ==
    LET curr == {n \in events : SameKey(n, m)} IN
    IF \A n \in curr : n.messageDate < m.messageDate
    THEN LET written == (events \ curr) \cup {m} IN
         /\ gccount' = gccount + 1
         /\ events' = IF gccount' % GcEvery = 0 THEN Gc(written) ELSE written
    ELSE UNCHANGED <<events, gccount>>

\* The messages of an index.
Get(typ, idx) == {m \in events : hashIndex(m) = <<typ, idx>>}

\* The answer of the API: one element per message. (Their order in the answer,
\* by MessageDate, says nothing that the dates do not.)
mapEvents(typ, idx) == Get(typ, idx)

-----------------------------------------------------------------------------
(* The collector *)

isEventSupported(m) == m.type \in EventTypes

\* eventCollectorRoutine: one delivery of a message that exists by now.
CollectEvent(m) ==
    /\ ~esDone /\ gccount < GcWrites
    /\ m.messageDate <= esTime
    /\ m.ok /\ isEventSupported(m)
    /\ AddEvent(m)
    /\ collected' = collected \cup {m}
    /\ UNCHANGED <<esTime, esDone>>

\* A delivery that is logged and skipped.
CollectNothing(m) ==
    /\ ~esDone /\ m.messageDate <= esTime
    /\ ~m.ok \/ ~isEventSupported(m)
    /\ UNCHANGED esVars

ESNext == ESAdvance \/ ESCancel \/ \E m \in EsMsgs : CollectEvent(m) \/ CollectNothing(m)

ESSpec == ESInit /\ [][ESNext]_esVars

-----------------------------------------------------------------------------
(* Properties *)

\* Type correctness; the storage holds one message per key.
ESTypeOK ==
    /\ esTime \in 0..EsMaxTime /\ gccount \in 0..GcWrites
    /\ collected \subseteq EsMsgs /\ events \subseteq collected
    /\ \A m, n \in events : SameKey(m, n) => m = n

\* In whatever order, and however often, the messages arrive, and whatever is
\* collected as garbage meanwhile: of every event younger than the TTL the API
\* serves the newest message that was collected ("If the event already exists,
\* it will be updated if the MessageDate is newer").
NewestServed ==
    \A m \in collected :
        EventAge(m) < EsTTL =>
            \E n \in mapEvents(m.type, m.index) :
                hashUnique(n) = hashUnique(m) /\ n.messageDate >= m.messageDate

\* The store keeps one message per author and event, the newest that came,
\* through additions in any order and collections of garbage.
StoreServesNewest ==
    /\ ESTypeOK /\ NewestServed
===============================================================================
