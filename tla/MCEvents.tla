------------------------------- MODULE MCEvents -------------------------------
(***************************************************************************)
(* The event services for TLC: the two teleport providers, the replayer    *)
(* with the publisher, and the two storages of the event store. They meet  *)
(* only in channels and in the network, which a provider sees as a         *)
(* receiver that is ready at any time, the replayer as a provider that     *)
(* offers an event at any time and a store as messages that come in any    *)
(* order; a behaviour is one of a single component, with the others        *)
(* stopped.                                                                *)
(***************************************************************************)
EXTENDS TeleportEVM, TeleportStarknet, EventPublisher, EventStore, EventStoreRedis

MCLog(b, a, s) == [block |-> b, address |-> a, state |-> s]

\* Events before and after the start, next to a removed and a broken log.
MCLogs == {MCLog(3, "a", "ok"), MCLog(4, "b", "broken"),
           MCLog(5, "a", "removed"), MCLog(6, "a", "ok"), MCLog(6, "b", "ok")}

MCTx(i, e) == [id |-> i, event |-> e]
MCTxs == << <<MCTx(1, "ok")>>, <<MCTx(2, "ok"), MCTx(3, "foreign")>>,
            <<MCTx(4, "broken"), MCTx(5, "ok")>> >>

MCDate == [e \in Evts |-> IF e = "e1" THEN 0 ELSE 2]
MCPeriods == <<4, 1>>

EVMOver ==
    /\ evmHead = EVMMaxBlock /\ evmDone = TRUE
    /\ prefetch = [pc |-> "done", latest |-> 0, d |-> 0]
    /\ fetch = [pc |-> "done", first |-> 0, latest |-> 0, current |-> 0, ranges |-> <<>>]
    /\ job = [r \in Routines |-> NoJob]
    /\ passed = [r \in Routines |-> {}] /\ evmSkipped = [r \in Routines |-> {}] /\ evmNulls = 0
    /\ evmSent = [r \in Routines |-> {}]

SNOver ==
    /\ snHead = SnMaxBlock /\ snShown = 0 /\ snDone = TRUE /\ snFirst = 0
    /\ walk = [r \in SnRoutines |-> [pc |-> "done", bn |-> 0, last |-> 0, block |-> NoBlock]]
    /\ holder = "none" /\ out = {} /\ pendingParent = 0 /\ pendingTxs = {}
    /\ snSent = [r \in SnRoutines |-> {}]

PubOver ==
    /\ pubTime = PubMaxTime /\ tickDue = NoTick /\ lastTick = 0
    /\ offered = Evts /\ cache = {} /\ mutex = "none"
    /\ turn = [now |-> 0, left |-> {}] /\ sending = NoMsg /\ pub = NoMsg
    /\ handed = {} /\ published = {} /\ pubDone = TRUE /\ ticks = {}

MCMsg(a, i, d, m, ok, t) ==
    [author |-> a, id |-> i, type |-> t, index |-> "x", eventDate |-> d, messageDate |-> m, ok |-> ok]

\* An event with three messages, as the replayer makes them, a younger one of
\* the same transaction by two authors, and messages that are not stored.
MCEsMsgs ==
    {MCMsg("a", "1", 0, m, TRUE, "teleport") : m \in {0, 1, 3}}
    \cup {MCMsg(a, "2", 2, m, TRUE, "teleport") : a \in {"a", "b"}, m \in {2, 3}}
    \cup {MCMsg("a", "3", 0, 0, FALSE, "teleport"), MCMsg("a", "3", 0, 0, TRUE, "other")}

\* Two events of an author in two quanta.
MCRdEvents == {[author |-> "a", date |-> d, id |-> 1] : d \in {1, 2}}

ESOver ==
    esTime = EsMaxTime /\ events = {} /\ gccount = 0 /\ collected = {} /\ esDone = TRUE

RDOver ==
    /\ rdTime = RdMaxTime /\ rdDone = TRUE
    /\ stored = [e \in RdEvents |-> NoValue] /\ keyTTL = [e \in RdEvents |-> Never]
    /\ mem = [k \in MemKeys |-> 0] /\ op = [l \in Lairs |-> Idle] /\ adrift = {}
    /\ memTTL = [k \in MemKeys |-> Never]

EventsInit ==
    \/ EVMInit /\ SNOver /\ PubOver /\ ESOver /\ RDOver
    \/ EVMOver /\ SNInit /\ PubOver /\ ESOver /\ RDOver
    \/ EVMOver /\ SNOver /\ PubInit /\ ESOver /\ RDOver
    \/ EVMOver /\ SNOver /\ PubOver /\ ESInit /\ RDOver
    \/ EVMOver /\ SNOver /\ PubOver /\ ESOver /\ RDInit

EventsNext ==
    \/ EVMNext /\ UNCHANGED <<snVars, pubVars, esVars, rdVars>>
    \/ SNNext /\ UNCHANGED <<evmVars, pubVars, esVars, rdVars>>
    \/ PubNext /\ UNCHANGED <<evmVars, snVars, esVars, rdVars>>
    \/ ESNext /\ UNCHANGED <<evmVars, snVars, pubVars, rdVars>>
    \/ RDNext /\ UNCHANGED <<evmVars, snVars, pubVars, esVars>>

EventsSpec ==
    /\ EventsInit /\ [][EventsNext]_<<evmVars, snVars, pubVars, esVars, rdVars>>
    /\ EVMFairness /\ SNFairness /\ PubFairness

\* Only the Redis storage, for two lairs that share a database.
RedisSpec ==
    /\ EVMOver /\ SNOver /\ PubOver /\ ESOver /\ RDInit
    /\ [][RDNext /\ UNCHANGED <<evmVars, snVars, pubVars, esVars>>]_<<evmVars, snVars, pubVars, esVars, rdVars>>
===============================================================================
