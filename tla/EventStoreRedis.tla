---------------------------- MODULE EventStoreRedis ----------------------------
(***************************************************************************)
(* The Redis storage of the event store (pkg/event/store/redis). Several   *)
(* processes (lairs) may share a database; in each, a mutex admits one     *)
(* operation at a time. Every Redis command is a step: Watch does not make *)
(* them atomic, because the commands of the function are executed at once  *)
(* and not queued between MULTI and EXEC, so that no transaction ever      *)
(* fails. Redis removes keys when their time has come. A process that dies *)
(* between two commands leaves the database as one whose next command      *)
(* fails.                                                                  *)
(*                                                                         *)
(* A memory counter is kept per author and quantum of event dates.         *)
(***************************************************************************)
EXTENDS Sums

CONSTANTS Lairs,           \* the processes
          Authors,
          RdEvents,        \* events: [author, date, id]
          RdSizes,         \* sizes of an encoded message
          RdMaxDate,       \* message dates are 1..RdMaxDate
          RdTTL, Quantum,  \* ttl and memUsageTimeQuantum
          MemLimit,
          Cluster,         \* whether the client is a cluster client
          RdMaxTime        \* bound on the time

ASSUME EventStoreRedisAssumption ==
    /\ RdEvents \subseteq [author : Authors, date : Nat, id : Nat] /\ IsFiniteSet(RdEvents)
    /\ RdSizes \subseteq Nat \ {0} /\ RdMaxDate \in Nat
    /\ RdTTL \in Nat /\ Quantum \in Nat \ {0} /\ MemLimit \in Nat
    /\ Cluster \in BOOLEAN /\ RdMaxTime \in Nat

VARIABLES rdTime,
          stored,     \* event keys: [date, size] of the message, or NoValue
          keyTTL,     \* when the event key expires, or Never
          mem,        \* memory counters, by <<author, quantum>>
          memTTL,     \* when the counter expires, or Never
          op,         \* the operation of each lair: [pc, evt, msg, seen, out]
          adrift,     \* history: authors whose counters a failure has left behind
          rdDone      \* the context of the lairs is done

rdVars == <<rdTime, stored, keyTTL, mem, memTTL, op, adrift, rdDone>>

NoValue == [date |-> 0, size |-> 0]
Never == RdMaxTime + 1
RdMsgs == [date : 1..RdMaxDate, size : RdSizes]
NoEvt == [author |-> "none", date |-> 0, id |-> 0]

\* memUsageKey; the counter expires a TTL after the end of its quantum.
QuantumOf(e) == e.date \div Quantum
memUsageKey(e) == <<e.author, QuantumOf(e)>>
MemKeys == {memUsageKey(e) : e \in RdEvents}
MemExpiry(k) == (k[2] + 1) * Quantum + RdTTL

Idle == [pc |-> "idle", evt |-> NoEvt, msg |-> NoValue, seen |-> {}, out |-> "none"]

RDInit ==
    /\ rdTime = 0
    /\ stored = [e \in RdEvents |-> NoValue]
    /\ keyTTL = [e \in RdEvents |-> Never]
    /\ mem = [k \in MemKeys |-> 0] /\ memTTL = [k \in MemKeys |-> Never]
    /\ op = [l \in Lairs |-> Idle] /\ adrift = {} /\ rdDone = FALSE

\* Time passes and Redis expires keys.
RDAdvance ==
    /\ rdTime < RdMaxTime
    /\ rdTime' = rdTime + 1
    /\ stored' = [e \in RdEvents |-> IF keyTTL[e] <= rdTime' THEN NoValue ELSE stored[e]]
    /\ keyTTL' = [e \in RdEvents |-> IF keyTTL[e] <= rdTime' THEN Never ELSE keyTTL[e]]
    /\ mem' = [k \in MemKeys |-> IF memTTL[k] <= rdTime' THEN 0 ELSE mem[k]]
    /\ memTTL' = [k \in MemKeys |-> IF memTTL[k] <= rdTime' THEN Never ELSE memTTL[k]]
    /\ UNCHANGED <<op, adrift, rdDone>>

RDCancel ==
    /\ ~rdDone
    /\ rdDone' = TRUE
    /\ UNCHANGED <<rdTime, stored, keyTTL, mem, memTTL, op, adrift>>

-----------------------------------------------------------------------------
(* Add *)

\* Lair l goes on with o; the database is left alone.
OpTo(l, o) ==
    /\ op' = [op EXCEPT ![l] = o]
    /\ UNCHANGED <<rdTime, stored, keyTTL, mem, memTTL, adrift, rdDone>>

\* The collector of lair l receives message m of event e.
AddStart(l, e, m) ==
    /\ ~rdDone /\ op[l].pc = "idle" /\ e.date <= rdTime
    /\ OpTo(l, [Idle EXCEPT !.pc = "avail", !.evt = e, !.msg = m])

AuthorMem(a) == SumOver(mem, {k \in MemKeys : k[1] = a})

\* Mutant: the size of the new message is not counted.
AvailMemBefore(l) ==
    /\ op[l].pc = "avail"
    /\ OpTo(l, IF AuthorMem(op[l].evt.author) > MemLimit
               THEN [Idle EXCEPT !.out = "limit"]
               ELSE [op[l] EXCEPT !.pc = "get"])

\* getAvailMem: Scan and MGet of the author's counters. A command may fail.
\* In a cluster, a counter that expires between the two commands fails too.
AvailMem(l) ==
    /\ op[l].pc = "avail"
    /\ \/ OpTo(l, IF MemLimit > 0 /\ op[l].msg.size > MemLimit - AuthorMem(op[l].evt.author)
                  THEN [Idle EXCEPT !.out = "limit"]
                  ELSE [op[l] EXCEPT !.pc = "get"])
       \/ OpTo(l, [Idle EXCEPT !.out = "error"])

\* Mutant: an older message is written as well.
GetPrevAnyDate(l) ==
    /\ op[l].pc = "get"
    /\ OpTo(l, [op[l] EXCEPT !.pc = "incr", !.seen = {stored[op[l].evt]}])

\* The value of the key is read and compared; an older message ends Add.
GetPrev(l) ==
    LET prev == stored[op[l].evt] IN
    /\ op[l].pc = "get"
    /\ \/ OpTo(l, IF prev # NoValue /\ prev.date >= op[l].msg.date
                  THEN [Idle EXCEPT !.out = "older"]
                  ELSE [op[l] EXCEPT !.pc = "incr", !.seen = {prev}])
       \/ OpTo(l, [Idle EXCEPT !.out = "error"])

\* The value that GetPrev has read.
PrevOf(o) == CHOOSE p \in o.seen : TRUE

\* A failure leaves the counters of author a behind (a bound: once per author,
\* because a counter could fall without end).
Drifts(a, behind) ==
    /\ behind => a \notin adrift
    /\ adrift' = IF behind THEN adrift \cup {a} ELSE adrift

\* incrMemUsage: IncrBy by the difference to the value that was read, and
\* ExpireAt, which takes the counter away at once when its time is past; no
\* step of another lair tells the two apart from one. IncrBy may fail, and so
\* may what follows it: Add then ends and does not take back what is counted.
IncrMemUsage(l) ==
    LET o == op[l]
        k == memUsageKey(o.evt)
        diff == o.msg.size - PrevOf(o).size
        past == MemExpiry(k) <= rdTime
        Fail == op' = [op EXCEPT ![l] = [Idle EXCEPT !.out = "error"]]
    IN
    /\ o.pc = "incr"
    /\ IF MemLimit = 0 \/ diff = 0
       THEN OpTo(l, [o EXCEPT !.pc = "set"])
       ELSE \/ OpTo(l, [Idle EXCEPT !.out = "error"])
            \/ /\ mem' = [mem EXCEPT ![k] = @ + diff]
               /\ Fail /\ Drifts(o.evt.author, diff < 0)
               /\ UNCHANGED <<rdTime, stored, keyTTL, memTTL, rdDone>>
            \/ /\ mem' = [mem EXCEPT ![k] = IF past THEN 0 ELSE @ + diff]
               /\ memTTL' = [memTTL EXCEPT ![k] = IF past THEN Never ELSE MemExpiry(k)]
               /\ \/ op' = [op EXCEPT ![l].pc = "set"] /\ UNCHANGED adrift
                  \/ Fail /\ Drifts(o.evt.author, diff < 0)
               /\ UNCHANGED <<rdTime, stored, keyTTL, rdDone>>

\* Set; its error is not looked at. The key has no expiry until ExpireAt.
SetValue(l) ==
    LET o == op[l] IN
    /\ o.pc = "set"
    /\ op' = [op EXCEPT ![l].pc = "expire"]
    /\ \/ /\ stored' = [stored EXCEPT ![o.evt] = o.msg]
          /\ keyTTL' = [keyTTL EXCEPT ![o.evt] = Never]
          /\ UNCHANGED adrift
       \/ /\ Drifts(o.evt.author, o.msg.size < PrevOf(o).size)
          /\ UNCHANGED <<stored, keyTTL>>
    /\ UNCHANGED <<rdTime, mem, memTTL, rdDone>>

\* ExpireAt a TTL after the event's date, at once if that is past. Its error is
\* not looked at either: the key that Set has written then never expires.
ExpireKey(l) ==
    LET e == op[l].evt
        at == e.date + RdTTL
    IN
    /\ op[l].pc = "expire"
    /\ op' = [op EXCEPT ![l] = [Idle EXCEPT !.out = "added"]]
    /\ \/ /\ stored' = [stored EXCEPT ![e] = IF at <= rdTime THEN NoValue ELSE @]
          /\ keyTTL' = [keyTTL EXCEPT ![e] = IF at <= rdTime \/ stored[e] = NoValue THEN Never ELSE at]
          /\ UNCHANGED adrift
       \/ /\ Drifts(e.author, stored[e] # NoValue /\ keyTTL[e] = Never)
          /\ UNCHANGED <<stored, keyTTL>>
    /\ UNCHANGED <<rdTime, mem, memTTL, rdDone>>

-----------------------------------------------------------------------------
(* Get *)

\* redisScan: the keys that exist now.
GetScan(l) ==
    /\ ~rdDone /\ op[l].pc = "idle"
    /\ OpTo(l, [Idle EXCEPT !.pc = "mget", !.seen = {e \in RdEvents : stored[e] # NoValue}])

\* redisMGet: in a cluster a key that has expired since fails the request, a
\* single node skips it.
GetValues(l) ==
    /\ op[l].pc = "mget"
    /\ OpTo(l, [Idle EXCEPT !.out =
                IF Cluster /\ \E e \in op[l].seen : stored[e] = NoValue THEN "error" ELSE "values"])

RDNext ==
    \/ RDAdvance \/ RDCancel
    \/ \E l \in Lairs :
        \/ \E e \in RdEvents, m \in RdMsgs : AddStart(l, e, m)
        \/ AvailMem(l) \/ GetPrev(l) \/ IncrMemUsage(l) \/ SetValue(l) \/ ExpireKey(l)
        \/ GetScan(l) \/ GetValues(l)

RDSpec == RDInit /\ [][RDNext]_rdVars

-----------------------------------------------------------------------------
(* Properties *)

\* Type correctness of the database and of the operations.
RDTypeOK ==
    /\ rdTime \in 0..RdMaxTime /\ rdDone \in BOOLEAN
    /\ stored \in [RdEvents -> RdMsgs \cup {NoValue}]
    /\ keyTTL \in [RdEvents -> Nat]
    /\ mem \in [MemKeys -> Int] /\ memTTL \in [MemKeys -> Nat]
    /\ \A l \in Lairs : op[l].pc \in {"idle", "avail", "get", "incr", "set", "expire", "mget"}

Usage(a) == SumOver([e \in RdEvents |-> stored[e].size], {e \in RdEvents : e.author = a})
AddingFor(a) == {l \in Lairs : op[l].evt.author = a /\ op[l].pc \in {"set", "expire"}}

\* "If the new event is older than the existing one, we do not overwrite it":
\* a message is replaced only by a newer one, until it expires.
NeverOverwrittenByOlder ==
    [][\A e \in RdEvents :
        stored[e] # stored'[e] => (stored'[e] = NoValue \/ stored[e].date < stored'[e].date)]_rdVars

\* The counters never fall behind what an author's messages take, whenever
\* counters and messages expire and whichever command fails, with two
\* exceptions that Drifts records: Add has counted a message as smaller than
\* the one before and not written it, and the expiry of a message that Add has
\* written is not set, so that it outlives its counter. But for these, ...
MemoryAccounted ==
    MemLimit > 0 =>
        \A a \in Authors \ adrift : AddingFor(a) = {} => Usage(a) <= AuthorMem(a)

\* ... an author never takes more memory than the limit.
LimitKept == \A a \in Authors \ adrift : MemLimit > 0 => Usage(a) <= MemLimit

\* The memory counters cover what is stored and no author exceeds the limit.
MemoryWithinLimit ==
    /\ RDTypeOK /\ MemoryAccounted /\ LimitKept
===============================================================================
