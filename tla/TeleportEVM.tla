------------------------------ MODULE TeleportEVM ------------------------------
(***************************************************************************)
(* The provider of teleport events of an Ethereum chain                    *)
(* (pkg/event/publisher/teleportevm). Two goroutines ask a node for logs   *)
(* and send the events they find on one unbuffered channel: prefetch walks *)
(* back from the head over the blocks of the prefetch period, fetch        *)
(* follows the head from the time of its start. Each reads the head for    *)
(* itself. A request that fails is repeated until it succeeds or the       *)
(* context ends (retry.TryForever): a failed attempt is a stuttering step. *)
(*                                                                         *)
(* One block is mined per unit of time: the timestamp of block b is b and  *)
(* the time is evmHead. A node answers with a head that may lag behind.    *)
(***************************************************************************)
EXTENDS Integers, Sequences

CONSTANTS EVMAddresses,   \* the contracts to watch
          EVMLogs,        \* [block, address, state]: every log of the chain
          BlockLimit, BlockConfirms, PrefetchPeriod,
          EVMStart,       \* the head when the provider starts
          EVMMaxBlock,    \* bound on the head
          Lag,            \* how many blocks an answer of a node may be behind
          MaxNulls        \* bound on the answers that are null

LogStates == {"ok", "removed", "broken"}

ASSUME TeleportEVMAssumption ==
    /\ BlockLimit \in Nat \ {0}
    /\ BlockConfirms \in Nat /\ PrefetchPeriod \in Nat /\ Lag \in Nat
    /\ EVMMaxBlock \in Nat /\ MaxNulls \in Nat
    \* The chain is longer than the confirmations.
    /\ EVMStart \in Nat /\ EVMStart - Lag >= BlockConfirms
    /\ EVMLogs \subseteq [block : Nat, address : EVMAddresses, state : LogStates]

VARIABLES evmHead,     \* head of the chain
          evmDone,     \* the context is done
          prefetch,    \* [pc, latest, d], the routine's variables
          fetch,       \* [pc, first, latest, current, ranges]
          job,         \* handleEvents of each routine: [from, to, todo, out]
          passed,      \* <<address, block>> pairs that each routine has gone past,
          evmSkipped,  \* and those of them it left out after an answer that was null
          evmNulls,    \* how many answers were
          evmSent      \* logs whose event each routine has sent

evmVars == <<evmHead, evmDone, prefetch, fetch, job, passed, evmSkipped, evmNulls, evmSent>>

Routines == {"prefetch", "fetch"}
NoJob == [from |-> 0, to |-> 0, todo |-> {}, out |-> {}]

EVMInit ==
    /\ evmHead = EVMStart /\ evmDone = FALSE
    /\ prefetch = [pc |-> IF PrefetchPeriod = 0 THEN "done" ELSE "start",
                   latest |-> 0, d |-> BlockConfirms]
    /\ fetch = [pc |-> "start", first |-> 0, latest |-> 0, current |-> 0, ranges |-> <<>>]
    /\ job = [r \in Routines |-> NoJob]
    /\ passed = [r \in Routines |-> {}]
    /\ evmSkipped = [r \in Routines |-> {}] /\ evmNulls = 0
    /\ evmSent = [r \in Routines |-> {}]

EVMNewBlock ==
    /\ evmHead < EVMMaxBlock
    /\ evmHead' = evmHead + 1
    /\ UNCHANGED <<evmDone, prefetch, fetch, job, passed, evmSkipped, evmNulls, evmSent>>

EVMCancel ==
    /\ ~evmDone
    /\ evmDone' = TRUE
    /\ UNCHANGED <<evmHead, prefetch, fetch, job, passed, evmSkipped, evmNulls, evmSent>>

\* What getBlockNumber may return.
BlockNumbers == (evmHead - Lag)..evmHead

-----------------------------------------------------------------------------
(* handleEvents *)

Job(from, to) == [from |-> from, to |-> to, todo |-> EVMAddresses, out |-> {}]
JobOver(r) == job[r].todo = {} /\ job[r].out = {}

\* Mutant: a removed log ends the loop (break for continue).
EventsUpToRemoved(a, from, to) ==
    LET ls == {l \in EVMLogs : l.address = a /\ l.block \in from..to}
    IN  {l \in ls : l.state = "ok" /\ \A x \in ls : x.state # "ok" => l.block < x.block}

\* Logs that are removed or cannot be converted (logToMessage) are skipped.
Events(a, from, to) ==
    {l \in EVMLogs : l.address = a /\ l.block \in from..to /\ l.state = "ok"}

\* filterLogs for the next address, once the events of the last one are sent.
FilterLogs(r) ==
    /\ ~evmDone /\ job[r].out = {}
    /\ \E a \in job[r].todo :
        LET j == job[r] IN
        /\ job' = [job EXCEPT ![r].todo = @ \ {a}, ![r].out = Events(a, j.from, j.to)]
        /\ passed' = [passed EXCEPT ![r] = @ \cup ({a} \X (j.from..j.to))]
    /\ UNCHANGED <<evmHead, evmDone, prefetch, fetch, evmSkipped, evmNulls, evmSent>>

\* A node that answers null: filterLogs returns false as if the context were done,
\* and handleEvents returns; its caller goes on with the next range.
NullAnswer(r) ==
    /\ ~evmDone /\ job[r].out = {} /\ job[r].todo # {} /\ evmNulls < MaxNulls
    /\ LET left == job[r].todo \X (job[r].from..job[r].to) IN
        /\ passed' = [passed EXCEPT ![r] = @ \cup left]
        /\ evmSkipped' = [evmSkipped EXCEPT ![r] = @ \cup left]
    /\ job' = [job EXCEPT ![r].todo = {}]
    /\ evmNulls' = evmNulls + 1
    /\ UNCHANGED <<evmHead, evmDone, prefetch, fetch, evmSent>>

\* eventCh <- evt, when a receiver is ready; the context is not looked at.
SendEvent(r) ==
    /\ \E l \in job[r].out :
        /\ job' = [job EXCEPT ![r].out = @ \ {l}]
        /\ evmSent' = [evmSent EXCEPT ![r] = @ \cup {l}]
    /\ UNCHANGED <<evmHead, evmDone, prefetch, fetch, passed, evmSkipped, evmNulls>>

-----------------------------------------------------------------------------
(* prefetchEventsRoutine *)

PrefetchRange(latest, d) ==
    LET from == latest - (d + BlockLimit - 1)
    IN  Job(IF from < 0 THEN 0 ELSE from, latest - d)

PrefetchStart ==
    /\ prefetch.pc = "start" /\ ~evmDone
    /\ \E n \in BlockNumbers :
        /\ prefetch' = [prefetch EXCEPT !.pc = "loop", !.latest = n]
        /\ job' = [job EXCEPT !["prefetch"] = PrefetchRange(n, prefetch.d)]
    /\ UNCHANGED <<evmHead, evmDone, fetch, passed, evmSkipped, evmNulls, evmSent>>

\* The timestamp of the newest block of the range ends the walk, or block 0.
PeriodReached == job["prefetch"].from = 0 \/ evmHead - job["prefetch"].to > PrefetchPeriod

PrefetchNext ==
    /\ prefetch.pc = "loop" /\ ~evmDone /\ JobOver("prefetch")
    /\ IF PeriodReached
       THEN prefetch' = [prefetch EXCEPT !.pc = "done"] /\ UNCHANGED job
       ELSE LET d == prefetch.d + BlockLimit IN
            /\ prefetch' = [prefetch EXCEPT !.d = d]
            /\ job' = [job EXCEPT !["prefetch"] = PrefetchRange(prefetch.latest, d)]
    /\ UNCHANGED <<evmHead, evmDone, fetch, passed, evmSkipped, evmNulls, evmSent>>

-----------------------------------------------------------------------------
(* fetchEventsRoutine *)

\* Mutant: what remains after the last full range is left out.
splitWithoutRest(from, to, limit) ==
    IF to - from <= limit THEN <<<<from, to>>>>
    ELSE [i \in 1..((to - from + 1) \div limit) |-> <<from + (i - 1) * limit, from + i * limit - 1>>]

\* A range of at most limit + 1 blocks is not split.
splitBlockRanges(from, to, limit) ==
    IF from > to THEN <<>>
    ELSE IF to - from <= limit THEN <<<<from, to>>>>
    ELSE [i \in 1..((to - from) \div limit + 1) |->
            LET last == from + i * limit - 1
            IN  <<from + (i - 1) * limit, IF last > to THEN to ELSE last>>]

FetchStart ==
    /\ fetch.pc = "start" /\ ~evmDone
    /\ \E n \in BlockNumbers :
        fetch' = [fetch EXCEPT !.pc = "wait", !.first = n, !.latest = n]
    /\ UNCHANGED <<evmHead, evmDone, prefetch, job, passed, evmSkipped, evmNulls, evmSent>>

\* The node answers with the block that the routine knows, or an older one.
FetchTickNothingNew ==
    /\ fetch.pc = "wait" /\ ~evmDone
    /\ \E n \in BlockNumbers : n <= fetch.latest
    /\ UNCHANGED evmVars

FetchTick ==
    /\ fetch.pc = "wait" /\ ~evmDone
    /\ \E n \in BlockNumbers :
        /\ n > fetch.latest
        /\ fetch' = [fetch EXCEPT !.pc = "loop", !.current = n,
                                  !.ranges = splitBlockRanges(fetch.latest + 1, n, BlockLimit)]
    /\ UNCHANGED <<evmHead, evmDone, prefetch, job, passed, evmSkipped, evmNulls, evmSent>>

FetchNextRange ==
    /\ fetch.pc = "loop" /\ ~evmDone /\ JobOver("fetch") /\ fetch.ranges # <<>>
    /\ LET b == Head(fetch.ranges)
       IN  job' = [job EXCEPT !["fetch"] = Job(b[1] - BlockConfirms, b[2] - BlockConfirms)]
    /\ fetch' = [fetch EXCEPT !.ranges = Tail(@)]
    /\ UNCHANGED <<evmHead, evmDone, prefetch, passed, evmSkipped, evmNulls, evmSent>>

FetchRangesOver ==
    /\ fetch.pc = "loop" /\ ~evmDone /\ JobOver("fetch") /\ fetch.ranges = <<>>
    /\ fetch' = [fetch EXCEPT !.pc = "wait", !.latest = fetch.current]
    /\ UNCHANGED <<evmHead, evmDone, prefetch, job, passed, evmSkipped, evmNulls, evmSent>>

\* Every request returns false once the context is done, which ends a routine
\* that does not wait for a receiver.
StopRoutine(r) ==
    /\ evmDone /\ job[r].out = {}
    /\ \/ /\ r = "prefetch" /\ prefetch.pc # "done"
          /\ prefetch' = [prefetch EXCEPT !.pc = "done"] /\ UNCHANGED fetch
       \/ /\ r = "fetch" /\ fetch.pc # "done"
          /\ fetch' = [fetch EXCEPT !.pc = "done"] /\ UNCHANGED prefetch
    /\ job' = [job EXCEPT ![r].todo = {}]
    /\ UNCHANGED <<evmHead, evmDone, passed, evmSkipped, evmNulls, evmSent>>

PrefetchSteps == PrefetchStart \/ PrefetchNext \/ FilterLogs("prefetch") \/ SendEvent("prefetch")
FetchSteps == FetchStart \/ FetchNextRange \/ FetchRangesOver \/ FilterLogs("fetch") \/ SendEvent("fetch")
Nulls == \E r \in Routines : NullAnswer(r)
Stops == \E r \in Routines : StopRoutine(r)

EVMNext ==
    \/ EVMNewBlock \/ EVMCancel
    \/ PrefetchSteps \/ FetchSteps
    \/ FetchTick \/ FetchTickNothingNew
    \/ Nulls
    \/ Stops

\* The node answers some of the retries, the receiver keeps reading, and the
\* node does not lag for ever.
EVMFairness ==
    /\ WF_evmVars(FetchSteps)
    /\ WF_evmVars(FetchTick /\ fetch'.current = evmHead)

EVMSpec == EVMInit /\ [][EVMNext]_evmVars /\ EVMFairness

-----------------------------------------------------------------------------
(* Properties *)

\* Type correctness: block numbers are never negative, so that no request
\* carries a number that the client takes for a block tag.
EVMTypeOK ==
    /\ evmHead \in Nat /\ evmDone \in BOOLEAN
    /\ prefetch \in [pc : {"start", "loop", "done"}, latest : Nat, d : Nat]
    /\ fetch \in [pc : {"start", "wait", "loop", "done"}, first : Nat, latest : Nat,
                  current : Nat, ranges : Seq(Nat \X Nat)]
    /\ job \in [Routines -> [from : Nat, to : Nat, todo : SUBSET EVMAddresses, out : SUBSET EVMLogs]]
    /\ passed \in [Routines -> SUBSET (EVMAddresses \X Nat)]
    /\ evmSkipped \in [Routines -> SUBSET (EVMAddresses \X Nat)] /\ evmNulls \in Nat
    /\ evmSent \in [Routines -> SUBSET EVMLogs]

\* No routine asks for the logs of a block before it has BlockConfirms
\* confirmations (handleEvents, called with shifted ranges).
OnlyConfirmed == \A r \in Routines : \A q \in passed[r] : q[2] + BlockConfirms <= evmHead

\* Between two ticks fetchEventsRoutine has gone past exactly the blocks from its
\* start to the head it has seen, less the confirmations, of every contract:
\* splitting the ranges leaves no hole and adds no block.
FetchedExactly ==
    fetch.pc = "wait" =>
        passed["fetch"] = EVMAddresses \X
            ((fetch.first + 1 - BlockConfirms)..(fetch.latest - BlockConfirms))

\* handleEvents never sends an event that the same routine has sent before,
\* however the head moves and lags between the ticks.
NotSentTwice == \A r \in Routines : job[r].out \cap evmSent[r] = {}

\* A log that can be converted, of a block and a contract that a routine has gone
\* past, is sent or about to be: only a null answer makes handleEvents leave out
\* logs, those of the contracts it had not come to.
NothingMissed ==
    \A r \in Routines : \A l \in EVMLogs :
        (l.state = "ok" /\ <<l.address, l.block>> \in passed[r] \ evmSkipped[r]) =>
            l \in evmSent[r] \cup job[r].out

\* prefetchEventsRoutine ends only when it has gone past every confirmed block
\* below its head that is in the prefetch period.
PrefetchCovers ==
    (prefetch.pc = "done" /\ ~evmDone /\ PrefetchPeriod > 0) =>
        \A b \in 0..(prefetch.latest - BlockConfirms) :
            evmHead - b <= PrefetchPeriod => EVMAddresses \X {b} \subseteq passed["prefetch"]

\* fetchEventsRoutine catches up: again and again (when the chain pauses) it
\* has sent every log confirmed after its start, but for those that a null answer
\* made it leave out.
FetchCatchesUp ==
    []<>(\/ evmDone
         \/ /\ fetch.pc # "start"
            /\ \A l \in EVMLogs :
                (/\ l.state = "ok" /\ l.block > fetch.first - BlockConfirms
                 /\ l.block + BlockConfirms <= evmHead) =>
                    \/ l \in evmSent["fetch"]
                    \/ <<l.address, l.block>> \in evmSkipped["fetch"])

\* Blocks are asked for as they should be: confirmed ones only, each by fetch
\* exactly once and by prefetch back to its period, in whatever ranges and
\* from whichever head, and their logs are sent.
BlocksAskedRight ==
    /\ EVMTypeOK /\ OnlyConfirmed /\ FetchedExactly /\ NotSentTwice /\ PrefetchCovers
    /\ NothingMissed
===============================================================================
