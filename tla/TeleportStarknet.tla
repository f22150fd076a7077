--------------------------- MODULE TeleportStarknet ---------------------------
(***************************************************************************)
(* The provider of teleport events of Starknet                             *)
(* (pkg/event/publisher/teleportstarknet). Three goroutines fetch blocks   *)
(* from the sequencer: older ones (prefetch), the pending block at every   *)
(* tick, and newly accepted ones. processBlock works on one block at a     *)
(* time, under a mutex that it holds while it sends events on an           *)
(* unbuffered channel. Failed requests are repeated (retry.TryForever):    *)
(* a failed attempt is a stuttering step.                                  *)
(*                                                                         *)
(* Block b has timestamp b, and the time is snHead. Transactions are added *)
(* to the pending block, the child of the head, in order; accepting it     *)
(* makes it the head with all its transactions. processBlock sends the     *)
(* events of a block in any order.                                         *)
(***************************************************************************)
EXTENDS Integers, Sequences, SequencesExt

CONSTANTS SnTxs,        \* the transactions of each block, in order: [id, event]
          SnStart,      \* the latest accepted block when the provider starts
          SnPeriod      \* prefetchPeriod

SnMaxBlock == Len(SnTxs)

\* A transaction emits a teleport event of a watched contract, one whose data
\* cannot be packed (eventToMessage), or one of another contract.
TxEvents == {"ok", "broken", "foreign"}

ASSUME TeleportStarknetAssumption ==
    /\ SnTxs \in Seq(Seq([id : Nat, event : TxEvents]))
    /\ SnStart \in 1..SnMaxBlock /\ SnPeriod \in Nat
    \* A transaction is in one block.
    /\ \A m, n \in 1..SnMaxBlock : m # n => ToSet(SnTxs[m]) \cap ToSet(SnTxs[n]) = {}

VARIABLES snHead,         \* number of the latest accepted block
          snShown,        \* number of transactions in the pending block
          snDone,         \* the context is done
          walk,           \* each routine: [pc, bn, last, block]
          snFirst,        \* the block handleAcceptedBlocksRoutine started from
          holder,         \* the routine that holds the mutex, or "none"
          out,            \* the events that processBlock has left to send
          pendingParent, pendingTxs,
          snSent          \* events that each routine has sent

snVars == <<snHead, snShown, snDone, walk, snFirst, holder, out, pendingParent, pendingTxs, snSent>>

SnRoutines == {"prefetch", "pending", "accepted"}
NoBlock == [number |-> 0, status |-> "none", txs |-> {}]

SNInit ==
    /\ snHead = SnStart /\ snShown = 0 /\ snDone = FALSE /\ snFirst = 0
    /\ walk = [r \in SnRoutines |->
                [pc |-> CASE r = "pending" -> "wait"
                          [] r = "prefetch" /\ SnPeriod = 0 -> "done"
                          [] OTHER -> "start",
                 bn |-> 0, last |-> 0, block |-> NoBlock]]
    /\ holder = "none" /\ out = {}
    /\ pendingParent = 0 /\ pendingTxs = {}
    /\ snSent = [r \in SnRoutines |-> {}]

-----------------------------------------------------------------------------
(* The chain *)

PendingTxs == IF snHead < SnMaxBlock THEN SnTxs[snHead + 1] ELSE <<>>

SnNewTx ==
    /\ snShown < Len(PendingTxs)
    /\ snShown' = snShown + 1
    /\ UNCHANGED <<snHead, snDone, walk, snFirst, holder, out, pendingParent, pendingTxs, snSent>>

SnAccept ==
    /\ snHead < SnMaxBlock
    /\ snHead' = snHead + 1 /\ snShown' = 0
    /\ UNCHANGED <<snDone, walk, snFirst, holder, out, pendingParent, pendingTxs, snSent>>

SnCancel ==
    /\ ~snDone
    /\ snDone' = TRUE
    /\ UNCHANGED <<snHead, snShown, walk, snFirst, holder, out, pendingParent, pendingTxs, snSent>>

AcceptedBlock(n) == [number |-> n, status |-> "ACCEPTED", txs |-> ToSet(SnTxs[n])]
PendingBlock ==
    [number |-> snHead + 1, status |-> "PENDING", txs |-> {PendingTxs[i] : i \in 1..snShown}]

-----------------------------------------------------------------------------
(* The routines up to processBlock: each has fetched a block. *)

\* Routine r goes on with w and leaves the rest alone.
WalkTo(r, w) ==
    /\ walk' = [walk EXCEPT ![r] = w]
    /\ UNCHANGED <<snHead, snShown, snDone, holder, out, pendingParent, pendingTxs, snSent>>

PrefetchLatest ==
    /\ walk["prefetch"].pc = "start" /\ ~snDone
    /\ WalkTo("prefetch", [walk["prefetch"] EXCEPT !.pc = "loop", !.bn = snHead, !.last = snHead])
    /\ UNCHANGED snFirst

PrefetchBlock ==
    LET w == walk["prefetch"] IN
    /\ w.pc = "loop" /\ ~snDone
    /\ WalkTo("prefetch",
              IF w.bn = 0 \/ snHead - w.bn > SnPeriod
              THEN [w EXCEPT !.pc = "done"]
              ELSE [w EXCEPT !.pc = "process", !.block = AcceptedBlock(w.bn)])
    /\ UNCHANGED snFirst

PendingTick ==
    LET w == walk["pending"] IN
    /\ w.pc = "wait" /\ ~snDone
    /\ WalkTo("pending", [w EXCEPT !.pc = "process", !.block = PendingBlock])
    /\ UNCHANGED snFirst

AcceptedLatest ==
    LET w == walk["accepted"] IN
    /\ w.pc = "start" /\ ~snDone
    /\ WalkTo("accepted", [w EXCEPT !.pc = "wait", !.last = snHead])
    /\ snFirst' = snHead

\* A tick at which there is no new block leaves everything as it is. last
\* takes the new head at once: only the loop of this tick reads the old one.
AcceptedTick ==
    LET w == walk["accepted"] IN
    /\ w.pc = "wait" /\ ~snDone /\ snHead > w.last
    /\ WalkTo("accepted", [w EXCEPT !.pc = "loop", !.bn = w.last + 1, !.last = snHead])
    /\ UNCHANGED snFirst

AcceptedBlockFetched ==
    LET w == walk["accepted"] IN
    /\ w.pc = "loop" /\ ~snDone
    /\ WalkTo("accepted",
              IF w.bn <= w.last
              THEN [w EXCEPT !.pc = "process", !.block = AcceptedBlock(w.bn)]
              ELSE [w EXCEPT !.pc = "wait"])
    /\ UNCHANGED snFirst

\* The routines return when a request gives up; one that waits for a receiver,
\* or for the mutex, first finishes its block.
SnStop(r) ==
    /\ snDone /\ walk[r].pc \notin {"process", "done"}
    /\ WalkTo(r, [walk[r] EXCEPT !.pc = "done"])
    /\ UNCHANGED snFirst

-----------------------------------------------------------------------------
(* processBlock *)

Emitted(txs) == {tx \in txs : tx.event = "ok"}

\* Mutant: events of accepted blocks that the pending block showed are skipped
\* as well, and the list starts anew with every block.
ProcessAlike(r) ==
    LET b == walk[r].block IN
    /\ walk[r].pc = "process" /\ holder = "none"
    /\ holder' = r
    /\ out' = Emitted({tx \in b.txs : b.status = "PENDING" \/ tx \notin pendingTxs})
    /\ pendingParent' = b.number - 1
    /\ pendingTxs' = IF b.status = "PENDING" THEN b.txs ELSE pendingTxs
    /\ UNCHANGED <<snHead, snShown, snDone, walk, snFirst, snSent>>

\* mu.Lock() to the first send: the transactions of a pending block that were
\* seen before are skipped, the list starts anew with a new parent.
Process(r) ==
    LET b == walk[r].block
        pending == b.status = "PENDING"
        seen == IF pendingParent = b.number - 1 THEN pendingTxs ELSE {}
    IN
    /\ walk[r].pc = "process" /\ holder = "none"
    /\ holder' = r
    /\ IF pending
       THEN /\ pendingParent' = b.number - 1
            /\ pendingTxs' = seen \cup b.txs
            /\ out' = Emitted(b.txs \ seen)
       ELSE /\ out' = Emitted(b.txs)
            /\ UNCHANGED <<pendingParent, pendingTxs>>
    /\ UNCHANGED <<snHead, snShown, snDone, walk, snFirst, snSent>>

SnSend ==
    /\ \E tx \in out :
        /\ out' = out \ {tx}
        /\ snSent' = [snSent EXCEPT ![holder] = @ \cup {tx}]
    /\ UNCHANGED <<snHead, snShown, snDone, walk, snFirst, holder, pendingParent, pendingTxs>>

\* Mutant: the mutex is kept after an accepted block.
ProcessedLocked ==
    /\ holder # "none" /\ out = {} /\ walk[holder].pc = "process"
    /\ holder' = IF holder = "accepted" THEN holder ELSE "none"
    /\ walk' = [walk EXCEPT ![holder] =
                  CASE holder = "pending"  -> [@ EXCEPT !.pc = "wait", !.block = NoBlock]
                    [] holder = "prefetch" -> [@ EXCEPT !.pc = "loop", !.block = NoBlock, !.bn = @ - 1]
                    [] holder = "accepted" -> [@ EXCEPT !.pc = "loop", !.block = NoBlock, !.bn = @ + 1]]
    /\ UNCHANGED <<snHead, snShown, snDone, snFirst, out, pendingParent, pendingTxs, snSent>>

\* mu.Unlock(), and the routine's next turn.
Processed ==
    /\ holder # "none" /\ out = {}
    /\ holder' = "none"
    /\ walk' = [walk EXCEPT ![holder] =
                  CASE holder = "pending"  -> [@ EXCEPT !.pc = "wait", !.block = NoBlock]
                    [] holder = "prefetch" -> [@ EXCEPT !.pc = "loop", !.block = NoBlock, !.bn = @ - 1]
                    [] holder = "accepted" -> [@ EXCEPT !.pc = "loop", !.block = NoBlock, !.bn = @ + 1]]
    /\ UNCHANGED <<snHead, snShown, snDone, snFirst, out, pendingParent, pendingTxs, snSent>>

SnProcess == \E r \in SnRoutines : Process(r)
SnPrefetches == PrefetchLatest \/ PrefetchBlock
SnAccepts == AcceptedLatest \/ AcceptedTick \/ AcceptedBlockFetched
SnStops == \E r \in SnRoutines : SnStop(r)

SNNext ==
    \/ SnNewTx \/ SnAccept \/ SnCancel
    \/ SnPrefetches \/ PendingTick \/ SnAccepts \/ SnStops
    \/ SnProcess \/ SnSend \/ Processed

\* Requests succeed in the end, the receiver reads, and Go's mutex does not
\* starve a waiter.
SNFairness ==
    /\ WF_snVars(SnAccepts) /\ WF_snVars(SnSend \/ Processed)
    /\ SF_snVars(Process("accepted"))

SNSpec == SNInit /\ [][SNNext]_snVars /\ SNFairness

-----------------------------------------------------------------------------
(* Properties *)

Teleports(n) == Emitted(ToSet(SnTxs[n]))

\* Type correctness of the provider; no routine is past the chain's head, and
\* only the holder of the mutex has events to send.
SNTypeOK ==
    /\ snHead \in SnStart..SnMaxBlock /\ snShown \in 0..Len(PendingTxs)
    /\ \A r \in SnRoutines :
        /\ walk[r].pc \in {"start", "wait", "loop", "process", "done"}
        /\ walk[r].bn \in 0..(snHead + 1) /\ walk[r].last \in 0..snHead
    /\ holder \in SnRoutines \cup {"none"} /\ (holder = "none" => out = {})
    /\ pendingParent \in 0..snHead

\* handlePendingBlockRoutine looks at the same pending block at every tick,
\* and sends an event of it once.
PendingSentOnce == holder = "pending" => out \cap snSent["pending"] = {}

\* Whatever the pending block showed, and whether or not it was seen, at each
\* tick the accepted routine has sent every event of every block accepted
\* since it started, and none of another: "This is done to make sure that
\* provider does not miss any events from the pending block."
AcceptedComplete ==
    (walk["accepted"].pc = "wait" /\ ~snDone) =>
        snSent["accepted"] = UNION {Teleports(n) : n \in (snFirst + 1)..walk["accepted"].last}

\* prefetchBlocksRoutine ends when it has sent the events of the blocks of the
\* prefetch period below the block it started from.
SnPrefetchCovers ==
    (walk["prefetch"].pc = "done" /\ ~snDone) =>
        \A n \in 1..walk["prefetch"].last :
            snHead - n <= SnPeriod => Teleports(n) \subseteq snSent["prefetch"]

\* Although three routines compete for the mutex, again and again every event
\* of the blocks accepted since the start has been sent.
AcceptedCatchesUp ==
    []<>(\/ snDone
         \/ /\ walk["accepted"].pc # "start"
            /\ \A n \in (snFirst + 1)..snHead : Teleports(n) \subseteq snSent["accepted"])

\* The three routines send the teleports of their blocks completely, and those
\* of a pending block once, although it grows and is seen again.
TeleportsComplete ==
    /\ SNTypeOK /\ PendingSentOnce /\ AcceptedComplete /\ SnPrefetchCovers
===============================================================================
