------------------------------- MODULE Channels -------------------------------
(***************************************************************************)
(* How a message gets from Broadcast to the readers inside a process: the  *)
(* chain of transports (pkg/transport/chain), the local transport          *)
(* (pkg/transport/local) and the fan-in and fan-out of channels            *)
(* (pkg/util/chanutil) that the transports are built from.                 *)
(*                                                                         *)
(* Every goroutine is a step of its own: the broadcaster, the routine that *)
(* unmarshals, the worker of each fan-out, one goroutine per input of a    *)
(* fan-in, the readers and the cancellation. Channels without a buffer     *)
(* hand a value over in one step of sender and receiver.                   *)
(***************************************************************************)
EXTENDS Integers, Sequences, FiniteSets, SequencesExt

CONSTANTS Transports,   \* the transports of the chain, 1..n
          Readers,      \* callers of Messages
          Patient,      \* those that read until their channel is closed
          Queue,        \* the queue argument of local.New
          MaxBroadcasts \* bound on the messages

ASSUME ChannelsAssumption ==
    /\ IsFiniteSet(Transports) /\ Transports = 1..Cardinality(Transports)
    /\ Patient \subseteq Readers
    /\ Queue \in Nat \ {0} /\ MaxBroadcasts \in Nat

Bcasts == 1..MaxBroadcasts
NoMsg == 0
\* States of an input of a fan-in, beside the message in hand: not added yet, a
\* nil channel, waiting, and closed.
None == -1
NilCh == -2
Idle == -3
Ended == -4

VARIABLES bcast,      \* Broadcast of the chain: message and transport at hand
          rawMsgCh,   \* per transport, the queue
          unmarshal,  \* the message that unmarshallRoutine holds, with the lock
          fanned,     \* messages that the fan-out has taken, in order
          outs,       \* the outputs of the fan-out, by reader
          left,       \* outputs that the worker has still to serve
          input,      \* per reader and transport, the goroutine of the fan-in
          since,      \* number of messages fanned when a reader subscribed
          got,        \* per reader and transport, what was read
          closedCh,   \* transports whose msgCh and Wait are closed
          outsClosed, \* transports whose outputs are closed
          chDone,     \* the context is done
          crashed     \* a goroutine has sent on a closed channel

flow == <<bcast, rawMsgCh, unmarshal, fanned, left, input, got>>
subVars == <<outs, since>>
stops == <<closedCh, outsClosed, chDone, crashed>>
chVars == <<flow, subVars, stops>>

ChInit ==
    /\ bcast = [m |-> 0, t |-> Cardinality(Transports) + 1]
    /\ rawMsgCh = [t \in Transports |-> <<>>] /\ unmarshal = [t \in Transports |-> NoMsg]
    /\ fanned = [t \in Transports |-> <<>>] /\ outs = [t \in Transports |-> <<>>]
    /\ left = [t \in Transports |-> <<>>]
    /\ input = [r \in Readers |-> [t \in Transports |-> None]]
    /\ since = [r \in Readers |-> [t \in Transports |-> 0]]
    /\ got = [r \in Readers |-> [t \in Transports |-> <<>>]]
    /\ closedCh = {} /\ outsClosed = {} /\ chDone = FALSE /\ crashed = FALSE

-----------------------------------------------------------------------------
(* Chain.Broadcast and Local.Broadcast *)

BroadcastNext ==
    /\ bcast.t > Cardinality(Transports) /\ bcast.m < MaxBroadcasts /\ ~crashed
    /\ bcast' = [m |-> bcast.m + 1, t |-> 1]
    /\ UNCHANGED <<rawMsgCh, unmarshal, fanned, left, input, got, subVars, stops>>

\* The message goes to every transport in turn. The send blocks on a full
\* queue; a transport that has stopped answers with an error.
BroadcastTo ==
    LET t == bcast.t IN
    /\ t \in Transports /\ ~crashed
    /\ IF t \in closedCh THEN UNCHANGED rawMsgCh
       ELSE /\ Len(rawMsgCh[t]) < Queue
            /\ rawMsgCh' = [rawMsgCh EXCEPT ![t] = Append(@, bcast.m)]
    /\ bcast' = [bcast EXCEPT !.t = @ + 1]
    /\ UNCHANGED <<unmarshal, fanned, left, input, got, subVars, stops>>

\* unmarshallRoutine takes a message and the read lock.
Unmarshal(t) ==
    /\ unmarshal[t] = NoMsg /\ rawMsgCh[t] # <<>> /\ ~crashed
    /\ unmarshal' = [unmarshal EXCEPT ![t] = Head(rawMsgCh[t])]
    /\ rawMsgCh' = [rawMsgCh EXCEPT ![t] = Tail(@)]
    /\ UNCHANGED <<bcast, fanned, left, input, got, subVars, stops>>

-----------------------------------------------------------------------------
(* FanOut *)

\* chs: the outputs at the time the worker takes a message.
Outputs(t) == outs[t]

\* The worker takes the message that the routine sends on msgCh.
FanOutTake(t) ==
    /\ unmarshal[t] # NoMsg /\ t \notin closedCh /\ left[t] = <<>> /\ ~crashed
    /\ fanned' = [fanned EXCEPT ![t] = Append(@, unmarshal[t])]
    /\ left' = [left EXCEPT ![t] = Outputs(t)]
    /\ unmarshal' = [unmarshal EXCEPT ![t] = NoMsg]
    /\ UNCHANGED <<bcast, rawMsgCh, input, got, subVars, stops>>

\* The outputs are served in order; a reader that is busy holds up the others.
FanOutSend(t) ==
    /\ left[t] # <<>> /\ ~crashed
    /\ LET r == Head(left[t]) IN
        /\ input[r][t] = Idle
        /\ input' = [input EXCEPT ![r][t] = Last(fanned[t])]
    /\ left' = [left EXCEPT ![t] = Tail(@)]
    /\ UNCHANGED <<bcast, rawMsgCh, unmarshal, fanned, got, subVars, stops>>

\* Mutant: the outputs are closed while one of them has still to be served.
FanOutCloseEarly(t) ==
    /\ t \in closedCh \ outsClosed /\ ~crashed
    /\ outsClosed' = outsClosed \cup {t}
    /\ UNCHANGED <<flow, subVars, closedCh, chDone, crashed>>

\* The input is closed: so are the outputs.
FanOutClose(t) ==
    /\ t \in closedCh \ outsClosed /\ left[t] = <<>> /\ ~crashed
    /\ outsClosed' = outsClosed \cup {t}
    /\ UNCHANGED <<flow, subVars, closedCh, chDone, crashed>>

-----------------------------------------------------------------------------
(* Messages: FanIn of the outputs of every transport *)

\* Chain.Messages subscribes to every transport (one step: the loop does not
\* block). One that has stopped has no subscriptions any more and returns nil.
Subscribe(r) ==
    /\ \A t \in Transports : input[r][t] = None
    /\ ~crashed
    /\ input' = [input EXCEPT ![r] = [t \in Transports |-> IF t \in closedCh THEN NilCh ELSE Idle]]
    /\ outs' = [t \in Transports |-> IF t \in closedCh THEN outs[t] ELSE Append(outs[t], r)]
    /\ since' = [since EXCEPT ![r] = [t \in Transports |-> Len(fanned[t])]]
    /\ UNCHANGED <<bcast, rawMsgCh, unmarshal, fanned, left, got, stops>>

\* Mutant: all goroutines range over the channel that was added last.
FanInLast(r, t) ==
    /\ t = Cardinality(Transports)
    /\ input[r][t] \in Bcasts

\* A goroutine of the fan-in has a value for the output.
FanInReady(r, t) == input[r][t] \in Bcasts

Reads(r) == ~chDone \/ r \in Patient

\* It hands it to the reader.
ReadMessage(r, t) ==
    /\ Reads(r) /\ ~crashed /\ FanInReady(r, t)
    /\ got' = [got EXCEPT ![r][t] = Append(@, input[r][t])]
    /\ input' = [input EXCEPT ![r][t] = Idle]
    /\ UNCHANGED <<bcast, rawMsgCh, unmarshal, fanned, left, subVars, stops>>

\* A goroutine ends when its channel is closed; never on a nil channel.
FanInEnd(r, t) ==
    /\ input[r][t] = Idle /\ t \in outsClosed /\ ~crashed
    /\ input' = [input EXCEPT ![r][t] = Ended]
    /\ UNCHANGED <<bcast, rawMsgCh, unmarshal, fanned, left, got, subVars, stops>>

\* AutoClose: the output of the fan-in, and Wait of the chain, close when all
\* inputs have.
ReaderClosed(r) == \A t \in Transports : input[r][t] = Ended
ChainWaitClosed == closedCh = Transports

-----------------------------------------------------------------------------
(* Cancellation *)

ChCancel ==
    /\ ~chDone /\ ~crashed /\ chDone' = TRUE
    /\ UNCHANGED <<flow, subVars, closedCh, outsClosed, crashed>>

\* contextCancelHandler of a local transport waits for the read lock.
CloseLocal(t) ==
    /\ chDone /\ t \notin closedCh /\ unmarshal[t] = NoMsg /\ ~crashed
    /\ closedCh' = closedCh \cup {t}
    /\ UNCHANGED <<flow, subVars, outsClosed, chDone, crashed>>

\* A message that was still queued is sent on the channel that is now closed.
SendOnClosed(t) ==
    /\ unmarshal[t] # NoMsg /\ t \in closedCh /\ ~crashed
    /\ crashed' = TRUE
    /\ UNCHANGED <<flow, subVars, closedCh, outsClosed, chDone>>

-----------------------------------------------------------------------------
ChStep(t) ==
    \/ Unmarshal(t) \/ FanOutTake(t) \/ FanOutSend(t) \/ FanOutClose(t)
    \/ CloseLocal(t) \/ SendOnClosed(t)
ReaderStep(r, t) == ReadMessage(r, t) \/ FanInEnd(r, t)

ChNext ==
    \/ BroadcastNext \/ BroadcastTo \/ ChCancel
    \/ \E r \in Readers : Subscribe(r) \/ \E t \in Transports : ReaderStep(r, t)
    \/ \E t \in Transports : ChStep(t)

\* Every goroutine is scheduled; a reader may subscribe or not.
ChFairness ==
    /\ WF_chVars(BroadcastTo)
    /\ \A t \in Transports :
          /\ WF_chVars(ChStep(t))
          /\ \A r \in Readers : WF_chVars(ReaderStep(r, t))

ChSpec == ChInit /\ [][ChNext]_chVars /\ ChFairness

-----------------------------------------------------------------------------
(* Properties *)

\* Type correctness.
ChTypeOK ==
    /\ bcast.m \in 0..MaxBroadcasts /\ bcast.t \in 1..(Cardinality(Transports) + 1)
    /\ \A t \in Transports :
        /\ Len(rawMsgCh[t]) <= Queue /\ unmarshal[t] \in 0..MaxBroadcasts
        /\ ToSet(left[t]) \subseteq ToSet(outs[t]) /\ ToSet(outs[t]) \subseteq Readers
    /\ \A r \in Readers, t \in Transports :
        input[r][t] \in Bcasts \cup {None, NilCh, Idle, Ended}
    /\ outsClosed \subseteq closedCh /\ closedCh \subseteq Transports

Held(r, t) == (IF input[r][t] \in Bcasts THEN 1 ELSE 0) + (IF r \in ToSet(left[t]) THEN 1 ELSE 0)

\* A reader gets what a transport carried since it subscribed, in the order of
\* the broadcasts and once, whoever else is slow; what it has not read yet is
\* in the hands of the fan-in and the fan-out.
NoGap ==
    \A r \in Readers, t \in Transports :
        input[r][t] \notin {None, NilCh} =>
            /\ \A i \in 1..Len(got[r][t]) : got[r][t][i] = fanned[t][since[r][t] + i]
            /\ Len(got[r][t]) + Held(r, t) = Len(fanned[t]) - since[r][t]

\* A reader that finds its channel closed has read all that the transports
\* took for it: closing overtakes no message.
ClosedAfterAll ==
    \A r \in Readers : ReaderClosed(r) =>
        \A t \in Transports : Len(got[r][t]) = Len(fanned[t]) - since[r][t]

\* While the context lives, whatever is broadcast passes every transport, and
\* every reader reads all of it.
AllRead ==
    []<>(chDone \/ (/\ bcast.t \notin Transports
                    /\ \A t \in Transports :
                        /\ Len(fanned[t]) = bcast.m
                        /\ \A r \in Readers :
                            input[r][t] = None \/ Len(got[r][t]) = bcast.m - since[r][t]))

\* Stopping completes if all subscribers read on until their channels are
\* closed. (One that stops with the context leaves the routine that unmarshals
\* with the lock; a message still queued behind it crashes the process.)
ChainStops ==
    []<>(\/ ~chDone \/ crashed \/ ChainWaitClosed
         \/ \E r \in Readers \ Patient, t \in Transports : input[r][t] # None)

\* A reader gets the messages of every transport without a gap, and the end
\* after all of them.
NothingSkipped ==
    /\ ChTypeOK /\ NoGap /\ ClosedAfterAll

\* Messages reach the readers that keep reading, and the chain closes its
\* channels at the end.
ChannelsLive ==
    /\ AllRead /\ ChainStops
===============================================================================
