------------------------------- MODULE P2PNode -------------------------------
(***************************************************************************)
(* The libp2p node (pkg/transport/libp2p): its start, its subscriptions,   *)
(* the loops that carry a message from the gossip library to the reader,   *)
(* the monitor of connections, and the shutdown.                           *)
(*                                                                         *)
(* Two locks matter: Node.mu, and the read-write lock of the notifee of    *)
(* the monitor, of which a waiting writer keeps new readers out. The       *)
(* callbacks of the network hold the read lock (and that of NotifeeSet)    *)
(* while they send on an unbuffered channel. Host.Close returns when the   *)
(* callbacks of all connections have (external).                           *)
(***************************************************************************)
EXTENDS Integers, Sequences, FiniteSets

CONSTANTS Conn,        \* connections
          Topic,
          MaxPub,      \* messages that come on a topic
          QueueLen,    \* of a subscription of the gossip library
          HostOutcomes, \* whether libp2p.New and NewGossipSub may succeed, fail
          CancelWhen   \* what Start has got to when the context may be cancelled

ASSUME NodeAssumption == QueueLen \in Nat /\ MaxPub \in Nat

VARIABLES startPc,     \* Start
          subscribed,  \* Node.subs
          scored,      \* topics whose score parameters have been set
          mu,          \* holder of Node.mu
          ctxDone,
          stopPc,      \* contextCancelHandler
          conn,        \* connections, and where their callbacks are
          monPc,       \* goroutine of the monitor
          stopped,     \* monitorNotifee.stopped, and the channel is closed
          sendClosed,  \* a callback has sent on the closed channel
          incoming,    \* queue of the gossip library, by topic
          seen,        \* number of the last message that came, by topic
          subLoop,     \* Subscription.messageLoop: what it has
          nodeLoop,    \* P2P.messagesLoop
          nodeDelivered    \* what the reader got

nodeVars == <<startPc, subscribed, scored, mu, ctxDone, stopPc, conn, monPc, stopped, sendClosed,
              incoming, seen, subLoop, nodeLoop, nodeDelivered>>
netVars == <<incoming, seen, subLoop, nodeLoop, nodeDelivered>>
monVars == <<conn, monPc, stopped, sendClosed>>

Free == "free"
NoMsg == 0        \* a loop has no message
Ended == -1      \* a loop has ended

NodeInit ==
    /\ startPc = "new" /\ subscribed = {} /\ scored = {} /\ mu = Free
    /\ ctxDone = FALSE /\ stopPc = "none"
    /\ conn = [c \in Conn |-> "no"] /\ monPc = "none" /\ stopped = FALSE /\ sendClosed = FALSE
    /\ incoming = [t \in Topic |-> <<>>] /\ seen = [t \in Topic |-> 0]
    /\ subLoop = [t \in Topic |-> Ended] /\ nodeLoop = [t \in Topic |-> Ended]
    /\ nodeDelivered = [t \in Topic |-> <<>>]

-----------------------------------------------------------------------------
(* Start *)

\* Node.Start, up to the goroutine that waits for the end of the context.
StartNode ==
    /\ startPc = "new"
    /\ startPc' = "host" /\ stopPc' = "wait"
    /\ UNCHANGED <<subscribed, scored, mu, ctxDone, monVars, netVars>>

\* The host is made and calls the notifees from now on.
HostStarts ==
    /\ startPc = "host"
    /\ \E ok \in HostOutcomes : startPc' = IF ok THEN "pubsub" ELSE "failed"
    /\ UNCHANGED <<subscribed, scored, mu, ctxDone, stopPc, monVars, netVars>>

\* The gossip router is made, and the node is told to have started: the monitor
\* begins. If it is not made Start fails, but the host is up, without a monitor.
PubSubStarts ==
    /\ startPc = "pubsub"
    /\ \E ok \in HostOutcomes :
        IF ok THEN startPc' = "topics" /\ monPc' = "loop"
        ELSE startPc' = "hostOnly" /\ UNCHANGED monPc
    /\ UNCHANGED <<subscribed, scored, mu, ctxDone, stopPc, conn, stopped, sendClosed, netVars>>

Missing == Topic \ subscribed

\* Node.Subscribe for the next topic; it fails when the node is closed.
SubscribeNext ==
    /\ startPc = "topics" /\ mu = Free /\ Missing # {}
    /\ IF stopPc \in {"wait", "stopping"}
       THEN \E t \in Missing :
              /\ subscribed' = subscribed \cup {t} /\ startPc' = "event"
              /\ subLoop' = [subLoop EXCEPT ![t] = NoMsg]
       ELSE startPc' = "failed" /\ UNCHANGED <<subscribed, subLoop>>
    /\ UNCHANGED <<scored, mu, ctxDone, stopPc, monVars, incoming, seen, nodeLoop, nodeDelivered>>

\* The deferred call of the event handlers, after the lock is released:
\* PeerScoring looks the subscription up, for which it takes the lock; then the
\* loop of the topic begins.
SubscribedEvent ==
    /\ startPc = "event" /\ mu = Free
    /\ LET t == CHOOSE x \in subscribed : nodeLoop[x] = Ended /\ x \notin scored IN
        /\ scored' = scored \cup {t}
        /\ nodeLoop' = [nodeLoop EXCEPT ![t] = NoMsg]
    /\ startPc' = "topics"
    /\ UNCHANGED <<subscribed, mu, ctxDone, stopPc, monVars, incoming, seen, subLoop, nodeDelivered>>

StartReturns ==
    /\ startPc = "topics" /\ Missing = {}
    /\ startPc' = "up"
    /\ UNCHANGED <<subscribed, scored, mu, ctxDone, stopPc, monVars, netVars>>

CancelContext ==
    /\ startPc \in CancelWhen /\ ~ctxDone
    /\ ctxDone' = TRUE
    /\ UNCHANGED <<startPc, subscribed, scored, mu, stopPc, monVars, netVars>>

-----------------------------------------------------------------------------
(* Connections and their monitor *)

Readers == {c \in Conn : conn[c] \in {"connSend", "discSend"}}
WriterWaits == monPc = "stop"

HostUp == startPc \in {"pubsub", "hostOnly", "topics", "event", "up"}

\* The network calls Connected, or Disconnected, of the notifee.
Connect(c) ==
    /\ HostUp /\ conn[c] = "no" /\ stopPc \in {"wait", "stopping"}
    /\ conn' = [conn EXCEPT ![c] = "conn"]
    /\ UNCHANGED <<startPc, subscribed, scored, mu, ctxDone, stopPc, monPc, stopped, sendClosed, netVars>>

Disconnect(c) ==
    /\ conn[c] = "up"
    /\ conn' = [conn EXCEPT ![c] = "disc"]
    /\ UNCHANGED <<startPc, subscribed, scored, mu, ctxDone, stopPc, monPc, stopped, sendClosed, netVars>>

Called(c) == IF conn[c] = "conn" THEN "up" ELSE "gone"

\* The callback takes the read lock and looks at stopped.
CallbackLocks(c) ==
    /\ conn[c] \in {"conn", "disc"} /\ ~WriterWaits
    /\ conn' = [conn EXCEPT ![c] = IF stopped THEN Called(c)
                                   ELSE IF @ = "conn" THEN "connSend" ELSE "discSend"]
    /\ UNCHANGED <<startPc, subscribed, scored, mu, ctxDone, stopPc, monPc, stopped, sendClosed, netVars>>

\* It sends to the monitor, if that is at its select, and unlocks. A closed
\* channel panics.
CallbackSends(c) ==
    /\ c \in Readers /\ (monPc = "loop" \/ stopped)
    /\ sendClosed' = (sendClosed \/ stopped)
    /\ conn' = [conn EXCEPT ![c] = IF @ = "connSend" THEN "up" ELSE "gone"]
    /\ UNCHANGED <<startPc, subscribed, scored, mu, ctxDone, stopPc, monPc, stopped, netVars>>

\* The monitor sees the end of the context,
MonitorDone ==
    /\ monPc = "loop" /\ ctxDone
    /\ monPc' = "stop"
    /\ UNCHANGED <<startPc, subscribed, scored, mu, ctxDone, stopPc, conn, stopped, sendClosed, netVars>>

\* Mutant: the notifee is stopped without the lock.
MonitorStopsAtOnce ==
    /\ monPc = "stop"
    /\ stopped' = TRUE /\ monPc' = "remove"
    /\ UNCHANGED <<startPc, subscribed, scored, mu, ctxDone, stopPc, conn, sendClosed, netVars>>

\* stops the notifee, when no callback has the lock,
MonitorStops ==
    /\ monPc = "stop" /\ Readers = {}
    /\ stopped' = TRUE /\ monPc' = "remove"
    /\ UNCHANGED <<startPc, subscribed, scored, mu, ctxDone, stopPc, conn, sendClosed, netVars>>

\* and removes it, for which it takes the lock of the node.
MonitorRemoves ==
    /\ monPc = "remove" /\ mu = Free
    /\ monPc' = "end"
    /\ UNCHANGED <<startPc, subscribed, scored, mu, ctxDone, stopPc, conn, stopped, sendClosed, netVars>>

-----------------------------------------------------------------------------
(* Messages *)

\* A message that has been validated is put in the queue of the subscription; if
\* it is full the message is dropped.
MessageComes(t) ==
    /\ t \in subscribed /\ HostUp /\ stopPc \in {"wait", "stopping"} /\ seen[t] < MaxPub
    /\ seen' = [seen EXCEPT ![t] = @ + 1]
    /\ incoming' = [incoming EXCEPT ![t] = IF Len(@) < QueueLen THEN Append(@, seen[t] + 1) ELSE @]
    /\ UNCHANGED <<startPc, subscribed, scored, mu, ctxDone, stopPc, monVars, subLoop, nodeLoop, nodeDelivered>>

\* Subscription.messageLoop takes the next one; when the context is done Next
\* may return the error as well, and the loop ends.
SubLoopTakes(t) ==
    /\ subLoop[t] = NoMsg /\ incoming[t] # <<>>
    /\ subLoop' = [subLoop EXCEPT ![t] = Head(incoming[t])]
    /\ incoming' = [incoming EXCEPT ![t] = Tail(@)]
    /\ UNCHANGED <<startPc, subscribed, scored, mu, ctxDone, stopPc, monVars, seen, nodeLoop, nodeDelivered>>

SubLoopEnds(t) ==
    /\ subLoop[t] = NoMsg /\ ctxDone
    /\ subLoop' = [subLoop EXCEPT ![t] = Ended]
    /\ UNCHANGED <<startPc, subscribed, scored, mu, ctxDone, stopPc, monVars, incoming, seen, nodeLoop, nodeDelivered>>

\* P2P.messagesLoop gets it from the unbuffered channel of the subscription, or
\* sees the channel closed,
NodeLoopTakes(t) ==
    /\ nodeLoop[t] = NoMsg /\ subLoop[t] > NoMsg
    /\ nodeLoop' = [nodeLoop EXCEPT ![t] = subLoop[t]]
    /\ subLoop' = [subLoop EXCEPT ![t] = NoMsg]
    /\ UNCHANGED <<startPc, subscribed, scored, mu, ctxDone, stopPc, monVars, incoming, seen, nodeDelivered>>

NodeLoopEnds(t) ==
    /\ nodeLoop[t] = NoMsg /\ subLoop[t] = Ended /\ t \in subscribed
    /\ nodeLoop' = [nodeLoop EXCEPT ![t] = Ended]
    /\ UNCHANGED <<startPc, subscribed, scored, mu, ctxDone, stopPc, monVars, incoming, seen, subLoop, nodeDelivered>>

\* and hands it to the reader. The reader's channel is never closed.
DeliverMsg(t) ==
    /\ nodeLoop[t] > NoMsg
    /\ nodeDelivered' = [nodeDelivered EXCEPT ![t] = Append(@, nodeLoop[t])]
    /\ nodeLoop' = [nodeLoop EXCEPT ![t] = NoMsg]
    /\ UNCHANGED <<startPc, subscribed, scored, mu, ctxDone, stopPc, monVars, incoming, seen, subLoop>>

-----------------------------------------------------------------------------
(* contextCancelHandler *)

StopBegins ==
    /\ stopPc = "wait" /\ ctxDone
    /\ stopPc' = "stopping"
    /\ UNCHANGED <<startPc, subscribed, scored, mu, ctxDone, monVars, netVars>>

\* The node is closed and so are its connections. A host that is not there is a
\* nil pointer, which ends the process.
StopLocks ==
    /\ stopPc = "stopping" /\ mu = Free
    /\ IF startPc \in {"host", "failed"} /\ monPc = "none"
       THEN stopPc' = "crashed" /\ UNCHANGED <<mu, conn>>
       ELSE /\ mu' = "stop" /\ stopPc' = "closing"
            /\ conn' = [c \in Conn |-> IF conn[c] = "up" THEN "disc" ELSE conn[c]]
    /\ UNCHANGED <<startPc, subscribed, scored, ctxDone, monPc, stopped, sendClosed, netVars>>

\* Connections that were being made when the node closed are closed, too.
CloseLate(c) ==
    /\ stopPc = "closing" /\ conn[c] = "up"
    /\ conn' = [conn EXCEPT ![c] = "disc"]
    /\ UNCHANGED <<startPc, subscribed, scored, mu, ctxDone, stopPc, monPc, stopped, sendClosed, netVars>>

\* Host.Close returns; the channel of Wait is closed.
StopEnds ==
    /\ stopPc = "closing" /\ \A c \in Conn : conn[c] \in {"no", "gone"}
    /\ mu' = Free /\ stopPc' = "closed"
    /\ UNCHANGED <<startPc, subscribed, scored, ctxDone, monVars, netVars>>

NodeNext ==
    \/ StartNode \/ HostStarts \/ PubSubStarts \/ SubscribeNext \/ SubscribedEvent \/ StartReturns \/ CancelContext
    \/ \E c \in Conn : Connect(c) \/ Disconnect(c) \/ CallbackLocks(c) \/ CallbackSends(c) \/ CloseLate(c)
    \/ MonitorDone \/ MonitorStops \/ MonitorRemoves
    \/ \E t \in Topic : MessageComes(t) \/ SubLoopTakes(t) \/ SubLoopEnds(t) \/ NodeLoopTakes(t)
                        \/ NodeLoopEnds(t) \/ DeliverMsg(t)
    \/ StopBegins \/ StopLocks \/ StopEnds

\* Goroutines are scheduled; the network makes no promises, nor does anybody
\* have to cancel.
NodeFairness ==
    /\ WF_nodeVars(StartNode \/ HostStarts \/ PubSubStarts \/ SubscribeNext \/ SubscribedEvent \/ StartReturns)
    /\ WF_nodeVars(MonitorDone) /\ WF_nodeVars(MonitorStops \/ MonitorRemoves)
    /\ WF_nodeVars(StopBegins \/ StopLocks \/ StopEnds)
    /\ \A c \in Conn : WF_nodeVars(CallbackLocks(c)) /\ WF_nodeVars(CallbackSends(c)) /\ WF_nodeVars(CloseLate(c))
    /\ \A t \in Topic :
        /\ WF_nodeVars(SubLoopTakes(t)) /\ WF_nodeVars(SubLoopEnds(t))
        /\ WF_nodeVars(NodeLoopTakes(t) \/ NodeLoopEnds(t)) /\ WF_nodeVars(DeliverMsg(t))

NodeSpec == NodeInit /\ [][NodeNext]_nodeVars /\ NodeFairness

-----------------------------------------------------------------------------
(* Properties *)

\* Type correctness.
NodeTypeOK ==
    /\ startPc \in {"new", "host", "pubsub", "hostOnly", "topics", "event", "up", "failed"}
    /\ stopPc \in {"none", "wait", "stopping", "closing", "closed", "crashed"}
    /\ mu \in {Free, "stop", "subscribe"} /\ subscribed \subseteq Topic /\ scored \subseteq subscribed
    /\ \A t \in Topic : Len(incoming[t]) <= QueueLen

\* No callback of a connection sends on the channel of the monitor after that
\* has closed it, however connections end while the node stops.
NeverSendsOnClosed == ~sendClosed

\* The reader of a topic gets the messages in the order they came in, each once,
\* and none is lost behind the queue of the gossip library as long as the loops
\* run.
CarriedInOrder ==
    \A t \in Topic :
        LET held == (IF nodeLoop[t] > NoMsg THEN <<nodeLoop[t]>> ELSE <<>>)
                    \o (IF subLoop[t] > NoMsg THEN <<subLoop[t]>> ELSE <<>>)
            all == nodeDelivered[t] \o held \o incoming[t]
        IN  /\ \A i, j \in 1..Len(all) : i < j => all[i] < all[j]
            /\ seen[t] <= QueueLen => Len(all) = seen[t]

\* "Wait waits until the context is canceled or until an error occurs": once
\* the context is cancelled the channel of Wait is closed.
NodeStops == []<>(ctxDone => stopPc = "closed")

\* Messages pass the three goroutines in order, and nobody sends on a channel
\* that is closed, whenever the node stops.
MessagesCarried ==
    /\ NodeTypeOK /\ NeverSendsOnClosed /\ CarriedInOrder
=============================================================================
