-------------------------------- MODULE WebAPI --------------------------------
(***************************************************************************)
(* The WebAPI transport (pkg/transport/webapi): a producer packs messages  *)
(* and, at every tick of the flush ticker, posts the pack to the consumers *)
(* of its address book; a consumer checks the signed timestamp of the      *)
(* request against its own clock and the last request of that producer.    *)
(*                                                                         *)
(* One producer and one consumer; the clock of the consumer is off by no   *)
(* more than the skew that is allowed. A tick may be served and a request  *)
(* may arrive any time later (the client that is configured has no         *)
(* timeout, and flushMessages waits for the address book); the network     *)
(* loses requests and delivers one of them again. Handlers run             *)
(* concurrently, under a read lock only. Signatures, gzip and protobuf are *)
(* taken to be faithful, so that a request is what its sender made or is   *)
(* refused.                                                                *)
(***************************************************************************)
EXTENDS Integers, Sequences, FiniteSets, SequencesExt

CONSTANTS Flush,         \* flushTicker.Duration()
          Skew,          \* maxClockSkew
          BookTTL,       \* cacheTTL of the address book
          ChanSize,      \* messageChanSize
          MaxMsgs,       \* bound on the messages
          WebMaxTime     \* bound on the time

\* The skew that is allowed (10 s) is less than the flush interval (a minute).
ASSUME WebAssumption ==
    /\ Flush \in Nat \ {0} /\ Skew \in 0..(Flush - 1)
    /\ BookTTL \in Nat /\ ChanSize \in Nat /\ MaxMsgs \in Nat /\ WebMaxTime \in Nat

Ticks == {t \in 1..WebMaxTime : t % Flush = 0}
Copies == {"first", "again"}
Long == WebMaxTime + Flush      \* longer ago than anything in a behaviour

VARIABLES webTime,    \* time at the producer
          offset,     \* how much the consumer's clock is ahead
          sent,       \* number of messages given to Broadcast
          pack,       \* messagePack
          due,        \* the ticks that wait in the ticker
          req,        \* the pack that was posted at each tick
          handler,    \* state of the handler of each delivery
          lastReq,    \* lastReqs[producer]
          msgCh,      \* the channel of received messages
          received,   \* what the subscriber has read: message, request and delivery
          overlap,    \* requests checked while another was between check and store
          book,       \* listed; cache, cacheTime: the address book
          webDone, waitCh

netVars == <<webTime, offset, sent, pack, due, req>>
conVars == <<handler, lastReq, msgCh, received, overlap>>
endVars == <<webDone, waitCh>>
webVars == <<netVars, conVars, book, endVars>>

Start ==
    /\ webTime = 0 /\ offset \in -Skew..Skew
    /\ sent = 0 /\ pack = {} /\ due = {}
    /\ req = [t \in Ticks |-> {}]
    /\ handler = [t \in Ticks |-> [c \in Copies |-> "none"]]
    /\ lastReq = -Long /\ msgCh = <<>> /\ received = {} /\ overlap = {}
    /\ book = [listed |-> FALSE, cache |-> {}, cacheTime |-> -Long]
    /\ webDone = FALSE /\ waitCh = "open"

-----------------------------------------------------------------------------
(* Producer *)

\* EthereumAddressBook.Consumers, no error: the cache is fetched again when it
\* is older than its time to live, or nil.
Consumers ==
    LET expired == book.cache = {} \/ book.cacheTime + BookTTL < webTime
    IN  book' = IF expired THEN [book EXCEPT !.cache = {book.listed}, !.cacheTime = webTime]
                ELSE book

\* The consumer is added to the list in the contract.
ListConsumer ==
    /\ ~book.listed
    /\ book' = [book EXCEPT !.listed = TRUE]
    /\ UNCHANGED <<netVars, conVars, endVars>>

\* Broadcast: the message waits for the next flush.
Broadcast ==
    /\ sent < MaxMsgs
    /\ sent' = sent + 1 /\ pack' = pack \cup {sent + 1}
    /\ UNCHANGED <<webTime, offset, due, req, conVars, book, endVars>>

\* flushMessages at a tick: one request per consumer, stamped with the time of
\* the tick. An empty pack is not sent.
FlushMessages ==
    /\ due # {}
    /\ IF pack = {} THEN UNCHANGED <<req, book>>
       ELSE /\ Consumers
            /\ IF TRUE \in book'.cache THEN req' = [req EXCEPT ![Min(due)] = pack] ELSE UNCHANGED req
    /\ pack' = {} /\ due' = due \ {Min(due)}
    /\ UNCHANGED <<webTime, offset, sent, conVars, endVars>>

\* The address book cannot be read, or the pack not signed: the pack is cleared
\* all the same.
FlushFails ==
    /\ due # {} /\ pack # {}
    /\ pack' = {} /\ due' = due \ {Min(due)}
    /\ UNCHANGED <<webTime, offset, sent, req, conVars, book, endVars>>

-----------------------------------------------------------------------------
(* Consumer *)

Now == webTime + offset
Accepted == {"checked", "sending", "done", "broken"}
InHandler == {h \in Ticks \X Copies : handler[h[1]][h[2]] \in {"checked", "sending"}}

\* A delivery that the network can make, at any time and in any order: of each
\* request, and (a bound) of one of them again. It is lost if it does not.
Arrives(t, c) ==
    /\ req[t] # {} /\ handler[t][c] = "none"
    /\ c = "again" => \A u \in Ticks : handler[u]["again"] = "none"

\* Mutant: any timestamp that is not older than the last is accepted.
AcceptableNewer(t) ==
    t <= Now + Skew /\ t >= Now - Flush - Skew /\ t >= lastReq

\* The window of the timestamp, and its distance from the last request.
Acceptable(t) ==
    t <= Now + Skew /\ t >= Now - Flush - Skew /\ t >= lastReq + Flush - Skew

\* consumeHandler up to the check. A context that is done refuses everything;
\* no handler starts once the cancellation has the lock.
CheckRequest(t, c) ==
    /\ Arrives(t, c)
    /\ handler' = [handler EXCEPT ![t][c] = IF ~webDone /\ Acceptable(t) THEN "checked" ELSE "refused"]
    /\ LET others == {u \in Ticks : \E d \in Copies : handler[u][d] = "checked"}
       IN  overlap' = overlap \cup IF others = {} THEN {} ELSE others \cup {t}
    /\ UNCHANGED <<netVars, lastReq, msgCh, received, book, endVars>>

\* lastReqs is set, by a step of its own: handlers hold a read lock only. The
\* body of the request is good, or (a transmission that breaks) it is not.
StoreRequest(t, c) ==
    /\ handler[t][c] = "checked"
    /\ lastReq' = t
    /\ \E s \in {"sending", "broken"} : handler' = [handler EXCEPT ![t][c] = s]
    /\ UNCHANGED <<netVars, msgCh, received, overlap, book, endVars>>

\* Mutant: the last place of the channel is not used.
ChanFreeLess(s) == Len(s) + 1 < ChanSize

ChanFree(s) == Len(s) + 1 <= ChanSize

NotQueued(t, c) == {m \in req[t] : <<m, t, c>> \notin received \cup ToSet(msgCh)}

\* The messages of the pack are sent one by one; the send blocks on a full
\* channel.
SendMessage(t, c) ==
    /\ handler[t][c] = "sending"
    /\ IF NotQueued(t, c) = {}
       THEN handler' = [handler EXCEPT ![t][c] = "done"] /\ UNCHANGED msgCh
       ELSE /\ ChanFree(msgCh)
            /\ msgCh' = Append(msgCh, <<Min(NotQueued(t, c)), t, c>>)
            /\ UNCHANGED handler
    /\ UNCHANGED <<netVars, lastReq, received, overlap, book, endVars>>

\* The subscriber reads until the context is done.
Receive ==
    /\ ~webDone /\ msgCh # <<>>
    /\ received' = received \cup {Head(msgCh)} /\ msgCh' = Tail(msgCh)
    /\ UNCHANGED <<netVars, handler, lastReq, overlap, book, endVars>>

CancelWeb ==
    /\ ~webDone /\ webDone' = TRUE
    /\ UNCHANGED <<netVars, conVars, book, waitCh>>

\* contextCancelHandler of the consumer: the lock is free of handlers.
CloseMsgCh ==
    /\ webDone /\ waitCh = "open" /\ InHandler = {}
    /\ waitCh' = "closed"
    /\ UNCHANGED <<netVars, conVars, book, webDone>>

-----------------------------------------------------------------------------
\* The routine of the ticker holds a tick and the channel of time.Ticker another;
\* those that come while both wait are dropped.
WebAdvance ==
    /\ webTime < WebMaxTime
    /\ webTime' = webTime + 1
    /\ due' = IF webTime' \in Ticks /\ Cardinality(due) < 2 THEN due \cup {webTime'} ELSE due
    /\ UNCHANGED <<offset, sent, pack, req, conVars, book, endVars>>

Producing == Broadcast \/ FlushMessages \/ FlushFails \/ ListConsumer
HandlerStep(t, c) == CheckRequest(t, c) \/ StoreRequest(t, c) \/ SendMessage(t, c)

WebNext ==
    \/ Producing \/ WebAdvance \/ Receive \/ CancelWeb \/ CloseMsgCh
    \/ \E t \in Ticks, c \in Copies : HandlerStep(t, c)

\* Handlers that have begun, the subscriber and the cancellation are scheduled.
WebFairness ==
    /\ WF_webVars(\E t \in Ticks, c \in Copies : StoreRequest(t, c) \/ SendMessage(t, c))
    /\ WF_webVars(Receive)
    /\ WF_webVars(CloseMsgCh)

WebSpec == Start /\ [][WebNext]_webVars /\ WebFairness

-----------------------------------------------------------------------------
(* Properties *)

\* Type correctness.
WebTypeOK ==
    /\ webTime \in 0..WebMaxTime /\ offset \in -Skew..Skew /\ due \subseteq Ticks
    /\ pack \subseteq 1..sent /\ \A t \in Ticks : req[t] \subseteq 1..sent
    /\ handler \in [Ticks -> [Copies -> {"none", "checked", "sending", "done", "refused", "broken"}]]
    /\ lastReq \in Ticks \cup {-Long} /\ overlap \subseteq Ticks
    /\ Len(msgCh) <= ChanSize

\* A request is refused only for one of three reasons: the consumer has stopped;
\* it arrives more than a flush interval after its tick; or this or a later
\* request has been accepted. So clocks that differ within the skew, late ticks,
\* lost requests and copies of earlier ones do not keep a producer out.
PunctualNotRefused ==
    [][\A t \in Ticks, c \in Copies :
        handler[t][c] = "none" /\ handler'[t][c] = "refused" =>
            \/ webDone \/ webTime > t + Flush
            \/ \E u \in Ticks, d \in Copies : u >= t /\ handler[u][d] \in Accepted]_webVars

\* "The purpose of the signature is to prevent replay attacks": a message is
\* received twice only by the race of consumeHandler, when the handler of its
\* request and that of another were between the check and the store of lastReqs
\* together; never because of when, how late or in which order requests come.
NotReceivedTwice ==
    \A x, y \in received : x # y /\ x[1] = y[1] => x[2] \in overlap

\* The check of the timestamp refuses what it should and no more, up to the race.
ReplayProtection ==
    [](WebTypeOK /\ NotReceivedTwice) /\ PunctualNotRefused

\* The messages that the handlers in progress have still to send.
Owed == {x \in (1..MaxMsgs) \X InHandler : x[1] \in NotQueued(x[2][1], x[2][2])}

\* Every handler in progress waits at a full channel, with the read lock.
AllBlocked ==
    Len(msgCh) = ChanSize /\ \A h \in InHandler : handler[h[1]][h[2]] = "sending" /\ NotQueued(h[1], h[2]) # {}

\* Stopping completes whenever the channel has room for what the handlers in
\* progress have still to send, although nobody reads it any more; otherwise
\* nothing but a handler that waits at the full channel, which does not look at
\* the context, can keep it from completing.
WebShutdownCompletes ==
    /\ webDone /\ Len(msgCh) + Cardinality(Owed) <= ChanSize ~> waitCh = "closed"
    /\ []<>(~webDone \/ waitCh = "closed" \/ AllBlocked)
===============================================================================
