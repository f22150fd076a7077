---------------------------- MODULE TransportProofs ----------------------------
(***************************************************************************)
(* Proofs about the transports: the replay protection of the WebAPI, and   *)
(* the channels of the chain of local transports.                          *)
(***************************************************************************)
EXTENDS WebAPI, Channels, RankTheorems, SequenceTheorems

(* The time of a tick is a multiple of the interval. *)
LEMMA TicksApart ==
    ASSUME NEW t \in Ticks, NEW u \in Ticks, u < t
    PROVE  u + Flush <= t
<1>1. t \in Nat /\ u \in Nat /\ t % Flush = 0 /\ u % Flush = 0 /\ Flush \in Nat \ {0}
  BY WebAssumption DEF Ticks
<1> DEFINE a == t \div Flush
           b == u \div Flush
<1>2. a \in Int /\ b \in Int /\ t = a * Flush /\ u = b * Flush
  BY <1>1
<1> HIDE DEF a, b
<1>3. a >= b + 1
  <2>1. SUFFICES ASSUME a <= b PROVE FALSE
    BY <1>2
  <2>2. a * Flush <= b * Flush
    BY <1>1, <1>2, <2>1
  <2> QED BY <1>1, <1>2, <2>2
<1>4. a * Flush >= (b + 1) * Flush
  BY <1>1, <1>2, <1>3
<1>5. (b + 1) * Flush = b * Flush + Flush
  BY <1>1, <1>2
<1> QED BY <1>1, <1>2, <1>4, <1>5

LEMMA MinExists ==
    ASSUME NEW S, S \subseteq Nat, S # {}
    PROVE  Min(S) \in S /\ \A x \in S : Min(S) <= x
BY LeastExists DEF Min

-----------------------------------------------------------------------------
(* The WebAPI *)

Stored == {"sending", "done", "broken"}
HandlerStates == {"none", "checked", "sending", "done", "refused", "broken"}
Delivered == Nat \X Ticks \X Copies

WebTypes ==
    /\ webTime \in 0..WebMaxTime /\ offset \in -Skew..Skew /\ due \subseteq Ticks /\ sent \in Nat
    /\ pack \subseteq 1..sent /\ req \in [Ticks -> SUBSET Nat] /\ \A t \in Ticks : req[t] \subseteq 1..sent
    /\ handler \in [Ticks -> [Copies -> HandlerStates]]
    /\ lastReq \in Ticks \cup {-Long} /\ overlap \subseteq Ticks
    /\ msgCh \in Seq(Delivered) /\ received \subseteq Delivered /\ Len(msgCh) <= ChanSize

\* A pack is posted after its tick, and before the ticks that still wait.
PostedInTurn ==
    /\ \A d \in due : d <= webTime
    /\ \A t \in Ticks : req[t] # {} => t <= webTime /\ \A d \in due : t < d

\* A message is in one request at most.
InOneRequest ==
    /\ \A t \in Ticks : pack \cap req[t] = {}
    /\ \A t, u \in Ticks : t # u => req[t] \cap req[u] = {}

\* What is handled was posted, what is stored was handled, and what is read or
\* queued comes from a handler that stored its request.
FromRequests ==
    /\ \A t \in Ticks, c \in Copies : handler[t][c] # "none" => req[t] # {}
    /\ lastReq # -Long => \E c \in Copies : handler[lastReq][c] \in Stored
    /\ \A x \in received \cup ToSet(msgCh) : x[1] \in req[x[2]] /\ handler[x[2]][x[3]] \in Stored

\* Apart from requests that overlapped, a stored request is not later than the
\* last one, nor than one that has been checked; and requests that were checked
\* at the same time have overlapped.
NoRequestTwice ==
    /\ \A t \in Ticks, c \in Copies :
        handler[t][c] \in Stored /\ t \notin overlap =>
            /\ t <= lastReq
            /\ \A u \in Ticks, d \in Copies : handler[u][d] = "checked" => t < u
    /\ \A t, u \in Ticks, c, d \in Copies :
        handler[t][c] = "checked" /\ handler[u][d] = "checked" /\ <<t, c>> # <<u, d>> => t \in overlap
    /\ \A t \in Ticks, c, d \in Copies :
        handler[t][c] \in Accepted /\ handler[t][d] \in Accepted /\ c # d => t \in overlap

WebInd ==
    /\ WebTypes /\ PostedInTurn /\ InOneRequest /\ FromRequests /\ NoRequestTwice

LEMMA WebFacts ==
    /\ Flush \in Nat \ {0} /\ Skew \in 0..(Flush - 1)
    /\ ChanSize \in Nat /\ MaxMsgs \in Nat /\ WebMaxTime \in Nat
    /\ Ticks \subseteq 1..WebMaxTime /\ Long \in Nat /\ Long = WebMaxTime + Flush
    /\ 0 \notin Ticks /\ -Long \notin Ticks
BY WebAssumption DEF Ticks, Long

LEMMA StartInd == Start => WebInd
<1> SUFFICES ASSUME Start PROVE WebInd
  OBVIOUS
<1>1. \A t \in Ticks : req[t] = {} /\ \A c \in Copies : handler[t][c] = "none"
  BY DEF Start
<1>2. ToSet(msgCh) = {} /\ msgCh \in Seq(Delivered) /\ Len(msgCh) = 0
  BY DEF Start, ToSet
<1>3. WebTypes
  BY <1>2, WebFacts DEF Start, WebTypes, HandlerStates
<1>4. PostedInTurn /\ InOneRequest
  BY <1>1 DEF Start, PostedInTurn, InOneRequest
<1>5. FromRequests
  BY <1>1, <1>2 DEF Start, FromRequests
<1>6. NoRequestTwice
  BY <1>1 DEF NoRequestTwice, Stored, Accepted
<1> QED BY <1>3, <1>4, <1>5, <1>6 DEF WebInd

(* Steps that leave requests and handlers alone. *)
LEMMA WebQuiet ==
    ASSUME WebInd, UNCHANGED <<webTime, due, req, handler, lastReq, overlap, received, msgCh>>,
           UNCHANGED pack \/ pack' = {}, webDone => webDone'
    PROVE  PostedInTurn' /\ InOneRequest' /\ FromRequests' /\ NoRequestTwice'
<1>1. PostedInTurn' /\ InOneRequest'
  BY DEF WebInd, PostedInTurn, InOneRequest
<1>2. FromRequests'
  BY DEF WebInd, FromRequests
<1>3. NoRequestTwice'
  BY DEF WebInd, NoRequestTwice
<1> QED BY <1>1, <1>2, <1>3

LEMMA BroadcastInd ==
    ASSUME WebInd, Broadcast
    PROVE  WebInd'
<1>1. /\ sent' = sent + 1 /\ pack' = pack \cup {sent + 1} /\ sent \in Nat
      /\ UNCHANGED <<webTime, offset, due, req, handler, lastReq, msgCh, received, overlap, webDone>>
      /\ pack \subseteq 1..sent /\ \A t \in Ticks : req[t] \subseteq 1..sent
  BY DEF Broadcast, WebInd, WebTypes, conVars, endVars
<1>2. sent' \in Nat /\ pack' \subseteq 1..sent' /\ \A t \in Ticks : req'[t] \subseteq 1..sent'
  <2>1. 1..sent \subseteq 1..(sent + 1) /\ sent + 1 \in 1..(sent + 1) /\ sent + 1 \in Nat
    BY <1>1
  <2> QED BY <1>1, <2>1, Zenon
<1>3. WebTypes'
  BY <1>1, <1>2 DEF WebInd, WebTypes
<1>4. InOneRequest'
  <2>1. sent + 1 \notin 1..sent
    BY <1>1
  <2>2. \A t \in Ticks : sent + 1 \notin req[t]
    BY <1>1, <2>1
  <2> QED BY <1>1, <2>2 DEF WebInd, InOneRequest
<1>5. PostedInTurn'
  BY <1>1 DEF WebInd, PostedInTurn
<1>6. FromRequests'
  BY <1>1 DEF WebInd, FromRequests
<1>7. NoRequestTwice'
  BY <1>1 DEF WebInd, NoRequestTwice
<1> QED BY <1>3, <1>4, <1>5, <1>6, <1>7 DEF WebInd

LEMMA FlushInd ==
    ASSUME WebInd, FlushMessages \/ FlushFails
    PROVE  WebInd'
<1> DEFINE tk == Min(due)
<1>1. /\ due # {} /\ pack' = {} /\ due' = due \ {tk}
      /\ UNCHANGED <<webTime, offset, sent, handler, lastReq, msgCh, received, overlap, webDone>>
      /\ Ticks \subseteq Nat /\ webTime \in Nat /\ due \subseteq Ticks
  <2>1. Ticks \subseteq Nat /\ webTime \in Nat /\ due \subseteq Ticks
    BY WebFacts DEF WebInd, WebTypes
  <2>2. CASE FlushMessages
    BY <2>1, <2>2 DEF FlushMessages, conVars, endVars
  <2>3. CASE FlushFails
    BY <2>1, <2>3 DEF FlushFails, conVars, endVars
  <2> QED BY <2>2, <2>3
<1>2. req' = req \/ req' = [req EXCEPT ![tk] = pack]
  BY DEF FlushMessages, FlushFails
<1>3. tk \in due /\ \A d \in due : tk <= d
  <2>1. due \subseteq Nat
    BY <1>1
  <2> QED BY <1>1, <2>1, MinExists
<1> HIDE DEF tk
<1>4. tk \in Ticks /\ tk <= webTime /\ req[tk] = {}
  <2>1. tk \in Ticks /\ tk <= webTime
    BY <1>1, <1>3 DEF WebInd, PostedInTurn
  <2>2. req[tk] # {} => tk < tk
    BY <1>3, <2>1 DEF WebInd, PostedInTurn
  <2> QED BY <1>1, <2>1, <2>2
<1>5. \A d \in due' : d \in due /\ d <= webTime /\ tk < d
  BY <1>1, <1>3, <1>4 DEF WebInd, PostedInTurn
<1>6. CASE req' = req
  <2>1. WebTypes'
    BY <1>1, <1>6 DEF WebInd, WebTypes
  <2>2. PostedInTurn' /\ InOneRequest'
    BY <1>1, <1>5, <1>6 DEF WebInd, PostedInTurn, InOneRequest
  <2>3. FromRequests'
    BY <1>1, <1>6 DEF WebInd, FromRequests
  <2>4. NoRequestTwice'
    BY <1>1 DEF WebInd, NoRequestTwice
  <2> QED BY <2>1, <2>2, <2>3, <2>4 DEF WebInd
<1>7. CASE req' = [req EXCEPT ![tk] = pack]
  <2>1. req'[tk] = pack /\ \A t \in Ticks \ {tk} : req'[t] = req[t]
    BY <1>4, <1>7 DEF WebInd, WebTypes
  <2>2. WebTypes'
    <3>1. pack \subseteq Nat
      BY DEF WebInd, WebTypes
    <3>2. req' \in [Ticks -> SUBSET Nat]
      BY <1>4, <1>7, <3>1 DEF WebInd, WebTypes
    <3>3. \A t \in Ticks : req'[t] \subseteq 1..sent
      BY <2>1 DEF WebInd, WebTypes
    <3> QED BY <1>1, <3>2, <3>3 DEF WebInd, WebTypes
  <2>3. PostedInTurn'
    <3>1. \A t \in Ticks : req'[t] # {} => t <= webTime /\ \A d \in due' : t < d
      BY <1>4, <1>5, <2>1 DEF WebInd, PostedInTurn
    <3> QED BY <1>1, <1>5, <3>1 DEF PostedInTurn
  <2>4. InOneRequest'
    BY <1>1, <2>1 DEF WebInd, InOneRequest
  <2>5. FromRequests'
    <3>1. \A t \in Ticks, c \in Copies : handler[t][c] # "none" => req'[t] # {}
      BY <1>4, <2>1 DEF WebInd, FromRequests
    <3>2. \A x \in received \cup ToSet(msgCh) : x[2] \in Ticks
      BY DEF WebInd, WebTypes, Delivered, ToSet
    <3>3. \A x \in received \cup ToSet(msgCh) : x[1] \in req'[x[2]] /\ handler[x[2]][x[3]] \in Stored
      BY <1>4, <2>1, <3>2 DEF WebInd, FromRequests
    <3> QED BY <1>1, <3>1, <3>3 DEF WebInd, FromRequests
  <2>6. NoRequestTwice'
    BY <1>1 DEF WebInd, NoRequestTwice
  <2> QED BY <2>2, <2>3, <2>4, <2>5, <2>6 DEF WebInd
<1> QED BY <1>2, <1>6, <1>7

LEMMA AdvanceInd ==
    ASSUME WebInd, WebAdvance
    PROVE  WebInd'
<1>1. /\ webTime' = webTime + 1 /\ webTime \in Nat /\ webTime' \in 0..WebMaxTime
      /\ due' = due \/ (due' = due \cup {webTime'} /\ webTime' \in Ticks)
      /\ due \subseteq Ticks
      /\ UNCHANGED <<offset, sent, pack, req, handler, lastReq, msgCh, received, overlap, webDone>>
  BY WebFacts DEF WebAdvance, WebInd, WebTypes, conVars, endVars
<1>2. WebTypes'
  BY <1>1 DEF WebInd, WebTypes
<1>3. PostedInTurn'
  <2>1. Ticks \subseteq Nat
    BY WebFacts
  <2>2. \A d \in due' : d \in due \/ d = webTime'
    BY <1>1
  <2>4. \A d \in due' : d <= webTime'
    <3>1. \A d \in due : d \in Nat /\ d <= webTime
      BY <1>1, <2>1 DEF WebInd, PostedInTurn
    <3>2. \A d \in due : d <= webTime'
      BY <1>1, <3>1
    <3>3. webTime' <= webTime'
      BY <1>1
    <3> QED BY <2>2, <3>2, <3>3
  <2>3. ASSUME NEW t \in Ticks, req[t] # {}
        PROVE  t <= webTime' /\ \A d \in due' : t < d
    <3>1. t <= webTime /\ \A d \in due : t < d
      BY <2>3 DEF WebInd, PostedInTurn
    <3>2. t \in Nat
      BY <2>1
    <3>3. t <= webTime' /\ t < webTime'
      BY <1>1, <3>1, <3>2
    <3> QED BY <2>2, <3>1, <3>3
  <2> QED BY <1>1, <2>3, <2>4 DEF PostedInTurn
<1>4. InOneRequest'
  BY <1>1 DEF WebInd, InOneRequest
<1>5. FromRequests'
  BY <1>1 DEF WebInd, FromRequests
<1>6. NoRequestTwice'
  BY <1>1 DEF WebInd, NoRequestTwice
<1> QED BY <1>2, <1>3, <1>4, <1>5, <1>6 DEF WebInd

LEMMA ReceiveInd ==
    ASSUME WebInd, Receive
    PROVE  WebInd'
<1>1. /\ msgCh # <<>> /\ received' = received \cup {Head(msgCh)} /\ msgCh' = Tail(msgCh)
      /\ UNCHANGED <<webTime, offset, sent, pack, due, req, handler, lastReq, overlap, webDone>>
      /\ msgCh \in Seq(Delivered) /\ received \subseteq Delivered /\ Len(msgCh) <= ChanSize /\ ChanSize \in Nat
  BY WebFacts DEF Receive, netVars, endVars, WebInd, WebTypes
<1>2. /\ Head(msgCh) \in Delivered /\ Tail(msgCh) \in Seq(Delivered)
      /\ Len(Tail(msgCh)) = Len(msgCh) - 1 /\ \A i \in 1..Len(Tail(msgCh)) : Tail(msgCh)[i] = msgCh[i + 1]
  BY <1>1, HeadTailProperties
<1>3. Len(msgCh) \in Nat \ {0} /\ Head(msgCh) = msgCh[1] /\ DOMAIN msgCh = 1..Len(msgCh)
      /\ DOMAIN Tail(msgCh) = 1..Len(Tail(msgCh))
  BY <1>1, <1>2, EmptySeq, LenProperties
<1>4. received' \cup ToSet(msgCh') \subseteq received \cup ToSet(msgCh)
  <2>1. Head(msgCh) \in ToSet(msgCh)
    BY <1>3 DEF ToSet
  <2>2. ToSet(Tail(msgCh)) \subseteq ToSet(msgCh)
    BY <1>2, <1>3 DEF ToSet
  <2> QED BY <1>1, <2>1, <2>2
<1>5. WebTypes'
  <2>1. Len(msgCh') <= ChanSize /\ msgCh' \in Seq(Delivered) /\ received' \subseteq Delivered
    BY <1>1, <1>2, <1>3
  <2> QED BY <1>1, <2>1 DEF WebInd, WebTypes
<1>6. PostedInTurn' /\ InOneRequest'
  BY <1>1 DEF WebInd, PostedInTurn, InOneRequest
<1>7. FromRequests'
  <2>1. \A x \in received' \cup ToSet(msgCh)' : x[1] \in req[x[2]] /\ handler[x[2]][x[3]] \in Stored
    BY <1>1, <1>4 DEF WebInd, FromRequests, ToSet
  <2> QED BY <1>1, <2>1 DEF WebInd, FromRequests
<1>8. NoRequestTwice'
  BY <1>1 DEF WebInd, NoRequestTwice
<1> QED BY <1>5, <1>6, <1>7, <1>8 DEF WebInd

(* A delivery that comes in time is acceptable, unless this or a later request *)
(* has been accepted.                                                           *)
LEMMA PunctualAcceptable ==
    ASSUME WebInd, NEW t \in Ticks, req[t] # {}, webTime <= t + Flush, ~Acceptable(t)
    PROVE  \E u \in Ticks, d \in Copies : u >= t /\ handler[u][d] \in Accepted
<1>1. /\ webTime \in Nat /\ offset \in -Skew..Skew /\ t \in Nat /\ Skew \in Nat
      /\ Flush \in Nat \ {0} /\ Skew < Flush
      /\ Ticks \subseteq Nat /\ WebMaxTime \in Nat /\ Long = WebMaxTime + Flush
      /\ lastReq \in Ticks \cup {-Long}
  BY WebFacts DEF WebInd, WebTypes
<1>2. t <= webTime
  BY DEF WebInd, PostedInTurn
<1>3. t <= webTime + offset + Skew /\ t >= webTime + offset - Flush - Skew
  BY <1>1, <1>2
<1>4. ~(t >= lastReq + Flush - Skew)
  BY <1>1, <1>3 DEF Acceptable, Now
<1>5. lastReq \in Ticks /\ lastReq # -Long
  BY <1>1, <1>4, WebFacts
<1>6. PICK c \in Copies : handler[lastReq][c] \in Stored
  BY <1>5 DEF WebInd, FromRequests
<1>7. ~(lastReq < t)
  <2>1. SUFFICES ASSUME lastReq < t PROVE FALSE
    OBVIOUS
  <2>2. lastReq + Flush <= t
    BY <1>5, <2>1, TicksApart
  <2> QED BY <1>1, <1>4, <1>5, <2>2
<1>8. lastReq >= t
  BY <1>1, <1>5, <1>7
<1> QED BY <1>5, <1>6, <1>8 DEF Stored, Accepted

\* What a step of the specification may refuse.
PunctualStep ==
    \A t \in Ticks, c \in Copies :
        handler[t][c] = "none" /\ handler'[t][c] = "refused" =>
            \/ webDone \/ webTime > t + Flush
            \/ \E u \in Ticks, d \in Copies : u >= t /\ handler[u][d] \in Accepted

LEMMA WebPunctual ==
    ASSUME WebInd, [WebNext]_webVars
    PROVE  PunctualStep
<1>1. SUFFICES ASSUME NEW t \in Ticks, NEW c \in Copies,
                      handler[t][c] = "none", handler'[t][c] = "refused", ~webDone, ~(webTime > t + Flush)
               PROVE  \E u \in Ticks, d \in Copies : u >= t /\ handler[u][d] \in Accepted
  BY DEF PunctualStep
<1>2. CheckRequest(t, c)
  <2>1. handler' # handler
    BY <1>1
  <2>2. PICK u \in Ticks, d \in Copies : HandlerStep(u, d)
    BY <2>1 DEF WebNext, webVars, Producing, Broadcast, FlushMessages, FlushFails, ListConsumer, WebAdvance,
                Receive, CancelWeb, CloseMsgCh, conVars
  <2>3. handler \in [Ticks -> [Copies -> HandlerStates]]
    BY DEF WebInd, WebTypes
  <2>4. CASE StoreRequest(u, d)
    <3>1. PICK s \in {"sending", "broken"} : handler' = [handler EXCEPT ![u][d] = s]
      BY <2>4 DEF StoreRequest
    <3> QED BY <1>1, <2>3, <3>1
  <2>5. CASE SendMessage(u, d)
    <3>1. handler' = [handler EXCEPT ![u][d] = "done"]
      BY <2>1, <2>5 DEF SendMessage
    <3> QED BY <1>1, <2>3, <3>1
  <2>6. CASE CheckRequest(u, d)
    <3>1. PICK s \in {"checked", "refused"} : handler' = [handler EXCEPT ![u][d] = s]
      BY <2>6 DEF CheckRequest
    <3>2. u = t /\ d = c
      BY <1>1, <2>3, <3>1
    <3> QED BY <2>6, <3>2
  <2> QED BY <2>2, <2>4, <2>5, <2>6 DEF HandlerStep
<1>3. req[t] # {}
  BY <1>2 DEF CheckRequest, Arrives
<1>4. ~Acceptable(t)
  <2>1. handler \in [Ticks -> [Copies -> HandlerStates]]
    BY DEF WebInd, WebTypes
  <2>2. handler' = [handler EXCEPT ![t][c] = IF ~webDone /\ Acceptable(t) THEN "checked" ELSE "refused"]
    BY <1>2 DEF CheckRequest
  <2>3. handler'[t][c] = IF ~webDone /\ Acceptable(t) THEN "checked" ELSE "refused"
    BY <2>1, <2>2
  <2> QED BY <1>1, <2>3
<1>5. webTime <= t + Flush
  BY <1>1, WebFacts DEF WebInd, WebTypes
<1> QED BY <1>3, <1>4, <1>5, PunctualAcceptable

LEMMA CheckInd ==
    ASSUME WebInd, NEW t \in Ticks, NEW c \in Copies, CheckRequest(t, c)
    PROVE  WebInd'
<1> DEFINE ok == ~webDone /\ Acceptable(t)
           others == {u \in Ticks : \E d \in Copies : handler[u][d] = "checked"}
           res == IF ok THEN "checked" ELSE "refused"
<1>1. /\ Arrives(t, c) /\ handler' = [handler EXCEPT ![t][c] = res]
      /\ overlap' = overlap \cup (IF others = {} THEN {} ELSE others \cup {t})
      /\ UNCHANGED <<webTime, offset, sent, pack, due, req, lastReq, msgCh, received, webDone>>
  BY DEF CheckRequest, netVars, endVars
<1>2. res \in {"checked", "refused"} /\ (res = "checked" <=> ok)
  OBVIOUS
<1>3. others \subseteq Ticks /\ overlap \subseteq overlap'
  BY <1>1
<1>4. \A u \in Ticks : (\E d \in Copies : handler[u][d] = "checked") => u \in overlap' /\ t \in overlap'
  BY <1>1
<1>5. handler[t][c] = "none" /\ req[t] # {}
  BY <1>1 DEF Arrives
<1> HIDE DEF others, res
<1>6. /\ handler'[t][c] = res
      /\ \A u \in Ticks, d \in Copies : <<u, d>> # <<t, c>> => handler'[u][d] = handler[u][d]
      /\ handler' \in [Ticks -> [Copies -> HandlerStates]]
  BY <1>1, <1>2 DEF WebInd, WebTypes, HandlerStates
<1>7. WebTypes'
  <2>1. overlap' \subseteq Ticks
    BY <1>1, <1>3 DEF WebInd, WebTypes
  <2> QED BY <1>1, <1>6, <2>1 DEF WebInd, WebTypes
<1>8. PostedInTurn' /\ InOneRequest'
  BY <1>1 DEF WebInd, PostedInTurn, InOneRequest
<1>9. \A u \in Ticks, d \in Copies : handler[u][d] \in Stored <=> handler'[u][d] \in Stored
  BY <1>2, <1>5, <1>6 DEF Stored
<1>10. FromRequests'
  <2>1. \A u \in Ticks, d \in Copies : handler'[u][d] # "none" => req[u] # {}
    BY <1>5, <1>6 DEF WebInd, FromRequests
  <2>2. lastReq # -Long => \E d \in Copies : handler'[lastReq][d] \in Stored
    BY <1>9 DEF WebInd, WebTypes, FromRequests
  <2>3. \A x \in received \cup ToSet(msgCh) : x[2] \in Ticks /\ x[3] \in Copies
    BY DEF WebInd, WebTypes, Delivered, ToSet
  <2>4. \A x \in received \cup ToSet(msgCh) : x[1] \in req[x[2]] /\ handler'[x[2]][x[3]] \in Stored
    BY <1>9, <2>3 DEF WebInd, FromRequests
  <2> QED BY <1>1, <2>1, <2>2, <2>4 DEF FromRequests
<1>11. ASSUME ok, NEW s \in Ticks, NEW e \in Copies, handler[s][e] \in Stored, s \notin overlap
       PROVE  s < t
  <2>1. s <= lastReq /\ lastReq \in Ticks \cup {-Long}
    BY <1>11 DEF WebInd, WebTypes, NoRequestTwice
  <2>2. t >= lastReq + Flush - Skew
    BY <1>11 DEF Acceptable
  <2> QED BY <2>1, <2>2, WebFacts
<1>12. NoRequestTwice'
  <2>1. ASSUME NEW s \in Ticks, NEW e \in Copies, handler'[s][e] \in Stored, s \notin overlap'
        PROVE  /\ s <= lastReq'
               /\ \A u \in Ticks, d \in Copies : handler'[u][d] = "checked" => s < u
    <3>1. handler[s][e] \in Stored /\ s \notin overlap
      BY <1>3, <1>9, <2>1
    <3>2. s <= lastReq'
      BY <1>1, <3>1 DEF WebInd, NoRequestTwice
    <3>3. ASSUME NEW u \in Ticks, NEW d \in Copies, handler'[u][d] = "checked"
          PROVE  s < u
      <4>1. CASE <<u, d>> = <<t, c>>
        <5>1. u = t /\ ok
          BY <1>2, <1>6, <3>3, <4>1
        <5> QED BY <1>11, <3>1, <5>1
      <4>2. CASE <<u, d>> # <<t, c>>
        BY <1>6, <3>1, <3>3, <4>2 DEF WebInd, NoRequestTwice
      <4> QED BY <4>1, <4>2
    <3> QED BY <3>2, <3>3
  <2>2. ASSUME NEW s \in Ticks, NEW u \in Ticks, NEW e \in Copies, NEW d \in Copies,
               handler'[s][e] = "checked", handler'[u][d] = "checked", <<s, e>> # <<u, d>>
        PROVE  s \in overlap'
    <3>1. CASE <<s, e>> = <<t, c>>
      <4>1. handler[u][d] = "checked"
        BY <1>6, <2>2, <3>1
      <4> QED BY <1>4, <3>1, <4>1
    <3>2. CASE <<s, e>> # <<t, c>>
      <4>1. handler[s][e] = "checked"
        BY <1>6, <2>2, <3>2
      <4> QED BY <1>4, <4>1
    <3> QED BY <3>1, <3>2
  <2>3. ASSUME NEW s \in Ticks, NEW e \in Copies, NEW d \in Copies,
               handler'[s][e] \in Accepted, handler'[s][d] \in Accepted, e # d
        PROVE  s \in overlap'
    <3>1. ASSUME NEW a \in Copies, handler[t][a] \in Accepted, ok
          PROVE  t \in overlap'
      <4>1. CASE handler[t][a] = "checked"
        BY <1>4, <4>1
      <4>2. CASE handler[t][a] \in Stored
        <5>1. t \notin overlap => t < t
          BY <1>11, <3>1, <4>2
        <5>2. ~(t < t)
          BY WebFacts
        <5> QED BY <1>3, <5>1, <5>2
      <4> QED BY <3>1, <4>1, <4>2 DEF Accepted, Stored
    <3>2. CASE s = t /\ e = c
      <4>1. handler[t][d] \in Accepted /\ ok
        BY <1>2, <1>6, <2>3, <3>2 DEF Accepted
      <4> QED BY <3>1, <3>2, <4>1
    <3>3. CASE s = t /\ d = c
      <4>1. handler[t][e] \in Accepted /\ ok
        BY <1>2, <1>6, <2>3, <3>3 DEF Accepted
      <4> QED BY <3>1, <3>3, <4>1
    <3>4. CASE ~(s = t /\ e = c) /\ ~(s = t /\ d = c)
      BY <1>3, <1>6, <2>3, <3>4 DEF WebInd, NoRequestTwice
    <3> QED BY <3>2, <3>3, <3>4
  <2> QED BY <2>1, <2>2, <2>3 DEF NoRequestTwice
<1> QED BY <1>7, <1>8, <1>10, <1>12 DEF WebInd

LEMMA StoreInd ==
    ASSUME WebInd, NEW t \in Ticks, NEW c \in Copies, StoreRequest(t, c)
    PROVE  WebInd'
<1>1. PICK s \in {"sending", "broken"} :
        /\ handler' = [handler EXCEPT ![t][c] = s] /\ handler[t][c] = "checked" /\ lastReq' = t
        /\ UNCHANGED <<webTime, offset, sent, pack, due, req, msgCh, received, overlap, webDone>>
  BY DEF StoreRequest, netVars, endVars
<1>2. /\ handler'[t][c] = s /\ s \in Stored
      /\ \A u \in Ticks, d \in Copies : <<u, d>> # <<t, c>> => handler'[u][d] = handler[u][d]
      /\ handler' \in [Ticks -> [Copies -> HandlerStates]]
  BY <1>1 DEF WebInd, WebTypes, HandlerStates, Stored
<1>3. WebTypes'
  BY <1>1, <1>2 DEF WebInd, WebTypes
<1>4. PostedInTurn' /\ InOneRequest'
  BY <1>1 DEF WebInd, PostedInTurn, InOneRequest
<1>5. \A u \in Ticks, d \in Copies :
        /\ handler[u][d] \in Stored => handler'[u][d] \in Stored
        /\ handler[u][d] \in Accepted <=> handler'[u][d] \in Accepted
        /\ handler[u][d] = "none" <=> handler'[u][d] = "none"
        /\ handler[u][d] = "refused" <=> handler'[u][d] = "refused"
        /\ handler'[u][d] = "checked" => handler[u][d] = "checked" /\ <<u, d>> # <<t, c>>
        /\ handler'[u][d] \in Stored /\ <<u, d>> # <<t, c>> => handler[u][d] \in Stored
  BY <1>1, <1>2 DEF Stored, Accepted
<1>6. FromRequests'
  <2>1. \A u \in Ticks, d \in Copies : handler'[u][d] # "none" => req[u] # {}
    BY <1>5 DEF WebInd, FromRequests
  <2>2. \E d \in Copies : handler'[t][d] \in Stored
    BY <1>2
  <2>3. \A x \in received \cup ToSet(msgCh) : x[2] \in Ticks /\ x[3] \in Copies
    BY DEF WebInd, WebTypes, Delivered, ToSet
  <2>4. \A x \in received \cup ToSet(msgCh) : x[1] \in req[x[2]] /\ handler'[x[2]][x[3]] \in Stored
    BY <1>5, <2>3 DEF WebInd, FromRequests
  <2> QED BY <1>1, <2>1, <2>2, <2>4 DEF FromRequests
<1>7. NoRequestTwice'
  <2>1. ASSUME NEW v \in Ticks, NEW e \in Copies, handler'[v][e] \in Stored, v \notin overlap
        PROVE  /\ v <= t
               /\ \A u \in Ticks, d \in Copies : handler'[u][d] = "checked" => v < u
    <3>1. CASE <<v, e>> = <<t, c>>
      <4>1. v = t /\ v <= t
        BY <3>1, WebFacts
      <4>2. \A u \in Ticks, d \in Copies : handler'[u][d] # "checked"
        BY <1>1, <1>5, <2>1, <4>1 DEF WebInd, NoRequestTwice
      <4> QED BY <4>1, <4>2
    <3>2. CASE <<v, e>> # <<t, c>>
      <4>1. handler[v][e] \in Stored
        BY <1>5, <2>1, <3>2
      <4>2. \A u \in Ticks, d \in Copies : handler[u][d] = "checked" => v < u
        BY <2>1, <4>1 DEF WebInd, NoRequestTwice
      <4>3. v < t
        BY <1>1, <4>2
      <4> QED BY <1>5, <4>2, <4>3, WebFacts
    <3> QED BY <3>1, <3>2
  <2>2. \A u, v \in Ticks, d, e \in Copies :
          handler'[u][d] = "checked" /\ handler'[v][e] = "checked" /\ <<u, d>> # <<v, e>> => u \in overlap
    BY <1>5 DEF WebInd, NoRequestTwice
  <2>3. \A u \in Ticks, d, e \in Copies :
          handler'[u][d] \in Accepted /\ handler'[u][e] \in Accepted /\ d # e => u \in overlap
    BY <1>5 DEF WebInd, NoRequestTwice
  <2> QED BY <1>1, <2>1, <2>2, <2>3 DEF NoRequestTwice
<1> QED BY <1>3, <1>4, <1>6, <1>7 DEF WebInd

LEMMA SendInd ==
    ASSUME WebInd, NEW t \in Ticks, NEW c \in Copies, SendMessage(t, c)
    PROVE  WebInd'
<1>1. /\ handler[t][c] = "sending"
      /\ UNCHANGED <<webTime, offset, sent, pack, due, req, lastReq, received, overlap, webDone>>
  BY DEF SendMessage, netVars, endVars
<1>2. PostedInTurn' /\ InOneRequest'
  BY <1>1 DEF WebInd, PostedInTurn, InOneRequest
<1>3. CASE NotQueued(t, c) = {}
  <2>1. handler' = [handler EXCEPT ![t][c] = "done"] /\ UNCHANGED msgCh
    BY <1>3 DEF SendMessage
  <2>2. /\ handler' \in [Ticks -> [Copies -> HandlerStates]] /\ handler'[t][c] = "done"
        /\ \A u \in Ticks, d \in Copies : <<u, d>> # <<t, c>> => handler'[u][d] = handler[u][d]
    BY <2>1 DEF WebInd, WebTypes, HandlerStates
  <2>3. \A u \in Ticks, d \in Copies :
          /\ handler[u][d] \in Stored <=> handler'[u][d] \in Stored
          /\ handler[u][d] \in Accepted <=> handler'[u][d] \in Accepted
          /\ handler[u][d] = "none" <=> handler'[u][d] = "none"
          /\ handler[u][d] = "refused" <=> handler'[u][d] = "refused"
          /\ handler[u][d] = "checked" <=> handler'[u][d] = "checked"
    BY <1>1, <2>2 DEF Stored, Accepted
  <2>4. WebTypes'
    BY <1>1, <2>1, <2>2 DEF WebInd, WebTypes
  <2>5. FromRequests'
    <3>1. \A x \in received \cup ToSet(msgCh) : x[2] \in Ticks /\ x[3] \in Copies
      BY DEF WebInd, WebTypes, Delivered, ToSet
    <3>2. \A x \in received \cup ToSet(msgCh) : x[1] \in req[x[2]] /\ handler'[x[2]][x[3]] \in Stored
      BY <2>3, <3>1 DEF WebInd, FromRequests
    <3>3. lastReq # -Long => \E d \in Copies : handler'[lastReq][d] \in Stored
      BY <2>3 DEF WebInd, WebTypes, FromRequests
    <3>4. \A u \in Ticks, d \in Copies : handler'[u][d] # "none" => req[u] # {}
      BY <2>3 DEF WebInd, FromRequests
    <3> QED BY <1>1, <2>1, <3>2, <3>3, <3>4 DEF FromRequests
  <2>6. NoRequestTwice'
    BY <1>1, <2>3 DEF WebInd, NoRequestTwice
  <2> QED BY <1>2, <2>4, <2>5, <2>6 DEF WebInd
<1>4. CASE NotQueued(t, c) # {}
  <2> DEFINE m == Min(NotQueued(t, c))
             x == <<m, t, c>>
  <2>1. m \in req[t] /\ req[t] \subseteq Nat
    <3>1. NotQueued(t, c) \subseteq req[t] /\ req[t] \subseteq Nat
      BY DEF NotQueued, WebInd, WebTypes
    <3> QED BY <1>4, <3>1, MinExists
  <2>2. ChanFree(msgCh) /\ msgCh' = Append(msgCh, x) /\ UNCHANGED handler
    BY <1>4 DEF SendMessage
  <2> HIDE DEF m
  <2>3. x \in Delivered
    BY <2>1 DEF Delivered
  <2> HIDE DEF x
  <2>4. msgCh \in Seq(Delivered) /\ Len(msgCh) \in Nat /\ ChanSize \in Nat
    BY WebFacts, LenProperties DEF WebInd, WebTypes
  <2>5. /\ msgCh' \in Seq(Delivered) /\ Len(msgCh') = Len(msgCh) + 1
        /\ \A i \in 1..Len(msgCh) : msgCh'[i] = msgCh[i]
        /\ msgCh'[Len(msgCh) + 1] = x
    BY <2>2, <2>3, <2>4, AppendProperties
  <2>6. DOMAIN msgCh' = 1..Len(msgCh') /\ DOMAIN msgCh = 1..Len(msgCh)
    BY <2>4, <2>5, LenProperties
  <2>7. ToSet(msgCh)' \subseteq ToSet(msgCh) \cup {x}
    <3>1. \A i \in 1..Len(msgCh') : i \in 1..Len(msgCh) \/ i = Len(msgCh) + 1
      BY <2>4, <2>5
    <3> QED BY <2>5, <2>6, <3>1 DEF ToSet
  <2>8. WebTypes'
    <3>1. Len(msgCh') <= ChanSize
      BY <2>2, <2>4, <2>5 DEF ChanFree
    <3> QED BY <1>1, <2>2, <2>5, <3>1 DEF WebInd, WebTypes
  <2>9. FromRequests'
    <3>1. x[1] \in req[x[2]] /\ handler[x[2]][x[3]] \in Stored
      BY <1>1, <2>1 DEF x, Stored
    <3>2. \A y \in received \cup ToSet(msgCh)' : y[1] \in req[y[2]] /\ handler[y[2]][y[3]] \in Stored
      BY <2>7, <3>1 DEF WebInd, FromRequests
    <3> QED BY <1>1, <2>2, <3>2 DEF WebInd, FromRequests
  <2>10. NoRequestTwice'
    BY <1>1, <2>2 DEF WebInd, NoRequestTwice
  <2> QED BY <1>2, <2>8, <2>9, <2>10 DEF WebInd
<1> QED BY <1>3, <1>4

LEMMA WebNextInd ==
    ASSUME WebInd, [WebNext]_webVars
    PROVE  WebInd'
<1>1. ASSUME UNCHANGED <<webTime, offset, sent, due, req, handler, lastReq, msgCh, received, overlap>>,
             UNCHANGED pack \/ pack' = {}, webDone => webDone'
      PROVE  WebInd'
  <2>1. WebTypes'
    BY <1>1 DEF WebInd, WebTypes
  <2> QED BY <1>1, <2>1, WebQuiet DEF WebInd
<1>3. CASE ListConsumer \/ CancelWeb \/ CloseMsgCh \/ UNCHANGED webVars
  BY <1>1, <1>3 DEF ListConsumer, CancelWeb, CloseMsgCh, webVars, netVars, conVars, endVars
<1>4. CASE Broadcast \/ FlushMessages \/ FlushFails \/ WebAdvance \/ Receive
  BY <1>4, BroadcastInd, FlushInd, AdvanceInd, ReceiveInd
<1>5. ASSUME NEW t \in Ticks, NEW c \in Copies, HandlerStep(t, c)
      PROVE  WebInd'
  BY <1>5, CheckInd, StoreInd, SendInd DEF HandlerStep
<1> QED BY <1>3, <1>4, <1>5 DEF WebNext, Producing

LEMMA WebIndProtects == WebInd => WebTypeOK /\ NotReceivedTwice
<1> SUFFICES ASSUME WebInd PROVE WebTypeOK /\ NotReceivedTwice
  OBVIOUS
<1>1. WebTypeOK
  BY DEF WebInd, WebTypes, WebTypeOK, HandlerStates
<1>2. ASSUME NEW x \in received, NEW y \in received, x # y, x[1] = y[1]
      PROVE  x[2] \in overlap
  <2>1. /\ x = <<x[1], x[2], x[3]>> /\ y = <<y[1], y[2], y[3]>>
        /\ x[2] \in Ticks /\ y[2] \in Ticks /\ x[3] \in Copies /\ y[3] \in Copies
    BY DEF WebInd, WebTypes, Delivered
  <2>2. /\ x[1] \in req[x[2]] /\ handler[x[2]][x[3]] \in Stored
        /\ y[1] \in req[y[2]] /\ handler[y[2]][y[3]] \in Stored
    BY DEF WebInd, FromRequests
  <2>3. x[2] = y[2]
    BY <1>2, <2>1, <2>2 DEF WebInd, InOneRequest
  <2>4. x[3] # y[3]
    BY <1>2, <2>1, <2>3
  <2>5. handler[x[2]][x[3]] \in Accepted /\ handler[x[2]][y[3]] \in Accepted
    BY <2>2, <2>3 DEF Stored, Accepted
  <2> QED BY <2>1, <2>4, <2>5 DEF WebInd, NoRequestTwice
<1> QED BY <1>1, <1>2 DEF NotReceivedTwice

(* What the check of consumeHandler does, for any flush interval, skew that  *)
(* is less, time in the ticker and in the network, order of arrival and      *)
(* number of messages: a request is refused only if it comes more than a     *)
(* flush interval after its tick, or this or a later one has been accepted;  *)
(* and a message is received twice only by the race of two handlers between  *)
(* the check and the store of lastReqs.                                      *)
THEOREM ReplaysRefused ==
    WebSpec => ReplayProtection
<1>1. WebInd /\ [WebNext]_webVars => WebInd'
  BY WebNextInd
<1>2. WebInd /\ [WebNext]_webVars => [PunctualStep]_webVars
  BY WebPunctual
<1>3. PunctualNotRefused <=> [][PunctualStep]_webVars
  BY DEF PunctualNotRefused, PunctualStep
<1> QED BY <1>1, <1>2, <1>3, StartInd, WebIndProtects, PTL DEF WebSpec, ReplayProtection

-----------------------------------------------------------------------------
(* The chain of local transports *)

ChannelStates == Bcasts \cup {None, NilCh, Idle, Ended}

ChTypes ==
    /\ bcast \in [m : 0..MaxBroadcasts, t : 1..(Cardinality(Transports) + 1)]
    /\ bcast.t \in Transports => bcast.m \in Bcasts
    /\ rawMsgCh \in [Transports -> Seq(Bcasts)] /\ \A t \in Transports : Len(rawMsgCh[t]) <= Queue
    /\ unmarshal \in [Transports -> 0..MaxBroadcasts] /\ fanned \in [Transports -> Seq(Bcasts)]
    /\ outs \in [Transports -> Seq(Readers)] /\ left \in [Transports -> Seq(Readers)]
    /\ input \in [Readers -> [Transports -> ChannelStates]]
    /\ since \in [Readers -> [Transports -> Nat]] /\ got \in [Readers -> [Transports -> Seq(Bcasts)]]
    /\ closedCh \subseteq Transports /\ outsClosed \subseteq closedCh

\* The outputs of a fan-out are those of the readers that have subscribed, one
\* each; the worker owes a message to some of them, and to none when they are
\* closed.
OutputsOK ==
    \A t \in Transports :
        /\ \A r \in Readers : r \in ToSet(outs[t]) <=> input[r][t] \notin {None, NilCh}
        /\ ToSet(left[t]) \subseteq ToSet(outs[t]) /\ IsInjective(outs[t]) /\ IsInjective(left[t])
        /\ t \in outsClosed => left[t] = <<>>
        /\ \A r \in Readers : input[r][t] = Ended => t \in outsClosed

\* What a reader has got, g, is what the transport fanned out, f, since he
\* subscribed, up to the message that the fan-in holds and the one that the
\* fan-out owes him (w).
ReadOK(in, g, s, f, w) ==
    IF in \in {None, NilCh} THEN g = <<>>
    ELSE /\ \A i \in 1..Len(g) : g[i] = f[s + i]
         /\ Len(g) + (IF in \in Bcasts THEN 1 ELSE 0) + (IF w THEN 1 ELSE 0) = Len(f) - s
         /\ in \in Bcasts => in = f[s + Len(g) + 1]

ReadsOK ==
    \A r \in Readers, t \in Transports :
        ReadOK(input[r][t], got[r][t], since[r][t], fanned[t], r \in ToSet(left[t]))

ChInd == ChTypes /\ OutputsOK /\ ReadsOK

LEMMA ChFacts ==
    /\ Cardinality(Transports) \in Nat /\ Transports = 1..Cardinality(Transports)
    /\ Queue \in Nat \ {0} /\ MaxBroadcasts \in Nat /\ Bcasts = 1..MaxBroadcasts
    /\ None \notin Bcasts /\ NilCh \notin Bcasts /\ Idle \notin Bcasts /\ Ended \notin Bcasts
    /\ Idle # Ended /\ Idle # None /\ Idle # NilCh /\ Ended # None /\ Ended # NilCh
    /\ NoMsg = 0
<1>1. Cardinality(Transports) \in Nat
  BY ChannelsAssumption, FS_CardinalityType
<1> QED BY <1>1, ChannelsAssumption DEF Bcasts, None, NilCh, Idle, Ended, NoMsg

(* Sequences of readers. *)
LEMMA AppendReader ==
    ASSUME NEW S, NEW s \in Seq(S), NEW x \in S
    PROVE  /\ Append(s, x) \in Seq(S) /\ ToSet(Append(s, x)) = ToSet(s) \cup {x}
           /\ IsInjective(s) /\ x \notin ToSet(s) => IsInjective(Append(s, x))
<1> DEFINE a == Append(s, x)
<1>1. /\ a \in Seq(S) /\ Len(a) = Len(s) + 1 /\ Len(s) \in Nat
      /\ (\A i \in 1..Len(s) : a[i] = s[i]) /\ a[Len(s) + 1] = x
  BY AppendProperties, LenProperties
<1>2. DOMAIN a = 1..Len(a) /\ DOMAIN s = 1..Len(s)
  BY <1>1, LenProperties
<1> HIDE DEF a
<1>3. \A i \in 1..Len(a) : i \in 1..Len(s) \/ i = Len(s) + 1
  BY <1>1
<1>4. 1..Len(s) \subseteq 1..Len(a) /\ Len(s) + 1 \in 1..Len(a)
  BY <1>1
<1>5. ToSet(a) = ToSet(s) \cup {x}
  BY <1>1, <1>2, <1>3, <1>4 DEF ToSet
<1>6. ASSUME IsInjective(s), x \notin ToSet(s) PROVE IsInjective(a)
  <2>1. SUFFICES ASSUME NEW i \in 1..Len(a), NEW j \in 1..Len(a), a[i] = a[j] PROVE i = j
    BY <1>2 DEF IsInjective
  <2>2. CASE i \in 1..Len(s) /\ j \in 1..Len(s)
    BY <1>1, <1>2, <1>6, <2>1, <2>2 DEF IsInjective
  <2>3. \A k \in 1..Len(s) : a[k] # x
    BY <1>1, <1>2, <1>6 DEF ToSet
  <2> QED BY <1>1, <1>3, <2>1, <2>2, <2>3
<1> QED BY <1>1, <1>5, <1>6 DEF a

LEMMA TailReader ==
    ASSUME NEW S, NEW s \in Seq(S), s # <<>>, IsInjective(s)
    PROVE  /\ Tail(s) \in Seq(S) /\ Head(s) \in S /\ Head(s) \in ToSet(s) /\ IsInjective(Tail(s))
           /\ ToSet(Tail(s)) = ToSet(s) \ {Head(s)}
<1> DEFINE t == Tail(s)
<1>1. /\ Head(s) \in S /\ t \in Seq(S) /\ Len(t) = Len(s) - 1 /\ \A i \in 1..Len(t) : t[i] = s[i + 1]
  BY HeadTailProperties
<1>2. /\ Len(s) \in Nat \ {0} /\ Head(s) = s[1]
      /\ DOMAIN s = 1..Len(s) /\ DOMAIN t = 1..Len(t)
  BY <1>1, EmptySeq, LenProperties
<1> HIDE DEF t
<1>3. \A i \in 1..Len(t) : i + 1 \in 1..Len(s) /\ i + 1 # 1
  BY <1>1, <1>2
<1>4. \A i \in 1..Len(s) : i # 1 => i - 1 \in 1..Len(t) /\ t[i - 1] = s[i]
  BY <1>1, <1>2
<1>5. 1 \in 1..Len(s)
  BY <1>2
<1>6. Head(s) \in ToSet(s)
  BY <1>2, <1>5 DEF ToSet
<1>7. IsInjective(t)
  <2>1. SUFFICES ASSUME NEW i \in 1..Len(t), NEW j \in 1..Len(t), t[i] = t[j] PROVE i = j
    BY <1>2 DEF IsInjective
  <2>2. i + 1 = j + 1
    BY <1>1, <1>2, <1>3, <2>1 DEF IsInjective
  <2> QED BY <2>2
<1>8. ToSet(t) = ToSet(s) \ {Head(s)}
  <2>1. ToSet(t) \subseteq ToSet(s)
    BY <1>1, <1>2, <1>3 DEF ToSet
  <2>2. Head(s) \notin ToSet(t)
    BY <1>1, <1>2, <1>3, <1>5 DEF ToSet, IsInjective
  <2>3. ToSet(s) \ {Head(s)} \subseteq ToSet(t)
    BY <1>2, <1>4 DEF ToSet
  <2> QED BY <2>1, <2>2, <2>3
<1> QED BY <1>1, <1>6, <1>7, <1>8 DEF t

(* The fan-out takes a message: it owes it to every reader that has          *)
(* subscribed.                                                                *)
LEMMA ReadTake ==
    ASSUME NEW in, NEW g \in Seq(Bcasts), NEW s \in Nat, NEW f \in Seq(Bcasts), NEW x \in Bcasts,
           ReadOK(in, g, s, f, FALSE)
    PROVE  ReadOK(in, g, s, Append(f, x), in \notin {None, NilCh})
<1>1. CASE in \in {None, NilCh}
  BY <1>1 DEF ReadOK
<1>2. CASE in \notin {None, NilCh}
  <2> DEFINE h == Append(f, x)
  <2>1. /\ Len(h) = Len(f) + 1 /\ \A i \in 1..Len(f) : h[i] = f[i]
        /\ Len(g) \in Nat /\ Len(f) \in Nat
    BY AppendProperties, LenProperties
  <2> HIDE DEF h
  <2>2. /\ \A i \in 1..Len(g) : g[i] = f[s + i]
        /\ Len(g) + (IF in \in Bcasts THEN 1 ELSE 0) = Len(f) - s
        /\ in \in Bcasts => in = f[s + Len(g) + 1]
    BY <1>2, <2>1 DEF ReadOK
  <2>3. \A i \in 1..Len(g) : s + i \in 1..Len(f)
    BY <2>1, <2>2
  <2>4. \A i \in 1..Len(g) : g[i] = h[s + i]
    BY <2>1, <2>2, <2>3
  <2>5. ASSUME in \in Bcasts PROVE in = h[s + Len(g) + 1]
    <3>1. s + Len(g) + 1 \in 1..Len(f)
      BY <2>1, <2>2, <2>5
    <3> QED BY <2>1, <2>2, <2>5, <3>1
  <2>6. Len(g) + (IF in \in Bcasts THEN 1 ELSE 0) + 1 = Len(h) - s
    <3> DEFINE e == IF in \in Bcasts THEN 1 ELSE 0
    <3>1. e \in Nat /\ Len(g) + e = Len(f) - s
      BY <2>2
    <3> HIDE DEF e
    <3>2. Len(g) + e + 1 = Len(h) - s
      BY <2>1, <3>1
    <3> QED BY <3>2 DEF e
  <2> QED BY <1>2, <2>4, <2>5, <2>6 DEF ReadOK, h
<1> QED BY <1>1, <1>2

(* It hands the last message to a reader that waits, *)
LEMMA ReadSend ==
    ASSUME NEW g \in Seq(Bcasts), NEW s \in Nat, NEW f \in Seq(Bcasts), ReadOK(Idle, g, s, f, TRUE)
    PROVE  Last(f) \in Bcasts /\ ReadOK(Last(f), g, s, f, FALSE)
<1>1. Len(g) \in Nat /\ Len(f) \in Nat /\ Last(f) = f[Len(f)]
  BY LenProperties DEF Last
<1>2. Len(g) + 1 = Len(f) - s /\ \A i \in 1..Len(g) : g[i] = f[s + i]
  BY <1>1, ChFacts DEF ReadOK
<1>3. Len(f) \in 1..Len(f) /\ s + Len(g) + 1 = Len(f)
  BY <1>1, <1>2
<1>4. Last(f) \in Bcasts
  BY <1>1, <1>3, ElementOfSeq
<1>5. Last(f) \notin {None, NilCh}
  BY <1>4, ChFacts
<1> QED BY <1>1, <1>2, <1>3, <1>4, <1>5 DEF ReadOK

(* who reads it. *)
LEMMA ReadRead ==
    ASSUME NEW in \in Bcasts, NEW g \in Seq(Bcasts), NEW s \in Nat, NEW f \in Seq(Bcasts), NEW w \in BOOLEAN,
           ReadOK(in, g, s, f, w)
    PROVE  ReadOK(Idle, Append(g, in), s, f, w)
<1> DEFINE h == Append(g, in)
<1>1. /\ Len(h) = Len(g) + 1 /\ (\A i \in 1..Len(g) : h[i] = g[i]) /\ h[Len(g) + 1] = in
      /\ Len(g) \in Nat /\ Len(f) \in Nat
  BY AppendProperties, LenProperties
<1> HIDE DEF h
<1>2. /\ \A i \in 1..Len(g) : g[i] = f[s + i]
      /\ Len(g) + 1 + (IF w THEN 1 ELSE 0) = Len(f) - s
      /\ in = f[s + Len(g) + 1]
  BY ChFacts DEF ReadOK
<1>3. \A i \in 1..Len(h) : i \in 1..Len(g) \/ i = Len(g) + 1
  BY <1>1
<1>4. s + Len(g) + 1 = s + (Len(g) + 1)
  BY <1>1
<1>5. \A i \in 1..Len(h) : h[i] = f[s + i]
  BY <1>1, <1>2, <1>3, <1>4
<1>6. Len(h) + 0 + (IF w THEN 1 ELSE 0) = Len(f) - s
  BY <1>1, <1>2
<1> QED BY <1>5, <1>6, ChFacts DEF ReadOK, h

LEMMA ChInitInd == ChInit => ChInd
<1> SUFFICES ASSUME ChInit PROVE ChInd
  OBVIOUS
<1>1. \A S : <<>> \in Seq(S) /\ Len(<<>>) = 0 /\ ToSet(<<>>) = {} /\ IsInjective(<<>>)
  BY DEF ToSet, IsInjective
<1>2. ChTypes
  BY <1>1, ChFacts DEF ChInit, ChTypes, ChannelStates
<1>3. OutputsOK
  BY <1>1, ChFacts DEF ChInit, OutputsOK
<1>4. ReadsOK
  BY DEF ChInit, ReadsOK, ReadOK
<1> QED BY <1>2, <1>3, <1>4 DEF ChInd

(* Steps that leave the fan-out, the fan-in and the readers alone. *)
LEMMA ChQuiet ==
    ASSUME ChInd, UNCHANGED <<fanned, outs, left, input, since, got>>, outsClosed \subseteq outsClosed',
           \A t \in outsClosed' : left[t] = <<>>
    PROVE  OutputsOK' /\ ReadsOK'
<1>1. OutputsOK'
  BY DEF ChInd, OutputsOK
<1>2. ReadsOK'
  BY DEF ChInd, ReadsOK
<1> QED BY <1>1, <1>2

LEMMA BroadcastsInd ==
    ASSUME ChInd, BroadcastNext \/ BroadcastTo
    PROVE  ChInd'
<1> DEFINE N == Cardinality(Transports)
<1>1. /\ N \in Nat /\ Transports = 1..N /\ Queue \in Nat /\ MaxBroadcasts \in Nat /\ Bcasts = 1..MaxBroadcasts
      /\ bcast \in [m : 0..MaxBroadcasts, t : 1..(N + 1)] /\ rawMsgCh \in [Transports -> Seq(Bcasts)]
  BY ChFacts DEF ChInd, ChTypes
<1> HIDE DEF N
<1>2. UNCHANGED <<unmarshal, fanned, outs, left, input, since, got, closedCh, outsClosed>>
  BY DEF BroadcastNext, BroadcastTo, subVars, stops
<1>3. OutputsOK' /\ ReadsOK'
  BY <1>2, ChQuiet DEF ChInd, ChTypes, OutputsOK
<1>4. CASE BroadcastNext
  <2>1. bcast' = [m |-> bcast.m + 1, t |-> 1] /\ bcast.m < MaxBroadcasts /\ UNCHANGED rawMsgCh
    BY <1>4 DEF BroadcastNext
  <2>2. bcast'.m \in 1..MaxBroadcasts /\ bcast'.t \in 1..(N + 1)
        /\ bcast' \in [m : 0..MaxBroadcasts, t : 1..(N + 1)]
    BY <1>1, <2>1
  <2> QED BY <1>1, <1>2, <1>3, <2>1, <2>2 DEF ChInd, ChTypes, N
<1>5. CASE BroadcastTo
  <2> DEFINE t == bcast.t
  <2>1. /\ t \in Transports /\ bcast' = [bcast EXCEPT !.t = @ + 1]
        /\ \/ UNCHANGED rawMsgCh
           \/ Len(rawMsgCh[t]) < Queue /\ rawMsgCh' = [rawMsgCh EXCEPT ![t] = Append(@, bcast.m)]
    BY <1>5 DEF BroadcastTo
  <2>2. bcast.m \in Bcasts
    BY <2>1 DEF ChInd, ChTypes
  <2>3. bcast'.m = bcast.m /\ bcast' \in [m : 0..MaxBroadcasts, t : 1..(N + 1)]
    BY <1>1, <2>1
  <2>4. rawMsgCh' \in [Transports -> Seq(Bcasts)] /\ \A u \in Transports : Len(rawMsgCh'[u]) <= Queue
    <3>1. CASE UNCHANGED rawMsgCh
      BY <1>1, <3>1 DEF ChInd, ChTypes
    <3>2. CASE Len(rawMsgCh[t]) < Queue /\ rawMsgCh' = [rawMsgCh EXCEPT ![t] = Append(@, bcast.m)]
      <4>1. /\ Append(rawMsgCh[t], bcast.m) \in Seq(Bcasts)
            /\ Len(Append(rawMsgCh[t], bcast.m)) = Len(rawMsgCh[t]) + 1 /\ Len(rawMsgCh[t]) \in Nat
        BY <1>1, <2>1, <2>2, AppendProperties, LenProperties
      <4> HIDE DEF t
      <4>2. Len(Append(rawMsgCh[t], bcast.m)) <= Queue
        BY <1>1, <3>2, <4>1
      <4> QED BY <1>1, <2>1, <3>2, <4>1, <4>2 DEF ChInd, ChTypes
    <3> QED BY <2>1, <3>1, <3>2
  <2> QED BY <1>1, <1>2, <1>3, <2>2, <2>3, <2>4 DEF ChInd, ChTypes, N
<1> QED BY <1>4, <1>5

LEMMA UnmarshalInd ==
    ASSUME ChInd, NEW t \in Transports, Unmarshal(t)
    PROVE  ChInd'
<1>1. /\ rawMsgCh[t] # <<>> /\ unmarshal' = [unmarshal EXCEPT ![t] = Head(rawMsgCh[t])]
      /\ rawMsgCh' = [rawMsgCh EXCEPT ![t] = Tail(@)]
      /\ UNCHANGED <<bcast, fanned, outs, left, input, since, got, closedCh, outsClosed>>
      /\ rawMsgCh[t] \in Seq(Bcasts) /\ Len(rawMsgCh[t]) <= Queue /\ Queue \in Nat
  BY ChFacts DEF Unmarshal, subVars, stops, ChInd, ChTypes
<1>2. /\ Head(rawMsgCh[t]) \in Bcasts /\ Tail(rawMsgCh[t]) \in Seq(Bcasts)
      /\ Len(Tail(rawMsgCh[t])) = Len(rawMsgCh[t]) - 1 /\ Len(rawMsgCh[t]) \in Nat
  BY <1>1, HeadTailProperties, LenProperties
<1>3. Len(Tail(rawMsgCh[t])) <= Queue /\ Head(rawMsgCh[t]) \in 0..MaxBroadcasts
  BY <1>1, <1>2, ChFacts
<1>4. ChTypes'
  <2>1. rawMsgCh' \in [Transports -> Seq(Bcasts)] /\ \A u \in Transports : Len(rawMsgCh'[u]) <= Queue
    BY <1>1, <1>2, <1>3 DEF ChInd, ChTypes
  <2>2. unmarshal' \in [Transports -> 0..MaxBroadcasts]
    BY <1>1, <1>3 DEF ChInd, ChTypes
  <2> QED BY <1>1, <2>1, <2>2 DEF ChInd, ChTypes
<1>5. OutputsOK' /\ ReadsOK'
  BY <1>1, ChQuiet DEF ChInd, ChTypes, OutputsOK
<1> QED BY <1>4, <1>5 DEF ChInd

LEMMA TakeInd ==
    ASSUME ChInd, NEW t \in Transports, FanOutTake(t)
    PROVE  ChInd'
<1> DEFINE x == unmarshal[t]
<1>1. /\ x \in Bcasts /\ t \notin closedCh /\ left[t] = <<>>
      /\ fanned' = [fanned EXCEPT ![t] = Append(fanned[t], x)] /\ left' = [left EXCEPT ![t] = outs[t]]
      /\ unmarshal' = [unmarshal EXCEPT ![t] = NoMsg]
      /\ UNCHANGED <<bcast, rawMsgCh, outs, input, since, got, closedCh, outsClosed>>
  BY ChFacts DEF FanOutTake, Outputs, subVars, stops, ChInd, ChTypes
<1>2. fanned[t] \in Seq(Bcasts) /\ Append(fanned[t], x) \in Seq(Bcasts) /\ outs[t] \in Seq(Readers)
  BY <1>1, AppendProperties DEF ChInd, ChTypes
<1> HIDE DEF x
<1>3. /\ fanned' \in [Transports -> Seq(Bcasts)] /\ left' \in [Transports -> Seq(Readers)]
      /\ fanned'[t] = Append(fanned[t], x) /\ left'[t] = outs[t]
      /\ \A u \in Transports \ {t} : fanned'[u] = fanned[u] /\ left'[u] = left[u]
  BY <1>1, <1>2 DEF ChInd, ChTypes
<1>4. ChTypes'
  <2>1. unmarshal' \in [Transports -> 0..MaxBroadcasts]
    BY <1>1, ChFacts DEF ChInd, ChTypes
  <2> QED BY <1>1, <1>3, <2>1 DEF ChInd, ChTypes
<1>5. OutputsOK'
  <2>1. t \notin outsClosed
    BY <1>1 DEF ChInd, ChTypes
  <2> QED BY <1>1, <1>3, <2>1 DEF ChInd, OutputsOK
<1>6. ReadsOK'
  <2>1. ASSUME NEW r \in Readers, NEW u \in Transports
        PROVE  ReadOK(input[r][u], got[r][u], since[r][u], fanned'[u], r \in ToSet(left'[u]))
    <3>1. ReadOK(input[r][u], got[r][u], since[r][u], fanned[u], r \in ToSet(left[u]))
      BY DEF ChInd, ReadsOK
    <3>2. CASE u = t
      <4>1. (r \in ToSet(left[t])) = FALSE
        BY <1>1 DEF ToSet
      <4>2. (r \in ToSet(left'[t])) = (input[r][t] \notin {None, NilCh})
        BY <1>3 DEF ChInd, OutputsOK
      <4>3. got[r][t] \in Seq(Bcasts) /\ since[r][t] \in Nat
        BY DEF ChInd, ChTypes
      <4>4. ReadOK(input[r][t], got[r][t], since[r][t], fanned[t], FALSE)
        BY <3>1, <3>2, <4>1
      <4>5. ReadOK(input[r][t], got[r][t], since[r][t], Append(fanned[t], x), input[r][t] \notin {None, NilCh})
        BY <1>1, <1>2, <4>3, <4>4, ReadTake DEF x
      <4> QED BY <1>3, <3>2, <4>2, <4>5
    <3>3. CASE u # t
      BY <1>3, <3>1, <3>3
    <3> QED BY <3>2, <3>3
  <2> QED BY <1>1, <2>1 DEF ReadsOK, ToSet
<1> QED BY <1>4, <1>5, <1>6 DEF ChInd

LEMMA FanSendInd ==
    ASSUME ChInd, NEW t \in Transports, FanOutSend(t)
    PROVE  ChInd'
<1> DEFINE p == Head(left[t])
           x == Last(fanned[t])
<1>1. /\ left[t] # <<>> /\ input[p][t] = Idle /\ input' = [input EXCEPT ![p][t] = x]
      /\ left' = [left EXCEPT ![t] = Tail(left[t])]
      /\ UNCHANGED <<bcast, rawMsgCh, unmarshal, fanned, outs, since, got, closedCh, outsClosed>>
  BY DEF FanOutSend, subVars, stops
<1>2. /\ Tail(left[t]) \in Seq(Readers) /\ p \in Readers /\ p \in ToSet(left[t]) /\ IsInjective(Tail(left[t]))
      /\ ToSet(Tail(left[t])) = ToSet(left[t]) \ {p}
  BY <1>1, TailReader DEF ChInd, ChTypes, OutputsOK
<1>3. x \in Bcasts /\ ReadOK(x, got[p][t], since[p][t], fanned[t], FALSE)
  <2>1. ReadOK(input[p][t], got[p][t], since[p][t], fanned[t], p \in ToSet(left[t]))
    BY <1>2 DEF ChInd, ReadsOK
  <2>2. (p \in ToSet(left[t])) = TRUE
    BY <1>2
  <2>3. ReadOK(Idle, got[p][t], since[p][t], fanned[t], TRUE)
    BY <1>1, <2>1, <2>2
  <2>4. got[p][t] \in Seq(Bcasts) /\ since[p][t] \in Nat /\ fanned[t] \in Seq(Bcasts)
    BY <1>2 DEF ChInd, ChTypes
  <2> QED BY <2>3, <2>4, ReadSend
<1> HIDE DEF p, x
<1>4. /\ input' \in [Readers -> [Transports -> ChannelStates]] /\ left' \in [Transports -> Seq(Readers)]
      /\ input'[p][t] = x
      /\ \A r \in Readers, u \in Transports : ~(r = p /\ u = t) => input'[r][u] = input[r][u]
      /\ left'[t] = Tail(left[t]) /\ \A u \in Transports \ {t} : left'[u] = left[u]
  BY <1>1, <1>2, <1>3 DEF ChInd, ChTypes, ChannelStates
<1>5. ChTypes'
  BY <1>1, <1>4 DEF ChInd, ChTypes
<1>6. OutputsOK'
  <2>1. x \notin {None, NilCh, Ended} /\ Idle \notin {None, NilCh, Ended}
    BY <1>3, ChFacts
  <2>2. \A r \in Readers, u \in Transports :
          /\ input'[r][u] \in {None, NilCh} <=> input[r][u] \in {None, NilCh}
          /\ input'[r][u] = Ended <=> input[r][u] = Ended
    BY <1>1, <1>2, <1>4, <2>1
  <2>3. t \notin outsClosed
    BY <1>1 DEF ChInd, OutputsOK
  <2> QED BY <1>1, <1>2, <1>4, <2>2, <2>3 DEF ChInd, OutputsOK
<1>7. ReadsOK'
  <2>1. ASSUME NEW r \in Readers, NEW u \in Transports
        PROVE  ReadOK(input'[r][u], got[r][u], since[r][u], fanned[u], r \in ToSet(left'[u]))
    <3>1. ReadOK(input[r][u], got[r][u], since[r][u], fanned[u], r \in ToSet(left[u]))
      BY DEF ChInd, ReadsOK
    <3>2. CASE u = t /\ r = p
      <4>0. ToSet(left'[u]) = ToSet(left[t]) \ {p}
        BY <1>2, <1>4, <3>2, Zenon
      <4>1. (r \in ToSet(left'[u])) = FALSE
        BY <3>2, <4>0
      <4> QED BY <1>3, <1>4, <3>2, <4>1
    <3>3. CASE u = t /\ r # p
      <4>0. ToSet(left'[u]) = ToSet(left[t]) \ {p}
        BY <1>2, <1>4, <3>3, Zenon
      <4>1. (r \in ToSet(left'[u])) = (r \in ToSet(left[u]))
        BY <3>3, <4>0
      <4> QED BY <1>4, <3>1, <3>3, <4>1
    <3>4. CASE u # t
      BY <1>4, <3>1, <3>4
    <3> QED BY <3>2, <3>3, <3>4
  <2> QED BY <1>1, <2>1 DEF ReadsOK, ToSet
<1> QED BY <1>5, <1>6, <1>7 DEF ChInd

LEMMA SubscribeInd ==
    ASSUME ChInd, NEW p \in Readers, Subscribe(p)
    PROVE  ChInd'
<1> DEFINE row == [t \in Transports |-> IF t \in closedCh THEN NilCh ELSE Idle]
           lens == [t \in Transports |-> Len(fanned[t])]
<1>1. /\ \A t \in Transports : input[p][t] = None
      /\ input' = [input EXCEPT ![p] = row]
      /\ outs' = [t \in Transports |-> IF t \in closedCh THEN outs[t] ELSE Append(outs[t], p)]
      /\ since' = [since EXCEPT ![p] = lens]
      /\ UNCHANGED <<bcast, rawMsgCh, unmarshal, fanned, left, got, closedCh, outsClosed>>
  BY DEF Subscribe, stops
<1>2. row \in [Transports -> ChannelStates] /\ \A t \in Transports : row[t] = IF t \in closedCh THEN NilCh ELSE Idle
  BY DEF ChannelStates
<1>3. lens \in [Transports -> Nat] /\ \A t \in Transports : lens[t] = Len(fanned[t])
  BY LenProperties DEF ChInd, ChTypes
<1> HIDE DEF row, lens
<1>4. /\ input' \in [Readers -> [Transports -> ChannelStates]] /\ since' \in [Readers -> [Transports -> Nat]]
      /\ input'[p] = row /\ since'[p] = lens
      /\ \A r \in Readers \ {p} : input'[r] = input[r] /\ since'[r] = since[r]
  BY <1>1, <1>2, <1>3 DEF ChInd, ChTypes
<1>5. ASSUME NEW t \in Transports
      PROVE  /\ p \notin ToSet(outs[t]) /\ outs[t] \in Seq(Readers) /\ IsInjective(outs[t])
             /\ outs'[t] \in Seq(Readers) /\ IsInjective(outs'[t])
             /\ ToSet(outs'[t]) = IF t \in closedCh THEN ToSet(outs[t]) ELSE ToSet(outs[t]) \cup {p}
  <2>1. p \notin ToSet(outs[t]) /\ outs[t] \in Seq(Readers) /\ IsInjective(outs[t])
    BY <1>1 DEF ChInd, ChTypes, OutputsOK
  <2>2. outs'[t] = IF t \in closedCh THEN outs[t] ELSE Append(outs[t], p)
    BY <1>1
  <2>3. CASE t \in closedCh
    BY <2>1, <2>2, <2>3
  <2>4. CASE t \notin closedCh
    <3>1. outs'[t] = Append(outs[t], p)
      BY <2>2, <2>4
    <3> QED BY <2>1, <2>4, <3>1, AppendReader
  <2> QED BY <2>3, <2>4
<1>6. ChTypes'
  <2>1. outs' \in [Transports -> Seq(Readers)]
    BY <1>1, <1>5
  <2> QED BY <1>1, <1>4, <2>1 DEF ChInd, ChTypes
<1>7. OutputsOK'
  <2>1. ASSUME NEW t \in Transports, NEW r \in Readers
        PROVE  /\ r \in ToSet(outs'[t]) <=> input'[r][t] \notin {None, NilCh}
               /\ input'[r][t] = Ended => t \in outsClosed
    <3>1. CASE r = p
      <4>1. input'[r][t] = IF t \in closedCh THEN NilCh ELSE Idle
        BY <1>2, <1>4, <3>1
      <4> QED BY <1>5, <3>1, <4>1, ChFacts
    <3>2. CASE r # p
      <4>1. input'[r][t] = input[r][t] /\ (r \in ToSet(outs'[t]) <=> r \in ToSet(outs[t]))
        BY <1>4, <1>5, <3>2
      <4> QED BY <4>1 DEF ChInd, OutputsOK
    <3> QED BY <3>1, <3>2
  <2>2. \A t \in Transports : ToSet(left[t]) \subseteq ToSet(outs'[t])
    BY <1>5 DEF ChInd, OutputsOK
  <2>3. \A t \in Transports : IsInjective(left[t]) /\ (t \in outsClosed => left[t] = <<>>)
    BY DEF ChInd, OutputsOK
  <2>4. \A t \in Transports : /\ ToSet(outs[t])' = ToSet(outs'[t]) /\ ToSet(left[t])' = ToSet(left[t])
                              /\ IsInjective(outs[t])' = IsInjective(outs'[t])
                              /\ IsInjective(left[t])' = IsInjective(left[t])
    BY <1>1 DEF ToSet, IsInjective
  <2> QED BY <1>1, <1>5, <2>1, <2>2, <2>3, <2>4 DEF OutputsOK
<1>8. ReadsOK'
  <2>1. ASSUME NEW r \in Readers, NEW t \in Transports
        PROVE  ReadOK(input'[r][t], got[r][t], since'[r][t], fanned[t], r \in ToSet(left[t]))
    <3>1. ReadOK(input[r][t], got[r][t], since[r][t], fanned[t], r \in ToSet(left[t]))
      BY DEF ChInd, ReadsOK
    <3>2. CASE r = p
      <4>1. got[r][t] = <<>> /\ since'[r][t] = Len(fanned[t]) /\ Len(fanned[t]) \in Nat
        <5>1. input[r][t] = None
          BY <1>1, <3>2
        <5>2. got[r][t] = <<>>
          BY <3>1, <5>1 DEF ReadOK
        <5>3. since'[r][t] = lens[t] /\ lens[t] \in Nat
          BY <1>3, <1>4, <3>2
        <5> QED BY <1>3, <5>2, <5>3
      <4>2. (r \in ToSet(left[t])) = FALSE
        BY <1>5, <3>2 DEF ChInd, OutputsOK
      <4>3. input'[r][t] \in {NilCh, Idle}
        BY <1>2, <1>4, <3>2
      <4>4. input'[r][t] \notin Bcasts
        BY <4>3, ChFacts
      <4>5. Len(<<>>) + 0 + 0 = Len(fanned[t]) - Len(fanned[t]) /\ 1..Len(<<>>) = {}
        BY <4>1
      <4>6. Len(got[r][t]) + (IF input'[r][t] \in Bcasts THEN 1 ELSE 0) + (IF r \in ToSet(left[t]) THEN 1 ELSE 0)
              = Len(fanned[t]) - since'[r][t]
        BY <4>1, <4>2, <4>4, <4>5
      <4> QED BY <4>1, <4>4, <4>5, <4>6 DEF ReadOK
    <3>3. CASE r # p
      BY <1>4, <3>1, <3>3
    <3> QED BY <3>2, <3>3
  <2> QED BY <1>1, <2>1 DEF ReadsOK
<1> QED BY <1>6, <1>7, <1>8 DEF ChInd

LEMMA ReaderInd ==
    ASSUME ChInd, NEW p \in Readers, NEW t \in Transports, ReaderStep(p, t)
    PROVE  ChInd'
<1>1. /\ UNCHANGED <<bcast, rawMsgCh, unmarshal, fanned, left, outs, since, closedCh, outsClosed>>
      /\ input[p][t] \in Bcasts \cup {Idle}
  BY DEF ReaderStep, ReadMessage, FanInEnd, FanInReady, subVars, stops
<1>2. PICK y \in {Idle, Ended} : /\ input' = [input EXCEPT ![p][t] = y]
                                 /\ y = Ended => t \in outsClosed /\ UNCHANGED got /\ input[p][t] = Idle
                                 /\ y = Idle => /\ input[p][t] \in Bcasts
                                                /\ got' = [got EXCEPT ![p][t] = Append(@, input[p][t])]
  <2>1. Idle # Ended
    BY ChFacts
  <2>2. CASE ReadMessage(p, t)
    BY <2>1, <2>2 DEF ReadMessage, FanInReady
  <2>3. CASE FanInEnd(p, t)
    BY <2>1, <2>3 DEF FanInEnd
  <2> QED BY <2>2, <2>3 DEF ReaderStep
<1>3. got[p][t] \in Seq(Bcasts) /\ since[p][t] \in Nat /\ fanned[t] \in Seq(Bcasts)
  BY DEF ChInd, ChTypes
<1>4. /\ input' \in [Readers -> [Transports -> ChannelStates]]
      /\ input'[p][t] = y
      /\ \A r \in Readers, u \in Transports : ~(r = p /\ u = t) => input'[r][u] = input[r][u]
  BY <1>2 DEF ChInd, ChTypes, ChannelStates
<1>5. /\ got' \in [Readers -> [Transports -> Seq(Bcasts)]]
      /\ \A r \in Readers, u \in Transports : ~(r = p /\ u = t) => got'[r][u] = got[r][u]
      /\ got'[p][t] = IF y = Ended THEN got[p][t] ELSE Append(got[p][t], input[p][t])
  <2>1. CASE y = Ended
    BY <1>2, <2>1 DEF ChInd, ChTypes
  <2>2. CASE y = Idle
    <3>1. Append(got[p][t], input[p][t]) \in Seq(Bcasts)
      BY <1>2, <1>3, <2>2, AppendProperties
    <3> DEFINE q == Append(got[p][t], input[p][t])
    <3>2. got' = [got EXCEPT ![p][t] = q] /\ y # Ended
      BY <1>2, <2>2, ChFacts
    <3>3. q \in Seq(Bcasts) /\ got \in [Readers -> [Transports -> Seq(Bcasts)]]
      BY <3>1 DEF ChInd, ChTypes
    <3> HIDE DEF q
    <3>4. /\ got' \in [Readers -> [Transports -> Seq(Bcasts)]] /\ got'[p][t] = q
          /\ \A r \in Readers, u \in Transports : ~(r = p /\ u = t) => got'[r][u] = got[r][u]
      BY <3>2, <3>3
    <3> QED BY <3>2, <3>4 DEF q
  <2> QED BY <2>1, <2>2
<1>6. ChTypes'
  BY <1>1, <1>4, <1>5 DEF ChInd, ChTypes
<1>7. OutputsOK'
  <2>1. \A r \in Readers, u \in Transports :
          /\ input'[r][u] \in {None, NilCh} <=> input[r][u] \in {None, NilCh}
          /\ input'[r][u] = Ended => u \in outsClosed
    <3>1. input[p][t] \notin {None, NilCh} /\ y \notin {None, NilCh}
      BY <1>1, ChFacts
    <3> QED BY <1>2, <1>4, <3>1 DEF ChInd, OutputsOK
  <2> QED BY <1>1, <2>1 DEF ChInd, OutputsOK
<1>8. ReadsOK'
  <2>1. ASSUME NEW r \in Readers, NEW u \in Transports
        PROVE  ReadOK(input'[r][u], got'[r][u], since[r][u], fanned[u], r \in ToSet(left[u]))
    <3>1. ReadOK(input[r][u], got[r][u], since[r][u], fanned[u], r \in ToSet(left[u]))
      BY DEF ChInd, ReadsOK
    <3>2. CASE r = p /\ u = t /\ y = Ended
      <4>1. ReadOK(Idle, got[p][t], since[p][t], fanned[t], p \in ToSet(left[t]))
        BY <1>2, <3>1, <3>2
      <4>2. ReadOK(Ended, got[p][t], since[p][t], fanned[t], p \in ToSet(left[t]))
        BY <4>1, ChFacts DEF ReadOK
      <4> QED BY <1>4, <1>5, <3>2, <4>2
    <3>3. CASE r = p /\ u = t /\ y # Ended
      <4>1. input[p][t] \in Bcasts /\ y = Idle
        BY <1>2, <3>3
      <4>2. (p \in ToSet(left[t])) \in BOOLEAN
        OBVIOUS
      <4>3. ReadOK(Idle, Append(got[p][t], input[p][t]), since[p][t], fanned[t], p \in ToSet(left[t]))
        BY <1>3, <3>1, <3>3, <4>1, <4>2, ReadRead
      <4> QED BY <1>4, <1>5, <3>3, <4>1, <4>3
    <3>4. CASE ~(r = p /\ u = t)
      BY <1>4, <1>5, <3>1, <3>4
    <3> QED BY <3>2, <3>3, <3>4
  <2> QED BY <1>1, <2>1 DEF ReadsOK
<1> QED BY <1>6, <1>7, <1>8 DEF ChInd

LEMMA ChNextInd ==
    ASSUME ChInd, [ChNext]_chVars
    PROVE  ChInd'
<1>1. ASSUME NEW t \in Transports, FanOutClose(t)
      PROVE  ChInd'
  <2>1. /\ t \in closedCh /\ left[t] = <<>> /\ outsClosed' = outsClosed \cup {t}
        /\ UNCHANGED <<bcast, rawMsgCh, unmarshal, fanned, left, input, got, outs, since, closedCh>>
    BY <1>1 DEF FanOutClose, flow, subVars
  <2>2. ChTypes'
    BY <2>1 DEF ChInd, ChTypes
  <2>3. \A u \in outsClosed' : left[u] = <<>>
    BY <2>1 DEF ChInd, ChTypes, OutputsOK
  <2>4. OutputsOK' /\ ReadsOK'
    BY <2>1, <2>3, ChQuiet
  <2> QED BY <2>2, <2>4 DEF ChInd
<1>2. ASSUME UNCHANGED <<bcast, rawMsgCh, unmarshal, fanned, left, input, got, outs, since, outsClosed>>,
             closedCh \subseteq closedCh', closedCh' \subseteq Transports
      PROVE  ChInd'
  <2>1. ChTypes'
    BY <1>2 DEF ChInd, ChTypes
  <2>2. \A u \in outsClosed' : left[u] = <<>>
    BY <1>2 DEF ChInd, ChTypes, OutputsOK
  <2>3. OutputsOK' /\ ReadsOK'
    BY <1>2, <2>2, ChQuiet
  <2> QED BY <2>1, <2>3 DEF ChInd
<1>3. ASSUME NEW t \in Transports, CloseLocal(t) \/ SendOnClosed(t)
      PROVE  ChInd'
  <2>1. closedCh \subseteq Transports
    BY DEF ChInd, ChTypes
  <2> QED BY <1>2, <1>3, <2>1 DEF CloseLocal, SendOnClosed, flow, subVars
<1>4. CASE ChCancel \/ UNCHANGED chVars
  <2>1. closedCh \subseteq Transports
    BY DEF ChInd, ChTypes
  <2> QED BY <1>2, <1>4, <2>1 DEF ChCancel, chVars, flow, subVars, stops
<1>5. ASSUME NEW t \in Transports, ChStep(t)
      PROVE  ChInd'
  BY <1>1, <1>3, <1>5, UnmarshalInd, TakeInd, FanSendInd DEF ChStep
<1>6. ASSUME NEW r \in Readers, Subscribe(r) \/ \E t \in Transports : ReaderStep(r, t)
      PROVE  ChInd'
  BY <1>6, SubscribeInd, ReaderInd
<1> QED BY <1>4, <1>5, <1>6, BroadcastsInd DEF ChNext

LEMMA ChIndComplete == ChInd => NothingSkipped
<1> SUFFICES ASSUME ChInd PROVE NothingSkipped
  OBVIOUS
<1>1. ChTypeOK
  <2>1. \A t \in Transports : ToSet(outs[t]) \subseteq Readers
    BY LenProperties DEF ChInd, ChTypes, ToSet
  <2> QED BY <2>1 DEF ChInd, ChTypes, OutputsOK, ChTypeOK, ChannelStates
<1>2. NoGap
  <2>1. ASSUME NEW r \in Readers, NEW t \in Transports, input[r][t] \notin {None, NilCh}
        PROVE  /\ \A i \in 1..Len(got[r][t]) : got[r][t][i] = fanned[t][since[r][t] + i]
               /\ Len(got[r][t]) + Held(r, t) = Len(fanned[t]) - since[r][t]
    <3> DEFINE h == IF input[r][t] \in Bcasts THEN 1 ELSE 0
               w == IF r \in ToSet(left[t]) THEN 1 ELSE 0
    <3>1. ReadOK(input[r][t], got[r][t], since[r][t], fanned[t], r \in ToSet(left[t]))
      BY DEF ChInd, ReadsOK
    <3>2. /\ \A i \in 1..Len(got[r][t]) : got[r][t][i] = fanned[t][since[r][t] + i]
          /\ Len(got[r][t]) + h + w = Len(fanned[t]) - since[r][t]
      BY <2>1, <3>1 DEF ReadOK
    <3>3. h \in Nat /\ w \in Nat /\ Len(got[r][t]) \in Nat
      BY LenProperties DEF ChInd, ChTypes
    <3>4. Held(r, t) = h + w
      BY DEF Held
    <3> HIDE DEF h, w
    <3>5. \A a, b, c \in Nat : a + (b + c) = a + b + c
      OBVIOUS
    <3>6. Len(got[r][t]) + (h + w) = Len(got[r][t]) + h + w
      BY <3>3, <3>5, Zenon
    <3> QED BY <3>2, <3>4, <3>6
  <2> QED BY <2>1 DEF NoGap
<1>3. ClosedAfterAll
  <2>1. ASSUME NEW r \in Readers, NEW t \in Transports, input[r][t] = Ended
        PROVE  Len(got[r][t]) = Len(fanned[t]) - since[r][t]
    <3>1. t \in outsClosed /\ left[t] = <<>>
      BY <2>1 DEF ChInd, OutputsOK
    <3>2. r \notin ToSet(left[t])
      BY <3>1 DEF ToSet
    <3>3. Held(r, t) = 0
      BY <2>1, <3>2, ChFacts DEF Held
    <3>4. Len(got[r][t]) + Held(r, t) = Len(fanned[t]) - since[r][t]
      BY <1>2, <2>1, ChFacts DEF NoGap
    <3>5. Len(got[r][t]) \in Nat
      BY LenProperties DEF ChInd, ChTypes
    <3> QED BY <3>3, <3>4, <3>5
  <2> QED BY <2>1 DEF ClosedAfterAll, ReaderClosed
<1> QED BY <1>1, <1>2, <1>3 DEF NothingSkipped

(* Every reader of a chain of local transports gets all that the transports   *)
(* carry after it has subscribed, in order and once, whichever other readers  *)
(* are slow, and finds its channel closed after the last message: for any     *)
(* number of transports, readers and messages, and any length of the queue.   *)
THEOREM ChainSkipsNothing ==
    ChSpec => []NothingSkipped
<1>1. ChInd /\ [ChNext]_chVars => ChInd'
  BY ChNextInd
<1> QED BY <1>1, ChInitInd, ChIndComplete, PTL DEF ChSpec
=======
