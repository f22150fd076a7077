---------------------------- MODULE EventPublisher ----------------------------
(***************************************************************************)
(* The replayer around an event provider (pkg/event/publisher/replayer)    *)
(* and the publisher that signs and broadcasts what it passes on           *)
(* (pkg/event/publisher), wired by pkg/config/eventpublisher.              *)
(*                                                                         *)
(* The replayer's two goroutines share a cache under a mutex that each     *)
(* holds while it sends on an unbuffered channel; the publisher's listener *)
(* reads it. The unit of time is as fine as one likes, and a tick may be   *)
(* handled any number of units late: the ticker keeps one tick for a       *)
(* reader that is not ready.                                               *)
(***************************************************************************)
EXTENDS Ranks, Sequences, SequencesExt

CONSTANTS Evts, EvtDate,     \* events and their EventDate
          SignableEvts,      \* those that a signer supports and can sign
          ReplayPeriods,     \* replay_after of the configuration, a sequence
          Source,            \* the kind of the provider: "evm" or "starknet"
          Interval,          \* replayer.Config.Interval
          PubMaxTime         \* bound on the time

ASSUME EventPublisherAssumption ==
    /\ "none" \notin Evts /\ EvtDate \in [Evts -> Nat] /\ SignableEvts \subseteq Evts
    /\ ReplayPeriods \in Seq(Nat) /\ ReplayPeriods # <<>>
    /\ Source \in {"evm", "starknet"}
    /\ Interval \in Nat \ {0} /\ PubMaxTime \in Nat

\* teleportEVM multiplies the configured numbers by time.Second;
\* teleportStarknet takes them as time.Duration, that is as nanoseconds, which
\* are less than a unit of time.
ReplayDurations ==
    IF Source = "evm" THEN ReplayPeriods ELSE [i \in DOMAIN ReplayPeriods |-> 0]

\* replayer.New sorts them.
replayAfter ==
    [i \in DOMAIN ReplayDurations |-> Kth(ReplayDurations, DOMAIN ReplayDurations, i)]
expireAfter == replayAfter[Len(replayAfter)] + Interval

VARIABLES pubTime,
          tickDue,     \* since when a tick is in the ticker's channel, or NoTick
          lastTick,    \* last of replayEventsRoutine
          offered,     \* events that the wrapped provider offers on its channel
          cache,       \* eventCache; the order of the list is left open
          mutex,       \* which routine holds it: "none", "collect" or "replay"
          turn,        \* replayEventsRoutine: [now, left], left the events to look at
          sending,     \* the message offered on eventCh, or NoMsg
          pub,         \* the message that the publisher's listener handles, or NoMsg
          handed,      \* messages the listener has received
          published,   \* events given to the transport
          pubDone,     \* the context is done
          ticks        \* history: when the turns of replayEventsRoutine were

replayVars == <<pubTime, tickDue, lastTick, offered, cache, mutex, turn, sending>>
pubVars == <<replayVars, pub, handed, published, pubDone, ticks>>

NoTick == -1
NoMsg == [evt |-> "none", date |-> 0, copy |-> FALSE]
Msg(e, date, copy) == [evt |-> e, date |-> date, copy |-> copy]

PubInit ==
    /\ pubTime = 0 /\ tickDue = NoTick /\ lastTick = 0
    /\ offered = {} /\ cache = {}
    /\ mutex = "none" /\ turn = [now |-> 0, left |-> {}]
    /\ sending = NoMsg /\ pub = NoMsg
    /\ handed = {} /\ published = {} /\ pubDone = FALSE
    /\ ticks = {lastTick}

\* Time passes, however long a tick waits for the routine; the ticker fires
\* every Interval and drops a tick that finds its channel full.
PubAdvance ==
    /\ pubTime < PubMaxTime
    /\ pubTime' = pubTime + 1
    /\ tickDue' = IF pubTime' % Interval = 0 /\ tickDue = NoTick THEN pubTime' ELSE tickDue
    /\ UNCHANGED <<lastTick, offered, cache, mutex, turn, sending, pub, handed, published, pubDone, ticks>>

PubCancel ==
    /\ ~pubDone
    /\ pubDone' = TRUE
    /\ UNCHANGED <<replayVars, pub, handed, published, ticks>>

\* The wrapped provider has found an event: see TeleportEVM, TeleportStarknet.
Offer(e) ==
    /\ EvtDate[e] <= pubTime
    /\ e \notin offered /\ e \notin cache /\ \A m \in handed : m.evt # e
    /\ offered' = offered \cup {e}
    /\ UNCHANGED <<pubTime, tickDue, lastTick, cache, mutex, turn, sending, pub, handed, published, pubDone, ticks>>

-----------------------------------------------------------------------------
(* The replayer. *)

\* collectEventsRoutine: the event is cached and offered under the mutex.
Collect(e) ==
    /\ ~pubDone /\ mutex = "none" /\ e \in offered
    /\ offered' = offered \ {e}
    /\ cache' = cache \cup {e}
    /\ mutex' = "collect"
    /\ sending' = Msg(e, pubTime, FALSE)
    /\ UNCHANGED <<pubTime, tickDue, lastTick, turn, pub, handed, published, pubDone, ticks>>

\* replayEventsRoutine takes a tick and the mutex.
ReplayTick ==
    /\ ~pubDone /\ mutex = "none" /\ tickDue # NoTick
    /\ tickDue' = NoTick
    /\ mutex' = "replay"
    /\ turn' = [now |-> pubTime, left |-> cache]
    /\ UNCHANGED <<pubTime, lastTick, offered, cache, sending, pub, handed, published, pubDone, ticks>>

Age(e) == turn.now - EvtDate[e]
Until(i) == replayAfter[i] + (turn.now - lastTick)

\* Mutant: the window is one interval, whatever the time since the last tick.
ReplayedInInterval(e) ==
    \E i \in DOMAIN replayAfter : Age(e) >= replayAfter[i] /\ Age(e) < replayAfter[i] + Interval

\* The loop over the sorted periods, which it leaves at the first one whose
\* window is not over: at most one of them is replayed in a turn.
IsReplayed(e) ==
    \E i \in DOMAIN replayAfter :
        /\ Age(e) >= replayAfter[i] /\ Age(e) < Until(i)
        /\ \A j \in 1..(i - 1) : Until(j) < Age(e)

\* One event of the cache: removed, replayed as a copy with a new MessageDate,
\* or left alone.
ReplayNext ==
    /\ mutex = "replay" /\ sending = NoMsg
    /\ \E e \in turn.left :
        /\ turn' = [turn EXCEPT !.left = @ \ {e}]
        /\ cache' = IF Age(e) > expireAfter THEN cache \ {e} ELSE cache
        /\ sending' = IF Age(e) <= expireAfter /\ IsReplayed(e)
                      THEN Msg(e, turn.now, TRUE) ELSE NoMsg
    /\ UNCHANGED <<pubTime, tickDue, lastTick, offered, mutex, pub, handed, published, pubDone, ticks>>

ReplayOver ==
    /\ mutex = "replay" /\ sending = NoMsg /\ turn.left = {}
    /\ lastTick' = turn.now /\ ticks' = ticks \cup {turn.now}
    /\ mutex' = "none"
    /\ UNCHANGED <<pubTime, tickDue, offered, cache, turn, sending, pub, handed, published, pubDone>>

-----------------------------------------------------------------------------
(* The publisher. *)

\* Mutant: collectEventsRoutine keeps the mutex.
HandOverLocked ==
    /\ ~pubDone /\ pub = NoMsg /\ sending # NoMsg
    /\ pub' = sending /\ sending' = NoMsg
    /\ handed' = handed \cup {sending}
    /\ UNCHANGED <<pubTime, tickDue, lastTick, offered, cache, mutex, turn, published, pubDone, ticks>>

\* listenerLoop receives what the replayer sends; collectEventsRoutine then
\* gives up the mutex.
HandOver ==
    /\ ~pubDone /\ pub = NoMsg /\ sending # NoMsg
    /\ pub' = sending /\ sending' = NoMsg
    /\ handed' = handed \cup {sending}
    /\ mutex' = IF mutex = "collect" THEN "none" ELSE mutex
    /\ UNCHANGED <<pubTime, tickDue, lastTick, offered, cache, turn, published, pubDone, ticks>>

\* broadcast: an event that no signer signs is dropped, as is one that the
\* transport refuses. Signer.Sign returns false with its errors, so that sign
\* takes an event it cannot sign for one that it does not support.
Broadcast ==
    /\ pub # NoMsg
    /\ pub' = NoMsg
    /\ \/ pub.evt \in SignableEvts /\ published' = published \cup {pub.evt}
       \/ UNCHANGED published
    /\ UNCHANGED <<replayVars, handed, pubDone, ticks>>

Replays == ReplayTick \/ ReplayNext \/ ReplayOver

PubNext ==
    \/ PubAdvance \/ PubCancel
    \/ \E e \in Evts : Offer(e) \/ Collect(e)
    \/ Replays \/ HandOver \/ Broadcast

\* The goroutines run and the listener reads. The mutex is free between two
\* ticks, which is when collectEventsRoutine gets it.
PubFairness ==
    /\ WF_pubVars(\E e \in Evts : Collect(e)) /\ WF_pubVars(Replays)
    /\ WF_pubVars(HandOver \/ Broadcast)

PubSpec == PubInit /\ [][PubNext]_pubVars /\ PubFairness

-----------------------------------------------------------------------------
(* Properties *)

\* Type correctness; the listener publishes only events that can be signed.
PubTypeOK ==
    /\ pubTime \in 0..PubMaxTime /\ lastTick \in 0..pubTime
    /\ tickDue \in {NoTick} \cup 0..pubTime
    /\ offered \subseteq Evts /\ cache \subseteq Evts
    /\ mutex \in {"none", "collect", "replay"}
    /\ mutex = "collect" => sending # NoMsg
    /\ \A m \in handed \cup ({sending, pub} \ {NoMsg}) :
        m.evt \in Evts /\ m.date \in EvtDate[m.evt]..pubTime /\ m.copy \in BOOLEAN
    /\ published \subseteq SignableEvts
    /\ ticks \subseteq 0..lastTick

\* A replay of e is missed at the first turn at or after the time it is due, in
\* two cases only. The turn is so late
\* that the event has expired and is removed, whatever replays it has left. Or
\* another replay of e was due exactly at the turn before, where the loop over
\* the periods ends (to >= age) without a replay.
Missed(e, due) ==
    \E t \in ticks :
        /\ due <= t /\ \A s \in ticks : s < t => s < due
        /\ \/ t > EvtDate[e] + expireAfter
           \/ \E p \in ToSet(ReplayPeriods) :
                 /\ EvtDate[e] + p \in ticks /\ EvtDate[e] + p < t
                 /\ \A s \in ticks : s < t => s <= EvtDate[e] + p

\* "It is used to guarantee that events are eventually delivered to
\* subscribers even if they are not online at the time the event was
\* published": of an event that the replayer has collected, the publisher gets
\* a message at or after each replay period that has passed at the last turn,
\* however late the turns are and if one turn covers several periods. The
\* guarantee has only the two gaps that Missed names.
DeliveredAfterEachPeriod ==
    \A m \in handed : \A p \in ToSet(ReplayPeriods) :
        LET due == EvtDate[m.evt] + p
        IN  due <= lastTick =>
                Missed(m.evt, due) \/ \E x \in handed : x.evt = m.evt /\ x.date >= due

\* The windows of successive ticks do not overlap: an event is replayed at
\* most once for each period, late ticks included.
ReplayedOncePerPeriod ==
    \A e \in Evts :
        Cardinality({m \in handed : m.evt = e /\ m.copy}) <= Len(replayAfter)

\* The mutex held during a send does not lock the pipeline: again and again
\* every event that the provider has offered is handed to the publisher.
OfferedIsHandedOver == []<>(pubDone \/ offered = {})

\* An event is handed over again after each of its periods unless the turn is
\* too late for it, and once per period, whatever the times of the turns.
ReplaysKeepPeriods ==
    /\ PubTypeOK /\ DeliveredAfterEachPeriod /\ ReplayedOncePerPeriod
===============================================================================
