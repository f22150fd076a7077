------------------------------ MODULE Supervisor ------------------------------
(***************************************************************************)
(* The supervisor of a command's services (pkg/supervisor): Start starts   *)
(* the watched services in order and gives up at the first that refuses,   *)
(* serviceMonitor selects on their Wait channels, cancels the shared       *)
(* context at the first error and reports once every channel is closed.    *)
(*                                                                         *)
(* Services differ in what they send on their Wait channel:                *)
(*   "plain"    closes it when the context ends (the relayer, the stores,  *)
(*              the feeder, the publisher);                                *)
(*   "server"   sends the error that ended Serve, or the result of the     *)
(*              shutdown, before it closes it (httpserver; the libp2p node *)
(*              and the RPC clients send the result of the shutdown only); *)
(*   "delayed"  supervisor.Delayed around a plain service;                 *)
(*   "quiet"    closes it in Start (sysmon below the debug log level).     *)
(*                                                                         *)
(* The channel of Delayed has a buffer of one: its goroutine may close the *)
(* channel before the monitor reads the value, which the monitor cannot    *)
(* tell from a close that follows the read, as modelled here.              *)
(***************************************************************************)
EXTENDS Integers

CONSTANTS N,      \* number of watched services
          Kind    \* what each of them is

Services == 1..N
Kinds == {"plain", "server", "delayed", "quiet"}
None == 0         \* no service, where an error names its service

ASSUME SupervisorAssumption == N \in Nat /\ Kind \in [Services -> Kinds]

VARIABLES sup,        \* where Start and serviceMonitor are
          next,       \* the service that Start starts next
          cancelled,  \* the context s.ctx is done
          watched,    \* s.services of the monitor
          err,        \* serviceMonitor's err, as the service it came from
          delivered,  \* the error received from the supervisor's Wait
          phase,      \* where each service is
          crashed     \* services that have sent, or offer, an error

vars == <<sup, next, cancelled, watched, err, delivered, phase, crashed>>
supervisorVars == <<sup, next, watched, err, delivered>>

\* "sending": blocked on waitCh <- v, with v an error iff crashed; "sent":
\* the value was received, the channel is still open.
Phases == {"new", "delaying", "running", "sending", "sent", "closed"}
Up == {"delaying", "running"}

\* New and Watch.
Init ==
    /\ sup = "new" /\ next = 1 /\ cancelled = FALSE
    /\ watched = Services
    /\ err = None /\ delivered = None
    /\ phase = [s \in Services |-> "new"]
    /\ crashed = {}

-----------------------------------------------------------------------------
(* Start. *)

Start ==
    /\ sup = "new"
    /\ sup' = "starting"
    /\ UNCHANGED <<next, cancelled, watched, err, delivered, phase, crashed>>

\* What Start of a service leaves it in.
Started(s) ==
    CASE Kind[s] = "delayed" -> "delaying"
      [] Kind[s] = "quiet"   -> "closed"
      [] OTHER               -> "running"

StartService ==
    /\ sup = "starting" /\ next \in Services
    /\ phase' = [phase EXCEPT ![next] = Started(next)]
    /\ next' = next + 1
    /\ UNCHANGED <<sup, cancelled, watched, err, delivered, crashed>>

\* A service refuses to start: the context is cancelled, waitCh is closed and
\* Start returns the error; no monitor runs.
StartServiceFails ==
    /\ sup = "starting" /\ next \in Services
    /\ Kind[next] \in {"plain", "server"}
    /\ sup' = "failed"
    /\ cancelled' = TRUE
    /\ UNCHANGED <<next, watched, err, delivered, phase, crashed>>

StartMonitor ==
    /\ sup = "starting" /\ next \notin Services
    /\ sup' = "monitor"
    /\ UNCHANGED <<next, cancelled, watched, err, delivered, phase, crashed>>

\* The caller's context: an interrupt ends the program.
CancelCtx ==
    /\ cancelled = FALSE
    /\ cancelled' = TRUE
    /\ UNCHANGED <<supervisorVars, phase, crashed>>

-----------------------------------------------------------------------------
(* The services. *)

\* s goes to phase p, failing or not.
Goes(s, p, fails) ==
    /\ phase' = [phase EXCEPT ![s] = p]
    /\ crashed' = IF fails THEN crashed \cup {s} ELSE crashed
    /\ UNCHANGED <<supervisorVars, cancelled>>

ServeFails(s) == phase[s] = "running" /\ Kind[s] = "server" /\ Goes(s, "sending", TRUE)

PlainStops(s) ==
    phase[s] = "running" /\ Kind[s] = "plain" /\ cancelled /\ Goes(s, "closed", FALSE)

\* The result of the shutdown is sent, whether it is an error or nil.
ServerStops(s) ==
    /\ phase[s] = "running" /\ Kind[s] = "server" /\ cancelled
    /\ \E fails \in BOOLEAN : Goes(s, "sending", fails)

\* Delayed: the select takes the timer or the context, whichever is ready,
\* and the inner service may refuse to start.
DelayEnds(s) ==
    /\ phase[s] = "delaying"
    /\ \/ Goes(s, "running", FALSE)
       \/ Goes(s, "sending", TRUE)

DelayCancelled(s) == phase[s] = "delaying" /\ cancelled /\ Goes(s, "sending", FALSE)

DelayedStops(s) ==
    phase[s] = "running" /\ Kind[s] = "delayed" /\ cancelled /\ Goes(s, "sending", FALSE)

Close(s) == phase[s] = "sent" /\ Goes(s, "closed", FALSE)

ServiceStep(s) ==
    \/ ServeFails(s) \/ PlainStops(s) \/ ServerStops(s) \/ Close(s)
    \/ DelayEnds(s) \/ DelayCancelled(s) \/ DelayedStops(s)

-----------------------------------------------------------------------------
(* Mutants of Receive: plausible faults, to show that properties can fail. *)

\* The service is removed at its first value, without looking at ok.
ReceiveAndRemove(s) ==
    /\ sup = "monitor" /\ s \in watched /\ phase[s] = "sending"
    /\ phase' = [phase EXCEPT ![s] = "sent"]
    /\ err' = IF s \in crashed /\ err = None THEN s ELSE err
    /\ cancelled' = (cancelled \/ s \in crashed)
    /\ watched' = watched \ {s}
    /\ UNCHANGED <<sup, next, delivered, crashed>>

\* err follows the last value, nil included.
ReceiveLast(s) ==
    /\ sup = "monitor" /\ s \in watched /\ phase[s] = "sending"
    /\ phase' = [phase EXCEPT ![s] = "sent"]
    /\ err' = IF s \in crashed THEN s ELSE None
    /\ cancelled' = (cancelled \/ s \in crashed)
    /\ UNCHANGED <<sup, next, watched, delivered, crashed>>

\* The context is not cancelled.
ReceiveUncancelled(s) ==
    /\ sup = "monitor" /\ s \in watched /\ phase[s] = "sending"
    /\ phase' = [phase EXCEPT ![s] = "sent"]
    /\ err' = IF s \in crashed /\ err = None THEN s ELSE err
    /\ UNCHANGED <<sup, next, cancelled, watched, delivered, crashed>>

-----------------------------------------------------------------------------
(* serviceMonitor. *)

\* A value: an error is kept if it is the first and cancels the context, a
\* nil is skipped, since the channel is still open.
Receive(s) ==
    /\ sup = "monitor" /\ s \in watched /\ phase[s] = "sending"
    /\ phase' = [phase EXCEPT ![s] = "sent"]
    /\ err' = IF s \in crashed /\ err = None THEN s ELSE err
    /\ cancelled' = (cancelled \/ s \in crashed)
    /\ UNCHANGED <<sup, next, watched, delivered, crashed>>

ReceiveClosed(s) ==
    /\ sup = "monitor" /\ s \in watched /\ phase[s] = "closed"
    /\ watched' = watched \ {s}
    /\ UNCHANGED <<sup, next, cancelled, err, delivered, phase, crashed>>

MonitorEnds ==
    /\ sup = "monitor" /\ watched = {}
    /\ sup' = IF err = None THEN "done" ELSE "reporting"
    /\ UNCHANGED <<next, cancelled, watched, err, delivered, phase, crashed>>

\* The command reads <-services.Wait(), then waitCh is closed.
Deliver ==
    /\ sup = "reporting"
    /\ sup' = "done"
    /\ delivered' = err
    /\ UNCHANGED <<next, cancelled, watched, err, phase, crashed>>

StartStep == StartService \/ StartServiceFails \/ StartMonitor
MonitorStep ==
    \/ \E s \in Services : Receive(s) \/ ReceiveClosed(s)
    \/ MonitorEnds \/ Deliver

Next ==
    \/ Start \/ StartStep \/ CancelCtx \/ MonitorStep
    \/ \E s \in Services : ServiceStep(s)

Spec == Init /\ [][Next]_vars

\* Start runs to its end, the monitor and the command read what is there, and
\* the goroutine of a service goes on when it can.  Nothing has to fail, be
\* interrupted or be started.
Fairness ==
    /\ WF_vars(StartStep) /\ WF_vars(MonitorStep)
    /\ \A s \in Services :
         WF_vars(PlainStops(s) \/ ServerStops(s) \/ Close(s) \/ DelayEnds(s) \/ DelayedStops(s))

-----------------------------------------------------------------------------
(* Properties. *)

\* Type invariant of the supervisor and its services.
SupervisorTypeOK ==
    /\ sup \in {"new", "starting", "failed", "monitor", "reporting", "done"}
    /\ next \in 1..(N + 1)
    /\ cancelled \in BOOLEAN
    /\ watched \subseteq Services
    /\ err \in Services \cup {None} /\ delivered \in Services \cup {None}
    /\ phase \in [Services -> Phases]
    /\ crashed \subseteq Services

\* "When all services are stopped, the channel will be closed"
\* (supervisor.go:96): a monitor that reports, or has closed Wait, leaves no
\* service that has not closed its own channel.
ReportsLast ==
    sup \in {"reporting", "done"} => \A s \in Services : phase[s] = "closed"

\* "If an error occurs in any of the services, it will be sent to the
\* channel" (supervisor.go:97): a Wait that closes without an error means
\* that no service failed, whenever it failed and whatever the other services
\* sent meanwhile, and the error delivered is one that a service sent.
ErrorIsNotLost ==
    sup = "done" => IF crashed = {} THEN delivered = None ELSE delivered \in crashed

\* "If any of the managed services fail, all other services are stopped"
\* (supervisor.go:39): after a failure every service goes down, and Start or
\* the monitor comes to an end.
OneFailsAllStop ==
    crashed # {} ~> /\ sup \in {"failed", "done"}
                    /\ \A s \in Services : phase[s] \notin Up

===============================================================================
