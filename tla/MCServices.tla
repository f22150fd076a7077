------------------------------ MODULE MCServices ------------------------------
(***************************************************************************)
(* The services of a command for TLC, one at a time, while the others are  *)
(* at rest: the supervisor, the RPC splitter, the metrics logger and the   *)
(* libp2p transport.                                                       *)
(***************************************************************************)
EXTENDS Supervisor, RPCSplitter, MetricsLog, MCP2P, TLC

\* One service of each kind and a second server, so that two may fail.
MCKind == 1 :> "server" @@ 2 :> "plain" @@ 3 :> "delayed" @@ 4 :> "quiet" @@ 5 :> "server"

\* A metric of every kind, with the numbers and names that entries lack.
Finds(n, v) == [match |-> TRUE, name |-> n, value |-> v]
NoMatch == [match |-> FALSE, name |-> "missing", value |-> NoField]
Metric(dup, scale) == [dup |-> dup, scale |-> scale, counts |-> FALSE]
MCMetrics == <<Metric("sum", 2), Metric("max", 0), Metric("", 1)>>
MCEntries ==
    {[level |-> 1, panics |-> FALSE, fields |-> <<Finds("a", 1), Finds("b", 2), Finds("e", 1)>>],
     [level |-> 1, panics |-> FALSE, fields |-> <<Finds("d", NaN), Finds("b", 1), Finds("e", 2)>>],
     [level |-> 0, panics |-> TRUE, fields |-> <<Finds("c", 3), Finds("missing", 1), NoMatch>>]}

SupervisorOver ==
    /\ sup = "done" /\ next = 1 /\ cancelled = TRUE /\ watched = {} /\ err = None /\ delivered = None
    /\ phase = [s \in Services |-> "closed"] /\ crashed = {}

SplitterOver ==
    /\ calls = <<"default">> /\ answer = [e \in Endpoints |-> NoAnswer] /\ ch = <<>> /\ rs = <<>>
    /\ timer = "read" /\ expired = TRUE /\ rpcResult = <<Fail>>

LogOver ==
    /\ metricPoints = NoPoints /\ since = NoPoints /\ mapMu = NoOne /\ nextMetric = 1
    /\ at = [a \in Actors |-> IF a = Routine THEN "closed" ELSE "idle"]
    /\ entry = [x \in Threads |-> NoEntry] /\ batch = [a \in Actors |-> NoPoints]
    /\ final = TRUE /\ logCancelled = TRUE /\ logCrashed = FALSE
    /\ logTime = MaxLogTime /\ logs = MaxLogs /\ pushes = MaxPushes
    /\ collected = [n \in Names |-> 0] /\ received = [n \in Names |-> 0] /\ lost = [n \in Names |-> 0]

svcVars == <<vars, splitterVars, mlVars, p2pVars>>

ServicesInit ==
    \/ Init /\ SplitterOver /\ LogOver /\ NodeOver /\ VOver
    \/ SupervisorOver /\ SplitterInit /\ LogOver /\ NodeOver /\ VOver
    \/ SupervisorOver /\ SplitterOver /\ MLInit /\ NodeOver /\ VOver
    \/ SupervisorOver /\ SplitterOver /\ LogOver /\ P2PInit

ServicesNext ==
    \/ Next /\ UNCHANGED <<splitterVars, mlVars, p2pVars>>
    \/ SplitterNext /\ UNCHANGED <<vars, mlVars, p2pVars>>
    \/ MLNext /\ UNCHANGED <<vars, splitterVars, p2pVars>>
    \/ P2PNext /\ UNCHANGED <<vars, splitterVars, mlVars>>

\* The fairness of each, as stated in its module.
ServicesSpec ==
    /\ ServicesInit /\ [][ServicesNext]_svcVars
    /\ Fairness /\ SplitterFairness /\ MLFairness /\ NodeFairness
=============================================================================
