------------------------------- MODULE MetricsLog -------------------------------
(***************************************************************************)
(* The logger that turns log entries into metrics (pkg/log/grafana), as    *)
(* the service of a chain of loggers (pkg/log/chain): goroutines that log  *)
(* put points into a shared map, a routine takes the map at every tick and *)
(* sends it to a server, and a goroutine that panics does the same before  *)
(* the program dies. The server may refuse, or not answer at all: the      *)
(* client has no timeout.                                                  *)
(*                                                                         *)
(* A log entry is [level, panics, fields]; what a metric finds in it,      *)
(* fields[i] for metric i, is [match, name, value]: whether message and    *)
(* fields match the expressions, what its name becomes and the number it   *)
(* is about, each of which may be missing. Tags are left out.              *)
(***************************************************************************)
EXTENDS Sums, Sequences

CONSTANTS Threads, Entries,
          Metrics,     \* sequence of [dup, scale, counts]: counts without a value
          Interval, Level,
          MaxLogs, MaxPushes, MaxLogTime

NoField == -1   \* a path without a value
NaN == -2       \* strconv.ParseFloat reads it, json.Marshal refuses it
Found == [match : BOOLEAN, name : STRING, value : Nat \cup {NoField, NaN}]

ASSUME MetricsAssumption ==
    /\ IsFiniteSet(Threads) /\ Threads \subseteq Nat \ {0}
    /\ Interval \in Int /\ Level \in Int
    /\ Metrics \in Seq([dup : {"", "replace", "sum", "min", "max"}, scale : Nat, counts : BOOLEAN])
    /\ Entries \subseteq [level : Nat, panics : BOOLEAN, fields : [1..Len(Metrics) -> Found]]
    /\ MaxLogs \in Nat /\ MaxPushes \in Nat /\ MaxLogTime \in Nat

VARIABLES metricPoints,  \* <<name, time>> -> value
          since,         \* what the points stand for: key -> values, with the metric
          mapMu,            \* who holds the mutex
          nextMetric,    \* the metric that collect has come to, under the mutex
          at, entry,     \* threads and the routine; entry of a thread
          batch,         \* the points each of them is sending
          final,         \* the deferred push of the routine
          logCancelled, logCrashed, logTime, logs, pushes,
          collected,     \* sum of the values of each name, ever
          received, lost \* what the server got, and what it did not

ledger == <<collected, received, lost>>
mlVars == <<metricPoints, since, mapMu, nextMetric, at, entry, batch, final, logCancelled, logCrashed,
            logTime, logs, pushes, ledger>>

Routine == 0
Actors == Threads \cup {Routine}
NoOne == -1
NoEntry == [level |-> 0, panics |-> FALSE, fields |-> <<>>]
NoPoints == <<>>
Names == {e.fields[i].name : e \in Entries, i \in 1..Len(Metrics)} \ {"missing"}

With(f, k, v) == [x \in DOMAIN f \cup {k} |-> IF x = k THEN v ELSE f[x]]

Add(a, b) == IF NaN \in {a, b} THEN NaN ELSE a + b
Less(a, b) == NaN \notin {a, b} /\ a < b

\* Sum of the values under a name; NaN counts as nothing.
SumOf(f, n) == SumOver(f, {k \in DOMAIN f : k[1] = n /\ f[k] # NaN})

-----------------------------------------------------------------------------
(* Collecting *)

\* Defaults of the configuration: at least a second, no scaling, replace.
LogInterval == IF Interval < 1 THEN 1 ELSE Interval
scalingFunc(i, v) == IF Metrics[i].scale \in {0, 1} \/ v = NaN THEN v ELSE v * Metrics[i].scale
OnDuplicate(i) == IF Metrics[i].dup = "" THEN "replace" ELSE Metrics[i].dup

roundTime(t) == t - (t % LogInterval)

\* match, and replaceVars of the name.
Matches(x) == x.match
Named(x) == x.name # "missing"

\* byPath and toFloat: the number, 1 for a metric without a path.
NumberOf(i, x) == IF Metrics[i].counts THEN 1 ELSE x.value

\* Whether a metric makes a point of an entry, and its value.
Yields(i, x) == Matches(x) /\ Named(x) /\ NumberOf(i, x) # NoField
PointValue(i, x) == scalingFunc(i, NumberOf(i, x))

\* addMetricPoint. (No configuration asks for Ignore.)
addMetricPoint(dup, f, k, v) ==
    IF k \notin DOMAIN f \/ dup = "replace" THEN With(f, k, v)
    ELSE CASE dup = "sum" -> With(f, k, Add(v, f[k]))
           [] dup = "min" -> IF Less(v, f[k]) THEN With(f, k, v) ELSE f
           [] dup = "max" -> IF Less(f[k], v) THEN With(f, k, v) ELSE f

MLInit ==
    /\ metricPoints = NoPoints /\ since = NoPoints /\ mapMu = NoOne /\ nextMetric = 1
    /\ at = [a \in Actors |-> IF a = Routine THEN "new" ELSE "idle"]
    /\ entry = [t \in Threads |-> NoEntry]
    /\ batch = [a \in Actors |-> NoPoints]
    /\ final = FALSE /\ logCancelled = FALSE /\ logCrashed = FALSE
    /\ logTime = 1 /\ logs = 0 /\ pushes = 0
    /\ collected = [n \in Names |-> 0] /\ received = [n \in Names |-> 0]
    /\ lost = [n \in Names |-> 0]

\* Debug to Panic: an entry below the level is dropped; a panic never is.
\* (chain: every logger of the chain is called; the others keep no state.)
Log(t, e) ==
    /\ ~logCrashed /\ at[t] = "idle" /\ logs < MaxLogs
    /\ e.panics \/ e.level <= Level
    /\ at' = [at EXCEPT ![t] = "collect"]
    /\ entry' = [entry EXCEPT ![t] = e]
    /\ logs' = logs + 1
    /\ UNCHANGED <<metricPoints, since, mapMu, nextMetric, batch, final, logCancelled,
                   logCrashed, logTime, pushes, ledger>>

\* Lock, of collect and of pushMetrics.
Lock(a) ==
    /\ ~logCrashed /\ mapMu = NoOne /\ at[a] \in {"collect", "push"}
    /\ mapMu' = a
    /\ UNCHANGED <<metricPoints, since, nextMetric, at, entry, batch, final, logCancelled,
                   logCrashed, logTime, logs, pushes, ledger>>

\* The loop of collect over the metrics, under the mutex. Each metric reads the
\* clock by itself. (since and collected remember the values.)
CollectMetric(t) ==
    LET i == nextMetric
        x == entry[t].fields[i]
        k == <<x.name, roundTime(logTime)>>
        v == PointValue(i, x)
        value == [v |-> v, dup |-> OnDuplicate(i), late |-> logCancelled]
    IN
    /\ ~logCrashed /\ mapMu = t /\ at[t] = "collect" /\ i <= Len(Metrics)
    /\ IF Yields(i, x)
       THEN /\ metricPoints' = addMetricPoint(OnDuplicate(i), metricPoints, k, v)
            /\ since' = With(since, k, Append(IF k \in DOMAIN since THEN since[k] ELSE <<>>, value))
            /\ collected' = [collected EXCEPT ![x.name] = IF v = NaN THEN @ ELSE @ + v]
       ELSE UNCHANGED <<metricPoints, since, collected>>
    /\ nextMetric' = i + 1
    /\ UNCHANGED <<mapMu, at, entry, batch, final, logCancelled, logCrashed, logTime, logs,
                   pushes, received, lost>>

\* The end of the loop; Panic goes on to push.
CollectEnd(t) ==
    /\ ~logCrashed /\ mapMu = t /\ at[t] = "collect" /\ nextMetric > Len(Metrics)
    /\ mapMu' = NoOne /\ nextMetric' = 1
    /\ at' = [at EXCEPT ![t] = IF entry[t].panics THEN "push" ELSE "idle"]
    /\ UNCHANGED <<metricPoints, since, entry, batch, final, logCancelled, logCrashed, logTime,
                   logs, pushes, ledger>>

-----------------------------------------------------------------------------
(* Pushing *)

\* StartLogger.
StartLogger ==
    /\ ~logCrashed /\ at[Routine] = "new"
    /\ at' = [at EXCEPT ![Routine] = "wait"]
    /\ UNCHANGED <<metricPoints, since, mapMu, nextMetric, entry, batch, final, logCancelled,
                   logCrashed, logTime, logs, pushes, ledger>>

\* pushRoutine: a tick, at any time, since the ticker is not aligned with the
\* interval of the points.
PushTick ==
    /\ ~logCrashed /\ at[Routine] = "wait" /\ pushes < MaxPushes
    /\ at' = [at EXCEPT ![Routine] = "push"]
    /\ pushes' = pushes + 1
    /\ UNCHANGED <<metricPoints, since, mapMu, nextMetric, entry, batch, final, logCancelled,
                   logCrashed, logTime, logs, ledger>>

\* pushRoutine: the context is done; the deferred push comes first.
PushDone ==
    /\ ~logCrashed /\ at[Routine] = "wait" /\ logCancelled
    /\ at' = [at EXCEPT ![Routine] = "push"] /\ final' = TRUE
    /\ UNCHANGED <<metricPoints, since, mapMu, nextMetric, entry, batch, logCancelled,
                   logCrashed, logTime, logs, pushes, ledger>>

\* What follows pushMetrics: close(waitCh), the loop, or the panic.
After(a) == CASE a # Routine -> "panic" [] final -> "closed" [] OTHER -> "wait"

\* Mutant: the mutex is released by the deferred call only.
TakeLocked(a) ==
    /\ ~logCrashed /\ mapMu = a /\ at[a] = "push"
    /\ IF metricPoints = NoPoints
       THEN mapMu' = NoOne /\ at' = [at EXCEPT ![a] = After(a)] /\ UNCHANGED <<metricPoints, since, batch>>
       ELSE /\ batch' = [batch EXCEPT ![a] = metricPoints]
            /\ metricPoints' = NoPoints /\ since' = NoPoints
            /\ at' = [at EXCEPT ![a] = "send"] /\ UNCHANGED mapMu
    /\ UNCHANGED <<nextMetric, entry, final, logCancelled, logCrashed, logTime, logs, pushes,
                   ledger>>

\* Mutant: the points stay in the map.
TakeKeeps(a) ==
    /\ ~logCrashed /\ mapMu = a /\ at[a] = "push"
    /\ mapMu' = NoOne
    /\ IF metricPoints = NoPoints
       THEN at' = [at EXCEPT ![a] = After(a)] /\ UNCHANGED batch
       ELSE /\ batch' = [batch EXCEPT ![a] = metricPoints]
            /\ at' = [at EXCEPT ![a] = "send"]
    /\ UNCHANGED <<metricPoints, since, nextMetric, entry, final, logCancelled, logCrashed,
                   logTime, logs, pushes, ledger>>

\* pushMetrics, under the mutex: the points are moved out of the map.
Take(a) ==
    /\ ~logCrashed /\ mapMu = a /\ at[a] = "push"
    /\ mapMu' = NoOne
    /\ IF metricPoints = NoPoints
       THEN at' = [at EXCEPT ![a] = After(a)] /\ UNCHANGED <<metricPoints, since, batch>>
       ELSE /\ batch' = [batch EXCEPT ![a] = metricPoints]
            /\ metricPoints' = NoPoints /\ since' = NoPoints
            /\ at' = [at EXCEPT ![a] = "send"]
    /\ UNCHANGED <<nextMetric, entry, final, logCancelled, logCrashed, logTime, logs, pushes,
                   ledger>>

\* pushMetrics, outside the mutex: the request is answered, fails, or is never
\* made, because of a number that is no JSON.
Send(a) ==
    /\ ~logCrashed /\ at[a] = "send"
    /\ \E ok \in BOOLEAN :
         LET sent == ok /\ \A k \in DOMAIN batch[a] : batch[a][k] # NaN
             total == [n \in Names |-> SumOf(batch[a], n)]
         IN  IF sent
             THEN received' = [n \in Names |-> received[n] + total[n]] /\ UNCHANGED lost
             ELSE lost' = [n \in Names |-> lost[n] + total[n]] /\ UNCHANGED received
    /\ batch' = [batch EXCEPT ![a] = NoPoints]
    /\ at' = [at EXCEPT ![a] = After(a)]
    /\ mapMu' = IF mapMu = a THEN NoOne ELSE mapMu
    /\ UNCHANGED <<metricPoints, since, nextMetric, entry, final, logCancelled, logCrashed,
                   logTime, logs, pushes, collected>>

\* The server does not answer.
Hang(a) ==
    /\ ~logCrashed /\ at[a] = "send"
    /\ at' = [at EXCEPT ![a] = "hung"]
    /\ UNCHANGED <<metricPoints, since, mapMu, nextMetric, entry, batch, final, logCancelled,
                   logCrashed, logTime, logs, pushes, ledger>>

\* The panic ends the program, or a caller recovers it.
PanicEnds(t) ==
    /\ ~logCrashed /\ at[t] = "panic"
    /\ \/ logCrashed' = TRUE /\ UNCHANGED at
       \/ at' = [at EXCEPT ![t] = "idle"] /\ UNCHANGED logCrashed
    /\ UNCHANGED <<metricPoints, since, mapMu, nextMetric, entry, batch, final, logCancelled,
                   logTime, logs, pushes, ledger>>

CancelLog ==
    /\ ~logCrashed /\ ~logCancelled /\ logCancelled' = TRUE
    /\ UNCHANGED <<metricPoints, since, mapMu, nextMetric, at, entry, batch, final, logCrashed,
                   logTime, logs, pushes, ledger>>

LogTimePasses ==
    /\ ~logCrashed /\ logTime < MaxLogTime /\ logTime' = logTime + 1
    /\ UNCHANGED <<metricPoints, since, mapMu, nextMetric, at, entry, batch, final, logCancelled,
                   logCrashed, logs, pushes, ledger>>

MLNext ==
    \/ \E t \in Threads : \/ \E e \in Entries : Log(t, e)
                          \/ CollectMetric(t) \/ CollectEnd(t) \/ PanicEnds(t)
    \/ \E a \in Actors : Lock(a) \/ Take(a) \/ Send(a) \/ Hang(a)
    \/ StartLogger \/ PushTick \/ PushDone \/ CancelLog \/ LogTimePasses

MLSpec == MLInit /\ [][MLNext]_mlVars

\* Wait of the chain: the wait channels of its loggers, and one that is closed
\* when the context is done.
ChainStopped == logCancelled /\ at[Routine] = "closed"

\* A Go mutex is handed over to a goroutine that waits for it; the routine
\* runs; a request is answered, fails or hangs.
MLFairness ==
    /\ \A a \in Actors : SF_mlVars(Lock(a)) /\ WF_mlVars(Take(a)) /\ WF_mlVars(Send(a) \/ Hang(a))
    /\ \A t \in Threads : WF_mlVars(CollectMetric(t) \/ CollectEnd(t))
    /\ WF_mlVars(PushDone)

-----------------------------------------------------------------------------
(* Properties *)

\* Types; the mutex is held by who is inside collect or pushMetrics only.
MLTypeOK ==
    /\ mapMu \in Actors \cup {NoOne}
    /\ mapMu # NoOne => at[mapMu] \in {"collect", "push"}
    /\ nextMetric \in 1..(Len(Metrics) + 1)
    /\ DOMAIN since = DOMAIN metricPoints
    /\ \A a \in Actors : (batch[a] # NoPoints) = (at[a] \in {"send", "hung"})

\* What on_duplicate says of values in their order, when these come from
\* metrics that agree on it. (SumsConserved is about sums.)
IsAggregate(s, v) ==
    LET values == {s[i].v : i \in 1..Len(s)}
        dup == s[1].dup
    IN  NaN \notin values /\ (\A i \in 1..Len(s) : s[i].dup = dup) =>
          /\ dup = "replace" => v = s[Len(s)].v
          /\ dup = "max" => v \in values /\ \A x \in values : x <= v
          /\ dup = "min" => v \in values /\ \A x \in values : v <= x

\* A point is what on_duplicate says of all the values that were collected for
\* it since the map was last taken (addMetricPoint, pushMetrics).
PointIsAggregate == \A k \in DOMAIN metricPoints : IsAggregate(since[k], metricPoints[k])

\* Names that only metrics with "sum" give, and never with NaN.
SummedNames ==
    {n \in Names : \A e \in Entries : \A i \in 1..Len(Metrics) :
        Yields(i, e.fields[i]) /\ e.fields[i].name = n =>
            OnDuplicate(i) = "sum" /\ PointValue(i, e.fields[i]) # NaN}

\* Every value of a summed metric is in the map, on its way, at the server or
\* lost with a request that failed, and in one place only (collect against
\* pushMetrics of the routine and of a panic).
SumsConserved ==
    \A n \in SummedNames :
        collected[n] = SumOf(metricPoints, n) + SumOver([a \in Actors |-> SumOf(batch[a], n)], Actors)
                       + received[n] + lost[n]

\* When the service has stopped, only values that were logged after the context
\* was logCancelled remain in the map (the deferred push of pushRoutine).
StoppedIsFlushed ==
    at[Routine] = "closed" =>
        \A k \in DOMAIN since : \A i \in 1..Len(since[k]) : since[k][i].late

\* A call of the logger returns although the server does not answer
\* (pushMetrics releases the mutex before the request).
LogReturns == \A t \in Threads : []<>(at[t] # "collect" \/ logCrashed)

\* After the context is logCancelled the service stops, unless the server hangs.
LoggerStops == []<>(logCancelled /\ at[Routine] # "new" => ChainStopped \/ at[Routine] = "hung" \/ logCrashed)

\* What was logged is in the map, under way, received or in a batch that
\* failed, aggregated as the metric says; and at the end nothing is left in
\* the map.
MetricsConserved ==
    /\ MLTypeOK /\ PointIsAggregate /\ SumsConserved /\ StoppedIsFlushed

\* Who logs returns and the logger stops, unless it is its own request that
\* hangs.
LoggerLive ==
    /\ LogReturns /\ LoggerStops
=============================================================================
