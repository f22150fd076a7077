------------------------------ MODULE RPCSplitter -----------------------------
(***************************************************************************)
(* The RPC splitter (pkg/rpcsplitter): a JSON-RPC request is sent to every *)
(* endpoint, the answers are collected in the order they arrive, and a     *)
(* resolver makes one answer of them, when all are there or when the       *)
(* graceful timeout finds enough of them.  A request for a tagged block    *)
(* first resolves the tag with a call of its own; both calls share the     *)
(* context with the total timeout.                                         *)
(*                                                                         *)
(* The goroutine of an endpoint that answers after its call has returned   *)
(* writes to a buffered channel nobody reads, and is left out.             *)
(***************************************************************************)
EXTENDS Integers, Sequences, FiniteSets, Ranks

CONSTANTS Endpoints,        \* server.callers
          Honest,           \* the endpoints a gas price is compared with
          Values,           \* answers an endpoint may give, as numbers
          MaxBlocksBehind   \* blockNumberResolver.maxBlocksBehind

Err == -1                   \* the answer of an endpoint that failed
Zero == 0                   \* the zero value of a rpcResult
NumEndpoints == Cardinality(Endpoints)

\* The number of answers the commands configure (cmd/rpc-splitter,
\* pkg/config/ethereum): all but one.
MinResponses == IF NumEndpoints < 2 THEN NumEndpoints ELSE NumEndpoints - 1

Resolvers == {"default", "gas", "block"}

ASSUME SplitterAssumption ==
    /\ IsFiniteSet(Endpoints) /\ Endpoints # {}
    /\ Honest \subseteq Endpoints
    /\ Values \subseteq Nat
    /\ MaxBlocksBehind \in Nat

VARIABLES calls,      \* resolvers of the request's calls that have not ended
          answer,     \* what each endpoint has answered to the present call
          ch,         \* endpoints whose answers wait in the channel, in order
          rs,         \* endpoints whose answers call has received, in order
          timer,      \* the graceful timer: "armed", "fired", "read"
          expired,    \* the total timeout has cancelled the context
          rpcResult   \* what the request returned, << >> until it does

splitterVars == <<calls, answer, ch, rs, timer, expired, rpcResult>>

NoAnswer == -2
Asked == [e \in Endpoints |-> NoAnswer]

\* taggedBlockToNumber: with several endpoints, a tag costs a call of its own
\* before the calls cs; a number does not.  ("earliest" is refused before any
\* call, and such a request is not in Api.)
TaggedBlockToNumber(cs) == IF NumEndpoints = 1 THEN {cs} ELSE {cs, <<"block">> \o cs}

(* The methods of the API, as the resolvers of their calls. *)

BlockNumberCalls == {<<"block">>}

\* eth_getBlockByHash and ByNumber, eth_getTransactionByHash: nothing tagged.
LookupCalls == {<<"default">>}

\* eth_getTransactionCount at a block, _getTransactionReceipt, _sendRawTransaction.
TransactionCalls == TaggedBlockToNumber(<<"default">>)

\* eth_getBalance, _getCode, _getStorageAt and _call, at a block.
StateCalls == TaggedBlockToNumber(<<"default">>)

\* eth_getLogs, from a block, to a block.
LogsCalls == UNION {TaggedBlockToNumber(cs) : cs \in TaggedBlockToNumber(<<"default">>)}

\* eth_gasPrice, and eth_estimateGas at a block.
GasCalls == TaggedBlockToNumber(<<"gas">>)

\* eth_feeHistory at a block, _maxPriorityFeePerGas, _chainId, net_version.
FeeCalls == TaggedBlockToNumber(<<"default">>) \union {<<"gas">>, <<"default">>}

Api == UNION {BlockNumberCalls, LookupCalls, TransactionCalls, StateCalls, LogsCalls,
              GasCalls, FeeCalls}

SplitterInit ==
    /\ calls \in Api
    /\ answer = Asked
    /\ ch = << >>
    /\ rs = << >>
    /\ timer = "armed"
    /\ expired = FALSE
    /\ rpcResult = << >>

-----------------------------------------------------------------------------
(* The resolvers.  r is the sequence of answers received so far. *)

Fail == [ok |-> FALSE, val |-> Zero]
Give(x) == [ok |-> TRUE, val |-> x]

\* filterByNumberType: the positions of the answers that are numbers.
Numbers(r) == {i \in 1..Len(r) : r[i] # Err}
Occurrences(r, x) == Cardinality({i \in 1..Len(r) : r[i] = x})
RangeOf(r) == {r[i] : i \in 1..Len(r)}
LeastOf(S) == CHOOSE x \in S : \A y \in S : x <= y
Greatest(S) == CHOOSE x \in S : \A y \in S : x >= y

\* The answers that occur most often; errors do not count.
MostCommon(r) ==
    {x \in RangeOf(r) \ {Err} :
        \A y \in RangeOf(r) \ {Err} : Occurrences(r, y) <= Occurrences(r, x)}

\* Mutant: any of several most common answers will do.
DefaultResolveAny(r) ==
    IF Len(r) < MinResponses \/ MostCommon(r) = {}
    THEN Fail
    ELSE Give(CHOOSE x \in MostCommon(r) : TRUE)

\* defaultResolver.resolve: a single answer is given as it is, even an error.
DefaultResolve(r) ==
    IF Len(r) < MinResponses
    THEN Fail
    ELSE IF Len(r) = 1
    THEN Give(r[1])
    ELSE IF \E x \in MostCommon(r) : MostCommon(r) = {x} /\ Occurrences(r, x) >= MinResponses
    THEN Give(CHOOSE x \in MostCommon(r) : TRUE)
    ELSE Fail

\* gasValueResolver.resolve: with one number the first answer is given, which
\* need not be the number.
GasValueResolve(r) ==
    LET ns == Numbers(r)
    IN  IF Cardinality(ns) < MinResponses
        THEN Fail
        ELSE IF Cardinality(ns) = 1 THEN Give(r[1])
        ELSE IF Cardinality(ns) = 2 THEN Give(LeastOf({r[i] : i \in ns}))
        ELSE Give(MedianOf(r, ns))

\* blockNumberResolver.resolve: the lowest number that is not too far behind
\* the highest.
BlockNumberResolve(r) ==
    LET ns == Numbers(r)
        blocks == {r[i] : i \in ns}
    IN  IF Cardinality(ns) < MinResponses
        THEN Fail
        ELSE Give(LeastOf({x \in blocks : Greatest(blocks) - x <= MaxBlocksBehind}))

Resolve(kind, r) ==
    CASE kind = "default" -> DefaultResolve(r)
      [] kind = "gas"     -> GasValueResolve(r)
      [] kind = "block"   -> BlockNumberResolve(r)

-----------------------------------------------------------------------------
Running == rpcResult = << >>

\* The goroutine of endpoint e gets its answer or an error, and sends it.  Once
\* the context is cancelled only an error comes.
Answer(e, x) ==
    /\ Running
    /\ answer[e] = NoAnswer
    /\ expired => x = Err
    /\ answer' = [answer EXCEPT ![e] = x]
    /\ ch' = Append(ch, e)
    /\ UNCHANGED <<calls, rs, timer, expired, rpcResult>>

\* The graceful timer fires; its channel holds the tick until it is read.
GracefulTimeout ==
    /\ Running
    /\ timer = "armed"
    /\ timer' = "fired"
    /\ UNCHANGED <<calls, answer, ch, rs, expired, rpcResult>>

TotalTimeout ==
    /\ Running
    /\ ~expired
    /\ expired' = TRUE
    /\ UNCHANGED <<calls, answer, ch, rs, timer, rpcResult>>

Received(s) == [i \in 1..Len(s) |-> answer[s[i]]]

\* Mutant: an answer that cannot be resolved does not end the call.
RoundForever(s, c, t, wait) ==
    LET res == Resolve(Head(calls), Received(s))
    IN  /\ IF ~wait /\ res.ok
           THEN rpcResult' = <<[ok |-> TRUE, val |-> res.val]>>
           ELSE rpcResult' = rpcResult
        /\ rs' = s /\ ch' = c /\ timer' = t
        /\ UNCHANGED <<calls, answer, expired>>

\* A round of the loop in call, with the answers of s received, the ones of c
\* still in the channel and the timer in state t.  The call goes on, fails, or
\* succeeds; then the request's next call starts, with a timer of its own, or
\* the request is answered.  Setting the rpcResult from an error panics: the panic
\* is recovered, and call returns without an error and without a value.
Round(s, c, t, wait) ==
    LET res == Resolve(Head(calls), Received(s))
        more == Len(calls) > 1
    IN  /\ \/ /\ wait \/ (~res.ok /\ Len(s) < NumEndpoints)
              /\ rs' = s /\ ch' = c /\ timer' = t
              /\ UNCHANGED <<calls, answer, rpcResult>>
           \/ /\ ~wait /\ ~res.ok /\ Len(s) = NumEndpoints
              /\ rs' = s /\ ch' = c /\ timer' = t
              /\ rpcResult' = <<Fail>>
              /\ UNCHANGED <<calls, answer>>
           \/ /\ ~wait /\ res.ok /\ more
              /\ calls' = Tail(calls)
              /\ answer' = Asked
              /\ rs' = << >> /\ ch' = << >> /\ timer' = "armed"
              /\ rpcResult' = rpcResult
           \/ /\ ~wait /\ res.ok /\ ~more
              /\ rs' = s /\ ch' = c /\ timer' = t
              /\ rpcResult' = <<Give(IF res.val = Err THEN Zero ELSE res.val)>>
              /\ UNCHANGED <<calls, answer>>
        /\ UNCHANGED expired

\* select takes an answer, or the tick of the timer.
ReceiveAnswer ==
    /\ Running
    /\ ch # << >>
    /\ LET s == Append(rs, Head(ch))
       IN  Round(s, Tail(ch), timer, Len(s) # NumEndpoints)

ReceiveTimer ==
    /\ Running
    /\ timer = "fired"
    /\ Round(rs, ch, "read", FALSE)

SplitterNext ==
    \/ \E e \in Endpoints, x \in Values \union {Err} : Answer(e, x)
    \/ GracefulTimeout
    \/ TotalTimeout
    \/ ReceiveAnswer
    \/ ReceiveTimer

\* The context is cancelled in time, a cancelled call of an endpoint returns,
\* and the goroutine of the request runs.
SplitterFairness ==
    /\ WF_splitterVars(TotalTimeout)
    /\ \A e \in Endpoints : WF_splitterVars(expired /\ Answer(e, Err))
    /\ WF_splitterVars(ReceiveAnswer)
    /\ WF_splitterVars(ReceiveTimer)

SplitterSpec == SplitterInit /\ [][SplitterNext]_splitterVars /\ SplitterFairness

-----------------------------------------------------------------------------
\* The endpoints in s are those that have answered, once each.
EachOnce(s) ==
    /\ RangeOf(s) = {e \in Endpoints : answer[e] # NoAnswer}
    /\ \A i, j \in 1..Len(s) : s[i] = s[j] => i = j

\* Type invariant: the answers received and waiting are those given, once each.
SplitterTypeOK ==
    /\ calls \in Seq(Resolvers) /\ calls # << >>
    /\ answer \in [Endpoints -> Values \union {Err, NoAnswer}]
    /\ timer \in {"armed", "fired", "read"}
    /\ expired \in BOOLEAN
    /\ EachOnce(rs \o ch)
    /\ \A r \in RangeOf(rpcResult) : r \in [ok : BOOLEAN, val : Nat]

\* The request succeeded, with a call of this kind at its end.
Succeeded(kind) == rpcResult # << >> /\ rpcResult[1].ok /\ calls[1] = kind

\* "It returns the most common response that occurred at least as many times as
\* specified in the minRes method" (server.go:152): in whatever order answers
\* and timeouts come, a successful answer was given by the required number of
\* endpoints, and by more of them than any other.
AgreedByMin ==
    Succeeded("default") =>
       LET r == Received(rs)
           x == rpcResult[1].val
       IN  /\ Occurrences(r, x) >= MinResponses
           /\ \A y \in RangeOf(r) \ {x, Err} : Occurrences(r, y) < Occurrences(r, x)

\* "the compromised endpoint may return a very high gas price" (resolver.go:99):
\* the answer never exceeds what some honest endpoint said, even when others
\* fail or come too late.
GasNotInflated ==
    Succeeded("gas") => \E e \in Honest : answer[e] # Err /\ rpcResult[1].val <= answer[e]

\* "the difference from the last known cannot be less than specified in the
\* maxBlocksBehind parameter" (resolver.go:125): the block number was reported
\* by an endpoint and none of those received is further ahead.
BlockNotTooFarBehind ==
    Succeeded("block") =>
       /\ rpcResult[1].val \in RangeOf(Received(rs))
       /\ \A x \in RangeOf(Received(rs)) \ {Err} : x - rpcResult[1].val <= MaxBlocksBehind

\* A request is answered, even if endpoints hang: the total timeout turns what
\* is missing into errors.
RequestIsAnswered == <>(rpcResult # << >>)

\* An answer is sound whichever endpoints, timeouts and resolvers made it:
\* enough endpoints agree, or it is bounded by what honest ones said.
AnswersAreSound ==
    /\ SplitterTypeOK /\ AgreedByMin /\ GasNotInflated /\ BlockNotTooFarBehind
===============================================================================
