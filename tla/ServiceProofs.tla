----------------------------- MODULE ServiceProofs -----------------------------
(***************************************************************************)
(* The supervisor reports last and loses no error, for any number of       *)
(* services of any kinds; the answers of the RPC splitter are sound, for   *)
(* any number of endpoints of which one may be dishonest; the metrics      *)
(* logger conserves what is logged, for any metrics and callers; and the   *)
(* libp2p transport gives the verdicts of its validators, carries messages *)
(* to the reader and shuts down.                                           *)
(***************************************************************************)
EXTENDS Supervisor, RPCSplitter, MetricsLog, P2PNode, P2PValidators, RankTheorems,
        SequenceTheorems

\* Services are started in order: those that Start has not reached are new,
\* and none has left the monitor's list.
InOrder ==
    /\ sup \in {"new", "starting"} => watched = Services
    /\ \A s \in Services : s >= next => phase[s] = "new"

\* A service leaves the list when its channel is closed, and the monitor ends
\* with the list empty.
LeftAreClosed ==
    /\ \A s \in Services \ watched : phase[s] = "closed"
    /\ sup \in {"reporting", "done"} => watched = {}

\* An error is still on offer, or the monitor has one.
ErrorsAreSeen ==
    \A s \in crashed : \/ phase[s] = "sending"
                       \/ phase[s] \in {"sent", "closed"} /\ err # None

ErrIsACrash == err # None => err \in crashed

DeliveredIsErr == delivered = IF sup = "done" THEN err ELSE None

\* The inductive invariant.
IndInv ==
    /\ SupervisorTypeOK
    /\ InOrder
    /\ LeftAreClosed
    /\ ErrorsAreSeen
    /\ ErrIsACrash
    /\ DeliveredIsErr

\* Every state of Init satisfies the inductive invariant.
LEMMA InitIndInv == Init => IndInv
<1> SUFFICES ASSUME Init PROVE IndInv
  OBVIOUS
<1>1. SupervisorTypeOK
  <2>1. 1 \in 1..(N + 1)
    BY SupervisorAssumption
  <2>2. QED
    BY <2>1 DEF Init, SupervisorTypeOK, Phases
<1>2. InOrder /\ LeftAreClosed
  BY DEF Init, InOrder, LeftAreClosed
<1>3. ErrorsAreSeen /\ ErrIsACrash /\ DeliveredIsErr
  BY DEF Init, ErrorsAreSeen, ErrIsACrash, DeliveredIsErr
<1>4. QED
  BY <1>1, <1>2, <1>3 DEF IndInv

\* A step of a service keeps the inductive invariant: none starts a service,
\* reopens a channel or takes an error back.
LEMMA ServicesKeepIndInv ==
    ASSUME IndInv, NEW s \in Services, ServiceStep(s)
    PROVE  IndInv'
<1>1. PICK p \in {"running", "sending", "closed"}, fails \in BOOLEAN :
         /\ Goes(s, p, fails)
         /\ phase[s] \in {"delaying", "running", "sent"}
         /\ fails => p = "sending"
         /\ p # "closed" => phase[s] # "sent"
  <2>1. CASE ServerStops(s)
    BY <2>1 DEF ServerStops
  <2>2. CASE DelayEnds(s)
    BY <2>2 DEF DelayEnds
  <2>3. CASE ServeFails(s) \/ PlainStops(s) \/ Close(s) \/ DelayCancelled(s) \/ DelayedStops(s)
    BY <2>3 DEF ServeFails, PlainStops, Close, DelayCancelled, DelayedStops
  <2>4. QED
    BY <2>1, <2>2, <2>3 DEF ServiceStep
<1>2. /\ phase' = [phase EXCEPT ![s] = p]
      /\ crashed' = IF fails THEN crashed \cup {s} ELSE crashed
      /\ UNCHANGED <<sup, next, watched, err, delivered, cancelled>>
  BY <1>1 DEF Goes, supervisorVars
<1>3. SupervisorTypeOK'
  BY <1>2 DEF IndInv, SupervisorTypeOK, Phases
<1>4. InOrder'
  BY <1>1, <1>2 DEF IndInv, SupervisorTypeOK, InOrder
<1>5. LeftAreClosed'
  BY <1>1, <1>2 DEF IndInv, SupervisorTypeOK, LeftAreClosed
<1>6. ErrorsAreSeen'
  BY <1>1, <1>2 DEF IndInv, SupervisorTypeOK, ErrorsAreSeen
<1>7. ErrIsACrash' /\ DeliveredIsErr'
  BY <1>2 DEF IndInv, ErrIsACrash, DeliveredIsErr
<1>8. QED
  BY <1>3, <1>4, <1>5, <1>6, <1>7 DEF IndInv

\* A step of Start, of the monitor or of the caller keeps the inductive
\* invariant.
LEMMA SupervisorKeepsIndInv ==
    ASSUME IndInv, Start \/ StartStep \/ CancelCtx \/ MonitorStep
    PROVE  IndInv'
<1> USE SupervisorAssumption
    DEF IndInv, SupervisorTypeOK, InOrder, LeftAreClosed, ErrorsAreSeen, ErrIsACrash,
        DeliveredIsErr, Services, None
<1>1. CASE Start
  BY <1>1 DEF Start
<1>2. CASE StartService
  <2>1. phase[next] = "new" /\ next \notin crashed
    BY <1>2 DEF StartService
  <2>2. Started(next) \in Phases
    BY DEF Started, Phases
  <2>3. QED
    BY <1>2, <2>1, <2>2 DEF StartService
<1>3. CASE StartServiceFails
  BY <1>3 DEF StartServiceFails
<1>4. CASE StartMonitor
  BY <1>4 DEF StartMonitor
<1>5. CASE CancelCtx
  BY <1>5 DEF CancelCtx, supervisorVars
<1>6. ASSUME NEW s \in Services, Receive(s)
      PROVE  IndInv'
  BY <1>6 DEF Receive, Phases
<1>7. ASSUME NEW s \in Services, ReceiveClosed(s)
      PROVE  IndInv'
  BY <1>7 DEF ReceiveClosed
<1>8. CASE MonitorEnds
  BY <1>8 DEF MonitorEnds
<1>9. CASE Deliver
  BY <1>9 DEF Deliver
<1>10. QED
  BY <1>1, <1>2, <1>3, <1>4, <1>5, <1>6, <1>7, <1>8, <1>9 DEF StartStep, MonitorStep

\* The inductive invariant holds in every state of every behaviour of Start,
\* serviceMonitor and the services.
THEOREM SupervisorInvariant == Spec => []IndInv
<1>1. IndInv /\ [Next]_vars => IndInv'
  <2> SUFFICES ASSUME IndInv, [Next]_vars PROVE IndInv'
    OBVIOUS
  <2>1. CASE UNCHANGED vars
    BY <2>1
       DEF vars, IndInv, SupervisorTypeOK, InOrder, LeftAreClosed, ErrorsAreSeen, ErrIsACrash,
           DeliveredIsErr
  <2>2. CASE Next
    BY <2>2, ServicesKeepIndInv, SupervisorKeepsIndInv DEF Next
  <2>3. QED
    BY <2>1, <2>2
<1>2. QED
  BY <1>1, InitIndInv, PTL DEF Spec

\* Wait of the supervisor is not closed, nor an error sent on it, before every
\* service has closed its own channel.
THEOREM MonitorReportsLast == Spec => []ReportsLast
<1>1. IndInv => ReportsLast
  BY DEF IndInv, LeftAreClosed, ReportsLast
<1>2. QED
  BY <1>1, SupervisorInvariant, PTL

\* A failure of a service is delivered before Wait is closed, whichever
\* service fails, and at whatever moment.
THEOREM FailuresAreReported == Spec => []ErrorIsNotLost
<1>1. IndInv => ErrorIsNotLost
  <2> SUFFICES ASSUME IndInv, sup = "done"
               PROVE  IF crashed = {} THEN delivered = None ELSE delivered \in crashed
    BY DEF ErrorIsNotLost
  <2>1. \A s \in crashed : err # None
    BY DEF IndInv, SupervisorTypeOK, LeftAreClosed, ErrorsAreSeen
  <2>2. delivered = err
    BY DEF IndInv, DeliveredIsErr
  <2>3. QED
    BY <2>1, <2>2 DEF IndInv, ErrIsACrash
<1>2. QED
  BY <1>1, SupervisorInvariant, PTL

-----------------------------------------------------------------------------
(* The resolvers of the RPC splitter *)

\* At least two answers are needed, and at most one endpoint is dishonest.
Configured == NumEndpoints >= 3 /\ \A a, b \in Endpoints \ Honest : a = b

Answers == Nat \cup {Err}

LEMMA SplitterConstants ==
    ASSUME Configured
    PROVE  /\ MinResponses \in Nat /\ MinResponses >= 2 /\ NumEndpoints \in Nat
           /\ MinResponses <= NumEndpoints
           /\ MaxBlocksBehind \in Nat /\ Values \subseteq Nat
<1>1. NumEndpoints \in Nat
  BY SplitterAssumption, FS_CardinalityType DEF NumEndpoints
<1>2. MinResponses = NumEndpoints - 1
  BY <1>1 DEF Configured, MinResponses
<1> QED BY <1>1, <1>2, SplitterAssumption DEF Configured

\* The sets of positions that the resolvers count.
LEMMA PositionsFinite ==
    ASSUME NEW r \in Seq(Answers)
    PROVE  /\ \A x : IsFiniteSet({i \in 1..Len(r) : r[i] = x}) /\ Occurrences(r, x) \in Nat
           /\ IsFiniteSet(Numbers(r)) /\ Cardinality(Numbers(r)) \in Nat
           /\ \A i \in Numbers(r) : r[i] \in Nat
<1>1. IsFiniteSet(1..Len(r))
  BY FS_Interval
<1>2. \A x : {i \in 1..Len(r) : r[i] = x} \in SUBSET (1..Len(r))
  OBVIOUS
<1>3. \A x : IsFiniteSet({i \in 1..Len(r) : r[i] = x})
  BY <1>1, <1>2, FS_Subset
<1>4. \A x : Occurrences(r, x) \in Nat
  BY <1>3, FS_CardinalityType DEF Occurrences
<1>5. Numbers(r) \in SUBSET (1..Len(r))
  BY DEF Numbers
<1>6. IsFiniteSet(Numbers(r)) /\ Cardinality(Numbers(r)) \in Nat
  BY <1>1, <1>5, FS_Subset, FS_CardinalityType
<1>7. \A i \in Numbers(r) : r[i] \in Nat
  BY DEF Numbers, Answers
<1> QED BY <1>3, <1>4, <1>6, <1>7

\* The default resolver gives an answer of the required number of endpoints, that
\* no other answer reaches.
LEMMA DefaultIsAgreed ==
    ASSUME Configured, NEW r \in Seq(Answers), DefaultResolve(r).ok
    PROVE  LET x == DefaultResolve(r).val
           IN  /\ x \in Nat /\ Occurrences(r, x) >= MinResponses
               /\ \A y \in RangeOf(r) \ {x, Err} : Occurrences(r, y) < Occurrences(r, x)
<1>1. Len(r) \in Nat /\ ~(Len(r) < MinResponses) /\ Len(r) # 1
  BY SplitterConstants DEF DefaultResolve, Fail
<1>2. PICK x \in MostCommon(r) : MostCommon(r) = {x} /\ Occurrences(r, x) >= MinResponses
  BY <1>1 DEF DefaultResolve, Fail
<1>3. DefaultResolve(r).val = x
  BY <1>1, <1>2 DEF DefaultResolve, Give
<1>4. x \in RangeOf(r) \ {Err} /\ \A y \in RangeOf(r) \ {Err} : Occurrences(r, y) <= Occurrences(r, x)
  BY <1>2 DEF MostCommon
<1>5. x \in Nat
  BY <1>4 DEF RangeOf, Answers
<1>6. ASSUME NEW y \in RangeOf(r) \ {x, Err}
      PROVE  Occurrences(r, y) < Occurrences(r, x)
  <2>1. y \notin MostCommon(r)
    BY <1>2
  <2>2. PICK z \in RangeOf(r) \ {Err} : ~(Occurrences(r, z) <= Occurrences(r, y))
    BY <2>1 DEF MostCommon
  <2>3. Occurrences(r, x) \in Nat /\ Occurrences(r, y) \in Nat /\ Occurrences(r, z) \in Nat
    BY PositionsFinite
  <2>4. Occurrences(r, z) <= Occurrences(r, x)
    BY <1>4
  <2> QED BY <2>2, <2>3, <2>4
<1> QED BY <1>2, <1>3, <1>5, <1>6

\* A set of two or more has two different elements.
LEMMA TwoOfTwo ==
    ASSUME NEW S, IsFiniteSet(S), Cardinality(S) >= 2
    PROVE  \E i, j \in S : i # j
<1>1. SUFFICES ASSUME \A i, j \in S : i = j PROVE FALSE
  OBVIOUS
<1>2. S # {}
  BY FS_EmptySet
<1>3. \E i : S = {i}
  BY <1>1, <1>2
<1>4. Cardinality(S) = 1
  BY <1>3, FS_Singleton
<1> QED BY <1>4

\* At least two endpoints have said what the gas resolver gives, or more.
LEMMA GasIsBounded ==
    ASSUME Configured, NEW r \in Seq(Answers), GasValueResolve(r).ok
    PROVE  LET x == GasValueResolve(r).val
           IN  /\ x \in Nat
               /\ \E i, j \in Numbers(r) : i # j /\ x <= r[i] /\ x <= r[j]
<1> DEFINE ns == Numbers(r)
           n == Cardinality(ns)
<1>1. IsFiniteSet(ns) /\ n \in Nat /\ \A i \in ns : r[i] \in Nat
  BY PositionsFinite
<1>2. n >= 2
  BY <1>1, SplitterConstants DEF GasValueResolve, Fail
<1>3. CASE n = 2
  <2> DEFINE S == {r[i] : i \in ns}
  <2>1. GasValueResolve(r).val = LeastOf(S)
    BY <1>2, <1>3, SplitterConstants DEF GasValueResolve, Give, Fail
  <2>2. S \subseteq Nat /\ S # {}
    BY <1>1, <1>2, FS_EmptySet
  <2>3. \E x \in S : \A y \in S : x <= y
    <3> HIDE DEF S
    <3> QED BY <2>2, LeastExists
  <2>4. LeastOf(S) \in S /\ \A y \in S : LeastOf(S) <= y
    <3> HIDE DEF S
    <3> QED BY <2>3 DEF LeastOf
  <2>5. \E i, j \in ns : i # j
    BY <1>1, <1>2, TwoOfTwo
  <2>6. \A i \in ns : LeastOf(S) <= r[i]
    BY <2>4
  <2>7. LeastOf(S) \in Nat
    BY <2>2, <2>4
  <2> QED BY <2>1, <2>5, <2>6, <2>7
<1>4. CASE n > 2
  <2> DEFINE m == MedianOf(r, ns)
  <2>1. GasValueResolve(r).val = m
    BY <1>1, <1>2, <1>4, SplitterConstants DEF GasValueResolve, Give, Fail
  <2>2. ns # {}
    BY <1>1, <1>2, FS_EmptySet
  <2>3. m \in Nat /\ 2 * Cardinality(Below(r, ns, m)) <= n
    BY <1>1, <2>2, MedianIsMiddle
  <2> HIDE DEF m, ns
  <2>4. Cardinality(Below(r, ns, m)) \in Nat /\ ns \cap Below(r, ns, m) = Below(r, ns, m)
    BY <1>1, RanksFinite DEF Below
  <2>5. IsFiniteSet(ns \ Below(r, ns, m))
        /\ Cardinality(ns \ Below(r, ns, m)) = n - Cardinality(Below(r, ns, m))
    BY <1>1, <2>4, FS_Difference
  <2>6. Cardinality(ns \ Below(r, ns, m)) >= 2
    BY <1>1, <1>4, <2>3, <2>4, <2>5
  <2>7. PICK i, j \in ns \ Below(r, ns, m) : i # j
    BY <2>5, <2>6, TwoOfTwo
  <2>8. m <= r[i] /\ m <= r[j]
    BY <1>1, <2>3, <2>7 DEF Below
  <2> QED BY <2>1, <2>3, <2>7, <2>8 DEF ns
<1> QED BY <1>1, <1>2, <1>3, <1>4

\* The block number is one of the answers, and none is too far ahead of it.
LEMMA BlockIsRecent ==
    ASSUME Configured, NEW r \in Seq(Answers), BlockNumberResolve(r).ok
    PROVE  LET x == BlockNumberResolve(r).val
           IN  /\ x \in Nat /\ x \in RangeOf(r)
               /\ \A y \in RangeOf(r) \ {Err} : y - x <= MaxBlocksBehind
<1> DEFINE ns == Numbers(r)
           B == {r[i] : i \in ns}
           high == Greatest(B)
           near == {x \in B : high - x <= MaxBlocksBehind}
<1>1. IsFiniteSet(ns) /\ Cardinality(ns) \in Nat /\ \A i \in ns : r[i] \in Nat
  BY PositionsFinite
<1>2. ~(Cardinality(ns) < MinResponses)
  BY DEF BlockNumberResolve, Fail
<1>3. BlockNumberResolve(r).val = LeastOf(near)
  BY <1>2 DEF BlockNumberResolve, Give
<1>4. B \subseteq Nat /\ B # {} /\ IsFiniteSet(B)
  <2>1. ns # {}
    BY <1>1, <1>2, SplitterConstants, FS_EmptySet
  <2>2. [i \in ns |-> r[i]] \in Surjection(ns, B)
    BY DEF Surjection
  <2>3. IsFiniteSet(B)
    BY <1>1, <2>2, FS_Surjection
  <2> QED BY <1>1, <2>1, <2>3
<1>5. B = RangeOf(r) \ {Err}
  BY DEF RangeOf, Numbers
<1> HIDE DEF B
<1>6. high \in B /\ \A y \in B : y <= high
  <2>1. \E x \in B : \A y \in B : y <= x
    <3>1. B \subseteq Int
      BY <1>4
    <3> QED BY <1>4, <3>1, GreatestExists
  <2>2. \E x \in B : \A y \in B : x >= y
    BY <1>4, <2>1
  <2>3. high \in B /\ \A y \in B : high >= y
    BY <2>2 DEF Greatest
  <2> QED BY <1>4, <2>3
<1>7. near \subseteq Nat /\ near # {}
  <2>1. high \in near
    <3>1. MaxBlocksBehind \in Nat
      BY SplitterConstants
    <3>2. high \in Nat
      BY <1>4, <1>6
    <3>3. high - high <= MaxBlocksBehind
      BY <3>1, <3>2
    <3> QED BY <1>6, <3>3
  <2> QED BY <1>4, <2>1
<1>8. LeastOf(near) \in near
  <2> HIDE DEF near
  <2>1. \E x \in near : \A y \in near : x <= y
    BY <1>7, LeastExists
  <2> QED BY <2>1 DEF LeastOf
<1>9. LeastOf(near) \in B /\ high - LeastOf(near) <= MaxBlocksBehind
  BY <1>8
<1> HIDE DEF near, high
<1>10. \A y \in B : y - LeastOf(near) <= MaxBlocksBehind
  <2>1. LeastOf(near) \in Nat /\ high \in Nat /\ MaxBlocksBehind \in Nat
    BY <1>4, <1>6, <1>9, SplitterConstants
  <2>2. \A y \in B : y \in Nat /\ y <= high
    BY <1>4, <1>6
  <2> QED BY <1>9, <2>1, <2>2
<1> QED BY <1>3, <1>4, <1>5, <1>9, <1>10

-----------------------------------------------------------------------------
(* A request to the RPC splitter *)

SplitTypes ==
    /\ SplitterTypeOK
    /\ ch \in Seq(Endpoints) /\ rs \in Seq(Endpoints)
    /\ rpcResult = << >> \/ \E x \in [ok : BOOLEAN, val : Nat] : rpcResult = <<x>>

SplitInd == SplitTypes /\ AgreedByMin /\ GasNotInflated /\ BlockNotTooFarBehind

\* Every method makes at least one call.
LEMMA CallsTyped ==
    ASSUME NEW c \in Api
    PROVE  c \in Seq(Resolvers) /\ c # << >>
<1> DEFINE OK(s) == s \in Seq(Resolvers) /\ s # << >>
<1>1. OK(<<"block">>) /\ OK(<<"default">>) /\ OK(<<"gas">>)
  BY DEF Resolvers
<1>2. ASSUME NEW s, OK(s), NEW d \in TaggedBlockToNumber(s)
      PROVE  OK(d)
  <2>1. <<"block">> \in Seq(Resolvers)
    BY DEF Resolvers
  <2>2. <<"block">> \o s \in Seq(Resolvers) /\ Len(<<"block">> \o s) >= 1
    BY <1>2, <2>1
  <2>3. <<"block">> \o s # << >>
    BY <2>2
  <2> QED BY <1>2, <2>2, <2>3 DEF TaggedBlockToNumber
<1>3. ASSUME NEW d \in LogsCalls PROVE OK(d)
  <2>1. PICK s \in TaggedBlockToNumber(<<"default">>) : d \in TaggedBlockToNumber(s)
    BY <1>3 DEF LogsCalls
  <2> HIDE DEF OK
  <2> QED BY <1>1, <1>2, <2>1
<1> HIDE DEF OK
<1>4. OK(c)
  BY <1>1, <1>2, <1>3
     DEF Api, BlockNumberCalls, LookupCalls, TransactionCalls, StateCalls, GasCalls, FeeCalls
<1> QED BY <1>4 DEF OK

\* Receiving takes the first answer of the channel to the end of those received.
LEMMA MoveHead ==
    ASSUME NEW E, NEW a \in Seq(E), NEW b \in Seq(E), b # << >>
    PROVE  /\ Append(a, Head(b)) \in Seq(E) /\ Tail(b) \in Seq(E)
           /\ Append(a, Head(b)) \o Tail(b) = a \o b
<1>1. Head(b) \in E /\ Tail(b) \in Seq(E) /\ Append(a, Head(b)) \in Seq(E)
  OBVIOUS
<1>2. Append(a, Head(b)) \o Tail(b) \in Seq(E) /\ a \o b \in Seq(E)
  BY <1>1
<1>3. Len(Append(a, Head(b)) \o Tail(b)) = Len(a \o b)
  BY <1>1
<1>4. \A i \in 1..Len(a \o b) : (Append(a, Head(b)) \o Tail(b))[i] = (a \o b)[i]
  BY <1>1
<1> QED BY <1>1, <1>2, <1>3, <1>4, SeqEqual

\* What call has received are answers, each of an endpoint of its own.
LEMMA ReceivedTyped ==
    ASSUME SplitTypes, Configured, NEW s \in Seq(Endpoints), NEW c \in Seq(Endpoints),
           s \o c = rs \o ch
    PROVE  /\ Received(s) \in Seq(Answers) /\ Len(Received(s)) = Len(s)
           /\ \A i \in 1..Len(s) : Received(s)[i] = answer[s[i]]
           /\ \A i, j \in 1..Len(s) : s[i] = s[j] => i = j
<1> DEFINE all == rs \o ch
<1>1. /\ RangeOf(all) = {e \in Endpoints : answer[e] # NoAnswer}
      /\ \A i, j \in 1..Len(all) : all[i] = all[j] => i = j
      /\ answer \in [Endpoints -> Values \cup {Err, NoAnswer}]
  BY DEF SplitTypes, SplitterTypeOK, EachOnce
<1>2. Len(s) \in Nat /\ Len(s) <= Len(all) /\ Len(all) \in Nat
      /\ \A i \in 1..Len(s) : i \in 1..Len(all) /\ all[i] = s[i] /\ s[i] \in Endpoints
  <2>1. Len(s \o c) = Len(s) + Len(c) /\ \A i \in 1..Len(s) : (s \o c)[i] = s[i]
    OBVIOUS
  <2> QED BY <2>1
<1> HIDE DEF all
<1>3. \A i \in 1..Len(s) : answer[s[i]] # NoAnswer
  <2>1. \A i \in 1..Len(all) : all[i] \in RangeOf(all)
    BY DEF RangeOf
  <2>2. \A x \in RangeOf(all) : answer[x] # NoAnswer
    BY <1>1
  <2> QED BY <1>2, <2>1, <2>2
<1>4. \A i \in 1..Len(s) : answer[s[i]] \in Answers
  BY <1>1, <1>2, <1>3, SplitterConstants DEF Answers
<1>5. Received(s) = [i \in 1..Len(s) |-> answer[s[i]]]
  BY DEF Received
<1>6. Received(s) \in Seq(Answers) /\ Len(Received(s)) = Len(s)
  <2>1. Received(s) \in [1..Len(s) -> Answers]
    BY <1>4, <1>5
  <2> QED BY <1>2, <2>1
<1> QED BY <1>1, <1>2, <1>5, <1>6

\* The request succeeds with what the resolver of its last call gives.
LEMMA SuccessIsSound ==
    ASSUME SplitInd, Configured, NEW s \in Seq(Endpoints), NEW c \in Seq(Endpoints),
           s \o c = rs \o ch,
           Resolve(Head(calls), Received(s)).ok,
           rs' = s, UNCHANGED <<calls, answer>>,
           LET res == Resolve(Head(calls), Received(s))
           IN  rpcResult' = <<Give(IF res.val = Err THEN Zero ELSE res.val)>>
    PROVE  /\ \E x \in [ok : BOOLEAN, val : Nat] : rpcResult' = <<x>>
           /\ AgreedByMin' /\ GasNotInflated' /\ BlockNotTooFarBehind'
<1> DEFINE r == Received(s)
           kind == Head(calls)
           res == Resolve(kind, r)
           v == res.val
<1>1. /\ r \in Seq(Answers) /\ Len(r) = Len(s)
      /\ \A i \in 1..Len(s) : r[i] = answer[s[i]]
      /\ \A i, j \in 1..Len(s) : s[i] = s[j] => i = j
  BY ReceivedTyped DEF SplitInd
<1>2. kind = calls[1] /\ kind \in Resolvers
  BY DEF SplitInd, SplitTypes, SplitterTypeOK
<1>3. Received(rs)' = r
  BY DEF Received
<1>4. kind = "default" => res = DefaultResolve(r)
  BY DEF Resolve
<1>5. kind = "gas" => res = GasValueResolve(r)
  BY DEF Resolve
<1>6. kind = "block" => res = BlockNumberResolve(r)
  BY DEF Resolve
<1> HIDE DEF r, kind, res
<1>7. v \in Nat
  BY <1>1, <1>2, <1>4, <1>5, <1>6, DefaultIsAgreed, GasIsBounded, BlockIsRecent
     DEF Resolvers, kind, res, r
<1>8. rpcResult' = <<Give(v)>>
  BY <1>7 DEF Err, kind, res, r
<1> HIDE DEF v
<1>9. /\ rpcResult' # << >> /\ rpcResult'[1].ok = TRUE /\ rpcResult'[1].val = v
      /\ \E x \in [ok : BOOLEAN, val : Nat] : rpcResult' = <<x>>
  <2>1. Give(v) \in [ok : BOOLEAN, val : Nat] /\ Give(v).ok = TRUE /\ Give(v).val = v
    BY <1>7 DEF Give
  <2>2. rpcResult' # << >> /\ rpcResult'[1] = Give(v)
    BY <1>8
  <2> QED BY <1>8, <2>1, <2>2
<1>10. AgreedByMin'
  <2>1. SUFFICES ASSUME kind = "default"
                 PROVE  /\ Occurrences(r, v) >= MinResponses
                        /\ \A y \in RangeOf(r) \ {v, Err} : Occurrences(r, y) < Occurrences(r, v)
    BY <1>2, <1>3, <1>9 DEF AgreedByMin, Succeeded
  <2>2. res = DefaultResolve(r) /\ DefaultResolve(r).ok
    BY <1>4, <2>1 DEF kind, res, r
  <2> QED BY <1>1, <2>2, DefaultIsAgreed DEF v
<1>11. GasNotInflated'
  <2>1. SUFFICES ASSUME kind = "gas"
                 PROVE  \E e \in Honest : answer[e] # Err /\ v <= answer[e]
    BY <1>2, <1>9 DEF GasNotInflated, Succeeded
  <2>2. res = GasValueResolve(r) /\ GasValueResolve(r).ok
    BY <1>5, <2>1 DEF kind, res, r
  <2>3. PICK i, j \in Numbers(r) : i # j /\ v <= r[i] /\ v <= r[j]
    BY <1>1, <2>2, GasIsBounded DEF v
  <2>4. i \in 1..Len(s) /\ j \in 1..Len(s) /\ r[i] # Err /\ r[j] # Err
    BY <1>1, <2>3 DEF Numbers
  <2>5. s[i] # s[j] /\ s[i] \in Endpoints /\ s[j] \in Endpoints
    BY <1>1, <2>3, <2>4
  <2>6. s[i] \in Honest \/ s[j] \in Honest
    BY <2>5 DEF Configured
  <2> QED BY <1>1, <2>3, <2>4, <2>6
<1>12. BlockNotTooFarBehind'
  <2>1. SUFFICES ASSUME kind = "block"
                 PROVE  /\ v \in RangeOf(r)
                        /\ \A y \in RangeOf(r) \ {Err} : y - v <= MaxBlocksBehind
    BY <1>2, <1>3, <1>9 DEF BlockNotTooFarBehind, Succeeded
  <2>2. res = BlockNumberResolve(r) /\ BlockNumberResolve(r).ok
    BY <1>6, <2>1 DEF kind, res, r
  <2> QED BY <1>1, <2>2, BlockIsRecent DEF v
<1> QED BY <1>9, <1>10, <1>11, <1>12

LEMMA TailNonempty ==
    ASSUME NEW S, NEW q \in Seq(S), Len(q) > 1
    PROVE  Tail(q) \in Seq(S) /\ Tail(q) # << >>
<1>1. Tail(q) \in Seq(S) /\ Len(Tail(q)) = Len(q) - 1 /\ Len(q) \in Nat
  OBVIOUS
<1>2. Len(Tail(q)) # 0
  BY <1>1
<1>3. Len(<< >>) = 0
  OBVIOUS
<1>4. Tail(q) # << >>
  BY <1>2, <1>3, Zenon
<1> QED BY <1>1, <1>4

\* One round of the loop in call.
LEMMA RoundKeeps ==
    ASSUME SplitInd, Configured, Running, NEW s \in Seq(Endpoints), NEW c \in Seq(Endpoints),
           s \o c = rs \o ch, NEW t \in {"armed", "fired", "read"}, NEW wait \in BOOLEAN,
           Round(s, c, t, wait)
    PROVE  SplitInd'
<1> DEFINE res == Resolve(Head(calls), Received(s))
<1>0. SplitTypes /\ expired' = expired
  BY DEF SplitInd, Round
<1>1. ASSUME rs' = s, ch' = c, timer' = t, UNCHANGED <<calls, answer>>,
             rpcResult' = << >> \/ \E x \in [ok : BOOLEAN, val : Nat] : rpcResult' = <<x>>
      PROVE  SplitTypes'
  <2>1. EachOnce(rs \o ch)'
    <3>1. (rs \o ch)' = rs \o ch
      BY <1>1
    <3>2. EachOnce(rs \o ch)
      BY <1>0 DEF SplitTypes, SplitterTypeOK
    <3> DEFINE all == rs \o ch
    <3>3. EachOnce(all) /\ all' = all /\ answer' = answer
      BY <1>1, <3>1, <3>2
    <3> HIDE DEF all
    <3>4. EachOnce(all)'
      BY <3>3 DEF EachOnce, RangeOf
    <3> QED BY <3>4 DEF all
  <2>2. \A r \in RangeOf(rpcResult') : r \in [ok : BOOLEAN, val : Nat]
    BY <1>1 DEF RangeOf
  <2>3. SplitterTypeOK'
    <3>1. \A r \in RangeOf(rpcResult)' : r \in [ok : BOOLEAN, val : Nat]
      BY <2>2 DEF RangeOf
    <3> QED BY <1>0, <1>1, <2>1, <3>1 DEF SplitTypes, SplitterTypeOK
  <2> QED BY <1>1, <2>3 DEF SplitTypes
<1>2. ASSUME rpcResult' = << >> PROVE AgreedByMin' /\ GasNotInflated' /\ BlockNotTooFarBehind'
  BY <1>2 DEF AgreedByMin, GasNotInflated, BlockNotTooFarBehind, Succeeded
<1>3. CASE /\ rs' = s /\ ch' = c /\ timer' = t
           /\ UNCHANGED <<calls, answer, rpcResult>>
  <2>1. rpcResult' = << >>
    BY <1>3 DEF Running
  <2> QED BY <1>1, <1>2, <1>3, <2>1 DEF SplitInd
<1>4. CASE /\ rs' = s /\ ch' = c /\ timer' = t
           /\ rpcResult' = <<Fail>>
           /\ UNCHANGED <<calls, answer>>
  <2>1. Fail \in [ok : BOOLEAN, val : Nat] /\ Fail.ok = FALSE
    BY DEF Fail, Zero
  <2>2. rpcResult'[1] = Fail
    BY <1>4
  <2>3. AgreedByMin' /\ GasNotInflated' /\ BlockNotTooFarBehind'
    BY <2>1, <2>2 DEF AgreedByMin, GasNotInflated, BlockNotTooFarBehind, Succeeded
  <2> QED BY <1>1, <1>4, <2>1, <2>3 DEF SplitInd
<1>5. CASE /\ Len(calls) > 1
           /\ calls' = Tail(calls)
           /\ answer' = Asked
           /\ rs' = << >> /\ ch' = << >> /\ timer' = "armed"
           /\ rpcResult' = rpcResult
  <2>1. calls' \in Seq(Resolvers) /\ calls' # << >>
    <3>1. calls \in Seq(Resolvers) /\ Len(calls) > 1 /\ calls' = Tail(calls)
      BY <1>0, <1>5 DEF SplitTypes, SplitterTypeOK
    <3> QED BY <3>1, TailNonempty
  <2>2. answer' \in [Endpoints -> Values \cup {Err, NoAnswer}] /\ \A e \in Endpoints : answer'[e] = NoAnswer
    BY <1>5 DEF Asked
  <2>3. (rs \o ch)' = << >>
    BY <1>5
  <2>4. RangeOf(<< >>) = {}
    BY DEF RangeOf
  <2>5. rpcResult' = << >>
    BY <1>5 DEF Running
  <2>6. EachOnce(rs \o ch)' /\ \A r \in RangeOf(rpcResult)' : r \in [ok : BOOLEAN, val : Nat]
    BY <2>2, <2>3, <2>5 DEF EachOnce, RangeOf
  <2>8. SplitterTypeOK'
    BY <1>0, <1>5, <2>1, <2>2, <2>6 DEF SplitTypes, SplitterTypeOK
  <2>7. SplitTypes'
    BY <1>5, <2>5, <2>8 DEF SplitTypes
  <2> QED BY <1>2, <2>5, <2>7 DEF SplitInd
<1>6. CASE /\ res.ok
           /\ rs' = s /\ ch' = c /\ timer' = t
           /\ rpcResult' = <<Give(IF res.val = Err THEN Zero ELSE res.val)>>
           /\ UNCHANGED <<calls, answer>>
  <2>1. /\ \E x \in [ok : BOOLEAN, val : Nat] : rpcResult' = <<x>>
        /\ AgreedByMin' /\ GasNotInflated' /\ BlockNotTooFarBehind'
    BY <1>6, SuccessIsSound
  <2> QED BY <1>1, <1>6, <2>1 DEF SplitInd
<1> QED BY <1>3, <1>4, <1>5, <1>6 DEF Round

\* A goroutine sends the answer of its endpoint.
LEMMA AnswerKeeps ==
    ASSUME SplitInd, NEW e \in Endpoints, NEW x \in Values \cup {Err}, Answer(e, x), Values \subseteq Nat
    PROVE  SplitInd'
<1> DEFINE all == rs \o ch
<1>1. /\ SplitTypes /\ answer[e] = NoAnswer /\ x # NoAnswer
      /\ answer' = [answer EXCEPT ![e] = x] /\ ch' = Append(ch, e)
      /\ UNCHANGED <<calls, rs, timer, expired, rpcResult>> /\ rpcResult = << >>
  BY DEF SplitInd, Answer, Running, NoAnswer, Err
<1>2. /\ ch \in Seq(Endpoints) /\ rs \in Seq(Endpoints) /\ ch' \in Seq(Endpoints)
      /\ all \in Seq(Endpoints)
      /\ answer \in [Endpoints -> Values \cup {Err, NoAnswer}]
      /\ RangeOf(all) = {d \in Endpoints : answer[d] # NoAnswer}
      /\ \A i, j \in 1..Len(all) : all[i] = all[j] => i = j
  BY <1>1 DEF SplitTypes, SplitterTypeOK, EachOnce
<1>3. all' = Append(all, e)
  BY <1>1, <1>2
<1> HIDE DEF all
<1>4. RangeOf(all') = RangeOf(all) \cup {e}
  <2>1. /\ Len(all) \in Nat /\ Len(all') = Len(all) + 1 /\ all'[Len(all) + 1] = e
        /\ \A i \in 1..Len(all) : all'[i] = all[i]
    BY <1>2, <1>3
  <2>2. RangeOf(all') = {all'[i] : i \in 1..(Len(all) + 1)}
    BY <2>1 DEF RangeOf
  <2>3. 1..(Len(all) + 1) = (1..Len(all)) \cup {Len(all) + 1}
    BY <2>1
  <2>4. \A d : d \in RangeOf(all') <=> d \in RangeOf(all) \/ d = e
    BY <2>1, <2>2, <2>3 DEF RangeOf
  <2> QED BY <2>4
<1>5. RangeOf(all') = {d \in Endpoints : answer'[d] # NoAnswer}
  BY <1>1, <1>2, <1>4
<1>6. \A i, j \in 1..Len(all') : all'[i] = all'[j] => i = j
  <2>1. e \notin RangeOf(all)
    BY <1>1, <1>2
  <2>2. \A i \in 1..Len(all) : all[i] # e
    BY <2>1 DEF RangeOf
  <2> QED BY <1>2, <1>3, <2>2
<1>7. answer' \in [Endpoints -> Values \cup {Err, NoAnswer}]
  BY <1>1, <1>2
<1>8. SplitterTypeOK'
  <2>1. EachOnce(rs \o ch)'
    BY <1>5, <1>6 DEF EachOnce, RangeOf, all
  <2>2. \A r \in RangeOf(rpcResult)' : r \in [ok : BOOLEAN, val : Nat]
    BY <1>1 DEF RangeOf
  <2> QED BY <1>1, <1>7, <2>1, <2>2 DEF SplitTypes, SplitterTypeOK
<1>9. SplitTypes'
  BY <1>1, <1>2, <1>8 DEF SplitTypes
<1> QED BY <1>1, <1>9 DEF SplitInd, AgreedByMin, GasNotInflated, BlockNotTooFarBehind, Succeeded

LEMMA SplitterStep ==
    ASSUME SplitInd, Configured, SplitterNext
    PROVE  SplitInd'
<1>0. /\ ch \in Seq(Endpoints) /\ rs \in Seq(Endpoints) /\ timer \in {"armed", "fired", "read"}
      /\ Values \subseteq Nat
  BY SplitterConstants DEF SplitInd, SplitTypes, SplitterTypeOK
<1>1. CASE \E e \in Endpoints, x \in Values \cup {Err} : Answer(e, x)
  BY <1>0, <1>1, AnswerKeeps
<1>2. CASE GracefulTimeout \/ TotalTimeout
  <2>1. UNCHANGED <<calls, answer, ch, rs, rpcResult>> /\ rpcResult = << >>
        /\ timer' \in {"armed", "fired", "read"} /\ expired' \in BOOLEAN
    BY <1>0, <1>2 DEF GracefulTimeout, TotalTimeout, Running, SplitInd, SplitTypes, SplitterTypeOK
  <2>2. SplitterTypeOK'
    BY <2>1 DEF SplitInd, SplitTypes, SplitterTypeOK, EachOnce, RangeOf
  <2>3. SplitTypes'
    BY <2>1, <2>2 DEF SplitInd, SplitTypes
  <2> QED BY <2>1, <2>3 DEF SplitInd, AgreedByMin, GasNotInflated, BlockNotTooFarBehind, Succeeded
<1>3. CASE ReceiveAnswer
  <2> DEFINE s == Append(rs, Head(ch))
             w == Len(s) # NumEndpoints
  <2>1. Running /\ ch # << >> /\ Round(s, Tail(ch), timer, w)
    BY <1>3 DEF ReceiveAnswer
  <2>2. s \in Seq(Endpoints) /\ Tail(ch) \in Seq(Endpoints) /\ s \o Tail(ch) = rs \o ch
    BY <1>0, <2>1, MoveHead
  <2>3. w \in BOOLEAN
    OBVIOUS
  <2> HIDE DEF s, w
  <2> QED BY <1>0, <2>1, <2>2, <2>3, RoundKeeps
<1>4. CASE ReceiveTimer
  <2>1. Running /\ Round(rs, ch, "read", FALSE)
    BY <1>4 DEF ReceiveTimer
  <2> QED BY <1>0, <2>1, RoundKeeps
<1> QED BY <1>1, <1>2, <1>3, <1>4 DEF SplitterNext

\* With three endpoints or more, of which at most one is dishonest, every answer of
\* the splitter is sound, in whatever order answers, errors and the two timeouts
\* come: enough endpoints agree on it, the gas price is at most what an honest
\* endpoint said, the block number is one of those reported and not too far behind.
THEOREM SplitterAnswersSound ==
    ASSUME NumEndpoints >= 3, \A a, b \in Endpoints \ Honest : a = b
    PROVE  SplitterSpec => []AnswersAreSound
<1>0. Configured
  BY DEF Configured
<1>1. SplitterInit => SplitInd
  <2>1. SUFFICES ASSUME SplitterInit PROVE SplitInd
    OBVIOUS
  <2>2. calls \in Seq(Resolvers) /\ calls # << >>
    BY <2>1, CallsTyped DEF SplitterInit
  <2>3. answer \in [Endpoints -> Values \cup {Err, NoAnswer}] /\ \A e \in Endpoints : answer[e] = NoAnswer
    BY <2>1 DEF SplitterInit, Asked
  <2>4. ch = << >> /\ rs = << >> /\ rpcResult = << >> /\ rs \o ch = << >> /\ RangeOf(<< >>) = {}
    BY <2>1 DEF SplitterInit, RangeOf
  <2>5. SplitterTypeOK
    <3>1. EachOnce(rs \o ch) /\ RangeOf(rpcResult) = {}
      BY <2>3, <2>4 DEF EachOnce
    <3> QED BY <2>1, <2>2, <2>3, <3>1 DEF SplitterInit, SplitterTypeOK
  <2> QED BY <2>4, <2>5
        DEF SplitInd, SplitTypes, AgreedByMin, GasNotInflated, BlockNotTooFarBehind, Succeeded
<1>2. SplitInd /\ [SplitterNext]_splitterVars => SplitInd'
  <2>1. ASSUME SplitInd, UNCHANGED splitterVars PROVE SplitInd'
    <3>1. UNCHANGED <<calls, answer, ch, rs, timer, expired, rpcResult>>
      BY <2>1 DEF splitterVars
    <3>2. SplitterTypeOK'
      <4>1. SplitterTypeOK
        BY <2>1 DEF SplitInd, SplitTypes
      <4> DEFINE all == rs \o ch
      <4>2. EachOnce(all)'
        <5>1. all' = all /\ answer' = answer
          BY <3>1
        <5>2. EachOnce(all)
          BY <4>1 DEF SplitterTypeOK
        <5> HIDE DEF all
        <5> QED BY <5>1, <5>2 DEF EachOnce, RangeOf
      <4>3. \A r \in RangeOf(rpcResult)' : r \in [ok : BOOLEAN, val : Nat]
        BY <3>1, <4>1 DEF SplitterTypeOK
      <4> QED BY <3>1, <4>1, <4>2, <4>3 DEF SplitterTypeOK
    <3>3. SplitTypes'
      BY <2>1, <3>1, <3>2 DEF SplitInd, SplitTypes
    <3>4. AgreedByMin' /\ GasNotInflated' /\ BlockNotTooFarBehind'
      <4> DEFINE r == Received(rs)
      <4>1. r' = r
        BY <3>1 DEF Received
      <4> HIDE DEF r
      <4>2. AgreedByMin'
        BY <2>1, <3>1, <4>1 DEF SplitInd, AgreedByMin, Succeeded, r
      <4>3. GasNotInflated'
        BY <2>1, <3>1 DEF SplitInd, GasNotInflated, Succeeded
      <4>4. BlockNotTooFarBehind'
        BY <2>1, <3>1, <4>1 DEF SplitInd, BlockNotTooFarBehind, Succeeded, r
      <4> QED BY <4>2, <4>3, <4>4
    <3> QED BY <3>3, <3>4 DEF SplitInd
  <2> QED BY <1>0, <2>1, SplitterStep
<1>3. SplitInd => AnswersAreSound
  BY DEF SplitInd, SplitTypes, AnswersAreSound
<1> QED BY <1>1, <1>2, <1>3, PTL DEF SplitterSpec

-----------------------------------------------------------------------------
(* MetricsLog: sums are conserved *)

Dups == {"replace", "sum", "min", "max"}
Value == [v : Nat \cup {NaN}, dup : Dups, late : BOOLEAN]

\* A map of points, in the logger or in a batch.
Points(f) ==
    /\ IsFiniteSet(DOMAIN f) /\ f \in [DOMAIN f -> Nat \cup {NaN}]
    /\ \A k \in DOMAIN f : k[1] \in SummedNames => f[k] # NaN

\* Who is where.
Places == {"new", "idle", "collect", "push", "send", "hung", "panic", "wait", "closed"}
LoggerControl ==
    /\ at \in [Actors -> Places] /\ entry \in [Threads -> Entries \cup {NoEntry}]
    /\ \A t \in Threads : at[t] = "collect" => entry[t] \in Entries
    /\ mapMu \in Actors \cup {NoOne} /\ (mapMu # NoOne => at[mapMu] \in {"collect", "push"})
    /\ nextMetric \in 1..(Len(Metrics) + 1)
    /\ final \in BOOLEAN /\ logCancelled \in BOOLEAN /\ logTime \in Nat

\* The points, those that are sent, and the values they stand for.
LoggerPoints ==
    /\ Points(metricPoints)
    /\ batch \in [Actors -> {batch[a] : a \in Actors}]
    /\ \A a \in Actors : Points(batch[a]) /\ (batch[a] # NoPoints) = (at[a] \in {"send", "hung"})
    /\ DOMAIN since = DOMAIN metricPoints
    /\ since \in [DOMAIN since -> Seq(Value)] /\ \A k \in DOMAIN since : since[k] # <<>>
    /\ collected \in [Names -> Nat] /\ received \in [Names -> Nat] /\ lost \in [Names -> Nat]

\* From the last push on, nothing is put into the map but what is late.
LoggerFlushed ==
    /\ final => logCancelled
    /\ at[Routine] = "closed" => final
    /\ final /\ at[Routine] \in {"send", "hung", "closed"} =>
         \A k \in DOMAIN since : \A i \in 1..Len(since[k]) : since[k][i].late

LoggerInd == LoggerControl /\ LoggerPoints /\ LoggerFlushed /\ PointIsAggregate /\ SumsConserved

LEMMA MetricsCounted == Len(Metrics) \in Nat
<1> DEFINE R == [dup : {"", "replace", "sum", "min", "max"}, scale : Nat, counts : BOOLEAN]
<1>1. Metrics \in Seq(R)
  BY MetricsAssumption
<1> HIDE DEF R
<1> QED BY <1>1

\* What a metric makes of an entry is a number or NaN, under a name of its own.
LEMMA ValuesTyped ==
    ASSUME NEW e \in Entries, NEW i \in 1..Len(Metrics), Yields(i, e.fields[i])
    PROVE  /\ PointValue(i, e.fields[i]) \in Nat \cup {NaN}
           /\ OnDuplicate(i) \in Dups
           /\ e.fields[i].name \in Names
<1> DEFINE x == e.fields[i]
           m == Metrics[i]
<1>1. x \in Found
  <2>1. e \in [level : Nat, panics : BOOLEAN, fields : [1..Len(Metrics) -> Found]]
    BY MetricsAssumption
  <2>2. e.fields \in [1..Len(Metrics) -> Found]
    BY <2>1
  <2> QED BY <2>2
<1>2. m \in [dup : {"", "replace", "sum", "min", "max"}, scale : Nat, counts : BOOLEAN]
  <2> DEFINE R == [dup : {"", "replace", "sum", "min", "max"}, scale : Nat, counts : BOOLEAN]
  <2>1. Metrics \in Seq(R)
    BY MetricsAssumption
  <2> HIDE DEF R
  <2>2. m \in R
    BY <2>1
  <2> QED BY <2>2 DEF R
<1>3. OnDuplicate(i) \in Dups
  BY <1>2 DEF OnDuplicate, Dups
<1>4. x.name \in Names
  BY DEF Names, Yields, Named
<1>5. NumberOf(i, x) \in Nat \cup {NaN}
  <2>1. x.value \in Nat \cup {NoField, NaN}
    BY <1>1 DEF Found
  <2>2. NumberOf(i, x) = 1 \/ NumberOf(i, x) = x.value
    BY DEF NumberOf
  <2>3. NumberOf(i, x) # NoField
    BY DEF Yields
  <2> QED BY <2>1, <2>2, <2>3
<1>6. PointValue(i, x) \in Nat \cup {NaN}
  <2> DEFINE w == NumberOf(i, x)
  <2>1. m.scale \in Nat
    BY <1>2
  <2>2. PointValue(i, x) = w \/ (PointValue(i, x) = w * m.scale /\ w # NaN)
    BY DEF PointValue, scalingFunc
  <2>3. CASE PointValue(i, x) = w
    BY <1>5, <2>3
  <2>4. CASE PointValue(i, x) = w * m.scale /\ w # NaN
    <3>1. w \in Nat
      BY <1>5, <2>4
    <3> HIDE DEF w, m
    <3>2. w * m.scale \in Nat
      BY <2>1, <3>1
    <3> QED BY <2>4, <3>2
  <2> QED BY <2>2, <2>3, <2>4
<1> QED BY <1>3, <1>4, <1>6

\* g is the map f after a point.
Added(f, g, dup, k, v) ==
    /\ Points(g) /\ DOMAIN g = DOMAIN f \cup {k}
    /\ \A j \in DOMAIN f : j # k => g[j] = f[j]
    /\ k \notin DOMAIN f \/ dup = "replace" => g[k] = v
    /\ k \in DOMAIN f /\ dup = "sum" => g[k] = Add(v, f[k])
    /\ k \in DOMAIN f /\ dup = "min" => g[k] = IF Less(v, f[k]) THEN v ELSE f[k]
    /\ k \in DOMAIN f /\ dup = "max" => g[k] = IF Less(f[k], v) THEN v ELSE f[k]

\* addMetricPoint changes one point.
LEMMA PointAdded ==
    ASSUME NEW f, Points(f), NEW k, NEW v \in Nat \cup {NaN}, NEW dup \in Dups,
           k[1] \in SummedNames => dup = "sum" /\ v # NaN
    PROVE  Added(f, addMetricPoint(dup, f, k, v), dup, k, v)
<1> DEFINE g == addMetricPoint(dup, f, k, v)
           W(w) == With(f, k, w)
<1>1. /\ IsFiniteSet(DOMAIN f) /\ f \in [DOMAIN f -> Nat \cup {NaN}]
      /\ \A j \in DOMAIN f : j[1] \in SummedNames => f[j] # NaN
  BY DEF Points
<1>2. ASSUME NEW w PROVE /\ DOMAIN W(w) = DOMAIN f \cup {k} /\ W(w)[k] = w
                         /\ \A j \in DOMAIN f : j # k => W(w)[j] = f[j]
                         /\ W(w) \in [DOMAIN f \cup {k} -> {W(w)[j] : j \in DOMAIN f \cup {k}}]
  BY DEF With
<1>3. IsFiniteSet(DOMAIN f \cup {k})
  BY <1>1, FS_AddElement
<1>4. /\ DOMAIN g = DOMAIN f \cup {k}
      /\ \A j \in DOMAIN f : j # k => g[j] = f[j]
      /\ g \in [DOMAIN g -> {g[j] : j \in DOMAIN g}]
      /\ k \notin DOMAIN f \/ dup = "replace" => g[k] = v
      /\ k \in DOMAIN f /\ dup = "sum" => g[k] = Add(v, f[k])
      /\ k \in DOMAIN f /\ dup = "min" => g[k] = IF Less(v, f[k]) THEN v ELSE f[k]
      /\ k \in DOMAIN f /\ dup = "max" => g[k] = IF Less(f[k], v) THEN v ELSE f[k]
  <2>1. CASE k \notin DOMAIN f \/ dup = "replace"
    <3>1. g = W(v)
      BY <2>1 DEF addMetricPoint
    <3> HIDE DEF g, W
    <3> QED BY <1>2, <2>1, <3>1 DEF Dups
  <2>2. CASE k \in DOMAIN f /\ dup # "replace"
    <3>1. dup = "sum" => g = W(Add(v, f[k]))
      BY <2>2 DEF addMetricPoint
    <3>2. dup = "min" => g = IF Less(v, f[k]) THEN W(v) ELSE f
      BY <2>2 DEF addMetricPoint
    <3>3. dup = "max" => g = IF Less(f[k], v) THEN W(v) ELSE f
      BY <2>2 DEF addMetricPoint
    <3>4. DOMAIN f = DOMAIN f \cup {k} /\ f \in [DOMAIN f -> {f[j] : j \in DOMAIN f}]
      BY <1>1, <2>2
    <3> HIDE DEF g, W
    <3>5. CASE dup = "sum"
      BY <1>2, <2>2, <3>1, <3>5
    <3>6. CASE dup = "min"
      BY <1>2, <2>2, <3>2, <3>4, <3>6
    <3>7. CASE dup = "max"
      BY <1>2, <2>2, <3>3, <3>4, <3>7
    <3> QED BY <2>2, <3>5, <3>6, <3>7 DEF Dups
  <2> QED BY <2>1, <2>2
<1> HIDE DEF g, W
<1>5. k \in DOMAIN f => Add(v, f[k]) \in Nat \cup {NaN} /\ f[k] \in Nat \cup {NaN}
  <2> SUFFICES ASSUME k \in DOMAIN f PROVE Add(v, f[k]) \in Nat \cup {NaN} /\ f[k] \in Nat \cup {NaN}
    OBVIOUS
  <2>1. f[k] \in Nat \cup {NaN}
    BY <1>1
  <2> QED BY <2>1 DEF Add
<1>6. g[k] \in Nat \cup {NaN}
  BY <1>4, <1>5 DEF Dups
<1>7. k[1] \in SummedNames => g[k] # NaN
  <2> SUFFICES ASSUME k[1] \in SummedNames PROVE g[k] # NaN
    OBVIOUS
  <2>1. CASE k \in DOMAIN f
    <3>1. f[k] # NaN /\ v # NaN /\ f[k] \in Nat /\ v \in Nat /\ dup = "sum"
      BY <1>1, <2>1
    <3>2. g[k] = v + f[k]
      BY <1>4, <2>1, <3>1 DEF Add
    <3> QED BY <3>1, <3>2 DEF NaN
  <2> QED BY <1>4, <2>1
<1>8. \A j \in DOMAIN g : g[j] \in Nat \cup {NaN}
  BY <1>1, <1>4, <1>6
<1>9. Points(g)
  <2>1. IsFiniteSet(DOMAIN g)
    BY <1>3, <1>4
  <2>2. g \in [DOMAIN g -> Nat \cup {NaN}]
    BY <1>4, <1>8
  <2>3. \A j \in DOMAIN g : j[1] \in SummedNames => g[j] # NaN
    BY <1>1, <1>4, <1>7
  <2> QED BY <2>1, <2>2, <2>3 DEF Points
<1>10. Added(f, g, dup, k, v)
  BY <1>4, <1>9 DEF Added
<1> QED BY <1>10 DEF g

\* The points of a name that are numbers.
Under(f, n) == {k \in DOMAIN f : k[1] = n /\ f[k] # NaN}

\* The sum of the points of a name is a number.
LEMMA SumOfTyped ==
    ASSUME NEW f, Points(f), NEW n
    PROVE  /\ IsFiniteSet(Under(f, n)) /\ (\A k \in Under(f, n) : f[k] \in Nat)
           /\ SumOf(f, n) \in Nat /\ SumOf(f, n) = SumOver(f, Under(f, n))
<1> DEFINE S == {k \in DOMAIN f : k[1] = n /\ f[k] # NaN}
<1>1. IsFiniteSet(DOMAIN f) /\ f \in [DOMAIN f -> Nat \cup {NaN}]
  BY DEF Points
<1>2. IsFiniteSet(S)
  <2>1. S \subseteq DOMAIN f
    OBVIOUS
  <2> HIDE DEF S
  <2> QED BY <1>1, <2>1, FS_Subset
<1>3. \A k \in S : f[k] \in Nat
  BY <1>1
<1>4. SumOf(f, n) = SumOver(f, S)
  BY DEF SumOf
<1> HIDE DEF S
<1>5. SumOver(f, S) \in Nat
  BY <1>2, <1>3, UnitsCounted
<1> QED BY <1>2, <1>3, <1>4, <1>5 DEF S, Under

\* An empty map sums to nothing.
LEMMA SumOfNone ==
    ASSUME NEW n
    PROVE  Points(NoPoints) /\ SumOf(NoPoints, n) = 0
<1> DEFINE f == NoPoints
           S == {k \in DOMAIN f : k[1] = n /\ f[k] # NaN}
<1>1. DOMAIN f = {} /\ S = {}
  BY DEF NoPoints
<1>2. f \in [DOMAIN f -> Nat \cup {NaN}]
  BY <1>1 DEF NoPoints
<1>3. Points(f)
  BY <1>1, <1>2, FS_EmptySet DEF Points
<1>4. SumOf(f, n) = SumOver(f, {})
  BY <1>1 DEF SumOf
<1>5. Units(f, {}) = {}
  BY DEF Units
<1>6. Units([x \in {} |-> -f[x]], {}) = {}
  BY DEF Units
<1>7. Cardinality({}) = 0
  BY FS_EmptySet
<1>8. SumOver(f, {}) = 0
  <2> DEFINE negative == Units([x \in {} |-> -f[x]], {})
  <2>1. SumOver(f, {}) = Cardinality(Units(f, {})) - Cardinality(negative)
    BY DEF SumOver
  <2>2. negative = {}
    BY <1>6
  <2> HIDE DEF negative
  <2> QED BY <1>5, <1>7, <2>1, <2>2
<1> QED BY <1>3, <1>4, <1>8

\* What addMetricPoint does to the sums of the names that are only summed.
LEMMA SumOfAdded ==
    ASSUME NEW f, Points(f), NEW k, NEW v \in Nat \cup {NaN}, NEW dup \in Dups,
           k[1] \in SummedNames => dup = "sum" /\ v # NaN,
           NEW n \in SummedNames
    PROVE  SumOf(addMetricPoint(dup, f, k, v), n) = SumOf(f, n) + (IF k[1] = n THEN v ELSE 0)
<1> DEFINE g == addMetricPoint(dup, f, k, v)
           S == Under(f, n)
           T == Under(g, n)
<1>1. /\ Points(g) /\ DOMAIN g = DOMAIN f \cup {k}
      /\ \A j \in DOMAIN f : j # k => g[j] = f[j]
      /\ k \notin DOMAIN f => g[k] = v
      /\ k \in DOMAIN f /\ dup = "sum" => g[k] = Add(v, f[k])
  <2>1. Added(f, g, dup, k, v)
    BY PointAdded
  <2> HIDE DEF g
  <2> QED BY <2>1 DEF Added
<1> HIDE DEF g
<1>2. /\ IsFiniteSet(S) /\ (\A j \in S : f[j] \in Nat) /\ SumOf(f, n) \in Nat
      /\ IsFiniteSet(T) /\ (\A j \in T : g[j] \in Nat)
  BY <1>1, SumOfTyped
<1>3. SumOf(f, n) = SumOver(f, S) /\ SumOf(g, n) = SumOver(g, T)
  BY <1>1, SumOfTyped
<1>4. CASE k[1] # n
  <2>1. S = T /\ \A j \in T : f[j] = g[j]
    BY <1>1, <1>4 DEF Under
  <2> HIDE DEF S, T
  <2>2. SumOver(f, T) = SumOver(g, T)
    BY <2>1, SumOfEqual
  <2> QED BY <1>2, <1>3, <1>4, <2>1, <2>2 DEF g
<1>5. CASE k[1] = n /\ k \in DOMAIN f
  <2>1. dup = "sum" /\ v \in Nat /\ f[k] # NaN
    BY <1>5 DEF Points
  <2>2. k \in S
    BY <1>5, <2>1 DEF Under
  <2>3. f[k] \in Nat
    BY <1>2, <2>2
  <2>4. g[k] = v + f[k]
    BY <1>1, <1>5, <2>1, <2>3 DEF Add, NaN
  <2>5. g[k] # NaN
    BY <2>1, <2>3, <2>4 DEF NaN
  <2>6. S = T /\ \A j \in T \ {k} : f[j] = g[j]
    BY <1>1, <1>5, <2>1, <2>5 DEF Under
  <2>7. \A j \in T : f[j] \in Nat /\ g[j] \in Nat
    BY <1>2, <2>6
  <2> HIDE DEF S, T
  <2>8. SumOver(g, T) = SumOver(f, T) - f[k] + g[k]
    BY <1>2, <2>2, <2>6, <2>7, SumChangesBy
  <2>9. SumOver(f, T) \in Nat
    BY <1>2, <1>3, <2>6
  <2> QED BY <1>3, <1>5, <2>1, <2>3, <2>4, <2>6, <2>8, <2>9 DEF g
<1>6. CASE k[1] = n /\ k \notin DOMAIN f
  <2>1. v \in Nat /\ g[k] = v /\ v # NaN
    BY <1>1, <1>6
  <2>2. k \in T /\ S = T \ {k} /\ \A j \in S : f[j] = g[j]
    BY <1>1, <1>6, <2>1 DEF Under
  <2> HIDE DEF S, T
  <2>3. SumOver(g, T) = SumOver(g, T \ {k}) + g[k]
    BY <1>2, <2>2, SumTakesOut
  <2>4. SumOver(f, S) = SumOver(g, S)
    BY <2>2, SumOfEqual
  <2> QED BY <1>2, <1>3, <1>6, <2>1, <2>2, <2>3, <2>4 DEF g
<1> QED BY <1>4, <1>5, <1>6

\* A value more, and a point that addMetricPoint made of it.
LEMMA AggregateAppended ==
    ASSUME NEW s \in Seq(Value), NEW x \in Value, NEW w, NEW g,
           s # <<>> => IsAggregate(s, w),
           s = <<>> \/ x.dup = "replace" => g = x.v,
           s # <<>> /\ x.dup = "min" => g = IF Less(x.v, w) THEN x.v ELSE w,
           s # <<>> /\ x.dup = "max" => g = IF Less(w, x.v) THEN x.v ELSE w
    PROVE  IsAggregate(Append(s, x), g)
<1> DEFINE r == Append(s, x)
           V == {s[i].v : i \in 1..Len(s)}
           W == {r[i].v : i \in 1..Len(r)}
<1>1. /\ Len(r) = Len(s) + 1 /\ r[Len(s) + 1] = x /\ Len(s) \in Nat
      /\ \A i \in 1..Len(s) : r[i] = s[i]
  OBVIOUS
<1>2. W = V \cup {x.v}
  BY <1>1
<1>3. SUFFICES ASSUME NaN \notin W, \A i \in 1..Len(r) : r[i].dup = r[1].dup
               PROVE  /\ r[1].dup = "replace" => g = r[Len(r)].v
                      /\ r[1].dup = "max" => g \in W /\ \A y \in W : y <= g
                      /\ r[1].dup = "min" => g \in W /\ \A y \in W : g <= y
  BY DEF IsAggregate
<1>4. x.dup = r[1].dup
  BY <1>1, <1>3
<1>5. x.v \in Nat
  BY <1>2, <1>3 DEF Value
<1>6. CASE s = <<>>
  <2>1. V = {} /\ g = x.v
    BY <1>6
  <2> QED BY <1>1, <1>2, <1>5, <1>6, <2>1
<1>7. CASE s # <<>>
  <2>1. Len(s) >= 1 /\ r[1] = s[1]
    BY <1>1, <1>7
  <2>2. NaN \notin V /\ \A i \in 1..Len(s) : s[i].dup = s[1].dup
    BY <1>1, <1>2, <1>3, <2>1
  <2>3. /\ s[1].dup = "max" => w \in V /\ \A y \in V : y <= w
        /\ s[1].dup = "min" => w \in V /\ \A y \in V : w <= y
    BY <1>7, <2>2 DEF IsAggregate
  <2>4. \A y \in V : y \in Nat
    <3>1. \A i \in 1..Len(s) : s[i] \in Value
      OBVIOUS
    <3> QED BY <2>2, <3>1 DEF Value
  <2> HIDE DEF V, W, r
  <2>5. CASE x.dup = "max"
    <3>1. w \in V /\ w \in Nat /\ \A y \in V : y <= w
      BY <1>4, <2>1, <2>3, <2>4, <2>5
    <3>2. g = IF w < x.v THEN x.v ELSE w
      BY <1>5, <1>7, <2>5, <3>1 DEF Less, NaN
    <3> QED BY <1>2, <1>4, <1>5, <2>4, <2>5, <3>1, <3>2
  <2>6. CASE x.dup = "min"
    <3>1. w \in V /\ w \in Nat /\ \A y \in V : w <= y
      BY <1>4, <2>1, <2>3, <2>4, <2>6
    <3>2. g = IF x.v < w THEN x.v ELSE w
      BY <1>5, <1>7, <2>6, <3>1 DEF Less, NaN
    <3> QED BY <1>2, <1>4, <1>5, <2>4, <2>6, <3>1, <3>2
  <2> QED BY <1>1, <1>4, <2>5, <2>6
<1> QED BY <1>6, <1>7

\* What is on its way, of a name.
Sent(b, n) == SumOver([a \in Actors |-> SumOf(b[a], n)], Actors)

\* One batch changes.
Changed(b, c, d) ==
    /\ \A a \in Actors : Points(b[a]) /\ Points(c[a])
    /\ \A a \in Actors \ {d} : c[a] = b[a]

LEMMA SentChanges ==
    ASSUME NEW b, NEW c, NEW d \in Actors, NEW n, Changed(b, c, d)
    PROVE  /\ Sent(b, n) \in Nat
           /\ Sent(c, n) = Sent(b, n) - SumOf(b[d], n) + SumOf(c[d], n)
<1> DEFINE f == [a \in Actors |-> SumOf(b[a], n)]
           g == [a \in Actors |-> SumOf(c[a], n)]
<1>1. IsFiniteSet(Actors)
  <2>1. IsFiniteSet(Threads)
    BY MetricsAssumption
  <2> QED BY <2>1, FS_AddElement DEF Actors
<1>2. \A a \in Actors : f[a] = SumOf(b[a], n) /\ g[a] = SumOf(c[a], n)
  OBVIOUS
<1>3. \A a \in Actors : SumOf(b[a], n) \in Nat /\ SumOf(c[a], n) \in Nat
  BY SumOfTyped DEF Changed
<1>4. \A a \in Actors \ {d} : f[a] = g[a]
  BY <1>2 DEF Changed
<1>5. Sent(b, n) = SumOver(f, Actors) /\ Sent(c, n) = SumOver(g, Actors)
  BY DEF Sent
<1> HIDE DEF f, g
<1>6. SumOver(f, Actors) \in Nat
  BY <1>1, <1>2, <1>3, UnitsCounted
<1>7. SumOver(g, Actors) = SumOver(f, Actors) - f[d] + g[d]
  BY <1>1, <1>2, <1>3, <1>4, SumChangesBy
<1> QED BY <1>2, <1>5, <1>6, <1>7

\* What is no matter of the points: who is where, and what has been flushed.
LEMMA QuietKeeps ==
    ASSUME LoggerInd, UNCHANGED <<metricPoints, since, batch, ledger>>,
           LoggerControl', LoggerFlushed',
           \A a \in Actors : (at'[a] \in {"send", "hung"}) = (at[a] \in {"send", "hung"})
    PROVE  LoggerInd'
<1>1. UNCHANGED <<metricPoints, since, batch, collected, received, lost>>
  BY DEF ledger
<1>2. LoggerPoints'
  BY <1>1 DEF LoggerInd, LoggerPoints, Points
<1>3. PointIsAggregate'
  BY <1>1 DEF LoggerInd, PointIsAggregate, IsAggregate
<1>4. SumsConserved'
  BY <1>1 DEF LoggerInd, SumsConserved
<1> QED BY <1>2, <1>3, <1>4 DEF LoggerInd

\* The steps of a thread that make no point.
LEMMA ThreadQuiet ==
    ASSUME LoggerInd, NEW t \in Threads,
           \/ \E e \in Entries : Log(t, e)
           \/ CollectEnd(t) \/ PanicEnds(t)
    PROVE  LoggerInd'
<1>1. t \in Actors /\ t # Routine
  BY MetricsAssumption DEF Actors, Routine
<1>2. UNCHANGED <<metricPoints, since, batch, ledger, final, logCancelled, logTime>>
  BY DEF Log, CollectEnd, PanicEnds
<1>3. LoggerControl
  BY DEF LoggerInd
<1>4. at' = at \/ \E w \in {"collect", "push", "idle"} : at' = [at EXCEPT ![t] = w]
  BY DEF Log, CollectEnd, PanicEnds
<1>5. at[t] \notin {"send", "hung"}
  BY DEF Log, CollectEnd, PanicEnds
<1>6. at' \in [Actors -> Places] /\ at'[Routine] = at[Routine]
  <2>1. at \in [Actors -> Places] /\ Routine \in Actors
    BY <1>3 DEF LoggerControl, Actors
  <2>2. ASSUME NEW w \in {"collect", "push", "idle"}, at' = [at EXCEPT ![t] = w]
        PROVE  at' \in [Actors -> Places] /\ at'[Routine] = at[Routine]
    BY <1>1, <2>1, <2>2 DEF Places
  <2> QED BY <1>4, <2>1, <2>2
<1>7. \A a \in Actors : (at'[a] \in {"send", "hung"}) = (at[a] \in {"send", "hung"})
  BY <1>1, <1>3, <1>4, <1>5 DEF LoggerControl
<1>8. LoggerFlushed'
  <2>1. LoggerFlushed /\ UNCHANGED <<since, final, logCancelled>>
    BY <1>2 DEF LoggerInd
  <2> QED BY <1>6, <2>1 DEF LoggerFlushed
<1>9. LoggerControl'
  <2>1. CASE \E e \in Entries : Log(t, e)
    <3>1. PICK e \in Entries : Log(t, e)
      BY <2>1
    <3>2. at' = [at EXCEPT ![t] = "collect"] /\ entry' = [entry EXCEPT ![t] = e] /\ at[t] = "idle"
      BY <3>1 DEF Log
    <3>3. UNCHANGED <<mapMu, nextMetric>>
      BY <3>1 DEF Log
    <3>4. entry' \in [Threads -> Entries \cup {NoEntry}]
      BY <1>3, <3>2 DEF LoggerControl
    <3>5. \A u \in Threads : at'[u] = "collect" => entry'[u] \in Entries
      BY <1>3, <3>2 DEF LoggerControl, Actors
    <3>6. mapMu # NoOne => at'[mapMu] \in {"collect", "push"}
      BY <1>1, <1>3, <3>2 DEF LoggerControl
    <3> QED BY <1>2, <1>3, <1>6, <3>3, <3>4, <3>5, <3>6 DEF LoggerControl
  <2>2. CASE CollectEnd(t)
    <3>1. mapMu' = NoOne /\ nextMetric' = 1 /\ UNCHANGED entry /\ NoOne \in Actors \cup {NoOne}
      BY <2>2 DEF CollectEnd
    <3>2. \E w \in {"push", "idle"} : at' = [at EXCEPT ![t] = w]
      BY <2>2 DEF CollectEnd
    <3>3. \A u \in Threads : at'[u] = "collect" => entry'[u] \in Entries
      BY <1>1, <1>3, <3>1, <3>2 DEF LoggerControl, Actors
    <3>4. nextMetric' \in 1..(Len(Metrics) + 1)
      BY <1>3, <3>1 DEF LoggerControl
    <3> QED BY <1>2, <1>3, <1>6, <3>1, <3>3, <3>4 DEF LoggerControl
  <2>3. CASE PanicEnds(t)
    <3>1. UNCHANGED <<entry, mapMu, nextMetric>> /\ at[t] = "panic"
      BY <2>3 DEF PanicEnds
    <3>2. at' = at \/ at' = [at EXCEPT ![t] = "idle"]
      BY <2>3 DEF PanicEnds
    <3>3. \A u \in Threads : at'[u] = "collect" => entry'[u] \in Entries
      BY <1>1, <1>3, <3>1, <3>2 DEF LoggerControl, Actors
    <3>4. mapMu # NoOne => at'[mapMu] \in {"collect", "push"}
      BY <1>1, <1>3, <3>1, <3>2 DEF LoggerControl
    <3> QED BY <1>2, <1>3, <1>6, <3>1, <3>3, <3>4 DEF LoggerControl
  <2> QED BY <2>1, <2>2, <2>3
<1> QED BY <1>2, <1>7, <1>8, <1>9, QuietKeeps

\* The steps of the routine, of requests and of the clock that move no point.
LEMMA OthersQuiet ==
    ASSUME LoggerInd,
           \/ \E a \in Actors : Lock(a) \/ Hang(a)
           \/ StartLogger \/ PushTick \/ PushDone \/ CancelLog \/ LogTimePasses
    PROVE  LoggerInd'
<1>1. UNCHANGED <<metricPoints, since, batch, ledger>>
  BY DEF Lock, Hang, StartLogger, PushTick, PushDone, CancelLog, LogTimePasses
<1>2. /\ LoggerControl /\ at \in [Actors -> Places] /\ LoggerFlushed
      /\ Routine \in Actors /\ Routine \notin Threads /\ NoOne \notin Actors
  <2>1. LoggerControl /\ at \in [Actors -> Places] /\ LoggerFlushed
    BY DEF LoggerInd, LoggerControl
  <2>2. Threads \subseteq Nat \ {0}
    BY MetricsAssumption
  <2> QED BY <2>1, <2>2 DEF Actors, Routine, NoOne
<1>3. UNCHANGED since
  BY <1>1
<1>4. ASSUME NEW a \in Actors, Lock(a) PROVE LoggerInd'
  <2>1. /\ mapMu' = a /\ at[a] \in {"collect", "push"}
        /\ UNCHANGED <<at, entry, nextMetric, final, logCancelled, logTime>>
    BY <1>4 DEF Lock
  <2>2. LoggerControl'
    BY <1>2, <2>1 DEF LoggerControl
  <2>3. LoggerFlushed'
    BY <1>2, <1>3, <2>1 DEF LoggerFlushed
  <2>4. \A b \in Actors : (at'[b] \in {"send", "hung"}) = (at[b] \in {"send", "hung"})
    BY <2>1
  <2> QED BY <1>1, <2>2, <2>3, <2>4, QuietKeeps
<1>5. ASSUME NEW a \in Actors, Hang(a) PROVE LoggerInd'
  <2>1. /\ at' = [at EXCEPT ![a] = "hung"] /\ at[a] = "send"
        /\ UNCHANGED <<mapMu, entry, nextMetric, final, logCancelled, logTime>>
    BY <1>5 DEF Hang
  <2>2. at' \in [Actors -> Places] /\ \A b \in Actors : at'[b] = at[b] \/ (at[b] = "send" /\ at'[b] = "hung")
    BY <1>2, <2>1 DEF Places
  <2>3. LoggerControl'
    <3>1. \A u \in Threads : at'[u] = "collect" => entry'[u] \in Entries
      BY <1>2, <2>1, <2>2 DEF LoggerControl, Actors
    <3>2. mapMu # NoOne => at'[mapMu] \in {"collect", "push"}
      BY <1>2, <2>1, <2>2 DEF LoggerControl
    <3> QED BY <1>2, <2>1, <2>2, <3>1, <3>2 DEF LoggerControl
  <2>4. LoggerFlushed'
    BY <1>2, <1>3, <2>1, <2>2 DEF LoggerFlushed
  <2>5. \A b \in Actors : (at'[b] \in {"send", "hung"}) = (at[b] \in {"send", "hung"})
    BY <2>2
  <2> QED BY <1>1, <2>3, <2>4, <2>5, QuietKeeps
<1>6. CASE StartLogger \/ PushTick \/ PushDone
  <2>1. /\ \E w \in {"wait", "push"} : at' = [at EXCEPT ![Routine] = w]
        /\ at[Routine] \in {"new", "wait"}
        /\ UNCHANGED <<mapMu, entry, nextMetric, logCancelled, logTime>>
        /\ final' = final \/ (final' = TRUE /\ logCancelled)
    BY <1>6 DEF StartLogger, PushTick, PushDone
  <2>2. PICK w \in {"wait", "push"} : at' = [at EXCEPT ![Routine] = w]
    BY <2>1
  <2>3. /\ at' \in [Actors -> Places] /\ at'[Routine] \in {"wait", "push"}
        /\ \A b \in Actors \ {Routine} : at'[b] = at[b]
    BY <1>2, <2>2 DEF Places
  <2>4. LoggerControl'
    <3>1. \A u \in Threads : at'[u] = "collect" => entry'[u] \in Entries
      BY <1>2, <2>1, <2>3 DEF LoggerControl, Actors
    <3>2. mapMu # NoOne => at'[mapMu] \in {"collect", "push"}
      BY <1>2, <2>1, <2>3 DEF LoggerControl
    <3> QED BY <1>2, <2>1, <2>3, <3>1, <3>2 DEF LoggerControl
  <2>5. LoggerFlushed'
    BY <1>2, <1>3, <2>1, <2>3 DEF LoggerFlushed
  <2>6. \A b \in Actors : (at'[b] \in {"send", "hung"}) = (at[b] \in {"send", "hung"})
    BY <2>1, <2>3
  <2> QED BY <1>1, <2>4, <2>5, <2>6, QuietKeeps
<1>7. CASE CancelLog \/ LogTimePasses
  <2>1. /\ UNCHANGED <<at, mapMu, entry, nextMetric, final>>
        /\ logCancelled' = logCancelled \/ logCancelled' = TRUE
        /\ logTime' = logTime \/ logTime' = logTime + 1
    BY <1>7 DEF CancelLog, LogTimePasses
  <2>2. LoggerControl'
    <3>1. logTime \in Nat /\ logCancelled \in BOOLEAN
      BY <1>2 DEF LoggerControl
    <3>2. logTime' \in Nat
      BY <2>1, <3>1
    <3>3. logCancelled' \in BOOLEAN
      BY <2>1, <3>1
    <3>4. UNCHANGED <<at, mapMu, entry, nextMetric, final>>
      BY <2>1
    <3> QED BY <1>2, <3>2, <3>3, <3>4 DEF LoggerControl
  <2>3. LoggerFlushed'
    BY <1>2, <1>3, <2>1 DEF LoggerFlushed
  <2>4. \A b \in Actors : (at'[b] \in {"send", "hung"}) = (at[b] \in {"send", "hung"})
    BY <2>1
  <2> QED BY <1>1, <2>2, <2>3, <2>4, QuietKeeps
<1> QED BY <1>4, <1>5, <1>6, <1>7

\* What follows a push, and where that leaves everybody.
LEMMA AfterPush ==
    ASSUME LoggerInd, NEW a \in Actors, at[a] \in {"push", "send"},
           NEW w \in {"send", After(a)}, at' = [at EXCEPT ![a] = w],
           mapMu' = NoOne \/ (mapMu' = mapMu /\ mapMu # a),
           UNCHANGED <<nextMetric, entry, final, logCancelled, logTime>>
    PROVE  /\ LoggerControl' /\ After(a) \notin {"send", "hung"}
           /\ at'[Routine] = "closed" => final
           /\ at'[a] = w /\ \A b \in Actors \ {a} : at'[b] = at[b]
<1>1. LoggerControl /\ at \in [Actors -> Places] /\ LoggerFlushed
  BY DEF LoggerInd, LoggerControl
<1>2. After(a) \in {"panic", "closed", "wait"} /\ (a = Routine /\ After(a) = "closed" => final)
  BY DEF After
<1>3. w \in {"send", "panic", "closed", "wait"}
  BY <1>2
<1>4. at' \in [Actors -> Places] /\ at'[a] = w /\ \A b \in Actors \ {a} : at'[b] = at[b]
  BY <1>1, <1>3 DEF Places
<1>5. Routine \in Actors /\ Threads \subseteq Actors
  BY DEF Actors
<1>6. at'[Routine] = "closed" => final
  BY <1>1, <1>2, <1>4, <1>5 DEF LoggerFlushed
<1>7. \A u \in Threads : at'[u] = "collect" => entry'[u] \in Entries
  BY <1>1, <1>3, <1>4, <1>5 DEF LoggerControl
<1>8. mapMu' \in Actors \cup {NoOne} /\ (mapMu' # NoOne => at'[mapMu'] \in {"collect", "push"})
  BY <1>1, <1>4 DEF LoggerControl
<1>9. LoggerControl'
  BY <1>1, <1>4, <1>7, <1>8 DEF LoggerControl
<1> QED BY <1>2, <1>4, <1>6, <1>9

\* pushMetrics takes the points out of the map and has them in its batch.
LEMMA TakeMoves ==
    ASSUME LoggerInd, NEW d \in Actors, Take(d)
    PROVE  LoggerInd'
<1>1. /\ mapMu' = NoOne /\ at[d] = "push"
      /\ UNCHANGED <<nextMetric, entry, final, logCancelled, logTime, collected, received, lost>>
      /\ LoggerPoints /\ LoggerFlushed
  BY DEF Take, LoggerInd, ledger
<1>2. CASE metricPoints = NoPoints
  <2>1. at' = [at EXCEPT ![d] = After(d)] /\ UNCHANGED <<metricPoints, since, batch>>
    BY <1>2 DEF Take
  <2>2. /\ LoggerControl' /\ After(d) \notin {"send", "hung"} /\ at'[d] = After(d)
        /\ at'[Routine] = "closed" => final
        /\ \A b \in Actors \ {d} : at'[b] = at[b]
    BY <1>1, <2>1, AfterPush
  <2>3. DOMAIN since = {}
    BY <1>1, <1>2 DEF LoggerPoints, NoPoints
  <2>4. LoggerFlushed'
    BY <1>1, <2>1, <2>2, <2>3 DEF LoggerFlushed
  <2>5. \A b \in Actors : (at'[b] \in {"send", "hung"}) = (at[b] \in {"send", "hung"})
    BY <1>1, <2>2
  <2> QED BY <1>1, <2>1, <2>2, <2>4, <2>5, QuietKeeps DEF ledger
<1>3. CASE metricPoints # NoPoints
  <2>1. /\ at' = [at EXCEPT ![d] = "send"] /\ batch' = [batch EXCEPT ![d] = metricPoints]
        /\ metricPoints' = NoPoints /\ since' = NoPoints
    BY <1>3 DEF Take
  <2>2. /\ LoggerControl' /\ at'[d] = "send" /\ (at'[Routine] = "closed" => final)
        /\ \A b \in Actors \ {d} : at'[b] = at[b]
    BY <1>1, <2>1, AfterPush
  <2>3. DOMAIN since' = {} /\ DOMAIN metricPoints' = {} /\ since' \in [DOMAIN since' -> Seq(Value)]
    BY <2>1 DEF NoPoints
  <2>4. LoggerFlushed'
    BY <1>1, <2>2, <2>3 DEF LoggerFlushed
  <2>5. PointIsAggregate'
    BY <2>3 DEF PointIsAggregate
  <2>6. /\ batch \in [Actors -> {batch[a] : a \in Actors}] /\ Points(metricPoints)
        /\ \A a \in Actors : Points(batch[a]) /\ (batch[a] # NoPoints) = (at[a] \in {"send", "hung"})
    BY <1>1 DEF LoggerPoints
  <2>7. /\ batch' \in [Actors -> {batch'[a] : a \in Actors}]
        /\ batch'[d] = metricPoints /\ \A a \in Actors \ {d} : batch'[a] = batch[a]
    BY <2>1, <2>6
  <2>8. \A a \in Actors : Points(batch'[a])
    BY <2>6, <2>7
  <2>9. \A a \in Actors : (batch'[a] # NoPoints) = (at'[a] \in {"send", "hung"})
    BY <1>3, <2>2, <2>6, <2>7
  <2>10. LoggerPoints'
    <3>1. Points(NoPoints)
      BY SumOfNone
    <3>2. Points(metricPoints)'
      BY <2>1, <3>1 DEF Points
    <3>3. \A a \in Actors : Points(batch[a])'
      BY <2>8 DEF Points
    <3> QED BY <1>1, <2>3, <2>7, <2>9, <3>2, <3>3 DEF LoggerPoints
  <2>11. SumsConserved'
    <3>1. SUFFICES ASSUME NEW n \in SummedNames
                   PROVE  collected[n] = SumOf(NoPoints, n) + Sent(batch', n) + received[n] + lost[n]
      BY <1>1, <2>1 DEF SumsConserved, Sent
    <3>2. collected[n] = SumOf(metricPoints, n) + Sent(batch, n) + received[n] + lost[n]
      BY DEF LoggerInd, SumsConserved, Sent
    <3>3. batch[d] = NoPoints
      BY <1>1, <2>6
    <3>4. Sent(batch, n) \in Nat /\ Sent(batch', n) = Sent(batch, n) - SumOf(NoPoints, n) + SumOf(metricPoints, n)
      <4>1. Changed(batch, batch', d)
        BY <2>6, <2>7, <2>8 DEF Changed
      <4>2. /\ Sent(batch, n) \in Nat
            /\ Sent(batch', n) = Sent(batch, n) - SumOf(batch[d], n) + SumOf(batch'[d], n)
        BY <4>1, SentChanges
      <4> QED BY <2>7, <3>3, <4>2
    <3>5. SumOf(NoPoints, n) = 0 /\ SumOf(metricPoints, n) \in Nat
      BY <2>6, SumOfNone, SumOfTyped
    <3> QED BY <3>2, <3>4, <3>5
  <2> QED BY <2>2, <2>4, <2>5, <2>10, <2>11 DEF LoggerInd
<1> QED BY <1>2, <1>3

\* A request is answered or fails, and its points are received or lost.
LEMMA SendMoves ==
    ASSUME LoggerInd, NEW d \in Actors, Send(d)
    PROVE  LoggerInd'
<1>1. /\ at[d] = "send" /\ at' = [at EXCEPT ![d] = After(d)]
      /\ batch' = [batch EXCEPT ![d] = NoPoints]
      /\ mapMu' = NoOne \/ (mapMu' = mapMu /\ mapMu # d)
      /\ UNCHANGED <<metricPoints, since, nextMetric, entry, final, logCancelled, logTime, collected>>
      /\ LoggerPoints /\ LoggerFlushed
  BY DEF Send, LoggerInd
<1>2. /\ LoggerControl' /\ After(d) \notin {"send", "hung"} /\ at'[d] = After(d)
      /\ at'[Routine] = "closed" => final
      /\ \A b \in Actors \ {d} : at'[b] = at[b]
  BY <1>1, AfterPush
<1>3. LoggerFlushed'
  <2>1. Routine \in Actors
    BY DEF Actors
  <2>2. at'[Routine] \in {"send", "hung", "closed"} => at[Routine] \in {"send", "hung", "closed"}
    BY <1>1, <1>2, <2>1
  <2> QED BY <1>1, <1>2, <2>2 DEF LoggerFlushed
<1>4. /\ batch \in [Actors -> {batch[a] : a \in Actors}] /\ Points(metricPoints)
      /\ \A a \in Actors : Points(batch[a]) /\ (batch[a] # NoPoints) = (at[a] \in {"send", "hung"})
      /\ received \in [Names -> Nat] /\ lost \in [Names -> Nat]
  BY <1>1 DEF LoggerPoints
<1>5. /\ batch' \in [Actors -> {batch'[a] : a \in Actors}]
      /\ batch'[d] = NoPoints /\ \A a \in Actors \ {d} : batch'[a] = batch[a]
  BY <1>1, <1>4
<1>6. \A a \in Actors : Points(batch'[a])
  BY <1>4, <1>5, SumOfNone
<1>7. \A a \in Actors : (batch'[a] # NoPoints) = (at'[a] \in {"send", "hung"})
  <2>1. ASSUME NEW a \in Actors, a # d PROVE (batch'[a] # NoPoints) = (at'[a] \in {"send", "hung"})
    BY <1>2, <1>4, <1>5, <2>1
  <2>2. (batch'[d] # NoPoints) = (at'[d] \in {"send", "hung"})
    BY <1>2, <1>5
  <2> QED BY <2>1, <2>2
<1>8. \A n \in Names : SumOf(batch[d], n) \in Nat
  BY <1>4, SumOfTyped
<1>9. \/ received' = [n \in Names |-> received[n] + SumOf(batch[d], n)] /\ UNCHANGED lost
      \/ lost' = [n \in Names |-> lost[n] + SumOf(batch[d], n)] /\ UNCHANGED received
  BY DEF Send
<1>10. /\ received' \in [Names -> Nat] /\ lost' \in [Names -> Nat]
       /\ \A n \in Names : received'[n] + lost'[n] = received[n] + lost[n] + SumOf(batch[d], n)
  BY <1>4, <1>8, <1>9
<1>11. LoggerPoints'
  <2>1. \A a \in Actors : Points(batch[a])'
    BY <1>6 DEF Points
  <2>2. Points(metricPoints)'
    BY <1>1, <1>4 DEF Points
  <2> QED BY <1>1, <1>5, <1>7, <1>10, <2>1, <2>2 DEF LoggerPoints
<1>12. PointIsAggregate'
  BY <1>1 DEF LoggerInd, PointIsAggregate, IsAggregate
<1>13. SumsConserved'
  <2>1. SUFFICES ASSUME NEW n \in SummedNames
                 PROVE  collected[n] = SumOf(metricPoints, n) + Sent(batch', n) + received'[n] + lost'[n]
    BY <1>1 DEF SumsConserved, Sent
  <2>2. collected[n] = SumOf(metricPoints, n) + Sent(batch, n) + received[n] + lost[n]
    BY DEF LoggerInd, SumsConserved, Sent
  <2>3. n \in Names
    BY DEF SummedNames
  <2>4. Sent(batch, n) \in Nat /\ Sent(batch', n) = Sent(batch, n) - SumOf(batch[d], n) + SumOf(NoPoints, n)
    <3>1. Changed(batch, batch', d)
      BY <1>4, <1>5, <1>6 DEF Changed
    <3>2. /\ Sent(batch, n) \in Nat
          /\ Sent(batch', n) = Sent(batch, n) - SumOf(batch[d], n) + SumOf(batch'[d], n)
      BY <3>1, SentChanges
    <3> QED BY <1>5, <3>2
  <2>5. SumOf(NoPoints, n) = 0 /\ SumOf(metricPoints, n) \in Nat /\ SumOf(batch[d], n) \in Nat
    BY <1>4, SumOfNone, SumOfTyped
  <2>6. /\ received'[n] \in Nat /\ lost'[n] \in Nat /\ received[n] \in Nat /\ lost[n] \in Nat
        /\ received'[n] + lost'[n] = received[n] + lost[n] + SumOf(batch[d], n)
    BY <1>4, <1>10, <2>3
  <2> QED BY <2>2, <2>4, <2>5, <2>6
<1> QED BY <1>2, <1>3, <1>11, <1>12, <1>13 DEF LoggerInd

\* The loop of collect puts a point into the map, or none.
LEMMA CollectAdds ==
    ASSUME LoggerInd, NEW t \in Threads, CollectMetric(t)
    PROVE  LoggerInd'
<1> DEFINE i == nextMetric
           x == entry[t].fields[i]
           k == <<x.name, roundTime(logTime)>>
           v == PointValue(i, x)
           value == [v |-> v, dup |-> OnDuplicate(i), late |-> logCancelled]
           s == IF k \in DOMAIN since THEN since[k] ELSE <<>>
<1>1. /\ mapMu = t /\ at[t] = "collect" /\ i <= Len(Metrics) /\ nextMetric' = i + 1
      /\ UNCHANGED <<mapMu, at, entry, batch, final, logCancelled, logTime, received, lost>>
  BY DEF CollectMetric
<1>2. LoggerControl /\ LoggerPoints /\ LoggerFlushed
  BY DEF LoggerInd
<1>3. entry[t] \in Entries /\ i \in 1..Len(Metrics)
  <2>1. i \in 1..(Len(Metrics) + 1) /\ Len(Metrics) \in Nat
    BY <1>2, MetricsCounted DEF LoggerControl
  <2> QED BY <1>1, <1>2, <2>1 DEF LoggerControl
<1>4. LoggerControl'
  <2>1. nextMetric' \in 1..(Len(Metrics) + 1)
    BY <1>1, <1>3, MetricsCounted
  <2> QED BY <1>1, <1>2, <2>1 DEF LoggerControl
<1>5. CASE ~Yields(i, x)
  <2>1. UNCHANGED <<metricPoints, since, collected>>
    BY <1>5 DEF CollectMetric
  <2>2. LoggerFlushed'
    BY <1>1, <1>2, <2>1 DEF LoggerFlushed
  <2> QED BY <1>1, <1>4, <2>1, <2>2, QuietKeeps DEF ledger
<1>6. CASE Yields(i, x)
  <2>1. /\ metricPoints' = addMetricPoint(OnDuplicate(i), metricPoints, k, v)
        /\ since' = With(since, k, Append(s, value))
        /\ collected' = [collected EXCEPT ![x.name] = IF v = NaN THEN @ ELSE @ + v]
    BY <1>6 DEF CollectMetric
  <2>2. v \in Nat \cup {NaN} /\ OnDuplicate(i) \in Dups /\ x.name \in Names
    BY <1>3, <1>6, ValuesTyped
  <2>3. x.name \in SummedNames => OnDuplicate(i) = "sum" /\ v # NaN
    BY <1>3, <1>6 DEF SummedNames
  <2>4. /\ k[1] = x.name /\ logCancelled \in BOOLEAN
        /\ value.v = v /\ value.dup = OnDuplicate(i) /\ value.late = logCancelled
    BY <1>2 DEF LoggerControl
  <2>5. value \in Value
    BY <2>2, <2>4 DEF Value
  <2> HIDE DEF v, k, x, i, value
  <2>6. /\ Points(metricPoints) /\ DOMAIN since = DOMAIN metricPoints
        /\ since \in [DOMAIN since -> Seq(Value)] /\ (\A j \in DOMAIN since : since[j] # <<>>)
        /\ collected \in [Names -> Nat] /\ PointIsAggregate
    BY <1>2 DEF LoggerPoints, LoggerInd
  <2>7. s \in Seq(Value) /\ (k \notin DOMAIN since => s = <<>>) /\ (k \in DOMAIN since => s = since[k] /\ s # <<>>)
    <3>1. k \in DOMAIN since => since[k] \in Seq(Value)
      BY <2>6
    <3>2. <<>> \in Seq(Value)
      OBVIOUS
    <3> QED BY <2>6, <3>1, <3>2
  <2> HIDE DEF s
  <2>8. LET g == metricPoints'
            f == metricPoints
            dup == OnDuplicate(i)
        IN  /\ Points(g) /\ DOMAIN g = DOMAIN f \cup {k}
            /\ \A j \in DOMAIN f : j # k => g[j] = f[j]
            /\ k \notin DOMAIN f \/ dup = "replace" => g[k] = v
            /\ k \in DOMAIN f /\ dup = "min" => g[k] = IF Less(v, f[k]) THEN v ELSE f[k]
            /\ k \in DOMAIN f /\ dup = "max" => g[k] = IF Less(f[k], v) THEN v ELSE f[k]
    <3> DEFINE dup == OnDuplicate(i)
               f == metricPoints
               g == addMetricPoint(dup, f, k, v)
    <3>1. Points(f) /\ dup \in Dups /\ (k[1] \in SummedNames => dup = "sum" /\ v # NaN)
      BY <2>2, <2>3, <2>4, <2>6
    <3> HIDE DEF dup, f
    <3>2. Added(f, g, dup, k, v)
      BY <2>2, <3>1, PointAdded
    <3>3. metricPoints' = g
      BY <2>1 DEF dup, f
    <3> HIDE DEF g
    <3> QED BY <3>2, <3>3 DEF dup, f, Added
  <2>9. /\ DOMAIN since' = DOMAIN since \cup {k} /\ since'[k] = Append(s, value)
        /\ \A j \in DOMAIN since : j # k => since'[j] = since[j]
        /\ since' \in [DOMAIN since' -> {since'[j] : j \in DOMAIN since'}]
    BY <2>1 DEF With
  <2>10. /\ Append(s, value) \in Seq(Value) /\ Len(Append(s, value)) = Len(s) + 1 /\ Len(s) \in Nat
         /\ \A j \in 1..Len(s) : Append(s, value)[j] = s[j]
         /\ Append(s, value)[Len(s) + 1] = value
    BY <2>5, <2>7
  <2>11. LoggerFlushed'
    <3>1. final => logCancelled
      BY <1>2 DEF LoggerFlushed
    <3>2. ASSUME final, at[Routine] \in {"send", "hung", "closed"}, NEW j \in DOMAIN since',
                 NEW m \in 1..Len(since'[j])
          PROVE  since'[j][m].late
      <4>1. \A l \in DOMAIN since : \A q \in 1..Len(since[l]) : since[l][q].late
        BY <1>2, <3>2 DEF LoggerFlushed
      <4>2. CASE j # k
        BY <2>9, <4>1, <4>2, <3>2
      <4>3. CASE j = k /\ m = Len(s) + 1
        BY <2>4, <2>9, <2>10, <3>1, <3>2, <4>3
      <4>4. CASE j = k /\ m # Len(s) + 1
        <5>1. m \in 1..Len(s) /\ since'[j][m] = s[m]
          BY <2>9, <2>10, <3>2, <4>4
        <5>2. s # <<>>
          BY <2>10, <5>1
        <5> QED BY <2>7, <4>1, <5>1, <5>2
      <4> QED BY <4>2, <4>3, <4>4
    <3> QED BY <1>1, <1>2, <3>2 DEF LoggerFlushed
  <2>12. \A n \in Names : collected'[n] = IF n = x.name /\ v # NaN THEN collected[n] + v ELSE collected[n]
    BY <2>1, <2>6
  <2>13. collected' \in [Names -> Nat]
    <3>1. collected[x.name] \in Nat
      BY <2>2, <2>6
    <3>2. (IF v = NaN THEN collected[x.name] ELSE collected[x.name] + v) \in Nat
      BY <2>2, <3>1
    <3> QED BY <2>1, <2>6, <3>2
  <2>14. LoggerPoints'
    <3>1. Points(metricPoints)'
      BY <2>8 DEF Points
    <3>2. \A a \in Actors : Points(batch[a])' /\ (batch'[a] # NoPoints) = (at'[a] \in {"send", "hung"})
      BY <1>1, <1>2 DEF LoggerPoints, Points
    <3>3. DOMAIN since' = DOMAIN metricPoints'
      BY <2>6, <2>8, <2>9
    <3>4. \A j \in DOMAIN since' : since'[j] \in Seq(Value) /\ since'[j] # <<>>
      <4>1. Append(s, value) # <<>>
        BY <2>10
      <4> QED BY <2>6, <2>9, <2>10, <4>1
    <3>5. since' \in [DOMAIN since' -> Seq(Value)]
      BY <2>9, <3>4
    <3>6. batch' \in [Actors -> {batch'[a] : a \in Actors}] /\ UNCHANGED <<received, lost>>
      BY <1>1, <1>2 DEF LoggerPoints
    <3> QED BY <1>2, <2>13, <3>1, <3>2, <3>3, <3>4, <3>5, <3>6 DEF LoggerPoints
  <2>15. PointIsAggregate'
    <3>1. ASSUME NEW j \in DOMAIN metricPoints', j # k PROVE IsAggregate(since'[j], metricPoints'[j])
      <4>1. j \in DOMAIN since /\ j \in DOMAIN metricPoints
        BY <2>6, <2>8, <3>1
      <4>2. since'[j] = since[j] /\ metricPoints'[j] = metricPoints[j]
        BY <2>8, <2>9, <3>1, <4>1
      <4>3. IsAggregate(since[j], metricPoints[j])
        BY <2>6, <4>1 DEF PointIsAggregate
      <4> QED BY <4>2, <4>3
    <3>2. IsAggregate(since'[k], metricPoints'[k])
      <4> DEFINE w == metricPoints[k]
                 g == metricPoints'[k]
      <4>1. s # <<>> => IsAggregate(s, w)
        BY <2>6, <2>7 DEF PointIsAggregate
      <4>2. /\ s = <<>> \/ value.dup = "replace" => g = value.v
            /\ s # <<>> /\ value.dup = "min" => g = IF Less(value.v, w) THEN value.v ELSE w
            /\ s # <<>> /\ value.dup = "max" => g = IF Less(w, value.v) THEN value.v ELSE w
        BY <2>4, <2>6, <2>7, <2>8
      <4> HIDE DEF w, g
      <4>3. IsAggregate(Append(s, value), g)
        BY <2>5, <2>7, <4>1, <4>2, AggregateAppended
      <4> QED BY <2>9, <4>3 DEF g
    <3>3. \A j \in DOMAIN metricPoints' : IsAggregate(since'[j], metricPoints'[j])
      BY <3>1, <3>2
    <3> QED BY <3>3 DEF PointIsAggregate, IsAggregate
  <2>16. SumsConserved'
    <3>1. SUFFICES ASSUME NEW n \in SummedNames
                   PROVE  collected'[n] = SumOf(metricPoints', n) + Sent(batch, n) + received[n] + lost[n]
      BY <1>1 DEF SumsConserved, Sent
    <3>2. collected[n] = SumOf(metricPoints, n) + Sent(batch, n) + received[n] + lost[n]
      BY DEF LoggerInd, SumsConserved, Sent
    <3>3. n \in Names
      BY DEF SummedNames
    <3>4. SumOf(metricPoints', n) = SumOf(metricPoints, n) + (IF x.name = n THEN v ELSE 0)
      <4> DEFINE dup == OnDuplicate(i)
                 f == metricPoints
                 g == addMetricPoint(dup, f, k, v)
      <4>1. Points(f) /\ dup \in Dups /\ (k[1] \in SummedNames => dup = "sum" /\ v # NaN)
        BY <2>2, <2>3, <2>4, <2>6
      <4> HIDE DEF dup, f
      <4>2. SumOf(g, n) = SumOf(f, n) + (IF k[1] = n THEN v ELSE 0)
        BY <2>2, <4>1, SumOfAdded
      <4>3. metricPoints' = g
        BY <2>1 DEF dup, f
      <4> HIDE DEF g
      <4> QED BY <2>4, <4>2, <4>3 DEF f
    <3>5. SumOf(metricPoints, n) \in Nat
      BY <2>6, SumOfTyped
    <3>6. Sent(batch, n) \in Nat
      <4>1. Changed(batch, batch, Routine) /\ Routine \in Actors
        BY <1>2 DEF LoggerPoints, Changed, Actors
      <4> QED BY <4>1, SentChanges
    <3>7. received[n] \in Nat /\ lost[n] \in Nat /\ collected[n] \in Nat
      BY <1>2, <3>3 DEF LoggerPoints
    <3>8. CASE x.name = n
      <4>1. v \in Nat /\ collected'[n] = collected[n] + v
        BY <2>2, <2>3, <2>12, <3>3, <3>8
      <4> QED BY <3>2, <3>4, <3>5, <3>6, <3>7, <3>8, <4>1
    <3>9. CASE x.name # n
      <4>1. collected'[n] = collected[n]
        BY <2>12, <3>3, <3>9
      <4> QED BY <3>2, <3>4, <3>5, <3>6, <3>7, <3>9, <4>1
    <3> QED BY <3>8, <3>9
  <2> QED BY <1>4, <2>11, <2>14, <2>15, <2>16 DEF LoggerInd
<1> QED BY <1>5, <1>6

\* What the logger collects is aggregated as its metrics say and conserved, and
\* flushed when the service stops: for any number of goroutines that log and
\* panic at any time, any metrics and entries, and requests that fail or hang.
THEOREM LoggerConserves == MLSpec => []MetricsConserved
<1>1. MLInit => LoggerInd
  <2>1. SUFFICES ASSUME MLInit PROVE LoggerInd
    OBVIOUS
  <2>2. LoggerControl
    <3>1. 1 \in 1..(Len(Metrics) + 1)
      BY MetricsCounted
    <3>2. /\ at \in [Actors -> Places] /\ entry \in [Threads -> Entries \cup {NoEntry}]
          /\ \A a \in Actors : at[a] \in {"new", "idle"}
      BY <2>1 DEF MLInit, Places
    <3> QED BY <2>1, <3>1, <3>2 DEF MLInit, LoggerControl, Actors
  <2>3. DOMAIN metricPoints = {} /\ DOMAIN since = {} /\ since \in [DOMAIN since -> Seq(Value)]
    BY <2>1 DEF MLInit, NoPoints
  <2>4. /\ batch \in [Actors -> {batch[a] : a \in Actors}]
        /\ \A a \in Actors : batch[a] = NoPoints /\ at[a] \in {"new", "idle"}
    BY <2>1 DEF MLInit
  <2>5. LoggerPoints
    <3>1. Points(metricPoints) /\ \A a \in Actors : Points(batch[a])
      BY <2>1, <2>4, SumOfNone DEF MLInit
    <3>2. \A a \in Actors : (batch[a] # NoPoints) = (at[a] \in {"send", "hung"})
      BY <2>4
    <3>3. collected \in [Names -> Nat] /\ received \in [Names -> Nat] /\ lost \in [Names -> Nat]
      BY <2>1 DEF MLInit
    <3> QED BY <2>3, <2>4, <3>1, <3>2, <3>3 DEF LoggerPoints
  <2>6. LoggerFlushed
    BY <2>1, <2>3 DEF MLInit, LoggerFlushed, Actors
  <2>7. PointIsAggregate
    BY <2>3 DEF PointIsAggregate
  <2>8. SumsConserved
    <3>1. SUFFICES ASSUME NEW n \in SummedNames
                   PROVE  0 = SumOf(NoPoints, n) + Sent(batch, n) + 0 + 0
      <4>1. \A n \in SummedNames : collected[n] = 0 /\ received[n] = 0 /\ lost[n] = 0
        BY <2>1 DEF MLInit, SummedNames
      <4>2. metricPoints = NoPoints
        BY <2>1 DEF MLInit
      <4> QED BY <4>1, <4>2 DEF SumsConserved, Sent
    <3> DEFINE f == [a \in Actors |-> SumOf(batch[a], n)]
    <3>2. SumOf(NoPoints, n) = 0
      BY SumOfNone
    <3>3. \A a \in Actors : f[a] = 0
      BY <2>4, <3>2
    <3>4. IsFiniteSet(Actors)
      <4>1. IsFiniteSet(Threads)
        BY MetricsAssumption
      <4> QED BY <4>1, FS_AddElement DEF Actors
    <3>5. Sent(batch, n) = SumOver(f, Actors)
      BY DEF Sent
    <3> HIDE DEF f
    <3>6. SumOver(f, Actors) = SumOver(f, {})
      BY <3>3, <3>4, SumOfOthers
    <3>7. SumOver(f, {}) = SumOver(NoPoints, {})
      BY SumOfEqual
    <3>8. SumOver(NoPoints, {}) = SumOf(NoPoints, n)
      BY DEF SumOf, NoPoints
    <3> QED BY <3>2, <3>5, <3>6, <3>7, <3>8
  <2> QED BY <2>2, <2>5, <2>6, <2>7, <2>8 DEF LoggerInd
<1>2. LoggerInd /\ [MLNext]_mlVars => LoggerInd'
  <2>1. ASSUME LoggerInd, UNCHANGED mlVars PROVE LoggerInd'
    <3>1. UNCHANGED <<metricPoints, since, mapMu, nextMetric, at, entry, batch, final, logCancelled,
                      logTime, ledger>>
      BY <2>1 DEF mlVars
    <3>2. LoggerControl'
      BY <2>1, <3>1 DEF LoggerInd, LoggerControl
    <3>3. LoggerFlushed'
      BY <2>1, <3>1 DEF LoggerInd, LoggerFlushed
    <3>4. \A a \in Actors : (at'[a] \in {"send", "hung"}) = (at[a] \in {"send", "hung"})
      BY <3>1
    <3> QED BY <2>1, <3>1, <3>2, <3>3, <3>4, QuietKeeps
  <2>2. ASSUME LoggerInd, MLNext PROVE LoggerInd'
    <3>1. \/ \E t \in Threads : \/ \E e \in Entries : Log(t, e)
                                \/ CollectEnd(t) \/ PanicEnds(t)
          \/ \E t \in Threads : CollectMetric(t)
          \/ \E a \in Actors : Take(a)
          \/ \E a \in Actors : Send(a)
          \/ \E a \in Actors : Lock(a) \/ Hang(a)
          \/ StartLogger \/ PushTick \/ PushDone \/ CancelLog \/ LogTimePasses
      BY <2>2 DEF MLNext
    <3> QED BY <2>2, <3>1, ThreadQuiet, CollectAdds, TakeMoves, SendMoves, OthersQuiet
  <2> QED BY <2>1, <2>2
<1>3. LoggerInd => MetricsConserved
  <2>1. LoggerInd => MLTypeOK
    BY DEF LoggerInd, LoggerControl, LoggerPoints, MLTypeOK
  <2>2. LoggerInd => StoppedIsFlushed
    BY DEF LoggerInd, LoggerFlushed, StoppedIsFlushed
  <2> QED BY <2>1, <2>2 DEF LoggerInd, MetricsConserved
<1> QED BY <1>1, <1>2, <1>3, PTL DEF MLSpec

-----------------------------------------------------------------------------
(* The validators *)

\* A limiter that exists holds between nothing and a burst, and was used in the
\* past.
LimiterOK(lim, burst) ==
    lim = NoLimiter \/ (/\ lim \in [tokens : Int, last : Int]
                        /\ lim.tokens \in 0..burst /\ lim.last \in 0..vnow)

\* What a sender got through and what its limiter has left stay below the line
\* of its rate, which makes the bound on the bytes inductive, and are never less
\* than a burst, so that one within its burst is not refused.
Account(bytes, lim, rate, burst) ==
    /\ bytes \in Nat /\ LimiterOK(lim, burst)
    /\ bytes + Tokens(lim, rate, burst) <= burst + rate * vnow
    /\ bytes + Tokens(lim, rate, burst) >= burst

VerdictOK ==
    /\ verdict.result \in {"none", "accept", "ignore", "reject"}
    /\ AcceptedGenuine /\ HonestRelayNotPunished

VInd ==
    /\ vnow \in 0..VMaxTime
    /\ relayLim \in [Relay -> [tokens : Int, last : Int]]
    /\ authorLim \in [Author -> [tokens : Int, last : Int]]
    /\ relayBytes \in [Relay -> Int] /\ authorBytes \in [Author -> Int]
    /\ \A r \in Relay : Account(relayBytes[r], relayLim[r], RelayRate, RelayBurst)
    /\ \A a \in Author : Account(authorBytes[a], authorLim[a], Rate, Burst)
    /\ VerdictOK

(* A bucket holds between nothing and a burst. *)
LEMMA TokensBounded ==
    ASSUME NEW rate \in Nat, NEW burst \in Nat, vnow \in Nat, NEW lim, LimiterOK(lim, burst)
    PROVE  Tokens(lim, rate, burst) \in 0..burst
<1>1. CASE lim = NoLimiter
  BY <1>1 DEF Tokens
<1>2. CASE lim # NoLimiter
  <2>1. lim.tokens \in 0..burst /\ lim.last \in 0..vnow
    BY <1>2 DEF LimiterOK
  <2>2. (vnow - lim.last) * rate \in Nat
    BY <2>1
  <2> DEFINE f == (vnow - lim.last) * rate
  <2> HIDE DEF f
  <2>3. f \in Nat /\ Tokens(lim, rate, burst) = Least(burst, lim.tokens + f)
    BY <1>2, <2>2 DEF Tokens, f
  <2> QED BY <2>1, <2>3 DEF Least
<1> QED BY <1>1, <1>2

(* A message is charged to a bucket: what gets through is taken out of it. *)
LEMMA ChargeKeepsAccount ==
    ASSUME NEW rate \in Nat, NEW burst \in Nat, vnow \in Nat, NEW lim, NEW bytes, NEW size \in Nat,
           Account(bytes, lim, rate, burst)
    PROVE  /\ Charge(lim, rate, burst, size) \in [tokens : Int, last : Int]
           /\ Account(bytes + (IF Allows(lim, rate, burst, size) THEN size ELSE 0),
                      Charge(lim, rate, burst, size), rate, burst)
<1> DEFINE t == Tokens(lim, rate, burst)
           c == Charge(lim, rate, burst, size)
<1>1. t \in 0..burst
  BY TokensBounded DEF Account
<1>2. c = [tokens |-> IF size <= t THEN t - size ELSE t, last |-> vnow]
  BY DEF Charge
<1>3. bytes \in Nat /\ bytes + t <= burst + rate * vnow /\ bytes + t >= burst
  BY DEF Account
<1>4. Allows(lim, rate, burst, size) <=> size <= t
  BY DEF Allows
<1> HIDE DEF t, c
<1>5. c.tokens \in 0..burst /\ c.last = vnow /\ c \in [tokens : Int, last : Int]
      /\ c.tokens = (IF size <= t THEN t - size ELSE t)
  BY <1>1, <1>2
<1>6. c # NoLimiter
  BY <1>5 DEF NoLimiter
<1>7. (vnow - c.last) * rate = 0
  BY <1>5
<1>8. Tokens(c, rate, burst) = c.tokens
  BY <1>5, <1>6, <1>7 DEF Tokens, Least
<1>9. rate * vnow \in Nat
  OBVIOUS
<1> DEFINE l == rate * vnow
<1> HIDE DEF l
<1>10. /\ bytes + (IF size <= t THEN size ELSE 0) + c.tokens <= burst + l
       /\ bytes + (IF size <= t THEN size ELSE 0) + c.tokens >= burst
  BY <1>1, <1>3, <1>5, <1>9 DEF l
<1> QED BY <1>3, <1>4, <1>5, <1>8, <1>10 DEF Account, LimiterOK, c, l

(* An account stays in order while time passes. *)
LEMMA TimeKeepsAccount ==
    ASSUME NEW rate \in Nat, NEW burst \in Nat, vnow \in Nat,
           NEW lim, NEW bytes, Account(bytes, lim, rate, burst)
    PROVE  LET now == vnow + 1
               tok == IF lim = NoLimiter THEN burst
                      ELSE Least(burst, lim.tokens + (now - lim.last) * rate)
           IN  bytes + tok <= burst + rate * now /\ bytes + tok >= burst
<1>1. rate * (vnow + 1) = rate * vnow + rate
  OBVIOUS
<1> DEFINE l == rate * vnow
<1>2. l \in Nat
  OBVIOUS
<1>3. bytes \in Nat /\ bytes + Tokens(lim, rate, burst) <= burst + l /\ bytes + Tokens(lim, rate, burst) >= burst
  BY DEF Account
<1> HIDE DEF l
<1>4. CASE lim = NoLimiter
  <2>1. bytes + burst <= burst + l
    BY <1>3, <1>4 DEF Tokens
  <2>2. bytes + burst <= burst + l + rate /\ bytes + burst >= burst
    BY <2>1, <1>2, <1>3
  <2> QED BY <2>2, <1>1, <1>4 DEF l
<1>5. CASE lim # NoLimiter
  <2>1. lim.tokens \in 0..burst /\ lim.last \in 0..vnow
    BY <1>5 DEF Account, LimiterOK
  <2> DEFINE f == (vnow - lim.last) * rate
  <2>2. f \in Nat
    BY <2>1
  <2>3. ((vnow + 1) - lim.last) * rate = f + rate
    <3>1. (vnow + 1) - lim.last = (vnow - lim.last) + 1 /\ vnow - lim.last \in Nat
      BY <2>1
    <3> QED BY <3>1 DEF f
  <2>4. Tokens(lim, rate, burst) = Least(burst, lim.tokens + f)
    BY <1>5 DEF Tokens
  <2> HIDE DEF f
  <2>5. /\ bytes + Least(burst, lim.tokens + (f + rate)) <= burst + (l + rate)
        /\ bytes + Least(burst, lim.tokens + (f + rate)) >= burst
    BY <2>1, <2>2, <2>4, <1>2, <1>3 DEF Least
  <2> QED BY <2>3, <2>5, <1>1, <1>5 DEF l
<1> QED BY <1>4, <1>5

(* A bucket that gc forgets is full again: the time is long enough, since a *)
(* burst is a multiple of the rate.                                          *)
LEMMA IdleIsFull ==
    ASSUME vnow \in Nat, NEW lim, LimiterOK(lim, RelayBurst), Idle(lim)
    PROVE  Tokens(lim, RelayRate, RelayBurst) = RelayBurst
<1>1. /\ RelayRate \in Nat \ {0} /\ RelayBurst \in Nat /\ RelayBurst % RelayRate = 0
      /\ lim # NoLimiter /\ lim.tokens \in 0..RelayBurst /\ lim.last \in 0..vnow
  BY LimiterAssumption DEF Idle, LimiterOK
<1> DEFINE q == RelayBurst \div RelayRate
           d == vnow - lim.last
<1>2. q \in Nat /\ RelayBurst = q * RelayRate
  BY <1>1
<1>3. d \in Nat /\ d >= q
  BY <1>1, <1>2 DEF Idle
<1>4. Tokens(lim, RelayRate, RelayBurst) = Least(RelayBurst, lim.tokens + d * RelayRate)
  BY <1>1 DEF Tokens
<1> HIDE DEF q, d
<1>5. d * RelayRate >= q * RelayRate /\ d * RelayRate \in Nat
  BY <1>1, <1>2, <1>3
<1> DEFINE p == d * RelayRate
<1> HIDE DEF p
<1>6. p \in Nat /\ p >= RelayBurst /\ Tokens(lim, RelayRate, RelayBurst) = Least(RelayBurst, lim.tokens + p)
  BY <1>2, <1>4, <1>5 DEF p
<1> QED BY <1>1, <1>6 DEF Least

(* The first validator that does not accept decides. *)
LEMMA VerdictMeans ==
    ASSUME NEW m
    PROVE  LET vs == {messageValidator(m), feederValidator(m), eventValidator(m), priceValidator(m)}
           IN  /\ Verdict(m) \in vs
               /\ Verdict(m) = "accept" => vs = {"accept"}
<1> DEFINE vs == <<messageValidator(m), feederValidator(m), eventValidator(m), priceValidator(m)>>
           no == {i \in 1..Len(vs) : vs[i] # "accept"}
<1>1. Len(vs) = 4 /\ \A i \in 1..4 : vs[i] \in {messageValidator(m), feederValidator(m), eventValidator(m), priceValidator(m)}
  OBVIOUS
<1>2. Verdict(m) = (IF no = {} THEN "accept" ELSE vs[CHOOSE i \in no : \A j \in no : i <= j])
  BY DEF Verdict
<1>3. CASE no = {}
  <2>1. \A i \in 1..4 : vs[i] = "accept"
    BY <1>1, <1>3
  <2>2. vs[1] = "accept" /\ vs[2] = "accept" /\ vs[3] = "accept" /\ vs[4] = "accept"
    BY <2>1
  <2> QED BY <1>2, <1>3, <2>2
<1>4. CASE no # {}
  <2>1. \E i \in no : \A j \in no : i <= j
    <3>1. no \subseteq 1..4
      BY <1>1
    <3> HIDE DEF no
    <3>2. CASE 1 \in no  BY <3>1, <3>2
    <3>3. CASE 1 \notin no /\ 2 \in no  BY <3>1, <3>3
    <3>4. CASE 1 \notin no /\ 2 \notin no /\ 3 \in no  BY <3>1, <3>4
    <3>5. CASE 1 \notin no /\ 2 \notin no /\ 3 \notin no /\ 4 \in no  BY <3>1, <3>5
    <3>6. PICK i : i \in no
      BY <1>4
    <3>7. i = 1 \/ i = 2 \/ i = 3 \/ i = 4
      BY <3>1, <3>6
    <3> QED BY <3>2, <3>3, <3>4, <3>5, <3>6, <3>7
  <2> DEFINE k == CHOOSE i \in no : \A j \in no : i <= j
  <2>2. k \in no
    BY <2>1
  <2>3. k \in 1..4 /\ vs[k] # "accept"
    BY <1>1, <2>2
  <2> QED BY <1>1, <1>2, <1>4, <2>3
<1> QED BY <1>3, <1>4

(* Only genuine messages are accepted, and a relay that forwards them in time *)
(* is not punished.                                                            *)
LEMMA VerdictIsRight ==
    ASSUME NEW m \in Messages, IgnoreAge + Transit <= RejectAge
    PROVE  /\ Verdict(m) \in {"accept", "ignore", "reject"}
           /\ Verdict(m) = "accept" => Genuine(m)
           /\ Verdict(m) = "reject" => ~Forwarded(m)
<1>1. /\ m.kind \in {"price", "stolen", "unsigned", "event", "garbage"} /\ m.age \in 0..RejectAge + 1
      /\ IgnoreAge \in Nat /\ RejectAge \in Nat /\ Transit \in Nat
  BY LimiterAssumption DEF Messages, PriceKinds
<1> DEFINE vs == {messageValidator(m), feederValidator(m), eventValidator(m), priceValidator(m)}
<1>2. Verdict(m) \in vs /\ (Verdict(m) = "accept" => vs = {"accept"})
  BY VerdictMeans
<1>3. vs \subseteq {"accept", "ignore", "reject"}
  BY DEF messageValidator, feederValidator, eventValidator, priceValidator, AgeVerdict
<1>4. vs = {"accept"} => Genuine(m)
  BY <1>1 DEF Genuine, messageValidator, feederValidator, priceValidator, PriceKinds
<1>5. Forwarded(m) => "reject" \notin vs
  BY <1>1 DEF Forwarded, Genuine, messageValidator, feederValidator, eventValidator, priceValidator,
              AgeVerdict, PriceKinds
<1> QED BY <1>2, <1>3, <1>4, <1>5

(* A message within the bursts of its relay and its author passes the limiters. *)
LEMMA WithinAllowed ==
    ASSUME VInd, NEW m \in Messages, Within(m)
    PROVE  /\ Allows(relayLim[m.relay], RelayRate, RelayBurst, m.size)
           /\ Allows(authorLim[m.author], Rate, Burst, m.size)
<1>1. /\ Rate \in Nat /\ RelayRate \in Nat /\ Burst \in Nat /\ RelayBurst \in Nat /\ vnow \in Nat
      /\ m.size \in Nat /\ m.relay \in Relay /\ m.author \in Author
  <2>1. m.size \in Sizes /\ m.relay \in Relay /\ m.author \in Author
    BY DEF Messages
  <2>2. vnow \in Nat
    BY LimiterAssumption DEF VInd
  <2> QED BY <2>1, <2>2, LimiterAssumption
<1>2. ASSUME NEW rate \in Nat, NEW burst \in Nat, NEW lim, NEW bytes, Account(bytes, lim, rate, burst),
             bytes + m.size <= burst
      PROVE  Allows(lim, rate, burst, m.size)
  <2> DEFINE k == Tokens(lim, rate, burst)
  <2>1. k \in 0..burst /\ bytes \in Nat /\ bytes + k >= burst
    BY <1>1, <1>2, TokensBounded DEF Account
  <2> HIDE DEF k
  <2>2. m.size <= k
    BY <1>1, <1>2, <2>1
  <2> QED BY <2>2 DEF Allows, k
<1> QED BY <1>1, <1>2 DEF Within, VInd

LEMMA VInitInd == VInit => VInd
<1> SUFFICES ASSUME VInit PROVE VInd
  OBVIOUS
<1>1. /\ Rate \in Nat /\ RelayRate \in Nat /\ Burst \in Nat /\ RelayBurst \in Nat /\ VMaxTime \in Nat
  BY LimiterAssumption
<1>2. NoLimiter \in [tokens : Int, last : Int]
  BY DEF NoLimiter
<1>3. \A b, r \in Nat : Account(0, NoLimiter, r, b)
  BY DEF VInit, Account, LimiterOK, Tokens
<1>4. VerdictOK
  BY DEF VInit, VerdictOK, NoVerdict, AcceptedGenuine, HonestRelayNotPunished
<1> QED BY <1>1, <1>2, <1>3, <1>4 DEF VInit, VInd

(* A message changes the accounts of its relay and its author alone. *)
LEMMA ReceiveKeepsAccounts ==
    ASSUME VInd, NEW m \in Messages, ReceiveMsg(m), vnow' = vnow
    PROVE  /\ relayLim' \in [Relay -> [tokens : Int, last : Int]]
           /\ authorLim' \in [Author -> [tokens : Int, last : Int]]
           /\ relayBytes' \in [Relay -> Int] /\ authorBytes' \in [Author -> Int]
           /\ \A r \in Relay : Account(relayBytes[r], relayLim[r], RelayRate, RelayBurst)'
           /\ \A a \in Author : Account(authorBytes[a], authorLim[a], Rate, Burst)'
<1>1. /\ Rate \in Nat /\ RelayRate \in Nat /\ Burst \in Nat /\ RelayBurst \in Nat /\ vnow \in Nat
      /\ m.size \in Nat /\ m.relay \in Relay /\ m.author \in Author
  <2>1. m.size \in Sizes /\ m.relay \in Relay /\ m.author \in Author
    BY DEF Messages
  <2>2. vnow \in Nat
    BY LimiterAssumption DEF VInd
  <2> QED BY <2>1, <2>2, LimiterAssumption
<1> DEFINE rl == Charge(relayLim[m.relay], RelayRate, RelayBurst, m.size)
           rb == relayBytes[m.relay]
                 + (IF Allows(relayLim[m.relay], RelayRate, RelayBurst, m.size) THEN m.size ELSE 0)
           al == Charge(authorLim[m.author], Rate, Burst, m.size)
           ab == authorBytes[m.author]
                 + (IF Allows(authorLim[m.author], Rate, Burst, m.size) THEN m.size ELSE 0)
<1>2. rl \in [tokens : Int, last : Int] /\ Account(rb, rl, RelayRate, RelayBurst)
  BY <1>1, ChargeKeepsAccount DEF VInd
<1>3. al \in [tokens : Int, last : Int] /\ Account(ab, al, Rate, Burst)
  BY <1>1, ChargeKeepsAccount DEF VInd
<1>4. relayLim' = [relayLim EXCEPT ![m.relay] = rl] /\ relayBytes' = [relayBytes EXCEPT ![m.relay] = rb]
  BY DEF ReceiveMsg
<1>5. \/ authorLim' = [authorLim EXCEPT ![m.author] = al] /\ authorBytes' = [authorBytes EXCEPT ![m.author] = ab]
      \/ UNCHANGED <<authorLim, authorBytes>>
  BY DEF ReceiveMsg
<1> HIDE DEF rl, rb, al, ab
<1>6. /\ \A r \in Relay : /\ relayBytes'[r] = (IF r = m.relay THEN rb ELSE relayBytes[r])
                          /\ relayLim'[r] = (IF r = m.relay THEN rl ELSE relayLim[r])
      /\ relayLim' \in [Relay -> [tokens : Int, last : Int]]
  BY <1>1, <1>2, <1>4 DEF VInd
<1>7. \A r \in Relay : Account(relayBytes'[r], relayLim'[r], RelayRate, RelayBurst)
  BY <1>2, <1>6 DEF VInd
<1>8. \A a \in Author : Account(authorBytes'[a], authorLim'[a], Rate, Burst)
  BY <1>1, <1>3, <1>5 DEF VInd
<1>9. authorLim' \in [Author -> [tokens : Int, last : Int]]
  BY <1>3, <1>5 DEF VInd
<1>10. rb \in Int /\ ab \in Int
  BY <1>2, <1>3 DEF Account
<1>11. relayBytes' \in [Relay -> Int] /\ authorBytes' \in [Author -> Int]
  BY <1>4, <1>5, <1>10 DEF VInd
<1>12. \A r \in Relay : Account(relayBytes[r], relayLim[r], RelayRate, RelayBurst)'
  BY <1>7 DEF Account, LimiterOK, Tokens
<1>13. \A a \in Author : Account(authorBytes[a], authorLim[a], Rate, Burst)'
  BY <1>8 DEF Account, LimiterOK, Tokens
<1> QED BY <1>6, <1>9, <1>11, <1>12, <1>13

LEMMA VNextInd ==
    ASSUME IgnoreAge + Transit <= RejectAge, VInd, [VNext]_vVars
    PROVE  VInd'
<1>1. /\ Rate \in Nat /\ RelayRate \in Nat /\ Burst \in Nat /\ RelayBurst \in Nat /\ VMaxTime \in Nat
      /\ vnow \in Nat
  BY LimiterAssumption DEF VInd
<1>2. CASE VAdvance
  <2>1. vnow' = vnow + 1 /\ vnow' \in 0..VMaxTime
        /\ UNCHANGED <<relayLim, authorLim, verdict, relayBytes, authorBytes>>
    BY <1>1, <1>2 DEF VAdvance, VInd
  <2>2. ASSUME NEW rate \in Nat, NEW burst \in Nat, NEW lim, NEW bytes, Account(bytes, lim, rate, burst)
        PROVE  /\ lim = NoLimiter \/ (/\ lim \in [tokens : Int, last : Int]
                                      /\ lim.tokens \in 0..burst /\ lim.last \in 0..vnow')
               /\ bytes \in Nat
               /\ bytes + (IF lim = NoLimiter THEN burst
                           ELSE Least(burst, lim.tokens + (vnow' - lim.last) * rate)) <= burst + rate * vnow'
               /\ bytes + (IF lim = NoLimiter THEN burst
                           ELSE Least(burst, lim.tokens + (vnow' - lim.last) * rate)) >= burst
    <3>1. lim = NoLimiter \/ (/\ lim \in [tokens : Int, last : Int]
                              /\ lim.tokens \in 0..burst /\ lim.last \in 0..vnow + 1)
      BY <1>1, <2>2 DEF Account, LimiterOK
    <3> QED BY <1>1, <2>1, <2>2, <3>1, TimeKeepsAccount DEF Account
  <2>3. \A r \in Relay : Account(relayBytes[r], relayLim[r], RelayRate, RelayBurst)'
    BY <1>1, <2>1, <2>2 DEF VInd, Account, LimiterOK, Tokens
  <2>4. \A a \in Author : Account(authorBytes[a], authorLim[a], Rate, Burst)'
    BY <1>1, <2>1, <2>2 DEF VInd, Account, LimiterOK, Tokens
  <2> QED BY <2>1, <2>3, <2>4 DEF VInd, VerdictOK, AcceptedGenuine, HonestRelayNotPunished
<1>3. CASE Gc
  <2>1. UNCHANGED <<vnow, authorLim, verdict, relayBytes, authorBytes>>
    BY <1>3 DEF Gc
  <2>2. \A r \in Relay : relayLim'[r] = (IF Idle(relayLim[r]) THEN NoLimiter ELSE relayLim[r])
    BY <1>3 DEF Gc
  <2>3. NoLimiter \in [tokens : Int, last : Int]
    BY DEF NoLimiter
  <2>4. relayLim' \in [Relay -> [tokens : Int, last : Int]]
    BY <1>3, <2>3 DEF Gc, VInd
  <2>5. ASSUME NEW r \in Relay
        PROVE  Account(relayBytes[r], relayLim'[r], RelayRate, RelayBurst)
    <3>1. Account(relayBytes[r], relayLim[r], RelayRate, RelayBurst)
      BY DEF VInd
    <3>2. CASE Idle(relayLim[r])
      <4>1. relayLim'[r] = NoLimiter
        BY <2>2, <3>2
      <4>2. Tokens(relayLim[r], RelayRate, RelayBurst) = RelayBurst
        BY <1>1, <3>1, <3>2, IdleIsFull DEF Account
      <4> QED BY <3>1, <4>1, <4>2 DEF Account, LimiterOK, Tokens
    <3>3. CASE ~Idle(relayLim[r])
      BY <2>2, <3>1, <3>3
    <3> QED BY <3>2, <3>3
  <2>6. \A r \in Relay : Account(relayBytes[r], relayLim[r], RelayRate, RelayBurst)'
    BY <2>1, <2>5 DEF Account, LimiterOK, Tokens
  <2>7. \A a \in Author : Account(authorBytes[a], authorLim[a], Rate, Burst)'
    BY <2>1 DEF VInd, Account, LimiterOK, Tokens
  <2> QED BY <2>1, <2>4, <2>6, <2>7 DEF VInd, VerdictOK, AcceptedGenuine, HonestRelayNotPunished
<1>4. CASE VReceive
  <2>1. PICK m \in Messages :
            /\ m.honest => Forwarded(m)
            /\ IF m.relay = Self THEN Unlimited(m) ELSE ReceiveMsg(m)
    BY <1>4 DEF VReceive
  <2>2. vnow' = vnow
    BY <1>4 DEF VReceive
  <2>3. \/ Judge(m, Verdict(m), "validators")
        \/ /\ \E why \in {"relay limit", "author limit"} : Judge(m, "reject", why)
           /\ \/ ~Allows(relayLim[m.relay], RelayRate, RelayBurst, m.size)
              \/ ~Allows(authorLim[m.author], Rate, Burst, m.size)
    BY <2>1 DEF Unlimited, ReceiveMsg
  <2>4. VerdictOK'
    <3>1. /\ Verdict(m) \in {"accept", "ignore", "reject"}
          /\ Verdict(m) = "accept" => Genuine(m)
          /\ Verdict(m) = "reject" => ~Forwarded(m)
      BY VerdictIsRight
    <3>2. CASE Judge(m, Verdict(m), "validators")
      <4>1. verdict'.result = Verdict(m) /\ verdict'.honest = m.honest /\ verdict'.genuine = Genuine(m)
        BY <3>2 DEF Judge
      <4> QED BY <2>1, <3>1, <4>1 DEF VerdictOK, AcceptedGenuine, HonestRelayNotPunished
    <3>3. CASE /\ \E why \in {"relay limit", "author limit"} : Judge(m, "reject", why)
               /\ \/ ~Allows(relayLim[m.relay], RelayRate, RelayBurst, m.size)
                  \/ ~Allows(authorLim[m.author], Rate, Burst, m.size)
      <4>1. verdict'.result = "reject" /\ verdict'.why # "validators" /\ verdict'.within = Within(m)
        <5>1. PICK why \in {"relay limit", "author limit"} : Judge(m, "reject", why)
          BY <3>3
        <5>2. why # "validators"
          OBVIOUS
        <5>3. verdict'.result = "reject" /\ verdict'.why = why /\ verdict'.within = Within(m)
          BY <5>1 DEF Judge
        <5> QED BY <5>2, <5>3
      <4>2. ~Within(m)
        BY <3>3, WithinAllowed
      <4> QED BY <4>1, <4>2 DEF VerdictOK, AcceptedGenuine, HonestRelayNotPunished
    <3> QED BY <2>3, <3>2, <3>3
  <2>5. CASE m.relay = Self
    <3>1. UNCHANGED <<relayLim, authorLim, relayBytes, authorBytes>>
      BY <2>1, <2>5 DEF Unlimited
    <3> QED BY <2>2, <2>4, <3>1 DEF VInd, Account, LimiterOK, Tokens
  <2>6. CASE m.relay # Self
    <3>1. ReceiveMsg(m)
      BY <2>1, <2>6
    <3> QED BY <2>2, <2>4, <3>1, ReceiveKeepsAccounts DEF VInd
  <2> QED BY <2>5, <2>6
<1>5. CASE UNCHANGED vVars
  BY <1>5 DEF vVars, VInd, Account, LimiterOK, Tokens, VerdictOK, AcceptedGenuine, HonestRelayNotPunished
<1> QED BY <1>2, <1>3, <1>4, <1>5 DEF VNext

LEMMA VIndRight == VInd => VerdictsAreRight
<1> SUFFICES ASSUME VInd PROVE VerdictsAreRight
  OBVIOUS
<1>1. /\ Rate \in Nat /\ RelayRate \in Nat /\ Burst \in Nat /\ RelayBurst \in Nat /\ vnow \in Nat
  BY LimiterAssumption DEF VInd
<1>2. ASSUME NEW rate \in Nat, NEW burst \in Nat, NEW lim, NEW bytes, Account(bytes, lim, rate, burst)
      PROVE  lim.tokens \in -1..burst /\ bytes <= burst + rate * vnow
  <2>1. Tokens(lim, rate, burst) \in 0..burst /\ bytes \in Nat /\ bytes + Tokens(lim, rate, burst) <= burst + rate * vnow
    BY <1>1, <1>2, TokensBounded DEF Account
  <2>2. rate * vnow \in Nat
    BY <1>1
  <2>3. lim.tokens \in -1..burst
    BY <1>2 DEF Account, LimiterOK, NoLimiter
  <2> QED BY <2>1, <2>2, <2>3
<1> QED BY <1>1, <1>2 DEF VInd, VerdictsAreRight, VTypeOK, BytesBounded, VerdictOK

(* The validators judge messages rightly, for any number of relays and authors, *)
(* any rates and ages: only genuine messages of listed authors are accepted,    *)
(* nobody gets more through than a burst and what his rate gives (even though   *)
(* peerLimiters.gc forgets limiters), and an honest relay is rejected by the    *)
(* limiters alone, not before it or the author has sent more than a burst. That *)
(* last part needs messages that are not longer on their way than the ages at   *)
(* which they are ignored and rejected lie apart.                               *)
THEOREM ValidatorsRight ==
    ASSUME IgnoreAge + Transit <= RejectAge
    PROVE  VSpec => []VerdictsAreRight
<1>1. VInd /\ [VNext]_vVars => VInd'
  BY VNextInd
<1> QED BY <1>1, VInitInd, VIndRight, PTL DEF VSpec

(* A message that exceeds the limit of its relay is not charged to its author: *)
(* rateLimiter.allow asks the limiter of the relay first.                       *)
THEOREM AuthorsNotPenalized ==
    VSpec => AuthorNotPenalized
<1>1. ASSUME [VNext]_vVars, vcount' # vcount, verdict'.why = "relay limit"
      PROVE  authorLim' = authorLim
  <2>1. CASE VAdvance \/ Gc \/ UNCHANGED vVars
    BY <1>1, <2>1 DEF VAdvance, Gc, vVars
  <2>2. CASE VReceive
    <3>1. PICK m \in Messages : IF m.relay = Self THEN Unlimited(m) ELSE ReceiveMsg(m)
      BY <2>2 DEF VReceive
    <3>2. CASE Unlimited(m)
      BY <3>2 DEF Unlimited
    <3>3. CASE ReceiveMsg(m)
      <4>2. CASE Allows(relayLim[m.relay], RelayRate, RelayBurst, m.size)
        <5>1. Judge(m, Verdict(m), "validators") \/ Judge(m, "reject", "author limit")
          BY <3>3, <4>2 DEF ReceiveMsg
        <5>2. CASE Judge(m, Verdict(m), "validators")
          <6>1. verdict'.why = "validators"
            BY <5>2 DEF Judge
          <6> QED BY <1>1, <6>1
        <5>3. CASE Judge(m, "reject", "author limit")
          <6>1. verdict'.why = "author limit"
            BY <5>3 DEF Judge
          <6> QED BY <1>1, <6>1
        <5> QED BY <5>1, <5>2, <5>3
      <4>3. CASE ~Allows(relayLim[m.relay], RelayRate, RelayBurst, m.size)
        BY <3>3, <4>3 DEF ReceiveMsg
      <4> QED BY <4>2, <4>3
    <3> QED BY <3>1, <3>2, <3>3
  <2> QED BY <1>1, <2>1, <2>2 DEF VNext
<1>2. [VNext]_vVars => [vcount' # vcount /\ verdict'.why = "relay limit" => authorLim' = authorLim]_vVars
  BY <1>1
<1> QED BY <1>2, PTL DEF VSpec, AuthorNotPenalized

-----------------------------------------------------------------------------
(* The node *)

\* What a loop holds.
Held(x) == IF x > NoMsg THEN <<x>> ELSE <<>>

\* The messages of a topic between the gossip library and the reader, and those
\* that the reader has.
Flow(del, node, sub, inc) == del \o (Held(node) \o Held(sub)) \o inc

Increasing(s) == \A i, j \in 1..Len(s) : i < j => s[i] < s[j]

(* Sequences of messages with the same length and elements are the same. *)
LEMMA HeldSeq ==
    ASSUME NEW x \in Int
    PROVE  Held(x) \in Seq(Int) /\ Len(Held(x)) = (IF x > NoMsg THEN 1 ELSE 0)
BY DEF Held, NoMsg

LEMMA FlowSeq ==
    ASSUME NEW del \in Seq(Int), NEW n \in Int, NEW s \in Int, NEW inc \in Seq(Int)
    PROVE  /\ Flow(del, n, s, inc) \in Seq(Int)
           /\ Len(Flow(del, n, s, inc)) = Len(del) + Len(Held(n)) + Len(Held(s)) + Len(inc)
<1>1. Held(n) \in Seq(Int) /\ Held(s) \in Seq(Int)
  BY HeldSeq
<1> DEFINE h == Held(n) \o Held(s)
<1>2. h \in Seq(Int) /\ Len(h) = Len(Held(n)) + Len(Held(s))
  BY <1>1, ConcatProperties
<1> HIDE DEF h
<1>3. del \o h \in Seq(Int) /\ Len(del \o h) = Len(del) + Len(h)
  BY <1>2, ConcatProperties
<1>4. (del \o h) \o inc \in Seq(Int) /\ Len((del \o h) \o inc) = Len(del \o h) + Len(inc)
  BY <1>3, ConcatProperties
<1>5. Len(del) \in Nat /\ Len(inc) \in Nat /\ Len(Held(n)) \in Nat /\ Len(Held(s)) \in Nat
  BY <1>1, LenProperties
<1> QED BY <1>2, <1>3, <1>4, <1>5 DEF Flow, h

LEMMA ConcatAssoc ==
    \A r, s, u \in Seq(Int) : (r \o s) \o u = r \o (s \o u)
BY ConcatAssociative

(* A message comes into the queue at the end of the flow. *)
LEMMA FlowAppend ==
    ASSUME NEW del \in Seq(Int), NEW n \in Int, NEW s \in Int, NEW inc \in Seq(Int), NEW x \in Int
    PROVE  Flow(del, n, s, Append(inc, x)) = Append(Flow(del, n, s, inc), x)
<1> DEFINE d == del \o (Held(n) \o Held(s))
<1>1. d \in Seq(Int)
  BY HeldSeq, ConcatProperties
<1> HIDE DEF d
<1>2. <<x>> \in Seq(Int) /\ d \o inc \in Seq(Int)
  BY <1>1, ConcatProperties
<1>3. Append(inc, x) = inc \o <<x>> /\ Append(d \o inc, x) = (d \o inc) \o <<x>>
  BY <1>2, AppendIsConcat
<1>4. (d \o inc) \o <<x>> = d \o (inc \o <<x>>)
  BY <1>1, <1>2, ConcatAssociative
<1> QED BY <1>3, <1>4 DEF Flow, d

(* The loop of the subscription takes the first message of the queue. *)
LEMMA FlowSubTakes ==
    ASSUME NEW del \in Seq(Int), NEW n \in Int, NEW inc \in Seq(Int), inc # <<>>, Head(inc) > NoMsg
    PROVE  Flow(del, n, Head(inc), Tail(inc)) = Flow(del, n, NoMsg, inc)
<1> DEFINE h == Head(inc)
           t == Tail(inc)
<1>1. h \in Int /\ t \in Seq(Int) /\ inc = <<h>> \o t
  <2>1. h \in Int /\ t \in Seq(Int) /\ Len(t) = Len(inc) - 1 /\ \A i \in 1..Len(t) : t[i] = inc[i + 1]
    BY HeadTailProperties
  <2>2. Len(inc) \in Nat \ {0} /\ h = inc[1]
    BY EmptySeq
  <2>3. <<h>> \in Seq(Int) /\ Len(<<h>>) = 1
    BY <2>1
  <2> HIDE DEF h, t
  <2>4. /\ <<h>> \o t \in Seq(Int) /\ Len(<<h>> \o t) = Len(inc)
        /\ \A i \in 1..Len(inc) : (<<h>> \o t)[i] = IF i <= 1 THEN <<h>>[i] ELSE t[i - 1]
    BY <2>1, <2>2, <2>3, ConcatProperties
  <2>5. \A i \in 1..Len(inc) : (<<h>> \o t)[i] = inc[i]
    BY <2>1, <2>2, <2>4
  <2> QED BY <2>1, <2>4, <2>5, SeqEqual
<1> HIDE DEF h, t
<1>2. Held(h) = <<h>> /\ Held(NoMsg) = <<>>
  BY DEF Held, NoMsg, h
<1>3. Held(n) \in Seq(Int) /\ <<h>> \in Seq(Int)
  BY <1>1, HeldSeq
<1>4. Held(n) \o <<>> = Held(n)
  BY <1>3, ConcatEmptySeq
<1>5. Held(n) \o <<h>> \in Seq(Int) /\ del \o Held(n) \in Seq(Int)
  BY <1>3, ConcatProperties
<1>6. (del \o Held(n)) \o <<h>> = del \o (Held(n) \o <<h>>)
  BY <1>3, ConcatAssoc, Zenon
<1>7. ((del \o Held(n)) \o <<h>>) \o t = (del \o Held(n)) \o (<<h>> \o t)
  BY <1>1, <1>3, <1>5, ConcatAssociative
<1> QED BY <1>1, <1>2, <1>4, <1>6, <1>7 DEF Flow, h, t

(* The loop of the node takes the message from that of the subscription, *)
LEMMA FlowNodeTakes ==
    ASSUME NEW del \in Seq(Int), NEW s \in Int, s > NoMsg, NEW inc \in Seq(Int)
    PROVE  Flow(del, s, NoMsg, inc) = Flow(del, NoMsg, s, inc)
<1>1. Held(s) = <<s>> /\ Held(NoMsg) = <<>> /\ <<s>> \in Seq(Int)
  BY DEF Held, NoMsg
<1>2. <<>> \o <<s>> = <<s>> /\ <<s>> \o <<>> = <<s>>
  BY <1>1, ConcatEmptySeq
<1> QED BY <1>1, <1>2 DEF Flow

(* and the reader gets it. *)
LEMMA FlowDelivers ==
    ASSUME NEW del \in Seq(Int), NEW n \in Int, n > NoMsg, NEW s \in Int, NEW inc \in Seq(Int)
    PROVE  Flow(Append(del, n), NoMsg, s, inc) = Flow(del, n, s, inc)
<1>1. Held(n) = <<n>> /\ Held(NoMsg) = <<>> /\ <<n>> \in Seq(Int) /\ Held(s) \in Seq(Int)
  BY HeldSeq DEF Held, NoMsg
<1>2. Append(del, n) = del \o <<n>> /\ <<>> \o Held(s) = Held(s)
  BY <1>1, AppendIsConcat, ConcatEmptySeq
<1>3. (del \o <<n>>) \o Held(s) = del \o (<<n>> \o Held(s))
  BY <1>1, ConcatAssociative
<1> QED BY <1>1, <1>2, <1>3 DEF Flow

\* The messages on their way are those that came, in order, without those that
\* found the queue full.
TopicInd(del, node, sub, inc, n) ==
    LET f == Flow(del, node, sub, inc)
    IN  /\ del \in Seq(Int) /\ node \in Int /\ sub \in Int /\ inc \in Seq(Int) /\ n \in Nat
        /\ Len(inc) <= QueueLen /\ \A i \in 1..Len(inc) : inc[i] > NoMsg
        /\ Increasing(f) /\ \A i \in 1..Len(f) : f[i] <= n
        /\ Len(f) <= n /\ (n <= QueueLen => Len(f) = n)

\* The parts of the invariant: what is on its way,
CarriedInd ==
    /\ incoming \in [Topic -> Seq(Int)] /\ nodeDelivered \in [Topic -> Seq(Int)]
    /\ seen \in [Topic -> Nat] /\ subLoop \in [Topic -> Int] /\ nodeLoop \in [Topic -> Int]
    /\ \A t \in Topic : TopicInd(nodeDelivered[t], nodeLoop[t], subLoop[t], incoming[t], seen[t])

\* what has been started (a loop runs only for a topic that Start has reached, and
\* when the event handlers are called there is a topic they have not seen),
StartInd ==
    /\ startPc \in {"new", "host", "pubsub", "hostOnly", "topics", "event", "up", "failed"}
    /\ stopPc \in {"none", "wait", "stopping", "closing", "closed", "crashed"}
    /\ mu \in {Free, "stop"} /\ subscribed \subseteq Topic /\ scored \subseteq subscribed
    /\ startPc = "event" => subscribed \ scored # {}
    /\ \A t \in Topic \ scored : nodeLoop[t] = Ended
    /\ \A t \in Topic \ subscribed : subLoop[t] = Ended

\* and that no callback holds the read lock once the notifee is stopped.
MonitorInd ==
    /\ conn \in [Conn -> {"no", "conn", "connSend", "up", "disc", "discSend", "gone"}]
    /\ ~sendClosed /\ (stopped => Readers = {})

NodeInd == CarriedInd /\ StartInd /\ MonitorInd

LEMMA NodeInitInd == NodeInit => NodeInd
<1> SUFFICES ASSUME NodeInit PROVE NodeInd
  OBVIOUS
<1>1. QueueLen \in Nat
  BY NodeAssumption
<1>2. Held(Ended) = <<>> /\ <<>> \in Seq(Int) /\ Len(<<>>) = 0
  BY EmptySeq DEF Held, Ended, NoMsg
<1>3. <<>> \o <<>> = <<>>
  BY <1>2, ConcatEmptySeq
<1>4. Flow(<<>>, Ended, Ended, <<>>) = <<>>
  BY <1>2, <1>3 DEF Flow
<1>5. TopicInd(<<>>, Ended, Ended, <<>>, 0)
  BY <1>1, <1>2, <1>4 DEF TopicInd, Ended, Increasing
<1>6. \A t \in Topic : /\ nodeDelivered[t] = <<>> /\ nodeLoop[t] = Ended /\ subLoop[t] = Ended
                       /\ incoming[t] = <<>> /\ seen[t] = 0
  BY DEF NodeInit
<1>7. \A t \in Topic : TopicInd(nodeDelivered[t], nodeLoop[t], subLoop[t], incoming[t], seen[t])
  BY <1>5, <1>6
<1>8. /\ incoming \in [Topic -> Seq(Int)] /\ nodeDelivered \in [Topic -> Seq(Int)]
      /\ seen \in [Topic -> Nat] /\ subLoop \in [Topic -> Int] /\ nodeLoop \in [Topic -> Int]
  BY <1>2 DEF NodeInit, Ended
<1>9. /\ ~sendClosed /\ ~stopped /\ conn = [c \in Conn |-> "no"]
      /\ startPc = "new" /\ stopPc = "none" /\ mu = Free /\ subscribed = {} /\ scored = {}
  BY DEF NodeInit
<1>10. CarriedInd /\ StartInd
  BY <1>6, <1>7, <1>8, <1>9 DEF CarriedInd, StartInd
<1>11. MonitorInd
  BY <1>9 DEF MonitorInd
<1> QED BY <1>10, <1>11 DEF NodeInd

(* The steps that move messages keep what is on its way. *)
LEMMA TopicMoves ==
    ASSUME NEW del, NEW node, NEW sub, NEW inc, NEW n, TopicInd(del, node, sub, inc, n)
    PROVE  /\ sub = NoMsg /\ inc # <<>> => TopicInd(del, node, Head(inc), Tail(inc), n)
           /\ node = NoMsg /\ sub > NoMsg => TopicInd(del, sub, NoMsg, inc, n)
           /\ node > NoMsg => TopicInd(Append(del, node), NoMsg, sub, inc, n)
           /\ sub = NoMsg => TopicInd(del, node, Ended, inc, n)
           /\ sub = Ended => TopicInd(del, node, NoMsg, inc, n)
           /\ node = NoMsg => TopicInd(del, Ended, sub, inc, n)
           /\ node = Ended => TopicInd(del, NoMsg, sub, inc, n)
<1>1. /\ del \in Seq(Int) /\ node \in Int /\ sub \in Int /\ inc \in Seq(Int) /\ n \in Nat
      /\ Len(inc) <= QueueLen /\ \A i \in 1..Len(inc) : inc[i] > NoMsg
      /\ NoMsg \in Int /\ Ended \in Int
  BY DEF TopicInd, NoMsg, Ended
<1>2. Held(Ended) = Held(NoMsg)
  BY DEF Held, Ended, NoMsg
<1>3. ASSUME NEW del2 \in Seq(Int), NEW node2 \in Int, NEW sub2 \in Int, NEW inc2 \in Seq(Int),
             Len(inc2) <= QueueLen, \A i \in 1..Len(inc2) : inc2[i] > NoMsg,
             Flow(del2, node2, sub2, inc2) = Flow(del, node, sub, inc)
      PROVE  TopicInd(del2, node2, sub2, inc2, n)
  BY <1>3 DEF TopicInd
<1>4. ASSUME sub = NoMsg, inc # <<>>
      PROVE  TopicInd(del, node, Head(inc), Tail(inc), n)
  <2>1. /\ Head(inc) \in Int /\ Tail(inc) \in Seq(Int) /\ Len(Tail(inc)) = Len(inc) - 1
        /\ \A i \in 1..Len(Tail(inc)) : Tail(inc)[i] = inc[i + 1]
    BY <1>1, <1>4, HeadTailProperties
  <2>2. Len(inc) \in Nat \ {0} /\ Head(inc) = inc[1]
    BY <1>1, <1>4, EmptySeq
  <2>3. Head(inc) > NoMsg
    BY <1>1, <2>2
  <2>4. Flow(del, node, Head(inc), Tail(inc)) = Flow(del, node, sub, inc)
    BY <1>1, <1>4, <2>3, FlowSubTakes
  <2>5. \A i \in 1..Len(Tail(inc)) : Tail(inc)[i] > NoMsg
    BY <1>1, <2>1, <2>2
  <2>6. Len(Tail(inc)) <= QueueLen
    BY <1>1, <2>1, <2>2, NodeAssumption
  <2> QED BY <1>1, <1>3, <2>1, <2>4, <2>5, <2>6
<1>5. ASSUME node = NoMsg, sub > NoMsg
      PROVE  TopicInd(del, sub, NoMsg, inc, n)
  BY <1>1, <1>3, <1>5, FlowNodeTakes
<1>6. ASSUME node > NoMsg
      PROVE  TopicInd(Append(del, node), NoMsg, sub, inc, n)
  <2>1. Append(del, node) \in Seq(Int)
    BY <1>1, AppendProperties
  <2> QED BY <1>1, <1>3, <1>6, <2>1, FlowDelivers
<1>7. sub = NoMsg => TopicInd(del, node, Ended, inc, n)
  BY <1>1, <1>2, <1>3 DEF Flow
<1>8. sub = Ended => TopicInd(del, node, NoMsg, inc, n)
  BY <1>1, <1>2, <1>3 DEF Flow
<1>9. node = NoMsg => TopicInd(del, Ended, sub, inc, n)
  BY <1>1, <1>2, <1>3 DEF Flow
<1>10. node = Ended => TopicInd(del, NoMsg, sub, inc, n)
  BY <1>1, <1>2, <1>3 DEF Flow
<1> QED BY <1>4, <1>5, <1>6, <1>7, <1>8, <1>9, <1>10

(* A message comes: it is the last of the flow, or finds the queue full. *)
LEMMA TopicComes ==
    ASSUME NEW del, NEW node, NEW sub, NEW inc, NEW n, TopicInd(del, node, sub, inc, n)
    PROVE  TopicInd(del, node, sub, IF Len(inc) < QueueLen THEN Append(inc, n + 1) ELSE inc, n + 1)
<1> DEFINE f == Flow(del, node, sub, inc)
<1>1. /\ del \in Seq(Int) /\ node \in Int /\ sub \in Int /\ inc \in Seq(Int) /\ n \in Nat
      /\ Len(inc) <= QueueLen /\ \A i \in 1..Len(inc) : inc[i] > NoMsg
      /\ Increasing(f) /\ \A i \in 1..Len(f) : f[i] <= n
      /\ Len(f) <= n /\ (n <= QueueLen => Len(f) = n)
  BY DEF TopicInd
<1>2. f \in Seq(Int) /\ Len(f) \in Nat /\ Len(inc) \in Nat /\ Len(inc) <= Len(f)
  <2>1. Len(Held(node)) \in Nat /\ Len(Held(sub)) \in Nat
    <3>1. node \in Int /\ sub \in Int
      BY <1>1
    <3>2. Len(Held(node)) \in {0, 1} /\ Len(Held(sub)) \in {0, 1}
      BY <3>1, HeldSeq
    <3> QED BY <3>2
  <2>2. f \in Seq(Int) /\ Len(f) = Len(del) + Len(Held(node)) + Len(Held(sub)) + Len(inc)
    BY <1>1, FlowSeq
  <2>3. Len(del) \in Nat /\ Len(inc) \in Nat
    BY <1>1, LenProperties
  <2> QED BY <2>1, <2>2, <2>3
<1>3. QueueLen \in Nat /\ n + 1 \in Int
  BY <1>1, NodeAssumption
<1>4. CASE Len(inc) < QueueLen
  <2> DEFINE g == Append(f, n + 1)
             inc2 == Append(inc, n + 1)
  <2>1. Flow(del, node, sub, inc2) = g
    BY <1>1, <1>3, FlowAppend
  <2> HIDE DEF f
  <2>2. /\ g \in Seq(Int) /\ Len(g) = Len(f) + 1
        /\ \A i \in 1..Len(f) : g[i] = f[i]
        /\ g[Len(f) + 1] = n + 1
    BY <1>2, <1>3, AppendProperties
  <2>3. /\ inc2 \in Seq(Int) /\ Len(inc2) = Len(inc) + 1
        /\ \A i \in 1..Len(inc) : inc2[i] = inc[i]
        /\ inc2[Len(inc) + 1] = n + 1
    BY <1>1, <1>3, AppendProperties
  <2> HIDE DEF g, inc2
  <2>4. \A i \in 1..Len(f) : f[i] \in Int
    BY <1>2, ElementOfSeq
  <2>a. n \in Nat /\ \A i \in 1..Len(f) : f[i] \in Int /\ f[i] <= n
    BY <1>1, <2>4
  <2>b. \A i, j \in 1..Len(f) : i < j => f[i] < f[j]
    BY <1>1 DEF Increasing
  <2>c. \A i \in 1..Len(g) : i \in 1..Len(f) \/ i = Len(f) + 1
    BY <1>2, <2>2
  <2>5. Increasing(g)
    <3>1. SUFFICES ASSUME NEW i \in 1..Len(g), NEW j \in 1..Len(g), i < j
                   PROVE  g[i] < g[j]
      BY DEF Increasing
    <3>2. i \in 1..Len(f)
      BY <1>2, <2>2, <3>1
    <3>3. g[i] = f[i] /\ f[i] \in Int /\ f[i] <= n
      BY <2>2, <2>a, <3>2
    <3>4. CASE j \in 1..Len(f)
      BY <2>2, <2>b, <3>1, <3>2, <3>4
    <3>5. CASE j = Len(f) + 1
      BY <2>2, <2>a, <3>3, <3>5
    <3> QED BY <2>c, <3>4, <3>5
  <2>6. \A i \in 1..Len(g) : g[i] <= n + 1
    <3>1. SUFFICES ASSUME NEW i \in 1..Len(g)
                   PROVE  g[i] <= n + 1
      OBVIOUS
    <3>2. CASE i \in 1..Len(f)
      <4>1. g[i] = f[i] /\ f[i] \in Int /\ f[i] <= n /\ n \in Nat
        BY <2>2, <2>a, <3>2
      <4> QED BY <4>1
    <3>3. CASE i = Len(f) + 1
      <4>1. g[i] = n + 1 /\ n \in Nat
        BY <2>2, <2>a, <3>3
      <4> QED BY <4>1
    <3> QED BY <2>c, <3>1, <3>2, <3>3
  <2>7. \A i \in 1..Len(inc2) : inc2[i] > NoMsg
    <3>1. \A i \in 1..Len(inc2) : i \in 1..Len(inc) \/ i = Len(inc) + 1
      BY <1>2, <2>3
    <3>2. n + 1 > NoMsg
      BY <2>a DEF NoMsg
    <3>3. \A i \in 1..Len(inc) : inc[i] > NoMsg
      BY <1>1
    <3> QED BY <3>1, <3>2, <3>3, <2>3
  <2>8. Len(inc2) <= QueueLen /\ Len(g) <= n + 1 /\ (n + 1 <= QueueLen => Len(g) = n + 1)
    BY <1>1, <1>2, <1>3, <1>4, <2>2, <2>3
  <2>9. TopicInd(del, node, sub, inc2, n + 1)
    BY <1>1, <2>1, <2>3, <2>5, <2>6, <2>7, <2>8 DEF TopicInd
  <2> QED BY <1>4, <2>9 DEF inc2
<1>5. CASE ~(Len(inc) < QueueLen)
  <2> HIDE DEF f
  <2>1. n >= QueueLen
    BY <1>1, <1>2, <1>3, <1>5
  <2>2. \A i \in 1..Len(f) : f[i] <= n + 1
    <3>1. \A i \in 1..Len(f) : f[i] \in Int
      BY <1>2, ElementOfSeq
    <3> QED BY <1>1, <3>1
  <2>3. Len(f) <= n + 1 /\ n + 1 \in Nat /\ ~(n + 1 <= QueueLen)
    BY <1>1, <1>2, <1>3, <2>1
  <2> QED BY <1>1, <1>5, <2>2, <2>3 DEF TopicInd, f
<1> QED BY <1>4, <1>5

(* The topic that has been subscribed to last is the one whose loop begins. *)
LEMMA EventTopic ==
    ASSUME NodeInd, startPc = "event"
    PROVE  LET t == CHOOSE x \in subscribed : nodeLoop[x] = Ended /\ x \notin scored
           IN  t \in subscribed /\ nodeLoop[t] = Ended /\ t \notin scored
<1>1. \E x \in subscribed : nodeLoop[x] = Ended /\ x \notin scored
  BY DEF NodeInd, StartInd
<1> QED BY <1>1

(* One topic changes. *)
LEMMA CarriedOne ==
    ASSUME CarriedInd, NEW t \in Topic,
           /\ incoming' \in [Topic -> Seq(Int)] /\ nodeDelivered' \in [Topic -> Seq(Int)]
           /\ seen' \in [Topic -> Nat] /\ subLoop' \in [Topic -> Int] /\ nodeLoop' \in [Topic -> Int],
           TopicInd(nodeDelivered'[t], nodeLoop'[t], subLoop'[t], incoming'[t], seen'[t]),
           \A u \in Topic \ {t} :
                /\ nodeDelivered'[u] = nodeDelivered[u] /\ nodeLoop'[u] = nodeLoop[u]
                /\ subLoop'[u] = subLoop[u] /\ incoming'[u] = incoming[u] /\ seen'[u] = seen[u]
    PROVE  CarriedInd'
<1>1. ASSUME NEW u \in Topic
      PROVE  TopicInd(nodeDelivered'[u], nodeLoop'[u], subLoop'[u], incoming'[u], seen'[u])
  <2>1. CASE u = t
    BY <2>1
  <2>2. CASE u # t
    BY <2>2 DEF CarriedInd
  <2> QED BY <2>1, <2>2
<1> QED BY <1>1 DEF CarriedInd

LEMMA CarriedStep ==
    ASSUME NodeInd, [NodeNext]_nodeVars
    PROVE  CarriedInd'
<1>1. CarriedInd /\ StartInd /\ NoMsg \in Int /\ Ended \in Int
  BY DEF NodeInd, NoMsg, Ended
<1>2. ASSUME UNCHANGED netVars PROVE CarriedInd'
  BY <1>1, <1>2 DEF CarriedInd, netVars
<1>3. ASSUME NEW t \in Topic
      PROVE  /\ nodeDelivered[t] \in Seq(Int) /\ nodeLoop[t] \in Int /\ subLoop[t] \in Int
             /\ incoming[t] \in Seq(Int) /\ seen[t] \in Nat /\ seen[t] + 1 \in Nat
             /\ TopicInd(nodeDelivered[t], nodeLoop[t], subLoop[t], incoming[t], seen[t])
  BY <1>1 DEF CarriedInd
<1>t. /\ incoming \in [Topic -> Seq(Int)] /\ nodeDelivered \in [Topic -> Seq(Int)]
      /\ seen \in [Topic -> Nat] /\ subLoop \in [Topic -> Int] /\ nodeLoop \in [Topic -> Int]
  BY <1>1 DEF CarriedInd
<1>4. CASE SubscribeNext
  <2>1. CASE UNCHANGED subLoop
    BY <1>2, <1>4, <2>1 DEF SubscribeNext, netVars
  <2>2. CASE ~UNCHANGED subLoop
    <3>1. PICK t \in Missing : subLoop' = [subLoop EXCEPT ![t] = NoMsg]
      BY <1>4, <2>2 DEF SubscribeNext
    <3>2. t \in Topic /\ subLoop[t] = Ended /\ UNCHANGED <<incoming, seen, nodeLoop, nodeDelivered>>
      BY <1>1, <1>4, <3>1 DEF SubscribeNext, Missing, StartInd
    <3>3. TopicInd(nodeDelivered[t], nodeLoop[t], NoMsg, incoming[t], seen[t])
      BY <1>3, <3>2, TopicMoves
    <3>t. /\ incoming' \in [Topic -> Seq(Int)] /\ nodeDelivered' \in [Topic -> Seq(Int)]
          /\ seen' \in [Topic -> Nat] /\ subLoop' \in [Topic -> Int] /\ nodeLoop' \in [Topic -> Int]
      BY <1>t, <1>1, <1>3, <3>1, <3>2, <3>3
    <3>u. /\ TopicInd(nodeDelivered'[t], nodeLoop'[t], subLoop'[t], incoming'[t], seen'[t])
          /\ \A u \in Topic \ {t} :
                /\ nodeDelivered'[u] = nodeDelivered[u] /\ nodeLoop'[u] = nodeLoop[u]
                /\ subLoop'[u] = subLoop[u] /\ incoming'[u] = incoming[u] /\ seen'[u] = seen[u]
      BY <1>t, <1>1, <1>3, <3>1, <3>2, <3>3
    <3> QED BY <1>1, <3>2, <3>t, <3>u, CarriedOne
  <2> QED BY <2>1, <2>2
<1>5. CASE SubscribedEvent
  <2>1. PICK t \in subscribed : nodeLoop[t] = Ended /\ nodeLoop' = [nodeLoop EXCEPT ![t] = NoMsg]
    BY <1>5, EventTopic DEF SubscribedEvent
  <2>2. t \in Topic /\ UNCHANGED <<incoming, seen, subLoop, nodeDelivered>>
    BY <1>1, <1>5, <2>1 DEF SubscribedEvent, StartInd
  <2>3. TopicInd(nodeDelivered[t], NoMsg, subLoop[t], incoming[t], seen[t])
    BY <1>3, <2>1, <2>2, TopicMoves
  <2>t. /\ incoming' \in [Topic -> Seq(Int)] /\ nodeDelivered' \in [Topic -> Seq(Int)]
        /\ seen' \in [Topic -> Nat] /\ subLoop' \in [Topic -> Int] /\ nodeLoop' \in [Topic -> Int]
    BY <1>t, <1>1, <1>3, <2>1, <2>2, <2>3
  <2>u. /\ TopicInd(nodeDelivered'[t], nodeLoop'[t], subLoop'[t], incoming'[t], seen'[t])
        /\ \A u \in Topic \ {t} :
              /\ nodeDelivered'[u] = nodeDelivered[u] /\ nodeLoop'[u] = nodeLoop[u]
              /\ subLoop'[u] = subLoop[u] /\ incoming'[u] = incoming[u] /\ seen'[u] = seen[u]
    BY <1>t, <1>1, <1>3, <2>1, <2>2, <2>3
  <2> QED BY <1>1, <2>2, <2>t, <2>u, CarriedOne
<1>6. ASSUME NEW t \in Topic, MessageComes(t)
      PROVE  CarriedInd'
  <2> DEFINE q == IF Len(incoming[t]) < QueueLen THEN Append(incoming[t], seen[t] + 1) ELSE incoming[t]
  <2>1. /\ seen' = [seen EXCEPT ![t] = seen[t] + 1] /\ incoming' = [incoming EXCEPT ![t] = q]
        /\ UNCHANGED <<subLoop, nodeLoop, nodeDelivered>>
    BY <1>6 DEF MessageComes
  <2>2. q \in Seq(Int)
    BY <1>3
  <2>3. TopicInd(nodeDelivered[t], nodeLoop[t], subLoop[t], q, seen[t] + 1)
    BY <1>3, TopicComes
  <2> HIDE DEF q
  <2>t. /\ incoming' \in [Topic -> Seq(Int)] /\ nodeDelivered' \in [Topic -> Seq(Int)]
        /\ seen' \in [Topic -> Nat] /\ subLoop' \in [Topic -> Int] /\ nodeLoop' \in [Topic -> Int]
    BY <1>t, <1>1, <1>3, <2>1, <2>2, <2>3
  <2>u. /\ TopicInd(nodeDelivered'[t], nodeLoop'[t], subLoop'[t], incoming'[t], seen'[t])
        /\ \A u \in Topic \ {t} :
              /\ nodeDelivered'[u] = nodeDelivered[u] /\ nodeLoop'[u] = nodeLoop[u]
              /\ subLoop'[u] = subLoop[u] /\ incoming'[u] = incoming[u] /\ seen'[u] = seen[u]
    BY <1>t, <1>1, <1>3, <2>1, <2>2, <2>3
  <2> QED BY <1>1, <2>t, <2>u, CarriedOne
<1>7. ASSUME NEW t \in Topic, SubLoopTakes(t)
      PROVE  CarriedInd'
  <2>1. /\ subLoop[t] = NoMsg /\ incoming[t] # <<>>
        /\ subLoop' = [subLoop EXCEPT ![t] = Head(incoming[t])]
        /\ incoming' = [incoming EXCEPT ![t] = Tail(incoming[t])]
        /\ UNCHANGED <<seen, nodeLoop, nodeDelivered>>
    BY <1>7 DEF SubLoopTakes
  <2>2. Head(incoming[t]) \in Int /\ Tail(incoming[t]) \in Seq(Int)
    BY <1>3, <2>1, HeadTailProperties
  <2>3. TopicInd(nodeDelivered[t], nodeLoop[t], Head(incoming[t]), Tail(incoming[t]), seen[t])
    BY <1>3, <2>1, TopicMoves
  <2>t. /\ incoming' \in [Topic -> Seq(Int)] /\ nodeDelivered' \in [Topic -> Seq(Int)]
        /\ seen' \in [Topic -> Nat] /\ subLoop' \in [Topic -> Int] /\ nodeLoop' \in [Topic -> Int]
    BY <1>t, <1>1, <1>3, <2>1, <2>2, <2>3
  <2>u. /\ TopicInd(nodeDelivered'[t], nodeLoop'[t], subLoop'[t], incoming'[t], seen'[t])
        /\ \A u \in Topic \ {t} :
              /\ nodeDelivered'[u] = nodeDelivered[u] /\ nodeLoop'[u] = nodeLoop[u]
              /\ subLoop'[u] = subLoop[u] /\ incoming'[u] = incoming[u] /\ seen'[u] = seen[u]
    BY <1>t, <1>1, <1>3, <2>1, <2>2, <2>3
  <2> QED BY <1>1, <2>t, <2>u, CarriedOne
<1>8. ASSUME NEW t \in Topic, SubLoopEnds(t)
      PROVE  CarriedInd'
  <2>1. /\ subLoop[t] = NoMsg /\ subLoop' = [subLoop EXCEPT ![t] = Ended]
        /\ UNCHANGED <<incoming, seen, nodeLoop, nodeDelivered>>
    BY <1>8 DEF SubLoopEnds
  <2>2. TopicInd(nodeDelivered[t], nodeLoop[t], Ended, incoming[t], seen[t])
    BY <1>3, <2>1, TopicMoves
  <2>t. /\ incoming' \in [Topic -> Seq(Int)] /\ nodeDelivered' \in [Topic -> Seq(Int)]
        /\ seen' \in [Topic -> Nat] /\ subLoop' \in [Topic -> Int] /\ nodeLoop' \in [Topic -> Int]
    BY <1>t, <1>1, <1>3, <2>1, <2>2
  <2>u. /\ TopicInd(nodeDelivered'[t], nodeLoop'[t], subLoop'[t], incoming'[t], seen'[t])
        /\ \A u \in Topic \ {t} :
              /\ nodeDelivered'[u] = nodeDelivered[u] /\ nodeLoop'[u] = nodeLoop[u]
              /\ subLoop'[u] = subLoop[u] /\ incoming'[u] = incoming[u] /\ seen'[u] = seen[u]
    BY <1>t, <1>1, <1>3, <2>1, <2>2
  <2> QED BY <1>1, <2>t, <2>u, CarriedOne
<1>9. ASSUME NEW t \in Topic, NodeLoopTakes(t)
      PROVE  CarriedInd'
  <2>1. /\ nodeLoop[t] = NoMsg /\ subLoop[t] > NoMsg
        /\ nodeLoop' = [nodeLoop EXCEPT ![t] = subLoop[t]] /\ subLoop' = [subLoop EXCEPT ![t] = NoMsg]
        /\ UNCHANGED <<incoming, seen, nodeDelivered>>
    BY <1>9 DEF NodeLoopTakes
  <2>2. TopicInd(nodeDelivered[t], subLoop[t], NoMsg, incoming[t], seen[t])
    BY <1>3, <2>1, TopicMoves
  <2>t. /\ incoming' \in [Topic -> Seq(Int)] /\ nodeDelivered' \in [Topic -> Seq(Int)]
        /\ seen' \in [Topic -> Nat] /\ subLoop' \in [Topic -> Int] /\ nodeLoop' \in [Topic -> Int]
    BY <1>t, <1>1, <1>3, <2>1, <2>2
  <2>u. /\ TopicInd(nodeDelivered'[t], nodeLoop'[t], subLoop'[t], incoming'[t], seen'[t])
        /\ \A u \in Topic \ {t} :
              /\ nodeDelivered'[u] = nodeDelivered[u] /\ nodeLoop'[u] = nodeLoop[u]
              /\ subLoop'[u] = subLoop[u] /\ incoming'[u] = incoming[u] /\ seen'[u] = seen[u]
    BY <1>t, <1>1, <1>3, <2>1, <2>2
  <2> QED BY <1>1, <2>t, <2>u, CarriedOne
<1>10. ASSUME NEW t \in Topic, NodeLoopEnds(t)
      PROVE  CarriedInd'
  <2>1. /\ nodeLoop[t] = NoMsg /\ nodeLoop' = [nodeLoop EXCEPT ![t] = Ended]
        /\ UNCHANGED <<incoming, seen, subLoop, nodeDelivered>>
    BY <1>10 DEF NodeLoopEnds
  <2>2. TopicInd(nodeDelivered[t], Ended, subLoop[t], incoming[t], seen[t])
    BY <1>3, <2>1, TopicMoves
  <2>t. /\ incoming' \in [Topic -> Seq(Int)] /\ nodeDelivered' \in [Topic -> Seq(Int)]
        /\ seen' \in [Topic -> Nat] /\ subLoop' \in [Topic -> Int] /\ nodeLoop' \in [Topic -> Int]
    BY <1>t, <1>1, <1>3, <2>1, <2>2
  <2>u. /\ TopicInd(nodeDelivered'[t], nodeLoop'[t], subLoop'[t], incoming'[t], seen'[t])
        /\ \A u \in Topic \ {t} :
              /\ nodeDelivered'[u] = nodeDelivered[u] /\ nodeLoop'[u] = nodeLoop[u]
              /\ subLoop'[u] = subLoop[u] /\ incoming'[u] = incoming[u] /\ seen'[u] = seen[u]
    BY <1>t, <1>1, <1>3, <2>1, <2>2
  <2> QED BY <1>1, <2>t, <2>u, CarriedOne
<1>11. ASSUME NEW t \in Topic, DeliverMsg(t)
      PROVE  CarriedInd'
  <2>1. /\ nodeLoop[t] > NoMsg /\ nodeLoop' = [nodeLoop EXCEPT ![t] = NoMsg]
        /\ nodeDelivered' = [nodeDelivered EXCEPT ![t] = Append(nodeDelivered[t], nodeLoop[t])]
        /\ UNCHANGED <<incoming, seen, subLoop>>
    BY <1>11 DEF DeliverMsg
  <2>2. Append(nodeDelivered[t], nodeLoop[t]) \in Seq(Int)
    BY <1>3, AppendProperties
  <2>3. TopicInd(Append(nodeDelivered[t], nodeLoop[t]), NoMsg, subLoop[t], incoming[t], seen[t])
    BY <1>3, <2>1, TopicMoves
  <2>t. /\ incoming' \in [Topic -> Seq(Int)] /\ nodeDelivered' \in [Topic -> Seq(Int)]
        /\ seen' \in [Topic -> Nat] /\ subLoop' \in [Topic -> Int] /\ nodeLoop' \in [Topic -> Int]
    BY <1>t, <1>1, <1>3, <2>1, <2>2, <2>3
  <2>u. /\ TopicInd(nodeDelivered'[t], nodeLoop'[t], subLoop'[t], incoming'[t], seen'[t])
        /\ \A u \in Topic \ {t} :
              /\ nodeDelivered'[u] = nodeDelivered[u] /\ nodeLoop'[u] = nodeLoop[u]
              /\ subLoop'[u] = subLoop[u] /\ incoming'[u] = incoming[u] /\ seen'[u] = seen[u]
    BY <1>t, <1>1, <1>3, <2>1, <2>2, <2>3
  <2> QED BY <1>1, <2>t, <2>u, CarriedOne
<1>12. CASE StartNode \/ HostStarts \/ PubSubStarts \/ StartReturns \/ CancelContext \/ MonitorDone \/ MonitorStops
            \/ MonitorRemoves \/ StopBegins \/ StopLocks \/ StopEnds \/ UNCHANGED nodeVars
  BY <1>2, <1>12 DEF StartNode, HostStarts, PubSubStarts, StartReturns, CancelContext, MonitorDone, MonitorStops,
              MonitorRemoves, StopBegins, StopLocks, StopEnds, nodeVars, netVars
<1>13. CASE \E c \in Conn : Connect(c) \/ Disconnect(c) \/ CallbackLocks(c) \/ CallbackSends(c) \/ CloseLate(c)
  BY <1>2, <1>13 DEF Connect, Disconnect, CallbackLocks, CallbackSends, CloseLate
<1> QED BY <1>4, <1>5, <1>6, <1>7, <1>8, <1>9, <1>10, <1>11, <1>12, <1>13 DEF NodeNext

LEMMA NodeStartStep ==
    ASSUME NodeInd, [NodeNext]_nodeVars
    PROVE  StartInd'
<1>1. CarriedInd /\ StartInd /\ NoMsg # Ended
  BY DEF NodeInd, NoMsg, Ended
<1>2. nodeLoop \in [Topic -> Int] /\ subLoop \in [Topic -> Int]
  BY <1>1 DEF CarriedInd
<1>3. ASSUME UNCHANGED <<startPc, stopPc, mu, subscribed, scored, nodeLoop, subLoop>> PROVE StartInd'
  BY <1>1, <1>3 DEF StartInd
<1>4. CASE StartNode
  BY <1>1, <1>4 DEF StartNode, StartInd, netVars
<1>5. CASE HostStarts \/ PubSubStarts
  BY <1>1, <1>5 DEF HostStarts, PubSubStarts, StartInd, monVars, netVars
<1>6. CASE SubscribeNext
  <2>1. CASE stopPc \in {"wait", "stopping"}
    <3>1. PICK t \in Missing : /\ subscribed' = subscribed \cup {t} /\ startPc' = "event"
                               /\ subLoop' = [subLoop EXCEPT ![t] = NoMsg]
      BY <1>6, <2>1 DEF SubscribeNext
    <3>2. UNCHANGED <<scored, mu, stopPc, nodeLoop>> /\ t \in Topic \ subscribed
      BY <1>6, <3>1 DEF SubscribeNext, Missing
    <3>3. \A u \in Topic \ subscribed' : subLoop'[u] = Ended
      BY <1>1, <1>2, <3>1, <3>2 DEF StartInd
    <3>4. subscribed' \subseteq Topic /\ scored' \subseteq subscribed' /\ t \in subscribed' \ scored'
      BY <1>1, <3>1, <3>2 DEF StartInd
    <3> QED BY <1>1, <3>1, <3>2, <3>3, <3>4 DEF StartInd
  <2>2. CASE stopPc \notin {"wait", "stopping"}
    BY <1>1, <1>6, <2>2 DEF SubscribeNext, StartInd
  <2> QED BY <2>1, <2>2
<1>7. CASE SubscribedEvent
  <2>1. PICK t \in subscribed : /\ scored' = scored \cup {t}
                                /\ nodeLoop' = [nodeLoop EXCEPT ![t] = NoMsg]
    BY <1>7, EventTopic DEF SubscribedEvent
  <2>2. \A u \in Topic \ scored' : nodeLoop'[u] = Ended
    BY <1>1, <1>2, <2>1 DEF StartInd
  <2> QED BY <1>1, <1>7, <2>1, <2>2 DEF SubscribedEvent, StartInd
<1>8. CASE StartReturns
  BY <1>1, <1>8 DEF StartReturns, StartInd, netVars
<1>9. CASE CancelContext \/ MonitorDone \/ MonitorStops \/ MonitorRemoves \/ UNCHANGED nodeVars
  BY <1>3, <1>9 DEF CancelContext, MonitorDone, MonitorStops, MonitorRemoves, nodeVars, netVars
<1>10. CASE \E c \in Conn : Connect(c) \/ Disconnect(c) \/ CallbackLocks(c) \/ CallbackSends(c) \/ CloseLate(c)
  BY <1>3, <1>10 DEF Connect, Disconnect, CallbackLocks, CallbackSends, CloseLate, netVars
<1>11. CASE StopBegins \/ StopLocks \/ StopEnds
  BY <1>1, <1>11 DEF StopBegins, StopLocks, StopEnds, StartInd, netVars
<1>12. ASSUME NEW t \in Topic,
              MessageComes(t) \/ SubLoopTakes(t) \/ SubLoopEnds(t) \/ NodeLoopTakes(t)
              \/ NodeLoopEnds(t) \/ DeliverMsg(t)
       PROVE  StartInd'
  <2>1. UNCHANGED <<startPc, stopPc, mu, subscribed, scored>>
    BY <1>12 DEF MessageComes, SubLoopTakes, SubLoopEnds, NodeLoopTakes, NodeLoopEnds, DeliverMsg
  <2>2. \/ UNCHANGED nodeLoop
        \/ nodeLoop[t] # Ended /\ \A u \in Topic \ {t} : nodeLoop'[u] = nodeLoop[u]
    BY <1>2, <1>12 DEF MessageComes, SubLoopTakes, SubLoopEnds, NodeLoopTakes, NodeLoopEnds, DeliverMsg,
                NoMsg, Ended
  <2>3. \/ UNCHANGED subLoop
        \/ subLoop[t] # Ended /\ \A u \in Topic \ {t} : subLoop'[u] = subLoop[u]
    BY <1>2, <1>12 DEF MessageComes, SubLoopTakes, SubLoopEnds, NodeLoopTakes, NodeLoopEnds, DeliverMsg,
                NoMsg, Ended
  <2>4. \A u \in Topic \ scored : nodeLoop'[u] = Ended
    BY <1>1, <2>2 DEF StartInd
  <2>5. \A u \in Topic \ subscribed : subLoop'[u] = Ended
    BY <1>1, <2>3 DEF StartInd
  <2> QED BY <1>1, <2>1, <2>4, <2>5 DEF StartInd
<1> QED BY <1>4, <1>5, <1>6, <1>7, <1>8, <1>9, <1>10, <1>11, <1>12 DEF NodeNext

LEMMA NodeMonitorStep ==
    ASSUME NodeInd, [NodeNext]_nodeVars
    PROVE  MonitorInd'
<1>1. MonitorInd
  BY DEF NodeInd
<1>2. ASSUME UNCHANGED monVars PROVE MonitorInd'
  BY <1>1, <1>2 DEF MonitorInd, monVars, Readers
<1>3. CASE StartNode \/ HostStarts \/ SubscribeNext \/ SubscribedEvent \/ StartReturns \/ CancelContext
           \/ StopBegins \/ StopEnds \/ UNCHANGED nodeVars
  BY <1>2, <1>3 DEF StartNode, HostStarts, SubscribeNext, SubscribedEvent, StartReturns, CancelContext, StopBegins,
             StopEnds, nodeVars, monVars
<1>4. CASE \E t \in Topic : MessageComes(t) \/ SubLoopTakes(t) \/ SubLoopEnds(t) \/ NodeLoopTakes(t)
                        \/ NodeLoopEnds(t) \/ DeliverMsg(t)
  BY <1>2, <1>4 DEF MessageComes, SubLoopTakes, SubLoopEnds, NodeLoopTakes, NodeLoopEnds, DeliverMsg
<1>5. CASE PubSubStarts \/ MonitorDone \/ MonitorRemoves
  BY <1>1, <1>5 DEF PubSubStarts, MonitorDone, MonitorRemoves, MonitorInd, Readers
<1>6. CASE MonitorStops
  BY <1>1, <1>6 DEF MonitorStops, MonitorInd, Readers
<1>7. CASE StopLocks
  BY <1>1, <1>7 DEF StopLocks, MonitorInd, Readers
<1>8. ASSUME NEW c \in Conn, Connect(c) \/ Disconnect(c) \/ CloseLate(c)
      PROVE  MonitorInd'
  BY <1>1, <1>8 DEF Connect, Disconnect, CloseLate, MonitorInd, Readers
<1>9. ASSUME NEW c \in Conn, CallbackLocks(c)
      PROVE  MonitorInd'
  BY <1>1, <1>9 DEF CallbackLocks, Called, MonitorInd, Readers
<1>10. ASSUME NEW c \in Conn, CallbackSends(c)
      PROVE  MonitorInd'
  BY <1>1, <1>10 DEF CallbackSends, MonitorInd, Readers
<1> QED BY <1>3, <1>4, <1>5, <1>6, <1>7, <1>8, <1>9, <1>10 DEF NodeNext

LEMMA NodeIndCarried == NodeInd => MessagesCarried
<1> SUFFICES ASSUME NodeInd PROVE MessagesCarried
  OBVIOUS
<1>1. \A t \in Topic : TopicInd(nodeDelivered[t], nodeLoop[t], subLoop[t], incoming[t], seen[t])
  BY DEF NodeInd, CarriedInd
<1>2. CarriedInOrder
  BY <1>1 DEF CarriedInOrder, TopicInd, Flow, Held, Increasing
<1>3. \A t \in Topic : Len(incoming[t]) <= QueueLen
  BY <1>1 DEF TopicInd
<1>4. NodeTypeOK /\ NeverSendsOnClosed
  BY <1>3 DEF NodeInd, StartInd, MonitorInd, NodeTypeOK, NeverSendsOnClosed
<1> QED BY <1>2, <1>4 DEF MessagesCarried

(* The libp2p node hands the messages of every topic to the reader in the order *)
(* they came, each once and without a gap behind the queue, through the two     *)
(* loops that start and end on their own; and no callback of the network sends  *)
(* on the channel of the monitor after monitorNotifee.Stop has closed it. For   *)
(* any number of topics, connections and messages.                              *)
THEOREM NodeCarries ==
    NodeSpec => []MessagesCarried
<1>1. NodeInd /\ [NodeNext]_nodeVars => NodeInd'
  BY CarriedStep, NodeStartStep, NodeMonitorStep DEF NodeInd
<1> QED BY <1>1, NodeInitInd, NodeIndCarried, PTL DEF NodeSpec
=====
