----------------------------- MODULE P2PValidators -----------------------------
(***************************************************************************)
(* The validators of the libp2p transport (pkg/transport/libp2p): every    *)
(* message that comes from a relay passes the limiters of the relay and of *)
(* the author, is unmarshalled, and is checked for its author, its         *)
(* signature and its age. "ignore" drops it, "reject" also lowers the      *)
(* score of the relay. The gossip library verifies the signature of the    *)
(* author and shows a message to the validators once (external).           *)
(***************************************************************************)
EXTENDS Integers, Sequences, FiniteSets

CONSTANTS Author, Allowed,     \* AuthorAllowlist
          Relay, Self,         \* peers that messages come from; the node itself
          Rate, Burst,         \* of an author, per unit of time
          RelayRate, RelayBurst,
          IgnoreAge, RejectAge,
          Sizes, Transit,      \* how long a message is on its way from a relay
          VMaxTime, VMaxMsgs

\* rateLimiterConfig: the burst is what comes in priceUpdateInterval.
ASSUME LimiterAssumption ==
    /\ Rate \in Nat \ {0} /\ RelayRate \in Nat \ {0}
    /\ Burst \in Nat /\ RelayBurst \in Nat
    /\ Burst % Rate = 0 /\ RelayBurst % RelayRate = 0
    /\ Self \in Relay
    /\ IgnoreAge \in Nat /\ RejectAge \in Nat /\ IgnoreAge < RejectAge
    /\ Sizes \subseteq Nat /\ Transit \in Nat /\ VMaxTime \in Nat

VARIABLES vnow,
          relayLim, authorLim,   \* peerLimiters: tokens and time of the last message
          verdict,               \* the last message and what became of it
          relayBytes, authorBytes,   \* let through so far
          vcount

vVars == <<vnow, relayLim, authorLim, verdict, relayBytes, authorBytes, vcount>>

NoLimiter == [tokens |-> -1, last |-> 0]
NoVerdict == [result |-> "none", why |-> "none", honest |-> FALSE, genuine |-> FALSE, within |-> FALSE]

Least(x, y) == IF x < y THEN x ELSE y

\* peerLimiter: a new one is full. rate.Limiter fills it up as time passes.
Tokens(lim, rate, burst) ==
    IF lim = NoLimiter THEN burst ELSE Least(burst, lim.tokens + (vnow - lim.last) * rate)

Allows(lim, rate, burst, size) == size <= Tokens(lim, rate, burst)

\* allow: what is refused costs nothing.
Charge(lim, rate, burst, size) ==
    LET t == Tokens(lim, rate, burst)
    IN  [tokens |-> IF size <= t THEN t - size ELSE t, last |-> vnow]

\* Mutant: half of the time is enough.
IdleHalf(lim) == lim # NoLimiter /\ 2 * (vnow - lim.last) >= RelayBurst \div RelayRate

\* gcTTL: the time to fill an empty bucket.
Idle(lim) == lim # NoLimiter /\ vnow - lim.last >= RelayBurst \div RelayRate

VInit ==
    /\ vnow = 0 /\ verdict = NoVerdict /\ vcount = 0
    /\ relayLim = [r \in Relay |-> NoLimiter] /\ authorLim = [a \in Author |-> NoLimiter]
    /\ relayBytes = [r \in Relay |-> 0] /\ authorBytes = [a \in Author |-> 0]

VAdvance ==
    /\ vnow < VMaxTime /\ vnow' = vnow + 1
    /\ UNCHANGED <<relayLim, authorLim, verdict, relayBytes, authorBytes, vcount>>

\* gc, of the limiters of relays: those of authors stay.
Gc ==
    /\ \E r \in Relay : Idle(relayLim[r])
    /\ relayLim' = [r \in Relay |-> IF Idle(relayLim[r]) THEN NoLimiter ELSE relayLim[r]]
    /\ UNCHANGED <<vnow, authorLim, verdict, relayBytes, authorBytes, vcount>>

-----------------------------------------------------------------------------
(* What a message is: its kind by the topic ("garbage" is not unmarshalled, *)
(* the signature of a price is that of the author, of somebody else or      *)
(* invalid), its age, and whether it comes from an honest relay, one that   *)
(* has checked it in the same way before it forwarded it.                   *)

PriceKinds == {"price", "stolen", "unsigned"}

Messages ==
    [author : Author, relay : Relay, kind : PriceKinds \cup {"event", "garbage"},
     age : 0..RejectAge + 1, size : Sizes, honest : BOOLEAN]

messageValidator(m) == IF m.kind = "garbage" THEN "reject" ELSE "accept"
feederValidator(m) == IF m.author \in Allowed THEN "accept" ELSE "ignore"

AgeVerdict(m) ==
    IF m.age > IgnoreAge THEN (IF m.age > RejectAge THEN "reject" ELSE "ignore") ELSE "accept"

eventValidator(m) == IF m.kind = "event" THEN AgeVerdict(m) ELSE "accept"

priceValidator(m) ==
    IF m.kind \notin PriceKinds THEN "accept"
    ELSE IF m.kind = "unsigned" \/ m.kind = "stolen" THEN "reject"
    ELSE AgeVerdict(m)

\* ValidatorSet.Validator: the first that does not accept decides.
Verdict(m) ==
    LET vs == <<messageValidator(m), feederValidator(m), eventValidator(m), priceValidator(m)>>
        no == {i \in 1..Len(vs) : vs[i] # "accept"}
    IN  IF no = {} THEN "accept" ELSE vs[CHOOSE i \in no : \A j \in no : i <= j]

\* Who wrote a message may do so, and signed the price in it.
Genuine(m) == m.author \in Allowed /\ m.kind \in {"price", "event"}

\* What a relay that runs the same validators has forwarded, by the time it comes.
Forwarded(m) == Genuine(m) /\ m.age <= IgnoreAge + Transit

\* With it, relay and author have sent no more than a burst since the start.
Within(m) == relayBytes[m.relay] + m.size <= RelayBurst /\ authorBytes[m.author] + m.size <= Burst

Judge(m, result, why) ==
    verdict' = [result |-> result, why |-> why, honest |-> m.honest, genuine |-> Genuine(m), within |-> Within(m)]

\* Mutant: the author is charged first.
ReceiveAuthorFirst(m) ==
    LET al == Charge(authorLim[m.author], Rate, Burst, m.size)
        ok == Allows(authorLim[m.author], Rate, Burst, m.size)
              /\ Allows(relayLim[m.relay], RelayRate, RelayBurst, m.size)
    IN  /\ authorLim' = [authorLim EXCEPT ![m.author] = al]
        /\ relayLim' = [relayLim EXCEPT ![m.relay] = Charge(@, RelayRate, RelayBurst, m.size)]
        /\ IF ok THEN Judge(m, Verdict(m), "validators")
           ELSE Judge(m, "reject", IF Allows(relayLim[m.relay], RelayRate, RelayBurst, m.size)
                                   THEN "author limit" ELSE "relay limit")
        /\ UNCHANGED <<relayBytes, authorBytes>>

\* A message of the node itself passes no limiter.
Unlimited(m) ==
    /\ Judge(m, Verdict(m), "validators")
    /\ UNCHANGED <<relayLim, authorLim, relayBytes, authorBytes>>

\* RateLimiter and the other validators, in the order of their registration.
\* Both limiters reject.
ReceiveMsg(m) ==
    LET relayOk == Allows(relayLim[m.relay], RelayRate, RelayBurst, m.size)
        authorOk == Allows(authorLim[m.author], Rate, Burst, m.size)
    IN  /\ relayLim' = [relayLim EXCEPT ![m.relay] = Charge(@, RelayRate, RelayBurst, m.size)]
        /\ relayBytes' = [relayBytes EXCEPT ![m.relay] = @ + IF relayOk THEN m.size ELSE 0]
        /\ IF relayOk
           THEN /\ authorLim' = [authorLim EXCEPT ![m.author] = Charge(@, Rate, Burst, m.size)]
                /\ authorBytes' = [authorBytes EXCEPT ![m.author] = @ + IF authorOk THEN m.size ELSE 0]
           ELSE UNCHANGED <<authorLim, authorBytes>>
        /\ IF relayOk /\ authorOk THEN Judge(m, Verdict(m), "validators")
           ELSE Judge(m, "reject", IF relayOk THEN "author limit" ELSE "relay limit")

VReceive ==
    /\ vcount < VMaxMsgs
    /\ \E m \in Messages :
        /\ m.honest => Forwarded(m)
        /\ IF m.relay = Self THEN Unlimited(m) ELSE ReceiveMsg(m)
    /\ vcount' = vcount + 1
    /\ UNCHANGED vnow

VNext == VAdvance \/ Gc \/ VReceive

VSpec == VInit /\ [][VNext]_vVars

-----------------------------------------------------------------------------
(* Properties *)

\* Type correctness.
VTypeOK ==
    /\ vnow \in 0..VMaxTime
    /\ \A r \in Relay : relayLim[r].tokens \in -1..RelayBurst
    /\ \A a \in Author : authorLim[a].tokens \in -1..Burst
    /\ verdict.result \in {"none", "accept", "ignore", "reject"}

\* A relay and an author get no more through than a burst and what their rate
\* gives since the start, although gc forgets relays and a new limiter is full.
BytesBounded ==
    /\ \A r \in Relay : relayBytes[r] <= RelayBurst + RelayRate * vnow
    /\ \A a \in Author : authorBytes[a] <= Burst + Rate * vnow

\* "message authors should not be penalized for misbehaving relays": a message
\* that its relay may not send costs the author nothing.
AuthorNotPenalized ==
    [][vcount' # vcount /\ verdict'.why = "relay limit" => authorLim' = authorLim]_vVars

\* What is accepted is by an allowed author, who also signed the price in it.
AcceptedGenuine ==
    verdict.result = "accept" => verdict.genuine

\* A relay that checks messages in the same way is punished for what it forwards
\* by the limiters alone, which reject as well, and not before it or the author
\* of the message has sent more than a burst; if the message is not on its way
\* for longer than the two age limits lie apart.
HonestRelayNotPunished ==
    verdict.result = "reject" /\ verdict.honest => verdict.why # "validators" /\ ~verdict.within

\* The verdicts of the validators are right: only genuine messages of listed
\* authors pass, within the limits, and a relay that passes them on in time is
\* not punished for anything but the limits.
VerdictsAreRight ==
    /\ VTypeOK /\ BytesBounded /\ AcceptedGenuine /\ HonestRelayNotPunished
=============================================================================
