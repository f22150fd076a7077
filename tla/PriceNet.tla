------------------------------- MODULE PriceNet -------------------------------
(***************************************************************************)
(* What the price feeds and the message transport promise to a price store:*)
(* a growing set of signed price messages, none of which carries a         *)
(* timestamp from the future, that a receiver may see late, in any order,  *)
(* several times or never.  Feeder.tla is the detailed specification of    *)
(* the sending side and is shown to implement this one.                    *)
(*                                                                         *)
(* The transports (libp2p gossip, the web API) add their own loss and      *)
(* duplication; nothing here says that a message is ever delivered.        *)
(***************************************************************************)
EXTENDS Integers, FiniteSets

CONSTANTS Wats,       \* asset names that appear in messages, configured or not
          Feeders,    \* Ethereum addresses that sign prices
          Vals,       \* median.Price.Val: the price times PriceMultiplier
          ZeroTime,   \* the zero value of time.Time, long before any clock
          MaxTime,    \* bound on the clock, in seconds
          MaxNet      \* bound on the number of different messages

ASSUME PriceNetAssumption ==
    /\ Vals \subseteq Nat
    /\ ZeroTime \in Int /\ ZeroTime < 0
    /\ MaxTime \in Nat
    /\ MaxNet \in Nat

VARIABLES now,        \* wall clock of every process, in seconds
          net         \* price messages handed to the transport so far

netVars == <<now, net>>

(***************************************************************************)
(* messages.Price with the address its signature recovers to.  The hash    *)
(* that is signed covers Wat, Val and the age in whole seconds, so age is a*)
(* number of seconds.  A price may carry the zero time: a median whose     *)
(* first source failed has no other (Feeder.tla).                          *)
(***************************************************************************)
Ages == Nat \union {ZeroTime}
Message == [wat : Wats, val : Vals, age : Ages, from : Feeders]

NetInit ==
    /\ now = 0
    /\ net = {}

NetTypeOK ==
    /\ now \in Nat
    /\ net \subseteq Message

\* Time passes.
AdvanceClock ==
    /\ now < MaxTime
    /\ now' = now + 1
    /\ net' = net

\* Feeder f hands one more price to the transport.  The age is the time of
\* the data behind the price, which is never ahead of the clock (assumed of the
\* origins), or no time at all.
Publish(f) ==
    /\ Cardinality(net) < MaxNet
    /\ \E w \in Wats, v \in Vals, a \in {ZeroTime} \union 0..now :
          net' = net \union {[wat |-> w, val |-> v, age |-> a, from |-> f]}
    /\ now' = now

NetNext == AdvanceClock \/ \E f \in Feeders : Publish(f)

NetSpec == NetInit /\ [][NetNext]_netVars

===============================================================================
