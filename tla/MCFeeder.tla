------------------------------- MODULE MCFeeder -------------------------------
(* Instances of Feeder for TLC: one pair with a median of two origins.        *)
EXTENDS Feeder

CONSTANTS ethusd, o1, o2

MCChildren == [p \in Pairs |-> <<o1, o2>>]
MCPairList == <<ethusd>>
MCZeroTime == -5
===============================================================================
