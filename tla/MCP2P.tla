------------------------------- MODULE MCP2P -------------------------------
(***************************************************************************)
(* The libp2p transport for TLC: its validators, and the node.             *)
(***************************************************************************)
EXTENDS P2PNode, P2PValidators

p2pVars == <<nodeVars, vVars>>

\* States in which a part is at rest, while the other one is checked.
NodeOver ==
    /\ startPc = "failed" /\ subscribed = {} /\ scored = {} /\ mu = Free
    /\ ctxDone = FALSE /\ stopPc = "none"
    /\ conn = [c \in Conn |-> "no"] /\ monPc = "none" /\ stopped = FALSE /\ sendClosed = FALSE
    /\ incoming = [t \in Topic |-> <<>>] /\ seen = [t \in Topic |-> 0]
    /\ subLoop = [t \in Topic |-> Ended] /\ nodeLoop = [t \in Topic |-> Ended]
    /\ nodeDelivered = [t \in Topic |-> <<>>]

VOver ==
    /\ vnow = VMaxTime /\ verdict = NoVerdict /\ vcount = VMaxMsgs
    /\ relayLim = [r \in Relay |-> NoLimiter] /\ authorLim = [a \in Author |-> NoLimiter]
    /\ relayBytes = [r \in Relay |-> 0] /\ authorBytes = [a \in Author |-> 0]

P2PInit == (NodeInit /\ VOver) \/ (NodeOver /\ VInit)

P2PNext ==
    \/ NodeNext /\ UNCHANGED vVars
    \/ VNext /\ UNCHANGED nodeVars

P2PSpec == P2PInit /\ [][P2PNext]_p2pVars /\ NodeFairness
=============================================================================
