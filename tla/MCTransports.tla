----------------------------- MODULE MCTransports -----------------------------
(***************************************************************************)
(* The transports for TLC. A behaviour is one of the WebAPI or one of a    *)
(* chain of local transports; the other has stopped.                       *)
(***************************************************************************)
EXTENDS WebAPI, Channels

WebOver ==
    /\ webTime = WebMaxTime /\ offset = 0 /\ sent = MaxMsgs /\ pack = {} /\ due = {}
    /\ req = [t \in Ticks |-> {}]
    /\ handler = [t \in Ticks |-> [c \in Copies |-> "none"]]
    /\ lastReq = -Long /\ msgCh = <<>> /\ received = {} /\ overlap = {}
    /\ book = [listed |-> TRUE, cache |-> {}, cacheTime |-> -Long]
    /\ webDone = TRUE /\ waitCh = "closed"

ChOver ==
    /\ bcast = [m |-> MaxBroadcasts, t |-> Cardinality(Transports) + 1]
    /\ rawMsgCh = [t \in Transports |-> <<>>] /\ unmarshal = [t \in Transports |-> NoMsg]
    /\ fanned = [t \in Transports |-> <<>>] /\ outs = [t \in Transports |-> <<>>]
    /\ left = [t \in Transports |-> <<>>]
    /\ input = [r \in Readers |-> [t \in Transports |-> NilCh]]
    /\ since = [r \in Readers |-> [t \in Transports |-> 0]]
    /\ got = [r \in Readers |-> [t \in Transports |-> <<>>]]
    /\ closedCh = Transports /\ outsClosed = Transports /\ chDone = TRUE /\ crashed = FALSE

MCInit == (Start /\ ChOver) \/ (WebOver /\ ChInit)

MCNext ==
    \/ WebNext /\ UNCHANGED chVars
    \/ ChNext /\ UNCHANGED webVars

MCSpec == MCInit /\ [][MCNext]_<<webVars, chVars>> /\ WebFairness /\ ChFairness
===============================================================================
