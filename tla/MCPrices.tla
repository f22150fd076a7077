------------------------------- MODULE MCPrices -------------------------------
(***************************************************************************)
(* What the price providers do once or for one request, for TLC: a         *)
(* configuration becomes a graph, an indirect node computes a cross rate,  *)
(* the origins of the provider are fetched, and the models of the next     *)
(* provider are updated and evaluated. A behaviour is one of a single      *)
(* part, with the others at rest.                                          *)
(***************************************************************************)
EXTENDS MCOriginFetch, MCGraphConfig, MCPriceModels, PriceRates

MCRateWorth == [a \in RateAssets |-> CASE a = "A" -> 2 [] a = "B" -> 3 [] OTHER -> 5]
MCNodePairs == {<<"A", "B">>}

FetchOver ==
    /\ kind = [h \in Handlers |-> "kraken"] /\ groups = [h \in Handlers |-> <<>>]
    /\ got = [h \in Handlers |-> [want |-> <<>>, list |-> <<>>]]
    /\ hpc = [h \in Handlers |-> "done"] /\ queue = <<>> /\ busy = <<>>
    /\ frs = [h \in Handlers |-> NoResults] /\ returned = frs /\ clean = Handlers

GCOver ==
    /\ config = [builder |-> "old", models |-> <<>>]
    /\ phase = "accepted" /\ model = 1 /\ resolved = <<>> /\ built = <<>>
    /\ entering = NoNode /\ frames = <<>> /\ visited = {} /\ cyclePath = <<>>

RatesOver ==
    /\ expected = <<"A", "B">> /\ children = <<>> /\ prices = <<>> /\ rateAt = 1
    /\ errs = {} /\ served = NotServed

PMOver ==
    /\ nextTime = NextMaxTime /\ leaf = [n \in OriginNodes |-> FailedTick(PairOf[n])]
    /\ caller = "idle" /\ toUpdate = {} /\ wanted = {} /\ fetching = {} /\ fetched = {}
    /\ interrupted = FALSE /\ left = <<>> /\ stack = <<>> /\ liveThen = {}
    /\ newest = [n \in OriginNodes |-> NoTime] /\ calls = MaxCalls

PricesInit ==
    \/ FetchInit /\ GCOver /\ RatesOver /\ PMOver
    \/ FetchOver /\ MCInit /\ RatesOver /\ PMOver
    \/ FetchOver /\ GCOver /\ RatesInit /\ PMOver
    \/ FetchOver /\ GCOver /\ RatesOver /\ PMInit

PricesNext ==
    \/ FetchNext /\ UNCHANGED <<gcVars, rateVars, pmVars>>
    \/ GCNext /\ UNCHANGED <<fetchVars, rateVars, pmVars>>
    \/ RatesNext /\ UNCHANGED <<fetchVars, gcVars, pmVars>>
    \/ PMNext /\ UNCHANGED <<fetchVars, gcVars, rateVars>>

PricesSpec ==
    /\ PricesInit /\ [][PricesNext]_<<fetchVars, gcVars, rateVars, pmVars>>
    /\ FetchFairness /\ PMFairness
===============================================================================
