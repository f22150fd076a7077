------------------------------ MODULE GraphConfig ------------------------------
(***************************************************************************)
(* From a configuration to a graph of price nodes: the builders of         *)
(* pkg/config/priceprovider ("old") and pkg/config/priceprovidernext       *)
(* ("new"), and the search for cycles they share, which both packages      *)
(* write down as the same recursion. A graph that is accepted is evaluated *)
(* by recursion without any guard, so that a cycle that is overlooked      *)
(* overflows the stack of a running feed.                                  *)
(*                                                                         *)
(* The old builder makes all roots, then all branches, and then looks for  *)
(* a cycle from every root. The new one looks for a cycle from the root it *)
(* just gave a branch, while later roots have none yet.                    *)
(*                                                                         *)
(* A model of a configuration is [name, pair, nodes, top]: its nodes in    *)
(* the order in which the recursions finish them, branches first, and the  *)
(* nodes on its highest level. A node is [kind, pair, ref, fresh, expiry,  *)
(* sources]. An old origin node with the name "." has the kind             *)
(* "reference"; sources of old origin nodes are never read. Names of       *)
(* models are numbers, in the order of their text; the name of an old      *)
(* model is its pair. A node of the graph is <<0, name>> for the root of a *)
(* model and otherwise its place, <<model, index>>.                        *)
(***************************************************************************)
EXTENDS Integers, Sequences

CONSTANTS DefaultFresh, DefaultExpiry  \* thresholds of new origin nodes

ASSUME DefaultsAssumption ==
    /\ DefaultFresh \in Nat \ {0} /\ DefaultExpiry \in Nat
    /\ DefaultFresh <= DefaultExpiry

VARIABLES config,    \* the configuration that is loaded: [builder, models]
          phase,     \* "roots", "branches", "detect", "accepted" or "rejected"
          model,     \* index of the model (of the root, in the old detect phase)
          resolved,  \* what the nodes of the model have become so far
          built,     \* the graph: node -> [kind, pair, branches]
          entering,  \* the node the recursion is called for, or NoNode
          frames,    \* the calls under way: [node, next]
          visited,   \* nodes this search has seen
          cyclePath  \* the path that is reported

gcVars == <<config, phase, model, resolved, built, entering, frames, visited, cyclePath>>

Pair == STRING \X STRING
NodeKinds == {"origin", "reference", "invert", "indirect", "median", "breaker", "unknown"}
ModelNode == [kind : NodeKinds, pair : Pair, ref : Nat, fresh : Int, expiry : Int, sources : Seq(Nat)]
PriceModel == [name : Nat \ {0}, pair : Pair, nodes : Seq(ModelNode), top : Seq(Nat)]

\* What the decoder makes of a file: the sources of a node and the top of a
\* model are nodes of the model, sources before the node; a model of the old
\* format has a method, that is at least one node.
ConfigOK(c) ==
    /\ c \in [builder : {"old", "new"}, models : Seq(PriceModel)]
    /\ \A i \in 1..Len(c.models) :
         LET m == c.models[i] IN
         /\ c.builder = "old" => m.nodes # <<>>
         /\ \A j \in 1..Len(m.nodes) : \A k \in 1..Len(m.nodes[j].sources) :
               m.nodes[j].sources[k] \in 1..(j - 1)
         /\ \A k \in 1..Len(m.top) : m.top[k] \in 1..Len(m.nodes)

NoNode == <<>>
Root(name) == <<0, name>>
Old == config.builder = "old"
Models == config.models

-----------------------------------------------------------------------------
(* Nodes of the graph *)

New(k, pair, bs) == [kind |-> k, pair |-> pair, branches |-> bs]
Put(g, n, x) == [m \in DOMAIN g \cup {n} |-> IF m = n THEN x ELSE g[m]]

\* buildOriginNode: zero stands for the default.
ThresholdsOK(c) ==
    LET fresh == IF c.fresh = 0 THEN DefaultFresh ELSE c.fresh
        expiry == IF c.expiry = 0 THEN DefaultExpiry ELSE c.expiry
    IN  fresh > 0 /\ expiry > 0 /\ fresh <= expiry

\* AddBranch of the new nodes: whether the branches are taken.
ReferenceTakes(g, x, bs) == x.branches = <<>> /\ Len(bs) = 1 /\ g[bs[1]].pair = x.pair

InvertTakes(g, x, bs) ==
    x.branches = <<>> /\ Len(bs) = 1 /\ g[bs[1]].pair = <<x.pair[2], x.pair[1]>>

BreakerTakes(g, x, bs) == Len(bs) <= 2 /\ \A i \in 1..Len(bs) : g[bs[i]].pair = x.pair

AddBranchOK(g, n, bs) ==
    \/ bs = <<>> \/ g[n].kind \in {"indirect", "median"}
    \/ g[n].kind = "reference" /\ ReferenceTakes(g, g[n], bs)
    \/ g[n].kind = "invert" /\ InvertTakes(g, g[n], bs)
    \/ g[n].kind = "breaker" /\ BreakerTakes(g, g[n], bs)

\* AddBranch. A breaker shows its branches only when it has both. (It wraps
\* them; the wrappers add nothing to the paths.)
AddBranch(g, n, bs) ==
    IF g[n].kind = "breaker" /\ Len(bs) = 1 THEN g
    ELSE [g EXCEPT ![n].branches = @ \o bs]

-----------------------------------------------------------------------------
(* Loading *)

GCInit(c) ==
    /\ config = c
    /\ phase = "roots" /\ model = 1 /\ resolved = <<>> /\ built = <<>>
    /\ entering = NoNode /\ frames = <<>> /\ visited = {} /\ cyclePath = <<>>

\* buildRoots; the loop over NewReferenceNode. A name used twice has one root.
BuildRoots ==
    /\ phase = "roots"
    /\ built' = [n \in {Root(Models[i].name) : i \in 1..Len(Models)} |->
                   LET last == CHOOSE i \in 1..Len(Models) :
                                 /\ Root(Models[i].name) = n
                                 /\ \A j \in i + 1..Len(Models) : Root(Models[j].name) # n
                   IN  New("reference", Models[last].pair, <<>>)]
    /\ phase' = "branches"
    /\ UNCHANGED <<config, model, resolved, entering, frames, visited, cyclePath>>

\* The next node of the model, its place and its branches, which are built.
Building == phase = "branches" /\ model <= Len(Models)
Item == Len(resolved) + 1
More == Item <= Len(Models[model].nodes)
Config == Models[model].nodes[Item]
Place == <<model, Item>>
Sources == [i \in 1..Len(Config.sources) |-> resolved[Config.sources[i]]]

Resolve(n, g) == built' = g /\ resolved' = Append(resolved, n) /\ UNCHANGED phase
Reject == phase' = "rejected" /\ UNCHANGED <<built, resolved>>

\* originNode: a reference is the root it names.
BuildReferenceOld ==
    IF Root(Config.ref) \in DOMAIN built THEN Resolve(Root(Config.ref), built) ELSE Reject

\* buildReferenceNode; nodes inside the reference become branches of the root.
BuildReferenceNew ==
    LET n == Root(Config.ref) IN
    IF n \in DOMAIN built /\ AddBranchOK(built, n, Sources)
    THEN Resolve(n, AddBranch(built, n, Sources))
    ELSE Reject

\* medianNode and indirectNode: one child stands for its aggregator.
BuildAggregatorOld ==
    IF Sources = <<>> THEN Reject
    ELSE IF Len(Sources) = 1 THEN Resolve(Sources[1], built)
    ELSE Resolve(Place, Put(built, Place, New(Config.kind, Config.pair, Sources)))

\* buildNodes of the old builder.
BuildNodeOld ==
    /\ Building /\ More /\ Old
    /\ CASE Config.kind = "origin" -> Resolve(Place, Put(built, Place, New("origin", Config.pair, <<>>)))
         [] Config.kind = "reference" -> BuildReferenceOld
         [] Config.kind \in {"median", "indirect"} -> BuildAggregatorOld
         [] OTHER -> Reject
    /\ UNCHANGED <<config, model, entering, frames, visited, cyclePath>>

\* buildNode and buildGraph of the new one: the branches are added to the node.
BuildNodeNew ==
    /\ Building /\ More /\ ~Old
    /\ IF Config.kind = "reference" THEN BuildReferenceNew
       ELSE LET g == Put(built, Place, New(Config.kind, Config.pair, <<>>)) IN
            IF (Config.kind = "origin" => ThresholdsOK(Config)) /\ AddBranchOK(g, Place, Sources)
            THEN Resolve(Place, AddBranch(g, Place, Sources))
            ELSE Reject
    /\ UNCHANGED <<config, model, entering, frames, visited, cyclePath>>

\* buildBranches: SetReference replaces a reference that was set before.
SetReference ==
    /\ Building /\ ~More /\ Old
    /\ built' = [built EXCEPT ![Root(Models[model].name)].branches = <<resolved[Len(resolved)]>>]
    /\ model' = model + 1 /\ resolved' = <<>>
    /\ UNCHANGED <<config, phase, entering, frames, visited, cyclePath>>

\* ConfigurePriceModel has returned: the root gets its branch, and the search
\* for a cycle begins there.
AddRootBranch ==
    /\ Building /\ ~More /\ ~Old
    /\ LET m == Models[model]
           root == Root(m.name)
           bs == [i \in 1..Len(m.top) |-> resolved[m.top[i]]]
       IN  IF Len(m.top) = 1 /\ AddBranchOK(built, root, bs)
           THEN /\ built' = AddBranch(built, root, bs) /\ phase' = "detect"
                /\ entering' = root /\ visited' = {}
           ELSE /\ phase' = "rejected" /\ UNCHANGED <<built, entering, visited>>
    /\ UNCHANGED <<config, model, resolved, frames, cyclePath>>

\* All branches are built.
BranchesBuilt ==
    /\ phase = "branches" /\ model > Len(Models)
    /\ IF Old THEN /\ phase' = "detect" /\ model' = 0
              ELSE /\ phase' = "accepted" /\ UNCHANGED model
    /\ UNCHANGED <<config, resolved, built, entering, frames, visited, cyclePath>>

\* detectCycle of the old builder: the next root, in the order of the pairs.
DetectFromRoot ==
    /\ phase = "detect" /\ Old /\ entering = NoNode /\ frames = <<>>
    /\ LET later == {n \in DOMAIN built : n[1] = 0 /\ n[2] > model} IN
       IF later = {} THEN phase' = "accepted" /\ UNCHANGED <<model, entering, visited>>
       ELSE LET n == CHOOSE x \in later : \A y \in later : x[2] <= y[2] IN
            /\ model' = n[2] /\ entering' = n /\ visited' = {} /\ UNCHANGED phase
    /\ UNCHANGED <<config, resolved, built, frames, cyclePath>>

\* The nodes above the one that is entered.
Parents == {frames[i].node : i \in 1..Len(frames)}
PathTo == [i \in 1..Len(frames) |-> frames[i].node]

\* Mutant: visited nodes are skipped before the path is looked at.
EnterVisitedFirst ==
    /\ phase = "detect" /\ entering # NoNode
    /\ entering' = NoNode
    /\ IF entering \in visited THEN UNCHANGED <<phase, frames, visited, cyclePath>>
       ELSE /\ frames' = Append(frames, [node |-> entering, next |-> 1])
            /\ visited' = visited \cup {entering}
            /\ UNCHANGED <<phase, cyclePath>>
    /\ UNCHANGED <<config, model, resolved, built>>

\* The head of the recursion of DetectCycle.
Enter ==
    /\ phase = "detect" /\ entering # NoNode
    /\ entering' = NoNode
    /\ IF entering \in Parents
       THEN phase' = "rejected" /\ cyclePath' = PathTo /\ UNCHANGED <<frames, visited>>
       ELSE IF entering \in visited
       THEN UNCHANGED <<phase, frames, visited, cyclePath>>
       ELSE /\ frames' = Append(frames, [node |-> entering, next |-> 1])
            /\ visited' = visited \cup {entering}
            /\ UNCHANGED <<phase, cyclePath>>
    /\ UNCHANGED <<config, model, resolved, built>>

\* Its loop over the branches.
NextBranch ==
    /\ phase = "detect" /\ entering = NoNode /\ frames # <<>>
    /\ LET top == frames[Len(frames)] IN
       /\ top.next <= Len(built[top.node].branches)
       /\ entering' = built[top.node].branches[top.next]
       /\ frames' = [frames EXCEPT ![Len(frames)].next = @ + 1]
    /\ UNCHANGED <<config, phase, model, resolved, built, visited, cyclePath>>

\* A call returns nil. The new builder goes on when the first call returned.
Return ==
    /\ phase = "detect" /\ entering = NoNode /\ frames # <<>>
    /\ LET top == frames[Len(frames)] IN top.next > Len(built[top.node].branches)
    /\ frames' = SubSeq(frames, 1, Len(frames) - 1)
    /\ IF ~Old /\ Len(frames) = 1
       THEN phase' = "branches" /\ model' = model + 1 /\ resolved' = <<>>
       ELSE UNCHANGED <<phase, model, resolved>>
    /\ UNCHANGED <<config, built, entering, visited, cyclePath>>

\* The provider is built, or the program ends with an error.
Loaded == phase \in {"accepted", "rejected"} /\ UNCHANGED gcVars

GCNext ==
    \/ BuildRoots \/ BuildNodeOld \/ BuildNodeNew \/ SetReference \/ AddRootBranch \/ BranchesBuilt
    \/ DetectFromRoot \/ Enter \/ NextBranch \/ Return \/ Loaded

\* A configuration is loaded.
GCSpec(c) == GCInit(c) /\ [][GCNext]_gcVars

-----------------------------------------------------------------------------
(* Properties *)

Edge(g, m, n) == \E i \in 1..Len(g[m].branches) : g[m].branches[i] = n

\* Each node of a trap has a branch in it. A finite graph has such a set
\* if and only if it has a cycle.
Trap(g, S) == S # {} /\ \A n \in S : \E m \in S : Edge(g, n, m)

\* Types of the state of the loader, and the calls under way are a path of the
\* graph without a repetition (DetectCycle; pkg/price/provider/graph/nodes).
GCTypeOK ==
    /\ ConfigOK(config)
    /\ phase \in {"roots", "branches", "detect", "accepted", "rejected"}
    /\ \A n \in DOMAIN built : \A i \in 1..Len(built[n].branches) :
          built[n].branches[i] \in DOMAIN built
    /\ \A i \in 1..Len(frames) - 1 : Edge(built, frames[i].node, frames[i + 1].node)
    /\ \A i, j \in 1..Len(frames) : i < j => frames[i].node # frames[j].node
    /\ visited \subseteq DOMAIN built

\* A configuration that is accepted has no cycle, also one that passes through
\* several models in any order, or through a model that is configured twice
\* (buildGraphs and the new PriceProvider).
AcceptedAcyclic ==
    phase = "accepted" => \A S \in SUBSET DOMAIN built : ~Trap(built, S)

\* The path that is reported when the search fails a configuration is a path
\* whose end leads back into it. A node with two parents is no cycle.
ReportedIsCycle ==
    cyclePath # <<>> =>
        /\ \A i \in 1..Len(cyclePath) - 1 : Edge(built, cyclePath[i], cyclePath[i + 1])
        /\ \E i \in 1..Len(cyclePath) : Edge(built, cyclePath[Len(cyclePath)], cyclePath[i])

\* Every model of an accepted configuration has one branch, so that evaluating
\* a reference never meets nil, and what the nodes of the new graph with checked
\* branches serve has the pair they are labelled with (AddBranch).
AcceptedServes ==
    phase = "accepted" =>
        /\ \A i \in 1..Len(Models) : Len(built[Root(Models[i].name)].branches) = 1
        /\ ~Old => \A n \in DOMAIN built :
              \A i \in 1..Len(built[n].branches) :
                LET x == built[n] y == built[x.branches[i]] IN
                /\ x.kind \in {"reference", "breaker"} => y.pair = x.pair
                /\ x.kind = "invert" => y.pair = <<x.pair[2], x.pair[1]>>

\* The verdict on a configuration is right: what is accepted has no cycle and
\* serves the pairs of its models, and what is reported as a cycle is one.
GraphVerdictRight ==
    /\ GCTypeOK /\ AcceptedAcyclic /\ ReportedIsCycle /\ AcceptedServes
=============================================================================
