------------------------------ MODULE GraphProofs ------------------------------
(***************************************************************************)
(* GraphConfig, for any configuration of any number of models and nodes    *)
(* and for both builders: the verdict is right. The search for cycles is   *)
(* one of depth first; that it overlooks none is said of the set of nodes  *)
(* it is done with.                                                        *)
(***************************************************************************)
EXTENDS GraphConfig, RankTheorems, SequenceTheorems

-----------------------------------------------------------------------------
(* The inductive invariant *)

GNode == [kind : NodeKinds, pair : Pair, branches : Seq(Nat \X Nat)]
RootOf(i) == Root(Models[i].name)
Frame == [node : Nat \X Nat, next : Nat]

\* The graph as the builders make it: branches of an inner node are inner nodes
\* of the same model with a smaller index, or roots.
Shape ==
    /\ DOMAIN built \subseteq Nat \X Nat
    /\ built \in [DOMAIN built -> GNode]
    /\ \A n \in DOMAIN built : \A i \in 1..Len(built[n].branches) :
         LET b == built[n].branches[i] IN
         /\ b \in DOMAIN built
         /\ n[1] # 0 => b[1] = 0 \/ (b[1] = n[1] /\ b[2] < n[2])
    /\ \A n \in DOMAIN built : n[1] = 0 =>
         /\ built[n].kind = "reference"
         /\ \E i \in 1..Len(Models) : n = RootOf(i)
    /\ phase # "roots" => \A i \in 1..Len(Models) : RootOf(i) \in DOMAIN built

\* Whether models are still being built.
Loading == phase = "branches" \/ (phase = "detect" /\ ~Old)

\* What is resolved belongs to the present model, and the next place is free.
Numbered ==
    /\ phase = "roots" => model = 1 /\ resolved = <<>> /\ built = <<>>
    /\ Loading =>
         /\ model \in Nat \ {0}
         /\ resolved \in Seq(Nat \X Nat)
         /\ \A i \in 1..Len(resolved) :
              /\ resolved[i] \in DOMAIN built
              /\ resolved[i][1] = 0 \/ (resolved[i][1] = model /\ resolved[i][2] <= i)
         /\ \A n \in DOMAIN built : n[1] < model \/ (n[1] = model /\ n[2] <= Len(resolved))
    /\ phase = "detect" /\ Old => model \in Nat
    /\ phase = "detect" /\ ~Old => model <= Len(Models)

\* AddBranch has looked at the pairs.
PairsFit ==
    ~Old => \A n \in DOMAIN built : \A i \in 1..Len(built[n].branches) :
        LET x == built[n] y == built[x.branches[i]] IN
        /\ x.kind \in {"reference", "breaker"} => y.pair = x.pair
        /\ x.kind = "invert" => y.pair = <<x.pair[2], x.pair[1]>>

\* Models that are built have one branch.
OneBranch ==
    /\ phase = "branches" => \A i \in 1..Len(Models) : i < model => Len(built[RootOf(i)].branches) = 1
    /\ phase = "detect" /\ ~Old =>
         \A i \in 1..Len(Models) : i <= model => Len(built[RootOf(i)].branches) = 1
    /\ phase = "accepted" \/ (phase = "detect" /\ Old) =>
         \A i \in 1..Len(Models) : Len(built[RootOf(i)].branches) = 1

\* The calls under way: a path without a repetition, each node of it the
\* branch that the one above looked at last.
Path ==
    /\ frames \in Seq(Frame)
    /\ visited \subseteq DOMAIN built
    /\ \A i \in 1..Len(frames) :
         /\ frames[i].node \in visited
         /\ frames[i].next >= 1 /\ frames[i].next <= Len(built[frames[i].node].branches) + 1
    /\ \A i \in 1..(Len(frames) - 1) :
         /\ frames[i].next >= 2
         /\ built[frames[i].node].branches[frames[i].next - 1] = frames[i + 1].node
    /\ \A i, j \in 1..Len(frames) : i < j => frames[i].node # frames[j].node
    /\ entering # NoNode => entering \in DOMAIN built
    /\ entering # NoNode /\ frames # <<>> =>
         /\ frames[Len(frames)].next >= 2
         /\ built[frames[Len(frames)].node].branches[frames[Len(frames)].next - 1] = entering
    /\ phase \in {"roots", "branches", "accepted"} => frames = <<>> /\ entering = NoNode
    /\ phase \in {"roots", "branches"} /\ Old => visited = {}

\* The nodes whose calls have returned.
Done == visited \ Parents

\* The branches that a call has been through are done, but for the last one
\* while the call for it is under way.
BranchesDone ==
    \A i \in 1..Len(frames) : \A k \in 1..(frames[i].next - 1) :
        \/ built[frames[i].node].branches[k] \in Done
        \/ k = frames[i].next - 1 /\ (i < Len(frames) \/ entering # NoNode)

Closed(g, C, O) == \A x \in C \ O : \A i \in 1..Len(g[x].branches) : g[x].branches[i] \in C
NoTrap(g, C) == \A S \in SUBSET C : ~Trap(g, S)

\* The root that a search started from.
StartedFrom == IF Old THEN Root(model) ELSE RootOf(model)

Search ==
    phase = "detect" =>
        /\ BranchesDone
        /\ Closed(built, Done, {}) /\ NoTrap(built, Done)
        /\ frames # <<>> => frames[1].node = StartedFrom
        /\ frames = <<>> /\ entering # NoNode => entering = StartedFrom /\ visited = {}
        /\ frames = <<>> /\ entering = NoNode => Old /\ (model # 0 => StartedFrom \in Done)

\* A search from n has found nothing among the nodes that are not in O.
Safe(g, n, O) ==
    \E C \in SUBSET DOMAIN g : n \in C /\ Closed(g, C, O) /\ NoTrap(g, C \ O)

\* The roots that had no branch of their own when the search from the i-th was made.
Open(i) == {RootOf(j) : j \in {k \in 1..Len(Models) : k > i}}

Searched ==
    /\ Loading /\ ~Old => \A i \in 1..Len(Models) : i < model => Safe(built, RootOf(i), Open(i))
    /\ phase = "detect" /\ Old =>
         \A n \in DOMAIN built : n[1] = 0 /\ n[2] < model => Safe(built, n, {})
    /\ phase = "accepted" =>
         IF Old THEN \A n \in DOMAIN built : n[1] = 0 => Safe(built, n, {})
                ELSE \A i \in 1..Len(Models) : Safe(built, RootOf(i), Open(i))

Reported ==
    /\ phase # "rejected" => cyclePath = <<>>
    /\ ReportedIsCycle

GraphInd ==
    /\ ConfigOK(config)
    /\ phase \in {"roots", "branches", "detect", "accepted", "rejected"}
    /\ Shape /\ Numbered /\ PairsFit /\ OneBranch /\ Path /\ Search /\ Searched /\ Reported

-----------------------------------------------------------------------------
(* What the invariant says of an accepted graph *)

\* Along inner nodes the index falls, so that a cycle passes through a root.
LEMMA TrapHasRoot ==
    ASSUME Shape, NEW S \in SUBSET DOMAIN built, Trap(built, S)
    PROVE  \E n \in S : n[1] = 0
<1> SUFFICES ASSUME \A n \in S : n[1] # 0 PROVE FALSE
  OBVIOUS
<1> DEFINE N == {n[2] : n \in S}
<1>1. \A n \in S : n[2] \in Nat
  BY DEF Shape
<1>2. N \subseteq Nat /\ N # {}
  BY <1>1 DEF Trap
<1>3. PICK n \in S : \A m \in S : n[2] <= m[2]
  <2> HIDE DEF N
  <2>1. PICK x \in N : \A y \in N : x <= y
    BY <1>2, LeastExists
  <2> QED BY <2>1 DEF N
<1>4. PICK m \in S : \E i \in 1..Len(built[n].branches) : built[n].branches[i] = m
  BY <1>3 DEF Trap, Edge
<1>5. m[2] < n[2]
  BY <1>3, <1>4 DEF Shape
<1> QED BY <1>1, <1>3, <1>4, <1>5

\* What a search has been through holds no cycle.
LEMMA TrapNotSafe ==
    ASSUME NEW g, NEW S, Trap(g, S), NEW r \in S, NEW O, Safe(g, r, O), S \cap O = {}
    PROVE  FALSE
<1>1. PICK C \in SUBSET DOMAIN g : r \in C /\ Closed(g, C, O) /\ NoTrap(g, C \ O)
  BY DEF Safe
<1> DEFINE T == S \cap C
<1>2. T \subseteq C \ O /\ T # {}
  BY <1>1
<1>3. ASSUME NEW n \in T PROVE \E m \in T : Edge(g, n, m)
  <2>1. PICK m \in S : Edge(g, n, m)
    BY DEF Trap
  <2>2. m \in C
    BY <1>1, <1>2, <2>1 DEF Edge, Closed
  <2> QED BY <2>1, <2>2
<1>4. Trap(g, T)
  BY <1>2, <1>3 DEF Trap
<1> QED BY <1>1, <1>2, <1>4 DEF NoTrap

LEMMA AcceptedHasNoCycle ==
    ASSUME GraphInd
    PROVE  AcceptedAcyclic
<1> SUFFICES ASSUME phase = "accepted", NEW S \in SUBSET DOMAIN built, Trap(built, S)
             PROVE  FALSE
  BY DEF AcceptedAcyclic
<1>1. PICK r \in S : r[1] = 0
  BY TrapHasRoot DEF GraphInd
<1>2. CASE Old
  <2>1. Safe(built, r, {})
    BY <1>1, <1>2 DEF GraphInd, Searched
  <2> QED BY <1>1, <2>1, TrapNotSafe
<1>3. CASE ~Old
  <2> DEFINE I == {i \in 1..Len(Models) : RootOf(i) \in S}
  <2>1. Len(Models) \in Nat
    BY DEF GraphInd, ConfigOK, Models
  <2>2. I # {} /\ I \subseteq Int
    BY <1>1 DEF GraphInd, Shape
  <2>3. IsFiniteSet(I)
    <3>1. IsFiniteSet(1..Len(Models))
      BY <2>1, FS_Interval
    <3> QED BY <3>1, FS_Subset
  <2> HIDE DEF I
  <2>4. PICK i \in I : \A j \in I : j <= i
    BY <2>2, <2>3, GreatestExists
  <2>5. i \in 1..Len(Models) /\ RootOf(i) \in S
    BY <2>4 DEF I
  <2>6. S \cap Open(i) = {}
    <3> SUFFICES ASSUME NEW j \in 1..Len(Models), j > i, RootOf(j) \in S PROVE FALSE
      BY DEF Open
    <3>1. j \in I
      BY DEF I
    <3> QED BY <3>1, <2>1, <2>4, <2>5
  <2>7. Safe(built, RootOf(i), Open(i))
    BY <1>3, <2>5 DEF GraphInd, Searched
  <2> QED BY <2>5, <2>6, <2>7, TrapNotSafe
<1> QED BY <1>2, <1>3

\* Types of the calls under way.
LEMMA FrameFacts ==
    ASSUME GraphInd
    PROVE  /\ Len(frames) \in Nat
           /\ \A i \in 1..Len(frames) :
                /\ frames[i] \in Frame /\ frames[i].node \in DOMAIN built /\ frames[i].node \in visited
                /\ frames[i].next \in Nat /\ frames[i].next >= 1
                /\ Len(built[frames[i].node].branches) \in Nat
                /\ frames[i].next <= Len(built[frames[i].node].branches) + 1
<1>1. Path /\ Shape /\ frames \in Seq(Frame)
  BY DEF GraphInd, Path
<1>2. Len(frames) \in Nat /\ \A i \in 1..Len(frames) : frames[i] \in Frame
  BY <1>1
<1>3. \A i \in 1..Len(frames) :
         /\ frames[i].node \in DOMAIN built /\ frames[i].node \in visited
         /\ frames[i].next >= 1 /\ frames[i].next <= Len(built[frames[i].node].branches) + 1
  BY <1>1 DEF Path
<1>4. \A n \in DOMAIN built : Len(built[n].branches) \in Nat
  BY <1>1 DEF Shape, GNode
<1>5. \A i \in 1..Len(frames) : frames[i].next \in Nat
  BY <1>2 DEF Frame
<1> QED BY <1>2, <1>3, <1>4, <1>5

\* The calls under way are a path.
LEMMA PathEdges ==
    ASSUME GraphInd
    PROVE  /\ \A i \in 1..(Len(frames) - 1) : Edge(built, frames[i].node, frames[i + 1].node)
           /\ entering # NoNode /\ frames # <<>> => Edge(built, frames[Len(frames)].node, entering)
<1>1. Path
  BY DEF GraphInd
<1>2. ASSUME NEW i \in 1..(Len(frames) - 1) PROVE Edge(built, frames[i].node, frames[i + 1].node)
  <2>1. i \in 1..Len(frames)
    BY FrameFacts
  <2>2. frames[i].next >= 2 /\ built[frames[i].node].branches[frames[i].next - 1] = frames[i + 1].node
    BY <1>1 DEF Path
  <2>3. frames[i].next - 1 \in 1..Len(built[frames[i].node].branches)
    BY <2>1, <2>2, FrameFacts
  <2> QED BY <2>2, <2>3 DEF Edge
<1>3. ASSUME entering # NoNode, frames # <<>> PROVE Edge(built, frames[Len(frames)].node, entering)
  <2> DEFINE i == Len(frames)
  <2>1. i \in 1..Len(frames)
    BY <1>1, <1>3, FrameFacts DEF Path
  <2>2. frames[i].next >= 2 /\ built[frames[i].node].branches[frames[i].next - 1] = entering
    BY <1>1, <1>3 DEF Path
  <2> HIDE DEF i
  <2>3. frames[i].next - 1 \in 1..Len(built[frames[i].node].branches)
    BY <2>1, <2>2, FrameFacts
  <2>4. Edge(built, frames[i].node, entering)
    BY <2>2, <2>3 DEF Edge
  <2> QED BY <2>4 DEF i
<1> QED BY <1>2, <1>3

LEMMA VerdictFromInd ==
    ASSUME GraphInd
    PROVE  GraphVerdictRight
<1>1. GCTypeOK
  BY PathEdges DEF GraphInd, GCTypeOK, Shape, Path
<1>2. AcceptedAcyclic
  BY AcceptedHasNoCycle
<1>3. AcceptedServes
  BY DEF GraphInd, AcceptedServes, OneBranch, PairsFit, RootOf
<1> QED BY <1>1, <1>2, <1>3 DEF GraphVerdictRight, GraphInd, Reported

-----------------------------------------------------------------------------
(* Building *)

\* Types of what the configuration holds.
LEMMA ModelFacts ==
    ASSUME ConfigOK(config)
    PROVE  /\ Len(Models) \in Nat
           /\ \A i \in 1..Len(Models) :
                /\ Models[i] \in PriceModel
                /\ Len(Models[i].nodes) \in Nat /\ Len(Models[i].top) \in Nat
                /\ \A j \in 1..Len(Models[i].nodes) :
                     /\ Models[i].nodes[j] \in ModelNode
                     /\ Len(Models[i].nodes[j].sources) \in Nat
                /\ RootOf(i) \in Nat \X Nat /\ RootOf(i)[1] = 0 /\ RootOf(i)[2] \in Nat \ {0}
<1>1. Models \in Seq(PriceModel)
  BY DEF ConfigOK, Models
<1>2. Len(Models) \in Nat /\ \A i \in 1..Len(Models) : Models[i] \in PriceModel
  BY <1>1
<1>3. ASSUME NEW i \in 1..Len(Models)
      PROVE  /\ Models[i].nodes \in Seq(ModelNode) /\ Models[i].top \in Seq(Nat)
             /\ Models[i].name \in Nat \ {0}
  BY <1>2 DEF PriceModel
<1>4. ASSUME NEW i \in 1..Len(Models), NEW j \in 1..Len(Models[i].nodes)
      PROVE  Models[i].nodes[j] \in ModelNode /\ Len(Models[i].nodes[j].sources) \in Nat
  <2>1. Models[i].nodes[j] \in ModelNode
    BY <1>3
  <2> QED BY <2>1 DEF ModelNode
<1> QED BY <1>2, <1>3, <1>4 DEF RootOf, Root

\* The node that is built next: its place is free, and its sources are built.
LEMMA ItemFacts ==
    ASSUME GraphInd, Building
    PROVE  /\ model \in Nat \ {0} /\ model \in 1..Len(Models)
           /\ Item \in Nat \ {0} /\ Item = Len(resolved) + 1
           /\ Place \in Nat \X Nat /\ Place[1] = model /\ Place[2] = Item
           /\ Place \notin DOMAIN built
           /\ More => /\ Config \in ModelNode
                      /\ Sources \in Seq(Nat \X Nat)
                      /\ \A i \in 1..Len(Sources) :
                           /\ Sources[i] \in DOMAIN built
                           /\ Sources[i][1] = 0 \/ (Sources[i][1] = model /\ Sources[i][2] < Item)
<1>1. /\ model \in Nat \ {0} /\ model \in 1..Len(Models) /\ resolved \in Seq(Nat \X Nat)
      /\ \A n \in DOMAIN built : n[1] < model \/ (n[1] = model /\ n[2] <= Len(resolved))
      /\ \A i \in 1..Len(resolved) :
              /\ resolved[i] \in DOMAIN built
              /\ resolved[i][1] = 0 \/ (resolved[i][1] = model /\ resolved[i][2] <= i)
  <2>1. Numbered /\ Loading /\ model <= Len(Models) /\ Len(Models) \in Nat
    BY ModelFacts DEF GraphInd, Loading, Building
  <2>2. model \in Nat \ {0} /\ model \in 1..Len(Models)
    BY <2>1 DEF Numbered
  <2> QED BY <2>1, <2>2 DEF Numbered
<1>2. Item \in Nat \ {0} /\ Item = Len(resolved) + 1 /\ Len(resolved) \in Nat
  BY <1>1 DEF Item
<1>3. Place \in Nat \X Nat /\ Place[1] = model /\ Place[2] = Item
  BY <1>1, <1>2 DEF Place
<1>4. Place \notin DOMAIN built
  <2> SUFFICES ASSUME Place \in DOMAIN built PROVE FALSE
    OBVIOUS
  <2>1. Place[1] < model \/ Place[2] <= Len(resolved)
    BY <1>1
  <2>2. model < model \/ Item <= Len(resolved)
    BY <1>3, <2>1
  <2> QED BY <1>1, <1>2, <2>2
<1>5. ASSUME More
      PROVE  /\ Config \in ModelNode
             /\ Sources \in Seq(Nat \X Nat)
             /\ \A i \in 1..Len(Sources) :
                  /\ Sources[i] \in DOMAIN built
                  /\ Sources[i][1] = 0 \/ (Sources[i][1] = model /\ Sources[i][2] < Item)
  <2>1. Item \in 1..Len(Models[model].nodes) /\ Config = Models[model].nodes[Item]
    BY <1>1, <1>2, <1>5, ModelFacts DEF More, Config, GraphInd
  <2>2. Config \in ModelNode /\ Len(Config.sources) \in Nat
    BY <1>1, <2>1, ModelFacts DEF GraphInd
  <2>3. \A k \in 1..Len(Config.sources) : Config.sources[k] \in 1..Len(resolved)
    <3>1. \A k \in 1..Len(Config.sources) : Config.sources[k] \in 1..(Item - 1)
      BY <1>1, <2>1 DEF GraphInd, ConfigOK, Models
    <3> QED BY <3>1, <1>2
  <2>4. \A k \in 1..Len(Config.sources) : Sources[k] = resolved[Config.sources[k]]
    BY DEF Sources
  <2>5. Sources \in Seq(Nat \X Nat) /\ Len(Sources) = Len(Config.sources)
    <3>1. \A k \in 1..Len(Config.sources) : resolved[Config.sources[k]] \in Nat \X Nat
      BY <1>1, <2>3
    <3> QED BY <2>2, <3>1 DEF Sources
  <2>6. ASSUME NEW i \in 1..Len(Sources)
        PROVE  /\ Sources[i] \in DOMAIN built
               /\ Sources[i][1] = 0 \/ (Sources[i][1] = model /\ Sources[i][2] < Item)
    <3> DEFINE k == Config.sources[i]
    <3>1. k \in 1..Len(resolved) /\ Sources[i] = resolved[k]
      BY <2>3, <2>4, <2>5
    <3> HIDE DEF k
    <3>2. resolved[k] \in DOMAIN built /\ resolved[k] \in Nat \X Nat
          /\ (resolved[k][1] = 0 \/ (resolved[k][1] = model /\ resolved[k][2] <= k))
      BY <1>1, <3>1
    <3>3. resolved[k][2] \in Nat /\ k \in Nat /\ k < Item
      BY <1>2, <3>1, <3>2
    <3> QED BY <1>2, <3>1, <3>2, <3>3
  <2> QED BY <2>2, <2>5, <2>6
<1> QED BY <1>1, <1>2, <1>3, <1>4, <1>5

\* What a search has found stays true when nodes are added and when roots in O
\* get their branches.
LEMMA SafeKept ==
    ASSUME NEW g, NEW h, NEW n, NEW O, Safe(g, n, O),
           DOMAIN g \subseteq DOMAIN h, \A x \in DOMAIN g \ O : h[x] = g[x]
    PROVE  Safe(h, n, O)
<1>1. PICK C \in SUBSET DOMAIN g : n \in C /\ Closed(g, C, O) /\ NoTrap(g, C \ O)
  BY DEF Safe
<1>2. Closed(h, C, O)
  BY <1>1 DEF Closed
<1>3. NoTrap(h, C \ O)
  <2> SUFFICES ASSUME NEW S \in SUBSET (C \ O), Trap(h, S) PROVE FALSE
    BY DEF NoTrap
  <2>1. \A x \in S : h[x] = g[x]
    BY <1>1
  <2>2. Trap(g, S)
    BY <2>1 DEF Trap, Edge
  <2> QED BY <1>1, <2>2 DEF NoTrap
<1> QED BY <1>1, <1>2, <1>3 DEF Safe

\* A configuration that is rejected stays as it was found.
LEMMA RejectKeeps ==
    ASSUME GraphInd, phase # "roots", phase' = "rejected", UNCHANGED <<config, built, frames, visited>>,
           entering' \in {entering, NoNode}, ReportedIsCycle'
    PROVE  GraphInd'
<1>1. Shape'
  BY DEF GraphInd, Shape, RootOf, Models
<1>2. Numbered' /\ OneBranch' /\ Search' /\ Searched' /\ Reported'
  BY DEF Numbered, Loading, OneBranch, Search, Searched, Reported
<1>3. PairsFit'
  BY DEF GraphInd, PairsFit, Old
<1>4. Path'
  <2>1. phase' \notin {"roots", "branches", "accepted"}
    OBVIOUS
  <2>2. Path /\ Old' = Old
    BY DEF GraphInd, Old
  <2> QED BY <2>1, <2>2 DEF Path, NoNode
<1> QED BY <1>1, <1>2, <1>3, <1>4 DEF GraphInd

\* A step of a builder before the search.
LEMMA BuildKeeps ==
    ASSUME GraphInd, phase \in {"roots", "branches"}, phase' = "branches",
           UNCHANGED <<config, entering, frames, visited, cyclePath>>,
           DOMAIN built \subseteq DOMAIN built',
           Shape', Numbered', PairsFit', OneBranch',
           ~Old => \A i \in 1..Len(Models) : i < model' => Safe(built', RootOf(i), Open(i))
    PROVE  GraphInd'
<1>1. frames = <<>> /\ entering = NoNode /\ visited \subseteq DOMAIN built /\ cyclePath = <<>>
  BY DEF GraphInd, Path, Reported
<1>2. frames' = <<>> /\ Len(frames') = 0 /\ entering' = NoNode /\ visited' \subseteq DOMAIN built' /\ cyclePath' = <<>>
  BY <1>1
<1>3. Path'
  <2>1. frames' \in Seq(Frame)
    BY <1>2
  <2>2. 1..Len(frames') = {} /\ 1..(Len(frames') - 1) = {}
    BY <1>2
  <2>3. Old' => visited' = {}
    BY DEF GraphInd, Path, Old
  <2> QED BY <1>2, <2>1, <2>2, <2>3 DEF Path, NoNode
<1>4. Search' /\ Reported'
  BY <1>2 DEF Search, Reported, ReportedIsCycle
<1>5. Searched'
  BY DEF Searched, Loading, Old, RootOf, Open, Models
<1> QED BY <1>3, <1>4, <1>5 DEF GraphInd

\* What becomes of the graph when a node is put at the free place.
LEMMA PutNode ==
    ASSUME GraphInd, Building, phase' \in {"branches", "detect"}, config' = config,
           NEW k \in NodeKinds, NEW p \in Pair, NEW bs \in Seq(Nat \X Nat),
           \A i \in 1..Len(bs) : /\ bs[i] \in DOMAIN built
                                 /\ bs[i][1] = 0 \/ (bs[i][1] = model /\ bs[i][2] < Item),
           built' = Put(built, Place, New(k, p, bs))
    PROVE  /\ DOMAIN built' = DOMAIN built \cup {Place}
           /\ \A n \in DOMAIN built : built'[n] = built[n]
           /\ built'[Place] = [kind |-> k, pair |-> p, branches |-> bs]
           /\ Shape'
<1>1. /\ DOMAIN built' = DOMAIN built \cup {Place}
      /\ \A n \in DOMAIN built : built'[n] = built[n]
      /\ built'[Place] = [kind |-> k, pair |-> p, branches |-> bs]
      /\ built' = [n \in DOMAIN built \cup {Place} |-> built'[n]]
  BY ItemFacts DEF Put, New
<1>2. built \in [DOMAIN built -> GNode] /\ DOMAIN built \subseteq Nat \X Nat
  BY DEF GraphInd, Shape
<1>3. built'[Place] \in GNode /\ \A n \in DOMAIN built : built'[n] \in GNode
  BY <1>1, <1>2 DEF GNode
<1>4. built' \in [DOMAIN built' -> GNode] /\ DOMAIN built' \subseteq Nat \X Nat
  BY <1>1, <1>2, <1>3, ItemFacts
<1>5. ASSUME NEW n \in DOMAIN built', NEW i \in 1..Len(built'[n].branches)
      PROVE  LET b == built'[n].branches[i] IN
             /\ b \in DOMAIN built'
             /\ n[1] # 0 => b[1] = 0 \/ (b[1] = n[1] /\ b[2] < n[2])
  <2>1. CASE n \in DOMAIN built
    <3>1. built'[n] = built[n]
      BY <1>1, <2>1
    <3> QED BY <1>1, <2>1, <3>1 DEF GraphInd, Shape
  <2>2. CASE n = Place
    BY <1>1, <2>2, ItemFacts
  <2> QED BY <1>1, <2>1, <2>2
<1>6. ASSUME NEW n \in DOMAIN built', n[1] = 0
      PROVE  built'[n].kind = "reference" /\ \E i \in 1..Len(Models) : n = RootOf(i)
  <2>1. n \in DOMAIN built
    BY <1>1, <1>6, ItemFacts
  <2>2. built'[n] = built[n]
    BY <1>1, <2>1
  <2> QED BY <1>6, <2>1, <2>2 DEF GraphInd, Shape
<1>7. \A i \in 1..Len(Models) : RootOf(i) \in DOMAIN built'
  BY <1>1 DEF GraphInd, Shape, Building
<1> QED BY <1>1, <1>4, <1>5, <1>6, <1>7 DEF Shape, RootOf, Models

\* What becomes of the graph when a root gets branches.
LEMMA SetRoot ==
    ASSUME GraphInd, phase # "roots", config' = config,
           NEW r \in DOMAIN built, r[1] = 0,
           NEW bs \in Seq(Nat \X Nat), \A i \in 1..Len(bs) : bs[i] \in DOMAIN built,
           built' = [built EXCEPT ![r].branches = bs]
    PROVE  /\ DOMAIN built' = DOMAIN built
           /\ \A n \in DOMAIN built : n # r => built'[n] = built[n]
           /\ built'[r] = [kind |-> built[r].kind, pair |-> built[r].pair, branches |-> bs]
           /\ Shape'
<1>1. built \in [DOMAIN built -> GNode] /\ DOMAIN built \subseteq Nat \X Nat
  BY DEF GraphInd, Shape
<1>2. built[r] \in GNode
  BY <1>1
<1>3. /\ DOMAIN built' = DOMAIN built
      /\ \A n \in DOMAIN built : n # r => built'[n] = built[n]
      /\ built'[r] = [kind |-> built[r].kind, pair |-> built[r].pair, branches |-> bs]
  BY <1>1, <1>2 DEF GNode
<1>4. built' \in [DOMAIN built' -> GNode]
  <2>1. built'[r] \in GNode
    BY <1>2, <1>3 DEF GNode
  <2>2. \A n \in DOMAIN built : built'[n] \in GNode
    BY <1>1, <1>3, <2>1
  <2>3. built' = [n \in DOMAIN built' |-> built'[n]]
    OBVIOUS
  <2> QED BY <1>3, <2>2, <2>3
<1>5. ASSUME NEW n \in DOMAIN built', NEW i \in 1..Len(built'[n].branches)
      PROVE  LET b == built'[n].branches[i] IN
             /\ b \in DOMAIN built'
             /\ n[1] # 0 => b[1] = 0 \/ (b[1] = n[1] /\ b[2] < n[2])
  <2>1. CASE n = r
    <3>1. built'[n].branches = bs
      BY <1>3, <2>1
    <3> QED BY <1>3, <2>1, <3>1
  <2>2. CASE n # r
    <3>1. built'[n] = built[n] /\ n \in DOMAIN built
      BY <1>3, <2>2
    <3>2. i \in 1..Len(built[n].branches)
      BY <3>1
    <3>3. LET b == built[n].branches[i] IN
          /\ b \in DOMAIN built
          /\ n[1] # 0 => b[1] = 0 \/ (b[1] = n[1] /\ b[2] < n[2])
      BY <3>1, <3>2 DEF GraphInd, Shape
    <3> QED BY <1>3, <3>1, <3>3
  <2> QED BY <2>1, <2>2
<1>6. ASSUME NEW n \in DOMAIN built', n[1] = 0
      PROVE  built'[n].kind = "reference" /\ \E i \in 1..Len(Models) : n = RootOf(i)
  <2>1. n \in DOMAIN built /\ built'[n].kind = built[n].kind
    <3>1. n = r \/ built'[n] = built[n]
      BY <1>3
    <3>2. built'[r].kind = built[r].kind
      BY <1>3
    <3> QED BY <1>3, <3>1, <3>2
  <2> QED BY <1>6, <2>1 DEF GraphInd, Shape
<1>7. \A i \in 1..Len(Models) : RootOf(i) \in DOMAIN built'
  BY <1>3 DEF GraphInd, Shape
<1> QED BY <1>1, <1>3, <1>4, <1>5, <1>6, <1>7 DEF Shape, RootOf, Models

\* A root without branches belongs to a model that is not built yet.
LEMMA EmptyIsOpen ==
    ASSUME GraphInd, phase = "branches", NEW i \in 1..Len(Models), i < model,
           NEW x \in DOMAIN built, x[1] = 0, built[x].branches = <<>>
    PROVE  x \in Open(i)
<1>1. PICK j \in 1..Len(Models) : x = RootOf(j)
  BY DEF GraphInd, Shape
<1>2. Len(Models) \in Nat /\ model \in Nat
  BY ModelFacts DEF GraphInd, Numbered, Loading
<1>3. ~(j < model)
  <2> SUFFICES ASSUME j < model PROVE FALSE
    OBVIOUS
  <2>1. Len(built[x].branches) = 1
    BY <1>1 DEF GraphInd, OneBranch
  <2> QED BY <2>1
<1>4. j > i
  BY <1>2, <1>3
<1> QED BY <1>1, <1>4 DEF Open

\* A node has been built: the invariant goes on.
LEMMA ResolveKeeps ==
    ASSUME GraphInd, Building,
           UNCHANGED <<config, model, phase, entering, frames, visited, cyclePath>>,
           NEW n \in Nat \X Nat, resolved' = Append(resolved, n),
           n \in DOMAIN built', n[1] = 0 \/ (n[1] = model /\ n[2] <= Item),
           DOMAIN built \subseteq DOMAIN built', DOMAIN built' \subseteq DOMAIN built \cup {Place},
           \A x \in DOMAIN built : built'[x] = built[x] \/ (x[1] = 0 /\ built[x].branches = <<>>),
           Shape', PairsFit'
    PROVE  GraphInd'
<1>1. phase = "branches" /\ phase' = "branches"
  BY DEF Building
<1>2. /\ model \in Nat \ {0} /\ resolved \in Seq(Nat \X Nat)
      /\ \A x \in DOMAIN built : x[1] < model \/ (x[1] = model /\ x[2] <= Len(resolved))
      /\ \A i \in 1..Len(resolved) :
           /\ resolved[i] \in DOMAIN built
           /\ resolved[i][1] = 0 \/ (resolved[i][1] = model /\ resolved[i][2] <= i)
  BY <1>1 DEF GraphInd, Numbered, Loading
<1>3. /\ resolved' \in Seq(Nat \X Nat) /\ Len(resolved') = Item /\ Item = Len(resolved) + 1
      /\ Len(resolved) \in Nat /\ resolved'[Item] = n
      /\ \A i \in 1..Len(resolved) : resolved'[i] = resolved[i]
  BY <1>2, ItemFacts
<1>4. Numbered'
  <2>1. ASSUME NEW i \in 1..Len(resolved')
        PROVE  /\ resolved'[i] \in DOMAIN built'
               /\ resolved'[i][1] = 0 \/ (resolved'[i][1] = model /\ resolved'[i][2] <= i)
    <3>1. CASE i = Item
      BY <1>3, <3>1
    <3>2. CASE i # Item
      <4>1. i \in 1..Len(resolved)
        BY <1>3, <3>2
      <4> QED BY <1>2, <1>3, <4>1
    <3> QED BY <3>1, <3>2
  <2>2. ASSUME NEW x \in DOMAIN built' PROVE x[1] < model \/ (x[1] = model /\ x[2] <= Len(resolved'))
    <3>1. CASE x = Place
      BY <1>3, <3>1, ItemFacts
    <3>2. CASE x \in DOMAIN built
      <4>1. x[2] \in Nat
        BY <3>2 DEF GraphInd, Shape
      <4> QED BY <1>2, <1>3, <3>2, <4>1
    <3> QED BY <3>1, <3>2
  <2> QED BY <1>1, <1>2, <1>3, <2>1, <2>2 DEF Numbered, Loading
<1>5. OneBranch'
  <2> SUFFICES ASSUME NEW i \in 1..Len(Models), i < model PROVE Len(built'[RootOf(i)].branches) = 1
    BY <1>1 DEF OneBranch, RootOf, Models
  <2>1. Len(built[RootOf(i)].branches) = 1 /\ RootOf(i) \in DOMAIN built
    BY <1>1 DEF GraphInd, OneBranch, Shape
  <2>2. built[RootOf(i)].branches # <<>>
    BY <2>1
  <2> QED BY <2>1, <2>2
<1>6. ASSUME NEW i \in 1..Len(Models), i < model PROVE Safe(built', RootOf(i), Open(i)) \/ Old
  <2>1. Safe(built, RootOf(i), Open(i)) \/ Old
    BY <1>1, <1>6 DEF GraphInd, Searched, Loading
  <2>2. \A x \in DOMAIN built \ Open(i) : built'[x] = built[x]
    BY <1>1, <1>6, EmptyIsOpen
  <2> QED BY <2>1, <2>2, SafeKept
<1> QED BY <1>1, <1>4, <1>5, <1>6, BuildKeeps

\* A root that is referred to.
LEMMA RootResolved ==
    ASSUME GraphInd, NEW name, Root(name) \in DOMAIN built
    PROVE  Root(name) \in Nat \X Nat /\ Root(name)[1] = 0
BY DEF GraphInd, Shape, Root

LEMMA BuildRootsKeeps == GraphInd /\ BuildRoots => GraphInd'
<1> SUFFICES ASSUME GraphInd, BuildRoots PROVE GraphInd'
  OBVIOUS
<1> DEFINE D == {Root(Models[i].name) : i \in 1..Len(Models)}
           last(n) == CHOOSE i \in 1..Len(Models) :
                        /\ Root(Models[i].name) = n
                        /\ \A j \in i + 1..Len(Models) : Root(Models[j].name) # n
<1>1. /\ phase = "roots" /\ phase' = "branches" /\ model = 1 /\ resolved = <<>> /\ built = <<>>
      /\ UNCHANGED <<config, model, resolved, entering, frames, visited, cyclePath>>
      /\ built' = [n \in D |-> New("reference", Models[last(n)].pair, <<>>)]
  BY DEF BuildRoots, GraphInd, Numbered
<1>2. DOMAIN built = {}
  BY <1>1
<1>3. ASSUME NEW n \in D PROVE last(n) \in 1..Len(Models)
  <2> DEFINE I == {i \in 1..Len(Models) : Root(Models[i].name) = n}
  <2>1. Len(Models) \in Nat
    BY ModelFacts DEF GraphInd
  <2>2. I # {} /\ I \subseteq Int
    OBVIOUS
  <2>3. IsFiniteSet(I)
    <3>1. IsFiniteSet(1..Len(Models))
      BY <2>1, FS_Interval
    <3> QED BY <3>1, FS_Subset
  <2> HIDE DEF I
  <2>4. PICK i \in I : \A j \in I : j <= i
    BY <2>2, <2>3, GreatestExists
  <2>5. i \in 1..Len(Models) /\ Root(Models[i].name) = n
    BY <2>4 DEF I
  <2>6. \A j \in i + 1..Len(Models) : Root(Models[j].name) # n
    <3> SUFFICES ASSUME NEW j \in i + 1..Len(Models), Root(Models[j].name) = n PROVE FALSE
      OBVIOUS
    <3>1. j \in I
      BY <2>1, <2>5 DEF I
    <3> QED BY <2>1, <2>4, <2>5, <3>1
  <2> QED BY <2>5, <2>6
<1>4. \A n \in D : Models[last(n)].pair \in Pair
  <2>1. \A i \in 1..Len(Models) : Models[i].pair \in Pair
    BY ModelFacts DEF GraphInd, PriceModel
  <2> HIDE DEF last, D
  <2> QED BY <1>3, <2>1
<1> HIDE DEF last
<1>5. \A n \in D : /\ built'[n].kind = "reference" /\ built'[n].branches = <<>>
                   /\ built'[n] \in GNode /\ n \in Nat \X Nat /\ n[1] = 0
                   /\ \E i \in 1..Len(Models) : n = RootOf(i)
  <2>1. \A n \in D : /\ built'[n] = [kind |-> "reference", pair |-> Models[last(n)].pair, branches |-> <<>>]
    BY <1>1 DEF New
  <2>2. \A n \in D : n \in Nat \X Nat /\ n[1] = 0 /\ \E i \in 1..Len(Models) : n = RootOf(i)
    BY ModelFacts DEF GraphInd, RootOf
  <2>3. "reference" \in NodeKinds
    BY DEF NodeKinds
  <2>4. <<>> \in Seq(Nat \X Nat)
    OBVIOUS
  <2>5. \A p \in Pair : [kind |-> "reference", pair |-> p, branches |-> <<>>] \in GNode
    BY <2>3, <2>4 DEF GNode
  <2> HIDE DEF D
  <2>6. ASSUME NEW n \in D
        PROVE  built'[n].kind = "reference" /\ built'[n].branches = <<>> /\ built'[n] \in GNode
    <3>1. built'[n] = [kind |-> "reference", pair |-> Models[last(n)].pair, branches |-> <<>>]
      BY <2>1
    <3> QED BY <1>4, <2>5, <3>1
  <2> QED BY <2>2, <2>6
<1>6. DOMAIN built' = D /\ \A i \in 1..Len(Models) : RootOf(i) \in D
  BY <1>1 DEF RootOf
<1> HIDE DEF D
<1>7. Shape'
  <2>1. built' \in [DOMAIN built' -> GNode]
    BY <1>1, <1>5, <1>6
  <2> QED BY <1>1, <1>5, <1>6, <2>1 DEF Shape, RootOf, Models
<1>8. Numbered'
  BY <1>1, <1>5, <1>6 DEF Numbered, Loading
<1>9. PairsFit'
  BY <1>5, <1>6 DEF PairsFit
<1>10. OneBranch'
  BY <1>1 DEF OneBranch
<1>11. ~Old => \A i \in 1..Len(Models) : i < model' => Safe(built', RootOf(i), Open(i))
  BY <1>1
<1>12. DOMAIN built \subseteq DOMAIN built'
  BY <1>2
<1> QED BY <1>1, <1>7, <1>8, <1>9, <1>10, <1>11, <1>12, BuildKeeps

LEMMA BuildNodeOldKeeps == GraphInd /\ BuildNodeOld => GraphInd'
<1> SUFFICES ASSUME GraphInd, BuildNodeOld PROVE GraphInd'
  OBVIOUS
<1>1. /\ Building /\ More /\ Old /\ config' = config
      /\ UNCHANGED <<config, model, entering, frames, visited, cyclePath>>
  BY DEF BuildNodeOld
<1>2. PairsFit'
  BY <1>1 DEF PairsFit, Old
<1>3. phase = "branches" /\ Config.kind \in NodeKinds /\ Config.pair \in Pair
  BY <1>1, ItemFacts DEF Building, ModelNode
<1>4. Reject => GraphInd'
  <2> SUFFICES ASSUME Reject PROVE GraphInd'
    OBVIOUS
  <2>1. ReportedIsCycle'
    BY <1>1 DEF GraphInd, Reported, ReportedIsCycle, Reject
  <2> QED BY <1>1, <1>3, <2>1, RejectKeeps DEF Reject
<1>5. ASSUME NEW n \in DOMAIN built, n[1] = 0 \/ (n[1] = model /\ n[2] <= Item), Resolve(n, built)
      PROVE  GraphInd'
  <2>1. built' = built /\ resolved' = Append(resolved, n) /\ phase' = phase
    BY <1>5 DEF Resolve
  <2>2. Shape' /\ n \in Nat \X Nat
    BY <1>1, <2>1 DEF GraphInd, Shape, RootOf, Models
  <2> QED BY <1>1, <1>2, <1>5, <2>1, <2>2, ResolveKeeps
<1>6. ASSUME NEW bs \in Seq(Nat \X Nat),
             \A i \in 1..Len(bs) : /\ bs[i] \in DOMAIN built
                                   /\ bs[i][1] = 0 \/ (bs[i][1] = model /\ bs[i][2] < Item),
             Resolve(Place, Put(built, Place, New(Config.kind, Config.pair, bs)))
      PROVE  GraphInd'
  <2>1. built' = Put(built, Place, New(Config.kind, Config.pair, bs))
        /\ resolved' = Append(resolved, Place) /\ phase' = phase
    BY <1>6 DEF Resolve
  <2>2. /\ DOMAIN built' = DOMAIN built \cup {Place} /\ Shape'
        /\ \A n \in DOMAIN built : built'[n] = built[n]
    BY <1>1, <1>3, <1>6, <2>1, PutNode
  <2>3. Place \in Nat \X Nat /\ Place[1] = model /\ Place[2] = Item /\ Item \in Nat
    BY <1>1, ItemFacts
  <2>4. Place[2] <= Item
    BY <2>3
  <2> QED BY <1>1, <1>2, <2>1, <2>2, <2>3, <2>4, ResolveKeeps
<1>7. /\ Sources \in Seq(Nat \X Nat) /\ Item \in Nat
      /\ \A i \in 1..Len(Sources) :
           /\ Sources[i] \in DOMAIN built
           /\ Sources[i][1] = 0 \/ (Sources[i][1] = model /\ Sources[i][2] < Item)
  BY <1>1, ItemFacts
<1>8. CASE Config.kind = "origin"
  <2>1. Resolve(Place, Put(built, Place, New(Config.kind, Config.pair, <<>>)))
    BY <1>8 DEF BuildNodeOld
  <2>2. <<>> \in Seq(Nat \X Nat) /\ Len(<<>>) = 0
    OBVIOUS
  <2>3. 1..Len(<<>>) = {}
    BY <2>2
  <2> QED BY <1>6, <2>1, <2>2, <2>3
<1>9. CASE Config.kind = "reference"
  <2>1. BuildReferenceOld
    BY <1>9 DEF BuildNodeOld
  <2>2. CASE Root(Config.ref) \in DOMAIN built
    <3>1. Resolve(Root(Config.ref), built)
      BY <2>1, <2>2 DEF BuildReferenceOld
    <3> QED BY <1>5, <2>2, <3>1, RootResolved
  <2> QED BY <1>4, <2>1, <2>2 DEF BuildReferenceOld
<1>10. CASE Config.kind \in {"median", "indirect"}
  <2>1. BuildAggregatorOld
    BY <1>10 DEF BuildNodeOld
  <2>2. CASE Sources # <<>> /\ Len(Sources) = 1
    <3>1. Resolve(Sources[1], built) /\ 1 \in 1..Len(Sources)
      BY <2>1, <2>2 DEF BuildAggregatorOld
    <3>2. /\ Sources[1] \in DOMAIN built /\ Sources[1] \in Nat \X Nat
          /\ Sources[1][1] = 0 \/ (Sources[1][1] = model /\ Sources[1][2] < Item)
      BY <1>7, <3>1
    <3>3. Sources[1][1] = 0 \/ (Sources[1][1] = model /\ Sources[1][2] <= Item)
      BY <1>7, <3>2
    <3> QED BY <1>5, <3>1, <3>2, <3>3
  <2>3. CASE Sources # <<>> /\ Len(Sources) # 1
    BY <1>6, <1>7, <2>1, <2>3 DEF BuildAggregatorOld
  <2> QED BY <1>4, <2>1, <2>2, <2>3 DEF BuildAggregatorOld
<1>11. CASE Config.kind \notin {"origin", "reference", "median", "indirect"}
  BY <1>4, <1>11 DEF BuildNodeOld
<1> QED BY <1>8, <1>9, <1>10, <1>11

\* AddBranch on a node that is just made.
LEMMA AddToNew ==
    ASSUME NEW g, NEW n, n \notin DOMAIN g, NEW k, NEW p, NEW T, NEW bs \in Seq(T)
    PROVE  AddBranch(Put(g, n, New(k, p, <<>>)), n, bs) =
             Put(g, n, New(k, p, IF k = "breaker" /\ Len(bs) = 1 THEN <<>> ELSE bs))
<1> DEFINE h == Put(g, n, New(k, p, <<>>))
<1>1. h[n] = [kind |-> k, pair |-> p, branches |-> <<>>] /\ DOMAIN h = DOMAIN g \cup {n}
  BY DEF Put, New
<1>2. CASE k = "breaker" /\ Len(bs) = 1
  BY <1>1, <1>2 DEF AddBranch
<1>3. CASE ~(k = "breaker" /\ Len(bs) = 1)
  <2>1. AddBranch(h, n, bs) = [h EXCEPT ![n].branches = @ \o bs]
    BY <1>1, <1>3 DEF AddBranch
  <2>2. h[n].branches \o bs = bs
    <3>1. h[n].branches = <<>>
      BY <1>1
    <3>2. <<>> \o bs = bs
      BY ConcatEmptySeq
    <3> QED BY <3>1, <3>2
  <2>3. [h[n] EXCEPT !.branches = h[n].branches \o bs] = [kind |-> k, pair |-> p, branches |-> bs]
    <3> DEFINE x == h[n]
               y == h[n].branches \o bs
    <3>1. x = [kind |-> k, pair |-> p, branches |-> <<>>] /\ y = bs
      BY <1>1, <2>2
    <3> HIDE DEF x, y, h
    <3>2. [x EXCEPT !.branches = y] = [kind |-> k, pair |-> p, branches |-> bs]
      BY <3>1
    <3> QED BY <3>2 DEF x, y
  <2>4. [h EXCEPT ![n].branches = @ \o bs] =
          [x \in DOMAIN h |-> IF x = n THEN [h[n] EXCEPT !.branches = h[n].branches \o bs] ELSE h[x]]
    BY DEF Put
  <2>5. \A x \in DOMAIN g : h[x] = g[x]
    BY DEF Put
  <2> HIDE DEF h
  <2>6. [h EXCEPT ![n].branches = @ \o bs] =
          [x \in DOMAIN g \cup {n} |-> IF x = n THEN [kind |-> k, pair |-> p, branches |-> bs] ELSE g[x]]
    BY <1>1, <2>3, <2>4, <2>5
  <2> QED BY <1>3, <2>1, <2>6 DEF Put, New, h
<1> QED BY <1>2, <1>3

LEMMA BuildNodeNewKeeps == GraphInd /\ BuildNodeNew => GraphInd'
<1> SUFFICES ASSUME GraphInd, BuildNodeNew PROVE GraphInd'
  OBVIOUS
<1>1. /\ Building /\ More /\ ~Old /\ config' = config
      /\ UNCHANGED <<config, model, entering, frames, visited, cyclePath>>
  BY DEF BuildNodeNew
<1>3. /\ phase = "branches" /\ Config.kind \in NodeKinds /\ Config.pair \in Pair
      /\ Place \in Nat \X Nat /\ Place \notin DOMAIN built /\ Place[1] = model /\ Place[2] = Item
  BY <1>1, ItemFacts DEF Building, ModelNode
<1>4. Reject => GraphInd'
  <2> SUFFICES ASSUME Reject PROVE GraphInd'
    OBVIOUS
  <2>1. ReportedIsCycle'
    BY <1>1 DEF GraphInd, Reported, ReportedIsCycle, Reject
  <2> QED BY <1>1, <1>3, <2>1, RejectKeeps DEF Reject
<1>5. /\ Sources \in Seq(Nat \X Nat) /\ Item \in Nat
      /\ \A i \in 1..Len(Sources) :
           /\ Sources[i] \in DOMAIN built
           /\ Sources[i][1] = 0 \/ (Sources[i][1] = model /\ Sources[i][2] < Item)
  BY <1>1, ItemFacts
<1>6. PairsFit /\ ~Old'
  BY <1>1 DEF GraphInd, Old
<1>7. CASE Config.kind = "reference"
  <2> DEFINE n == Root(Config.ref)
             bs == IF Sources = <<>> THEN built[n].branches ELSE Sources
  <2>1. BuildReferenceNew
    BY <1>7 DEF BuildNodeNew
  <2>2. CASE n \in DOMAIN built /\ AddBranchOK(built, n, Sources)
    <3>1. n \in Nat \X Nat /\ n[1] = 0
      BY <2>2, RootResolved
    <3>2. built[n].kind = "reference" /\ built[n] \in GNode
      BY <2>2, <3>1 DEF GraphInd, Shape
    <3>3. /\ built[n].branches \in Seq(Nat \X Nat)
          /\ \A i \in 1..Len(built[n].branches) : built[n].branches[i] \in DOMAIN built
      BY <2>2, <3>2 DEF GraphInd, Shape, GNode
    <3>4. Resolve(n, AddBranch(built, n, Sources))
      BY <2>1, <2>2 DEF BuildReferenceNew
    <3>5. Sources # <<>> => /\ built[n].branches = <<>> /\ Len(Sources) = 1
                            /\ built[Sources[1]].pair = built[n].pair
      BY <2>2, <3>2 DEF AddBranchOK, ReferenceTakes
    <3>6. built[n].branches \o Sources = bs
      BY <1>5, <3>3, <3>5, ConcatEmptySeq
    <3>7. /\ built' = [built EXCEPT ![n].branches = bs]
          /\ resolved' = Append(resolved, n) /\ phase' = phase
      BY <3>2, <3>4, <3>6 DEF Resolve, AddBranch
    <3>8. bs \in Seq(Nat \X Nat) /\ \A i \in 1..Len(bs) : bs[i] \in DOMAIN built
      BY <1>5, <3>3
    <3> HIDE DEF n, bs
    <3>9. /\ DOMAIN built' = DOMAIN built
          /\ \A x \in DOMAIN built : x # n => built'[x] = built[x]
          /\ built'[n] = [kind |-> built[n].kind, pair |-> built[n].pair, branches |-> bs]
          /\ Shape'
      BY <1>1, <1>3, <2>2, <3>1, <3>7, <3>8, SetRoot
    <3>10. \A x \in DOMAIN built : built'[x].pair = built[x].pair
      BY <3>9
    <3>11. built'[n] = built[n] \/ built[n].branches = <<>>
      BY <3>2, <3>5, <3>9 DEF bs, GNode
    <3>12. PairsFit'
      <4> SUFFICES ASSUME NEW x \in DOMAIN built', NEW i \in 1..Len(built'[x].branches)
                   PROVE  LET y == built'[built'[x].branches[i]] IN
                          /\ built'[x].kind \in {"reference", "breaker"} => y.pair = built'[x].pair
                          /\ built'[x].kind = "invert" => y.pair = <<built'[x].pair[2], built'[x].pair[1]>>
        BY DEF PairsFit
      <4>1. CASE built'[x] = built[x]
        <5>1. x \in DOMAIN built /\ i \in 1..Len(built[x].branches) /\ built[x].branches[i] \in DOMAIN built
          BY <3>9, <4>1 DEF GraphInd, Shape
        <5> QED BY <1>1, <1>6, <3>10, <4>1, <5>1 DEF PairsFit
      <4>2. CASE x = n /\ Sources # <<>>
        <5>1. bs = Sources /\ built'[x].kind = "reference" /\ built'[x].branches = bs
              /\ built'[x].pair = built[n].pair /\ i = 1
          <6>1. bs = Sources /\ Len(bs) = 1
            BY <3>5, <4>2 DEF bs
          <6>2. built'[x].kind = "reference" /\ built'[x].branches = bs /\ built'[x].pair = built[n].pair
            BY <3>2, <3>9, <4>2
          <6>3. i \in 1..1
            BY <6>1, <6>2
          <6> QED BY <6>1, <6>2, <6>3
        <5>2. built'[bs[1]].pair = built[n].pair
          BY <3>5, <3>8, <3>10, <4>2, <5>1
        <5> QED BY <5>1, <5>2
      <4>3. CASE x = n /\ Sources = <<>>
        <5>1. built'[n] = built[n]
          BY <3>2, <3>9, <4>3 DEF bs, GNode
        <5> QED BY <4>1, <4>3, <5>1
      <4> QED BY <3>9, <4>1, <4>2, <4>3
    <3>13. n \in DOMAIN built' /\ DOMAIN built' \subseteq DOMAIN built \cup {Place}
      BY <2>2, <3>9
    <3>14. \A x \in DOMAIN built : built'[x] = built[x] \/ (x[1] = 0 /\ built[x].branches = <<>>)
      BY <3>1, <3>9, <3>11
    <3> QED BY <1>1, <3>1, <3>7, <3>9, <3>12, <3>13, <3>14, ResolveKeeps
  <2> QED BY <1>4, <2>1, <2>2 DEF BuildReferenceNew
<1>8. CASE Config.kind # "reference"
  <2> DEFINE k == Config.kind
             p == Config.pair
             g == Put(built, Place, New(k, p, <<>>))
             bs == IF k = "breaker" /\ Len(Sources) = 1 THEN <<>> ELSE Sources
  <2>1. CASE AddBranchOK(g, Place, Sources) /\ Resolve(Place, AddBranch(g, Place, Sources))
    <3>1. /\ built' = Put(built, Place, New(k, p, bs))
          /\ resolved' = Append(resolved, Place) /\ phase' = phase
      BY <1>3, <1>5, <2>1, AddToNew DEF Resolve
    <3>2. <<>> \in Seq(Nat \X Nat) /\ 1..Len(<<>>) = {}
      OBVIOUS
    <3>3. /\ bs \in Seq(Nat \X Nat)
          /\ \A i \in 1..Len(bs) : /\ bs[i] \in DOMAIN built
                                   /\ bs[i][1] = 0 \/ (bs[i][1] = model /\ bs[i][2] < Item)
      BY <1>5, <3>2
    <3>4. g[Place].kind = k /\ g[Place].pair = p /\ \A x \in DOMAIN built : g[x] = built[x]
      BY <1>3 DEF Put, New
    <3> HIDE DEF g, bs, k, p
    <3>5. /\ DOMAIN built' = DOMAIN built \cup {Place} /\ Shape'
          /\ \A x \in DOMAIN built : built'[x] = built[x]
          /\ built'[Place] = [kind |-> k, pair |-> p, branches |-> bs]
      <4>1. k \in NodeKinds /\ p \in Pair /\ phase' \in {"branches", "detect"}
        BY <1>3, <3>1 DEF k, p
      <4> QED BY <1>1, <3>1, <3>3, <4>1, PutNode
    <3>6. PairsFit'
      <4> SUFFICES ASSUME NEW x \in DOMAIN built', NEW i \in 1..Len(built'[x].branches)
                   PROVE  LET y == built'[built'[x].branches[i]] IN
                          /\ built'[x].kind \in {"reference", "breaker"} => y.pair = built'[x].pair
                          /\ built'[x].kind = "invert" => y.pair = <<built'[x].pair[2], built'[x].pair[1]>>
        BY DEF PairsFit
      <4>1. CASE x \in DOMAIN built
        <5>1. built'[x] = built[x] /\ i \in 1..Len(built[x].branches) /\ built[x].branches[i] \in DOMAIN built
          BY <3>5, <4>1 DEF GraphInd, Shape
        <5>2. built'[built[x].branches[i]] = built[built[x].branches[i]]
          BY <3>5, <5>1
        <5> QED BY <1>1, <1>6, <4>1, <5>1, <5>2 DEF PairsFit
      <4>2. CASE x = Place
        <5>1. /\ built'[x].kind = k /\ built'[x].pair = p /\ built'[x].branches = bs
              /\ i \in 1..Len(bs) /\ bs[i] \in DOMAIN built
          BY <3>3, <3>5, <4>2
        <5>2. bs = Sources /\ Sources # <<>>
          BY <3>2, <5>1 DEF bs
        <5>3. built'[bs[i]] = g[bs[i]]
          BY <3>4, <3>5, <5>1
        <5>4. k = "breaker" => \A j \in 1..Len(Sources) : g[Sources[j]].pair = p
          BY <2>1, <3>4, <5>2 DEF AddBranchOK, BreakerTakes
        <5>5. k = "invert" => Len(Sources) = 1 /\ g[Sources[1]].pair = <<p[2], p[1]>>
          BY <2>1, <3>4, <5>2 DEF AddBranchOK, InvertTakes
        <5>6. k = "invert" => i = 1
          <6>1. k = "invert" => i \in 1..1
            BY <5>1, <5>2, <5>5
          <6> QED BY <6>1
        <5> QED BY <1>8, <5>1, <5>2, <5>3, <5>4, <5>5, <5>6 DEF k
      <4> QED BY <3>5, <4>1, <4>2
    <3>7. Place[2] <= Item
      BY <1>3, <1>5
    <3> QED BY <1>1, <1>3, <3>1, <3>5, <3>6, <3>7, ResolveKeeps
  <2> QED BY <1>4, <1>8, <2>1 DEF BuildNodeNew
<1> QED BY <1>7, <1>8

\* The model is over: its nodes are all resolved.
LEMMA ModelOver ==
    ASSUME GraphInd, Building, ~More
    PROVE  /\ model \in 1..Len(Models) /\ model \in Nat \ {0} /\ Len(Models) \in Nat
           /\ RootOf(model) \in DOMAIN built /\ RootOf(model)[1] = 0 /\ RootOf(model) \in Nat \X Nat
           /\ resolved \in Seq(Nat \X Nat) /\ Len(resolved) \in Nat
           /\ \A i \in 1..Len(resolved) : resolved[i] \in DOMAIN built
           /\ \A k \in 1..Len(Models[model].nodes) : k \in 1..Len(resolved)
           /\ \A n \in DOMAIN built : n \in Nat \X Nat /\ n[1] <= model
<1>1. phase = "branches" /\ Numbered /\ Loading /\ Shape /\ ConfigOK(config)
  BY DEF GraphInd, Building, Loading
<1>2. model \in 1..Len(Models) /\ model \in Nat \ {0} /\ Len(Models) \in Nat /\ Item = Len(resolved) + 1
  BY <1>1, ModelFacts, ItemFacts
<1>3. /\ RootOf(model) \in DOMAIN built /\ RootOf(model)[1] = 0 /\ RootOf(model) \in Nat \X Nat
      /\ Len(Models[model].nodes) \in Nat
  BY <1>1, <1>2, ModelFacts DEF Shape
<1>4. /\ resolved \in Seq(Nat \X Nat) /\ Len(resolved) \in Nat
      /\ \A i \in 1..Len(resolved) : resolved[i] \in DOMAIN built
  BY <1>1 DEF Numbered
<1>5. Len(Models[model].nodes) <= Len(resolved)
  BY <1>2, <1>3, <1>4 DEF More
<1>6. ASSUME NEW n \in DOMAIN built PROVE n \in Nat \X Nat /\ n[1] <= model
  <2>1. n \in Nat \X Nat
    BY <1>1 DEF Shape
  <2>2. n[1] < model \/ n[1] = model
    BY <1>1 DEF Numbered
  <2> QED BY <1>2, <2>1, <2>2
<1>7. \A k \in 1..Len(Models[model].nodes) : k \in 1..Len(resolved)
  BY <1>3, <1>4, <1>5
<1> QED BY <1>2, <1>3, <1>4, <1>6, <1>7

LEMMA SetReferenceKeeps == GraphInd /\ SetReference => GraphInd'
<1> SUFFICES ASSUME GraphInd, SetReference PROVE GraphInd'
  OBVIOUS
<1> DEFINE r == RootOf(model)
           bs == <<resolved[Len(resolved)]>>
<1>1. /\ Building /\ ~More /\ Old /\ phase = "branches" /\ phase' = "branches"
      /\ UNCHANGED <<config, phase, entering, frames, visited, cyclePath>>
      /\ model' = model + 1 /\ resolved' = <<>>
      /\ built' = [built EXCEPT ![r].branches = bs]
  BY DEF SetReference, Building, RootOf
<1>2. Len(resolved) \in 1..Len(resolved)
  <2>1. Models[model].nodes # <<>> /\ Models[model].nodes \in Seq(ModelNode)
    BY <1>1, ModelOver, ModelFacts DEF GraphInd, ConfigOK, Old, Models, PriceModel
  <2>2. 1 \in 1..Len(Models[model].nodes)
    BY <2>1
  <2> QED BY <1>1, <2>2, ModelOver
<1>3. /\ bs \in Seq(Nat \X Nat) /\ Len(bs) = 1 /\ \A i \in 1..Len(bs) : bs[i] \in DOMAIN built
      /\ r \in DOMAIN built /\ r[1] = 0
  <2>1. resolved[Len(resolved)] \in DOMAIN built /\ resolved[Len(resolved)] \in Nat \X Nat
    BY <1>1, <1>2, ModelOver
  <2> QED BY <1>1, <2>1, ModelOver
<1> HIDE DEF r, bs
<1>4. /\ DOMAIN built' = DOMAIN built
      /\ \A n \in DOMAIN built : n # r => built'[n] = built[n]
      /\ built'[r] = [kind |-> built[r].kind, pair |-> built[r].pair, branches |-> bs]
      /\ Shape'
  BY <1>1, <1>3, SetRoot
<1>5. Numbered'
  <2>1. model + 1 \in Nat \ {0} /\ <<>> \in Seq(Nat \X Nat) /\ 1..Len(<<>>) = {}
    BY <1>1, ModelOver
  <2>2. \A n \in DOMAIN built' : n[1] < model + 1
    BY <1>1, <1>4, ModelOver
  <2> QED BY <1>1, <2>1, <2>2 DEF Numbered, Loading
<1>6. PairsFit'
  BY <1>1 DEF PairsFit, Old
<1>7. OneBranch'
  <2> SUFFICES ASSUME NEW i \in 1..Len(Models), i < model + 1
               PROVE  Len(built'[RootOf(i)].branches) = 1
    BY <1>1 DEF OneBranch, RootOf, Models
  <2>1. CASE RootOf(i) = r
    BY <1>3, <1>4, <2>1
  <2>2. CASE RootOf(i) # r
    <3>1. i # model /\ RootOf(i) \in DOMAIN built
      BY <1>1, <2>2 DEF GraphInd, Shape, r
    <3>2. i < model
      BY <1>1, <3>1, ModelOver
    <3> QED BY <1>1, <1>4, <2>2, <3>1, <3>2 DEF GraphInd, OneBranch
  <2> QED BY <2>1, <2>2
<1> QED BY <1>1, <1>4, <1>5, <1>6, <1>7, BuildKeeps

\* A node of the graph is not NoNode.
LEMMA NodeNotEmpty == \A x \in Nat \X Nat : x # <<>>
<1> TAKE x \in Nat \X Nat
<1>1. DOMAIN x = 1..2
  OBVIOUS
<1>2. DOMAIN <<>> = {}
  OBVIOUS
<1>3. 1 \in 1..2
  OBVIOUS
<1> QED BY <1>1, <1>2, <1>3, Zenon

\* A search begins.
LEMMA SearchBegins ==
    ASSUME Shape', phase' = "detect", frames' = <<>>, visited' = {},
           entering' \in DOMAIN built', entering' = StartedFrom'
    PROVE  Path' /\ Search'
<1>1. entering' # NoNode' /\ Len(frames') = 0
  <2>1. entering' \in Nat \X Nat
    BY DEF Shape
  <2> QED BY <2>1, NodeNotEmpty DEF NoNode
<1>2. 1..Len(frames') = {} /\ 1..(Len(frames') - 1) = {} /\ frames' \in Seq(Frame)
  BY <1>1
<1>3. Path'
  BY <1>1, <1>2 DEF Path
<1>4. Done' = {}
  BY DEF Done
<1>5. Closed(built', {}, {}) /\ NoTrap(built', {})
  BY DEF Closed, NoTrap, Trap
<1>6. BranchesDone'
  BY <1>2 DEF BranchesDone
<1> QED BY <1>1, <1>3, <1>4, <1>5, <1>6 DEF Search

LEMMA AddRootBranchKeeps == GraphInd /\ AddRootBranch => GraphInd'
<1> SUFFICES ASSUME GraphInd, AddRootBranch PROVE GraphInd'
  OBVIOUS
<1> DEFINE m == Models[model]
           r == RootOf(model)
           bs == [i \in 1..Len(m.top) |-> resolved[m.top[i]]]
<1>1. /\ Building /\ ~More /\ ~Old /\ phase = "branches"
      /\ UNCHANGED <<config, model, resolved, frames, cyclePath>>
  BY DEF AddRootBranch, Building
<1>2. CASE Len(m.top) = 1 /\ AddBranchOK(built, r, bs)
  <2>1. /\ built' = AddBranch(built, r, bs) /\ phase' = "detect" /\ entering' = r /\ visited' = {}
    BY <1>2 DEF AddRootBranch, RootOf
  <2>2. r \in DOMAIN built /\ r[1] = 0 /\ built[r].kind = "reference" /\ built[r] \in GNode
    BY <1>1, ModelOver DEF GraphInd, Shape
  <2>3. bs \in Seq(Nat \X Nat) /\ Len(bs) = 1 /\ \A i \in 1..Len(bs) : bs[i] \in DOMAIN built
    <3>1. \A i \in 1..Len(m.top) : m.top[i] \in 1..Len(resolved)
      BY <1>1, ModelOver DEF GraphInd, ConfigOK, Models
    <3>2. \A i \in 1..1 : resolved[m.top[i]] \in DOMAIN built /\ resolved[m.top[i]] \in Nat \X Nat
      BY <1>1, <1>2, <3>1, ModelOver
    <3> HIDE DEF m
    <3> QED BY <1>2, <3>2
  <2> HIDE DEF r, bs, m
  <2>4. built[r].branches = <<>> /\ built[bs[1]].pair = built[r].pair /\ bs # <<>>
    <3>1. bs # <<>>
      <4>1. Len(bs) = 1
        BY <2>3
      <4>2. Len(<<>>) # 1
        OBVIOUS
      <4> QED BY <4>1, <4>2, Zenon
    <3>2. AddBranchOK(built, r, bs)
      BY <1>2
    <3>3. ReferenceTakes(built, built[r], bs)
      BY <2>2, <3>1, <3>2 DEF AddBranchOK
    <3> QED BY <3>1, <3>3 DEF ReferenceTakes
  <2>5. built' = [built EXCEPT ![r].branches = bs]
    <3>1. built[r].branches \o bs = bs
      BY <2>3, <2>4, ConcatEmptySeq
    <3> QED BY <2>1, <2>2, <3>1 DEF AddBranch
  <2>6. /\ DOMAIN built' = DOMAIN built
        /\ \A n \in DOMAIN built : n # r => built'[n] = built[n]
        /\ built'[r] = [kind |-> built[r].kind, pair |-> built[r].pair, branches |-> bs]
        /\ Shape'
    BY <1>1, <2>2, <2>3, <2>5, SetRoot
  <2>7. Numbered'
    BY <1>1, <2>1, <2>6, ModelOver DEF GraphInd, Numbered, Loading, Old, Models
  <2>8. \A x \in DOMAIN built : built'[x].pair = built[x].pair
    BY <2>6
  <2>9. PairsFit'
    <3> SUFFICES ASSUME NEW x \in DOMAIN built', NEW i \in 1..Len(built'[x].branches)
                 PROVE  LET y == built'[built'[x].branches[i]] IN
                        /\ built'[x].kind \in {"reference", "breaker"} => y.pair = built'[x].pair
                        /\ built'[x].kind = "invert" => y.pair = <<built'[x].pair[2], built'[x].pair[1]>>
      BY DEF PairsFit
    <3>1. CASE x # r
      <4>1. built'[x] = built[x] /\ x \in DOMAIN built /\ i \in 1..Len(built[x].branches)
        BY <2>6, <3>1
      <4>2. built[x].branches[i] \in DOMAIN built
        BY <4>1 DEF GraphInd, Shape
      <4>3. built'[built[x].branches[i]].pair = built[built[x].branches[i]].pair
        BY <2>8, <4>2
      <4>4. PairsFit
        BY DEF GraphInd
      <4> QED BY <1>1, <4>1, <4>3, <4>4 DEF PairsFit
    <3>2. CASE x = r
      <4>1. built'[x].kind = "reference" /\ built'[x].branches = bs /\ built'[x].pair = built[r].pair
        BY <2>2, <2>6, <3>2
      <4>2. i \in 1..1
        BY <2>3, <4>1
      <4>3. built'[bs[1]].pair = built[r].pair
        BY <2>3, <2>4, <2>8
      <4> QED BY <4>1, <4>2, <4>3
    <3> QED BY <3>1, <3>2
  <2>10. OneBranch'
    <3> SUFFICES ASSUME NEW i \in 1..Len(Models), i <= model
                 PROVE  Len(built'[RootOf(i)].branches) = 1
      BY <1>1, <2>1 DEF OneBranch, RootOf, Models, Old
    <3>1. CASE RootOf(i) = r
      BY <2>3, <2>6, <3>1
    <3>2. CASE RootOf(i) # r
      <4>1. i # model /\ RootOf(i) \in DOMAIN built
        BY <1>1, <3>2 DEF GraphInd, Shape, r
      <4>2. i < model
        BY <1>1, <4>1, ModelOver
      <4> QED BY <1>1, <2>6, <3>2, <4>1, <4>2 DEF GraphInd, OneBranch
    <3> QED BY <3>1, <3>2
  <2>11. Path' /\ Search'
    <3>1. frames' = <<>>
      BY <1>1 DEF GraphInd, Path
    <3>2. entering' = StartedFrom' /\ entering' \in DOMAIN built'
      BY <1>1, <2>1, <2>2, <2>6 DEF StartedFrom, Old, RootOf, Models, r
    <3> QED BY <2>1, <2>6, <3>1, <3>2, SearchBegins
  <2>12. Searched'
    <3> SUFFICES ASSUME NEW i \in 1..Len(Models), i < model PROVE Safe(built', RootOf(i), Open(i))
      BY <1>1, <2>1 DEF Searched, Loading, Old, RootOf, Open, Models
    <3>1. Safe(built, RootOf(i), Open(i))
      BY <1>1 DEF GraphInd, Searched, Loading
    <3>2. r \in Open(i)
      BY <1>1, <2>2, <2>4, EmptyIsOpen
    <3> QED BY <2>6, <3>1, <3>2, SafeKept
  <2>13. Reported'
    BY <1>1, <2>1 DEF GraphInd, Reported, ReportedIsCycle
  <2> QED BY <1>1, <2>1, <2>6, <2>7, <2>9, <2>10, <2>11, <2>12, <2>13 DEF GraphInd
<1>3. CASE ~(Len(m.top) = 1 /\ AddBranchOK(built, r, bs))
  <2>1. phase' = "rejected" /\ UNCHANGED <<built, entering, visited>>
    BY <1>3 DEF AddRootBranch, RootOf
  <2>2. ReportedIsCycle'
    BY <1>1, <2>1 DEF GraphInd, Reported, ReportedIsCycle
  <2> HIDE DEF m, r, bs
  <2> QED BY <1>1, <2>1, <2>2, RejectKeeps
<1> QED BY <1>2, <1>3

LEMMA BranchesBuiltKeeps == GraphInd /\ BranchesBuilt => GraphInd'
<1> SUFFICES ASSUME GraphInd, BranchesBuilt PROVE GraphInd'
  OBVIOUS
<1>1. /\ phase = "branches" /\ model > Len(Models) /\ Len(Models) \in Nat /\ model \in Nat
      /\ UNCHANGED <<config, resolved, built, entering, frames, visited, cyclePath>>
      /\ phase' = IF Old THEN "detect" ELSE "accepted"
      /\ model' = IF Old THEN 0 ELSE model
  BY ModelFacts DEF BranchesBuilt, GraphInd, Numbered, Loading
<1>2. Shape' /\ PairsFit' /\ Old' = Old /\ Models' = Models /\ ConfigOK(config)'
  BY <1>1 DEF GraphInd, Shape, PairsFit, RootOf, Models, Old
<1>3. Numbered'
  BY <1>1, <1>2 DEF Numbered, Loading
<1>4. \A i \in 1..Len(Models) : i < model /\ Len(built[RootOf(i)].branches) = 1
  BY <1>1 DEF GraphInd, OneBranch
<1>5. OneBranch'
  BY <1>1, <1>2, <1>4 DEF OneBranch, RootOf
<1>6. frames' = <<>> /\ entering' = NoNode /\ (Old => visited' = {}) /\ Path
  BY <1>1 DEF GraphInd, Path
<1>7. Path'
  BY <1>1, <1>2, <1>6 DEF Path, NoNode
<1>8. Search'
  <2> SUFFICES ASSUME Old PROVE Search'
    BY <1>1 DEF Search
  <2>1. Done' = {} /\ 1..Len(frames') = {}
    BY <1>6 DEF Done
  <2>2. Closed(built', {}, {}) /\ NoTrap(built', {})
    BY DEF Closed, NoTrap, Trap
  <2> QED BY <1>1, <1>2, <1>6, <2>1, <2>2 DEF Search, BranchesDone
<1>9. Searched'
  <2>1. CASE Old
    <3>1. \A n \in DOMAIN built : ~(n[2] < 0)
      BY DEF GraphInd, Shape
    <3> QED BY <1>1, <1>2, <2>1, <3>1 DEF Searched, Loading
  <2>2. CASE ~Old
    <3>1. \A i \in 1..Len(Models) : Safe(built, RootOf(i), Open(i))
      BY <1>1, <1>4, <2>2 DEF GraphInd, Searched, Loading
    <3> QED BY <1>1, <1>2, <2>2, <3>1 DEF Searched, Loading, RootOf, Open
  <2> QED BY <2>1, <2>2
<1>10. Reported'
  BY <1>1 DEF GraphInd, Reported, ReportedIsCycle
<1> QED BY <1>1, <1>2, <1>3, <1>5, <1>7, <1>8, <1>9, <1>10 DEF GraphInd

-----------------------------------------------------------------------------
(* Searching *)

\* During a search the graph, and what is known of it, stay as they are.
LEMMA SearchKeeps ==
    ASSUME GraphInd, phase = "detect", phase' = "detect", UNCHANGED <<config, model, resolved, built, cyclePath>>,
           Path', Search'
    PROVE  GraphInd'
<1>1. Old' = Old /\ Models' = Models
  BY DEF Old, Models
<1>2. Shape' /\ Numbered' /\ PairsFit' /\ OneBranch'
  <2>1. Shape'
    BY <1>1 DEF GraphInd, Shape, RootOf
  <2>2. Numbered'
    BY <1>1 DEF GraphInd, Numbered, Loading
  <2>3. PairsFit' /\ OneBranch'
    BY <1>1 DEF GraphInd, PairsFit, OneBranch, RootOf
  <2> QED BY <2>1, <2>2, <2>3
<1>3. Searched'
  <2>1. CASE Old
    BY <1>1, <2>1 DEF GraphInd, Searched, Loading
  <2>2. CASE ~Old
    <3>1. \A i \in 1..Len(Models) : i < model => Safe(built, RootOf(i), Open(i))
      BY <2>2 DEF GraphInd, Searched, Loading
    <3> QED BY <1>1, <2>2, <3>1 DEF Searched, Loading, RootOf, Open
  <2> QED BY <2>1, <2>2
<1>4. Reported'
  BY DEF GraphInd, Reported, ReportedIsCycle
<1> QED BY <1>2, <1>3, <1>4 DEF GraphInd

LEMMA DetectFromRootKeeps == GraphInd /\ DetectFromRoot => GraphInd'
<1> SUFFICES ASSUME GraphInd, DetectFromRoot PROVE GraphInd'
  OBVIOUS
<1> DEFINE later == {n \in DOMAIN built : n[1] = 0 /\ n[2] > model}
<1>1. /\ phase = "detect" /\ Old /\ entering = NoNode /\ frames = <<>> /\ model \in Nat
      /\ UNCHANGED <<config, resolved, built, frames, cyclePath>>
  BY DEF DetectFromRoot, GraphInd, Numbered
<1>2. Old' = Old /\ Models' = Models /\ Shape' /\ PairsFit'
  <2>1. Old' = Old /\ Models' = Models
    BY <1>1 DEF Old, Models
  <2>2. Shape'
    BY <1>1, <2>1 DEF GraphInd, Shape, RootOf
  <2> QED BY <1>1, <2>1, <2>2 DEF PairsFit
<1>3. /\ \A n \in DOMAIN built : n \in Nat \X Nat
      /\ \A n \in DOMAIN built : n[1] = 0 => n[2] \in Nat \ {0} /\ n = Root(n[2])
  <2>1. \A n \in DOMAIN built : n \in Nat \X Nat
    BY DEF GraphInd, Shape
  <2>2. \A n \in DOMAIN built : n[1] = 0 => n[2] \in Nat \ {0}
    BY ModelFacts DEF GraphInd, Shape
  <2>3. ASSUME NEW n \in Nat \X Nat, n[1] = 0 PROVE n = Root(n[2])
    BY <2>3 DEF Root
  <2> QED BY <2>1, <2>2, <2>3
<1>4. ASSUME NEW n \in DOMAIN built, n[1] = 0, n[2] <= model PROVE Safe(built, n, {})
  <2>1. CASE n[2] < model
    BY <1>1, <1>4, <2>1 DEF GraphInd, Searched
  <2>2. CASE n[2] = model
    <3>1. n \in Done /\ Closed(built, Done, {}) /\ NoTrap(built, Done)
      BY <1>1, <1>3, <1>4, <2>2 DEF GraphInd, Search, StartedFrom
    <3>2. Done \subseteq DOMAIN built /\ Done \ {} = Done
      BY DEF GraphInd, Path, Done
    <3> QED BY <3>1, <3>2 DEF Safe
  <2> QED BY <1>1, <1>3, <1>4, <2>1, <2>2
<1>5. CASE later = {}
  <2>1. phase' = "accepted" /\ UNCHANGED <<model, entering, visited>>
    BY <1>5 DEF DetectFromRoot
  <2>2. Numbered' /\ OneBranch' /\ Search'
    BY <1>1, <1>2, <2>1 DEF GraphInd, Numbered, OneBranch, Search, Loading, RootOf
  <2>3. Path'
    BY <1>1, <1>2, <2>1 DEF GraphInd, Path, NoNode
  <2>4. \A n \in DOMAIN built : n[1] = 0 => Safe(built, n, {})
    <3> SUFFICES ASSUME NEW n \in DOMAIN built, n[1] = 0 PROVE n[2] <= model
      BY <1>4
    <3>1. ~(n[2] > model)
      BY <1>5
    <3> QED BY <1>1, <1>3, <3>1
  <2>5. Searched'
    BY <1>1, <1>2, <2>1, <2>4 DEF Searched, Loading
  <2>6. Reported'
    BY <1>1, <2>1 DEF GraphInd, Reported, ReportedIsCycle
  <2> QED BY <1>1, <1>2, <2>1, <2>2, <2>3, <2>5, <2>6 DEF GraphInd
<1>6. CASE later # {}
  <2> DEFINE n == CHOOSE x \in later : \A y \in later : x[2] <= y[2]
             N == {x[2] : x \in later}
  <2>1. n \in later /\ \A y \in later : n[2] <= y[2]
    <3>1. N \subseteq Nat /\ N # {}
      BY <1>3, <1>6
    <3> HIDE DEF N
    <3>2. PICK a \in N : \A b \in N : a <= b
      BY <3>1, LeastExists
    <3>3. \E x \in later : \A y \in later : x[2] <= y[2]
      BY <3>2 DEF N
    <3> HIDE DEF later
    <3> QED BY <3>3
  <2>2. model' = n[2] /\ entering' = n /\ visited' = {} /\ phase' = "detect"
    BY <1>1, <1>6 DEF DetectFromRoot
  <2>3. n \in DOMAIN built /\ n[1] = 0 /\ n[2] > model /\ n[2] \in Nat /\ n = Root(n[2])
    BY <1>3, <2>1
  <2> HIDE DEF n
  <2>4. Numbered' /\ OneBranch'
    BY <1>1, <1>2, <2>2, <2>3 DEF GraphInd, Numbered, OneBranch, Loading, RootOf
  <2>5. Path' /\ Search'
    <3>1. entering' = StartedFrom' /\ entering' \in DOMAIN built' /\ frames' = <<>>
      BY <1>1, <1>2, <2>2, <2>3 DEF StartedFrom, Root
    <3> QED BY <1>2, <2>2, <3>1, SearchBegins
  <2>6. Searched'
    <3> SUFFICES ASSUME NEW x \in DOMAIN built, x[1] = 0, x[2] < n[2] PROVE Safe(built, x, {})
      BY <1>1, <1>2, <2>2 DEF Searched, Loading
    <3>1. x \notin later /\ x[2] \in Nat
      BY <1>3, <2>1, <2>3
    <3>2. x[2] <= model
      BY <1>1, <3>1
    <3> QED BY <1>4, <3>2
  <2>7. Reported'
    BY <1>1, <2>2 DEF GraphInd, Reported, ReportedIsCycle
  <2> QED BY <1>1, <1>2, <2>2, <2>4, <2>5, <2>6, <2>7 DEF GraphInd
<1> QED BY <1>5, <1>6

\* The recursion is called for a node.
LEMMA EnterKeeps == GraphInd /\ Enter => GraphInd'
<1> SUFFICES ASSUME GraphInd, Enter PROVE GraphInd'
  OBVIOUS
<1>1. /\ phase = "detect" /\ entering # NoNode /\ entering' = NoNode
      /\ UNCHANGED <<config, model, resolved, built>>
  BY DEF Enter
<1>2. Path /\ Search /\ Old' = Old /\ StartedFrom' = StartedFrom
  BY <1>1 DEF GraphInd, Old, StartedFrom, RootOf, Models
<1>3. frames \in Seq(Frame) /\ Len(frames) \in Nat /\ entering \in DOMAIN built /\ entering \in Nat \X Nat
  BY <1>1, <1>2, FrameFacts DEF Path, GraphInd, Shape
<1>4. CASE entering \in Parents
  <2>1. phase' = "rejected" /\ cyclePath' = PathTo /\ UNCHANGED <<frames, visited>>
    BY <1>4 DEF Enter
  <2>2. PICK j \in 1..Len(frames) : frames[j].node = entering
    BY <1>4 DEF Parents
  <2>3. Len(PathTo) = Len(frames) /\ \A i \in 1..Len(frames) : PathTo[i] = frames[i].node
    BY <1>3 DEF PathTo
  <2>4. frames # <<>> /\ Len(frames) \in 1..Len(frames)
    BY <1>3, <2>2
  <2>5. \A i \in 1..Len(PathTo) - 1 : Edge(built, PathTo[i], PathTo[i + 1])
    <3> SUFFICES ASSUME NEW i \in 1..Len(frames) - 1 PROVE Edge(built, PathTo[i], PathTo[i + 1])
      BY <2>3
    <3>1. i \in 1..Len(frames) /\ i + 1 \in 1..Len(frames)
      BY <1>3
    <3> QED BY <2>3, <3>1, PathEdges
  <2>6. Edge(built, PathTo[Len(PathTo)], PathTo[j])
    BY <1>1, <2>2, <2>3, <2>4, PathEdges
  <2>7. ReportedIsCycle'
    BY <1>1, <2>1, <2>2, <2>3, <2>5, <2>6 DEF ReportedIsCycle
  <2> QED BY <1>1, <2>1, <2>7, RejectKeeps
<1>5. CASE entering \notin Parents /\ entering \in visited
  <2>1. UNCHANGED <<phase, frames, visited, cyclePath>>
    BY <1>5 DEF Enter
  <2>2. frames # <<>>
    BY <1>1, <1>2, <1>5 DEF Search
  <2>3. Path'
    BY <1>1, <1>2, <2>1 DEF Path, NoNode
  <2>4. Done' = Done /\ entering \in Done
    BY <1>5, <2>1 DEF Done, Parents
  <2>5. BranchesDone'
    <3> SUFFICES ASSUME NEW i \in 1..Len(frames), NEW k \in 1..(frames[i].next - 1)
                 PROVE  \/ built[frames[i].node].branches[k] \in Done
                        \/ k = frames[i].next - 1 /\ i < Len(frames)
      BY <1>1, <2>1, <2>4 DEF BranchesDone
    <3>1. \/ built[frames[i].node].branches[k] \in Done
          \/ k = frames[i].next - 1 /\ i < Len(frames)
          \/ k = frames[i].next - 1 /\ i = Len(frames)
      <4>1. \/ built[frames[i].node].branches[k] \in Done
            \/ k = frames[i].next - 1
        BY <1>1, <1>2 DEF Search, BranchesDone
      <4>2. i < Len(frames) \/ i = Len(frames)
        BY <1>3
      <4> QED BY <4>1, <4>2
    <3>2. ASSUME k = frames[i].next - 1, i = Len(frames)
          PROVE  built[frames[i].node].branches[k] = entering
      BY <1>1, <1>2, <2>2, <3>2 DEF Path
    <3> QED BY <2>4, <3>1, <3>2
  <2>6. Search'
    BY <1>1, <1>2, <2>1, <2>2, <2>4, <2>5 DEF Search
  <2> QED BY <1>1, <2>1, <2>3, <2>6, SearchKeeps
<1>6. CASE entering \notin Parents /\ entering \notin visited
  <2> DEFINE f == [node |-> entering, next |-> 1]
             l == Len(frames) + 1
  <2>1. /\ frames' = Append(frames, f) /\ visited' = visited \cup {entering}
        /\ UNCHANGED <<phase, cyclePath>>
    BY <1>6 DEF Enter
  <2>2. f \in Frame /\ f.node = entering /\ f.next = 1
    BY <1>3 DEF Frame
  <2> HIDE DEF f
  <2>3. /\ frames' \in Seq(Frame) /\ Len(frames') = l /\ frames'[l] = f
        /\ \A i \in 1..Len(frames) : frames'[i] = frames[i]
    BY <1>3, <2>1, <2>2
  <2>4. \A i \in 1..l : i \in 1..Len(frames) \/ i = l
    BY <1>3
  <2>5. \A i \in 1..Len(frames) : frames[i].node # entering
    BY <1>6 DEF Parents
  <2>6. Done' = Done
    <3>1. Parents' = Parents \cup {entering}
      BY <2>2, <2>3, <2>4, <1>3 DEF Parents
    <3> QED BY <1>6, <2>1, <3>1 DEF Done
  <2>7. Path'
    <3>1. visited' \subseteq DOMAIN built'
      BY <1>1, <1>2, <1>3, <2>1 DEF Path
    <3>2. ASSUME NEW i \in 1..Len(frames')
          PROVE  /\ frames'[i].node \in visited'
                 /\ frames'[i].next >= 1 /\ frames'[i].next <= Len(built[frames'[i].node].branches) + 1
      <4>1. CASE i \in 1..Len(frames)
        BY <2>1, <2>3, <4>1, FrameFacts
      <4>2. CASE i = l
        <5>1. Len(built[entering].branches) \in Nat
          BY <1>3 DEF GraphInd, Shape, GNode
        <5>2. frames'[i].node = entering /\ frames'[i].next = 1
          BY <2>2, <2>3, <4>2
        <5> QED BY <2>1, <5>1, <5>2
      <4> QED BY <2>3, <2>4, <4>1, <4>2
    <3>3. ASSUME NEW i \in 1..(Len(frames') - 1)
          PROVE  /\ frames'[i].next >= 2
                 /\ built[frames'[i].node].branches[frames'[i].next - 1] = frames'[i + 1].node
      <4>1. i \in 1..Len(frames) /\ frames'[i] = frames[i]
        BY <1>3, <2>3
      <4>2. CASE i = Len(frames)
        <5>1. frames'[i + 1].node = entering /\ frames # <<>>
          BY <1>3, <2>2, <2>3, <4>2
        <5> QED BY <1>1, <1>2, <4>1, <4>2, <5>1 DEF Path
      <4>3. CASE i # Len(frames)
        <5>1. i \in 1..(Len(frames) - 1) /\ frames'[i + 1] = frames[i + 1]
          BY <1>3, <2>3, <4>1, <4>3
        <5> QED BY <1>2, <4>1, <5>1 DEF Path
      <4> QED BY <4>2, <4>3
    <3>4. ASSUME NEW i \in 1..Len(frames'), NEW j \in 1..Len(frames'), i < j
          PROVE  frames'[i].node # frames'[j].node
      <4>1. i \in 1..Len(frames) /\ frames'[i] = frames[i]
        BY <1>3, <2>3, <3>4
      <4>2. CASE j \in 1..Len(frames)
        BY <1>2, <2>3, <3>4, <4>1, <4>2 DEF Path
      <4>3. CASE j = l
        BY <2>2, <2>3, <2>5, <4>1, <4>3
      <4> QED BY <2>3, <2>4, <4>2, <4>3
    <3> QED BY <1>1, <2>1, <2>3, <3>1, <3>2, <3>3, <3>4 DEF Path, NoNode
  <2>8. BranchesDone'
    <3> SUFFICES ASSUME NEW i \in 1..l, NEW k \in 1..(frames'[i].next - 1)
                 PROVE  \/ built[frames'[i].node].branches[k] \in Done
                        \/ k = frames'[i].next - 1 /\ i < l
      BY <1>1, <2>3, <2>6 DEF BranchesDone
    <3>1. i # l
      BY <2>2, <2>3
    <3>2. i \in 1..Len(frames) /\ frames'[i] = frames[i] /\ i < l
      BY <1>3, <2>3, <2>4, <3>1
    <3> QED BY <1>1, <1>2, <3>2 DEF Search, BranchesDone
  <2>9. frames'[1].node = StartedFrom
    <3>1. CASE frames = <<>>
      <4>1. frames'[1] = f
        BY <2>3, <3>1
      <4>2. entering = StartedFrom
        BY <1>1, <1>2, <3>1 DEF Search
      <4> QED BY <2>2, <4>1, <4>2
    <3>2. CASE frames # <<>>
      <4>1. 1 \in 1..Len(frames)
        BY <1>3, <3>2
      <4> QED BY <1>1, <1>2, <2>3, <3>2, <4>1 DEF Search
    <3> QED BY <3>1, <3>2
  <2>10. frames' # <<>>
    BY <1>3, <2>3
  <2>11. Search'
    BY <1>1, <1>2, <2>1, <2>6, <2>8, <2>9, <2>10 DEF Search
  <2> QED BY <1>1, <2>1, <2>7, <2>11, SearchKeeps
<1> QED BY <1>4, <1>5, <1>6

\* The loop goes on to the next branch.
LEMMA NextBranchKeeps == GraphInd /\ NextBranch => GraphInd'
<1> SUFFICES ASSUME GraphInd, NextBranch PROVE GraphInd'
  OBVIOUS
<1> DEFINE l == Len(frames)
           top == frames[l]
           g == [top EXCEPT !.next = top.next + 1]
           b == built[top.node].branches[top.next]
<1>1. /\ phase = "detect" /\ phase' = "detect" /\ entering = NoNode /\ frames # <<>>
      /\ UNCHANGED <<config, phase, model, resolved, built, visited, cyclePath>>
      /\ top.next <= Len(built[top.node].branches) /\ entering' = b
      /\ frames' = [frames EXCEPT ![l] = g]
  BY DEF NextBranch
<1>2. Path /\ Search /\ Old' = Old /\ StartedFrom' = StartedFrom /\ frames \in Seq(Frame)
  BY <1>1 DEF GraphInd, Old, StartedFrom, RootOf, Models, Path
<1>3. l \in 1..l /\ l \in Nat /\ top \in Frame
  BY <1>1, <1>2
<1>4. /\ top.next \in Nat /\ top.next >= 1 /\ top.node \in DOMAIN built
      /\ Len(built[top.node].branches) \in Nat
  BY <1>3, FrameFacts
<1>5. g \in Frame /\ g.node = top.node /\ g.next = top.next + 1
  BY <1>3 DEF Frame
<1>6. b \in DOMAIN built /\ b # NoNode
  <2>1. top.next \in 1..Len(built[top.node].branches)
    BY <1>1, <1>4
  <2>2. b \in DOMAIN built /\ b \in Nat \X Nat
    BY <1>4, <2>1 DEF GraphInd, Shape
  <2> QED BY <2>2, NodeNotEmpty DEF NoNode
<1> HIDE DEF g, b, top
<1>7. /\ frames' \in Seq(Frame) /\ Len(frames') = l /\ frames'[l] = g /\ frames[l] = top
      /\ \A i \in 1..l : i # l => frames'[i] = frames[i]
  BY <1>1, <1>2, <1>3, <1>5 DEF top
<1>8. \A i \in 1..l : frames'[i].node = frames[i].node
  BY <1>3, <1>5, <1>7
<1>9. Parents' = Parents /\ Done' = Done
  BY <1>1, <1>7, <1>8 DEF Parents, Done
<1>10. Path'
  <2>1. ASSUME NEW i \in 1..l
        PROVE  /\ frames'[i].node \in visited
               /\ frames'[i].next >= 1 /\ frames'[i].next <= Len(built[frames'[i].node].branches) + 1
    <3>1. CASE i = l
      <4>1. frames'[i].node = top.node /\ frames'[i].next = top.next + 1 /\ top.node \in visited
        BY <1>3, <1>5, <1>7, <3>1, FrameFacts
      <4> QED BY <1>1, <1>4, <4>1
    <3>2. CASE i # l
      BY <1>7, <3>2, FrameFacts
    <3> QED BY <3>1, <3>2
  <2>2. ASSUME NEW i \in 1..(l - 1)
        PROVE  /\ frames'[i].next >= 2
               /\ built[frames'[i].node].branches[frames'[i].next - 1] = frames'[i + 1].node
    <3>1. i \in 1..l /\ i # l /\ i + 1 \in 1..l
      BY <1>3
    <3>2. frames'[i] = frames[i] /\ frames'[i + 1].node = frames[i + 1].node
      BY <1>7, <1>8, <3>1
    <3> QED BY <1>2, <3>2 DEF Path
  <2>3. ASSUME NEW i \in 1..l, NEW j \in 1..l, i < j PROVE frames'[i].node # frames'[j].node
    BY <1>2, <1>8, <2>3 DEF Path
  <2>4. g.next >= 2 /\ built[g.node].branches[g.next - 1] = entering'
    <3>1. g.next - 1 = top.next /\ g.next >= 2
      BY <1>4, <1>5
    <3> QED BY <1>1, <1>5, <3>1 DEF b
  <2>5. frames'[Len(frames')] = g
    BY <1>7
  <2>6. visited' \subseteq DOMAIN built'
    BY <1>1, <1>2 DEF Path
  <2> HIDE DEF l
  <2> QED BY <1>1, <1>6, <1>7, <2>1, <2>2, <2>3, <2>4, <2>5, <2>6 DEF Path
<1>11. BranchesDone'
  <2> SUFFICES ASSUME NEW i \in 1..l, NEW k \in 1..(frames'[i].next - 1)
               PROVE  \/ built[frames'[i].node].branches[k] \in Done
                      \/ k = frames'[i].next - 1 /\ (i < l \/ entering' # NoNode)
    BY <1>1, <1>7, <1>9 DEF BranchesDone, NoNode
  <2>1. BranchesDone
    BY <1>1, <1>2 DEF Search
  <2>2. CASE i # l
    <3>1. frames'[i] = frames[i] /\ i < l
      BY <1>3, <1>7, <2>2
    <3> QED BY <2>1, <3>1 DEF BranchesDone
  <2>3. CASE i = l
    <3>1. frames'[i].next - 1 = top.next /\ frames'[i].node = top.node /\ frames[i] = top
      BY <1>4, <1>5, <1>7, <2>3
    <3>2. k = top.next \/ k \in 1..(top.next - 1)
      BY <1>4, <3>1
    <3>3. ASSUME k \in 1..(top.next - 1) PROVE built[top.node].branches[k] \in Done
      <4>1. k \in 1..(frames[l].next - 1) /\ frames[l].node = top.node
        BY <3>1, <2>3, <3>3
      <4>2. ~(l < Len(frames))
        BY <1>3
      <4> QED BY <1>1, <1>3, <2>1, <4>1, <4>2 DEF BranchesDone
    <3> QED BY <1>1, <1>6, <3>1, <3>2, <3>3
  <2> QED BY <2>2, <2>3
<1>12. frames' # <<>> /\ frames'[1].node = StartedFrom
  <2>1. 1 \in 1..l /\ frames[1].node = StartedFrom
    BY <1>1, <1>2, <1>3 DEF Search
  <2>2. frames'[1].node = StartedFrom
    BY <1>8, <2>1
  <2>3. frames' # <<>>
    BY <1>3, <1>7
  <2> QED BY <2>2, <2>3
<1>13. Search'
  BY <1>1, <1>2, <1>9, <1>11, <1>12 DEF Search
<1> QED BY <1>1, <1>10, <1>13, SearchKeeps

\* A node whose branches are all done can be done with too: this is where the
\* search is right. A cycle through it would go on among nodes that are done.
LEMMA DoneGrows ==
    ASSUME NEW g, NEW D, NEW t, t \notin D, Closed(g, D, {}), NoTrap(g, D),
           \A i \in 1..Len(g[t].branches) : g[t].branches[i] \in D
    PROVE  Closed(g, D \cup {t}, {}) /\ NoTrap(g, D \cup {t})
<1>1. Closed(g, D \cup {t}, {})
  BY DEF Closed
<1>2. NoTrap(g, D \cup {t})
  <2> SUFFICES ASSUME NEW S \in SUBSET (D \cup {t}), Trap(g, S) PROVE FALSE
    BY DEF NoTrap
  <2> DEFINE T == S \cap D
  <2>1. ASSUME NEW n \in S PROVE \E m \in T : Edge(g, n, m)
    <3>1. PICK m \in S : Edge(g, n, m)
      BY DEF Trap
    <3>2. m \in D
      BY <3>1 DEF Edge, Closed
    <3> QED BY <3>1, <3>2
  <2>2. T # {}
    BY <2>1 DEF Trap
  <2>3. Trap(g, T)
    BY <2>1, <2>2 DEF Trap
  <2> QED BY <2>3 DEF NoTrap
<1> QED BY <1>1, <1>2

\* A call returns.
LEMMA ReturnKeeps == GraphInd /\ Return => GraphInd'
<1> SUFFICES ASSUME GraphInd, Return PROVE GraphInd'
  OBVIOUS
<1> DEFINE l == Len(frames)
           t == frames[l].node
<1>1. /\ phase = "detect" /\ entering = NoNode /\ frames # <<>>
      /\ frames[l].next > Len(built[t].branches)
      /\ frames' = SubSeq(frames, 1, l - 1)
      /\ UNCHANGED <<config, built, entering, visited, cyclePath>>
  BY DEF Return
<1>2. /\ Path /\ Search /\ BranchesDone /\ Old' = Old /\ Models' = Models /\ frames \in Seq(Frame)
      /\ Closed(built, Done, {}) /\ NoTrap(built, Done)
      /\ frames[1].node = StartedFrom
  BY <1>1 DEF GraphInd, Old, Models, Path, Search
<1>3. l \in 1..l /\ l \in Nat /\ 1 \in 1..l /\ l >= 1
  BY <1>1, <1>2
<1>4. /\ frames' \in Seq(Frame) /\ Len(frames') = l - 1
      /\ \A i \in 1..(l - 1) : frames'[i] = frames[i] /\ i \in 1..l /\ i # l
  <2>1. frames' = SubSeq(frames, 1, l - 1) /\ frames \in Seq(Frame)
    BY <1>1, <1>2
  <2>2. \A i \in 1..(l - 1) : frames[i] \in Frame
    BY <1>3, <2>1
  <2>3. frames' \in Seq(Frame) /\ Len(frames') = l - 1
    <3> DEFINE n == l - 1
    <3>1. n \in Int /\ 1 \in Int /\ n >= 0
      BY <1>3
    <3>2. \A i \in 1..n : frames[i] \in Frame
      BY <2>2
    <3> HIDE DEF n
    <3>3. SubSeq(frames, 1, n) \in Seq(Frame) /\ Len(SubSeq(frames, 1, n)) = IF 1 <= n THEN n - 1 + 1 ELSE 0
      BY <3>1, <3>2, SubSeqProperties
    <3>4. Len(SubSeq(frames, 1, n)) = n
      BY <3>1, <3>3
    <3> QED BY <2>1, <3>3, <3>4 DEF n
  <2>4. \A i \in 1..(l - 1) : frames'[i] = frames[i]
    BY <1>3, <2>1
  <2>5. \A i \in 1..(l - 1) : i \in 1..l /\ i # l
    BY <1>3
  <2> QED BY <2>3, <2>4, <2>5
<1>5. t \in visited /\ t \in DOMAIN built /\ frames[l].next = Len(built[t].branches) + 1
      /\ Len(built[t].branches) \in Nat
  <2>1. /\ frames[l].next \in Nat /\ Len(built[t].branches) \in Nat
        /\ frames[l].next <= Len(built[t].branches) + 1
        /\ t \in visited /\ t \in DOMAIN built
    BY <1>3, FrameFacts
  <2> HIDE DEF t, l
  <2> QED BY <1>1, <2>1
<1>6. \A i \in 1..Len(built[t].branches) : built[t].branches[i] \in Done
  <2> SUFFICES ASSUME NEW i \in 1..Len(built[t].branches) PROVE built[t].branches[i] \in Done
    OBVIOUS
  <2>1. i \in 1..(frames[l].next - 1)
    BY <1>5
  <2>2. ~(l < Len(frames)) /\ entering = NoNode
    BY <1>1, <1>3
  <2> QED BY <1>2, <1>3, <2>1, <2>2 DEF BranchesDone
<1>7. ASSUME NEW i \in 1..(l - 1) PROVE frames[i].node # t
  <2>1. i \in 1..Len(frames) /\ l \in 1..Len(frames) /\ i < l
    BY <1>3
  <2> QED BY <1>2, <2>1 DEF Path
<1> HIDE DEF t
<1>8. t \in Parents /\ t \notin Done /\ Parents' = Parents \ {t} /\ Done' = Done \cup {t}
  <2>1. t \in Parents
    BY <1>3 DEF Parents, t
  <2>2. \A i \in 1..l : i = l \/ i \in 1..(l - 1)
    BY <1>3
  <2>3. Parents' = {frames[i].node : i \in 1..(l - 1)}
    BY <1>4 DEF Parents
  <2>4. Parents = {frames[i].node : i \in 1..(l - 1)} \cup {t}
    BY <1>3, <1>4, <2>2 DEF Parents, t
  <2>5. Parents' = Parents \ {t}
    BY <1>7, <2>3, <2>4
  <2> QED BY <1>1, <1>5, <2>1, <2>5 DEF Done
<1>9. Closed(built, Done', {}) /\ NoTrap(built, Done')
  BY <1>2, <1>6, <1>8, DoneGrows
<1>10. /\ visited' \subseteq DOMAIN built' /\ entering' = NoNode'
       /\ \A i \in 1..Len(frames') :
            /\ frames'[i].node \in visited'
            /\ frames'[i].next >= 1 /\ frames'[i].next <= Len(built'[frames'[i].node].branches) + 1
       /\ \A i \in 1..(Len(frames') - 1) :
            /\ frames'[i].next >= 2
            /\ built'[frames'[i].node].branches[frames'[i].next - 1] = frames'[i + 1].node
       /\ \A i, j \in 1..Len(frames') : i < j => frames'[i].node # frames'[j].node
  <2>1. visited' \subseteq DOMAIN built' /\ entering' = NoNode'
    BY <1>1, <1>2 DEF Path, NoNode
  <2>2. ASSUME NEW i \in 1..(l - 1)
        PROVE  /\ frames'[i].node \in visited'
               /\ frames'[i].next >= 1 /\ frames'[i].next <= Len(built'[frames'[i].node].branches) + 1
    BY <1>1, <1>4, FrameFacts
  <2>3. ASSUME NEW i \in 1..(l - 1 - 1)
        PROVE  /\ frames'[i].next >= 2
               /\ built'[frames'[i].node].branches[frames'[i].next - 1] = frames'[i + 1].node
    <3>1. i \in 1..(l - 1) /\ i + 1 \in 1..(l - 1)
      BY <1>3
    <3>2. frames'[i] = frames[i] /\ frames'[i + 1] = frames[i + 1] /\ i \in 1..(Len(frames) - 1)
      BY <1>4, <3>1
    <3> QED BY <1>1, <1>2, <3>2 DEF Path
  <2>4. ASSUME NEW i \in 1..(l - 1), NEW j \in 1..(l - 1), i < j PROVE frames'[i].node # frames'[j].node
    <3>1. frames'[i] = frames[i] /\ frames'[j] = frames[j] /\ i \in 1..Len(frames) /\ j \in 1..Len(frames)
      BY <1>4
    <3> QED BY <1>2, <2>4, <3>1 DEF Path
  <2> HIDE DEF l
  <2> QED BY <1>4, <2>1, <2>2, <2>3, <2>4
<1>11. CASE ~Old /\ l = 1
  <2>1. phase' = "branches" /\ model' = model + 1 /\ resolved' = <<>>
    BY <1>11 DEF Return
  <2>2. frames' = <<>> /\ t = RootOf(model)
    <3>1. Len(frames') = 0
      BY <1>4, <1>11
    <3> QED BY <1>2, <1>4, <1>11, <3>1 DEF StartedFrom, t
  <2>3. /\ model \in Nat \ {0} /\ model <= Len(Models) /\ Len(Models) \in Nat
        /\ \A n \in DOMAIN built : n \in Nat \X Nat /\ (n[1] < model \/ n[1] = model)
    BY <1>1, <1>11, ModelFacts DEF GraphInd, Numbered, Loading, Shape
  <2>4. Shape'
    BY <1>1, <1>2, <2>1 DEF GraphInd, Shape, RootOf
  <2>5. PairsFit'
    BY <1>1, <1>2 DEF GraphInd, PairsFit
  <2>6. Numbered'
    <3>1. model + 1 \in Nat \ {0} /\ <<>> \in Seq(Nat \X Nat) /\ 1..Len(<<>>) = {}
      BY <2>3
    <3>2. \A n \in DOMAIN built : n[1] < model + 1
      BY <2>3
    <3> QED BY <1>1, <2>1, <3>1, <3>2 DEF Numbered, Loading
  <2>7. \A i \in 1..Len(Models) : i < model + 1 => i <= model
    BY <2>3
  <2>8. OneBranch'
    BY <1>1, <1>2, <1>11, <2>1, <2>7 DEF GraphInd, OneBranch, RootOf
  <2>9. Path'
    BY <1>2, <1>4, <1>10, <1>11, <2>1, <2>2 DEF Path
  <2>10. Search' /\ Reported'
    BY <1>1, <2>1 DEF GraphInd, Search, Reported, ReportedIsCycle
  <2>11. Searched'
    <3> SUFFICES ASSUME NEW i \in 1..Len(Models), i < model + 1 PROVE Safe(built, RootOf(i), Open(i))
      BY <1>1, <1>2, <1>11, <2>1 DEF Searched, Loading, RootOf, Open
    <3>1. CASE i < model
      BY <1>1, <1>11, <3>1 DEF GraphInd, Searched, Loading
    <3>2. CASE i = model
      <4>1. RootOf(i) \in Done' /\ Done' \in SUBSET DOMAIN built
        BY <1>1, <1>8, <1>10, <2>2, <3>2 DEF Done
      <4>2. Closed(built, Done', Open(i)) /\ NoTrap(built, Done' \ Open(i))
        BY <1>9 DEF Closed, NoTrap
      <4> QED BY <4>1, <4>2 DEF Safe
    <3> QED BY <2>3, <3>1, <3>2
  <2> QED BY <1>1, <2>1, <2>4, <2>5, <2>6, <2>8, <2>9, <2>10, <2>11 DEF GraphInd
<1>12. CASE ~(~Old /\ l = 1)
  <2>1. UNCHANGED <<phase, model, resolved>>
    BY <1>12 DEF Return
  <2>2. StartedFrom' = StartedFrom
    BY <1>1, <1>2, <2>1 DEF StartedFrom, RootOf
  <2>3. Path'
    BY <1>1, <1>4, <1>10, <2>1 DEF Path
  <2>4. BranchesDone'
    <3> SUFFICES ASSUME NEW i \in 1..(l - 1), NEW k \in 1..(frames[i].next - 1)
                 PROVE  \/ built[frames[i].node].branches[k] \in Done'
                        \/ k = frames[i].next - 1 /\ i < l - 1
      BY <1>1, <1>4 DEF BranchesDone
    <3>1. built[frames[i].node].branches[k] \in Done \/ k = frames[i].next - 1
      BY <1>2, <1>4 DEF BranchesDone
    <3>2. i < l - 1 \/ i = l - 1
      BY <1>3
    <3>3. ASSUME i = l - 1, k = frames[i].next - 1 PROVE built[frames[i].node].branches[k] = t
      <4>1. i \in 1..(Len(frames) - 1) /\ i + 1 = l
        BY <1>3, <3>3
      <4> QED BY <1>2, <3>3, <4>1 DEF Path, t
    <3> QED BY <1>8, <3>1, <3>2, <3>3
  <2>5. frames' # <<>> => frames'[1].node = StartedFrom
    <3> SUFFICES ASSUME frames' # <<>> PROVE frames'[1].node = StartedFrom
      OBVIOUS
    <3>1. 1 \in 1..(l - 1)
      BY <1>4
    <3> QED BY <1>2, <1>4, <3>1
  <2>6. frames' = <<>> => Old /\ StartedFrom \in Done'
    <3> SUFFICES ASSUME frames' = <<>> PROVE Old /\ StartedFrom \in Done'
      OBVIOUS
    <3>1. l = 1
      BY <1>3, <1>4
    <3> QED BY <1>2, <1>8, <1>12, <3>1 DEF t
  <2>7. Search'
    BY <1>1, <1>2, <1>9, <2>1, <2>2, <2>4, <2>5, <2>6 DEF Search, NoNode
  <2> QED BY <1>1, <2>1, <2>3, <2>7, SearchKeeps
<1> QED BY <1>11, <1>12

-----------------------------------------------------------------------------
(* The verdict *)

LEMMA GraphIndInitially == ASSUME NEW c, ConfigOK(c), GCInit(c) PROVE GraphInd
<1>1. /\ config = c /\ phase = "roots" /\ model = 1 /\ resolved = <<>> /\ built = <<>>
      /\ entering = NoNode /\ frames = <<>> /\ visited = {} /\ cyclePath = <<>>
  BY DEF GCInit
<1>2. DOMAIN built = {}
  BY <1>1
<1>3. built \in [DOMAIN built -> GNode]
  BY <1>1, <1>2
<1>4. frames \in Seq(Frame) /\ 1..Len(frames) = {} /\ 1..(Len(frames) - 1) = {}
  BY <1>1
<1>5. Shape /\ Numbered /\ PairsFit /\ OneBranch
  BY <1>1, <1>2, <1>3 DEF Shape, Numbered, PairsFit, OneBranch, Loading
<1>6. Path
  BY <1>1, <1>4 DEF Path
<1>7. Search /\ Searched /\ Reported
  BY <1>1 DEF Search, Searched, Reported, ReportedIsCycle, Loading
<1> QED BY <1>1, <1>5, <1>6, <1>7 DEF GraphInd

\* Nothing changes.
LEMMA GraphStutter == GraphInd /\ UNCHANGED gcVars => GraphInd'
<1> SUFFICES ASSUME GraphInd, UNCHANGED gcVars PROVE GraphInd'
  OBVIOUS
<1>1. /\ config' = config /\ phase' = phase /\ model' = model /\ resolved' = resolved /\ built' = built
      /\ entering' = entering /\ frames' = frames /\ visited' = visited /\ cyclePath' = cyclePath
  BY DEF gcVars
<1>2. Old' = Old /\ Models' = Models /\ Done' = Done
  BY <1>1 DEF Old, Models, Done, Parents
<1>3. Shape' /\ PairsFit' /\ OneBranch'
  BY <1>1, <1>2 DEF GraphInd, Shape, PairsFit, OneBranch, RootOf
<1>4. Numbered' /\ Path'
  BY <1>1, <1>2 DEF GraphInd, Numbered, Loading, Path, NoNode
<1>5. Search'
  BY <1>1, <1>2 DEF GraphInd, Search, BranchesDone, StartedFrom, RootOf, NoNode
<1>6. Searched' /\ Reported'
  BY <1>1, <1>2 DEF GraphInd, Searched, Reported, ReportedIsCycle, Loading, RootOf, Open
<1> QED BY <1>1, <1>3, <1>4, <1>5, <1>6 DEF GraphInd

LEMMA GraphIndInductive == GraphInd /\ [GCNext]_gcVars => GraphInd'
BY BuildRootsKeeps, BuildNodeOldKeeps, BuildNodeNewKeeps, SetReferenceKeeps, AddRootBranchKeeps,
   BranchesBuiltKeeps, DetectFromRootKeeps, EnterKeeps, NextBranchKeeps, ReturnKeeps, GraphStutter
   DEF GCNext, Loaded

\* Whatever the configuration, however many models it has and however they refer
\* to each other: a graph that either builder accepts has no cycle and serves
\* the pairs of its models, and what DetectCycle reports is a cycle.
THEOREM VerdictsOnGraphsRight ==
    ASSUME NEW c, ConfigOK(c)
    PROVE  GCSpec(c) => []GraphVerdictRight
<1>1. GCInit(c) => GraphInd
  BY GraphIndInitially
<1>2. GraphInd => GraphVerdictRight
  BY VerdictFromInd
<1> QED BY <1>1, <1>2, GraphIndInductive, PTL DEF GCSpec
===============================================================================
