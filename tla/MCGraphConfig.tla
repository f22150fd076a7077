----------------------------- MODULE MCGraphConfig -----------------------------
(***************************************************************************)
(* Configurations for TLC: three models that refer to each other in every  *)
(* way, for both builders, and two models with all kinds of nodes and with *)
(* pairs that do not fit.                                                  *)
(***************************************************************************)
EXTENDS GraphConfig

AB == <<"A", "B">>
BA == <<"B", "A">>
Builders == {"old", "new"}

CNode(k, pair, ref, sources) ==
    [kind |-> k, pair |-> pair, ref |-> ref, fresh |-> 0, expiry |-> 0, sources |-> sources]
Source(p) == CNode("origin", p, 0, <<>>)
Ref(n) == CNode("reference", AB, n, <<>>)

\* A model of a node with these sources, or of one node.
Tree(k, p, ref, s) == Append(s, CNode(k, p, ref, [i \in 1..Len(s) |-> i]))
Model(n, p, nodes) == [name |-> n, pair |-> p, nodes |-> nodes, top |-> <<Len(nodes)>>]

UpTo2(S) == {<<>>} \cup {<<x>> : x \in S} \cup {<<x, y>> : x \in S, y \in S}

\* Three models of one pair.
Links == {Source(AB)} \cup {Ref(n) : n \in 1..3}
Bodies == {<<x>> : x \in Links} \cup {Tree("median", AB, 0, s) : s \in UpTo2(Links)}
Narrow == {b \in Bodies : Len(b) <= 2}

\* Two models, of which the first has any kind of node, thresholds that are
\* refused, or nested nodes; the second may have the name of the first.
Leaves == {Source(AB), Source(BA), Ref(1), Ref(2), Ref(4),
           [Source(AB) EXCEPT !.fresh = 3, !.expiry = 2], [Source(AB) EXCEPT !.expiry = -1]}
Firsts ==
    {Tree(k, p, 2, s) : k \in {"origin", "reference", "invert", "indirect", "median", "breaker"},
                        p \in {AB, BA}, s \in UpTo2(Leaves) \cup {<<Source(AB), Ref(2), Ref(2)>>}}
    \cup {<<Ref(2), CNode("median", AB, 0, <<1>>), Source(BA), CNode(k, AB, 0, <<2, 3>>)>> :
             k \in {"indirect", "breaker"}}
Seconds == {<<Source(AB)>>, <<Ref(1)>>} \cup
           {Tree(k, AB, 0, <<Source(AB), Ref(1)>>) : k \in {"breaker", "median"}}

MCInit ==
    \/ \E b \in Builders, x \in Bodies, y \in Bodies, z \in Narrow :
          /\ x \in Narrow \/ y \in Narrow
          /\ GCInit([builder |-> b, models |-> <<Model(1, AB, x), Model(2, AB, y), Model(3, AB, z)>>])
    \/ \E b \in Builders, p \in {AB, BA}, n \in {1, 2}, x \in Firsts, y \in Seconds :
          /\ b = "old" => \/ x[Len(x)].kind \in {"indirect", "median"}
                          \/ x[Len(x)].kind \in {"origin", "reference"} /\ Len(x) = 1
          /\ GCInit([builder |-> b, models |-> <<Model(1, p, x), Model(n, AB, y)>>])
    \/ GCInit([builder |-> "old", models |-> <<Model(1, AB, <<CNode("unknown", AB, 0, <<>>)>>)>>])
    \/ GCInit([builder |-> "new", models |->
                 <<[Model(1, AB, <<Source(AB), Source(AB)>>) EXCEPT !.top = <<1, 2>>]>>])
=============================================================================
