---------------------------- MODULE MCPriceModels ----------------------------
(***************************************************************************)
(* Price models for TLC.                                                   *)
(***************************************************************************)
EXTENDS PriceModels

MCWorth == [x \in {"A", "B", "C"} |-> CASE x = "A" -> 4 [] x = "B" -> 2 [] OTHER -> 1]

\* A/B as the median of an origin, of a cross rate by way of C, and of another
\* origin; the last guards it. Beside it, the inverse of the first.
MCNode == 1..9
MCKind == <<"origin", "origin", "origin", "origin", "indirect", "median", "breaker",
            "invert", "reference">>
MCPair == <<<<"A", "B">>, <<"C", "A">>, <<"B", "C">>, <<"A", "B">>, <<"A", "B">>, <<"A", "B">>,
            <<"A", "B">>, <<"B", "A">>, <<"B", "A">>>>
MCBranches == <<<<>>, <<>>, <<>>, <<>>, <<2, 3>>, <<1, 5, 4>>, <<6, 4>>, <<1>>, <<8>>>>
MCOrigin == <<"x", "y", "y", "z">>
MCModels == <<7, 9>>

\* One origin is at times late, one wrong and late, and one just wrong.
MCAnswers ==
    [o \in {"x", "y", "z"} |->
        {[factor |-> 1, age |-> 0],
         CASE o = "x" -> [factor |-> 1, age |-> 2]
           [] o = "y" -> [factor |-> 2, age |-> 1]
           [] OTHER -> [factor |-> 2, age |-> 0]}]
==============================================================================
