---------------------------------- MODULE Sums ----------------------------------
(***************************************************************************)
(* The sum of finitely many integers, counted in units: a sum needs no     *)
(* order in which it is made, and a count no recursion.                    *)
(***************************************************************************)
EXTENDS Integers, FiniteSets

Units(f, S) == UNION {{x} \X (1..f[x]) : x \in S}

\* The sum of f[x] for x in S; what is negative is counted apart.
SumOver(f, S) ==
    Cardinality(Units(f, S)) - Cardinality(Units([x \in S |-> -f[x]], S))
===============================================================================
