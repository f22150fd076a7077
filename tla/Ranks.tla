-------------------------------- MODULE Ranks ---------------------------------
(***************************************************************************)
(* What sorting a slice of numbers and looking at its middle computes,     *)
(* without the order in which the numbers arrived: f[i] for i in I are the *)
(* numbers, with repetitions.                                              *)
(***************************************************************************)
EXTENDS Integers, FiniteSets

Below(f, I, x) == {i \in I : f[i] < x}
UpTo(f, I, x) == {i \in I : f[i] <= x}

\* The k-th element of the sorted numbers, k from 1.
Kth(f, I, k) ==
    CHOOSE x \in {f[i] : i \in I} :
       /\ Cardinality(Below(f, I, x)) < k
       /\ Cardinality(UpTo(f, I, x)) >= k

\* The middle of the sorted numbers, the mean of the two in the middle.
MedianOf(f, I) ==
    LET m == Cardinality(I) \div 2
    IN  IF Cardinality(I) % 2 = 0
        THEN (Kth(f, I, m) + Kth(f, I, m + 1)) \div 2
        ELSE Kth(f, I, m + 1)
===============================================================================
