---------------------------- MODULE MedianContract ----------------------------
(***************************************************************************)
(* The Medianizer contract as pkg/price/median uses it (external: the      *)
(* contract is not part of the repository).  A contract state has the      *)
(* fields                                                                  *)
(*    bar   number of prices a poke must carry (Median.Bar)                *)
(*    age   block timestamp of the last update (Median.Age)                *)
(*    val   current price (Median.Val)                                     *)
(*    orcl  addresses allowed to sign prices (Median.Feeds)                *)
(* A poke carries a sequence of signed prices.  The contract refuses the   *)
(* wrong number of prices, prices out of order, prices signed by an address*)
(* that is not lifted or by the same address twice, and prices that are not*)
(* newer than the last update.                                             *)
(***************************************************************************)
EXTENDS Integers, Sequences

PokeAccepted(c, prices) ==
    /\ Len(prices) = c.bar
    /\ \A i \in 1..Len(prices) : prices[i].from \in c.orcl
    /\ \A i \in 1..Len(prices) : prices[i].age > c.age
    /\ \A i, j \in 1..Len(prices) :
          i < j => prices[i].val <= prices[j].val /\ prices[i].from # prices[j].from

\* The contract takes the middle of the prices and the time of the block.
Poked(c, prices, timestamp) ==
    [c EXCEPT !.val = prices[(Len(prices) \div 2) + 1].val, !.age = timestamp]

===============================================================================
