---------------------------- MODULE MCOrderSource ----------------------------
(* Constants for the configurations that check OrderSource. *)
EXTENDS OrderSource, TLC

CONSTANTS o1, o2, i1, i2

\* An item in each order.
MCOrderOf == (i1 :> o1) @@ (i2 :> o2)

\* No order is special: exchange them, each with its item.
Exchanges == {p \in Permutations(Orders \cup Items) :
                 \A i \in Items : p[i] \in Items /\ OrderOf[p[i]] = p[OrderOf[i]]}
==============================================================================
