--------------------------- MODULE PurchaseEscrow ---------------------------
(***************************************************************************)
(* What buying a number promises, for each quote: nothing is ordered       *)
(* before its price is held, the price is paid only for a number that was  *)
(* acquired, and given back only when there is none and none is on order.  *)
(***************************************************************************)
CONSTANT Quotes

VARIABLES
    money,  \* of each quote: "none", "held", "paid" or "back"
    goods   \* of each quote: "none", "ordered" or "acquired"

Init == /\ money = [q \in Quotes |-> "none"]
        /\ goods = [q \in Quotes |-> "none"]

Hold(q) == /\ money[q] = "none"
           /\ money' = [money EXCEPT ![q] = "held"]
           /\ UNCHANGED goods

Order(q) == /\ money[q] = "held" /\ goods[q] = "none"
            /\ goods' \in {[goods EXCEPT ![q] = g] : g \in {"ordered", "acquired"}}
            /\ UNCHANGED money

Decide(q) == /\ goods[q] = "ordered"
             /\ goods' \in {[goods EXCEPT ![q] = g] : g \in {"none", "acquired"}}
             /\ UNCHANGED money

Pay(q) == /\ money[q] = "held" /\ goods[q] = "acquired"
          /\ money' = [money EXCEPT ![q] = "paid"]
          /\ UNCHANGED goods

GiveBack(q) == /\ money[q] = "held" /\ goods[q] = "none"
               /\ money' = [money EXCEPT ![q] = "back"]
               /\ UNCHANGED goods

Next == \E q \in Quotes : Hold(q) \/ Order(q) \/ Decide(q) \/ Pay(q) \/ GiveBack(q)

Spec == Init /\ [][Next]_<<money, goods>>
=============================================================================
