------------------------------ MODULE Purchase ------------------------------
(***************************************************************************)
(* What purchasing promises its operator, with no worker, claim, request   *)
(* or balance in sight: an order is offered at a price, granted while what *)
(* is granted or bought stays within the ceiling, withdrawn only before it *)
(* was committed, sold at most once and only when it was committed, and    *)
(* then concluded as the supplier said: the money of a committed order is  *)
(* given back on the supplier's word and on nobody else's.                 *)
(*                                                                         *)
(* Orders implements this module (Orders!PurchaseSpec).                    *)
(***************************************************************************)
EXTENDS Integers, FiniteSetsExt

CONSTANTS
    Order,
    Cost,
    Limit

VARIABLES
    stage,   \* how far each order has come: FREE, OFFERED, GRANTED, COMMITTED,
             \* BOUGHT or CLOSED
    price,   \* what it costs, once it is offered
    answer,  \* what the supplier concluded about it
    sold     \* how often the supplier sold it

vars == <<stage, price, answer, sold>>

Init ==
    /\ stage = [o \in Order |-> "FREE"]
    /\ price = [o \in Order |-> 0]
    /\ answer = [o \in Order |-> "NONE"]
    /\ sold = [o \in Order |-> 0]

-----------------------------------------------------------------------------
In(S) == {o \in Order : stage[o] \in S}

\* What the operator has authorised and not got back.
Engaged == SumFunctionOnSet(price, In({"GRANTED", "COMMITTED", "BOUGHT"}))

\* Orders are closed before they may have reached the supplier, or not at all.
Closing(R) == [o \in Order |-> IF o \in R THEN "CLOSED" ELSE stage[o]]

Offer(o, c, R) ==
    /\ stage[o] = "FREE"
    /\ R \subseteq In({"OFFERED", "GRANTED"})
    /\ stage' = [Closing(R) EXCEPT ![o] = "OFFERED"]
    /\ price' = [price EXCEPT ![o] = c]
    /\ UNCHANGED <<answer, sold>>

Withdraw(R) ==
    /\ R \subseteq In({"OFFERED", "GRANTED"})
    /\ stage' = Closing(R)
    /\ UNCHANGED <<price, answer, sold>>

Grant(o) ==
    /\ stage[o] = "OFFERED"
    /\ Engaged + price[o] <= Limit
    /\ stage' = [stage EXCEPT ![o] = "GRANTED"]
    /\ UNCHANGED <<price, answer, sold>>

Commit(o) ==
    /\ stage[o] = "GRANTED"
    /\ stage' = [stage EXCEPT ![o] = "COMMITTED"]
    /\ UNCHANGED <<price, answer, sold>>

\* The supplier's side: one answer, and one sale with the answer that it is.
Answer(o, a) ==
    /\ stage[o] = "COMMITTED"
    /\ answer[o] = "NONE"
    /\ answer' = [answer EXCEPT ![o] = a]
    /\ sold' = [sold EXCEPT ![o] = IF a = "ACCEPTED" THEN 1 ELSE 0]
    /\ UNCHANGED <<stage, price>>

Conclude(o) ==
    /\ stage[o] = "COMMITTED"
    /\ answer[o] # "NONE"
    /\ stage' = [stage EXCEPT ![o] = IF answer[o] = "ACCEPTED" THEN "BOUGHT" ELSE "CLOSED"]
    /\ UNCHANGED <<price, answer, sold>>

Next ==
    \/ \E o \in Order :
          \/ Grant(o) \/ Commit(o) \/ Conclude(o)
          \/ \E a \in {"ACCEPTED", "REJECTED"} : Answer(o, a)
          \/ \E c \in Cost, R \in SUBSET Order : Offer(o, c, R)
    \/ \E R \in SUBSET Order : Withdraw(R)

Spec == Init /\ [][Next]_vars
=============================================================================
