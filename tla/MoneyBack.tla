------------------------------ MODULE MoneyBack ------------------------------
(***************************************************************************)
(* What the shop promises about returned goods: the money of an order goes *)
(* back at most once, only after the goods came back, and the books say so *)
(* when it has.  Returns.tla implements this with three tables, requests   *)
(* that read before they lock, and a provider outside every transaction.   *)
(***************************************************************************)
EXTENDS Naturals

CONSTANT Orders

VARIABLES
    goods,    \* where the goods are, and what was agreed about them
    money,    \* "kept", "moving", "unclear" (a human has to look) or "returned"
    payouts   \* how often money has left the shop for the order

backVars == <<goods, money, payouts>>

BackInit ==
    /\ goods = [o \in Orders |-> "sold"]
    /\ money = [o \in Orders |-> "kept"]
    /\ payouts = [o \in Orders |-> 0]

Move(o, from, to) ==
    /\ goods[o] = from
    /\ goods' = [goods EXCEPT ![o] = to]
    /\ UNCHANGED <<money, payouts>>

StartRefund(o) ==
    /\ goods[o] = "back" /\ money[o] = "kept"
    /\ money' = [money EXCEPT ![o] = "moving"]
    /\ UNCHANGED <<goods, payouts>>

PayOut(o) ==
    /\ money[o] = "moving" /\ payouts[o] = 0
    /\ payouts' = [payouts EXCEPT ![o] = 1]
    /\ UNCHANGED <<goods, money>>

Doubt(o) ==
    /\ money[o] = "moving"
    /\ money' = [money EXCEPT ![o] = "unclear"]
    /\ UNCHANGED <<goods, payouts>>

Record(o) ==
    /\ money[o] = "moving" /\ payouts[o] = 1
    /\ money' = [money EXCEPT ![o] = "returned"]
    /\ UNCHANGED <<goods, payouts>>

\* Handed over by the admin who confirms it.
HandOver(o) ==
    /\ money[o] = "moving" /\ payouts[o] = 0
    /\ money' = [money EXCEPT ![o] = "returned"]
    /\ payouts' = [payouts EXCEPT ![o] = 1]
    /\ UNCHANGED goods

BackNext == \E o \in Orders :
    \/ Move(o, "sold", "asked")
    \/ Move(o, "asked", "agreed")
    \/ Move(o, "asked", "refused")
    \/ Move(o, "agreed", "back")
    \/ StartRefund(o) \/ PayOut(o) \/ Doubt(o) \/ Record(o) \/ HandOver(o)

BackSpec == BackInit /\ [][BackNext]_backVars
=============================================================================
