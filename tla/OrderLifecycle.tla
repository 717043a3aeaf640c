--------------------------- MODULE OrderLifecycle ---------------------------
(***************************************************************************)
(* What the shop promises about an order that has been placed: it is paid  *)
(* at most once, with money that pays nothing else and while it waits for  *)
(* it; an online order goes out only when it is paid; an order is given up *)
(* only when nobody can pay it, and its stock comes back at once; and the  *)
(* customer is told of exactly this, when it happens.  OrderPayment.tla    *)
(* implements this with rows, a gateway outside every transaction, late    *)
(* and repeated answers, and a maintenance loop.                           *)
(***************************************************************************)
EXTENDS Naturals

CONSTANTS Orders, Refs

VARIABLES
    stage,     \* where the order is on its way
    online,    \* orders that were offered for payment by the gateway
    page,      \* orders that have a payment page, or had the one that paid them
    payments,  \* <<order, reference>>: what the money of a reference paid
    back,      \* how often the order's stock came back
    told       \* <<order, event>>: what its customer was told

lifeVars == <<stage, online, page, payments, back, told>>

IsPaid(o) == \E p \in payments : p[1] = o
IsSpent(r) == \E p \in payments : p[2] = r

LifeInit ==
    /\ stage = [o \in Orders |-> "pending"]
    /\ online = {} /\ page = {} /\ payments = {}
    /\ back = [o \in Orders |-> 0]
    /\ told = Orders \X {"created"}

Offer(o) ==
    /\ stage[o] = "pending" /\ ~IsPaid(o) /\ o \notin page
    /\ online' = online \cup {o} /\ page' = page \cup {o}
    /\ UNCHANGED <<stage, payments, back, told>>

\* The page is worth nothing any more; money that comes late pays no order.
Withdraw(o) ==
    /\ ~IsPaid(o) /\ o \in page
    /\ page' = page \ {o}
    /\ UNCHANGED <<stage, online, payments, back, told>>

Pay(o, r) ==
    /\ stage[o] = "pending" /\ ~IsPaid(o) /\ o \in page /\ ~IsSpent(r)
    /\ payments' = payments \cup {<<o, r>>}
    /\ told' = told \cup {<<o, "payment_succeeded">>}
    /\ UNCHANGED <<stage, online, page, back>>

Advance(o, s) ==
    /\ <<stage[o], s>> \in {<<"pending", "processing">>, <<"processing", "shipped">>,
                            <<"shipped", "delivered">>}
    /\ o \in online => IsPaid(o)
    /\ stage' = [stage EXCEPT ![o] = s]
    /\ told' = told \cup {<<o, s>>}
    /\ UNCHANGED <<online, page, payments, back>>

\* One customer's or admin's cancellation, or all that one expiry gives up.
GiveUp(S) ==
    /\ \A o \in S : stage[o] \in {"pending", "processing"} /\ ~IsPaid(o) /\ o \notin page
    /\ stage' = [o \in Orders |-> IF o \in S THEN "cancelled" ELSE stage[o]]
    /\ back' = [o \in Orders |-> IF o \in S THEN back[o] + 1 ELSE back[o]]
    /\ told' = told \cup (S \X {"cancelled"})
    /\ UNCHANGED <<online, page, payments>>

LifeNext ==
    \/ \E o \in Orders : \/ Offer(o)
                         \/ Withdraw(o)
                         \/ \E r \in Refs : Pay(o, r)
                         \/ \E s \in {"processing", "shipped", "delivered"} : Advance(o, s)
    \/ \E S \in SUBSET Orders : GiveUp(S)

LifeSpec == LifeInit /\ [][LifeNext]_lifeVars
=============================================================================
