-------------------------------- MODULE Shop --------------------------------
(***************************************************************************)
(* What the shop promises about carts, stock, coupons and orders: every    *)
(* request happens at one instant, on the state of that instant.           *)
(*                                                                         *)
(* The tables are those of migrations 003, 004, 011, 015 and 017.  The     *)
(* effects are the statements the transactions of order/, cart/, coupon/,  *)
(* admin/ and product/ commit; Checkout.tla executes the transactions lock *)
(* by lock and implements ShopSpec.  MergeInto_NoBatch is a faulty variant *)
(* of the operator after it, which no specification uses.                  *)
(***************************************************************************)
EXTENDS Integers, FiniteSets, Functions

CONSTANTS
    Users, Products, Orders,  \* ids; those of products and orders are numbers
    Coupons, Keys,            \* coupons, merge keys of guest carts
    Wish,                     \* Wish[k][p]: pieces of p in the guest cart of k
    InitialStock, InitialCarts, Limits,
    NoUser, NoCoupon

ASSUME ShopAssumption ==
    /\ Products \subseteq Nat /\ Orders \subseteq Nat
    /\ IsFiniteSet(Products) /\ IsFiniteSet(Orders)
    /\ Wish \in [Keys -> [Products -> Nat]]
    /\ InitialStock \in [Products -> Nat]
    /\ InitialCarts \subseteq [Users -> [Products -> Nat]]
    /\ Limits \subseteq [total : Nat, perUser : Nat]
    /\ NoUser \notin Users /\ NoCoupon \notin Coupons

VARIABLES
    stock,     \* products.stock
    ledger,    \* per product, the sum of inventory_adjustments.delta
    cart,      \* cart[u][p]: cart_items.quantity, 0 if there is no line
    merged,    \* cart_merge_batches: pairs of a user and a key
    order,     \* orders with their order_items
    redeemed,  \* orders with a row of coupon_redemptions that is not released
    limit      \* coupons.usage_limit and per_user_limit

shopVars == <<stock, ledger, cart, merged, order, redeemed, limit>>

Lines == [Products -> Nat]
Empty == [p \in Products |-> 0]

OrderRow == [status : {"none", "placed", "cancelled"}, user : Users \cup {NoUser},
             items : Lines, coupon : Coupons \cup {NoCoupon}]

ShopTypeOK ==
    /\ stock \in [Products -> Nat]
    /\ ledger \in [Products -> Int]
    /\ cart \in [Users -> Lines]
    /\ merged \in SUBSET (Users \X Keys)
    /\ order \in [Orders -> OrderRow]
    /\ redeemed \in SUBSET Orders
    /\ limit \in [Coupons -> Limits]

ShopInit ==
    /\ stock = InitialStock
    /\ ledger = [p \in Products |-> 0]
    /\ cart \in InitialCarts
    /\ merged = {}
    /\ order = [o \in Orders |-> [status |-> "none", user |-> NoUser,
                                  items |-> Empty, coupon |-> NoCoupon]]
    /\ redeemed = {}
    /\ limit \in [Coupons -> Limits]

-----------------------------------------------------------------------------
(* Conditions and effects.                                                 *)

InStock(lines) == \A p \in Products : lines[p] <= stock[p]

Active(c)      == {o \in redeemed : order[o].coupon = c}
ActiveOf(c, u) == {o \in Active(c) : order[o].user = u}

\* The limits of Eligible; an unlimited coupon has a limit above Orders.
UnderLimit(c, u) ==
    /\ Cardinality(Active(c)) < limit[c].total
    /\ Cardinality(ActiveOf(c, u)) < limit[c].perUser

\* One order with its items and its redemption; the cart is emptied.
Place(o, u, lines, c) ==
    /\ order' = [order EXCEPT ![o] = [status |-> "placed", user |-> u,
                                      items |-> lines, coupon |-> c]]
    /\ stock' = [p \in Products |-> IF lines[p] > 0 THEN stock[p] - lines[p] ELSE stock[p]]
    /\ redeemed' = redeemed \cup (IF c = NoCoupon THEN {} ELSE {o})
    /\ cart' = [cart EXCEPT ![u] = Empty]
    /\ UNCHANGED <<ledger, merged, limit>>

PiecesIn(S, p) == SumFunctionOnSet([o \in Orders |-> order[o].items[p]], S)

\* Items and redemptions of the orders of S go back.  The stock passes the
\* column's CHECK (stock >= 0).
GiveBack(S) ==
    /\ order' = [o \in Orders |-> IF o \in S THEN [order[o] EXCEPT !.status = "cancelled"]
                                             ELSE order[o]]
    /\ stock' = [p \in Products |->
                    IF \E o \in S : order[o].items[p] > 0
                    THEN stock[p] + PiecesIn(S, p) ELSE stock[p]]
    /\ stock' \in [Products -> Nat]
    /\ redeemed' = redeemed \ S
    /\ UNCHANGED <<ledger, cart, merged, limit>>

\* A guest cart is added up to what is in stock; nothing wanted or nothing
\* left leaves the line as it is.
WithWish(lines, k) ==
    [p \in Products |->
        LET wanted == IF lines[p] + Wish[k][p] > stock[p] THEN stock[p]
                                                          ELSE lines[p] + Wish[k][p]
        IN  IF Wish[k][p] = 0 \/ wanted = 0 THEN lines[p] ELSE wanted]

MergeInto_NoBatch(u, k) ==
    /\ cart' = [cart EXCEPT ![u] = WithWish(cart[u], k)]
    /\ UNCHANGED <<stock, ledger, merged, order, redeemed, limit>>

MergeInto(u, k) ==
    /\ cart' = [cart EXCEPT ![u] = WithWish(cart[u], k)]
    /\ merged' = merged \cup {<<u, k>>}
    /\ UNCHANGED <<stock, ledger, order, redeemed, limit>>

SetLine(u, p, n) ==
    /\ cart' = [cart EXCEPT ![u][p] = n]
    /\ UNCHANGED <<stock, ledger, merged, order, redeemed, limit>>

\* The stock becomes n, and the adjustment says by how much it was changed.
Correct(p, old, n) ==
    /\ stock' = [stock EXCEPT ![p] = n]
    /\ ledger' = [ledger EXCEPT ![p] = @ + (n - old)]
    /\ UNCHANGED <<cart, merged, order, redeemed, limit>>

\* The coupon form replaces the whole row, both limits included.
SetLimit(c, l) ==
    /\ limit' = [limit EXCEPT ![c] = l]
    /\ UNCHANGED <<stock, ledger, cart, merged, order, redeemed>>

-----------------------------------------------------------------------------
(* The requests, each at one instant.                                      *)

Buy(u, c) ==
    /\ cart[u] # Empty /\ InStock(cart[u])
    /\ c # NoCoupon => UnderLimit(c, u)
    /\ \E o \in Orders : order[o].status = "none" /\ Place(o, u, cart[u], c)

GiveUp(S) ==
    /\ \A o \in S : order[o].status = "placed"
    /\ GiveBack(S)

MergeOnce(u, k) == <<u, k>> \notin merged /\ MergeInto(u, k)

\* Any quantity: the cart promises nothing about the stock, which may fall.
ChangeLine(u, p) == SetLine(u, p, cart'[u][p])

CorrectStock(p) == stock'[p] \in Nat /\ Correct(p, stock[p], stock'[p])

ShopNext ==
    \/ \E u \in Users, c \in Coupons \cup {NoCoupon} : Buy(u, c)
    \/ \E S \in SUBSET Orders : GiveUp(S)
    \/ \E u \in Users, k \in Keys : MergeOnce(u, k)
    \/ \E u \in Users, p \in Products : ChangeLine(u, p)
    \/ \E p \in Products : CorrectStock(p)
    \/ \E c \in Coupons, l \in Limits : SetLimit(c, l)

ShopSpec == ShopInit /\ [][ShopNext]_shopVars
=============================================================================
