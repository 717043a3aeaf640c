------------------------------- MODULE Pricing ------------------------------
(***************************************************************************)
(* What an order costs: the subtotal of a cart, the discount of a coupon   *)
(* as the preview tells it and as the checkout takes it, and the shipping  *)
(* fee.  One user's cart and any prices, coupon, redemptions and fees      *)
(* beside it; a checkout is one step: its locks are in Checkout.           *)
(* Amounts are integers from -Half to Half - 1, as the code's int64 are    *)
(* from -2^63 to 2^63 - 1, and a percentage goes to Hundred.               *)
(*                                                                         *)
(* An operator whose name has an underscore is a faulty variant of the     *)
(* operator that follows it; no specification uses it.                     *)
(***************************************************************************)
EXTENDS Integers, FiniteSetsExt

CONSTANTS
    Products, Digital,   \* Digital: the products of kind education
    Half, Hundred,
    Prices, Quantities,  \* bound: what prices and cart lines take
    Coupons,             \* bound: the rows the coupon takes
    Fees,                \* bound: what the environment sets
    MaxUses,             \* bound: redemptions by the user, and by others
    None

PricingAssumption ==
    /\ Digital \subseteq Products /\ IsFiniteSet(Products)
    /\ Half \in Nat /\ Half > 2 /\ Hundred \in Nat \ {0} /\ MaxUses \in Nat
    /\ Prices \cup Fees \subseteq 0..Half - 1
    /\ Quantities \subseteq 0..Half - 1 /\ 0 \in Quantities
    /\ \A c \in Coupons : c.value \in -Half..Half - 1

VARIABLES
    shipping,   \* ShippingConfig
    price,      \* products.price
    cart,       \* cart_items.quantity, 0 where there is no row
    coupon,     \* the row of the one code
    used,       \* its unreleased redemptions: this user's, others'
    clock,      \* now; a coupon's window is from 1 to 2
    order       \* the user's last order

vars == <<shipping, price, cart, coupon, used, clock, order>>

Methods == {"standard", "express", "digital"}

\* An expression of type int64.
Int64(x) == ((x + Half) % (2 * Half)) - Half

-----------------------------------------------------------------------------
(* The pure functions.                                                     *)

InCart == {p \in Products : cart[p] > 0}

\* order/repository.go, cart.GetCart: line after line.
ItemsSubtotal ==
    FoldSet(LAMBDA p, sum : Int64(sum + Int64(price[p] * cart[p])), 0, InCart)

\* coupon/model.go.
CheckEligibility(c, subtotal, now) ==
    /\ c.active
    /\ c.starts # None => now >= c.starts
    /\ c.ends # None => now <= c.ends
    /\ subtotal >= c.min_order_amount
    /\ c.value >= 1 /\ (c.kind = "percent" => c.value <= Hundred)

\* Go's / rounds towards zero.
Quotient(a, b) == IF a < 0 THEN -((-a) \div b) ELSE a \div b

Clamped(discount, subtotal) ==
    IF discount > subtotal THEN subtotal ELSE IF discount < 0 THEN 0 ELSE discount

CalculateDiscount_Unclamped(c, subtotal) ==
    IF subtotal <= 0 THEN 0
    ELSE IF c.kind = "percent" THEN Quotient(Int64(subtotal * c.value), Hundred) ELSE c.value

CalculateDiscount(c, subtotal) ==
    IF subtotal <= 0 THEN 0
    ELSE Clamped(IF c.kind = "percent" THEN Quotient(Int64(subtotal * c.value), Hundred)
                 ELSE c.value, subtotal)

\* repository.Eligible within a checkout; None if the coupon is refused.
Eligible(subtotal) ==
    IF /\ CheckEligibility(coupon, subtotal, clock)
       /\ coupon.usage_limit # None => used.own + used.others < coupon.usage_limit
       /\ coupon.per_user_limit # None => used.own < coupon.per_user_limit
    THEN CalculateDiscount(coupon, subtotal) ELSE None

EligiblePreview_Total(subtotal) ==
    IF /\ CheckEligibility(coupon, subtotal, clock)
       /\ coupon.usage_limit # None => used.own + used.others < coupon.usage_limit
       /\ coupon.per_user_limit # None => used.own + used.others < coupon.per_user_limit
    THEN CalculateDiscount(coupon, subtotal) ELSE None

\* repository.EligiblePreview: the rules once more, without the lock.
EligiblePreview(subtotal) ==
    IF /\ CheckEligibility(coupon, subtotal, clock)
       /\ coupon.usage_limit # None => used.own + used.others < coupon.usage_limit
       /\ coupon.per_user_limit # None => used.own < coupon.per_user_limit
    THEN CalculateDiscount(coupon, subtotal) ELSE None

\* handler.Preview; None where it answers with an error.
Preview == IF InCart = {} THEN None ELSE EligiblePreview(ItemsSubtotal)

\* LoadShipping: standard and express fee and threshold from the environment, None where
\* a variable is empty, with the defaults of shipping.go.
LoadShipping(standard, express, threshold, production) ==
    [standard |-> IF standard = None THEN 1 ELSE standard,
     express |-> IF express = None THEN 2 ELSE express,
     threshold |-> IF threshold = None THEN 0 ELSE threshold,
     configured |-> ~production \/ (standard # None /\ express # None)]

\* ShippingConfig.Fee; None for a method it has no fee for.
Fee(method, subtotal) ==
    IF method = "digital" THEN 0
    ELSE IF ~shipping.configured THEN None
    ELSE IF method = "express" THEN shipping.express
    ELSE IF shipping.threshold > 0 /\ subtotal >= shipping.threshold THEN 0
    ELSE shipping.standard

-----------------------------------------------------------------------------

TypeOK ==
    /\ shipping \in [standard : Nat, express : Nat, threshold : Nat, configured : BOOLEAN]
    /\ price \in [Products -> Prices]
    /\ cart \in [Products -> Quantities]
    /\ coupon \in Coupons
    /\ used \in [own : 0..MaxUses, others : 0..MaxUses]
    /\ clock \in 0..3
    /\ order = None \/
       /\ order.items \in (SUBSET Products) \ {{}}
       /\ order.shipping_method \in Methods
       \* The CHECKs of the columns.
       /\ {order.items_subtotal, order.discount_amount, order.shipping_fee, order.total}
             \subseteq 0..Half - 1

Init ==
    /\ \E standard, express, threshold \in Fees \cup {None}, production \in BOOLEAN :
          shipping = LoadShipping(standard, express, threshold, production)
    /\ price \in [Products -> Prices]
    /\ cart = [p \in Products |-> 0]
    /\ coupon \in Coupons
    /\ used \in [own : 0..MaxUses, others : 0..MaxUses]
    /\ clock \in 0..3
    /\ order = None

\* The cart's own rules are in Checkout.
FillCart(p, n) ==
    /\ cart' = [cart EXCEPT ![p] = n]
    /\ order' = None
    /\ UNCHANGED <<shipping, price, coupon, used, clock>>

Orderable_AsAsked(asked) == Fee(asked, 0) # None /\ InCart # {}

\* The rules on the method and the cart.
Orderable(asked) ==
    /\ Fee(asked, 0) # None
    /\ InCart # {}
    /\ asked = "digital" => InCart \subseteq Digital

\* CreateFromCart: nothing is written unless all of it can be.
CreateFromCart(asked, withCoupon) ==
    LET subtotal == ItemsSubtotal
        discount == IF withCoupon THEN Eligible(subtotal) ELSE 0
        method   == IF InCart \subseteq Digital THEN "digital" ELSE asked
        net      == Int64(subtotal - discount)
        total    == Int64(net + Fee(method, net))
    IN  /\ Orderable(asked)
        /\ discount # None
        \* The CHECKs of order_items.subtotal and of the amounts of orders.
        /\ \A p \in InCart : Int64(price[p] * cart[p]) >= 0
        /\ subtotal >= 0 /\ discount >= 0 /\ total >= 0
        /\ withCoupon => used.own < MaxUses
        /\ order' = [items |-> InCart, items_subtotal |-> subtotal, discount_amount |-> discount,
                     shipping_method |-> method, shipping_fee |-> Fee(method, net),
                     total |-> total]
        /\ used' = [used EXCEPT !.own = IF withCoupon THEN @ + 1 ELSE @]
        /\ cart' = [p \in Products |-> 0]
        /\ UNCHANGED <<shipping, price, coupon, clock>>

Next ==
    \/ \E p \in Products, n \in Quantities : FillCart(p, n)
    \/ \E asked \in Methods, withCoupon \in BOOLEAN : CreateFromCart(asked, withCoupon)

Spec == Init /\ [][Next]_vars

-----------------------------------------------------------------------------
(* Properties.                                                             *)

\* Whatever a product or a sum of 64 bits has wrapped to, an order that was stored adds up,
\* and nobody gets more off than the goods cost: shipping is never discounted.
MoneyAddsUp ==
    order # None =>
       /\ order.total = order.items_subtotal - order.discount_amount + order.shipping_fee
       /\ order.discount_amount \in 0..order.items_subtotal

\* The preview and the checkout agree: a coupon takes off what the cart page showed just
\* before, and one that the page refused is refused.
PreviewIsCharged ==
    [][used'.own > used.own => order'.discount_amount = Preview]_vars

\* Goods are never sold as a download, nor by a server in production without its fees.
GoodsAreShipped ==
    order # None /\ ~(order.items \subseteq Digital) =>
       order.shipping_method # "digital" /\ shipping.configured

\* What was shown is charged, adds up, and is shipped.
PricingSafety ==
    /\ []TypeOK
    /\ []MoneyAddsUp
    /\ []GoodsAreShipped
    /\ PreviewIsCharged
=============================================================================
