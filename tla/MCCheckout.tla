----------------------------- MODULE MCCheckout -----------------------------
(***************************************************************************)
(* Instances of Checkout for TLC.  All kinds of requests at once are too   *)
(* many, so that a behaviour is one of several scenes, each with carts, a  *)
(* coupon or none, and the kinds that meet in its tables.                  *)
(***************************************************************************)
EXTENDS Checkout, TLC

CONSTANTS Scenes, u1, u2, c1, k1, t1, t2

VARIABLE scene

\* Customers merge a guest's cart and buy, and one edits the lines too; they buy with one
\* coupon, cancel, and an admin edits the coupon; they buy, orders are cancelled or expire,
\* and the stock is corrected; and a batch of orders expires beside checkouts.
SceneKinds ==
    [carts  |-> {"checkout", "merge", "add", "set", "delete"},
     coupon |-> {"checkout", "add", "cancel"},
     stock  |-> {"checkout", "cancel", "expire", "adjust", "form"},
     expiry |-> {"checkout", "merge", "expire"}]

ASSUME SceneAssumption == Scenes \subseteq DOMAIN SceneKinds

\* The first product, and all the others.
Pieces(a, b) == [p \in Products |-> IF p = 1 THEN a ELSE b]

\* One piece of the first product is left, two of the second.
MCStock == Pieces(1, 2)

\* A guest's cart with a piece of each.
MCWish == [k \in Keys |-> Pieces(1, 1)]

\* What is in the carts at first.  Carts with different products, so that only
\* the coupon's lock orders their checkouts; and one that has both products.
CartOfOne  == [u \in Users |-> IF u = u1 THEN Pieces(0, 1) ELSE Empty]
CartOfEach == [u \in Users |-> IF u = u1 THEN Pieces(1, 0) ELSE Pieces(0, 1)]
CartOfBoth == [u \in Users |-> IF u = u1 THEN Pieces(1, 1) ELSE Pieces(0, 1)]

SceneCarts == [carts |-> CartOfOne, coupon |-> CartOfEach, stock |-> CartOfBoth,
               expiry |-> CartOfOne]

\* Whose transactions of a kind there are: one customer edits lines, and an admin who
\* corrects the stock is that customer or nobody the shop knows.
MayRun(kind, user) == kind \in CartKinds \cup StockKinds => user \in {u1, NoUser}

MCCarts == {CartOfOne, CartOfEach, CartOfBoth}

\* A coupon for one order; an admin may raise it to two and lower it again.
One == [total |-> 1, perUser |-> 1]
MCLimits == {One, [total |-> 2, perUser |-> 1]}

SceneInit ==
    /\ Init
    /\ scene \in Scenes
    /\ cart = SceneCarts[scene]
    /\ scene # "coupon" => limit = [c \in Coupons |-> One]

InScene ==
    /\ \A t \in Txs : /\ tx'[t].kind \in {"none"} \cup SceneKinds[scene]
                      /\ MayRun(tx'[t].kind, tx'[t].user)
    /\ scene # "coupon" => limit' = limit /\ \A t \in Txs : tx'[t].coupon = NoCoupon

SceneNext == Next /\ InScene /\ UNCHANGED scene

SceneSpec == SceneInit /\ [][SceneNext]_<<vars, scene>>

MCSymmetry == Permutations(Txs)
=============================================================================
