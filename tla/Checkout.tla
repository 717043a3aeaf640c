------------------------------ MODULE Checkout ------------------------------
(***************************************************************************)
(* The transactions of cart/, order/ (CreateFromCart and the three ways to *)
(* cancel), admin/ (AdjustStock) and product/ (Update), lock by lock.      *)
(*                                                                         *)
(* A transaction takes row locks one after the other, keeps them to its    *)
(* end, and other transactions see what it wrote only when it commits: so  *)
(* its writes are the action that commits it.  What it reads of a row it   *)
(* has locked cannot change before that and is read there too; what it     *)
(* reads of other rows is read where the statement runs and kept in the    *)
(* record of the transaction.  PostgreSQL's isolation level is the         *)
(* default, read committed.                                                *)
(*                                                                         *)
(* An operator whose name has an underscore is a faulty variant of the     *)
(* operator that follows it; no specification uses it.                     *)
(***************************************************************************)
EXTENDS Shop

CONSTANTS
    Txs,        \* transactions that may run at once: the connection pool
    Kinds,      \* the transactions that happen, all of AllKinds or a part of them
    MaxAsked,   \* bound: pieces of a product that a user asks for
    MaxStock,   \* bound: the stock an admin enters
    NoKey

CartKinds  == {"add", "set", "delete"}
UserKinds  == CartKinds \cup {"merge", "checkout"}
GiveUps    == {"cancel", "expire"}
StockKinds == {"adjust", "form"}
AllKinds   == UserKinds \cup GiveUps \cup StockKinds

ASSUME CheckoutAssumption ==
    /\ Kinds \subseteq AllKinds
    /\ IsFiniteSet(Txs)
    /\ MaxAsked \in Nat /\ MaxStock \in Nat
    /\ NoKey \notin Keys

VARIABLES
    tx,     \* tx[t]: the transaction t executes
    asked   \* asked[u][p]: pieces the user's browser asked for, retries not counted

vars == <<shopVars, tx, asked>>

\* A lock: table, id, and mode.  "update" is SELECT ... FOR UPDATE, "share" the
\* FOR KEY SHARE that PostgreSQL takes to check a foreign key.
Locks == ({"users"} \X Users \X {"update", "share"})
           \cup ({"products"} \X Products \X {"update", "share"})
           \cup ({"coupons"} \X Coupons \X {"update"})
           \cup ({"orders"} \X Orders \X {"update"})

User(u)    == <<"users", u, "update">>
Product(p) == <<"products", p, "update">>
Coupon(c)  == <<"coupons", c, "update">>
Order(o)   == <<"orders", o, "update">>

NoTx == [kind |-> "none", user |-> NoUser, coupon |-> NoCoupon, key |-> NoKey,
         product |-> 0, amount |-> 0, orders |-> {}, read |-> Empty, todo |-> {},
         held |-> {}]

TxRow == [kind : {"none"} \cup AllKinds,
          user : Users \cup {NoUser}, coupon : Coupons \cup {NoCoupon},
          key : Keys \cup {NoKey}, product : Products \cup {0},
          amount : Int,            \* a quantity, a delta, a new stock
          orders : SUBSET Orders,  \* those to be cancelled
          read : Lines,            \* its user's cart, or the stock
          todo : SUBSET Orders,    \* orders it has not given back yet
          held : SUBSET Locks]

TypeOK ==
    /\ ShopTypeOK
    /\ tx \in [Txs -> TxRow]
    /\ asked \in [Users -> Lines]

Init ==
    /\ ShopInit
    /\ tx = [t \in Txs |-> NoTx]
    /\ asked = cart

-----------------------------------------------------------------------------
(* Which lock a transaction requests next.                                 *)

Least(S) == {x \in S : \A y \in S : x <= y}

Unlocked(t, S) == {p \in S : Product(p) \notin tx[t].held}

\* ORDER BY product_id FOR UPDATE: one product after the other.
ProductLock(t, S) == {Product(p) : p \in Least(Unlocked(t, S))}

LinesOf(lines) == {p \in Products : lines[p] > 0}

ItemsOf(S) == UNION {LinesOf(order[o].items) : o \in S}

CheckoutWants(t) ==
    LET s == tx[t] IN
    IF Unlocked(t, LinesOf(s.read)) # {} THEN ProductLock(t, LinesOf(s.read))
    ELSE IF InStock(s.read) THEN {Coupon(c) : c \in {s.coupon} \ {NoCoupon}} \ s.held
    ELSE {}

MergeWants_Unsorted(t) ==
    LET s == tx[t] IN
    IF <<s.user, s.key>> \in merged THEN {}
    ELSE {Product(p) : p \in Unlocked(t, LinesOf(Wish[s.key]))}

\* A batch that was merged before is answered from its row.
MergeWants(t) ==
    LET s == tx[t] IN
    IF <<s.user, s.key>> \in merged THEN {} ELSE ProductLock(t, LinesOf(Wish[s.key]))

\* The foreign key of a new line.
CartWants(t) ==
    LET s == tx[t] IN
    IF s.kind = "add" /\ s.read[s.product] = 0
    THEN {<<"products", s.product, "share">>} \ s.held ELSE {}

\* Order after order: its products (restoreOrderStock) and, for the mail in
\* the outbox, the foreign key to its user.
GiveUpWants(t) ==
    LET s     == tx[t]
        first == Least(s.todo)
    IN  IF \E o \in s.orders : Order(o) \notin s.held THEN {Order(o) : o \in s.orders}
        ELSE IF Unlocked(t, ItemsOf(first)) # {} THEN ProductLock(t, ItemsOf(first))
        ELSE {<<"users", order[o].user, "share">> : o \in first}

\* The product, and the foreign key of the adjustment to the admin's user.
StockWants(t) ==
    LET s == tx[t] IN
    IF Product(s.product) \notin s.held THEN {Product(s.product)}
    ELSE IF s.kind = "form" /\ s.amount = s.read[s.product] THEN {}
    ELSE {<<"users", u, "share">> : u \in {s.user} \ {NoUser}} \ s.held

Wants(t) ==
    LET s == tx[t] IN
    IF s.kind \in UserKinds /\ User(s.user) \notin s.held THEN {User(s.user)}
    ELSE IF s.kind = "checkout"   THEN CheckoutWants(t)
    ELSE IF s.kind = "merge"      THEN MergeWants(t)
    ELSE IF s.kind \in CartKinds  THEN CartWants(t)
    ELSE IF s.kind \in GiveUps    THEN GiveUpWants(t)
    ELSE IF s.kind \in StockKinds THEN StockWants(t)
    ELSE {}

Blocks_NotUsers(l, m) ==
    l[1] = m[1] /\ l[1] # "users" /\ l[2] = m[2] /\ "update" \in {l[3], m[3]}

Blocks_NotProducts(l, m) ==
    l[1] = m[1] /\ l[1] # "products" /\ l[2] = m[2] /\ "update" \in {l[3], m[3]}

Blocks_NotCoupons(l, m) ==
    l[1] = m[1] /\ l[1] # "coupons" /\ l[2] = m[2] /\ "update" \in {l[3], m[3]}

\* m, held by another transaction, makes a request for l wait.
Blocks(l, m) == l[1] = m[1] /\ l[2] = m[2] /\ "update" \in {l[3], m[3]}

Granted(t, l) ==
    /\ l \in Wants(t)
    /\ \A u \in Txs \ {t} : \A m \in tx[u].held : ~Blocks(l, m)

-----------------------------------------------------------------------------
(* A request arrives.                                                      *)

Begin(t, s) ==
    /\ tx[t] = NoTx /\ s.kind \in Kinds
    /\ tx' = [tx EXCEPT ![t] = s]
    /\ UNCHANGED shopVars

BeginCheckout(t, u, c) ==
    /\ Begin(t, [NoTx EXCEPT !.kind = "checkout", !.user = u, !.coupon = c])
    /\ UNCHANGED asked

\* The browser repeats a merge it got no answer to with the same key.
BeginMerge(t, u, k) ==
    /\ Begin(t, [NoTx EXCEPT !.kind = "merge", !.user = u, !.key = k])
    /\ UNCHANGED asked

BeginCart(t, kind, u, p, n) ==
    /\ Begin(t, [NoTx EXCEPT !.kind = kind, !.user = u, !.product = p, !.amount = n])
    /\ asked' = [asked EXCEPT ![u][p] = @ + n]
    /\ asked'[u][p] <= MaxAsked

\* UpdateStatus and CancelOwnOrder.
BeginCancel(t, o) ==
    /\ order[o].status # "none"
    /\ Begin(t, [NoTx EXCEPT !.kind = "cancel", !.orders = {o}, !.todo = {o}])
    /\ UNCHANGED asked

\* ExpireReservations: FOR UPDATE SKIP LOCKED takes the rows nobody has locked.
BeginExpire(t, S) ==
    /\ S # {} /\ \A o \in S : order[o].status = "placed"
    /\ \A u \in Txs : \A o \in S : Order(o) \notin tx[u].held
    /\ Begin(t, [NoTx EXCEPT !.kind = "expire", !.orders = S, !.todo = S,
                             !.held = {Order(o) : o \in S}])
    /\ UNCHANGED asked

\* u is the admin, who may be a customer too.
BeginStock(t, kind, u, p, n) ==
    /\ Begin(t, [NoTx EXCEPT !.kind = kind, !.user = u, !.product = p, !.amount = n])
    /\ UNCHANGED asked

-----------------------------------------------------------------------------
(* The statements that lock, each with what it reads.                      *)

Lock(t, l, s) ==
    /\ Granted(t, l)
    /\ tx' = [tx EXCEPT ![t] = [s EXCEPT !.held = @ \cup {l}]]
    /\ UNCHANGED <<shopVars, asked>>

\* The stock is read without a lock.
CartAllows(s) ==
    LET has == cart[s.user][s.product] IN
    CASE s.kind = "add"    -> has + s.amount <= stock[s.product]
      [] s.kind = "set"    -> has > 0 /\ s.amount <= stock[s.product]
      [] s.kind = "delete" -> has > 0

LockUser(t) ==
    LET s == tx[t] IN
    /\ s.kind \in UserKinds
    /\ s.kind \in CartKinds => CartAllows(s)
    /\ Lock(t, User(s.user), IF s.kind = "merge" THEN s ELSE [s EXCEPT !.read = cart[s.user]])

LockProduct(t, p) ==
    LET s == tx[t] IN
    Lock(t, Product(p), IF s.kind \notin StockKinds THEN s
                           ELSE [s EXCEPT !.read[p] = stock[p]])

\* Eligible: lock the coupon, then count its redemptions.
LockCoupon(t, c) == UnderLimit(c, tx[t].user) /\ Lock(t, Coupon(c), tx[t])

LockOrder_AnyStatus(t, o) == Lock(t, Order(o), tx[t])

\* A second cancellation waits here, then finds the order cancelled.
LockOrder(t, o) == order[o].status = "placed" /\ Lock(t, Order(o), tx[t])

ShareProduct(t, p) == Lock(t, <<"products", p, "share">>, tx[t])

ShareUser(t, u) ==
    Lock(t, <<"users", u, "share">>, [tx[t] EXCEPT !.todo = @ \ Least(@)])

-----------------------------------------------------------------------------
(* The end of a transaction.                                               *)

End(t, kinds) ==
    /\ tx[t].kind \in kinds /\ Wants(t) = {}
    /\ tx' = [tx EXCEPT ![t] = NoTx]
    /\ UNCHANGED asked

CommitCheckout_Oversells(t, o) ==
    LET s == tx[t] IN
    /\ End(t, {"checkout"})
    /\ s.read # Empty
    /\ order[o].status = "none"
    /\ Place(o, s.user, s.read, s.coupon)

CommitCheckout(t, o) ==
    LET s == tx[t] IN
    /\ End(t, {"checkout"})
    /\ s.read # Empty /\ InStock(s.read)
    /\ order[o].status = "none"
    /\ Place(o, s.user, s.read, s.coupon)

CommitMerge(t) ==
    LET s == tx[t] IN
    /\ End(t, {"merge"})
    /\ <<s.user, s.key>> \notin merged
    /\ MergeInto(s.user, s.key)

CommitCart(t) ==
    LET s == tx[t] IN
    /\ End(t, CartKinds)
    /\ SetLine(s.user, s.product,
               IF s.kind = "add" THEN s.read[s.product] + s.amount ELSE s.amount)

CommitGiveUp(t) == End(t, GiveUps) /\ GiveBack(tx[t].orders)

\* AdjustStock and the product form write the whole stock.
CommitStock(t) ==
    LET s == tx[t]
        n == IF s.kind = "adjust" THEN s.read[s.product] + s.amount ELSE s.amount
    IN  /\ End(t, StockKinds)
        /\ n \in 0 .. MaxStock
        /\ Correct(s.product, s.read[s.product], n)

\* Any error on the way: a failed condition, a lost client, a timeout, and the
\* victim that PostgreSQL chooses when transactions wait for each other.
Rollback(t) ==
    /\ tx[t].kind # "none"
    /\ tx' = [tx EXCEPT ![t] = NoTx]
    /\ UNCHANGED <<shopVars, asked>>

UpdateCoupon(c, l) ==
    /\ \A t \in Txs : Coupon(c) \notin tx[t].held
    /\ SetLimit(c, l)
    /\ UNCHANGED <<tx, asked>>

BeginSome(t) ==
    \/ \E u \in Users, c \in Coupons \cup {NoCoupon} : BeginCheckout(t, u, c)
    \/ \E u \in Users, k \in Keys : BeginMerge(t, u, k)
    \/ \E u \in Users, p \in Products, kind \in {"add", "set"}, n \in 1 .. MaxAsked :
          BeginCart(t, kind, u, p, n)
    \/ \E u \in Users, p \in Products : BeginCart(t, "delete", u, p, 0)
    \/ \E o \in Orders : BeginCancel(t, o)
    \/ \E S \in SUBSET Orders : BeginExpire(t, S)
    \/ \E u \in Users \cup {NoUser}, p \in Products, n \in -MaxStock .. MaxStock :
          n # 0 /\ BeginStock(t, "adjust", u, p, n)
    \/ \E u \in Users \cup {NoUser}, p \in Products, n \in 0 .. MaxStock :
          BeginStock(t, "form", u, p, n)

LockSome(t) ==
    \/ LockUser(t)
    \/ \E p \in Products : LockProduct(t, p) \/ ShareProduct(t, p)
    \/ \E c \in Coupons : LockCoupon(t, c)
    \/ \E o \in Orders : LockOrder(t, o)
    \/ \E u \in Users : ShareUser(t, u)

EndSome(t) ==
    \/ \E o \in Orders : CommitCheckout(t, o)
    \/ CommitMerge(t)
    \/ CommitCart(t)
    \/ CommitGiveUp(t)
    \/ CommitStock(t)
    \/ Rollback(t)

Next ==
    \/ \E t \in Txs : BeginSome(t) \/ LockSome(t) \/ EndSome(t)
    \/ \E c \in Coupons, l \in Limits : UpdateCoupon(c, l)

Spec == Init /\ [][Next]_vars

-----------------------------------------------------------------------------
(* Properties.                                                             *)

Placed == {o \in Orders : order[o].status = "placed"}

\* No piece is sold twice, given back twice or lost: the stock is what there
\* was at first, with the recorded adjustments, less what placed orders hold.
\* AdjustStock and the form write a stock they have read, beside checkouts
\* and cancellations that change it.
StockConserved ==
    \A p \in Products : stock[p] = InitialStock[p] + ledger[p] - PiecesIn(Placed, p)

MergedBy(u) == {k \in Keys : <<u, k>> \in merged}

\* A customer has ordered, or has in the cart, no more than was asked for: two
\* checkouts of one cart place it once, a merge that is repeated with its key
\* adds once, and no late write to the cart brings back what was bought.
BoughtAsAsked ==
    \A u \in Users, p \in Products :
        cart[u][p] + PiecesIn({o \in Orders : order[o].user = u}, p)
          <= asked[u][p] + SumFunctionOnSet([k \in Keys |-> Wish[k][p]], MergedBy(u))

\* A checkout never takes the redemptions of a coupon beyond the limits in
\* force, whatever other checkouts of the coupon and the admin do meanwhile.
RedeemedWithinLimits ==
    \A c \in Coupons :
        Cardinality(Active(c)) < Cardinality(Active(c))' =>
            /\ Cardinality(Active(c))' <= limit'[c].total
            /\ \A u \in Users : Cardinality(ActiveOf(c, u)) < Cardinality(ActiveOf(c, u))' =>
                                   Cardinality(ActiveOf(c, u))' <= limit'[c].perUser

LimitsKept == [][RedeemedWithinLimits]_vars

WaitsFor(t, u, tables) ==
    \E l \in Wants(t) : \E m \in tx[u].held : l[1] \in tables /\ Blocks(l, m)

WaitInCircle(S, tables) ==
    S # {} /\ \A t \in S : \E u \in S \ {t} : WaitsFor(t, u, tables)

\* Customers who fill their carts and buy never wait for each other in a
\* circle: all take their user, then products in ascending order, then a coupon.
BuyersNeverDeadlock ==
    \A S \in SUBSET {t \in Txs : tx[t].kind \in UserKinds} :
        ~WaitInCircle(S, {"users", "products", "coupons", "orders"})

\* The comment of restoreOrderStock (order/repository.go:723): it locks products
\* in ascending order, so that it never races with a checkout's locks.
RestoreAndCheckoutInOrder ==
    \A S \in SUBSET Txs : ~WaitInCircle(S, {"products"})

\* Every execution, with the locks left out, is one in which the requests
\* happen one after the other, each on the state of its instant.
Serial == ShopSpec
=============================================================================
