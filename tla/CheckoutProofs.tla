--------------------------- MODULE CheckoutProofs ---------------------------
(***************************************************************************)
(* Proofs about Checkout, for any number of customers, products, coupons,  *)
(* merge keys, orders and concurrent transactions.                         *)
(***************************************************************************)
EXTENDS Checkout, FiniteSetTheorems, NaturalsInduction, WellFoundedInduction, TLAPS

\* The parameters of a request fit its kind.
Params(s) ==
    /\ s.kind \in UserKinds => s.user \in Users
    /\ s.kind = "merge" => s.key \in Keys
    /\ s.kind \in CartKinds => s.product \in Products /\ s.amount \in Nat
    /\ s.kind \in StockKinds => s.product \in Products

\* An exclusive lock has one holder.
Alone ==
    \A t \in Txs : \A u \in Txs \ {t} : \A l \in tx[t].held :
        l[3] = "update" => l \notin tx[u].held

\* The transactions that read their user's cart with the lock on the user.
CartReaders == UserKinds \ {"merge"}

\* What a transaction read under a lock is still so while it holds the lock.
CartHolds(t) ==
    tx[t].kind \in CartReaders /\ User(tx[t].user) \in tx[t].held =>
        tx[t].read = cart[tx[t].user]

CouponHolds(t) ==
    \A c \in Coupons, u \in Users :
        tx[t].kind = "checkout" /\ tx[t].coupon = c /\ tx[t].user = u
            /\ Coupon(c) \in tx[t].held => UnderLimit(c, u)

OrdersHold(t) ==
    \A o \in Orders : Order(o) \in tx[t].held => order[o].status = "placed"

StockReadHolds(t) ==
    tx[t].kind \in StockKinds /\ Product(tx[t].product) \in tx[t].held =>
        tx[t].read[tx[t].product] = stock[tx[t].product]

\* A cancellation has the products of the orders it is done with.
GivenBackHolds(t) ==
    tx[t].kind \in GiveUps =>
        /\ \A o \in tx[t].orders : order[o].status # "none"
        /\ \A o \in tx[t].orders \ tx[t].todo : \A p \in Products :
              order[o].items[p] > 0 => Product(p) \in tx[t].held

ReadsHold(t) ==
    CartHolds(t) /\ CouponHolds(t) /\ OrdersHold(t) /\ StockReadHolds(t) /\ GivenBackHolds(t)

\* Only a placed order counts as a use of its coupon.
Redemptions == \A o \in redeemed : order[o].status = "placed"

IInv ==
    /\ TypeOK
    /\ \A t \in Txs : Params(tx[t])
    /\ Alone
    /\ \A t \in Txs : ReadsHold(t)
    /\ Redemptions

-----------------------------------------------------------------------------
(* Locks.                                                                  *)

LEMMA LockShape ==
    /\ \A u \in Users : User(u) \in Locks
    /\ \A p \in Products : Product(p) \in Locks
    /\ \A c \in Coupons : Coupon(c) \in Locks
    /\ \A o \in Orders : Order(o) \in Locks
    /\ \A u \in Users : <<"users", u, "share">> \in Locks
    /\ \A p \in Products : <<"products", p, "share">> \in Locks
  BY DEF Locks, User, Product, Coupon, Order

LEMMA LockNames ==
    /\ \A x, y : (User(x) = User(y) => x = y) /\ User(x)[3] = "update"
    /\ \A x, y : (Product(x) = Product(y) => x = y) /\ Product(x)[3] = "update"
    /\ \A x, y : (Coupon(x) = Coupon(y) => x = y) /\ Coupon(x)[3] = "update"
    /\ \A x, y : (Order(x) = Order(y) => x = y) /\ Order(x)[3] = "update"
    /\ \A x, y : User(x) # Product(y) /\ User(x) # Coupon(y) /\ User(x) # Order(y)
    /\ \A x, y : Product(x) # Coupon(y) /\ Product(x) # Order(y) /\ Coupon(x) # Order(y)
    /\ \A x, y : /\ User(x) # <<"users", y, "share">>
                 /\ Product(x) # <<"users", y, "share">>
                 /\ Coupon(x) # <<"users", y, "share">>
                 /\ Order(x) # <<"users", y, "share">>
    /\ \A x, y : /\ User(x) # <<"products", y, "share">>
                 /\ Product(x) # <<"products", y, "share">>
                 /\ Coupon(x) # <<"products", y, "share">>
                 /\ Order(x) # <<"products", y, "share">>
  BY DEF User, Product, Coupon, Order

\* A lock that is granted is held exclusively by no other transaction, and
\* by nobody else at all if it is exclusive.
LEMMA GrantedAlone ==
    ASSUME NEW t \in Txs, NEW l \in Locks, Granted(t, l), NEW u \in Txs \ {t},
           l[3] = "update"
    PROVE  l \notin tx[u].held
  BY DEF Granted, Blocks

LEMMA SmallestNat ==
    ASSUME NEW S \in SUBSET Nat, S # {}
    PROVE  \E n \in S : \A m \in S : n <= m
  <1> DEFINE R == {ss \in Nat \X Nat : ss[1] < ss[2]}
  <1>1. IsWellFoundedOn(R, Nat)
    <2> DEFINE L(a, b) == a < b
    <2>1. IsWellFoundedOn(OpToRel(L, Nat), Nat)
      BY NatLessThanWellFounded, Zenon
    <2> QED BY <2>1, Zenon DEF OpToRel
  <1>2. PICK n \in S : \A m \in S : <<m, n>> \notin R
    <2> HIDE DEF R
    <2> QED BY <1>1, WFMin, Zenon
  <1>3. ASSUME NEW m \in S
        PROVE  n <= m
    <2>1. <<m, n>> \in Nat \X Nat /\ ~(m < n)
      BY <1>2, Zenon
    <2> QED BY <2>1
  <1> QED BY <1>3

\* Of finite sets, one of the smallest: without any of its elements it is no
\* longer one of them.
LEMMA SmallestSet ==
    ASSUME NEW C, C # {}, \A T \in C : IsFiniteSet(T)
    PROVE  \E T \in C : \A x \in T : T \ {x} \notin C
  <1> DEFINE Sizes == {Cardinality(T) : T \in C}
  <1>1. Sizes \in SUBSET Nat /\ Sizes # {}
    BY FS_CardinalityType
  <1> HIDE DEF Sizes
  <1>2. PICK n \in Sizes : \A m \in Sizes : n <= m
    BY <1>1, SmallestNat
  <1>3. PICK T \in C : n = Cardinality(T)
    BY DEF Sizes
  <1>4. ASSUME NEW x \in T, T \ {x} \in C
        PROVE  FALSE
    <2>1. Cardinality(T \ {x}) = n - 1 /\ n \in Nat
      BY <1>1, <1>3, FS_RemoveElement
    <2>2. Cardinality(T \ {x}) \in Sizes
      BY <1>4 DEF Sizes
    <2> QED BY <1>2, <2>1, <2>2
  <1> QED BY <1>4

LEMMA LeastExists ==
    ASSUME NEW S \in SUBSET Nat, S # {}
    PROVE  Least(S) # {}
  BY SmallestNat DEF Least

-----------------------------------------------------------------------------
(* What a transaction that wants no more locks holds.                      *)

LEMMA CheckoutHolds ==
    ASSUME IInv, NEW t \in Txs, tx[t].kind = "checkout", Wants(t) = {}
    PROVE  /\ User(tx[t].user) \in tx[t].held
           /\ \A p \in LinesOf(tx[t].read) : Product(p) \in tx[t].held
           /\ InStock(tx[t].read) /\ tx[t].coupon # NoCoupon =>
                 Coupon(tx[t].coupon) \in tx[t].held
  <1>1. User(tx[t].user) \in tx[t].held /\ CheckoutWants(t) = {}
    BY DEF Wants, UserKinds, CartKinds, GiveUps, StockKinds
  <1>2. Unlocked(t, LinesOf(tx[t].read)) = {}
    <2> SUFFICES ASSUME Unlocked(t, LinesOf(tx[t].read)) # {}
                 PROVE  FALSE
      OBVIOUS
    <2>1. Unlocked(t, LinesOf(tx[t].read)) \in SUBSET Nat
      BY ShopAssumption DEF Unlocked, LinesOf
    <2>2. ProductLock(t, LinesOf(tx[t].read)) # {}
      BY <2>1, LeastExists DEF ProductLock
    <2> QED BY <1>1, <2>2 DEF CheckoutWants
  <1>3. \A p \in LinesOf(tx[t].read) : Product(p) \in tx[t].held
    BY <1>2 DEF Unlocked
  <1>4. ASSUME InStock(tx[t].read), tx[t].coupon # NoCoupon
        PROVE  Coupon(tx[t].coupon) \in tx[t].held
    BY <1>1, <1>2, <1>4 DEF CheckoutWants
  <1> QED BY <1>1, <1>3, <1>4

LEMMA UserHolds ==
    ASSUME NEW t \in Txs, tx[t].kind \in UserKinds, Wants(t) = {}
    PROVE  User(tx[t].user) \in tx[t].held
  BY DEF Wants, UserKinds, CartKinds

LEMMA StockHolds ==
    ASSUME NEW t \in Txs, tx[t].kind \in StockKinds, Wants(t) = {}
    PROVE  Product(tx[t].product) \in tx[t].held
  BY DEF Wants, StockWants, StockKinds, UserKinds, CartKinds, GiveUps

LEMMA GiveUpHolds ==
    ASSUME IInv, NEW t \in Txs, tx[t].kind \in GiveUps, Wants(t) = {}
    PROVE  /\ \A o \in tx[t].orders : Order(o) \in tx[t].held
           /\ tx[t].todo = {}
  <1>1. GiveUpWants(t) = {}
    BY DEF Wants, GiveUps, UserKinds, CartKinds
  <1>2. \A o \in tx[t].orders : Order(o) \in tx[t].held
    BY <1>1 DEF GiveUpWants
  <1>3. tx[t].todo \in SUBSET Nat
    BY ShopAssumption DEF IInv, TypeOK, TxRow
  <1>4. Unlocked(t, ItemsOf(Least(tx[t].todo))) = {}
    <2> SUFFICES ASSUME Unlocked(t, ItemsOf(Least(tx[t].todo))) # {}
                 PROVE  FALSE
      OBVIOUS
    <2>1. Unlocked(t, ItemsOf(Least(tx[t].todo))) \in SUBSET Nat
      BY ShopAssumption DEF Unlocked, LinesOf, ItemsOf
    <2>2. ProductLock(t, ItemsOf(Least(tx[t].todo))) # {}
      BY <2>1, LeastExists DEF ProductLock
    <2> QED BY <1>1, <1>2, <2>2 DEF GiveUpWants
  <1>5. Least(tx[t].todo) = {}
    BY <1>1, <1>2, <1>4 DEF GiveUpWants
  <1> QED BY <1>2, <1>3, <1>5, LeastExists

-----------------------------------------------------------------------------
(* A step of a transaction that leaves the shop as it is.                  *)

LEMMA NoTxType == NoTx \in TxRow /\ Params(NoTx)
  BY DEF NoTx, TxRow, Lines, Empty, Params, UserKinds, CartKinds, StockKinds, AllKinds

\* The other transactions keep what they hold and what they have read.
LEMMA OthersKeep ==
    ASSUME IInv, UNCHANGED shopVars, NEW u \in Txs, tx'[u] = tx[u]
    PROVE  ReadsHold(u)'
  <1>1. CartHolds(u)'
    BY DEF IInv, ReadsHold, CartHolds, shopVars
  <1>2. CouponHolds(u)'
    BY DEF IInv, ReadsHold, CouponHolds, shopVars, UnderLimit, Active, ActiveOf
  <1>3. OrdersHold(u)'
    BY DEF IInv, ReadsHold, OrdersHold, shopVars
  <1>4. StockReadHolds(u)'
    BY DEF IInv, ReadsHold, StockReadHolds, shopVars
  <1>5. GivenBackHolds(u)'
    BY DEF IInv, ReadsHold, GivenBackHolds, shopVars
  <1> QED BY <1>1, <1>2, <1>3, <1>4, <1>5 DEF ReadsHold

LEMMA RowStep ==
    ASSUME IInv, NEW t \in Txs, NEW s \in TxRow, Params(s),
           tx' = [tx EXCEPT ![t] = s], UNCHANGED shopVars, asked' \in [Users -> Lines],
           \A u \in Txs \ {t} : \A l \in s.held : l[3] = "update" => l \notin tx[u].held,
           ReadsHold(t)'
    PROVE  IInv'
  <1>1. tx \in [Txs -> TxRow]
    BY DEF IInv, TypeOK
  <1>2. /\ tx' \in [Txs -> TxRow]
        /\ tx'[t] = s
        /\ \A u \in Txs \ {t} : tx'[u] = tx[u]
    BY <1>1
  <1>3. TypeOK'
    BY <1>2 DEF IInv, TypeOK, ShopTypeOK, shopVars
  <1>4. \A u \in Txs : Params(tx'[u])
    BY <1>2 DEF IInv
  <1>5. Alone'
    BY <1>2 DEF IInv, Alone
  <1>6. \A u \in Txs : ReadsHold(u)'
    BY <1>2, OthersKeep
  <1>7. Redemptions'
    BY DEF IInv, Redemptions, shopVars
  <1> QED BY <1>3, <1>4, <1>5, <1>6, <1>7 DEF IInv

\* A request that arrives holds no lock; ExpireReservations starts with the
\* orders nobody has locked.
LEMMA BeginStep ==
    ASSUME IInv, NEW t \in Txs, NEW s \in TxRow, Begin(t, s), Params(s),
           asked' \in [Users -> Lines], s.todo = s.orders,
           \A o \in s.orders : order[o].status # "none",
           \/ s.held = {}
           \/ /\ s.held = {Order(o) : o \in s.orders}
              /\ \A o \in s.orders : /\ order[o].status = "placed"
                                     /\ \A u \in Txs : Order(o) \notin tx[u].held
    PROVE  IInv'
  <1>1. tx' = [tx EXCEPT ![t] = s] /\ UNCHANGED shopVars
    BY DEF Begin
  <1>2. tx \in [Txs -> TxRow]
    BY DEF IInv, TypeOK
  <1>3. tx'[t] = s
    BY <1>1, <1>2
  <1>4. \A u \in Txs \ {t} : \A l \in s.held : l[3] = "update" => l \notin tx[u].held
    OBVIOUS
  <1>5. \A o \in Orders : Order(o) \in s.held =>
            o \in s.orders /\ order[o].status = "placed"
    BY LockNames
  <1>6. ReadsHold(t)'
    <2>1. CartHolds(t)' /\ CouponHolds(t)' /\ StockReadHolds(t)'
      BY <1>3, LockNames DEF CartHolds, CouponHolds, StockReadHolds
    <2>2. OrdersHold(t)' /\ GivenBackHolds(t)'
      BY <1>1, <1>3, <1>5 DEF OrdersHold, GivenBackHolds, shopVars
    <2> QED BY <2>1, <2>2 DEF ReadsHold
  <1> QED BY <1>1, <1>4, <1>6, RowStep

LEMMA BeginSomeStep ==
    ASSUME IInv, NEW t \in Txs, BeginSome(t)
    PROVE  IInv'
  <1> USE DEF Params, AllKinds, UserKinds, CartKinds, StockKinds, GiveUps
  <1>1. CASE \E u \in Users, c \in Coupons \cup {NoCoupon} : BeginCheckout(t, u, c)
    <2> PICK u \in Users, c \in Coupons \cup {NoCoupon} : BeginCheckout(t, u, c)
      BY <1>1
    <2> DEFINE s == [NoTx EXCEPT !.kind = "checkout", !.user = u, !.coupon = c]
    <2>1. s \in TxRow /\ Params(s) /\ s.held = {} /\ s.orders = {} /\ s.todo = {}
      BY NoTxType DEF NoTx, TxRow
    <2>2. Begin(t, s) /\ asked' = asked
      BY DEF BeginCheckout
    <2> HIDE DEF s
    <2> QED BY <2>1, <2>2, BeginStep DEF IInv, TypeOK
  <1>2. CASE \E u \in Users, k \in Keys : BeginMerge(t, u, k)
    <2> PICK u \in Users, k \in Keys : BeginMerge(t, u, k)
      BY <1>2
    <2> DEFINE s == [NoTx EXCEPT !.kind = "merge", !.user = u, !.key = k]
    <2>1. s \in TxRow /\ Params(s) /\ s.held = {} /\ s.orders = {} /\ s.todo = {}
      BY NoTxType DEF NoTx, TxRow
    <2>2. Begin(t, s) /\ asked' = asked
      BY DEF BeginMerge
    <2> HIDE DEF s
    <2> QED BY <2>1, <2>2, BeginStep DEF IInv, TypeOK
  <1>3. ASSUME NEW u \in Users, NEW p \in Products, NEW kind \in CartKinds, NEW n \in Nat,
               BeginCart(t, kind, u, p, n)
        PROVE  IInv'
    <2> DEFINE s == [NoTx EXCEPT !.kind = kind, !.user = u, !.product = p, !.amount = n]
    <2>1. /\ s.held = {} /\ s.orders = {} /\ s.todo = {}
          /\ s.kind = kind /\ s.user = u /\ s.product = p /\ s.amount = n
      BY DEF NoTx
    <2>2. s \in TxRow
      <3>1. kind \in AllKinds /\ n \in Int
        OBVIOUS
      <3> HIDE DEF AllKinds, UserKinds, CartKinds, StockKinds, GiveUps
      <3> QED BY <3>1, NoTxType DEF NoTx, TxRow
    <2>3. Params(s)
      <3> HIDE DEF s
      <3> QED BY <2>1
    <2>4. Begin(t, s) /\ asked' = [asked EXCEPT ![u][p] = @ + n]
      BY <1>3 DEF BeginCart
    <2> HIDE DEF s
    <2>5. asked' \in [Users -> Lines]
      BY <2>4 DEF IInv, TypeOK, Lines
    <2> QED BY <2>1, <2>2, <2>3, <2>4, <2>5, BeginStep
  <1>4. ASSUME NEW o \in Orders, BeginCancel(t, o)
        PROVE  IInv'
    <2> DEFINE s == [NoTx EXCEPT !.kind = "cancel", !.orders = {o}, !.todo = {o}]
    <2>1. s \in TxRow /\ Params(s) /\ s.held = {} /\ s.orders = {o} /\ s.todo = {o}
      BY NoTxType DEF NoTx, TxRow
    <2>2. Begin(t, s) /\ asked' = asked /\ order[o].status # "none"
      BY <1>4 DEF BeginCancel
    <2> HIDE DEF s
    <2> QED BY <2>1, <2>2, BeginStep DEF IInv, TypeOK
  <1>5. ASSUME NEW S \in SUBSET Orders, BeginExpire(t, S)
        PROVE  IInv'
    <2> DEFINE s == [NoTx EXCEPT !.kind = "expire", !.orders = S, !.todo = S,
                                 !.held = {Order(o) : o \in S}]
    <2>1. {Order(o) : o \in S} \in SUBSET Locks
      BY LockShape
    <2>2. s \in TxRow /\ Params(s) /\ s.held = {Order(o) : o \in S}
                     /\ s.orders = S /\ s.todo = S
      BY <2>1, NoTxType DEF NoTx, TxRow
    <2>3. /\ Begin(t, s) /\ asked' = asked
          /\ \A o \in S : order[o].status = "placed"
          /\ \A u \in Txs : \A o \in S : Order(o) \notin tx[u].held
      BY <1>5 DEF BeginExpire
    <2> HIDE DEF s
    <2> QED BY <2>2, <2>3, BeginStep DEF IInv, TypeOK
  <1>6. ASSUME NEW kind \in StockKinds, NEW u \in Users \cup {NoUser}, NEW p \in Products,
               NEW n \in Int, BeginStock(t, kind, u, p, n)
        PROVE  IInv'
    <2> DEFINE s == [NoTx EXCEPT !.kind = kind, !.user = u, !.product = p, !.amount = n]
    <2>1. s \in TxRow /\ Params(s) /\ s.held = {} /\ s.orders = {} /\ s.todo = {}
      BY NoTxType DEF NoTx, TxRow
    <2>2. Begin(t, s) /\ asked' = asked
      BY <1>6 DEF BeginStock
    <2> HIDE DEF s
    <2> QED BY <2>1, <2>2, BeginStep DEF IInv, TypeOK
  <1> QED
    BY <1>1, <1>2, <1>3, <1>4, <1>5, <1>6, CheckoutAssumption DEF BeginSome

-----------------------------------------------------------------------------
(* A statement that takes a lock.                                          *)

\* s is the row of t with what the statement read; then l is added.
LEMMA LockStep ==
    ASSUME IInv, NEW t \in Txs, NEW l \in Locks, NEW s \in TxRow, Lock(t, l, s),
           Params(s), s.held = tx[t].held, ReadsHold(t)'
    PROVE  IInv'
  <1> DEFINE r == [s EXCEPT !.held = @ \cup {l}]
  <1>1. r \in TxRow /\ r.held = s.held \cup {l}
    BY DEF TxRow
  <1>2. Params(r)
    BY DEF Params
  <1>3. tx' = [tx EXCEPT ![t] = r] /\ UNCHANGED <<shopVars, asked>> /\ Granted(t, l)
    BY DEF Lock
  <1>4. \A u \in Txs \ {t} : \A m \in r.held : m[3] = "update" => m \notin tx[u].held
    <2> SUFFICES ASSUME NEW u \in Txs \ {t}, NEW m \in r.held, m[3] = "update"
                 PROVE  m \notin tx[u].held
      OBVIOUS
    <2>1. CASE m = l
      BY <2>1, <1>3, GrantedAlone
    <2>2. CASE m \in tx[t].held
      BY <2>2 DEF IInv, Alone
    <2> QED BY <1>1, <2>1, <2>2
  <1> HIDE DEF r
  <1> QED BY <1>1, <1>2, <1>3, <1>4, RowStep DEF IInv, TypeOK

\* What t has read stays so when it takes a lock and reads nothing new.
LEMMA LockOnly ==
    ASSUME IInv, NEW t \in Txs, NEW l \in Locks, Lock(t, l, tx[t]),
           \A c \in Coupons : l = Coupon(c) => UnderLimit(c, tx[t].user),
           \A o \in Orders : l = Order(o) => order[o].status = "placed",
           tx[t].kind \in CartReaders => l # User(tx[t].user),
           tx[t].kind \in StockKinds => l # Product(tx[t].product)
    PROVE  IInv'
  <1>1. tx[t] \in TxRow
    BY DEF IInv, TypeOK
  <1> DEFINE r == [tx[t] EXCEPT !.held = @ \cup {l}]
  <1>2. /\ r.held = tx[t].held \cup {l} /\ r.kind = tx[t].kind /\ r.user = tx[t].user
        /\ r.coupon = tx[t].coupon /\ r.product = tx[t].product /\ r.read = tx[t].read
        /\ r.orders = tx[t].orders /\ r.todo = tx[t].todo
    BY <1>1 DEF TxRow
  <1>3. tx' = [tx EXCEPT ![t] = r] /\ UNCHANGED shopVars
    BY DEF Lock
  <1>4. tx'[t] = r
    BY <1>3 DEF IInv, TypeOK
  <1> HIDE DEF r
  <1>5. CartHolds(t)' /\ OrdersHold(t)' /\ StockReadHolds(t)' /\ GivenBackHolds(t)'
    BY <1>2, <1>3, <1>4 DEF IInv, ReadsHold, CartHolds, OrdersHold, StockReadHolds,
                            GivenBackHolds, shopVars
  <1>6. CouponHolds(t)'
    <2> SUFFICES ASSUME NEW c \in Coupons, NEW u \in Users,
                        r.kind = "checkout" /\ r.coupon = c /\ r.user = u
                            /\ Coupon(c) \in r.held
                 PROVE  UnderLimit(c, u)'
      BY <1>4 DEF CouponHolds
    <2>1. UnderLimit(c, u)
      BY <1>2 DEF IInv, ReadsHold, CouponHolds
    <2> QED BY <1>3, <2>1 DEF shopVars, UnderLimit, Active, ActiveOf
  <1> QED BY <1>1, <1>5, <1>6, LockStep DEF ReadsHold, IInv

\* With the lock on its user a checkout reads the cart.
LEMMA LockUserStep ==
    ASSUME IInv, NEW t \in Txs, LockUser(t)
    PROVE  IInv'
  <1>1. tx[t] \in TxRow /\ Params(tx[t]) /\ tx[t].kind \in UserKinds /\ cart \in [Users -> Lines]
    BY DEF IInv, TypeOK, ShopTypeOK, LockUser
  <1>2. tx[t].user \in Users
    BY <1>1 DEF Params
  <1> DEFINE l == User(tx[t].user)
             s == [tx[t] EXCEPT !.read = cart[tx[t].user]]
             r == [s EXCEPT !.held = @ \cup {l}]
  <1>3. l \in Locks
    BY <1>2, LockShape
  <1>4. CASE tx[t].kind = "merge"
    <2>1. Lock(t, l, tx[t])
      BY <1>4 DEF LockUser
    <2> HIDE DEF l
    <2>2. \A c \in Coupons : l # Coupon(c)
      BY LockNames DEF l
    <2>3. \A o \in Orders : l # Order(o)
      BY LockNames DEF l
    <2> QED BY <1>3, <1>4, <2>1, <2>2, <2>3, LockOnly DEF StockKinds, CartReaders
  <1>5. CASE tx[t].kind # "merge"
    <2>1. Lock(t, l, s)
      BY <1>5 DEF LockUser
    <2>2. s \in TxRow /\ s.held = tx[t].held /\ Params(s)
      BY <1>1, <1>2 DEF TxRow, Params
    <2>3. /\ r.held = tx[t].held \cup {l} /\ r.kind = tx[t].kind /\ r.user = tx[t].user
          /\ r.coupon = tx[t].coupon /\ r.product = tx[t].product /\ r.read = cart[tx[t].user]
          /\ r.orders = tx[t].orders /\ r.todo = tx[t].todo
      BY <1>1 DEF TxRow
    <2>4. tx' = [tx EXCEPT ![t] = r] /\ UNCHANGED shopVars
      BY <2>1 DEF Lock
    <2>5. tx'[t] = r
      BY <2>4 DEF IInv, TypeOK
    <2>6. /\ \A c \in Coupons : l # Coupon(c)
          /\ \A o \in Orders : l # Order(o)
      BY LockNames
    <2>7. r.kind \notin StockKinds /\ r.kind \notin GiveUps
      BY <1>1, <2>3 DEF UserKinds, CartKinds, StockKinds, GiveUps
    <2> HIDE DEF s, r, l
    <2>8. CartHolds(t)' /\ OrdersHold(t)' /\ StockReadHolds(t)' /\ GivenBackHolds(t)'
      BY <2>3, <2>4, <2>5, <2>6, <2>7 DEF IInv, ReadsHold, CartHolds, OrdersHold,
                                          StockReadHolds, GivenBackHolds, shopVars
    <2>9. CouponHolds(t)'
      <3> SUFFICES ASSUME NEW c \in Coupons, NEW u \in Users,
                          r.kind = "checkout" /\ r.coupon = c /\ r.user = u
                              /\ Coupon(c) \in r.held
                   PROVE  UnderLimit(c, u)'
        BY <2>5 DEF CouponHolds
      <3>1. UnderLimit(c, u)
        BY <2>3, <2>6 DEF IInv, ReadsHold, CouponHolds
      <3> QED BY <2>4, <3>1 DEF shopVars, UnderLimit, Active, ActiveOf
    <2> QED BY <1>3, <2>1, <2>2, <2>8, <2>9, LockStep DEF ReadsHold
  <1> QED BY <1>4, <1>5

\* With the lock on its product a stock change reads the stock.
LEMMA LockProductStep ==
    ASSUME IInv, NEW t \in Txs, NEW p \in Products, LockProduct(t, p)
    PROVE  IInv'
  <1>1. tx[t] \in TxRow /\ Params(tx[t]) /\ stock \in [Products -> Nat]
    BY DEF IInv, TypeOK, ShopTypeOK
  <1> DEFINE l == Product(p)
             s == [tx[t] EXCEPT !.read[p] = stock[p]]
             r == [s EXCEPT !.held = @ \cup {l}]
  <1>2. l \in Locks
    BY LockShape
  <1>3. /\ \A c \in Coupons : l # Coupon(c)
        /\ \A o \in Orders : l # Order(o)
        /\ \A u \in Users : l # User(u)
    BY LockNames
  <1>4. CASE tx[t].kind \notin StockKinds
    <2>1. Lock(t, l, tx[t])
      BY <1>4 DEF LockProduct
    <2>2. tx[t].kind \in CartReaders => l # User(tx[t].user)
      BY LockNames
    <2> HIDE DEF l
    <2> QED BY <1>2, <1>3, <1>4, <2>1, <2>2, LockOnly
  <1>5. CASE tx[t].kind \in StockKinds
    <2>1. Lock(t, l, s)
      BY <1>5 DEF LockProduct
    <2>2. /\ tx[t].read \in [Products -> Nat]
          /\ s.read = [tx[t].read EXCEPT ![p] = stock[p]]
      BY <1>1 DEF TxRow, Lines
    <2>3. s.read \in Lines
      BY <1>1, <2>2 DEF Lines
    <2>4. s \in TxRow /\ s.held = tx[t].held /\ Params(s)
      BY <1>1, <2>3 DEF TxRow, Params
    <2>5. /\ r.held = tx[t].held \cup {l} /\ r.kind = tx[t].kind
          /\ r.product = tx[t].product /\ r.read = [tx[t].read EXCEPT ![p] = stock[p]]
      BY <1>1 DEF TxRow
    <2>6. tx' = [tx EXCEPT ![t] = r] /\ UNCHANGED shopVars
      BY <2>1 DEF Lock
    <2>7. tx'[t] = r
      BY <2>6 DEF IInv, TypeOK
    <2>8. /\ r.kind # "checkout" /\ r.kind \notin CartReaders /\ r.kind \notin GiveUps
          /\ r.product \in Products
      BY <1>1, <1>5, <2>5 DEF StockKinds, GiveUps, Params, CartReaders, UserKinds, CartKinds
    <2>9. \A q \in Products : Product(q) \in r.held => q = p \/ Product(q) \in tx[t].held
      BY <2>5, LockNames
    <2> HIDE DEF s, r, l
    <2>10. CartHolds(t)' /\ CouponHolds(t)' /\ GivenBackHolds(t)'
      BY <2>7, <2>8 DEF CartHolds, CouponHolds, GivenBackHolds
    <2>11. OrdersHold(t)'
      BY <1>3, <2>5, <2>6, <2>7 DEF IInv, ReadsHold, OrdersHold, shopVars
    <2>12. StockReadHolds(t)'
      BY <1>5, <2>2, <2>5, <2>6, <2>7, <2>8, <2>9 DEF IInv, ReadsHold, StockReadHolds, shopVars
    <2> QED BY <1>2, <2>1, <2>4, <2>10, <2>11, <2>12, LockStep DEF ReadsHold
  <1> QED BY <1>4, <1>5

LEMMA ShareProductStep ==
    ASSUME IInv, NEW t \in Txs, NEW p \in Products, ShareProduct(t, p)
    PROVE  IInv'
  <1> DEFINE l == <<"products", p, "share">>
  <1>1. Lock(t, l, tx[t]) /\ l \in Locks
    BY LockShape DEF ShareProduct
  <1>2. /\ \A c \in Coupons : l # Coupon(c)
        /\ \A o \in Orders : l # Order(o)
        /\ l # User(tx[t].user) /\ l # Product(tx[t].product)
    BY LockNames
  <1> HIDE DEF l
  <1> QED BY <1>1, <1>2, LockOnly

LEMMA LockCouponStep ==
    ASSUME IInv, NEW t \in Txs, NEW c \in Coupons, LockCoupon(t, c)
    PROVE  IInv'
  <1>1. UnderLimit(c, tx[t].user) /\ Lock(t, Coupon(c), tx[t]) /\ Coupon(c) \in Locks
    BY LockShape DEF LockCoupon
  <1>2. /\ \A d \in Coupons : Coupon(c) = Coupon(d) => c = d
        /\ \A o \in Orders : Coupon(c) # Order(o)
        /\ Coupon(c) # User(tx[t].user) /\ Coupon(c) # Product(tx[t].product)
    BY LockNames
  <1>3. \A d \in Coupons : Coupon(c) = Coupon(d) => UnderLimit(d, tx[t].user)
    BY <1>1, <1>2
  <1> QED BY <1>1, <1>2, <1>3, LockOnly

LEMMA LockOrderStep ==
    ASSUME IInv, NEW t \in Txs, NEW o \in Orders, LockOrder(t, o)
    PROVE  IInv'
  <1>1. order[o].status = "placed" /\ Lock(t, Order(o), tx[t]) /\ Order(o) \in Locks
    BY LockShape DEF LockOrder
  <1>2. /\ \A q \in Orders : Order(o) = Order(q) => o = q
        /\ \A c \in Coupons : Order(o) # Coupon(c)
        /\ Order(o) # User(tx[t].user) /\ Order(o) # Product(tx[t].product)
    BY LockNames
  <1> QED BY <1>1, <1>2, LockOnly

\* A cancellation writes the mail for an order after it took the order's products.
LEMMA ShareUserStep ==
    ASSUME IInv, NEW t \in Txs, NEW u \in Users, ShareUser(t, u)
    PROVE  IInv'
  <1>1. tx[t] \in TxRow /\ Params(tx[t])
    BY DEF IInv, TypeOK
  <1> DEFINE l == <<"users", u, "share">>
             s == [tx[t] EXCEPT !.todo = @ \ Least(@)]
             r == [s EXCEPT !.held = @ \cup {l}]
  <1>2. /\ l \in Locks
        /\ \A c \in Coupons : l # Coupon(c)
        /\ \A o \in Orders : l # Order(o)
        /\ \A p : l # Product(p)
        /\ \A v : l # User(v)
    BY LockShape, LockNames
  <1>3. Lock(t, l, s) /\ Granted(t, l)
    BY DEF ShareUser, Lock
  <1>4. s \in TxRow /\ s.held = tx[t].held /\ Params(s)
    BY <1>1 DEF TxRow, Params
  <1>5. /\ r.held = tx[t].held \cup {l} /\ r.kind = tx[t].kind /\ r.user = tx[t].user
        /\ r.coupon = tx[t].coupon /\ r.product = tx[t].product /\ r.read = tx[t].read
        /\ r.orders = tx[t].orders /\ r.todo = tx[t].todo \ Least(tx[t].todo)
    BY <1>1 DEF TxRow
  <1>6. tx' = [tx EXCEPT ![t] = r] /\ UNCHANGED shopVars
    BY <1>3 DEF Lock
  <1>7. tx'[t] = r
    BY <1>6 DEF IInv, TypeOK
  <1> HIDE DEF s, r
  <1>8. ASSUME tx[t].kind \in GiveUps
        PROVE  \A o \in Least(tx[t].todo) : \A p \in Products :
                   order[o].items[p] > 0 => Product(p) \in tx[t].held
    <2>1. l \in GiveUpWants(t)
      <3>1. l \in Wants(t)
        BY <1>3 DEF Granted
      <3> HIDE DEF l
      <3> QED BY <3>1, <1>8 DEF Wants, UserKinds, CartKinds, GiveUps
    <2>2. l \notin ProductLock(t, ItemsOf(Least(tx[t].todo)))
      BY <1>2 DEF ProductLock
    <2>3. l \notin {Order(o) : o \in tx[t].orders}
      BY <1>1, <1>2 DEF TxRow
    <2> HIDE DEF l
    <2>4. Unlocked(t, ItemsOf(Least(tx[t].todo))) = {}
      BY <2>1, <2>2, <2>3 DEF GiveUpWants
    <2> QED BY <2>4 DEF Unlocked, ItemsOf, LinesOf
  <1> HIDE DEF l
  <1>9. CartHolds(t)' /\ OrdersHold(t)' /\ StockReadHolds(t)'
    BY <1>2, <1>5, <1>6, <1>7 DEF IInv, ReadsHold, CartHolds, OrdersHold, StockReadHolds, shopVars
  <1>10. CouponHolds(t)'
    <2> SUFFICES ASSUME NEW c \in Coupons, NEW v \in Users,
                        r.kind = "checkout" /\ r.coupon = c /\ r.user = v
                            /\ Coupon(c) \in r.held
                 PROVE  UnderLimit(c, v)'
      BY <1>7 DEF CouponHolds
    <2>1. UnderLimit(c, v)
      BY <1>2, <1>5 DEF IInv, ReadsHold, CouponHolds
    <2> QED BY <1>6, <2>1 DEF shopVars, UnderLimit, Active, ActiveOf
  <1>11. GivenBackHolds(t)'
    <2> SUFFICES ASSUME r.kind \in GiveUps
                 PROVE  /\ \A o \in r.orders : order[o].status # "none"
                        /\ \A o \in r.orders \ r.todo : \A p \in Products :
                               order[o].items[p] > 0 => Product(p) \in r.held
      BY <1>6, <1>7 DEF GivenBackHolds, shopVars
    <2>1. \A o \in r.orders : order[o].status # "none"
      BY <1>5 DEF IInv, ReadsHold, GivenBackHolds
    <2>2. ASSUME NEW o \in r.orders \ r.todo, NEW p \in Products, order[o].items[p] > 0
          PROVE  Product(p) \in r.held
      <3>1. CASE o \in Least(tx[t].todo)
        BY <1>5, <1>8, <2>2, <3>1
      <3>2. CASE o \notin tx[t].todo
        BY <1>5, <2>2, <3>2 DEF IInv, ReadsHold, GivenBackHolds
      <3> QED BY <1>5, <3>1, <3>2
    <2> QED BY <2>1, <2>2
  <1> QED BY <1>2, <1>3, <1>4, <1>9, <1>10, <1>11, LockStep DEF ReadsHold

LEMMA LockSomeStep ==
    ASSUME IInv, NEW t \in Txs, LockSome(t)
    PROVE  IInv'
  BY LockUserStep, LockProductStep, ShareProductStep, LockCouponStep, LockOrderStep,
     ShareUserStep DEF LockSome

-----------------------------------------------------------------------------
(* A transaction ends.                                                     *)

\* A commit changes only what is behind the locks of its transaction: what
\* the others have read under theirs is still so.
LEMMA EndStep ==
    ASSUME IInv, NEW t \in Txs, tx' = [tx EXCEPT ![t] = NoTx], asked' = asked,
           ShopTypeOK', Redemptions',
           \A u \in Users : User(u) \notin tx[t].held => cart'[u] = cart[u],
           \A c \in Coupons, u \in Users :
               Coupon(c) \notin tx[t].held /\ UnderLimit(c, u) => UnderLimit(c, u)',
           \A o \in Orders : Order(o) \notin tx[t].held /\ order[o].status = "placed"
                                 => order'[o].status = "placed",
           \A p \in Products : Product(p) \notin tx[t].held => stock'[p] = stock[p],
           \A o \in Orders : order[o].status # "none" =>
               order'[o].status # "none" /\ order'[o].items = order[o].items
    PROVE  IInv'
  <1>1. tx \in [Txs -> TxRow] /\ \A u \in Txs : Params(tx[u])
    BY DEF IInv, TypeOK
  <1>2. /\ tx' \in [Txs -> TxRow]
        /\ tx'[t] = NoTx
        /\ \A u \in Txs \ {t} : tx'[u] = tx[u]
    BY <1>1, NoTxType
  <1>3. TypeOK'
    BY <1>2 DEF IInv, TypeOK
  <1>4. \A u \in Txs : Params(tx'[u])
    BY <1>2, NoTxType DEF IInv
  <1>5. Alone'
    BY <1>2 DEF IInv, Alone, NoTx
  <1>6. ReadsHold(t)'
    BY <1>2 DEF ReadsHold, CartHolds, CouponHolds, OrdersHold, StockReadHolds,
                GivenBackHolds, NoTx, StockKinds, GiveUps
  <1>7. ASSUME NEW u \in Txs \ {t}
        PROVE  ReadsHold(u)'
    <2>1. tx'[u] = tx[u] /\ tx[u] \in TxRow /\ Params(tx[u])
      BY <1>1, <1>2
    <2>2. \A l \in tx[u].held : l[3] = "update" => l \notin tx[t].held
      BY DEF IInv, Alone
    <2>3. CartHolds(u)'
      BY <2>1, <2>2, LockNames DEF IInv, ReadsHold, CartHolds, CartReaders, Params
    <2>4. CouponHolds(u)'
      <3> SUFFICES ASSUME NEW c \in Coupons, NEW v \in Users,
                          tx[u].kind = "checkout" /\ tx[u].coupon = c /\ tx[u].user = v
                              /\ Coupon(c) \in tx[u].held
                   PROVE  UnderLimit(c, v)'
        BY <2>1 DEF CouponHolds
      <3>1. UnderLimit(c, v)
        BY DEF IInv, ReadsHold, CouponHolds
      <3>2. Coupon(c) \notin tx[t].held
        BY <2>2, LockNames
      <3> QED BY <3>1, <3>2
    <2>5. OrdersHold(u)'
      BY <2>1, <2>2, LockNames DEF IInv, ReadsHold, OrdersHold
    <2>6. StockReadHolds(u)'
      BY <2>1, <2>2, LockNames DEF IInv, ReadsHold, StockReadHolds, Params
    <2>7. GivenBackHolds(u)'
      BY <2>1 DEF IInv, ReadsHold, GivenBackHolds, TxRow
    <2> QED BY <2>3, <2>4, <2>5, <2>6, <2>7 DEF ReadsHold
  <1>8. \A u \in Txs : ReadsHold(u)'
    BY <1>6, <1>7
  <1> QED BY <1>3, <1>4, <1>5, <1>8 DEF IInv

\* A coupon nobody redeems meanwhile, or whose redemptions are given back.
LEMMA FewerUses ==
    ASSUME NEW c, NEW u, IInv, Active(c)' \subseteq Active(c),
           ActiveOf(c, u)' \subseteq ActiveOf(c, u)
    PROVE  /\ Cardinality(Active(c)') <= Cardinality(Active(c))
           /\ Cardinality(ActiveOf(c, u)') <= Cardinality(ActiveOf(c, u))
           /\ Cardinality(Active(c)) \in Nat /\ Cardinality(ActiveOf(c, u)) \in Nat
           /\ Cardinality(Active(c)') \in Nat /\ Cardinality(ActiveOf(c, u)') \in Nat
  <1>1. IsFiniteSet(Active(c)) /\ IsFiniteSet(ActiveOf(c, u))
    <2>1. Active(c) \subseteq Orders /\ ActiveOf(c, u) \subseteq Orders
      BY DEF IInv, TypeOK, ShopTypeOK, Active, ActiveOf
    <2> QED BY <2>1, ShopAssumption, FS_Subset
  <1>2. IsFiniteSet(Active(c)') /\ IsFiniteSet(ActiveOf(c, u)')
    BY <1>1, FS_Subset
  <1> QED BY <1>1, <1>2, FS_Subset, FS_CardinalityType

-----------------------------------------------------------------------------
(* The effects on the shop.                                                *)

LEMMA PlaceEffect ==
    ASSUME ShopTypeOK, Redemptions, NEW o \in Orders, NEW u \in Users, NEW lines \in Lines,
           NEW c \in Coupons \cup {NoCoupon}, InStock(lines), order[o].status = "none",
           Place(o, u, lines, c)
    PROVE  /\ ShopTypeOK' /\ Redemptions'
           /\ \A v \in Users : v # u => cart'[v] = cart[v]
           /\ \A q \in Orders : q # o => order'[q] = order[q]
           /\ order'[o].status = "placed" /\ order'[o].coupon = c /\ order'[o].user = u
           /\ \A p \in Products : lines[p] = 0 => stock'[p] = stock[p]
           /\ redeemed' = redeemed \cup (IF c = NoCoupon THEN {} ELSE {o})
           /\ limit' = limit /\ o \notin redeemed
  <1> DEFINE row == [status |-> "placed", user |-> u, items |-> lines, coupon |-> c]
  <1>1. /\ order' = [order EXCEPT ![o] = row]
        /\ stock' = [p \in Products |-> IF lines[p] > 0 THEN stock[p] - lines[p] ELSE stock[p]]
        /\ redeemed' = redeemed \cup (IF c = NoCoupon THEN {} ELSE {o})
        /\ cart' = [cart EXCEPT ![u] = Empty]
        /\ UNCHANGED <<ledger, merged, limit>>
    BY DEF Place
  <1>2. row \in OrderRow
    BY DEF OrderRow
  <1>3. row.status = "placed" /\ row.coupon = c /\ row.user = u
    OBVIOUS
  <1> HIDE DEF row
  <1>4. order' \in [Orders -> OrderRow] /\ order'[o] = row
    BY <1>1, <1>2 DEF ShopTypeOK
  <1>5. \A q \in Orders : q # o => order'[q] = order[q]
    BY <1>1 DEF ShopTypeOK
  <1>6. \A p \in Products : lines[p] \in Nat /\ stock[p] \in Nat /\ lines[p] <= stock[p]
    BY DEF Lines, ShopTypeOK, InStock
  <1>7. stock' \in [Products -> Nat]
    BY <1>1, <1>6
  <1>8. \A p \in Products : lines[p] = 0 => stock'[p] = stock[p]
    BY <1>1, <1>6
  <1>9. cart' \in [Users -> Lines] /\ \A v \in Users : v # u => cart'[v] = cart[v]
    BY <1>1 DEF ShopTypeOK, Lines, Empty
  <1>10. ShopTypeOK'
    BY <1>1, <1>4, <1>7, <1>9 DEF ShopTypeOK
  <1>11. o \notin redeemed
    BY DEF Redemptions
  <1>12. Redemptions'
    BY <1>1, <1>3, <1>4, <1>5 DEF Redemptions, ShopTypeOK
  <1> QED BY <1>1, <1>3, <1>4, <1>5, <1>8, <1>9, <1>10, <1>11, <1>12

\* A placed order is one more use of its coupon, and of no other.
LEMMA PlaceUses ==
    ASSUME ShopTypeOK, Redemptions, NEW o \in Orders, NEW u \in Users, NEW lines \in Lines,
           NEW c \in Coupons \cup {NoCoupon}, InStock(lines), order[o].status = "none",
           Place(o, u, lines, c), NEW d \in Coupons, NEW v \in Users
    PROVE  /\ Active(d)' = IF d = c THEN Active(d) \cup {o} ELSE Active(d)
           /\ ActiveOf(d, v)' = IF d = c /\ v = u THEN ActiveOf(d, v) \cup {o}
                                                ELSE ActiveOf(d, v)
           /\ o \notin Active(d)
  <1>1. /\ \A q \in Orders : q # o => order'[q] = order[q]
        /\ order'[o].coupon = c /\ order'[o].user = u
        /\ redeemed' = redeemed \cup (IF c = NoCoupon THEN {} ELSE {o})
        /\ o \notin redeemed
    BY PlaceEffect
  <1>2. redeemed \subseteq Orders /\ d # NoCoupon
    BY ShopAssumption DEF ShopTypeOK
  <1>3. Active(d)' = IF d = c THEN Active(d) \cup {o} ELSE Active(d)
    BY <1>1, <1>2 DEF Active
  <1>4. ActiveOf(d, v)' = IF d = c /\ v = u THEN ActiveOf(d, v) \cup {o} ELSE ActiveOf(d, v)
    BY <1>1, <1>2 DEF Active, ActiveOf
  <1> QED BY <1>1, <1>3, <1>4 DEF Active

LEMMA GiveBackEffect ==
    ASSUME ShopTypeOK, Redemptions, NEW S \in SUBSET Orders, GiveBack(S)
    PROVE  /\ ShopTypeOK' /\ Redemptions' /\ cart' = cart
           /\ \A o \in Orders : /\ o \in S => order'[o].status = "cancelled"
                                /\ o \notin S => order'[o].status = order[o].status
                                /\ order'[o].items = order[o].items
           /\ \A p \in Products : (\A o \in S : ~(order[o].items[p] > 0)) => stock'[p] = stock[p]
           /\ limit' = limit
           /\ \A c, u : /\ Active(c)' \subseteq Active(c)
                        /\ ActiveOf(c, u)' \subseteq ActiveOf(c, u)
  <1>1. /\ order' = [o \in Orders |-> IF o \in S THEN [order[o] EXCEPT !.status = "cancelled"]
                                               ELSE order[o]]
        /\ stock' = [p \in Products |->
                        IF \E o \in S : order[o].items[p] > 0
                        THEN stock[p] + PiecesIn(S, p) ELSE stock[p]]
        /\ stock' \in [Products -> Nat]
        /\ redeemed' = redeemed \ S
        /\ UNCHANGED <<ledger, cart, merged, limit>>
    BY DEF GiveBack
  <1>2. order \in [Orders -> OrderRow]
    BY DEF ShopTypeOK
  <1>3. ASSUME NEW o \in Orders
        PROVE  /\ order'[o] \in OrderRow
               /\ order'[o].items = order[o].items
               /\ order'[o].user = order[o].user /\ order'[o].coupon = order[o].coupon
               /\ o \in S => order'[o].status = "cancelled"
               /\ o \notin S => order'[o].status = order[o].status
    BY <1>1, <1>2 DEF OrderRow
  <1>4. order' \in [Orders -> OrderRow]
    BY <1>1, <1>3
  <1>5. ShopTypeOK'
    BY <1>1, <1>4 DEF ShopTypeOK
  <1>6. Redemptions'
    BY <1>1, <1>3 DEF Redemptions, ShopTypeOK
  <1>7. \A p \in Products : (\A o \in S : ~(order[o].items[p] > 0)) => stock'[p] = stock[p]
    BY <1>1
  <1>8. ASSUME NEW c, NEW u
        PROVE  /\ Active(c)' \subseteq Active(c)
               /\ ActiveOf(c, u)' \subseteq ActiveOf(c, u)
    BY <1>1, <1>3 DEF Active, ActiveOf, ShopTypeOK
  <1> QED BY <1>1, <1>3, <1>5, <1>6, <1>7, <1>8

-----------------------------------------------------------------------------
(* The commits.                                                            *)

\* What a checkout has when it commits: its user's cart as it is, what the cart
\* asks for in stock, and a use left of its coupon.
LEMMA CheckoutReady ==
    ASSUME IInv, NEW t \in Txs, NEW o \in Orders, CommitCheckout(t, o)
    PROVE  /\ tx[t].kind = "checkout" /\ tx[t].user \in Users
           /\ tx[t].coupon \in Coupons \cup {NoCoupon}
           /\ tx[t].read \in Lines /\ tx[t].read = cart[tx[t].user]
           /\ tx[t].read # Empty /\ InStock(tx[t].read)
           /\ tx[t].coupon # NoCoupon => UnderLimit(tx[t].coupon, tx[t].user)
           /\ order[o].status = "none"
           /\ Place(o, tx[t].user, tx[t].read, tx[t].coupon)
           /\ User(tx[t].user) \in tx[t].held
           /\ \A p \in LinesOf(tx[t].read) : Product(p) \in tx[t].held
           /\ tx[t].coupon # NoCoupon => Coupon(tx[t].coupon) \in tx[t].held
           /\ tx' = [tx EXCEPT ![t] = NoTx] /\ asked' = asked
  <1>1. /\ tx[t].kind = "checkout" /\ Wants(t) = {}
        /\ tx' = [tx EXCEPT ![t] = NoTx] /\ asked' = asked
        /\ tx[t].read # Empty /\ InStock(tx[t].read)
        /\ order[o].status = "none"
        /\ Place(o, tx[t].user, tx[t].read, tx[t].coupon)
    BY DEF CommitCheckout, End
  <1>2. /\ tx[t] \in TxRow /\ Params(tx[t]) /\ ReadsHold(t)
    BY DEF IInv, TypeOK
  <1>3. /\ tx[t].user \in Users /\ tx[t].coupon \in Coupons \cup {NoCoupon}
        /\ tx[t].read \in Lines
    BY <1>1, <1>2 DEF Params, UserKinds, TxRow
  <1>4. /\ User(tx[t].user) \in tx[t].held
        /\ \A p \in LinesOf(tx[t].read) : Product(p) \in tx[t].held
        /\ tx[t].coupon # NoCoupon => Coupon(tx[t].coupon) \in tx[t].held
    BY <1>1, CheckoutHolds
  <1>5. tx[t].read = cart[tx[t].user]
    BY <1>1, <1>2, <1>4 DEF ReadsHold, CartHolds, CartReaders, UserKinds
  <1>6. tx[t].coupon # NoCoupon => UnderLimit(tx[t].coupon, tx[t].user)
    BY <1>1, <1>2, <1>3, <1>4 DEF ReadsHold, CouponHolds
  <1> QED BY <1>1, <1>3, <1>4, <1>5, <1>6

LEMMA CommitCheckoutStep ==
    ASSUME IInv, NEW t \in Txs, NEW o \in Orders, CommitCheckout(t, o)
    PROVE  IInv'
  <1> DEFINE u == tx[t].user
             c == tx[t].coupon
             lines == tx[t].read
  <1>1. /\ u \in Users /\ c \in Coupons \cup {NoCoupon} /\ lines \in Lines /\ InStock(lines)
        /\ order[o].status = "none" /\ Place(o, u, lines, c)
        /\ User(u) \in tx[t].held
        /\ \A p \in LinesOf(lines) : Product(p) \in tx[t].held
        /\ c # NoCoupon => Coupon(c) \in tx[t].held
        /\ tx' = [tx EXCEPT ![t] = NoTx] /\ asked' = asked
    BY CheckoutReady
  <1>2. ShopTypeOK /\ Redemptions
    BY DEF IInv, TypeOK
  <1> HIDE DEF u, c, lines
  <1>3. /\ ShopTypeOK' /\ Redemptions'
        /\ \A v \in Users : v # u => cart'[v] = cart[v]
        /\ \A q \in Orders : q # o => order'[q] = order[q]
        /\ order'[o].status = "placed"
        /\ \A p \in Products : lines[p] = 0 => stock'[p] = stock[p]
        /\ limit' = limit
    BY <1>1, <1>2, PlaceEffect
  <1>4. \A v \in Users : User(v) \notin tx[t].held => cart'[v] = cart[v]
    BY <1>1, <1>3
  <1>5. \A p \in Products : Product(p) \notin tx[t].held => stock'[p] = stock[p]
    BY <1>1, <1>3 DEF LinesOf, Lines
  <1>6. ASSUME NEW d \in Coupons, NEW v \in Users, Coupon(d) \notin tx[t].held, UnderLimit(d, v)
        PROVE  UnderLimit(d, v)'
    <2>1. d # c /\ d # NoCoupon
      BY <1>1, <1>6, ShopAssumption
    <2>2. Active(d)' = Active(d) /\ ActiveOf(d, v)' = ActiveOf(d, v)
      BY <1>1, <1>2, <2>1, PlaceUses
    <2> QED BY <1>3, <1>6, <2>2 DEF UnderLimit
  <1> QED BY <1>1, <1>3, <1>4, <1>5, <1>6, EndStep

LEMMA GiveUpReady ==
    ASSUME IInv, NEW t \in Txs, CommitGiveUp(t)
    PROVE  /\ tx[t].orders \in SUBSET Orders /\ GiveBack(tx[t].orders)
           /\ \A o \in tx[t].orders : /\ Order(o) \in tx[t].held
                                      /\ order[o].status = "placed"
           /\ \A o \in tx[t].orders : \A p \in Products :
                  order[o].items[p] > 0 => Product(p) \in tx[t].held
           /\ tx' = [tx EXCEPT ![t] = NoTx] /\ asked' = asked
  <1>1. /\ tx[t].kind \in GiveUps /\ Wants(t) = {} /\ GiveBack(tx[t].orders)
        /\ tx' = [tx EXCEPT ![t] = NoTx] /\ asked' = asked
    BY DEF CommitGiveUp, End
  <1>2. tx[t] \in TxRow /\ ReadsHold(t)
    BY DEF IInv, TypeOK
  <1>3. tx[t].orders \in SUBSET Orders
    BY <1>2 DEF TxRow
  <1>4. (\A o \in tx[t].orders : Order(o) \in tx[t].held) /\ tx[t].todo = {}
    BY <1>1, GiveUpHolds
  <1> QED BY <1>1, <1>2, <1>3, <1>4 DEF ReadsHold, OrdersHold, GivenBackHolds

LEMMA CommitGiveUpStep ==
    ASSUME IInv, NEW t \in Txs, CommitGiveUp(t)
    PROVE  IInv'
  <1> DEFINE S == tx[t].orders
  <1>1. /\ S \in SUBSET Orders /\ GiveBack(S)
        /\ \A o \in S : Order(o) \in tx[t].held
        /\ \A o \in S : \A p \in Products :
               order[o].items[p] > 0 => Product(p) \in tx[t].held
        /\ tx' = [tx EXCEPT ![t] = NoTx] /\ asked' = asked
    BY GiveUpReady
  <1>2. ShopTypeOK /\ Redemptions
    BY DEF IInv, TypeOK
  <1> HIDE DEF S
  <1>3. /\ ShopTypeOK' /\ Redemptions' /\ cart' = cart
        /\ \A o \in Orders : /\ o \in S => order'[o].status = "cancelled"
                             /\ o \notin S => order'[o].status = order[o].status
                             /\ order'[o].items = order[o].items
        /\ \A p \in Products : (\A o \in S : ~(order[o].items[p] > 0)) => stock'[p] = stock[p]
        /\ limit' = limit
        /\ \A c, u : /\ Active(c)' \subseteq Active(c)
                     /\ ActiveOf(c, u)' \subseteq ActiveOf(c, u)
    BY <1>1, <1>2, GiveBackEffect
  <1>4. ASSUME NEW c \in Coupons, NEW u \in Users, UnderLimit(c, u)
        PROVE  UnderLimit(c, u)'
    <2>1. limit[c].total \in Nat /\ limit[c].perUser \in Nat
      BY <1>2, ShopAssumption DEF ShopTypeOK
    <2>2. /\ Cardinality(Active(c)') <= Cardinality(Active(c))
          /\ Cardinality(ActiveOf(c, u)') <= Cardinality(ActiveOf(c, u))
          /\ Cardinality(Active(c)) \in Nat /\ Cardinality(ActiveOf(c, u)) \in Nat
          /\ Cardinality(Active(c)') \in Nat /\ Cardinality(ActiveOf(c, u)') \in Nat
      BY <1>3, FewerUses
    <2> QED BY <1>3, <1>4, <2>1, <2>2 DEF UnderLimit
  <1>5. \A o \in Orders : Order(o) \notin tx[t].held /\ order[o].status = "placed"
                              => order'[o].status = "placed"
    BY <1>1, <1>3
  <1>6. \A p \in Products : Product(p) \notin tx[t].held => stock'[p] = stock[p]
    BY <1>1, <1>3
  <1>7. ASSUME NEW o \in Orders, order[o].status # "none"
        PROVE  order'[o].status # "none" /\ order'[o].items = order[o].items
    <2>1. /\ o \in S => order'[o].status = "cancelled"
          /\ o \notin S => order'[o].status = order[o].status
          /\ order'[o].items = order[o].items
      BY <1>3, Zenon
    <2> QED BY <1>7, <2>1
  <1> QED BY <1>1, <1>3, <1>4, <1>5, <1>6, <1>7, EndStep

\* The commits of the cart and of the stock touch neither orders nor coupons.
LEMMA OrdersAsTheyWere ==
    ASSUME IInv, UNCHANGED <<order, redeemed, limit>>
    PROVE  /\ Redemptions'
           /\ \A c \in Coupons, u \in Users : UnderLimit(c, u) => UnderLimit(c, u)'
           /\ \A c, u : Active(c)' = Active(c) /\ ActiveOf(c, u)' = ActiveOf(c, u)
  <1>1. \A c, u : Active(c)' = Active(c) /\ ActiveOf(c, u)' = ActiveOf(c, u)
    BY DEF Active, ActiveOf
  <1> QED BY <1>1 DEF IInv, Redemptions, UnderLimit

LEMMA CartStep ==
    ASSUME IInv, NEW t \in Txs, tx' = [tx EXCEPT ![t] = NoTx], asked' = asked,
           tx[t].kind \in UserKinds, Wants(t) = {},
           UNCHANGED <<stock, ledger, order, redeemed, limit>>,
           merged' \in SUBSET (Users \X Keys), cart' \in [Users -> Lines],
           \A u \in Users : u # tx[t].user => cart'[u] = cart[u]
    PROVE  IInv'
  <1>1. ShopTypeOK'
    BY DEF IInv, TypeOK, ShopTypeOK
  <1>2. User(tx[t].user) \in tx[t].held
    BY UserHolds
  <1> QED BY <1>1, <1>2, OrdersAsTheyWere, EndStep

LEMMA CommitMergeStep ==
    ASSUME IInv, NEW t \in Txs, CommitMerge(t)
    PROVE  IInv'
  <1> DEFINE u == tx[t].user
             k == tx[t].key
  <1>1. /\ tx[t].kind = "merge" /\ Wants(t) = {}
        /\ tx' = [tx EXCEPT ![t] = NoTx] /\ asked' = asked
        /\ MergeInto(u, k)
    BY DEF CommitMerge, End
  <1>2. u \in Users /\ k \in Keys /\ tx[t].kind \in UserKinds
    BY <1>1 DEF IInv, Params, UserKinds
  <1>3. cart \in [Users -> Lines] /\ stock \in [Products -> Nat]
        /\ merged \in SUBSET (Users \X Keys)
    BY DEF IInv, TypeOK, ShopTypeOK
  <1> HIDE DEF u, k
  <1>4. WithWish(cart[u], k) \in Lines
    <2>1. \A p \in Products : cart[u][p] \in Nat /\ Wish[k][p] \in Nat /\ stock[p] \in Nat
      BY <1>2, <1>3, ShopAssumption DEF Lines
    <2> QED BY <2>1 DEF WithWish, Lines
  <1>5. /\ cart' = [cart EXCEPT ![u] = WithWish(cart[u], k)]
        /\ merged' = merged \cup {<<u, k>>}
        /\ UNCHANGED <<stock, ledger, order, redeemed, limit>>
    BY <1>1 DEF MergeInto
  <1>6. cart' \in [Users -> Lines] /\ \A v \in Users : v # u => cart'[v] = cart[v]
    BY <1>3, <1>4, <1>5
  <1>7. merged' \in SUBSET (Users \X Keys)
    BY <1>2, <1>3, <1>5
  <1> QED BY <1>1, <1>2, <1>5, <1>6, <1>7, CartStep DEF u

LEMMA CartReady ==
    ASSUME IInv, NEW t \in Txs, CommitCart(t)
    PROVE  /\ tx[t].user \in Users /\ tx[t].product \in Products
           /\ tx[t].kind \in UserKinds /\ Wants(t) = {}
           /\ tx' = [tx EXCEPT ![t] = NoTx] /\ asked' = asked
           /\ \E n \in Nat : SetLine(tx[t].user, tx[t].product, n)
  <1>1. /\ tx[t].kind \in CartKinds /\ Wants(t) = {}
        /\ tx' = [tx EXCEPT ![t] = NoTx] /\ asked' = asked
        /\ SetLine(tx[t].user, tx[t].product,
                   IF tx[t].kind = "add" THEN tx[t].read[tx[t].product] + tx[t].amount
                                         ELSE tx[t].amount)
    BY DEF CommitCart, End
  <1>2. tx[t].user \in Users /\ tx[t].product \in Products /\ tx[t].kind \in UserKinds
    BY <1>1 DEF IInv, Params, UserKinds
  <1>3. tx[t].amount \in Nat /\ tx[t].read[tx[t].product] \in Nat
    BY <1>1, <1>2 DEF IInv, Params, TypeOK, TxRow, Lines
  <1> QED BY <1>1, <1>2, <1>3

LEMMA CommitCartStep ==
    ASSUME IInv, NEW t \in Txs, CommitCart(t)
    PROVE  IInv'
  <1>1. PICK n \in Nat : SetLine(tx[t].user, tx[t].product, n)
    BY CartReady
  <1>2. /\ tx[t].user \in Users /\ tx[t].product \in Products
        /\ tx[t].kind \in UserKinds /\ Wants(t) = {}
        /\ tx' = [tx EXCEPT ![t] = NoTx] /\ asked' = asked
    BY CartReady
  <1>3. cart \in [Users -> Lines] /\ merged \in SUBSET (Users \X Keys)
    BY DEF IInv, TypeOK, ShopTypeOK
  <1>4. /\ cart' = [cart EXCEPT ![tx[t].user][tx[t].product] = n]
        /\ UNCHANGED <<stock, ledger, merged, order, redeemed, limit>>
    BY <1>1 DEF SetLine
  <1>5. cart' \in [Users -> Lines]
    BY <1>2, <1>3, <1>4 DEF Lines
  <1>6. \A u \in Users : u # tx[t].user => cart'[u] = cart[u]
    BY <1>2, <1>3, <1>4
  <1> QED BY <1>2, <1>3, <1>4, <1>5, <1>6, CartStep

LEMMA StockReady ==
    ASSUME IInv, NEW t \in Txs, CommitStock(t)
    PROVE  /\ tx[t].product \in Products /\ Product(tx[t].product) \in tx[t].held
           /\ tx' = [tx EXCEPT ![t] = NoTx] /\ asked' = asked
           /\ \E n \in Nat : Correct(tx[t].product, stock[tx[t].product], n)
  <1>1. /\ tx[t].kind \in StockKinds /\ Wants(t) = {}
        /\ tx' = [tx EXCEPT ![t] = NoTx] /\ asked' = asked
        /\ \E n \in Nat : Correct(tx[t].product, tx[t].read[tx[t].product], n)
    BY CheckoutAssumption DEF CommitStock, End
  <1>2. tx[t].product \in Products
    BY <1>1 DEF IInv, Params
  <1>3. Product(tx[t].product) \in tx[t].held
    BY <1>1, StockHolds
  <1>4. tx[t].read[tx[t].product] = stock[tx[t].product]
    BY <1>1, <1>3 DEF IInv, ReadsHold, StockReadHolds
  <1> QED BY <1>1, <1>2, <1>3, <1>4

LEMMA CommitStockStep ==
    ASSUME IInv, NEW t \in Txs, CommitStock(t)
    PROVE  IInv'
  <1> DEFINE p == tx[t].product
  <1>1. /\ p \in Products /\ Product(p) \in tx[t].held
        /\ tx' = [tx EXCEPT ![t] = NoTx] /\ asked' = asked
    BY StockReady
  <1>2. PICK n \in Nat : Correct(p, stock[p], n)
    BY StockReady
  <1> HIDE DEF p
  <1>3. /\ stock' = [stock EXCEPT ![p] = n]
        /\ ledger' = [ledger EXCEPT ![p] = @ + (n - stock[p])]
        /\ UNCHANGED <<cart, merged, order, redeemed, limit>>
    BY <1>2 DEF Correct
  <1>4. stock \in [Products -> Nat] /\ ledger \in [Products -> Int]
    BY DEF IInv, TypeOK, ShopTypeOK
  <1>5. /\ stock' \in [Products -> Nat] /\ ledger' \in [Products -> Int]
        /\ \A q \in Products : q # p => stock'[q] = stock[q]
    BY <1>1, <1>3, <1>4
  <1>6. ShopTypeOK'
    BY <1>3, <1>5 DEF IInv, TypeOK, ShopTypeOK
  <1> QED BY <1>1, <1>3, <1>5, <1>6, OrdersAsTheyWere, EndStep

LEMMA RollbackStep ==
    ASSUME IInv, NEW t \in Txs, Rollback(t)
    PROVE  IInv'
  <1>1. tx' = [tx EXCEPT ![t] = NoTx] /\ UNCHANGED <<shopVars, asked>>
    BY DEF Rollback
  <1>2. ShopTypeOK'
    BY <1>1 DEF IInv, TypeOK, ShopTypeOK, shopVars
  <1> QED BY <1>1, <1>2, OrdersAsTheyWere, EndStep DEF shopVars

\* The admin's update of a coupon waits for the checkouts that hold its row.
LEMMA UpdateCouponStep ==
    ASSUME IInv, NEW c \in Coupons, NEW l \in Limits, UpdateCoupon(c, l)
    PROVE  IInv'
  <1>1. /\ \A t \in Txs : Coupon(c) \notin tx[t].held
        /\ limit' = [limit EXCEPT ![c] = l]
        /\ UNCHANGED <<stock, ledger, cart, merged, order, redeemed, tx, asked>>
    BY DEF UpdateCoupon, SetLimit
  <1>2. limit \in [Coupons -> Limits]
    BY DEF IInv, TypeOK, ShopTypeOK
  <1>3. limit' \in [Coupons -> Limits] /\ \A d \in Coupons : d # c => limit'[d] = limit[d]
    BY <1>1, <1>2
  <1>4. TypeOK'
    BY <1>1, <1>3 DEF IInv, TypeOK, ShopTypeOK
  <1>5. \A t \in Txs : Params(tx'[t])
    BY <1>1 DEF IInv
  <1>6. Alone' /\ Redemptions'
    BY <1>1 DEF IInv, Alone, Redemptions
  <1>7. ASSUME NEW t \in Txs
        PROVE  ReadsHold(t)'
    <2>1. ReadsHold(t)
      BY DEF IInv
    <2>2. CartHolds(t)' /\ OrdersHold(t)' /\ StockReadHolds(t)' /\ GivenBackHolds(t)'
      BY <1>1, <2>1 DEF ReadsHold, CartHolds, OrdersHold, StockReadHolds, GivenBackHolds
    <2>3. CouponHolds(t)'
      <3> SUFFICES ASSUME NEW d \in Coupons, NEW u \in Users,
                          tx[t].kind = "checkout" /\ tx[t].coupon = d /\ tx[t].user = u
                              /\ Coupon(d) \in tx[t].held
                   PROVE  UnderLimit(d, u)'
        BY <1>1 DEF CouponHolds
      <3>1. UnderLimit(d, u) /\ d # c
        BY <1>1, <2>1 DEF ReadsHold, CouponHolds
      <3> QED BY <1>1, <1>3, <3>1 DEF UnderLimit, Active, ActiveOf
    <2> QED BY <2>2, <2>3 DEF ReadsHold
  <1> QED BY <1>4, <1>5, <1>6, <1>7 DEF IInv

LEMMA EndSomeStep ==
    ASSUME IInv, NEW t \in Txs, EndSome(t)
    PROVE  IInv'
  BY CommitCheckoutStep, CommitMergeStep, CommitCartStep, CommitGiveUpStep, CommitStockStep,
     RollbackStep DEF EndSome

-----------------------------------------------------------------------------
(* The invariant.                                                          *)

LEMMA InitIInv == Init => IInv
  <1> SUFFICES ASSUME Init
               PROVE  IInv
    OBVIOUS
  <1>1. /\ stock = InitialStock /\ ledger = [p \in Products |-> 0] /\ cart \in InitialCarts
        /\ merged = {} /\ redeemed = {} /\ limit \in [Coupons -> Limits]
        /\ order = [o \in Orders |-> [status |-> "none", user |-> NoUser,
                                      items |-> Empty, coupon |-> NoCoupon]]
        /\ tx = [t \in Txs |-> NoTx] /\ asked = cart
    BY DEF Init, ShopInit
  <1>2. cart \in [Users -> Lines]
    BY <1>1, ShopAssumption DEF Lines
  <1>3. ledger \in [Products -> Int]
    BY <1>1
  <1>4. order \in [Orders -> OrderRow]
    BY <1>1 DEF OrderRow, Empty, Lines
  <1>5. ShopTypeOK
    BY <1>1, <1>2, <1>3, <1>4, ShopAssumption DEF ShopTypeOK
  <1>6. tx \in [Txs -> TxRow] /\ \A t \in Txs : tx[t] = NoTx /\ Params(tx[t])
    BY <1>1, NoTxType
  <1>7. TypeOK
    BY <1>1, <1>2, <1>5, <1>6 DEF TypeOK
  <1>8. Alone /\ \A t \in Txs : ReadsHold(t)
    BY <1>6 DEF Alone, ReadsHold, CartHolds, CouponHolds, OrdersHold, StockReadHolds,
                GivenBackHolds, NoTx, StockKinds, GiveUps
  <1>9. Redemptions
    BY <1>1 DEF Redemptions
  <1> QED BY <1>6, <1>7, <1>8, <1>9 DEF IInv

LEMMA StutterIInv ==
    ASSUME IInv, UNCHANGED vars
    PROVE  IInv'
  <1>1. UNCHANGED shopVars /\ tx' = tx /\ asked' = asked
    BY DEF vars
  <1>2. \A t \in Txs : ReadsHold(t)'
    BY <1>1, OthersKeep
  <1> QED BY <1>1, <1>2 DEF IInv, TypeOK, ShopTypeOK, Alone, Redemptions, shopVars

LEMMA NextIInv == IInv /\ [Next]_vars => IInv'
  <1> SUFFICES ASSUME IInv, [Next]_vars
               PROVE  IInv'
    OBVIOUS
  <1>1. ASSUME NEW t \in Txs, BeginSome(t) \/ LockSome(t) \/ EndSome(t)
        PROVE  IInv'
    BY <1>1, BeginSomeStep, LockSomeStep, EndSomeStep
  <1>2. ASSUME NEW c \in Coupons, NEW l \in Limits, UpdateCoupon(c, l)
        PROVE  IInv'
    BY <1>2, UpdateCouponStep
  <1> QED BY <1>1, <1>2, StutterIInv DEF Next

\* What a transaction has read under a lock is so until it commits, whatever
\* the other transactions do: the invariant the theorems rest on.
THEOREM Invariance == Spec => []IInv
  BY InitIInv, NextIInv, PTL DEF Spec

\* Every table and every transaction keeps its type: no stock and no cart line
\* falls below zero, though checkouts, cancellations and the admin all write it.
THEOREM TypeCorrect == Spec => []TypeOK
  <1>1. IInv => TypeOK
    BY DEF IInv
  <1> QED BY <1>1, Invariance, PTL

-----------------------------------------------------------------------------
(* Coupons.                                                                *)

LEMMA AddOne ==
    ASSUME NEW S, IsFiniteSet(S), NEW x
    PROVE  /\ Cardinality(S) \in Nat /\ Cardinality(S \cup {x}) \in Nat
           /\ Cardinality(S \cup {x}) <= Cardinality(S) + 1
  <1>1. IsFiniteSet(S \cup {x})
    BY FS_AddElement
  <1>2. Cardinality(S) \in Nat /\ Cardinality(S \cup {x}) \in Nat
    BY <1>1, FS_CardinalityType
  <1>3. Cardinality(S \cup {x}) = IF x \in S THEN Cardinality(S) ELSE Cardinality(S) + 1
    BY FS_AddElement
  <1> QED BY <1>2, <1>3

LEMMA OneMoreUse ==
    ASSUME IInv, NEW t \in Txs, NEW o \in Orders, CommitCheckout(t, o)
    PROVE  RedeemedWithinLimits
  <1> DEFINE w == tx[t].user
             d == tx[t].coupon
             lines == tx[t].read
  <1>1. /\ w \in Users /\ d \in Coupons \cup {NoCoupon} /\ lines \in Lines /\ InStock(lines)
        /\ order[o].status = "none" /\ Place(o, w, lines, d)
        /\ d # NoCoupon => UnderLimit(d, w)
    BY CheckoutReady
  <1>2. ShopTypeOK /\ Redemptions
    BY DEF IInv, TypeOK
  <1> HIDE DEF w, d, lines
  <1>3. limit' = limit
    BY <1>1, <1>2, PlaceEffect
  <1>4. ASSUME NEW c \in Coupons, NEW u \in Users
        PROVE  /\ Active(c)' = IF c = d THEN Active(c) \cup {o} ELSE Active(c)
               /\ ActiveOf(c, u)' = IF c = d /\ u = w THEN ActiveOf(c, u) \cup {o}
                                                    ELSE ActiveOf(c, u)
               /\ o \notin Active(c)
    BY <1>1, <1>2, PlaceUses
  <1>5. ASSUME NEW c \in Coupons, NEW u \in Users
        PROVE  IsFiniteSet(Active(c)) /\ IsFiniteSet(ActiveOf(c, u))
    <2>1. Active(c) \subseteq Orders /\ ActiveOf(c, u) \subseteq Orders
      BY <1>2 DEF ShopTypeOK, Active, ActiveOf
    <2> QED BY <2>1, ShopAssumption, FS_Subset
  <1>6. \A c \in Coupons : limit[c].total \in Nat /\ limit[c].perUser \in Nat
    BY <1>2, ShopAssumption DEF ShopTypeOK
  <1>7. ASSUME NEW c \in Coupons, Cardinality(Active(c)) < Cardinality(Active(c)')
        PROVE  c = d /\ Cardinality(Active(c)') <= limit'[c].total
    <2>1. c = d
      <3> SUFFICES ASSUME c # d PROVE FALSE
        OBVIOUS
      <3>1. Active(c)' = Active(c)
        BY <1>1, <1>4
      <3>2. Cardinality(Active(c)) \in Nat
        BY <1>1, <1>5, AddOne
      <3> QED BY <1>7, <3>1, <3>2
    <2>2. Active(c)' = Active(c) \cup {o}
      BY <1>1, <1>4, <2>1
    <2>3. Cardinality(Active(c)) < limit[c].total
      BY <1>1, <2>1, ShopAssumption DEF UnderLimit
    <2>4. /\ Cardinality(Active(c)) \in Nat /\ Cardinality(Active(c)') \in Nat
          /\ Cardinality(Active(c)') <= Cardinality(Active(c)) + 1
      BY <1>1, <1>5, <2>2, AddOne
    <2>5. limit'[c].total \in Nat /\ limit'[c].total = limit[c].total
      BY <1>3, <1>6
    <2> QED BY <2>1, <2>3, <2>4, <2>5
  <1>8. ASSUME NEW c \in Coupons, c = d, NEW u \in Users,
               Cardinality(ActiveOf(c, u)) < Cardinality(ActiveOf(c, u)')
        PROVE  Cardinality(ActiveOf(c, u)') <= limit'[c].perUser
    <2>1. u = w
      <3> SUFFICES ASSUME u # w PROVE FALSE
        OBVIOUS
      <3>1. ActiveOf(c, u)' = ActiveOf(c, u)
        BY <1>4
      <3>2. Cardinality(ActiveOf(c, u)) \in Nat
        BY <1>5, AddOne
      <3> QED BY <1>8, <3>1, <3>2
    <2>2. ActiveOf(c, u)' = ActiveOf(c, u) \cup {o}
      BY <1>4, <1>8, <2>1
    <2>3. Cardinality(ActiveOf(c, u)) < limit[c].perUser
      BY <1>1, <1>8, <2>1, ShopAssumption DEF UnderLimit
    <2>4. /\ Cardinality(ActiveOf(c, u)) \in Nat /\ Cardinality(ActiveOf(c, u)') \in Nat
          /\ Cardinality(ActiveOf(c, u)') <= Cardinality(ActiveOf(c, u)) + 1
      BY <1>5, <2>2, AddOne
    <2>5. limit'[c].perUser \in Nat /\ limit'[c].perUser = limit[c].perUser
      BY <1>3, <1>6
    <2> QED BY <2>3, <2>4, <2>5
  <1> QED BY <1>7, <1>8 DEF RedeemedWithinLimits

\* Every other step leaves the uses of a coupon as they are, or gives some back.
LEMMA NoMoreUses ==
    ASSUME IInv, \A c, u : Active(c)' \subseteq Active(c) /\ ActiveOf(c, u)' \subseteq ActiveOf(c, u)
    PROVE  RedeemedWithinLimits
  <1>1. ASSUME NEW c \in Coupons
        PROVE  ~(Cardinality(Active(c)) < Cardinality(Active(c))')
    <2>1. /\ Cardinality(Active(c)') <= Cardinality(Active(c))
          /\ Cardinality(Active(c)) \in Nat /\ Cardinality(Active(c)') \in Nat
      BY FewerUses
    <2> QED BY <2>1
  <1> QED BY <1>1 DEF RedeemedWithinLimits

LEMMA BeginKeeps ==
    ASSUME NEW t \in Txs, BeginSome(t)
    PROVE  UNCHANGED shopVars
  BY DEF BeginSome, BeginCheckout, BeginMerge, BeginCart, BeginCancel, BeginExpire, BeginStock,
         Begin

LEMMA LockKeeps ==
    ASSUME NEW t \in Txs, LockSome(t)
    PROVE  UNCHANGED shopVars
  <1>1. ASSUME NEW l, NEW s, Lock(t, l, s)
        PROVE  UNCHANGED shopVars
    BY <1>1 DEF Lock
  <1>2. CASE LockUser(t)
    BY <1>1, <1>2 DEF LockUser
  <1>3. ASSUME NEW p \in Products, LockProduct(t, p)
        PROVE  UNCHANGED shopVars
    BY <1>1, <1>3 DEF LockProduct
  <1>4. ASSUME NEW p \in Products, ShareProduct(t, p)
        PROVE  UNCHANGED shopVars
    BY <1>1, <1>4 DEF ShareProduct
  <1>5. ASSUME NEW c \in Coupons, LockCoupon(t, c)
        PROVE  UNCHANGED shopVars
    BY <1>1, <1>5 DEF LockCoupon
  <1>6. ASSUME NEW o \in Orders, LockOrder(t, o)
        PROVE  UNCHANGED shopVars
    BY <1>1, <1>6 DEF LockOrder
  <1>7. ASSUME NEW u \in Users, ShareUser(t, u)
        PROVE  UNCHANGED shopVars
    BY <1>1, <1>7 DEF ShareUser
  <1> QED BY <1>2, <1>3, <1>4, <1>5, <1>6, <1>7 DEF LockSome

\* x is the row of t with what the statement that takes l read.
Takes(t, l, x) ==
    LET s == tx[t] IN
    /\ Lock(t, l, x) /\ l \in Locks
    /\ x \in TxRow /\ x.held = s.held /\ x.kind = s.kind /\ x.user = s.user
    /\ x.key = s.key /\ x.coupon = s.coupon /\ x.product = s.product /\ x.amount = s.amount
    /\ s.kind \in UserKinds => l = User(s.user) \/ x.read = s.read

LEMMA LockTakes ==
    ASSUME IInv, NEW t \in Txs, LockSome(t)
    PROVE  \E l, x : Takes(t, l, x)
  <1> DEFINE s == tx[t]
  <1>0. s \in TxRow
    BY DEF IInv, TypeOK
  <1>1. CASE LockUser(t)
    <2> DEFINE l == User(s.user)
               x == IF s.kind = "merge" THEN s ELSE [s EXCEPT !.read = cart[s.user]]
    <2>1. s.user \in Users /\ cart \in [Users -> Lines]
      BY <1>1 DEF LockUser, IInv, TypeOK, ShopTypeOK, Params
    <2>2. x \in TxRow /\ x.held = s.held /\ x.kind = s.kind /\ x.user = s.user
          /\ x.key = s.key /\ x.coupon = s.coupon /\ x.product = s.product /\ x.amount = s.amount
      BY <1>0, <2>1 DEF TxRow
    <2>3. Lock(t, l, x) /\ l \in Locks
      BY <1>1, <2>1, LockShape DEF LockUser
    <2> HIDE DEF x
    <2> QED BY <2>2, <2>3 DEF Takes
  <1>2. ASSUME NEW p \in Products, LockProduct(t, p)
        PROVE  \E l, x : Takes(t, l, x)
    <2> DEFINE x == IF s.kind \notin StockKinds THEN s ELSE [s EXCEPT !.read[p] = stock[p]]
    <2>1. stock[p] \in Nat /\ s.read \in [Products -> Nat]
      BY <1>0 DEF IInv, TypeOK, ShopTypeOK, TxRow, Lines
    <2>2. [s.read EXCEPT ![p] = stock[p]] \in Lines
      BY <2>1 DEF Lines
    <2>3. x \in TxRow /\ x.held = s.held /\ x.kind = s.kind /\ x.user = s.user
          /\ x.key = s.key /\ x.coupon = s.coupon /\ x.product = s.product /\ x.amount = s.amount
      BY <1>0, <2>2 DEF TxRow
    <2>4. s.kind \in UserKinds => x.read = s.read
      BY DEF UserKinds, CartKinds, StockKinds
    <2>5. Lock(t, Product(p), x) /\ Product(p) \in Locks
      BY <1>2, LockShape DEF LockProduct
    <2> HIDE DEF x
    <2> QED BY <2>3, <2>4, <2>5 DEF Takes
  <1>3. ASSUME NEW p \in Products, ShareProduct(t, p)
        PROVE  \E l, x : Takes(t, l, x)
    BY <1>0, <1>3, LockShape DEF ShareProduct, Takes
  <1>4. ASSUME NEW c \in Coupons, LockCoupon(t, c)
        PROVE  \E l, x : Takes(t, l, x)
    BY <1>0, <1>4, LockShape DEF LockCoupon, Takes
  <1>5. ASSUME NEW o \in Orders, LockOrder(t, o)
        PROVE  \E l, x : Takes(t, l, x)
    BY <1>0, <1>5, LockShape DEF LockOrder, Takes
  <1>6. ASSUME NEW u \in Users, ShareUser(t, u)
        PROVE  \E l, x : Takes(t, l, x)
    <2> DEFINE x == [s EXCEPT !.todo = @ \ Least(@)]
               l == <<"users", u, "share">>
    <2>1. x \in TxRow /\ x.held = s.held /\ x.kind = s.kind /\ x.user = s.user
          /\ x.key = s.key /\ x.coupon = s.coupon /\ x.product = s.product /\ x.amount = s.amount
          /\ x.read = s.read
      BY <1>0 DEF TxRow
    <2>2. Lock(t, l, x) /\ l \in Locks
      BY <1>6, LockShape DEF ShareUser
    <2> HIDE DEF x, l
    <2> QED BY <2>1, <2>2 DEF Takes
  <1> QED BY <1>1, <1>2, <1>3, <1>4, <1>5, <1>6 DEF LockSome

LEMMA UsesStep ==
    ASSUME IInv, [Next]_vars
    PROVE  RedeemedWithinLimits
  <1>1. ASSUME UNCHANGED <<order, redeemed, limit>>
        PROVE  RedeemedWithinLimits
    BY <1>1, OrdersAsTheyWere, NoMoreUses
  <1>2. ASSUME UNCHANGED shopVars
        PROVE  RedeemedWithinLimits
    BY <1>1, <1>2 DEF shopVars
  <1>3. CASE UNCHANGED vars
    BY <1>2, <1>3 DEF vars
  <1>4. ASSUME NEW t \in Txs, BeginSome(t) \/ LockSome(t)
        PROVE  RedeemedWithinLimits
    BY <1>2, <1>4, BeginKeeps, LockKeeps
  <1>5. ASSUME NEW t \in Txs, NEW o \in Orders, CommitCheckout(t, o)
        PROVE  RedeemedWithinLimits
    BY <1>5, OneMoreUse
  <1>6. ASSUME NEW t \in Txs, CommitMerge(t)
        PROVE  RedeemedWithinLimits
    BY <1>1, <1>6 DEF CommitMerge, MergeInto
  <1>7. ASSUME NEW t \in Txs, CommitCart(t)
        PROVE  RedeemedWithinLimits
    <2> PICK n \in Nat : SetLine(tx[t].user, tx[t].product, n)
      BY <1>7, CartReady
    <2> QED BY <1>1 DEF SetLine
  <1>8. ASSUME NEW t \in Txs, CommitGiveUp(t)
        PROVE  RedeemedWithinLimits
    <2> DEFINE S == tx[t].orders
    <2>1. S \in SUBSET Orders /\ GiveBack(S) /\ ShopTypeOK /\ Redemptions
      BY <1>8, GiveUpReady DEF IInv, TypeOK
    <2> HIDE DEF S
    <2>2. \A c, u : Active(c)' \subseteq Active(c) /\ ActiveOf(c, u)' \subseteq ActiveOf(c, u)
      BY <2>1, GiveBackEffect
    <2> QED BY <2>2, NoMoreUses
  <1>9. ASSUME NEW t \in Txs, CommitStock(t)
        PROVE  RedeemedWithinLimits
    <2> PICK n \in Nat : Correct(tx[t].product, stock[tx[t].product], n)
      BY <1>9, StockReady
    <2> QED BY <1>1 DEF Correct
  <1>10. ASSUME NEW t \in Txs, Rollback(t)
         PROVE  RedeemedWithinLimits
    BY <1>2, <1>10 DEF Rollback
  <1>11. ASSUME NEW c \in Coupons, NEW l \in Limits, UpdateCoupon(c, l)
         PROVE  RedeemedWithinLimits
    <2>1. UNCHANGED <<order, redeemed>>
      BY <1>11 DEF UpdateCoupon, SetLimit
    <2>2. \A d, u : Active(d)' = Active(d) /\ ActiveOf(d, u)' = ActiveOf(d, u)
      BY <2>1 DEF Active, ActiveOf
    <2> QED BY <2>2, NoMoreUses
  <1> QED BY <1>3, <1>4, <1>5, <1>6, <1>7, <1>8, <1>9, <1>10, <1>11 DEF Next, EndSome

\* No checkout takes a coupon beyond the limits in force, in total or for one
\* customer: Eligible counts under the coupon's lock, which is kept to the commit.
THEOREM CouponLimits == Spec => LimitsKept
  <1>1. IInv /\ [Next]_vars => [RedeemedWithinLimits]_vars
    BY UsesStep
  <1> QED BY <1>1, Invariance, PTL DEF Spec, LimitsKept

-----------------------------------------------------------------------------
(* The transactions implement the requests.                                *)

LEMMA ShopStep ==
    ASSUME IInv, [Next]_vars
    PROVE  [ShopNext]_shopVars
  <1>1. CASE UNCHANGED vars
    BY <1>1 DEF vars
  <1>2. ASSUME NEW t \in Txs, BeginSome(t) \/ LockSome(t)
        PROVE  UNCHANGED shopVars
    BY <1>2, BeginKeeps, LockKeeps
  <1>3. ASSUME NEW t \in Txs, NEW o \in Orders, CommitCheckout(t, o)
        PROVE  ShopNext
    <2> DEFINE u == tx[t].user
               c == tx[t].coupon
    <2>1. /\ u \in Users /\ c \in Coupons \cup {NoCoupon} /\ tx[t].read = cart[u]
          /\ tx[t].read # Empty /\ InStock(tx[t].read)
          /\ c # NoCoupon => UnderLimit(c, u)
          /\ order[o].status = "none" /\ Place(o, u, tx[t].read, c)
      BY <1>3, CheckoutReady
    <2> HIDE DEF u, c
    <2>2. Buy(u, c)
      BY <2>1 DEF Buy
    <2> QED BY <2>1, <2>2 DEF ShopNext
  <1>4. ASSUME NEW t \in Txs, CommitMerge(t)
        PROVE  ShopNext
    <2>1. tx[t].user \in Users /\ tx[t].key \in Keys
      BY <1>4 DEF CommitMerge, End, IInv, Params, UserKinds
    <2>2. MergeOnce(tx[t].user, tx[t].key)
      BY <1>4 DEF CommitMerge, MergeOnce
    <2> QED BY <2>1, <2>2 DEF ShopNext
  <1>5. ASSUME NEW t \in Txs, CommitCart(t)
        PROVE  ShopNext
    <2> DEFINE u == tx[t].user
               p == tx[t].product
    <2>1. PICK n \in Nat : SetLine(u, p, n)
      BY <1>5, CartReady
    <2>2. u \in Users /\ p \in Products
      BY <1>5, CartReady
    <2> HIDE DEF u, p
    <2>3. cart'[u][p] = n
      BY <2>1, <2>2 DEF SetLine, IInv, TypeOK, ShopTypeOK, Lines
    <2>4. ChangeLine(u, p)
      BY <2>1, <2>3 DEF ChangeLine
    <2> QED BY <2>2, <2>4 DEF ShopNext
  <1>6. ASSUME NEW t \in Txs, CommitGiveUp(t)
        PROVE  ShopNext
    <2>1. tx[t].orders \in SUBSET Orders /\ GiveUp(tx[t].orders)
      BY <1>6, GiveUpReady DEF GiveUp
    <2> QED BY <2>1 DEF ShopNext
  <1>7. ASSUME NEW t \in Txs, CommitStock(t)
        PROVE  ShopNext
    <2> DEFINE p == tx[t].product
    <2>1. PICK n \in Nat : Correct(p, stock[p], n)
      BY <1>7, StockReady
    <2>2. p \in Products
      BY <1>7, StockReady
    <2> HIDE DEF p
    <2>3. stock'[p] = n
      BY <2>1, <2>2 DEF Correct, IInv, TypeOK, ShopTypeOK
    <2>4. CorrectStock(p)
      BY <2>1, <2>3 DEF CorrectStock
    <2> QED BY <2>2, <2>4 DEF ShopNext
  <1>8. ASSUME NEW t \in Txs, Rollback(t)
        PROVE  UNCHANGED shopVars
    BY <1>8 DEF Rollback
  <1>9. ASSUME NEW c \in Coupons, NEW l \in Limits, UpdateCoupon(c, l)
        PROVE  ShopNext
    BY <1>9 DEF UpdateCoupon, ShopNext
  <1> QED
    BY <1>1, <1>2, <1>3, <1>4, <1>5, <1>6, <1>7, <1>8, <1>9 DEF Next, EndSome

\* The transactions, however their locks interleave, do what the same requests
\* do one after the other: checkouts, merges, cart changes, cancellations,
\* expiries, stock corrections and coupon changes are serializable.
THEOREM Serializable == Spec => Serial
  <1>1. Init => ShopInit
    BY DEF Init
  <1>2. IInv /\ [Next]_vars => [ShopNext]_shopVars
    BY ShopStep
  <1> QED BY <1>1, <1>2, Invariance, PTL DEF Spec, Serial, ShopSpec

-----------------------------------------------------------------------------
(* Customers never wait for each other in a circle.                        *)
(*                                                                         *)
(* The locks of a customer's transaction come in one order: its user, then *)
(* products in ascending order, then its coupon.  In a circle of           *)
(* transactions that wait nobody waits for a coupon, since who has one     *)
(* wants nothing more; the one that waits for the highest product waits    *)
(* for one that wants a higher product; and who is waited for as a user    *)
(* has its own user and does not wait for one.                             *)

Share(p) == <<"products", p, "share">>

\* The products whose rows a merge or a checkout locks, and those still to be locked.
LinesToLock(s) == IF s.kind = "merge" THEN LinesOf(Wish[s.key]) ELSE LinesOf(s.read)

Left(s) == {p \in LinesToLock(s) : Product(p) \notin s.held}

\* The locks of a customer's transaction came in the order of CreateFromCart.
InOrder(s) ==
    s.kind \in UserKinds =>
        /\ \A l \in s.held :
              \/ l = User(s.user)
              \/ s.kind = "add" /\ l = Share(s.product)
              \/ s.kind \in {"merge", "checkout"} /\ \E p \in Products : l = Product(p)
              \/ s.kind = "checkout" /\ l = Coupon(s.coupon)
        /\ s.held # {} => User(s.user) \in s.held
        /\ \A p \in Products : Product(p) \in s.held => \A q \in Left(s) : p < q
        /\ \A c \in Coupons : Coupon(c) \in s.held => Left(s) = {}

AllInOrder == \A t \in Txs : InOrder(tx[t])

\* What a customer's transaction may want next, by what it has.
Wanted(s, l) ==
    \/ User(s.user) \notin s.held /\ l = User(s.user)
    \/ /\ User(s.user) \in s.held /\ s.kind \in {"merge", "checkout"}
       /\ \E p \in Left(s) : l = Product(p) /\ \A q \in Left(s) : p <= q
    \/ /\ User(s.user) \in s.held /\ s.kind = "checkout" /\ Left(s) = {}
       /\ s.coupon \in Coupons /\ l = Coupon(s.coupon) /\ l \notin s.held
    \/ /\ User(s.user) \in s.held /\ s.kind = "add"
       /\ l = Share(s.product) /\ l \notin s.held

LEMMA ShareNames ==
    /\ \A x, y : (Share(x) = Share(y) => x = y) /\ Share(x)[3] = "share"
    /\ \A x, y : User(x) # Share(y) /\ Product(x) # Share(y)
                 /\ Coupon(x) # Share(y) /\ Order(x) # Share(y)
    /\ \A x, y : Share(x) # <<"users", y, "share">>
  BY DEF Share, User, Product, Coupon, Order

\* Tables and ids of the locks.
LEMMA LockParts ==
    /\ \A x : User(x)[1] = "users" /\ User(x)[2] = x
    /\ \A x : Product(x)[1] = "products" /\ Product(x)[2] = x
    /\ \A x : Coupon(x)[1] = "coupons" /\ Coupon(x)[2] = x
    /\ \A x : Share(x)[1] = "products" /\ Share(x)[2] = x
  BY DEF Share, User, Product, Coupon

LEMMA LeftProducts ==
    ASSUME NEW s \in TxRow
    PROVE  Left(s) \subseteq Products
  BY DEF Left, LinesToLock, LinesOf

LEMMA WantsInOrder ==
    ASSUME IInv, NEW t \in Txs, tx[t].kind \in UserKinds, NEW l \in Wants(t)
    PROVE  Wanted(tx[t], l)
  <1> DEFINE s == tx[t]
  <1>1. s \in TxRow
    BY DEF IInv, TypeOK
  <1>2. ASSUME NEW S, l \in ProductLock(t, S), S = LinesToLock(s)
        PROVE  \E p \in Left(s) : l = Product(p) /\ \A q \in Left(s) : p <= q
    <2>1. Unlocked(t, S) = Left(s)
      BY <1>2 DEF Unlocked, Left
    <2> QED BY <1>2, <2>1 DEF ProductLock, Least
  <1>3. CASE User(s.user) \notin s.held
    BY <1>3 DEF Wants, Wanted
  <1>4. CASE User(s.user) \in s.held /\ s.kind = "checkout"
    <2>1. l \in CheckoutWants(t)
      BY <1>4 DEF Wants
    <2>2. LinesToLock(s) = LinesOf(s.read) /\ Unlocked(t, LinesOf(s.read)) = Left(s)
      BY <1>4 DEF LinesToLock, Unlocked, Left
    <2>3. CASE Left(s) # {}
      <3>1. l \in ProductLock(t, LinesOf(s.read))
        BY <2>1, <2>2, <2>3 DEF CheckoutWants
      <3> QED BY <1>2, <1>4, <2>2, <3>1 DEF Wanted
    <2>4. CASE Left(s) = {}
      <3>1. l \in {Coupon(c) : c \in {s.coupon} \ {NoCoupon}} \ s.held
        BY <2>1, <2>2, <2>4 DEF CheckoutWants
      <3>2. s.coupon \in Coupons /\ l = Coupon(s.coupon) /\ l \notin s.held
        BY <1>1, <3>1 DEF TxRow
      <3> QED BY <1>4, <2>4, <3>2 DEF Wanted
    <2> QED BY <2>3, <2>4
  <1>5. CASE User(s.user) \in s.held /\ s.kind = "merge"
    <2>1. l \in MergeWants(t)
      BY <1>5 DEF Wants
    <2>2. l \in ProductLock(t, LinesOf(Wish[s.key]))
      BY <2>1 DEF MergeWants
    <2>3. LinesToLock(s) = LinesOf(Wish[s.key])
      BY <1>5 DEF LinesToLock
    <2> QED BY <1>2, <1>5, <2>2, <2>3 DEF Wanted
  <1>6. CASE User(s.user) \in s.held /\ s.kind \in CartKinds
    <2>1. l \in CartWants(t)
      BY <1>6 DEF Wants, CartKinds
    <2>2. s.kind = "add" /\ l = Share(s.product) /\ l \notin s.held
      BY <2>1 DEF CartWants, Share
    <2> QED BY <1>6, <2>2 DEF Wanted
  <1> QED BY <1>3, <1>4, <1>5, <1>6 DEF UserKinds

-----------------------------------------------------------------------------
(* The order of the locks is an invariant.                                 *)

\* r is s with one lock more, the one that s wanted; a lock on the user comes first, and
\* the cart may be read with it.
LEMMA LockInOrder ==
    ASSUME NEW s \in TxRow, NEW r \in TxRow, NEW l, InOrder(s),
           s.kind \in UserKinds => Wanted(s, l),
           r.held = s.held \cup {l}, r.kind = s.kind, r.user = s.user, r.key = s.key,
           r.coupon = s.coupon, r.product = s.product,
           r.read = s.read \/ l = User(s.user)
    PROVE  InOrder(r)
  <1> SUFFICES ASSUME r.kind \in UserKinds
               PROVE  InOrder(r)
    BY DEF InOrder
  <1>1. CASE User(s.user) \notin s.held /\ l = User(s.user)
    <2>1. s.held = {}
      BY <1>1 DEF InOrder
    <2>2. r.held = {User(r.user)}
      BY <1>1, <2>1
    <2> QED BY <2>2, LockNames DEF InOrder
  <1>2. ASSUME User(s.user) \in s.held, s.kind \in {"merge", "checkout"},
               NEW p \in Left(s), l = Product(p), \A q \in Left(s) : p <= q
        PROVE  InOrder(r)
    <2>1. r.read = s.read /\ p \in Products /\ Left(s) \subseteq Products
      BY <1>2, LockNames, LeftProducts
    <2>2. Left(r) = Left(s) \ {p}
      BY <1>2, <2>1, LockNames DEF Left, LinesToLock
    <2>3. Products \subseteq Nat
      BY ShopAssumption
    <2>4. \A q \in Left(r) : p < q
      BY <1>2, <2>1, <2>2, <2>3
    <2>5. ASSUME NEW q \in Products, Product(q) \in r.held
          PROVE  \A x \in Left(r) : q < x
      <3>1. CASE q = p
        BY <2>4, <3>1
      <3>2. CASE q # p
        <4>1. Product(q) \in s.held
          BY <1>2, <2>5, <3>2, LockNames
        <4> QED BY <2>2, <4>1 DEF InOrder
      <3> QED BY <3>1, <3>2
    <2>6. \A c \in Coupons : Coupon(c) \notin r.held
      <3> SUFFICES ASSUME NEW c \in Coupons, Coupon(c) \in r.held
                   PROVE  FALSE
        OBVIOUS
      <3>1. Coupon(c) \in s.held
        BY <1>2, LockNames
      <3> QED BY <1>2, <3>1 DEF InOrder
    <2>7. \A m \in r.held :
              \/ m = User(r.user)
              \/ r.kind = "add" /\ m = Share(r.product)
              \/ r.kind \in {"merge", "checkout"} /\ \E x \in Products : m = Product(x)
              \/ r.kind = "checkout" /\ m = Coupon(r.coupon)
      BY <1>2, <2>1 DEF InOrder
    <2>8. User(r.user) \in r.held
      BY <1>2
    <2> QED BY <2>5, <2>6, <2>7, <2>8 DEF InOrder
  <1>3. ASSUME User(s.user) \in s.held, s.kind = "checkout", Left(s) = {},
               l = Coupon(s.coupon)
        PROVE  InOrder(r)
    <2>1. r.read = s.read
      BY <1>3, LockNames
    <2>2. Left(r) = {}
      BY <1>3, <2>1 DEF Left, LinesToLock
    <2>3. \A m \in r.held :
              \/ m = User(r.user)
              \/ r.kind = "add" /\ m = Share(r.product)
              \/ r.kind \in {"merge", "checkout"} /\ \E x \in Products : m = Product(x)
              \/ r.kind = "checkout" /\ m = Coupon(r.coupon)
      BY <1>3 DEF InOrder
    <2> QED BY <1>3, <2>2, <2>3 DEF InOrder
  <1>4. ASSUME User(s.user) \in s.held, s.kind = "add", l = Share(s.product)
        PROVE  InOrder(r)
    <2>1. \A m \in r.held : m = User(r.user) \/ m = Share(r.product)
      BY <1>4 DEF InOrder
    <2>2. \A p : Product(p) \notin r.held /\ Coupon(p) \notin r.held
      BY <2>1, LockNames, ShareNames
    <2> QED BY <1>4, <2>1, <2>2 DEF InOrder
  <1> QED BY <1>1, <1>2, <1>3, <1>4 DEF Wanted

\* A transaction that starts, or has ended, has no lock of this kind.
LEMMA NothingHeldInOrder ==
    ASSUME NEW s, s.held = {} \/ s.kind \notin UserKinds
    PROVE  InOrder(s)
  BY DEF InOrder

LEMMA RowInOrder ==
    ASSUME IInv, AllInOrder, NEW t \in Txs, NEW s, tx' = [tx EXCEPT ![t] = s], InOrder(s)
    PROVE  AllInOrder'
  <1>1. \A u \in Txs : InOrder(tx'[u])
    BY DEF IInv, TypeOK, AllInOrder
  <1> QED BY <1>1 DEF AllInOrder

LEMMA BeginInOrder ==
    ASSUME IInv, AllInOrder, NEW t \in Txs, BeginSome(t)
    PROVE  AllInOrder'
  <1> DEFINE Starts == \E s : /\ tx' = [tx EXCEPT ![t] = s]
                              /\ s.held = {} \/ s.kind \notin UserKinds
  <1>1. Starts
    <2>1. ASSUME NEW s, Begin(t, s), s.held = {} \/ s.kind \notin UserKinds
          PROVE  Starts
      BY <2>1 DEF Begin
    <2>2. NoTx.held = {}
      BY DEF NoTx
    <2>3. ASSUME NEW u, NEW c, BeginCheckout(t, u, c)
          PROVE  Starts
      BY <2>1, <2>3 DEF BeginCheckout, NoTx
    <2>4. ASSUME NEW u, NEW k, BeginMerge(t, u, k)
          PROVE  Starts
      BY <2>1, <2>4 DEF BeginMerge, NoTx
    <2>5. ASSUME NEW kind, NEW u, NEW p, NEW n, BeginCart(t, kind, u, p, n)
          PROVE  Starts
      BY <2>1, <2>5 DEF BeginCart, NoTx
    <2>6. ASSUME NEW o, BeginCancel(t, o)
          PROVE  Starts
      BY <2>1, <2>6 DEF BeginCancel, NoTx
    <2>7. ASSUME NEW S, BeginExpire(t, S)
          PROVE  Starts
      BY <2>1, <2>7 DEF BeginExpire, NoTx, UserKinds, CartKinds
    <2>8. ASSUME NEW kind, NEW u, NEW p, NEW n, BeginStock(t, kind, u, p, n)
          PROVE  Starts
      BY <2>1, <2>8 DEF BeginStock, NoTx
    <2> QED BY <2>3, <2>4, <2>5, <2>6, <2>7, <2>8 DEF BeginSome
  <1> QED BY <1>1, RowInOrder, NothingHeldInOrder

LEMMA LockKeepsOrder ==
    ASSUME IInv, AllInOrder, NEW t \in Txs, LockSome(t)
    PROVE  AllInOrder'
  <1> DEFINE s == tx[t]
  <1>1. s \in TxRow /\ InOrder(s)
    BY DEF IInv, TypeOK, AllInOrder
  <1>2. \E l, x : Takes(t, l, x)
    BY LockTakes
  <1>3. PICK l, x : Takes(t, l, x)
    BY <1>2
  <1> DEFINE r == [x EXCEPT !.held = @ \cup {l}]
  <1>4. /\ r \in TxRow /\ r.held = s.held \cup {l} /\ r.kind = s.kind /\ r.user = s.user
        /\ r.key = s.key /\ r.coupon = s.coupon /\ r.product = s.product /\ r.read = x.read
    BY <1>3 DEF TxRow, Takes
  <1>5. tx' = [tx EXCEPT ![t] = r] /\ l \in Wants(t)
    BY <1>3 DEF Takes, Lock, Granted
  <1>6. s.kind \in UserKinds => Wanted(s, l)
    BY <1>5, WantsInOrder
  <1>7. s.kind \in UserKinds => r.read = s.read \/ l = User(s.user)
    BY <1>3, <1>4 DEF Takes
  <1> HIDE DEF r
  <1>8. InOrder(r)
    <2>1. CASE s.kind \in UserKinds
      <3> HIDE DEF s
      <3> QED BY <1>1, <1>4, <1>6, <1>7, <2>1, LockInOrder
    <2>2. CASE s.kind \notin UserKinds
      BY <1>4, <2>2, NothingHeldInOrder
    <2> QED BY <2>1, <2>2
  <1> QED BY <1>5, <1>8, RowInOrder

LEMMA EndKeepsOrder ==
    ASSUME IInv, AllInOrder, NEW t \in Txs, EndSome(t)
    PROVE  AllInOrder'
  <1>1. tx' = [tx EXCEPT ![t] = NoTx]
    BY DEF EndSome, CommitCheckout, CommitMerge, CommitCart, CommitGiveUp, CommitStock,
           Rollback, End
  <1>2. InOrder(NoTx)
    BY NothingHeldInOrder DEF NoTx
  <1> QED BY <1>1, <1>2, RowInOrder

LEMMA NextInOrder ==
    ASSUME IInv, AllInOrder, [Next]_vars
    PROVE  AllInOrder'
  <1>1. ASSUME tx' = tx
        PROVE  AllInOrder'
    BY <1>1 DEF AllInOrder
  <1>2. ASSUME NEW c \in Coupons, NEW l \in Limits, UpdateCoupon(c, l)
        PROVE  AllInOrder'
    BY <1>1, <1>2 DEF UpdateCoupon
  <1> QED BY <1>1, <1>2, BeginInOrder, LockKeepsOrder, EndKeepsOrder DEF Next, vars

LEMMA InitInOrder == Init => AllInOrder
  BY NothingHeldInOrder DEF Init, AllInOrder, NoTx

-----------------------------------------------------------------------------
(* No circle.                                                              *)

LEMMA LargestNat ==
    ASSUME NEW S \in SUBSET Nat, IsFiniteSet(S), S # {}
    PROVE  \E n \in S : \A m \in S : m <= n
  <1> DEFINE C == {T \in SUBSET S : T # {} /\ \A n \in T : \E m \in T : ~(m <= n)}
  <1> SUFFICES ASSUME C # {}
               PROVE  FALSE
    OBVIOUS
  <1>1. \A T \in C : IsFiniteSet(T)
    BY FS_Subset
  <1>2. PICK T \in C : \A x \in T : T \ {x} \notin C
    <2> HIDE DEF C
    <2> QED BY <1>1, SmallestSet
  <1>3. PICK x \in T : TRUE
    OBVIOUS
  <1>4. T \ {x} \in SUBSET S /\ T \in SUBSET Nat
    OBVIOUS
  <1>5. CASE T \ {x} = {}
    <2>1. \A m \in T : m = x
      BY <1>5
    <2> QED BY <1>4, <2>1
  <1>6. CASE T \ {x} # {}
    <2>1. PICK y \in T \ {x} : \A m \in T \ {x} : m <= y
      BY <1>2, <1>4, <1>6
    <2>2. CASE x <= y
      BY <2>1, <2>2
    <2>3. CASE ~(x <= y)
      <3>1. \A m \in T : m <= x
        BY <1>4, <2>1, <2>3
      <3> QED BY <3>1
    <2> QED BY <2>2, <2>3
  <1> QED BY <1>5, <1>6

\* What a customer's transaction waits for when another one has it.
Awaited(t, u, l) ==
    l \in Wants(t) /\ \E m \in tx[u].held : Blocks(l, m)

LEMMA NobodyWaitsForACoupon ==
    ASSUME IInv, AllInOrder, NEW t \in Txs, NEW u \in Txs, tx[u].kind \in UserKinds,
           NEW c \in Coupons, Awaited(t, u, Coupon(c))
    PROVE  Wants(u) = {}
  <1> DEFINE s == tx[u]
  <1>1. InOrder(s) /\ s \in TxRow
    BY DEF AllInOrder, IInv, TypeOK
  <1>2. PICK m \in s.held : m[1] = "coupons" /\ m[2] = c
    BY LockParts DEF Awaited, Blocks
  <1>3. s.kind = "checkout" /\ m = Coupon(s.coupon)
    BY <1>1, <1>2, LockParts DEF InOrder
  <1>4. s.coupon = c
    BY <1>2, <1>3, LockParts
  <1>5. User(s.user) \in s.held /\ Left(s) = {}
    BY <1>1, <1>3, <1>4 DEF InOrder
  <1>6. ASSUME NEW l \in Wants(u)
        PROVE  FALSE
    <2>1. Wanted(s, l)
      BY <1>6, WantsInOrder
    <2> QED BY <1>3, <1>5, <2>1 DEF Wanted
  <1> QED BY <1>6

\* Who has a product that is waited for, and waits itself, wants a higher one.
LEMMA HigherProduct ==
    ASSUME IInv, AllInOrder, NEW t \in Txs, NEW u \in Txs,
           tx[u].kind \in UserKinds, NEW p \in Products, NEW l, l = Product(p) \/ l = Share(p),
           Awaited(t, u, l), NEW k \in Wants(u)
    PROVE  \/ \E q \in Products : p < q /\ k = Product(q)
           \/ \E c \in Coupons : k = Coupon(c)
  <1> DEFINE s == tx[u]
  <1>1. InOrder(s) /\ s \in TxRow /\ s.kind \in UserKinds
    BY DEF AllInOrder, IInv, TypeOK
  <1>2. PICK m \in s.held : m[1] = "products" /\ m[2] = p
    BY LockParts DEF Awaited, Blocks
  <1>3. \/ s.kind = "add" /\ m = Share(s.product)
        \/ s.kind \in {"merge", "checkout"} /\ m = Product(p)
    BY <1>1, <1>2, LockParts DEF InOrder
  <1>4. User(s.user) \in s.held /\ Wanted(s, k)
    BY <1>1, <1>2, WantsInOrder DEF InOrder
  <1> HIDE DEF s
  <1>5. CASE s.kind = "add" /\ m = Share(s.product)
    BY <1>4, <1>5 DEF Wanted
  <1>6. CASE s.kind \in {"merge", "checkout"} /\ m = Product(p)
    <2>1. \A q \in Left(s) : p < q /\ q \in Products
      BY <1>1, <1>2, <1>6, LeftProducts DEF InOrder
    <2> QED BY <1>4, <1>6, <2>1 DEF Wanted
  <1> QED BY <1>3, <1>5, <1>6

\* Who is waited for as a user does not wait for a user.
LEMMA OwnUserFirst ==
    ASSUME IInv, AllInOrder, NEW t \in Txs, NEW u \in Txs, tx[u].kind \in UserKinds,
           NEW x, Awaited(t, u, User(x)), NEW y
    PROVE  User(y) \notin Wants(u)
  <1> DEFINE s == tx[u]
  <1>1. InOrder(s)
    BY DEF AllInOrder
  <1>2. s.held # {}
    BY DEF Awaited
  <1>3. User(s.user) \in s.held
    BY <1>1, <1>2 DEF InOrder
  <1> SUFFICES ASSUME User(y) \in Wants(u)
               PROVE  FALSE
    OBVIOUS
  <1>4. Wanted(s, User(y))
    BY WantsInOrder
  <1> HIDE DEF s
  <1> QED BY <1>3, <1>4, LockNames, ShareNames DEF Wanted

LEMMA NoCircle ==
    ASSUME IInv, AllInOrder
    PROVE  BuyersNeverDeadlock
  <1> SUFFICES ASSUME NEW S \in SUBSET {t \in Txs : tx[t].kind \in UserKinds}, S # {},
                      \A t \in S : \E u \in S \ {t} : \E l : Awaited(t, u, l)
               PROVE  FALSE
    BY DEF BuyersNeverDeadlock, WaitInCircle, WaitsFor, Awaited
  <1>1. \A t \in S : t \in Txs /\ tx[t].kind \in UserKinds /\ Wants(t) # {}
    BY DEF Awaited
  <1> DEFINE Awaits == {p \in Products : \E t, u \in S :
                             Awaited(t, u, Product(p)) \/ Awaited(t, u, Share(p))}
  <1>2. ASSUME NEW t \in S, NEW u \in S, NEW l, Awaited(t, u, l)
        PROVE  \/ \E p \in Awaits : l = Product(p) \/ l = Share(p)
               \/ l = User(tx[t].user)
    <2>1. Wanted(tx[t], l)
      BY <1>1, <1>2, WantsInOrder DEF Awaited
    <2>2. \A c \in Coupons : l # Coupon(c)
      BY <1>1, <1>2, NobodyWaitsForACoupon
    <2>3. Left(tx[t]) \subseteq Products
      BY <1>1, LeftProducts DEF IInv, TypeOK
    <2>4. tx[t].kind = "add" => tx[t].product \in Products
      BY <1>1 DEF IInv, Params, CartKinds
    <2>5. \/ l = User(tx[t].user)
          \/ \E p \in Products : l = Product(p) \/ l = Share(p)
      BY <1>1, <2>1, <2>2, <2>3, <2>4 DEF Wanted
    <2> QED BY <1>2, <2>5
  <1>3. CASE Awaits # {}
    <2>1. Awaits \in SUBSET Nat /\ IsFiniteSet(Awaits)
      BY ShopAssumption, FS_Subset
    <2>2. PICK p \in Awaits : \A q \in Awaits : q <= p
      <3> HIDE DEF Awaits
      <3> QED BY <1>3, <2>1, LargestNat
    <2>3. PICK t \in S, u \in S : Awaited(t, u, Product(p)) \/ Awaited(t, u, Share(p))
      BY <2>2
    <2>v. PICK v \in S : \E k : Awaited(u, v, k)
      OBVIOUS
    <2>4. PICK k : Awaited(u, v, k)
      BY <2>v
    <2>5. \A c \in Coupons : k # Coupon(c)
      BY <1>1, <2>4, NobodyWaitsForACoupon
    <2>6. PICK q \in Products : p < q /\ k = Product(q)
      <3>1. k \in Wants(u) /\ p \in Products
        BY <2>2, <2>4 DEF Awaited
      <3> QED BY <1>1, <2>3, <2>5, <3>1, HigherProduct
    <2>7. q \in Awaits
      BY <2>4, <2>6
    <2>8. p \in Nat /\ q \in Nat
      BY <2>1, <2>2, <2>7
    <2> QED BY <2>2, <2>6, <2>7, <2>8
  <1>4. CASE Awaits = {}
    <2>u. PICK t \in S, u \in S : \E l : Awaited(t, u, l)
      OBVIOUS
    <2>1. PICK l : Awaited(t, u, l)
      BY <2>u
    <2>v. PICK v \in S : \E k : Awaited(u, v, k)
      OBVIOUS
    <2>2. PICK k : Awaited(u, v, k)
      BY <2>v
    <2>3. l = User(tx[t].user) /\ k = User(tx[u].user)
      BY <1>2, <1>4, <2>1, <2>2
    <2>4. k \in Wants(u)
      BY <2>2 DEF Awaited
    <2> QED BY <1>1, <2>1, <2>3, <2>4, OwnUserFirst
  <1> QED BY <1>3, <1>4

\* Customers who fill their carts, merge guest carts and buy never wait for each
\* other in a circle, however many of them there are and whatever they buy.
THEOREM NoDeadlockOfBuyers == Spec => []BuyersNeverDeadlock
  <1>1. IInv /\ AllInOrder /\ [Next]_vars => AllInOrder'
    BY NextInOrder
  <1>2. IInv /\ AllInOrder => BuyersNeverDeadlock
    BY NoCircle
  <1> QED BY <1>1, <1>2, InitInOrder, Invariance, PTL DEF Spec

-----------------------------------------------------------------------------
(* No piece is lost and no piece is made: what the shop holds, what placed *)
(* orders hold and what the admin has entered always add up.  The          *)
(* transactions do what the requests of Shop do at one instant each        *)
(* (ShopStep); so the sums are followed here from request to request,      *)
(* where no lock and no half-done transaction is seen.                     *)


-----------------------------------------------------------------------------
(* Sums of a function over a finite set: what SumFunctionOnSet of the      *)
(* community modules gives for no element, one more and one less.          *)
(*                                                                         *)
(* The library defines a sum by recursion over the subsets, taking some    *)
(* element out of each.  Its induction principles take an operator as a    *)
(* parameter; here induction is a smallest counterexample, which exists    *)
(* because the natural numbers are well-founded (SmallestSet).             *)

Taken(s) == CHOOSE x \in s : TRUE

LEMMA TakenIsIn == \A s : s # {} => Taken(s) \in s
  BY DEF Taken

\* g gives every set of D its sum.
Table(g, f, D) ==
    g = [s \in D |-> IF s = {} THEN 0 ELSE f[Taken(s)] + g[s \ {Taken(s)}]]

LEMMA TableExists ==
    ASSUME NEW S, IsFiniteSet(S), NEW f
    PROVE  \E g : Table(g, f, SUBSET S)
  <1> DEFINE UpTo(n) == {s \in SUBSET S : Cardinality(s) <= n}
             Bad == {n \in Nat : ~ \E g : Table(g, f, UpTo(n))}
  <1>1. \A s \in SUBSET S : IsFiniteSet(s) /\ Cardinality(s) \in Nat
                            /\ Cardinality(s) <= Cardinality(S)
    BY FS_Subset, FS_CardinalityType
  <1>2. Bad = {}
    <2> SUFFICES ASSUME Bad # {}
                 PROVE  FALSE
      OBVIOUS
    <2>1. PICK n \in Bad : \A m \in Bad : n <= m
      <3>1. Bad \in SUBSET Nat
        OBVIOUS
      <3> HIDE DEF Bad
      <3> QED BY <3>1, SmallestNat
    <2>2. CASE n = 0
      <3> DEFINE h == [s \in UpTo(0) |-> 0]
      <3>1. \A s \in UpTo(0) : s = {}
        <4>1. \A s \in UpTo(0) : Cardinality(s) = 0 /\ IsFiniteSet(s)
          BY <1>1
        <4> QED BY <4>1, FS_EmptySet
      <3>2. Table(h, f, UpTo(0))
        <4> HIDE DEF UpTo
        <4> QED BY <3>1 DEF Table
      <3> HIDE DEF h
      <3> QED BY <2>2, <3>2
    <2>3. CASE n # 0
      <3>1. n \in Nat /\ n - 1 \in Nat /\ ~(n <= n - 1)
        BY <2>3
      <3>2. PICK g : Table(g, f, UpTo(n - 1))
        BY <2>1, <3>1
      <3> DEFINE h == [s \in UpTo(n) |-> IF s = {} THEN 0 ELSE f[Taken(s)] + g[s \ {Taken(s)}]]
      <3>3. \A s \in UpTo(n - 1) : s \in UpTo(n)
        BY <1>1, <3>1
      <3>4. \A s \in UpTo(n - 1) : h[s] = g[s]
        <4> HIDE DEF UpTo
        <4> QED BY <3>2, <3>3 DEF Table
      <3>5. \A s \in UpTo(n) : s # {} => s \ {Taken(s)} \in UpTo(n - 1)
        <4> SUFFICES ASSUME NEW s \in UpTo(n), s # {}
                     PROVE  s \ {Taken(s)} \in UpTo(n - 1)
          OBVIOUS
        <4>1. Cardinality(s \ {Taken(s)}) = Cardinality(s) - 1
          BY <1>1, TakenIsIn, FS_RemoveElement
        <4> QED BY <1>1, <3>1, <4>1
      <3>6. Table(h, f, UpTo(n))
        <4>1. \A s \in UpTo(n) : s # {} => h[s \ {Taken(s)}] = g[s \ {Taken(s)}]
          <5> HIDE DEF h, UpTo
          <5> QED BY <3>4, <3>5
        <4> HIDE DEF UpTo
        <4>2. h = [s \in UpTo(n) |-> IF s = {} THEN 0 ELSE f[Taken(s)] + h[s \ {Taken(s)}]]
          BY <4>1
        <4> HIDE DEF h
        <4> QED BY <4>2 DEF Table
      <3> HIDE DEF h
      <3> QED BY <2>1, <3>6
    <2> QED BY <2>2, <2>3
  <1>3. Cardinality(S) \in Nat /\ UpTo(Cardinality(S)) = SUBSET S
    BY <1>1, FS_CardinalityType
  <1>4. Cardinality(S) \notin Bad
    BY <1>2
  <1> HIDE DEF UpTo
  <1> QED BY <1>3, <1>4

LEMMA SumIsInTable ==
    ASSUME NEW S, IsFiniteSet(S), NEW f
    PROVE  \E g : Table(g, f, SUBSET S) /\ SumFunctionOnSet(f, S) = g[S]
  <1> DEFINE g == CHOOSE it : Table(it, f, SUBSET S)
  <1>1. Table(g, f, SUBSET S)
    BY TableExists
  <1>2. SumFunctionOnSet(f, S) = g[S]
    BY Zenon DEF SumFunctionOnSet, FoldFunctionOnSet, MapThenFoldSet, Table, Taken
  <1> QED BY <1>1, <1>2

\* Two tables give a set of both the same sum.
LEMMA TablesAgree ==
    ASSUME NEW S, IsFiniteSet(S), NEW T \in SUBSET S, NEW f, NEW g, NEW h,
           Table(g, f, SUBSET S), Table(h, f, SUBSET T)
    PROVE  g[T] = h[T]
  <1> DEFINE C == {s \in SUBSET T : g[s] # h[s]}
  <1> SUFFICES ASSUME C # {}
               PROVE  FALSE
    OBVIOUS
  <1>1. \A s \in C : IsFiniteSet(s)
    BY FS_Subset
  <1>2. PICK s \in C : \A x \in s : s \ {x} \notin C
    <2> HIDE DEF C
    <2> QED BY <1>1, SmallestSet, Zenon
  <1>3. /\ g[s] = IF s = {} THEN 0 ELSE f[Taken(s)] + g[s \ {Taken(s)}]
        /\ h[s] = IF s = {} THEN 0 ELSE f[Taken(s)] + h[s \ {Taken(s)}]
    BY DEF Table
  <1>4. s # {} => g[s \ {Taken(s)}] = h[s \ {Taken(s)}]
    BY <1>2, TakenIsIn
  <1> QED BY <1>3, <1>4

LEMMA SumOfNone == ASSUME NEW f PROVE SumFunctionOnSet(f, {}) = 0
  <1> PICK g : Table(g, f, SUBSET {}) /\ SumFunctionOnSet(f, {}) = g[{}]
    BY SumIsInTable, FS_EmptySet
  <1> QED BY DEF Table

LEMMA SumOfSome ==
    ASSUME NEW S, IsFiniteSet(S), S # {}, NEW f
    PROVE  SumFunctionOnSet(f, S) = f[Taken(S)] + SumFunctionOnSet(f, S \ {Taken(S)})
  <1> DEFINE T == S \ {Taken(S)}
  <1>1. IsFiniteSet(T) /\ T \in SUBSET S
    BY FS_RemoveElement
  <1>2. PICK g : Table(g, f, SUBSET S) /\ SumFunctionOnSet(f, S) = g[S]
    BY SumIsInTable
  <1>3. PICK h : Table(h, f, SUBSET T) /\ SumFunctionOnSet(f, T) = h[T]
    BY <1>1, SumIsInTable
  <1>4. g[T] = h[T]
    BY <1>1, <1>2, <1>3, TablesAgree
  <1>5. g[S] = f[Taken(S)] + g[T]
    BY <1>2 DEF Table
  <1> QED BY <1>2, <1>3, <1>4, <1>5

-----------------------------------------------------------------------------
(* What the sum is.                                                        *)

LEMMA SumType ==
    ASSUME NEW S, IsFiniteSet(S), NEW f, \A x \in S : f[x] \in Int
    PROVE  SumFunctionOnSet(f, S) \in Int
  <1> DEFINE C == {T \in SUBSET S : SumFunctionOnSet(f, T) \notin Int}
  <1> SUFFICES ASSUME C # {}
               PROVE  FALSE
    OBVIOUS
  <1>1. \A T \in C : IsFiniteSet(T)
    BY FS_Subset
  <1>2. PICK T \in C : \A x \in T : T \ {x} \notin C
    <2> HIDE DEF C
    <2> QED BY <1>1, SmallestSet, Zenon
  <1>3. T # {}
    BY SumOfNone
  <1>4. Taken(T) \in T
    BY <1>3, TakenIsIn
  <1>5. SumFunctionOnSet(f, T \ {Taken(T)}) \in Int
    BY <1>2, <1>4
  <1>6. f[Taken(T)] \in Int
    BY <1>4
  <1>7. SumFunctionOnSet(f, T) = f[Taken(T)] + SumFunctionOnSet(f, T \ {Taken(T)})
    BY <1>1, <1>3, SumOfSome
  <1> QED BY <1>5, <1>6, <1>7

\* Any element may be taken first.
LEMMA SumRemove ==
    ASSUME NEW S, IsFiniteSet(S), NEW f, \A x \in S : f[x] \in Int, NEW a \in S
    PROVE  SumFunctionOnSet(f, S) = f[a] + SumFunctionOnSet(f, S \ {a})
  <1> DEFINE C == {T \in SUBSET S :
                     \E x \in T : SumFunctionOnSet(f, T) # f[x] + SumFunctionOnSet(f, T \ {x})}
  <1> SUFFICES ASSUME C # {}
               PROVE  FALSE
    BY Zenon
  <1>1. \A T \in SUBSET S : IsFiniteSet(T) /\ SumFunctionOnSet(f, T) \in Int
    BY FS_Subset, SumType
  <1>2. PICK T \in C : \A x \in T : T \ {x} \notin C
    <2>1. \A T \in C : IsFiniteSet(T)
      BY <1>1
    <2> HIDE DEF C
    <2> QED BY <2>1, SmallestSet, Zenon
  <1>3. PICK x \in T : SumFunctionOnSet(f, T) # f[x] + SumFunctionOnSet(f, T \ {x})
    OBVIOUS
  <1> DEFINE y == Taken(T)
  <1>4. y \in T /\ SumFunctionOnSet(f, T) = f[y] + SumFunctionOnSet(f, T \ {y})
    BY <1>1, SumOfSome, TakenIsIn
  <1> HIDE DEF y
  <1>5. x # y
    BY <1>3, <1>4
  <1>6. SumFunctionOnSet(f, T \ {y}) = f[x] + SumFunctionOnSet(f, (T \ {y}) \ {x})
    <2>1. T \ {y} \in SUBSET S /\ T \ {y} \notin C /\ x \in T \ {y}
      BY <1>2, <1>4, <1>5
    <2> QED BY <2>1
  <1>7. SumFunctionOnSet(f, T \ {x}) = f[y] + SumFunctionOnSet(f, (T \ {x}) \ {y})
    <2>1. T \ {x} \in SUBSET S /\ T \ {x} \notin C /\ y \in T \ {x}
      BY <1>2, <1>4, <1>5
    <2> QED BY <2>1
  <1>8. (T \ {x}) \ {y} = (T \ {y}) \ {x}
    OBVIOUS
  <1>9. /\ f[x] \in Int /\ f[y] \in Int
        /\ SumFunctionOnSet(f, (T \ {y}) \ {x}) \in Int
    <2>1. (T \ {y}) \ {x} \in SUBSET S
      OBVIOUS
    <2> QED BY <1>1, <1>4, <2>1
  <1>10. f[y] + SumFunctionOnSet(f, T \ {y}) = f[x] + SumFunctionOnSet(f, T \ {x})
    <2> DEFINE rest == SumFunctionOnSet(f, (T \ {y}) \ {x})
    <2>1. /\ SumFunctionOnSet(f, T \ {y}) = f[x] + rest
          /\ SumFunctionOnSet(f, T \ {x}) = f[y] + rest
      BY <1>6, <1>7, <1>8
    <2>2. f[x] \in Int /\ f[y] \in Int /\ rest \in Int
      BY <1>9
    <2> HIDE DEF rest
    <2>3. f[y] + (f[x] + rest) = f[x] + (f[y] + rest)
      BY <2>2
    <2> QED BY <2>1, <2>3
  <1> QED BY <1>3, <1>4, <1>10

LEMMA SumAdd ==
    ASSUME NEW S, IsFiniteSet(S), NEW a, a \notin S, NEW f,
           \A x \in S \cup {a} : f[x] \in Int
    PROVE  SumFunctionOnSet(f, S \cup {a}) = f[a] + SumFunctionOnSet(f, S)
  <1>1. IsFiniteSet(S \cup {a}) /\ a \in S \cup {a} /\ (S \cup {a}) \ {a} = S
    BY FS_AddElement
  <1> QED BY <1>1, SumRemove

\* Only the values on the set count.
LEMMA SumSame ==
    ASSUME NEW S, IsFiniteSet(S), NEW f, NEW g, \A x \in S : f[x] = g[x]
    PROVE  SumFunctionOnSet(f, S) = SumFunctionOnSet(g, S)
  <1> DEFINE C == {T \in SUBSET S : SumFunctionOnSet(f, T) # SumFunctionOnSet(g, T)}
  <1> SUFFICES ASSUME C # {}
               PROVE  FALSE
    OBVIOUS
  <1>1. \A T \in C : IsFiniteSet(T)
    BY FS_Subset
  <1>2. PICK T \in C : \A x \in T : T \ {x} \notin C
    <2> HIDE DEF C
    <2> QED BY <1>1, SmallestSet, Zenon
  <1>3. T # {}
    BY SumOfNone
  <1>4. Taken(T) \in T
    BY <1>3, TakenIsIn
  <1>5. SumFunctionOnSet(f, T \ {Taken(T)}) = SumFunctionOnSet(g, T \ {Taken(T)})
    BY <1>2, <1>4
  <1>6. /\ SumFunctionOnSet(f, T) = f[Taken(T)] + SumFunctionOnSet(f, T \ {Taken(T)})
        /\ SumFunctionOnSet(g, T) = g[Taken(T)] + SumFunctionOnSet(g, T \ {Taken(T)})
    BY <1>1, <1>3, SumOfSome
  <1> QED BY <1>4, <1>5, <1>6

\* A sum is that of a part and that of the rest.
LEMMA SumSplit ==
    ASSUME NEW S, IsFiniteSet(S), NEW f, \A x \in S : f[x] \in Int, NEW P \in SUBSET S
    PROVE  SumFunctionOnSet(f, S) = SumFunctionOnSet(f, P) + SumFunctionOnSet(f, S \ P)
  <1> DEFINE Split(T) == SumFunctionOnSet(f, S) = SumFunctionOnSet(f, T) + SumFunctionOnSet(f, S \ T)
             C == {T \in SUBSET S : ~Split(T)}
  <1> SUFFICES ASSUME C # {}
               PROVE  FALSE
    BY Zenon
  <1>1. \A T \in SUBSET S : IsFiniteSet(T) /\ SumFunctionOnSet(f, T) \in Int
    BY FS_Subset, SumType
  <1>2. PICK T \in C : \A x \in T : T \ {x} \notin C
    <2>1. \A T \in C : IsFiniteSet(T)
      BY <1>1
    <2> HIDE DEF C
    <2> QED BY <2>1, SmallestSet, Zenon
  <1>3. T # {}
    <2>1. SumFunctionOnSet(f, S) \in Int /\ S \ {} = S
      BY <1>1
    <2> QED BY <2>1, SumOfNone
  <1>4. PICK x \in T : TRUE
    BY <1>3
  <1>5. Split(T \ {x})
    BY <1>2
  <1>6. SumFunctionOnSet(f, T) = f[x] + SumFunctionOnSet(f, T \ {x})
    BY <1>1, SumRemove
  <1>7. SumFunctionOnSet(f, S \ (T \ {x})) = f[x] + SumFunctionOnSet(f, S \ T)
    <2>1. S \ (T \ {x}) \in SUBSET S /\ x \in S \ (T \ {x}) /\ (S \ (T \ {x})) \ {x} = S \ T
      OBVIOUS
    <2> QED BY <1>1, <2>1, SumRemove
  <1>8. /\ f[x] \in Int /\ T \ {x} \in SUBSET S /\ S \ T \in SUBSET S
    OBVIOUS
  <1>9. SumFunctionOnSet(f, T \ {x}) \in Int /\ SumFunctionOnSet(f, S \ T) \in Int
        /\ SumFunctionOnSet(f, S) \in Int
    BY <1>1, <1>8
  <1>10. Split(T)
    BY <1>5, <1>6, <1>7, <1>8, <1>9
  <1> QED BY <1>2, <1>10

LEMMA SumOfZeros ==
    ASSUME NEW S, IsFiniteSet(S), NEW f, \A x \in S : f[x] = 0
    PROVE  SumFunctionOnSet(f, S) = 0
  <1> DEFINE C == {T \in SUBSET S : SumFunctionOnSet(f, T) # 0}
  <1> SUFFICES ASSUME C # {}
               PROVE  FALSE
    OBVIOUS
  <1>1. \A T \in C : IsFiniteSet(T)
    BY FS_Subset
  <1>2. PICK T \in C : \A x \in T : T \ {x} \notin C
    <2> HIDE DEF C
    <2> QED BY <1>1, SmallestSet, Zenon
  <1>3. T # {}
    BY SumOfNone
  <1>4. Taken(T) \in T
    BY <1>3, TakenIsIn
  <1>5. SumFunctionOnSet(f, T \ {Taken(T)}) = 0
    BY <1>2, <1>4
  <1>6. SumFunctionOnSet(f, T) = f[Taken(T)] + SumFunctionOnSet(f, T \ {Taken(T)})
    BY <1>1, <1>3, SumOfSome
  <1> QED BY <1>4, <1>5, <1>6

\* Two functions that differ at one element.
LEMMA SumChange ==
    ASSUME NEW S, IsFiniteSet(S), NEW a \in S, NEW f, NEW g,
           \A x \in S : f[x] \in Int /\ g[x] \in Int,
           \A x \in S \ {a} : f[x] = g[x]
    PROVE  SumFunctionOnSet(g, S) = SumFunctionOnSet(f, S) + g[a] - f[a]
  <1>1. IsFiniteSet(S \ {a})
    BY FS_RemoveElement
  <1>2. /\ SumFunctionOnSet(f, S) = f[a] + SumFunctionOnSet(f, S \ {a})
        /\ SumFunctionOnSet(g, S) = g[a] + SumFunctionOnSet(g, S \ {a})
    BY SumRemove
  <1>3. SumFunctionOnSet(f, S \ {a}) = SumFunctionOnSet(g, S \ {a})
    BY <1>1, SumSame
  <1>4. SumFunctionOnSet(g, S \ {a}) \in Int
    BY <1>1, SumType
  <1> QED BY <1>2, <1>3, <1>4

LEMMA SumOfNat ==
    ASSUME NEW S, IsFiniteSet(S), NEW f, \A x \in S : f[x] \in Nat
    PROVE  SumFunctionOnSet(f, S) \in Nat
  <1> DEFINE C == {T \in SUBSET S : SumFunctionOnSet(f, T) \notin Nat}
  <1> SUFFICES ASSUME C # {}
               PROVE  FALSE
    OBVIOUS
  <1>1. \A T \in C : IsFiniteSet(T)
    BY FS_Subset
  <1>2. PICK T \in C : \A x \in T : T \ {x} \notin C
    <2> HIDE DEF C
    <2> QED BY <1>1, SmallestSet
  <1>3. CASE T = {}
    BY <1>3, SumOfNone
  <1>4. CASE T # {}
    <2>1. PICK x \in T : TRUE
      BY <1>4
    <2>2. SumFunctionOnSet(f, T) = f[x] + SumFunctionOnSet(f, T \ {x})
      BY <1>1, SumRemove
    <2>3. SumFunctionOnSet(f, T \ {x}) \in Nat
      BY <1>2
    <2> QED BY <2>2, <2>3
  <1> QED BY <1>3, <1>4

-----------------------------------------------------------------------------
(* Stock.                                                                  *)

\* What the orders hold of a product, as a function that can be summed.
Held(p) == [o \in Orders |-> order[o].items[p]]

LEMMA PlacedFinite ==
    ASSUME NEW S \in SUBSET Orders
    PROVE  IsFiniteSet(S)
  BY ShopAssumption, FS_Subset

LEMMA HeldType ==
    ASSUME ShopTypeOK, NEW p \in Products
    PROVE  \A o \in Orders : Held(p)[o] = order[o].items[p] /\ Held(p)[o] \in Nat
  BY DEF Held, ShopTypeOK, OrderRow, Lines

\* Buying adds the new order's pieces to those that placed orders hold.
LEMMA BuyKeepsStock ==
    ASSUME ShopTypeOK, NEW u \in Users, NEW c \in Coupons \cup {NoCoupon}, Buy(u, c),
           NEW p \in Products, ShopTypeOK'
    PROVE  PiecesIn(Placed, p)' - PiecesIn(Placed, p) = stock[p] - stock'[p]
  <1>1. PICK o \in Orders : order[o].status = "none" /\ Place(o, u, cart[u], c)
    BY DEF Buy
  <1> DEFINE row == [status |-> "placed", user |-> u, items |-> cart[u], coupon |-> c]
             lines == cart[u]
  <1>2. /\ order' = [order EXCEPT ![o] = row]
        /\ stock' = [q \in Products |-> IF lines[q] > 0 THEN stock[q] - lines[q] ELSE stock[q]]
    BY <1>1 DEF Place
  <1>3. lines[p] \in Nat /\ stock[p] \in Nat
    BY DEF ShopTypeOK, Lines
  <1>4. row.items = lines /\ row.status = "placed"
    OBVIOUS
  <1> HIDE DEF row, lines
  <1>5. order'[o] = row /\ \A q \in Orders : q # o => order'[q] = order[q]
    BY <1>2 DEF ShopTypeOK
  <1>6. Placed' = Placed \cup {o} /\ o \notin Placed
    BY <1>1, <1>4, <1>5 DEF Placed
  <1>7. stock'[p] = stock[p] - lines[p]
    BY <1>2, <1>3
  <1> DEFINE f == Held(p)
             g == Held(p)'
  <1>8. /\ \A q \in Orders : f[q] \in Int /\ g[q] \in Int
        /\ \A q \in Placed : f[q] = g[q]
        /\ g[o] = lines[p]
    <2>1. \A q \in Orders : f[q] = order[q].items[p] /\ g[q] = order'[q].items[p]
      BY DEF Held
    <2>2. \A q \in Orders : order[q].items[p] \in Nat /\ order'[q].items[p] \in Nat
      BY DEF ShopTypeOK, OrderRow, Lines
    <2>3. \A q \in Placed : q \in Orders /\ q # o
      BY <1>6 DEF Placed
    <2> HIDE DEF f, g
    <2> QED BY <1>4, <1>5, <2>1, <2>2, <2>3
  <1>9. /\ PiecesIn(Placed, p) = SumFunctionOnSet(f, Placed)
        /\ PiecesIn(Placed, p)' = SumFunctionOnSet(g, Placed')
    BY DEF PiecesIn, Held
  <1>10. Placed \in SUBSET Orders /\ IsFiniteSet(Placed)
    BY PlacedFinite DEF Placed
  <1> HIDE DEF f, g
  <1>11. SumFunctionOnSet(g, Placed \cup {o}) = g[o] + SumFunctionOnSet(g, Placed)
    BY <1>6, <1>8, <1>10, SumAdd
  <1>12. SumFunctionOnSet(f, Placed) = SumFunctionOnSet(g, Placed)
    BY <1>8, <1>10, SumSame
  <1>13. SumFunctionOnSet(g, Placed) \in Int
    BY <1>8, <1>10, SumType
  <1> QED BY <1>3, <1>6, <1>7, <1>8, <1>9, <1>11, <1>12, <1>13

\* What the orders of S held goes back to the stock, and nothing else.
LEMMA GiveUpKeepsStock ==
    ASSUME ShopTypeOK, NEW S \in SUBSET Orders, GiveUp(S), NEW p \in Products
    PROVE  PiecesIn(Placed, p)' - PiecesIn(Placed, p) = stock[p] - stock'[p]
  <1>1. /\ order' = [o \in Orders |-> IF o \in S THEN [order[o] EXCEPT !.status = "cancelled"]
                                               ELSE order[o]]
        /\ stock' = [q \in Products |->
                        IF \E o \in S : order[o].items[q] > 0
                        THEN stock[q] + PiecesIn(S, q) ELSE stock[q]]
        /\ \A o \in S : order[o].status = "placed"
    BY DEF GiveUp, GiveBack
  <1>2. \A o \in Orders : /\ order'[o].items = order[o].items
                          /\ o \notin S => order'[o] = order[o]
                          /\ o \in S => order'[o].status = "cancelled"
    BY <1>1 DEF ShopTypeOK, OrderRow
  <1>3. Placed' = Placed \ S /\ S \subseteq Placed
    BY <1>1, <1>2 DEF Placed
  <1> DEFINE f == Held(p)
  <1>4. /\ \A q \in Orders : f[q] = order[q].items[p] /\ f[q] \in Nat
        /\ PiecesIn(Placed, p) = SumFunctionOnSet(f, Placed)
        /\ PiecesIn(S, p) = SumFunctionOnSet(f, S)
    BY HeldType DEF PiecesIn, Held
  <1>5. PiecesIn(Placed, p)' = SumFunctionOnSet(f, Placed \ S)
    <2>1. [o \in Orders |-> order'[o].items[p]] = [o \in Orders |-> order[o].items[p]]
      BY <1>2
    <2> QED BY <1>3, <2>1 DEF PiecesIn, Held
  <1>6. Placed \in SUBSET Orders /\ IsFiniteSet(Placed) /\ IsFiniteSet(S)
    BY PlacedFinite DEF Placed
  <1> HIDE DEF f
  <1>7. SumFunctionOnSet(f, Placed) = SumFunctionOnSet(f, S) + SumFunctionOnSet(f, Placed \ S)
    BY <1>3, <1>4, <1>6, SumSplit
  <1>8. SumFunctionOnSet(f, S) \in Int /\ SumFunctionOnSet(f, Placed \ S) \in Int
    <2>1. IsFiniteSet(Placed \ S)
      BY <1>6, FS_Difference
    <2> QED BY <1>4, <1>6, <2>1, SumType
  <1>9. stock'[p] = stock[p] + SumFunctionOnSet(f, S)
    <2>1. CASE \E o \in S : order[o].items[p] > 0
      BY <1>1, <1>4, <2>1
    <2>2. CASE ~ \E o \in S : order[o].items[p] > 0
      <3>1. \A o \in S : f[o] = 0
        BY <1>4, <2>2
      <3>2. SumFunctionOnSet(f, S) = 0
        BY <1>6, <3>1, SumOfZeros
      <3> QED BY <1>1, <2>2, <3>2 DEF ShopTypeOK
    <2> QED BY <2>1, <2>2
  <1>10. stock[p] \in Nat
    BY DEF ShopTypeOK
  <1> QED BY <1>4, <1>5, <1>7, <1>8, <1>9, <1>10

LEMMA StockStep ==
    ASSUME ShopTypeOK, ShopTypeOK', [ShopNext]_shopVars, StockConserved
    PROVE  StockConserved'
  <1> SUFFICES ASSUME NEW p \in Products
               PROVE  stock'[p] = InitialStock[p] + ledger'[p] - PiecesIn(Placed, p)'
    BY DEF StockConserved
  <1>1. stock[p] = InitialStock[p] + ledger[p] - PiecesIn(Placed, p)
    BY DEF StockConserved
  <1>2. /\ InitialStock[p] \in Int /\ ledger[p] \in Int /\ ledger'[p] \in Int
        /\ stock[p] \in Int /\ stock'[p] \in Int
    BY ShopAssumption DEF ShopTypeOK
  <1>3. PiecesIn(Placed, p) \in Int /\ PiecesIn(Placed, p)' \in Int
    <2>1. /\ Placed \in SUBSET Orders /\ IsFiniteSet(Placed)
          /\ Placed' \in SUBSET Orders /\ IsFiniteSet(Placed')
      BY PlacedFinite DEF Placed
    <2>2. /\ \A o \in Orders : Held(p)[o] \in Int
          /\ \A o \in Orders : Held(p)'[o] \in Int
      BY DEF Held, ShopTypeOK, OrderRow, Lines
    <2>3. SumFunctionOnSet(Held(p), Placed) \in Int
      BY <2>1, <2>2, SumType
    <2>4. SumFunctionOnSet(Held(p)', Placed') \in Int
      BY <2>1, <2>2, SumType
    <2> QED BY <2>3, <2>4 DEF PiecesIn, Held
  <1>4. ASSUME PiecesIn(Placed, p)' - PiecesIn(Placed, p) = stock[p] - stock'[p],
               ledger' = ledger
        PROVE  stock'[p] = InitialStock[p] + ledger'[p] - PiecesIn(Placed, p)'
    BY <1>1, <1>2, <1>3, <1>4
  <1>5. ASSUME UNCHANGED <<stock, ledger, order>>
        PROVE  stock'[p] = InitialStock[p] + ledger'[p] - PiecesIn(Placed, p)'
    BY <1>1, <1>5 DEF PiecesIn, Placed
  <1>6. ASSUME NEW u \in Users, NEW c \in Coupons \cup {NoCoupon}, Buy(u, c)
        PROVE  stock'[p] = InitialStock[p] + ledger'[p] - PiecesIn(Placed, p)'
    BY <1>4, <1>6, BuyKeepsStock DEF Buy, Place
  <1>7. ASSUME NEW S \in SUBSET Orders, GiveUp(S)
        PROVE  stock'[p] = InitialStock[p] + ledger'[p] - PiecesIn(Placed, p)'
    BY <1>4, <1>7, GiveUpKeepsStock DEF GiveUp, GiveBack
  <1>8. ASSUME NEW u \in Users, NEW k \in Keys, MergeOnce(u, k)
        PROVE  UNCHANGED <<stock, ledger, order>>
    BY <1>8 DEF MergeOnce, MergeInto
  <1>9. ASSUME NEW u \in Users, NEW q \in Products, ChangeLine(u, q)
        PROVE  UNCHANGED <<stock, ledger, order>>
    BY <1>9 DEF ChangeLine, SetLine
  <1>10. ASSUME NEW q \in Products, CorrectStock(q)
         PROVE  stock'[p] = InitialStock[p] + ledger'[p] - PiecesIn(Placed, p)'
    <2>1. /\ stock' = [stock EXCEPT ![q] = stock'[q]]
          /\ ledger' = [ledger EXCEPT ![q] = @ + (stock'[q] - stock[q])]
          /\ order' = order
      BY <1>10 DEF CorrectStock, Correct
    <2>2. PiecesIn(Placed, p)' = PiecesIn(Placed, p)
      BY <2>1 DEF PiecesIn, Placed
    <2>3. CASE p = q
      <3>1. ledger'[p] = ledger[p] + (stock'[p] - stock[p])
        BY <2>1, <2>3 DEF ShopTypeOK
      <3> QED BY <1>1, <1>2, <1>3, <2>2, <3>1
    <2>4. CASE p # q
      <3>1. ledger'[p] = ledger[p] /\ stock'[p] = stock[p]
        BY <2>1, <2>4 DEF ShopTypeOK
      <3> QED BY <1>1, <2>2, <3>1
    <2> QED BY <2>3, <2>4
  <1>11. ASSUME NEW c \in Coupons, NEW l \in Limits, SetLimit(c, l)
         PROVE  UNCHANGED <<stock, ledger, order>>
    BY <1>11 DEF SetLimit
  <1> QED BY <1>5, <1>6, <1>7, <1>8, <1>9, <1>10, <1>11 DEF ShopNext, shopVars

LEMMA StockInit == Init => StockConserved
  <1> SUFFICES ASSUME Init, NEW p \in Products
               PROVE  stock[p] = InitialStock[p] + ledger[p] - PiecesIn(Placed, p)
    BY DEF StockConserved
  <1>1. Placed = {} /\ ledger[p] = 0 /\ stock[p] = InitialStock[p]
    BY DEF Init, ShopInit, Placed
  <1>2. PiecesIn(Placed, p) = 0
    BY <1>1, SumOfNone DEF PiecesIn
  <1>3. InitialStock[p] \in Int
    BY ShopAssumption
  <1> QED BY <1>1, <1>2, <1>3

\* No piece is sold twice, given back twice or lost, whatever checkouts,
\* cancellations, expiries and stock corrections run at once: the stock is the
\* first stock with the recorded adjustments, less what placed orders hold.
THEOREM StockIsConserved == Spec => []StockConserved
  <1>1. IInv /\ [Next]_vars => [ShopNext]_shopVars
    BY ShopStep
  <1>2. IInv => ShopTypeOK
    BY DEF IInv, TypeOK
  <1>3. /\ StockConserved /\ ShopTypeOK /\ ShopTypeOK' /\ [ShopNext]_shopVars
        => StockConserved'
    BY StockStep
  <1> QED BY <1>1, <1>2, <1>3, StockInit, Invariance, PTL DEF Spec

-----------------------------------------------------------------------------
(* Nobody gets more than was asked for.                                    *)

OrdersOf(u) == {o \in Orders : order[o].user = u}

WishOf(p) == [k \in Keys |-> Wish[k][p]]

\* Pieces that a running change of a cart may still bring.
Coming(s, u, p) ==
    IF s.kind \in CartKinds /\ s.user = u /\ s.product = p THEN s.amount ELSE 0

ComingBy(u, p) == [t \in Txs |-> Coming(tx[t], u, p)]

InCart(u, p)  == cart[u][p]
Bought(u, p)  == PiecesIn(OrdersOf(u), p)
ToCome(u, p)  == SumFunctionOnSet(ComingBy(u, p), Txs)
Wished(u, p)  == SumFunctionOnSet(WishOf(p), MergedBy(u))
AskedFor(u, p) == asked[u][p]

\* BoughtAsAsked does not follow from itself: a change of a cart that is under way
\* has been asked for and has not reached the cart.
AsAsked(u, p) ==
    InCart(u, p) + Bought(u, p) + ToCome(u, p) <= AskedFor(u, p) + Wished(u, p)

CartInv ==
    /\ \A u \in Users, p \in Products : AsAsked(u, p)
    /\ \A o \in Orders : order[o].status = "none" => order[o].user = NoUser
    /\ \A u \in Users : IsFiniteSet(MergedBy(u))

LEMMA ComingType ==
    ASSUME IInv, NEW t \in Txs, NEW u \in Users, NEW p \in Products
    PROVE  Coming(tx[t], u, p) \in Nat
  <1>1. tx[t].kind \in CartKinds => tx[t].amount \in Nat
    BY DEF IInv, Params
  <1> QED BY <1>1 DEF Coming

LEMMA WishType ==
    ASSUME NEW p \in Products, NEW k \in Keys
    PROVE  WishOf(p)[k] = Wish[k][p] /\ WishOf(p)[k] \in Nat
  BY ShopAssumption DEF WishOf

LEMMA CartTypes ==
    ASSUME IInv, CartInv, NEW u \in Users, NEW p \in Products
    PROVE  /\ InCart(u, p) \in Nat /\ AskedFor(u, p) \in Nat
           /\ Bought(u, p) \in Int /\ ToCome(u, p) \in Int /\ Wished(u, p) \in Int
  <1>1. InCart(u, p) \in Nat /\ AskedFor(u, p) \in Nat
    BY DEF InCart, AskedFor, IInv, TypeOK, ShopTypeOK, Lines
  <1>2. Bought(u, p) \in Int
    <2>1. OrdersOf(u) \in SUBSET Orders /\ IsFiniteSet(OrdersOf(u))
      BY PlacedFinite DEF OrdersOf
    <2>2. \A o \in OrdersOf(u) : Held(p)[o] \in Int
      BY <2>1, HeldType DEF IInv, TypeOK
    <2> QED BY <2>1, <2>2, SumType DEF Bought, PiecesIn, Held
  <1>3. ToCome(u, p) \in Int
    <2>1. \A t \in Txs : ComingBy(u, p)[t] \in Int
      BY ComingType DEF ComingBy
    <2> QED BY <2>1, CheckoutAssumption, SumType DEF ToCome
  <1>4. Wished(u, p) \in Int
    <2>1. IsFiniteSet(MergedBy(u)) /\ \A k \in MergedBy(u) : WishOf(p)[k] \in Int
      BY WishType DEF CartInv, MergedBy
    <2> QED BY <2>1, SumType DEF Wished
  <1> QED BY <1>1, <1>2, <1>3, <1>4

\* One transaction changes its row: what is to come changes by its part.
LEMMA ToComeStep ==
    ASSUME IInv, IInv', NEW t \in Txs, \A v \in Txs \ {t} : tx'[v] = tx[v],
           NEW u \in Users, NEW p \in Products
    PROVE  ToCome(u, p)' = ToCome(u, p) + Coming(tx'[t], u, p) - Coming(tx[t], u, p)
  <1> DEFINE f == ComingBy(u, p)
             g == ComingBy(u, p)'
  <1>1. /\ \A v \in Txs : f[v] = Coming(tx[v], u, p) /\ g[v] = Coming(tx[v], u, p)'
        /\ ToCome(u, p) = SumFunctionOnSet(f, Txs)
        /\ ToCome(u, p)' = SumFunctionOnSet(g, Txs)
    BY DEF ComingBy, ToCome
  <1>2. \A v \in Txs : Coming(tx[v], u, p) \in Nat
    BY ComingType
  <1>3. \A v \in Txs : Coming(tx[v], u, p)' \in Nat
    <2>1. ASSUME NEW v \in Txs
          PROVE  tx'[v].kind \in CartKinds => tx'[v].amount \in Nat
      BY DEF IInv, Params
    <2> QED BY <2>1 DEF Coming
  <1>4. \A v \in Txs \ {t} : f[v] = g[v]
    BY <1>1 DEF Coming
  <1>5. g[t] = Coming(tx'[t], u, p)
    BY <1>1 DEF Coming
  <1> HIDE DEF f, g
  <1>6. SumFunctionOnSet(g, Txs) = SumFunctionOnSet(f, Txs) + g[t] - f[t]
    BY <1>1, <1>2, <1>3, <1>4, CheckoutAssumption, SumChange
  <1> QED BY <1>1, <1>5, <1>6

\* Of a step that leaves the shop as it is, only the changes under way matter.
LEMMA RequestKeepsCart ==
    ASSUME IInv, CartInv, IInv', NEW t \in Txs, UNCHANGED shopVars,
           \A v \in Txs \ {t} : tx'[v] = tx[v],
           \A u \in Users, p \in Products :
               Coming(tx'[t], u, p) - Coming(tx[t], u, p) <= asked'[u][p] - asked[u][p]
    PROVE  CartInv'
  <1>1. \A u \in Users : MergedBy(u)' = MergedBy(u) /\ OrdersOf(u)' = OrdersOf(u)
    BY DEF shopVars, MergedBy, OrdersOf
  <1>2. ASSUME NEW u \in Users, NEW p \in Products
        PROVE  AsAsked(u, p)'
    <2>1. /\ InCart(u, p)' = InCart(u, p) /\ Bought(u, p)' = Bought(u, p)
          /\ Wished(u, p)' = Wished(u, p)
      BY <1>1 DEF shopVars, InCart, Bought, PiecesIn, Wished
    <2>2. ToCome(u, p)' = ToCome(u, p) + Coming(tx'[t], u, p) - Coming(tx[t], u, p)
      BY ToComeStep
    <2>3. Coming(tx'[t], u, p) - Coming(tx[t], u, p) <= AskedFor(u, p)' - AskedFor(u, p)
      BY DEF AskedFor
    <2>4. Coming(tx[t], u, p) \in Nat
      BY ComingType
    <2>5. Coming(tx'[t], u, p) \in Nat
      <3>1. tx'[t].kind \in CartKinds => tx'[t].amount \in Nat
        BY DEF IInv, Params
      <3> QED BY <3>1 DEF Coming
    <2>6. AskedFor(u, p)' \in Nat
      BY DEF AskedFor, IInv, TypeOK, Lines
    <2>7. AsAsked(u, p)
      BY DEF CartInv
    <2> DEFINE a == Coming(tx'[t], u, p)
               b == Coming(tx[t], u, p)
    <2> HIDE DEF a, b
    <2>8. /\ InCart(u, p) \in Nat /\ AskedFor(u, p) \in Nat
          /\ Bought(u, p) \in Int /\ ToCome(u, p) \in Int /\ Wished(u, p) \in Int
      BY CartTypes
    <2> QED BY <2>1, <2>2, <2>3, <2>4, <2>5, <2>6, <2>7, <2>8 DEF AsAsked
  <1>3. \A o \in Orders : order'[o].status = "none" => order'[o].user = NoUser
    BY DEF CartInv, shopVars
  <1>4. \A u \in Users : IsFiniteSet(MergedBy(u)')
    BY <1>1 DEF CartInv
  <1> QED BY <1>2, <1>3, <1>4 DEF CartInv

\* A commit: what it brings to the cart and to the orders was to come, or was wished.
LEMMA CommitAsAsked ==
    ASSUME IInv, CartInv, IInv', NEW t \in Txs, tx' = [tx EXCEPT ![t] = NoTx], asked' = asked,
           NEW u \in Users, NEW p \in Products,
           InCart(u, p)' \in Int, Bought(u, p)' \in Int, Wished(u, p)' \in Int,
           InCart(u, p)' + Bought(u, p)' - Wished(u, p)'
             <= InCart(u, p) + Bought(u, p) - Wished(u, p) + Coming(tx[t], u, p)
    PROVE  AsAsked(u, p)'
  <1>1. tx \in [Txs -> TxRow]
    BY DEF IInv, TypeOK
  <1>2. tx'[t] = NoTx /\ \A v \in Txs \ {t} : tx'[v] = tx[v]
    BY <1>1
  <1>3. ToCome(u, p)' = ToCome(u, p) + Coming(tx'[t], u, p) - Coming(tx[t], u, p)
    BY <1>2, ToComeStep
  <1>4. Coming(tx'[t], u, p) = 0
    BY <1>2 DEF Coming, NoTx, CartKinds
  <1>5. AskedFor(u, p)' = AskedFor(u, p)
    BY DEF AskedFor
  <1>6. Coming(tx[t], u, p) \in Nat
    BY ComingType
  <1>7. /\ InCart(u, p) \in Nat /\ AskedFor(u, p) \in Nat
        /\ Bought(u, p) \in Int /\ ToCome(u, p) \in Int /\ Wished(u, p) \in Int
    BY CartTypes
  <1>8. AsAsked(u, p)
    BY DEF CartInv
  <1> DEFINE a == Coming(tx[t], u, p)
  <1> HIDE DEF a
  <1>9. ToCome(u, p)' = ToCome(u, p) - a
    BY <1>3, <1>4, <1>6, <1>7 DEF a
  <1>10. /\ a \in Nat
         /\ InCart(u, p)' + Bought(u, p)' - Wished(u, p)'
              <= InCart(u, p) + Bought(u, p) - Wished(u, p) + a
    BY <1>6 DEF a
  <1> QED BY <1>5, <1>7, <1>8, <1>9, <1>10 DEF AsAsked

LEMMA NothingBought ==
    ASSUME order' = order, NEW u, NEW p
    PROVE  Bought(u, p)' = Bought(u, p)
  BY DEF Bought, OrdersOf, PiecesIn

LEMMA NothingWished ==
    ASSUME merged' = merged, NEW u
    PROVE  MergedBy(u)' = MergedBy(u) /\ \A p : Wished(u, p)' = Wished(u, p)
  BY DEF Wished, MergedBy, WishOf

\* The checkout moves the cart to a new order, piece by piece.
LEMMA CheckoutKeepsCart ==
    ASSUME IInv, CartInv, IInv', NEW t \in Txs, NEW o \in Orders, CommitCheckout(t, o)
    PROVE  CartInv'
  <1> DEFINE v == tx[t].user
             row == [status |-> "placed", user |-> v, items |-> cart[v], coupon |-> tx[t].coupon]
  <1>1. /\ v \in Users /\ order[o].status = "none" /\ tx[t].kind = "checkout"
        /\ Place(o, v, cart[v], tx[t].coupon)
        /\ tx' = [tx EXCEPT ![t] = NoTx] /\ asked' = asked
    BY CheckoutReady
  <1>2. ShopTypeOK
    BY DEF IInv, TypeOK
  <1>3. /\ order' = [order EXCEPT ![o] = row] /\ cart' = [cart EXCEPT ![v] = Empty]
        /\ merged' = merged
    BY <1>1 DEF Place
  <1>4. row.items = cart[v] /\ row.user = v /\ row.status = "placed"
    OBVIOUS
  <1>5. order[o].user = NoUser /\ NoUser \notin Users
    BY <1>1, ShopAssumption DEF CartInv
  <1>6. \A u \in Users, p \in Products : Coming(tx[t], u, p) = 0
    BY <1>1 DEF Coming, CartKinds
  <1> HIDE DEF v, row
  <1>7. order'[o] = row /\ \A q \in Orders : q # o => order'[q] = order[q]
    BY <1>2, <1>3 DEF ShopTypeOK
  <1>8. ASSUME NEW u \in Users
        PROVE  /\ o \notin OrdersOf(u)
               /\ OrdersOf(u)' = IF u = v THEN OrdersOf(u) \cup {o} ELSE OrdersOf(u)
    BY <1>4, <1>5, <1>7 DEF OrdersOf
  <1>9. ASSUME NEW u \in Users, NEW p \in Products
        PROVE  Bought(u, p)' = Bought(u, p) + (IF u = v THEN cart[v][p] ELSE 0)
    <2> DEFINE f == Held(p)
               g == Held(p)'
    <2>1. /\ Bought(u, p) = SumFunctionOnSet(f, OrdersOf(u))
          /\ Bought(u, p)' = SumFunctionOnSet(g, OrdersOf(u)')
      BY DEF Bought, PiecesIn, Held
    <2>2. \A q \in Orders : f[q] = order[q].items[p] /\ g[q] = order'[q].items[p]
      BY DEF Held
    <2>3. \A q \in Orders : order[q].items[p] \in Nat /\ order'[q].items[p] \in Nat
      BY DEF IInv, TypeOK, ShopTypeOK, OrderRow, Lines
    <2>4. OrdersOf(u) \in SUBSET Orders /\ IsFiniteSet(OrdersOf(u)) /\ o \notin OrdersOf(u)
      BY <1>8, PlacedFinite DEF OrdersOf
    <2> HIDE DEF f, g
    <2>5. \A q \in OrdersOf(u) : f[q] = g[q]
      BY <1>7, <2>2, <2>4
    <2>6. g[o] = cart[v][p] /\ \A q \in OrdersOf(u) \cup {o} : g[q] \in Int
      BY <1>4, <1>7, <2>2, <2>3, <2>4
    <2>7. SumFunctionOnSet(f, OrdersOf(u)) = SumFunctionOnSet(g, OrdersOf(u))
      BY <2>4, <2>5, SumSame
    <2>8. SumFunctionOnSet(g, OrdersOf(u)) \in Int
      BY <2>4, <2>6, SumType
    <2>9. SumFunctionOnSet(g, OrdersOf(u) \cup {o}) = g[o] + SumFunctionOnSet(g, OrdersOf(u))
      BY <2>4, <2>6, SumAdd
    <2>10. cart[v][p] \in Int
      BY <2>3, <2>6, <1>4, <1>7
    <2>11. CASE u = v
      <3>1. Bought(u, p)' = cart[v][p] + SumFunctionOnSet(g, OrdersOf(u))
        BY <1>8, <2>1, <2>6, <2>9, <2>11
      <3>2. Bought(u, p) = SumFunctionOnSet(g, OrdersOf(u))
        BY <2>1, <2>7
      <3> QED BY <2>8, <2>10, <2>11, <3>1, <3>2
    <2>12. CASE u # v
      BY <1>8, <2>1, <2>7, <2>8, <2>12
    <2> QED BY <2>11, <2>12
  <1>10. ASSUME NEW u \in Users, NEW p \in Products
         PROVE  AsAsked(u, p)'
    <2> DEFINE b == IF u = v THEN cart[v][p] ELSE 0
    <2>1. cart[v][p] \in Nat
      BY <1>1, <1>2 DEF ShopTypeOK, Lines, v
    <2>2. InCart(u, p)' = InCart(u, p) + (0 - b) /\ InCart(u, p) \in Nat
      BY <1>1, <1>2, <1>3, <2>1 DEF InCart, ShopTypeOK, Lines, Empty
    <2>3. Bought(u, p)' = Bought(u, p) + b
      BY <1>9
    <2>4. Wished(u, p)' = Wished(u, p) /\ Wished(u, p) \in Int /\ Bought(u, p) \in Int
      BY <1>3, NothingWished, CartTypes
    <2>5. b \in Int
      BY <2>1
    <2> HIDE DEF b
    <2>6. /\ InCart(u, p)' \in Int /\ Bought(u, p)' \in Int /\ Wished(u, p)' \in Int
          /\ InCart(u, p)' + Bought(u, p)' - Wished(u, p)'
               <= InCart(u, p) + Bought(u, p) - Wished(u, p) + Coming(tx[t], u, p)
      BY <1>6, <2>2, <2>3, <2>4, <2>5
    <2> QED BY <1>1, <2>6, CommitAsAsked
  <1>11. \A q \in Orders : order'[q].status = "none" => order'[q].user = NoUser
    BY <1>4, <1>7 DEF CartInv
  <1>12. \A u \in Users : IsFiniteSet(MergedBy(u)')
    BY <1>3, NothingWished DEF CartInv
  <1> QED BY <1>10, <1>11, <1>12 DEF CartInv

\* A merge brings at most the guest's cart, and only with a key that is new.
LEMMA MergeKeepsCart ==
    ASSUME IInv, CartInv, IInv', NEW t \in Txs, CommitMerge(t)
    PROVE  CartInv'
  <1> DEFINE v == tx[t].user
             k == tx[t].key
  <1>1. /\ v \in Users /\ k \in Keys /\ <<v, k>> \notin merged
        /\ cart' = [cart EXCEPT ![v] = WithWish(cart[v], k)]
        /\ merged' = merged \cup {<<v, k>>} /\ order' = order
        /\ tx' = [tx EXCEPT ![t] = NoTx] /\ asked' = asked
    BY DEF CommitMerge, End, MergeInto, IInv, Params, UserKinds
  <1>2. ShopTypeOK
    BY DEF IInv, TypeOK
  <1>3. \A u \in Users, p \in Products : Coming(tx[t], u, p) = 0
    BY DEF CommitMerge, End, Coming, CartKinds
  <1> HIDE DEF v, k
  <1>4. ASSUME NEW u \in Users
        PROVE  /\ k \in Keys /\ (u = v => k \notin MergedBy(u))
               /\ MergedBy(u)' = IF u = v THEN MergedBy(u) \cup {k} ELSE MergedBy(u)
    BY <1>1 DEF MergedBy
  <1>5. ASSUME NEW u \in Users, NEW p \in Products
        PROVE  Wished(u, p)' = Wished(u, p) + (IF u = v THEN Wish[k][p] ELSE 0)
    <2> DEFINE f == WishOf(p)
    <2>1. /\ Wished(u, p) = SumFunctionOnSet(f, MergedBy(u))
          /\ Wished(u, p)' = SumFunctionOnSet(f, MergedBy(u)')
      BY DEF Wished, WishOf
    <2>2. IsFiniteSet(MergedBy(u)) /\ MergedBy(u) \subseteq Keys
      BY DEF CartInv, MergedBy
    <2>3. \A x \in Keys : f[x] = Wish[x][p] /\ f[x] \in Int
      BY WishType
    <2> HIDE DEF f
    <2>4. SumFunctionOnSet(f, MergedBy(u)) \in Int
      BY <2>2, <2>3, SumType
    <2>5. CASE u = v
      <3>1. SumFunctionOnSet(f, MergedBy(u) \cup {k}) = f[k] + SumFunctionOnSet(f, MergedBy(u))
        BY <1>4, <2>2, <2>3, <2>5, SumAdd
      <3>2. f[k] = Wish[k][p] /\ f[k] \in Int
        BY <1>4, <2>3
      <3>3. MergedBy(u)' = MergedBy(u) \cup {k}
        BY <1>4, <2>5
      <3>4. Wished(u, p)' = Wish[k][p] + Wished(u, p)
        BY <2>1, <3>1, <3>2, <3>3
      <3> QED BY <2>1, <2>4, <2>5, <3>2, <3>4
    <2>6. CASE u # v
      BY <1>4, <2>1, <2>4, <2>6
    <2> QED BY <2>5, <2>6
  <1>6. ASSUME NEW u \in Users, NEW p \in Products
        PROVE  AsAsked(u, p)'
    <2> DEFINE w == IF u = v THEN Wish[k][p] ELSE 0
               c == IF u = v THEN WithWish(cart[v], k)[p] - cart[v][p] ELSE 0
    <2>1. Wish[k][p] \in Nat /\ cart[v][p] \in Nat /\ stock[p] \in Nat /\ cart[u][p] \in Nat
      BY <1>1, <1>2, ShopAssumption DEF ShopTypeOK, Lines
    <2>2. WithWish(cart[v], k)[p] \in Nat /\ WithWish(cart[v], k)[p] <= cart[v][p] + Wish[k][p]
      BY <2>1 DEF WithWish
    <2>3. /\ u = v => cart'[u][p] = WithWish(cart[v], k)[p]
          /\ u # v => cart'[u][p] = cart[u][p]
      BY <1>1, <1>2 DEF ShopTypeOK
    <2>4. InCart(u, p)' = InCart(u, p) + c
      BY <2>1, <2>2, <2>3 DEF InCart
    <2>5. /\ Bought(u, p)' = Bought(u, p) /\ Bought(u, p) \in Int
          /\ InCart(u, p) \in Int /\ Wished(u, p) \in Int
      BY <1>1, NothingBought, CartTypes
    <2>6. Wished(u, p)' = Wished(u, p) + w
      BY <1>5
    <2>7. c \in Int /\ w \in Int /\ c <= w
      BY <2>1, <2>2
    <2> HIDE DEF c, w
    <2>8. /\ InCart(u, p)' \in Int /\ Bought(u, p)' \in Int /\ Wished(u, p)' \in Int
          /\ InCart(u, p)' + Bought(u, p)' - Wished(u, p)'
               <= InCart(u, p) + Bought(u, p) - Wished(u, p) + Coming(tx[t], u, p)
      BY <1>3, <2>4, <2>5, <2>6, <2>7
    <2> QED BY <1>1, <2>8, CommitAsAsked
  <1>7. \A u \in Users : IsFiniteSet(MergedBy(u)')
    BY <1>4, FS_AddElement DEF CartInv
  <1> QED BY <1>1, <1>6, <1>7 DEF CartInv

\* A change of a line is what was asked for, on top of what is in the cart now.
LEMMA LineKeepsCart ==
    ASSUME IInv, CartInv, IInv', NEW t \in Txs, CommitCart(t)
    PROVE  CartInv'
  <1> DEFINE v == tx[t].user
             q == tx[t].product
             n == IF tx[t].kind = "add" THEN tx[t].read[q] + tx[t].amount ELSE tx[t].amount
  <1>1. /\ v \in Users /\ q \in Products /\ tx[t].kind \in CartKinds
        /\ SetLine(v, q, n) /\ Wants(t) = {} /\ tx[t].kind \in UserKinds
        /\ tx' = [tx EXCEPT ![t] = NoTx] /\ asked' = asked
    BY DEF CommitCart, End, IInv, Params, UserKinds
  <1>2. ShopTypeOK
    BY DEF IInv, TypeOK
  <1>3. /\ cart' = [cart EXCEPT ![v][q] = n]
        /\ order' = order /\ merged' = merged
    BY <1>1 DEF SetLine
  <1>4. tx[t].amount \in Nat /\ Coming(tx[t], v, q) = tx[t].amount
    BY <1>1 DEF IInv, Params, Coming
  <1>5. cart[v][q] \in Nat
    BY <1>1, <1>2 DEF ShopTypeOK, Lines
  <1>6. n \in Nat /\ n <= cart[v][q] + tx[t].amount
    <2>1. User(v) \in tx[t].held
      BY <1>1, UserHolds
    <2>2. tx[t].kind = "add" => tx[t].read = cart[v]
      BY <2>1 DEF IInv, ReadsHold, CartHolds, CartReaders, UserKinds, CartKinds
    <2> QED BY <1>4, <1>5, <2>2
  <1>7. \A u \in Users, p \in Products : u # v \/ p # q => Coming(tx[t], u, p) = 0
    BY DEF Coming
  <1> HIDE DEF v, q, n
  <1>8. ASSUME NEW u \in Users, NEW p \in Products
        PROVE  AsAsked(u, p)'
    <2> DEFINE c == IF u = v /\ p = q THEN n - cart[v][q] ELSE 0
    <2>1. InCart(u, p)' = InCart(u, p) + c
      BY <1>1, <1>2, <1>3, <1>5, <1>6 DEF InCart, ShopTypeOK, Lines
    <2>2. /\ Bought(u, p)' = Bought(u, p) /\ Wished(u, p)' = Wished(u, p)
          /\ InCart(u, p) \in Int /\ Bought(u, p) \in Int /\ Wished(u, p) \in Int
      <3>1. Bought(u, p)' = Bought(u, p)
        BY <1>3, NothingBought
      <3>2. Wished(u, p)' = Wished(u, p)
        BY <1>3, NothingWished
      <3> QED BY <3>1, <3>2, CartTypes
    <2> DEFINE a == Coming(tx[t], u, p)
    <2>3. c \in Int /\ a \in Nat /\ c <= a
      BY <1>4, <1>5, <1>6, <1>7, ComingType
    <2> HIDE DEF c, a
    <2>4. /\ InCart(u, p)' \in Int /\ Bought(u, p)' \in Int /\ Wished(u, p)' \in Int
          /\ InCart(u, p)' + Bought(u, p)' - Wished(u, p)'
               <= InCart(u, p) + Bought(u, p) - Wished(u, p) + a
      BY <2>1, <2>2, <2>3
    <2> QED BY <1>1, <2>4, CommitAsAsked DEF a
  <1>9. \A u \in Users : IsFiniteSet(MergedBy(u)')
    BY <1>3, NothingWished DEF CartInv
  <1> QED BY <1>3, <1>8, <1>9 DEF CartInv

\* A cancellation leaves the items of its orders, and whose they are.
LEMMA GiveUpKeepsCart ==
    ASSUME IInv, CartInv, IInv', NEW t \in Txs, CommitGiveUp(t)
    PROVE  CartInv'
  <1> DEFINE S == tx[t].orders
  <1>1. /\ S \in SUBSET Orders /\ GiveBack(S) /\ tx[t].kind \in GiveUps
        /\ tx' = [tx EXCEPT ![t] = NoTx] /\ asked' = asked
    BY GiveUpReady DEF CommitGiveUp, End
  <1>2. ShopTypeOK
    BY DEF IInv, TypeOK
  <1> HIDE DEF S
  <1>3. /\ order' = [o \in Orders |-> IF o \in S THEN [order[o] EXCEPT !.status = "cancelled"]
                                               ELSE order[o]]
        /\ cart' = cart /\ merged' = merged
    BY <1>1 DEF GiveBack
  <1>4. \A o \in Orders : /\ order'[o].items = order[o].items /\ order'[o].user = order[o].user
                          /\ order'[o].status = "none" => order[o].status = "none"
    BY <1>2, <1>3 DEF ShopTypeOK, OrderRow
  <1>5. ASSUME NEW u \in Users, NEW p \in Products
        PROVE  AsAsked(u, p)'
    <2>1. OrdersOf(u)' = OrdersOf(u)
      BY <1>4 DEF OrdersOf
    <2>2. [o \in Orders |-> order'[o].items[p]] = [o \in Orders |-> order[o].items[p]]
      BY <1>4
    <2>3. Bought(u, p)' = Bought(u, p)
      BY <2>1, <2>2 DEF Bought, PiecesIn
    <2>4. /\ Wished(u, p)' = Wished(u, p) /\ InCart(u, p)' = InCart(u, p)
          /\ InCart(u, p) \in Int /\ Bought(u, p) \in Int /\ Wished(u, p) \in Int
      <3>1. Wished(u, p)' = Wished(u, p)
        BY <1>3, NothingWished
      <3>2. InCart(u, p)' = InCart(u, p)
        BY <1>3 DEF InCart
      <3> QED BY <3>1, <3>2, CartTypes
    <2> DEFINE a == Coming(tx[t], u, p)
    <2>5. a \in Nat
      BY ComingType
    <2> HIDE DEF a
    <2>6. InCart(u, p)' + Bought(u, p)' - Wished(u, p)'
            <= InCart(u, p) + Bought(u, p) - Wished(u, p) + a
      BY <2>3, <2>4, <2>5
    <2> QED BY <1>1, <2>3, <2>4, <2>6, CommitAsAsked DEF a
  <1>6. \A o \in Orders : order'[o].status = "none" => order'[o].user = NoUser
    BY <1>4 DEF CartInv
  <1>7. \A u \in Users : IsFiniteSet(MergedBy(u)')
    BY <1>3, NothingWished DEF CartInv
  <1> QED BY <1>5, <1>6, <1>7 DEF CartInv

\* Neither the stock nor the limit of a coupon has a part in this.
LEMMA ElsewhereKeepsCart ==
    ASSUME CartInv, UNCHANGED <<cart, merged, order, asked>>,
           \/ tx' = tx
           \/ /\ IInv /\ IInv'
              /\ \E t \in Txs : tx[t].kind \in StockKinds /\ tx' = [tx EXCEPT ![t] = NoTx]
    PROVE  CartInv'
  <1>1. ASSUME NEW u \in Users, NEW p \in Products
        PROVE  ToCome(u, p)' = ToCome(u, p)
    <2>1. CASE tx' = tx
      BY <2>1 DEF ToCome, ComingBy, Coming
    <2>2. ASSUME IInv, IInv', NEW t \in Txs, tx[t].kind \in StockKinds,
                 tx' = [tx EXCEPT ![t] = NoTx]
          PROVE  ToCome(u, p)' = ToCome(u, p)
      <3>1. tx'[t] = NoTx /\ \A v \in Txs \ {t} : tx'[v] = tx[v]
        BY <2>2 DEF IInv, TypeOK
      <3>2. Coming(tx'[t], u, p) = 0 /\ Coming(tx[t], u, p) = 0
        BY <2>2, <3>1 DEF Coming, NoTx, CartKinds, StockKinds
      <3>3. ToCome(u, p)' = ToCome(u, p) + Coming(tx'[t], u, p) - Coming(tx[t], u, p)
        BY <2>2, <3>1, ToComeStep
      <3>4. ToCome(u, p) \in Int
        BY <2>2, CartTypes
      <3> QED BY <3>2, <3>3, <3>4
    <2> QED BY <2>1, <2>2
  <1>2. ASSUME NEW u \in Users, NEW p \in Products
        PROVE  AsAsked(u, p)'
    <2>1. /\ InCart(u, p)' = InCart(u, p) /\ AskedFor(u, p)' = AskedFor(u, p)
          /\ Bought(u, p)' = Bought(u, p) /\ Wished(u, p)' = Wished(u, p)
      BY NothingBought, NothingWished DEF InCart, AskedFor
    <2> QED BY <1>1, <2>1 DEF AsAsked, CartInv
  <1>3. \A u \in Users : IsFiniteSet(MergedBy(u)')
    BY NothingWished DEF CartInv
  <1> QED BY <1>2, <1>3 DEF CartInv

LEMMA BeginAsks ==
    ASSUME IInv, NEW t \in Txs, BeginSome(t), NEW u \in Users, NEW p \in Products
    PROVE  Coming(tx'[t], u, p) - Coming(tx[t], u, p) <= asked'[u][p] - asked[u][p]
  <1>1. tx[t] = NoTx
    BY DEF BeginSome, BeginCheckout, BeginMerge, BeginCart, BeginCancel, BeginExpire,
           BeginStock, Begin
  <1>2. Coming(tx[t], u, p) = 0 /\ asked[u][p] \in Nat /\ NoTx.kind = "none"
    BY <1>1 DEF Coming, NoTx, CartKinds, IInv, TypeOK, Lines
  <1>3. ASSUME NEW s, Begin(t, s), s.kind \notin CartKinds, asked' = asked
        PROVE  Coming(tx'[t], u, p) = 0 /\ asked'[u][p] = asked[u][p]
    <2>1. tx'[t] = s
      BY <1>3 DEF Begin, IInv, TypeOK
    <2> QED BY <1>3, <2>1 DEF Coming
  <1> DEFINE Goal == /\ Coming(tx'[t], u, p) \in Int /\ asked'[u][p] \in Int
                     /\ Coming(tx'[t], u, p) <= asked'[u][p] - asked[u][p]
  <1>4. ASSUME NEW s, Begin(t, s), s.kind \notin CartKinds, asked' = asked
        PROVE  Goal
    BY <1>2, <1>3, <1>4
  <1>5. ASSUME NEW v, NEW c, BeginCheckout(t, v, c)
        PROVE  Goal
    BY <1>4, <1>5 DEF BeginCheckout, NoTx, CartKinds
  <1>6. ASSUME NEW v, NEW k, BeginMerge(t, v, k)
        PROVE  Goal
    BY <1>4, <1>6 DEF BeginMerge, NoTx, CartKinds
  <1>7. ASSUME NEW kind, NEW v \in Users, NEW q \in Products, NEW n \in Nat,
               BeginCart(t, kind, v, q, n)
        PROVE  Goal
    <2> DEFINE s == [NoTx EXCEPT !.kind = kind, !.user = v, !.product = q, !.amount = n]
    <2>1. tx'[t] = s /\ asked' = [asked EXCEPT ![v][q] = @ + n]
      BY <1>7 DEF BeginCart, Begin, IInv, TypeOK
    <2>2. s.user = v /\ s.product = q /\ s.amount = n
      BY DEF NoTx
    <2> HIDE DEF s
    <2>3. Coming(tx'[t], u, p) \in Nat /\ Coming(tx'[t], u, p) <= (IF u = v /\ p = q THEN n ELSE 0)
      BY <2>1, <2>2 DEF Coming
    <2>4. asked'[u][p] = asked[u][p] + (IF u = v /\ p = q THEN n ELSE 0)
      BY <1>2, <2>1 DEF IInv, TypeOK, Lines
    <2> DEFINE d == IF u = v /\ p = q THEN n ELSE 0
               a == Coming(tx'[t], u, p)
    <2>5. d \in Nat /\ a \in Nat /\ a <= d /\ asked'[u][p] = asked[u][p] + d
      BY <2>3, <2>4
    <2> HIDE DEF d
    <2> QED BY <1>2, <2>5
  <1>8. ASSUME NEW o, BeginCancel(t, o)
        PROVE  Goal
    BY <1>4, <1>8 DEF BeginCancel, NoTx, CartKinds
  <1>9. ASSUME NEW S, BeginExpire(t, S)
        PROVE  Goal
    BY <1>4, <1>9 DEF BeginExpire, NoTx, CartKinds
  <1>10. ASSUME NEW kind \in StockKinds, NEW v, NEW q, NEW n, BeginStock(t, kind, v, q, n)
         PROVE  Goal
    BY <1>4, <1>10 DEF BeginStock, NoTx, CartKinds, StockKinds
  <1>11. Goal
    <2> HIDE DEF Goal
    <2> QED BY <1>5, <1>6, <1>7, <1>8, <1>9, <1>10, CheckoutAssumption DEF BeginSome, StockKinds
  <1> QED BY <1>2, <1>11

LEMMA CartStepKept ==
    ASSUME IInv, CartInv, IInv', [Next]_vars
    PROVE  CartInv'
  <1>1. CASE UNCHANGED vars
    BY <1>1, ElsewhereKeepsCart DEF vars, shopVars
  <1>2. ASSUME NEW t \in Txs, BeginSome(t)
        PROVE  CartInv'
    <2>1. \A v \in Txs \ {t} : tx'[v] = tx[v]
      <3>1. \E s : tx' = [tx EXCEPT ![t] = s]
        BY <1>2 DEF BeginSome, BeginCheckout, BeginMerge, BeginCart, BeginCancel, BeginExpire,
                    BeginStock, Begin
      <3> QED BY <3>1 DEF IInv, TypeOK
    <2> QED BY <1>2, <2>1, BeginKeeps, BeginAsks, RequestKeepsCart
  <1>3. ASSUME NEW t \in Txs, LockSome(t)
        PROVE  CartInv'
    <2>1. PICK l, x : Takes(t, l, x)
      BY <1>3, LockTakes
    <2> DEFINE r == [x EXCEPT !.held = @ \cup {l}]
    <2>2. tx' = [tx EXCEPT ![t] = r] /\ asked' = asked
      BY <2>1 DEF Takes, Lock
    <2>3. r.kind = tx[t].kind /\ r.user = tx[t].user /\ r.product = tx[t].product
          /\ r.amount = tx[t].amount
      BY <2>1 DEF Takes, TxRow
    <2> HIDE DEF r
    <2>4. tx'[t] = r /\ \A v \in Txs \ {t} : tx'[v] = tx[v]
      BY <2>2 DEF IInv, TypeOK
    <2>5. \A u \in Users, p \in Products : Coming(tx'[t], u, p) = Coming(tx[t], u, p)
      BY <2>3, <2>4 DEF Coming
    <2>6. ASSUME NEW u \in Users, NEW p \in Products
          PROVE  Coming(tx'[t], u, p) - Coming(tx[t], u, p) <= asked'[u][p] - asked[u][p]
      <3>1. Coming(tx[t], u, p) \in Nat /\ asked[u][p] \in Nat
        BY ComingType DEF IInv, TypeOK, Lines
      <3> QED BY <2>2, <2>5, <3>1
    <2> QED BY <1>3, <2>4, <2>6, LockKeeps, RequestKeepsCart
  <1>4. ASSUME NEW t \in Txs, Rollback(t)
        PROVE  CartInv'
    <2>1. UNCHANGED shopVars /\ asked' = asked /\ tx' = [tx EXCEPT ![t] = NoTx]
      BY <1>4 DEF Rollback
    <2>2. tx'[t] = NoTx /\ \A v \in Txs \ {t} : tx'[v] = tx[v]
      BY <2>1 DEF IInv, TypeOK
    <2>3. ASSUME NEW u \in Users, NEW p \in Products
          PROVE  Coming(tx'[t], u, p) - Coming(tx[t], u, p) <= asked'[u][p] - asked[u][p]
      <3>1. Coming(tx[t], u, p) \in Nat /\ asked[u][p] \in Nat
        BY ComingType DEF IInv, TypeOK, Lines
      <3>2. Coming(tx'[t], u, p) = 0
        BY <2>2 DEF Coming, NoTx, CartKinds
      <3> QED BY <2>1, <3>1, <3>2
    <2> QED BY <2>1, <2>2, <2>3, RequestKeepsCart
  <1>5. ASSUME NEW t \in Txs, CommitStock(t)
        PROVE  CartInv'
    BY <1>5, ElsewhereKeepsCart DEF CommitStock, End, Correct
  <1>6. ASSUME NEW c \in Coupons, NEW l \in Limits, UpdateCoupon(c, l)
        PROVE  CartInv'
    BY <1>6, ElsewhereKeepsCart DEF UpdateCoupon, SetLimit
  <1> QED BY <1>1, <1>2, <1>3, <1>4, <1>5, <1>6, CheckoutKeepsCart, MergeKeepsCart,
             LineKeepsCart, GiveUpKeepsCart DEF Next, EndSome

LEMMA InitCart == Init => CartInv
  <1> SUFFICES ASSUME Init
               PROVE  CartInv
    OBVIOUS
  <1>1. IInv
    BY InitIInv
  <1>2. /\ merged = {} /\ tx = [t \in Txs |-> NoTx] /\ asked = cart
        /\ \A o \in Orders : order[o].status = "none" /\ order[o].user = NoUser
    BY DEF Init, ShopInit
  <1>3. \A u \in Users : MergedBy(u) = {} /\ OrdersOf(u) = {}
    BY <1>2, ShopAssumption DEF MergedBy, OrdersOf
  <1>4. ASSUME NEW u \in Users, NEW p \in Products
        PROVE  AsAsked(u, p)
    <2>1. Bought(u, p) = 0 /\ Wished(u, p) = 0
      BY <1>3, SumOfNone DEF Bought, PiecesIn, Wished
    <2>2. \A t \in Txs : ComingBy(u, p)[t] = 0
      BY <1>2 DEF ComingBy, Coming, NoTx, CartKinds
    <2>3. ToCome(u, p) = 0
      BY <2>2, CheckoutAssumption, SumOfZeros DEF ToCome
    <2>4. InCart(u, p) = AskedFor(u, p) /\ InCart(u, p) \in Nat
      BY <1>1, <1>2 DEF InCart, AskedFor, IInv, TypeOK, ShopTypeOK, Lines
    <2> QED BY <2>1, <2>3, <2>4 DEF AsAsked
  <1> QED BY <1>2, <1>3, <1>4, FS_EmptySet DEF CartInv

LEMMA CartInvGives ==
    ASSUME IInv, CartInv
    PROVE  BoughtAsAsked
  <1> SUFFICES ASSUME NEW u \in Users, NEW p \in Products
               PROVE  InCart(u, p) + Bought(u, p) <= AskedFor(u, p) + Wished(u, p)
    BY DEF BoughtAsAsked, InCart, Bought, OrdersOf, AskedFor, Wished, WishOf
  <1>1. \A t \in Txs : ComingBy(u, p)[t] \in Nat
    BY ComingType DEF ComingBy
  <1>2. ToCome(u, p) \in Nat
    BY <1>1, CheckoutAssumption, SumOfNat DEF ToCome
  <1> QED BY <1>2, CartTypes DEF CartInv, AsAsked

\* Two checkouts of one cart place it once, a repeated merge adds once, and no late
\* write to a cart brings back what was bought: nobody orders or is left with more
\* than was asked for, whatever the customers' requests overlap with.
THEOREM NoMoreThanAsked == Spec => []BoughtAsAsked
  <1>1. IInv /\ CartInv /\ IInv' /\ [Next]_vars => CartInv'
    BY CartStepKept
  <1>2. IInv /\ CartInv => BoughtAsAsked
    BY CartInvGives
  <1> QED BY <1>1, <1>2, InitCart, Invariance, PTL DEF Spec
=============================================================================
