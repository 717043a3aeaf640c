SPECIFICATION SceneSpec
CONSTANTS
    Scenes = {"expiry"}
    u1 = u1
    u2 = u2
    c1 = c1
    k1 = k1
    t1 = t1
    t2 = t2
    Users = {u1, u2}
    Txs = {t1, t2}
    NoUser = NoUser
    NoCoupon = NoCoupon
    NoKey = NoKey
    Wish <- MCWish
    InitialStock <- MCStock
    InitialCarts <- MCCarts
    Limits <- MCLimits
    Products = {1, 2}
    Orders = {1, 2}
    Coupons = {c1}
    Keys = {k1}
    Kinds = {"checkout", "merge", "add", "set", "delete", "cancel", "expire", "adjust", "form"}
    MaxAsked = 1
    MaxStock = 1
SYMMETRY MCSymmetry
INVARIANTS
    RestoreAndCheckoutInOrder
