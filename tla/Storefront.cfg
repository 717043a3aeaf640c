SPECIFICATION Spec
CONSTANTS
    Users = {u1}
    Products = {1, 2, 3}
    Merges = {r1, r2}
    Cap = 2
    Customers = {u1, u2}
    Plants = {p1}
    Admins = {a1, a2}
    Texts = {good, bad}
    Drafts = {i1, i2}
    Edits = {e1, e2, e3}
    Pictured = {p1}
    Told = {t1}
    Keys = {k1, k2}
    Links = {link}
    Gallery = {k1}
    Saves = {r1, r2}
    Ids = {i1, i2}
    Codes = {c1}
    Changes = {r1, r2}
    Blank = Blank
    Omitted = Omitted
    Malformed = Malformed
    Percent = 1
    MaxInt4 = 1
    Wares = {goods, course}
    Digital = {course}
    Half = 32
    Hundred = 4
    Prices = {0, 9, 20}
    Quantities = {0, 1, 2}
    Coupons <- MCCoupons
    Fees = {20}
    MaxUses = 1
    Clients = {x1, x2}
    Limit = 2
    Window = 6
    Second = 2
    MaxBuckets = 1
    None = None
PROPERTIES
    WishlistSafety
    ReviewsSafety
    ArticlesSafety
    ImagesSafety
    CouponsSafety
    PricingSafety
    RateLimitSafety
SYMMETRY MCSymmetry
CHECK_DEADLOCK FALSE
