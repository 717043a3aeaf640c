---------------------------- MODULE MCStorefront ----------------------------
(***************************************************************************)
(* What is shown, priced and kept for customers, for TLC: the wishlist, the*)
(* reviews, the articles, the images of products and articles, the edits of*)
(* coupons, the prices of an order, and the limiter before them all.       *)
(*                                                                         *)
(* Here these parts share no state, and every property is about one of     *)
(* them: a behaviour takes the steps of one part, chosen at the start,     *)
(* while the others stay as they are when nobody has come yet.             *)
(***************************************************************************)
EXTENDS Integers, FiniteSets, TLC

CONSTANTS
    Users, Products, Merges, Cap,                                   \* of the wishlist
    Customers, Plants, Admins, Texts,                               \* of the reviews
    Drafts, Edits,                                                  \* of the articles
    Pictured, Told, Keys, Links, Gallery, Saves,                    \* of the images
    Ids, Codes, Changes, Blank, Omitted, Malformed, Percent, MaxInt4,  \* of the coupons
    Wares, Digital, Half, Hundred, Prices, Quantities, Coupons, Fees, MaxUses,   \* of the prices
    Clients, Limit, Window, Second, MaxBuckets,                     \* of the limiter
    None

VARIABLES
    part,                                                           \* the one that runs
    onSale, wish, holder, merge,                                    \* Wishlist
    bought, review, page,                                           \* Reviews
    article, written, edit,                                         \* Articles
    item, born, given, disk, released, save,                        \* Images
    coupon, change,                                                 \* Coupons
    shipping, price, cart, row, used, clock, order,                 \* Pricing
    bucket, cleaned, ideal, wait                                    \* RateLimit

\* The uploads of Gallery may appear inside an item.
Insides == {{}} \cup {{k} : k \in Gallery}

W == INSTANCE Wishlist
R == INSTANCE Reviews WITH Users <- Customers, Products <- Plants, order <- bought
A == INSTANCE Articles WITH Ids <- Drafts, Requests <- Edits, born <- written, request <- edit
I == INSTANCE Images WITH Products <- Pictured, Articles <- Told, Requests <- Saves, request <- save
C == INSTANCE Coupons WITH Requests <- Changes, request <- change
P == INSTANCE Pricing WITH Products <- Wares, coupon <- row
L == INSTANCE RateLimit

ASSUME StorefrontAssumption ==
    /\ W!WishlistAssumption /\ R!ReviewsAssumption /\ A!ArticlesAssumption
    /\ I!ImagesAssumption /\ C!CouponsAssumption /\ P!PricingAssumption
    /\ L!RateLimitAssumption

wishVars == <<onSale, wish, holder, merge>>
reviewVars == <<bought, review, page>>
articleVars == <<article, written, edit>>
imageVars == <<item, born, given, disk, released, save>>
couponVars == <<coupon, change>>
priceVars == <<shipping, price, cart, row, used, clock, order>>
limitVars == <<bucket, cleaned, ideal, wait>>
vars == <<part, wishVars, reviewVars, articleVars, imageVars, couponVars, priceVars, limitVars>>

Init ==
    /\ part \in {"wishlist", "reviews", "articles", "images", "coupons", "prices", "limiter"}
    /\ W!Init /\ R!Init /\ A!Init /\ L!Init
    /\ C!Init /\ (part = "coupons" \/ coupon = [i \in Ids |-> None])
    /\ I!Init /\ (part = "images" \/ (given = {} /\ item = [i \in Pictured \cup Told |-> None]))
    /\ P!Init
    /\ \/ part = "prices" /\ (row.starts = None => clock = 0)
          /\ (row.usage_limit = None /\ row.per_user_limit = None => used.others = 0)
       \/ /\ shipping = P!LoadShipping(None, None, None, FALSE)
          /\ price = [p \in Wares |-> 0]
          /\ row = CHOOSE c \in Coupons : TRUE
          /\ used = [own |-> 0, others |-> 0] /\ clock = 0

\* Saves name uploads only; what is no upload is in items from the start.
SmallImages ==
    \A r \in Saves : save'[r].input # None => save'[r].input.main \notin Links

Next ==
    \/ /\ part = "wishlist" /\ W!Next
       /\ UNCHANGED <<part, reviewVars, articleVars, imageVars, couponVars, priceVars, limitVars>>
    \/ /\ part = "reviews" /\ R!Next
       /\ UNCHANGED <<part, wishVars, articleVars, imageVars, couponVars, priceVars, limitVars>>
    \/ /\ part = "articles" /\ A!Next
       /\ UNCHANGED <<part, wishVars, reviewVars, imageVars, couponVars, priceVars, limitVars>>
    \/ /\ part = "images" /\ I!Next /\ SmallImages
       /\ UNCHANGED <<part, wishVars, reviewVars, articleVars, couponVars, priceVars, limitVars>>
    \/ /\ part = "coupons" /\ C!Next
       /\ UNCHANGED <<part, wishVars, reviewVars, articleVars, imageVars, priceVars, limitVars>>
    \/ /\ part = "prices" /\ P!Next
       /\ UNCHANGED <<part, wishVars, reviewVars, articleVars, imageVars, couponVars, limitVars>>
    \/ /\ part = "limiter" /\ L!Next
       /\ UNCHANGED <<part, wishVars, reviewVars, articleVars, imageVars, couponVars, priceVars>>

Spec == Init /\ [][Next]_vars

\* No bounds, then each bound in turn; every row keeps the table's CHECKs.
MCPlain == [kind |-> "percent", value |-> 3, min_order_amount |-> 0, usage_limit |-> None,
            per_user_limit |-> None, starts |-> None, ends |-> None, active |-> TRUE]

MCCoupons ==
    {MCPlain, [MCPlain EXCEPT !.value = Hundred],
     [MCPlain EXCEPT !.kind = "fixed", !.value = 25],
     [MCPlain EXCEPT !.min_order_amount = 10, !.active = FALSE],
     [MCPlain EXCEPT !.min_order_amount = 10, !.usage_limit = 2],
     [MCPlain EXCEPT !.kind = "fixed", !.value = 5, !.per_user_limit = 1],
     [MCPlain EXCEPT !.starts = 1, !.ends = 2]}

\* Two requests, and two rows, of whatever part runs.
MCSymmetry == Permutations(Changes) \cup Permutations(Ids)

-----------------------------------------------------------------------------
(* The properties of the parts.                                            *)

\* Merges from several browsers together keep the wishlist within its cap, and each
\* brings in every product on sale or has filled the list.
WishlistSafety == W!WishlistSafety

\* What a page shows of a review changes by a moderator's decision only.
ReviewsSafety == R!ReviewsSafety

\* A published article has the date by which the public list is sorted, and an edit
\* moves it only in a race.
ArticlesSafety == A!ArticlesSafety

\* An image that is in use without a break keeps its file, and a clean-up that ran alone
\* leaves no file behind but where the query or the removal of that one failed.
ImagesSafety == I!ImagesSafety

\* A coupon that the code's rules let through is one that the table takes, and a field
\* that an edit does not carry changes only in a race.
CouponsSafety == C!CouponsSafety

\* An order that was stored adds up whatever has wrapped, its coupon took off what the
\* cart page showed, and its goods are shipped.
PricingSafety == P!PricingSafety

\* The clean-up of the limiter's table changes no answer, who waits as long as
\* Retry-After says is served, and a full table is full of recent clients.
RateLimitSafety == L!RateLimitSafety
=============================================================================
