------------------------------- MODULE Reviews ------------------------------
(***************************************************************************)
(* The reviews of products (product/community.go): a buyer writes and      *)
(* rewrites one, and an admin moderates it from the list on the screen.    *)
(* Every request is one statement.  Of an order there is only what         *)
(* SubmitReview asks of it.                                                *)
(*                                                                         *)
(* An operator whose name has an underscore is a faulty variant of the     *)
(* operator that follows it; no specification uses it.                     *)
(***************************************************************************)
CONSTANTS Users, Products, Admins, Texts, None

ReviewsAssumption == None \notin Texts

VARIABLES
    order,     \* the user's order with the product, if there is one
    review,    \* product_reviews, by user and product
    page       \* the texts that an admin has on the screen

vars == <<order, review, page>>

Pairs == Users \X Products

TypeOK ==
    /\ order \in [Pairs -> {"none", "paid", "delivered", "refunded"}]
    /\ review \in [Pairs -> {None} \cup [text : Texts, status : {"pending", "approved", "rejected"}]]
    /\ page \in [Admins -> [Pairs -> Texts \cup {None}]]
    \* Only who bought and got the product has written of it.
    /\ \A p \in Pairs : review[p] # None => order[p] \in {"delivered", "refunded"}

Init ==
    /\ order = [p \in Pairs |-> "none"]
    /\ review = [p \in Pairs |-> None]
    /\ page = [a \in Admins |-> [p \in Pairs |-> None]]

\* The order of the product, as orders and returns move it.
OrderMoves(u, p, to) ==
    /\ <<order[<<u, p>>], to>> \in {<<"none", "paid">>, <<"paid", "delivered">>, <<"delivered", "refunded">>}
    /\ order' = [order EXCEPT ![<<u, p>>] = to]
    /\ UNCHANGED <<review, page>>

SubmitReview_KeepsStatus(u, p, text) ==
    /\ order[<<u, p>>] = "delivered"
    /\ review' = [review EXCEPT ![<<u, p>>] =
          IF @ = None THEN [text |-> text, status |-> "pending"]
          ELSE [@ EXCEPT !.text = text]]
    /\ UNCHANGED <<order, page>>

\* INSERT ... SELECT ... WHERE EXISTS a delivered and paid order ... ON CONFLICT DO
\* UPDATE.
SubmitReview(u, p, text) ==
    /\ order[<<u, p>>] = "delivered"
    /\ review' = [review EXCEPT ![<<u, p>>] = [text |-> text, status |-> "pending"]]
    /\ UNCHANGED <<order, page>>

AdminReviews(a) ==
    /\ page' = [page EXCEPT ![a] = [p \in Pairs |-> IF review[p] = None THEN None ELSE review[p].text]]
    /\ UNCHANGED <<order, review>>

\* UPDATE ... WHERE id: whatever text the review has by now.
ModerateReview(a, p, status) ==
    /\ page[a][p] # None
    /\ review' = [review EXCEPT ![p].status = status]
    /\ UNCHANGED <<order, page>>

Next ==
    \/ \E u \in Users, p \in Products :
          \/ \E to \in {"paid", "delivered", "refunded"} : OrderMoves(u, p, to)
          \/ \E text \in Texts : SubmitReview(u, p, text)
    \/ \E a \in Admins :
          \/ AdminReviews(a)
          \/ \E p \in Pairs, status \in {"approved", "rejected"} : ModerateReview(a, p, status)

Spec == Init /\ [][Next]_vars

-----------------------------------------------------------------------------
(* Properties.                                                             *)

Published(p) == review[p] # None /\ review[p].status = "approved"

\* No text goes up by its author's hand: what a page shows is changed by a moderator's
\* decision only, and goes down as soon as its author writes another.
OnlyModeratorsPublish ==
    [][\A p \in Pairs : Published(p)' =>
          \/ Published(p) /\ review'[p].text = review[p].text
          \/ \E a \in Admins : page[a][p] # None /\ ~Published(p)]_vars

\* Nothing goes up unmoderated.
ReviewsSafety ==
    /\ []TypeOK
    /\ OnlyModeratorsPublish
=============================================================================
