------------------------------- MODULE Wishlist -----------------------------
(***************************************************************************)
(* The wishlist (product/community.go), which each browser of a customer   *)
(* merges into the account's.  A step is one statement; a merge is a       *)
(* transaction, and what it wrote is seen when it commits.                 *)
(*                                                                         *)
(* An operator whose name has an underscore is a faulty variant of the     *)
(* operator that follows it; no specification uses it.                     *)
(***************************************************************************)
EXTENDS Naturals, FiniteSetsExt

CONSTANTS
    Users, Products, Merges, None,
    Cap                 \* 100: the products a wishlist may have

WishlistAssumption ==
    /\ Products \subseteq Nat /\ IsFiniteSet(Products)
    /\ Cap \in Nat /\ None \notin Merges

VARIABLES
    onSale,    \* products
    wish,      \* wishlists, by user
    holder,    \* the merge that holds the user's row
    merge      \* the merges

vars == <<onSale, wish, holder, merge>>

Idle == [at |-> "idle", user |-> None, ids |-> {}, written |-> {}]

TypeOK ==
    /\ onSale \in SUBSET Products
    /\ wish \in [Users -> SUBSET onSale]
    /\ holder \in [Users -> Merges \cup {None}]
    /\ merge \in [Merges -> [at : {"idle", "locking", "inserting", "written", "done", "failed"},
                             user : Users \cup {None}, ids : SUBSET Products,
                             written : SUBSET Products]]
    \* The user's row is held by a merge that is still open.
    /\ \A u \in Users : holder[u] # None => merge[holder[u]].at \in {"inserting", "written"}

Init ==
    /\ onSale = Products
    /\ wish = [u \in Users |-> {}]
    /\ holder = [u \in Users |-> None]
    /\ merge = [m \in Merges |-> Idle]

-----------------------------------------------------------------------------
(* MergeWishlist, DeleteWishlist, and the foreign key of wishlists.        *)

MergeWishlist(m, u, ids) ==
    /\ merge[m].at = "idle"
    /\ merge' = [merge EXCEPT ![m] = [Idle EXCEPT !.at = "locking", !.user = u, !.ids = ids]]
    /\ UNCHANGED <<onSale, wish, holder>>

LockUser_Unlocked(m) ==
    /\ merge[m].at = "locking"
    /\ merge' = [merge EXCEPT ![m].at = "inserting"]
    /\ UNCHANGED <<onSale, wish, holder>>

\* SELECT id ... FOR UPDATE: it waits for another merge of the account.
LockUser(m) ==
    /\ merge[m].at = "locking" /\ holder[merge[m].user] = None
    /\ holder' = [holder EXCEPT ![merge[m].user] = m]
    /\ merge' = [merge EXCEPT ![m].at = "inserting"]
    /\ UNCHANGED <<onSale, wish>>

Fitting_CountsKept(u, ids) ==
    {p \in ids \cap onSale :
        Cardinality({q \in ids \cap onSale : q < p}) + Cardinality(wish[u]) < Cap} \ wish[u]

\* The first of them that are on sale, new to the list, and find room in it.
Fitting(u, ids) ==
    LET new == (ids \cap onSale) \ wish[u] IN
    {p \in new : Cardinality({q \in new : q < p}) + Cardinality(wish[u]) < Cap}

\* INSERT ... SELECT ... LIMIT, with the lists as they are committed.
Insert(m) ==
    /\ merge[m].at = "inserting"
    /\ merge' = [merge EXCEPT ![m].at = "written",
                              ![m].written = Fitting(merge[m].user, merge[m].ids)]
    /\ UNCHANGED <<onSale, wish, holder>>

Release(m) == holder' = [u \in Users |-> IF holder[u] = m THEN None ELSE holder[u]]

Commit(m) ==
    /\ merge[m].at = "written"
    /\ wish' = [wish EXCEPT ![merge[m].user] = @ \cup merge[m].written]
    /\ merge' = [merge EXCEPT ![m].at = "done"]
    /\ Release(m)
    /\ UNCHANGED onSale

\* A statement fails, or the client goes: the transaction rolls back.
Fail(m) ==
    /\ merge[m].at \in {"locking", "inserting", "written"}
    /\ merge' = [merge EXCEPT ![m].at = "failed"]
    /\ Release(m)
    /\ UNCHANGED <<onSale, wish>>

DeleteWishlist(u, p) ==
    /\ wish' = [wish EXCEPT ![u] = @ \ {p}]
    /\ UNCHANGED <<onSale, holder, merge>>

DeleteProduct_LeavesWishes(p) ==
    /\ onSale' = onSale \ {p}
    /\ UNCHANGED <<wish, holder, merge>>

\* A product that no order has may be deleted (ON DELETE CASCADE); it waits for the
\* merges that have just taken it in.
DeleteProduct(p) ==
    /\ \A m \in Merges : merge[m].at = "written" => p \notin merge[m].written
    /\ onSale' = onSale \ {p}
    /\ wish' = [u \in Users |-> wish[u] \ {p}]
    /\ UNCHANGED <<holder, merge>>

Next ==
    \/ \E m \in Merges :
          \/ \E u \in Users, ids \in SUBSET Products : MergeWishlist(m, u, ids)
          \/ LockUser(m) \/ Insert(m) \/ Commit(m) \/ Fail(m)
    \/ \E u \in Users, p \in Products : DeleteWishlist(u, p)
    \/ \E p \in Products : DeleteProduct(p)

Spec == Init /\ [][Next]_vars

-----------------------------------------------------------------------------
(* Properties.                                                             *)

\* Merges of one account from several browsers together keep within the cap.
WishlistIsCapped == \A u \in Users : Cardinality(wish[u]) <= Cap

\* A merge that ends brings in every product that is on sale, or has filled the list.
MergesFillTheList ==
    [][\A m \in Merges :
          LET u == merge[m].user IN
          merge[m].at = "inserting" /\ merge'[m].at = "written" =>
              \/ merge[m].ids \cap onSale \subseteq wish[u] \cup merge'[m].written
              \/ Cardinality(wish[u] \cup merge'[m].written) = Cap]_vars

\* The cap is kept and used.
WishlistSafety ==
    /\ []TypeOK
    /\ []WishlistIsCapped
    /\ MergesFillTheList
=============================================================================
