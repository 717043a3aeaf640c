----------------------------- MODULE MCRequests -----------------------------
(***************************************************************************)
(* Requests that wait for one another's locks, for TLC: the sessions, the  *)
(* address book, the slugs, and the categories of products and of articles.*)
(*                                                                         *)
(* These parts share no row and call one another nowhere, and every        *)
(* property is about one of them: a behaviour takes the steps of one part, *)
(* chosen at the start, while the others stay as they are when nobody has  *)
(* come yet.                                                               *)
(***************************************************************************)
EXTENDS Categories, TLC

CONSTANTS
    Users, Passwords, Visits,    \* of the sessions, with their requests
    Owners, Changes,             \* of the address book
    Named, Slugs, Renames,       \* of the slugs
    Task                         \* what a save may save, or which categories delete

VARIABLES
    part,                                                      \* the one that runs
    password, session, token, lock, visit, newest, uses,       \* Sessions
    book, holder, change,                                      \* Addresses
    slug, born, alias, rowLock, slugLock, rename               \* Slugs

S == INSTANCE Sessions WITH Requests <- Visits, request <- visit
A == INSTANCE Addresses WITH Requests <- Changes, Users <- Owners, request <- change
L == INSTANCE Slugs WITH Items <- Named, Requests <- Renames, request <- rename

\* Categories are the products', and T's the articles'.
T == INSTANCE Categories WITH Products <- FALSE

ASSUME RequestsAssumption ==
    /\ S!SessionsAssumption /\ A!AddressesAssumption /\ L!SlugsAssumption
    /\ CategoriesAssumption /\ Products

sessionVars == <<password, session, token, lock, visit, newest, uses>>
addressVars == <<book, holder, change>>
slugVars == <<slug, born, alias, rowLock, slugLock, rename>>
partVars == <<part, sessionVars, addressVars, slugVars, vars>>

PartsInit ==
    /\ part \in {"sessions", "addresses", "slugs", "categories", "article categories"}
    /\ S!Init /\ (part = "sessions" \/ password = [u \in Users |-> None])
    /\ A!Init
    /\ L!Init /\ (part = "slugs" \/ slug = [i \in Named |-> None])
    /\ Init /\ (part \in {"categories", "article categories"} \/ filed = << >>)

\* A request has its own items to save, or its own categories to delete.
InTask ==
    \A r \in Requests : request'[r].at # "idle" =>
        (IF request'[r].item = None THEN request'[r].category ELSE request'[r].item) \in Task[r]

PartsNext ==
    \/ part = "sessions" /\ S!Next /\ UNCHANGED <<part, addressVars, slugVars, vars>>
    \/ part = "addresses" /\ A!Next /\ UNCHANGED <<part, sessionVars, slugVars, vars>>
    \/ part = "slugs" /\ L!Next /\ UNCHANGED <<part, sessionVars, addressVars, vars>>
    \/ part = "categories" /\ Next /\ InTask
          /\ UNCHANGED <<part, sessionVars, addressVars, slugVars>>
    \/ part = "article categories" /\ T!Next /\ InTask
          /\ UNCHANGED <<part, sessionVars, addressVars, slugVars>>

PartsSpec == PartsInit /\ [][PartsNext]_partVars

\* What is fair in a part is fair here: nothing that the fairness of another part
\* names is possible.  (The steps of a save or a deletion that has begun do not
\* depend on Products.)
FairSpec == PartsSpec /\ S!Fairness /\ A!Fairness /\ L!Fairness /\ Fairness

CONSTANTS r1, r2, r3, r4, g1, g2, c1, c2

\* Whoever comes saves any item or deletes any category.
MCAnyTask == [r \in Requests |-> Items \cup Categories]

\* Two save and two delete, each its own.
MCOwnTask == (r1 :> {g1}) @@ (r2 :> {g2}) @@ (r3 :> {c1}) @@ (r4 :> {c2})

\* Requests, items and categories are interchangeable.
MCSymmetry == Permutations(Changes) \cup Permutations(Items) \cup Permutations(Categories)

-----------------------------------------------------------------------------
(* The properties of the parts.                                            *)

\* A session that was signed out, reset or has expired serves no request that begins
\* later; a mailed link changes a password once, and only the one mailed last.
SessionsSafety == S!SessionsSafety

\* A user has one default address at most, and a default goes only with its own address,
\* or to another one.
AddressesSafety == A!AddressesSafety

\* A public link never starts to show another item while its own is there, and a slug in
\* use is an alias of no other item.
SlugsSafety == L!SlugsSafety

\* No request waits for ever: for a user's row, an address or the entry of the
\* default, a slug, or a category.
NobodyWaitsForEver ==
    S!EveryRequestEnds /\ A!EveryRequestEnds /\ L!EveryRequestEnds /\ EveryRequestEnds

\* Used and expired links are cleared in the end.
TokensAreCleared == S!TokensAreCleared
=============================================================================
