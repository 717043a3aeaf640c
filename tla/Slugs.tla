-------------------------------- MODULE Slugs -------------------------------
(***************************************************************************)
(* The addresses of products and of articles (product/, article/): an item *)
(* that is renamed leaves its old slug behind as an alias, and the trigger *)
(* reserve_public_slug keeps other items off it.  The two tables follow    *)
(* one protocol; an item stands for a row of either.  A step is one        *)
(* statement, or one lock the trigger waits for; what a transaction wrote  *)
(* is seen when it commits.                                                *)
(*                                                                         *)
(* An operator whose name has an underscore is a faulty variant of the     *)
(* operator that follows it; no specification uses it.                     *)
(***************************************************************************)
EXTENDS Naturals, FiniteSetsExt

CONSTANTS Items, Slugs, Requests, None

SlugsAssumption == Slugs \subseteq Nat /\ None \notin Items \cup Slugs \cup Requests

VARIABLES
    slug,       \* products.slug, or articles.slug; None where there is no row
    born,       \* the ids the sequence has given out
    alias,      \* product_slug_aliases, or article_slug_aliases
    rowLock,    \* the transaction that holds an item's row
    slugLock,   \* the advisory locks
    request     \* the requests

vars == <<slug, born, alias, rowLock, slugLock, request>>

Idle == [at |-> "idle", item |-> None, old |-> None, new |-> None, need |-> {}]

Ended == {"done", "missing", "conflict", "failed"}

TypeOK ==
    /\ slug \in [Items -> Slugs \cup {None}]
    /\ born \in SUBSET Items
    /\ alias \in [Slugs -> Items \cup {None}]
    /\ rowLock \in [Items -> Requests \cup {None}]
    /\ slugLock \in [Slugs -> Requests \cup {None}]
    /\ request \in [Requests ->
          [at : {"idle", "locking", "reserving", "writing", "written"} \cup Ended,
           item : Items \cup {None},
           old : Slugs \cup {None},    \* oldSlug, None for Create
           new : Slugs \cup {None},    \* input.Slug
           need : SUBSET Slugs]]       \* the locks the trigger has still to take
    \* No lock survives its transaction, and no row or alias its item.
    /\ \A i \in Items : rowLock[i] # None => request[rowLock[i]].at \notin Ended
    /\ \A s \in Slugs :
          /\ slugLock[s] # None => request[slugLock[s]].at \notin Ended
          /\ alias[s] # None => slug[alias[s]] # None

\* Some items are there already, under slugs of their own.
Init ==
    /\ slug \in {f \in [Items -> Slugs \cup {None}] :
                    \A i, j \in Items : i # j /\ f[i] # None => f[i] # f[j]}
    /\ born = {i \in Items : slug[i] # None}
    /\ alias = [s \in Slugs |-> None]
    /\ rowLock = [i \in Items |-> None]
    /\ slugLock = [s \in Slugs |-> None]
    /\ request = [r \in Requests |-> Idle]

Goto(r, at) == request' = [request EXCEPT ![r].at = at]

Release(r) ==
    /\ rowLock' = [i \in Items |-> IF rowLock[i] = r THEN None ELSE rowLock[i]]
    /\ slugLock' = [s \in Slugs |-> IF slugLock[s] = r THEN None ELSE slugLock[s]]

-----------------------------------------------------------------------------
(* The handlers, once the session and the input are found good.            *)

\* The INSERT takes its id before the trigger runs.
Create(r, i, s) ==
    /\ request[r].at = "idle" /\ i \notin born
    /\ born' = born \cup {i}
    /\ request' = [request EXCEPT ![r] =
          [Idle EXCEPT !.at = "reserving", !.item = i, !.new = s, !.need = {s}]]
    /\ UNCHANGED <<slug, alias, rowLock, slugLock>>

Update(r, i, s) ==
    /\ request[r].at = "idle" /\ i \in born
    /\ request' = [request EXCEPT ![r] =
          [Idle EXCEPT !.at = "locking", !.item = i, !.new = s]]
    /\ UNCHANGED <<slug, born, alias, rowLock, slugLock>>

\* One statement that waits for the row; the aliases go with it.  A product of an
\* order stays.
Delete(r, i, ordered) ==
    /\ request[r].at = "idle" /\ i \in born /\ rowLock[i] = None
    /\ request' = [request EXCEPT ![r].item = i,
          ![r].at = IF slug[i] = None THEN "missing" ELSE IF ordered THEN "conflict" ELSE "done"]
    /\ IF slug[i] # None /\ ~ordered
       THEN /\ slug' = [slug EXCEPT ![i] = None]
            /\ alias' = [s \in Slugs |-> IF alias[s] = i THEN None ELSE alias[s]]
       ELSE UNCHANGED <<slug, alias>>
    /\ UNCHANGED <<born, rowLock, slugLock>>

-----------------------------------------------------------------------------
(* The statements of Create and of Update's transaction.                   *)

\* SELECT slug ... FOR UPDATE.
LockRow(r) ==
    LET i == request[r].item IN
    /\ request[r].at = "locking" /\ rowLock[i] = None
    /\ IF slug[i] = None
       THEN UNCHANGED rowLock /\ Goto(r, "missing")
       ELSE /\ rowLock' = [rowLock EXCEPT ![i] = r]
            /\ request' = [request EXCEPT ![r].at = "reserving", ![r].old = slug[i],
                                          ![r].need = {slug[i], request[r].new}]
    /\ UNCHANGED <<slug, born, alias, slugLock>>

NextLock_Unsorted(r) ==
    IF request[r].new \in request[r].need THEN request[r].new ELSE request[r].old

NextLock(r) == Min(request[r].need)

\* The trigger's loop over the old and the new slug.
ReserveSlug_Unlocked(r) ==
    /\ request[r].at = "reserving" /\ request[r].need # {}
    /\ request' = [request EXCEPT ![r].need = {}]
    /\ UNCHANGED <<slug, born, alias, rowLock, slugLock>>

ReserveSlug(r) ==
    /\ request[r].at = "reserving" /\ request[r].need # {}
    /\ LET s == NextLock(r) IN
          /\ slugLock[s] = None
          /\ slugLock' = [slugLock EXCEPT ![s] = r]
          /\ request' = [request EXCEPT ![r].need = request[r].need \ {s}]
    /\ UNCHANGED <<slug, born, alias, rowLock>>

\* Its check of the aliases.
CheckReserved(r) ==
    /\ request[r].at = "reserving" /\ request[r].need = {}
    /\ IF alias[request[r].new] \in {None, request[r].item}
       THEN UNCHANGED <<rowLock, slugLock>> /\ Goto(r, "writing")
       ELSE Release(r) /\ Goto(r, "conflict")
    /\ UNCHANGED <<slug, born, alias>>

\* The row is written; the UNIQUE index waits for a transaction that changes the
\* entry, then allows one.
WriteRow(r) ==
    LET new == request[r].new IN
    /\ request[r].at = "writing"
    /\ \A q \in Requests \ {r} : request[q].at = "written" => new \notin {request[q].old, request[q].new}
    /\ IF \E i \in Items \ {request[r].item} : slug[i] = new
       THEN Release(r) /\ Goto(r, "conflict")
       ELSE UNCHANGED <<rowLock, slugLock>> /\ Goto(r, "written")
    /\ UNCHANGED <<slug, born, alias>>

Commit_NoAlias(r) ==
    /\ request[r].at = "written"
    /\ slug' = [slug EXCEPT ![request[r].item] = request[r].new]
    /\ Release(r) /\ Goto(r, "done")
    /\ UNCHANGED <<alias, born>>

\* INSERT ... ON CONFLICT DO NOTHING of the old slug, if it changed, and COMMIT.
Commit(r) ==
    LET i == request[r].item
        old == request[r].old
    IN
    /\ request[r].at = "written"
    /\ slug' = [slug EXCEPT ![i] = request[r].new]
    /\ alias' = IF old \notin {None, request[r].new} /\ alias[old] = None
                THEN [alias EXCEPT ![old] = i] ELSE alias
    /\ Release(r) /\ Goto(r, "done")
    /\ UNCHANGED born

\* A statement fails, or the client goes: the transaction rolls back.
Fail(r) ==
    /\ request[r].at \notin {"idle"} \cup Ended
    /\ Release(r) /\ Goto(r, "failed")
    /\ UNCHANGED <<slug, born, alias>>

Serve(r) == LockRow(r) \/ ReserveSlug(r) \/ CheckReserved(r) \/ WriteRow(r) \/ Commit(r)

Next ==
    \/ \E r \in Requests, i \in Items :
          \/ \E s \in Slugs : Create(r, i, s) \/ Update(r, i, s)
          \/ \E ordered \in BOOLEAN : Delete(r, i, ordered)
    \/ \E r \in Requests : Serve(r) \/ Fail(r)

\* A request that can go on does.
Fairness == \A r \in Requests : WF_vars(Serve(r))

Spec == Init /\ [][Next]_vars /\ Fairness

-----------------------------------------------------------------------------
(* Properties.                                                             *)

\* GetBySlug: the item that has the slug, or else the one it is an alias of.
GetBySlug(s) ==
    IF \E i \in Items : slug[i] = s THEN CHOOSE i \in Items : slug[i] = s ELSE alias[s]

\* A public link never starts to show another item while its own is there: however
\* renames race, a slug that once led to an item leads to it until its deletion.
LinksKeepTheirItem ==
    [][\A s \in Slugs : GetBySlug(s) # None =>
          GetBySlug(s)' = GetBySlug(s) \/ slug'[GetBySlug(s)] = None]_vars

\* A slug in use is an alias of no other item.
AliasesYield ==
    \A s \in Slugs, i \in Items : slug[i] = s => alias[s] \in {None, i}

\* The sorted locks leave no two renames waiting for each other, not even two that
\* swap their slugs.  (Each is made once: all of them end when again and again none
\* is on its way.)
EveryRequestEnds == []<>(\A r \in Requests : request[r].at \in {"idle"} \cup Ended)

\* A link means one item, and the same one.
SlugsSafety ==
    /\ [](TypeOK /\ AliasesYield)
    /\ LinksKeepTheirItem
=============================================================================
