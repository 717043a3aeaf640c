------------------------------ MODULE Categories ----------------------------
(***************************************************************************)
(* Categories and the items filed under them (category/ with product/, and *)
(* articlecategory/ with article/): the deletion of a category against the *)
(* saves that file items under it.  A step is one statement, or one wait   *)
(* inside a statement; what a transaction wrote is seen when it commits.   *)
(* The foreign key is the migrations': a save holds the key of the         *)
(* category it names, a deletion clears the items (ON DELETE SET NULL).    *)
(*                                                                         *)
(* An operator whose name has an underscore is a faulty variant of the     *)
(* operator that follows it; no specification uses it.                     *)
(***************************************************************************)
EXTENDS FiniteSets, Naturals

CONSTANTS
    Items,         \* products, or articles
    Categories,
    Requests,
    None,          \* no category
    Products       \* TRUE for products and categories, FALSE for articles and theirs

CategoriesAssumption ==
    /\ None \notin Items \cup Categories \cup Requests
    /\ Items \cap Categories = {}      \* rows of different tables
    /\ Products \in BOOLEAN

VARIABLES
    there,         \* the categories
    filed,         \* the items that exist, each with its category
    request        \* the requests

vars == <<there, filed, request>>

Idle == [at |-> "idle", item |-> None, category |-> None, holds |-> {}]

Ended == {"done", "missing", "referenced", "unfiled", "failed"}

\* Rows are locked by what a request holds: an item or a category for itself, or
\* the key of a category together with other saves.
TypeOK ==
    /\ there \in SUBSET Categories
    /\ \E some \in SUBSET Items : filed \in [some -> Categories \cup {None}]
    /\ request \in [Requests ->
          [at : {"idle", "checking", "locking", "writing", "written",
                 "counting", "deleting", "detaching", "deleted"} \cup Ended,
           item : Items \cup {None},            \* None for a deletion
           category : Categories \cup {None},
           holds : SUBSET (Items \cup Categories)]]
    /\ \A r \in Requests :
          /\ request[r].at \in Ended => request[r].holds = {}
          /\ \A q \in Requests \ {r} : request[q].holds \cap request[r].holds \cap Items = {}

Init ==
    /\ there = Categories
    /\ \E some \in SUBSET Items : filed \in [some -> Categories \cup {None}]
    /\ request = [r \in Requests |-> Idle]

Goto(r, at) == request' = [request EXCEPT ![r].at = at]

End(r, at) == request' = [request EXCEPT ![r].at = at, ![r].holds = {}]

Holding(r, rows, at) ==
    request' = [request EXCEPT ![r].at = at, ![r].holds = request[r].holds \cup rows]

Filed(c) == {i \in DOMAIN filed : filed[i] = c}

\* The items that an INSERT or an UPDATE makes; a lost INSERT gives its id up too.
Born == DOMAIN filed \cup {request[r].item : r \in Requests}

-----------------------------------------------------------------------------
(* The handlers, once the session and the input are found good.  An update *)
(* that names no category keeps the one that is there.                     *)

Begin(r, i, c, at) ==
    /\ request[r].at = "idle"
    /\ request' = [request EXCEPT ![r] = [Idle EXCEPT !.at = at, !.item = i, !.category = c]]
    /\ UNCHANGED <<there, filed>>

\* An article's handler looks for the category first.
Create(r, i, c) ==
    /\ i \notin Born
    /\ Begin(r, i, c, IF Products \/ c = None THEN "writing" ELSE "checking")

Update(r, i, c) ==
    /\ i \in DOMAIN filed
    /\ Begin(r, i, c, IF Products \/ c = None THEN "locking" ELSE "checking")

Delete(r, c) == Begin(r, None, c, IF Products THEN "counting" ELSE "deleting")

-----------------------------------------------------------------------------
(* Who waits for whom.                                                     *)

KeyWanted_Always(r) == request[r].category # None

\* The foreign key is looked at when the row is new or its category changes.
KeyWanted(r) ==
    LET i == request[r].item
        c == request[r].category
    IN  c # None /\ (i \in DOMAIN filed => filed[i] # c)

\* The row or rows that r's next statement waits for.
Wanted(r) ==
    IF request[r].at = "locking" THEN {request[r].item}
    ELSE IF request[r].at = "writing" /\ KeyWanted(r) THEN {request[r].category}
    ELSE IF request[r].at = "deleting" THEN {request[r].category}
    ELSE IF request[r].at = "detaching" THEN Filed(request[r].category)
    ELSE {}

Saving(r) == request[r].item # None

\* Saves share the key of a category; a deletion does not.
Blockers(r) ==
    {q \in Requests \ {r} :
        \E x \in Wanted(r) \cap request[q].holds : x \in Items \/ ~(Saving(r) /\ Saving(q))}

\* In a set like this each request waits for another one; the smallest are rings.
Stuck(some) == some # {} /\ \A p \in some : Blockers(p) \cap some # {}

InARing(r) ==
    /\ Blockers(r) # {}
    /\ \E some \in SUBSET {q \in Requests : Blockers(q) # {}} :
          /\ r \in some /\ Stuck(some)
          /\ \A q \in some : \A fewer \in SUBSET (some \ {q}) : ~Stuck(fewer)

-----------------------------------------------------------------------------
(* The statements of a save.                                               *)

\* article/handler.go: categoryExists.
CheckCategory(r) ==
    /\ request[r].at = "checking"
    /\ IF request[r].category \notin there THEN End(r, "unfiled")
       ELSE Goto(r, IF request[r].item \in DOMAIN filed THEN "locking" ELSE "writing")
    /\ UNCHANGED <<there, filed>>

\* SELECT ... FOR UPDATE.
LockItem(r) ==
    /\ request[r].at = "locking" /\ Blockers(r) = {}
    /\ Holding(r, {request[r].item}, "writing")
    /\ UNCHANGED <<there, filed>>

WriteItem_NoKey(r) ==
    /\ request[r].at = "writing" /\ Blockers(r) = {}
    /\ IF KeyWanted(r) /\ request[r].category \notin there
       THEN End(r, "unfiled") ELSE Goto(r, "written")
    /\ UNCHANGED <<there, filed>>

\* The INSERT or the UPDATE, refused when the category is gone.
WriteItem(r) ==
    /\ request[r].at = "writing" /\ Blockers(r) = {}
    /\ IF KeyWanted(r) /\ request[r].category \notin there THEN End(r, "unfiled")
       ELSE Holding(r, {request[r].item} \cup IF KeyWanted(r) THEN {request[r].category} ELSE {},
                    "written")
    /\ UNCHANGED <<there, filed>>

\* The saved category: clear says that an update's payload has an explicit null.
CommitItem(r, clear) ==
    LET i == request[r].item
        c == request[r].category
    IN
    /\ request[r].at = "written" /\ Saving(r)
    /\ filed' = [j \in DOMAIN filed \cup {i} |->
          IF j # i THEN filed[j]
          ELSE IF c = None /\ ~clear /\ i \in DOMAIN filed THEN filed[i] ELSE c]
    /\ End(r, "done")
    /\ UNCHANGED there

-----------------------------------------------------------------------------
(* The statements of a deletion.                                           *)

\* SELECT EXISTS ... FROM products.
Count(r) ==
    /\ request[r].at = "counting"
    /\ IF Filed(request[r].category) # {} THEN End(r, "referenced") ELSE Goto(r, "deleting")
    /\ UNCHANGED <<there, filed>>

\* DELETE: it waits for the row,
DeleteRow(r) ==
    /\ request[r].at = "deleting" /\ Blockers(r) = {}
    /\ IF request[r].category \in there
       THEN Holding(r, {request[r].category}, "detaching") ELSE End(r, "missing")
    /\ UNCHANGED <<there, filed>>

\* and its foreign key for the items that are filed there by now.
Detach(r) ==
    /\ request[r].at = "detaching" /\ Blockers(r) = {}
    /\ Holding(r, Filed(request[r].category), "deleted")
    /\ UNCHANGED <<there, filed>>

Commit_KeepLocks(r) ==
    LET c == request[r].category IN
    /\ request[r].at = "deleted"
    /\ there' = there \ {c}
    /\ filed' = [i \in DOMAIN filed |-> IF filed[i] = c THEN None ELSE filed[i]]
    /\ Goto(r, "done")

Commit(r) ==
    LET c == request[r].category IN
    /\ request[r].at = "deleted"
    /\ there' = there \ {c}
    /\ filed' = [i \in DOMAIN filed |-> IF filed[i] = c THEN None ELSE filed[i]]
    /\ End(r, "done")

\* A statement fails, or the client goes: the transaction rolls back.
Fail(r) ==
    /\ request[r].at \notin {"idle"} \cup Ended
    /\ End(r, "failed")
    /\ UNCHANGED <<there, filed>>

\* PostgreSQL ends one of the transactions that wait for each other.
EndDeadlock(r) == InARing(r) /\ Fail(r)

Serve(r) ==
    \/ CheckCategory(r) \/ LockItem(r) \/ WriteItem(r)
    \/ \E clear \in BOOLEAN : CommitItem(r, clear)
    \/ Count(r) \/ DeleteRow(r) \/ Detach(r) \/ Commit(r)

Next ==
    \/ \E r \in Requests, c \in Categories :
          \/ Delete(r, c)
          \/ \E i \in Items, to \in {c, None} : Create(r, i, to) \/ Update(r, i, to)
    \/ \E r \in Requests : Serve(r) \/ Fail(r)

\* A request that can go on does, and deadlocks are detected.
Fairness == \A r \in Requests : WF_vars(Serve(r)) /\ WF_vars(EndDeadlock(r))

Spec == Init /\ [][Next]_vars /\ Fairness

-----------------------------------------------------------------------------
(* Properties.                                                             *)

\* No item is filed under a category that is gone, whichever save races which
\* deletion.
FiledUnderWhatIsThere == \A i \in DOMAIN filed : filed[i] \in there \cup {None}

\* Saves alone never deadlock, nor do they with one deletion: a save takes its item
\* before the key, and a deletion the category before the items.
RingsNeedTwoDeletions ==
    (\E r \in Requests : InARing(r)) =>
        Cardinality({r \in Requests : InARing(r) /\ ~Saving(r)}) >= 2

\* What no interleaving of saves and deletions breaks.
CategoriesSafety == TypeOK /\ FiledUnderWhatIsThere /\ RingsNeedTwoDeletions

\* Every request comes to its end, a deadlocked one by being rolled back: each is
\* made once, and again and again none is on its way.
EveryRequestEnds == []<>(\A r \in Requests : request[r].at \in {"idle"} \cup Ended)

\* What category/repository.go says of Delete: it uncategorizes no product
\* silently, and a product update at the same time is no exception.
NothingIsUnfiledSilently ==
    [][\A r \in Requests :
          request[r].at = "deleted" /\ request'[r].at = "done" => Filed(request[r].category) = {}]_vars
=============================================================================
