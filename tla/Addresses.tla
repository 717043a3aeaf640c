------------------------------ MODULE Addresses -----------------------------
(***************************************************************************)
(* The address book (address/): concurrent transactions that move a user's *)
(* default address.  A step is one statement; what a transaction has       *)
(* written is seen by the others when it commits, and until then they wait *)
(* for its rows and for its entry of the unique index on the default.  An  *)
(* address is named by the request that created it; its text is left out.  *)
(*                                                                         *)
(* An operator whose name has an underscore is a faulty variant of the     *)
(* operator that follows it; no specification uses it.                     *)
(***************************************************************************)
EXTENDS Naturals

CONSTANTS Users, Requests, None

AddressesAssumption == None \notin Users \cup Requests

VARIABLES
    book,      \* user_addresses, by the request that created the row
    holder,    \* the transaction that holds a row
    request    \* the requests

vars == <<book, holder, request>>

NoAddress == [row |-> FALSE, owner |-> None, default |-> FALSE]

Idle == [at |-> "idle", user |-> None, address |-> None, default |-> FALSE,
         seen |-> {}, cleared |-> {}]

TypeOK ==
    /\ book \in [Requests -> [row : BOOLEAN, owner : Users \cup {None}, default : BOOLEAN]]
    /\ holder \in [Requests -> Requests \cup {None}]
    /\ request \in [Requests ->
          [at : {"idle", "locking", "scanning", "clearing", "writing", "written",
                 "done", "missing", "conflict", "failed"},
           user : Users \cup {None},
           address : Requests \cup {None},   \* the row it writes, its own for Create
           default : BOOLEAN,                \* input.IsDefault
           seen : SUBSET Requests,           \* the defaults its UPDATE has found
           cleared : SUBSET Requests]]       \* the defaults it has cleared
    \* A row is held by a transaction that is still open.
    /\ \A a \in Requests : holder[a] # None =>
          request[holder[a]].at \in {"scanning", "clearing", "writing", "written"}

Init ==
    /\ book = [a \in Requests |-> NoAddress]
    /\ holder = [a \in Requests |-> None]
    /\ request = [r \in Requests |-> Idle]

Goto(r, at) == request' = [request EXCEPT ![r].at = at]

Defaults(u) == {a \in Requests : book[a].row /\ book[a].owner = u /\ book[a].default}

Begin(r, u, a, d, at) ==
    /\ request[r].at = "idle"
    /\ request' = [request EXCEPT ![r] =
          [Idle EXCEPT !.at = at, !.user = u, !.address = a, !.default = d]]
    /\ UNCHANGED <<book, holder>>

-----------------------------------------------------------------------------
(* The handlers, once the session and the input are found good.            *)

Create(r, u, d) == Begin(r, u, r, d, IF d THEN "scanning" ELSE "writing")

Update(r, u, a, d) == Begin(r, u, a, d, "locking")

Mine(u, a) == book[a].row /\ book[a].owner = u

\* One statement; it waits for the row.
Delete(r, u, a) ==
    /\ request[r].at = "idle" /\ holder[a] = None
    /\ book' = IF Mine(u, a) THEN [book EXCEPT ![a].row = FALSE] ELSE book
    /\ request' = [request EXCEPT ![r].at = IF Mine(u, a) THEN "done" ELSE "missing",
                                  ![r].user = u, ![r].address = a]
    /\ UNCHANGED holder

-----------------------------------------------------------------------------
(* The statements of Create's and Update's transactions.                   *)

\* SELECT ... FOR UPDATE.
LockOwn(r) ==
    LET a == request[r].address IN
    /\ request[r].at = "locking" /\ holder[a] = None
    /\ IF Mine(request[r].user, a)
       THEN /\ holder' = [holder EXCEPT ![a] = r]
            /\ Goto(r, IF request[r].default /\ ~book[a].default THEN "scanning" ELSE "writing")
       ELSE UNCHANGED holder /\ Goto(r, "missing")
    /\ UNCHANGED book

\* UPDATE ... WHERE is_default: its snapshot.
FindDefaults(r) ==
    /\ request[r].at = "scanning"
    /\ request' = [request EXCEPT ![r].at = "clearing",
                                  ![r].seen = Defaults(request[r].user)]
    /\ UNCHANGED <<book, holder>>

ClearDefaults_AtOnce(r) ==
    LET due == {a \in request[r].seen : a \in Defaults(request[r].user)} IN
    /\ request[r].at = "clearing"
    /\ \A a \in request[r].seen : holder[a] = None
    /\ book' = [a \in Requests |->
          IF a \in due THEN [book[a] EXCEPT !.default = FALSE] ELSE book[a]]
    /\ Goto(r, "writing")
    /\ UNCHANGED holder

\* It waits for each row that it found, and looks at it again.
ClearDefaults(r) ==
    LET due == {a \in request[r].seen : a \in Defaults(request[r].user)} IN
    /\ request[r].at = "clearing"
    /\ \A a \in request[r].seen : holder[a] = None
    /\ holder' = [a \in Requests |-> IF a \in due THEN r ELSE holder[a]]
    /\ request' = [request EXCEPT ![r].at = "writing", ![r].cleared = due]
    /\ UNCHANGED book

Release(r) == holder' = [a \in Requests |-> IF holder[a] = r THEN None ELSE holder[a]]

\* An uncommitted change of the entry that idx_user_addresses_one_default_per_user
\* has for u.
EntryChanging(q, u) ==
    /\ request[q].user = u
    /\ \/ /\ request[q].at = "written"
          /\ request[q].default \/ request[q].address \in Defaults(u)
       \/ request[q].at \in {"writing", "written"} /\ request[q].cleared # {}

OtherDefault_Unindexed(r) == FALSE

OtherDefault(r) ==
    Defaults(request[r].user) \ (request[r].cleared \cup {request[r].address}) # {}

\* The INSERT or the UPDATE of the row.  Only a default has an index entry: the
\* write waits for the entry, and fails if there is one when it is settled.
Write(r) ==
    /\ request[r].at = "writing"
    /\ request[r].default => \A q \in Requests \ {r} : ~EntryChanging(q, request[r].user)
    /\ IF request[r].default /\ OtherDefault(r)
       THEN Release(r) /\ Goto(r, "conflict")
       ELSE UNCHANGED holder /\ Goto(r, "written")
    /\ UNCHANGED book

Commit_KeepLocks(r) ==
    /\ request[r].at = "written"
    /\ book' = [a \in Requests |->
          IF a = request[r].address
          THEN [row |-> TRUE, owner |-> request[r].user, default |-> request[r].default]
          ELSE IF a \in request[r].cleared THEN [book[a] EXCEPT !.default = FALSE]
          ELSE book[a]]
    /\ Goto(r, "done")
    /\ UNCHANGED holder

Commit(r) ==
    /\ request[r].at = "written"
    /\ book' = [a \in Requests |->
          IF a = request[r].address
          THEN [row |-> TRUE, owner |-> request[r].user, default |-> request[r].default]
          ELSE IF a \in request[r].cleared THEN [book[a] EXCEPT !.default = FALSE]
          ELSE book[a]]
    /\ Release(r) /\ Goto(r, "done")

Ended == {"done", "missing", "conflict", "failed"}

\* A statement fails, or the client goes: the transaction rolls back.
Fail(r) ==
    /\ request[r].at \notin {"idle"} \cup Ended
    /\ Release(r) /\ Goto(r, "failed")
    /\ UNCHANGED book

Serve(r) == LockOwn(r) \/ FindDefaults(r) \/ ClearDefaults(r) \/ Write(r) \/ Commit(r)

Next ==
    \/ \E r \in Requests, u \in Users, d \in BOOLEAN :
          \/ Create(r, u, d)
          \/ \E a \in Requests \ {r} : Update(r, u, a, d) \/ Delete(r, u, a)
    \/ \E r \in Requests : Serve(r) \/ Fail(r)

\* A request that can go on does.
Fairness == \A r \in Requests : WF_vars(Serve(r))

Spec == Init /\ [][Next]_vars /\ Fairness

-----------------------------------------------------------------------------
(* Properties.                                                             *)

\* A user has one default address at most, whichever requests race.
OneDefault == \A u \in Users : \A a, b \in Defaults(u) : a = b

\* The default moves in one step: it goes away only when its own row is deleted
\* or saved without the mark, never because another request failed half way.
DefaultIsKept ==
    [][\A u \in Users : Defaults(u) # {} /\ Defaults(u)' = {} =>
          \E a \in Defaults(u), r \in Requests :
              request[r].at # "done" /\ request'[r].at = "done" /\ request'[r].user = u
              /\ request'[r].address = a]_vars

\* No two of them wait for each other: rows are taken before the index entry, the
\* row to be written before the default.  (Each is made once: all of them end when
\* again and again none is on its way.)
EveryRequestEnds == []<>(\A r \in Requests : request[r].at \in {"idle"} \cup Ended)

\* A user who has a default address has one, and keeps one.
AddressesSafety ==
    /\ []TypeOK
    /\ []OneDefault
    /\ DefaultIsKept
=============================================================================
