------------------------------- MODULE Coupons ------------------------------
(***************************************************************************)
(* The console's coupons (coupon/).  AdminUpdate reads a coupon, merges    *)
(* the fields it was given into what it read, validates the result and     *)
(* writes the whole row; a coupon is never deleted.  "limit" stands for    *)
(* usage_limit and per_user_limit, which are treated alike, and            *)
(* min_order_amount and is_active are left out: their only rule is a sign. *)
(* What a coupon takes off an order is in Pricing, its redemptions are in  *)
(* Checkout.                                                               *)
(*                                                                         *)
(* An operator whose name has an underscore is a faulty variant of the     *)
(* operator that follows it; no specification uses it.                     *)
(***************************************************************************)
EXTENDS Integers

CONSTANTS
    Ids, Requests,
    Codes,        \* normalised codes
    Blank,        \* what a code of spaces becomes
    None,         \* null, or nothing
    Omitted,      \* a field the body does not have
    Malformed,    \* a value of another type
    Percent,      \* the greatest percentage, 100 in the code
    MaxInt4       \* the greatest limit the column holds; the code's is an int

CouponsAssumption ==
    /\ Blank \notin {None, Omitted, Malformed} /\ None \notin {Omitted, Malformed}
    /\ Omitted # Malformed
    /\ {Blank, None, Omitted, Malformed} \cap (Codes \cup Requests \cup {"percent", "fixed"}) = {}
    /\ Percent \in Nat /\ MaxInt4 \in Nat

VARIABLES
    coupon,    \* coupons; None where there is no row
    request    \* the requests

vars == <<coupon, request>>

Kinds  == {"percent", "fixed"}
Values == 0..Percent + 1
Limits == 0..MaxInt4 + 1
Dates  == 0..2   \* 0 is the zero time of Go, long past

Fields   == {"code", "kind", "value", "limit", "starts", "ends"}
Nullable == {"limit", "starts", "ends"}

Rows == [code : Codes \cup {Blank}, kind : Kinds, value : Values,
         limit : Limits \cup {None}, starts : Dates \cup {None}, ends : Dates \cup {None}]

\* Bound: what AdminCreate is given has no zero time.
Created == {row \in Rows : 0 \notin {row.starts, row.ends}}

\* What the body of AdminUpdate may have in a field.  Only the nullable fields are decoded
\* a second time, with the error ignored; another one of a wrong type fails the request at
\* once.
Given == [code |-> Codes \cup {Blank}, kind |-> Kinds, value |-> Values,
          limit |-> Limits \cup {None, Malformed}, starts |-> 1..2 \cup {None, Malformed},
          ends |-> 1..2 \cup {None, Malformed}]

\* Bound: a body has one field.
Bodies == UNION {{[f \in Fields |-> IF f = g THEN v ELSE Omitted] : v \in Given[g]} : g \in Fields}

\* ValidateCreateInput, ApplyUpdate: the rules of both.
Valid(row) ==
    /\ row.code # Blank
    /\ row.value >= 1 /\ (row.kind = "percent" => row.value <= Percent)
    /\ row.limit = None \/ row.limit > 0
    /\ row.starts = None \/ row.ends = None \/ row.starts < row.ends

\* The CHECKs of the table, and the width of its limits.
Storable(row) ==
    /\ row.code # Blank
    /\ row.kind = "percent" => row.value \in 1..Percent
    /\ row.kind = "fixed" => row.value > 0
    /\ row.limit # None => row.limit \in 1..MaxInt4
    /\ (row.starts # None /\ row.ends # None) => row.starts < row.ends

Idle == [at |-> "idle", id |-> None, body |-> None, before |-> None, updated |-> None]

\* Every row keeps the table's CHECKs and the unique index on the code.
Consistent ==
    /\ \A i \in Ids : coupon[i] # None => Storable(coupon[i])
    /\ \A i, j \in Ids : i # j /\ coupon[i] # None /\ coupon[j] # None
                         => coupon[i].code # coupon[j].code

TypeOK ==
    /\ coupon \in [Ids -> Rows \cup {None}]
    /\ request \in [Requests ->
          [at : {"idle", "writing", "done", "invalid", "missing", "duplicate", "refused", "failed"},
           id : Ids \cup {None},
           body : Bodies \cup {None},
           before : Rows \cup {None},      \* existing
           updated : Rows \cup {None}]]    \* what ApplyUpdate made of it
    /\ Consistent

\* Some coupons are there already.
Init ==
    /\ coupon \in [Ids -> {row \in Created : Storable(row)} \cup {None}]
    /\ Consistent
    /\ request = [r \in Requests |-> Idle]

-----------------------------------------------------------------------------

\* One INSERT or UPDATE: the CHECKs, then the unique index.
Store(r, i, row, q) ==
    LET result == IF ~Storable(row) THEN "refused"
                  ELSE IF \E j \in Ids \ {i} : coupon[j] # None /\ coupon[j].code = row.code
                       THEN "duplicate" ELSE "done"
    IN  /\ coupon' = IF result = "done" THEN [coupon EXCEPT ![i] = row] ELSE coupon
        /\ request' = [request EXCEPT ![r] = [q EXCEPT !.at = result]]

AdminCreate(r, i) ==
    /\ request[r].at = "idle" /\ coupon[i] = None
    /\ \E row \in Created :
          IF Valid(row) THEN Store(r, i, row, Idle)
          ELSE /\ request' = [request EXCEPT ![r].at = "invalid"]
               /\ UNCHANGED coupon

\* toUpdateInput: json points to a zero value before it finds that it cannot fill it.
Decoded(v) == IF v = Malformed THEN 0 ELSE v

ApplyUpdate_NoneForOmitted(existing, b) ==
    [f \in Fields |-> IF b[f] # Omitted THEN Decoded(b[f])
                      ELSE IF f \in Nullable THEN None ELSE existing[f]]

ApplyUpdate(existing, b) ==
    [f \in Fields |-> IF b[f] # Omitted THEN Decoded(b[f]) ELSE existing[f]]

\* AdminUpdate up to its write: GetByID, ApplyUpdate.
AdminUpdate(r, i) ==
    LET before  == coupon[i] IN
    /\ request[r].at = "idle"
    /\ \E b \in Bodies :
          LET updated == ApplyUpdate(before, b) IN
          request' = [request EXCEPT ![r] =
              IF before = None THEN [Idle EXCEPT !.at = "missing"]
              ELSE IF Valid(updated)
                   THEN [at |-> "writing", id |-> i, body |-> b, before |-> before,
                         updated |-> updated]
                   ELSE [Idle EXCEPT !.at = "invalid"]]
    /\ UNCHANGED coupon

Update_Given(r) ==
    LET q == request[r] IN
    /\ q.at = "writing"
    /\ Store(r, q.id, ApplyUpdate(coupon[q.id], q.body), q)

\* repository.Update: the whole row.
Update(r) ==
    LET q == request[r] IN
    /\ q.at = "writing"
    /\ Store(r, q.id, q.updated, q)

\* A statement fails, or the client goes.
Fail(r) ==
    /\ request[r].at = "writing"
    /\ request' = [request EXCEPT ![r].at = "failed"]
    /\ UNCHANGED coupon

Next ==
    \E r \in Requests :
       \/ \E i \in Ids : AdminCreate(r, i) \/ AdminUpdate(r, i)
       \/ Update(r) \/ Fail(r)

Spec == Init /\ [][Next]_vars

-----------------------------------------------------------------------------
(* Properties.                                                             *)

\* What the code's rules let through the table takes, except a limit wider than its
\* column: edits that race cannot be put together to a coupon neither of them validated.
ValidatedIsStored ==
    \A r \in Requests :
       request[r].at = "refused" /\ request[r].updated # None =>
          request[r].updated.limit \in Limits /\ request[r].updated.limit > MaxInt4

\* An edit takes back what another has changed only in a race: else a field it did not
\* carry stays.
EditsAreLostInRacesOnly ==
    [][\A r \in Requests :
          LET q == request[r] IN
          q.at = "writing" /\ request'[r].at = "done" /\ q.before = coupon[q.id] =>
             \A f \in Fields : q.body[f] = Omitted => coupon'[q.id][f] = coupon[q.id][f]]_vars

\* Edits together leave coupons that the rules allow, and lose nothing but in a race.
CouponsSafety ==
    /\ []TypeOK
    /\ []ValidatedIsStored
    /\ EditsAreLostInRacesOnly
=============================================================================
