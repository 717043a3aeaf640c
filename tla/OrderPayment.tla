---------------------------- MODULE OrderPayment ----------------------------
(***************************************************************************)
(* Orders, their ZarinPal payment attempts and the two maintenance scans.  *)
(*                                                                         *)
(* Every database transaction of order/repository.go, order/expiry.go and  *)
(* payment/repository.go that touches an order or one of its attempts      *)
(* first takes the row lock of the order (SELECT ... FOR UPDATE), so it is *)
(* ONE action here.  What runs between transactions is separate: the call  *)
(* to the gateway, the reads a handler makes before its transaction, the   *)
(* snapshot of a scan before the row locks.                                *)
(*                                                                         *)
(* Orders exist from the start, just placed: Checkout.tla places them.     *)
(*                                                                         *)
(* An operator whose name has an underscore (Blocking_OnlyIssued) is a     *)
(* faulty variant of the operator that follows it.  No specification uses  *)
(* it: it serves to show that a property notices the fault.                *)
(***************************************************************************)
EXTENDS Naturals, FiniteSets

CONSTANTS
    Orders,            \* orders that CreateFromCart has just placed
    Payable,           \* those with total >= 10000 IRR, the gateway's minimum
    Attempts,          \* identities of rows of payment_attempts (bounds retries)
    Refs,              \* the gateway's reference ids
    Verifiers,         \* callback and admin requests that may run at once
    Maint,             \* the maintenance goroutine of main.go
    ScanLimit,         \* LIMIT 20 of ExpireAbandoned
    ReservationLimit,  \* LIMIT 20 of ExpireReservations
    NoOrder, NoAttempt, NoRef

ASSUME ConstantsAssumption ==
    /\ Payable \subseteq Orders
    /\ ScanLimit \in Nat \ {0} /\ ReservationLimit \in Nat \ {0}
    /\ Maint \notin Verifiers
    /\ NoOrder \notin Orders /\ NoAttempt \notin Attempts /\ NoRef \notin Refs

VARIABLES
    order,     \* rows of orders: status, payment_status, payment_method, and
               \* due: created_at is before the reservation cutoff
    restored,  \* how many times the order's items went back to products.stock
    redeemed,  \* orders whose coupon redemption is not released
    attempt,   \* rows of payment_attempts with the type of their last event
    older,     \* older[a]: the attempts with an earlier updated_at than a
    request,   \* progress of RequestZarinPal for the attempt it created
    captured,  \* gateway: the reference of the money it captured, or NoRef
    verifier,  \* requests that verify an attempt, and the maintenance loop
    pass,      \* what the maintenance loop is doing
    batch,     \* attempts ExpireAbandoned selected and has not handled
    scan,      \* orders in the snapshot of ExpireReservations
    outbox     \* event keys of notification_outbox: <<order, kind>>

orderVars   == <<order, restored, redeemed>>
attemptVars == <<attempt, older>>
maintVars   == <<pass, batch, scan>>
vars == <<orderVars, attemptVars, request, captured, verifier, maintVars, outbox>>

Statuses        == {"pending", "processing", "shipped", "delivered", "cancelled"}
PaymentStatuses == {"pending", "paid", "failed", "refunded"}
Methods         == {"manual", "zarinpal"}
AttemptStatuses == {"none", "pending", "paid", "failed", "reconciliation", "expired"}
Settled         == {"paid", "reconciliation"}
\* provider_code: -51 (the session was not paid), any other negative code,
\* 100 or 101 (captured), or NULL.
Codes           == {"none", "unpaid", "other", "ok"}
\* The last event of an attempt among those LastOutcome reads.
Outcomes        == {"none", "verify_rejected", "verify_uncertain"} \cup Settled
\* What the gateway answers a verification; "uncertain" is an error, a
\* timeout or a response that cannot be understood.
Answers         == {"none", "success", "unpaid", "other", "uncertain"}
Phases          == {"none", "calling", "accepted", "refused", "redirected", "done"}
Steps           == {"idle", "calling", "answered", "reread", "expire"}
Events          == {"created", "cancelled", "payment_succeeded", "payment_failed"}
                     \cup {"processing", "shipped", "delivered"}

OrderRow   == [status : Statuses, pay : PaymentStatuses, method : Methods, due : BOOLEAN]
AttemptRow == [order : Orders \cup {NoOrder}, status : AttemptStatuses,
               authority : BOOLEAN, code : Codes, outcome : Outcomes,
               ref : Refs \cup {NoRef}, due : BOOLEAN]
VerifierState == [step : Steps, attempt : Attempts \cup {NoAttempt}, answer : Answers]

NoAttemptRow == [order |-> NoOrder, status |-> "none", authority |-> FALSE, code |-> "none",
                 outcome |-> "none", ref |-> NoRef, due |-> FALSE]
Idle         == [step |-> "idle", attempt |-> NoAttempt, answer |-> "none"]

TypeOK ==
    /\ order \in [Orders -> OrderRow]
    /\ restored \in [Orders -> Nat]
    /\ redeemed \in SUBSET Orders
    /\ attempt \in [Attempts -> AttemptRow]
    /\ older \in [Attempts -> SUBSET Attempts]
    /\ request \in [Attempts -> Phases]
    /\ captured \in [Attempts -> Refs \cup {NoRef}]
    /\ verifier \in [Verifiers \cup {Maint} -> VerifierState]
    /\ pass \in {"idle", "attempts", "reservations"}
    /\ batch \in SUBSET Attempts
    /\ scan \in SUBSET Orders
    /\ outbox \in SUBSET (Orders \X Events)

Init ==
    /\ order = [o \in Orders |-> [status |-> "pending", pay |-> "pending",
                                  method |-> "manual", due |-> FALSE]]
    /\ restored = [o \in Orders |-> 0]
    /\ redeemed \in SUBSET Orders
    /\ attempt = [a \in Attempts |-> NoAttemptRow]
    /\ older = [a \in Attempts |-> {}]
    /\ request = [a \in Attempts |-> "none"]
    /\ captured = [a \in Attempts |-> NoRef]
    /\ verifier = [v \in Verifiers \cup {Maint} |-> Idle]
    /\ pass = "idle"
    /\ batch = {}
    /\ scan = {}
    /\ outbox = Orders \X {"created"}

-----------------------------------------------------------------------------
(* The helpers the transactions share.                                     *)

Created == {a \in Attempts : attempt[a].status # "none"}

\* As if the scan were ordered by created_at.
Touch_OnlyWhenCreated(a) ==
    older' = IF a \in Created THEN older ELSE [older EXCEPT ![a] = Created]

\* updated_at = NOW(): a becomes the most recently updated attempt.
Touch(a) ==
    older' = [b \in Attempts |-> IF b = a THEN Created \ {a} ELSE older[b] \ {a}]

Blocking_OnlyIssued(a) == attempt[a].authority /\ attempt[a].status # "expired"

\* The attempt keeps the order from being paid again or given up.
Blocking(a) ==
    \/ attempt[a].status \in {"pending", "paid", "reconciliation"}
    \/ attempt[a].authority /\ attempt[a].status # "expired"

AttemptBlocks(o) == \E a \in Attempts : attempt[a].order = o /\ Blocking(a)

PaymentBlocksCancellation(o) == order[o].pay \in {"paid", "refunded"} \/ AttemptBlocks(o)

\* An order on its way could still be given up.
CanTransition_AlsoFromShipped(from, to) ==
    \/ from = "pending"    /\ to \in {"processing", "cancelled"}
    \/ from = "processing" /\ to \in {"shipped", "cancelled"}
    \/ from = "shipped"    /\ to \in {"delivered", "cancelled"}

CanTransition(from, to) ==
    \/ from = "pending"    /\ to \in {"processing", "cancelled"}
    \/ from = "processing" /\ to \in {"shipped", "cancelled"}
    \/ from = "shipped"    /\ to = "delivered"

RequiresPaidPayment_FromShipped(method, to) ==
    method = "zarinpal" /\ to \in {"shipped", "delivered"}

RequiresPaidPayment(method, to) ==
    method = "zarinpal" /\ to \in {"processing", "shipped", "delivered"}

GiveBack_TakesAgain(S) ==
    /\ restored' = [o \in Orders |-> IF o \in S THEN restored[o] - 1 ELSE restored[o]]
    /\ redeemed' = redeemed \ S

\* restoreOrderStock and ReleaseRedemptionForOrder for every order of S.
GiveBack(S) ==
    /\ restored' = [o \in Orders |-> IF o \in S THEN restored[o] + 1 ELSE restored[o]]
    /\ redeemed' = redeemed \ S

\* OrderEventTx: an event key is inserted once, a conflict does nothing.
OrderEvent(o, kind) == outbox' = outbox \cup {<<o, kind>>}

SetStatus(S, s) ==
    order' = [o \in Orders |-> IF o \in S THEN [order[o] EXCEPT !.status = s] ELSE order[o]]

-----------------------------------------------------------------------------
(* The orders' own transactions.                                           *)

UpdateStatus(o, s) ==
    /\ CanTransition(order[o].status, s)
    /\ RequiresPaidPayment(order[o].method, s) => order[o].pay = "paid"
    /\ IF s = "cancelled"
       THEN ~PaymentBlocksCancellation(o) /\ GiveBack({o})
       ELSE UNCHANGED <<restored, redeemed>>
    /\ SetStatus({o}, s)
    /\ OrderEvent(o, s)
    /\ UNCHANGED <<attemptVars, request, captured, verifier, maintVars>>

CancelOwnOrder(o) ==
    /\ ~PaymentBlocksCancellation(o)
    /\ CanTransition(order[o].status, "cancelled")
    /\ GiveBack({o})
    /\ SetStatus({o}, "cancelled")
    /\ OrderEvent(o, "cancelled")
    /\ UNCHANGED <<attemptVars, request, captured, verifier, maintVars>>

-----------------------------------------------------------------------------
(* RequestZarinPal: create the attempt, call the gateway, record its       *)
(* authority, and only then send the customer to the payment page.         *)

CreateAttemptForOrder(o, a) ==
    /\ attempt[a].status = "none"
    /\ o \in Payable
    /\ order[o].status = "pending" /\ order[o].pay \in {"pending", "failed"}
    /\ ~AttemptBlocks(o)
    /\ attempt' = [attempt EXCEPT ![a] = [@ EXCEPT !.order = o, !.status = "pending"]]
    /\ Touch(a)
    /\ order' = [order EXCEPT ![o] = [@ EXCEPT !.method = "zarinpal"]]
    /\ request' = [request EXCEPT ![a] = "calling"]
    /\ UNCHANGED <<restored, redeemed, captured, verifier, maintVars, outbox>>

\* The gateway opens a session and returns its authority, or the call fails.
GatewayRequest(a) ==
    /\ request[a] = "calling"
    /\ \E answer \in {"accepted", "refused"} : request' = [request EXCEPT ![a] = answer]
    /\ UNCHANGED <<orderVars, attemptVars, captured, verifier, maintVars, outbox>>

\* The attempt was failed behind the handler's back: it answers 500.
SetAuthorityRejected(a) ==
    /\ request[a] = "accepted"
    /\ ~(attempt[a].status = "pending" /\ ~attempt[a].authority)
    /\ request' = [request EXCEPT ![a] = "done"]
    /\ UNCHANGED <<orderVars, attemptVars, captured, verifier, maintVars, outbox>>

\* The commit may outlive the response: then nobody visits the payment page.
SetAuthority(a) ==
    /\ request[a] = "accepted"
    /\ attempt[a].status = "pending" /\ ~attempt[a].authority
    /\ attempt' = [attempt EXCEPT ![a] = [@ EXCEPT !.authority = TRUE]]
    /\ Touch(a)
    /\ \E phase \in {"redirected", "done"} : request' = [request EXCEPT ![a] = phase]
    /\ UNCHANGED <<orderVars, captured, verifier, maintVars, outbox>>

FailAttempt_AlsoIssued(a) ==
    /\ attempt[a].status = "pending"
    /\ attempt' = [attempt EXCEPT ![a] = [@ EXCEPT !.status = "failed"]]
    /\ Touch(a)

\* MarkAttemptFailed: the attempt has no authority, so nothing was captured.
\* Its provider_code is not read again and stays NULL here.
FailAttempt(a) ==
    /\ attempt[a].status = "pending" /\ ~attempt[a].authority
    /\ attempt' = [attempt EXCEPT ![a] = [@ EXCEPT !.status = "failed"]]
    /\ Touch(a)

MarkAttemptFailed(a) ==
    /\ request[a] = "refused"
    /\ request' = [request EXCEPT ![a] = "done"]
    /\ \/ FailAttempt(a)
       \/ /\ ~(attempt[a].status = "pending" /\ ~attempt[a].authority)
          /\ UNCHANGED attemptVars
    /\ UNCHANGED <<orderVars, captured, verifier, maintVars, outbox>>

\* The process stops, or the five seconds of persistCtx run out.
RequestLost(a) ==
    /\ request[a] \in {"calling", "accepted", "refused"}
    /\ request' = [request EXCEPT ![a] = "done"]
    /\ UNCHANGED <<orderVars, attemptVars, captured, verifier, maintVars, outbox>>

\* The customer pays on the gateway's page, at any time after the redirect.
Capture(a, r) ==
    /\ request[a] = "redirected" /\ captured[a] = NoRef
    /\ captured' = [captured EXCEPT ![a] = r]
    /\ UNCHANGED <<orderVars, attemptVars, request, verifier, maintVars, outbox>>

-----------------------------------------------------------------------------
(* Verification: a handler reads the attempt without a lock, asks the      *)
(* gateway, and writes the answer in a transaction that locks and re-reads *)
(* the order and the attempt.                                              *)

Step(v, s) == verifier' = [verifier EXCEPT ![v] = s]

\* Callback (with Status=OK) and ReconcilePayment up to VerifyPayment: both go
\* on for an attempt with an authority that is not settled, expired or not.
StartVerify(v, a) ==
    /\ verifier[v] = Idle
    /\ attempt[a].authority /\ attempt[a].status \notin Settled
    /\ Step(v, [step |-> "calling", attempt |-> a, answer |-> "none"])
    /\ UNCHANGED <<orderVars, attemptVars, request, captured, outbox>>

HandlerStartVerify(v, a) == v \in Verifiers /\ StartVerify(v, a) /\ UNCHANGED maintVars

\* The gateway confirms what it captured, says -51 of a session nobody paid,
\* refuses with another code, or gives no usable answer.
GatewayAnswer(v, answer) ==
    LET a == verifier[v].attempt IN
    /\ verifier[v].step = "calling"
    /\ answer \in {"other", "uncertain"} \cup
                    (IF captured[a] = NoRef THEN {"unpaid"} ELSE {"success"})
    /\ Step(v, [step |-> "answered", attempt |-> a, answer |-> answer])
    /\ UNCHANGED <<orderVars, attemptVars, request, captured, maintVars, outbox>>

MayPay_AnyReference(a) ==
    LET o == attempt[a].order IN
    /\ attempt[a].status # "expired"
    /\ order[o].status \in {"pending", "processing", "shipped"}
    /\ order[o].pay \in {"pending", "failed"}
    /\ \A b \in Attempts \ {a} : attempt[b].status = "paid" => attempt[b].order # o

\* The captured money may pay the order: neither was closed in the meantime
\* and no other attempt paid this order or with this reference.  The total is
\* the attempt's amount: neither ever changes.
MayPay(a) ==
    LET o == attempt[a].order IN
    /\ attempt[a].status # "expired"
    /\ order[o].status \in {"pending", "processing", "shipped"}
    /\ order[o].pay \in {"pending", "failed"}
    /\ \A b \in Attempts \ {a} :
          attempt[b].status = "paid" => attempt[b].order # o /\ attempt[b].ref # captured[a]

Settle(a, s) ==
    /\ attempt' = [attempt EXCEPT ![a] = [@ EXCEPT !.status = s, !.ref = captured[a],
                                                    !.code = "ok", !.outcome = s]]
    /\ Touch(a)

FinalizeVerifiedPayment(a) ==
    LET o == attempt[a].order IN
    \/ /\ attempt[a].status \in Settled
       /\ UNCHANGED <<attemptVars, order, outbox>>
    \/ /\ attempt[a].status \notin Settled /\ MayPay(a)
       /\ Settle(a, "paid")
       /\ order' = [order EXCEPT ![o] = [@ EXCEPT !.pay = "paid", !.method = "zarinpal"]]
       /\ OrderEvent(o, "payment_succeeded")
    \/ /\ attempt[a].status \notin Settled /\ ~MayPay(a)
       /\ Settle(a, "reconciliation")
       /\ UNCHANGED <<order, outbox>>

FinalizeFailedPayment_Overwrites(a, answer) ==
    /\ attempt' = [attempt EXCEPT ![a] = [@ EXCEPT !.outcome = "verify_rejected"]]
    /\ Touch(a)
    /\ UNCHANGED <<order, outbox>>

\* A rejected verification leaves the attempt's status alone.
FinalizeFailedPayment(a, answer) ==
    \/ /\ attempt[a].status \in Settled
       /\ UNCHANGED <<attemptVars, order, outbox>>
    \/ /\ attempt[a].status \notin Settled
       /\ attempt' = [attempt EXCEPT ![a] =
             IF answer = "uncertain"
             THEN [@ EXCEPT !.outcome = "verify_uncertain"]
             ELSE [@ EXCEPT !.outcome = "verify_rejected", !.code = answer]]
       /\ Touch(a)
       /\ outbox' = IF attempt[a].status = "failed"
                    THEN outbox \cup {<<attempt[a].order, "payment_failed">>}
                    ELSE outbox
       /\ UNCHANGED order

Finalize(v) ==
    LET a == verifier[v].attempt IN
    /\ verifier[v].step = "answered"
    /\ IF verifier[v].answer = "success"
       THEN FinalizeVerifiedPayment(a)
       ELSE FinalizeFailedPayment(a, verifier[v].answer)
    /\ Step(v, IF v = Maint THEN [verifier[v] EXCEPT !.step = "reread"] ELSE Idle)
    /\ UNCHANGED <<restored, redeemed, request, captured, maintVars>>

\* The process stops, the deadline of the call passes, the database fails.
VerifierLost(v) ==
    /\ verifier[v] # Idle
    /\ Step(v, Idle)
    /\ UNCHANGED <<orderVars, attemptVars, request, captured, maintVars, outbox>>

-----------------------------------------------------------------------------
(* The maintenance goroutine, each minute: ExpireAbandoned, then           *)
(* ExpireReservations, with one deadline for both.                         *)

\* created_at falls behind the cutoff; an order is older than its attempts.
OrderDue(o) ==
    /\ ~order[o].due
    /\ order' = [order EXCEPT ![o] = [@ EXCEPT !.due = TRUE]]
    /\ UNCHANGED <<restored, redeemed, attemptVars, request, captured, verifier,
                   maintVars, outbox>>

AttemptDue(a) ==
    /\ attempt[a].status # "none" /\ ~attempt[a].due /\ order[attempt[a].order].due
    /\ attempt' = [attempt EXCEPT ![a] = [@ EXCEPT !.due = TRUE]]
    /\ UNCHANGED <<orderVars, older, request, captured, verifier, maintVars, outbox>>

Abandoned_OnlyIssued == {a \in Attempts :
    attempt[a].due /\ attempt[a].status \in {"pending", "failed"} /\ attempt[a].authority}

Abandoned == {a \in Attempts :
    /\ attempt[a].due
    /\ \/ attempt[a].status = "pending"
       \/ attempt[a].status = "failed" /\ attempt[a].authority}

\* The ScanLimit attempts that were updated the longest ago.
ScanAbandoned ==
    /\ pass = "idle"
    /\ pass' = "attempts"
    /\ batch' = {a \in Abandoned : Cardinality(older[a] \cap Abandoned) < ScanLimit}
    /\ UNCHANGED <<orderVars, attemptVars, request, captured, verifier, scan, outbox>>

\* One attempt of the batch; the loop handles them one after the other.
Handle(a) ==
    /\ pass = "attempts" /\ a \in batch /\ verifier[Maint] = Idle
    /\ batch' = batch \ {a}
    /\ UNCHANGED <<pass, scan>>

MaintVerify(a) == Handle(a) /\ StartVerify(Maint, a)

MaintFail(a) ==
    /\ Handle(a)
    /\ FailAttempt(a)
    /\ UNCHANGED <<orderVars, request, captured, verifier, outbox>>

\* Settled, or failed by its own request, since the scan.
MaintSkip(a) ==
    /\ Handle(a)
    /\ \/ attempt[a].status \in Settled
       \/ attempt[a].status # "pending" /\ ~attempt[a].authority
    /\ UNCHANGED <<orderVars, attemptVars, request, captured, verifier, outbox>>

\* ReconcilePayment reads the attempt again: another request may have written
\* a later outcome than the one the loop has just persisted.
MaintReread ==
    LET a == verifier[Maint].attempt IN
    /\ verifier[Maint].step = "reread"
    /\ Step(Maint, IF /\ attempt[a].status \in {"pending", "failed"}
                      /\ attempt[a].outcome = "verify_rejected" /\ attempt[a].code = "unpaid"
                   THEN [verifier[Maint] EXCEPT !.step = "expire"]
                   ELSE Idle)
    /\ UNCHANGED <<orderVars, attemptVars, request, captured, maintVars, outbox>>

MayExpire_AnyCode(a) ==
    LET o == attempt[a].order IN
    /\ attempt[a].due /\ attempt[a].status \in {"pending", "failed"}
    /\ order[o].status = "pending" /\ order[o].pay # "paid"

MayExpire(a) ==
    LET o == attempt[a].order IN
    /\ attempt[a].due
    /\ attempt[a].status \in {"pending", "failed"} /\ attempt[a].code = "unpaid"
    /\ order[o].status = "pending" /\ order[o].pay # "paid"

ExpireRejected ==
    LET a == verifier[Maint].attempt IN
    /\ verifier[Maint].step = "expire"
    /\ \/ /\ MayExpire(a)
          /\ attempt' = [attempt EXCEPT ![a] = [@ EXCEPT !.status = "expired"]]
          /\ Touch(a)
       \/ ~MayExpire(a) /\ UNCHANGED attemptVars
    /\ Step(Maint, Idle)
    /\ UNCHANGED <<orderVars, request, captured, maintVars, outbox>>

Reservable(o) ==
    order[o].status = "pending" /\ order[o].pay \in {"pending", "failed"} /\ order[o].due

Abandonable == {o \in Orders : Reservable(o) /\ ~AttemptBlocks(o)}

\* The snapshot of the statement; SKIP LOCKED may leave any of its rows out.
ScanReservations ==
    /\ pass = "attempts" /\ batch = {} /\ verifier[Maint] = Idle
    /\ pass' = "reservations"
    /\ \E S \in SUBSET Abandonable : Cardinality(S) <= ReservationLimit /\ scan' = S
    /\ UNCHANGED <<orderVars, attemptVars, request, captured, verifier, batch, outbox>>

StillReservable_OldSnapshot == {o \in scan : Reservable(o)}

StillReservable_NoRowRecheck == {o \in scan : ~PaymentBlocksCancellation(o)}

\* Once the rows are locked PostgreSQL evaluates the conditions on the order
\* again, and the loop evaluates those on its attempts.
StillReservable == {o \in scan : Reservable(o) /\ ~PaymentBlocksCancellation(o)}

ExpireReservations_MailsTheScan ==
    /\ pass = "reservations"
    /\ GiveBack(StillReservable)
    /\ SetStatus(StillReservable, "cancelled")
    /\ outbox' = outbox \cup (scan \X {"cancelled"})
    /\ pass' = "idle" /\ scan' = {}
    /\ UNCHANGED <<attemptVars, request, captured, verifier, batch>>

ExpireReservations ==
    /\ pass = "reservations"
    /\ GiveBack(StillReservable)
    /\ SetStatus(StillReservable, "cancelled")
    /\ outbox' = outbox \cup (StillReservable \X {"cancelled"})
    /\ pass' = "idle" /\ scan' = {}
    /\ UNCHANGED <<attemptVars, request, captured, verifier, batch>>

\* The rest of the batch is given up, the pass goes on or ends.
MaintAbort ==
    /\ pass # "idle"
    /\ pass' \in {"idle"} \cup (IF pass = "attempts" THEN {"attempts"} ELSE {})
    /\ batch' = {} /\ scan' = {}
    /\ Step(Maint, Idle)
    /\ UNCHANGED <<orderVars, attemptVars, request, captured, outbox>>

-----------------------------------------------------------------------------
Next ==
    \/ \E o \in Orders : \/ \E s \in Statuses : UpdateStatus(o, s)
                         \/ CancelOwnOrder(o)
                         \/ OrderDue(o)
                         \/ \E a \in Attempts : CreateAttemptForOrder(o, a)
    \/ \E a \in Attempts : \/ GatewayRequest(a)
                           \/ SetAuthority(a)
                           \/ SetAuthorityRejected(a)
                           \/ MarkAttemptFailed(a)
                           \/ RequestLost(a)
                           \/ AttemptDue(a)
                           \/ MaintVerify(a)
                           \/ MaintFail(a)
                           \/ MaintSkip(a)
                           \/ \E r \in Refs : Capture(a, r)
                           \/ \E v \in Verifiers : HandlerStartVerify(v, a)
    \/ \E v \in Verifiers \cup {Maint} : \/ \E answer \in Answers : GatewayAnswer(v, answer)
                                         \/ Finalize(v)
                                         \/ VerifierLost(v)
    \/ ScanAbandoned
    \/ MaintReread
    \/ ExpireRejected
    \/ ScanReservations
    \/ ExpireReservations
    \/ MaintAbort

Spec == Init /\ [][Next]_vars

-----------------------------------------------------------------------------
(* Safety.                                                                 *)

OfOrder(o) == {a \in Attempts : attempt[a].order = o}

\* A cancelled order was not paid and its stock was not given away while a
\* customer could still pay it: whatever the interleaving of cancellation,
\* expiry and payment, its attempts are failed, expired, or captured too late.
CancelledIsUnpaid ==
    \A o \in Orders : order[o].status = "cancelled" =>
        /\ order[o].pay \in {"pending", "failed"}
        /\ \A a \in OfOrder(o) : attempt[a].status \in {"failed", "expired", "reconciliation"}

\* No online order reaches fulfilment before its money is verified, also when
\* the payment method changes under an admin's status update.
FulfilledIsPaid ==
    \A o \in Orders :
        order[o].method = "zarinpal" /\ order[o].status \in {"processing", "shipped", "delivered"}
            => order[o].pay \in {"paid", "refunded"}

\* An order is paid exactly when one of its attempts is, and by one only: two
\* sessions captured for one order never count as two payments.
PaidByOneAttempt ==
    \A o \in Orders :
        /\ order[o].pay \in {"paid", "refunded"}
              <=> \E a \in OfOrder(o) : attempt[a].status = "paid"
        /\ \A a, b \in OfOrder(o) :
              attempt[a].status = "paid" /\ attempt[b].status = "paid" => a = b

\* Two orders are never paid with the same captured money.
RefPaysOnce ==
    \A a, b \in Attempts :
        attempt[a].status = "paid" /\ attempt[b].status = "paid" /\ attempt[a].ref = attempt[b].ref
            => a = b

\* The customer never has two payment pages that could both pay the order:
\* at most one attempt of an order is pending or paid.
OneLiveAttempt ==
    \A o \in Orders : \A a, b \in OfOrder(o) :
        attempt[a].status \in {"pending", "paid"} /\ attempt[b].status \in {"pending", "paid"}
            => a = b

\* The browser is never believed and nothing captured is lost from the books:
\* an attempt is settled only by money the gateway captured, under its
\* reference, and captured money always belongs to a recorded authority.
SettledIsCaptured ==
    \A a \in Attempts :
        /\ attempt[a].status \in Settled => captured[a] # NoRef /\ attempt[a].ref = captured[a]
        /\ captured[a] # NoRef => attempt[a].authority /\ attempt[a].status # "failed"

\* Stock and coupon come back exactly once, and only for a cancelled order
\* (comments of UpdateStatus): two cancellations and the expiry may race.
GivenBackOnce ==
    \A o \in Orders :
        /\ restored[o] = IF order[o].status = "cancelled" THEN 1 ELSE 0
        /\ order[o].status = "cancelled" => o \notin redeemed

\* The customer is told what happened: a success mail exactly for the paid
\* orders, a cancellation mail exactly for the cancelled ones.
MailMatchesOrder ==
    \A o \in Orders :
        /\ <<o, "payment_succeeded">> \in outbox <=> order[o].pay \in {"paid", "refunded"}
        /\ <<o, "cancelled">> \in outbox <=> order[o].status = "cancelled"

\* What a verified capture decided is final, whatever late or repeated
\* callback, admin check or maintenance pass comes after it.
SettlementIsFinal ==
    [][\A a \in Attempts : attempt[a].status \in Settled => attempt'[a] =
          [attempt[a] EXCEPT !.due = attempt'[a].due]]_vars

\* "An issued authority is never released on a timeout or an ambiguous
\* response" (maintenance.go): it stops blocking its order only after a -51
\* that no other code replaced, on an old attempt of an order still pending.
AuthorityReleasedOnUnpaid ==
    [][\A a \in Attempts :
          attempt[a].authority /\ Blocking(a) /\ ~Blocking(a)'
              => /\ attempt[a].code = "unpaid" /\ attempt[a].due
                 /\ order[attempt[a].order].status = "pending"]_vars

\* An order is paid exactly when one of its attempts is, and it never has two
\* payment pages, or a page beside the payment, that could both take its money.
OnePayment == PaidByOneAttempt /\ OneLiveAttempt

\* The rows, the gateway and the mails implement the promise of OrderLifecycle.
Stage    == [o \in Orders |-> order[o].status]
Online   == {o \in Orders : order[o].method = "zarinpal"}
Page     == {attempt[a].order : a \in {b \in Attempts : attempt[b].status \in {"pending", "paid"}}}
Payments == {<<attempt[a].order, attempt[a].ref>> :
                a \in {b \in Attempts : attempt[b].status = "paid"}}

Promise == INSTANCE OrderLifecycle WITH
    stage <- Stage, online <- Online, page <- Page, payments <- Payments,
    back <- restored, told <- outbox

\* However requests, late answers, callbacks and the two scans interleave, every
\* transaction is one step of the life of an order that OrderLifecycle promises,
\* or changes nothing of it: no order comes back from delivery, cancellation or
\* payment, and no mail goes out at another time or for another reason.
KeepsPromise == Promise!LifeSpec

\* "failed covers both the payment/request call itself failed and verification
\* failed/was rejected" (payment/model.go).  The code keeps a rejected attempt
\* pending, so that it goes on blocking its order.
RejectedIsFailed ==
    \A a \in Attempts : attempt[a].outcome = "verify_rejected" => attempt[a].status # "pending"
=============================================================================
