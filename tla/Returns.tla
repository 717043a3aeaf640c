------------------------------- MODULE Returns -------------------------------
(***************************************************************************)
(* Return requests and refunds (return/, refund/): one action per          *)
(* transaction, per read outside one, and per call of the provider.        *)
(*                                                                         *)
(* The rows of an order's return and of its refund are changed by          *)
(* transactions that lock them first, so a transaction is one step; what a *)
(* handler read before it is in request[r] and may be stale by then.       *)
(*                                                                         *)
(* An operator whose name has an underscore is a faulty variant of the     *)
(* operator that follows it; no specification uses it.                     *)
(***************************************************************************)
EXTENDS Integers

CONSTANTS
    Orders, Requests,
    NoOrder,
    Amounts,     \* amounts a refund is created with
    Answers      \* what the provider may do

AllAnswers == {"paid", "refused", "error", "paid_error"}

ReturnStatuses == {"requested", "approved", "rejected", "received",
                   "refund_pending", "refunded", "refund_failed"}
RefundStatuses == {"pending", "processing", "succeeded", "failed", "manual_review"}

ASSUME ReturnsAssumption ==
    /\ NoOrder \notin Orders
    /\ Amounts \subseteq Nat
    /\ Answers \subseteq AllAnswers

VARIABLES
    order,     \* orders: status, payment_status, payment_method
    returns,   \* return_requests.status, "none" without a row
    refund,    \* refunds: status, method
    outbox,    \* keys of queued mails
    paidOut,   \* how often money has left the shop for the order
    request    \* the refund requests in progress

vars == <<order, returns, refund, outbox, paidOut, request>>

Idle == [at |-> "idle", kind |-> "none", order |-> NoOrder, seen |-> "none",
         amount |-> 0, answer |-> "none"]

RequestRow ==
    [at : {"idle", "checked", "allowed", "loaded", "claimed", "answered"},
     kind : {"none", "create", "provider", "manual"},
     order : Orders \cup {NoOrder},
     seen : RefundStatuses \cup {"none"},  \* the refund's status when it was read
     amount : Amounts \cup {0},
     answer : Answers \cup {"none"}]

TypeOK ==
    /\ order \in [Orders -> [status : {"shipped", "delivered"},
                             pay : {"pending", "paid", "refunded"},
                             method : {"manual", "zarinpal"}]]
    /\ returns \in [Orders -> ReturnStatuses \cup {"none"}]
    /\ refund \in [Orders -> [status : RefundStatuses \cup {"none"},
                              method : {"manual", "zarinpal"}]]
    /\ outbox \subseteq {"return", "refund"} \X Orders \X (ReturnStatuses \cup RefundStatuses)
    /\ paidOut \in [Orders -> Nat]
    /\ request \in [Requests -> RequestRow]

\* Orders on their way, paid or (by the manual method) not yet paid.
Init ==
    /\ order \in [Orders -> {[status |-> "shipped", pay |-> "paid", method |-> "zarinpal"],
                             [status |-> "shipped", pay |-> "paid", method |-> "manual"],
                             [status |-> "shipped", pay |-> "pending", method |-> "manual"]}]
    /\ returns = [o \in Orders |-> "none"]
    /\ refund = [o \in Orders |-> [status |-> "none", method |-> "manual"]]
    /\ outbox = {}
    /\ paidOut = [o \in Orders |-> 0]
    /\ request = [r \in Requests |-> Idle]

-----------------------------------------------------------------------------
(* Return requests.                                                        *)

ReturnSteps ==
    {<<"requested", "approved">>, <<"requested", "rejected">>, <<"approved", "received">>,
     <<"received", "refund_pending">>, <<"refund_pending", "refunded">>,
     <<"refund_pending", "refund_failed">>}

Deliver(o) ==
    /\ order[o].status = "shipped"
    /\ order' = [order EXCEPT ![o].status = "delivered"]
    /\ UNCHANGED <<returns, refund, outbox, paidOut, request>>

CreateRequest_Unpaid(o) ==
    /\ order[o].status = "delivered" /\ returns[o] = "none"
    /\ returns' = [returns EXCEPT ![o] = "requested"]
    /\ outbox' = outbox \cup {<<"return", o, "requested">>}
    /\ UNCHANGED <<order, refund, paidOut, request>>

CreateRequest(o) ==
    /\ order[o].status = "delivered" /\ order[o].pay = "paid" /\ returns[o] = "none"
    /\ returns' = [returns EXCEPT ![o] = "requested"]
    /\ outbox' = outbox \cup {<<"return", o, "requested">>}
    /\ UNCHANGED <<order, refund, paidOut, request>>

\* Served or not, every step the code has; "refunded" only when the order's refund
\* has succeeded.
UpdateReturn(o, s) ==
    /\ <<returns[o], s>> \in ReturnSteps
    /\ s = "refunded" => refund[o].status = "succeeded"
    /\ returns' = [returns EXCEPT ![o] = s]
    /\ outbox' = outbox \cup {<<"return", o, s>>}
    /\ UNCHANGED <<order, refund, paidOut, request>>

-----------------------------------------------------------------------------
(* The refund's row.                                                       *)

RefundSteps_Reclaim ==
    {<<"pending", "processing">>, <<"pending", "failed">>, <<"pending", "manual_review">>,
     <<"processing", "succeeded">>, <<"processing", "failed">>,
     <<"processing", "manual_review">>, <<"processing", "processing">>,
     <<"manual_review", "succeeded">>, <<"manual_review", "failed">>}

RefundSteps ==
    {<<"pending", "processing">>, <<"pending", "failed">>, <<"pending", "manual_review">>,
     <<"processing", "succeeded">>, <<"processing", "failed">>,
     <<"processing", "manual_review">>,
     <<"manual_review", "succeeded">>, <<"manual_review", "failed">>}

CanMove(o, s) == <<refund[o].status, s>> \in RefundSteps

SetRefund_OrderStays(o, s) ==
    /\ refund' = [refund EXCEPT ![o].status = s]
    /\ outbox' = outbox \cup ({<<"refund", o, s>>} \cap
                    ({"refund"} \X Orders \X {"succeeded", "failed", "manual_review"}))
    /\ UNCHANGED <<order, returns>>

\* UpdateStatus, without completed_at, which stays null (its value is never set); a
\* success closes the order's books in the same transaction.
SetRefund(o, s) ==
    /\ refund' = [refund EXCEPT ![o].status = s]
    /\ order' = IF s = "succeeded" /\ order[o].pay = "paid"
                THEN [order EXCEPT ![o].pay = "refunded"] ELSE order
    /\ outbox' = outbox \cup ({<<"refund", o, s>>} \cap
                    ({"refund"} \X Orders \X {"succeeded", "failed", "manual_review"}))
    /\ UNCHANGED returns

\* Create checks the order, and checks it again when its row is locked.
CheckEligibility(r, o, amount) ==
    /\ request[r].at = "idle" /\ order[o].pay = "paid"
    /\ request' = [request EXCEPT ![r] = [Idle EXCEPT !.at = "checked", !.kind = "create",
                                                      !.order = o, !.amount = amount]]
    /\ UNCHANGED <<order, returns, refund, outbox, paidOut>>

CreateRefund_WrongConstant(r) ==
    LET o == request[r].order IN
    /\ request[r].at = "checked"
    /\ request' = [request EXCEPT ![r] = Idle]
    /\ refund' = IF order[o].pay = "paid" /\ refund[o].status = "none" /\ request[r].amount > 0
                 THEN [refund EXCEPT ![o] = [status |-> "refund_pending",
                                             method |-> order[o].method]]
                 ELSE refund
    /\ UNCHANGED <<order, returns, outbox, paidOut>>

\* The row's CHECK wants a positive amount, its UNIQUE one refund per order.
CreateRefund(r) ==
    LET o == request[r].order IN
    /\ request[r].at = "checked"
    /\ request' = [request EXCEPT ![r] = Idle]
    /\ refund' = IF order[o].pay = "paid" /\ refund[o].status = "none" /\ request[r].amount > 0
                 THEN [refund EXCEPT ![o] = [status |-> "pending", method |-> order[o].method]]
                 ELSE refund
    /\ UNCHANGED <<order, returns, outbox, paidOut>>

-----------------------------------------------------------------------------
(* The two refund endpoints.                                               *)

Refundable == {"received", "refund_pending"}

\* loadRefundableReturn reads the return ...
AllowRefund_AnyReturn(r, k, o) ==
    /\ request[r].at = "idle" /\ returns[o] # "none"
    /\ request' = [request EXCEPT ![r] = [Idle EXCEPT !.at = "allowed", !.kind = k, !.order = o]]
    /\ UNCHANGED <<order, returns, refund, outbox, paidOut>>

AllowRefund(r, k, o) ==
    /\ request[r].at = "idle" /\ returns[o] \in Refundable
    /\ request' = [request EXCEPT ![r] = [Idle EXCEPT !.at = "allowed", !.kind = k, !.order = o]]
    /\ UNCHANGED <<order, returns, refund, outbox, paidOut>>

\* ... and then the refund.  Each endpoint serves its methods; a refund that
\* succeeded is answered from its row.
LoadRefund(r) ==
    LET o == request[r].order IN
    /\ request[r].at = "allowed"
    /\ request' = IF /\ refund[o].status \notin {"none", "succeeded"}
                     /\ (request[r].kind = "manual") <=> (refund[o].method = "manual")
                  THEN [request EXCEPT ![r].at = "loaded", ![r].seen = refund[o].status]
                  ELSE [request EXCEPT ![r] = Idle]
    /\ UNCHANGED <<order, returns, refund, outbox, paidOut>>

\* A transaction that moves the refund, or refuses and ends the request.
MoveRefund(r, s, next) ==
    LET o == request[r].order IN
    IF CanMove(o, s)
    THEN SetRefund(o, s) /\ request' = [request EXCEPT ![r] = next]
    ELSE request' = [request EXCEPT ![r] = Idle] /\ UNCHANGED <<order, returns, refund, outbox>>

NeedsClaim_Always(r) == TRUE

NeedsClaim(r) == request[r].kind = "provider" \/ request[r].seen = "pending"

Claim(r) ==
    /\ request[r].at = "loaded" /\ NeedsClaim(r)
    /\ MoveRefund(r, "processing", [request[r] EXCEPT !.at = "claimed"])
    /\ UNCHANGED paidOut

\* The admin's confirmation that the money was handed over.
Confirm(r) ==
    /\ request[r].kind = "manual"
    /\ \/ request[r].at = "claimed"
       \/ request[r].at = "loaded" /\ ~NeedsClaim(r)
    /\ MoveRefund(r, "succeeded", Idle)
    /\ paidOut' = IF CanMove(request[r].order, "succeeded")
                  THEN [paidOut EXCEPT ![request[r].order] = @ + 1] ELSE paidOut

\* The provider's call, outside every transaction; an error may hide a success.
CallProvider(r, answer) ==
    /\ request[r].at = "claimed" /\ request[r].kind = "provider"
    /\ request' = [request EXCEPT ![r].at = "answered", ![r].answer = answer]
    /\ paidOut' = IF answer \in {"paid", "paid_error"}
                  THEN [paidOut EXCEPT ![request[r].order] = @ + 1] ELSE paidOut
    /\ UNCHANGED <<order, returns, refund, outbox>>

Outcome_Optimistic(answer) == IF answer = "refused" THEN "manual_review" ELSE "succeeded"

Outcome(answer) == IF answer = "paid" THEN "succeeded" ELSE "manual_review"

RecordAnswer(r) ==
    /\ request[r].at = "answered"
    /\ MoveRefund(r, Outcome(request[r].answer), Idle)
    /\ UNCHANGED paidOut

\* The process stops, the client goes away, or a statement fails.
LoseRequest(r) ==
    /\ request[r].at # "idle"
    /\ request' = [request EXCEPT ![r] = Idle]
    /\ UNCHANGED <<order, returns, refund, outbox, paidOut>>

-----------------------------------------------------------------------------

ReturnNext ==
    \E o \in Orders :
        \/ Deliver(o) \/ CreateRequest(o)
        \/ \E s \in ReturnStatuses : UpdateReturn(o, s)

RefundNext ==
    \/ \E r \in Requests, o \in Orders :
        \/ \E amount \in Amounts : CheckEligibility(r, o, amount)
        \/ \E k \in {"provider", "manual"} : AllowRefund(r, k, o)
    \/ \E r \in Requests :
        \/ CreateRefund(r) \/ LoadRefund(r) \/ Claim(r) \/ Confirm(r)
        \/ \E answer \in Answers : CallProvider(r, answer)
        \/ RecordAnswer(r) \/ LoseRequest(r)

Next == ReturnNext \/ RefundNext

Spec == Init /\ [][Next]_vars

-----------------------------------------------------------------------------
(* Properties.                                                             *)

\* However many admins press the button, whatever the provider answers and
\* wherever a request dies: money leaves the shop at most once for an order,
\* and only after its goods came back (refund/handler.go: the claim before the
\* call, the gate of loadRefundableReturn).
PaidOutOnce ==
    \A o \in Orders :
        /\ paidOut[o] <= 1
        /\ paidOut[o] = 1 => returns[o] \in {"received", "refund_pending", "refunded",
                                             "refund_failed"}

\* Money that left the shop is never forgotten: the refund is still claimed, or
\* waits for a human, or has succeeded; and one that succeeded has been paid
\* (refund/handler.go: no retry, no success on an ambiguous answer).
MoneyIsTracked ==
    \A o \in Orders :
        /\ paidOut[o] = 1 => refund[o].status \in {"processing", "manual_review", "succeeded"}
        /\ refund[o].status = "succeeded" => paidOut[o] = 1

\* Two tables and the mails agree: an order is marked refunded exactly when its
\* refund has succeeded, a return only says so then, and the customer is told of
\* a refund exactly then (UpdateStatus of refund/ and of return/, whatever
\* endpoint calls them).
BooksAgree ==
    \A o \in Orders :
        /\ (order[o].pay = "refunded") <=> (refund[o].status = "succeeded")
        /\ returns[o] = "refunded" => refund[o].status = "succeeded"
        /\ (<<"refund", o, "succeeded">> \in outbox) <=> (refund[o].status = "succeeded")

\* Every return is of an order that was paid and delivered, and stays so or is
\* refunded (CreateRequest under the lock of the order's row).
ReturnsAreOfSales ==
    \A o \in Orders : returns[o] # "none" =>
        order[o].status = "delivered" /\ order[o].pay \in {"paid", "refunded"}

\* The tables implement the promise of MoneyBack.
Goods == [o \in Orders |->
    IF returns[o] = "none" THEN "sold"
    ELSE IF returns[o] = "requested" THEN "asked"
    ELSE IF returns[o] = "approved" THEN "agreed"
    ELSE IF returns[o] = "rejected" THEN "refused"
    ELSE "back"]

Money == [o \in Orders |->
    IF refund[o].status \in {"none", "pending"} THEN "kept"
    ELSE IF refund[o].status = "processing" THEN "moving"
    ELSE IF refund[o].status = "succeeded" THEN "returned"
    ELSE "unclear"]

Promise == INSTANCE MoneyBack WITH goods <- Goods, money <- Money, payouts <- paidOut

\* Return, refund and order, three machines that single requests move together,
\* and the provider between two transactions behave like one machine per order.
KeepsPromise == Promise!BackSpec

\* Money goes back once, for goods that came back, and the three tables say so.
ReturnsSafety == TypeOK /\ PaidOutOnce /\ MoneyIsTracked /\ BooksAgree /\ ReturnsAreOfSales
=============================================================================
