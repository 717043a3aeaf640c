---------------------------- MODULE ReturnsProofs ---------------------------
(***************************************************************************)
(* Proofs about Returns, for any number of orders and of concurrent        *)
(* requests, and whatever the provider may answer.                         *)
(***************************************************************************)
EXTENDS Returns, TLAPS

Back == {"received", "refund_pending", "refunded", "refund_failed"}

Paying(r) == request[r].at \in {"allowed", "loaded", "claimed", "answered"}

\* The provider is being asked to pay, or has answered.
Calling(r) == request[r].kind = "provider" /\ request[r].at \in {"claimed", "answered"}

\* What a request has checked is still so: goods that came back never leave again, a
\* refund never goes away, and its method never changes.
RequestFits(r) ==
    LET o == request[r].order IN
    /\ request[r].at # "idle" => o \in Orders
    /\ Paying(r) => request[r].kind \in {"provider", "manual"} /\ returns[o] \in Back
    /\ Paying(r) /\ request[r].at # "allowed" =>
          /\ refund[o].status # "none"
          /\ (request[r].kind = "manual") <=> (refund[o].method = "manual")
    /\ request[r].at = "answered" => request[r].kind = "provider"

\* One request has the claim of a refund, and knows what became of the money.
CallFits(r) ==
    LET o == request[r].order IN
    Calling(r) =>
        /\ refund[o].status = "processing"
        /\ paidOut[o] = IF request[r].at = "answered" /\ request[r].answer \in {"paid", "paid_error"}
                        THEN 1 ELSE 0
        /\ \A q \in Requests : Calling(q) /\ request[q].order = o => q = r

\* What a refund's row says about the money.
RefundFits(o) ==
    /\ paidOut[o] \in {0, 1}
    /\ refund[o].status \in {"none", "pending"} => paidOut[o] = 0
    /\ refund[o].status = "succeeded" => paidOut[o] = 1
    /\ refund[o].status = "processing" /\ refund[o].method = "manual" => paidOut[o] = 0
    /\ refund[o].method = "manual" => refund[o].status # "manual_review"
    /\ refund[o].status # "failed"
    /\ refund[o].status \notin {"none", "pending"} => returns[o] \in Back
    /\ refund[o].status # "none" => order[o].pay # "pending"

IInv ==
    /\ TypeOK
    /\ \A r \in Requests : RequestFits(r) /\ CallFits(r)
    /\ \A o \in Orders : RefundFits(o)
    /\ BooksAgree
    /\ ReturnsAreOfSales

-----------------------------------------------------------------------------
LEMMA InitHolds == Init => IInv
BY ReturnsAssumption
   DEF Init, IInv, TypeOK, RequestFits, CallFits, RefundFits, BooksAgree, ReturnsAreOfSales,
       Paying, Calling, Idle, RequestRow

\* The three steps of a return itself.
LEMMA ReturnStep ==
    ASSUME IInv, NEW o \in Orders, NEW s \in ReturnStatuses,
           Deliver(o) \/ CreateRequest(o) \/ UpdateReturn(o, s)
    PROVE  IInv'
<1>0. outbox' = outbox \/ \E e \in ReturnStatuses : outbox' = outbox \cup {<<"return", o, e>>}
  BY DEF Deliver, CreateRequest, UpdateReturn, ReturnStatuses
<1>1. TypeOK'
  <2>1. outbox' \subseteq {"return", "refund"} \X Orders \X (ReturnStatuses \cup RefundStatuses)
    BY <1>0 DEF IInv, TypeOK
  <2>2. returns' \in [Orders -> ReturnStatuses \cup {"none"}]
    BY DEF IInv, TypeOK, Deliver, CreateRequest, UpdateReturn, ReturnStatuses
  <2>3. order' \in [Orders -> [status : {"shipped", "delivered"},
                               pay : {"pending", "paid", "refunded"},
                               method : {"manual", "zarinpal"}]]
    <3>1. CASE Deliver(o)
      <4>1. [order[o] EXCEPT !.status = "delivered"]
                \in [status : {"shipped", "delivered"}, pay : {"pending", "paid", "refunded"},
                    method : {"manual", "zarinpal"}]
        <5>1. order[o] \in [status : {"shipped", "delivered"},
                            pay : {"pending", "paid", "refunded"}, method : {"manual", "zarinpal"}]
          BY DEF IInv, TypeOK
        <5> QED
          BY <5>1
      <4> QED
        BY <3>1, <4>1 DEF IInv, TypeOK, Deliver
    <3>2. CASE UNCHANGED order
      BY <3>2 DEF IInv, TypeOK
    <3> QED
      BY <3>1, <3>2 DEF CreateRequest, UpdateReturn
  <2> QED
    BY <2>1, <2>2, <2>3 DEF IInv, TypeOK, Deliver, CreateRequest, UpdateReturn
<1>2. UNCHANGED <<refund, paidOut, request>>
  BY DEF Deliver, CreateRequest, UpdateReturn
<1>3. \A p \in Orders : returns[p] \in Back => returns'[p] \in Back
  BY DEF IInv, TypeOK, Deliver, CreateRequest, UpdateReturn, ReturnSteps, Back
<1>4. \A p \in Orders : order'[p].pay = order[p].pay
  BY DEF IInv, TypeOK, Deliver, CreateRequest, UpdateReturn
<1>5. ASSUME NEW r \in Requests PROVE RequestFits(r)' /\ CallFits(r)'
  BY <1>2, <1>3 DEF IInv, RequestFits, CallFits, Paying, Calling
<1>6. ASSUME NEW p \in Orders PROVE RefundFits(p)'
  BY <1>2, <1>3, <1>4 DEF IInv, RefundFits
<1>7. BooksAgree'
  <2>1. \A p \in Orders : <<"refund", p, "succeeded">> \in outbox'
                            <=> <<"refund", p, "succeeded">> \in outbox
    BY <1>0
  <2>2. \A p \in Orders : returns'[p] = "refunded" => refund[p].status = "succeeded"
    BY DEF IInv, TypeOK, BooksAgree, Deliver, CreateRequest, UpdateReturn
  <2> QED
    BY <1>2, <1>4, <2>1, <2>2 DEF IInv, BooksAgree
<1>8. ReturnsAreOfSales'
  BY DEF IInv, TypeOK, ReturnsAreOfSales, Deliver, CreateRequest, UpdateReturn, ReturnSteps
<1> QED
  BY <1>1, <1>5, <1>6, <1>7, <1>8 DEF IInv

-----------------------------------------------------------------------------

\* A step that changes nothing but what one request does, and not to calling.
LEMMA OnlyTheRequest ==
    ASSUME IInv, NEW r \in Requests,
           UNCHANGED <<order, returns, refund, outbox, paidOut>>,
           NEW row \in RequestRow, request' = [request EXCEPT ![r] = row],
           RequestFits(r)', ~Calling(r)'
    PROVE  IInv'
<1>1. /\ request' \in [Requests -> RequestRow]
      /\ \A q \in Requests \ {r} : request'[q] = request[q]
      /\ request'[r] = row
  BY DEF IInv, TypeOK
<1>2. TypeOK'
  BY <1>1 DEF IInv, TypeOK
<1>3. ASSUME NEW q \in Requests PROVE RequestFits(q)' /\ CallFits(q)'
  <2>1. CASE q = r
    BY <2>1 DEF CallFits
  <2>2. CASE q # r
    BY <1>1, <2>2 DEF IInv, RequestFits, CallFits, Paying, Calling
  <2> QED
    BY <2>1, <2>2
<1> QED
  BY <1>2, <1>3 DEF IInv, RefundFits, BooksAgree, ReturnsAreOfSales

LEMMA CheckEligibilityStep ==
    ASSUME IInv, NEW r \in Requests, NEW o \in Orders, NEW amount \in Amounts,
           CheckEligibility(r, o, amount)
    PROVE  IInv'
<1> DEFINE row == [Idle EXCEPT !.at = "checked", !.kind = "create", !.order = o, !.amount = amount]
<1>1. row \in RequestRow
  BY DEF RequestRow, Idle
<1>2. request' = [request EXCEPT ![r] = row] /\ request'[r] = row
  BY DEF CheckEligibility, IInv, TypeOK
<1>3. row.at = "checked" /\ row.order = o
  BY DEF Idle
<1> HIDE DEF row
<1>4. RequestFits(r)' /\ ~Calling(r)'
  BY <1>2, <1>3 DEF RequestFits, Calling, Paying
<1> QED
  BY <1>1, <1>2, <1>4, OnlyTheRequest DEF CheckEligibility

LEMMA AllowRefundStep ==
    ASSUME IInv, NEW r \in Requests, NEW o \in Orders, NEW k \in {"provider", "manual"},
           AllowRefund(r, k, o)
    PROVE  IInv'
<1> DEFINE row == [Idle EXCEPT !.at = "allowed", !.kind = k, !.order = o]
<1>1. row \in RequestRow
  BY DEF RequestRow, Idle
<1>2. request' = [request EXCEPT ![r] = row] /\ request'[r] = row
  BY DEF AllowRefund, IInv, TypeOK
<1>3. RequestFits(r)' /\ ~Calling(r)'
  BY <1>2 DEF AllowRefund, RequestFits, Calling, Paying, Idle, Refundable, Back
<1> QED
  BY <1>1, <1>2, <1>3, OnlyTheRequest DEF AllowRefund

LEMMA LoadRefundStep ==
    ASSUME IInv, NEW r \in Requests, LoadRefund(r)
    PROVE  IInv'
<1> DEFINE loads == /\ refund[request[r].order].status \notin {"none", "succeeded"}
                    /\ (request[r].kind = "manual") <=> (refund[request[r].order].method = "manual")
           row == IF loads THEN [request[r] EXCEPT !.at = "loaded",
                                                   !.seen = refund[request[r].order].status]
                  ELSE Idle
<1>1. request[r] \in RequestRow /\ request[r].order \in Orders
  BY DEF IInv, TypeOK, RequestFits, LoadRefund
<1>2. row \in RequestRow
  BY <1>1 DEF RequestRow, Idle, IInv, TypeOK
<1>3. request' = [request EXCEPT ![r] = row] /\ request'[r] = row
  BY <1>1 DEF LoadRefund, IInv, TypeOK
<1>4. RequestFits(r)' /\ ~Calling(r)'
  <2>1. CASE loads
    <3>0. request'[r] = [request[r] EXCEPT !.at = "loaded",
                                           !.seen = refund[request[r].order].status]
      BY <1>3, <2>1, Zenon
    <3>1. /\ request'[r].at = "loaded" /\ request'[r].order = request[r].order
          /\ request'[r].kind = request[r].kind
      BY <1>1, <3>0 DEF RequestRow
    <3>2. request[r].kind \in {"provider", "manual"} /\ returns[request[r].order] \in Back
      BY DEF LoadRefund, IInv, RequestFits, Paying
    <3> QED
      BY <1>1, <2>1, <3>1, <3>2 DEF LoadRefund, RequestFits, Calling, Paying
  <2>2. CASE ~loads
    <3>1. request'[r] = Idle
      BY <1>3, <2>2, Zenon
    <3>2. Idle.at = "idle"
      BY DEF Idle
    <3> QED
      BY <3>1, <3>2 DEF RequestFits, Calling, Paying
  <2> QED
    BY <2>1, <2>2
<1> QED
  BY <1>2, <1>3, <1>4, OnlyTheRequest DEF LoadRefund

LEMMA LoseRequestStep ==
    ASSUME IInv, NEW r \in Requests, LoseRequest(r)
    PROVE  IInv'
<1>1. Idle \in RequestRow
  BY DEF RequestRow, Idle
<1>2. request'[r] = Idle
  BY DEF LoseRequest, IInv, TypeOK
<1>3. RequestFits(r)' /\ ~Calling(r)'
  BY <1>2 DEF RequestFits, Calling, Paying, Idle
<1> QED
  BY <1>1, <1>3, OnlyTheRequest DEF LoseRequest

-----------------------------------------------------------------------------

\* UpdateStatus keeps the books, whichever step it takes.
LEMMA SetRefundKeepsBooks ==
    ASSUME IInv, NEW o \in Orders, NEW s \in RefundStatuses, CanMove(o, s), SetRefund(o, s)
    PROVE  /\ refund' = [refund EXCEPT ![o] = [status |-> s, method |-> refund[o].method]]
           /\ refund' \in [Orders -> [status : RefundStatuses \cup {"none"},
                                      method : {"manual", "zarinpal"}]]
           /\ order' \in [Orders -> [status : {"shipped", "delivered"},
                                     pay : {"pending", "paid", "refunded"},
                                     method : {"manual", "zarinpal"}]]
           /\ \A p \in Orders : order[p].pay # "pending" => order'[p].pay # "pending"
           /\ outbox' \subseteq {"return", "refund"} \X Orders \X (ReturnStatuses \cup RefundStatuses)
           /\ BooksAgree' /\ ReturnsAreOfSales'
           /\ UNCHANGED returns
<1>1. refund[o] \in [status : RefundStatuses \cup {"none"}, method : {"manual", "zarinpal"}]
  BY DEF IInv, TypeOK
<1>2. refund' = [refund EXCEPT ![o] = [status |-> s, method |-> refund[o].method]]
  <2>1. [refund[o] EXCEPT !.status = s] = [status |-> s, method |-> refund[o].method]
    BY <1>1
  <2>2. refund' = [refund EXCEPT ![o] = [refund[o] EXCEPT !.status = s]]
    BY DEF SetRefund
  <2> QED
    BY <2>1, <2>2, Zenon
<1>3. refund' \in [Orders -> [status : RefundStatuses \cup {"none"},
                             method : {"manual", "zarinpal"}]]
  BY <1>1, <1>2 DEF IInv, TypeOK
<1>4. refund[o].status \notin {"none", "succeeded"}
  BY DEF CanMove, RefundSteps
<1>5. order[o].pay = "paid"
  BY <1>4 DEF IInv, TypeOK, RefundFits, BooksAgree
<1>6. order' = IF s = "succeeded" THEN [order EXCEPT ![o].pay = "refunded"] ELSE order
  BY <1>5 DEF SetRefund
<1>7. order' \in [Orders -> [status : {"shipped", "delivered"},
                            pay : {"pending", "paid", "refunded"},
                            method : {"manual", "zarinpal"}]]
  BY <1>6 DEF IInv, TypeOK
<1>8. \A p \in Orders : /\ order'[p].status = order[p].status
                        /\ order'[p].pay = IF s = "succeeded" /\ p = o THEN "refunded"
                                           ELSE order[p].pay
  BY <1>6 DEF IInv, TypeOK
<1>9. outbox' \subseteq {"return", "refund"} \X Orders \X (ReturnStatuses \cup RefundStatuses)
  <2>1. outbox' \subseteq outbox \cup {<<"refund", o, s>>}
    BY DEF SetRefund
  <2> QED
    BY <2>1 DEF IInv, TypeOK
<1>10. \A p \in Orders : <<"refund", p, "succeeded">> \in outbox'
          <=> <<"refund", p, "succeeded">> \in outbox \/ (p = o /\ s = "succeeded")
  BY DEF SetRefund
<1>11. BooksAgree'
  <2>1. ASSUME NEW p \in Orders, p # o
        PROVE  refund'[p] = refund[p]
    BY <1>2, <2>1 DEF IInv, TypeOK
  <2>2. refund'[o].status = s
    BY <1>2 DEF IInv, TypeOK
  <2>3. returns' = returns /\ returns[o] # "refunded"
    BY <1>4 DEF SetRefund, IInv, BooksAgree
  <2>4. ASSUME NEW p \in Orders
        PROVE  /\ (order'[p].pay = "refunded") <=> (refund'[p].status = "succeeded")
               /\ returns'[p] = "refunded" => refund'[p].status = "succeeded"
               /\ (<<"refund", p, "succeeded">> \in outbox') <=> (refund'[p].status = "succeeded")
    <3>0. /\ (order[p].pay = "refunded") <=> (refund[p].status = "succeeded")
          /\ returns[p] = "refunded" => refund[p].status = "succeeded"
          /\ (<<"refund", p, "succeeded">> \in outbox) <=> (refund[p].status = "succeeded")
      BY DEF IInv, BooksAgree
    <3>1. CASE p = o
      BY <1>4, <1>5, <1>8, <1>10, <2>2, <2>3, <3>0, <3>1
    <3>2. CASE p # o
      BY <1>8, <1>10, <2>1, <2>3, <3>0, <3>2
    <3> QED
      BY <3>1, <3>2
  <2> QED
    BY <2>4 DEF BooksAgree
<1>12. ReturnsAreOfSales'
  BY <1>8 DEF SetRefund, IInv, ReturnsAreOfSales
<1>13. \A p \in Orders : order[p].pay # "pending" => order'[p].pay # "pending"
  BY <1>8
<1>14. UNCHANGED returns
  BY DEF SetRefund
<1> QED
  BY <1>2, <1>3, <1>7, <1>9, <1>11, <1>12, <1>13, <1>14

\* A request that moves its refund, and perhaps money.
LEMMA MoneyStep ==
    ASSUME IInv, NEW r \in Requests, NEW o \in Orders, NEW s \in RefundStatuses,
           NEW row \in RequestRow,
           CanMove(o, s), SetRefund(o, s), request' = [request EXCEPT ![r] = row],
           paidOut' \in [Orders -> Nat],
           \A p \in Orders \ {o} : paidOut'[p] = paidOut[p],
           \A q \in Requests \ {r} : Calling(q) => request[q].order # o,
           RequestFits(r)', CallFits(r)', RefundFits(o)'
    PROVE  IInv'
<1>1. /\ refund' = [refund EXCEPT ![o] = [status |-> s, method |-> refund[o].method]]
      /\ refund' \in [Orders -> [status : RefundStatuses \cup {"none"},
                                 method : {"manual", "zarinpal"}]]
      /\ order' \in [Orders -> [status : {"shipped", "delivered"},
                                pay : {"pending", "paid", "refunded"},
                                method : {"manual", "zarinpal"}]]
      /\ \A p \in Orders : order[p].pay # "pending" => order'[p].pay # "pending"
      /\ outbox' \subseteq {"return", "refund"} \X Orders \X (ReturnStatuses \cup RefundStatuses)
      /\ BooksAgree' /\ ReturnsAreOfSales'
      /\ UNCHANGED returns
  BY SetRefundKeepsBooks
<1>2. request' \in [Requests -> RequestRow] /\ \A q \in Requests \ {r} : request'[q] = request[q]
  BY DEF IInv, TypeOK
<1>3. TypeOK'
  BY <1>1, <1>2 DEF IInv, TypeOK
<1>4. /\ \A p \in Orders \ {o} : refund'[p] = refund[p]
      /\ refund'[o].status = s /\ refund'[o].method = refund[o].method /\ s # "none"
  BY <1>1 DEF IInv, TypeOK, RefundStatuses
<1>5. ASSUME NEW q \in Requests PROVE RequestFits(q)' /\ CallFits(q)'
  <2>1. CASE q = r
    BY <2>1
  <2>2. CASE q # r
    <3>1. request'[q] = request[q] /\ RequestFits(q) /\ CallFits(q)
      BY <1>2, <2>2 DEF IInv
    <3>2. RequestFits(q)'
      BY <1>1, <1>4, <3>1 DEF RequestFits, Paying
    <3>3. CallFits(q)'
      <4>1. SUFFICES ASSUME Calling(q)' PROVE CallFits(q)'
        BY DEF CallFits
      <4>2. Calling(q) /\ request[q].order # o /\ request[q].order \in Orders
        BY <2>2, <3>1, <4>1 DEF Calling, RequestFits
      <4>3. ASSUME NEW x \in Requests, Calling(x)', request'[x].order = request[q].order
            PROVE  x = q
        <5>1. CASE x = r
          <6>1. CallFits(r)' => (\A y \in Requests : Calling(y)' /\ request'[y].order = request'[r].order => y = r)
            BY <4>3, <5>1 DEF CallFits
          <6> QED
            BY <3>1, <4>1, <4>3, <5>1, <6>1
        <5>2. CASE x # r
          BY <1>2, <3>1, <4>2, <4>3, <5>2 DEF CallFits, Calling
        <5> QED
          BY <5>1, <5>2
      <4> QED
        BY <1>4, <3>1, <4>2, <4>3 DEF CallFits
    <3> QED
      BY <3>2, <3>3
  <2> QED
    BY <2>1, <2>2
<1>6. ASSUME NEW p \in Orders PROVE RefundFits(p)'
  <2>1. CASE p = o
    BY <2>1
  <2>2. CASE p # o
    <3>1. refund'[p] = refund[p] /\ paidOut'[p] = paidOut[p] /\ returns'[p] = returns[p]
      BY <1>1, <1>4, <2>2
    <3>2. order[p].pay # "pending" => order'[p].pay # "pending"
      BY <1>1
    <3>3. RefundFits(p)
      BY DEF IInv
    <3> QED
      BY <3>1, <3>2, <3>3 DEF RefundFits
  <2> QED
    BY <2>1, <2>2
<1> QED
  BY <1>1, <1>3, <1>5, <1>6 DEF IInv
\* What a request that may pay relies on.
LEMMA PayingFacts ==
    ASSUME IInv, NEW r \in Requests, Paying(r), request[r].at # "allowed"
    PROVE  /\ request[r] \in RequestRow /\ request[r].order \in Orders
           /\ refund[request[r].order] \in [status : RefundStatuses \cup {"none"},
                                            method : {"manual", "zarinpal"}]
           /\ request[r].kind \in {"provider", "manual"}
           /\ returns[request[r].order] \in Back
           /\ (request[r].kind = "manual") <=> (refund[request[r].order].method = "manual")
           /\ RefundFits(request[r].order)
<1>1. request[r].at # "idle" /\ RequestFits(r)
  BY DEF IInv, Paying
<1>2. request[r] \in RequestRow /\ request[r].order \in Orders
  BY <1>1 DEF IInv, TypeOK, RequestFits
<1> QED
  BY <1>1, <1>2 DEF IInv, TypeOK, RequestFits

\* A transaction that refuses ends its request and changes nothing else.
LEMMA RefusedStep ==
    ASSUME IInv, NEW r \in Requests, request' = [request EXCEPT ![r] = Idle],
           UNCHANGED <<order, returns, refund, outbox, paidOut>>
    PROVE  IInv'
<1>1. Idle \in RequestRow
  BY DEF RequestRow, Idle
<1>2. request'[r] = Idle
  BY DEF IInv, TypeOK
<1>3. RequestFits(r)' /\ ~Calling(r)'
  BY <1>2 DEF RequestFits, Calling, Paying, Idle
<1> QED
  BY <1>1, <1>3, OnlyTheRequest

\* A claim finds the refund pending: nobody has been asked to pay.
LEMMA ClaimStep ==
    ASSUME IInv, NEW r \in Requests, Claim(r)
    PROVE  IInv'
<1>1. PICK o \in Orders : o = request[r].order
  BY DEF Claim, IInv, RequestFits
<1>2. /\ request[r] \in RequestRow /\ request[r].kind \in {"provider", "manual"}
      /\ refund[o] \in [status : RefundStatuses \cup {"none"}, method : {"manual", "zarinpal"}]
      /\ returns[o] \in Back /\ RefundFits(o)
      /\ (request[r].kind = "manual") <=> (refund[o].method = "manual")
  BY <1>1, PayingFacts DEF Claim, Paying
<1>3. CASE CanMove(o, "processing")
  <2> DEFINE row == [request[r] EXCEPT !.at = "claimed"]
  <2>1. row \in RequestRow
    BY <1>2 DEF RequestRow
  <2>2. SetRefund(o, "processing") /\ request' = [request EXCEPT ![r] = row] /\ UNCHANGED paidOut
    BY <1>1, <1>3 DEF Claim, MoveRefund
  <2>3. refund[o].status = "pending" /\ paidOut[o] = 0
    BY <1>2, <1>3 DEF CanMove, RefundSteps, RefundFits
  <2>4. /\ request'[r].at = "claimed" /\ request'[r].order = o
        /\ request'[r].kind = request[r].kind
        /\ \A q \in Requests \ {r} : request'[q] = request[q]
    <3>1. request'[r] = row
      BY <2>2 DEF IInv, TypeOK
    <3> QED
      BY <1>1, <1>2, <2>2, <3>1 DEF RequestRow, IInv, TypeOK
  <2>5. refund' = [refund EXCEPT ![o] = [status |-> "processing", method |-> refund[o].method]]
    BY <1>3, <2>2, SetRefundKeepsBooks DEF RefundStatuses
  <2>6. refund'[o].status = "processing" /\ refund'[o].method = refund[o].method
    BY <2>5 DEF IInv, TypeOK
  <2>7. \A q \in Requests \ {r} : Calling(q) => request[q].order # o
    BY <2>3 DEF IInv, CallFits
  <2>8. returns' = returns /\ (order[o].pay # "pending" => order'[o].pay # "pending")
    BY <1>3, <2>2, SetRefundKeepsBooks DEF RefundStatuses
  <2>9. RequestFits(r)'
    BY <1>2, <2>4, <2>6, <2>8 DEF RequestFits, Paying
  <2>10. CallFits(r)'
    BY <2>2, <2>3, <2>4, <2>6, <2>7 DEF CallFits, Calling
  <2>11. RefundFits(o)'
    BY <1>2, <2>2, <2>3, <2>6, <2>8 DEF RefundFits
  <2>12. paidOut' \in [Orders -> Nat] /\ \A p \in Orders \ {o} : paidOut'[p] = paidOut[p]
    BY <2>2 DEF IInv, TypeOK
  <2>13. "processing" \in RefundStatuses
    BY DEF RefundStatuses
  <2> HIDE DEF row
  <2> QED
    BY <1>3, <2>1, <2>2, <2>7, <2>9, <2>10, <2>11, <2>12, <2>13, MoneyStep
<1>4. CASE ~CanMove(o, "processing")
  BY <1>1, <1>4, RefusedStep DEF Claim, MoveRefund
<1> QED
  BY <1>3, <1>4

\* A refund that is confirmed by hand is claimed, and no provider is asked about it.
LEMMA ConfirmStep ==
    ASSUME IInv, NEW r \in Requests, Confirm(r)
    PROVE  IInv'
<1>1. PICK o \in Orders : o = request[r].order
  BY DEF Confirm, IInv, RequestFits
<1>2. /\ request[r] \in RequestRow /\ request[r].kind = "manual"
      /\ refund[o] \in [status : RefundStatuses \cup {"none"}, method : {"manual", "zarinpal"}]
      /\ returns[o] \in Back /\ RefundFits(o) /\ refund[o].method = "manual"
  BY <1>1, PayingFacts DEF Confirm, Paying
<1>3. CASE CanMove(o, "succeeded")
  <2>1. Idle \in RequestRow /\ "succeeded" \in RefundStatuses
    BY DEF RequestRow, Idle, RefundStatuses
  <2>2. /\ SetRefund(o, "succeeded") /\ request' = [request EXCEPT ![r] = Idle]
        /\ paidOut' = [paidOut EXCEPT ![o] = @ + 1]
    BY <1>1, <1>3 DEF Confirm, MoveRefund
  <2>3. refund[o].status = "processing" /\ paidOut[o] = 0
    BY <1>2, <1>3 DEF CanMove, RefundSteps, RefundFits
  <2>4. /\ paidOut' \in [Orders -> Nat] /\ paidOut'[o] = 1
        /\ \A p \in Orders \ {o} : paidOut'[p] = paidOut[p]
    BY <2>2, <2>3 DEF IInv, TypeOK
  <2>5. \A q \in Requests \ {r} : Calling(q) => request[q].order # o
    <3>1. SUFFICES ASSUME NEW q \in Requests, Calling(q) PROVE request[q].order # o
      OBVIOUS
    <3>2. refund[request[q].order].method # "manual"
      BY <3>1, PayingFacts DEF Calling, Paying
    <3> QED
      BY <1>2, <3>2
  <2>6. request'[r] = Idle
    BY <2>2 DEF IInv, TypeOK
  <2>7. RequestFits(r)' /\ CallFits(r)'
    BY <2>6 DEF RequestFits, CallFits, Calling, Paying, Idle
  <2>8. refund' = [refund EXCEPT ![o] = [status |-> "succeeded", method |-> refund[o].method]]
    BY <1>3, <2>1, <2>2, SetRefundKeepsBooks
  <2>9. refund'[o].status = "succeeded" /\ refund'[o].method = refund[o].method
    BY <2>8 DEF IInv, TypeOK
  <2>10. returns' = returns /\ (order[o].pay # "pending" => order'[o].pay # "pending")
    BY <1>3, <2>1, <2>2, SetRefundKeepsBooks
  <2>11. RefundFits(o)'
    BY <1>2, <2>3, <2>4, <2>9, <2>10 DEF RefundFits
  <2> QED
    BY <1>3, <2>1, <2>2, <2>4, <2>5, <2>7, <2>11, MoneyStep
<1>4. CASE ~CanMove(o, "succeeded")
  BY <1>1, <1>4, RefusedStep DEF Confirm, MoveRefund
<1> QED
  BY <1>3, <1>4

\* The one request that has the claim records what the provider said.
LEMMA RecordAnswerStep ==
    ASSUME IInv, NEW r \in Requests, RecordAnswer(r)
    PROVE  IInv'
<1>1. PICK o \in Orders : o = request[r].order
  BY DEF RecordAnswer, IInv, RequestFits
<1>2. /\ request[r] \in RequestRow /\ Calling(r) /\ CallFits(r)
      /\ refund[o] \in [status : RefundStatuses \cup {"none"}, method : {"manual", "zarinpal"}]
      /\ returns[o] \in Back /\ RefundFits(o) /\ refund[o].method # "manual"
  <2>1. Calling(r)
    BY DEF RecordAnswer, IInv, RequestFits, Calling
  <2> QED
    BY <1>1, <2>1, PayingFacts DEF IInv, RecordAnswer, Calling, Paying
<1> DEFINE s == Outcome(request[r].answer)
<1>3. PICK t \in {"succeeded", "manual_review"} : t = s
  BY DEF Outcome
<1>4. CASE CanMove(o, t)
  <2>1. Idle \in RequestRow /\ t \in RefundStatuses
    BY DEF RequestRow, Idle, RefundStatuses
  <2>2. SetRefund(o, t) /\ request' = [request EXCEPT ![r] = Idle] /\ UNCHANGED paidOut
    BY <1>1, <1>3, <1>4 DEF RecordAnswer, MoveRefund
  <2>3. /\ \A q \in Requests \ {r} : Calling(q) => request[q].order # o
        /\ paidOut[o] = IF request[r].answer \in {"paid", "paid_error"} THEN 1 ELSE 0
    BY <1>1, <1>2 DEF RecordAnswer, CallFits
  <2>4. t = "succeeded" => paidOut[o] = 1
    BY <1>3, <2>3 DEF Outcome
  <2>5. paidOut' \in [Orders -> Nat] /\ \A p \in Orders \ {o} : paidOut'[p] = paidOut[p]
    BY <2>2 DEF IInv, TypeOK
  <2>6. request'[r] = Idle
    BY <2>2 DEF IInv, TypeOK
  <2>7. RequestFits(r)' /\ CallFits(r)'
    BY <2>6 DEF RequestFits, CallFits, Calling, Paying, Idle
  <2>8. refund' = [refund EXCEPT ![o] = [status |-> t, method |-> refund[o].method]]
    BY <1>4, <2>1, <2>2, SetRefundKeepsBooks
  <2>9. refund'[o].status = t /\ refund'[o].method = refund[o].method
    BY <2>8 DEF IInv, TypeOK
  <2>10. returns' = returns /\ (order[o].pay # "pending" => order'[o].pay # "pending")
    BY <1>4, <2>1, <2>2, SetRefundKeepsBooks
  <2>11. RefundFits(o)'
    <3>1. refund[o].status # "none"
      BY <1>4 DEF CanMove, RefundSteps
    <3> QED
      BY <1>2, <1>3, <2>2, <2>4, <2>9, <2>10, <3>1 DEF RefundFits
  <2> QED
    BY <1>4, <2>1, <2>2, <2>3, <2>5, <2>7, <2>11, MoneyStep
<1>5. CASE ~CanMove(o, t)
  BY <1>1, <1>3, <1>5, RefusedStep DEF RecordAnswer, MoveRefund
<1> QED
  BY <1>4, <1>5

-----------------------------------------------------------------------------

\* The provider is called under the claim, and pays for it at most once.
LEMMA CallProviderStep ==
    ASSUME IInv, NEW r \in Requests, NEW answer \in Answers, CallProvider(r, answer)
    PROVE  IInv'
<1>1. PICK o \in Orders : o = request[r].order
  BY DEF CallProvider, IInv, RequestFits
<1>2. /\ request[r] \in RequestRow /\ Calling(r) /\ CallFits(r)
      /\ returns[o] \in Back /\ RefundFits(o) /\ refund[o].method # "manual"
  BY <1>1, PayingFacts DEF CallProvider, IInv, Calling, Paying
<1> DEFINE row == [request[r] EXCEPT !.at = "answered", !.answer = answer]
<1>3. row \in RequestRow
  BY <1>2 DEF RequestRow
<1>4. request' = [request EXCEPT ![r] = row] /\ request'[r] = row
  BY DEF CallProvider, IInv, TypeOK
<1>5. /\ request'[r].at = "answered" /\ request'[r].answer = answer
      /\ request'[r].order = o /\ request'[r].kind = "provider"
      /\ request' \in [Requests -> RequestRow]
      /\ \A q \in Requests \ {r} : request'[q] = request[q]
  BY <1>1, <1>2, <1>3, <1>4 DEF RequestRow, CallProvider, IInv, TypeOK
<1>6. /\ \A q \in Requests \ {r} : Calling(q) => request[q].order # o
      /\ refund[o].status = "processing" /\ paidOut[o] = 0
  BY <1>1, <1>2 DEF CallProvider, CallFits
<1>7. /\ paidOut' \in [Orders -> Nat]
      /\ paidOut'[o] = IF answer \in {"paid", "paid_error"} THEN 1 ELSE 0
      /\ \A p \in Orders \ {o} : paidOut'[p] = paidOut[p]
  BY <1>1, <1>6 DEF CallProvider, IInv, TypeOK
<1>8. UNCHANGED <<order, returns, refund, outbox>>
  BY DEF CallProvider
<1>9. TypeOK'
  BY <1>5, <1>7, <1>8 DEF IInv, TypeOK
<1>10. ASSUME NEW q \in Requests PROVE RequestFits(q)' /\ CallFits(q)'
  <2>1. CASE q = r
    <3>1. RequestFits(r)'
      BY <1>2, <1>5, <1>6, <1>8 DEF RequestFits
    <3>2. CallFits(r)'
      BY <1>5, <1>6, <1>7, <1>8 DEF CallFits, Calling
    <3> QED
      BY <2>1, <3>1, <3>2
  <2>2. CASE q # r
    <3>1. request'[q] = request[q] /\ RequestFits(q) /\ CallFits(q)
      BY <1>5, <2>2 DEF IInv
    <3>2. RequestFits(q)'
      BY <1>8, <3>1 DEF RequestFits, Paying
    <3>3. CallFits(q)'
      <4>1. SUFFICES ASSUME Calling(q)' PROVE CallFits(q)'
        BY DEF CallFits
      <4>2. Calling(q) /\ request[q].order # o /\ request[q].order \in Orders
        BY <1>6, <2>2, <3>1, <4>1 DEF Calling, RequestFits
      <4>3. ASSUME NEW x \in Requests, Calling(x)', request'[x].order = request[q].order
            PROVE  x = q
        BY <1>5, <3>1, <4>2, <4>3 DEF CallFits, Calling
      <4> QED
        BY <1>7, <1>8, <3>1, <4>2, <4>3 DEF CallFits
    <3> QED
      BY <3>2, <3>3
  <2> QED
    BY <2>1, <2>2
<1>11. ASSUME NEW p \in Orders PROVE RefundFits(p)'
  BY <1>2, <1>6, <1>7, <1>8 DEF IInv, RefundFits
<1>12. BooksAgree' /\ ReturnsAreOfSales'
  BY <1>8 DEF IInv, BooksAgree, ReturnsAreOfSales
<1> QED
  BY <1>9, <1>10, <1>11, <1>12 DEF IInv

\* A refund is created for an order that is still paid, and once.
LEMMA CreateRefundStep ==
    ASSUME IInv, NEW r \in Requests, CreateRefund(r)
    PROVE  IInv'
<1>1. PICK o \in Orders : o = request[r].order
  BY DEF CreateRefund, IInv, RequestFits
<1> DEFINE creates == order[o].pay = "paid" /\ refund[o].status = "none" /\ request[r].amount > 0
<1>2. CASE creates
  <2>1. /\ request' = [request EXCEPT ![r] = Idle]
        /\ refund' = [refund EXCEPT ![o] = [status |-> "pending", method |-> order[o].method]]
        /\ UNCHANGED <<order, returns, outbox, paidOut>>
    BY <1>1, <1>2 DEF CreateRefund
  <2>2. /\ refund' \in [Orders -> [status : RefundStatuses \cup {"none"},
                                   method : {"manual", "zarinpal"}]]
        /\ \A p \in Orders \ {o} : refund'[p] = refund[p]
        /\ refund'[o].status = "pending"
    <3>1. [status |-> "pending", method |-> order[o].method]
             \in [status : RefundStatuses \cup {"none"}, method : {"manual", "zarinpal"}]
      BY DEF IInv, TypeOK, RefundStatuses
    <3> QED
      BY <2>1, <3>1 DEF IInv, TypeOK
  <2>3. /\ request' \in [Requests -> RequestRow] /\ request'[r] = Idle
        /\ \A q \in Requests \ {r} : request'[q] = request[q]
    BY <2>1 DEF IInv, TypeOK, RequestRow, Idle
  <2>4. TypeOK'
    BY <2>1, <2>2, <2>3 DEF IInv, TypeOK
  <2>5. ASSUME NEW q \in Requests PROVE RequestFits(q)' /\ CallFits(q)'
    <3>1. CASE q = r
      BY <2>3, <3>1 DEF RequestFits, CallFits, Calling, Paying, Idle
    <3>2. CASE q # r
      <4>1. request'[q] = request[q] /\ RequestFits(q) /\ CallFits(q)
        BY <2>3, <3>2 DEF IInv
      <4>2. Paying(q) /\ request[q].at # "allowed"
               => request[q].order # o /\ request[q].order \in Orders
        BY <1>2, <4>1 DEF RequestFits, Paying
      <4>3. RequestFits(q)'
        BY <2>1, <2>2, <4>1, <4>2 DEF RequestFits, Paying
      <4>4. CallFits(q)'
        BY <2>1, <2>2, <2>3, <4>1, <4>2 DEF CallFits, Calling, Paying, Idle
      <4> QED
        BY <4>3, <4>4
    <3> QED
      BY <3>1, <3>2
  <2>6. ASSUME NEW p \in Orders PROVE RefundFits(p)'
    BY <1>2, <2>1, <2>2 DEF IInv, RefundFits
  <2>7. BooksAgree' /\ ReturnsAreOfSales'
    BY <1>2, <2>1, <2>2 DEF IInv, BooksAgree, ReturnsAreOfSales
  <2> QED
    BY <2>4, <2>5, <2>6, <2>7 DEF IInv
<1>3. CASE ~creates
  BY <1>1, <1>3, RefusedStep DEF CreateRefund
<1> QED
  BY <1>2, <1>3

-----------------------------------------------------------------------------

LEMMA NextIInv == IInv /\ [Next]_vars => IInv'
<1> SUFFICES ASSUME IInv, [Next]_vars PROVE IInv'
  OBVIOUS
<1>1. CASE UNCHANGED vars
  BY <1>1 DEF vars, IInv, TypeOK, RequestFits, CallFits, RefundFits, BooksAgree,
              ReturnsAreOfSales, Paying, Calling
<1>2. CASE ReturnNext
  <2>1. PICK o \in Orders : Deliver(o) \/ CreateRequest(o)
                            \/ \E s \in ReturnStatuses : UpdateReturn(o, s)
    BY <1>2 DEF ReturnNext
  <2>2. "requested" \in ReturnStatuses
    BY DEF ReturnStatuses
  <2> QED
    BY <2>1, <2>2, ReturnStep
<1>3. CASE RefundNext
  <2>1. CASE \E r \in Requests, o \in Orders, amount \in Amounts : CheckEligibility(r, o, amount)
    BY <2>1, CheckEligibilityStep
  <2>2. CASE \E r \in Requests, o \in Orders, k \in {"provider", "manual"} : AllowRefund(r, k, o)
    BY <2>2, AllowRefundStep
  <2>3. CASE \E r \in Requests : CreateRefund(r)
    BY <2>3, CreateRefundStep
  <2>4. CASE \E r \in Requests : LoadRefund(r)
    BY <2>4, LoadRefundStep
  <2>5. CASE \E r \in Requests : Claim(r)
    BY <2>5, ClaimStep
  <2>6. CASE \E r \in Requests : Confirm(r)
    BY <2>6, ConfirmStep
  <2>7. CASE \E r \in Requests, answer \in Answers : CallProvider(r, answer)
    BY <2>7, CallProviderStep
  <2>8. CASE \E r \in Requests : RecordAnswer(r)
    BY <2>8, RecordAnswerStep
  <2>9. CASE \E r \in Requests : LoseRequest(r)
    BY <2>9, LoseRequestStep
  <2> QED
    BY <1>3, <2>1, <2>2, <2>3, <2>4, <2>5, <2>6, <2>7, <2>8, <2>9 DEF RefundNext
<1> QED
  BY <1>1, <1>2, <1>3 DEF Next

\* The inductive invariant holds in every reachable state.
THEOREM Invariance == Spec => []IInv
BY InitHolds, NextIInv, PTL DEF Spec

\* However many requests there are, wherever they die and whatever the provider
\* answers: an order's money goes back at most once, for goods that came back, is
\* never forgotten, and the tables and the mails agree about it.
THEOREM ReturnsAreSafe == Spec => []ReturnsSafety
<1>1. IInv => TypeOK
  BY DEF IInv
<1>2. IInv => PaidOutOnce
  <2>1. ASSUME IInv, NEW o \in Orders
        PROVE  /\ paidOut[o] <= 1
               /\ paidOut[o] = 1 => returns[o] \in {"received", "refund_pending", "refunded",
                                                    "refund_failed"}
    BY <2>1 DEF IInv, RefundFits, Back
  <2> QED
    BY <2>1 DEF PaidOutOnce
<1>3. IInv => MoneyIsTracked
  <2>1. ASSUME IInv, NEW o \in Orders
        PROVE  /\ paidOut[o] = 1
                     => refund[o].status \in {"processing", "manual_review", "succeeded"}
               /\ refund[o].status = "succeeded" => paidOut[o] = 1
    BY <2>1 DEF IInv, TypeOK, RefundFits, RefundStatuses
  <2> QED
    BY <2>1 DEF MoneyIsTracked
<1>4. IInv => BooksAgree /\ ReturnsAreOfSales
  BY DEF IInv
<1> QED
  BY <1>1, <1>2, <1>3, <1>4, Invariance, PTL DEF ReturnsSafety

-----------------------------------------------------------------------------
(* The tables implement MoneyBack.                                         *)

\* What a step leaves alone stays alone in the promise's terms.
LEMMA GoodsStay == ASSUME UNCHANGED returns PROVE UNCHANGED Goods
BY DEF Goods

LEMMA MoneyStays == ASSUME UNCHANGED refund PROVE UNCHANGED Money
BY DEF Money

LEMMA ReturnKeepsPromise ==
    ASSUME IInv, NEW o \in Orders, NEW s \in ReturnStatuses,
           Deliver(o) \/ CreateRequest(o) \/ UpdateReturn(o, s)
    PROVE  [Promise!BackNext]_(Promise!backVars)
<1>1. UNCHANGED <<Money, paidOut>>
  BY MoneyStays DEF Deliver, CreateRequest, UpdateReturn
<1>2. CASE Deliver(o)
  BY <1>1, <1>2, GoodsStay DEF Deliver, Promise!backVars
<1>3. CASE CreateRequest(o)
  <2>1. Goods[o] = "sold" /\ Goods' = [Goods EXCEPT ![o] = "asked"]
    BY <1>3 DEF CreateRequest, Goods, IInv, TypeOK
  <2> QED
    BY <1>1, <2>1 DEF Promise!Move, Promise!BackNext
<1>4. CASE UpdateReturn(o, s)
  <2>1. returns' = [returns EXCEPT ![o] = s] /\ <<returns[o], s>> \in ReturnSteps
    BY <1>4 DEF UpdateReturn
  <2>2. CASE returns[o] = "requested" /\ s = "approved"
    <3>1. Goods[o] = "asked" /\ Goods' = [Goods EXCEPT ![o] = "agreed"]
      BY <2>1, <2>2 DEF Goods, IInv, TypeOK
    <3> QED
      BY <1>1, <3>1 DEF Promise!Move, Promise!BackNext
  <2>3. CASE returns[o] = "requested" /\ s = "rejected"
    <3>1. Goods[o] = "asked" /\ Goods' = [Goods EXCEPT ![o] = "refused"]
      BY <2>1, <2>3 DEF Goods, IInv, TypeOK
    <3> QED
      BY <1>1, <3>1 DEF Promise!Move, Promise!BackNext
  <2>4. CASE returns[o] = "approved" /\ s = "received"
    <3>1. Goods[o] = "agreed" /\ Goods' = [Goods EXCEPT ![o] = "back"]
      BY <2>1, <2>4 DEF Goods, IInv, TypeOK
    <3> QED
      BY <1>1, <3>1 DEF Promise!Move, Promise!BackNext
  <2>5. CASE returns[o] \in {"received", "refund_pending"}
             /\ s \in {"refund_pending", "refunded", "refund_failed"}
    <3>1. Goods' = Goods
      BY <2>1, <2>5 DEF Goods, IInv, TypeOK
    <3> QED
      BY <1>1, <3>1 DEF Promise!backVars
  <2> QED
    BY <2>1, <2>2, <2>3, <2>4, <2>5 DEF ReturnSteps
<1> QED
  BY <1>2, <1>3, <1>4

\* The promise's view of a refund that moves.
LEMMA MoneyMoves ==
    ASSUME IInv, NEW o \in Orders, NEW s \in RefundStatuses, CanMove(o, s), SetRefund(o, s)
    PROVE  /\ UNCHANGED Goods
           /\ Money' = [Money EXCEPT ![o] =
                  IF s = "processing" THEN "moving"
                  ELSE IF s = "succeeded" THEN "returned" ELSE "unclear"]
<1>1. refund' = [refund EXCEPT ![o] = [status |-> s, method |-> refund[o].method]]
      /\ UNCHANGED returns
  BY SetRefundKeepsBooks
<1>2. s \notin {"none", "pending"}
  BY DEF CanMove, RefundSteps
<1>3. refund'[o].status = s /\ \A p \in Orders \ {o} : refund'[p] = refund[p]
  BY <1>1 DEF IInv, TypeOK
<1> QED
  BY <1>1, <1>2, <1>3, GoodsStay DEF Money

\* A claim starts a refund, or nothing happens.
LEMMA ClaimKeepsPromise ==
    ASSUME IInv, NEW r \in Requests, Claim(r)
    PROVE  [Promise!BackNext]_(Promise!backVars)
<1>1. PICK o \in Orders : o = request[r].order
  BY DEF Claim, IInv, RequestFits
<1>2. CASE CanMove(o, "processing")
  <2>1. SetRefund(o, "processing") /\ UNCHANGED paidOut /\ "processing" \in RefundStatuses
    BY <1>1, <1>2 DEF Claim, MoveRefund, RefundStatuses
  <2>2. UNCHANGED Goods /\ Money' = [Money EXCEPT ![o] = "moving"]
    BY <1>2, <2>1, MoneyMoves
  <2>3. refund[o].status = "pending" /\ returns[o] \in Back
    BY <1>1, <1>2, PayingFacts DEF Claim, Paying, CanMove, RefundSteps
  <2>4. Money[o] = "kept" /\ Goods[o] = "back"
    BY <2>3 DEF Money, Goods, Back
  <2> QED
    BY <2>1, <2>2, <2>4 DEF Promise!StartRefund, Promise!BackNext
<1>3. CASE ~CanMove(o, "processing")
  BY <1>1, <1>3, GoodsStay, MoneyStays DEF Claim, MoveRefund, Promise!backVars
<1> QED
  BY <1>2, <1>3

\* A confirmation hands the money over, or nothing happens.
LEMMA ConfirmKeepsPromise ==
    ASSUME IInv, NEW r \in Requests, Confirm(r)
    PROVE  [Promise!BackNext]_(Promise!backVars)
<1>1. PICK o \in Orders : o = request[r].order
  BY DEF Confirm, IInv, RequestFits
<1>2. CASE CanMove(o, "succeeded")
  <2>1. /\ SetRefund(o, "succeeded") /\ paidOut' = [paidOut EXCEPT ![o] = @ + 1]
        /\ "succeeded" \in RefundStatuses
    BY <1>1, <1>2 DEF Confirm, MoveRefund, RefundStatuses
  <2>2. UNCHANGED Goods /\ Money' = [Money EXCEPT ![o] = "returned"]
    BY <1>2, <2>1, MoneyMoves
  <2>3. RefundFits(o) /\ refund[o].method = "manual"
    BY <1>1, PayingFacts DEF Confirm, Paying
  <2>4. refund[o].status = "processing" /\ paidOut[o] = 0
    BY <1>2, <2>3 DEF CanMove, RefundSteps, RefundFits
  <2>5. Money[o] = "moving" /\ paidOut' = [paidOut EXCEPT ![o] = 1]
    BY <2>1, <2>4 DEF Money, IInv, TypeOK
  <2> QED
    BY <2>2, <2>4, <2>5 DEF Promise!HandOver, Promise!BackNext
<1>3. CASE ~CanMove(o, "succeeded")
  BY <1>1, <1>3, GoodsStay, MoneyStays DEF Confirm, MoveRefund, Promise!backVars
<1> QED
  BY <1>2, <1>3

\* The provider pays for the first time, or not at all.
LEMMA CallKeepsPromise ==
    ASSUME IInv, NEW r \in Requests, NEW answer \in Answers, CallProvider(r, answer)
    PROVE  [Promise!BackNext]_(Promise!backVars)
<1>1. PICK o \in Orders : o = request[r].order
  BY DEF CallProvider, IInv, RequestFits
<1>2. UNCHANGED <<Goods, Money>>
  BY GoodsStay, MoneyStays DEF CallProvider
<1>3. refund[o].status = "processing" /\ paidOut[o] = 0
  BY <1>1 DEF CallProvider, IInv, CallFits, Calling
<1>4. CASE answer \in {"paid", "paid_error"}
  <2>1. Money[o] = "moving" /\ paidOut' = [paidOut EXCEPT ![o] = 1]
    BY <1>1, <1>3, <1>4 DEF CallProvider, Money, IInv, TypeOK
  <2> QED
    BY <1>2, <1>3, <2>1 DEF Promise!PayOut, Promise!BackNext
<1>5. CASE answer \notin {"paid", "paid_error"}
  BY <1>2, <1>5 DEF CallProvider, Promise!backVars
<1> QED
  BY <1>4, <1>5

\* An answer is recorded as a success only if the money has left; any other answer
\* is left to a human.
LEMMA RecordKeepsPromise ==
    ASSUME IInv, NEW r \in Requests, RecordAnswer(r)
    PROVE  [Promise!BackNext]_(Promise!backVars)
<1>1. PICK o \in Orders : o = request[r].order
  BY DEF RecordAnswer, IInv, RequestFits
<1>2. refund[o].status = "processing" /\ (request[r].answer = "paid" => paidOut[o] = 1)
  BY <1>1 DEF RecordAnswer, IInv, RequestFits, CallFits, Calling
<1>3. Money[o] = "moving"
  BY <1>2 DEF Money
<1>4. PICK t \in {"succeeded", "manual_review"} : t = Outcome(request[r].answer)
  BY DEF Outcome
<1>5. CanMove(o, t) /\ t \in RefundStatuses
  BY <1>2 DEF CanMove, RefundSteps, RefundStatuses
<1>6. SetRefund(o, t) /\ UNCHANGED paidOut
  BY <1>1, <1>4, <1>5 DEF RecordAnswer, MoveRefund
<1>7. /\ UNCHANGED Goods
      /\ Money' = [Money EXCEPT ![o] = IF t = "processing" THEN "moving"
                                       ELSE IF t = "succeeded" THEN "returned" ELSE "unclear"]
  BY <1>5, <1>6, MoneyMoves
<1>8. CASE t = "succeeded"
  BY <1>2, <1>3, <1>4, <1>6, <1>7, <1>8 DEF Outcome, Promise!Record, Promise!BackNext
<1>9. CASE t = "manual_review"
  BY <1>3, <1>6, <1>7, <1>9 DEF Promise!Doubt, Promise!BackNext
<1> QED
  BY <1>8, <1>9

\* A refund that is only created is still kept.
LEMMA CreateKeepsPromise ==
    ASSUME IInv, NEW r \in Requests, CreateRefund(r)
    PROVE  UNCHANGED Promise!backVars
<1>1. UNCHANGED <<returns, paidOut>>
  BY DEF CreateRefund
<1>2. \A p \in Orders : \/ refund'[p] = refund[p]
                        \/ refund[p].status = "none" /\ refund'[p].status = "pending"
  <2>1. PICK o \in Orders : o = request[r].order
    BY DEF CreateRefund, IInv, RequestFits
  <2>2. CASE order[o].pay = "paid" /\ refund[o].status = "none" /\ request[r].amount > 0
    <3>1. refund' = [refund EXCEPT ![o] = [status |-> "pending", method |-> order[o].method]]
      BY <2>1, <2>2 DEF CreateRefund
    <3>2. refund'[o].status = "pending" /\ \A p \in Orders \ {o} : refund'[p] = refund[p]
      BY <3>1 DEF IInv, TypeOK
    <3> QED
      BY <2>2, <3>2
  <2>3. CASE ~(order[o].pay = "paid" /\ refund[o].status = "none" /\ request[r].amount > 0)
    <3>1. UNCHANGED refund
      BY <2>1, <2>3 DEF CreateRefund
    <3> QED
      BY <3>1
  <2> QED
    BY <2>2, <2>3
<1>3. UNCHANGED Money
  BY <1>2 DEF Money
<1> QED
  BY <1>1, <1>3, GoodsStay DEF Promise!backVars

LEMMA PromiseStep == IInv /\ [Next]_vars => [Promise!BackNext]_(Promise!backVars)
<1> SUFFICES ASSUME IInv, [Next]_vars PROVE [Promise!BackNext]_(Promise!backVars)
  OBVIOUS
<1>1. ASSUME UNCHANGED <<returns, refund, paidOut>> PROVE UNCHANGED Promise!backVars
  BY <1>1, GoodsStay, MoneyStays DEF Promise!backVars
<1>2. CASE UNCHANGED vars
  BY <1>1, <1>2 DEF vars
<1>3. CASE ReturnNext
  <2>1. PICK o \in Orders : Deliver(o) \/ CreateRequest(o)
                            \/ \E s \in ReturnStatuses : UpdateReturn(o, s)
    BY <1>3 DEF ReturnNext
  <2>2. "requested" \in ReturnStatuses
    BY DEF ReturnStatuses
  <2> QED
    BY <2>1, <2>2, ReturnKeepsPromise
<1>4. CASE RefundNext
  <2>1. CASE \E r \in Requests, o \in Orders : \/ \E amount \in Amounts : CheckEligibility(r, o, amount)
                                               \/ \E k \in {"provider", "manual"} : AllowRefund(r, k, o)
    BY <1>1, <2>1 DEF CheckEligibility, AllowRefund
  <2>2. CASE \E r \in Requests : LoadRefund(r) \/ LoseRequest(r)
    BY <1>1, <2>2 DEF LoadRefund, LoseRequest
  <2>3. CASE \E r \in Requests : CreateRefund(r)
    BY <2>3, CreateKeepsPromise
  <2>4. CASE \E r \in Requests : Claim(r)
    BY <2>4, ClaimKeepsPromise
  <2>5. CASE \E r \in Requests : Confirm(r)
    BY <2>5, ConfirmKeepsPromise
  <2>6. CASE \E r \in Requests, answer \in Answers : CallProvider(r, answer)
    BY <2>6, CallKeepsPromise
  <2>7. CASE \E r \in Requests : RecordAnswer(r)
    BY <2>7, RecordKeepsPromise
  <2> QED
    BY <1>4, <2>1, <2>2, <2>3, <2>4, <2>5, <2>6, <2>7 DEF RefundNext
<1> QED
  BY <1>2, <1>3, <1>4 DEF Next

\* Three tables, requests that read before they lock, and a provider outside every
\* transaction implement one small machine per order.
THEOREM Refinement == Spec => KeepsPromise
<1>1. Init => Promise!BackInit
  BY DEF Init, Goods, Money, Promise!BackInit
<1> QED
  BY <1>1, PromiseStep, Invariance, PTL DEF Spec, KeepsPromise, Promise!BackSpec

=============================================================================
