------------------------- MODULE OrderPaymentProofs -------------------------
(***************************************************************************)
(* Proofs about OrderPayment, for any sets of orders, attempts, references *)
(* and requests.                                                           *)
(***************************************************************************)
EXTENDS OrderPayment, TLAPS

\* The row of an attempt that does not exist is blank; every other attempt
\* belongs to an order, which CreateAttemptForOrder made an online one; only
\* an attempt without an authority fails.
RowsExist ==
    \A a \in Attempts :
        /\ attempt[a].status = "none" => attempt[a].order = NoOrder /\ ~attempt[a].authority
        /\ attempt[a].status # "none" =>
              attempt[a].order \in Orders /\ order[attempt[a].order].method = "zarinpal"
        /\ attempt[a].authority => attempt[a].status # "failed"

\* The customer is sent to the payment page, and a verification asks, only
\* for a recorded authority; success is only answered for captured money.
AuthorityFirst ==
    /\ \A a \in Attempts : request[a] = "redirected" => attempt[a].authority
    /\ \A v \in Verifiers \cup {Maint} : verifier[v].step # "idle" =>
          /\ verifier[v].attempt \in Attempts
          /\ attempt[verifier[v].attempt].authority
          /\ verifier[v].answer = "success" => captured[verifier[v].attempt] # NoRef

\* What the rows of orders and payment_attempts say of each other.
Ledger ==
    /\ RowsExist
    /\ CancelledIsUnpaid
    /\ FulfilledIsPaid
    /\ PaidByOneAttempt
    /\ RefPaysOnce
    /\ OneLiveAttempt

IInv ==
    /\ TypeOK
    /\ Ledger
    /\ AuthorityFirst
    /\ SettledIsCaptured
    /\ GivenBackOnce
    /\ MailMatchesOrder

-----------------------------------------------------------------------------
LEMMA InitIInv == Init => IInv
  BY ConstantsAssumption
  DEF Init, IInv, Ledger, TypeOK, RowsExist, AuthorityFirst, CancelledIsUnpaid,
      FulfilledIsPaid, PaidByOneAttempt, RefPaysOnce, OneLiveAttempt, SettledIsCaptured,
      GivenBackOnce, MailMatchesOrder, OfOrder, NoAttemptRow, Idle, OrderRow, AttemptRow,
      VerifierState, Statuses, PaymentStatuses, Methods, AttemptStatuses, Codes, Outcomes,
      Settled, Phases, Steps, Answers, Events

-----------------------------------------------------------------------------
(* Type correctness.                                                       *)

\* The transactions of the orders.
LEMMA OrderTypes ==
    ASSUME IInv, NEW o \in Orders,
           \/ \E s \in Statuses : UpdateStatus(o, s)
           \/ CancelOwnOrder(o)
           \/ OrderDue(o)
    PROVE  TypeOK'
  <1> USE DEF orderVars, attemptVars, maintVars
  <1>1. CASE \E s \in Statuses : UpdateStatus(o, s)
    <2> PICK s \in Statuses : UpdateStatus(o, s)
      BY <1>1
    <2>1. order' \in [Orders -> OrderRow]
      BY DEF UpdateStatus, SetStatus, IInv, TypeOK, OrderRow
    <2>2. restored' \in [Orders -> Nat] /\ redeemed' \in SUBSET Orders
      BY DEF UpdateStatus, GiveBack, IInv, TypeOK
    <2>3. outbox' \in SUBSET (Orders \X Events)
      BY DEF UpdateStatus, CanTransition, OrderEvent, Events, IInv, TypeOK
    <2> QED
      BY <2>1, <2>2, <2>3 DEF UpdateStatus, IInv, TypeOK
  <1>2. CASE CancelOwnOrder(o)
    <2>1. order' \in [Orders -> OrderRow]
      BY <1>2 DEF CancelOwnOrder, SetStatus, IInv, TypeOK, OrderRow, Statuses
    <2>2. restored' \in [Orders -> Nat] /\ redeemed' \in SUBSET Orders
      BY <1>2 DEF CancelOwnOrder, GiveBack, IInv, TypeOK
    <2>3. outbox' \in SUBSET (Orders \X Events)
      BY <1>2 DEF CancelOwnOrder, OrderEvent, Events, IInv, TypeOK
    <2> QED
      BY <1>2, <2>1, <2>2, <2>3 DEF CancelOwnOrder, IInv, TypeOK
  <1>3. CASE OrderDue(o)
    <2>1. order' \in [Orders -> OrderRow]
      <3>1. order[o] \in OrderRow
        BY DEF IInv, TypeOK
      <3>2. [order[o] EXCEPT !.due = TRUE] \in OrderRow
        BY <3>1 DEF OrderRow
      <3> QED
        BY <1>3, <3>2 DEF OrderDue, IInv, TypeOK
    <2> QED
      BY <1>3, <2>1 DEF OrderDue, IInv, TypeOK
  <1> QED
    BY <1>1, <1>2, <1>3

\* Every update of a row of payment_attempts leaves a row.
LEMMA AttemptUpdates ==
    ASSUME NEW row \in AttemptRow
    PROVE  /\ \A s \in AttemptStatuses : [row EXCEPT !.status = s] \in AttemptRow
           /\ [row EXCEPT !.authority = TRUE] \in AttemptRow
           /\ [row EXCEPT !.due = TRUE] \in AttemptRow
           /\ [row EXCEPT !.outcome = "verify_uncertain"] \in AttemptRow
           /\ \A c \in Codes :
                [row EXCEPT !.outcome = "verify_rejected", !.code = c] \in AttemptRow
           /\ \A s \in Settled, r \in Refs \cup {NoRef} :
                [row EXCEPT !.status = s, !.ref = r, !.code = "ok", !.outcome = s]
                    \in AttemptRow
  <1>1. \A s \in AttemptStatuses : [row EXCEPT !.status = s] \in AttemptRow
    BY DEF AttemptRow
  <1>2. [row EXCEPT !.authority = TRUE] \in AttemptRow
    BY DEF AttemptRow
  <1>3. [row EXCEPT !.due = TRUE] \in AttemptRow
    BY DEF AttemptRow
  <1>4. [row EXCEPT !.outcome = "verify_uncertain"] \in AttemptRow
    BY DEF AttemptRow, Outcomes
  <1>5. \A c \in Codes : [row EXCEPT !.outcome = "verify_rejected", !.code = c] \in AttemptRow
    BY DEF AttemptRow, Outcomes
  <1>6. \A s \in Settled, r \in Refs \cup {NoRef} :
          [row EXCEPT !.status = s, !.ref = r, !.code = "ok", !.outcome = s] \in AttemptRow
    BY DEF AttemptRow, Outcomes, Codes, AttemptStatuses, Settled
  <1> QED
    BY <1>1, <1>2, <1>3, <1>4, <1>5, <1>6

LEMMA PutRow ==
    ASSUME IInv, NEW a \in Attempts, NEW row \in AttemptRow,
           attempt' = [attempt EXCEPT ![a] = row]
    PROVE  attempt' \in [Attempts -> AttemptRow]
  BY DEF IInv, TypeOK

LEMMA TouchTypes ==
    ASSUME IInv, NEW a \in Attempts, Touch(a)
    PROVE  older' \in [Attempts -> SUBSET Attempts]
  BY DEF Touch, Created, IInv, TypeOK

LEMMA FailAttemptTypes ==
    ASSUME IInv, NEW a \in Attempts, FailAttempt(a)
    PROVE  attempt' \in [Attempts -> AttemptRow] /\ older' \in [Attempts -> SUBSET Attempts]
  <1>1. [attempt[a] EXCEPT !.status = "failed"] \in AttemptRow
    BY AttemptUpdates DEF IInv, TypeOK, AttemptStatuses
  <1> QED
    BY <1>1, PutRow, TouchTypes DEF FailAttempt

\* RequestZarinPal.
LEMMA RequestTypes ==
    ASSUME IInv, NEW a \in Attempts,
           \/ \E o \in Orders : CreateAttemptForOrder(o, a)
           \/ GatewayRequest(a)
           \/ SetAuthority(a)
           \/ SetAuthorityRejected(a)
           \/ MarkAttemptFailed(a)
           \/ RequestLost(a)
           \/ \E r \in Refs : Capture(a, r)
           \/ AttemptDue(a)
    PROVE  TypeOK'
  <1> USE DEF orderVars, attemptVars, maintVars
  <1>1. CASE \E o \in Orders : CreateAttemptForOrder(o, a)
    <2> PICK o \in Orders : CreateAttemptForOrder(o, a)
      BY <1>1
    <2>1. order' \in [Orders -> OrderRow]
      BY DEF CreateAttemptForOrder, IInv, TypeOK, OrderRow, Methods
    <2>2. attempt' \in [Attempts -> AttemptRow]
      <3>1. [attempt[a] EXCEPT !.order = o, !.status = "pending"] \in AttemptRow
        <4>1. attempt[a] \in AttemptRow
          BY DEF IInv, TypeOK
        <4> QED
          BY <4>1 DEF AttemptRow, AttemptStatuses
      <3> QED
        BY <3>1, PutRow DEF CreateAttemptForOrder
    <2>3. older' \in [Attempts -> SUBSET Attempts]
      BY DEF CreateAttemptForOrder, Touch, Created, IInv, TypeOK
    <2>4. request' \in [Attempts -> Phases]
      BY DEF CreateAttemptForOrder, IInv, TypeOK, Phases
    <2> QED
      BY <2>1, <2>2, <2>3, <2>4 DEF CreateAttemptForOrder, IInv, TypeOK
  <1>2. CASE GatewayRequest(a) \/ SetAuthorityRejected(a) \/ RequestLost(a)
    <2>1. request' \in [Attempts -> Phases]
      BY <1>2 DEF GatewayRequest, SetAuthorityRejected, RequestLost, IInv, TypeOK, Phases
    <2> QED
      BY <1>2, <2>1 DEF GatewayRequest, SetAuthorityRejected, RequestLost, IInv, TypeOK
  <1>3. CASE SetAuthority(a)
    <2>1. attempt' \in [Attempts -> AttemptRow]
      BY <1>3, AttemptUpdates DEF SetAuthority, IInv, TypeOK
    <2>2. older' \in [Attempts -> SUBSET Attempts]
      BY <1>3 DEF SetAuthority, Touch, Created, IInv, TypeOK
    <2>3. request' \in [Attempts -> Phases]
      BY <1>3 DEF SetAuthority, IInv, TypeOK, Phases
    <2> QED
      BY <1>3, <2>1, <2>2, <2>3 DEF SetAuthority, IInv, TypeOK
  <1>4. CASE MarkAttemptFailed(a)
    <2>1. attempt' \in [Attempts -> AttemptRow]
      BY <1>4, FailAttemptTypes DEF MarkAttemptFailed, IInv, TypeOK
    <2>2. older' \in [Attempts -> SUBSET Attempts]
      BY <1>4, FailAttemptTypes DEF MarkAttemptFailed, IInv, TypeOK
    <2>3. request' \in [Attempts -> Phases]
      BY <1>4 DEF MarkAttemptFailed, IInv, TypeOK, Phases
    <2> QED
      BY <1>4, <2>1, <2>2, <2>3 DEF MarkAttemptFailed, IInv, TypeOK
  <1>5. CASE \E r \in Refs : Capture(a, r)
    <2>1. captured' \in [Attempts -> Refs \cup {NoRef}]
      BY <1>5 DEF Capture, IInv, TypeOK
    <2> QED
      BY <1>5, <2>1 DEF Capture, IInv, TypeOK
  <1>6. CASE AttemptDue(a)
    <2>1. attempt' \in [Attempts -> AttemptRow]
      BY <1>6, AttemptUpdates DEF AttemptDue, IInv, TypeOK
    <2> QED
      BY <1>6, <2>1 DEF AttemptDue, IInv, TypeOK
  <1> QED
    BY <1>1, <1>2, <1>3, <1>4, <1>5, <1>6

\* The callback, the admin's check and the verifications of the loop.
LEMMA StartVerifyTypes ==
    ASSUME IInv, NEW v \in Verifiers \cup {Maint}, NEW a \in Attempts, StartVerify(v, a)
    PROVE  verifier' \in [Verifiers \cup {Maint} -> VerifierState]
  BY DEF StartVerify, Step, IInv, TypeOK, VerifierState, Steps, Answers

\* A verification works on an attempt that exists, for an order.
LEMMA VerifiedAttempt ==
    ASSUME IInv, NEW v \in Verifiers \cup {Maint}, verifier[v].step # "idle"
    PROVE  /\ verifier[v].attempt \in Attempts
           /\ attempt[verifier[v].attempt].authority
           /\ attempt[verifier[v].attempt].status \notin {"none", "failed"}
           /\ attempt[verifier[v].attempt].order \in Orders
           /\ order[attempt[verifier[v].attempt].order].method = "zarinpal"
  BY DEF IInv, AuthorityFirst, Ledger, RowsExist

\* What a settled attempt leaves behind.
LEMMA SettleTypes ==
    ASSUME IInv, NEW a \in Attempts, NEW s \in Settled, Settle(a, s)
    PROVE  attempt' \in [Attempts -> AttemptRow] /\ older' \in [Attempts -> SUBSET Attempts]
  <1>1. attempt[a] \in AttemptRow /\ captured[a] \in Refs \cup {NoRef}
    BY DEF IInv, TypeOK
  <1>2. [attempt[a] EXCEPT !.status = s, !.ref = captured[a], !.code = "ok", !.outcome = s]
          \in AttemptRow
    BY <1>1, AttemptUpdates
  <1>3. /\ attempt' = [attempt EXCEPT ![a] = [attempt[a] EXCEPT !.status = s,
                           !.ref = captured[a], !.code = "ok", !.outcome = s]]
        /\ Touch(a)
    BY DEF Settle
  <1> QED
    BY <1>2, <1>3, PutRow, TouchTypes

LEMMA FinalizeVerifiedTypes ==
    ASSUME IInv, NEW a \in Attempts, attempt[a].order \in Orders, FinalizeVerifiedPayment(a)
    PROVE  /\ order' \in [Orders -> OrderRow]
           /\ attempt' \in [Attempts -> AttemptRow]
           /\ older' \in [Attempts -> SUBSET Attempts]
           /\ outbox' \in SUBSET (Orders \X Events)
  <1> DEFINE o == attempt[a].order
  <1>1. CASE UNCHANGED <<attemptVars, order, outbox>>
    BY <1>1 DEF attemptVars, IInv, TypeOK
  <1>2. CASE /\ Settle(a, "paid")
             /\ order' = [order EXCEPT ![o] = [@ EXCEPT !.pay = "paid", !.method = "zarinpal"]]
             /\ OrderEvent(o, "payment_succeeded")
    <2>1. order[o] \in OrderRow
      BY DEF IInv, TypeOK
    <2>2. [order[o] EXCEPT !.pay = "paid", !.method = "zarinpal"] \in OrderRow
      BY <2>1 DEF OrderRow, PaymentStatuses, Methods
    <2>3. order' \in [Orders -> OrderRow]
      BY <1>2, <2>2 DEF IInv, TypeOK
    <2>4. outbox' \in SUBSET (Orders \X Events)
      BY <1>2 DEF OrderEvent, Events, IInv, TypeOK
    <2> QED
      BY <1>2, <2>3, <2>4, SettleTypes DEF Settled
  <1>3. CASE Settle(a, "reconciliation") /\ UNCHANGED <<order, outbox>>
    BY <1>3, SettleTypes DEF Settled, IInv, TypeOK
  <1> QED
    BY <1>1, <1>2, <1>3 DEF FinalizeVerifiedPayment

LEMMA FinalizeFailedTypes ==
    ASSUME IInv, NEW a \in Attempts, attempt[a].order \in Orders,
           NEW answer \in Answers \ {"success"}, FinalizeFailedPayment(a, answer)
    PROVE  /\ attempt' \in [Attempts -> AttemptRow]
           /\ older' \in [Attempts -> SUBSET Attempts]
           /\ outbox' \in SUBSET (Orders \X Events)
           /\ order' = order
  <1>1. CASE UNCHANGED <<attemptVars, order, outbox>>
    BY <1>1 DEF attemptVars, IInv, TypeOK
  <1>2. CASE attempt[a].status \notin Settled
    <2> DEFINE row == IF answer = "uncertain"
                      THEN [attempt[a] EXCEPT !.outcome = "verify_uncertain"]
                      ELSE [attempt[a] EXCEPT !.outcome = "verify_rejected", !.code = answer]
    <2>1. attempt[a] \in AttemptRow
      BY DEF IInv, TypeOK
    <2>2. answer = "uncertain" \/ answer \in Codes
      BY DEF Answers, Codes
    <2>3. row \in AttemptRow
      BY <2>1, <2>2, AttemptUpdates
    <2>4. attempt' = [attempt EXCEPT ![a] = row] /\ Touch(a) /\ order' = order
      BY <1>2 DEF FinalizeFailedPayment
    <2>5. outbox' \in SUBSET (Orders \X Events)
      BY <1>2 DEF FinalizeFailedPayment, Events, IInv, TypeOK
    <2> HIDE DEF row
    <2> QED
      BY <2>3, <2>4, <2>5, PutRow, TouchTypes
  <1> QED
    BY <1>1, <1>2 DEF FinalizeFailedPayment

LEMMA VerifyTypes ==
    ASSUME IInv, NEW v \in Verifiers \cup {Maint},
           \/ \E a \in Attempts : HandlerStartVerify(v, a)
           \/ \E answer \in Answers : GatewayAnswer(v, answer)
           \/ Finalize(v)
           \/ VerifierLost(v)
    PROVE  TypeOK'
  <1> USE DEF orderVars, attemptVars, maintVars
  <1>1. CASE \E a \in Attempts : HandlerStartVerify(v, a)
    <2>1. verifier' \in [Verifiers \cup {Maint} -> VerifierState]
      BY <1>1, StartVerifyTypes DEF HandlerStartVerify
    <2> QED
      BY <1>1, <2>1 DEF HandlerStartVerify, StartVerify, IInv, TypeOK
  <1>2. CASE \E answer \in Answers : GatewayAnswer(v, answer)
    <2>1. verifier' \in [Verifiers \cup {Maint} -> VerifierState]
      BY <1>2 DEF GatewayAnswer, Step, IInv, TypeOK, VerifierState, Steps
    <2> QED
      BY <1>2, <2>1 DEF GatewayAnswer, IInv, TypeOK
  <1>3. CASE Finalize(v)
    <2> DEFINE a == verifier[v].attempt
               answer == verifier[v].answer
    <2>1. a \in Attempts /\ attempt[a].order \in Orders /\ answer \in Answers
      BY <1>3, VerifiedAttempt DEF Finalize, IInv, TypeOK, VerifierState
    <2>2. verifier' \in [Verifiers \cup {Maint} -> VerifierState]
      BY <1>3 DEF Finalize, Step, Idle, IInv, TypeOK, VerifierState, Steps, Answers
    <2>3. /\ order' \in [Orders -> OrderRow]
          /\ attempt' \in [Attempts -> AttemptRow]
          /\ older' \in [Attempts -> SUBSET Attempts]
          /\ outbox' \in SUBSET (Orders \X Events)
      <3>1. CASE answer = "success"
        <4>1. FinalizeVerifiedPayment(a)
          BY <1>3, <3>1 DEF Finalize
        <4> HIDE DEF a, answer
        <4> QED
          BY <2>1, <4>1, FinalizeVerifiedTypes
      <3>2. CASE answer # "success"
        <4>1. FinalizeFailedPayment(a, answer) /\ order \in [Orders -> OrderRow]
          BY <1>3, <3>2 DEF Finalize, IInv, TypeOK
        <4> HIDE DEF a, answer
        <4> QED
          BY <2>1, <3>2, <4>1, FinalizeFailedTypes
      <3> QED
        BY <3>1, <3>2
    <2> QED
      BY <1>3, <2>2, <2>3 DEF Finalize, IInv, TypeOK
  <1>4. CASE VerifierLost(v)
    <2>1. verifier' \in [Verifiers \cup {Maint} -> VerifierState]
      BY <1>4 DEF VerifierLost, Step, Idle, IInv, TypeOK, VerifierState, Steps, Answers
    <2> QED
      BY <1>4, <2>1 DEF VerifierLost, IInv, TypeOK
  <1> QED
    BY <1>1, <1>2, <1>3, <1>4

\* The steps of the maintenance loop that verify nothing.
LEMMA MaintTypes ==
    ASSUME IInv,
           \/ ScanAbandoned
           \/ \E a \in Attempts : MaintVerify(a) \/ MaintFail(a) \/ MaintSkip(a)
           \/ MaintReread
           \/ ExpireRejected
           \/ ScanReservations
           \/ ExpireReservations
           \/ MaintAbort
    PROVE  TypeOK'
  <1> USE DEF orderVars, attemptVars, maintVars
  <1>1. CASE ScanAbandoned
    BY <1>1 DEF ScanAbandoned, Abandoned, IInv, TypeOK
  <1>2. CASE \E a \in Attempts : MaintVerify(a)
    <2>1. verifier' \in [Verifiers \cup {Maint} -> VerifierState]
      BY <1>2, StartVerifyTypes DEF MaintVerify
    <2> QED
      BY <1>2, <2>1 DEF MaintVerify, Handle, StartVerify, IInv, TypeOK
  <1>3. CASE \E a \in Attempts : MaintFail(a)
    <2>1. attempt' \in [Attempts -> AttemptRow] /\ older' \in [Attempts -> SUBSET Attempts]
      BY <1>3, FailAttemptTypes DEF MaintFail
    <2> QED
      BY <1>3, <2>1 DEF MaintFail, Handle, IInv, TypeOK
  <1>4. CASE \E a \in Attempts : MaintSkip(a)
    BY <1>4 DEF MaintSkip, Handle, IInv, TypeOK
  <1>5. CASE MaintReread
    <2>1. verifier' \in [Verifiers \cup {Maint} -> VerifierState]
      BY <1>5 DEF MaintReread, Step, Idle, IInv, TypeOK, VerifierState, Steps, Answers
    <2> QED
      BY <1>5, <2>1 DEF MaintReread, IInv, TypeOK
  <1>6. CASE ExpireRejected
    <2> DEFINE a == verifier[Maint].attempt
    <2>1. a \in Attempts
      BY <1>6, VerifiedAttempt DEF ExpireRejected
    <2>2. verifier' \in [Verifiers \cup {Maint} -> VerifierState]
      BY <1>6 DEF ExpireRejected, Step, Idle, IInv, TypeOK, VerifierState, Steps, Answers
    <2>3. attempt' \in [Attempts -> AttemptRow] /\ older' \in [Attempts -> SUBSET Attempts]
      <3>1. CASE UNCHANGED attemptVars
        BY <3>1 DEF IInv, TypeOK
      <3>2. CASE attempt' = [attempt EXCEPT ![a] = [@ EXCEPT !.status = "expired"]] /\ Touch(a)
        <4>1. [attempt[a] EXCEPT !.status = "expired"] \in AttemptRow
          BY <2>1, AttemptUpdates DEF IInv, TypeOK, AttemptStatuses
        <4> HIDE DEF a
        <4> QED
          BY <2>1, <3>2, <4>1, PutRow, TouchTypes
      <3> QED
        BY <1>6, <3>1, <3>2 DEF ExpireRejected
    <2> QED
      BY <1>6, <2>2, <2>3 DEF ExpireRejected, IInv, TypeOK
  <1>7. CASE ScanReservations
    BY <1>7 DEF ScanReservations, Abandonable, IInv, TypeOK
  <1>8. CASE ExpireReservations
    <2>1. StillReservable \subseteq Orders
      BY DEF StillReservable, IInv, TypeOK
    <2>2. order' \in [Orders -> OrderRow]
      BY <1>8 DEF ExpireReservations, SetStatus, IInv, TypeOK, OrderRow, Statuses
    <2>3. restored' \in [Orders -> Nat] /\ redeemed' \in SUBSET Orders
      BY <1>8 DEF ExpireReservations, GiveBack, IInv, TypeOK
    <2>4. outbox' \in SUBSET (Orders \X Events)
      BY <1>8, <2>1 DEF ExpireReservations, Events, IInv, TypeOK
    <2> QED
      BY <1>8, <2>2, <2>3, <2>4 DEF ExpireReservations, IInv, TypeOK
  <1>9. CASE MaintAbort
    <2>1. verifier' \in [Verifiers \cup {Maint} -> VerifierState]
      BY <1>9 DEF MaintAbort, Step, Idle, IInv, TypeOK, VerifierState, Steps, Answers
    <2> QED
      BY <1>9, <2>1 DEF MaintAbort, IInv, TypeOK
  <1> QED
    BY <1>1, <1>2, <1>3, <1>4, <1>5, <1>6, <1>7, <1>8, <1>9
-----------------------------------------------------------------------------
(* The ledger.  A step changes it in one of nine ways; which action takes   *)
(* the step, and on what it decides, no longer matters then.                *)

KeepOrder(o) ==
    /\ order'[o].status = order[o].status
    /\ order'[o].pay = order[o].pay
    /\ order'[o].method = order[o].method

KeepAttempt(a) ==
    /\ attempt'[a].order = attempt[a].order
    /\ attempt'[a].status = attempt[a].status
    /\ attempt'[a].authority = attempt[a].authority
    /\ attempt'[a].ref = attempt[a].ref

\* No order changes, and nobody is told anything.
KeepOrders      == outbox' = outbox /\ \A o \in Orders : KeepOrder(o)
KeepAttempts    == \A a \in Attempts : KeepAttempt(a)
KeepOthers(a)   == \A b \in Attempts \ {a} : KeepAttempt(b)
KeepLinks(a)    == attempt'[a].order = attempt[a].order
                     /\ attempt'[a].authority = attempt[a].authority

Quiet == KeepOrders /\ KeepAttempts

\* The orders of S are cancelled.
Cancels(S) ==
    /\ KeepAttempts
    /\ outbox' = outbox \cup (S \X {"cancelled"})
    /\ \A o \in Orders \ S : KeepOrder(o)
    /\ \A o \in S :
          /\ o \in Orders
          /\ order[o].status \in {"pending", "processing"} /\ ~PaymentBlocksCancellation(o)
          /\ order'[o].status = "cancelled"
          /\ order'[o].pay = order[o].pay /\ order'[o].method = order[o].method

\* Order o moves on to s.
Advances(o, s) ==
    /\ KeepAttempts
    /\ outbox' = outbox \cup {<<o, s>>}
    /\ \A p \in Orders \ {o} : KeepOrder(p)
    /\ s \in {"processing", "shipped", "delivered"} /\ CanTransition(order[o].status, s)
    /\ RequiresPaidPayment(order[o].method, s) => order[o].pay = "paid"
    /\ order'[o].status = s
    /\ order'[o].pay = order[o].pay /\ order'[o].method = order[o].method

Creates(o, a) ==
    /\ attempt[a].status = "none"
    /\ order[o].status = "pending" /\ order[o].pay \in {"pending", "failed"}
    /\ ~AttemptBlocks(o)
    /\ KeepOthers(a) /\ outbox' = outbox
    /\ attempt'[a].status = "pending" /\ attempt'[a].order = o
    /\ attempt'[a].authority = attempt[a].authority
    /\ \A p \in Orders \ {o} : KeepOrder(p)
    /\ order'[o].status = order[o].status /\ order'[o].pay = order[o].pay
    /\ order'[o].method = "zarinpal"

Issues(a) ==
    /\ KeepOrders /\ KeepOthers(a)
    /\ attempt[a].status = "pending"
    /\ attempt'[a].order = attempt[a].order /\ attempt'[a].status = "pending"
    /\ attempt'[a].authority = TRUE

Fails(a) ==
    /\ KeepOrders /\ KeepOthers(a) /\ KeepLinks(a)
    /\ attempt[a].status = "pending" /\ ~attempt[a].authority
    /\ attempt'[a].status = "failed"

Pays(a) ==
    LET o == attempt[a].order IN
    /\ KeepOthers(a) /\ KeepLinks(a)
    /\ o \in Orders /\ MayPay(a) /\ attempt[a].status = "pending"
    /\ attempt'[a].status = "paid" /\ attempt'[a].ref = captured[a]
    /\ outbox' = outbox \cup {<<o, "payment_succeeded">>}
    /\ \A p \in Orders \ {o} : KeepOrder(p)
    /\ order'[o].status = order[o].status
    /\ order'[o].pay = "paid" /\ order'[o].method = "zarinpal"

Reconciles(a) ==
    /\ KeepOrders /\ KeepOthers(a) /\ KeepLinks(a)
    /\ attempt[a].status \in {"pending", "expired"}
    /\ attempt'[a].status = "reconciliation" /\ attempt'[a].ref = captured[a]

Expires(a) ==
    /\ KeepOrders /\ KeepOthers(a) /\ KeepLinks(a)
    /\ attempt[a].status = "pending"
    /\ attempt'[a].status = "expired" /\ attempt'[a].ref = attempt[a].ref
    /\ attempt[a].code = "unpaid" /\ attempt[a].due
    /\ order[attempt[a].order].status = "pending"

LedgerStep ==
    \/ Quiet
    \/ \E S \in SUBSET Orders : Cancels(S)
    \/ \E o \in Orders : \/ \E s \in Statuses : Advances(o, s)
                         \/ \E a \in Attempts : Creates(o, a)
    \/ \E a \in Attempts : Issues(a) \/ Fails(a) \/ Pays(a) \/ Reconciles(a) \/ Expires(a)

LEMMA LedgerInvariant ==
    ASSUME IInv, TypeOK', LedgerStep
    PROVE  Ledger'
  <1> USE DEF KeepOrders, KeepOrder, KeepAttempts, KeepAttempt, KeepOthers, KeepLinks,
              RowsExist, CancelledIsUnpaid, FulfilledIsPaid, PaidByOneAttempt, RefPaysOnce,
              OneLiveAttempt, OfOrder
  <1>0. /\ Ledger
        /\ \A a \in Attempts : attempt[a].status \in AttemptStatuses
        /\ \A o \in Orders : order[o].pay \in PaymentStatuses
        /\ NoOrder \notin Orders
    BY ConstantsAssumption DEF IInv, TypeOK, AttemptRow, OrderRow
  <1>1. CASE Quiet
    BY <1>0, <1>1 DEF Quiet, Ledger
  <1>2. ASSUME NEW S \in SUBSET Orders, Cancels(S) PROVE Ledger'
    <2>1. (FulfilledIsPaid /\ RowsExist /\ PaidByOneAttempt /\ RefPaysOnce /\ OneLiveAttempt)'
      BY <1>0, <1>2 DEF Cancels, Ledger
    <2>2. CancelledIsUnpaid'
      BY <1>0, <1>2
      DEF Cancels, Ledger, PaymentBlocksCancellation, AttemptBlocks, Blocking, AttemptStatuses,
          PaymentStatuses
    <2> QED
      BY <2>1, <2>2 DEF Ledger
  <1>3. ASSUME NEW o \in Orders, NEW s \in Statuses, Advances(o, s) PROVE Ledger'
    BY <1>0, <1>3 DEF Advances, Ledger, RequiresPaidPayment, CanTransition
  <1>4. ASSUME NEW o \in Orders, NEW a \in Attempts, Creates(o, a) PROVE Ledger'
    <2>1. \A b \in Attempts : attempt[b].order = o => attempt[b].status \notin {"pending", "paid"}
      BY <1>4 DEF Creates, AttemptBlocks, Blocking
    <2>2. attempt[a].order = NoOrder /\ ~attempt[a].authority
      BY <1>0, <1>4 DEF Creates, Ledger
    <2>3. (RowsExist /\ CancelledIsUnpaid /\ FulfilledIsPaid)'
      BY <1>0, <1>4, <2>2 DEF Creates, Ledger
    <2>4. (PaidByOneAttempt /\ RefPaysOnce)'
      BY <1>0, <1>4, <2>2 DEF Creates, Ledger
    <2>5. OneLiveAttempt'
      BY <1>0, <1>4, <2>1, <2>2 DEF Creates, Ledger
    <2> QED
      BY <2>3, <2>4, <2>5 DEF Ledger
  <1>5. ASSUME NEW a \in Attempts, Issues(a) \/ Fails(a) PROVE Ledger'
    <2>1. (RowsExist /\ CancelledIsUnpaid /\ FulfilledIsPaid)'
      BY <1>0, <1>5 DEF Issues, Fails, Ledger
    <2>2. PaidByOneAttempt' /\ RefPaysOnce'
      BY <1>0, <1>5 DEF Issues, Fails, Ledger
    <2>3. OneLiveAttempt'
      BY <1>0, <1>5 DEF Issues, Fails, Ledger
    <2> QED
      BY <2>1, <2>2, <2>3 DEF Ledger
  <1>6. ASSUME NEW a \in Attempts, Pays(a) PROVE Ledger'
    <2> DEFINE o == attempt[a].order
    <2>1. \A b \in Attempts \ {a} :
             attempt[b].status = "paid" => attempt[b].order # o /\ attempt[b].ref # captured[a]
      BY <1>6 DEF Pays, MayPay
    <2>2. (RowsExist /\ CancelledIsUnpaid /\ FulfilledIsPaid)'
      BY <1>0, <1>6 DEF Pays, MayPay, Ledger
    <2>3. PaidByOneAttempt'
      BY <1>0, <1>6, <2>1 DEF Pays, Ledger
    <2>4. RefPaysOnce'
      BY <1>0, <1>6, <2>1 DEF Pays, Ledger
    <2>5. OneLiveAttempt'
      BY <1>0, <1>6 DEF Pays, Ledger
    <2> QED
      BY <2>2, <2>3, <2>4, <2>5 DEF Ledger
  <1>7. ASSUME NEW a \in Attempts, Reconciles(a) \/ Expires(a) PROVE Ledger'
    <2>1. (RowsExist /\ CancelledIsUnpaid /\ FulfilledIsPaid)'
      <3>1. CASE Reconciles(a)
        BY <1>0, <3>1 DEF Reconciles, Ledger
      <3>2. CASE Expires(a)
        BY <1>0, <3>2 DEF Expires, Ledger
      <3> QED BY <1>7, <3>1, <3>2
    <2>2. PaidByOneAttempt' /\ RefPaysOnce'
      BY <1>0, <1>7 DEF Reconciles, Expires, Ledger
    <2>3. OneLiveAttempt'
      BY <1>0, <1>7 DEF Reconciles, Expires, Ledger
    <2> QED
      BY <2>1, <2>2, <2>3 DEF Ledger
  <1> QED
    BY <1>1, <1>2, <1>3, <1>4, <1>5, <1>6, <1>7, LedgerStep DEF LedgerStep
-----------------------------------------------------------------------------
(* Every step is one of the nine, and keeps what the stock, the mails and  *)
(* the gateway say in accord with the ledger.                              *)

Books == GivenBackOnce /\ MailMatchesOrder
Money == AuthorityFirst /\ SettledIsCaptured

\* Steps that send no mail.
LEMMA BooksKept ==
    ASSUME IInv, UNCHANGED <<restored, redeemed, outbox>>,
           \A o \in Orders : order'[o].status = order[o].status /\ order'[o].pay = order[o].pay
    PROVE  Books'
  BY DEF IInv, Books, GivenBackOnce, MailMatchesOrder

LEMMA BooksCancelled ==
    ASSUME IInv, NEW S \in SUBSET Orders, Cancels(S), GiveBack(S)
    PROVE  Books'
  <1>1. \A o \in Orders : restored[o] = IF order[o].status = "cancelled" THEN 1 ELSE 0
    BY DEF IInv, GivenBackOnce
  <1>2. GivenBackOnce'
    BY <1>1 DEF IInv, GivenBackOnce, Cancels, GiveBack, KeepOrder
  <1>3. ASSUME NEW o \in Orders
        PROVE  /\ <<o, "payment_succeeded">> \in outbox' <=> order'[o].pay \in {"paid", "refunded"}
               /\ <<o, "cancelled">> \in outbox' <=> order'[o].status = "cancelled"
    <2>1. /\ <<o, "payment_succeeded">> \in outbox <=> order[o].pay \in {"paid", "refunded"}
          /\ <<o, "cancelled">> \in outbox <=> order[o].status = "cancelled"
      BY DEF IInv, MailMatchesOrder
    <2>2. /\ order'[o].pay = order[o].pay
          /\ o \in S => order'[o].status = "cancelled"
          /\ o \notin S => order'[o].status = order[o].status
      BY DEF Cancels, KeepOrder
    <2>3. /\ <<o, "payment_succeeded">> \in outbox' <=> <<o, "payment_succeeded">> \in outbox
          /\ <<o, "cancelled">> \in outbox' <=> o \in S \/ <<o, "cancelled">> \in outbox
      BY DEF Cancels
    <2> QED
      BY <2>1, <2>2, <2>3
  <1> QED
    BY <1>2, <1>3 DEF Books, MailMatchesOrder

\* What the gateway knows matters to nobody while the attempts stay as they are.
LEMMA MoneyKept ==
    ASSUME IInv, KeepAttempts, UNCHANGED <<request, captured, verifier>>
    PROVE  Money'
  BY DEF IInv, TypeOK, KeepAttempts, KeepAttempt, Money, AuthorityFirst, SettledIsCaptured

\* UpdateStatus, CancelOwnOrder, OrderDue and the expiry of the reservations.
LEMMA SetStatusCancels ==
    ASSUME IInv, NEW S \in SUBSET Orders, SetStatus(S, "cancelled"), UNCHANGED attemptVars,
           outbox' = outbox \cup (S \X {"cancelled"}),
           \A o \in S : /\ CanTransition(order[o].status, "cancelled")
                        /\ ~PaymentBlocksCancellation(o)
    PROVE  Cancels(S)
  <1>1. \A o \in Orders : order[o] \in OrderRow
    BY DEF IInv, TypeOK
  <1>2. \A o \in S : order'[o] = [order[o] EXCEPT !.status = "cancelled"]
    BY DEF SetStatus
  <1>3. \A o \in S : /\ order'[o].status = "cancelled"
                     /\ order'[o].pay = order[o].pay /\ order'[o].method = order[o].method
    BY <1>1, <1>2 DEF OrderRow
  <1> QED
    BY <1>3 DEF Cancels, SetStatus, CanTransition, KeepAttempts, KeepAttempt, KeepOrder, attemptVars

LEMMA OrderSteps ==
    ASSUME IInv,
           \/ \E o \in Orders, s \in Statuses : UpdateStatus(o, s)
           \/ \E o \in Orders : CancelOwnOrder(o) \/ OrderDue(o)
           \/ ExpireReservations
    PROVE  LedgerStep /\ Books' /\ Money'
  <1>1. KeepAttempts /\ UNCHANGED <<attemptVars, request, captured, verifier>>
    BY DEF UpdateStatus, CancelOwnOrder, OrderDue, ExpireReservations, KeepAttempts, KeepAttempt,
           attemptVars
  <1>2. Money'
    BY <1>1, MoneyKept
  <1>3. ASSUME NEW S \in SUBSET Orders, SetStatus(S, "cancelled"), GiveBack(S),
               outbox' = outbox \cup (S \X {"cancelled"}),
               \A o \in S : /\ CanTransition(order[o].status, "cancelled")
                            /\ ~PaymentBlocksCancellation(o)
        PROVE  LedgerStep /\ Books'
    <2>1. Cancels(S)
      BY <1>1, <1>3, SetStatusCancels
    <2> QED
      BY <1>3, <2>1, BooksCancelled DEF LedgerStep
  <1>4. ASSUME NEW o \in Orders, SetStatus({o}, "cancelled"), GiveBack({o}),
               OrderEvent(o, "cancelled"), CanTransition(order[o].status, "cancelled"),
               ~PaymentBlocksCancellation(o)
        PROVE  LedgerStep /\ Books'
    <2>1. outbox' = outbox \cup ({o} \X {"cancelled"})
      BY <1>4 DEF OrderEvent
    <2> QED
      BY <1>3, <1>4, <2>1
  <1>5. ASSUME NEW o \in Orders, NEW s \in Statuses, UpdateStatus(o, s)
        PROVE  LedgerStep /\ Books'
    <2>1. CASE s = "cancelled"
      BY <1>4, <1>5, <2>1 DEF UpdateStatus
    <2>2. CASE s # "cancelled"
      <3>1. /\ CanTransition(order[o].status, s)
            /\ RequiresPaidPayment(order[o].method, s) => order[o].pay = "paid"
            /\ SetStatus({o}, s) /\ UNCHANGED <<restored, redeemed>>
            /\ outbox' = outbox \cup {<<o, s>>}
        BY <1>5, <2>2 DEF UpdateStatus, OrderEvent
      <3>2. order[o] \in OrderRow
        BY DEF IInv, TypeOK
      <3>3. order'[o] = [order[o] EXCEPT !.status = s]
            /\ \A p \in Orders \ {o} : order'[p] = order[p]
        BY <3>1 DEF SetStatus
      <3>4. order'[o].status = s /\ order'[o].pay = order[o].pay
            /\ order'[o].method = order[o].method
        BY <3>2, <3>3 DEF OrderRow
      <3>5. /\ s \in {"processing", "shipped", "delivered"}
            /\ order[o].status # "cancelled"
        BY <2>2, <3>1 DEF CanTransition
      <3>6. Advances(o, s)
        BY <1>1, <3>1, <3>3, <3>4, <3>5 DEF Advances, KeepOrder
      <3>7. GivenBackOnce'
        BY <3>1, <3>3, <3>4, <3>5 DEF IInv, GivenBackOnce
      <3>8. MailMatchesOrder'
        <4>1. \A p \in Orders, e \in {"payment_succeeded", "cancelled"} :
                 <<p, e>> \in outbox' <=> <<p, e>> \in outbox
          BY <3>1, <3>5
        <4>2. \A p \in Orders : /\ order'[p].pay = order[p].pay
                                /\ order'[p].status = "cancelled" <=> order[p].status = "cancelled"
          BY <3>3, <3>4, <3>5
        <4> QED
          BY <4>1, <4>2 DEF IInv, MailMatchesOrder
      <3> QED
        BY <3>6, <3>7, <3>8 DEF LedgerStep, Books
    <2> QED
      BY <2>1, <2>2
  <1>6. ASSUME NEW o \in Orders, CancelOwnOrder(o) PROVE LedgerStep /\ Books'
    BY <1>4, <1>6 DEF CancelOwnOrder
  <1>7. ASSUME NEW o \in Orders, OrderDue(o) PROVE LedgerStep /\ Books'
    <2>1. order[o] \in OrderRow /\ order'[o] = [order[o] EXCEPT !.due = TRUE]
          /\ \A p \in Orders \ {o} : order'[p] = order[p]
      BY <1>7 DEF OrderDue, IInv, TypeOK
    <2>2. KeepOrders
      BY <1>7, <2>1 DEF KeepOrders, KeepOrder, OrderRow, OrderDue
    <2>3. Books'
      BY <1>7, <2>2, BooksKept DEF OrderDue, KeepOrders, KeepOrder
    <2> QED
      BY <1>1, <2>2, <2>3 DEF LedgerStep, Quiet
  <1>8. CASE ExpireReservations
    <2>1. StillReservable \in SUBSET Orders
      BY DEF StillReservable, IInv, TypeOK
    <2>2. \A o \in StillReservable : CanTransition(order[o].status, "cancelled")
                                    /\ ~PaymentBlocksCancellation(o)
      BY DEF StillReservable, Reservable, CanTransition
    <2>3. /\ SetStatus(StillReservable, "cancelled") /\ GiveBack(StillReservable)
          /\ outbox' = outbox \cup (StillReservable \X {"cancelled"})
      BY <1>8 DEF ExpireReservations
    <2> QED
      BY <1>2, <1>3, <2>1, <2>2, <2>3
  <1> QED
    BY <1>2, <1>5, <1>6, <1>7, <1>8

\* No verification starts; the answers and the pages it knows stay true.
LEMMA AuthorityKept ==
    ASSUME IInv,
           \A b \in Attempts :
              /\ attempt[b].authority => attempt'[b].authority
              /\ captured[b] # NoRef => captured'[b] # NoRef
              /\ request'[b] = "redirected" => request[b] = "redirected" \/ attempt'[b].authority,
           \A v \in Verifiers \cup {Maint} : verifier'[v].step # "idle" =>
              /\ verifier[v].step # "idle" /\ verifier'[v].attempt = verifier[v].attempt
              /\ verifier'[v].answer = "success" =>
                    verifier[v].answer = "success" \/ captured[verifier[v].attempt] # NoRef
    PROVE  AuthorityFirst'
  BY DEF IInv, AuthorityFirst

LEMMA SettledKept ==
    ASSUME IInv, UNCHANGED captured,
           \A b \in Attempts :
              /\ attempt'[b].status \in Settled =>
                    attempt[b].status \in Settled /\ attempt'[b].ref = attempt[b].ref
              /\ captured[b] # NoRef => attempt'[b].authority /\ attempt'[b].status # "failed"
    PROVE  SettledIsCaptured'
  BY DEF IInv, SettledIsCaptured

\* A changed row keeps the fields the update does not name.
LEMMA RowFields ==
    ASSUME NEW row \in AttemptRow
    PROVE  /\ LET new == [row EXCEPT !.due = TRUE] IN
                 /\ new.order = row.order /\ new.status = row.status
                 /\ new.authority = row.authority /\ new.ref = row.ref
           /\ LET new == [row EXCEPT !.authority = TRUE] IN
                 /\ new.order = row.order /\ new.status = row.status
                 /\ new.authority = TRUE /\ new.ref = row.ref
           /\ \A s \in AttemptStatuses : LET new == [row EXCEPT !.status = s] IN
                 /\ new.order = row.order /\ new.status = s
                 /\ new.authority = row.authority /\ new.ref = row.ref
  BY DEF AttemptRow

LEMMA FailAttemptStep ==
    ASSUME IInv, NEW a \in Attempts, FailAttempt(a), UNCHANGED <<order, captured, outbox>>
    PROVE  Fails(a) /\ SettledIsCaptured'
  <1>1. attempt[a] \in AttemptRow
    BY DEF IInv, TypeOK
  <1>2. /\ attempt[a].status = "pending" /\ ~attempt[a].authority
        /\ \A b \in Attempts \ {a} : attempt'[b] = attempt[b]
        /\ attempt'[a] = [attempt[a] EXCEPT !.status = "failed"]
    BY DEF FailAttempt, IInv, TypeOK
  <1>3. /\ attempt'[a].status = "failed" /\ attempt'[a].order = attempt[a].order
        /\ attempt'[a].authority = attempt[a].authority
    BY <1>1, <1>2, RowFields DEF AttemptStatuses
  <1>4. Fails(a)
    BY <1>2, <1>3 DEF Fails, KeepOrders, KeepOrder, KeepOthers, KeepAttempt, KeepLinks
  <1>5. \A b \in Attempts : captured[b] # NoRef => attempt[b].authority /\ attempt[b].status # "failed"
    BY DEF IInv, SettledIsCaptured
  <1>6. SettledIsCaptured'
    BY <1>2, <1>3, <1>5, SettledKept DEF Settled
  <1> QED
    BY <1>4, <1>6

LEMMA RequestSteps ==
    ASSUME IInv, NEW a \in Attempts,
           \/ \E o \in Orders : CreateAttemptForOrder(o, a)
           \/ GatewayRequest(a)
           \/ SetAuthority(a)
           \/ SetAuthorityRejected(a)
           \/ MarkAttemptFailed(a)
           \/ RequestLost(a)
           \/ \E r \in Refs : Capture(a, r)
           \/ AttemptDue(a)
    PROVE  LedgerStep /\ Books' /\ Money'
  <1>0. attempt[a] \in AttemptRow /\ attempt \in [Attempts -> AttemptRow]
        /\ request \in [Attempts -> Phases] /\ order \in [Orders -> OrderRow]
        /\ captured \in [Attempts -> Refs \cup {NoRef}]
    BY DEF IInv, TypeOK
  <1>1. \A b \in Attempts : captured[b] # NoRef => attempt[b].authority /\ attempt[b].status # "failed"
    BY DEF IInv, SettledIsCaptured
  <1>2. ASSUME UNCHANGED attempt, UNCHANGED order, UNCHANGED outbox PROVE Quiet
    BY <1>2 DEF Quiet, KeepOrders, KeepOrder, KeepAttempts, KeepAttempt
  <1>3. ASSUME UNCHANGED orderVars, UNCHANGED outbox PROVE Books'
    BY <1>3, BooksKept DEF orderVars
  <1>4. CASE \E o \in Orders : CreateAttemptForOrder(o, a)
    <2> PICK o \in Orders : CreateAttemptForOrder(o, a)
      BY <1>4
    <2>1. /\ attempt[a].status = "none"
          /\ \A b \in Attempts \ {a} : attempt'[b] = attempt[b]
          /\ attempt'[a] = [attempt[a] EXCEPT !.order = o, !.status = "pending"]
      BY <1>0 DEF CreateAttemptForOrder
    <2>2. /\ attempt'[a].status = "pending" /\ attempt'[a].order = o
          /\ attempt'[a].authority = attempt[a].authority
      BY <1>0, <2>1 DEF AttemptRow
    <2>3. /\ order[o].status = "pending" /\ order[o].pay \in {"pending", "failed"}
          /\ \A p \in Orders \ {o} : order'[p] = order[p]
          /\ order'[o] = [order[o] EXCEPT !.method = "zarinpal"]
      BY <1>0 DEF CreateAttemptForOrder
    <2>4. order[o] \in OrderRow
      BY <1>0
    <2>5. /\ order'[o].status = order[o].status /\ order'[o].pay = order[o].pay
          /\ order'[o].method = "zarinpal"
      BY <2>3, <2>4 DEF OrderRow
    <2>6. Creates(o, a)
      BY <2>1, <2>2, <2>3, <2>5
      DEF Creates, CreateAttemptForOrder, KeepOthers, KeepAttempt, KeepOrder
    <2>7. Books'
      BY <2>3, <2>5, BooksKept DEF CreateAttemptForOrder
    <2>8. AuthorityFirst'
      <3>1. /\ captured' = captured /\ verifier' = verifier
            /\ request' = [request EXCEPT ![a] = "calling"]
        BY DEF CreateAttemptForOrder
      <3> QED
        BY <1>0, <2>1, <2>2, <3>1, AuthorityKept
    <2>9. SettledIsCaptured'
      <3>1. captured' = captured
        BY DEF CreateAttemptForOrder
      <3> QED
        BY <1>1, <2>1, <2>2, <3>1, SettledKept DEF Settled
    <2> QED
      BY <2>6, <2>7, <2>8, <2>9 DEF LedgerStep, Money
  <1>5. CASE GatewayRequest(a) \/ SetAuthorityRejected(a) \/ RequestLost(a)
    <2>1. /\ UNCHANGED <<orderVars, attemptVars, captured, verifier, outbox>>
          /\ \E phase \in Phases \ {"redirected"} : request' = [request EXCEPT ![a] = phase]
      BY <1>5 DEF GatewayRequest, SetAuthorityRejected, RequestLost, Phases
    <2>2. AuthorityFirst' /\ SettledIsCaptured'
      BY <1>0, <1>1, <2>1, AuthorityKept, SettledKept DEF attemptVars
    <2> QED
      BY <1>2, <1>3, <2>1, <2>2 DEF LedgerStep, Money, orderVars, attemptVars
  <1>6. CASE SetAuthority(a)
    <2>1. /\ attempt[a].status = "pending"
          /\ \A b \in Attempts \ {a} : attempt'[b] = attempt[b]
          /\ attempt'[a] = [attempt[a] EXCEPT !.authority = TRUE]
          /\ UNCHANGED <<orderVars, captured, verifier, outbox>>
      BY <1>0, <1>6 DEF SetAuthority
    <2>2. /\ attempt'[a].status = "pending" /\ attempt'[a].order = attempt[a].order
          /\ attempt'[a].authority = TRUE
      BY <1>0, <2>1, RowFields
    <2>3. Issues(a)
      BY <2>1, <2>2 DEF Issues, KeepOrders, KeepOrder, KeepOthers, KeepAttempt, orderVars
    <2>4. \A b \in Attempts \ {a} : request'[b] = request[b]
      BY <1>0, <1>6 DEF SetAuthority
    <2>5. AuthorityFirst'
      BY <2>1, <2>2, <2>4, AuthorityKept
    <2>6. SettledIsCaptured'
      BY <1>1, <2>1, <2>2, SettledKept DEF Settled
    <2> QED
      BY <1>3, <2>1, <2>3, <2>5, <2>6 DEF LedgerStep, Money
  <1>7. CASE MarkAttemptFailed(a)
    <2>1. /\ UNCHANGED <<orderVars, captured, verifier, outbox>>
          /\ request' = [request EXCEPT ![a] = "done"]
      BY <1>7 DEF MarkAttemptFailed
    <2>2. CASE FailAttempt(a)
      <3>1. Fails(a) /\ SettledIsCaptured'
        BY <2>1, <2>2, FailAttemptStep DEF orderVars
      <3>2. AuthorityFirst'
        BY <1>0, <2>1, <3>1, AuthorityKept DEF Fails, KeepOthers, KeepAttempt, KeepLinks
      <3> QED
        BY <1>3, <2>1, <3>1, <3>2 DEF LedgerStep, Money
    <2>3. CASE UNCHANGED attemptVars
      <3>1. AuthorityFirst' /\ SettledIsCaptured'
        BY <1>0, <1>1, <2>1, <2>3, AuthorityKept, SettledKept DEF attemptVars
      <3> QED
        BY <1>2, <1>3, <2>1, <2>3, <3>1 DEF LedgerStep, Money, orderVars, attemptVars
    <2> QED
      BY <1>7, <2>2, <2>3 DEF MarkAttemptFailed
  <1>8. CASE \E r \in Refs : Capture(a, r)
    <2> PICK r \in Refs : Capture(a, r)
      BY <1>8
    <2>1. /\ request[a] = "redirected" /\ captured[a] = NoRef /\ r # NoRef
          /\ captured'[a] = r /\ \A b \in Attempts \ {a} : captured'[b] = captured[b]
          /\ UNCHANGED <<orderVars, attemptVars, request, verifier, outbox>>
      BY <1>0, ConstantsAssumption DEF Capture
    <2>2. attempt[a].authority /\ attempt[a].status # "failed" /\ attempt[a].status \notin Settled
      BY <2>1 DEF IInv, AuthorityFirst, SettledIsCaptured, Ledger, RowsExist
    <2>3. SettledIsCaptured'
      BY <2>1, <2>2 DEF IInv, SettledIsCaptured, attemptVars
    <2>4. AuthorityFirst'
      <3>1. /\ \A b \in Attempts : captured[b] # NoRef => captured'[b] # NoRef
            /\ attempt' = attempt /\ request' = request /\ verifier' = verifier
        BY <2>1 DEF attemptVars
      <3> QED
        BY <3>1 DEF IInv, AuthorityFirst
    <2> QED
      BY <1>2, <1>3, <2>1, <2>3, <2>4 DEF LedgerStep, Money, orderVars, attemptVars
  <1>9. CASE AttemptDue(a)
    <2>1. /\ \A b \in Attempts \ {a} : attempt'[b] = attempt[b]
          /\ attempt'[a] = [attempt[a] EXCEPT !.due = TRUE]
          /\ UNCHANGED <<orderVars, request, captured, verifier, outbox>>
      BY <1>0, <1>9 DEF AttemptDue
    <2>2. KeepAttempts
      <3>1. /\ attempt'[a].order = attempt[a].order /\ attempt'[a].status = attempt[a].status
            /\ attempt'[a].authority = attempt[a].authority /\ attempt'[a].ref = attempt[a].ref
        BY <1>0, <2>1, RowFields
      <3> QED
        BY <2>1, <3>1 DEF KeepAttempts, KeepAttempt
    <2>3. Money'
      BY <2>1, <2>2, MoneyKept
    <2> QED
      BY <1>3, <2>1, <2>2, <2>3 DEF LedgerStep, Quiet, KeepOrders, KeepOrder, orderVars
  <1> QED
    BY <1>4, <1>5, <1>6, <1>7, <1>8, <1>9

\* A verification starts for a recorded authority.
LEMMA StartVerifyStep ==
    ASSUME IInv, NEW v \in Verifiers \cup {Maint}, NEW a \in Attempts, StartVerify(v, a)
    PROVE  LedgerStep /\ Books' /\ Money'
  <1>1. /\ UNCHANGED <<orderVars, attemptVars, request, captured, outbox>>
        /\ attempt[a].authority
        /\ verifier'[v] = [step |-> "calling", attempt |-> a, answer |-> "none"]
        /\ \A w \in (Verifiers \cup {Maint}) \ {v} : verifier'[w] = verifier[w]
    BY DEF StartVerify, Step, IInv, TypeOK
  <1>2. Quiet
    BY <1>1 DEF Quiet, KeepOrders, KeepOrder, KeepAttempts, KeepAttempt, orderVars, attemptVars
  <1>3. Books'
    BY <1>1, BooksKept DEF orderVars
  <1>4. /\ verifier'[v].attempt = a /\ verifier'[v].answer = "none"
    BY <1>1
  <1>5. AuthorityFirst'
    BY <1>1, <1>4 DEF IInv, AuthorityFirst, attemptVars
  <1>6. SettledIsCaptured'
    BY <1>1 DEF IInv, SettledIsCaptured, attemptVars
  <1> QED
    BY <1>2, <1>3, <1>5, <1>6 DEF LedgerStep, Money

LEMMA SettleStep ==
    ASSUME IInv, NEW a \in Attempts, NEW s \in Settled, Settle(a, s)
    PROVE  /\ KeepOthers(a) /\ KeepLinks(a)
           /\ attempt'[a].status = s /\ attempt'[a].ref = captured[a]
  <1>1. attempt[a] \in AttemptRow
    BY DEF IInv, TypeOK
  <1>2. /\ \A b \in Attempts \ {a} : attempt'[b] = attempt[b]
        /\ attempt'[a] = [attempt[a] EXCEPT !.status = s, !.ref = captured[a],
                                            !.code = "ok", !.outcome = s]
    BY DEF Settle, IInv, TypeOK
  <1>3. /\ attempt'[a].order = attempt[a].order /\ attempt'[a].authority = attempt[a].authority
        /\ attempt'[a].status = s /\ attempt'[a].ref = captured[a]
    BY <1>1, <1>2 DEF AttemptRow
  <1> QED
    BY <1>2, <1>3 DEF KeepOthers, KeepLinks, KeepAttempt

LEMMA FinalizeVerifiedStep ==
    ASSUME IInv, NEW a \in Attempts, attempt[a].order \in Orders,
           attempt[a].status \notin {"none", "failed"}, attempt[a].authority,
           captured[a] # NoRef, FinalizeVerifiedPayment(a), UNCHANGED <<restored, redeemed, captured>>
    PROVE  /\ LedgerStep /\ Books' /\ SettledIsCaptured'
           /\ \A b \in Attempts : attempt'[b].authority = attempt[b].authority
  <1> DEFINE o == attempt[a].order
  <1>1. \A b \in Attempts : captured[b] # NoRef => attempt[b].authority /\ attempt[b].status # "failed"
    BY DEF IInv, SettledIsCaptured
  <1>2. attempt[a].status \in AttemptStatuses /\ order[o] \in OrderRow
    BY DEF IInv, TypeOK, AttemptRow
  <1>3. CASE UNCHANGED <<attemptVars, order, outbox>>
    <2>1. Quiet
      BY <1>3 DEF Quiet, KeepOrders, KeepOrder, KeepAttempts, KeepAttempt, attemptVars
    <2>2. SettledIsCaptured'
      BY <1>3 DEF IInv, SettledIsCaptured, attemptVars
    <2> QED
      BY <1>3, <2>1, <2>2, BooksKept DEF LedgerStep, attemptVars
  <1>4. CASE /\ attempt[a].status \notin Settled /\ MayPay(a) /\ Settle(a, "paid")
             /\ order' = [order EXCEPT ![o] = [@ EXCEPT !.pay = "paid", !.method = "zarinpal"]]
             /\ OrderEvent(o, "payment_succeeded")
    <2>1. attempt[a].status = "pending"
      BY <1>2, <1>4 DEF MayPay, AttemptStatuses, Settled
    <2>2. /\ KeepOthers(a) /\ KeepLinks(a)
          /\ attempt'[a].status = "paid" /\ attempt'[a].ref = captured[a]
      BY <1>4, SettleStep DEF Settled
    <2>3. /\ \A p \in Orders \ {o} : order'[p] = order[p]
          /\ order'[o] = [order[o] EXCEPT !.pay = "paid", !.method = "zarinpal"]
      BY <1>4 DEF IInv, TypeOK
    <2>4. /\ order'[o].status = order[o].status
          /\ order'[o].pay = "paid" /\ order'[o].method = "zarinpal"
      BY <1>2, <2>3 DEF OrderRow
    <2>5. Pays(a)
      BY <1>4, <2>1, <2>2, <2>3, <2>4 DEF Pays, KeepOrder, OrderEvent
    <2>6. GivenBackOnce'
      <3>1. \A p \in Orders : order'[p].status = order[p].status
        BY <2>3, <2>4
      <3> QED
        BY <3>1 DEF IInv, GivenBackOnce
    <2>7. outbox' = outbox \cup {<<o, "payment_succeeded">>}
      BY <1>4 DEF OrderEvent
    <2>8. MailMatchesOrder'
      <3>1. \A p \in Orders :
              /\ <<p, "payment_succeeded">> \in outbox' <=>
                    p = o \/ <<p, "payment_succeeded">> \in outbox
              /\ <<p, "cancelled">> \in outbox' <=> <<p, "cancelled">> \in outbox
        BY <2>7
      <3>2. \A p \in Orders :
              /\ order'[p].status = order[p].status
              /\ order'[p].pay = IF p = o THEN "paid" ELSE order[p].pay
        BY <2>3, <2>4
      <3> QED
        BY <3>1, <3>2 DEF IInv, MailMatchesOrder
    <2>9. SettledIsCaptured'
      BY <1>1, <2>2 DEF IInv, SettledIsCaptured, KeepOthers, KeepAttempt, KeepLinks
    <2> QED
      BY <2>2, <2>5, <2>6, <2>8, <2>9 DEF LedgerStep, Books, KeepOthers, KeepAttempt, KeepLinks
  <1>5. CASE /\ attempt[a].status \notin Settled
             /\ Settle(a, "reconciliation") /\ UNCHANGED <<order, outbox>>
    <2>1. attempt[a].status \in {"pending", "expired"}
      BY <1>2, <1>5 DEF AttemptStatuses, Settled
    <2>2. /\ KeepOthers(a) /\ KeepLinks(a)
          /\ attempt'[a].status = "reconciliation" /\ attempt'[a].ref = captured[a]
      BY <1>5, SettleStep DEF Settled
    <2>3. Reconciles(a)
      BY <1>5, <2>1, <2>2 DEF Reconciles, KeepOrders, KeepOrder
    <2>4. Books'
      BY <1>5, BooksKept
    <2>5. SettledIsCaptured'
      BY <1>1, <2>2 DEF IInv, SettledIsCaptured, KeepOthers, KeepAttempt, KeepLinks
    <2> QED
      BY <2>2, <2>3, <2>4, <2>5 DEF LedgerStep, KeepOthers, KeepAttempt, KeepLinks
  <1> QED
    BY <1>3, <1>4, <1>5 DEF FinalizeVerifiedPayment

LEMMA FinalizeFailedStep ==
    ASSUME IInv, NEW a \in Attempts, attempt[a].order \in Orders, attempt[a].status # "failed",
           NEW answer \in Answers, FinalizeFailedPayment(a, answer),
           UNCHANGED <<restored, redeemed, captured>>
    PROVE  Quiet /\ Books' /\ SettledIsCaptured'
  <1>1. attempt[a] \in AttemptRow
    BY DEF IInv, TypeOK
  <1>2. UNCHANGED <<order, outbox>> /\ \A b \in Attempts \ {a} : attempt'[b] = attempt[b]
    BY DEF FinalizeFailedPayment, attemptVars, IInv, TypeOK
  <1>3. KeepAttempt(a)
    <2>1. CASE attempt' = attempt
      BY <2>1 DEF KeepAttempt
    <2>2. CASE attempt'[a] = [attempt[a] EXCEPT !.outcome = "verify_uncertain"]
      BY <1>1, <2>2 DEF KeepAttempt, AttemptRow
    <2>3. CASE attempt'[a] = [attempt[a] EXCEPT !.outcome = "verify_rejected", !.code = answer]
      BY <1>1, <2>3 DEF KeepAttempt, AttemptRow
    <2> QED
      BY <2>1, <2>2, <2>3 DEF FinalizeFailedPayment, attemptVars, IInv, TypeOK
  <1>4. Quiet
    BY <1>2, <1>3 DEF Quiet, KeepOrders, KeepOrder, KeepAttempts, KeepAttempt
  <1>5. Books'
    BY <1>2, BooksKept
  <1>6. SettledIsCaptured'
    BY <1>4 DEF Quiet, KeepAttempts, KeepAttempt, IInv, SettledIsCaptured
  <1> QED
    BY <1>4, <1>5, <1>6

LEMMA VerifySteps ==
    ASSUME IInv, NEW v \in Verifiers \cup {Maint},
           \/ \E a \in Attempts : HandlerStartVerify(v, a)
           \/ \E answer \in Answers : GatewayAnswer(v, answer)
           \/ Finalize(v)
           \/ VerifierLost(v)
    PROVE  LedgerStep /\ Books' /\ Money'
  <1>1. CASE \E a \in Attempts : HandlerStartVerify(v, a)
    BY <1>1, StartVerifyStep DEF HandlerStartVerify
  <1>2. ASSUME UNCHANGED <<orderVars, attemptVars, captured, outbox>>
        PROVE  Quiet /\ Books' /\ SettledIsCaptured'
    <2>1. Quiet
      BY <1>2 DEF Quiet, KeepOrders, KeepOrder, KeepAttempts, KeepAttempt, orderVars, attemptVars
    <2>2. SettledIsCaptured'
      BY <1>2 DEF IInv, SettledIsCaptured, attemptVars
    <2> QED
      BY <1>2, <2>1, <2>2, BooksKept DEF orderVars
  <1>3. CASE \E answer \in Answers : GatewayAnswer(v, answer)
    <2> PICK answer \in Answers : GatewayAnswer(v, answer)
      BY <1>3
    <2> DEFINE a == verifier[v].attempt
    <2>1. /\ UNCHANGED <<orderVars, attemptVars, request, captured, outbox>>
          /\ verifier[v].step = "calling"
          /\ answer = "success" => captured[a] # NoRef
          /\ verifier'[v] = [step |-> "answered", attempt |-> a, answer |-> answer]
          /\ \A w \in (Verifiers \cup {Maint}) \ {v} : verifier'[w] = verifier[w]
      BY DEF GatewayAnswer, Step, IInv, TypeOK
    <2>2. verifier'[v].attempt = a /\ verifier'[v].answer = answer
      BY <2>1
    <2>3. AuthorityFirst'
      BY <2>1, <2>2, AuthorityKept DEF attemptVars
    <2> QED
      BY <1>2, <2>1, <2>3 DEF LedgerStep, Money
  <1>4. CASE Finalize(v)
    <2> DEFINE a == verifier[v].attempt
               answer == verifier[v].answer
    <2>1. /\ verifier[v].step = "answered"
          /\ UNCHANGED <<restored, redeemed, request, captured>>
      BY <1>4 DEF Finalize
    <2>2. /\ a \in Attempts /\ attempt[a].authority
          /\ attempt[a].status \notin {"none", "failed"} /\ attempt[a].order \in Orders
          /\ answer \in Answers
      BY <2>1, VerifiedAttempt DEF IInv, TypeOK, VerifierState
    <2>3. /\ LedgerStep /\ Books' /\ SettledIsCaptured'
          /\ \A b \in Attempts : attempt'[b].authority = attempt[b].authority
      <3>1. CASE answer = "success"
        <4>1. FinalizeVerifiedPayment(a)
          BY <1>4, <3>1 DEF Finalize
        <4>2. captured[a] # NoRef
          BY <2>1, <3>1 DEF IInv, AuthorityFirst
        <4> HIDE DEF a, answer
        <4> QED
          BY <2>1, <2>2, <4>1, <4>2, FinalizeVerifiedStep
      <3>2. CASE answer # "success"
        <4>1. FinalizeFailedPayment(a, answer)
          BY <1>4, <3>2 DEF Finalize
        <4> HIDE DEF a, answer
        <4>2. Quiet /\ Books' /\ SettledIsCaptured'
          BY <2>1, <2>2, <4>1, FinalizeFailedStep
        <4> QED
          BY <4>2 DEF LedgerStep, Quiet, KeepAttempts, KeepAttempt
      <3> QED
        BY <3>1, <3>2
    <2>4. \A w \in Verifiers \cup {Maint} : verifier'[w].step # "idle" =>
             /\ verifier[w].step # "idle" /\ verifier'[w].attempt = verifier[w].attempt
             /\ verifier'[w].answer = verifier[w].answer
      <3>1. verifier[v] \in VerifierState /\ verifier \in [Verifiers \cup {Maint} -> VerifierState]
        BY DEF IInv, TypeOK
      <3>2. \A w \in (Verifiers \cup {Maint}) \ {v} : verifier'[w] = verifier[w]
        BY <1>4, <3>1 DEF Finalize, Step
      <3>3. verifier'[v] = Idle \/ verifier'[v] = [verifier[v] EXCEPT !.step = "reread"]
        BY <1>4, <3>1 DEF Finalize, Step
      <3>4. verifier'[v].step # "idle" =>
              verifier'[v].attempt = verifier[v].attempt /\ verifier'[v].answer = verifier[v].answer
        BY <3>1, <3>3 DEF VerifierState, Idle
      <3> QED
        BY <2>1, <3>2, <3>4
    <2>5. AuthorityFirst'
      BY <2>1, <2>3, <2>4, AuthorityKept
    <2> QED
      BY <2>3, <2>5 DEF Money
  <1>5. CASE VerifierLost(v)
    <2>1. /\ UNCHANGED <<orderVars, attemptVars, request, captured, outbox>>
          /\ verifier'[v] = Idle
          /\ \A w \in (Verifiers \cup {Maint}) \ {v} : verifier'[w] = verifier[w]
      BY <1>5 DEF VerifierLost, Step, IInv, TypeOK
    <2>2. AuthorityFirst'
      BY <2>1, AuthorityKept DEF attemptVars, Idle
    <2> QED
      BY <1>2, <2>1, <2>2 DEF LedgerStep, Money
  <1> QED
    BY <1>1, <1>3, <1>4, <1>5

LEMMA MaintSteps ==
    ASSUME IInv,
           \/ ScanAbandoned
           \/ \E a \in Attempts : MaintVerify(a) \/ MaintFail(a) \/ MaintSkip(a)
           \/ MaintReread
           \/ ExpireRejected
           \/ ScanReservations
           \/ MaintAbort
    PROVE  LedgerStep /\ Books' /\ Money'
  <1>1. CASE \E a \in Attempts : MaintVerify(a)
    BY <1>1, StartVerifyStep DEF MaintVerify
  <1>2. CASE \E a \in Attempts : MaintFail(a)
    <2> PICK a \in Attempts : MaintFail(a)
      BY <1>2
    <2>1. FailAttempt(a) /\ UNCHANGED <<orderVars, request, captured, verifier, outbox>>
      BY DEF MaintFail
    <2>2. Fails(a) /\ SettledIsCaptured'
      BY <2>1, FailAttemptStep DEF orderVars
    <2>3. AuthorityFirst'
      BY <2>1, <2>2, AuthorityKept DEF Fails, KeepOthers, KeepAttempt, KeepLinks
    <2>4. Books'
      BY <2>1, BooksKept DEF orderVars
    <2> QED
      BY <2>2, <2>3, <2>4 DEF LedgerStep, Money
  <1>3. ASSUME UNCHANGED <<orderVars, attemptVars, request, captured, outbox>>,
               \/ UNCHANGED verifier
               \/ \E s \in Steps : Step(Maint, [verifier[Maint] EXCEPT !.step = s])
                                  /\ verifier[Maint].step # "idle"
               \/ Step(Maint, Idle)
        PROVE  LedgerStep /\ Books' /\ Money'
    <2>1. Quiet
      BY <1>3 DEF Quiet, KeepOrders, KeepOrder, KeepAttempts, KeepAttempt, orderVars, attemptVars
    <2>2. Books'
      BY <1>3, BooksKept DEF orderVars
    <2>3. SettledIsCaptured'
      BY <1>3 DEF IInv, SettledIsCaptured, attemptVars
    <2>4. \A w \in Verifiers \cup {Maint} : verifier'[w].step # "idle" =>
             /\ verifier[w].step # "idle" /\ verifier'[w].attempt = verifier[w].attempt
             /\ verifier'[w].answer = verifier[w].answer
      BY <1>3 DEF Step, Idle, IInv, TypeOK, VerifierState
    <2>5. AuthorityFirst'
      BY <1>3, <2>4, AuthorityKept DEF attemptVars
    <2> QED
      BY <2>1, <2>2, <2>3, <2>5 DEF LedgerStep, Money
  <1>4. CASE ScanAbandoned \/ ScanReservations \/ MaintAbort
    BY <1>3, <1>4 DEF ScanAbandoned, ScanReservations, MaintAbort
  <1>5. CASE \E a \in Attempts : MaintSkip(a)
    BY <1>3, <1>5 DEF MaintSkip
  <1>6. CASE MaintReread
    BY <1>3, <1>6 DEF MaintReread, Steps
  <1>7. CASE ExpireRejected
    <2> DEFINE a == verifier[Maint].attempt
    <2>1. /\ verifier[Maint].step = "expire" /\ Step(Maint, Idle)
          /\ UNCHANGED <<orderVars, request, captured, outbox>>
      BY <1>7 DEF ExpireRejected
    <2>2. a \in Attempts /\ attempt[a] \in AttemptRow /\ attempt[a].status # "failed"
      BY <2>1, VerifiedAttempt DEF IInv, TypeOK
    <2>3. CASE UNCHANGED attemptVars
      BY <1>3, <2>1, <2>3
    <2>4. CASE MayExpire(a) /\ attempt' = [attempt EXCEPT ![a] = [@ EXCEPT !.status = "expired"]]
      <3> HIDE DEF a
      <3>1. /\ \A b \in Attempts \ {a} : attempt'[b] = attempt[b]
            /\ attempt'[a] = [attempt[a] EXCEPT !.status = "expired"]
        BY <2>2, <2>4 DEF IInv, TypeOK
      <3>2. /\ attempt'[a].status = "expired" /\ attempt'[a].order = attempt[a].order
            /\ attempt'[a].authority = attempt[a].authority /\ attempt'[a].ref = attempt[a].ref
        BY <2>2, <3>1 DEF AttemptRow
      <3>3. /\ attempt[a].status = "pending" /\ order[attempt[a].order].status = "pending"
            /\ attempt[a].code = "unpaid" /\ attempt[a].due
        BY <2>2, <2>4 DEF MayExpire
      <3>4. Expires(a)
        BY <2>1, <2>2, <3>1, <3>2, <3>3
        DEF Expires, KeepOrders, KeepOrder, KeepOthers, KeepAttempt, KeepLinks, orderVars
      <3>5. Books'
        BY <2>1, BooksKept DEF orderVars
      <3>6. \A b \in Attempts : captured[b] # NoRef =>
               attempt[b].authority /\ attempt[b].status # "failed"
        BY DEF IInv, SettledIsCaptured
      <3>7. SettledIsCaptured'
        BY <2>1, <3>1, <3>2, <3>6, SettledKept DEF Settled
      <3>8. \A w \in Verifiers \cup {Maint} : verifier'[w].step # "idle" =>
               verifier[w].step # "idle" /\ verifier'[w] = verifier[w]
        BY <2>1 DEF Step, Idle, IInv, TypeOK
      <3>9. AuthorityFirst'
        BY <2>1, <3>1, <3>2, <3>8, AuthorityKept
      <3> QED
        BY <2>2, <3>4, <3>5, <3>7, <3>9 DEF LedgerStep, Money
    <2> QED
      BY <1>7, <2>3, <2>4 DEF ExpireRejected
  <1> QED
    BY <1>1, <1>2, <1>4, <1>5, <1>6, <1>7

-----------------------------------------------------------------------------
(* The inductive invariant.                                                *)

\* Whatever the step, every variable keeps its type, the ledger changes in one
\* of the nine ways, and the stock, the mails and the gateway follow.
Accounted == TypeOK' /\ LedgerStep /\ Books' /\ Money'

LEMMA NextAccounted ==
    ASSUME IInv, Next
    PROVE  Accounted
  <1>1. ASSUME NEW o \in Orders, \/ \E s \in Statuses : UpdateStatus(o, s)
                                 \/ CancelOwnOrder(o)
                                 \/ OrderDue(o)
        PROVE  Accounted
    BY <1>1, OrderTypes, OrderSteps DEF Accounted
  <1>2. ASSUME NEW a \in Attempts, \/ \E o \in Orders : CreateAttemptForOrder(o, a)
                                   \/ GatewayRequest(a)
                                   \/ SetAuthority(a)
                                   \/ SetAuthorityRejected(a)
                                   \/ MarkAttemptFailed(a)
                                   \/ RequestLost(a)
                                   \/ \E r \in Refs : Capture(a, r)
                                   \/ AttemptDue(a)
        PROVE  Accounted
    BY <1>2, RequestTypes, RequestSteps DEF Accounted
  <1>3. ASSUME NEW v \in Verifiers \cup {Maint},
               \/ \E a \in Attempts : HandlerStartVerify(v, a)
               \/ \E answer \in Answers : GatewayAnswer(v, answer)
               \/ Finalize(v)
               \/ VerifierLost(v)
        PROVE  Accounted
    BY <1>3, VerifyTypes, VerifySteps DEF Accounted
  <1>4. ASSUME NEW a \in Attempts, MaintVerify(a) \/ MaintFail(a) \/ MaintSkip(a)
        PROVE  Accounted
    BY <1>4, MaintTypes, MaintSteps DEF Accounted
  <1>5. CASE \/ ScanAbandoned \/ MaintReread \/ ExpireRejected
             \/ ScanReservations \/ ExpireReservations \/ MaintAbort
    BY <1>5, MaintTypes, MaintSteps, OrderSteps DEF Accounted
  <1> QED
    BY <1>1, <1>2, <1>3, <1>4, <1>5 DEF Next

LEMMA NextIInv ==
    ASSUME IInv, Next
    PROVE  IInv'
  <1>1. Accounted
    BY NextAccounted
  <1>2. Ledger'
    BY <1>1, LedgerInvariant DEF Accounted
  <1> QED
    BY <1>1, <1>2 DEF Accounted, IInv, Books, Money

LEMMA StutterIInv ==
    ASSUME IInv, UNCHANGED vars
    PROVE  IInv'
  BY DEF vars, orderVars, attemptVars, maintVars, IInv, TypeOK, Ledger, RowsExist,
         AuthorityFirst, CancelledIsUnpaid, FulfilledIsPaid, PaidByOneAttempt, RefPaysOnce,
         OneLiveAttempt, SettledIsCaptured, GivenBackOnce, MailMatchesOrder, OfOrder

\* The rows of orders and payment_attempts, the outbox, the stock and the
\* gateway stay in accord in every reachable state.
THEOREM Inductive == Spec => []IInv
  <1>1. Init => IInv
    BY InitIInv
  <1>2. IInv /\ [Next]_vars => IInv'
    BY NextIInv, StutterIInv
  <1> QED
    BY <1>1, <1>2, PTL DEF Spec

\* Every variable keeps its type, whatever the number of orders and attempts.
THEOREM TypeCorrect == Spec => []TypeOK
  <1>1. IInv => TypeOK
    BY DEF IInv
  <1> QED
    BY <1>1, Inductive, PTL

\* Neither UpdateStatus, CancelOwnOrder nor ExpireReservations cancels an order
\* that is paid or may still be paid by one of its attempts.
THEOREM CancelledNeverPaid == Spec => []CancelledIsUnpaid
  <1>1. IInv => CancelledIsUnpaid
    BY DEF IInv, Ledger
  <1> QED
    BY <1>1, Inductive, PTL

\* The guard of UpdateStatus keeps unpaid online orders from fulfilment, although
\* CreateAttemptForOrder may make a manual order an online one at any time.
THEOREM FulfilmentIsPaidFor == Spec => []FulfilledIsPaid
  <1>1. IInv => FulfilledIsPaid
    BY DEF IInv, Ledger
  <1> QED
    BY <1>1, Inductive, PTL

\* FinalizeVerifiedPayment pays an order by one attempt, however many answers
\* for however many of its attempts arrive, and CreateAttemptForOrder opens no
\* second payment page beside a live one.
THEOREM PaidOnce == Spec => []OnePayment
  <1>1. IInv => OnePayment
    BY DEF IInv, Ledger, OnePayment
  <1> QED
    BY <1>1, Inductive, PTL

\* FinalizeVerifiedPayment never counts one reference as two payments.
THEOREM ReferencePaysOnce == Spec => []RefPaysOnce
  <1>1. IInv => RefPaysOnce
    BY DEF IInv, Ledger
  <1> QED
    BY <1>1, Inductive, PTL

\* The transactions settle only what the gateway captured, and never fail an
\* attempt with money on it.
THEOREM SettledWithCapture == Spec => []SettledIsCaptured
  <1>1. IInv => SettledIsCaptured
    BY DEF IInv
  <1> QED
    BY <1>1, Inductive, PTL

\* Racing cancellations and expiries give stock and coupon back exactly once.
THEOREM StockBackOnce == Spec => []GivenBackOnce
  <1>1. IInv => GivenBackOnce
    BY DEF IInv
  <1> QED
    BY <1>1, Inductive, PTL

\* OrderEventTx is called in the transactions that make its mail true, only there.
THEOREM MailsAreTrue == Spec => []MailMatchesOrder
  <1>1. IInv => MailMatchesOrder
    BY DEF IInv
  <1> QED
    BY <1>1, Inductive, PTL

-----------------------------------------------------------------------------
(* What a step may never do.                                               *)

\* Only AttemptDue writes to a settled attempt.
LEMMA SettledUntouched ==
    ASSUME IInv, Next, NEW b \in Attempts, attempt[b].status \in Settled
    PROVE  attempt'[b] = attempt[b] \/ attempt'[b] = [attempt[b] EXCEPT !.due = TRUE]
  <1>0. attempt \in [Attempts -> AttemptRow]
    BY DEF IInv, TypeOK
  <1>1. ASSUME UNCHANGED attempt
        PROVE  attempt'[b] = attempt[b]
    BY <1>1
  <1>2. ASSUME NEW a \in Attempts, attempt[a].status \notin Settled,
               NEW row, attempt' = [attempt EXCEPT ![a] = row]
        PROVE  attempt'[b] = attempt[b]
    BY <1>0, <1>2
  <1>3. ASSUME NEW a \in Attempts, FailAttempt(a) PROVE attempt'[b] = attempt[b]
    BY <1>2, <1>3 DEF FailAttempt, Settled
  <1>4. ASSUME NEW o \in Orders, \/ \E s \in Statuses : UpdateStatus(o, s)
                                 \/ CancelOwnOrder(o)
                                 \/ OrderDue(o)
        PROVE  attempt'[b] = attempt[b]
    BY <1>4 DEF UpdateStatus, CancelOwnOrder, OrderDue, attemptVars
  <1>5. ASSUME NEW o \in Orders, NEW a \in Attempts, CreateAttemptForOrder(o, a)
        PROVE  attempt'[b] = attempt[b]
    BY <1>2, <1>5 DEF CreateAttemptForOrder, Settled
  <1>6. ASSUME NEW a \in Attempts, \/ GatewayRequest(a)
                                   \/ SetAuthorityRejected(a)
                                   \/ RequestLost(a)
                                   \/ MaintVerify(a)
                                   \/ MaintSkip(a)
                                   \/ \E r \in Refs : Capture(a, r)
                                   \/ \E v \in Verifiers : HandlerStartVerify(v, a)
        PROVE  attempt'[b] = attempt[b]
    BY <1>6 DEF GatewayRequest, SetAuthorityRejected, RequestLost, MaintVerify, MaintSkip,
                Capture, HandlerStartVerify, StartVerify, attemptVars
  <1>7. ASSUME NEW a \in Attempts, SetAuthority(a) PROVE attempt'[b] = attempt[b]
    BY <1>2, <1>7 DEF SetAuthority, Settled
  <1>8. ASSUME NEW a \in Attempts, MarkAttemptFailed(a) \/ MaintFail(a)
        PROVE  attempt'[b] = attempt[b]
    BY <1>3, <1>8 DEF MarkAttemptFailed, MaintFail, attemptVars
  <1>9. ASSUME NEW a \in Attempts, AttemptDue(a)
        PROVE  attempt'[b] = attempt[b] \/ attempt'[b] = [attempt[b] EXCEPT !.due = TRUE]
    BY <1>0, <1>9 DEF AttemptDue
  <1>10. ASSUME NEW v \in Verifiers \cup {Maint}, NEW answer \in Answers, GatewayAnswer(v, answer)
         PROVE  attempt'[b] = attempt[b]
    BY <1>10 DEF GatewayAnswer, attemptVars
  <1>11. ASSUME NEW v \in Verifiers \cup {Maint}, Finalize(v) PROVE attempt'[b] = attempt[b]
    <2> DEFINE a == verifier[v].attempt
    <2>1. FinalizeVerifiedPayment(a) \/ FinalizeFailedPayment(a, verifier[v].answer)
      BY <1>11 DEF Finalize
    <2>2. a \in Attempts
      BY <1>11, VerifiedAttempt DEF Finalize
    <2> HIDE DEF a
    <2>3. UNCHANGED attempt \/ (/\ attempt[a].status \notin Settled
                                /\ \E row : attempt' = [attempt EXCEPT ![a] = row])
      BY <2>1 DEF FinalizeVerifiedPayment, FinalizeFailedPayment, Settle, attemptVars
    <2> QED
      BY <1>2, <2>2, <2>3
  <1>12. ASSUME NEW v \in Verifiers \cup {Maint}, VerifierLost(v) PROVE attempt'[b] = attempt[b]
    BY <1>12 DEF VerifierLost, attemptVars
  <1>13. CASE ExpireRejected
    <2> DEFINE a == verifier[Maint].attempt
    <2>1. a \in Attempts
      BY <1>13, VerifiedAttempt DEF ExpireRejected
    <2>2. UNCHANGED attempt \/ (/\ attempt[a].status \notin Settled
                                /\ \E row : attempt' = [attempt EXCEPT ![a] = row])
      BY <1>13 DEF ExpireRejected, MayExpire, Settled, attemptVars
    <2> HIDE DEF a
    <2> QED
      BY <1>2, <2>1, <2>2
  <1>14. CASE \/ ScanAbandoned \/ MaintReread \/ ScanReservations \/ ExpireReservations
              \/ MaintAbort
    BY <1>14 DEF ScanAbandoned, MaintReread, ScanReservations, ExpireReservations, MaintAbort,
                 attemptVars
  <1> QED
    BY <1>4, <1>5, <1>6, <1>7, <1>8, <1>9, <1>10, <1>11, <1>12, <1>13, <1>14 DEF Next

\* A settled attempt stays as it is: the transactions re-read its status under
\* the lock, so a stale or repeated answer changes nothing.
THEOREM SettlementFinal == Spec => SettlementIsFinal
  <1> DEFINE Final == \A a \in Attempts : attempt[a].status \in Settled =>
                        attempt'[a] = [attempt[a] EXCEPT !.due = attempt'[a].due]
  <1>1. ASSUME IInv, Next PROVE Final
    <2> TAKE a \in Attempts
    <2> HAVE attempt[a].status \in Settled
    <2>1. attempt[a] \in AttemptRow
      BY <1>1 DEF IInv, TypeOK
    <2>2. attempt'[a] = attempt[a] \/ attempt'[a] = [attempt[a] EXCEPT !.due = TRUE]
      BY <1>1, SettledUntouched
    <2> QED
      BY <2>1, <2>2 DEF AttemptRow
  <1>2. IInv /\ [Next]_vars => [Final]_vars
    BY <1>1
  <1> HIDE DEF Final
  <1>3. Spec => [][Final]_vars
    BY <1>2, Inductive, PTL DEF Spec
  <1> QED
    BY <1>3 DEF SettlementIsFinal, Final

\* An authority stops blocking its order only in expireRejected, after a -51.
THEOREM AuthorityReleased == Spec => AuthorityReleasedOnUnpaid
  <1> DEFINE Released == \A a \in Attempts :
               attempt[a].authority /\ Blocking(a) /\ ~Blocking(a)'
                   => /\ attempt[a].code = "unpaid" /\ attempt[a].due
                      /\ order[attempt[a].order].status = "pending"
  <1>1. ASSUME IInv, Next PROVE Released
    <2>1. LedgerStep
      BY <1>1, NextAccounted DEF Accounted
    <2> TAKE a \in Attempts
    <2> HAVE attempt[a].authority /\ Blocking(a) /\ ~Blocking(a)'
    <2>2. attempt'[a].status = "expired" \/ ~attempt'[a].authority
      BY DEF Blocking
    <2>3. ~KeepAttempt(a)
      BY DEF Blocking, KeepAttempt
    <2>4. PICK b \in Attempts : \/ \E o \in Orders : Creates(o, b)
                                \/ Issues(b) \/ Fails(b) \/ Pays(b) \/ Reconciles(b) \/ Expires(b)
      BY <2>1, <2>3 DEF LedgerStep, Quiet, Cancels, Advances, KeepAttempts
    <2>5. b = a
      BY <2>3, <2>4
      DEF Creates, Issues, Fails, Pays, Reconciles, Expires, KeepOthers
    <2>6. Expires(a)
      BY <2>2, <2>4, <2>5 DEF Creates, Issues, Fails, Pays, Reconciles, KeepLinks
    <2> QED
      BY <2>6 DEF Expires
  <1>2. IInv /\ [Next]_vars => [Released]_vars
    BY <1>1
  <1> HIDE DEF Released
  <1>3. Spec => [][Released]_vars
    BY <1>2, Inductive, PTL DEF Spec
  <1> QED
    BY <1>3 DEF AuthorityReleasedOnUnpaid, Released

-----------------------------------------------------------------------------
(* The promise of OrderLifecycle.  Every one of the nine ways to change the *)
(* ledger is a step of it, or changes nothing that it speaks of.            *)

\* What the promise reads of the rows.
LEMMA StageOf == ASSUME NEW o \in Orders PROVE Stage[o] = order[o].status
  BY DEF Stage

LEMMA OnPage ==
    ASSUME NEW x
    PROVE  x \in Page <=> \E a \in Attempts : /\ attempt[a].status \in {"pending", "paid"}
                                              /\ attempt[a].order = x
  BY DEF Page

LEMMA PaymentOf ==
    ASSUME NEW x
    PROVE  x \in Payments <=> \E a \in Attempts : /\ attempt[a].status = "paid"
                                                 /\ x = <<attempt[a].order, attempt[a].ref>>
  BY DEF Payments

\* PaidByOneAttempt: the order's own column says what its attempts say.
LEMMA PaidOf ==
    ASSUME IInv, NEW o \in Orders
    PROVE  Promise!IsPaid(o) <=> order[o].pay \in {"paid", "refunded"}
  <1>1. order[o].pay \in {"paid", "refunded"} <=> \E a \in OfOrder(o) : attempt[a].status = "paid"
    BY DEF IInv, Ledger, PaidByOneAttempt
  <1>2. ASSUME NEW a \in OfOrder(o), attempt[a].status = "paid"
        PROVE  \E p \in Payments : p[1] = o
    <2>1. <<o, attempt[a].ref>> \in Payments
      BY <1>2, PaymentOf DEF OfOrder
    <2> QED BY <2>1
  <1>3. ASSUME NEW p \in Payments, p[1] = o
        PROVE  \E a \in OfOrder(o) : attempt[a].status = "paid"
    <2>1. PICK a \in Attempts : /\ attempt[a].status = "paid"
                               /\ p = <<attempt[a].order, attempt[a].ref>>
      BY PaymentOf
    <2>2. attempt[a].order = o
      BY <1>3, <2>1
    <2> QED BY <2>1, <2>2 DEF OfOrder
  <1> QED BY <1>1, <1>2, <1>3 DEF Promise!IsPaid

LEMMA Unpaid ==
    ASSUME IInv, NEW o \in Orders, order[o].pay \in {"pending", "failed"}
    PROVE  ~Promise!IsPaid(o)
  BY PaidOf

\* An order with a page that is not paid yet has one live attempt, a pending one.
LEMMA PendingPage ==
    ASSUME IInv, NEW a \in Attempts, attempt[a].status = "pending"
    PROVE  /\ attempt[a].order \in Orders /\ attempt[a].order \in Page
           /\ ~Promise!IsPaid(attempt[a].order)
           /\ \A b \in Attempts \ {a} :
                 attempt[b].status \in {"pending", "paid"} => attempt[b].order # attempt[a].order
  <1>1. attempt[a].order \in Orders
    BY DEF IInv, Ledger, RowsExist
  <1>2. attempt[a].order \in Page
    BY OnPage
  <1>3. \A b \in Attempts \ {a} :
           attempt[b].status \in {"pending", "paid"} => attempt[b].order # attempt[a].order
    BY <1>1 DEF IInv, Ledger, OneLiveAttempt, OfOrder
  <1>4. ~Promise!IsPaid(attempt[a].order)
    <2>1. ~\E b \in OfOrder(attempt[a].order) : attempt[b].status = "paid"
      BY <1>3 DEF OfOrder
    <2>2. order[attempt[a].order].pay \notin {"paid", "refunded"}
      BY <1>1, <2>1 DEF IInv, Ledger, PaidByOneAttempt
    <2> QED BY <1>1, <2>2, PaidOf
  <1> QED BY <1>1, <1>2, <1>3, <1>4

\* What does not change, as far as the promise reads it.
LEMMA StageStays ==
    ASSUME \A o \in Orders : order'[o].status = order[o].status
    PROVE  Stage' = Stage
  BY DEF Stage

LEMMA OnlineStays ==
    ASSUME \A o \in Orders : order'[o].method = order[o].method
    PROVE  Online' = Online
  BY DEF Online

LEMMA PageStays ==
    ASSUME \A a \in Attempts :
              /\ attempt'[a].status \in {"pending", "paid"} <=> attempt[a].status \in {"pending", "paid"}
              /\ attempt[a].status \in {"pending", "paid"} => attempt'[a].order = attempt[a].order
    PROVE  Page' = Page
  <1>1. ASSUME NEW x PROVE x \in Page' <=> x \in Page
    <2>1. x \in Page' <=> \E a \in Attempts : /\ attempt'[a].status \in {"pending", "paid"}
                                               /\ attempt'[a].order = x
      BY DEF Page
    <2> QED BY <2>1, OnPage
  <1> QED BY <1>1 DEF Page

LEMMA PaymentsStay ==
    ASSUME \A a \in Attempts :
              /\ attempt'[a].status = "paid" <=> attempt[a].status = "paid"
              /\ attempt[a].status = "paid" =>
                    attempt'[a].order = attempt[a].order /\ attempt'[a].ref = attempt[a].ref
    PROVE  Payments' = Payments
  <1>1. ASSUME NEW x PROVE x \in Payments' <=> x \in Payments
    <2>1. x \in Payments' <=> \E a \in Attempts : /\ attempt'[a].status = "paid"
                                                  /\ x = <<attempt'[a].order, attempt'[a].ref>>
      BY DEF Payments
    <2> QED BY <2>1, PaymentOf
  <1> QED BY <1>1 DEF Payments

\* GivenBackOnce, before and after a step, says what the step gave back.
LEMMA BackFollows ==
    ASSUME IInv, IInv', NEW o \in Orders
    PROVE  /\ restored[o] = IF order[o].status = "cancelled" THEN 1 ELSE 0
           /\ restored'[o] = IF order'[o].status = "cancelled" THEN 1 ELSE 0
           /\ restored \in [Orders -> Nat] /\ restored' \in [Orders -> Nat]
  BY DEF IInv, GivenBackOnce, TypeOK

LEMMA BackStays ==
    ASSUME IInv, IInv',
           \A o \in Orders : order'[o].status = "cancelled" <=> order[o].status = "cancelled"
    PROVE  restored' = restored
  <1>1. \A o \in Orders : restored'[o] = restored[o]
    BY BackFollows
  <1>2. restored \in [Orders -> Nat] /\ restored' \in [Orders -> Nat]
    BY DEF IInv, TypeOK
  <1> QED BY <1>1, <1>2

LEMMA QuietKeepsPromise ==
    ASSUME IInv, IInv', Quiet
    PROVE  UNCHANGED Promise!lifeVars
  <1>1. outbox' = outbox /\ \A o \in Orders : KeepOrder(o)
    BY DEF Quiet, KeepOrders
  <1>2. \A a \in Attempts : KeepAttempt(a)
    BY DEF Quiet, KeepAttempts
  <1>3. Stage' = Stage /\ Online' = Online
    BY <1>1, StageStays, OnlineStays DEF KeepOrder
  <1>4. Page' = Page /\ Payments' = Payments
    BY <1>2, PageStays, PaymentsStay DEF KeepAttempt
  <1>5. restored' = restored
    BY <1>1, BackStays DEF KeepOrder
  <1> QED BY <1>1, <1>3, <1>4, <1>5 DEF Promise!lifeVars

LEMMA IssueKeepsPromise ==
    ASSUME IInv, IInv', NEW a \in Attempts, Issues(a)
    PROVE  UNCHANGED Promise!lifeVars
  <1>1. outbox' = outbox /\ \A o \in Orders : KeepOrder(o)
    BY DEF Issues, KeepOrders
  <1>2. /\ \A b \in Attempts \ {a} : KeepAttempt(b)
        /\ attempt[a].status = "pending" /\ attempt'[a].status = "pending"
        /\ attempt'[a].order = attempt[a].order
    BY DEF Issues, KeepOthers
  <1>3. Stage' = Stage /\ Online' = Online
    BY <1>1, StageStays, OnlineStays DEF KeepOrder
  <1>4. Page' = Page /\ Payments' = Payments
    BY <1>2, PageStays, PaymentsStay DEF KeepAttempt
  <1>5. restored' = restored
    BY <1>1, BackStays DEF KeepOrder
  <1> QED BY <1>1, <1>3, <1>4, <1>5 DEF Promise!lifeVars

\* A live attempt that fails, expires or is captured too late takes the page away.
LEMMA ClosingWithdraws ==
    ASSUME IInv, IInv', NEW a \in Attempts, KeepOrders, KeepOthers(a), KeepLinks(a),
           attempt[a].status = "pending", attempt'[a].status \notin {"pending", "paid"}
    PROVE  Promise!LifeNext
  <1> DEFINE o == attempt[a].order
  <1>1. /\ o \in Orders /\ o \in Page /\ ~Promise!IsPaid(o)
        /\ \A b \in Attempts \ {a} : attempt[b].status \in {"pending", "paid"} => attempt[b].order # o
    BY PendingPage
  <1>2. outbox' = outbox /\ \A p \in Orders : KeepOrder(p)
    BY DEF KeepOrders
  <1>3. \A b \in Attempts \ {a} : KeepAttempt(b)
    BY DEF KeepOthers
  <1>4. Stage' = Stage /\ Online' = Online /\ restored' = restored
    BY <1>2, StageStays, OnlineStays, BackStays DEF KeepOrder
  <1>5. Payments' = Payments
    BY <1>3, PaymentsStay DEF KeepAttempt
  <1>6. ASSUME NEW x PROVE x \in Page' <=> x \in Page \ {o}
    <2>1. x \in Page' <=> \E b \in Attempts : /\ attempt'[b].status \in {"pending", "paid"}
                                               /\ attempt'[b].order = x
      BY DEF Page
    <2>2. x \in Page' <=> \E b \in Attempts \ {a} : /\ attempt[b].status \in {"pending", "paid"}
                                                     /\ attempt[b].order = x
      BY <1>3, <2>1 DEF KeepAttempt
    <2> QED BY <1>1, <2>2, OnPage
  <1>7. Page' = Page \ {o}
    BY <1>6 DEF Page
  <1>8. Promise!Withdraw(o)
    BY <1>1, <1>2, <1>4, <1>5, <1>7 DEF Promise!Withdraw
  <1> QED BY <1>1, <1>8 DEF Promise!LifeNext

\* Money that comes after the page was withdrawn is kept for a human: no promise.
LEMMA LateKeepsPromise ==
    ASSUME IInv, IInv', NEW a \in Attempts, KeepOrders, KeepOthers(a),
           attempt[a].status \notin {"pending", "paid"},
           attempt'[a].status \notin {"pending", "paid"}
    PROVE  UNCHANGED Promise!lifeVars
  <1>1. outbox' = outbox /\ \A p \in Orders : KeepOrder(p)
    BY DEF KeepOrders
  <1>2. \A b \in Attempts \ {a} : KeepAttempt(b)
    BY DEF KeepOthers
  <1>3. Stage' = Stage /\ Online' = Online /\ restored' = restored
    BY <1>1, StageStays, OnlineStays, BackStays DEF KeepOrder
  <1>4. Page' = Page /\ Payments' = Payments
    BY <1>2, PageStays, PaymentsStay DEF KeepAttempt
  <1> QED BY <1>1, <1>3, <1>4 DEF Promise!lifeVars

LEMMA CreateOffers ==
    ASSUME IInv, IInv', NEW o \in Orders, NEW a \in Attempts, Creates(o, a)
    PROVE  Promise!Offer(o)
  <1>1. /\ attempt[a].status = "none" /\ attempt'[a].status = "pending" /\ attempt'[a].order = o
        /\ order[o].status = "pending" /\ order[o].pay \in {"pending", "failed"}
        /\ ~AttemptBlocks(o) /\ outbox' = outbox
    BY DEF Creates
  <1>2. \A b \in Attempts \ {a} : KeepAttempt(b)
    BY DEF Creates, KeepOthers
  <1>3. /\ \A p \in Orders \ {o} : KeepOrder(p)
        /\ order'[o].status = order[o].status /\ order'[o].method = "zarinpal"
    BY DEF Creates
  <1>4. Stage' = Stage /\ restored' = restored
    BY <1>3, StageStays, BackStays DEF KeepOrder
  <1>5. Payments' = Payments
    BY <1>1, <1>2, PaymentsStay DEF KeepAttempt
  <1>6. Online' = Online \cup {o}
    BY <1>3 DEF Online, KeepOrder
  <1>7. ASSUME NEW x PROVE x \in Page' <=> x \in Page \cup {o}
    <2>1. x \in Page' <=> \E b \in Attempts : /\ attempt'[b].status \in {"pending", "paid"}
                                               /\ attempt'[b].order = x
      BY DEF Page
    <2>2. x \in Page' <=> x = o \/ \E b \in Attempts \ {a} :
             attempt[b].status \in {"pending", "paid"} /\ attempt[b].order = x
      BY <1>1, <1>2, <2>1 DEF KeepAttempt
    <2> QED BY <1>1, <2>2, OnPage
  <1>8. Page' = Page \cup {o}
    BY <1>7 DEF Page
  <1>9. o \notin Page
    BY <1>1, OnPage DEF AttemptBlocks, Blocking
  <1>10. Stage[o] = "pending" /\ ~Promise!IsPaid(o)
    BY <1>1, StageOf, Unpaid
  <1> QED BY <1>1, <1>4, <1>5, <1>6, <1>8, <1>9, <1>10 DEF Promise!Offer

LEMMA PayPays ==
    ASSUME IInv, IInv', NEW a \in Attempts, Pays(a)
    PROVE  Promise!LifeNext
  <1> DEFINE o == attempt[a].order
             r == captured[a]
  <1>1. /\ o \in Orders /\ o \in Page /\ ~Promise!IsPaid(o)
        /\ \A b \in Attempts \ {a} : attempt[b].status \in {"pending", "paid"} => attempt[b].order # o
    BY PendingPage DEF Pays
  <1>2. /\ attempt[a].status = "pending" /\ attempt'[a].status = "paid"
        /\ attempt'[a].order = o /\ attempt'[a].ref = r
        /\ outbox' = outbox \cup {<<o, "payment_succeeded">>}
    BY DEF Pays, KeepLinks
  <1>3. \A b \in Attempts \ {a} : KeepAttempt(b)
    BY DEF Pays, KeepOthers
  <1>4. /\ order[o].status \in {"pending", "processing", "shipped"}
        /\ order[o].pay \in {"pending", "failed"}
        /\ \A b \in Attempts \ {a} : attempt[b].status = "paid" => attempt[b].ref # r
    BY DEF Pays, MayPay
  <1>5. order[o].method = "zarinpal"
    BY <1>2 DEF IInv, Ledger, RowsExist
  <1>6. Stage[o] = "pending"
    <2>1. order[o].status = "pending"
      BY <1>1, <1>4, <1>5 DEF IInv, Ledger, FulfilledIsPaid
    <2> QED BY <1>1, <2>1, StageOf
  <1>7. /\ \A p \in Orders \ {o} : KeepOrder(p)
        /\ order'[o].status = order[o].status /\ order'[o].method = "zarinpal"
    BY DEF Pays
  <1>8. r \in Refs
    <2>1. attempt'[a].ref = captured'[a] /\ captured'[a] # NoRef
      BY <1>2 DEF IInv, SettledIsCaptured, Settled
    <2>2. captured'[a] \in Refs \cup {NoRef}
      BY DEF IInv, TypeOK
    <2> QED BY <1>2, <2>1, <2>2
  <1>9. ~Promise!IsSpent(r)
    <2> SUFFICES ASSUME NEW p \in Payments, p[2] = r
                 PROVE  FALSE
      BY DEF Promise!IsSpent
    <2>1. PICK b \in Attempts : /\ attempt[b].status = "paid"
                               /\ p = <<attempt[b].order, attempt[b].ref>>
      BY PaymentOf
    <2>2. attempt[b].ref = r
      BY <2>1
    <2> QED BY <1>2, <1>4, <2>1, <2>2
  <1> HIDE DEF o, r
  <1>10. Stage' = Stage /\ Online' = Online /\ restored' = restored
    <2>1. /\ \A p \in Orders : order'[p].status = order[p].status
          /\ \A p \in Orders : order'[p].method = order[p].method
      BY <1>5, <1>7 DEF KeepOrder
    <2> QED BY <2>1, StageStays, OnlineStays, BackStays
  <1>11. Page' = Page
    BY <1>2, <1>3, PageStays DEF KeepAttempt, o
  <1>12. Payments' = Payments \cup {<<o, r>>}
    <2>1. ASSUME NEW x PROVE x \in Payments' <=> x \in Payments \cup {<<o, r>>}
      <3>1. x \in Payments' <=> \E b \in Attempts : /\ attempt'[b].status = "paid"
                                                    /\ x = <<attempt'[b].order, attempt'[b].ref>>
        BY DEF Payments
      <3>2. x \in Payments' <=> x = <<o, r>> \/ \E b \in Attempts \ {a} :
               attempt[b].status = "paid" /\ x = <<attempt[b].order, attempt[b].ref>>
        BY <1>2, <1>3, <3>1 DEF KeepAttempt
      <3> QED BY <1>2, <3>2, PaymentOf
    <2> QED BY <2>1 DEF Payments
  <1>13. Promise!Pay(o, r)
    BY <1>1, <1>2, <1>6, <1>9, <1>10, <1>11, <1>12 DEF Promise!Pay
  <1> QED BY <1>1, <1>8, <1>13 DEF Promise!LifeNext

LEMMA AdvanceAdvances ==
    ASSUME IInv, IInv', NEW o \in Orders, NEW s \in Statuses, Advances(o, s)
    PROVE  Promise!LifeNext
  <1>1. /\ s \in {"processing", "shipped", "delivered"} /\ CanTransition(order[o].status, s)
        /\ RequiresPaidPayment(order[o].method, s) => order[o].pay = "paid"
        /\ order'[o].status = s /\ order'[o].method = order[o].method
        /\ outbox' = outbox \cup {<<o, s>>}
    BY DEF Advances
  <1>2. (\A p \in Orders \ {o} : KeepOrder(p)) /\ (\A a \in Attempts : KeepAttempt(a))
    BY DEF Advances, KeepAttempts
  <1>3. Stage' = [Stage EXCEPT ![o] = s]
    BY <1>1, <1>2 DEF Stage, KeepOrder
  <1>4. <<Stage[o], s>> \in {<<"pending", "processing">>, <<"processing", "shipped">>,
                             <<"shipped", "delivered">>}
    BY <1>1, StageOf DEF CanTransition
  <1>5. o \in Online => Promise!IsPaid(o)
    BY <1>1, PaidOf DEF Online, RequiresPaidPayment
  <1>6. Online' = Online
    BY <1>1, <1>2, OnlineStays DEF KeepOrder
  <1>7. restored' = restored
    <2>1. \A p \in Orders : order'[p].status = "cancelled" <=> order[p].status = "cancelled"
      BY <1>1, <1>2 DEF KeepOrder, CanTransition
    <2> QED BY <2>1, BackStays
  <1>8. Page' = Page /\ Payments' = Payments
    BY <1>2, PageStays, PaymentsStay DEF KeepAttempt
  <1>9. Promise!Advance(o, s)
    BY <1>1, <1>3, <1>4, <1>5, <1>6, <1>7, <1>8 DEF Promise!Advance
  <1> QED BY <1>1, <1>9 DEF Promise!LifeNext

LEMMA CancelGivesUp ==
    ASSUME IInv, IInv', NEW S \in SUBSET Orders, Cancels(S)
    PROVE  Promise!LifeNext
  <1>1. /\ outbox' = outbox \cup (S \X {"cancelled"})
        /\ \A o \in Orders \ S : KeepOrder(o)
        /\ \A a \in Attempts : KeepAttempt(a)
    BY DEF Cancels, KeepAttempts
  <1>2. \A o \in S : /\ order[o].status \in {"pending", "processing"} /\ ~PaymentBlocksCancellation(o)
                     /\ order'[o].status = "cancelled" /\ order'[o].method = order[o].method
    BY DEF Cancels
  <1>3. ASSUME NEW o \in S
        PROVE  Stage[o] \in {"pending", "processing"} /\ ~Promise!IsPaid(o) /\ o \notin Page
    <2>1. Stage[o] \in {"pending", "processing"}
      BY <1>2, StageOf
    <2>2. ~Promise!IsPaid(o)
      BY <1>2, PaidOf DEF PaymentBlocksCancellation
    <2>3. o \notin Page
      BY <1>2, OnPage DEF PaymentBlocksCancellation, AttemptBlocks, Blocking
    <2> QED BY <2>1, <2>2, <2>3
  <1>4. Stage' = [o \in Orders |-> IF o \in S THEN "cancelled" ELSE Stage[o]]
    BY <1>1, <1>2 DEF Stage, KeepOrder
  <1>5. restored' = [o \in Orders |-> IF o \in S THEN restored[o] + 1 ELSE restored[o]]
    <2>1. ASSUME NEW o \in Orders
          PROVE  restored'[o] = IF o \in S THEN restored[o] + 1 ELSE restored[o]
      <3>1. CASE o \in S
        BY <1>2, <3>1, BackFollows
      <3>2. CASE o \notin S
        BY <1>1, <3>2, BackFollows DEF KeepOrder
      <3> QED BY <3>1, <3>2
    <2>2. restored' \in [Orders -> Nat]
      BY DEF IInv, TypeOK
    <2> QED BY <2>1, <2>2
  <1>6. Online' = Online
    BY <1>1, <1>2, OnlineStays DEF KeepOrder
  <1>7. Page' = Page /\ Payments' = Payments
    BY <1>1, PageStays, PaymentsStay DEF KeepAttempt
  <1>8. Promise!GiveUp(S)
    BY <1>1, <1>3, <1>4, <1>5, <1>6, <1>7 DEF Promise!GiveUp
  <1> QED BY <1>8 DEF Promise!LifeNext

LEMMA PromiseStep ==
    ASSUME IInv, IInv', [Next]_vars
    PROVE  [Promise!LifeNext]_(Promise!lifeVars)
  <1>1. CASE UNCHANGED vars
    BY <1>1 DEF vars, orderVars, attemptVars, Promise!lifeVars, Stage, Online, Page, Payments
  <1>2. CASE Next
    <2>1. LedgerStep
      BY <1>2, NextAccounted DEF Accounted
    <2>2. CASE Quiet
      BY <2>2, QuietKeepsPromise
    <2>3. ASSUME NEW S \in SUBSET Orders, Cancels(S) PROVE Promise!LifeNext
      BY <2>3, CancelGivesUp
    <2>4. ASSUME NEW o \in Orders, NEW s \in Statuses, Advances(o, s) PROVE Promise!LifeNext
      BY <2>4, AdvanceAdvances
    <2>5. ASSUME NEW o \in Orders, NEW a \in Attempts, Creates(o, a) PROVE Promise!LifeNext
      BY <2>5, CreateOffers DEF Promise!LifeNext
    <2>6. ASSUME NEW a \in Attempts, Issues(a) PROVE UNCHANGED Promise!lifeVars
      BY <2>6, IssueKeepsPromise
    <2>7. ASSUME NEW a \in Attempts, Pays(a) PROVE Promise!LifeNext
      BY <2>7, PayPays
    <2>8. ASSUME NEW a \in Attempts, Fails(a) \/ Expires(a) PROVE Promise!LifeNext
      BY <2>8, ClosingWithdraws DEF Fails, Expires
    <2>9. ASSUME NEW a \in Attempts, Reconciles(a)
          PROVE  Promise!LifeNext \/ UNCHANGED Promise!lifeVars
      <3>1. CASE attempt[a].status = "pending"
        BY <2>9, <3>1, ClosingWithdraws DEF Reconciles
      <3>2. CASE attempt[a].status = "expired"
        BY <2>9, <3>2, LateKeepsPromise DEF Reconciles
      <3> QED BY <2>9, <3>1, <3>2 DEF Reconciles
    <2> QED BY <2>1, <2>2, <2>3, <2>4, <2>5, <2>6, <2>7, <2>8, <2>9 DEF LedgerStep
  <1> QED BY <1>1, <1>2

\* OrderPayment implements OrderLifecycle: each transaction of an order or of an
\* attempt of it is one step of the promise or changes nothing of it.
THEOREM Refinement == Spec => KeepsPromise
  <1>1. Init => Promise!LifeInit
    BY DEF Init, NoAttemptRow, Promise!LifeInit, Stage, Online, Page, Payments
  <1>2. IInv /\ IInv' /\ [Next]_vars => [Promise!LifeNext]_(Promise!lifeVars)
    BY PromiseStep
  <1> QED
    BY <1>1, <1>2, Inductive, PTL DEF Spec, KeepsPromise, Promise!LifeSpec
=============================================================================
