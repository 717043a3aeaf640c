-------------------------- MODULE OrderPaymentLive --------------------------
(***************************************************************************)
(* What the maintenance goroutine must get done, and when.                 *)
(***************************************************************************)
EXTENDS OrderPayment

\* Attempts of which the gateway never gives a definite answer.
CONSTANT Unanswerable
ASSUME UnanswerableAssumption == Unanswerable \subseteq Attempts

\* The steps of the goroutine, which runs them one after the other.
MaintStep ==
    \/ ScanAbandoned \/ ScanReservations \/ ExpireReservations
    \/ \E a \in Attempts : MaintVerify(a) \/ MaintFail(a) \/ MaintSkip(a)
    \/ \E answer \in Answers : GatewayAnswer(Maint, answer)
    \/ Finalize(Maint) \/ MaintReread \/ ExpireRejected

\* The ticker keeps firing and time passes.
Fairness ==
    /\ WF_vars(MaintStep)
    /\ \A o \in Orders : WF_vars(OrderDue(o))
    /\ \A a \in Attempts : WF_vars(AttemptDue(a))

\* No pass is cut short (a step of an abort is only allowed where a regular step
\* does the same), the gateway is definite about every attempt outside
\* Unanswerable, and no row lock makes the scan of the reservations skip.
Calm ==
    /\ MaintAbort \/ VerifierLost(Maint) => MaintStep
    /\ \A answer \in {"other", "uncertain"} :
          GatewayAnswer(Maint, answer) => verifier[Maint].attempt \in Unanswerable
    /\ ScanReservations => scan' = Abandonable \/ Cardinality(scan') = ReservationLimit

LiveSpec == Spec /\ Fairness /\ <>[][Calm]_vars

\* Money that the gateway captured is found also when the customer's browser
\* never comes back: the loop reaches every old attempt, however many others
\* stay unanswered and although a pass takes only the first ScanLimit ones.
\* (An attempt may also expire between the gateway's answer and the capture.)
CaptureIsFound ==
    \A a \in Attempts \ Unanswerable :
        captured[a] # NoRef ~> attempt[a].status \in Settled \cup {"expired"}

Open(o) ==
    /\ order[o].status = "pending" /\ order[o].pay = "pending"
    /\ \A a \in OfOrder(o) : attempt[a].status # "reconciliation" /\ a \notin Unanswerable

\* The stock of an order nobody pays is not held forever: the order is paid,
\* taken up or cancelled, unless an attempt of it waits for a human.
ReservationEnds == \A o \in Orders : Open(o) ~> ~Open(o)
=============================================================================
