----------------------------- MODULE ReturnsLive -----------------------------
(***************************************************************************)
(* What becomes of a refund when admins keep trying.                       *)
(***************************************************************************)
EXTENDS Returns

\* The next step of a request.
Proceed(r) ==
    \/ CreateRefund(r) \/ LoadRefund(r) \/ Claim(r) \/ Confirm(r) \/ RecordAnswer(r)
    \/ \E answer \in Answers : CallProvider(r, answer)

\* A request that is not lost goes on, and admins try again and again: strong
\* fairness, because one who waits for a free request may find none.
Fairness ==
    \A r \in Requests :
        /\ WF_vars(Proceed(r))
        /\ \A o \in Orders, k \in {"provider", "manual"} : SF_vars(AllowRefund(r, k, o))

\* From some time on no request is lost (a step of a loss is only allowed where
\* a regular step does the same).
Calm == \A r \in Requests : LoseRequest(r) => Proceed(r)

LiveSpec == Spec /\ Fairness /\ <>[][Calm]_vars

Due(o) == returns[o] \in Refundable /\ refund[o].status \in {"pending", "processing"}

\* A refund by hand is finished by a later request wherever an earlier one died,
\* also between its two transactions (AdminManualRefund confirms from
\* "processing" too), unless an admin closes the return as failed.
HandoverEnds ==
    \A o \in Orders :
        Due(o) /\ refund[o].method = "manual"
           ~> refund[o].status = "succeeded" \/ returns[o] = "refund_failed"
=============================================================================
