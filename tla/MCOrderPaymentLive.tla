------------------------- MODULE MCOrderPaymentLive -------------------------
(***************************************************************************)
(* The liveness instance of OrderPayment for TLC.                          *)
(***************************************************************************)
EXTENDS OrderPaymentLive

CONSTANTS o1, o2, a1, a2

\* Orders are interchangeable, so that a1 may be the first one's; and the coupons, which
\* no guard reads, are left out.
SmallSpec ==
    /\ Init /\ redeemed = {}
    /\ [][Next /\ attempt'[a1].order # o2]_vars
    /\ Fairness /\ <>[][Calm]_vars
=============================================================================
