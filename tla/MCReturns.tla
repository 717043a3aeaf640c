------------------------------ MODULE MCReturns ------------------------------
(***************************************************************************)
(* Instances of Returns for TLC.                                           *)
(***************************************************************************)
EXTENDS ReturnsLive

\* AdminCreate's amount, which the table refuses, and an order's total.
MCAmounts == {0, 1}
=============================================================================
