--------------------------- MODULE MCOrderPayment ---------------------------
(* Small instances of OrderPayment for TLC.                                *)
EXTENDS OrderPayment, TLC

\* Orders, attempts, references and requests are interchangeable; every order
\* of the instances that use this is payable.
Symmetry == Permutations(Orders) \cup Permutations(Attempts)
              \cup Permutations(Refs) \cup Permutations(Verifiers)
=============================================================================
