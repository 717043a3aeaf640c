---------------------------- MODULE MCCategories ----------------------------
(***************************************************************************)
(* Instances of Categories for TLC.                                        *)
(***************************************************************************)
EXTENDS Categories, TLC

MCSymmetry == Permutations(Items) \cup Permutations(Categories) \cup Permutations(Requests)
=============================================================================
