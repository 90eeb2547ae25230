------------------------------ MODULE MCRecall ------------------------------
(* A restricted asset that is changed, moved, removed or taken back, while    *)
(* each store may get lost once.                                              *)
EXTENDS Recall, TLC
CONSTANTS rule, here, there
Symmetric == Permutations(Places)
=============================================================================
