------------------------------ MODULE MCSession ------------------------------
(* Instances of Session for TLC.                                           *)
EXTENDS Session

CONSTANTS a, b

TopicSymmetry == Permutations(Topics)
=============================================================================
