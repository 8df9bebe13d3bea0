------------------------------ MODULE MCHistory ------------------------------
(* A conversation of a few messages, for TLC. *)
EXTENDS MessageHistory, TLC

HashSymmetry == Permutations(Hash)
==============================================================================
