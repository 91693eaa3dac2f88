------------------------------ MODULE MCOutbox ------------------------------
(***************************************************************************)
(* Small instances of Outbox.                                              *)
(***************************************************************************)
EXTENDS Outbox, TLC

Symmetry == Permutations(Letters) \cup Permutations(Workers)
=============================================================================
