--------------------------- MODULE MCPaymentFlow ---------------------------
(***************************************************************************)
(* One order, a first attempt and its retry.                               *)
(***************************************************************************)
EXTENDS PaymentFlow, TLC

OneOrder == {"o1"}
MCOrderOf == [p \in Attempts |-> "o1"]

Symmetry == Permutations(Attempts)
=============================================================================
