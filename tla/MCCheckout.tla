------------------------------ MODULE MCCheckout ------------------------------
(* Small instances of Checkout for TLC: one reservation and its order. *)
EXTENDS Checkout, TLC

OneItem == "o1"

OneOrder == {OneItem}
MCOrderOf == [p \in Attempts |-> OneItem]
=============================================================================
