---------------------------- MODULE MCSaleStats ----------------------------
(***************************************************************************)
(* A dashboard beside the transactions of a small instance of FlashSale.   *)
(***************************************************************************)
EXTENDS SaleStats, MCFlashSale
=============================================================================
