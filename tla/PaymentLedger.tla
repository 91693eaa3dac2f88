---------------------------- MODULE PaymentLedger ----------------------------
(***************************************************************************)
(* What the payments service promises about a unit and the attempts to pay *)
(* for it, with no stub, no wire, no clock, no locks and no rows but these *)
(* two: one attempt at a time takes the unit into payment, one verdict     *)
(* takes it out again, and a unit that is in payment goes nowhere else.    *)
(* FlashSale, which says nothing of where verdicts come from, and          *)
(* PaymentFlow, which says nothing of the other rows, are both shown to    *)
(* implement this module.                                                  *)
(***************************************************************************)
CONSTANTS Orders, Attempts, OrderOf

VARIABLES
    unit,       \* the reservation of an order: held, paying, sold or gone
    pay         \* what has become of an attempt

vars == <<unit, pay>>

Verdicts == {"approved", "declined"}

Ongoing(o) == {p \in Attempts : OrderOf[p] = o /\ pay[p] = "pending"}

Init ==
    /\ unit = [o \in Orders |-> "held"]
    /\ pay = [p \in Attempts |-> "absent"]

Start(p) ==
    /\ pay[p] = "absent"
    /\ unit[OrderOf[p]] = "held"
    /\ Ongoing(OrderOf[p]) = {}
    /\ pay' = [pay EXCEPT ![p] = "pending"]
    /\ unit' = [unit EXCEPT ![OrderOf[p]] = "paying"]

\* A declined unit returns to the cart, or is gone when its sale is over.
After(v) == IF v = "approved" THEN {"sold"} ELSE {"held", "gone"}

Settle(p, v) ==
    /\ pay[p] = "pending"
    /\ unit[OrderOf[p]] = "paying"
    /\ pay' = [pay EXCEPT ![p] = v]
    /\ \E u \in After(v) : unit' = [unit EXCEPT ![OrderOf[p]] = u]

\* Units are released, expire or are cleared, several at once.
Leave(S) ==
    /\ \A o \in S : unit[o] = "held"
    /\ unit' = [o \in Orders |-> IF o \in S THEN "gone" ELSE unit[o]]
    /\ UNCHANGED pay

Next ==
    \/ \E p \in Attempts : Start(p) \/ \E v \in Verdicts : Settle(p, v)
    \/ \E S \in SUBSET Orders : Leave(S)

Spec == Init /\ [][Next]_vars

=============================================================================
