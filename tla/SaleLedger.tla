----------------------------- MODULE SaleLedger -----------------------------
(***************************************************************************)
(* What a flash sale promises about its units, with no clock, no locks, no *)
(* orders and no payments: a unit is on the shelf, in somebody's cart or   *)
(* sold; it leaves the shelf with a reservation, comes back with one that  *)
(* is given up, and is withdrawn when the sale ends.  FlashSale is shown   *)
(* to implement this module.                                               *)
(***************************************************************************)
EXTENDS Integers, FiniteSets

CONSTANTS Sales, Resvs, SaleOf, Quantity

VARIABLES
    shelf,      \* units on the shelf of a sale
    claim       \* what a reservation stands for: nothing yet, a unit in a
                \* cart, a unit sold, or a unit given up

vars == <<shelf, claim>>

Claims(c, s) == {r \in Resvs : SaleOf[r] = s /\ claim[r] = c}
InCarts == {r \in Resvs : claim[r] = "cart"}
GivenUp(R) == [r \in Resvs |-> IF r \in R THEN "gone" ELSE claim[r]]

Init ==
    /\ shelf = Quantity
    /\ claim = [r \in Resvs |-> "none"]

StockLeft(s, L) == shelf[s] + Cardinality(L) > 0

\* A buyer takes a unit, after their lapsed carts L of the sale went back.
Reserve(r, L) ==
    LET s == SaleOf[r]
    IN  /\ claim[r] = "none"
        /\ L \subseteq Claims("cart", s)
        /\ StockLeft(s, L)
        /\ shelf' = [shelf EXCEPT ![s] = @ + Cardinality(L) - 1]
        /\ claim' = [GivenUp(L) EXCEPT ![r] = "cart"]

\* Carts are released or expire: their units are for sale again.
GiveBack(R) ==
    /\ R \subseteq InCarts
    /\ shelf' = [s \in Sales |->
                   shelf[s] + Cardinality({r \in R : SaleOf[r] = s})]
    /\ claim' = GivenUp(R)

Sell(r) ==
    /\ claim[r] = "cart"
    /\ claim' = [claim EXCEPT ![r] = "sold"]
    /\ UNCHANGED shelf

\* Sales end: their shelves are emptied and carts of theirs cleared.
Withdraw(S, R) ==
    /\ R \subseteq {r \in InCarts : SaleOf[r] \in S}
    /\ shelf' = [s \in Sales |-> IF s \in S THEN 0 ELSE shelf[s]]
    /\ claim' = GivenUp(R)

\* A payment is declined after the sale has ended: its unit goes with its cart.
Forfeit(r) ==
    /\ claim[r] = "cart"
    /\ claim' = GivenUp({r})
    /\ UNCHANGED shelf

Next ==
    \/ \E r \in Resvs : \E L \in SUBSET InCarts : Reserve(r, L)
    \/ \E R \in SUBSET InCarts : GiveBack(R)
    \/ \E r \in Resvs : Sell(r) \/ Forfeit(r)
    \/ \E S \in SUBSET Sales : \E R \in SUBSET InCarts : Withdraw(S, R)

Spec == Init /\ [][Next]_vars

\* However units move, those on the shelf, in carts and sold are never more
\* than the shop put on sale, and no buyer is promised one that is not there
\* (docs/acceptance.md:81, "the last unit cannot be sold to two buyers").
NeverOversold ==
    \A s \in Sales :
        /\ shelf[s] >= 0
        /\ shelf[s] + Cardinality(Claims("cart", s) \cup Claims("sold", s))
              <= Quantity[s]

=============================================================================
