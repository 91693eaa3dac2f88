----------------------------- MODULE MCRealtime -----------------------------
(***************************************************************************)
(* The pages of the storefront, the cart, the dashboard and the orders.    *)
(***************************************************************************)
EXTENDS Realtime

Storefront == {"sales"}
CartPage == {"cart"}
Dashboard == {"shop", "stats"}
GuardedPages == {Storefront, CartPage, Dashboard}
Cabinet == {{"orders"}}

\* Two incidents in a row where the page has one view.
OneOrTwo == [p \in Pages |-> IF p = Dashboard THEN 1 ELSE 2]
Undisturbed == [p \in Pages |-> 0]
=============================================================================
