----------------------------- MODULE SaleStats -----------------------------
(***************************************************************************)
(* The shop's dashboard asks for the figures of a sale (app/services/      *)
(* shop.py, sale_stats) while the transactions of FlashSale run.  The      *)
(* figures are read by one statement each, in a READ COMMITTED             *)
(* transaction: each sees what has been committed when it starts, so the   *)
(* figures of one answer may be of different moments.  A figure is kept as *)
(* the set of rows it counts.                                              *)
(*                                                                         *)
(* sales.available, which is read first, is left out: the others are of    *)
(* later moments and need not add up with it.                              *)
(***************************************************************************)
EXTENDS FlashSale, Sequences

CONSTANT Watched    \* the sale asked about

ASSUME WatchedAssumption == Watched \in Sales

VARIABLES
    asked,      \* the figures read so far, for the request being served
    figures,    \* their values
    asOf        \* its "now"

statVars == <<asked, figures, asOf>>

\* The in-cart figure read before the sold one.
StatOrder_CartFirst == <<"in_cart", "sold", "revenue", "pending">>

StatOrder == <<"sold", "in_cart", "revenue", "pending">>

Rows == {r \in Resvs : SaleOf[r] = Watched}

Figure(name) ==
    CASE name = "sold" -> {r \in Rows : rstat[r] = "sold"}
      [] name = "in_cart" ->
            {r \in Rows : \/ rstat[r] = "paying"
                          \/ rstat[r] = "held" /\ rexp[r] > asOf'}
      [] name = "revenue" -> {r \in Rows : order[r] = "paid"}
      [] name = "pending" ->
            {r \in Rows : ~NoPendingPayment(r)}

NoFigures == [name \in {StatOrder[i] : i \in DOMAIN StatOrder} |-> {}]

StatsInit ==
    /\ Init
    /\ asked = 0
    /\ figures = NoFigures
    /\ asOf = 0

ReadFigure ==
    /\ asked < Len(StatOrder)
    /\ IF asked = 0 THEN asOf' \in Nows ELSE UNCHANGED asOf
    /\ asked' = asked + 1
    /\ figures' = [figures EXCEPT ![StatOrder[asked']] = Figure(StatOrder[asked'])]
    /\ UNCHANGED vars

\* The answer goes out, or the request is lost.
StatsDone ==
    /\ asked > 0
    /\ asked' = 0
    /\ figures' = NoFigures
    /\ asOf' = 0
    /\ UNCHANGED vars

StatsNext ==
    \/ Next /\ UNCHANGED statVars
    \/ ReadFigure
    \/ StatsDone

StatsSpec == StatsInit /\ [][StatsNext]_<<vars, statVars>>

-----------------------------------------------------------------------------

\* What the dashboard shows agrees, although its parts are of different
\* moments: no unit is in a cart, or in payment, and sold; units sold and in
\* carts are never more than the quantity; every unit sold is in the revenue
\* (shop.py:33-73 reads what is left for good before what it is left from).
FiguresAgree ==
    /\ figures["sold"] \cap figures["in_cart"] = {}
    /\ figures["sold"] \cap figures["pending"] = {}
    /\ asked >= 3 => figures["sold"] \subseteq figures["revenue"]
    /\ Cardinality(figures["sold"] \cup figures["in_cart"]) <= Quantity[Watched]

=============================================================================
