---------------------------- MODULE MCFlashSale ----------------------------
(***************************************************************************)
(* Small instances of FlashSale for TLC.  Sales are "s1", "s2"; a          *)
(* reservation is named by its buyer and a number.                         *)
(***************************************************************************)
EXTENDS FlashSale, TLC

\* Two buyers; the first one may come back for another unit.
OneSale == {"s1"}
Buyers == {"ann", "bob"}
ThreeResvs == {"ann1", "ann2", "bob1"}
TwoTabs == {"ann1", "ann2"}
TwoResvs == {"ann1", "bob1"}
MCBuyerOf == [r \in Resvs |-> IF r = "bob1" THEN "bob" ELSE "ann"]
MCSaleOf == [r \in Resvs |-> "s1"]

\* A declined first attempt and its retry for ann, or one attempt each.
TwoPays == {"p1", "p2"}
AttemptAndRetry == [p \in Pays |-> "ann1"]
OnePayEach == [p \in Pays |-> IF p = "p2" THEN "bob1" ELSE "ann1"]

\* Two sales, of which the first ends earlier.
TwoSales == {"s1", "s2"}

\* One sale that ends and one that outlasts the clock, so that nothing but
\* run_once returns its holds.
SaleEach == [r \in Resvs |-> IF r = "bob1" THEN "s2" ELSE "s1"]
EndsAndLasts == [s \in Sales |-> IF s = "s1" THEN 2 ELSE MaxTime + 1]

OneUnit == [s \in Sales |-> 1]
TwoUnits == [s \in Sales |-> 2]
FromZero == [s \in Sales |-> 0]
UntilTwo == [s \in Sales |-> 2]

Symmetry == Permutations(Txns) \cup Permutations(Workers)
=============================================================================
