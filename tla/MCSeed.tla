------------------------------- MODULE MCSeed -------------------------------
(***************************************************************************)
(* Ann registers twice under two spellings, somebody registers the email   *)
(* of the shop, ann logs in under either spelling, and two seeds run.      *)
(***************************************************************************)
EXTENDS Seed, TLC

MCSpellings == {"ann", "ANN", "shop"}
MCLower == [x \in MCSpellings |-> IF x = "ANN" THEN "ann" ELSE x]
MCRegs == {"r1", "r2", "r3"}
MCLogins == {"l1"}
MCTyped == "r1" :> "ann" @@ "r2" :> "ANN" @@ "r3" :> "shop" @@ "l1" :> "ANN"
MCPassword == "r1" :> "x" @@ "r2" :> "y" @@ "r3" :> "y" @@ "l1" :> "x"

\* Moscow is three hours ahead, all year.
Moscow == [change |-> 0, before |-> 3, after |-> 3]

Symmetry == Permutations(Seeds)
=============================================================================
