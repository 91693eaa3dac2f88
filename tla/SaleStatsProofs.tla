--------------------------- MODULE SaleStatsProofs ---------------------------
(***************************************************************************)
(* The dashboard's figures agree, for any sales, buyers and sessions, and  *)
(* any number of commits between one statement of sale_stats and the next: *)
(* a unit that is sold stays sold, and sold units are counted first.       *)
(***************************************************************************)
EXTENDS SaleStats, FlashSaleProofs

Names == {"sold", "in_cart", "revenue", "pending"}
Sold == {r \in Rows : rstat[r] = "sold"}

LEMMA StatementOrder ==
    /\ Len(StatOrder) = 4
    /\ StatOrder[1] = "sold" /\ StatOrder[2] = "in_cart"
    /\ StatOrder[3] = "revenue" /\ StatOrder[4] = "pending"
    /\ {StatOrder[i] : i \in DOMAIN StatOrder} = Names
<1>1. Len(StatOrder) = 4 /\ DOMAIN StatOrder = 1 .. 4
  BY DEF StatOrder
<1>2. /\ StatOrder[1] = "sold" /\ StatOrder[2] = "in_cart"
      /\ StatOrder[3] = "revenue" /\ StatOrder[4] = "pending"
  BY DEF StatOrder
<1>3. 1 .. 4 = {1, 2, 3, 4}
  OBVIOUS
<1>4. {StatOrder[i] : i \in {1, 2, 3, 4}} = Names
  BY <1>2 DEF Names
<1>5. QED
  BY <1>1, <1>2, <1>3, <1>4

\* What has been read: sold units that are so still, and nothing yet of the
\* figures to come.
Read ==
    /\ asked \in 0 .. 4
    /\ figures \in [Names -> SUBSET Rows]
    /\ figures["sold"] \subseteq Sold
    /\ asked = 0 => figures["sold"] = {}
    /\ asked < 2 => figures["in_cart"] = {}
    /\ asked < 4 => figures["pending"] = {}
    /\ FiguresAgree

\* What the theorems of FlashSale say of the rows a statement sees.
RowsAgree == TypeOK /\ NoOversell /\ PayingIffPending /\ SettledTogether

LEMMA CountedOnce ==
    ASSUME RowsAgree, NEW A \in SUBSET Rows,
           \A r \in A : rstat[r] \in {"held", "paying", "sold"}
    PROVE  Cardinality(A) <= Quantity[Watched]
<1>1. A \subseteq Taken(Watched) /\ Taken(Watched) \subseteq Resvs
  BY DEF Rows, Taken
<1>2. /\ IsFiniteSet(Taken(Watched)) /\ Cardinality(Taken(Watched)) \in Nat
      /\ Cardinality(A) \in Nat /\ Cardinality(A) <= Cardinality(Taken(Watched))
  BY <1>1, ResvsFinite, FS_Subset, FS_CardinalityType
<1>3. /\ avail[Watched] \in Int /\ avail[Watched] >= 0
      /\ avail[Watched] + Cardinality(Taken(Watched)) <= Quantity[Watched]
      /\ Quantity[Watched] \in Int
  <2>1. avail[Watched] \in Int /\ Quantity[Watched] \in Int
    BY WatchedAssumption, QuantityAssumption DEF RowsAgree, TypeOK
  <2>2. /\ avail[Watched] >= 0
        /\ avail[Watched] + Cardinality(Taken(Watched)) <= Quantity[Watched]
    BY WatchedAssumption, Zenon DEF RowsAgree, NoOversell
  <2>3. QED
    BY <2>1, <2>2
<1>4. QED
  BY <1>2, <1>3

\* Nothing of an answer changes while transactions go on, and a unit that was
\* counted as sold is still sold.
LEMMA CommitsKeep ==
    ASSUME TypeOK, Read, [LegalStep]_vars, UNCHANGED statVars
    PROVE  Read'
<1>1. Sold \subseteq Sold'
  <2> SUFFICES ASSUME NEW r \in Resvs, rstat[r] = "sold" PROVE rstat'[r] = "sold"
    BY DEF Sold, Rows
  <2>1. CASE rstat' = rstat
    BY <2>1
  <2>2. CASE LegalStep
    BY <2>2 DEF LegalStep, LegalResv
  <2>3. QED
    BY <2>1, <2>2 DEF vars, rows
<1>2. QED
  BY <1>1 DEF Read, FiguresAgree, statVars

\* One figure more.
LEMMA OneFigure ==
    ASSUME Read, NEW n \in Names, NEW F \in SUBSET Rows,
           figures' = [figures EXCEPT ![n] = F]
    PROVE  /\ figures' \in [Names -> SUBSET Rows]
           /\ \A m \in Names : figures'[m] = IF m = n THEN F ELSE figures[m]
BY DEF Read

\* Each statement finds what it should beside those before it.
LEMMA StatementsAgree ==
    ASSUME RowsAgree, Read, ReadFigure
    PROVE  Read'
<1>1. /\ asked \in 0 .. 3 /\ asked' = asked + 1
      /\ figures' = [figures EXCEPT ![StatOrder[asked']] = Figure(StatOrder[asked'])]
      /\ rstat' = rstat
  BY StatementOrder DEF ReadFigure, Read, vars, rows
<1>2. /\ figures["sold"] \subseteq Sold /\ Sold' = Sold /\ Sold \subseteq Rows
      /\ \A r \in Sold : rstat[r] = "sold"
  BY <1>1 DEF Read, Sold
<1>3. CASE asked = 0
  <2>1. asked' = 1 /\ StatOrder[asked'] = "sold" /\ Figure("sold") = Sold
    BY <1>1, <1>3, StatementOrder DEF Figure, Sold
  <2>2. /\ figures'["sold"] = Sold /\ figures'["in_cart"] = {} /\ figures'["pending"] = {}
        /\ figures' \in [Names -> SUBSET Rows]
    BY <1>1, <1>2, <1>3, <2>1, OneFigure DEF Read, Names
  <2>3. Sold \cup {} = Sold /\ Cardinality(Sold) <= Quantity[Watched]
    BY <1>2, CountedOnce
  <2>4. QED
    BY <1>2, <2>1, <2>2, <2>3 DEF Read, FiguresAgree
<1>4. CASE asked = 1
  <2> DEFINE C == Figure("in_cart")
  <2>1. asked' = 2 /\ StatOrder[asked'] = "in_cart"
    BY <1>1, <1>4, StatementOrder
  <2>2. /\ C \subseteq Rows /\ \A r \in C : rstat[r] \in {"paying", "held"}
    BY DEF Figure
  <2>3. figures' = [figures EXCEPT !["in_cart"] = C]
    BY <1>1, <2>1
  <2> HIDE DEF C
  <2>4. /\ figures'["sold"] = figures["sold"] /\ figures'["in_cart"] = C
        /\ figures'["pending"] = {}
        /\ figures' \in [Names -> SUBSET Rows]
    <3>1. C \in SUBSET Rows /\ "in_cart" \in Names
      BY <2>2 DEF Names
    <3>2. /\ figures' \in [Names -> SUBSET Rows]
          /\ \A m \in Names : figures'[m] = IF m = "in_cart" THEN C ELSE figures[m]
      BY <2>3, <3>1, OneFigure
    <3>3. figures["pending"] = {}
      BY <1>4 DEF Read
    <3>4. QED
      BY <3>2, <3>3 DEF Names
  <2>5. figures["sold"] \cap C = {}
    BY <1>2, <2>2
  <2>6. Cardinality(figures["sold"] \cup C) <= Quantity[Watched]
    BY <1>2, <2>2, CountedOnce
  <2>7. QED
    BY <1>2, <2>1, <2>4, <2>5, <2>6 DEF Read, FiguresAgree
<1>5. CASE asked = 2
  <2> DEFINE V == {r \in Rows : order[r] = "paid"}
  <2>1. asked' = 3 /\ StatOrder[asked'] = "revenue" /\ Figure("revenue") = V
    BY <1>1, <1>5, StatementOrder DEF Figure
  <2>2. Sold \subseteq V /\ V \subseteq Rows
    BY DEF RowsAgree, SettledTogether, Sold, Rows
  <2> HIDE DEF V
  <2>3. /\ figures'["sold"] = figures["sold"] /\ figures'["in_cart"] = figures["in_cart"]
        /\ figures'["revenue"] = V /\ figures'["pending"] = {}
        /\ figures' \in [Names -> SUBSET Rows]
    BY <1>1, <1>5, <2>1, <2>2, OneFigure DEF Read, Names
  <2>4. QED
    BY <1>2, <1>5, <2>1, <2>2, <2>3 DEF Read, FiguresAgree
<1>6. CASE asked = 3
  <2> DEFINE W == {r \in Rows : ~NoPendingPayment(r)}
  <2>1. asked' = 4 /\ StatOrder[asked'] = "pending" /\ Figure("pending") = W
    BY <1>1, <1>6, StatementOrder DEF Figure
  <2>2. W \subseteq Rows
    OBVIOUS
  <2>3. ASSUME NEW r \in W PROVE rstat[r] = "paying"
    <3>1. PICK p \in Pays : OrderOf[p] = r /\ pay[p] = "pending"
      BY <2>3 DEF NoPendingPayment
    <3>2. QED
      BY <3>1 DEF RowsAgree, PayingIffPending, Rows
  <2> HIDE DEF W
  <2>4. /\ figures'["sold"] = figures["sold"] /\ figures'["in_cart"] = figures["in_cart"]
        /\ figures'["revenue"] = figures["revenue"] /\ figures'["pending"] = W
        /\ figures' \in [Names -> SUBSET Rows]
    BY <1>1, <1>6, <2>1, <2>2, OneFigure DEF Read, Names
  <2>5. figures["sold"] \cap W = {}
    BY <1>2, <2>3
  <2>6. QED
    BY <1>2, <1>6, <2>1, <2>4, <2>5 DEF Read, FiguresAgree
<1>7. QED
  BY <1>1, <1>3, <1>4, <1>5, <1>6

\* An answer of which nothing has been read.
LEMMA EmptyAgrees ==
    ASSUME RowsAgree, NEW f, f = NoFigures
    PROVE  /\ f \in [Names -> SUBSET Rows]
           /\ \A n \in Names : f[n] = {}
           /\ Cardinality(f["sold"] \cup f["in_cart"]) <= Quantity[Watched]
<1>1. f = [n \in Names |-> {}]
  BY StatementOrder DEF NoFigures
<1>2. f["sold"] = {} /\ f["in_cart"] = {}
  BY <1>1 DEF Names
<1>3. Cardinality({}) <= Quantity[Watched]
  BY CountedOnce
<1>4. QED
  BY <1>1, <1>2, <1>3

\* What the dashboard shows agrees, although each figure is of another moment.
THEOREM DashboardAgrees == StatsSpec => []FiguresAgree
<1>1. StatsSpec => Spec
  <2>1. StatsInit => Init
    BY DEF StatsInit
  <2>2. [StatsNext]_<<vars, statVars>> => [Next]_vars
    BY DEF StatsNext, ReadFigure, StatsDone
  <2>3. QED
    BY <2>1, <2>2, PTL DEF StatsSpec, Spec
<1>2. Spec => []RowsAgree /\ [][LegalStep]_vars
  BY TypeCorrect, NothingOversold, PaymentOwnsUnit, ChargedPaidSold, TransitionsLegal, PTL
     DEF RowsAgree, LegalTransitions
<1>3. RowsAgree /\ StatsInit => Read
  <2> SUFFICES ASSUME RowsAgree, StatsInit PROVE Read
    OBVIOUS
  <2>1. /\ figures \in [Names -> SUBSET Rows] /\ \A n \in Names : figures[n] = {}
        /\ Cardinality(figures["sold"] \cup figures["in_cart"]) <= Quantity[Watched]
    BY EmptyAgrees DEF StatsInit
  <2>2. QED
    BY <2>1 DEF Read, FiguresAgree, StatsInit, Names
<1>4. RowsAgree /\ Read /\ [LegalStep]_vars /\ [StatsNext]_<<vars, statVars>> => Read'
  <2> SUFFICES ASSUME RowsAgree, Read, [LegalStep]_vars, [StatsNext]_<<vars, statVars>>
               PROVE  Read'
    OBVIOUS
  <2>1. CASE UNCHANGED statVars
    BY <2>1, CommitsKeep DEF RowsAgree
  <2>2. CASE ReadFigure
    BY <2>2, StatementsAgree
  <2>3. CASE StatsDone
    <3>1. /\ figures' \in [Names -> SUBSET Rows] /\ \A n \in Names : figures'[n] = {}
          /\ Cardinality(figures'["sold"] \cup figures'["in_cart"]) <= Quantity[Watched]
      BY <2>3, EmptyAgrees DEF StatsDone
    <3>2. Rows' = Rows
      BY DEF Rows
    <3>3. QED
      BY <2>3, <3>1, <3>2 DEF StatsDone, Read, FiguresAgree, Names
  <2>4. QED
    BY <2>1, <2>2, <2>3 DEF StatsNext
<1>5. Read => FiguresAgree
  BY DEF Read
<1>6. QED
  BY <1>1, <1>2, <1>3, <1>4, <1>5, PTL DEF StatsSpec

=============================================================================
