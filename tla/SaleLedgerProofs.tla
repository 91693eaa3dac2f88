--------------------------- MODULE SaleLedgerProofs ---------------------------
(***************************************************************************)
(* The ledger of units never promises more than the shop put on sale, for  *)
(* any sales and any finite set of reservations.  FlashSale implements the *)
(* ledger (FlashSaleLedgerProofs), so this is what its accounting rests    *)
(* on, without locks and clocks.                                           *)
(***************************************************************************)
EXTENDS SaleLedger, FiniteSetTheorems, TLAPS

\* Foreign keys that exist, and CHECK (quantity > 0).
Rows ==
    /\ SaleOf \in [Resvs -> Sales]
    /\ IsFiniteSet(Resvs)
    /\ Quantity \in [Sales -> Nat]

LedgerType ==
    /\ shelf \in [Sales -> Int]
    /\ claim \in [Resvs -> {"none", "cart", "sold", "gone"}]

Promised(s) == Claims("cart", s) \cup Claims("sold", s)

\* The units of a sale that a set of carts gives back.
Part(R, s) == {r \in R : SaleOf[r] = s}

\* What the shop still owes of a sale: the counts of finite sets are naturals,
\* and carts that are given up are taken off the promises one by one.
LEMMA PromisedCounts ==
    ASSUME Rows, NEW s \in Sales
    PROVE  /\ IsFiniteSet(Promised(s))
           /\ Cardinality(Promised(s)) \in Nat
           /\ \A P \in SUBSET Promised(s) :
                /\ IsFiniteSet(P)
                /\ Cardinality(P) \in Nat
                /\ Cardinality(Promised(s) \ P) = Cardinality(Promised(s)) - Cardinality(P)
<1>1. Promised(s) \subseteq Resvs
  BY DEF Promised, Claims
<1>2. IsFiniteSet(Promised(s))
  BY <1>1, FS_Subset DEF Rows
<1>3. ASSUME NEW P \in SUBSET Promised(s)
      PROVE  /\ IsFiniteSet(P)
             /\ Cardinality(P) \in Nat
             /\ Cardinality(Promised(s) \ P) = Cardinality(Promised(s)) - Cardinality(P)
  <2>1. IsFiniteSet(P)
    BY <1>2, FS_Subset
  <2>2. Cardinality(Promised(s) \ P)
            = Cardinality(Promised(s)) - Cardinality(Promised(s) \cap P)
    BY <1>2, <2>1, FS_Difference
  <2>3. Promised(s) \cap P = P
    OBVIOUS
  <2>4. QED
    BY <2>1, <2>2, <2>3, FS_CardinalityType
<1>4. QED
  BY <1>2, <1>3, FS_CardinalityType

\* A move that promises a part less, and puts back on the shelf no more than
\* that part, keeps the account.
LEMMA PromisesLess ==
    ASSUME Rows, LedgerType, NeverOversold, NEW s \in Sales,
           NEW P \in SUBSET Promised(s), Promised(s)' = Promised(s) \ P,
           shelf'[s] \in Int, 0 <= shelf'[s],
           shelf'[s] <= shelf[s] + Cardinality(P)
    PROVE  shelf'[s] + Cardinality(Promised(s)') <= Quantity[s]
<1>1. /\ Cardinality(Promised(s)) \in Nat
      /\ Cardinality(P) \in Nat
      /\ Cardinality(Promised(s)') = Cardinality(Promised(s)) - Cardinality(P)
  BY PromisedCounts
<1>2. shelf[s] \in Int /\ Quantity[s] \in Nat
  BY DEF LedgerType, Rows
<1>3. shelf[s] + Cardinality(Promised(s)) <= Quantity[s]
  BY DEF NeverOversold, Promised
<1>4. QED
  BY <1>1, <1>2, <1>3

\* A buyer's unit comes off the shelf or out of a lapsed cart of their own.
LEMMA ReserveKeeps ==
    ASSUME Rows, LedgerType, NeverOversold,
           NEW r \in Resvs, NEW L \in SUBSET InCarts, Reserve(r, L)
    PROVE  LedgerType' /\ NeverOversold'
<1> DEFINE s0 == SaleOf[r]
<1>1. s0 \in Sales /\ L \in SUBSET Promised(s0) /\ r \notin Promised(s0)
  BY DEF Rows, LedgerType, Reserve, Claims, Promised
<1>2. IsFiniteSet(L) /\ Cardinality(L) \in Nat
  BY <1>1, PromisedCounts
<1>3. LedgerType'
  BY <1>1, <1>2 DEF LedgerType, Reserve, GivenUp
<1>4. ASSUME NEW s \in Sales, s # s0
      PROVE  shelf'[s] >= 0 /\ shelf'[s] + Cardinality(Promised(s)') <= Quantity[s]
  <2>1. shelf'[s] = shelf[s] /\ Promised(s)' = Promised(s)
    BY <1>1, <1>4 DEF LedgerType, Reserve, GivenUp, Claims, Promised
  <2>2. QED
    BY <2>1 DEF NeverOversold, Promised
<1>5. shelf'[s0] >= 0 /\ shelf'[s0] + Cardinality(Promised(s0)') <= Quantity[s0]
  <2>1. Promised(s0)' = (Promised(s0) \ L) \cup {r}
    BY <1>1 DEF LedgerType, Reserve, GivenUp, Claims, Promised
  <2>2. /\ IsFiniteSet(Promised(s0) \ L)
        /\ Cardinality(Promised(s0)) \in Nat
        /\ Cardinality(Promised(s0) \ L) = Cardinality(Promised(s0)) - Cardinality(L)
    BY <1>1, PromisedCounts, FS_Subset
  <2>3. Cardinality(Promised(s0)') = Cardinality(Promised(s0)) - Cardinality(L) + 1
    BY <1>1, <2>1, <2>2, FS_AddElement
  <2>4. shelf'[s0] = shelf[s0] + Cardinality(L) - 1 /\ shelf[s0] + Cardinality(L) > 0
    BY <1>1 DEF LedgerType, Reserve, StockLeft
  <2>5. /\ shelf[s0] \in Int /\ Quantity[s0] \in Nat
        /\ shelf[s0] + Cardinality(Promised(s0)) <= Quantity[s0]
    BY <1>1 DEF LedgerType, Rows, NeverOversold, Promised
  <2>6. QED
    BY <1>2, <2>2, <2>3, <2>4, <2>5
<1>6. QED
  BY <1>3, <1>4, <1>5 DEF NeverOversold, Promised

\* Carts that are given up make their sales promise exactly that part less.
LEMMA GivenUpPart ==
    ASSUME LedgerType, NEW R \in SUBSET InCarts, claim' = GivenUp(R), NEW s \in Sales
    PROVE  /\ Part(R, s) \in SUBSET Promised(s)
           /\ Promised(s)' = Promised(s) \ Part(R, s)
           /\ claim' \in [Resvs -> {"none", "cart", "sold", "gone"}]
BY DEF LedgerType, InCarts, GivenUp, Claims, Promised, Part

LEMMA GiveBackKeeps ==
    ASSUME Rows, LedgerType, NeverOversold, NEW R \in SUBSET InCarts, GiveBack(R)
    PROVE  LedgerType' /\ NeverOversold'
<1>1. ASSUME NEW s \in Sales
      PROVE  /\ shelf'[s] \in Int /\ shelf'[s] >= 0
             /\ shelf'[s] + Cardinality(Promised(s)') <= Quantity[s]
  <2>1. Part(R, s) \in SUBSET Promised(s) /\ Promised(s)' = Promised(s) \ Part(R, s)
    BY GivenUpPart DEF GiveBack
  <2>2. Cardinality(Part(R, s)) \in Nat
    BY <2>1, PromisedCounts
  <2>3. shelf'[s] = shelf[s] + Cardinality(Part(R, s))
    BY DEF GiveBack, Part
  <2>4. shelf[s] \in Int /\ shelf[s] >= 0
    BY DEF LedgerType, NeverOversold
  <2>5. shelf'[s] \in Int /\ 0 <= shelf'[s] /\ shelf'[s] <= shelf[s] + Cardinality(Part(R, s))
    BY <2>2, <2>3, <2>4
  <2>6. shelf'[s] + Cardinality(Promised(s)') <= Quantity[s]
    BY <2>1, <2>5, PromisesLess
  <2>7. QED
    BY <2>5, <2>6
<1>2. LedgerType'
  <2>1. shelf' \in [Sales -> Int]
    BY <1>1 DEF GiveBack
  <2>2. claim' \in [Resvs -> {"none", "cart", "sold", "gone"}]
    BY DEF GiveBack, GivenUp, LedgerType
  <2>3. QED
    BY <2>1, <2>2 DEF LedgerType
<1>3. QED
  BY <1>1, <1>2 DEF NeverOversold, Promised

\* What is withdrawn leaves the shelf empty or as it was, and promises less.
LEMMA WithdrawKeeps ==
    ASSUME Rows, LedgerType, NeverOversold,
           NEW S \in SUBSET Sales, NEW R \in SUBSET InCarts,
           claim' = GivenUp(R),
           shelf' = [s \in Sales |-> IF s \in S THEN 0 ELSE shelf[s]]
    PROVE  LedgerType' /\ NeverOversold'
<1>1. ASSUME NEW s \in Sales
      PROVE  /\ shelf'[s] \in Int /\ shelf'[s] >= 0
             /\ shelf'[s] + Cardinality(Promised(s)') <= Quantity[s]
  <2>1. Part(R, s) \in SUBSET Promised(s) /\ Promised(s)' = Promised(s) \ Part(R, s)
    BY GivenUpPart
  <2>2. Cardinality(Part(R, s)) \in Nat
    BY <2>1, PromisedCounts
  <2>3. shelf[s] \in Int /\ shelf[s] >= 0
    BY DEF LedgerType, NeverOversold
  <2>4. shelf'[s] \in Int /\ 0 <= shelf'[s] /\ shelf'[s] <= shelf[s] + Cardinality(Part(R, s))
    BY <2>2, <2>3
  <2>5. shelf'[s] + Cardinality(Promised(s)') <= Quantity[s]
    BY <2>1, <2>4, PromisesLess
  <2>6. QED
    BY <2>4, <2>5
<1>2. LedgerType'
  BY <1>1 DEF LedgerType, GivenUp
<1>3. QED
  BY <1>1, <1>2 DEF NeverOversold, Promised

\* Payments are settled: a cart's unit is sold, or gone with it.
LEMMA SettlingKeeps ==
    ASSUME Rows, LedgerType, NeverOversold, NEW r \in Resvs, Sell(r) \/ Forfeit(r)
    PROVE  LedgerType' /\ NeverOversold'
<1>1. CASE Sell(r)
  <2>1. shelf' = shelf /\ LedgerType'
    BY <1>1 DEF Sell, LedgerType
  <2>2. \A s \in Sales : Promised(s)' = Promised(s)
    BY <1>1 DEF Sell, LedgerType, Claims, Promised
  <2>3. QED
    BY <2>1, <2>2 DEF NeverOversold, Promised
<1>2. CASE Forfeit(r)
  <2>1. {r} \in SUBSET InCarts /\ claim' = GivenUp({r})
    BY <1>2 DEF Forfeit, InCarts
  <2>2. PICK S \in SUBSET Sales : S = {}
    OBVIOUS
  <2>3. shelf' = [s \in Sales |-> IF s \in S THEN 0 ELSE shelf[s]]
    BY <1>2, <2>2 DEF Forfeit, LedgerType
  <2>4. QED
    BY ONLY Rows, LedgerType, NeverOversold, <2>1, <2>3, WithdrawKeeps
<1>3. QED
  BY <1>1, <1>2

\* Whatever the order of the moves: the units on the shelf, in carts and sold
\* never exceed what the shop put on sale (docs/acceptance.md:81).
THEOREM LedgerNeverOversold ==
    ASSUME Rows
    PROVE  Spec => []NeverOversold
<1>1. Init => LedgerType /\ NeverOversold
  <2> SUFFICES ASSUME Init PROVE LedgerType /\ NeverOversold
    OBVIOUS
  <2>1. LedgerType
    BY DEF Init, LedgerType, Rows
  <2>2. \A s \in Sales : Promised(s) = {} /\ shelf[s] = Quantity[s]
    BY DEF Init, Promised, Claims
  <2>3. QED
    BY <2>1, <2>2, FS_EmptySet DEF NeverOversold, Promised, Rows
<1>2. LedgerType /\ NeverOversold /\ [Next]_vars => LedgerType' /\ NeverOversold'
  <2> SUFFICES ASSUME LedgerType, NeverOversold, [Next]_vars
               PROVE  LedgerType' /\ NeverOversold'
    OBVIOUS
  <2>1. ASSUME NEW r \in Resvs, NEW L \in SUBSET InCarts, Reserve(r, L)
        PROVE  LedgerType' /\ NeverOversold'
    BY <2>1, ReserveKeeps
  <2>2. ASSUME NEW R \in SUBSET InCarts, GiveBack(R)
        PROVE  LedgerType' /\ NeverOversold'
    BY <2>2, GiveBackKeeps
  <2>3. ASSUME NEW r \in Resvs, Sell(r) \/ Forfeit(r)
        PROVE  LedgerType' /\ NeverOversold'
    BY <2>3, SettlingKeeps
  <2>4. ASSUME NEW S \in SUBSET Sales, NEW R \in SUBSET InCarts, Withdraw(S, R)
        PROVE  LedgerType' /\ NeverOversold'
    BY <2>4, WithdrawKeeps DEF Withdraw
  <2>5. CASE UNCHANGED vars
    BY <2>5 DEF vars, LedgerType, NeverOversold, Claims
  <2>6. QED
    BY <2>1, <2>2, <2>3, <2>4, <2>5 DEF Next
<1>3. QED
  BY <1>1, <1>2, PTL DEF Spec

=============================================================================
