------------------------ MODULE FlashSaleLedgerProofs ------------------------
(***************************************************************************)
(* FlashSale implements SaleLedger: every transaction of the code that     *)
(* commits is one move of the ledger, or leaves it alone.  And a sale that *)
(* has ended is empty, while no decline comes late.                        *)
(***************************************************************************)
EXTENDS FlashSaleProofs

(***************************************************************************)
(* A sweep touches reservations of the sales it has locked only, so that   *)
(* what it clears is withdrawn with its sale.                              *)
(***************************************************************************)
SweepScope ==
    \A w \in Workers :
        /\ pc[w] \in {"idle", "swept"} => todo[w] = {}
        /\ pc[w] = "sweep" =>
              /\ due[w] \subseteq saleLocks[w]
              /\ \A r \in todo[w] \cup rowLocks[w] : SaleOf[r] \in saleLocks[w]

LEMMA ScopeInit == Init => SweepScope
  BY DEF Init, SweepScope, Procs

\* A session that closes or is not sweeping afterwards.
LEMMA ScopeElsewhere ==
    ASSUME TypeOK, SweepScope, NEW p \in Procs, pc'[p] # "sweep",
           pc'[p] \in {"idle", "swept"} => todo'[p] = {},
           \A q \in Procs \ {p} : /\ pc'[q] = pc[q] /\ due'[q] = due[q]
                                  /\ todo'[q] = todo[q]
                                  /\ rowLocks'[q] = rowLocks[q]
                                  /\ saleLocks'[q] = saleLocks[q]
    PROVE  SweepScope'
  BY DEF SweepScope, Procs

LEMMA ScopeClose ==
    ASSUME TypeOK, SweepScope, NEW p \in Procs, Close(p)
    PROVE  SweepScope'
<1>1. /\ pc'[p] # "sweep"
      /\ pc'[p] \in {"idle", "swept"} => todo'[p] = {}
      /\ \A q \in Procs \ {p} : /\ pc'[q] = pc[q] /\ due'[q] = due[q]
                                /\ todo'[q] = todo[q]
                                /\ rowLocks'[q] = rowLocks[q]
                                /\ saleLocks'[q] = saleLocks[q]
  BY DEF Close, TypeOK
<1> QED
  BY <1>1, ScopeElsewhere

LEMMA ScopeRequest ==
    ASSUME TypeOK, SweepScope, NEW t \in Txns, Request(t)
    PROVE  SweepScope'
<1> t \in Procs
  BY DEF Procs
<1>1. ASSUME NEW r \in Resvs, ReserveLapse(t, r) \/ ReleaseLock(t, r) \/ OrderRead(t, r)
      PROVE  SweepScope'
  <2>1. /\ pc'[t] # "sweep"
        /\ pc'[t] \in {"idle", "swept"} => todo'[t] = {}
        /\ \A q \in Procs \ {t} : /\ pc'[q] = pc[q] /\ due'[q] = due[q]
                                  /\ todo'[q] = todo[q]
                                  /\ rowLocks'[q] = rowLocks[q]
                                  /\ saleLocks'[q] = saleLocks[q]
    BY <1>1 DEF ReserveLapse, ReleaseLock, OrderRead, TypeOK
  <2> QED
    BY <2>1, ScopeElsewhere
<1>2. CASE RequestStep(t)
  BY <1>2, ScopeClose DEF RequestStep, ReserveCommit, ReserveRefused,
     ReleaseCommit, OrderInsert, OrderConflict
<1> QED
  BY <1>1, <1>2 DEF Request

LEMMA ScopeTick ==
    ASSUME TypeOK, SweepScope, LockedRowsHeld, NEW w \in Workers, Tick(w)
    PROVE  SweepScope'
<1> w \in Procs
  BY DEF Procs
<1>1. CASE SweepSelect(w)
  <2>1. PICK ended \in SUBSET Sales :
          /\ saleLocks' = [saleLocks EXCEPT ![w] = ended]
          /\ due' = [due EXCEPT ![w] = ended]
    BY <1>1 DEF SweepSelect
  <2>2. /\ pc' = [pc EXCEPT ![w] = "swept"] \/ pc' = [pc EXCEPT ![w] = "sweep"]
        /\ UNCHANGED <<rowLocks, todo>>
        /\ rowLocks[w] = {}
    BY <1>1 DEF SweepSelect, LockedRowsHeld, Idle
  <2>3. todo[w] = {}
    BY <1>1 DEF SweepSelect, SweepScope, Idle
  <2> QED
    BY <2>1, <2>2, <2>3 DEF SweepScope, TypeOK, Procs
<1>2. ASSUME NEW s \in Sales, SweepSale(w, s) PROVE SweepScope'
  BY <1>2 DEF SweepSale, SweepScope, TypeOK, Procs
<1>3. ASSUME NEW r \in Resvs, SweepClear(w, r) \/ SweepSkip(w, r) PROVE SweepScope'
  BY <1>3 DEF SweepClear, SweepSkip, SweepScope, TypeOK, Procs
<1>4. CASE SweepCommit(w) \/ ExpireSelect(w)
  <2>1. /\ pc'[w] # "sweep"
        /\ pc'[w] \in {"idle", "swept"} => todo'[w] = {}
        /\ \A q \in Procs \ {w} : /\ pc'[q] = pc[q] /\ due'[q] = due[q]
                                  /\ todo'[q] = todo[q]
                                  /\ rowLocks'[q] = rowLocks[q]
                                  /\ saleLocks'[q] = saleLocks[q]
    BY <1>4 DEF SweepCommit, ExpireSelect, Close, TypeOK
  <2> QED
    BY <2>1, ScopeElsewhere
<1>5. ASSUME NEW r \in Resvs, ExpireReturn(w, r) PROVE SweepScope'
  BY <1>5 DEF ExpireReturn, SweepScope, TypeOK, Procs
<1>6. CASE ExpireCommit(w)
  BY <1>6, ScopeClose DEF ExpireCommit
<1> QED
  BY <1>1, <1>2, <1>3, <1>4, <1>5, <1>6 DEF Tick

LEMMA ScopeNext ==
    ASSUME TypeOK, LockedRowsHeld, SweepScope, [Next]_vars
    PROVE  SweepScope'
<1>1. CASE Advance \/ UNCHANGED vars
  BY <1>1 DEF Advance, vars, session, SweepScope
<1>2. ASSUME NEW p \in Pays, Payment(p) PROVE SweepScope'
  BY <1>2 DEF Payment, StartPayment, ApplyApproved, ApplyDeclined, session, SweepScope
<1>3. ASSUME NEW p \in Procs, Rollback(p) \/ DeadlockVictim(p) PROVE SweepScope'
  BY <1>3, ScopeClose DEF Rollback, DeadlockVictim, Abort
<1> QED
  BY <1>1, <1>2, <1>3, ScopeRequest, ScopeTick DEF Next

-----------------------------------------------------------------------------
(***************************************************************************)
(* The refinement mapping, step by step.                                   *)
(***************************************************************************)
LEMMA ClaimValues ==
    /\ Claim \in [Resvs -> {"none", "cart", "sold", "gone"}]
    /\ \A r \in Resvs :
        /\ rstat[r] = "absent" => Claim[r] = "none"
        /\ rstat[r] \in {"held", "paying"} => Claim[r] = "cart"
        /\ rstat[r] = "sold" => Claim[r] = "sold"
        /\ rstat[r] \in Dead => Claim[r] = "gone"
  BY DEF Claim, ActiveResv, Dead

LEMMA ClaimValuesNext ==
    /\ Claim' \in [Resvs -> {"none", "cart", "sold", "gone"}]
    /\ \A r \in Resvs :
        /\ rstat'[r] = "absent" => Claim'[r] = "none"
        /\ rstat'[r] \in {"held", "paying"} => Claim'[r] = "cart"
        /\ rstat'[r] = "sold" => Claim'[r] = "sold"
        /\ rstat'[r] \in Dead => Claim'[r] = "gone"
  BY DEF Claim, ActiveResv, Dead

\* What giving holds up, and taking others, looks like in the ledger.
LEMMA ClaimGiveUp ==
    ASSUME TypeOK, TypeOK', NEW R, NEW st, NEW N, GiveUp(R, st, N)
    PROVE  /\ R \in SUBSET Ledger!InCarts
           /\ \A r \in N : Claim[r] = "none"
           /\ Claim' = [r \in Resvs |-> IF r \in N THEN "cart"
                                        ELSE IF r \in R THEN "gone" ELSE Claim[r]]
<1>1. R \in SUBSET Ledger!InCarts /\ \A r \in N : Claim[r] = "none"
  BY ClaimValues DEF GiveUp, Ledger!InCarts
<1>2. ASSUME NEW r \in Resvs
      PROVE  Claim'[r] = IF r \in N THEN "cart"
                         ELSE IF r \in R THEN "gone" ELSE Claim[r]
  <2>1. CASE r \in N
    BY <2>1, ClaimValuesNext DEF GiveUp
  <2>2. CASE r \notin N /\ r \in R
    BY <2>2, ClaimValuesNext DEF GiveUp
  <2>3. CASE r \notin N /\ r \notin R
    <3>1. rstat'[r] = rstat[r]
      BY <2>3 DEF GiveUp
    <3> QED
      BY <2>3, <3>1 DEF Claim
  <2> QED
    BY <2>1, <2>2, <2>3
<1> QED
  BY <1>1, <1>2, ClaimValuesNext

\* The ledger counts sets as the code's model does.
LEMMA SameCount == \A S : Ledger!Cardinality(S) = Cardinality(S)
  BY DEF Ledger!Cardinality, Cardinality

\* Release and expiry give carts back; the units go back to their shelves.
LEMMA MapsGiveBack ==
    ASSUME TypeOK, TypeOK', NEW R, NEW st, GiveUp(R, st, {}),
           \A s \in Sales :
              avail'[s] = avail[s] + Cardinality({r \in R : SaleOf[r] = s})
    PROVE  Ledger!Next
<1>1. /\ R \in SUBSET Ledger!InCarts
      /\ Claim' = [r \in Resvs |-> IF r \in R THEN "gone" ELSE Claim[r]]
  BY ClaimGiveUp
<1>2. avail' = [s \in Sales |->
                  avail[s] + Cardinality({r \in R : SaleOf[r] = s})]
  BY DEF TypeOK
<1>3. Ledger!GiveBack(R)
  BY <1>1, <1>2, SameCount DEF Ledger!GiveBack, Ledger!GivenUp
<1> QED
  BY <1>1, <1>3 DEF Ledger!Next

LEMMA MapsReserve ==
    ASSUME TypeOK, TypeOK', LockedRowsHeld, NEW t \in Txns, ReserveCommit(t)
    PROVE  Ledger!Next
<1> DEFINE r == target[t]
           L == rowLocks[t]
<1>1. /\ r \in Resvs
      /\ \A l \in L : SaleOf[l] = SaleOf[r]
  BY DEF TypeOK, LockedRowsHeld, ReserveCommit, Procs
<1>2. GiveUp(L, "expired", {r})
  BY GivingUp
<1>3. /\ L \in SUBSET Ledger!InCarts
      /\ Claim[r] = "none"
      /\ Claim' = [x \in Resvs |-> IF x \in {r} THEN "cart"
                                   ELSE IF x \in L THEN "gone" ELSE Claim[x]]
  BY <1>2, ClaimGiveUp
<1>4. /\ avail' = [avail EXCEPT ![SaleOf[r]] = @ + Cardinality(L) - 1]
      /\ avail[SaleOf[r]] + Cardinality(L) > 0
  BY DEF ReserveCommit, UnitToTake
<1> HIDE DEF r, L
<1>5. Claim' = [Ledger!GivenUp(L) EXCEPT ![r] = "cart"]
  BY <1>1, <1>3 DEF Ledger!GivenUp
<1>6. L \subseteq Ledger!Claims("cart", SaleOf[r])
  BY <1>1, <1>3 DEF Ledger!Claims, Ledger!InCarts
<1>7. Ledger!Reserve(r, L)
  BY <1>3, <1>4, <1>5, <1>6, SameCount DEF Ledger!Reserve, Ledger!StockLeft
<1> QED
  BY <1>1, <1>3, <1>7 DEF Ledger!Next

LEMMA MapsRelease ==
    ASSUME TypeOK, TypeOK', LockedRowsHeld, NEW t \in Txns, ReleaseCommit(t)
    PROVE  Ledger!Next
<1>1. GiveUp({target[t]}, "released", {})
  BY GivingUp
<1>2. ASSUME NEW s \in Sales
      PROVE  avail'[s] = avail[s] + Cardinality({r \in {target[t]} : SaleOf[r] = s})
  <2>1. CASE SaleOf[target[t]] = s
    <3>1. {r \in {target[t]} : SaleOf[r] = s} = {target[t]}
      BY <2>1
    <3> QED
      BY <2>1, <3>1, FS_Singleton DEF ReleaseCommit, TypeOK
  <2>2. CASE SaleOf[target[t]] # s
    <3>1. {r \in {target[t]} : SaleOf[r] = s} = {}
      BY <2>2
    <3>2. avail'[s] = avail[s] /\ avail[s] \in Int
      BY <2>2 DEF ReleaseCommit, TypeOK
    <3> QED
      BY <3>1, <3>2, FS_EmptySet
  <2> QED
    BY <2>1, <2>2
<1> QED
  BY <1>1, <1>2, MapsGiveBack

LEMMA MapsSweep ==
    ASSUME TypeOK, TypeOK', LockedRowsHeld, SweepScope,
           NEW w \in Workers, SweepCommit(w)
    PROVE  Ledger!Next
<1> DEFINE S == saleLocks[w]
           R == rowLocks[w]
<1>1. S \in SUBSET Sales /\ \A r \in R : SaleOf[r] \in S
  BY DEF TypeOK, SweepScope, SweepCommit, Procs
<1>2. GiveUp(R, "cleared", {})
  BY GivingUp
<1>3. /\ R \in SUBSET Ledger!InCarts
      /\ Claim' = [r \in Resvs |-> IF r \in R THEN "gone" ELSE Claim[r]]
  BY <1>2, ClaimGiveUp
<1>4. avail' = [s \in Sales |-> IF s \in S THEN 0 ELSE avail[s]]
  BY DEF SweepCommit
<1> HIDE DEF S, R
<1>5. Ledger!Withdraw(S, R)
  BY <1>1, <1>3, <1>4 DEF Ledger!Withdraw, Ledger!GivenUp
<1> QED
  BY <1>1, <1>3, <1>5 DEF Ledger!Next

LEMMA MapsPayment ==
    ASSUME TypeOK, TypeOK', Settlement, NEW p \in Pays,
           StartPayment(p) \/ ApplyApproved(p) \/ ApplyDeclined(p)
    PROVE  Ledger!Next \/ UNCHANGED Ledger!vars
<1> DEFINE r == OrderOf[p]
<1>1. r \in Resvs
  BY LabelsAssumption
<1>2. avail' = avail
  BY DEF StartPayment, ApplyApproved, ApplyDeclined
<1>3. ASSUME \A x \in Resvs : Claim'[x] = Claim[x]
      PROVE  UNCHANGED Ledger!vars
  BY <1>2, <1>3, ClaimValues, ClaimValuesNext DEF Ledger!vars
<1>4. CASE StartPayment(p)
  <2>1. \A x \in Resvs :
            rstat'[x] = rstat[x] \/ (rstat[x] = "held" /\ rstat'[x] = "paying")
    BY <1>4 DEF StartPayment, HoldLive, TypeOK
  <2>2. \A x \in Resvs : Claim'[x] = Claim[x]
    BY <2>1 DEF Claim, ActiveResv
  <2> QED
    BY <1>3, <2>2
<1>5. ASSUME ApplyApproved(p) \/ ApplyDeclined(p)
      PROVE  rstat[r] = "paying" /\ order[r] = "pending"
  BY <1>1, <1>5 DEF ApplyApproved, ApplyDeclined, Settlement, PayingIffPending
<1>6. CASE ApplyApproved(p)
  <2>1. rstat' = [rstat EXCEPT ![r] = "sold"]
    BY <1>5, <1>6 DEF ApplyApproved
  <2>2. Claim[r] = "cart"
    BY <1>1, <1>5, <1>6, ClaimValues
  <2>3. \A x \in Resvs : Claim'[x] = IF x = r THEN "sold" ELSE Claim[x]
    BY <1>1, <2>1 DEF Claim, ActiveResv, TypeOK
  <2> HIDE DEF r
  <2>4. Claim' = [Claim EXCEPT ![r] = "sold"]
    BY <2>3, ClaimValues, ClaimValuesNext
  <2>5. Ledger!Sell(r)
    BY <1>2, <2>2, <2>4 DEF Ledger!Sell
  <2> QED
    BY <1>1, <2>5 DEF Ledger!Next
<1>7. CASE ApplyDeclined(p)
  <2>1. \/ \A x \in Resvs : rstat'[x] = IF x = r THEN "held" ELSE rstat[x]
        \/ \A x \in Resvs : rstat'[x] = IF x = r THEN "cleared" ELSE rstat[x]
    BY <1>5, <1>7 DEF ApplyDeclined, WithStatus
  <2>2. rstat[r] = "paying" /\ Claim[r] = "cart"
    BY <1>1, <1>5, <1>7, ClaimValues
  <2> HIDE DEF r
  <2>3. CASE \A x \in Resvs : rstat'[x] = IF x = r THEN "held" ELSE rstat[x]
    <3>1. \A x \in Resvs : Claim'[x] = Claim[x]
      BY <2>2, <2>3 DEF Claim, ActiveResv
    <3> QED
      BY <1>3, <3>1
  <2>4. CASE \A x \in Resvs : rstat'[x] = IF x = r THEN "cleared" ELSE rstat[x]
    <3>1. \A x \in Resvs : Claim'[x] = IF x \in {r} THEN "gone" ELSE Claim[x]
      BY <2>4 DEF Claim, ActiveResv
    <3>2. Claim' = Ledger!GivenUp({r})
      BY <3>1, ClaimValuesNext DEF Ledger!GivenUp
    <3>3. Ledger!Forfeit(r)
      BY <1>2, <2>2, <3>2 DEF Ledger!Forfeit
    <3> QED
      BY <1>1, <3>3 DEF Ledger!Next
  <2> QED
    BY <2>1, <2>3, <2>4
<1> QED
  BY <1>4, <1>6, <1>7

LEMMA LedgerStep ==
    ASSUME TypeOK, TypeOK', LockedRowsHeld, Settlement, SweepScope, [Next]_vars
    PROVE  Ledger!Next \/ UNCHANGED Ledger!vars
<1>1. ASSUME rstat' = rstat, avail' = avail PROVE UNCHANGED Ledger!vars
  BY <1>1 DEF Ledger!vars, Claim
<1>2. ASSUME NEW w \in Workers, ExpireCommit(w) PROVE Ledger!Next
  <2>1. GiveUp(rowLocks[w], "expired", {})
    BY <1>2, GivingUp
  <2>2. \A s \in Sales :
          avail'[s] = avail[s] + Cardinality({r \in rowLocks[w] : SaleOf[r] = s})
    BY <1>2 DEF ExpireCommit, WithReturned
  <2> QED
    BY <2>1, <2>2, MapsGiveBack
<1> QED
  BY <1>1, <1>2, WriteOrQuiet, MapsReserve, MapsRelease, MapsSweep, MapsPayment
    DEF Write, OrderInsert, rows

\* Every transaction of the code is one move of the ledger or none: each unit
\* is on the shelf, in one cart or sold, under any interleaving of requests,
\* answers of the stub and sweeps.
THEOREM LedgerImplemented == Spec => ImplementsLedger
<1>1. Init => Ledger!Init
  <2> SUFFICES ASSUME Init PROVE Ledger!Init
    OBVIOUS
  <2>1. Claim = [r \in Resvs |-> "none"]
    BY DEF Init, Claim, ActiveResv
  <2> QED
    BY <2>1 DEF Ledger!Init, Init
<1>2. TypeOK /\ TypeOK' /\ LockedRowsHeld /\ Settlement /\ SweepScope /\ [Next]_vars
        => [Ledger!Next]_Ledger!vars
  BY LedgerStep
<1>3. Spec => []Settlement
  BY SettlementInit, SettlementNext, TypeCorrect, LocksHold, PTL DEF Spec
<1>4. Spec => []SweepScope
  BY ScopeInit, ScopeNext, TypeCorrect, LocksHold, PTL DEF Spec
<1> QED
  BY <1>1, <1>2, <1>3, <1>4, TypeCorrect, LocksHold, PTL
    DEF Spec, ImplementsLedger, Ledger!Spec

-----------------------------------------------------------------------------
(***************************************************************************)
(* The ledger of payments: what giving carts up, starting an attempt and   *)
(* applying a verdict do to it.                                            *)
(***************************************************************************)
LEMMA UnitValues ==
    \A r \in Resvs :
        /\ Unit[r] = "held" <=> rstat[r] \in {"absent", "held"}
        /\ Unit[r] = "paying" <=> rstat[r] = "paying"
        /\ Unit'[r] = "held" <=> rstat'[r] \in {"absent", "held"}
        /\ Unit'[r] = "paying" <=> rstat'[r] = "paying"
        /\ rstat'[r] = "sold" => Unit'[r] = "sold"
        /\ rstat'[r] \in Dead => Unit'[r] = "gone"
        /\ rstat'[r] = rstat[r] => Unit'[r] = Unit[r]
  BY DEF Unit, Dead

\* Both are functions on the reservations.
LEMMA UnitDomain ==
    /\ Unit = [r \in Resvs |-> Unit[r]]
    /\ Unit' = [r \in Resvs |-> Unit'[r]]
  BY DEF Unit

LEMMA PaysGiveUp ==
    ASSUME TypeOK, NEW R, NEW st, NEW N, GiveUp(R, st, N)
    PROVE  Payments!Next
<1>1. R \in SUBSET Resvs /\ \A r \in R : Unit[r] = "held"
  BY UnitValues DEF GiveUp
<1>2. ASSUME NEW r \in Resvs
      PROVE  Unit'[r] = IF r \in R THEN "gone" ELSE Unit[r]
  <2>1. CASE r \in N
    <3>1. rstat[r] = "absent" /\ rstat'[r] = "held" /\ r \notin R
      BY <2>1 DEF GiveUp
    <3> QED
      BY <3>1, UnitValues
  <2>2. CASE r \notin N
    BY <2>2, UnitValues DEF GiveUp
  <2> QED
    BY <2>1, <2>2
<1>3. Unit' = [r \in Resvs |-> IF r \in R THEN "gone" ELSE Unit[r]]
  BY <1>2, UnitDomain
<1>4. Payments!Leave(R)
  BY <1>1, <1>3 DEF Payments!Leave, GiveUp
<1> QED
  BY <1>1, <1>4 DEF Payments!Next

LEMMA PaysPayment ==
    ASSUME TypeOK, Settlement, NEW p \in Pays,
           StartPayment(p) \/ ApplyApproved(p) \/ ApplyDeclined(p)
    PROVE  Payments!Next
<1> DEFINE r == OrderOf[p]
<1>1. r \in Resvs
  BY LabelsAssumption
<1>2. ASSUME NEW u, Unit'[r] = u, \A x \in Resvs \ {r} : rstat'[x] = rstat[x]
      PROVE  Unit' = [Unit EXCEPT ![r] = u]
  <2>1. \A x \in Resvs : Unit'[x] = IF x = r THEN u ELSE Unit[x]
    BY <1>2, UnitValues
  <2> HIDE DEF r
  <2> QED
    BY <1>1, <2>1, UnitDomain
<1>3. CASE StartPayment(p)
  <2>1. rstat[r] = "held" /\ rstat' = [rstat EXCEPT ![r] = "paying"]
    BY <1>3 DEF StartPayment, HoldLive
  <2>2. Unit[r] = "held" /\ Unit' = [Unit EXCEPT ![r] = "paying"]
    BY <1>1, <1>2, <2>1, UnitValues DEF TypeOK
  <2>3. Payments!Ongoing(r) = {}
    BY <1>3 DEF StartPayment, NoPendingPayment, Payments!Ongoing
  <2>4. Payments!Start(p)
    BY <1>3, <2>2, <2>3 DEF Payments!Start, StartPayment
  <2> QED
    BY <2>4 DEF Payments!Next
<1>4. ASSUME ApplyApproved(p) \/ ApplyDeclined(p)
      PROVE  rstat[r] = "paying" /\ order[r] = "pending" /\ Unit[r] = "paying"
  <2>1. rstat[r] = "paying" /\ order[r] = "pending"
    BY <1>1, <1>4 DEF ApplyApproved, ApplyDeclined, Settlement, PayingIffPending
  <2> QED
    BY <1>1, <2>1, UnitValues
<1>5. CASE ApplyApproved(p)
  <2>1. rstat' = [rstat EXCEPT ![r] = "sold"]
    BY <1>4, <1>5 DEF ApplyApproved
  <2>2. Unit' = [Unit EXCEPT ![r] = "sold"]
    BY <1>1, <1>2, <2>1, UnitValues DEF TypeOK
  <2>3. Payments!Settle(p, "approved")
    BY <1>4, <1>5, <2>2 DEF Payments!Settle, Payments!After, ApplyApproved
  <2> QED
    BY <2>3 DEF Payments!Next, Payments!Verdicts
<1>6. CASE ApplyDeclined(p)
  <2>1. \/ \A x \in Resvs : rstat'[x] = IF x = r THEN "held" ELSE rstat[x]
        \/ \A x \in Resvs : rstat'[x] = IF x = r THEN "cleared" ELSE rstat[x]
    BY <1>4, <1>6 DEF ApplyDeclined, WithStatus
  <2>2. Unit'[r] \in {"held", "gone"} /\ \A x \in Resvs \ {r} : rstat'[x] = rstat[x]
    BY <1>1, <2>1, UnitValues DEF Dead
  <2>3. \E u \in {"held", "gone"} : Unit' = [Unit EXCEPT ![r] = u]
    BY <1>2, <2>2
  <2>4. Payments!Settle(p, "declined")
    BY <1>4, <1>6, <2>3 DEF Payments!Settle, Payments!After, ApplyDeclined
  <2> QED
    BY <2>4 DEF Payments!Next, Payments!Verdicts
<1> QED
  BY <1>3, <1>5, <1>6

LEMMA PaymentsStep ==
    ASSUME TypeOK, LockedRowsHeld, Settlement, [Next]_vars
    PROVE  Payments!Next \/ UNCHANGED Payments!vars
<1>1. ASSUME rstat' = rstat, pay' = pay PROVE UNCHANGED Payments!vars
  BY <1>1 DEF Payments!vars, Unit
<1>2. CASE UNCHANGED rows \/ \E t \in Txns : OrderInsert(t)
  BY <1>1, <1>2 DEF rows, OrderInsert
<1>3. ASSUME NEW t \in Txns, ReserveCommit(t) \/ ReleaseCommit(t) PROVE Payments!Next
  BY <1>3, GivingUp, PaysGiveUp
<1>4. ASSUME NEW w \in Workers, SweepCommit(w) \/ ExpireCommit(w) PROVE Payments!Next
  BY <1>4, GivingUp, PaysGiveUp
<1> QED
  BY <1>2, <1>3, <1>4, WriteOrQuiet, PaysPayment DEF Write

\* The transactions of the code, with their locks, sweeps and stale reads, do
\* to a unit and its attempts what the ledger of payments allows and no more
\* (payments.py:61-78, 128-197).
THEOREM PaymentsImplemented == Spec => ImplementsPayments
<1>1. Init => Payments!Init
  <2> SUFFICES ASSUME Init PROVE Payments!Init
    OBVIOUS
  <2>1. Unit = [r \in Resvs |-> "held"]
    BY DEF Init, Unit
  <2> QED
    BY <2>1 DEF Payments!Init, Init
<1>2. TypeOK /\ LockedRowsHeld /\ Settlement /\ [Next]_vars
        => [Payments!Next]_Payments!vars
  BY PaymentsStep
<1>3. Spec => []Settlement
  BY SettlementInit, SettlementNext, TypeCorrect, LocksHold, PTL DEF Spec
<1> QED
  BY <1>1, <1>2, <1>3, TypeCorrect, LocksHold, PTL
    DEF Spec, ImplementsPayments, Payments!Spec

-----------------------------------------------------------------------------
(***************************************************************************)
(* A sale that has ended is empty.  A sale row has one owner; a sweep has  *)
(* seen, or has still to read, every hold of the sales it has locked.      *)
(***************************************************************************)
SaleLocksOwned ==
    /\ \A p \in Procs : pc[p] \notin {"sweep", "expire"} => saleLocks[p] = {}
    /\ \A p, q \in Procs : p # q => saleLocks[p] \cap saleLocks[q] = {}

SweepCovers ==
    \A w \in Workers : pc[w] = "sweep" =>
        \A s \in saleLocks[w] :
            /\ sstat[s] = "active"
            /\ \/ s \in due[w]
               \/ \A r \in Resvs : SaleOf[r] = s /\ rstat[r] = "held"
                                     => r \in todo[w] \cup rowLocks[w]

EndedEmpty == EndedWithdrawn /\ SweptSaleEmpty

Swept == SaleLocksOwned /\ SweepCovers /\ EndedEmpty

LEMMA OwnedClose ==
    ASSUME TypeOK, SaleLocksOwned, NEW p \in Procs, Close(p)
    PROVE  SaleLocksOwned'
  BY DEF Close, TypeOK, SaleLocksOwned

LEMMA OwnedTick ==
    ASSUME TypeOK, LockedRowsHeld, SaleLocksOwned, NEW w \in Workers, Tick(w)
    PROVE  SaleLocksOwned'
<1> w \in Procs
  BY DEF Procs
<1>1. CASE SweepSelect(w)
  <2>1. PICK ended \in SUBSET Sales :
          /\ \A s \in ended : SaleFree(w, s)
          /\ saleLocks' = [saleLocks EXCEPT ![w] = ended]
          /\ pc' = [pc EXCEPT ![w] = IF ended = {} THEN "swept" ELSE "sweep"]
    BY <1>1 DEF SweepSelect
  <2> QED
    BY <2>1 DEF SaleFree, SaleLocksOwned, TypeOK
<1>2. ASSUME NEW s \in Sales, SweepSale(w, s) PROVE SaleLocksOwned'
  BY <1>2 DEF SweepSale, SaleLocksOwned
<1>3. ASSUME NEW r \in Resvs, SweepClear(w, r) \/ SweepSkip(w, r)
      PROVE  SaleLocksOwned'
  BY <1>3 DEF SweepClear, SweepSkip, SaleLocksOwned
<1>4. CASE SweepCommit(w)
  BY <1>4 DEF SweepCommit, SaleLocksOwned, TypeOK
<1>5. CASE ExpireSelect(w)
  <2>1. \/ Close(w)
        \/ pc' = [pc EXCEPT ![w] = "expire"] /\ saleLocks' = saleLocks
    BY <1>5 DEF ExpireSelect
  <2>2. ASSUME pc' = [pc EXCEPT ![w] = "expire"], saleLocks' = saleLocks
        PROVE  SaleLocksOwned'
    BY <2>2 DEF SaleLocksOwned, TypeOK
  <2> QED
    BY <2>1, <2>2, OwnedClose
<1>6. ASSUME NEW r \in Resvs, ExpireReturn(w, r) PROVE SaleLocksOwned'
  BY <1>6 DEF ExpireReturn, SaleFree, SaleLocksOwned, TypeOK
<1>7. CASE ExpireCommit(w)
  BY <1>7, OwnedClose DEF ExpireCommit
<1> QED
  BY <1>1, <1>2, <1>3, <1>4, <1>5, <1>6, <1>7 DEF Tick

LEMMA OwnedNext ==
    ASSUME TypeOK, LockedRowsHeld, SaleLocksOwned, [Next]_vars
    PROVE  SaleLocksOwned'
<1>1. CASE Advance \/ UNCHANGED vars
  BY <1>1 DEF Advance, vars, session, SaleLocksOwned
<1>2. ASSUME NEW p \in Pays, Payment(p) PROVE SaleLocksOwned'
  BY <1>2 DEF Payment, StartPayment, ApplyApproved, ApplyDeclined, session,
     SaleLocksOwned
<1>3. ASSUME NEW p \in Procs, Rollback(p) \/ DeadlockVictim(p)
      PROVE  SaleLocksOwned'
  BY <1>3, OwnedClose DEF Rollback, DeadlockVictim, Abort
<1>4. ASSUME NEW t \in Txns, Request(t) PROVE SaleLocksOwned'
  <2> t \in Procs
    BY DEF Procs
  <2>1. ASSUME NEW r \in Resvs, ReserveLapse(t, r) \/ ReleaseLock(t, r) \/ OrderRead(t, r)
        PROVE  SaleLocksOwned'
    BY <2>1 DEF ReserveLapse, ReleaseLock, OrderRead, Idle, TypeOK, SaleLocksOwned
  <2>2. CASE RequestStep(t)
    BY <2>2, OwnedClose DEF RequestStep, ReserveCommit, ReserveRefused,
       ReleaseCommit, OrderInsert, OrderConflict
  <2> QED
    BY <1>4, <2>1, <2>2 DEF Request
<1> QED
  BY <1>1, <1>2, <1>3, <1>4, OwnedTick DEF Next

\* No decline puts a reservation back on a sale that has ended or that a sweep
\* is about to end: payments.py:187 compares the end with the "now" the
\* transaction read first, which is old when the transaction waited.
PromptDecline ==
    \A r \in Resvs :
        rstat[r] = "paying" /\ rstat'[r] = "held" =>
            /\ sstat[SaleOf[r]] = "active"
            /\ \A w \in Workers : pc[w] = "sweep" => SaleOf[r] \notin saleLocks[w]

\* What others must leave alone for the sweeps to go on covering their sales.
LEMMA CoversElsewhere ==
    ASSUME SweepCovers, NEW p, pc'[p] # "sweep",
           \A q \in Workers \ {p} : /\ pc'[q] = pc[q] /\ due'[q] = due[q]
                                    /\ todo'[q] = todo[q]
                                    /\ rowLocks'[q] = rowLocks[q]
                                    /\ saleLocks'[q] = saleLocks[q],
           \A w \in Workers \ {p} : pc[w] = "sweep" =>
              \A s \in saleLocks[w] :
                 /\ sstat'[s] = sstat[s]
                 /\ \A r \in Resvs : SaleOf[r] = s /\ rstat'[r] = "held"
                                       => rstat[r] = "held"
    PROVE  SweepCovers'
  BY DEF SweepCovers

LEMMA CoversGiveUp ==
    ASSUME TypeOK, SweepCovers, SaleLocksOwned, NEW p \in Procs,
           NEW st \in {"idle", "swept"},
           pc' = [pc EXCEPT ![p] = st],
           \A q \in Procs \ {p} : /\ due'[q] = due[q] /\ todo'[q] = todo[q]
                                  /\ rowLocks'[q] = rowLocks[q]
                                  /\ saleLocks'[q] = saleLocks[q],
           \A s \in Sales \ saleLocks[p] : sstat'[s] = sstat[s],
           \A r \in Resvs : rstat'[r] = "held" =>
              \/ rstat[r] = "held"
              \/ \A q \in Procs \ {p} : SaleOf[r] \notin saleLocks[q]
    PROVE  SweepCovers'
<1>1. pc'[p] # "sweep" /\ \A q \in Procs \ {p} : pc'[q] = pc[q]
  BY DEF TypeOK
<1>2. ASSUME NEW w \in Workers \ {p}, NEW s \in saleLocks[w]
      PROVE  /\ sstat'[s] = sstat[s]
             /\ \A r \in Resvs : SaleOf[r] = s /\ rstat'[r] = "held"
                                   => rstat[r] = "held"
  <2>1. w \in Procs /\ s \in Sales /\ s \notin saleLocks[p]
    BY DEF TypeOK, SaleLocksOwned, Procs
  <2> QED
    BY <2>1
<1>3. Workers \subseteq Procs
  BY DEF Procs
<1> QED
  BY <1>1, <1>2, <1>3, CoversElsewhere

LEMMA CoversRequest ==
    ASSUME TypeOK, LockedRowsHeld, SaleLocksOwned, SweepCovers,
           NEW t \in Txns, Request(t)
    PROVE  SweepCovers'
<1> t \in Procs /\ t \notin Workers /\ Workers \subseteq Procs
  BY SessionsAssumption DEF Procs
<1>1. ASSUME NEW r \in Resvs, ReserveLapse(t, r) \/ ReleaseLock(t, r) \/ OrderRead(t, r)
      PROVE  SweepCovers'
  BY <1>1 DEF ReserveLapse, ReleaseLock, OrderRead, rows, TypeOK, SweepCovers
<1>2. CASE RequestStep(t)
  <2>1. /\ Close(t) /\ sstat' = sstat
        /\ \A r \in Resvs : rstat'[r] = "held" =>
              \/ rstat[r] = "held"
              \/ \A q \in Procs \ {t} : SaleOf[r] \notin saleLocks[q]
    <3>1. CASE ReserveRefused(t) \/ OrderInsert(t) \/ OrderConflict(t)
      BY <3>1 DEF ReserveRefused, OrderInsert, OrderConflict, rows
    <3>2. CASE ReserveCommit(t)
      <4>1. GiveUp(rowLocks[t], "expired", {target[t]})
        BY <3>2, GivingUp
      <4>2. SaleFree(t, SaleOf[target[t]])
        BY <3>2 DEF ReserveCommit
      <4>3. Close(t) /\ sstat' = sstat
        BY <3>2 DEF ReserveCommit
      <4> QED
        BY <4>1, <4>2, <4>3 DEF GiveUp, Dead, SaleFree
    <3>3. CASE ReleaseCommit(t)
      <4>1. GiveUp({target[t]}, "released", {})
        BY <3>3, GivingUp
      <4>2. Close(t) /\ sstat' = sstat
        BY <3>3 DEF ReleaseCommit
      <4> QED
        BY <4>1, <4>2 DEF GiveUp, Dead
    <3> QED
      BY <1>2, <3>1, <3>2, <3>3 DEF RequestStep
  <2>2. /\ pc' = [pc EXCEPT ![t] = "idle"]
        /\ \A q \in Procs \ {t} : /\ due'[q] = due[q] /\ todo'[q] = todo[q]
                                  /\ rowLocks'[q] = rowLocks[q]
                                  /\ saleLocks'[q] = saleLocks[q]
    BY <2>1 DEF Close, TypeOK
  <2> QED
    BY <2>1, <2>2, CoversGiveUp
<1> QED
  BY <1>1, <1>2 DEF Request

LEMMA CoversTick ==
    ASSUME TypeOK, LockedRowsHeld, SaleLocksOwned, SweepCovers,
           NEW w \in Workers, Tick(w)
    PROVE  SweepCovers'
<1> w \in Procs /\ Workers \subseteq Procs
  BY DEF Procs
<1>1. CASE SweepSelect(w)
  <2>1. PICK ended \in SUBSET Sales :
          /\ \A s \in ended : sstat[s] = "active"
          /\ saleLocks' = [saleLocks EXCEPT ![w] = ended]
          /\ due' = [due EXCEPT ![w] = ended]
    BY <1>1 DEF SweepSelect
  <2>2. /\ \A q \in Workers \ {w} : pc'[q] = pc[q]
        /\ UNCHANGED <<sstat, rstat, rowLocks, todo>>
    BY <1>1 DEF SweepSelect, rows, TypeOK
  <2> QED
    BY <2>1, <2>2 DEF SweepCovers, TypeOK
<1>2. ASSUME NEW s \in Sales, SweepSale(w, s) PROVE SweepCovers'
  BY <1>2 DEF SweepSale, rows, TypeOK, SweepCovers
<1>3. ASSUME NEW r \in Resvs, SweepClear(w, r) \/ SweepSkip(w, r)
      PROVE  SweepCovers'
  BY <1>3 DEF SweepClear, SweepSkip, rows, TypeOK, SweepCovers
<1>4. CASE SweepCommit(w)
  <2>1. GiveUp(rowLocks[w], "cleared", {})
    BY <1>4, GivingUp
  <2>2. \A r \in Resvs : rstat'[r] = "held" => rstat[r] = "held"
    BY <2>1 DEF GiveUp, Dead
  <2>3. /\ pc' = [pc EXCEPT ![w] = "swept"]
        /\ \A s \in Sales \ saleLocks[w] : sstat'[s] = sstat[s]
        /\ \A q \in Procs \ {w} : /\ due'[q] = due[q] /\ todo'[q] = todo[q]
                                  /\ rowLocks'[q] = rowLocks[q]
                                  /\ saleLocks'[q] = saleLocks[q]
    BY <1>4 DEF SweepCommit, TypeOK
  <2> QED
    BY <2>2, <2>3, CoversGiveUp
<1>5. CASE ExpireSelect(w)
  <2>1. /\ pc'[w] # "sweep" /\ UNCHANGED rows
        /\ \A q \in Workers \ {w} : /\ pc'[q] = pc[q] /\ due'[q] = due[q]
                                    /\ todo'[q] = todo[q]
                                    /\ rowLocks'[q] = rowLocks[q]
                                    /\ saleLocks'[q] = saleLocks[q]
    BY <1>5 DEF ExpireSelect, Close, TypeOK
  <2> QED
    BY <2>1, CoversElsewhere DEF rows
<1>6. ASSUME NEW r \in Resvs, ExpireReturn(w, r) PROVE SweepCovers'
  BY <1>6 DEF ExpireReturn, rows, TypeOK, SweepCovers
<1>7. CASE ExpireCommit(w)
  <2>1. GiveUp(rowLocks[w], "expired", {})
    BY <1>7, GivingUp
  <2>2. \A r \in Resvs : rstat'[r] = "held" => rstat[r] = "held"
    BY <2>1 DEF GiveUp, Dead
  <2>3. /\ pc' = [pc EXCEPT ![w] = "idle"] /\ sstat' = sstat
        /\ \A q \in Procs \ {w} : /\ due'[q] = due[q] /\ todo'[q] = todo[q]
                                  /\ rowLocks'[q] = rowLocks[q]
                                  /\ saleLocks'[q] = saleLocks[q]
    BY <1>7 DEF ExpireCommit, Close, TypeOK
  <2> QED
    BY <2>2, <2>3, CoversGiveUp
<1> QED
  BY <1>1, <1>2, <1>3, <1>4, <1>5, <1>6, <1>7 DEF Tick

LEMMA CoversNext ==
    ASSUME TypeOK, LockedRowsHeld, SaleLocksOwned, SweepCovers,
           [Next]_vars, [PromptDecline]_vars
    PROVE  SweepCovers'
<1>1. CASE Advance \/ UNCHANGED vars
  BY <1>1 DEF Advance, vars, rows, session, SweepCovers
<1>2. ASSUME NEW p \in Pays, Payment(p) PROVE SweepCovers'
  <2>1. /\ UNCHANGED <<sstat, session>>
        /\ \A r \in Resvs : rstat'[r] = "held" => rstat[r] \in {"held", "paying"}
    BY <1>2, LabelsAssumption DEF Payment, StartPayment, ApplyApproved,
       ApplyDeclined, WithStatus, TypeOK
  <2>2. ASSUME NEW r \in Resvs, rstat'[r] = "held", rstat[r] # "held"
        PROVE  \A w \in Workers : pc[w] = "sweep" => SaleOf[r] \notin saleLocks[w]
    <3>1. rstat[r] = "paying"
      BY <2>1, <2>2
    <3>2. PromptDecline
      BY <2>2 DEF vars, rows
    <3> QED
      BY <2>2, <3>1, <3>2 DEF PromptDecline
  <2> QED
    BY <2>1, <2>2 DEF session, SweepCovers
<1>3. ASSUME NEW p \in Procs, Rollback(p) \/ DeadlockVictim(p)
      PROVE  SweepCovers'
  <2>1. /\ UNCHANGED <<sstat, rstat>>
        /\ pc' = [pc EXCEPT ![p] = "idle"]
        /\ \A q \in Procs \ {p} : /\ due'[q] = due[q] /\ todo'[q] = todo[q]
                                  /\ rowLocks'[q] = rowLocks[q]
                                  /\ saleLocks'[q] = saleLocks[q]
    BY <1>3 DEF Rollback, DeadlockVictim, Abort, Close, rows, TypeOK
  <2> QED
    BY <2>1, CoversGiveUp
<1> QED
  BY <1>1, <1>2, <1>3, CoversRequest, CoversTick DEF Next

LEMMA EndedEmptyNext ==
    ASSUME TypeOK, LockedRowsHeld, Swept, [Next]_vars, [PromptDecline]_vars
    PROVE  EndedEmpty'
<1> USE DEF EndedEmpty, EndedWithdrawn, SweptSaleEmpty
<1>1. ASSUME \A s \in Sales : /\ sstat'[s] = sstat[s]
                              /\ sstat[s] = "ended" => avail'[s] = 0,
             \A r \in Resvs : rstat'[r] = "held" /\ rstat[r] # "held"
                                => sstat[SaleOf[r]] # "ended"
      PROVE  EndedEmpty'
  BY <1>1, LabelsAssumption DEF Swept
<1>2. CASE UNCHANGED rows
  BY <1>1, <1>2 DEF rows, Swept
<1>3. ASSUME NEW t \in Txns, ReserveCommit(t) PROVE EndedEmpty'
  <2> DEFINE r == target[t]
             L == rowLocks[t]
  <2>1. /\ t \in Procs /\ r \in Resvs /\ SaleOf[r] \in Sales
        /\ \A l \in L : /\ l \in Resvs /\ rstat[l] = "held"
                        /\ SaleOf[l] = SaleOf[r]
    <3>1. t \in Procs /\ pc[t] = "reserve"
      BY <1>3 DEF Procs, ReserveCommit
    <3>2. r \in Resvs /\ L \subseteq Resvs
      BY <3>1 DEF TypeOK
    <3> QED
      BY <3>1, <3>2, LabelsAssumption DEF LockedRowsHeld
  <2>2. sstat[SaleOf[r]] # "ended"
    <3> SUFFICES ASSUME sstat[SaleOf[r]] = "ended" PROVE FALSE
      OBVIOUS
    <3>1. avail[SaleOf[r]] = 0 /\ L = {}
      BY <2>1 DEF Swept
    <3> QED
      BY <1>3, <3>1, FS_EmptySet DEF ReserveCommit, UnitToTake
  <2>3. GiveUp(L, "expired", {r})
    BY <1>3, GivingUp
  <2>4. /\ sstat' = sstat
        /\ \A s \in Sales : s # SaleOf[r] => avail'[s] = avail[s]
    BY <1>3 DEF ReserveCommit, TypeOK
  <2> QED
    BY <1>1, <2>2, <2>3, <2>4 DEF GiveUp, Dead, Swept
<1>4. ASSUME NEW t \in Txns, ReleaseCommit(t) PROVE EndedEmpty'
  <2>1. GiveUp({target[t]}, "released", {}) /\ target[t] \in Resvs
    BY <1>4, GivingUp DEF GiveUp
  <2>2. sstat[SaleOf[target[t]]] # "ended"
    BY <2>1 DEF GiveUp, Swept
  <2>3. /\ sstat' = sstat
        /\ \A s \in Sales : s # SaleOf[target[t]] => avail'[s] = avail[s]
    BY <1>4 DEF ReleaseCommit, TypeOK
  <2> QED
    BY <1>1, <2>1, <2>2, <2>3 DEF GiveUp, Dead, Swept
<1>5. ASSUME NEW w \in Workers, ExpireCommit(w) PROVE EndedEmpty'
  <2>1. GiveUp(rowLocks[w], "expired", {})
    BY <1>5, GivingUp
  <2>2. /\ sstat' = sstat
        /\ \A s \in Sales :
             avail'[s] = avail[s] + Cardinality({r \in rowLocks[w] : SaleOf[r] = s})
    BY <1>5 DEF ExpireCommit, WithReturned
  <2>3. ASSUME NEW s \in Sales, sstat[s] = "ended" PROVE avail'[s] = 0
    <3>1. {r \in rowLocks[w] : SaleOf[r] = s} = {}
      BY <2>1, <2>3 DEF GiveUp, Swept
    <3>2. avail[s] = 0
      BY <2>3 DEF Swept
    <3> QED
      BY <2>2, <3>1, <3>2, FS_EmptySet
  <2> QED
    BY <1>1, <2>1, <2>2, <2>3 DEF GiveUp, Dead
<1>6. ASSUME NEW w \in Workers, SweepCommit(w) PROVE EndedEmpty'
  <2>1. GiveUp(rowLocks[w], "cleared", {})
    BY <1>6, GivingUp
  <2>2. /\ pc[w] = "sweep" /\ due[w] = {} /\ todo[w] = {}
        /\ \A s \in Sales :
              /\ sstat'[s] = IF s \in saleLocks[w] THEN "ended" ELSE sstat[s]
              /\ avail'[s] = IF s \in saleLocks[w] THEN 0 ELSE avail[s]
    BY <1>6 DEF SweepCommit
  <2>3. ASSUME NEW r \in Resvs, rstat'[r] = "held" PROVE sstat'[SaleOf[r]] # "ended"
    <3>1. rstat[r] = "held" /\ r \notin rowLocks[w] /\ SaleOf[r] \in Sales
      BY <2>1, <2>3, LabelsAssumption DEF GiveUp, Dead
    <3>2. SaleOf[r] \notin saleLocks[w]
      BY <2>2, <3>1 DEF Swept, SweepCovers
    <3> QED
      BY <2>2, <3>1, <3>2 DEF Swept
  <2> QED
    BY <2>2, <2>3 DEF Swept
<1>7. ASSUME NEW p \in Pays,
             StartPayment(p) \/ ApplyApproved(p) \/ ApplyDeclined(p)
      PROVE  EndedEmpty'
  <2>1. /\ UNCHANGED <<avail, sstat>>
        /\ \A r \in Resvs : rstat'[r] = "held" => rstat[r] \in {"held", "paying"}
    BY <1>7, LabelsAssumption DEF StartPayment, ApplyApproved, ApplyDeclined,
       WithStatus, TypeOK
  <2>2. ASSUME NEW r \in Resvs, rstat'[r] = "held", rstat[r] # "held"
        PROVE  sstat[SaleOf[r]] # "ended"
    BY <2>1, <2>2 DEF PromptDecline, vars, rows
  <2> QED
    BY <1>1, <2>1, <2>2 DEF Swept
<1>8. ASSUME NEW t \in Txns, OrderInsert(t) PROVE EndedEmpty'
  BY <1>1, <1>8 DEF OrderInsert, Swept
<1> QED
  BY <1>2, <1>3, <1>4, <1>5, <1>6, <1>7, <1>8, WriteOrQuiet DEF Write

LEMMA SweptInit == Init => Swept
  BY LabelsAssumption DEF Init, Swept, SaleLocksOwned, SweepCovers, EndedEmpty,
     EndedWithdrawn, SweptSaleEmpty, Procs

LEMMA SweptNext ==
    ASSUME TypeOK, LockedRowsHeld, Swept, [Next]_vars, [PromptDecline]_vars
    PROVE  Swept'
  BY OwnedNext, CoversNext, EndedEmptyNext DEF Swept

\* While declines are prompt, a sale that has ended has nothing on its shelf
\* and nothing in a cart, whatever requests, answers and other sweeps run
\* beside its sweep: a stale decline is the only way to get there.
THEOREM SweptUnlessLate ==
    Spec /\ [][PromptDecline]_vars => [](EndedWithdrawn /\ SweptSaleEmpty)
<1>1. Swept => EndedWithdrawn /\ SweptSaleEmpty
  BY DEF Swept, EndedEmpty
<1> QED
  BY <1>1, SweptInit, SweptNext, TypeCorrect, LocksHold, PTL DEF Spec

(***************************************************************************)
(* Only the declines have to be on time: what others do with an old "now"  *)
(* leaves an ended sale empty, because a sweep has locked or ended only    *)
(* sales whose end it has seen pass.                                       *)
(***************************************************************************)
EndedInPast ==
    /\ \A s \in Sales : sstat[s] = "ended" => EndsAt[s] <= time
    /\ \A w \in Workers : pc[w] = "sweep" =>
          \A s \in saleLocks[w] : EndsAt[s] <= time

LEMMA EndedInPastNext ==
    ASSUME TypeOK, LockedRowsHeld, EndedInPast, [Next]_vars
    PROVE  EndedInPast'
<1>1. ASSUME time' \in Nat, time <= time', sstat' = sstat,
             \A w \in Workers : pc'[w] = "sweep" =>
                pc[w] = "sweep" /\ saleLocks'[w] = saleLocks[w]
      PROVE  EndedInPast'
  BY <1>1, WindowAssumption DEF EndedInPast, TypeOK, Procs
<1>2. time \in Nat
  BY DEF TypeOK
<1>3. CASE Advance \/ UNCHANGED vars
  BY <1>1, <1>2, <1>3 DEF Advance, vars, rows, session
<1>4. ASSUME NEW p \in Pays, Payment(p) PROVE EndedInPast'
  BY <1>1, <1>2, <1>4 DEF Payment, StartPayment, ApplyApproved, ApplyDeclined, session
<1>5. ASSUME NEW p \in Procs, Rollback(p) \/ DeadlockVictim(p) PROVE EndedInPast'
  <2>1. UNCHANGED <<time, rows>> /\ Close(p)
    BY <1>5 DEF Rollback, DeadlockVictim, Abort
  <2>2. \A w \in Workers : pc'[w] = "sweep" =>
           pc[w] = "sweep" /\ saleLocks'[w] = saleLocks[w]
    BY <2>1 DEF Close, TypeOK, Procs
  <2> QED
    BY <1>1, <1>2, <2>1, <2>2 DEF rows
<1>6. ASSUME NEW t \in Txns, Request(t) PROVE EndedInPast'
  <2>1. UNCHANGED <<time, sstat>>
    BY <1>6 DEF Request, RequestStep, ReserveLapse, ReleaseLock, OrderRead,
       ReserveCommit, ReserveRefused, ReleaseCommit, OrderInsert, OrderConflict, rows
  <2>2. \/ Close(t)
        \/ /\ saleLocks' = saleLocks
           /\ \E st \in {"reserve", "release", "order"} :
                pc' = [pc EXCEPT ![t] = st]
    BY <1>6 DEF Request, RequestStep, ReserveLapse, ReleaseLock, OrderRead,
       ReserveCommit, ReserveRefused, ReleaseCommit, OrderInsert, OrderConflict
  <2>3. \A w \in Workers : pc'[w] = "sweep" =>
           pc[w] = "sweep" /\ saleLocks'[w] = saleLocks[w]
    BY <2>2, SessionsAssumption DEF Close, TypeOK, Procs
  <2> QED
    BY <1>1, <1>2, <2>1, <2>3
<1>7. ASSUME NEW w \in Workers, Tick(w) PROVE EndedInPast'
  <2> w \in Procs
    BY DEF Procs
  <2>1. CASE SweepSelect(w)
    <3>1. PICK n \in Nows, ended \in SUBSET Sales :
            /\ \A s \in ended : EndsAt[s] <= n
            /\ saleLocks' = [saleLocks EXCEPT ![w] = ended]
      BY <2>1 DEF SweepSelect
    <3>2. \A s \in ended : EndsAt[s] <= time
      BY <1>2, <3>1, NowsType, WindowAssumption
    <3>3. /\ UNCHANGED <<time, sstat>>
          /\ \A q \in Workers \ {w} : pc'[q] = pc[q]
      BY <2>1 DEF SweepSelect, rows, TypeOK
    <3> QED
      BY <3>1, <3>2, <3>3 DEF EndedInPast, TypeOK, Procs
  <2>2. CASE SweepCommit(w)
    <3>1. /\ time' = time
          /\ pc[w] = "sweep" /\ pc' = [pc EXCEPT ![w] = "swept"]
          /\ saleLocks' = [saleLocks EXCEPT ![w] = {}]
          /\ \A s \in Sales :
               sstat'[s] = IF s \in saleLocks[w] THEN "ended" ELSE sstat[s]
      BY <2>2 DEF SweepCommit
    <3> QED
      BY <3>1 DEF EndedInPast, TypeOK, Procs
  <2>3. CASE ExpireSelect(w)
    <3>1. UNCHANGED <<time, sstat>>
      BY <2>3 DEF ExpireSelect, rows
    <3>2. \A q \in Workers : pc'[q] = "sweep" =>
             pc[q] = "sweep" /\ saleLocks'[q] = saleLocks[q]
      BY <2>3 DEF ExpireSelect, Close, TypeOK, Procs
    <3> QED
      BY <1>1, <1>2, <3>1, <3>2
  <2>4. ASSUME \/ \E s \in Sales : SweepSale(w, s)
               \/ \E r \in Resvs : SweepClear(w, r) \/ SweepSkip(w, r)
        PROVE  EndedInPast'
    BY <1>1, <1>2, <2>4 DEF SweepSale, SweepClear, SweepSkip, rows
  <2>5. ASSUME NEW r \in Resvs, ExpireReturn(w, r) PROVE EndedInPast'
    BY <1>1, <1>2, <2>5 DEF ExpireReturn, rows, TypeOK, Procs
  <2>6. CASE ExpireCommit(w)
    <3>1. UNCHANGED <<time, sstat>>
      BY <2>6 DEF ExpireCommit
    <3>2. \A q \in Workers : pc'[q] = "sweep" =>
             pc[q] = "sweep" /\ saleLocks'[q] = saleLocks[q]
      BY <2>6 DEF ExpireCommit, Close, TypeOK, Procs
    <3> QED
      BY <1>1, <1>2, <3>1, <3>2
  <2> QED
    BY <1>7, <2>1, <2>2, <2>3, <2>4, <2>5, <2>6 DEF Tick
<1> QED
  BY <1>3, <1>4, <1>5, <1>6, <1>7 DEF Next

\* No decline puts a reservation back on a sale whose end has come by then,
\* as if payments.py:187 compared it with the time of the commit.
DeclinesOnTime ==
    \A r \in Resvs :
        rstat[r] = "paying" /\ rstat'[r] = "held" => time < EndsAt[SaleOf[r]]

LEMMA OnTimeIsPrompt ==
    ASSUME TypeOK, EndedInPast, [DeclinesOnTime]_vars
    PROVE  [PromptDecline]_vars
<1> SUFFICES ASSUME DeclinesOnTime, NEW r \in Resvs,
                    rstat[r] = "paying", rstat'[r] = "held"
             PROVE  /\ sstat[SaleOf[r]] = "active"
                    /\ \A w \in Workers : pc[w] = "sweep" => SaleOf[r] \notin saleLocks[w]
  BY DEF PromptDecline
<1>1. time < EndsAt[SaleOf[r]]
  BY DEF DeclinesOnTime
<1>2. SaleOf[r] \in Sales /\ EndsAt[SaleOf[r]] \in Nat /\ time \in Nat
  BY LabelsAssumption, WindowAssumption DEF TypeOK
<1>3. ~(EndsAt[SaleOf[r]] <= time)
  BY <1>1, <1>2
<1> QED
  BY <1>2, <1>3 DEF EndedInPast, TypeOK

\* However old the now of a reserve, a release, an expiry, a sweep or a payment
\* is: as long as the declines are on time, an ended sale has nothing on its
\* shelf and nothing in a cart (scheduler.py:86-110).
THEOREM SweptIfDeclinesOnTime ==
    Spec /\ [][DeclinesOnTime]_vars => [](EndedWithdrawn /\ SweptSaleEmpty)
<1>1. Init => EndedInPast
  BY DEF Init, EndedInPast, Procs
<1>2. Spec => []EndedInPast
  BY <1>1, EndedInPastNext, TypeCorrect, LocksHold, PTL DEF Spec
<1>3. TypeOK /\ EndedInPast /\ [DeclinesOnTime]_vars => [PromptDecline]_vars
  BY OnTimeIsPrompt
<1>4. Spec /\ [][DeclinesOnTime]_vars => [][PromptDecline]_vars
  BY <1>2, <1>3, TypeCorrect, PTL
<1> QED
  BY <1>4, SweptUnlessLate, PTL

=============================================================================
