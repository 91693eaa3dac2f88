-------------------------- MODULE FlashSaleProofs --------------------------
(***************************************************************************)
(* Theorems about FlashSale for any number of sales, buyers, reservations, *)
(* payments, requests and scheduler processes, any clock lag and any       *)
(* number of lost transactions.                                            *)
(***************************************************************************)
EXTENDS FlashSale, FiniteSetTheorems, TLAPS

-----------------------------------------------------------------------------
(***************************************************************************)
(* Type correctness.                                                       *)
(***************************************************************************)
LEMMA CloseType ==
    ASSUME TypeOK, NEW p \in Procs, Close(p)
    PROVE  /\ pc' \in [Procs -> {"idle", "reserve", "release", "order",
                                 "sweep", "swept", "expire"}]
           /\ now' \in [Procs -> Nat]
           /\ \A q \in Procs : now'[q] = now[q] \/ now'[q] = 0
           /\ target' \in [Procs -> Resvs \cup {NoResv}]
           /\ \A q \in Procs :
                pc'[q] \in {"reserve", "release", "order"} => target'[q] \in Resvs
           /\ rowLocks' \in [Procs -> SUBSET Resvs]
           /\ saleLocks' \in [Procs -> SUBSET Sales]
           /\ due' \in [Procs -> SUBSET Sales]
           /\ todo' \in [Procs -> SUBSET Resvs]
  BY DEF TypeOK, Close

\* A commit is typed when the rows it writes are.
LEMMA CommitType ==
    ASSUME TypeOK, NEW p \in Procs, Close(p), UNCHANGED <<time, rollbacks>>,
           avail' \in [Sales -> Int],
           sstat' \in [Sales -> {"active", "ended"}],
           rstat' \in [Resvs -> ResvStatus],
           rexp' \in [Resvs -> Nat],
           order' \in [Resvs -> {"absent", "pending", "paid", "cancelled"}],
           pay' = pay, outbox' = outbox
    PROVE  TypeOK'
<1>1. \A q \in Procs : now'[q] <= time'
  BY CloseType DEF TypeOK
<1> QED
  BY <1>1, CloseType DEF TypeOK

\* The cardinalities the commits add and subtract are numbers.
LEMMA ResvsCardinality ==
    ASSUME NEW R \in SUBSET Resvs
    PROVE  IsFiniteSet(R) /\ Cardinality(R) \in Nat
  BY ResvsFinite, FS_Subset, FS_CardinalityType

LEMMA WithStatusType ==
    ASSUME TypeOK, NEW R \in SUBSET Resvs, NEW st \in ResvStatus
    PROVE  WithStatus(R, st) \in [Resvs -> ResvStatus]
  BY DEF TypeOK, WithStatus

LEMMA WithCancelledType ==
    ASSUME TypeOK, NEW R
    PROVE  WithCancelled(R) \in [Resvs -> {"absent", "pending", "paid", "cancelled"}]
  BY DEF TypeOK, WithCancelled

LEMMA NowsType ==
    ASSUME TypeOK, NEW n \in Nows
    PROVE  n \in Nat /\ n <= time
  BY TimeAssumption DEF TypeOK, Nows

LEMMA TypeInit == Init => TypeOK
  BY QuantityAssumption, TimeAssumption DEF Init, TypeOK, ResvStatus

LEMMA RequestType ==
    ASSUME TypeOK, NEW t \in Txns, Request(t)
    PROVE  TypeOK'
<1> USE DEF Procs
<1> t \in Procs
  OBVIOUS
<1>1. ASSUME NEW r \in Resvs, ReserveLapse(t, r) PROVE TypeOK'
  <2>1. PICK n \in Nows : /\ now' = [now EXCEPT ![t] = n]
                          /\ rowLocks' = [rowLocks EXCEPT
                                ![t] = Lapsed(SaleOf[r], BuyerOf[r], n)]
    BY <1>1 DEF ReserveLapse
  <2>2. Lapsed(SaleOf[r], BuyerOf[r], n) \in SUBSET Resvs
    BY DEF Lapsed
  <2>3. n \in Nat /\ n <= time
    BY NowsType
  <2> QED
    BY <1>1, <2>1, <2>2, <2>3 DEF TypeOK, ReserveLapse, rows
<1>2. ASSUME NEW r \in Resvs, ReleaseLock(t, r) PROVE TypeOK'
  <2>1. PICK n \in Nows : now' = [now EXCEPT ![t] = n]
    BY <1>2 DEF ReleaseLock
  <2>2. n \in Nat /\ n <= time
    BY NowsType
  <2> QED
    BY <1>2, <2>1, <2>2 DEF TypeOK, ReleaseLock, rows
<1>3. ASSUME NEW r \in Resvs, OrderRead(t, r) PROVE TypeOK'
  BY <1>3 DEF TypeOK, OrderRead, rows
<1>4. ASSUME Close(t), UNCHANGED <<time, rows, rollbacks>> PROVE TypeOK'
  BY <1>4, CloseType DEF TypeOK, rows
<1>5. CASE ReserveRefused(t) \/ OrderConflict(t)
  BY <1>4, <1>5 DEF ReserveRefused, OrderConflict
<1>6. CASE ReserveCommit(t)
  <2>1. /\ target[t] \in Resvs /\ SaleOf[target[t]] \in Sales
        /\ rowLocks[t] \in SUBSET Resvs
        /\ now[t] \in Nat
    BY <1>6, LabelsAssumption DEF TypeOK, ReserveCommit
  <2>2. avail' \in [Sales -> Int]
    <3>1. Cardinality(rowLocks[t]) \in Nat
      BY <2>1, ResvsCardinality
    <3> QED
      BY <1>6, <2>1, <3>1 DEF TypeOK, ReserveCommit
  <2>3. rexp' \in [Resvs -> Nat]
    <3>1. Least(now[t] + HoldTime, EndsAt[SaleOf[target[t]]]) \in Nat
      BY <2>1, WindowAssumption, TimeAssumption DEF Least
    <3> QED
      BY <1>6, <2>1, <3>1 DEF TypeOK, ReserveCommit
  <2>4. rstat' \in [Resvs -> ResvStatus]
    <3>1. WithStatus(rowLocks[t], "expired") \in [Resvs -> ResvStatus]
      BY <2>1, WithStatusType DEF ResvStatus
    <3> QED
      BY <1>6, <2>1, <3>1 DEF ReserveCommit, ResvStatus
  <2>5. order' \in [Resvs -> {"absent", "pending", "paid", "cancelled"}]
    BY <1>6, WithCancelledType DEF ReserveCommit
  <2>6. Close(t) /\ UNCHANGED <<time, sstat, pay, outbox, rollbacks>>
    BY <1>6 DEF ReserveCommit
  <2>7. sstat' \in [Sales -> {"active", "ended"}]
    BY <2>6 DEF TypeOK
  <2> QED
    BY <2>2, <2>3, <2>4, <2>5, <2>6, <2>7, CommitType
<1>7. CASE ReleaseCommit(t)
  <2>1. order' \in [Resvs -> {"absent", "pending", "paid", "cancelled"}]
    BY <1>7, WithCancelledType DEF ReleaseCommit
  <2>2. Close(t) /\ UNCHANGED <<time, sstat, rexp, pay, outbox, rollbacks>>
    BY <1>7 DEF ReleaseCommit
  <2>3. target[t] \in Resvs /\ SaleOf[target[t]] \in Sales
    BY <1>7, LabelsAssumption DEF TypeOK, ReleaseCommit
  <2>4. avail' \in [Sales -> Int] /\ rstat' \in [Resvs -> ResvStatus]
    BY <1>7, <2>3 DEF TypeOK, ReleaseCommit, ResvStatus
  <2> QED
    BY <2>1, <2>2, <2>4, CloseType DEF TypeOK
<1>8. CASE OrderInsert(t)
  BY <1>8, CloseType DEF TypeOK, OrderInsert
<1> QED
  BY <1>1, <1>2, <1>3, <1>5, <1>6, <1>7, <1>8 DEF Request, RequestStep

LEMMA TickType ==
    ASSUME TypeOK, NEW w \in Workers, Tick(w)
    PROVE  TypeOK'
<1> w \in Procs
  BY DEF Procs
<1>1. CASE SweepSelect(w)
  <2>1. PICK n \in Nows, ended \in SUBSET Sales :
            /\ now' = [now EXCEPT ![w] = n]
            /\ saleLocks' = [saleLocks EXCEPT ![w] = ended]
            /\ due' = [due EXCEPT ![w] = ended]
            /\ pc' = [pc EXCEPT ![w] = IF ended = {} THEN "swept" ELSE "sweep"]
    BY <1>1 DEF SweepSelect
  <2>2. n \in Nat /\ n <= time
    BY NowsType
  <2> QED
    BY <1>1, <2>1, <2>2 DEF TypeOK, SweepSelect, rows
<1>2. ASSUME NEW s \in Sales, SweepSale(w, s) PROVE TypeOK'
  BY <1>2 DEF TypeOK, SweepSale, rows
<1>3. ASSUME NEW r \in Resvs, SweepClear(w, r) \/ SweepSkip(w, r) PROVE TypeOK'
  BY <1>3 DEF TypeOK, SweepClear, SweepSkip, rows
<1>4. CASE SweepCommit(w)
  <2>1. /\ rstat' \in [Resvs -> ResvStatus]
        /\ order' \in [Resvs -> {"absent", "pending", "paid", "cancelled"}]
    BY <1>4, WithStatusType, WithCancelledType DEF SweepCommit, TypeOK, ResvStatus
  <2>2. outbox' \in SUBSET ({"order_paid", "cart_cleared"} \X Resvs)
    BY <1>4 DEF SweepCommit, TypeOK, ClearLetters
  <2> QED
    BY <1>4, <2>1, <2>2 DEF TypeOK, SweepCommit
<1>5. CASE ExpireSelect(w)
  <2> DEFINE lapsed == {r \in Resvs : LapsedOpen(r, now[w]) /\ RowFree(w, r)}
  <2>1. CASE lapsed = {}
    BY <1>5, <2>1, CloseType DEF TypeOK, ExpireSelect, rows
  <2>2. CASE lapsed # {}
    BY <1>5, <2>2 DEF TypeOK, ExpireSelect, rows
  <2> QED
    BY <2>1, <2>2
<1>6. ASSUME NEW r \in Resvs, ExpireReturn(w, r) PROVE TypeOK'
  BY <1>6, LabelsAssumption DEF TypeOK, ExpireReturn, rows
<1>7. CASE ExpireCommit(w)
  <2>1. /\ rstat' \in [Resvs -> ResvStatus]
        /\ order' \in [Resvs -> {"absent", "pending", "paid", "cancelled"}]
    BY <1>7, WithStatusType, WithCancelledType DEF ExpireCommit, TypeOK, ResvStatus
  <2>2. ASSUME NEW s \in Sales
        PROVE  Cardinality({r \in rowLocks[w] : SaleOf[r] = s}) \in Nat
    BY ResvsCardinality DEF TypeOK
  <2>3. avail' \in [Sales -> Int]
    BY <1>7, <2>2 DEF ExpireCommit, TypeOK, WithReturned
  <2>4. /\ Close(w)
        /\ UNCHANGED <<time, sstat, rexp, pay, outbox, rollbacks>>
    BY <1>7 DEF ExpireCommit
  <2>5. /\ sstat' \in [Sales -> {"active", "ended"}]
        /\ rexp' \in [Resvs -> Nat]
    BY <2>4 DEF TypeOK
  <2> QED
    BY <2>1, <2>3, <2>4, <2>5, CommitType
<1> QED
  BY <1>1, <1>2, <1>3, <1>4, <1>5, <1>6, <1>7 DEF Tick

LEMMA PaymentType ==
    ASSUME TypeOK, NEW p \in Pays, Payment(p)
    PROVE  TypeOK'
<1> OrderOf[p] \in Resvs
  BY LabelsAssumption
<1>1. CASE StartPayment(p)
  BY <1>1 DEF TypeOK, StartPayment, session, ResvStatus
<1>2. CASE ApplyApproved(p)
  BY <1>2 DEF TypeOK, ApplyApproved, session, ResvStatus
<1>3. CASE ApplyDeclined(p)
  <2>1. rstat' \in [Resvs -> ResvStatus]
    BY <1>3, WithStatusType DEF ApplyDeclined, ResvStatus
  <2>2. order' \in [Resvs -> {"absent", "pending", "paid", "cancelled"}]
    BY <1>3, WithCancelledType DEF ApplyDeclined, TypeOK
  <2>3. outbox' \in SUBSET ({"order_paid", "cart_cleared"} \X Resvs)
    BY <1>3 DEF ApplyDeclined, TypeOK, ClearLetters
  <2> QED
    BY <1>3, <2>1, <2>2, <2>3 DEF TypeOK, ApplyDeclined, session
<1> QED
  BY <1>1, <1>2, <1>3 DEF Payment

LEMMA TypeNext == TypeOK /\ [Next]_vars => TypeOK'
<1> SUFFICES ASSUME TypeOK, [Next]_vars PROVE TypeOK'
  OBVIOUS
<1>1. CASE Advance
  BY <1>1, TimeAssumption DEF TypeOK, Advance, rows, session
<1>2. ASSUME NEW p \in Procs, Rollback(p) \/ DeadlockVictim(p) PROVE TypeOK'
  <2>1. /\ Close(p)
        /\ UNCHANGED <<time, rows>>
        /\ rollbacks' \in 0 .. MaxRollbacks
    BY <1>2, TimeAssumption DEF Rollback, DeadlockVictim, Abort, TypeOK
  <2> QED
    BY <2>1, CloseType DEF TypeOK, rows
<1>3. CASE UNCHANGED vars
  BY <1>3 DEF TypeOK, vars, rows, session
<1> QED
  BY <1>1, <1>2, <1>3, RequestType, TickType, PaymentType DEF Next

\* Every row and every session stays what its columns and its code allow, and
\* no transaction ever works with a "now" of the future.
THEOREM TypeCorrect == Spec => []TypeOK
  BY TypeInit, TypeNext, PTL DEF Spec

-----------------------------------------------------------------------------
(***************************************************************************)
(* Row locks.                                                              *)
(***************************************************************************)
LEMMA LocksInit == Init => LockedRowsHeld
  BY DEF Init, LockedRowsHeld, Procs

\* A session that closes, having changed no more than the rows it had locked
\* and the one it inserts, leaves every other session's locks as they were.
LEMMA CloseKeepsLocks ==
    ASSUME TypeOK, LockedRowsHeld, NEW p \in Procs, NEW st \in {"idle", "swept"},
           st = "swept" => p \in Workers,
           pc' = [pc EXCEPT ![p] = st],
           rowLocks' = [rowLocks EXCEPT ![p] = {}],
           \A q \in Procs \ {p} : target'[q] = target[q],
           \A r \in Resvs :
               \/ rstat'[r] = rstat[r]
               \/ rstat'[r] # "absent" /\ r \in rowLocks[p]
               \/ rstat'[r] # "absent" /\ pc[p] = "reserve" /\ r = target[p]
    PROVE  LockedRowsHeld'
<1> p \notin Workers <=> p \in Txns
  BY SessionsAssumption DEF Procs
<1>1. ASSUME NEW q \in Procs, NEW r \in rowLocks'[q] PROVE rstat'[r] = "held"
  <2>1. q # p /\ r \in rowLocks[q] /\ r \in Resvs
    BY <1>1 DEF TypeOK
  <2>2. r \notin rowLocks[p] /\ rstat[r] = "held"
    BY <2>1 DEF LockedRowsHeld
  <2>3. pc[p] = "reserve" => r # target[p]
    BY <2>2 DEF LockedRowsHeld
  <2> QED
    BY <2>1, <2>2, <2>3
<1>2. ASSUME NEW q1 \in Procs, NEW q2 \in Procs, q1 # q2
      PROVE  rowLocks'[q1] \cap rowLocks'[q2] = {}
  BY <1>2 DEF TypeOK, LockedRowsHeld
<1>3. ASSUME NEW q \in Procs, q # p
      PROVE  pc'[q] = pc[q] /\ rowLocks'[q] = rowLocks[q] /\ target'[q] = target[q]
  BY <1>3 DEF TypeOK
<1>4. pc'[p] = st /\ rowLocks'[p] = {}
  BY DEF TypeOK
<1>5. ASSUME NEW q \in Procs, q # p, pc[q] = "reserve"
      PROVE  rstat'[target[q]] = "absent"
  <2>1. target[q] \in Resvs /\ rstat[target[q]] = "absent"
    BY <1>5 DEF TypeOK, LockedRowsHeld
  <2>2. target[q] \notin rowLocks[p]
    BY <2>1 DEF LockedRowsHeld
  <2>3. q \in Txns
    BY <1>5 DEF LockedRowsHeld, Procs
  <2>4. pc[p] = "reserve" => p \in Txns
    BY DEF LockedRowsHeld, Procs
  <2>5. pc[p] = "reserve" => target[p] # target[q]
    BY <1>5, <2>3, <2>4 DEF LockedRowsHeld
  <2> QED
    BY <2>1, <2>2, <2>5
<1>6. ASSUME NEW q \in Procs, q # p, pc[q] = "order"
      PROVE  rstat'[target[q]] # "absent"
  BY <1>6 DEF TypeOK, LockedRowsHeld
<1>7. ASSUME NEW q \in Procs
      PROVE  /\ pc'[q] \in {"idle", "order", "swept"} => rowLocks'[q] = {}
             /\ pc'[q] = "release" => rowLocks'[q] = {target'[q]}
             /\ pc'[q] = "reserve" =>
                  /\ rstat'[target'[q]] = "absent"
                  /\ \A r \in rowLocks'[q] : /\ SaleOf[r] = SaleOf[target'[q]]
                                             /\ BuyerOf[r] = BuyerOf[target'[q]]
             /\ pc'[q] = "order" => rstat'[target'[q]] # "absent"
  <2>1. CASE q = p
    BY <1>4, <2>1
  <2>2. CASE q # p
    BY <1>3, <1>5, <1>6, <2>2 DEF LockedRowsHeld
  <2> QED
    BY <2>1, <2>2
<1>8. ASSUME NEW t \in Txns, NEW t2 \in Txns,
             pc'[t] = "reserve", pc'[t2] = "reserve", t # t2
      PROVE  target'[t] # target'[t2]
  BY <1>3, <1>4, <1>8 DEF LockedRowsHeld, Procs
<1>9. /\ \A t \in Txns : pc'[t] \in {"idle", "reserve", "release", "order"}
      /\ \A w \in Workers : pc'[w] \in {"idle", "sweep", "swept", "expire"}
  BY <1>3, <1>4 DEF LockedRowsHeld, Procs
<1> QED
  BY <1>1, <1>2, <1>7, <1>8, <1>9 DEF LockedRowsHeld

LEMMA LocksRequest ==
    ASSUME TypeOK, LockedRowsHeld, NEW t \in Txns, Request(t)
    PROVE  LockedRowsHeld'
<1> t \in Procs /\ t \notin Workers
  BY SessionsAssumption DEF Procs
<1>1. ASSUME NEW r \in Resvs, ReserveLapse(t, r) PROVE LockedRowsHeld'
  <2>1. PICK n \in Nows :
          /\ \A l \in Lapsed(SaleOf[r], BuyerOf[r], n) : RowFree(t, l)
          /\ rowLocks' = [rowLocks EXCEPT ![t] = Lapsed(SaleOf[r], BuyerOf[r], n)]
    BY <1>1 DEF ReserveLapse
  <2> DEFINE L == Lapsed(SaleOf[r], BuyerOf[r], n)
  <2>2. /\ L \subseteq Resvs
        /\ \A l \in L : /\ rstat[l] = "held"
                        /\ SaleOf[l] = SaleOf[r] /\ BuyerOf[l] = BuyerOf[r]
                        /\ \A q \in Procs \ {t} : l \notin rowLocks[q]
    BY <2>1 DEF Lapsed, RowFree
  <2>3. /\ rstat' = rstat /\ rstat[r] = "absent"
        /\ pc' = [pc EXCEPT ![t] = "reserve"]
        /\ target' = [target EXCEPT ![t] = r]
        /\ \A q \in Txns : target[q] # r
    BY <1>1 DEF ReserveLapse, rows
  <2> HIDE DEF L
  <2> QED
    BY <2>1, <2>2, <2>3 DEF TypeOK, LockedRowsHeld, L
<1>2. ASSUME NEW r \in Resvs, ReleaseLock(t, r) PROVE LockedRowsHeld'
  BY <1>2 DEF TypeOK, LockedRowsHeld, ReleaseLock, Releasable, RowFree, Idle, rows
<1>3. ASSUME NEW r \in Resvs, OrderRead(t, r) PROVE LockedRowsHeld'
  BY <1>3 DEF TypeOK, LockedRowsHeld, OrderRead, Idle, rows
<1>4. ASSUME Close(t),
             \A r \in Resvs :
               \/ rstat'[r] = rstat[r]
               \/ rstat'[r] # "absent" /\ r \in rowLocks[t]
               \/ rstat'[r] # "absent" /\ pc[t] = "reserve" /\ r = target[t]
      PROVE  LockedRowsHeld'
  BY <1>4, CloseKeepsLocks DEF Close, TypeOK
<1>5. CASE ReserveCommit(t)
  BY <1>4, <1>5 DEF TypeOK, ReserveCommit, WithStatus
<1>6. CASE ReleaseCommit(t)
  BY <1>4, <1>6 DEF TypeOK, LockedRowsHeld, ReleaseCommit
<1>7. CASE ReserveRefused(t) \/ OrderInsert(t) \/ OrderConflict(t)
  BY <1>4, <1>7 DEF ReserveRefused, OrderInsert, OrderConflict, rows
<1> QED
  BY <1>1, <1>2, <1>3, <1>5, <1>6, <1>7 DEF Request, RequestStep

LEMMA LocksTick ==
    ASSUME TypeOK, LockedRowsHeld, NEW w \in Workers, Tick(w)
    PROVE  LockedRowsHeld'
<1> w \in Procs /\ w \notin Txns
  BY SessionsAssumption DEF Procs
<1>1. CASE SweepSelect(w)
  <2>1. /\ UNCHANGED <<rstat, rowLocks, target>>
        /\ pc[w] = "idle"
        /\ \E st \in {"swept", "sweep"} : pc' = [pc EXCEPT ![w] = st]
    BY <1>1 DEF SweepSelect, Idle, rows
  <2> QED
    BY <2>1 DEF TypeOK, LockedRowsHeld
<1>2. ASSUME NEW s \in Sales, SweepSale(w, s) PROVE LockedRowsHeld'
  BY <1>2 DEF LockedRowsHeld, SweepSale, rows
<1>3. ASSUME NEW r \in Resvs, SweepClear(w, r) PROVE LockedRowsHeld'
  BY <1>3 DEF TypeOK, LockedRowsHeld, SweepClear, RowFree, rows
<1>4. ASSUME NEW r \in Resvs, SweepSkip(w, r) PROVE LockedRowsHeld'
  BY <1>4 DEF LockedRowsHeld, SweepSkip, rows
<1>5. CASE SweepCommit(w)
  <2>1. \A r \in Resvs : \/ rstat'[r] = rstat[r]
                         \/ rstat'[r] # "absent" /\ r \in rowLocks[w]
    BY <1>5 DEF SweepCommit, WithStatus
  <2>2. /\ pc' = [pc EXCEPT ![w] = "swept"]
        /\ rowLocks' = [rowLocks EXCEPT ![w] = {}]
        /\ target' = target
    BY <1>5 DEF SweepCommit
  <2> QED
    BY <2>1, <2>2, CloseKeepsLocks
<1>6. CASE ExpireSelect(w)
  <2> DEFINE lapsed == {r \in Resvs : LapsedOpen(r, now[w]) /\ RowFree(w, r)}
  <2>1. rstat' = rstat /\ pc[w] = "swept"
    BY <1>6 DEF ExpireSelect, rows
  <2>2. CASE Close(w)
    BY <2>1, <2>2, CloseKeepsLocks DEF Close, TypeOK
  <2>3. CASE /\ pc' = [pc EXCEPT ![w] = "expire"]
             /\ rowLocks' = [rowLocks EXCEPT ![w] = lapsed]
             /\ target' = target
    BY <2>1, <2>3 DEF TypeOK, LockedRowsHeld, LapsedOpen, RowFree
  <2> QED
    BY <1>6, <2>2, <2>3 DEF ExpireSelect
<1>7. ASSUME NEW r \in Resvs, ExpireReturn(w, r) PROVE LockedRowsHeld'
  BY <1>7 DEF LockedRowsHeld, ExpireReturn, rows
<1>8. CASE ExpireCommit(w)
  <2>1. \A r \in Resvs : \/ rstat'[r] = rstat[r]
                         \/ rstat'[r] # "absent" /\ r \in rowLocks[w]
    BY <1>8 DEF ExpireCommit, WithStatus
  <2> QED
    BY <1>8, <2>1, CloseKeepsLocks DEF ExpireCommit, Close, TypeOK
<1> QED
  BY <1>1, <1>2, <1>3, <1>4, <1>5, <1>6, <1>7, <1>8 DEF Tick

\* A payment changes the status of a row nobody has locked: a free hold, or a
\* reservation in payment.
LEMMA LocksPayment ==
    ASSUME TypeOK, LockedRowsHeld, NEW p \in Pays, Payment(p)
    PROVE  LockedRowsHeld'
<1>1. /\ UNCHANGED session
      /\ \A r \in Resvs :
            \/ rstat'[r] = rstat[r]
            \/ /\ rstat[r] # "absent" /\ rstat'[r] # "absent"
               /\ \A q \in Procs : r \notin rowLocks[q]
  <2> OrderOf[p] \in Resvs
    BY LabelsAssumption
  <2>1. CASE StartPayment(p)
    BY <2>1 DEF StartPayment, HoldLive, TypeOK
  <2>2. CASE ApplyApproved(p)
    BY <2>2 DEF ApplyApproved, TypeOK, LockedRowsHeld
  <2>3. CASE ApplyDeclined(p)
    <3>1. /\ UNCHANGED session
          /\ \/ rstat' = rstat
             \/ /\ rstat[OrderOf[p]] = "paying"
                /\ \E st \in {"cleared", "held"} : rstat' = WithStatus({OrderOf[p]}, st)
      BY <2>3 DEF ApplyDeclined, WithStatus, TypeOK
    <3> QED
      BY <3>1 DEF WithStatus, TypeOK, LockedRowsHeld
  <2> QED
    BY <2>1, <2>2, <2>3 DEF Payment
<1> QED
  BY <1>1 DEF TypeOK, LockedRowsHeld, session

LEMMA LocksNext ==
    ASSUME TypeOK, LockedRowsHeld, [Next]_vars
    PROVE  LockedRowsHeld'
<1>1. CASE Advance \/ UNCHANGED vars
  BY <1>1 DEF LockedRowsHeld, Advance, vars, rows, session
<1>2. ASSUME NEW p \in Procs, Rollback(p) \/ DeadlockVictim(p) PROVE LockedRowsHeld'
  BY <1>2, CloseKeepsLocks DEF Rollback, DeadlockVictim, Abort, Close, TypeOK, rows
<1> QED
  BY <1>1, <1>2, LocksRequest, LocksTick, LocksPayment DEF Next

\* A transaction that has locked a reservation row decides what becomes of it.
THEOREM LocksHold == Spec => []LockedRowsHeld
  BY LocksInit, LocksNext, TypeCorrect, PTL DEF Spec

-----------------------------------------------------------------------------
(***************************************************************************)
(* The steps that write rows.  What the three kinds of giving a hold back  *)
(* (release, expiry, clearing) have in common is said once.                *)
(***************************************************************************)
Write ==
    \/ \E t \in Txns : ReserveCommit(t) \/ ReleaseCommit(t) \/ OrderInsert(t)
    \/ \E w \in Workers : SweepCommit(w) \/ ExpireCommit(w)
    \/ \E p \in Pays : StartPayment(p) \/ ApplyApproved(p) \/ ApplyDeclined(p)

LEMMA WriteOrQuiet ==
    ASSUME [Next]_vars
    PROVE  UNCHANGED rows \/ Write
<1>1. ASSUME NEW t \in Txns, Request(t) PROVE UNCHANGED rows \/ Write
  BY <1>1 DEF Request, RequestStep, Write, ReserveLapse, ReleaseLock, OrderRead,
              ReserveRefused, OrderConflict
<1>2. ASSUME NEW w \in Workers, Tick(w) PROVE UNCHANGED rows \/ Write
  BY <1>2 DEF Tick, Write, SweepSelect, SweepSale, SweepClear, SweepSkip,
              ExpireSelect, ExpireReturn
<1>3. ASSUME NEW p \in Procs, Rollback(p) \/ DeadlockVictim(p) PROVE UNCHANGED rows
  BY <1>3 DEF Rollback, DeadlockVictim, Abort
<1>4. CASE Advance \/ UNCHANGED vars
  BY <1>4 DEF Advance, vars
<1> QED
  BY <1>1, <1>2, <1>3, <1>4 DEF Next, Payment, Write

Dead == {"expired", "released", "cleared"}

\* The holds R are given up, as st; at the same time N, if any, is taken.
GiveUp(R, st, N) ==
    /\ R \subseteq Resvs /\ N \subseteq Resvs
    /\ st \in Dead
    /\ \A r \in R : rstat[r] = "held"
    /\ \A r \in N : rstat[r] = "absent"
    /\ \A r \in Resvs : rstat'[r] = IF r \in N THEN "held"
                                    ELSE IF r \in R THEN st ELSE rstat[r]
    /\ order' = WithCancelled(R)
    /\ pay' = pay
    /\ outbox' = IF st = "cleared" THEN outbox \cup ClearLetters(R) ELSE outbox

LEMMA GivingUp ==
    ASSUME TypeOK, LockedRowsHeld
    PROVE  /\ \A t \in Txns : ReserveCommit(t) =>
                 GiveUp(rowLocks[t], "expired", {target[t]})
           /\ \A t \in Txns : ReleaseCommit(t) =>
                 GiveUp({target[t]}, "released", {})
           /\ \A w \in Workers : SweepCommit(w) =>
                 GiveUp(rowLocks[w], "cleared", {})
           /\ \A w \in Workers : ExpireCommit(w) =>
                 GiveUp(rowLocks[w], "expired", {})
<1> USE DEF GiveUp, Dead, WithStatus, Procs
<1>1. ASSUME NEW t \in Txns, ReserveCommit(t)
      PROVE  GiveUp(rowLocks[t], "expired", {target[t]})
  BY <1>1 DEF TypeOK, LockedRowsHeld, ReserveCommit
<1>2. ASSUME NEW t \in Txns, ReleaseCommit(t)
      PROVE  GiveUp({target[t]}, "released", {})
  BY <1>2 DEF TypeOK, LockedRowsHeld, ReleaseCommit
<1>3. ASSUME NEW w \in Workers, SweepCommit(w)
      PROVE  GiveUp(rowLocks[w], "cleared", {})
  BY <1>3 DEF TypeOK, LockedRowsHeld, SweepCommit
<1>4. ASSUME NEW w \in Workers, ExpireCommit(w)
      PROVE  GiveUp(rowLocks[w], "expired", {})
  BY <1>4 DEF TypeOK, LockedRowsHeld, ExpireCommit
<1> QED
  BY <1>1, <1>2, <1>3, <1>4

-----------------------------------------------------------------------------
(***************************************************************************)
(* Payments.  That a reservation is paying exactly while a payment of its  *)
(* order is pending is inductive only together with the fate of orders: a  *)
(* payment starts on a held reservation, whose order must then be pending. *)
(***************************************************************************)
Settlement == PayingIffPending /\ SettledTogether

LEMMA SettlementInit == Init => Settlement
  BY DEF Init, Settlement, PayingIffPending, SettledTogether

LEMMA SettlementGiveUp ==
    ASSUME TypeOK, Settlement, NEW R, NEW st, NEW N, GiveUp(R, st, N)
    PROVE  Settlement'
<1> SUFFICES ASSUME NEW r \in Resvs
             PROVE  /\ LET running == {p \in Pays : OrderOf[p] = r /\ pay'[p] = "pending"}
                       IN /\ rstat'[r] = "paying" <=> running # {}
                          /\ \A p, q \in running : p = q
                          /\ rstat'[r] = "paying" => order'[r] = "pending"
                    /\ order'[r] = "paid" <=> rstat'[r] = "sold"
                    /\ order'[r] = "paid" <=>
                          \E p \in Pays : OrderOf[p] = r /\ pay'[p] = "approved"
                    /\ order'[r] = "cancelled" => rstat'[r] \in Dead
  BY DEF Settlement, PayingIffPending, SettledTogether, Dead
<1>1. pay' = pay
  BY DEF GiveUp
<1>2. CASE r \in N \ R
  BY <1>1, <1>2 DEF Settlement, PayingIffPending, SettledTogether, GiveUp, Dead,
                    WithCancelled
<1>3. CASE r \in R
  BY <1>1, <1>3 DEF Settlement, PayingIffPending, SettledTogether, GiveUp, Dead,
                    WithCancelled
<1>4. CASE r \notin N \cup R
  BY <1>1, <1>4 DEF Settlement, PayingIffPending, SettledTogether, GiveUp, Dead,
                    WithCancelled
<1> QED
  BY <1>2, <1>3, <1>4

LEMMA SettlementPayment ==
    ASSUME TypeOK, Settlement, NEW p \in Pays,
           StartPayment(p) \/ ApplyApproved(p) \/ ApplyDeclined(p)
    PROVE  Settlement'
<1> OrderOf[p] \in Resvs
  BY LabelsAssumption
<1>1. CASE StartPayment(p)
  BY <1>1, LabelsAssumption DEF StartPayment, HoldLive, NoPendingPayment, TypeOK,
     Settlement, PayingIffPending, SettledTogether
<1>2. CASE ApplyApproved(p)
  BY <1>2, LabelsAssumption DEF ApplyApproved, TypeOK,
     Settlement, PayingIffPending, SettledTogether
<1>3. CASE ApplyDeclined(p)
  BY <1>3, LabelsAssumption DEF ApplyDeclined, WithStatus, WithCancelled, TypeOK,
     Settlement, PayingIffPending, SettledTogether
<1> QED
  BY <1>1, <1>2, <1>3

LEMMA SettlementNext ==
    ASSUME TypeOK, LockedRowsHeld, Settlement, [Next]_vars
    PROVE  Settlement'
<1>1. CASE UNCHANGED rows
  BY <1>1 DEF rows, Settlement, PayingIffPending, SettledTogether
<1>2. ASSUME NEW t \in Txns, OrderInsert(t) PROVE Settlement'
  BY <1>2 DEF OrderInsert, TypeOK, Procs, Settlement, PayingIffPending, SettledTogether
<1> QED
  BY <1>1, <1>2, WriteOrQuiet, GivingUp, SettlementGiveUp, SettlementPayment DEF Write

\* A unit in payment is nobody else's to take, and its payment decides about it.
THEOREM PaymentOwnsUnit == Spec => []PayingIffPending
<1>1. Spec => []Settlement
  BY SettlementInit, SettlementNext, TypeCorrect, LocksHold, PTL DEF Spec
<1>2. Settlement => PayingIffPending
  BY DEF Settlement
<1> QED
  BY <1>1, <1>2, PTL

\* No buyer is charged for an order that is not theirs to keep, and no unit is
\* sold that was not paid for.
THEOREM ChargedPaidSold == Spec => []SettledTogether
<1>1. Spec => []Settlement
  BY SettlementInit, SettlementNext, TypeCorrect, LocksHold, PTL DEF Spec
<1>2. Settlement => SettledTogether
  BY DEF Settlement
<1> QED
  BY <1>1, <1>2, PTL

-----------------------------------------------------------------------------
(***************************************************************************)
(* One active reservation per buyer and sale.                              *)
(***************************************************************************)
LEMMA OneActiveNext ==
    ASSUME TypeOK, LockedRowsHeld, OneActivePerBuyer, [Next]_vars
    PROVE  OneActivePerBuyer'
<1>1. ASSUME \A r \in Resvs : rstat'[r] \in ActiveResv => rstat[r] \in ActiveResv
      PROVE  OneActivePerBuyer'
  BY <1>1 DEF OneActivePerBuyer
<1>2. CASE UNCHANGED rows
  BY <1>1, <1>2 DEF rows
<1>3. ASSUME NEW R, NEW st, GiveUp(R, st, {}) PROVE OneActivePerBuyer'
  BY <1>1, <1>3 DEF GiveUp, Dead, ActiveResv
<1>4. ASSUME NEW t \in Txns, ReserveCommit(t) PROVE OneActivePerBuyer'
  <2>1. GiveUp(rowLocks[t], "expired", {target[t]})
    BY <1>4, GivingUp
  <2>2. \A r \in Resvs \ rowLocks[t] :
          SaleOf[r] = SaleOf[target[t]] /\ BuyerOf[r] = BuyerOf[target[t]]
            => rstat[r] \notin ActiveResv
    BY <1>4 DEF ReserveCommit, NoActiveTwin
  <2>3. \A r \in Resvs : rstat'[r] \in ActiveResv =>
          \/ r = target[t]
          \/ rstat[r] \in ActiveResv /\ r \notin rowLocks[t]
    BY <2>1 DEF GiveUp, Dead, ActiveResv
  <2> QED
    BY <2>2, <2>3 DEF OneActivePerBuyer
<1>5. ASSUME NEW t \in Txns, OrderInsert(t) PROVE OneActivePerBuyer'
  BY <1>1, <1>5 DEF OrderInsert
<1>6. ASSUME NEW p \in Pays, StartPayment(p) \/ ApplyApproved(p) \/ ApplyDeclined(p)
      PROVE  OneActivePerBuyer'
  BY <1>1, <1>6, LabelsAssumption DEF StartPayment, HoldLive, ApplyApproved,
     ApplyDeclined, WithStatus, TypeOK, ActiveResv
<1> QED
  BY <1>2, <1>3, <1>4, <1>5, <1>6, WriteOrQuiet, GivingUp DEF Write

\* However a buyer's requests interleave, one cart line per sale.
THEOREM OneHoldPerBuyer == Spec => []OneActivePerBuyer
<1>1. Init => OneActivePerBuyer
  BY DEF Init, OneActivePerBuyer, ActiveResv
<1> QED
  BY <1>1, OneActiveNext, TypeCorrect, LocksHold, PTL DEF Spec

-----------------------------------------------------------------------------
(***************************************************************************)
(* The outbox.                                                             *)
(***************************************************************************)
LEMMA OutboxNext ==
    ASSUME TypeOK, LockedRowsHeld, Settlement, OutboxMatches, [Next]_vars
    PROVE  OutboxMatches'
<1>1. CASE UNCHANGED rows
  BY <1>1 DEF rows, OutboxMatches
<1>2. ASSUME NEW R, NEW st, NEW N, GiveUp(R, st, N) PROVE OutboxMatches'
  <2>1. \A r \in Resvs : order'[r] = "paid" <=> order[r] = "paid"
    BY <1>2 DEF GiveUp, WithCancelled
  <2>2. \A r \in Resvs : rstat'[r] = "cleared" <=>
          rstat[r] = "cleared" \/ (st = "cleared" /\ r \in R)
    BY <1>2 DEF GiveUp
  <2>3. outbox' = IF st = "cleared" THEN outbox \cup ({"cart_cleared"} \X R) ELSE outbox
    BY <1>2 DEF GiveUp, ClearLetters
  <2>4. R \subseteq Resvs
    BY <1>2 DEF GiveUp
  <2> QED
    BY <2>1, <2>2, <2>3, <2>4 DEF OutboxMatches
<1>3. ASSUME outbox' = outbox,
             \A r \in Resvs : order'[r] = "paid" <=> order[r] = "paid",
             \A r \in Resvs : rstat'[r] = "cleared" <=> rstat[r] = "cleared"
      PROVE  OutboxMatches'
  <2>1. {r \in Resvs : order'[r] = "paid"} = {r \in Resvs : order[r] = "paid"}
    BY <1>3
  <2>2. {r \in Resvs : rstat'[r] = "cleared"} = {r \in Resvs : rstat[r] = "cleared"}
    BY <1>3
  <2> QED
    BY <1>3, <2>1, <2>2 DEF OutboxMatches
<1>4. ASSUME NEW t \in Txns, OrderInsert(t) PROVE OutboxMatches'
  BY <1>3, <1>4 DEF OrderInsert, TypeOK, Procs
<1>5. ASSUME NEW p \in Pays, StartPayment(p) PROVE OutboxMatches'
  BY <1>3, <1>5, LabelsAssumption DEF StartPayment, HoldLive, TypeOK
<1>7. ASSUME NEW p \in Pays, ApplyApproved(p) PROVE OutboxMatches'
  <2>1. OrderOf[p] \in Resvs /\ rstat[OrderOf[p]] = "paying" /\ order[OrderOf[p]] = "pending"
    BY <1>7, LabelsAssumption DEF ApplyApproved, Settlement, PayingIffPending
  <2>2. /\ outbox' = outbox \cup {<<"order_paid", OrderOf[p]>>}
        /\ \A r \in Resvs : order'[r] = "paid" <=> (order[r] = "paid" \/ r = OrderOf[p])
        /\ \A r \in Resvs : rstat'[r] = "cleared" <=> rstat[r] = "cleared"
    BY <1>7, <2>1 DEF ApplyApproved, TypeOK
  <2> QED
    BY <2>1, <2>2 DEF OutboxMatches
<1>6. ASSUME NEW p \in Pays, ApplyDeclined(p) PROVE OutboxMatches'
  <2>1. OrderOf[p] \in Resvs /\ rstat[OrderOf[p]] = "paying"
    BY <1>6, LabelsAssumption DEF ApplyDeclined, Settlement, PayingIffPending
  <2>2. \/ /\ rstat' = WithStatus({OrderOf[p]}, "cleared")
           /\ order' = WithCancelled({OrderOf[p]})
           /\ outbox' = outbox \cup ({"cart_cleared"} \X {OrderOf[p]})
        \/ /\ rstat' = WithStatus({OrderOf[p]}, "held")
           /\ UNCHANGED <<order, outbox>>
    BY <1>6, <2>1 DEF ApplyDeclined, ClearLetters
  <2>3. \A r \in Resvs : order'[r] = "paid" <=> order[r] = "paid"
    BY <2>2 DEF WithCancelled
  <2> QED
    BY <2>1, <2>2, <2>3 DEF OutboxMatches, WithStatus
<1> QED
  BY <1>1, <1>2, <1>4, <1>5, <1>6, <1>7, WriteOrQuiet, GivingUp DEF Write

\* Whatever is settled or cleared has its letter, and nothing else has one.
THEOREM LettersMatch == Spec => []OutboxMatches
<1>1. Init => OutboxMatches
  BY DEF Init, OutboxMatches
<1>2. Spec => []Settlement
  BY SettlementInit, SettlementNext, TypeCorrect, LocksHold, PTL DEF Spec
<1> QED
  BY <1>1, <1>2, OutboxNext, TypeCorrect, LocksHold, PTL DEF Spec

-----------------------------------------------------------------------------
(***************************************************************************)
(* Accounting.  A commit that gives the holds "back" of a sale up and puts *)
(* "new" in a cart moves as many units on the shelf as it moves out of it. *)
(***************************************************************************)
Held(s) == Taken(s) \cup Withdrawn(s)

LEMMA Exchange ==
    ASSUME NEW A \in SUBSET Resvs, NEW back \in SUBSET A,
           NEW new \in SUBSET (Resvs \ A)
    PROVE  Cardinality((A \ back) \cup new)
             = Cardinality(A) - Cardinality(back) + Cardinality(new)
<1>1. IsFiniteSet(A) /\ IsFiniteSet(back) /\ IsFiniteSet(new) /\ IsFiniteSet(A \ back)
  BY ResvsCardinality
<1>2. Cardinality(A \ back) = Cardinality(A) - Cardinality(back)
  <2>1. A \cap back = back
    OBVIOUS
  <2> QED
    BY <1>1, <2>1, FS_Difference
<1>3. Cardinality((A \ back) \cup new) =
         Cardinality(A \ back) + Cardinality(new) - Cardinality((A \ back) \cap new)
  BY <1>1, FS_Union
<1>4. Cardinality((A \ back) \cap new) = 0
  <2>1. (A \ back) \cap new = {}
    OBVIOUS
  <2> QED
    BY <2>1, FS_EmptySet
<1>5. /\ Cardinality(A) \in Nat /\ Cardinality(back) \in Nat
      /\ Cardinality(new) \in Nat /\ Cardinality(A \ back) \in Nat
  BY ResvsCardinality
<1> QED
  BY <1>2, <1>3, <1>4, <1>5

\* What NoOversell says of one sale.
Balanced(s) ==
    /\ avail[s] >= 0
    /\ avail[s] + Cardinality(Taken(s)) <= Quantity[s]
    /\ sstat[s] = "active" => avail[s] + Cardinality(Held(s)) = Quantity[s]

LEMMA Sizes ==
    ASSUME NEW s \in Sales
    PROVE  /\ Taken(s) \in SUBSET Resvs /\ Held(s) \in SUBSET Resvs
           /\ Cardinality(Taken(s)) \in Nat /\ Cardinality(Held(s)) \in Nat
           /\ Quantity[s] \in Nat
<1>1. Taken(s) \in SUBSET Resvs /\ Held(s) \in SUBSET Resvs
  BY DEF Taken, Held, Withdrawn
<1> QED
  BY <1>1, ResvsCardinality, QuantityAssumption

LEMMA ExchangeKeepsBalance ==
    ASSUME TypeOK, TypeOK', NEW s \in Sales, Balanced(s),
           NEW back \in SUBSET Taken(s), NEW new \in SUBSET (Resvs \ Held(s)),
           \A r \in back : rstat[r] = "held",
           Taken(s)' = (Taken(s) \ back) \cup new,
           Held(s)' = (Held(s) \ back) \cup new,
           avail'[s] = avail[s] + Cardinality(back) - Cardinality(new),
           avail'[s] >= 0,
           sstat' = sstat
    PROVE  Balanced(s)'
<1>1. Cardinality(Taken(s)') = Cardinality(Taken(s)) - Cardinality(back) + Cardinality(new)
  <2>1. /\ Taken(s) \in SUBSET Resvs /\ back \in SUBSET Taken(s)
        /\ new \in SUBSET (Resvs \ Taken(s))
    BY Sizes DEF Held
  <2> QED
    BY <2>1, Exchange
<1>2. Cardinality(Held(s)') = Cardinality(Held(s)) - Cardinality(back) + Cardinality(new)
  <2>1. Held(s) \in SUBSET Resvs /\ back \in SUBSET Held(s)
    BY Sizes DEF Held
  <2> QED
    BY <2>1, Exchange
<1>3. Cardinality(back) \in Nat /\ Cardinality(new) \in Nat
  <2>1. back \in SUBSET Resvs /\ new \in SUBSET Resvs
    BY Sizes
  <2> QED
    BY <2>1, ResvsCardinality
<1>4. avail[s] \in Int /\ avail'[s] \in Int
  BY DEF TypeOK
<1> QED
  BY <1>1, <1>2, <1>3, <1>4, Sizes DEF Balanced

\* A step after which no more is taken and the same is held, or the sale over.
LEMMA ShrinkKeepsBalance ==
    ASSUME TypeOK, NEW s \in Sales, Balanced(s),
           Taken(s)' \subseteq Taken(s),
           \/ /\ avail'[s] = avail[s] /\ sstat'[s] = sstat[s]
              /\ Held(s)' = Held(s)
           \/ avail'[s] = 0 /\ sstat'[s] = "ended"
    PROVE  Balanced(s)'
<1>1. Cardinality(Taken(s)') <= Cardinality(Taken(s)) /\ Cardinality(Taken(s)') \in Nat
  <2>1. IsFiniteSet(Taken(s))
    BY Sizes, ResvsCardinality
  <2> QED
    BY <2>1, FS_Subset, FS_CardinalityType
<1>2. avail[s] \in Int
  BY DEF TypeOK
<1> QED
  BY <1>1, <1>2, Sizes DEF Balanced

\* How the sets of one sale change when holds are given up.
LEMMA GiveUpSets ==
    ASSUME TypeOK, NEW R, NEW st, NEW N, GiveUp(R, st, N), NEW s \in Sales
    PROVE  /\ Taken(s)' = (Taken(s) \ {r \in R : SaleOf[r] = s})
                             \cup {r \in N : SaleOf[r] = s}
           /\ st # "cleared" =>
                Held(s)' = (Held(s) \ {r \in R : SaleOf[r] = s})
                             \cup {r \in N : SaleOf[r] = s}
           /\ st = "cleared" /\ N = {} => Held(s)' = Held(s)
           /\ {r \in R : SaleOf[r] = s} \in SUBSET Taken(s)
           /\ {r \in N : SaleOf[r] = s} \in SUBSET (Resvs \ Held(s))
           /\ \A r \in R : rstat[r] = "held"
  BY DEF GiveUp, Dead, Taken, Held, Withdrawn

LEMMA BalanceReserve ==
    ASSUME TypeOK, TypeOK', LockedRowsHeld, NoOversell,
           NEW t \in Txns, ReserveCommit(t), NEW s \in Sales, Balanced(s)
    PROVE  Balanced(s)'
<1> DEFINE L == rowLocks[t]
           r == target[t]
<1>1. /\ r \in Resvs
      /\ \A l \in L : SaleOf[l] = SaleOf[r]
      /\ L \in SUBSET Resvs
  BY DEF TypeOK, LockedRowsHeld, ReserveCommit, Procs
<1>2. /\ sstat' = sstat
      /\ avail' = [avail EXCEPT ![SaleOf[r]] = @ + Cardinality(L) - 1]
      /\ avail[SaleOf[r]] + Cardinality(L) > 0
  BY DEF ReserveCommit, UnitToTake
<1>3. GiveUp(L, "expired", {r})
  BY GivingUp
<1>4. CASE s = SaleOf[r]
  <2>1. {l \in L : SaleOf[l] = s} = L /\ {l \in {r} : SaleOf[l] = s} = {r}
    BY <1>1, <1>4
  <2>2. /\ Taken(s)' = (Taken(s) \ L) \cup {r}
        /\ Held(s)' = (Held(s) \ L) \cup {r}
        /\ L \in SUBSET Taken(s) /\ {r} \in SUBSET (Resvs \ Held(s))
        /\ \A l \in L : rstat[l] = "held"
    <3>1. "expired" # "cleared"
      OBVIOUS
    <3> QED
      BY <1>3, <2>1, <3>1, GiveUpSets
  <2>3. Cardinality({r}) = 1
    BY FS_Singleton
  <2>4. Cardinality(L) \in Nat /\ avail[s] \in Int
    BY <1>1, ResvsCardinality DEF TypeOK
  <2>5. avail'[s] = avail[s] + Cardinality(L) - Cardinality({r}) /\ avail'[s] >= 0
    BY <1>2, <1>4, <2>3, <2>4 DEF TypeOK
  <2> HIDE DEF L, r
  <2> QED
    BY <1>2, <2>2, <2>5, ExchangeKeepsBalance
<1>5. CASE s # SaleOf[r]
  <2>1. {l \in L : SaleOf[l] = s} = {} /\ {l \in {r} : SaleOf[l] = s} = {}
    BY <1>1, <1>5
  <2>2. Taken(s)' = Taken(s) /\ Held(s)' = Held(s)
    <3>1. "expired" # "cleared"
      OBVIOUS
    <3>2. /\ Taken(s)' = (Taken(s) \ {l \in L : SaleOf[l] = s})
                           \cup {l \in {r} : SaleOf[l] = s}
          /\ Held(s)' = (Held(s) \ {l \in L : SaleOf[l] = s})
                          \cup {l \in {r} : SaleOf[l] = s}
      BY <1>3, <3>1, GiveUpSets
    <3> HIDE DEF L, r
    <3> QED
      BY <2>1, <3>2
  <2>3. avail'[s] = avail[s] /\ sstat'[s] = sstat[s]
    BY <1>2, <1>5 DEF TypeOK
  <2> QED
    BY <2>2, <2>3, ShrinkKeepsBalance
<1> QED
  BY <1>4, <1>5

\* Release and expiry: the units of R go back to the shelf of their sale.
LEMMA BalanceReturn ==
    ASSUME TypeOK, TypeOK', NEW R, NEW st, st # "cleared", GiveUp(R, st, {}),
           sstat' = sstat,
           NEW s \in Sales, Balanced(s),
           avail'[s] = avail[s] + Cardinality({r \in R : SaleOf[r] = s})
    PROVE  Balanced(s)'
<1> DEFINE back == {r \in R : SaleOf[r] = s}
<1>1. {r \in {} : SaleOf[r] = s} = {}
  OBVIOUS
<1>2. /\ Taken(s)' = (Taken(s) \ back) \cup {}
      /\ Held(s)' = (Held(s) \ back) \cup {}
      /\ back \in SUBSET Taken(s)
      /\ \A r \in back : rstat[r] = "held"
  BY <1>1, GiveUpSets
<1>3. Cardinality({}) = 0 /\ Cardinality(back) \in Nat /\ avail[s] \in Int
  <2>1. back \in SUBSET Resvs
    BY DEF GiveUp
  <2> QED
    BY <2>1, ResvsCardinality, FS_EmptySet DEF TypeOK
<1>4. /\ avail'[s] = avail[s] + Cardinality(back) - Cardinality({})
      /\ avail'[s] >= 0
  BY <1>3 DEF Balanced
<1>5. {} \in SUBSET (Resvs \ Held(s))
  OBVIOUS
<1> HIDE DEF back
<1> QED
  BY <1>2, <1>4, <1>5, ExchangeKeepsBalance

LEMMA BalancePayment ==
    ASSUME TypeOK, Settlement, NEW p \in Pays,
           StartPayment(p) \/ ApplyApproved(p) \/ ApplyDeclined(p),
           NEW s \in Sales, Balanced(s)
    PROVE  Balanced(s)'
<1>1. /\ avail' = avail /\ sstat' = sstat
      /\ \A r \in Resvs :
            \/ rstat'[r] = rstat[r]
            \/ rstat[r] = "held" /\ rstat'[r] = "paying"
            \/ rstat[r] = "paying" /\ rstat'[r] \in {"sold", "held", "cleared"}
  BY LabelsAssumption DEF StartPayment, HoldLive, ApplyApproved, ApplyDeclined,
     WithStatus, TypeOK
<1>2. Taken(s)' \subseteq Taken(s) /\ Held(s)' = Held(s)
  BY <1>1 DEF Taken, Held, Withdrawn
<1> QED
  BY <1>1, <1>2, ShrinkKeepsBalance

LEMMA OversellNext ==
    ASSUME TypeOK, TypeOK', LockedRowsHeld, Settlement, NoOversell, [Next]_vars
    PROVE  NoOversell'
<1> SUFFICES ASSUME NEW s \in Sales PROVE Balanced(s)'
  BY DEF NoOversell, Balanced, Held
<1>1. Balanced(s)
  BY DEF NoOversell, Balanced, Held
<1>2. ASSUME rstat' = rstat, avail' = avail, sstat' = sstat PROVE Balanced(s)'
  BY <1>1, <1>2 DEF Balanced, Taken, Held, Withdrawn
<1>3. ASSUME NEW t \in Txns, ReleaseCommit(t) PROVE Balanced(s)'
  <2>1. GiveUp({target[t]}, "released", {}) /\ sstat' = sstat
    BY <1>3, GivingUp DEF ReleaseCommit
  <2>2. avail'[s] = avail[s] + Cardinality({r \in {target[t]} : SaleOf[r] = s})
    <3>1. CASE SaleOf[target[t]] = s
      <4>1. {r \in {target[t]} : SaleOf[r] = s} = {target[t]}
        BY <3>1
      <4> QED
        BY <1>3, <3>1, <4>1, FS_Singleton DEF ReleaseCommit, TypeOK
    <3>2. CASE SaleOf[target[t]] # s
      <4>1. {r \in {target[t]} : SaleOf[r] = s} = {}
        BY <3>2
      <4> QED
        <5>1. avail'[s] = avail[s] /\ avail[s] \in Int
          BY <1>3, <3>2 DEF ReleaseCommit, TypeOK
        <5> QED
          BY <4>1, <5>1, FS_EmptySet
    <3> QED
      BY <3>1, <3>2
  <2>3. "released" # "cleared"
    OBVIOUS
  <2> QED
    BY <1>1, <2>1, <2>2, <2>3, BalanceReturn
<1>4. ASSUME NEW w \in Workers, ExpireCommit(w) PROVE Balanced(s)'
  <2>1. GiveUp(rowLocks[w], "expired", {}) /\ sstat' = sstat
    BY <1>4, GivingUp DEF ExpireCommit
  <2>2. avail'[s] = avail[s] + Cardinality({r \in rowLocks[w] : SaleOf[r] = s})
    BY <1>4 DEF ExpireCommit, WithReturned
  <2>3. "expired" # "cleared"
    OBVIOUS
  <2> QED
    BY <1>1, <2>1, <2>2, <2>3, BalanceReturn
<1>5. ASSUME NEW w \in Workers, SweepCommit(w) PROVE Balanced(s)'
  <2>1. GiveUp(rowLocks[w], "cleared", {})
    BY <1>5, GivingUp
  <2>2. Taken(s)' \subseteq Taken(s) /\ Held(s)' = Held(s)
    BY <2>1, GiveUpSets
  <2>3. \/ avail'[s] = avail[s] /\ sstat'[s] = sstat[s]
        \/ avail'[s] = 0 /\ sstat'[s] = "ended"
    BY <1>5 DEF SweepCommit
  <2> QED
    BY <1>1, <2>2, <2>3, ShrinkKeepsBalance
<1> QED
  BY <1>1, <1>2, <1>3, <1>4, <1>5, WriteOrQuiet, BalanceReserve, BalancePayment
    DEF Write, OrderInsert, rows

\* The shop never sells more than it has and never loses a unit on the way.
THEOREM NothingOversold == Spec => []NoOversell
<1>1. Init => NoOversell
  <2> SUFFICES ASSUME Init, NEW s \in Sales PROVE Balanced(s)
    BY DEF NoOversell, Balanced, Held
  <2>1. Taken(s) = {} /\ Held(s) = {} /\ avail[s] = Quantity[s]
    BY DEF Init, Taken, Held, Withdrawn
  <2> QED
    BY <2>1, FS_EmptySet, QuantityAssumption DEF Balanced
<1>2. Spec => []Settlement
  BY SettlementInit, SettlementNext, TypeCorrect, LocksHold, PTL DEF Spec
<1> QED
  BY <1>1, <1>2, OversellNext, TypeCorrect, LocksHold, PTL DEF Spec

-----------------------------------------------------------------------------
(***************************************************************************)
(* The state machines.                                                     *)
(***************************************************************************)
LEMMA LegalNext ==
    ASSUME TypeOK, LockedRowsHeld, Settlement, [Next]_vars
    PROVE  LegalStep
<1>1. CASE UNCHANGED rows
  BY <1>1 DEF rows, LegalStep
<1>2. ASSUME NEW R, NEW st, NEW N, GiveUp(R, st, N),
             \A s \in Sales : sstat[s] = "ended" => sstat'[s] = "ended"
      PROVE  LegalStep
  BY <1>2 DEF GiveUp, Dead, WithCancelled, LegalStep, LegalResv, LegalOrder
<1>3. /\ \A t \in Txns : ReserveCommit(t) \/ ReleaseCommit(t) => sstat' = sstat
      /\ \A w \in Workers : ExpireCommit(w) => sstat' = sstat
      /\ \A w \in Workers : SweepCommit(w) =>
            \A s \in Sales : sstat[s] = "ended" => sstat'[s] = "ended"
  BY DEF ReserveCommit, ReleaseCommit, ExpireCommit, SweepCommit
<1>4. ASSUME NEW t \in Txns, OrderInsert(t) PROVE LegalStep
  BY <1>4 DEF OrderInsert, TypeOK, LegalStep, LegalOrder
<1>5. ASSUME NEW p \in Pays, StartPayment(p) PROVE LegalStep
  BY <1>5, LabelsAssumption DEF StartPayment, HoldLive, TypeOK, LegalStep,
     LegalResv, LegalPay
<1>6. ASSUME NEW p \in Pays, ApplyApproved(p) PROVE LegalStep
  BY <1>6, LabelsAssumption DEF ApplyApproved, TypeOK, LegalStep,
     LegalResv, LegalPay, LegalOrder
<1>7. ASSUME NEW p \in Pays, ApplyDeclined(p) PROVE LegalStep
  BY <1>7, LabelsAssumption DEF ApplyDeclined, WithStatus, WithCancelled, TypeOK,
     LegalStep, LegalResv, LegalPay, LegalOrder
<1> QED
  BY <1>1, <1>2, <1>3, <1>4, <1>5, <1>6, <1>7, WriteOrQuiet, GivingUp DEF Write

\* No interleaving takes a row through a transition enums.py does not list.
THEOREM TransitionsLegal == Spec => LegalTransitions
<1>1. TypeOK /\ LockedRowsHeld /\ Settlement /\ [Next]_vars => [LegalStep]_vars
  BY LegalNext
<1>2. Spec => []Settlement
  BY SettlementInit, SettlementNext, TypeCorrect, LocksHold, PTL DEF Spec
<1> QED
  BY <1>1, <1>2, TypeCorrect, LocksHold, PTL DEF Spec, LegalTransitions

=============================================================================
