------------------------------ MODULE FlashSale ------------------------------
(***************************************************************************)
(* The flash-sale core: the rows of sales, reservations, orders, payments  *)
(* and notifications, and every database transaction that changes them     *)
(* after a sale has been created: reserve and release (app/services/       *)
(* cart.py), create_order (orders.py), start_payment and                   *)
(* apply_payment_result (payments.py), and the two sweeps a scheduler tick *)
(* runs, end_ended_sales and run_once (app/scheduler.py).                  *)
(*                                                                         *)
(* Postgres runs these transactions READ COMMITTED.  A transaction is a    *)
(* few actions, cut where it may wait for a row lock another transaction   *)
(* holds or where it uses a value it read earlier without a lock.  Its     *)
(* writes take effect at its commit, since nobody reads them before; until *)
(* then it owns the row locks its statements took.  "now" is the start     *)
(* time of the transaction (app/clock.py), so it may be older than the     *)
(* present.  A row the code has not inserted yet is "absent", and the row  *)
(* it will be is named in advance by the constants SaleOf, BuyerOf and     *)
(* OrderOf; an order is named by its reservation, which is unique in the   *)
(* table of orders.                                                        *)
(***************************************************************************)
EXTENDS Integers, FiniteSets

CONSTANTS
    Sales, Users,
    Resvs,          \* reservation ids the sequence may hand out
    Pays,           \* payment attempts (provider references)
    Txns,           \* database sessions of HTTP requests
    Workers,        \* sessions of scheduler loops, one per app process
    SaleOf,         \* [Resvs -> Sales], [Resvs -> Users], [Pays -> Resvs]:
    BuyerOf,        \*   the foreign keys of the rows to come
    OrderOf,
    Quantity,       \* [Sales -> units on sale]
    StartsAt,       \* [Sales -> starts_at]
    EndsAt,         \* [Sales -> ends_at]
    HoldTime,       \* HOLD_MINUTES
    MaxTime,        \* bound: the clock stops here
    MaxLag,         \* bound: how old "now" is when its transaction first uses it
    MaxRollbacks,   \* bound: transactions lost to a crash or a cut connection
    NoResv          \* what a transaction that names no reservation targets

ASSUME LabelsAssumption ==
    /\ SaleOf \in [Resvs -> Sales]
    /\ BuyerOf \in [Resvs -> Users]
    /\ OrderOf \in [Pays -> Resvs]
    /\ NoResv \notin Resvs

ASSUME ResvsFinite == IsFiniteSet(Resvs)

ASSUME WindowAssumption ==
    /\ StartsAt \in [Sales -> Nat]
    /\ EndsAt \in [Sales -> Nat]
    /\ \A s \in Sales : StartsAt[s] < EndsAt[s]

ASSUME QuantityAssumption ==
    /\ Quantity \in [Sales -> Nat]
    /\ \A s \in Sales : Quantity[s] > 0

ASSUME TimeAssumption ==
    /\ HoldTime \in Nat \ {0}
    /\ MaxTime \in Nat
    /\ MaxLag \in Nat
    /\ MaxRollbacks \in Nat

ASSUME SessionsAssumption == Txns \cap Workers = {}

VARIABLES
    time,       \* the database server's clock
    avail,      \* sales.available
    sstat,      \* sales.status
    rstat,      \* reservations.status
    rexp,       \* reservations.expires_at
    order,      \* orders.status, by reservation
    pay,        \* payments.status
    outbox,     \* notifications: pairs of a kind and its entity
    pc,         \* where the open transaction of a session stands
    now,        \* the "now" it works with
    target,     \* the reservation it names
    rowLocks,   \* the reservation rows it has locked
    saleLocks,  \* the sale rows it has locked
    due,        \* the ended sales a sweep has still to visit
    todo,       \* the reservation rows a sweep has still to visit
    rollbacks   \* transactions lost so far

rows == <<avail, sstat, rstat, rexp, order, pay, outbox>>
session == <<pc, now, target, rowLocks, saleLocks, due, todo>>
vars == <<time, rows, session, rollbacks>>

Procs == Txns \cup Workers

ResvStatus == {"absent", "held", "paying", "sold",
               "expired", "released", "cleared"}
ActiveResv == {"held", "paying"}

(***************************************************************************)
(* Helpers.                                                                *)
(***************************************************************************)
Least(a, b) == IF a < b THEN a ELSE b

\* The clock of an app host that runs ahead of the database's.
Nows_HostClock == 0 .. time + 1

\* The values "SELECT now()" may have returned to the transaction whose first
\* statement runs at this moment.
Nows == {n \in 0 .. time : time <= n + MaxLag}

\* The rows of a set of reservations with a new status, and the orders of
\* those reservations that are still pending cancelled.
WithStatus(R, st) == [r \in Resvs |-> IF r \in R THEN st ELSE rstat[r]]
WithCancelled(R) ==
    [r \in Resvs |-> IF r \in R /\ order[r] = "pending"
                     THEN "cancelled" ELSE order[r]]

\* Units a set of reservations of several sales returns to the shelf.
WithReturned(R) ==
    [s \in Sales |-> avail[s] + Cardinality({r \in R : SaleOf[r] = s})]

\* A row lock that keeps nobody out: FOR UPDATE, or the UPDATE's wait, left away.
RowFree_NoLock(p, r) == TRUE

\* Scheduler loops that keep requests out, and not each other.
RowFree_OneLoop(p, r) ==
    \A q \in Procs \ {p} : r \in rowLocks[q] => {p, q} \subseteq Workers

RowFree(p, r) == \A q \in Procs \ {p} : r \notin rowLocks[q]
SaleFree(p, s) == \A q \in Procs \ {p} : s \notin saleLocks[q]

Idle(p) == pc[p] = "idle"

\* The transaction of p is over: its locks are gone.
Close(p) ==
    /\ pc' = [pc EXCEPT ![p] = "idle"]
    /\ now' = [now EXCEPT ![p] = 0]
    /\ target' = [target EXCEPT ![p] = NoResv]
    /\ rowLocks' = [rowLocks EXCEPT ![p] = {}]
    /\ saleLocks' = [saleLocks EXCEPT ![p] = {}]
    /\ due' = [due EXCEPT ![p] = {}]
    /\ todo' = [todo EXCEPT ![p] = {}]

TypeOK ==
    /\ time \in 0 .. MaxTime
    /\ avail \in [Sales -> Int]
    /\ sstat \in [Sales -> {"active", "ended"}]
    /\ rstat \in [Resvs -> ResvStatus]
    /\ rexp \in [Resvs -> Nat]
    /\ order \in [Resvs -> {"absent", "pending", "paid", "cancelled"}]
    /\ pay \in [Pays -> {"absent", "pending", "approved", "declined"}]
    /\ outbox \in SUBSET ({"order_paid", "cart_cleared"} \X Resvs)
    /\ pc \in [Procs -> {"idle", "reserve", "release", "order",
                         "sweep", "swept", "expire"}]
    /\ now \in [Procs -> Nat]
    /\ \A p \in Procs : now[p] <= time
    /\ target \in [Procs -> Resvs \cup {NoResv}]
    /\ \A p \in Procs : pc[p] \in {"reserve", "release", "order"} => target[p] \in Resvs
    /\ rowLocks \in [Procs -> SUBSET Resvs]
    /\ saleLocks \in [Procs -> SUBSET Sales]
    /\ due \in [Procs -> SUBSET Sales]
    /\ todo \in [Procs -> SUBSET Resvs]
    /\ rollbacks \in 0 .. MaxRollbacks

Init ==
    /\ time = 0
    /\ avail = Quantity
    /\ sstat = [s \in Sales |-> "active"]
    /\ rstat = [r \in Resvs |-> "absent"]
    /\ rexp = [r \in Resvs |-> 0]
    /\ order = [r \in Resvs |-> "absent"]
    /\ pay = [p \in Pays |-> "absent"]
    /\ outbox = {}
    /\ pc = [p \in Procs |-> "idle"]
    /\ now = [p \in Procs |-> 0]
    /\ target = [p \in Procs |-> NoResv]
    /\ rowLocks = [p \in Procs |-> {}]
    /\ saleLocks = [p \in Procs |-> {}]
    /\ due = [p \in Procs |-> {}]
    /\ todo = [p \in Procs |-> {}]
    /\ rollbacks = 0

Advance ==
    /\ time < MaxTime
    /\ time' = time + 1
    /\ UNCHANGED <<rows, session, rollbacks>>

(***************************************************************************)
(* POST /sales/{id}/reserve.  _expire_lapsed_hold locks the buyer's lapsed *)
(* hold on this sale, waiting for it if need be; everything up to the      *)
(* commit then needs the sale row only, and the unique index of active     *)
(* reservations, which subsumes the pre-check.  When any of it refuses,    *)
(* the session closes uncommitted and the lazy expiry is undone as well.   *)
(***************************************************************************)
\* Without the guard on the status a payment in progress counts as lapsed.
Lapsed_AnyActive(s, u, n) ==
    {r \in Resvs : /\ SaleOf[r] = s
                   /\ BuyerOf[r] = u
                   /\ rstat[r] \in ActiveResv
                   /\ rexp[r] <= n}

Lapsed(s, u, n) ==
    {r \in Resvs : /\ SaleOf[r] = s
                   /\ BuyerOf[r] = u
                   /\ rstat[r] = "held"
                   /\ rexp[r] <= n}

ReserveLapse(t, r) ==
    /\ Idle(t)
    /\ rstat[r] = "absent"
    /\ \A q \in Txns : target[q] # r
    /\ \E n \in Nows :
        LET L == Lapsed(SaleOf[r], BuyerOf[r], n) IN
        /\ \A l \in L : RowFree(t, l)
        /\ now' = [now EXCEPT ![t] = n]
        /\ rowLocks' = [rowLocks EXCEPT ![t] = L]
    /\ pc' = [pc EXCEPT ![t] = "reserve"]
    /\ target' = [target EXCEPT ![t] = r]
    /\ UNCHANGED <<time, rows, saleLocks, due, todo, rollbacks>>

\* UPDATE sales ... WHERE available > 0 AND starts_at <= now AND now < ends_at,
\* after the lapsed hold went back to the shelf.
UnitToTake(t, s) ==
    /\ avail[s] + Cardinality(rowLocks[t]) > 0
    /\ StartsAt[s] <= now[t]
    /\ now[t] < EndsAt[s]

\* The pre-check only, no unique index behind it.
NoActiveTwin_PreCheckOnly(t, r) ==
    \A r2 \in Resvs \ rowLocks[t] :
        (SaleOf[r2] = SaleOf[r] /\ BuyerOf[r2] = BuyerOf[r] /\ rexp[r2] > now[t])
            => rstat[r2] \notin ActiveResv

\* uq_reservations_sale_user_active
NoActiveTwin(t, r) ==
    \A r2 \in Resvs \ rowLocks[t] :
        (SaleOf[r2] = SaleOf[r] /\ BuyerOf[r2] = BuyerOf[r])
            => rstat[r2] \notin ActiveResv

ReserveCommit(t) ==
    LET r == target[t]
        s == SaleOf[r]
        L == rowLocks[t]
    IN  /\ pc[t] = "reserve"
        /\ SaleFree(t, s)
        /\ UnitToTake(t, s)
        /\ NoActiveTwin(t, r)
        /\ avail' = [avail EXCEPT ![s] = @ + Cardinality(L) - 1]
        /\ rstat' = [WithStatus(L, "expired") EXCEPT ![r] = "held"]
        /\ rexp' = [rexp EXCEPT ![r] = Least(now[t] + HoldTime, EndsAt[s])]
        /\ order' = WithCancelled(L)
        /\ Close(t)
        /\ UNCHANGED <<time, sstat, pay, outbox, rollbacks>>

ReserveRefused(t) ==
    /\ pc[t] = "reserve"
    /\ SaleFree(t, SaleOf[target[t]])
    /\ ~(UnitToTake(t, SaleOf[target[t]]) /\ NoActiveTwin(t, target[t]))
    /\ Close(t)
    /\ UNCHANGED <<time, rows, rollbacks>>

(***************************************************************************)
(* DELETE /reservations/{id} by its owner: the guarded UPDATE locks the    *)
(* reservation, the next one waits for the sale.  A refusal changes        *)
(* nothing and is no step.                                                 *)
(***************************************************************************)
Releasable_AnyStatus(r, n) == rstat[r] # "absent" /\ rexp[r] > n

Releasable(r, n) == rstat[r] = "held" /\ rexp[r] > n

ReleaseLock(t, r) ==
    /\ Idle(t)
    /\ RowFree(t, r)
    /\ \E n \in Nows :
        /\ Releasable(r, n)
        /\ now' = [now EXCEPT ![t] = n]
    /\ pc' = [pc EXCEPT ![t] = "release"]
    /\ target' = [target EXCEPT ![t] = r]
    /\ rowLocks' = [rowLocks EXCEPT ![t] = {r}]
    /\ UNCHANGED <<time, rows, saleLocks, due, todo, rollbacks>>

ReleaseCommit(t) ==
    LET r == target[t]
        s == SaleOf[r]
    IN  /\ pc[t] = "release"
        /\ SaleFree(t, s)
        /\ avail' = [avail EXCEPT ![s] = @ + 1]
        /\ rstat' = [rstat EXCEPT ![r] = "released"]
        /\ order' = WithCancelled({r})
        /\ Close(t)
        /\ UNCHANGED <<time, sstat, rexp, pay, outbox, rollbacks>>

(***************************************************************************)
(* POST /orders.  The reservation is read without a lock and trusted until *)
(* the INSERT, whose foreign keys wait only for a SELECT ... FOR UPDATE:   *)
(* run_once's on the reservation, end_ended_sales' on the sale.  A second  *)
(* order of the same reservation meets a unique index (or, under the same  *)
(* idempotency key, is the first one): the code answers from the row that  *)
(* won and changes nothing.                                                *)
(***************************************************************************)
OrderRead(t, r) ==
    /\ Idle(t)
    /\ rstat[r] = "held"
    /\ \E n \in Nows : rexp[r] > n
    /\ pc' = [pc EXCEPT ![t] = "order"]
    /\ target' = [target EXCEPT ![t] = r]
    /\ UNCHANGED <<time, rows, now, rowLocks, saleLocks, due, todo, rollbacks>>

KeyShareFree(r) ==
    /\ \A w \in Workers : pc[w] = "expire" => r \notin rowLocks[w]
    /\ \A w \in Workers : pc[w] = "sweep" => SaleOf[r] \notin saleLocks[w]

OrderInsert(t) ==
    /\ pc[t] = "order"
    /\ order[target[t]] = "absent"
    /\ KeyShareFree(target[t])
    /\ order' = [order EXCEPT ![target[t]] = "pending"]
    /\ Close(t)
    /\ UNCHANGED <<time, avail, sstat, rstat, rexp, pay, outbox, rollbacks>>

OrderConflict(t) ==
    /\ pc[t] = "order"
    /\ order[target[t]] # "absent"
    /\ Close(t)
    /\ UNCHANGED <<time, rows, rollbacks>>

(***************************************************************************)
(* POST /orders/{id}/pay up to its first commit (start_payment).  The one  *)
(* row it can wait for is the reservation, and the guard is evaluated      *)
(* again when the wait is over, so it is one step.                         *)
(***************************************************************************)
HoldLive_AnyStatus(r, n) == rexp[r] > n /\ n < EndsAt[SaleOf[r]]

HoldLive(r, n) ==
    /\ rstat[r] = "held"
    /\ rexp[r] > n
    /\ n < EndsAt[SaleOf[r]]

\* uq_payments_order_pending
NoPendingPayment(r) == \A p \in Pays : OrderOf[p] = r => pay[p] # "pending"

StartPayment(p) ==
    LET r == OrderOf[p]
    IN  /\ pay[p] = "absent"
        /\ order[r] # "absent"
        /\ \E n \in Nows : HoldLive(r, n)
        /\ \A q \in Procs : r \notin rowLocks[q]
        /\ NoPendingPayment(r)
        /\ rstat' = [rstat EXCEPT ![r] = "paying"]
        /\ pay' = [pay EXCEPT ![p] = "pending"]
        /\ UNCHANGED <<time, avail, sstat, rexp, order, outbox,
                       session, rollbacks>>

(***************************************************************************)
(* apply_payment_result, called with the synchronous answer, by the        *)
(* webhook and by the shop's check-status button, any number of times: the *)
(* pending guard lets one through.  Its rows (a pending payment, its order *)
(* and a paying reservation) are locked by no other transaction.           *)
(***************************************************************************)
ApplyApproved(p) ==
    LET r == OrderOf[p]
    IN  /\ pay[p] = "pending"
        /\ pay' = [pay EXCEPT ![p] = "approved"]
        /\ order' = IF order[r] = "pending"
                     THEN [order EXCEPT ![r] = "paid"] ELSE order
        /\ rstat' = IF order[r] = "pending" /\ rstat[r] = "paying"
                     THEN [rstat EXCEPT ![r] = "sold"] ELSE rstat
        /\ <<"order_paid", r>> \notin outbox
        /\ outbox' = IF order[r] = "pending"
                      THEN outbox \cup {<<"order_paid", r>>} ELSE outbox
        /\ UNCHANGED <<time, avail, sstat, rexp, session, rollbacks>>


\* A decline finds its sale over: sale.ends_at <= now.
SaleOver_Ignored(s, n) == FALSE

SaleOver(s, n) == EndsAt[s] <= n

\* The letters a set of cleared reservations adds to the outbox.
ClearLetters_NoneOnDecline(R) ==
    {"cart_cleared"} \X {r \in R : rstat[r] = "held"}

ClearLetters(R) == {"cart_cleared"} \X R

ApplyDeclined(p) ==
    LET r == OrderOf[p]
        R == IF rstat[r] = "paying" THEN {r} ELSE {}
    IN  /\ pay[p] = "pending"
        /\ pay' = [pay EXCEPT ![p] = "declined"]
        /\ \E n \in Nows :
            \/ /\ SaleOver(SaleOf[r], n)
               /\ rstat' = WithStatus(R, "cleared")
               /\ order' = WithCancelled({r})
               /\ <<"cart_cleared", r>> \notin outbox
               /\ outbox' = outbox \cup ClearLetters({r})
            \/ /\ ~SaleOver(SaleOf[r], n)
               /\ rstat' = WithStatus(R, "held")
               /\ UNCHANGED <<order, outbox>>
        /\ UNCHANGED <<time, avail, sstat, rexp, session, rollbacks>>

(***************************************************************************)
(* A scheduler tick takes one "now" and runs end_ended_sales, run_once and *)
(* send_pending, each its own transaction (send_pending is the subject of  *)
(* module Outbox).  SELECT ... FOR UPDATE SKIP LOCKED picks the ended      *)
(* sales no other session has locked; with none the transaction is empty.  *)
(***************************************************************************)
SweepSelect(w) ==
    /\ Idle(w)
    /\ \E n \in Nows :
        LET ended == {s \in Sales : /\ EndsAt[s] <= n
                                   /\ sstat[s] = "active"
                                   /\ SaleFree(w, s)}
        IN  /\ now' = [now EXCEPT ![w] = n]
            /\ saleLocks' = [saleLocks EXCEPT ![w] = ended]
            /\ due' = [due EXCEPT ![w] = ended]
            /\ pc' = [pc EXCEPT ![w] = IF ended = {} THEN "swept" ELSE "sweep"]
    /\ UNCHANGED <<time, rows, target, rowLocks, todo, rollbacks>>

\* The held reservations of the next ended sale, read without a lock.
SweepSale(w, s) ==
    /\ pc[w] = "sweep"
    /\ todo[w] = {}
    /\ s \in due[w]
    /\ due' = [due EXCEPT ![w] = @ \ {s}]
    /\ todo' = [todo EXCEPT ![w] =
                   {r \in Resvs : SaleOf[r] = s /\ rstat[r] = "held"}]
    /\ UNCHANGED <<time, rows, pc, now, target, rowLocks, saleLocks, rollbacks>>

\* UPDATE reservations ... WHERE id AND status = 'held': it waits for a held
\* row that is locked, and leaves alone one that is no longer held.
SweepClear(w, r) ==
    /\ pc[w] = "sweep"
    /\ r \in todo[w]
    /\ rstat[r] = "held"
    /\ RowFree(w, r)
    /\ rowLocks' = [rowLocks EXCEPT ![w] = @ \cup {r}]
    /\ todo' = [todo EXCEPT ![w] = @ \ {r}]
    /\ UNCHANGED <<time, rows, pc, now, target, saleLocks, due, rollbacks>>

SweepSkip(w, r) ==
    /\ pc[w] = "sweep"
    /\ r \in todo[w]
    /\ rstat[r] # "held"
    /\ todo' = [todo EXCEPT ![w] = @ \ {r}]
    /\ UNCHANGED <<time, rows, pc, now, target, rowLocks, saleLocks, due,
                   rollbacks>>

SweepCommit(w) ==
    LET cleared == rowLocks[w]
    IN  /\ pc[w] = "sweep"
        /\ due[w] = {}
        /\ todo[w] = {}
        /\ ClearLetters(cleared) \cap outbox = {}
        /\ sstat' = [s \in Sales |->
                       IF s \in saleLocks[w] THEN "ended" ELSE sstat[s]]
        /\ avail' = [s \in Sales |-> IF s \in saleLocks[w] THEN 0 ELSE avail[s]]
        /\ rstat' = WithStatus(cleared, "cleared")
        /\ order' = WithCancelled(cleared)
        /\ outbox' = outbox \cup ClearLetters(cleared)
        /\ pc' = [pc EXCEPT ![w] = "swept"]
        /\ rowLocks' = [rowLocks EXCEPT ![w] = {}]
        /\ saleLocks' = [saleLocks EXCEPT ![w] = {}]
        /\ UNCHANGED <<time, rexp, pay, now, target, due, todo, rollbacks>>

\* run_once: the lapsed holds of sales still open at the tick's now, in any
\* order; each needs its sale row, which the transaction then keeps.
LapsedOpen_BuyersOnly(r, n) == FALSE

LapsedOpen(r, n) ==
    /\ rstat[r] = "held"
    /\ rexp[r] <= n
    /\ EndsAt[SaleOf[r]] > n

ExpireSelect(w) ==
    LET lapsed == {r \in Resvs : LapsedOpen(r, now[w]) /\ RowFree(w, r)}
    IN  /\ pc[w] = "swept"
        /\ IF lapsed = {}
           THEN Close(w)
           ELSE /\ pc' = [pc EXCEPT ![w] = "expire"]
                /\ rowLocks' = [rowLocks EXCEPT ![w] = lapsed]
                /\ todo' = [todo EXCEPT ![w] = lapsed]
                /\ UNCHANGED <<now, target, saleLocks, due>>
        /\ UNCHANGED <<time, rows, rollbacks>>

ExpireReturn(w, r) ==
    /\ pc[w] = "expire"
    /\ r \in todo[w]
    /\ SaleFree(w, SaleOf[r])
    /\ saleLocks' = [saleLocks EXCEPT ![w] = @ \cup {SaleOf[r]}]
    /\ todo' = [todo EXCEPT ![w] = @ \ {r}]
    /\ UNCHANGED <<time, rows, pc, now, target, rowLocks, due, rollbacks>>

ExpireCommit(w) ==
    /\ pc[w] = "expire"
    /\ todo[w] = {}
    /\ rstat' = WithStatus(rowLocks[w], "expired")
    /\ avail' = WithReturned(rowLocks[w])
    /\ order' = WithCancelled(rowLocks[w])
    /\ Close(w)
    /\ UNCHANGED <<time, sstat, rexp, pay, outbox, rollbacks>>

(***************************************************************************)
(* What ends a transaction from outside.  A crash, a cut connection or a   *)
(* cancelled loop loses it at any point.  Requests lock a reservation      *)
(* before its sale and end_ended_sales locks the sale first, so they can   *)
(* wait for each other in a circle: Postgres aborts one of them.           *)
(***************************************************************************)
Abort(p) ==
    /\ Close(p)
    /\ UNCHANGED <<time, rows>>

Rollback(p) ==
    /\ ~Idle(p)
    /\ rollbacks < MaxRollbacks
    /\ rollbacks' = rollbacks + 1
    /\ Abort(p)

WaitsFor(p, q) ==
    /\ p # q
    /\ \/ /\ pc[p] \in {"reserve", "release"}
          /\ SaleOf[target[p]] \in saleLocks[q]
       \/ /\ pc[p] = "sweep"
          /\ \E r \in todo[p] : rstat[r] = "held" /\ r \in rowLocks[q]
       \/ /\ pc[p] = "expire"
          /\ \E r \in todo[p] : SaleOf[r] \in saleLocks[q]

InCircle_Undetected(p) == FALSE

InCircle(p) ==
    \E C \in SUBSET Procs :
        /\ p \in C
        /\ \A q \in C : \E q2 \in C : WaitsFor(q, q2)
        /\ \A q \in C : \E q2 \in C : WaitsFor(q2, q)

DeadlockVictim(p) ==
    /\ InCircle(p)
    /\ Abort(p)
    /\ UNCHANGED rollbacks

(***************************************************************************)
(* The system.                                                             *)
(***************************************************************************)
RequestStep(t) ==
    \/ ReserveCommit(t) \/ ReserveRefused(t)
    \/ ReleaseCommit(t)
    \/ OrderInsert(t) \/ OrderConflict(t)

Request(t) ==
    \/ \E r \in Resvs : \/ ReserveLapse(t, r)
                        \/ ReleaseLock(t, r)
                        \/ OrderRead(t, r)
    \/ RequestStep(t)

Tick(w) ==
    \/ SweepSelect(w)
    \/ \E s \in Sales : SweepSale(w, s)
    \/ \E r \in Resvs : SweepClear(w, r) \/ SweepSkip(w, r)
    \/ SweepCommit(w)
    \/ ExpireSelect(w)
    \/ \E r \in Resvs : ExpireReturn(w, r)
    \/ ExpireCommit(w)

Payment(p) == StartPayment(p) \/ ApplyApproved(p) \/ ApplyDeclined(p)

Next ==
    \/ Advance
    \/ \E t \in Txns : Request(t)
    \/ \E w \in Workers : Tick(w)
    \/ \E p \in Pays : Payment(p)
    \/ \E p \in Procs : Rollback(p) \/ DeadlockVictim(p)

Spec == Init /\ [][Next]_vars

\* Time passes, an open request is carried through, a loop keeps ticking
\* (asyncio.sleep, then the next tick), a row lock is granted in the order of
\* its queue and Postgres' deadlock_timeout runs out.  Nobody promises that a
\* buyer comes back or that a payment is ever settled.
Fairness ==
    /\ WF_vars(Advance)
    /\ \A t \in Txns : SF_vars(RequestStep(t))
    /\ \A w \in Workers :
        /\ WF_vars(Tick(w))
        /\ \A r \in Resvs : SF_vars(SweepClear(w, r)) /\ SF_vars(ExpireReturn(w, r))
    /\ \A p \in Procs : WF_vars(DeadlockVictim(p))

LiveSpec == Spec /\ Fairness

(***************************************************************************)
(* Properties.                                                             *)
(***************************************************************************)
Taken(s) ==
    {r \in Resvs : SaleOf[r] = s /\ rstat[r] \in {"held", "paying", "sold"}}


\* Units a decline after the end has withdrawn with its reservation.
Withdrawn(s) == {r \in Resvs : SaleOf[r] = s /\ rstat[r] = "cleared"}

\* No unit is sold twice and none is lost: while a sale is active the units on
\* its shelf, in carts, in payment, sold and withdrawn add up to its quantity,
\* whoever reserves, releases, expires and settles at the same time (cart.py's
\* "available - 1", every "available + 1"); once it has ended, what is on the
\* shelf and what is taken never add up to more.
NoOversell ==
    \A s \in Sales :
        /\ avail[s] >= 0
        /\ avail[s] + Cardinality(Taken(s)) <= Quantity[s]
        /\ sstat[s] = "active" =>
              avail[s] + Cardinality(Taken(s) \cup Withdrawn(s)) = Quantity[s]

\* However many tabs a buyer clicks in, one reservation per buyer and sale is
\* held or being paid for (uq_reservations_sale_user_active, cart.py:93-105).
OneActivePerBuyer ==
    \A r1, r2 \in Resvs :
        /\ SaleOf[r1] = SaleOf[r2] /\ BuyerOf[r1] = BuyerOf[r2]
        /\ rstat[r1] \in ActiveResv /\ rstat[r2] \in ActiveResv
        => r1 = r2

\* A reservation is being paid for exactly while one payment of its order is
\* pending, and its order is pending with it: no sweep, release or lazy expiry
\* takes the unit from under a running charge (scheduler.py:76, 92-94), so
\* the branch of payments.py:157-163 is never taken.
PayingIffPending ==
    \A r \in Resvs :
        LET running == {p \in Pays : OrderOf[p] = r /\ pay[p] = "pending"} IN
        /\ rstat[r] = "paying" <=> running # {}
        /\ \A p, q \in running : p = q
        /\ rstat[r] = "paying" => order[r] = "pending"

\* Charged, paid and sold are one fact: an order is paid exactly when one of
\* its payments was approved and its reservation is sold, and a cancelled
\* order has given its unit up (payments.py:148-180).
SettledTogether ==
    \A r \in Resvs :
        /\ order[r] = "paid" <=> rstat[r] = "sold"
        /\ order[r] = "paid" <=>
              \E p \in Pays : OrderOf[p] = r /\ pay[p] = "approved"
        /\ order[r] = "cancelled" => rstat[r] \in {"expired", "released", "cleared"}

\* The outbox holds a letter for every order paid and for every reservation
\* cleared, by the sweep or by a late decline, and for nothing else.
OutboxMatches ==
    outbox = {<<"order_paid", r>> : r \in {x \in Resvs : order[x] = "paid"}}
             \cup {<<"cart_cleared", r>> :
                     r \in {x \in Resvs : rstat[x] = "cleared"}}

\* The state machines of enums.py:58-90, which the code enforces only by the
\* WHERE of each UPDATE: no interleaving makes a row take another transition.
LegalResv == {<<"absent", "held">>,
              <<"held", "paying">>, <<"held", "expired">>,
              <<"held", "released">>, <<"held", "cleared">>,
              <<"paying", "sold">>, <<"paying", "held">>, <<"paying", "cleared">>}
LegalOrder == {<<"absent", "pending">>, <<"pending", "paid">>,
               <<"pending", "cancelled">>}
LegalPay == {<<"absent", "pending">>, <<"pending", "approved">>,
             <<"pending", "declined">>}

LegalStep ==
    /\ \A r \in Resvs :
        /\ rstat'[r] # rstat[r] => <<rstat[r], rstat'[r]>> \in LegalResv
        /\ order'[r] # order[r] => <<order[r], order'[r]>> \in LegalOrder
    /\ \A p \in Pays : pay'[p] # pay[p] => <<pay[p], pay'[p]>> \in LegalPay
    /\ \A s \in Sales : sstat[s] = "ended" => sstat'[s] = "ended"

LegalTransitions == [][LegalStep]_vars

\* A row lock is worth something: the reservation rows a transaction has locked
\* are its alone and still held at its commit, the unit it gives back with them
\* is still out, and a reservation it is about to insert is still to come.
LockedRowsHeld ==
    /\ \A p \in Procs : \A r \in rowLocks[p] : rstat[r] = "held"
    /\ \A p, q \in Procs : p # q => rowLocks[p] \cap rowLocks[q] = {}
    /\ \A p \in Procs :
        /\ pc[p] \in {"idle", "order", "swept"} => rowLocks[p] = {}
        /\ pc[p] = "release" => rowLocks[p] = {target[p]}
        /\ pc[p] = "reserve" =>
              /\ rstat[target[p]] = "absent"
              /\ \A r \in rowLocks[p] : /\ SaleOf[r] = SaleOf[target[p]]
                                        /\ BuyerOf[r] = BuyerOf[target[p]]
        /\ pc[p] = "order" => rstat[target[p]] # "absent"
    /\ \A t, t2 \in Txns :
        pc[t] = "reserve" /\ pc[t2] = "reserve" /\ t # t2 => target[t] # target[t2]
    /\ \A t \in Txns : pc[t] \in {"idle", "reserve", "release", "order"}
    /\ \A w \in Workers : pc[w] \in {"idle", "sweep", "swept", "expire"}

\* A sale that has ended offers nothing any more: no late release, expiry or
\* lazy expiry puts a unit back on its shelf (scheduler.py:92), unless a decline
\* with an old now came before it (see the next property).
EndedWithdrawn == \A s \in Sales : sstat[s] = "ended" => avail[s] = 0

\* Nor is anything still held on it: the sweep cleared what was in the carts
\* and a later decline clears its own (docs/acceptance.md, "a declined payment
\* after the sale has ended").  The code keeps both as long as no decline is
\* late: theorem SweptIfDeclinesOnTime.
SweptSaleEmpty ==
    \A r \in Resvs : sstat[SaleOf[r]] = "ended" => rstat[r] # "held"

\* An order is pending only while its reservation is the buyer's
\* (docs/history/plan.md:82: an order is cancelled together with its
\* reservation).
PendingOrderLive ==
    \A r \in Resvs : order[r] = "pending" => rstat[r] \in ActiveResv

\* Nobody still works with a now from before n.
Past(n) == n + MaxLag <= time

\* A sale whose end has passed is ended, whatever deadlocks its sweep runs into.
SaleSwept ==
    \A s \in Sales : Past(EndsAt[s]) ~> sstat[s] = "ended"

\* A late decline has put the hold on a sale that was swept before; no sweep
\* visits it again (scheduler.py:39-43, 80-82).
Stranded(r) == rstat[r] = "held" /\ sstat[SaleOf[r]] = "ended"

\* A hold that has lapsed does not stay in the cart: a sweep returns or clears it
\* unless its owner does, or it is stranded, which SweptSaleEmpty is about.
LapsedHoldReturns ==
    \A r \in Resvs :
        (rstat[r] = "held" /\ Past(rexp[r])) ~> (rstat[r] # "held" \/ Stranded(r))

(***************************************************************************)
(* The ledger of units this module implements: a unit in payment is in its *)
(* buyer's cart, and every final status but "sold" has given it up.        *)
(***************************************************************************)
Claim ==
    [r \in Resvs |->
        CASE rstat[r] = "absent"   -> "none"
          [] rstat[r] \in ActiveResv -> "cart"
          [] rstat[r] = "sold"     -> "sold"
          [] OTHER                 -> "gone"]

Ledger == INSTANCE SaleLedger WITH shelf <- avail, claim <- Claim

\* Each of these transactions is one move of the ledger or none: locks, lazy
\* expiry, stale reads, deadlock victims and two schedulers included.
ImplementsLedger == Ledger!Spec

(***************************************************************************)
(* The ledger of payments it implements, too.  A reservation is its order, *)
(* and counts as held before it is taken.                                  *)
(***************************************************************************)
Unit ==
    [r \in Resvs |->
        CASE rstat[r] \in {"absent", "held"} -> "held"
          [] rstat[r] \in {"paying", "sold"} -> rstat[r]
          [] OTHER                           -> "gone"]

Payments == INSTANCE PaymentLedger
    WITH Orders <- Resvs, Attempts <- Pays, unit <- Unit

\* An attempt takes its unit from the cart into payment, and a verdict on it
\* back or away, whatever reserve, release, the sweeps and other attempts do
\* at the same time (payments.py:61-78, 128-139).
ImplementsPayments == Payments!Spec

=============================================================================
