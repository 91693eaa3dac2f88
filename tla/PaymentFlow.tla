----------------------------- MODULE PaymentFlow -----------------------------
(***************************************************************************)
(* How a payment attempt travels between the backend and the payment stub: *)
(* the pay handler charges the stub and waits for its answer               *)
(* (app/routers/payments.py), the stub decides, posts a signed webhook and *)
(* retries it a few times before it answers the charge (paystub/main.py),  *)
(* an operator resolves a hung payment, the shop asks for its status       *)
(* (app/routers/shop.py).  Any of these answers may be late, lost or       *)
(* repeated; all of them end in apply_payment_result.  Of the rest of the  *)
(* system (module FlashSale) only the reservation of the order is kept.    *)
(***************************************************************************)
EXTENDS Naturals, FiniteSets

CONSTANTS
    Orders,
    Attempts,           \* provider references
    OrderOf,            \* [Attempts -> Orders]
    Clicks,             \* an operator's calls of /resolve
    WebhookAttempts,    \* WEBHOOK_ATTEMPTS
    MaxLosses,          \* bound: webhook deliveries that fail
    MaxRestarts         \* bound: restarts of the backend or the stub

ASSUME FlowAssumption ==
    /\ OrderOf \in [Attempts -> Orders]
    /\ WebhookAttempts \in Nat \ {0}
    /\ MaxLosses \in Nat
    /\ MaxRestarts \in Nat
    /\ "charge" \notin Clicks

VARIABLES
    pay,        \* payments.status
    unit,       \* the reservation of an order: held, paying, sold or gone
    handler,    \* where the pay handler of an attempt stands
    request,    \* the charge, on its way to the stub or being served there
    store,      \* the stub's record of a payment, in its memory
    said,       \* what the stub decided, at the charge and at each click
    tries,      \* webhook deliveries its loop has left
    waiting,    \* the loop waits for the answer to a delivery
    posts,      \* webhooks on the wire
    checks,     \* answers the shop's button has read and not applied yet
    losses, restarts

backend == <<pay, unit, handler, checks>>
stub == <<request, store, said, tries, waiting, posts>>
faults == <<losses, restarts>>
vars == <<backend, stub, faults>>

Verdicts == {"approved", "declined"}
Sources == {"charge"} \cup Clicks

Ongoing(o) == {p \in Attempts : OrderOf[p] = o /\ pay[p] = "pending"}

TypeOK ==
    /\ pay \in [Attempts -> {"absent", "pending"} \cup Verdicts]
    /\ unit \in [Orders -> {"held", "paying", "sold", "gone"}]
    /\ handler \in [Attempts -> {"none", "charging", "done"} \cup Verdicts]
    /\ request \in [Attempts -> {"none", "sent", "served", "over"}]
    /\ store \in [Attempts -> {"none", "pending"} \cup Verdicts]
    /\ said \in [Attempts -> [Sources -> {"none", "pending"} \cup Verdicts]]
    /\ tries \in [Attempts -> [Sources -> 0 .. WebhookAttempts]]
    /\ waiting \in [Attempts -> SUBSET Sources]
    /\ posts \in SUBSET (Attempts \X Sources)
    /\ checks \in SUBSET (Attempts \X Verdicts)
    /\ losses \in 0 .. MaxLosses
    /\ restarts \in 0 .. MaxRestarts

Init ==
    /\ pay = [p \in Attempts |-> "absent"]
    /\ unit = [o \in Orders |-> "held"]
    /\ handler = [p \in Attempts |-> "none"]
    /\ request = [p \in Attempts |-> "none"]
    /\ store = [p \in Attempts |-> "none"]
    /\ said = [p \in Attempts |-> [s \in Sources |-> "none"]]
    /\ tries = [p \in Attempts |-> [s \in Sources |-> 0]]
    /\ waiting = [p \in Attempts |-> {}]
    /\ posts = {}
    /\ checks = {}
    /\ losses = 0
    /\ restarts = 0

(***************************************************************************)
(* apply_payment_result.                                                   *)
(***************************************************************************)
\* WHERE provider_ref only.
StillPending_Any(p) == pay[p] # "absent"

StillPending(p) == pay[p] = "pending"

\* A declined unit returns to the cart, or is gone when the sale is over.
After(v) == IF v = "approved" THEN {"sold"} ELSE {"held", "gone"}

Apply(p, v) ==
    IF StillPending(p)
    THEN /\ pay' = [pay EXCEPT ![p] = v]
         /\ \E u \in After(v) : unit' = [unit EXCEPT ![OrderOf[p]] = u]
    ELSE UNCHANGED <<pay, unit>>

(***************************************************************************)
(* POST /orders/{id}/pay.  The attempt is committed before the stub hears  *)
(* of it, and the handler keeps no transaction open while it waits.        *)
(***************************************************************************)
\* The order's own status, instead of the reservation's.
MayPay_UnsettledOrder(o) == unit[o] \in {"held", "paying"}

\* Guarded held -> paying, and uq_payments_order_pending behind it.
MayPay(o) == unit[o] = "held" /\ Ongoing(o) = {}

Pay(p) ==
    /\ pay[p] = "absent"
    /\ MayPay(OrderOf[p])
    /\ pay' = [pay EXCEPT ![p] = "pending"]
    /\ unit' = [unit EXCEPT ![OrderOf[p]] = "paying"]
    /\ handler' = [handler EXCEPT ![p] = "charging"]
    /\ request' = [request EXCEPT ![p] = "sent"]
    /\ UNCHANGED <<store, said, tries, waiting, posts, checks, faults>>

\* The stub answers once its webhook loop is through.
ChargeAnswered(p) ==
    /\ handler[p] = "charging"
    /\ request[p] = "served"
    /\ tries[p]["charge"] = 0
    /\ handler' = [handler EXCEPT ![p] =
                     IF said[p]["charge"] \in Verdicts
                     THEN said[p]["charge"] ELSE "done"]
    /\ request' = [request EXCEPT ![p] = "over"]
    /\ UNCHANGED <<pay, unit, store, said, tries, waiting, posts, checks, faults>>

\* A charge that fails or times out counted as a refusal.
OnError_Declined == "declined"

\* outcome = "pending": nothing is applied.
OnError == "done"

\* httpx.HTTPError; the charge itself may be lost or still be on its way.
ChargeFailed(p) ==
    /\ handler[p] = "charging"
    /\ handler' = [handler EXCEPT ![p] = OnError]
    /\ \/ UNCHANGED request
       \/ /\ request[p] = "sent"
          /\ request' = [request EXCEPT ![p] = "over"]
    /\ UNCHANGED <<pay, unit, store, said, tries, waiting, posts, checks, faults>>

ApplyAnswer(p) ==
    /\ handler[p] \in Verdicts
    /\ Apply(p, handler[p])
    /\ handler' = [handler EXCEPT ![p] = "done"]
    /\ UNCHANGED <<checks, stub, faults>>

\* Release, expiry and sweep take a held unit (module FlashSale).
UnitLeaves(o) ==
    /\ unit[o] = "held"
    /\ unit' = [unit EXCEPT ![o] = "gone"]
    /\ UNCHANGED <<pay, handler, checks, stub, faults>>

(***************************************************************************)
(* The stub.                                                               *)
(***************************************************************************)
\* One delivery and then WEBHOOK_ATTEMPTS retries of it.
Deliveries_OneTooMany == WebhookAttempts + 1

\* deliver_webhook on its own.
Deliveries_One == 1

Deliveries == WebhookAttempts

\* The record and the loop of a decision: at the charge by the card number,
\* later by a click.
Decide(p, s, v) ==
    /\ store' = [store EXCEPT ![p] = v]
    /\ said' = [said EXCEPT ![p][s] = v]
    /\ tries' = [tries EXCEPT ![p][s] = IF v = "pending" THEN 0 ELSE Deliveries]

CreatePayment(p) ==
    /\ request[p] = "sent"
    /\ \E v \in Verdicts \cup {"pending"} : Decide(p, "charge", v)
    /\ request' = [request EXCEPT ![p] = "served"]
    /\ UNCHANGED <<backend, waiting, posts, faults>>

Resolve(p, c) ==
    /\ store[p] # "none"
    /\ said[p][c] = "none"
    /\ \E v \in Verdicts : Decide(p, c, v)
    /\ UNCHANGED <<backend, request, waiting, posts, faults>>

Deliver(p, s) ==
    /\ tries[p][s] > 0
    /\ s \notin waiting[p]
    /\ waiting' = [waiting EXCEPT ![p] = @ \cup {s}]
    /\ posts' = posts \cup {<<p, s>>}
    /\ UNCHANGED <<backend, request, store, said, tries, faults>>

DeliveryFails(p, s) ==
    /\ s \in waiting[p]
    /\ losses < MaxLosses
    /\ losses' = losses + 1
    /\ tries' = [tries EXCEPT ![p][s] = @ - 1]
    /\ waiting' = [waiting EXCEPT ![p] = @ \ {s}]

\* The webhook is lost, or only too late for the loop.
DeliveryLost(p, s) ==
    /\ DeliveryFails(p, s)
    /\ posts' \in {posts, posts \ {<<p, s>>}}
    /\ UNCHANGED <<backend, request, store, said, restarts>>

\* The backend handles a webhook, however late; the loop, if it still waits,
\* hears of it or does not.
Webhook(p, s) ==
    /\ <<p, s>> \in posts
    /\ posts' = posts \ {<<p, s>>}
    /\ Apply(p, said[p][s])
    /\ \/ /\ tries' = [tries EXCEPT ![p][s] = IF s \in waiting[p] THEN 0 ELSE @]
          /\ waiting' = [waiting EXCEPT ![p] = @ \ {s}]
          /\ UNCHANGED losses
       \/ DeliveryFails(p, s)
    /\ UNCHANGED <<handler, checks, request, store, said, restarts>>

(***************************************************************************)
(* The shop's "check status": the stub's answer is read, then applied.     *)
(***************************************************************************)
Check(p) ==
    /\ store[p] \in Verdicts
    /\ checks' = checks \cup {<<p, store[p]>>}
    /\ UNCHANGED <<pay, unit, handler, stub, faults>>

ApplyCheck(p, v) ==
    /\ <<p, v>> \in checks
    /\ checks' = checks \ {<<p, v>>}
    /\ Apply(p, v)
    /\ UNCHANGED <<handler, stub, faults>>

(***************************************************************************)
(* Restarts: handlers, loops and the stub's records are in memory only.    *)
(***************************************************************************)
BackendRestart ==
    /\ restarts < MaxRestarts
    /\ restarts' = restarts + 1
    /\ handler' = [p \in Attempts |->
                     IF handler[p] = "none" THEN "none" ELSE "done"]
    /\ checks' = {}
    /\ UNCHANGED <<pay, unit, stub, losses>>

StubRestart ==
    /\ restarts < MaxRestarts
    /\ restarts' = restarts + 1
    /\ store' = [p \in Attempts |-> "none"]
    /\ tries' = [p \in Attempts |-> [s \in Sources |-> 0]]
    /\ waiting' = [p \in Attempts |-> {}]
    /\ request' = [p \in Attempts |->
                     IF request[p] = "served" THEN "over" ELSE request[p]]
    /\ UNCHANGED <<backend, said, posts, losses>>

Next ==
    \/ \E p \in Attempts :
        \/ Pay(p) \/ ChargeAnswered(p) \/ ChargeFailed(p) \/ ApplyAnswer(p)
        \/ CreatePayment(p)
        \/ Check(p)
        \/ \E v \in Verdicts : ApplyCheck(p, v)
        \/ \E c \in Clicks : Resolve(p, c)
        \/ \E s \in Sources : Deliver(p, s) \/ DeliveryLost(p, s) \/ Webhook(p, s)
    \/ \E o \in Orders : UnitLeaves(o)
    \/ BackendRestart
    \/ StubRestart

Spec == Init /\ [][Next]_vars

-----------------------------------------------------------------------------

\* A unit is in payment exactly while one attempt of its order is pending: a
\* late or repeated answer to an earlier attempt never settles it under the
\* attempt that is running (payments.py:128-139).
PayingIffOngoing ==
    \A o \in Orders :
        /\ unit[o] = "paying" <=> Ongoing(o) # {}
        /\ \A p, q \in Ongoing(o) : p = q

\* An attempt is settled only by an answer the stub gave for it: silence, a
\* timeout or a failed connection is never taken for one
\* (app/routers/payments.py:69-72).
SettledByAnswer ==
    \A p \in Attempts :
        pay[p] \in Verdicts => \E s \in Sources : said[p][s] = pay[p]

\* No buyer is charged twice for an order while the stub sticks to its word: of
\* the attempts it gave one verdict each, one per order at most is an approval.
OneVerdict(p) == ~ Verdicts \subseteq {said[p][s] : s \in Sources}
Approved(p) == \E s \in Sources : said[p][s] = "approved"

ChargedOnce ==
    \A p, q \in Attempts :
        OrderOf[p] = OrderOf[q] /\ p # q /\ OneVerdict(p) /\ OneVerdict(q)
            => ~(Approved(p) /\ Approved(q))

\* A unit is sold exactly when an attempt to pay it was approved, and then by
\* that attempt alone.
SoldByOneApproval ==
    \A o \in Orders :
        LET approved == {p \in Attempts : OrderOf[p] = o /\ pay[p] = "approved"}
        IN  /\ unit[o] = "sold" <=> approved # {}
            /\ \A p, q \in approved : p = q

\* "When the stub answers, the order is settled" (docs/acceptance.md:87-88):
\* its retries make up for fewer losses than it has deliveries, as long as the
\* stub itself is not restarted.
AnswerLands ==
    \A p \in Attempts : store[p] \in Verdicts ~> pay[p] \in Verdicts

Payments == INSTANCE PaymentLedger

\* What the handlers, the stub, its webhooks, losses and restarts do to the rows
\* is what FlashSale lets happen to them (routers/payments.py:50-77, 80-104).
ImplementsPayments == Payments!Spec

=============================================================================
