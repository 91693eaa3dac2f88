------------------------------- MODULE Checkout -------------------------------
(***************************************************************************)
(* The checkout of one reservation in the browser (stores/cart.ts,         *)
(* CartView.vue) against create_order (routers and services/orders.py) and *)
(* the payment handlers (module PaymentFlow).  A buyer clicks Pay in       *)
(* several tabs; each has an idempotency key and learns the id of the      *)
(* order, both kept in its sessionStorage.  Calls and answers are lost,    *)
(* pages are reloaded, and a tab is duplicated with its storage, while the *)
(* backend goes on serving what nobody waits for.  The checkouts of other  *)
(* reservations are of the same form and share nothing with this one.      *)
(***************************************************************************)
EXTENDS PaymentFlow

CONSTANTS
    Item,               \* the reservation, and its order in Orders
    Tabs,
    Keys,               \* what crypto.randomUUID() returns
    MaxMishaps          \* bound: calls that fail on their way, and reloads

ASSUME CheckoutAssumption ==
    /\ Item \in Orders
    /\ MaxMishaps \in Nat
    /\ {"idle", "ordering", "listing", "paying", "none"}
         \cap (Attempts \cup Tabs \cup Keys) = {}

VARIABLES
    row,        \* the order in the database: its idempotency key
    calls,      \* create_order calls in the backend
    key,        \* checkout.key of a tab
    knows,      \* checkout.orderId # null
    step,       \* what the page awaits; an attempt while that is charged
    notice,     \* checkout.outcome, or the kind of checkout.error
    mishaps

page == <<key, knows, step, notice>>
wire == <<calls, mishaps>>
checkoutVars == <<row, wire, page>>
allVars == <<vars, checkoutVars>>

Outcomes == Verdicts \cup {"pending"}
CheckoutErrors == {"failed", "refused"}

\* A call knows who waits for it: a tab, or nobody any more.
Calls == [by : Tabs \cup {"none"}, key : Keys, at : {"sent", "read"}]

\* A page awaits one answer at a time, and an id it knows is an order's.
PagesTypeOK ==
    /\ row \in Keys \cup {"none"}
    /\ calls \in SUBSET Calls
    /\ key \in [Tabs -> Keys \cup {"none"}]
    /\ knows \in [Tabs -> BOOLEAN]
    /\ step \in [Tabs -> {"idle", "ordering", "listing", "paying"} \cup Attempts]
    /\ notice \in [Tabs -> {"none"} \cup Outcomes \cup CheckoutErrors]
    /\ \A t \in Tabs :
        /\ Cardinality({c \in calls : c.by = t}) = IF step[t] = "ordering" THEN 1 ELSE 0
        /\ knows[t] => row # "none"
    /\ mishaps \in 0 .. MaxMishaps

CheckoutInit ==
    /\ Init
    /\ row = "none"
    /\ calls = {}
    /\ key = [t \in Tabs |-> "none"]
    /\ knows = [t \in Tabs |-> FALSE]
    /\ step = [t \in Tabs |-> "idle"]
    /\ notice = [t \in Tabs |-> "none"]
    /\ mishaps = 0

-----------------------------------------------------------------------------
(***************************************************************************)
(* The page.                                                               *)
(***************************************************************************)
\* No busy flag and a button that is never disabled.
Clickable_Always(t) == TRUE

\* The disabled button of CartView and `if (checkout.busy) return`; the page
\* may still show a unit that is gone.
Clickable(t) == step[t] = "idle" /\ notice[t] # "pending"

\* Keys bounds how many are ever drawn.
Fresh == Keys \ ({row} \cup {c.key : c \in calls} \cup {key[t] : t \in Tabs})

Click(t) ==
    /\ Clickable(t)
    /\ \/ key[t] # "none" /\ UNCHANGED key
       \/ /\ key[t] = "none" /\ Fresh # {}
          /\ key' = [key EXCEPT ![t] = CHOOSE k \in Fresh : TRUE]
    /\ notice' = [notice EXCEPT ![t] = "none"]
    /\ IF knows[t]
       THEN /\ step' = [step EXCEPT ![t] = "paying"]
            /\ UNCHANGED calls
       ELSE /\ step' = [step EXCEPT ![t] = "ordering"]
            /\ calls' = calls \cup {[by |-> t, key |-> key'[t], at |-> "sent"]}
    /\ UNCHANGED <<row, knows, mishaps, vars>>

\* busy = false on the way of success only.
Finished_OnSuccess(t, n) ==
    [step EXCEPT ![t] = IF n \in Outcomes THEN "idle" ELSE @]

\* finally: busy = false.
Finished(t, n) == [step EXCEPT ![t] = "idle"]

Finish(t, n) ==
    /\ step' = Finished(t, n)
    /\ notice' = [notice EXCEPT ![t] = n]

LearnsOrder(t) ==
    /\ knows' = [knows EXCEPT ![t] = TRUE]
    /\ step' = [step EXCEPT ![t] = "paying"]
    /\ UNCHANGED notice

Orphaned(t) == {IF c.by = t THEN [c EXCEPT !.by = "none"] ELSE c : c \in calls}

\* fetch throws, or a gateway answers: the call never arrived, or is served
\* for nobody.
Cut(t) ==
    /\ step[t] # "idle"
    /\ mishaps < MaxMishaps
    /\ mishaps' = mishaps + 1
    /\ calls' \in {Orphaned(t), {c \in calls : c.by # t}}
    /\ Finish(t, "failed")
    /\ UNCHANGED <<row, key, knows, vars>>

\* loadCheckouts restores key and id, or nothing where there is no storage.
Reload(t) ==
    /\ mishaps < MaxMishaps
    /\ mishaps' = mishaps + 1
    /\ calls' = Orphaned(t)
    /\ \/ UNCHANGED <<key, knows>>
       \/ /\ key' = [key EXCEPT ![t] = "none"]
          /\ knows' = [knows EXCEPT ![t] = FALSE]
    /\ Finish(t, "none")
    /\ UNCHANGED <<row, vars>>

\* A duplicated tab starts with a copy of the storage.
Duplicate(t, u) ==
    /\ key[t] # "none" /\ key[u] = "none"
    /\ key' = [key EXCEPT ![u] = key[t]]
    /\ knows' = [knows EXCEPT ![u] = knows[t]]
    /\ UNCHANGED <<row, wire, step, notice, vars>>

(***************************************************************************)
(* create_order, and the page when it has the answer.                      *)
(***************************************************************************)
\* Only "reservation already has an order".
Adopts_Ordered(answer) == answer = "ordered"

\* createOrAdoptOrder asks for the buyer's orders on any 409.
Adopts(answer) == answer \in {"ordered", "not held"}

Answer(c, answer) ==
    IF c.by = "none" THEN UNCHANGED page
    ELSE /\ UNCHANGED key
         /\ CASE answer = "order" -> LearnsOrder(c.by)
              [] Adopts(answer) ->
                    /\ step' = [step EXCEPT ![c.by] = "listing"]
                    /\ UNCHANGED <<knows, notice>>
              [] OTHER -> Finish(c.by, "refused") /\ UNCHANGED knows

\* The key's own order, a reservation that is not held, or on to the INSERT
\* in a step of its own: nothing is locked.
CreateOrderRead(c) ==
    /\ c \in calls /\ c.at = "sent"
    /\ IF row # c.key /\ unit[Item] = "held"
       THEN /\ calls' = (calls \ {c}) \cup {[c EXCEPT !.at = "read"]}
            /\ UNCHANGED page
       ELSE /\ calls' = calls \ {c}
            /\ Answer(c, IF row = c.key THEN "order" ELSE "not held")
    /\ UNCHANGED <<row, mishaps, vars>>

\* UNIQUE(reservation_id): the first one wins, and a duplicate of its key is
\* given the same order.
CreateOrderInsert(c) ==
    /\ c \in calls /\ c.at = "read"
    /\ calls' = calls \ {c}
    /\ row' = IF row = "none" THEN c.key ELSE row
    /\ Answer(c, IF row' = c.key THEN "order" ELSE "ordered")
    /\ UNCHANGED <<mishaps, vars>>

\* GET /me/orders, searched for the reservation.
ListOrders(t) ==
    /\ step[t] = "listing"
    /\ IF row # "none" THEN LearnsOrder(t)
       ELSE Finish(t, "refused") /\ UNCHANGED knows
    /\ UNCHANGED <<row, key, wire, vars>>

(***************************************************************************)
(* POST /orders/{id}/pay: PaymentFlow, with the page that asked for it.    *)
(***************************************************************************)
StartPay(t, p) ==
    /\ step[t] = "paying"
    /\ OrderOf[p] = Item
    /\ Pay(p)
    /\ step' = [step EXCEPT ![t] = p]
    /\ UNCHANGED <<row, wire, key, knows, notice>>

\* 409; past the bound on attempts, too.
PayRefused(t) ==
    /\ step[t] = "paying"
    /\ MayPay(Item) => \A p \in Attempts : pay[p] # "absent"
    /\ Finish(t, "failed")
    /\ UNCHANGED <<row, wire, key, knows, vars>>

Reply(p, outcome) ==
    /\ \/ \E t \in Tabs : step[t] = p /\ Finish(t, outcome)
       \/ (\A t \in Tabs : step[t] # p) /\ UNCHANGED <<step, notice>>
    /\ UNCHANGED <<row, wire, key, knows>>

PayEnds(p) ==
    \/ ChargeFailed(p) /\ Reply(p, "pending")
    \/ /\ ChargeAnswered(p)
       /\ IF handler'[p] = "done" THEN Reply(p, "pending") ELSE UNCHANGED checkoutVars
    \/ ApplyAnswer(p) /\ Reply(p, handler[p])

\* Whoever awaits an answer of the backend is told by the gateway.
CheckoutRestart ==
    /\ mishaps < MaxMishaps
    /\ mishaps' = mishaps + 1
    /\ BackendRestart
    /\ calls' = {}
    /\ step' = [t \in Tabs |-> "idle"]
    /\ notice' = [t \in Tabs |-> IF step[t] = "idle" THEN notice[t] ELSE "failed"]
    /\ UNCHANGED <<row, key, knows>>

\* The stub and the wire, and the other ways a unit leaves.
Elsewhere ==
    /\ \/ \E p \in Attempts :
            \/ CreatePayment(p)
            \/ Deliver(p, "charge") \/ DeliveryLost(p, "charge") \/ Webhook(p, "charge")
       \/ UnitLeaves(Item)
    /\ UNCHANGED checkoutVars

CheckoutNext ==
    \/ \E t \in Tabs :
        \/ Click(t) \/ Cut(t) \/ Reload(t) \/ ListOrders(t) \/ PayRefused(t)
        \/ \E u \in Tabs : Duplicate(t, u)
        \/ \E p \in Attempts : StartPay(t, p)
    \/ \E c \in calls : CreateOrderRead(c) \/ CreateOrderInsert(c)
    \/ \E p \in Attempts : PayEnds(p)
    \/ CheckoutRestart
    \/ Elsewhere

CheckoutSpec == CheckoutInit /\ [][CheckoutNext]_allVars

\* The backend serves every call, its client of the stub times out, the stub
\* posts its webhooks; and the buyer tries again wherever a page lets him.
Served(t) ==
    \/ ListOrders(t) \/ PayRefused(t)
    \/ \E p \in Attempts : StartPay(t, p) \/ (step[t] = p /\ PayEnds(p))
    \/ \E c \in calls : c.by = t /\ (CreateOrderRead(c) \/ CreateOrderInsert(c))

Posted(p) == (Deliver(p, "charge") \/ Webhook(p, "charge")) /\ UNCHANGED checkoutVars

CheckoutLiveSpec ==
    /\ CheckoutSpec
    /\ \A t \in Tabs : WF_allVars(Click(t)) /\ WF_allVars(Served(t))
    /\ \A p \in Attempts : WF_allVars(Posted(p))

-----------------------------------------------------------------------------

\* A checkout is refused only when the unit has left the buyer's cart: a 409
\* that another tab, an earlier page or an answer that was lost brought about
\* ends in the order they made (cart.ts:58-72).
RefusedOnlyGone ==
    \A t \in Tabs : notice[t] = "refused" => unit[Item] = "gone"

\* Every click on Pay is answered, whatever fails underneath (cart.ts:117-127).
ClickAnswered ==
    \A t \in Tabs : step[t] # "idle" ~> step[t] = "idle"

\* A buyer who keeps trying in a tab gets hold of the order in it, though its
\* answers are lost, it is reloaded and other tabs were first, unless the unit
\* is gone (cart.ts:9-12, 58-60).
CheckoutGoesOn ==
    \A t \in Tabs :
        key[t] # "none" ~> knows[t] \/ unit[Item] = "gone" \/ key[t] = "none"

\* "paying again with another card completes it" (README.md:188-190): while a
\* unit is back in the cart, a page does not refuse to pay for it for ever.
PayOffered ==
    \A t \in Tabs :
        unit[Item] = "held" /\ step[t] = "idle"
            ~> Clickable(t) \/ step[t] # "idle" \/ unit[Item] # "held"

=============================================================================
