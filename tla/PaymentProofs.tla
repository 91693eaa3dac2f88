---------------------------- MODULE PaymentProofs ----------------------------
(***************************************************************************)
(* Payments and checkouts, for any orders, attempts, operator's clicks,    *)
(* tabs and keys, and any number of losses, restarts and mishaps.          *)
(***************************************************************************)
EXTENDS Checkout, FiniteSetTheorems, TLAPS

\* A verdict the stub gave for an attempt.
Gave(p, v) == \E s \in Sources : said[p][s] = v

\* The stub speaks once per source, and what is on its way, in whatever form,
\* is something it said.
AtStub ==
    /\ \A p \in Attempts :
        /\ pay[p] = "absent" => request[p] = "none"
        /\ request[p] = "none" => \A s \in Sources : said[p][s] = "none"
        /\ request[p] \in {"none", "sent"} => said[p]["charge"] = "none"
        /\ store[p] # "none" => request[p] \notin {"none", "sent"}
        /\ store[p] \in Verdicts => Gave(p, store[p])
        /\ \A s \in Sources :
            /\ tries[p][s] > 0 => said[p][s] \in Verdicts
            /\ s \in waiting[p] => tries[p][s] > 0

OnItsWay ==
    /\ \A p \in Attempts : handler[p] \in Verdicts => Gave(p, handler[p])
    /\ \A p \in Attempts, s \in Sources :
            <<p, s>> \in posts => said[p][s] \in Verdicts
    /\ \A p \in Attempts, v \in Verdicts : <<p, v>> \in checks => Gave(p, v)

\* The unit follows the attempts of its order.
UnitsFollow == PayingIffOngoing /\ SoldByOneApproval

-----------------------------------------------------------------------------
(***************************************************************************)
(* apply_payment_result, whoever calls it.                                 *)
(***************************************************************************)
LEMMA ApplyTyped ==
    ASSUME TypeOK, NEW p \in Attempts, NEW v \in Verdicts, Apply(p, v)
    PROVE  /\ pay' \in [Attempts -> {"absent", "pending"} \cup Verdicts]
           /\ unit' \in [Orders -> {"held", "paying", "sold", "gone"}]
           /\ \A q \in Attempts :
                \/ pay'[q] = pay[q]
                \/ q = p /\ pay'[q] = v /\ pay[q] = "pending"
<1>1. OrderOf[p] \in Orders
  BY FlowAssumption
<1>2. CASE StillPending(p)
  <2>1. pay' = [pay EXCEPT ![p] = v] /\ pay[p] = "pending"
    BY <1>2 DEF Apply, StillPending
  <2>2. PICK u \in After(v) : unit' = [unit EXCEPT ![OrderOf[p]] = u]
    BY <1>2 DEF Apply
  <2>3. u \in {"held", "sold", "gone"}
    BY <2>2 DEF After
  <2>4. QED
    BY <1>1, <2>1, <2>2, <2>3 DEF TypeOK
<1>3. CASE ~StillPending(p)
  BY <1>3 DEF Apply, TypeOK
<1>4. QED
  BY <1>2, <1>3

LEMMA ApplyFollowed ==
    ASSUME TypeOK, UnitsFollow, NEW p \in Attempts, NEW v \in Verdicts, Apply(p, v)
    PROVE  UnitsFollow'
<1> DEFINE o == OrderOf[p]
<1>1. o \in Orders
  BY FlowAssumption
<1>2. CASE ~StillPending(p)
  BY <1>2 DEF Apply, UnitsFollow, PayingIffOngoing, SoldByOneApproval, Ongoing
<1>3. CASE StillPending(p)
  <2>1. pay' = [pay EXCEPT ![p] = v] /\ pay[p] = "pending"
    BY <1>3 DEF Apply, StillPending
  <2>2. PICK u \in After(v) : unit' = [unit EXCEPT ![o] = u]
    BY <1>3 DEF Apply
  <2>3. /\ v = "approved" => u = "sold"
        /\ v # "approved" => u \in {"held", "gone"} /\ v = "declined"
    BY <2>2 DEF After, Verdicts
  <2>4. /\ \A q \in Attempts : pay'[q] = IF q = p THEN v ELSE pay[q]
        /\ \A x \in Orders : unit'[x] = IF x = o THEN u ELSE unit[x]
    BY <1>1, <2>1, <2>2 DEF TypeOK
  <2>5. unit[o] = "paying" /\ \A q \in Attempts :
            OrderOf[q] = o => pay[q] # "approved" /\ (pay[q] = "pending" => q = p)
    <3>1. p \in Ongoing(o)
      BY <2>1 DEF Ongoing
    <3>2. unit[o] = "paying" /\ \A q \in Ongoing(o) : q = p
      BY <1>1, <3>1 DEF UnitsFollow, PayingIffOngoing
    <3>3. {q \in Attempts : OrderOf[q] = o /\ pay[q] = "approved"} = {}
      BY <1>1, <3>2 DEF UnitsFollow, SoldByOneApproval
    <3>4. QED
      BY <3>2, <3>3 DEF Ongoing
  <2> HIDE DEF o
  <2>6. ASSUME NEW x \in Orders, x # o
        PROVE  /\ Ongoing(x)' = Ongoing(x) /\ unit'[x] = unit[x]
               /\ {q \in Attempts : OrderOf[q] = x /\ pay'[q] = "approved"}
                    = {q \in Attempts : OrderOf[q] = x /\ pay[q] = "approved"}
    BY <2>4, <2>6 DEF Ongoing, o
  <2>7. /\ Ongoing(o)' = {} /\ unit'[o] # "paying"
        /\ {q \in Attempts : OrderOf[q] = o /\ pay'[q] = "approved"}
                = IF v = "approved" THEN {p} ELSE {}
        /\ unit'[o] = "sold" <=> v = "approved"
    <3>1. Ongoing(o)' = {}
      BY <2>3, <2>4, <2>5 DEF Ongoing
    <3>2. unit'[o] # "paying" /\ (unit'[o] = "sold" <=> v = "approved")
      BY <1>1, <2>3, <2>4
    <3>3. {q \in Attempts : OrderOf[q] = o /\ pay'[q] = "approved"}
                = IF v = "approved" THEN {p} ELSE {}
      BY <2>3, <2>4, <2>5 DEF o
    <3>4. QED
      BY <3>1, <3>2, <3>3
  <2>8. PayingIffOngoing'
    <3> SUFFICES ASSUME NEW x \in Orders
                 PROVE  /\ unit'[x] = "paying" <=> Ongoing(x)' # {}
                        /\ \A q, r \in Ongoing(x)' : q = r
      BY DEF PayingIffOngoing
    <3>1. CASE x = o
      BY <2>7, <3>1
    <3>2. CASE x # o
      BY <2>6, <3>2 DEF UnitsFollow, PayingIffOngoing
    <3>3. QED
      BY <3>1, <3>2
  <2>9. SoldByOneApproval'
    <3> SUFFICES ASSUME NEW x \in Orders
                 PROVE  LET approved == {q \in Attempts : OrderOf[q] = x /\ pay'[q] = "approved"}
                        IN  /\ unit'[x] = "sold" <=> approved # {}
                            /\ \A q, r \in approved : q = r
      BY DEF SoldByOneApproval
    <3>1. CASE x = o
      BY <2>7, <3>1
    <3>2. CASE x # o
      BY <2>6, <3>2 DEF UnitsFollow, SoldByOneApproval
    <3>3. QED
      BY <3>1, <3>2
  <2>10. QED
    BY <2>8, <2>9 DEF UnitsFollow
<1>4. QED
  BY <1>2, <1>3

-----------------------------------------------------------------------------
(***************************************************************************)
(* A step of the stub, or of a delivery.                                   *)
(***************************************************************************)
FlowInv == TypeOK /\ UnitsFollow /\ AtStub /\ OnItsWay /\ SettledByAnswer

LEMMA Decided ==
    ASSUME TypeOK, AtStub, NEW p \in Attempts, NEW s \in Sources,
           NEW v \in Verdicts \cup {"pending"}, s # "charge" => v # "pending",
           said[p][s] = "none", Decide(p, s, v), UNCHANGED waiting
    PROVE  /\ store' \in [Attempts -> {"none", "pending"} \cup Verdicts]
           /\ said' \in [Attempts -> [Sources -> {"none", "pending"} \cup Verdicts]]
           /\ tries' \in [Attempts -> [Sources -> 0 .. WebhookAttempts]]
           /\ \A q \in Attempts : store'[q] = IF q = p THEN v ELSE store[q]
           /\ \A q \in Attempts, r \in Sources :
                said'[q][r] = IF q = p /\ r = s THEN v ELSE said[q][r]
           /\ \A q \in Attempts, r \in Sources :
                /\ tries'[q][r] > 0 => said'[q][r] \in Verdicts
                /\ r \in waiting'[q] => tries'[q][r] > 0
<1>1. /\ store' = [store EXCEPT ![p] = v]
      /\ said' = [said EXCEPT ![p][s] = v]
      /\ tries' = [tries EXCEPT ![p][s] = IF v = "pending" THEN 0 ELSE WebhookAttempts]
  BY DEF Decide, Deliveries
<1>2. WebhookAttempts \in Nat \ {0}
  BY FlowAssumption
<1>3. tries' \in [Attempts -> [Sources -> 0 .. WebhookAttempts]]
  BY <1>1, <1>2 DEF TypeOK
<1>4. \A q \in Attempts, r \in Sources :
        /\ said'[q][r] = IF q = p /\ r = s THEN v ELSE said[q][r]
        /\ tries'[q][r] = IF q = p /\ r = s
                          THEN IF v = "pending" THEN 0 ELSE WebhookAttempts
                          ELSE tries[q][r]
  BY <1>1 DEF TypeOK
<1>5. said[p][s] \notin Verdicts
  BY DEF Verdicts
<1>6. s \notin waiting[p]
  BY <1>5 DEF AtStub
<1>7. \A q \in Attempts, r \in Sources :
        /\ tries'[q][r] > 0 => said'[q][r] \in Verdicts
        /\ r \in waiting'[q] => tries'[q][r] > 0
  BY <1>2, <1>4, <1>6 DEF AtStub
<1>8. said' \in [Attempts -> [Sources -> {"none", "pending"} \cup Verdicts]]
  BY <1>1 DEF TypeOK
<1>9. /\ store' \in [Attempts -> {"none", "pending"} \cup Verdicts]
      /\ \A q \in Attempts : store'[q] = IF q = p THEN v ELSE store[q]
  BY <1>1 DEF TypeOK
<1>10. QED
  BY <1>3, <1>4, <1>7, <1>8, <1>9

LEMMA Failed ==
    ASSUME TypeOK, AtStub, NEW p \in Attempts, NEW s \in Sources, DeliveryFails(p, s)
    PROVE  /\ tries' \in [Attempts -> [Sources -> 0 .. WebhookAttempts]]
           /\ waiting' \in [Attempts -> SUBSET Sources]
           /\ losses' \in 0 .. MaxLosses
           /\ \A q \in Attempts, r \in Sources :
                /\ tries'[q][r] > 0 => tries[q][r] > 0
                /\ r \in waiting'[q] => tries'[q][r] > 0
<1>1. WebhookAttempts \in Nat /\ MaxLosses \in Nat
  BY FlowAssumption
<1>2. tries[p][s] > 0 /\ tries[p][s] \in 0 .. WebhookAttempts
  BY DEF DeliveryFails, AtStub, TypeOK
<1>3. \A q \in Attempts, r \in Sources :
        /\ tries'[q][r] = IF q = p /\ r = s THEN tries[q][r] - 1 ELSE tries[q][r]
        /\ r \in waiting'[q] <=> r \in waiting[q] /\ ~(q = p /\ r = s)
  BY DEF DeliveryFails, TypeOK
<1>4. tries' \in [Attempts -> [Sources -> 0 .. WebhookAttempts]]
  <2>1. tries[p][s] - 1 \in 0 .. WebhookAttempts
    BY <1>1, <1>2
  <2>2. QED
    BY <2>1 DEF DeliveryFails, TypeOK
<1>5. waiting' \in [Attempts -> SUBSET Sources] /\ losses' \in 0 .. MaxLosses
  BY <1>1 DEF DeliveryFails, TypeOK
<1>6. \A q \in Attempts, r \in Sources :
        /\ tries'[q][r] > 0 => tries[q][r] > 0
        /\ r \in waiting'[q] => tries'[q][r] > 0
  BY <1>1, <1>2, <1>3 DEF AtStub, TypeOK
<1>7. QED
  BY <1>4, <1>5, <1>6

\* What was said stays said.
LEMMA GivenStays ==
    ASSUME NEW p \in Attempts, NEW v \in Verdicts, Gave(p, v),
           \A q \in Attempts, r \in Sources :
                said[q][r] \in Verdicts => said'[q][r] = said[q][r]
    PROVE  Gave(p, v)'
BY DEF Gave

LEMMA ApplySettled ==
    ASSUME TypeOK, SettledByAnswer, NEW p \in Attempts, NEW v \in Verdicts,
           Gave(p, v), Apply(p, v), UNCHANGED said
    PROVE  SettledByAnswer'
BY ApplyTyped DEF SettledByAnswer, Gave

\* Whatever applies an answer the stub gave keeps unit and attempts in step.
LEMMA Applied ==
    ASSUME FlowInv, NEW p \in Attempts, NEW v \in Verdicts, Gave(p, v), Apply(p, v),
           UNCHANGED <<request, store, said>>
    PROVE  /\ pay' \in [Attempts -> {"absent", "pending"} \cup Verdicts]
           /\ unit' \in [Orders -> {"held", "paying", "sold", "gone"}]
           /\ UnitsFollow' /\ SettledByAnswer'
           /\ \A q \in Attempts : pay'[q] = "absent" => request'[q] = "none"
<1>1. TypeOK /\ UnitsFollow /\ SettledByAnswer /\ AtStub
  BY DEF FlowInv
<1>2. /\ pay' \in [Attempts -> {"absent", "pending"} \cup Verdicts]
      /\ unit' \in [Orders -> {"held", "paying", "sold", "gone"}]
      /\ \A q \in Attempts :
            \/ pay'[q] = pay[q]
            \/ q = p /\ pay'[q] = v /\ pay[q] = "pending"
  BY <1>1, ApplyTyped
<1>3. \A q \in Attempts : pay'[q] = "absent" => request'[q] = "none"
  BY <1>1, <1>2 DEF AtStub, Verdicts
<1>4. UnitsFollow' /\ SettledByAnswer'
  BY <1>1, ApplyFollowed, ApplySettled
<1>5. QED
  BY <1>2, <1>3, <1>4

-----------------------------------------------------------------------------
(***************************************************************************)
(* The invariant.                                                          *)
(***************************************************************************)
LEMMA FlowInit == Init => FlowInv
<1> SUFFICES ASSUME Init PROVE FlowInv
  OBVIOUS
<1>1. WebhookAttempts \in Nat /\ MaxLosses \in Nat /\ MaxRestarts \in Nat
  BY FlowAssumption
<1>2. TypeOK
  BY <1>1 DEF Init, TypeOK
<1>3. UnitsFollow
  BY DEF Init, UnitsFollow, PayingIffOngoing, SoldByOneApproval, Ongoing
<1>4. AtStub /\ OnItsWay /\ SettledByAnswer
  <2>1. AtStub
    BY DEF Init, AtStub, Verdicts, Sources
  <2>2. OnItsWay
    BY DEF Init, OnItsWay, Verdicts
  <2>3. SettledByAnswer
    BY DEF Init, SettledByAnswer, Verdicts
  <2>4. QED
    BY <2>1, <2>2, <2>3
<1>5. QED
  BY <1>2, <1>3, <1>4 DEF FlowInv

LEMMA PayStep ==
    ASSUME FlowInv, NEW p \in Attempts, Pay(p)
    PROVE  FlowInv'
<1> DEFINE o == OrderOf[p]
<1>1. o \in Orders
  BY FlowAssumption
<1>2. TypeOK /\ UnitsFollow /\ AtStub /\ OnItsWay /\ SettledByAnswer
  BY DEF FlowInv
<1>3. TypeOK'
  BY <1>1, <1>2 DEF Pay, TypeOK, faults
<1>4. /\ \A q \in Attempts : pay'[q] = IF q = p THEN "pending" ELSE pay[q]
      /\ \A x \in Orders : unit'[x] = IF x = o THEN "paying" ELSE unit[x]
      /\ unit[o] = "held" /\ Ongoing(o) = {} /\ pay[p] = "absent"
  BY <1>1, <1>2 DEF Pay, TypeOK, MayPay
<1>5. UnitsFollow'
  <2>1. \A x \in Orders : Ongoing(x)' = IF x = o THEN {p} ELSE Ongoing(x)
    BY <1>4 DEF Ongoing
  <2>2. \A x \in Orders : {q \in Attempts : OrderOf[q] = x /\ pay'[q] = "approved"}
                            = {q \in Attempts : OrderOf[q] = x /\ pay[q] = "approved"}
    BY <1>4
  <2>3. PayingIffOngoing'
    BY <1>2, <1>4, <2>1 DEF PayingIffOngoing, UnitsFollow
  <2>4. SoldByOneApproval'
    BY <1>2, <1>4, <2>2 DEF SoldByOneApproval, UnitsFollow
  <2>5. QED
    BY <2>3, <2>4 DEF UnitsFollow
<1>6. AtStub'
  <2>1. request[p] = "none"
    BY <1>2, <1>4 DEF AtStub
  <2>2. \A q \in Attempts : request'[q] = IF q = p THEN "sent" ELSE request[q]
    BY <1>2 DEF Pay, TypeOK
  <2>3. UNCHANGED <<store, said, tries, waiting>>
    BY DEF Pay
  <2>4. said[p]["charge"] = "none" /\ store[p] = "none"
    BY <1>2, <2>1 DEF AtStub, Sources
  <2>5. QED
    BY <1>2, <1>4, <2>2, <2>3, <2>4 DEF AtStub, Gave
<1>7. OnItsWay'
  <2>1. \A q \in Attempts : handler'[q] = IF q = p THEN "charging" ELSE handler[q]
    BY <1>2 DEF Pay, TypeOK
  <2>2. "charging" \notin Verdicts
    BY DEF Verdicts
  <2>3. UNCHANGED <<said, posts, checks>>
    BY DEF Pay
  <2>4. QED
    BY <1>2, <2>1, <2>2, <2>3 DEF OnItsWay, Gave
<1>8. SettledByAnswer'
  <2>1. UNCHANGED said /\ "pending" \notin Verdicts
    BY DEF Pay, Verdicts
  <2>2. QED
    BY <1>2, <1>4, <2>1 DEF SettledByAnswer
<1>9. QED
  BY <1>3, <1>5, <1>6, <1>7, <1>8 DEF FlowInv

\* The pay handler, waiting for the stub.
LEMMA HandlerStep ==
    ASSUME FlowInv, NEW p \in Attempts, ChargeAnswered(p) \/ ChargeFailed(p)
    PROVE  FlowInv'
<1>1. TypeOK /\ UnitsFollow /\ AtStub /\ OnItsWay /\ SettledByAnswer
  BY DEF FlowInv
<1>2. /\ handler' \in [Attempts -> {"none", "charging", "done"} \cup Verdicts]
      /\ \A q \in Attempts :
            \/ handler'[q] = handler[q]
            \/ handler'[q] \in Verdicts /\ handler'[q] = said[q]["charge"]
            \/ handler'[q] = "done"
  BY <1>1 DEF ChargeAnswered, ChargeFailed, OnError, TypeOK
<1>3. /\ request' \in [Attempts -> {"none", "sent", "served", "over"}]
      /\ \A q \in Attempts :
            \/ request'[q] = request[q]
            \/ request[q] # "none" /\ request'[q] = "over"
  BY <1>1 DEF ChargeAnswered, ChargeFailed, TypeOK
<1>4. UNCHANGED <<pay, unit, store, said, tries, waiting, posts, checks, losses, restarts>>
  BY DEF ChargeAnswered, ChargeFailed, faults
<1>5. TypeOK'
  BY <1>1, <1>2, <1>3, <1>4 DEF TypeOK
<1>6. UnitsFollow' /\ SettledByAnswer'
  BY <1>1, <1>4 DEF UnitsFollow, PayingIffOngoing, SoldByOneApproval, Ongoing, SettledByAnswer
<1>7. AtStub'
  BY <1>1, <1>3, <1>4 DEF AtStub, Gave
<1>8. OnItsWay'
  <2>1. "done" \notin Verdicts /\ "charge" \in Sources
    BY DEF Verdicts, Sources
  <2>2. QED
    BY <1>1, <1>2, <1>4, <2>1 DEF OnItsWay, Gave
<1>9. QED
  BY <1>5, <1>6, <1>7, <1>8 DEF FlowInv

LEMMA ApplyAnswerStep ==
    ASSUME FlowInv, NEW p \in Attempts, ApplyAnswer(p)
    PROVE  FlowInv'
<1>1. TypeOK /\ UnitsFollow /\ AtStub /\ OnItsWay /\ SettledByAnswer
  BY DEF FlowInv
<1>2. /\ handler[p] \in Verdicts /\ Apply(p, handler[p])
      /\ handler' = [handler EXCEPT ![p] = "done"]
      /\ UNCHANGED <<checks, request, store, said, tries, waiting, posts, losses, restarts>>
  BY DEF ApplyAnswer, stub, faults
<1>3. Gave(p, handler[p])
  BY <1>1, <1>2 DEF OnItsWay
<1>4. /\ pay' \in [Attempts -> {"absent", "pending"} \cup Verdicts]
      /\ unit' \in [Orders -> {"held", "paying", "sold", "gone"}]
      /\ UnitsFollow' /\ SettledByAnswer'
      /\ \A q \in Attempts : pay'[q] = "absent" => request'[q] = "none"
  BY <1>2, <1>3, Applied
<1>5. TypeOK'
  BY <1>1, <1>2, <1>4 DEF TypeOK
<1>6. AtStub'
  BY <1>1, <1>2, <1>4 DEF AtStub, Gave
<1>7. OnItsWay'
  <2>1. \A q \in Attempts : handler'[q] \in {"done", handler[q]}
    BY <1>1, <1>2 DEF TypeOK
  <2>2. "done" \notin Verdicts
    BY DEF Verdicts
  <2>3. QED
    BY <1>1, <1>2, <2>1, <2>2 DEF OnItsWay, Gave
<1>8. QED
  BY <1>4, <1>5, <1>6, <1>7 DEF FlowInv

\* Another step takes a held unit.
LEMMA UnitLeavesStep ==
    ASSUME FlowInv, NEW o \in Orders, UnitLeaves(o)
    PROVE  FlowInv'
<1>1. TypeOK /\ UnitsFollow /\ AtStub /\ OnItsWay /\ SettledByAnswer
  BY DEF FlowInv
<1>2. UNCHANGED <<pay, handler, checks, request, store, said, tries, waiting, posts, losses, restarts>>
  BY DEF UnitLeaves, stub, faults
<1>3. /\ unit' \in [Orders -> {"held", "paying", "sold", "gone"}]
      /\ \A x \in Orders :
            \/ unit'[x] = unit[x]
            \/ unit'[x] = "gone" /\ unit[x] = "held"
  BY <1>1 DEF UnitLeaves, TypeOK
<1>4. UnitsFollow'
  <2>1. \A x \in Orders : /\ unit'[x] = "paying" <=> unit[x] = "paying"
                          /\ unit'[x] = "sold" <=> unit[x] = "sold"
    BY <1>3
  <2>2. QED
    BY <1>1, <1>2, <2>1 DEF UnitsFollow, PayingIffOngoing, SoldByOneApproval, Ongoing
<1>5. TypeOK'
  BY <1>1, <1>2, <1>3 DEF TypeOK
<1>6. AtStub' /\ OnItsWay' /\ SettledByAnswer'
  BY <1>1, <1>2 DEF AtStub, OnItsWay, SettledByAnswer, Gave
<1>7. QED
  BY <1>4, <1>5, <1>6 DEF FlowInv

\* The stub decides, at the charge or at a click.
LEMMA DecideStep ==
    ASSUME FlowInv, NEW p \in Attempts, NEW s \in Sources,
           NEW v \in Verdicts \cup {"pending"}, s # "charge" => v # "pending",
           said[p][s] = "none", Decide(p, s, v),
           \/ s = "charge" /\ request[p] = "sent"
                /\ request' = [request EXCEPT ![p] = "served"]
           \/ s # "charge" /\ store[p] # "none" /\ UNCHANGED request,
           UNCHANGED <<backend, waiting, posts, faults>>
    PROVE  FlowInv'
<1>1. TypeOK /\ UnitsFollow /\ AtStub /\ OnItsWay /\ SettledByAnswer
  BY DEF FlowInv
<1>2. UNCHANGED <<pay, unit, handler, checks, waiting, posts, losses, restarts>>
  BY DEF backend, faults
<1>3. /\ store' \in [Attempts -> {"none", "pending"} \cup Verdicts]
      /\ said' \in [Attempts -> [Sources -> {"none", "pending"} \cup Verdicts]]
      /\ tries' \in [Attempts -> [Sources -> 0 .. WebhookAttempts]]
      /\ \A q \in Attempts : store'[q] = IF q = p THEN v ELSE store[q]
      /\ \A q \in Attempts, r \in Sources :
           said'[q][r] = IF q = p /\ r = s THEN v ELSE said[q][r]
      /\ \A q \in Attempts, r \in Sources :
           /\ tries'[q][r] > 0 => said'[q][r] \in Verdicts
           /\ r \in waiting'[q] => tries'[q][r] > 0
  BY <1>1, <1>2, Decided
<1>4. \A q \in Attempts, r \in Sources :
        said[q][r] \in Verdicts => said'[q][r] = said[q][r]
  BY <1>3 DEF Verdicts
<1>5. \A q \in Attempts, w \in Verdicts : Gave(q, w) => Gave(q, w)'
  BY <1>4, GivenStays
<1>6. /\ request' \in [Attempts -> {"none", "sent", "served", "over"}]
      /\ \A q \in Attempts : q # p => request'[q] = request[q]
      /\ request[p] # "none" /\ request'[p] \notin {"none", "sent"}
  <2>1. request \in [Attempts -> {"none", "sent", "served", "over"}]
    BY <1>1 DEF TypeOK
  <2>2. CASE s = "charge"
    BY <2>1, <2>2
  <2>3. CASE s # "charge"
    <3>1. store[p] # "none" /\ request' = request
      BY <2>3
    <3>2. request[p] \notin {"none", "sent"}
      BY <1>1, <3>1 DEF AtStub
    <3>3. QED
      BY <2>1, <3>1, <3>2
  <2>4. QED
    BY <2>2, <2>3
<1>7. TypeOK'
  BY <1>1, <1>2, <1>3, <1>6 DEF TypeOK
<1>8. UnitsFollow'
  BY <1>1, <1>2 DEF UnitsFollow, PayingIffOngoing, SoldByOneApproval, Ongoing
<1>9. SettledByAnswer'
  BY <1>1, <1>2, <1>5 DEF SettledByAnswer, Gave
<1>10. AtStub'
  <2> SUFFICES ASSUME NEW q \in Attempts
      PROVE  /\ pay'[q] = "absent" => request'[q] = "none"
             /\ request'[q] = "none" => \A r \in Sources : said'[q][r] = "none"
             /\ request'[q] \in {"none", "sent"} => said'[q]["charge"] = "none"
             /\ store'[q] # "none" => request'[q] \notin {"none", "sent"}
             /\ store'[q] \in Verdicts => Gave(q, store[q])'
    BY <1>3 DEF AtStub
  <2>1. CASE q = p
    <3>1. pay[p] # "absent"
      BY <1>1, <1>6 DEF AtStub
    <3>2. v \in Verdicts => Gave(p, v)'
      BY <1>3 DEF Gave
    <3>3. QED
      BY <1>2, <1>3, <1>6, <2>1, <3>1, <3>2
  <2>2. CASE q # p
    <3>1. /\ request'[q] = request[q] /\ store'[q] = store[q] /\ pay'[q] = pay[q]
          /\ \A r \in Sources : said'[q][r] = said[q][r]
          /\ "charge" \in Sources
      BY <1>2, <1>3, <1>6, <2>2 DEF Sources
    <3>2. QED
      BY <1>1, <1>5, <3>1 DEF AtStub
  <2>3. QED
    BY <2>1, <2>2
<1>11. OnItsWay'
  BY <1>1, <1>2, <1>4, <1>5 DEF OnItsWay
<1>12. QED
  BY <1>7, <1>8, <1>9, <1>10, <1>11 DEF FlowInv

\* A delivery starts, or fails.
LEMMA DeliveryStep ==
    ASSUME FlowInv, NEW p \in Attempts, NEW s \in Sources,
           Deliver(p, s) \/ DeliveryLost(p, s)
    PROVE  FlowInv'
<1>1. TypeOK /\ UnitsFollow /\ AtStub /\ OnItsWay /\ SettledByAnswer
  BY DEF FlowInv
<1>2. UNCHANGED <<pay, unit, handler, checks, request, store, said, restarts>>
  BY DEF Deliver, DeliveryLost, backend, faults
<1>3. UnitsFollow' /\ SettledByAnswer'
  BY <1>1, <1>2 DEF UnitsFollow, PayingIffOngoing, SoldByOneApproval, Ongoing, SettledByAnswer
<1>4. /\ tries' \in [Attempts -> [Sources -> 0 .. WebhookAttempts]]
      /\ waiting' \in [Attempts -> SUBSET Sources]
      /\ losses' \in 0 .. MaxLosses
      /\ \A q \in Attempts, r \in Sources :
           /\ tries'[q][r] > 0 => tries[q][r] > 0
           /\ r \in waiting'[q] => tries'[q][r] > 0
  <2>1. CASE Deliver(p, s)
    <3>1. /\ UNCHANGED <<tries, losses>> /\ tries[p][s] > 0
          /\ waiting' = [waiting EXCEPT ![p] = @ \cup {s}]
      BY <2>1 DEF Deliver, faults
    <3>2. waiting' \in [Attempts -> SUBSET Sources]
      BY <1>1, <3>1 DEF TypeOK
    <3>3. \A q \in Attempts, r \in Sources :
            r \in waiting'[q] => r \in waiting[q] \/ (q = p /\ r = s)
      BY <1>1, <3>1 DEF TypeOK
    <3>4. QED
      BY <1>1, <3>1, <3>2, <3>3 DEF TypeOK, AtStub
  <2>2. CASE DeliveryLost(p, s)
    BY <1>1, <2>2, Failed DEF DeliveryLost
  <2>3. QED
    BY <2>1, <2>2
<1>5. /\ posts' \in SUBSET (Attempts \X Sources)
      /\ \A q \in Attempts, r \in Sources :
            <<q, r>> \in posts' => <<q, r>> \in posts \/ said[q][r] \in Verdicts
  <2>1. CASE Deliver(p, s)
    <3>1. posts' = posts \cup {<<p, s>>} /\ said[p][s] \in Verdicts
      BY <1>1, <2>1 DEF Deliver, AtStub
    <3>2. QED
      BY <1>1, <3>1 DEF TypeOK
  <2>2. CASE DeliveryLost(p, s)
    BY <1>1, <2>2 DEF DeliveryLost, TypeOK
  <2>3. QED
    BY <2>1, <2>2
<1>6. TypeOK'
  BY <1>1, <1>2, <1>4, <1>5 DEF TypeOK
<1>7. AtStub'
  BY <1>1, <1>2, <1>4 DEF AtStub, Gave
<1>8. OnItsWay'
  BY <1>1, <1>2, <1>5 DEF OnItsWay, Gave
<1>9. QED
  BY <1>3, <1>6, <1>7, <1>8 DEF FlowInv

LEMMA WebhookStep ==
    ASSUME FlowInv, NEW p \in Attempts, NEW s \in Sources, Webhook(p, s)
    PROVE  FlowInv'
<1>1. TypeOK /\ UnitsFollow /\ AtStub /\ OnItsWay /\ SettledByAnswer
  BY DEF FlowInv
<1>2. UNCHANGED <<handler, checks, request, store, said, restarts>>
  BY DEF Webhook
<1>3. said[p][s] \in Verdicts /\ Gave(p, said[p][s]) /\ Apply(p, said[p][s])
  BY <1>1 DEF Webhook, OnItsWay, Gave
<1>4. /\ pay' \in [Attempts -> {"absent", "pending"} \cup Verdicts]
      /\ unit' \in [Orders -> {"held", "paying", "sold", "gone"}]
      /\ UnitsFollow' /\ SettledByAnswer'
      /\ \A q \in Attempts : pay'[q] = "absent" => request'[q] = "none"
  BY <1>2, <1>3, Applied
<1>5. /\ tries' \in [Attempts -> [Sources -> 0 .. WebhookAttempts]]
      /\ waiting' \in [Attempts -> SUBSET Sources]
      /\ losses' \in 0 .. MaxLosses
      /\ \A q \in Attempts, r \in Sources :
           /\ tries'[q][r] > 0 => tries[q][r] > 0
           /\ r \in waiting'[q] => tries'[q][r] > 0
  <2>1. CASE DeliveryFails(p, s)
    BY <1>1, <2>1, Failed
  <2>2. CASE ~DeliveryFails(p, s)
    <3>1. /\ tries' = [tries EXCEPT ![p][s] = IF s \in waiting[p] THEN 0 ELSE @]
          /\ waiting' = [waiting EXCEPT ![p] = @ \ {s}]
          /\ UNCHANGED losses
      BY <2>2 DEF Webhook
    <3>2. WebhookAttempts \in Nat
      BY FlowAssumption
    <3>3. tries' \in [Attempts -> [Sources -> 0 .. WebhookAttempts]]
      BY <1>1, <3>1, <3>2 DEF TypeOK
    <3>4. \A q \in Attempts, r \in Sources :
            /\ tries'[q][r] = IF q = p /\ r = s /\ s \in waiting[p] THEN 0 ELSE tries[q][r]
            /\ r \in waiting'[q] <=> r \in waiting[q] /\ ~(q = p /\ r = s)
      BY <1>1, <3>1 DEF TypeOK
    <3>5. waiting' \in [Attempts -> SUBSET Sources] /\ losses' \in 0 .. MaxLosses
      BY <1>1, <3>1 DEF TypeOK
    <3>6. QED
      BY <1>1, <3>3, <3>4, <3>5 DEF AtStub
  <2>3. QED
    BY <2>1, <2>2
<1>6. posts' = posts \ {<<p, s>>}
  BY DEF Webhook
<1>7. TypeOK'
  BY <1>1, <1>2, <1>4, <1>5, <1>6 DEF TypeOK
<1>8. AtStub'
  BY <1>1, <1>2, <1>4, <1>5 DEF AtStub, Gave
<1>9. OnItsWay'
  BY <1>1, <1>2, <1>6 DEF OnItsWay, Gave
<1>10. QED
  BY <1>4, <1>7, <1>8, <1>9 DEF FlowInv

\* The shop's button.
LEMMA CheckStep ==
    ASSUME FlowInv, NEW p \in Attempts, Check(p)
    PROVE  FlowInv'
<1>1. TypeOK /\ UnitsFollow /\ AtStub /\ OnItsWay /\ SettledByAnswer
  BY DEF FlowInv
<1>2. UNCHANGED <<pay, unit, handler, request, store, said, tries, waiting, posts, losses, restarts>>
  BY DEF Check, stub, faults
<1>3. store[p] \in Verdicts /\ checks' = checks \cup {<<p, store[p]>>} /\ Gave(p, store[p])
  BY <1>1 DEF Check, AtStub
<1>4. TypeOK'
  BY <1>1, <1>2, <1>3 DEF TypeOK
<1>5. UnitsFollow' /\ AtStub' /\ SettledByAnswer'
  BY <1>1, <1>2 DEF UnitsFollow, PayingIffOngoing, SoldByOneApproval, Ongoing,
                    AtStub, SettledByAnswer, Gave
<1>6. OnItsWay'
  BY <1>1, <1>2, <1>3 DEF OnItsWay, Gave
<1>7. QED
  BY <1>4, <1>5, <1>6 DEF FlowInv

LEMMA ApplyCheckStep ==
    ASSUME FlowInv, NEW p \in Attempts, NEW v \in Verdicts, ApplyCheck(p, v)
    PROVE  FlowInv'
<1>1. TypeOK /\ UnitsFollow /\ AtStub /\ OnItsWay /\ SettledByAnswer
  BY DEF FlowInv
<1>2. /\ UNCHANGED <<handler, request, store, said, tries, waiting, posts, losses, restarts>>
      /\ checks' = checks \ {<<p, v>>}
  BY DEF ApplyCheck, stub, faults
<1>3. Gave(p, v) /\ Apply(p, v)
  BY <1>1 DEF ApplyCheck, OnItsWay
<1>4. /\ pay' \in [Attempts -> {"absent", "pending"} \cup Verdicts]
      /\ unit' \in [Orders -> {"held", "paying", "sold", "gone"}]
      /\ UnitsFollow' /\ SettledByAnswer'
      /\ \A q \in Attempts : pay'[q] = "absent" => request'[q] = "none"
  BY <1>2, <1>3, Applied
<1>5. TypeOK'
  BY <1>1, <1>2, <1>4 DEF TypeOK
<1>6. AtStub'
  BY <1>1, <1>2, <1>4 DEF AtStub, Gave
<1>7. OnItsWay'
  BY <1>1, <1>2 DEF OnItsWay, Gave
<1>8. QED
  BY <1>4, <1>5, <1>6, <1>7 DEF FlowInv

LEMMA BackendRestartStep ==
    ASSUME FlowInv, BackendRestart
    PROVE  FlowInv'
<1>1. TypeOK /\ UnitsFollow /\ AtStub /\ OnItsWay /\ SettledByAnswer
  BY DEF FlowInv
<1>2. UNCHANGED <<pay, unit, request, store, said, tries, waiting, posts, losses>>
  BY DEF BackendRestart, stub
<1>3. /\ checks' = {}
      /\ \A q \in Attempts : handler'[q] \in {"none", "done"}
      /\ handler' \in [Attempts -> {"none", "charging", "done"} \cup Verdicts]
  BY DEF BackendRestart
<1>4. restarts' \in 0 .. MaxRestarts
  <2>1. restarts \in 0 .. MaxRestarts /\ MaxRestarts \in Nat
    BY <1>1, FlowAssumption DEF TypeOK
  <2>2. QED
    BY <2>1 DEF BackendRestart
<1>5. TypeOK'
  BY <1>1, <1>2, <1>3, <1>4 DEF TypeOK
<1>6. UnitsFollow' /\ AtStub' /\ SettledByAnswer'
  BY <1>1, <1>2 DEF UnitsFollow, PayingIffOngoing, SoldByOneApproval, Ongoing,
                    AtStub, SettledByAnswer, Gave
<1>7. OnItsWay'
  BY <1>1, <1>2, <1>3 DEF OnItsWay, Gave, Verdicts
<1>8. QED
  BY <1>5, <1>6, <1>7 DEF FlowInv

LEMMA StubRestartStep ==
    ASSUME FlowInv, StubRestart
    PROVE  FlowInv'
<1>1. TypeOK /\ UnitsFollow /\ AtStub /\ OnItsWay /\ SettledByAnswer
  BY DEF FlowInv
<1>2. UNCHANGED <<pay, unit, handler, checks, said, posts, losses>>
  BY DEF StubRestart, backend
<1>3. /\ \A q \in Attempts : store'[q] = "none"
      /\ \A q \in Attempts, r \in Sources : tries'[q][r] = 0 /\ r \notin waiting'[q]
  BY DEF StubRestart
<1>4. \A q \in Attempts :
        \/ request'[q] = request[q]
        \/ request[q] = "served" /\ request'[q] = "over"
  BY DEF StubRestart
<1>5. TypeOK'
  <2>1. restarts \in 0 .. MaxRestarts /\ MaxRestarts \in Nat /\ WebhookAttempts \in Nat
    BY <1>1, FlowAssumption DEF TypeOK
  <2>2. restarts' \in 0 .. MaxRestarts
    BY <2>1 DEF StubRestart
  <2>3. /\ store' \in [Attempts -> {"none", "pending"} \cup Verdicts]
        /\ request' \in [Attempts -> {"none", "sent", "served", "over"}]
    BY <1>1 DEF StubRestart, TypeOK
  <2>4. /\ tries' \in [Attempts -> [Sources -> 0 .. WebhookAttempts]]
        /\ waiting' \in [Attempts -> SUBSET Sources]
    BY <2>1 DEF StubRestart
  <2>5. QED
    BY <1>1, <1>2, <2>2, <2>3, <2>4 DEF TypeOK
<1>6. UnitsFollow' /\ SettledByAnswer'
  BY <1>1, <1>2 DEF UnitsFollow, PayingIffOngoing, SoldByOneApproval, Ongoing, SettledByAnswer
<1>7. AtStub'
  BY <1>1, <1>2, <1>3, <1>4 DEF AtStub, Verdicts
<1>8. OnItsWay'
  BY <1>1, <1>2 DEF OnItsWay, Gave
<1>9. QED
  BY <1>5, <1>6, <1>7, <1>8 DEF FlowInv

LEMMA FlowStep == FlowInv /\ [Next]_vars => FlowInv'
<1> SUFFICES ASSUME FlowInv, [Next]_vars PROVE FlowInv'
  OBVIOUS
<1>1. CASE UNCHANGED vars
  BY <1>1 DEF FlowInv, TypeOK, UnitsFollow, PayingIffOngoing, SoldByOneApproval, Ongoing,
              AtStub, OnItsWay, SettledByAnswer, Gave, vars, backend, stub, faults
<1>2. ASSUME NEW p \in Attempts, CreatePayment(p)
      PROVE  FlowInv'
  <2>1. PICK v \in Verdicts \cup {"pending"} : Decide(p, "charge", v)
    BY <1>2 DEF CreatePayment
  <2>2. said[p]["charge"] = "none" /\ "charge" \in Sources
    BY <1>2 DEF CreatePayment, FlowInv, AtStub, Sources
  <2>3. QED
    BY <1>2, <2>1, <2>2, DecideStep DEF CreatePayment
<1>3. ASSUME NEW p \in Attempts, NEW c \in Clicks, Resolve(p, c)
      PROVE  FlowInv'
  <2>1. PICK v \in Verdicts : Decide(p, c, v)
    BY <1>3 DEF Resolve
  <2>2. c \in Sources /\ c # "charge" /\ v # "pending"
    BY FlowAssumption DEF Sources, Verdicts
  <2>3. QED
    BY <1>3, <2>1, <2>2, DecideStep DEF Resolve
<1>4. QED
  BY <1>1, <1>2, <1>3, PayStep, HandlerStep, ApplyAnswerStep, UnitLeavesStep, DeliveryStep,
     WebhookStep, CheckStep, ApplyCheckStep, BackendRestartStep, StubRestartStep DEF Next

LEMMA Followed == Spec => []FlowInv
BY FlowInit, FlowStep, PTL DEF Spec

\* Payments, the stub and its deliveries stay in their types
\* (routers/payments.py, paystub/main.py).
THEOREM TypeCorrect == Spec => []TypeOK
BY Followed, PTL DEF FlowInv

\* A unit is in payment exactly while one attempt of its order is pending,
\* however late the answers to the earlier ones are (payments.py:128-139).
THEOREM InPayment == Spec => []PayingIffOngoing
<1>1. FlowInv => PayingIffOngoing
  BY DEF FlowInv, UnitsFollow
<1>2. QED
  BY <1>1, Followed, PTL

\* A unit is sold by one approved attempt, or not at all (payments.py:146-175).
THEOREM SoldOnce == Spec => []SoldByOneApproval
<1>1. FlowInv => SoldByOneApproval
  BY DEF FlowInv, UnitsFollow
<1>2. QED
  BY <1>1, Followed, PTL

\* Only an answer of the stub settles an attempt, whatever is lost, late,
\* repeated or forgotten (routers/payments.py:69-72).
THEOREM AnswerSettles == Spec => []SettledByAnswer
BY Followed, PTL DEF FlowInv

\* While the stub sticks to its word, one attempt of an order at most is
\* approved by it, the ones the backend has not heard of included.
THEOREM ChargedAtMostOnce == Spec => []ChargedOnce
<1>1. ASSUME FlowInv, NEW p \in Attempts, OneVerdict(p), Approved(p)
      PROVE  pay[p] \in {"pending", "approved"}
  <2>1. pay[p] \in {"absent", "pending"} \cup Verdicts
    BY <1>1 DEF FlowInv, TypeOK
  <2>2. pay[p] # "absent"
    BY <1>1 DEF FlowInv, AtStub, Approved
  <2>3. pay[p] # "declined"
    BY <1>1 DEF FlowInv, SettledByAnswer, OneVerdict, Approved, Verdicts
  <2>4. QED
    BY <2>1, <2>2, <2>3 DEF Verdicts
<1>2. ASSUME FlowInv, NEW p \in Attempts, NEW q \in Attempts, OrderOf[p] = OrderOf[q],
             pay[p] \in {"pending", "approved"}, pay[q] \in {"pending", "approved"}
      PROVE  p = q
  <2> DEFINE o == OrderOf[p]
             approved == {r \in Attempts : OrderOf[r] = o /\ pay[r] = "approved"}
  <2>1. o \in Orders
    BY FlowAssumption
  <2>2. /\ unit[o] = "paying" <=> Ongoing(o) # {}
        /\ \A r, s \in Ongoing(o) : r = s
    BY <1>2, <2>1 DEF FlowInv, UnitsFollow, PayingIffOngoing
  <2>3. /\ unit[o] = "sold" <=> approved # {}
        /\ \A r, s \in approved : r = s
    BY <1>2, <2>1 DEF FlowInv, UnitsFollow, SoldByOneApproval
  <2>4. /\ pay[p] = "pending" <=> p \in Ongoing(o)
        /\ pay[q] = "pending" <=> q \in Ongoing(o)
        /\ pay[p] = "approved" <=> p \in approved
        /\ pay[q] = "approved" <=> q \in approved
    BY <1>2 DEF Ongoing
  <2> HIDE DEF o, approved
  <2>5. QED
    BY <1>2, <2>2, <2>3, <2>4
<1>3. FlowInv => ChargedOnce
  BY <1>1, <1>2 DEF ChargedOnce
<1>4. QED
  BY <1>3, Followed, PTL

-----------------------------------------------------------------------------
(***************************************************************************)
(* The ledger of payments, which FlashSale implements too.                 *)
(***************************************************************************)
LEMMA PaymentsApply ==
    ASSUME FlowInv, NEW p \in Attempts, NEW v \in Verdicts, Apply(p, v)
    PROVE  Payments!Next \/ UNCHANGED Payments!vars
<1>1. CASE ~StillPending(p)
  BY <1>1 DEF Apply, Payments!vars
<1>2. CASE StillPending(p)
  <2>1. OrderOf[p] \in Orders /\ p \in Ongoing(OrderOf[p])
    BY <1>2, FlowAssumption DEF StillPending, Ongoing
  <2>2. unit[OrderOf[p]] = "paying"
    BY <2>1 DEF FlowInv, UnitsFollow, PayingIffOngoing
  <2>3. Payments!Settle(p, v)
    BY <1>2, <2>2 DEF Apply, StillPending, After, Payments!Settle, Payments!After
  <2> QED
    BY <2>3 DEF Payments!Next, Payments!Verdicts, Verdicts
<1> QED
  BY <1>1, <1>2

LEMMA PaymentsStep ==
    ASSUME FlowInv, [Next]_vars
    PROVE  Payments!Next \/ UNCHANGED Payments!vars
<1>1. ASSUME UNCHANGED <<pay, unit>> PROVE UNCHANGED Payments!vars
  BY <1>1 DEF Payments!vars
<1>2. ASSUME NEW p \in Attempts, Pay(p) PROVE Payments!Next
  <2>1. Payments!Start(p)
    BY <1>2 DEF Pay, MayPay, Ongoing, Payments!Start, Payments!Ongoing
  <2> QED
    BY <2>1 DEF Payments!Next
<1>3. ASSUME NEW o \in Orders, UnitLeaves(o) PROVE Payments!Next
  <2>1. unit' = [x \in Orders |-> IF x \in {o} THEN "gone" ELSE unit[x]]
    BY <1>3 DEF UnitLeaves, FlowInv, TypeOK
  <2>2. Payments!Leave({o})
    BY <1>3, <2>1 DEF UnitLeaves, Payments!Leave
  <2> QED
    BY <2>2 DEF Payments!Next
<1>4. ASSUME NEW p \in Attempts,
             \/ ApplyAnswer(p)
             \/ \E v \in Verdicts : ApplyCheck(p, v)
             \/ \E s \in Sources : Webhook(p, s)
      PROVE  \E v \in Verdicts : Apply(p, v)
  BY <1>4 DEF ApplyAnswer, ApplyCheck, Webhook, FlowInv, OnItsWay
<1> QED
  BY <1>1, <1>2, <1>3, <1>4, PaymentsApply DEF Next, vars, backend, ChargeAnswered,
     ChargeFailed, CreatePayment, Check, Resolve, Deliver, DeliveryLost, BackendRestart,
     StubRestart

\* Whatever is clicked, lost, repeated or restarted, the answers of the stub do
\* to the rows what the ledger of payments allows and no more.
THEOREM PaymentsImplemented == Spec => ImplementsPayments
<1>1. Init => Payments!Init
  BY DEF Init, Payments!Init
<1>2. FlowInv /\ [Next]_vars => [Payments!Next]_Payments!vars
  BY PaymentsStep
<1> QED
  BY <1>1, <1>2, Followed, PTL DEF Spec, ImplementsPayments, Payments!Spec

-----------------------------------------------------------------------------
(***************************************************************************)
(* Checkouts.  The payments of a checkout are payments of PaymentFlow.     *)
(***************************************************************************)
LEMMA CheckoutStepIsFlowStep == CheckoutNext => [Next]_vars
<1> SUFFICES ASSUME CheckoutNext PROVE [Next]_vars
  OBVIOUS
<1>1. Item \in Orders /\ "charge" \in Sources
  BY CheckoutAssumption DEF Sources
<1>2. CASE \E t \in Tabs : \/ Click(t) \/ Cut(t) \/ Reload(t) \/ ListOrders(t) \/ PayRefused(t)
                        \/ \E u \in Tabs : Duplicate(t, u)
  BY <1>2 DEF Click, Cut, Reload, ListOrders, PayRefused, Duplicate
<1>3. CASE \E t \in Tabs, p \in Attempts : StartPay(t, p)
  BY <1>3 DEF StartPay, Next
<1>4. CASE \E c \in calls : CreateOrderRead(c) \/ CreateOrderInsert(c)
  BY <1>4 DEF CreateOrderRead, CreateOrderInsert
<1>5. CASE \E p \in Attempts : PayEnds(p)
  BY <1>5 DEF PayEnds, Next
<1>6. CASE CheckoutRestart
  BY <1>6 DEF CheckoutRestart, Next
<1>7. CASE Elsewhere
  BY <1>1, <1>7 DEF Elsewhere, Next
<1>8. QED
  BY <1>2, <1>3, <1>4, <1>5, <1>6, <1>7 DEF CheckoutNext

LEMMA CheckoutFollowed == CheckoutSpec => []FlowInv
<1>1. CheckoutInit => FlowInv
  BY FlowInit DEF CheckoutInit
<1>2. FlowInv /\ [CheckoutNext]_allVars => FlowInv'
  <2>1. [CheckoutNext]_allVars => [Next]_vars
    BY CheckoutStepIsFlowStep DEF allVars
  <2>2. QED
    BY <2>1, FlowStep
<1>3. QED
  BY <1>1, <1>2, PTL DEF CheckoutSpec

CheckoutTyped ==
    /\ row \in Keys \cup {"none"}
    /\ calls \in SUBSET Calls
    /\ key \in [Tabs -> Keys \cup {"none"}]
    /\ knows \in [Tabs -> BOOLEAN]
    /\ step \in [Tabs -> {"idle", "ordering", "listing", "paying"} \cup Attempts]
    /\ notice \in [Tabs -> {"none"} \cup Outcomes \cup CheckoutErrors]

\* A tab that pays pays for an order; without one, the unit is in the cart or
\* gone; and a tab that looks for an order it will not find looks for a unit
\* that is gone.
OrderKnown ==
    /\ \A t \in Tabs :
        knows[t] \/ step[t] \in {"paying"} \cup Attempts => row # "none"
    /\ row = "none" => unit[Item] \in {"held", "gone"}
    /\ \A t \in Tabs :
        step[t] = "listing" /\ row = "none" => unit[Item] = "gone"

CheckoutInv == CheckoutTyped /\ OrderKnown /\ RefusedOnlyGone

\* No step but the payment of a tab takes the unit from the cart into payment.
UnitStays ==
    \/ unit'[Item] = unit[Item]
    \/ unit[Item] = "paying"
    \/ unit[Item] = "held" /\ unit'[Item] = "gone"

LEMMA Stays ==
    ASSUME OrderKnown, RefusedOnlyGone, UnitStays,
           row' = row \/ row' # "none",
           \A t \in Tabs :
               /\ knows'[t] => knows[t] \/ row' # "none"
               /\ step'[t] \in {"paying"} \cup Attempts =>
                       \/ step[t] \in {"paying"} \cup Attempts
                       \/ knows[t]
                       \/ row' # "none"
               /\ step'[t] = "listing" =>
                       step[t] = "listing" \/ row' # "none" \/ unit[Item] = "gone"
               /\ notice'[t] = "refused" => notice[t] = "refused" \/ unit[Item] = "gone"
    PROVE  OrderKnown' /\ RefusedOnlyGone'
<1>1. unit[Item] = "gone" => unit'[Item] = "gone"
  BY DEF UnitStays
<1>2. row' = "none" => row = "none" /\ unit'[Item] \in {"held", "gone"}
  BY DEF UnitStays, OrderKnown
<1>3. OrderKnown'
  BY <1>1, <1>2 DEF OrderKnown
<1>4. RefusedOnlyGone'
  BY <1>1 DEF RefusedOnlyGone
<1>5. QED
  BY <1>3, <1>4

LEMMA ApplyStays ==
    ASSUME FlowInv, NEW p \in Attempts, NEW v \in Verdicts, Apply(p, v)
    PROVE  UnitStays
<1>1. Item \in Orders /\ OrderOf[p] \in Orders
  BY FlowAssumption, CheckoutAssumption
<1>2. CASE ~StillPending(p)
  BY <1>2 DEF Apply, UnitStays
<1>3. CASE StillPending(p)
  <2>1. p \in Ongoing(OrderOf[p])
    BY <1>3 DEF StillPending, Ongoing
  <2>2. unit[OrderOf[p]] = "paying"
    BY <1>1, <2>1 DEF FlowInv, UnitsFollow, PayingIffOngoing
  <2>3. \E u \in After(v) : unit' = [unit EXCEPT ![OrderOf[p]] = u]
    BY <1>3 DEF Apply
  <2>4. QED
    BY <1>1, <2>2, <2>3 DEF UnitStays, FlowInv, TypeOK
<1>4. QED
  BY <1>2, <1>3

\* The page ends what it was at.
LEMMA Finishing ==
    ASSUME CheckoutTyped, NEW t \in Tabs, NEW n \in {"none"} \cup Outcomes \cup CheckoutErrors,
           Finish(t, n)
    PROVE  /\ step' \in [Tabs -> {"idle", "ordering", "listing", "paying"} \cup Attempts]
           /\ notice' \in [Tabs -> {"none"} \cup Outcomes \cup CheckoutErrors]
           /\ \A u \in Tabs : step'[u] = step[u] \/ step'[u] = "idle"
           /\ \A u \in Tabs : notice'[u] = notice[u] \/ notice'[u] = n
BY DEF CheckoutTyped, Finish, Finished

\* The page has the id of an order that is there.
LEMMA Learning ==
    ASSUME CheckoutTyped, NEW t \in Tabs, LearnsOrder(t)
    PROVE  /\ knows' \in [Tabs -> BOOLEAN]
           /\ step' \in [Tabs -> {"idle", "ordering", "listing", "paying"} \cup Attempts]
           /\ UNCHANGED notice
           /\ \A u \in Tabs : step'[u] = step[u] \/ step'[u] = "paying"
BY DEF CheckoutTyped, LearnsOrder

LEMMA NotIdle ==
    /\ Attempts \cap {"idle", "ordering", "listing", "paying", "none"} = {}
    /\ Keys \cap {"idle", "ordering", "listing", "paying", "none"} = {}
    /\ "none" \notin Tabs
    /\ Item \in Orders
BY CheckoutAssumption

LEMMA ClickStep ==
    ASSUME CheckoutInv, NEW t \in Tabs, Click(t)
    PROVE  CheckoutInv'
<1>1. CheckoutTyped /\ OrderKnown /\ RefusedOnlyGone
  BY DEF CheckoutInv
<1>2. /\ key' \in [Tabs -> Keys \cup {"none"}]
      /\ key'[t] \in Keys
  <2>1. CASE key[t] # "none" /\ UNCHANGED key
    BY <1>1, <2>1 DEF CheckoutTyped
  <2>2. CASE Fresh # {} /\ key' = [key EXCEPT ![t] = CHOOSE k \in Fresh : TRUE]
    <3>1. (CHOOSE k \in Fresh : TRUE) \in Keys
      <4>1. PICK k \in Fresh : TRUE
        BY <2>2
      <4>2. Fresh \subseteq Keys
        BY DEF Fresh
      <4>3. (CHOOSE x \in Fresh : TRUE) \in Fresh
        BY <4>1
      <4>4. QED
        BY <4>2, <4>3
    <3>2. QED
      BY <1>1, <2>2, <3>1 DEF CheckoutTyped
  <2>3. QED
    BY <2>1, <2>2 DEF Click
<1>3. UNCHANGED <<row, knows, mishaps, unit>>
  BY DEF Click, vars, backend
<1>4. /\ notice' \in [Tabs -> {"none"} \cup Outcomes \cup CheckoutErrors]
      /\ step' \in [Tabs -> {"idle", "ordering", "listing", "paying"} \cup Attempts]
      /\ \A u \in Tabs : notice'[u] = notice[u] \/ notice'[u] = "none"
      /\ \A u \in Tabs :
            \/ step'[u] = "paying" /\ knows[u]
            \/ step'[u] = "ordering"
            \/ step'[u] = step[u]
  BY <1>1 DEF Click, CheckoutTyped
<1>5. calls' \in SUBSET Calls
  <2>1. [by |-> t, key |-> key'[t], at |-> "sent"] \in Calls
    BY <1>2 DEF Calls
  <2>2. calls' \in {calls, calls \cup {[by |-> t, key |-> key'[t], at |-> "sent"]}}
    BY DEF Click
  <2>3. QED
    BY <1>1, <2>1, <2>2 DEF CheckoutTyped
<1>6. CheckoutTyped'
  BY <1>1, <1>2, <1>3, <1>4, <1>5 DEF CheckoutTyped
<1>7. UnitStays
  BY <1>3 DEF UnitStays
<1>8. OrderKnown' /\ RefusedOnlyGone'
  BY <1>1, <1>3, <1>4, <1>7, Stays, NotIdle
<1>9. QED
  BY <1>6, <1>8 DEF CheckoutInv

\* A call is cut, or the page reloaded or duplicated.
LEMMA MishapStep ==
    ASSUME CheckoutInv, NEW t \in Tabs,
           Cut(t) \/ Reload(t) \/ \E u \in Tabs : Duplicate(t, u)
    PROVE  CheckoutInv'
<1>1. CheckoutTyped /\ OrderKnown /\ RefusedOnlyGone
  BY DEF CheckoutInv
<1>2. Orphaned(t) \in SUBSET Calls
  <2>1. \A c \in calls : c \in Calls /\ [c EXCEPT !.by = "none"] \in Calls
    BY <1>1 DEF CheckoutTyped, Calls
  <2>2. QED
    BY <2>1 DEF Orphaned
<1>3. UNCHANGED <<row, unit>>
  BY DEF Cut, Reload, Duplicate, vars, backend
<1>4. calls' \in SUBSET Calls
  BY <1>1, <1>2 DEF CheckoutTyped, Cut, Reload, Duplicate, wire
<1>5. /\ key' \in [Tabs -> Keys \cup {"none"}]
      /\ knows' \in [Tabs -> BOOLEAN]
      /\ \A u \in Tabs : knows'[u] => knows[u] \/ row # "none"
  BY <1>1 DEF CheckoutTyped, OrderKnown, Cut, Reload, Duplicate
<1>6. /\ step' \in [Tabs -> {"idle", "ordering", "listing", "paying"} \cup Attempts]
      /\ notice' \in [Tabs -> {"none"} \cup Outcomes \cup CheckoutErrors]
      /\ \A u \in Tabs : step'[u] = step[u] \/ step'[u] = "idle"
      /\ \A u \in Tabs : notice'[u] = notice[u] \/ notice'[u] \in {"failed", "none"}
  <2>1. CASE UNCHANGED <<step, notice>>
    BY <1>1, <2>1 DEF CheckoutTyped
  <2>2. CASE Finish(t, "failed") \/ Finish(t, "none")
    BY <1>1, <2>2, Finishing DEF CheckoutErrors
  <2>3. QED
    BY <2>1, <2>2 DEF Cut, Reload, Duplicate
<1>7. CheckoutTyped'
  BY <1>1, <1>3, <1>4, <1>5, <1>6 DEF CheckoutTyped
<1>8. UnitStays
  BY <1>3 DEF UnitStays
<1>9. OrderKnown' /\ RefusedOnlyGone'
  BY <1>1, <1>3, <1>5, <1>6, <1>8, Stays, NotIdle
<1>10. QED
  BY <1>7, <1>9 DEF CheckoutInv

\* The answer of create_order.
LEMMA Answered ==
    ASSUME CheckoutTyped, NEW c \in Calls, NEW answer \in {"order", "not held", "ordered"},
           Answer(c, answer)
    PROVE  /\ UNCHANGED <<key, notice>>
           /\ knows' \in [Tabs -> BOOLEAN]
           /\ step' \in [Tabs -> {"idle", "ordering", "listing", "paying"} \cup Attempts]
           /\ answer # "order" => UNCHANGED knows
           /\ \A u \in Tabs :
                \/ step'[u] = step[u]
                \/ step'[u] = IF answer = "order" THEN "paying" ELSE "listing"
<1>1. CASE c.by = "none"
  BY <1>1 DEF Answer, CheckoutTyped, page
<1>2. CASE c.by # "none"
  <2>1. c.by \in Tabs
    BY <1>2 DEF Calls
  <2>2. CASE answer = "order"
    <3>1. UNCHANGED key /\ LearnsOrder(c.by)
      BY <1>2, <2>2 DEF Answer, Adopts
    <3>2. QED
      BY <2>1, <2>2, <3>1, Learning
  <2>3. CASE answer # "order"
    <3>1. /\ UNCHANGED <<key, knows, notice>>
          /\ step' = [step EXCEPT ![c.by] = "listing"]
      BY <1>2, <2>3 DEF Answer, Adopts
    <3>2. QED
      BY <2>1, <2>3, <3>1 DEF CheckoutTyped
  <2>4. QED
    BY <2>2, <2>3
<1>3. QED
  BY <1>1, <1>2

LEMMA CreateOrderStep ==
    ASSUME CheckoutInv, NEW c \in calls, CreateOrderRead(c) \/ CreateOrderInsert(c)
    PROVE  CheckoutInv'
<1>1. CheckoutTyped /\ OrderKnown /\ RefusedOnlyGone
  BY DEF CheckoutInv
<1>2. c \in Calls /\ c.key \in Keys /\ c.key # "none"
  BY <1>1, NotIdle DEF CheckoutTyped, Calls
<1>3. UNCHANGED <<mishaps, unit>>
  BY DEF CreateOrderRead, CreateOrderInsert, vars, backend
<1>4. UnitStays
  BY <1>3 DEF UnitStays
<1>5. CASE UNCHANGED <<row, page>> /\ calls' = (calls \ {c}) \cup {[c EXCEPT !.at = "read"]}
  <2>1. [c EXCEPT !.at = "read"] \in Calls
    BY <1>2 DEF Calls
  <2>2. CheckoutTyped'
    BY <1>1, <1>5, <2>1 DEF CheckoutTyped, page
  <2>3. OrderKnown' /\ RefusedOnlyGone'
    BY <1>1, <1>4, <1>5, Stays DEF page
  <2>4. QED
    BY <2>2, <2>3 DEF CheckoutInv
<1>6. ASSUME NEW answer \in {"order", "not held", "ordered"}, Answer(c, answer),
             calls' = calls \ {c}, row' \in Keys \cup {"none"},
             row' = row \/ row' # "none",
             answer # "not held" => row' # "none",
             answer = "not held" /\ row' = "none" => unit[Item] = "gone"
      PROVE  CheckoutInv'
  <2>1. /\ UNCHANGED <<key, notice>>
        /\ knows' \in [Tabs -> BOOLEAN]
        /\ step' \in [Tabs -> {"idle", "ordering", "listing", "paying"} \cup Attempts]
        /\ answer # "order" => UNCHANGED knows
        /\ \A u \in Tabs :
             \/ step'[u] = step[u]
             \/ step'[u] = IF answer = "order" THEN "paying" ELSE "listing"
    BY <1>1, <1>2, <1>6, Answered
  <2>2. CheckoutTyped'
    BY <1>1, <1>6, <2>1 DEF CheckoutTyped
  <2>3. \A u \in Tabs :
          /\ knows'[u] => knows[u] \/ row' # "none"
          /\ step'[u] \in {"paying"} \cup Attempts =>
                  \/ step[u] \in {"paying"} \cup Attempts
                  \/ row' # "none"
          /\ step'[u] = "listing" =>
                  step[u] = "listing" \/ row' # "none" \/ unit[Item] = "gone"
    BY <1>6, <2>1, NotIdle
  <2>4. OrderKnown' /\ RefusedOnlyGone'
    BY <1>1, <1>4, <1>6, <2>1, <2>3, Stays
  <2>5. QED
    BY <2>2, <2>4 DEF CheckoutInv
<1>7. CASE CreateOrderRead(c)
  <2>1. CASE row # c.key /\ unit[Item] = "held"
    BY <1>5, <1>7, <2>1 DEF CreateOrderRead
  <2>2. CASE row = c.key
    <3>1. Answer(c, "order") /\ calls' = calls \ {c} /\ UNCHANGED row
      BY <1>7, <2>2 DEF CreateOrderRead
    <3>2. QED
      BY <1>1, <1>2, <1>6, <2>2, <3>1 DEF CheckoutTyped
  <2>3. CASE row # c.key /\ unit[Item] # "held"
    <3>1. Answer(c, "not held") /\ calls' = calls \ {c} /\ UNCHANGED row
      BY <1>7, <2>3 DEF CreateOrderRead
    <3>2. row = "none" => unit[Item] = "gone"
      BY <1>1, <2>3 DEF OrderKnown
    <3>3. QED
      BY <1>1, <1>6, <3>1, <3>2 DEF CheckoutTyped
  <2>4. QED
    BY <2>1, <2>2, <2>3
<1>8. CASE CreateOrderInsert(c)
  <2>1. /\ calls' = calls \ {c}
        /\ row' = IF row = "none" THEN c.key ELSE row
        /\ \/ Answer(c, "order")
           \/ Answer(c, "ordered")
    BY <1>8 DEF CreateOrderInsert
  <2>2. row' \in Keys \cup {"none"} /\ row' # "none"
    BY <1>1, <1>2, <2>1 DEF CheckoutTyped
  <2>3. QED
    BY <1>6, <2>1, <2>2
<1>9. QED
  BY <1>7, <1>8

LEMMA ListOrdersStep ==
    ASSUME CheckoutInv, NEW t \in Tabs, ListOrders(t)
    PROVE  CheckoutInv'
<1>1. CheckoutTyped /\ OrderKnown /\ RefusedOnlyGone
  BY DEF CheckoutInv
<1>2. UNCHANGED <<row, key, calls, mishaps, unit>>
  BY DEF ListOrders, wire, vars, backend
<1>3. UnitStays
  BY <1>2 DEF UnitStays
<1>4. CASE row # "none"
  <2>1. /\ knows' \in [Tabs -> BOOLEAN]
        /\ step' \in [Tabs -> {"idle", "ordering", "listing", "paying"} \cup Attempts]
        /\ UNCHANGED notice
        /\ \A u \in Tabs : step'[u] = step[u] \/ step'[u] = "paying"
    BY <1>1, <1>4, Learning DEF ListOrders
  <2>2. CheckoutTyped'
    BY <1>1, <1>2, <2>1 DEF CheckoutTyped
  <2>3. OrderKnown' /\ RefusedOnlyGone'
    BY <1>1, <1>2, <1>3, <1>4, <2>1, Stays
  <2>4. QED
    BY <2>2, <2>3 DEF CheckoutInv
<1>5. CASE row = "none"
  <2>1. unit[Item] = "gone"
    BY <1>1, <1>5 DEF ListOrders, OrderKnown
  <2>2. Finish(t, "refused") /\ UNCHANGED knows
    BY <1>5 DEF ListOrders
  <2>3. /\ step' \in [Tabs -> {"idle", "ordering", "listing", "paying"} \cup Attempts]
        /\ notice' \in [Tabs -> {"none"} \cup Outcomes \cup CheckoutErrors]
        /\ \A u \in Tabs : step'[u] = step[u] \/ step'[u] = "idle"
    BY <1>1, <2>2, Finishing DEF CheckoutErrors
  <2>4. CheckoutTyped'
    BY <1>1, <1>2, <2>2, <2>3 DEF CheckoutTyped
  <2>5. OrderKnown' /\ RefusedOnlyGone'
    BY <1>1, <1>2, <1>3, <2>1, <2>2, <2>3, Stays, NotIdle
  <2>6. QED
    BY <2>4, <2>5 DEF CheckoutInv
<1>6. QED
  BY <1>4, <1>5

\* A tab pays.
LEMMA StartPayStep ==
    ASSUME CheckoutInv, FlowInv, NEW t \in Tabs, NEW p \in Attempts, StartPay(t, p)
    PROVE  CheckoutInv'
<1>1. CheckoutTyped /\ OrderKnown /\ RefusedOnlyGone
  BY DEF CheckoutInv
<1>2. UNCHANGED <<row, calls, mishaps, key, knows, notice>>
  BY DEF StartPay, wire
<1>3. /\ step' \in [Tabs -> {"idle", "ordering", "listing", "paying"} \cup Attempts]
      /\ \A u \in Tabs : step'[u] = step[u] \/ (step'[u] = p)
  BY <1>1 DEF CheckoutTyped, StartPay
<1>4. row # "none"
  BY <1>1 DEF StartPay, OrderKnown
<1>5. unit[Item] = "held"
  BY DEF StartPay, Pay, MayPay
<1>6. CheckoutTyped'
  BY <1>1, <1>2, <1>3 DEF CheckoutTyped
<1>7. OrderKnown'
  BY <1>2, <1>4 DEF OrderKnown
<1>8. RefusedOnlyGone'
  BY <1>1, <1>2, <1>5 DEF RefusedOnlyGone
<1>9. QED
  BY <1>6, <1>7, <1>8 DEF CheckoutInv

\* A page that paid is answered, or nobody is there to be.
LEMMA Replied ==
    ASSUME CheckoutInv, UnitStays, NEW n \in Outcomes \cup {"failed"},
           UNCHANGED <<row, wire, key, knows>>,
           \/ \E t \in Tabs : Finish(t, n)
           \/ UNCHANGED <<step, notice>>
    PROVE  CheckoutInv'
<1>1. CheckoutTyped /\ OrderKnown /\ RefusedOnlyGone
  BY DEF CheckoutInv
<1>2. /\ step' \in [Tabs -> {"idle", "ordering", "listing", "paying"} \cup Attempts]
      /\ notice' \in [Tabs -> {"none"} \cup Outcomes \cup CheckoutErrors]
      /\ \A u \in Tabs : step'[u] = step[u] \/ step'[u] = "idle"
      /\ \A u \in Tabs : notice'[u] = notice[u] \/ notice'[u] = n
  <2>1. CASE UNCHANGED <<step, notice>>
    BY <1>1, <2>1 DEF CheckoutTyped
  <2>2. ASSUME NEW t \in Tabs, Finish(t, n)
        PROVE  <1>2!1 /\ <1>2!2 /\ <1>2!3 /\ <1>2!4
    BY <1>1, <2>2, Finishing DEF CheckoutErrors
  <2>3. QED
    BY <2>1, <2>2
<1>3. n # "refused"
  BY DEF Outcomes, Verdicts
<1>4. CheckoutTyped'
  BY <1>1, <1>2 DEF CheckoutTyped, wire
<1>5. OrderKnown' /\ RefusedOnlyGone'
  BY <1>1, <1>2, <1>3, Stays, NotIdle
<1>6. QED
  BY <1>4, <1>5 DEF CheckoutInv

LEMMA PayRefusedStep ==
    ASSUME CheckoutInv, NEW t \in Tabs, PayRefused(t)
    PROVE  CheckoutInv'
<1>1. UNCHANGED <<row, wire, key, knows>> /\ Finish(t, "failed") /\ UnitStays
  BY DEF PayRefused, UnitStays, vars, backend
<1>2. QED
  BY <1>1, Replied

LEMMA PayEndsStep ==
    ASSUME CheckoutInv, FlowInv, NEW p \in Attempts, PayEnds(p)
    PROVE  CheckoutInv'
<1>1. CASE \/ ChargeFailed(p) /\ Reply(p, "pending")
           \/ ChargeAnswered(p) /\ (Reply(p, "pending") \/ UNCHANGED checkoutVars)
  <2>1. UnitStays
    BY <1>1 DEF ChargeFailed, ChargeAnswered, UnitStays
  <2>2. Reply(p, "pending") \/ UNCHANGED checkoutVars
    BY <1>1
  <2>3. QED
    BY <2>1, <2>2, Replied DEF Reply, checkoutVars, page, Outcomes
<1>2. CASE ApplyAnswer(p) /\ Reply(p, handler[p])
  <2>1. handler[p] \in Verdicts /\ Apply(p, handler[p])
    BY <1>2 DEF ApplyAnswer
  <2>2. UnitStays
    BY <2>1, ApplyStays
  <2>3. QED
    BY <1>2, <2>1, <2>2, Replied DEF Reply, Outcomes
<1>3. QED
  BY <1>1, <1>2 DEF PayEnds

LEMMA CheckoutRestartStep ==
    ASSUME CheckoutInv, CheckoutRestart
    PROVE  CheckoutInv'
<1>1. CheckoutTyped /\ OrderKnown /\ RefusedOnlyGone
  BY DEF CheckoutInv
<1>2. UNCHANGED <<row, key, knows, unit>> /\ calls' = {}
  BY DEF CheckoutRestart, BackendRestart
<1>3. /\ step' \in [Tabs -> {"idle", "ordering", "listing", "paying"} \cup Attempts]
      /\ notice' \in [Tabs -> {"none"} \cup Outcomes \cup CheckoutErrors]
      /\ \A u \in Tabs : step'[u] = "idle"
      /\ \A u \in Tabs : notice'[u] = notice[u] \/ notice'[u] = "failed"
  BY <1>1 DEF CheckoutTyped, CheckoutRestart, CheckoutErrors
<1>4. CheckoutTyped'
  BY <1>1, <1>2, <1>3 DEF CheckoutTyped
<1>5. UnitStays
  BY <1>2 DEF UnitStays
<1>6. OrderKnown' /\ RefusedOnlyGone'
  BY <1>1, <1>2, <1>3, <1>5, Stays, NotIdle
<1>7. QED
  BY <1>4, <1>6 DEF CheckoutInv

LEMMA ElsewhereStep ==
    ASSUME CheckoutInv, FlowInv, Elsewhere
    PROVE  CheckoutInv'
<1>1. UNCHANGED <<row, calls, mishaps, key, knows, step, notice>>
  BY DEF Elsewhere, checkoutVars, wire, page
<1>2. UnitStays
  <2>1. CASE \E p \in Attempts : CreatePayment(p) \/ Deliver(p, "charge") \/ DeliveryLost(p, "charge")
    BY <2>1 DEF CreatePayment, Deliver, DeliveryLost, backend, UnitStays
  <2>2. ASSUME NEW p \in Attempts, Webhook(p, "charge")
        PROVE  UnitStays
    <3>1. said[p]["charge"] \in Verdicts /\ Apply(p, said[p]["charge"])
      BY <2>2 DEF Webhook, FlowInv, OnItsWay, Sources
    <3>2. QED
      BY <3>1, ApplyStays
  <2>3. CASE UnitLeaves(Item)
    BY <2>3, NotIdle DEF UnitLeaves, UnitStays, FlowInv, TypeOK
  <2>4. QED
    BY <2>1, <2>2, <2>3 DEF Elsewhere
<1>3. QED
  BY <1>1, <1>2, Stays DEF CheckoutInv, CheckoutTyped

LEMMA CheckoutInvStep == CheckoutInv /\ FlowInv /\ [CheckoutNext]_allVars => CheckoutInv'
<1> SUFFICES ASSUME CheckoutInv, FlowInv, [CheckoutNext]_allVars PROVE CheckoutInv'
  OBVIOUS
<1>1. CASE UNCHANGED allVars
  BY <1>1 DEF CheckoutInv, CheckoutTyped, OrderKnown, RefusedOnlyGone,
              allVars, checkoutVars, wire, page, vars, backend
<1>2. CASE CheckoutNext
  BY <1>2, ClickStep, MishapStep, ListOrdersStep, StartPayStep, PayRefusedStep,
     CreateOrderStep, PayEndsStep, CheckoutRestartStep, ElsewhereStep DEF CheckoutNext
<1>3. QED
  BY <1>1, <1>2

\* Whatever happens to payments happens under PaymentFlow, so all that is
\* proved of it holds of a checkout (routers/orders.py, routers/payments.py).
THEOREM CheckoutPays == CheckoutSpec => Spec
<1>1. CheckoutInit => Init
  BY DEF CheckoutInit
<1>2. [CheckoutNext]_allVars => [Next]_vars
  BY CheckoutStepIsFlowStep DEF allVars
<1>3. QED
  BY <1>1, <1>2, PTL DEF CheckoutSpec, Spec

\* So a buyer's tabs, however they race, reload and retry, pay for an order one
\* attempt at a time (stores/cart.ts:61-132, payments.py:61-116).
COROLLARY CheckoutByLedger == CheckoutSpec => ImplementsPayments
  BY CheckoutPays, PaymentsImplemented

\* Among any number of tabs, keys, duplicates, reloads and lost answers, a
\* checkout is refused only for a unit that is gone (cart.ts:58-72).
THEOREM RefusedTruly == CheckoutSpec => []RefusedOnlyGone
<1>1. CheckoutInit => CheckoutInv
  BY NotIdle DEF CheckoutInit, Init, CheckoutInv, CheckoutTyped, OrderKnown, RefusedOnlyGone
<1>2. CheckoutInv => RefusedOnlyGone
  BY DEF CheckoutInv
<1>3. QED
  BY <1>1, <1>2, CheckoutInvStep, CheckoutFollowed, PTL DEF CheckoutSpec

-----------------------------------------------------------------------------
(***************************************************************************)
(* The pages and the calls they await.                                     *)
(***************************************************************************)
CallsOf(t) == {c \in calls : c.by = t}

\* A tab awaits one call, if it awaits an order at all, and none otherwise.
OneCall ==
    \A t \in Tabs : IF step[t] = "ordering" THEN \E c \in calls : CallsOf(t) = {c}
                                           ELSE CallsOf(t) = {}

PagesInv == OneCall /\ mishaps \in 0 .. MaxMishaps

\* The calls of a tab, and whether it awaits one, stay or end together.
LEMMA CallsKept ==
    ASSUME OneCall,
           \A t \in Tabs :
              \/ CallsOf(t)' = CallsOf(t) /\ (step'[t] = "ordering" <=> step[t] = "ordering")
              \/ CallsOf(t)' = {} /\ step'[t] # "ordering"
    PROVE  OneCall'
<1>1. ASSUME NEW t \in Tabs
      PROVE  IF step'[t] = "ordering" THEN \E c \in calls' : CallsOf(t)' = {c}
                                     ELSE CallsOf(t)' = {}
  <2>1. CASE CallsOf(t)' = {} /\ step'[t] # "ordering"
    BY <2>1
  <2>2. CASE CallsOf(t)' = CallsOf(t) /\ (step'[t] = "ordering" <=> step[t] = "ordering")
    <3>1. CallsOf(t)' \subseteq calls'
      BY DEF CallsOf
    <3> QED
      BY <2>2, <3>1 DEF OneCall
  <2> QED
    BY <2>1, <2>2
<1> QED
  BY <1>1 DEF OneCall

LEMMA CallsUntouched ==
    ASSUME OneCall, calls' = calls,
           \A t \in Tabs :
              \/ step'[t] = step[t]
              \/ step[t] # "ordering" /\ step'[t] # "ordering"
    PROVE  OneCall'
<1>1. \A t \in Tabs : CallsOf(t)' = CallsOf(t)
  BY DEF CallsOf
<1> QED
  BY <1>1, CallsKept

LEMMA ClickCalls ==
    ASSUME CheckoutTyped, OneCall, NEW t \in Tabs, Click(t)
    PROVE  OneCall'
<1> DEFINE c == [by |-> t, key |-> key'[t], at |-> "sent"]
<1>1. step[t] = "idle" /\ CallsOf(t) = {}
  BY DEF Click, Clickable, OneCall
<1>2. CASE knows[t]
  <2>1. calls' = calls /\ \A u \in Tabs : step'[u] = IF u = t THEN "paying" ELSE step[u]
    BY <1>2 DEF Click, CheckoutTyped
  <2> QED
    BY <1>1, <2>1, CallsUntouched
<1>3. CASE ~knows[t]
  <2>1. /\ calls' = calls \cup {c} /\ c.by = t
        /\ \A u \in Tabs : step'[u] = IF u = t THEN "ordering" ELSE step[u]
    BY <1>3 DEF Click, CheckoutTyped
  <2> HIDE DEF c
  <2>2. CallsOf(t)' = {c} /\ c \in calls'
    BY <1>1, <2>1 DEF CallsOf
  <2>3. \A u \in Tabs : u # t => CallsOf(u)' = CallsOf(u)
    BY <2>1 DEF CallsOf
  <2> QED
    BY <2>1, <2>2, <2>3 DEF OneCall
<1> QED
  BY <1>2, <1>3

LEMMA MishapCalls ==
    ASSUME CheckoutTyped, OneCall, NEW t \in Tabs, Cut(t) \/ Reload(t)
    PROVE  OneCall'
<1>1. \A u \in Tabs : step'[u] = IF u = t THEN "idle" ELSE step[u]
  BY DEF Cut, Reload, Finish, Finished, CheckoutTyped
<1>2. ASSUME NEW u \in Tabs
      PROVE  CallsOf(u)' = IF u = t THEN {} ELSE CallsOf(u)
  <2>1. CASE calls' = {c \in calls : c.by # t}
    BY <2>1 DEF CallsOf
  <2>2. CASE calls' = Orphaned(t)
    <3>1. \A c \in calls : c \in Calls /\ [c EXCEPT !.by = "none"].by = "none"
      BY DEF CheckoutTyped, Calls
    <3>2. "none" \notin Tabs
      BY NotIdle
    <3> QED
      BY <2>2, <3>1, <3>2 DEF CallsOf, Orphaned
  <2> QED
    BY <2>1, <2>2 DEF Cut, Reload
<1> QED
  BY <1>1, <1>2, CallsKept

LEMMA AnswerCalls ==
    ASSUME CheckoutTyped, OneCall, NEW c \in calls, NEW answer,
           answer \in {"order", "not held", "ordered"},
           Answer(c, answer), calls' = calls \ {c}
    PROVE  OneCall'
<1>1. c \in Calls /\ "none" \notin Tabs
  BY NotIdle DEF CheckoutTyped
<1>2. CASE c.by = "none"
  <2>1. step' = step
    BY <1>2 DEF Answer, page
  <2>2. \A t \in Tabs : CallsOf(t)' = CallsOf(t)
    BY <1>1, <1>2 DEF CallsOf
  <2> QED
    BY <2>1, <2>2, CallsKept
<1>3. CASE c.by # "none"
  <2>1. c.by \in Tabs
    BY <1>1, <1>3 DEF Calls
  <2>2. /\ step'[c.by] # "ordering"
        /\ \A t \in Tabs : t # c.by => step'[t] = step[t]
    BY <1>3, <2>1 DEF Answer, LearnsOrder, Adopts, CheckoutTyped
  <2>3. /\ CallsOf(c.by)' = {}
        /\ \A t \in Tabs : t # c.by => CallsOf(t)' = CallsOf(t)
    <3>1. c \in CallsOf(c.by)
      BY DEF CallsOf
    <3>2. CallsOf(c.by) = {c}
      BY <2>1, <3>1 DEF OneCall
    <3> QED
      BY <3>2 DEF CallsOf
  <2> QED
    BY <2>2, <2>3, CallsKept
<1> QED
  BY <1>2, <1>3

LEMMA CreateOrderCalls ==
    ASSUME CheckoutTyped, OneCall, NEW c \in calls,
           CreateOrderRead(c) \/ CreateOrderInsert(c)
    PROVE  OneCall'
<1>1. CASE CreateOrderRead(c) /\ row # c.key /\ unit[Item] = "held"
  <2> DEFINE d == [c EXCEPT !.at = "read"]
  <2>1. calls' = (calls \ {c}) \cup {d} /\ step' = step
    BY <1>1 DEF CreateOrderRead, page
  <2>2. c \in Calls /\ d.by = c.by
    BY DEF CheckoutTyped, Calls
  <2> HIDE DEF d
  <2>3. ASSUME NEW t \in Tabs, t = c.by
        PROVE  step[t] = "ordering" /\ CallsOf(t)' = {d} /\ d \in calls'
    <3>1. c \in CallsOf(t)
      BY <2>3 DEF CallsOf
    <3>2. step[t] = "ordering" /\ CallsOf(t) = {c}
      BY <3>1 DEF OneCall
    <3> QED
      BY <2>1, <2>2, <2>3, <3>2 DEF CallsOf
  <2>4. ASSUME NEW t \in Tabs, t # c.by
        PROVE  CallsOf(t)' = CallsOf(t)
    BY <2>1, <2>2, <2>4 DEF CallsOf
  <2>5. \A t \in Tabs : CallsOf(t)' \subseteq calls'
    BY DEF CallsOf
  <2> QED
    BY <2>1, <2>3, <2>4, <2>5 DEF OneCall
<1>2. CASE CreateOrderRead(c) /\ ~(row # c.key /\ unit[Item] = "held")
  <2>1. calls' = calls \ {c} /\ (Answer(c, "order") \/ Answer(c, "not held"))
    BY <1>2 DEF CreateOrderRead
  <2> QED
    BY <2>1, AnswerCalls
<1>3. CASE CreateOrderInsert(c)
  <2>1. calls' = calls \ {c} /\ (Answer(c, "order") \/ Answer(c, "ordered"))
    BY <1>3 DEF CreateOrderInsert
  <2> QED
    BY <2>1, AnswerCalls
<1> QED
  BY <1>1, <1>2, <1>3

LEMMA PagesInvStep ==
    ASSUME CheckoutInv, PagesInv, [CheckoutNext]_allVars
    PROVE  PagesInv'
<1>1. CheckoutTyped /\ OneCall /\ mishaps \in 0 .. MaxMishaps /\ MaxMishaps \in Nat
  BY CheckoutAssumption DEF CheckoutInv, PagesInv
<1>2. mishaps' \in 0 .. MaxMishaps
  <2>1. mishaps' = mishaps \/ (mishaps < MaxMishaps /\ mishaps' = mishaps + 1)
    BY DEF CheckoutNext, allVars, checkoutVars, wire, Click, Cut, Reload, ListOrders,
       PayRefused, Duplicate, StartPay, CreateOrderRead, CreateOrderInsert, PayEnds,
       Reply, CheckoutRestart, Elsewhere
  <2> QED
    BY <1>1, <2>1
<1> SUFFICES OneCall'
  BY <1>2 DEF PagesInv
<1>3. CASE \E t \in Tabs : Click(t) \/ Cut(t) \/ Reload(t)
  BY <1>1, <1>3, ClickCalls, MishapCalls
<1>4. CASE \E t \in Tabs : ListOrders(t) \/ PayRefused(t)
                          \/ (\E u \in Tabs : Duplicate(t, u))
                          \/ (\E p \in Attempts : StartPay(t, p))
  <2>1. calls' = calls
    BY <1>4 DEF ListOrders, PayRefused, Duplicate, StartPay, wire
  <2>2. \A t \in Tabs : \/ step'[t] = step[t]
                        \/ step[t] # "ordering" /\ step'[t] # "ordering"
    BY <1>1, <1>4, NotIdle DEF ListOrders, PayRefused, Duplicate, StartPay, LearnsOrder,
       Finish, Finished, CheckoutTyped
  <2> QED
    BY <1>1, <2>1, <2>2, CallsUntouched
<1>5. CASE \E c \in calls : CreateOrderRead(c) \/ CreateOrderInsert(c)
  BY <1>1, <1>5, CreateOrderCalls
<1>6. CASE \E p \in Attempts : PayEnds(p)
  <2>1. PICK p \in Attempts :
           UNCHANGED <<calls, step>> \/ (UNCHANGED calls /\ \E n : Reply(p, n))
    BY <1>6 DEF PayEnds, checkoutVars, wire, page, Reply
  <2>2. \A t \in Tabs : \/ step'[t] = step[t]
                        \/ step[t] # "ordering" /\ step'[t] # "ordering"
    BY <1>1, <2>1, NotIdle DEF Reply, Finish, Finished, CheckoutTyped
  <2> QED
    BY <1>1, <2>1, <2>2, CallsUntouched
<1>7. CASE CheckoutRestart
  BY <1>7 DEF CheckoutRestart, OneCall, CallsOf
<1>8. CASE Elsewhere \/ UNCHANGED allVars
  BY <1>1, <1>8, CallsUntouched DEF Elsewhere, allVars, checkoutVars, wire, page
<1> QED
  BY <1>3, <1>4, <1>5, <1>6, <1>7, <1>8 DEF CheckoutNext

\* However often a buyer clicks, reloads and duplicates tabs, a page awaits one
\* answer at a time, and an id it knows is that of an order (cart.ts:74-127).
THEOREM OneAnswerAwaited == CheckoutSpec => []PagesTypeOK
<1>1. CheckoutInit => CheckoutInv /\ PagesInv
  BY NotIdle, CheckoutAssumption DEF CheckoutInit, Init, CheckoutInv, CheckoutTyped,
     OrderKnown, RefusedOnlyGone, PagesInv, OneCall, CallsOf
<1>2. CheckoutInv /\ PagesInv /\ [CheckoutNext]_allVars => PagesInv'
  BY PagesInvStep
<1>3. CheckoutInv /\ PagesInv => PagesTypeOK
  <2> SUFFICES ASSUME CheckoutInv, PagesInv PROVE PagesTypeOK
    OBVIOUS
  <2>1. ASSUME NEW t \in Tabs
        PROVE  Cardinality(CallsOf(t)) = IF step[t] = "ordering" THEN 1 ELSE 0
    BY FS_EmptySet, FS_Singleton DEF PagesInv, OneCall
  <2> QED
    BY <2>1 DEF CheckoutInv, CheckoutTyped, OrderKnown, PagesInv, PagesTypeOK, CallsOf
<1> QED
  BY <1>1, <1>2, <1>3, CheckoutInvStep, CheckoutFollowed, PTL DEF CheckoutSpec

=============================================================================
