# lastunit, formally

TLA+ specifications of lastunit, the flash-sale service of this repository
(FastAPI, Postgres, a payment stub, a Vue frontend), the TLC runs that check
them on small instances and the TLAPS proofs of their most important
properties. Paths below are relative to the repository.

To check a model, `tlc -config MCSaleStats.cfg MCSaleStats.tla`; to check a
proof, `tlapm FlashSaleProofs.tla`.

## 1. The system and its parts

A shop puts a quantity of one item on sale for a window of time. A buyer
reserves a unit (a hold of ten minutes, capped at the end of the sale), makes an
order of it and pays through a payment stub that may answer now, later, twice
or never. A scheduler in every app process ends sales, returns lapsed holds
and sends the emails of the outbox. Everything durable is a row of Postgres;
every transaction is READ COMMITTED, and there is no lock but row locks.

| Part | Code | State | Operations | What makes it correct |
|---|---|---|---|---|
| Cart | `app/services/cart.py` | `sales.available`, reservations | `reserve` (with `_expire_lapsed_hold`), `release` | no unit sold twice or lost; one active reservation per buyer and sale |
| Orders | `app/services/orders.py` | orders | `create_order` | one order per reservation; pending only while the reservation is the buyer's |
| Payments | `app/services/payments.py` | payments, orders, reservations | `start_payment`, `apply_payment_result` | charged, paid and sold are one fact; an answer is applied once |
| Scheduler | `app/scheduler.py` | sales, reservations, orders | `end_ended_sales`, `run_once`, `send_pending`, `loop` | an ended sale is emptied, a lapsed hold comes back, two loops do not act twice |
| Outbox | `app/services/notifications.py` | notifications | `enqueue_*`, `send_pending` | a letter for each committed event and no other; copies only after a crash |
| Payment handlers | `app/routers/payments.py`, `app/routers/shop.py`, `app/paystub_client.py` | none of their own | `pay`, `webhook`, `check_payment` | silence is never taken for an answer |
| Payment stub | `paystub/main.py` | `store`, in memory | `create_payment`, `resolve_payment`, delivery with retries | its answer reaches the backend |
| Realtime | `app/realtime.py`, `app/routers/events.py`, `frontend/src/composables/useRealtime.ts`, stores | bounded queues, the last answer of each fetch | publish, subscribe, refetch on reconnect | what a page shows catches up with the rows |
| Checkout | `frontend/src/stores/cart.ts`, `views/CartView.vue` | `sessionStorage` entries per reservation | pay, retry, adopt an order, restore | a reload or a second tab makes no second order |
| Accounts | `app/services/auth.py`, `app/deps.py` | users, sessions | register, ensure_user, login, logout | one account per email |
| Statistics | `app/services/shop.py` | none | `sale_stats` | figures of one moment |
| Seed | `app/seed.py` | a demo sale | `seed_demo_sale` | one live demo sale |
| Sales | `app/services/sales.py` | sales | `create_sale`, `phase` | a window that is not empty |

How they interact. Request handlers and the scheduler share nothing but rows:
each opens a session, reads `now` once (`SELECT now()`, the start of the
transaction), makes guarded updates and commits; events are published after the
commit. The pay handler commits its attempt, waits for the stub without a
transaction, and applies the answer in a second one. The stub posts webhooks
*before* it answers the charge. A tick is three transactions with one `now`:
`end_ended_sales`, `run_once`, `send_pending`.

What is hard: row locks waited for in different orders, reads without a lock
that are acted upon later, a `now` older than the row it is compared with, two
scheduler loops, answers that are late, lost, repeated or contradicted by an
operator's click, and crashes between an effect outside the database and its
commit; in the browser, answers that overtake each other, events that are
dropped, and tabs that check out the same reservation. PROJECT.json lists these
places line by line under "hazards".

## 2. Modules

| Module | What it is |
|---|---|
| `FlashSale` | the rows and every transaction that changes them after a sale is created |
| `SaleLedger` | what a sale promises about its units, without clock, locks, orders and payments; `FlashSale` implements it |
| `PaymentLedger` | what the payments service promises about a unit and the attempts to pay for it; `FlashSale` and `PaymentFlow` implement it |
| `SaleStats` | `FlashSale` with the dashboard's request, read statement by statement beside it |
| `Outbox` | the table of notifications and `send_pending` |
| `PaymentFlow` | one payment's way between the backend and the stub |
| `Checkout` | the tabs of a buyer, `create_order` and `pay`, on top of `PaymentFlow` |
| `Realtime` | events from the commit to the page, and the stores' requests |
| `Accounts` | register, login, logout, and the upsert of the seed |
| `Seed` | the seed beside `Accounts`, with `create_sale` for the demo sale |
| `SaleWindow` | `to_utc`, the two checks of a window, `phase` |
| `FlashSaleProofs`, `FlashSaleLedgerProofs`, `SaleLedgerProofs`, `SaleStatsProofs`, `OutboxProofs`, `PaymentProofs`, `RealtimeProofs`, `SeedProofs` | theorems; those about `SaleWindow` are in `SeedProofs` |
| `MC*` | instances for TLC |

How they compose. `FlashSale` refines `SaleLedger` and `PaymentLedger`; `SaleStats` and `Checkout`
extend `FlashSale` and `PaymentFlow` with actors of their own, whose steps leave
the rest alone or are joined to one of its actions; `Seed` extends `Accounts` and
uses `SaleWindow`. `Outbox` and `PaymentFlow` each magnify one thing that
`FlashSale` keeps abstract: its set `outbox` says *which* letters exist, `Outbox`
how they are sent; its actions `ApplyApproved` and `ApplyDeclined` may happen to
any pending payment at any time, `PaymentFlow` says where such answers come
from. `PaymentFlow` in turn keeps a single variable, `unit`, of all that
`FlashSale` says of a reservation. What the two must agree on is
`PaymentLedger`, which both implement. `Realtime` keeps none of the rows: its data
are the log of committed transactions, by kind.

### FlashSale

State: `avail`, `sstat` (sales), `rstat`, `rexp` (reservations), `order`, `pay`,
`outbox` are columns; `time` is the server's clock; and for each database
session (`Txns` for requests, `Workers` for scheduler loops) `pc`, `now`,
`target`, `rowLocks`, `saleLocks`, `due` and `todo` are what its open
transaction has read and locked. Rows to come are named in advance: `SaleOf`,
`BuyerOf`, `OrderOf` are their foreign keys. Ids that a refused insert burns
are not lost in the model.

A transaction is cut into actions exactly where another one can get in between
with an effect it would notice: where it may wait for a lock that another
transaction may hold, and where it acts on what it read without a lock.

| Code | Actions |
|---|---|
| `reserve` | `ReserveLapse` (locks the buyer's lapsed hold) then `ReserveCommit` or `ReserveRefused` (which undoes the lazy expiry: the session closes uncommitted) |
| `release` | `ReleaseLock`, `ReleaseCommit` |
| `create_order` | `OrderRead` (no lock), then `OrderInsert` or `OrderConflict` |
| `start_payment` | `StartPayment` |
| `apply_payment_result` | `ApplyApproved`, `ApplyDeclined` |
| `end_ended_sales` | `SweepSelect`, `SweepSale`, `SweepClear` or `SweepSkip` per reservation, `SweepCommit` |
| `run_once` | `ExpireSelect`, `ExpireReturn` per reservation, `ExpireCommit` |
| crash, cut connection, cancelled loop | `Rollback` |
| Postgres' deadlock detector | `DeadlockVictim` |

Abstractions, and why they are sound:

- Writes take effect at the commit. Nobody reads uncommitted rows under READ
  COMMITTED, and the rows are locked until then, so the order is the same.
- The unique indexes stand for the pre-checks in front of them: an insert
  refused by the pre-check is refused by the index as well.
- A guarded `UPDATE` that waits evaluates its guard again after the wait; the
  lock and the guard are one step at the moment the lock is granted. `now` may
  be old by then: `Nows`, bounded by `MaxLag`.
- `start_payment` and `apply_payment_result` have one row each that others may
  hold, so they are one step. Nobody else locks the rows of a pending payment:
  theorem `LocksHold` says that every locked reservation is held, and
  `PaymentOwnsUnit` that the reservation of a pending payment is not.
- A deadlock is possible in the code as it is: `release`, `reserve` and
  `run_once` lock a reservation and then its sale, `end_ended_sales` the sale
  first. Postgres aborts one of the transactions in the circle, which one is
  not determined.
- `SKIP LOCKED` skips sales and reservations locked by sessions of the model;
  that it also skips rows under the short `FOR KEY SHARE` lock of an insert in
  flight only puts them off to the next tick and is left out.
- Amounts, titles, idempotency keys and the `404`/`403` answers that change
  nothing are left out. Events are published after the commit and change no
  row.

### SaleLedger

Two variables: `shelf`, and `claim`, what a reservation stands for. In
`FlashSale`, `shelf <- avail` and `claim <- Claim`, where held and paying are
"in a cart" and every other final status but sold is "given up". Each commit is
one move: `ReserveCommit` is `Reserve` (with the lapsed carts it returns),
`ReleaseCommit` and `ExpireCommit` are `GiveBack`, `SweepCommit` is `Withdraw`,
`ApplyApproved` is `Sell`, and `ApplyDeclined` is `Forfeit` after the end and no
move before it.

### PaymentLedger

Two variables: `unit`, one per order, and `pay`, one per attempt. In `PaymentFlow`
they are the variables of the same names. In `FlashSale`, an order is its
reservation, and `unit <- Unit`: absent and held are "held", paying and sold are
themselves, every other status is "gone" (a reservation that is not there yet
has no attempts, so nothing is lost by taking it for held). `StartPayment` and
`Pay` are `Start`; `ApplyApproved`, `ApplyDeclined`, and the handler, the
webhook and the shop's button of `PaymentFlow` are `Settle`; `ReserveCommit` (which
expires lapsed carts), `ReleaseCommit`, `SweepCommit`, `ExpireCommit` and `UnitLeaves` are
`Leave`. An answer that comes for a payment already settled is no step at all.

### Outbox

A row is written by a business transaction, committed or rolled back, selected
by a sender (`FOR UPDATE SKIP LOCKED`), emailed letter by letter to a log that
no rollback reaches, and marked as sent by one commit at the end of the batch.
A process lost between the two sends the letter again (end of section 5): the code
promises at least one letter, and `CopiesBoundedByLosses` bounds the copies by
the losses. `SenderLost` is a process or connection lost anywhere in between.

### PaymentFlow

`handler` is where `pay` stands, `request` the charge on its way or being served,
`store`, `said`, `tries` and `waiting` the stub (its record, what it decided at
the charge and at each operator's click, the delivery loops), `posts` the
webhooks on the wire and `checks` the answers the shop's button has read and not
yet applied. `ChargeFailed` covers a refused connection, a timeout and a lost
answer; a delivery that fails for the loop may still arrive. Restarts lose
`handler` and `checks`, or `store` and the loops. Not modelled: webhook signatures
and the callback allow-list (every webhook here is the stub's own), and the
check button for a payment the stub has forgotten (it changes nothing).

### Checkout

One reservation (`Item`), its order, and the buyer's tabs. `row` is the order in
the database, known by its idempotency key; `calls` are the requests of
`create_order` in the backend, with the tab that waits for each, or nobody any
more; `key` and `knows` are what a tab keeps in its `sessionStorage` (`checkout.key`,
`checkout.orderId`), `step` what it awaits and `notice` the outcome or the kind of
error it shows.

| Code | Actions |
|---|---|
| `pay` of the store, from `CartView` | `Click` |
| `createOrAdoptOrder` | `CreateOrderRead`, `CreateOrderInsert` (nothing is locked in between), `ListOrders` after a 409 |
| `POST /orders/{id}/pay` | `StartPay`, `PayRefused`, and `PayEnds`, which joins `ChargeFailed`, `ChargeAnswered` or `ApplyAnswer` with what the page is told |
| `loadCheckouts`, `persistCheckouts` | `Reload`, `Duplicate` (a tab duplicated with its storage) |
| a call that fails on its way, in either direction | `Cut`; the call may be served all the same |
| the backend restarts | `CheckoutRestart`, which takes calls and handlers with it |
| the stub, the webhooks, and release, expiry and sweep | `Elsewhere` |

`Fresh` draws idempotency keys that nobody has used; `Keys` bounds how many.
The page may show a unit that has gone in the meantime, so `Click` does not look
at the unit.

### Realtime

One backend process and one page. `log` is the sequence of committed
transactions, by kind; `unpublished` those whose handler has not published its
events yet, so handlers overtake each other, or die first. `queue` is the page's
bounded queue in the broadcaster, `conn` and `opened` its `EventSource`. For each
view, `flight` holds the requests under way, `current` says whether the last of
them still has the newest sequence number, and `shown` is the length of the log
its data were read at. `lost` is a history variable: the changes no request will
be made for, and why a view may stay behind.

| Code | Actions |
|---|---|
| a service commits, and publishes afterwards | `Commit`, `Publish` (with the drop of the oldest event of a full queue) |
| `events.py`, `useRealtime.ts` | `Subscribe`, `Refused`, `Open` (which asks again on every open but the first), `Deliver`, `Cut`, `Logout`, `Login` |
| a store's fetch | `Ask`, and the requests of `Open`, `Deliver` and `Login`; `Read`, `Fail`, then `Answered` or `Failed` |
| the process dies, and is started again | `Crash`, `Restart` |

What the code has no remedy for but the next event is added to `lost`: events
thrown out of a full queue while the stream stays open (`realtime.py:57-61`
counts on the client's reconnect, but a drop is not a disconnect); events
between a view's first request and the first open; transactions that publish
nothing (`start_payment`, `create_order`); a newest request that fails, when an
older one with a good answer has been discarded; statistics that are not asked
for because the list of sales failed. A proxy that answers 502 for a backend
that is down makes the `EventSource` give up (`conn = "failed"`).

### SaleStats

`ReadFigure` reads the figures in the order of `sale_stats`, each by a statement
of its own, which sees what has been committed by then. A figure is the set of
the rows it counts. `StatOrder` is that order: sold units are read before those in
carts, and a sold unit never goes back. `sales.available`, read before the
others, is left out: it need not add up with figures of later moments.

### Accounts, Seed, SaleWindow

`users` is the table, `reg` and `login` where each request stands: `register`
checks, hashes in a thread and inserts (`RegisterCheck`, `RegisterCommit`), `login`
reads, verifies in a thread and inserts its session (`LoginVerify`,
`LoginCommit`). Emails come as `Spellings`, which `Lower` folds. A seed is a
process that may be killed at any step and run again: `SeedStart` (its now; a
production container stops before it),
`SeedUser` (the upsert), `SeedLock` (the advisory lock), `SeedCheck`,
`SeedCreate` (`create_sale` with the demo's window). The window of a sale is two
wall-clock times in a zone, whose offset changes once; `ToUtc` is `to_utc` with
`fold = 0`.

## 3. Runs

| Run | Instance | What it shows |
|---|---|---|
| `core` | one unit, buyers ann (two reservations) and bob, an attempt and its retry, two request sessions, one scheduler, `now` up to 1 old | the rows agree with each other in every state: `NoOversell`, `PayingIffPending`, `SettledTogether`, `OutboxMatches`; and change only as the state machines of `enums.py` allow: `LegalTransitions`; every transaction is one move of the ledger: `ImplementsLedger` |
| `loops` | two units, one buyer in two tabs, an attempt, two request sessions, two scheduler loops, a dashboard, `now` fresh (`MaxLag = 0`) | a locked row is one transaction's alone and still held, also when two loops select the same sale or hold (`LockedRowsHeld`); with a second unit to take, the buyer still holds one (`OneActivePerBuyer`); the dashboard adds up (`FiguresAgree`); an ended sale offers and holds nothing (`EndedWithdrawn`, `SweptSaleEmpty`), which is false of an older `now`: disagreement 2 |
| `live` | two sales of one unit, one that ends and one that outlasts the clock (its holds come back through `run_once` only), a reservation on each and an attempt at the first, one request session, one rollback anywhere, `now` up to 1 old, fairness | `SaleSwept`, `LapsedHoldReturns`, through deadlocks and a lost transaction, whose locks go with it (`LockedRowsHeld`); both wait until nobody works with a `now` from before the moment in question (`Past`), and a hold may stay on an ended sale (`Stranded`), where disagreement 2 has put it |
| `payment` | two attempts at one order, one click, two deliveries per decision, one loss, one restart | `PayingIffOngoing`, `SettledByAnswer`, `ChargedOnce`, `SoldByOneApproval` |
| `checkout` | two tabs, three keys, one attempt, one mishap, two deliveries, one loss, one restart, fairness | `RefusedOnlyGone`: a checkout is refused only for a unit that is gone; `ClickAnswered`; `CheckoutGoesOn`: a buyer who keeps trying gets the order; `AnswerLands`: what the stub decided is applied |
| `outbox` | three letters, two senders, two losses, fairness | `NoPhantomMail`, `SentWasMailed`, `CopiesBoundedByLosses`, `EveryLetterSent` |
| `realtime` | the storefront, the cart and the dashboard in turn; two transactions, a queue of two, two requests of a view at once; two incidents, one for the dashboard with its two views; fairness | `NeverBackwards`: no view goes back to older data; `QuietUpToDate`: a page that has nothing left to wait for lacks nothing that is not in `lost`; `CatchesUp`: each page ends up there |
| `accounts` | three registrations of two emails in three spellings, one login, two seeds, one of them killed, the clock up to 4, Moscow time | `OneAccountPerEmail`, `ShopAccountReady`, `RegisteredCanLogIn`, `OneLiveDemo`, `DemoLeft` |
| `orphan_order`, `late_decline`, `cabinet`, `pay_again` | | four disagreements, section 5 |

Bounds, and why they are enough. One unit and two buyers make every reservation
a competition for the last unit; a second reservation of the first buyer brings
lazy expiry into play and, where a second unit is left (run `loops`), the unique
index; two sessions bring every pair of requests (a circle of waiting
transactions needs two), and two loops in run `loops` every pair of sweeps.
`HoldTime = 1`, `EndsAt = 2` give a hold that lapses before the end and one cut
off by it; the clock runs to the end or one further (`live`). `MaxLag = 1` lets
a transaction's `now` be on the other side of any boundary; it is 1 in every run
on the rows but `loops`, whose `EndedWithdrawn` and `SweptSaleEmpty` need a
fresh `now`. The part of `FiguresAgree` that compares with the quantity needs
more reservations than units to be broken, which `loops` has not: it rests on
theorem `DashboardAgrees`. One loss or rollback at every point is the single
fault each step has to survive; `outbox` takes two to show the bound grows with
them. `payment` and `checkout` have one delivery more than they may lose. In
`checkout` two tabs bring every order of two `create_order` calls, and the one
mishap may strike at any of their steps; three keys are the most that two tabs
and one mishap draw. In `realtime` two transactions overflow the queue of two
(`settle` has two events), overtake each other and overlap in two requests, and
a crash may follow a cut. In `accounts` the clock runs past the end of the first
demo sale, so that the second seed finds it live, ending or over. The theorems
of section 4 hold for all values of the constants.

Symmetry is used for sessions, scheduler loops, attempts, letters and seeds,
which are never compared but for equality, and in no run that checks liveness.
`FlashSale`, `SaleStats` and `Seed` never deadlock and are checked for it; in
`Outbox`, `PaymentFlow`, `Checkout` and `Realtime` everything may have been
said, hence `CHECK_DEADLOCK FALSE`.

### Fairness

- `Advance`: time passes.
- `Tick(w)` weakly, and `SweepClear`, `ExpireReturn` strongly: `loop` catches every
  exception, sleeps and ticks again; a dead process is restarted by its
  container; Postgres grants a row lock in the order of its queue, so a waiter
  for a row that is free again and again gets it.
- `RequestStep(t)` strongly: an open request is carried through, for the same
  reason. No request need ever be made: buyers who never come back are why the
  scheduler exists.
- `DeadlockVictim`: `deadlock_timeout` runs out.
- Nothing is assumed of payments: a hung one stays hung, as the code intends.
- `Outbox`: senders keep sending; `MaxLosses` bounds how often they die.
- `Checkout`: the backend serves every call it has, its client of the stub times
  out, the stub's delivery loops run and the wire delivers what is not lost
  (`Served`, `Posted`). `Click` is fair for `CheckoutGoesOn`, which is about a
  buyer who keeps trying. Nobody need reload, cut, duplicate or release
  anything, and the stub need not decide.
- `Realtime`: handlers get to their publications and the process is started
  again (`Backend`); the browser connects, and its requests are answered or fail
  (`Browser`). Nobody need commit anything, log in, or ask by himself.

## 4. Proofs

All theorems hold for any values of the constants, under the named assumptions
of the modules: foreign keys that exist, a finite set of reservations
(`ResvsFinite`, for counting), windows that are not empty (`PhasesInOrder` shows
that `create_sale` stores no other), positive quantities (the table's `CHECK`s),
requests and schedulers that do not share a session, a demo zone whose offset
does not change.

| Theorem | Property | Rests on |
|---|---|---|
| `FlashSaleProofs!TypeCorrect` | `TypeOK` | inductive |
| `LocksHold` | `LockedRowsHeld` | inductive with `TypeOK` |
| `PaymentOwnsUnit`, `ChargedPaidSold` | `PayingIffPending`, `SettledTogether` | their conjunction `Settlement` is inductive given that locked rows are held |
| `OneHoldPerBuyer` | `OneActivePerBuyer` | inductive with locks and `Settlement` |
| `LettersMatch` | `OutboxMatches` | the same |
| `NothingOversold` | `NoOversell` | a count of units per sale, below |
| `TransitionsLegal` | `LegalTransitions` | all of the above, step by step |
| `FlashSaleLedgerProofs!LedgerImplemented` | `ImplementsLedger` | the above and `SweepScope` |
| `FlashSaleLedgerProofs!PaymentsImplemented` | `ImplementsPayments` of `FlashSale` | `Settlement` and the lemmas on `GiveUp` |
| `SweptUnlessLate` | `EndedWithdrawn`, `SweptSaleEmpty`, for any lag, of every behaviour without a late decline (`PromptDecline`) | `SaleLocksOwned`, `SweepCovers` |
| `SweptIfDeclinesOnTime` | the same, for any lag, of every behaviour whose declines put nothing back after the end (`DeclinesOnTime`) | the one before, and `EndedInPast` |
| `SaleLedgerProofs!LedgerNeverOversold` | `NeverOversold` of the ledger | a count of shelf and claims |
| `SaleStatsProofs!DashboardAgrees` | `FiguresAgree` | the invariants of `FlashSale` and `Settlement`, below |
| `OutboxProofs!TypeCorrect`, `NoPhantom`, `MailedBeforeSent`, `CopiesBounded` | `TypeOK`, `NoPhantomMail`, `SentWasMailed`, `CopiesBoundedByLosses` | `BatchUnsent`, `TakenWasMailed`, `LostCopiesOnly` |
| `PaymentProofs!TypeCorrect`, `InPayment`, `SoldOnce`, `AnswerSettles`, `ChargedAtMostOnce` | `TypeOK`, `PayingIffOngoing`, `SoldByOneApproval`, `SettledByAnswer`, `ChargedOnce` | `FlowInv`, below |
| `PaymentProofs!PaymentsImplemented` | `ImplementsPayments` of `PaymentFlow` | `FlowInv` |
| `PaymentProofs!CheckoutPays` | `CheckoutSpec => Spec` of `PaymentFlow` | step by step |
| `PaymentProofs!CheckoutByLedger` | `CheckoutSpec => ImplementsPayments` | the two before |
| `PaymentProofs!RefusedTruly` | `RefusedOnlyGone` | `FlowInv` and `OrderKnown` |
| `PaymentProofs!OneAnswerAwaited` | `PagesTypeOK` | `OneCall`, `OrderKnown` |
| `RealtimeProofs!TypeCorrect` | `TypeOK` | inductive, with lemmas on sequences |
| `RealtimeProofs!NoOlderData` | `NeverBackwards` | `AnswersAhead`, below |
| `RealtimeProofs!QuietMeansUpToDate` | `QuietUpToDate` | `NothingForgotten`, below |
| `SeedProofs!TypeCorrect`, `OneAccount`, `TakenTrue`, `ShopReady`, `BuyersLetIn`, `DemosApart`, `DemoThere` | the properties of run `accounts`, and `TakenIsTrue`, which no run repeats | below |
| `SeedProofs!FirstInstant`, `RefusedOnlySkipped`, `PhasesInOrder` | | arithmetic on the operators of `SaleWindow` |

Why the strengthenings.

- *Transactions.* A sweep or a release checks a status, waits, and commits
  later; its commit is right only because the row is still held then, and that
  is `LockedRowsHeld`: rows in a transaction's `rowLocks` are held, are locked by
  nobody else, and (for `reserve`) belong to the sale and buyer of its target.
  Given it, every commit is one of a few shapes of giving reservations up
  (`GiveUp`), and the lemmas `GivingUp`, `GiveUp...` do the accounting once for
  `reserve`, `release`, `end_ended_sales` and `run_once`. Payments need
  `Settlement`: which branches of `apply_payment_result` can be taken depends on
  order, payment and reservation agreeing. For `NoOversell`, the counted set
  `Taken(s) \cup Withdrawn(s)` grows and shrinks with `avail`; the cardinality of
  disjoint unions and differences does the rest.
- *The ledger.* `SweepScope`: a sweep has locked reservations of the sales it has
  locked only, otherwise its commit would withdraw a cart without its sale.
- *The ledger of payments.* That an attempt starts on a unit nobody else pays
  for, and settles a unit that is in payment, is `Settlement`; that a cart given
  up by another transaction is not in payment is `LockedRowsHeld`. A
  checkout implements the ledger as well: `CheckoutByLedger`. TLC has found no
  counterexample to either refinement on the instances of runs `core` and
  `payment`; neither run repeats it, since a theorem covers it.
- *A sale that has ended.* A sweep reads the reservations of its sales once and
  clears them one by one, while carts are opened and come back; that nothing is
  left at its commit is `SweepCovers`: whatever is held of a sale the sweep has
  locked is among what it has cleared or has still to do, since a cart is opened
  or comes back only under the lock of its sale. The one exception is a decline,
  which locks no sale: it compares the end of the sale with its own `now`.
  `PromptDecline` forbids exactly that step (a decline that puts a reservation
  back on an ended sale or one being swept), so `SweptUnlessLate` says that
  disagreement 2 is the only way a swept sale is left with a cart.
  `SweptIfDeclinesOnTime` says it of the clock: a sweep takes sales whose end is
  past only (`EndedInPast`), so it is enough that the decline, and no other
  transaction, looks at the time at which it commits (`DeclinesOnTime`).
- *The dashboard.* A unit counted as sold stays sold, so what is read later
  is read of rows that are apart from it; the units of one moment are within the
  quantity by `NothingOversold`.
- *Payments.* An answer settles a unit only through the one pending attempt of its
  order. That an answer was given by the stub at all has to be known of every
  form it takes: a verdict the handler holds, a webhook on the wire, an answer
  the shop's button has read (`OnItsWay`), the stub's record (`AtStub`). The stub
  speaks once per source, so what was said stays said.
- *Checkouts.* Every step of a checkout is a step of `PaymentFlow` or leaves it
  alone. A tab that pays has an order (`OrderKnown`); without an order the unit
  is in the cart or gone, so a tab told "not held" that finds no order looks for
  a unit that is gone, and a unit that is gone stays gone.
  A tab awaits one call or none (`OneCall`, stated with sets, whose cardinality
  is counted at the very end).
- *Views.* Every step does one of four things to a guarded view (`ViewStep`): its
  newest request is replaced by a newer one, or stays the newest and may be read
  or fail, or is answered and shown, or fails and is given up; so it does not
  matter how the others overlap. From it, an answer of the newest request is
  never older than what is shown (`AnswersAhead`). `NothingForgotten` follows a
  change on its whole way: it is shown or lost, or announced and not yet delivered,
  or the newest request will read it, or a request for the shop's list will be
  followed by one for the statistics (`Chained`), or a refetch is to come
  (`RefetchAhead`). Each of these can only turn into another; a page that has
  nothing left to wait for has run out of all but the first two.
- *Accounts and the seed.* Emails are stored lower-case, which is what the unique
  index needs to be one per account; the seed's upsert leaves an account with its
  role and password, and a registration never touches one that is there. The
  advisory lock is owned by the seed that has checked, so no other demo sale is
  created between its check and its insert.

Model-checked only: every liveness property (`SaleSwept`, `LapsedHoldReturns`,
`EveryLetterSent`, `ClickAnswered`, `CheckoutGoesOn`, `AnswerLands`, `CatchesUp`):
fairness and `ENABLED` are out of the prover's reach. `QuietUpToDate` is the safety
half of `CatchesUp`: what is left to fairness is that queues and requests run
empty. Every safety property of a passing run is a theorem. Nothing here needs
induction over data: no module that is proved about has a recursive operator.

## 5. Disagreements found

1. `orphan_order` (`PendingOrderLive`). `create_order` reads the reservation
   without a lock (`orders.py:62`) and inserts the order later. A release that
   commits in between finds no order to cancel; the order then stays pending
   for ever. docs/history/plan.md:82 says orders are cancelled together with
   their reservation. It cannot be paid (`start_payment` wants a held
   reservation), so nothing is sold wrongly: theorem `ChargedPaidSold`.
2. `late_decline` (`SweptSaleEmpty`). A decline whose transaction started before
   the end of the sale and commits after the sweep puts the reservation back to
   held on an ended sale. No sweep visits that sale again and `run_once` skips
   closed sales, so the buyer never gets the letter docs/acceptance.md:93
   promises. That hold can then be released with a `now` from before the end,
   which puts a unit back on the shelf of the ended sale: `EndedWithdrawn` fails
   as well. It needs a `now` that is older than the sweep's commit; with a fresh
   `now` both properties hold (run `loops`), and it is the `now` of the decline
   alone that matters (theorem `SweptIfDeclinesOnTime`).
3. `cabinet` (`CatchesUp` on the page of orders). `fetchOrders` assigns whatever
   answer comes last (`orders.ts:11`). Of two overlapping requests the older may
   be answered later; the cabinet then shows old statuses until the next event,
   with a stream that never broke. The other stores number their requests because
   "a slower, older response must not overwrite a newer one" (`sales.ts:14-15`).
4. `pay_again` (`PayOffered`). An attempt answered "pending" (the stub hangs, or
   the charge times out) disables the Pay button of its page; nothing but a
   reload enables it (`CartView.vue:83`). When the attempt is declined later, the
   unit is back in the cart and cannot be paid for from that page, while
   README.md:188-190 says that paying again with another card completes it.

Three more places fall short of what a document or a comment says. The models
state what the code does there, and no run refutes it:

- *A second letter.* docs/acceptance.md:92 says "One." of the email about an
  order. A sender lost between the email and the commit of `sent_at` emails it
  again (`notifications.py:57-64`); docs/history/code-audit-2026-09-12.md:223
  knows of the copy and allows it. `CopiesBoundedByLosses` bounds the copies.
- *A dropped event.* The comment at `realtime.py:61` says that a dropped event is
  safe because the client refetches on reconnect. A full queue keeps its stream
  open, so no reconnect follows; the page stays behind until the next event its
  store listens to.
- *The first open.* It asks for nothing (`useRealtime.ts:55`). A change committed
  after the page's first request was read, and published before the stream is
  subscribed, reaches the page by neither, while docs/acceptance.md:79 promises
  it without a reload; the next event, or the storefront's own refetch when its
  tab returns, makes up for it.

## 6. What is left out, and the plan

Limits of the models that a reader should know:

- `Checkout` is about one reservation. Operators' clicks, the shop's status
  button and restarts of the stub are in run `payment`, and not in `checkout`
  (theorem `CheckoutPays` says that nothing a checkout does leaves `PaymentFlow`).
- `Realtime` has one backend process, as `realtime.py:42` says of itself, and one
  page; pages share nothing but the log.
- `SaleStats` watches one sale and one request; requests share nothing.
- `CatchesUp` and `QuietUpToDate` excuse, through `lost`, a dropped event and the
  gap before the first open: they do not catch these two.
- Who must be let in is a property of `Accounts`, who must not is none: a login
  that read the old hash before the seed replaced it succeeds after it.
- `Seed` has a zone without changes, as the demo's is; windows across a change
  are a matter of `SaleWindow`.

Not modelled for good: request parsing and status codes, configuration,
migrations and containers (no behaviour of the running system), views but for
the Pay button, countdowns, password hashing, webhook signatures, the reads that
change nothing (`list_sales`, `get_sale`, `user_for_token`).
