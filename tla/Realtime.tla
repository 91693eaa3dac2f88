------------------------------ MODULE Realtime ------------------------------
(***************************************************************************)
(* Live updates, from the commit of a transaction to what a page shows.    *)
(* A service publishes its events after its commit (cart.py, payments.py,  *)
(* scheduler.py, routers/sales.py); the broadcaster puts them in the       *)
(* bounded queue of each subscriber (realtime.py); the page's EventSource  *)
(* (useRealtime.ts) hands them to the stores it has bound, and each of     *)
(* them asks the backend for its data again.  Nothing an event carries is  *)
(* shown: an event only says that something has changed.                   *)
(*                                                                         *)
(* One backend process and one page.  The data are the log of committed    *)
(* transactions; an answer, and what a view shows, is a length of that log *)
(* (the prefix it was read from).                                          *)
(***************************************************************************)
EXTENDS Naturals, Sequences, SequencesExt

CONSTANTS
    Pages,          \* which views a page may have bound
    Kinds,          \* kinds of transactions that may commit
    QueueMax,       \* QUEUE_MAXSIZE
    MaxLog,         \* bound: transactions
    MaxUnderway,    \* bound: requests of one view under way at once
    MaxIncidents    \* bound, by page: crashes, cut streams, logouts, requests that fail
                    \* with the backend alive, requests no event asked for

Views == {"sales", "cart", "orders", "shop", "stats"}

ASSUME RealtimeAssumption ==
    /\ Pages \subseteq SUBSET Views
    /\ \A p \in Pages : "stats" \in p => "shop" \in p
    /\ Kinds \subseteq {"stock", "status", "settle", "settle_other", "pay", "order"}
    /\ QueueMax \in Nat \ {0}
    /\ MaxUnderway \in Nat \ {0}
    /\ MaxLog \in Nat
    /\ MaxIncidents \in [Pages -> Nat]

VARIABLES
    page,           \* the views of this page, whose stores are bound
    log,            \* the transactions committed so far
    unpublished,    \* those of them whose events are still to be published
    up,             \* the backend process runs
    queue,          \* this page's queue in the broadcaster
    conn,           \* the EventSource
    opened,         \* its "opened": onopen has fired before
    flight,         \* requests under way, by view, the oldest first
    current,        \* fetchSeq is still that of the last of them
    shown,          \* what a view shows
    lost,           \* changes no request will be made for, by view
    incidents

backend == <<log, unpublished, up>>
stream == <<queue, conn, opened>>
stores == <<flight, current, shown>>
vars == <<page, backend, stream, stores, lost, incidents>>

(***************************************************************************)
(* Who announces what to whom: reserve, release and run_once; create_sale  *)
(* and end_ended_sales; apply_payment_result for an order of this page's   *)
(* user or of somebody else, to whom its order_status is addressed;        *)
(* start_payment and create_order, which publish nothing.                  *)
(***************************************************************************)
Events ==
    [stock        |-> <<"stock_changed">>,
     status       |-> <<"sale_status">>,
     settle       |-> <<"order_status", "sale_stats">>,
     settle_other |-> <<"sale_stats">>,
     pay          |-> <<>>,
     order        |-> <<>>]

\* The views whose data a transaction changes.
Changes ==
    [stock        |-> Views,
     status       |-> Views,
     settle       |-> {"cart", "orders", "stats"},
     settle_other |-> {"stats"},
     pay          |-> {"stats"},
     order        |-> {"orders"}]

\* The events a store asks again for; the shop's statistics are asked for
\* after its list of sales.
Heeds ==
    [sales  |-> {"stock_changed", "sale_status"},
     cart   |-> {"stock_changed", "sale_status", "order_status"},
     orders |-> {"stock_changed", "sale_status", "order_status"},
     shop   |-> {"stock_changed", "sale_status", "sale_stats"},
     stats  |-> {"stock_changed", "sale_status", "sale_stats"}]

EventsOf(k) == [i \in DOMAIN Events[log[k]] |-> [name |-> Events[log[k]][i], of |-> k]]

Subscribed == conn \in {"subscribed", "open"}

\* No refetch is to come: neither a reconnect's nor that of views mounted anew.
NoRefetchAhead == Subscribed \/ (conn = "connecting" /\ ~opened)

\* The transactions a set of events tells a view of.
Told(v, E) == {e.of : e \in {e2 \in E : e2.name \in Heeds[v]}}

\* What a view has been told of: all but what is on its way.
Heard(v) == (1 .. Len(log)) \ (unpublished \cup Told(v, ToSet(queue)))

\* Changes that get lost because the events of a set do.
Lose(E) == lost' = [v \in page |-> lost[v] \cup Told(v, E)]

\* A request the backend has not read its answer for; chain: the statistics are
\* asked for after it.
Unread(chain) == [state |-> "unread", read |-> 0, chain |-> chain]

TypeOK ==
    /\ page \in Pages
    /\ log \in Seq(Kinds) /\ Len(log) <= MaxLog
    /\ unpublished \subseteq 1 .. Len(log)
    /\ up \in BOOLEAN /\ opened \in BOOLEAN
    /\ queue \in Seq([name : UNION {ToSet(Events[k]) : k \in Kinds}, of : 1 .. Len(log)])
    /\ Len(queue) <= QueueMax
    /\ conn \in {"closed", "connecting", "subscribed", "open", "failed"}
    /\ ~Subscribed => queue = <<>>
    /\ flight \in [page -> Seq([state : {"unread", "read", "error"},
                                read : 0 .. Len(log), chain : BOOLEAN])]
    /\ \A v \in page : Len(flight[v]) <= MaxUnderway
    /\ current \in [page -> BOOLEAN]
    /\ shown \in [page -> 0 .. Len(log)]
    /\ lost \in [page -> SUBSET (1 .. Len(log))]
    /\ incidents \in 0 .. MaxIncidents[page]

\* Views have been mounted: their first requests are under way, and so is the
\* connection.
Init ==
    /\ page \in Pages
    /\ log = <<>>
    /\ unpublished = {}
    /\ up = TRUE
    /\ queue = <<>>
    /\ conn = "connecting"
    /\ opened = FALSE
    /\ flight = [v \in page |-> <<Unread(FALSE)>>]
    /\ current = [v \in page |-> TRUE]
    /\ shown = [v \in page |-> 0]
    /\ lost = [v \in page |-> {}]
    /\ incidents = 0

(***************************************************************************)
(* The backend.                                                            *)
(***************************************************************************)
Commit(kind) ==
    /\ up
    /\ Len(log) < MaxLog
    /\ log' = Append(log, kind)
    /\ IF Events[kind] = <<>>
       THEN /\ lost' = [v \in page |-> IF v \in Changes[kind] THEN lost[v] \cup {Len(log')} ELSE lost[v]]
            /\ UNCHANGED unpublished
       ELSE /\ unpublished' = unpublished \cup {Len(log')}
            /\ UNCHANGED lost
    /\ UNCHANGED <<page, up, stream, stores, incidents>>

\* put_nowait without a limit.
Kept_All(es) == es

\* Of what a queue should hold, the newest QUEUE_MAXSIZE: each event that finds
\* it full throws the oldest out.
Kept(es) == IF Len(es) <= QueueMax THEN es
            ELSE SubSeq(es, Len(es) - QueueMax + 1, Len(es))

\* Handlers publish as they get to it, not in the order of their commits.
Publish(k) ==
    /\ up
    /\ k \in unpublished
    /\ unpublished' = unpublished \ {k}
    /\ LET all == queue \o EventsOf(k) IN
        IF Subscribed
        THEN /\ queue' = Kept(all)
             /\ Lose(ToSet(SubSeq(all, 1, Len(all) - Len(Kept(all)))))
        ELSE /\ UNCHANGED queue
             /\ IF NoRefetchAhead THEN Lose(ToSet(EventsOf(k))) ELSE UNCHANGED lost
    /\ UNCHANGED <<page, log, up, conn, opened, stores, incidents>>

(***************************************************************************)
(* The stream.  The queue is registered before the page hears that it is   *)
(* connected.  What the stream held when it broke is asked for after the   *)
(* reconnect, if the page had seen an open before.                         *)
(***************************************************************************)
Incident ==
    /\ incidents < MaxIncidents[page]
    /\ incidents' = incidents + 1

Break(E) ==
    /\ Incident
    /\ queue' = <<>>
    /\ IF NoRefetchAhead' THEN Lose(E) ELSE UNCHANGED lost
    /\ UNCHANGED <<page, log, shown, current>>

\* A request the backend will not answer any more.
Broken(f) == IF f.state = "unread" THEN [f EXCEPT !.state = "error"] ELSE f

\* Events not published yet die with the process.
Crash ==
    /\ up
    /\ up' = FALSE
    /\ conn' = IF Subscribed THEN "connecting" ELSE conn
    /\ unpublished' = {}
    /\ UNCHANGED opened
    /\ Break(ToSet(queue) \cup UNION {ToSet(EventsOf(k)) : k \in unpublished})
    /\ flight' = [v \in page |-> [i \in DOMAIN flight[v] |-> Broken(flight[v][i])]]

Restart ==
    /\ ~up
    /\ up' = TRUE
    /\ UNCHANGED <<page, log, unpublished, stream, stores, lost, incidents>>

Cut ==
    /\ Subscribed
    /\ conn' = "connecting"
    /\ UNCHANGED <<opened, unpublished, up, flight>>
    /\ Break(ToSet(queue))

\* closeRealtime: the next EventSource starts with opened = false.
Logout ==
    /\ conn # "closed"
    /\ conn' = "closed"
    /\ opened' = FALSE
    /\ UNCHANGED <<unpublished, up, flight>>
    /\ Break(ToSet(queue))

Subscribe ==
    /\ conn = "connecting"
    /\ up
    /\ conn' = "subscribed"
    /\ UNCHANGED <<page, backend, queue, opened, stores, lost, incidents>>

\* The proxy answers 502 for a backend that is down, and an EventSource whose
\* answer is not 200 gives up for good.
Refused ==
    /\ conn = "connecting"
    /\ ~up
    /\ conn' = "failed"
    /\ UNCHANGED <<page, backend, queue, opened, stores, lost, incidents>>

(***************************************************************************)
(* The stores.                                                             *)
(***************************************************************************)
Room(v) == Len(flight[v]) < MaxUnderway

Request(chain) == IF up THEN Unread(chain) ELSE Broken(Unread(chain))

\* ++fetchSeq and the call, for every view of a set.
Fetch(V, chain) ==
    /\ \A v \in V : Room(v)
    /\ flight' = [v \in page |-> IF v \in V THEN Append(flight[v], Request(chain))
                                  ELSE flight[v]]
    /\ current' = [v \in page |-> v \in V \/ current[v]]

\* A store that has not registered for reconnects.
OnReconnect_Nobody == {}

OnReconnect == page

Open ==
    /\ conn = "subscribed"
    /\ conn' = "open"
    /\ opened' = TRUE
    /\ IF opened THEN Fetch(OnReconnect, FALSE) ELSE UNCHANGED <<flight, current>>
    /\ UNCHANGED <<page, backend, queue, shown, lost, incidents>>

Deliver ==
    /\ conn = "open"
    /\ queue # <<>>
    /\ queue' = Tail(queue)
    /\ Fetch({v \in page \ {"stats"} : Head(queue).name \in Heeds[v]}, TRUE)
    /\ UNCHANGED <<page, backend, conn, opened, shown, lost, incidents>>

\* On mount, after an own reserve or release, and when the tab is visible again.
Ask(v) ==
    /\ Incident
    /\ Fetch({v}, FALSE)
    /\ UNCHANGED <<page, backend, stream, shown, lost>>

\* openRealtime, and the view the router goes to is mounted.
Login ==
    /\ conn = "closed"
    /\ up
    /\ conn' = "connecting"
    /\ Fetch(page, FALSE)
    /\ UNCHANGED <<page, backend, queue, opened, shown, lost, incidents>>

Read(v, i) ==
    /\ up
    /\ flight[v][i].state = "unread"
    /\ flight' = [flight EXCEPT ![v][i].state = "read", ![v][i].read = Len(log)]
    /\ UNCHANGED <<page, backend, stream, current, shown, lost, incidents>>

Fail(v, i) ==
    /\ flight[v][i].state # "error"
    /\ Incident
    /\ flight' = [flight EXCEPT ![v][i].state = "error"]
    /\ UNCHANGED <<page, backend, stream, current, shown, lost>>

Newest(v, i) == current[v] /\ i = Len(flight[v])

\* Without the sequence guard.
Accepted_Any(v, i) == TRUE

\* if (seq !== fetchSeq) return -- the orders' store has no such line.
Accepted(v, i) == v = "orders" \/ Newest(v, i)

Answered(v, i) ==
    /\ flight[v][i].state = "read"
    /\ shown' = IF Accepted(v, i) THEN [shown EXCEPT ![v] = flight[v][i].read]
                                  ELSE shown
    /\ LET more == v = "shop" /\ flight[v][i].chain
           rest == [flight EXCEPT ![v] = RemoveAt(@, i)]
           still == [current EXCEPT ![v] = @ /\ ~Newest(v, i)]
       IN  /\ more => Room("stats")
           /\ flight' = IF more THEN [rest EXCEPT !["stats"] = Append(@, Request(FALSE))]
                                ELSE rest
           /\ current' = IF more THEN [still EXCEPT !["stats"] = TRUE] ELSE still
    /\ UNCHANGED <<page, backend, stream, lost, incidents>>

\* The answer of an older request is thrown away even if the newest one fails,
\* and the statistics are not asked for when the list fails.  Only a reconnect
\* or another event makes up for it.
Failed(v, i) ==
    /\ flight[v][i].state = "error"
    /\ flight' = [flight EXCEPT ![v] = RemoveAt(@, i)]
    /\ current' = [current EXCEPT ![v] = @ /\ ~Newest(v, i)]
    /\ LET stale == (IF Newest(v, i) \/ v = "orders" THEN {v} ELSE {})
                    \cup (IF flight[v][i].chain /\ v = "shop" THEN {"stats"} ELSE {})
       IN  lost' = [w \in page |-> IF w \in stale /\ NoRefetchAhead
                                     THEN lost[w] \cup Heard(w) ELSE lost[w]]
    /\ UNCHANGED <<page, backend, stream, shown, incidents>>

Served(v) ==
    \E i \in DOMAIN flight[v] : Read(v, i) \/ Answered(v, i) \/ Failed(v, i)

Backend ==
    \/ \E k \in 1 .. MaxLog : Publish(k)
    \/ Restart

Browser ==
    \/ Subscribe \/ Refused \/ Open \/ Deliver
    \/ \E v \in page : Served(v)

Next ==
    \/ \E kind \in Kinds : Commit(kind)
    \/ Backend
    \/ Browser
    \/ Crash \/ Cut \/ Logout \/ Login
    \/ \E v \in page : Ask(v) \/ \E i \in DOMAIN flight[v] : Fail(v, i)

Spec == Init /\ [][Next]_vars

\* Handlers get to their publications and the container is restarted; the
\* browser connects, and its requests are served and answered or fail.  Nobody
\* need log in, commit anything or ask by himself.
LiveSpec == Spec /\ WF_vars(Backend) /\ WF_vars(Browser)

-----------------------------------------------------------------------------

\* "A slower, older response must not overwrite a newer one" (sales.ts:14-15,
\* shop.ts:12-13): however requests overlap, fail and are answered out of
\* order, a view never goes back to older data.
NeverBackwards ==
    [][\A v \in page \ {"orders"} : shown'[v] >= shown[v]]_vars

\* A view lacks no change it is still to be told of, or was told of in vain.
UpToDate(v) ==
    \A k \in (shown[v] + 1) .. Len(log) : v \in Changes[log[k]] => k \in lost[v]

\* The safety half of it: a page that has an open stream and nothing left to
\* wait for is up to date.  The orders may be older, whatever is under way.
QuietUpToDate ==
    conn = "open" /\ unpublished = {} /\ queue = <<>>
        /\ (\A v \in page : flight[v] = <<>>)
    => \A v \in page \ {"orders"} : UpToDate(v)

\* Every change ends up on the page: events published in another order than
\* they were committed, queues and publications lost with a process or a
\* connection, overlapping requests and requests lost with the backend are all
\* made good by the next event or the refetch of a reconnect.  What is not: the
\* changes in "lost", and a stream that was refused or closed.
CatchesUp ==
    <>[](conn \in {"closed", "failed"} \/ \A v \in page : UpToDate(v))

=============================================================================
