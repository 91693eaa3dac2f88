---------------------------- MODULE RealtimeProofs ----------------------------
(***************************************************************************)
(* Theorems about Realtime for any page, any number of transactions,       *)
(* requests under way and incidents, and any length of the queue.          *)
(***************************************************************************)
EXTENDS Realtime, SequenceTheorems, TLAPS

-----------------------------------------------------------------------------
(***************************************************************************)
(* The operators on sequences.                                             *)
(***************************************************************************)
LEMMA Elements ==
    ASSUME NEW S, NEW s \in Seq(S)
    PROVE  ToSet(s) = {s[j] : j \in 1 .. Len(s)}
  BY LenProperties DEF ToSet

LEMMA Within ==
    ASSUME NEW S, NEW s \in Seq(S)
    PROVE  ToSet(s) \subseteq S
  BY Elements, ElementOfSeq

LEMMA Removed ==
    ASSUME NEW S, NEW s \in Seq(S), NEW i \in 1 .. Len(s)
    PROVE  /\ RemoveAt(s, i) \in Seq(S)
           /\ Len(RemoveAt(s, i)) = Len(s) - 1
           /\ \A j \in 1 .. Len(s) - 1 :
                RemoveAt(s, i)[j] = IF j < i THEN s[j] ELSE s[j + 1]
<1> DEFINE a == SubSeq(s, 1, i - 1)
           b == SubSeq(s, i + 1, Len(s))
<1>1. /\ a \in Seq(S) /\ Len(a) = i - 1
      /\ \A j \in 1 .. i - 1 : a[j] = s[j]
  BY LenProperties, SMT
<1>2. /\ b \in Seq(S) /\ Len(b) = Len(s) - i
      /\ \A j \in 1 .. Len(s) - i : b[j] = s[i + j]
  BY LenProperties, SMT
<1>3. RemoveAt(s, i) = a \o b
  BY DEF RemoveAt
<1> HIDE DEF a, b
<1>4. /\ a \o b \in Seq(S) /\ Len(a \o b) = Len(s) - 1
      /\ \A j \in 1 .. Len(s) - 1 :
           (a \o b)[j] = IF j <= i - 1 THEN a[j] ELSE b[j - (i - 1)]
  <2>1. Len(a) + Len(b) = Len(s) - 1
    BY <1>1, <1>2, LenProperties
  <2>2. /\ a \o b \in Seq(S) /\ Len(a \o b) = Len(a) + Len(b)
        /\ \A j \in 1 .. Len(a) + Len(b) :
             (a \o b)[j] = IF j <= Len(a) THEN a[j] ELSE b[j - Len(a)]
    BY <1>1, <1>2, ConcatProperties
  <2> QED
    BY <1>1, <2>1, <2>2
<1>5. ASSUME NEW j \in 1 .. Len(s) - 1
      PROVE  (a \o b)[j] = IF j < i THEN s[j] ELSE s[j + 1]
  <2>1. CASE j < i
    BY <1>1, <1>4, <2>1
  <2>2. CASE ~(j < i)
    <3>1. j - (i - 1) \in 1 .. Len(s) - i /\ i + (j - (i - 1)) = j + 1
      BY <2>2, LenProperties
    <3> QED
      BY <1>2, <1>4, <2>2, <3>1
  <2> QED
    BY <2>1, <2>2
<1> QED
  BY <1>3, <1>4, <1>5

\* What a queue keeps and what it throws out are the whole of it.
LEMMA KeptParts ==
    ASSUME NEW S, NEW es \in Seq(S)
    PROVE  /\ Kept(es) \in Seq(S)
           /\ Len(Kept(es)) <= QueueMax
           /\ SubSeq(es, 1, Len(es) - Len(Kept(es))) \in Seq(S)
           /\ \A e \in ToSet(es) :
                e \in ToSet(Kept(es))
                  \cup ToSet(SubSeq(es, 1, Len(es) - Len(Kept(es))))
<1> DEFINE n == Len(es) - QueueMax
<1>1. QueueMax \in Nat /\ Len(es) \in Nat
  BY RealtimeAssumption, LenProperties
<1>2. CASE Len(es) <= QueueMax
  <2>1. Kept(es) = es /\ Len(es) - Len(Kept(es)) = 0
    BY <1>1, <1>2 DEF Kept
  <2>2. SubSeq(es, 1, 0) = <<>>
    BY SubSeqEmpty
  <2> QED
    BY <1>2, <2>1, <2>2, EmptySeq
<1>3. CASE Len(es) > QueueMax
  <2>1. n \in 1 .. Len(es) /\ Kept(es) = SubSeq(es, n + 1, Len(es))
    BY <1>1, <1>3, RealtimeAssumption DEF Kept
  <2>2. /\ Kept(es) \in Seq(S) /\ Len(Kept(es)) = QueueMax
        /\ \A j \in 1 .. QueueMax : Kept(es)[j] = es[n + j]
    BY <1>1, <2>1, SMT
  <2> DEFINE out == SubSeq(es, 1, n)
  <2>3. out \in Seq(S) /\ Len(out) = n /\ \A j \in 1 .. n : out[j] = es[j]
    BY <1>1, <2>1, SMT
  <2>4. Len(es) - Len(Kept(es)) = n
    BY <1>1, <2>2
  <2>5. ASSUME NEW j \in 1 .. Len(es)
        PROVE  es[j] \in ToSet(Kept(es)) \cup ToSet(out)
    <3>1. CASE j <= n
      <4>1. j \in 1 .. n
        BY <2>1, <3>1
      <4>2. ToSet(out) = {out[k] : k \in 1 .. n}
        BY <2>3, Elements
      <4> QED
        BY <2>3, <4>1, <4>2
    <3>2. CASE j > n
      <4>1. j - n \in 1 .. QueueMax /\ n + (j - n) = j
        BY <1>1, <3>2
      <4> QED
        <5>1. ToSet(Kept(es)) = {Kept(es)[k] : k \in 1 .. QueueMax}
          BY <2>2, Elements
        <5> QED
          BY <2>2, <4>1, <5>1
    <3> QED
      BY <1>1, <3>1, <3>2
  <2> QED
    <3>1. ToSet(es) = {es[j] : j \in 1 .. Len(es)}
      BY Elements
    <3> QED
      BY <1>1, <2>2, <2>3, <2>4, <2>5, <3>1
<1> QED
  BY <1>1, <1>2, <1>3

LEMMA Joined ==
    ASSUME NEW S, NEW s \in Seq(S), NEW t \in Seq(S)
    PROVE  s \o t \in Seq(S) /\ ToSet(s) \cup ToSet(t) \subseteq ToSet(s \o t)
<1>1. /\ s \o t \in Seq(S) /\ Len(s \o t) = Len(s) + Len(t)
      /\ \A j \in 1 .. Len(s) : (s \o t)[j] = s[j]
      /\ \A j \in 1 .. Len(t) : (s \o t)[Len(s) + j] = t[j]
  <2>1. /\ s \o t \in Seq(S) /\ Len(s \o t) = Len(s) + Len(t)
        /\ \A j \in 1 .. Len(s) + Len(t) :
             (s \o t)[j] = IF j <= Len(s) THEN s[j] ELSE t[j - Len(s)]
    BY ConcatProperties
  <2>2. Len(s) \in Nat /\ Len(t) \in Nat
    BY LenProperties
  <2>3. \A j \in 1 .. Len(t) : /\ Len(s) + j \in 1 .. Len(s) + Len(t)
                               /\ ~(Len(s) + j <= Len(s))
                               /\ (Len(s) + j) - Len(s) = j
    BY <2>2
  <2> QED
    BY <2>1, <2>2, <2>3
<1>2. /\ 1 .. Len(s) \subseteq 1 .. Len(s \o t)
      /\ \A j \in 1 .. Len(t) : Len(s) + j \in 1 .. Len(s \o t)
  BY <1>1, LenProperties
<1>3. /\ ToSet(s) = {s[j] : j \in 1 .. Len(s)}
      /\ ToSet(t) = {t[j] : j \in 1 .. Len(t)}
      /\ ToSet(s \o t) = {(s \o t)[j] : j \in 1 .. Len(s \o t)}
  BY <1>1, Elements
<1> QED
  BY <1>1, <1>2, <1>3

LEMMA Headed ==
    ASSUME NEW S, NEW s \in Seq(S), s # <<>>
    PROVE  /\ Head(s) \in S /\ Tail(s) \in Seq(S) /\ Len(Tail(s)) = Len(s) - 1
           /\ ToSet(s) = {Head(s)} \cup ToSet(Tail(s))
<1>1. /\ Len(s) \in Nat \ {0} /\ Head(s) = s[1] /\ Head(s) \in S
      /\ Tail(s) \in Seq(S) /\ Len(Tail(s)) = Len(s) - 1
      /\ \A j \in 1 .. Len(s) - 1 : Tail(s)[j] = s[j + 1]
  BY HeadTailProperties, EmptySeq, LenProperties
<1>2. /\ ToSet(s) = {s[j] : j \in 1 .. Len(s)}
      /\ ToSet(Tail(s)) = {Tail(s)[j] : j \in 1 .. Len(s) - 1}
  BY <1>1, Elements
<1>3. ASSUME NEW j \in 1 .. Len(s) PROVE s[j] \in {s[1]} \cup ToSet(Tail(s))
  <2>1. CASE j = 1
    BY <2>1
  <2>2. CASE j # 1
    <3>1. j - 1 \in 1 .. Len(s) - 1 /\ (j - 1) + 1 = j
      BY <1>1, <2>2
    <3> QED
      BY <1>1, <1>2, <3>1
  <2> QED
    BY <2>1, <2>2
<1>4. ASSUME NEW j \in 1 .. Len(s) - 1 PROVE Tail(s)[j] \in ToSet(s)
  <2>1. j + 1 \in 1 .. Len(s)
    BY <1>1
  <2> QED
    BY <1>1, <1>2, <2>1
<1>5. 1 \in 1 .. Len(s)
  BY <1>1
<1> QED
  <2>1. ToSet(s) \subseteq {s[1]} \cup ToSet(Tail(s))
    BY <1>3, <1>2
  <2>2. {s[1]} \cup ToSet(Tail(s)) \subseteq ToSet(s)
    BY <1>4, <1>2, <1>5
  <2> QED
    BY <1>1, <2>1, <2>2

-----------------------------------------------------------------------------
(***************************************************************************)
(* Events and requests.                                                    *)
(***************************************************************************)
Names == UNION {ToSet(Events[k]) : k \in Kinds}
EventSet == [name : Names, of : 1 .. Len(log)]
Requests == [state : {"unread", "read", "error"}, read : 0 .. Len(log), chain : BOOLEAN]

Silent == {"pay", "order"}

LEMMA EventLists ==
    /\ DOMAIN Events = {"stock", "status", "settle", "settle_other", "pay", "order"}
    /\ \A kind \in {"stock", "status", "settle_other"} :
          DOMAIN Events[kind] = 1 .. 1
    /\ DOMAIN Events["settle"] = 1 .. 2
    /\ \A kind \in Silent : DOMAIN Events[kind] = 1 .. 0 /\ Events[kind] = <<>>
    /\ Events["stock"][1] = "stock_changed"
    /\ Events["status"][1] = "sale_status"
    /\ Events["settle"][1] = "order_status" /\ Events["settle"][2] = "sale_stats"
    /\ Events["settle_other"][1] = "sale_stats"
  BY DEF Events, Silent

LEMMA EventsTyped ==
    ASSUME TypeOK, NEW k \in 1 .. Len(log)
    PROVE  /\ EventsOf(k) \in Seq(EventSet)
           /\ \A v \in page : Told(v, ToSet(EventsOf(k))) \subseteq {k}
           /\ \A v \in page : v \in Changes[log[k]] /\ Events[log[k]] # <<>>
                 => k \in Told(v, ToSet(EventsOf(k)))
<1> DEFINE kind == log[k]
<1>1. kind \in Kinds /\ Kinds \subseteq DOMAIN Events /\ page \subseteq Views
  BY ElementOfSeq, RealtimeAssumption, EventLists DEF TypeOK
<1>2. PICK n \in Nat : DOMAIN Events[kind] = 1 .. n
  BY <1>1, EventLists DEF Silent
<1>3. EventsOf(k) = [i \in 1 .. n |-> [name |-> Events[kind][i], of |-> k]]
  BY <1>2 DEF EventsOf
<1>4. \A i \in 1 .. n : Events[kind][i] \in Names
  BY <1>1, <1>2 DEF Names, ToSet
<1>5. EventsOf(k) \in [1 .. n -> EventSet]
  BY <1>3, <1>4 DEF EventSet
<1>6. ToSet(EventsOf(k)) = {[name |-> Events[kind][i], of |-> k] : i \in 1 .. n}
  BY <1>3 DEF ToSet
<1>7. ASSUME NEW v \in page, v \in Changes[kind], Events[kind] # <<>>
      PROVE  \E i \in 1 .. n : Events[kind][i] \in Heeds[v]
  BY <1>1, <1>2, <1>7, EventLists DEF Changes, Heeds, Views, Silent
<1>8. EventsOf(k) \in Seq(EventSet)
  BY <1>5, SeqDef
<1>9. ASSUME NEW v \in page, v \in Changes[kind], Events[kind] # <<>>
      PROVE  k \in Told(v, ToSet(EventsOf(k)))
  <2>1. PICK i \in 1 .. n : Events[kind][i] \in Heeds[v]
    BY <1>7, <1>9
  <2> DEFINE e == [name |-> Events[kind][i], of |-> k]
  <2>2. e \in ToSet(EventsOf(k)) /\ e.name \in Heeds[v] /\ e.of = k
    BY <1>6, <2>1
  <2> QED
    BY <2>2 DEF Told
<1> QED
  BY <1>6, <1>8, <1>9 DEF Told

LEMMA FetchTyped ==
    ASSUME TypeOK, NEW V \in SUBSET page, NEW chain \in BOOLEAN, Fetch(V, chain)
    PROVE  /\ flight' \in [page -> Seq(Requests)]
           /\ \A v \in page : Len(flight'[v]) <= MaxUnderway
           /\ current' \in [page -> BOOLEAN]
<1>1. Request(chain) \in Requests
  <2>1. Len(log) \in Nat
    BY LenProperties DEF TypeOK
  <2>2. Request(chain) = [state |-> IF up THEN "unread" ELSE "error",
                          read |-> 0, chain |-> chain]
    BY DEF Request, Unread, Broken
  <2> QED
    BY <2>1, <2>2 DEF Requests
<1>2. ASSUME NEW v \in page
      PROVE  flight'[v] \in Seq(Requests) /\ Len(flight'[v]) <= MaxUnderway
  <2>1. flight[v] \in Seq(Requests) /\ Len(flight[v]) <= MaxUnderway
    BY DEF TypeOK, Requests
  <2>2. v \in V => Len(flight[v]) + 1 <= MaxUnderway
    BY <2>1, RealtimeAssumption, LenProperties DEF Fetch, Room
  <2> QED
    BY <1>1, <2>1, <2>2, AppendProperties DEF Fetch
<1>3. flight' \in [page -> Seq(Requests)]
  BY <1>2 DEF Fetch
<1>4. current' \in [page -> BOOLEAN]
  BY DEF Fetch, TypeOK
<1> QED
  BY <1>2, <1>3, <1>4

LEMMA Counted ==
    ASSUME TypeOK
    PROVE  /\ Len(log) \in Nat /\ Len(queue) \in Nat
           /\ queue \in Seq(EventSet)
           /\ ToSet(queue) \subseteq EventSet
           /\ flight \in [page -> Seq(Requests)]
           /\ \A v \in page : /\ Len(flight[v]) \in Nat
                              /\ DOMAIN flight[v] = 1 .. Len(flight[v])
                              /\ \A i \in 1 .. Len(flight[v]) : flight[v][i] \in Requests
<1>1. queue \in Seq(EventSet) /\ flight \in [page -> Seq(Requests)]
  BY DEF TypeOK, EventSet, Requests, Names
<1>2. ToSet(queue) \subseteq EventSet
  BY <1>1, Within
<1>3. Len(log) \in Nat /\ Len(queue) \in Nat
  BY <1>1, LenProperties DEF TypeOK
<1> QED
  BY <1>1, <1>2, <1>3, LenProperties, ElementOfSeq

LEMMA LoseTyped ==
    ASSUME TypeOK, NEW E \in SUBSET EventSet, Lose(E)
    PROVE  lost' \in [page -> SUBSET (1 .. Len(log))]
<1>1. \A v \in page : Told(v, E) \subseteq 1 .. Len(log)
  BY DEF Told, EventSet
<1> QED
  BY <1>1 DEF Lose, TypeOK

\* What stays typed while nothing is committed.
LEMMA StepTyped ==
    ASSUME TypeOK, page' = page, log' = log,
           unpublished' \subseteq 1 .. Len(log),
           up' \in BOOLEAN, opened' \in BOOLEAN,
           queue' \in Seq(EventSet), Len(queue') <= QueueMax,
           conn' \in {"closed", "connecting", "subscribed", "open", "failed"},
           conn' \notin {"subscribed", "open"} => queue' = <<>>,
           flight' \in [page -> Seq(Requests)],
           \A v \in page : Len(flight'[v]) <= MaxUnderway,
           current' \in [page -> BOOLEAN],
           shown' \in [page -> 0 .. Len(log)],
           lost' \in [page -> SUBSET (1 .. Len(log))],
           incidents' \in 0 .. MaxIncidents[page]
    PROVE  TypeOK'
  BY DEF TypeOK, EventSet, Requests, Names, Subscribed

LEMMA CommitTyped ==
    ASSUME TypeOK, NEW kind \in Kinds, Commit(kind)
    PROVE  TypeOK'
<1>1. /\ log' \in Seq(Kinds) /\ Len(log') = Len(log) + 1
      /\ Len(log) \in Nat /\ Len(log') <= MaxLog
      /\ page' = page /\ UNCHANGED <<up, stream, stores, incidents>>
  BY Counted, AppendProperties, RealtimeAssumption DEF TypeOK, Commit
<1>2. /\ 1 .. Len(log) \subseteq 1 .. Len(log') /\ Len(log') \in 1 .. Len(log')
      /\ 0 .. Len(log) \subseteq 0 .. Len(log')
  BY <1>1
<1>3. EventSet \subseteq EventSet' /\ Requests \subseteq Requests'
  BY <1>2 DEF EventSet, Requests
<1>4. queue' \in Seq(EventSet') /\ flight' \in [page -> Seq(Requests')]
  BY <1>1, <1>3, Counted, SeqMonotonic DEF stream, stores
<1>5. /\ unpublished' \subseteq 1 .. Len(log')
      /\ lost' \in [page -> SUBSET (1 .. Len(log'))]
  <2>1. /\ unpublished \subseteq 1 .. Len(log)
        /\ lost \in [page -> SUBSET (1 .. Len(log))]
    BY DEF TypeOK
  <2>2. CASE Events[kind] = <<>>
    BY <1>2, <2>1, <2>2 DEF Commit
  <2>3. CASE Events[kind] # <<>>
    BY <1>2, <2>1, <2>3 DEF Commit
  <2> QED
    BY <2>2, <2>3
<1>6. shown' \in [page -> 0 .. Len(log')]
  BY <1>1, <1>2 DEF TypeOK, stores
<1> QED
  BY <1>1, <1>4, <1>5, <1>6
    DEF TypeOK, stream, stores, EventSet, Requests, Names, Subscribed

LEMMA PublishTyped ==
    ASSUME TypeOK, NEW k \in 1 .. MaxLog, Publish(k)
    PROVE  TypeOK'
<1> DEFINE all == queue \o EventsOf(k)
           out == SubSeq(all, 1, Len(all) - Len(Kept(all)))
<1>1. k \in 1 .. Len(log)
  BY DEF Publish, TypeOK
<1>2. /\ EventsOf(k) \in Seq(EventSet)
      /\ all \in Seq(EventSet)
      /\ ToSet(EventsOf(k)) \subseteq EventSet
  BY <1>1, Counted, EventsTyped, Joined, Within
<1>3. /\ Kept(all) \in Seq(EventSet) /\ Len(Kept(all)) <= QueueMax
      /\ out \in Seq(EventSet)
  BY <1>2, KeptParts
<1>4. ToSet(out) \subseteq EventSet
  BY <1>3, Within
<1> HIDE DEF all, out
<1>5. queue' \in Seq(EventSet) /\ Len(queue') <= QueueMax
  BY <1>3, Counted DEF Publish, TypeOK, all
<1>6. lost' \in [page -> SUBSET (1 .. Len(log))]
  <2>1. CASE Subscribed
    <3>1. Lose(ToSet(out))
      BY <2>1 DEF Publish, all, out
    <3> QED
      BY <1>4, <3>1, LoseTyped
  <2>2. CASE ~Subscribed
    <3>1. Lose(ToSet(EventsOf(k))) \/ UNCHANGED lost
      BY <2>2 DEF Publish
    <3> QED
      BY <1>2, <3>1, LoseTyped DEF TypeOK
  <2> QED
    BY <2>1, <2>2
<1>7. /\ page' = page /\ log' = log /\ UNCHANGED <<up, conn, opened, stores, incidents>>
      /\ unpublished' \subseteq 1 .. Len(log)
      /\ ~Subscribed => queue' = queue
  BY DEF Publish, TypeOK
<1> QED
  BY <1>5, <1>6, <1>7, Counted, StepTyped DEF TypeOK, stores, Subscribed

\* An answer read, or a request failed: its entry changes, in its place.
LEMMA Marked ==
    ASSUME TypeOK, NEW v \in page, NEW i \in DOMAIN flight[v], NEW f \in Requests,
           flight' = [flight EXCEPT ![v] = [@ EXCEPT ![i] = f]]
    PROVE  /\ flight' \in [page -> Seq(Requests)]
           /\ \A w \in page : /\ Len(flight'[w]) = Len(flight[w])
                              /\ w # v => flight'[w] = flight[w]
           /\ \A j \in 1 .. Len(flight[v]) :
                 flight'[v][j] = IF j = i THEN f ELSE flight[v][j]
<1>1. i \in 1 .. Len(flight[v]) /\ flight[v] \in Seq(Requests)
  BY Counted
<1> DEFINE s == [flight[v] EXCEPT ![i] = f]
<1>2. /\ s \in Seq(Requests) /\ Len(s) = Len(flight[v])
      /\ \A j \in 1 .. Len(flight[v]) : s[j] = IF j = i THEN f ELSE flight[v][j]
  BY <1>1, ExceptSeq
<1>3. flight' = [flight EXCEPT ![v] = s]
  OBVIOUS
<1> HIDE DEF s
<1> QED
  BY <1>2, <1>3, Counted

LEMMA ReadMarks ==
    ASSUME TypeOK, NEW v \in page, NEW i \in DOMAIN flight[v], Read(v, i)
    PROVE  \E f \in Requests :
              /\ f.state = "read" /\ f.read = Len(log) /\ f.chain = flight[v][i].chain
              /\ flight' = [flight EXCEPT ![v] = [@ EXCEPT ![i] = f]]
<1> DEFINE f == [flight[v][i] EXCEPT !.state = "read", !.read = Len(log)]
<1>1. flight[v][i] \in Requests /\ Len(log) \in 0 .. Len(log)
  BY Counted
<1>2. /\ f \in Requests
      /\ f.state = "read" /\ f.read = Len(log) /\ f.chain = flight[v][i].chain
  BY <1>1 DEF Requests
<1>3. flight' = [flight EXCEPT ![v] = [@ EXCEPT ![i] = f]]
  BY Counted DEF Read
<1> QED
  BY <1>2, <1>3

LEMMA FailMarks ==
    ASSUME TypeOK, NEW v \in page, NEW i \in DOMAIN flight[v], Fail(v, i)
    PROVE  \E f \in Requests :
              /\ f.state = "error" /\ f.chain = flight[v][i].chain
              /\ flight' = [flight EXCEPT ![v] = [@ EXCEPT ![i] = f]]
<1> DEFINE f == [flight[v][i] EXCEPT !.state = "error"]
<1>1. flight[v][i] \in Requests
  BY Counted
<1>2. f \in Requests /\ f.state = "error" /\ f.chain = flight[v][i].chain
  BY <1>1 DEF Requests
<1>3. flight' = [flight EXCEPT ![v] = [@ EXCEPT ![i] = f]]
  BY Counted DEF Fail
<1> QED
  BY <1>2, <1>3

\* A crash fails the requests it finds unread, and leaves them in their places.
LEMMA CrashMarks ==
    ASSUME TypeOK, Crash
    PROVE  /\ flight' \in [page -> Seq(Requests)]
           /\ \A v \in page :
                /\ Len(flight'[v]) = Len(flight[v])
                /\ \A i \in 1 .. Len(flight[v]) :
                     /\ flight'[v][i].chain = flight[v][i].chain
                     /\ flight'[v][i].read = flight[v][i].read
                     /\ flight'[v][i].state = "read" <=> flight[v][i].state = "read"
<1>1. ASSUME NEW f \in Requests
      PROVE  /\ Broken(f) \in Requests
             /\ Broken(f).chain = f.chain /\ Broken(f).read = f.read
             /\ Broken(f).state = "read" <=> f.state = "read"
  BY DEF Broken, Requests
<1>2. ASSUME NEW v \in page
      PROVE  /\ flight'[v] \in Seq(Requests)
             /\ Len(flight'[v]) = Len(flight[v])
             /\ \A i \in 1 .. Len(flight[v]) : flight'[v][i] = Broken(flight[v][i])
  <2>1. flight'[v] = [i \in 1 .. Len(flight[v]) |-> Broken(flight[v][i])]
    BY Counted DEF Crash
  <2>2. /\ flight'[v] \in [1 .. Len(flight[v]) -> Requests]
        /\ \A i \in 1 .. Len(flight[v]) : flight'[v][i] = Broken(flight[v][i])
    BY <1>1, <2>1, Counted
  <2>3. flight'[v] \in Seq(Requests)
    <3>1. Len(flight[v]) \in Nat
      BY Counted
    <3> QED
      BY <2>2, <3>1, SeqDef
  <2>4. DOMAIN flight'[v] = 1 .. Len(flight'[v]) /\ DOMAIN flight'[v] = 1 .. Len(flight[v])
    BY <2>2, <2>3, LenProperties
  <2> QED
    BY <2>2, <2>3, <2>4, Counted, LenProperties
<1>3. flight' \in [page -> Seq(Requests)]
  BY <1>2 DEF Crash
<1> QED
  BY <1>1, <1>2, <1>3, Counted

\* An answer or a failure takes its request out.
Rest(v, i) == [flight EXCEPT ![v] = RemoveAt(@, i)]

LEMMA TakenOut ==
    ASSUME TypeOK, NEW v \in page, NEW i \in DOMAIN flight[v]
    PROVE  /\ Rest(v, i) \in [page -> Seq(Requests)]
           /\ Len(Rest(v, i)[v]) = Len(flight[v]) - 1
           /\ \A w \in page : w # v => Rest(v, i)[w] = flight[w]
           /\ \A w \in page : Len(Rest(v, i)[w]) <= MaxUnderway
           /\ \A j \in 1 .. Len(flight[v]) - 1 :
                Rest(v, i)[v][j] = IF j < i THEN flight[v][j] ELSE flight[v][j + 1]
<1>1. flight[v] \in Seq(Requests) /\ i \in 1 .. Len(flight[v])
  BY Counted
<1> DEFINE s == RemoveAt(flight[v], i)
<1>2. /\ s \in Seq(Requests) /\ Len(s) = Len(flight[v]) - 1
      /\ \A j \in 1 .. Len(flight[v]) - 1 :
           s[j] = IF j < i THEN flight[v][j] ELSE flight[v][j + 1]
  BY <1>1, Removed
<1>3. Rest(v, i) = [flight EXCEPT ![v] = s]
  BY DEF Rest
<1> HIDE DEF s
<1>4. /\ MaxUnderway \in Nat
      /\ \A w \in page : Len(flight[w]) \in Nat /\ Len(flight[w]) <= MaxUnderway
  BY Counted, RealtimeAssumption DEF TypeOK
<1>5. /\ Rest(v, i) \in [page -> Seq(Requests)]
      /\ Rest(v, i)[v] = s
      /\ \A w \in page : w # v => Rest(v, i)[w] = flight[w]
  BY <1>2, <1>3, Counted
<1> QED
  BY <1>2, <1>4, <1>5

LEMMA RequestMade ==
    ASSUME TypeOK, NEW chain \in BOOLEAN
    PROVE  /\ Request(chain) \in Requests /\ Request(chain).state # "read"
           /\ Request(chain).chain = chain
<1>1. Len(log) \in Nat
  BY Counted
<1>2. Request(chain) = [state |-> IF up THEN "unread" ELSE "error",
                        read |-> 0, chain |-> chain]
  BY DEF Request, Unread, Broken
<1> QED
  BY <1>1, <1>2 DEF Requests

\* The list of the shop may put a request for its statistics in.
More(v, i) == v = "shop" /\ flight[v][i].chain
Still(v, i) == [current EXCEPT ![v] = @ /\ ~Newest(v, i)]

LEMMA StillCurrent ==
    ASSUME TypeOK, NEW v \in page, NEW i
    PROVE  /\ Still(v, i) \in [page -> BOOLEAN]
           /\ \A w \in page : Still(v, i)[w] <=> (current[w] /\ ~(w = v /\ Newest(v, i)))
<1>1. current \in [page -> BOOLEAN] /\ Newest(v, i) \in BOOLEAN
  BY DEF TypeOK, Newest
<1> QED
  BY <1>1 DEF Still

LEMMA AnsweredEffect ==
    ASSUME TypeOK, NEW v \in page, NEW i \in DOMAIN flight[v], Answered(v, i)
    PROVE  /\ flight' \in [page -> Seq(Requests)]
           /\ current' \in [page -> BOOLEAN]
           /\ \A w \in page : Len(flight'[w]) <= MaxUnderway
           /\ \A w \in page :
                \/ /\ More(v, i) /\ w = "stats"
                   /\ flight'[w] = Append(flight[w], Request(FALSE))
                   /\ current'[w]
                \/ /\ ~(More(v, i) /\ w = "stats")
                   /\ flight'[w] = Rest(v, i)[w]
                   /\ current'[w] <=> (current[w] /\ ~(w = v /\ Newest(v, i)))
<1>1. CASE More(v, i)
  <2>1. /\ flight' = [Rest(v, i) EXCEPT !["stats"] = Append(@, Request(FALSE))]
        /\ current' = [Still(v, i) EXCEPT !["stats"] = TRUE]
        /\ Room("stats")
    BY <1>1 DEF Answered, More, Rest, Still
  <2>2. v # "stats"
    BY <1>1 DEF More
  <2>3. ASSUME "stats" \in page
        PROVE  /\ Append(flight["stats"], Request(FALSE)) \in Seq(Requests)
               /\ Rest(v, i)["stats"] = flight["stats"]
               /\ Len(Append(flight["stats"], Request(FALSE))) <= MaxUnderway
    <3>1. Rest(v, i)["stats"] = flight["stats"]
      BY <2>2, <2>3, TakenOut
    <3>2. Len(flight["stats"]) + 1 <= MaxUnderway
      BY <2>1, <2>3, Counted, RealtimeAssumption DEF Room
    <3>3. flight["stats"] \in Seq(Requests) /\ Request(FALSE) \in Requests
      BY <2>3, Counted, RequestMade
    <3>4. /\ Append(flight["stats"], Request(FALSE)) \in Seq(Requests)
          /\ Len(Append(flight["stats"], Request(FALSE))) = Len(flight["stats"]) + 1
      BY <3>3, AppendProperties
    <3> QED
      BY <3>1, <3>2, <3>4
  <2>4. flight' \in [page -> Seq(Requests)] /\ current' \in [page -> BOOLEAN]
    <3>1. Rest(v, i) \in [page -> Seq(Requests)] /\ Still(v, i) \in [page -> BOOLEAN]
      BY TakenOut, StillCurrent
    <3>2. "stats" \in page => Append(Rest(v, i)["stats"], Request(FALSE)) \in Seq(Requests)
      BY <2>3
    <3> QED
      BY <2>1, <3>1, <3>2
  <2>5. ASSUME NEW w \in page
        PROVE  /\ w = "stats" => /\ flight'[w] = Append(flight[w], Request(FALSE))
                                 /\ current'[w]
               /\ w # "stats" => /\ flight'[w] = Rest(v, i)[w]
                                 /\ current'[w] = Still(v, i)[w]
    BY <2>1, <2>3, TakenOut, StillCurrent
  <2>6. \A w \in page : Len(flight'[w]) <= MaxUnderway
    BY <2>3, <2>5, TakenOut
  <2> QED
    BY <1>1, <2>4, <2>5, <2>6, StillCurrent
<1>2. CASE ~More(v, i)
  <2>1. flight' = Rest(v, i) /\ current' = Still(v, i)
    BY <1>2 DEF Answered, More, Rest, Still
  <2> QED
    BY <1>2, <2>1, TakenOut, StillCurrent
<1> QED
  BY <1>1, <1>2

-----------------------------------------------------------------------------
(***************************************************************************)
(* Type correctness.                                                       *)
(***************************************************************************)
LEMMA TypeInit == Init => TypeOK
<1> SUFFICES ASSUME Init PROVE TypeOK
  OBVIOUS
<1>1. log = <<>> /\ queue = <<>> /\ Len(<<>>) = 0
  BY DEF Init
<1>2. /\ log \in Seq(Kinds)
      /\ queue \in Seq([name : UNION {ToSet(Events[k]) : k \in Kinds}, of : 1 .. Len(log)])
  BY <1>1, EmptySeq
<1> DEFINE Req == [state : {"unread", "read", "error"}, read : 0 .. Len(log), chain : BOOLEAN]
<1>3. Unread(FALSE) \in Req
  BY <1>1 DEF Unread
<1>4. <<Unread(FALSE)>> \in Seq(Req) /\ Len(<<Unread(FALSE)>>) = 1
  <2>1. <<Unread(FALSE)>> = Append(<<>>, Unread(FALSE))
    OBVIOUS
  <2> HIDE DEF Req
  <2>2. <<>> \in Seq(Req) /\ Len(<<>>) = 0
    BY EmptySeq
  <2> QED
    BY <1>3, <2>1, <2>2, AppendProperties
<1> HIDE DEF Req
<1>5. /\ flight \in [page -> Seq(Req)]
      /\ \A v \in page : Len(flight[v]) = 1
  BY <1>4 DEF Init
<1>6. /\ page \in Pages /\ MaxIncidents[page] \in Nat
      /\ 1 <= QueueMax /\ QueueMax \in Nat /\ 1 <= MaxUnderway /\ MaxLog \in Nat
  BY RealtimeAssumption DEF Init
<1>7. /\ unpublished \subseteq 1 .. Len(log) /\ up \in BOOLEAN /\ opened \in BOOLEAN
      /\ conn = "connecting"
      /\ current \in [page -> BOOLEAN]
      /\ shown \in [page -> 0 .. Len(log)]
      /\ lost \in [page -> SUBSET (1 .. Len(log))]
      /\ incidents \in 0 .. MaxIncidents[page]
  <2>1. Len(log) = 0 /\ 0 \in 0 .. Len(log)
    BY <1>1
  <2>2. shown = [v \in page |-> 0] /\ lost = [v \in page |-> {}] /\ incidents = 0
    BY DEF Init
  <2>3. incidents \in 0 .. MaxIncidents[page]
    BY <1>6, <2>2
  <2>4. shown \in [page -> 0 .. Len(log)] /\ lost \in [page -> SUBSET (1 .. Len(log))]
    BY <2>1, <2>2
  <2> QED
    BY <2>3, <2>4 DEF Init
<1>8. /\ Len(log) = 0 /\ Len(queue) = 0
      /\ \A v \in page : Len(flight[v]) <= MaxUnderway
  BY <1>1, <1>5, <1>6
<1> QED
  BY <1>1, <1>2, <1>5, <1>6, <1>7, <1>8 DEF TypeOK, Req

LEMMA BreakTyped ==
    ASSUME TypeOK, NEW E \in SUBSET EventSet, Break(E)
    PROVE  /\ page' = page /\ log' = log /\ shown' = shown /\ current' = current
           /\ queue' = <<>> /\ queue' \in Seq(EventSet) /\ Len(queue') <= QueueMax
           /\ incidents' \in 0 .. MaxIncidents[page]
           /\ lost' \in [page -> SUBSET (1 .. Len(log))]
<1>1. MaxIncidents[page] \in Nat /\ QueueMax \in Nat
  BY RealtimeAssumption DEF TypeOK
<1>2. Lose(E) \/ UNCHANGED lost
  BY DEF Break
<1>3. lost' \in [page -> SUBSET (1 .. Len(log))]
  BY <1>2, LoseTyped DEF TypeOK
<1>4. incidents' \in 0 .. MaxIncidents[page]
  BY <1>1 DEF TypeOK, Break, Incident
<1> QED
  BY <1>1, <1>3, <1>4, EmptySeq DEF Break

LEMMA IncidentTyped ==
    ASSUME TypeOK, Incident
    PROVE  incidents' \in 0 .. MaxIncidents[page]
  BY RealtimeAssumption DEF TypeOK, Incident

LEMMA StreamTyped ==
    ASSUME TypeOK, Crash \/ Cut \/ Logout \/ Subscribe \/ Refused \/ Restart
    PROVE  TypeOK'
<1>1. /\ flight \in [page -> Seq(Requests)] /\ queue \in Seq(EventSet)
      /\ ToSet(queue) \in SUBSET EventSet
  BY Counted
<1>2. CASE Crash
  <2> DEFINE E == ToSet(queue) \cup UNION {ToSet(EventsOf(k)) : k \in unpublished}
  <2>1. \A k \in unpublished : ToSet(EventsOf(k)) \subseteq EventSet
    BY EventsTyped, Within DEF TypeOK
  <2>2. E \in SUBSET EventSet
    BY <1>1, <2>1
  <2> HIDE DEF E
  <2>3. Break(E) /\ UNCHANGED opened /\ up' = FALSE /\ unpublished' = {}
        /\ conn' \in {conn, "connecting"}
    BY <1>2 DEF Crash, E
  <2> QED
    BY <1>2, <2>2, <2>3, BreakTyped, CrashMarks, StepTyped DEF TypeOK
<1>3. CASE Cut
  BY <1>1, <1>3, BreakTyped, StepTyped DEF Cut, TypeOK
<1>4. CASE Logout
  BY <1>1, <1>4, BreakTyped, StepTyped DEF Logout, TypeOK
<1>5. CASE Subscribe
  BY <1>1, <1>5, StepTyped DEF Subscribe, TypeOK, backend, stores
<1>6. CASE Refused
  BY <1>1, <1>6, StepTyped DEF Refused, TypeOK, Subscribed, backend, stores
<1>7. CASE Restart
  BY <1>1, <1>7, StepTyped DEF Restart, TypeOK, stream, stores, Subscribed
<1> QED
  BY <1>2, <1>3, <1>4, <1>5, <1>6, <1>7

LEMMA FetchingTyped ==
    ASSUME TypeOK, Open \/ Deliver \/ Login \/ \E v \in page : Ask(v)
    PROVE  TypeOK'
<1>1. /\ flight \in [page -> Seq(Requests)] /\ queue \in Seq(EventSet)
      /\ current \in [page -> BOOLEAN]
  BY Counted DEF TypeOK
<1>2. CASE Open
  <2>1. \/ Fetch(page, FALSE)
        \/ UNCHANGED <<flight, current>>
    BY <1>2 DEF Open, OnReconnect
  <2>2. /\ flight' \in [page -> Seq(Requests)] /\ current' \in [page -> BOOLEAN]
        /\ \A v \in page : Len(flight'[v]) <= MaxUnderway
    BY <1>1, <2>1, FetchTyped DEF TypeOK
  <2> QED
    BY <1>1, <1>2, <2>2, StepTyped DEF Open, TypeOK, backend
<1>3. CASE Deliver
  <2>1. /\ flight' \in [page -> Seq(Requests)] /\ current' \in [page -> BOOLEAN]
        /\ \A v \in page : Len(flight'[v]) <= MaxUnderway
    BY <1>3, FetchTyped DEF Deliver
  <2>2. queue' \in Seq(EventSet) /\ Len(queue') <= QueueMax
    <3>1. queue # <<>> /\ queue' = Tail(queue)
      BY <1>3 DEF Deliver
    <3>2. QueueMax \in Nat /\ Len(queue) \in Nat /\ Len(queue) <= QueueMax
      BY Counted, RealtimeAssumption DEF TypeOK
    <3> QED
      BY <1>1, <3>1, <3>2, Headed
  <2> QED
    BY <1>1, <1>3, <2>1, <2>2, StepTyped DEF Deliver, TypeOK, backend
<1>4. CASE Login
  <2>1. /\ flight' \in [page -> Seq(Requests)] /\ current' \in [page -> BOOLEAN]
        /\ \A v \in page : Len(flight'[v]) <= MaxUnderway
    BY <1>4, FetchTyped DEF Login
  <2> QED
    BY <1>1, <1>4, <2>1, StepTyped DEF Login, TypeOK, Subscribed, backend
<1>5. ASSUME NEW v \in page, Ask(v) PROVE TypeOK'
  <2>1. /\ flight' \in [page -> Seq(Requests)] /\ current' \in [page -> BOOLEAN]
        /\ \A w \in page : Len(flight'[w]) <= MaxUnderway
    BY <1>5, FetchTyped DEF Ask
  <2>2. incidents' \in 0 .. MaxIncidents[page]
    BY <1>5, IncidentTyped DEF Ask
  <2> QED
    BY <1>1, <1>5, <2>1, <2>2, StepTyped DEF Ask, TypeOK, Subscribed, backend, stream
<1> QED
  BY <1>2, <1>3, <1>4, <1>5

LEMMA ServedTyped ==
    ASSUME TypeOK, NEW v \in page, NEW i \in DOMAIN flight[v],
           Read(v, i) \/ Answered(v, i) \/ Failed(v, i) \/ Fail(v, i)
    PROVE  TypeOK'
<1>1. /\ queue \in Seq(EventSet) /\ current \in [page -> BOOLEAN]
      /\ flight[v][i] \in Requests
  BY Counted DEF TypeOK
<1>2. ASSUME NEW f \in Requests, flight' = [flight EXCEPT ![v] = [@ EXCEPT ![i] = f]]
      PROVE  /\ flight' \in [page -> Seq(Requests)]
             /\ \A w \in page : Len(flight'[w]) <= MaxUnderway
  BY <1>2, Marked DEF TypeOK
<1>3. CASE Read(v, i)
  <2>1. /\ flight' \in [page -> Seq(Requests)]
        /\ \A w \in page : Len(flight'[w]) <= MaxUnderway
    BY <1>2, <1>3, ReadMarks
  <2> QED
    BY <1>1, <1>3, <2>1, StepTyped DEF Read, TypeOK, Subscribed, backend, stream
<1>4. CASE Fail(v, i)
  <2>1. /\ flight' \in [page -> Seq(Requests)]
        /\ \A w \in page : Len(flight'[w]) <= MaxUnderway
    BY <1>2, <1>4, FailMarks
  <2>2. incidents' \in 0 .. MaxIncidents[page]
    BY <1>4, IncidentTyped DEF Fail
  <2> QED
    BY <1>1, <1>4, <2>1, <2>2, StepTyped
      DEF Fail, TypeOK, Subscribed, backend, stream
<1>5. CASE Answered(v, i)
  <2>1. shown' \in [page -> 0 .. Len(log)]
    BY <1>1, <1>5 DEF Answered, TypeOK, Requests
  <2> QED
    BY <1>1, <1>5, <2>1, AnsweredEffect, StepTyped
      DEF Answered, TypeOK, Subscribed, backend, stream
<1>6. CASE Failed(v, i)
  <2>1. /\ flight' = Rest(v, i) /\ current' = Still(v, i)
    BY <1>6 DEF Failed, Rest, Still
  <2>2. lost' \in [page -> SUBSET (1 .. Len(log))]
    <3>1. \A w \in page : Heard(w) \subseteq 1 .. Len(log)
      BY DEF Heard
    <3> QED
      BY <1>6, <3>1 DEF Failed, TypeOK
  <2>3. /\ flight' \in [page -> Seq(Requests)] /\ current' \in [page -> BOOLEAN]
        /\ \A w \in page : Len(flight'[w]) <= MaxUnderway
    BY <2>1, TakenOut, StillCurrent
  <2> QED
    BY <1>1, <1>6, <2>2, <2>3, StepTyped
      DEF Failed, TypeOK, Subscribed, backend, stream
<1> QED
  BY <1>3, <1>4, <1>5, <1>6

LEMMA TypeNext == TypeOK /\ [Next]_vars => TypeOK'
<1> SUFFICES ASSUME TypeOK, [Next]_vars PROVE TypeOK'
  OBVIOUS
<1>1. CASE UNCHANGED vars
  BY <1>1 DEF TypeOK, Subscribed, vars, backend, stream, stores
<1> QED
  BY <1>1, CommitTyped, PublishTyped, StreamTyped, FetchingTyped, ServedTyped
    DEF Next, Backend, Browser, Served

\* Whatever is lost or overlaps, queues and requests stay within their bounds,
\* and nothing ever speaks of a transaction that has not been committed.
THEOREM TypeCorrect == Spec => []TypeOK
  BY TypeInit, TypeNext, PTL DEF Spec

-----------------------------------------------------------------------------
(***************************************************************************)
(* What a step does to a guarded view.  Its newest request is replaced by  *)
(* a newer one, or stays the newest and may be read or fail, or is         *)
(* answered and shown, or fails and is given up.                           *)
(***************************************************************************)
Latest(v) == flight[v][Len(flight[v])]
Awaited(v) == current[v] /\ Len(flight[v]) > 0

Renewed(v) ==
    /\ Awaited(v)' /\ Latest(v)'.state # "read"
    /\ shown'[v] = shown[v]

Awaiting(v) ==
    /\ current'[v] <=> current[v]
    /\ shown'[v] = shown[v]
    /\ Awaited(v) =>
          /\ Len(flight'[v]) > 0
          /\ Latest(v)'.state = "read" =>
                \/ Latest(v)'.read = Len(log)
                \/ Latest(v).state = "read" /\ Latest(v)'.read = Latest(v).read

Settled(v) ==
    /\ ~current'[v]
    /\ Awaited(v) /\ Latest(v).state = "read"
    /\ shown'[v] = Latest(v).read

\* What it had heard of counts as lost unless a refetch is to come.
Recorded(v) ==
    /\ UNCHANGED <<page, backend, stream>>
    /\ NoRefetchAhead => lost'[v] = lost[v] \cup Heard(v)

GivenUp(v) ==
    /\ ~current'[v]
    /\ shown'[v] = shown[v]
    /\ Recorded(v)

ViewStep(v) == Renewed(v) \/ Awaiting(v) \/ Settled(v) \/ GivenUp(v)

LEMMA ViewUndisturbed ==
    ASSUME NEW v, flight'[v] = flight[v], current'[v] = current[v], shown'[v] = shown[v]
    PROVE  Awaiting(v)
  BY DEF Awaiting, Awaited, Latest

LEMMA ViewFetched ==
    ASSUME TypeOK, NEW V \in SUBSET page, NEW chain \in BOOLEAN, Fetch(V, chain),
           shown' = shown, NEW v \in page
    PROVE  /\ v \in V => Renewed(v)
           /\ v \notin V => flight'[v] = flight[v] /\ Awaiting(v)
<1>1. ASSUME v \in V PROVE Renewed(v)
  <2>1. /\ flight'[v] = Append(flight[v], Request(chain)) /\ current'[v]
        /\ flight[v] \in Seq(Requests)
    BY <1>1, Counted DEF Fetch
  <2>2. /\ Len(flight'[v]) = Len(flight[v]) + 1 /\ Len(flight[v]) \in Nat
        /\ flight'[v][Len(flight[v]) + 1] = Request(chain)
    BY <2>1, RequestMade, AppendProperties, Counted
  <2> QED
    BY <2>1, <2>2, RequestMade DEF Renewed, Awaited, Latest
<1>2. ASSUME v \notin V PROVE flight'[v] = flight[v] /\ Awaiting(v)
  <2>1. flight'[v] = flight[v] /\ current'[v] = current[v]
    BY <1>2 DEF Fetch, TypeOK
  <2> QED
    BY <2>1, ViewUndisturbed
<1> QED
  BY <1>1, <1>2

LEMMA StatsAskedFor ==
    ASSUME TypeOK, NEW w \in page, NEW i \in DOMAIN flight[w], Answered(w, i),
           More(w, i), "stats" \in page
    PROVE  Renewed("stats")
<1> DEFINE v == "stats"
           e == Request(FALSE)
<1>1. /\ flight'[v] = Append(flight[v], e) /\ current'[v]
      /\ flight[v] \in Seq(Requests) /\ Len(flight[v]) \in Nat
  BY AnsweredEffect, Counted
<1>2. shown'[v] = shown[v]
  BY DEF Answered, More, TypeOK
<1>3. e \in Requests /\ e.state # "read"
  BY RequestMade
<1> HIDE DEF e
<1>4. /\ Len(flight'[v]) = Len(flight[v]) + 1
      /\ flight'[v][Len(flight[v]) + 1] = e
  BY <1>1, <1>3, AppendProperties
<1>5. Len(flight[v]) + 1 > 0
  BY <1>1
<1> QED
  BY <1>1, <1>2, <1>3, <1>4, <1>5 DEF Renewed, Awaited, Latest

\* An entry that is not the newest goes, or becomes something else, and leaves
\* the newest as it is.
LEMMA ViewServed ==
    ASSUME TypeOK, NEW w \in page, NEW i \in DOMAIN flight[w],
           Read(w, i) \/ Answered(w, i) \/ Failed(w, i) \/ Fail(w, i),
           NEW v \in page \ {"orders"}
    PROVE  ViewStep(v)
<1>0. Len(flight[v]) \in Nat /\ i \in 1 .. Len(flight[w]) /\ Len(flight[w]) \in Nat
  BY Counted
<1>1. ASSUME NEW f \in Requests, flight' = [flight EXCEPT ![w] = [@ EXCEPT ![i] = f]],
             f.state = "read" => f.read = Len(log),
             current' = current, shown' = shown
      PROVE  Awaiting(v)
  <2>1. CASE v # w
    BY <1>1, <2>1, Marked, ViewUndisturbed
  <2>2. CASE v = w
    <3>1. /\ Len(flight'[v]) = Len(flight[v])
          /\ Len(flight[v]) > 0
          /\ Latest(v)' = f \/ Latest(v)' = Latest(v)
      BY <1>0, <1>1, <2>2, Marked DEF Latest
    <3> QED
      BY <1>1, <3>1 DEF Awaiting, Awaited
  <2> QED
    BY <2>1, <2>2
<1>2. CASE Read(w, i)
  <2>1. PICK f \in Requests :
          /\ f.state = "read" /\ f.read = Len(log)
          /\ flight' = [flight EXCEPT ![w] = [@ EXCEPT ![i] = f]]
    BY <1>2, ReadMarks
  <2> QED
    BY <1>1, <1>2, <2>1 DEF Read, ViewStep
<1>3. CASE Fail(w, i)
  <2>1. PICK f \in Requests :
          /\ f.state = "error"
          /\ flight' = [flight EXCEPT ![w] = [@ EXCEPT ![i] = f]]
    BY <1>3, FailMarks
  <2> QED
    BY <1>1, <1>3, <2>1 DEF Fail, ViewStep
<1>4. ASSUME v = w, ~Newest(w, i), flight'[v] = Rest(w, i)[v],
             current'[v] <=> current[v], shown'[v] = shown[v]
      PROVE  Awaiting(v)
  <2> SUFFICES ASSUME Awaited(v)
               PROVE  Len(flight'[v]) > 0 /\ Latest(v)' = Latest(v)
    BY <1>4 DEF Awaiting
  <2>1. i < Len(flight[v]) /\ Len(flight[v]) - 1 \in 1 .. Len(flight[v]) - 1
    BY <1>0, <1>4 DEF Newest, Awaited
  <2>2. /\ Len(flight'[v]) = Len(flight[v]) - 1
        /\ flight'[v][Len(flight[v]) - 1] =
              IF Len(flight[v]) - 1 < i THEN flight[v][Len(flight[v]) - 1]
              ELSE flight[v][(Len(flight[v]) - 1) + 1]
    <3>1. /\ Len(Rest(w, i)[w]) = Len(flight[w]) - 1
          /\ \A j \in 1 .. Len(flight[w]) - 1 :
               Rest(w, i)[w][j] = IF j < i THEN flight[w][j] ELSE flight[w][j + 1]
      BY TakenOut
    <3> QED
      BY <1>4, <2>1, <3>1
  <2>3. ~(Len(flight[v]) - 1 < i) /\ (Len(flight[v]) - 1) + 1 = Len(flight[v])
    BY <1>0, <2>1
  <2> QED
    BY <2>1, <2>2, <2>3 DEF Latest
<1>5. CASE Answered(w, i)
  <2>1. CASE More(w, i) /\ v = "stats"
    BY <1>5, <2>1, StatsAskedFor DEF ViewStep
  <2>2. ASSUME ~(More(w, i) /\ v = "stats")
        PROVE  /\ flight'[v] = Rest(w, i)[v]
               /\ current'[v] <=> (current[v] /\ ~(v = w /\ Newest(w, i)))
    BY <1>5, <2>2, AnsweredEffect
  <2>3. CASE ~(More(w, i) /\ v = "stats") /\ v # w
    <3>1. flight'[v] = flight[v] /\ shown'[v] = shown[v]
      BY <1>5, <2>2, <2>3, TakenOut DEF Answered, TypeOK
    <3>2. current'[v] = current[v]
      <4>1. TypeOK => current[v] \in BOOLEAN
        BY DEF TypeOK
      <4>2. current' \in [page -> BOOLEAN]
        BY <1>5, AnsweredEffect
      <4> QED
        BY <2>2, <2>3, <4>1, <4>2
    <3> QED
      BY <3>1, <3>2, ViewUndisturbed DEF ViewStep
  <2>4. CASE v = w /\ Newest(w, i)
    <3>1. /\ ~(More(w, i) /\ v = "stats")
          /\ Accepted(w, i) /\ flight[v][i].state = "read"
          /\ shown'[v] = flight[v][i].read
      BY <1>5, <2>4 DEF Answered, More, Accepted, TypeOK
    <3> QED
      BY <1>0, <2>2, <2>4, <3>1 DEF Settled, Awaited, Latest, Newest, ViewStep
  <2>5. CASE v = w /\ ~Newest(w, i)
    <3>1. ~(More(w, i) /\ v = "stats") /\ shown' = shown
      BY <1>5, <2>5 DEF Answered, More, Accepted
    <3> QED
      BY <1>4, <2>2, <2>5, <3>1 DEF ViewStep
  <2> QED
    BY <2>1, <2>3, <2>4, <2>5
<1>6. CASE Failed(w, i)
  <2>1. /\ flight' = Rest(w, i) /\ current' = Still(w, i) /\ shown' = shown
    BY <1>6 DEF Failed, Rest, Still
  <2>2. CASE v # w
    <3>1. flight'[v] = flight[v] /\ current'[v] = current[v]
      BY <2>1, <2>2, TakenOut DEF Still, TypeOK
    <3> QED
      BY <2>1, <3>1, ViewUndisturbed DEF ViewStep
  <2>3. CASE v = w /\ ~Newest(w, i)
    <3>1. current'[v] <=> current[v]
      BY <2>1, <2>3, StillCurrent
    <3> QED
      BY <1>4, <2>1, <2>3, <3>1 DEF ViewStep
  <2>4. CASE v = w /\ Newest(w, i)
    <3>1. ~current'[v]
      BY <2>1, <2>4, StillCurrent
    <3>2. lost'[v] = IF NoRefetchAhead THEN lost[v] \cup Heard(v) ELSE lost[v]
      BY <1>6, <2>4 DEF Failed
    <3>3. UNCHANGED <<page, backend, stream>>
      BY <1>6 DEF Failed
    <3> QED
      BY <2>1, <3>1, <3>2, <3>3 DEF GivenUp, Recorded, ViewStep
  <2> QED
    BY <2>2, <2>3, <2>4
<1> QED
  BY <1>2, <1>3, <1>5, <1>6

LEMMA CrashWaits ==
    ASSUME TypeOK, Crash, NEW v \in page
    PROVE  Awaiting(v)
<1>1. /\ Len(flight'[v]) = Len(flight[v])
      /\ \A i \in 1 .. Len(flight[v]) :
           /\ flight'[v][i].read = flight[v][i].read
           /\ flight'[v][i].state = "read" <=> flight[v][i].state = "read"
  BY CrashMarks
<1>2. shown' = shown /\ current' = current
  BY DEF Crash, Break
<1>3. Len(flight[v]) > 0 => Len(flight[v]) \in 1 .. Len(flight[v])
  BY Counted
<1> QED
  BY <1>1, <1>2, <1>3 DEF Awaiting, Awaited, Latest

Fetching == Open \/ Deliver \/ Login \/ \E v \in page : Ask(v)

\* Who fetches what; shown by the kinds of steps.
LEMMA FetchingSets ==
    ASSUME TypeOK, Fetching
    PROVE  /\ shown' = shown
           /\ \E V \in SUBSET page, chain \in BOOLEAN :
                 Fetch(V, chain) \/ UNCHANGED <<flight, current>>
  BY DEF Fetching, Open, OnReconnect, Deliver, Login, Ask

LEMMA ViewNext ==
    ASSUME TypeOK, [Next]_vars, NEW v \in page \ {"orders"}
    PROVE  ViewStep(v)
<1>1. ASSUME UNCHANGED stores PROVE ViewStep(v)
  BY <1>1, ViewUndisturbed DEF stores, ViewStep
<1>2. CASE UNCHANGED vars \/ \E kind \in Kinds : Commit(kind)
  BY <1>1, <1>2 DEF vars, Commit
<1>3. CASE Backend \/ Subscribe \/ Refused \/ Cut \/ Logout
  BY <1>1, <1>3 DEF Backend, Publish, Restart, Subscribe, Refused, Cut, Logout,
     Break, stores
<1>4. CASE Crash
  BY <1>4, CrashWaits DEF ViewStep
<1>5. CASE Fetching
  BY <1>5, FetchingSets, ViewFetched, ViewUndisturbed DEF ViewStep
<1>6. CASE \E w \in page : Served(w) \/ \E i \in DOMAIN flight[w] : Fail(w, i)
  BY <1>6, ViewServed DEF Served
<1> QED
  BY <1>2, <1>3, <1>4, <1>5, <1>6 DEF Next, Browser, Fetching

-----------------------------------------------------------------------------
(***************************************************************************)
(* No older data.  An answer of the newest request was read after whatever *)
(* is shown, since what is shown was the newest before it.                 *)
(***************************************************************************)
AnswersAhead ==
    \A v \in page \ {"orders"} : current[v] =>
        /\ Len(flight[v]) > 0
        /\ Latest(v).state = "read" => shown[v] <= Latest(v).read

LEMMA AheadNext ==
    ASSUME TypeOK, AnswersAhead, [Next]_vars
    PROVE  /\ AnswersAhead'
           /\ \A v \in page \ {"orders"} : shown'[v] >= shown[v]
<1>1. page' = page
  BY DEF Next, vars, Commit, Backend, Publish, Restart, Browser, Subscribe, Refused,
     Open, Deliver, Served, Read, Answered, Failed, Crash, Cut, Logout, Break, Login,
     Ask, Fail
<1>2. ASSUME NEW v \in page \ {"orders"}
      PROVE  /\ current'[v] => /\ Len(flight'[v]) > 0
                               /\ Latest(v)'.state = "read" => shown'[v] <= Latest(v)'.read
             /\ shown'[v] >= shown[v]
  <2>1. shown[v] \in Nat /\ shown[v] <= Len(log) /\ Len(log) \in Nat
    BY Counted DEF TypeOK
  <2>2. current[v] =>
          /\ Len(flight[v]) > 0
          /\ Latest(v).state = "read" => shown[v] <= Latest(v).read
    BY DEF AnswersAhead
  <2>3. Awaited(v) => Latest(v).read \in Nat
    <3>1. Len(flight[v]) > 0 => Latest(v) \in Requests
      BY Counted DEF Latest
    <3> QED
      BY <3>1 DEF Awaited, Requests
  <2>4. CASE Renewed(v)
    BY <2>1, <2>4 DEF Renewed, Awaited
  <2>5. CASE Awaiting(v)
    BY <2>1, <2>2, <2>5 DEF Awaiting, Awaited
  <2>6. CASE Settled(v)
    BY <2>1, <2>2, <2>3, <2>6 DEF Settled, Awaited
  <2>7. CASE GivenUp(v)
    BY <2>1, <2>7 DEF GivenUp
  <2> QED
    BY <2>4, <2>5, <2>6, <2>7, ViewNext DEF ViewStep
<1> QED
  BY <1>1, <1>2 DEF AnswersAhead

LEMMA AheadInit == Init => AnswersAhead
<1> SUFFICES ASSUME Init, NEW v \in page PROVE Len(flight[v]) > 0 /\ Latest(v).state # "read"
  BY DEF AnswersAhead
<1>1. flight[v] = <<Unread(FALSE)>>
  BY DEF Init
<1> QED
  BY <1>1 DEF Latest, Unread

\* However requests overlap, fail and are answered out of order, a view with
\* the sequence guard never goes back to older data.
THEOREM NoOlderData == Spec => NeverBackwards
<1>1. TypeOK /\ AnswersAhead /\ [Next]_vars
        => [\A v \in page \ {"orders"} : shown'[v] >= shown[v]]_vars
  BY AheadNext
<1>2. TypeOK /\ AnswersAhead /\ [Next]_vars => AnswersAhead'
  BY AheadNext
<1> QED
  BY <1>1, <1>2, AheadInit, TypeCorrect, PTL DEF Spec, NeverBackwards

-----------------------------------------------------------------------------
(***************************************************************************)
(* Nothing is forgotten: a change a view does not show is lost for good, or*)
(* announced and not yet delivered, or asked for by a request whose answer *)
(* will hold it, or by one that follows the list of the shop, or by the    *)
(* refetch that is to come.                                                *)
(***************************************************************************)
Announced(v, k) == k \in unpublished \cup Told(v, ToSet(queue))

RefetchAhead == ~NoRefetchAhead \/ (conn = "subscribed" /\ opened)

Underway(v, k) == Awaited(v) /\ (Latest(v).state = "read" => k <= Latest(v).read)

Chained == "shop" \in page /\ \E i \in DOMAIN flight["shop"] : flight["shop"][i].chain

CaredFor(v, k) ==
    \/ k <= shown[v] \/ k \in lost[v]
    \/ Announced(v, k) \/ RefetchAhead
    \/ Underway(v, k)
    \/ v = "stats" /\ Chained

NothingForgotten ==
    /\ \A k \in unpublished : Events[log[k]] # <<>>
    /\ \A v \in page \ {"orders"} : \A k \in 1 .. Len(log) :
          v \in Changes[log[k]] => CaredFor(v, k)

LEMMA RecordedCares ==
    ASSUME NEW v \in page, Recorded(v), NEW k \in 1 .. Len(log)
    PROVE  RefetchAhead' \/ Announced(v, k)' \/ k \in lost'[v]
<1>1. CASE ~NoRefetchAhead
  BY <1>1 DEF Recorded, RefetchAhead, NoRefetchAhead, Subscribed, stream
<1>2. CASE NoRefetchAhead
  <2>1. Announced(v, k) => Announced(v, k)'
    BY DEF Recorded, Announced, backend, stream
  <2>2. ~Announced(v, k) => k \in lost'[v]
    BY <1>2 DEF Recorded, Announced, Heard
  <2> QED
    BY <2>1, <2>2
<1> QED
  BY <1>1, <1>2

\* What is lost stays lost.
LEMMA LostGrows ==
    ASSUME TypeOK, [Next]_vars, NEW v \in page
    PROVE  lost[v] \subseteq lost'[v]
<1>1. ASSUME NEW E, Break(E) PROVE lost[v] \subseteq lost'[v]
  BY <1>1 DEF Break, Lose
<1>2. ASSUME NEW k, Publish(k) PROVE lost[v] \subseteq lost'[v]
  BY <1>2 DEF Publish, Lose
<1>3. ASSUME NEW kind \in Kinds, Commit(kind) PROVE lost[v] \subseteq lost'[v]
  BY <1>3 DEF Commit
<1>4. ASSUME NEW w, NEW i, Failed(w, i) PROVE lost[v] \subseteq lost'[v]
  BY <1>4 DEF Failed
<1> QED
  BY <1>1, <1>2, <1>3, <1>4 DEF Next, vars, Backend, Restart, Browser, Subscribe,
     Refused, Open, Deliver, Served, Read, Answered, Crash, Cut, Logout, Login,
     Ask, Fail

LEMMA AheadOrRenewed ==
    ASSUME TypeOK, [Next]_vars, RefetchAhead, NEW v \in page \ {"orders"}
    PROVE  RefetchAhead' \/ Renewed(v)
<1> USE DEF RefetchAhead, NoRefetchAhead, Subscribed
<1>1. CASE Open
  BY <1>1, ViewFetched DEF Open, OnReconnect
<1>2. CASE Login
  BY <1>2, ViewFetched DEF Login
<1>3. CASE Crash \/ Cut \/ Logout \/ Subscribe \/ Refused
  BY <1>3 DEF Crash, Cut, Logout, Subscribe, Refused, TypeOK
<1>4. CASE UNCHANGED <<conn, opened>>
  BY <1>4
<1> QED
  BY <1>1, <1>2, <1>3, <1>4 DEF Next, vars, stream, Commit, Backend, Publish, Restart,
     Browser, Deliver, Served, Read, Answered, Failed, Ask, Fail

LEMMA ToldParts ==
    ASSUME NEW v, NEW A, NEW B, NEW C, A \subseteq B \cup C
    PROVE  Told(v, A) \subseteq Told(v, B) \cup Told(v, C)
  BY DEF Told

LEMMA PublishedStep ==
    ASSUME TypeOK, NEW k0, Publish(k0), NEW v \in page, NEW k \in 1 .. Len(log),
           v \in Changes[log[k]], k \in unpublished => Events[log[k]] # <<>>,
           Announced(v, k)
    PROVE  Announced(v, k)' \/ k \in lost'[v] \/ RefetchAhead'
<1> DEFINE all == queue \o EventsOf(k0)
           out == SubSeq(all, 1, Len(all) - Len(Kept(all)))
<1>1. k0 \in unpublished /\ k0 \in 1 .. Len(log) /\ unpublished' = unpublished \ {k0}
  BY DEF Publish, TypeOK
<1>2. CASE k \in unpublished /\ k # k0
  BY <1>1, <1>2 DEF Announced
<1>3. CASE ~(k \in unpublished /\ k # k0)
  <2>1. /\ k \in Told(v, ToSet(queue)) \/ k \in Told(v, ToSet(EventsOf(k0)))
        /\ k \notin Told(v, ToSet(queue)) => k = k0
    BY <1>1, <1>3, EventsTyped DEF Announced
  <2>2. CASE Subscribed
    <3>1. queue \in Seq(EventSet) /\ EventsOf(k0) \in Seq(EventSet)
      BY <1>1, Counted, EventsTyped
    <3>2. /\ all \in Seq(EventSet)
          /\ ToSet(queue) \cup ToSet(EventsOf(k0)) \subseteq ToSet(all)
      BY <3>1, Joined
    <3>3. ToSet(all) \subseteq ToSet(Kept(all)) \cup ToSet(out)
      BY <3>2, KeptParts
    <3>4. queue' = Kept(all) /\ Lose(ToSet(out))
      BY <2>2 DEF Publish
    <3> HIDE DEF all, out
    <3>5. k \in Told(v, ToSet(all))
      BY <2>1, <3>2 DEF Told
    <3>6. k \in Told(v, ToSet(Kept(all))) \cup Told(v, ToSet(out))
      BY <3>3, <3>5, ToldParts
    <3>7. k \in Told(v, ToSet(out)) => k \in lost'[v]
      BY <3>4 DEF Lose
    <3>8. Told(v, ToSet(queue))' = Told(v, ToSet(Kept(all)))
      BY <3>4 DEF Told
    <3> QED
      BY <3>6, <3>7, <3>8 DEF Announced
  <2>3. CASE ~Subscribed /\ NoRefetchAhead
    <3>1. queue' = queue /\ Lose(ToSet(EventsOf(k0)))
      BY <2>3 DEF Publish
    <3>2. Told(v, ToSet(queue))' = Told(v, ToSet(queue))
      BY <3>1 DEF Told
    <3> QED
      BY <2>1, <3>1, <3>2 DEF Announced, Lose
  <2>4. CASE ~Subscribed /\ ~NoRefetchAhead
    BY <2>4 DEF Publish, RefetchAhead, NoRefetchAhead, Subscribed
  <2> QED
    BY <2>2, <2>3, <2>4
<1> QED
  BY <1>2, <1>3

LEMMA BrokenStep ==
    ASSUME TypeOK, Crash \/ Cut \/ Logout, NEW v \in page, NEW k \in 1 .. Len(log),
           v \in Changes[log[k]], k \in unpublished => Events[log[k]] # <<>>,
           Announced(v, k)
    PROVE  Announced(v, k)' \/ k \in lost'[v] \/ RefetchAhead'
<1>1. ASSUME NEW E, Break(E), k \in Told(v, E)
      PROVE  k \in lost'[v] \/ RefetchAhead'
  BY <1>1 DEF Break, Lose, RefetchAhead
<1>2. CASE Crash
  <2> DEFINE E == ToSet(queue) \cup UNION {ToSet(EventsOf(j)) : j \in unpublished}
  <2>1. k \in unpublished => k \in Told(v, ToSet(EventsOf(k)))
    BY EventsTyped
  <2>2. k \in Told(v, E)
    BY <2>1 DEF Announced, Told
  <2>3. Break(E)
    BY <1>2 DEF Crash
  <2> QED
    BY <1>1, <2>2, <2>3
<1>3. CASE Cut \/ Logout
  <2>1. Break(ToSet(queue)) /\ unpublished' = unpublished
    BY <1>3 DEF Cut, Logout
  <2> QED
    BY <1>1, <2>1 DEF Announced
<1> QED
  BY <1>2, <1>3

\* The shop's statistics are asked for after its list, which heeds what they heed.
LEMMA DeliveredStep ==
    ASSUME TypeOK, Deliver, NEW v \in page \ {"orders"}, NEW k, Announced(v, k)
    PROVE  Announced(v, k)' \/ Renewed(v) \/ (v = "stats" /\ Chained')
<1> DEFINE V == {w \in page \ {"stats"} : Head(queue).name \in Heeds[w]}
<1>1. V \in SUBSET page /\ Fetch(V, TRUE) /\ shown' = shown
      /\ unpublished' = unpublished /\ queue' = Tail(queue) /\ queue # <<>>
      /\ page' = page
  BY DEF Deliver, backend
<1>2. ToSet(queue) = {Head(queue)} \cup ToSet(Tail(queue))
  BY <1>1, Counted, Headed
<1>3. Told(v, ToSet(queue))' = Told(v, ToSet(Tail(queue)))
  BY <1>1 DEF Told
<1>4. k \in Told(v, ToSet(queue)) /\ Head(queue).name \notin Heeds[v]
        => k \in Told(v, ToSet(Tail(queue)))
  BY <1>2 DEF Told
<1>5. CASE Head(queue).name \notin Heeds[v] \/ k \in unpublished
  BY <1>1, <1>3, <1>4, <1>5 DEF Announced
<1>6. CASE Head(queue).name \in Heeds[v] /\ v # "stats"
  BY <1>1, <1>6, ViewFetched
<1>7. CASE Head(queue).name \in Heeds[v] /\ v = "stats"
  <2>1. "shop" \in page /\ Heeds["shop"] = Heeds["stats"]
    BY <1>7, RealtimeAssumption DEF TypeOK, Heeds
  <2>2. "shop" \in V
    BY <1>7, <2>1
  <2> HIDE DEF V
  <2> DEFINE e == Request(TRUE)
  <2>3. /\ flight'["shop"] = Append(flight["shop"], e)
        /\ flight["shop"] \in Seq(Requests)
    BY <1>1, <2>1, <2>2, Counted DEF Fetch
  <2>4. e \in Requests /\ e.chain = TRUE
    BY RequestMade
  <2> HIDE DEF e
  <2>5. /\ Len(flight["shop"]) + 1 \in DOMAIN flight'["shop"]
        /\ flight'["shop"][Len(flight["shop"]) + 1] = e
    <3>1. /\ flight'["shop"] \in Seq(Requests)
          /\ Len(flight'["shop"]) = Len(flight["shop"]) + 1
          /\ flight'["shop"][Len(flight["shop"]) + 1] = e
      BY <2>3, <2>4, AppendProperties
    <3>2. Len(flight["shop"]) \in Nat
      BY <2>1, Counted
    <3>3. DOMAIN flight'["shop"] = 1 .. Len(flight'["shop"])
      BY <3>1, LenProperties
    <3> QED
      BY <3>1, <3>2, <3>3
  <2> QED
    BY <1>1, <1>7, <2>1, <2>4, <2>5 DEF Chained
<1> QED
  BY <1>5, <1>6, <1>7

LEMMA AnnouncedStep ==
    ASSUME TypeOK, [Next]_vars, NEW v \in page \ {"orders"}, NEW k \in 1 .. Len(log),
           v \in Changes[log[k]], k \in unpublished => Events[log[k]] # <<>>,
           Announced(v, k)
    PROVE  \/ Announced(v, k)' \/ k \in lost'[v] \/ RefetchAhead'
           \/ Renewed(v) \/ (v = "stats" /\ Chained')
<1>1. CASE \E k0 \in 1 .. MaxLog : Publish(k0)
  BY <1>1, PublishedStep
<1>2. CASE Crash \/ Cut \/ Logout
  BY <1>2, BrokenStep
<1>3. CASE Deliver
  BY <1>3, DeliveredStep
<1>4. CASE unpublished \subseteq unpublished' /\ queue' = queue
  BY <1>4 DEF Announced, Told
<1> QED
  BY <1>1, <1>2, <1>3, <1>4 DEF Next, vars, backend, stream, Commit, Backend, Restart,
     Browser, Subscribe, Refused, Open, Served, Read, Answered, Failed, Login, Ask, Fail

LEMMA ChainStep ==
    ASSUME TypeOK, [Next]_vars, Chained, "stats" \in page
    PROVE  Chained' \/ Renewed("stats") \/ Recorded("stats")
<1> DEFINE F == flight["shop"]
<1>1. PICK i \in 1 .. Len(F) : F[i].chain
  BY Counted DEF Chained
<1>2. "shop" \in page /\ F \in Seq(Requests) /\ Len(F) \in Nat /\ page' = page
  <2>1. "shop" \in page
    BY DEF Chained
  <2> QED
    BY <2>1, Counted DEF Next, vars, Commit, Backend, Publish, Restart, Browser,
       Subscribe, Refused, Open, Deliver, Served, Read, Answered, Failed, Crash, Cut,
       Logout, Break, Login, Ask, Fail
\* An entry of the list's requests that has the mark in the next state.
<1>3. ASSUME NEW j, j \in DOMAIN flight'["shop"], flight'["shop"][j].chain
      PROVE  Chained'
  BY <1>2, <1>3 DEF Chained
<1>4. CASE flight' = flight
  BY <1>2, <1>4 DEF Chained
<1>5. CASE Fetching
  <2>1. PICK V \in SUBSET page, chain \in BOOLEAN :
          Fetch(V, chain) \/ UNCHANGED <<flight, current>>
    BY <1>5, FetchingSets
  <2> DEFINE e == Request(chain)
  <2>2. e \in Requests
    BY RequestMade
  <2> HIDE DEF e
  <2>3. flight'["shop"] = F \/ flight'["shop"] = Append(F, e)
    BY <1>2, <2>1 DEF Fetch, e
  <2>4. /\ Append(F, e) \in Seq(Requests) /\ Len(Append(F, e)) = Len(F) + 1
        /\ Append(F, e)[i] = F[i]
    BY <1>1, <1>2, <2>2, AppendProperties
  <2>5. i \in DOMAIN flight'["shop"] /\ flight'["shop"][i] = F[i]
    BY <1>1, <1>2, <2>3, <2>4, LenProperties
  <2> QED
    BY <1>1, <1>3, <2>5
<1>6. CASE Crash
  <2>1. /\ flight'["shop"] \in Seq(Requests) /\ Len(flight'["shop"]) = Len(F)
        /\ flight'["shop"][i].chain = F[i].chain
    BY <1>1, <1>2, <1>6, CrashMarks
  <2>2. i \in DOMAIN flight'["shop"]
    BY <1>1, <2>1, LenProperties
  <2> QED
    BY <1>1, <1>3, <2>1, <2>2
<1>7. ASSUME NEW w \in page, NEW j \in DOMAIN flight[w], Read(w, j) \/ Fail(w, j)
      PROVE  Chained'
  <2>1. PICK f \in Requests :
          /\ f.chain = flight[w][j].chain
          /\ flight' = [flight EXCEPT ![w] = [@ EXCEPT ![j] = f]]
    BY <1>7, ReadMarks, FailMarks
  <2>2. /\ flight' \in [page -> Seq(Requests)]
        /\ Len(flight'["shop"]) = Len(F)
        /\ w # "shop" => flight'["shop"] = F
        /\ \A n \in 1 .. Len(flight[w]) :
              flight'[w][n] = IF n = j THEN f ELSE flight[w][n]
    BY <1>2, <2>1, Marked
  <2>3. flight'["shop"][i].chain
    BY <1>1, <2>1, <2>2
  <2>4. i \in DOMAIN flight'["shop"]
    BY <1>1, <1>2, <2>2, LenProperties
  <2> QED
    BY <1>3, <2>3, <2>4
<1>8. ASSUME NEW w \in page, NEW j \in DOMAIN flight[w], ~(w = "shop" /\ j = i),
             flight'["shop"] = Rest(w, j)["shop"]
      PROVE  Chained'
  <2>1. CASE w # "shop"
    BY <1>1, <1>2, <1>3, <1>8, <2>1, Counted, TakenOut
  <2>2. CASE w = "shop"
    <3> DEFINE n == IF i < j THEN i ELSE i - 1
    <3>1. j \in 1 .. Len(F) /\ n \in 1 .. Len(F) - 1
      BY <1>1, <1>2, <1>8, <2>2, Counted
    <3>2. /\ flight'["shop"] \in Seq(Requests) /\ Len(flight'["shop"]) = Len(F) - 1
          /\ flight'["shop"][n] = IF n < j THEN F[n] ELSE F[n + 1]
      <4>1. /\ Rest(w, j) \in [page -> Seq(Requests)]
            /\ Len(Rest(w, j)[w]) = Len(flight[w]) - 1
            /\ \A m \in 1 .. Len(flight[w]) - 1 :
                  Rest(w, j)[w][m] = IF m < j THEN flight[w][m] ELSE flight[w][m + 1]
        BY TakenOut
      <4> HIDE DEF n
      <4> QED
        BY <1>8, <2>2, <3>1, <4>1
    <3>3. (IF n < j THEN F[n] ELSE F[n + 1]) = F[i]
      BY <1>1, <1>8, <2>2, <3>1
    <3>4. n \in DOMAIN flight'["shop"]
      BY <3>1, <3>2, LenProperties
    <3> QED
      BY <1>1, <1>3, <3>2, <3>3, <3>4
  <2> QED
    BY <2>1, <2>2
<1>9. ASSUME NEW w \in page, NEW j \in DOMAIN flight[w], Answered(w, j)
      PROVE  Chained' \/ Renewed("stats")
  <2>1. CASE w = "shop" /\ j = i
    BY <1>1, <1>9, <2>1, StatsAskedFor DEF More
  <2>2. CASE ~(w = "shop" /\ j = i)
    <3>1. flight'["shop"] = Rest(w, j)["shop"]
      BY <1>2, <1>9, AnsweredEffect
    <3> QED
      BY <1>8, <2>2, <3>1
  <2> QED
    BY <2>1, <2>2
<1>10. ASSUME NEW w \in page, NEW j \in DOMAIN flight[w], Failed(w, j)
       PROVE  Chained' \/ Recorded("stats")
  <2>1. CASE w = "shop" /\ j = i
    BY <1>1, <1>10, <2>1 DEF Failed, Recorded
  <2>2. CASE ~(w = "shop" /\ j = i)
    BY <1>8, <1>10, <2>2 DEF Failed, Rest
  <2> QED
    BY <2>1, <2>2
<1> QED
  BY <1>4, <1>5, <1>6, <1>7, <1>9, <1>10 DEF Next, vars, stores, Commit, Backend,
     Publish, Restart, Browser, Subscribe, Refused, Served, Cut, Logout, Fetching

LEMMA CaredStep ==
    ASSUME TypeOK, AnswersAhead, [Next]_vars,
           NEW v \in page \ {"orders"}, NEW k \in 1 .. Len(log),
           v \in Changes[log[k]], k \in unpublished => Events[log[k]] # <<>>,
           CaredFor(v, k)
    PROVE  CaredFor(v, k)'
<1>1. Renewed(v) => CaredFor(v, k)'
  BY DEF Renewed, Underway, CaredFor
<1>2. Recorded(v) => CaredFor(v, k)'
  BY RecordedCares DEF CaredFor
<1>3. CASE k <= shown[v]
  <2>1. shown'[v] >= shown[v]
    BY AheadNext
  <2>2. shown[v] \in Nat /\ shown'[v] \in Nat
    <3>1. TypeOK'
      BY TypeNext
    <3>2. page' = page
      BY DEF Next, vars, Commit, Backend, Publish, Restart, Browser, Subscribe, Refused,
         Open, Deliver, Served, Read, Answered, Failed, Crash, Cut, Logout, Break, Login,
         Ask, Fail
    <3>3. Len(log) \in Nat /\ Len(log)' \in Nat
      BY <3>1, LenProperties DEF TypeOK
    <3> QED
      BY <3>1, <3>2, <3>3 DEF TypeOK
  <2> QED
    BY <1>3, <2>1, <2>2 DEF CaredFor
<1>4. CASE k \in lost[v]
  BY <1>4, LostGrows DEF CaredFor
<1>5. CASE Announced(v, k)
  BY <1>1, <1>5, AnnouncedStep DEF CaredFor
<1>6. CASE RefetchAhead
  BY <1>1, <1>6, AheadOrRenewed DEF CaredFor
<1>7. CASE Underway(v, k)
  <2>1. CASE Awaiting(v)
    <3>1. Len(log) \in Nat /\ k <= Len(log)
      BY Counted
    <3>2. Underway(v, k)'
      BY <1>7, <2>1, <3>1 DEF Underway, Awaiting, Awaited
    <3> QED
      BY <3>2 DEF CaredFor
  <2>2. CASE Settled(v)
    BY <1>7, <2>2 DEF Settled, Underway, CaredFor
  <2>3. CASE GivenUp(v)
    BY <1>2, <2>3 DEF GivenUp
  <2> QED
    BY <1>1, <2>1, <2>2, <2>3, ViewNext DEF ViewStep
<1>8. CASE v = "stats" /\ Chained
  BY <1>1, <1>2, <1>8, ChainStep DEF CaredFor
<1> QED
  BY <1>3, <1>4, <1>5, <1>6, <1>7, <1>8 DEF CaredFor

LEMMA CommittedStep ==
    ASSUME TypeOK, NothingForgotten, NEW kind \in Kinds, Commit(kind)
    PROVE  /\ \A k \in unpublished' : Events[log'[k]] # <<>>
           /\ \A k \in 1 .. Len(log) : log'[k] = log[k]
           /\ \A v \in page : \A k \in 1 .. Len(log') :
                k \notin 1 .. Len(log) /\ v \in Changes[log'[k]] => CaredFor(v, k)'
<1>1. /\ Len(log) \in Nat /\ Len(log') = Len(log) + 1
      /\ log'[Len(log')] = kind
      /\ \A k \in 1 .. Len(log) : log'[k] = log[k]
  BY Counted, AppendProperties DEF TypeOK, Commit
<1>2. \A k \in unpublished' : Events[log'[k]] # <<>>
  <2>1. unpublished \subseteq 1 .. Len(log) /\ \A k \in unpublished : Events[log[k]] # <<>>
    BY DEF TypeOK, NothingForgotten
  <2>2. CASE Events[kind] = <<>>
    BY <1>1, <2>1, <2>2 DEF Commit
  <2>3. CASE Events[kind] # <<>>
    BY <1>1, <2>1, <2>3 DEF Commit
  <2> QED
    BY <2>2, <2>3
<1>3. ASSUME NEW v \in page, NEW k \in 1 .. Len(log'),
             k \notin 1 .. Len(log), v \in Changes[log'[k]]
      PROVE  CaredFor(v, k)'
  <2>1. k = Len(log') /\ v \in Changes[kind]
    BY <1>1, <1>3
  <2>2. CASE Events[kind] = <<>>
    BY <2>1, <2>2 DEF Commit, CaredFor
  <2>3. CASE Events[kind] # <<>>
    BY <2>1, <2>3 DEF Commit, CaredFor, Announced
  <2> QED
    BY <2>2, <2>3
<1> QED
  BY <1>1, <1>2, <1>3

LEMMA ForgottenNext ==
    ASSUME TypeOK, AnswersAhead, NothingForgotten, [Next]_vars
    PROVE  NothingForgotten'
<1>1. page' = page
  BY DEF Next, vars, Commit, Backend, Publish, Restart, Browser, Subscribe, Refused,
     Open, Deliver, Served, Read, Answered, Failed, Crash, Cut, Logout, Break, Login,
     Ask, Fail
<1>2. \A v \in page \ {"orders"} : \A k \in 1 .. Len(log) :
        v \in Changes[log[k]] => CaredFor(v, k)'
  BY CaredStep DEF NothingForgotten
<1>3. CASE \E kind \in Kinds : Commit(kind)
  BY <1>1, <1>2, <1>3, CommittedStep DEF NothingForgotten
<1>4. CASE ~ \E kind \in Kinds : Commit(kind)
  <2>1. log' = log /\ unpublished' \subseteq unpublished
    BY <1>4 DEF Next, vars, backend, Backend, Publish, Restart, Browser, Subscribe,
       Refused, Open, Deliver, Served, Read, Answered, Failed, Crash, Cut, Logout,
       Break, Login, Ask, Fail
  <2> QED
    BY <1>1, <1>2, <2>1 DEF NothingForgotten
<1> QED
  BY <1>3, <1>4

LEMMA ForgottenInit == Init => NothingForgotten
<1> SUFFICES ASSUME Init PROVE NothingForgotten
  OBVIOUS
<1>1. Len(log) = 0 /\ unpublished = {}
  BY EmptySeq DEF Init
<1> QED
  BY <1>1 DEF NothingForgotten

LEMMA QuietIsUpToDate == TypeOK /\ NothingForgotten => QuietUpToDate
<1> SUFFICES ASSUME TypeOK, NothingForgotten,
                    conn = "open", unpublished = {}, queue = <<>>,
                    \A v \in page : flight[v] = <<>>,
                    NEW v \in page \ {"orders"},
                    NEW k \in (shown[v] + 1) .. Len(log), v \in Changes[log[k]]
             PROVE  k \in lost[v]
  BY DEF QuietUpToDate, UpToDate
<1>1. shown[v] \in Nat /\ k \in 1 .. Len(log) /\ ~(k <= shown[v])
  BY Counted DEF TypeOK
<1>2. ~RefetchAhead
  BY DEF RefetchAhead, NoRefetchAhead, Subscribed
<1>3. ~Announced(v, k)
  <2>1. ToSet(queue) = {}
    BY DEF ToSet
  <2> QED
    BY <2>1 DEF Announced, Told
<1>4. ~Underway(v, k)
  BY EmptySeq DEF Underway, Awaited
<1>5. ~Chained
  BY DEF Chained
<1> QED
  BY <1>1, <1>2, <1>3, <1>4, <1>5 DEF NothingForgotten, CaredFor

\* A page with an open stream, empty queues and no request under way shows every
\* change but those that got lost, however they were announced and asked for.
THEOREM QuietMeansUpToDate == Spec => []QuietUpToDate
<1>1. AnswersAhead /\ TypeOK /\ [Next]_vars => AnswersAhead'
  BY AheadNext
<1>2. AnswersAhead /\ TypeOK /\ NothingForgotten /\ [Next]_vars => NothingForgotten'
  BY ForgottenNext
<1> QED
  BY <1>1, <1>2, AheadInit, ForgottenInit, QuietIsUpToDate, TypeCorrect, PTL DEF Spec

=============================================================================
