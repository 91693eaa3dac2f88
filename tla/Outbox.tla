------------------------------- MODULE Outbox -------------------------------
(***************************************************************************)
(* The outbox of emails: a letter is a row of the table of notifications,  *)
(* written by the transaction it tells of (enqueue_order_paid and          *)
(* enqueue_cart_cleared) and sent later by send_pending, the last part of  *)
(* a scheduler tick (app/services/notifications.py).  email_stub.py sends  *)
(* at once and its log is never rolled back; sent_at is committed after    *)
(* the whole batch.                                                        *)
(***************************************************************************)
EXTENDS Naturals, FiniteSets

CONSTANTS
    Letters,    \* (kind, entity_id) of the notifications to come
    Workers,    \* scheduler loops, one per app process
    MaxLosses   \* bound: senders lost between an email and its commit

ASSUME OutboxAssumption == MaxLosses \in Nat /\ IsFiniteSet(Workers)

VARIABLES
    row,        \* the row: none, written but not committed, unsent, sent
    mails,      \* copies of a letter in the stub's log
    batch,      \* the rows a sender has locked
    left,       \* those of its batch it has not emailed yet
    losses

vars == <<row, mails, batch, left, losses>>

TypeOK ==
    /\ row \in [Letters -> {"none", "written", "unsent", "sent"}]
    /\ mails \in [Letters -> Nat]
    /\ batch \in [Workers -> SUBSET Letters]
    /\ left \in [Workers -> SUBSET Letters]
    /\ \A w \in Workers : left[w] \subseteq batch[w]
    /\ \A w, v \in Workers : w # v => batch[w] \cap batch[v] = {}
    /\ losses \in 0 .. MaxLosses

Init ==
    /\ row = [l \in Letters |-> "none"]
    /\ mails = [l \in Letters |-> 0]
    /\ batch = [w \in Workers |-> {}]
    /\ left = [w \in Workers |-> {}]
    /\ losses = 0

\* A payment is settled or a cart cleared: its transaction writes the letter,
\* and then commits or is rolled back.
Enqueue(l) ==
    /\ row[l] = "none"
    /\ row' = [row EXCEPT ![l] = "written"]
    /\ UNCHANGED <<mails, batch, left, losses>>

EndBusiness(l) ==
    /\ row[l] = "written"
    /\ \E st \in {"unsent", "none"} : row' = [row EXCEPT ![l] = st]
    /\ UNCHANGED <<mails, batch, left, losses>>

\* Letters sent from inside the business transaction.
Unsent_Uncommitted == {l \in Letters : row[l] \in {"written", "unsent"}}

\* A sender that goes by what it has emailed instead of by sent_at.
Unsent_NeverMailed == {l \in Letters : row[l] = "unsent" /\ mails[l] = 0}

Unsent == {l \in Letters : row[l] = "unsent"}

\* A plain SELECT, without FOR UPDATE SKIP LOCKED.
LockedByOthers_None(w) == {}

LockedByOthers(w) == UNION {batch[v] : v \in Workers \ {w}}

\* SELECT ... WHERE sent_at IS NULL FOR UPDATE SKIP LOCKED
SendSelect(w) ==
    LET pending == Unsent \ LockedByOthers(w)
    IN  /\ batch[w] = {}
        /\ pending # {}
        /\ batch' = [batch EXCEPT ![w] = pending]
        /\ left' = [left EXCEPT ![w] = pending]
        /\ UNCHANGED <<row, mails, losses>>

SendEmail(w, l) ==
    /\ l \in left[w]
    /\ mails' = [mails EXCEPT ![l] = @ + 1]
    /\ left' = [left EXCEPT ![w] = @ \ {l}]
    /\ UNCHANGED <<row, batch, losses>>

\* A commit that runs ahead of the emails.
BatchMailed_Ahead(w) == batch[w] # {}

BatchMailed(w) == batch[w] # {} /\ left[w] = {}

SendCommit(w) ==
    /\ BatchMailed(w)
    /\ row' = [l \in Letters |-> IF l \in batch[w] THEN "sent" ELSE row[l]]
    /\ batch' = [batch EXCEPT ![w] = {}]
    /\ left' = [left EXCEPT ![w] = {}]
    /\ UNCHANGED <<mails, losses>>

\* The process dies or its connection does: the locks go, the emails stay
\* sent, and the loop's next tick starts over.
SenderLost(w) ==
    /\ batch[w] # {}
    /\ losses < MaxLosses
    /\ losses' = losses + 1
    /\ batch' = [batch EXCEPT ![w] = {}]
    /\ left' = [left EXCEPT ![w] = {}]
    /\ UNCHANGED <<row, mails>>

Send(w) ==
    \/ SendSelect(w)
    \/ \E l \in Letters : SendEmail(w, l)
    \/ SendCommit(w)

Next ==
    \/ \E l \in Letters : Enqueue(l) \/ EndBusiness(l)
    \/ \E w \in Workers : Send(w) \/ SenderLost(w)

Spec == Init /\ [][Next]_vars

\* The loop never stops ticking, and a dead process is started again.
LiveSpec == Spec /\ \A w \in Workers : WF_vars(Send(w))

-----------------------------------------------------------------------------

\* Nobody is told of a payment or a clearing that was rolled back: a letter is
\* emailed only once its transaction has committed (notifications.py:22, "call
\* inside the payment's transaction").
NoPhantomMail == \A l \in Letters : mails[l] > 0 => row[l] \in {"unsent", "sent"}

\* A letter marked as sent was emailed.
SentWasMailed == \A l \in Letters : row[l] = "sent" => mails[l] > 0

\* Two processes never email the same letter at a time, and every copy beyond
\* the first is the price of a sender lost before its commit
\* (notifications.py:49-65).
CopiesBoundedByLosses == \A l \in Letters : mails[l] <= 1 + losses

\* Every committed letter is emailed and marked as sent, whatever senders die.
EveryLetterSent == \A l \in Letters : row[l] = "unsent" ~> row[l] = "sent"

=============================================================================
