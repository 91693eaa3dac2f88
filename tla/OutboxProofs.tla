---------------------------- MODULE OutboxProofs ----------------------------
(***************************************************************************)
(* What the outbox guarantees for any number of letters, senders and       *)
(* senders lost.                                                           *)
(***************************************************************************)
EXTENDS Outbox, TLAPS

\* The letters of a batch are committed and unsent, whoever else is sending.
BatchUnsent == \A w \in Workers : \A l \in batch[w] : row[l] = "unsent"

\* A sender has emailed what it has taken off its batch.
TakenWasMailed ==
    \A w \in Workers : \A l \in batch[w] \ left[w] : mails[l] > 0

Taken == UNION {batch[w] \ left[w] : w \in Workers}

\* A letter unsent and not taken by a living sender has no copy but those of
\* senders that were lost.
LostCopiesOnly ==
    \A l \in Letters : row[l] # "sent" /\ l \notin Taken => mails[l] <= losses

Emailing ==
    /\ BatchUnsent
    /\ NoPhantomMail
    /\ TakenWasMailed
    /\ SentWasMailed
    /\ LostCopiesOnly
    /\ CopiesBoundedByLosses

LEMMA TypeInit == Init => TypeOK
  BY OutboxAssumption DEF Init, TypeOK

LEMMA TypeNext == TypeOK /\ [Next]_vars => TypeOK'
<1> SUFFICES ASSUME TypeOK, [Next]_vars PROVE TypeOK'
  OBVIOUS
<1> USE OutboxAssumption DEF TypeOK
<1>1. ASSUME NEW l \in Letters, Enqueue(l) PROVE TypeOK'
  BY <1>1 DEF Enqueue
<1>2. ASSUME NEW l \in Letters, EndBusiness(l) PROVE TypeOK'
  BY <1>2 DEF EndBusiness
<1>3. ASSUME NEW w \in Workers, SendSelect(w) PROVE TypeOK'
  <2> DEFINE B == Unsent \ LockedByOthers(w)
  <2>1. B \subseteq Letters
    BY DEF Unsent
  <2>2. \A v \in Workers : v # w => B \cap batch[v] = {}
    BY DEF LockedByOthers
  <2>3. /\ batch' = [batch EXCEPT ![w] = B]
        /\ left' = [left EXCEPT ![w] = B]
        /\ UNCHANGED <<row, mails, losses>>
    BY <1>3 DEF SendSelect
  <2> HIDE DEF B
  <2> QED
    BY <2>1, <2>2, <2>3
<1>4. ASSUME NEW w \in Workers, NEW l \in Letters, SendEmail(w, l) PROVE TypeOK'
  BY <1>4 DEF SendEmail
<1>5. ASSUME NEW w \in Workers, SendCommit(w) PROVE TypeOK'
  BY <1>5 DEF SendCommit
<1>6. ASSUME NEW w \in Workers, SenderLost(w) PROVE TypeOK'
  BY <1>6 DEF SenderLost
<1>7. CASE UNCHANGED vars
  BY <1>7 DEF vars
<1> QED
  BY <1>1, <1>2, <1>3, <1>4, <1>5, <1>6, <1>7 DEF Next, Send

\* Every reachable state of the outbox has its type, and two senders never
\* hold the same letter (FOR UPDATE SKIP LOCKED).
THEOREM TypeCorrect == Spec => []TypeOK
  BY TypeInit, TypeNext, PTL DEF Spec

LEMMA EmailingInit == Init => Emailing
  BY OutboxAssumption
    DEF Init, Emailing, BatchUnsent, NoPhantomMail, TakenWasMailed,
        SentWasMailed, LostCopiesOnly, CopiesBoundedByLosses, Taken

LEMMA EmailingNext == TypeOK /\ Emailing /\ [Next]_vars => Emailing'
<1> SUFFICES ASSUME TypeOK, Emailing, [Next]_vars PROVE Emailing'
  OBVIOUS
<1> USE OutboxAssumption
    DEF TypeOK, Emailing, BatchUnsent, NoPhantomMail, TakenWasMailed,
        SentWasMailed, LostCopiesOnly, CopiesBoundedByLosses, Taken
<1>1. ASSUME NEW l \in Letters, Enqueue(l) PROVE Emailing'
  BY <1>1 DEF Enqueue
<1>2. ASSUME NEW l \in Letters, EndBusiness(l) PROVE Emailing'
  BY <1>2 DEF EndBusiness
<1>3. ASSUME NEW w \in Workers, SendSelect(w) PROVE Emailing'
  <2>1. /\ batch[w] = {}
        /\ batch'[w] = left'[w] /\ batch'[w] \subseteq Unsent
        /\ \A v \in Workers \ {w} : batch'[v] = batch[v] /\ left'[v] = left[v]
        /\ UNCHANGED <<row, mails, losses>>
    BY <1>3 DEF SendSelect
  <2>2. Taken' = Taken
    BY <2>1
  <2>3. BatchUnsent' /\ TakenWasMailed'
    BY <2>1 DEF Unsent
  <2> QED
    BY <2>1, <2>2, <2>3
<1>4. ASSUME NEW w \in Workers, NEW l \in Letters, SendEmail(w, l)
      PROVE  Emailing'
  <2>1. /\ l \in batch[w] /\ l \in left[w]
        /\ mails'[l] = mails[l] + 1
        /\ \A x \in Letters \ {l} : mails'[x] = mails[x]
        /\ left'[w] = left[w] \ {l}
        /\ \A v \in Workers \ {w} : left'[v] = left[v]
        /\ UNCHANGED <<row, batch, losses>>
    BY <1>4 DEF SendEmail
  <2>2. row[l] = "unsent" /\ l \notin Taken
    BY <2>1
  <2>3. Taken' = Taken \cup {l}
    BY <2>1
  <2>4. BatchUnsent' /\ NoPhantomMail' /\ TakenWasMailed' /\ SentWasMailed'
    BY <2>1, <2>2
  <2>5. mails[l] <= losses
    BY <2>2
  <2> QED
    BY <2>1, <2>3, <2>4, <2>5
<1>5. ASSUME NEW w \in Workers, SendCommit(w) PROVE Emailing'
  <2>1. /\ left[w] = {}
        /\ \A x \in Letters : row'[x] = IF x \in batch[w] THEN "sent" ELSE row[x]
        /\ batch'[w] = {}
        /\ \A v \in Workers \ {w} : batch'[v] = batch[v]
        /\ \A v \in Workers \ {w} : left'[v] = left[v]
        /\ UNCHANGED <<mails, losses>>
    BY <1>5 DEF SendCommit, BatchMailed
  <2>2. \A x \in batch[w] : mails[x] > 0
    BY <2>1
  <2>3. Taken' = Taken \ batch[w]
    BY <2>1
  <2>4. BatchUnsent' /\ NoPhantomMail' /\ TakenWasMailed' /\ SentWasMailed'
    BY <2>1, <2>2
  <2> QED
    BY <2>1, <2>3, <2>4
<1>6. ASSUME NEW w \in Workers, SenderLost(w) PROVE Emailing'
  <2>1. /\ losses' = losses + 1
        /\ batch'[w] = {}
        /\ \A v \in Workers \ {w} : batch'[v] = batch[v] /\ left'[v] = left[v]
        /\ UNCHANGED <<row, mails>>
    BY <1>6 DEF SenderLost
  <2>2. BatchUnsent' /\ NoPhantomMail' /\ TakenWasMailed' /\ SentWasMailed'
    BY <2>1
  <2> QED
    BY <2>1, <2>2
<1>7. CASE UNCHANGED vars
  BY <1>7 DEF vars
<1> QED
  BY <1>1, <1>2, <1>3, <1>4, <1>5, <1>6, <1>7 DEF Next, Send

LEMMA EmailingHolds == Spec => []Emailing
  BY EmailingInit, EmailingNext, TypeCorrect, PTL DEF Spec

\* No letter is emailed whose payment or clearing was rolled back.
THEOREM NoPhantom == Spec => []NoPhantomMail
  BY EmailingHolds, PTL DEF Emailing

\* A letter marked as sent was emailed.
THEOREM MailedBeforeSent == Spec => []SentWasMailed
  BY EmailingHolds, PTL DEF Emailing

\* A letter has one copy, and one more at most for every sender lost between
\* an email and its commit, however many senders share the outbox.
THEOREM CopiesBounded == Spec => []CopiesBoundedByLosses
  BY EmailingHolds, PTL DEF Emailing

=============================================================================
