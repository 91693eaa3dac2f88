\* Two senders, three letters, senders lost at any point.
SPECIFICATION LiveSpec
CONSTANTS
    Letters = {l1, l2, l3}
    Workers = {w1, w2}
    MaxLosses = 2
INVARIANTS TypeOK NoPhantomMail SentWasMailed CopiesBoundedByLosses
PROPERTY EveryLetterSent
\* Once every letter is sent there is nothing left to do.
CHECK_DEADLOCK FALSE
