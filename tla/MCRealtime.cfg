\* Each page with a guarded store: two transactions, and crashes, cut
\* streams, failed requests and logouts.
SPECIFICATION LiveSpec
CONSTANTS
    Pages <- GuardedPages
    Kinds = {"stock", "settle"}
    QueueMax = 2
    MaxLog = 2
    MaxUnderway = 2
    MaxIncidents <- OneOrTwo
INVARIANTS TypeOK QuietUpToDate
PROPERTIES NeverBackwards CatchesUp
\* Everything may have been shown.
CHECK_DEADLOCK FALSE
