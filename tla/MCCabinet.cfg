\* The page of orders, with a stream that never breaks.
SPECIFICATION LiveSpec
CONSTANTS
    Pages <- Cabinet
    Kinds = {"stock", "settle", "order"}
    QueueMax = 2
    MaxLog = 2
    MaxUnderway = 2
    MaxIncidents <- Undisturbed
PROPERTY CatchesUp
\* Everything may have been shown.
CHECK_DEADLOCK FALSE
