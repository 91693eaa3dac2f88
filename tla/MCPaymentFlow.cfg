\* Answers late, lost and repeated; one click of the operator;
\* one restart of the backend or the stub.
SPECIFICATION Spec
CONSTANTS
    Orders <- OneOrder
    Attempts = {p1, p2}
    OrderOf <- MCOrderOf
    Clicks = {"click"}
    WebhookAttempts = 2
    MaxLosses = 1
    MaxRestarts = 1
SYMMETRY Symmetry
INVARIANTS TypeOK PayingIffOngoing SettledByAnswer ChargedOnce SoldByOneApproval
\* Everything may have been answered.
CHECK_DEADLOCK FALSE
