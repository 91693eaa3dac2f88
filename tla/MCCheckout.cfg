\* Two tabs; a mishap: a call that fails, a reload or a restart of the backend;
\* two deliveries of which one may fail.
SPECIFICATION CheckoutLiveSpec
CONSTANTS
    Orders <- OneOrder
    Attempts = {"p1"}
    OrderOf <- MCOrderOf
    Clicks = {}
    WebhookAttempts = 2
    MaxLosses = 1
    MaxRestarts = 1
    Item <- OneItem
    Tabs = {"A", "B"}
    Keys = {"k1", "k2", "k3"}
    MaxMishaps = 1
INVARIANTS PagesTypeOK RefusedOnlyGone
PROPERTIES ClickAnswered CheckoutGoesOn AnswerLands
\* The unit may be gone and every tab waiting for its buyer.
CHECK_DEADLOCK FALSE
