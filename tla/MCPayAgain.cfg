\* One tab, nothing lost but a webhook or the answer of the stub; a second
\* attempt to be had.
SPECIFICATION CheckoutLiveSpec
CONSTANTS
    Orders <- OneOrder
    Attempts = {"p1", "p2"}
    OrderOf <- MCOrderOf
    Clicks = {}
    WebhookAttempts = 2
    MaxLosses = 1
    MaxRestarts = 0
    Item <- OneItem
    Tabs = {"A"}
    Keys = {"k1", "k2", "k3"}
    MaxMishaps = 0
PROPERTY PayOffered
CHECK_DEADLOCK FALSE
