\* create_order trusts a reservation it read without a lock.
SPECIFICATION Spec
CONSTANTS
    Sales <- OneSale
    Users <- Buyers
    Resvs <- TwoResvs
    Pays <- TwoPays
    Txns = {t1, t2}
    Workers = {w1}
    SaleOf <- MCSaleOf
    BuyerOf <- MCBuyerOf
    OrderOf <- OnePayEach
    Quantity <- OneUnit
    StartsAt <- FromZero
    EndsAt <- UntilTwo
    HoldTime = 1
    MaxTime = 3
    MaxLag = 0
    MaxRollbacks = 0
    NoResv = NoResv
INVARIANT PendingOrderLive
