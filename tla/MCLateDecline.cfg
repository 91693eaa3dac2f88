\* A decline with a now from before the end lands after the sweep.
SPECIFICATION Spec
CONSTANTS
    Sales <- OneSale
    Users <- Buyers
    Resvs <- TwoResvs
    Pays <- TwoPays
    Txns = {t1}
    Workers = {w1}
    SaleOf <- MCSaleOf
    BuyerOf <- MCBuyerOf
    OrderOf <- OnePayEach
    Quantity <- OneUnit
    StartsAt <- FromZero
    EndsAt <- UntilTwo
    HoldTime = 1
    MaxTime = 3
    MaxLag = 1
    MaxRollbacks = 0
    NoResv = NoResv
INVARIANT SweptSaleEmpty
