\* What the scheduler and Postgres promise to do in the end, though transactions
\* are lost and now may be stale.
SPECIFICATION LiveSpec
CONSTANTS
    Sales <- TwoSales
    Users <- Buyers
    Resvs <- TwoResvs
    Pays = {"p1"}
    Txns = {t1}
    Workers = {w1}
    SaleOf <- SaleEach
    BuyerOf <- MCBuyerOf
    OrderOf <- OnePayEach
    Quantity <- OneUnit
    StartsAt <- FromZero
    EndsAt <- EndsAndLasts
    HoldTime = 1
    MaxTime = 3
    MaxLag = 1
    MaxRollbacks = 1
    NoResv = NoResv
 
PROPERTIES SaleSwept LapsedHoldReturns
