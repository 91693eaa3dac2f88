\* Two scheduler loops; a buyer in two tabs, for whom there are two units; a
\* dashboard beside them; now is never stale.
SPECIFICATION StatsSpec
CONSTANTS
    Sales <- OneSale
    Users <- Buyers
    Resvs <- TwoTabs
    Pays = {"p1"}
    Txns = {t1, t2}
    Workers = {w1, w2}
    SaleOf <- MCSaleOf
    BuyerOf <- MCBuyerOf
    OrderOf <- AttemptAndRetry
    Quantity <- TwoUnits
    StartsAt <- FromZero
    EndsAt <- UntilTwo
    HoldTime = 1
    MaxTime = 2
    MaxLag = 0
    MaxRollbacks = 0
    NoResv = NoResv
    Watched = "s1"
SYMMETRY Symmetry
INVARIANTS LockedRowsHeld OneActivePerBuyer EndedWithdrawn SweptSaleEmpty FiguresAgree
