\* Two sessions and a scheduler compete for one unit; now may be stale.
SPECIFICATION Spec
CONSTANTS
    Sales <- OneSale
    Users <- Buyers
    Resvs <- ThreeResvs
    Pays <- TwoPays
    Txns = {t1, t2}
    Workers = {w1}
    SaleOf <- MCSaleOf
    BuyerOf <- MCBuyerOf
    OrderOf <- AttemptAndRetry
    Quantity <- OneUnit
    StartsAt <- FromZero
    EndsAt <- UntilTwo
    HoldTime = 1
    MaxTime = 2
    MaxLag = 1
    MaxRollbacks = 0
    NoResv = NoResv
SYMMETRY Symmetry
INVARIANTS TypeOK NoOversell PayingIffPending SettledTogether OutboxMatches
PROPERTIES LegalTransitions ImplementsLedger
