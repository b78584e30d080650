SPECIFICATION Spec
CONSTANTS
    p1 = p1
    Players = {p1, p2}
    Lots = {l1, l2}
    Owner <- MCOwner
    Purse = 3
    Value <- MCValue
    IntLimit = 8
    LongLimit = 32
    MaxLoads = 1
    MaxAuctions = 2
    MaxTime = 4
    Prices = {0, 2, 20}
    BidPrices = {2}
    Hours = {1}
    MinAuctionHours = 1
    MaxAuctionHours = 2
    MaxAuctionExpiredHours = 1
    CommissionPerHour = 50
    PackSlots = 2
    BuybackLimit = 1
INVARIANTS TypeOK TimersHaveAuctions
PROPERTIES KeepsPromise LoadedAuctionsEnd
CHECK_DEADLOCK FALSE
