SPECIFICATION MCSpec
CONSTANTS
    p1 = p1  p2 = p2  p3 = p3
    x1 = x1  x2 = x2
    Players = {p1, p2}
    Items = {x1, x2}
    Slots = {0}
    OtherSlots = {}
    MaxMentions = 2
    None = None
    Amounts <- MCAmounts
    Price = 1
    BuybackLimit = 1
    MaxCopper = 1
INVARIANT TypeOK
PROPERTIES CoinPreserved Delivers
CHECK_DEADLOCK FALSE
SYMMETRY SwapSymmetry
