SPECIFICATION MCSpec
CONSTANTS
    p1 = p1  p2 = p2  p3 = p3
    x1 = x1  x2 = x2
    Players = {p1, p2}
    Items = {x1}
    Slots = {0}
    OtherSlots = {1}
    MaxMentions = 1
    None = None
    Amounts = {1}
    Price = 1
    BuybackLimit = 1
    MaxCopper = 2
INVARIANT NoDuplicate
CHECK_DEADLOCK FALSE
