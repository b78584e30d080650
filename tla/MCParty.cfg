SPECIFICATION Spec
CONSTANTS
    Players = {p1, p2, p3}
    MaxParties = 2
    MaxCreatures = 4
    MaxInvites = 2
INVARIANTS TypeOK PartyKnowsMembers LeaderCanAct
CHECK_DEADLOCK FALSE
SYMMETRY PlayerSymmetry
