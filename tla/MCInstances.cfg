SPECIFICATION Spec
CONSTANTS
    Players = {p1, p2, p3}
    Nobody = Nobody
    Zones = {town, dungeon, nowhere}
    Defined = {town, dungeon}
    Instanced = {dungeon}
    Persistent = {town}
    MaxParties = 1
    BASE_INSTANCE_ID = 1
    MAX_INSTANCE_ID = 2
    INSTANCE_DELETE_MAXTIME = 1
    INSTANCE_DELETE_RECHECK = 1
INVARIANTS TypeOK InstanceOutlivesPlayers PlacementUnambiguous
PROPERTY EmptyInstancesGo
CHECK_DEADLOCK FALSE
