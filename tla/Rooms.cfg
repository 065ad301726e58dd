\* Four requests on one room, which admits two or, at zero and below, only its host.
CONSTANTS
    Rooms = {m1}
    Capacities <- MCCapacities
    Requests = {r1, r2, r3, r4}
    Nobody = Nobody
SPECIFICATION Spec
INVARIANTS
    TypeOK
    RoomSound
    CountExact
PROPERTY FollowsLifecycle
SYMMETRY RequestSymmetry
CHECK_DEADLOCK FALSE
