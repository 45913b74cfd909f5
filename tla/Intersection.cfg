SPECIFICATION Spec
CONSTANTS
    v1 = v1
    v2 = v2
    v3 = v3
    i1 = i1
    i2 = i2
    Vehicles <- ThreeVehicles
    Intersections <- TwoIntersections
    Nobody = Nobody
    NoIntersection = NoIntersection
    MaxMsgs = 1
INVARIANTS
    TypeOK
    AtMostOneInside
    BlockedIffOccupied
    PermitHasWaiter
    WaitersQueuedOnce
    MtxHeldAtLight
PROPERTIES
    GateSpec
    SomeoneAlwaysCrosses
    EntryIsServed
