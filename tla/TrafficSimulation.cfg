SPECIFICATION Spec
CONSTANTS
    plaza = plaza
    north = north
    south = south
    avenue = avenue
    boulevard = boulevard
    rue = rue
    v1 = v1
    v2 = v2
    Vehicles <- MCVehicles
    Intersections <- MCIntersections
    Streets <- MCStreets
    InIntersection <- MCIn
    OutIntersection <- MCOut
    StartStreet <- MCStartStreet
    StartDestination <- MCStartDestination
    Nobody = Nobody
    NoIntersection = NoIntersection
    MaxMsgs = 1
INVARIANTS
    OnOwnStreet
PROPERTIES
    Journey
    RefinesIntersection
