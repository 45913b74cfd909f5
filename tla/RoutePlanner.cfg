SPECIFICATION FairSpec
CONSTANTS
    Nodes <- MCNodes
    NoNode = NoNode
    Roads <- MCRoads
    Maps <- MCMaps
    Dist <- MCDist
    sw = sw
    se = se
    nw = nw
    ne = ne
    mid = mid
    main = main
    market = market
    mill = mill
INVARIANTS TypeOK CostOfTheWay PathIsRoute SearchFindsRoute
PROPERTIES ParentsStay Terminates
CHECK_DEADLOCK FALSE
