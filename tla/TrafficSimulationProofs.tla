---------------------- MODULE TrafficSimulationProofs ----------------------
(***************************************************************************)
(* Proofs about TrafficSimulation.tla, for every city map, any number of   *)
(* vehicles on it and any start.                                           *)
(*                                                                         *)
(* The vehicles stay on the map, so that each of their steps is one that   *)
(* Intersection.tla allows: the simulation refines it, and what            *)
(* IntersectionProofs.tla proves of it holds in the simulation.            *)
(***************************************************************************)
EXTENDS TrafficSimulation, TLAPS

MapInv ==
    /\ street \in [Vehicles -> Streets]
    /\ completion \in [Vehicles -> {"way", "halt", "end"}]
    /\ currDestination \in [Vehicles -> Intersections]
    /\ OnOwnStreet

-----------------------------------------------------------------------------
(* The map *)

LEMMA EndsAreIntersections ==
    ASSUME NEW s \in Streets
    PROVE  Ends(s) \subseteq Intersections
    BY CityAssumption DEF CityAssumption, Ends

\* A vehicle never turns onto a street that does not meet the intersection, a dead
\* end included (Vehicle.cpp:93-105).
LEMMA NextStreetMeets ==
    ASSUME NEW s \in Streets, NEW i \in Ends(s), NEW t \in NextStreets(i, s)
    PROVE  t \in Streets /\ i \in Ends(t)
    BY DEF NextStreets, queryStreets

\* The other end of a street is another intersection, and with the first one it makes
\* up the ends of the street (Vehicle.cpp:107-108).
LEMMA OtherEndOfStreet ==
    ASSUME NEW s \in Streets, NEW i \in Ends(s)
    PROVE  /\ OtherEnd(s, i) \in Intersections
           /\ OtherEnd(s, i) # i
           /\ Ends(s) = {i, OtherEnd(s, i)}
    BY CityAssumption DEF CityAssumption, Ends, OtherEnd

-----------------------------------------------------------------------------
(* The vehicles keep to it *)

LEMMA TurnStaysOnMap ==
    ASSUME MapInv, NEW v \in Vehicles, Turn(v)
    PROVE  MapInv'
<1>1. street[v] \in Streets /\ currDestination[v] \in Ends(street[v])
    BY DEF MapInv, OnOwnStreet
<1>2. PICK s \in NextStreets(currDestination[v], street[v]) :
        /\ street' = [street EXCEPT ![v] = s]
        /\ currDestination' = [currDestination EXCEPT ![v] = OtherEnd(s, currDestination[v])]
    BY DEF Turn, Inter!HasLeft
<1>3. s \in Streets /\ currDestination[v] \in Ends(s)
    BY <1>1, NextStreetMeets
<1>4. OtherEnd(s, currDestination[v]) \in Ends(s) \cap Intersections
    BY <1>3, OtherEndOfStreet
<1>5. completion' \in [Vehicles -> {"way", "halt", "end"}]
    BY DEF MapInv, Turn
<1>6. QED
    BY <1>2, <1>3, <1>4, <1>5 DEF MapInv, OnOwnStreet

LEMMA NextMapInv ==
    ASSUME MapInv, [Next]_vars
    PROVE  MapInv'
<1>1. ASSUME NEW v \in Vehicles, Drive(v)
      PROVE  MapInv'
    <2>1. CASE ReachHaltingPosition(v)
        BY <2>1 DEF ReachHaltingPosition, Inter!RequestEntry, MapInv, OnOwnStreet
    <2>2. CASE Cross(v)
        BY <2>2 DEF Cross, interVars, MapInv, OnOwnStreet
    <2>3. CASE QueueStep(v)
        BY <2>3 DEF QueueStep, Inter!LockStep, Inter!Announce, Inter!Granted,
                    Inter!PushBack, Inter!CheckLight, Inter!WaitForGreen, driveVars,
                    MapInv, OnOwnStreet
    <2>4. QED
        BY <1>1, <2>1, <2>2, <2>3, TurnStaysOnMap DEF Drive
<1>2. ASSUME NEW i \in Intersections, City(i)
      PROVE  MapInv'
    BY <1>2 DEF City, Inter!ProcStep, Inter!Poll, Inter!Block, Inter!Permit,
                Inter!CycleLight, driveVars, MapInv, OnOwnStreet
<1>3. CASE UNCHANGED vars
    BY <1>3 DEF vars, driveVars, interVars, MapInv, OnOwnStreet
<1>4. QED
    BY <1>1, <1>2, <1>3 DEF Next

THEOREM OnTheMap == Spec => []MapInv
<1>1. Init => MapInv
    BY CityAssumption, EndsAreIntersections
       DEF CityAssumption, Init, Inter!Init, MapInv, OnOwnStreet
<1>2. MapInv /\ [Next]_vars => MapInv'
    BY NextMapInv
<1>3. QED
    BY <1>1, <1>2, PTL DEF Spec

\* Street and destination always agree, for every map: the destination is an end of
\* the street the vehicle is on (Vehicle.cpp:107-118).
THEOREM NeverOffTheStreet == Spec => []OnOwnStreet
<1>1. MapInv => OnOwnStreet
    BY DEF MapInv
<1>2. QED
    BY <1>1, OnTheMap, PTL

-----------------------------------------------------------------------------
(* The simulation refines Intersection.tla *)

LEMMA TurnLeaves ==
    ASSUME MapInv, NEW v \in Vehicles, Turn(v)
    PROVE  \E next \in Intersections : Inter!HasLeft(v, next)
<1>1. street[v] \in Streets /\ currDestination[v] \in Ends(street[v])
    BY DEF MapInv, OnOwnStreet
<1>2. PICK s \in NextStreets(currDestination[v], street[v]) :
        Inter!HasLeft(v, OtherEnd(s, currDestination[v]))
    BY DEF Turn
<1>3. OtherEnd(s, currDestination[v]) \in Intersections
    BY <1>1, NextStreetMeets, OtherEndOfStreet
<1>4. QED
    BY <1>2, <1>3

LEMMA NextInter ==
    ASSUME MapInv, [Next]_vars
    PROVE  [Inter!Next]_(Inter!vars)
<1>1. ASSUME NEW v \in Vehicles, Drive(v)
      PROVE  [Inter!Next]_(Inter!vars)
    <2>1. CASE Cross(v)
        BY <2>1 DEF Cross, interVars, Inter!vars, Inter!lightVars
    <2>2. CASE Turn(v)
        BY <2>2, TurnLeaves DEF Inter!Next, Inter!VehicleStep
    <2>3. CASE ReachHaltingPosition(v)
        BY <2>3 DEF ReachHaltingPosition, Inter!Next, Inter!VehicleStep
    <2>4. CASE QueueStep(v)
        BY <2>4 DEF QueueStep, Inter!Next, Inter!VehicleStep
    <2>5. QED
        BY <1>1, <2>1, <2>2, <2>3, <2>4 DEF Drive
<1>2. ASSUME NEW i \in Intersections, City(i)
      PROVE  [Inter!Next]_(Inter!vars)
    BY <1>2 DEF City, Inter!Next
<1>3. CASE UNCHANGED vars
    BY <1>3 DEF vars, interVars, Inter!vars, Inter!lightVars
<1>4. QED
    BY <1>1, <1>2, <1>3 DEF Next

\* On every map the vehicles and the intersections behave as Intersection.tla says:
\* drive() makes no step that it does not allow (Vehicle.cpp:77-122).
THEOREM Refinement == Spec => RefinesIntersection
<1>1. Init => Inter!Init
    BY DEF Init
<1>2. MapInv /\ [Next]_vars => [Inter!Next]_(Inter!vars)
    BY NextInter
<1>3. QED
    BY <1>1, <1>2, OnTheMap, PTL DEF Spec, RefinesIntersection, Inter!SafetySpec

-----------------------------------------------------------------------------
(* The journeys *)

\* What a turn does to the vehicle that makes it (Vehicle.cpp:91-118).
LEMMA TurnIsConnected ==
    ASSUME MapInv, NEW v \in Vehicles, Turn(v)
    PROVE  /\ v \in Inter!Inside(currDestination[v])
           /\ Ends(street'[v]) = {currDestination[v], currDestination'[v]}
           /\ street'[v] = street[v] =>
                \A s \in Streets \ {street[v]} : currDestination[v] \notin Ends(s)
<1>1. street[v] \in Streets /\ currDestination[v] \in Ends(street[v])
    BY DEF MapInv, OnOwnStreet
<1>2. PICK s \in NextStreets(currDestination[v], street[v]) :
        /\ street' = [street EXCEPT ![v] = s]
        /\ Inter!HasLeft(v, OtherEnd(s, currDestination[v]))
    BY DEF Turn
<1>3. street'[v] = s /\ currDestination'[v] = OtherEnd(s, currDestination[v])
    BY <1>2 DEF MapInv, Inter!HasLeft
<1>4. v \in Inter!Inside(currDestination[v])
    BY <1>2 DEF Inter!HasLeft, Inter!Goto, Inter!Inside, Inter!EnteredPcs
<1>5. Ends(s) = {currDestination[v], OtherEnd(s, currDestination[v])}
    BY <1>1, NextStreetMeets, OtherEndOfStreet
<1>6. s = street[v] => \A t \in Streets \ {street[v]} : currDestination[v] \notin Ends(t)
    BY DEF NextStreets, queryStreets
<1>7. QED
    BY <1>3, <1>4, <1>5, <1>6

\* A turn is of one vehicle, and nothing else changes a street or a destination.
LEMMA OnlyTurnsMove ==
    ASSUME MapInv, [Next]_vars, NEW v \in Vehicles, ~Turn(v)
    PROVE  UNCHANGED <<street[v], currDestination[v]>>
<1>1. ASSUME NEW w \in Vehicles, Drive(w)
      PROVE  UNCHANGED <<street[v], currDestination[v]>>
    <2>1. CASE Turn(w)
        <3>1. w # v
            BY <2>1
        <3>2. QED
            BY <2>1, <3>1 DEF Turn, Inter!HasLeft, MapInv
    <2>2. CASE ReachHaltingPosition(w) \/ Cross(w)
        BY <2>2 DEF ReachHaltingPosition, Inter!RequestEntry, Cross, interVars
    <2>3. CASE QueueStep(w)
        BY <2>3 DEF QueueStep, Inter!LockStep, Inter!Announce, Inter!Granted,
                    Inter!PushBack, Inter!CheckLight, Inter!WaitForGreen, driveVars
    <2>4. QED
        BY <1>1, <2>1, <2>2, <2>3 DEF Drive
<1>2. ASSUME NEW i \in Intersections, City(i)
      PROVE  UNCHANGED <<street[v], currDestination[v]>>
    BY <1>2 DEF City, Inter!ProcStep, Inter!Poll, Inter!Block, Inter!Permit,
                Inter!CycleLight, driveVars
<1>3. CASE UNCHANGED vars
    BY <1>3 DEF vars, driveVars, interVars
<1>4. QED
    BY <1>1, <1>2, <1>3 DEF Next

\* The journey of every vehicle is a path of the map: it leaves an intersection it
\* was let into, onto a street of that intersection, and turns round only in a dead
\* end (Vehicle.cpp:91-118).
THEOREM NoJumps == Spec => Journey
<1>1. ASSUME MapInv, [Next]_vars, NEW v \in Vehicles,
             <<street[v], currDestination[v]>>' # <<street[v], currDestination[v]>>
      PROVE  /\ v \in Inter!Inside(currDestination[v])
             /\ Ends(street'[v]) = {currDestination[v], currDestination'[v]}
             /\ street'[v] = street[v] =>
                  \A s \in Streets \ {street[v]} : currDestination[v] \notin Ends(s)
    BY <1>1, OnlyTurnsMove, TurnIsConnected
<1> DEFINE J == \A v \in Vehicles :
         <<street[v], currDestination[v]>>' # <<street[v], currDestination[v]>> =>
           /\ v \in Inter!Inside(currDestination[v])
           /\ Ends(street'[v]) = {currDestination[v], currDestination'[v]}
           /\ street'[v] = street[v] =>
                \A s \in Streets \ {street[v]} : currDestination[v] \notin Ends(s)
<1>2. MapInv /\ [Next]_vars => [J]_vars
    BY <1>1
<1>3. QED
    BY <1>2, OnTheMap, PTL DEF Spec, Journey

-----------------------------------------------------------------------------
(* What holds of the intersections holds in the simulation *)

P == INSTANCE IntersectionProofs

\* The two instances have the same actions.
LEMMA SameNext ==
    ASSUME [Inter!Next]_(Inter!vars)
    PROVE  [P!Next]_(P!vars)
    BY DEF Inter!Next, P!Next, Inter!vars, P!vars, Inter!lightVars, P!lightVars,
           Inter!gateVars, P!gateVars, Inter!VehicleStep, P!VehicleStep,
           Inter!LockStep, P!LockStep, Inter!ProcStep, P!ProcStep, Inter!Goto, P!Goto,
           Inter!RequestEntry, P!RequestEntry, Inter!Announce, P!Announce,
           Inter!Granted, P!Granted, Inter!PushBack, P!PushBack,
           Inter!CheckLight, P!CheckLight, Inter!WaitForGreen, P!WaitForGreen,
           Inter!HasLeft, P!HasLeft, Inter!Poll, P!Poll, Inter!Block, P!Block,
           Inter!Permit, P!Permit, Inter!CycleLight, P!CycleLight,
           Inter!Light!LightStep, P!Light!LightStep, Inter!Light!Toggle, P!Light!Toggle,
           Inter!Light!Send, P!Light!Send, Inter!Light!Receive, P!Light!Receive,
           Inter!Light!Newest, P!Light!Newest, Inter!Light!Other, P!Light!Other

\* What the intersections keep to, all of it.
SafetyOfIntersections ==
    /\ Inter!AtMostOneInside
    /\ Inter!BlockedIffOccupied
    /\ Inter!PermitHasWaiter
    /\ Inter!WaitersQueuedOnce
    /\ Inter!MtxHeldAtLight

\* In the whole simulation, on any map, no two vehicles are ever in the same
\* intersection, none is left waiting in a free one, no promise is lost or fulfilled
\* twice, and one vehicle at most waits for a light (Intersection.cpp:73-141).
THEOREM SafeCity == Spec => [](Inter!TypeOK /\ SafetyOfIntersections)
<1>1. P!IntersectionAssumption
    BY CityAssumption DEF CityAssumption, P!IntersectionAssumption
<1>2. Inter!Init => P!IInv
    BY <1>1, P!InitIInv DEF P!Init, Inter!Init
<1>3. P!IInv /\ [Inter!Next]_(Inter!vars) => P!IInv'
    BY <1>1, P!NextIInv, SameNext
<1>4. P!IInv => Inter!TypeOK
    BY DEF P!IInv, P!TypeOK, Inter!TypeOK, P!VehiclePcs, Inter!VehiclePcs,
           P!Light!Phases, Inter!Light!Phases
<1>5. P!IInv => SafetyOfIntersections
    BY DEF P!IInv, P!GateInv, SafetyOfIntersections, P!AtMostOneInside,
           Inter!AtMostOneInside, P!BlockedIffOccupied, Inter!BlockedIffOccupied,
           P!PermitHasWaiter, Inter!PermitHasWaiter, P!WaitersQueuedOnce,
           Inter!WaitersQueuedOnce, P!MtxHeldAtLight, Inter!MtxHeldAtLight,
           P!Inside, Inter!Inside, P!EnteredPcs, Inter!EnteredPcs
<1>6. QED
    BY <1>2, <1>3, <1>4, <1>5, Refinement, PTL DEF RefinesIntersection, Inter!SafetySpec

\* And the same gates.
LEMMA SameGate ==
    ASSUME [P!Gate!Next]_(P!Gate!vars)
    PROVE  [Inter!Gate!Next]_(Inter!Gate!vars)
    BY DEF P!Gate!Next, Inter!Gate!Next, P!Gate!vars, Inter!Gate!vars, P!Gate!Admit,
           Inter!Gate!Admit, P!Gate!Arrive, Inter!Gate!Arrive, P!Gate!Leave, Inter!Gate!Leave,
           P!Gate!Engaged, Inter!Gate!Engaged, P!Inside, Inter!Inside,
           P!EnteredPcs, Inter!EnteredPcs

\* On any map every intersection is a gate that admits the vehicles in the order of
\* their arrival, and one at a time (Intersection.cpp:73-95, :120-141).
THEOREM FairCity == Spec => Inter!Gate!SafetySpec
<1>1. P!IntersectionAssumption
    BY CityAssumption DEF CityAssumption, P!IntersectionAssumption
<1>2. Inter!Init => P!IInv
    BY <1>1, P!InitIInv DEF P!Init, Inter!Init
<1>3. P!IInv /\ [Inter!Next]_(Inter!vars) => P!IInv'
    BY <1>1, P!NextIInv, SameNext
<1>4. Inter!Init => Inter!Gate!Init
    BY DEF Inter!Init, Inter!Gate!Init, Inter!Inside, Inter!EnteredPcs
<1>5. P!IInv /\ [Inter!Next]_(Inter!vars) => [Inter!Gate!Next]_(Inter!Gate!vars)
    <2>1. P!IInv /\ [P!Next]_(P!vars) => [P!Gate!Next]_(P!Gate!vars)
        BY <1>1, P!NextGate
    <2>2. QED
        BY <2>1, SameNext, SameGate
<1>6. QED
    BY <1>2, <1>3, <1>4, <1>5, Refinement, PTL
    DEF RefinesIntersection, Inter!SafetySpec, Inter!Gate!SafetySpec

\* Every variable of the simulation keeps to its type.
THEOREM TypeCorrect == Spec => []TypeOK
<1>1. MapInv /\ Inter!TypeOK => TypeOK
    BY DEF MapInv, TypeOK
<1>2. QED
    BY <1>1, OnTheMap, SafeCity, PTL
=============================================================================
