-------------------------- MODULE TrafficSimulation --------------------------
(***************************************************************************)
(* The whole simulation: the drive() loop of the vehicles (Vehicle.cpp)    *)
(* over a city map, composed with the intersections, their queue threads   *)
(* and their lights (Intersection.tla, TrafficLight.tla).                  *)
(*                                                                         *)
(* A position is abstracted to what drive() asks of it: is the vehicle     *)
(* still on its way, has it reached the halting position (90% of the       *)
(* street) or the end of the street.  One iteration may carry it past any  *)
(* of these points, for the distance depends on how long the iteration     *)
(* took.  The speed only changes how soon that happens and is left out.    *)
(***************************************************************************)
EXTENDS Naturals, Sequences

CONSTANTS
    Vehicles, Intersections, Nobody, NoIntersection, MaxMsgs,
    Streets,
    InIntersection,    \* _interIn of each street
    OutIntersection,   \* _interOut of each street
    StartStreet,       \* where main() puts each vehicle
    StartDestination

Ends(s) == {InIntersection[s], OutIntersection[s]}

ASSUME CityAssumption ==
    /\ Nobody \notin Vehicles
    /\ NoIntersection \notin Intersections
    /\ MaxMsgs \in Nat \ {0}
    /\ InIntersection \in [Streets -> Intersections]
    /\ OutIntersection \in [Streets -> Intersections]
    /\ \A s \in Streets : InIntersection[s] # OutIntersection[s]
    /\ StartStreet \in [Vehicles -> Streets]
    /\ \A v \in Vehicles : StartDestination[v] \in Ends(StartStreet[v])

VARIABLES
    street,      \* _currStreet of each vehicle
    completion,  \* how far it is on that street: "way", "halt" or "end"
    pc, currDestination, mtx, waitingVehicles, isBlocked, procPc,
    currentPhase, msgQueue, inFlight

driveVars == <<street, completion>>
interVars == <<pc, currDestination, mtx, waitingVehicles, isBlocked, procPc,
               currentPhase, msgQueue, inFlight>>
vars == <<driveVars, interVars>>

Inter == INSTANCE Intersection

Init ==
    /\ street = StartStreet
    /\ completion = [v \in Vehicles |-> "way"]
    /\ Inter!Init
    /\ currDestination = StartDestination

\* A query that returns the street the vehicle came on as well.
queryAllStreets(i, incoming) == {s \in Streets : i \in Ends(s)}

\* Intersection::queryStreets: every street that was connected to the intersection
\* by setInIntersection or setOutIntersection, except the one the vehicle is on.
queryStreets(i, incoming) == {s \in Streets : i \in Ends(s)} \ {incoming}

\* A dead end is left by the street the vehicle came on.
NextStreets(i, incoming) ==
    IF queryStreets(i, incoming) # {} THEN queryStreets(i, incoming) ELSE {incoming}

\* "Pick the one intersection at which the vehicle is currently not."
OtherEnd(s, i) == IF InIntersection[s] = i THEN OutIntersection[s] ELSE InIntersection[s]

-----------------------------------------------------------------------------
(* One iteration of drive(), as far as it changes anything *)

\* The update of the position reaches the halting position or goes beyond it, and
\* the vehicle asks for entry.
ReachHaltingPosition(v) ==
    /\ \E c \in {"halt", "end"} : completion' = [completion EXCEPT ![v] = c]
    /\ Inter!RequestEntry(v)
    /\ UNCHANGED street

\* A vehicle that has entered goes on, slowly, to the end of the street.
Cross(v) ==
    /\ pc[v] = "crossing"
    /\ completion[v] = "halt"
    /\ completion' = [completion EXCEPT ![v] = "end"]
    /\ UNCHANGED <<street, interVars>>

\* A turn that computes the destination from the street it leaves.
TurnOldStreet(v) ==
    /\ completion[v] = "end"
    /\ \E s \in NextStreets(currDestination[v], street[v]) :
         /\ street' = [street EXCEPT ![v] = s]
         /\ Inter!HasLeft(v, OtherEnd(street[v], currDestination[v]))
    /\ completion' = [completion EXCEPT ![v] = "way"]

\* A turn that does not tell the intersection.
TurnSilently(v) ==
    /\ completion[v] = "end"
    /\ \E s \in NextStreets(currDestination[v], street[v]) :
         /\ street' = [street EXCEPT ![v] = s]
         /\ Inter!LeaveSilently(v, OtherEnd(s, currDestination[v]))
    /\ completion' = [completion EXCEPT ![v] = "way"]

\* completion >= 1.0 && hasEnteredIntersection: the next street is drawn, the
\* intersection is told, destination, street and position are set.
Turn(v) ==
    /\ completion[v] = "end"
    /\ \E s \in NextStreets(currDestination[v], street[v]) :
         /\ street' = [street EXCEPT ![v] = s]
         /\ Inter!HasLeft(v, OtherEnd(s, currDestination[v]))
    /\ completion' = [completion EXCEPT ![v] = "way"]

\* What the vehicle's threads do inside addVehicleToQueue.
QueueStep(v) ==
    /\ \/ Inter!LockStep(v)
       \/ Inter!PushBack(v)
       \/ Inter!CheckLight(v)
       \/ Inter!WaitForGreen(v)
    /\ UNCHANGED driveVars

Drive(v) == ReachHaltingPosition(v) \/ Cross(v) \/ Turn(v) \/ QueueStep(v)

City(i) == (Inter!ProcStep(i) \/ Inter!CycleLight(i)) /\ UNCHANGED driveVars

Next ==
    \/ \E v \in Vehicles : Drive(v)
    \/ \E i \in Intersections : City(i)

Spec == Init /\ [][Next]_vars

-----------------------------------------------------------------------------
TypeOK ==
    /\ street \in [Vehicles -> Streets]
    /\ completion \in [Vehicles -> {"way", "halt", "end"}]
    /\ Inter!TypeOK

\* Street and destination, which are set by two calls, agree: the destination is
\* an end of the street the vehicle is on, and therefore the position computed
\* from the other end (Vehicle.cpp:62-64) is on that street.
OnOwnStreet == \A v \in Vehicles : currDestination[v] \in Ends(street[v])

\* The journey has no jumps: a vehicle changes street only by leaving an
\* intersection it was let into, onto a street of that intersection, towards the
\* other end; and it turns round only where there is no other street
\* (Vehicle.cpp:91-118).
Journey ==
    [][\A v \in Vehicles :
         <<street[v], currDestination[v]>>' # <<street[v], currDestination[v]>> =>
           /\ v \in Inter!Inside(currDestination[v])
           /\ Ends(street'[v]) = {currDestination[v], currDestination'[v]}
           /\ street'[v] = street[v] =>
                \A s \in Streets \ {street[v]} : currDestination[v] \notin Ends(s)]_vars

\* On the map, vehicles and intersections still behave as Intersection.tla says:
\* what is checked there for arbitrary journeys holds for the journeys of the
\* simulation (Vehicle.cpp:77-122).
RefinesIntersection == Inter!SafetySpec
=============================================================================
