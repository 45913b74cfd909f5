---------------------------- MODULE Intersection ----------------------------
(***************************************************************************)
(* The class Intersection (Intersection.cpp) with the calls of the vehicle *)
(* threads into it (Vehicle.cpp:77-123) and the traffic light each         *)
(* intersection owns.  Three kinds of threads run: one drive() per vehicle *)
(* (and the std::async it waits for), one processVehicleQueue() per        *)
(* intersection, and the light's thread with its asynchronous sends.       *)
(*                                                                         *)
(* The mutex mtx is TrafficObject::_mtx, a static member: one for all      *)
(* vehicles and all intersections.  addVehicleToQueue holds it while it    *)
(* waits for the light.                                                    *)
(*                                                                         *)
(* Where a vehicle goes is free here: any other intersection may be the    *)
(* next one.  TrafficSimulation.tla restricts it to the city map.          *)
(***************************************************************************)
EXTENDS Naturals, Sequences

CONSTANTS
    Vehicles,
    Intersections,
    Nobody,          \* mtx is free
    NoIntersection,
    MaxMsgs          \* bound of the model, see TrafficLight.tla

ASSUME IntersectionAssumption ==
    /\ Nobody \notin Vehicles
    /\ NoIntersection \notin Intersections
    /\ MaxMsgs \in Nat \ {0}

VARIABLES
    pc,               \* where the vehicle is in its protocol, see TypeOK
    currDestination,  \* _currDestination of each vehicle
    mtx,              \* TrafficObject::_mtx: the vehicle that holds it
    waitingVehicles,  \* _waitingVehicles of each intersection
    isBlocked,        \* _isBlocked of each intersection
    procPc,           \* where processVehicleQueue of each intersection is
    currentPhase,     \* the light of each intersection
    msgQueue,
    inFlight

lightVars == <<currentPhase, msgQueue, inFlight>>
gateVars == <<waitingVehicles, isBlocked, procPc>>
vars == <<pc, currDestination, mtx, waitingVehicles, isBlocked, procPc, lightVars>>

Light == INSTANCE TrafficLight WITH
    Lights <- Intersections,
    Callers <- Vehicles,
    NoLight <- NoIntersection,
    waiter <- [v \in Vehicles |->
                 IF pc[v] = "waitForGreen" THEN currDestination[v] ELSE NoIntersection]

Init ==
    /\ pc = [v \in Vehicles |-> "driving"]
    /\ currDestination \in [Vehicles -> Intersections]
    /\ mtx = Nobody
    /\ waitingVehicles = [i \in Intersections |-> << >>]
    /\ isBlocked = [i \in Intersections |-> FALSE]
    /\ procPc = [i \in Intersections |-> "poll"]
    /\ currentPhase = [i \in Intersections |-> "red"]
    /\ msgQueue = [i \in Intersections |-> << >>]
    /\ inFlight = [i \in Intersections |-> "none"]

Goto(v, from, to) == pc[v] = from /\ pc' = [pc EXCEPT ![v] = to]

-----------------------------------------------------------------------------
(* A vehicle's thread: addVehicleToQueue at its destination *)

\* The halting position is reached: std::async starts addVehicleToQueue.
RequestEntry(v) ==
    /\ Goto(v, "driving", "announce")
    /\ UNCHANGED <<currDestination, mtx, gateVars, lightVars>>

\* The first message: mtx is taken and given back within the step.
Announce(v) ==
    /\ mtx = Nobody
    /\ Goto(v, "announce", "push")
    /\ UNCHANGED <<currDestination, mtx, gateVars, lightVars>>

\* A pushBack that puts the newcomer in front.
PushFront(v) ==
    /\ Goto(v, "push", "await")
    /\ waitingVehicles' =
         [waitingVehicles EXCEPT ![currDestination[v]] = << v >> \o @]
    /\ UNCHANGED <<currDestination, mtx, isBlocked, procPc, lightVars>>

\* WaitingVehicles::pushBack, then the wait on the future.
PushBack(v) ==
    /\ Goto(v, "push", "await")
    /\ waitingVehicles' =
         [waitingVehicles EXCEPT ![currDestination[v]] = Append(@, v)]
    /\ UNCHANGED <<currDestination, mtx, isBlocked, procPc, lightVars>>

\* A second part of addVehicleToQueue that forgets the mutex.
GrantedUnlocked(v) ==
    /\ Goto(v, "granted", "checkLight")
    /\ UNCHANGED <<currDestination, mtx, gateVars, lightVars>>

\* The future is ready and the mutex is taken for the second message.
Granted(v) ==
    /\ mtx = Nobody
    /\ mtx' = v
    /\ Goto(v, "granted", "checkLight")
    /\ UNCHANGED <<currDestination, gateVars, lightVars>>

\* A check of the light that keeps the mutex when the light is green.
CheckLightLeak(v) ==
    /\ \/ /\ currentPhase[currDestination[v]] = "red"
          /\ Goto(v, "checkLight", "waitForGreen")
       \/ /\ currentPhase[currDestination[v]] # "red"
          /\ Goto(v, "checkLight", "crossing")
    /\ UNCHANGED <<currDestination, mtx, gateVars, lightVars>>

\* getCurrentPhase() == red, read without the light's cooperation; the mutex is
\* given back at once only if the light is green.
CheckLight(v) ==
    /\ \/ /\ currentPhase[currDestination[v]] = "red"
          /\ Goto(v, "checkLight", "waitForGreen")
          /\ UNCHANGED mtx
       \/ /\ currentPhase[currDestination[v]] # "red"
          /\ Goto(v, "checkLight", "crossing")
          /\ mtx' = Nobody
    /\ UNCHANGED <<currDestination, gateVars, lightVars>>

\* One receive() inside waitForGreen, still under the mutex.
WaitForGreen(v) ==
    /\ pc[v] = "waitForGreen"
    /\ msgQueue[currDestination[v]] # << >>
    /\ \/ /\ Light!Newest(currDestination[v]) = "green"
          /\ UNCHANGED <<pc, mtx>>
       \/ /\ Light!Newest(currDestination[v]) # "green"
          /\ pc' = [pc EXCEPT ![v] = "crossing"]
          /\ mtx' = Nobody
    /\ UNCHANGED <<currDestination, gateVars>>
    /\ Light!Receive(v)

\* A departure that does not report to the intersection.
LeaveSilently(v, next) ==
    /\ Goto(v, "crossing", "driving")
    /\ next # currDestination[v]
    /\ currDestination' = [currDestination EXCEPT ![v] = next]
    /\ UNCHANGED <<mtx, gateVars, lightVars>>

\* A departure that reports to the intersection the vehicle goes to.
LeaveAfterTurn(v, next) ==
    /\ Goto(v, "crossing", "driving")
    /\ next # currDestination[v]
    /\ isBlocked' = [isBlocked EXCEPT ![next] = FALSE]
    /\ currDestination' = [currDestination EXCEPT ![v] = next]
    /\ UNCHANGED <<mtx, waitingVehicles, procPc, lightVars>>

\* The intersection is crossed: vehicleHasLeft, then the new destination, which
\* only this thread reads.
HasLeft(v, next) ==
    /\ Goto(v, "crossing", "driving")
    /\ next # currDestination[v]
    /\ isBlocked' = [isBlocked EXCEPT ![currDestination[v]] = FALSE]
    /\ currDestination' = [currDestination EXCEPT ![v] = next]
    /\ UNCHANGED <<mtx, waitingVehicles, procPc, lightVars>>

-----------------------------------------------------------------------------
(* An intersection's thread: processVehicleQueue *)

\* A poll that does not look whether the intersection is free.
PollUnchecked(i) ==
    /\ procPc[i] = "poll"
    /\ waitingVehicles[i] # << >>
    /\ procPc' = [procPc EXCEPT ![i] = "block"]
    /\ UNCHANGED <<pc, currDestination, mtx, waitingVehicles, isBlocked, lightVars>>

\* A poll that does not look whether somebody waits.
PollEmpty(i) ==
    /\ procPc[i] = "poll"
    /\ ~isBlocked[i]
    /\ procPc' = [procPc EXCEPT ![i] = "block"]
    /\ UNCHANGED <<pc, currDestination, mtx, waitingVehicles, isBlocked, lightVars>>

\* getSize() > 0 && !_isBlocked, read one after the other: a queue that has a
\* vehicle keeps one until this thread itself removes it.
Poll(i) ==
    /\ procPc[i] = "poll"
    /\ waitingVehicles[i] # << >>
    /\ ~isBlocked[i]
    /\ procPc' = [procPc EXCEPT ![i] = "block"]
    /\ UNCHANGED <<pc, currDestination, mtx, waitingVehicles, isBlocked, lightVars>>

\* setIsBlocked(true)
Block(i) ==
    /\ procPc[i] = "block"
    /\ isBlocked' = [isBlocked EXCEPT ![i] = TRUE]
    /\ procPc' = [procPc EXCEPT ![i] = "permit"]
    /\ UNCHANGED <<pc, currDestination, mtx, waitingVehicles, lightVars>>

\* A permitEntryToFirstInQueue that erases the vehicle at the other end.
PermitKeep(i) ==
    /\ procPc[i] = "permit"
    /\ waitingVehicles[i] # << >>
    /\ pc' = [pc EXCEPT ![Head(waitingVehicles[i])] = "granted"]
    /\ waitingVehicles' =
         [waitingVehicles EXCEPT ![i] = SubSeq(@, 1, Len(@) - 1)]
    /\ procPc' = [procPc EXCEPT ![i] = "poll"]
    /\ UNCHANGED <<currDestination, mtx, isBlocked, lightVars>>

\* permitEntryToFirstInQueue: the first promise is fulfilled and both fronts are
\* erased.  On an empty queue this would be undefined: PermitHasWaiter.
Permit(i) ==
    /\ procPc[i] = "permit"
    /\ waitingVehicles[i] # << >>
    /\ pc' = [pc EXCEPT ![Head(waitingVehicles[i])] = "granted"]
    /\ waitingVehicles' = [waitingVehicles EXCEPT ![i] = Tail(@)]
    /\ procPc' = [procPc EXCEPT ![i] = "poll"]
    /\ UNCHANGED <<currDestination, mtx, isBlocked, lightVars>>

-----------------------------------------------------------------------------
(* A light's threads *)

CycleLight(i) ==
    /\ UNCHANGED <<pc, currDestination, mtx, gateVars>>
    /\ Light!LightStep(i)

-----------------------------------------------------------------------------
LockStep(v) == Announce(v) \/ Granted(v)

VehicleStep(v) ==
    \/ RequestEntry(v)
    \/ LockStep(v)
    \/ PushBack(v)
    \/ CheckLight(v)
    \/ WaitForGreen(v)
    \/ \E next \in Intersections : HasLeft(v, next)

ProcStep(i) == Poll(i) \/ Block(i) \/ Permit(i)

Next ==
    \/ \E v \in Vehicles : VehicleStep(v)
    \/ \E i \in Intersections : ProcStep(i) \/ CycleLight(i)

(***************************************************************************)
(* Every thread is an infinite loop with a sleep of a millisecond: it goes *)
(* on as long as it can.  Spec does not assume that a thread waiting for   *)
(* mtx ever wins against the others; FairMutex does.                       *)
(***************************************************************************)
SafetySpec == Init /\ [][Next]_vars

Spec ==
    /\ SafetySpec
    /\ \A v \in Vehicles : WF_vars(VehicleStep(v))
    /\ \A i \in Intersections : WF_vars(ProcStep(i)) /\ WF_vars(CycleLight(i))

FairMutex == \A v \in Vehicles : SF_vars(LockStep(v))

-----------------------------------------------------------------------------
VehiclePcs == {"driving", "announce", "push", "await", "granted", "checkLight",
               "waitForGreen", "crossing"}

TypeOK ==
    /\ pc \in [Vehicles -> VehiclePcs]
    /\ currDestination \in [Vehicles -> Intersections]
    /\ mtx \in Vehicles \cup {Nobody}
    /\ waitingVehicles \in [Intersections -> Seq(Vehicles)]
    /\ isBlocked \in [Intersections -> BOOLEAN]
    /\ procPc \in [Intersections -> {"poll", "block", "permit"}]
    /\ currentPhase \in [Intersections -> Light!Phases]
    /\ msgQueue \in [Intersections -> Seq(Light!Phases)]
    /\ inFlight \in [Intersections -> Light!Phases \cup {"none"}]

\* The vehicles that were let into an intersection and have not left it.
EnteredPcs == {"granted", "checkLight", "waitForGreen", "crossing"}

Inside(i) == {v \in Vehicles : currDestination[v] = i /\ pc[v] \in EnteredPcs}

\* Two vehicles are never in the same intersection, although the flag that keeps
\* them apart is an unprotected bool that the vehicle resets and the queue
\* thread tests and sets in two steps (Intersection.cpp:102, :132-138).
AtMostOneInside ==
    \A i \in Intersections : \A v, w \in Inside(i) : v = w

\* The flag says no more and no less than that a vehicle is inside or about to be
\* let in: no vehicle is lost in a free intersection and no intersection stays
\* blocked for nobody (Intersection.cpp:97-103, :132-138).
BlockedIffOccupied ==
    \A i \in Intersections : isBlocked[i] <=> (procPc[i] = "permit" \/ Inside(i) # {})

\* permitEntryToFirstInQueue has a vehicle and a promise to work on, although it
\* does not look: the size was read in an earlier step (Intersection.cpp:132,
\* :34-41).
PermitHasWaiter ==
    \A i \in Intersections : procPc[i] # "poll" => waitingVehicles[i] # << >>

\* The queue thread lets a vehicle in only while the intersection is empty: since
\* it found the flag reset, nobody has entered (Intersection.cpp:132-138).
EmptyWhileLettingIn ==
    \A i \in Intersections : procPc[i] # "poll" => Inside(i) = {}

\* A queue holds exactly the vehicles that wait for a promise at this intersection
\* and each of them once: no promise is lost, and none is fulfilled twice
\* (Intersection.cpp:20-42, :80-85).
WaitersQueuedOnce ==
    /\ \A i \in Intersections : \A k \in 1..Len(waitingVehicles[i]) :
         /\ pc[waitingVehicles[i][k]] = "await"
         /\ currDestination[waitingVehicles[i][k]] = i
    /\ \A v \in Vehicles : pc[v] = "await" =>
         \E k \in 1..Len(waitingVehicles[currDestination[v]]) :
            waitingVehicles[currDestination[v]][k] = v
    /\ \A i \in Intersections : \A j, k \in 1..Len(waitingVehicles[i]) :
         waitingVehicles[i][j] = waitingVehicles[i][k] => j = k

\* A vehicle that looks at its light or waits for it holds the one mutex of all
\* traffic objects, and nobody else does: at any time at most one vehicle in the
\* whole city waits for a light, and every print of every other vehicle waits
\* with it (Intersection.cpp:86-94, TrafficObject.cpp:9).
MtxHeldAtLight ==
    \A v \in Vehicles : pc[v] \in {"checkLight", "waitForGreen"} <=> mtx = v

\* The intersections implement the gate: first come, first served, one at a time.
Gate == INSTANCE FifoGate WITH
    queue <- waitingVehicles,
    inside <- [i \in Intersections |-> Inside(i)]

GateSpec == Gate!Spec

\* Some vehicle always gets to cross again, whatever the order in which the mutex
\* serves the threads: the convoy behind a red light dissolves.
SomeoneAlwaysCrosses == []<>(\E v \in Vehicles : pc[v] = "crossing")

\* Every vehicle that asks to enter its intersection crosses it in the end, if no
\* thread is passed over for ever at the mutex (Intersection.cpp:73-95).
EntryIsServed ==
    FairMutex => \A v \in Vehicles : (pc[v] = "announce") ~> (pc[v] = "crossing")
=============================================================================
