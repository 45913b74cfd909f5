------------------------- MODULE IntersectionProofs -------------------------
(***************************************************************************)
(* Proofs about Intersection.tla, for any number of vehicles and of        *)
(* intersections and for every length of the lights' message queues.       *)
(*                                                                         *)
(* The properties of Intersection.tla hold one another up, so they are     *)
(* proved together: IInv, their conjunction, is inductive.  None of them   *)
(* is by itself.                                                           *)
(***************************************************************************)
EXTENDS Intersection, SequenceTheorems, TLAPS

\* What concerns the queues, the flags and the vehicles inside.
GateInv ==
    /\ WaitersQueuedOnce
    /\ PermitHasWaiter
    /\ EmptyWhileLettingIn
    /\ AtMostOneInside
    /\ BlockedIffOccupied

IInv == TypeOK /\ MtxHeldAtLight /\ GateInv

-----------------------------------------------------------------------------
(* The lights: their part of TypeOK *)

LightTypeOK ==
    /\ currentPhase \in [Intersections -> Light!Phases]
    /\ msgQueue \in [Intersections -> Seq(Light!Phases)]
    /\ inFlight \in [Intersections -> Light!Phases \cup {"none"}]

\* The light's own threads only handle phases (TrafficLight.cpp:79-93).
LEMMA LightStepType ==
    ASSUME LightTypeOK, NEW i \in Intersections, Light!LightStep(i)
    PROVE  LightTypeOK'
<1>1. CASE Light!Toggle(i)
    BY <1>1 DEF LightTypeOK, Light!Toggle, Light!Other, Light!Phases
<1>2. CASE Light!Send(i)
    <2>1. inFlight[i] \in Light!Phases
        BY <1>2 DEF LightTypeOK, Light!Send
    <2>2. Append(msgQueue[i], inFlight[i]) \in Seq(Light!Phases)
        BY <2>1 DEF LightTypeOK
    <2>3. QED
        BY <1>2, <2>2 DEF LightTypeOK, Light!Send
<1>3. QED
    BY <1>1, <1>2 DEF Light!LightStep

\* A receive leaves the older messages as they are (TrafficLight.cpp:19-20).
LEMMA ReceiveType ==
    ASSUME LightTypeOK, NEW v \in Vehicles, pc[v] = "waitForGreen",
           currDestination[v] \in Intersections,
           msgQueue[currDestination[v]] # << >>, Light!Receive(v)
    PROVE  LightTypeOK'
<1> DEFINE i == currDestination[v]
<1>1. \A s \in Seq(Light!Phases) :
        s # << >> => SubSeq(s, 1, Len(s) - 1) \in Seq(Light!Phases)
    OBVIOUS
<1>2. msgQueue' = [msgQueue EXCEPT ![i] = SubSeq(@, 1, Len(@) - 1)]
    BY DEF Light!Receive
<1>3. UNCHANGED <<currentPhase, inFlight>>
    BY DEF Light!Receive
<1>4. QED
    BY <1>1, <1>2, <1>3 DEF LightTypeOK

-----------------------------------------------------------------------------
(* Steps that do not change who is queued and who is inside *)

\* The thread of a vehicle moves on without entering, leaving or queueing.
LEMMA GateUnaffected ==
    ASSUME IInv, NEW v \in Vehicles, NEW to \in VehiclePcs,
           pc' = [pc EXCEPT ![v] = to], UNCHANGED <<currDestination, gateVars>>,
           pc[v] # "await", to # "await", pc[v] \in EnteredPcs <=> to \in EnteredPcs
    PROVE  GateInv'
<1>1. \A i \in Intersections : Inside(i)' = Inside(i)
    BY DEF IInv, TypeOK, Inside
<1>2. WaitersQueuedOnce'
    <2>1. \A w \in Vehicles : pc'[w] = "await" <=> pc[w] = "await"
        BY DEF IInv, TypeOK
    <2>2. \A i \in Intersections : \A k \in 1..Len(waitingVehicles[i]) :
            waitingVehicles[i][k] \in Vehicles
        BY DEF IInv, TypeOK
    <2>3. QED
        BY <2>1, <2>2 DEF IInv, GateInv, WaitersQueuedOnce, gateVars
<1>3. PermitHasWaiter' /\ EmptyWhileLettingIn' /\ AtMostOneInside' /\ BlockedIffOccupied'
    BY <1>1 DEF IInv, GateInv, PermitHasWaiter, EmptyWhileLettingIn, AtMostOneInside,
                BlockedIffOccupied, gateVars
<1>4. QED
    BY <1>2, <1>3 DEF GateInv

LEMMA RequestEntryStep ==
    ASSUME IInv, NEW v \in Vehicles, RequestEntry(v)
    PROVE  IInv'
<1> USE DEF RequestEntry, Goto
<1>1. TypeOK'
    BY DEF IInv, TypeOK, VehiclePcs, gateVars, lightVars
<1>2. MtxHeldAtLight'
    BY DEF IInv, TypeOK, MtxHeldAtLight
<1>3. GateInv'
    BY GateUnaffected DEF VehiclePcs, EnteredPcs
<1>4. QED
    BY <1>1, <1>2, <1>3 DEF IInv

LEMMA AnnounceStep ==
    ASSUME IInv, NEW v \in Vehicles, Announce(v)
    PROVE  IInv'
<1> USE DEF Announce, Goto
<1>1. TypeOK'
    BY DEF IInv, TypeOK, VehiclePcs, gateVars, lightVars
<1>2. MtxHeldAtLight'
    BY DEF IInv, TypeOK, MtxHeldAtLight
<1>3. GateInv'
    BY GateUnaffected DEF VehiclePcs, EnteredPcs
<1>4. QED
    BY <1>1, <1>2, <1>3 DEF IInv

LEMMA GrantedStep ==
    ASSUME IntersectionAssumption, IInv, NEW v \in Vehicles, Granted(v)
    PROVE  IInv'
<1> USE DEF Granted, Goto
<1>1. TypeOK'
    BY DEF IInv, TypeOK, VehiclePcs, gateVars, lightVars
<1>2. MtxHeldAtLight'
    BY DEF IntersectionAssumption, IInv, TypeOK, MtxHeldAtLight
<1>3. GateInv'
    BY GateUnaffected DEF VehiclePcs, EnteredPcs
<1>4. QED
    BY <1>1, <1>2, <1>3 DEF IInv

LEMMA CheckLightStep ==
    ASSUME IntersectionAssumption, IInv, NEW v \in Vehicles, CheckLight(v)
    PROVE  IInv'
<1>1. UNCHANGED <<currDestination, gateVars, lightVars>>
    BY DEF CheckLight
<1>2. CASE Goto(v, "checkLight", "waitForGreen") /\ UNCHANGED mtx
    <2>1. TypeOK'
        BY <1>1, <1>2 DEF IInv, TypeOK, VehiclePcs, Goto, gateVars, lightVars
    <2>2. MtxHeldAtLight'
        BY <1>2 DEF IInv, TypeOK, MtxHeldAtLight, Goto
    <2>3. GateInv'
        BY <1>1, <1>2, GateUnaffected DEF VehiclePcs, EnteredPcs, Goto
    <2>4. QED
        BY <2>1, <2>2, <2>3 DEF IInv
<1>3. CASE Goto(v, "checkLight", "crossing") /\ mtx' = Nobody
    <2>1. TypeOK'
        BY <1>1, <1>3 DEF IInv, TypeOK, VehiclePcs, Goto, gateVars, lightVars
    <2>2. MtxHeldAtLight'
        BY <1>3 DEF IntersectionAssumption, IInv, TypeOK, MtxHeldAtLight, Goto
    <2>3. GateInv'
        BY <1>1, <1>3, GateUnaffected DEF VehiclePcs, EnteredPcs, Goto
    <2>4. QED
        BY <2>1, <2>2, <2>3 DEF IInv
<1>4. QED
    BY <1>2, <1>3 DEF CheckLight

LEMMA WaitForGreenStep ==
    ASSUME IntersectionAssumption, IInv, NEW v \in Vehicles, WaitForGreen(v)
    PROVE  IInv'
<1>1. /\ pc[v] = "waitForGreen"
      /\ msgQueue[currDestination[v]] # << >>
      /\ UNCHANGED <<currDestination, gateVars>>
      /\ Light!Receive(v)
    BY DEF WaitForGreen
<1>2. LightTypeOK'
    BY <1>1, ReceiveType DEF IInv, TypeOK, LightTypeOK
<1>3. CASE UNCHANGED <<pc, mtx>>
    <2>1. TypeOK'
        BY <1>1, <1>2, <1>3 DEF IInv, TypeOK, LightTypeOK, gateVars
    <2>2. MtxHeldAtLight'
        BY <1>3 DEF IInv, MtxHeldAtLight
    <2>3. pc' = [pc EXCEPT ![v] = "waitForGreen"]
        BY <1>1, <1>3 DEF IInv, TypeOK
    <2>4. GateInv'
        BY <1>1, <2>3, GateUnaffected DEF VehiclePcs
    <2>5. QED
        BY <2>1, <2>2, <2>4 DEF IInv
<1>4. CASE pc' = [pc EXCEPT ![v] = "crossing"] /\ mtx' = Nobody
    <2>1. TypeOK'
        BY <1>1, <1>2, <1>4 DEF IInv, TypeOK, LightTypeOK, gateVars, VehiclePcs
    <2>2. MtxHeldAtLight'
        BY <1>1, <1>4 DEF IntersectionAssumption, IInv, TypeOK, MtxHeldAtLight
    <2>3. GateInv'
        BY <1>1, <1>4, GateUnaffected DEF VehiclePcs, EnteredPcs
    <2>4. QED
        BY <2>1, <2>2, <2>3 DEF IInv
<1>5. QED
    BY <1>3, <1>4 DEF WaitForGreen

LEMMA CycleLightStep ==
    ASSUME IInv, NEW i \in Intersections, CycleLight(i)
    PROVE  IInv'
<1>1. LightTypeOK'
    BY LightStepType DEF IInv, TypeOK, LightTypeOK, CycleLight
<1>2. UNCHANGED <<pc, currDestination, mtx, gateVars>>
    BY DEF CycleLight
<1>3. TypeOK'
    BY <1>1, <1>2 DEF IInv, TypeOK, LightTypeOK, gateVars
<1>4. QED
    BY <1>2, <1>3 DEF IInv, MtxHeldAtLight, GateInv, WaitersQueuedOnce, PermitHasWaiter,
                      EmptyWhileLettingIn, AtMostOneInside, BlockedIffOccupied, Inside,
                      gateVars

-----------------------------------------------------------------------------
(* Who is inside after a step that queues a vehicle, lets it in or sees it leave *)

LEMMA PushBackInside ==
    ASSUME IInv, NEW v \in Vehicles, PushBack(v), NEW i \in Intersections
    PROVE  Inside(i)' = Inside(i)
    BY DEF IInv, TypeOK, Inside, EnteredPcs, PushBack, Goto

LEMMA PermitInside ==
    ASSUME IInv, NEW i \in Intersections, Permit(i)
    PROVE  /\ Head(waitingVehicles[i]) \in Vehicles
           /\ Inside(i)' = {Head(waitingVehicles[i])}
           /\ \A j \in Intersections : j # i => Inside(j)' = Inside(j)
<1> DEFINE q == waitingVehicles[i]
           v == Head(q)
<1> USE DEF Permit
<1>1. q \in Seq(Vehicles) /\ q # << >> /\ v = q[1] /\ v \in Vehicles /\ 1 \in 1..Len(q)
    BY DEF IInv, TypeOK
<1>2. pc[v] = "await" /\ currDestination[v] = i
    BY <1>1 DEF IInv, GateInv, WaitersQueuedOnce
<1>3. Inside(i) = {}
    BY DEF IInv, GateInv, EmptyWhileLettingIn
<1>4. Inside(i)' = {v}
    BY <1>1, <1>2, <1>3 DEF IInv, TypeOK, Inside, EnteredPcs
<1>5. \A j \in Intersections : j # i => Inside(j)' = Inside(j)
    BY <1>1, <1>2 DEF IInv, TypeOK, Inside
<1>6. QED
    BY <1>1, <1>4, <1>5

LEMMA HasLeftInside ==
    ASSUME IInv, NEW v \in Vehicles, NEW next \in Intersections, HasLeft(v, next),
           NEW d \in Intersections, d = currDestination[v]
    PROVE  /\ Inside(d) = {v}
           /\ Inside(d)' = {}
           /\ \A i \in Intersections : i # d => Inside(i)' = Inside(i)
<1> USE DEF HasLeft, Goto
<1>1. Inside(d) = {v}
    BY DEF IInv, TypeOK, GateInv, AtMostOneInside, Inside, EnteredPcs
<1>2. \A i \in Intersections : v \notin Inside(i)' /\ (i # d => v \notin Inside(i))
    BY DEF IInv, TypeOK, Inside, EnteredPcs
<1>3. \A i \in Intersections, w \in Vehicles \ {v} : w \in Inside(i)' <=> w \in Inside(i)
    BY DEF IInv, TypeOK, Inside
<1>4. \A i \in Intersections : Inside(i) \subseteq Vehicles /\ Inside(i)' \subseteq Vehicles
    BY DEF Inside
<1>5. Inside(d)' = {}
    BY <1>1, <1>2, <1>3, <1>4
<1>6. ASSUME NEW i \in Intersections, i # d
      PROVE  Inside(i)' = Inside(i)
    BY <1>2, <1>3, <1>4, <1>6
<1>7. QED
    BY <1>1, <1>5, <1>6

-----------------------------------------------------------------------------
(* Steps that queue a vehicle, let it in, or see it leave *)

LEMMA PushBackStep ==
    ASSUME IInv, NEW v \in Vehicles, PushBack(v)
    PROVE  IInv'
<1> DEFINE d == currDestination[v]
           q == waitingVehicles[d]
<1> USE DEF PushBack, Goto
<1>1. d \in Intersections /\ q \in Seq(Vehicles)
    BY DEF IInv, TypeOK
<1>2. TypeOK'
    BY DEF IInv, TypeOK, VehiclePcs, lightVars
<1>3. MtxHeldAtLight'
    BY DEF IInv, TypeOK, MtxHeldAtLight
<1>4. \A i \in Intersections : Inside(i)' = Inside(i)
    BY PushBackInside
<1>5. /\ waitingVehicles'[d] = Append(q, v)
      /\ \A i \in Intersections : i # d => waitingVehicles'[i] = waitingVehicles[i]
    BY DEF IInv, TypeOK
<1>6. /\ Len(Append(q, v)) = Len(q) + 1
      /\ Append(q, v)[Len(q) + 1] = v
      /\ \A k \in 1..Len(q) : Append(q, v)[k] = q[k]
      /\ Len(q) \in Nat
    BY <1>1
<1>7. \A i \in Intersections : \A k \in 1..Len(waitingVehicles[i]) :
        waitingVehicles[i][k] \in Vehicles \ {v}
    BY DEF IInv, TypeOK, GateInv, WaitersQueuedOnce
<1>8. WaitersQueuedOnce'
    <2>1. \A i \in Intersections : \A k \in 1..Len(waitingVehicles'[i]) :
            /\ pc'[waitingVehicles'[i][k]] = "await"
            /\ currDestination'[waitingVehicles'[i][k]] = i
        <3> TAKE i \in Intersections
        <3>1. CASE i # d
            BY <3>1, <1>5, <1>7 DEF IInv, TypeOK, GateInv, WaitersQueuedOnce
        <3>2. CASE i = d
            <4> TAKE k \in 1..Len(waitingVehicles'[i])
            <4>1. CASE k = Len(q) + 1
                BY <4>1, <3>2, <1>5, <1>6 DEF IInv, TypeOK
            <4>2. CASE k \in 1..Len(q)
                BY <4>2, <3>2, <1>5, <1>6, <1>7 DEF IInv, TypeOK, GateInv, WaitersQueuedOnce
            <4>3. QED
                BY <4>1, <4>2, <3>2, <1>5, <1>6
        <3>3. QED
            BY <3>1, <3>2
    <2>2. \A w \in Vehicles : pc'[w] = "await" =>
            \E k \in 1..Len(waitingVehicles'[currDestination'[w]]) :
               waitingVehicles'[currDestination'[w]][k] = w
        <3> SUFFICES ASSUME NEW w \in Vehicles, pc'[w] = "await"
                     PROVE  \E k \in 1..Len(waitingVehicles'[currDestination[w]]) :
                               waitingVehicles'[currDestination[w]][k] = w
            OBVIOUS
        <3>1. CASE w = v
            BY <3>1, <1>5, <1>6
        <3>2. CASE w # v
            <4>1. PICK k \in 1..Len(waitingVehicles[currDestination[w]]) :
                     waitingVehicles[currDestination[w]][k] = w
                BY <3>2 DEF IInv, TypeOK, GateInv, WaitersQueuedOnce
            <4>2. CASE currDestination[w] = d
                BY <4>1, <4>2, <1>5, <1>6
            <4>3. CASE currDestination[w] # d
                BY <4>1, <4>3, <1>5 DEF IInv, TypeOK
            <4>4. QED
                BY <4>2, <4>3
        <3>3. QED
            BY <3>1, <3>2
    <2>3. \A i \in Intersections : \A j, k \in 1..Len(waitingVehicles'[i]) :
            waitingVehicles'[i][j] = waitingVehicles'[i][k] => j = k
        <3> TAKE i \in Intersections
        <3>1. CASE i # d
            BY <3>1, <1>5 DEF IInv, GateInv, WaitersQueuedOnce
        <3>2. CASE i = d
            <4> TAKE j, k \in 1..Len(waitingVehicles'[i])
            <4>1. j \in 1..Len(q) \/ j = Len(q) + 1
                BY <3>2, <1>5, <1>6
            <4>2. k \in 1..Len(q) \/ k = Len(q) + 1
                BY <3>2, <1>5, <1>6
            <4>3. \A m \in 1..Len(q) : q[m] # v
                BY <1>1, <1>7
            <4>4. QED
                BY <4>1, <4>2, <4>3, <3>2, <1>1, <1>5, <1>6 DEF IInv, GateInv, WaitersQueuedOnce
        <3>3. QED
            BY <3>1, <3>2
    <2>4. QED
        BY <2>1, <2>2, <2>3 DEF WaitersQueuedOnce
<1>9. PermitHasWaiter'
    BY <1>1, <1>5, <1>6 DEF IInv, GateInv, PermitHasWaiter
<1>10. EmptyWhileLettingIn' /\ AtMostOneInside' /\ BlockedIffOccupied'
    BY <1>4 DEF IInv, GateInv, EmptyWhileLettingIn, AtMostOneInside, BlockedIffOccupied
<1>11. QED
    BY <1>2, <1>3, <1>8, <1>9, <1>10 DEF IInv, GateInv

LEMMA HasLeftStep ==
    ASSUME IInv, NEW v \in Vehicles, NEW next \in Intersections, HasLeft(v, next)
    PROVE  IInv'
<1> USE DEF HasLeft, Goto
<1>0. PICK d \in Intersections : d = currDestination[v]
    BY DEF IInv, TypeOK
<1>1. TypeOK'
    BY DEF IInv, TypeOK, VehiclePcs, lightVars
<1>2. MtxHeldAtLight'
    BY DEF IInv, TypeOK, MtxHeldAtLight
<1>3. Inside(d) = {v}
    BY <1>0, HasLeftInside
<1>4. /\ Inside(d)' = {}
      /\ \A i \in Intersections : i # d => Inside(i)' = Inside(i)
    BY <1>0, HasLeftInside
<1>5. procPc[d] = "poll"
    BY <1>3 DEF IInv, GateInv, EmptyWhileLettingIn
<1>6. WaitersQueuedOnce'
    <2>1. \A i \in Intersections : \A k \in 1..Len(waitingVehicles[i]) :
            waitingVehicles[i][k] \in Vehicles \ {v}
        BY DEF IInv, TypeOK, GateInv, WaitersQueuedOnce
    <2>2. \A w \in Vehicles : pc'[w] = "await" => w # v /\ pc[w] = "await"
        BY DEF IInv, TypeOK
    <2>3. \A w \in Vehicles \ {v} :
            pc'[w] = pc[w] /\ currDestination'[w] = currDestination[w]
        BY DEF IInv, TypeOK
    <2>4. QED
        BY <2>1, <2>2, <2>3 DEF IInv, GateInv, WaitersQueuedOnce
<1>7. PermitHasWaiter'
    BY DEF IInv, GateInv, PermitHasWaiter
<1>8. EmptyWhileLettingIn' /\ AtMostOneInside'
    <2>1. \A i \in Intersections : Inside(i)' \subseteq Inside(i)
        BY <1>3, <1>4
    <2>2. QED
        BY <2>1 DEF IInv, GateInv, EmptyWhileLettingIn, AtMostOneInside
<1>9. BlockedIffOccupied'
    <2>1. isBlocked'[d] = FALSE /\ \A i \in Intersections : i # d => isBlocked'[i] = isBlocked[i]
        BY <1>0 DEF IInv, TypeOK
    <2>2. procPc' = procPc
        OBVIOUS
    <2>3. QED
        BY <2>1, <2>2, <1>4, <1>5 DEF IInv, GateInv, BlockedIffOccupied
<1>10. QED
    BY <1>1, <1>2, <1>6, <1>7, <1>8, <1>9 DEF IInv, GateInv

LEMMA PollStep ==
    ASSUME IInv, NEW i \in Intersections, Poll(i)
    PROVE  IInv'
<1> USE DEF Poll
<1>1. TypeOK'
    BY DEF IInv, TypeOK, lightVars
<1>2. MtxHeldAtLight'
    BY DEF IInv, MtxHeldAtLight
<1>3. \A j \in Intersections : Inside(j)' = Inside(j)
    BY DEF Inside
<1>4. Inside(i) = {}
    BY DEF IInv, GateInv, BlockedIffOccupied
<1>5. WaitersQueuedOnce' /\ AtMostOneInside'
    BY <1>3 DEF IInv, GateInv, WaitersQueuedOnce, AtMostOneInside
<1>6. PermitHasWaiter' /\ EmptyWhileLettingIn' /\ BlockedIffOccupied'
    BY <1>3, <1>4 DEF IInv, TypeOK, GateInv, PermitHasWaiter, EmptyWhileLettingIn,
                      BlockedIffOccupied
<1>7. QED
    BY <1>1, <1>2, <1>5, <1>6 DEF IInv, GateInv

LEMMA BlockStep ==
    ASSUME IInv, NEW i \in Intersections, Block(i)
    PROVE  IInv'
<1> USE DEF Block
<1>1. TypeOK'
    BY DEF IInv, TypeOK, lightVars
<1>2. MtxHeldAtLight'
    BY DEF IInv, MtxHeldAtLight
<1>3. \A j \in Intersections : Inside(j)' = Inside(j)
    BY DEF Inside
<1>4. WaitersQueuedOnce' /\ AtMostOneInside'
    BY <1>3 DEF IInv, GateInv, WaitersQueuedOnce, AtMostOneInside
<1>5. PermitHasWaiter' /\ EmptyWhileLettingIn' /\ BlockedIffOccupied'
    BY <1>3 DEF IInv, TypeOK, GateInv, PermitHasWaiter, EmptyWhileLettingIn,
                BlockedIffOccupied
<1>6. QED
    BY <1>1, <1>2, <1>4, <1>5 DEF IInv, GateInv

LEMMA PermitStep ==
    ASSUME IInv, NEW i \in Intersections, Permit(i)
    PROVE  IInv'
<1> DEFINE q == waitingVehicles[i]
           v == Head(q)
<1> USE DEF Permit
<1>1. /\ q \in Seq(Vehicles) /\ q # << >> /\ Len(q) \in Nat \ {0}
      /\ v = q[1] /\ v \in Vehicles /\ 1 \in 1..Len(q)
    BY DEF IInv, TypeOK
<1>2. pc[v] = "await" /\ currDestination[v] = i
    BY <1>1 DEF IInv, GateInv, WaitersQueuedOnce
<1>3. /\ Len(Tail(q)) = Len(q) - 1
      /\ \A k \in 1..Len(Tail(q)) : k + 1 \in 1..Len(q) /\ Tail(q)[k] = q[k + 1]
    BY <1>1
<1>4. TypeOK'
    <2>1. Tail(q) \in Seq(Vehicles)
        BY <1>1
    <2>2. QED
        BY <2>1, <1>1 DEF IInv, TypeOK, VehiclePcs, lightVars
<1>5. MtxHeldAtLight'
    BY <1>1, <1>2 DEF IInv, TypeOK, MtxHeldAtLight
<1>6. Inside(i)' = {v}
    BY PermitInside
<1>7. \A j \in Intersections : j # i => Inside(j)' = Inside(j)
    BY PermitInside
<1>8. /\ waitingVehicles'[i] = Tail(q)
      /\ \A j \in Intersections : j # i => waitingVehicles'[j] = waitingVehicles[j]
    BY DEF IInv, TypeOK
<1>9. WaitersQueuedOnce'
    <2>1. \A j \in Intersections : \A k \in 1..Len(waitingVehicles'[j]) :
            /\ pc'[waitingVehicles'[j][k]] = "await"
            /\ currDestination'[waitingVehicles'[j][k]] = j
        <3> TAKE j \in Intersections
        <3>1. CASE j # i
            <4> TAKE k \in 1..Len(waitingVehicles'[j])
            <4>1. waitingVehicles'[j] = waitingVehicles[j]
                BY <3>1, <1>8
            <4>2. /\ waitingVehicles[j][k] \in Vehicles
                  /\ pc[waitingVehicles[j][k]] = "await"
                  /\ currDestination[waitingVehicles[j][k]] = j
                <5>1. waitingVehicles[j] \in Seq(Vehicles)
                    BY DEF IInv, TypeOK
                <5>2. k \in 1..Len(waitingVehicles[j])
                    BY <4>1
                <5>3. waitingVehicles[j][k] \in Vehicles
                    BY <5>1, <5>2
                <5>4. QED
                    BY <5>2, <5>3 DEF IInv, GateInv, WaitersQueuedOnce
            <4>3. waitingVehicles[j][k] # v
                BY <4>2, <3>1, <1>2
            <4>4. PICK x \in Vehicles : x = waitingVehicles[j][k]
                BY <4>2
            <4>5. pc'[x] = "await" /\ currDestination'[x] = j
                BY <4>2, <4>3, <4>4 DEF IInv, TypeOK
            <4>6. QED
                BY <4>1, <4>4, <4>5
        <3>2. CASE j = i
            <4> TAKE k \in 1..Len(waitingVehicles'[j])
            <4>1. k \in 1..Len(Tail(q))
                BY <3>2, <1>8
            <4>2. k + 1 \in 1..Len(q) /\ Tail(q)[k] = q[k + 1] /\ k + 1 # 1
                BY <4>1, <1>3
            <4>3. q[k + 1] # v
                BY <4>2, <1>1 DEF IInv, GateInv, WaitersQueuedOnce
            <4>4. q[k + 1] \in Vehicles /\ pc[q[k + 1]] = "await" /\ currDestination[q[k + 1]] = i
                BY <4>2, <1>1 DEF IInv, GateInv, WaitersQueuedOnce
            <4>5. QED
                BY <3>2, <4>2, <4>3, <4>4, <1>8 DEF IInv, TypeOK
        <3>3. QED
            BY <3>1, <3>2
    <2>2. \A w \in Vehicles : pc'[w] = "await" =>
            \E k \in 1..Len(waitingVehicles'[currDestination'[w]]) :
               waitingVehicles'[currDestination'[w]][k] = w
        <3> SUFFICES ASSUME NEW w \in Vehicles, pc'[w] = "await"
                     PROVE  \E k \in 1..Len(waitingVehicles'[currDestination[w]]) :
                               waitingVehicles'[currDestination[w]][k] = w
            OBVIOUS
        <3>1. w # v /\ pc[w] = "await"
            BY <1>1 DEF IInv, TypeOK
        <3>2. PICK k \in 1..Len(waitingVehicles[currDestination[w]]) :
                 waitingVehicles[currDestination[w]][k] = w
            BY <3>1 DEF IInv, GateInv, WaitersQueuedOnce
        <3>3. CASE currDestination[w] = i
            <4>1. k # 1
                BY <3>1, <3>2, <3>3, <1>1
            <4>2. k - 1 \in 1..Len(Tail(q)) /\ Tail(q)[k - 1] = q[k]
                BY <4>1, <3>2, <3>3, <1>1, <1>3
            <4>3. waitingVehicles'[currDestination[w]] = Tail(q)
                BY <3>3, <1>8
            <4>4. Tail(q)[k - 1] = w
                BY <4>2, <3>2, <3>3
            <4>5. \E m \in 1..Len(Tail(q)) : Tail(q)[m] = w
                BY <4>2, <4>4
            <4>6. QED
                BY <4>3, <4>5
        <3>4. CASE currDestination[w] # i
            BY <3>2, <3>4, <1>8 DEF IInv, TypeOK
        <3>5. QED
            BY <3>3, <3>4
    <2>3. \A j \in Intersections : \A k, m \in 1..Len(waitingVehicles'[j]) :
            waitingVehicles'[j][k] = waitingVehicles'[j][m] => k = m
        <3> TAKE j \in Intersections
        <3>1. CASE j # i
            BY <3>1, <1>8 DEF IInv, GateInv, WaitersQueuedOnce
        <3>2. CASE j = i
            <4> TAKE k, m \in 1..Len(waitingVehicles'[j])
            <4>1. k \in 1..Len(Tail(q)) /\ m \in 1..Len(Tail(q))
                BY <3>2, <1>8
            <4>2. q[k + 1] = q[m + 1] => k + 1 = m + 1
                BY <4>1, <1>3 DEF IInv, GateInv, WaitersQueuedOnce
            <4>3. waitingVehicles'[j][k] = q[k + 1] /\ waitingVehicles'[j][m] = q[m + 1]
                BY <3>2, <4>1, <1>3, <1>8
            <4>4. k \in Nat /\ m \in Nat
                BY <4>1
            <4> HIDE DEF q
            <4>5. QED
                BY <4>2, <4>3, <4>4
        <3>3. QED
            BY <3>1, <3>2
    <2>4. QED
        BY <2>1, <2>2, <2>3 DEF WaitersQueuedOnce
<1>10. PermitHasWaiter' /\ EmptyWhileLettingIn'
    BY <1>7, <1>8 DEF IInv, TypeOK, GateInv, PermitHasWaiter, EmptyWhileLettingIn
<1>11. AtMostOneInside'
    BY <1>6, <1>7 DEF IInv, GateInv, AtMostOneInside
<1>12. BlockedIffOccupied'
    BY <1>6, <1>7 DEF IInv, TypeOK, GateInv, BlockedIffOccupied
<1>13. QED
    BY <1>4, <1>5, <1>9, <1>10, <1>11, <1>12 DEF IInv, GateInv

-----------------------------------------------------------------------------
(* The invariant and what follows from it *)

LEMMA InitIInv ==
    ASSUME IntersectionAssumption, Init
    PROVE  IInv
<1> USE DEF Init
<1>1. TypeOK
    BY DEF TypeOK, VehiclePcs, Light!Phases
<1>2. MtxHeldAtLight
    BY DEF MtxHeldAtLight, IntersectionAssumption
<1>3. \A i \in Intersections : Inside(i) = {}
    BY DEF Inside, EnteredPcs
<1>4. GateInv
    BY <1>3 DEF GateInv, WaitersQueuedOnce, PermitHasWaiter, EmptyWhileLettingIn,
                AtMostOneInside, BlockedIffOccupied
<1>5. QED
    BY <1>1, <1>2, <1>4 DEF IInv

LEMMA NextIInv ==
    ASSUME IntersectionAssumption, IInv, [Next]_vars
    PROVE  IInv'
<1>1. CASE UNCHANGED vars
    BY <1>1 DEF vars, lightVars, IInv, TypeOK, MtxHeldAtLight, GateInv, WaitersQueuedOnce,
                PermitHasWaiter, EmptyWhileLettingIn, AtMostOneInside, BlockedIffOccupied,
                Inside
<1>2. CASE \E v \in Vehicles : VehicleStep(v)
    <2>1. PICK v \in Vehicles : VehicleStep(v)
        BY <1>2
    <2>2. CASE \E next \in Intersections : HasLeft(v, next)
        BY <2>2, HasLeftStep
    <2>3. QED
        BY <2>1, <2>2, RequestEntryStep, AnnounceStep, GrantedStep, PushBackStep,
           CheckLightStep, WaitForGreenStep DEF VehicleStep, LockStep
<1>3. CASE \E i \in Intersections : ProcStep(i) \/ CycleLight(i)
    BY <1>3, PollStep, BlockStep, PermitStep, CycleLightStep DEF ProcStep
<1>4. QED
    BY <1>1, <1>2, <1>3 DEF Next

\* In every behaviour of the intersections all of their safety properties hold.
THEOREM Invariance == Spec => []IInv
<1>1. Init => IInv
    BY InitIInv, IntersectionAssumption
<1>2. IInv /\ [Next]_vars => IInv'
    BY NextIInv, IntersectionAssumption
<1>3. QED
    BY <1>1, <1>2, PTL DEF Spec, SafetySpec

\* Every variable keeps to its type, whatever the interleaving.
THEOREM TypeCorrect == Spec => []TypeOK
<1>1. IInv => TypeOK
    BY DEF IInv
<1>2. QED
    BY <1>1, Invariance, PTL

\* No two vehicles are ever let into the same intersection (Intersection.cpp:120-141).
THEOREM MutualExclusion == Spec => []AtMostOneInside
<1>1. IInv => AtMostOneInside
    BY DEF IInv, GateInv
<1>2. QED
    BY <1>1, Invariance, PTL

\* An intersection is blocked exactly as long as a vehicle is in it or is being let
\* in (Intersection.cpp:97-109, :132-138).
THEOREM BlockedExactly == Spec => []BlockedIffOccupied
<1>1. IInv => BlockedIffOccupied
    BY DEF IInv, GateInv
<1>2. QED
    BY <1>1, Invariance, PTL

\* The front of the queue exists whenever permitEntryToFirstInQueue takes it
\* (Intersection.cpp:28-42).
THEOREM QueueSafety == Spec => []PermitHasWaiter
<1>1. IInv => PermitHasWaiter
    BY DEF IInv, GateInv
<1>2. QED
    BY <1>1, Invariance, PTL

\* No promise is lost and none is fulfilled twice: exactly the waiting vehicles are
\* queued, each of them once and where it waits (Intersection.cpp:20-42, :80-85).
THEOREM QueuedOnce == Spec => []WaitersQueuedOnce
<1>1. IInv => WaitersQueuedOnce
    BY DEF IInv, GateInv
<1>2. QED
    BY <1>1, Invariance, PTL

\* At most one vehicle of the whole city is at a light at a time: the one that holds
\* TrafficObject::_mtx (Intersection.cpp:86-94).
THEOREM OneAtALight == Spec => []MtxHeldAtLight
<1>1. IInv => MtxHeldAtLight
    BY DEF IInv
<1>2. QED
    BY <1>1, Invariance, PTL

-----------------------------------------------------------------------------
(* The intersections implement the gate: FifoGate's safety part *)

\* A vehicle that joins a queue was in no queue and in no intersection.
LEMMA PushBackArrives ==
    ASSUME IInv, NEW v \in Vehicles, PushBack(v)
    PROVE  Gate!Arrive(v, currDestination[v])
<1>1. \A i \in Intersections : v \notin Inside(i)
    BY DEF PushBack, Goto, Inside, EnteredPcs
<1>2. \A i \in Intersections : \A k \in 1..Len(waitingVehicles[i]) : waitingVehicles[i][k] # v
    BY DEF PushBack, Goto, IInv, GateInv, WaitersQueuedOnce
<1>3. ~Gate!Engaged(v)
    BY <1>1, <1>2 DEF Gate!Engaged
<1>4. [i \in Intersections |-> Inside(i)]' = [i \in Intersections |-> Inside(i)]
    BY PushBackInside
<1>5. QED
    BY <1>3, <1>4 DEF Gate!Arrive, PushBack

\* What the queue thread does is the admission of the first vehicle.
LEMMA PermitAdmits ==
    ASSUME IInv, NEW i \in Intersections, Permit(i)
    PROVE  Gate!Admit(i)
<1>1. Inside(i) = {}
    BY DEF Permit, IInv, GateInv, EmptyWhileLettingIn
<1>2. [j \in Intersections |-> Inside(j)]' =
        [[j \in Intersections |-> Inside(j)] EXCEPT ![i] = {Head(waitingVehicles[i])}]
    BY PermitInside
<1>3. QED
    BY <1>1, <1>2 DEF Gate!Admit, Permit

LEMMA HasLeftLeaves ==
    ASSUME IInv, NEW v \in Vehicles, NEW next \in Intersections, HasLeft(v, next)
    PROVE  Gate!Leave(v, currDestination[v])
<1>1. PICK d \in Intersections : d = currDestination[v]
    BY DEF IInv, TypeOK
<1>2. /\ Inside(d) = {v}
      /\ Inside(d)' = {}
      /\ \A i \in Intersections : i # d => Inside(i)' = Inside(i)
    BY <1>1, HasLeftInside
<1>3. [i \in Intersections |-> Inside(i)]' =
        [[i \in Intersections |-> Inside(i)] EXCEPT ![d] = @ \ {v}]
    BY <1>2
<1>4. QED
    BY <1>1, <1>2, <1>3 DEF Gate!Leave, HasLeft

\* All other steps are invisible at the gate.
LEMMA GateStutters ==
    ASSUME IInv, UNCHANGED <<currDestination, waitingVehicles>>,
           \A v \in Vehicles : pc'[v] \in EnteredPcs <=> pc[v] \in EnteredPcs
    PROVE  UNCHANGED Gate!vars
<1>1. \A i \in Intersections : Inside(i)' = Inside(i)
    BY DEF Inside
<1>2. QED
    BY <1>1 DEF Gate!vars

LEMMA NextGate ==
    ASSUME IInv, [Next]_vars
    PROVE  [Gate!Next]_(Gate!vars)
<1>1. CASE UNCHANGED vars
    BY <1>1, GateStutters DEF vars
<1>2. ASSUME NEW v \in Vehicles, VehicleStep(v)
      PROVE  [Gate!Next]_(Gate!vars)
    <2>1. CASE PushBack(v)
        <3>1. currDestination[v] \in Intersections
            BY DEF IInv, TypeOK
        <3>2. QED
            BY <2>1, <3>1, PushBackArrives DEF Gate!Next
    <2>2. CASE \E next \in Intersections : HasLeft(v, next)
        <3>1. currDestination[v] \in Intersections
            BY DEF IInv, TypeOK
        <3>2. QED
            BY <2>2, <3>1, HasLeftLeaves DEF Gate!Next
    <2>3. CASE RequestEntry(v) \/ LockStep(v) \/ CheckLight(v) \/ WaitForGreen(v)
        <3>1. UNCHANGED <<currDestination, waitingVehicles>>
            BY <2>3 DEF RequestEntry, LockStep, Announce, Granted, CheckLight, WaitForGreen,
                        gateVars
        <3>2. \A w \in Vehicles : pc'[w] \in EnteredPcs <=> pc[w] \in EnteredPcs
            BY <2>3 DEF RequestEntry, LockStep, Announce, Granted, CheckLight, WaitForGreen,
                        Goto, EnteredPcs, IInv, TypeOK
        <3>3. QED
            BY <3>1, <3>2, GateStutters
    <2>4. QED
        BY <1>2, <2>1, <2>2, <2>3 DEF VehicleStep
<1>3. ASSUME NEW i \in Intersections, ProcStep(i) \/ CycleLight(i)
      PROVE  [Gate!Next]_(Gate!vars)
    <2>1. CASE Permit(i)
        BY <2>1, PermitAdmits DEF Gate!Next
    <2>2. CASE Poll(i) \/ Block(i) \/ CycleLight(i)
        BY <2>2, GateStutters DEF Poll, Block, CycleLight, gateVars
    <2>3. QED
        BY <1>3, <2>1, <2>2 DEF ProcStep
<1>4. QED
    BY <1>1, <1>2, <1>3 DEF Next

LEMMA InitGate ==
    ASSUME Init
    PROVE  Gate!Init
    BY DEF Init, Gate!Init, Inside, EnteredPcs

\* First come, first served, one at a time: every behaviour of the intersections is
\* one of the gate (Intersection.cpp:73-95, :120-141).
THEOREM FirstComeFirstServed == Spec => Gate!SafetySpec
<1>1. Init => Gate!Init
    BY InitGate
<1>2. IInv /\ [Next]_vars => [Gate!Next]_(Gate!vars)
    BY NextGate
<1>3. QED
    BY <1>1, <1>2, Invariance, PTL DEF Spec, SafetySpec, Gate!SafetySpec

-----------------------------------------------------------------------------
(* The intersections use their lights as TrafficLight.tla has it *)

\* The threads inside waitForGreen, as Light sees them.
Waiting == [v \in Vehicles |->
              IF pc[v] = "waitForGreen" THEN currDestination[v] ELSE NoIntersection]

\* A step that takes no vehicle into or out of waitForGreen and leaves the lights
\* alone is invisible at the lights.
LEMMA LightStutters ==
    ASSUME UNCHANGED lightVars, UNCHANGED currDestination,
           \A v \in Vehicles : pc'[v] = "waitForGreen" <=> pc[v] = "waitForGreen"
    PROVE  UNCHANGED Light!vars
    BY DEF lightVars, Light!vars

\* A red light is met: waitForGreen is called (Intersection.cpp:90-94).
LEMMA RedLightCalls ==
    ASSUME TypeOK, NEW v \in Vehicles, CheckLight(v), pc'[v] = "waitForGreen",
           NEW i \in Intersections, i = currDestination[v]
    PROVE  Light!CallWaitForGreen(v, i)
<1>1. /\ pc \in [Vehicles -> VehiclePcs]
      /\ pc[v] = "checkLight"
      /\ pc' = [pc EXCEPT ![v] = "waitForGreen"]
      /\ UNCHANGED <<currDestination, lightVars>>
    BY DEF CheckLight, Goto, TypeOK
<1>2. Waiting' = [Waiting EXCEPT ![v] = i]
    BY <1>1 DEF Waiting
<1>3. Waiting[v] = NoIntersection
    BY <1>1 DEF Waiting
<1>4. QED
    BY <1>1, <1>2, <1>3 DEF Waiting, Light!CallWaitForGreen, Light!lightVars, lightVars

LEMMA NextLight ==
    ASSUME IInv, [Next]_vars
    PROVE  [Light!Next]_(Light!vars)
<1>0. TypeOK
    BY DEF IInv
<1>1. CASE UNCHANGED vars
    BY <1>1, LightStutters DEF vars
<1>2. ASSUME NEW v \in Vehicles, VehicleStep(v)
      PROVE  [Light!Next]_(Light!vars)
    <2>1. CASE WaitForGreen(v)
        BY <2>1 DEF WaitForGreen, Light!Next
    <2>2. CASE CheckLight(v)
        <3>1. currDestination[v] \in Intersections
            BY <1>0 DEF TypeOK
        <3>2. CASE pc'[v] = "waitForGreen"
            <4>1. PICK i \in Intersections : i = currDestination[v]
                BY <3>1
            <4>2. Light!CallWaitForGreen(v, i)
                BY <1>0, <2>2, <3>2, <4>1, RedLightCalls
            <4>3. QED
                BY <4>2 DEF Light!Next
        <3>3. CASE pc'[v] # "waitForGreen"
            BY <1>0, <2>2, <3>3, LightStutters DEF CheckLight, Goto, TypeOK
        <3>4. QED
            BY <3>2, <3>3
    <2>3. CASE RequestEntry(v) \/ LockStep(v) \/ PushBack(v)
        BY <1>0, <2>3, LightStutters DEF RequestEntry, LockStep, Announce, Granted, PushBack,
                                   Goto, TypeOK
    <2>4. ASSUME NEW next \in Intersections, HasLeft(v, next)
          PROVE  UNCHANGED Light!vars
        <3>1. UNCHANGED lightVars
            BY <2>4 DEF HasLeft
        <3>2. \A w \in Vehicles :
                (IF pc[w] = "waitForGreen" THEN currDestination[w] ELSE NoIntersection)' =
                (IF pc[w] = "waitForGreen" THEN currDestination[w] ELSE NoIntersection)
            BY <1>0, <2>4 DEF HasLeft, Goto, TypeOK
        <3>3. QED
            BY <3>1, <3>2 DEF Light!vars, lightVars
    <2>5. QED
        BY <1>2, <2>1, <2>2, <2>3, <2>4 DEF VehicleStep
<1>3. ASSUME NEW i \in Intersections, ProcStep(i)
      PROVE  UNCHANGED Light!vars
    <2>1. CASE Permit(i)
        <3>1. UNCHANGED <<lightVars, currDestination>>
            BY <2>1 DEF Permit
        <3>2. pc[Head(waitingVehicles[i])] = "await"
            <4>1. /\ waitingVehicles[i] \in Seq(Vehicles)
                  /\ waitingVehicles[i] # << >>
                BY <1>0, <2>1 DEF TypeOK, Permit
            <4>2. /\ 1 \in 1..Len(waitingVehicles[i])
                  /\ Head(waitingVehicles[i]) = waitingVehicles[i][1]
                BY <4>1
            <4>3. QED
                BY <4>2 DEF IInv, GateInv, WaitersQueuedOnce
        <3>3. QED
            BY <1>0, <2>1, <3>1, <3>2, LightStutters DEF Permit, TypeOK
    <2>2. QED
        BY <1>0, <1>3, <2>1, LightStutters DEF ProcStep, Poll, Block, TypeOK
<1>4. ASSUME NEW i \in Intersections, CycleLight(i)
      PROVE  Light!Next
    BY <1>4 DEF CycleLight, Light!Next
<1>5. QED
    BY <1>1, <1>2, <1>3, <1>4 DEF Next

LEMMA InitLight ==
    ASSUME Init
    PROVE  Light!Init
    BY DEF Init, Light!Init

\* A light at an intersection sees only calls that TrafficLight.tla allows: every
\* thread that receives from its queue has called waitForGreen, and stays in the
\* call until the message that ends it (Intersection.cpp:86-94).
THEOREM LightsAsSpecified == Spec => Light!SafetySpec
<1>1. Init => Light!Init
    BY InitLight
<1>2. IInv /\ [Next]_vars => [Light!Next]_(Light!vars)
    BY NextLight
<1>3. QED
    BY <1>1, <1>2, Invariance, PTL DEF Spec, SafetySpec, Light!SafetySpec

LP == INSTANCE TrafficLightProofs WITH
    Lights <- Intersections,
    Callers <- Vehicles,
    NoLight <- NoIntersection,
    waiter <- Waiting

\* The two instances have the same actions.
LEMMA SameLight ==
    ASSUME [Light!Next]_(Light!vars)
    PROVE  [LP!Next]_(LP!vars)
    BY DEF Waiting, Light!Next, LP!Next, Light!vars, LP!vars, Light!LightStep, LP!LightStep,
           Light!Toggle, LP!Toggle, Light!Send, LP!Send, Light!Other, LP!Other,
           Light!CallWaitForGreen, LP!CallWaitForGreen, Light!lightVars, LP!lightVars,
           Light!Receive, LP!Receive, Light!Newest, LP!Newest

\* What is proved of a light alone holds of the light at an intersection: whatever
\* the vehicles do there, a phase on its way to the queue is still the phase that a
\* vehicle would read (TrafficLight.cpp:83-87, Intersection.cpp:90).
THEOREM AnnouncementsInStep == Spec => []Light!SentPhaseIsCurrent
<1>1. Init => LP!IInv
    BY DEF Init, LP!IInv, LP!TypeOK, LP!SentPhaseIsCurrent, LP!Phases, Waiting
<1>2. LP!TrafficLightAssumption
    BY IntersectionAssumption DEF IntersectionAssumption, LP!TrafficLightAssumption
<1>3. LP!IInv /\ [Light!Next]_(Light!vars) => LP!IInv'
    BY <1>2, LP!NextInv, SameLight
<1>4. LP!IInv => Light!SentPhaseIsCurrent
    BY DEF LP!IInv, LP!SentPhaseIsCurrent, Light!SentPhaseIsCurrent
<1>5. QED
    BY <1>1, <1>3, <1>4, LightsAsSpecified, PTL
    DEF Spec, SafetySpec, Light!SafetySpec
=============================================================================
