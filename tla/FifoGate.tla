------------------------------ MODULE FifoGate ------------------------------
(***************************************************************************)
(* What an intersection promises the vehicles: they queue up in the order  *)
(* of their arrival, one at a time is let in, the first of the queue each  *)
(* time, and nobody is let in before the last one has left.  As long as    *)
(* the intersection is free and somebody is queued, somebody is let in.    *)
(***************************************************************************)
EXTENDS Naturals, Sequences

CONSTANTS Vehicles, Intersections

VARIABLES
    queue,  \* the vehicles waiting at each intersection
    inside  \* the vehicles between their admission and their departure

vars == <<queue, inside>>

Init ==
    /\ queue = [i \in Intersections |-> << >>]
    /\ inside = [i \in Intersections |-> {}]

Engaged(v) == \E i \in Intersections :
    v \in inside[i] \/ \E k \in 1..Len(queue[i]) : queue[i][k] = v

Arrive(v, i) ==
    /\ ~Engaged(v)
    /\ queue' = [queue EXCEPT ![i] = Append(@, v)]
    /\ UNCHANGED inside

Admit(i) ==
    /\ inside[i] = {}
    /\ queue[i] # << >>
    /\ inside' = [inside EXCEPT ![i] = {Head(queue[i])}]
    /\ queue' = [queue EXCEPT ![i] = Tail(@)]

Leave(v, i) ==
    /\ v \in inside[i]
    /\ inside' = [inside EXCEPT ![i] = @ \ {v}]
    /\ UNCHANGED queue

Next == \E i \in Intersections :
    Admit(i) \/ \E v \in Vehicles : Arrive(v, i) \/ Leave(v, i)

SafetySpec == Init /\ [][Next]_vars

Spec == SafetySpec /\ \A i \in Intersections : WF_vars(Admit(i))
=============================================================================
