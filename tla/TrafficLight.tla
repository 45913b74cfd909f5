---------------------------- MODULE TrafficLight ----------------------------
(***************************************************************************)
(* The class TrafficLight (TrafficLight.cpp:35-94): each light has a       *)
(* thread that flips the phase and announces the new phase on the light's  *)
(* message queue, and waitForGreen() consumes that queue.                  *)
(*                                                                         *)
(* The queue is used through its abstract specification: MessageQueue.tla  *)
(* shows that send and receive behave as the atomic Put and Take of        *)
(* LifoMailbox.tla.  Nothing ever empties the queue but waitForGreen, so   *)
(* phases announced while nobody waits stay in it.  The 4 to 6 seconds     *)
(* between two flips are left out: a flip may happen at any moment.        *)
(***************************************************************************)
EXTENDS Naturals, Sequences

CONSTANTS
    Lights,
    Callers,  \* the threads that may call waitForGreen
    NoLight,
    MaxMsgs   \* bound of the model: a light with a full queue stops cycling

ASSUME TrafficLightAssumption ==
    /\ NoLight \notin Lights
    /\ MaxMsgs \in Nat \ {0}

Phases == {"red", "green"}

VARIABLES
    currentPhase,  \* _currentPhase of each light
    msgQueue,      \* msg_queue of each light
    inFlight,      \* the phase its std::async send carries, or "none"
    waiter         \* the light at which each caller is inside waitForGreen

vars == <<currentPhase, msgQueue, inFlight, waiter>>
lightVars == <<currentPhase, msgQueue, inFlight>>

Init ==
    /\ currentPhase = [l \in Lights |-> "red"]
    /\ msgQueue = [l \in Lights |-> << >>]
    /\ inFlight = [l \in Lights |-> "none"]
    /\ waiter = [t \in Callers |-> NoLight]

Other(phase) == IF phase = "red" THEN "green" ELSE "red"

Newest(l) == msgQueue[l][Len(msgQueue[l])]

-----------------------------------------------------------------------------
(* The light's own thread: cycleThroughPhases *)

\* A cycle that does not wait for the send of the previous one.
ToggleUnawaited(l) ==
    /\ Len(msgQueue[l]) < MaxMsgs
    /\ currentPhase' = [currentPhase EXCEPT ![l] = Other(@)]
    /\ inFlight' = [inFlight EXCEPT ![l] = IF @ = "none" THEN Other(currentPhase[l]) ELSE @]
    /\ UNCHANGED <<msgQueue, waiter>>

\* A light that only knows how to become green.
ToggleToGreen(l) ==
    /\ inFlight[l] = "none"
    /\ Len(msgQueue[l]) < MaxMsgs
    /\ currentPhase' = [currentPhase EXCEPT ![l] = "green"]
    /\ inFlight' = [inFlight EXCEPT ![l] = "green"]
    /\ UNCHANGED <<msgQueue, waiter>>

\* The flip, and the std::async that takes a copy of the new phase.  The thread
\* then stays in is_sent.wait() until the send is done.
Toggle(l) ==
    /\ inFlight[l] = "none"
    /\ Len(msgQueue[l]) < MaxMsgs
    /\ currentPhase' = [currentPhase EXCEPT ![l] = Other(@)]
    /\ inFlight' = [inFlight EXCEPT ![l] = Other(currentPhase[l])]
    /\ UNCHANGED <<msgQueue, waiter>>

\* A send of a message other than the one it was given.
SendNothing(l) ==
    /\ inFlight[l] # "none"
    /\ msgQueue' = [msgQueue EXCEPT ![l] = Append(@, "none")]
    /\ inFlight' = [inFlight EXCEPT ![l] = "none"]
    /\ UNCHANGED <<currentPhase, waiter>>

\* The send, in the thread std::async started.
Send(l) ==
    /\ inFlight[l] # "none"
    /\ msgQueue' = [msgQueue EXCEPT ![l] = Append(@, inFlight[l])]
    /\ inFlight' = [inFlight EXCEPT ![l] = "none"]
    /\ UNCHANGED <<currentPhase, waiter>>

-----------------------------------------------------------------------------
(* A caller's thread: waitForGreen *)

CallWaitForGreen(t, l) ==
    /\ waiter[t] = NoLight
    /\ waiter' = [waiter EXCEPT ![t] = l]
    /\ UNCHANGED lightVars

\* One receive() of the loop.  The loop goes on while it receives green
\* (TrafficLight.cpp:47), so that what ends it is a message red.
Receive(t) ==
    /\ waiter[t] # NoLight
    /\ LET l == waiter[t] IN
        /\ msgQueue[l] # << >>
        /\ msgQueue' = [msgQueue EXCEPT ![l] = SubSeq(@, 1, Len(@) - 1)]
        /\ waiter' = [waiter EXCEPT ![t] = IF Newest(l) = "green" THEN l ELSE NoLight]
    /\ UNCHANGED <<currentPhase, inFlight>>

LightStep(l) == Toggle(l) \/ Send(l)

Next ==
    \/ \E l \in Lights : LightStep(l)
    \/ \E t \in Callers, l \in Lights : CallWaitForGreen(t, l)
    \/ \E t \in Callers : Receive(t)

SafetySpec == Init /\ [][Next]_vars

\* Both threads are infinite loops that sleep a millisecond per iteration.
Spec ==
    /\ SafetySpec
    /\ \A l \in Lights : WF_vars(LightStep(l))
    /\ \A t \in Callers : WF_vars(Receive(t))

-----------------------------------------------------------------------------
TypeOK ==
    /\ currentPhase \in [Lights -> Phases]
    /\ msgQueue \in [Lights -> Seq(Phases)]
    /\ inFlight \in [Lights -> Phases \cup {"none"}]
    /\ waiter \in [Callers -> Lights \cup {NoLight}]

\* The light cannot change under a message that announces it: what an
\* asynchronous send carries is still the phase of the light when the queue
\* receives it, because the cycle waits for the send (TrafficLight.cpp:86-87).
SentPhaseIsCurrent ==
    \A l \in Lights : inFlight[l] # "none" => inFlight[l] = currentPhase[l]

\* A call of waitForGreen returns: the light keeps announcing phases, and the
\* stale messages in front of the one that ends the loop are finitely many
\* (TrafficLight.cpp:42-50).
WaitEnds == \A t \in Callers : (waiter[t] # NoLight) ~> (waiter[t] = NoLight)

\* What TrafficLight.cpp:44-46 says of waitForGreen: it returns once it
\* receives green.  Every return of the code is caused by a red message.
ReturnsOnGreen ==
    [][\A t \in Callers :
         (waiter[t] # NoLight /\ waiter'[t] = NoLight) => Newest(waiter[t]) = "green"]_vars
=============================================================================
