------------------------- MODULE TrafficLightProofs -------------------------
(***************************************************************************)
(* Proofs about TrafficLight.tla, for any number of lights and of threads  *)
(* that wait for them.                                                     *)
(***************************************************************************)
EXTENDS TrafficLight, TLAPS

IInv == TypeOK /\ SentPhaseIsCurrent

LEMMA ToggleInv ==
    ASSUME IInv, NEW l \in Lights, Toggle(l)
    PROVE  IInv'
<1>1. Other(currentPhase[l]) \in Phases
    BY DEF IInv, TypeOK, Other, Phases
<1>2. TypeOK'
    BY <1>1 DEF IInv, TypeOK, Toggle
<1>3. SentPhaseIsCurrent'
    BY DEF IInv, TypeOK, SentPhaseIsCurrent, Toggle
<1>4. QED
    BY <1>2, <1>3 DEF IInv

LEMMA SendInv ==
    ASSUME IInv, NEW l \in Lights, Send(l)
    PROVE  IInv'
<1>1. inFlight[l] \in Phases
    BY DEF IInv, TypeOK, Send
<1>2. Append(msgQueue[l], inFlight[l]) \in Seq(Phases)
    BY <1>1 DEF IInv, TypeOK
<1>3. TypeOK'
    BY <1>2 DEF IInv, TypeOK, Send
<1>4. SentPhaseIsCurrent'
    BY DEF IInv, TypeOK, SentPhaseIsCurrent, Send
<1>5. QED
    BY <1>3, <1>4 DEF IInv

\* A receive takes the newest message and leaves the older ones as they are
\* (TrafficLight.cpp:19-20).
LEMMA ReceiveInv ==
    ASSUME IInv, NEW t \in Callers, Receive(t)
    PROVE  IInv'
<1>1. waiter[t] \in Lights
    BY DEF IInv, TypeOK, Receive
<1>2. PICK l \in Lights : l = waiter[t]
    BY <1>1
<1>3. \A s \in Seq(Phases) : s # << >> => SubSeq(s, 1, Len(s) - 1) \in Seq(Phases)
    OBVIOUS
<1>4. /\ msgQueue' = [msgQueue EXCEPT ![l] = SubSeq(@, 1, Len(@) - 1)]
      /\ msgQueue[l] # << >>
      /\ \E to \in Lights \cup {NoLight} : waiter' = [waiter EXCEPT ![t] = to]
      /\ UNCHANGED <<currentPhase, inFlight>>
    BY <1>2 DEF Receive
<1>5. TypeOK'
    BY <1>3, <1>4 DEF IInv, TypeOK
<1>6. SentPhaseIsCurrent'
    BY <1>4 DEF IInv, SentPhaseIsCurrent
<1>7. QED
    BY <1>5, <1>6 DEF IInv

LEMMA NextInv ==
    ASSUME IInv, [Next]_vars
    PROVE  IInv'
<1>1. ASSUME NEW t \in Callers, NEW l \in Lights, CallWaitForGreen(t, l)
      PROVE  IInv'
    BY <1>1 DEF IInv, TypeOK, SentPhaseIsCurrent, CallWaitForGreen, lightVars
<1>2. CASE UNCHANGED vars
    BY <1>2 DEF IInv, TypeOK, SentPhaseIsCurrent, vars
<1>3. QED
    BY <1>1, <1>2, ToggleInv, SendInv, ReceiveInv DEF Next, LightStep

THEOREM Invariance == Spec => []IInv
<1>1. Init => IInv
    BY DEF Init, IInv, TypeOK, SentPhaseIsCurrent, Phases
<1>2. IInv /\ [Next]_vars => IInv'
    BY NextInv
<1>3. QED
    BY <1>1, <1>2, PTL DEF Spec, SafetySpec

\* Every variable keeps to its type: only the two phases are ever queued
\* (TrafficLight.cpp:79-93).
THEOREM TypeCorrect == Spec => []TypeOK
<1>1. IInv => TypeOK
    BY DEF IInv
<1>2. QED
    BY <1>1, Invariance, PTL

\* The phase that an asynchronous send carries is the light's phase until the send is
\* done, for the cycle waits for it (TrafficLight.cpp:83-87).
THEOREM NoStaleAnnouncement == Spec => []SentPhaseIsCurrent
<1>1. IInv => SentPhaseIsCurrent
    BY DEF IInv
<1>2. QED
    BY <1>1, Invariance, PTL
=============================================================================
