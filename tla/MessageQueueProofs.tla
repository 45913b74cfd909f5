------------------------- MODULE MessageQueueProofs -------------------------
(***************************************************************************)
(* Proofs about MessageQueue.tla, for any senders, any messages, any       *)
(* bound of the queue, and any finite set of receivers.                    *)
(*                                                                         *)
(* NoLostWakeup speaks of the moments when the mutex is free.  Between the *)
(* push of a message and its notification there may be one message more    *)
(* than receivers awake: WakeupsSuffice says so, and is inductive together *)
(* with the types and with who holds the mutex.                            *)
(***************************************************************************)
EXTENDS MessageQueue, FiniteSetTheorems, SequenceTheorems, TLAPS

\* A sender that is about to push has a message and room for it, and a receiver takes a message only
\* when there is one: back() of an empty deque would be undefined (TrafficLight.cpp:19).
PushHasMessage ==
    \A s \in Senders : pc[s] = "push" => msg[s] \in Messages /\ Len(queue) < MaxMsgs

TakeHasMessage == \A r \in Receivers : pc[r] = "take" => queue # << >>

\* Messages that a notification is still to come for.
Unannounced == IF \E s \in Senders : pc[s] = "notify" THEN 1 ELSE 0

WakeupsSuffice == Waiting # {} => Len(queue) <= Cardinality(Awake) + Unannounced

\* The inductive invariant.
IInv ==
    /\ TypeOK
    /\ PushHasMessage
    /\ TakeHasMessage
    /\ MutualExclusion
    /\ WakeupsSuffice

-----------------------------------------------------------------------------
\* There are finitely many receivers to be awake.
LEMMA AwakeFinite ==
    ASSUME MessageQueueAssumption
    PROVE  IsFiniteSet(Awake) /\ Cardinality(Awake) \in Nat
<1>1. IsFiniteSet(Receivers) /\ Awake \subseteq Receivers
    BY DEF MessageQueueAssumption, Awake
<1>2. QED
    BY <1>1, FS_Subset, FS_CardinalityType

\* One thread at a time is inside a critical section (TrafficLight.cpp:17, :30).
LEMMA Alone ==
    ASSUME MutualExclusion, NEW t \in Threads, InCriticalSection(t)
    PROVE  mutex = t /\ \A u \in Threads \ {t} : ~InCriticalSection(u)
BY DEF MutualExclusion

\* While the mutex is free there is none.
LEMMA NobodyInside ==
    ASSUME MessageQueueAssumption, MutualExclusion, mutex = Nobody
    PROVE  \A t \in Threads : ~InCriticalSection(t)
BY DEF MutualExclusion, MessageQueueAssumption, Threads

LEMMA InitInv == ASSUME MessageQueueAssumption, Init PROVE IInv
<1>1. TypeOK
    BY DEF Init, TypeOK, MessageQueueAssumption, Threads
<1>2. PushHasMessage /\ TakeHasMessage /\ MutualExclusion
    BY DEF Init, PushHasMessage, TakeHasMessage, MutualExclusion, InCriticalSection, Threads
<1>3. Waiting = {}
    BY DEF Init, Waiting, Threads
<1>4. QED
    BY <1>1, <1>2, <1>3 DEF IInv, WakeupsSuffice

-----------------------------------------------------------------------------
(* send *)

LEMMA SendLockInv ==
    ASSUME MessageQueueAssumption, IInv,
           NEW s \in Senders, NEW m \in Messages, SendLock(s, m)
    PROVE  IInv'
<1>1. TypeOK /\ s \in Threads /\ s \notin Receivers
    BY DEF IInv, Threads, MessageQueueAssumption
<1>2. /\ pc' = [pc EXCEPT ![s] = "push"] /\ msg' = [msg EXCEPT ![s] = m]
      /\ mutex = Nobody /\ mutex' = s /\ queue' = queue /\ pc[s] = "idle"
      /\ Len(queue) < MaxMsgs
    BY DEF SendLock
<1>3. \A t \in Threads : ~InCriticalSection(t)
    BY <1>2, NobodyInside DEF IInv
<1>4. TypeOK'
    BY <1>1, <1>2 DEF TypeOK
<1>5. PushHasMessage' /\ TakeHasMessage'
    BY <1>1, <1>2 DEF IInv, PushHasMessage, TakeHasMessage, TypeOK, Threads
<1>6. MutualExclusion'
    BY <1>1, <1>2, <1>3 DEF MutualExclusion, InCriticalSection, TypeOK
<1>7. WakeupsSuffice'
    <2>1. Waiting' = Waiting /\ Awake' = Awake
        BY <1>1, <1>2 DEF Waiting, Awake, TypeOK, Threads
    <2>2. Unannounced = 0 /\ Unannounced' = 0
        BY <1>1, <1>2, <1>3 DEF Unannounced, InCriticalSection, TypeOK, Threads
    <2>3. QED
        BY <1>2, <2>1, <2>2 DEF IInv, WakeupsSuffice
<1>8. QED
    BY <1>4, <1>5, <1>6, <1>7 DEF IInv

\* The message that is one too many until it is announced (TrafficLight.cpp:31).
LEMMA SendPushInv ==
    ASSUME MessageQueueAssumption, IInv, NEW s \in Senders, SendPush(s)
    PROVE  IInv'
<1>1. TypeOK /\ s \in Threads /\ s \notin Receivers
    BY DEF IInv, Threads, MessageQueueAssumption
<1>2. /\ pc' = [pc EXCEPT ![s] = "notify"] /\ pc[s] = "push"
      /\ queue' = Append(queue, msg[s]) /\ mutex' = mutex /\ msg' = msg
    BY DEF SendPush
<1>3. mutex = s /\ \A t \in Threads \ {s} : ~InCriticalSection(t)
    BY <1>1, <1>2, Alone DEF IInv, InCriticalSection
<1>4. msg[s] \in Messages
    BY <1>2 DEF IInv, PushHasMessage
<1>5. Len(queue) < MaxMsgs /\ MaxMsgs \in Nat
    BY <1>2 DEF IInv, PushHasMessage, MessageQueueAssumption
<1>6. queue' \in Seq(Messages) /\ Len(queue') = Len(queue) + 1 /\ queue' # << >>
    BY <1>1, <1>2, <1>4 DEF TypeOK
<1>7. TypeOK'
    <2>1. Len(queue') <= MaxMsgs
        BY <1>1, <1>5, <1>6 DEF TypeOK
    <2>2. QED
        BY <1>1, <1>2, <1>6, <2>1 DEF TypeOK
<1>8. PushHasMessage'
    BY <1>1, <1>2, <1>3 DEF PushHasMessage, InCriticalSection, TypeOK, Threads
<1>9. TakeHasMessage'
    BY <1>6 DEF TakeHasMessage
<1>10. MutualExclusion'
    BY <1>1, <1>2, <1>3 DEF MutualExclusion, InCriticalSection, TypeOK
<1>11. WakeupsSuffice'
    <2>1. Waiting' = Waiting /\ Awake' = Awake
        BY <1>1, <1>2 DEF Waiting, Awake, TypeOK, Threads
    <2>2. Unannounced = 0
        BY <1>1, <1>2, <1>3 DEF Unannounced, InCriticalSection, Threads
    <2>3. Unannounced' = 1
        BY <1>1, <1>2 DEF Unannounced, TypeOK
    <2>4. Waiting # {} => Len(queue) <= Cardinality(Awake)
        BY <2>2, AwakeFinite DEF IInv, WakeupsSuffice
    <2>5. Len(queue) \in Nat
        BY <1>1 DEF TypeOK
    <2>6. QED
        BY <1>6, <2>1, <2>3, <2>4, <2>5, AwakeFinite DEF WakeupsSuffice
<1>12. QED
    BY <1>7, <1>8, <1>9, <1>10, <1>11 DEF IInv

\* One notification is enough, as the message was the only one too many
\* (TrafficLight.cpp:32).
LEMMA SendNotifyInv ==
    ASSUME MessageQueueAssumption, IInv, NEW s \in Senders, SendNotify(s)
    PROVE  IInv'
<1>1. TypeOK /\ s \in Threads /\ s \notin Receivers
    BY DEF IInv, Threads, MessageQueueAssumption
<1>2. /\ pc[s] = "notify" /\ mutex' = Nobody /\ queue' = queue
      /\ msg' = [msg EXCEPT ![s] = NoMessage]
    BY DEF SendNotify
<1>3. mutex = s /\ \A t \in Threads \ {s} : ~InCriticalSection(t)
    BY <1>1, <1>2, Alone DEF IInv, InCriticalSection
<1>4. CASE Waiting = {} /\ pc' = [pc EXCEPT ![s] = "idle"]
    <2>1. TypeOK'
        BY <1>1, <1>2, <1>4 DEF TypeOK
    <2>2. PushHasMessage' /\ TakeHasMessage'
        BY <1>1, <1>2, <1>4 DEF IInv, PushHasMessage, TakeHasMessage, TypeOK, Threads
    <2>3. MutualExclusion'
        BY <1>1, <1>2, <1>3, <1>4 DEF MutualExclusion, InCriticalSection, TypeOK
    <2>4. Waiting' = {}
        BY <1>1, <1>4 DEF Waiting, TypeOK, Threads
    <2>5. QED
        BY <2>1, <2>2, <2>3, <2>4 DEF IInv, WakeupsSuffice
<1>5. ASSUME NEW r \in Waiting, pc' = [pc EXCEPT ![s] = "idle", ![r] = "lock"]
      PROVE  IInv'
    <2>1. r \in Receivers /\ r \in Threads /\ r # s /\ pc[r] = "waiting" /\ r \notin Awake
        BY <1>1 DEF Waiting, Awake, Threads
    <2>2. TypeOK'
        BY <1>1, <1>2, <1>5 DEF TypeOK
    <2>3. PushHasMessage' /\ TakeHasMessage'
        BY <1>1, <1>2, <1>5, <2>1
        DEF IInv, PushHasMessage, TakeHasMessage, TypeOK, Threads, MessageQueueAssumption
    <2>4. MutualExclusion'
        BY <1>1, <1>2, <1>3, <1>5 DEF MutualExclusion, InCriticalSection, TypeOK
    <2>5. Awake' = Awake \cup {r}
        BY <1>1, <1>5, <2>1 DEF Awake, TypeOK, Threads
    <2>6. Cardinality(Awake') = Cardinality(Awake) + 1
        BY <2>1, <2>5, AwakeFinite, FS_AddElement
    <2>7. Len(queue) <= Cardinality(Awake) + 1
        <3>1. Waiting # {}
            OBVIOUS
        <3>2. Unannounced = 1
            BY <1>2 DEF Unannounced
        <3>3. QED
            BY <3>1, <3>2 DEF IInv, WakeupsSuffice
    <2>8. WakeupsSuffice'
        <3>1. Unannounced' = 0
            BY <1>1, <1>3, <1>5, <2>1
            DEF Unannounced, InCriticalSection, TypeOK, Threads
        <3>2. Len(queue') <= Cardinality(Awake') + 0
            BY <1>2, <2>6, <2>7, AwakeFinite
        <3>3. QED
            BY <3>1, <3>2 DEF WakeupsSuffice
    <2>9. QED
        BY <2>2, <2>3, <2>4, <2>8 DEF IInv
<1>6. QED
    BY <1>4, <1>5 DEF SendNotify

-----------------------------------------------------------------------------
(* receive *)

\* A receiver that goes for the mutex, at its call or after a wakeup, is one more awake.
LEMMA ComesAwakeInv ==
    ASSUME MessageQueueAssumption, IInv, NEW r \in Receivers,
           ReceiveCall(r) \/ SpuriousWakeup(r)
    PROVE  IInv'
<1>1. TypeOK /\ r \in Threads /\ r \notin Senders
    BY DEF IInv, Threads, MessageQueueAssumption
<1>2. /\ pc' = [pc EXCEPT ![r] = "lock"] /\ pc[r] \in {"idle", "waiting"}
      /\ mutex' = mutex /\ queue' = queue /\ msg' = msg
    BY DEF ReceiveCall, SpuriousWakeup
<1>3. TypeOK'
    BY <1>1, <1>2 DEF TypeOK
<1>4. PushHasMessage' /\ TakeHasMessage'
    BY <1>1, <1>2 DEF IInv, PushHasMessage, TakeHasMessage, TypeOK, Threads
<1>5. MutualExclusion'
    BY <1>1, <1>2 DEF IInv, MutualExclusion, InCriticalSection, TypeOK
<1>6. WakeupsSuffice'
    <2>1. Awake' = Awake \cup {r} /\ r \notin Awake
        BY <1>1, <1>2 DEF Awake, TypeOK, Threads
    <2>2. Waiting' \subseteq Waiting
        BY <1>1, <1>2 DEF Waiting, TypeOK, Threads
    <2>3. Unannounced' = Unannounced /\ Unannounced \in Nat
        BY <1>1, <1>2 DEF Unannounced, TypeOK, Threads
    <2>4. Cardinality(Awake') = Cardinality(Awake) + 1
        BY <2>1, AwakeFinite, FS_AddElement
    <2>5. Len(queue) \in Nat
        BY <1>1 DEF TypeOK
    <2>6. QED
        BY <1>2, <2>2, <2>3, <2>4, <2>5, AwakeFinite DEF IInv, WakeupsSuffice
<1>7. QED
    BY <1>3, <1>4, <1>5, <1>6 DEF IInv

LEMMA ReceiveLockInv ==
    ASSUME MessageQueueAssumption, IInv, NEW r \in Receivers, ReceiveLock(r)
    PROVE  IInv'
<1>1. TypeOK /\ r \in Threads /\ r \notin Senders
    BY DEF IInv, Threads, MessageQueueAssumption
<1>2. /\ pc' = [pc EXCEPT ![r] = "check"] /\ pc[r] = "lock"
      /\ mutex = Nobody /\ mutex' = r /\ queue' = queue /\ msg' = msg
    BY DEF ReceiveLock
<1>3. \A t \in Threads : ~InCriticalSection(t)
    BY <1>2, NobodyInside DEF IInv
<1>4. TypeOK'
    BY <1>1, <1>2 DEF TypeOK
<1>5. PushHasMessage' /\ TakeHasMessage'
    BY <1>1, <1>2 DEF IInv, PushHasMessage, TakeHasMessage, TypeOK, Threads
<1>6. MutualExclusion'
    BY <1>1, <1>2, <1>3 DEF MutualExclusion, InCriticalSection, TypeOK
<1>7. WakeupsSuffice'
    <2>1. Waiting' = Waiting /\ Awake' = Awake
        BY <1>1, <1>2 DEF Waiting, Awake, TypeOK, Threads
    <2>2. Unannounced' = Unannounced
        BY <1>1, <1>2 DEF Unannounced, TypeOK, Threads
    <2>3. QED
        BY <1>2, <2>1, <2>2 DEF IInv, WakeupsSuffice
<1>8. QED
    BY <1>4, <1>5, <1>6, <1>7 DEF IInv

\* A receiver goes to sleep only when there is no message at all, and nobody can add
\* one before it sleeps (TrafficLight.cpp:18).
LEMMA ReceiveCheckInv ==
    ASSUME MessageQueueAssumption, IInv, NEW r \in Receivers, ReceiveCheck(r)
    PROVE  IInv'
<1>1. TypeOK /\ r \in Threads /\ r \notin Senders
    BY DEF IInv, Threads, MessageQueueAssumption
<1>2. pc[r] = "check" /\ queue' = queue /\ msg' = msg
    BY DEF ReceiveCheck
<1>3. mutex = r /\ \A t \in Threads \ {r} : ~InCriticalSection(t)
    BY <1>1, <1>2, Alone DEF IInv, InCriticalSection
<1>4. CASE queue = << >> /\ mutex' = Nobody /\ pc' = [pc EXCEPT ![r] = "waiting"]
    <2>1. TypeOK'
        BY <1>1, <1>2, <1>4 DEF TypeOK
    <2>2. PushHasMessage'
        BY <1>1, <1>2, <1>4 DEF IInv, PushHasMessage, TypeOK, Threads
    <2>3. TakeHasMessage'
        BY <1>1, <1>2, <1>3, <1>4 DEF TakeHasMessage, InCriticalSection, TypeOK, Threads
    <2>4. MutualExclusion'
        BY <1>1, <1>3, <1>4 DEF MutualExclusion, InCriticalSection, TypeOK
    <2>5. WakeupsSuffice'
        <3>1. Awake' \subseteq Awake
            BY <1>1, <1>4 DEF Awake, TypeOK, Threads
        <3>2. Cardinality(Awake') \in Nat
            BY <3>1, AwakeFinite, FS_Subset, FS_CardinalityType
        <3>3. Len(queue') = 0 /\ Unannounced' \in Nat
            BY <1>2, <1>4 DEF Unannounced
        <3>4. QED
            BY <3>2, <3>3 DEF WakeupsSuffice
    <2>6. QED
        BY <2>1, <2>2, <2>3, <2>4, <2>5 DEF IInv
<1>5. CASE queue # << >> /\ mutex' = mutex /\ pc' = [pc EXCEPT ![r] = "take"]
    <2>1. TypeOK'
        BY <1>1, <1>2, <1>5 DEF TypeOK
    <2>2. PushHasMessage' /\ TakeHasMessage'
        BY <1>1, <1>2, <1>5 DEF IInv, PushHasMessage, TakeHasMessage, TypeOK, Threads
    <2>3. MutualExclusion'
        BY <1>1, <1>2, <1>3, <1>5 DEF MutualExclusion, InCriticalSection, TypeOK
    <2>4. WakeupsSuffice'
        <3>1. Waiting' = Waiting /\ Awake' = Awake
            BY <1>1, <1>2, <1>5 DEF Waiting, Awake, TypeOK, Threads
        <3>2. Unannounced' = Unannounced
            BY <1>1, <1>5 DEF Unannounced, TypeOK, Threads
        <3>3. QED
            BY <1>2, <3>1, <3>2 DEF IInv, WakeupsSuffice
    <2>5. QED
        BY <2>1, <2>2, <2>3, <2>4 DEF IInv
<1>6. QED
    BY <1>4, <1>5 DEF ReceiveCheck

\* The message leaves together with a receiver that was awake for it
\* (TrafficLight.cpp:19-22).
LEMMA ReceiveTakeInv ==
    ASSUME MessageQueueAssumption, IInv, NEW r \in Receivers, ReceiveTake(r)
    PROVE  IInv'
<1>1. TypeOK /\ r \in Threads /\ r \notin Senders
    BY DEF IInv, Threads, MessageQueueAssumption
<1>2. /\ pc' = [pc EXCEPT ![r] = "idle"] /\ pc[r] = "take" /\ mutex' = Nobody
      /\ queue' = SubSeq(queue, 1, Len(queue) - 1)
      /\ msg' = [msg EXCEPT ![r] = queue[Len(queue)]]
    BY DEF ReceiveTake
<1>3. mutex = r /\ \A t \in Threads \ {r} : ~InCriticalSection(t)
    BY <1>1, <1>2, Alone DEF IInv, InCriticalSection
<1>4. queue \in Seq(Messages) /\ queue # << >> /\ Len(queue) <= MaxMsgs
    BY <1>1, <1>2 DEF IInv, TakeHasMessage, TypeOK
<1>5. /\ queue' \in Seq(Messages) /\ Len(queue') = Len(queue) - 1
      /\ queue[Len(queue)] \in Messages
    <2>1. ASSUME NEW q \in Seq(Messages), q # << >>
          PROVE  /\ q[Len(q)] \in Messages
                 /\ SubSeq(q, 1, Len(q) - 1) \in Seq(Messages)
                 /\ Len(SubSeq(q, 1, Len(q) - 1)) = Len(q) - 1
        <3>1. Len(q) \in Nat /\ Len(q) > 0
            BY <2>1, EmptySeq, LenProperties
        <3>2. q[Len(q)] \in Messages
            BY <3>1, ElementOfSeq
        <3> DEFINE k == Len(q) - 1
        <3>3. k \in Nat /\ \A i \in 1..k : q[i] \in Messages
            BY <3>1, ElementOfSeq
        <3> HIDE DEF k
        <3>4. SubSeq(q, 1, k) \in Seq(Messages) /\ Len(SubSeq(q, 1, k)) = k
            BY <3>3, SubSeqProperties
        <3>5. QED
            BY <3>2, <3>4 DEF k
    <2>2. QED
        BY <1>2, <1>4, <2>1
<1>6. TypeOK'
    <2>1. Len(queue') <= MaxMsgs
        BY <1>4, <1>5 DEF MessageQueueAssumption
    <2>2. QED
        BY <1>1, <1>2, <1>5, <2>1 DEF TypeOK
<1>7. PushHasMessage' /\ TakeHasMessage'
    BY <1>1, <1>2, <1>3 DEF PushHasMessage, TakeHasMessage, InCriticalSection, TypeOK, Threads
<1>8. MutualExclusion'
    BY <1>1, <1>2, <1>3 DEF MutualExclusion, InCriticalSection, TypeOK
<1>9. WakeupsSuffice'
    <2>1. Awake' = Awake \ {r} /\ r \in Awake /\ Waiting' = Waiting
        BY <1>1, <1>2 DEF Awake, Waiting, TypeOK, Threads
    <2>2. Cardinality(Awake') = Cardinality(Awake) - 1
        BY <2>1, AwakeFinite, FS_RemoveElement
    <2>3. Unannounced' = Unannounced /\ Unannounced \in Nat
        BY <1>1, <1>2 DEF Unannounced, TypeOK, Threads
    <2>4. Len(queue) \in Nat
        BY <1>4
    <2>5. QED
        BY <1>5, <2>1, <2>2, <2>3, <2>4, AwakeFinite DEF IInv, WakeupsSuffice
<1>10. QED
    BY <1>6, <1>7, <1>8, <1>9 DEF IInv

-----------------------------------------------------------------------------
LEMMA NextInv == ASSUME MessageQueueAssumption, IInv, [Next]_vars PROVE IInv'
<1>1. ASSUME NEW s \in Senders, NEW m \in Messages, SendLock(s, m) PROVE IInv'
    BY <1>1, SendLockInv
<1>2. ASSUME NEW s \in Senders, SenderStep(s) PROVE IInv'
    BY <1>2, SendPushInv, SendNotifyInv DEF SenderStep
<1>3. ASSUME NEW r \in Receivers, ReceiveCall(r) \/ SpuriousWakeup(r) PROVE IInv'
    BY <1>3, ComesAwakeInv
<1>4. ASSUME NEW r \in Receivers, ReceiverStep(r) PROVE IInv'
    BY <1>4, ReceiveLockInv, ReceiveCheckInv, ReceiveTakeInv DEF ReceiverStep
<1>5. CASE UNCHANGED vars
    BY <1>5 DEF vars, IInv, TypeOK, PushHasMessage, TakeHasMessage, MutualExclusion,
         InCriticalSection, WakeupsSuffice, Waiting, Awake, Unannounced
<1>6. QED
    BY <1>1, <1>2, <1>3, <1>4, <1>5 DEF Next

\* IInv holds in every reachable state.
THEOREM Invariance == Spec => []IInv
<1>1. Init => IInv
    BY InitInv, MessageQueueAssumption
<1>2. IInv /\ [Next]_vars => IInv'
    BY NextInv, MessageQueueAssumption
<1>3. QED
    BY <1>1, <1>2, PTL DEF Spec

\* The deque holds messages only, and every thread is somewhere in its operation.
THEOREM TypeCorrect == Spec => []TypeOK
<1>1. IInv => TypeOK
    BY DEF IInv
<1>2. QED
    BY Invariance, <1>1, PTL

\* Two threads are never inside the critical sections of send and receive, although a
\* receiver gives the mutex back in the middle of its own (TrafficLight.cpp:17-22, :30).
THEOREM OneInside == Spec => []MutualExclusion
<1>1. IInv => MutualExclusion
    BY DEF IInv
<1>2. QED
    BY Invariance, <1>1, PTL

\* No message waits for a receiver that sleeps: for any number of receivers one
\* notify_one per message is enough (TrafficLight.cpp:32).
THEOREM WakeupsArrive == Spec => []NoLostWakeup
<1>1. IInv => NoLostWakeup
    <2> SUFFICES ASSUME IInv, mutex = Nobody, Waiting # {}
                 PROVE  Len(queue) <= Cardinality(Awake)
        BY DEF NoLostWakeup
    <2>1. Unannounced = 0
        BY NobodyInside, MessageQueueAssumption
        DEF IInv, Unannounced, InCriticalSection, Threads
    <2>2. Cardinality(Awake) \in Nat
        BY AwakeFinite, MessageQueueAssumption
    <2>3. QED
        BY <2>1, <2>2 DEF IInv, WakeupsSuffice
<1>2. QED
    BY Invariance, <1>1, PTL

-----------------------------------------------------------------------------
(* The mailbox *)

\* Every step of send and receive is a step of LifoMailbox, or none: pushing is the
\* Put, taking is the Take, and all the locking and sleeping is invisible.
LEMMA StepRefines ==
    ASSUME MessageQueueAssumption, IInv, [Next]_vars
    PROVE  [Mailbox!Next]_(Mailbox!vars)
<1> DEFINE Asking == {r \in Receivers : pc[r] # "idle"}
           Reply == [r \in Receivers |-> msg[r]]
<1>t. TypeOK /\ Senders \cap Receivers = {}
    BY DEF IInv, MessageQueueAssumption
<1>1. ASSUME queue' = queue, Asking' = Asking, Reply' = Reply
      PROVE  [Mailbox!Next]_(Mailbox!vars)
    BY <1>1 DEF Mailbox!vars
<1>2. ASSUME NEW s \in Senders, NEW m \in Messages, SendLock(s, m)
      PROVE  [Mailbox!Next]_(Mailbox!vars)
    BY <1>t, <1>1, <1>2 DEF SendLock, TypeOK, Threads
<1>3. ASSUME NEW s \in Senders, SendPush(s)
      PROVE  [Mailbox!Next]_(Mailbox!vars)
    <2>1. msg[s] \in Messages
        BY <1>3 DEF IInv, PushHasMessage, SendPush
    <2>2. Asking' = Asking /\ Reply' = Reply
        BY <1>t, <1>3 DEF SendPush, TypeOK, Threads
    <2>3. Mailbox!Put(msg[s])
        BY <1>3, <2>2 DEF SendPush, Mailbox!Put
    <2>4. QED
        BY <2>1, <2>3 DEF Mailbox!Next
<1>4. ASSUME NEW s \in Senders, SendNotify(s)
      PROVE  [Mailbox!Next]_(Mailbox!vars)
    BY <1>t, <1>1, <1>4 DEF SendNotify, Waiting, TypeOK, Threads
<1>5. ASSUME NEW r \in Receivers, ReceiveCall(r)
      PROVE  [Mailbox!Next]_(Mailbox!vars)
    <2>1. r \notin Asking /\ Asking' = Asking \cup {r} /\ Reply' = Reply
        BY <1>t, <1>5 DEF ReceiveCall, TypeOK, Threads
    <2>2. Mailbox!Ask(r)
        BY <1>5, <2>1 DEF ReceiveCall, Mailbox!Ask
    <2>3. QED
        BY <2>2 DEF Mailbox!Next
<1>6. ASSUME NEW r \in Receivers, SpuriousWakeup(r) \/ ReceiveLock(r) \/ ReceiveCheck(r)
      PROVE  [Mailbox!Next]_(Mailbox!vars)
    BY <1>t, <1>1, <1>6 DEF SpuriousWakeup, ReceiveLock, ReceiveCheck, TypeOK, Threads
<1>7. ASSUME NEW r \in Receivers, ReceiveTake(r)
      PROVE  [Mailbox!Next]_(Mailbox!vars)
    <2>1. queue # << >>
        BY <1>7 DEF IInv, TakeHasMessage, ReceiveTake
    <2>2. /\ r \in Asking /\ Asking' = Asking \ {r}
          /\ Reply' = [Reply EXCEPT ![r] = queue[Len(queue)]]
        BY <1>t, <1>7 DEF ReceiveTake, TypeOK, Threads
    <2>3. Mailbox!Take(r)
        BY <1>7, <2>1, <2>2 DEF ReceiveTake, Mailbox!Take
    <2>4. QED
        BY <2>3 DEF Mailbox!Next, Mailbox!Serve
<1>8. CASE UNCHANGED vars
    BY <1>1, <1>8 DEF vars
<1>9. QED
    BY <1>2, <1>3, <1>4, <1>5, <1>6, <1>7, <1>8 DEF Next, SenderStep, ReceiverStep

\* What LifoMailbox says, but for its fairness.
MailboxSafety == Mailbox!Init /\ [][Mailbox!Next]_(Mailbox!vars)

\* For any number of threads, and with wakeups of all kinds, the queue is a stack:
\* every message is handed out once, the newest first (TrafficLight.cpp:11-33).
THEOREM Implements == Spec => MailboxSafety
<1>1. Init => Mailbox!Init
    BY DEF Init, Mailbox!Init, Threads
<1>2. IInv /\ [Next]_vars => [Mailbox!Next]_(Mailbox!vars)
    BY StepRefines, MessageQueueAssumption
<1>3. QED
    BY Invariance, <1>1, <1>2, PTL DEF Spec, MailboxSafety
=============================================================================
