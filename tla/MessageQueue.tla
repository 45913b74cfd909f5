---------------------------- MODULE MessageQueue ----------------------------
(***************************************************************************)
(* The class template MessageQueue<T> (TrafficLight.cpp:11-33): a deque    *)
(* protected by a mutex, and a condition variable on which receivers wait. *)
(* One step is one thing a thread does between two points where another    *)
(* thread can observe it.  The condition variable is the set of threads    *)
(* whose pc is "waiting"; it may wake up spuriously.                       *)
(***************************************************************************)
EXTENDS Naturals, Sequences, FiniteSets

CONSTANTS
    Messages,   \* the values of T
    Senders,    \* threads that call send
    Receivers,  \* threads that call receive
    NoMessage,
    Nobody,     \* the value of mutex when it is free
    MaxMsgs     \* bound of the model: the code's deque is unbounded

ASSUME MessageQueueAssumption ==
    /\ Senders \cap Receivers = {} /\ IsFiniteSet(Receivers)
    /\ Nobody \notin Senders \cup Receivers
    /\ NoMessage \notin Messages
    /\ MaxMsgs \in Nat \ {0}

VARIABLES
    mutex,  \* _mutex: its holder, or Nobody
    queue,  \* _queue
    pc,     \* where each thread is inside send() or receive()
    msg     \* sender: the argument of send; receiver: the value last returned

vars == <<mutex, queue, pc, msg>>

Threads == Senders \cup Receivers

Waiting == {r \in Receivers : pc[r] = "waiting"}

\* Receivers inside receive() that the condition variable does not hold.
Awake == {r \in Receivers : pc[r] \in {"lock", "check", "take"}}

Init ==
    /\ mutex = Nobody
    /\ queue = << >>
    /\ pc = [t \in Threads |-> "idle"]
    /\ msg = [t \in Threads |-> NoMessage]

-----------------------------------------------------------------------------
(* send *)

\* std::lock_guard<std::mutex> lock(_mutex)
SendLock(s, m) ==
    /\ pc[s] = "idle"
    /\ mutex = Nobody
    /\ Len(queue) < MaxMsgs
    /\ mutex' = s
    /\ pc' = [pc EXCEPT ![s] = "push"]
    /\ msg' = [msg EXCEPT ![s] = m]
    /\ UNCHANGED queue

\* A send that pushes the message after it was moved away.
SendMovedFrom(s) ==
    /\ pc[s] = "push"
    /\ queue' = Append(queue, NoMessage)
    /\ pc' = [pc EXCEPT ![s] = "notify"]
    /\ UNCHANGED <<mutex, msg>>

\* _queue.push_back(std::move(msg))
SendPush(s) ==
    /\ pc[s] = "push"
    /\ queue' = Append(queue, msg[s])
    /\ pc' = [pc EXCEPT ![s] = "notify"]
    /\ UNCHANGED <<mutex, msg>>

\* A send that forgets the notification.
SendSilently(s) ==
    /\ pc[s] = "notify"
    /\ pc' = [pc EXCEPT ![s] = "idle"]
    /\ mutex' = Nobody
    /\ msg' = [msg EXCEPT ![s] = NoMessage]
    /\ UNCHANGED queue

\* _cond.notify_one(), then the guard's destructor frees the mutex.
SendNotify(s) ==
    /\ pc[s] = "notify"
    /\ \/ /\ Waiting = {}
          /\ pc' = [pc EXCEPT ![s] = "idle"]
       \/ \E r \in Waiting : pc' = [pc EXCEPT ![s] = "idle", ![r] = "lock"]
    /\ mutex' = Nobody
    /\ msg' = [msg EXCEPT ![s] = NoMessage]
    /\ UNCHANGED queue

-----------------------------------------------------------------------------
(* receive *)

ReceiveCall(r) ==
    /\ pc[r] = "idle"
    /\ pc' = [pc EXCEPT ![r] = "lock"]
    /\ UNCHANGED <<mutex, queue, msg>>

\* A wait that reads the deque without holding the mutex.
ReceiveUnlocked(r) ==
    /\ pc[r] = "lock"
    /\ pc' = [pc EXCEPT ![r] = "check"]
    /\ UNCHANGED <<mutex, queue, msg>>

\* The unique_lock, at the call and again after each wake-up.
ReceiveLock(r) ==
    /\ pc[r] = "lock"
    /\ mutex = Nobody
    /\ mutex' = r
    /\ pc' = [pc EXCEPT ![r] = "check"]
    /\ UNCHANGED <<queue, msg>>

\* The predicate of _cond.wait: waiting releases the mutex in the same step.
ReceiveCheck(r) ==
    /\ pc[r] = "check"
    /\ \/ /\ queue = << >>
          /\ mutex' = Nobody
          /\ pc' = [pc EXCEPT ![r] = "waiting"]
       \/ /\ queue # << >>
          /\ pc' = [pc EXCEPT ![r] = "take"]
          /\ UNCHANGED mutex
    /\ UNCHANGED <<queue, msg>>

\* A wake-up nobody asked for: the standard allows it at any time.
SpuriousWakeup(r) ==
    /\ pc[r] = "waiting"
    /\ pc' = [pc EXCEPT ![r] = "lock"]
    /\ UNCHANGED <<mutex, queue, msg>>

\* A receive that serves the oldest message first.
TakeFront(r) ==
    /\ pc[r] = "take"
    /\ msg' = [msg EXCEPT ![r] = Head(queue)]
    /\ queue' = Tail(queue)
    /\ mutex' = Nobody
    /\ pc' = [pc EXCEPT ![r] = "idle"]

\* back(), pop_back(), and the return that frees the mutex: last in, first out.
ReceiveTake(r) ==
    /\ pc[r] = "take"
    /\ msg' = [msg EXCEPT ![r] = queue[Len(queue)]]
    /\ queue' = SubSeq(queue, 1, Len(queue) - 1)
    /\ mutex' = Nobody
    /\ pc' = [pc EXCEPT ![r] = "idle"]

SenderStep(s) == SendPush(s) \/ SendNotify(s)

ReceiverStep(r) == ReceiveLock(r) \/ ReceiveCheck(r) \/ ReceiveTake(r)

Next ==
    \/ \E s \in Senders, m \in Messages : SendLock(s, m)
    \/ \E s \in Senders : SenderStep(s)
    \/ \E r \in Receivers : ReceiveCall(r) \/ SpuriousWakeup(r) \/ ReceiverStep(r)

(***************************************************************************)
(* A thread that is inside an operation goes on when it can; nobody is     *)
(* obliged to call send or receive, and nothing is assumed of the order in *)
(* which the mutex serves the threads that want it.                        *)
(***************************************************************************)
Spec ==
    /\ Init
    /\ [][Next]_vars
    /\ \A s \in Senders : WF_vars(SenderStep(s))
    /\ \A r \in Receivers : WF_vars(ReceiverStep(r))

-----------------------------------------------------------------------------
TypeOK ==
    /\ mutex \in Threads \cup {Nobody}
    /\ queue \in Seq(Messages)
    /\ Len(queue) <= MaxMsgs
    /\ pc \in [Threads -> {"idle", "push", "notify", "lock", "check", "take", "waiting"}]
    /\ msg \in [Threads -> Messages \cup {NoMessage}]

\* Whoever is between lock and unlock holds the mutex, so that two threads are
\* never inside the critical sections of send and receive at the same time
\* (TrafficLight.cpp:17, :30), and a receiver that goes to sleep gives it back.
InCriticalSection(t) == pc[t] \in {"push", "notify", "check", "take"}

MutualExclusion ==
    /\ \A t \in Threads : InCriticalSection(t) => mutex = t
    /\ mutex # Nobody => InCriticalSection(mutex)

\* No lost wake-up: while the mutex is free, a receiver sleeps on the condition
\* variable only if there are at least as many receivers awake as there are
\* messages; one notify_one per message (TrafficLight.cpp:32) is enough, even
\* though a receiver that comes late may take the message of the one notified.
NoLostWakeup ==
    (mutex = Nobody /\ Waiting # {}) => Len(queue) <= Cardinality(Awake)

\* The two operations implement the abstract mailbox, fairness included.
Mailbox == INSTANCE LifoMailbox WITH
    stack <- queue,
    asking <- {r \in Receivers : pc[r] # "idle"},
    reply <- [r \in Receivers |-> msg[r]]

MailboxSpec == Mailbox!Spec
=============================================================================
