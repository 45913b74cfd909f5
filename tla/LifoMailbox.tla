---------------------------- MODULE LifoMailbox ----------------------------
(***************************************************************************)
(* What MessageQueue<T> of the traffic simulation promises its users: a    *)
(* stack of messages.  Put leaves a message on top, a receiver that has    *)
(* asked for a message gets the top one, and as long as somebody asks and  *)
(* there is something to take, somebody is served.  No mutex and no        *)
(* condition variable: MessageQueue.tla shows that the code's two          *)
(* operations implement this, and TrafficLight.tla builds on it.           *)
(***************************************************************************)
EXTENDS Naturals, Sequences

CONSTANTS Messages, Receivers, NoMessage

VARIABLES
    stack,   \* the undelivered messages, the newest one last
    asking,  \* the receivers inside a call of receive()
    reply    \* what the last call of each receiver returned

vars == <<stack, asking, reply>>

Init ==
    /\ stack = << >>
    /\ asking = {}
    /\ reply = [r \in Receivers |-> NoMessage]

Put(m) ==
    /\ stack' = Append(stack, m)
    /\ UNCHANGED <<asking, reply>>

Ask(r) ==
    /\ r \notin asking
    /\ asking' = asking \cup {r}
    /\ UNCHANGED <<stack, reply>>

Take(r) ==
    /\ r \in asking
    /\ stack # << >>
    /\ reply' = [reply EXCEPT ![r] = stack[Len(stack)]]
    /\ stack' = SubSeq(stack, 1, Len(stack) - 1)
    /\ asking' = asking \ {r}

Serve == \E r \in Receivers : Take(r)

Next ==
    \/ \E m \in Messages : Put(m)
    \/ \E r \in Receivers : Ask(r)
    \/ Serve

Spec == Init /\ [][Next]_vars /\ WF_vars(Serve)
=============================================================================
