--------------------------- MODULE ChatRoomProofs ---------------------------
(***************************************************************************)
(* Proofs about the chat room, for any number of users, clients and        *)
(* connections and for buffers of any size.                                *)
(*                                                                         *)
(* That table and con_list agree depends on what the server reads: the     *)
(* name in a session is that of a request, and of nothing else a client    *)
(* may have sent.  So the invariant also says what can be on its way to    *)
(* and from a connection that has no session yet (BeforeLogin), and that   *)
(* depends on the clients, which send something else only after they read  *)
(* a SUCCESS (ClientsLetIn).                                               *)
(***************************************************************************)
EXTENDS ChatRoom, FiniteSetTheorems, SequenceTheorems, TLAPS

Refusals == Answers \ {"SUCCESS"}
Requests == [kind : {"request"}, option : Options, name : Users]

\* A connection in the backlog, or one whose client has not been let in.
Fresh(k) == k > accepted \/ (con[k] # NoCon /\ con[k].state = "REQUEST")

Accepted ==
    /\ 0 \in events => accepted < opened
    /\ \A k \in Conns : con[k] # NoCon => base < k /\ k <= accepted
    /\ \A k \in Conns : Session(k) => con[k].name \in Users

BeforeLogin ==
    \A k \in Conns : Fresh(k) => toServer[k] \in Seq(Requests) /\ toClient[k] \in Seq(Refusals)

ClientsLetIn ==
    \A c \in Clients :
        /\ pc[c] # "off" => conn[c] \in Conns
        /\ pc[c] \in {"options", "awaitOpt", "online"} => ~Fresh(conn[c])

Agreement == SessionHasRow /\ RowHasSession /\ OnlineIffSocket

IInv == TypeOK /\ Accepted /\ BeforeLogin /\ ClientsLetIn /\ Agreement

-----------------------------------------------------------------------------
(* What is sent *)

LEMMA Sizes ==
    /\ MaxConns \in Nat /\ MaxOut \in Nat /\ Conns \subseteq Nat
    /\ \A k \in Conns : k >= 1 /\ k <= MaxConns
    BY ChatAssumption DEF ChatAssumption, Conns

\* What does not fit is cut off at the end.
LEMMA UpToType ==
    ASSUME NEW S, NEW s \in Seq(S)
    PROVE  UpTo(MaxOut, s) \in Seq(S)
<1> DEFINE n == IF Len(s) < MaxOut THEN Len(s) ELSE MaxOut
<1>1. Len(s) \in Nat /\ n \in Nat /\ n <= Len(s)
    BY Sizes, LenProperties
<1>2. SubSeq(s, 1, n) \in Seq(S)
    <2>1. \A i \in 1 .. n : s[i] \in S
        BY <1>1, ElementOfSeq
    <2> HIDE DEF n
    <2>2. QED
        BY <1>1, <2>1, SubSeqProperties
<1>3. QED
    BY <1>2 DEF UpTo

LEMMA DeliverType ==
    ASSUME NEW S, NEW out, NEW ts, NEW k \in Conns,
           out[k] \in Seq(S), toClient[k] \in Seq(S)
    PROVE  Deliver(out, ts)[k] \in Seq(S)
<1>1. toClient[k] \o out[k] \in Seq(S)
    BY ConcatProperties
<1>2. QED
    BY <1>1, UpToType DEF Deliver

\* What the server sends reaches connections it has accepted only, and only those who
\* have a session or get it now read a SUCCESS.
Sendable(out) ==
    \A t \in Conns :
        /\ out[t] \in Seq(Answers)
        /\ Fresh(t)' => out[t] \in Seq(Refusals)

LEMMA TextIsNoSuccess ==
    /\ Refusals \subseteq Answers /\ "text" \in Refusals
    /\ {"SUCCESS", "REFUSED"} \subseteq Answers /\ "REFUSED" \in Refusals
    BY DEF Refusals, Answers

LEMMA NotifyType ==
    ASSUME NEW k, NEW t \in Conns
    PROVE  Notify(k)[t] \in Seq(Refusals)
<1>1. IsFiniteSet(Rows(t, k))
    BY ChatAssumption, FS_Subset DEF ChatAssumption, Rows
<1>2. Cardinality(Rows(t, k)) \in Nat
    BY <1>1, FS_CardinalityType
<1> DEFINE n == Cardinality(Rows(t, k))
<1>3. [i \in 1 .. n |-> "text"] \in Seq(Refusals)
    <2> HIDE DEF n
    <2>1. n \in Nat => [i \in 1 .. n |-> "text"] \in Seq(Refusals)
        BY TextIsNoSuccess
    <2>2. QED
        BY <1>2, <2>1 DEF n
<1>4. << >> \in Seq(Refusals)
    OBVIOUS
<1>5. QED
    BY <1>3, <1>4 DEF Notify

LEMMA RefusalsAreAnswers == Seq(Refusals) \subseteq Seq(Answers)
    BY TextIsNoSuccess

LEMMA NotifySendable ==
    ASSUME NEW k
    PROVE  Sendable(Notify(k))
    BY NotifyType, RefusalsAreAnswers DEF Sendable

LEMMA RespondSendable ==
    ASSUME NEW k \in Conns, NEW res, Fresh(k)' => res # "SUCCESS"
    PROVE  Sendable(Respond(k, res))
<1> DEFINE answer == IF res = "SUCCESS" THEN "SUCCESS" ELSE "REFUSED"
<1>1. << answer >> \in Seq(Answers) /\ (Fresh(k)' => << answer >> \in Seq(Refusals))
    BY TextIsNoSuccess
<1>2. << >> \in Seq(Answers) /\ << >> \in Seq(Refusals)
    OBVIOUS
<1>3. QED
    BY <1>1, <1>2 DEF Respond, Sendable

LEMMA ThenSendable ==
    ASSUME NEW out1, NEW out2, Sendable(out1), Sendable(out2)
    PROVE  Sendable(Then(out1, out2))
<1>1. ASSUME NEW t \in Conns
      PROVE  /\ Then(out1, out2)[t] \in Seq(Answers)
             /\ Fresh(t)' => Then(out1, out2)[t] \in Seq(Refusals)
    <2>1. Then(out1, out2)[t] = out1[t] \o out2[t]
        BY DEF Then
    <2>2. out1[t] \o out2[t] \in Seq(Answers)
        BY ConcatProperties DEF Sendable
    <2>3. Fresh(t)' => out1[t] \o out2[t] \in Seq(Refusals)
        BY ConcatProperties DEF Sendable
    <2>4. QED
        BY <2>1, <2>2, <2>3
<1>2. QED
    BY <1>1 DEF Sendable

-----------------------------------------------------------------------------
(* What a handler leaves in the buffers *)

BuffersOK ==
    /\ toServer \in [Conns -> Seq(Units)]
    /\ toClient \in [Conns -> Seq(Answers)]
    /\ ready \subseteq Conns
    /\ reset \in [Conns -> BOOLEAN]
    /\ BeforeLogin

LEMMA TransmitKeeps ==
    ASSUME IInv, NEW out, Sendable(out), Transmit(out),
           \A t \in Conns : Fresh(t)' => Fresh(t)
    PROVE  /\ toClient' \in [Conns -> Seq(Answers)]
           /\ \A t \in Conns : Fresh(t)' => toClient'[t] \in Seq(Refusals)
           /\ reset' \in [Conns -> BOOLEAN]
<1>1. toClient' = Deliver(out, Conns)
    BY DEF Transmit
<1>2. ASSUME NEW t \in Conns
      PROVE  /\ toClient'[t] \in Seq(Answers)
             /\ Fresh(t)' => toClient'[t] \in Seq(Refusals)
    <2>1. toClient[t] \in Seq(Answers) /\ (Fresh(t) => toClient[t] \in Seq(Refusals))
        BY DEF IInv, TypeOK, ServerTypeOK, Answers, BeforeLogin
    <2>2. out[t] \in Seq(Answers) /\ (Fresh(t)' => out[t] \in Seq(Refusals))
        BY DEF Sendable
    <2>3. toClient'[t] \in Seq(Answers)
        BY <1>1, <2>1, <2>2, DeliverType
    <2>4. Fresh(t)' => toClient'[t] \in Seq(Refusals)
        BY <1>1, <2>1, <2>2, DeliverType
    <2>5. QED
        BY <2>3, <2>4
<1>3. toClient' \in [Conns -> Seq(Answers)]
    <2>1. toClient' = [t \in Conns |-> toClient'[t]]
        BY <1>1 DEF Deliver
    <2>2. QED
        BY <1>2, <2>1
<1>4. reset' \in [Conns -> BOOLEAN]
    BY DEF Transmit, IInv, TypeOK, ServerTypeOK
<1>5. QED
    BY <1>2, <1>3, <1>4

LEMMA EdgesType ==
    ASSUME IInv, NEW out
    PROVE  Edges(out) \subseteq Conns
    BY DEF Edges, IInv, TypeOK, ServerTypeOK

\* What a handler that ends normally has to show: it is about connection k, and leaves
\* its entry in con_list as v.
LEMMA AnyHandlerInv ==
    ASSUME IInv, NEW k \in Conns, con[k] # NoCon, NEW v \in Connection \cup {NoCon},
           con' = [con EXCEPT ![k] = v],
           v # NoCon => \/ v.state = "REQUEST" /\ con[k].state = "REQUEST"
                        \/ v.state # "REQUEST" /\ v.name \in Users,
           events' = events \ {k}, strays' \subseteq Users,
           UNCHANGED <<up, base, accepted, stale, opened, fin, aborted, clientVars>>,
           BuffersOK', db' \in [Users -> Row \cup {NoRow}], Agreement'
    PROVE  IInv'
<1>1. TypeOK'
    <2>1. con' \in [Conns -> Connection \cup {NoCon}]
        BY DEF IInv, TypeOK, ServerTypeOK
    <2>2. events' \subseteq Conns \cup {0}
        BY DEF IInv, TypeOK, ServerTypeOK
    <2>3. /\ up' \in BOOLEAN /\ stale' \in [Users -> -1..MaxConns]
          /\ base' \in 0..MaxConns /\ accepted' \in base'..MaxConns
          /\ opened' \in accepted'..MaxConns
        BY DEF IInv, TypeOK, ServerTypeOK
    <2>4. ServerTypeOK'
        BY <2>1, <2>2, <2>3 DEF IInv, TypeOK, ServerTypeOK, BuffersOK, Answers
    <2>5. QED
        BY <2>4 DEF IInv, TypeOK, clientVars
<1>2. Accepted'
    <2>1. 0 \in events' => accepted' < opened'
        BY DEF IInv, Accepted
    <2>2. \A t \in Conns : con'[t] # NoCon => base' < t /\ t <= accepted'
        BY DEF IInv, TypeOK, ServerTypeOK, Accepted
    <2>3. \A t \in Conns : Session(t)' => con'[t].name \in Users
        BY DEF IInv, TypeOK, ServerTypeOK, Accepted, Session
    <2>4. QED
        BY <2>1, <2>2, <2>3 DEF Accepted
<1>3. ClientsLetIn'
    <2>1. \A t \in Conns : Fresh(t)' => Fresh(t)
        BY DEF Fresh, IInv, TypeOK, ServerTypeOK
    <2>2. QED
        BY <2>1 DEF IInv, ClientsLetIn, clientVars
<1>4. QED
    BY <1>1, <1>2, <1>3 DEF IInv, BuffersOK

LEMMA HandlerInv ==
    ASSUME IInv, NEW k \in Conns, con[k] # NoCon, NEW v \in Connection \cup {NoCon},
           con' = [con EXCEPT ![k] = v],
           v # NoCon => \/ v.state = "REQUEST" /\ con[k].state = "REQUEST"
                        \/ v.state # "REQUEST" /\ v.name \in Users,
           events' = events \ {k},
           UNCHANGED <<processVars, opened, fin, aborted, clientVars>>,
           BuffersOK', db' \in [Users -> Row \cup {NoRow}], Agreement'
    PROVE  IInv'
<1>1. strays' \subseteq Users /\ UNCHANGED <<up, base, accepted, stale>>
    BY DEF processVars, historyVars, IInv, TypeOK, ServerTypeOK
<1>2. QED
    BY <1>1, AnyHandlerInv

\* con_list and what it says of who is fresh.
LEMMA FreshKept ==
    ASSUME IInv, NEW k \in Conns, con[k] # NoCon, NEW v \in Connection \cup {NoCon},
           con' = [con EXCEPT ![k] = v],
           v # NoCon /\ v.state = "REQUEST" => con[k].state = "REQUEST",
           UNCHANGED <<base, accepted>>
    PROVE  \A t \in Conns : /\ Fresh(t)' => Fresh(t)
                            /\ t # k => con'[t] = con[t]
                            /\ t = k => con'[t] = v
    BY DEF Fresh, IInv, TypeOK, ServerTypeOK

-----------------------------------------------------------------------------
(* Table and con_list *)

LEMMA Counters ==
    ASSUME IInv
    PROVE  /\ base \in Nat /\ accepted \in Nat /\ opened \in Nat
           /\ base <= accepted /\ accepted <= opened /\ opened <= MaxConns
<1>1. MaxConns \in Nat
    BY Sizes
<1>2. base \in 0..MaxConns /\ accepted \in base..MaxConns /\ opened \in accepted..MaxConns
    BY DEF IInv, TypeOK, ServerTypeOK
<1>3. QED
    BY <1>1, <1>2

LEMMA DescriptorIsNumber ==
    ASSUME IInv, NEW k \in Conns, con[k] # NoCon
    PROVE  Fd(k) \in 1..MaxConns
<1>1. base \in Nat /\ base < k /\ k \in Nat /\ k <= MaxConns /\ MaxConns \in Nat
    BY Sizes, Counters DEF IInv, Accepted
<1>2. QED
    BY <1>1 DEF Fd

LEMMA SessionsDiffer ==
    ASSUME IInv, NEW k \in Conns, NEW t \in Conns, Session(k), Session(t),
           con[k].name = con[t].name, con[k].name \notin strays
    PROVE  k = t
<1>1. Fd(k) = Fd(t)
    <2>1. /\ db[con[k].name] = [status |-> 1, sockfd |-> Fd(k)]
          /\ db[con[t].name] = [status |-> 1, sockfd |-> Fd(t)]
        BY DEF IInv, Agreement, SessionHasRow
    <2>2. [status |-> 1, sockfd |-> Fd(k)].sockfd = [status |-> 1, sockfd |-> Fd(t)].sockfd
        BY <2>1
    <2>3. QED
        BY <2>2
<1>2. base \in Int /\ k \in Int /\ t \in Int
    BY Sizes, Counters
<1>3. QED
    BY <1>1, <1>2 DEF Fd

\* The row of a user who leaves: there is none, or it is offline.
LEMMA DepartedRow ==
    ASSUME IInv, NEW u \in Users, db' = Departed(u)
    PROVE  /\ db' \in [Users -> Row \cup {NoRow}]
           /\ \A w \in Users : w # u => db'[w] = db[w]
           /\ db'[u] = NoRow \/ (db'[u].status = 0 /\ db'[u].sockfd = -1)
<1>1. Offline \in Row /\ Offline.status = 0 /\ Offline.sockfd = -1
    BY Sizes DEF Offline, Row
<1>2. db \in [Users -> Row \cup {NoRow}]
    BY DEF IInv, TypeOK, ServerTypeOK
<1>3. CASE db[u] = NoRow
    BY <1>2, <1>3 DEF Departed
<1>4. CASE db[u] # NoRow
    BY <1>1, <1>2, <1>4 DEF Departed
<1>5. QED
    BY <1>3, <1>4

\* The user of a session goes offline and the session is deleted.
LEMMA DepartureAgrees ==
    ASSUME IInv, NEW k \in Conns, Session(k), con' = [con EXCEPT ![k] = NoCon],
           db' = Departed(con[k].name), UNCHANGED processVars
    PROVE  db' \in [Users -> Row \cup {NoRow}] /\ Agreement'
<1> DEFINE u == con[k].name
<1>1. u \in Users
    BY DEF IInv, Accepted
<1>2. /\ db' \in [Users -> Row \cup {NoRow}]
      /\ \A w \in Users : w # u => db'[w] = db[w]
      /\ db'[u] = NoRow \/ (db'[u].status = 0 /\ db'[u].sockfd = -1)
    BY <1>1, DepartedRow
<1>3. \A t \in Conns : Session(t)' => t # k /\ Session(t) /\ con'[t] = con[t]
    BY DEF IInv, TypeOK, ServerTypeOK, Session
<1>4. base' = base /\ strays' = strays /\ stale' = stale
    BY DEF processVars, historyVars
<1>5. SessionHasRow'
    <2>1. ASSUME NEW t \in Conns, Session(t)', con'[t].name \notin strays'
          PROVE  db'[con'[t].name] = [status |-> 1, sockfd |-> Fd(t)]'
        <3>1. con[t].name # u /\ con[t].name \in Users
            BY <1>3, <1>4, <2>1, SessionsDiffer DEF IInv, Accepted
        <3>2. db'[con[t].name] = [status |-> 1, sockfd |-> Fd(t)]
            BY <1>2, <1>3, <1>4, <2>1, <3>1 DEF IInv, Agreement, SessionHasRow
        <3>3. Fd(t)' = Fd(t)
            BY <1>4 DEF Fd
        <3>4. QED
            BY <1>3, <2>1, <3>2, <3>3
    <2>2. QED
        BY <2>1 DEF SessionHasRow
<1>6. RowHasSession'
    <2>1. ASSUME NEW w \in Users, Online(w)', db'[w].sockfd # stale'[w]
          PROVE  \E t \in Conns : Session(t)' /\ con'[t].name = w /\ Fd(t)' = db'[w].sockfd
        <3>1. w # u /\ Online(w) /\ db'[w] = db[w]
            BY <1>2, <2>1 DEF Online
        <3>2. PICK t \in Conns : Session(t) /\ con[t].name = w /\ Fd(t) = db[w].sockfd
            BY <1>4, <2>1, <3>1 DEF IInv, Agreement, RowHasSession
        <3>3. con'[t] = con[t]
            BY <3>1, <3>2 DEF IInv, TypeOK, ServerTypeOK
        <3>4. QED
            BY <1>4, <3>1, <3>2, <3>3 DEF Session, Fd
    <2>2. QED
        BY <2>1 DEF RowHasSession
<1>7. OnlineIffSocket'
    <2>1. ASSUME NEW w \in Users, db'[w] # NoRow
          PROVE  db'[w].status = 1 <=> db'[w].sockfd # -1
        <3>1. CASE w = u
            BY <1>2, <2>1, <3>1
        <3>2. CASE w # u
            BY <1>2, <2>1, <3>2 DEF IInv, Agreement, OnlineIffSocket
        <3>3. QED
            BY <3>1, <3>2
    <2>2. QED
        BY <2>1 DEF OnlineIffSocket
<1>8. QED
    BY <1>2, <1>5, <1>6, <1>7 DEF Agreement

\* A user who is not online gets a session and its row.
LEMMA LoginAgrees ==
    ASSUME IInv, NEW k \in Conns, con[k] # NoCon, con[k].state = "REQUEST",
           NEW u \in Users, ~Online(u),
           con' = [con EXCEPT ![k] = [name |-> u, state |-> "AUTHENTICATED"]],
           db' = [db EXCEPT ![u] = [status |-> 1, sockfd |-> Fd(k)]],
           UNCHANGED <<base, stale, strays>>
    PROVE  db' \in [Users -> Row \cup {NoRow}] /\ Agreement'
<1> DEFINE row == [status |-> 1, sockfd |-> Fd(k)]
           s == [name |-> u, state |-> "AUTHENTICATED"]
<1>1. Fd(k) \in 1..MaxConns
    BY DescriptorIsNumber
<1>2. row \in Row /\ row # NoRow /\ row.status = 1 /\ row.sockfd # -1
    <2>1. row \in Row
        BY <1>1, Sizes DEF Row
    <2>2. QED
        BY <1>1, <2>1, Sizes, ChatAssumption DEF ChatAssumption
<1>3. s \in Connection /\ s # NoCon /\ s.name = u /\ s.state # "REQUEST"
    <2>1. s \in Connection
        BY DEF Connection
    <2>2. QED
        BY <2>1, ChatAssumption DEF ChatAssumption
<1>4. /\ con'[k] = s /\ db'[u] = row
      /\ \A t \in Conns : t # k => con'[t] = con[t]
      /\ \A w \in Users : w # u => db'[w] = db[w]
    BY DEF IInv, TypeOK, ServerTypeOK
<1>5. db' \in [Users -> Row \cup {NoRow}]
    BY <1>2 DEF IInv, TypeOK, ServerTypeOK
<1>6. \A t \in Conns : Fd(t)' = Fd(t)
    BY DEF Fd
<1> HIDE DEF row, s
<1>7. SessionHasRow'
    <2>1. ASSUME NEW t \in Conns, Session(t)', con'[t].name \notin strays'
          PROVE  db'[con'[t].name] = [status |-> 1, sockfd |-> Fd(t)]'
        <3>1. CASE t = k
            BY <1>3, <1>4, <1>6, <3>1 DEF row
        <3>2. CASE t # k
            <4>1. Session(t) /\ con'[t] = con[t]
                BY <1>4, <2>1, <3>2 DEF Session
            <4>2. db[con[t].name] = [status |-> 1, sockfd |-> Fd(t)] /\ con[t].name \in Users
                BY <2>1, <4>1 DEF IInv, Agreement, SessionHasRow, Accepted
            <4>3. db[con[t].name] # NoRow /\ db[con[t].name].status = 1
                <5>1. [status |-> 1, sockfd |-> Fd(t)] \in Row
                    BY <4>1, DescriptorIsNumber, Sizes DEF Session, Row
                <5>2. QED
                    BY <4>2, <5>1, ChatAssumption DEF ChatAssumption
            <4>4. con[t].name # u
                BY <4>3 DEF Online
            <4>5. QED
                BY <1>4, <1>6, <4>1, <4>2, <4>4
        <3>3. QED
            BY <3>1, <3>2
    <2>2. QED
        BY <2>1 DEF SessionHasRow
<1>8. RowHasSession'
    <2>1. ASSUME NEW w \in Users, Online(w)', db'[w].sockfd # stale'[w]
          PROVE  \E t \in Conns : Session(t)' /\ con'[t].name = w /\ Fd(t)' = db'[w].sockfd
        <3>1. CASE w = u
            <4>1. db'[w].sockfd = Fd(k)' /\ Session(k)' /\ con'[k].name = w
                BY <1>3, <1>4, <1>6, <3>1 DEF Session, row
            <4>2. QED
                BY <4>1
        <3>2. CASE w # u
            <4>1. Online(w) /\ db'[w] = db[w]
                BY <1>4, <2>1, <3>2 DEF Online
            <4>2. PICK t \in Conns : Session(t) /\ con[t].name = w /\ Fd(t) = db[w].sockfd
                BY <2>1, <4>1 DEF IInv, Agreement, RowHasSession
            <4>3. t # k
                BY <4>2 DEF Session
            <4>4. QED
                BY <1>4, <1>6, <4>1, <4>2, <4>3 DEF Session
        <3>3. QED
            BY <3>1, <3>2
    <2>2. QED
        BY <2>1 DEF RowHasSession
<1>9. OnlineIffSocket'
    BY <1>2, <1>4 DEF IInv, Agreement, OnlineIffSocket
<1>10. QED
    BY <1>5, <1>7, <1>8, <1>9 DEF Agreement

\* Somebody is let in for an option the server does not know: no row changes, and the
\* name is one of the strays from here on.
LEMMA StrayAgrees ==
    ASSUME IInv, NEW k \in Conns, con[k] # NoCon, con[k].state = "REQUEST",
           NEW u \in Users, con' = [con EXCEPT ![k] = [name |-> u, state |-> "AUTHENTICATED"]],
           strays' = strays \cup {u}, UNCHANGED <<db, base, stale>>
    PROVE  db' \in [Users -> Row \cup {NoRow}] /\ Agreement'
<1>1. con'[k].name = u /\ \A t \in Conns : t # k => con'[t] = con[t]
    BY DEF IInv, TypeOK, ServerTypeOK
<1>2. \A t \in Conns : Fd(t)' = Fd(t)
    BY DEF Fd
<1>3. SessionHasRow'
    <2>1. ASSUME NEW t \in Conns, Session(t)', con'[t].name \notin strays'
          PROVE  db'[con'[t].name] = [status |-> 1, sockfd |-> Fd(t)]'
        <3>1. t # k
            BY <1>1, <2>1
        <3>2. Session(t) /\ con'[t] = con[t] /\ con[t].name \notin strays
            BY <1>1, <2>1, <3>1 DEF Session
        <3>3. QED
            BY <1>2, <3>2 DEF IInv, Agreement, SessionHasRow
    <2>2. QED
        BY <2>1 DEF SessionHasRow
<1>4. RowHasSession'
    <2>1. ASSUME NEW w \in Users, Online(w)', db'[w].sockfd # stale'[w]
          PROVE  \E t \in Conns : Session(t)' /\ con'[t].name = w /\ Fd(t)' = db'[w].sockfd
        <3>1. PICK t \in Conns : Session(t) /\ con[t].name = w /\ Fd(t) = db[w].sockfd
            BY <2>1 DEF IInv, Agreement, RowHasSession, Online
        <3>2. t # k
            BY <3>1 DEF Session
        <3>3. QED
            BY <1>1, <1>2, <3>1, <3>2 DEF Session
    <2>2. QED
        BY <2>1 DEF RowHasSession
<1>5. db' \in [Users -> Row \cup {NoRow}] /\ OnlineIffSocket'
    BY DEF IInv, TypeOK, ServerTypeOK, Agreement, OnlineIffSocket
<1>6. QED
    BY <1>3, <1>4, <1>5 DEF Agreement

\* Neither the rows nor the names of the sessions change.
LEMMA NothingNewAgrees ==
    ASSUME IInv, UNCHANGED <<db, base, stale, strays>>,
           \A t \in Conns : /\ Session(t)' <=> Session(t)
                            /\ Session(t) => con'[t].name = con[t].name
    PROVE  db' \in [Users -> Row \cup {NoRow}] /\ Agreement'
<1>1. db' \in [Users -> Row \cup {NoRow}]
    BY DEF IInv, TypeOK, ServerTypeOK
<1>2. SessionHasRow'
    BY DEF IInv, Agreement, SessionHasRow, Fd
<1>3. RowHasSession'
    BY DEF IInv, Agreement, RowHasSession, Online, Fd
<1>4. OnlineIffSocket'
    BY DEF IInv, Agreement, OnlineIffSocket
<1>5. QED
    BY <1>1, <1>2, <1>3, <1>4 DEF Agreement

-----------------------------------------------------------------------------
(* The handlers that end normally *)

\* The buffers after a handler that sends out and leaves the stream of k as rest.
LEMMA HandledBuffers ==
    ASSUME IInv, NEW k \in Conns, NEW rest \in Seq(Units),
           Fresh(k)' => rest \in Seq(Requests),
           toServer' = [toServer EXCEPT ![k] = rest], ready' \subseteq Conns,
           NEW out, Sendable(out), Transmit(out), \A t \in Conns : Fresh(t)' => Fresh(t)
    PROVE  BuffersOK'
<1>1. toServer' \in [Conns -> Seq(Units)]
    BY DEF IInv, TypeOK, ServerTypeOK
<1>2. \A t \in Conns : Fresh(t)' => toServer'[t] \in Seq(Requests)
    BY DEF IInv, TypeOK, ServerTypeOK, BeforeLogin
<1>3. QED
    BY <1>1, <1>2, TransmitKeeps DEF BuffersOK, BeforeLogin

LEMMA RequestGoneInv ==
    ASSUME IInv, NEW k \in Conns, RequestGone(k), UNCHANGED clientVars
    PROVE  IInv'
<1>1. /\ con[k] # NoCon /\ con[k].state = "REQUEST" /\ con' = [con EXCEPT ![k] = NoCon]
      /\ events' = events \ {k} /\ ready' = ready \ {k}
      /\ UNCHANGED <<db, processVars, opened, toServer, toClient, fin, reset, aborted>>
    BY DEF RequestGone, DelFromEpoll
<1>2. \A t \in Conns : /\ Fresh(t)' => Fresh(t)
                       /\ t # k => con'[t] = con[t]
                       /\ t = k => con'[t] = NoCon
    BY <1>1, FreshKept DEF processVars
<1>3. BuffersOK'
    BY <1>1, <1>2 DEF BuffersOK, IInv, TypeOK, ServerTypeOK, BeforeLogin, Answers
<1>4. db' \in [Users -> Row \cup {NoRow}] /\ Agreement'
    <2>1. \A t \in Conns : /\ Session(t)' <=> Session(t)
                           /\ Session(t) => con'[t].name = con[t].name
        BY <1>1, <1>2 DEF Session
    <2>2. QED
        BY <1>1, <2>1, NothingNewAgrees DEF processVars, historyVars
<1>5. QED
    BY <1>1, <1>3, <1>4, HandlerInv

\* What a connection without a session has sent is a request, and what follows are
\* requests too.
LEMMA HeadIsRequest ==
    ASSUME IInv, NEW k \in Conns, con[k] # NoCon, con[k].state = "REQUEST",
           toServer[k] # << >>
    PROVE  Head(toServer[k]) \in Requests /\ Tail(toServer[k]) \in Seq(Requests)
<1>1. toServer[k] \in Seq(Requests)
    BY DEF IInv, BeforeLogin, Fresh
<1>2. QED
    BY <1>1, HeadTailProperties

LEMMA RequestsAreUnits == Seq(Requests) \subseteq Seq(Units)
<1>1. Requests \subseteq Units
    BY DEF Requests, Units
<1>2. QED
    BY <1>1

\* What an answer may be: to a login or registration a success only for a user who is
\* not online, whose row it changes (socket_server.cpp:112-144).
LEMMA SuccessIsNew ==
    ASSUME NEW req, req.option \in {1, 2}, "SUCCESS" \in CheckUserInfo(req)
    PROVE  ~Online(req.name)
    BY DEF CheckUserInfo, Online

\* The request is answered.
LEMMA HandleRequestInv ==
    ASSUME IInv, NEW k \in Conns, con[k] # NoCon,
           con[k].state = "REQUEST", toServer[k] # << >>, NEW req, req = Head(toServer[k]),
           NEW res \in CheckUserInfo(req), db' = Recorded(req, res, k), Answered(k, req, res),
           strays' = IF res = "SUCCESS" /\ req.option \notin {1, 2}
                     THEN strays \cup {req.name} ELSE strays,
           Transmit(Respond(k, res)), ready' = Edges(Respond(k, res)),
           events' = events \ {k}, toServer' = [toServer EXCEPT ![k] = Tail(@)],
           UNCHANGED <<up, base, accepted, stale, opened, fin, aborted, clientVars>>
    PROVE  IInv'
<1> DEFINE v == [name |-> req.name,
                 state |-> IF res = "SUCCESS" THEN "AUTHENTICATED" ELSE "REQUEST"]
<1>1. req \in Requests /\ Tail(toServer[k]) \in Seq(Requests)
    BY HeadIsRequest
<1>2. req.name \in Users
    BY <1>1 DEF Requests
<1>3. strays' \subseteq Users
    BY <1>2 DEF IInv, TypeOK, ServerTypeOK
<1>4. con' = [con EXCEPT ![k] = v]
    BY DEF Answered
<1>5. /\ v \in Connection /\ v # NoCon /\ v.name = req.name
      /\ res = "SUCCESS" => v.state = "AUTHENTICATED"
      /\ res # "SUCCESS" => v.state = "REQUEST"
    <2>1. v \in Connection
        BY <1>2 DEF Connection
    <2>2. QED
        BY <2>1, ChatAssumption DEF ChatAssumption
<1>6. v.state = "REQUEST" <=> res # "SUCCESS"
    BY <1>5
<1>7. \A t \in Conns : /\ Fresh(t)' => Fresh(t)
                       /\ t # k => con'[t] = con[t]
                       /\ t = k => con'[t] = v
    BY <1>4, <1>5, FreshKept
<1>8. Fresh(k)' => res # "SUCCESS"
    <2>1. ~(k > accepted')
        <3>1. k <= accepted /\ k \in Nat /\ accepted \in Nat
            BY Sizes, Counters DEF IInv, Accepted
        <3>2. QED
            BY <3>1
    <2>2. QED
        BY <1>5, <1>7, <2>1 DEF Fresh
<1>9. BuffersOK'
    <2>1. Tail(toServer[k]) \in Seq(Units)
        BY <1>1, RequestsAreUnits
    <2>2. Sendable(Respond(k, res))
        BY <1>8, RespondSendable
    <2>3. QED
        BY <1>1, <1>7, <2>1, <2>2, EdgesType, HandledBuffers
<1>10. db' \in [Users -> Row \cup {NoRow}] /\ Agreement'
    <2>1. CASE res = "SUCCESS"
        <3>1. con' = [con EXCEPT ![k] = [name |-> req.name, state |-> "AUTHENTICATED"]]
            BY <1>4, <2>1
        <3>2. CASE req.option \in {1, 2}
            <4>1. /\ db' = [db EXCEPT ![req.name] = [status |-> 1, sockfd |-> Fd(k)]]
                  /\ strays' = strays
                BY <2>1, <3>2 DEF Recorded
            <4>2. ~Online(req.name)
                BY <2>1, <3>2, SuccessIsNew
            <4>3. QED
                BY <1>2, <3>1, <4>1, <4>2, LoginAgrees
        <3>3. CASE req.option \notin {1, 2}
            <4>1. db' = db /\ strays' = strays \cup {req.name}
                BY <2>1, <3>3 DEF Recorded
            <4>2. QED
                BY <1>2, <3>1, <4>1, StrayAgrees
        <3>4. QED
            BY <3>2, <3>3
    <2>2. CASE res # "SUCCESS"
        <3>1. db' = db /\ strays' = strays
            BY <2>2 DEF Recorded
        <3>2. \A t \in Conns : /\ Session(t)' <=> Session(t)
                               /\ Session(t) => con'[t].name = con[t].name
            BY <1>5, <1>7, <2>2 DEF Session
        <3>3. QED
            BY <3>1, <3>2, NothingNewAgrees
    <2>3. QED
        BY <2>1, <2>2
<1> HIDE DEF v
<1>11. QED
    BY <1>2, <1>3, <1>4, <1>5, <1>6, <1>9, <1>10, AnyHandlerInv

\* The option may take lines or the beginning of one with it: what is left are units.
LEMMA AfterOptionType ==
    ASSUME NEW s \in Seq(Units), s # << >>, NEW rest \in AfterOption(s)
    PROVE  rest \in Seq(Units)
<1> DEFINE cut == << [kind |-> "cut"] >>
           Behind(n) == SubSeq(s, n + 2, Len(s))
<1>1. ASSUME NEW n \in 0..3
      PROVE  Behind(n) \in Seq(Units)
    <2>1. Len(s) \in Nat /\ n + 2 \in Nat \ {0} /\ \A i \in n + 2 .. Len(s) : s[i] \in Units
        BY <1>1, LenProperties, ElementOfSeq
    <2>2. QED
        BY <2>1, SubSeqProperties
<1>2. cut \in Seq(Units) /\ << >> \in Seq(Units)
    BY DEF Units
<1>3. \/ rest = << >>
      \/ \E n \in 0..3 : rest = Behind(n) \/ rest = cut \o Behind(n)
    <2> DEFINE lines == {n \in 1..3 : n < Len(s)}
    <2>1. CASE Head(s).kind = "request"
        <3>1. rest = cut \o Behind(0)
            BY <2>1 DEF AfterOption
        <3>2. 0 \in 0..3
            OBVIOUS
        <3> HIDE DEF cut, Behind
        <3>3. QED
            BY <3>1, <3>2
    <2>2. CASE Head(s).kind # "request"
        <3>1. rest = << >> \/ rest \in {Behind(n) : n \in lines} \cup {cut \o Behind(n) : n \in lines}
            BY <2>2 DEF AfterOption
        <3>2. \A n \in lines : n \in 0..3
            OBVIOUS
        <3> HIDE DEF cut, Behind, lines
        <3>3. QED
            BY <3>1, <3>2
    <2>3. QED
        BY <2>1, <2>2
<1> HIDE DEF cut, Behind
<1>4. \A n \in 0..3 : cut \o Behind(n) \in Seq(Units)
    BY <1>1, <1>2, ConcatProperties
<1>5. QED
    BY <1>1, <1>2, <1>3, <1>4

\* What the three departures have in common.
LEMMA DepartureInv ==
    ASSUME IInv, NEW k \in Conns, Session(k), con' = [con EXCEPT ![k] = NoCon],
           db' = Departed(con[k].name), Transmit(Notify(k)),
           ready' \subseteq Conns, events' = events \ {k}, NEW rest \in Seq(Units),
           toServer' = [toServer EXCEPT ![k] = rest],
           UNCHANGED <<processVars, opened, fin, aborted, clientVars>>
    PROVE  IInv'
<1>1. \A t \in Conns : /\ Fresh(t)' => Fresh(t)
                       /\ t = k => con'[t] = NoCon
    BY FreshKept DEF Session, processVars
<1>2. ~Fresh(k)'
    <2>1. k <= accepted /\ k \in Nat /\ accepted \in Nat
        BY Sizes, Counters DEF IInv, Accepted, Session
    <2>2. ~(k > accepted')
        BY <2>1 DEF processVars
    <2>3. QED
        BY <1>1, <2>2 DEF Fresh
<1>3. BuffersOK'
    BY <1>1, <1>2, NotifySendable, HandledBuffers
<1>4. db' \in [Users -> Row \cup {NoRow}] /\ Agreement'
    BY DepartureAgrees
<1>5. QED
    BY <1>3, <1>4, HandlerInv DEF Session

LEMMA AuthenticatedLeavesInv ==
    ASSUME IInv, NEW k \in Conns, AuthenticatedLeaves(k), UNCHANGED clientVars
    PROVE  IInv'
<1>1. Session(k) /\ toServer[k] \in Seq(Units) /\ toServer \in [Conns -> Seq(Units)]
    BY DEF AuthenticatedLeaves, Session, IInv, TypeOK, ServerTypeOK
<1>2. PICK rest \in Seq(Units) : toServer' = [toServer EXCEPT ![k] = rest]
    <2>1. CASE toServer[k] = << >> /\ toServer' = toServer
        BY <1>1, <2>1
    <2>2. CASE toServer[k] # << >> /\ \E rest \in AfterOption(toServer[k]) :
                                         toServer' = [toServer EXCEPT ![k] = rest]
        BY <1>1, <2>2, AfterOptionType
    <2>3. QED
        BY <2>1, <2>2 DEF AuthenticatedLeaves
<1>3. ready' \subseteq Conns
    BY EdgesType DEF AuthenticatedLeaves, DelFromEpoll
<1>4. QED
    BY <1>1, <1>2, <1>3, DepartureInv DEF AuthenticatedLeaves, DelFromEpoll

\* A session goes on, with the same name.
LEMMA SessionGoesOn ==
    ASSUME IInv, NEW k \in Conns, Session(k), NEW st \in {"AUTHENTICATED", "ONLINE"},
           con' = [con EXCEPT ![k].state = st], UNCHANGED db,
           NEW out, Sendable(out), Transmit(out), ready' = Edges(out), events' = events \ {k},
           NEW rest \in Seq(Units), toServer' = [toServer EXCEPT ![k] = rest],
           UNCHANGED <<processVars, opened, fin, aborted, clientVars>>
    PROVE  IInv'
<1> DEFINE v == [con[k] EXCEPT !.state = st]
<1>1. con[k] \in Connection /\ con[k].name \in Users
    BY DEF IInv, TypeOK, ServerTypeOK, Session, Accepted
<1>2. con' = [con EXCEPT ![k] = v]
    BY DEF IInv, TypeOK, ServerTypeOK
<1>3. v \in Connection /\ v.name = con[k].name /\ v.state = st
    BY <1>1 DEF Connection
<1>4. v # NoCon /\ v.state # "REQUEST"
    BY <1>3, ChatAssumption DEF ChatAssumption
<1> HIDE DEF v
<1>5. \A t \in Conns : /\ Fresh(t)' => Fresh(t)
                       /\ t # k => con'[t] = con[t]
                       /\ t = k => con'[t] = v
    BY <1>2, <1>3, <1>4, FreshKept DEF Session, processVars
<1>6. ~Fresh(k)'
    <2>1. k <= accepted /\ k \in Nat /\ accepted \in Nat
        BY Sizes, Counters DEF IInv, Accepted, Session
    <2>2. ~(k > accepted')
        BY <2>1 DEF processVars
    <2>3. QED
        BY <1>4, <1>5, <2>2 DEF Fresh
<1>7. BuffersOK'
    BY <1>5, <1>6, EdgesType, HandledBuffers
<1>8. db' \in [Users -> Row \cup {NoRow}] /\ Agreement'
    <2>1. \A t \in Conns : /\ Session(t)' <=> Session(t)
                           /\ Session(t) => con'[t].name = con[t].name
        BY <1>3, <1>4, <1>5 DEF Session
    <2>2. QED
        BY <2>1, NothingNewAgrees DEF processVars, historyVars
<1>9. QED
    BY <1>1, <1>2, <1>3, <1>4, <1>7, <1>8, HandlerInv DEF Session

LEMMA HandleOptionInv ==
    ASSUME IInv, NEW k \in Conns, HandleOption(k), UNCHANGED clientVars
    PROVE  IInv'
<1>1. Session(k) /\ toServer[k] \in Seq(Units)
    BY DEF HandleOption, Session, IInv, TypeOK, ServerTypeOK
<1>2. PICK rest \in Seq(Units) : toServer' = [toServer EXCEPT ![k] = rest]
    BY <1>1, AfterOptionType DEF HandleOption
<1>3. ~Fresh(k)'
    <2>1. k <= accepted /\ k \in Nat /\ accepted \in Nat
        BY <1>1, Sizes, Counters DEF IInv, Accepted, Session
    <2>2. ~(k > accepted')
        BY <2>1 DEF HandleOption, processVars
    <2>3. con'[k].state = "ONLINE"
        <3>1. con[k] \in Connection
            BY <1>1 DEF IInv, TypeOK, ServerTypeOK, Session
        <3>2. con' = [con EXCEPT ![k].state = "ONLINE"]
            BY DEF HandleOption
        <3>3. con'[k] = [con[k] EXCEPT !.state = "ONLINE"]
            BY <3>2 DEF IInv, TypeOK, ServerTypeOK
        <3>4. QED
            BY <3>1, <3>3 DEF Connection
    <2>4. QED
        BY <2>2, <2>3 DEF Fresh
<1>4. Sendable(Then(Respond(k, "SUCCESS"), Notify(k)))
    BY <1>3, RespondSendable, NotifySendable, ThenSendable
<1>5. QED
    BY <1>1, <1>2, <1>4, SessionGoesOn DEF HandleOption

\* The branches of OnlineLeaves and HandleChat that are not cut short.
LEMMA OnlineLeavesInv ==
    ASSUME IInv, NEW k \in Conns, con[k] # NoCon, con[k].state = "ONLINE",
           db' = Departed(con[k].name), Transmit(Notify(k)),
           DelFromEpoll(k, Edges(Notify(k))),
           events' = events \ {k},
           UNCHANGED <<processVars, opened, toServer, fin, aborted, clientVars>>
    PROVE  IInv'
<1>1. toServer' = [toServer EXCEPT ![k] = toServer[k]] /\ toServer[k] \in Seq(Units)
    BY DEF IInv, TypeOK, ServerTypeOK
<1>2. Session(k)
    BY DEF Session
<1>3. con' = [con EXCEPT ![k] = NoCon] /\ ready' \subseteq Conns
    BY EdgesType DEF DelFromEpoll
<1>4. QED
    BY <1>1, <1>2, <1>3, DepartureInv

LEMMA HandleChatInv ==
    ASSUME IInv, NEW k \in Conns, con[k] # NoCon, con[k].state = "ONLINE",
           Transmit(Notify(k)), ready' = Edges(Notify(k)), toServer' = [toServer EXCEPT ![k] = << >>],
           events' = events \ {k},
           UNCHANGED <<db, processVars, con, opened, fin, aborted, clientVars>>
    PROVE  IInv'
<1>1. con' = [con EXCEPT ![k].state = "ONLINE"]
    <2>1. con[k] \in Connection
        BY DEF IInv, TypeOK, ServerTypeOK
    <2>2. con[k] = [con[k] EXCEPT !.state = "ONLINE"]
        BY <2>1 DEF Connection
    <2>3. QED
        BY <2>2 DEF IInv, TypeOK, ServerTypeOK
<1>2. << >> \in Seq(Units) /\ Session(k)
    BY DEF Session
<1>3. QED
    BY <1>1, <1>2, NotifySendable, SessionGoesOn

-----------------------------------------------------------------------------
(* The end of the process, and a new one *)

\* The process is gone, and whatever it had sent is there: con_list is empty, and the
\* table is as it was left if it was killed.
LEMMA EndInv ==
    ASSUME IInv, End, UNCHANGED clientVars, stale' \in [Users -> -1..MaxConns],
           toClient' \in [Conns -> Seq(Answers)],
           \A t \in Conns : t > accepted => toClient'[t] \in Seq(Refusals),
           db' \in [Users -> Row \cup {NoRow}], OnlineIffSocket',
           \A u \in Users : Online(u)' => db'[u].sockfd = stale'[u]
    PROVE  IInv'
<1>1. /\ up' = FALSE /\ base' = opened /\ accepted' = opened /\ opened' = opened
      /\ con' = [k \in Conns |-> NoCon] /\ ready' = {} /\ events' = {} /\ fin' = fin
      /\ toServer' = [k \in Conns |-> << >>]
      /\ reset' = [k \in Conns |-> reset[k] /\ k <= base] /\ strays' = {}
    BY DEF End
<1>2. aborted' \in [Conns -> BOOLEAN]
    BY DEF End, IInv, TypeOK, ServerTypeOK
<1>3. << >> \in Seq(Units) /\ << >> \in Seq(Requests)
    OBVIOUS
<1>4. base' \in 0..MaxConns /\ accepted' \in base'..MaxConns /\ opened' \in accepted'..MaxConns
    BY <1>1, Counters, Sizes
<1>5. TypeOK'
    <2>1. reset' \in [Conns -> BOOLEAN] /\ toServer' \in [Conns -> Seq(Units)]
          /\ con' \in [Conns -> Connection \cup {NoCon}]
        BY <1>1, <1>3 DEF IInv, TypeOK, ServerTypeOK
    <2>2. ServerTypeOK'
        BY <1>1, <1>2, <1>4, <2>1 DEF IInv, TypeOK, ServerTypeOK, Answers
    <2>3. QED
        BY <2>2 DEF IInv, TypeOK, clientVars
<1>6. \A k \in Conns : con'[k] = NoCon
    BY <1>1
<1>7. \A k : Fresh(k)' /\ k \in Conns => k > accepted
    <2>1. \A k \in Conns : k > opened => k > accepted
        BY Counters, Sizes
    <2>2. QED
        BY <1>1, <1>6, <2>1 DEF Fresh
<1>8. Accepted'
    BY <1>1, <1>6 DEF Accepted, Session
<1>9. BeforeLogin'
    BY <1>1, <1>3, <1>7 DEF BeforeLogin
<1>10. ClientsLetIn'
    <2>1. \A k \in Conns : k > accepted => Fresh(k)
        BY DEF Fresh
    <2>2. QED
        BY <1>7, <2>1 DEF IInv, ClientsLetIn, clientVars
<1>11. Agreement'
    BY <1>6 DEF Agreement, SessionHasRow, RowHasSession, Session
<1>12. QED
    BY <1>5, <1>8, <1>9, <1>10, <1>11 DEF IInv

\* Status and descriptor agree in every row of the table t.
ColumnsOf(t) == \A u \in Users : t[u] # NoRow => (t[u].status = 1 <=> t[u].sockfd # -1)

\* What a killed server leaves: the descriptors in its rows.
LEMMA NamedRows ==
    ASSUME NEW t \in [Users -> Row \cup {NoRow}]
    PROVE  /\ Named(t) \in [Users -> -1..MaxConns]
           /\ \A u \in Users : t[u] # NoRow => t[u].sockfd = Named(t)[u]
<1>1. -1 \in -1..MaxConns
    BY Sizes
<1>2. \A u \in Users : t[u] # NoRow => t[u].sockfd \in -1..MaxConns
    BY DEF Row
<1>3. QED
    BY <1>1, <1>2 DEF Named

\* The process is cut short while it sends: what was sent reached connections it had
\* accepted.
LEMMA BrokenInv ==
    ASSUME IInv, NEW out, NEW table, Broken(out, table), UNCHANGED clientVars,
           \A t \in Conns : out[t] \in Seq(Answers) /\ (t > accepted => out[t] = << >>),
           table \in [Users -> Row \cup {NoRow}], ColumnsOf(table)
    PROVE  IInv'
<1>1. PICK done \in SUBSET {t \in Conns : out[t] # << >>} : toClient' = Deliver(out, done)
    BY DEF Broken
<1>2. ASSUME NEW t \in Conns
      PROVE  /\ toClient'[t] \in Seq(Answers)
             /\ t > accepted => toClient'[t] \in Seq(Refusals)
    <2>1. toClient[t] \in Seq(Answers) /\ (t > accepted => toClient[t] \in Seq(Refusals))
        BY DEF IInv, TypeOK, ServerTypeOK, Answers, BeforeLogin, Fresh
    <2>2. Deliver(out, done)[t] \in Seq(Answers)
        BY <2>1, DeliverType
    <2>3. t > accepted => Deliver(out, done)[t] = toClient[t]
        BY DEF Deliver
    <2>4. QED
        BY <1>1, <2>1, <2>2, <2>3
<1>3. toClient' \in [Conns -> Seq(Answers)]
    <2>1. toClient' = [t \in Conns |-> toClient'[t]]
        BY <1>1 DEF Deliver
    <2>2. QED
        BY <1>2, <2>1
<1>4. db' = table /\ stale' = Named(table) /\ End
    BY DEF Broken
<1>5. /\ stale' \in [Users -> -1..MaxConns]
      /\ \A u \in Users : Online(u)' => db'[u].sockfd = stale'[u]
    BY <1>4, NamedRows DEF Online
<1>6. OnlineIffSocket'
    BY <1>4 DEF OnlineIffSocket, ColumnsOf
<1>7. QED
    BY <1>2, <1>3, <1>4, <1>5, <1>6, EndInv

LEMMA NotifyReaches ==
    ASSUME IInv, NEW k, NEW t \in Conns
    PROVE  Notify(k)[t] \in Seq(Answers) /\ (t > accepted => Notify(k)[t] = << >>)
<1>1. Notify(k)[t] \in Seq(Answers)
    BY NotifyType, RefusalsAreAnswers
<1>2. t > accepted => t \notin base + 1..accepted
    BY Counters, Sizes
<1>3. QED
    BY <1>1, <1>2 DEF Notify

LEMMA RespondReaches ==
    ASSUME IInv, NEW k \in Conns, con[k] # NoCon, NEW res, NEW t \in Conns
    PROVE  Respond(k, res)[t] \in Seq(Answers) /\ (t > accepted => Respond(k, res)[t] = << >>)
<1>1. /\ << IF res = "SUCCESS" THEN "SUCCESS" ELSE "REFUSED" >> \in Seq(Answers)
      /\ << >> \in Seq(Answers)
    BY TextIsNoSuccess
<1>2. ~(k > accepted)
    BY Counters, Sizes DEF IInv, Accepted
<1>3. QED
    BY <1>1, <1>2 DEF Respond

LEMMA ThenReaches ==
    ASSUME NEW out1, NEW out2, NEW t \in Conns,
           out1[t] \in Seq(Answers) /\ (t > accepted => out1[t] = << >>),
           out2[t] \in Seq(Answers) /\ (t > accepted => out2[t] = << >>)
    PROVE  /\ Then(out1, out2)[t] \in Seq(Answers)
           /\ t > accepted => Then(out1, out2)[t] = << >>
<1>1. Then(out1, out2)[t] = out1[t] \o out2[t]
    BY DEF Then
<1>2. out1[t] \o out2[t] \in Seq(Answers)
    BY ConcatProperties
<1>3. << >> \o << >> = << >>
    OBVIOUS
<1>4. QED
    BY <1>1, <1>2, <1>3

LEMMA TableKept ==
    ASSUME IInv
    PROVE  db \in [Users -> Row \cup {NoRow}] /\ ColumnsOf(db)
    BY DEF IInv, TypeOK, ServerTypeOK, Agreement, OnlineIffSocket, ColumnsOf

LEMMA DepartedKeepsTable ==
    ASSUME IInv, NEW u \in Users
    PROVE  Departed(u) \in [Users -> Row \cup {NoRow}] /\ ColumnsOf(Departed(u))
<1>1. Offline \in Row /\ Offline.status = 0 /\ Offline.sockfd = -1
    BY Sizes DEF Offline, Row
<1>2. CASE db[u] = NoRow
    BY <1>2, TableKept DEF Departed
<1>3. CASE db[u] # NoRow
    <2>1. Departed(u) = [db EXCEPT ![u] = Offline]
        BY <1>3 DEF Departed
    <2>2. QED
        BY <1>1, <2>1, TableKept DEF ColumnsOf
<1>4. QED
    BY <1>2, <1>3

LEMMA RecordedKeepsTable ==
    ASSUME IInv, NEW k \in Conns, con[k] # NoCon, NEW req, req.name \in Users, NEW res
    PROVE  Recorded(req, res, k) \in [Users -> Row \cup {NoRow}] /\ ColumnsOf(Recorded(req, res, k))
<1> DEFINE row == [status |-> 1, sockfd |-> Fd(k)]
<1>1. Fd(k) \in 1..MaxConns
    BY DescriptorIsNumber
<1>2. row \in Row /\ row.status = 1 /\ row.sockfd # -1
    BY <1>1, Sizes DEF Row
<1>3. Recorded(req, res, k) \in {[db EXCEPT ![req.name] = row], db}
    BY DEF Recorded
<1> HIDE DEF row
<1>4. QED
    BY <1>2, <1>3, TableKept DEF ColumnsOf

LEMMA ProcessInv ==
    ASSUME IInv, ProcessStep, UNCHANGED clientVars
    PROVE  IInv'
<1>1. CASE Kill
    <2>1. stale' = Named(db) /\ End /\ UNCHANGED <<db, toClient>>
        BY <1>1 DEF Kill
    <2>2. /\ toClient' \in [Conns -> Seq(Answers)]
          /\ \A t \in Conns : t > accepted => toClient'[t] \in Seq(Refusals)
        BY <2>1 DEF IInv, TypeOK, ServerTypeOK, Answers, BeforeLogin, Fresh
    <2>3. /\ stale' \in [Users -> -1..MaxConns] /\ db' \in [Users -> Row \cup {NoRow}]
          /\ \A u \in Users : Online(u)' => db'[u].sockfd = stale'[u]
        BY <2>1, TableKept, NamedRows DEF Online
    <2>4. OnlineIffSocket'
        BY <2>1, TableKept DEF ColumnsOf, OnlineIffSocket
    <2>5. QED
        BY <2>1, <2>2, <2>3, <2>4, EndInv
<1>2. CASE Shutdown
    <2>1. /\ stale' = [u \in Users |-> -1] /\ End /\ UNCHANGED toClient
          /\ db' = [u \in Users |->
                      IF db[u] # NoRow /\ db[u].sockfd # -1 THEN Offline ELSE db[u]]
        BY <1>2 DEF Shutdown
    <2>2. /\ toClient' \in [Conns -> Seq(Answers)]
          /\ \A t \in Conns : t > accepted => toClient'[t] \in Seq(Refusals)
        BY <2>1 DEF IInv, TypeOK, ServerTypeOK, Answers, BeforeLogin, Fresh
    <2>3. Offline \in Row /\ Offline.status = 0 /\ Offline.sockfd = -1
        BY Sizes DEF Offline, Row
    <2>4. db' \in [Users -> Row \cup {NoRow}]
        BY <2>1, <2>3 DEF IInv, TypeOK, ServerTypeOK
    <2>5. \A u \in Users : db'[u] # NoRow => db'[u].status # 1 /\ db'[u].sockfd = -1
        BY <2>1, <2>3 DEF IInv, Agreement, OnlineIffSocket
    <2>6. /\ OnlineIffSocket' /\ \A u \in Users : ~Online(u)'
          /\ stale' \in [Users -> -1..MaxConns]
        BY <2>1, <2>5, Sizes DEF OnlineIffSocket, Online
    <2>7. QED
        BY <2>1, <2>2, <2>4, <2>6, EndInv
<1>3. CASE Restart
    <2>1. UNCHANGED <<db, base, accepted, historyVars, con, events, socketVars, clientVars>>
          /\ up' = TRUE
        BY <1>3 DEF Restart
    <2>2. TypeOK'
        BY <2>1 DEF IInv, TypeOK, ServerTypeOK, socketVars, historyVars, clientVars
    <2>3. Accepted' /\ BeforeLogin' /\ ClientsLetIn'
        BY <2>1 DEF IInv, Accepted, BeforeLogin, ClientsLetIn, Fresh, Session, socketVars,
                    clientVars
    <2>4. Agreement'
        BY <2>1 DEF IInv, Agreement, SessionHasRow, RowHasSession, OnlineIffSocket, Session,
                    Online, Fd, historyVars
    <2>5. QED
        BY <2>2, <2>3, <2>4 DEF IInv
<1>4. QED
    BY <1>1, <1>2, <1>3 DEF ProcessStep

-----------------------------------------------------------------------------
(* The steps of the server *)

LEMMA HandleInv ==
    ASSUME IInv, NEW k \in Conns, Handle(k), UNCHANGED clientVars
    PROVE  IInv'
<1>1. CASE HandleRequest(k)
    <2> DEFINE req == Head(toServer[k])
    <2>1. con[k] # NoCon /\ con[k].state = "REQUEST" /\ toServer[k] # << >>
        BY <1>1 DEF HandleRequest
    <2>2. PICK res \in CheckUserInfo(req) :
            \/ /\ db' = Recorded(req, res, k)
               /\ strays' = IF res = "SUCCESS" /\ req.option \notin {1, 2}
                            THEN strays \cup {req.name} ELSE strays
               /\ Answered(k, req, res)
               /\ Transmit(Respond(k, res))
               /\ ready' = Edges(Respond(k, res))
               /\ events' = events \ {k}
               /\ toServer' = [toServer EXCEPT ![k] = Tail(@)]
               /\ UNCHANGED <<up, base, accepted, stale, opened, fin, aborted>>
            \/ Broken(Respond(k, res), Recorded(req, res, k))
        BY <1>1 DEF HandleRequest
    <2>3. req \in Requests
        BY <2>1, HeadIsRequest
    <2>4. req.name \in Users
        BY <2>3 DEF Requests
    <2> HIDE DEF req
    <2>5. CASE Broken(Respond(k, res), Recorded(req, res, k))
        <3>1. /\ Recorded(req, res, k) \in [Users -> Row \cup {NoRow}]
              /\ ColumnsOf(Recorded(req, res, k))
            BY <2>1, <2>4, RecordedKeepsTable
        <3>2. QED
            BY <2>1, <2>5, <3>1, RespondReaches, BrokenInv
    <2>6. CASE ~Broken(Respond(k, res), Recorded(req, res, k))
        BY <2>1, <2>2, <2>6, HandleRequestInv DEF req
    <2>7. QED
        BY <2>5, <2>6
<1>2. CASE AuthenticatedBreaks(k)
    <2>1. con[k] # NoCon
        BY <1>2 DEF AuthenticatedBreaks
    <2>2. CASE Broken(Notify(k), db)
        BY <2>1, <2>2, TableKept, NotifyReaches, BrokenInv
    <2>3. CASE Broken(Then(Respond(k, "SUCCESS"), Notify(k)), db)
        <3>1. ASSUME NEW t \in Conns
              PROVE  /\ Then(Respond(k, "SUCCESS"), Notify(k))[t] \in Seq(Answers)
                     /\ t > accepted => Then(Respond(k, "SUCCESS"), Notify(k))[t] = << >>
            BY <2>1, RespondReaches, NotifyReaches, ThenReaches
        <3>2. QED
            BY <2>1, <2>3, <3>1, TableKept, BrokenInv
    <2>4. QED
        BY <1>2, <2>2, <2>3 DEF AuthenticatedBreaks
<1>3. CASE OnlineLeaves(k)
    <2>1. con[k] # NoCon /\ con[k].state = "ONLINE" /\ Session(k)
        BY <1>3 DEF OnlineLeaves, Session
    <2>2. con[k].name \in Users
        BY <2>1 DEF IInv, Accepted
    <2>3. CASE Broken(Notify(k), Departed(con[k].name))
        <3>1. /\ Departed(con[k].name) \in [Users -> Row \cup {NoRow}]
              /\ ColumnsOf(Departed(con[k].name))
            BY <2>2, DepartedKeepsTable
        <3>2. QED
            BY <2>3, <3>1, NotifyReaches, BrokenInv
    <2>4. CASE ~Broken(Notify(k), Departed(con[k].name))
        BY <1>3, <2>1, <2>4, OnlineLeavesInv DEF OnlineLeaves
    <2>5. QED
        BY <2>3, <2>4
<1>4. CASE HandleChat(k)
    <2>1. con[k] # NoCon /\ con[k].state = "ONLINE"
        BY <1>4 DEF HandleChat
    <2>2. CASE Broken(Notify(k), db)
        BY <2>1, <2>2, TableKept, NotifyReaches, BrokenInv
    <2>3. CASE ~Broken(Notify(k), db)
        BY <1>4, <2>1, <2>3, HandleChatInv DEF HandleChat
    <2>4. QED
        BY <2>2, <2>3
<1>5. QED
    BY <1>1, <1>2, <1>3, <1>4, RequestGoneInv, AuthenticatedLeavesInv, HandleOptionInv
       DEF Handle

LEMMA EpollWaitInv ==
    ASSUME IInv, EpollWait, UNCHANGED clientVars
    PROVE  IInv'
<1>1. /\ events' = {k \in ready : Readable(k)} \cup (IF accepted < opened THEN {0} ELSE {})
      /\ ready' = {}
      /\ UNCHANGED <<db, processVars, con, opened, toServer, toClient, fin, reset, aborted>>
    BY DEF EpollWait
<1>2. events' \subseteq Conns \cup {0}
    BY <1>1 DEF IInv, TypeOK, ServerTypeOK
<1>3. 0 \in events' => accepted < opened
    <2>1. 0 \notin Conns
        BY Sizes
    <2>2. QED
        BY <1>1, <2>1 DEF IInv, TypeOK, ServerTypeOK
<1>4. TypeOK'
    BY <1>1, <1>2 DEF IInv, TypeOK, ServerTypeOK, processVars, historyVars, clientVars
<1>5. Accepted' /\ BeforeLogin' /\ ClientsLetIn'
    BY <1>1, <1>3 DEF IInv, Accepted, BeforeLogin, ClientsLetIn, Fresh, Session, processVars,
                      clientVars
<1>6. Agreement'
    BY <1>1 DEF IInv, Agreement, SessionHasRow, RowHasSession, OnlineIffSocket, Session,
                Online, Fd, processVars, historyVars
<1>7. QED
    BY <1>4, <1>5, <1>6 DEF IInv

LEMMA HandleAcceptInv ==
    ASSUME IInv, HandleAccept, UNCHANGED clientVars
    PROVE  IInv'
<1> DEFINE k == accepted + 1
           v == [name |-> "", state |-> "REQUEST"]
<1>1. /\ 0 \in events /\ events' = events \ {0} /\ accepted' = k
      /\ con' = [con EXCEPT ![k] = v] /\ (ready' = ready \cup {k} \/ ready' = ready)
      /\ UNCHANGED <<db, up, base, stale, strays, opened, toServer, toClient, fin, reset,
                     aborted>>
    BY DEF HandleAccept, historyVars
<1>2. /\ k \in Conns /\ k <= opened /\ base < k /\ k > accepted
      /\ \A t \in Conns : t <= accepted => t <= k
      /\ \A t \in Conns : t > k => t > accepted
      /\ k \in base..MaxConns /\ opened \in k..MaxConns
    <2>1. accepted < opened
        BY <1>1 DEF IInv, Accepted
    <2>2. QED
        BY <2>1, Counters, Sizes DEF Conns
<1>3. v \in Connection /\ v.state = "REQUEST"
    BY DEF Connection
<1>4. v # NoCon
    BY <1>3, ChatAssumption DEF ChatAssumption
<1> HIDE DEF k, v
<1>5. con'[k] = v /\ \A t \in Conns : t # k => con'[t] = con[t]
    BY <1>1, <1>2 DEF IInv, TypeOK, ServerTypeOK
<1>6. TypeOK'
    <2>1. ready' \subseteq Conns /\ events' \subseteq Conns \cup {0}
        BY <1>1, <1>2 DEF IInv, TypeOK, ServerTypeOK
    <2>2. con' \in [Conns -> Connection \cup {NoCon}]
        BY <1>1, <1>3 DEF IInv, TypeOK, ServerTypeOK
    <2>3. ServerTypeOK'
        BY <1>1, <1>2, <2>1, <2>2 DEF IInv, TypeOK, ServerTypeOK
    <2>4. QED
        BY <2>3 DEF IInv, TypeOK, clientVars
<1>7. \A t \in Conns : Fresh(t)' => Fresh(t)
    BY <1>1, <1>2, <1>5 DEF Fresh
<1>8. con[k] = NoCon
    BY <1>2, Counters, Sizes DEF IInv, Accepted
<1>9. \A t \in Conns : /\ Session(t)' <=> Session(t)
                       /\ Session(t) => con'[t] = con[t]
    BY <1>3, <1>5, <1>8 DEF Session
<1>10. Accepted'
    <2>1. 0 \notin events'
        BY <1>1
    <2>2. \A t \in Conns : con'[t] # NoCon => base' < t /\ t <= accepted'
        BY <1>1, <1>2, <1>5, Counters, Sizes DEF IInv, Accepted
    <2>3. QED
        BY <1>9, <2>1, <2>2 DEF IInv, Accepted
<1>11. BeforeLogin' /\ ClientsLetIn'
    BY <1>1, <1>7 DEF IInv, BeforeLogin, ClientsLetIn, clientVars
<1>12. Agreement'
    <2>1. SessionHasRow'
        BY <1>1, <1>9 DEF IInv, Agreement, SessionHasRow, Fd
    <2>2. RowHasSession'
        <3>1. ASSUME NEW u \in Users, Online(u)', db[u].sockfd # stale[u]
              PROVE  \E t \in Conns :
                        Session(t)' /\ con'[t].name = u /\ Fd(t)' = db'[u].sockfd
            <4>1. PICK t \in Conns : Session(t) /\ con[t].name = u /\ Fd(t) = db[u].sockfd
                BY <1>1, <3>1 DEF IInv, Agreement, RowHasSession, Online
            <4>2. Session(t)' /\ con'[t] = con[t] /\ Fd(t)' = Fd(t)
                BY <1>1, <1>9, <4>1 DEF Fd
            <4>3. QED
                BY <1>1, <4>1, <4>2
        <3>2. QED
            BY <1>1, <3>1 DEF RowHasSession
    <2>3. OnlineIffSocket'
        BY <1>1 DEF IInv, Agreement, OnlineIffSocket
    <2>4. QED
        BY <2>1, <2>2, <2>3 DEF Agreement
<1>13. QED
    BY <1>6, <1>10, <1>11, <1>12 DEF IInv

-----------------------------------------------------------------------------
(* The steps of the clients *)

\* What a system call of a client leaves behind.
CallOK ==
    /\ opened \in Nat /\ accepted <= opened /\ opened <= MaxConns
    /\ 0 \in events => accepted < opened
    /\ toServer \in [Conns -> Seq(Units)]
    /\ toClient \in [Conns -> Seq(Answers)]
    /\ ready \subseteq Conns
    /\ fin \in [Conns -> BOOLEAN] /\ reset \in [Conns -> BOOLEAN]
    /\ aborted \in [Conns -> BOOLEAN]
    /\ BeforeLogin

LEMMA NoCall ==
    ASSUME IInv
    PROVE  CallOK
    BY Counters DEF IInv, TypeOK, ServerTypeOK, Answers, Accepted, CallOK

LEMMA ConnectOK ==
    ASSUME IInv, Connect
    PROVE  CallOK' /\ UNCHANGED serverVars /\ opened + 1 \in Conns /\ opened' = opened + 1
<1>1. /\ opened' = opened + 1 /\ opened < MaxConns
      /\ UNCHANGED <<serverVars, ready, toServer, toClient, fin, reset, aborted>>
    BY DEF Connect
<1>2. /\ opened + 1 \in Nat /\ opened + 1 \in 1..MaxConns
      /\ accepted <= opened + 1 /\ opened + 1 <= MaxConns /\ accepted < opened + 1
    BY <1>1, Counters, Sizes
<1>3. UNCHANGED <<accepted, con, events>>
    BY <1>1 DEF serverVars, processVars
<1>4. BeforeLogin'
    BY <1>1, <1>3 DEF IInv, BeforeLogin, Fresh
<1>5. /\ opened' \in Nat /\ accepted' <= opened' /\ opened' <= MaxConns
      /\ accepted' < opened'
    BY <1>1, <1>2, <1>3
<1>6. QED
    BY <1>1, <1>2, <1>4, <1>5, NoCall DEF CallOK, Conns

LEMMA WriteOK ==
    ASSUME IInv, NEW k \in Conns, NEW unit \in Units, Fresh(k) => unit \in Requests,
           Write(k, unit)
    PROVE  CallOK' /\ UNCHANGED serverVars
<1>1. UNCHANGED <<serverVars, opened, toClient, fin, aborted>>
    BY DEF Write
<1>2. UNCHANGED <<accepted, con, events>>
    BY <1>1 DEF serverVars, processVars
<1>3. \/ toServer' = [toServer EXCEPT ![k] = Append(@, unit)]
      \/ toServer' = toServer
    BY DEF Write
<1>4. toServer[k] \in Seq(Units) /\ (Fresh(k) => toServer[k] \in Seq(Requests))
    BY DEF IInv, TypeOK, ServerTypeOK, BeforeLogin
<1>5. /\ Append(toServer[k], unit) \in Seq(Units)
      /\ Fresh(k) => Append(toServer[k], unit) \in Seq(Requests)
    BY <1>4, AppendProperties
<1>6. toServer' \in [Conns -> Seq(Units)]
    BY <1>3, <1>5 DEF IInv, TypeOK, ServerTypeOK
<1>7. BeforeLogin'
    BY <1>1, <1>2, <1>3, <1>5 DEF IInv, TypeOK, ServerTypeOK, BeforeLogin, Fresh
<1>8. ready' \subseteq Conns /\ reset' \in [Conns -> BOOLEAN]
    BY DEF Write, Edge, IInv, TypeOK, ServerTypeOK
<1>9. QED
    BY <1>1, <1>2, <1>6, <1>7, <1>8, NoCall DEF CallOK

LEMMA TakeOK ==
    ASSUME IInv, NEW k \in Conns, NEW rest \in Seq(Answers),
           Fresh(k) => rest \in Seq(Refusals), Take(k, rest)
    PROVE  CallOK' /\ UNCHANGED serverVars
<1>1. /\ toClient' = [toClient EXCEPT ![k] = rest]
      /\ UNCHANGED <<serverVars, opened, ready, toServer, fin, reset, aborted>>
    BY DEF Take
<1>2. UNCHANGED <<accepted, con, events>>
    BY <1>1 DEF serverVars, processVars
<1>3. toClient \in [Conns -> Seq(Answers)]
    BY NoCall DEF CallOK
<1>4. toClient' \in [Conns -> Seq(Answers)]
    BY <1>1, <1>3
<1>5. BeforeLogin'
    BY <1>1, <1>2, <1>3 DEF IInv, BeforeLogin, Fresh
<1>6. QED
    BY <1>1, <1>2, <1>4, <1>5, NoCall DEF CallOK

LEMMA CloseOK ==
    ASSUME IInv, NEW k \in Conns, Close(k)
    PROVE  CallOK' /\ UNCHANGED serverVars
<1>1. /\ toClient' = [toClient EXCEPT ![k] = << >>]
      /\ UNCHANGED <<serverVars, opened, toServer>>
    BY DEF Close
<1>2. UNCHANGED <<accepted, con, events>>
    BY <1>1 DEF serverVars, processVars
<1>3. toClient \in [Conns -> Seq(Answers)] /\ << >> \in Seq(Answers) /\ << >> \in Seq(Refusals)
    BY NoCall DEF CallOK
<1>4. toClient' \in [Conns -> Seq(Answers)]
    BY <1>1, <1>3
<1>5. BeforeLogin'
    BY <1>1, <1>2, <1>3 DEF IInv, BeforeLogin, Fresh
<1>6. /\ ready' \subseteq Conns /\ fin' \in [Conns -> BOOLEAN]
      /\ reset' \in [Conns -> BOOLEAN] /\ aborted' \in [Conns -> BOOLEAN]
    BY DEF Close, Edge, IInv, TypeOK, ServerTypeOK
<1>7. QED
    BY <1>1, <1>2, <1>4, <1>5, <1>6, NoCall DEF CallOK

\* A number between two others belongs to their range.
LEMMA InRange ==
    ASSUME NEW a \in Nat, NEW b \in Nat, NEW x \in Nat, a <= x, x <= b
    PROVE  x \in a..b
OBVIOUS

\* A client goes on: it has a connection wherever it needs one, and is past the login
\* only on a connection that is not fresh.
LEMMA ClientInv ==
    ASSUME IInv, CallOK', UNCHANGED serverVars, NEW c \in Clients,
           NEW to \in {"off", "menu", "awaitRes", "options", "awaitOpt", "online"},
           pc' = [pc EXCEPT ![c] = to],
           NEW n \in 0..MaxConns, conn' = [conn EXCEPT ![c] = n],
           to # "off" => n \in Conns,
           to \in {"options", "awaitOpt", "online"} => ~Fresh(n),
           user' \in [Clients -> Users \cup {""}], opt' \in [Clients -> ChatOptions \cup {0}]
    PROVE  IInv'
<1>1. UNCHANGED <<db, up, stale, strays, base, accepted, con, events>>
    BY DEF serverVars, processVars, historyVars
<1>2. TypeOK'
    <2>1. opened' \in accepted'..MaxConns
        <3> DEFINE o == opened'
        <3>1. o \in Nat /\ accepted <= o /\ o <= MaxConns
            BY <1>1 DEF CallOK
        <3>2. accepted \in Nat /\ MaxConns \in Nat
            BY Counters, Sizes
        <3> HIDE DEF o
        <3>3. o \in accepted..MaxConns
            BY <3>1, <3>2, InRange
        <3>4. QED
            BY <1>1, <3>3 DEF o
    <2>2. ServerTypeOK'
        BY <1>1, <2>1 DEF IInv, TypeOK, ServerTypeOK, CallOK, Answers
    <2>3. QED
        BY <2>2 DEF IInv, TypeOK
<1>3. Accepted'
    <2>1. 0 \in events' => accepted' < opened'
        BY DEF CallOK
    <2>2. QED
        BY <1>1, <2>1 DEF IInv, Accepted, Session
<1>4. ClientsLetIn'
    BY <1>1 DEF IInv, TypeOK, ClientsLetIn, Fresh
<1>5. BeforeLogin'
    BY DEF CallOK
<1>6. Agreement'
    BY <1>1 DEF IInv, Agreement, SessionHasRow, RowHasSession, OnlineIffSocket, Session,
                Online, Fd
<1>7. QED
    BY <1>2, <1>3, <1>4, <1>5, <1>6 DEF IInv

\* What a client of a fresh connection can have received.
LEMMA ReceivedType ==
    ASSUME IInv, NEW c \in Clients, pc[c] # "off"
    PROVE  /\ conn[c] \in Conns /\ conn[c] \in 0..MaxConns
           /\ Received(c) \in Seq(Answers)
           /\ Fresh(conn[c]) => Received(c) \in Seq(Refusals)
<1>1. conn[c] \in Conns /\ conn[c] \in 0..MaxConns
    BY DEF IInv, TypeOK, ClientsLetIn
<1>2. QED
    BY <1>1, NoCall DEF CallOK, IInv, BeforeLogin, Received

\* A SUCCESS is read by who is not fresh: only a login puts one there
\* (socket_server.cpp:164-169).
LEMMA SuccessMeansLetIn ==
    ASSUME IInv, NEW c \in Clients, pc[c] # "off", Received(c) # << >>,
           Head(Received(c)) = "SUCCESS"
    PROVE  ~Fresh(conn[c])
<1>1. Fresh(conn[c]) => Head(Received(c)) \in Refusals
    BY ReceivedType, HeadTailProperties
<1>2. QED
    BY <1>1 DEF Refusals

\* The rest of what was received, whether an answer was taken or a text left.
LEMMA RestType ==
    ASSUME IInv, NEW c \in Clients, pc[c] # "off", Received(c) # << >>,
           NEW rest \in {Received(c), Tail(Received(c)), << >>}
    PROVE  rest \in Seq(Answers) /\ (Fresh(conn[c]) => rest \in Seq(Refusals))
<1>1. << >> \in Seq(Answers) /\ << >> \in Seq(Refusals)
    OBVIOUS
<1>2. Tail(Received(c)) \in Seq(Answers)
    BY ReceivedType, HeadTailProperties
<1>3. Fresh(conn[c]) => Tail(Received(c)) \in Seq(Refusals)
    BY ReceivedType, HeadTailProperties
<1>4. QED
    BY <1>1, <1>2, <1>3, ReceivedType

LEMMA ClientTypes ==
    ASSUME IInv
    PROVE  /\ pc \in [Clients -> {"off", "menu", "awaitRes", "options", "awaitOpt", "online"}]
           /\ conn \in [Clients -> 0..MaxConns]
           /\ user \in [Clients -> Users \cup {""}]
           /\ opt \in [Clients -> ChatOptions \cup {0}]
    BY DEF IInv, TypeOK

\* A step in which the client keeps its connection.
LEMMA SameConnection ==
    ASSUME IInv, CallOK', UNCHANGED <<serverVars, conn>>, NEW c \in Clients, pc[c] # "off",
           NEW to \in {"menu", "awaitRes", "options", "awaitOpt", "online"},
           pc' = [pc EXCEPT ![c] = to],
           to \in {"options", "awaitOpt", "online"} => ~Fresh(conn[c]),
           user' \in [Clients -> Users \cup {""}], opt' \in [Clients -> ChatOptions \cup {0}]
    PROVE  IInv'
<1>1. conn' = [conn EXCEPT ![c] = conn[c]]
    BY ClientTypes
<1>2. QED
    BY <1>1, ReceivedType, ClientInv

LEMMA StartInv ==
    ASSUME IInv, NEW c \in Clients, Start(c)
    PROVE  IInv'
<1>1. /\ CallOK' /\ UNCHANGED serverVars /\ opened + 1 \in Conns
    BY ConnectOK DEF Start
<1>2. opened + 1 \in 0..MaxConns
    BY <1>1, Sizes, Counters
<1>3. pc' = [pc EXCEPT ![c] = "menu"] /\ conn' = [conn EXCEPT ![c] = opened + 1]
    BY DEF Start, Goto
<1>4. user' \in [Clients -> Users \cup {""}] /\ opt' \in [Clients -> ChatOptions \cup {0}]
    BY ClientTypes DEF Start
<1>5. QED
    BY <1>1, <1>2, <1>3, <1>4, ClientInv

LEMMA SendRequestInv ==
    ASSUME IInv, NEW c \in Clients, NEW u \in Users, NEW o \in Options,
           SendRequest(c, u, o)
    PROVE  IInv'
<1> DEFINE req == [kind |-> "request", option |-> o, name |-> u]
<1>1. req \in Requests /\ req \in Units
    BY DEF Requests, Units
<1>2. pc[c] = "menu" /\ pc' = [pc EXCEPT ![c] = "awaitRes"] /\ Write(conn[c], req)
      /\ UNCHANGED <<conn, opt>> /\ user' = [user EXCEPT ![c] = u]
    BY DEF SendRequest, Goto
<1> HIDE DEF req
<1>3. CallOK' /\ UNCHANGED serverVars
    BY <1>1, <1>2, ReceivedType, WriteOK
<1>4. user' \in [Clients -> Users \cup {""}] /\ opt' \in [Clients -> ChatOptions \cup {0}]
    BY <1>2, ClientTypes
<1>5. QED
    BY <1>2, <1>3, <1>4, SameConnection

LEMMA SelectOptionInv ==
    ASSUME IInv, NEW c \in Clients, NEW n \in ChatOptions, SelectOption(c, n)
    PROVE  IInv'
<1> DEFINE choice == [kind |-> "option", number |-> n]
<1>1. choice \in Units
    BY ClientAssumption DEF ClientAssumption, Units
<1>2. pc[c] = "options" /\ pc' = [pc EXCEPT ![c] = "awaitOpt"] /\ Write(conn[c], choice)
      /\ UNCHANGED conn /\ user' = [user EXCEPT ![c] = ""] /\ opt' = [opt EXCEPT ![c] = n]
    BY DEF SelectOption, Goto
<1>3. ~Fresh(conn[c])
    BY <1>2 DEF IInv, ClientsLetIn
<1> HIDE DEF choice
<1>4. CallOK' /\ UNCHANGED serverVars
    BY <1>1, <1>2, <1>3, ReceivedType, WriteOK
<1>5. user' \in [Clients -> Users \cup {""}] /\ opt' \in [Clients -> ChatOptions \cup {0}]
    BY <1>2, ClientTypes
<1>6. QED
    BY <1>2, <1>3, <1>4, <1>5, SameConnection

LEMMA ChatInv ==
    ASSUME IInv, NEW c \in Clients, Chat(c)
    PROVE  IInv'
<1> DEFINE line == [kind |-> "chat"]
<1>1. line \in Units
    BY DEF Units
<1>2. pc[c] = "online" /\ Write(conn[c], line) /\ UNCHANGED clientVars
    BY DEF Chat
<1>3. ~Fresh(conn[c])
    BY <1>2 DEF IInv, ClientsLetIn
<1> HIDE DEF line
<1>4. CallOK' /\ UNCHANGED serverVars
    BY <1>1, <1>2, <1>3, ReceivedType, WriteOK
<1>5. pc' = [pc EXCEPT ![c] = "online"]
    BY <1>2, ClientTypes DEF clientVars
<1>6. QED
    BY <1>2, <1>3, <1>4, <1>5, ClientTypes, SameConnection DEF clientVars

LEMMA ReadResponseInv ==
    ASSUME IInv, NEW c \in Clients, ReadResponse(c)
    PROVE  IInv'
<1>1. pc[c] = "awaitRes" /\ Received(c) # << >> /\ UNCHANGED <<conn, opt>>
    BY DEF ReadResponse
<1>2. PICK rest \in {Received(c), Tail(Received(c)), << >>} : Take(conn[c], rest)
    BY DEF ReadResponse, AfterResponse
<1>3. CallOK' /\ UNCHANGED serverVars
    BY <1>1, <1>2, ReceivedType, RestType, TakeOK
<1>4. CASE Head(Received(c)) = "SUCCESS"
    <2>1. pc' = [pc EXCEPT ![c] = "options"] /\ user' = user
        BY <1>4 DEF ReadResponse, Goto
    <2>2. ~Fresh(conn[c])
        BY <1>1, <1>4, SuccessMeansLetIn
    <2>3. QED
        BY <1>1, <1>3, <2>1, <2>2, ClientTypes, SameConnection
<1>5. CASE Head(Received(c)) # "SUCCESS"
    <2>1. pc' = [pc EXCEPT ![c] = "menu"] /\ user' = [user EXCEPT ![c] = ""]
        BY <1>5 DEF ReadResponse, Goto
    <2>2. user' \in [Clients -> Users \cup {""}]
        BY <2>1, ClientTypes
    <2>3. QED
        BY <1>1, <1>3, <2>1, <2>2, ClientTypes, SameConnection
<1>6. QED
    BY <1>4, <1>5

\* The connections of a server that is gone are not fresh: a success read from nobody
\* cannot be followed by an option to a server that expects a request
\* (socket_client.cpp:40-53).
LEMMA DeadIsNotFresh ==
    ASSUME IInv, NEW k \in Conns, ~Alive(k)
    PROVE  ~Fresh(k)
<1>1. k <= base /\ k \in Nat /\ base \in Nat /\ accepted \in Nat /\ base <= accepted
    BY Counters, Sizes DEF Alive
<1>2. QED
    BY <1>1 DEF Fresh, IInv, Accepted

LEMMA ResponseFromNobodyInv ==
    ASSUME IInv, NEW c \in Clients, ResponseFromNobody(c)
    PROVE  IInv'
<1>1. pc[c] = "awaitRes" /\ pc' = [pc EXCEPT ![c] = "options"] /\ ~Alive(conn[c])
      /\ UNCHANGED <<conn, user, opt, serverVars, socketVars>>
    BY DEF ResponseFromNobody, Goto, EndOfFile, Drained
<1>2. ~Fresh(conn[c])
    BY <1>1, ReceivedType, DeadIsNotFresh
<1>3. CallOK'
    BY <1>1, NoCall DEF CallOK, BeforeLogin, Fresh, socketVars, serverVars, processVars
<1>4. QED
    BY <1>1, <1>2, <1>3, ClientTypes, SameConnection

LEMMA ReadOptionAnswerInv ==
    ASSUME IInv, NEW c \in Clients, ReadOptionAnswer(c)
    PROVE  IInv'
<1>1. pc[c] = "awaitOpt" /\ pc' = [pc EXCEPT ![c] = "online"]
      /\ UNCHANGED <<conn, user>> /\ opt' = [opt EXCEPT ![c] = 0]
    BY DEF ReadOptionAnswer, Goto
<1>2. ~Fresh(conn[c])
    BY <1>1 DEF IInv, ClientsLetIn
<1>3. CallOK' /\ UNCHANGED serverVars
    <2>1. CASE Received(c) # << >> /\ \E rest \in {Received(c), Tail(Received(c)), << >>} :
                                        Take(conn[c], rest)
        BY <1>1, <2>1, ReceivedType, RestType, TakeOK
    <2>2. CASE UNCHANGED <<serverVars, socketVars>>
        BY <2>2, NoCall DEF CallOK, BeforeLogin, Fresh, socketVars, serverVars, processVars
    <2>3. QED
        BY <2>1, <2>2 DEF ReadOptionAnswer
<1>4. opt' \in [Clients -> ChatOptions \cup {0}] /\ user' \in [Clients -> Users \cup {""}]
    BY <1>1, ClientTypes
<1>5. QED
    BY <1>1, <1>2, <1>3, <1>4, SameConnection

LEMMA RecvInv ==
    ASSUME IInv, NEW c \in Clients, Recv(c)
    PROVE  IInv'
<1>1. pc[c] = "online" /\ Received(c) # << >> /\ Take(conn[c], << >>) /\ UNCHANGED clientVars
    BY DEF Recv
<1>2. ~Fresh(conn[c])
    BY <1>1 DEF IInv, ClientsLetIn
<1>3. CallOK' /\ UNCHANGED serverVars
    BY <1>1, ReceivedType, RestType, TakeOK
<1>4. pc' = [pc EXCEPT ![c] = "online"]
    BY <1>1, ClientTypes DEF clientVars
<1>5. QED
    BY <1>1, <1>2, <1>3, <1>4, ClientTypes, SameConnection DEF clientVars

LEMMA ExitInv ==
    ASSUME IInv, NEW c \in Clients, pc[c] # "off", Exit(c)
    PROVE  IInv'
<1>1. /\ pc' = [pc EXCEPT ![c] = "off"] /\ Close(conn[c]) /\ conn' = [conn EXCEPT ![c] = 0]
      /\ opt' = [opt EXCEPT ![c] = 0] /\ user' = [user EXCEPT ![c] = ""]
    BY DEF Exit
<1>2. CallOK' /\ UNCHANGED serverVars
    BY <1>1, ReceivedType, CloseOK
<1>3. opt' \in [Clients -> ChatOptions \cup {0}] /\ user' \in [Clients -> Users \cup {""}]
    BY <1>1, ClientTypes
<1>4. 0 \in 0..MaxConns
    BY Sizes
<1>5. QED
    BY <1>1, <1>2, <1>3, <1>4, ClientInv

-----------------------------------------------------------------------------
(* The invariant and what follows from it *)

LEMMA InitInv ==
    ASSUME Init
    PROVE  IInv
<1>1. << >> \in Seq(Units) /\ << >> \in Seq(Answers) /\ << >> \in Seq(Requests)
      /\ << >> \in Seq(Refusals)
    OBVIOUS
<1>2. 0 \in 0..MaxConns /\ -1 \in -1..MaxConns
    BY Sizes
<1>3. TypeOK
    BY <1>1, <1>2 DEF Init, ServerInit, TypeOK, ServerTypeOK, Answers
<1>4. Accepted /\ BeforeLogin
    BY <1>1 DEF Init, ServerInit, Accepted, Session, BeforeLogin
<1>5. ClientsLetIn
    BY DEF Init, ClientsLetIn
<1>6. Agreement
    BY DEF Init, ServerInit, Agreement, SessionHasRow, RowHasSession, OnlineIffSocket,
           Session, Online
<1>7. QED
    BY <1>3, <1>4, <1>5, <1>6 DEF IInv

LEMMA NextInv ==
    ASSUME IInv, [Next]_vars
    PROVE  IInv'
<1>1. CASE UNCHANGED vars
    <2>1. UNCHANGED <<serverVars, socketVars, clientVars, db, up, base, accepted, stale, strays,
                      con, events, opened, ready, toServer, toClient, fin, reset, aborted>>
        BY <1>1 DEF vars, serverVars, socketVars, processVars, historyVars
    <2>2. TypeOK'
        BY <2>1 DEF IInv, TypeOK, ServerTypeOK, clientVars
    <2>3. Accepted' /\ BeforeLogin' /\ ClientsLetIn'
        BY <2>1 DEF IInv, Accepted, BeforeLogin, ClientsLetIn, Fresh, Session, clientVars
    <2>4. Agreement'
        BY <2>1 DEF IInv, Agreement, SessionHasRow, RowHasSession, OnlineIffSocket, Session,
                    Online, Fd
    <2>5. QED
        BY <2>2, <2>3, <2>4 DEF IInv
<1>2. CASE ServerStep /\ UNCHANGED clientVars
    BY <1>2, EpollWaitInv, HandleAcceptInv, HandleInv DEF ServerStep
<1>3. CASE ProcessStep /\ UNCHANGED clientVars
    BY <1>3, ProcessInv
<1>4. ASSUME NEW c \in Clients, ClientStep(c)
      PROVE  IInv'
    <2>1. CASE Reads(c)
        BY <2>1, ReadResponseInv, ResponseFromNobodyInv, ReadOptionAnswerInv, RecvInv, ExitInv
           DEF Reads, ServerGone
    <2>2. CASE Quit(c)
        BY <2>2, ExitInv DEF Quit
    <2>3. QED
        BY <1>4, <2>1, <2>2, StartInv, SendRequestInv, SelectOptionInv, ChatInv DEF ClientStep
<1>5. QED
    BY <1>1, <1>2, <1>3, <1>4 DEF Next

\* The invariant holds, whatever options requests ask for and however often the server
\* is killed and started again.
THEOREM Invariance == Spec => []IInv
<1>1. Init => IInv
    BY InitInv
<1>2. IInv /\ [Next]_vars => IInv'
    BY NextInv
<1>3. QED
    BY <1>1, <1>2, PTL DEF Spec

\* Every variable keeps to its type, whatever comes between two handlers.
THEOREM TypeCorrect == Spec => []TypeOK
<1>1. IInv => TypeOK
    BY DEF IInv
<1>2. QED
    BY <1>1, Invariance, PTL

\* No session is without the row that names its descriptor, and so no name has two, also
\* when a new process hands out descriptors that old rows still name.  Only the names for
\* which the unset result of CheckUserInfo let somebody in are excepted
\* (socket_server.cpp:112-144).
THEOREM SessionsAreRecorded == Spec => []SessionHasRow
<1>1. IInv => SessionHasRow
    BY DEF IInv, Agreement
<1>2. QED
    BY <1>1, Invariance, PTL

\* Nobody stays online in the table without a session on the descriptor of the row, but
\* for the rows as a killed server left them (socket_server.cpp:5-10, :42-45).
THEOREM NoGhosts == Spec => []RowHasSession
<1>1. IInv => RowHasSession
    BY DEF IInv, Agreement
<1>2. QED
    BY <1>1, Invariance, PTL

\* The two columns that say whether a user is online agree (database.cpp:17-45).
THEOREM ColumnsAgree == Spec => []OnlineIffSocket
<1>1. IInv => OnlineIffSocket
    BY DEF IInv, Agreement
<1>2. QED
    BY <1>1, Invariance, PTL

-----------------------------------------------------------------------------
(***************************************************************************)
(* That client and server keep in step.                                    *)
(*                                                                         *)
(* Neither side checks what it reads: the server takes it for what the     *)
(* state of the connection lets it expect, the client for the answer to    *)
(* what it asked last.  That this is so on every connection whose          *)
(* descriptor no row of a killed server names follows from an account of   *)
(* every conversation (Talk): what the client waits for, what is on its    *)
(* way, and what the server knows.  Texts of other users come in between,  *)
(* so the account needs the agreement of table and con_list (IInv), which  *)
(* decides who gets them.                                                  *)
(***************************************************************************)

Lines == [kind : {"chat", "cut"}]
Choices == [kind : {"option"}, number : Nat]

Is(k, st) == con[k] # NoCon /\ con[k].state = st

\* A connection that nobody has opened is as it was.
Unused ==
    \A k \in Conns : k > opened => toServer[k] = << >> /\ toClient[k] = << >> /\ ~fin[k]

\* No two clients share a connection, and it is open as long as they run.
OwnConnection ==
    \A c \in Clients : pc[c] # "off" =>
        /\ conn[c] <= opened /\ ~fin[conn[c]]
        /\ \A d \in Clients : pc[d] # "off" /\ conn[d] = conn[c] => d = c

\* The connections in con_list.
Known == {k \in Conns : con[k] # NoCon}

\* Only these have edges and events, and a handler that is called finds something to
\* read, or an end of file.
Watched ==
    /\ ready \subseteq Known
    /\ \A k \in events \ {0} : k \in Known /\ Readable(k)

\* What a connection holds for the server: one request, then the option and chat lines.
InOrder(k) ==
    /\ Fresh(k) => Len(toServer[k]) <= 1
    /\ Is(k, "AUTHENTICATED") /\ toServer[k] # << >> =>
         Head(toServer[k]) \in Choices /\ Tail(toServer[k]) \in Seq(Lines)
    /\ Is(k, "ONLINE") => toServer[k] \in Seq(Lines)

\* The three stages of a request: on its way, refused, and granted.
Asked(c, k) ==
    /\ Fresh(k) /\ toClient[k] = << >>
    /\ toServer[k] # << >> /\ Head(toServer[k]).name = user[c]

Refused(k) ==
    /\ Fresh(k) /\ toServer[k] = << >>
    /\ toClient[k] = << "REFUSED" >>

LetIn(c, k) ==
    toServer[k] = << >> /\ con[k] = [name |-> user[c], state |-> "AUTHENTICATED"]

Granted(c, k) == LetIn(c, k) /\ toClient[k] # << >> /\ Head(toClient[k]) = "SUCCESS"

\* Where the conversation of client c stands.
Talk(c, k) ==
    /\ pc[c] = "menu" => Fresh(k) /\ toServer[k] = << >> /\ toClient[k] = << >>
    /\ pc[c] = "awaitRes" => Asked(c, k) \/ Refused(k) \/ Granted(c, k)
    /\ pc[c] = "options" => LetIn(c, k)
    /\ pc[c] \in {"awaitOpt", "online"} /\ Is(k, "AUTHENTICATED") => toServer[k] # << >>

Conversations ==
    /\ \A k \in Conns : ~Haunted(k) => InOrder(k)
    /\ \A c \in Clients :
         pc[c] # "off" /\ Alive(conn[c]) /\ ~Haunted(conn[c]) => Talk(c, conn[c])

DInv == Unused /\ OwnConnection /\ Watched /\ Conversations

-----------------------------------------------------------------------------
(* What notifications do to a conversation *)

LEMMA EmptyOrOne ==
    ASSUME NEW S, NEW s \in Seq(S), Len(s) <= 1
    PROVE  UpTo(MaxOut, s \o << >>) = s
<1>1. s \o << >> = s
    BY ConcatEmptySeq
<1>2. Len(s) \in Nat /\ (Len(s) < MaxOut \/ MaxOut = Len(s))
    BY ChatAssumption, LenProperties DEF ChatAssumption
<1>3. SubSeq(s, 1, Len(s)) = s
    BY SubSeqFull
<1>4. QED
    BY <1>1, <1>2, <1>3 DEF UpTo

\* The capacity of a buffer is at least one, and what arrives goes to the end.
LEMMA HeadStays ==
    ASSUME NEW S, NEW s \in Seq(S), NEW t \in Seq(S), s # << >>
    PROVE  UpTo(MaxOut, s \o t) # << >> /\ Head(UpTo(MaxOut, s \o t)) = Head(s)
<1> DEFINE w == s \o t
           n == IF Len(w) < MaxOut THEN Len(w) ELSE MaxOut
<1>1. w \in Seq(S) /\ Len(w) >= 1 /\ w[1] = s[1]
    BY ConcatProperties, EmptySeq, LenProperties
<1>2. n \in Nat /\ n >= 1 /\ n <= Len(w)
    BY <1>1, ChatAssumption, LenProperties DEF ChatAssumption
<1> HIDE DEF w, n
<1>3. \A i \in 1 .. n : w[i] \in S
    BY <1>1, <1>2, ElementOfSeq
<1>4. /\ SubSeq(w, 1, n) \in Seq(S) /\ Len(SubSeq(w, 1, n)) = n
      /\ SubSeq(w, 1, n)[1] = w[1]
    BY <1>1, <1>2, <1>3, SubSeqProperties
<1>5. SubSeq(w, 1, n) # << >> /\ Head(SubSeq(w, 1, n)) = w[1]
    BY <1>2, <1>4, EmptySeq
<1>6. Head(s) = s[1]
    OBVIOUS
<1>7. QED
    BY <1>1, <1>5, <1>6 DEF UpTo, w, n

\* A step of the running server does not change which connections have a descriptor that
\* a row of a killed one names.
LEMMA HauntedAsBefore ==
    ASSUME UNCHANGED <<base, stale>>, NEW t
    PROVE  Haunted(t)' <=> Haunted(t)
    BY DEF Haunted, Fd

\* Nobody is told anything who has no session: the rows that are online name the
\* descriptors of sessions, or are those of a killed server (socket_server.cpp:47-56).
LEMMA NoTextForFresh ==
    ASSUME IInv, NEW k, NEW t \in Conns, ~Haunted(t), Fresh(t)
    PROVE  Notify(k)[t] = << >>
<1>1. CASE t > accepted
    BY <1>1, NotifyReaches
<1>2. CASE con[t] # NoCon /\ con[t].state = "REQUEST"
    <2>1. Rows(t, k) = {}
        <3>1. SUFFICES ASSUME NEW u \in Users, Online(u), db[u].sockfd = Fd(t)
                       PROVE  FALSE
            BY DEF Rows
        <3>2. db[u].sockfd # stale[u]
            BY <3>1 DEF Haunted
        <3>3. PICK s \in Conns : Session(s) /\ con[s].name = u /\ Fd(s) = db[u].sockfd
            BY <3>1, <3>2 DEF IInv, Agreement, RowHasSession
        <3>4. Fd(s) = Fd(t)
            BY <3>1, <3>3
        <3>5. s = t
            <4>1. base \in Int /\ s \in Int /\ t \in Int
                BY Sizes, Counters
            <4>2. QED
                BY <3>4, <4>1 DEF Fd
        <3>6. QED
            BY <1>2, <3>3, <3>5 DEF Session
    <2>2. [n \in 1 .. 0 |-> "text"] = << >>
        OBVIOUS
    <2>3. Cardinality(Rows(t, k)) = 0
        BY <2>1, FS_EmptySet
    <2>4. QED
        BY <2>2, <2>3 DEF Notify
<1>3. QED
    BY <1>1, <1>2 DEF Fresh

\* What somebody else's message leaves of what a connection holds for its client.
Kept(t) ==
    /\ t > accepted /\ toClient[t] = << >> => toClient'[t] = << >>
    /\ ~Haunted(t) /\ Fresh(t) /\ Len(toClient[t]) <= 1 => toClient'[t] = toClient[t]
    /\ toClient[t] # << >> => toClient'[t] # << >> /\ Head(toClient'[t]) = Head(toClient[t])

LEMMA DeliverKeeps ==
    ASSUME IInv, NEW out, NEW ts, NEW t \in Conns, out[t] \in Seq(Answers),
           t > accepted => out[t] = << >>, ~Haunted(t) /\ Fresh(t) => out[t] = << >>,
           toClient' = Deliver(out, ts)
    PROVE  Kept(t)
<1>1. toClient[t] \in Seq(Answers)
    BY NoCall DEF CallOK
<1>2. CASE t \in ts /\ ~fin[t]
    <2>1. toClient'[t] = UpTo(MaxOut, toClient[t] \o out[t])
        BY <1>2 DEF Deliver
    <2>2. ASSUME out[t] = << >>, Len(toClient[t]) <= 1
          PROVE  toClient'[t] = toClient[t]
        BY <1>1, <2>1, <2>2, EmptyOrOne
    <2>3. toClient[t] = << >> => Len(toClient[t]) <= 1
        OBVIOUS
    <2>4. QED
        BY <1>1, <2>1, <2>2, <2>3, HeadStays DEF Kept
<1>3. CASE ~(t \in ts /\ ~fin[t])
    BY <1>3 DEF Deliver, Kept
<1>4. QED
    BY <1>2, <1>3

-----------------------------------------------------------------------------
(* The handlers that end normally *)

\* A conversation that only gets texts in between stays where it is.
LEMMA BystanderTalks ==
    ASSUME NEW c \in Clients, NEW t \in Conns, Talk(c, t), ~Haunted(t),
           UNCHANGED <<pc, user>>, con'[t] = con[t], toServer'[t] = toServer[t], Kept(t),
           Fresh(t)' <=> Fresh(t), Is(t, "AUTHENTICATED")' <=> Is(t, "AUTHENTICATED")
    PROVE  Talk(c, t)'
<1>1. Len(<< >>) <= 1 /\ Len(<< "REFUSED" >>) <= 1
    OBVIOUS
<1>2. Fresh(t) /\ toClient[t] = << >> => toClient'[t] = << >>
    BY <1>1 DEF Kept
<1>3. Asked(c, t) => Asked(c, t)'
    BY <1>2 DEF Asked
<1>4. Refused(t) => Refused(t)'
    BY <1>1 DEF Refused, Kept
<1>5. LetIn(c, t) => LetIn(c, t)'
    BY DEF LetIn
<1>6. Granted(c, t) => Granted(c, t)'
    BY <1>5 DEF Granted, Kept
<1>7. QED
    BY <1>2, <1>3, <1>4, <1>5, <1>6 DEF Talk

\* What a handler of connection k has to show of its own connection; the others go on
\* as they were.
LEMMA HandlerDInv ==
    ASSUME IInv, DInv, NEW k \in Conns, con[k] # NoCon,
           \A t \in Conns : t # k => con'[t] = con[t] /\ toServer'[t] = toServer[t] /\ Kept(t),
           k > opened => toServer'[k] = << >> /\ toClient'[k] = << >>,
           events' = events \ {k}, ready' \subseteq Known, con'[k] = NoCon => k \notin ready',
           UNCHANGED <<base, accepted, stale, opened, fin, clientVars>>,
           ~Haunted(k) => InOrder(k)',
           \A c \in Clients : ~Haunted(k) /\ pc[c] # "off" /\ conn[c] = k => Talk(c, k)'
    PROVE  DInv'
<1>1. /\ UNCHANGED <<base, accepted, opened, fin, pc, conn, user>>
      /\ \A t \in Conns : Haunted(t)' <=> Haunted(t)
    BY HauntedAsBefore DEF clientVars
<1>2. \A t \in Conns : t > opened => t > accepted
    BY Counters, Sizes
<1>3. ASSUME NEW t \in Conns, t # k
      PROVE  /\ Fresh(t)' <=> Fresh(t)
             /\ \A st : Is(t, st)' <=> Is(t, st)
    BY <1>1, <1>3 DEF Fresh, Is
<1>4. Unused'
    BY <1>1, <1>2 DEF DInv, Unused, Kept
<1>5. OwnConnection'
    BY <1>1 DEF DInv, OwnConnection
<1>6. Watched'
    <2>1. ASSUME NEW t \in Known, t # k
          PROVE  t \in Known'
        BY <2>1 DEF Known
    <2>2. k \in ready' => k \in Known'
        BY DEF Known
    <2>3. ready' \subseteq Known'
        BY <2>1, <2>2
    <2>4. ASSUME NEW t \in events' \ {0}
          PROVE  t \in Known' /\ Readable(t)'
        <3>1. t \in Known /\ Readable(t) /\ t # k
            BY DEF DInv, Watched
        <3>2. Readable(t)'
            BY <1>1, <3>1 DEF Readable, Known
        <3>3. QED
            BY <2>1, <3>1, <3>2
    <2>5. QED
        BY <2>3, <2>4 DEF Watched
<1>7. ASSUME NEW t \in Conns, ~Haunted(t)
      PROVE  InOrder(t)'
    <2>1. CASE t = k
        BY <1>7, <2>1
    <2>2. CASE t # k
        <3>1. InOrder(t)
            BY <1>7 DEF DInv, Conversations
        <3>2. QED
            BY <1>3, <2>2, <3>1 DEF InOrder
    <2>3. QED
        BY <2>1, <2>2
<1>8. ASSUME NEW c \in Clients, pc[c] # "off", Alive(conn[c]), ~Haunted(conn[c])
      PROVE  Talk(c, conn[c])'
    <2>1. PICK t \in Conns : conn[c] = t /\ conn'[c] = t /\ Talk(c, t)
        BY <1>1, <1>8 DEF DInv, Conversations, IInv, ClientsLetIn
    <2>2. CASE t = k
        BY <1>1, <1>8, <2>1, <2>2
    <2>3. CASE t # k
        <3>1. /\ Fresh(t)' <=> Fresh(t)
              /\ Is(t, "AUTHENTICATED")' <=> Is(t, "AUTHENTICATED")
            BY <1>3, <2>3
        <3>2. Talk(c, t)'
            BY <1>1, <1>8, <2>1, <2>3, <3>1, BystanderTalks
        <3>3. QED
            BY <2>1, <3>2
    <2>4. QED
        BY <2>2, <2>3
<1>9. \A c \in Clients : pc[c] # "off" => conn[c] \in Conns
    BY DEF IInv, ClientsLetIn
<1>10. Conversations'
    BY <1>1, <1>7, <1>8, <1>9 DEF Conversations, Alive
<1>11. QED
    BY <1>4, <1>5, <1>6, <1>10 DEF DInv

\* The client of a connection that a handler finds at its end is gone.
LEMMA NobodyThere ==
    ASSUME IInv, DInv, NEW k \in Conns, k \in events, toServer[k] = << >>,
           NEW c \in Clients, pc[c] # "off"
    PROVE  conn[c] # k
<1>1. 0 \notin Conns
    BY Sizes
<1>2. fin[k]
    BY <1>1 DEF DInv, Watched, Readable
<1>3. QED
    BY <1>2 DEF DInv, OwnConnection

\* A connection in con_list is one of the running server, and was opened.
LEMMA InConList ==
    ASSUME IInv, NEW k \in Conns, con[k] # NoCon
    PROVE  Alive(k) /\ ~(k > accepted) /\ ~(k > opened)
    BY Counters, Sizes DEF IInv, Accepted, Alive

LEMMA RequestGoneDInv ==
    ASSUME IInv, DInv, NEW k \in Conns, RequestGone(k), UNCHANGED clientVars
    PROVE  DInv'
<1>1. /\ con[k] # NoCon /\ con' = [con EXCEPT ![k] = NoCon] /\ k \in events
      /\ toServer[k] = << >> /\ events' = events \ {k} /\ ready' = ready \ {k}
      /\ UNCHANGED <<base, accepted, stale, opened, toServer, toClient, fin>>
    BY DEF RequestGone, DelFromEpoll, processVars, historyVars
<1>2. con'[k] = NoCon /\ \A t \in Conns : t # k => con'[t] = con[t]
    BY <1>1 DEF IInv, TypeOK, ServerTypeOK
<1>3. \A t \in Conns : Kept(t)
    BY <1>1 DEF Kept
<1>4. InOrder(k)'
    BY <1>1, <1>2, InConList DEF InOrder, Fresh, Is
<1>5. ready' \subseteq Known
    BY <1>1 DEF DInv, Watched
<1>6. QED
    BY <1>1, <1>2, <1>3, <1>4, <1>5, InConList, NobodyThere, HandlerDInv

\* What is sent to the others in one handler.
Apart(out, k) ==
    \A t \in Conns : t # k =>
        /\ out[t] \in Seq(Answers)
        /\ t > accepted => out[t] = << >>
        /\ ~Haunted(t) /\ Fresh(t) => out[t] = << >>

LEMMA NotifyApart ==
    ASSUME IInv, NEW k
    PROVE  Apart(Notify(k), k)
    BY NotifyReaches, NoTextForFresh DEF Apart

LEMMA RespondApart ==
    ASSUME NEW k, NEW res
    PROVE  Apart(Respond(k, res), k)
<1>1. << >> \in Seq(Answers)
    OBVIOUS
<1>2. QED
    BY <1>1 DEF Apart, Respond

LEMMA ThenApart ==
    ASSUME NEW k, NEW out1, NEW out2, Apart(out1, k), Apart(out2, k)
    PROVE  Apart(Then(out1, out2), k)
<1>1. << >> \o << >> = << >>
    OBVIOUS
<1>2. ASSUME NEW t \in Conns, t # k
      PROVE  Then(out1, out2)[t] = out1[t] \o out2[t]
    BY DEF Then
<1>3. ASSUME NEW t \in Conns, t # k
      PROVE  out1[t] \o out2[t] \in Seq(Answers)
    BY <1>3, ConcatProperties DEF Apart
<1>4. QED
    BY <1>1, <1>2, <1>3 DEF Apart

LEMMA TransmitKeepsOthers ==
    ASSUME IInv, NEW k, NEW out, Apart(out, k), Transmit(out), NEW t \in Conns, t # k
    PROVE  Kept(t)
    BY DeliverKeeps DEF Apart, Transmit

\* A send adds no edge on a connection that epoll does not watch.
LEMMA EdgesWatched ==
    ASSUME DInv, NEW out
    PROVE  Edges(out) \subseteq Known
    BY DEF DInv, Watched, Edges, Known

\* A handler that leaves its connection k without a fresh client: it has ended, or it
\* is past the login and in order.
LEMMA SessionDInv ==
    ASSUME IInv, DInv, NEW k \in Conns, Session(k), NEW v \in Connection \cup {NoCon},
           con' = [con EXCEPT ![k] = v],
           NEW rest, toServer' = [toServer EXCEPT ![k] = rest],
           v # NoCon => v.state = "ONLINE" /\ (~Haunted(k) => rest \in Seq(Lines)),
           NEW out, Apart(out, k), Transmit(out), events' = events \ {k},
           ready' = IF v = NoCon THEN Edges(out) \ {k} ELSE Edges(out),
           UNCHANGED <<base, accepted, stale, opened, fin, clientVars>>,
           \A c \in Clients : ~Haunted(k) /\ pc[c] # "off" /\ conn[c] = k =>
                                  pc[c] \in {"awaitOpt", "online"}
    PROVE  DInv'
<1>1. con'[k] = v /\ toServer'[k] = rest
    BY DEF IInv, TypeOK, ServerTypeOK
<1>2. \A t \in Conns : t # k => con'[t] = con[t] /\ toServer'[t] = toServer[t] /\ Kept(t)
    BY TransmitKeepsOthers DEF IInv, TypeOK, ServerTypeOK
<1>3. con[k] # NoCon
    BY DEF Session
<1>4. ~Fresh(k)' /\ ~Is(k, "AUTHENTICATED")'
    BY <1>1, <1>3, InConList DEF Fresh, Is
<1>5. ~Haunted(k) => InOrder(k)'
    BY <1>1, <1>4 DEF InOrder, Is
<1>6. ASSUME NEW c \in Clients, pc[c] \in {"awaitOpt", "online"}
      PROVE  Talk(c, k)'
    BY <1>4, <1>6 DEF Talk, clientVars
<1>7. ready' \subseteq Known /\ (con'[k] = NoCon => k \notin ready')
    BY <1>1, EdgesWatched
<1>8. QED
    BY <1>2, <1>3, <1>5, <1>6, <1>7, InConList, HandlerDInv

\* A client of a connection that has something to read and is past its login waits for
\* the answer to its option, or chats.
LEMMA PastLogin ==
    ASSUME IInv, DInv, NEW k \in Conns, ~Haunted(k), Session(k),
           toServer[k] # << >> \/ con[k].state = "ONLINE",
           NEW c \in Clients, pc[c] # "off", conn[c] = k
    PROVE  pc[c] \in {"awaitOpt", "online"}
<1>1. Talk(c, k)
    BY InConList DEF Session, DInv, Conversations
<1>2. ~Fresh(k)
    BY InConList DEF Session, Fresh
<1>3. LetIn(c, k) => con[k].state = "AUTHENTICATED" /\ toServer[k] = << >>
    BY DEF LetIn
<1>4. pc[c] \in {"off", "menu", "awaitRes", "options", "awaitOpt", "online"}
    BY ClientTypes
<1>5. QED
    BY <1>1, <1>2, <1>3, <1>4 DEF Talk, Asked, Refused, Granted

LEMMA AuthenticatedLeavesDInv ==
    ASSUME IInv, DInv, NEW k \in Conns, AuthenticatedLeaves(k), UNCHANGED clientVars
    PROVE  DInv'
<1>1. /\ k \in events /\ Session(k) /\ con' = [con EXCEPT ![k] = NoCon]
      /\ Transmit(Notify(k)) /\ events' = events \ {k} /\ ready' = Edges(Notify(k)) \ {k}
      /\ UNCHANGED <<base, accepted, stale, opened, fin>>
    BY DEF AuthenticatedLeaves, Session, DelFromEpoll, processVars, historyVars
<1>2. PICK rest : toServer' = [toServer EXCEPT ![k] = rest]
    <2>1. toServer = [toServer EXCEPT ![k] = toServer[k]]
        BY DEF IInv, TypeOK, ServerTypeOK
    <2>2. QED
        BY <2>1 DEF AuthenticatedLeaves
<1>3. \A c \in Clients : ~Haunted(k) /\ pc[c] # "off" /\ conn[c] = k =>
                             pc[c] \in {"awaitOpt", "online"}
    BY <1>1, NobodyThere, PastLogin
<1>4. QED
    BY <1>1, <1>2, <1>3, NotifyApart, SessionDInv

\* Behind an option there are chat lines, one of which may have lost its beginning.
LEMMA AfterOptionLines ==
    ASSUME NEW s, s # << >>, Tail(s) \in Seq(Lines), s \in Seq(Units),
           Head(s).kind # "request", NEW rest \in AfterOption(s)
    PROVE  rest \in Seq(Lines)
<1> DEFINE cut == << [kind |-> "cut"] >>
           Behind(n) == SubSeq(s, n + 2, Len(s))
           lines == {n \in 1..3 : n < Len(s)}
<1>1. Len(s) \in Nat /\ Len(s) >= 1
    BY LenProperties, EmptySeq
<1>2. ASSUME NEW n \in 1..3
      PROVE  Behind(n) \in Seq(Lines)
    <2>1. Len(Tail(s)) = Len(s) - 1 /\ \A i \in 1 .. Len(Tail(s)) : Tail(s)[i] = s[i + 1]
        BY HeadTailProperties
    <2>2. \A j \in 1 .. Len(Tail(s)) : Tail(s)[j] \in Lines
        BY ElementOfSeq
    <2>3. \A i \in n + 2 .. Len(s) : i - 1 \in 1 .. Len(Tail(s)) /\ Tail(s)[i - 1] = s[i]
        BY <1>1, <1>2, <2>1
    <2>4. \A i \in n + 2 .. Len(s) : s[i] \in Lines
        BY <2>2, <2>3
    <2>5. n + 2 \in Nat \ {0}
        BY <1>2
    <2>6. QED
        BY <1>1, <2>4, <2>5, SubSeqProperties
<1>3. cut \in Seq(Lines) /\ << >> \in Seq(Lines)
    BY DEF Lines
<1>4. \A n \in lines : n \in 1..3
    OBVIOUS
<1>5. rest = << >> \/ rest \in {Behind(n) : n \in lines} \cup {cut \o Behind(n) : n \in lines}
    BY DEF AfterOption
<1> HIDE DEF cut, Behind, lines
<1>6. \A n \in 1..3 : cut \o Behind(n) \in Seq(Lines)
    BY <1>2, <1>3, ConcatProperties
<1>7. QED
    BY <1>2, <1>3, <1>4, <1>5, <1>6

LEMMA HandleOptionDInv ==
    ASSUME IInv, DInv, NEW k \in Conns, HandleOption(k), UNCHANGED clientVars
    PROVE  DInv'
<1> DEFINE v == [con[k] EXCEPT !.state = "ONLINE"]
           out == Then(Respond(k, "SUCCESS"), Notify(k))
<1>1. /\ k \in events /\ Session(k) /\ con[k].state = "AUTHENTICATED" /\ toServer[k] # << >>
      /\ con' = [con EXCEPT ![k].state = "ONLINE"]
      /\ Transmit(out) /\ events' = events \ {k} /\ ready' = Edges(out)
      /\ UNCHANGED <<base, accepted, stale, opened, fin>>
    BY DEF HandleOption, Session, processVars, historyVars
<1>2. con[k] \in Connection /\ toServer[k] \in Seq(Units)
    BY <1>1 DEF IInv, TypeOK, ServerTypeOK, Session
<1>3. v \in Connection /\ v.state = "ONLINE" /\ v # NoCon
    <2>1. v \in Connection /\ v.state = "ONLINE"
        BY <1>2 DEF Connection
    <2>2. QED
        BY <2>1, ChatAssumption DEF ChatAssumption
<1>4. con' = [con EXCEPT ![k] = v]
    BY <1>1 DEF IInv, TypeOK, ServerTypeOK
<1>5. Apart(out, k)
    BY NotifyApart, RespondApart, ThenApart
<1>6. PICK rest \in AfterOption(toServer[k]) : toServer' = [toServer EXCEPT ![k] = rest]
    BY DEF HandleOption
<1>7. ASSUME ~Haunted(k)
      PROVE  rest \in Seq(Lines)
    <2>1. InOrder(k)
        BY <1>7 DEF DInv, Conversations
    <2>2. Tail(toServer[k]) \in Seq(Lines) /\ Head(toServer[k]).kind # "request"
        BY <1>1, <2>1 DEF InOrder, Is, Session, Choices
    <2>3. QED
        BY <1>1, <1>2, <2>2, AfterOptionLines
<1>8. \A c \in Clients : ~Haunted(k) /\ pc[c] # "off" /\ conn[c] = k =>
                             pc[c] \in {"awaitOpt", "online"}
    BY <1>1, PastLogin
<1> HIDE DEF v, out
<1>9. QED
    BY <1>1, <1>3, <1>4, <1>5, <1>6, <1>7, <1>8, SessionDInv

\* The branches of OnlineLeaves and HandleChat that are not cut short.
LEMMA OnlineLeavesDInv ==
    ASSUME IInv, DInv, NEW k \in Conns, con[k] # NoCon, con[k].state = "ONLINE",
           Transmit(Notify(k)), DelFromEpoll(k, Edges(Notify(k))), events' = events \ {k},
           UNCHANGED <<base, accepted, stale, opened, toServer, fin, clientVars>>
    PROVE  DInv'
<1>1. toServer' = [toServer EXCEPT ![k] = toServer[k]]
    BY DEF IInv, TypeOK, ServerTypeOK
<1>2. Session(k) /\ con' = [con EXCEPT ![k] = NoCon] /\ ready' = Edges(Notify(k)) \ {k}
    BY DEF Session, DelFromEpoll
<1>3. QED
    BY <1>1, <1>2, PastLogin, NotifyApart, SessionDInv

LEMMA HandleChatDInv ==
    ASSUME IInv, DInv, NEW k \in Conns, con[k] # NoCon, con[k].state = "ONLINE",
           Transmit(Notify(k)), toServer' = [toServer EXCEPT ![k] = << >>],
           events' = events \ {k}, ready' = Edges(Notify(k)),
           UNCHANGED <<base, accepted, stale, con, opened, fin, clientVars>>
    PROVE  DInv'
<1>1. con' = [con EXCEPT ![k] = con[k]] /\ con[k] \in Connection
    BY DEF IInv, TypeOK, ServerTypeOK
<1>2. << >> \in Seq(Lines) /\ Session(k)
    BY DEF Session
<1>3. QED
    BY <1>1, <1>2, PastLogin, NotifyApart, SessionDInv

\* The request is answered with what follows from the table, and whoever is let in is
\* let in under the name it asked for (socket_server.cpp:158-173).
LEMMA HandleRequestDInv ==
    ASSUME IInv, DInv, NEW k \in Conns, con[k] # NoCon,
           con[k].state = "REQUEST", toServer[k] # << >>, NEW req, req = Head(toServer[k]),
           NEW res, Answered(k, req, res),
           Transmit(Respond(k, res)), events' = events \ {k}, ready' = Edges(Respond(k, res)),
           toServer' = [toServer EXCEPT ![k] = Tail(@)],
           UNCHANGED <<base, accepted, stale, opened, fin, clientVars>>
    PROVE  DInv'
<1> DEFINE v == [name |-> req.name,
                 state |-> IF res = "SUCCESS" THEN "AUTHENTICATED" ELSE "REQUEST"]
           answer == IF res = "SUCCESS" THEN "SUCCESS" ELSE "REFUSED"
<1>1. con'[k] = v /\ toServer'[k] = Tail(toServer[k])
    BY DEF Answered, IInv, TypeOK, ServerTypeOK
<1>2. \A t \in Conns : t # k => con'[t] = con[t] /\ toServer'[t] = toServer[t] /\ Kept(t)
    BY RespondApart, TransmitKeepsOthers DEF Answered, IInv, TypeOK, ServerTypeOK
<1>3. req \in Requests /\ toServer[k] \in Seq(Requests) /\ req.name \in Users
    BY HeadIsRequest DEF IInv, BeforeLogin, Fresh, Requests
<1>4. /\ v \in Connection /\ v # NoCon /\ v.name = req.name
      /\ res = "SUCCESS" => v = [name |-> req.name, state |-> "AUTHENTICATED"]
      /\ res = "SUCCESS" => v.state = "AUTHENTICATED"
      /\ res # "SUCCESS" => v.state = "REQUEST"
    <2>1. v \in Connection
        BY <1>3 DEF Connection
    <2>2. QED
        BY <2>1, ChatAssumption DEF ChatAssumption
<1> HIDE DEF v
<1>5. ~Haunted(k) => toServer'[k] = << >>
    <2>1. SUFFICES ASSUME ~Haunted(k)
                   PROVE  Tail(toServer[k]) = << >>
        BY <1>1
    <2>2. Len(toServer[k]) <= 1
        BY <2>1 DEF DInv, Conversations, InOrder, Fresh
    <2>3. Tail(toServer[k]) \in Seq(Requests) /\ Len(Tail(toServer[k])) = Len(toServer[k]) - 1
        BY <1>3, HeadTailProperties
    <2>4. Len(toServer[k]) \in Nat /\ Len(Tail(toServer[k])) \in Nat
        BY <1>3, <2>3, LenProperties
    <2>5. QED
        BY <2>2, <2>3, <2>4, EmptySeq
<1>6. Fresh(k)' <=> res # "SUCCESS"
    BY <1>1, <1>4, InConList DEF Fresh
<1>7. ~Haunted(k) => InOrder(k)'
    <2>1. Len(<< >>) <= 1
        OBVIOUS
    <2>2. QED
        BY <1>1, <1>4, <1>5, <2>1 DEF InOrder, Is
<1>8. ASSUME ~Haunted(k), NEW c \in Clients, pc[c] # "off", conn[c] = k
      PROVE  Talk(c, k)'
    <2>1. Talk(c, k)
        BY <1>8, InConList DEF DInv, Conversations
    <2>2. Fresh(k)
        BY DEF Fresh
    <2>3. ~LetIn(c, k)
        BY DEF LetIn
    <2>4. pc[c] = "awaitRes" /\ Asked(c, k)
        <3>1. pc[c] \notin {"options", "awaitOpt", "online"}
            BY <1>8, <2>2 DEF IInv, ClientsLetIn
        <3>2. pc[c] \in {"off", "menu", "awaitRes", "options", "awaitOpt", "online"}
            BY ClientTypes
        <3>3. QED
            BY <1>8, <2>1, <2>3, <3>1, <3>2 DEF Talk, Refused, Granted
    <2>5. ~fin[k]
        BY <1>8 DEF DInv, OwnConnection
    <2>6. toClient'[k] = << answer >>
        <3>1. toClient'[k] = UpTo(MaxOut, << >> \o << answer >>)
            BY <2>4, <2>5 DEF Transmit, Deliver, Respond, Asked
        <3> HIDE DEF answer
        <3>2. << >> \o << answer >> = << answer >> /\ << answer >> \o << >> = << answer >>
              /\ << answer >> \in Seq({answer}) /\ Len(<< answer >>) <= 1
            OBVIOUS
        <3>3. QED
            BY <3>1, <3>2, EmptyOrOne
    <2>7. pc'[c] = "awaitRes" /\ user'[c] = user[c] /\ req.name = user[c]
        BY <2>4 DEF Asked, clientVars
    <2>8. CASE res = "SUCCESS"
        <3>1. << answer >> # << >> /\ Head(<< answer >>) = "SUCCESS"
            BY <2>8
        <3>2. Granted(c, k)'
            BY <1>1, <1>4, <1>5, <1>8, <2>6, <2>7, <2>8, <3>1 DEF Granted, LetIn
        <3>3. QED
            BY <2>7, <3>2 DEF Talk
    <2>9. CASE res # "SUCCESS"
        <3>1. Refused(k)'
            BY <1>5, <1>6, <1>8, <2>6, <2>9 DEF Refused
        <3>2. QED
            BY <2>7, <3>1 DEF Talk
    <2>10. QED
        BY <2>8, <2>9
<1>9. ready' \subseteq Known /\ con'[k] # NoCon
    BY <1>1, <1>4, EdgesWatched
<1>10. QED
    BY <1>2, <1>7, <1>8, <1>9, InConList, HandlerDInv

-----------------------------------------------------------------------------
(* The end of the process, and the steps of the server *)

\* All connections are behind the end of a process, and no conversation goes on.
LEMMA EndDInv ==
    ASSUME IInv, DInv, End, UNCHANGED clientVars,
           \A t \in Conns : t > opened => toClient'[t] = << >>
    PROVE  DInv'
<1>1. /\ base' = opened /\ accepted' = opened /\ opened' = opened /\ fin' = fin
      /\ con' = [k \in Conns |-> NoCon] /\ events' = {} /\ ready' = {}
      /\ toServer' = [k \in Conns |-> << >>]
    BY DEF End
<1>2. UNCHANGED <<pc, conn, user>>
    BY DEF clientVars
<1>3. Unused' /\ OwnConnection' /\ Watched'
    BY <1>1, <1>2 DEF DInv, Unused, OwnConnection, Watched
<1>4. \A k \in Conns : InOrder(k)'
    <2>1. Len(<< >>) <= 1
        OBVIOUS
    <2>2. QED
        BY <1>1, <2>1 DEF InOrder, Is
<1>5. ASSUME NEW c \in Clients, pc[c] # "off"
      PROVE  ~Alive(conn[c])'
    <2>1. conn[c] <= opened /\ conn[c] \in Nat /\ opened \in Nat
        BY <1>5, Counters, Sizes DEF DInv, OwnConnection, IInv, ClientsLetIn
    <2>2. QED
        BY <1>1, <1>2, <2>1 DEF Alive
<1>6. Conversations'
    BY <1>2, <1>4, <1>5 DEF Conversations
<1>7. QED
    BY <1>3, <1>6 DEF DInv

LEMMA NotOpenedNotAccepted ==
    ASSUME IInv
    PROVE  \A t \in Conns : t > opened => t > accepted
    BY Counters, Sizes

LEMMA BrokenDInv ==
    ASSUME IInv, DInv, NEW out, NEW table, Broken(out, table), UNCHANGED clientVars,
           \A t \in Conns : t > accepted => out[t] = << >>
    PROVE  DInv'
<1>1. PICK done \in SUBSET {t \in Conns : out[t] # << >>} : toClient' = Deliver(out, done)
    BY DEF Broken
<1>2. \A t \in Conns : t > opened => toClient'[t] = << >>
    <2>1. \A t \in Conns : t > opened => t > accepted
        BY NotOpenedNotAccepted
    <2>2. QED
        BY <1>1, <2>1 DEF Deliver, DInv, Unused
<1>3. QED
    BY <1>2, EndDInv DEF Broken

LEMMA NothingHappens ==
    ASSUME IInv, DInv, UNCHANGED <<base, accepted, stale, con, events, opened, ready,
                                   toServer, toClient, fin, pc, conn, user>>
    PROVE  DInv'
<1>1. Unused' /\ OwnConnection' /\ Watched'
    BY DEF DInv, Unused, OwnConnection, Watched, Known, Readable
<1>2. \A t \in Conns : InOrder(t)' <=> InOrder(t)
    BY DEF InOrder, Fresh, Is
<1>3. \A c \in Clients, t \in Conns : Talk(c, t)' <=> Talk(c, t)
    BY DEF Talk, Asked, Refused, Granted, LetIn, Fresh, Is
<1>4. Conversations'
    BY <1>2, <1>3, HauntedAsBefore DEF DInv, Conversations, Alive, IInv, ClientsLetIn
<1>5. QED
    BY <1>1, <1>4 DEF DInv

LEMMA ProcessDInv ==
    ASSUME IInv, DInv, ProcessStep, UNCHANGED clientVars
    PROVE  DInv'
<1>1. CASE Kill \/ Shutdown
    <2>1. End /\ UNCHANGED toClient
        BY <1>1 DEF Kill, Shutdown
    <2>2. QED
        BY <2>1, EndDInv DEF DInv, Unused
<1>2. CASE Restart
    <2>1. UNCHANGED <<base, accepted, stale, con, events, opened, ready, toServer, toClient,
                      fin, pc, conn, user>>
        BY <1>2 DEF Restart, historyVars, socketVars, clientVars
    <2>2. QED
        BY <2>1, NothingHappens
<1>3. QED
    BY <1>1, <1>2 DEF ProcessStep

LEMMA HandleDInv ==
    ASSUME IInv, DInv, NEW k \in Conns, Handle(k), UNCHANGED clientVars
    PROVE  DInv'
<1>1. CASE HandleRequest(k)
    <2> DEFINE req == Head(toServer[k])
    <2>1. con[k] # NoCon /\ con[k].state = "REQUEST" /\ toServer[k] # << >>
        BY <1>1 DEF HandleRequest
    <2>2. PICK res \in CheckUserInfo(req) :
            \/ /\ Answered(k, req, res)
               /\ Transmit(Respond(k, res))
               /\ ready' = Edges(Respond(k, res))
               /\ events' = events \ {k}
               /\ toServer' = [toServer EXCEPT ![k] = Tail(@)]
               /\ UNCHANGED <<base, accepted, stale, opened, fin>>
            \/ Broken(Respond(k, res), Recorded(req, res, k))
        BY <1>1 DEF HandleRequest
    <2> HIDE DEF req
    <2>3. CASE Broken(Respond(k, res), Recorded(req, res, k))
        BY <2>1, <2>3, RespondReaches, BrokenDInv
    <2>4. CASE ~Broken(Respond(k, res), Recorded(req, res, k))
        BY <2>1, <2>2, <2>4, HandleRequestDInv DEF req
    <2>5. QED
        BY <2>3, <2>4
<1>2. CASE AuthenticatedBreaks(k)
    <2>1. con[k] # NoCon
        BY <1>2 DEF AuthenticatedBreaks
    <2>2. CASE Broken(Notify(k), db)
        BY <2>2, NotifyReaches, BrokenDInv
    <2>3. CASE Broken(Then(Respond(k, "SUCCESS"), Notify(k)), db)
        <3>1. ASSUME NEW t \in Conns, t > accepted
              PROVE  Then(Respond(k, "SUCCESS"), Notify(k))[t] = << >>
            BY <2>1, <3>1, RespondReaches, NotifyReaches, ThenReaches
        <3>2. QED
            BY <2>3, <3>1, BrokenDInv
    <2>4. QED
        BY <1>2, <2>2, <2>3 DEF AuthenticatedBreaks
<1>3. CASE OnlineLeaves(k)
    <2>1. CASE Broken(Notify(k), Departed(con[k].name))
        BY <2>1, NotifyReaches, BrokenDInv
    <2>2. CASE ~Broken(Notify(k), Departed(con[k].name))
        BY <1>3, <2>2, OnlineLeavesDInv DEF OnlineLeaves, processVars, historyVars
    <2>3. QED
        BY <2>1, <2>2
<1>4. CASE HandleChat(k)
    <2>1. CASE Broken(Notify(k), db)
        BY <2>1, NotifyReaches, BrokenDInv
    <2>2. CASE ~Broken(Notify(k), db)
        BY <1>4, <2>2, HandleChatDInv DEF HandleChat, processVars, historyVars
    <2>3. QED
        BY <2>1, <2>2
<1>5. QED
    BY <1>1, <1>2, <1>3, <1>4, RequestGoneDInv, AuthenticatedLeavesDInv, HandleOptionDInv
       DEF Handle

\* What a step that leaves all conversations alone has to keep.
LEMMA AsBefore ==
    ASSUME IInv, DInv, UNCHANGED <<base, stale, opened, toServer, toClient, fin, clientVars>>,
           \A t \in Conns : /\ Fresh(t)' <=> Fresh(t)
                            /\ con'[t] # con[t] => con[t] = NoCon /\ con'[t].state = "REQUEST",
           Watched'
    PROVE  DInv'
<1>1. \A t \in Conns : \A st \in {"AUTHENTICATED", "ONLINE"} : Is(t, st)' => Is(t, st)
    BY DEF Is
<1>2. Unused' /\ OwnConnection'
    BY DEF DInv, Unused, OwnConnection, clientVars
<1>3. \A t \in Conns : InOrder(t) => InOrder(t)'
    BY <1>1 DEF InOrder
<1>4. ASSUME NEW c \in Clients, NEW t \in Conns, Talk(c, t)
      PROVE  Talk(c, t)'
    <2>1. UNCHANGED <<pc, user>>
        BY DEF clientVars
    <2>2. Asked(c, t) => Asked(c, t)'
        BY <2>1 DEF Asked
    <2>3. Refused(t) => Refused(t)'
        BY DEF Refused
    <2>4. LetIn(c, t) => LetIn(c, t)'
        <3>1. LetIn(c, t) => con[t] # NoCon
            <4>1. user[c] \in Users \cup {""}
                BY ClientTypes
            <4>2. [name |-> user[c], state |-> "AUTHENTICATED"] \in Connection
                BY <4>1 DEF Connection
            <4>3. QED
                BY <4>2, ChatAssumption DEF ChatAssumption, LetIn
        <3>2. QED
            BY <2>1, <3>1 DEF LetIn
    <2>5. QED
        BY <1>1, <1>4, <2>1, <2>2, <2>3, <2>4 DEF Talk, Granted
<1>5. ASSUME NEW c \in Clients, pc[c] # "off"
      PROVE  conn[c] \in Conns
    BY <1>5 DEF IInv, ClientsLetIn
<1>6. Conversations'
    BY <1>3, <1>4, <1>5, HauntedAsBefore DEF DInv, Conversations, Alive, clientVars
<1>7. QED
    BY <1>2, <1>6 DEF DInv

LEMMA EpollWaitDInv ==
    ASSUME IInv, DInv, EpollWait, UNCHANGED clientVars
    PROVE  DInv'
<1>1. /\ events' = {k \in ready : Readable(k)} \cup (IF accepted < opened THEN {0} ELSE {})
      /\ ready' = {}
      /\ UNCHANGED <<base, accepted, stale, con, opened, toServer, toClient, fin>>
    BY DEF EpollWait, processVars, historyVars
<1>2. Watched'
    BY <1>1 DEF DInv, Watched, Readable, Known
<1>3. \A t \in Conns : Fresh(t)' <=> Fresh(t)
    BY <1>1 DEF Fresh
<1>4. QED
    BY <1>1, <1>2, <1>3, AsBefore

LEMMA HandleAcceptDInv ==
    ASSUME IInv, DInv, HandleAccept, UNCHANGED clientVars
    PROVE  DInv'
<1> DEFINE k == accepted + 1
           v == [name |-> "", state |-> "REQUEST"]
<1>1. /\ 0 \in events /\ events' = events \ {0} /\ accepted' = k
      /\ con' = [con EXCEPT ![k] = v] /\ ready' \subseteq ready \cup {k}
      /\ UNCHANGED <<base, stale, opened, toServer, toClient, fin>>
    BY DEF HandleAccept, historyVars
<1>2. /\ k > accepted /\ \A t \in Conns : t # k => (t > k <=> t > accepted)
      /\ ~(k > k) /\ k \in Nat
    BY Counters, Sizes
<1>3. v.state = "REQUEST" /\ v # NoCon
    <2>1. v \in Connection
        BY DEF Connection
    <2>2. QED
        BY <2>1, ChatAssumption DEF ChatAssumption
<1>4. k \in Conns => con[k] = NoCon
    BY <1>2, InConList
<1> HIDE DEF k, v
<1>5. \A t \in Conns : con'[t] = IF t = k THEN v ELSE con[t]
    BY <1>1 DEF IInv, TypeOK, ServerTypeOK
<1>6. Watched'
    <2>1. k \in Conns
        BY <1>1, Counters, Sizes DEF IInv, Accepted, Conns, k
    <2>2. \A t \in Known \cup {k} : t \in Known'
        BY <1>3, <1>5, <2>1 DEF Known
    <2>3. ready' \subseteq Known'
        BY <1>1, <2>2 DEF DInv, Watched
    <2>4. \A t \in events' \ {0} : t \in Known /\ Readable(t)
        BY <1>1 DEF DInv, Watched
    <2>5. \A t \in events' \ {0} : t \in Known' /\ Readable(t)'
        BY <1>1, <2>2, <2>4 DEF Readable
    <2>6. QED
        BY <2>3, <2>5 DEF Watched
<1>7. \A t \in Conns : Fresh(t)' <=> Fresh(t)
    BY <1>1, <1>2, <1>3, <1>5 DEF Fresh
<1>8. QED
    BY <1>1, <1>3, <1>4, <1>5, <1>6, <1>7, AsBefore

-----------------------------------------------------------------------------
(* The steps of the clients *)

\* Client c uses connection k alone, and touches no other.
Alone(c, k) ==
    /\ \A d \in Clients : d # c => user'[d] = user[d] /\ (pc[d] # "off" => conn[d] # k)
    /\ \A t \in Conns : t # k => /\ toServer'[t] = toServer[t]
                                 /\ toClient'[t] = toClient[t]
                                 /\ fin'[t] = fin[t]

\* What client c has to show of the connection k it uses.
LEMMA ClientDInv ==
    ASSUME IInv, DInv, UNCHANGED serverVars, NEW c \in Clients, NEW k \in Conns, NEW to,
           pc' = [pc EXCEPT ![c] = to], NEW n, conn' = [conn EXCEPT ![c] = n],
           Alone(c, k), opened' = opened \/ opened' = opened + 1, k <= opened',
           to # "off" => n = k /\ ~fin'[k],
           ready' \subseteq Known, Readable(k) => Readable(k)',
           ~Haunted(k) => InOrder(k)',
           ~Haunted(k) /\ to # "off" /\ Alive(k) => Talk(c, k)'
    PROVE  DInv'
<1>1. /\ UNCHANGED <<base, accepted, stale, con, events>>
      /\ \A t \in Conns : Haunted(t)' <=> Haunted(t)
    BY HauntedAsBefore DEF serverVars, processVars, historyVars
<1>2. \A t \in Conns : /\ Fresh(t)' <=> Fresh(t)
                       /\ \A st : Is(t, st)' <=> Is(t, st)
                       /\ Alive(t)' <=> Alive(t)
    BY <1>1 DEF Fresh, Is, Alive
<1>3. /\ pc'[c] = to /\ conn'[c] = n
      /\ \A d \in Clients : d # c => pc'[d] = pc[d] /\ conn'[d] = conn[d]
    BY ClientTypes
<1>4. opened \in Nat /\ \A t \in Conns : (t > opened' => t > opened) /\ (t <= opened => t <= opened')
      /\ ~(k > opened')
    BY Counters, Sizes
<1>5. Unused'
    BY <1>4 DEF DInv, Unused, Alone
<1>6. OwnConnection'
    <2>1. ASSUME NEW d \in Clients, d # c, pc[d] # "off"
          PROVE  conn[d] \in Conns /\ conn[d] <= opened /\ conn[d] # k /\ ~fin[conn[d]]
        BY <2>1 DEF DInv, OwnConnection, IInv, ClientsLetIn, Alone
    <2>2. QED
        BY <1>3, <1>4, <2>1 DEF DInv, OwnConnection, Alone
<1>7. Watched'
    <2>1. ASSUME NEW t \in events \ {0}
          PROVE  t \in Known /\ Readable(t)'
        <3>1. t \in Known /\ t \in Conns /\ Readable(t)
            BY DEF DInv, Watched, Known
        <3>2. CASE t # k
            BY <3>1, <3>2 DEF Readable, Alone
        <3>3. QED
            BY <3>1, <3>2
    <2>2. Known' = Known
        BY <1>1 DEF Known
    <2>3. QED
        BY <1>1, <2>1, <2>2 DEF Watched
<1>8. \A t \in Conns : ~Haunted(t) => InOrder(t)'
    BY <1>2 DEF DInv, Conversations, InOrder, Alone
<1>9. ASSUME NEW d \in Clients, pc'[d] # "off", Alive(conn[d])', ~Haunted(conn[d])'
      PROVE  Talk(d, conn[d])'
    <2>1. CASE d = c
        <3>1. to # "off" /\ conn'[d] = k
            BY <1>3, <1>9, <2>1
        <3>2. Alive(k) /\ ~Haunted(k)
            BY <1>1, <1>2, <1>9, <3>1
        <3>3. QED
            BY <2>1, <3>1, <3>2
    <2>2. CASE d # c
        <3>1. PICK t \in Conns : conn[d] = t /\ conn'[d] = t /\ t # k
            BY <1>3, <1>9, <2>2 DEF IInv, ClientsLetIn, Alone
        <3>2. Alive(t) /\ ~Haunted(t)
            BY <1>1, <1>2, <1>9, <3>1
        <3>3. Talk(d, t)
            BY <1>3, <1>9, <2>2, <3>1, <3>2 DEF DInv, Conversations
        <3>4. Talk(d, t)'
            BY <1>1, <1>2, <1>3, <2>2, <3>1, <3>3 DEF Talk, Asked, Refused, Granted, LetIn, Alone
        <3>5. QED
            BY <3>1, <3>4
    <2>3. QED
        BY <2>1, <2>2
<1>10. Conversations'
    BY <1>1, <1>8, <1>9 DEF Conversations
<1>11. QED
    BY <1>5, <1>6, <1>7, <1>10 DEF DInv

\* The connection of a running client.
LEMMA OfClient ==
    ASSUME IInv, DInv, NEW c \in Clients, pc[c] # "off"
    PROVE  /\ conn[c] \in Conns /\ conn[c] <= opened /\ ~fin[conn[c]]
           /\ \A d \in Clients : d # c /\ pc[d] # "off" => conn[d] # conn[c]
           /\ ~Haunted(conn[c]) => InOrder(conn[c])
           /\ ~Haunted(conn[c]) /\ Alive(conn[c]) => Talk(c, conn[c])
           /\ Received(c) = toClient[conn[c]]
    BY DEF IInv, ClientsLetIn, DInv, OwnConnection, Conversations, Received

\* A client that goes on with its connection k.
LEMMA GoesOnDInv ==
    ASSUME IInv, DInv, UNCHANGED <<serverVars, conn, opened, fin>>, NEW c \in Clients,
           pc[c] # "off", NEW k \in Conns, conn[c] = k, NEW to, pc' = [pc EXCEPT ![c] = to],
           Alone(c, k), toServer[k] # << >> => toServer'[k] # << >>, ready' \subseteq Known,
           ~Haunted(k) => InOrder(k)', ~Haunted(k) /\ Alive(k) => Talk(c, k)'
    PROVE  DInv'
<1>1. conn' = [conn EXCEPT ![c] = k]
    BY ClientTypes
<1>2. Readable(k) => Readable(k)'
    BY DEF Readable
<1>3. k <= opened' /\ ~fin'[k]
    BY OfClient
<1>4. UNCHANGED serverVars /\ opened' = opened
    OBVIOUS
<1>5. QED
    BY <1>1, <1>2, <1>3, <1>4, ClientDInv

LEMMA StartDInv ==
    ASSUME IInv, DInv, NEW c \in Clients, Start(c)
    PROVE  DInv'
<1>1. PICK k \in Conns : k = opened + 1
    BY ConnectOK DEF Start
<1>2. /\ pc' = [pc EXCEPT ![c] = "menu"] /\ opened' = k /\ conn' = [conn EXCEPT ![c] = k]
      /\ UNCHANGED <<serverVars, ready, toServer, toClient, fin, user>>
    BY <1>1 DEF Start, Goto, Connect
<1>3. k > opened /\ k > accepted /\ k <= k
    BY <1>1, Counters
<1>4. UNCHANGED <<accepted, con>>
    BY <1>2 DEF serverVars, processVars
<1>5. Alone(c, k)
    <2>1. \A d \in Clients : pc[d] # "off" => conn[d] # k
        <3>1. ~(k <= opened)
            BY <1>1, Counters
        <3>2. QED
            BY <3>1, OfClient
    <2>2. QED
        BY <1>2, <2>1 DEF Alone
<1>6. toServer[k] = << >> /\ toClient[k] = << >> /\ ~fin[k]
    BY <1>3 DEF DInv, Unused
<1>7. Fresh(k)'
    BY <1>3, <1>4 DEF Fresh
<1>8. pc'[c] = "menu"
    BY <1>2, ClientTypes
<1>9. Talk(c, k)'
    BY <1>2, <1>6, <1>7, <1>8 DEF Talk
<1>10. InOrder(k)'
    <2>1. con[k] = NoCon
        BY <1>3, InConList
    <2>2. Len(<< >>) <= 1
        OBVIOUS
    <2>3. QED
        BY <1>2, <1>4, <1>6, <2>1, <2>2 DEF InOrder, Is
<1>11. Readable(k) => Readable(k)'
    BY <1>2 DEF Readable
<1>12. /\ opened' = opened \/ opened' = opened + 1
       /\ k <= opened' /\ ~fin'[k] /\ UNCHANGED serverVars
    BY <1>1, <1>2, <1>3, <1>6
<1>13. ready' \subseteq Known
    BY <1>2 DEF DInv, Watched
<1>14. QED
    BY <1>2, <1>5, <1>9, <1>10, <1>11, <1>12, <1>13, ClientDInv

\* What a send leaves: the unit is behind everything else, if the server is there.
LEMMA AppendFacts ==
    ASSUME NEW s \in Seq(Units), NEW unit \in Units
    PROVE  /\ Append(s, unit) # << >>
           /\ s = << >> => Append(s, unit) = << unit >>
<1>1. Len(Append(s, unit)) = Len(s) + 1 /\ Len(s) \in Nat /\ Append(s, unit) \in Seq(Units)
    BY AppendProperties, LenProperties
<1>2. Append(s, unit) # << >>
    BY <1>1, EmptySeq
<1>3. Append(<< >>, unit) = << unit >>
    OBVIOUS
<1>4. QED
    BY <1>2, <1>3

\* An arrival is an edge only on a connection in con_list.
LEMMA EdgeWatched ==
    ASSUME DInv, NEW k \in Conns
    PROVE  ready \subseteq Known /\ Edge(k) \subseteq Known
    BY DEF DInv, Watched, Edge, Known

LEMMA WriteFacts ==
    ASSUME IInv, DInv, NEW k \in Conns, NEW unit \in Units, Write(k, unit)
    PROVE  /\ UNCHANGED <<serverVars, opened, toClient, fin>>
           /\ ready' \subseteq Known
           /\ \A t \in Conns : t # k => toServer'[t] = toServer[t]
           /\ Alive(k) => toServer'[k] = Append(toServer[k], unit)
           /\ ~Alive(k) => toServer'[k] = toServer[k]
           /\ Append(toServer[k], unit) # << >>
           /\ toServer[k] = << >> => Append(toServer[k], unit) = << unit >>
<1>1. toServer[k] \in Seq(Units)
    BY DEF IInv, TypeOK, ServerTypeOK
<1>2. /\ Append(toServer[k], unit) # << >>
      /\ toServer[k] = << >> => Append(toServer[k], unit) = << unit >>
    BY <1>1, AppendFacts
<1>3. ready' \subseteq Known
    BY EdgeWatched DEF Write
<1>4. QED
    BY <1>2, <1>3 DEF Write, IInv, TypeOK, ServerTypeOK

\* A line behind others leaves the first unit where it is.
LEMMA AppendBehind ==
    ASSUME NEW s \in Seq(Units), s # << >>, NEW S, Tail(s) \in Seq(S), NEW x \in S
    PROVE  /\ Head(Append(s, x)) = Head(s)
           /\ Tail(Append(s, x)) \in Seq(S)
<1>1. Head(Append(s, x)) = Head(s) /\ Tail(Append(s, x)) = Append(Tail(s), x)
    OBVIOUS
<1>2. QED
    BY <1>1, AppendProperties

\* A client that sends has to show only where the conversation is now, and only if the
\* server is there.
LEMMA SendDInv ==
    ASSUME IInv, DInv, NEW c \in Clients, pc[c] # "off", NEW l \in Conns, conn[c] = l,
           NEW to, pc' = [pc EXCEPT ![c] = to], UNCHANGED conn,
           \A d \in Clients : d # c => user'[d] = user[d],
           NEW unit \in Units, Write(l, unit),
           ~Haunted(l) /\ Alive(l) /\ toServer'[l] = Append(toServer[l], unit) =>
               InOrder(l)' /\ Talk(c, l)'
    PROVE  DInv'
<1>1. /\ UNCHANGED <<serverVars, opened, toClient, fin>>
      /\ \A t \in Conns : t # l => toServer'[t] = toServer[t]
      /\ Alive(l) => toServer'[l] = Append(toServer[l], unit)
      /\ ~Alive(l) => toServer'[l] = toServer[l]
      /\ Append(toServer[l], unit) # << >> /\ ready' \subseteq Known
    BY WriteFacts
<1>2. UNCHANGED <<accepted, con, base>>
    BY <1>1 DEF serverVars, processVars
<1>3. Alone(c, l)
    BY <1>1, OfClient DEF Alone
<1>4. ~Haunted(l) => InOrder(l)'
    BY <1>1, <1>2, OfClient DEF InOrder, Fresh, Is
<1>5. toServer[l] # << >> => toServer'[l] # << >>
    BY <1>1
<1>6. ~Haunted(l) /\ Alive(l) => Talk(c, l)'
    BY <1>1
<1>7. QED
    BY <1>1, <1>3, <1>4, <1>5, <1>6, GoesOnDInv

LEMMA SendRequestDInv ==
    ASSUME IInv, DInv, NEW c \in Clients, NEW u \in Users, NEW o \in Options,
           SendRequest(c, u, o)
    PROVE  DInv'
<1> DEFINE req == [kind |-> "request", option |-> o, name |-> u]
<1>1. req \in Units /\ req.name = u
    BY DEF Units
<1>2. pc[c] = "menu" /\ pc' = [pc EXCEPT ![c] = "awaitRes"] /\ Write(conn[c], req)
      /\ UNCHANGED conn /\ user' = [user EXCEPT ![c] = u]
    BY DEF SendRequest, Goto
<1> HIDE DEF req
<1>3. PICK l \in Conns : l = conn[c]
    BY <1>2, OfClient
<1>4. /\ UNCHANGED <<accepted, con, base, toClient>>
      /\ toServer[l] = << >> => Append(toServer[l], req) = << req >>
    BY <1>1, <1>2, <1>3, WriteFacts DEF serverVars, processVars
<1>5. pc'[c] = "awaitRes" /\ user'[c] = u /\ \A d \in Clients : d # c => user'[d] = user[d]
    BY <1>2, ClientTypes
<1>6. ASSUME ~Haunted(l), Alive(l), toServer'[l] = Append(toServer[l], req)
      PROVE  InOrder(l)' /\ Talk(c, l)'
    <2>1. Fresh(l) /\ toServer[l] = << >> /\ toClient[l] = << >>
        BY <1>2, <1>3, <1>6, OfClient DEF Talk
    <2>2. toServer'[l] = << req >> /\ << req >> # << >> /\ Head(<< req >>) = req
          /\ Len(<< req >>) <= 1
        BY <1>4, <1>6, <2>1
    <2>3. Fresh(l)' /\ ~Is(l, "AUTHENTICATED")' /\ ~Is(l, "ONLINE")'
        BY <1>4, <2>1, InConList DEF Fresh, Is
    <2>4. Asked(c, l)'
        BY <1>1, <1>4, <1>5, <2>1, <2>2, <2>3 DEF Asked
    <2>5. QED
        BY <1>5, <2>2, <2>3, <2>4 DEF Talk, InOrder
<1>7. pc[c] # "off" /\ conn[c] = l /\ Write(l, req)
    BY <1>2, <1>3
<1>8. QED
    BY <1>1, <1>2, <1>5, <1>6, <1>7, SendDInv

LEMMA SelectOptionDInv ==
    ASSUME IInv, DInv, NEW c \in Clients, NEW n \in ChatOptions, SelectOption(c, n)
    PROVE  DInv'
<1> DEFINE choice == [kind |-> "option", number |-> n]
<1>1. choice \in Units /\ choice \in Choices
    BY ClientAssumption DEF ClientAssumption, Units, Choices
<1>2. pc[c] = "options" /\ pc' = [pc EXCEPT ![c] = "awaitOpt"] /\ Write(conn[c], choice)
      /\ UNCHANGED conn /\ user' = [user EXCEPT ![c] = ""]
    BY DEF SelectOption, Goto
<1> HIDE DEF choice
<1>3. PICK l \in Conns : l = conn[c]
    BY <1>2, OfClient
<1>4. /\ UNCHANGED <<accepted, con, base, toClient>>
      /\ toServer[l] = << >> => Append(toServer[l], choice) = << choice >>
    BY <1>1, <1>2, <1>3, WriteFacts DEF serverVars, processVars
<1>5. pc'[c] = "awaitOpt" /\ \A d \in Clients : d # c => user'[d] = user[d]
    BY <1>2, ClientTypes
<1>6. ~Fresh(l)'
    BY <1>2, <1>3, <1>4 DEF IInv, ClientsLetIn, Fresh
<1>7. ASSUME ~Haunted(l), Alive(l), toServer'[l] = Append(toServer[l], choice)
      PROVE  InOrder(l)' /\ Talk(c, l)'
    <2>1. LetIn(c, l)
        BY <1>2, <1>3, <1>7, OfClient DEF Talk
    <2>2. [name |-> user[c], state |-> "AUTHENTICATED"].state = "AUTHENTICATED"
        OBVIOUS
    <2>3. toServer[l] = << >> /\ con[l].state = "AUTHENTICATED"
        BY <2>1, <2>2 DEF LetIn
    <2>4. toServer'[l] = << choice >> /\ << choice >> # << >> /\ Head(<< choice >>) = choice
          /\ Tail(<< choice >>) = << >> /\ << >> \in Seq(Lines)
        BY <1>4, <1>7, <2>3
    <2>5. ~Is(l, "ONLINE")'
        BY <1>4, <2>3 DEF Is
    <2>6. QED
        BY <1>1, <1>5, <1>6, <2>4, <2>5 DEF Talk, InOrder
<1>8. pc[c] # "off" /\ conn[c] = l /\ Write(l, choice)
    BY <1>2, <1>3
<1>9. QED
    BY <1>1, <1>2, <1>5, <1>7, <1>8, SendDInv

LEMMA ChatDInv ==
    ASSUME IInv, DInv, NEW c \in Clients, Chat(c)
    PROVE  DInv'
<1> DEFINE line == [kind |-> "chat"]
<1>1. line \in Units /\ line \in Lines
    BY DEF Units, Lines
<1>2. pc[c] = "online" /\ Write(conn[c], line) /\ UNCHANGED clientVars
    BY DEF Chat
<1> HIDE DEF line
<1>3. PICK l \in Conns : l = conn[c]
    BY <1>2, OfClient
<1>4. /\ UNCHANGED <<accepted, con, base, toClient>>
      /\ Append(toServer[l], line) # << >>
    BY <1>1, <1>2, <1>3, WriteFacts DEF serverVars, processVars
<1>5. UNCHANGED <<pc, conn, user>> /\ pc' = [pc EXCEPT ![c] = "online"]
    BY <1>2, ClientTypes DEF clientVars
<1>6. ~Fresh(l)' /\ ~Fresh(l)
    BY <1>2, <1>3, <1>4 DEF IInv, ClientsLetIn, Fresh
<1>7. ASSUME ~Haunted(l), Alive(l), toServer'[l] = Append(toServer[l], line)
      PROVE  InOrder(l)' /\ Talk(c, l)'
    <2>1. Is(l, "AUTHENTICATED") => toServer[l] # << >>
        BY <1>2, <1>3, <1>7, OfClient DEF Talk
    <2>2. InOrder(l) /\ toServer[l] \in Seq(Units)
        BY <1>2, <1>3, <1>7, OfClient DEF IInv, TypeOK, ServerTypeOK
    <2>3. toServer[l] # << >> /\ Tail(toServer[l]) \in Seq(Lines) =>
            /\ Head(Append(toServer[l], line)) = Head(toServer[l])
            /\ Tail(Append(toServer[l], line)) \in Seq(Lines)
        BY <1>1, <2>2, AppendBehind
    <2>4. toServer[l] \in Seq(Lines) => Append(toServer[l], line) \in Seq(Lines)
        BY <1>1, AppendProperties
    <2>5. \A st : Is(l, st)' <=> Is(l, st)
        BY <1>4 DEF Is
    <2>6. InOrder(l)'
        BY <1>6, <1>7, <2>1, <2>2, <2>3, <2>4, <2>5 DEF InOrder
    <2>7. QED
        BY <1>2, <1>4, <1>5, <1>7, <2>6 DEF Talk
<1>8. pc[c] # "off" /\ conn[c] = l /\ Write(l, line) /\ \A d \in Clients : user'[d] = user[d]
    BY <1>2, <1>3, <1>5
<1>9. QED
    BY <1>1, <1>5, <1>7, <1>8, SendDInv

\* A client that reads has to show only where the conversation is now.
LEMMA ReadDInv ==
    ASSUME IInv, DInv, NEW c \in Clients, pc[c] # "off", NEW l \in Conns, conn[c] = l,
           NEW to, pc' = [pc EXCEPT ![c] = to],
           UNCHANGED <<serverVars, opened, ready, toServer, fin, conn>>,
           \A t \in Conns : t # l => toClient'[t] = toClient[t],
           \A d \in Clients : d # c => user'[d] = user[d],
           ~Haunted(l) /\ Alive(l) => Talk(c, l)'
    PROVE  DInv'
<1>1. UNCHANGED <<accepted, con, base>>
    BY DEF serverVars, processVars
<1>2. Alone(c, l)
    BY OfClient DEF Alone
<1>3. ~Haunted(l) => InOrder(l)'
    BY <1>1, OfClient DEF InOrder, Fresh, Is
<1>4. ready' \subseteq Known
    BY DEF DInv, Watched
<1>5. QED
    BY <1>2, <1>3, <1>4, GoesOnDInv

LEMMA TakeFacts ==
    ASSUME IInv, NEW k \in Conns, NEW rest, Take(k, rest)
    PROVE  /\ UNCHANGED <<serverVars, opened, ready, toServer, fin, con, accepted>>
           /\ toClient'[k] = rest
           /\ \A t \in Conns : t # k => toClient'[t] = toClient[t]
    BY NoCall DEF Take, serverVars, processVars, CallOK

LEMMA ReadResponseDInv ==
    ASSUME IInv, DInv, NEW c \in Clients, ReadResponse(c)
    PROVE  DInv'
<1>1. pc[c] = "awaitRes" /\ UNCHANGED conn /\ Received(c) # << >>
    BY DEF ReadResponse
<1>2. PICK l \in Conns : l = conn[c]
    BY <1>1, OfClient
<1>3. PICK rest \in AfterResponse(Received(c)) : Take(l, rest)
    BY <1>2 DEF ReadResponse
<1>4. Received(c) = toClient[l] /\ conn[c] = l /\ pc[c] # "off"
    BY <1>1, <1>2, OfClient
<1>5. /\ UNCHANGED <<serverVars, opened, ready, toServer, fin, con, accepted>>
      /\ toClient'[l] = rest
      /\ \A t \in Conns : t # l => toClient'[t] = toClient[t]
    BY <1>3, TakeFacts
<1>6. CASE Head(Received(c)) = "SUCCESS"
    <2>1. pc' = [pc EXCEPT ![c] = "options"] /\ user' = user
        BY <1>6 DEF ReadResponse, Goto
    <2>2. ASSUME ~Haunted(l), Alive(l)
          PROVE  Talk(c, l)'
        <3>1. Granted(c, l)
            <4>1. ~Fresh(l)
                BY <1>1, <1>4, <1>6, SuccessMeansLetIn
            <4>2. QED
                BY <1>1, <1>4, <2>2, <4>1, OfClient DEF Talk, Asked, Refused
        <3>2. LetIn(c, l)'
            BY <1>5, <2>1, <3>1 DEF Granted, LetIn
        <3>3. pc'[c] = "options"
            BY <2>1, ClientTypes
        <3>4. QED
            BY <3>2, <3>3 DEF Talk
    <2>3. QED
        BY <1>1, <1>4, <1>5, <2>1, <2>2, ReadDInv
<1>7. CASE Head(Received(c)) # "SUCCESS"
    <2>1. pc' = [pc EXCEPT ![c] = "menu"] /\ user' = [user EXCEPT ![c] = ""]
        BY <1>7 DEF ReadResponse, Goto
    <2>2. ASSUME ~Haunted(l), Alive(l)
          PROVE  Talk(c, l)'
        <3>1. Refused(l)
            BY <1>1, <1>4, <1>7, <2>2, OfClient DEF Talk, Asked, Granted
        <3>2. toClient[l] = << "REFUSED" >>
            BY <3>1 DEF Refused
        <3>3. Head(<< "REFUSED" >>) # "text" /\ Tail(<< "REFUSED" >>) = << >>
            OBVIOUS
        <3>4. toClient'[l] = << >>
            BY <1>3, <1>4, <1>5, <3>2, <3>3 DEF AfterResponse
        <3>5. Fresh(l)' /\ toServer'[l] = << >>
            BY <1>5, <3>1 DEF Refused, Fresh
        <3>6. pc'[c] = "menu"
            BY <2>1, ClientTypes
        <3>7. QED
            BY <3>4, <3>5, <3>6 DEF Talk
    <2>3. \A d \in Clients : d # c => user'[d] = user[d]
        BY <2>1, ClientTypes
    <2>4. QED
        BY <1>1, <1>4, <1>5, <2>1, <2>2, <2>3, ReadDInv
<1>8. QED
    BY <1>6, <1>7

\* What the client of a server that is gone takes for a success says nothing of a server
\* that is there.
LEMMA ResponseFromNobodyDInv ==
    ASSUME IInv, DInv, NEW c \in Clients, ResponseFromNobody(c)
    PROVE  DInv'
<1>1. pc[c] = "awaitRes" /\ pc' = [pc EXCEPT ![c] = "options"] /\ ~Alive(conn[c])
      /\ UNCHANGED <<conn, user, serverVars, opened, ready, toServer, toClient, fin>>
    BY DEF ResponseFromNobody, Goto, EndOfFile, Drained, socketVars
<1>2. PICK l \in Conns : l = conn[c]
    BY <1>1, OfClient
<1>3. pc[c] # "off" /\ conn[c] = l /\ ~Alive(l)
    BY <1>1, <1>2
<1>4. QED
    BY <1>1, <1>3, ReadDInv

LEMMA ReadOptionAnswerDInv ==
    ASSUME IInv, DInv, NEW c \in Clients, ReadOptionAnswer(c)
    PROVE  DInv'
<1>1. pc[c] = "awaitOpt" /\ pc' = [pc EXCEPT ![c] = "online"] /\ UNCHANGED <<conn, user>>
    BY DEF ReadOptionAnswer, Goto
<1>2. PICK l \in Conns : l = conn[c]
    BY <1>1, OfClient
<1>3. pc[c] # "off" /\ conn[c] = l /\ pc'[c] = "online"
    BY <1>1, <1>2, ClientTypes
<1>4. /\ UNCHANGED <<serverVars, opened, ready, toServer, fin>>
      /\ \A t \in Conns : t # l => toClient'[t] = toClient[t]
    <2>1. CASE \E rest : Take(l, rest)
        BY <2>1, TakeFacts
    <2>2. CASE UNCHANGED <<serverVars, socketVars>>
        BY <2>2 DEF socketVars
    <2>3. QED
        BY <1>2, <2>1, <2>2 DEF ReadOptionAnswer
<1>5. ~Haunted(l) /\ Alive(l) => Talk(c, l)'
    <2>1. Is(l, "AUTHENTICATED")' <=> Is(l, "AUTHENTICATED")
        BY <1>4 DEF Is, serverVars
    <2>2. QED
        BY <1>1, <1>3, <1>4, <2>1, OfClient DEF Talk
<1>6. QED
    BY <1>1, <1>3, <1>4, <1>5, ReadDInv

LEMMA RecvDInv ==
    ASSUME IInv, DInv, NEW c \in Clients, Recv(c)
    PROVE  DInv'
<1>1. pc[c] = "online" /\ UNCHANGED <<pc, conn, user>>
    BY DEF Recv, clientVars
<1>2. PICK l \in Conns : l = conn[c]
    BY <1>1, OfClient
<1>3. pc[c] # "off" /\ conn[c] = l /\ pc' = [pc EXCEPT ![c] = "online"]
    BY <1>1, <1>2, ClientTypes
<1>4. /\ UNCHANGED <<serverVars, opened, ready, toServer, fin>>
      /\ \A t \in Conns : t # l => toClient'[t] = toClient[t]
    BY <1>2, TakeFacts DEF Recv
<1>5. ~Haunted(l) /\ Alive(l) => Talk(c, l)'
    <2>1. Is(l, "AUTHENTICATED")' <=> Is(l, "AUTHENTICATED")
        BY <1>4 DEF Is, serverVars
    <2>2. QED
        BY <1>1, <1>3, <1>4, <2>1, OfClient DEF Talk
<1>6. QED
    BY <1>1, <1>3, <1>4, <1>5, ReadDInv

LEMMA ExitDInv ==
    ASSUME IInv, DInv, NEW c \in Clients, pc[c] # "off", Exit(c)
    PROVE  DInv'
<1>1. PICK l \in Conns : l = conn[c]
    BY OfClient
<1>2. /\ pc' = [pc EXCEPT ![c] = "off"] /\ conn' = [conn EXCEPT ![c] = 0]
      /\ user' = [user EXCEPT ![c] = ""] /\ Close(l)
    BY <1>1 DEF Exit
<1>3. UNCHANGED <<serverVars, opened, toServer>>
    BY <1>2 DEF Close
<1>4. \A t \in Conns : t # l => toClient'[t] = toClient[t] /\ fin'[t] = fin[t]
    BY <1>2, NoCall DEF Close, CallOK, IInv, TypeOK, ServerTypeOK
<1>5. fin'[l]
    BY <1>2 DEF Close, IInv, TypeOK, ServerTypeOK
<1>6. Alone(c, l)
    <2>1. \A d \in Clients : d # c => user'[d] = user[d]
        BY <1>2, ClientTypes
    <2>2. QED
        BY <1>1, <1>3, <1>4, <2>1, OfClient DEF Alone
<1>7. ~Haunted(l) => InOrder(l)'
    <2>1. UNCHANGED <<accepted, con>>
        BY <1>3 DEF serverVars, processVars
    <2>2. QED
        BY <1>1, <1>3, <2>1, OfClient DEF InOrder, Fresh, Is
<1>8. Readable(l)' /\ l <= opened'
    BY <1>1, <1>3, <1>5, OfClient DEF Readable
<1>9. ready' \subseteq Known
    BY <1>2, EdgeWatched DEF Close
<1>10. QED
    BY <1>2, <1>3, <1>6, <1>7, <1>8, <1>9, ClientDInv

-----------------------------------------------------------------------------
(* The account holds, and what follows from it *)

LEMMA InitDInv ==
    ASSUME Init
    PROVE  DInv
<1>1. /\ toServer = [k \in Conns |-> << >>] /\ toClient = [k \in Conns |-> << >>]
      /\ fin = [k \in Conns |-> FALSE] /\ con = [k \in Conns |-> NoCon] /\ events = {}
      /\ ready = {}
      /\ pc = [c \in Clients |-> "off"]
    BY DEF Init, ServerInit
<1>2. Unused /\ OwnConnection /\ Watched
    BY <1>1 DEF Unused, OwnConnection, Watched
<1>3. Len(<< >>) <= 1
    OBVIOUS
<1>4. Conversations
    BY <1>1, <1>3 DEF Conversations, InOrder, Is
<1>5. QED
    BY <1>2, <1>4 DEF DInv

LEMMA NextDInv ==
    ASSUME IInv, DInv, [Next]_vars
    PROVE  DInv'
<1>1. CASE UNCHANGED vars
    <2>1. UNCHANGED <<base, accepted, stale, con, events, opened, ready, toServer, toClient, fin,
                      pc, conn, user>>
        BY <1>1 DEF vars, serverVars, socketVars, processVars, historyVars, clientVars
    <2>2. QED
        BY <2>1, NothingHappens
<1>2. CASE ServerStep /\ UNCHANGED clientVars
    BY <1>2, EpollWaitDInv, HandleAcceptDInv, HandleDInv DEF ServerStep
<1>3. CASE ProcessStep /\ UNCHANGED clientVars
    BY <1>3, ProcessDInv
<1>4. ASSUME NEW c \in Clients, ClientStep(c)
      PROVE  DInv'
    <2>1. CASE Reads(c)
        BY <2>1, ReadResponseDInv, ResponseFromNobodyDInv, ReadOptionAnswerDInv, RecvDInv,
           ExitDInv DEF Reads, ServerGone
    <2>2. CASE Quit(c)
        BY <2>2, ExitDInv DEF Quit
    <2>3. QED
        BY <1>4, <2>1, <2>2, StartDInv, SendRequestDInv, SelectOptionDInv, ChatDInv
           DEF ClientStep
<1>5. QED
    BY <1>1, <1>2, <1>3, <1>4 DEF Next

\* Table, connections and conversations agree, in every room and across the ends of the
\* server.
THEOREM DialogueInvariance == Spec => [](IInv /\ DInv)
<1>1. Init => IInv /\ DInv
    BY InitInv, InitDInv
<1>2. IInv /\ DInv /\ [Next]_vars => IInv' /\ DInv'
    BY NextInv, NextDInv
<1>3. QED
    BY <1>1, <1>2, PTL DEF Spec

\* A connection that was deleted is never reported, and the server reads a request, an
\* option or a chat line exactly where it takes what it reads for one, on every connection
\* whose descriptor no row of a killed server names (socket_server.cpp:42-45, :146-216).
THEOREM InStep == Spec => []ReadsInStep
<1>1. IInv /\ DInv => ReadsInStep
    <2> SUFFICES ASSUME IInv, DInv
                 PROVE  ReadsInStep
        OBVIOUS
    <2>0. \A k \in events \ {0} : con[k] # NoCon
        BY DEF DInv, Watched, Known
    <2>1. SUFFICES ASSUME NEW k \in Conns, con[k] # NoCon, toServer[k] # << >>, ~Haunted(k)
                   PROVE  LET kind == Head(toServer[k]).kind
                          IN CASE con[k].state = "REQUEST" -> kind = "request"
                               [] con[k].state = "AUTHENTICATED" -> kind = "option"
                               [] con[k].state = "ONLINE" -> kind \in {"chat", "cut"}
        BY <2>0 DEF ReadsInStep
    <2>2. con[k].state \in {"REQUEST", "AUTHENTICATED", "ONLINE"}
        BY <2>1 DEF IInv, TypeOK, ServerTypeOK, Connection
    <2>3. con[k].state = "REQUEST" => Head(toServer[k]).kind = "request"
        BY <2>1, HeadIsRequest DEF Requests
    <2>4. con[k].state = "AUTHENTICATED" => Head(toServer[k]).kind = "option"
        BY <2>1 DEF DInv, Conversations, InOrder, Is, Choices
    <2>5. con[k].state = "ONLINE" => Head(toServer[k]).kind \in {"chat", "cut"}
        <3>1. con[k].state = "ONLINE" => toServer[k] \in Seq(Lines)
            BY <2>1 DEF DInv, Conversations, InOrder, Is
        <3>2. con[k].state = "ONLINE" => Head(toServer[k]) \in Lines
            BY <2>1, <3>1, HeadTailProperties
        <3>3. QED
            BY <3>2 DEF Lines
    <2>6. QED
        BY <2>2, <2>3, <2>4, <2>5
<1>2. QED
    BY <1>1, DialogueInvariance, PTL

\* A client that shows its user the chat options has the session of just that name, as
\* long as its server lives and unless a row of a killed one names its descriptor
\* (socket_client.cpp:128-134, socket_server.cpp:164-169).
THEOREM Welcome == Spec => []WelcomeIsTrue
<1>1. IInv /\ DInv => WelcomeIsTrue
    BY DEF WelcomeIsTrue, DInv, Conversations, Talk, LetIn
<1>2. QED
    BY <1>1, DialogueInvariance, PTL

\* No line of a conversation arrives at a client that has not been let in, and none comes
\* between a request and its response, on a connection whose descriptor no row of a killed
\* server names (socket_server.cpp:47-56).
THEOREM NoTextEarly == Spec => []NoTextBeforeLogin
<1>1. IInv /\ DInv => NoTextBeforeLogin
    <2>1. SUFFICES ASSUME IInv, DInv, NEW c \in Clients, Alive(conn[c]), ~Haunted(conn[c])
                   PROVE  /\ pc[c] = "menu" => Received(c) = << >>
                          /\ (pc[c] = "awaitRes" /\ Received(c) # << >>) =>
                                Head(Received(c)) # "text"
        BY DEF NoTextBeforeLogin
    <2>2. pc[c] # "off" => Talk(c, conn[c])
        BY <2>1 DEF DInv, Conversations
    <2>3. Head(<< "REFUSED" >>) # "text"
        OBVIOUS
    <2>4. QED
        BY <2>2, <2>3 DEF Talk, Asked, Refused, Granted, Received
<1>2. QED
    BY <1>1, DialogueInvariance, PTL
=============================================================================
