------------------------------ MODULE ChatRoom ------------------------------
(***************************************************************************)
(* The chat room: the clients (lib/src/socket_client.cpp) with the server  *)
(* of ChatServer.tla.  A client is a process that connects, sends login or *)
(* registration requests until one succeeds, sends the chat option, and    *)
(* then chats in two threads, one that reads and one that writes.  It can  *)
(* end at any time, and its user may start it again.                       *)
(*                                                                         *)
(* The code of a client's states is followed to the letter where it        *)
(* ignores what a read returns: an end of file counts as success.          *)
(***************************************************************************)
EXTENDS ChatServer

CONSTANTS
    Clients,
    ChatOptions  \* the chat options users select: 3 is "Exit"

ASSUME ClientAssumption == ChatOptions \subseteq Nat

VARIABLES
    pc,    \* "off", "menu", "awaitRes", "options", "awaitOpt" or "online"
    conn,  \* the connection of the client
    user,  \* the name in the request it waits for, or was let in with
    opt    \* the chat option it selected

clientVars == <<pc, conn, user, opt>>
vars == <<serverVars, socketVars, clientVars>>

Init ==
    /\ ServerInit
    /\ pc = [c \in Clients |-> "off"]
    /\ conn = [c \in Clients |-> 0]
    /\ user = [c \in Clients |-> ""]
    /\ opt = [c \in Clients |-> 0]

Goto(c, from, to) == pc[c] = from /\ pc' = [pc EXCEPT ![c] = to]

\* The server is gone and everything was read: a read returns 0, or it fails.
Drained(c) == ~Alive(conn[c]) /\ toClient[conn[c]] = << >>
EndOfFile(c) == Drained(c) /\ ~aborted[conn[c]]
ReadFails(c) == Drained(c) /\ aborted[conn[c]]

Received(c) == toClient[conn[c]]

-----------------------------------------------------------------------------
Start(c) ==
    /\ Goto(c, "off", "menu")
    /\ Connect
    /\ conn' = [conn EXCEPT ![c] = opened + 1]
    /\ UNCHANGED <<user, opt>>

\* The menu and the send of SendRequest: any option but 3 is sent.
SendRequest(c, u, o) ==
    /\ Goto(c, "menu", "awaitRes")
    /\ o # 3
    /\ Write(conn[c], [kind |-> "request", option |-> o, name |-> u])
    /\ user' = [user EXCEPT ![c] = u]
    /\ UNCHANGED <<conn, opt>>

\* A client that takes every answer for a success.
ReadResponseBlindly(c) ==
    /\ Goto(c, "awaitRes", "options")
    /\ Received(c) # << >>
    /\ Take(conn[c], Tail(Received(c)))
    /\ UNCHANGED <<conn, user, opt>>

\* What the read of a response leaves.  Four bytes of a text are no response
\* either: the text goes on behind them, or ends with them.
AfterResponse(s) == IF Head(s) = "text" THEN {s, Tail(s)} ELSE {Tail(s)}

\* The read of SendRequest: back to the menu unless it is a success.
ReadResponse(c) ==
    /\ pc[c] = "awaitRes"
    /\ Received(c) # << >>
    /\ IF Head(Received(c)) = "SUCCESS"
       THEN Goto(c, "awaitRes", "options") /\ user' = user
       ELSE Goto(c, "awaitRes", "menu") /\ user' = [user EXCEPT ![c] = ""]
    /\ \E rest \in AfterResponse(Received(c)) : Take(conn[c], rest)
    /\ UNCHANGED <<conn, opt>>

\* read() returns 0, which is not an error: res is still what it was initialised
\* to, SUCCESS.
ResponseFromNobody(c) ==
    /\ Goto(c, "awaitRes", "options")
    /\ EndOfFile(c)
    /\ UNCHANGED <<conn, user, opt, serverVars, socketVars>>

\* SELECTCHATOPT.  Option 3, "Exit", is sent as the others are.
SelectOption(c, n) ==
    /\ Goto(c, "options", "awaitOpt")
    /\ Write(conn[c], [kind |-> "option", number |-> n])
    /\ opt' = [opt EXCEPT ![c] = n]
    /\ user' = [user EXCEPT ![c] = ""]
    /\ UNCHANGED conn

\* The read of the answer, whose value is not looked at.
ReadOptionAnswer(c) ==
    /\ Goto(c, "awaitOpt", "online")
    /\ \/ /\ Received(c) # << >>
          /\ Take(conn[c], IF Head(Received(c)) = "text" THEN Received(c) ELSE Tail(Received(c)))
       \/ /\ EndOfFile(c)
          /\ UNCHANGED <<serverVars, socketVars>>
    /\ opt' = [opt EXCEPT ![c] = 0]
    /\ UNCHANGED <<conn, user>>

\* The Send thread.
Chat(c) ==
    /\ pc[c] = "online"
    /\ Write(conn[c], [kind |-> "chat"])
    /\ UNCHANGED clientVars

\* The Recv thread shows what has arrived.
Recv(c) ==
    /\ pc[c] = "online"
    /\ Received(c) # << >>
    /\ Take(conn[c], << >>)
    /\ UNCHANGED clientVars

\* The process ends, and with it the connection.
Exit(c) ==
    /\ pc' = [pc EXCEPT ![c] = "off"]
    /\ Close(conn[c])
    /\ conn' = [conn EXCEPT ![c] = 0]
    /\ opt' = [opt EXCEPT ![c] = 0]
    /\ user' = [user EXCEPT ![c] = ""]

\* A read that fails ends the client, and so does an end of file in the Recv
\* thread.
ServerGone(c) ==
    /\ pc[c] \in {"awaitRes", "awaitOpt", "online"}
    /\ ReadFails(c) \/ (pc[c] = "online" /\ EndOfFile(c))
    /\ Exit(c)

\* The user ends it: "3" in the first menu, an option above 3, a signal.  So does
\* a send that fails.
Quit(c) ==
    /\ pc[c] # "off"
    /\ Exit(c)

Reads(c) ==
    \/ ReadResponse(c)
    \/ ResponseFromNobody(c)
    \/ ReadOptionAnswer(c)
    \/ Recv(c)
    \/ ServerGone(c)

ClientStep(c) ==
    \/ Start(c)
    \/ \E u \in Users, o \in Options : SendRequest(c, u, o)
    \/ \E n \in ChatOptions : SelectOption(c, n)
    \/ Chat(c)
    \/ Reads(c)
    \/ Quit(c)

Next ==
    \/ ServerStep /\ UNCHANGED clientVars
    \/ ProcessStep /\ UNCHANGED clientVars
    \/ \E c \in Clients : ClientStep(c)

\* The server's loop and the reads of the clients go on; users and signals do what
\* they like.
Spec ==
    /\ Init
    /\ [][Next]_vars
    /\ WF_vars(ServerStep /\ UNCHANGED clientVars)
    /\ \A c \in Clients : WF_vars(Reads(c))

-----------------------------------------------------------------------------
TypeOK ==
    /\ ServerTypeOK
    /\ pc \in [Clients -> {"off", "menu", "awaitRes", "options", "awaitOpt", "online"}]
    /\ conn \in [Clients -> 0..MaxConns]
    /\ user \in [Clients -> Users \cup {""}]
    /\ opt \in [Clients -> ChatOptions \cup {0}]

\* A client that shows its user the chat options is logged in: as long as the
\* server it is connected to lives, it has the session of just that name, however
\* many clients ask for the name at the same time (socket_client.cpp:128-134,
\* socket_server.cpp:164-169).  Excepted are clients on a descriptor that a row of
\* a killed server names: a text they take for a response may put them a step
\* behind the server.
WelcomeIsTrue ==
    \A c \in Clients : (pc[c] = "options" /\ Alive(conn[c]) /\ ~Haunted(conn[c])) =>
        con[conn[c]] = [name |-> user[c], state |-> "AUTHENTICATED"]

\* What others write reaches a client that has not been let in on one way only,
\* the row of a killed server with the descriptor that the client's connection got
\* from the next one.  On every other connection nothing arrives before the first
\* request, and the first thing behind a request is its response
\* (socket_server.cpp:47-56, socket_client.cpp:15).
NoTextBeforeLogin ==
    \A c \in Clients : (Alive(conn[c]) /\ ~Haunted(conn[c])) =>
        /\ pc[c] = "menu" => Received(c) = << >>
        /\ (pc[c] = "awaitRes" /\ Received(c) # << >>) => Head(Received(c)) # "text"

\* What socket_client.cpp:166 offers: who selects "3: Exit" is let out.
ExitEnds == \A c \in Clients : (pc[c] = "awaitOpt" /\ opt[c] = 3) ~> (pc[c] = "off")

\* What socket_client.cpp:132 tells the user: "Login Successful" is shown because
\* the server said so.
SuccessIsAnAnswer ==
    [][\A c \in Clients : (pc[c] = "awaitRes" /\ pc'[c] = "options") =>
         (Received(c) # << >> /\ Head(Received(c)) = "SUCCESS")]_vars

\* What socket_client.cpp:149 tells the user: a login is refused as "User Already
\* Logged In" only while a connection has the session of that user, and its client
\* is there or the server is about to see that it is not.
RefusedOnlyIfLoggedIn ==
    \A k \in events \ {0} :
        (/\ con[k] # NoCon /\ con[k].state = "REQUEST" /\ toServer[k] # << >>
         /\ "USER_LOGGED_IN" \in CheckUserInfo(Head(toServer[k]))) =>
        \E s \in Conns :
            /\ Session(s) /\ con[s].name = Head(toServer[k]).name
            /\ ~fin[s] \/ s \in ready \cup events
=============================================================================
