----------------------------- MODULE ChatServer -----------------------------
(***************************************************************************)
(* The server of the chat room (lib/src/socket_server.cpp), its database   *)
(* (lib/src/database.cpp) and the sockets between it and its clients.      *)
(* ChatRoom.tla adds the clients.                                          *)
(*                                                                         *)
(* The server is one thread: epoll_wait returns a batch of events, and     *)
(* each of them is handled by one call that reads once.  The handlers are  *)
(* actions; clients, and the end of the process, come between them.        *)
(*                                                                         *)
(* The server never closes a descriptor, so accept hands them out in       *)
(* increasing order until the process ends.  Connections are numbered over *)
(* all runs of the server; connection k of a run that began after          *)
(* connection base has the descriptor k - base, which is what the database *)
(* stores.                                                                 *)
(*                                                                         *)
(* Client sockets are edge-triggered.  ready holds the connections on      *)
(* which something has arrived since the last epoll_wait reported them.    *)
(* What a read returns is modelled in units: a request, an option, a chat  *)
(* line, the rest of one whose beginning was read with the option.         *)
(***************************************************************************)
EXTENDS Integers, Sequences, FiniteSets

CONSTANTS
    Users,
    Options,   \* what a request asks for: 1 is a login, 2 a registration, and
               \* any other number but 3 is sent as well
    NoRow,     \* a user the database does not know
    NoCon,     \* a connection that is not in con_list
    MaxConns,  \* bound of the model: connections over all runs
    MaxFds,    \* bound of the model: connections of one run
    MaxIn,     \* the capacity of a socket, in units: what waits for the server
    MaxOut     \* and what waits for the client

\* A row of the table usrs, and what con_list knows of a connection.
Row == [status : {0, 1}, sockfd : -1..MaxConns]

Connection ==
    [name : Users \cup {""}, state : {"REQUEST", "AUTHENTICATED", "ONLINE"}]

ASSUME ChatAssumption ==
    /\ IsFiniteSet(Users)
    /\ Options \subseteq Nat
    /\ NoRow \notin Row
    /\ NoCon \notin Connection
    /\ MaxConns \in Nat \ {0} /\ MaxFds \in Nat \ {0}
    /\ MaxIn \in Nat \ {0} /\ MaxOut \in Nat \ {0}

Conns == 1..MaxConns

VARIABLES
    db,        \* the table usrs: [status, sockfd] or NoRow for each user
    up,        \* the server process runs
    base,      \* the connections of earlier runs are 1..base
    accepted,  \* the last connection accept returned
    opened,    \* the last connection a client opened
    con,       \* con_list: [name, state] or NoCon
    ready,     \* edges epoll has not reported
    events,    \* events reported and not handled; 0 is the listening socket
    toServer,  \* what each connection holds for the server to read
    toClient,  \* and for the client
    fin,       \* the client has closed its end
    reset,     \* the end that is closed has answered data with a reset
    aborted,   \* the server's end was closed with a reset, not an end of file
    stale,     \* history: the descriptor each row named when a server last was
               \* killed, -1 if none
    strays     \* history: the names this run of the server let in for an option
               \* it does not know

historyVars == <<stale, strays>>
processVars == <<up, base, accepted, historyVars>>
serverVars == <<db, processVars, con, events>>
socketVars == <<opened, ready, toServer, toClient, fin, reset, aborted>>

ServerInit ==
    /\ db = [u \in Users |-> NoRow]
    /\ up = TRUE
    /\ base = 0
    /\ accepted = 0
    /\ opened = 0
    /\ con = [k \in Conns |-> NoCon]
    /\ ready = {}
    /\ events = {}
    /\ toServer = [k \in Conns |-> << >>]
    /\ toClient = [k \in Conns |-> << >>]
    /\ fin = [k \in Conns |-> FALSE]
    /\ reset = [k \in Conns |-> FALSE]
    /\ aborted = [k \in Conns |-> FALSE]
    /\ stale = [u \in Users |-> -1]
    /\ strays = {}

Online(u) == db[u] # NoRow /\ db[u].status = 1

Fd(k) == k - base

Readable(k) == toServer[k] # << >> \/ fin[k]

Offline == [status |-> 0, sockfd |-> -1]

\* UpdateUserStatus(name, 0, -1): an UPDATE, which adds no row.
Departed(u) == IF db[u] = NoRow THEN db ELSE [db EXCEPT ![u] = Offline]

\* The descriptors in the rows of the table t.
Named(t) == [u \in Users |-> IF t[u] = NoRow THEN -1 ELSE t[u].sockfd]

\* A row that a killed server left online names the descriptor of connection k.
Haunted(k) == \E u \in Users : stale[u] = Fd(k)

-----------------------------------------------------------------------------
(* Sending *)

\* NotifyToOnelineUser: one send per online row, except those with the caller's
\* own descriptor.  What is sent is the same for all.
Rows(t, k) == {u \in Users : Online(u) /\ db[u].sockfd = Fd(t) /\ t # k}

Notify(k) == [t \in Conns |->
    IF t \in base + 1..accepted
    THEN [n \in 1..Cardinality(Rows(t, k)) |-> "text"]
    ELSE << >>]

\* What a client finds to read: the response it hopes for, one of the others, to
\* which it does the same, or a text.
Answers == {"SUCCESS", "REFUSED", "text"}

Respond(k, res) == [t \in Conns |->
    IF t = k THEN << IF res = "SUCCESS" THEN "SUCCESS" ELSE "REFUSED" >> ELSE << >>]

Then(out1, out2) == [t \in Conns |-> out1[t] \o out2[t]]

\* Data sent to a client that is gone is answered by a reset; what is sent after
\* that raises SIGPIPE, which the server neither ignores nor handles.
Fatal(out) == \E t \in Conns :
    out[t] # << >> /\ (reset[t] \/ (fin[t] /\ Len(out[t]) > 1))

\* The server's sockets do not block: what does not fit is dropped, and nobody
\* looks at what send returns.
UpTo(n, s) == SubSeq(s, 1, IF Len(s) < n THEN Len(s) ELSE n)

Deliver(out, ts) == [t \in Conns |->
    IF t \in ts /\ ~fin[t] THEN UpTo(MaxOut, toClient[t] \o out[t]) ELSE toClient[t]]

Transmit(out) ==
    /\ ~Fatal(out)
    /\ toClient' = Deliver(out, Conns)
    /\ reset' = [t \in Conns |-> reset[t] \/ (fin[t] /\ out[t] # << >>)]

\* The edges after the sends: a reset is one, on a connection epoll watches.
Edges(out) == ready \cup {t \in Conns : fin[t] /\ out[t] # << >> /\ con[t] # NoCon}

\* The process ends: its descriptors are closed, the database stays.  The kernel
\* resets a connection that was not accepted, or from which not all was read.
End ==
    /\ up' = FALSE
    /\ base' = opened
    /\ accepted' = opened
    /\ con' = [k \in Conns |-> NoCon]
    /\ ready' = {}
    /\ events' = {}
    /\ toServer' = [k \in Conns |-> << >>]
    /\ reset' = [k \in Conns |-> reset[k] /\ k <= base]
    /\ aborted' = [k \in Conns |->
           IF k \in base + 1..opened
           THEN ~fin[k] /\ (k > accepted \/ toServer[k] # << >>)
           ELSE aborted[k]]
    /\ strays' = {}
    /\ UNCHANGED <<opened, fin>>

\* The process is killed in the middle of the sends, by SIGPIPE if one of them is
\* fatal, by SIGKILL in any case: some of them were done.  The table stays as it
\* was left before them.
Broken(out, table) ==
    /\ db' = table
    /\ stale' = Named(table)
    /\ \E done \in SUBSET {t \in Conns : out[t] # << >>} : toClient' = Deliver(out, done)
    /\ End

-----------------------------------------------------------------------------
(* HandleConnections *)

\* epoll_wait: the listening socket is level-triggered, the others are reported
\* once for all that has arrived.
EpollWait ==
    /\ up
    /\ events = {}
    /\ LET now == {k \in ready : Readable(k)} \cup (IF accepted < opened THEN {0} ELSE {})
       IN now # {} /\ events' = now
    /\ ready' = {}
    /\ UNCHANGED <<db, processVars, con, opened, toServer, toClient, fin, reset, aborted>>

\* An accept that is repeated while the event is there.
HandleAcceptAgain ==
    /\ 0 \in events
    /\ accepted' = accepted + 1
    /\ con' = [con EXCEPT ![accepted + 1] = [name |-> "", state |-> "REQUEST"]]
    /\ UNCHANGED <<db, up, base, historyVars, events, socketVars>>

\* Accept and AddSocketToEpoll: what has already arrived is an edge.
HandleAccept ==
    /\ 0 \in events
    /\ events' = events \ {0}
    /\ accepted' = accepted + 1
    /\ con' = [con EXCEPT ![accepted + 1] = [name |-> "", state |-> "REQUEST"]]
    /\ ready' = IF Readable(accepted + 1) THEN ready \cup {accepted + 1} ELSE ready
    /\ UNCHANGED <<db, up, base, historyVars, opened, toServer, toClient, fin, reset,
                   aborted>>

\* A login that takes the last one who logs in to be the right one.
CheckUserInfoTakeOver(req) ==
    IF req.option \notin {1, 2} THEN {"SUCCESS", "UNKNOWN"}
    ELSE IF req.option = 2
    THEN IF db[req.name] = NoRow THEN {"SUCCESS"} ELSE {"DUPLICATE_USERNAME"}
    ELSE IF db[req.name] = NoRow THEN {"USERNAME_NOT_FOUND"}
    ELSE {"PASSWORD_NOT_MATCHING", "SUCCESS"}

\* CheckUserInfo: what it may return.  Whether the password of a login is the
\* stored one is left open.  For an option it does not know it returns a variable
\* nobody has set: a success, or anything else.
CheckUserInfo(req) ==
    IF req.option \notin {1, 2} THEN {"SUCCESS", "UNKNOWN"}
    ELSE IF req.option = 2
    THEN IF db[req.name] = NoRow THEN {"SUCCESS"} ELSE {"DUPLICATE_USERNAME"}
    ELSE IF db[req.name] = NoRow THEN {"USERNAME_NOT_FOUND"}
    ELSE {"PASSWORD_NOT_MATCHING", IF Online(req.name) THEN "USER_LOGGED_IN" ELSE "SUCCESS"}

\* A record without the descriptor.
RecordedNoSocket(req, res, k) ==
    IF res = "SUCCESS" /\ req.option \in {1, 2}
    THEN [db EXCEPT ![req.name] = [status |-> 1, sockfd |-> -1]]
    ELSE db

\* A record of everybody who asks for one, let in or not.
RecordedAlways(req, res, k) ==
    IF req.option \in {1, 2}
    THEN [db EXCEPT ![req.name] = [status |-> 1, sockfd |-> Fd(k)]]
    ELSE db

\* AddNewUserToDatabase or UpdateUserStatus, whichever the request leads to.
Recorded(req, res, k) ==
    IF res = "SUCCESS" /\ req.option \in {1, 2}
    THEN [db EXCEPT ![req.name] = [status |-> 1, sockfd |-> Fd(k)]]
    ELSE db

\* An answer after which the next thing read is an option, whatever it was.
AnsweredLetIn(k, req, res) ==
    con' = [con EXCEPT ![k] = [name |-> req.name, state |-> "AUTHENTICATED"]]

Answered(k, req, res) ==
    con' = [con EXCEPT ![k] =
        [name |-> req.name,
         state |-> IF res = "SUCCESS" THEN "AUTHENTICATED" ELSE "REQUEST"]]

\* A deletion that leaves the edge behind.
DelFromEpollLate(k, edges) ==
    /\ con' = [con EXCEPT ![k] = NoCon]
    /\ ready' = edges

\* A connection that epoll no longer watches has no edge to report.
DelFromEpoll(k, edges) ==
    /\ con' = [con EXCEPT ![k] = NoCon]
    /\ ready' = edges \ {k}

\* case REQUEST, read() <= 0: the client has gone before it logged in.
RequestGone(k) ==
    /\ k \in events /\ con[k] # NoCon /\ con[k].state = "REQUEST"
    /\ toServer[k] = << >>
    /\ events' = events \ {k}
    /\ DelFromEpoll(k, ready)
    /\ UNCHANGED <<db, processVars, opened, toServer, toClient, fin, reset, aborted>>

\* case REQUEST.  The user is in the database, and gets the notifications of the
\* others, from here on; one who is let in for an option the server does not know
\* is not.
HandleRequest(k) ==
    /\ k \in events /\ con[k] # NoCon /\ con[k].state = "REQUEST"
    /\ toServer[k] # << >>
    /\ LET req == Head(toServer[k])
       IN \E res \in CheckUserInfo(req) :
            \/ /\ db' = Recorded(req, res, k)
               /\ strays' = IF res = "SUCCESS" /\ req.option \notin {1, 2}
                            THEN strays \cup {req.name} ELSE strays
               /\ Answered(k, req, res)
               /\ Transmit(Respond(k, res))
               /\ ready' = Edges(Respond(k, res))
               /\ events' = events \ {k}
               /\ toServer' = [toServer EXCEPT ![k] = Tail(@)]
               /\ UNCHANGED <<up, base, accepted, stale, opened, fin, aborted>>
            \/ Broken(Respond(k, res), Recorded(req, res, k))

\* What a read of four bytes leaves of the stream.  An option is one byte: up to
\* three more come from the chat lines that are already there, an empty one being
\* no more than its terminating zero, and the last may be cut.  A request, out of
\* step here, is longer than four bytes.
AfterOption(s) ==
    LET cut == << [kind |-> "cut"] >>
        Behind(n) == SubSeq(s, n + 2, Len(s))
        lines == {n \in 1..3 : n < Len(s)}
    IN  IF Head(s).kind = "request" THEN {cut \o Behind(0)}
        ELSE IF lines = {} THEN {<< >>}
        ELSE {Behind(n) : n \in lines} \cup {cut \o Behind(n) : n \in lines}

\* case AUTHENTICATED, read() <= 0 or option == 3.  The three upper bytes of the
\* option are not read: it need not be recognised.  First the others are told,
\* then the database.
AuthenticatedLeaves(k) ==
    /\ k \in events /\ con[k] # NoCon /\ con[k].state = "AUTHENTICATED"
    /\ \/ toServer[k] = << >> /\ toServer' = toServer
       \/ /\ toServer[k] # << >>
          /\ Head(toServer[k]) = [kind |-> "option", number |-> 3]
          /\ \E rest \in AfterOption(toServer[k]) :
               toServer' = [toServer EXCEPT ![k] = rest]
    /\ Transmit(Notify(k))
    /\ db' = Departed(con[k].name)
    /\ DelFromEpoll(k, Edges(Notify(k)))
    /\ events' = events \ {k}
    /\ UNCHANGED <<processVars, opened, fin, aborted>>

\* The end of the process in the middle of either branch: the database is not
\* reached.
AuthenticatedBreaks(k) ==
    /\ k \in events /\ con[k] # NoCon /\ con[k].state = "AUTHENTICATED"
    /\ Broken(IF toServer[k] = << >> THEN Notify(k) ELSE Then(Respond(k, "SUCCESS"), Notify(k)),
              db)

\* case AUTHENTICATED: an option that is, or looks, different from 3.
HandleOption(k) ==
    /\ k \in events /\ con[k] # NoCon /\ con[k].state = "AUTHENTICATED"
    /\ toServer[k] # << >>
    /\ \E rest \in AfterOption(toServer[k]) : toServer' = [toServer EXCEPT ![k] = rest]
    /\ Transmit(Then(Respond(k, "SUCCESS"), Notify(k)))
    /\ ready' = Edges(Then(Respond(k, "SUCCESS"), Notify(k)))
    /\ con' = [con EXCEPT ![k].state = "ONLINE"]
    /\ events' = events \ {k}
    /\ UNCHANGED <<db, processVars, opened, fin, aborted>>

\* A departure that takes the connection from epoll and leaves the database alone.
OnlineLeavesSilently(k) ==
    /\ k \in events /\ con[k] # NoCon /\ con[k].state = "ONLINE"
    /\ toServer[k] = << >>
    /\ Transmit(Notify(k))
    /\ DelFromEpoll(k, Edges(Notify(k)))
    /\ events' = events \ {k}
    /\ UNCHANGED <<db, processVars, opened, toServer, fin, aborted>>

\* case ONLINE, read() <= 0: first the database, then the others.
OnlineLeaves(k) ==
    /\ k \in events /\ con[k] # NoCon /\ con[k].state = "ONLINE"
    /\ toServer[k] = << >>
    /\ \/ /\ db' = Departed(con[k].name)
          /\ Transmit(Notify(k))
          /\ DelFromEpoll(k, Edges(Notify(k)))
          /\ events' = events \ {k}
          /\ UNCHANGED <<processVars, opened, toServer, fin, aborted>>
       \/ Broken(Notify(k), Departed(con[k].name))

\* case ONLINE: one read takes all that is there, and the first line of it, up to
\* its terminating zero, goes to the others.
HandleChat(k) ==
    /\ k \in events /\ con[k] # NoCon /\ con[k].state = "ONLINE"
    /\ toServer[k] # << >>
    /\ \/ /\ Transmit(Notify(k))
          /\ ready' = Edges(Notify(k))
          /\ toServer' = [toServer EXCEPT ![k] = << >>]
          /\ events' = events \ {k}
          /\ UNCHANGED <<db, processVars, con, opened, fin, aborted>>
       \/ Broken(Notify(k), db)

-----------------------------------------------------------------------------
(* The life of the process *)

\* SIGKILL, or an exit the code does not see.
Kill ==
    /\ up
    /\ stale' = Named(db)
    /\ End
    /\ UNCHANGED <<db, toClient>>

\* SIGINT or SIGTERM: SignalHandler calls SetAllUsersOffline and exit.
Shutdown ==
    /\ up
    /\ db' = [u \in Users |->
                IF db[u] # NoRow /\ db[u].sockfd # -1 THEN Offline ELSE db[u]]
    /\ stale' = [u \in Users |-> -1]
    /\ End
    /\ UNCHANGED toClient

\* main(): a new process on the same database, which it takes as it is.
Restart ==
    /\ ~up
    /\ up' = TRUE
    /\ UNCHANGED <<db, base, accepted, historyVars, con, events, socketVars>>

Handle(k) ==
    \/ RequestGone(k)
    \/ HandleRequest(k)
    \/ AuthenticatedLeaves(k)
    \/ AuthenticatedBreaks(k)
    \/ HandleOption(k)
    \/ OnlineLeaves(k)
    \/ HandleChat(k)

ServerStep == EpollWait \/ HandleAccept \/ \E k \in Conns : Handle(k)

ProcessStep == Kill \/ Shutdown \/ Restart

-----------------------------------------------------------------------------
(* What a client's system calls do to the sockets *)

Alive(k) == k > base

\* connect(): done as soon as the connection is in the backlog.
Connect ==
    /\ up
    /\ opened < MaxConns /\ opened - base < MaxFds
    /\ opened' = opened + 1
    /\ UNCHANGED <<serverVars, ready, toServer, toClient, fin, reset, aborted>>

\* An arrival on a connection epoll watches.
Edge(k) == IF con[k] # NoCon THEN ready \cup {k} ELSE ready

\* A send: it waits for room.  One to a server that is gone succeeds and is
\* answered by a reset; the next would end the client.
Write(k, unit) ==
    \/ /\ Alive(k)
       /\ Len(toServer[k]) < MaxIn
       /\ toServer' = [toServer EXCEPT ![k] = Append(@, unit)]
       /\ ready' = Edge(k)
       /\ UNCHANGED <<serverVars, opened, toClient, fin, reset, aborted>>
    \/ /\ ~Alive(k) /\ ~reset[k] /\ ~aborted[k]
       /\ reset' = [reset EXCEPT ![k] = TRUE]
       /\ UNCHANGED <<serverVars, opened, ready, toServer, toClient, fin, aborted>>

Close(k) ==
    /\ fin' = [fin EXCEPT ![k] = TRUE]
    /\ ready' = IF Alive(k) THEN Edge(k) ELSE ready
    /\ toClient' = [toClient EXCEPT ![k] = << >>]
    /\ reset' = [reset EXCEPT ![k] = FALSE]
    /\ aborted' = [aborted EXCEPT ![k] = FALSE]
    /\ UNCHANGED <<serverVars, opened, toServer>>

Take(k, rest) ==
    /\ toClient' = [toClient EXCEPT ![k] = rest]
    /\ UNCHANGED <<serverVars, opened, ready, toServer, fin, reset, aborted>>

-----------------------------------------------------------------------------
Units ==
    [kind : {"request"}, option : Options, name : Users]
    \cup [kind : {"option"}, number : Nat]
    \cup [kind : {"chat", "cut"}]

ServerTypeOK ==
    /\ db \in [Users -> Row \cup {NoRow}]
    /\ up \in BOOLEAN
    /\ base \in 0..MaxConns /\ accepted \in base..MaxConns /\ opened \in accepted..MaxConns
    /\ con \in [Conns -> Connection \cup {NoCon}]
    /\ ready \subseteq Conns /\ events \subseteq Conns \cup {0}
    /\ toServer \in [Conns -> Seq(Units)]
    /\ toClient \in [Conns -> Seq(Answers)]
    /\ fin \in [Conns -> BOOLEAN] /\ reset \in [Conns -> BOOLEAN]
    /\ aborted \in [Conns -> BOOLEAN]
    /\ stale \in [Users -> -1..MaxConns] /\ strays \subseteq Users

Session(k) == con[k] # NoCon /\ con[k].state # "REQUEST"

\* Whoever has a session is online in the database under the descriptor of that
\* session, and so has no second one: also after the server was killed and a new
\* process reuses descriptors that old rows still name
\* (socket_server.cpp:112-144, :164-169, :181-206).  Only the sessions of a name
\* for which the unset variable of :114 let somebody in are no part of it.
SessionHasRow ==
    \A k \in Conns : (Session(k) /\ con[k].name \notin strays) =>
        db[con[k].name] = [status |-> 1, sockfd |-> Fd(k)]

\* Whoever is online in the database has a session on the descriptor of the row,
\* or is what a killed server left: departures, the signal handler and the logins
\* take every other row back with its session, and nobody is online while a server
\* that ran the signal handler is down (socket_server.cpp:5-10, :42-45, :181-206).
RowHasSession ==
    \A u \in Users : Online(u) =>
        \/ db[u].sockfd = stale[u]
        \/ \E k \in Conns : Session(k) /\ con[k].name = u /\ Fd(k) = db[u].sockfd

\* Status and descriptor of a row are set together: the clean-up of the signal
\* handler, which looks for the descriptor, finds everybody whom the login, which
\* looks for the status, would refuse (database.cpp:17-45).
OnlineIffSocket ==
    \A u \in Users : db[u] # NoRow => (db[u].status = 1 <=> db[u].sockfd # -1)

\* An event is one of a connection the server still knows.  On each the handler
\* reads what the state of the connection lets it expect: a request first, then the
\* option, then chat lines; nothing of an earlier step is left in front
\* (socket_server.cpp:42-45, :146-216).  Out of step are at most connections whose
\* descriptor a row of a killed server names: their clients get texts too early.
ReadsInStep ==
    /\ \A k \in events \ {0} : con[k] # NoCon
    /\ \A k \in Conns : (con[k] # NoCon /\ toServer[k] # << >> /\ ~Haunted(k)) =>
           LET kind == Head(toServer[k]).kind
           IN CASE con[k].state = "REQUEST" -> kind = "request"
                [] con[k].state = "AUTHENTICATED" -> kind = "option"
                [] con[k].state = "ONLINE" -> kind \in {"chat", "cut"}
=============================================================================
