# A verification development for self-training

The repository holds four C++ programs that share nothing but the repository:

| program | what it is | what makes it hard |
|---|---|---|
| Concurrent Traffic Simulation | vehicles, intersections and traffic lights, each with a thread | mutexes, a condition variable, promises, an unguarded flag shared by two threads |
| ChatRoom | a chat server (epoll, SQLite) and its clients | messages in flight, clients and server that end at any time, a table that outlives the server |
| Route Planning | A* search on an OpenStreetMap file | an algorithm over mutable nodes, undefined behaviour of an empty list |
| System Monitor | a table of processes read from /proc | counters that move between two reads |

Their own logic is what is modelled here; drawing, parsing of files and layout
are not. Everything below names the source by file and line.

## 1. Inventory

### Concurrent Traffic Simulation

* **MessageQueue** (`TrafficLight.cpp:11-33`). State: a deque, a mutex, a
  condition variable. Operations: `send`, `receive`. Correct when no message is
  lost or delivered twice, when no receiver sleeps through a message, and when
  each call looks like one step.
* **TrafficLight** (`TrafficLight.cpp:35-94`). State: `_currentPhase`, the queue.
  Its thread flips the phase and announces it through an asynchronous `send` it
  waits for; `waitForGreen` consumes the queue. Nothing else ever empties it.
* **Intersection with WaitingVehicles** (`Intersection.cpp`). State: two vectors
  (vehicles and promises) under a mutex, `_isBlocked` (a plain bool written by
  two kinds of threads), a light. The queue thread polls and lets the first
  vehicle in; `addVehicleToQueue` runs in a thread of its own that the vehicle
  waits for, and holds the static `TrafficObject::_mtx`, the one mutex of all
  objects in the city, while it waits for the light.
* **Vehicle, Street, the city** (`Vehicle.cpp`, `Street.cpp`,
  `TrafficSimulator-Final.cpp`). State: street, position, destination, and the
  local flag `hasEnteredIntersection`. `drive()` is the loop that calls the
  intersection.
* **Graphics**: reads positions and phases to draw them. Not modelled.

Threads interact by calls (vehicle to intersection to light), through promises
(queue thread to vehicle), through the flag (vehicle to queue thread) and
through the message queue (light to vehicle).

### ChatRoom

* **Server** (`lib/src/socket_server.cpp`). State: `con_list` (name and state
  REQUEST, AUTHENTICATED or ONLINE of each connection), the pending events.
  One thread: `epoll_wait`, then one handler per event, which reads once.
* **User table** (`lib/src/database.cpp`). One row per user: password, status,
  socket number. It outlives the server process.
* **Client** (`lib/src/socket_client.cpp`). A login dialogue, the choice of a
  chat option, then a reading and a writing thread. Its window is not modelled,
  nor are the five attempts of `Connect`.

Server and client interact by byte streams; server runs interact with each other
through the table; signals end either side at any time.

### Route Planning

* **RoutePlanner** (`route_planner.cpp`): `open_list`, start and end, the result.
* **RouteModel** (`route_model.cpp`): nodes with `parent`, `g_value`, `visited`,
  `neighbors`; for each node the list of its roads.
* **Model** (`model.cpp`): `m_Nodes`, `m_Ways`, `m_Buildings`, `m_Waters`,
  `m_Landuses`. `LoadData` reads the relations of the map; `BuildRings` sorts the
  members of an area into closed and open ways, and its `Track` joins open ways into
  rings by a recursive search with marks. Correct when the search ends, makes
  rings of the members' nodes and of nothing else, overlooks none, and reads no
  storage that has moved.
* **Render, main**: drawing and input. Not modelled.

### System Monitor

* **Processor** (`processor.cpp`). State: `prevtotal`, `previdle`. `Utilization` reads
  `/proc/stat` four times and divides two differences. Correct when the division
  is defined, the share is one, and errors do not add up from sample to sample.
* **Process, System** (`process.cpp`, `system.cpp`). State: `processes_`. `Processes` lists
  the numbers in `/proc`, constructs a snapshot of each process from its files,
  one file at a time, and sorts them. Correct when a row says one process's own
  values although processes end and numbers are reused meanwhile.
* **LinuxParser** (`linux_parser.cpp`): no state; opens a file on each call.
* **NCursesDisplay, Format**: the loop that shows both and sleeps; layout.

The kernel is the other actor: it counts jiffies and starts and ends processes
between any two reads. Monitor and kernel share the files in `/proc`.

The hazards of all this code, each at its line, with the properties that guard
against it or the reason why none does, are in `PROJECT.json`.

## 2. Modules

| module | models | extends or instantiates |
|---|---|---|
| LifoMailbox | what a message queue promises | |
| MessageQueue | `send` and `receive` between mutex and condition variable | refines LifoMailbox |
| TrafficLight | the light's thread, `waitForGreen` | uses Put and Take of LifoMailbox as its queue |
| FifoGate | what an intersection promises | |
| Intersection | the entry protocol of all threads | instantiates TrafficLight, refines FifoGate |
| TrafficSimulation | `drive()` on a city map | instantiates Intersection and refines it |
| ChatServer | event loop, table, sockets, life of the server | |
| ChatRoom | the clients | EXTENDS ChatServer |
| RoutePlanner | the search and the road lists | |
| Rings | the relations of a map, `BuildRings`, `TrackRec` | |
| Processor | `Utilization` and its four readings | |
| ProcessTable | `Processes()`, the constructor of `Process`, the per-process parsers | |
| SystemMonitor | the display loop | EXTENDS Processor, instantiates ProcessTable |
| ...Proofs | theorems about the module of that name | EXTENDS the module, TLAPS |
| MC... | constants and symmetry of the runs | |

In every module the definitions introduced by a comment as a bug (or described
as what the code does not do) are alternatives to the definition below them:
they take no part in any specification and serve to show that the properties
notice such a change.

### Correspondence with the code

**MessageQueue.** `pc` is where a thread is in `send` (`push`, `notify`) or
`receive` (`lock`, `check`, `waiting`, `take`). Checking the predicate and going
to sleep is one step, as `wait` releases the mutex atomically; a wakeup only
makes the thread compete for the mutex again, and may be spurious.

**TrafficLight.** `Toggle` is the flip together with the copy that `std::async`
takes; `Send` is that task. `Receive` is one iteration of `waitForGreen`. The
4 to 6 seconds of a cycle become "at any moment". `MaxMsgs` stops a light whose
queue is full: the queue of the code grows without end.

**Intersection.** One value of `pc[v]` for each place of `addVehicleToQueue` where
another thread can see a difference: `announce` (the print under `_mtx`), `push`,
`await` (the future), `granted` (locking `_mtx` again), `checkLight`,
`waitForGreen`, `crossing`; and `driving` outside. `procPc[i]` does the same for
the queue thread: `poll` reads size and flag, `block` sets the flag, `permit`
fulfils the first promise. Reading the size and reading the flag are one step:
only this thread removes vehicles and only it sets the flag, so what it saw
first cannot be undone in between. `HasLeft` resets the flag and turns to the next
destination in one step; the vehicle itself is the only reader of its destination.

**TrafficSimulation.** A position is `way`, `halt` (past 90% of the street) or `end`.
Since `completion` is computed before the vehicle waits for entry and tested
again after it (`Vehicle.cpp:59`, `:77`, `:91`), one iteration may go from `way`
past both. `queryStreets` and the choice of the next street are as in the code, a
dead end turns the vehicle round.

**ChatServer.** One action per branch of `HandleSingleSocketCon`, `HandleAccept` and
`EpollWait` for the loop. Handlers are atomic, but a kill (SIGKILL at any moment,
SIGPIPE at a send to a peer that has answered with a reset) may leave only some
of a handler's messages sent. The signal handler runs between handlers. Sockets
hold up to `MaxIn` units for the server and `MaxOut` for the client; a send of the
server that does not fit is dropped, for its sockets do not block and it ignores
what `send` returns, while a client's send waits. What epoll reports is one edge per
arrival (EPOLLET); `ready` holds edges not yet reported, among them the resets that
the server's own sends provoke (`Edges`). `DelFromEpoll` takes a connection out of
`con_list` and out of `epoll`, and the edge it may have had with it. Descriptors are
reused by the next run of the server: connection `k` has descriptor `k - base`. A batch
of events may be handled in any order. Passwords are not modelled: whether the one
in a login is the stored one is left open, so that `CheckUserInfo` may always answer
that it is not. Requests carry any option but 3, and for one other than 1 and 2 the
answer is SUCCESS or something else, as the variable that nobody has set may be. The
read of an option may take up to three chat lines that have arrived behind it (an
empty one is one byte) and the beginning of another, of which the unit `cut` is
left. Two variables remember what the properties need to name: `stale`, the descriptor
of each row at the last kill, and `strays`, the names let in for an unknown option in
this run. No action of the code depends on them.

**ChatRoom.** `pc[c]` is the state of a client's dialogue. `ReadResponse` and
`ResponseFromNobody` are the two outcomes of `SendRequest`: an answer, or an end
of file that the code takes for success. Four bytes of a text are taken for a
response too, one that is no success; what is behind them is still a text, unless
they were its last (`AfterResponse`).

**RoutePlanner.** `Search` is one round of the loop of `AStarSearch`: `FindNeighbors`,
the updates of `AddNeighbors`, then `NextNode` and the test for the end. `sort`
orders nodes of equal cost as it likes, so `NextNode` takes any of the cheapest.
`back()` of an empty list is `pc = "undefined"`. `FollowParent` and `FinishPath` are
`ConstructFinalPath`. Distances are exact numbers; the rounding of floats is left
out.

**Rings.** A map is its ways (lists of nodes, some of them unknown) and its
relations (lists of children: members, and the tags that decide). `ReadMember` to
`EndOfFile` are the loop of `LoadData`, `Process` to `Finish` the lambda `process` of
`BuildRings`, called for the outer and then for the inner members. `TrackRec` is
recursive; `marks` is its call stack, one entry per call that has marked a way, and
the steps are those of the innermost call: `Mark` marks, appends the nodes (turned
round if need be) and calls; `GiveBack` is a call that returns false to a caller
that undoes its mark; `RingFound` is all of them returning true. `ways` of the code is
the pointer `m_Ways.data()`, taken by `process` before it appends to `m_Ways`: `room`
is the free capacity, any number after a growth, and `stale` says that the storage
has moved. A read through the stale pointer, and `front()` of a way without nodes,
lead to `pc = "undefined"`, where the model stops, because the code promises
nothing there. `Pick` keeps the elements of a list at some of its positions, as the
loop at `model.cpp:263` and `remove_if` do. `Documents` is any set of maps whose
relations name ways that are in the file, or are unknown (`DocumentsAssumption`).

**Processor.** `Jiffies() = ActiveJiffies() + IdleJiffies()`, and `ActiveJiffies` is a sum
minus another reading; so one call of `Utilization` reads `/proc/stat` four times, in
one of two orders, for C++ leaves it open which operand of `+` comes first
(`activeFirst`). The registers `sum`, `minus`, `plus`, `idle` are what each reading gave.
The ten counters are two, the idle ones and the others. At most `ReadTicks` jiffies
pass during a sample and at least `SleepTicks` before one; of a longer rest only
that it was long enough is remembered. `Drift` is how many idle jiffies passed
within the sample.

**ProcessTable.** What the listing of `/proc` yields is the set `pids`; its order does not
matter, for the rows are sorted afterwards (`Pid` is the one read next). One action per
file that is opened. What a file says is abstracted
to *whose* file it was: a field of a row is the process that answered, or `Gone`. The
user is an exception: an empty uid is found in the first line of `/etc/passwd`, so
it becomes `FirstUser`. `stat` is opened and read in two steps, because the code
tests only whether it can be opened: if the process ends in between, `stol` of an
empty word throws and nobody catches it (`step = "terminated"`). `Share` stands for the
arithmetic of `cpu_utilization_`, and depends on whose jiffies and whose start time
were read.

**SystemMonitor.** `Display` fills the upper window (`Utilization`), then the lower one
(the table), then sleeps. To keep the product small the kernel counts only while
the first is filled, and starts and ends processes only while the second is:
neither window looks at what the other depends on, so that such steps commute
with the display's.

## 3. Runs

| run | bounds | shows |
|---|---|---|
| message_queue | 2 senders, 3 receivers, 3 messages | mutual exclusion, no lost wakeup, refinement of LifoMailbox with its liveness |
| traffic_light | 2 lights, 1 caller, 4 messages | phase and message agree; every `waitForGreen` returns |
| wait_for_green | the same | counterexample: it returns on red |
| intersection | 3 vehicles, 2 intersections, 1 message; 47,304 states | the entry protocol is safe, refines FifoGate with its liveness, and never comes to a halt |
| traffic_simulation | 2 vehicles, 3 streets, 3 intersections, 1 message | journeys follow the map; refinement of Intersection |
| chat_room | 2 users, 2 clients, options 1, 2 and 4, 3 connections, 2 per run of the server, 2 units for the server and 1 for the client; 1,159,329 states | table, sessions and clients agree, reads are in step, and how far a killed server's rows reach |
| chat_exit | 1 user | counterexample: "3: Exit" hangs |
| chat_server_gone | 1 user | counterexample: success that nobody announced |
| chat_refused | 1 user | counterexample: refused as logged in after a restart |
| route_planner | 5 nodes, all maps of 3 roads out of 7 ways | the search is well defined, ends, and finds a route |
| rings | 8 ways over 4 nodes, 3 or 4 members per list, 2 free places; 72,802 states | `BuildRings` ends, joins all that can be joined, and when its stale pointer is read |
| system_monitor | 2 numbers, 2 processes, 1 row, 1 jiffy per sample and 2 between, 6 in all; 5.9 million states | the share is one, its errors do not add up, the table says of each process its own |

*Why these bounds are enough to be of use.* Three vehicles give a queue of two
behind one inside, and two intersections let a vehicle return while another is
about to be let in. In these two runs a light has room for one message, and a light
whose queue is full stands still: a light that is red with an old message behind it
and nobody waiting does not occur there, and with two messages neither run ends within
five minutes. Such lights, with up to three old messages, are in run traffic_light,
where every wait is shown to end; that nothing which is proved of the intersections
depends on `MaxMsgs` is section 5. Three receivers and two senders
allow a notification to find another thread than the one whose message it was.
In the chat two connections of one run are the second login of a name and a
notification; with the third, of a later run, they are the reuse of a descriptor that
an old row names, by a client that is or is not let in. Option 4 stands for all that the
server does not know. A socket of capacity 1 is one whose next message is dropped; the
three runs with counterexamples have room for two. The ways of the route planner include
closed ones and one that goes back on itself, so that a node lists a road twice,
and ties between distances; the 343 maps with all pairs of end points cover
connected and unconnected ends. The maps of run rings have every list of three
members of eight ways (closed, reversed, of one node, of none that is known, the
same way twice), so that the search goes into dead ends and has to undo them, and
lists of four that make two rings, which the stale pointer needs. Two processes
and two numbers are a process that ends, one that takes over its number, and a
list of two; six jiffies are two samples with one jiffy in each. The theorems of
section 5 remove most of these bounds for safety. Symmetry is used in
`ChatRoom.cfg` only, where no liveness is checked.

*What stops by itself.* The search of the route planner and the reading of a map end
(`CHECK_DEADLOCK FALSE` in `RoutePlanner.cfg` and `Rings.cfg`); the counters of
`SystemMonitor.cfg` are bounded, and the monitor itself may be terminated. Every
other system is checked for deadlock.

### Findings

* `waitForGreen` (`TrafficLight.cpp:47`) loops while it receives green and returns
  on the first red; the comment above it asks for the opposite (wait_for_green).
* "3: Exit" (`socket_client.cpp:166`) leaves the client reading an answer that
  never comes (chat_exit).
* A server that is gone counts as a successful login (`socket_client.cpp:15`,
  chat_server_gone).
* A user who was online when the server was killed is refused for ever after
  (`socket_server.cpp:136`, chat_refused).

Remarks without a run of their own, because nothing in the repository says
otherwise or the model shows it as a state:

* With a second ring in one list of members, or open members left over after the
  first, `Track` may read `m_Ways` through a pointer to storage that has moved
  (`model.cpp:260`, `:274`). `OneRingIsSafe` says that nothing else leads there.
* The share of the CPU may be below 0 by up to two jiffies for every idle jiffy that
  passes during a sample (`ShareInRange` gives the exact bound).
* A process that has ended when its uid is read is shown with the user of the first
  line of `/etc/passwd`, root (`linux_parser.cpp:263`); one that ends between opening
  and reading of its stat file ends the monitor (`linux_parser.cpp:128`).
* Rows of processes that have ended, or whose number has passed to another while it was
  read, may be mixed of two processes; `TableIsTrue` is about the others and allows
  these (`system.cpp:35`).
* A name is let in without a row, by chance, when its client asks for an option the
  server does not know (`socket_server.cpp:114`).
* A text that another user writes between a login and the choice of the chat option
  is taken for the answer to that choice (`socket_client.cpp:173`).
* After a kill and a restart the rows of the killed server send texts to whoever has got
  their descriptors (`socket_server.cpp:51`).
* `Process::UpTime` is announced as the age of the process (`process.cpp:29`) and is the
  time at which it started.

## 4. Fairness

* *MessageQueue*: a thread inside an operation goes on when it can (weak fairness of
  each thread). Nobody has to call, and nothing is assumed of the mutex.
* *TrafficLight, Intersection*: every thread is an infinite loop with a sleep, hence
  weak fairness of each. `SomeoneAlwaysCrosses` holds with that alone. `EntryIsServed`
  is stated under `FairMutex`, strong fairness of the two lock steps of each
  vehicle, because `std::mutex` promises nothing of the kind: without it one
  vehicle may be passed over for ever, and the property says what it depends on.
* *ChatRoom*: the server's loop and the reads of the clients go on; users, signals
  and restarts are free. Only `ExitEnds` needs it.
* *RoutePlanner, Rings*: a sequential program goes on.
* *SystemMonitor*: none; its properties are invariants.

## 5. Proofs

The theorems hold for all values of the constants that satisfy the assumptions
named in the modules. Every invariant and every safety property of the passing runs
is stated by a theorem, and so is the safety part of each refinement.

| module | proves | assumptions beyond the null values being distinct |
|---|---|---|
| IntersectionProofs | the six invariants of run intersection; `FirstComeFirstServed` (safety of FifoGate); `LightsAsSpecified` (safety of TrafficLight) | none |
| TrafficLightProofs | types, `SentPhaseIsCurrent` | none |
| MessageQueueProofs | types, `MutualExclusion`, `NoLostWakeup`; `Implements` (safety of LifoMailbox) | finitely many receivers |
| TrafficSimulationProofs | `OnOwnStreet`, `Journey`, `RefinesIntersection`; `SafeCity`, `FairCity` | a street has two different ends, a vehicle starts towards one of them |
| RoutePlannerProofs | types, `CostOfTheWay`, `PathIsRoute`, `SearchFindsRoute`, `ParentsStay` | finite map; distances symmetric and 0 only from a node to itself |
| RingsProofs | types, `NothingLeftToJoin`, `OneRingIsSafe`, `RingsOfMembers` | the maps are as `DocumentsAssumption` says |
| ChatRoomProofs | types, `SessionHasRow`, `RowHasSession`, `OnlineIffSocket`; `ReadsInStep`, `WelcomeIsTrue`, `NoTextBeforeLogin` | finitely many users |
| SystemMonitorProofs | `ShareInRange`, `ErrorsDoNotAccumulate`, for Processor and for SystemMonitor; `MonitorTypeOK`, `TableIsTrue` | `ReadTicks < SleepTicks`; finitely many numbers |

*Intersection.* `AtMostOneInside` is not inductive: nothing in it keeps the queue
thread from letting a vehicle into an occupied intersection. What does is the
flag, so `BlockedIffOccupied` is needed; it survives the window between the test
of the flag and its setting because nobody enters in that window, which is
`EmptyWhileLettingIn`; the step that fulfils the promise needs a vehicle there
(`PermitHasWaiter`) that really waits, at this intersection, and stands in the queue
once (`WaitersQueuedOnce`), or it could be let in twice. With the types and the
holder of `_mtx` (`MtxHeldAtLight`) this is `IInv`. There is a lemma for each action;
steps that touch only `pc`, `mtx` and the light share `GateUnaffected`. The
refinement maps `PushBack` to `Arrive`, `Permit` to `Admit`, `HasLeft` to `Leave`, and
everything else to a stutter, under `IInv`. A second one says that the vehicles use the
lights as TrafficLight has it: a vehicle is a caller while it is at `waitForGreen`,
`CheckLight` at a red light is `CallWaitForGreen`, `WaitForGreen` is `Receive`. The step
that could spoil it is `Permit`, which moves another thread's `pc`; it does not,
because the vehicle in front of a queue is at its promise (`WaitersQueuedOnce`). Through
this refinement the theorem on announcements holds at every intersection
(`AnnouncementsInStep`).

*TrafficSimulation.* The vehicles stay on the map (`MapInv`): the street a vehicle turns
onto meets the intersection it has passed, and the other end of it becomes the
destination. So every step is one Intersection allows, and its theorems hold in the
city (`SafeCity` and `FairCity` instantiate them through the refinement).

*MessageQueue.* `NoLostWakeup` speaks of the moments when the mutex is free. Between
the push of a message and its notification there may be one message more than
receivers awake; `WakeupsSuffice` counts that one, and is inductive with the types,
with who holds the mutex, and with what a thread past its test may rely on. Each
notification that wakes somebody adds one to `Awake`; a receiver that takes a message
and one that goes to sleep with an empty queue keep the inequality.

*RoutePlanner.* The parents form a tree that hangs from the start and along which
`g_value` grows (`Tree`), so `ConstructFinalPath` comes back to the start without
meeting a node twice (`PathSoFar`). `neighbors` is never cleared, which is harmless
because whatever it holds has the expanded node as its parent already. The open
list cannot run dry: every road with a visited and an unvisited node has a node
still to be expanded (`Frontier`), since the expansion of a node adds the closest
unvisited one of each of its roads.

*Rings.* The three properties need one invariant. What happens to the lists is counted
in places of nodes (`Total`): `Pick` keeps them, a new way adds its own, and a ring is
as long as the ways that are marked, which the stack of TrackRec's calls says
(`StackOf`: at every depth the nodes are those of the depth below and then those of
the way marked there). The walk runs along members because a marked way touches
(`RunsAlong`). That the search overlooks nothing is an argument about parity. Let a
call have the nodes from `h` to `x`. If they could be completed to a ring, some of the
ways left would meet evenly at all nodes but `x` and `h` (`Joinable`), and then one of
them begins or ends at `x`, and the others can be joined from its other end
(`JoinOne`). So a loop that has failed for every way at `x` has shown that there is
none: `TriedOf` says it, at every depth, of the entries the loop has passed, and
survives both the recursive call (`PushTried`) and the return of false (`PopTried`). At
the outermost call it says that no ring can be made (`NoRing`). No induction over the
depth is needed, for each step of the search disturbs one depth only. The stale
pointer: nothing but a new ring moves the storage (`MovedByRing`), and the number of
the new way is beyond those of the members.

*Chat room.* That table and `con_list` agree depends on what the server reads: the name
of a session is that of a request. So the invariant says what can be on its way to
and from a connection that has no session yet (`BeforeLogin`), and that depends on the
clients, which send something else only after they read a SUCCESS (`ClientsLetIn`). No
other connection can send a SUCCESS, and none can take the descriptor of a session
while it lasts. A login for an option the server does not know gives a session
without a row; the sessions of its name are the exception in `SessionHasRow`, and no
other statement needs one.

The second part (`DInv`) adds an account of every conversation (`Talk`: a request is on its
way, refused, or granted; an option is on its way; lines follow) and of the streams
(`InOrder`), for every connection that is not `Haunted`: whose descriptor no row named
when a server was last killed. It needs the agreement of rows and sessions: a row that is
online names the descriptor of a session or one such a row names, so no text is sent to
another connection before its login, and the next thing a client reads there is the
answer to its request. The exception is per connection, not per run: after a kill and a
restart the statements hold of every connection but the haunted ones, and of those
they need not (hazard at `socket_server.cpp:51`). `DInv` needs, too, that no two clients share a
connection (`OwnConnection`), that epoll watches and reports connections of `con_list` only
(`Watched`: a deletion drops the edge, and the resets that a handler provokes leave none on
a deleted connection), and that every event handled finds something to read or an end
of file.

*System monitor.* Each reading is bounded from the moment it was taken by the counters
at the beginning of the sample and by the counters now (`Registers`), and the counters
keep their distance from the fields of Processor, before a sample (`Resting`) and
during one (`Sampling`). `SystemMonitor` implements `Processor` (`MonitorSamples`), so both
properties hold in the whole loop.

The table of the processes is another matter (`TableInv`, proved of ProcessTable; the loop
of the monitor implements it, `MonitorTables`). A process that has ended does not come
back, so what a file said about a number is of the process that was listed, as long
as that one is still behind the number, and of any other reader `Gone` or a later
process (`NoReturn`, `RowsOwn`); a number is either still in `pids` or has its row, never
both (`ListedOnce`). Together they
give one row for each number; that the window shows the greatest shares is the order
of the rows.

*Only model-checked.* All liveness (`SomeoneAlwaysCrosses`, `EntryIsServed`, `WaitEnds`, both
`Terminates`, and the fairness of GateSpec and MailboxSpec): the provers here do not
handle fairness. In particular, that the search of Rings ends, which needs a measure
over the stack of its calls. The counterexample runs.

## 6. Not modelled

* Traffic: pixels, speed and drawing; races on positions that only the drawing reads.
* Chat: the client's window, where `msg_queue` is used after its lock was released
  (`socket_client.cpp:41`); the five attempts of `Connect`; failing SQLite statements
  (`UpdateUserStatus` ignores them, `socket_server.cpp:133`) and SQLite inside a signal
  handler; limits of descriptors; that the last bytes of a text and the first of a response
  behind it may be read as one response, which can only happen on a descriptor that a
  row of a killed server names; the scripts in autotest.
* Route planning: XML and its parsing, the tags of ways (a table of names),
  `AdjustCoordinates` (arithmetic on doubles), that `FindClosestNode` finds the closest
  node, rounding, nodes at one place; rendering.
* System monitor: the text of the files in `/proc`; values of the upper window that
  are read and kept nowhere; the arithmetic of `cpu_utilization_`, of which only the
  order it gives matters here; kernels whose iowait goes back; layout.
* Memory effects weaker than sequential consistency: `_isBlocked` and `_currentPhase` are
  plain variables read by other threads, which C++ leaves undefined; the model
  gives each read the current value, what a mainstream build does.

## 7. Plan

What is left, in this order:

1. The chat client's window: its two threads and `msg_queue`, with the pop between the
   unlock and the use.
2. A measure for `TrackRec` that goes down with each step, as an action property: what
   is left of its termination when fairness is set aside.
