---------------------------- MODULE RoutePlanner ----------------------------
(***************************************************************************)
(* The search of the Route Planning program: RoutePlanner::AStarSearch     *)
(* over the nodes and roads of a RouteModel (route_planner.cpp and         *)
(* route_model.cpp).  The map and the two end points are inputs, chosen    *)
(* in the initial state.                                                   *)
(*                                                                         *)
(* A road is the way it runs along: the sequence of its nodes.  Footways   *)
(* take no part in the search and are left out.  Distances are the same in *)
(* both directions and 0 between a node and itself only; nothing else that *)
(* holds of the Euclidean distance is used.  A vector whose order does not *)
(* matter (neighbors, and open_list, which is sorted before each use) is   *)
(* counted: how many times does it hold each node.                         *)
(***************************************************************************)
EXTENDS Naturals, Sequences, FiniteSets

CONSTANTS
    Nodes,     \* m_Nodes
    NoNode,    \* nullptr
    Roads,     \* the roads that are no footways
    Maps,      \* the maps considered: for each road the nodes of its way
    Dist       \* Node::distance, between any two nodes

ASSUME NodesAssumption == IsFiniteSet(Nodes) /\ NoNode \notin Nodes
ASSUME RoadsAssumption == IsFiniteSet(Roads)
ASSUME MapsAssumption == Maps \subseteq [Roads -> Seq(Nodes)]
ASSUME DistAssumption ==
    /\ Dist \in [Nodes -> [Nodes -> Nat]]
    /\ \A n, m \in Nodes : Dist[n][m] = Dist[m][n]
    /\ \A n, m \in Nodes : Dist[n][m] = 0 <=> n = m

VARIABLES
    ways,        \* Ways(), one for each road
    startNode,   \* start_node
    endNode,     \* end_node
    visited, parent, gValue, neighbors,   \* the fields of each node
    openList,    \* open_list
    current,     \* current_node
    path,        \* path_found and, once the search is over, m_Model.path
    distance,    \* distance, before it is scaled to metres
    pc           \* "search", "path", "done"; "undefined" once the behaviour is

mapVars == <<ways, startNode, endNode>>
nodeVars == <<visited, parent, gValue, neighbors>>
vars == <<mapVars, nodeVars, openList, current, path, distance, pc>>

-----------------------------------------------------------------------------
(* The map. *)

\* node_to_road lists a road for node n once for every time its way comes by.
NodeToRoad(n) == UNION {{r} \X {i \in DOMAIN ways[r] : ways[r][i] = n} : r \in Roads}

\* The nodes FindClosestNode may return: those of some road.
OnRoads == UNION {{ways[r][i] : i \in DOMAIN ways[r]} : r \in Roads}

\* A bug to be caught: a node that was visited before is a neighbour again.
EligibleAgain(n, r) == {i \in DOMAIN ways[r] : Dist[n][ways[r][i]] # 0}

\* The positions on road r whose node Node::FindNeighbor may return for n.
Eligible(n, r) ==
    {i \in DOMAIN ways[r] : Dist[n][ways[r][i]] # 0 /\ ~visited[ways[r][i]]}

\* A bug to be caught: the closest node is looked for among all the nodes, and
\* given up when it has been visited.
ClosestOfAll(n, r) ==
    {i \in Eligible(n, r) : \A j \in EligibleAgain(n, r) : Dist[n][ways[r][i]] <= Dist[n][ways[r][j]]}

Closest(n, r) ==
    {i \in Eligible(n, r) : \A j \in Eligible(n, r) : Dist[n][ways[r][i]] <= Dist[n][ways[r][j]]}

\* FindNeighbor: the first of the closest nodes on road r not yet visited.
FindNeighbor(n, r) ==
    IF Closest(n, r) = {} THEN NoNode
    ELSE ways[r][CHOOSE i \in Closest(n, r) : \A j \in Closest(n, r) : i <= j]

\* FindNeighbors: what n's neighbors hold afterwards.  They are added to those
\* of an earlier expansion, and two roads may well add the same node.
FindNeighbors(n) ==
    [m \in Nodes |-> neighbors[n][m]
                     + Cardinality({p \in NodeToRoad(n) : FindNeighbor(n, p[1]) = m})]

-----------------------------------------------------------------------------
\* The constructor and the first lines of AStarSearch.
Init ==
    /\ ways \in Maps
    /\ startNode \in OnRoads
    /\ endNode \in OnRoads
    /\ visited = [n \in Nodes |-> n = startNode]
    /\ parent = [n \in Nodes |-> NoNode]
    /\ gValue = [n \in Nodes |-> 0]
    /\ neighbors = [n \in Nodes |-> [m \in Nodes |-> 0]]
    /\ openList = [n \in Nodes |-> 0]
    /\ current = startNode
    /\ path = <<>>
    /\ distance = 0
    /\ pc = "search"

\* A bug to be caught: the cost so far is measured from the start, as the crow
\* flies.
AddNeighborsDirect(found) ==
    LET Added(m) == found[m] > 0
    IN  /\ neighbors' = [neighbors EXCEPT ![current] = found]
        /\ parent' = [m \in Nodes |-> IF Added(m) THEN current ELSE parent[m]]
        /\ gValue' = [m \in Nodes |-> IF Added(m) THEN Dist[startNode][m] ELSE gValue[m]]
        /\ visited' = [m \in Nodes |-> visited[m] \/ Added(m)]

\* AddNeighbors for the current node, the neighbours found being given.
AddNeighbors(found) ==
    LET Added(m) == found[m] > 0
    IN  /\ neighbors' = [neighbors EXCEPT ![current] = found]
        /\ parent' = [m \in Nodes |-> IF Added(m) THEN current ELSE parent[m]]
        /\ gValue' = [m \in Nodes |-> IF Added(m) THEN gValue[current] + Dist[current][m]
                                      ELSE gValue[m]]
        /\ visited' = [m \in Nodes |-> visited[m] \/ Added(m)]

\* The nodes that may be last once the open list is sorted: sort() orders nodes
\* of the same cost as it likes.  The heuristic is the distance to the end.
Cheapest(open) ==
    LET Cost(m) == gValue'[m] + Dist[m][endNode]
    IN  {n \in Nodes : open[n] > 0 /\ \A m \in Nodes : open[m] > 0 => Cost(n) <= Cost(m)}

\* NextNode and the test that follows it.
NextNode(open) ==
    \E n \in Cheapest(open) :
        /\ openList' = [open EXCEPT ![n] = @ - 1]
        /\ current' = n
        /\ pc' = IF Dist[n][endNode] = 0 THEN "path" ELSE "search"

\* NextNode does not ask whether the open list is empty: back() of an empty
\* vector may return, and do, anything.
NextNodeOfNone(open) ==
    /\ \A n \in Nodes : open[n] = 0
    /\ pc' = "undefined"
    /\ openList' = open
    /\ UNCHANGED current

\* One round of the loop of AStarSearch.
Search ==
    /\ pc = "search"
    /\ \E found \in {FindNeighbors(current)} :
          /\ AddNeighbors(found)
          /\ \E open \in {[m \in Nodes |-> openList[m] + found[m]]} :
                NextNode(open) \/ NextNodeOfNone(open)
    /\ UNCHANGED <<mapVars, path, distance>>

\* A bug to be caught: the loop runs until there is no node left.
FollowParentPastStart ==
    /\ pc = "path"
    /\ current # NoNode
    /\ path' = <<current>> \o path
    /\ UNCHANGED distance
    /\ current' = parent[current]
    /\ UNCHANGED <<mapVars, nodeVars, openList, pc>>

\* ConstructFinalPath: one round of its loop.
FollowParent ==
    /\ pc = "path"
    /\ parent[current] # NoNode
    /\ path' = <<current>> \o path
    /\ distance' = distance + Dist[current][parent[current]]
    /\ current' = parent[current]
    /\ UNCHANGED <<mapVars, nodeVars, openList, pc>>

\* A bug to be caught: the start is left out of the path.
FinishPathShort ==
    /\ pc = "path"
    /\ parent[current] = NoNode
    /\ pc' = "done"
    /\ UNCHANGED <<mapVars, nodeVars, openList, current, path, distance>>

\* A bug to be caught: the loop waits for the wrong end of the path.
FinishPathAtEnd ==
    /\ pc = "path"
    /\ current = endNode
    /\ path' = <<startNode>> \o path
    /\ pc' = "done"
    /\ UNCHANGED <<mapVars, nodeVars, openList, current, distance>>

\* ConstructFinalPath: what comes after the loop.
FinishPath ==
    /\ pc = "path"
    /\ parent[current] = NoNode
    /\ path' = <<startNode>> \o path
    /\ pc' = "done"
    /\ UNCHANGED <<mapVars, nodeVars, openList, current, distance>>

Next == Search \/ FollowParent \/ FinishPath

Spec == Init /\ [][Next]_vars

\* The program has one thread and goes on until AStarSearch returns.
FairSpec == Spec /\ WF_vars(Next)

-----------------------------------------------------------------------------
\* The types of the variables; every node of the path is a node of the map.
TypeOK ==
    /\ ways \in Maps
    /\ startNode \in Nodes
    /\ endNode \in Nodes
    /\ visited \in [Nodes -> BOOLEAN]
    /\ parent \in [Nodes -> Nodes \cup {NoNode}]
    /\ gValue \in [Nodes -> Nat]
    /\ neighbors \in [Nodes -> [Nodes -> Nat]]
    /\ openList \in [Nodes -> Nat]
    /\ current \in Nodes
    /\ path \in Seq(Nodes)
    /\ distance \in Nat
    /\ pc \in {"search", "path", "done", "undefined"}

OnOneRoad(n, m) ==
    \E r \in Roads : \E i, j \in DOMAIN ways[r] : ways[r][i] = n /\ ways[r][j] = m

\* Every node reached hangs from a node on one of its own roads, and its
\* g_value is that node's plus the distance between them, although a node
\* expanded twice sets the fields of all its neighbours again.  Only the start
\* and the nodes not yet visited have no parent (AddNeighbors).
CostOfTheWay ==
    \A n \in Nodes :
        IF parent[n] = NoNode THEN visited[n] => n = startNode
        ELSE /\ visited[n] /\ visited[parent[n]]
             /\ OnOneRoad(parent[n], n)
             /\ gValue[n] = gValue[parent[n]] + Dist[parent[n]][n]

\* No node that has a parent ever gets another one, and the start gets none,
\* although neighbors are never cleared and a node may wait in the open list
\* several times: the chain of parents ConstructFinalPath follows is stable.
ParentsStay ==
    [][\A n \in Nodes : visited[n] => parent'[n] = parent[n]]_vars

\* What AStarSearch leaves in m_Model.path: a walk along the roads from the
\* start to the end that visits no node twice, and whose length is distance.
\* While it is built, the node to go on from is on none of it.
PathIsRoute ==
    /\ pc \in {"path", "done"} => \A i, j \in DOMAIN path : path[i] = path[j] => i = j
    /\ pc = "path" => \A i \in DOMAIN path : path[i] # current
    /\ pc = "done" =>
          /\ Len(path) > 1 /\ path[1] = startNode /\ path[Len(path)] = endNode
          /\ \A i \in 1 .. Len(path) - 1 : OnOneRoad(path[i], path[i + 1])
          /\ distance = gValue[endNode]

\* The end can be reached from the start along the roads: no set of nodes the
\* roads do not lead out of holds the start alone.
Connected ==
    \A S \in SUBSET Nodes :
        /\ startNode \in S
        /\ \A n \in S, m \in Nodes : OnOneRoad(n, m) => m \in S
        => endNode \in S

\* Each expansion takes one neighbour from a road only, the closest not yet
\* visited, and yet the search never runs out of open nodes (and into the
\* undefined behaviour of NextNode) when there is a way to an end that is not
\* the start itself.
SearchFindsRoute ==
    pc = "undefined" => startNode = endNode \/ ~Connected

\* AStarSearch comes to an end on every map: do ... while(true) and the loop of
\* ConstructFinalPath are both left.
Terminates == <>(pc \in {"done", "undefined"})
=============================================================================
