------------------------- MODULE RoutePlannerProofs -------------------------
(***************************************************************************)
(* Proofs about RoutePlanner.tla, for every map with finitely many nodes   *)
(* and roads and all distances.                                            *)
(*                                                                         *)
(* The parents form a tree that hangs from the start (Tree) and along      *)
(* which g_value grows, so that ConstructFinalPath comes back to the start *)
(* without meeting a node twice (PathSoFar).  The search cannot run dry    *)
(* while the end is unreached, for every road that has both visited and    *)
(* unvisited nodes has one that is still to be expanded (Frontier).        *)
(***************************************************************************)
EXTENDS RoutePlanner, FiniteSetTheorems, SequenceTheorems, WellFoundedInduction, TLAPS

On(n, r) == \E i \in DOMAIN ways[r] : ways[r][i] = n

Tree ==
    /\ visited[startNode] /\ parent[startNode] = NoNode /\ gValue[startNode] = 0
    /\ visited[current]
    /\ \A n \in Nodes : parent[n] # n
    /\ \A n, m \in Nodes : neighbors[n][m] > 0 => parent[m] = n
    /\ \A n \in Nodes : openList[n] > 0 => parent[n] # NoNode

ToExpand(n) == n = current \/ openList[n] > 0

Frontier ==
    pc = "search" =>
        /\ visited[endNode] => endNode = startNode \/ openList[endNode] > 0
        /\ \A r \in Roads, n, m \in Nodes :
              On(n, r) /\ On(m, r) /\ visited[n] /\ ~visited[m] =>
                 \E k \in Nodes : On(k, r) /\ ToExpand(k)

PathSoFar ==
    /\ pc = "search" => path = << >> /\ distance = 0
    /\ pc = "path" =>
          /\ parent[endNode] # NoNode
          /\ IF path = << >> THEN current = endNode
             ELSE path[Len(path)] = endNode /\ parent[path[1]] = current
          /\ \A i \in 1 .. Len(path) - 1 : parent[path[i + 1]] = path[i]
          /\ \A i \in 1 .. Len(path) : gValue[current] < gValue[path[i]]
          /\ \A i, j \in 1 .. Len(path) : i < j => gValue[path[i]] < gValue[path[j]]
          /\ distance + gValue[current] = gValue[endNode]

IInv == TypeOK /\ CostOfTheWay /\ Tree /\ Frontier /\ PathSoFar /\ PathIsRoute /\ SearchFindsRoute

-----------------------------------------------------------------------------
(* The neighbours FindNeighbors adds *)

LEMMA Smallest ==
    ASSUME NEW T \in SUBSET Nat, T # {}
    PROVE  \E x \in T : \A y \in T : x <= y
<1>1. PICK x \in T : \A y \in T : <<y, x>> \notin OpToRel(<, Nat)
    BY NatLessThanWellFounded, WFMin, Zenon
<1>2. \A y \in T : ~(y < x)
    BY <1>1 DEF OpToRel
<1>3. QED
    BY <1>2

LEMMA Ways ==
    ASSUME TypeOK, NEW r \in Roads
    PROVE  /\ ways[r] \in Seq(Nodes)
           /\ DOMAIN ways[r] = 1 .. Len(ways[r]) /\ Len(ways[r]) \in Nat
           /\ \A i \in DOMAIN ways[r] : ways[r][i] \in Nodes
<1>1. ways[r] \in Seq(Nodes)
    BY MapsAssumption DEF TypeOK
<1>2. QED
    BY <1>1

\* A road is listed finitely often for a node (route_model.cpp:15-26).
LEMMA NodeToRoadFinite ==
    ASSUME TypeOK, NEW n \in Nodes
    PROVE  IsFiniteSet(NodeToRoad(n))
<1> DEFINE At(r) == {r} \X {i \in DOMAIN ways[r] : ways[r][i] = n}
           F == [r \in Roads |-> At(r)]
           T == {At(r) : r \in Roads}
<1>1. ASSUME NEW r \in Roads
      PROVE  IsFiniteSet(At(r))
    <2>1. IsFiniteSet(DOMAIN ways[r])
        BY Ways, FS_Interval
    <2>2. IsFiniteSet({i \in DOMAIN ways[r] : ways[r][i] = n})
        BY <2>1, FS_Subset
    <2>3. IsFiniteSet({r})
        BY FS_Singleton
    <2>4. QED
        BY <2>2, <2>3, FS_Product
<1>2. F \in Surjection(Roads, T)
    BY DEF Surjection
<1>3. IsFiniteSet(T)
    BY <1>2, FS_Surjection, RoadsAssumption DEF RoadsAssumption
<1>4. IsFiniteSet(UNION T)
    BY <1>1, <1>3, FS_UNION
<1>5. QED
    BY <1>4 DEF NodeToRoad

\* What FindNeighbor returns is a node of the road that was not visited, and it
\* returns one whenever there is one (route_model.cpp:29-42).
LEMMA NeighborOnRoad ==
    ASSUME TypeOK, NEW n \in Nodes, NEW r \in Roads
    PROVE  /\ FindNeighbor(n, r) = NoNode <=> Eligible(n, r) = {}
           /\ FindNeighbor(n, r) # NoNode =>
                \E i \in Eligible(n, r) : FindNeighbor(n, r) = ways[r][i]
<1> DEFINE D == {Dist[n][ways[r][i]] : i \in Eligible(n, r)}
<1>1. \A i \in Eligible(n, r) : i \in Nat /\ Dist[n][ways[r][i]] \in Nat
    BY Ways, DistAssumption DEF DistAssumption, Eligible
<1>2. Closest(n, r) \subseteq Eligible(n, r)
    BY DEF Closest
<1>3. Eligible(n, r) # {} => Closest(n, r) # {}
    <2> SUFFICES ASSUME Eligible(n, r) # {} PROVE Closest(n, r) # {}
        OBVIOUS
    <2>1. D \in SUBSET Nat /\ D # {}
        BY <1>1
    <2>2. PICK x \in D : \A y \in D : x <= y
        BY <2>1, Smallest
    <2>3. PICK i \in Eligible(n, r) : x = Dist[n][ways[r][i]]
        BY <2>2
    <2>4. i \in Closest(n, r)
        BY <2>2, <2>3 DEF Closest
    <2>5. QED
        BY <2>4
<1>4. CASE Closest(n, r) = {}
    BY <1>3, <1>4 DEF FindNeighbor
<1>5. CASE Closest(n, r) # {}
    <2> DEFINE First(i) == \A j \in Closest(n, r) : i <= j
               c == CHOOSE i \in Closest(n, r) : First(i)
    <2>1. Closest(n, r) \in SUBSET Nat
        BY <1>1, <1>2
    <2>2. \E i \in Closest(n, r) : First(i)
        BY <1>5, <2>1, Smallest
    <2>3. c \in Closest(n, r)
        BY <2>2
    <2>4. FindNeighbor(n, r) = ways[r][c]
        BY <1>5 DEF FindNeighbor
    <2>5. ways[r][c] \in Nodes
        BY <1>2, <2>3, Ways DEF Eligible
    <2>6. QED
        BY <1>2, <2>3, <2>4, <2>5, NodesAssumption DEF NodesAssumption
<1>6. QED
    BY <1>4, <1>5

LEMMA FoundType ==
    ASSUME TypeOK, NEW n \in Nodes
    PROVE  FindNeighbors(n) \in [Nodes -> Nat]
<1>1. ASSUME NEW m \in Nodes
      PROVE  Cardinality({p \in NodeToRoad(n) : FindNeighbor(n, p[1]) = m}) \in Nat
    <2>1. IsFiniteSet({p \in NodeToRoad(n) : FindNeighbor(n, p[1]) = m})
        BY NodeToRoadFinite, FS_Subset
    <2>2. QED
        BY <2>1, FS_CardinalityType
<1>2. \A m \in Nodes : neighbors[n][m] \in Nat
    BY DEF TypeOK
<1>3. QED
    BY <1>1, <1>2 DEF FindNeighbors

\* A node is found if it was before or if FindNeighbor returns it for a road that
\* comes by (route_model.cpp:45-52).
LEMMA WhoIsFound ==
    ASSUME TypeOK, NEW n \in Nodes, NEW m \in Nodes
    PROVE  FindNeighbors(n)[m] > 0 <=>
             \/ neighbors[n][m] > 0
             \/ \E r \in Roads : On(n, r) /\ FindNeighbor(n, r) = m
<1> DEFINE Q == {p \in NodeToRoad(n) : FindNeighbor(n, p[1]) = m}
           q == Cardinality(Q)
           b == neighbors[n][m]
<1>1. IsFiniteSet(Q)
    BY NodeToRoadFinite, FS_Subset
<1>2. q \in Nat /\ (q = 0 <=> Q = {})
    BY <1>1, FS_CardinalityType, FS_EmptySet
<1>3. Q # {} <=> \E r \in Roads : On(n, r) /\ FindNeighbor(n, r) = m
    <2>1. ASSUME NEW p \in Q
          PROVE  \E r \in Roads : On(n, r) /\ FindNeighbor(n, r) = m
        BY DEF NodeToRoad, On
    <2>2. ASSUME NEW r \in Roads, On(n, r), FindNeighbor(n, r) = m
          PROVE  Q # {}
        <3>1. PICK i \in DOMAIN ways[r] : ways[r][i] = n
            BY <2>2 DEF On
        <3>2. <<r, i>> \in Q
            BY <2>2, <3>1 DEF NodeToRoad
        <3>3. QED
            BY <3>2
    <2>3. QED
        BY <2>1, <2>2
<1>4. b \in Nat
    BY DEF TypeOK
<1>5. FindNeighbors(n)[m] = b + q
    BY DEF FindNeighbors
<1> HIDE DEF q, b, Q
<1>6. FindNeighbors(n)[m] > 0 <=> b > 0 \/ Q # {}
    BY <1>2, <1>4, <1>5
<1>7. QED
    BY <1>3, <1>6 DEF b

-----------------------------------------------------------------------------
(* A round of the search *)

\* The current node is expanded: found are its neighbours, open is the open list with
\* them.
Expansion(found, open) ==
    /\ AddNeighbors(found)
    /\ \A m \in Nodes : open[m] = openList[m] + found[m]
    /\ \A m \in Nodes : found[m] > 0 =>
          \/ parent[m] = current
          \/ ~visited[m] /\ m # current /\ OnOneRoad(current, m)
    /\ \A r \in Roads, m \in Nodes : On(current, r) /\ On(m, r) /\ ~visited[m] =>
          \E k \in Nodes : On(k, r) /\ found[k] > 0

LEMMA SearchExpands ==
    ASSUME TypeOK, Tree, Search
    PROVE  \E found, open \in [Nodes -> Nat] :
              Expansion(found, open) /\ (NextNode(open) \/ NextNodeOfNone(open))
<1> DEFINE found == FindNeighbors(current)
           open == [m \in Nodes |-> openList[m] + found[m]]
<1>1. current \in Nodes /\ \A m \in Nodes : openList[m] \in Nat
    BY DEF TypeOK
<1>2. found \in [Nodes -> Nat]
    BY <1>1, FoundType
<1>3. open \in [Nodes -> Nat]
    BY <1>1, <1>2
<1>4. AddNeighbors(found) /\ (NextNode(open) \/ NextNodeOfNone(open))
    BY DEF Search
<1>5. ASSUME NEW m \in Nodes, found[m] > 0
      PROVE  parent[m] = current \/ (~visited[m] /\ m # current /\ OnOneRoad(current, m))
    <2>1. CASE neighbors[current][m] > 0
        BY <1>1, <2>1 DEF Tree
    <2>2. ASSUME NEW r \in Roads, On(current, r), FindNeighbor(current, r) = m
          PROVE  ~visited[m] /\ m # current /\ OnOneRoad(current, m)
        <3>1. PICK i \in Eligible(current, r) : m = ways[r][i]
            BY <1>1, <2>2, NeighborOnRoad, NodesAssumption DEF NodesAssumption
        <3>2. i \in DOMAIN ways[r] /\ Dist[current][m] # 0 /\ ~visited[m]
            BY <3>1 DEF Eligible
        <3>3. m # current
            BY <1>1, <3>2, DistAssumption DEF DistAssumption
        <3>4. QED
            BY <2>2, <3>1, <3>2, <3>3 DEF On, OnOneRoad
    <2>3. QED
        BY <1>1, <1>5, <2>1, <2>2, WhoIsFound
<1>6. ASSUME NEW r \in Roads, NEW m \in Nodes, On(current, r), On(m, r), ~visited[m]
      PROVE  \E k \in Nodes : On(k, r) /\ found[k] > 0
    <2>1. PICK j \in DOMAIN ways[r] : ways[r][j] = m
        BY <1>6 DEF On
    <2>2. m # current
        BY <1>6 DEF Tree
    <2>3. j \in Eligible(current, r)
        BY <1>1, <1>6, <2>1, <2>2, DistAssumption DEF DistAssumption, Eligible
    <2>4. PICK i \in Eligible(current, r) : FindNeighbor(current, r) = ways[r][i]
        BY <1>1, <2>3, NeighborOnRoad
    <2>5. i \in DOMAIN ways[r] /\ ways[r][i] \in Nodes
        BY Ways DEF Eligible
    <2>6. found[ways[r][i]] > 0
        BY <1>1, <1>6, <2>4, <2>5, WhoIsFound
    <2>7. QED
        BY <2>5, <2>6 DEF On
<1> HIDE DEF found
<1>7. Expansion(found, open)
    BY <1>4, <1>5, <1>6 DEF Expansion
<1>8. QED
    BY <1>2, <1>3, <1>4, <1>7

\* A node visited keeps its parent and its g_value, even if it is found again; a node
\* found for the first time becomes a child of the current node (AddNeighbors).
LEMMA ExpansionEffect ==
    ASSUME TypeOK, CostOfTheWay, Tree, NEW found \in [Nodes -> Nat],
           NEW open \in [Nodes -> Nat], Expansion(found, open), NEW m \in Nodes
    PROVE  /\ visited'[m] <=> visited[m] \/ found[m] > 0
           /\ visited[m] \/ found[m] = 0 => parent'[m] = parent[m] /\ gValue'[m] = gValue[m]
           /\ ~visited[m] /\ found[m] > 0 =>
                 /\ parent'[m] = current /\ m # current /\ OnOneRoad(current, m)
                 /\ gValue'[m] = gValue[current] + Dist[current][m]
           /\ found[m] > 0 => parent'[m] = current
<1>1. /\ visited' = [n \in Nodes |-> visited[n] \/ found[n] > 0]
      /\ parent' = [n \in Nodes |-> IF found[n] > 0 THEN current ELSE parent[n]]
      /\ gValue' = [n \in Nodes |-> IF found[n] > 0 THEN gValue[current] + Dist[current][n]
                                    ELSE gValue[n]]
    BY DEF Expansion, AddNeighbors
<1>2. visited'[m] <=> visited[m] \/ found[m] > 0
    BY <1>1
<1>3. found[m] = 0 => parent'[m] = parent[m] /\ gValue'[m] = gValue[m]
    BY <1>1
<1>4. found[m] > 0 => /\ parent'[m] = current
                      /\ gValue'[m] = gValue[current] + Dist[current][m]
    BY <1>1
<1>5. ~visited[m] /\ found[m] > 0 => m # current /\ OnOneRoad(current, m)
    <2>1. ~visited[m] => parent[m] # current
        BY NodesAssumption DEF CostOfTheWay, TypeOK, NodesAssumption
    <2>2. QED
        BY <2>1 DEF Expansion
<1>6. visited[m] /\ found[m] > 0 => parent[m] = current
    BY DEF Expansion
<1>7. parent[m] = current => gValue[m] = gValue[current] + Dist[current][m]
    BY NodesAssumption DEF CostOfTheWay, TypeOK, NodesAssumption
<1>8. found[m] = 0 \/ found[m] > 0
    OBVIOUS
<1>9. QED
    BY <1>2, <1>3, <1>4, <1>5, <1>6, <1>7, <1>8

\* While the search goes on, the open list has a node on every road that is not yet
\* visited from end to end, and the end as soon as it is visited.
LEMMA OpenFrontier ==
    ASSUME IInv, pc = "search", NEW found \in [Nodes -> Nat], NEW open \in [Nodes -> Nat],
           Expansion(found, open)
    PROVE  /\ visited'[endNode] => endNode = startNode \/ open[endNode] > 0
           /\ \A r \in Roads, n, m \in Nodes :
                 On(n, r) /\ On(m, r) /\ visited'[n] /\ ~visited'[m] =>
                    \E k \in Nodes : On(k, r) /\ open[k] > 0
<1>1. endNode \in Nodes /\ \A m \in Nodes : openList[m] \in Nat
    BY DEF IInv, TypeOK
<1>2. \A m \in Nodes : visited'[m] <=> visited[m] \/ found[m] > 0
    BY ExpansionEffect DEF IInv
<1>3. \A m \in Nodes : openList[m] > 0 \/ found[m] > 0 => open[m] > 0
    BY <1>1 DEF Expansion
<1>4. visited'[endNode] => endNode = startNode \/ open[endNode] > 0
    BY <1>1, <1>2, <1>3 DEF IInv, Frontier
<1>5. ASSUME NEW r \in Roads, NEW n \in Nodes, NEW m \in Nodes,
             On(n, r), On(m, r), visited'[n], ~visited'[m]
      PROVE  \E k \in Nodes : On(k, r) /\ open[k] > 0
    <2>1. ~visited[m]
        BY <1>2, <1>5
    <2>2. CASE found[n] > 0
        BY <1>3, <1>5, <2>2
    <2>3. CASE visited[n]
        <3>1. PICK k \in Nodes : On(k, r) /\ ToExpand(k)
            BY <1>5, <2>1, <2>3 DEF IInv, Frontier
        <3>2. CASE k = current
            BY <1>3, <1>5, <2>1, <3>1, <3>2 DEF Expansion
        <3>3. CASE openList[k] > 0
            BY <1>3, <3>1, <3>3
        <3>4. QED
            BY <3>1, <3>2, <3>3 DEF ToExpand
    <2>4. QED
        BY <1>2, <1>5, <2>2, <2>3
<1>6. QED
    BY <1>4, <1>5

\* What either end of a round has in common.
LEMMA SearchTree ==
    ASSUME TypeOK, CostOfTheWay, Tree, NEW found \in [Nodes -> Nat],
           NEW open \in [Nodes -> Nat], Expansion(found, open), UNCHANGED <<mapVars, path, distance>>,
           current' \in Nodes, visited'[current'], pc' \in {"search", "path", "undefined"},
           openList' \in [Nodes -> Nat], \A m \in Nodes : openList'[m] <= open[m]
    PROVE  TypeOK' /\ CostOfTheWay' /\ Tree'
<1>1. TypeOK'
    <2>1. visited' \in [Nodes -> BOOLEAN] /\ parent' \in [Nodes -> Nodes \cup {NoNode}]
        BY DEF Expansion, AddNeighbors, TypeOK
    <2>2. gValue' \in [Nodes -> Nat]
        <3>1. \A m \in Nodes : gValue[current] + Dist[current][m] \in Nat /\ gValue[m] \in Nat
            <4>1. gValue[current] \in Nat /\ \A m \in Nodes : gValue[m] \in Nat
                BY DEF TypeOK
            <4>2. current \in Nodes /\ \A m \in Nodes : Dist[current][m] \in Nat
                BY DistAssumption DEF DistAssumption, TypeOK
            <4>3. QED
                BY <4>1, <4>2
        <3>2. QED
            BY <3>1 DEF Expansion, AddNeighbors
    <2>3. neighbors' \in [Nodes -> [Nodes -> Nat]]
        BY DEF Expansion, AddNeighbors, TypeOK
    <2>4. QED
        BY <2>1, <2>2, <2>3 DEF TypeOK, mapVars
<1>2. current \in Nodes /\ startNode \in Nodes /\ NoNode \notin Nodes
    BY NodesAssumption DEF TypeOK, NodesAssumption
<1>3. CostOfTheWay'
    <2> SUFFICES ASSUME NEW n \in Nodes
                 PROVE  IF parent'[n] = NoNode THEN visited'[n] => n = startNode
                        ELSE /\ visited'[n] /\ visited'[parent'[n]]
                             /\ OnOneRoad(parent'[n], n)
                             /\ gValue'[n] = gValue'[parent'[n]] + Dist[parent'[n]][n]
        BY DEF CostOfTheWay, OnOneRoad, mapVars
    <2>1. visited[current]
        BY DEF Tree
    <2>2. CASE visited[n]
        <3>1. parent'[n] = parent[n] /\ gValue'[n] = gValue[n] /\ visited'[n]
            BY <2>2, ExpansionEffect
        <3>2. CASE parent[n] = NoNode
            BY <2>2, <3>1, <3>2 DEF CostOfTheWay
        <3>3. CASE parent[n] # NoNode
            <4>1. /\ parent[n] \in Nodes /\ visited[parent[n]] /\ OnOneRoad(parent[n], n)
                  /\ gValue[n] = gValue[parent[n]] + Dist[parent[n]][n]
                BY <3>3 DEF CostOfTheWay, TypeOK
            <4>2. gValue'[parent[n]] = gValue[parent[n]] /\ visited'[parent[n]]
                BY <4>1, ExpansionEffect
            <4>3. QED
                BY <3>1, <3>3, <4>1, <4>2
        <3>4. QED
            BY <3>2, <3>3
    <2>3. CASE ~visited[n] /\ found[n] > 0
        <3>1. /\ parent'[n] = current /\ visited'[n] /\ OnOneRoad(current, n)
              /\ gValue'[n] = gValue[current] + Dist[current][n]
            BY <2>3, ExpansionEffect
        <3>2. gValue'[current] = gValue[current] /\ visited'[current]
            BY <1>2, <2>1, ExpansionEffect
        <3>3. QED
            BY <1>2, <3>1, <3>2
    <2>4. CASE ~visited[n] /\ found[n] = 0
        <3>1. parent'[n] = parent[n] /\ ~visited'[n]
            BY <2>4, ExpansionEffect
        <3>2. parent[n] = NoNode
            BY <2>4 DEF CostOfTheWay
        <3>3. QED
            BY <3>1, <3>2
    <2>5. found[n] = 0 \/ found[n] > 0
        OBVIOUS
    <2>6. QED
        BY <2>2, <2>3, <2>4, <2>5
<1>4. Tree'
    <2>1. visited'[startNode] /\ parent'[startNode] = NoNode /\ gValue'[startNode] = 0
        BY <1>2, ExpansionEffect DEF Tree
    <2>2. ASSUME NEW n \in Nodes
          PROVE  parent'[n] # n
        BY ExpansionEffect DEF Tree, CostOfTheWay
    <2>3. ASSUME NEW n \in Nodes, NEW m \in Nodes, neighbors'[n][m] > 0
          PROVE  parent'[m] = n
        <3>1. CASE n = current
            BY <1>2, <2>3, <3>1, ExpansionEffect DEF Expansion, AddNeighbors, TypeOK
        <3>2. CASE n # current
            <4>1. neighbors[n][m] > 0
                BY <2>3, <3>2 DEF Expansion, AddNeighbors, TypeOK
            <4>2. parent[m] = n /\ visited[m]
                BY <1>2, <4>1 DEF Tree, CostOfTheWay
            <4>3. QED
                BY <4>2, ExpansionEffect
        <3>3. QED
            BY <3>1, <3>2
    <2>4. ASSUME NEW n \in Nodes, openList'[n] > 0
          PROVE  parent'[n] # NoNode
        <3>1. openList[n] > 0 \/ found[n] > 0
            <4> DEFINE next == openList'
            <4>1. next \in [Nodes -> Nat] /\ next[n] <= open[n] /\ next[n] > 0
                BY <2>4
            <4>2. open[n] = openList[n] + found[n] /\ openList[n] \in Nat
                BY DEF Expansion, TypeOK
            <4> HIDE DEF next
            <4>3. QED
                BY <4>1, <4>2
        <3>2. CASE found[n] > 0
            BY <1>2, <3>2, ExpansionEffect
        <3>3. CASE openList[n] > 0
            <4>1. parent[n] # NoNode /\ visited[n]
                BY <3>3 DEF Tree, CostOfTheWay
            <4>2. QED
                BY <4>1, ExpansionEffect
        <3>4. QED
            BY <3>1, <3>2, <3>3
    <2>5. startNode' = startNode
        BY DEF mapVars
    <2>6. QED
        BY <2>1, <2>2, <2>3, <2>4, <2>5 DEF Tree
<1>5. QED
    BY <1>1, <1>3, <1>4

-----------------------------------------------------------------------------
(* Each action preserves the invariant *)

LEMMA EndIsCurrent ==
    ASSUME TypeOK, NEW n \in Nodes
    PROVE  Dist[n][endNode] = 0 <=> n = endNode
    BY DistAssumption DEF DistAssumption, TypeOK

\* A round that takes a node out of the open list.
LEMMA SearchGoesOn ==
    ASSUME IInv, pc = "search", NEW found \in [Nodes -> Nat], NEW open \in [Nodes -> Nat],
           Expansion(found, open), NextNode(open), UNCHANGED <<mapVars, path, distance>>
    PROVE  IInv'
<1>1. PICK n \in Nodes :
        /\ open[n] > 0
        /\ openList' = [open EXCEPT ![n] = @ - 1]
        /\ current' = n
        /\ pc' = IF Dist[n][endNode] = 0 THEN "path" ELSE "search"
    BY DEF NextNode, Cheapest
<1>2. /\ openList' \in [Nodes -> Nat]
      /\ \A m \in Nodes : openList'[m] <= open[m]
      /\ \A m \in Nodes : m # n => openList'[m] = open[m]
    BY <1>1
<1>3. /\ parent'[n] # NoNode /\ visited'[n]
    <2>1. openList[n] > 0 \/ found[n] > 0
        <3> DEFINE o == openList[n]
                   f == found[n]
        <3>1. open[n] = o + f /\ o \in Nat /\ f \in Nat /\ open[n] > 0
            BY <1>1 DEF Expansion, IInv, TypeOK
        <3> HIDE DEF o, f
        <3>2. o > 0 \/ f > 0
            BY <3>1
        <3>3. QED
            BY <3>2 DEF o, f
    <2>2. CASE found[n] > 0
        BY <2>2, ExpansionEffect, NodesAssumption DEF IInv, TypeOK, NodesAssumption
    <2>3. CASE openList[n] > 0
        <3>1. parent[n] # NoNode /\ visited[n]
            BY <2>3 DEF IInv, Tree, CostOfTheWay
        <3>2. QED
            BY <3>1, ExpansionEffect DEF IInv
    <2>4. QED
        BY <2>1, <2>2, <2>3
<1>4. TypeOK' /\ CostOfTheWay' /\ Tree'
    BY <1>1, <1>2, <1>3, SearchTree DEF IInv
<1>5. UNCHANGED <<ways, startNode, endNode, path, distance>>
    BY DEF mapVars
<1>6. path = << >> /\ distance = 0
    BY DEF IInv, PathSoFar
<1>7. Frontier'
    <2> SUFFICES ASSUME pc' = "search" PROVE Frontier'
        BY DEF Frontier
    <2>1. n # endNode
        BY <1>1, EndIsCurrent DEF IInv
    <2>2. endNode \in Nodes
        BY DEF IInv, TypeOK
    <2>3. visited'[endNode] => endNode = startNode \/ openList'[endNode] > 0
        BY <1>2, <2>1, <2>2, OpenFrontier
    <2>4. \A k \in Nodes : open[k] > 0 => k = current' \/ openList'[k] > 0
        BY <1>1, <1>2
    <2>5. \A r \in Roads, a, b \in Nodes :
            On(a, r) /\ On(b, r) /\ visited'[a] /\ ~visited'[b] =>
               \E k \in Nodes : On(k, r) /\ open[k] > 0
        BY OpenFrontier
    <2>6. \A r \in Roads, k \in Nodes : On(k, r)' <=> On(k, r)
        BY <1>5 DEF On
    <2>7. QED
        BY <1>5, <2>3, <2>4, <2>5, <2>6 DEF Frontier, ToExpand
<1>8. PathSoFar'
    <2>1. CASE pc' = "search"
        BY <1>5, <1>6, <2>1 DEF PathSoFar
    <2>2. CASE pc' = "path"
        <3>1. n = endNode
            BY <1>1, <2>2, EndIsCurrent DEF IInv
        <3>2. Len(path') = 0 /\ path' = << >> /\ distance' = 0
            BY <1>5, <1>6
        <3>3. gValue'[endNode] \in Nat
            BY <1>4, <1>5 DEF TypeOK
        <3>4. QED
            BY <1>1, <1>3, <1>5, <2>2, <3>1, <3>2, <3>3 DEF PathSoFar
    <2>3. QED
        BY <1>1, <2>1, <2>2
<1>9. PathIsRoute' /\ SearchFindsRoute'
    <2>1. DOMAIN path' = {}
        BY <1>5, <1>6
    <2>2. pc' # "done" /\ pc' # "undefined"
        BY <1>1
    <2>3. QED
        BY <2>1, <2>2 DEF PathIsRoute, SearchFindsRoute
<1>10. QED
    BY <1>4, <1>7, <1>8, <1>9 DEF IInv

\* A round that finds the open list empty: everything the roads lead to was visited,
\* and the end was not among it.
LEMMA SearchRunsDry ==
    ASSUME IInv, pc = "search", NEW found \in [Nodes -> Nat], NEW open \in [Nodes -> Nat],
           Expansion(found, open), NextNodeOfNone(open),
           UNCHANGED <<mapVars, path, distance>>
    PROVE  IInv'
<1>1. /\ \A n \in Nodes : ~(open[n] > 0)
      /\ pc' = "undefined" /\ openList' = open /\ current' = current
    BY DEF NextNodeOfNone
<1>2. UNCHANGED <<ways, startNode, endNode, path, distance>>
    BY DEF mapVars
<1>3. visited'[current]
    BY ExpansionEffect DEF IInv, Tree, TypeOK
<1>4. TypeOK' /\ CostOfTheWay' /\ Tree'
    <2>1. current' \in Nodes /\ openList' \in [Nodes -> Nat]
        BY <1>1 DEF IInv, TypeOK
    <2>2. \A m \in Nodes : openList'[m] <= open[m]
        BY <1>1
    <2>3. QED
        BY <1>1, <1>3, <2>1, <2>2, SearchTree DEF IInv
<1>5. SearchFindsRoute'
    <2> SUFFICES ASSUME startNode # endNode, Connected PROVE FALSE
        BY <1>1, <1>2 DEF SearchFindsRoute, Connected, OnOneRoad
    <2> DEFINE S == {n \in Nodes : visited'[n]}
    <2>1. startNode \in S
        BY <1>2, <1>4 DEF Tree, TypeOK
    <2>2. ASSUME NEW n \in S, NEW m \in Nodes, OnOneRoad(n, m)
          PROVE  m \in S
        <3>1. PICK r \in Roads : On(n, r) /\ On(m, r)
            BY <2>2 DEF OnOneRoad, On
        <3>2. QED
            BY <1>1, <3>1, OpenFrontier
    <2>3. endNode \in S
        BY <2>1, <2>2 DEF Connected
    <2>4. QED
        BY <1>1, <2>3, OpenFrontier
<1>6. Frontier' /\ PathSoFar' /\ PathIsRoute'
    BY <1>1 DEF Frontier, PathSoFar, PathIsRoute
<1>7. QED
    BY <1>4, <1>5, <1>6 DEF IInv

LEMMA SearchInv ==
    ASSUME IInv, Search
    PROVE  IInv'
<1>1. PICK found \in [Nodes -> Nat], open \in [Nodes -> Nat] :
        Expansion(found, open) /\ (NextNode(open) \/ NextNodeOfNone(open))
    BY SearchExpands DEF IInv
<1>2. pc = "search" /\ UNCHANGED <<mapVars, path, distance>>
    BY DEF Search
<1>3. QED
    BY <1>1, <1>2, SearchGoesOn, SearchRunsDry

\* A node put in front of the path.
LEMMA Prepend ==
    ASSUME NEW n \in Nodes, NEW p \in Seq(Nodes)
    PROVE  /\ << n >> \o p \in Seq(Nodes)
           /\ << n >> \o p # << >>
           /\ Len(<< n >> \o p) = Len(p) + 1
           /\ (<< n >> \o p)[1] = n
           /\ \A i \in 1 .. Len(p) : (<< n >> \o p)[i + 1] = p[i]
           /\ \A i \in 2 .. Len(p) + 1 : (<< n >> \o p)[i] = p[i - 1]
<1>1. << n >> \in Seq(Nodes) /\ Len(<< n >>) = 1 /\ << n >>[1] = n
    OBVIOUS
<1>2. Len(p) \in Nat
    BY LenProperties
<1> DEFINE q == << n >> \o p
<1>3. /\ q \in Seq(Nodes) /\ Len(q) = Len(p) + 1
      /\ \A i \in 1 .. Len(p) + 1 : q[i] = IF i <= 1 THEN n ELSE p[i - 1]
    BY <1>1, <1>2, ConcatProperties
<1> HIDE DEF q
<1>4. q # << >>
    BY <1>2, <1>3, EmptySeq
<1>5. q[1] = n /\ \A i \in 1 .. Len(p) : q[i + 1] = p[i]
    BY <1>2, <1>3
<1>6. \A i \in 2 .. Len(p) + 1 : q[i] = p[i - 1]
    BY <1>2, <1>3
<1>7. QED
    BY <1>3, <1>4, <1>5, <1>6 DEF q

\* g_value falls from a node to its parent by the distance between them.
LEMMA ParentIsCloser ==
    ASSUME IInv, NEW n \in Nodes, parent[n] # NoNode
    PROVE  /\ parent[n] \in Nodes
           /\ gValue[parent[n]] < gValue[n]
           /\ gValue[n] = gValue[parent[n]] + Dist[n][parent[n]]
           /\ OnOneRoad(parent[n], n)
           /\ visited[parent[n]]
<1> DEFINE p == parent[n]
           g == gValue[p]
           d == Dist[p][n]
<1>1. p \in Nodes /\ p # n
    BY DEF IInv, TypeOK, Tree
<1>2. d \in Nat /\ d # 0 /\ d = Dist[n][p]
    BY <1>1, DistAssumption DEF DistAssumption
<1>3. g \in Nat
    BY <1>1 DEF IInv, TypeOK
<1>4. gValue[n] = g + d /\ OnOneRoad(p, n) /\ visited[p]
    BY DEF IInv, CostOfTheWay
<1> HIDE DEF g, d
<1>5. g < g + d
    BY <1>2, <1>3
<1>6. QED
    BY <1>1, <1>2, <1>4, <1>5 DEF g, d

LEMMA FollowParentInv ==
    ASSUME IInv, FollowParent
    PROVE  IInv'
<1> DEFINE c == current
           p == parent[current]
           q == << c >> \o path
<1>1. /\ pc = "path" /\ p # NoNode
      /\ path' = q /\ distance' = distance + Dist[c][p] /\ current' = p
      /\ UNCHANGED <<ways, startNode, endNode, visited, parent, gValue, neighbors,
                     openList, pc>>
    BY DEF FollowParent, mapVars, nodeVars
<1>2. c \in Nodes /\ path \in Seq(Nodes) /\ endNode \in Nodes /\ Len(path) \in Nat
    BY LenProperties DEF IInv, TypeOK
<1>3. /\ p \in Nodes /\ gValue[p] < gValue[c] /\ gValue[c] = gValue[p] + Dist[c][p]
      /\ visited[p]
    BY <1>1, <1>2, ParentIsCloser
<1>4. /\ q \in Seq(Nodes) /\ q # << >> /\ Len(q) = Len(path) + 1 /\ q[1] = c
      /\ \A i \in 1 .. Len(path) : q[i + 1] = path[i]
      /\ \A i \in 2 .. Len(path) + 1 : q[i] = path[i - 1]
    BY <1>2, Prepend
<1>5. Dist[c][p] \in Nat /\ distance \in Nat /\ \A n \in Nodes : gValue[n] \in Nat
    BY <1>2, <1>3, DistAssumption DEF DistAssumption, IInv, TypeOK
<1>6. \A i \in 1 .. Len(path) : path[i] \in Nodes
    BY <1>2, ElementOfSeq
<1> HIDE DEF q
<1>7. TypeOK'
    <2>1. distance' \in Nat
        BY <1>1, <1>5
    <2>2. QED
        BY <1>1, <1>3, <1>4, <2>1 DEF IInv, TypeOK
<1>8. CostOfTheWay' /\ Tree' /\ Frontier' /\ SearchFindsRoute'
    BY <1>1, <1>3 DEF IInv, CostOfTheWay, OnOneRoad, Tree, Frontier, SearchFindsRoute
<1>9. PathSoFar'
    <2>1. q[Len(q)] = endNode
        <3>1. CASE path = << >>
            <4>1. Len(path) = 0
                BY <3>1, EmptySeq
            <4>2. c = endNode
                BY <1>1, <3>1 DEF IInv, PathSoFar
            <4>3. QED
                BY <1>4, <4>1, <4>2
        <3>2. CASE path # << >>
            <4>1. Len(path) > 0
                BY <1>2, <3>2, EmptySeq
            <4>2. path[Len(path)] = endNode
                BY <1>1, <3>2 DEF IInv, PathSoFar
            <4>3. q[Len(path) + 1] = path[Len(path)]
                BY <1>2, <1>4, <4>1
            <4>4. QED
                BY <1>4, <4>2, <4>3
        <3>3. QED
            BY <3>1, <3>2
    <2>2. ASSUME NEW i \in 1 .. Len(q) - 1
          PROVE  parent[q[i + 1]] = q[i]
        <3>1. i \in 1 .. Len(path) /\ q[i + 1] = path[i]
            BY <1>2, <1>4
        <3>2. CASE i = 1
            <4>1. path # << >>
                BY <1>2, <3>1, EmptySeq
            <4>2. QED
                BY <1>1, <1>4, <3>1, <3>2, <4>1 DEF IInv, PathSoFar
        <3>3. CASE i # 1
            <4>1. i \in 2 .. Len(path) + 1 /\ i - 1 \in 1 .. Len(path) - 1 /\ (i - 1) + 1 = i
                BY <1>2, <3>1, <3>3
            <4>2. q[i] = path[i - 1]
                BY <1>4, <4>1
            <4>3. parent[path[(i - 1) + 1]] = path[i - 1]
                BY <1>1, <4>1 DEF IInv, PathSoFar
            <4>4. QED
                BY <3>1, <4>1, <4>2, <4>3
        <3>4. QED
            BY <3>2, <3>3
    <2>3. \A i \in 1 .. Len(path) : gValue[c] < gValue[path[i]]
        BY <1>1 DEF IInv, PathSoFar
    <2>4. ASSUME NEW i \in 1 .. Len(q)
          PROVE  /\ gValue[p] < gValue[q[i]]
                 /\ i # 1 => i - 1 \in 1 .. Len(path) /\ q[i] = path[i - 1]
        <3>1. CASE i = 1
            BY <1>3, <1>4, <3>1
        <3>2. CASE i # 1
            <4>1. i \in 2 .. Len(path) + 1 /\ i - 1 \in 1 .. Len(path)
                BY <1>2, <1>4, <3>2
            <4>2. q[i] = path[i - 1] /\ gValue[c] < gValue[path[i - 1]]
                BY <1>4, <2>3, <4>1
            <4>3. path[i - 1] \in Nodes
                BY <1>6, <4>1
            <4>4. \A a, b, e \in Nat : a < b /\ b < e => a < e
                OBVIOUS
            <4>5. gValue[p] < gValue[path[i - 1]]
                BY <1>2, <1>3, <1>5, <4>2, <4>3, <4>4
            <4>6. QED
                BY <4>1, <4>2, <4>5
        <3>3. QED
            BY <3>1, <3>2
    <2>5. ASSUME NEW i \in 1 .. Len(q), NEW j \in 1 .. Len(q), i < j
          PROVE  gValue[q[i]] < gValue[q[j]]
        <3>1. j # 1 /\ i - 1 < j - 1
            BY <1>2, <1>4, <2>5
        <3>2. j - 1 \in 1 .. Len(path) /\ q[j] = path[j - 1]
            BY <2>4, <3>1
        <3>3. CASE i = 1
            BY <1>4, <2>3, <3>2, <3>3
        <3>4. CASE i # 1
            <4>1. i - 1 \in 1 .. Len(path) /\ q[i] = path[i - 1]
                BY <2>4, <3>4
            <4>2. QED
                BY <1>1, <3>1, <3>2, <4>1 DEF IInv, PathSoFar
        <3>5. QED
            BY <3>3, <3>4
    <2>6. distance' + gValue[p] = gValue[endNode]
        <3>1. distance + gValue[c] = gValue[endNode]
            BY <1>1 DEF IInv, PathSoFar
        <3>2. \A a, b, d, e \in Nat : a = b + d => (e + d) + b = e + a
            OBVIOUS
        <3>3. (distance + Dist[c][p]) + gValue[p] = distance + gValue[c]
            BY <1>2, <1>3, <1>5, <3>2
        <3>4. QED
            BY <1>1, <3>1, <3>3
    <2>7. parent[endNode] # NoNode
        BY <1>1 DEF IInv, PathSoFar
    <2>8. QED
        BY <1>1, <1>4, <2>1, <2>2, <2>4, <2>5, <2>6, <2>7 DEF PathSoFar
<1>10. PathIsRoute'
    <2>1. pc' = "path"
        BY <1>1
    <2>2. DOMAIN path' = 1 .. Len(path')
        BY <1>1, <1>4, LenProperties
    <2>3. /\ \A i \in 1 .. Len(path') : path'[i] # current'
          /\ \A i, j \in 1 .. Len(path') : path'[i] = path'[j] => i = j
        <3>1. \A n \in Nodes : gValue'[n] \in Nat
            BY <1>1, <1>5
        <3>2. \A i \in 1 .. Len(path') : path'[i] \in Nodes
            BY <1>1, <1>4, ElementOfSeq
        <3>3. Len(path') \in Nat
            BY <1>1, <1>2, <1>4
        <3>4. \A i \in 1 .. Len(path') : gValue'[current'] < gValue'[path'[i]]
            BY <1>9, <2>1 DEF PathSoFar
        <3>5. \A i, j \in 1 .. Len(path') : i < j => gValue'[path'[i]] < gValue'[path'[j]]
            BY <1>9, <2>1 DEF PathSoFar
        <3>6. \A a, b \in Nat : a < b => a # b
            OBVIOUS
        <3>7. current' \in Nodes
            BY <1>1, <1>3
        <3>8. \A i \in 1 .. Len(path') : path'[i] # current'
            BY <3>1, <3>2, <3>4, <3>6, <3>7
        <3>9. \A i, j \in 1 .. Len(path') : i < j => path'[i] # path'[j]
            BY <3>1, <3>2, <3>5, <3>6
        <3>10. \A i, j \in 1 .. Len(path') : i < j \/ i = j \/ j < i
            BY <3>3
        <3>11. QED
            BY <3>8, <3>9, <3>10
    <2>4. QED
        BY <2>1, <2>2, <2>3 DEF PathIsRoute
<1>11. QED
    BY <1>7, <1>8, <1>9, <1>10 DEF IInv

LEMMA FinishPathInv ==
    ASSUME IInv, FinishPath
    PROVE  IInv'
<1> DEFINE q == << startNode >> \o path
<1>1. /\ pc = "path" /\ pc' = "done" /\ parent[current] = NoNode /\ path' = q
      /\ UNCHANGED <<ways, startNode, endNode, visited, parent, gValue, neighbors,
                     openList, current, distance>>
    BY DEF FinishPath, mapVars, nodeVars
<1>2. /\ startNode \in Nodes /\ endNode \in Nodes
      /\ path \in Seq(Nodes) /\ Len(path) \in Nat
    BY LenProperties DEF IInv, TypeOK
<1>3. current = startNode
    BY <1>1 DEF IInv, Tree, CostOfTheWay, TypeOK
<1>4. path # << >>
    BY <1>1, <1>3 DEF IInv, PathSoFar
<1>5. Len(path) > 0
    BY <1>2, <1>4, EmptySeq
<1>6. /\ q \in Seq(Nodes) /\ q # << >> /\ Len(q) = Len(path) + 1 /\ q[1] = startNode
      /\ \A i \in 1 .. Len(path) : q[i + 1] = path[i]
      /\ \A i \in 2 .. Len(path) + 1 : q[i] = path[i - 1]
    BY <1>2, Prepend
<1>7. \A i \in 1 .. Len(path) : path[i] \in Nodes
    BY <1>2, ElementOfSeq
<1> HIDE DEF q
<1>8. TypeOK'
    BY <1>1, <1>6 DEF IInv, TypeOK
<1>9. CostOfTheWay' /\ Tree' /\ Frontier' /\ PathSoFar' /\ SearchFindsRoute'
    BY <1>1 DEF IInv, CostOfTheWay, OnOneRoad, Tree, Frontier, PathSoFar, SearchFindsRoute
<1>10. DOMAIN q = 1 .. Len(q)
    BY <1>6, LenProperties
<1>11. ASSUME NEW i \in 1 .. Len(q), NEW j \in 1 .. Len(q), i < j
       PROVE  q[i] # q[j]
    <2>1. \A k, l \in 1 .. Len(path) : path[k] = path[l] => k = l
        BY <1>1, <1>2, LenProperties DEF IInv, PathIsRoute
    <2>2. \A k \in 1 .. Len(path) : path[k] # startNode
        BY <1>1, <1>2, <1>3, LenProperties DEF IInv, PathIsRoute
    <2>3. j \in 2 .. Len(path) + 1 /\ j - 1 \in 1 .. Len(path)
        BY <1>2, <1>6, <1>11
    <2>4. q[j] = path[j - 1]
        BY <1>6, <2>3
    <2>5. CASE i = 1
        BY <1>6, <2>2, <2>3, <2>4, <2>5
    <2>6. CASE i # 1
        <3>1. i \in 2 .. Len(path) + 1 /\ i - 1 \in 1 .. Len(path) /\ i - 1 # j - 1
            BY <1>2, <1>6, <1>11, <2>6
        <3>2. q[i] = path[i - 1]
            BY <1>6, <3>1
        <3>3. QED
            BY <2>1, <2>3, <2>4, <3>1, <3>2
    <2>7. QED
        BY <2>5, <2>6
<1>12. q[Len(q)] = endNode
    <2>1. path[Len(path)] = endNode
        BY <1>1, <1>4 DEF IInv, PathSoFar
    <2>2. q[Len(path) + 1] = path[Len(path)]
        BY <1>2, <1>5, <1>6
    <2>3. QED
        BY <1>6, <2>1, <2>2
<1>13. ASSUME NEW i \in 1 .. Len(q) - 1
       PROVE  OnOneRoad(q[i], q[i + 1])
    <2>1. i \in 1 .. Len(path) /\ q[i + 1] = path[i]
        BY <1>2, <1>6
    <2>2. parent[path[i]] = q[i]
        <3>1. CASE i = 1
            BY <1>1, <1>3, <1>4, <1>6, <3>1 DEF IInv, PathSoFar
        <3>2. CASE i # 1
            <4>1. i \in 2 .. Len(path) + 1 /\ i - 1 \in 1 .. Len(path) - 1 /\ (i - 1) + 1 = i
                BY <1>2, <2>1, <3>2
            <4>2. q[i] = path[i - 1]
                BY <1>6, <4>1
            <4>3. parent[path[(i - 1) + 1]] = path[i - 1]
                BY <1>1, <4>1 DEF IInv, PathSoFar
            <4>4. QED
                BY <4>1, <4>2, <4>3
        <3>3. QED
            BY <3>1, <3>2
    <2>3. q[i] \in Nodes
        BY <1>6, ElementOfSeq
    <2>4. QED
        BY <1>7, <2>1, <2>2, <2>3, NodesAssumption DEF NodesAssumption, IInv, CostOfTheWay
<1>14. distance = gValue[endNode]
    <2> DEFINE g == gValue[endNode]
    <2>1. distance + gValue[current] = g /\ gValue[current] = 0
        BY <1>1, <1>3 DEF IInv, PathSoFar, Tree
    <2>2. g \in Nat /\ distance \in Nat
        BY <1>2 DEF IInv, TypeOK
    <2> HIDE DEF g
    <2>3. distance = g
        BY <2>1, <2>2
    <2>4. QED
        BY <2>3 DEF g
<1>15. PathIsRoute'
    <2>1. \A i, j \in DOMAIN q : q[i] = q[j] => i = j
        <3>1. \A i, j \in 1 .. Len(q) : i < j \/ i = j \/ j < i
            BY <1>2, <1>6
        <3>2. QED
            BY <1>10, <1>11, <3>1
    <2>2. Len(q) > 1
        BY <1>2, <1>5, <1>6
    <2>3. \A i \in 1 .. Len(path') - 1 : OnOneRoad(path[i], path[i + 1])'
        BY <1>1, <1>13 DEF OnOneRoad
    <2>4. /\ Len(path') > 1 /\ path'[1] = startNode' /\ path'[Len(path')] = endNode'
          /\ distance' = gValue'[endNode']
        BY <1>1, <1>6, <1>12, <1>14, <2>2
    <2>5. \A i, j \in DOMAIN path' : path'[i] = path'[j] => i = j
        BY <1>1, <2>1
    <2>6. pc' = "done"
        BY <1>1
    <2>7. QED
        BY <2>3, <2>4, <2>5, <2>6 DEF PathIsRoute
<1>16. QED
    BY <1>8, <1>9, <1>15 DEF IInv

-----------------------------------------------------------------------------
(* The invariant and what follows from it *)

LEMMA InitInv ==
    ASSUME Init
    PROVE  IInv
<1>1. ways \in [Roads -> Seq(Nodes)]
    BY MapsAssumption DEF Init
<1>2. OnRoads \subseteq Nodes
    <2>1. \A r \in Roads : \A i \in DOMAIN ways[r] : ways[r][i] \in Nodes
        BY <1>1
    <2>2. QED
        BY <2>1 DEF OnRoads
<1>3. TypeOK
    BY <1>2 DEF Init, TypeOK
<1>4. CostOfTheWay /\ Tree
    <2>1. startNode \in Nodes /\ \A n \in Nodes : parent[n] = NoNode /\ gValue[n] = 0
        BY <1>3 DEF Init, TypeOK
    <2>2. \A n, m \in Nodes : ~(neighbors[n][m] > 0) /\ ~(openList[n] > 0)
        BY DEF Init
    <2>3. \A n \in Nodes : visited[n] <=> n = startNode
        BY DEF Init
    <2>4. current = startNode
        BY DEF Init
    <2>5. QED
        BY <2>1, <2>2, <2>3, <2>4, NodesAssumption DEF CostOfTheWay, Tree, NodesAssumption
<1>5. Frontier
    <2>1. \A k \in Nodes : visited[k] => ToExpand(k)
        BY DEF Init, ToExpand
    <2>2. QED
        BY <1>3, <2>1 DEF Init, TypeOK, Frontier
<1>6. PathSoFar /\ PathIsRoute /\ SearchFindsRoute
    BY DEF Init, PathSoFar, PathIsRoute, SearchFindsRoute
<1>7. QED
    BY <1>3, <1>4, <1>5, <1>6 DEF IInv

LEMMA NextInv ==
    ASSUME IInv, [Next]_vars
    PROVE  IInv'
<1>1. CASE UNCHANGED vars
    <2>1. UNCHANGED <<ways, startNode, endNode, visited, parent, gValue, neighbors, openList,
                      current, path, distance, pc>>
        BY <1>1 DEF vars, mapVars, nodeVars
    <2>2. TypeOK' /\ CostOfTheWay'
        BY <2>1 DEF IInv, TypeOK, CostOfTheWay, OnOneRoad
    <2>3. Tree' /\ PathSoFar'
        BY <2>1 DEF IInv, Tree, PathSoFar
    <2>4. Frontier' /\ PathIsRoute' /\ SearchFindsRoute'
        BY <2>1 DEF IInv, Frontier, On, ToExpand, PathIsRoute, OnOneRoad, SearchFindsRoute,
                    Connected
    <2>5. QED
        BY <2>2, <2>3, <2>4 DEF IInv
<1>2. QED
    BY <1>1, SearchInv, FollowParentInv, FinishPathInv DEF Next

\* Everything the runs check of the search's states holds on every map.
THEOREM Invariance == Spec => []IInv
<1>1. QED
    BY InitInv, NextInv, PTL DEF Spec

\* Every variable keeps to its type; in particular no nullptr is followed.
THEOREM TypeCorrect == Spec => []TypeOK
<1>1. IInv => TypeOK
    BY DEF IInv
<1>2. QED
    BY <1>1, Invariance, PTL

\* g_value is the length of the way along the parents (route_planner.cpp:25-46).
THEOREM CostsAddUp == Spec => []CostOfTheWay
<1>1. IInv => CostOfTheWay
    BY DEF IInv
<1>2. QED
    BY <1>1, Invariance, PTL

\* What the search leaves is a simple path along the roads from the start to the end,
\* with its length (route_planner.cpp:73-97).
THEOREM RouteIsRight == Spec => []PathIsRoute
<1>1. IInv => PathIsRoute
    BY DEF IInv
<1>2. QED
    BY <1>1, Invariance, PTL

\* On every map on which the roads lead from the start to the end, and the two are not
\* one node, the search never takes a node out of an empty list
\* (route_planner.cpp:61-68, :105-121).
THEOREM NeverRunsDry == Spec => []SearchFindsRoute
<1>1. IInv => SearchFindsRoute
    BY DEF IInv
<1>2. QED
    BY <1>1, Invariance, PTL

\* The parent of a node visited never changes, although the same neighbours are added
\* again when a node is expanded twice (route_planner.cpp:25-46).
THEOREM NoParentChanges == Spec => ParentsStay
<1> DEFINE Stay == \A n \in Nodes : visited[n] => parent'[n] = parent[n]
<1>1. IInv /\ [Next]_vars => [Stay]_vars
    <2> SUFFICES ASSUME IInv, Next PROVE Stay
        OBVIOUS
    <2>1. CASE Search
        <3>1. PICK found \in [Nodes -> Nat], open \in [Nodes -> Nat] : Expansion(found, open)
            BY <2>1, SearchExpands DEF IInv
        <3>2. QED
            BY <3>1, ExpansionEffect DEF IInv
    <2>2. CASE FollowParent \/ FinishPath
        BY <2>2 DEF FollowParent, FinishPath, nodeVars
    <2>3. QED
        BY <2>1, <2>2 DEF Next
<1>2. QED
    BY <1>1, Invariance, PTL DEF Spec, ParentsStay
=============================================================================
