------------------------------- MODULE Rings -------------------------------
(***************************************************************************)
(* The multipolygons of an OSM map: the loop over the relations in         *)
(* Model::LoadData, and Model::BuildRings, which joins the open ways of a  *)
(* relation into rings (model.cpp).  TrackRec, its recursive search, is    *)
(* one step per way that it marks or gives back: marks is its call stack.  *)
(*                                                                         *)
(* BuildRings keeps a pointer to the storage of m_Ways while it appends to *)
(* m_Ways.  How much room the storage has, and how much it has after it    *)
(* grew, is the library's choice; a read through the pointer after the     *)
(* storage has moved is undefined, and so is front() of a way without      *)
(* nodes.  What happens then is not followed: pc is "undefined".           *)
(***************************************************************************)
EXTENDS Naturals, FiniteSets, SequencesExt

CONSTANTS
    Nodes,       \* m_Nodes
    Unknown,     \* a reference to a node or a way that the map does not have
    Documents,   \* the maps considered: their ways and their relations
    MaxRoom      \* bound of the model: free places in a storage of m_Ways

\* What a relation may have: a member, if it is one of the ways, and tags.
Children(list) ==
    [name : {"member"}, ref : DOMAIN list \cup {Unknown}, role : STRING]
        \cup [name : {"building", "water", "landuse", "unknown landuse", "tag"}]

ASSUME RoomAssumption == MaxRoom \in Nat
ASSUME NodesAssumption == Unknown \notin Nodes \cup Nat
ASSUME DocumentsAssumption ==
    \A d \in Documents :
        d.ways \in Seq(Seq(Nodes \cup {Unknown})) /\ d.relations \in Seq(Seq(Children(d.ways)))

VARIABLES
    relations,    \* what is left to be read: the children of each relation
    outer, inner, \* the members of the relation being read
    ways,         \* m_Ways
    room,         \* m_Ways.capacity() - m_Ways.size()
    polygons,     \* m_Buildings, m_Waters and m_Landuses, in the order they came
    role,         \* the list BuildRings works on: "outer" or "inner"
    stale,        \* is the pointer to the storage of m_Ways out of date?
    closed, open, \* the two lists of BuildRings' process
    nodes,        \* the nodes of the ring being tracked
    used,         \* the entries of open that TrackRec has marked
    marks,        \* its calls: the entry each one marked, and len
    from,         \* the loop index of the innermost call
    pc            \* "read", "process", "while", "track", "finish", "done", "undefined"

readVars == <<relations, outer, inner>>
wayVars == <<ways, room>>
trackVars == <<nodes, used, marks, from>>
ringVars == <<role, stale, closed, open>>
vars == <<readVars, wayVars, polygons, ringVars, trackVars, pc>>

-----------------------------------------------------------------------------
(* LoadData: ways and relations *)

\* The elements of s at the indices I, in their order.
Rank(I, i) == Cardinality({j \in I : j <= i})

Pick(s, I) == [k \in 1..Cardinality(I) |-> s[CHOOSE i \in I : Rank(I, i) = k]]

\* References to nodes that are not in the file are passed over.
KnownNodes(refs) == Pick(refs, {i \in DOMAIN refs : refs[i] \in Nodes})

Init ==
    /\ \E d \in Documents :
         /\ relations = d.relations
         /\ ways = [w \in DOMAIN d.ways |-> KnownNodes(d.ways[w])]
    /\ room \in 0..MaxRoom
    /\ outer = << >> /\ inner = << >>
    /\ polygons = << >>
    /\ role = "outer" /\ stale = FALSE /\ closed = << >> /\ open = << >>
    /\ nodes = << >> /\ used = {} /\ marks = << >> /\ from = 1
    /\ pc = "read"

\* The child at hand, and the two ways to go on: with the next child, or, after
\* a break or at the end of the relation, with the next relation.
Reading == pc = "read" /\ relations # << >> /\ Head(relations) # << >>

Child == Head(Head(relations))

NextChild == relations' = <<Tail(Head(relations))>> \o Tail(relations)

NextRelation == relations' = Tail(relations) /\ outer' = << >> /\ inner' = << >>

ReadMember ==
    /\ Reading
    /\ Child.name = "member"
    /\ NextChild
    /\ \/ Child.ref = Unknown /\ UNCHANGED <<outer, inner>>
       \/ /\ Child.ref # Unknown /\ Child.role = "outer"
          /\ outer' = Append(outer, Child.ref)
          /\ UNCHANGED inner
       \/ /\ Child.ref # Unknown /\ Child.role # "outer"
          /\ inner' = Append(inner, Child.ref)
          /\ UNCHANGED outer
    /\ UNCHANGED <<wayVars, polygons, ringVars, trackVars, pc>>

\* A tag that makes the relation a building, a water or a land use we know: the
\* members read so far are committed.  Only the last two get their rings built.
ReadArea ==
    /\ Reading
    /\ Child.name \in {"building", "water", "landuse"}
    /\ polygons' = Append(polygons, [kind |-> Child.name, outer |-> outer, inner |-> inner])
    /\ NextRelation
    /\ role' = "outer"
    /\ pc' = IF Child.name = "building" THEN "read" ELSE "process"
    /\ UNCHANGED <<wayVars, stale, closed, open, trackVars>>

\* Any other tag is passed over, but an unknown land use ends the relation.
ReadOtherTag ==
    /\ Reading
    /\ \/ Child.name = "tag" /\ NextChild /\ UNCHANGED <<outer, inner>>
       \/ Child.name = "unknown landuse" /\ NextRelation
    /\ UNCHANGED <<wayVars, polygons, ringVars, trackVars, pc>>

EndOfRelation ==
    /\ pc = "read"
    /\ relations # << >> /\ Head(relations) = << >>
    /\ NextRelation
    /\ UNCHANGED <<wayVars, polygons, ringVars, trackVars, pc>>

EndOfFile ==
    /\ pc = "read"
    /\ relations = << >>
    /\ pc' = "done"
    /\ UNCHANGED <<readVars, wayVars, polygons, ringVars, trackVars>>

LoadData == ReadMember \/ ReadArea \/ ReadOtherTag \/ EndOfRelation \/ EndOfFile

-----------------------------------------------------------------------------
(* BuildRings: process() for the outer and then for the inner members *)

IsClosed(w) == Len(w) > 1 /\ Head(w) = Last(w)

IsOpen(w) == ~IsClosed(w)

\* The polygon BuildRings was called for, and the numbers of its members.
Members == polygons[Len(polygons)][role]

\* A process() that goes on with the pointer of the last one.
ProcessStale ==
    /\ pc = "process"
    /\ closed' = Pick(Members, {i \in DOMAIN Members : IsClosed(ways[Members[i]])})
    /\ open' = Pick(Members, {i \in DOMAIN Members : IsOpen(ways[Members[i]])})
    /\ pc' = "while"
    /\ UNCHANGED <<readVars, wayVars, polygons, role, stale, trackVars>>

\* The pointer is taken, and the members are divided into closed and open ones.
Process ==
    /\ pc = "process"
    /\ stale' = FALSE
    /\ closed' = Pick(Members, {i \in DOMAIN Members : IsClosed(ways[Members[i]])})
    /\ open' = Pick(Members, {i \in DOMAIN Members : IsOpen(ways[Members[i]])})
    /\ pc' = "while"
    /\ UNCHANGED <<readVars, wayVars, polygons, role, trackVars>>

\* The head of the loop: no open way is left, or Track is called; with a pointer
\* that is out of date, the first thing Track does with it is undefined.
While ==
    /\ pc = "while"
    /\ nodes' = << >> /\ used' = {} /\ marks' = << >> /\ from' = 1
    /\ pc' = IF open = << >> THEN "finish" ELSE IF stale THEN "undefined" ELSE "track"
    /\ UNCHANGED <<readVars, wayVars, polygons, ringVars>>

\* The open ways that could not be joined are dropped.
Finish ==
    /\ pc = "finish"
    /\ polygons' = [polygons EXCEPT ![Len(polygons)][role] = closed]
    /\ role' = "inner"
    /\ pc' = IF role = "outer" THEN "process" ELSE "read"
    /\ UNCHANGED <<readVars, wayVars, stale, closed, open, trackVars>>

-----------------------------------------------------------------------------
(* Track and TrackRec *)

Way(i) == ways[open[i]]

\* A search that does not turn ways round.
TouchesForward(i) == Head(Way(i)) = Last(nodes)

\* Entry i goes on where the nodes collected so far end.
Touches(i) == Last(nodes) \in {Head(Way(i)), Last(Way(i))}

\* The entries at which the loop of the innermost call does something: one to
\* start with, one to join, or one without nodes, whose front() is undefined.
Stops(i) ==
    /\ i \notin used
    /\ (nodes # << >> /\ Way(i) # << >>) => Touches(i)

\* The loop comes to entry i next.
ComesTo(i) ==
    /\ pc = "track" /\ ~IsClosed(nodes)
    /\ i \in from..Len(open)
    /\ Stops(i)
    /\ \A j \in from..(i - 1) : ~Stops(j)

\* The way is appended as it is if it starts at the tail, and reversed if not.
Joined(i) ==
    nodes \o (IF nodes # << >> /\ Head(Way(i)) # Last(nodes) THEN Reverse(Way(i)) ELSE Way(i))

\* used[i] = true, and the recursive call.
Mark(i) ==
    /\ ComesTo(i)
    /\ nodes = << >> \/ Way(i) # << >>
    /\ nodes' = Joined(i)
    /\ used' = used \cup {i}
    /\ marks' = Append(marks, [entry |-> i, len |-> Len(nodes)])
    /\ from' = 1
    /\ UNCHANGED <<readVars, wayVars, polygons, ringVars, pc>>

FrontOfNothing(i) ==
    /\ ComesTo(i)
    /\ nodes # << >> /\ Way(i) = << >>
    /\ pc' = "undefined"
    /\ UNCHANGED <<readVars, wayVars, polygons, ringVars, trackVars>>

\* The innermost call has come to the end of its loop.
Exhausted ==
    /\ pc = "track" /\ ~IsClosed(nodes)
    /\ \A i \in from..Len(open) : ~Stops(i)

\* The caller forgets used[i] = false.
GiveBackNothing ==
    /\ Exhausted /\ marks # << >>
    /\ nodes' = SubSeq(nodes, 1, Last(marks).len)
    /\ from' = Last(marks).entry + 1
    /\ marks' = Front(marks)
    /\ UNCHANGED <<used, readVars, wayVars, polygons, ringVars, pc>>

\* The caller's loop tries the same entry again.
GiveBackAgain ==
    /\ Exhausted /\ marks # << >>
    /\ nodes' = SubSeq(nodes, 1, Last(marks).len)
    /\ used' = used \ {Last(marks).entry}
    /\ from' = Last(marks).entry
    /\ marks' = Front(marks)
    /\ UNCHANGED <<readVars, wayVars, polygons, ringVars, pc>>

\* return false: the caller undoes its mark and goes on with its loop.
GiveBack ==
    /\ Exhausted /\ marks # << >>
    /\ nodes' = SubSeq(nodes, 1, Last(marks).len)
    /\ used' = used \ {Last(marks).entry}
    /\ from' = Last(marks).entry + 1
    /\ marks' = Front(marks)
    /\ UNCHANGED <<readVars, wayVars, polygons, ringVars, pc>>

\* return false of the outermost call: Track returns no nodes, and process breaks.
GiveUp ==
    /\ Exhausted /\ marks = << >>
    /\ pc' = "finish"
    /\ UNCHANGED <<readVars, wayVars, polygons, ringVars, trackVars>>

\* m_Ways.emplace_back: a full storage is moved and grows.
AppendWay(w) ==
    /\ ways' = Append(ways, w)
    /\ \/ room > 0 /\ room' = room - 1 /\ UNCHANGED stale
       \/ room = 0 /\ room' \in 0..MaxRoom /\ stale' = TRUE

\* return true of all calls: the marked ways leave the open list, and their nodes
\* become a way of their own.
RingFound ==
    /\ pc = "track" /\ IsClosed(nodes)
    /\ open' = Pick(open, DOMAIN open \ used)
    /\ closed' = Append(closed, Len(ways) + 1)
    /\ AppendWay(nodes)
    /\ pc' = "while"
    /\ UNCHANGED <<readVars, polygons, role, trackVars>>

TrackRec ==
    \/ \E i \in DOMAIN open : Mark(i) \/ FrontOfNothing(i)
    \/ GiveBack
    \/ GiveUp
    \/ RingFound

BuildRings == Process \/ While \/ TrackRec \/ Finish

Next == LoadData \/ BuildRings

\* One thread that computes: it goes on until it is done.
Spec == Init /\ [][Next]_vars /\ WF_vars(Next)

-----------------------------------------------------------------------------
(* What the rings are for *)

\* The pairs of nodes a way connects; the two copies of a joint are one node.
Segments(w) == {{w[k], w[k + 1]} : k \in 1..(Len(w) - 1)}

\* The places of a list's nodes, and how many there are.
Places(list, I) == UNION {{i} \X DOMAIN ways[list[i]] : i \in I}

NodesIn(list) == Cardinality(Places(list, DOMAIN list))

\* What process() makes of a list are closed ways only; those that are no members
\* run along members, from joint to joint; and no node of a member is used twice or
\* lost: together with the open ways that are left over the new list has as many
\* nodes as the old one (model.cpp:196-277).
RingsOfMembers ==
    [][pc = "finish" =>
         /\ \A r \in ToSet(closed) :
              /\ IsClosed(ways[r])
              /\ r \in ToSet(Members) \/ \A s \in Segments(ways[r]) :
                   Cardinality(s) = 1 \/ \E w \in ToSet(Members) : s \in Segments(ways[w])
         /\ NodesIn(closed) + NodesIn(open) = NodesIn(Members)]_vars

\* How many ways among the entries S of open begin or end at node n.
Degree(S, n) ==
    Cardinality({i \in S : Head(Way(i)) = n}) + Cardinality({i \in S : Last(Way(i)) = n})

\* Some of the open ways, each of them of two nodes at least, meet at every node in
\* an even number: then there is a ring among them.
RingPossible ==
    \E S \in SUBSET {i \in DOMAIN open : Len(Way(i)) > 1} :
        S # {} /\ \A n \in Nodes : Degree(S, n) % 2 = 0

\* The search overlooks nothing: when process() drops what is left of the open ways,
\* no ring can be made of it.  An area whose members meet evenly at every node,
\* and that is every area drawn correctly, loses no member (model.cpp:201-212,
\* :219-237, :266-269).
NothingLeftToJoin == pc = "finish" => ~RingPossible

\* The stale pointer bites only where one list of members makes a second ring, or
\* comes to its left-over ways after the first: an area of one ring per role is
\* read correctly, however full the storage of m_Ways is (model.cpp:260, :274).
OneRingIsSafe ==
    (pc = "undefined" /\ \A i \in DOMAIN open : Way(i) # << >>) =>
        open # << >> /\ \E r \in ToSet(closed) : r \notin ToSet(Members)

\* The search comes to an end, with backtracking and all (model.cpp:196-281).
Terminates == <>(pc \in {"done", "undefined"})
=============================================================================
