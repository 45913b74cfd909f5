--------------------------- MODULE MCRoutePlanner ---------------------------
\* Four crossings at the corners of a rectangle of 6 by 8 and one in the
\* middle, so that all the distances are the Euclidean ones and many of them
\* are equal; and every map of three roads with ways out of MCWays: straight,
\* bent, closed (its first node is its last) and with a spur.
EXTENDS RoutePlanner

CONSTANTS sw, se, nw, ne, mid, main, market, mill

MCNodes == {sw, se, nw, ne, mid}
MCRoads == {main, market, mill}
MCWays == {<<sw, se>>, <<nw, ne>>, <<se, mid, ne>>, <<sw, nw, mid>>,
           <<ne, mid, sw>>, <<sw, mid, se, sw>>, <<nw, ne, nw, sw>>}
MCMaps == [MCRoads -> MCWays]

\* The distance is 10 along a diagonal, 5 from the middle to a corner.
MCDist ==
    LET Diagonal == {{sw, ne}, {se, nw}}
        Short == {{sw, se}, {nw, ne}}
        Between(n, m) == CASE n = m -> 0
                           [] n # m /\ mid \in {n, m} -> 5
                           [] {n, m} \in Short -> 6
                           [] {n, m} \in Diagonal -> 10
                           [] OTHER -> 8
    IN  [n \in MCNodes |-> [m \in MCNodes |-> Between(n, m)]]
=============================================================================
