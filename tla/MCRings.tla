------------------------------ MODULE MCRings ------------------------------
\* Maps of eight ways over four nodes: the sides and a diagonal of a square, some
\* of them the other way round, a closed way, a way of a single node, one without
\* any that is known.  Every list of three members of a water, and lists of four
\* that make two rings, or one that passes through a node twice; then relations
\* with inner members, tags in front of members, unknown members and other tags.
EXTENDS Rings

CONSTANTS a, b, c, d

MCNodes == {a, b, c, d}

MCWays == << <<a, b>>, <<c, b>>, <<c, Unknown, a>>, <<c, d>>, <<a, d>>,
             <<b, c, d, b>>, <<b>>, <<Unknown>> >>

Member(w, r) == [name |-> "member", ref |-> w, role |-> r]
Tag(t) == [name |-> t]

\* The members of one role, and then the tag.
Area(ring, hole, tag) ==
    [i \in DOMAIN ring |-> Member(ring[i], "outer")]
        \o [i \in DOMAIN hole |-> Member(hole[i], "inner")] \o <<Tag(tag)>>

Triples == {Area(ring, << >>, "water") : ring \in [1..3 -> DOMAIN MCWays]}

\* Twice the diagonal and back, and the square: two rings through a and c.
Quadruples ==
    {Area(ring, << >>, "landuse") :
        ring \in {r \in [1..4 -> {1, 2, 3, 4, 5}] : \E w \in 1..5 : \A i \in 1..4 : r[i] # w}}

Holes == {Area(<<1, 2, 3>>, hole, "water") : hole \in [1..3 -> {1, 3, 4, 5, 7}]}

Others == {
    <<Member(1, "outer"), Tag("tag"), Member(Unknown, "outer"), Tag("building")>>,
    <<Member(1, "outer"), Tag("unknown landuse"), Tag("water")>>,
    <<Member(1, ""), Tag("landuse"), Member(2, "outer")>>,
    <<Member(4, "inner"), Tag("tag")>>}

MCDocuments ==
    {[ways |-> MCWays, relations |-> r] :
        r \in {<<t>> : t \in Triples \cup Quadruples \cup Holes}
                \cup {<<o, Area(<<3, 5, 4>>, <<3, 2, 1>>, "water")>> : o \in Others}}
=============================================================================
