--------------------------- MODULE MCIntersection ---------------------------
\* Three vehicles (two queued behind one inside) that meet at two intersections.
EXTENDS Intersection

CONSTANTS v1, v2, v3, i1, i2

ThreeVehicles == {v1, v2, v3}
TwoIntersections == {i1, i2}
=============================================================================
