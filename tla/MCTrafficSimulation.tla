------------------------ MODULE MCTrafficSimulation ------------------------
\* A small Paris: as in createTrafficObjects_Paris every street leads from an
\* outer intersection to the central plaza and every vehicle starts on a street
\* of its own towards the plaza.  Two of the three streets share their outer
\* intersection, so that the plaza offers a choice and one outer intersection is
\* a dead end while the other is not.
EXTENDS TrafficSimulation

CONSTANTS plaza, north, south, avenue, boulevard, rue, v1, v2

MCIntersections == {plaza, north, south}
MCStreets == {avenue, boulevard, rue}
MCIn == [s \in MCStreets |-> IF s = rue THEN south ELSE north]
MCOut == [s \in MCStreets |-> plaza]
MCVehicles == {v1, v2}
MCStartStreet == [v \in MCVehicles |-> IF v = v1 THEN avenue ELSE rue]
MCStartDestination == [v \in MCVehicles |-> plaza]
=============================================================================
