--------------------------- MODULE MCTrafficLight ---------------------------
\* Two lights and one caller: the program lets only one thread at a time into
\* waitForGreen (Intersection.tla shows it), whatever the intersection.
EXTENDS TrafficLight

CONSTANTS l1, l2

MCLights == {l1, l2}
=============================================================================
