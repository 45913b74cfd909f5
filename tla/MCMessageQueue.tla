--------------------------- MODULE MCMessageQueue ---------------------------
\* Two senders and three receivers on one queue of at most three messages.  The
\* program gives a queue one sender at a time, so this covers more than it uses.
EXTENDS MessageQueue

CONSTANTS s1, s2, r1, r2, r3

MCSenders == {s1, s2}
MCReceivers == {r1, r2, r3}
=============================================================================
