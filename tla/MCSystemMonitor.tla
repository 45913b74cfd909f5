-------------------------- MODULE MCSystemMonitor --------------------------
\* Two process numbers and two processes: both are listed, or one ends and the other
\* takes over its number.  The counters go far enough for two samples.
EXTENDS SystemMonitor

CONSTANTS init, job

MCPids == {1, 2}
MCProcs == {init, job}
MCOwner == [q \in MCProcs |-> IF q = init THEN "root" ELSE "user"]

\* The job is the busier one, whenever it is taken to have started.
MCShare == [a \in MCProcs \X (MCProcs \cup {Gone}) |-> IF a[1] = job THEN 1 ELSE 0]
=============================================================================
