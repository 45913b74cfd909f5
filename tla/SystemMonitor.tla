--------------------------- MODULE SystemMonitor ---------------------------
(***************************************************************************)
(* The loop of NCursesDisplay::Display (ncurses_display.cpp): the share of *)
(* the CPU, then the table of the processes, then a second of sleep, while *)
(* the kernel counts jiffies and starts and ends processes.                *)
(*                                                                         *)
(* The other lines of the upper window are read from files of their own    *)
(* and kept nowhere; they are left out.                                    *)
(***************************************************************************)
EXTENDS Processor, FiniteSets, Sequences

CONSTANTS
    Pids, Procs, Gone, Owner, FirstUser, Share, Rows

ASSUME ProcsAssumption ==
    /\ Pids \subseteq Nat /\ IsFiniteSet(Pids)
    /\ IsFiniteSet(Procs) /\ Gone \notin Procs
    /\ Owner \in [Procs -> STRING]
    /\ FirstUser \in STRING
    /\ Share \in [Procs \X (Procs \cup {Gone}) -> Nat]
    /\ Rows \in Nat

VARIABLES
    running, unborn, step, seen, pids, row, stat, processes,
    window   \* the window Display is about to fill

Table == INSTANCE ProcessTable

tableVars == <<running, unborn, step, seen, pids, row, stat, processes>>
monitorVars == <<vars, tableVars, window>>

MonitorInit == Init /\ Table!Init /\ window = "system"

\* The table does not look at the jiffies, and nothing looks at the processes before
\* the next table: those that pass, start or end during the other window might as
\* well do so during their own.
Kernel ==
    \/ window = "system" /\ Tick /\ UNCHANGED <<tableVars, window>>
    \/ window = "processes" /\ Table!Kernel /\ UNCHANGED <<vars, window>>

DisplaySystem ==
    /\ window = "system"
    /\ \/ (Call \/ Read) /\ UNCHANGED window
       \/ Utilization /\ window' = "processes"
    /\ UNCHANGED tableVars

\* The table, and the sleep: the next call of Utilization waits for the jiffies.
DisplayProcesses ==
    /\ window = "processes"
    /\ \/ (Table!ListPids \/ Table!Construct) /\ UNCHANGED window
       \/ Table!Sort /\ window' = "system"
    /\ UNCHANGED vars

Display == DisplaySystem \/ DisplayProcesses

MonitorNext == Kernel \/ Display

MonitorSpec == MonitorInit /\ [][MonitorNext]_monitorVars

-----------------------------------------------------------------------------
MonitorTypeOK ==
    /\ TypeOK
    /\ Table!TypeOK
    /\ window \in {"system", "processes"}

\* What the lower window shows is true of all processes that are still there
\* (ncurses_display.cpp:58-87).
TableIsTrue == Table!TableIsTrue
=============================================================================
