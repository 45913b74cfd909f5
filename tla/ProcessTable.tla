---------------------------- MODULE ProcessTable ----------------------------
(***************************************************************************)
(* System::Processes (system.cpp), the constructor of Process              *)
(* (process.cpp) and the functions of LinuxParser that read the files of   *)
(* one process, while processes end and new ones take over their numbers.  *)
(*                                                                         *)
(* What a file says is abstracted to whose file it was: a field of a row   *)
(* is the process that answered, or Gone when there was nothing to read.   *)
(* The user is an exception, because it is looked up in /etc/passwd by a   *)
(* number, and an empty number is found in the first line.                 *)
(***************************************************************************)
EXTENDS Integers, FiniteSets, SequencesExt

CONSTANTS
    Pids,       \* process numbers
    Procs,      \* the processes there ever are: each runs once at most
    Gone,       \* no process
    Owner,      \* the user that /etc/passwd gives for the numbers of each process
    FirstUser,  \* the user in the first line of /etc/passwd
    Share,      \* the share of the CPU, by whose jiffies and whose start were read
    Rows        \* the n of Display: how many rows the window has

VARIABLES
    running,   \* the process behind each number
    unborn,    \* those that have not started yet
    step,      \* what the monitor does next; "shown" between two tables
    seen,      \* who was behind each number when Pids() read the directory
    pids,      \* the numbers left of the list that Pids() returned
    row,       \* the Process under construction
    stat,      \* the process whose stat file ActiveJiffies(pid) has open
    processes  \* processes_

kernelVars == <<running, unborn>>
tableVars == <<step, seen, pids, row, stat, processes>>
vars == <<kernelVars, tableVars>>

Nothing == [f \in {"user", "command", "ram", "time", "second"} |-> Gone]

Init ==
    /\ running \in [Pids -> Procs \cup {Gone}]
    /\ \A p, q \in Pids : running[p] = running[q] => p = q \/ running[p] = Gone
    /\ unborn = {q \in Procs : \A p \in Pids : running[p] # q}
    /\ step = "shown"
    /\ seen = [p \in Pids |-> Gone]
    /\ pids = {}
    /\ row = Nothing
    /\ stat = Gone
    /\ processes = << >>

-----------------------------------------------------------------------------
(* The kernel *)

Fork(p) ==
    /\ running[p] = Gone
    /\ \E q \in unborn :
         /\ running' = [running EXCEPT ![p] = q]
         /\ unborn' = unborn \ {q}
    /\ UNCHANGED tableVars

Exit(p) ==
    /\ running[p] # Gone
    /\ running' = [running EXCEPT ![p] = Gone]
    /\ UNCHANGED <<unborn, tableVars>>

-----------------------------------------------------------------------------
(* LinuxParser *)

\* Which of the functions for one process follows which.
NextField(f) ==
    CASE f = "user" -> "command"
      [] f = "command" -> "ram"
      [] f = "ram" -> "time"
      [] f = "time" -> "second"
      [] f = "second" -> "open"

\* No number is found in no line.
UserNameOrNone(answer) == IF answer = Gone THEN Gone ELSE Owner[answer]

\* User(pid): the first line of the file that contains the number read.
UserName(answer) == IF answer = Gone THEN FirstUser ELSE Owner[answer]

\* The last line of the constructor; the age of the system is left out.
ShareOf(r) == IF r.jiffies = Gone THEN 0 ELSE Share[r.jiffies, r.second]

\* Pids(): the numbers in /proc.
Directory == {p \in Pids : running[p] # Gone}

\* They come in ascending order: the number the loop over them is at.
Pid == Min(pids)

\* A table that is not cleared.
ListPidsAgain ==
    /\ step = "shown"
    /\ seen' = running
    /\ pids' = Directory
    /\ row' = Nothing
    /\ step' = IF pids' = {} THEN "sort" ELSE "user"
    /\ UNCHANGED <<processes, stat, kernelVars>>

\* processes_.clear() and Pids().
ListPids ==
    /\ step = "shown"
    /\ processes' = << >>
    /\ seen' = running
    /\ pids' = Directory
    /\ row' = Nothing
    /\ step' = IF pids' = {} THEN "sort" ELSE "user"
    /\ UNCHANGED <<stat, kernelVars>>

\* User(pid), Command(pid), Ram(pid), and UpTime(pid) twice: a file that cannot be
\* opened and one that cannot be read any more give the same.
ReadFile ==
    /\ step \in DOMAIN row
    /\ row' = [row EXCEPT ![step] = running[Pid]]
    /\ step' = NextField(step)
    /\ UNCHANGED <<seen, pids, stat, processes, kernelVars>>

\* ActiveJiffies(pid) opens the file.
OpenStat ==
    /\ step = "open"
    /\ stat' = running[Pid]
    /\ step' = IF stat' = Gone THEN "push" ELSE "read"
    /\ UNCHANGED <<seen, pids, row, processes, kernelVars>>

\* It reads the line; if the process has ended in the meantime there is none, and
\* stol of an empty word throws, which nobody catches.
ReadStat ==
    /\ step = "read"
    /\ step' = IF running[Pid] = stat THEN "push" ELSE "terminated"
    /\ UNCHANGED <<seen, pids, row, stat, processes, kernelVars>>

PushRow ==
    /\ step = "push"
    /\ processes' = Append(processes,
            [pid |-> Pid, user |-> UserName(row["user"]), command |-> row["command"],
             ram |-> row["ram"], time |-> row["time"], second |-> row["second"],
             jiffies |-> stat])
    /\ pids' = pids \ {Pid}
    /\ row' = Nothing
    /\ stat' = Gone
    /\ step' = IF pids' = {} THEN "sort" ELSE "user"
    /\ UNCHANGED <<seen, kernelVars>>

\* A comparison the other way round.
SortUpwards ==
    /\ step = "sort"
    /\ \E f \in Bijection(DOMAIN processes, DOMAIN processes) :
         /\ processes' = [i \in DOMAIN processes |-> processes[f[i]]]
         /\ \A i, j \in DOMAIN processes :
              i < j => ShareOf(processes'[i]) <= ShareOf(processes'[j])
    /\ step' = "shown"
    /\ UNCHANGED <<seen, pids, row, stat, kernelVars>>

\* std::sort promises nothing about the order of equals.
Sort ==
    /\ step = "sort"
    /\ \E f \in Bijection(DOMAIN processes, DOMAIN processes) :
         /\ processes' = [i \in DOMAIN processes |-> processes[f[i]]]
         /\ \A i, j \in DOMAIN processes :
              i < j => ShareOf(processes'[i]) >= ShareOf(processes'[j])
    /\ step' = "shown"
    /\ UNCHANGED <<seen, pids, row, stat, kernelVars>>

Construct == ReadFile \/ OpenStat \/ ReadStat \/ PushRow

Kernel == \E p \in Pids : Fork(p) \/ Exit(p)

Next == Kernel \/ ListPids \/ Construct \/ Sort

Spec == Init /\ [][Next]_vars

-----------------------------------------------------------------------------
RowType ==
    [pid : Pids, user : {FirstUser} \cup Range(Owner), command : Procs \cup {Gone},
     ram : Procs \cup {Gone}, time : Procs \cup {Gone}, second : Procs \cup {Gone},
     jiffies : Procs \cup {Gone}]

TypeOK ==
    /\ running \in [Pids -> Procs \cup {Gone}]
    /\ unborn \subseteq Procs
    /\ step \in DOMAIN Nothing \cup {"open", "read", "push", "sort", "shown", "terminated"}
    /\ seen \in [Pids -> Procs \cup {Gone}]
    /\ pids \subseteq Pids
    /\ row \in [DOMAIN Nothing -> Procs \cup {Gone}]
    /\ stat \in Procs \cup {Gone}
    /\ processes \in Seq(RowType)

\* All that a row says of the process q when every file was there to be read.
RowOf(p, q) ==
    [pid |-> p, user |-> Owner[q], command |-> q, ram |-> q, time |-> q, second |-> q,
     jiffies |-> q]

\* A table that is shown has one row for each process that was listed, and none of an
\* earlier table; whatever ended, and whatever took over its number, the row of a
\* process that is still there is its own in every field; and no process that does
\* not fit into the window has a greater share than one that does (system.cpp:31-41,
\* process.cpp:41-51, ncurses_display.cpp:74).
TableIsTrue ==
    step = "shown" =>
        /\ \A i, j \in DOMAIN processes : processes[i].pid = processes[j].pid => i = j
        /\ {processes[i].pid : i \in DOMAIN processes} = {p \in Pids : seen[p] # Gone}
        /\ \A i \in DOMAIN processes : LET p == processes[i].pid IN
             running[p] = seen[p] => processes[i] = RowOf(p, seen[p])
        /\ \A i, j \in DOMAIN processes :
             i <= Rows /\ Rows < j => ShareOf(processes[i]) >= ShareOf(processes[j])
=============================================================================
