------------------------ MODULE SystemMonitorProofs ------------------------
(***************************************************************************)
(* Proofs of the invariants of Processor.tla, for any number of jiffies    *)
(* during a sample and any larger one between two samples, for both orders *)
(* of evaluation, and wherever the counters stop; that they hold in the    *)
(* whole monitor, whose loop leaves the fields of Processor to Utilization *)
(* while processes start and end; and, in the last part, that the table of *)
(* the processes is true, for any processes and numbers.                   *)
(*                                                                         *)
(* The properties speak of the moment after a sample.  What makes them     *)
(* inductive is a bound on every reading from the moment it was taken      *)
(* (Registers), and the distance that the counters keep from the fields of *)
(* Processor before a sample (Resting) and during one (Sampling).          *)
(***************************************************************************)
EXTENDS SystemMonitor, WellFoundedInduction, TLAPS

Begun == begun.active + begun.idle

\* While nothing is read the counters move away from the fields.
Resting ==
    pc = "rest" =>
        /\ prevtotal + elapsed <= active + idle
        /\ previdle <= idle
        /\ prevtotal - previdle <= active

\* During a sample they are where they were at its beginning, but for ReadTicks.
Sampling ==
    pc # "rest" =>
        /\ prevtotal + SleepTicks <= Begun
        /\ previdle <= begun.idle
        /\ prevtotal - previdle <= begun.active
        /\ begun.active <= active /\ begun.idle <= idle
        /\ active + idle <= Begun + elapsed /\ elapsed <= ReadTicks

SumRead == pc \in {"minus", "idle", "compute"} \/ (pc = "plus" /\ activeFirst)

MinusRead == pc \in {"idle", "compute"} \/ (pc = "plus" /\ activeFirst)

PlusRead == pc \in {"idle", "compute"} \/ (pc \in {"sum", "minus"} /\ ~activeFirst)

IdleRead == pc = "compute"

Registers ==
    /\ SumRead => Begun <= reg["sum"] /\ reg["sum"] <= active + idle
    /\ MinusRead => /\ begun.idle <= reg["minus"] /\ reg["minus"] <= idle
                    /\ reg["sum"] - reg["minus"] <= active
    /\ PlusRead => begun.idle <= reg["plus"] /\ reg["plus"] <= idle
    /\ PlusRead /\ MinusRead /\ activeFirst => reg["minus"] <= reg["plus"]
    /\ IdleRead => /\ reg["minus"] <= reg["idle"] /\ reg["plus"] <= reg["idle"]
                   /\ reg["idle"] <= idle

\* The inductive invariant.
IInv ==
    /\ TypeOK
    /\ Resting
    /\ Sampling
    /\ Registers
    /\ ShareInRange
    /\ ErrorsDoNotAccumulate

-----------------------------------------------------------------------------
\* The counters are those of a machine that has been up for a while.
LEMMA InitInv == Init => IInv
<1> SUFFICES ASSUME Init PROVE IInv
    OBVIOUS
<1> USE TicksAssumption DEF TicksAssumption
<1>1. TypeOK
    BY DEF Init, TypeOK, NoReading, Regs
<1>2. Resting /\ Sampling /\ Registers
    BY DEF Init, Resting, Sampling, Registers, SumRead, MinusRead, PlusRead, IdleRead
<1>3. ShareInRange /\ ErrorsDoNotAccumulate
    BY DEF Init, ShareInRange, ErrorsDoNotAccumulate, Sampled
<1>4. QED
    BY <1>1, <1>2, <1>3 DEF IInv

\* Between two samples every jiffy takes the counters further from the fields, and
\* during a sample away from where they were at its beginning.
LEMMA TickInv == IInv /\ Tick => IInv'
<1> SUFFICES ASSUME IInv, Tick PROVE IInv'
    OBVIOUS
<1> USE TicksAssumption DEF TicksAssumption
<1>t. /\ TypeOK /\ Resting /\ Sampling /\ Registers
      /\ ShareInRange /\ ErrorsDoNotAccumulate
    BY DEF IInv
<1>u. /\ activeFirst' = activeFirst /\ pc' = pc /\ reg' = reg /\ begun' = begun
      /\ prevtotal' = prevtotal /\ previdle' = previdle
      /\ totald' = totald /\ idled' = idled
    BY DEF Tick, sampleVars, procVars
<1>v. /\ active \in Nat /\ idle \in Nat /\ active' \in Nat /\ idle' \in Nat
      /\ active <= active' /\ idle <= idle'
      /\ active' + idle' = active + idle + 1
    BY <1>t DEF TypeOK, Tick
<1>e. /\ elapsed \in Nat /\ elapsed' \in 0..SleepTicks /\ elapsed' \in Nat
      /\ elapsed' <= elapsed + 1
    BY <1>t DEF TypeOK, Tick
<1>s. pc # "rest" => elapsed' = elapsed + 1 /\ elapsed' <= ReadTicks
    BY <1>t, <1>e DEF Tick, TypeOK
<1>r. /\ begun.active \in Nat /\ begun.idle \in Nat
      /\ prevtotal \in Int /\ previdle \in Int
    BY <1>t DEF TypeOK
<1>1. TypeOK'
    BY <1>t, <1>u, <1>v, <1>e DEF TypeOK
<1> DEFINE a == active'  i == idle'  e == elapsed'
<1>d. /\ a \in Nat /\ i \in Nat /\ e \in Nat
      /\ active <= a /\ idle <= i /\ a + i = active + idle + 1 /\ e <= elapsed + 1
    BY <1>v, <1>e
<1>2. Resting'
    <2>1. pc = "rest" =>
            /\ prevtotal + e <= a + i /\ previdle <= i /\ prevtotal - previdle <= a
        <3> HIDE DEF a, i, e
        <3>1. QED
            BY <1>t, <1>v, <1>e, <1>r, <1>d DEF Resting
    <2>2. QED
        BY <1>u, <2>1 DEF Resting
<1>3. Sampling'
    <2>1. pc # "rest" =>
            /\ begun.active <= a /\ begun.idle <= i
            /\ a + i <= begun.active + begun.idle + e
        <3>1. pc # "rest" => e = elapsed + 1
            BY <1>s
        <3> HIDE DEF a, i, e
        <3>2. QED
            BY <1>t, <1>v, <1>e, <1>r, <1>d, <3>1 DEF Sampling, Begun
    <2>2. QED
        BY <1>t, <1>u, <1>s, <2>1 DEF Sampling, Begun
<1>4. Registers'
    <2> DEFINE s == reg["sum"]  m == reg["minus"]  p == reg["plus"]  d == reg["idle"]
    <2>1. s \in Int /\ m \in Int /\ p \in Int /\ d \in Int
        BY <1>t DEF TypeOK, Regs
    <2>2. QED
        BY <1>t, <1>u, <1>v, <1>r, <2>1
        DEF Registers, SumRead, MinusRead, PlusRead, IdleRead, Begun
<1>5. ShareInRange'
    BY <1>t, <1>u DEF ShareInRange, Sampled, Drift
<1>6. ErrorsDoNotAccumulate'
    BY <1>t, <1>u, <1>v, <1>r DEF ErrorsDoNotAccumulate, Sampled, Drift
<1>7. QED
    BY <1>1, <1>2, <1>3, <1>4, <1>5, <1>6 DEF IInv

\* A sample begins SleepTicks after the last one (processor.cpp:9).
LEMMA CallInv == IInv /\ Call => IInv'
<1> SUFFICES ASSUME IInv, Call PROVE IInv'
    OBVIOUS
<1> USE TicksAssumption DEF TicksAssumption
<1>t. TypeOK /\ Resting
    BY DEF IInv
<1>u. UNCHANGED <<active, idle, activeFirst, reg, prevtotal, previdle, totald, idled>>
    BY DEF Call, kernelVars, procVars
<1>p. /\ pc = "rest" /\ elapsed = SleepTicks /\ elapsed' = 0
      /\ pc' = FirstRead /\ pc' \in {"sum", "plus"} /\ (pc' = "sum" <=> activeFirst)
      /\ begun'.active = active /\ begun'.idle = idle
    BY DEF Call, FirstRead
<1>1. TypeOK'
    BY <1>t, <1>u, <1>p DEF TypeOK, Call, Regs
<1>2. Resting' /\ ShareInRange' /\ ErrorsDoNotAccumulate'
    BY <1>p DEF Resting, ShareInRange, ErrorsDoNotAccumulate, Sampled
<1>3. Sampling'
    BY <1>t, <1>u, <1>p DEF TypeOK, Resting, Sampling, Begun
<1>4. Registers'
    BY <1>t, <1>u, <1>p DEF TypeOK, Registers, SumRead, MinusRead, PlusRead, IdleRead
<1>5. QED
    BY <1>1, <1>2, <1>3, <1>4 DEF IInv

\* Each reading of /proc/stat lies between the one before it and the counters as they
\* are (linux_parser.cpp:137-170).
LEMMA ReadInv == IInv /\ Read => IInv'
<1> SUFFICES ASSUME IInv, Read PROVE IInv'
    OBVIOUS
<1> USE TicksAssumption DEF TicksAssumption
<1>t. TypeOK /\ Sampling /\ Registers
    BY DEF IInv
<1>u. UNCHANGED <<active, idle, elapsed, activeFirst, begun,
                  prevtotal, previdle, totald, idled>>
    BY DEF Read, kernelVars, procVars
<1>v. /\ active \in Nat /\ idle \in Nat /\ begun.active \in Nat /\ begun.idle \in Nat
      /\ activeFirst \in BOOLEAN /\ reg \in [Regs -> Int] /\ pc \in Regs
    BY <1>t DEF TypeOK, Read
<1>c. pc = "sum" \/ pc = "minus" \/ pc = "plus" \/ pc = "idle"
    BY <1>v DEF Regs
<1>n. /\ pc # "rest" /\ pc' # "rest" /\ pc' \in Regs \cup {"compute"}
      /\ pc = "sum" => pc' = "minus"
      /\ pc = "minus" => pc' = IF activeFirst THEN "plus" ELSE "idle"
      /\ pc = "plus" => pc' = IF activeFirst THEN "idle" ELSE "sum"
      /\ pc = "idle" => pc' = "compute"
    BY <1>c DEF Read, NextRead, Regs
<1> DEFINE s == reg["sum"]  m == reg["minus"]  p == reg["plus"]  d == reg["idle"]
           read == IF pc = "sum" THEN active + idle ELSE idle
<1>r. /\ s \in Int /\ m \in Int /\ p \in Int /\ d \in Int
      /\ s' = IF pc = "sum" THEN read ELSE s
      /\ m' = IF pc = "minus" THEN read ELSE m
      /\ p' = IF pc = "plus" THEN read ELSE p
      /\ d' = IF pc = "idle" THEN read ELSE d
    BY <1>v DEF Read, Regs
<1>1. TypeOK'
    <2>1. reg' \in [Regs -> Int]
        BY <1>v DEF Read
    <2>2. QED
        BY <1>t, <1>u, <1>n, <2>1 DEF TypeOK
<1>2. Resting' /\ ShareInRange' /\ ErrorsDoNotAccumulate'
    BY <1>n DEF Resting, ShareInRange, ErrorsDoNotAccumulate, Sampled
<1>3. Sampling'
    BY <1>t, <1>u, <1>n DEF Sampling, Begun
<1>4. Registers'
    <2>1. /\ begun.active <= active /\ begun.idle <= idle
        BY <1>t, <1>n DEF Sampling
    <2>2. /\ SumRead => Begun <= s /\ s <= active + idle
          /\ MinusRead => begun.idle <= m /\ m <= idle /\ s - m <= active
          /\ PlusRead => begun.idle <= p /\ p <= idle
          /\ PlusRead /\ MinusRead /\ activeFirst => m <= p
        BY <1>t DEF Registers
    <2>3. Begun \in Nat /\ Begun <= active + idle /\ Begun' = Begun
        BY <1>v, <1>u, <2>1 DEF Begun
    <2>4. CASE pc = "sum"
        <3>1. SumRead' /\ ~MinusRead' /\ ~IdleRead' /\ (PlusRead' => PlusRead)
            BY <1>n, <1>u, <2>4 DEF SumRead, MinusRead, IdleRead, PlusRead
        <3>2. s' = active + idle /\ p' = p
            BY <1>r, <2>4
        <3>3. QED
            BY <1>u, <1>v, <2>2, <2>3, <3>1, <3>2 DEF Registers
    <2>5. CASE pc = "minus"
        <3>1. /\ SumRead /\ SumRead' /\ MinusRead' /\ ~IdleRead'
              /\ PlusRead' => PlusRead /\ ~activeFirst'
            BY <1>n, <1>u, <2>5 DEF SumRead, MinusRead, IdleRead, PlusRead
        <3>2. s' = s /\ m' = idle /\ p' = p
            BY <1>r, <2>5
        <3>3. s - idle <= active
            <4> HIDE DEF s
            <4>1. QED
                BY <1>v, <1>r, <2>2, <3>1
        <3>4. QED
            BY <1>u, <1>v, <2>1, <2>2, <2>3, <3>1, <3>2, <3>3 DEF Registers
    <2>6. CASE pc = "plus"
        <3>1. /\ SumRead' => SumRead
              /\ MinusRead' => MinusRead
              /\ PlusRead' /\ ~IdleRead'
            BY <1>n, <1>u, <2>6 DEF SumRead, MinusRead, IdleRead, PlusRead
        <3>2. s' = s /\ m' = m /\ p' = idle
            BY <1>r, <2>6
        <3>3. QED
            BY <1>u, <1>v, <2>1, <2>2, <2>3, <3>1, <3>2 DEF Registers
    <2>7. CASE pc = "idle"
        <3>1. SumRead /\ MinusRead /\ PlusRead
            BY <2>7 DEF SumRead, MinusRead, PlusRead
        <3>2. s' = s /\ m' = m /\ p' = p /\ d' = idle
            BY <1>r, <2>7
        <3>3. QED
            BY <1>u, <1>v, <2>2, <2>3, <3>1, <3>2 DEF Registers
    <2>8. QED
        BY <1>c, <2>4, <2>5, <2>6, <2>7
<1>5. QED
    BY <1>1, <1>2, <1>3, <1>4 DEF IInv

\* The bounds on the readings are bounds on what Utilization makes of them
\* (processor.cpp:12-21).
LEMMA UtilizationInv == IInv /\ Utilization => IInv'
<1> SUFFICES ASSUME IInv, Utilization PROVE IInv'
    OBVIOUS
<1> USE TicksAssumption DEF TicksAssumption
<1>t. TypeOK /\ Sampling /\ Registers
    BY DEF IInv
<1>v. /\ active \in Nat /\ idle \in Nat /\ begun.active \in Nat /\ begun.idle \in Nat
      /\ reg \in [Regs -> Int] /\ prevtotal \in Int /\ previdle \in Int
    BY <1>t DEF TypeOK
<1> DEFINE s == reg["sum"]  m == reg["minus"]  p == reg["plus"]  d == reg["idle"]
           j == s - m + p
<1>r. s \in Int /\ m \in Int /\ p \in Int /\ d \in Int
    BY <1>v DEF Regs
<1>u. /\ pc = "compute" /\ pc' = "rest" /\ elapsed' = 0 /\ reg' = NoReading
      /\ prevtotal' = j /\ previdle' = d
      /\ totald' = j - prevtotal /\ idled' = d - previdle
      /\ active' = active /\ idle' = idle /\ begun' = begun /\ activeFirst' = activeFirst
    BY DEF Utilization, Jiffies, kernelVars
<1>b. /\ prevtotal + SleepTicks <= begun.active + begun.idle
      /\ previdle <= begun.idle /\ prevtotal - previdle <= begun.active
      /\ begun.active <= active
      /\ active + idle <= begun.active + begun.idle + ReadTicks
    <2>1. active + idle <= Begun + elapsed /\ elapsed <= ReadTicks /\ elapsed \in Nat
        BY <1>t, <1>u DEF Sampling, TypeOK
    <2>2. active + idle <= begun.active + begun.idle + ReadTicks
        BY <1>v, <2>1 DEF Begun
    <2>3. QED
        BY <1>t, <1>u, <2>2 DEF Sampling, Begun
<1>g. /\ begun.active + begun.idle <= s
      /\ m <= idle /\ m <= d /\ s - m <= active
      /\ begun.idle <= p /\ p <= d /\ d <= idle
    BY <1>t, <1>u DEF Registers, SumRead, MinusRead, PlusRead, IdleRead, Begun
<1>j. /\ j \in Int
      /\ j <= active + idle /\ j - d <= active
      /\ prevtotal < j
      /\ begun.active + 2 * begun.idle <= j + d
    <2> HIDE DEF s, m, p, d
    <2>1. j \in Int /\ j <= active + idle /\ j - d <= active
        BY <1>v, <1>r, <1>g
    <2>2. begun.active + begun.idle - ReadTicks <= j
        BY <1>v, <1>r, <1>g, <1>b
    <2>3. begun.active + 2 * begun.idle <= j + d
        BY <1>v, <1>r, <1>g
    <2> HIDE DEF j
    <2>4. prevtotal < j
        BY <1>v, <1>b, <2>1, <2>2
    <2>5. QED
        BY <2>1, <2>3, <2>4
<1> HIDE DEF j, s, m, p, d
<1>1. TypeOK'
    BY <1>t, <1>u, <1>j, <1>r, <1>v DEF TypeOK, NoReading, Regs
<1>2. Resting'
    BY <1>u, <1>v, <1>r, <1>g, <1>j DEF Resting
<1>3. Sampling' /\ Registers'
    BY <1>u DEF Sampling, Registers, SumRead, MinusRead, PlusRead, IdleRead
<1>4. ShareInRange'
    <2>1. /\ j - prevtotal > 0
          /\ d - previdle >= 0
          /\ (j - prevtotal) - (d - previdle) >= -2 * (d - begun.idle)
        BY <1>v, <1>r, <1>b, <1>g, <1>j
    <2>2. QED
        BY <1>u, <2>1 DEF ShareInRange, Sampled, Drift
<1>5. ErrorsDoNotAccumulate'
    <2>1. j - d <= active /\ j - d >= begun.active - 2 * (d - begun.idle)
        BY <1>v, <1>r, <1>j
    <2>2. QED
        BY <1>u, <2>1 DEF ErrorsDoNotAccumulate, Sampled, Drift
<1>6. QED
    BY <1>1, <1>2, <1>3, <1>4, <1>5 DEF IInv

-----------------------------------------------------------------------------
\* IInv holds in every reachable state, for every ReadTicks < SleepTicks.
THEOREM Invariance == Spec => []IInv
<1>1. IInv /\ [Next]_vars => IInv'
    <2> SUFFICES ASSUME IInv, [Next]_vars PROVE IInv'
        OBVIOUS
    <2>1. CASE Tick
        BY <2>1, TickInv
    <2>2. CASE Call
        BY <2>2, CallInv
    <2>3. CASE Read
        BY <2>3, ReadInv
    <2>4. CASE Utilization
        BY <2>4, UtilizationInv
    <2>5. CASE UNCHANGED vars
        BY <2>5 DEF vars, kernelVars, sampleVars, procVars, IInv, TypeOK, Resting, Sampling,
             Registers, SumRead, MinusRead, PlusRead, IdleRead, Begun,
             ShareInRange, ErrorsDoNotAccumulate, Sampled, Drift
    <2>6. QED
        BY <2>1, <2>2, <2>3, <2>4, <2>5 DEF Next, Sample
<1>2. QED
    BY InitInv, <1>1, PTL DEF Spec

\* The fields and the readings stay numbers.
THEOREM TypeCorrect == Spec => []TypeOK
<1>1. IInv => TypeOK
    BY DEF IInv
<1>2. QED
    BY Invariance, <1>1, PTL

\* The share is defined, at most 100%, and below 0% by no more than the idle jiffies of
\* the sample, whatever passes between the readings (processor.cpp:12-21).
THEOREM ShareIsANumber == Spec => []ShareInRange
<1>1. IInv => ShareInRange
    BY DEF IInv
<1>2. QED
    BY Invariance, <1>1, PTL

\* The busy jiffies shown add up to those that have passed (processor.cpp:15-19).
THEOREM SharesAddUp == Spec => []ErrorsDoNotAccumulate
<1>1. IInv => ErrorsDoNotAccumulate
    BY DEF IInv
<1>2. QED
    BY Invariance, <1>1, PTL

-----------------------------------------------------------------------------
(* The monitor *)


\* Seen through the variables of Processor the monitor is Processor: the table takes
\* no step of theirs (ncurses_display.cpp:99-111).
THEOREM MonitorSamples == MonitorSpec => Spec
<1>1. MonitorInit => Init
    BY DEF MonitorInit
<1>2. [MonitorNext]_monitorVars => [Next]_vars
    <2> SUFFICES ASSUME [MonitorNext]_monitorVars PROVE [Next]_vars
        OBVIOUS
    <2>1. CASE Kernel
        BY <2>1 DEF Kernel, Next
    <2>2. CASE DisplaySystem
        BY <2>2 DEF DisplaySystem, Next, Sample
    <2>3. CASE DisplayProcesses
        BY <2>3 DEF DisplayProcesses
    <2>4. CASE UNCHANGED monitorVars
        BY <2>4 DEF monitorVars
    <2>5. QED
        BY <2>1, <2>2, <2>3, <2>4 DEF MonitorNext, Display
<1>3. QED
    BY <1>1, <1>2, PTL DEF MonitorSpec, Spec

\* The share the monitor shows is a number, at most 100%, and the shares add up
\* (processor.cpp:12-21).
THEOREM MonitorShares == MonitorSpec => [](ShareInRange /\ ErrorsDoNotAccumulate)
<1>1. QED
    BY MonitorSamples, ShareIsANumber, SharesAddUp, PTL

-----------------------------------------------------------------------------
(***************************************************************************)
(* The table of the processes.                                             *)
(*                                                                         *)
(* A number may change hands between two files that are read for it.  What *)
(* makes a row right all the same is that a process never comes back: as   *)
(* long as the one that was listed is behind its number, it has been there *)
(* all the time (NoReturn, Own).                                           *)
(***************************************************************************)

Listed == {p \in Pids : seen[p] # Gone}

NoReturn ==
    \A p \in Pids : running[p] \notin unborn /\ (seen[p] # Gone => seen[p] \notin unborn)

\* What was read for p is of the process that was listed, if that is there still.
Own(p, field) == running[p] = seen[p] => field = seen[p]

\* The fields of the row under construction that have been read.
RowOwn ==
    /\ step \in {"command", "ram", "time", "second", "open", "read", "push"} =>
         Own(Table!Pid, row["user"])
    /\ step \in {"ram", "time", "second", "open", "read", "push"} =>
         Own(Table!Pid, row["command"])
    /\ step \in {"time", "second", "open", "read", "push"} => Own(Table!Pid, row["ram"])
    /\ step \in {"second", "open", "read", "push"} => Own(Table!Pid, row["time"])
    /\ step \in {"open", "read", "push"} => Own(Table!Pid, row["second"])
    /\ step \in {"read", "push"} => Own(Table!Pid, stat)

RowsOwn ==
    \A i \in DOMAIN processes : LET p == processes[i].pid IN
        running[p] = seen[p] => processes[i] = Table!RowOf(p, seen[p])

\* The rows there are, and the numbers that are left, make up the list.
ListedOnce ==
    /\ processes \in Seq(Table!RowType)
    /\ pids \subseteq Listed
    /\ {processes[i].pid : i \in DOMAIN processes} = Listed \ pids
    /\ \A i, j \in DOMAIN processes : processes[i].pid = processes[j].pid => i = j
    /\ step \in {"sort", "shown"} <=> pids = {}

Sorted ==
    step = "shown" => \A i, j \in DOMAIN processes :
        i < j => Table!ShareOf(processes[i]) >= Table!ShareOf(processes[j])

\* The inductive invariant of the table.
TableInv ==
    /\ Table!TypeOK
    /\ NoReturn
    /\ RowOwn
    /\ RowsOwn
    /\ ListedOnce
    /\ Sorted

LEMMA Smallest ==
    ASSUME NEW T \in SUBSET Nat, T # {}
    PROVE  \E x \in T : \A y \in T : x <= y
<1>1. PICK x \in T : \A y \in T : <<y, x>> \notin OpToRel(<, Nat)
    BY NatLessThanWellFounded, WFMin, Zenon
<1>2. \A y \in T : ~(y < x)
    BY <1>1 DEF OpToRel
<1>3. QED
    BY <1>2

\* The number at hand is one of those that are left.
LEMMA PidLeft ==
    ASSUME Table!TypeOK, pids # {}
    PROVE  Table!Pid \in pids
<1>1. pids \in SUBSET Nat
    BY ProcsAssumption DEF Table!TypeOK
<1>2. \E x \in pids : \A y \in pids : x <= y
    BY <1>1, Smallest
<1>3. QED
    BY <1>2 DEF Table!Pid, Table!Min

LEMMA InitTable ==
    ASSUME Table!Init
    PROVE  TableInv
<1> USE DEF Table!Init
<1>1. processes \in Seq(Table!RowType) /\ DOMAIN processes = {}
    OBVIOUS
<1>2. Table!TypeOK
    BY <1>1 DEF Table!TypeOK, Table!Nothing
<1>3. NoReturn /\ RowOwn /\ RowsOwn /\ Sorted
    BY <1>1, ProcsAssumption DEF NoReturn, RowOwn, RowsOwn, Sorted
<1>4. ListedOnce
    BY <1>1 DEF ListedOnce, Listed
<1>5. QED
    BY <1>2, <1>3, <1>4 DEF TableInv

-----------------------------------------------------------------------------
(* Processes that start and end *)

\* Nobody who was listed is back.
LEMMA KernelKeepsTable ==
    ASSUME TableInv, UNCHANGED Table!tableVars,
           \A p \in Listed : running'[p] = seen[p] => running[p] = seen[p],
           running' \in [Pids -> Procs \cup {Gone}], unborn' \subseteq Procs, NoReturn'
    PROVE  TableInv'
<1> USE DEF Table!tableVars
<1>1. Table!TypeOK' /\ Sorted'
    BY DEF TableInv, Table!TypeOK, Sorted, Table!ShareOf
<1>2. ListedOnce' /\ Listed' = Listed
    BY DEF TableInv, ListedOnce, Listed
<1>3. \A i \in DOMAIN processes : processes[i].pid \in Listed
    BY DEF TableInv, ListedOnce
<1>4. RowsOwn'
    BY <1>3 DEF TableInv, RowsOwn, Table!RowOf
<1>5. RowOwn'
    <2>1. Table!Pid' = Table!Pid
        BY DEF Table!Pid
    <2>2. CASE pids # {}
        <3>1. Table!Pid \in Listed
            BY <2>2, PidLeft DEF TableInv, ListedOnce
        <3>2. QED
            BY <2>1, <3>1 DEF TableInv, RowOwn, Own
    <2>3. CASE pids = {}
        BY <2>3 DEF TableInv, RowOwn, ListedOnce
    <2>4. QED
        BY <2>2, <2>3
<1>6. QED
    BY <1>1, <1>2, <1>4, <1>5 DEF TableInv

LEMMA ForkTable ==
    ASSUME TableInv, NEW p \in Pids, Table!Fork(p)
    PROVE  TableInv'
<1>1. PICK q \in unborn : /\ running' = [running EXCEPT ![p] = q]
                          /\ unborn' = unborn \ {q}
    BY DEF Table!Fork
<1>2. running \in [Pids -> Procs \cup {Gone}] /\ q \in Procs /\ unborn \subseteq Procs
    BY <1>1 DEF TableInv, Table!TypeOK
<1>3. UNCHANGED Table!tableVars
    BY DEF Table!Fork
<1>4. NoReturn'
    BY <1>1, <1>2, <1>3 DEF TableInv, NoReturn, Table!tableVars
<1>5. \A r \in Listed : running'[r] = seen[r] => running[r] = seen[r]
    BY <1>1, <1>2 DEF TableInv, NoReturn, Listed
<1>6. QED
    BY <1>1, <1>2, <1>3, <1>4, <1>5, KernelKeepsTable

LEMMA ExitTable ==
    ASSUME TableInv, NEW p \in Pids, Table!Exit(p)
    PROVE  TableInv'
<1>1. running' = [running EXCEPT ![p] = Gone] /\ unborn' = unborn /\ UNCHANGED Table!tableVars
    BY DEF Table!Exit
<1>2. running \in [Pids -> Procs \cup {Gone}] /\ unborn \subseteq Procs
    BY DEF TableInv, Table!TypeOK
<1>3. NoReturn'
    BY <1>1, <1>2, ProcsAssumption DEF TableInv, NoReturn, Table!tableVars
<1>4. \A r \in Listed : running'[r] = seen[r] => running[r] = seen[r]
    BY <1>1, <1>2 DEF Listed
<1>5. QED
    BY <1>1, <1>2, <1>3, <1>4, KernelKeepsTable

-----------------------------------------------------------------------------
(* The steps of the monitor *)

LEMMA ListPidsTable ==
    ASSUME TableInv, Table!ListPids
    PROVE  TableInv'
<1> USE DEF Table!ListPids
<1>1. processes' \in Seq(Table!RowType) /\ DOMAIN processes' = {}
    OBVIOUS
<1>2. Table!TypeOK'
    BY <1>1 DEF TableInv, Table!TypeOK, Table!Nothing, Table!Directory, Table!kernelVars
<1>3. NoReturn'
    BY DEF TableInv, NoReturn, Table!kernelVars
<1>4. RowOwn' /\ RowsOwn' /\ Sorted'
    BY <1>1 DEF RowOwn, RowsOwn, Sorted
<1>5. ListedOnce'
    BY <1>1 DEF ListedOnce, Listed, Table!Directory
<1>6. QED
    BY <1>2, <1>3, <1>4, <1>5 DEF TableInv

\* A step of the constructor of Process, which leaves the list and the rows alone.
LEMMA ConstructKeepsRows ==
    ASSUME TableInv, UNCHANGED <<seen, pids, processes, Table!kernelVars>>,
           step \notin {"sort", "shown"}, step' \notin {"sort", "shown"},
           Table!TypeOK', RowOwn'
    PROVE  TableInv'
<1> USE DEF Table!kernelVars
<1>1. NoReturn' /\ Sorted'
    BY DEF TableInv, NoReturn, Sorted
<1>2. RowsOwn'
    BY DEF TableInv, RowsOwn, Table!RowOf
<1>3. ListedOnce'
    BY DEF TableInv, ListedOnce, Listed
<1>4. QED
    BY <1>1, <1>2, <1>3 DEF TableInv

LEMMA ReadFileTable ==
    ASSUME TableInv, Table!ReadFile
    PROVE  TableInv'
<1>1. /\ row \in [DOMAIN Table!Nothing -> Procs \cup {Gone}]
      /\ running \in [Pids -> Procs \cup {Gone}]
    BY DEF TableInv, Table!TypeOK
<1>2. step \in {"user", "command", "ram", "time", "second"}
    BY <1>1 DEF Table!ReadFile, Table!Nothing
<1>3. pids # {}
    BY <1>2 DEF TableInv, ListedOnce
<1>4. Table!Pid \in Pids
    BY <1>3, PidLeft DEF TableInv, Table!TypeOK
<1>5. Table!Pid' = Table!Pid
    BY DEF Table!ReadFile, Table!Pid
<1> DEFINE x == running[Table!Pid]
<1>6. x \in Procs \cup {Gone} /\ Own(Table!Pid, x)
    BY <1>1, <1>4 DEF Own
<1>7. row' = [row EXCEPT ![step] = x] /\ step' = Table!NextField(step)
    BY DEF Table!ReadFile
<1>8. RowOwn'
    BY <1>1, <1>2, <1>5, <1>6, <1>7
       DEF TableInv, RowOwn, Own, Table!NextField, Table!Nothing, Table!ReadFile,
           Table!kernelVars
<1>9. Table!TypeOK'
    BY <1>1, <1>2, <1>6, <1>7
       DEF TableInv, Table!TypeOK, Table!NextField, Table!Nothing, Table!ReadFile,
           Table!kernelVars
<1>10. step' \notin {"sort", "shown"}
    BY <1>2, <1>7 DEF Table!NextField
<1>11. QED
    BY <1>2, <1>8, <1>9, <1>10, ConstructKeepsRows DEF Table!ReadFile

LEMMA OpenStatTable ==
    ASSUME TableInv, Table!OpenStat
    PROVE  TableInv'
<1> USE DEF Table!OpenStat, Table!kernelVars
<1>1. pids # {}
    BY DEF TableInv, ListedOnce
<1>2. Table!Pid \in Pids
    BY <1>1, PidLeft DEF TableInv, Table!TypeOK
<1>3. Table!Pid' = Table!Pid
    BY DEF Table!Pid
<1>4. RowOwn'
    BY <1>3 DEF TableInv, RowOwn, Own
<1>5. Table!TypeOK'
    BY <1>2 DEF TableInv, Table!TypeOK
<1>6. QED
    BY <1>4, <1>5, ConstructKeepsRows

LEMMA ReadStatTable ==
    ASSUME TableInv, Table!ReadStat
    PROVE  TableInv'
<1> USE DEF Table!ReadStat, Table!kernelVars
<1>1. Table!Pid' = Table!Pid
    BY DEF Table!Pid
<1>2. RowOwn'
    BY <1>1 DEF TableInv, RowOwn, Own
<1>3. Table!TypeOK'
    BY DEF TableInv, Table!TypeOK
<1>4. QED
    BY <1>2, <1>3, ConstructKeepsRows

LEMMA PushRowTable ==
    ASSUME TableInv, Table!PushRow
    PROVE  TableInv'
<1> DEFINE p == Table!Pid
           q == seen[p]
           r == [pid |-> p, user |-> Table!UserName(row["user"]), command |-> row["command"],
                 ram |-> row["ram"], time |-> row["time"], second |-> row["second"],
                 jiffies |-> stat]
           n == Len(processes)
<1>1. p \in pids /\ pids \subseteq Listed /\ pids \subseteq Pids
    BY PidLeft DEF TableInv, ListedOnce, Table!PushRow, Table!TypeOK
<1>2. processes \in Seq(Table!RowType) /\ n \in Nat /\ DOMAIN processes = 1..n
    BY DEF TableInv, Table!TypeOK
<1>3. r \in Table!RowType
    <2>1. row \in [DOMAIN Table!Nothing -> Procs \cup {Gone}] /\ stat \in Procs \cup {Gone}
        BY DEF TableInv, Table!TypeOK
    <2>2. Table!UserName(row["user"]) \in {FirstUser} \cup Table!Range(Owner)
        BY <2>1, ProcsAssumption DEF Table!UserName, Table!Range, Table!Nothing
    <2>3. QED
        BY <1>1, <2>1, <2>2 DEF Table!RowType, Table!Nothing
<1>4. running[p] = q => r = Table!RowOf(p, q)
    <2>1. q # Gone
        BY <1>1 DEF Listed
    <2>2. QED
        BY <2>1 DEF TableInv, RowOwn, Own, Table!PushRow, Table!RowOf, Table!UserName
<1> HIDE DEF p, q, r
<1>5. /\ processes' = Append(processes, r)
      /\ pids' = pids \ {p} /\ row' = Table!Nothing /\ stat' = Gone
      /\ step' = IF pids' = {} THEN "sort" ELSE "user"
      /\ UNCHANGED <<seen, running, unborn>>
    BY DEF Table!PushRow, Table!kernelVars, r, p
<1>6. /\ processes' \in Seq(Table!RowType) /\ Len(processes') = n + 1
      /\ DOMAIN processes' = 1..(n + 1) /\ processes'[n + 1] = r
      /\ \A i \in 1..n : processes'[i] = processes[i]
    BY <1>2, <1>3, <1>5
<1>7. r.pid = p
    BY DEF r
<1>8. Table!TypeOK'
    BY <1>1, <1>5, <1>6 DEF TableInv, Table!TypeOK, Table!Nothing
<1>9. NoReturn'
    BY <1>5 DEF TableInv, NoReturn
<1>10. RowOwn' /\ Sorted'
    BY <1>5 DEF RowOwn, Sorted
<1>11. RowsOwn'
    <2>1. ASSUME NEW i \in 1..(n + 1), running[processes'[i].pid] = seen[processes'[i].pid]
          PROVE  processes'[i] = Table!RowOf(processes'[i].pid, seen[processes'[i].pid])
        <3>1. CASE i \in 1..n
            BY <2>1, <3>1, <1>2, <1>6 DEF TableInv, RowsOwn
        <3>2. CASE i = n + 1
            BY <2>1, <3>2, <1>4, <1>6, <1>7 DEF q
        <3>3. QED
            BY <1>2, <3>1, <3>2
    <2>2. QED
        BY <2>1, <1>5, <1>6 DEF RowsOwn, Table!RowOf
<1>12. ListedOnce'
    <2>1. Listed' = Listed
        BY <1>5 DEF Listed
    <2>2. \A i \in 1..n : processes[i].pid \in Listed \ pids
        BY <1>2 DEF TableInv, ListedOnce
    <2>3. {processes'[i].pid : i \in 1..(n + 1)} = {processes[i].pid : i \in 1..n} \cup {p}
        BY <1>2, <1>6, <1>7
    <2>4. {processes'[i].pid : i \in 1..(n + 1)} = Listed \ pids'
        BY <2>3, <1>1, <1>2, <1>5 DEF TableInv, ListedOnce
    <2>5. \A i, j \in 1..(n + 1) : processes'[i].pid = processes'[j].pid => i = j
        <3>1. \A i, j \in 1..n : processes[i].pid = processes[j].pid => i = j
            BY <1>2 DEF TableInv, ListedOnce
        <3>2. \A i \in 1..n : processes'[i].pid # p
            BY <1>1, <1>6, <2>2
        <3>3. \A i \in 1..(n + 1) : i \in 1..n \/ i = n + 1
            BY <1>2
        <3>4. QED
            BY <3>1, <3>2, <3>3, <1>6, <1>7
    <2>6. pids' \subseteq Listed /\ (step' \in {"sort", "shown"} <=> pids' = {})
        BY <1>1, <1>5
    <2>7. QED
        BY <2>1, <2>4, <2>5, <2>6, <1>6 DEF ListedOnce
<1>13. QED
    BY <1>8, <1>9, <1>10, <1>11, <1>12 DEF TableInv

LEMMA SortTable ==
    ASSUME TableInv, Table!Sort
    PROVE  TableInv'
<1> DEFINE D == DOMAIN processes
<1>1. PICK f \in Table!Bijection(D, D) :
        /\ processes' = [i \in D |-> processes[f[i]]]
        /\ \A i, j \in D : i < j =>
             Table!ShareOf(processes'[i]) >= Table!ShareOf(processes'[j])
    BY DEF Table!Sort
<1>2. /\ f \in [D -> D] /\ \A i, j \in D : f[i] = f[j] => i = j
      /\ \A k \in D : \E i \in D : f[i] = k
    BY DEF Table!Bijection, Table!Injection, Table!Surjection, Table!IsInjective
<1>3. processes \in Seq(Table!RowType) /\ D = 1..Len(processes) /\ Len(processes) \in Nat
    BY DEF TableInv, Table!TypeOK
<1>4. \A i \in D : processes[i] \in Table!RowType
    BY <1>3
<1>5. /\ processes' \in Seq(Table!RowType) /\ DOMAIN processes' = D
      /\ \A i \in D : processes'[i] = processes[f[i]]
    BY <1>1, <1>2, <1>3, <1>4
<1>6. step' = "shown" /\ UNCHANGED <<seen, pids, row, stat, running, unborn>>
    BY DEF Table!Sort, Table!kernelVars
<1>7. Table!TypeOK' /\ NoReturn' /\ RowOwn'
    BY <1>5, <1>6 DEF TableInv, Table!TypeOK, NoReturn, RowOwn
<1>8. RowsOwn'
    BY <1>2, <1>5, <1>6 DEF TableInv, RowsOwn, Table!RowOf
<1>9. Sorted'
    BY <1>1, <1>5 DEF Sorted, Table!ShareOf
<1>10. ListedOnce'
    <2>1. {processes'[i].pid : i \in D} = {processes[i].pid : i \in D}
        BY <1>2, <1>5
    <2>2. ASSUME NEW i \in D, NEW j \in D, processes'[i].pid = processes'[j].pid
          PROVE  i = j
        <3>1. f[i] \in D /\ f[j] \in D /\ processes[f[i]].pid = processes[f[j]].pid
            BY <2>2, <1>2, <1>5
        <3>2. f[i] = f[j]
            BY <3>1 DEF TableInv, ListedOnce
        <3>3. QED
            BY <3>2, <1>2
    <2>3. pids = {}
        BY DEF TableInv, ListedOnce, Table!Sort
    <2>4. QED
        BY <2>1, <2>2, <2>3, <1>5, <1>6 DEF TableInv, ListedOnce, Listed
<1>11. QED
    BY <1>7, <1>8, <1>9, <1>10 DEF TableInv

-----------------------------------------------------------------------------
(* The theorems about the whole monitor *)

\* The loop of the display leaves the table to System::Processes, and what the kernel
\* does meanwhile is what ProcessTable lets it do (ncurses_display.cpp:89-113).
THEOREM MonitorTables == MonitorSpec => Table!Spec
<1>1. MonitorInit => Table!Init
    BY DEF MonitorInit
<1>2. [MonitorNext]_monitorVars => [Table!Next]_Table!vars
    BY DEF monitorVars, tableVars, MonitorNext, Display, DisplaySystem, DisplayProcesses, Kernel,
           Table!Next, Table!vars, Table!kernelVars, Table!tableVars
<1>3. QED
    BY <1>1, <1>2, PTL DEF MonitorSpec, Table!Spec

\* The invariant of the table holds whatever starts and ends meanwhile.
THEOREM TableInvariance == Table!Spec => []TableInv
<1>1. TableInv /\ [Table!Next]_Table!vars => TableInv'
    <2> SUFFICES ASSUME TableInv, [Table!Next]_Table!vars PROVE TableInv'
        OBVIOUS
    <2>1. CASE Table!Kernel
        BY <2>1, ForkTable, ExitTable DEF Table!Kernel
    <2>2. CASE Table!ListPids
        BY <2>2, ListPidsTable
    <2>3. CASE Table!Construct
        BY <2>3, ReadFileTable, OpenStatTable, ReadStatTable, PushRowTable DEF Table!Construct
    <2>4. CASE Table!Sort
        BY <2>4, SortTable
    <2>5. CASE UNCHANGED Table!vars
        <3>1. UNCHANGED Table!tableVars /\ UNCHANGED <<running, unborn>>
            BY <2>5 DEF Table!vars, Table!kernelVars
        <3>2. running' \in [Pids -> Procs \cup {Gone}] /\ unborn' \subseteq Procs /\ NoReturn'
            BY <3>1 DEF TableInv, Table!TypeOK, NoReturn, Table!tableVars
        <3>3. QED
            BY <3>1, <3>2, KernelKeepsTable
    <2>6. QED
        BY <2>1, <2>2, <2>3, <2>4, <2>5 DEF Table!Next
<1>2. QED
    BY InitTable, <1>1, PTL DEF Table!Spec

\* Every variable of the monitor keeps its type.
THEOREM MonitorTypes == MonitorSpec => []MonitorTypeOK
<1> DEFINE W == window \in {"system", "processes"}
<1>1. MonitorInit => W
    BY DEF MonitorInit
<1>2. W /\ [MonitorNext]_monitorVars => W'
    BY DEF monitorVars, MonitorNext, Display, DisplaySystem, DisplayProcesses, Kernel
<1>3. TypeOK /\ TableInv /\ W => MonitorTypeOK
    BY DEF MonitorTypeOK, TableInv
<1>4. QED
    BY <1>1, <1>2, <1>3, MonitorSamples, TypeCorrect, MonitorTables, TableInvariance, PTL
       DEF MonitorSpec

\* What the lower window shows is true of all processes that are still there, whatever
\* ended and whatever took over its number while the rows were built (system.cpp:31-41,
\* process.cpp:41-51, ncurses_display.cpp:74).
THEOREM TableRight == MonitorSpec => []TableIsTrue
<1>1. TableInv => TableIsTrue
    <2> SUFFICES ASSUME TableInv, step = "shown" PROVE Table!TableIsTrue
        BY DEF TableIsTrue, Table!TableIsTrue
    <2>1. pids = {} /\ {processes[i].pid : i \in DOMAIN processes} = Listed
        BY DEF TableInv, ListedOnce
    <2>2. DOMAIN processes = 1..Len(processes) /\ Len(processes) \in Nat
        BY DEF TableInv, Table!TypeOK
    <2>3. \A i, j \in DOMAIN processes : i <= Rows /\ Rows < j => i < j
        BY <2>2, ProcsAssumption
    <2>4. \A i, j \in DOMAIN processes : i <= Rows /\ Rows < j =>
            Table!ShareOf(processes[i]) >= Table!ShareOf(processes[j])
        BY <2>3 DEF TableInv, Sorted
    <2>5. \A i \in DOMAIN processes : running[processes[i].pid] = seen[processes[i].pid] =>
            processes[i] = Table!RowOf(processes[i].pid, seen[processes[i].pid])
        BY DEF TableInv, RowsOwn
    <2>6. QED
        BY <2>1, <2>4, <2>5 DEF TableInv, ListedOnce, Listed, Table!TableIsTrue
<1>2. QED
    BY <1>1, MonitorTables, TableInvariance, PTL
=============================================================================
