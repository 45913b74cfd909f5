----------------------------- MODULE Processor -----------------------------
(***************************************************************************)
(* Processor::Utilization (processor.cpp) and the functions of LinuxParser *)
(* it calls: the share of the jiffies between two samples that were not    *)
(* idle.  A sample opens /proc/stat four times while the kernel counts on: *)
(*                                                                         *)
(*   Jiffies() = ActiveJiffies() + IdleJiffies()                           *)
(*             = (sum - minus) + plus,    and then    IdleJiffies() = idle *)
(*                                                                         *)
(* where sum is the sum of all counters and minus, plus and idle are three *)
(* readings of the idle ones.  C++ does not say which operand of the + at  *)
(* linux_parser.cpp:112 is evaluated first.                                *)
(*                                                                         *)
(* The kernel's counters are taken to be what they are for: they never go  *)
(* back.  The ten of them are two here, those that IdleJiffies adds up and *)
(* the others.                                                             *)
(***************************************************************************)
EXTENDS Integers

CONSTANTS
    ReadTicks,   \* at most so many jiffies pass during a sample ...
    SleepTicks,  \* ... and at least so many between two samples
    MaxTicks     \* bound of the model: how far the counters go

ASSUME TicksAssumption ==
    /\ ReadTicks \in Nat /\ SleepTicks \in Nat /\ MaxTicks \in Nat
    /\ ReadTicks < SleepTicks

VARIABLES
    active, idle,         \* the counters in /proc/stat
    elapsed,              \* jiffies since the sample, or the time between two, began
    activeFirst,          \* the order of evaluation the compiler has chosen
    pc,                   \* what is read next; "rest" between two samples
    reg,                  \* what has been read
    begun,                \* the counters at the beginning of the last sample
    prevtotal, previdle,  \* the fields of Processor
    totald, idled         \* the two differences the last sample was made of

kernelVars == <<active, idle>>
sampleVars == <<activeFirst, pc, reg, begun>>
procVars == <<prevtotal, previdle, totald, idled>>
vars == <<kernelVars, elapsed, sampleVars, procVars>>

Regs == {"sum", "minus", "plus", "idle"}

NoReading == [r \in Regs |-> 0]

\* The monitor is started on a machine that has been up for a while.
Init ==
    /\ active \in 0..SleepTicks /\ idle \in 0..SleepTicks
    /\ active + idle >= SleepTicks
    /\ elapsed = SleepTicks
    /\ activeFirst \in BOOLEAN
    /\ pc = "rest"
    /\ reg = NoReading
    /\ begun = [active |-> 0, idle |-> 0]
    /\ prevtotal = 0 /\ previdle = 0
    /\ totald = 0 /\ idled = 0

\* A jiffy passes.  A sample is over before many of them have; a rest may be of any
\* length, of which only whether it was long enough is remembered.
Tick ==
    /\ active + idle < MaxTicks
    /\ pc # "rest" => elapsed < ReadTicks
    /\ elapsed' = IF elapsed < SleepTicks THEN elapsed + 1 ELSE elapsed
    /\ \/ active' = active + 1 /\ UNCHANGED idle
       \/ idle' = idle + 1 /\ UNCHANGED active
    /\ UNCHANGED <<sampleVars, procVars>>

FirstRead == IF activeFirst THEN "sum" ELSE "plus"

NextRead(r) ==
    CASE r = "sum" -> "minus"
      [] r = "minus" /\ activeFirst -> "plus"
      [] r = "plus" /\ ~activeFirst -> "sum"
      [] r = "idle" -> "compute"
      [] OTHER -> "idle"

\* A call of Utilization.
Call ==
    /\ pc = "rest"
    /\ elapsed = SleepTicks
    /\ elapsed' = 0
    /\ begun' = [active |-> active, idle |-> idle]
    /\ pc' = FirstRead
    /\ UNCHANGED <<kernelVars, activeFirst, reg, procVars>>

\* One reading of /proc/stat, as a whole the state of one moment.
Read ==
    /\ pc \in Regs
    /\ reg' = [reg EXCEPT ![pc] = IF pc = "sum" THEN active + idle ELSE idle]
    /\ pc' = NextRead(pc)
    /\ UNCHANGED <<kernelVars, elapsed, activeFirst, begun, procVars>>

Jiffies == reg["sum"] - reg["minus"] + reg["plus"]

\* The differences are taken after the fields were set.
UtilizationTooLate ==
    /\ pc = "compute"
    /\ prevtotal' = Jiffies
    /\ previdle' = reg["idle"]
    /\ totald' = Jiffies - prevtotal'
    /\ idled' = reg["idle"] - previdle'
    /\ reg' = NoReading
    /\ pc' = "rest" /\ elapsed' = 0
    /\ UNCHANGED <<kernelVars, activeFirst, begun>>

\* A total that leaves out the idle jiffies.
UtilizationOfActive ==
    /\ pc = "compute"
    /\ totald' = reg["sum"] - reg["minus"] - prevtotal
    /\ idled' = reg["idle"] - previdle
    /\ prevtotal' = reg["sum"] - reg["minus"]
    /\ previdle' = reg["idle"]
    /\ reg' = NoReading
    /\ pc' = "rest" /\ elapsed' = 0
    /\ UNCHANGED <<kernelVars, activeFirst, begun>>

\* The rest of Utilization: what it returns is (totald - idled) / totald.
Utilization ==
    /\ pc = "compute"
    /\ totald' = Jiffies - prevtotal
    /\ idled' = reg["idle"] - previdle
    /\ prevtotal' = Jiffies
    /\ previdle' = reg["idle"]
    /\ reg' = NoReading
    /\ pc' = "rest" /\ elapsed' = 0
    /\ UNCHANGED <<kernelVars, activeFirst, begun>>

Sample == Read \/ Utilization

Next == Tick \/ Call \/ Sample

Spec == Init /\ [][Next]_vars

-----------------------------------------------------------------------------
TypeOK ==
    /\ active \in Nat /\ idle \in Nat
    /\ elapsed \in 0..SleepTicks
    /\ activeFirst \in BOOLEAN
    /\ pc \in Regs \cup {"compute", "rest"}
    /\ reg \in [Regs -> Int]
    /\ begun \in [active : Nat, idle : Nat]
    /\ prevtotal \in Int /\ previdle \in Int
    /\ totald \in Int /\ idled \in Int

\* A sample has been taken, and the next one has not begun.
Sampled == pc = "rest" /\ prevtotal # 0

\* The idle jiffies that passed while the last sample was taken.
Drift == previdle - begun.idle

\* The division is defined and gives at most 100%: whatever the order of evaluation
\* and whatever passes between the four readings, the total grows from sample to
\* sample and the idle jiffies do not shrink.  The share is not below 0% either if
\* no idle jiffy passed during the sample, and below it by no more than twice those
\* that did (processor.cpp:12-21, linux_parser.cpp:111-151).
ShareInRange ==
    Sampled => /\ totald > 0
               /\ idled >= 0
               /\ totald - idled >= -2 * Drift

\* What a sample misses the next one makes up for: the busy jiffies shown since the
\* start add up to those that have passed, up to the drift of the last sample alone
\* (processor.cpp:15-19).
ErrorsDoNotAccumulate ==
    Sampled => /\ prevtotal - previdle <= active
               /\ prevtotal - previdle >= begun.active - 2 * Drift
=============================================================================
