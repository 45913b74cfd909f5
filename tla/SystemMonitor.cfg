SPECIFICATION MonitorSpec
CHECK_DEADLOCK FALSE
CONSTANTS
    init = init
    job = job
    Gone = Gone
    ReadTicks = 1
    SleepTicks = 2
    MaxTicks = 6
    Pids <- MCPids
    Procs <- MCProcs
    Owner <- MCOwner
    FirstUser = "root"
    Share <- MCShare
    Rows = 1
INVARIANTS
    MonitorTypeOK
    ShareInRange
    ErrorsDoNotAccumulate
    TableIsTrue
