CONSTANTS
    Users = {u1, u2, u3}
    Faulty = {u1, main}
    Parent = parent
    Main = main
    Null = null
SPECIFICATION FairSpec
INVARIANTS
    TypeOK
    SavedContextsIntact
    RunsCurrentProcess
    MainIsDone
    WaitsOnlyForPreempted
PROPERTIES
    EveryProcessRuns
    FaultsAreReported
\* A kernel wedged or halted has no step left.
CHECK_DEADLOCK FALSE
