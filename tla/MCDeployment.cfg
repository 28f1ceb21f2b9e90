SPECIFICATION FairSpec
CONSTANTS
    Programs <- MCPrograms
    Complete <- MCComplete
    Scripts <- MCScripts
    Config <- MCConfig
    MaxRuns = 3
    MaxDisturbances = 1
CHECK_DEADLOCK FALSE
INVARIANTS
    TypeOK
    GettersFindTheirKind
    NoLeftovers
    SlotsSet
    PowerReturned
    ReservesWired
    CutsLeaveYield
    DistributorsKnowTheirAssets
    CollateralAccepted
    TasksFindTheSystem
PROPERTY MigrationCompletes
