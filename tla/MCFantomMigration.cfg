SPECIFICATION Spec
CONSTANTS
    Programs = {"ftm"}
    Complete = {}
    Scripts <- MCScripts
    Config <- MCConfig
    MaxRuns = 1
    MaxDisturbances = 0
CHECK_DEADLOCK FALSE
INVARIANT MigrationsFinish
