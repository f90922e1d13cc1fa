\* The refinement and the liveness of the worker; initWorker may fail.
SPECIFICATION FairSpec
CONSTANTS
    Clients = {c1, c2}
    MaxBatches = 1
    MaxBatchSize = 2
    MaxSeparators = 1
    InitMayFail = TRUE
PROPERTIES ImplementsJobQueue StopEnds JobsSettle
CHECK_DEADLOCK FALSE
