\* Two threads against a worker whose initWorker cannot fail.
SPECIFICATION Spec
CONSTANTS
    Clients = {c1, c2}
    MaxBatches = 2
    MaxBatchSize = 1
    MaxSeparators = 1
    InitMayFail = FALSE
SYMMETRY ClientSymmetry
INVARIANTS WithdrawnStaysOut AtMostOnce DrainIsAnnounced ResultsAreReported
PROPERTIES WaitIdleWaits
