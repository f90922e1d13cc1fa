\* A video, imported in two sessions, and a user who may type without end.
SPECIFICATION FairSpec
CONSTANTS
    Artworks = {video}
    Videos = {video}
    None = None
    Merged = Merged
    EditInterval = 1
    MaxEditRestarts = 2
    SyncInterval = 0
    MaxSyncRestarts = 1
    SyncStep = 2
    Edited = {video}
    MaxVersion = 2
    MaxQueue = 0
    MaxTroubles = 1
INVARIANT NothingIsStranded
PROPERTIES  EditsReachTable
CHECK_DEADLOCK FALSE
