\* Two images, a cache of one entry, an index saved every second thumbnail.
SPECIFICATION FairSpec
CONSTANTS
    Keys = {k1, k2}
    None = None
    MaxCacheSize = 1
    BackupStep = 2
    MaxVersion = 2
    MaxServed = 2
    MaxRequests = 2
    MaxFaults = 1
    MaxRestarts = 1
INVARIANT OutdatedIsNoticed
PROPERTIES ImplementsStore RequestsAreServed CompactionShrinks
CHECK_DEADLOCK FALSE
