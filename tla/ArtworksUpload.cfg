\* Two hosts that take turns, two artworks, two uploads.
SPECIFICATION FairSpec
CONSTANTS
    Hosts = {h1, h2}
    Files = {f1, f2}
    MaxParallel = 1
    MaxUploads = 2
PROPERTIES FinishTellsAll UploadEnds
CHECK_DEADLOCK FALSE
