\* Two videos, two exports; exiftool may outlast its time.
SPECIFICATION FairSpec
CONSTANTS
    Videos = {v1, v2}
    Main = main
    Writer = writer
    GoodQualityAllowed = TRUE
    ExiftoolMayHang = TRUE
    MaxExports = 2
    MaxRequests = 2
INVARIANT NoRace
PROPERTIES FollowsRounds ThumbnailsSettle ExportEnds
CHECK_DEADLOCK FALSE
