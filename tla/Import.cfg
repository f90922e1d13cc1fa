\* One artwork imported twice; every pair of file and backup values.
SPECIFICATION FairSpec
CONSTANTS
    Artworks = {a1}
    Main = main
    User = user
    FileValues <- MCFileValues
    BackupValues <- MCBackupValues
    MaxImports = 2
    MayEscape = TRUE
INVARIANTS TypeOK IgnoredStaysOut SourcesCommute
PROPERTIES EditsSurvive ReadsAreImported ImportEnds FollowsRounds
CHECK_DEADLOCK FALSE
