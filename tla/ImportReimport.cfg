\* An artwork reimported while its backup is still being read.
SPECIFICATION Spec
CONSTANTS
    Artworks = {a1}
    Main = main
    User = user
    FileValues <- MCFileValues
    BackupValues <- MCBackupValues
    MaxImports = 2
    MayEscape = FALSE
PROPERTY ReimportSeesNoBackup
CHECK_DEADLOCK FALSE
