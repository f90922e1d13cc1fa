\* A file removed, added again, and removed with another one.
SPECIFICATION Spec
CONSTANTS
    file1 = file1
    file2 = file2
    file3 = file3
    folder1 = folder1
    folder2 = folder2
    Files <- TwoFolders
    DirOf <- TwoFoldersOf
    MaxArtworks = 4
    MaxDirs = 3
    MaxLost = 0
INVARIANT RemoveFindsDirectory
CHECK_DEADLOCK FALSE
