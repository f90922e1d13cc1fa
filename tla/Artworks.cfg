\* Two folders, three artworks; a file may be lost.
SPECIFICATION Spec
CONSTANTS
    file1 = file1
    file2 = file2
    file3 = file3
    folder1 = folder1
    folder2 = folder2
    Files <- TwoFolders
    DirOf <- TwoFoldersOf
    MaxArtworks = 3
    MaxDirs = 3
    MaxLost = 1
INVARIANTS TypeOK DirectoriesCountFiles SelectionIsNeverEmpty HistoryIsInSync
PROPERTIES UndoTouchesItsOwn UndoRestoresRemoved
CHECK_DEADLOCK FALSE
