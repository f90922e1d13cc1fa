------------------------ MODULE MCArtworksCollection ------------------------
(* Two files of one folder and one file of another. *)
EXTENDS ArtworksCollection

CONSTANTS file1, file2, file3, folder1, folder2

TwoFolders == {file1, file2, file3}
TwoFoldersOf == [f \in TwoFolders |-> IF f = file3 THEN folder2 ELSE folder1]
=============================================================================
