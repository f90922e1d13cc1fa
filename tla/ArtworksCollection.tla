------------------------- MODULE ArtworksCollection -------------------------
(***************************************************************************)
(* The open artworks (Models::ArtworksListModel), the directories they     *)
(* come from (Models::ArtworksRepository) and the undo stack of depth one  *)
(* (UndoRedo::UndoRedoManager).                                            *)
(*                                                                         *)
(* Removing an artwork flags it: it stays in the list, at its index, until *)
(* the removal is dismissed.  A command recorded over another replaces it  *)
(* without dismissing it, so flagged artworks outlive their undo.  All of  *)
(* this runs on the main thread; what is hard is the sequences of commands *)
(* and that the list, the counters and the history each keep a view.       *)
(***************************************************************************)
EXTENDS Integers, FiniteSets, SequencesExt

CONSTANTS
    Files,      \* paths a user may add
    DirOf,      \* the directory of a path
    MaxArtworks,\* bound: artworks created in a behaviour
    MaxDirs,    \* bound: directory entries created in a behaviour
    MaxLost     \* bound: files deleted from the disk

ASSUME FilesAssumption == /\ IsFiniteSet(Files)
                          /\ DOMAIN DirOf = Files
                          /\ MaxArtworks \in Nat
                          /\ MaxDirs \in Nat
                          /\ MaxLost \in Nat

VARIABLES
    disk,       \* the paths that exist
    lib,        \* the list and the repository, see Empty
    history,    \* m_HistoryStack: at most one item
    lost,       \* m_UnavailableFiles
    lastLost    \* m_LastUnavailableFilesCount

vars == <<disk, lib, history, lost, lastLost>>

Paths == {DirOf[f] : f \in Files}

\* list: m_ArtworkList; dirs: m_DirectoriesList; filesSet: m_FilesSet;
\* watched: m_FilesWatcher; ids and dirIDs count what was created;
\* broken: the Q_ASSERTs that failed, which a release build ignores.
Empty == [list |-> <<>>, dirs |-> <<>>, filesSet |-> {}, watched |-> {},
          ids |-> 0, dirIDs |-> 0, broken |-> {}]

\* A loop of the code is the function from the number of its rounds to what they
\* have made of its start.

Live(l) == {i \in DOMAIN l.list : ~l.list[i].removed}
IDs(l, indices) == {l.list[i].id : i \in indices}

-----------------------------------------------------------------------------
(* Directory selection *)

SelectedDirs(ds) == {i \in DOMAIN ds : ds[i].selected}
AllAreSelected(ds) == SelectedDirs(ds) = DOMAIN ds
SelectAll(ds, value) == [i \in DOMAIN ds |-> [ds[i] EXCEPT !.selected = value]]

\* A mutant of ChangeSelected: no special cases but the single directory.
ChangeSelectedToNone(ds, row, value) ==
    IF Len(ds) = 1 THEN ds ELSE [ds EXCEPT ![row].selected = value]

\* Never nothing: unselecting the only selected directory selects all, and
\* choosing one of a full selection selects that one alone.
ChangeSelected(ds, row, value) ==
    LET wasAll == AllAreSelected(ds)
        wasOnly == SelectedDirs(ds) = {row}
    IN  IF ds[row].selected = value THEN ds
        ELSE IF Len(ds) = 1 \/ (~wasAll /\ wasOnly) THEN SelectAll(ds, TRUE)
        ELSE IF wasAll THEN [SelectAll(ds, FALSE) EXCEPT ![row].selected = TRUE]
        ELSE [ds EXCEPT ![row].selected = value]

\* Unselects the directories a removal has emptied, one after the other.
UnselectEmpty(r, i) ==
    IF r.dirs[i].count > 0 THEN r
    ELSE [dirs |-> ChangeSelected(r.dirs, i, FALSE),
          ids |-> r.ids \cup IF r.dirs[i].selected THEN {r.dirs[i].id} ELSE {}]

UnselectingEmpty(ds) ==
    LET r[i \in 0..Len(ds)] == IF i = 0 THEN [dirs |-> ds, ids |-> {}]
                               ELSE UnselectEmpty(r[i - 1], i)
    IN  r

ConsolidateSelectionForEmpty(ds) ==
    UnselectingEmpty(ds)[IF AllAreSelected(ds) THEN 0 ELSE Len(ds)]

RestoreSelection(ds, ids) ==
    [i \in DOMAIN ds |-> [ds[i] EXCEPT !.selected = ds[i].selected \/ ds[i].id \in ids]]

-----------------------------------------------------------------------------
(* The repository *)

FindDirectory(ds, path) == {i \in DOMAIN ds : ds[i].path = path}
FindDirectoryByID(ds, id) == {i \in DOMAIN ds : ds[i].id = id}

\* The directory of f, created selected when it is not there yet.
WithDirectory(l, f) ==
    IF FindDirectory(l.dirs, DirOf[f]) # {} THEN l
    ELSE [l EXCEPT !.dirs = Append(@, [id |-> l.dirIDs, path |-> DirOf[f], count |-> 0,
                                       selected |-> TRUE, removed |-> FALSE, full |-> FALSE]),
                   !.dirIDs = @ + 1]

\* A mutant of Unaccounted: a file may be accounted twice.
Existing(l) == disk
Unaccounted(l) == disk \ l.filesSet

AccountFile(l, f) ==
    IF f \in Unaccounted(l)
    THEN LET m == WithDirectory(l, f)
             i == CHOOSE j \in FindDirectory(m.dirs, DirOf[f]) : TRUE
         IN  [lib |-> [m EXCEPT !.dirs[i].count = @ + 1, !.dirs[i].removed = FALSE,
                                !.filesSet = @ \cup {f}],
              dir |-> m.dirs[i].id,
              flags |-> {"modified"} \cup IF m.dirIDs = l.dirIDs THEN {} ELSE {"created"}]
    ELSE [lib |-> l, dir |-> -1, flags |-> {}]

\* f leaves the directory at row i, which is removed with its last file.
Uncounted(l, i, f) ==
    LET row == [l.dirs[i] EXCEPT !.count = @ - 1, !.removed = l.dirs[i].count = 1 \/ @]
    IN  [l EXCEPT !.dirs[i] = row, !.filesSet = @ \ {f}, !.watched = @ \ {f}]

\* A mutant of RemoveFile: counts down a file that is not accounted.
RemoveFileAlways(r, artwork) ==
    LET l == r.lib
        found == FindDirectoryByID(l.dirs, artwork.dir)
    IN  IF found = {} THEN r
        ELSE LET i == CHOOSE j \in found : TRUE
             IN  [lib |-> Uncounted(l, i, artwork.file),
                  full |-> r.full \cup IF l.dirs[i].count = 1 /\ l.dirs[i].full THEN {artwork.dir} ELSE {}]

\* r.full gathers the full directories a removal empties.
RemoveFile(r, artwork) ==
    LET l == r.lib
        found == FindDirectoryByID(l.dirs, artwork.dir)
    IN  IF artwork.file \notin l.filesSet THEN r
        ELSE IF found = {} THEN [r EXCEPT !.lib.broken = @ \cup {"removeFile"}]
        ELSE LET i == CHOOSE j \in found : TRUE
             IN  [lib |-> Uncounted(l, i, artwork.file),
                  full |-> r.full \cup IF l.dirs[i].count = 1 /\ l.dirs[i].full THEN {artwork.dir} ELSE {}]

\* Every flagged artwork of the list.
RemovingFlagged(l) ==
    LET r[i \in 0..Len(l.list)] ==
            IF i = 0 THEN [lib |-> l, full |-> {}]
            ELSE IF l.list[i].removed THEN RemoveFile(r[i - 1], l.list[i])
            ELSE r[i - 1]
    IN  r

\* cleanupEmptyDirectories: from the last row to the first.
RemoveRow(ds, row) ==
    RemoveAt(IF AllAreSelected(ds) THEN ds ELSE ChangeSelected(ds, row, FALSE), row)

Cleaning(ds) ==
    LET r[n \in 0..Len(ds)] ==
            IF n = 0 THEN ds
            ELSE IF ds[Len(ds) + 1 - n].count > 0 THEN r[n - 1]
            ELSE RemoveRow(r[n - 1], Len(ds) + 1 - n)
    IN  r

CleanupEmptyDirectories(l) == [l EXCEPT !.dirs = Cleaning(@)[Len(@)]]

-----------------------------------------------------------------------------
(* The list *)

\* addFiles: files already accounted are skipped, the others appended and
\* watched; a folder added as such is marked full when it brings a file.
AddFile(l, f) ==
    LET a == AccountFile(l, f)
    IN  IF a.flags = {} THEN l
        ELSE [a.lib EXCEPT
                !.list = Append(@, [id |-> a.lib.ids, file |-> f, dir |-> a.dir,
                                    removed |-> FALSE, unavailable |-> FALSE]),
                !.ids = @ + 1, !.watched = @ \cup {f}]

Adding(l, files) ==
    LET m[n \in 0..Cardinality(files)] ==
            IF n = 0 THEN l ELSE AddFile(m[n - 1], SetToSeq(files)[n])
    IN  m

AddedFiles(l, files, full) ==
    LET added == Adding(l, files)[Cardinality(files)]
        new == {added.list[i].dir : i \in (DOMAIN added.list) \ (DOMAIN l.list)}
    IN  [added EXCEPT !.dirs = [i \in DOMAIN added.dirs |->
            [added.dirs[i] EXCEPT !.full = @ \/ (full /\ added.dirs[i].id \in new)]]]

\* removeFiles: flags the given artworks, then takes every flagged artwork of
\* the list, those of earlier removals too, out of the repository.
Flagged(l, indices) ==
    [l EXCEPT !.list = [i \in DOMAIN l.list |->
        [l.list[i] EXCEPT !.removed = l.list[i].removed \/ i \in indices]]]

NothingRemoved(l) == [lib |-> l, unselectAll |-> FALSE, selected |-> {}, full |-> {}]

RemovedFiles(l, indices) ==
    IF indices = {} THEN NothingRemoved(l)
    ELSE LET flagged == Flagged(l, indices)
             r == RemovingFlagged(flagged)[Len(flagged.list)]
             before == r.lib.dirs
             c == ConsolidateSelectionForEmpty(before)
         IN  [lib |-> [r.lib EXCEPT !.dirs = c.dirs],
              full |-> r.full,
              selected |-> c.ids,
              unselectAll |-> Cardinality(SelectedDirs(c.dirs)) + Cardinality(c.ids)
                                # Cardinality(SelectedDirs(before))]

InDirectory(l, path) == {i \in Live(l) : DirOf[l.list[i].file] = path}

\* Mutants of Restorable: the last index is left out; every flagged artwork is
\* taken, as removeFiles does.
AllButLast(l, indices) == {i \in indices : \E j \in indices : j > i}
EveryFlagged(l, indices) == {i \in DOMAIN l.list : l.list[i].removed}

Restorable(l, indices) == {i \in indices : l.list[i].removed}

\* restoreRemoved: accounts each flagged artwork again.  The artwork keeps
\* the directory it was created with.
RestoreArtwork(l, i) ==
    LET a == AccountFile(l, l.list[i].file)
    IN  [a.lib EXCEPT !.broken = @ \cup IF a.flags = {"modified"} THEN {} ELSE {"restoreRemoved"},
                      !.list[i].removed = (a.flags = {})]

Restoring(l, indices) ==
    LET m[i \in 0..Len(l.list)] ==
            IF i = 0 THEN l
            ELSE IF i \in Restorable(l, indices) THEN RestoreArtwork(m[i - 1], i)
            ELSE m[i - 1]
    IN  m

RestoreRemoved(l, indices) == Restoring(l, indices)[Len(l.list)]

Keeping(list, indices) ==
    LET s[i \in 0..Len(list)] ==
            IF i = 0 THEN <<>>
            ELSE IF i \in indices THEN s[i - 1]
            ELSE Append(s[i - 1], list[i])
    IN  s

DeleteItems(l, indices) == [l EXCEPT !.list = Keeping(@, indices)[Len(@)]]

RemovedItems(l) == (DOMAIN l.list) \ Live(l)
Unavailable(l) == {i \in DOMAIN l.list : l.list[i].unavailable}

\* What the grid shows.
Visible(l) == {i \in Live(l) : /\ ~l.list[i].unavailable
                               /\ \E d \in FindDirectoryByID(l.dirs, l.list[i].dir) : l.dirs[d].selected}

-----------------------------------------------------------------------------
(* Commands.  An item keeps indices into the list; `ids`, the artworks they *)
(* meant, is not in the code and is read by properties only; `refill` is the *)
(* full directory whose removal also brings new files back.                 *)

Item(kind, indices, l) ==
    [kind |-> kind, indices |-> indices, ids |-> IDs(l, indices \cap Live(l)),
     unselectAll |-> FALSE, selected |-> {}, refill |-> {}]

Record(item) == history' = <<item>>

\* The undo of each command.
Undone(l, item) ==
    CASE item.kind = "add" -> RemovedFiles(l, item.indices).lib
      [] item.kind = "edit" -> l
      [] item.kind \in {"remove", "removeDirectory"} ->
            LET ds == IF item.unselectAll /\ AllAreSelected(l.dirs) THEN SelectAll(l.dirs, FALSE)
                      ELSE l.dirs
                restored == RestoreRemoved([l EXCEPT !.dirs = ds], item.indices)
                refilled == AddedFiles(restored, {f \in disk : DirOf[f] \in item.refill}, TRUE)
            IN  [refilled EXCEPT !.dirs = RestoreSelection(@, item.selected)]

WithinBounds(l) == l.ids <= MaxArtworks /\ l.dirIDs <= MaxDirs

Add(files, full) ==
    /\ lib' = AddedFiles(lib, files, full)
    /\ WithinBounds(lib')
    /\ Record(Item("add", (DOMAIN lib'.list) \ (DOMAIN lib.list), lib'))
    /\ UNCHANGED <<disk, lost, lastLost>>

AddFiles == \E files \in (SUBSET disk) \ {{}} : Add(files, FALSE)
AddDirectory == \E path \in Paths : LET files == {f \in disk : DirOf[f] = path}
                                    IN  files # {} /\ Add(files, TRUE)

RemoveSelected ==
    \E indices \in (SUBSET Visible(lib)) \ {{}} :
        LET r == RemovedFiles(lib, indices)
        IN  /\ lib' = r.lib
            /\ Record([Item("remove", indices, lib) EXCEPT !.unselectAll = r.unselectAll,
                                                           !.selected = r.selected])
            /\ UNCHANGED <<disk, lost, lastLost>>

\* Empty directories are not listed.
RemoveDirectory ==
    \E d \in DOMAIN lib.dirs :
        LET directory == lib.dirs[d]
            indices == InDirectory(lib, directory.path)
            r == RemovedFiles(lib, indices)
        IN  /\ directory.count > 0
            /\ lib' = r.lib
            /\ Record([Item("removeDirectory", indices, lib) EXCEPT
                            !.unselectAll = r.unselectAll, !.selected = r.selected,
                            !.refill = IF directory.id \in r.full THEN {directory.path} ELSE {}])
            /\ UNCHANGED <<disk, lost, lastLost>>

\* Any command that edits metadata.
Modify ==
    /\ Visible(lib) # {}
    /\ Record(Item("edit", {}, lib))
    /\ UNCHANGED <<disk, lib, lost, lastLost>>

UndoLastAction ==
    /\ history # <<>>
    /\ lib' = Undone(lib, history[1])
    /\ WithinBounds(lib')
    /\ history' = <<>>
    /\ UNCHANGED <<disk, lost, lastLost>>

\* Dismissed by the user or by the timer: undoStackEmpty.
Dismissed(l) == CleanupEmptyDirectories(DeleteItems(l, RemovedItems(l)))

DiscardLastAction ==
    /\ history # <<>>
    /\ history' = <<>>
    /\ lib' = Dismissed(lib)
    /\ UNCHANGED <<disk, lost, lastLost>>

ToggleDirectorySelected ==
    \E d \in DOMAIN lib.dirs :
        /\ lib.dirs[d].count > 0
        /\ lib' = [lib EXCEPT !.dirs = ChangeSelected(@, d, ~@[d].selected)]
        /\ UNCHANGED <<disk, history, lost, lastLost>>

-----------------------------------------------------------------------------
(* Files that disappear *)

\* The file system deletes f; the watcher tells when it watches f.
FileLost ==
    \E f \in disk :
        /\ Cardinality(Files \ disk) < MaxLost
        /\ disk' = disk \ {f}
        /\ lost' = IF f \in lib.watched THEN lost \cup {f} ELSE lost
        /\ lib' = [lib EXCEPT !.watched = @ \ {f}]
        /\ UNCHANGED <<history, lastLost>>

OnAvailabilityTimer ==
    /\ Cardinality(lost) > lastLost
    /\ lastLost' = Cardinality(lost)
    /\ lib' = [lib EXCEPT !.list = [i \in DOMAIN lib.list |->
                [lib.list[i] EXCEPT !.unavailable = lib.list[i].unavailable \/ lib.list[i].file \in lost \ disk]]]
    /\ UNCHANGED <<disk, history, lost>>

\* A mutant of BeforePurge: the undo manager does not hear of the purge.
BeforePurgeKeeping == [lib |-> lib, history |-> history]

\* The last command is undone first, for its indices are about to move.
BeforePurge == [lib |-> IF history = <<>> THEN lib ELSE Undone(lib, history[1]),
                history |-> <<>>]

\* purgeUnavailableFiles: the user agrees to drop the unavailable files.
PurgeUnavailableFiles ==
    LET before == BeforePurge
        indices == Unavailable(before.lib)
    IN  /\ Unavailable(lib) # {}
        /\ lib' = DeleteItems(RemovedFiles(before.lib, indices).lib, indices)
        /\ WithinBounds(lib')
        /\ history' = before.history
        /\ IF Cardinality(lost) = lastLost
           THEN lost' = {} /\ lastLost' = 0
           ELSE UNCHANGED <<lost, lastLost>>
        /\ UNCHANGED disk

Init == /\ disk = Files
        /\ lib = Empty
        /\ history = <<>>
        /\ lost = {}
        /\ lastLost = 0

Next == \/ AddFiles \/ AddDirectory \/ RemoveSelected \/ RemoveDirectory \/ Modify
        \/ UndoLastAction \/ DiscardLastAction \/ ToggleDirectorySelected
        \/ FileLost \/ OnAvailabilityTimer \/ PurgeUnavailableFiles

Spec == Init /\ [][Next]_vars

-----------------------------------------------------------------------------
(* Properties *)

Artwork == [id : 0..MaxArtworks, file : Files, dir : 0..MaxDirs,
            removed : BOOLEAN, unavailable : BOOLEAN]
Directory == [id : 0..MaxDirs, path : Paths, count : 0..Cardinality(Files),
              selected : BOOLEAN, removed : BOOLEAN, full : BOOLEAN]

TypeOK ==
    /\ disk \subseteq Files /\ lost \subseteq Files
    /\ lastLost \in 0..Cardinality(Files)
    /\ lib.list \in Seq(Artwork)
    /\ lib.dirs \in Seq(Directory)
    /\ lib.filesSet \subseteq Files /\ lib.watched \subseteq Files
    /\ lib.broken \subseteq {"removeFile", "restoreRemoved"}
    /\ Len(history) <= 1

\* Every accounted file is counted by exactly one directory entry, that of
\* its path, and an entry is marked removed exactly when it counts nothing:
\* though files leave through stale artworks and directories come and go,
\* accountFile, removeFile and the cleanup keep the counters true.
DirectoriesCountFiles ==
    /\ \A f \in lib.filesSet : FindDirectory(lib.dirs, DirOf[f]) # {}
    /\ \A i \in DOMAIN lib.dirs :
        /\ FindDirectory(lib.dirs, lib.dirs[i].path) = {i}
        /\ lib.dirs[i].count = Cardinality({f \in lib.filesSet : DirOf[f] = lib.dirs[i].path})
        /\ lib.dirs[i].removed = (lib.dirs[i].count = 0)

\* While there are directories one is selected: removal, undo, cleanup and
\* the user's clicks never leave the view without a source.
SelectionIsNeverEmpty == lib.dirs # <<>> => SelectedDirs(lib.dirs) # {}

\* The indices a recorded command keeps mean the artworks it was about for
\* as long as it can be undone: nothing moves the list under the history.
HistoryIsInSync ==
    history # <<>> => /\ history[1].indices \subseteq DOMAIN lib.list
                      /\ IDs(lib, history[1].indices) = history[1].ids

\* An artwork that was removed comes back only by the undo of the command
\* that removed it, never with another command's files.
UndoTouchesItsOwn ==
    [][\A i \in RemovedItems(lib), j \in Live(lib') :
            lib.list[i].id = lib'.list[j].id =>
                history # <<>> /\ lib.list[i].id \in history[1].ids]_vars

\* The undo of a removal brings back every artwork it removed whose file is
\* still there, unless a file is listed twice or an artwork has lost its
\* directory entry (RemoveFindsDirectory shows how that comes about).
IsConsistent(l) ==
    /\ \A i, j \in DOMAIN l.list : l.list[i].file = l.list[j].file => i = j
    /\ \A i \in DOMAIN l.list : FindDirectoryByID(l.dirs, l.list[i].dir) # {}
UndoRestoresRemoved ==
    [][UndoLastAction /\ history[1].kind \in {"remove", "removeDirectory"} /\ IsConsistent(lib) =>
        \A i \in history[1].indices : lib.list[i].file \in disk => i \in Live(lib')]_vars

\* "Q_ASSERT(false)" of removeFile: an accounted file has the directory its
\* artwork was created with.
RemoveFindsDirectory == "removeFile" \notin lib.broken

=============================================================================
