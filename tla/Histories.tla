----------------------------- MODULE Histories ------------------------------
(***************************************************************************)
(* A history from start to exit: history_load, history_append and          *)
(* history_save (history.c), and their twins for files (file-history.c).   *)
(* One editor after the other uses the file; each may be killed.           *)
(***************************************************************************)
EXTENDS HistoryLists, SequencesExt

CONSTANT FileLines  \* names of files, each with a cursor position

ASSUME FileLinesAssumption == \A l \in FileLines : l = <<l[1], l[2]>> /\ l[1] \in Texts

VARIABLES
  kind,    \* "text" or "file": which of the twins it is
  runs,    \* an editor runs
  hist,    \* its History or FileHistory
  stored   \* the lines of the file; the last one may be cut

histVars == <<kind, runs, hist, stored>>

\* A line whose end is missing
Part == <<"part">>
ASSUME PartAssumption == Part \notin Texts

Whole(lines) == \A i \in DOMAIN lines : lines[i][1] # Part

HistoryLines == IF kind = "file" THEN FileLines ELSE Texts \X {NULL}

AppendLine(h, l) ==
  IF kind = "file" THEN FileHistoryAppend(h, l[1], l[2]) ELSE HistoryAppend(h, l[1])

\* A line without its end is no entry of a FileHistory; it is left out here of
\* a History, too, which takes it for an entry.
LoadLine(h, l) == IF l[1] = Part THEN h ELSE AppendLine(h, l)

HistInit ==
  /\ kind \in {"text", "file"} /\ runs = FALSE /\ hist = EmptyHistory /\ stored = <<>>

\* history_load, file_history_load
LoadHistory ==
  /\ ~runs /\ runs' = TRUE
  /\ hist' = FoldLeft(LoadLine, EmptyHistory, stored)
  /\ UNCHANGED <<kind, stored>>

\* Any error but ENOENT is only shown: the history starts empty.
LoadFails ==
  /\ ~runs /\ runs' = TRUE
  /\ UNCHANGED <<kind, hist, stored>>

Use(l) ==
  /\ runs /\ hist' = AppendLine(hist, l)
  /\ UNCHANGED <<kind, runs, stored>>

EditorEnds == runs /\ runs' = FALSE /\ hist' = EmptyHistory /\ UNCHANGED kind

\* history_save, file_history_save
Save == EditorEnds /\ stored' = Entries(hist)

\* The editor is killed, or cannot write: before it truncated the file, or
\* with a part of it written.
Killed == EditorEnds /\ UNCHANGED stored
DiesSaving ==
  /\ EditorEnds /\ Entries(hist) # <<>>
  /\ \E n \in 0..(Len(Entries(hist)) - 1) :
       stored' \in {SubSeq(Entries(hist), 1, n), Append(SubSeq(Entries(hist), 1, n), <<Part, NULL>>)}

HistNext ==
  \/ LoadHistory \/ LoadFails
  \/ \E l \in HistoryLines : Use(l)
  \/ Save \/ Killed \/ DiesSaving

HistSpec == HistInit /\ [][HistNext]_histVars

-----------------------------------------------------------------------------
Recent == INSTANCE RecentTexts WITH recent <- Entries(hist), MaxRecent <- MaxEntries

\* The linked list with its map is a history: each use puts a text at the
\* end, once, and drops the oldest one when there are too many; the list in
\* both directions and the map always agree (history_append).
ImplementsRecent == Recent!RecentSpec /\ [][ListIsMap(hist')]_histVars

\* A file that was written to its end is loaded as the same history, in the
\* same order.
SavedIsLoaded == [][LoadHistory /\ Whole(stored) => Entries(hist') = stored]_histVars

\* Both: what an editor remembers, and what the next one does.
HistoriesAreRecent == ImplementsRecent /\ SavedIsLoaded
=============================================================================
