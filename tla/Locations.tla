------------------------------ MODULE Locations ------------------------------
(***************************************************************************)
(* Places to go to and to come back to: src/bookmark.c, src/msg.c, the     *)
(* messages that src/spawn.c makes of what a compiler prints, with the     *)
(* commands bookmark, msg, compile and tag (src/commands.c).               *)
(*                                                                         *)
(* A position is a Buffer and a line.  A Buffer keeps its own cursor while *)
(* another one is shown; the windows it may be shown in are left to module *)
(* Views.  What a search for a tag finds is any line or none.              *)
(***************************************************************************)
EXTENDS Integers, SequencesExt

CONSTANTS
  FileNames,   \* Buffers with a filename
  Unnamed,     \* Buffers without one; they cannot be opened again
  Lines,       \* bound: lines of every file, 1..Lines
  MaxMarks,    \* max_entries of bookmark_push
  MaxMessages  \* bound: messages of a command

NoFile == "none"
AllBuffers == FileNames \cup Unnamed

ASSUME LocationsAssumption ==
  /\ NoFile \notin AllBuffers /\ FileNames \cap Unnamed = {}
  /\ Lines \in Nat \ {0} /\ MaxMarks \in Nat \ {0}

VARIABLES
  shown,  \* the Buffer that is shown
  at,     \* the cursors of the open Buffers; 0 for one that is not open
  marks,  \* e->bookmarks
  msgs    \* one of e->messages: [array, pos]; pos counts from 1

locVars == <<shown, at, marks, msgs>>

IsOpen(b) == at[b] > 0
Here == [buf |-> shown, line |-> at[shown]]

NoMessages == [array |-> <<>>, pos |-> 1]

\* A Message: without a file it is text only; with a pattern its line is 0.
NewMessage(file, line, pattern) == [file |-> file, line |-> line, pattern |-> pattern]

-----------------------------------------------------------------------------
(* Going somewhere.  Each operator gives the outcomes, as records of the    *)
(* Buffer shown, the cursors and whether it succeeded.                      *)

Outcome(b, cursors, ok) == [shown |-> b, at |-> cursors, ok |-> ok]

Nearest(line) == IF line > Lines THEN Lines ELSE line

\* window_open_buffer with must_exist, for a file that may be gone, then
\* set_view: the Buffer has the cursor it had, or starts at its first line
\* or where the file history says.
Opened(file) ==
  IF IsOpen(file) THEN {Outcome(file, at, TRUE)}
  ELSE {Outcome(file, [at EXCEPT ![file] = n], TRUE) : n \in 1..Lines} \cup {Outcome(shown, at, FALSE)}

\* search_tag: any line that matches, or none and the cursor stays.
Searched(o) ==
  {[o EXCEPT !.at[o.shown] = n] : n \in 1..Lines} \cup {[o EXCEPT !.ok = FALSE]}

\* file_location_go
FileLocationGo(m) ==
  UNION {CASE ~o.ok -> {o}
           [] o.ok /\ m.pattern -> Searched(o)
           [] o.ok /\ ~m.pattern /\ m.line > 0 -> {[o EXCEPT !.at[o.shown] = Nearest(m.line)]}
           [] OTHER -> {o} : o \in Opened(m.file)}

\* activate_current_message
Activated(list) ==
  IF list.array = <<>> \/ list.array[list.pos].file = NoFile THEN {Outcome(shown, at, TRUE)}
  ELSE FileLocationGo(list.array[list.pos])

\* bookmark_push: the oldest one makes room
BookmarkPush(stack, loc) ==
  Append(IF Len(stack) = MaxMarks THEN Tail(stack) ELSE stack, loc)

\* Variant with a bug: only the line is compared, not the Buffer.
SavedLine(list, o) ==
  IF list.array = <<>> \/ (Len(list.array) = 1 /\ o.at[o.shown] = at[shown]) THEN marks
  ELSE BookmarkPush(marks, Here)

\* activate_current_message_save: the bookmarks after outcome o
Saved(list, o) ==
  IF \/ list.array = <<>>
     \/ Len(list.array) = 1 /\ o.shown = shown /\ o.at[o.shown] = at[shown]
  THEN marks
  ELSE BookmarkPush(marks, Here)

ActivateSave(list) ==
  /\ \E o \in Activated(list) :
       /\ shown' = o.shown
       /\ at' = o.at
       /\ marks' = Saved(list, o)
  /\ msgs' = list

-----------------------------------------------------------------------------
(* Messages of a compiler *)

\* What a line of output is to the error formats: the first one that matches
\* says which parts are captured.
OutputLines ==
  {[is |-> is, file |-> NoFile, line |-> 0] : is \in {"empty", "ignored", "unmatched", "location"}}
    \cup {[is |-> "location", file |-> f, line |-> n] : f \in FileNames, n \in 0..1}

\* handle_error_msg
HandleErrorMsg(list, out) ==
  CASE out.is \in {"empty", "ignored"} -> list
    [] out.is = "unmatched" -> Append(list, NewMessage(NoFile, 0, FALSE))
    [] out.is = "location" ->
         Append(list, NewMessage(out.file, IF out.file = NoFile THEN 0 ELSE out.line, FALSE))

\* read_errors
ReadErrors(outs) == FoldLeft(HandleErrorMsg, <<>>, outs)

CompilerLists == {ReadErrors(outs) : outs \in SeqOf(OutputLines, MaxMessages)}

\* Variant with a bug: clear_messages leaves pos as it is.
RenewedKeepsPos(array) == [msgs EXCEPT !.array = array]

\* clear_messages, then a list of new ones
Renewed(array) == [NoMessages EXCEPT !.array = array]

\* "compile"
Compile == \E array \in CompilerLists : ActivateSave(Renewed(array))

\* add_message_for_tag for every tag that was found; a line may be too large
TagLists ==
  SeqOf({NewMessage(f, 0, TRUE) : f \in FileNames}
          \cup {NewMessage(f, Lines + 1, FALSE) : f \in FileNames}, MaxMessages)

\* "tag" with a name, exec -o tag; none are found, or there is no tags file
TagCommand == \E array \in TagLists : ActivateSave(Renewed(array))

\* "msg -n", "msg -p", "msg -w" and "msg" with a number
Positions(p, n) ==
  {IF p < n THEN p + 1 ELSE n, IF p > 1 THEN p - 1 ELSE 1, (p % n) + 1,
   IF p = 1 THEN n ELSE p - 1, p} \cup 1..n

Msg ==
  /\ msgs.array # <<>>
  /\ \E p \in Positions(msgs.pos, Len(msgs.array)) :
       /\ msgs' = [msgs EXCEPT !.pos = p]
       /\ \E o \in Activated(msgs') : shown' = o.shown /\ at' = o.at
  /\ UNCHANGED marks

-----------------------------------------------------------------------------
(* Bookmarks *)

Bookmark ==
  /\ marks' = BookmarkPush(marks, Here)
  /\ UNCHANGED <<shown, at, msgs>>

\* The bookmarks that bookmark_pop goes past: unnamed Buffers that are closed.
Useless(loc) == loc.buf \in Unnamed /\ ~IsOpen(loc.buf)
TopUseful == {i \in DOMAIN marks :
               /\ ~Useless(marks[i])
               /\ \A j \in DOMAIN marks : j > i => Useless(marks[j])}

\* file_location_return: a file that is gone is not tried again
FileLocationReturn(loc) ==
  {IF o.ok THEN [o EXCEPT !.at[o.shown] = Nearest(loc.line)] ELSE o :
     o \in Opened(loc.buf)}

\* "bookmark -r", "tag -r": bookmark_pop
BookmarkPop ==
  /\ marks # <<>>
  /\ IF TopUseful = {} THEN marks' = <<>> /\ UNCHANGED <<shown, at>>
     ELSE \E i \in TopUseful :
            /\ marks' = SubSeq(marks, 1, i - 1)
            /\ \E o \in FileLocationReturn(marks[i]) : shown' = o.shown /\ at' = o.at
  /\ UNCHANGED msgs

-----------------------------------------------------------------------------
(* The rest of the editor *)

Move == \E n \in 1..Lines : at' = [at EXCEPT ![shown] = n] /\ UNCHANGED <<shown, marks, msgs>>

Show(b) ==
  /\ b \in FileNames \/ IsOpen(b)
  /\ shown' = b
  /\ at' \in IF IsOpen(b) THEN {at} ELSE {[at EXCEPT ![b] = n] : n \in 1..Lines}
  /\ UNCHANGED <<marks, msgs>>

Close(next) ==
  /\ IsOpen(next) /\ next # shown
  /\ shown' = next
  /\ at' = [at EXCEPT ![shown] = 0]
  /\ UNCHANGED <<marks, msgs>>

LocInit ==
  /\ shown \in AllBuffers
  /\ at = [b \in AllBuffers |-> IF b = shown \/ b \in Unnamed THEN 1 ELSE 0]
  /\ marks = <<>>
  /\ msgs = NoMessages

LocNext ==
  \/ Compile \/ TagCommand \/ Msg
  \/ Bookmark \/ BookmarkPop
  \/ Move \/ \E b \in AllBuffers : Show(b) \/ Close(b)

LocSpec == LocInit /\ [][LocNext]_locVars

-----------------------------------------------------------------------------
(* Properties *)

\* The position in the list of messages is inside of it, whatever lists
\* followed each other (the assertion of activate_current_message), and the
\* Buffer on screen is open.
PosIsValid ==
  /\ msgs.pos \in 1..(IF msgs.array = <<>> THEN 1 ELSE Len(msgs.array))
  /\ IsOpen(shown)

\* A jump to a message of "compile" or "tag" that moves the cursor, to another
\* line or to another Buffer, can be taken back: the bookmark on top is where
\* the cursor was.  A command that keeps the bookmarks has not moved it.
CanReturn ==
  msgs'.array # msgs.array =>
    \/ (Here' = Here /\ marks' = marks)
    \/ (marks' # <<>> /\ Last(marks') = Here)

\* Both, after every command.
JumpsReturn == [][PosIsValid' /\ CanReturn]_locVars
=============================================================================
