---------------------------- MODULE EditorProofs ----------------------------
(***************************************************************************)
(* Proofs about parts of the editor that read files and keep lists:        *)
(* bookmarks and messages (module Locations), syntax files (SyntaxFiles).  *)
(***************************************************************************)
EXTENDS Locations, SyntaxFiles, FoldLemmas

-----------------------------------------------------------------------------
(* Locations *)

Cursors == [AllBuffers -> 0..Lines]
Marks == Seq([buf : AllBuffers, line : 1..Lines])

\* A message has the name of a file or none, and a line that may be beyond
\* the last one.
Messages == [file : FileNames \cup {NoFile}, line : Nat, pattern : BOOLEAN]

\* A list of messages whose position is inside of it
IsList(list) ==
  /\ list.array \in Seq(Messages)
  /\ list = [array |-> list.array, pos |-> list.pos]
  /\ list.pos \in 1..(IF list.array = <<>> THEN 1 ELSE Len(list.array))

\* A Buffer is shown that is open; each cursor is in its Buffer.
IsPlace(b, cursors) == b \in AllBuffers /\ cursors \in Cursors /\ cursors[b] > 0

LocInv == IsPlace(shown, at) /\ marks \in Marks /\ IsList(msgs)

\* The outcome of a jump is a place.
Arrives(o) == IsPlace(o.shown, o.at) /\ o = Outcome(o.shown, o.at, o.ok)

LEMMA OutcomeIsPlace ==
  ASSUME NEW b, NEW cursors, IsPlace(b, cursors), NEW ok
  PROVE  Arrives(Outcome(b, cursors, ok))
BY DEF Arrives, Outcome

\* The cursor of the Buffer that is shown, or is about to be, may be set.
LEMMA CursorIsSet ==
  ASSUME NEW b \in AllBuffers, NEW cursors \in Cursors, NEW n \in 1..Lines
  PROVE  IsPlace(b, [cursors EXCEPT ![b] = n])
<1>1. Lines \in Nat
  BY LocationsAssumption
<1>2. 1..Lines \subseteq 0..Lines /\ n > 0
  BY <1>1
<1> QED
  BY <1>2 DEF IsPlace, Cursors

LEMMA NearestIsLine ==
  ASSUME NEW line \in Nat, line > 0
  PROVE  Nearest(line) \in 1..Lines
BY LocationsAssumption DEF Nearest

\* Setting the line of an outcome
LEMMA OutcomeMoves ==
  ASSUME NEW o, Arrives(o), NEW n \in 1..Lines
  PROVE  Arrives([o EXCEPT !.at[o.shown] = n])
<1> DEFINE b == o.shown
           c == o.at
           k == o.ok
           t == [c EXCEPT ![b] = n]
<1>1. o = [shown |-> b, at |-> c, ok |-> k] /\ b \in AllBuffers /\ c \in Cursors
  BY DEF Arrives, Outcome, IsPlace
<1>2. [o EXCEPT !.at[o.shown] = n] = Outcome(b, t, k)
  BY <1>1 DEF Outcome
<1>3. IsPlace(b, t)
  BY <1>1, CursorIsSet
<1> QED
  BY <1>2, <1>3, OutcomeIsPlace

\* window_open_buffer shows an open Buffer.
LEMMA OpenedIsPlace ==
  ASSUME LocInv, NEW file \in AllBuffers, NEW o \in Opened(file)
  PROVE  Arrives(o)
<1>1. IsPlace(shown, at) /\ at \in Cursors /\ Lines \in Nat
  BY LocationsAssumption DEF LocInv, IsPlace
<1>2. CASE IsOpen(file)
  <2>1. o = Outcome(file, at, TRUE) /\ IsPlace(file, at)
    BY <1>1, <1>2 DEF Opened, IsOpen, IsPlace
  <2> QED
    BY <2>1, OutcomeIsPlace
<1>3. CASE ~IsOpen(file)
  <2>1. CASE o = Outcome(shown, at, FALSE)
    BY <1>1, <2>1, OutcomeIsPlace
  <2>2. CASE o \in {Outcome(file, [at EXCEPT ![file] = n], TRUE) : n \in 1..Lines}
    <3>1. PICK n \in 1..Lines : o = Outcome(file, [at EXCEPT ![file] = n], TRUE)
      BY <2>2
    <3> QED
      BY <1>1, <3>1, CursorIsSet, OutcomeIsPlace
  <2> QED
    BY <1>3, <2>1, <2>2 DEF Opened
<1> QED
  BY <1>2, <1>3

\* file_location_go leaves the editor in a place, also if it fails half way.
LEMMA GoIsPlace ==
  ASSUME LocInv, NEW m \in Messages, m.file # NoFile, NEW o \in FileLocationGo(m)
  PROVE  Arrives(o)
<1>1. m.file \in AllBuffers /\ m.line \in Nat
  BY DEF Messages, AllBuffers
<1>2. PICK p \in Opened(m.file) :
        o \in (CASE ~p.ok -> {p}
                 [] p.ok /\ m.pattern -> Searched(p)
                 [] p.ok /\ ~m.pattern /\ m.line > 0 -> {[p EXCEPT !.at[p.shown] = Nearest(m.line)]}
                 [] OTHER -> {p})
  BY DEF FileLocationGo
<1>3. Arrives(p)
  BY <1>1, <1>2, OpenedIsPlace
<1>4. \/ o = p
      \/ o \in Searched(p)
      \/ m.line > 0 /\ o = [p EXCEPT !.at[p.shown] = Nearest(m.line)]
  BY <1>2, Zenon
<1>5. CASE o \in Searched(p)
  <2>1. CASE o = [p EXCEPT !.ok = FALSE]
    <3>1. o = Outcome(p.shown, p.at, FALSE)
      BY <1>3, <2>1 DEF Arrives, Outcome
    <3> QED
      BY <1>3, <3>1, OutcomeIsPlace DEF Arrives
  <2>2. CASE o \in {[p EXCEPT !.at[p.shown] = n] : n \in 1..Lines}
    BY <1>3, <2>2, OutcomeMoves
  <2> QED
    BY <1>5, <2>1, <2>2 DEF Searched
<1>6. CASE m.line > 0 /\ o = [p EXCEPT !.at[p.shown] = Nearest(m.line)]
  <2>1. Nearest(m.line) \in 1..Lines
    BY <1>1, <1>6, NearestIsLine
  <2> QED
    BY <1>3, <1>6, <2>1, OutcomeMoves
<1> QED
  BY <1>3, <1>4, <1>5, <1>6

\* activate_current_message: the assertion about pos is what it relies on.
LEMMA ActivatedIsPlace ==
  ASSUME LocInv, NEW list, IsList(list), NEW o \in Activated(list)
  PROVE  Arrives(o)
<1>1. CASE o = Outcome(shown, at, TRUE)
  BY <1>1, OutcomeIsPlace DEF LocInv
<1>2. CASE ~(list.array = <<>> \/ list.array[list.pos].file = NoFile)
  <2>1. list.array[list.pos] \in Messages
    BY <1>2 DEF IsList
  <2> QED
    BY <1>2, <2>1, GoIsPlace DEF Activated
<1> QED
  BY <1>1, <1>2 DEF Activated

\* bookmark_push
LEMMA PushIsMarks ==
  ASSUME NEW stack_ \in Marks, NEW loc \in [buf : AllBuffers, line : 1..Lines]
  PROVE  /\ BookmarkPush(stack_, loc) \in Marks
         /\ BookmarkPush(stack_, loc) # <<>>
         /\ Last(BookmarkPush(stack_, loc)) = loc
<1> DEFINE room == IF Len(stack_) = MaxMarks THEN Tail(stack_) ELSE stack_
<1>1. room \in Marks
  <2>1. stack_ # <<>> => Tail(stack_) \in Marks
    BY HeadTailProperties DEF Marks
  <2>2. Len(stack_) = MaxMarks => stack_ # <<>>
    BY LocationsAssumption
  <2> QED
    BY <2>1, <2>2
<1>2. Append(room, loc) \in Marks /\ Append(room, loc)[Len(Append(room, loc))] = loc
      /\ Len(Append(room, loc)) = Len(room) + 1
  BY <1>1, AppendProperties DEF Marks
<1>3. Append(room, loc) # <<>>
  BY <1>1, <1>2 DEF Marks
<1> QED
  BY <1>2, <1>3 DEF BookmarkPush, Last

LEMMA HereIsMark ==
  ASSUME LocInv
  PROVE  Here \in [buf : AllBuffers, line : 1..Lines]
<1>1. shown \in AllBuffers /\ at[shown] \in 0..Lines /\ at[shown] > 0 /\ Lines \in Nat
  BY LocationsAssumption DEF LocInv, IsPlace, Cursors
<1> QED
  BY <1>1 DEF Here

-----------------------------------------------------------------------------
(* The lists that commands make *)

\* handle_error_msg adds at most one message.
LEMMA ErrorIsMessage ==
  ASSUME NEW list \in Seq(Messages), NEW out \in OutputLines
  PROVE  HandleErrorMsg(list, out) \in Seq(Messages)
<1>1. out.file \in FileNames \cup {NoFile} /\ out.line \in Nat
  BY DEF OutputLines
<1>2. NewMessage(NoFile, 0, FALSE) \in Messages
      /\ NewMessage(out.file, IF out.file = NoFile THEN 0 ELSE out.line, FALSE) \in Messages
  BY <1>1 DEF NewMessage, Messages
<1>3. out.is \in {"empty", "ignored", "unmatched", "location"}
  BY DEF OutputLines
<1>4. CASE out.is \in {"empty", "ignored"}
  BY <1>4 DEF HandleErrorMsg
<1>5. CASE out.is = "unmatched"
  <2>1. HandleErrorMsg(list, out) = Append(list, NewMessage(NoFile, 0, FALSE))
    BY <1>5 DEF HandleErrorMsg
  <2> QED
    BY <1>2, <2>1, AppendProperties
<1>6. CASE out.is = "location"
  <2>1. PICK m \in Messages :
          m = NewMessage(out.file, IF out.file = NoFile THEN 0 ELSE out.line, FALSE)
    BY <1>2
  <2>2. HandleErrorMsg(list, out) = Append(list, m)
    BY <1>6, <2>1 DEF HandleErrorMsg
  <2> QED
    BY <2>2, AppendProperties
<1> QED
  BY <1>3, <1>4, <1>5, <1>6

\* read_errors makes a list of messages, whatever the compiler prints.
LEMMA ErrorsAreMessages ==
  ASSUME NEW outs \in Seq(OutputLines)
  PROVE  ReadErrors(outs) \in Seq(Messages)
<1> DEFINE T == Seq(Messages)
           F == [p \in T \X OutputLines |-> HandleErrorMsg(p[1], p[2])]
           it == CHOOSE g : g = [s \in SUBSET DOMAIN outs |->
                   IF s = {} THEN <<>> ELSE HandleErrorMsg(g[s \ {Max(s)}], outs[Max(s)])]
<1>0. DOMAIN outs = 1..Len(outs) /\ Len(outs) \in Nat
  OBVIOUS
<1>1. ReadErrors(outs) = it[DOMAIN outs]
  BY DEF ReadErrors, FoldLeft, MapThenFoldSet
<1>2. F \in [T \X OutputLines -> T]
  BY ErrorIsMessage
<1>3. <<>> \in T /\ \A x \in T, y \in OutputLines : F[<<x, y>>] = HandleErrorMsg(x, y)
  OBVIOUS
<1>4. PICK r \in [0..Len(outs) -> T] : IsRun(r, F, <<>>, outs)
  BY <1>2, <1>3, RunExists
<1> DEFINE Follows(g) == g = [s \in SUBSET DOMAIN outs |->
             IF s = {} THEN <<>> ELSE HandleErrorMsg(g[s \ {Max(s)}], outs[Max(s)])]
<1>5. \E g : Follows(g)
  <2>1. PICK g \in [SUBSET DOMAIN outs -> T] : IsIter(g, F, <<>>, outs)
    BY <1>2, <1>3, IterExists
  <2>2. ASSUME NEW s \in SUBSET DOMAIN outs, s # {}
        PROVE  F[<<g[s \ {Max(s)}], outs[Max(s)]>>] = HandleErrorMsg(g[s \ {Max(s)}], outs[Max(s)])
    <3>1. Max(s) \in DOMAIN outs
      BY <1>0, <2>2, LastIndex
    <3>2. outs[Max(s)] \in OutputLines /\ g[s \ {Max(s)}] \in T
      BY <3>1
    <3> QED
      BY <1>3, <3>2
  <2> QED
    BY <2>1, <2>2 DEF IsIter
<1>6. Follows(it)
  BY <1>5
<1>7. it[{}] = <<>>
  BY <1>6
<1>8. ASSUME NEW k \in 1..Len(outs), it[1..(k - 1)] \in T
      PROVE  it[1..k] = F[<<it[1..(k - 1)], outs[k]>>]
  <2>1. 1..k \in SUBSET DOMAIN outs /\ 1..k # {} /\ k \in Nat /\ k > 0 /\ outs[k] \in OutputLines
    OBVIOUS
  <2>2. Max(1..k) = k /\ (1..k) \ {k} = 1..(k - 1)
    BY <2>1, MaxOfInterval
  <2>3. it[1..k] = HandleErrorMsg(it[1..(k - 1)], outs[k])
    BY <1>6, <2>1, <2>2
  <2> QED
    BY <1>3, <1>8, <2>1, <2>3
<1>9. IterFollows(it, T, F, <<>>, outs)
  BY <1>7, <1>8 DEF IterFollows
<1> HIDE DEF F, it, T
<1>10. it[DOMAIN outs] = r[Len(outs)]
  BY <1>4, <1>9, IterIsRun
<1>11. it[DOMAIN outs] \in T
  BY <1>0, <1>4, <1>10
<1> QED
  BY <1>1, <1>11 DEF T

\* The lists of "compile" and "tag"
LEMMA ListsAreMessages ==
  ASSUME NEW array \in CompilerLists \cup TagLists
  PROVE  array \in Seq(Messages)
<1>1. CASE array \in CompilerLists
  <2>1. PICK outs \in SeqOf(OutputLines, MaxMessages) : array = ReadErrors(outs)
    BY <1>1 DEF CompilerLists
  <2>2. outs \in Seq(OutputLines)
    BY <2>1 DEF SeqOf
  <2> QED
    BY <2>1, <2>2, ErrorsAreMessages
<1>2. CASE array \in TagLists
  <2> DEFINE Tags == {NewMessage(f, 0, TRUE) : f \in FileNames}
                       \cup {NewMessage(f, Lines + 1, FALSE) : f \in FileNames}
  <2>1. Tags \subseteq Messages
    <3>1. 0 \in Nat /\ Lines + 1 \in Nat
      BY LocationsAssumption
    <3>2. \A f \in FileNames : NewMessage(f, 0, TRUE) \in Messages
      BY <3>1 DEF NewMessage, Messages
    <3>3. \A f \in FileNames : NewMessage(f, Lines + 1, FALSE) \in Messages
      BY <3>1 DEF NewMessage, Messages
    <3> QED
      BY <3>2, <3>3
  <2>2. array \in SeqOf(Tags, MaxMessages)
    BY <1>2 DEF TagLists
  <2> HIDE DEF Tags
  <2>3. array \in Seq(Tags)
    BY <2>2 DEF SeqOf
  <2> QED
    BY <2>1, <2>3
<1> QED
  BY <1>1, <1>2

-----------------------------------------------------------------------------
(* The steps *)

\* A list that was just made stands at its first message.
LEMMA RenewedIsList ==
  ASSUME NEW array \in Seq(Messages)
  PROVE  IsList(Renewed(array)) /\ Renewed(array).array = array
<1>1. Renewed(array) = [array |-> array, pos |-> 1]
  BY DEF Renewed, NoMessages
<1>2. array # <<>> => 1 \in 1..Len(array)
  OBVIOUS
<1> QED
  BY <1>1, <1>2 DEF IsList

\* activate_current_message_save: a jump either leaves the cursor or puts a
\* bookmark where it was.
LEMMA ActivateSaveIsSound ==
  ASSUME LocInv, NEW list, IsList(list), ActivateSave(list)
  PROVE  LocInv' /\ CanReturn
<1>1. PICK o \in Activated(list) : shown' = o.shown /\ at' = o.at /\ marks' = Saved(list, o)
  BY DEF ActivateSave
<1>2. msgs' = list
  BY DEF ActivateSave
<1>3. IsPlace(shown', at')
  BY <1>1, ActivatedIsPlace DEF Arrives
<1>4. Here \in [buf : AllBuffers, line : 1..Lines] /\ marks \in Marks
  BY HereIsMark DEF LocInv
<1>5. CASE marks' = BookmarkPush(marks, Here)
  <2>1. marks' \in Marks /\ marks' # <<>> /\ Last(marks') = Here
    BY <1>4, <1>5, PushIsMarks
  <2> QED
    BY <1>2, <1>3, <2>1 DEF LocInv, CanReturn, IsList
<1>6. CASE /\ marks' = marks
           /\ \/ list.array = <<>>
              \/ o.shown = shown /\ o.at[o.shown] = at[shown]
  <2>1. shown' = shown /\ at'[shown'] = at[shown]
    <3>1. list.array = <<>> => o = Outcome(shown, at, TRUE)
      BY <1>1 DEF Activated
    <3> QED
      BY <1>1, <1>6, <3>1 DEF Outcome
  <2>2. Here' = Here
    BY <2>1 DEF Here
  <2> QED
    BY <1>2, <1>3, <1>4, <1>6, <2>2 DEF LocInv, CanReturn, IsList
<1> QED
  BY <1>1, <1>5, <1>6 DEF Saved

LEMMA LocInitIsSound == LocInit => LocInv
<1> SUFFICES ASSUME LocInit PROVE LocInv
  OBVIOUS
<1>1. Lines \in Nat /\ 0 \in 0..Lines /\ 1 \in 0..Lines
  BY LocationsAssumption
<1>2. at \in Cursors /\ at[shown] = 1 /\ shown \in AllBuffers
  BY <1>1 DEF LocInit, Cursors
<1>3. IsPlace(shown, at)
  BY <1>2 DEF IsPlace
<1>4. marks \in Marks
  BY DEF LocInit, Marks
<1>5. IsList(msgs)
  BY DEF LocInit, NoMessages, IsList
<1> QED
  BY <1>3, <1>4, <1>5 DEF LocInv

\* "msg": the position stays inside of the list, and the list stays.
LEMMA MsgIsSound ==
  ASSUME LocInv, Msg
  PROVE  LocInv' /\ CanReturn
<1> DEFINE n == Len(msgs.array)
<1>1. PICK p \in Positions(msgs.pos, n) :
        /\ msgs' = [msgs EXCEPT !.pos = p]
        /\ \E o \in Activated(msgs') : shown' = o.shown /\ at' = o.at
  BY DEF Msg
<1>2. msgs.array \in Seq(Messages) /\ msgs.array # <<>> /\ n \in Nat /\ n > 0
  BY DEF Msg, LocInv, IsList
<1>3. msgs.pos \in 1..n
  BY <1>2 DEF LocInv, IsList
<1>4. p \in 1..n
  <2>1. (msgs.pos % n) + 1 \in 1..n
    BY <1>2, <1>3
  <2> QED
    BY <1>2, <1>3, <2>1 DEF Positions
<1>5. msgs' = [array |-> msgs.array, pos |-> p]
  BY <1>1 DEF LocInv, IsList
<1>6. IsList(msgs')
  BY <1>2, <1>4, <1>5 DEF IsList
<1>7. IsPlace(shown', at')
  BY <1>1, <1>6, ActivatedIsPlace DEF Arrives
<1>8. marks' = marks /\ msgs'.array = msgs.array
  BY <1>5 DEF Msg
<1> QED
  BY <1>6, <1>7, <1>8 DEF LocInv, CanReturn, IsList

\* bookmark_pop goes back to a place in a Buffer that can be opened.
LEMMA PopIsSound ==
  ASSUME LocInv, BookmarkPop
  PROVE  LocInv' /\ CanReturn
<1>1. msgs' = msgs
  BY DEF BookmarkPop
<1>2. CASE TopUseful = {}
  <2>1. marks' = <<>> /\ shown' = shown /\ at' = at
    BY <1>2 DEF BookmarkPop
  <2> QED
    BY <1>1, <2>1 DEF LocInv, CanReturn, IsList, IsPlace, Marks
<1>3. CASE TopUseful # {}
  <2>1. PICK i \in TopUseful :
          /\ marks' = SubSeq(marks, 1, i - 1)
          /\ \E o \in FileLocationReturn(marks[i]) : shown' = o.shown /\ at' = o.at
    BY <1>3 DEF BookmarkPop
  <2>2. PICK o \in FileLocationReturn(marks[i]) : shown' = o.shown /\ at' = o.at
    BY <2>1
  <2>3. i \in DOMAIN marks /\ marks \in Marks
    BY <2>1 DEF TopUseful, LocInv
  <2> DEFINE M == [buf : AllBuffers, line : 1..Lines]
  <2>10. marks \in Seq(M) /\ i \in 1..Len(marks) /\ Len(marks) \in Nat
    BY <2>3 DEF Marks
  <2>4. marks[i].buf \in AllBuffers /\ marks[i].line \in Nat /\ marks[i].line > 0
    <3> HIDE DEF M
    <3>1. marks[i] \in M
      BY <2>10
    <3> QED
      BY <3>1, LocationsAssumption DEF M
  <2>5. marks' \in Marks
    <3> HIDE DEF M
    <3>1. SubSeq(marks, 1, i - 1) \in Seq(M)
      BY <2>10, SubSeqProperties
    <3> QED
      BY <2>1, <3>1 DEF Marks, M
  <2>6. PICK p \in Opened(marks[i].buf) :
          o = IF p.ok THEN [p EXCEPT !.at[p.shown] = Nearest(marks[i].line)] ELSE p
    BY <2>2 DEF FileLocationReturn
  <2>7. Arrives(p)
    BY <2>4, <2>6, OpenedIsPlace
  <2>8. Arrives(o)
    <3>1. Nearest(marks[i].line) \in 1..Lines
      BY <2>4, NearestIsLine
    <3> QED
      BY <2>6, <2>7, <3>1, OutcomeMoves
  <2>9. IsPlace(shown', at')
    BY <2>2, <2>8 DEF Arrives
  <2> QED
    BY <1>1, <2>5, <2>9 DEF LocInv, CanReturn, IsList
<1> QED
  BY <1>2, <1>3

LEMMA LocStepIsSound ==
  ASSUME LocInv, [LocNext]_locVars
  PROVE  LocInv' /\ CanReturn
<1>1. CASE Compile
  <2>1. PICK array \in CompilerLists : ActivateSave(Renewed(array))
    BY <1>1 DEF Compile
  <2>2. IsList(Renewed(array))
    BY <2>1, ListsAreMessages, RenewedIsList
  <2> QED
    BY <2>1, <2>2, ActivateSaveIsSound
<1>2. CASE TagCommand
  <2>1. PICK array \in TagLists : ActivateSave(Renewed(array))
    BY <1>2 DEF TagCommand
  <2>2. IsList(Renewed(array))
    BY <2>1, ListsAreMessages, RenewedIsList
  <2> QED
    BY <2>1, <2>2, ActivateSaveIsSound
<1>3. CASE Msg
  BY <1>3, MsgIsSound
<1>4. CASE Bookmark
  <2>1. marks' \in Marks
    BY <1>4, HereIsMark, PushIsMarks DEF Bookmark, LocInv
  <2>2. shown' = shown /\ at' = at /\ msgs' = msgs
    BY <1>4 DEF Bookmark
  <2> QED
    BY <2>1, <2>2 DEF LocInv, CanReturn, IsList, IsPlace
<1>5. CASE BookmarkPop
  BY <1>5, PopIsSound
<1>6. CASE Move
  <2>1. PICK n \in 1..Lines : at' = [at EXCEPT ![shown] = n]
    BY <1>6 DEF Move
  <2>2. shown' = shown /\ marks' = marks /\ msgs' = msgs
    BY <1>6 DEF Move
  <2>3. IsPlace(shown', at')
    BY <2>1, <2>2, CursorIsSet DEF LocInv, IsPlace
  <2> QED
    BY <2>2, <2>3 DEF LocInv, CanReturn, IsList
<1>7. ASSUME NEW b \in AllBuffers, Show(b) PROVE LocInv' /\ CanReturn
  <2>1. shown' = b /\ marks' = marks /\ msgs' = msgs
    BY <1>7 DEF Show
  <2>2. CASE IsOpen(b)
    <3>1. at' = at
      BY <1>7, <2>2 DEF Show
    <3>2. IsPlace(shown', at')
      BY <2>1, <2>2, <3>1 DEF LocInv, IsPlace, IsOpen
    <3> QED
      BY <2>1, <3>2 DEF LocInv, CanReturn, IsList
  <2>3. CASE ~IsOpen(b)
    <3>1. PICK n \in 1..Lines : at' = [at EXCEPT ![b] = n]
      BY <1>7, <2>3 DEF Show
    <3>2. IsPlace(shown', at')
      BY <2>1, <3>1, CursorIsSet DEF LocInv, IsPlace
    <3> QED
      BY <2>1, <3>2 DEF LocInv, CanReturn, IsList
  <2> QED
    BY <2>2, <2>3
<1>8. ASSUME NEW b \in AllBuffers, Close(b) PROVE LocInv' /\ CanReturn
  <2>1. shown' = b /\ marks' = marks /\ msgs' = msgs /\ at' = [at EXCEPT ![shown] = 0]
        /\ at[b] > 0 /\ b # shown
    BY <1>8 DEF Close, IsOpen
  <2>2. 0 \in 0..Lines
    BY LocationsAssumption
  <2>3. at' \in Cursors /\ at'[b] = at[b]
    BY <2>1, <2>2 DEF LocInv, IsPlace, Cursors
  <2>4. IsPlace(shown', at')
    BY <2>1, <2>3 DEF IsPlace
  <2> QED
    BY <2>1, <2>4 DEF LocInv, CanReturn, IsList
<1>9. CASE UNCHANGED locVars
  BY <1>9 DEF locVars, LocInv, CanReturn, IsList, IsPlace
<1> QED
  BY <1>1, <1>2, <1>3, <1>4, <1>5, <1>6, <1>7, <1>8, <1>9 DEF LocNext

\* The position in a list of messages is inside of it, a Buffer that is open is
\* shown, and what a jump to a message leaves can be returned to: for every
\* number of files, lines, messages and bookmarks.
THEOREM JumpsReturnAlways == LocSpec => JumpsReturn
<1>1. LocInit => LocInv
  BY LocInitIsSound
<1>2. LocInv /\ [LocNext]_locVars => LocInv' /\ CanReturn
  BY LocStepIsSound
<1>3. LocInv => PosIsValid
  BY DEF LocInv, IsList, IsPlace, PosIsValid, IsOpen
<1> QED
  BY <1>1, <1>2, <1>3, PTL DEF LocSpec, JumpsReturn

-----------------------------------------------------------------------------
(* SyntaxFiles: what a syntax is *)

IsSequence(x) == x \in Seq({x[i] : i \in DOMAIN x})

IsSyntax(s) ==
  /\ s = [name |-> s.name, states |-> s.states, start |-> s.start, lists |-> s.lists,
          defined |-> s.defined, heredoc |-> s.heredoc, merges |-> s.merges]
  /\ s.states = [n \in DOMAIN s.states |-> s.states[n]]

IsState(st) ==
  st = [defined |-> st.defined, type |-> st.type, conds |-> st.conds, dest |-> st.dest,
        sub |-> st.sub, heredocs |-> st.heredocs]

IsCondition(c) == c = [kind |-> c.kind, dest |-> c.dest]

\* A destination is a state of the syntax; in a sub-syntax it may be END.
Leads(s, dest) == Has(s, dest) \/ (dest = None /\ IsSub(s.name))

ConditionsLead(s, cs) ==
  \E n \in Nat :
    /\ cs = [i \in 1..n |-> cs[i]]
    /\ \A i \in 1..n : IsCondition(cs[i]) /\ (cs[i].kind = "recolor" \/ Leads(s, cs[i].dest))

\* A state whose default action, if it has one yet, and whose conditions lead
\* somewhere; S are the names of the syntaxes that are registered.
StateSound(S, s, st) ==
  /\ IsState(st) /\ ConditionsLead(s, st.conds)
  /\ st.type # "invalid" => Leads(s, st.dest)
  /\ st.type = "heredocbegin" => st.sub \in S /\ IsSub(st.sub)
  /\ \A h \in st.heredocs : Has(s, h[2])

SyntaxSound(S, s) ==
  /\ IsSyntax(s)
  /\ s.states # <<>> => Has(s, s.start)
  /\ \A n \in DOMAIN s.states : IsSequence(n) /\ StateSound(S, s, s.states[n])

\* Heredocs are merged into syntaxes that are registered and no sub-syntaxes.
Plain(s) == \A n \in DOMAIN s.states : s.states[n].heredocs = {}

\* Of the states that were defined only the current one may be without a
\* default action.
ClosedBut(s, current) ==
  \A n \in DOMAIN s.states :
    s.states[n].defined => s.states[n].type # "invalid" \/ (current # None /\ n = current)

Usable(S, s) ==
  /\ SyntaxSound(S, s) /\ s.states # <<>>
  /\ \A n \in DOMAIN s.states : s.states[n].type # "invalid"
  /\ IsSub(s.name) => Plain(s)

AreUsable(f) ==
  /\ f = [n \in DOMAIN f |-> f[n]]
  /\ \A n \in DOMAIN f : f[n].name = n /\ Usable(DOMAIN f, f[n])

\* The syntax that is being read, with its current state
ProgressSound(S, s, current) ==
  /\ SyntaxSound(S, s) /\ Plain(s) /\ ClosedBut(s, current)
  /\ current # None => Has(s, current)

SynInv ==
  /\ AreUsable(syntaxes)
  /\ syn = [syntax |-> syn.syntax, state |-> syn.state]
  /\ ProgressSound(DOMAIN syntaxes, syn.syntax, syn.state)

\* More names are registered, the syntax gets more states: what was sound is
\* sound.
LEMMA LeadsOn ==
  ASSUME NEW s, NEW t, s.name = t.name, DOMAIN s.states \subseteq DOMAIN t.states,
         NEW d, Leads(s, d)
  PROVE  Leads(t, d)
BY DEF Leads, Has

LEMMA StateStaysSound ==
  ASSUME NEW S, NEW S2, S \subseteq S2, NEW s, NEW t, s.name = t.name,
         DOMAIN s.states \subseteq DOMAIN t.states, NEW st, StateSound(S, s, st)
  PROVE  StateSound(S2, t, st)
<1>1. \A d : Leads(s, d) => Leads(t, d)
  BY LeadsOn
<1>2. ConditionsLead(t, st.conds)
  BY <1>1 DEF StateSound, ConditionsLead
<1> QED
  BY <1>1, <1>2 DEF StateSound, Has

LEMMA SyntaxStaysSound ==
  ASSUME NEW S, NEW S2, S \subseteq S2, NEW s, SyntaxSound(S, s)
  PROVE  SyntaxSound(S2, s)
BY StateStaysSound DEF SyntaxSound

-----------------------------------------------------------------------------
(* The operators of merge.c and state.c *)

\* A state that was only referenced is sound in every syntax.
LEMMA NewStateIsSound ==
  ASSUME NEW S, NEW s
  PROVE  /\ StateSound(S, s, NewState) /\ NewState.heredocs = {}
         /\ ~NewState.defined /\ NewState.type = "invalid"
<1>1. ConditionsLead(s, <<>>)
  <2>1. <<>> = [i \in 1..0 |-> <<>>[i]] /\ 1..0 = {}
    OBVIOUS
  <2> QED
    BY <2>1 DEF ConditionsLead
<1>2. NewState.conds = <<>>
  BY DEF NewState
<1> QED
  BY <1>1, <1>2 DEF StateSound, IsState, NewState

LEMMA OneNameIsSequence == ASSUME NEW x PROVE IsSequence(<<x>>) /\ <<x>> # None
BY DEF IsSequence, None

\* find_or_add_state: a state is added, the first one is the start.
LEMMA FindOrAddIsSound ==
  ASSUME NEW S, NEW s, NEW current, ProgressSound(S, s, current),
         NEW name, IsSequence(name)
  PROVE  /\ ProgressSound(S, FindOrAdd(s, name), current)
         /\ FindOrAdd(s, name).name = s.name
         /\ Has(FindOrAdd(s, name), name)
         /\ DOMAIN s.states \subseteq DOMAIN FindOrAdd(s, name).states
<1> DEFINE t == FindOrAdd(s, name)
<1>1. CASE Has(s, name)
  BY <1>1 DEF FindOrAdd
<1>2. CASE ~Has(s, name)
  <2> DEFINE D == {name} \cup DOMAIN s.states
             states == [n \in D |-> IF n = name THEN NewState ELSE s.states[n]]
             start == IF s.states = <<>> THEN name ELSE s.start
  <2>1. Over([n \in {name} |-> NewState], s.states) = states
    BY DEF Over
  <2>2. s = [name |-> s.name, states |-> s.states, start |-> s.start, lists |-> s.lists,
             defined |-> s.defined, heredoc |-> s.heredoc, merges |-> s.merges]
    BY DEF ProgressSound, SyntaxSound, IsSyntax
  <2> HIDE DEF states
  <2>3. t = [name |-> s.name, states |-> states, start |-> start, lists |-> s.lists,
             defined |-> s.defined, heredoc |-> s.heredoc, merges |-> s.merges]
    BY <1>2, <2>1, <2>2 DEF FindOrAdd
  <2>4. t.name = s.name /\ t.states = states /\ t.start = start
    BY <2>3
  <2>5. /\ DOMAIN states = D /\ states[name] = NewState
        /\ \A n \in DOMAIN s.states : states[n] = s.states[n]
        /\ states = [n \in DOMAIN states |-> states[n]]
    BY <1>2 DEF states, Has
  <2> HIDE DEF t
  <2>6. IsSyntax(t)
    <3>1. t = [name |-> t.name, states |-> t.states, start |-> t.start, lists |-> t.lists,
               defined |-> t.defined, heredoc |-> t.heredoc, merges |-> t.merges]
      BY <2>3
    <3> QED
      BY <2>4, <2>5, <3>1 DEF IsSyntax
  <2>7. Has(t, t.start)
    <3>1. s.states # <<>> => Has(s, s.start)
      BY DEF ProgressSound, SyntaxSound
    <3> QED
      BY <2>4, <2>5, <3>1 DEF Has
  <2>8. ASSUME NEW n \in DOMAIN t.states
        PROVE  IsSequence(n) /\ StateSound(S, t, t.states[n]) /\ t.states[n].heredocs = {}
               /\ (t.states[n].defined =>
                     t.states[n].type # "invalid" \/ (current # None /\ n = current))
    <3>1. CASE n = name
      <4>1. t.states[n] = NewState
        BY <2>4, <2>5, <3>1
      <4> QED
        BY <3>1, <4>1, NewStateIsSound
    <3>2. CASE n \in DOMAIN s.states
      <4>1. t.states[n] = s.states[n]
        BY <2>4, <2>5, <3>2
      <4>2. IsSequence(n) /\ StateSound(S, s, s.states[n]) /\ s.states[n].heredocs = {}
            /\ (s.states[n].defined =>
                  s.states[n].type # "invalid" \/ (current # None /\ n = current))
        BY <3>2 DEF ProgressSound, SyntaxSound, Plain, ClosedBut
      <4>3. StateSound(S, t, s.states[n])
        BY <2>4, <2>5, <4>2, StateStaysSound
      <4> QED
        BY <4>1, <4>2, <4>3
    <3> QED
      BY <2>4, <2>5, <3>1, <3>2
  <2>9. SyntaxSound(S, t) /\ Plain(t) /\ ClosedBut(t, current)
    BY <2>6, <2>7, <2>8 DEF SyntaxSound, Plain, ClosedBut
  <2>10. current # None => Has(t, current)
    BY <2>4, <2>5 DEF ProgressSound, Has
  <2> QED
    BY <2>4, <2>5, <2>9, <2>10 DEF ProgressSound, Has, t
<1> QED
  BY <1>1, <1>2

\* The names of copies
LEMMA CopiedName ==
  ASSUME NEW x, IsSequence(x), NEW p
  PROVE  /\ Tail(<<p>> \o x) = x /\ IsSequence(<<p>> \o x)
<1>1. <<p>> \o x \in Seq({p} \cup {x[i] : i \in DOMAIN x}) /\ Tail(<<p>> \o x) = x
  BY DEF IsSequence
<1>2. \A S : \A y \in Seq(S) : y \in Seq({y[i] : i \in DOMAIN y})
  OBVIOUS
<1> QED
  BY <1>1, <1>2 DEF IsSequence

\* A destination of the copy, in t, is a copied state or the return state.
MayCopy(p, sub, t, return) ==
  /\ {<<p>> \o x : x \in DOMAIN sub.states} \subseteq DOMAIN t.states
  /\ Leads(t, return)

LEMMA FixedLeads ==
  ASSUME NEW p, NEW sub, NEW t, NEW return, MayCopy(p, sub, t, return), NEW dest
  PROVE  Leads(t, Fixed(sub, p, dest, return))
BY DEF Leads, Fixed, Has, MayCopy

CopySound(S, p, sub, t, st, return) ==
  /\ StateSound(S, t, Copied(sub, p, st, return))
  /\ Copied(sub, p, st, return).heredocs = {}
  /\ Copied(sub, p, st, return).type = st.type

LEMMA CopyIsSound ==
  ASSUME NEW p, NEW sub, NEW t, NEW return, MayCopy(p, sub, t, return),
         NEW S, NEW st, StateSound(S, sub, st), st.heredocs = {}
  PROVE  CopySound(S, p, sub, t, st, return)
<1> DEFINE cs == [i \in DOMAIN st.conds |-> FixedCondition(sub, p, st.conds[i], return)]
           c == Copied(sub, p, st, return)
<1>1. st = [defined |-> st.defined, type |-> st.type, conds |-> st.conds, dest |-> st.dest,
            sub |-> st.sub, heredocs |-> st.heredocs]
  BY DEF StateSound, IsState
<1>2. c = [defined |-> st.defined, type |-> st.type, conds |-> cs,
           dest |-> Fixed(sub, p, st.dest, return), sub |-> st.sub, heredocs |-> st.heredocs]
  <2>1. c = [st EXCEPT !.dest = Fixed(sub, p, @, return), !.conds = cs]
    BY DEF Copied
  <2> HIDE DEF c, cs
  <2> QED
    BY <1>1, <2>1
<1> HIDE DEF c, cs
<1>3. IsState(c) /\ c.type = st.type /\ c.conds = cs /\ c.sub = st.sub /\ c.heredocs = {}
      /\ c.dest = Fixed(sub, p, st.dest, return)
  BY <1>2 DEF IsState
<1>4. \A d : Leads(t, Fixed(sub, p, d, return))
  BY FixedLeads
<1>5. ConditionsLead(t, cs)
  <2>1. PICK n \in Nat :
          /\ st.conds = [i \in 1..n |-> st.conds[i]]
          /\ \A i \in 1..n : IsCondition(st.conds[i])
    BY DEF StateSound, ConditionsLead
  <2>2. DOMAIN st.conds = 1..n
    BY <2>1
  <2>3. cs = [i \in 1..n |-> cs[i]]
    BY <2>2 DEF cs
  <2>4. ASSUME NEW i \in 1..n
        PROVE  IsCondition(cs[i]) /\ (cs[i].kind = "recolor" \/ Leads(t, cs[i].dest))
    <3> DEFINE a == st.conds[i]
    <3>1. a = [kind |-> a.kind, dest |-> a.dest]
      BY <2>1 DEF IsCondition
    <3>2. cs[i] = [a EXCEPT !.dest = IF a.kind = "recolor" THEN None ELSE Fixed(sub, p, @, return)]
      BY <2>2 DEF cs, FixedCondition
    <3> HIDE DEF a
    <3>3. cs[i] = [kind |-> a.kind,
                   dest |-> IF a.kind = "recolor" THEN None ELSE Fixed(sub, p, a.dest, return)]
      BY <3>1, <3>2
    <3> QED
      BY <1>4, <3>3 DEF IsCondition
  <2> QED
    BY <2>3, <2>4 DEF ConditionsLead
<1>6. c.type = "heredocbegin" => c.sub \in S /\ IsSub(c.sub)
  BY <1>3 DEF StateSound
<1>7. StateSound(S, t, c)
  BY <1>3, <1>4, <1>5, <1>6 DEF StateSound
<1> QED
  BY <1>3, <1>7 DEF c, CopySound

\* What merge_syntax makes of a sound syntax
MergeSound(S, s, sub, return) ==
  LET t == MergeSyntax(s, sub, return)
  IN  /\ SyntaxSound(S, t) /\ t.name = s.name
      /\ DOMAIN t.states = DOMAIN s.states \cup CopiedNames(s, sub)
      /\ Has(t, MergedStart(s, sub))
      /\ \A n \in DOMAIN t.states :
           \/ n \in DOMAIN s.states /\ t.states[n] = s.states[n]
           \/ t.states[n].heredocs = {} /\ t.states[n].type # "invalid"

\* merge_syntax: the copies lead to each other and to the return state, and
\* what was there before goes on leading where it led, also if a copy takes the
\* name of a state that exists.
LEMMA MergeIsSound ==
  ASSUME NEW S, NEW s, SyntaxSound(S, s), s.states # <<>>,
         NEW sub, Usable(S, sub), Plain(sub), NEW return, Leads(s, return)
  PROVE  MergeSound(S, s, sub, return)
<1> DEFINE p == Prefix(s)
           N == CopiedNames(s, sub)
           D == DOMAIN s.states \cup N
           states == [n \in D |-> IF n \in N THEN Copied(sub, p, sub.states[Tail(n)], return)
                                  ELSE s.states[n]]
           t == MergeSyntax(s, sub, return)
<1>1. t = [s EXCEPT !.merges = @ + 1, !.states = states]
  <2>1. Over([n \in N |-> Copied(sub, p, sub.states[Tail(n)], return)], s.states) = states
    <3> HIDE DEF N
    <3> QED
      BY DEF Over
  <2>2. t = [s EXCEPT !.merges = @ + 1,
                      !.states = Over([n \in N |-> Copied(sub, p, sub.states[Tail(n)], return)], @)]
    BY DEF MergeSyntax
  <2>3. s = [name |-> s.name, states |-> s.states, start |-> s.start, lists |-> s.lists,
             defined |-> s.defined, heredoc |-> s.heredoc, merges |-> s.merges]
    BY DEF SyntaxSound, IsSyntax
  <2> HIDE DEF t, states, N
  <2> QED
    BY <2>1, <2>2, <2>3
<1>2. s = [name |-> s.name, states |-> s.states, start |-> s.start, lists |-> s.lists,
           defined |-> s.defined, heredoc |-> s.heredoc, merges |-> s.merges]
  BY DEF SyntaxSound, IsSyntax
<1> HIDE DEF t, states, N
<1>3. t = [name |-> s.name, states |-> states, start |-> s.start, lists |-> s.lists,
           defined |-> s.defined, heredoc |-> s.heredoc, merges |-> s.merges + 1]
  BY <1>1, <1>2
<1>4. t.name = s.name /\ t.states = states /\ t.start = s.start
  BY <1>3
<1>5. DOMAIN states = D /\ states = [n \in DOMAIN states |-> states[n]]
  BY DEF states
<1>6. IsSyntax(t)
  BY <1>3, <1>4, <1>5 DEF IsSyntax
<1>7. Has(t, t.start) /\ Leads(t, return) /\ N \subseteq DOMAIN t.states
  <2>1. Has(s, s.start)
    BY DEF SyntaxSound
  <2> QED
    BY <1>4, <1>5, <2>1, LeadsOn DEF Has
<1>8. ASSUME NEW n \in N
      PROVE  /\ IsSequence(n) /\ StateSound(S, t, t.states[n])
             /\ t.states[n].heredocs = {} /\ t.states[n].type # "invalid"
  <2>1. PICK x \in DOMAIN sub.states : n = <<p>> \o x
    BY DEF N, CopiedNames
  <2>2. IsSequence(x) /\ StateSound(S, sub, sub.states[x]) /\ sub.states[x].heredocs = {}
        /\ sub.states[x].type # "invalid"
    BY <2>1 DEF Usable, SyntaxSound, Plain
  <2>3. Tail(n) = x /\ IsSequence(n)
    BY <2>1, <2>2, CopiedName
  <2>4. t.states[n] = Copied(sub, p, sub.states[x], return)
    BY <1>4, <1>5, <2>3 DEF states
  <2>5. MayCopy(p, sub, t, return)
    BY <1>7 DEF N, CopiedNames, MayCopy
  <2> DEFINE st == sub.states[x]
  <2> HIDE DEF st
  <2>6. StateSound(S, sub, st) /\ st.heredocs = {}
    BY <2>2 DEF st
  <2> HIDE DEF p
  <2>7. CopySound(S, p, sub, t, st, return)
    BY <2>5, <2>6, CopyIsSound
  <2> QED
    BY <2>2, <2>3, <2>4, <2>7 DEF st, CopySound
<1>9. ASSUME NEW n \in DOMAIN s.states, n \notin N
      PROVE  t.states[n] = s.states[n] /\ IsSequence(n) /\ StateSound(S, t, t.states[n])
  <2>1. t.states[n] = s.states[n]
    BY <1>4, <1>9 DEF states
  <2>2. IsSequence(n) /\ StateSound(S, s, s.states[n])
    BY DEF SyntaxSound
  <2> QED
    BY <1>4, <1>5, <2>1, <2>2, StateStaysSound
<1>10. SyntaxSound(S, t)
  BY <1>4, <1>5, <1>6, <1>7, <1>8, <1>9 DEF SyntaxSound
<1>11. Has(t, MergedStart(s, sub))
  <2>1. Has(sub, sub.start)
    BY DEF Usable, SyntaxSound
  <2>2. MergedStart(s, sub) \in N
    BY <2>1 DEF MergedStart, N, CopiedNames, Has
  <2> QED
    BY <1>7, <2>2 DEF Has
<1>12. \A n \in DOMAIN t.states :
         \/ n \in DOMAIN s.states /\ t.states[n] = s.states[n]
         \/ t.states[n].heredocs = {} /\ t.states[n].type # "invalid"
  BY <1>4, <1>5, <1>8, <1>9
<1> QED
  BY <1>4, <1>5, <1>10, <1>11, <1>12 DEF MergeSound, t, N

\* What destination_state returns: the current syntax with the states that were
\* added, and a state of it (or END in a sub-syntax).
Reaches(r) ==
  /\ r = [syntax |-> r.syntax, dest |-> r.dest]
  /\ ProgressSound(DOMAIN syntaxes, r.syntax, syn.state)
  /\ Leads(r.syntax, r.dest)
  /\ r.syntax.name = syn.syntax.name

\* A syntax that a sub-syntax was merged into is still the current one.
LEMMA MergeKeepsProgress ==
  ASSUME NEW S, NEW s, NEW current, ProgressSound(S, s, current),
         NEW sub, NEW return, MergeSound(S, s, sub, return)
  PROVE  ProgressSound(S, MergeSyntax(s, sub, return), current)
<1> DEFINE t == MergeSyntax(s, sub, return)
<1>1. SyntaxSound(S, t)
  BY DEF MergeSound
<1>2. current # None => Has(t, current)
  BY DEF MergeSound, ProgressSound, Has
<1>3. \A n \in DOMAIN t.states :
        /\ t.states[n].heredocs = {}
        /\ t.states[n].defined => t.states[n].type # "invalid" \/ (current # None /\ n = current)
  <2> TAKE n \in DOMAIN t.states
  <2>1. CASE n \in DOMAIN s.states /\ t.states[n] = s.states[n]
    BY <2>1 DEF ProgressSound, Plain, ClosedBut
  <2>2. CASE t.states[n].heredocs = {} /\ t.states[n].type # "invalid"
    BY <2>2
  <2> QED
    BY <2>1, <2>2 DEF MergeSound
<1> HIDE DEF t
<1>4. ProgressSound(S, t, current)
  BY <1>1, <1>2, <1>3 DEF ProgressSound, Plain, ClosedBut
<1> QED
  BY <1>4 DEF t

\* destination_state
LEMMA DestinationIsSound ==
  ASSUME SynInv, InState, NEW d, HasDestination(d)
  PROVE  Reaches(Destination(d))
<1> DEFINE S == DOMAIN syntaxes
           s == syn.syntax
           u == IF d.ret = "END" THEN s ELSE Referenced(s, d.ret)
           return == IF d.ret = "END" THEN None ELSE NameOf(d.ret)
           sub == syntaxes[d.sub]
<1>1. ProgressSound(S, s, syn.state) /\ syn.state # None /\ Has(s, syn.state)
  BY DEF SynInv, InState, ProgressSound
<1>2. ProgressSound(S, u, syn.state) /\ u.name = s.name /\ Leads(u, return)
  <2>1. CASE d.ret = "END"
    BY <1>1, <2>1 DEF HasDestination, Leads
  <2>2. CASE d.ret = "this"
    BY <1>1, <2>2 DEF Referenced, NameOf, Leads
  <2>3. CASE d.ret # "END" /\ d.ret # "this"
    <3>1. u = FindOrAdd(s, <<d.ret>>) /\ return = <<d.ret>>
      BY <2>3 DEF Referenced, NameOf
    <3>2. IsSequence(<<d.ret>>)
      BY OneNameIsSequence
    <3> HIDE DEF u, return, s
    <3>3. ProgressSound(S, u, syn.state) /\ u.name = s.name /\ Has(u, return)
      BY <1>1, <3>1, <3>2, FindOrAddIsSound
    <3> QED
      BY <3>3 DEF Leads
  <2> QED
    BY <2>1, <2>2, <2>3
<1>3. u.states # <<>>
  <2>1. Has(u, syn.state)
    BY <1>1, <1>2 DEF ProgressSound
  <2>2. DOMAIN <<>> = {}
    OBVIOUS
  <2> QED
    BY <2>1, <2>2 DEF Has
<1>4. Destination(d) = IF d.sub = "" THEN [syntax |-> u, dest |-> return]
                       ELSE [syntax |-> MergeSyntax(u, sub, return), dest |-> MergedStart(u, sub)]
  BY DEF Destination
<1> HIDE DEF u, return
<1>5. CASE d.sub = ""
  <2>1. PICK r : r = Destination(d)
    OBVIOUS
  <2>2. r = [syntax |-> u, dest |-> return]
    BY <1>4, <1>5, <2>1
  <2>3. r = [syntax |-> r.syntax, dest |-> r.dest] /\ r.syntax = u /\ r.dest = return
    BY <2>2
  <2>4. Reaches(r)
    BY <1>2, <2>3 DEF Reaches
  <2> QED
    BY <2>1, <2>4
<1>6. CASE d.sub # ""
  <2>1. d.sub \in S /\ IsSub(d.sub)
    BY <1>6 DEF HasDestination, Subsyntax
  <2>2. Usable(S, sub) /\ Plain(sub)
    BY <2>1 DEF SynInv, AreUsable, Usable
  <2> HIDE DEF sub
  <2>3. MergeSound(S, u, sub, return)
    BY <1>2, <1>3, <2>2, MergeIsSound DEF ProgressSound
  <2> DEFINE t == MergeSyntax(u, sub, return)
  <2>4. ProgressSound(S, t, syn.state)
    BY <1>2, <2>3, MergeKeepsProgress
  <2>5. t.name = u.name /\ Has(t, MergedStart(u, sub))
    BY <2>3 DEF MergeSound
  <2> HIDE DEF t
  <2>6. Destination(d) = [syntax |-> t, dest |-> MergedStart(u, sub)]
    BY <1>4, <1>6 DEF t
  <2> QED
    BY <1>2, <2>4, <2>5, <2>6 DEF Reaches, Leads
<1> QED
  BY <1>5, <1>6

-----------------------------------------------------------------------------
(* The commands of a state *)

\* A state of the syntax becomes another one.
Becomes(t, u, n, st) ==
  /\ IsSyntax(u) /\ u.name = t.name /\ u.start = t.start
  /\ n \in DOMAIN t.states
  /\ u.states = [t.states EXCEPT ![n] = st]

LEMMA BecomesSound ==
  ASSUME NEW S, NEW t, SyntaxSound(S, t), NEW n, NEW st, StateSound(S, t, st),
         NEW u, Becomes(t, u, n, st)
  PROVE  SyntaxSound(S, u)
<1>1. t.states = [m \in DOMAIN t.states |-> t.states[m]] /\ IsSyntax(u) /\ u.name = t.name
      /\ u.start = t.start /\ n \in DOMAIN t.states
      /\ u.states = [t.states EXCEPT ![n] = st]
  BY DEF SyntaxSound, IsSyntax, Becomes
<1>2. DOMAIN u.states = DOMAIN t.states /\ u.states[n] = st
      /\ \A m \in DOMAIN t.states : m # n => u.states[m] = t.states[m]
  BY <1>1
<1>3. ASSUME NEW m \in DOMAIN u.states
      PROVE  IsSequence(m) /\ StateSound(S, u, u.states[m])
  <2>1. IsSequence(m) /\ StateSound(S, t, t.states[m])
    BY <1>2 DEF SyntaxSound
  <2>2. StateSound(S, t, u.states[m])
    BY <1>2, <2>1
  <2> QED
    BY <1>1, <1>2, <2>1, <2>2, StateStaysSound
<1>4. u.states # <<>> => Has(u, u.start)
  <2>1. n \in DOMAIN t.states /\ DOMAIN <<>> = {}
    BY <1>1
  <2>2. Has(t, t.start)
    BY <2>1 DEF SyntaxSound
  <2> QED
    BY <1>1, <1>2, <2>2 DEF Has
<1> QED
  BY <1>1, <1>3, <1>4 DEF SyntaxSound

\* The same for the current syntax; next is the current state from then on.
LEMMA BecomesProgress ==
  ASSUME NEW S, NEW t, NEW current, ProgressSound(S, t, current),
         NEW n, NEW st, StateSound(S, t, st), st.heredocs = {},
         NEW u, Becomes(t, u, n, st),
         NEW next, next = None \/ next = n,
         st.type # "invalid" \/ next = n,
         current = n \/ current = None \/ t.states[current].type # "invalid",
         n # None
  PROVE  ProgressSound(S, u, next)
<1>1. SyntaxSound(S, u)
  BY BecomesSound DEF ProgressSound
<1>2. t.states = [m \in DOMAIN t.states |-> t.states[m]] /\ n \in DOMAIN t.states
      /\ u.states = [t.states EXCEPT ![n] = st]
  BY DEF ProgressSound, SyntaxSound, IsSyntax, Becomes
<1>3. DOMAIN u.states = DOMAIN t.states /\ u.states[n] = st
      /\ \A m \in DOMAIN t.states : m # n => u.states[m] = t.states[m]
  BY <1>2
<1>4. Plain(u)
  BY <1>3 DEF ProgressSound, Plain
<1>5. ClosedBut(u, next)
  BY <1>3 DEF ProgressSound, ClosedBut
<1>6. next # None => Has(u, next)
  BY <1>2, <1>3 DEF Has
<1> QED
  BY <1>1, <1>4, <1>5, <1>6 DEF ProgressSound

-----------------------------------------------------------------------------
(* The current syntax is closed, registered, or a new one *)

\* close_state: a state with a default action may be left.
LEMMA ClosedIsSound ==
  ASSUME SynInv, Closes(syn)
  PROVE  ProgressSound(DOMAIN syntaxes, syn.syntax, None)
BY DEF SynInv, Closes, ProgressSound, ClosedBut

\* The syntax that cmd_syntax begins with, and the one between loads
LEMMA EmptyIsSound ==
  ASSUME NEW S, NEW name
  PROVE  /\ ProgressSound(S, [NoSyntax EXCEPT !.name = name], None)
         /\ ProgressSound(S, NoSyntax, None)
<1>1. ASSUME NEW s, NEW x, s = [name |-> x, states |-> <<>>, start |-> None, lists |-> {},
                               defined |-> {}, heredoc |-> FALSE, merges |-> 0]
      PROVE  ProgressSound(S, s, None)
  <2>1. /\ s = [name |-> s.name, states |-> s.states, start |-> s.start, lists |-> s.lists,
                defined |-> s.defined, heredoc |-> s.heredoc, merges |-> s.merges]
        /\ s.states = <<>>
    BY <1>1
  <2>2. DOMAIN <<>> = {} /\ <<>> = [n \in DOMAIN <<>> |-> <<>>[n]]
    OBVIOUS
  <2> QED
    BY <2>1, <2>2 DEF ProgressSound, SyntaxSound, IsSyntax, Plain, ClosedBut
<1>2. [NoSyntax EXCEPT !.name = name]
        = [name |-> name, states |-> <<>>, start |-> None, lists |-> {}, defined |-> {},
           heredoc |-> FALSE, merges |-> 0]
  <2>1. PICK a, b, e, f, z : a = "" /\ b = <<>> /\ e = {} /\ f = FALSE /\ z = 0
    OBVIOUS
  <2>2. PICK s : s = NoSyntax
    OBVIOUS
  <2>3. s = [name |-> a, states |-> b, start |-> None, lists |-> e, defined |-> e,
             heredoc |-> f, merges |-> z]
    BY <2>1, <2>2 DEF NoSyntax
  <2>4. [s EXCEPT !.name = name]
          = [name |-> name, states |-> b, start |-> None, lists |-> e, defined |-> e,
             heredoc |-> f, merges |-> z]
    BY <2>3
  <2> QED
    BY <2>1, <2>2, <2>4
<1>3. ProgressSound(S, [NoSyntax EXCEPT !.name = name], None)
  <2> DEFINE s == [NoSyntax EXCEPT !.name = name]
  <2> HIDE DEF s
  <2>1. s = [name |-> name, states |-> <<>>, start |-> None, lists |-> {}, defined |-> {},
             heredoc |-> FALSE, merges |-> 0]
    BY <1>2 DEF s
  <2>2. ProgressSound(S, s, None)
    BY <1>1, <2>1
  <2> QED
    BY <2>2 DEF s
<1>4. ProgressSound(S, NoSyntax, None)
  <2>1. NoSyntax = [name |-> "", states |-> <<>>, start |-> None, lists |-> {}, defined |-> {},
                    heredoc |-> FALSE, merges |-> 0]
    BY DEF NoSyntax
  <2> QED
    BY <1>1, <2>1
<1> QED
  BY <1>3, <1>4

\* finish_syntax: all of its states were defined and closed, so they have
\* default actions.
LEMMA RegisteredIsUsable ==
  ASSUME SynInv, Begun => Finishes(syn)
  PROVE  /\ AreUsable(Registered) /\ DOMAIN syntaxes \subseteq DOMAIN Registered
         /\ Begun => DOMAIN Registered = DOMAIN syntaxes \cup {syn.syntax.name}
<1>1. CASE ~Begun
  BY <1>1 DEF Registered, SynInv
<1>2. CASE Begun
  <2> DEFINE s == syn.syntax
             S == DOMAIN syntaxes
             T == S \cup {s.name}
             f == Registered
  <2>1. Finishes(syn) /\ s.name \notin S
    BY <1>2 DEF Finishes
  <2>2. ProgressSound(S, s, None)
    BY <2>1, ClosedIsSound DEF Finishes
  <2>3. f = Over([n \in {s.name} |-> s], syntaxes)
    BY <1>2 DEF Registered
  <2>4. f = [n \in T |-> IF n \in {s.name} THEN s ELSE syntaxes[n]]
    BY <2>3 DEF Over
  <2> HIDE DEF f, s, S
  <2>5. DOMAIN f = T /\ f[s.name] = s /\ f = [n \in DOMAIN f |-> f[n]]
        /\ \A n \in S : f[n] = syntaxes[n]
    BY <2>1, <2>4
  <2>6. \A n \in DOMAIN s.states : s.states[n].type # "invalid"
    BY <2>1, <2>2 DEF ProgressSound, ClosedBut, Finishes, s
  <2>7. Usable(T, s)
    BY <2>1, <2>2, <2>6, SyntaxStaysSound DEF Usable, ProgressSound, Finishes, s
  <2>8. ASSUME NEW n \in S PROVE f[n].name = n /\ Usable(T, f[n])
    <3>1. syntaxes[n].name = n /\ Usable(S, syntaxes[n])
      BY DEF SynInv, AreUsable, S
    <3>2. Usable(T, syntaxes[n])
      BY <3>1, SyntaxStaysSound DEF Usable
    <3> QED
      BY <2>5, <3>1, <3>2
  <2>9. AreUsable(f)
    BY <2>5, <2>7, <2>8 DEF AreUsable
  <2> QED
    BY <2>5, <2>9 DEF f, s, S
<1> QED
  BY <1>1, <1>2

\* A condition is added to the list of a state.
LEMMA ConditionIsAdded ==
  ASSUME NEW s, NEW cs, ConditionsLead(s, cs), NEW c, IsCondition(c),
         c.kind = "recolor" \/ Leads(s, c.dest)
  PROVE  ConditionsLead(s, Append(cs, c))
<1>1. PICK n \in Nat :
        /\ cs = [i \in 1..n |-> cs[i]]
        /\ \A i \in 1..n : IsCondition(cs[i]) /\ (cs[i].kind = "recolor" \/ Leads(s, cs[i].dest))
  BY DEF ConditionsLead
<1> DEFINE a == Append(cs, c)
           C == {cs[i] : i \in 1..n} \cup {c}
<1>2. cs \in Seq(C) /\ Len(cs) = n /\ c \in C
  BY <1>1
<1>3. a = [i \in 1..(n + 1) |-> a[i]] /\ a[n + 1] = c /\ \A i \in 1..n : a[i] = cs[i]
  <2> HIDE DEF C
  <2>1. a \in Seq(C) /\ Len(a) = n + 1 /\ a[n + 1] = c /\ \A i \in 1..n : a[i] = cs[i]
    BY <1>2
  <2>2. DOMAIN a = 1..(n + 1) /\ a = [i \in DOMAIN a |-> a[i]]
    <3> HIDE DEF a
    <3> QED
      BY <2>1
  <2> QED
    BY <2>1, <2>2
<1> HIDE DEF a
<1>4. ASSUME NEW i \in 1..(n + 1)
      PROVE  IsCondition(a[i]) /\ (a[i].kind = "recolor" \/ Leads(s, a[i].dest))
  <2>1. i \in 1..n \/ i = n + 1
    OBVIOUS
  <2> QED
    BY <1>1, <1>3, <2>1
<1>5. n + 1 \in Nat
  OBVIOUS
<1>6. ConditionsLead(s, a)
  <2>1. PICK m \in Nat : m = n + 1
    BY <1>5
  <2>2. a = [i \in 1..m |-> a[i]]
        /\ \A i \in 1..m : IsCondition(a[i]) /\ (a[i].kind = "recolor" \/ Leads(s, a[i].dest))
    BY <1>3, <1>4, <2>1
  <2> QED
    BY <2>2 DEF ConditionsLead
<1> QED
  BY <1>6 DEF a

-----------------------------------------------------------------------------
(* The steps *)

LEMMA SyntaxStep == ASSUME SynInv, Syntax PROVE SynInv'
<1>1. Begun => Finishes(syn)
  BY DEF Syntax, Continue, Accepted, Is
<1>2. syntaxes' = Registered /\ syn' = [syntax |-> [NoSyntax EXCEPT !.name = Cmd.name], state |-> None]
  BY DEF Syntax
<1>3. AreUsable(syntaxes')
  BY <1>1, <1>2, RegisteredIsUsable
<1>4. syn' = [syntax |-> syn'.syntax, state |-> syn'.state] /\ syn'.state = None
      /\ syn'.syntax = [NoSyntax EXCEPT !.name = Cmd.name]
  BY <1>2
<1>5. ProgressSound(DOMAIN syntaxes', syn'.syntax, syn'.state)
  BY <1>4, EmptyIsSound
<1> QED
  BY <1>3, <1>4, <1>5 DEF SynInv

LEMMA StateStep == ASSUME SynInv, State PROVE SynInv' /\ syn'.syntax.name = syn.syntax.name
<1> DEFINE S == DOMAIN syntaxes
           name == <<Cmd.name>>
           t == FindOrAdd(syn.syntax, name)
           st == [t.states[name] EXCEPT !.defined = TRUE]
           u == [t EXCEPT !.states = [t.states EXCEPT ![name] = st]]
<1>1. Closes(syn)
  BY DEF State, Continue, Accepted, Is
<1>2. syn' = [syntax |-> [t EXCEPT !.states[name].defined = TRUE], state |-> name] /\ syntaxes' = syntaxes
  BY DEF State
<1>3. ProgressSound(S, t, None) /\ Has(t, name) /\ t.name = syn.syntax.name
  BY <1>1, ClosedIsSound, OneNameIsSequence, FindOrAddIsSound
<1>4. name # None
  BY OneNameIsSequence
<1> HIDE DEF t, name, S
<1>5. syn' = [syntax |-> u, state |-> name]
  BY <1>2
<1>6. t = [name |-> t.name, states |-> t.states, start |-> t.start, lists |-> t.lists,
           defined |-> t.defined, heredoc |-> t.heredoc, merges |-> t.merges]
      /\ t.states = [n \in DOMAIN t.states |-> t.states[n]]
  BY <1>3 DEF ProgressSound, SyntaxSound, IsSyntax
<1>7. StateSound(S, t, t.states[name]) /\ t.states[name].heredocs = {}
  BY <1>3 DEF ProgressSound, SyntaxSound, Has, Plain
<1>8. StateSound(S, t, st) /\ st.heredocs = {}
  <2> DEFINE o == t.states[name]
  <2>1. o = [defined |-> o.defined, type |-> o.type, conds |-> o.conds, dest |-> o.dest,
             sub |-> o.sub, heredocs |-> o.heredocs]
    BY <1>7 DEF StateSound, IsState
  <2>2. st = [o EXCEPT !.defined = TRUE]
    OBVIOUS
  <2> HIDE DEF st, o
  <2>3. st = [defined |-> TRUE, type |-> o.type, conds |-> o.conds, dest |-> o.dest,
              sub |-> o.sub, heredocs |-> o.heredocs]
    BY <2>1, <2>2
  <2>4. IsState(st) /\ st.type = o.type /\ st.conds = o.conds /\ st.dest = o.dest
        /\ st.sub = o.sub /\ st.heredocs = o.heredocs
    BY <2>3 DEF IsState
  <2>5. StateSound(S, t, o) /\ o.heredocs = {}
    BY <1>7 DEF o
  <2> QED
    BY <2>4, <2>5 DEF StateSound
<1> HIDE DEF st
<1>9. u = [name |-> t.name, states |-> [t.states EXCEPT ![name] = st], start |-> t.start,
           lists |-> t.lists, defined |-> t.defined, heredoc |-> t.heredoc, merges |-> t.merges]
  BY <1>6
<1> HIDE DEF u
<1>10. Becomes(t, u, name, st)
  <2>1. u.states = [t.states EXCEPT ![name] = st] /\ u.name = t.name /\ u.start = t.start
        /\ u = [name |-> u.name, states |-> u.states, start |-> u.start, lists |-> u.lists,
                defined |-> u.defined, heredoc |-> u.heredoc, merges |-> u.merges]
    BY <1>9
  <2>2. u.states = [n \in DOMAIN u.states |-> u.states[n]]
    BY <2>1, <1>6
  <2> QED
    BY <1>3, <2>1, <2>2 DEF Becomes, IsSyntax, Has
<1>11. ProgressSound(S, u, name)
  BY <1>3, <1>4, <1>8, <1>10, BecomesProgress
<1>12. syn' = [syntax |-> syn'.syntax, state |-> syn'.state] /\ syn'.state = name /\ syn'.syntax = u
  BY <1>5
<1> QED
  BY <1>2, <1>3, <1>10, <1>11, <1>12 DEF SynInv, S, Becomes

\* add_condition: the condition is added to the current state.
LEMMA ConditionStep == ASSUME SynInv, Condition PROVE SynInv' /\ syn'.syntax.name = syn.syntax.name
<1> DEFINE S == DOMAIN syntaxes
           x == syn.state
           d == IF Cmd.cmd = "recolor" THEN [syntax |-> syn.syntax, dest |-> None]
                ELSE Destination(Cmd.dest)
           c == [kind |-> Cmd.cmd, dest |-> d.dest]
           t == d.syntax
           lists == IF Cmd.cmd = "inlist" THEN t.lists \union {Cmd.name} ELSE t.lists
           heredoc == t.heredoc \/ Cmd.cmd = "heredocend"
           st == [t.states[x] EXCEPT !.conds = Append(@, c)]
           u == [t EXCEPT !.states = [t.states EXCEPT ![x] = st], !.lists = lists, !.heredoc = heredoc]
<1>1. InState /\ (Cmd.cmd # "recolor" => HasDestination(Cmd.dest))
  <2>1. Cmd.cmd \in {"char", "inlist", "heredocend", "recolor"} /\ Accepted
    BY DEF Condition, Continue
  <2> QED
    BY <2>1 DEF Accepted
<1>2. syn' = [syn EXCEPT !.syntax = [t EXCEPT !.states[x].conds = Append(@, c),
                !.lists = IF Cmd.cmd = "inlist" THEN @ \union {Cmd.name} ELSE @,
                !.heredoc = @ \/ Cmd.cmd = "heredocend"]]
      /\ syntaxes' = syntaxes
  BY DEF Condition
<1>3. /\ ProgressSound(S, t, x) /\ x # None /\ t.name = syn.syntax.name
      /\ Cmd.cmd = "recolor" \/ Leads(t, d.dest)
  <2>1. ProgressSound(S, syn.syntax, x) /\ x # None
    BY <1>1 DEF SynInv, InState
  <2>2. CASE Cmd.cmd = "recolor"
    BY <2>1, <2>2
  <2>3. CASE Cmd.cmd # "recolor"
    <3>1. Reaches(Destination(Cmd.dest))
      BY <1>1, <2>3, DestinationIsSound
    <3> QED
      BY <2>1, <2>3, <3>1 DEF Reaches
  <2> QED
    BY <2>2, <2>3
<1>4. IsCondition(c) /\ (c.kind = "recolor" \/ Leads(t, c.dest))
  BY <1>3 DEF IsCondition
<1>5. t = [name |-> t.name, states |-> t.states, start |-> t.start, lists |-> t.lists,
           defined |-> t.defined, heredoc |-> t.heredoc, merges |-> t.merges]
      /\ t.states = [n \in DOMAIN t.states |-> t.states[n]] /\ x \in DOMAIN t.states
  BY <1>3 DEF ProgressSound, SyntaxSound, IsSyntax, Has
<1>6. syn = [syntax |-> syn.syntax, state |-> x]
  BY DEF SynInv
<1> HIDE DEF d, c, t, x
<1>7. syn' = [syntax |-> u, state |-> x]
  BY <1>2, <1>5, <1>6
<1>8. StateSound(S, t, t.states[x]) /\ t.states[x].heredocs = {}
  BY <1>3, <1>5 DEF ProgressSound, SyntaxSound, Plain
<1>9. StateSound(S, t, st) /\ st.heredocs = {}
  <2> DEFINE o == t.states[x]
  <2>1. o = [defined |-> o.defined, type |-> o.type, conds |-> o.conds, dest |-> o.dest,
             sub |-> o.sub, heredocs |-> o.heredocs]
    BY <1>8 DEF StateSound, IsState
  <2>2. st = [o EXCEPT !.conds = Append(@, c)]
    OBVIOUS
  <2> HIDE DEF st, o
  <2>3. st = [defined |-> o.defined, type |-> o.type, conds |-> Append(o.conds, c), dest |-> o.dest,
              sub |-> o.sub, heredocs |-> o.heredocs]
    BY <2>1, <2>2
  <2>4. IsState(st) /\ st.type = o.type /\ st.conds = Append(o.conds, c) /\ st.dest = o.dest
        /\ st.sub = o.sub /\ st.heredocs = o.heredocs
    BY <2>3 DEF IsState
  <2>5. StateSound(S, t, o) /\ o.heredocs = {}
    BY <1>8 DEF o
  <2>6. ConditionsLead(t, Append(o.conds, c))
    BY <1>4, <2>5, ConditionIsAdded DEF StateSound
  <2> QED
    BY <2>4, <2>5, <2>6 DEF StateSound
<1> HIDE DEF st, lists, heredoc
<1>10. u = [name |-> t.name, states |-> [t.states EXCEPT ![x] = st], start |-> t.start,
            lists |-> lists, defined |-> t.defined, heredoc |-> heredoc, merges |-> t.merges]
  <2> DEFINE g == [t.states EXCEPT ![x] = st]
  <2>1. u = [t EXCEPT !.states = g, !.lists = lists, !.heredoc = heredoc]
    OBVIOUS
  <2>2. PICK h : h = heredoc
    OBVIOUS
  <2> HIDE DEF u, g
  <2>3. u = [name |-> t.name, states |-> g, start |-> t.start,
             lists |-> lists, defined |-> t.defined, heredoc |-> h, merges |-> t.merges]
    BY <1>5, <2>1, <2>2
  <2> QED
    BY <2>2, <2>3 DEF g
<1> HIDE DEF u
<1>11. Becomes(t, u, x, st)
  <2>1. u.states = [t.states EXCEPT ![x] = st] /\ u.name = t.name /\ u.start = t.start
        /\ u = [name |-> u.name, states |-> u.states, start |-> u.start, lists |-> u.lists,
                defined |-> u.defined, heredoc |-> u.heredoc, merges |-> u.merges]
    BY <1>10
  <2>2. u.states = [n \in DOMAIN u.states |-> u.states[n]]
    BY <1>5, <2>1
  <2> QED
    BY <1>5, <2>1, <2>2 DEF Becomes, IsSyntax
<1>12. ProgressSound(S, u, x)
  BY <1>3, <1>9, <1>11, BecomesProgress
<1>13. syn' = [syntax |-> syn'.syntax, state |-> syn'.state] /\ syn'.state = x /\ syn'.syntax = u
  BY <1>7
<1> QED
  BY <1>2, <1>3, <1>11, <1>12, <1>13 DEF SynInv, S, Becomes

\* cmd_eat, cmd_noeat and cmd_heredocbegin: the current state gets its default
\* action.
LEMMA DefaultActionStep == ASSUME SynInv, DefaultAction PROVE SynInv' /\ syn'.syntax.name = syn.syntax.name
<1> DEFINE S == DOMAIN syntaxes
           x == syn.state
           d == Destination(Cmd.dest)
           t == d.syntax
           sub == IF Cmd.cmd = "heredocbegin" THEN Cmd.name ELSE ""
           st == [t.states[x] EXCEPT !.type = Cmd.cmd, !.dest = d.dest, !.sub = sub]
           u == [t EXCEPT !.states = [t.states EXCEPT ![x] = st]]
<1>1. InState /\ HasDestination(Cmd.dest) /\ Cmd.cmd \in {"eat", "noeat", "heredocbegin"}
      /\ (Cmd.cmd = "heredocbegin" => Subsyntax(Cmd.name))
  <2>1. Cmd.cmd \in {"eat", "noeat", "heredocbegin"} /\ Accepted
    BY DEF DefaultAction, Continue
  <2> QED
    BY <2>1 DEF Accepted
<1>2. syn' = [syntax |-> [t EXCEPT !.states[x] = [@ EXCEPT !.type = Cmd.cmd, !.dest = d.dest, !.sub = sub]],
              state |-> None]
      /\ syntaxes' = syntaxes
  BY DEF DefaultAction
<1>3. ProgressSound(S, t, x) /\ x # None /\ Leads(t, d.dest) /\ t.name = syn.syntax.name
  <2>1. Reaches(Destination(Cmd.dest))
    BY <1>1, DestinationIsSound
  <2> QED
    BY <1>1, <2>1 DEF Reaches, InState
<1>4. sub = "" \/ (sub \in S /\ IsSub(sub))
  BY <1>1 DEF Subsyntax
<1>5. t = [name |-> t.name, states |-> t.states, start |-> t.start, lists |-> t.lists,
           defined |-> t.defined, heredoc |-> t.heredoc, merges |-> t.merges]
      /\ t.states = [n \in DOMAIN t.states |-> t.states[n]] /\ x \in DOMAIN t.states
  BY <1>3 DEF ProgressSound, SyntaxSound, IsSyntax, Has
<1>6. Cmd.cmd = "heredocbegin" => sub \in S /\ IsSub(sub)
  BY <1>1 DEF Subsyntax
<1>7. PICK kind \in {"eat", "noeat", "heredocbegin"} : kind = Cmd.cmd
  BY <1>1
<1> HIDE DEF d, t, x, sub
<1>8. StateSound(S, t, t.states[x]) /\ t.states[x].heredocs = {}
  BY <1>3, <1>5 DEF ProgressSound, SyntaxSound, Plain
<1>9. t.states[x] = [defined |-> t.states[x].defined, type |-> t.states[x].type,
                     conds |-> t.states[x].conds, dest |-> t.states[x].dest,
                     sub |-> t.states[x].sub, heredocs |-> t.states[x].heredocs]
  BY <1>8 DEF StateSound, IsState
<1>10. syn' = [syntax |-> u, state |-> None]
  BY <1>2, <1>5, <1>9
<1>11. StateSound(S, t, st) /\ st.heredocs = {} /\ st.type # "invalid"
  <2> DEFINE o == t.states[x]
  <2>1. st = [o EXCEPT !.type = kind, !.dest = d.dest, !.sub = sub]
    BY <1>7
  <2> HIDE DEF st, o
  <2>2. st = [defined |-> o.defined, type |-> kind, conds |-> o.conds, dest |-> d.dest,
              sub |-> sub, heredocs |-> o.heredocs]
    BY <1>9, <2>1 DEF o
  <2>3. IsState(st) /\ st.type = kind /\ st.conds = o.conds /\ st.dest = d.dest
        /\ st.sub = sub /\ st.heredocs = o.heredocs
    BY <2>2 DEF IsState
  <2>4. StateSound(S, t, o) /\ o.heredocs = {}
    BY <1>8 DEF o
  <2> QED
    BY <1>3, <1>6, <1>7, <2>3, <2>4 DEF StateSound
<1> HIDE DEF st
<1>12. u = [name |-> t.name, states |-> [t.states EXCEPT ![x] = st], start |-> t.start,
            lists |-> t.lists, defined |-> t.defined, heredoc |-> t.heredoc, merges |-> t.merges]
  BY <1>5
<1> HIDE DEF u
<1>13. Becomes(t, u, x, st)
  <2>1. u.states = [t.states EXCEPT ![x] = st] /\ u.name = t.name /\ u.start = t.start
        /\ u = [name |-> u.name, states |-> u.states, start |-> u.start, lists |-> u.lists,
                defined |-> u.defined, heredoc |-> u.heredoc, merges |-> u.merges]
    BY <1>12
  <2>2. u.states = [n \in DOMAIN u.states |-> u.states[n]]
    BY <1>5, <2>1
  <2> QED
    BY <1>5, <2>1, <2>2 DEF Becomes, IsSyntax
<1>14. ProgressSound(S, u, None)
  BY <1>3, <1>11, <1>13, BecomesProgress
<1>15. syn' = [syntax |-> syn'.syntax, state |-> syn'.state] /\ syn'.state = None /\ syn'.syntax = u
  BY <1>10
<1> QED
  BY <1>2, <1>3, <1>13, <1>14, <1>15 DEF SynInv, S, Becomes

\* cmd_list: the current state is closed.
LEMMA ListStep == ASSUME SynInv, List PROVE SynInv' /\ syn'.syntax.name = syn.syntax.name
<1> DEFINE S == DOMAIN syntaxes
           s == syn.syntax
           u == [s EXCEPT !.defined = @ \union {Cmd.name}]
<1>1. Closes(syn)
  BY DEF List, Continue, Accepted, Is
<1>2. syn = [syntax |-> s, state |-> syn.state] /\ ProgressSound(S, s, None)
  BY <1>1, ClosedIsSound DEF SynInv
<1>3. syn' = [syn EXCEPT !.syntax.defined = @ \union {Cmd.name}, !.state = None] /\ syntaxes' = syntaxes
  BY DEF List
<1>4. s = [name |-> s.name, states |-> s.states, start |-> s.start, lists |-> s.lists,
           defined |-> s.defined, heredoc |-> s.heredoc, merges |-> s.merges]
  BY <1>2 DEF ProgressSound, SyntaxSound, IsSyntax
<1>5. syn' = [syntax |-> u, state |-> None]
  <2>1. syn' = [syn EXCEPT !.syntax = [s EXCEPT !.defined = @ \union {Cmd.name}], !.state = None]
    BY <1>2, <1>3, <1>4
  <2> HIDE DEF u, s
  <2>2. syn' = [syn EXCEPT !.syntax = u, !.state = None]
    BY <2>1 DEF u
  <2> QED
    BY <1>2, <2>2
<1> HIDE DEF s
<1>6. u = [name |-> s.name, states |-> s.states, start |-> s.start, lists |-> s.lists,
           defined |-> s.defined \union {Cmd.name}, heredoc |-> s.heredoc, merges |-> s.merges]
  BY <1>4
<1> HIDE DEF u
<1>7. IsSyntax(u) /\ u.states = s.states /\ u.name = s.name /\ u.start = s.start
  BY <1>2, <1>6 DEF IsSyntax, ProgressSound, SyntaxSound
<1>8. SyntaxSound(S, u)
  <2>1. \A n \in DOMAIN u.states : IsSequence(n) /\ StateSound(S, u, u.states[n])
    BY <1>2, <1>7, StateStaysSound DEF ProgressSound, SyntaxSound
  <2> QED
    BY <1>2, <1>7, <2>1 DEF ProgressSound, SyntaxSound, Has
<1>9. ProgressSound(S, u, None)
  BY <1>2, <1>7, <1>8 DEF ProgressSound, Plain, ClosedBut
<1>10. syn' = [syntax |-> syn'.syntax, state |-> syn'.state] /\ syn'.state = None /\ syn'.syntax = u
  BY <1>5
<1> QED
  BY <1>3, <1>7, <1>9, <1>10 DEF SynInv, S, s

\* handle_heredoc: a copy of the sub-syntax is merged into a syntax that is in
\* use, and the state it was merged for gets its start.
LEMMA HeredocStep == ASSUME SynInv, Heredoc PROVE SynInv' /\ DOMAIN syntaxes' = DOMAIN syntaxes
<1>1. PICK name \in DOMAIN syntaxes \ SubSyntaxNames :
      \E n \in DOMAIN syntaxes[name].states, d \in Delims :
        /\ syntaxes[name].states[n].type = "heredocbegin"
        /\ syntaxes' = [syntaxes EXCEPT ![name] =
             [MergeSyntax(syntaxes[name], syntaxes[syntaxes[name].states[n].sub],
                          syntaxes[name].states[n].dest) EXCEPT
                !.states[n].heredocs =
                  @ \union {<<d, MergedStart(syntaxes[name], syntaxes[syntaxes[name].states[n].sub])>>}]]
        /\ UNCHANGED syn
  BY DEF Heredoc
<1> DEFINE S == DOMAIN syntaxes
           s == syntaxes[name]
<1>2. PICK n \in DOMAIN s.states, d \in Delims :
        /\ s.states[n].type = "heredocbegin"
        /\ syntaxes' = [syntaxes EXCEPT ![name] =
             [MergeSyntax(s, syntaxes[s.states[n].sub], s.states[n].dest) EXCEPT
                !.states[n].heredocs = @ \union {<<d, MergedStart(s, syntaxes[s.states[n].sub])>>}]]
        /\ UNCHANGED syn
  BY <1>1
<1> DEFINE st == s.states[n]
           sub == syntaxes[st.sub]
           t == MergeSyntax(s, sub, st.dest)
           v == t.states[n]
           begin == <<d, MergedStart(s, sub)>>
           w == [v EXCEPT !.heredocs = @ \union {begin}]
           u == [t EXCEPT !.states = [t.states EXCEPT ![n] = w]]
<1>3. syntaxes' = [syntaxes EXCEPT ![name] = [t EXCEPT !.states[n].heredocs = @ \union {begin}]]
  BY <1>2
<1>4. s.name = name /\ Usable(S, s) /\ ~IsSub(s.name)
  BY <1>1 DEF SynInv, AreUsable, IsSub
<1>5. Leads(s, st.dest) /\ st.sub \in S /\ IsSub(st.sub)
  BY <1>2, <1>4 DEF Usable, SyntaxSound, StateSound
<1>6. Usable(S, sub) /\ Plain(sub)
  BY <1>5 DEF SynInv, AreUsable, Usable
<1> HIDE DEF s, sub
<1>7. MergeSound(S, s, sub, st.dest)
  <2> HIDE DEF st
  <2> QED
    BY <1>4, <1>5, <1>6, MergeIsSound DEF Usable
<1>8. SyntaxSound(S, t) /\ t.name = s.name /\ n \in DOMAIN t.states /\ Has(t, MergedStart(s, sub))
      /\ \A m \in DOMAIN t.states : t.states[m].type # "invalid"
  BY <1>2, <1>4, <1>7 DEF MergeSound, Usable
<1> HIDE DEF st, t
<1>9. t = [name |-> t.name, states |-> t.states, start |-> t.start, lists |-> t.lists,
           defined |-> t.defined, heredoc |-> t.heredoc, merges |-> t.merges]
      /\ t.states = [m \in DOMAIN t.states |-> t.states[m]]
  BY <1>8 DEF SyntaxSound, IsSyntax
<1>10. StateSound(S, t, v)
  BY <1>8 DEF SyntaxSound
<1>11. begin[2] = MergedStart(s, sub)
  OBVIOUS
<1> HIDE DEF begin
<1>12. syntaxes' = [syntaxes EXCEPT ![name] = u]
  BY <1>3, <1>9
<1>13. StateSound(S, t, w) /\ w.type = v.type
  <2> HIDE DEF v
  <2>1. v = [defined |-> v.defined, type |-> v.type, conds |-> v.conds, dest |-> v.dest,
             sub |-> v.sub, heredocs |-> v.heredocs]
    BY <1>10 DEF StateSound, IsState
  <2>2. w = [defined |-> v.defined, type |-> v.type, conds |-> v.conds, dest |-> v.dest,
             sub |-> v.sub, heredocs |-> v.heredocs \union {begin}]
    BY <2>1
  <2> HIDE DEF w
  <2>3. IsState(w) /\ w.type = v.type /\ w.conds = v.conds /\ w.dest = v.dest
        /\ w.sub = v.sub /\ w.heredocs = v.heredocs \union {begin}
    BY <2>2 DEF IsState
  <2> QED
    BY <1>8, <1>10, <1>11, <2>3 DEF StateSound
<1> HIDE DEF w
<1>14. u = [name |-> t.name, states |-> [t.states EXCEPT ![n] = w], start |-> t.start,
            lists |-> t.lists, defined |-> t.defined, heredoc |-> t.heredoc, merges |-> t.merges]
  BY <1>9
<1> HIDE DEF u
<1>15. u.states = [t.states EXCEPT ![n] = w] /\ u.name = t.name /\ u.start = t.start
       /\ u = [name |-> u.name, states |-> u.states, start |-> u.start, lists |-> u.lists,
               defined |-> u.defined, heredoc |-> u.heredoc, merges |-> u.merges]
  BY <1>14
<1>16. Becomes(t, u, n, w)
  <2>1. u.states = [m \in DOMAIN u.states |-> u.states[m]]
    BY <1>9, <1>15
  <2> QED
    BY <1>8, <1>15, <2>1 DEF Becomes, IsSyntax
<1>17. SyntaxSound(S, u)
  BY <1>8, <1>13, <1>16, BecomesSound
<1>18. Usable(S, u) /\ u.name = name
  <2>1. \A m \in DOMAIN u.states : u.states[m].type # "invalid"
    BY <1>8, <1>9, <1>13, <1>15
  <2>2. n \in DOMAIN u.states /\ DOMAIN <<>> = {}
    BY <1>8, <1>9, <1>15
  <2>3. u.states # <<>>
    BY <2>2
  <2> QED
    BY <1>4, <1>8, <1>15, <1>17, <2>1, <2>3 DEF Usable
<1>19. syntaxes = [m \in DOMAIN syntaxes |-> syntaxes[m]]
       /\ \A m \in S : syntaxes[m].name = m /\ Usable(S, syntaxes[m])
  BY DEF SynInv, AreUsable
<1>20. DOMAIN syntaxes' = S /\ syntaxes' = [m \in DOMAIN syntaxes' |-> syntaxes'[m]]
       /\ \A m \in S : syntaxes'[m] = IF m = name THEN u ELSE syntaxes[m]
  <2> HIDE DEF v
  <2> QED
    BY <1>1, <1>12, <1>19
<1>21. AreUsable(syntaxes')
  BY <1>18, <1>19, <1>20 DEF AreUsable
<1> QED
  BY <1>2, <1>20, <1>21 DEF SynInv, S

\* A load begins, ends or fails; no syntax is being read.
LEMMA LoadStep ==
  ASSUME SynInv,
         \/ Load \/ Finish \/ Fail
         \/ Read \/ Include \/ RequiredBefore \/ EndOfFile
  PROVE  SynInv'
<1>1. ASSUME AreUsable(syntaxes'), syn' = Nothing PROVE SynInv'
  <2>1. syn' = [syntax |-> syn'.syntax, state |-> syn'.state] /\ syn'.state = None
        /\ syn'.syntax = NoSyntax
    BY <1>1 DEF Nothing
  <2>2. ProgressSound(DOMAIN syntaxes', NoSyntax, None)
    BY EmptyIsSound
  <2> QED
    BY <1>1, <2>1, <2>2 DEF SynInv
<1>2. CASE Load
  BY <1>1, <1>2 DEF Load, SynInv
<1>3. CASE Finish
  BY <1>1, <1>3, RegisteredIsUsable DEF Finish, Stopped
<1>4. CASE Fail
  BY <1>1, <1>4 DEF Fail, Stopped, SynInv
<1>5. CASE Read \/ Include \/ RequiredBefore \/ EndOfFile
  <2>1. syntaxes' = syntaxes /\ syn' = syn
    BY <1>5 DEF Read, Include, RequiredBefore, EndOfFile
  <2> QED
    BY <2>1 DEF SynInv
<1> QED
  BY <1>2, <1>3, <1>4, <1>5

-----------------------------------------------------------------------------
(* What is required is registered *)

SyntaxesIn(commands) ==
  {commands[i].name : i \in {i \in DOMAIN commands : commands[i].cmd = "syntax"}}

Files == {Included[f] : f \in DOMAIN Included} \cup Chunks
Commands == UNION {{commands[i] : i \in DOMAIN commands} : commands \in Files}
Frame == [file : SyntaxNames \cup DOMAIN Included, rest : Seq(Commands), require : BOOLEAN]

\* The syntaxes of an included file are registered, or one of them is the
\* current one, or their commands are still to be read.
FrameSound(S, name, frame) ==
  /\ frame.file \in DOMAIN Included
  /\ DefinedIn(frame.file) \subseteq S \cup {name} \cup SyntaxesIn(frame.rest)

FramesSound(frames, S, name) ==
  /\ frames \in Seq(Frame)
  /\ \A i \in 2..Len(frames) : FrameSound(S, name, frames[i])

RequiredInv ==
  /\ FramesSound(stack, DOMAIN syntaxes, syn.syntax.name)
  /\ stack = <<>> => syn = Nothing
  /\ required \subseteq DOMAIN Included
  /\ loads = [n |-> loads.n, failed |-> loads.failed]
  /\ RequiredIsRegistered

LEMMA FilesAreCommands ==
  /\ \A commands \in Files : commands \in Seq(Commands)
  /\ \A c \in Commands : c.cmd = "syntax" => c.name # ""
<1>1. ASSUME NEW commands \in Files PROVE commands \in Seq(Commands)
  <2> DEFINE C == {commands[i] : i \in DOMAIN commands}
  <2>1. commands \in Seq(C)
    BY SyntaxAssumption DEF Files
  <2>2. C \subseteq Commands
    BY DEF Commands
  <2> HIDE DEF C
  <2> QED
    BY <2>1, <2>2
<1>2. ASSUME NEW c \in Commands, c.cmd = "syntax" PROVE c.name # ""
  <2>1. PICK commands \in Files : \E i \in DOMAIN commands : c = commands[i]
    BY DEF Commands
  <2> QED
    BY <1>2, <2>1, SyntaxAssumption DEF Files
<1> QED
  BY <1>1, <1>2

LEMMA DefinedAreNamed ==
  ASSUME NEW file \in DOMAIN Included
  PROVE  /\ DefinedIn(file) = SyntaxesIn(Included[file]) /\ "" \notin DefinedIn(file)
         /\ Included[file] \in Seq(Commands)
<1>1. Included[file] \in Files
  BY DEF Files
<1>2. \A i \in DOMAIN Included[file] : Included[file][i] \in Commands
  BY <1>1 DEF Commands
<1>3. DefinedIn(file) = SyntaxesIn(Included[file])
  BY DEF DefinedIn, SyntaxesIn
<1> QED
  BY <1>1, <1>2, <1>3, FilesAreCommands DEF SyntaxesIn

\* A frame stays sound while the syntaxes that it needs are there.
LEMMA FrameStaysSound ==
  ASSUME NEW S, NEW T, NEW x, NEW y, S \subseteq T, x \in T \cup {y, ""},
         NEW frame, FrameSound(S, x, frame)
  PROVE  FrameSound(T, y, frame)
BY DefinedAreNamed DEF FrameSound

\* Sequences: their first elements, and their last one
LEMMA FirstAndRest ==
  ASSUME NEW C, NEW q \in Seq(C), q # <<>>
  PROVE  /\ Tail(q) \in Seq(C)
         /\ \A i \in DOMAIN q : i # 1 => (i - 1 \in DOMAIN Tail(q) /\ Tail(q)[i - 1] = q[i])
<1>1. DOMAIN q = 1..Len(q) /\ Len(q) \in Nat /\ Len(q) > 0
  OBVIOUS
<1>2. Tail(q) \in Seq(C) /\ DOMAIN Tail(q) = 1..(Len(q) - 1)
      /\ \A j \in 1..(Len(q) - 1) : Tail(q)[j] = q[j + 1]
  BY <1>1
<1>3. ASSUME NEW i \in DOMAIN q, i # 1
      PROVE  i - 1 \in DOMAIN Tail(q) /\ Tail(q)[i - 1] = q[i]
  <2>1. i \in 1..Len(q) /\ i > 1
    BY <1>1, <1>3
  <2> QED
    BY <1>1, <1>2, <2>1
<1> QED
  BY <1>2, <1>3

LastReplaced(q, r, x) ==
  /\ Len(r) = Len(q) /\ r[Len(q)] = x /\ Len(r) # 0
  /\ \A i \in 1..Len(q) : i # Len(q) => r[i] = q[i]
  /\ \A i \in 2..Len(q) : i \in 1..Len(q)

LEMMA ReplaceLast ==
  ASSUME NEW F, NEW q \in Seq(F), q # <<>>
  PROVE  /\ q[Len(q)] \in F
         /\ \A x \in F : /\ Append(SubSeq(q, 1, Len(q) - 1), x) \in Seq(F)
                         /\ LastReplaced(q, Append(SubSeq(q, 1, Len(q) - 1), x), x)
<1> DEFINE n == Len(q)
           p == SubSeq(q, 1, n - 1)
<1>1. n \in Nat /\ n > 0 /\ q[n] \in F
  OBVIOUS
<1>2. p \in Seq(F) /\ Len(p) = n - 1 /\ \A i \in 1..(n - 1) : p[i] = q[i]
  <2>1. 1 \in Int /\ n - 1 \in Int /\ \A i \in 1..(n - 1) : q[i] \in F
    BY <1>1
  <2>2. /\ p \in Seq(F)
        /\ Len(p) = IF 1 <= n - 1 THEN n - 1 - 1 + 1 ELSE 0
        /\ \A i \in 1..(n - 1 - 1 + 1) : p[i] = q[1 + i - 1]
    BY <2>1, SubSeqProperties
  <2> HIDE DEF n, p
  <2>3. Len(p) = n - 1
    BY <1>1, <2>2
  <2>4. \A i \in 1..(n - 1) : i \in 1..(n - 1 - 1 + 1) /\ 1 + i - 1 = i
    BY <1>1
  <2> QED
    BY <2>2, <2>3, <2>4
<1> HIDE DEF p
<1> SUFFICES ASSUME NEW x \in F PROVE Append(p, x) \in Seq(F) /\ LastReplaced(q, Append(p, x), x)
  BY <1>1 DEF p
<1>3. /\ Append(p, x) \in Seq(F) /\ Len(Append(p, x)) = n /\ Append(p, x)[n] = x
      /\ \A i \in 1..(n - 1) : Append(p, x)[i] = q[i]
  BY <1>1, <1>2
<1>4. n # 0 /\ \A i \in 1..n : i # n => i \in 1..(n - 1)
  BY <1>1
<1> QED
  BY <1>1, <1>3, <1>4 DEF LastReplaced

\* The command at the top is done.
LEMMA AdvancedIsSound ==
  ASSUME RequiredInv, Reading, NEW T, NEW y, DOMAIN syntaxes \subseteq T,
         syn.syntax.name \in T \cup {y, ""}, Cmd.cmd = "syntax" => Cmd.name \in T \cup {y}
  PROVE  FramesSound(Advanced, T, y) /\ Len(Advanced) # 0
<1> DEFINE n == Len(stack)
           new == [Top EXCEPT !.rest = Tail(@)]
<1>1. stack \in Seq(Frame) /\ stack # <<>>
      /\ \A i \in 2..n : FrameSound(DOMAIN syntaxes, syn.syntax.name, stack[i])
  BY DEF RequiredInv, FramesSound, Reading
<1>2. Top \in Frame /\ Top = stack[n]
  BY <1>1, ReplaceLast DEF Top
<1>3. Top.rest \in Seq(Commands) /\ Top.rest # <<>>
  BY <1>2 DEF Frame, Reading
<1>4. new \in Frame /\ new.file = Top.file /\ new.rest = Tail(Top.rest)
  <2>1. Tail(Top.rest) \in Seq(Commands)
    BY <1>3, FirstAndRest
  <2> QED
    BY <1>2, <2>1 DEF Frame
<1>5. SyntaxesIn(Top.rest) \subseteq SyntaxesIn(Tail(Top.rest)) \cup
        (IF Cmd.cmd = "syntax" THEN {Cmd.name} ELSE {})
  <2> DEFINE rest == Top.rest
  <2> HIDE DEF rest
  <2>1. rest \in Seq(Commands) /\ rest # <<>> /\ Cmd = rest[1]
    BY <1>3 DEF rest, Cmd
  <2>2. ASSUME NEW i \in DOMAIN rest, i # 1
        PROVE  i - 1 \in DOMAIN Tail(rest) /\ Tail(rest)[i - 1] = rest[i]
    BY <2>1, <2>2, FirstAndRest
  <2>3. ASSUME NEW i \in DOMAIN rest, rest[i].cmd = "syntax", i # 1
        PROVE  rest[i].name \in SyntaxesIn(Tail(rest))
    BY <2>2, <2>3 DEF SyntaxesIn
  <2> QED
    BY <2>1, <2>3 DEF SyntaxesIn, rest
<1> HIDE DEF new, n
<1>6. n = Len(stack)
  BY DEF n
<1>7. Advanced \in Seq(Frame) /\ LastReplaced(stack, Advanced, new)
  BY <1>1, <1>4, ReplaceLast DEF Advanced, Popped, new
<1>8. ASSUME NEW i \in 2..n PROVE FrameSound(T, y, Advanced[i])
  <2>1. FrameSound(DOMAIN syntaxes, syn.syntax.name, stack[i])
    BY <1>1, <1>6
  <2>2. FrameSound(T, y, stack[i])
    BY <2>1, FrameStaysSound
  <2>3. CASE i # n
    <3>1. i \in 1..n
      BY <1>6, <1>7 DEF LastReplaced
    <3>2. Advanced[i] = stack[i]
      BY <1>6, <1>7, <2>3, <3>1 DEF LastReplaced
    <3> QED
      BY <2>2, <3>2
  <2>4. CASE i = n
    <3>1. FrameSound(T, y, Top)
      BY <1>2, <2>2, <2>4
    <3> QED
      BY <1>4, <1>5, <1>6, <1>7, <2>4, <3>1 DEF FrameSound, LastReplaced
  <2> QED
    BY <2>3, <2>4
<1>9. Len(Advanced) = n /\ Len(Advanced) # 0
  BY <1>6, <1>7 DEF LastReplaced
<1> QED
  BY <1>7, <1>8, <1>9 DEF FramesSound

\* What is required stays registered.
LEMMA RequiredStays ==
  ASSUME RequiredInv, DOMAIN syntaxes \subseteq DOMAIN syntaxes',
         syn.syntax.name \in DOMAIN syntaxes' \cup {syn'.syntax.name, ""},
         UNCHANGED <<required, loads>>
  PROVE  RequiredIsRegistered'
<1>1. \A file \in required :
        loads.failed \/ DefinedIn(file) \subseteq DOMAIN syntaxes \cup {syn.syntax.name}
  BY DEF RequiredInv, RequiredIsRegistered
<1>2. \A file \in required : "" \notin DefinedIn(file)
  BY DefinedAreNamed DEF RequiredInv
<1> QED
  BY <1>1, <1>2 DEF RequiredIsRegistered, DefinedIn

\* The commands of a file
LEMMA CommandStep ==
  ASSUME RequiredInv, Reading, Continue, DOMAIN syntaxes \subseteq DOMAIN syntaxes',
         syn.syntax.name \in DOMAIN syntaxes' \cup {syn'.syntax.name, ""},
         Cmd.cmd = "syntax" => Cmd.name = syn'.syntax.name
  PROVE  RequiredInv'
<1> DEFINE T == DOMAIN syntaxes'
           y == syn'.syntax.name
<1>1. stack' = Advanced /\ UNCHANGED <<required, loads>>
  BY DEF Continue
<1>2. FramesSound(Advanced, T, y) /\ Len(Advanced) # 0
  BY AdvancedIsSound
<1>3. FramesSound(stack', T, y)
  BY <1>1, <1>2
<1>4. stack' # <<>>
  <2>1. Len(<<>>) = 0
    OBVIOUS
  <2> QED
    BY <1>1, <1>2, <2>1
<1>5. RequiredIsRegistered'
  BY <1>1, RequiredStays
<1> QED
  BY <1>1, <1>3, <1>4, <1>5 DEF RequiredInv, FramesSound

\* include and require: a frame is pushed whose commands are all to be read.
LEMMA IncludeStep == ASSUME RequiredInv, Include PROVE RequiredInv'
<1> DEFINE S == DOMAIN syntaxes
           x == syn.syntax.name
           new == [file |-> Cmd.name, rest |-> Included[Cmd.name], require |-> Cmd.cmd = "require"]
<1>1. Reading /\ Cmd.cmd \in {"include", "require"} /\ Accepted
  BY DEF Include, Is
<1>2. Cmd.name \in DOMAIN Included
  BY <1>1 DEF Accepted
<1>3. stack' = Append(Advanced, new) /\ UNCHANGED <<syntaxes, required, syn, loads>>
  BY DEF Include
<1>4. FramesSound(Advanced, S, x)
  BY <1>1, AdvancedIsSound
<1>5. new \in Frame /\ FrameSound(S, x, new)
  <2>1. PICK b \in BOOLEAN : b = (Cmd.cmd = "require")
    OBVIOUS
  <2>2. new = [file |-> Cmd.name, rest |-> Included[Cmd.name], require |-> b]
    BY <2>1
  <2>3. Included[Cmd.name] \in Seq(Commands) /\ DefinedIn(Cmd.name) = SyntaxesIn(Included[Cmd.name])
    BY <1>2, DefinedAreNamed
  <2> HIDE DEF new
  <2>4. new.file = Cmd.name /\ new.rest = Included[Cmd.name] /\ new \in Frame
    BY <1>2, <2>2, <2>3 DEF Frame
  <2> QED
    BY <1>2, <2>3, <2>4 DEF FrameSound
<1> HIDE DEF new
<1>6. FramesSound(stack', S, x) /\ stack' # <<>>
  <2> DEFINE a == Advanced
             n == Len(a)
  <2>1. a \in Seq(Frame) /\ \A i \in 2..n : FrameSound(S, x, a[i])
    BY <1>4 DEF FramesSound
  <2> HIDE DEF a
  <2>2. n \in Nat /\ Append(a, new) \in Seq(Frame) /\ Len(Append(a, new)) = n + 1
        /\ Append(a, new)[n + 1] = new /\ \A i \in 1..n : Append(a, new)[i] = a[i]
    BY <1>5, <2>1
  <2>3. ASSUME NEW i \in 2..(n + 1) PROVE FrameSound(S, x, Append(a, new)[i])
    <3>1. i = n + 1 \/ (i \in 2..n /\ i \in 1..n)
      BY <2>2
    <3> QED
      BY <1>5, <2>1, <2>2, <3>1
  <2>4. Append(a, new) # <<>>
    <3>1. Len(<<>>) = 0
      OBVIOUS
    <3> QED
      BY <2>2, <3>1
  <2> QED
    BY <1>3, <2>2, <2>3, <2>4 DEF FramesSound, a
<1>7. FramesSound(stack', DOMAIN syntaxes', syn'.syntax.name)
  BY <1>3, <1>6
<1> QED
  BY <1>3, <1>6, <1>7 DEF RequiredInv, FramesSound, RequiredIsRegistered, DefinedIn

\* The end of a file: what is to be read of it is nothing.
LEMMA EndOfFileStep == ASSUME RequiredInv, EndOfFile PROVE RequiredInv'
<1> DEFINE S == DOMAIN syntaxes
           x == syn.syntax.name
           n == Len(stack)
<1>1. n > 1 /\ Top.rest = <<>> /\ stack' = Popped /\ UNCHANGED <<syntaxes, syn, loads>>
      /\ required' = IF Top.require THEN required \union {Top.file} ELSE required
  BY DEF EndOfFile
<1>2. stack \in Seq(Frame) /\ \A i \in 2..n : FrameSound(S, x, stack[i])
  BY DEF RequiredInv, FramesSound
<1>3. n \in Nat /\ n \in 2..n /\ n - 1 # 0
  <2>1. n \in Nat /\ n > 1
    BY <1>1, <1>2
  <2> HIDE DEF n
  <2> QED
    BY <2>1
<1>4. Top.file \in DOMAIN Included /\ DefinedIn(Top.file) \subseteq S \cup {x}
  <2>1. FrameSound(S, x, Top)
    BY <1>2, <1>3 DEF Top
  <2>2. SyntaxesIn(<<>>) = {}
    <3>1. DOMAIN <<>> = {}
      OBVIOUS
    <3> QED
      BY <3>1 DEF SyntaxesIn
  <2> QED
    BY <1>1, <2>1, <2>2 DEF FrameSound
<1>5. FramesSound(stack', S, x) /\ stack' # <<>>
  <2> DEFINE p == SubSeq(stack, 1, n - 1)
  <2>1. 1 \in Int /\ n - 1 \in Int /\ \A i \in 1..(n - 1) : stack[i] \in Frame
    BY <1>2, <1>3
  <2>2. /\ p \in Seq(Frame)
        /\ Len(p) = IF 1 <= n - 1 THEN n - 1 - 1 + 1 ELSE 0
        /\ \A i \in 1..(n - 1 - 1 + 1) : p[i] = stack[1 + i - 1]
    BY <2>1, SubSeqProperties
  <2> HIDE DEF p
  <2>3. Len(p) = n - 1 /\ \A i \in 2..(n - 1) : p[i] = stack[i] /\ i \in 2..n
    <3>1. Len(p) = n - 1
      BY <1>1, <1>3, <2>2
    <3>2. \A i \in 2..(n - 1) : i \in 1..(n - 1 - 1 + 1) /\ 1 + i - 1 = i /\ i \in 2..n
      BY <1>1, <1>3
    <3> QED
      BY <2>2, <3>1, <3>2
  <2>4. p # <<>>
    <3>1. Len(<<>>) = 0
      OBVIOUS
    <3> QED
      BY <1>3, <2>3, <3>1
  <2>5. stack' = p
    BY <1>1 DEF Popped, p
  <2>6. \A i \in 2..Len(p) : FrameSound(S, x, p[i])
    BY <1>2, <2>3
  <2> QED
    BY <2>2, <2>4, <2>5, <2>6 DEF FramesSound
<1>6. FramesSound(stack', DOMAIN syntaxes', syn'.syntax.name)
  BY <1>1, <1>5
<1>7. required' \subseteq DOMAIN Included
  BY <1>1, <1>4 DEF RequiredInv
<1>8. RequiredIsRegistered'
  <2>1. \A file \in required :
          loads.failed \/ DefinedIn(file) \subseteq S \cup {x}
    BY DEF RequiredInv, RequiredIsRegistered
  <2>2. \A file \in required' : loads.failed \/ DefinedIn(file) \subseteq S \cup {x}
    BY <1>1, <1>4, <2>1
  <2> QED
    BY <1>1, <2>2 DEF RequiredIsRegistered, DefinedIn
<1> QED
  BY <1>1, <1>5, <1>6, <1>7, <1>8 DEF RequiredInv, FramesSound

\* A load begins, goes on or ends.
LEMMA LoadKeepsRequired == ASSUME RequiredInv, SynInv, Load \/ Read \/ Finish \/ Fail PROVE RequiredInv'
<1>1. \A f \in Frame : <<f>> \in Seq(Frame) /\ <<f>> # <<>> /\ Len(<<f>>) = 1
  OBVIOUS
<1>2. ASSUME NEW f \in Frame, stack' = <<f>>
      PROVE  FramesSound(stack', DOMAIN syntaxes', syn'.syntax.name) /\ stack' # <<>>
  BY <1>1, <1>2 DEF FramesSound
<1>3. Nothing.syntax.name = ""
  BY DEF Nothing, NoSyntax
<1>4. CASE Load
  <2>1. PICK file \in SyntaxNames :
          stack' = <<[file |-> file, rest |-> <<>>, require |-> FALSE]>>
    BY <1>4 DEF Load
  <2>2. <<>> \in Seq(Commands)
    OBVIOUS
  <2>3. [file |-> file, rest |-> <<>>, require |-> FALSE] \in Frame
    BY <2>2 DEF Frame
  <2>4. FramesSound(stack', DOMAIN syntaxes', syn'.syntax.name) /\ stack' # <<>>
    BY <1>2, <2>1, <2>3
  <2>5. stack = <<>> /\ syn' = Nothing /\ loads'.failed = loads.failed
        /\ loads' = [n |-> loads'.n, failed |-> loads'.failed]
        /\ UNCHANGED <<syntaxes, required>>
    <3>1. loads' = [n |-> loads.n + 1, failed |-> loads.failed]
      BY <1>4 DEF Load, RequiredInv
    <3> QED
      BY <1>4, <3>1 DEF Load
  <2>6. syn' = syn
    BY <2>5 DEF RequiredInv
  <2> QED
    BY <2>4, <2>5, <2>6 DEF RequiredInv, FramesSound, RequiredIsRegistered, DefinedIn
<1>5. CASE Read
  <2>1. PICK chunk \in Chunks : stack' = <<[Top EXCEPT !.rest = chunk]>>
    BY <1>5 DEF Read
  <2>2. Top \in Frame
    <3>1. stack \in Seq(Frame) /\ Len(stack) = 1
      BY <1>5 DEF RequiredInv, FramesSound, Read
    <3>2. stack[1] \in Frame
      BY <3>1
    <3> QED
      BY <3>1, <3>2 DEF Top
  <2>3. chunk \in Seq(Commands)
    BY FilesAreCommands DEF Files
  <2>4. [Top EXCEPT !.rest = chunk] \in Frame
    BY <2>2, <2>3 DEF Frame
  <2>5. FramesSound(stack', DOMAIN syntaxes', syn'.syntax.name) /\ stack' # <<>>
    BY <1>2, <2>1, <2>4
  <2>6. UNCHANGED <<syntaxes, required, syn, loads>>
    BY <1>5 DEF Read
  <2> QED
    BY <2>5, <2>6 DEF RequiredInv, FramesSound, RequiredIsRegistered, DefinedIn
<1>6. ASSUME stack' = <<>>, syn' = Nothing, required' = required, RequiredIsRegistered',
             loads' = [n |-> loads'.n, failed |-> loads'.failed]
      PROVE  RequiredInv'
  <2>1. <<>> \in Seq(Frame) /\ Len(<<>>) = 0 /\ 2..0 = {}
    OBVIOUS
  <2> QED
    BY <1>6, <2>1 DEF RequiredInv, FramesSound
<1>7. CASE Finish
  <2>1. /\ Begun => Finishes(syn)
        /\ syntaxes' = Registered /\ required' = required /\ stack' = <<>> /\ syn' = Nothing
        /\ loads' = [loads EXCEPT !.failed = @ \/ Top.file \notin DOMAIN syntaxes']
    BY <1>7 DEF Finish, Stopped
  <2>2. \A file \in required :
          loads.failed \/ DefinedIn(file) \subseteq DOMAIN syntaxes \cup {syn.syntax.name}
    BY DEF RequiredInv, RequiredIsRegistered
  <2>3. \A file \in required : "" \notin DefinedIn(file)
    BY DefinedAreNamed DEF RequiredInv
  <2>4. DOMAIN syntaxes \subseteq DOMAIN syntaxes'
        /\ syn.syntax.name \in DOMAIN syntaxes' \cup {""}
    <3>1. CASE Begun
      BY <2>1, <3>1, RegisteredIsUsable
    <3>2. CASE ~Begun
      <4>1. syn.syntax.name = NoSyntax.name /\ NoSyntax.name = ""
        BY <1>3, <3>2 DEF Begun, Nothing
      <4> QED
        BY <2>1, <3>2, <4>1 DEF Registered
    <3> QED
      BY <3>1, <3>2
  <2>5. (~loads'.failed => ~loads.failed) /\ loads' = [n |-> loads'.n, failed |-> loads'.failed]
    <3>1. PICK b : b = (loads.failed \/ Top.file \notin DOMAIN syntaxes')
      OBVIOUS
    <3>2. loads' = [loads EXCEPT !.failed = b]
      BY <2>1, <3>1
    <3>3. loads' = [n |-> loads.n, failed |-> b]
      BY <3>2 DEF RequiredInv
    <3> QED
      BY <3>1, <3>3
  <2>6. RequiredIsRegistered'
    <3>1. ASSUME ~loads'.failed, NEW file \in required
          PROVE  DefinedIn(file) \subseteq DOMAIN syntaxes'
      <4>1. DefinedIn(file) \subseteq DOMAIN syntaxes \cup {syn.syntax.name}
        BY <2>2, <2>5, <3>1
      <4> QED
        BY <2>3, <2>4, <4>1
    <3> QED
      BY <2>1, <3>1 DEF RequiredIsRegistered, DefinedIn
  <2> QED
    BY <1>6, <2>1, <2>5, <2>6
<1>8. CASE Fail
  <2>1. /\ required' = required /\ stack' = <<>> /\ syn' = Nothing
        /\ loads' = [loads EXCEPT !.failed = TRUE]
    BY <1>8 DEF Fail, Stopped
  <2>2. loads'.failed /\ loads' = [n |-> loads'.n, failed |-> loads'.failed]
    <3>1. PICK b : b = TRUE
      OBVIOUS
    <3>2. loads' = [n |-> loads.n, failed |-> b]
      BY <2>1, <3>1 DEF RequiredInv
    <3> QED
      BY <3>1, <3>2
  <2> QED
    BY <1>6, <2>1, <2>2 DEF RequiredIsRegistered
<1> QED
  BY <1>4, <1>5, <1>7, <1>8

-----------------------------------------------------------------------------
(* The invariant *)

SyntaxInv == SynInv /\ RequiredInv

LEMMA SyntaxInvInit == SynInit => SyntaxInv
<1> SUFFICES ASSUME SynInit PROVE SyntaxInv
  OBVIOUS
<1>1. syntaxes = <<>> /\ required = {} /\ stack = <<>>
  BY DEF SynInit
<1>2. DOMAIN <<>> = {} /\ <<>> = [n \in DOMAIN <<>> |-> <<>>[n]]
  OBVIOUS
<1>3. AreUsable(syntaxes)
  BY <1>1, <1>2 DEF AreUsable
<1>4. syn = [syntax |-> syn.syntax, state |-> syn.state] /\ syn.state = None /\ syn.syntax = NoSyntax
  BY DEF SynInit, Nothing
<1>5. SynInv
  BY <1>3, <1>4, EmptyIsSound DEF SynInv
<1>6. <<>> \in Seq(Frame) /\ Len(<<>>) = 0 /\ 2..0 = {}
  OBVIOUS
<1>7. loads = [n |-> loads.n, failed |-> loads.failed]
  BY DEF SynInit
<1>8. syn = Nothing
  BY DEF SynInit
<1>9. RequiredInv
  BY <1>1, <1>6, <1>7, <1>8 DEF RequiredInv, FramesSound, RequiredIsRegistered
<1> QED
  BY <1>5, <1>9 DEF SyntaxInv

LEMMA SyntaxInvNext == SyntaxInv /\ [SynNext]_synVars => SyntaxInv'
<1> SUFFICES ASSUME SynInv, RequiredInv, [SynNext]_synVars PROVE SynInv' /\ RequiredInv'
  BY DEF SyntaxInv
<1>1. CASE Load \/ Read \/ Finish \/ Fail
  BY <1>1, LoadStep, LoadKeepsRequired
<1>2. CASE Include
  BY <1>2, LoadStep, IncludeStep
<1>3. CASE EndOfFile
  BY <1>3, LoadStep, EndOfFileStep
<1>4. CASE Heredoc
  <2>1. UNCHANGED <<required, syn, stack, loads>>
    BY <1>4 DEF Heredoc
  <2>2. SynInv' /\ DOMAIN syntaxes' = DOMAIN syntaxes
    BY <1>4, HeredocStep
  <2>3. RequiredInv'
    BY <2>1, <2>2 DEF RequiredInv, FramesSound, FrameSound, RequiredIsRegistered, DefinedIn
  <2> QED
    BY <2>2, <2>3
<1>5. CASE Syntax
  <2>1. Reading /\ Continue /\ Cmd.cmd = "syntax" /\ syntaxes' = Registered
        /\ syn' = [syntax |-> [NoSyntax EXCEPT !.name = Cmd.name], state |-> None]
    BY <1>5 DEF Syntax, Is
  <2>2. Begun => Finishes(syn)
    BY <2>1 DEF Continue, Accepted
  <2>3. syn'.syntax.name = Cmd.name
    <3>1. "name" \in DOMAIN NoSyntax
      BY DEF NoSyntax
    <3>2. [NoSyntax EXCEPT !.name = Cmd.name].name = Cmd.name
      BY <3>1
    <3> QED
      BY <2>1, <3>2
  <2>4. DOMAIN syntaxes \subseteq DOMAIN syntaxes'
        /\ syn.syntax.name \in DOMAIN syntaxes' \cup {syn'.syntax.name, ""}
    <3>1. CASE Begun
      BY <2>1, <2>2, <3>1, RegisteredIsUsable
    <3>2. CASE ~Begun
      <4>1. NoSyntax.name = ""
        BY DEF NoSyntax
      <4> QED
        BY <2>1, <3>2, <4>1 DEF Registered, Begun
    <3> QED
      BY <3>1, <3>2
  <2>5. RequiredInv'
    BY <2>1, <2>3, <2>4, CommandStep
  <2> QED
    BY <1>5, <2>5, SyntaxStep
<1>6. CASE State \/ Condition \/ DefaultAction \/ List \/ RequiredBefore
  <2>1. SynInv' /\ syn'.syntax.name = syn.syntax.name
    <3>1. CASE RequiredBefore
      BY <3>1, LoadStep DEF RequiredBefore
    <3> QED
      BY <1>6, <3>1, StateStep, ConditionStep, DefaultActionStep, ListStep
  <2>2. syntaxes' = syntaxes
    BY <1>6 DEF State, Condition, DefaultAction, List, RequiredBefore
  <2>3. Reading /\ Continue /\ Cmd.cmd # "syntax"
    <3>1. CASE State
      BY <3>1 DEF State, Is
    <3>2. CASE Condition
      BY <3>2 DEF Condition
    <3>3. CASE DefaultAction
      BY <3>3 DEF DefaultAction
    <3>4. CASE List
      BY <3>4 DEF List, Is
    <3>5. CASE RequiredBefore
      BY <3>5 DEF RequiredBefore, Is
    <3> QED
      BY <1>6, <3>1, <3>2, <3>3, <3>4, <3>5
  <2>4. RequiredInv'
    BY <2>1, <2>2, <2>3, CommandStep
  <2> QED
    BY <2>1, <2>4
<1>7. CASE UNCHANGED synVars
  <2>1. UNCHANGED <<syntaxes, syn>>
    BY <1>7 DEF synVars
  <2>2. UNCHANGED <<required, stack, loads>>
    BY <1>7 DEF synVars
  <2>3. SynInv'
    BY <2>1 DEF SynInv
  <2>4. RequiredInv'
    BY <2>1, <2>2 DEF RequiredInv, FramesSound, FrameSound, RequiredIsRegistered, DefinedIn
  <2> QED
    BY <2>3, <2>4
<1> QED
  BY <1>1, <1>2, <1>3, <1>4, <1>5, <1>6, <1>7 DEF SynNext

LEMMA SyntaxInvGivesUsable == SyntaxInv => SyntaxesAreUsable
<1> SUFFICES ASSUME SyntaxInv PROVE SyntaxesAreUsable
  OBVIOUS
<1>1. ASSUME NEW name \in DOMAIN syntaxes \ SubSyntaxNames
      PROVE  Complete(syntaxes[name]) /\ Has(syntaxes[name], syntaxes[name].start)
  <2> DEFINE s == syntaxes[name]
  <2>1. Usable(DOMAIN syntaxes, s) /\ ~IsSub(s.name)
    BY DEF SyntaxInv, SynInv, AreUsable, IsSub
  <2> HIDE DEF s
  <2>2. ASSUME NEW n \in DOMAIN s.states
        PROVE  /\ s.states[n].type # "invalid" /\ Has(s, s.states[n].dest)
               /\ \A i \in DOMAIN s.states[n].conds :
                    s.states[n].conds[i].kind = "recolor" \/ Has(s, s.states[n].conds[i].dest)
               /\ s.states[n].type = "heredocbegin" => Subsyntax(s.states[n].sub)
               /\ \A h \in s.states[n].heredocs : Has(s, h[2])
    <3>1. StateSound(DOMAIN syntaxes, s, s.states[n]) /\ s.states[n].type # "invalid"
      BY <2>1 DEF Usable, SyntaxSound
    <3>2. PICK k \in Nat :
            /\ s.states[n].conds = [i \in 1..k |-> s.states[n].conds[i]]
            /\ \A i \in 1..k : \/ s.states[n].conds[i].kind = "recolor"
                               \/ Leads(s, s.states[n].conds[i].dest)
      BY <3>1 DEF StateSound, ConditionsLead
    <3>3. DOMAIN s.states[n].conds = 1..k
      BY <3>2
    <3> QED
      BY <2>1, <3>1, <3>2, <3>3 DEF StateSound, Leads, Subsyntax
  <2>3. Has(s, s.start)
    BY <2>1 DEF Usable, SyntaxSound
  <2> QED
    BY <2>2, <2>3 DEF Complete, s
<1> QED
  BY <1>1 DEF SyntaxesAreUsable, SyntaxesAreComplete, SyntaxInv, RequiredInv

\* Whatever was loaded before, in however many files, with calls of sub-syntaxes
\* inside of calls, heredocs merged while text is highlighted and loads that
\* failed half way: the states of every syntax that can be used for a buffer
\* have default actions and lead to states of that syntax, and as long as no
\* load failed, the syntaxes of a file that was required are there.
THEOREM SyntaxesAreUsableAlways == SynSpec => []SyntaxesAreUsable
BY SyntaxInvInit, SyntaxInvNext, SyntaxInvGivesUsable, PTL DEF SynSpec
=============================================================================
