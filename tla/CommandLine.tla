---------------------------- MODULE CommandLine -----------------------------
(***************************************************************************)
(* The command line (cmdline.c) in command and search mode: editing,       *)
(* walking through the history and completing (completion.c).              *)
(*                                                                         *)
(* The line keeps two things beside its text that are only good for this   *)
(* text: search_pos, an entry of the history, and the completion that is   *)
(* under way, which holds the line as it was when it began.                *)
(***************************************************************************)
EXTENDS HistoryLists, SequencesExt

CONSTANTS
  Chars,     \* characters that are typed; " " ends a word
  Words,     \* what can be completed, in order
  Clip,      \* the text of the clipboard, and of a paste
  MaxLine,   \* length of a line
  Careless   \* the line is pasted to or cleared while a completion is under way

\* All of them are sequences of characters, and what is pasted may be searched
\* for.
ASSUME LineAssumption ==
  /\ Words \in Seq(ToSet(Words))
  /\ \A t \in Texts \cup {Clip} \cup ToSet(Words) : t \in Seq(ToSet(t))
  /\ Clip \in Texts \cup {<<>>}

VARIABLES
  inputMode,  \* EditorState::mode: "normal", "command" or "search"
  line,       \* CommandLine::buf and pos
  searched,   \* CommandLine::search_pos and, while it is set, search_text
  comp,       \* CommandLine::completion
  histories   \* EditorState::command_history and search_history

lineVars == <<inputMode, line, searched, comp, histories>>

NoSearch == [pos |-> NULL, text |-> <<>>]
NoCompletion == [orig |-> NoText, head |-> <<>>, tail |-> <<>>, list |-> <<>>, idx |-> 0]
Completing == comp # NoCompletion

Line(t, p) == [buf |-> t, pos |-> p]
Ahead == SubSeq(line.buf, 1, line.pos)
Behind == SubSeq(line.buf, line.pos + 1, Len(line.buf))
Fits(t) == Len(t) <= MaxLine

LineInit ==
  /\ inputMode = "normal" /\ line = Line(<<>>, 0) /\ searched = NoSearch
  /\ comp = NoCompletion /\ histories = [m \in {"command", "search"} |-> EmptyHistory]

-----------------------------------------------------------------------------
(* Editing *)

Editing == inputMode # "normal"

\* The line changes, and cmdline_soft_reset follows.
Change(l) ==
  /\ Editing /\ Fits(l.buf)
  /\ line' = l /\ searched' = NoSearch /\ comp' = NoCompletion
  /\ UNCHANGED <<inputMode, histories>>

\* The line changes, and only search_pos is reset.
ChangeOnly(l) ==
  /\ Editing /\ Fits(l.buf)
  /\ Completing => Careless
  /\ line' = l /\ searched' = NoSearch
  /\ UNCHANGED <<inputMode, comp, histories>>

\* handle_input_single resets the completion in command mode; in search mode
\* there is none.
TypeChar(c) == Change(Line(Ahead \o <<c>> \o Behind, line.pos + 1))

Bol == Change(Line(line.buf, 0))
Eol == Change(Line(line.buf, Len(line.buf)))
Left == Change(Line(line.buf, IF line.pos = 0 THEN 0 ELSE line.pos - 1))
Right == Change(Line(line.buf, IF Behind = <<>> THEN line.pos ELSE line.pos + 1))
DeleteEol == Change(Line(Ahead, line.pos))
EraseBol == Change(Line(Behind, 0))
Cut(from, to) == SubSeq(line.buf, 1, from) \o SubSeq(line.buf, to + 1, Len(line.buf))
DeleteChar == Change(Line(Cut(line.pos, IF Behind = <<>> THEN line.pos ELSE line.pos + 1), line.pos))
Erase == IF line.pos = 0 THEN Change(line) ELSE Change(Line(Cut(line.pos - 1, line.pos), line.pos - 1))

IsWord(i) == i \in DOMAIN line.buf /\ line.buf[i] # " "

\* The end of the word at the cursor, and the blanks behind it: the first
\* place after the cursor where a word begins
NextWord ==
  LET ends == {i \in line.pos..Len(line.buf) :
                 \/ i = Len(line.buf)
                 \/ IsWord(i + 1) /\ i > line.pos /\ ~IsWord(i)}
  IN CHOOSE i \in ends : \A j \in ends : i <= j

\* Where the word before the cursor begins
PrevWord ==
  LET starts == {i \in 0..line.pos : IsWord(i + 1) /\ ~IsWord(i) /\ i < line.pos}
  IN IF starts = {} THEN 0 ELSE CHOOSE i \in starts : \A j \in starts : i >= j

WordFwd == Change(Line(line.buf, NextWord))
\* One blank before the first word is passed too.
WordBwd == Change(Line(line.buf, IF PrevWord = 1 THEN 0 ELSE PrevWord))
EraseWord == line.pos > 0 /\ Change(Line(Cut(PrevWord, line.pos), PrevWord))
DeleteWord == line.pos < Len(line.buf) /\ Change(Line(Cut(line.pos, NextWord), line.pos))

\* The command "paste"; newlines become blanks.
PasteCommand(moves) ==
  Change(Line(Ahead \o Clip \o Behind, IF moves THEN line.pos + Len(Clip) ELSE line.pos))

\* The command "insert", and insert_paste for a paste of the terminal
InsertCommand(moves) ==
  ChangeOnly(Line(Ahead \o Clip \o Behind, IF moves THEN line.pos + Len(Clip) ELSE line.pos))
InsertPaste == ChangeOnly(Line(Ahead \o Clip \o Behind, line.pos + Len(Clip)))

\* Variant with a bug: the entry of the history stays.
CmdlineClearKeeps == line' = Line(<<>>, 0) /\ UNCHANGED searched

CmdlineClear == line' = Line(<<>>, 0) /\ searched' = NoSearch

Clear ==
  /\ Editing /\ (Completing => Careless)
  /\ CmdlineClear /\ UNCHANGED <<inputMode, comp, histories>>

-----------------------------------------------------------------------------
(* The history *)

\* do_history_prev
HistoryPrev(prefix_search) ==
  LET text == IF searched.pos = NULL THEN line.buf ELSE searched.text
      h == histories[inputMode]
      n == SearchForward(h, searched.pos, IF prefix_search THEN text ELSE <<>>)
  IN /\ Editing /\ comp' = NoCompletion
     /\ IF n = NULL THEN UNCHANGED <<line, searched>>
        ELSE /\ searched' = [pos |-> n, text |-> text]
             /\ line' = Line(h.text[n], Len(h.text[n]))
     /\ UNCHANGED <<inputMode, histories>>

\* do_history_next; behind the newest entry is the text that was typed.
HistoryNext(prefix_search) ==
  LET h == histories[inputMode]
      n == SearchBackward(h, searched.pos, IF prefix_search THEN searched.text ELSE <<>>)
      text == IF n = NULL THEN searched.text ELSE h.text[n]
  IN /\ Editing /\ comp' = NoCompletion
     /\ IF searched.pos = NULL THEN UNCHANGED <<line, searched>>
        ELSE /\ searched' = IF n = NULL THEN NoSearch ELSE [searched EXCEPT !.pos = n]
             /\ line' = Line(text, Len(text))
     /\ UNCHANGED <<inputMode, histories>>

-----------------------------------------------------------------------------
(* Completion *)

\* What begins with this word, in order
Candidates(word) ==
  LET Collect(list, w) == IF HasPrefix(w, word) THEN Append(list, w) ELSE list
  IN FoldLeft(Collect, <<>>, Words)

\* init_completion: the word that ends at the cursor is completed.
Begun ==
  LET starts == {i \in 0..line.pos : \A j \in (i + 1)..line.pos : IsWord(j)}
      from == CHOOSE i \in starts : \A j \in starts : i <= j
  IN [orig |-> line.buf, head |-> SubSeq(line.buf, 1, from), tail |-> Behind,
      list |-> Candidates(SubSeq(line.buf, from + 1, line.pos)), idx |-> 1]

\* do_complete_command; a single candidate gets a blank and ends it.
Completed(c) ==
  LET middle == c.list[c.idx] \o (IF Len(c.list) = 1 THEN <<" ">> ELSE <<>>)
  IN Line(c.head \o middle \o c.tail, Len(c.head) + Len(middle))

\* complete_command_next (1) and complete_command_prev (-1)
Complete(step) ==
  LET n == Len(comp.list)
      c == IF ~Completing THEN Begun
           ELSE [comp EXCEPT !.idx = IF n = 0 THEN @ ELSE ((@ - 1 + step + n) % n) + 1]
  IN /\ inputMode = "command"
     /\ IF c.list = <<>> THEN comp' = c /\ UNCHANGED <<line, searched>>
        ELSE /\ Fits(Completed(c).buf)
             /\ line' = Completed(c) /\ searched' = NoSearch
             /\ comp' = IF Len(c.list) = 1 THEN NoCompletion ELSE c
     /\ UNCHANGED <<inputMode, histories>>

-----------------------------------------------------------------------------
(* Entering and leaving the modes *)

\* The commands "command", with or without a text, and "search"
EnterCommand(text) ==
  /\ inputMode = "normal" /\ inputMode' = "command"
  /\ line' = IF text = NoText THEN line ELSE Line(text, Len(text))
  /\ UNCHANGED <<searched, comp, histories>>

EnterSearch ==
  /\ inputMode = "normal" /\ inputMode' = "search"
  /\ UNCHANGED <<line, searched, comp, histories>>

Cancel ==
  /\ Editing /\ CmdlineClear /\ comp' = NoCompletion /\ inputMode' = "normal"
  /\ UNCHANGED histories

\* Texts bounds what gets into the histories.
Remember(mode, add) ==
  /\ add => line.buf \in Texts \cup {<<>>}
  /\ histories' = IF add THEN [histories EXCEPT ![mode] = HistoryAppend(@, line.buf)] ELSE histories

\* cmd_command_mode_accept; what the command does is left out.
AcceptCommand(flagH) ==
  /\ inputMode = "command" /\ comp' = NoCompletion /\ inputMode' = "normal"
  /\ CmdlineClear
  /\ Remember("command", ~flagH /\ (line.buf = <<>> \/ line.buf[1] # " "))

AcceptSearch(flagH) ==
  /\ inputMode = "search" /\ inputMode' = "normal"
  /\ CmdlineClear
  /\ Remember("search", ~flagH) /\ UNCHANGED comp

\* Commands that run in normal mode add to the history of searches too.
SearchCommand(t) ==
  /\ inputMode = "normal"
  /\ histories' = [histories EXCEPT !["search"] = HistoryAppend(@, t)]
  /\ UNCHANGED <<inputMode, line, searched, comp>>

LineNext ==
  \/ \E c \in Chars : TypeChar(c)
  \/ Bol \/ Eol \/ Left \/ Right \/ DeleteEol \/ EraseBol \/ DeleteChar \/ Erase
  \/ WordFwd \/ WordBwd \/ EraseWord \/ DeleteWord
  \/ \E moves \in BOOLEAN : PasteCommand(moves) \/ InsertCommand(moves)
  \/ InsertPaste \/ Clear
  \/ \E prefix_search \in BOOLEAN : HistoryPrev(prefix_search) \/ HistoryNext(prefix_search)
  \/ \E step \in {-1, 1} : Complete(step)
  \/ \E text \in {NoText, Clip} : EnterCommand(text)
  \/ EnterSearch \/ Cancel
  \/ \E flagH \in BOOLEAN : AcceptCommand(flagH) \/ AcceptSearch(flagH)
  \/ SearchCommand(Clip)

LineSpec == LineInit /\ [][LineNext]_lineVars

-----------------------------------------------------------------------------
SearchIsLive ==
  LET h == histories[inputMode]
  IN searched.pos # NULL =>
       /\ Editing /\ searched.pos \in {Forward(h)[i] : i \in DOMAIN Forward(h)}
       /\ line = Line(h.text[searched.pos], Len(h.text[searched.pos]))

CompletionIsFresh ==
  Completing => IF comp.list = <<>> THEN line.buf = comp.orig ELSE line = Completed(comp)

\* What the command line keeps about its text is about the text it has: the
\* entry of the history it stands on is in the history and is what the line
\* shows, so that no step of the history starts from an entry that was used
\* again for another text; a completion under way goes on from the line that
\* it made, so that it takes back nothing that was entered since; and the
\* cursor is in the line (cmdline_soft_reset and its callers).
LineIsTracked ==
  /\ line.pos \in 0..Len(line.buf)
  /\ SearchIsLive /\ CompletionIsFresh
  /\ \A m \in {"command", "search"} : ListIsMap(histories[m])
=============================================================================
