------------------------------ MODULE Editing ------------------------------
(***************************************************************************)
(* The commands that edit the text of a view and move its cursor           *)
(* (src/insert.c, delete.c, indent.c, join.c, wrap.c, copy.c, case.c,      *)
(* replace.c, selection.c, move.c and their handlers in src/commands.c),   *)
(* on one flat text.  The cursor and the start of the selection are        *)
(* offsets in it that every command has to keep on a character.            *)
(*                                                                         *)
(* "done" is the last command, "was" the text before it.                   *)
(***************************************************************************)
EXTENDS EditedText

CONSTANTS
  EditTexts,   \* texts a buffer is loaded with
  OptionSets,  \* options that are tried
  Typed,       \* what is typed, one character each
  Inserts,     \* what the insert command is given
  WrapWidths,  \* of wrap-paragraph
  Clips,       \* what is in the clipboard at first
  KeptColumns, \* columns a view keeps from earlier moves
  MaxText,     \* bound: bytes in a text
  MaxSteps,    \* bound: commands given
  Followed,    \* bound: the commands after which another one is given
  Careful      \* nothing is deleted before the start of a selection, and no
               \* replacement made in one, but by commands that end it

VARIABLES text, cursor, selection, sel_so, select_mode, preferred_x,
          clipboard, options, done, was, steps
selVars == <<selection, sel_so, select_mode>>
editVars == <<text, cursor, selVars, preferred_x, clipboard, options, done, was, steps>>

Command(c) ==
  /\ steps < MaxSteps
  /\ steps > 0 => done \in Followed
  /\ steps' = steps + 1
  /\ done' = c
  /\ was' = text
  /\ UNCHANGED options

-----------------------------------------------------------------------------
(* The selection *)

\* init_selection, for a selection of kind s
SelInfo(s) ==
  LET lo == Min({sel_so, cursor})
      hi == Max({sel_so, cursor})
      last == IF hi = Len(text) THEN PrevChar(text, hi) ELSE hi
  IN  CASE lo = Len(text) -> [so |-> lo, eo |-> lo]
        [] lo < Len(text) /\ s = "lines" -> [so |-> Bol(text, lo), eo |-> EatLine(text, last)]
        [] OTHER -> [so |-> lo, eo |-> IF options.select_cursor_char
                                       THEN NextColumn(text, last) ELSE last]
Swapped == sel_so > cursor

Selecting == selection # "none"
Unselect == selection' = "none" /\ select_mode' = "none" /\ sel_so' = 0
KeepSelection == UNCHANGED selVars

\* view_set_selection_type
SetSelection(s) ==
  /\ selection' = s
  /\ sel_so' = CASE s = "none" -> 0
                 [] s # "none" /\ Selecting -> sel_so
                 [] OTHER -> cursor

Stronger(s, r) == IF "lines" \in {s, r} THEN "lines"
                  ELSE IF "chars" \in {s, r} THEN "chars" ELSE "none"

\* handle_selection_flags
HandleFlags(s) ==
  /\ SetSelection(Stronger(s, select_mode))
  /\ UNCHANGED select_mode

Select(type, keep) ==
  LET s == IF ~keep /\ selection = type THEN "none" ELSE type
  IN  /\ Command("select")
      /\ SetSelection(s) /\ select_mode' = s
      /\ UNCHANGED <<text, cursor, preferred_x, clipboard>>

UnselectCommand ==
  Command("unselect") /\ Unselect /\ UNCHANGED <<text, cursor, preferred_x, clipboard>>

\* select_block: the block that begins at or above the cursor's line begins at
\* the nearest line that opens one more than is closed from there.
SelectBlockIn(lines, bare, cy) ==
  LET Opens(k) == HasOpeningBrace(bare[k])
      Closes(k) == HasClosingBrace(bare[k])
      Level(from, to) == Cardinality({k \in from..to : Opens(k)})
                           - Cardinality({k \in from..to : Closes(k)})
      from == IF cy > 1 /\ Closes(cy) /\ ~Opens(cy) THEN cy - 1 ELSE cy
      begins == {k \in 1..from : Opens(k) /\ Level(k + 1, from) = 0}
      begin == Max(begins)
      inner == IF begin = Len(lines) THEN {begin} ELSE begin + 1..Len(lines)
      ends == {k \in inner : Closes(k) /\ Level(begin + 1, k - 1) = 0}
      Start(k) == Len(FlattenSeq(SubSeq(lines, 1, k - 1)))
  IN  IF begins = {} \/ ends = {} THEN UNCHANGED <<cursor, selVars>>
      ELSE /\ cursor' = Start(begin)
           /\ sel_so' = Start(Min(ends))
           /\ selection' = "lines"
           /\ UNCHANGED select_mode

SelectBlock ==
  LET lines == LinesOf(text)
      bare == [k \in 1..Len(lines) + 1 |->   \* with the line at the end of the text
                 IF k <= Len(lines) THEN Front(lines[k]) ELSE <<>>]
  IN  /\ Command("select_block")
      /\ SelectBlockIn(lines, bare, Newlines(SubSeq(text, 1, cursor)) + 1)
      /\ UNCHANGED <<text, preferred_x, clipboard>>

-----------------------------------------------------------------------------
(* Moves *)

\* view_get_preferred_x
PreferredX == IF preferred_x < 0 THEN Column(options, text, cursor) ELSE preferred_x

\* A move forgets the column, one to another line keeps it.
MoveTo(flag, p) ==
  /\ Command("move")
  /\ HandleFlags(flag)
  /\ cursor' = p
  /\ preferred_x' = -1
  /\ UNCHANGED <<text, clipboard>>
MoveToLine(flag, p) ==
  /\ Command("move")
  /\ HandleFlags(flag)
  /\ cursor' = ToColumn(options, text, p, PreferredX)
  /\ preferred_x' = PreferredX
  /\ UNCHANGED <<text, clipboard>>

LeftBytes == IF options.emulate_tab THEN BytesLeft(options, text, cursor) ELSE 0
RightBytes == IF options.emulate_tab THEN BytesRight(options, text, cursor) ELSE 0

Left(flag) == MoveTo(flag, IF LeftBytes > 0 THEN cursor - LeftBytes
                           ELSE PrevColumn(text, cursor))
Right(flag) == MoveTo(flag, IF RightBytes > 0 THEN cursor + RightBytes
                            ELSE NextColumn(text, cursor))
Up(flag) == MoveToLine(flag, IF HasPrevLine(text, cursor) THEN PrevLine(text, cursor)
                             ELSE cursor)
Down(flag) == MoveToLine(flag, EatLine(text, cursor))

\* move_bol, with the types of cmd_bol
MoveBol(flag, type) ==
  LET bol == Bol(text, cursor)
      first == bol + BlankPrefix(LineFrom(text, bol))
  IN  MoveTo(flag, CASE type = "simple" -> bol
                     [] type # "simple" /\ cursor = bol ->
                          IF type = "indent" THEN bol ELSE first
                     [] OTHER -> IF cursor > first /\ type # "toggle_lr"
                                 THEN first ELSE bol)
MoveEol(flag) == MoveTo(flag, Eol(text, cursor))
MoveBof(flag) == MoveTo(flag, 0)
MoveEof(flag) == MoveTo(flag, Len(text))
MoveWordFwd(flag, skip) == MoveTo(flag, WordFwd(text, cursor, skip))
MoveWordBwd(flag, skip) == MoveTo(flag, WordBwd(text, cursor, skip))
MatchBracket(flag) ==
  /\ \E p \in Matching(text, cursor) :
       cursor' = p /\ Command("move") /\ HandleFlags(flag)
  /\ UNCHANGED <<text, preferred_x, clipboard>>

\* do_search_next for a pattern that is one character; the match at the cursor
\* is passed over, and the search goes on at the other end.
Search(reverse, b) ==
  LET found == {p \in 0..Len(text) - 1 : text[p + 1] = b}
      ahead == {p \in found : IF reverse THEN p < cursor ELSE p > cursor}
      Nearest(ps) == IF reverse THEN Max(ps) ELSE Min(ps)
  IN  /\ found # {}
      /\ Command("move")
      /\ cursor' = Nearest(IF ahead # {} THEN ahead ELSE found)
      /\ preferred_x' = -1
      /\ UNCHANGED <<text, selVars, clipboard>>

-----------------------------------------------------------------------------
(* Edits *)

\* What every edit leaves: a text, a cursor in it, no preferred column
Leave(t, p) ==
  /\ Len(t) <= MaxText
  /\ text' = t /\ cursor' = p /\ preferred_x' = -1

\* prepare_selection: where an edit begins, and what it deletes
Selected == SelInfo(selection)
SelectedBytes == Selected.eo - Selected.so

\* Commands that know nothing of selections keep the start of one where it was.
Heedless(p) == Selecting /\ Careful => sel_so <= p

\* delete_ch and erase
Delete ==
  LET size == IF RightBytes > 0 THEN RightBytes ELSE NextColumn(text, cursor) - cursor
  IN  IF Selecting
      THEN Leave(Deleted(text, Selected.so, SelectedBytes), Selected.so) /\ Unselect
      ELSE Leave(Deleted(text, cursor, size), cursor) /\ KeepSelection
Erase ==
  LET p == IF LeftBytes > 0 THEN cursor - LeftBytes ELSE PrevChar(text, cursor)
  IN  IF Selecting
      THEN Leave(Deleted(text, Selected.so, SelectedBytes), Selected.so) /\ Unselect
      ELSE Leave(Deleted(text, p, cursor - p), p) /\ KeepSelection

DeleteCommand == Command("delete") /\ Delete /\ UNCHANGED clipboard
EraseCommand == Command("delete") /\ Erase /\ UNCHANGED clipboard

DeleteEol(newline) ==
  /\ Command("delete")
  /\ ~Selecting
  /\ IF newline /\ CharAt(text, cursor) = NL THEN Delete
     ELSE Leave(Deleted(text, cursor, Eol(text, cursor) - cursor), cursor) /\ KeepSelection
  /\ UNCHANGED clipboard

DeleteWord(skip) ==
  /\ Command("delete")
  /\ Heedless(cursor)
  /\ Leave(Deleted(text, cursor, WordFwd(text, cursor, skip) - cursor), cursor)
  /\ UNCHANGED <<selVars, clipboard>>

\* cmd_erase_word and cmd_erase_bol: back to p
EraseTo(p) ==
  /\ Command("delete")
  /\ Heedless(p)
  /\ Leave(Deleted(text, p, cursor - p), p)
  /\ UNCHANGED <<selVars, clipboard>>
EraseWord(skip) == EraseTo(WordBwd(text, cursor, skip))
EraseBol == EraseTo(Bol(text, cursor))

\* The lines cmd_cut, cmd_copy and cmd_delete_line are about without a selection
ThisLine == [so |-> Bol(text, cursor), eo |-> EatLine(text, cursor)]

\* Deletes a region, and keeps the column if it was one of lines.
DeleteRegion(r, lines) ==
  LET t == Deleted(text, r.so, r.eo - r.so)
  IN  IF ~lines THEN Leave(t, r.so)
      ELSE /\ text' = t
           /\ cursor' = ToColumn(options, t, r.so, PreferredX)
           /\ preferred_x' = PreferredX

DeleteLine(partly) ==
  LET whole == ~Selecting \/ ~partly
      r == CASE ~Selecting -> ThisLine
             [] Selecting /\ whole -> SelInfo("lines")
             [] OTHER -> Selected
  IN  /\ Command("delete")
      /\ DeleteRegion(r, whole)
      /\ IF Selecting THEN Unselect ELSE KeepSelection
      /\ UNCHANGED clipboard

\* Variant with a bug: from the cursor on.
RegionOn ==
  IF Selecting THEN Selected ELSE [so |-> cursor, eo |-> EatLine(text, cursor)]

\* What cmd_cut and cmd_copy are about
Region == IF Selecting THEN Selected ELSE ThisLine

Clip(bytes, lines) == [bytes |-> bytes, is_lines |-> lines]
Recorded ==
  clipboard' = Clip(Slice(text, Region.so, Region.eo - Region.so), selection # "chars")

Cut ==
  /\ Command(IF Region.so = Region.eo THEN "move" ELSE "cut")
  /\ IF Region.so = Region.eo
     THEN /\ cursor' = Region.so /\ preferred_x' = PreferredX
          /\ UNCHANGED <<text, clipboard>>
     ELSE DeleteRegion(Region, selection # "chars") /\ Recorded
  /\ IF Selecting THEN Unselect ELSE KeepSelection

Copy(keep) ==
  /\ Command("copy")
  /\ IF Region.so = Region.eo
     THEN UNCHANGED <<clipboard, selVars>>
     ELSE Recorded /\ IF keep \/ ~Selecting THEN KeepSelection ELSE Unselect
  /\ UNCHANGED <<text, cursor, preferred_x>>

\* Where an insertion goes, and how much the selection gives way to it.
InsertPoint == IF Selecting THEN Selected.so ELSE cursor
GivesWay == IF Selecting THEN SelectedBytes ELSE 0
EndSelection == IF Selecting THEN Unselect ELSE KeepSelection

\* insert_text
InsertText(s, after) ==
  /\ Leave(Replaced(text, InsertPoint, GivesWay, s),
           InsertPoint + IF after THEN Len(s) ELSE 0)
  /\ EndSelection
Insert(s, after) == Command("insert") /\ InsertText(s, after) /\ UNCHANGED clipboard

PasteLines(type, after, at, del, x) ==
  LET bytes == clipboard.bytes
      p == CASE del > 0 -> at
             [] del = 0 /\ type = "below" -> EatLine(text, at)
             [] OTHER -> Bol(text, at)
      t == Replaced(text, p, del, bytes)
  IN  /\ Leave(t, IF after THEN p + Len(bytes) ELSE ToColumn(options, t, p, x))
      /\ EndSelection

Paste(type, after) ==
  LET bytes == clipboard.bytes
      at == InsertPoint
  IN  /\ bytes # <<>>
      /\ IF ~clipboard.is_lines \/ type = "inline" THEN InsertText(bytes, after)
         ELSE PasteLines(type, after, at, GivesWay,
                         IF preferred_x < 0 THEN Column(options, text, at) ELSE preferred_x)
      /\ Command(IF clipboard.is_lines /\ type # "above" THEN "paste_lines" ELSE "paste_back")
      /\ UNCHANGED clipboard

-----------------------------------------------------------------------------
(* New lines *)

\* The indentation that the line at the offset in ref, if there is one, asks for
IndentAfter(ref) ==
  IF ref = {} THEN <<>>
  ELSE IndentForNextLine(options, LineFrom(text, CHOOSE p \in ref : TRUE))
LinesAbove(p) ==
  IF HasPrevLine(text, p) THEN NonEmptyUp(text, PrevLine(text, p)) ELSE {}

\* insert_nl: the blanks around the cursor go.
InsertNl ==
  LET p == IF Selecting THEN Selected.so ELSE cursor - BlanksBefore(text, cursor)
      del == IF Selecting THEN SelectedBytes ELSE cursor - p + BlanksAfter(text, cursor)
      before == Slice(text, Bol(text, p), p - Bol(text, p))
      indent == CASE ~options.auto_indent -> <<>>
                  [] options.auto_indent /\ IsBlank(before) -> IndentAfter(LinesAbove(p))
                  [] OTHER -> IndentForNextLine(options, before)
  IN  /\ Command(IF Selecting THEN "insert" ELSE "newline")
      /\ Leave(Replaced(text, p, del, <<NL>> \o indent), p + 1 + Len(indent))
      /\ EndSelection
      /\ UNCHANGED clipboard

\* new_line; the types are copy, auto and none.
NewLine(above, type) ==
  LET copied == Append(MakeIndent(options, GetIndentWidth(CurrentLine(text, cursor),
                                                          options.tab_width)), NL)
      at == IF above THEN Bol(text, cursor) ELSE EatLine(text, cursor)
      from == IF above THEN PrevLine(text, cursor) ELSE cursor
      ins == <<NL>> \o IndentAfter(IF type = "auto" THEN NonEmptyUp(text, from) ELSE {})
      eol == Eol(text, from)
  IN  /\ Command("new_line")
      /\ CASE type = "copy" ->
                 Heedless(at) /\ Leave(Inserted(text, at, copied), at + Len(copied) - 1)
           [] type # "copy" /\ above /\ ~HasPrevLine(text, cursor) ->
                 Heedless(0) /\ Leave(Inserted(text, 0, <<NL>>), 0)
           [] OTHER -> Heedless(eol) /\ Leave(Inserted(text, eol, ins), eol + Len(ins))
      /\ UNCHANGED <<selVars, clipboard>>

\* get_indent_of_matching_brace, as the set of it
MatchingIndent ==
  LET above == {b \in 0..Bol(text, cursor) - 1 : Bol(text, b) = b}
      Opens(b) == HasOpeningBrace(LineFrom(text, b))
      Level(b) == Cardinality({c \in above : c > b /\ Opens(c)})
                    - Cardinality({c \in above : c > b /\ HasClosingBrace(LineFrom(text, c))})
      found == {b \in above : Opens(b) /\ Level(b) = 0}
  IN  IF found = {} THEN {}
      ELSE {GetIndentWidth(LineFrom(text, Max(found)), options.tab_width)}

\* insert_ch of a character that is no newline
InsertCh(ch) ==
  LET bol == Bol(text, cursor)
      line == CurrentLine(text, cursor)
      closes == /\ ch = <<"}">> /\ options.auto_indent /\ options.brace_indent
                /\ IsBlank(line) /\ MatchingIndent # {}
      chars == IF ch = <<TAB>> /\ options.expand_tab
               THEN Copies(SPACE, options.indent_width) ELSE ch
      Put(p, del, ins) == Leave(Replaced(text, p, del, ins), p + Len(ins)) /\ EndSelection
  IN  /\ Command("insert")
      /\ CASE Selecting -> Put(Selected.so, SelectedBytes, chars)
           [] ~Selecting /\ options.overwrite ->
                Put(cursor, IF CharAt(text, cursor) \in {NL, "eof"} THEN 0
                            ELSE NextColumn(text, cursor) - cursor, chars)
           [] ~Selecting /\ ~options.overwrite /\ closes ->
                Put(bol, Len(line),
                    MakeIndent(options, CHOOSE w \in MatchingIndent : TRUE) \o ch)
           [] OTHER -> Put(cursor, 0, chars)
      /\ UNCHANGED clipboard

\* clear_lines
Clear(auto) ==
  LET indent == IF auto THEN IndentAfter(LinesAbove(cursor)) ELSE <<>>
      lines == SelInfo("lines")
      p == IF Selecting THEN lines.so ELSE Bol(text, cursor)
      del == IF Selecting THEN Max({0, lines.eo - lines.so - 1}) ELSE Eol(text, cursor) - p
  IN  /\ Command("delete")
      /\ IF indent = <<>> /\ del = 0
         THEN cursor' = p /\ UNCHANGED <<text, preferred_x>>
         ELSE Leave(Replaced(text, p, del, indent), p + Len(indent))
      /\ EndSelection
      /\ UNCHANGED clipboard

-----------------------------------------------------------------------------
(* Commands on lines and selections *)

\* What join_selection makes of the selected bytes s, and where in it the
\* cursor stays: a run of white space with a newline in it gives way to delim,
\* but for a newline at the end.
JoinedBytes(s, delim) ==
  LET Step(a, b) ==
        CASE b \in White ->
               [a EXCEPT !.run = Append(@, b), !.at = IF a.run = <<>> THEN Len(a.out) ELSE @]
          [] b = TAIL ->
               [a EXCEPT !.out = Append(@, b), !.at = IF @ = Len(a.out) THEN @ + 1 ELSE @]
          [] b \notin White \cup {TAIL} /\ NL \in Range(a.run) ->
               [out |-> a.out \o delim \o <<b>>, run |-> <<>>,
                at |-> Len(a.out \o delim) + 1]
          [] OTHER -> [out |-> a.out \o a.run \o <<b>>, run |-> <<>>,
                       at |-> IF a.run = <<>> THEN Len(a.out) ELSE a.at]
      end == FoldLeft(Step, [out |-> <<>>, run |-> <<>>, at |-> 0], s)
      rest == CASE NL \notin Range(end.run) -> end.run
                [] NL \in Range(end.run) /\ Last(end.run) # NL -> delim
                [] OTHER -> IF NL \in Range(Front(end.run)) THEN <<NL>> ELSE end.run
  IN  [out |-> end.out \o rest, at |-> end.at]

Join(delim) ==
  LET next == EatLine(text, cursor)
      p == next - 1 - BlanksBefore(text, next - 1)
      end == next + BlanksAfter(text, next)
      joined == JoinedBytes(Slice(text, Selected.so, SelectedBytes), delim)
  IN  /\ Command(IF delim = <<SPACE>> THEN "join" ELSE "newline")
      /\ IF Selecting
         THEN /\ text' = Splice(text, Selected.so, SelectedBytes, joined.out)
              /\ cursor' = Selected.so + joined.at
              /\ preferred_x' = IF text' = text THEN preferred_x ELSE -1
         ELSE /\ next < Len(text)
              /\ Leave(IF CharAt(text, end) = NL THEN Deleted(text, p, end - p)
                       ELSE Replaced(text, p, end - p, delim), p)
      /\ EndSelection
      /\ UNCHANGED clipboard

\* in_paragraph (comment delimiters are left out)
InParagraph(b, width) ==
  /\ ~IsBlank(LineFrom(text, b))
  /\ GetIndentWidth(LineFrom(text, b), options.tab_width) = width

\* paragraph_size, with the start it moves the cursor to
Paragraph ==
  LET bol == Bol(text, cursor)
      width == GetIndentWidth(LineFrom(text, bol), options.tab_width)
      Inside(b, c) == \A d \in b..c : Bol(text, d) = d => InParagraph(d, width)
      start == Min({b \in 0..bol : Bol(text, b) = b /\ Inside(b, bol)})
      last == Max({b \in bol..Len(text) : Bol(text, b) = b /\ Inside(bol, b)})
  IN  IF IsBlank(LineFrom(text, bol)) THEN [so |-> cursor, eo |-> cursor]
      ELSE [so |-> start, eo |-> EatLine(text, last)]

\* add_word for each word
Wrapped(words, indent, indent_width, width) ==
  LET Step(a, w) ==
        LET word == Width(w, options.tab_width)
            full == a.x > 0 /\ a.x + 1 + word > width
        IN  IF full \/ a.x = 0
            THEN [out |-> a.out \o (IF full THEN <<NL>> ELSE <<>>) \o indent \o w,
                  x |-> indent_width + word]
            ELSE [out |-> a.out \o <<SPACE>> \o w, x |-> a.x + 1 + word]
  IN  FoldLeft(Step, [out |-> <<>>, x |-> 0], words).out

WrapIn(r, s, width) ==
  LET w == GetIndentWidth(s, options.tab_width)
      lines == Wrapped(Words(s), MakeIndent(options, w), w, width)
      out == IF lines = <<>> THEN <<>> ELSE Append(lines, NL)
  IN  IF r.so = r.eo
      THEN /\ cursor' = r.so
           /\ IF Selecting THEN selection' = "lines" ELSE UNCHANGED selection
           /\ UNCHANGED <<text, preferred_x, sel_so, select_mode>>
      ELSE Leave(Replaced(text, r.so, Len(s), out), r.so + Max({0, Len(out) - 1}))
           /\ EndSelection

WrapParagraph(width) ==
  LET r == IF Selecting THEN SelInfo("lines") ELSE Paragraph
  IN  /\ Command("wrap")
      /\ WrapIn(r, Slice(text, r.so, r.eo - r.so), width)
      /\ UNCHANGED clipboard

\* Variant with a bug: the cursor goes past the last line.
PastLastLine(so, lines) == so + Len(FlattenSeq(lines))

\* Where do_indent_lines leaves the cursor
LastLine(so, lines) == so + IF lines = <<>> THEN 0 ELSE Len(FlattenSeq(Front(lines)))

\* indent_lines by a number of levels that is not zero
IndentIn(r, new, x) ==
  LET t == Splice(text, r.so, r.eo - r.so, FlattenSeq(new))
      last == LastLine(r.so, new)
  IN  /\ Len(t) <= MaxText /\ text' = t
      /\ CASE Selecting /\ new = <<>> ->
                cursor' = r.so /\ preferred_x' = PreferredX /\ UNCHANGED sel_so
           [] Selecting /\ new # <<>> ->
                /\ cursor' = ToColumn(options, t, IF Swapped THEN r.so ELSE last, x)
                /\ sel_so' = IF Swapped THEN last ELSE r.so
                /\ preferred_x' = x
           [] OTHER -> cursor' = ToColumn(options, t, r.so, x) /\ preferred_x' = x
                       /\ UNCHANGED sel_so

Indent(levels) ==
  LET r == IF Selecting THEN SelInfo("lines") ELSE ThisLine
      lines == LinesOf(Slice(text, r.so, r.eo - r.so))
  IN  /\ Command("indent")
      /\ IndentIn(r,
                  [k \in DOMAIN lines |->
                     IndentedLine(options, Front(lines[k]), levels) \o <<NL>>],
                  Max({0, PreferredX + levels * options.indent_width}))
      /\ selection' = IF Selecting THEN "lines" ELSE selection
      /\ UNCHANGED <<select_mode, clipboard>>

\* u_to_lower, u_to_upper and the toggle of change_case, for one character
Cased(ch, mode) ==
  CASE ch = <<"A">> /\ mode \in {"l", "t"} -> <<"a">>
    [] ch \in {<<"a">>, <<DOTLESS, TAIL>>} /\ mode \in {"u", "t"} -> <<"A">>
    [] OTHER -> ch

ReplaceCased(p, n, dst) ==
  LET skip == IF Selecting THEN PrevChar(dst, Len(dst)) ELSE Len(dst)
      moves == (Selecting => ~Swapped) /\ dst # <<>>
  IN  Leave(Replaced(text, p, n, dst), p + IF moves THEN skip ELSE 0)

ChangeCase(mode) ==
  LET p == InsertPoint
      n == IF Selecting THEN SelectedBytes ELSE NextChar(text, cursor) - cursor
      chars == Characters(Slice(text, p, n))
  IN  /\ Command("case")
      /\ Selecting \/ cursor < Len(text)
      /\ ReplaceCased(p, n, FlattenSeq([k \in DOMAIN chars |-> Cased(chars[k], mode)]))
      /\ EndSelection
      /\ UNCHANGED clipboard

\* replace_on_line: the places in old that are replaced, at most one on a line
\* unless global
Hits(old, b, global) ==
  {k \in DOMAIN old :
     /\ old[k] = b
     /\ global \/ \A j \in 1..k - 1 : old[j] = b => \E i \in j..k : old[i] = NL}

\* reg_replace without -c, for a pattern that is the character b
ReplaceHits(r, old, hits, s) ==
  LET Put(to) == FlattenSeq([k \in 1..to |-> IF k \in hits THEN s ELSE <<old[k]>>])
      end == r.so + Len(Put(Len(old)))
      back == Max({0, end - 1})
  IN  /\ Len(text) + Len(Put(Len(old))) - Len(old) <= MaxText
      /\ text' = Splice(text, r.so, Len(old), Put(Len(old)))
      /\ preferred_x' = IF hits = {} THEN preferred_x ELSE -1
      /\ IF Selecting
         THEN /\ sel_so' = IF Swapped THEN back ELSE r.so
              /\ cursor' = IF Swapped THEN r.so ELSE back
         ELSE /\ cursor' = IF hits = {} THEN cursor ELSE Len(Put(Max(hits)))
              /\ UNCHANGED sel_so

Replace(b, s, global) ==
  LET r == IF Selecting THEN Selected ELSE [so |-> 0, eo |-> Len(text)]
      old == Slice(text, r.so, r.eo - r.so)
  IN  /\ Command("replace")
      /\ Selecting => ~Careful
      /\ ReplaceHits(r, old, Hits(old, b, global), s)
      /\ UNCHANGED <<selection, select_mode, clipboard>>

-----------------------------------------------------------------------------
\* Views at every place of their text, with and without a selection, as moves
\* and the select command leave them
Init ==
  /\ text \in EditTexts
  /\ cursor \in {p \in 0..Len(text) : Boundary(text, p)}
  /\ selection \in {"none", "chars", "lines"}
  /\ sel_so \in IF Selecting THEN {p \in 0..Len(text) : Boundary(text, p)} ELSE {0}
  /\ select_mode = selection
  /\ preferred_x \in {-1} \cup KeptColumns
  /\ clipboard \in Clips
  /\ options \in OptionSets
  /\ done = "load" /\ was = text /\ steps = 0

Moves(flag) ==
  \/ Left(flag) \/ Right(flag) \/ Up(flag) \/ Down(flag)
  \/ MoveEol(flag) \/ MoveBof(flag) \/ MoveEof(flag) \/ MatchBracket(flag)
  \/ \E type \in {"simple", "indent", "toggle_lr", "toggle_rl"} : MoveBol(flag, type)
  \/ \E skip \in BOOLEAN : MoveWordFwd(flag, skip) \/ MoveWordBwd(flag, skip)

Deletes ==
  \/ DeleteCommand \/ EraseCommand \/ EraseBol
  \/ \E b \in BOOLEAN : DeleteEol(b) \/ DeleteWord(b) \/ EraseWord(b) \/ DeleteLine(b)
                          \/ Clear(b) \/ Copy(b)
  \/ Cut

Next ==
  \/ \E flag \in {"none", "chars", "lines"} : Moves(flag)
  \/ \E type \in {"chars", "lines"}, keep \in BOOLEAN : Select(type, keep)
  \/ SelectBlock \/ UnselectCommand
  \/ Deletes
  \/ \E ch \in Typed : InsertCh(ch)
  \/ InsertNl
  \/ \E s \in Inserts, after \in BOOLEAN : Insert(s, after)
  \/ \E type \in {"above", "below", "inline"}, after \in BOOLEAN : Paste(type, after)
  \/ \E type \in {"copy", "auto", "none"}, above \in BOOLEAN : NewLine(above, type)
  \/ \E delim \in {<<>>, <<SPACE>>} : Join(delim)
  \/ \E width \in WrapWidths : WrapParagraph(width)
  \/ \E levels \in {-2, -1, 1} : Indent(levels)
  \/ \E mode \in {"l", "u", "t"} : ChangeCase(mode)
  \/ \E s \in Inserts \cup {<<>>}, global \in BOOLEAN : Replace("a", s, global)
  \/ \E reverse \in BOOLEAN : Search(reverse, "a")

Spec == Init /\ [][Next]_editVars

-----------------------------------------------------------------------------
(* Properties *)

\* No command cuts a character of several bytes, takes the newline from the end
\* of the text, or leaves the cursor or the start of the selection inside a
\* character or behind the text: each computes them from lengths of what it
\* deleted, inserted and skipped.
CharsAreWhole ==
  /\ WholeChars(text) /\ IsWhole(text)
  /\ cursor \in 0..Len(text) /\ Boundary(text, cursor)
  /\ Selecting => sel_so \in 0..Len(text) /\ Boundary(text, sel_so)

\* Commands about white space keep every word: join, wrap-paragraph, indent and
\* new-line change nothing but blanks and newlines, a typed newline and a join
\* without a delimiter may only split and merge words.
KeepsWords ==
  /\ done' \in {"join", "wrap", "indent", "new_line"} => Words(text') = Words(text)
  /\ done' \in {"newline"} => Solid(text') = Solid(text)

\* The lines of the selection, by number.
SelectedLines ==
  LET r == SelInfo("lines") IN Newlines(SubSeq(text, 1, r.so)) + 1..Newlines(SubSeq(text, 1, r.eo))

\* indent keeps the lines selected that it was given, and the cursor at the end
\* of them where it was, so that it can be repeated (mode.c binds Tab to it).
KeepsLines ==
  (done' = "indent" /\ Selecting) =>
     /\ SelectedLines' = SelectedLines
     /\ SelectedLines # {} /\ cursor < Len(text) =>
          (Newlines(SubSeq(text, 1, cursor)))' = Newlines(SubSeq(text, 1, cursor))

\* What was cut and is pasted at once is back where it was: the text is as it
\* was before, unless the newline at the end of the text was among it.
PutsBack ==
  /\ done = "cut" /\ done' = "paste_back"
  /\ clipboard.is_lines \/ LastByte(clipboard.bytes) # NL
  => text' = was

\* All of these, after every command.
EditsAreExact == [][CharsAreWhole' /\ KeepsWords /\ KeepsLines /\ PutsBack]_editVars
=============================================================================
