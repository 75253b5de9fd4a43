----------------------------- MODULE EditedText -----------------------------
(***************************************************************************)
(* What the editing commands compute from a text: where iterators and      *)
(* words end (src/block-iter.c, src/move.c), how lines are indented        *)
(* (src/indent.c), and what the wrappers of an edit make of it at the end  *)
(* of a text (src/change.c).  Characters may take several bytes: the first *)
(* one stands for the character, the others are TAIL.                      *)
(***************************************************************************)
EXTENDS TextLines, SequencesExt

SPACE == " "
TAB == "tab"
TAIL == ">"   \* a byte that continues a character
WIDE == "w"   \* a character of three bytes and two columns
DOTLESS == "i"  \* two bytes; its capital letter takes one
MARK == "z"   \* a combining mark: two bytes, no column

Blank == {SPACE, TAB}
White == Blank \cup {NL}

CharBytes(b) == CASE b = WIDE -> 3 [] b \in {DOTLESS, MARK} -> 2 [] OTHER -> 1
Columns(b) == CASE b = WIDE -> 2 [] b \in {MARK, TAIL} -> 0 [] OTHER -> 1

\* An offset at which a character starts, or the end
Boundary(t, p) == p < Len(t) => t[p + 1] # TAIL
CharAt(t, p) == IF p < Len(t) THEN t[p + 1] ELSE "eof"

WholeChars(t) ==
  \A p \in 1..Len(t) :
     /\ t[p] # TAIL => \A k \in 1..CharBytes(t[p]) - 1 : p + k <= Len(t) /\ t[p + k] = TAIL
     /\ t[p] = TAIL => \E q \in 1..p - 1 : p - q < CharBytes(t[q])

-----------------------------------------------------------------------------
NextChar(t, p) == Min({Len(t)} \cup {q \in p + 1..Len(t) : Boundary(t, q)})
PrevChar(t, p) == Max({0} \cup {q \in 0..p - 1 : Boundary(t, q)})

\* Variant with a bug: one byte on.
NextByte(t, p) == Min({Len(t), p + 1})

\* Columns are left and entered at characters that take space.
NextColumn(t, p) ==
  Min({Len(t)} \cup {q \in p + 1..Len(t) : Boundary(t, q) /\ CharAt(t, q) # MARK})

PrevColumn(t, p) ==
  Max({0} \cup {q \in 0..p - 1 : Boundary(t, q) /\ CharAt(t, q) # MARK})

Bol(t, p) == Max({0} \cup {q \in 1..p : t[q] = NL})
Eol(t, p) == Min({Len(t)} \cup {q \in p..Len(t) - 1 : t[q + 1] = NL})
EatLine(t, p) == Min({Len(t), Eol(t, p) + 1})
HasPrevLine(t, p) == Bol(t, p) > 0
PrevLine(t, p) == Bol(t, Bol(t, p) - 1)

\* block_iter_get_line: what is left of the line
LineFrom(t, p) == Slice(t, p, Eol(t, p) - p)
CurrentLine(t, p) == LineFrom(t, Bol(t, p))

BlanksBefore(t, p) ==
  Max({n \in 0..p : \A q \in p - n + 1..p : t[q] \in Blank})
BlanksAfter(t, p) ==
  Max({n \in 0..Len(t) - p : \A q \in p + 1..p + n : t[q] \in Blank})
BlankPrefix(line) == BlanksAfter(line, 0)
IsBlank(line) == BlankPrefix(line) = Len(line)

\* block_iter_find_non_empty_line_bwd: the nearest line from that of p upwards
\* that is not blank, as the set of its offset
NonEmptyUp(t, p) ==
  LET up == {b \in 0..Bol(t, p) : Bol(t, b) = b /\ ~IsBlank(LineFrom(t, b))}
  IN  IF up = {} THEN {} ELSE {Max(up)}

\* get_char_type
Class(b) ==
  CASE b = NL -> "newline" [] b \in Blank -> "space"
    [] b \in {"{", "}", ","} -> "other" [] OTHER -> "word"
ClassAt(t, p) == Class(t[p + 1])

\* word_fwd and word_bwd stop where a run of characters of one class begins.
RunStarts(t, skip) ==
  {q \in 0..Len(t) - 1 :
     /\ Boundary(t, q)
     /\ ClassAt(t, q) # "space"
     /\ q > 0 => ClassAt(t, PrevChar(t, q)) # ClassAt(t, q)
     /\ skip => ClassAt(t, q) \in {"word", "newline"}}
WordFwd(t, p, skip) == Min({Len(t)} \cup {q \in RunStarts(t, skip) : q > p})
WordBwd(t, p, skip) == Max({0} \cup {q \in RunStarts(t, skip) : q < p})

Partner(b) == IF b = "{" THEN "}" ELSE "{"

\* cmd_match_bracket: the offsets of the bracket that matches the one at p
Matching(t, p) ==
  LET b == CharAt(t, p)
      Between(q) == IF b = "{" THEN p + 2..q ELSE q + 2..p
      Count(c, q) == Cardinality({k \in Between(q) : t[k] = c})
      found == {q \in 0..Len(t) - 1 :
                  /\ t[q + 1] = Partner(b) /\ IF b = "{" THEN q > p ELSE q < p
                  /\ Count(b, q) = Count(Partner(b), q)}
  IN  CASE b = "{" /\ found # {} -> {Min(found)}
        [] b = "}" /\ found # {} -> {Max(found)}
        [] OTHER -> {}

-----------------------------------------------------------------------------
(* Indentation *)

NextStop(x, n) == (x \div n + 1) * n
Advance(x, b, tw) == IF b = TAB THEN NextStop(x, tw) ELSE x + Columns(b)
Width(s, tw) == FoldLeft(LAMBDA x, b : Advance(x, b, tw), 0, s)

SpaceIndent(o) == o.expand_tab \/ o.indent_width # o.tab_width
GetIndentWidth(line, tw) == Width(SubSeq(line, 1, BlankPrefix(line)), tw)

Copies(b, n) == [k \in 1..n |-> b]
MakeIndent(o, w) ==
  IF SpaceIndent(o) THEN Copies(SPACE, w)
  ELSE Copies(TAB, w \div o.tab_width) \o Copies(SPACE, w % o.tab_width)
MakeSimpleIndent(o, level) ==
  IF SpaceIndent(o) THEN Copies(SPACE, level * o.indent_width) ELSE Copies(TAB, level)

\* line_has_opening_brace and line_has_closing_brace, without comments
HasOpeningBrace(line) ==
  \E k \in DOMAIN line : line[k] = "{" /\ IsBlank(SubSeq(line, k + 1, Len(line)))
HasClosingBrace(line) ==
  BlankPrefix(line) < Len(line) /\ line[BlankPrefix(line) + 1] = "}"

IndentForNextLine(o, line) ==
  LET w == GetIndentWidth(line, o.tab_width)
  IN  MakeIndent(o, IF o.brace_indent /\ HasOpeningBrace(line)
                    THEN NextStop(w, o.indent_width) ELSE w)

\* get_indent_info: an indentation is sane if its levels are made as they should be.
IndentSane(o, line) ==
  \A k \in 1..BlankPrefix(line) :
     Width(SubSeq(line, 1, k), o.tab_width) % o.indent_width = 0
       => \A j \in 1..k : line[j] = (IF SpaceIndent(o) THEN SPACE ELSE TAB)
IndentLevel(o, line) == GetIndentWidth(line, o.tab_width) \div o.indent_width

\* get_current_indent_bytes: the bytes of the level that ends at the cursor, or
\* -1 if none does; widths are counted from the level before
LevelBytes(o, s) ==
  LET Step(a, b) ==
        LET at == IF a.w % o.indent_width = 0 THEN [n |-> 0, w |-> 0] ELSE a
        IN  [n |-> at.n + 1, w |-> Advance(at.w, b, o.tab_width)]
      end == FoldLeft(Step, [n |-> 0, w |-> 0], s)
  IN  IF IsBlank(s) /\ end.w % o.indent_width = 0 THEN end.n ELSE -1

BytesLeft(o, t, p) == Max({0, LevelBytes(o, Slice(t, Bol(t, p), p - Bol(t, p)))})
BytesRight(o, t, p) ==
  LET level == {n \in 1..BlanksAfter(t, p) :
                  Width(Slice(t, p, n), o.tab_width) % o.indent_width = 0}
  IN  IF LevelBytes(o, Slice(t, Bol(t, p), p - Bol(t, p))) >= 0 /\ level # {}
      THEN Min(level) ELSE 0

\* Variant with a bug: indentation of spaces and tabs is cut as if it were sane.
IndentedLineBlindly(o, line, levels) ==
  LET unit == IF SpaceIndent(o) THEN o.indent_width ELSE 1
  IN  CASE IsBlank(line) -> <<>>
        [] levels > 0 -> MakeSimpleIndent(o, levels) \o line
        [] OTHER -> SubSeq(line, Min({-levels, IndentLevel(o, line)}) * unit + 1, Len(line))

\* One line of increase_indent (levels > 0) and decrease_indent (levels < 0)
IndentedLine(o, line, levels) ==
  LET rest == SubSeq(line, BlankPrefix(line) + 1, Len(line))
      level == IndentLevel(o, line)
      unit == IF SpaceIndent(o) THEN o.indent_width ELSE 1
  IN  CASE IsBlank(line) -> <<>>
        [] levels > 0 /\ IndentSane(o, line) -> MakeSimpleIndent(o, levels) \o line
        [] levels < 0 /\ IndentSane(o, line) /\ level > 0 ->
             SubSeq(line, Min({-levels, level}) * unit + 1, Len(line))
        [] OTHER -> MakeSimpleIndent(o, Max({0, level + levels})) \o rest

\* view_update_cursor_x, as far as it is asked here
Column(o, t, p) == Width(Slice(t, Bol(t, p), p - Bol(t, p)), o.tab_width)

\* Where move_to_preferred_x leaves the cursor in the line of p
ToColumn(o, t, p, x) ==
  LET bol == Bol(t, p)
      level == (x \div o.indent_width) * o.indent_width
      line == LineFrom(t, bol)
      reach == Min({q \in bol..Eol(t, p) : /\ Boundary(t, q)
                                           /\ Column(o, t, q) >= x \/ q = Eol(t, p)})
      stop == IF Column(o, t, reach) > x THEN PrevChar(t, reach) ELSE reach
  IN  IF /\ o.emulate_tab /\ x < Len(line) /\ level + o.indent_width <= Len(line)
         /\ \A k \in 1..level + o.indent_width : line[k] = SPACE
      THEN bol + level
      ELSE IF CharAt(t, stop) = MARK THEN NextColumn(t, stop) ELSE stop

-----------------------------------------------------------------------------
(* buffer_insert_bytes, buffer_delete_bytes and buffer_replace_bytes: a text *)
(* ends with a newline.                                                      *)

Inserted(t, p, ins) ==
  CASE ins = <<>> -> t
    [] ins # <<>> /\ p = Len(t) /\ LastByte(ins) # NL -> t \o Append(ins, NL)
    [] OTHER -> Splice(t, p, 0, ins)

Deleted(t, p, del) ==
  IF del > 0 /\ p + del >= Len(t) /\ p > 0 /\ t[p] # NL
  THEN Splice(t, p, del - 1, <<>>) ELSE Splice(t, p, del, <<>>)

Replaced(t, p, del, ins) ==
  CASE del = 0 -> Inserted(t, p, ins)
    [] del > 0 /\ ins = <<>> -> Deleted(t, p, del)
    [] OTHER -> IF p + del >= Len(t) /\ LastByte(ins) # NL
                THEN Splice(t, p, del - 1, ins) ELSE Splice(t, p, del, ins)

-----------------------------------------------------------------------------
\* The pieces of s that begin at these positions
SplitAt(s, begins) ==
  LET at == SelectSeq([p \in DOMAIN s |-> p], LAMBDA p : p \in begins)
  IN  [k \in DOMAIN at |->
         SubSeq(s, at[k], IF k < Len(at) THEN at[k + 1] - 1 ELSE Len(s))]

Solid(s) == SelectSeq(s, LAMBDA b : b \notin White)
Words(s) ==
  LET first == {p \in DOMAIN s : s[p] \notin White /\ (p = 1 \/ s[p - 1] \in White)}
      pieces == SplitAt(s, first)
  IN  [k \in DOMAIN pieces |-> Solid(pieces[k])]
Characters(s) == SplitAt(s, {p \in DOMAIN s : s[p] # TAIL})
LinesOf(s) == SplitAt(s, {p \in DOMAIN s : p = 1 \/ s[p - 1] = NL})
=============================================================================
