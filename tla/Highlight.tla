------------------------------ MODULE Highlight ------------------------------
(***************************************************************************)
(* Syntax highlighting of one Buffer and the windows that show it: the     *)
(* line start states (src/syntax/highlight.c), the edits that invalidate   *)
(* them (src/edit.c), the range of changed lines (src/buffer.c) and the    *)
(* screen update that fills and draws (src/ui.c, src/ui-window.c,          *)
(* src/ui-view.c).                                                         *)
(*                                                                         *)
(* The state in which a line starts depends on all lines above it, so the  *)
(* Buffer keeps the start states of its first lines.  An edit moves them   *)
(* along and marks those it may have changed as invalid; an update fills   *)
(* the holes down to the first line it draws, stops early where a state    *)
(* turns out as before, and draws further than the changed lines as long   *)
(* as states change.  The loops of an update are steps of their own here.  *)
(*                                                                         *)
(* A line is its kind: what it does to the state.  A drawn row is a line   *)
(* and the state it was drawn from.  Lines are numbered from 0, as in the  *)
(* code.                                                                   *)
(***************************************************************************)
EXTENDS Integers, FiniteSets

CONSTANTS
  Kinds,     \* lines, by their effect on the state
  States,    \* states of the highlighter
  Syntaxes,  \* syntaxes a Buffer can have
  NoSyntax,  \* a null pointer for Buffer::syntax
  Start,     \* start state of each syntax
  Dest,      \* Dest[<<s, k, st>>]: where a line of kind k leads to from state st
  Windows,   \* windows that can show the Buffer
  Height,    \* Window::edit_h
  MaxLines,  \* bound: lines of the Buffer
  MaxBatch,  \* bound: changes between two updates
  Nothing    \* no window, and a row below the last line

ASSUME SyntaxAssumption ==
  /\ NoSyntax \notin Syntaxes \cup States
  /\ Start \in [Syntaxes -> States]
  /\ Dest \in [Syntaxes \X Kinds \X States -> States]
ASSUME SizesAssumption ==
  Height \in Nat \ {0} /\ MaxLines \in Nat /\ MaxBatch \in Nat \ {0}

VARIABLES
  line,    \* the lines
  nl,      \* Buffer::nl, the number of lines
  syntax,  \* Buffer::syntax
  lss,     \* Buffer::line_start_states: their count, value and validity
  range,   \* changed_line_min and changed_line_max
  shown,   \* windows in which a View of the Buffer is on screen
  here,    \* the current one of them
  cy,      \* View::cy: the line of the cursor in each window
  vy,      \* View::vy: the first line in each window
  old,     \* the ScreenState: cy and vy of the current View at the last update
  all,     \* UPDATE_ALL_WINDOWS is set
  todo,    \* windows that the running update has yet to draw
  batch,   \* changes since the last update
  pc,      \* "idle", or the place in update_screen
  at,      \* the variables of update_range and fill_hole
  drawn    \* what the rows of each window show

textVars == <<line, nl, syntax>>
viewVars == <<shown, here, cy, vy>>
updateVars == <<old, todo, at, drawn>>
vars == <<textVars, lss, range, viewVars, updateVars, all, batch, pc>>

LongMax == MaxLines + Height
NoLoop == [win |-> Nothing, y |-> 0, y2 |-> 0, idx |-> 0, bi |-> 0, last |-> 0]
BlankRows == [r \in 0..Height - 1 |-> Nothing]
NoRange == [min |-> LongMax, max |-> -1]
AllLines == [min |-> 0, max |-> LongMax]
Least(a, b) == IF a < b THEN a ELSE b
Most(a, b) == IF a > b THEN a ELSE b

\* buffer_mark_lines_changed
MarkLines(r, a, b) ==
  [min |-> Least(Least(a, b), r.min), max |-> Most(Most(a, b), r.max)]

After(k, st) == Dest[<<syntax, k, st>>]
Valid(k) == lss.ptr[k].ok
Entry(st) == [st |-> st, ok |-> TRUE]
Invalid(e) == [e EXCEPT !.ok = FALSE]

\* The array with entry i set, i being at most its count.
Set(s, i, st) ==
  [count |-> IF i = s.count THEN i + 1 ELSE s.count,
   ptr |-> [k \in 0..(IF i = s.count THEN i ELSE s.count - 1) |->
             IF k = i THEN Entry(st) ELSE s.ptr[k]]]

\* mark_state_invalid; an entry behind the last one is of no consequence
Mark(s, i) == IF i < s.count THEN [s EXCEPT !.ptr[i] = Invalid(@)] ELSE s

Truncate(s, n) == [count |-> n, ptr |-> [k \in 0..n-1 |-> s.ptr[k]]]

-----------------------------------------------------------------------------
(* hl_insert and hl_delete *)

\* Variant with a bug: the line after the inserted ones stays valid.
HlInsertForgets(s, first, lines) ==
  LET last == first + lines
  IN  CASE first >= s.count -> s
        [] first < s.count /\ last + 1 >= s.count -> Truncate(s, first + 1)
        [] OTHER ->
             [count |-> s.count + lines,
              ptr |-> [k \in 0..s.count + lines - 1 |->
                CASE k <= first -> s.ptr[k]
                  [] first < k /\ k <= last -> Invalid(s.ptr[k])
                  [] last < k -> s.ptr[k - lines]]]

\* The states of the lines below move down; memmove leaves copies in the gap.
HlInsert(s, first, lines) ==
  LET last == first + lines
  IN  CASE first >= s.count -> s
        [] first < s.count /\ last + 1 >= s.count -> Truncate(s, first + 1)
        [] OTHER ->
             [count |-> s.count + lines,
              ptr |-> [k \in 0..s.count + lines - 1 |->
                CASE k <= first -> s.ptr[k]
                  [] first < k /\ k <= last -> Invalid(s.ptr[k])
                  [] k = last + 1 -> Invalid(s.ptr[first + 1])
                  [] last + 1 < k -> s.ptr[k - lines]]]

HlDelete(s, first, lines) ==
  LET last == first + lines
  IN  CASE s.count = 1 \/ first >= s.count -> s
        [] s.count > 1 /\ first < s.count /\ last + 1 >= s.count -> Truncate(s, first + 1)
        [] OTHER ->
             [count |-> s.count - lines,
              ptr |-> [k \in 0..s.count - lines - 1 |->
                CASE k <= first -> s.ptr[k]
                  [] k = first + 1 -> Invalid(s.ptr[last + 1])
                  [] first + 1 < k -> s.ptr[k + lines]]]

-----------------------------------------------------------------------------
(* Commands between two updates *)

\* One change of several that a command, or a list of commands, may make.
Change ==
  /\ pc = "idle"
  /\ batch < MaxBatch
  /\ batch' = batch + 1
  /\ UNCHANGED pc

\* Variant with a bug: Buffer::nl is not updated.
ReplaceLinesUncounted(e, gone, m, new) ==
  /\ nl - gone + m <= MaxLines
  /\ nl' = nl
  /\ line' = [k \in 0..nl - gone + m - 1 |->
       IF k < e THEN line[k] ELSE IF k < e + m THEN new[k - e] ELSE line[k - m + gone]]

\* The lines with "gone" of them, from e on, replaced by the m lines of new.
ReplaceLines(e, gone, m, new) ==
  /\ nl - gone + m <= MaxLines
  /\ nl' = nl - gone + m
  /\ line' = [k \in 0..nl - gone + m - 1 |->
       IF k < e THEN line[k] ELSE IF k < e + m THEN new[k - e] ELSE line[k - m + gone]]

\* An edit in line e leaves the current cursor there.  The cursor of another
\* View at or below that line is moved by a number of bytes (fix_cursors).
CursorsMove(e, gone, m) ==
  /\ cy' \in [Windows -> 0..MaxLines]
  /\ \A w \in Windows :
       IF w = here THEN cy'[w] = e
       ELSE IF w \notin shown \/ cy[w] < e THEN cy'[w] = cy[w]
       ELSE cy'[w] \in e..(Most(e, cy[w] - gone) + m)

\* What an edit in line e, of which hl is told, does to everything else.
Edited(e, max, s) ==
  /\ Change
  /\ range' = MarkLines(range, e, max)
  /\ lss' = IF syntax = NoSyntax THEN lss ELSE s
  /\ UNCHANGED <<syntax, shown, here, vy, updateVars, all>>

\* do_insert, of text with "lines" newlines
Insert(e, lines, new) ==
  LET gone == IF e < nl THEN 1 ELSE 0
  IN  /\ gone + lines > 0
      /\ ReplaceLines(e, gone, lines + gone, new)
      /\ CursorsMove(e, 0, lines)
      /\ Edited(e, IF lines = 0 THEN e ELSE LongMax, HlInsert(lss, e, lines))

\* do_delete, of text with "lines" newlines; the last line may go entirely
Delete(e, lines, new) ==
  LET left == IF e + lines < nl THEN 1 ELSE 0
  IN  /\ e < nl /\ e + lines <= nl
      /\ ReplaceLines(e, lines + left, left, new)
      /\ CursorsMove(e, lines, 0)
      /\ Edited(e, IF lines = 0 THEN e ELSE LongMax, HlDelete(lss, e, lines))

\* do_replace within a Block; else it is a do_delete and a do_insert
Replace(e, gone, lines, new) ==
  /\ e + gone < nl
  /\ ReplaceLines(e, gone + 1, lines + 1, new)
  /\ CursorsMove(e, gone, lines)
  /\ Edited(e, IF gone = lines THEN e + gone ELSE LongMax,
            HlInsert(HlDelete(lss, e, gone), e, lines))

Move(e) ==
  /\ Change
  /\ cy' = [cy EXCEPT ![here] = e]
  /\ UNCHANGED <<textVars, lss, range, shown, here, vy, updateVars, all>>

\* "scroll-up", "scroll-down" and the like, with or without the cursor
Scroll(y, e) ==
  /\ Change
  /\ vy' = [vy EXCEPT ![here] = y]
  /\ cy' = [cy EXCEPT ![here] = e]
  /\ UNCHANGED <<textVars, lss, range, shown, here, updateVars, all>>

\* buffer_update_syntax
SetSyntax(s) ==
  /\ Change
  /\ s # syntax
  /\ syntax' = s
  /\ lss' = IF s = NoSyntax THEN lss
            ELSE [count |-> 1, ptr |-> [k \in {0} |-> Entry(Start[s])]]
  /\ range' = AllLines
  /\ UNCHANGED <<line, nl, viewVars, updateVars, all>>

\* A selection begins in the line of the cursor, is changed or ends.
Select ==
  /\ Change
  /\ range' \in {MarkLines(range, cy[here], cy[here]), AllLines}
  /\ UNCHANGED <<textVars, lss, viewVars, updateVars, all>>

\* "wsplit", "wnext", "wclose": all windows are to be drawn; a new one has its
\* cursor in line e
Arrange(ws, w, e) ==
  /\ Change
  /\ w \in ws
  /\ shown' = ws
  /\ here' = w
  /\ cy' = [u \in Windows |-> IF u \notin ws THEN 0 ELSE IF u \in shown THEN cy[u] ELSE e]
  /\ vy' = [u \in Windows |-> IF u \notin ws THEN 0 ELSE IF u \in shown THEN vy[u] ELSE 0]
  /\ drawn' = [u \in Windows |-> IF u \in ws \cap shown THEN drawn[u] ELSE BlankRows]
  /\ all' = TRUE
  /\ UNCHANGED <<textVars, lss, range, old, todo, at>>

-----------------------------------------------------------------------------
(* update_screen *)

\* view_update_vy, without a scroll margin
Scrolled(w) ==
  LET bottom == vy[w] + Height - 1
      down == vy[w] + cy[w] - bottom
      end == nl - Height + 1
  IN  CASE cy[w] < vy[w] -> cy[w]
        [] cy[w] > bottom -> IF down > end /\ end >= 0 THEN end ELSE down
        [] OTHER -> vy[w]

BeginUpdate ==
  /\ pc = "idle" /\ batch > 0
  /\ pc' = "window"
  /\ todo' = shown
  /\ vy' = IF all THEN vy ELSE [vy EXCEPT ![here] = Scrolled(here)]
  /\ range' = CASE all -> range
                [] ~all /\ Scrolled(here) # old.vy -> AllLines
                [] OTHER -> MarkLines(range, old.cy, cy[here])
  /\ UNCHANGED <<textVars, lss, shown, here, cy, old, all, batch, at, drawn>>

\* Variant with a bug: off by one.
LastToFillBefore(y) == Least(y - 1, lss.count - 1)

\* The last of the states there are that line y needs.
LastToFill(y) == Least(y, lss.count - 1)

\* update_window or update_window_full: w is the next window, in the order in
\* which the Views or the frames were created
StartWindow(w) ==
  LET y == IF w = here /\ ~all THEN vy[w] ELSE Scrolled(w)
      y1 == IF all THEN y ELSE Most(range.min, y)
      y2 == IF all THEN y + Height ELSE Least(range.max, y + Height - 1) + 1
  IN  /\ pc = "window"
      /\ w \in todo
      /\ todo' = todo \ {w}
      /\ vy' = [vy EXCEPT ![w] = y]
      /\ pc' = IF syntax = NoSyntax THEN "draw" ELSE "scan"
      /\ at' = [win |-> w, y |-> y1, y2 |-> y2, idx |-> 0, bi |-> 0,
                last |-> LastToFill(y1)]
      /\ UNCHANGED <<textVars, lss, range, shown, here, cy, old, all, batch, drawn>>

Holes == {k \in at.idx..at.last : ~Valid(k)}

\* Variant with a bug: one line too far up.
LineBeforeLast(hole) == Most(hole - 2, 0)

\* The last valid state before a hole, from which it is filled
LineBefore(hole) == hole - 1

\* The scan for the next invalid state; the iterator goes to the line before.
Scan ==
  /\ pc = "scan"
  /\ IF Holes = {}
     THEN /\ pc' = "add"
          /\ at' = [at EXCEPT !.bi = lss.count - 1]
     ELSE \E hole \in Holes :
            /\ \A k \in Holes : hole <= k
            /\ pc' = "hole"
            /\ at' = [at EXCEPT !.idx = LineBefore(hole), !.bi = LineBefore(hole)]
  /\ UNCHANGED <<textVars, lss, range, viewVars, old, all, batch, todo, drawn>>

\* block_iter_eat_line
EatLine(bi) == bi + 1

\* One turn of fill_hole
FillHole ==
  LET i == at.idx + 1
      st == After(line[at.bi], lss.ptr[at.idx].st)
      changed == lss.ptr[i].st # st
  IN  /\ pc = "hole"
      /\ lss' = IF changed /\ i = at.last THEN Mark(Set(lss, i, st), i + 1)
                ELSE Set(lss, i, st)
      /\ at' = [at EXCEPT !.idx = i, !.bi = EatLine(@)]
      /\ pc' = IF lss.ptr[i] = Entry(st) \/ i = at.last THEN "scan" ELSE "hole"
      /\ UNCHANGED <<textVars, range, viewVars, old, all, batch, todo, drawn>>

\* One turn of the loop that adds states, or its end
AddState ==
  /\ pc = "add"
  /\ IF lss.count - 1 < at.y
     THEN /\ lss' = Set(lss, lss.count, After(line[at.bi], lss.ptr[lss.count - 1].st))
          /\ at' = [at EXCEPT !.bi = EatLine(@)]
          /\ UNCHANGED pc
     ELSE pc' = "draw" /\ UNCHANGED <<lss, at>>
  /\ UNCHANGED <<textVars, range, viewVars, old, all, batch, todo, drawn>>

\* The array after hl_line, which found out that line y leads to state st.
HlLine(y, st) ==
  IF y + 1 < lss.count /\ lss.ptr[y + 1].st # st
  THEN Mark(Set(lss, y + 1, st), y + 2)
  ELSE Set(lss, y + 1, st)

\* Variant with a bug: a state that was marked as invalid counts as unchanged.
NextChangedIfValid(y, st) ==
  y + 1 = lss.count \/ (Valid(y + 1) /\ lss.ptr[y + 1].st # st)

\* next_changed of hl_line
NextChanged(y, st) == y + 1 = lss.count \/ lss.ptr[y + 1].st # st

Row(y, st) == [kind |-> line[y], st |-> st]

\* One turn of the loop in update_range, which hl_line may extend by a line
DrawLine ==
  LET y == at.y
      w == at.win
      st == After(line[y], lss.ptr[y].st)
      more == /\ syntax # NoSyntax
              /\ NextChanged(y, st) /\ y + 1 = at.y2 /\ at.y2 < vy[w] + Height
  IN  /\ pc = "draw"
      /\ y < nl /\ y < at.y2
      /\ IF syntax = NoSyntax
         THEN /\ drawn' = [drawn EXCEPT ![w][y - vy[w]] = Row(y, NoSyntax)]
              /\ UNCHANGED lss
         ELSE /\ drawn' = [drawn EXCEPT ![w][y - vy[w]] = Row(y, lss.ptr[y].st)]
              /\ lss' = HlLine(y, st)
      /\ at' = [at EXCEPT !.y = @ + 1, !.y2 = IF more THEN @ + 1 ELSE @]
      /\ UNCHANGED <<textVars, range, viewVars, old, all, batch, todo, pc>>

\* The rows below the last line; at the end of an update, end_update
FinishWindow ==
  LET w == at.win
  IN  /\ pc = "draw"
      /\ ~(at.y < nl /\ at.y < at.y2)
      /\ drawn' = [drawn EXCEPT ![w] = [r \in 0..Height - 1 |->
           IF at.y <= r + vy[w] /\ r + vy[w] < at.y2 THEN Nothing ELSE @[r]]]
      /\ at' = NoLoop
      /\ IF todo # {}
         THEN pc' = "window" /\ UNCHANGED <<range, all, batch, old>>
         ELSE /\ pc' = "idle"
              /\ range' = NoRange
              /\ all' = FALSE
              /\ batch' = 0
              /\ old' = [cy |-> cy[here], vy |-> vy[here]]
      /\ UNCHANGED <<textVars, lss, viewVars, todo>>

-----------------------------------------------------------------------------
\* A file has been opened in one window, which is to be drawn.
Init ==
  /\ \E n \in 0..MaxLines, w \in Windows, s \in Syntaxes \cup {NoSyntax} :
       /\ nl = n
       /\ line \in [0..n - 1 -> Kinds]
       /\ syntax = s
       /\ lss = IF s = NoSyntax THEN [count |-> 0, ptr |-> [k \in {} |-> Entry(s)]]
                ELSE [count |-> 1, ptr |-> [k \in {0} |-> Entry(Start[s])]]
       /\ shown = {w}
       /\ here = w
  /\ range = AllLines
  /\ cy = [w \in Windows |-> 0]
  /\ vy = [w \in Windows |-> 0]
  /\ old = [cy |-> 0, vy |-> 0]
  /\ all = TRUE
  /\ at = NoLoop
  /\ todo = {}
  /\ batch = 1
  /\ pc = "idle"
  /\ drawn = [w \in Windows |-> BlankRows]

Ready == pc = "idle" /\ batch < MaxBatch

Edit ==
  /\ Ready
  /\ \E e \in 0..nl, n \in 0..MaxLines :
       \/ \E new \in [{0} -> Kinds] : Delete(e, n, new)
       \/ /\ n <= MaxLines - nl
          /\ \E new \in [0..n -> Kinds] : Insert(e, n, new)
       \/ \E gone \in 0..nl - 1 :
            /\ nl - gone + n <= MaxLines
            /\ \E new \in [0..n -> Kinds] : Replace(e, gone, n, new)

Show ==
  /\ Ready
  /\ \/ \E e \in 0..nl : Move(e)
     \/ \E y, e \in 0..nl : Scroll(y, e)
     \/ \E s \in Syntaxes \cup {NoSyntax} : SetSyntax(s)
     \/ Select
     \/ \E ws \in SUBSET Windows, w \in Windows, e \in 0..nl : Arrange(ws, w, e)

Update ==
  \/ BeginUpdate \/ \E w \in Windows : StartWindow(w)
  \/ Scan \/ FillHole \/ AddState \/ DrawLine \/ FinishWindow

Next == Edit \/ Show \/ Update

Spec == Init /\ [][Next]_vars

-----------------------------------------------------------------------------
(* Properties *)

Entries == [st : States, ok : BOOLEAN]
Rows == [kind : Kinds, st : States \cup {NoSyntax}] \cup {Nothing}

\* Types of the variables; a window that is not shown has no place in the text.
TypeOK ==
  /\ nl \in 0..MaxLines
  /\ line \in [0..nl - 1 -> Kinds]
  /\ syntax \in Syntaxes \cup {NoSyntax}
  /\ lss.count \in 0..MaxLines + 1
  /\ lss.ptr \in [0..lss.count - 1 -> Entries]
  /\ range \in [min : 0..LongMax, max : -1..LongMax]
  /\ shown \subseteq Windows /\ here \in shown
  /\ cy \in [Windows -> 0..nl] /\ vy \in [Windows -> 0..MaxLines]
  /\ old \in [cy : 0..MaxLines, vy : 0..MaxLines]
  /\ all \in BOOLEAN /\ todo \subseteq shown
  /\ batch \in 0..MaxBatch
  /\ pc \in {"idle", "window", "scan", "hole", "add", "draw"}
  /\ at = NoLoop \/ at \in [win : shown, y : 0..LongMax, y2 : 0..LongMax,
                            idx : 0..MaxLines, bi : 0..MaxLines, last : -1..MaxLines]
  /\ drawn \in [Windows -> [0..Height - 1 -> Rows]]

\* A start state that is not marked as invalid is the one that the line above
\* leads to, whatever was inserted, deleted, moved along, filled or drawn; the
\* one that fill_hole is about to compute is excepted.
CacheIsRight ==
  syntax # NoSyntax =>
    /\ lss.count \in 1..nl + 1
    /\ lss.ptr[0] = Entry(Start[syntax])
    /\ \A k \in 1..lss.count - 1 :
         Valid(k) /\ ~(pc = "hole" /\ k = at.idx + 1) =>
           lss.ptr[k].st = After(line[k - 1], lss.ptr[k - 1].st)

\* fill_hole and hl_line start from states that are there and valid, as are all
\* those above; hl_line asserts that they are there.
StartsAreValid ==
  syntax # NoSyntax =>
    /\ pc = "hole" =>
         /\ at.idx < at.last /\ at.last < lss.count
         /\ \A k \in 0..at.idx : Valid(k)
    /\ pc = "draw" /\ at.y < nl /\ at.y < at.y2 =>
         /\ at.y < lss.count
         /\ \A k \in 0..at.y : Valid(k)

\* What the cache holds, and what is taken from it.
CacheIsSound == TypeOK /\ CacheIsRight /\ StartsAreValid

\* The state in which each line starts, from the first line on.
TrueState[k \in Nat] ==
  IF k = 0 THEN Start[syntax] ELSE After(line[k - 1], TrueState[k - 1])

RightRow(y) ==
  IF y >= nl THEN Nothing
  ELSE Row(y, IF syntax = NoSyntax THEN NoSyntax ELSE TrueState[y])

\* Nothing has happened since the last update.
Shown == pc = "idle" /\ batch = 0

\* After an update every row of the only window that shows the Buffer has its
\* line, highlighted from the state in which that line really starts, although
\* only changed lines were drawn, and further ones as long as states changed.
LoneWindowIsRight ==
  Shown /\ shown = {here} =>
    \A r \in 0..Height - 1 : drawn[here][r] = RightRow(vy[here] + r)

\* A row that shows its line after an update is highlighted from the right
\* state, in every window ("Update all visible views containing the current
\* buffer", "More lines need to be updated not because their contents have
\* changed but because their highlight state has").
HighlightIsRight ==
  Shown /\ syntax # NoSyntax =>
    \A w \in shown, r \in 0..Height - 1 :
      LET row == drawn[w][r]
          y == vy[w] + r
      IN  row # Nothing /\ y < nl => (row.kind = line[y] => row = RightRow(y))

\* The iterator of hl_fill_start_states only moves down, and strictly so in a
\* hole: block_iter_move_down is never asked for a negative number of lines, and
\* the loop ends although a hole may be left unfilled.
Advances ==
  pc \in {"scan", "hole", "add"} =>
    /\ at'.bi >= at.bi
    /\ pc = "hole" => at'.bi > at.bi

FillAdvances == [][Advances]_vars
=============================================================================
