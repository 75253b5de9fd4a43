------------------------------ MODULE FlatText ------------------------------
(***************************************************************************)
(* What the text of a Buffer and the operations on it promise to the rest  *)
(* of the editor: one sequence of bytes and an offset in it.  The editing  *)
(* operations are those that src/change.c calls (do_insert, do_delete,     *)
(* do_replace of src/edit.h), the others are the moves of an iterator      *)
(* (src/block-iter.h).  Module TextBlocks implements this with Blocks.     *)
(*                                                                         *)
(* "call" is the last operation and its arguments, "answer" what it told   *)
(* its caller and the highlighter.                                         *)
(***************************************************************************)
EXTENDS TextLines, FiniteSetsExt

CONSTANT Payloads  \* byte strings that are inserted

VARIABLES text, point, nl, call, answer
flatVars == <<text, point, nl, call, answer>>

\* An edit replaces del bytes after the offset by ins, and leaves the offset.
Edit(op, del, ins) ==
  LET bytes == Slice(text, point, del)
  IN  /\ call' = Called(op, del, ins)
      /\ point + del <= Len(text)
      /\ text' = Splice(text, point, del, ins)
      /\ point' = point
      /\ nl' = Newlines(text')
      /\ answer' = Told(Newlines(SubSeq(text, 1, point)), Newlines(bytes),
                        Newlines(ins), bytes)

-----------------------------------------------------------------------------
\* Lines are what is between newlines.
LineStart(p) == Max({0} \cup {q \in 1..p : text[q] = NL})
LineEnd(p) == Min({Len(text)} \cup {q \in p..Len(text) - 1 : text[q + 1] = NL})
AfterLine(p) == Min({Len(text), LineEnd(p) + 1})

\* The start of line number n, or the end of the text if there is none.
LineOffset(n) ==
  Min({Len(text)} \cup {p \in 0..Len(text) : Newlines(SubSeq(text, 1, p)) = n})

Moves == {"bol", "eol", "eat_line", "next_line", "prev_line", "next_char", "prev_char"}

\* Where a move leads from offset p.
Destination(op, p) ==
  CASE op = "bol" -> LineStart(p)
    [] op = "eol" -> LineEnd(p)
    [] op = "eat_line" -> AfterLine(p)
    [] op = "next_line" -> IF AfterLine(p) = Len(text) THEN p ELSE AfterLine(p)
    [] op = "prev_line" -> IF LineStart(p) = 0 THEN p ELSE LineStart(LineStart(p) - 1)
    [] op = "next_char" -> Min({Len(text), p + 1})
    [] op = "prev_char" -> Max({0, p - 1})

\* Moves that report the bytes they moved by
Move(op) ==
  LET q == Destination(op, point)
  IN  /\ call' = Called(op, 0, <<>>)
      /\ point' = q
      /\ answer' = Moved(IF point < q THEN q - point ELSE point - q)
      /\ UNCHANGED <<text, nl>>

\* Moves by a number of bytes, or to an offset or a line
Jump(op, n, q) ==
  /\ call' = Called(op, n, <<>>)
  /\ q \in 0..Len(text)
  /\ point' = q
  /\ answer' = Moved(0)
  /\ UNCHANGED <<text, nl>>

Init ==
  /\ text \in Seq(Bytes) /\ IsWhole(text)
  /\ point = 0
  /\ nl = Newlines(text)
  /\ call = Called("load", 0, <<>>)
  /\ answer = Moved(0)

Next ==
  \/ \E op \in Moves : Move(op)
  \/ \E n \in 0..Len(text) + 1 :
       \/ Jump("skip_bytes", n, point + n)
       \/ Jump("back_bytes", n, point - n)
       \/ Jump("goto_offset", n, n)
       \/ Jump("goto_line", n, LineOffset(n))
  \/ \E ins \in Payloads : Edit("insert", 0, ins)
  \/ \E del \in 1..Len(text) :
       \/ Edit("delete", del, <<>>)
       \/ \E ins \in Payloads : Edit("replace", del, ins)

Spec == Init /\ [][Next]_flatVars
=============================================================================
