----------------------------- MODULE TextBlocks -----------------------------
(***************************************************************************)
(* The text of a Buffer as a list of Blocks (src/block.c), the edits that  *)
(* grow, split, merge and free them (src/edit.c), and the moves of a       *)
(* cursor through them (src/block-iter.c).                                 *)
(*                                                                         *)
(* A Block holds whole lines and counts its newlines.  A cursor is a Block *)
(* and an offset in it, so that most offsets between two Blocks have two   *)
(* cursors.  Each operation of the source is an action; only the slow path *)
(* of do_replace, which is a deletion and an insertion, takes two steps.   *)
(* Loops over Blocks are written by the Block they stop at.                *)
(***************************************************************************)
EXTENDS TextLines, SequencesExt

CONSTANTS
  EditSize,       \* BLOCK_EDIT_SIZE
  AllocMultiple,  \* BLOCK_ALLOC_MULTIPLE
  LoadSize,       \* least size of a Block of a file that is loaded (8192)
  Payloads,       \* byte strings that are inserted
  InitTexts,      \* files that are loaded
  MaxText          \* bound: length of the text

ASSUME TextsAssumption ==
  Payloads \subseteq Seq(Bytes) \ {<<>>} /\ InitTexts \subseteq Seq(Bytes)
ASSUME SizesAssumption ==
  /\ {EditSize, AllocMultiple, LoadSize} \subseteq Nat \ {0}
  /\ MaxText \in Nat

VARIABLES
  blocks,   \* Buffer::blocks
  cursor,   \* View::cursor: the place of its Block in the list, and the offset
  nl,       \* Buffer::nl
  pending,  \* what the slow path of do_replace has yet to insert
  call,     \* history: the last operation
  answer    \* history: what it told

textVars == <<blocks, nl>>
blockVars == <<blocks, cursor, nl, pending, call, answer>>

-----------------------------------------------------------------------------
(* Blocks *)

NextMultiple(n) == ((n + AllocMultiple - 1) \div AllocMultiple) * AllocMultiple

\* block_new, filled with bytes
NewBlock(data, alloc) == [data |-> data, nl |-> Newlines(data), alloc |-> NextMultiple(alloc)]

\* block_grow
Grown(alloc, size) == IF size > alloc THEN NextMultiple(size) ELSE alloc

BlockSize(b) == Len(b.data)
Lacks(b) == ~IsWhole(b.data)

\* The bytes before Block i of the list; behind the last one, all of them.
Start(list) ==
  LET s[i \in 1..Len(list) + 1] == IF i = 1 THEN 0 ELSE s[i - 1] + BlockSize(list[i - 1])
  IN  s

Flat(list) == FlattenSeq([i \in DOMAIN list |-> list[i].data])
Total == Start(blocks)[Len(blocks) + 1]
Sum(f, n) == LET s[i \in 0..n] == IF i = 0 THEN 0 ELSE s[i - 1] + f[i] IN s[n]

At(blk, off) == [blk |-> blk, off |-> off]
BlockOf(c) == blocks[c.blk]
HasNext(c) == c.blk < Len(blocks)

\* block_iter_get_offset
Offset(c) == Start(blocks)[c.blk] + c.off

\* The first Block from i on, in which a walk to offset p ends.
FirstTo(list, i, p) ==
  LET b == Min({j \in i..Len(list) : p <= Start(list)[j] + BlockSize(list[j])})
  IN  At(b, p - Start(list)[b])

\* view_update_cursor_y
CursorY(list, c) ==
  Sum([i \in DOMAIN list |-> list[i].nl], c.blk - 1) + Newlines(SubSeq(list[c.blk].data, 1, c.off))

-----------------------------------------------------------------------------
(* Moves *)

\* block_iter_normalize
Normalize(c) == IF c.off = BlockSize(BlockOf(c)) /\ HasNext(c) THEN At(c.blk + 1, 0) ELSE c

\* block_iter_bol
Bol(c) ==
  LET n == Normalize(c)
      b == BlockOf(n)
  IN  IF n.off = 0 \/ b.data[n.off] = NL THEN n
      ELSE IF b.nl = 1 THEN At(n.blk, 0)
      ELSE At(n.blk, Max({0} \cup {i \in 1..n.off - 1 : b.data[i] = NL}))

\* block_iter_eol
Eol(c) ==
  LET n == Normalize(c)
      b == BlockOf(n)
  IN  IF n.off = BlockSize(b) THEN n
      ELSE IF b.nl = 1 THEN At(n.blk, BlockSize(b) - 1)
      ELSE At(n.blk, Min({BlockSize(b)} \cup {i \in n.off..BlockSize(b) - 1 : b.data[i + 1] = NL}))

\* block_iter_next_char, of bytes
NextChar(c) ==
  LET n == Normalize(c) IN IF n.off = BlockSize(BlockOf(n)) THEN n ELSE At(n.blk, n.off + 1)

\* Variant with a bug: at the first Block the offset is taken back all the same.
PrevCharAlways(c) ==
  IF c.off > 0 \/ c.blk = 1 THEN At(c.blk, c.off - 1)
  ELSE At(c.blk - 1, BlockSize(blocks[c.blk - 1]) - 1)

\* block_iter_prev_char, of bytes
PrevChar(c) ==
  CASE c.off > 0 -> At(c.blk, c.off - 1)
    [] c.off = 0 /\ c.blk > 1 -> At(c.blk - 1, BlockSize(blocks[c.blk - 1]) - 1)
    [] c.off = 0 /\ c.blk = 1 -> c

EatLine(c) == NextChar(Eol(c))
IsEof(c) == c.off = BlockSize(BlockOf(c)) /\ ~HasNext(c)
IsBof(c) == c.off = 0 /\ c.blk = 1

NextLine(c) == IF IsEof(EatLine(c)) THEN c ELSE EatLine(c)
PrevLine(c) == IF IsBof(Bol(c)) THEN c ELSE Bol(PrevChar(Bol(c)))

\* block_iter_skip_bytes, block_iter_back_bytes, block_iter_goto_offset
SkipBytes(c, n) == FirstTo(blocks, c.blk, Offset(c) + n)
BackBytes(c, n) ==
  LET p == Offset(c) - n
      b == Max({j \in 1..c.blk : Start(blocks)[j] <= p})
  IN  At(b, p - Start(blocks)[b])
ToOffset(n) == FirstTo(blocks, 1, n)

\* block_iter_goto_line
GotoLine(n) ==
  LET lines(j) == Sum([i \in DOMAIN blocks |-> blocks[i].nl], j)
      b == Min({j \in DOMAIN blocks : j = Len(blocks) \/ lines(j) >= n})
      eaten[k \in 0..n - lines(b - 1)] == IF k = 0 THEN At(b, 0) ELSE EatLine(eaten[k - 1])
  IN  eaten[n - lines(b - 1)]

Idle == pending = <<>>

\* A move of the current cursor to c, which reports that it moved by n bytes.
Go(op, arg, c, n) ==
  /\ cursor' = c
  /\ call' = Called(op, arg, <<>>)
  /\ answer' = Moved(n)
  /\ UNCHANGED <<textVars, pending>>

Forward(op, c) == Go(op, 0, c, Offset(c) - Offset(cursor))
Backward(op, c) == Go(op, 0, c, Offset(cursor) - Offset(c))

-----------------------------------------------------------------------------
(* do_insert *)

\* What an insertion leaves: the Blocks, the cursor, the newlines that came.
Result(list, c, come) == [list |-> list, cursor |-> c, come |-> come]

\* insert_to_current
InsertToCurrent(c, ins) ==
  LET b == BlockOf(c)
      new == [data |-> Splice(b.data, c.off, 0, ins),
              nl |-> b.nl + Newlines(ins),
              alloc |-> Grown(b.alloc, BlockSize(b) + Len(ins))]
  IN  Result([blocks EXCEPT ![c.blk] = new], c, Newlines(ins))

\* Where a line ends that begins after "start" bytes of t or later
LineEnds(t, start) == {e \in start + 1..Len(t) : t[e] = NL \/ e = Len(t)}

\* Variant with a bug: a line is added as long as there was room before it.
PieceEndLate(t, start, limit) ==
  LET full == {e \in LineEnds(t, start) : e - start >= limit}
  IN  IF full = {} THEN Len(t) ELSE Min(full)

\* As many lines as fit, or else one
PieceEnd(t, start, limit) ==
  LET fit == {e \in LineEnds(t, start) : e - start <= limit}
  IN  IF fit = {} THEN Min(LineEnds(t, start)) ELSE Max(fit)

\* The bytes t cut into pieces for one Block each
Packed(t, limit) ==
  LET from[start \in 0..Len(t)] ==
        IF start = Len(t) THEN <<>>
        ELSE LET end == PieceEnd(t, start, limit)
             IN  <<SubSeq(t, start + 1, end)>> \o from[end]
  IN  from[0]

\* split_and_insert
SplitAndInsert(c, ins) ==
  LET b == BlockOf(c)
      pieces == Packed(Splice(b.data, c.off, 0, ins), EditSize)
      new == [i \in DOMAIN pieces |-> NewBlock(pieces[i], Len(pieces[i]))]
      list == ReplaceSubSeqAt(c.blk, new, <<b>>, blocks)
  IN  Result(list, FirstTo(list, c.blk, Offset(c)),
             Sum([i \in DOMAIN new |-> new[i].nl], Len(new)) - b.nl)

\* insert_bytes
InsertBytes(ins) ==
  LET c == Normalize(cursor)
      b == BlockOf(c)
      size == BlockSize(b) + Len(ins)
  IN  IF \/ size <= b.alloc \/ size <= EditSize
         \/ b.nl <= 1 /\ Newlines(ins) = 0
      THEN InsertToCurrent(c, ins)
      ELSE SplitAndInsert(c, ins)

DoInsert(ins) ==
  LET r == InsertBytes(ins)
  IN  /\ blocks' = r.list
      /\ cursor' = r.cursor
      /\ nl' = nl + r.come
      /\ call' = Called("insert", 0, ins)
      /\ answer' = Told(CursorY(r.list, r.cursor), 0, r.come, <<>>)

-----------------------------------------------------------------------------
(* do_delete *)

Within(n, size) == Max({0, Min({n, size})})

\* Block i without those of its bytes that are among the len after the cursor
Shrunk(c, i, len) ==
  LET b == blocks[i]
      from == Within(Offset(c) - Start(blocks)[i], BlockSize(b))
      to == Within(Offset(c) + len - Start(blocks)[i], BlockSize(b))
  IN  [b EXCEPT !.data = Splice(@, from, to - from, <<>>),
                !.nl = @ - Newlines(Slice(b.data, from, to - from))]

\* Emptied Blocks are freed; the only Block stays.
Unfreed(list) ==
  LET left == SelectSeq(list, LAMBDA b : BlockSize(b) > 0)
  IN  IF left = <<>> THEN <<list[Len(list)]>> ELSE left

\* Variant with a bug: the cursor goes to the start of the last Block.
CursorAfterStart(list, c) ==
  IF c.off = 0 /\ c.blk > Len(list) THEN At(Len(list), 0) ELSE c

\* The cursor, if its Block may have been freed, is in the next one.
CursorAfter(list, c) ==
  CASE c.off > 0 -> c
    [] c.off = 0 /\ c.blk <= Len(list) -> c
    [] c.off = 0 /\ c.blk > Len(list) -> At(Len(list), BlockSize(list[Len(list)]))

\* Variant with a bug: the rest of a line stays in a Block of its own.
MergedNever(list, i) == list

\* A Block that lost its last newline is joined with the next one.
Merged(list, i) ==
  IF Lacks(list[i]) /\ i < Len(list)
  THEN LET b == list[i]
           next == list[i + 1]
       IN  ReplaceAt(RemoveAt(list, i + 1), i,
                     [data |-> b.data \o next.data, nl |-> b.nl + next.nl,
                      alloc |-> Grown(b.alloc, BlockSize(b) + BlockSize(next))])
  ELSE list

DoDelete(c, len) ==
  LET bytes == Slice(Flat(blocks), Offset(c), len)
      left == Unfreed([i \in DOMAIN blocks |-> Shrunk(c, i, len)])
      after == CursorAfter(left, c)
      list == Merged(left, after.blk)
  IN  /\ blocks' = list
      /\ cursor' = after
      /\ nl' = nl - Newlines(bytes)
      /\ call' = Called("delete", len, <<>>)
      /\ answer' = Told(CursorY(list, after), Newlines(bytes), 0, bytes)

-----------------------------------------------------------------------------
(* The edits, as the functions of src/change.c call them *)

\* would_delete_last_bytes
WouldDeleteLastBytes(del) == Offset(cursor) + del >= Total

InsertText(ins) ==
  /\ Idle
  /\ Total + Len(ins) <= MaxText
  /\ IsEof(cursor) => LastByte(ins) = NL
  /\ DoInsert(ins)
  /\ UNCHANGED pending

DeleteText(del) ==
  /\ Idle
  /\ Offset(cursor) + del <= Total
  /\ WouldDeleteLastBytes(del) => IsWhole(SubSeq(Flat(blocks), 1, Offset(cursor)))
  /\ DoDelete(cursor, del)
  /\ UNCHANGED pending

Replaceable(del, ins) ==
  /\ Idle
  /\ Offset(cursor) + del <= Total
  /\ Total - del + Len(ins) <= MaxText
  /\ WouldDeleteLastBytes(del) => LastByte(ins) = NL

\* The modification of do_replace is not limited to one Block, or splits it.
IsSlow(c, del, ins) ==
  LET b == BlockOf(c)
  IN  \/ del >= BlockSize(b) - c.off
      \/ /\ BlockSize(b) + Len(ins) - del > EditSize
         /\ b.nl > 1 \/ Newlines(ins) > 0

\* do_replace within a Block
ReplaceFast(del, ins) ==
  LET c == Normalize(cursor)
      b == BlockOf(c)
      bytes == Slice(b.data, c.off, del)
      new == [data |-> Splice(b.data, c.off, del, ins),
              nl |-> b.nl - Newlines(bytes) + Newlines(ins),
              alloc |-> Grown(b.alloc, BlockSize(b) + Len(ins) - del)]
      list == [blocks EXCEPT ![c.blk] = new]
  IN  /\ Replaceable(del, ins)
      /\ ~IsSlow(c, del, ins)
      /\ blocks' = list
      /\ cursor' = c
      /\ nl' = nl - Newlines(bytes) + Newlines(ins)
      /\ call' = Called("replace", del, ins)
      /\ answer' = Told(CursorY(list, c), Newlines(bytes), Newlines(ins), bytes)
      /\ UNCHANGED pending

\* The first half of the slow path of do_replace, and the second
ReplaceSlow(del, ins) ==
  /\ Replaceable(del, ins)
  /\ IsSlow(Normalize(cursor), del, ins)
  /\ DoDelete(Normalize(cursor), del)
  /\ pending' = ins

FinishReplace ==
  /\ ~Idle
  /\ DoInsert(pending)
  /\ pending' = <<>>

-----------------------------------------------------------------------------
\* add_utf8_line
AddLine(list, line) ==
  LET whole == IF IsWhole(line) THEN line ELSE Append(line, NL)
      n == Len(list)
  IN  IF n > 0 /\ Len(whole) <= list[n].alloc - BlockSize(list[n])
      THEN [list EXCEPT ![n].data = @ \o whole, ![n].nl = @ + 1]
      ELSE Append(list, NewBlock(whole, Max({Len(whole), LoadSize})))

\* file_decoder_read_utf8, fixup_blocks
Loaded(t) ==
  LET add[e \in {0} \cup LineEnds(t, 0)] ==
        IF e = 0 THEN <<>>
        ELSE LET before == Max({0} \cup {d \in LineEnds(t, 0) : d < e})
             IN  AddLine(add[before], SubSeq(t, before + 1, e))
  IN  IF t = <<>> THEN <<NewBlock(<<>>, 1)>> ELSE add[Len(t)]

BlocksInit ==
  /\ blocks \in {Loaded(t) : t \in InitTexts}
  /\ cursor = At(1, 0)
  /\ nl = Newlines(Flat(blocks))
  /\ pending = <<>>
  /\ call = Called("load", 0, <<>>)
  /\ answer = Moved(0)

Step ==
  \/ Backward("bol", Bol(cursor)) \/ Forward("eol", Eol(cursor))
  \/ Forward("eat_line", EatLine(cursor))
  \/ Forward("next_line", NextLine(cursor)) \/ Backward("prev_line", PrevLine(cursor))
  \/ Forward("next_char", NextChar(cursor)) \/ Backward("prev_char", PrevChar(cursor))

JumpTo ==
  \E n \in 0..Total + 1 :
    \/ n <= Total - Offset(cursor) /\ Go("skip_bytes", n, SkipBytes(cursor, n), 0)
    \/ n <= Offset(cursor) /\ Go("back_bytes", n, BackBytes(cursor, n), 0)
    \/ n <= Total /\ Go("goto_offset", n, ToOffset(n), 0)
    \/ Go("goto_line", n, GotoLine(n), 0)

Edit ==
  \/ \E ins \in Payloads : InsertText(ins)
  \/ \E del \in 1..Total :
       \/ DeleteText(del)
       \/ \E ins \in Payloads : ReplaceFast(del, ins) \/ ReplaceSlow(del, ins)

BlocksNext == (Idle /\ (Step \/ JumpTo)) \/ Edit \/ FinishReplace

BlocksSpec == BlocksInit /\ [][BlocksNext]_blockVars

-----------------------------------------------------------------------------
(* Properties *)

BlockRecs == [data : Seq(Bytes), nl : Nat, alloc : Nat]

\* Types of the variables; the cursor never leaves the list and has an offset.
BlocksTypeOK ==
  /\ blocks \in Seq(BlockRecs) /\ blocks # <<>>
  /\ cursor \in [blk : DOMAIN blocks, off : Nat]
  /\ nl \in Nat
  /\ pending \in Payloads \cup {<<>>}

\* The assertions of sanity_check_blocks and block_sanity_check: whatever was
\* split, merged and freed, Blocks hold whole lines, know their newlines and
\* have the memory for them, only the one of an empty text is empty, and the
\* cursor is in one of them.  Between the two halves of a replacement the text,
\* and so its last Block, may lack its newline.
BlocksAreSane ==
  /\ cursor.off <= BlockSize(BlockOf(cursor))
  /\ nl = Sum([i \in DOMAIN blocks |-> blocks[i].nl], Len(blocks))
  /\ \A i \in DOMAIN blocks :
       LET b == blocks[i]
       IN  /\ b.nl = Newlines(b.data)
           /\ BlockSize(b) <= b.alloc /\ b.alloc >= AllocMultiple
           /\ BlockSize(b) = 0 => Len(blocks) = 1
           /\ Lacks(b) => ~Idle /\ i = Len(blocks)

\* "Size of any block can be larger than BLOCK_EDIT_SIZE only if there's a very
\* long line", of the Blocks that split_and_insert makes (src/edit.c).
SplitsFit ==
  [][Len(blocks') > Len(blocks) =>
       \A b \in Range(blocks') \ Range(blocks) : BlockSize(b) <= EditSize \/ b.nl = 1]_blockVars

\* Seen from outside there are no Blocks: each operation does to the flat text
\* and to the offset of the cursor what it should, and tells the right bytes,
\* line numbers and distances.
Flattened == INSTANCE FlatText WITH text <- Flat(blocks), point <- Offset(cursor)
ImplementsFlatText == Flattened!Spec

\* Seen from outside a text, and inside sane Blocks that are not too large
\* (the three properties above).
BlocksHoldText ==
  ImplementsFlatText /\ SplitsFit /\ [][BlocksTypeOK' /\ BlocksAreSane']_blockVars
=============================================================================
