------------------------------- MODULE Change -------------------------------
(***************************************************************************)
(* The undo history of one Buffer: src/change.c, with the callers that     *)
(* decide which edits share a Change (insert_ch, delete_ch, erase, and     *)
(* run_command, which brackets every command in begin_change(NONE) and     *)
(* end_change()), and the saved marker set by cmd_save.                    *)
(*                                                                         *)
(* A Change is reversible: it holds where it happened, how many bytes it   *)
(* put there and the bytes it took away.  Undo and redo both "reverse" it  *)
(* in place, which swaps the two roles.  Changes form a tree: cur_change   *)
(* is the node whose text is on screen, "next" leads to the root, redo     *)
(* picks one of the children ("prev").  A command that makes several edits *)
(* puts them between two empty Changes, the chain barriers, and undo and   *)
(* redo then loop over the whole chain; each turn of these loops is one    *)
(* step here, so that an invariant can speak about the middle of a loop.   *)
(***************************************************************************)
EXTENDS Text

CONSTANTS
  Payloads,    \* byte strings that editing commands insert
  InitTexts,   \* contents of the file when it was loaded
  MaxLen,      \* bound: length of the text
  MaxChanges   \* bound: Changes allocated, barriers included

ASSUME PayloadsAssumption == Payloads \subseteq Seq(Bytes)
ASSUME InitTextsAssumption ==
  \A t \in InitTexts : t \in Seq(Bytes) /\ (t # <<>> => t[Len(t)] = NL)
ASSUME BoundsAssumption == MaxLen \in Nat /\ MaxChanges \in Nat

VARIABLES
  text,      \* contents of the Buffer
  point,     \* byte offset of the cursor
  changes,   \* every allocated Change but the root, in order of creation
  cur,       \* Buffer::cur_change; 0 is the root, Buffer::change_head
  saved,     \* Buffer::saved_change
  prevMerge, \* cs.prev_merge
  barrier,   \* cs.barrier is allocated, and not yet part of the tree
  pc,        \* what the running command is in the middle of
  at,        \* the "change" local variable of the loops of undo() and redo()
  snap,      \* history: the text each Change led to
  done,      \* history: the Changes that are applied at present
  savedText  \* history: the bytes most recently written by "save"

bufferVars == <<text, point>>
treeVars == <<changes, cur>>
savedVars == <<saved, savedText>>
vars == <<text, point, changes, cur, saved, prevMerge, barrier, pc, at,
          snap, done, savedText>>

Merges == {"none", "insert", "delete", "erase"}
Ids == 0..Len(changes)
IsBarrier(c) == c = 0 \/ (changes[c].ins = 0 /\ changes[c].buf = <<>>)
Kids(c) == {d \in 1..Len(changes) : changes[d].next = c}
IsNewest(d, c) == d \in Kids(c) /\ \A e \in Kids(c) : e <= d
Modified == saved # cur

-----------------------------------------------------------------------------
(***************************************************************************)
(* What an edit really inserts and deletes: a text that is not empty ends  *)
(* with a newline, and the buffer_*_bytes functions see to it.             *)
(***************************************************************************)
NetInsert(p, ins) ==
  IF p = Len(text) /\ LastByte(ins) # NL THEN Append(ins, NL) ELSE ins

\* Variant with a bug: an off-by-one at the end of the text.
DeletesBeyondLastBytes(p, del) == p + del > Len(text)

WouldDeleteLastBytes(p, del) == p + del >= Len(text)

NetDelete(p, del) ==
  IF WouldDeleteLastBytes(p, del) /\ p > 0 /\ text[p] # NL THEN del - 1 ELSE del

NetReplace(p, del, ins) ==
  IF WouldDeleteLastBytes(p, del) /\ LastByte(ins) # NL THEN del - 1 ELSE del

-----------------------------------------------------------------------------
BarrierRec(next) ==
  [next |-> next, off |-> 0, ins |-> 0, buf |-> <<>>, after |-> FALSE]

ChangeRec(next, off, del, ins, after) ==
  [next |-> next, off |-> off, ins |-> Len(ins),
   buf |-> Slice(text, off, del), after |-> after]

\* The history with the text that Change n leads to.
AddSnap(s, n, t) == [c \in 0..n |-> IF c < n THEN s[c] ELSE t]

\* Allocates a Change below cur, after the pending barrier if there is one.
NewChange(off, del, ins, after) ==
  LET n == Len(changes)
      rec(next) == ChangeRec(next, off, del, ins, after)
      new == Splice(text, off, del, ins)
  IN  IF barrier
      THEN /\ n + 3 <= MaxChanges
           /\ changes' = Append(Append(changes, BarrierRec(cur)), rec(n + 1))
           /\ cur' = n + 2
           /\ done' = done \cup {n + 1, n + 2}
           /\ snap' = AddSnap(AddSnap(snap, n + 1, text), n + 2, new)
      ELSE /\ n + 1 <= MaxChanges
           /\ changes' = Append(changes, rec(cur))
           /\ cur' = n + 1
           /\ done' = done \cup {n + 1}
           /\ snap' = AddSnap(snap, n + 1, new)

\* Variant with a bug: an erasure merged without moving the offset back.
ExtendedInPlace(r, m, bytes, ins) ==
  CASE m = "insert" -> [r EXCEPT !.ins = @ + Len(ins)]
    [] m = "delete" -> [r EXCEPT !.buf = @ \o bytes]
    [] m = "erase"  -> [r EXCEPT !.buf = bytes \o @]

\* A Change extended by an insertion of ins, or a deletion of bytes, next to it.
Extended(r, m, bytes, ins) ==
  CASE m = "insert" -> [r EXCEPT !.ins = @ + Len(ins)]
    [] m = "delete" -> [r EXCEPT !.buf = @ \o bytes]
    [] m = "erase"  -> [r EXCEPT !.buf = bytes \o @, !.off = @ - Len(bytes)]

\* Consecutive insertions, deletions or erasures extend the current Change.
ExtendChange(m, off, del, ins) ==
  /\ changes' = [changes EXCEPT ![cur] =
                   Extended(changes[cur], m, Slice(text, off, del), ins)]
  /\ snap' = [snap EXCEPT ![cur] = Splice(text, off, del, ins)]
  /\ UNCHANGED <<cur, done>>

Record(m, off, del, ins, after) ==
  IF m = prevMerge /\ m # "none"
  THEN ExtendChange(m, off, del, ins)
  ELSE NewChange(off, del, ins, after)

\* do_insert, do_delete or do_replace at off, and the record of it.
Edit(m, off, del, ins, after) ==
  /\ Len(text) - del + Len(ins) <= MaxLen
  /\ text' = Splice(text, off, del, ins)
  /\ Record(m, off, del, ins, after)
  /\ barrier' = FALSE

NoEdit == UNCHANGED <<text, changes, cur, barrier, snap, done>>

\* buffer_insert_bytes
InsertBytes(m, p, ins) ==
  IF ins = <<>> THEN NoEdit ELSE Edit(m, p, 0, NetInsert(p, ins), FALSE)

\* buffer_delete_bytes and buffer_erase_bytes, with the merge they end on
DeleteBytes(m, p, del, after) ==
  CASE del = 0 -> NoEdit /\ prevMerge' = m
    [] del > 0 /\ NetDelete(p, del) = 0 -> NoEdit /\ prevMerge' = "none"
    [] OTHER -> Edit(m, p, NetDelete(p, del), <<>>, after) /\ prevMerge' = m

\* buffer_replace_bytes in a command that leaves the merge at NONE
ReplaceBytes(p, del, ins, after) ==
  CASE del = 0 -> InsertBytes("none", p, ins) /\ prevMerge' = "none"
    [] del > 0 /\ ins = <<>> -> DeleteBytes("none", p, del, after)
    [] OTHER ->
         /\ IF NetReplace(p, del, ins) = 0
            THEN InsertBytes("none", p, ins)
            ELSE Edit("none", p, NetReplace(p, del, ins), ins, FALSE)
         /\ prevMerge' = "none"

-----------------------------------------------------------------------------
(* The keys and commands that edit *)

Idle == pc = "idle"

\* A printable character typed in normal mode, nothing selected.
InsertCh(b) ==
  /\ Idle
  /\ InsertBytes("insert", point, <<b>>)
  /\ point' = point + 1
  /\ prevMerge' = "insert"
  /\ UNCHANGED <<savedVars, pc, at>>

\* The "delete" command, nothing selected.
DeleteCh ==
  /\ Idle
  /\ DeleteBytes("delete", point, IF point = Len(text) THEN 0 ELSE 1, FALSE)
  /\ UNCHANGED <<savedVars, point, pc, at>>

\* Variant with a bug: the cursor stays where it was.
EraseLeavesCursor ==
  LET size == IF point = 0 THEN 0 ELSE 1
  IN  /\ Idle
      /\ DeleteBytes("erase", point - size, size, TRUE)
      /\ UNCHANGED <<savedVars, point, pc, at>>

\* The "erase" command, nothing selected: the cursor moves back first.
Erase ==
  LET size == IF point = 0 THEN 0 ELSE 1
  IN  /\ Idle
      /\ DeleteBytes("erase", point - size, size, TRUE)
      /\ point' = point - size
      /\ UNCHANGED <<savedVars, pc, at>>

\* Any other command that makes one edit at the cursor (paste, cut, insert,
\* new-line, erase-word, a key typed over a selection, ...).
EditCommand(del, ins, after) ==
  /\ Idle
  /\ point + del <= Len(text)
  /\ ReplaceBytes(point, del, ins, after)
  /\ \/ point' = point
     \/ point' = point + Len(ins)
  /\ UNCHANGED <<savedVars, pc, at>>

\* A command that moves the cursor and changes no byte.
Move(p) ==
  /\ Idle
  /\ point' = p
  /\ prevMerge' = "none"
  /\ UNCHANGED <<text, treeVars, savedVars, barrier, pc, at, snap, done>>

-----------------------------------------------------------------------------
(* Commands that make several edits: replace, shift, join, ... *)

BeginChangeChain ==
  /\ Idle
  /\ pc' = "chain"
  /\ barrier' = TRUE
  /\ prevMerge' = "none"
  /\ UNCHANGED <<bufferVars, treeVars, savedVars, at, snap, done>>

ChainEdit(p, del, ins) ==
  /\ pc = "chain"
  /\ p + del <= Len(text)
  /\ Len(changes) + 2 <= MaxChanges     \* leaves room for the end marker
  /\ ReplaceBytes(p, del, ins, FALSE)
  /\ point' = p + Len(ins)
  /\ UNCHANGED <<savedVars, pc, at>>

\* Variant with a bug: the end marker is added though nothing was edited.
EndChangeChainAlwaysMarks ==
  LET n == Len(changes)
  IN  /\ pc = "chain"
      /\ n < MaxChanges
      /\ pc' = "idle"
      /\ barrier' = FALSE
      /\ changes' = Append(changes, BarrierRec(cur))
      /\ cur' = n + 1
      /\ done' = done \cup {n + 1}
      /\ snap' = AddSnap(snap, n + 1, text)
      /\ UNCHANGED <<bufferVars, savedVars, prevMerge, at>>

EndChangeChain ==
  LET n == Len(changes)
  IN  /\ pc = "chain"
      /\ pc' = "idle"
      /\ barrier' = FALSE
      /\ IF barrier
         THEN UNCHANGED <<treeVars, snap, done>>
         ELSE /\ changes' = Append(changes, BarrierRec(cur))
              /\ cur' = n + 1
              /\ done' = done \cup {n + 1}
              /\ snap' = AddSnap(snap, n + 1, text)
      /\ UNCHANGED <<bufferVars, savedVars, prevMerge, at>>

-----------------------------------------------------------------------------
(* undo() and redo() *)

\* Variant with a bug: the bytes that go are not kept.
ReverseChangeForgets(c) ==
  LET r == changes[c]
  IN  /\ text' = Splice(text, r.off, r.ins, r.buf)
      /\ point' = IF r.ins = 0 /\ r.after THEN r.off + Len(r.buf) ELSE r.off
      /\ changes' = [changes EXCEPT ![c] = [r EXCEPT !.ins = Len(r.buf)]]

\* reverse_change
ReverseChange(c) ==
  LET r == changes[c]
  IN  /\ text' = Splice(text, r.off, r.ins, r.buf)
      /\ point' = IF r.ins = 0 /\ r.after THEN r.off + Len(r.buf) ELSE r.off
      /\ changes' = [changes EXCEPT ![c] =
           [r EXCEPT !.ins = Len(r.buf), !.buf = Slice(text, r.off, r.ins)]]

\* Variant with a bug: the next edit may still merge into cur_change.
UndoKeepsMerge ==
  /\ Idle
  /\ cur # 0
  /\ ~IsBarrier(cur)
  /\ done' = done \ {cur}
  /\ ReverseChange(cur)
  /\ cur' = changes[cur].next
  /\ UNCHANGED <<savedVars, prevMerge, barrier, pc, at, snap>>

Undo ==
  /\ Idle
  /\ cur # 0
  /\ prevMerge' = "none"
  /\ done' = done \ {cur}
  /\ IF IsBarrier(cur)
     THEN /\ at' = changes[cur].next
          /\ pc' = "undo"
          /\ UNCHANGED <<bufferVars, treeVars>>
     ELSE /\ ReverseChange(cur)
          /\ cur' = changes[cur].next
          /\ UNCHANGED <<pc, at>>
  /\ UNCHANGED <<savedVars, barrier, snap>>

\* Variant with a bug: the loop does not follow "next".
UndoChainStepStays ==
  /\ pc = "undo"
  /\ ~IsBarrier(at)
  /\ ReverseChange(at)
  /\ UNCHANGED <<savedVars, prevMerge, cur, pc, at, barrier, snap, done>>

UndoChainStep ==
  /\ pc = "undo"
  /\ at # 0
  /\ done' = done \ {at}
  /\ IF IsBarrier(at)
     THEN /\ cur' = changes[at].next
          /\ pc' = "idle"
          /\ at' = 0
          /\ UNCHANGED <<bufferVars, changes>>
     ELSE /\ ReverseChange(at)
          /\ at' = changes[at].next
          /\ UNCHANGED <<cur, pc>>
  /\ UNCHANGED <<savedVars, prevMerge, barrier, snap>>

\* "redo" takes the newest child, "redo n" any of them.
Redo(c) ==
  /\ Idle
  /\ c \in Kids(cur)
  /\ prevMerge' = "none"
  /\ done' = done \cup {c}
  /\ IF IsBarrier(c)
     THEN /\ at' = c
          /\ pc' = "redo"
          /\ UNCHANGED <<bufferVars, treeVars>>
     ELSE /\ ReverseChange(c)
          /\ cur' = c
          /\ UNCHANGED <<pc, at>>
  /\ UNCHANGED <<savedVars, barrier, snap>>

\* Variant with a bug: cur_change is left one short of the end of the chain.
RedoChainStepStopsShort ==
  /\ pc = "redo"
  /\ \E c \in Kids(at) :
       /\ IsNewest(c, at)
       /\ IF IsBarrier(c)
          THEN /\ cur' = at
               /\ pc' = "idle"
               /\ at' = 0
               /\ UNCHANGED <<bufferVars, changes, done>>
          ELSE /\ ReverseChange(c)
               /\ at' = c
               /\ done' = done \cup {c}
               /\ UNCHANGED <<cur, pc>>
  /\ UNCHANGED <<savedVars, prevMerge, barrier, snap>>

RedoChainStep ==
  /\ pc = "redo"
  /\ \E c \in Kids(at) :
       /\ IsNewest(c, at)
       /\ done' = done \cup {c}
       /\ IF IsBarrier(c)
          THEN /\ cur' = c
               /\ pc' = "idle"
               /\ at' = 0
               /\ UNCHANGED <<bufferVars, changes>>
          ELSE /\ ReverseChange(c)
               /\ at' = c
               /\ UNCHANGED <<cur, pc>>
  /\ UNCHANGED <<savedVars, prevMerge, barrier, snap>>

\* Variant with a bug: the next edit may still merge into the saved Change.
SaveKeepsMerge ==
  /\ Idle
  /\ saved' = cur
  /\ savedText' = text
  /\ UNCHANGED <<bufferVars, treeVars, prevMerge, barrier, pc, at, snap, done>>

\* cmd_save, once the file is written
Save ==
  /\ Idle
  /\ saved' = cur
  /\ savedText' = text
  /\ prevMerge' = "none"
  /\ UNCHANGED <<bufferVars, treeVars, barrier, pc, at, snap, done>>

-----------------------------------------------------------------------------
Init ==
  /\ text \in InitTexts
  /\ point = 0
  /\ changes = <<>>
  /\ cur = 0
  /\ saved = 0
  /\ prevMerge = "none"
  /\ barrier = FALSE
  /\ pc = "idle"
  /\ at = 0
  /\ snap = [c \in {0} |-> text]
  /\ done = {0}
  /\ savedText = text

Next ==
  \/ \E b \in Bytes \ {NL} : InsertCh(b)
  \/ DeleteCh
  \/ Erase
  \/ \E del \in 0..Len(text), ins \in Payloads, after \in BOOLEAN :
       EditCommand(del, ins, after)
  \/ \E p \in 0..Len(text) : Move(p)
  \/ BeginChangeChain
  \/ \E p, del \in 0..Len(text), ins \in Payloads : ChainEdit(p, del, ins)
  \/ EndChangeChain
  \/ Undo
  \/ UndoChainStep
  \/ \E c \in 1..Len(changes) : Redo(c)
  \/ RedoChainStep
  \/ Save

\* The loops of undo() and redo() run until they are done.
Fairness == WF_vars(UndoChainStep) /\ WF_vars(RedoChainStep)

Spec == Init /\ [][Next]_vars /\ Fairness

-----------------------------------------------------------------------------
(* Properties *)

\* The position in the tree that the text corresponds to at this moment.
Here == IF pc \in {"undo", "redo"} THEN at ELSE cur

ChangeRecs ==
  [next : Nat, off : Nat, ins : Nat, buf : Seq(Bytes), after : BOOLEAN]

\* Types of the variables; a Change is created after its parent.
TypeOK ==
  /\ text \in Seq(Bytes)
  /\ point \in 0..Len(text)
  /\ changes \in Seq(ChangeRecs)
  /\ \A c \in 1..Len(changes) : changes[c].next < c
  /\ cur \in Ids /\ saved \in Ids /\ at \in Ids
  /\ prevMerge \in Merges
  /\ barrier \in BOOLEAN
  /\ pc \in {"idle", "chain", "undo", "redo"}
  /\ snap \in [Ids -> Seq(Bytes)]
  /\ done \subseteq Ids
  /\ savedText \in Seq(Bytes)

\* Blocks hold whole lines, so every edit, undo and redo must leave a text
\* that is empty or ends with a newline (the force-newline and keep-newline
\* rules of buffer_insert_bytes, buffer_delete_bytes, buffer_replace_bytes).
TextEndsWithNewline == text = <<>> \/ LastByte(text) = NL

\* Undo and redo are exact: wherever cur_change stands in the tree, and in
\* the middle of the loop over a chain too, the text is the one that was
\* there when that Change was made, byte for byte.
HistoryIsExact == text = snap[Here]

\* buffer_modified() may answer "no" only when the text is what was last
\* written to the file; closing the buffer then loses nothing.
UnmodifiedIsSaved == Idle /\ ~Modified => text = savedText

\* The number of open chains at each Change, on the way from the root.
Depth[c \in Ids] ==
  IF c = 0 THEN 0
  ELSE IF IsBarrier(c) THEN 1 - Depth[changes[c].next] ELSE Depth[changes[c].next]

\* Chains are whole: between commands cur_change and saved_change stand
\* outside every chain, a chain is not empty, and each Change inside a chain
\* has exactly one successor, so that the loops of undo() and redo(), which
\* follow it without looking, always meet the barrier they run to.
ChainsAreWhole ==
  /\ Idle => Depth[cur] = 0
  /\ Depth[saved] = 0
  /\ \A c \in 1..Len(changes) :
       /\ Depth[c] = 1 =>
            \/ pc = "chain" /\ c = cur /\ Kids(c) = {}
            \/ \E d \in 1..Len(changes) : Kids(c) = {d}
       /\ (IsBarrier(c) /\ Depth[c] = 0) => ~IsBarrier(changes[c].next)

\* A Change that undo, redo or the saved marker can come back to is never
\* rewritten: merging only ever extends a leaf that is not the saved state.
HistoryIsFrozen ==
  [][\A c \in Ids : snap'[c] # snap[c] =>
       c = cur /\ c # 0 /\ c # saved /\ Kids(c) = {}]_vars

\* The loops of undo() and redo() over a chain come to an end.
LoopsTerminate == pc \in {"undo", "redo"} ~> Idle
=============================================================================
