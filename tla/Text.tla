-------------------------------- MODULE Text --------------------------------
(***************************************************************************)
(* The contents of a Buffer seen as one sequence of bytes, and the two     *)
(* operations every edit comes down to: do_replace (of which do_insert and *)
(* do_delete are the cases without deleted and without inserted bytes) and *)
(* the bytes it returns.  Offsets count from 0, as they do in the source.  *)
(***************************************************************************)
EXTENDS Integers, Sequences

CONSTANTS
  Bytes,  \* the bytes a text is made of
  NL      \* the newline byte

ASSUME BytesAssumption == NL \in Bytes

\* The text with del bytes after offset off replaced by the bytes ins.
Splice(t, off, del, ins) ==
  SubSeq(t, 1, off) \o ins \o SubSeq(t, off + del + 1, Len(t))

\* The n bytes after offset off.
Slice(t, off, n) == SubSeq(t, off + 1, off + n)

LastByte(t) == t[Len(t)]
=============================================================================
