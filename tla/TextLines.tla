----------------------------- MODULE TextLines -----------------------------
(* Newlines in a text, and the records in which the operations on a text   *)
(* are called and answered, for FlatText and for TextBlocks.               *)
EXTENDS Text, FiniteSets

\* count_nl
Newlines(t) == Cardinality({i \in DOMAIN t : t[i] = NL})

\* A text, and a Block, ends with a newline.
IsWhole(t) == Len(t) \in {0} \cup {i \in DOMAIN t : t[i] = NL}

Called(op, n, ins) == [op |-> op, n |-> n, ins |-> ins]

\* An edit tells the line of the cursor, the newlines that went and came, and
\* the bytes that went; a move tells how far it went.
Told(line, gone, come, bytes) ==
  [line |-> line, gone |-> gone, come |-> come, bytes |-> bytes, moved |-> 0]
Moved(n) == [line |-> 0, gone |-> 0, come |-> 0, bytes |-> <<>>, moved |-> n]
=============================================================================
