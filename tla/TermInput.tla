------------------------------ MODULE TermInput ------------------------------
(***************************************************************************)
(* The input buffer between the terminal and the main loop: module         *)
(* terminal/input.c, and the pastes of terminal/paste.c.                   *)
(*                                                                         *)
(* The terminal sends the bytes of an event whole or in two parts.  A read *)
(* takes what is there, up to the room that is left in the buffer.  A      *)
(* terminal with the Kitty keyboard protocol encodes every key without     *)
(* ambiguity; for any other one the code goes by what is in the buffer and *)
(* by a timeout.                                                           *)
(***************************************************************************)
EXTENDS TermParse

CONSTANTS
  InbufSize,  \* TERM_INBUF_SIZE
  PasteMin,   \* more bytes than this that are all text are a paste
  MaxEvents,  \* bound: events that the terminal sends
  Hasty       \* does the user of an old terminal type on after an Escape?

VARIABLES
  family, \* the terminal: with the keyboard protocol of kitty, or one of the others
  buf,    \* TermInputBuffer
  trunc,  \* can_be_truncated
  at,     \* where term_read_input is: what it waits for
  str,    \* the paste that is being read
  tty,    \* what the terminal has sent
  rest,   \* the second part of an event, still to be sent
  sent,   \* history: the events
  keys    \* history: what term_read_input has returned

inputVars == <<family, buf, trunc, at, str, tty, rest, sent, keys>>

-----------------------------------------------------------------------------
(* The terminal *)

kitty == family = "kitty"

START == <<ESC, "[", "2", "0", "0", "~">>
DELIM == <<ESC, "E">>  \* stands for ESC [ 2 0 1 ~
TextBytes == {"x", "A"}

Up == [bytes |-> <<ESC, "[", "A">>, key |-> <<0, "up", 0>>]
Key(b) == [bytes |-> <<b>>, key |-> <<0, b, 0>>]
Alt == [bytes |-> <<ESC, "x">>, key |-> <<META, "x", 0>>]
F1 == [bytes |-> <<ESC, "[", "[", "A">>, key |-> <<0, "f1", 0>>]
AltUp == [bytes |-> <<ESC, ESC, "[", "A">>, key |-> <<META, "up", 0>>]
ShiftInsert == [bytes |-> <<ESC, "[", "2", "$">>, key |-> <<SHIFT, "insert", 0>>]
Escape == [bytes |-> <<ESC>>, key |-> <<0, "escape", 0>>]
CsiEscape == [bytes |-> <<ESC, "[", "2", "7", "u">>, key |-> <<0, "escape", 0>>]
\* A sequence that the terminal gives up
GivenUp == [bytes |-> <<ESC, "[", "1", "CAN">>, key |-> <<0, "none", 0>>]
Paste(t) == [bytes |-> START \o t \o DELIM, key |-> <<0, "paste", t>>]

KittyEvents == {Key("x"), Up, GivenUp, CsiEscape, Paste(<<"x", "A", "x">>)}
OldEvents ==
  CASE family = "linux" -> {Key("x"), F1}
    [] family = "rxvt" -> {Key("x"), AltUp, ShiftInsert}
    [] OTHER -> {Key("x"), Up}
SlowEvents == {Escape, Alt}

Quiet == tty = <<>> /\ rest = <<>> /\ buf = <<>> /\ at = "start"

\* Without the protocol an event arrives whole, and Escape and Alt are
\* pressed alone; with it, it is split anywhere.
Send ==
  /\ rest = <<>> /\ Len(sent) < MaxEvents
  /\ \E e \in IF kitty THEN KittyEvents ELSE OldEvents \cup SlowEvents :
       /\ ~kitty /\ ~Hasty /\ (e \in SlowEvents \/ (sent # <<>> /\ Last(sent) \in SlowEvents))
            => Quiet
       /\ \E k \in IF kitty THEN 1..Len(e.bytes) ELSE {Len(e.bytes)} :
            /\ tty' = tty \o SubSeq(e.bytes, 1, k)
            /\ rest' = SubSeq(e.bytes, k + 1, Len(e.bytes))
       /\ sent' = Append(sent, e)
  /\ UNCHANGED <<family, buf, trunc, at, str, keys>>

Arrive ==
  /\ rest # <<>>
  /\ tty' = tty \o rest
  /\ rest' = <<>>
  /\ UNCHANGED <<family, buf, trunc, at, str, sent, keys>>

-----------------------------------------------------------------------------
(* The buffer *)

Least(m, n) == IF m < n THEN m ELSE n

\* read and fill_buffer: what is there, as far as there is room
CanFill(b) == tty # <<>> /\ Len(b) < InbufSize
Taken(b) == SubSeq(tty, 1, Least(InbufSize - Len(b), Len(tty)))
Filled(b) == b \o Taken(b)

\* Variant with a bug: nothing is kept of the bytes after a key.
ConsumeForgets(b, n, tr) ==
  /\ buf' = Drop(b, n)
  /\ trunc' = tr

\* consume_input
Consume(b, n, tr) ==
  /\ buf' = Drop(b, n)
  /\ trunc' = (tr \/ n < Len(b))

WaitAt(l) == at' = l

Got(key) ==
  IF key[2] \in {"none", "ignore", "reply"} THEN WaitAt("start") /\ UNCHANGED keys
  ELSE IF key = <<0, "paste", 0>> THEN WaitAt("paste") /\ UNCHANGED keys
  ELSE WaitAt("start") /\ keys' = Append(keys, key)

\* read_simple
SimpleKey(b) == IF b[1] = ESC THEN <<0, "escape", 0>> ELSE <<0, b[1], 0>>
Simple(b, tr) == Consume(b, 1, tr) /\ Got(SimpleKey(b)) /\ UNCHANGED str

\* is_text, and enough of it to be a paste
IsPaste(b) == Len(b) > PasteMin /\ \A i \in 1..Len(b) : b[i] \in TextBytes

-----------------------------------------------------------------------------
(* term_read_input_legacy *)

\* An ESC and more: with one key it is Alt, and anything longer is unknown
\* and thrown away.
EscPrefix(b, tr) ==
  LET r == Tail(b)
  IN /\ IF Len(r) = 1 \/ r[2] = ESC
        THEN Consume(r, 1, TRUE) /\ Got(<<META, r[1], 0>>)
        ELSE buf' = <<>> /\ trunc' = TRUE /\ Got(<<0, "none", 0>>)
     /\ UNCHANGED str

\* What is left of an ESC that starts no sequence
Unparsed(b, tr) ==
  IF Len(b) = 1
  THEN WaitAt("esc") /\ buf' = b /\ trunc' = tr /\ UNCHANGED <<keys, str>>
  ELSE EscPrefix(b, tr)

\* Variant with a bug: a sequence that a full buffer has cut is not read on.
SpecialImpatient(b, tr, r) ==
  IF Matched(r) THEN Consume(b, r.len, tr) /\ Got(r.key) /\ UNCHANGED str
  ELSE Unparsed(b, tr)

\* read_special, with what b was parsed as: a key, or the wait for the rest if more may be on its way,
\* which no timeout ends
Special(b, tr, r) ==
  CASE Matched(r) -> Consume(b, r.len, tr) /\ Got(r.key) /\ UNCHANGED str
    [] r = Partial /\ tr /\ Len(b) < InbufSize ->
         WaitAt("special") /\ buf' = b /\ trunc' = tr /\ UNCHANGED <<keys, str>>
    [] OTHER -> Unparsed(b, tr)

\* The parser depends on the terminal.
Parse(b) ==
  CASE family = "linux" -> ParseLinux(b)
    [] family = "rxvt" -> ParseRxvt(b)
    [] OTHER -> ParseSequence(b)

Legacy(b, tr) ==
  CASE IsPaste(b) ->
         \* term_read_detected_paste takes all there is
         /\ buf' = <<>> /\ trunc' = tr
         /\ WaitAt("start") /\ keys' = Append(keys, <<0, "paste", b \o Drop(tty, Len(b) - Len(buf))>>)
         /\ UNCHANGED str
    [] b[1] # ESC /\ ~IsPaste(b) -> Simple(b, tr)
    [] b[1] = ESC /\ (Len(b) > 1 \/ tr) -> Special(b, tr, Parse(b))
    [] OTHER -> Unparsed(b, tr)

\* The buffer, or the first read
ReadLegacy ==
  /\ at = "start" /\ ~kitty
  /\ \/ /\ buf # <<>>
        /\ Legacy(buf, trunc)
        /\ tty' = IF IsPaste(buf) THEN <<>> ELSE tty
     \/ /\ buf = <<>> /\ CanFill(<<>>)
        /\ Legacy(Filled(<<>>), FALSE)
        /\ tty' = IF IsPaste(Filled(<<>>)) THEN <<>> ELSE Drop(tty, Len(Filled(<<>>)))
  /\ UNCHANGED <<family, rest, sent>>

\* The read in read_special
ReadRest ==
  /\ at = "special" /\ CanFill(buf)
  /\ tty' = Drop(tty, Len(Taken(buf)))
  /\ Special(Filled(buf), trunc, Parse(Filled(buf)))
  /\ UNCHANGED <<family, rest, sent>>

\* fill_buffer_timeout after a lone ESC; another ESC makes it a key.
AfterEsc ==
  /\ at = "esc" /\ CanFill(buf)
  /\ tty' = Drop(tty, Len(Taken(buf)))
  /\ LET b == Filled(buf)
     IN IF b[2] = ESC THEN Simple(b, trunc) ELSE EscPrefix(b, trunc)
  /\ UNCHANGED <<family, rest, sent>>

EscTimeout ==
  /\ at = "esc" /\ tty = <<>>
  /\ Simple(buf, trunc)
  /\ UNCHANGED <<family, tty, rest, sent>>

-----------------------------------------------------------------------------
(* term_read_input_modern *)

\* The loop over read and term_parse_sequence; it waits in "more".
Modern(b, tr, r) ==
  CASE b[1] # ESC -> Simple(b, tr)
    [] b[1] = ESC /\ Matched(r) -> Consume(b, r.len, tr) /\ Got(r.key) /\ UNCHANGED str
    [] b[1] = ESC /\ r = NoMatch -> Consume(b, 2, tr) /\ WaitAt("start") /\ UNCHANGED <<keys, str>>
    [] OTHER -> WaitAt("more") /\ buf' = b /\ trunc' = tr /\ UNCHANGED <<keys, str>>

ReadModern ==
  /\ at = "start" /\ kitty
  /\ \/ buf # <<>> /\ Modern(buf, trunc, ParseSequence(buf)) /\ UNCHANGED tty
     \/ /\ buf = <<>> /\ CanFill(<<>>)
        /\ tty' = Drop(tty, Len(Taken(<<>>)))
        /\ Modern(Filled(<<>>), FALSE, ParseSequence(Filled(<<>>)))
  /\ UNCHANGED <<family, rest, sent>>

ReadMore ==
  /\ at = "more" /\ CanFill(buf)
  /\ tty' = Drop(tty, Len(Taken(buf)))
  /\ Modern(Filled(buf), trunc, ParseSequence(Filled(buf)))
  /\ UNCHANGED <<family, rest, sent>>

-----------------------------------------------------------------------------
(* term_read_bracketed_paste *)

\* Where the delimiter begins in s, if it ends after the first n bytes
Delims(s, n) ==
  {i \in 0..(Len(s) - Len(DELIM)) : SubSeq(s, i + 1, i + Len(DELIM)) = DELIM /\ i + Len(DELIM) > n}
First(is) == CHOOSE i \in is : \A j \in is : i <= j

Pasted(s, i) ==
  /\ keys' = Append(keys, <<0, "paste", SubSeq(s, 1, i)>>)
  /\ buf' = Drop(s, i + Len(DELIM))
  /\ str' = <<>> /\ WaitAt("start")

\* What is in the buffer comes first; it may be all.
PasteFromBuffer ==
  /\ at = "paste"
  /\ LET ends == Delims(buf, 0)
     IN IF ends # {} THEN Pasted(buf, First(ends))
        ELSE /\ str' = buf /\ buf' = <<>>
             /\ WaitAt("pasting") /\ UNCHANGED keys
  /\ UNCHANGED <<family, trunc, tty, rest, sent>>

\* Variant with a bug: the delimiter is looked for in each read alone.
PasteReadAlone ==
  /\ at = "pasting" /\ tty # <<>>
  /\ LET s == str \o Taken(<<>>)
         ends == Delims(s, Len(str) + 1)
     IN IF ends # {} THEN Pasted(s, First(ends))
        ELSE str' = s /\ UNCHANGED <<keys, buf, at>>
  /\ tty' = Drop(tty, Len(Taken(<<>>)))
  /\ UNCHANGED <<family, trunc, rest, sent>>

\* Each read is searched together with the end of the one before, since it
\* may have cut the delimiter; what follows it goes to the buffer.
PasteRead ==
  /\ at = "pasting" /\ tty # <<>>
  /\ LET s == str \o Taken(<<>>)
         overlap == Least(Len(DELIM), Len(str))
         ends == {i \in Delims(s, 0) : i >= Len(str) - overlap}
     IN IF ends # {} THEN Pasted(s, First(ends))
        ELSE str' = s /\ UNCHANGED <<keys, buf, at>>
  /\ tty' = Drop(tty, Len(Taken(<<>>)))
  /\ UNCHANGED <<family, trunc, rest, sent>>

-----------------------------------------------------------------------------
InputInit ==
  /\ family \in {"kitty", "xterm", "linux", "rxvt"}
  /\ buf = <<>> /\ trunc = FALSE /\ at = "start" /\ str = <<>>
  /\ tty = <<>> /\ rest = <<>> /\ sent = <<>> /\ keys = <<>>

ReadInput ==
  \/ ReadLegacy \/ ReadRest \/ AfterEsc \/ EscTimeout
  \/ ReadModern \/ ReadMore \/ PasteFromBuffer \/ PasteRead

InputNext == Send \/ Arrive \/ ReadInput

\* There is something to do for the reader.
CanRead ==
  CASE at = "start" -> buf # <<>> \/ tty # <<>>
    [] at = "paste" \/ at = "esc" -> TRUE
    [] OTHER -> tty # <<>>

\* The main loop reads on as long as it can, and what was begun to be sent
\* is sent to its end.  The first is weak fairness of ReadInput.
InputFairness ==
  /\ []<>~CanRead \/ []<><<ReadInput>>_inputVars
  /\ WF_inputVars(Arrive)

InputSpec == InputInit /\ [][InputNext]_inputVars /\ InputFairness

-----------------------------------------------------------------------------
\* A paste counts as the keys of its text, what is no key as nothing.
AsKeys(k) ==
  CASE k[2] = "paste" -> [i \in 1..Len(k[3]) |-> <<0, k[3][i], 0>>]
    [] k[2] = "none" -> <<>>
    [] OTHER -> <<k>>
Typed == FlattenSeq([i \in 1..Len(keys) |-> AsKeys(keys[i])])
Pressed == FlattenSeq([i \in 1..Len(sent) |-> AsKeys(sent[i].key)])

\* The main loop gets the keys that were pressed, in order and no others,
\* however a terminal with the keyboard protocol splits them, and with any
\* other one as long as nothing follows an Escape at once.  This is what
\* the wait for the rest of a sequence, the search across two reads and
\* can_be_truncated are for.
KeysAreSent ==
  ~Hasty =>
    /\ IsPrefix(Typed, Pressed)
    /\ Quiet => Typed = Pressed

\* All that was sent is read at last: the reader never waits for bytes that
\* nobody owes it.
AllIsRead == <>[]Quiet
=============================================================================
