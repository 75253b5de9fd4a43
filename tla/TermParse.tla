------------------------------ MODULE TermParse ------------------------------
(***************************************************************************)
(* The parsers of the sequences that a terminal sends for keys: module     *)
(* terminal/parse.c, and linux.c and rxvt.c, which accept some more.       *)
(*                                                                         *)
(* Bytes are strings, one for each class that a parser tells apart.  A     *)
(* parser looks at what is in the input buffer and returns the number of   *)
(* bytes that it takes and the key, or that it needs more, or that this is *)
(* none of its sequences.  The tables of keys are cut to a few entries.    *)
(***************************************************************************)
EXTENDS Integers, Sequences, SequencesExt

CONSTANTS
  MaxNum,     \* UNICODE_MAX_VALID_CODEPOINT
  MaxParams,  \* ARRAYLEN(csi->params)
  MaxSubs     \* ARRAYLEN(csi->params[0])

ESC == "ESC"
Digits == [d \in {"0", "1", "2", "3", "5", "7"} |->
             CASE d = "0" -> 0 [] d = "1" -> 1 [] d = "2" -> 2
               [] d = "3" -> 3 [] d = "5" -> 5 [] d = "7" -> 7]

\* get_byte_type
ByteType(b) ==
  CASE b \in DOMAIN Digits \cup {";", ":", "?", ">"} -> "parameter"
    [] b \in {" ", "$"} -> "intermediate"
    [] b \in {ESC, "BEL", "CAN", "SUB", "NUL"} -> "control"
    [] b = "DEL" -> "delete"
    [] b = "HI" -> "other"
    [] OTHER -> "final"

-----------------------------------------------------------------------------
(* Results *)

Drop(s, n) == SubSeq(s, n + 1, Len(s))

Partial == [len |-> -1, key |-> <<0, "none", 0>>]
NoMatch == [len |-> 0, key |-> <<0, "none", 0>>]
Ignore(n) == [len |-> n, key |-> <<0, "ignore", 0>>]
Match(n, mods, name, ch) == [len |-> n, key |-> <<mods, name, ch>>]
Matched(r) == r.len > 0

SHIFT == 1
META == 2
CTRL == 4
Invalid == -1

\* decode_modifiers: Alt and Meta are one, the locks are left out.
DecodeModifiers(n) ==
  LET m == n - 1
      meta == IF (m \div 32) % 2 = 1 /\ (m \div META) % 2 = 0 THEN META ELSE 0
  IN IF m \in 0..255 THEN (m % 32) + meta ELSE Invalid

\* decode_key_from_final_byte, decode_key_from_param
FinalKeys == [b \in {"A", "R"} |-> IF b = "A" THEN "up" ELSE "f3"]
ParamKeys == [n \in {1, 2, 5} |-> CASE n = 1 -> "home" [] n = 2 -> "insert" [] n = 5 -> "pgup"]
ControlKeys == [n \in {27, 13} |-> IF n = 27 THEN "escape" ELSE "enter"]

\* normalize_csi_u_keycode: names for some, small letters with Ctrl
KeyOfCsiU(len, mods, n) ==
  CASE n \in DOMAIN ControlKeys -> Match(len, mods, ControlKeys[n], 0)
    [] n \notin DOMAIN ControlKeys /\ n < 32 -> Ignore(len)
    [] OTHER -> Match(len, mods, "char",
                      IF n \in 65..90 /\ (mods \div CTRL) % 2 = 1 THEN n + 32 ELSE n)

\* normalize_csi_27_tilde_keycode
KeyOfOther(len, mods, n) ==
  CASE n \in DOMAIN ControlKeys -> Match(len, mods, ControlKeys[n], 0)
    [] n \notin DOMAIN ControlKeys /\ n < 32 -> Ignore(len)
    [] n \in 65..90 /\ mods \notin {0, SHIFT} ->
         Match(len, IF mods % 2 = 1 THEN mods ELSE mods + SHIFT, "char", n + 32)
    [] n \in 65..90 /\ mods \in {0, SHIFT} -> Match(len, 0, "char", n)
    [] OTHER -> Match(len, mods, "char", n)

-----------------------------------------------------------------------------
(* CSI *)

\* The parts of s between separators, and the number in a part
Fields(s, sep) ==
  LET p == SetToSortSeq({0, Len(s) + 1} \cup {k \in 1..Len(s) : s[k] = sep}, <)
  IN [j \in 1..(Len(p) - 1) |-> SubSeq(s, p[j] + 1, p[j + 1] - 1)]

HasDigits(s) == \E k \in 1..Len(s) : s[k] \in DOMAIN Digits

Number(s) ==
  LET value[k \in 0..Len(s)] ==
        IF k = 0 THEN 0
        ELSE IF s[k] \in DOMAIN Digits THEN (10 * value[k - 1]) + Digits[s[k]] ELSE value[k - 1]
  IN value[Len(s)]

\* Variant with a bug: only a final byte ends a sequence, whatever it cuts.
EndsCsiByFinal(b) == ByteType(b) = "final"

\* A sequence ends with its final byte, or is cut short.
EndsCsi(b) == ByteType(b) = "final" \/ b \in {ESC, "CAN", "SUB"}

\* term_parse_csi_params: the bytes after the first i, up to the end of the
\* sequence.  An error is remembered, and the rest of the sequence skipped;
\* an ESC is the start of the next one.
Collected(body, final, i, fields, params) ==
  [final |-> final,
   i |-> i - (IF final = ESC THEN 1 ELSE 0),
   params |-> [j \in 1..Len(params) |-> [k \in 1..Len(params[j]) |-> Number(params[j][k])]],
   sub |-> \E k \in 1..Len(body) : body[k] = ":",
   inter |-> \E k \in 1..Len(body) : ByteType(body[k]) = "intermediate",
   err |-> \/ final \in {ESC, "CAN", "SUB"}
           \/ \E k \in 1..Len(body) : body[k] \in {"?", ">", "HI"}
           \/ Len(params) > MaxParams
           \/ \E j \in 1..Len(fields) :
                \/ Len(fields[j]) > MaxSubs
                \/ \E k \in 1..Len(fields[j]) : Number(fields[j][k]) > MaxNum]

\* A last parameter without digits is none.
Given(fields) == IF HasDigits(Last(Last(fields))) THEN fields ELSE Front(fields)

CsiBody(body, final, i) ==
  LET Subfields(parts) == [j \in 1..Len(parts) |-> Fields(parts[j], ":")]
      Collect(fields) == Collected(body, final, i, fields, Given(fields))
  IN Collect(Subfields(Fields(body, ";")))

CsiParams(s, i) ==
  LET end == SelectInSeq(Drop(s, i), EndsCsi)
  IN IF end = 0 THEN [final |-> ""]
     ELSE CsiBody(SubSeq(s, i + 1, i + end - 1), s[i + end], i + end)

Param(c, i, j) ==
  IF i <= Len(c.params) /\ j <= Len(c.params[i]) THEN c.params[i][j] ELSE 0
Subs(c, i) == IF i <= Len(c.params) THEN Len(c.params[i]) ELSE 0

\* CSI u: the base layout key if there is one; no releases
ParseCsiU(c) ==
  LET n == Len(c.params)
      mods == IF n = 1 THEN 0 ELSE DecodeModifiers(Param(c, 2, 1))
  IN IF \/ Subs(c, 1) > 3 \/ Subs(c, 2) > 2 \/ Subs(c, 3) > 1
        \/ n \notin 1..3
        \/ n > 1 /\ (Param(c, 2, 2) > 2 \/ mods = Invalid)
     THEN Ignore(c.i)
     ELSE KeyOfCsiU(c.i, mods, Param(c, 1, IF Subs(c, 1) = 3 THEN 3 ELSE 1))

ParseTilde(c) ==
  LET n == Len(c.params)
      mods == IF n = 1 THEN 0 ELSE DecodeModifiers(Param(c, 2, 1))
      p == Param(c, 1, 1)
  IN CASE n \notin 1..3 \/ mods = Invalid -> Ignore(c.i)
       [] n = 3 /\ mods # Invalid ->
            IF p = 27 THEN KeyOfOther(c.i, mods, Param(c, 3, 1)) ELSE Ignore(c.i)
       [] n \in 1..2 /\ mods # Invalid /\ p \in DOMAIN ParamKeys ->
            Match(c.i, mods, ParamKeys[p], 0)
       [] n \in 1..2 /\ mods = 0 /\ p = 200 -> Match(c.i, 0, "paste", 0)
       [] OTHER -> Ignore(c.i)

ParseFinal(c) ==
  LET n == Len(c.params)
      mods == IF n = 2 THEN DecodeModifiers(Param(c, 2, 1)) ELSE 0
  IN IF \/ n \notin {0, 2} \/ mods = Invalid
        \/ n = 2 /\ Param(c, 1, 1) # 1
        \/ c.final \notin DOMAIN FinalKeys
     THEN Ignore(c.i)
     ELSE Match(c.i, mods, FinalKeys[c.final], 0)

KeyOfCsi(c) ==
  CASE c.inter -> Ignore(c.i)
    [] ~c.inter /\ c.final = "u" -> ParseCsiU(c)
    [] ~c.inter /\ c.final # "u" /\ c.sub -> Ignore(c.i)
    [] ~c.inter /\ c.final = "~" /\ ~c.sub -> ParseTilde(c)
    [] ~c.inter /\ c.final = "t" /\ ~c.sub -> Ignore(c.i)
    [] ~c.inter /\ c.final = "Z" /\ ~c.sub ->
         IF c.params = <<>> THEN Match(c.i, SHIFT, "tab", 0) ELSE Ignore(c.i)
    [] OTHER -> ParseFinal(c)

\* parse_csi; a sequence with a prefix is a reply to a query.
ParseCsi(s) ==
  LET prefix == Len(s) > 2 /\ s[3] \in {"?", ">"}
      Parsed(c) == CASE c.final = "" -> Partial
                     [] c.final # "" /\ c.err -> Ignore(c.i)
                     [] c.final # "" /\ ~c.err /\ prefix -> Match(c.i, 0, "reply", 0)
                     [] OTHER -> KeyOfCsi(c)
  IN Parsed(CsiParams(s, IF prefix THEN 3 ELSE 2))

-----------------------------------------------------------------------------
(* The other kinds *)

\* parse_ss3
ParseSs3(s) ==
  CASE Len(s) = 2 -> Partial
    [] Len(s) > 2 /\ s[3] \in DOMAIN FinalKeys -> Match(3, 0, FinalKeys[s[3]], 0)
    [] Len(s) > 2 /\ s[3] = " " -> Match(3, 0, "space", 0)
    [] OTHER -> Ignore(3)

\* parse_osc and parse_dcs: a string up to CAN, SUB or ESC, of which the
\* last is left for the next sequence, an OSC also up to BEL
ParseString(s, ends) ==
  LET at == {i \in 3..Len(s) : s[i] \in ends}
      i == CHOOSE k \in at : \A j \in at : k <= j
  IN CASE at = {} -> Partial
       [] at # {} /\ s[i] \in {"CAN", "SUB"} -> Ignore(i)
       [] at # {} /\ s[i] = "BEL" -> Match(i, 0, "reply", 0)
       [] OTHER -> Match(i - 1, 0, "reply", 0)

\* term_parse_sequence
ParseSequence(s) ==
  CASE s # <<>> /\ s[1] # ESC -> NoMatch
    [] s = <<>> \/ s = <<ESC>> -> Partial
    [] OTHER ->
         CASE s[2] = "O" -> ParseSs3(s)
           [] s[2] = "P" -> ParseString(s, {ESC, "CAN", "SUB"})
           [] s[2] = "[" -> ParseCsi(s)
           [] s[2] = "]" -> ParseString(s, {ESC, "CAN", "SUB", "BEL"})
           [] s[2] = "\\" -> Ignore(2)
           [] OTHER -> NoMatch

\* linux_parse_key: ESC [ [ and a letter
ParseLinux(s) ==
  CASE Len(s) < 3 \/ SubSeq(s, 1, 3) # <<ESC, "[", "[">> -> ParseSequence(s)
    [] s = <<ESC, "[", "[">> -> Partial
    [] OTHER -> IF s[4] = "A" THEN Match(4, 0, "f1", 0) ELSE Ignore(3)

\* rxvt_parse_key: small letters, and final bytes that are none
RxvtMods(b) == CASE b = "~" -> 0 [] b = "$" -> SHIFT
WithMeta(mods, meta) == IF meta /\ (mods \div META) % 2 = 0 THEN mods + META ELSE mods
ParseRxvt(s) ==
  LET meta == Len(s) >= 2 /\ s[2] = ESC
      t == IF meta THEN Tail(s) ELSE s
      extra == IF meta THEN 1 ELSE 0
      Generic(r) ==
        IF ~Matched(r) THEN r
        ELSE [len |-> r.len + extra,
              key |-> IF r.key[2] = "ignore" \/ ~meta THEN r.key
                      ELSE <<WithMeta(r.key[1], meta), r.key[2], r.key[3]>>]
  IN CASE Len(s) = 2 /\ s[1] = ESC /\ s[2] \in {"O", "["} -> Partial
       [] Len(s) >= 3 /\ s[1] = ESC /\ s[2] \in {"O", "["} /\ s[3] = "a" ->
            Match(3, IF s[2] = "O" THEN CTRL ELSE SHIFT, "up", 0)
       [] Len(t) >= 4 /\ t[1] = ESC /\ t[2] = "[" /\ t[3] \in {"2", "5"} /\ t[4] \in {"~", "$"} ->
            Match(4 + extra,
                  WithMeta(RxvtMods(t[4]), meta),
                  ParamKeys[Digits[t[3]]], 0)
       [] OTHER -> Generic(ParseSequence(t))
=============================================================================
