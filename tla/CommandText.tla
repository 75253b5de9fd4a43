---------------------------- MODULE CommandText -----------------------------
(***************************************************************************)
(* The text of commands: parse_commands with its quoting rules             *)
(* (command/parse.c), the quoting that dumped bindings, recorded macros    *)
(* and completions rely on (command/serialize.c), and do_parse_args, which *)
(* moves flags out of the arguments in place (command/args.c).             *)
(*                                                                         *)
(* A text is a sequence of one-character strings.  The texts looked at     *)
(* grow by one character in each step.                                     *)
(***************************************************************************)
EXTENDS Integers, Sequences, SequencesExt

CONSTANTS
  Letters,   \* the characters of the texts
  MaxText,   \* their length
  ArgTexts,  \* arguments that are looked at by do_parse_args
  MaxArgs,   \* their number
  Home,      \* CommandRunner::home_dir
  VarValue   \* what each variable expands to

VARIABLES
  text,  \* a text that is quoted and parsed again
  argv   \* the arguments of a command

textVars == <<text, argv>>

NUL == "NUL"
Blank == {" ", "\t", "\n", "\r"}
Control == {"\t", "\n", "\r", "BEL", "^A", "DEL"}
HexDigits == {"0", "1", "7", "F", "a"}
VarStart == {"a", "n", "x"}
VarChars == VarStart \cup {"0", "1"}

At(s, i) == IF i \in DOMAIN s THEN s[i] ELSE NUL

-----------------------------------------------------------------------------
(* command/parse.c *)

\* hex_escape: two digits are a byte; fewer are dropped.
HexByte(a, b) ==
  CASE <<a, b>> = <<"0", "1">> -> "^A" [] <<a, b>> = <<"7", "F">> -> "DEL" [] OTHER -> "byte"
HexEscape(s, i) ==
  CASE At(s, i) \notin HexDigits -> <<<<>>, 1>>
    [] At(s, i) \in HexDigits /\ At(s, i + 1) \notin HexDigits -> <<<<>>, 2>>
    [] OTHER -> <<<<HexByte(s[i], s[i + 1])>>, 3>>

\* What follows a backslash in double quotes, with the characters it takes;
\* an unknown one leaves the backslash.
EscapeSeq(s, i) ==
  LET c == At(s, i)
  IN CASE c = "a" -> <<<<"BEL">>, 1>>
       [] c = "n" -> <<<<"\n">>, 1>>
       [] c = "t" -> <<<<"\t">>, 1>>
       [] c = "r" -> <<<<"\r">>, 1>>
       [] c \in {"\\", "\""} -> <<<<c>>, 1>>
       [] c = "x" -> HexEscape(s, i + 1)
       [] OTHER -> <<<<"\\", c>>, 1>>

\* parse_dq: the text in double quotes from i on, and where it ends
DoubleQuoted(s, i) ==
  LET n == Len(s)
      D[j \in 1..(n + 4)] ==
        IF j > n THEN <<<<>>, n + 1>>
        ELSE IF s[j] = "\"" THEN <<<<>>, j + 1>>
        ELSE IF s[j] = "\\" /\ j < n
             THEN LET e == EscapeSeq(s, j + 1)
                      rest == D[j + 1 + e[2]]
                  IN <<e[1] \o rest[1], rest[2]>>
             ELSE <<<<s[j]>> \o D[j + 1][1], D[j + 1][2]>>
  IN D[i]

\* parse_var: the end of the variable's name from i on, without braces
VarEnd(s, i) ==
  LET ends == {j \in i..Len(s) + 1 : At(s, j) \notin VarChars}
  IN CHOOSE j \in ends : \A k \in ends : j <= k

\* parse_sq: where the single quotes end that begin before i
QuoteEnd(s, i) ==
  LET ends == {j \in i..Len(s) : s[j] = "'"} \cup {Len(s) + 1}
  IN CHOOSE j \in ends : \A k \in ends : j <= k

\* parse_command_arg
ParseArg(s) ==
  LET n == Len(s)
      tilde == At(s, 1) = "~" /\ At(s, 2) = "/"
      A[i \in 1..(n + 2)] ==
        LET c == At(s, i)
        IN IF i > n \/ c \in Blank \cup {";"} THEN <<>>
           ELSE CASE c = "'" -> SubSeq(s, i + 1, QuoteEnd(s, i + 1) - 1) \o A[QuoteEnd(s, i + 1) + 1]
                  [] c = "\"" -> DoubleQuoted(s, i + 1)[1] \o A[DoubleQuoted(s, i + 1)[2]]
                  [] c = "$" /\ At(s, i + 1) \in VarStart ->
                       VarValue \o A[VarEnd(s, i + 1)]
                  [] c = "$" /\ At(s, i + 1) \notin VarStart -> A[i + 1]
                  [] c = "\\" -> IF i = n THEN <<>> ELSE <<s[i + 1]>> \o A[i + 2]
                  [] OTHER -> <<c>> \o A[i + 1]
  IN IF tilde THEN Home \o A[2] ELSE A[1]

\* find_end: the end of the argument that begins at i, 0 if a quote is left
\* open
FindEnd(s, i) ==
  LET n == Len(s)
      Q[j \in 1..(n + 3)] ==  \* in double quotes
        IF j > n THEN 0
        ELSE IF s[j] = "\"" THEN j + 1
        ELSE IF s[j] = "\\" THEN (IF j = n THEN 0 ELSE Q[j + 2])
        ELSE Q[j + 1]
      F[j \in 1..(n + 3)] ==
        LET c == At(s, j)
        IN IF c \in Blank \cup {";", NUL} THEN j
           ELSE CASE c = "'" -> IF QuoteEnd(s, j + 1) > n THEN 0 ELSE F[QuoteEnd(s, j + 1) + 1]
                  [] c = "\"" -> IF Q[j + 1] = 0 THEN 0 ELSE F[Q[j + 1]]
                  [] c = "\\" -> IF j = n THEN 0 ELSE F[j + 2]
                  [] OTHER -> F[j + 1]
  IN F[i]

ParseError == <<"error">>

\* parse_commands: the arguments, with NUL for NULL
ParseCommands(s) ==
  LET n == Len(s)
      P[i \in 1..(n + 2)] ==
        LET e == FindEnd(s, i)
            rest == P[e]
        IN IF i > n THEN <<<<NUL>>>>
           ELSE IF s[i] \in Blank THEN P[i + 1]
           ELSE IF s[i] = ";" THEN (IF P[i + 1] = ParseError THEN ParseError ELSE <<<<NUL>>>> \o P[i + 1])
           ELSE IF e = 0 \/ rest = ParseError THEN ParseError
           ELSE <<ParseArg(SubSeq(s, i, e - 1))>> \o rest
  IN P[1]

-----------------------------------------------------------------------------
(* command/serialize.c *)

\* Variant with a bug: a backslash alone needs no quotes.
QuotingBare(s) ==
  CASE \E i \in DOMAIN s : s[i] \in {"'"} \cup Control -> "double"
    [] OTHER -> IF \E i \in DOMAIN s : s[i] \in {" ", "\"", "$", ";"} THEN "single" ELSE "no"

Quoting(s) ==
  CASE \E i \in DOMAIN s : s[i] \in {"'"} \cup Control -> "double"
    [] OTHER -> IF \E i \in DOMAIN s : s[i] \in {" ", "\"", "$", ";", "\\"} THEN "single" ELSE "no"

\* string_append_dquoted_arg
DoubleQuote(s) ==
  LET E(c) == CASE c = "\t" -> <<"\\", "t">>
                [] c = "\n" -> <<"\\", "n">>
                [] c = "\r" -> <<"\\", "r">>
                [] c \in {"\"", "\\"} -> <<"\\", c>>
                [] c = "BEL" -> <<"\\", "a">>
                [] c = "^A" -> <<"\\", "x", "0", "1">>
                [] c = "DEL" -> <<"\\", "x", "7", "F">>
                [] OTHER -> <<c>>
  IN <<"\"">> \o FlattenSeq([i \in DOMAIN s |-> E(s[i])]) \o <<"\"">>

HasTilde(s) == At(s, 1) = "~" /\ At(s, 2) = "/"

\* string_append_escaped_arg_sv; escape_tilde says whether "~/" is text.
Escaped(s, escape_tilde) ==
  LET skips == HasTilde(s) /\ ~escape_tilde
      rest == IF skips THEN SubSeq(s, 3, Len(s)) ELSE s
      quoted == CASE Quoting(rest) = "double" -> DoubleQuote(rest)
                  [] Quoting(rest) = "single" -> <<"'">> \o rest \o <<"'">>
                  [] OTHER -> IF HasTilde(rest) THEN <<"\\">> \o rest ELSE rest
  IN IF s = <<>> THEN <<"'", "'">> ELSE (IF skips THEN <<"~", "/">> ELSE <<>>) \o quoted

-----------------------------------------------------------------------------
(* command/args.c, for a command with the flags f, g and h=, which takes an *)
(* argument.  The array is changed in place: "moved" of its first elements  *)
(* are arguments of flags.                                                  *)

IsFlag(a) == Len(a) > 1 /\ a[1] = "-"
Known == {"f", "g", "h"}

RemoveAt2(a, i) == SubSeq(a, 1, i - 1) \o SubSeq(a, i + 1, Len(a))

\* Variant with a bug: the argument of a flag trades places with the first
\* other one.
MovedSwap(a, i, moved) ==
  [a EXCEPT ![moved + 1] = a[i + 1], ![i + 1] = a[moved + 1]]

\* The argument at i + 1 goes before the others, which move up by one.
Moved(a, i, moved) ==
  SubSeq(a, 1, moved) \o <<a[i + 1]>> \o SubSeq(a, moved + 1, i - 1) \o <<a[i]>>
    \o SubSeq(a, i + 2, Len(a))

\* The loop over the array: args, flags, flag_args and whether it failed
ParseArgs(args, flags_after_arg) ==
  LET Failed(flags) == [args |-> <<>>, flags |-> flags, moved |-> 0, ok |-> FALSE]
      Step[k \in 0..MaxArgs] ==
        LET before == IF k = 0 THEN [args |-> args, flags |-> <<>>, moved |-> 0, ok |-> TRUE, i |-> 1, done |-> FALSE]
                      ELSE Step[k - 1]
            a == before.args
            i == before.i
            flags == IF i \in DOMAIN a THEN Tail(a[i]) ELSE <<>>
            takes == \E j \in DOMAIN flags : flags[j] = "h"
        IN IF before.done \/ i > Len(a) THEN [before EXCEPT !.done = TRUE]
           ELSE IF a[i] = <<"-", "-">> THEN [before EXCEPT !.args = RemoveAt2(a, i), !.done = TRUE]
           ELSE IF ~IsFlag(a[i])
                THEN IF flags_after_arg THEN [before EXCEPT !.i = i + 1] ELSE [before EXCEPT !.done = TRUE]
           ELSE IF \E j \in DOMAIN flags : flags[j] \notin Known THEN [before EXCEPT !.ok = FALSE, !.done = TRUE]
           ELSE IF ~takes THEN [before EXCEPT !.args = RemoveAt2(a, i), !.flags = @ \o flags]
           ELSE IF Len(flags) > 1 \/ i = Len(a) THEN [before EXCEPT !.ok = FALSE, !.done = TRUE]
           ELSE [before EXCEPT !.args = RemoveAt2(Moved(a, i, before.moved), i + 1),
                               !.flags = @ \o flags, !.moved = @ + 1, !.i = i + 1]
  IN Step[MaxArgs]

\* The same, told by the positions in the array as it was
Meaning(args, flags_after_arg) ==
  LET n == Len(args)
      \* what each position is, from the one before it
      Kind[i \in 0..n] ==
        IF i = 0 THEN "start"
        ELSE IF Kind[i - 1] \in {"end", "plain"} THEN "plain"
        ELSE IF Kind[i - 1] = "takes" THEN "flag arg"
        ELSE IF args[i] = <<"-", "-">> THEN "end"
        ELSE IF ~IsFlag(args[i]) THEN (IF flags_after_arg THEN "arg" ELSE "plain")
        ELSE IF args[i] = <<"-", "h">> THEN "takes" ELSE "flags"
      Of(kinds) == FlattenSeq([i \in 1..n |-> IF Kind[i] \in kinds THEN <<args[i]>> ELSE <<>>])
      bad == \E i \in 1..n :
               \/ Kind[i] = "takes" /\ i = n
               \/ Kind[i] = "flags" /\ \E j \in 2..Len(args[i]) : args[i][j] \notin {"f", "g"}
  IN [ok |-> ~bad, args |-> Of({"flag arg"}) \o Of({"arg", "plain"}),
      flags |-> FlattenSeq([i \in DOMAIN Of({"takes", "flags"}) |-> Tail(Of({"takes", "flags"})[i])])]

-----------------------------------------------------------------------------
TextInit == text = <<>> /\ argv = <<>>

AddLetter(c) == Len(text) < MaxText /\ text' = Append(text, c) /\ argv = <<>> /\ UNCHANGED argv
AddArg(a) == Len(argv) < MaxArgs /\ argv' = Append(argv, a) /\ text = <<>> /\ UNCHANGED text

TextNext == (\E c \in Letters : AddLetter(c)) \/ (\E a \in ArgTexts : AddArg(a))
TextSpec == TextInit /\ [][TextNext]_textVars

\* An argument that was quoted is parsed as that argument and nothing else,
\* also when it stands between two others; a home directory that is not to be
\* text still expands (the comment on string_append_escaped_arg_sv).
QuotedIsParsed ==
  LET q == Escaped(text, TRUE)
      t == Escaped(text, FALSE)
  IN /\ ParseCommands(<<"a", " ">> \o q \o <<" ", "b">>) = <<<<"a">>, text, <<"b">>, <<NUL>>>>
     /\ HasTilde(text) => ParseCommands(t) = <<Home \o Tail(text), <<NUL>>>>

\* do_parse_args finds the flags and leaves the arguments of flags before the
\* others, each in their order, whatever order they were given in.
ArgsAreSorted ==
  \A flags_after_arg \in BOOLEAN :
    LET code == ParseArgs(argv, flags_after_arg)
        meant == Meaning(argv, flags_after_arg)
    IN /\ code.ok = meant.ok
       /\ code.ok => code.args = meant.args /\ code.flags = meant.flags

\* What is written as the text of a command means the same when it is read.
CommandsReadBack == QuotedIsParsed /\ ArgsAreSorted
=============================================================================
