----------------------------- MODULE EditorConfig -----------------------------
(***************************************************************************)
(* EditorConfig files: src/editorconfig/editorconfig.c, ini.c and match.c. *)
(* The .editorconfig files of the directories above a file are read from   *)
(* the root down; a section whose pattern matches the file sets options,   *)
(* which replace those of sections before it.  A pattern is turned into a  *)
(* regular expression (a sequence of tokens here) and matched against the  *)
(* whole path.                                                             *)
(***************************************************************************)
EXTENDS Integers, SequencesExt

CONSTANTS
  Paths,       \* absolute paths, as sequences of characters
  EcDirs,      \* directories of .editorconfig files
  Pieces,      \* what a section is put together from (sequences)
  Parts,       \* what a file is put together from: sequences of lines
  MaxPieces,   \* bound: pieces of a section
  MaxParts     \* bound: parts of all the files

VARIABLES
  section,  \* [text, n]: a section heading that is being written, its pieces
  files,    \* the lines of each .editorconfig file
  parts     \* how many parts they were put together from

ecVars == <<section, files, parts>>

Drop(s, n) == SubSeq(s, n + 1, Len(s))
HasChar(s, x) == \E i \in DOMAIN s : s[i] = x

-----------------------------------------------------------------------------
(* match.c: from a section to a regular expression *)

Token(k, c) == [k |-> k, c |-> c]
Lit(ch) == Token("lit", {ch})

RECURSIVE LastPaired(_, _, _, _)

\* get_last_paired_brace_index; 0 if a brace is not closed
LastPaired(s, i, open, last) ==
  CASE i > Len(s) -> IF open > 0 THEN 0 ELSE last
    [] i <= Len(s) /\ s[i] = "\\" -> LastPaired(s, i + 2, open, last)
    [] i <= Len(s) /\ s[i] = "{" -> IF open = 31 THEN 0 ELSE LastPaired(s, i + 1, open + 1, last)
    [] i <= Len(s) /\ s[i] = "}" /\ open > 0 -> LastPaired(s, i + 1, open - 1, i)
    [] OTHER -> LastPaired(s, i + 1, open, last)

\* handle_bracket_expression at s[i] = "[": the token, and the position of
\* the last character it stands for.  The loop reads one character more than
\* the section has: the "]" that ended the heading.
Bracket(s, i) ==
  LET read == Append(Drop(s, i), "]")
      end == SelectInSeq(read, LAMBDA ch : ch = "]")
      inside == SubSeq(read, 1, end - 1)
      negated == inside # <<>> /\ inside[1] = "!"
      chars == IF negated THEN Tail(inside) ELSE inside
  IN  IF i = Len(s) THEN [token |-> Lit("["), last |-> i]
      ELSE [token |-> Token(IF chars = <<>> THEN "bad" ELSE IF negated THEN "nset" ELSE "set",
                            ToSet(chars)),
            last |-> i + end]

\* skip_empty_alternates: the commas after position i
Skipped(s, i) ==
  LET others == {k \in i + 1..Len(s) : s[k] # ","}
  IN  IF others = {} THEN Len(s) - i ELSE (CHOOSE k \in others : \A j \in others : k <= j) - i - 1

IsAt(s, i, ch) == i <= Len(s) /\ s[i] = ch

RECURSIVE ToRegex(_, _, _, _)

\* section_to_regex from position i; level is brace_level and empties the
\* levels whose group has an empty alternate.
ToRegex(s, i, level, empties) ==
  LET Rest(n) == ToRegex(s, i + n, level, empties)
      last == LastPaired(s, 1, 0, 0)
      ch == s[i]
      skip == Skipped(s, i)
      e == IF skip > 0 THEN {level + 1} ELSE {}
  IN
  CASE i > Len(s) -> <<>>
    [] i <= Len(s) /\ ch = "\\" ->
         IF i = Len(s) THEN <<Lit("\\")>> ELSE <<Lit(s[i + 1])>> \o Rest(2)
    [] i <= Len(s) /\ ch = "?" -> <<Token("one", {})>> \o Rest(1)
    [] i <= Len(s) /\ ch = "*" ->
         IF IsAt(s, i + 1, "*") THEN <<Token("any", {})>> \o Rest(2) ELSE <<Token("seg", {})>> \o Rest(1)
    [] i <= Len(s) /\ ch = "[" ->
         <<Bracket(s, i).token>> \o Rest(Bracket(s, i).last - i + 1)
    [] i <= Len(s) /\ ch = "{" ->
         CASE i >= last -> <<Lit("{")>> \o Rest(1)
           [] i < last /\ IsAt(s, i + skip + 1, "}") ->
                ToRegex(s, i + skip + 2, level, empties \ {level + 1})
           [] OTHER -> <<Token("(", {})>> \o ToRegex(s, i + skip + 1, level + 1, empties \union e)
    [] i <= Len(s) /\ ch = "}" ->
         IF i > last \/ level = 0 THEN <<Lit("}")>> \o Rest(1)
         ELSE <<Token(IF level \in empties THEN ")?" ELSE ")", {})>>
                \o ToRegex(s, i + 1, level - 1, empties \ {level})
    [] i <= Len(s) /\ ch = "," ->
         CASE i >= last \/ level = 0 -> <<Lit(",")>> \o Rest(1)
           [] i < last /\ level > 0 /\ IsAt(s, i + skip + 1, "}") ->
                ToRegex(s, i + skip + 1, level, empties \union {level})
           [] OTHER -> <<Token("|", {})>>
                \o ToRegex(s, i + skip + 1, level, IF skip > 0 THEN empties \union {level} ELSE empties)
    [] i <= Len(s) /\ ch = "/" ->
         IF SubSeq(s, i, i + 3) = <<"/", "*", "*", "/">>
         THEN <<Lit("/"), Token("below", {})>> \o Rest(4) ELSE <<Lit("/")>> \o Rest(1)
    [] OTHER -> <<Lit(ch)>> \o Rest(1)

\* Variant with a bug: a pattern with a slash matches at any depth, too.
PatternToRegexDeep(sec, dir) ==
  [i \in DOMAIN dir |-> Lit(dir[i])] \o <<Lit("/"), Token("below", {})>> \o ToRegex(sec, 1, 0, {})

\* ec_pattern_to_regex: below the directory if the section has no slash,
\* else relative to the directory
PatternToRegex(sec, dir) ==
  [i \in DOMAIN dir |-> Lit(dir[i])]
    \o (CASE ~HasChar(sec, "/") -> <<Lit("/"), Token("below", {})>>
          [] HasChar(sec, "/") /\ sec[1] # "/" -> <<Lit("/")>>
          [] OTHER -> <<>>)
    \o ToRegex(sec, 1, 0, {})

-----------------------------------------------------------------------------
(* regcomp and regexec (external), for the tokens above *)

Depth(t, i) == Cardinality({k \in 1..i : t[k].k = "("}) - Cardinality({k \in 1..i : t[k].k \in {")", ")?"}})
Compiles(t) == /\ \A i \in DOMAIN t : t[i].k # "bad" /\ Depth(t, i) >= 0
               /\ Depth(t, Len(t)) = 0

RECURSIVE Ends(_, _, _)

\* The positions of path at which a match of t that starts at one of from ends
Ends(t, path, from) ==
  LET bars == {i \in DOMAIN t : t[i].k = "|" /\ Depth(t, i) = 0}
      bar == CHOOSE i \in bars : \A j \in bars : i <= j
      close == CHOOSE i \in DOMAIN t : /\ t[i].k \in {")", ")?"} /\ Depth(t, i) = 0
                                       /\ \A j \in 1..i - 1 : Depth(t, j) > 0
      group == Ends(SubSeq(t, 2, close - 1), path, from)
      Free(p, q) == \A k \in p + 1..q : path[k] # "/"
      far == from \X (0..Len(path))
      one == {p + 1 : p \in {p \in from : p < Len(path)}}
      first == CASE t[1].k = "lit" -> {p \in one : path[p] \in t[1].c}
                 [] t[1].k = "set" -> {p \in one : path[p] \in t[1].c}
                 [] t[1].k = "nset" -> {p \in one : path[p] \notin t[1].c}
                 [] t[1].k = "one" -> {p \in one : path[p] # "/"}
                 [] t[1].k = "seg" -> {x[2] : x \in {x \in far : x[1] <= x[2] /\ Free(x[1], x[2])}}
                 [] t[1].k = "any" -> {x[2] : x \in {x \in far : x[1] <= x[2]}}
                 [] OTHER -> from \union {x[2] : x \in {x \in far : x[1] < x[2] /\ path[x[2]] = "/"}}
  IN  CASE t = <<>> \/ from = {} -> from
        [] t # <<>> /\ from # {} /\ bars # {} ->
             Ends(SubSeq(t, 1, bar - 1), path, from) \union Ends(Drop(t, bar), path, from)
        [] t # <<>> /\ from # {} /\ bars = {} /\ t[1].k = "(" ->
             Ends(Drop(t, close), path, IF t[close].k = ")?" THEN group \union from ELSE group)
        [] OTHER -> Ends(Tail(t), path, first)

\* ec_pattern_match
Accepts(t, path) == Compiles(t) /\ Len(path) \in Ends(t, path, {0})
PatternMatch(sec, dir, path) == Accepts(PatternToRegex(sec, dir), path)

-----------------------------------------------------------------------------
(* editorconfig.c and ini.c *)

\* Lines, as ini_parse sees them: a section heading, a pair, or one to skip
Heading(text) == [is |-> "section", text |-> text, value |-> ""]
Pair(name, value) == [is |-> "pair", text |-> name, value |-> value]

NoOptions == [style |-> "", size |-> "", tab |-> "", isTab |-> FALSE]
Digits == {"1", "2", "3", "4", "5", "6", "7", "8"}
Digit(value) == IF value \in Digits THEN value ELSE ""

\* Variant with a bug: a size does not undo a "tab" that came before it.
OptionSetKeeps(o, name, value) ==
  CASE name = <<"indent_style">> -> [o EXCEPT !.style = IF value \in {"tab", "space"} THEN value ELSE ""]
    [] name = <<"indent_size">> -> [o EXCEPT !.isTab = @ \/ value = "tab", !.size = Digit(value)]
    [] name = <<"tab_width">> -> [o EXCEPT !.tab = Digit(value)]
    [] OTHER -> o

\* editorconfig_option_set; a value that is not valid resets the option.
OptionSet(o, name, value) ==
  CASE name = <<"indent_style">> -> [o EXCEPT !.style = IF value \in {"tab", "space"} THEN value ELSE ""]
    [] name = <<"indent_size">> -> [o EXCEPT !.isTab = value = "tab", !.size = Digit(value)]
    [] name = <<"tab_width">> -> [o EXCEPT !.tab = Digit(value)]
    [] OTHER -> o

IsRoot(line) == line.text = <<"root">> /\ line.value = "true"

\* editorconfig_parse: a section is matched when its first pair is read, and
\* the answer kept for the others; pairs before any section are only looked
\* at for "root".
ParseFile(opts, lines, dir, path) ==
  FoldLeft(LAMBDA s, line :
      CASE line.is = "section" -> [s EXCEPT !.section = line.text, !.count = 0]
        [] line.is = "pair" /\ s.section = <<>> ->
             [s EXCEPT !.opts = IF IsRoot(line) THEN NoOptions ELSE @, !.count = @ + 1]
        [] line.is = "pair" /\ s.section # <<>> ->
             LET match == IF s.count = 0 THEN PatternMatch(s.section, dir, path) ELSE s.match
             IN  [s EXCEPT !.match = match, !.count = @ + 1,
                           !.opts = IF match THEN OptionSet(@, line.text, line.value) ELSE @]
        [] OTHER -> s,
    [opts |-> opts, section |-> <<>>, count |-> 0, match |-> FALSE], lines).opts

\* The directories above a path, from the root down
Above(path) == SetToSortSeq({d \in EcDirs : d = <<"/">> \/ IsPrefix(Append(d, "/"), path)},
                            LAMBDA x, y : Len(x) < Len(y))

\* get_editorconfig_options: what is not given follows from the rest
Options(path) ==
  LET Tabs(o) == [o EXCEPT !.isTab = @ \/ (o.size = "" /\ o.style = "tab")]
      Sized(o) == IF o.isTab /\ o.tab # "" THEN [o EXCEPT !.size = o.tab] ELSE o
      Tabbed(o) == IF o.size # "" /\ o.tab = "" /\ ~o.isTab THEN [o EXCEPT !.tab = o.size] ELSE o
      read == FoldLeft(LAMBDA o, d : ParseFile(o, files[d], d, path), NoOptions, Above(path))
  IN  Tabbed(Sized(Tabs(read)))

-----------------------------------------------------------------------------
EcInit ==
  /\ section = [text |-> <<>>, n |-> 0]
  /\ files = [d \in EcDirs |-> <<>>]
  /\ parts = 0

\* A heading gets another piece
WriteHeading == \E p \in Pieces :
  /\ parts = 0 /\ section.n < MaxPieces
  /\ section' = [text |-> section.text \o p, n |-> section.n + 1]
  /\ UNCHANGED <<files, parts>>

\* A file gets more lines
WriteLines == \E d \in EcDirs, lines \in Parts :
  /\ section.n = 0 /\ parts < MaxParts
  /\ files' = [files EXCEPT ![d] = @ \o lines]
  /\ parts' = parts + 1
  /\ UNCHANGED section

EcNext == WriteHeading \/ WriteLines

EcSpec == EcInit /\ [][EcNext]_ecVars

-----------------------------------------------------------------------------
(* What a section means: the braces are expanded, and what is left matches *)
(* like the patterns of a shell.                                           *)

RECURSIVE ClosedAt(_, _, _)

\* The position of the "]" or "}" that closes what is open at i, 0 if none
ClosedAt(s, i, open) ==
  CASE i > Len(s) -> 0
    [] i <= Len(s) /\ s[i] = "\\" -> ClosedAt(s, i + 2, open)
    [] i <= Len(s) /\ s[i] = "{" -> ClosedAt(s, i + 1, open + 1)
    [] i <= Len(s) /\ s[i] = "}" -> IF open = 1 THEN i ELSE ClosedAt(s, i + 1, open - 1)
    [] OTHER -> ClosedAt(s, i + 1, open)

Plain(s) == \A i \in DOMAIN s : s[i] \notin {"[", "]", "{", "}", ",", "/", "\\", "!"}
CloseBracket(s, i) == SelectInSeq(Drop(s, i), LAMBDA c : c = "]")

RECURSIVE WellFormed(_, _, _)

\* Brackets are closed and hold only letters, and every brace has its pair
WellFormed(s, i, open) ==
  CASE i > Len(s) -> i = Len(s) + 1 /\ open = 0
    [] i <= Len(s) /\ s[i] = "\\" -> WellFormed(s, i + 2, open)
    [] i <= Len(s) /\ s[i] = "[" ->
         LET n == CloseBracket(s, i)
             inside == SubSeq(s, i + 1, i + n - 1)
         IN  /\ n > 1 /\ inside # <<"!">>
             /\ Plain(IF inside[1] = "!" THEN Tail(inside) ELSE inside)
             /\ WellFormed(s, i + n + 1, open)
    [] i <= Len(s) /\ s[i] = "{" -> WellFormed(s, i + 1, open + 1)
    [] i <= Len(s) /\ s[i] = "}" -> open > 0 /\ WellFormed(s, i + 1, open - 1)
    [] OTHER -> WellFormed(s, i + 1, open)

RECURSIVE Expand(_, _), Alternates(_, _, _, _)

\* The parts of s between the commas that are not inside another brace
Alternates(s, i, open, part) ==
  CASE i > Len(s) -> {part}
    [] i <= Len(s) /\ s[i] = "\\" -> Alternates(s, i + 2, open, part \o SubSeq(s, i, i + 1))
    [] i <= Len(s) /\ s[i] = "," /\ open = 0 -> {part} \union Alternates(s, i + 1, 0, <<>>)
    [] OTHER -> Alternates(s, i + 1, IF s[i] = "{" THEN open + 1 ELSE IF s[i] = "}" THEN open - 1 ELSE open,
                           Append(part, s[i]))

\* The patterns without braces that s stands for, done before position i
Expand(s, i) ==
  CASE i > Len(s) -> {s}
    [] i <= Len(s) /\ s[i] = "\\" -> Expand(s, i + 2)
    [] i <= Len(s) /\ s[i] = "{" ->
         LET end == ClosedAt(s, i + 1, 1)
         IN  UNION {Expand(SubSeq(s, 1, i - 1) \o a \o Drop(s, end), i) :
                    a \in Alternates(SubSeq(s, i + 1, end - 1), 1, 0, <<>>)}
    [] OTHER -> Expand(s, i + 1)

RECURSIVE Glob(_, _)

\* Does pattern s, without braces, match path p?
Glob(s, p) ==
  LET n == CloseBracket(s, 1)
      inside == SubSeq(s, 2, n)
      step == p # <<>> /\ p[1] # "/"
  IN
  CASE s = <<>> -> p = <<>>
    [] s # <<>> /\ IsPrefix(<<"*", "*">>, s) -> \E k \in 0..Len(p) : Glob(Drop(s, 2), Drop(p, k))
    [] s # <<>> /\ IsPrefix(<<"/", "*", "*", "/">>, s) ->
         p # <<>> /\ p[1] = "/" /\ (Glob(Drop(s, 3), p) \/ \E k \in 2..Len(p) : p[k] = "/" /\ Glob(Drop(s, 4), Drop(p, k)))
    [] s # <<>> /\ s[1] = "*" /\ ~IsPrefix(<<"*", "*">>, s) ->
         Glob(Tail(s), p) \/ (step /\ Glob(s, Tail(p)))
    [] s # <<>> /\ s[1] = "?" -> step /\ Glob(Tail(s), Tail(p))
    [] s # <<>> /\ s[1] = "\\" -> p # <<>> /\ p[1] = s[2] /\ Glob(Drop(s, 2), Tail(p))
    [] s # <<>> /\ s[1] = "[" ->
         /\ p # <<>>
         /\ (p[1] \in ToSet(inside)) # (inside[1] = "!")
         /\ Glob(Drop(s, n + 1), Tail(p))
    [] OTHER -> p # <<>> /\ p[1] = s[1] /\ Glob(Tail(s), Tail(p))

\* A section without a slash means files in or below dir, another one is
\* relative to dir.
Means(sec, dir, path) ==
  LET base == IF dir = <<"/">> THEN <<>> ELSE dir
      p == Drop(path, Len(base))
      below == {k \in DOMAIN p : p[k] = "/"}
  IN  /\ IsPrefix(Append(base, "/"), path)
      /\ \E s \in Expand(sec, 1) :
           CASE ~HasChar(sec, "/") -> \E k \in below : Glob(s, Drop(p, k))
             [] HasChar(sec, "/") /\ sec[1] = "/" -> Glob(s, p)
             [] OTHER -> Glob(s, Tail(p))

\* Every heading that is well-formed, with braces nested and empty alternates
\* in any place, matches exactly the files that its pattern stands for; its
\* regular expression always compiles.
SectionsMatch ==
  WellFormed(section.text, 1, 0) /\ section.text # <<>> =>
    \A path \in Paths, dir \in EcDirs \ {<<"/">>} :
      PatternMatch(section.text, dir, path) = Means(section.text, dir, path)

\* The value of the last pair called name, in a section that matches and
\* after the last "root = true", of all the files above path; "" if none
LastValue(name, path) ==
  LET all == FlattenSeq([k \in DOMAIN Above(path) |->
               LET d == Above(path)[k] IN [i \in DOMAIN files[d] |-> <<d, i>>]])
      line(k) == files[all[k][1]][all[k][2]]
      heading(k) == LET above == SelectSeq(SubSeq(files[all[k][1]], 1, all[k][2]),
                                           LAMBDA l : l.is = "section")
                    IN  IF above = <<>> THEN <<>> ELSE Last(above).text
      root(k) == IsRoot(line(k)) /\ heading(k) = <<>>
      hit(k) == /\ line(k).is = "pair" /\ line(k).text = name /\ heading(k) # <<>>
                /\ PatternMatch(heading(k), all[k][1], path)
      live == {k \in DOMAIN all : hit(k) /\ \A j \in k + 1..Len(all) : ~root(j)}
  IN  IF live = {} THEN "" ELSE line(CHOOSE k \in live : \A j \in live : j <= k).value

ComesOf(o, style, size, tab) ==
  LET asTab == size = "tab" \/ (Digit(size) = "" /\ style = "tab")
  IN  /\ o.style = IF style \in {"tab", "space"} THEN style ELSE ""
      /\ o.size = IF asTab THEN tab ELSE Digit(size)
      /\ o.tab = IF tab = "" /\ ~asTab THEN Digit(size) ELSE tab

\* Of several files and sections, the value of an option is the last one for
\* it; and, as the EditorConfig specification has it, indent_size and
\* tab_width stand in for each other when only one of them is given.
LastSectionWins ==
  parts > 0 => \A path \in Paths :
    ComesOf(Options(path), LastValue(<<"indent_style">>, path),
            LastValue(<<"indent_size">>, path), Digit(LastValue(<<"tab_width">>, path)))

\* Both: which sections apply to a file, and what comes of them.
EditorConfigIsRight == SectionsMatch /\ LastSectionWins
================================================================================
