--------------------------------- MODULE Tags ---------------------------------
(***************************************************************************)
(* Tags files: src/tag.c and src/ctags.c.  The file that is found for the  *)
(* current directory is kept in memory and read again when another one is  *)
(* found or its mtime has changed; a lookup takes the entries of a name    *)
(* from it, the most interesting ones first, and turns the search command  *)
(* of each one, as ctags wrote it, into a regular expression.              *)
(***************************************************************************)
EXTENDS Integers, SequencesExt

CONSTANTS
  Dirs,      \* directories, as sequences of names
  Contents,  \* contents of tags files, as sequences of TagLine records
  Buffers,   \* absolute filenames of Buffers
  Names,     \* names to look up
  MaxTime    \* bound: times at which a tags file is written

NoTagFile == <<"none">>

VARIABLES
  disk,   \* the tags file of each directory: its lines and its mtime
  cwd,    \* the current directory
  tf,     \* e->tagfile
  clock,  \* mtime of the tags file written last
  found,  \* the messages of the last lookup, and for which Buffer
  want    \* history: the entries that were on disk for it

tagVars == <<disk, cwd, tf, clock, found, want>>

\* A line of a tags file: "!comment", or an entry.  ex is the command up to
\* the first tab after it, code is the line of source that it was made from.
TagLine(is, name, file, ex, code, kind, local) ==
  [is |-> is, name |-> name, file |-> file, ex |-> ex, code |-> code,
   kind |-> kind, local |-> local]

Absent == [exists |-> FALSE, lines |-> <<>>, mtime |-> 0]
NoTags == [filename |-> NoTagFile, lines |-> <<>>, mtime |-> 0]

-----------------------------------------------------------------------------
(* ctags.c: patterns *)

\* How ctags writes a line of source (external): "\" and "/" get a "\".
CtagsPattern(code) ==
  <<"/">> \o FlattenSeq([i \in DOMAIN code |->
    IF code[i] \in {"\\", "/"} THEN <<"\\", code[i]>> ELSE <<code[i]>>]) \o <<"/">>

RECURSIVE Unescape(_, _, _), UnescapeBare(_, _, _)

\* Variant with a bug: a "\\" becomes a single "\".
UnescapeBare(ex, i, delim) ==
  CASE i > Len(ex) -> <<"bad">>
    [] i <= Len(ex) /\ ex[i] = "\\" ->
         IF i = Len(ex) THEN <<"bad">> ELSE <<ex[i + 1]>> \o UnescapeBare(ex, i + 2, delim)
    [] i <= Len(ex) /\ ex[i] \in {"*", "[", "]"} ->
         <<"\\", ex[i]>> \o UnescapeBare(ex, i + 1, delim)
    [] i <= Len(ex) /\ ex[i] = delim -> <<>>
    [] OTHER -> <<ex[i]>> \o UnescapeBare(ex, i + 1, delim)

\* The loop of regex_from_ex_pattern from position i; "bad" without an end
Unescape(ex, i, delim) ==
  CASE i > Len(ex) -> <<"bad">>
    [] i <= Len(ex) /\ ex[i] = "\\" ->
         IF i = Len(ex) THEN <<"bad">>
         ELSE (IF ex[i + 1] = "\\" THEN <<"\\", "\\">> ELSE <<ex[i + 1]>>)
                \o Unescape(ex, i + 2, delim)
    [] i <= Len(ex) /\ ex[i] \in {"*", "[", "]"} ->
         <<"\\", ex[i]>> \o Unescape(ex, i + 1, delim)
    [] i <= Len(ex) /\ ex[i] = delim -> <<>>
    [] OTHER -> <<ex[i]>> \o Unescape(ex, i + 1, delim)

RegexFromExPattern(ex) == Unescape(ex, 2, ex[1])

RECURSIVE RegexMatches(_, _)

\* Whether a basic regular expression without repetition and brackets matches
\* a whole text (external: regexec).
RegexMatches(re, text) ==
  IF re = <<>> \/ text = <<>> THEN re = <<>> /\ text = <<>>
  ELSE CASE re[1] = "\\" -> /\ Len(re) > 1 /\ re[2] = text[1]
                            /\ RegexMatches(SubSeq(re, 3, Len(re)), Tail(text))
         [] re[1] \in {"*", "[", "]"} -> FALSE
         [] OTHER -> re[1] \in {".", text[1]} /\ RegexMatches(Tail(re), Tail(text))

\* parse_ctags_line: whether the line is an entry; without a search pattern the
\* command is a line number.
IsEntry(line) ==
  /\ line.is = "entry"
  /\ line.ex # <<>>
  /\ line.ex[1] \in {"/", "?"} => "bad" \notin ToSet(RegexFromExPattern(line.ex))

\* next_tag, until there are no more with this name
NextTags(lines, name) ==
  SelectSeq(lines, LAMBDA line : IsEntry(line) /\ line.name = name)

-----------------------------------------------------------------------------
(* tag.c: the order of tags *)

LocalTo(t, file) == t.local /\ file # NoTagFile /\ t.file = file

\* Variant with a bug: tags of other files are equal to global ones.
VisibilityCmpLoose(a, b, file) ==
  IF LocalTo(a, file) = LocalTo(b, file) THEN 0 ELSE IF LocalTo(a, file) THEN -1 ELSE 1

\* visibility_cmp
VisibilityCmp(a, b, file) ==
  LET alien(t) == t.local /\ ~LocalTo(t, file)
  IN  CASE alien(a) -> IF alien(b) THEN 0 ELSE 1
        [] ~alien(a) /\ alien(b) -> -1
        [] OTHER -> IF a.local = b.local THEN 0 ELSE IF a.local THEN -1 ELSE 1

\* kind_cmp
KindCmp(a, b) ==
  CASE a.kind = b.kind -> 0
    [] a.kind # b.kind /\ a.kind = "m" -> 1
    [] a.kind # b.kind /\ b.kind = "m" -> -1
    [] OTHER -> IF a.kind = "v" THEN 1 ELSE IF b.kind = "v" THEN -1 ELSE 0

\* tag_cmp_r
TagCmp(a, b, file) ==
  IF VisibilityCmp(a, b, file) # 0 THEN VisibilityCmp(a, b, file) ELSE KindCmp(a, b)

\* The filename of a Buffer as the tags file names it; none outside of dir.
Relative(file, dir) ==
  IF IsPrefix(dir, file) THEN SubSeq(file, Len(dir) + 1, Len(file)) ELSE NoTagFile

\* What qsort may return.
Sorted(tags, file) ==
  {s \in {[i \in DOMAIN tags |-> tags[p[i]]] : p \in Permutations(DOMAIN tags)} :
     \A i \in 1..(Len(s) - 1) : TagCmp(s[i], s[i + 1], file) <= 0}

\* tag_file_find_tags
FindTags(t, name, file) == Sorted(NextTags(t.lines, name), Relative(file, t.filename))

-----------------------------------------------------------------------------
(* tag.c: the file *)

\* open_tag_file: the current directory, then the ones above it
Candidates == {d \in Dirs : IsPrefix(d, cwd) /\ disk[d].exists}
TagDir == CHOOSE d \in Candidates : \A e \in Candidates : Len(e) <= Len(d)

\* Variant with a bug: a file with another name is taken for the same.
TagFileChangedTime(t, dir) == t.mtime # disk[dir].mtime

\* tag_file_changed
TagFileChanged(t, dir) == t.mtime # disk[dir].mtime \/ t.filename # dir

\* load_tag_file: the TagFiles it may end with and whether it succeeded
LoadTagFile ==
  IF Candidates = {} \/ disk[TagDir].lines = <<>> THEN {[tf |-> tf, ok |-> FALSE]}
  ELSE IF tf.filename # NoTagFile /\ ~TagFileChanged(tf, TagDir) THEN {[tf |-> tf, ok |-> TRUE]}
  ELSE {[tf |-> [filename |-> TagDir, lines |-> disk[TagDir].lines,
                 mtime |-> disk[TagDir].mtime], ok |-> TRUE],
        [tf |-> NoTags, ok |-> FALSE]}

\* "tag" with a name: clear_messages, load_tag_file and tag_lookup
TagLookup(name, buffer) ==
  /\ \E r \in LoadTagFile :
       /\ tf' = r.tf
       /\ \E tags \in IF r.ok THEN FindTags(r.tf, name, buffer) ELSE {<<>>} :
            found' = [tags |-> tags, file |-> IF r.ok THEN Relative(buffer, r.tf.filename)
                                              ELSE NoTagFile]
       /\ want' = IF r.ok THEN NextTags(disk[TagDir].lines, name) ELSE <<>>
  /\ UNCHANGED <<disk, cwd, clock>>

\* ctags writes a file, not twice in the same second.
WriteTags(dir, lines) ==
  /\ \E time \in {clock, clock + 1} :
       /\ disk[dir].mtime < time /\ time <= MaxTime
       /\ clock' = time
       /\ disk' = [disk EXCEPT ![dir] = [exists |-> TRUE, lines |-> lines, mtime |-> time]]
  /\ UNCHANGED <<cwd, tf, found, want>>

RemoveTags(dir) ==
  /\ disk[dir].exists
  /\ disk' = [disk EXCEPT ![dir].exists = FALSE, ![dir].lines = <<>>]
  /\ UNCHANGED <<cwd, tf, clock, found, want>>

\* "cd"
Cd(dir) == cwd' = dir /\ UNCHANGED <<disk, tf, clock, found, want>>

TagsInit ==
  /\ disk = [d \in Dirs |-> Absent]
  /\ cwd \in Dirs
  /\ tf = NoTags
  /\ clock = 0
  /\ found = [tags |-> <<>>, file |-> NoTagFile]
  /\ want = <<>>

TagsNext ==
  \/ \E name \in Names, b \in Buffers : TagLookup(name, b)
  \/ \E d \in Dirs : RemoveTags(d) \/ Cd(d) \/ \E lines \in Contents : WriteTags(d, lines)

TagsSpec == TagsInit /\ [][TagsNext]_tagVars

-----------------------------------------------------------------------------
(* Properties *)

\* How interesting a tag is: those of the current file, global ones, those of
\* other files, and in each group members last, variables before them.
Rank(t, file) ==
  (CASE LocalTo(t, file) -> 0 [] ~t.local -> 10 [] OTHER -> 20)
    + (CASE t.kind = "m" -> 2 [] t.kind = "v" -> 1 [] OTHER -> 0)

\* The tags found are those of the tags file on disk that is nearest to the
\* current directory, ordered by interest whatever order qsort chose for equal
\* ones, and the pattern of each one matches the line it was made from.
LookupIsRight ==
  LET tags == found.tags
  IN  /\ \E p \in Permutations(DOMAIN want) :
           Len(tags) = Len(want) /\ \A i \in DOMAIN want : tags[i] = want[p[i]]
      /\ \A i, j \in DOMAIN tags :
           i < j => Rank(tags[i], found.file) <= Rank(tags[j], found.file)
      /\ \A i \in DOMAIN tags :
           tags[i].ex[1] = "/" => RegexMatches(RegexFromExPattern(tags[i].ex), tags[i].code)
=============================================================================
