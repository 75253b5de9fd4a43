------------------------------ MODULE MCEditor -------------------------------
(***************************************************************************)
(* What is edited and how it is shown, on small instances in one run: the  *)
(* frames of the screen (Frames), bookmarks and messages (Locations), tags *)
(* (Tags), options (Options) and .editorconfig files (EditorConfig),       *)
(* syntax definitions (SyntaxFiles), the files of histories (Histories)    *)
(* and the commands that edit (Editing).                                   *)
(*                                                                         *)
(* The components share nothing that a property is about, so a behaviour   *)
(* is one of a single component, the part; the others stay as they were at *)
(* the start.                                                              *)
(***************************************************************************)
EXTENDS Frames, Locations, Tags, Options, EditorConfig, SyntaxFiles, Histories, Editing

-----------------------------------------------------------------------------
(* Frames *)

MCScreens == {[w |-> 7, h |-> 2], [w |-> 3, h |-> 4]}
MCAmounts == {-1, 3}

-----------------------------------------------------------------------------
(* Tags: comments, a line number, a pattern that does not end, patterns with
   what has to be escaped, and kinds that are not sorted *)

MCDirs == {<<"a">>, <<"a", "b">>}
MCBuffers == {<<"a", "b", "f">>, <<"a", "g">>}
Entry(name, file, kindOf, local, code) ==
  TagLine("entry", name, file, CtagsPattern(code), code, kindOf, local)
Comment == TagLine("comment", "", NoTagFile, <<>>, <<>>, "f", FALSE)
Numbered == TagLine("entry", "n", <<"f">>, <<"7">>, <<>>, "v", TRUE)
Broken == TagLine("entry", "n", <<"f">>, <<"/", "x">>, <<>>, "v", TRUE)
MCContents ==
  {<<>>, <<Comment, Numbered, Broken>>}
    \cup {<<Entry("n", <<"g">>, "f", FALSE, <<"x", c>>), Entry("n", <<"g">>, "f", FALSE, <<c, "\\">>),
            Entry("o", <<"g">>, "f", FALSE, <<c>>)>> : c \in {"\\", "/", "*"}}
    \cup {<<Numbered, Entry("n", <<"b", "f">>, k, TRUE, <<"x">>), Entry("n", <<"g">>, "v", FALSE, <<"x">>),
            Entry("n", <<"g">>, "m", FALSE, <<"x">>)>> : k \in {"v", "m"}}

-----------------------------------------------------------------------------
(* Options: a C file with an extension and a script with a "#!" line *)

OptLine(ws, content) == [ws |-> ws, rest |-> content]
tb == "t"
sp == "s"
MCOpenNames == {"/a.c", "/b"}
MCFileTexts == [x \in {"", "code", "script"} |->
  CASE x = "" -> <<>>
    [] x = "code" -> <<OptLine(<<>>, "x"), OptLine(<<sp, sp>>, "x"), OptLine(<<sp, sp, sp, sp>>, "x"),
                       OptLine(<<sp, sp, sp>>, "*"), OptLine(<<sp, tb>>, "x"), OptLine(<<>>, "x"),
                       OptLine(<<sp, sp, sp, sp>>, "x")>>
    [] OTHER -> <<OptLine(<<>>, "#!"), OptLine(<<tb>>, "x"), OptLine(<<tb>>, ""),
                  OptLine(<<tb, sp>>, "x"), OptLine(<<sp, sp>>, "x")>>]
MCTextOf == [f \in MCOpenNames |-> IF f = "/a.c" THEN "code" ELSE "script"]
MCParams == [x \in (MCOpenNames \cup {""}) \X {"", "code", "script"} |->
  [interpreter |-> IF x[2] = "script" THEN "sh" ELSE "",
   basename |-> IF x[1] = "/b" THEN "b" ELSE IF x[1] = "" THEN "" ELSE "a.c",
   content |-> x[2],
   extension |-> IF x[1] = "/a.c" THEN "c" ELSE "",
   filename |-> x[1]]]
MCEcOf == [f \in MCOpenNames \cup {""} |->
  CASE f = "/a.c" -> [style |-> "", size |-> "4", tab |-> "4"]
    [] f = "/b" -> [style |-> "", size |-> "", tab |-> "4"]
    [] OTHER -> [style |-> "tab", size |-> "", tab |-> ""]]
MCBuiltin == {<<"interpreter", "sh", "sh">>, <<"extension", "c", "c">>}
MCAssignments ==
  {<< <<"editorconfig", <<"true">>>>, <<"nonesuch", <<"1">>>> >>,
   << <<"syntax", <<"false">>>>, <<"indent-width", <<"9">>>> >>,
   << <<"filetype", <<"c">>>> >>, << <<"tab-bar", <<"false">>>> >>,
   << <<"detect-indent", <<"4", "2">>>> >>}
MCToggles ==
  {<<"syntax", <<>>>>, <<"save-unmodified", <<>>>>,
   <<"indent-width", << <<"2">>, <<"8">>, <<"4">> >>>>, <<"filetype", << <<"c">>, <<"dte">> >>>>}
OptionOf(regex, key, strs) == [regex |-> regex, key |-> key, strs |-> strs]
MCFileOptions ==
  {OptionOf(FALSE, "c", << <<"indent-width", <<"2">>>>, <<"syntax", <<"false">>>> >>),
   OptionOf(TRUE, "/a.c", << <<"indent-width", <<"8">>>>, <<"editorconfig", <<"true">>>> >>),
   OptionOf(FALSE, "sh", << <<"detect-indent", <<"4">>>> >>),
   OptionOf(FALSE, "sh", << <<"filetype", <<"c">>>> >>)}
MCFileTypes == {[name |-> "c", str |-> "script", type |-> "content"],
                [name |-> "dte", str |-> "b", type |-> "basename"]}
-----------------------------------------------------------------------------
(* EditorConfig: pieces that make nested, empty and unclosed braces *)

Slash == "/"
MCPaths == {<<Slash, "a">>, <<Slash, "d", Slash, "a">>, <<Slash, "d", Slash, "b">>,
            <<Slash, "d", Slash, "a", "b">>, <<Slash, "d", Slash, "b", Slash, "a">>,
            <<Slash, "d", Slash, "a", Slash, "b", Slash, "a">>,
            <<Slash, "d", Slash, "{", "a">>, <<Slash, "d", Slash, "[", "a">>}
MCEcDirs == {<<Slash>>, <<Slash, "d">>, <<Slash, "d", Slash, "b">>}
MCPieces == {<<"{">>, <<"}">>, <<",">>, <<"{", "a", ",">>, <<"b", "*">>, <<"[", "!", "a", "]">>,
             <<"[", "a">>, <<Slash, "*", "*", Slash>>, <<"\\", "{">>}
MCParts ==
  {<<Heading(<<"a">>), Pair(<<"indent_size">>, "4")>>,
   <<Heading(<<"*">>), Pair(<<"indent_size">>, "tab")>>,
   <<Heading(<<"*">>), Pair(<<"tab_width">>, "8"), Pair(<<"indent_style">>, "tab")>>,
   <<Pair(<<"indent_style">>, "none"), Pair(<<"root">>, "true")>>, <<Heading(<<>>)>>}

-----------------------------------------------------------------------------
(* SyntaxFiles: chunks with calls, loops, heredocs and a required file *)

SynCmd(cmd, name) == [cmd |-> cmd, name |-> name, dest |-> [sub |-> "", ret |-> ""]]
SynDest(cmd, name, sub, ret) == [cmd |-> cmd, name |-> name, dest |-> [sub |-> sub, ret |-> ret]]
MCIncluded == [inc |->
  <<SynCmd("syntax", ".s"), SynCmd("state", "a"), SynDest("char", "", "", "END"),
    SynDest("noeat", "", "", "this2"), SynCmd("state", "this2"), SynDest("eat", "", "", "END")>>]
MCChunks ==
  {<<SynCmd("syntax", "x")>>, <<SynCmd("syntax", ".t")>>, <<SynCmd("require", "inc")>>,
   <<SynCmd("state", "a")>>, <<SynCmd("state", "b"), SynDest("eat", "", "", "a")>>,
   <<SynDest("char", "", ".s", "b"), SynDest("eat", "", "", "this")>>,
   <<SynDest("noeat", "", ".s", "END")>>,
   <<SynCmd("recolor", ""), SynDest("eat", "", ".t", "a")>>,
   <<SynDest("inlist", "l", "", "this"), SynDest("noeat", "", "", "b"), SynCmd("list", "l")>>,
   <<SynDest("heredocend", "", "", "END"), SynDest("eat", "", "", "END")>>,
   <<SynDest("heredocbegin", ".t", "", "b")>>}

-----------------------------------------------------------------------------
(* Histories: one file has two positions *)

MCTexts == {<<"a">>, <<"b">>, <<"c">>, <<"d">>}
MCFileLines == {<<<<"a">>, 1>>, <<<<"a">>, 2>>, <<<<"b">>, 1>>, <<<<"c">>, 1>>, <<<<"d">>, 1>>}

-----------------------------------------------------------------------------
(* Editing: texts with indentation, a character of several bytes, braces and
   empty lines *)

MCBytes == {"a", "A", "w", "i", "z", ">", " ", "tab", NL, "{", "}"}
EditOptions(width, tabs, other) ==
  [tab_width |-> width, indent_width |-> 2, expand_tab |-> ~tabs, emulate_tab |-> ~tabs,
   auto_indent |-> TRUE, brace_indent |-> TRUE, overwrite |-> other, select_cursor_char |-> ~other]
MCOptionSets == {EditOptions(2, TRUE, FALSE), EditOptions(4, FALSE, TRUE)}
MCEditTexts ==
  {<<" ", " ", "a", " ", "w", ">", ">", NL, "i", ">", "z", ">", NL>>,
   <<"a", "{", NL, "tab", "a", NL, " ", "}", NL>>,
   <<"a", NL, " ", NL, "a", " ", "a", NL>>, <<>>}
MCTyped == {<<"}">>, <<"tab">>, <<"w", ">", ">">>}
MCInserts == {<<"i", ">">>, <<"a", NL>>}
MCClips == {Clip(<<" ", "a", NL>>, TRUE)}

-----------------------------------------------------------------------------
VARIABLE part

allVars == <<part, frameVars, locVars, tagVars, optVars, ecVars, synVars, histVars, editVars>>

MCInit ==
  /\ part \in {"frames", "locations", "tags", "options", "editorconfig", "syntaxes", "histories",
               "editing"}
  /\ FrameInit /\ (part = "frames" \/ screen.w = 7)
  /\ LocInit /\ (part = "locations" \/ shown \in FileNames)
  /\ TagsInit /\ (part = "tags" \/ cwd = <<"a">>)
  /\ OptInit /\ EcInit /\ SynInit
  /\ HistInit /\ (part = "histories" \/ kind = "text")
  /\ IF part = "editing" THEN Init
     ELSE /\ text = <<>> /\ cursor = 0 /\ selection = "none" /\ sel_so = 0 /\ select_mode = "none"
          /\ preferred_x = -1 /\ clipboard \in MCClips /\ options = EditOptions(2, TRUE, FALSE)
          /\ done = "load" /\ was = <<>> /\ steps = 0

MCNext ==
  \/ /\ part = "frames" /\ FrameNext
     /\ UNCHANGED <<part, locVars, tagVars, optVars, ecVars, synVars, histVars, editVars>>
  \/ /\ part = "locations" /\ LocNext
     /\ UNCHANGED <<part, frameVars, tagVars, optVars, ecVars, synVars, histVars, editVars>>
  \/ /\ part = "tags" /\ TagsNext
     /\ UNCHANGED <<part, frameVars, locVars, optVars, ecVars, synVars, histVars, editVars>>
  \/ /\ part = "options" /\ OptNext
     /\ UNCHANGED <<part, frameVars, locVars, tagVars, ecVars, synVars, histVars, editVars>>
  \/ /\ part = "editorconfig" /\ EcNext
     /\ UNCHANGED <<part, frameVars, locVars, tagVars, optVars, synVars, histVars, editVars>>
  \/ /\ part = "syntaxes" /\ SynNext
     /\ UNCHANGED <<part, frameVars, locVars, tagVars, optVars, ecVars, histVars, editVars>>
  \/ /\ part = "histories" /\ HistNext
     /\ UNCHANGED <<part, frameVars, locVars, tagVars, optVars, ecVars, synVars, editVars>>
  \/ /\ part = "editing" /\ Next
     /\ UNCHANGED <<part, frameVars, locVars, tagVars, optVars, ecVars, synVars, histVars>>

MCSpec == MCInit /\ [][MCNext]_allVars
=============================================================================
