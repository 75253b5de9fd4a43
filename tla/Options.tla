-------------------------------- MODULE Options --------------------------------
(***************************************************************************)
(* Options: src/options.c, file-option.c, filetype.c and the parts of      *)
(* buffer.c that set a buffer up.  An option has a global value, a value   *)
(* in every buffer, or both.  A buffer takes the global values when it is  *)
(* opened; when it is first shown its filetype is found, the settings of   *)
(* `option` for that filetype and for its filename are applied, then those *)
(* of .editorconfig files, and the indentation of its text may decide.     *)
(*                                                                         *)
(* A value is a sequence of words: of one word, or of the flags set.       *)
(* Options stands for one or two options of every type; detection stores   *)
(* to emulate-tab what it stores to expand-tab, which stands for both.     *)
(***************************************************************************)
EXTENDS Integers, SequencesExt

CONSTANTS
  OpenNames,    \* absolute filenames; "" is the name of no file
  Params,       \* for each name and text, what find_ft compares (see FindFt)
  FileTexts,    \* texts of files: sequences of [ws: Seq({"t","s"}), rest]
  TextOf,       \* the text of each file
  EcOf,         \* what .editorconfig files say of each name
  Builtin,      \* built-in lookup tables: set of <<type, parameter, filetype>>
  Assignments,  \* arguments of set: sequences of <<name, value>>
  Toggles,      \* arguments of toggle: <<name, sequence of values>>
  FileOptions,  \* arguments of option: [regex, key, strs]
  FileTypes,    \* arguments of ft: [name, str, type]
  MaxBuffers, MaxFileOptions, MaxFileTypes, MaxSettings  \* bounds

VARIABLES
  globals,      \* e->options
  buffers,      \* e->buffers
  current,      \* e->buffer: a position in buffers, 0 while configuring
  fileOptions,  \* e->file_options
  fileTypes,    \* e->filetypes
  settings      \* set and toggle commands so far

optVars == <<globals, buffers, current, fileOptions, fileTypes, settings>>

Bool == <<"false", "true">>
Widths == <<"1", "2", "3", "4", "5", "6", "7", "8">>

\* OptionDesc; values are listed in the order of their numbers
Desc(type, local, global, values, change) ==
  [type |-> type, local |-> local, global |-> global, values |-> values, change |-> change]

option_desc ==
  ("detect-indent"   :> Desc("flag", TRUE, TRUE, Widths, "none")) @@
  ("editorconfig"    :> Desc("bool", TRUE, TRUE, Bool, "none")) @@
  ("expand-tab"      :> Desc("bool", TRUE, TRUE, Bool, "redraw")) @@
  ("filetype"        :> Desc("str", TRUE, FALSE, <<>>, "filetype")) @@
  ("indent-width"    :> Desc("uint", TRUE, TRUE, Widths, "none")) @@
  ("save-unmodified" :> Desc("enum", TRUE, TRUE, <<"none", "touch", "full">>, "none")) @@
  ("syntax"          :> Desc("bool", TRUE, TRUE, Bool, "syntax")) @@
  ("tab-bar"         :> Desc("bool", FALSE, TRUE, Bool, "redraw")) @@
  ("tab-width"       :> Desc("uint", TRUE, TRUE, Widths, "redraw"))

LocalNames == {n \in DOMAIN option_desc : option_desc[n].local}
GlobalNames == {n \in DOMAIN option_desc : option_desc[n].global}
Known(name) == name \in DOMAIN option_desc

\* The filetypes that a syntax file exists for (external); "none" is one
Syntaxes == {"none", "c", "dte"}
NullSyntax == "NULL"

-----------------------------------------------------------------------------
(* Values *)

Invalid == <<"invalid">>
ValidFiletype(v) == Len(v) = 1 /\ v[1] \notin {"", "a/b"}

\* flag_parse: "0" is no flag, the order does not matter
FlagParse(d, text) ==
  CASE text = <<"0">> -> <<>>
    [] ToSet(text) \subseteq ToSet(d.values) -> SelectSeq(d.values, LAMBDA v : v \in ToSet(text))
    [] OTHER -> Invalid

\* desc_parse
Parse(d, text) ==
  CASE d.type = "flag" -> FlagParse(d, text)
    [] d.type = "str" -> IF ValidFiletype(text) THEN text ELSE Invalid
    [] OTHER -> IF Len(text) = 1 /\ text[1] \in ToSet(d.values) THEN text ELSE Invalid

Valid(name, text) == Parse(option_desc[name], text) # Invalid

Successor(d, value) ==
  LET i == CHOOSE i \in DOMAIN d.values : <<d.values[i]>> = value
  IN  <<d.values[IF i = Len(d.values) THEN 1 ELSE i + 1]>>

-----------------------------------------------------------------------------
(* filetype.c *)

LookupOrder == <<"interpreter", "basename", "content", "extension", "filename">>

\* A user entry matches a parameter that is not empty (a regular expression
\* stands for the one parameter it matches).
Matches(entry, params) == params[entry.type] # "" /\ entry.str = params[entry.type]

BuiltinFt(params, type) ==
  {b[3] : b \in {b \in Builtin : b[1] = type /\ b[2] = params[type] /\ b[2] # ""}}

\* find_ft: the first user entry, else the tables in the order of precedence
FindFt(types, params) ==
  LET user == SelectInSeq(types, LAMBDA t : Matches(t, params))
      table == SelectInSeq(LookupOrder, LAMBDA t : BuiltinFt(params, t) # {})
  IN  CASE user > 0 -> types[user].name
        [] user = 0 /\ table > 0 -> CHOOSE ft \in BuiltinFt(params, LookupOrder[table]) : TRUE
        [] OTHER -> "NULL"

-----------------------------------------------------------------------------
(* buffer.c: indentation of a text *)

\* indent_len: <<length, is a tab>>; -1 for blank lines, -2 for mixed indents
IndentLen(line, odd) ==
  LET tabs == Len(SelectSeq(line.ws, LAMBDA c : c = "t"))
      spaces == Len(line.ws) - tabs
      mixed == \E i, j \in DOMAIN line.ws : i < j /\ line.ws[i] = "s" /\ line.ws[j] = "t"
  IN  CASE line.rest = "" -> <<-1, FALSE>>
        [] line.rest # "" /\ line.ws = <<>> -> <<0, FALSE>>
        [] line.rest # "" /\ line.ws # <<>> /\ mixed -> <<-2, FALSE>>
        [] line.rest # "" /\ tabs > 0 /\ ~mixed -> <<tabs * 8, TRUE>>
        [] OTHER -> <<IF line.rest = "*" /\ (spaces % 2 = 1 \/ odd) THEN spaces - 1 ELSE spaces, FALSE>>

WidthsIn(value) == {i \in 1..8 : Widths[i] \in ToSet(value)}

\* The loop of detect_indent over the lines
Counted(text, odd) ==
  FoldLeft(LAMBDA s, line :
    LET l == IndentLen(line, odd)
        change == l[1] - s.indent
    IN  CASE l[1] < 0 -> s
          [] l[1] = 0 -> [s EXCEPT !.indent = 0]
          [] OTHER -> [indent |-> l[1],
                       tabs |-> s.tabs + (IF l[2] THEN 1 ELSE 0),
                       spaces |-> s.spaces + (IF l[2] THEN 0 ELSE 1),
                       counts |-> [w \in 1..8 |-> s.counts[w] + (IF w = change THEN 1 ELSE 0)]],
    [indent |-> 0, tabs |-> 0, spaces |-> 0, counts |-> [w \in 1..8 |-> 0]], text)

\* detect_indent: the options of a buffer with that text.  The smallest of
\* the widths looked for that indents most lines is taken.
DetectIndent(opts, text) ==
  LET wanted == WidthsIn(opts["detect-indent"])
      c == Counted(text, \E w \in wanted : w % 2 = 1)
      best == {w \in wanted : /\ c.counts[w] > 0
                              /\ \A v \in wanted : IF v < w THEN c.counts[v] < c.counts[w]
                                                            ELSE c.counts[v] <= c.counts[w]}
  IN  CASE c.tabs > c.spaces ->
             [opts EXCEPT !["expand-tab"] = <<"false">>, !["indent-width"] = opts["tab-width"]]
        [] c.tabs <= c.spaces /\ c.spaces > 0 /\ best # {} ->
             [opts EXCEPT !["expand-tab"] = <<"true">>,
                          !["indent-width"] = <<Widths[CHOOSE w \in best : TRUE]>>]
        [] OTHER -> opts

-----------------------------------------------------------------------------
(* Setting a buffer up.  bs are the buffers, i is the one to set up, at is   *)
(* e->buffer: the settings of `option` go through set_option, which knows    *)
(* only e->buffer.  o are the entries of `option`.                           *)

\* buffer_update_syntax
UpdateSyntax(b) ==
  [b EXCEPT !.syntax = IF b.local["syntax"] = <<"true">> /\ b.local["filetype"][1] \in Syntaxes
                       THEN b.local["filetype"][1] ELSE NullSyntax]

\* desc_set of an option that is not the filetype, and its on_change
DescSet(b, name, value) ==
  LET set == [b EXCEPT !.local[name] = value]
  IN  CASE b.local[name] = value -> b
        [] b.local[name] # value /\ option_desc[name].change = "syntax" -> UpdateSyntax(set)
        [] OTHER -> set

\* set_options: the strings of an entry, which validate_local_options accepted
SetOptions(bs, at, strs) ==
  [bs EXCEPT ![at] =
     FoldLeft(LAMBDA b, p : DescSet(b, p[1], Parse(option_desc[p[1]], p[2])), @, strs)]

\* Does an entry of `option` apply to a buffer of this filetype and name?
Applies(entry, filetype, name) ==
  IF entry.regex THEN name # "" /\ entry.key = name ELSE entry.key = filetype

\* set_file_options
SetFileOptions(bs, i, at, o) ==
  LET ft == bs[i].local["filetype"][1]
      Is(entry) == Applies(entry, ft, bs[i].name)
  IN  FoldLeft(LAMBDA s, entry : SetOptions(s, at, entry.strs), bs, SelectSeq(o, Is))

\* Variant with a bug: a width alone leaves detection on.
EditorConfigDetects(b) ==
  LET ec == EcOf[b.name]
      styled == IF ec.style = "" THEN b.local
                ELSE [b.local EXCEPT !["expand-tab"] = <<IF ec.style = "space" THEN "true" ELSE "false">>,
                                     !["detect-indent"] = <<>>]
      sized == IF ec.size = "" THEN styled ELSE [styled EXCEPT !["indent-width"] = <<ec.size>>]
  IN  IF b.local["editorconfig"] = <<"false">> THEN b ELSE [b EXCEPT !.local = sized]

\* set_editorconfig_options.  For no filename, those of the directory.
SetEditorConfigOptions(b) ==
  LET ec == EcOf[b.name]
      styled == IF ec.style = "" THEN b.local
                ELSE [b.local EXCEPT !["expand-tab"] = <<IF ec.style = "space" THEN "true" ELSE "false">>,
                                     !["detect-indent"] = <<>>]
      sized == IF ec.size = "" THEN styled
               ELSE [styled EXCEPT !["indent-width"] = <<ec.size>>, !["detect-indent"] = <<>>]
      tabbed == IF ec.tab = "" THEN sized ELSE [sized EXCEPT !["tab-width"] = <<ec.tab>>]
  IN  IF b.local["editorconfig"] = <<"false">> THEN b ELSE [b EXCEPT !.local = tabbed]

\* buffer_detect_filetype
Detected(b, types) ==
  LET ft == FindFt(types, Params[<<b.name, b.text>>])
  IN  IF (FileTexts[b.text] = <<>> /\ b.name = "") \/ ft = "NULL" THEN b
      ELSE [b EXCEPT !.local["filetype"] = <<ft>>]

\* The indentation of the text decides if nothing else did
Indented(b) ==
  [b EXCEPT !.setup = TRUE,
            !.local = IF b.local["detect-indent"] # <<>> /\ b.name # ""
                      THEN DetectIndent(@, FileTexts[b.text]) ELSE @]

\* Variant with a bug: the syntax is loaded before the filetype is known.
BufferSetupEarly(bs, i, at) ==
  LET set == SetFileOptions([bs EXCEPT ![i] = Detected(UpdateSyntax(@), fileTypes)], i, at, fileOptions)
  IN  [set EXCEPT ![i] = Indented(SetEditorConfigOptions(@))]

\* buffer_setup
BufferSetup(bs, i, at) ==
  LET set == SetFileOptions([bs EXCEPT ![i] = Detected(@, fileTypes)], i, at, fileOptions)
  IN  [set EXCEPT ![i] = Indented(UpdateSyntax(SetEditorConfigOptions(@)))]

\* buffer_new: the common options are those of the editor
BufferNew(name, text) ==
  [name |-> name, text |-> text, setup |-> FALSE, syntax |-> NullSyntax,
   local |-> [n \in LocalNames |-> IF n = "filetype" THEN <<"none">> ELSE globals[n]]]

-----------------------------------------------------------------------------
OptInit ==
  /\ globals = [n \in GlobalNames |->
       CASE n \in {"indent-width", "tab-width"} -> <<"8">>
         [] n = "detect-indent" -> <<>>
         [] n = "save-unmodified" -> <<"full">>
         [] n \in {"editorconfig", "expand-tab"} -> <<"false">>
         [] OTHER -> <<"true">>]
  /\ buffers = <<>>
  /\ current = 0
  /\ fileOptions = <<>>
  /\ fileTypes = <<>>
  /\ settings = 0

\* cmd_ft
Ft == \E t \in FileTypes :
  /\ Len(fileTypes) < MaxFileTypes
  /\ fileTypes' = Append(fileTypes, t)
  /\ UNCHANGED <<globals, buffers, current, fileOptions, settings>>

\* cmd_option: nothing is added unless every pair is a local option, other
\* than the filetype, with a valid value (validate_local_options).
Option == \E f \in FileOptions :
  /\ Len(fileOptions) < MaxFileOptions
  /\ \A i \in DOMAIN f.strs : /\ Known(f.strs[i][1]) /\ f.strs[i][1] \in LocalNames \ {"filetype"}
                              /\ Valid(f.strs[i][1], f.strs[i][2])
  /\ fileOptions' = Append(fileOptions, f)
  /\ UNCHANGED <<globals, buffers, current, fileTypes, settings>>

\* The settings of `option` for the filetype of a buffer, then its syntax
Retyped(b) == UpdateSyntax(SetFileOptions(<<b>>, 1, 1, fileOptions)[1])

\* desc_set of a local value of the current buffer (filetype_changed)
LocalSet(b, name, value) ==
  IF name = "filetype" /\ b.local[name] # value THEN Retyped([b EXCEPT !.local[name] = value])
  ELSE DescSet(b, name, value)

\* do_set_option for one pair, on state s = [g: global options, b: buffer].
\* An option that is not of the kind asked for, or a bad value, is an error
\* that leaves this pair out.
DoSetOption(s, name, text, local, global) ==
  LET d == option_desc[name]
      value == Parse(d, text)
      both == ~local /\ ~global
      refused == (local /\ ~d.local) \/ (global /\ ~d.global) \/ value = Invalid
  IN  IF refused THEN s
      ELSE [g |-> IF (global \/ both) /\ d.global THEN [s.g EXCEPT ![name] = value] ELSE s.g,
            b |-> IF (local \/ both) /\ d.local THEN LocalSet(s.b, name, value) ELSE s.b]

Store(s) ==
  /\ settings < MaxSettings
  /\ settings' = settings + 1
  /\ globals' = s.g
  /\ buffers' = IF current = 0 THEN buffers ELSE [buffers EXCEPT ![current] = s.b]
  /\ UNCHANGED <<current, fileOptions, fileTypes>>

Chosen == [g |-> globals, b |-> IF current = 0 THEN BufferNew("", "") ELSE buffers[current]]

\* cmd_set: every pair by itself; in config files only global values
Set == \E pairs \in Assignments, local, global \in BOOLEAN :
  /\ current = 0 => ~local
  /\ Store(FoldLeft(LAMBDA s, p : IF Known(p[1]) THEN DoSetOption(s, p[1], p[2], local, global \/ current = 0)
                                  ELSE s,
                    Chosen, pairs))

\* find_toggle_option: an option without a local value is toggled globally
TogglesGlobal(name, global) == global \/ name \notin LocalNames

Toggled(name, global, value) ==
  IF TogglesGlobal(name, global) THEN [Chosen EXCEPT !.g[name] = value]
  ELSE [Chosen EXCEPT !.b = LocalSet(@, name, value)]

ValueOf(name, global) ==
  IF TogglesGlobal(name, global) THEN globals[name] ELSE buffers[current].local[name]

\* toggle_option: the next of the listed values
ToggleOption == \E t \in Toggles, global \in BOOLEAN :
  LET d == option_desc[t[1]]
  IN  /\ current # 0 /\ t[2] = <<>>
      /\ d.type \in {"enum", "bool"} /\ (global => d.global)
      /\ Store(Toggled(t[1], global, Successor(d, ValueOf(t[1], global))))

\* toggle_option_values: the value after the current one, of those given.  A
\* current value that is not given counts as the first.
ToggleOptionValues == \E t \in Toggles, global \in BOOLEAN :
  LET d == option_desc[t[1]]
      values == [i \in DOMAIN t[2] |-> Parse(d, t[2][i])]
      at == SelectLastInSeq(values, LAMBDA v : v = ValueOf(t[1], global))
      i == IF at = 0 THEN 1 ELSE at
  IN  /\ current # 0 /\ t[2] # <<>> /\ (global => d.global)
      /\ \A k \in DOMAIN values : values[k] # Invalid
      /\ Store(Toggled(t[1], global, values[IF i = Len(values) THEN 1 ELSE i + 1]))

\* open, and the files named when the editor starts: not shown yet
Open == \E f \in OpenNames :
  /\ Len(buffers) < MaxBuffers /\ \A i \in DOMAIN buffers : buffers[i].name # f
  /\ buffers' = Append(buffers, BufferNew(f, TextOf[f]))
  /\ UNCHANGED <<globals, current, fileOptions, fileTypes, settings>>

\* Variant with a bug: the buffer is set up before it is the current one.
SetViewLate == \E i \in DOMAIN buffers :
  /\ i # current
  /\ current' = i
  /\ buffers' = IF buffers[i].setup THEN buffers
                ELSE BufferSetup(buffers, i, IF current = 0 THEN i ELSE current)
  /\ UNCHANGED <<globals, fileOptions, fileTypes, settings>>

\* set_view: e->buffer is the buffer, which is set up when it is first shown
SetView == \E i \in DOMAIN buffers :
  /\ i # current
  /\ current' = i
  /\ buffers' = IF buffers[i].setup THEN buffers ELSE BufferSetup(buffers, i, current')
  /\ UNCHANGED <<globals, fileOptions, fileTypes, settings>>

\* open_temporary_buffer: a new buffer (open without a name), with a filetype
\* when it shows commands
OpenTemporary == \E filetype \in {"none", "dte"} :
  LET n == Len(buffers) + 1
      shown == BufferSetup(Append(buffers, BufferNew("", "")), n, n)
  IN  /\ current # 0 /\ Len(buffers) < MaxBuffers
      /\ buffers' = IF filetype = "none" THEN shown
                    ELSE [shown EXCEPT ![n] = Retyped([@ EXCEPT !.local["filetype"] = <<filetype>>])]
      /\ current' = n
      /\ UNCHANGED <<globals, fileOptions, fileTypes, settings>>

\* The end of cmd_save: a buffer without a file, with a text by now, gets a
\* name; its filetype is looked for if it has none.
SaveAs == \E f \in OpenNames :
  /\ current # 0 /\ buffers[current].name = ""
  /\ \A i \in DOMAIN buffers : buffers[i].name # f
  /\ LET named == [buffers[current] EXCEPT !.name = f, !.text = TextOf[f]]
         found == Detected(named, fileTypes)
     IN  buffers' = [buffers EXCEPT ![current] =
           IF named.local["filetype"] # <<"none">> \/ found = named THEN named
           ELSE UpdateSyntax(SetEditorConfigOptions(SetFileOptions(<<found>>, 1, 1, fileOptions)[1]))]
  /\ UNCHANGED <<globals, current, fileOptions, fileTypes, settings>>

OptNext ==
  \/ Ft \/ Option \/ Set \/ ToggleOption \/ ToggleOptionValues
  \/ Open \/ SetView \/ OpenTemporary \/ SaveAs

OptSpec == OptInit /\ [][OptNext]_optVars

-----------------------------------------------------------------------------
\* Whatever changed the filetype or the syntax option of a buffer - the user,
\* an entry of `option`, a detection - and in whatever order, the syntax that
\* highlights a buffer that was shown is the one of its filetype, or none if
\* highlighting is off for it.
SyntaxFollowsFiletype ==
  \A i \in DOMAIN buffers : buffers[i].setup =>
    LET ft == buffers[i].local["filetype"][1]
    IN  buffers[i].syntax = IF buffers[i].local["syntax"] = <<"true">> /\ ft \in Syntaxes THEN ft ELSE NullSyntax

\* The value of the last entry of `option` that applies to b as a buffer of
\* filetype ft, else the one it was opened with
LastSetting(b, ft, name) ==
  LET hits == {<<i, k>> \in (1..Len(fileOptions)) \X (1..2) :
                 /\ Applies(fileOptions[i], ft, b.name) /\ k \in DOMAIN fileOptions[i].strs
                 /\ fileOptions[i].strs[k][1] = name}
      last == CHOOSE h \in hits : \A j \in hits : j[1] < h[1] \/ (j[1] = h[1] /\ j[2] <= h[2])
  IN  IF hits = {} THEN b.local[name]
      ELSE Parse(option_desc[name], fileOptions[last[1]].strs[last[2]][2])

\* When a buffer is first shown, each of its options gets the value of the
\* most specific source that has one: .editorconfig (if the settings so far
\* allow it), else the last entry of `option` that applies, else the global
\* value at the time it was opened ("the global value is just a default local
\* value for opened files").  Only the text can still change the indentation,
\* if no .editorconfig file decides it and detection is on.  The options of
\* other buffers and the global ones stay as they are.
TakesMostSpecific ==
  \A i \in DOMAIN buffers : ~buffers[i].setup /\ buffers'[i].setup =>
     LET b == buffers[i]
         after == buffers'[i].local
         Wish(n) == LastSetting(b, after["filetype"][1], n)
         ec == IF Wish("editorconfig") = <<"true">> THEN EcOf[b.name]
               ELSE [style |-> "", size |-> "", tab |-> ""]
         Or(word, n) == IF word = "" THEN Wish(n) ELSE <<word>>
         fixed == ec.style # "" \/ ec.size # ""
         wanted == [n \in LocalNames |->
           CASE n = "filetype" -> after[n]
             [] n = "detect-indent" -> IF fixed THEN <<>> ELSE Wish(n)
             [] n = "indent-width" -> Or(ec.size, n)
             [] n = "tab-width" -> Or(ec.tab, n)
             [] n = "expand-tab" -> IF ec.style = "" THEN Wish(n)
                                    ELSE <<IF ec.style = "space" THEN "true" ELSE "false">>
             [] OTHER -> Wish(n)]
     IN  /\ \A n \in LocalNames : after[n] = wanted[n]
               \/ (n \in {"indent-width", "expand-tab"} /\ wanted["detect-indent"] # <<>> /\ b.name # "")
         /\ globals' = globals /\ \A j \in DOMAIN buffers \ {i} : buffers'[j] = buffers[j]

\* Both, after every command.
OptionsAreRight == [][SyntaxFollowsFiletype' /\ TakesMostSpecific]_optVars
================================================================================
