------------------------------ MODULE Session -------------------------------
(***************************************************************************)
(* From a key to what it does: input modes (mode.c), bindings with their   *)
(* cached commands (bind.c, command/cache.c), running commands with        *)
(* aliases (command/run.c), config files (config.c) and recorded macros    *)
(* (command/macro.c).  handle_command calls itself through the commands    *)
(* that run others; its calls are the frames of "stack".                   *)
(*                                                                         *)
(* The text of a command is the name of a program: what parse_commands     *)
(* makes of it.  What commands do to the Buffer is told by one kind of     *)
(* command, "insert"; "fail" stands for one that fails.                    *)
(***************************************************************************)
EXTENDS Integers, Sequences, FiniteSets, SequencesExt

CONSTANTS
  Programs,     \* texts of commands, with what they parse to; <<>> is an error
  Keys,         \* keys; "x" is a character
  Modes,        \* names of modes: flags and modes that they fall through to
  FirstBinds,   \* bindings at the start: texts, NoCommand if there is none
  MaxDepth,     \* MAX_RECURSION_DEPTH
  MaxIncludes,  \* limit of include_recursion_count
  MaxMacro,     \* a macro of this length is not recorded further:
  Enders,       \* only these keys, which end or cancel it, are pressed
  Odd,          \* odd uses of macros: "cancel after typing", "play while recording"
  MaxStack      \* bounds the C stack

VARIABLES
  stack,     \* calls of run_commands
  failed,    \* the last call of run_commands that ended had a failure
  includes,  \* EditorState::include_recursion_count
  aliases,   \* EditorState::aliases
  binds,     \* ModeHandler::key_bindings
  mode,      \* EditorState::mode
  macro,     \* MacroRecorder
  input,     \* the key that is being handled: modes that may still get it
  want,      \* history: what the recording did, and the recording before it
  out        \* history: what the replay did

sessionVars == <<stack, failed, includes, aliases, binds, mode, macro, input, want, out>>

NoCommand == "none"
NoInput == [key |-> NoCommand, modes |-> <<>>]
Cmd(op, arg) == [op |-> op, arg |-> arg]
Builtins == {"insert", "fail", "bind", "alias", "include", "macro", "mode", "repeat"}
AllowedInRC == {"bind", "alias", "include", "mode", "fail"}

\* A call: its commands, CommandRunner::recursion_count, whether commands
\* are recorded, and who called
Frame(rest, depth, rec, via) ==
  [rest |-> rest, depth |-> depth, rec |-> rec, via |-> via, failed |-> FALSE]
Top == stack[Len(stack)]
Below == Front(stack)
Advanced == Append(Below, [Top EXCEPT !.rest = Tail(@)])

NoMacro == [recording |-> FALSE, macro |-> <<>>, prev |-> <<>>, buf |-> <<>>]
NoEffects == [done |-> <<>>, before |-> <<>>]

SessionInit ==
  /\ stack = <<>> /\ failed = FALSE /\ includes = 0
  /\ aliases = [n \in {c.op : c \in UNION {Range(Programs[p]) : p \in DOMAIN Programs}} \ Builtins |-> NoCommand]
  /\ binds = FirstBinds /\ mode = "normal" /\ macro = NoMacro /\ input = NoInput
  /\ want = NoEffects /\ out = <<>>

-----------------------------------------------------------------------------
(* command/macro.c *)

\* Variant with a bug: the typed text is not put before the command.
MergedLate(m, c) == [m EXCEPT !.macro = @ \o <<c>>]

\* merge_insert_buffer, and then the command
Merged(m, c) ==
  [m EXCEPT !.macro = (IF m.buf = <<>> THEN @ ELSE Append(@, Cmd("insert", m.buf))) \o <<c>>,
            !.buf = <<>>]

Recorded(c) ==
  IF macro.recording /\ c.op \notin {"macro", "mode"} THEN Merged(macro, c) ELSE macro

MacroRecord ==
  IF macro.recording THEN macro
  ELSE [macro EXCEPT !.recording = TRUE, !.prev = macro.macro, !.macro = <<>>]

MacroStop ==
  IF ~macro.recording THEN macro
  ELSE [macro EXCEPT !.recording = FALSE, !.buf = <<>>,
                     !.macro = IF macro.buf = <<>> THEN @ ELSE Append(@, Cmd("insert", macro.buf))]

\* What was typed since the last command stays in insert_buffer.
MacroCancel ==
  IF ~macro.recording THEN macro
  ELSE [macro EXCEPT !.recording = FALSE, !.macro = macro.prev, !.prev = <<>>]

\* What the recording did, told without the recorder
Wanted(action) ==
  CASE action = "record" /\ ~macro.recording -> [done |-> <<>>, before |-> want.done]
    [] action = "cancel" /\ macro.recording -> [done |-> want.before, before |-> <<>>]
    [] OTHER -> want

-----------------------------------------------------------------------------
(* Input *)

Idle == stack = <<>> /\ input = NoInput

\* cached_command_new: a single command that is no alias is kept parsed.
Cached(text) == Len(Programs[text]) = 1 /\ Head(Programs[text]).op \in Builtins

\* handle_binding: what runs when key is found in mode m; a cached command
\* is called directly, and by its string while a macro is recorded.
Called(text) ==
  IF Cached(text) /\ ~macro.recording
  THEN Frame(Programs[text], 0, FALSE, "cached")
  ELSE Frame(Programs[text], 1, TRUE, "binding")

\* The modes that handle_input_recursive tries, in order, with whether text
\* may be inserted there
Tried(m) ==
  LET T[d \in 0..Cardinality(DOMAIN Modes), n \in DOMAIN Modes, inherited \in BOOLEAN] ==
        IF d = 0 THEN <<>>
        ELSE <<<<n, Modes[n].flags = "" /\ ~inherited>>>>
             \o FlattenSeq([i \in DOMAIN Modes[n].falls |->
                  T[d - 1, Modes[n].falls[i], inherited \/ Modes[n].flags = "U"]])
  IN T[Cardinality(DOMAIN Modes), m, FALSE]

\* handle_input
Press(k) ==
  /\ Idle
  /\ macro.recording /\ Len(macro.macro) + Len(macro.buf) >= MaxMacro => k \in Enders
  /\ input' = [key |-> k, modes |-> Tried(mode)] /\ failed' = FALSE
  /\ UNCHANGED <<stack, includes, aliases, binds, mode, macro, want, out>>

\* handle_input_single: a character is inserted, and recorded.
InsertChar ==
  /\ stack = <<>> /\ input.modes # <<>> /\ input.key = "x" /\ Head(input.modes)[2]
  /\ input' = NoInput
  /\ macro' = IF macro.recording THEN [macro EXCEPT !.buf = Append(@, "x")] ELSE macro
  /\ want' = IF macro.recording THEN [want EXCEPT !.done = Append(@, "x")] ELSE want
  /\ UNCHANGED <<stack, failed, includes, aliases, binds, mode, out>>

\* handle_binding: a command that is not cached handles the key only if it
\* succeeds; see Return.
Handle ==
  LET m == Head(input.modes)[1]
      text == binds[m][input.key]
  IN /\ stack = <<>> /\ input.modes # <<>> /\ ~(input.key = "x" /\ Head(input.modes)[2])
     /\ IF text = NoCommand THEN stack' = stack /\ failed' = failed
        ELSE IF Programs[text] = <<>> THEN stack' = stack /\ failed' = TRUE
        ELSE stack' = <<Called(text)>> /\ failed' = FALSE
     /\ input' = [input EXCEPT !.modes = Tail(@)]
     /\ UNCHANGED <<includes, aliases, binds, mode, macro, want, out>>

Unhandled ==
  /\ stack = <<>> /\ input # NoInput /\ input.modes = <<>> /\ input' = NoInput
  /\ UNCHANGED <<stack, failed, includes, aliases, binds, mode, macro, want, out>>

-----------------------------------------------------------------------------
(* Commands *)

InCommand == stack # <<>> /\ Top.rest # <<>>
Current == Head(Top.rest)

\* The whole text of a macro is run as if by one call; a failure ends it.
Ended(s) ==
  LET t == s[Len(s)]
      rest == IF t.via = "macro" THEN <<>> ELSE t.rest
  IN Append(Front(s), [t EXCEPT !.failed = TRUE, !.rest = rest])

Fails == /\ stack' = Ended(Advanced)
         /\ UNCHANGED <<includes, aliases, binds, mode, want, out>>

\* Calls are not made when they would overflow the stack; this bounds it.
Calls(f) == Len(stack) < MaxStack /\ stack' = Append(Advanced, f)

InConfig == \E i \in DOMAIN stack : stack[i].via = "config"

\* run_command for a name that is no command: aliases are expanded by the
\* same CommandRunner.
ExpandAlias ==
  /\ InCommand /\ Current.op \notin Builtins
  /\ LET text == aliases[Current.op]
     IN IF text = NoCommand \/ Programs[text] = <<>> \/ Top.depth > MaxDepth THEN Fails
        ELSE /\ Calls(Frame(Programs[text], Top.depth + 1, Top.rec, "alias"))
             /\ UNCHANGED <<includes, aliases, binds, mode, want, out>>
  /\ UNCHANGED <<failed, macro, input>>

\* run_command: a command is recorded before it runs.
Starts(op) == InCommand /\ Current.op = op /\ (InConfig => op \in AllowedInRC)
Records == macro' = IF Top.rec THEN Recorded(Current) ELSE macro

NotAllowed ==
  /\ InCommand /\ Current.op \in Builtins \ AllowedInRC /\ InConfig
  /\ Fails /\ UNCHANGED <<failed, macro, input>>

RunInsert ==
  /\ Starts("insert") /\ stack' = Advanced /\ Records
  /\ LET text == Current.arg
     IN /\ want' = IF macro.recording THEN [want EXCEPT !.done = @ \o text] ELSE want
        /\ out' = IF \E i \in DOMAIN stack : stack[i].via = "macro" THEN out \o text ELSE out
  /\ UNCHANGED <<failed, includes, aliases, binds, mode, input>>

RunFail == Starts("fail") /\ Fails /\ Records /\ UNCHANGED <<failed, input>>

\* cmd_bind for the key and mode of the argument, cmd_alias
RunBind ==
  /\ Starts("bind") /\ stack' = Advanced /\ Records
  /\ binds' = [binds EXCEPT ![Current.arg[1]][Current.arg[2]] = Current.arg[3]]
  /\ UNCHANGED <<failed, includes, aliases, mode, input, want, out>>

RunAlias ==
  /\ Starts("alias") /\ stack' = Advanced /\ Records
  /\ aliases' = [aliases EXCEPT ![Current.arg[1]] = Current.arg[2]]
  /\ UNCHANGED <<failed, includes, binds, mode, input, want, out>>

RunMode ==
  /\ Starts("mode") /\ stack' = Advanced /\ Records
  /\ mode' = Current.arg[1]
  /\ UNCHANGED <<failed, includes, aliases, binds, input, want, out>>

\* exec_config: every line has its own call of handle_command; a file is one
\* line here.
RunInclude ==
  /\ Starts("include") /\ Records
  /\ IF includes > MaxIncludes THEN Fails
     ELSE /\ Calls(Frame(Programs[Current.arg[1]], 1, FALSE, "config"))
          /\ includes' = includes + 1
          /\ UNCHANGED <<aliases, binds, mode, want, out>>
  /\ UNCHANGED <<failed, input>>

\* cmd_repeat calls the command directly: it is recorded with the repeat.
RunRepeat ==
  /\ Starts("repeat") /\ Records
  /\ Calls(Frame(Programs[Current.arg[1]] \o Programs[Current.arg[1]], 0, FALSE, "repeat"))
  /\ UNCHANGED <<failed, includes, aliases, binds, mode, input, want, out>>

\* cmd_macro
RunMacro ==
  /\ Starts("macro") /\ Current.arg # <<"play">> /\ stack' = Advanced
  /\ Current.arg = <<"cancel">> => macro.buf = <<>> \/ "cancel after typing" \in Odd
  /\ macro' = CASE Current.arg = <<"record">> -> MacroRecord
                [] Current.arg = <<"stop">> -> MacroStop
                [] Current.arg = <<"cancel">> -> MacroCancel
  /\ want' = Wanted(Current.arg[1])
  /\ UNCHANGED <<failed, includes, aliases, binds, mode, input, out>>

PlayMacro ==
  /\ Starts("macro") /\ Current.arg = <<"play">>
  /\ macro.recording => "play while recording" \in Odd
  /\ Calls(Frame(macro.macro, 1, FALSE, "macro")) /\ out' = <<>>
  /\ UNCHANGED <<failed, includes, aliases, binds, mode, macro, input, want>>

\* A call ends; its failure is one of the command that made it.  handle_input
\* goes on with the modes left if the string of a binding failed.
Return ==
  /\ stack # <<>> /\ Top.rest = <<>>
  /\ failed' = Top.failed
  /\ stack' = IF Top.failed /\ Top.via \in {"alias", "macro"} THEN Ended(Below) ELSE Below
  /\ includes' = IF Top.via = "config" THEN includes - 1 ELSE includes
  /\ input' = IF Len(stack) = 1 /\ (Top.via = "cached" \/ ~Top.failed) THEN NoInput ELSE input
  /\ out' = IF Top.via = "macro" THEN <<>> ELSE out
  /\ UNCHANGED <<aliases, binds, mode, macro, want>>

SessionNext ==
  \/ \E k \in Keys : Press(k)
  \/ InsertChar \/ Handle \/ Unhandled
  \/ ExpandAlias \/ NotAllowed \/ RunInsert \/ RunFail \/ RunBind \/ RunAlias \/ RunMode
  \/ RunInclude \/ RunRepeat \/ RunMacro \/ PlayMacro \/ Return

SessionSpec == SessionInit /\ [][SessionNext]_sessionVars

-----------------------------------------------------------------------------
Playing == Cardinality({i \in DOMAIN stack : stack[i].via = "macro"})

\* A macro that is played to its end does what was done while it was
\* recorded, in the same order, whether by keys, bindings or aliases, and a
\* cancelled recording leaves the one before it (test_macro_record).
MacroReplays ==
  stack # <<>> /\ Top.via = "macro" /\ Top.rest = <<>> /\ ~Top.failed
    /\ Playing = 1 /\ ~macro.recording
  => out = want.done

\* Commands that run commands do not go on for ever: not through aliases of
\* aliases, files that include themselves, nor what plays a macro
\* (MAX_RECURSION_DEPTH, include_recursion_count).
StackIsBounded == Len(stack) < MaxStack

\* Both: macros that are bound to keys, repeated and played from files.
SessionIsSound == MacroReplays /\ StackIsBounded
=============================================================================
