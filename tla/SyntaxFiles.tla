----------------------------- MODULE SyntaxFiles -----------------------------
(***************************************************************************)
(* Loading of syntax files: src/syntax/state.c, syntax.c and merge.c, with *)
(* the part of config.c that reads files and the merging of heredocs in    *)
(* highlight.c.                                                            *)
(*                                                                         *)
(* A syntax is a graph of states.  A syntax whose name starts with a dot   *)
(* is a sub-syntax: it is copied into every syntax that calls it, and its  *)
(* END destinations become the return state of the call.  A syntax is      *)
(* registered when the next one begins or the file ends, which may happen  *)
(* in another file than the one it began in.  The first error of a file    *)
(* ends the load.                                                          *)
(*                                                                         *)
(* The name of a state is a sequence: <<"a">> for one that was written,    *)
(* <<"m0", "a">> for its copy by the first call in a syntax.  Conditions   *)
(* keep their kind and their destination only.                             *)
(***************************************************************************)
EXTENDS Integers, Sequences, FiniteSets, TLC

CONSTANTS
  SyntaxNames, SubSyntaxNames,  \* names without and with a dot
  Included,    \* files for include and require: sequences of commands
  Chunks,      \* what a syntax file is put together from: sequences of commands
  Delims,      \* delimiters of heredocs
  MaxChunks,   \* bound: chunks of all the files loaded
  MaxLoads     \* bound: files loaded

VARIABLES
  syntaxes,  \* e->syntaxes
  required,  \* e->required_syntax_files and e->required_syntax_builtins
  syn,       \* e->syn: current_syntax and the name of current_state
  stack,     \* the files that are being read
  loads,     \* [n, failed]: files loaded so far, was there an error?
  chunks     \* chunks so far

synVars == <<syntaxes, required, syn, stack, loads, chunks>>

\* "" is the name of no syntax; see NoSyntax.
ASSUME SyntaxAssumption ==
  /\ "" \notin SyntaxNames \cup SubSyntaxNames
  /\ \A commands \in {Included[f] : f \in DOMAIN Included} \cup Chunks :
       /\ commands \in Seq({commands[i] : i \in DOMAIN commands})
       /\ \A i \in DOMAIN commands :
            commands[i].cmd = "syntax" => commands[i].name \in SyntaxNames \cup SubSyntaxNames

None == <<>>        \* no state: NULL
IsSub(name) == name \in SubSyntaxNames
NoSyntax == [name |-> "", states |-> <<>>, start |-> None, lists |-> {}, defined |-> {},
             heredoc |-> FALSE, merges |-> 0]

\* A state that was referenced but not defined yet
NewState == [defined |-> FALSE, type |-> "invalid", conds |-> <<>>, dest |-> None,
             sub |-> "", heredocs |-> {}]

Has(s, name) == name \in DOMAIN s.states

\* All entries of f, and those of g for other keys
Over(f, g) == [x \in DOMAIN f \cup DOMAIN g |-> IF x \in DOMAIN f THEN f[x] ELSE g[x]]

\* find_or_add_state
FindOrAdd(s, name) ==
  IF Has(s, name) THEN s
  ELSE [s EXCEPT !.states = Over([n \in {name} |-> NewState], @),
                 !.start = IF s.states = <<>> THEN name ELSE @]

-----------------------------------------------------------------------------
(* merge.c *)

Prefix(s) == "m" \o ToString(s.merges)

\* fix_action, and what fix_conditions does to actions without a destination
Fixed(sub, p, dest, return) == IF Has(sub, dest) THEN <<p>> \o dest ELSE return

\* fix_conditions: a condition of the copied state; a recolor has no destination.
FixedCondition(sub, p, c, return) ==
  [c EXCEPT !.dest = IF c.kind = "recolor" THEN None ELSE Fixed(sub, p, @, return)]

\* Variant with a bug: only conditions get the return state, default actions
\* do not.
CopiedHalf(sub, p, st, return) ==
  [st EXCEPT !.dest = Fixed(sub, p, @, None),
             !.conds = [i \in DOMAIN @ |-> FixedCondition(sub, p, @[i], return)]]

\* The copy of a state
Copied(sub, p, st, return) ==
  [st EXCEPT !.dest = Fixed(sub, p, @, return),
             !.conds = [i \in DOMAIN @ |-> FixedCondition(sub, p, @[i], return)]]

\* merge_syntax: the states of sub are copied to s
CopiedNames(s, sub) == {<<Prefix(s)>> \o x : x \in DOMAIN sub.states}
MergeSyntax(s, sub, return) ==
  LET copies == [n \in CopiedNames(s, sub) |-> Copied(sub, Prefix(s), sub.states[Tail(n)], return)]
  IN  [s EXCEPT !.merges = @ + 1, !.states = Over(copies, @)]

\* The start state of that copy
MergedStart(s, sub) == <<Prefix(s)>> \o sub.start

-----------------------------------------------------------------------------
(* Destinations: [sub, ret], sub is "" unless a sub-syntax is called *)

\* reference_state
Referenced(s, ret) == IF ret = "this" THEN s ELSE FindOrAdd(s, <<ret>>)
NameOf(ret) == IF ret = "this" THEN syn.state ELSE <<ret>>

Subsyntax(name) == name \in DOMAIN syntaxes /\ IsSub(name)

\* Does destination_state find it?
HasDestination(d) ==
  /\ d.ret = "END" => IsSub(syn.syntax.name)
  /\ d.sub # "" => Subsyntax(d.sub)

\* destination_state: [syntax, dest], the current syntax with the states it
\* adds and the state it returns
Destination(d) ==
  LET s == IF d.ret = "END" THEN syn.syntax ELSE Referenced(syn.syntax, d.ret)
      return == IF d.ret = "END" THEN None ELSE NameOf(d.ret)
  IN  IF d.sub = "" THEN [syntax |-> s, dest |-> return]
      ELSE [syntax |-> MergeSyntax(s, syntaxes[d.sub], return),
            dest |-> MergedStart(s, syntaxes[d.sub])]

-----------------------------------------------------------------------------
(* Finishing a syntax *)

\* close_state
Closes(s) == s.state # None => s.syntax.states[s.state].type # "invalid"

\* Variant with a bug: states that are only referenced are not looked for.
FinishesLoosely(s) ==
  /\ Closes(s) /\ s.syntax.states # <<>>
  /\ s.syntax.lists \subseteq s.syntax.defined
  /\ s.syntax.heredoc => IsSub(s.syntax.name)
  /\ s.syntax.name \notin DOMAIN syntaxes

\* finish_syntax and finalize_syntax; unreachable states get a warning only
Finishes(s) ==
  /\ Closes(s)
  /\ s.syntax.states # <<>>
  /\ \A n \in DOMAIN s.syntax.states : s.syntax.states[n].defined
  /\ s.syntax.lists \subseteq s.syntax.defined
  /\ s.syntax.heredoc => IsSub(s.syntax.name)
  /\ s.syntax.name \notin DOMAIN syntaxes

Begun == syn.syntax # NoSyntax
Registered == IF Begun THEN Over([n \in {syn.syntax.name} |-> syn.syntax], syntaxes) ELSE syntaxes

-----------------------------------------------------------------------------
(* Commands *)

Top == stack[Len(stack)]
Reading == stack # <<>> /\ Top.rest # <<>>
Cmd == Top.rest[1]
Is(name) == Reading /\ Cmd.cmd = name
Popped == SubSeq(stack, 1, Len(stack) - 1)
Advanced == Append(Popped, [Top EXCEPT !.rest = Tail(@)])

InSyntax == Begun
InState == Begun /\ syn.state # None

\* Does the next command succeed?
Accepted ==
  LET c == Cmd
  IN  CASE c.cmd = "syntax" -> Begun => Finishes(syn)
        [] c.cmd = "state" -> /\ Closes(syn) /\ InSyntax /\ c.name \notin {"END", "this"}
                              /\ Has(syn.syntax, <<c.name>>) => ~syn.syntax.states[<<c.name>>].defined
        [] c.cmd = "list" -> Closes(syn) /\ InSyntax /\ c.name \notin syn.syntax.defined
        [] c.cmd \in {"char", "inlist", "heredocend", "eat"} -> InState /\ HasDestination(c.dest)
        [] c.cmd = "recolor" -> InState
        [] c.cmd = "noeat" -> /\ InState /\ HasDestination(c.dest)
                              /\ Destination(c.dest).dest # syn.state
        [] c.cmd = "heredocbegin" -> /\ InState /\ Subsyntax(c.name) /\ HasDestination(c.dest)
        [] c.cmd \in {"include", "require"} -> c.name \in DOMAIN Included
        [] OTHER -> FALSE

Continue == Accepted /\ stack' = Advanced /\ UNCHANGED <<required, loads, chunks>>

\* Variant with a bug: the syntax before is dropped instead of registered.
SyntaxForgets ==
  /\ Is("syntax") /\ Continue
  /\ syn' = [syntax |-> [NoSyntax EXCEPT !.name = Cmd.name], state |-> None]
  /\ UNCHANGED syntaxes

\* cmd_syntax
Syntax ==
  /\ Is("syntax") /\ Continue
  /\ syntaxes' = Registered
  /\ syn' = [syntax |-> [NoSyntax EXCEPT !.name = Cmd.name], state |-> None]

\* cmd_state
State ==
  LET name == <<Cmd.name>>
  IN  /\ Is("state") /\ Continue
      /\ syn' = [syntax |-> [FindOrAdd(syn.syntax, name) EXCEPT !.states[name].defined = TRUE], state |-> name]
      /\ UNCHANGED syntaxes

\* add_condition, for every kind of condition
Condition ==
  LET c == Cmd
      d == IF c.cmd = "recolor" THEN [syntax |-> syn.syntax, dest |-> None] ELSE Destination(c.dest)
  IN  /\ Reading /\ c.cmd \in {"char", "inlist", "heredocend", "recolor"} /\ Continue
      /\ syn' = [syn EXCEPT !.syntax =
           [d.syntax EXCEPT !.states[syn.state].conds = Append(@, [kind |-> c.cmd, dest |-> d.dest]),
                            !.lists = IF c.cmd = "inlist" THEN @ \union {c.name} ELSE @,
                            !.heredoc = @ \/ c.cmd = "heredocend"]]
      /\ UNCHANGED syntaxes

\* cmd_eat, cmd_noeat and cmd_heredocbegin: the state is complete
DefaultAction ==
  LET c == Cmd
      d == Destination(c.dest)
  IN  /\ Reading /\ c.cmd \in {"eat", "noeat", "heredocbegin"} /\ Continue
      /\ syn' = [syntax |-> [d.syntax EXCEPT
                   !.states[syn.state] = [@ EXCEPT !.type = c.cmd, !.dest = d.dest,
                                                   !.sub = IF c.cmd = "heredocbegin" THEN c.name ELSE ""]],
                 state |-> None]
      /\ UNCHANGED syntaxes

\* cmd_list
List ==
  /\ Is("list") /\ Continue
  /\ syn' = [syn EXCEPT !.syntax.defined = @ \union {Cmd.name}, !.state = None]
  /\ UNCHANGED syntaxes

\* cmd_include, and cmd_require of a file that was not read yet
Include ==
  /\ Is("include") \/ (Is("require") /\ Cmd.name \notin required)
  /\ Accepted
  /\ stack' = Append(Advanced, [file |-> Cmd.name, rest |-> Included[Cmd.name],
                                require |-> Cmd.cmd = "require"])
  /\ UNCHANGED <<syntaxes, required, syn, loads, chunks>>

RequiredBefore ==
  /\ Is("require") /\ Cmd.name \in required /\ Continue
  /\ UNCHANGED <<syntaxes, syn>>

\* The end of an included or required file.  The last syntax in it goes on.
EndOfFile ==
  /\ Len(stack) > 1 /\ Top.rest = <<>>
  /\ stack' = Popped
  /\ required' = IF Top.require THEN required \union {Top.file} ELSE required
  /\ UNCHANGED <<syntaxes, syn, loads, chunks>>

-----------------------------------------------------------------------------
(* load_syntax *)

Nothing == [syntax |-> NoSyntax, state |-> None]

SynInit ==
  /\ syntaxes = <<>>
  /\ required = {}
  /\ syn = Nothing
  /\ stack = <<>>
  /\ loads = [n |-> 0, failed |-> FALSE]
  /\ chunks = 0

Load == \E file \in SyntaxNames :
  /\ stack = <<>> /\ loads.n < MaxLoads
  /\ stack' = <<[file |-> file, rest |-> <<>>, require |-> FALSE]>>
  /\ syn' = Nothing
  /\ loads' = [loads EXCEPT !.n = @ + 1]
  /\ UNCHANGED <<syntaxes, required, chunks>>

\* The file goes on
Read == \E chunk \in Chunks :
  /\ Len(stack) = 1 /\ Top.rest = <<>> /\ chunks < MaxChunks
  /\ stack' = <<[Top EXCEPT !.rest = chunk]>>
  /\ chunks' = chunks + 1
  /\ UNCHANGED <<syntaxes, required, syn, loads>>

Stopped == stack' = <<>> /\ syn' = Nothing /\ UNCHANGED <<required, chunks>>

\* The file ends; it has to have defined the syntax it is named after.
Finish ==
  /\ Len(stack) = 1 /\ Top.rest = <<>> /\ (Begun => Finishes(syn))
  /\ syntaxes' = Registered
  /\ loads' = [loads EXCEPT !.failed = @ \/ Top.file \notin DOMAIN syntaxes']
  /\ Stopped

\* A command fails, or the last syntax does: it is freed, and no file is read
\* any further.
Fail ==
  /\ stack # <<>>
  /\ (Reading /\ ~Accepted) \/ (Len(stack) = 1 /\ Top.rest = <<>> /\ Begun /\ ~Finishes(syn))
  /\ loads' = [loads EXCEPT !.failed = TRUE]
  /\ Stopped /\ UNCHANGED syntaxes

\* handle_heredoc: the highlighter is at a heredoc with a delimiter that it
\* did not see before in this state.
Heredoc == \E name \in DOMAIN syntaxes \ SubSyntaxNames : \E n \in DOMAIN syntaxes[name].states, d \in Delims :
  LET s == syntaxes[name]
      st == s.states[n]
  IN  /\ stack = <<>>
      /\ st.type = "heredocbegin" /\ \A h \in st.heredocs : h[1] # d
      /\ syntaxes' = [syntaxes EXCEPT ![name] =
           [MergeSyntax(s, syntaxes[st.sub], st.dest) EXCEPT
              !.states[n].heredocs = @ \union {<<d, MergedStart(s, syntaxes[st.sub])>>}]]
      /\ UNCHANGED <<required, syn, stack, loads, chunks>>

SynNext ==
  \/ Load \/ Read \/ Finish \/ Fail \/ Heredoc
  \/ Syntax \/ State \/ Condition \/ DefaultAction \/ List
  \/ Include \/ RequiredBefore \/ EndOfFile

SynSpec == SynInit /\ [][SynNext]_synVars

-----------------------------------------------------------------------------
Complete(s) == \A n \in DOMAIN s.states :
  LET st == s.states[n]
  IN  /\ st.type # "invalid" /\ Has(s, st.dest)
      /\ \A i \in DOMAIN st.conds : st.conds[i].kind = "recolor" \/ Has(s, st.conds[i].dest)
      /\ st.type = "heredocbegin" => Subsyntax(st.sub)
      /\ \A h \in st.heredocs : Has(s, h[2])

\* highlight_line follows destinations without a check and treats a state
\* without a default action as a bug.  Whatever was loaded before, in however
\* many files, with calls inside of calls, END at any of them, heredocs merged
\* while text is highlighted and loads that failed half way: in every syntax
\* that can be used for a buffer each state has a default action, and all that
\* is reached from it is a state of the same syntax.
SyntaxesAreComplete ==
  \A name \in DOMAIN syntaxes \ SubSyntaxNames : Complete(syntaxes[name]) /\ Has(syntaxes[name], syntaxes[name].start)

DefinedIn(file) == {c.name : c \in {Included[file][i] : i \in {i \in DOMAIN Included[file] : Included[file][i].cmd = "syntax"}}}

\* A file that was required is not read again.  So what it defines has to be
\* there for everybody who requires it later - which holds as long as no load
\* failed: the last syntax of a required file is registered by what follows
\* the `require`.
RequiredIsRegistered ==
  ~loads.failed => \A file \in required : DefinedIn(file) \subseteq DOMAIN syntaxes \union {syn.syntax.name}

\* Both: what is registered can be used, and what is required is registered.
SyntaxesAreUsable == SyntaxesAreComplete /\ RequiredIsRegistered
================================================================================
