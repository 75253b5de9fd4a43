---------------------------- MODULE TermFeatures ----------------------------
(***************************************************************************)
(* What the editor knows about its terminal and what it has changed in it: *)
(* the queries sent in levels and their late answers (terminal/query.c,    *)
(* output.c), the private modes (terminal.c), the mode of the tty (mode.c),*)
(* and the ways to leave and enter the UI: a child process, a suspension,  *)
(* the end, a fatal signal (editor.c, exec.c, commands.c, main.c, debug.c).*)
(*                                                                         *)
(* A feature is a flag of Terminal::features.  What the editor writes is a *)
(* sequence of pairs <<what, how>> that take effect when it is flushed.    *)
(* The terminal answers the queries in order, at any time or not at all.   *)
(***************************************************************************)
EXTENDS Naturals, Sequences, FiniteSets, SequencesExt

CONSTANTS
  Terms,   \* what the table terms[] says of a terminal
  ColorTypes, \* color suffixes of $TERM, "none" for no known one
  Levels,    \* values of the -Q option
  Asked3,    \* the features that level 3 asks about
  MaxLeaves, \* bound: how often the UI is left and entered again
  KilledAt,  \* where a fatal signal may come
  Late       \* may an answer come during the prompt after a child?

VARIABLES
  level,     \* terminal_query_level
  features,  \* Terminal::features
  obuf,      \* TermOutputBuffer, what is not flushed
  ttyMode,   \* mode of the tty
  reset,     \* need_term_reset_on_fatal_error
  pos,       \* what the editor is about to do
  leaves,    \* how often the UI was left
  screen,    \* the terminal: its modes and stacks
  asked,     \* the queries it has not answered yet
  queried    \* history: how often it was asked each one

termVars == <<level, features, obuf, ttyMode, reset, pos, leaves, screen, asked, queried>>

Level2 == {"xtversion", "da2", "kitty", "1036", "1039", "2026"}
Queries == {"da1"} \cup Level2 \cup Asked3

\* What a reply says, without the features that nothing here depends on;
\* an unknown or malformed one says nothing.
\* parse_csi_query_reply
CsiReplies(q) ==
  CASE q = "da1" -> {{"QUERY2"}, {"QUERY2", "QUERY3"}}
    [] q = "da2" -> {{"QUERY3"}}
    [] q = "kitty" -> {{"KITTYKBD"}}
    [] q = "1036" -> {{"METAESC"}}
    [] q = "1039" -> {{"ALTESC"}}
    [] q = "2026" -> {{"SYNC"}}
    [] OTHER -> {}

\* parse_xtversion_reply: a name that is not known, xterm, tmux, WezTerm
XtversionReplies == {{"QUERY3"}, {"QUERY3", "MOKEYS"}, {"NOQUERY3", "MOKEYS"}, {"TITLE", "SYNC", "TC"}}

\* handle_decrqss_sgr_reply: the answer to the question for "TC"
SgrReplies == {{"C256"}, {"TC"}, {"C256", "TC"}}

\* parse_dcs_query_reply; the other questions of level 3 are capabilities
\* (parse_xtgettcap_reply).
DcsReplies(q) ==
  CASE q = "xtversion" -> XtversionReplies
    [] q = "TC" -> SgrReplies
    [] q \in Asked3 \ {"TC"} -> {{q}}
    [] OTHER -> {}

Answers(q) == {{}} \cup CsiReplies(q) \cup DcsReplies(q)

\* The values of -Q are numbers, and level 3 asks about features of its own.
ASSUME QueryAssumption ==
  /\ Levels \subseteq Nat /\ IsFiniteSet(Asked3)
  /\ Asked3 \cap ({"da1"} \cup Level2) = {}

-----------------------------------------------------------------------------
(* $TERM and $COLORTERM *)

C8 == {"C8"}
C16 == {"C16"} \cup C8
C256 == {"C256"} \cup C16
TC == {"TC"} \cup C256

SuffixColors(x) ==
  CASE x = "direct" -> TC [] x = "256color" -> C256 [] x = "16color" -> C16 [] OTHER -> {}

\* term_get_features, for a name with that entry and suffix
GetFeatures(entry, truecolor, x) ==
  LET f == entry \cup (IF truecolor THEN TC ELSE {})
  IN CASE "TC" \in f \/ x = "none" -> f
       [] "TC" \notin f /\ x = "mono" -> f \ (TC \cup {"NCVUL", "NCVDIM", "NCVREV"})
       [] OTHER -> f \cup SuffixColors(x)

-----------------------------------------------------------------------------
(* The terminal *)

Fresh ==
  [alt |-> FALSE, kbdNormal |-> 0, kbdAlt |-> 0, titles |-> 0,
   mokeys |-> FALSE, meta |-> FALSE, altesc |-> FALSE, paste |-> FALSE]

\* Each screen has a stack of keyboard modes of its own; a pop of an empty
\* stack does nothing.
Stacked(n, how) == IF how = "push" THEN n + 1 ELSE IF n > 0 THEN n - 1 ELSE 0

Apply(s, o) ==
  CASE o[1] = "ask" -> s
    [] o[1] = "titles" -> [s EXCEPT !.titles = Stacked(@, o[2])]
    [] o[1] = "kbd" /\ s.alt -> [s EXCEPT !.kbdAlt = Stacked(@, o[2])]
    [] o[1] = "kbd" /\ ~s.alt -> [s EXCEPT !.kbdNormal = Stacked(@, o[2])]
    [] OTHER -> [s EXCEPT ![o[1]] = (o[2] = "on")]

Asks(out) == {o[2] : o \in {p \in ToSet(out) : p[1] = "ask"}}

\* term_output_flush
Flush(out) ==
  /\ obuf' = <<>>
  /\ screen' = FoldLeft(Apply, screen, out)
  /\ asked' = asked \o SelectSeq(out, LAMBDA o : o[1] = "ask")
  /\ queried' = [q \in Queries |-> queried[q] + (IF q \in Asks(out) THEN 1 ELSE 0)]

Keep(out) == obuf' = out /\ UNCHANGED <<screen, asked, queried>>

-----------------------------------------------------------------------------
(* What is written *)

Only(cond, out) == IF cond THEN out ELSE <<>>
Ask(q) == <<<<"ask", q>>>>

PutLevel2(f) ==
  Ask("xtversion") \o Ask("da2") \o Ask("kitty") \o Ask("1036") \o Ask("1039")
  \o Only("SYNC" \notin f, Ask("2026"))

PutLevel3(f) == [i \in 1..Len(SetToSeq(Asked3 \ f)) |-> <<"ask", SetToSeq(Asked3 \ f)[i]>>]

\* From level 6 on, also what is known is asked.
PutInitialQueries ==
  LET f == IF level >= 6 THEN {} ELSE features
  IN Only(level >= 1 /\ "NOQUERY1" \notin features,
       Ask("da1") \o Only(level >= 2, PutLevel2(f)) \o Only(level >= 3, PutLevel3(f)))

SaveTitle(f) == Only("TITLE" \in f, <<<<"titles", "push">>>>)
RestoreTitle == Only("TITLE" \in features, <<<<"titles", "pop">>>>)

EnablePrivateModes ==
  Only("METAESC" \in features, <<<<"meta", "on">>>>)
  \o Only("ALTESC" \in features, <<<<"altesc", "on">>>>)
  \o (IF "KITTYKBD" \in features THEN <<<<"kbd", "push">>>>
      ELSE Only("MOKEYS" \in features, <<<<"mokeys", "on">>>>))
  \o <<<<"paste", "on">>>>

RestorePrivateModes ==
  Only("METAESC" \in features, <<<<"meta", "off">>>>)
  \o Only("ALTESC" \in features, <<<<"altesc", "off">>>>)
  \o (IF "KITTYKBD" \in features THEN <<<<"kbd", "pop">>>>
      ELSE Only("MOKEYS" \in features, <<<<"mokeys", "off">>>>))
  \o <<<<"paste", "off">>>>

Start == <<<<"alt", "on">>>> \o EnablePrivateModes

-----------------------------------------------------------------------------
(* Answers *)

Waiting == pos \in {"main", "prompt"}

\* Variant with a bug: what is known already is detected again.
DetectedAgain(found) ==
  (found \ (IF "KITTYKBD" \in features THEN {"METAESC", "ALTESC"} ELSE {}))
  \ (IF "NOQUERY3" \in features THEN {"QUERY3"} ELSE {})

\* newly_detected: not known, and not overridden by what is
Detected(found) ==
  ((found \ (IF "KITTYKBD" \in features THEN {"METAESC", "ALTESC"} ELSE {}))
   \ (IF "NOQUERY3" \in features THEN {"QUERY3"} ELSE {})) \ features

\* Variant with a bug: modifyOtherKeys stays on beside the kitty protocol.
ReplyOutputBoth(found) ==
  LET new == Detected(found)
      known == features \cup found
  IN Only("QUERY2" \in new, PutLevel2(known))
     \o Only("QUERY3" \in new, PutLevel3(known))
     \o Only("KITTYKBD" \in new, <<<<"kbd", "push">>>>)
     \o Only("MOKEYS" \in new /\ "KITTYKBD" \notin known, <<<<"mokeys", "on">>>>)
     \o Only("METAESC" \in new, <<<<"meta", "on">>>>)
     \o Only("ALTESC" \in new, <<<<"altesc", "on">>>>)
     \o Only("TITLE" \in new, SaveTitle(known))

\* What term_handle_query_reply writes
ReplyOutput(found) ==
  LET new == Detected(found)
      known == features \cup found
  IN Only("QUERY2" \in new, PutLevel2(known))
     \o Only("QUERY3" \in new, PutLevel3(known))
     \o Only("KITTYKBD" \in new,
          Only("MOKEYS" \in features, <<<<"mokeys", "off">>>>) \o <<<<"kbd", "push">>>>)
     \o Only("MOKEYS" \in new /\ "KITTYKBD" \notin known, <<<<"mokeys", "on">>>>)
     \o Only("METAESC" \in new, <<<<"meta", "on">>>>)
     \o Only("ALTESC" \in new, <<<<"altesc", "on">>>>)
     \o Only("TITLE" \in new, SaveTitle(known))

Producing == {"QUERY2", "QUERY3", "KITTYKBD", "METAESC", "ALTESC", "TITLE"}

\* term_handle_query_reply: an answer is read while the editor waits for
\* input.
HandleQueryReply ==
  /\ Waiting /\ asked # <<>>
  /\ pos = "prompt" => Late
  /\ \E found \in Answers(Head(asked)[2]) :
       LET new == Detected(found)
           out == obuf \o ReplyOutput(found)
       IN /\ features' = features \cup found
          /\ IF new \cap Producing # {} \/ ("MOKEYS" \in new /\ "KITTYKBD" \notin features')
             THEN /\ obuf' = <<>>
                  /\ screen' = FoldLeft(Apply, screen, out)
                  /\ asked' = Tail(asked) \o SelectSeq(out, LAMBDA o : o[1] = "ask")
                  /\ queried' = [q \in Queries |-> queried[q] + (IF q \in Asks(out) THEN 1 ELSE 0)]
             ELSE obuf' = out /\ asked' = Tail(asked) /\ UNCHANGED <<screen, queried>>
  /\ UNCHANGED <<level, ttyMode, reset, pos, leaves>>

-----------------------------------------------------------------------------
(* The UI *)

GoOn(l) == pos' = l

\* xtcsetattr, with TCSAFLUSH: the answers that have come are lost.
SetMode(m) ==
  /\ ttyMode' = m
  /\ \E n \in 0..Len(asked) : asked' = SubSeq(asked, n + 1, Len(asked))

Tty(from, m, to) ==
  /\ pos = from /\ GoOn(to)
  /\ SetMode(m)
  /\ UNCHANGED <<level, features, obuf, reset, leaves, screen, queried>>

SetReset(from, on, to) ==
  /\ pos = from /\ GoOn(to)
  /\ reset' = on
  /\ UNCHANGED <<level, features, obuf, ttyMode, leaves, screen, asked, queried>>

Write(from, out, to) ==
  /\ pos = from /\ GoOn(to)
  /\ Flush(obuf \o out)
  /\ UNCHANGED <<level, features, ttyMode, reset, leaves>>

\* main, main_loop, ui_first_start
MainBegins == Tty("start", "raw", "begun") \/ SetReset("begun", TRUE, "first")

FirstStart ==
  /\ pos = "first" /\ GoOn("main")
  /\ Flush(obuf \o Start \o SaveTitle(features) \o PutInitialQueries)
  /\ features' = features \cup
       (IF level < 2 \/ "NOQUERY1" \in features THEN {}
        ELSE {"QUERY2"} \cup (IF level >= 3 THEN {"QUERY3"} ELSE {}))
  /\ UNCHANGED <<level, ttyMode, reset, leaves>>

\* Variant with a bug: the screen is switched before the modes are restored.
UiEndSwapped(title) == title \o <<<<"alt", "off">>>> \o RestorePrivateModes

UiEnd(title) == title \o RestorePrivateModes \o <<<<"alt", "off">>>>
RestoreAndSaveTitle == RestoreTitle \o SaveTitle(features)

Leave(to) ==
  /\ pos = "main" /\ GoOn(to)
  /\ leaves < MaxLeaves /\ leaves' = leaves + 1
  /\ UNCHANGED <<level, features, obuf, ttyMode, reset, screen, asked, queried>>

\* yield_terminal and resume_terminal around a child that uses the terminal;
\* the prompt is any_key.
YieldTerminal ==
  \/ Leave("yield")
  \/ SetReset("yield", FALSE, "ending")
  \/ Write("ending", UiEnd(RestoreAndSaveTitle), "ended")
  \/ Tty("ended", "cooked", "child")

ResumeTerminal ==
  \/ \E to \in {"prompt", "resumed"} : Tty("child", "raw", to)
  \/ SetReset("prompt", reset, "resumed")
  \/ Write("resumed", Start \o RestoreAndSaveTitle, "started")
  \/ SetReset("started", TRUE, "main")

\* The same, quiet
QuietChild ==
  \/ Leave("quiet")
  \/ Tty("quiet", "isig", "quietchild")
  \/ Tty("quietchild", "raw", "main")

\* cmd_suspend
Suspend ==
  \/ Leave("suspend")
  \/ Write("suspend", UiEnd(RestoreAndSaveTitle), "suspending")
  \/ Tty("suspending", "cooked", "cooked")
  \/ SetReset("cooked", FALSE, "stopped")
  \/ SetReset("stopped", TRUE, "continued")
  \/ Tty("continued", "raw", "entering")
  \/ Write("entering", Start \o RestoreAndSaveTitle, "main")

\* The end of main
Quit ==
  \/ Write("main", UiEnd(RestoreTitle), "quitting")
  \/ Tty("quitting", "cooked", "quit")
  \/ SetReset("quit", FALSE, "gone")

\* handle_fatal_signal, cleanup: RIS resets the terminal as a whole.
FatalSignal ==
  /\ pos \in KilledAt
  /\ IF reset
     THEN screen' = Fresh /\ ttyMode' = "cooked" /\ reset' = FALSE
     ELSE UNCHANGED <<screen, ttyMode, reset>>
  /\ GoOn("killed") /\ asked' = <<>> /\ obuf' = <<>>
  /\ UNCHANGED <<level, features, leaves, queried>>

-----------------------------------------------------------------------------
TermInit ==
  /\ level \in Levels
  /\ features \in {GetFeatures(e, t, x) : e \in Terms, t \in BOOLEAN, x \in ColorTypes}
  /\ obuf = <<>> /\ ttyMode = "cooked" /\ reset = FALSE /\ pos = "start" /\ leaves = 0
  /\ screen = Fresh /\ asked = <<>>
  /\ queried = [q \in Queries |-> 0]

TermNext ==
  \/ MainBegins \/ FirstStart \/ HandleQueryReply
  \/ YieldTerminal \/ ResumeTerminal \/ QuietChild \/ Suspend \/ Quit
  \/ FatalSignal

TermSpec == TermInit /\ [][TermNext]_termVars

-----------------------------------------------------------------------------
\* However the program ends, by a command or by a signal, the terminal and
\* the tty are left as they were found: each mode that was set, each stack
\* that was pushed, on either screen.  (The title is still saved when a
\* signal comes while the UI is away.)
TerminalIsRestored ==
  /\ pos = "gone" => screen = Fresh /\ ttyMode = "cooked"
  /\ pos = "killed" => [screen EXCEPT !.titles = 0] = Fresh /\ ttyMode = "cooked"

\* While the UI waits for input, what the terminal does is what the editor
\* takes it to do, whatever came first of the answers, the table and the
\* returns to the UI: exactly one keyboard protocol is on, pushed once, on
\* the screen in use, and nothing is left unflushed.
ModesMatchFeatures ==
  pos = "main" =>
    /\ obuf = <<>> /\ ttyMode = "raw" /\ reset
    /\ screen.alt /\ screen.paste /\ screen.kbdNormal = 0
    /\ screen.kbdAlt = (IF "KITTYKBD" \in features THEN 1 ELSE 0)
    /\ screen.mokeys = ("MOKEYS" \in features /\ "KITTYKBD" \notin features)
    /\ screen.titles = (IF "TITLE" \in features THEN 1 ELSE 0)

\* No query is sent twice, whichever answers and options ask for its level.
QueriesAreSentOnce == \A q \in Queries : queried[q] <= 1

\* The terminal is in step with the editor: while the UI runs, when the editor
\* has gone, and in what it is asked.
TerminalIsInStep == ModesMatchFeatures /\ TerminalIsRestored /\ QueriesAreSentOnce
=============================================================================
