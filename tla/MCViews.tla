------------------------------- MODULE MCViews -------------------------------
(***************************************************************************)
(* Small instances of Views and of TextBlocks in one run: windows, tabs    *)
(* and files that are opened, closed and switched; three windows on one    *)
(* file that is edited; and the Blocks of a text.  A behaviour is one of   *)
(* these three parts, and leaves the variables of the others alone.        *)
(***************************************************************************)
EXTENDS Views, TextBlocks, TLC

CONSTANTS w1, w2, w3, v1, v2, v3, v4, f, g, e1, e2, a

TwoWindows == {w1, w2}
ThreeWindows == {w1, w2, w3}
ThreeViews == {v1, v2, v3}
FourViews == {v1, v2, v3, v4}

AllCommands == {"open", "jump", "tab", "close", "window", "wclose", "quit", "save",
                "insert", "delete", "replace", "undo", "move"}
Editing == {"open", "jump", "window", "wclose", "insert", "delete", "replace", "undo", "move"}
\* Without anything that closes a tab or opens a file again.
Shifting == {"open", "tab", "window", "delete", "move"}

Symmetry3 == Permutations(TwoWindows) \cup Permutations(ThreeViews)

\* Texts in Blocks of very few bytes
MCBytes == {a, NL}
MCPayloads == {<<a>>, <<NL>>, <<a, NL>>, <<a, a, NL, NL>>}
MCInitTexts == {<<>>, <<a, NL, NL, a>>, <<a, a, a, a, NL>>}

-----------------------------------------------------------------------------
VARIABLE part

\* Bound: a text of the full length comes of an edit that adds two bytes or more.
GrowsAtOnce == Total' = MaxText /\ blocks' # blocks => Total <= MaxText - 2

NoBlocks ==
  /\ blocks = <<>> /\ cursor = At(1, 0) /\ nl = 0 /\ pending = <<>>
  /\ call = Called("load", 0, <<>>) /\ answer = Moved(0)

SwitchingInit == part = "switching" /\ Init /\ NoBlocks
SwitchingNext == part = "switching" /\ Next /\ UNCHANGED <<part, blockVars>>

\* Bound: two windows with three Views, and texts of one byte.
IsSmall(s) ==
  /\ s.wins \subseteq TwoWindows /\ s.views[v4].buf = Nothing
  /\ \A b \in Buffers : s.len[b] <= 1

\* Bound: the Buffers change by insertions only.
SmallNext ==
  /\ part = "switching" /\ UNCHANGED <<part, blockVars>>
  /\ OpenCommand \/ ViewCommand \/ InsertCommand \/ Save \/ Resize \/ UpdateScreen
  /\ IsSmall(ed')

\* Every View is on the screen.
AllShown(s) == \A v \in Views : s.views[v].buf # Nothing => s.on[s.views[v].win] = v

\* Bound: only one file is open.
OnlyOneFile(s) == \A b \in Buffers \ {f} : ~Exists(s, b)

\* The drift of cursors under insertions has a run of its own.
CursorsInit == part = "cursors" /\ Init /\ NoBlocks
CursorsNext ==
  /\ part = "cursors" /\ UNCHANGED <<part, blockVars>>
  /\ OpenCommand \/ ViewCommand \/ EditCommand \/ Resize \/ UpdateScreen
  /\ AllShown(ed')

MCInit ==
  \/ SwitchingInit /\ IsSmall(ed)
  \/ CursorsInit /\ OnlyOneFile(ed)
  \/ part = "blocks" /\ BlocksInit /\ ed = NoView /\ pc = "exit" /\ all = FALSE /\ forced = FALSE

MCNext ==
  \/ SmallNext
  \/ CursorsNext /\ OnlyOneFile(ed')
  \/ part = "blocks" /\ BlocksNext /\ GrowsAtOnce /\ UNCHANGED <<part, vars>>

MCSpec == MCInit /\ [][MCNext]_<<part, vars, blockVars>>
SwitchingSpec == SwitchingInit /\ [][SwitchingNext]_<<part, vars, blockVars>>
CursorsSpec == CursorsInit /\ [][CursorsNext]_<<part, vars, blockVars>>

-----------------------------------------------------------------------------
(* Properties of the parts *)

\* Whatever is opened, closed and switched, no pointer to a View dangles and
\* a window has at most one View of a Buffer (src/window.c).
SwitchingIsSound ==
  part = "switching" => TypeOK /\ PointersAreLive /\ OneViewPerWindow

\* No command discards a Buffer with unsaved changes unless it is told to
\* (cmd_close, cmd_wclose and cmd_quit in src/commands.c).
SwitchingLosesNothing ==
  [][part = "switching" =>
       \A b \in ed.modified : (~Exists(ed', b) \/ pc' = "exit") => forced']_<<part, vars>>

\* As long as every View is on the screen, and nothing is inserted, the cursor
\* in use and those that are drawn are in their texts, and a View that becomes
\* current gets its cursor back at the byte it was at (fix_cursors of
\* src/change.c, update_buffer_windows of src/ui-window.c).
CursorsAreRight ==
  part = "cursors" => TypeOK /\ CurrentInText /\ DrawnInText /\ CursorsFollow
=============================================================================
