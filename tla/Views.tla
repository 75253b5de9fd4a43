-------------------------------- MODULE Views --------------------------------
(***************************************************************************)
(* Windows, their tabs and the cursors in them: src/window.c, the part of  *)
(* src/change.c that moves the cursors of other views (fix_cursors), the   *)
(* commands that switch, open and close (src/commands.c) and the restoring *)
(* of cursors by a screen update (src/ui-window.c).                        *)
(*                                                                         *)
(* Every tab is a View: a cursor in a Buffer.  One Buffer may have a View  *)
(* in each window, and only the current View follows an edit by itself.    *)
(* The cursor of every other one is stale from then on; its position is    *)
(* kept in saved_cursor_offset, which fix_cursors moves along, and put     *)
(* back into the cursor when the View becomes current, or when the screen  *)
(* is updated and the View is visible.                                     *)
(*                                                                         *)
(* The functions of window.c call each other and change the same few       *)
(* structures, so they are operators from an EditorState to the next one,  *)
(* and a command composes them.  An unused View is like any other one, so  *)
(* that Views stay interchangeable although AddView chooses one.  A Buffer *)
(* is a number of bytes in one Block; what the bytes are is left to module *)
(* Change.  The order of tabs and windows is left out: the next one is any *)
(* other one.                                                              *)
(***************************************************************************)
EXTENDS Integers, FiniteSets

CONSTANTS
  Windows,   \* windows the screen can be split into
  Views,     \* bound: Views that exist at a time
  Files,     \* Buffers that hold a file
  Empties,   \* bound: Buffers that were opened without a file
  Sizes,     \* bytes a file may have when it is opened
  MaxLen,    \* bound: length of a Buffer
  MaxTabs,   \* bound: tabs in a window, between commands
  Nothing,   \* a null pointer
  Commands,  \* the groups of commands in use
  Compound   \* several commands may run before the screen is updated

Buffers == Files \cup Empties

ASSUME NamesAssumption ==
  /\ Nothing \notin Windows \cup Views \cup Buffers
  /\ Files \cap Empties = {}
ASSUME BoundsAssumption ==
  /\ MaxLen \in Nat /\ Sizes \subseteq 0..MaxLen /\ MaxTabs \in Nat
  /\ Compound \in BOOLEAN

VARIABLES
  ed,      \* the EditorState: its windows, views and buffers
  pc,      \* "idle"; "update", with the screen update to come; "exit"
  all,     \* the screen update is due for all windows
  forced   \* history: the last command was told to discard changes

vars == <<ed, pc, all, forced>>

NoView == [buf |-> Nothing, win |-> Nothing, cur |-> 0, restore |-> FALSE,
           saved |-> 0, mark |-> 0]

Tabs(s, w) == {v \in Views : s.views[v].win = w}
ViewsOf(s, b) == {v \in Views : s.views[v].buf = b}
Exists(s, b) == ViewsOf(s, b) # {}
Unused(s) == {v \in Views : s.views[v] = NoView}
Modified(s, b) == b \in s.modified
CanClose(s, v) ==
  LET b == s.views[v].buf IN ~Modified(s, b) \/ ViewsOf(s, b) # {v}

-----------------------------------------------------------------------------
(* The functions of window.c *)

\* window_add_buffer; at is the View whose cursor the new one gets, if any
AddView(s, w, b, at) ==
  LET v == CHOOSE v \in Unused(s) : TRUE
      from == IF at = Nothing THEN NoView ELSE s.views[at]
  IN  [s EXCEPT !.views[v] =
        [NoView EXCEPT !.buf = b, !.win = w, !.cur = from.cur, !.mark = from.mark]]

\* window_open_empty_buffer, with a Buffer that does not exist yet
OpenEmpty(s, w, b) ==
  AddView([s EXCEPT !.len[b] = 0, !.fresh = @ \cup {b}], w, b, Nothing)

\* Variant with a bug: a second View of the Buffer in the same window.
OpenBufferAgain(s, w, b, n, at) ==
  IF Exists(s, b) THEN AddView(s, w, b, at)
  ELSE AddView([s EXCEPT !.len[b] = n], w, b, Nothing)

\* window_open_buffer of a file with n bytes; at is the first View of it
OpenBuffer(s, w, b, n, at) ==
  CASE Tabs(s, w) \cap ViewsOf(s, b) # {} -> s
    [] ~Exists(s, b) -> AddView([s EXCEPT !.len[b] = n], w, b, Nothing)
    [] OTHER -> AddView(s, w, b, at)

ViewIn(s, w, b) == CHOOSE v \in Tabs(s, w) \cap ViewsOf(s, b) : TRUE

\* Variant with a bug: prev_view is left as it is.
RemoveViewKeepsPrev(s, v) ==
  LET b == s.views[v].buf
      last == ViewsOf(s, b) = {v}
  IN  [s EXCEPT !.views[v] = NoView,
                !.view = IF @ = v THEN Nothing ELSE @,
                !.modified = IF last THEN @ \ {b} ELSE @,
                !.fresh = IF last THEN @ \ {b} ELSE @]

\* window_remove_view_at_index, and the Buffer goes with its last View
RemoveView(s, v) ==
  LET w == s.views[v].win
      b == s.views[v].buf
      last == ViewsOf(s, b) = {v}
  IN  [s EXCEPT !.prev[w] = IF @ = v THEN Nothing ELSE @,
                !.view = IF @ = v THEN Nothing ELSE @,
                !.views[v] = NoView,
                !.modified = IF last THEN @ \ {b} ELSE @,
                !.fresh = IF last THEN @ \ {b} ELSE @]

\* Variant with a bug: Buffers stay when their last View is gone.
RemoveViewsKeepsBuffers(s, w) ==
  [s EXCEPT !.prev[w] = Nothing,
            !.view = IF @ \in Tabs(s, w) THEN Nothing ELSE @,
            !.views = [v \in Views |-> IF v \in Tabs(s, w) THEN NoView ELSE @[v]]]

\* window_remove_views, all at once
RemoveViews(s, w) ==
  LET gone == {b \in Buffers : Exists(s, b) /\ ViewsOf(s, b) \subseteq Tabs(s, w)}
  IN  [s EXCEPT !.prev[w] = Nothing,
                !.view = IF @ \in Tabs(s, w) THEN Nothing ELSE @,
                !.views = [v \in Views |-> IF v \in Tabs(s, w) THEN NoView ELSE @[v]],
                !.modified = @ \ gone,
                !.fresh = @ \ gone]

\* block_iter_goto_offset: beyond the end the offset stays as it was
GotoOffset(s, v, offset) ==
  IF offset <= s.len[s.views[v].buf] THEN offset ELSE s.views[v].cur

\* A View with its cursor restored, as set_view does.
Restored(s, v) ==
  LET cur == IF s.views[v].restore THEN GotoOffset(s, v, s.views[v].saved) ELSE s.views[v].cur
      saved == IF s.views[v].restore THEN 0 ELSE s.views[v].saved
  IN  [s.views[v] EXCEPT !.cur = cur, !.restore = FALSE, !.saved = saved, !.mark = cur]

\* set_view
SetView(s, v) ==
  IF s.view = v THEN s
  ELSE LET b == s.views[v].buf
           w == s.views[v].win
       IN  [s EXCEPT
             !.prev = IF s.window = Nothing THEN @ ELSE [@ EXCEPT ![s.window] = Nothing],
             !.view = v,
             !.window = w,
             !.on[w] = v,
             !.views = [u \in Views |->
               CASE u = v -> Restored(s, v)
                 [] u # v /\ s.views[u].buf = b ->
                      [s.views[u] EXCEPT !.saved = s.views[u].cur, !.restore = TRUE]
                 [] OTHER -> s.views[u]]]

\* Variant with a bug: what was typed into the empty Buffer is not looked at.
IsUselessTouched(s, w, v) == s.views[v].buf \in Empties /\ Cardinality(Tabs(s, w)) = 2

\* buffer_is_untouched, in a window that has only one other View
IsUseless(s, w, v) == s.views[v].buf \in s.fresh /\ Cardinality(Tabs(s, w)) = 2

\* maybe_set_view, for a prev that is the View on screen before
MaybeSetView(s, w, v, prev, setPrev) ==
  LET t == SetView(s, v)
  IN  CASE v = prev -> s
        [] v # prev /\ prev # Nothing /\ IsUseless(s, w, prev) -> RemoveView(t, prev)
        [] OTHER -> IF setPrev THEN [t EXCEPT !.prev[w] = prev] ELSE t

\* window_open_new_file
OpenNewFile(s, w, b) ==
  LET prev == s.on[w]
      t == OpenEmpty(s, w, b)
  IN  [SetView(t, ViewIn(t, w, b)) EXCEPT !.prev[w] = prev]

\* window_close of the only window
CloseOnly(s, w, b) ==
  LET t == OpenEmpty(RemoveViews(s, w), w, b) IN SetView(t, ViewIn(t, w, b))

\* window_close of one of several windows; next is the one that gets the focus
CloseWindow(s, w, next) ==
  LET t == RemoveViews(s, w)
  IN  SetView([t EXCEPT !.on[w] = Nothing, !.wins = @ \ {w}, !.window = Nothing], t.on[next])

-----------------------------------------------------------------------------
(* The effect of an edit on the cursors *)

\* Variant with a bug: an offset inside of the deleted bytes stays.
FollowLeft(offset, off, del, ins) ==
  IF off < offset /\ off + del <= offset THEN offset - del + ins ELSE offset

\* Where an offset should be after del bytes at off were replaced by ins.
Follow(offset, off, del, ins) ==
  CASE offset <= off -> offset
    [] off < offset /\ off + del <= offset -> offset - del + ins
    [] OTHER -> off

\* Variant with a bug: deleted and inserted bytes are mixed up.
FixCursorsSwapped(s, off, del, ins) ==
  [v \in Views |->
    IF v # s.view /\ s.views[v].buf = s.views[s.view].buf
    THEN [s.views[v] EXCEPT !.saved = Follow(@, off, ins, del)]
    ELSE s.views[v]]

\* fix_cursors
FixCursors(s, off, del, ins) ==
  [v \in Views |->
    IF v # s.view /\ s.views[v].buf = s.views[s.view].buf
    THEN [s.views[v] EXCEPT !.saved = Follow(@, off, del, ins)]
    ELSE s.views[v]]

\* The Views with their marks moved along, whatever the code does.
Marked(views, s, off, del, ins) ==
  [v \in Views |->
    IF v # s.view /\ views[v].buf = views[s.view].buf
    THEN [views[v] EXCEPT !.mark = Follow(@, off, del, ins)]
    ELSE views[v]]

\* An edit of the current Buffer after which the cursor is at cur, given what
\* the code tells fix_cursors of it.
Edited(s, off, del, ins, cur, fixDel, fixIns) ==
  LET b == s.views[s.view].buf
      views == Marked(FixCursors(s, off, fixDel, fixIns), s, off, del, ins)
  IN  [s EXCEPT !.len[b] = @ - del + ins,
                !.fresh = @ \ {b},
                !.views = [views EXCEPT ![s.view].cur = cur, ![s.view].mark = cur]]

-----------------------------------------------------------------------------
(* The commands *)

Fits(s) == \A w \in Windows : Cardinality(Tabs(s, w)) <= MaxTabs

\* A command of a group leads to EditorState s, the screen update is to follow.
Run(group, s, full, force) ==
  /\ pc = "idle"
  /\ group \in Commands
  /\ Fits(s)
  /\ ed' = s
  /\ pc' \in IF Compound THEN {"idle", "update"} ELSE {"update"}
  /\ all' = (all \/ full)
  /\ forced' = force

NewEmpties == {b \in Empties : ~Exists(ed, b)}

\* There is room for the View that window w needs to show b.
Room(s, w, b) == Unused(s) # {} \/ Tabs(s, w) \cap ViewsOf(s, b) # {}

\* The Views whose cursor a new View of b may get.
Sources(s, b) == IF Exists(s, b) THEN ViewsOf(s, b) ELSE {Nothing}

\* "open" with one filename, window_open_files
Open(b, n, at) ==
  LET w == ed.window
      t == OpenBuffer(ed, w, b, n, at)
  IN  /\ Room(ed, w, b)
      /\ Run("open", MaybeSetView(t, w, ViewIn(t, w, b), ed.on[w], t # ed), FALSE, FALSE)

\* "open" with two filenames
OpenTwo(b, c, n, atB, atC) ==
  LET w == ed.window
      t == OpenBuffer(ed, w, b, n, atB)
      u == OpenBuffer(t, w, c, n, atC)
  IN  /\ b # c
      /\ Room(ed, w, b) /\ Room(t, w, c)
      /\ Run("open", MaybeSetView(u, w, ViewIn(u, w, b), ed.on[w], (t = ed) # (t = u)),
             FALSE, FALSE)

\* "open" without a filename
OpenNew(b) ==
  /\ Unused(ed) # {}
  /\ Run("open", OpenNewFile(ed, ed.window, b), FALSE, FALSE)

\* "tag", "bookmark -r", "msg": file_location_go, file_location_return
Jump(b, n, at, p) ==
  LET w == ed.window
      t == OpenBuffer(ed, w, b, n, at)
      v == ViewIn(t, w, b)
      u == SetView(t, v)
  IN  /\ Room(ed, w, b)
      /\ p <= t.len[b]
      /\ Run("jump", [u EXCEPT !.views[v].cur = p, !.views[v].mark = p], FALSE, FALSE)

\* "next", "prev", "view"
Tab(v) == v \in Tabs(ed, ed.window) /\ Run("tab", SetView(ed, v), FALSE, FALSE)

Closable(force) == force \/ CanClose(ed, ed.view)

\* window_close_current_view, then set_view
Close(force, v) ==
  LET w == ed.window
      t == RemoveView(ed, ed.view)
  IN  /\ Closable(force)
      /\ v \in IF t.prev[w] # Nothing THEN {t.prev[w]} ELSE Tabs(t, w)
      /\ Run("close", SetView(t, v), FALSE, force)

\* The same for the only tab of a window
CloseLast(force, b) ==
  LET w == ed.window
      t == OpenEmpty(RemoveView(ed, ed.view), w, b)
  IN  /\ Closable(force)
      /\ Tabs(ed, w) = {ed.view}
      /\ Run("close", SetView(t, ViewIn(t, w, b)), FALSE, force)

\* "wnext", "wprev"
NextWindow(w) ==
  /\ w \in ed.wins \ {ed.window}
  /\ Run("window", SetView([ed EXCEPT !.window = w], ed.on[w]), TRUE, FALSE)

\* "wsplit": the new window, before there is anything in it
Split(w) == [ed EXCEPT !.wins = @ \cup {w}, !.window = w, !.view = Nothing]

WSplit(w) ==
  LET b == ed.views[ed.view].buf
      t == AddView(Split(w), w, b, ed.view)
  IN  /\ w \notin ed.wins
      /\ Unused(ed) # {}
      /\ Run("window", SetView(t, ViewIn(t, w, b)), TRUE, FALSE)

WSplitNew(w, b) ==
  /\ w \notin ed.wins
  /\ Unused(ed) # {}
  /\ Run("window", OpenNewFile(Split(w), w, b), TRUE, FALSE)

WSplitFile(w, b, n, at) ==
  LET t == OpenBuffer(Split(w), w, b, n, at)
  IN  /\ w \notin ed.wins
      /\ Unused(ed) # {}
      /\ Run("window", MaybeSetView(t, w, ViewIn(t, w, b), Nothing, TRUE), TRUE, FALSE)

Uncloseable == {v \in Tabs(ed, ed.window) : ~CanClose(ed, v)}

\* "wclose", or "close -w" with a single tab
WClose(force, b, next) ==
  LET w == ed.window
  IN  /\ force \/ Uncloseable = {}
      /\ IF ed.wins = {w}
         THEN b # Nothing /\ Run("wclose", CloseOnly(ed, w, b), FALSE, force)
         ELSE /\ next \in ed.wins \ {w}
              /\ Run("wclose", CloseWindow(ed, w, next), TRUE, force)

\* A refused "wclose" shows a View that stands in its way.
WCloseRefused(v) ==
  /\ v \in Uncloseable
  /\ ed.view \in Uncloseable => v = ed.view
  /\ Run("wclose", SetView(ed, v), FALSE, FALSE)

\* A refused "quit" shows a View of a modified Buffer.
QuitRefused(v) ==
  LET candidates == {u \in Views : Modified(ed, ed.views[u].buf)}
      here == candidates \cap Tabs(ed, ed.window)
  IN  /\ v \in IF here # {} THEN here ELSE candidates
      /\ ed.view \in candidates => v = ed.view
      /\ Run("quit", SetView(ed, v), FALSE, FALSE)

Quit(force) ==
  /\ pc = "idle"
  /\ "quit" \in Commands
  /\ force \/ ed.modified = {}
  /\ pc' = "exit"
  /\ forced' = force
  /\ UNCHANGED <<ed, all>>

Here == ed.views[ed.view]
Size == ed.len[Here.buf]
Changed(s) == [s EXCEPT !.modified = @ \cup {Here.buf}]

\* The current cursor is where it may be used.
Usable == Here.cur <= Size

Move(p) ==
  /\ p <= Size
  /\ Run("move", [ed EXCEPT !.views[ed.view].cur = p, !.views[ed.view].mark = p],
         FALSE, FALSE)

\* buffer_insert_bytes: fix_cursors(view, offset, len, 0)
Insert(p, n, cur) ==
  /\ Usable /\ p <= Size
  /\ cur \in {p, p + n}
  /\ Size + n <= MaxLen
  /\ Run("insert", Changed(Edited(ed, p, 0, n, cur, n, 0)), FALSE, FALSE)

\* buffer_delete_bytes_internal
Delete(p, n) ==
  /\ Usable /\ p + n <= Size
  /\ Run("delete", Changed(Edited(ed, p, n, 0, p, n, 0)), FALSE, FALSE)

\* buffer_replace_bytes
Replace(p, del, ins, cur) ==
  /\ Usable /\ p + del <= Size
  /\ cur \in {p, p + ins}
  /\ Size - del + ins <= MaxLen
  /\ Run("replace", Changed(Edited(ed, p, del, ins, cur, del, ins)), FALSE, FALSE)

\* reverse_change, which may lead back to the saved state
ReverseChange(p, del, ins, cur, saved) ==
  LET s == Edited(ed, p, del, ins, cur, del, ins)
  IN  /\ Usable /\ p + del <= Size
      /\ Here.buf \notin ed.fresh
      /\ cur \in {p, p + ins}
      /\ Size - del + ins <= MaxLen
      /\ Run("undo", IF saved THEN [s EXCEPT !.modified = @ \ {Here.buf}] ELSE Changed(s),
             FALSE, FALSE)

Save ==
  Run("save", [ed EXCEPT !.modified = @ \ {Here.buf}, !.fresh = @ \ {Here.buf}],
      FALSE, FALSE)

\* SIGWINCH, between two commands
Resize ==
  /\ pc = "idle" /\ ~Compound
  /\ pc' = "update"
  /\ all' = TRUE
  /\ UNCHANGED <<ed, forced>>

\* Variant with a bug: only the current View is brought up to date.
RefreshedNone(s) == s.views

\* update_buffer_windows: visible Views of the current Buffer get their cursor
Refreshed(s) ==
  [v \in Views |->
    IF /\ v # s.view
       /\ s.views[v].buf = s.views[s.view].buf
       /\ s.on[s.views[v].win] = v
    THEN [s.views[v] EXCEPT !.cur = GotoOffset(s, v, s.views[v].saved)]
    ELSE s.views[v]]

\* update_screen; update_all_windows takes the cursors as they are
UpdateScreen ==
  /\ pc = "update"
  /\ ed' = IF all THEN ed ELSE [ed EXCEPT !.views = Refreshed(ed)]
  /\ pc' = "idle"
  /\ all' = FALSE
  /\ forced' = FALSE

-----------------------------------------------------------------------------
\* The editor starts with one window and one file.
Init ==
  /\ \E w \in Windows, v \in Views, b \in Files, n \in Sizes :
       ed = [wins |-> {w},
             on |-> [x \in Windows |-> IF x = w THEN v ELSE Nothing],
             prev |-> [x \in Windows |-> Nothing],
             window |-> w,
             view |-> v,
             views |-> [u \in Views |->
               IF u = v THEN [NoView EXCEPT !.buf = b, !.win = w] ELSE NoView],
             len |-> [x \in Buffers |-> IF x = b THEN n ELSE 0],
             modified |-> {},
             fresh |-> {}]
  /\ pc = "idle"
  /\ all = FALSE
  /\ forced = FALSE

OpenCommand ==
  \/ \E b \in Files, n \in Sizes : \E at \in Sources(ed, b) :
       \/ Open(b, n, at)
       \/ \E p \in 0..MaxLen : Jump(b, n, at, p)
       \/ \E c \in Files : \E atC \in Sources(ed, c) : OpenTwo(b, c, n, at, atC)
       \/ \E w \in Windows : WSplitFile(w, b, n, at)
  \/ \E b \in NewEmpties : OpenNew(b) \/ \E w \in Windows : WSplitNew(w, b)

ViewCommand ==
  \/ \E v \in Views : Tab(v) \/ WCloseRefused(v) \/ QuitRefused(v)
  \/ \E w \in Windows : NextWindow(w) \/ WSplit(w)
  \/ \E force \in BOOLEAN :
       \/ Quit(force)
       \/ \E v \in Views : Close(force, v)
       \/ \E b \in NewEmpties : CloseLast(force, b)
       \/ \E b \in NewEmpties \cup {Nothing}, w \in Windows : WClose(force, b, w)

EditCommand ==
  \/ Save
  \/ \E p, n \in 0..MaxLen :
       \/ Move(p)
       \/ n > 0 /\ Delete(p, n)
       \/ \E ins, cur \in 0..MaxLen :
            \/ n > 0 /\ ins > 0 /\ Replace(p, n, ins, cur)
            \/ n + ins > 0 /\ \E saved \in BOOLEAN : ReverseChange(p, n, ins, cur, saved)

InsertCommand == \E p, n, cur \in 0..MaxLen : n > 0 /\ Insert(p, n, cur)

Next == OpenCommand \/ ViewCommand \/ EditCommand \/ InsertCommand \/ Resize \/ UpdateScreen

Spec == Init /\ [][Next]_vars

-----------------------------------------------------------------------------
(* Properties *)

ViewRecs ==
  [buf : Buffers, win : Windows, cur : 0..MaxLen, restore : BOOLEAN,
   saved : Nat, mark : Nat]

\* Types of the variables; a Buffer that is modified or untouched is open.
TypeOK ==
  /\ ed \in [wins : SUBSET Windows,
             on : [Windows -> Views \cup {Nothing}],
             prev : [Windows -> Views \cup {Nothing}],
             window : Windows, view : Views,
             views : [Views -> ViewRecs \cup {NoView}],
             len : [Buffers -> 0..MaxLen],
             modified : SUBSET Buffers, fresh : SUBSET Buffers]
  /\ \A b \in ed.modified \cup ed.fresh : Exists(ed, b)
  /\ pc \in {"idle", "update", "exit"}
  /\ all \in BOOLEAN /\ forced \in BOOLEAN

\* No pointer dangles: the current and the previous View of every window are
\* tabs of that window, whatever was closed and from where, and the editor's
\* current View is that of its current window.
PointersAreLive ==
  /\ ed.window \in ed.wins
  /\ ed.view = ed.on[ed.window]
  /\ \A w \in ed.wins :
       /\ ed.on[w] \in Tabs(ed, w)
       /\ ed.prev[w] # Nothing => ed.prev[w] \in Tabs(ed, w)
  /\ \A w \in Windows \ ed.wins : Tabs(ed, w) = {} /\ ed.prev[w] = Nothing

\* A window has at most one tab of a Buffer: window_find_view and the count
\* of uncloseable tabs rely on it.
OneViewPerWindow ==
  \A w \in ed.wins, b \in Buffers :
    Cardinality(Tabs(ed, w) \cap ViewsOf(ed, b)) <= 1

\* No command discards a Buffer with unsaved changes unless it is told to.
NothingIsLost ==
  [][\A b \in ed.modified :
       (~Exists(ed', b) \/ pc' = "exit") => forced']_vars

\* The current cursor is inside the text (the assertions of sanity_check in
\* editor.c and of every edit).
CurrentInText == Here.cur <= Size

InText(offset, v) == offset <= ed.len[ed.views[v].buf]

\* A screen update draws the other windows with cursors inside their texts.
DrawnInText ==
  pc = "update" =>
    \A w \in ed.wins \ {ed.window} :
      LET v == ed.on[w]
      IN  IF ~all /\ ed.views[v].buf = Here.buf
          THEN InText(ed.views[v].saved, v)
          ELSE InText(ed.views[v].cur, v)

\* The cursor that a View gets back when it becomes current is at the byte it
\* was at before, as far as that byte is still there.
CursorsFollow ==
  \A v \in Views : v # ed.view /\ ed.views[v].restore => ed.views[v].saved = ed.views[v].mark
=============================================================================
