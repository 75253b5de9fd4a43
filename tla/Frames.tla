-------------------------------- MODULE Frames --------------------------------
(***************************************************************************)
(* How the screen is divided among windows: src/frame.c, with the commands *)
(* wsplit, wclose, wresize, wflip and wswap (src/commands.c) and the       *)
(* layout that a screen update computes (src/ui.c, src/ui-window.c).       *)
(*                                                                         *)
(* A Frame holds either one window or two or more frames, side by side or  *)
(* (vertical) on top of each other.  The tree is one nested value and a    *)
(* Frame is named by its path from the root, so that a parent is the path  *)
(* without its last element.  What a window shows is in module Views.      *)
(***************************************************************************)
EXTENDS Integers, SequencesExt

CONSTANTS
  MaxWins,   \* bound: windows that exist at a time
  MinWidth,  \* WINDOW_MIN_WIDTH
  MinHeight, \* WINDOW_MIN_HEIGHT
  Screens,   \* sizes of the terminal, without the line of the command line
  Amounts,   \* the numbers given to "wresize"
  MaxStale   \* bound: commands before a screen update

NoWin == 0

ASSUME FramesAssumption ==
  /\ MaxWins \in Nat \ {0} /\ MaxStale \in Nat
  /\ MinWidth \in Nat \ {0} /\ MinHeight \in Nat \ {0}
  /\ Amounts \subseteq Int

VARIABLES
  root,    \* the root Frame
  focus,   \* the current window
  screen,  \* width and height of the terminal
  stale    \* commands since the last screen update

frameVars == <<root, focus, screen, stale>>

\* A Frame.  window->w is w - sep, window->h is h.
NewFrame(win) ==
  [win |-> win, kids |-> <<>>, vertical |-> FALSE, equal |-> TRUE,
   w |-> 0, h |-> 0, sep |-> 0, x |-> 0, y |-> 0]

IsLeaf(f) == f.win # NoWin
Larger(a, b) == IF a > b THEN a ELSE b
SumOf(seq) == FoldLeft(LAMBDA a, b : a + b, 0, seq)
LargestOf(seq) == FoldLeft(Larger, 0, seq)
Each(Op(_), seq) == [i \in DOMAIN seq |-> Op(seq[i])]

RECURSIVE MinW(_), MinH(_)

\* get_min_w; one column between two frames for the separator
MinW(f) ==
  IF IsLeaf(f) THEN MinWidth
  ELSE IF f.vertical THEN LargestOf(Each(MinW, f.kids))
  ELSE Len(f.kids) - 1 + SumOf(Each(MinW, f.kids))

\* get_min_h
MinH(f) ==
  IF IsLeaf(f) THEN MinHeight
  ELSE IF f.vertical THEN SumOf(Each(MinH, f.kids)) ELSE LargestOf(Each(MinH, f.kids))

\* get_min and get_size of a kid, get_container_size of its parent
MinIn(vertical, f) == IF vertical THEN MinH(f) ELSE MinW(f)
SizeIn(vertical, f) == IF vertical THEN f.h ELSE f.w

RECURSIVE Divide(_, _, _)

\* The loop of divide_equally: n frames have no size (0) yet and share s.
\* Those whose minimum is above the share get their minimum.
Divide(min, size, s) ==
  LET rest == {i \in DOMAIN size : size[i] = 0}
      n == Cardinality(rest)
      tight == {i \in rest : min[i] > s \div n}
      given == [i \in DOMAIN size |-> IF i \in tight THEN min[i] ELSE size[i]]
  IN  IF rest = {} THEN size
      ELSE IF tight # {} THEN Divide(min, given, s - (SumOf(given) - SumOf(size)))
      ELSE [i \in DOMAIN size |->
             IF i \notin rest THEN size[i]
             ELSE s \div n + IF Cardinality({j \in rest : j < i}) < s % n THEN 1 ELSE 0]

\* divide_equally
DivideEqually(min, s) == Divide(min, [i \in DOMAIN min |-> 0], s)

\* Variant with a bug: what is missing is taken from the last one only.
FixSizeLast(min, old, s) ==
  LET size == [i \in DOMAIN min |-> Larger(old[i], min[i])]
      n == Len(min)
  IN  [size EXCEPT ![n] = Larger(@ + s - SumOf(size), min[n])]

\* fix_size: what is missing is taken from the last ones, what is left goes to
\* the last one.
FixSize(min, old, s) ==
  LET size == [i \in DOMAIN min |-> Larger(old[i], min[i])]
      excess == SumOf(size) - s
      slack == [i \in DOMAIN min |-> size[i] - min[i]]
      takenAfter(i) == SumOf(SubSeq(slack, i + 1, Len(min)))
  IN  IF excess <= 0 THEN [size EXCEPT ![Len(min)] = @ - excess]
      ELSE [i \in DOMAIN min |->
             Larger(size[i] - Larger(excess - takenAfter(i), 0), min[i])]

RECURSIVE SetSize(_, _, _, _), WithSize(_, _, _, _)

WithSize(f, w, h, right) ==
  LET v == f.vertical
      s == IF v THEN h ELSE w
      old == [i \in DOMAIN f.kids |-> SizeIn(v, f.kids[i])]
      Divided(min) == IF f.equal THEN DivideEqually(min, s) ELSE FixSize(min, old, s)
      Kids(size) ==
        [i \in DOMAIN f.kids |->
          IF v THEN SetSize(f.kids[i], w, size[i], right)
          ELSE SetSize(f.kids[i], size[i], h, right /\ i = Len(f.kids))]
  IN  IF IsLeaf(f) THEN [f EXCEPT !.w = w, !.h = h, !.sep = IF right THEN 0 ELSE 1]
      ELSE [f EXCEPT !.w = w, !.h = h,
                     !.kids = Kids(Divided([i \in DOMAIN f.kids |-> MinIn(v, f.kids[i])]))]

\* frame_set_size, of a Frame that is at the right edge or is not
\* (rightmost_frame)
SetSize(f, width, height, right) ==
  WithSize(f, Larger(width, MinW(f)), Larger(height, MinH(f)), right)

RECURSIVE Placed(_, _, _)

\* update_frame_coordinates
Placed(f, x, y) ==
  LET before(i, v) == SumOf([j \in 1..(i - 1) |-> SizeIn(v, f.kids[j])])
  IN  IF IsLeaf(f) THEN [f EXCEPT !.x = x, !.y = y]
      ELSE [f EXCEPT !.kids = [i \in DOMAIN f.kids |->
             IF f.vertical THEN Placed(f.kids[i], x, y + before(i, TRUE))
             ELSE Placed(f.kids[i], x + before(i, FALSE), y)]]

-----------------------------------------------------------------------------
(* Frames by their paths *)

RECURSIVE FrameAt(_, _), With(_, _, _), PathTo(_, _), Leaves(_)

FrameAt(f, p) == IF p = <<>> THEN f ELSE FrameAt(f.kids[p[1]], Tail(p))

\* f with the Frame at p replaced
With(f, p, new) ==
  IF p = <<>> THEN new ELSE [f EXCEPT !.kids[p[1]] = With(@, Tail(p), new)]

\* frame_for_each_window: the windows from left to right, from top to bottom
Leaves(f) == IF IsLeaf(f) THEN <<f>> ELSE FlattenSeq(Each(Leaves, f.kids))

WinsIn(f) == {leaf.win : leaf \in ToSet(Leaves(f))}

\* window->frame
PathTo(f, win) ==
  IF IsLeaf(f) THEN <<>>
  ELSE LET i == CHOOSE i \in DOMAIN f.kids : win \in WinsIn(f.kids[i])
       IN  <<i>> \o PathTo(f.kids[i], win)

\* rightmost_frame
Rightmost(f, p) ==
  \A n \in 1..Len(p) :
    LET parent == FrameAt(f, SubSeq(p, 1, n - 1))
    IN  parent.vertical \/ p[n] = Len(parent.kids)

\* frame_set_size of the Frame at p
Sized(f, p, w, h) == With(f, p, SetSize(FrameAt(f, p), w, h, Rightmost(f, p)))

\* ... with the size it has, and update_window_coordinates
Recalculated(f, p) ==
  LET g == FrameAt(f, p) IN Placed(Sized(f, p, g.w, g.h), 0, 0)

\* set_size: in the direction of the parent
SetSizeIn(f, p, size) ==
  LET parent == FrameAt(f, Front(p))
      v == parent.vertical
  IN  Sized(f, p, IF v THEN parent.w ELSE size, IF v THEN size ELSE parent.h)

-----------------------------------------------------------------------------
(* wresize *)

SizeAt(f, p) == SizeIn(FrameAt(f, Front(p)).vertical, FrameAt(f, p))
MinAt(f, p) == MinIn(FrameAt(f, Front(p)).vertical, FrameAt(f, p))

\* One step of subtract_from_sibling_size; st.count is still to be taken.
Sub(st, p) ==
  LET old == SizeAt(st.f, p)
      new == Larger(MinAt(st.f, p), old - st.count)
  IN  IF st.count = 0 THEN st
      ELSE [f |-> IF new = old THEN st.f ELSE SetSizeIn(st.f, p, new),
            count |-> st.count - (old - new)]

\* subtract_from_sibling_size: those after the Frame, then those before it
SubtractFromSiblings(f, p, count) ==
  LET n == Len(FrameAt(f, Front(p)).kids)
      i == Last(p)
      others == [j \in 1..(n - i) |-> i + j] \o [j \in 1..(i - 1) |-> i - j]
      paths == [j \in DOMAIN others |-> Append(Front(p), others[j])]
  IN  FoldLeft(Sub, [f |-> f, count |-> count], paths).f

\* add_to_sibling_size: the next one, or the one before the last one
AddToSibling(f, p, count) ==
  LET last == Last(p) = Len(FrameAt(f, Front(p)).kids)
      sibling == Append(Front(p), IF last THEN Last(p) - 1 ELSE Last(p) + 1)
  IN  SetSizeIn(f, sibling, SizeAt(f, sibling) + count)

\* resize_to: of n frames that are at least min and fill total, one gets what
\* is wanted as far as it can, and the others the difference.
Allowed(wanted, n, min, total) ==
  LET max == Larger(min, total - (n - 1) * min)
  IN  IF wanted > max THEN max ELSE Larger(wanted, min)

ResizeTo(f, p, wanted) ==
  LET parent == FrameAt(f, Front(p))
      size == Allowed(wanted, Len(parent.kids), MinAt(f, p), SizeIn(parent.vertical, parent))
      Share(g, change) ==
        IF change = 0 THEN f
        ELSE IF change < 0 THEN AddToSibling(g, p, -change)
        ELSE SubtractFromSiblings(g, p, change)
  IN  Share(SetSizeIn(f, p, size), size - SizeAt(f, p))

\* find_resizable: the paths that it may return; none for a NULL
Resizable(f, p, dir) ==
  LET ups == {n \in 1..Len(p) :
               \/ dir = "auto" /\ n = Len(p)
               \/ dir = "v" /\ FrameAt(f, SubSeq(p, 1, n - 1)).vertical
               \/ dir = "h" /\ ~FrameAt(f, SubSeq(p, 1, n - 1)).vertical}
  IN  {SubSeq(p, 1, n) : n \in {n \in ups : \A m \in ups : m <= n}}

\* frame_resize of the Frame at p
FrameResize(f, p, dir, size) ==
  IF Resizable(f, p, dir) = {} THEN f
  ELSE LET q == CHOOSE q \in Resizable(f, p, dir) : TRUE
           loose == With(f, Front(q), [FrameAt(f, Front(q)) EXCEPT !.equal = FALSE])
       IN  Placed(ResizeTo(loose, q, size), 0, 0)

-----------------------------------------------------------------------------
(* Splitting and removing *)

\* frame_split of the window at p: the new root, with the new window
FrameSplit(f, p, vertical, before, win) ==
  LET g == FrameAt(f, p)
      alone == p = <<>> \/ FrameAt(f, Front(p)).vertical # vertical
      at == IF alone THEN p ELSE Front(p)
      parent == IF alone
                THEN [g EXCEPT !.win = NoWin, !.sep = 0, !.x = 0, !.y = 0,
                               !.vertical = vertical, !.kids = <<NewFrame(g.win)>>]
                ELSE FrameAt(f, at)
      i == (IF alone THEN 1 ELSE Last(p)) + IF before THEN 0 ELSE 1
      kids == InsertAt(parent.kids, i, NewFrame(win))
  IN  Recalculated(With(f, at, [parent EXCEPT !.kids = kids, !.equal = TRUE]), at)

\* frame_split_root
FrameSplitRoot(f, vertical, before, win) ==
  LET kids == IF before THEN <<NewFrame(win), f>> ELSE <<f, NewFrame(win)>>
  IN  Recalculated([NewFrame(NoWin) EXCEPT !.kids = kids, !.vertical = vertical,
                                           !.w = f.w, !.h = f.h], <<>>)

\* Variant with a bug: a container is left with one Frame in it.
FrameRemoveKeeps(f, p) ==
  LET at == Front(p)
      parent == FrameAt(f, at)
  IN  Recalculated(With(f, at, [parent EXCEPT !.kids = RemoveAt(@, Last(p))]), at)

\* frame_remove: an only child takes the place of its parent.
FrameRemove(f, p) ==
  LET at == Front(p)
      parent == FrameAt(f, at)
      kids == RemoveAt(parent.kids, Last(p))
      heir == [kids[1] EXCEPT !.w = parent.w, !.h = parent.h]
  IN  Recalculated(With(f, at, IF Len(kids) = 1 THEN heir ELSE [parent EXCEPT !.kids = kids]),
                   at)

-----------------------------------------------------------------------------
(* Commands *)

FocusPath == PathTo(root, focus)

FrameInit ==
  /\ focus = 1
  /\ root = SetSize(NewFrame(1), 0, 0, TRUE)
  /\ screen \in Screens
  /\ stale = 1

\* A command leads to the tree f.
Arranged(f) ==
  /\ stale < MaxStale
  /\ stale' = stale + 1
  /\ root' = f
  /\ UNCHANGED screen

\* new_window
NewWins ==
  LET unused == (1..MaxWins) \ WinsIn(root)
  IN  {win \in unused : \A other \in unused : win <= other}

\* The trees that "wsplit" with some flags may lead to.
Splits(win) ==
  {FrameSplit(root, FocusPath, v, b, win) : v, b \in BOOLEAN}
    \cup {FrameSplitRoot(root, v, b, win) : v, b \in BOOLEAN}

WSplit ==
  \E win \in NewWins :
    /\ \E f \in Splits(win) : Arranged(f)
    /\ focus' = win

\* No file could be opened: the new window is removed again.
WSplitFails ==
  \E win \in NewWins :
    /\ \E f \in Splits(win) : Arranged(FrameRemove(f, PathTo(f, win)))
    /\ UNCHANGED focus

\* The window after the current one, window_next; the first one after the last
NextWin(f, win) ==
  LET wins == Each(LAMBDA leaf : leaf.win, Leaves(f))
      i == CHOOSE i \in DOMAIN wins : wins[i] = win
  IN  wins[(i % Len(wins)) + 1]

\* window_prev
PrevWin(f, win) == CHOOSE u \in WinsIn(f) : NextWin(f, u) = win

\* window_close of one of several windows: the next one gets the focus, or the
\* one before the last one
WClose ==
  LET wins == Each(LAMBDA leaf : leaf.win, Leaves(root))
  IN  /\ ~IsLeaf(root)
      /\ Arranged(FrameRemove(root, FocusPath))
      /\ focus' = IF Last(wins) = focus THEN PrevWin(root, focus) ELSE NextWin(root, focus)

WNextPrev ==
  /\ focus' \in {NextWin(root, focus), PrevWin(root, focus)}
  /\ Arranged(root)

\* "wresize" with a number
WResize(dir, n) ==
  /\ ~IsLeaf(root)
  /\ Arranged(FrameResize(root, FocusPath, dir, n))
  /\ UNCHANGED focus

\* "wresize" with a signed number, frame_add_to_size
WResizeBy(dir, n) ==
  /\ ~IsLeaf(root)
  /\ Arranged(FrameResize(root, FocusPath, dir, SizeAt(root, FocusPath) + n))
  /\ UNCHANGED focus

\* "wresize" alone: frame_equalize_sizes of the parent
WEqualize ==
  LET at == Front(FocusPath)
      parent == [FrameAt(root, at) EXCEPT !.equal = TRUE]
      min == [i \in DOMAIN parent.kids |-> MinIn(parent.vertical, parent.kids[i])]
      size == DivideEqually(min, SizeIn(parent.vertical, parent))
      set(f, i) == SetSizeIn(f, Append(at, i), size[i])
  IN  /\ ~IsLeaf(root)
      /\ Arranged(Placed(FoldLeft(set, With(root, at, parent), [i \in DOMAIN min |-> i]), 0, 0))
      /\ UNCHANGED focus

\* The parent of the current window, changed; its sizes are left to the update.
Parent(f) == With(root, Front(FocusPath), f)

WFlip ==
  /\ ~IsLeaf(root)
  /\ Arranged(Parent([FrameAt(root, Front(FocusPath)) EXCEPT !.vertical = ~@]))
  /\ UNCHANGED focus

WSwap ==
  LET f == FrameAt(root, Front(FocusPath))
      i == Last(FocusPath)
      j == (i % Len(f.kids)) + 1
  IN  /\ ~IsLeaf(root)
      /\ Arranged(Parent([f EXCEPT !.kids = [@ EXCEPT ![i] = f.kids[j], ![j] = f.kids[i]]]))
      /\ UNCHANGED focus

\* update_screen_size, after SIGWINCH
ScreenResize ==
  \E s \in Screens \ {screen} :
    /\ screen' = s
    /\ root' = Placed(SetSize(root, s.w, s.h, TRUE), 0, 0)
    /\ stale < MaxStale /\ stale' = stale + 1
    /\ UNCHANGED focus

\* Variant with a bug: the layout is taken as it is.
UpdateScreenAsIs ==
  /\ stale > 0
  /\ stale' = 0
  /\ UNCHANGED <<root, focus, screen>>

\* update_all_windows, update_window_sizes
UpdateScreen ==
  /\ stale > 0
  /\ root' = Placed(SetSize(root, screen.w, screen.h, TRUE), 0, 0)
  /\ stale' = 0
  /\ UNCHANGED <<focus, screen>>

FrameNext ==
  \/ WSplit \/ WSplitFails \/ WClose \/ WNextPrev
  \/ \E dir \in {"auto", "h", "v"}, n \in Amounts : WResize(dir, n) \/ WResizeBy(dir, n)
  \/ WEqualize \/ WFlip \/ WSwap
  \/ ScreenResize \/ UpdateScreen

FrameSpec == FrameInit /\ [][FrameNext]_frameVars

-----------------------------------------------------------------------------
(* Properties *)

RECURSIVE Sane(_)

\* sanity_check_frame, and no container with less than two frames
Sane(f) ==
  IF IsLeaf(f) THEN f.kids = <<>>
  ELSE Len(f.kids) >= 2 /\ \A i \in DOMAIN f.kids : Sane(f.kids[i])

\* The cells of a window and of the separator to its right.
Cells(leaf) == (leaf.x..(leaf.x + leaf.w - 1)) \X (leaf.y..(leaf.y + leaf.h - 1))

\* Whatever was split, closed, resized, flipped and swapped since the last
\* screen update, the update draws windows that are at least as large as the
\* minimum and that share the screen without a gap and without an overlap (or
\* the smallest area that all minimums fit into); the separator is left out
\* only at the right edge.  The tree has the shape that frame.c asserts.
WindowsTile ==
  LET leaves == ToSet(Leaves(root))
      w == Larger(screen.w, MinW(root))
      h == Larger(screen.h, MinH(root))
  IN  /\ Sane(root)
      /\ focus \in WinsIn(root)
      /\ Cardinality(WinsIn(root)) = Len(Leaves(root))
      /\ stale = 0 =>
           /\ UNION {Cells(leaf) : leaf \in leaves} = (0..(w - 1)) \X (0..(h - 1))
           /\ SumOf(Each(LAMBDA leaf : leaf.w * leaf.h, Leaves(root))) = w * h
           /\ \A leaf \in leaves :
                /\ leaf.w >= MinWidth /\ leaf.h >= MinHeight
                /\ leaf.sep = 0 <=> leaf.x + leaf.w = w

=============================================================================
