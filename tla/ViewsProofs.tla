----------------------------- MODULE ViewsProofs -----------------------------
(***************************************************************************)
(* Proofs about the pointers and the tabs of module Views: whatever is     *)
(* opened, switched, split and closed, no pointer to a View dangles, a     *)
(* window has one tab for a Buffer, and no change is discarded unasked.    *)
(* And about its cursors: with every View on the screen and no insertions, *)
(* each comes back to the byte it was at.                                  *)
(*                                                                         *)
(* The functions of window.c call each other in the middle of what they    *)
(* do, when a window shows a View that is gone or none at all.  So what is *)
(* said of an EditorState comes in parts, and each function has a lemma    *)
(* that says which parts it needs and which it leaves behind.              *)
(***************************************************************************)
EXTENDS MCViews, FiniteSetTheorems, TLAPS

\* Where pointers may be null, between two functions
EdTypes(s) ==
  s \in [wins : SUBSET Windows,
         on : [Windows -> Views \cup {Nothing}],
         prev : [Windows -> Views \cup {Nothing}],
         window : Windows \cup {Nothing}, view : Views \cup {Nothing},
         views : [Views -> ViewRecs \cup {NoView}],
         len : [Buffers -> 0..MaxLen],
         modified : SUBSET Buffers, fresh : SUBSET Buffers]

\* Tabs are those of windows on the screen, and so is the one shown before.
Linked(s) ==
  /\ \A w \in s.wins : s.prev[w] # Nothing => s.prev[w] \in Tabs(s, w)
  /\ \A w \in Windows \ s.wins : Tabs(s, w) = {} /\ s.prev[w] = Nothing /\ s.on[w] = Nothing

Once(s) ==
  \A u, v \in Views :
    /\ s.views[u].buf # Nothing /\ s.views[u].buf = s.views[v].buf
    /\ s.views[u].win = s.views[v].win
    => u = v

\* What is said of a Buffer is said of one that exists, and what was typed
\* into is not untouched.
Owned(s) ==
  /\ \A b \in s.modified \cup s.fresh : Exists(s, b)
  /\ \A b \in s.modified : b \notin s.fresh

Loose(s) == EdTypes(s) /\ Linked(s) /\ Once(s) /\ Owned(s)

Showing(s, W) == \A w \in W : s.on[w] \in Tabs(s, w)

\* Between two commands
Sound(s) ==
  /\ Loose(s) /\ Showing(s, s.wins)
  /\ s.window \in s.wins /\ s.view = s.on[s.window]

\* All Buffers that were there are still there.
Grows(s, t) == \A b \in Buffers : Exists(s, b) => Exists(t, b)

ViewsInv ==
  /\ Sound(ed)
  /\ pc \in {"idle", "update", "exit"} /\ all \in BOOLEAN /\ forced \in BOOLEAN

-----------------------------------------------------------------------------
(* Views *)

LEMMA NothingIsNone ==
  /\ Nothing \notin Windows /\ Nothing \notin Views /\ Nothing \notin Buffers
  /\ Files \subseteq Buffers /\ Empties \subseteq Buffers
  BY NamesAssumption DEF Buffers

LEMMA ViewTypes ==
  ASSUME NEW s, EdTypes(s), NEW v \in Views
  PROVE  /\ s.views[v] = NoView
              \/ s.views[v] \in ViewRecs
         /\ s.views[v] = NoView <=> s.views[v].buf = Nothing
         /\ s.views[v] = NoView <=> s.views[v].win = Nothing
         /\ s.views[v].buf \in Buffers \cup {Nothing}
         /\ s.views[v].win \in Windows \cup {Nothing}
         /\ s.views[v].cur \in 0..MaxLen /\ s.views[v].mark \in Nat /\ s.views[v].saved \in Nat
<1>1. s.views[v] \in ViewRecs \cup {NoView}
  BY DEF EdTypes
<1>2. CASE s.views[v] = NoView
  BY <1>2, BoundsAssumption DEF NoView
<1>3. CASE s.views[v] \in ViewRecs
  BY <1>3, NothingIsNone DEF ViewRecs, NoView
<1> QED
  BY <1>1, <1>2, <1>3

\* A View with its place and nothing more
LEMMA TabIs ==
  ASSUME NEW s, EdTypes(s), NEW w \in Windows, NEW v \in Tabs(s, w)
  PROVE  v \in Views /\ s.views[v].win = w /\ s.views[v].buf \in Buffers
         /\ s.views[v] # NoView /\ s.views[v] \in ViewRecs
  BY ViewTypes, NothingIsNone DEF Tabs

\* Changes that leave the places of all Views alone
SamePlaces(s, t) ==
  \A v \in Views : s.views[v].buf = t.views[v].buf /\ s.views[v].win = t.views[v].win

LEMMA PlacesKept ==
  ASSUME NEW s, NEW t, SamePlaces(s, t)
  PROVE  /\ \A w : Tabs(t, w) = Tabs(s, w)
         /\ \A b : ViewsOf(t, b) = ViewsOf(s, b)
         /\ \A b : Exists(t, b) <=> Exists(s, b)
         /\ Once(s) => Once(t)
         /\ Grows(s, t)
<1>1. \A w : Tabs(t, w) = Tabs(s, w)
  BY DEF SamePlaces, Tabs
<1>2. \A b : ViewsOf(t, b) = ViewsOf(s, b)
  BY DEF SamePlaces, ViewsOf
<1>3. Once(s) => Once(t)
  BY DEF SamePlaces, Once
<1> QED
  BY <1>1, <1>2, <1>3 DEF Exists, Grows

-----------------------------------------------------------------------------
(* The functions of window.c *)

\* window_add_buffer, from a state in which the Buffer need not be known yet
LEMMA AddViewAdds ==
  ASSUME NEW s, EdTypes(s), Linked(s), Once(s),
         NEW w \in s.wins, NEW b \in Buffers, NEW at \in Views \cup {Nothing},
         Unused(s) # {}, Tabs(s, w) \cap ViewsOf(s, b) = {},
         NEW t, t = AddView(s, w, b, at)
  PROVE  /\ EdTypes(t) /\ Linked(t) /\ Once(t) /\ Grows(s, t) /\ Exists(t, b)
         /\ t.wins = s.wins /\ t.on = s.on /\ t.prev = s.prev /\ t.window = s.window
         /\ t.view = s.view /\ t.len = s.len /\ t.modified = s.modified /\ t.fresh = s.fresh
         /\ \A x : Tabs(s, x) \subseteq Tabs(t, x) \/ x = Nothing
         /\ \A x : ViewsOf(s, x) \subseteq ViewsOf(t, x) \/ x = Nothing
         /\ ViewIn(t, w, b) \in Tabs(t, w) \cap ViewsOf(t, b)
         /\ ViewIn(t, w, b) \in Unused(s)
<1> DEFINE from == IF at = Nothing THEN NoView ELSE s.views[at]
<1>1. PICK v \in Unused(s) :
        t = [s EXCEPT !.views[v] = [NoView EXCEPT !.buf = b, !.win = w,
                                                  !.cur = from.cur, !.mark = from.mark]]
  BY DEF AddView
<1> DEFINE rec == [NoView EXCEPT !.buf = b, !.win = w, !.cur = from.cur, !.mark = from.mark]
<1>2. v \in Views /\ s.views[v] = NoView /\ w \in Windows
  BY <1>1 DEF Unused, EdTypes
<1>3. from.cur \in 0..MaxLen /\ from.mark \in Nat
  BY ViewTypes, BoundsAssumption DEF NoView
<1>4. rec \in ViewRecs /\ rec.buf = b /\ rec.win = w
  BY <1>2, <1>3 DEF ViewRecs, NoView
<1> HIDE DEF from
<1>5. /\ t.views = [s.views EXCEPT ![v] = rec]
      /\ t.wins = s.wins /\ t.on = s.on /\ t.prev = s.prev /\ t.window = s.window
      /\ t.view = s.view /\ t.len = s.len /\ t.modified = s.modified /\ t.fresh = s.fresh
  BY <1>1 DEF EdTypes
<1> HIDE DEF rec
<1>6. EdTypes(t)
  <2>1. t = [s EXCEPT !.views = [s.views EXCEPT ![v] = rec]]
    BY <1>1 DEF rec, EdTypes
  <2> QED
    BY <1>4, <2>1 DEF EdTypes
<1>7. /\ t.views[v] = rec
      /\ \A u \in Views : u # v => t.views[u] = s.views[u]
  BY <1>2, <1>5 DEF EdTypes
<1>8. \A x : x # Nothing => Tabs(t, x) = IF x = w THEN Tabs(s, x) \cup {v} ELSE Tabs(s, x)
  BY <1>2, <1>4, <1>7 DEF Tabs, NoView
<1>9. \A x : x # Nothing => ViewsOf(t, x) = IF x = b THEN ViewsOf(s, x) \cup {v} ELSE ViewsOf(s, x)
  BY <1>2, <1>4, <1>7 DEF ViewsOf, NoView
<1>10. Linked(t)
  <2>1. s.wins \subseteq Windows
    BY DEF EdTypes
  <2>2. \A x \in s.wins : Tabs(s, x) \subseteq Tabs(t, x)
    BY <1>8, <2>1, NothingIsNone
  <2>3. \A x \in Windows \ s.wins : Tabs(t, x) = Tabs(s, x)
    BY <1>8, NothingIsNone
  <2> QED
    BY <1>5, <2>2, <2>3 DEF Linked
<1>11. Once(t)
  <2> SUFFICES ASSUME NEW x \in Views, NEW y \in Views, t.views[x].buf # Nothing,
                      t.views[x].buf = t.views[y].buf, t.views[x].win = t.views[y].win
               PROVE  x = y
    BY DEF Once
  <2>1. \A u \in Views : ~(u # v /\ s.views[u].win = w /\ s.views[u].buf = b)
    BY DEF Tabs, ViewsOf
  <2> QED
    BY <1>4, <1>7, <2>1 DEF Once
<1>12. Grows(s, t) /\ Exists(t, b)
  BY <1>9, NothingIsNone DEF Grows, Exists
<1>13. Tabs(t, w) \cap ViewsOf(t, b) = {v}
  BY <1>2, <1>8, <1>9, NothingIsNone
<1>14. ViewIn(t, w, b) = v
  BY <1>13 DEF ViewIn
<1>15. /\ \A x : Tabs(s, x) \subseteq Tabs(t, x) \/ x = Nothing
/\ \A x : ViewsOf(s, x) \subseteq ViewsOf(t, x) \/ x = Nothing
  BY <1>8, <1>9
<1> QED
  BY <1>1, <1>5, <1>6, <1>10, <1>11, <1>12, <1>13, <1>14, <1>15

\* What a function that adds a tab leaves behind
Added(s, t, w, b) ==
  /\ Loose(t) /\ Grows(s, t) /\ Exists(t, b)
  /\ t.wins = s.wins /\ t.on = s.on /\ t.prev = s.prev /\ t.window = s.window
  /\ t.view = s.view /\ t.modified = s.modified
  /\ \A x \in Windows : Tabs(s, x) \subseteq Tabs(t, x)
  /\ \A x \in Buffers : ViewsOf(s, x) \subseteq ViewsOf(t, x)
  /\ ViewIn(t, w, b) \in Tabs(t, w) \cap ViewsOf(t, b)

LEMMA OpenEmptyAdds ==
  ASSUME NEW s, Loose(s), NEW w \in s.wins, NEW b \in Empties, ~Exists(s, b),
         Unused(s) # {}, NEW t, t = OpenEmpty(s, w, b)
  PROVE  Added(s, t, w, b) /\ ViewIn(t, w, b) \in Unused(s)
<1> DEFINE r == [s EXCEPT !.len[b] = 0, !.fresh = @ \cup {b}]
<1>1. b \in Buffers /\ b \notin s.modified
  BY NothingIsNone DEF Loose, Owned
<1>2. /\ EdTypes(r)
      /\ r.views = s.views /\ r.wins = s.wins /\ r.on = s.on /\ r.prev = s.prev
      /\ r.window = s.window /\ r.view = s.view /\ r.modified = s.modified
      /\ r.fresh = s.fresh \cup {b}
  <2>1. EdTypes(s) /\ 0 \in 0..MaxLen
    BY BoundsAssumption DEF Loose
  <2>2. [s.len EXCEPT ![b] = 0] \in [Buffers -> 0..MaxLen] /\ s.fresh \cup {b} \in SUBSET Buffers
    BY <1>1, <2>1 DEF EdTypes
  <2>3. r = [s EXCEPT !.len = [s.len EXCEPT ![b] = 0], !.fresh = s.fresh \cup {b}]
    BY <2>1 DEF EdTypes
  <2> HIDE DEF r
  <2> QED
    BY <2>1, <2>2, <2>3 DEF EdTypes
<1> HIDE DEF r
<1>3. SamePlaces(s, r) /\ Unused(r) = Unused(s)
  BY <1>2 DEF SamePlaces, Unused
<1>4. Linked(r) /\ Once(r)
  BY <1>2, <1>3, PlacesKept DEF Linked, Loose
<1>5. Tabs(r, w) \cap ViewsOf(r, b) = {}
  BY <1>3, PlacesKept DEF Exists
<1>6. t = AddView(r, w, b, Nothing) /\ w \in r.wins
  BY <1>2 DEF OpenEmpty, r
<1>7. /\ EdTypes(t) /\ Linked(t) /\ Once(t) /\ Grows(r, t) /\ Exists(t, b)
      /\ t.wins = r.wins /\ t.on = r.on /\ t.prev = r.prev /\ t.window = r.window
      /\ t.view = r.view /\ t.modified = r.modified /\ t.fresh = r.fresh
      /\ \A x : Tabs(r, x) \subseteq Tabs(t, x) \/ x = Nothing
      /\ \A x : ViewsOf(r, x) \subseteq ViewsOf(t, x) \/ x = Nothing
      /\ ViewIn(t, w, b) \in Tabs(t, w) \cap ViewsOf(t, b)
      /\ ViewIn(t, w, b) \in Unused(r)
  BY <1>1, <1>2, <1>3, <1>4, <1>5, <1>6, AddViewAdds
<1>8. Grows(s, t)
  BY <1>3, <1>7, PlacesKept DEF Grows
<1>9. Owned(t)
  BY <1>1, <1>2, <1>7, <1>8 DEF Owned, Grows, Loose, EdTypes
<1> QED
  BY <1>2, <1>3, <1>7, <1>8, <1>9, PlacesKept, NothingIsNone DEF Added, Loose

\* window_open_buffer
LEMMA OpenBufferAdds ==
  ASSUME NEW s, Loose(s), NEW w \in s.wins, NEW b \in Files, NEW n \in Sizes,
         NEW at \in Views \cup {Nothing}, Room(s, w, b),
         NEW t, t = OpenBuffer(s, w, b, n, at)
  PROVE  Added(s, t, w, b) /\ t.fresh = s.fresh /\ (t = s \/ ViewIn(t, w, b) \in Unused(s))
<1>1. b \in Buffers /\ EdTypes(s) /\ Linked(s) /\ Once(s) /\ n \in 0..MaxLen /\ w \in Windows
  BY NothingIsNone, BoundsAssumption DEF Loose, EdTypes
<1>2. CASE Tabs(s, w) \cap ViewsOf(s, b) # {}
  <2>1. t = s
    <3>1. Exists(s, b)
      BY <1>2 DEF Exists
    <3> QED
      BY <1>2, <3>1, Zenon DEF OpenBuffer
  <2>2. ViewIn(s, w, b) \in Tabs(s, w) \cap ViewsOf(s, b)
    BY <1>2 DEF ViewIn
  <2> QED
    BY <1>2, <2>1, <2>2 DEF Added, Grows, Exists
<1>3. CASE Tabs(s, w) \cap ViewsOf(s, b) = {} /\ ~Exists(s, b)
  <2> DEFINE r == [s EXCEPT !.len[b] = n]
  <2>1. /\ EdTypes(r)
        /\ r.views = s.views /\ r.wins = s.wins /\ r.on = s.on /\ r.prev = s.prev
        /\ r.window = s.window /\ r.view = s.view /\ r.modified = s.modified
        /\ r.fresh = s.fresh
    <3>1. [s.len EXCEPT ![b] = n] \in [Buffers -> 0..MaxLen]
      BY <1>1 DEF EdTypes
    <3>2. r = [s EXCEPT !.len = [s.len EXCEPT ![b] = n]]
      BY <1>1 DEF EdTypes
    <3> HIDE DEF r
    <3> QED
      BY <1>1, <3>1, <3>2 DEF EdTypes
  <2> HIDE DEF r
  <2>2. SamePlaces(s, r) /\ Unused(r) = Unused(s) /\ Unused(r) # {}
    BY <1>3, <2>1 DEF SamePlaces, Unused, Room
  <2>3. Linked(r) /\ Once(r)
    BY <1>1, <2>1, <2>2, PlacesKept DEF Linked
  <2>4. Tabs(r, w) \cap ViewsOf(r, b) = {}
    BY <1>3, <2>2, PlacesKept
  <2>5. t = AddView(r, w, b, Nothing) /\ w \in r.wins
    BY <1>3, <2>1 DEF OpenBuffer, r
  <2>6. /\ EdTypes(t) /\ Linked(t) /\ Once(t) /\ Grows(r, t) /\ Exists(t, b)
        /\ t.wins = r.wins /\ t.on = r.on /\ t.prev = r.prev /\ t.window = r.window
        /\ t.view = r.view /\ t.modified = r.modified /\ t.fresh = r.fresh
        /\ \A x : Tabs(r, x) \subseteq Tabs(t, x) \/ x = Nothing
        /\ \A x : ViewsOf(r, x) \subseteq ViewsOf(t, x) \/ x = Nothing
        /\ ViewIn(t, w, b) \in Tabs(t, w) \cap ViewsOf(t, b)
        /\ ViewIn(t, w, b) \in Unused(r)
    BY <1>1, <2>1, <2>2, <2>3, <2>4, <2>5, AddViewAdds
  <2>7. Grows(s, t)
    BY <2>2, <2>6, PlacesKept DEF Grows
  <2>8. Owned(t)
    BY <1>1, <2>1, <2>6, <2>7 DEF Owned, Grows, Loose, EdTypes
  <2> QED
    BY <2>1, <2>2, <2>6, <2>7, <2>8, PlacesKept, NothingIsNone DEF Added, Loose
<1>4. CASE Tabs(s, w) \cap ViewsOf(s, b) = {} /\ Exists(s, b)
  <2>1. t = AddView(s, w, b, at) /\ Unused(s) # {}
    BY <1>4 DEF OpenBuffer, Room
  <2>2. /\ EdTypes(t) /\ Linked(t) /\ Once(t) /\ Grows(s, t) /\ Exists(t, b)
        /\ t.wins = s.wins /\ t.on = s.on /\ t.prev = s.prev /\ t.window = s.window
        /\ t.view = s.view /\ t.modified = s.modified /\ t.fresh = s.fresh
        /\ \A x : Tabs(s, x) \subseteq Tabs(t, x) \/ x = Nothing
        /\ \A x : ViewsOf(s, x) \subseteq ViewsOf(t, x) \/ x = Nothing
        /\ ViewIn(t, w, b) \in Tabs(t, w) \cap ViewsOf(t, b)
        /\ ViewIn(t, w, b) \in Unused(s)
    BY <1>1, <1>4, <2>1, AddViewAdds
  <2>3. Owned(t)
    BY <1>1, <2>2 DEF Owned, Grows, Loose, EdTypes
  <2> QED
    BY <2>2, <2>3, NothingIsNone DEF Added, Loose
<1> QED
  BY <1>2, <1>3, <1>4

LEMMA AddedIsSound ==
  ASSUME NEW s, Sound(s), NEW t, NEW w, NEW b, Added(s, t, w, b)
  PROVE  Sound(t)
  BY DEF Sound, Showing, Added, Loose, EdTypes

\* window_remove_view_at_index
LEMMA RemoveViewRemoves ==
  ASSUME NEW s, Loose(s), NEW w \in s.wins, NEW v \in Tabs(s, w),
         NEW t, t = RemoveView(s, v)
  PROVE  /\ Loose(t)
         /\ t.wins = s.wins /\ t.on = s.on /\ t.window = s.window
         /\ t.view = (IF s.view = v THEN Nothing ELSE s.view)
         /\ \A x \in Windows : Tabs(t, x) = Tabs(s, x) \ {v}
         /\ \A b \in Buffers : Exists(s, b) /\ ViewsOf(s, b) # {v} => Exists(t, b)
         /\ \A b \in Buffers : Exists(t, b) => Exists(s, b)
         /\ t.modified \subseteq s.modified
         /\ Unused(t) # {}
<1> DEFINE b == s.views[v].buf
           last == ViewsOf(s, b) = {v}
           prev == [s.prev EXCEPT ![w] = IF @ = v THEN Nothing ELSE @]
           modified == IF last THEN s.modified \ {b} ELSE s.modified
           fresh == IF last THEN s.fresh \ {b} ELSE s.fresh
           view == IF s.view = v THEN Nothing ELSE s.view
           views == [s.views EXCEPT ![v] = NoView]
<1>1. /\ EdTypes(s) /\ Linked(s) /\ Once(s) /\ Owned(s) /\ w \in Windows
      /\ v \in Views /\ s.views[v].win = w /\ b \in Buffers
  <2>1. EdTypes(s) /\ Linked(s) /\ Once(s) /\ Owned(s) /\ w \in Windows
    BY DEF Loose, EdTypes
  <2> QED
    BY <2>1, TabIs
<1>2. t = [s EXCEPT !.prev = prev, !.view = view, !.views = views,
                    !.modified = modified, !.fresh = fresh]
  BY <1>1 DEF RemoveView, EdTypes
<1>3. /\ prev \in [Windows -> Views \cup {Nothing}] /\ view \in Views \cup {Nothing}
      /\ views \in [Views -> ViewRecs \cup {NoView}]
      /\ modified \in SUBSET Buffers /\ fresh \in SUBSET Buffers
  BY <1>1 DEF EdTypes
<1>4. /\ \A x \in Windows : prev[x] = IF x = w /\ s.prev[w] = v THEN Nothing ELSE s.prev[x]
      /\ \A u \in Views : views[u] = IF u = v THEN NoView ELSE s.views[u]
      /\ modified \subseteq s.modified /\ fresh \subseteq s.fresh
      /\ last => b \notin modified /\ b \notin fresh
  BY <1>1 DEF EdTypes
<1> HIDE DEF prev, modified, fresh, view, views
<1>5. /\ EdTypes(t)
      /\ t.wins = s.wins /\ t.on = s.on /\ t.window = s.window /\ t.view = view
      /\ t.prev = prev /\ t.views = views /\ t.modified = modified /\ t.fresh = fresh
  BY <1>1, <1>2, <1>3 DEF EdTypes
<1>6. \A x \in Windows : Tabs(t, x) = Tabs(s, x) \ {v}
  BY <1>4, <1>5, NothingIsNone DEF Tabs, NoView
<1>7. \A c \in Buffers : ViewsOf(t, c) = ViewsOf(s, c) \ {v}
  BY <1>4, <1>5, NothingIsNone DEF ViewsOf, NoView
<1>8. \A c \in Buffers :
        /\ Exists(s, c) /\ ViewsOf(s, c) # {v} => Exists(t, c)
        /\ Exists(t, c) => Exists(s, c)
  BY <1>7 DEF Exists
<1>9. Linked(t)
  <2>1. s.wins \subseteq Windows
    BY <1>1 DEF EdTypes
  <2>2. \A x \in Windows : x # w => v \notin Tabs(s, x)
    BY <1>1 DEF Tabs
  <2>3. \A x \in s.wins : prev[x] # Nothing => prev[x] \in Tabs(t, x)
    BY <1>1, <1>4, <1>6, <2>1, <2>2 DEF Linked
  <2>4. \A x \in Windows \ s.wins : Tabs(t, x) = {} /\ prev[x] = Nothing /\ s.on[x] = Nothing
    BY <1>1, <1>4, <1>6 DEF Linked
  <2> QED
    BY <1>5, <2>3, <2>4 DEF Linked
<1>10. Once(t)
  BY <1>1, <1>4, <1>5, NothingIsNone DEF Once, NoView
<1>11. Owned(t)
  <2>1. \A c \in modified \cup fresh : c \in Buffers /\ Exists(s, c)
    BY <1>1, <1>4 DEF Owned, EdTypes
  <2>2. \A c \in Buffers : ViewsOf(s, c) = {v} => c = b
    BY DEF ViewsOf
  <2>3. \A c \in modified \cup fresh : ViewsOf(s, c) # {v}
    BY <1>4, <2>1, <2>2
  <2>4. \A c \in modified \cup fresh : Exists(t, c)
    BY <1>8, <2>1, <2>3
  <2> QED
    BY <1>1, <1>4, <1>5, <2>4 DEF Owned
<1>12. v \in Unused(t)
  BY <1>1, <1>4, <1>5 DEF Unused
<1> QED
  BY <1>4, <1>5, <1>6, <1>8, <1>9, <1>10, <1>11, <1>12 DEF Loose, view

\* window_remove_views
LEMMA RemoveViewsRemoves ==
  ASSUME NEW s, Loose(s), NEW w \in s.wins, NEW t, t = RemoveViews(s, w)
  PROVE  /\ Loose(t)
         /\ t.wins = s.wins /\ t.on = s.on /\ t.window = s.window
         /\ t.view = (IF s.view \in Tabs(s, w) THEN Nothing ELSE s.view)
         /\ Tabs(t, w) = {} /\ t.prev[w] = Nothing
         /\ \A x \in Windows : x # w => Tabs(t, x) = Tabs(s, x)
         /\ \A b \in Buffers : Exists(s, b) /\ ~(ViewsOf(s, b) \subseteq Tabs(s, w)) => Exists(t, b)
         /\ \A b \in Buffers : Exists(t, b) => Exists(s, b)
         /\ t.modified \subseteq s.modified
         /\ Tabs(s, w) # {} => Unused(t) # {}
<1> DEFINE gone == {b \in Buffers : Exists(s, b) /\ ViewsOf(s, b) \subseteq Tabs(s, w)}
           prev == [s.prev EXCEPT ![w] = Nothing]
           view == IF s.view \in Tabs(s, w) THEN Nothing ELSE s.view
           views == [v \in Views |-> IF v \in Tabs(s, w) THEN NoView ELSE s.views[v]]
<1>1. EdTypes(s) /\ Linked(s) /\ Once(s) /\ Owned(s) /\ w \in Windows /\ s.wins \subseteq Windows
  BY DEF Loose, EdTypes
<1>2. t = [s EXCEPT !.prev = prev, !.view = view, !.views = views,
                    !.modified = s.modified \ gone, !.fresh = s.fresh \ gone]
  BY <1>1 DEF RemoveViews, EdTypes
<1>3. /\ prev \in [Windows -> Views \cup {Nothing}] /\ view \in Views \cup {Nothing}
      /\ views \in [Views -> ViewRecs \cup {NoView}]
      /\ s.modified \ gone \in SUBSET Buffers /\ s.fresh \ gone \in SUBSET Buffers
  BY <1>1 DEF EdTypes
<1>4. /\ \A x \in Windows : prev[x] = IF x = w THEN Nothing ELSE s.prev[x]
      /\ \A u \in Views : views[u] = IF u \in Tabs(s, w) THEN NoView ELSE s.views[u]
  BY <1>1 DEF EdTypes
<1>5. \A b \in Buffers : b \in gone <=> (Exists(s, b) /\ ViewsOf(s, b) \subseteq Tabs(s, w))
  OBVIOUS
<1> HIDE DEF prev, view, views, gone
<1>6. /\ EdTypes(t)
      /\ t.wins = s.wins /\ t.on = s.on /\ t.window = s.window /\ t.view = view
      /\ t.prev = prev /\ t.views = views
      /\ t.modified = s.modified \ gone /\ t.fresh = s.fresh \ gone
  BY <1>1, <1>2, <1>3 DEF EdTypes
<1>7. \A x \in Windows : Tabs(t, x) = IF x = w THEN {} ELSE Tabs(s, x)
  BY <1>4, <1>6, NothingIsNone DEF Tabs, NoView
<1>8. \A c \in Buffers : ViewsOf(t, c) = ViewsOf(s, c) \ Tabs(s, w)
  BY <1>4, <1>6, NothingIsNone DEF ViewsOf, NoView
<1>9. \A c \in Buffers :
        /\ Exists(s, c) /\ ~(ViewsOf(s, c) \subseteq Tabs(s, w)) => Exists(t, c)
        /\ Exists(t, c) => Exists(s, c)
  BY <1>8 DEF Exists
<1>10. Linked(t)
  BY <1>1, <1>4, <1>6, <1>7 DEF Linked
<1>11. Once(t)
  BY <1>1, <1>4, <1>6, NothingIsNone DEF Once, NoView
<1>12. Owned(t)
  <2>1. \A c \in t.modified \cup t.fresh : c \in Buffers /\ Exists(s, c) /\ c \notin gone
    BY <1>1, <1>6 DEF Owned, EdTypes
  <2>2. \A c \in t.modified \cup t.fresh : Exists(t, c)
    BY <1>5, <1>9, <2>1
  <2> QED
    BY <1>1, <1>6, <2>2 DEF Owned
<1>13. Tabs(s, w) # {} => Unused(t) # {}
  BY <1>4, <1>6 DEF Unused, Tabs
<1> QED
  BY <1>1, <1>4, <1>6, <1>7, <1>9, <1>10, <1>11, <1>12, <1>13 DEF Loose, view

WithViews(s, views) == [s EXCEPT !.views = views]

\* What is left when only what is known of the Views' cursors changes
LEMMA NewCursors ==
  ASSUME NEW s, EdTypes(s), NEW views \in [Views -> ViewRecs \cup {NoView}],
         \A v \in Views : views[v].buf = s.views[v].buf /\ views[v].win = s.views[v].win,
         NEW t, t = WithViews(s, views)
  PROVE  /\ EdTypes(t) /\ SamePlaces(s, t) /\ Grows(s, t)
         /\ Loose(s) => Loose(t)
         /\ Sound(s) => Sound(t)
         /\ t.modified = s.modified /\ t.fresh = s.fresh /\ t.views = views /\ t.len = s.len
         /\ t.view = s.view
<1>1. /\ t.views = views /\ t.wins = s.wins /\ t.on = s.on /\ t.prev = s.prev
      /\ t.window = s.window /\ t.view = s.view /\ t.len = s.len /\ t.modified = s.modified
      /\ t.fresh = s.fresh
  BY DEF EdTypes, WithViews
<1>2. EdTypes(t)
  BY DEF EdTypes, WithViews
<1>3. SamePlaces(s, t)
  BY <1>1 DEF SamePlaces
<1>4. Loose(s) => Loose(t)
  BY <1>1, <1>2, <1>3, PlacesKept DEF Loose, Linked, Owned
<1>5. Sound(s) => Sound(t)
  BY <1>1, <1>3, <1>4, PlacesKept DEF Sound, Showing
<1> QED
  BY <1>1, <1>2, <1>3, <1>4, <1>5, PlacesKept

LEMMA RestoredIsView ==
  ASSUME NEW s, EdTypes(s), NEW v \in Views, s.views[v] \in ViewRecs
  PROVE  /\ Restored(s, v) \in ViewRecs
         /\ Restored(s, v).buf = s.views[v].buf /\ Restored(s, v).win = s.views[v].win
<1> DEFINE rec == s.views[v]
           cur == IF rec.restore THEN GotoOffset(s, v, rec.saved) ELSE rec.cur
           saved == IF rec.restore THEN 0 ELSE rec.saved
<1>1. s.len[rec.buf] \in 0..MaxLen /\ rec.saved \in Nat /\ rec.cur \in 0..MaxLen
  BY DEF EdTypes, ViewRecs
<1>2. cur \in 0..MaxLen /\ cur \in Nat /\ saved \in Nat
  BY <1>1, BoundsAssumption DEF GotoOffset
<1>3. Restored(s, v) = [rec EXCEPT !.cur = cur, !.restore = FALSE, !.saved = saved, !.mark = cur]
  BY DEF Restored
<1> HIDE DEF cur, saved
<1> QED
  BY <1>2, <1>3 DEF ViewRecs

\* The state that set_view starts from: window w may still show what is gone.
Ready(s, w) ==
  Loose(s) /\ w \in s.wins /\ Showing(s, s.wins \ {w})

\* set_view
LEMMA SetViewSets ==
  ASSUME NEW s, NEW w, Ready(s, w), NEW v \in Tabs(s, w), s.view = v => Sound(s),
         NEW t, t = SetView(s, v)
  PROVE  /\ Sound(t) /\ SamePlaces(s, t) /\ Grows(s, t)
         /\ t.wins = s.wins /\ t.modified = s.modified /\ t.fresh = s.fresh
         /\ t.view = v /\ t.window = w /\ t.on[w] = v
<1>1. /\ EdTypes(s) /\ Linked(s) /\ Once(s) /\ Owned(s)
      /\ w \in s.wins /\ w \in Windows /\ s.wins \subseteq Windows
  BY DEF Ready, Loose, EdTypes
<1>2. v \in Views /\ s.views[v].win = w /\ s.views[v].buf \in Buffers /\ s.views[v] \in ViewRecs
  BY <1>1, TabIs
<1>3. CASE s.view = v
  <2>1. t = s /\ Sound(s)
    BY <1>3 DEF SetView
  <2>2. s.window \in s.wins /\ v = s.on[s.window] /\ s.on[s.window] \in Tabs(s, s.window)
    BY <1>3, <2>1 DEF Sound, Showing
  <2>3. s.window = w
    BY <1>2, <2>2 DEF Tabs
  <2> QED
    BY <1>3, <2>1, <2>2, <2>3 DEF SamePlaces, Grows
<1>4. CASE s.view # v
  <2> DEFINE b == s.views[v].buf
             prev == IF s.window = Nothing THEN s.prev ELSE [s.prev EXCEPT ![s.window] = Nothing]
             on == [s.on EXCEPT ![w] = v]
             views == [u \in Views |->
                        CASE u = v -> Restored(s, v)
                          [] u # v /\ s.views[u].buf = b ->
                               [s.views[u] EXCEPT !.saved = s.views[u].cur, !.restore = TRUE]
                          [] OTHER -> s.views[u]]
  <2>1. t = [s EXCEPT !.prev = prev, !.view = v, !.window = w, !.on = on, !.views = views]
    BY <1>1, <1>2, <1>4 DEF SetView, EdTypes
  <2>2. /\ prev \in [Windows -> Views \cup {Nothing}]
        /\ \A x \in Windows : prev[x] = Nothing \/ prev[x] = s.prev[x]
    BY <1>1 DEF EdTypes
  <2>3. /\ on \in [Windows -> Views \cup {Nothing}]
        /\ \A x \in Windows : on[x] = IF x = w THEN v ELSE s.on[x]
    BY <1>1, <1>2 DEF EdTypes
  <2>4. \A u \in Views :
          /\ views[u] \in ViewRecs \cup {NoView}
          /\ views[u].buf = s.views[u].buf /\ views[u].win = s.views[u].win
    <3> SUFFICES ASSUME NEW u \in Views
                 PROVE  /\ views[u] \in ViewRecs \cup {NoView}
                        /\ views[u].buf = s.views[u].buf /\ views[u].win = s.views[u].win
      OBVIOUS
    <3>1. CASE u = v
      BY <1>1, <1>2, <3>1, RestoredIsView
    <3>2. CASE u # v /\ s.views[u].buf = b
      <4>1. s.views[u] \in ViewRecs /\ s.views[u].cur \in Nat
        BY <1>1, <1>2, <3>2, ViewTypes, NothingIsNone, BoundsAssumption
      <4>2. views[u] = [s.views[u] EXCEPT !.saved = s.views[u].cur, !.restore = TRUE]
        BY <3>2
      <4> HIDE DEF views
      <4> QED
        BY <4>1, <4>2 DEF ViewRecs
    <3>3. CASE u # v /\ s.views[u].buf # b
      BY <1>1, <3>3, ViewTypes
    <3> QED
      BY <3>1, <3>2, <3>3
  <2>5. views \in [Views -> ViewRecs \cup {NoView}]
    BY <2>4
  <2> HIDE DEF prev, on, views
  <2>6. /\ EdTypes(t)
        /\ t.wins = s.wins /\ t.on = on /\ t.prev = prev /\ t.window = w /\ t.view = v
        /\ t.views = views /\ t.modified = s.modified /\ t.fresh = s.fresh
    BY <1>1, <1>2, <2>1, <2>2, <2>3, <2>5 DEF EdTypes
  <2>7. SamePlaces(s, t)
    BY <2>4, <2>6 DEF SamePlaces
  <2>8. Linked(t)
    BY <1>1, <2>2, <2>3, <2>6, <2>7, PlacesKept DEF Linked
  <2>9. Owned(t)
    BY <1>1, <2>6, <2>7, PlacesKept DEF Owned
  <2>10. Showing(t, t.wins)
    <3>1. \A x \in s.wins \ {w} : s.on[x] \in Tabs(s, x)
      BY DEF Ready, Showing
    <3> QED
      BY <1>1, <2>3, <2>6, <2>7, <3>1, PlacesKept DEF Showing
  <2> QED
    BY <1>1, <2>3, <2>6, <2>7, <2>8, <2>9, <2>10, PlacesKept DEF Sound, Loose
<1> QED
  BY <1>3, <1>4

\* A state of which only prev_view of a window changes, to one of its tabs
LEMMA NewPrev ==
  ASSUME NEW s, Sound(s), NEW w \in s.wins, NEW prev \in Tabs(s, w) \cup {Nothing},
         prev \in Views \cup {Nothing},
         NEW t, t = [s EXCEPT !.prev[w] = prev]
  PROVE  Sound(t) /\ SamePlaces(s, t) /\ Grows(s, t) /\ t.modified = s.modified
<1> DEFINE p == [s.prev EXCEPT ![w] = prev]
<1>1. EdTypes(s) /\ w \in Windows /\ Linked(s)
  BY DEF Sound, Loose, EdTypes
<1>2. t = [s EXCEPT !.prev = p]
  BY <1>1 DEF EdTypes
<1>3. /\ p \in [Windows -> Views \cup {Nothing}]
      /\ \A x \in Windows : p[x] = IF x = w THEN prev ELSE s.prev[x]
  BY <1>1 DEF EdTypes
<1> HIDE DEF p
<1>4. /\ EdTypes(t)
      /\ t.wins = s.wins /\ t.on = s.on /\ t.prev = p /\ t.window = s.window
      /\ t.view = s.view /\ t.views = s.views /\ t.modified = s.modified /\ t.fresh = s.fresh
  BY <1>1, <1>2, <1>3 DEF EdTypes
<1>5. SamePlaces(s, t)
  BY <1>4 DEF SamePlaces
<1>6. Linked(t)
  <2>1. s.wins \subseteq Windows
    BY <1>1 DEF EdTypes
  <2> QED
    BY <1>1, <1>3, <1>4, <1>5, <2>1, PlacesKept DEF Linked
<1> QED
  BY <1>4, <1>5, <1>6, PlacesKept DEF Sound, Loose, Owned, Showing

-----------------------------------------------------------------------------
(* Functions that compose them *)

\* maybe_set_view: it only removes a Buffer that nothing was typed into.
LEMMA MaybeSetViewSets ==
  ASSUME NEW s, NEW w, Ready(s, w), NEW v \in Tabs(s, w), NEW prev \in Tabs(s, w) \cup {Nothing},
         s.view = v \/ v = prev => Sound(s),
         NEW setPrev \in BOOLEAN, NEW t, t = MaybeSetView(s, w, v, prev, setPrev)
  PROVE  Sound(t) /\ \A b \in s.modified : Exists(t, b)
<1> DEFINE u == SetView(s, v)
<1>1. /\ Sound(u) /\ SamePlaces(s, u) /\ Grows(s, u)
      /\ u.wins = s.wins /\ u.modified = s.modified /\ u.fresh = s.fresh
      /\ u.view = v /\ u.window = w /\ u.on[w] = v
  BY SetViewSets
<1>2. /\ EdTypes(s) /\ Owned(s) /\ w \in s.wins /\ w \in Windows /\ s.wins \subseteq Windows
      /\ s.modified \subseteq Buffers /\ Loose(s)
  BY DEF Ready, Loose, EdTypes
<1>3. prev \in Views \cup {Nothing}
  BY DEF Tabs
<1>4. \A b \in s.modified : Exists(s, b) /\ Exists(u, b)
  BY <1>1, <1>2 DEF Owned, Grows
<1> HIDE DEF u
<1>5. CASE v = prev
  <2>1. t = s
    BY <1>5, Zenon DEF MaybeSetView
  <2> QED
    BY <1>4, <1>5, <2>1
<1>6. CASE v # prev /\ prev # Nothing /\ IsUseless(s, w, prev)
  <2>1. t = RemoveView(u, prev)
    BY <1>6, Zenon DEF MaybeSetView, u
  <2>2. prev \in Tabs(u, w) /\ Loose(u) /\ w \in u.wins
    BY <1>1, <1>2, <1>6, PlacesKept DEF Sound
  <2>3. /\ Loose(t)
        /\ t.wins = u.wins /\ t.on = u.on /\ t.window = u.window
        /\ t.view = (IF u.view = prev THEN Nothing ELSE u.view)
        /\ \A x \in Windows : Tabs(t, x) = Tabs(u, x) \ {prev}
        /\ \A b \in Buffers : Exists(u, b) /\ ViewsOf(u, b) # {prev} => Exists(t, b)
    BY <2>1, <2>2, RemoveViewRemoves
  <2>4. \A x \in Windows : x # w => prev \notin Tabs(u, x)
    BY <2>2 DEF Tabs
  <2>5. Showing(t, t.wins)
    BY <1>1, <1>2, <1>6, <2>3, <2>4 DEF Showing, Sound
  <2>6. Sound(t)
    BY <1>1, <1>6, <2>3, <2>5 DEF Sound
  <2>7. s.views[prev].buf \in s.fresh
    BY <1>6 DEF IsUseless
  <2>8. \A b \in s.modified : prev \notin ViewsOf(u, b)
    BY <1>1, <1>2, <2>7, PlacesKept DEF ViewsOf, Owned
  <2> QED
    BY <1>2, <1>4, <2>3, <2>6, <2>8
<1>7. CASE v # prev /\ ~(prev # Nothing /\ IsUseless(s, w, prev))
  <2>1. t = IF setPrev THEN [u EXCEPT !.prev[w] = prev] ELSE u
    BY <1>7, Zenon DEF MaybeSetView, u
  <2>2. prev \in Tabs(u, w) \cup {Nothing} /\ w \in u.wins
    BY <1>1, <1>2, PlacesKept
  <2>3. LET r == [u EXCEPT !.prev[w] = prev] IN Sound(r) /\ Grows(u, r)
    BY <1>1, <1>3, <2>2, NewPrev
  <2> QED
    BY <1>1, <1>2, <1>4, <2>1, <2>3 DEF Grows
<1> QED
  BY <1>5, <1>6, <1>7

LEMMA AddedIsReady ==
  ASSUME NEW s, NEW w, Ready(s, w), NEW t, NEW b, Added(s, t, w, b)
  PROVE  Ready(t, w)
<1>1. s.wins \subseteq Windows
  BY DEF Ready, Loose, EdTypes
<1> QED
  BY <1>1 DEF Ready, Added, Showing

LEMMA SoundIsReady ==
  ASSUME NEW s, Sound(s), NEW w \in s.wins
  PROVE  /\ Ready(s, w) /\ s.on[w] \in Tabs(s, w)
         /\ s.view \in Tabs(s, s.window) /\ s.view \in Views /\ s.view \notin Unused(s)
         /\ s.window \in Windows /\ Loose(s) /\ EdTypes(s) /\ s.wins \subseteq Windows
<1>1. EdTypes(s) /\ s.wins \subseteq Windows /\ s.window \in Windows /\ Loose(s)
  BY DEF Sound, Loose, EdTypes
<1>2. s.view \in Tabs(s, s.window) /\ s.on[w] \in Tabs(s, w)
  BY DEF Sound, Showing
<1>3. s.view \in Views /\ s.view \notin Unused(s)
  BY <1>1, <1>2, TabIs DEF Unused
<1> QED
  BY <1>1, <1>2, <1>3 DEF Ready, Sound, Showing

\* window_open_empty_buffer and set_view
LEMMA EmptyIsShown ==
  ASSUME NEW s, NEW w, Ready(s, w), NEW b \in Empties, ~Exists(s, b), Unused(s) # {},
         s.view \notin Unused(s),
         NEW r, r = OpenEmpty(s, w, b), NEW t, t = SetView(r, ViewIn(r, w, b))
  PROVE  /\ Sound(t) /\ Grows(s, t) /\ t.modified = s.modified
         /\ t.wins = s.wins /\ Tabs(s, w) \subseteq Tabs(t, w)
<1>1. Loose(s) /\ w \in s.wins /\ w \in Windows
  BY DEF Ready, Loose, EdTypes
<1>2. Added(s, r, w, b) /\ ViewIn(r, w, b) \in Unused(s)
  BY <1>1, OpenEmptyAdds
<1>3. Ready(r, w) /\ ViewIn(r, w, b) \in Tabs(r, w) /\ r.view # ViewIn(r, w, b)
  BY <1>2, AddedIsReady DEF Added
<1>4. /\ Sound(t) /\ SamePlaces(r, t) /\ Grows(r, t) /\ t.wins = r.wins
      /\ t.modified = r.modified
  BY <1>3, SetViewSets
<1> QED
  BY <1>1, <1>2, <1>4, PlacesKept DEF Added, Grows

\* window_open_new_file
LEMMA NewFileIsShown ==
  ASSUME NEW s, NEW w, Ready(s, w), NEW b \in Empties, ~Exists(s, b), Unused(s) # {},
         s.view \notin Unused(s), s.on[w] \in Tabs(s, w) \cup {Nothing},
         NEW t, t = OpenNewFile(s, w, b)
  PROVE  Sound(t) /\ Grows(s, t)
<1> DEFINE r == OpenEmpty(s, w, b)
           u == SetView(r, ViewIn(r, w, b))
<1>1. /\ Sound(u) /\ Grows(s, u) /\ u.wins = s.wins /\ Tabs(s, w) \subseteq Tabs(u, w)
  BY EmptyIsShown
<1>2. t = [u EXCEPT !.prev[w] = s.on[w]]
  BY DEF OpenNewFile
<1>3. /\ s.on[w] \in Tabs(u, w) \cup {Nothing} /\ s.on[w] \in Views \cup {Nothing}
      /\ w \in u.wins
  BY <1>1 DEF Ready, Tabs
<1> HIDE DEF u
<1>4. Sound(t) /\ Grows(u, t)
  BY <1>1, <1>2, <1>3, NewPrev
<1> QED
  BY <1>1, <1>4 DEF Grows

\* What closing window w leaves, but for the Buffers that are only shown there
LeavesOthers(s, w, t) ==
  \A b \in Buffers : Exists(s, b) /\ ~(ViewsOf(s, b) \subseteq Tabs(s, w)) => Exists(t, b)

LEMMA OnlyWindowCloses ==
  ASSUME NEW s, Sound(s), NEW w, s.wins = {w}, NEW b \in Empties, ~Exists(s, b),
         NEW t, t = CloseOnly(s, w, b)
  PROVE  Sound(t) /\ LeavesOthers(s, w, t)
<1> DEFINE q == RemoveViews(s, w)
           r == OpenEmpty(q, w, b)
<1>1. w \in s.wins /\ Loose(s) /\ s.view \in Tabs(s, w) /\ b \in Buffers
  BY SoundIsReady, NothingIsNone DEF Sound
<1>2. /\ Loose(q) /\ q.wins = s.wins
      /\ q.view = (IF s.view \in Tabs(s, w) THEN Nothing ELSE s.view)
      /\ \A c \in Buffers : Exists(s, c) /\ ~(ViewsOf(s, c) \subseteq Tabs(s, w)) => Exists(q, c)
      /\ \A c \in Buffers : Exists(q, c) => Exists(s, c)
      /\ Tabs(s, w) # {} => Unused(q) # {}
  BY <1>1, RemoveViewsRemoves
<1>3. t = SetView(r, ViewIn(r, w, b))
  BY DEF CloseOnly
<1> HIDE DEF q
<1>4. Ready(q, w) /\ ~Exists(q, b) /\ Unused(q) # {} /\ q.view \notin Unused(q)
  BY <1>1, <1>2, NothingIsNone DEF Ready, Showing, Unused
<1>5. Sound(t) /\ Grows(q, t)
  BY <1>3, <1>4, EmptyIsShown
<1> QED
  BY <1>2, <1>5 DEF LeavesOthers, Grows

LEMMA WindowCloses ==
  ASSUME NEW s, Sound(s), NEW w, w = s.window, NEW next \in s.wins \ {w},
         NEW t, t = CloseWindow(s, w, next)
  PROVE  Sound(t) /\ LeavesOthers(s, w, t)
<1> DEFINE q == RemoveViews(s, w)
           on == [q.on EXCEPT ![w] = Nothing]
           r == [q EXCEPT !.on[w] = Nothing, !.wins = @ \ {w}, !.window = Nothing]
<1>1. /\ w \in s.wins /\ w \in Windows /\ next \in s.wins /\ next \in Windows
      /\ Loose(s) /\ s.view \in Tabs(s, w) /\ s.wins \subseteq Windows
      /\ \A x \in s.wins : s.on[x] \in Tabs(s, x)
  BY SoundIsReady DEF Sound
<1>2. /\ Loose(q) /\ q.wins = s.wins /\ q.on = s.on
      /\ q.view = (IF s.view \in Tabs(s, w) THEN Nothing ELSE s.view)
      /\ Tabs(q, w) = {} /\ q.prev[w] = Nothing
      /\ \A x \in Windows : x # w => Tabs(q, x) = Tabs(s, x)
      /\ \A c \in Buffers : Exists(s, c) /\ ~(ViewsOf(s, c) \subseteq Tabs(s, w)) => Exists(q, c)
  BY <1>1, RemoveViewsRemoves
<1>3. t = SetView(r, q.on[next])
  BY DEF CloseWindow
<1> HIDE DEF q
<1>4. EdTypes(q) /\ Linked(q) /\ Once(q) /\ Owned(q)
  BY <1>2 DEF Loose
<1>5. r = [q EXCEPT !.on = on, !.wins = q.wins \ {w}, !.window = Nothing]
  BY <1>4 DEF EdTypes
<1>6. /\ on \in [Windows -> Views \cup {Nothing}]
      /\ \A x \in Windows : on[x] = IF x = w THEN Nothing ELSE q.on[x]
  BY <1>1, <1>4 DEF EdTypes
<1> HIDE DEF on, r
<1>7. /\ EdTypes(r)
      /\ r.wins = q.wins \ {w} /\ r.on = on /\ r.prev = q.prev /\ r.window = Nothing
      /\ r.view = q.view /\ r.views = q.views /\ r.modified = q.modified /\ r.fresh = q.fresh
  BY <1>4, <1>5, <1>6 DEF EdTypes
<1>8. SamePlaces(q, r)
  BY <1>7 DEF SamePlaces
<1>9. Linked(r)
  BY <1>1, <1>2, <1>4, <1>6, <1>7, <1>8, PlacesKept DEF Linked
<1>10. Loose(r)
  BY <1>4, <1>7, <1>8, <1>9, PlacesKept DEF Loose, Owned
<1>11. Ready(r, next)
  BY <1>1, <1>2, <1>6, <1>7, <1>8, <1>10, PlacesKept DEF Ready, Showing
<1>12. q.on[next] \in Tabs(r, next) /\ r.view # q.on[next]
  <2>1. s.on[next] \in Tabs(q, next) /\ s.on[next] \in Views
    BY <1>1, <1>2 DEF Tabs
  <2> QED
    BY <1>1, <1>2, <1>7, <1>8, <2>1, PlacesKept, NothingIsNone
<1>13. Sound(t) /\ Grows(r, t)
  BY <1>3, <1>11, <1>12, SetViewSets
<1> QED
  BY <1>2, <1>8, <1>13, PlacesKept DEF LeavesOthers, Grows

-----------------------------------------------------------------------------
(* Edits *)

LEMMA FollowIsOffset ==
  ASSUME NEW offset \in Nat, NEW off \in Nat, NEW del \in Nat, NEW ins \in Nat
  PROVE  Follow(offset, off, del, ins) \in Nat
<1>1. CASE offset <= off
  BY <1>1, SMT DEF Follow
<1>2. CASE off < offset /\ off + del <= offset
  <2>1. Follow(offset, off, del, ins) = offset - del + ins
    BY <1>2 DEF Follow
  <2> QED
    BY <1>2, <2>1
<1>3. CASE off < offset /\ ~(off + del <= offset)
  <2>1. Follow(offset, off, del, ins) = off
    BY <1>3 DEF Follow
  <2> QED
    BY <2>1
<1> QED
  BY <1>1, <1>2, <1>3

LEMMA HereIs ==
  ASSUME Sound(ed)
  PROVE  /\ ed.view \in Views /\ ed.views[ed.view] \in ViewRecs
         /\ Here.buf \in Buffers /\ Exists(ed, Here.buf)
         /\ Size \in 0..MaxLen /\ Here.cur \in 0..MaxLen
<1>1. ed.window \in ed.wins
  BY DEF Sound
<1>2. /\ ed.view \in Tabs(ed, ed.window) /\ ed.view \in Views
      /\ ed.window \in Windows /\ EdTypes(ed)
  BY <1>1, SoundIsReady
<1>3. ed.views[ed.view] \in ViewRecs /\ ed.views[ed.view].buf \in Buffers
  BY <1>2, TabIs
<1>4. ed.view \in ViewsOf(ed, Here.buf)
  BY <1>2 DEF ViewsOf, Here
<1> QED
  BY <1>2, <1>3, <1>4 DEF Here, Size, Exists, EdTypes, ViewRecs

\* Views in their places, of which that in use is as it was
StayPut(h) ==
  \A v \in Views :
    /\ h[v] \in ViewRecs \cup {NoView}
    /\ h[v].buf = ed.views[v].buf /\ h[v].win = ed.views[v].win
    /\ v = ed.view => h[v] = ed.views[v]

\* fix_cursors, and the mark that moves with the text, know nothing of places.
LEMMA FixedAre ==
  ASSUME Sound(ed), NEW off \in Nat, NEW del \in Nat, NEW ins \in Nat,
         NEW fixDel \in Nat, NEW fixIns \in Nat
  PROVE  StayPut(Marked(FixCursors(ed, off, fixDel, fixIns), ed, off, del, ins))
<1> SUFFICES ASSUME NEW h, h = Marked(FixCursors(ed, off, fixDel, fixIns), ed, off, del, ins),
                    NEW v \in Views
             PROVE  /\ h[v] \in ViewRecs \cup {NoView}
                    /\ h[v].buf = ed.views[v].buf /\ h[v].win = ed.views[v].win
                    /\ v = ed.view => h[v] = ed.views[v]
  BY DEF StayPut
<1> DEFINE fixed == FixCursors(ed, off, fixDel, fixIns)
           rec == ed.views[v]
           moved == v # ed.view /\ rec.buf = ed.views[ed.view].buf
           s2 == Follow(rec.saved, off, fixDel, fixIns)
           m2 == Follow(rec.mark, off, del, ins)
<1>1. /\ EdTypes(ed) /\ ed.view \in Views /\ ed.views[ed.view] \in ViewRecs
      /\ ed.views[ed.view].buf \in Buffers
  BY HereIs DEF Sound, Loose, Here
<1>2. fixed[v] = IF moved THEN [rec EXCEPT !.saved = s2] ELSE rec
  BY DEF FixCursors
<1>3. fixed[ed.view] = ed.views[ed.view]
  BY <1>1 DEF FixCursors
<1>4. h[v] = IF v # ed.view /\ fixed[v].buf = fixed[ed.view].buf
             THEN [fixed[v] EXCEPT !.mark = Follow(@, off, del, ins)]
             ELSE fixed[v]
  BY DEF Marked
<1> HIDE DEF fixed
<1>5. CASE moved
  <2>1. rec \in ViewRecs /\ rec.saved \in Nat /\ rec.mark \in Nat
    BY <1>1, <1>5, ViewTypes, NothingIsNone
  <2>2. s2 \in Nat /\ m2 \in Nat
    BY <2>1, FollowIsOffset
  <2>3. /\ fixed[v] \in ViewRecs /\ fixed[v].buf = rec.buf /\ fixed[v].win = rec.win
        /\ fixed[v].mark = rec.mark
    <3>1. fixed[v] = [rec EXCEPT !.saved = s2]
      BY <1>2, <1>5
    <3> HIDE DEF s2
    <3> QED
      BY <2>1, <2>2, <3>1 DEF ViewRecs
  <2>4. h[v] = [fixed[v] EXCEPT !.mark = m2]
    BY <1>3, <1>4, <1>5, <2>3
  <2> HIDE DEF m2
  <2> QED
    BY <1>5, <2>2, <2>3, <2>4 DEF ViewRecs
<1>6. CASE ~moved
  <2>1. fixed[v] = rec
    BY <1>2, <1>6
  <2>2. h[v] = rec
    BY <1>3, <1>4, <1>6, <2>1
  <2> QED
    BY <1>1, <2>2, ViewTypes
<1> QED
  BY <1>5, <1>6

\* Only the text, its Views' cursors and what is known of the Buffer differ.
EditsHere(s) ==
  /\ EdTypes(s) /\ SamePlaces(ed, s)
  /\ s.wins = ed.wins /\ s.on = ed.on /\ s.prev = ed.prev /\ s.window = ed.window
  /\ s.view = ed.view /\ s.modified = ed.modified /\ s.fresh = ed.fresh \ {Here.buf}

LEMMA EditedIs ==
  ASSUME Sound(ed), NEW off \in Nat, NEW del \in Nat, NEW ins \in Nat,
         NEW fixDel \in Nat, NEW fixIns \in Nat, NEW cur \in 0..MaxLen,
         Size - del + ins \in 0..MaxLen
  PROVE  EditsHere(Edited(ed, off, del, ins, cur, fixDel, fixIns))
<1> SUFFICES ASSUME NEW s, s = Edited(ed, off, del, ins, cur, fixDel, fixIns)
             PROVE  EditsHere(s)
  OBVIOUS
<1>0. PICK h : h = Marked(FixCursors(ed, off, fixDel, fixIns), ed, off, del, ins)
  OBVIOUS
<1> DEFINE b == ed.views[ed.view].buf
           rec == [[h[ed.view] EXCEPT !.cur = cur] EXCEPT !.mark = cur]
           views == [h EXCEPT ![ed.view] = rec]
           len == [ed.len EXCEPT ![b] = ed.len[b] - del + ins]
           fresh == ed.fresh \ {b}
<1>1. /\ EdTypes(ed) /\ ed.view \in Views /\ ed.views[ed.view] \in ViewRecs /\ b \in Buffers
  BY HereIs DEF Sound, Loose, Here
<1>2. /\ h = [v \in Views |-> h[v]]
      /\ \A v \in Views :
           /\ h[v] \in ViewRecs \cup {NoView}
           /\ h[v].buf = ed.views[v].buf /\ h[v].win = ed.views[v].win
           /\ v = ed.view => h[v] = ed.views[v]
  <2>1. h = [v \in Views |-> h[v]]
    BY <1>0 DEF Marked
  <2>2. StayPut(Marked(FixCursors(ed, off, fixDel, fixIns), ed, off, del, ins))
    BY FixedAre
  <2> QED
    BY <1>0, <2>1, <2>2 DEF StayPut
<1>3. s = [ed EXCEPT !.len = len, !.fresh = fresh, !.views = views]
  <2>1. [h EXCEPT ![ed.view].cur = cur, ![ed.view].mark = cur] = views
    BY <1>1, <1>2
  <2> HIDE DEF views
  <2> QED
    BY <1>0, <1>1, <2>1 DEF Edited, EdTypes
<1>4. cur \in Nat
  BY BoundsAssumption
<1>5. /\ rec \in ViewRecs /\ rec.buf = ed.views[ed.view].buf /\ rec.win = ed.views[ed.view].win
  BY <1>1, <1>2, <1>4 DEF ViewRecs
<1> HIDE DEF rec
<1>6. /\ views \in [Views -> ViewRecs \cup {NoView}]
      /\ \A v \in Views : views[v].buf = ed.views[v].buf /\ views[v].win = ed.views[v].win
  BY <1>1, <1>2, <1>5
<1>7. len \in [Buffers -> 0..MaxLen] /\ fresh \in SUBSET Buffers
  BY <1>1 DEF EdTypes, Size, Here
<1> HIDE DEF views, len, fresh
<1>8. /\ EdTypes(s) /\ s.views = views
      /\ s.wins = ed.wins /\ s.on = ed.on /\ s.prev = ed.prev /\ s.window = ed.window
      /\ s.view = ed.view /\ s.modified = ed.modified /\ s.fresh = fresh
  BY <1>1, <1>3, <1>6, <1>7 DEF EdTypes
<1> QED
  BY <1>6, <1>8 DEF EditsHere, SamePlaces, Here, fresh

WithModified(s, m) == [s EXCEPT !.modified = m]

\* After an edit the Buffer is modified, or saved again.
LEMMA MarkedIsSound ==
  ASSUME Sound(ed), NEW s, EditsHere(s),
         NEW m, m \subseteq ed.modified \cup {Here.buf}, NEW t, t = WithModified(s, m)
  PROVE  Sound(t) /\ Grows(ed, t)
<1>1. /\ Here.buf \in Buffers /\ Exists(ed, Here.buf) /\ EdTypes(ed) /\ Linked(ed)
      /\ Once(ed) /\ Owned(ed)
  BY HereIs DEF Sound, Loose
<1>2. m \in SUBSET Buffers
  BY <1>1 DEF EdTypes
<1>3. /\ EdTypes(t)
      /\ t.wins = ed.wins /\ t.on = ed.on /\ t.prev = ed.prev /\ t.window = ed.window
      /\ t.view = ed.view /\ t.fresh = ed.fresh \ {Here.buf} /\ t.modified = m
      /\ t.views = s.views
  BY <1>2 DEF EditsHere, EdTypes, WithModified
<1>4. SamePlaces(ed, t)
  BY <1>3 DEF EditsHere, SamePlaces
<1>5. Linked(t)
  BY <1>1, <1>3, <1>4, PlacesKept DEF Linked
<1>6. Owned(t)
  BY <1>1, <1>3, <1>4, PlacesKept DEF Owned
<1> QED
  BY <1>1, <1>3, <1>4, <1>5, <1>6, PlacesKept DEF Sound, Loose, Showing

-----------------------------------------------------------------------------
(* The commands *)

\* What a step does to Buffers with unsaved changes
KeepsChanges ==
  \A b \in ed.modified : (~Exists(ed', b) \/ pc' = "exit") => forced'

\* What each command has to establish
Goes == ViewsInv' /\ KeepsChanges

LEMMA RunGoes ==
  ASSUME NEW group, NEW s, NEW full \in BOOLEAN, NEW force \in BOOLEAN,
         ViewsInv, Run(group, s, full, force), Sound(s),
         force \/ \A b \in ed.modified : Exists(s, b)
  PROVE  Goes
<1>1. /\ ed' = s /\ pc' \in {"idle", "update"} /\ all' = (all \/ full) /\ forced' = force
  BY DEF Run
<1>2. Sound(ed') /\ pc' \in {"idle", "update", "exit"} /\ all' \in BOOLEAN /\ forced' \in BOOLEAN
  BY <1>1
<1>3. KeepsChanges
  <2>1. \A b \in ed.modified : force \/ Exists(ed', b)
    BY <1>1
  <2>2. pc' # "exit"
    BY <1>1
  <2> QED
    BY <1>1, <2>1, <2>2, Zenon DEF KeepsChanges
<1>4. Sound(ed)'
  BY <1>2 DEF Sound, Loose, EdTypes, Linked, Once, Owned, Showing, Tabs, Exists, ViewsOf
<1> QED
  BY <1>2, <1>3, <1>4 DEF Goes, ViewsInv

LEMMA ModifiedExist ==
  ASSUME NEW s, Sound(s)
  PROVE  /\ \A b \in s.modified : b \in Buffers /\ Exists(s, b)
         /\ \A t : Grows(s, t) => \A b \in s.modified : Exists(t, b)
  BY DEF Sound, Loose, Owned, EdTypes, Grows

LEMMA SourcesAre ==
  ASSUME NEW b, NEW at \in Sources(ed, b)
  PROVE  at \in Views \cup {Nothing}
  BY DEF Sources, ViewsOf

LEMMA OpenGoes ==
  ASSUME ViewsInv, NEW b \in Files, NEW n \in Sizes, NEW at \in Sources(ed, b), Open(b, n, at)
  PROVE  Goes
<1> DEFINE w == ed.window
           t == OpenBuffer(ed, w, b, n, at)
           v == ViewIn(t, w, b)
           r == MaybeSetView(t, w, v, ed.on[w], t # ed)
<1>1. /\ Sound(ed) /\ w \in ed.wins /\ Loose(ed) /\ w \in Windows /\ ed.on[w] \in Tabs(ed, w)
      /\ at \in Views \cup {Nothing} /\ Room(ed, w, b) /\ Run("open", r, FALSE, FALSE)
  BY SoundIsReady, SourcesAre DEF ViewsInv, Sound, Open
<1>2. Added(ed, t, w, b)
  BY <1>1, OpenBufferAdds
<1>3. Sound(t) /\ w \in t.wins /\ v \in Tabs(t, w) /\ ed.on[w] \in Tabs(t, w) /\ t.modified = ed.modified
  BY <1>1, <1>2, AddedIsSound DEF Added
<1>4. (t # ed) \in BOOLEAN
  OBVIOUS
<1> HIDE DEF t, v
<1>5. Sound(r) /\ \A c \in t.modified : Exists(r, c)
  BY <1>3, <1>4, SoundIsReady, MaybeSetViewSets
<1> HIDE DEF r
<1> QED
  BY <1>1, <1>3, <1>5, RunGoes

LEMMA OpenTwoGoes ==
  ASSUME ViewsInv, NEW b \in Files, NEW c \in Files, NEW n \in Sizes,
         NEW atB \in Sources(ed, b), NEW atC \in Sources(ed, c), OpenTwo(b, c, n, atB, atC)
  PROVE  Goes
<1> DEFINE w == ed.window
           t == OpenBuffer(ed, w, b, n, atB)
           u == OpenBuffer(t, w, c, n, atC)
           v == ViewIn(u, w, b)
           more == (t = ed) # (t = u)
           r == MaybeSetView(u, w, v, ed.on[w], more)
<1>1. /\ Sound(ed) /\ w \in ed.wins /\ Loose(ed) /\ w \in Windows /\ ed.on[w] \in Tabs(ed, w)
      /\ atB \in Views \cup {Nothing} /\ atC \in Views \cup {Nothing}
      /\ Room(ed, w, b) /\ Room(t, w, c) /\ Run("open", r, FALSE, FALSE)
  BY SoundIsReady, SourcesAre DEF ViewsInv, Sound, OpenTwo
<1>2. Added(ed, t, w, b)
  BY <1>1, OpenBufferAdds
<1>3. /\ Sound(t) /\ Loose(t) /\ w \in t.wins /\ ed.on[w] \in Tabs(t, w) /\ t.modified = ed.modified
      /\ Tabs(t, w) \cap ViewsOf(t, b) # {}
  BY <1>1, <1>2, AddedIsSound DEF Added
<1>4. more \in BOOLEAN
  OBVIOUS
<1> HIDE DEF t, more
<1>5. Added(t, u, w, c)
  BY <1>1, <1>3, OpenBufferAdds
<1>6. Sound(u) /\ w \in u.wins /\ ed.on[w] \in Tabs(u, w) /\ u.modified = ed.modified
  BY <1>1, <1>3, <1>5, AddedIsSound DEF Added
<1>7. Tabs(u, w) \cap ViewsOf(u, b) # {}
  <2>1. b \in Buffers
    BY NothingIsNone
  <2> QED
    BY <1>1, <1>3, <1>5, <2>1 DEF Added
<1>8. v \in Tabs(u, w)
  BY <1>7 DEF ViewIn
<1> HIDE DEF u, v
<1>9. Sound(r) /\ \A d \in u.modified : Exists(r, d)
  BY <1>4, <1>6, <1>8, SoundIsReady, MaybeSetViewSets
<1> HIDE DEF r
<1> QED
  BY <1>1, <1>6, <1>9, RunGoes

WithCursor(s, v, p) == [s EXCEPT !.views[v].cur = p, !.views[v].mark = p]

\* A cursor that is put elsewhere
LEMMA CursorMoves ==
  ASSUME NEW s, Sound(s), NEW v \in Views, s.views[v] \in ViewRecs, NEW p \in 0..MaxLen,
         NEW t, t = WithCursor(s, v, p)
  PROVE  Sound(t) /\ Grows(s, t) /\ t.modified = s.modified
<1> DEFINE rec == [s.views[v] EXCEPT !.cur = p, !.mark = p]
           views == [s.views EXCEPT ![v] = rec]
<1>1. EdTypes(s) /\ p \in Nat
  BY BoundsAssumption DEF Sound, Loose
<1>2. rec \in ViewRecs /\ rec.buf = s.views[v].buf /\ rec.win = s.views[v].win
  BY <1>1 DEF ViewRecs
<1>3. t = WithViews(s, views)
  BY <1>1 DEF EdTypes, WithCursor, WithViews
<1> HIDE DEF rec
<1>4. /\ views \in [Views -> ViewRecs \cup {NoView}]
      /\ \A u \in Views : views[u].buf = s.views[u].buf /\ views[u].win = s.views[u].win
  BY <1>1, <1>2 DEF EdTypes
<1> HIDE DEF views
<1> QED
  BY <1>1, <1>3, <1>4, NewCursors

LEMMA JumpGoes ==
  ASSUME ViewsInv, NEW b \in Files, NEW n \in Sizes, NEW at \in Sources(ed, b),
         NEW p \in 0..MaxLen, Jump(b, n, at, p)
  PROVE  Goes
<1> DEFINE w == ed.window
           t == OpenBuffer(ed, w, b, n, at)
           v == ViewIn(t, w, b)
           u == SetView(t, v)
           r == [u EXCEPT !.views[v].cur = p, !.views[v].mark = p]
<1>1. /\ Sound(ed) /\ w \in ed.wins /\ Loose(ed) /\ w \in Windows
      /\ at \in Views \cup {Nothing} /\ Room(ed, w, b) /\ Run("jump", r, FALSE, FALSE)
  BY SoundIsReady, SourcesAre DEF ViewsInv, Sound, Jump
<1>2. Added(ed, t, w, b)
  BY <1>1, OpenBufferAdds
<1>3. Sound(t) /\ w \in t.wins /\ v \in Tabs(t, w) /\ t.modified = ed.modified
  BY <1>1, <1>2, AddedIsSound DEF Added
<1> HIDE DEF t, v
<1>4. Sound(u) /\ SamePlaces(t, u) /\ Grows(t, u) /\ u.modified = t.modified
  BY <1>3, SoundIsReady, SetViewSets
<1>5. v \in Tabs(u, w)
  BY <1>3, <1>4, PlacesKept
<1> HIDE DEF u
<1>6. v \in Views /\ u.views[v] \in ViewRecs
  BY <1>1, <1>4, <1>5, TabIs DEF Sound, Loose
<1>7. r = WithCursor(u, v, p)
  BY DEF WithCursor
<1> HIDE DEF r
<1>8. Sound(r) /\ Grows(u, r) /\ r.modified = u.modified
  BY <1>4, <1>6, <1>7, CursorMoves
<1>9. \A c \in ed.modified : Exists(r, c)
  BY <1>3, <1>4, <1>8, ModifiedExist
<1> QED
  BY <1>1, <1>8, <1>9, RunGoes

\* Any tab may become the current one.
LEMMA SwitchGoes ==
  ASSUME ViewsInv, NEW w \in ed.wins, NEW v \in Tabs(ed, w), NEW group,
         Run(group, SetView(ed, v), FALSE, FALSE)
  PROVE  Goes
<1> DEFINE t == SetView(ed, v)
<1>1. Sound(ed) /\ Ready(ed, w)
  BY SoundIsReady DEF ViewsInv
<1>2. Sound(t) /\ Grows(ed, t)
  BY <1>1, SetViewSets
<1>3. \A b \in ed.modified : Exists(t, b)
  BY <1>1, <1>2, ModifiedExist
<1>4. Run(group, t, FALSE, FALSE)
  OBVIOUS
<1> HIDE DEF t
<1> QED
  BY <1>2, <1>3, <1>4, RunGoes

LEMMA TabGoes ==
  ASSUME ViewsInv, NEW v \in Views, Tab(v)
  PROVE  Goes
  BY SwitchGoes DEF ViewsInv, Sound, Tab

LEMMA WCloseRefusedGoes ==
  ASSUME ViewsInv, NEW v \in Views, WCloseRefused(v)
  PROVE  Goes
  BY SwitchGoes DEF ViewsInv, Sound, WCloseRefused, Uncloseable

LEMMA QuitRefusedGoes ==
  ASSUME ViewsInv, NEW v \in Views, QuitRefused(v)
  PROVE  Goes
<1>1. Sound(ed) /\ EdTypes(ed) /\ Linked(ed)
  BY DEF ViewsInv, Sound, Loose
<1>2. ed.views[v].buf \in ed.modified /\ Run("quit", SetView(ed, v), FALSE, FALSE)
  BY DEF QuitRefused, Modified
<1>3. ed.views[v].buf \in Buffers
  BY <1>1, <1>2 DEF EdTypes
<1>4. ed.views[v].win \in Windows
  BY <1>1, <1>3, ViewTypes, NothingIsNone
<1>5. v \in Tabs(ed, ed.views[v].win)
  BY DEF Tabs
<1>6. ed.views[v].win \in ed.wins
  BY <1>1, <1>4, <1>5 DEF Linked
<1> QED
  BY <1>2, <1>5, <1>6, SwitchGoes

\* What window_close_current_view starts with
LEMMA CurrentCloses ==
  ASSUME Sound(ed), NEW w, w = ed.window, NEW force \in BOOLEAN, Closable(force),
         NEW t, t = RemoveView(ed, ed.view)
  PROVE  /\ Ready(t, w) /\ t.view = Nothing /\ Unused(t) # {}
         /\ t.prev[w] # Nothing => t.prev[w] \in Tabs(t, w)
         /\ force \/ \A b \in ed.modified : Exists(t, b)
         /\ \A b \in Buffers : Exists(t, b) => Exists(ed, b)
<1> DEFINE v == ed.view
<1>1. /\ w \in ed.wins /\ Loose(ed) /\ EdTypes(ed) /\ Owned(ed) /\ v \in Tabs(ed, w)
      /\ ed.wins \subseteq Windows /\ w \in Windows
  BY SoundIsReady DEF Sound, Loose
<1>2. /\ Loose(t) /\ t.wins = ed.wins /\ t.on = ed.on /\ t.view = Nothing
      /\ \A x \in Windows : Tabs(t, x) = Tabs(ed, x) \ {v}
      /\ \A b \in Buffers : Exists(ed, b) /\ ViewsOf(ed, b) # {v} => Exists(t, b)
      /\ \A b \in Buffers : Exists(t, b) => Exists(ed, b)
      /\ Unused(t) # {}
  BY <1>1, RemoveViewRemoves
<1>3. \A x \in Windows : x # w => v \notin Tabs(ed, x)
  BY <1>1 DEF Tabs
<1>4. Showing(t, t.wins \ {w})
  BY <1>1, <1>2, <1>3 DEF Showing, Sound
<1>5. force \/ \A b \in ed.modified : Exists(t, b)
  <2> SUFFICES ASSUME ~force, NEW b \in ed.modified
               PROVE  Exists(t, b)
    OBVIOUS
  <2>1. b \in Buffers /\ Exists(ed, b)
    BY <1>1 DEF Owned, EdTypes
  <2>2. ViewsOf(ed, b) = {v} => ed.views[v].buf = b
    BY DEF ViewsOf
  <2>3. ~Modified(ed, ed.views[v].buf) \/ ViewsOf(ed, ed.views[v].buf) # {v}
    BY DEF Closable, CanClose
  <2>4. ViewsOf(ed, b) # {v}
    BY <2>2, <2>3 DEF Modified
  <2> QED
    BY <1>2, <2>1, <2>4
<1> QED
  BY <1>1, <1>2, <1>4, <1>5 DEF Ready, Loose, Linked

LEMMA CloseGoes ==
  ASSUME ViewsInv, NEW force \in BOOLEAN, NEW v \in Views, Close(force, v)
  PROVE  Goes
<1> DEFINE w == ed.window
           t == RemoveView(ed, ed.view)
           r == SetView(t, v)
<1>1. /\ Sound(ed) /\ Closable(force) /\ Run("close", r, FALSE, force)
      /\ v \in (IF t.prev[w] # Nothing THEN {t.prev[w]} ELSE Tabs(t, w))
  BY DEF ViewsInv, Close
<1>2. /\ Ready(t, w) /\ t.view = Nothing
      /\ t.prev[w] # Nothing => t.prev[w] \in Tabs(t, w)
      /\ force \/ \A b \in ed.modified : Exists(t, b)
  BY <1>1, CurrentCloses
<1> HIDE DEF t
<1>3. v \in Tabs(t, w) /\ t.view # v
  BY <1>1, <1>2, NothingIsNone
<1>4. Sound(r) /\ Grows(t, r)
  BY <1>2, <1>3, SetViewSets
<1>5. force \/ \A b \in ed.modified : Exists(r, b)
  BY <1>1, <1>2, <1>4, ModifiedExist DEF Grows
<1> HIDE DEF r
<1> QED
  BY <1>1, <1>4, <1>5, RunGoes

LEMMA CloseLastGoes ==
  ASSUME ViewsInv, NEW force \in BOOLEAN, NEW b \in NewEmpties, CloseLast(force, b)
  PROVE  Goes
<1> DEFINE w == ed.window
           q == RemoveView(ed, ed.view)
           t == OpenEmpty(q, w, b)
           r == SetView(t, ViewIn(t, w, b))
<1>1. /\ Sound(ed) /\ Closable(force) /\ Run("close", r, FALSE, force)
      /\ b \in Empties /\ b \in Buffers /\ ~Exists(ed, b)
  BY NothingIsNone DEF ViewsInv, CloseLast, NewEmpties
<1>2. /\ Ready(q, w) /\ q.view = Nothing /\ Unused(q) # {}
      /\ force \/ \A c \in ed.modified : Exists(q, c)
      /\ ~Exists(q, b)
  BY <1>1, CurrentCloses
<1>3. q.view \notin Unused(q)
  BY <1>2, NothingIsNone DEF Unused
<1> HIDE DEF q
<1>4. Sound(r) /\ Grows(q, r)
  BY <1>1, <1>2, <1>3, EmptyIsShown
<1>5. force \/ \A c \in ed.modified : Exists(r, c)
  BY <1>1, <1>2, <1>4, ModifiedExist DEF Grows
<1> HIDE DEF r
<1> QED
  BY <1>1, <1>4, <1>5, RunGoes

LEMMA NextWindowGoes ==
  ASSUME ViewsInv, NEW w \in Windows, NextWindow(w)
  PROVE  Goes
<1> DEFINE s == [ed EXCEPT !.window = w]
           t == SetView(s, ed.on[w])
<1>1. /\ Sound(ed) /\ w \in ed.wins /\ w # ed.window /\ Run("window", t, TRUE, FALSE)
      /\ EdTypes(ed) /\ ed.view \in Tabs(ed, ed.window) /\ ed.on[w] \in Tabs(ed, w)
  BY SoundIsReady DEF ViewsInv, NextWindow
<1>2. /\ EdTypes(s) /\ s.view = ed.view /\ s.views = ed.views /\ s.wins = ed.wins
      /\ s.on = ed.on /\ s.prev = ed.prev /\ s.modified = ed.modified /\ s.fresh = ed.fresh
  BY <1>1 DEF EdTypes
<1> HIDE DEF s
<1>3. SamePlaces(ed, s)
  BY <1>2 DEF SamePlaces
<1>4. Ready(s, w) /\ ed.on[w] \in Tabs(s, w)
  BY <1>1, <1>2, <1>3, PlacesKept DEF Sound, Ready, Showing, Loose, Linked, Owned
<1>5. s.view # ed.on[w]
  BY <1>1, <1>2 DEF Tabs
<1>6. Sound(t) /\ Grows(s, t)
  BY <1>4, <1>5, SetViewSets
<1>7. \A b \in ed.modified : Exists(t, b)
  BY <1>1, <1>3, <1>6, ModifiedExist, PlacesKept DEF Grows
<1> HIDE DEF t
<1> QED
  BY <1>1, <1>6, <1>7, RunGoes

\* An empty window on the screen, as wsplit makes it
LEMMA SplitIsReady ==
  ASSUME Sound(ed), NEW w \in Windows \ ed.wins, NEW s, s = Split(w)
  PROVE  /\ Ready(s, w) /\ Loose(s) /\ SamePlaces(ed, s) /\ w \in s.wins /\ s.modified = ed.modified
         /\ s.view = Nothing /\ s.on[w] = Nothing /\ Tabs(s, w) = {} /\ Unused(s) = Unused(ed)
<1>1. EdTypes(ed) /\ Linked(ed) /\ Once(ed) /\ Owned(ed) /\ Showing(ed, ed.wins)
  BY DEF Sound, Loose
<1>2. /\ EdTypes(s) /\ s.view = Nothing /\ s.views = ed.views /\ s.wins = ed.wins \cup {w}
      /\ s.on = ed.on /\ s.prev = ed.prev /\ s.modified = ed.modified /\ s.fresh = ed.fresh
  BY <1>1 DEF EdTypes, Split
<1>3. SamePlaces(ed, s) /\ Unused(s) = Unused(ed)
  BY <1>2 DEF SamePlaces, Unused
<1>4. Linked(s) /\ Tabs(s, w) = {} /\ s.on[w] = Nothing
  BY <1>1, <1>2, <1>3, PlacesKept DEF Linked
<1>5. Loose(s)
  BY <1>1, <1>2, <1>3, <1>4, PlacesKept DEF Loose, Owned
<1>6. Ready(s, w)
  BY <1>1, <1>2, <1>3, <1>5, PlacesKept DEF Ready, Showing
<1> QED
  BY <1>2, <1>3, <1>4, <1>5, <1>6

LEMMA WSplitGoes ==
  ASSUME ViewsInv, NEW w \in Windows, WSplit(w)
  PROVE  Goes
<1> DEFINE b == ed.views[ed.view].buf
           s == Split(w)
           t == AddView(s, w, b, ed.view)
           v == ViewIn(t, w, b)
           r == SetView(t, v)
<1>1. /\ Sound(ed) /\ w \in Windows \ ed.wins /\ Unused(ed) # {}
      /\ Run("window", r, TRUE, FALSE)
      /\ b \in Buffers /\ ed.view \in Views
  BY HereIs DEF ViewsInv, WSplit, Here
<1>2. /\ Ready(s, w) /\ Loose(s) /\ SamePlaces(ed, s) /\ w \in s.wins /\ s.modified = ed.modified
      /\ s.view = Nothing /\ Tabs(s, w) = {} /\ Unused(s) = Unused(ed)
  BY <1>1, SplitIsReady
<1> HIDE DEF s
<1>3. EdTypes(s) /\ Linked(s) /\ Once(s) /\ Owned(s) /\ s.wins \subseteq Windows /\ w \in Windows
  BY <1>2 DEF Loose, EdTypes
<1>4. /\ EdTypes(t) /\ Linked(t) /\ Once(t) /\ Grows(s, t)
      /\ t.wins = s.wins /\ t.on = s.on
      /\ t.view = s.view /\ t.modified = s.modified /\ t.fresh = s.fresh
      /\ \A x : Tabs(s, x) \subseteq Tabs(t, x) \/ x = Nothing
      /\ v \in Tabs(t, w)
  <2> HIDE DEF b, r
  <2> QED
  BY <1>1, <1>2, <1>3, AddViewAdds
<1> HIDE DEF t, v
<1>5. Owned(t)
  BY <1>3, <1>4 DEF Owned, Grows, EdTypes
<1>6. Ready(t, w)
  BY <1>2, <1>3, <1>4, <1>5, NothingIsNone DEF Ready, Loose, Showing
<1>7. t.view # v
  BY <1>2, <1>4, NothingIsNone DEF Tabs
<1>8. Sound(r) /\ Grows(t, r)
  BY <1>4, <1>6, <1>7, SetViewSets
<1>9. \A c \in ed.modified : Exists(r, c)
  BY <1>1, <1>2, <1>4, <1>8, ModifiedExist, PlacesKept DEF Grows
<1> HIDE DEF r
<1> QED
  BY <1>1, <1>8, <1>9, RunGoes

LEMMA WSplitNewGoes ==
  ASSUME ViewsInv, NEW w \in Windows, NEW b \in NewEmpties, WSplitNew(w, b)
  PROVE  Goes
<1> DEFINE s == Split(w)
           r == OpenNewFile(s, w, b)
<1>1. /\ Sound(ed) /\ w \in Windows \ ed.wins /\ Unused(ed) # {}
      /\ Run("window", r, TRUE, FALSE) /\ b \in Empties /\ ~Exists(ed, b)
  BY DEF ViewsInv, WSplitNew, NewEmpties
<1>2. /\ Ready(s, w) /\ SamePlaces(ed, s)
      /\ s.view = Nothing /\ s.on[w] = Nothing /\ Unused(s) = Unused(ed)
  BY <1>1, SplitIsReady
<1> HIDE DEF s
<1>3. ~Exists(s, b) /\ Unused(s) # {} /\ s.view \notin Unused(s)
  BY <1>1, <1>2, PlacesKept, NothingIsNone DEF Unused
<1>4. Sound(r) /\ Grows(s, r)
  BY <1>1, <1>2, <1>3, NewFileIsShown
<1>5. \A c \in ed.modified : Exists(r, c)
  BY <1>1, <1>2, <1>4, ModifiedExist, PlacesKept DEF Grows
<1> HIDE DEF r
<1> QED
  BY <1>1, <1>4, <1>5, RunGoes

LEMMA OpenNewGoes ==
  ASSUME ViewsInv, NEW b \in NewEmpties, OpenNew(b)
  PROVE  Goes
<1> DEFINE w == ed.window
           r == OpenNewFile(ed, w, b)
<1>1. /\ Sound(ed) /\ w \in ed.wins /\ Unused(ed) # {}
      /\ Run("open", r, FALSE, FALSE) /\ b \in Empties /\ ~Exists(ed, b)
  BY DEF ViewsInv, OpenNew, NewEmpties, Sound
<1>2. Ready(ed, w) /\ ed.on[w] \in Tabs(ed, w) /\ ed.view \notin Unused(ed)
  BY <1>1, SoundIsReady
<1>3. Sound(r) /\ Grows(ed, r)
  BY <1>1, <1>2, NewFileIsShown
<1>4. \A c \in ed.modified : Exists(r, c)
  BY <1>1, <1>3, ModifiedExist
<1> HIDE DEF r
<1> QED
  BY <1>1, <1>3, <1>4, RunGoes

LEMMA WSplitFileGoes ==
  ASSUME ViewsInv, NEW w \in Windows, NEW b \in Files, NEW n \in Sizes, NEW at \in Sources(ed, b),
         WSplitFile(w, b, n, at)
  PROVE  Goes
<1> DEFINE s == Split(w)
           t == OpenBuffer(s, w, b, n, at)
           v == ViewIn(t, w, b)
           r == MaybeSetView(t, w, v, Nothing, TRUE)
<1>1. /\ Sound(ed) /\ w \in Windows \ ed.wins /\ Unused(ed) # {}
      /\ Run("window", r, TRUE, FALSE) /\ at \in Views \cup {Nothing}
  BY SourcesAre DEF ViewsInv, WSplitFile
<1>2. /\ Ready(s, w) /\ Loose(s) /\ SamePlaces(ed, s) /\ w \in s.wins /\ s.modified = ed.modified
      /\ s.view = Nothing /\ Unused(s) = Unused(ed)
  BY <1>1, SplitIsReady
<1> HIDE DEF s
<1>3. Room(s, w, b)
  BY <1>1, <1>2 DEF Room
<1>4. Added(s, t, w, b)
  BY <1>1, <1>2, <1>3, OpenBufferAdds
<1>5. Ready(t, w) /\ v \in Tabs(t, w) /\ t.view = Nothing /\ t.modified = ed.modified
  BY <1>2, <1>4, AddedIsReady DEF Added
<1>6. v \in Views /\ v # Nothing
  BY <1>5, NothingIsNone DEF Tabs
<1> HIDE DEF t, v
<1>7. Sound(r) /\ \A c \in t.modified : Exists(r, c)
  BY <1>5, <1>6, MaybeSetViewSets
<1> HIDE DEF r
<1> QED
  BY <1>1, <1>5, <1>7, RunGoes

\* A Buffer with changes that is only shown in this window stands in the way.
LEMMA UncloseableAre ==
  ASSUME Sound(ed), Uncloseable = {}, NEW t, LeavesOthers(ed, ed.window, t)
  PROVE  \A b \in ed.modified : Exists(t, b)
<1> SUFFICES ASSUME NEW b \in ed.modified, ~Exists(t, b)
             PROVE  FALSE
  OBVIOUS
<1>1. b \in Buffers /\ Exists(ed, b) /\ Once(ed) /\ b # Nothing
  BY ModifiedExist, NothingIsNone DEF Sound, Loose
<1>2. ViewsOf(ed, b) \subseteq Tabs(ed, ed.window)
  BY <1>1 DEF LeavesOthers
<1>3. PICK v \in ViewsOf(ed, b) : TRUE
  BY <1>1 DEF Exists
<1>4. v \in Views /\ ed.views[v].buf = b
  BY <1>3 DEF ViewsOf
<1>5. ViewsOf(ed, b) = {v}
  BY <1>1, <1>2, <1>3 DEF Once, ViewsOf, Tabs
<1>6. ~CanClose(ed, v)
  BY <1>4, <1>5 DEF CanClose, Modified
<1> QED
  BY <1>2, <1>3, <1>6 DEF Uncloseable

LEMMA WCloseGoes ==
  ASSUME ViewsInv, NEW force \in BOOLEAN, NEW b \in NewEmpties \cup {Nothing},
         NEW next \in Windows, WClose(force, b, next)
  PROVE  Goes
<1> DEFINE w == ed.window
           only == CloseOnly(ed, w, b)
           other == CloseWindow(ed, w, next)
<1>1. Sound(ed) /\ (force \/ Uncloseable = {})
  BY DEF ViewsInv, WClose
<1>2. CASE ed.wins = {w}
  <2>1. b \in Empties /\ ~Exists(ed, b) /\ Run("wclose", only, FALSE, force)
    BY <1>2 DEF WClose, NewEmpties
  <2>2. Sound(only) /\ LeavesOthers(ed, w, only)
    BY <1>1, <1>2, <2>1, OnlyWindowCloses
  <2> HIDE DEF only
  <2>3. force \/ \A c \in ed.modified : Exists(only, c)
    BY <1>1, <2>2, UncloseableAre
  <2> QED
    BY <2>1, <2>2, <2>3, RunGoes
<1>3. CASE ed.wins # {w}
  <2>1. next \in ed.wins \ {w} /\ Run("wclose", other, TRUE, force)
    BY <1>3 DEF WClose
  <2>2. Sound(other) /\ LeavesOthers(ed, w, other)
    BY <1>1, <2>1, WindowCloses
  <2> HIDE DEF other
  <2>3. force \/ \A c \in ed.modified : Exists(other, c)
    BY <1>1, <2>2, UncloseableAre
  <2> QED
    BY <2>1, <2>2, <2>3, RunGoes
<1> QED
  BY <1>2, <1>3

LEMMA QuitGoes ==
  ASSUME ViewsInv, NEW force \in BOOLEAN, Quit(force)
  PROVE  Goes
<1>1. UNCHANGED <<ed, all>> /\ pc' = "exit" /\ forced' = force /\ (force \/ ed.modified = {})
  BY DEF Quit
<1>2. ViewsInv'
  BY <1>1 DEF ViewsInv, Sound, Loose, EdTypes, Linked, Once, Owned, Showing, Tabs, Exists, ViewsOf
<1>3. KeepsChanges
  BY <1>1 DEF KeepsChanges
<1> QED
  BY <1>2, <1>3 DEF Goes

\* An edit, after which the Buffer is among the modified ones or not
LEMMA EditGoes ==
  ASSUME ViewsInv, NEW off \in Nat, NEW del \in Nat, NEW ins \in Nat,
         NEW fixDel \in Nat, NEW fixIns \in Nat, NEW cur \in 0..MaxLen,
         Size - del + ins \in 0..MaxLen,
         NEW m, m \subseteq ed.modified \cup {Here.buf}, NEW group,
         Run(group, WithModified(Edited(ed, off, del, ins, cur, fixDel, fixIns), m), FALSE, FALSE)
  PROVE  Goes
<1> DEFINE s == Edited(ed, off, del, ins, cur, fixDel, fixIns)
           t == WithModified(s, m)
<1>1. Sound(ed) /\ Run(group, t, FALSE, FALSE)
  BY DEF ViewsInv
<1>2. EditsHere(s)
  BY <1>1, EditedIs
<1> HIDE DEF s
<1>3. Sound(t) /\ Grows(ed, t)
  BY <1>1, <1>2, MarkedIsSound
<1>4. \A b \in ed.modified : Exists(t, b)
  BY <1>1, <1>3, ModifiedExist
<1> HIDE DEF t
<1> QED
  BY <1>1, <1>3, <1>4, RunGoes

\* What Changed makes of an edit
LEMMA ChangedIs ==
  ASSUME Sound(ed), NEW s, EditsHere(s)
  PROVE  /\ Changed(s) = WithModified(s, ed.modified \cup {Here.buf})
         /\ [s EXCEPT !.modified = @ \ {Here.buf}] = WithModified(s, ed.modified \ {Here.buf})
  BY DEF Changed, WithModified, EditsHere, EdTypes

LEMMA InsertGoes ==
  ASSUME ViewsInv, NEW p \in 0..MaxLen, NEW n \in 0..MaxLen, NEW cur \in 0..MaxLen, Insert(p, n, cur)
  PROVE  Goes
<1> DEFINE s == Edited(ed, p, 0, n, cur, n, 0)
           m == ed.modified \cup {Here.buf}
<1>1. Sound(ed) /\ Size \in 0..MaxLen /\ p \in Nat /\ n \in Nat /\ 0 \in Nat
  BY HereIs, BoundsAssumption DEF ViewsInv
<1>2. Size - 0 + n \in 0..MaxLen /\ Run("insert", Changed(s), FALSE, FALSE)
  <2>1. Size + n <= MaxLen
    BY DEF Insert
  <2>2. Size - 0 + n \in 0..MaxLen
    BY <1>1, <2>1, BoundsAssumption
  <2>3. Run("insert", Changed(s), FALSE, FALSE)
    BY DEF Insert
  <2> QED
    BY <2>2, <2>3
<1>3. EditsHere(s)
  BY <1>1, <1>2, EditedIs
<1>4. Changed(s) = WithModified(s, m)
  BY <1>1, <1>3, ChangedIs
<1>5. Run("insert", WithModified(Edited(ed, p, 0, n, cur, n, 0), m), FALSE, FALSE)
  BY <1>2, <1>4
<1>6. m \subseteq ed.modified \cup {Here.buf}
  OBVIOUS
<1> HIDE DEF s, m
<1> QED
  BY <1>1, <1>2, <1>5, <1>6, EditGoes

LEMMA DeleteGoes ==
  ASSUME ViewsInv, NEW p \in 0..MaxLen, NEW n \in 0..MaxLen, Delete(p, n)
  PROVE  Goes
<1> DEFINE s == Edited(ed, p, n, 0, p, n, 0)
           m == ed.modified \cup {Here.buf}
<1>1. Sound(ed) /\ Size \in 0..MaxLen /\ p \in Nat /\ n \in Nat /\ 0 \in Nat
  BY HereIs, BoundsAssumption DEF ViewsInv
<1>2. Size - n + 0 \in 0..MaxLen /\ Run("delete", Changed(s), FALSE, FALSE)
  <2>1. p + n <= Size
    BY DEF Delete
  <2>2. Size - n + 0 \in 0..MaxLen
    BY <1>1, <2>1, BoundsAssumption
  <2>3. Run("delete", Changed(s), FALSE, FALSE)
    BY DEF Delete
  <2> QED
    BY <2>2, <2>3
<1>3. EditsHere(s)
  BY <1>1, <1>2, EditedIs
<1>4. Changed(s) = WithModified(s, m)
  BY <1>1, <1>3, ChangedIs
<1>5. Run("delete", WithModified(Edited(ed, p, n, 0, p, n, 0), m), FALSE, FALSE)
  BY <1>2, <1>4
<1>6. m \subseteq ed.modified \cup {Here.buf}
  OBVIOUS
<1> HIDE DEF s, m
<1> QED
  BY <1>1, <1>2, <1>5, <1>6, EditGoes

LEMMA ReplaceGoes ==
  ASSUME ViewsInv, NEW p \in 0..MaxLen, NEW del \in 0..MaxLen, NEW ins \in 0..MaxLen,
         NEW cur \in 0..MaxLen, Replace(p, del, ins, cur)
  PROVE  Goes
<1> DEFINE s == Edited(ed, p, del, ins, cur, del, ins)
           m == ed.modified \cup {Here.buf}
<1>1. Sound(ed) /\ Size \in 0..MaxLen /\ p \in Nat /\ del \in Nat /\ ins \in Nat
  BY HereIs, BoundsAssumption DEF ViewsInv
<1>2. Size - del + ins \in 0..MaxLen /\ Run("replace", Changed(s), FALSE, FALSE)
  <2>1. p + del <= Size /\ Size - del + ins <= MaxLen
    BY DEF Replace
  <2>2. Size - del + ins \in 0..MaxLen
    BY <1>1, <2>1, BoundsAssumption
  <2>3. Run("replace", Changed(s), FALSE, FALSE)
    BY DEF Replace
  <2> QED
    BY <2>2, <2>3
<1>3. EditsHere(s)
  BY <1>1, <1>2, EditedIs
<1>4. Changed(s) = WithModified(s, m)
  BY <1>1, <1>3, ChangedIs
<1>5. Run("replace", WithModified(Edited(ed, p, del, ins, cur, del, ins), m), FALSE, FALSE)
  BY <1>2, <1>4
<1>6. m \subseteq ed.modified \cup {Here.buf}
  OBVIOUS
<1> HIDE DEF s, m
<1> QED
  BY <1>1, <1>2, <1>5, <1>6, EditGoes

LEMMA ReverseChangeGoes ==
  ASSUME ViewsInv, NEW p \in 0..MaxLen, NEW del \in 0..MaxLen, NEW ins \in 0..MaxLen,
         NEW cur \in 0..MaxLen, NEW saved \in BOOLEAN, ReverseChange(p, del, ins, cur, saved)
  PROVE  Goes
<1> DEFINE s == Edited(ed, p, del, ins, cur, del, ins)
           m == IF saved THEN ed.modified \ {Here.buf} ELSE ed.modified \cup {Here.buf}
           t == IF saved THEN [s EXCEPT !.modified = @ \ {Here.buf}] ELSE Changed(s)
<1>1. Sound(ed) /\ Size \in 0..MaxLen /\ p \in Nat /\ del \in Nat /\ ins \in Nat
  BY HereIs, BoundsAssumption DEF ViewsInv
<1>2. Size - del + ins \in 0..MaxLen /\ Run("undo", t, FALSE, FALSE)
  <2>1. p + del <= Size /\ Size - del + ins <= MaxLen
    BY DEF ReverseChange
  <2>2. Size - del + ins \in 0..MaxLen
    BY <1>1, <2>1, BoundsAssumption
  <2>3. Run("undo", t, FALSE, FALSE)
    BY DEF ReverseChange
  <2> QED
    BY <2>2, <2>3
<1>3. EditsHere(s)
  BY <1>1, <1>2, EditedIs
<1>4. t = WithModified(s, m)
  BY <1>1, <1>3, ChangedIs
<1>5. Run("undo", WithModified(Edited(ed, p, del, ins, cur, del, ins), m), FALSE, FALSE)
  BY <1>2, <1>4
<1>6. m \subseteq ed.modified \cup {Here.buf}
  OBVIOUS
<1> HIDE DEF s, m, t
<1> QED
  BY <1>1, <1>2, <1>5, <1>6, EditGoes

LEMMA SaveGoes ==
  ASSUME ViewsInv, Save
  PROVE  Goes
<1> DEFINE s == [ed EXCEPT !.fresh = ed.fresh \ {Here.buf}]
           m == ed.modified \ {Here.buf}
           t == WithModified(s, m)
<1>1. Sound(ed) /\ EdTypes(ed)
  BY DEF ViewsInv, Sound, Loose
<1>2. Run("save", t, FALSE, FALSE)
  BY <1>1 DEF Save, WithModified, EdTypes
<1>3. EditsHere(s)
  BY <1>1 DEF EditsHere, EdTypes, SamePlaces
<1>4. m \subseteq ed.modified \cup {Here.buf}
  OBVIOUS
<1> HIDE DEF s, m
<1>5. Sound(t) /\ Grows(ed, t)
  BY <1>1, <1>3, <1>4, MarkedIsSound
<1>6. \A b \in ed.modified : Exists(t, b)
  BY <1>1, <1>5, ModifiedExist
<1> HIDE DEF t
<1> QED
  BY <1>2, <1>5, <1>6, RunGoes

LEMMA MoveGoes ==
  ASSUME ViewsInv, NEW p \in 0..MaxLen, Move(p)
  PROVE  Goes
<1> DEFINE t == WithCursor(ed, ed.view, p)
<1>1. Sound(ed) /\ Run("move", t, FALSE, FALSE)
  BY DEF ViewsInv, Move, WithCursor
<1>2. ed.view \in Views /\ ed.views[ed.view] \in ViewRecs
  BY <1>1, HereIs
<1>3. Sound(t) /\ Grows(ed, t)
  BY <1>1, <1>2, CursorMoves
<1>4. \A b \in ed.modified : Exists(t, b)
  BY <1>1, <1>3, ModifiedExist
<1> HIDE DEF t
<1> QED
  BY <1>1, <1>3, <1>4, RunGoes

LEMMA ResizeGoes ==
  ASSUME ViewsInv, Resize
  PROVE  Goes
<1>1. UNCHANGED <<ed, forced>> /\ pc' = "update" /\ all' = TRUE
  BY DEF Resize
<1>2. ViewsInv'
  BY <1>1 DEF ViewsInv, Sound, Loose, EdTypes, Linked, Once, Owned, Showing, Tabs, Exists, ViewsOf
<1>3. \A b \in ed.modified : Exists(ed, b)
  BY ModifiedExist DEF ViewsInv
<1>4. KeepsChanges
  BY <1>1, <1>3 DEF KeepsChanges, Exists, ViewsOf
<1> QED
  BY <1>2, <1>4 DEF Goes

\* update_buffer_windows moves cursors and nothing else.
LEMMA RefreshedIsSound ==
  ASSUME Sound(ed), NEW t, t = WithViews(ed, Refreshed(ed))
  PROVE  Sound(t) /\ Grows(ed, t)
<1> DEFINE views == Refreshed(ed)
<1>1. EdTypes(ed)
  BY DEF Sound, Loose
<1>2. ASSUME NEW v \in Views
      PROVE  /\ views[v] \in ViewRecs \cup {NoView}
             /\ views[v].buf = ed.views[v].buf /\ views[v].win = ed.views[v].win
  <2> DEFINE rec == ed.views[v]
             cur == GotoOffset(ed, v, rec.saved)
             drawn == v # ed.view /\ rec.buf = ed.views[ed.view].buf /\ ed.on[rec.win] = v
  <2>1. views[v] = IF drawn THEN [rec EXCEPT !.cur = cur] ELSE rec
    BY DEF Refreshed
  <2>2. CASE drawn
    <3>1. rec \in ViewRecs /\ rec.buf \in Buffers /\ rec.saved \in Nat /\ rec.cur \in 0..MaxLen
      <4>1. ed.views[ed.view].buf \in Buffers
        BY HereIs DEF Here
      <4> QED
        BY <1>1, <2>2, <4>1, ViewTypes, NothingIsNone
    <3>2. cur \in 0..MaxLen
      BY <1>1, <3>1, BoundsAssumption DEF GotoOffset, EdTypes
    <3> HIDE DEF cur
    <3> QED
      BY <2>1, <2>2, <3>1, <3>2 DEF ViewRecs
  <2>3. CASE ~drawn
    BY <1>1, <2>1, <2>3, ViewTypes
  <2> QED
    BY <2>2, <2>3
<1>3. views \in [Views -> ViewRecs \cup {NoView}]
  <2>1. views = [v \in Views |-> views[v]]
    BY DEF Refreshed
  <2> HIDE DEF views
  <2> QED
    BY <1>2, <2>1
<1>4. t = WithViews(ed, views)
  OBVIOUS
<1> HIDE DEF views
<1> QED
  BY <1>1, <1>2, <1>3, <1>4, NewCursors

LEMMA UpdateScreenGoes ==
  ASSUME ViewsInv, UpdateScreen
  PROVE  Goes
<1> DEFINE t == IF all THEN ed ELSE WithViews(ed, Refreshed(ed))
<1>1. /\ Sound(ed) /\ ed' = t /\ pc' = "idle" /\ all' = FALSE /\ forced' = FALSE
  BY DEF ViewsInv, UpdateScreen, WithViews
<1>2. Sound(t) /\ Grows(ed, t)
  <2>1. CASE all
    BY <1>1, <2>1 DEF Grows
  <2>2. CASE ~all
    BY <1>1, <2>2, RefreshedIsSound
  <2> QED
    BY <2>1, <2>2
<1>3. \A b \in ed.modified : Exists(t, b)
  BY <1>1, <1>2, ModifiedExist
<1> HIDE DEF t
<1>4. Sound(ed') /\ KeepsChanges
  BY <1>1, <1>2, <1>3 DEF KeepsChanges
<1>5. Sound(ed)'
  BY <1>4 DEF Sound, Loose, EdTypes, Linked, Once, Owned, Showing, Tabs, Exists, ViewsOf
<1> QED
  BY <1>1, <1>4, <1>5 DEF Goes, ViewsInv

-----------------------------------------------------------------------------
(* All steps *)

LEMMA StutterGoes ==
  ASSUME ViewsInv, UNCHANGED vars
  PROVE  ViewsInv'
  BY DEF ViewsInv, vars, Sound, Loose, EdTypes, Linked, Once, Owned, Showing, Tabs, Exists, ViewsOf

LEMMA OpenCommandGoes ==
  ASSUME ViewsInv, OpenCommand
  PROVE  Goes
<1>1. CASE \E b \in Files, n \in Sizes : \E at \in Sources(ed, b) :
             \/ Open(b, n, at)
             \/ \E p \in 0..MaxLen : Jump(b, n, at, p)
             \/ \E c \in Files : \E atC \in Sources(ed, c) : OpenTwo(b, c, n, at, atC)
             \/ \E w \in Windows : WSplitFile(w, b, n, at)
  BY <1>1, OpenGoes, JumpGoes, OpenTwoGoes, WSplitFileGoes
<1>2. CASE \E b \in NewEmpties : OpenNew(b) \/ \E w \in Windows : WSplitNew(w, b)
  BY <1>2, OpenNewGoes, WSplitNewGoes
<1> QED
  BY <1>1, <1>2 DEF OpenCommand

LEMMA ViewCommandGoes ==
  ASSUME ViewsInv, ViewCommand
  PROVE  Goes
<1>1. CASE \E v \in Views : Tab(v) \/ WCloseRefused(v) \/ QuitRefused(v)
  BY <1>1, TabGoes, WCloseRefusedGoes, QuitRefusedGoes
<1>2. CASE \E w \in Windows : NextWindow(w) \/ WSplit(w)
  BY <1>2, NextWindowGoes, WSplitGoes
<1>3. CASE \E force \in BOOLEAN :
             \/ Quit(force)
             \/ \E v \in Views : Close(force, v)
             \/ \E b \in NewEmpties : CloseLast(force, b)
             \/ \E b \in NewEmpties \cup {Nothing}, w \in Windows : WClose(force, b, w)
  BY <1>3, QuitGoes, CloseGoes, CloseLastGoes, WCloseGoes
<1> QED
  BY <1>1, <1>2, <1>3 DEF ViewCommand

LEMMA EditCommandGoes ==
  ASSUME ViewsInv, EditCommand
  PROVE  Goes
<1>1. CASE Save
  BY <1>1, SaveGoes
<1>2. ASSUME NEW p \in 0..MaxLen, NEW n \in 0..MaxLen,
             \/ Move(p)
             \/ n > 0 /\ Delete(p, n)
             \/ \E ins, cur \in 0..MaxLen :
                  \/ n > 0 /\ ins > 0 /\ Replace(p, n, ins, cur)
                  \/ n + ins > 0 /\ \E saved \in BOOLEAN : ReverseChange(p, n, ins, cur, saved)
      PROVE  Goes
  BY <1>2, MoveGoes, DeleteGoes, ReplaceGoes, ReverseChangeGoes
<1> QED
  BY <1>1, <1>2 DEF EditCommand

LEMMA NextGoes ==
  ASSUME ViewsInv, Next
  PROVE  Goes
<1>1. CASE InsertCommand
  BY <1>1, InsertGoes DEF InsertCommand
<1> QED
  BY <1>1, OpenCommandGoes, ViewCommandGoes, EditCommandGoes, ResizeGoes, UpdateScreenGoes DEF Next

LEMMA InitIsSound ==
  ASSUME Init
  PROVE  ViewsInv
<1>1. PICK w \in Windows, v \in Views, b \in Files, n \in Sizes :
       ed = [wins |-> {w},
             on |-> [x \in Windows |-> IF x = w THEN v ELSE Nothing],
             prev |-> [x \in Windows |-> Nothing],
             window |-> w,
             view |-> v,
             views |-> [u \in Views |->
               IF u = v THEN [NoView EXCEPT !.buf = b, !.win = w] ELSE NoView],
             len |-> [x \in Buffers |-> IF x = b THEN n ELSE 0],
             modified |-> {},
             fresh |-> {}]
  BY DEF Init
<1> DEFINE rec == [NoView EXCEPT !.buf = b, !.win = w]
<1>2. b \in Buffers /\ n \in 0..MaxLen /\ 0 \in 0..MaxLen
  BY NothingIsNone, BoundsAssumption
<1>3. rec \in ViewRecs /\ rec.buf = b /\ rec.win = w
  BY <1>2 DEF ViewRecs, NoView
<1>4. NoView.buf = Nothing /\ NoView.win = Nothing
  BY DEF NoView
<1>5. /\ ed.views = [u \in Views |-> IF u = v THEN rec ELSE NoView]
      /\ ed.wins = {w} /\ ed.window = w /\ ed.view = v /\ ed.modified = {} /\ ed.fresh = {}
      /\ ed.on = [x \in Windows |-> IF x = w THEN v ELSE Nothing]
      /\ ed.prev = [x \in Windows |-> Nothing]
      /\ ed.len = [x \in Buffers |-> IF x = b THEN n ELSE 0]
  BY <1>1
<1>6. EdTypes(ed)
  <2> HIDE DEF rec
  <2> QED
    BY <1>1, <1>2, <1>3, <1>5 DEF EdTypes, rec
<1> HIDE DEF rec
<1>7. \A x \in Windows : Tabs(ed, x) = IF x = w THEN {v} ELSE {}
  BY <1>3, <1>4, <1>5, NothingIsNone DEF Tabs
<1>8. Linked(ed) /\ Showing(ed, ed.wins)
  BY <1>5, <1>7 DEF Linked, Showing
<1>9. Once(ed)
  BY <1>4, <1>5 DEF Once
<1>10. Owned(ed)
  BY <1>5 DEF Owned
<1>11. Sound(ed)
  BY <1>5, <1>6, <1>8, <1>9, <1>10 DEF Sound, Loose
<1> QED
  BY <1>11 DEF ViewsInv, Init

LEMMA SoundIsRight ==
  ASSUME ViewsInv
  PROVE  TypeOK /\ PointersAreLive /\ OneViewPerWindow
<1>1. Sound(ed) /\ EdTypes(ed) /\ Linked(ed) /\ Once(ed) /\ Owned(ed) /\ Showing(ed, ed.wins)
  BY DEF ViewsInv, Sound, Loose
<1>2. ed.window \in Windows /\ ed.view \in Views
  BY <1>1, SoundIsReady DEF Sound
<1>3. TypeOK
  BY <1>1, <1>2 DEF TypeOK, EdTypes, Owned, ViewsInv
<1>4. PointersAreLive
  BY <1>1 DEF PointersAreLive, Sound, Showing, Linked
<1>5. OneViewPerWindow
  <2> SUFFICES ASSUME NEW w \in ed.wins, NEW b \in Buffers
               PROVE  Cardinality(Tabs(ed, w) \cap ViewsOf(ed, b)) <= 1
    BY DEF OneViewPerWindow
  <2>1. CASE Tabs(ed, w) \cap ViewsOf(ed, b) = {}
    BY <2>1, FS_EmptySet
  <2>2. CASE Tabs(ed, w) \cap ViewsOf(ed, b) # {}
    <3>1. PICK v : v \in Tabs(ed, w) \cap ViewsOf(ed, b)
      BY <2>2
    <3>2. Tabs(ed, w) \cap ViewsOf(ed, b) = {v}
      BY <1>1, <3>1, NothingIsNone DEF Once, Tabs, ViewsOf
    <3>3. Cardinality({v}) = 1
      BY FS_Singleton
    <3> QED
      BY <3>2, <3>3
  <2> QED
    BY <2>1, <2>2
<1> QED
  BY <1>3, <1>4, <1>5

\* Whatever is opened, switched, split and closed, in any order and with any
\* number of windows and Views: the pointers of window.c stay live, a window
\* keeps at most one tab of a Buffer, and all have their types.
THEOREM ViewsAreSound ==
  Spec => [](TypeOK /\ PointersAreLive /\ OneViewPerWindow)
<1>1. Init => ViewsInv
  BY InitIsSound
<1>2. ViewsInv /\ [Next]_vars => ViewsInv'
  BY NextGoes, StutterGoes DEF Goes
<1>3. ViewsInv => TypeOK /\ PointersAreLive /\ OneViewPerWindow
  BY SoundIsRight
<1> QED
  BY <1>1, <1>2, <1>3, PTL DEF Spec

\* No command discards a Buffer with unsaved changes unless it is told to
\* (cmd_close, cmd_wclose, cmd_quit and the tabs that maybe_set_view closes).
THEOREM ChangesAreKept == Spec => NothingIsLost
<1>1. Init => ViewsInv
  BY InitIsSound
<1>2. ViewsInv /\ [Next]_vars => ViewsInv'
  BY NextGoes, StutterGoes DEF Goes
<1>3. ViewsInv /\ [Next]_vars =>
        [\A b \in ed.modified : (~Exists(ed', b) \/ pc' = "exit") => forced']_vars
  BY NextGoes DEF Goes, KeepsChanges
<1> QED
  BY <1>1, <1>2, <1>3, PTL DEF Spec, NothingIsLost

-----------------------------------------------------------------------------
(* Cursors *)

\* A View whose cursor is at the byte it was at, in a Buffer of n bytes, and
\* comes back to it
IsRight(rec, n) ==
  rec.cur = rec.mark /\ rec.mark <= n /\ (rec.restore = TRUE => rec.saved = rec.mark)

InPlace(s) ==
  \A v \in Views : s.views[v].buf # Nothing => IsRight(s.views[v], s.len[s.views[v].buf])

\* The other Views of the current Buffer get their cursors back later.
Watched(s) ==
  /\ s.views[s.view].restore = FALSE
  /\ \A v \in Views : v # s.view /\ s.views[v].buf = s.views[s.view].buf => s.views[v].restore = TRUE

\* The length of Buffers that are open
SameLen(s, t) == \A b \in Buffers : Exists(s, b) => t.len[b] = s.len[b]

\* A View more or less is no matter for the others.
LEMMA FewerInPlace ==
  ASSUME NEW s, EdTypes(s), InPlace(s), NEW t, SameLen(s, t),
         \A v \in Views : t.views[v] = s.views[v] \/ t.views[v] = NoView
  PROVE  InPlace(t)
<1> SUFFICES ASSUME NEW v \in Views, t.views[v].buf # Nothing
             PROVE  IsRight(t.views[v], t.len[t.views[v].buf])
  BY DEF InPlace
<1>1. t.views[v] = s.views[v]
  BY DEF NoView
<1>2. s.views[v].buf \in Buffers /\ Exists(s, s.views[v].buf)
  BY <1>1, ViewTypes DEF Exists, ViewsOf
<1> QED
  BY <1>1, <1>2 DEF InPlace, SameLen

LEMMA AddViewInPlace ==
  ASSUME NEW s, EdTypes(s), InPlace(s), NEW w, NEW b \in Buffers,
         NEW at \in ViewsOf(s, b) \cup {Nothing}, Unused(s) # {},
         NEW t, t = AddView(s, w, b, at)
  PROVE  InPlace(t) /\ t.len = s.len
<1> DEFINE from == IF at = Nothing THEN NoView ELSE s.views[at]
           rec == [NoView EXCEPT !.buf = b, !.win = w, !.cur = from.cur, !.mark = from.mark]
<1>1. PICK v \in Unused(s) : t = [s EXCEPT !.views[v] = rec]
  BY DEF AddView
<1>2. from.cur = from.mark /\ from.mark <= s.len[b]
  <2>1. CASE at = Nothing
    <3>1. from = NoView /\ s.len[b] \in 0..MaxLen
      BY <2>1 DEF EdTypes
    <3> QED
      BY <3>1, BoundsAssumption DEF NoView
  <2>2. CASE at # Nothing
    <3>1. at \in Views /\ s.views[at].buf = b /\ from = s.views[at]
      BY <2>2 DEF ViewsOf
    <3> QED
      BY <3>1, NothingIsNone DEF InPlace, IsRight
  <2> QED
    BY <2>1, <2>2
<1> HIDE DEF from
<1>3. rec.buf = b /\ rec.cur = rec.mark /\ rec.mark <= s.len[b] /\ rec.restore = FALSE
  BY <1>2 DEF NoView
<1> HIDE DEF rec
<1>4. /\ t.len = s.len
      /\ \A u \in Views : t.views[u] = IF u = v THEN rec ELSE s.views[u]
  BY <1>1 DEF EdTypes, Unused
<1> QED
  BY <1>3, <1>4 DEF InPlace, IsRight

LEMMA OpenEmptyInPlace ==
  ASSUME NEW s, EdTypes(s), InPlace(s), NEW w, NEW b \in Empties, ~Exists(s, b),
         Unused(s) # {}, NEW t, t = OpenEmpty(s, w, b)
  PROVE  InPlace(t)
<1> DEFINE r == [s EXCEPT !.len[b] = 0, !.fresh = @ \cup {b}]
<1>1. b \in Buffers /\ 0 \in 0..MaxLen
  BY NothingIsNone, BoundsAssumption
<1>2. /\ EdTypes(r) /\ r.views = s.views
      /\ \A c \in Buffers : c # b => r.len[c] = s.len[c]
  <2>1. [s.len EXCEPT ![b] = 0] \in [Buffers -> 0..MaxLen] /\ s.fresh \cup {b} \in SUBSET Buffers
    BY <1>1 DEF EdTypes
  <2>2. r = [s EXCEPT !.len = [s.len EXCEPT ![b] = 0], !.fresh = s.fresh \cup {b}]
    BY DEF EdTypes
  <2> HIDE DEF r
  <2> QED
    BY <1>1, <2>1, <2>2 DEF EdTypes
<1>3. t = AddView(r, w, b, Nothing)
  BY DEF OpenEmpty
<1> HIDE DEF r
<1>4. InPlace(r) /\ Unused(r) # {}
  BY <1>2, FewerInPlace DEF SameLen, Unused
<1> QED
  BY <1>1, <1>2, <1>3, <1>4, AddViewInPlace

LEMMA OpenBufferInPlace ==
  ASSUME NEW s, EdTypes(s), InPlace(s), NEW w, NEW b \in Files, NEW n \in Sizes,
         NEW at \in ViewsOf(s, b) \cup {Nothing}, Room(s, w, b),
         NEW t, t = OpenBuffer(s, w, b, n, at)
  PROVE  InPlace(t)
<1>1. b \in Buffers /\ n \in 0..MaxLen
  BY NothingIsNone, BoundsAssumption
<1>2. CASE Tabs(s, w) \cap ViewsOf(s, b) # {}
  BY <1>2 DEF OpenBuffer, Exists
<1>3. CASE Tabs(s, w) \cap ViewsOf(s, b) = {} /\ ~Exists(s, b)
  <2> DEFINE r == [s EXCEPT !.len[b] = n]
  <2>1. /\ EdTypes(r) /\ r.views = s.views
        /\ \A c \in Buffers : c # b => r.len[c] = s.len[c]
    <3>1. [s.len EXCEPT ![b] = n] \in [Buffers -> 0..MaxLen]
      BY <1>1 DEF EdTypes
    <3>2. r = [s EXCEPT !.len = [s.len EXCEPT ![b] = n]]
      BY DEF EdTypes
    <3> HIDE DEF r
    <3> QED
      BY <1>1, <3>1, <3>2 DEF EdTypes
  <2>2. t = AddView(r, w, b, Nothing)
    BY <1>3 DEF OpenBuffer
  <2> HIDE DEF r
  <2>3. InPlace(r) /\ Unused(r) # {}
    BY <1>3, <2>1, FewerInPlace DEF SameLen, Unused, Room
  <2> QED
    BY <1>1, <2>1, <2>2, <2>3, AddViewInPlace
<1>4. CASE Tabs(s, w) \cap ViewsOf(s, b) = {} /\ Exists(s, b)
  <2>1. t = AddView(s, w, b, at) /\ Unused(s) # {}
    BY <1>4 DEF OpenBuffer, Room
  <2> QED
    BY <1>1, <2>1, AddViewInPlace
<1> QED
  BY <1>2, <1>3, <1>4

LEMMA RemoveViewInPlace ==
  ASSUME NEW s, EdTypes(s), InPlace(s), NEW v \in Views, s.views[v].win \in Windows,
         NEW t, t = RemoveView(s, v)
  PROVE  /\ InPlace(t) /\ t.len = s.len
         /\ t.view = (IF s.view = v THEN Nothing ELSE s.view)
         /\ \A u \in Views : t.views[u] = IF u = v THEN NoView ELSE s.views[u]
<1>1. /\ t.view = (IF s.view = v THEN Nothing ELSE s.view)
      /\ t.views = [s.views EXCEPT ![v] = NoView] /\ t.len = s.len
  BY DEF RemoveView, EdTypes
<1>2. \A u \in Views : t.views[u] = IF u = v THEN NoView ELSE s.views[u]
  BY <1>1 DEF EdTypes
<1>3. SameLen(s, t)
  BY <1>1 DEF SameLen
<1>4. InPlace(t)
  BY <1>2, <1>3, FewerInPlace
<1> QED
  BY <1>1, <1>2, <1>4

LEMMA RemoveViewsInPlace ==
  ASSUME NEW s, EdTypes(s), InPlace(s), NEW w \in Windows, NEW t, t = RemoveViews(s, w)
  PROVE  InPlace(t)
<1>1. t.views = [v \in Views |-> IF v \in Tabs(s, w) THEN NoView ELSE s.views[v]] /\ t.len = s.len
  BY DEF RemoveViews, EdTypes
<1>2. \A u \in Views : t.views[u] = s.views[u] \/ t.views[u] = NoView
  BY <1>1
<1>3. SameLen(s, t)
  BY <1>1 DEF SameLen
<1> QED
  BY <1>2, <1>3, FewerInPlace

\* set_view puts the cursor back to where it was and saves those of the others.
LEMMA SetViewInPlace ==
  ASSUME NEW s, EdTypes(s), InPlace(s), NEW v \in Views, s.views[v].buf # Nothing,
         s.view = v => Watched(s), NEW t, t = SetView(s, v)
  PROVE  InPlace(t) /\ Watched(t) /\ t.view = v /\ t.len = s.len
<1>1. CASE s.view = v
  BY <1>1 DEF SetView
<1>2. CASE s.view # v
  <2> DEFINE b == s.views[v].buf
             rec == s.views[v]
             views == [u \in Views |->
                        CASE u = v -> Restored(s, v)
                          [] u # v /\ s.views[u].buf = b ->
                               [s.views[u] EXCEPT !.saved = s.views[u].cur, !.restore = TRUE]
                          [] OTHER -> s.views[u]]
  <2>1. t.view = v /\ t.views = views /\ t.len = s.len
    BY <1>2 DEF SetView, EdTypes
  <2>2. rec \in ViewRecs /\ b \in Buffers /\ IsRight(rec, s.len[b])
    BY ViewTypes DEF InPlace
  <2>3. /\ Restored(s, v).buf = b /\ Restored(s, v).restore = FALSE
        /\ Restored(s, v).cur = rec.mark /\ Restored(s, v).mark = rec.mark
    <3> DEFINE cur == IF rec.restore THEN GotoOffset(s, v, rec.saved) ELSE rec.cur
               saved == IF rec.restore THEN 0 ELSE rec.saved
    <3>1. cur = rec.mark
      <4>1. CASE rec.restore = TRUE
        BY <2>2, <4>1 DEF IsRight, GotoOffset
      <4>2. CASE rec.restore = FALSE
        BY <2>2, <4>2 DEF IsRight
      <4>3. rec.restore \in BOOLEAN
        BY <2>2 DEF ViewRecs
      <4> QED
        BY <4>1, <4>2, <4>3
    <3>2. Restored(s, v) = [rec EXCEPT !.cur = cur, !.restore = FALSE, !.saved = saved, !.mark = cur]
      BY DEF Restored
    <3> HIDE DEF cur, saved
    <3> QED
      BY <2>2, <3>1, <3>2 DEF ViewRecs
  <2>4. ASSUME NEW u \in Views, u # v, s.views[u].buf = b
        PROVE  /\ views[u].buf = b /\ views[u].cur = s.views[u].mark
               /\ views[u].mark = s.views[u].mark /\ views[u].saved = s.views[u].mark
               /\ views[u].restore = TRUE /\ s.views[u].mark <= s.len[b]
    <3>1. s.views[u] \in ViewRecs /\ IsRight(s.views[u], s.len[b])
      BY <2>2, <2>4, ViewTypes, NothingIsNone DEF InPlace
    <3>2. views[u] = [s.views[u] EXCEPT !.saved = s.views[u].cur, !.restore = TRUE]
      BY <2>4
    <3> HIDE DEF views
    <3> QED
      BY <2>4, <3>1, <3>2 DEF ViewRecs, IsRight
  <2>5. \A u \in Views : u # v /\ s.views[u].buf # b => views[u] = s.views[u]
    OBVIOUS
  <2>6. views[v] = Restored(s, v)
    OBVIOUS
  <2> HIDE DEF views
  <2>7. InPlace(t)
    <3> SUFFICES ASSUME NEW u \in Views, views[u].buf # Nothing
                 PROVE  IsRight(views[u], s.len[views[u].buf])
      BY <2>1 DEF InPlace
    <3>1. CASE u = v
      BY <2>2, <2>3, <2>6, <3>1 DEF IsRight
    <3>2. CASE u # v /\ s.views[u].buf = b
      BY <2>4, <3>2 DEF IsRight
    <3>3. CASE u # v /\ s.views[u].buf # b
      BY <2>5, <3>3 DEF InPlace
    <3> QED
      BY <3>1, <3>2, <3>3
  <2>8. Watched(t)
    <3>1. t.views[t.view].restore = FALSE /\ t.views[t.view].buf = b
      BY <2>1, <2>3, <2>6
    <3>2. ASSUME NEW u \in Views, u # v, views[u].buf = b
          PROVE  views[u].restore = TRUE
      BY <2>4, <2>5, <3>2
    <3> QED
      BY <2>1, <3>1, <3>2 DEF Watched
  <2> QED
    BY <2>1, <2>7, <2>8
<1> QED
  BY <1>1, <1>2

LEMMA MaybeSetViewInPlace ==
  ASSUME NEW s, EdTypes(s), InPlace(s), NEW w \in Windows, NEW v \in Tabs(s, w),
         NEW prev \in Tabs(s, w) \cup {Nothing},
         s.view = v \/ v = prev => Watched(s),
         NEW setPrev \in BOOLEAN, NEW t, t = MaybeSetView(s, w, v, prev, setPrev),
         EdTypes(SetView(s, v)), SamePlaces(s, SetView(s, v))
  PROVE  InPlace(t) /\ Watched(t)
<1> DEFINE u == SetView(s, v)
<1>0. v \in Views /\ s.views[v].buf # Nothing
  BY TabIs, NothingIsNone
<1>1. InPlace(u) /\ Watched(u) /\ u.view = v /\ EdTypes(u)
  BY <1>0, SetViewInPlace
<1>2. v \in Views /\ SamePlaces(s, u)
  BY <1>0
<1> HIDE DEF u
<1>3. CASE v = prev
  <2>1. t = s
    BY <1>3, Zenon DEF MaybeSetView
  <2> QED
    BY <1>3, <2>1
<1>4. CASE v # prev /\ prev # Nothing /\ IsUseless(s, w, prev)
  <2>1. t = RemoveView(u, prev)
    BY <1>4, Zenon DEF MaybeSetView, u
  <2>2. prev \in Views /\ u.views[prev].win \in Windows
    BY <1>2, <1>4 DEF Tabs, SamePlaces
  <2>3. /\ InPlace(t) /\ t.view = (IF u.view = prev THEN Nothing ELSE u.view)
        /\ \A x \in Views : t.views[x] = IF x = prev THEN NoView ELSE u.views[x]
    BY <1>1, <2>1, <2>2, RemoveViewInPlace
  <2>4. t.view = v /\ t.views[v] = u.views[v] /\ u.views[v].buf # Nothing
    BY <1>0, <1>1, <1>2, <1>4, <2>3 DEF SamePlaces
  <2>5. Watched(t)
    BY <1>1, <2>3, <2>4 DEF Watched, NoView
  <2> QED
    BY <2>3, <2>5
<1>5. CASE v # prev /\ ~(prev # Nothing /\ IsUseless(s, w, prev))
  <2>1. t = IF setPrev THEN [u EXCEPT !.prev[w] = prev] ELSE u
    BY <1>5, Zenon DEF MaybeSetView, u
  <2>2. t.views = u.views /\ t.view = u.view /\ t.len = u.len
    BY <1>1, <2>1 DEF EdTypes
  <2> QED
    BY <1>1, <2>2 DEF InPlace, Watched
<1> QED
  BY <1>3, <1>4, <1>5

\* window_open_empty_buffer and set_view
LEMMA EmptyInPlace ==
  ASSUME NEW s, NEW w, Ready(s, w), InPlace(s), NEW b \in Empties, ~Exists(s, b), Unused(s) # {},
         s.view \notin Unused(s),
         NEW r, r = OpenEmpty(s, w, b), NEW t, t = SetView(r, ViewIn(r, w, b))
  PROVE  InPlace(t) /\ Watched(t) /\ t.view \in Views
<1>1. Loose(s) /\ w \in s.wins /\ EdTypes(s) /\ w \in Windows
  BY DEF Ready, Loose, EdTypes
<1>2. Added(s, r, w, b) /\ ViewIn(r, w, b) \in Unused(s)
  BY <1>1, OpenEmptyAdds
<1>3. InPlace(r) /\ EdTypes(r) /\ ViewIn(r, w, b) \in Tabs(r, w) /\ r.view # ViewIn(r, w, b)
  BY <1>1, <1>2, OpenEmptyInPlace DEF Added, Loose
<1>4. ViewIn(r, w, b) \in Views /\ r.views[ViewIn(r, w, b)].buf # Nothing
  BY <1>1, <1>3, TabIs, NothingIsNone
<1> QED
  BY <1>3, <1>4, SetViewInPlace

\* A state of which only prev_view of a window changes
LEMMA PrevInPlace ==
  ASSUME NEW s, EdTypes(s), InPlace(s), Watched(s), NEW w, NEW prev,
         NEW t, t = [s EXCEPT !.prev[w] = prev]
  PROVE  InPlace(t) /\ Watched(t)
<1>1. t.views = s.views /\ t.len = s.len /\ t.view = s.view
  BY DEF EdTypes
<1> QED
  BY <1>1 DEF InPlace, Watched

LEMMA NewFileInPlace ==
  ASSUME NEW s, NEW w, Ready(s, w), InPlace(s), NEW b \in Empties, ~Exists(s, b), Unused(s) # {},
         s.view \notin Unused(s), NEW t, t = OpenNewFile(s, w, b)
  PROVE  InPlace(t) /\ Watched(t)
<1> DEFINE r == OpenEmpty(s, w, b)
           u == SetView(r, ViewIn(r, w, b))
<1>1. Sound(u)
  BY EmptyIsShown
<1>2. InPlace(u) /\ Watched(u)
  BY EmptyInPlace
<1>3. t = [u EXCEPT !.prev[w] = s.on[w]]
  BY DEF OpenNewFile
<1> HIDE DEF u
<1> QED
  BY <1>1, <1>2, <1>3, PrevInPlace DEF Sound, Loose

\* Between a screen update and the next command
Settled == ViewsInv /\ InPlace(ed) /\ Watched(ed)
Settles ==
  /\ InPlace(ed') /\ Watched(ed')
  /\ Compound = FALSE => pc' # "idle"

LEMMA RunSettles ==
  ASSUME NEW group, NEW s, NEW full, NEW force, Run(group, s, full, force), InPlace(s), Watched(s)
  PROVE  Settles
<1>1. ed' = s /\ pc' \in IF Compound THEN {"idle", "update"} ELSE {"update"}
  BY DEF Run
<1>2. Compound = FALSE => pc' # "idle"
  BY <1>1
<1> QED
  BY <1>1, <1>2 DEF Settles

LEMMA SourcesIn ==
  ASSUME NEW b, NEW at \in Sources(ed, b)
  PROVE  at \in ViewsOf(ed, b) \cup {Nothing}
  BY DEF Sources

\* What SwitchGoes is about
LEMMA SwitchSettles ==
  ASSUME Settled, NEW v \in Views, ed.views[v].buf # Nothing, NEW group,
         Run(group, SetView(ed, v), FALSE, FALSE)
  PROVE  Settles
<1>1. EdTypes(ed) /\ InPlace(ed) /\ Watched(ed)
  BY DEF Settled, ViewsInv, Sound, Loose
<1>2. InPlace(SetView(ed, v)) /\ Watched(SetView(ed, v))
  BY <1>1, SetViewInPlace
<1> QED
  BY <1>2, RunSettles

LEMMA TabSettles ==
  ASSUME Settled, NEW v \in Views, Tab(v) \/ WCloseRefused(v) \/ QuitRefused(v)
  PROVE  Settles
<1>1. /\ EdTypes(ed) /\ ed.window \in Windows
      /\ ed.modified \subseteq Buffers
  BY SoundIsReady DEF Settled, ViewsInv, Sound, Loose, EdTypes
<1>2. CASE Tab(v) \/ WCloseRefused(v)
  <2>1. /\ v \in Tabs(ed, ed.window)
        /\ Run("tab", SetView(ed, v), FALSE, FALSE) \/ Run("wclose", SetView(ed, v), FALSE, FALSE)
    BY <1>2, Zenon DEF Tab, WCloseRefused, Uncloseable
  <2>2. ed.views[v].buf # Nothing
    BY <1>1, <2>1, TabIs, NothingIsNone
  <2> QED
    BY <2>1, <2>2, SwitchSettles
<1>4. CASE QuitRefused(v)
  <2>1. ed.views[v].buf \in ed.modified /\ Run("quit", SetView(ed, v), FALSE, FALSE)
    BY <1>4 DEF QuitRefused, Modified
  <2> QED
    BY <1>1, <2>1, NothingIsNone, SwitchSettles
<1> QED
  BY <1>2, <1>4

LEMMA OpenSettles ==
  ASSUME Settled, NEW b \in Files, NEW n \in Sizes, NEW at \in Sources(ed, b), Open(b, n, at)
  PROVE  Settles
<1> DEFINE w == ed.window
           t == OpenBuffer(ed, w, b, n, at)
           v == ViewIn(t, w, b)
           more == t # ed
           r == MaybeSetView(t, w, v, ed.on[w], more)
<1>1. /\ Sound(ed) /\ InPlace(ed) /\ Watched(ed)
      /\ w \in ed.wins /\ Loose(ed) /\ w \in Windows /\ ed.on[w] \in Tabs(ed, w)
      /\ ed.view = ed.on[w] /\ ed.view \notin Unused(ed)
      /\ at \in Views \cup {Nothing} /\ at \in ViewsOf(ed, b) \cup {Nothing}
      /\ Room(ed, w, b) /\ Run("open", r, FALSE, FALSE)
  BY SoundIsReady, SourcesAre, SourcesIn DEF Settled, ViewsInv, Sound, Open
<1>2. Added(ed, t, w, b) /\ (t = ed \/ v \in Unused(ed))
  BY <1>1, OpenBufferAdds
<1>3. /\ Sound(t) /\ w \in t.wins /\ v \in Tabs(t, w) /\ ed.on[w] \in Tabs(t, w)
      /\ t.view = ed.view
  BY <1>1, <1>2, AddedIsSound DEF Added
<1>4. InPlace(t)
  BY <1>1, OpenBufferInPlace DEF Loose
<1>5. t.view = v \/ v = ed.on[w] => Watched(t)
  BY <1>1, <1>2, <1>3
<1>6. more \in BOOLEAN
  OBVIOUS
<1> HIDE DEF t, v, more
<1>7. EdTypes(SetView(t, v)) /\ SamePlaces(t, SetView(t, v))
  BY <1>3, SoundIsReady, SetViewSets DEF Sound, Loose
<1>8. InPlace(r) /\ Watched(r)
  BY <1>1, <1>3, <1>4, <1>5, <1>6, <1>7, MaybeSetViewInPlace DEF Sound, Loose
<1> HIDE DEF r
<1> QED
  BY <1>1, <1>8, RunSettles

LEMMA JumpSettles ==
  ASSUME Settled, NEW b \in Files, NEW n \in Sizes, NEW at \in Sources(ed, b),
         NEW p \in 0..MaxLen, Jump(b, n, at, p)
  PROVE  Settles
<1> DEFINE w == ed.window
           t == OpenBuffer(ed, w, b, n, at)
           v == ViewIn(t, w, b)
           u == SetView(t, v)
           r == [u EXCEPT !.views[v].cur = p, !.views[v].mark = p]
<1>1. /\ Sound(ed) /\ InPlace(ed) /\ Watched(ed)
      /\ w \in ed.wins /\ Loose(ed) /\ w \in Windows /\ ed.view \notin Unused(ed)
      /\ at \in Views \cup {Nothing} /\ at \in ViewsOf(ed, b) \cup {Nothing}
      /\ Room(ed, w, b) /\ p <= t.len[b] /\ Run("jump", r, FALSE, FALSE)
  BY SoundIsReady, SourcesAre, SourcesIn DEF Settled, ViewsInv, Sound, Jump
<1>2. Added(ed, t, w, b) /\ (t = ed \/ v \in Unused(ed))
  BY <1>1, OpenBufferAdds
<1>3. Sound(t) /\ w \in t.wins /\ v \in Tabs(t, w) \cap ViewsOf(t, b) /\ t.view = ed.view
  BY <1>1, <1>2, AddedIsSound DEF Added
<1>4. InPlace(t)
  BY <1>1, OpenBufferInPlace DEF Loose
<1>5. t.view = v => Watched(t)
  BY <1>1, <1>2, <1>3
<1> HIDE DEF t, v
<1>6. v \in Views /\ t.views[v].buf = b /\ b # Nothing /\ EdTypes(t)
  BY <1>3, NothingIsNone DEF ViewsOf, Sound, Loose
<1>7. Sound(u) /\ SamePlaces(t, u) /\ EdTypes(u)
  <2>1. Ready(t, w)
    BY <1>3, SoundIsReady
  <2>2. Sound(u) /\ SamePlaces(t, u)
    BY <1>3, <2>1, SetViewSets
  <2> HIDE DEF u
  <2> QED
    BY <2>2 DEF Sound, Loose
<1>8. InPlace(u) /\ Watched(u) /\ u.view = v /\ u.len = t.len
  BY <1>4, <1>5, <1>6, SetViewInPlace
<1> HIDE DEF u
<1>9. u.views[v].buf = b /\ u.views[v] \in ViewRecs
  BY <1>6, <1>7, ViewTypes DEF SamePlaces
<1> DEFINE rec == [u.views[v] EXCEPT !.cur = p, !.mark = p]
<1>10. /\ rec.buf = b /\ rec.cur = p /\ rec.mark = p /\ rec.restore = u.views[v].restore
  BY <1>9 DEF ViewRecs
<1>11. /\ r.view = v /\ r.len = t.len
       /\ \A x \in Views : r.views[x] = IF x = v THEN rec ELSE u.views[x]
  <2>1. r = [u EXCEPT !.views = [u.views EXCEPT ![v] = rec]]
    BY <1>7 DEF EdTypes
  <2> HIDE DEF r, rec
  <2> QED
    BY <1>7, <1>8, <2>1 DEF EdTypes
<1> HIDE DEF r, rec
<1>12. Watched(r)
  BY <1>6, <1>8, <1>9, <1>10, <1>11 DEF Watched
<1>13. InPlace(r)
  <2> SUFFICES ASSUME NEW x \in Views, r.views[x].buf # Nothing
               PROVE  IsRight(r.views[x], t.len[r.views[x].buf])
    BY <1>11 DEF InPlace
  <2>1. CASE x = v
    BY <1>1, <1>8, <1>10, <1>11, <2>1 DEF IsRight, Watched
  <2>2. CASE x # v
    BY <1>8, <1>11, <2>2 DEF InPlace
  <2> QED
    BY <2>1, <2>2
<1> QED
  BY <1>1, <1>12, <1>13, RunSettles

\* With two filenames: a View that was in use already stays alone in its
\* window, or there would be one that is not shown.
LEMMA OpenTwoSettles ==
  ASSUME Settled, NEW b \in Files, NEW c \in Files, NEW n \in Sizes,
         NEW atB \in Sources(ed, b), NEW atC \in Sources(ed, c), OpenTwo(b, c, n, atB, atC),
         AllShown(ed')
  PROVE  Settles
<1> DEFINE w == ed.window
           t == OpenBuffer(ed, w, b, n, atB)
           u == OpenBuffer(t, w, c, n, atC)
           v == ViewIn(u, w, b)
           more == (t = ed) # (t = u)
           r == MaybeSetView(u, w, v, ed.on[w], more)
<1>1. /\ Sound(ed) /\ InPlace(ed) /\ Watched(ed) /\ EdTypes(ed)
      /\ w \in ed.wins /\ Loose(ed) /\ w \in Windows /\ ed.on[w] \in Tabs(ed, w)
      /\ ed.view = ed.on[w] /\ ed.view \notin Unused(ed)
      /\ atB \in Views \cup {Nothing} /\ atC \in Views \cup {Nothing}
      /\ atB \in ViewsOf(ed, b) \cup {Nothing} /\ atC \in ViewsOf(ed, c) \cup {Nothing}
  BY SoundIsReady, SourcesAre, SourcesIn DEF Settled, ViewsInv, Sound
<1>2. Room(ed, w, b) /\ Room(t, w, c) /\ Run("open", r, FALSE, FALSE)
  BY DEF OpenTwo
<1>3. b \in Buffers /\ c \in Buffers
  BY NothingIsNone
<1>4. Added(ed, t, w, b) /\ InPlace(t)
  <2>1. Added(ed, t, w, b)
    BY <1>1, <1>2, OpenBufferAdds
  <2>2. InPlace(t)
    BY <1>1, <1>2, OpenBufferInPlace
  <2> QED
    BY <2>1, <2>2
<1>5. Tabs(ed, w) \cap ViewsOf(ed, b) # {} => t = ed
  <2>1. Tabs(ed, w) \cap ViewsOf(ed, b) # {} => Exists(ed, b)
    BY DEF Exists
  <2> QED
    BY <2>1, Zenon DEF OpenBuffer
<1>6. /\ Sound(t) /\ Loose(t) /\ EdTypes(t) /\ w \in t.wins
      /\ ed.on[w] \in Tabs(t, w) /\ t.on = ed.on /\ t.view = ed.view
      /\ Tabs(t, w) \cap ViewsOf(t, b) # {}
      /\ atC \in ViewsOf(t, c) \cup {Nothing}
  BY <1>1, <1>3, <1>4, AddedIsSound DEF Added, Loose
<1> HIDE DEF t, more
<1>7. /\ Added(t, u, w, c) /\ InPlace(u)
      /\ u = t \/ ViewIn(u, w, c) \in Unused(t)
  <2>1. Added(t, u, w, c) /\ (u = t \/ ViewIn(u, w, c) \in Unused(t))
    BY <1>1, <1>2, <1>6, OpenBufferAdds
  <2>2. InPlace(u)
    BY <1>1, <1>2, <1>4, <1>6, OpenBufferInPlace
  <2> QED
    BY <2>1, <2>2
<1>8. /\ Sound(u) /\ w \in u.wins /\ ed.on[w] \in Tabs(u, w)
      /\ u.on = ed.on /\ u.view = ed.view
      /\ Tabs(u, w) \cap ViewsOf(u, b) # {} /\ ViewIn(u, w, c) \in Tabs(u, w)
  BY <1>1, <1>3, <1>6, <1>7, AddedIsSound DEF Added
<1>9. v \in Tabs(u, w) \cap ViewsOf(u, b)
  BY <1>8 DEF ViewIn
<1> HIDE DEF v
<1>10. ASSUME v = ed.on[w]
      PROVE  Watched(u)
  <2> DEFINE d == ed.views[ed.view].buf
  <2>1. d \in Buffers /\ ed.view \in ViewsOf(ed, d)
    BY <1>1, TabIs DEF ViewsOf
  <2>2. ed.view \in ViewsOf(u, d)
    BY <1>4, <1>7, <2>1 DEF Added
  <2>3. d = b
    BY <1>1, <1>9, <1>10, <2>2 DEF ViewsOf
  <2>4. t = ed
    BY <1>1, <1>5, <2>1, <2>3
  <2>5. AllShown(u)
    <3>1. r = u
      BY <1>10, Zenon DEF MaybeSetView
    <3> QED
      BY <1>2, <3>1 DEF Run
  <2>6. ViewIn(u, w, c) \in Views /\ u.views[ViewIn(u, w, c)].win = w
        /\ u.views[ViewIn(u, w, c)].buf # Nothing
    BY <1>1, <1>8, TabIs, NothingIsNone DEF Sound, Loose
  <2>7. ViewIn(u, w, c) = ed.view
    BY <1>1, <1>8, <2>5, <2>6 DEF AllShown
  <2>8. u = ed
    BY <1>1, <1>7, <2>4, <2>7
  <2> QED
    BY <1>1, <2>8
<1>11. EdTypes(SetView(u, v)) /\ SamePlaces(u, SetView(u, v))
  <2>1. v = u.view => Sound(u)
    BY <1>8
  <2>2. Ready(u, w)
    BY <1>8, SoundIsReady
  <2>3. Sound(SetView(u, v)) /\ SamePlaces(u, SetView(u, v))
    BY <1>9, <2>1, <2>2, SetViewSets
  <2> QED
    BY <2>3 DEF Sound, Loose
<1> HIDE DEF u
<1>12. more \in BOOLEAN
  BY DEF more
<1>13. EdTypes(u)
  BY <1>8 DEF Sound, Loose
<1>14. InPlace(r) /\ Watched(r)
  BY <1>1, <1>7, <1>8, <1>9, <1>10, <1>11, <1>12, <1>13, MaybeSetViewInPlace
<1> HIDE DEF r
<1> QED
  BY <1>2, <1>14, RunSettles

LEMMA OpenNewSettles ==
  ASSUME Settled, NEW b \in NewEmpties, OpenNew(b)
  PROVE  Settles
<1> DEFINE w == ed.window
           r == OpenNewFile(ed, w, b)
<1>1. /\ Sound(ed) /\ InPlace(ed) /\ w \in ed.wins /\ Unused(ed) # {}
      /\ Run("open", r, FALSE, FALSE) /\ b \in Empties /\ ~Exists(ed, b)
  BY DEF Settled, ViewsInv, OpenNew, NewEmpties, Sound
<1>2. Ready(ed, w) /\ ed.view \notin Unused(ed)
  BY <1>1, SoundIsReady
<1>3. InPlace(r) /\ Watched(r)
  BY <1>1, <1>2, NewFileInPlace
<1> HIDE DEF r
<1> QED
  BY <1>1, <1>3, RunSettles

LEMMA SplitInPlace ==
  ASSUME Sound(ed), InPlace(ed), NEW w, NEW s, s = Split(w)
  PROVE  InPlace(s) /\ s.views = ed.views /\ s.len = ed.len
<1>1. s.views = ed.views /\ s.len = ed.len
  BY DEF Split, Sound, Loose, EdTypes
<1> QED
  BY <1>1 DEF InPlace

LEMMA WSplitSettles ==
  ASSUME Settled, NEW w \in Windows, WSplit(w)
  PROVE  Settles
<1> DEFINE b == ed.views[ed.view].buf
           s == Split(w)
           t == AddView(s, w, b, ed.view)
           v == ViewIn(t, w, b)
           r == SetView(t, v)
<1>1. /\ Sound(ed) /\ InPlace(ed) /\ w \in Windows \ ed.wins /\ Unused(ed) # {}
      /\ Run("window", r, TRUE, FALSE)
      /\ b \in Buffers /\ ed.view \in Views
  BY HereIs DEF Settled, ViewsInv, WSplit, Here
<1>2. /\ Loose(s) /\ w \in s.wins
      /\ s.view = Nothing /\ Tabs(s, w) = {} /\ Unused(s) = Unused(ed)
      /\ InPlace(s) /\ s.views = ed.views
  BY <1>1, SplitIsReady, SplitInPlace
<1> HIDE DEF s
<1>3. EdTypes(s) /\ Linked(s) /\ Once(s) /\ ed.view \in ViewsOf(s, b)
  BY <1>1, <1>2 DEF Loose, ViewsOf
<1> HIDE DEF b
<1>4. EdTypes(t) /\ t.view = s.view /\ v \in Tabs(t, w) /\ InPlace(t)
  BY <1>1, <1>2, <1>3, AddViewAdds, AddViewInPlace
<1> HIDE DEF t, v
<1>5. v \in Views /\ t.views[v].buf # Nothing /\ t.view # v
  BY <1>1, <1>2, <1>4, TabIs, NothingIsNone
<1>6. InPlace(r) /\ Watched(r)
  BY <1>4, <1>5, SetViewInPlace
<1> HIDE DEF r
<1> QED
  BY <1>1, <1>6, RunSettles

LEMMA WSplitNewSettles ==
  ASSUME Settled, NEW w \in Windows, NEW b \in NewEmpties, WSplitNew(w, b)
  PROVE  Settles
<1> DEFINE s == Split(w)
           r == OpenNewFile(s, w, b)
<1>1. /\ Sound(ed) /\ InPlace(ed) /\ w \in Windows \ ed.wins /\ Unused(ed) # {}
      /\ Run("window", r, TRUE, FALSE) /\ b \in Empties /\ ~Exists(ed, b)
  BY DEF Settled, ViewsInv, WSplitNew, NewEmpties
<1>2. /\ Ready(s, w) /\ SamePlaces(ed, s)
      /\ s.view = Nothing /\ Unused(s) = Unused(ed) /\ InPlace(s)
  BY <1>1, SplitIsReady, SplitInPlace
<1> HIDE DEF s
<1>3. ~Exists(s, b) /\ Unused(s) # {} /\ s.view \notin Unused(s)
  BY <1>1, <1>2, PlacesKept, NothingIsNone DEF Unused
<1>4. InPlace(r) /\ Watched(r)
  BY <1>1, <1>2, <1>3, NewFileInPlace
<1> HIDE DEF r
<1> QED
  BY <1>1, <1>4, RunSettles

LEMMA WSplitFileSettles ==
  ASSUME Settled, NEW w \in Windows, NEW b \in Files, NEW n \in Sizes, NEW at \in Sources(ed, b),
         WSplitFile(w, b, n, at)
  PROVE  Settles
<1> DEFINE s == Split(w)
           t == OpenBuffer(s, w, b, n, at)
           v == ViewIn(t, w, b)
           r == MaybeSetView(t, w, v, Nothing, TRUE)
<1>1. /\ Sound(ed) /\ InPlace(ed) /\ w \in Windows \ ed.wins /\ Unused(ed) # {}
      /\ Run("window", r, TRUE, FALSE) /\ at \in Views \cup {Nothing}
      /\ at \in ViewsOf(ed, b) \cup {Nothing}
  BY SourcesAre, SourcesIn DEF Settled, ViewsInv, WSplitFile
<1>2. /\ Ready(s, w) /\ Loose(s) /\ SamePlaces(ed, s) /\ w \in s.wins
      /\ s.view = Nothing /\ Unused(s) = Unused(ed) /\ InPlace(s)
  BY <1>1, SplitIsReady, SplitInPlace
<1> HIDE DEF s
<1>3. Room(s, w, b) /\ EdTypes(s) /\ at \in ViewsOf(s, b) \cup {Nothing}
  BY <1>1, <1>2, PlacesKept DEF Room, Loose
<1>4. Added(s, t, w, b) /\ InPlace(t)
  BY <1>1, <1>2, <1>3, OpenBufferAdds, OpenBufferInPlace
<1>5. Ready(t, w) /\ v \in Tabs(t, w) /\ t.view = Nothing /\ EdTypes(t)
  BY <1>2, <1>4, AddedIsReady DEF Added, Loose
<1>6. v \in Views /\ v # Nothing
  BY <1>5, NothingIsNone DEF Tabs
<1> HIDE DEF t, v
<1>7. EdTypes(SetView(t, v)) /\ SamePlaces(t, SetView(t, v))
  <2>1. Sound(SetView(t, v)) /\ SamePlaces(t, SetView(t, v))
    BY <1>5, <1>6, SetViewSets
  <2> QED
    BY <2>1 DEF Sound, Loose
<1>8. InPlace(r) /\ Watched(r)
  BY <1>1, <1>4, <1>5, <1>6, <1>7, MaybeSetViewInPlace
<1> HIDE DEF r
<1> QED
  BY <1>1, <1>8, RunSettles

LEMMA CloseSettles ==
  ASSUME Settled, NEW force \in BOOLEAN, NEW v \in Views, Close(force, v)
  PROVE  Settles
<1> DEFINE w == ed.window
           t == RemoveView(ed, ed.view)
           r == SetView(t, v)
<1>1. /\ Sound(ed) /\ InPlace(ed) /\ Closable(force) /\ Run("close", r, FALSE, force)
      /\ v \in (IF t.prev[w] # Nothing THEN {t.prev[w]} ELSE Tabs(t, w))
  BY DEF Settled, ViewsInv, Close
<1>2. /\ Ready(t, w) /\ t.view = Nothing
      /\ t.prev[w] # Nothing => t.prev[w] \in Tabs(t, w)
  BY <1>1, CurrentCloses
<1>3. InPlace(t)
  <2>1. EdTypes(ed) /\ ed.view \in Views /\ ed.views[ed.view].win \in Windows
    BY <1>1, HereIs DEF Sound, Loose, ViewRecs
  <2> QED
    BY <1>1, <2>1, RemoveViewInPlace
<1> HIDE DEF t
<1>4. v \in Tabs(t, w) /\ t.view # v /\ EdTypes(t) /\ w \in Windows
  BY <1>1, <1>2, NothingIsNone DEF Ready, Loose, EdTypes
<1>5. t.views[v].buf # Nothing
  BY <1>4, TabIs, NothingIsNone
<1>6. InPlace(r) /\ Watched(r)
  BY <1>3, <1>4, <1>5, SetViewInPlace
<1> HIDE DEF r
<1> QED
  BY <1>1, <1>6, RunSettles

LEMMA CloseLastSettles ==
  ASSUME Settled, NEW force \in BOOLEAN, NEW b \in NewEmpties, CloseLast(force, b)
  PROVE  Settles
<1> DEFINE w == ed.window
           q == RemoveView(ed, ed.view)
           t == OpenEmpty(q, w, b)
           r == SetView(t, ViewIn(t, w, b))
<1>1. /\ Sound(ed) /\ InPlace(ed) /\ Closable(force) /\ Run("close", r, FALSE, force)
      /\ b \in Empties /\ b \in Buffers /\ ~Exists(ed, b)
  BY NothingIsNone DEF Settled, ViewsInv, CloseLast, NewEmpties
<1>2. /\ Ready(q, w) /\ q.view = Nothing /\ Unused(q) # {} /\ ~Exists(q, b)
  BY <1>1, CurrentCloses
<1>3. q.view \notin Unused(q)
  BY <1>2, NothingIsNone DEF Unused
<1>4. InPlace(q)
  <2>1. EdTypes(ed) /\ ed.view \in Views /\ ed.views[ed.view].win \in Windows
    BY <1>1, HereIs DEF Sound, Loose, ViewRecs
  <2> QED
    BY <1>1, <2>1, RemoveViewInPlace
<1> HIDE DEF q
<1>5. InPlace(r) /\ Watched(r)
  BY <1>1, <1>2, <1>3, <1>4, EmptyInPlace
<1> HIDE DEF r
<1> QED
  BY <1>1, <1>5, RunSettles

LEMMA NextWindowSettles ==
  ASSUME Settled, NEW w \in Windows, NextWindow(w)
  PROVE  Settles
<1> DEFINE s == [ed EXCEPT !.window = w]
           t == SetView(s, ed.on[w])
<1>1. /\ Sound(ed) /\ InPlace(ed) /\ w \in ed.wins /\ w # ed.window /\ Run("window", t, TRUE, FALSE)
      /\ EdTypes(ed) /\ ed.view \in Tabs(ed, ed.window) /\ ed.on[w] \in Tabs(ed, w)
  BY SoundIsReady DEF Settled, ViewsInv, NextWindow
<1>2. EdTypes(s) /\ s.view = ed.view /\ s.views = ed.views /\ s.len = ed.len
  BY <1>1 DEF EdTypes
<1> HIDE DEF s
<1>3. InPlace(s) /\ s.view # ed.on[w]
  BY <1>1, <1>2 DEF InPlace, Tabs
<1>4. ed.on[w] \in Views /\ s.views[ed.on[w]].buf # Nothing
  BY <1>1, <1>2, TabIs, NothingIsNone
<1>5. InPlace(t) /\ Watched(t)
  BY <1>2, <1>3, <1>4, SetViewInPlace
<1> HIDE DEF t
<1> QED
  BY <1>1, <1>5, RunSettles

LEMMA OnlyWindowSettles ==
  ASSUME NEW s, Sound(s), InPlace(s), NEW w, s.wins = {w}, NEW b \in Empties, ~Exists(s, b),
         NEW t, t = CloseOnly(s, w, b)
  PROVE  InPlace(t) /\ Watched(t)
<1> DEFINE q == RemoveViews(s, w)
           r == OpenEmpty(q, w, b)
<1>1. /\ w \in s.wins /\ Loose(s) /\ s.view \in Tabs(s, w) /\ b \in Buffers
      /\ EdTypes(s) /\ w \in Windows
  BY SoundIsReady, NothingIsNone DEF Sound
<1>2. /\ Loose(q) /\ q.wins = s.wins
      /\ q.view = (IF s.view \in Tabs(s, w) THEN Nothing ELSE s.view)
      /\ \A c \in Buffers : Exists(q, c) => Exists(s, c)
      /\ Tabs(s, w) # {} => Unused(q) # {}
  BY <1>1, RemoveViewsRemoves
<1>3. InPlace(q)
  BY <1>1, RemoveViewsInPlace
<1>4. t = SetView(r, ViewIn(r, w, b))
  BY DEF CloseOnly
<1> HIDE DEF q
<1>5. Ready(q, w) /\ ~Exists(q, b) /\ Unused(q) # {} /\ q.view \notin Unused(q)
  BY <1>1, <1>2, NothingIsNone DEF Ready, Showing, Unused
<1> QED
  BY <1>3, <1>4, <1>5, EmptyInPlace

LEMMA WindowSettles ==
  ASSUME NEW s, Sound(s), InPlace(s), NEW w, w = s.window, NEW next \in s.wins \ {w},
         NEW t, t = CloseWindow(s, w, next)
  PROVE  InPlace(t) /\ Watched(t)
<1> DEFINE q == RemoveViews(s, w)
           r == [q EXCEPT !.on[w] = Nothing, !.wins = @ \ {w}, !.window = Nothing]
<1>1. /\ w \in s.wins /\ w \in Windows /\ next \in s.wins /\ next \in Windows
      /\ Loose(s) /\ EdTypes(s) /\ s.view \in Tabs(s, w)
      /\ \A x \in s.wins : s.on[x] \in Tabs(s, x)
  BY SoundIsReady DEF Sound
<1>2. /\ Loose(q) /\ q.on = s.on /\ q.view = Nothing
      /\ \A x \in Windows : x # w => Tabs(q, x) = Tabs(s, x)
  BY <1>1, RemoveViewsRemoves
<1>3. InPlace(q)
  BY <1>1, RemoveViewsInPlace
<1>4. t = SetView(r, q.on[next])
  BY DEF CloseWindow
<1> HIDE DEF q
<1>5. EdTypes(r) /\ r.views = q.views /\ r.len = q.len /\ r.view = Nothing
  <2> DEFINE on == [q.on EXCEPT ![w] = Nothing]
  <2>1. EdTypes(q)
    BY <1>2 DEF Loose
  <2>2. r = [q EXCEPT !.on = on, !.wins = q.wins \ {w}, !.window = Nothing]
    BY <2>1 DEF EdTypes
  <2>3. on \in [Windows -> Views \cup {Nothing}]
    BY <1>1, <2>1 DEF EdTypes
  <2> HIDE DEF on, r
  <2> QED
    BY <1>2, <2>1, <2>2, <2>3 DEF EdTypes
<1> HIDE DEF r
<1>6. InPlace(r)
  BY <1>3, <1>5 DEF InPlace
<1>7. q.on[next] \in Tabs(q, next) /\ EdTypes(q)
  BY <1>1, <1>2 DEF Loose
<1>8. q.on[next] \in Views /\ r.views[q.on[next]].buf # Nothing /\ r.view # q.on[next]
  BY <1>1, <1>5, <1>7, TabIs, NothingIsNone
<1> QED
  BY <1>4, <1>5, <1>6, <1>8, SetViewInPlace

LEMMA WCloseSettles ==
  ASSUME Settled, NEW force \in BOOLEAN, NEW b \in NewEmpties \cup {Nothing},
         NEW next \in Windows, WClose(force, b, next)
  PROVE  Settles
<1> DEFINE w == ed.window
           only == CloseOnly(ed, w, b)
           other == CloseWindow(ed, w, next)
<1>1. Sound(ed) /\ InPlace(ed)
  BY DEF Settled, ViewsInv
<1>2. CASE ed.wins = {w}
  <2>1. b \in Empties /\ ~Exists(ed, b) /\ Run("wclose", only, FALSE, force)
    BY <1>2 DEF WClose, NewEmpties
  <2>2. InPlace(only) /\ Watched(only)
    BY <1>1, <1>2, <2>1, OnlyWindowSettles
  <2> HIDE DEF only
  <2> QED
    BY <2>1, <2>2, RunSettles
<1>3. CASE ed.wins # {w}
  <2>1. next \in ed.wins \ {w} /\ Run("wclose", other, TRUE, force)
    BY <1>3 DEF WClose
  <2>2. InPlace(other) /\ Watched(other)
    BY <1>1, <2>1, WindowSettles
  <2> HIDE DEF other
  <2> QED
    BY <2>1, <2>2, RunSettles
<1> QED
  BY <1>2, <1>3

LEMMA SaveSettles ==
  ASSUME Settled, Save
  PROVE  Settles
<1> DEFINE r == [ed EXCEPT !.modified = @ \ {Here.buf}, !.fresh = @ \ {Here.buf}]
<1>1. EdTypes(ed) /\ InPlace(ed) /\ Watched(ed)
  BY DEF Settled, ViewsInv, Sound, Loose
<1>2. r.views = ed.views /\ r.view = ed.view /\ r.len = ed.len
  BY <1>1 DEF EdTypes
<1>3. Run("save", r, FALSE, FALSE)
  BY DEF Save
<1> HIDE DEF r
<1>4. InPlace(r) /\ Watched(r)
  BY <1>1, <1>2 DEF InPlace, Watched
<1> QED
  BY <1>3, <1>4, RunSettles

LEMMA MoveSettles ==
  ASSUME Settled, NEW p \in 0..MaxLen, Move(p)
  PROVE  Settles
<1> DEFINE v == ed.view
           rec == [ed.views[v] EXCEPT !.cur = p, !.mark = p]
           r == [ed EXCEPT !.views[v].cur = p, !.views[v].mark = p]
<1>1. /\ EdTypes(ed) /\ InPlace(ed) /\ Watched(ed) /\ v \in Views /\ ed.views[v] \in ViewRecs
      /\ p <= ed.len[ed.views[v].buf] /\ Run("move", r, FALSE, FALSE)
  BY HereIs DEF Settled, ViewsInv, Sound, Loose, Move, Size, Here
<1>2. /\ rec.buf = ed.views[v].buf /\ rec.cur = p /\ rec.mark = p
      /\ rec.restore = ed.views[v].restore
  BY <1>1 DEF ViewRecs
<1>3. /\ r.view = v /\ r.len = ed.len
      /\ \A u \in Views : r.views[u] = IF u = v THEN rec ELSE ed.views[u]
  <2>1. r = [ed EXCEPT !.views = [ed.views EXCEPT ![v] = rec]]
    BY <1>1 DEF EdTypes
  <2> HIDE DEF r, rec
  <2> QED
    BY <1>1, <2>1 DEF EdTypes
<1> HIDE DEF r, rec
<1>4. Watched(r)
  BY <1>1, <1>2, <1>3 DEF Watched
<1>5. InPlace(r)
  <2> SUFFICES ASSUME NEW u \in Views, r.views[u].buf # Nothing
               PROVE  IsRight(r.views[u], ed.len[r.views[u].buf])
    BY <1>3 DEF InPlace
  <2>1. CASE u = v
    BY <1>1, <1>2, <1>3, <2>1 DEF IsRight, Watched
  <2>2. CASE u # v
    BY <1>1, <1>3, <2>2 DEF InPlace
  <2> QED
    BY <2>1, <2>2
<1> QED
  BY <1>1, <1>4, <1>5, RunSettles

-----------------------------------------------------------------------------
(* Edits, and the screen update that follows *)

\* After an edit the cursors of the other Views of the Buffer are not moved
\* yet; what they get back is right.
Kept(s) ==
  \A v \in Views :
    s.views[v].buf # Nothing =>
      /\ s.views[v].mark <= s.len[s.views[v].buf]
      /\ s.views[v].restore = TRUE => s.views[v].saved = s.views[v].mark
      /\ v = s.view \/ s.views[v].buf # s.views[s.view].buf => s.views[v].cur = s.views[v].mark

LEMMA InPlaceIsKept ==
  ASSUME NEW s, InPlace(s)
  PROVE  Kept(s)
  BY DEF InPlace, IsRight, Kept

\* An offset in the text stays in it.
LEMMA FollowIsInText ==
  ASSUME NEW n \in Nat, NEW offset \in Nat, offset <= n, NEW off \in Nat, NEW del \in Nat,
         NEW ins \in Nat, off + del <= n
  PROVE  Follow(offset, off, del, ins) <= n - del + ins
<1>1. CASE offset <= off
  <2>1. Follow(offset, off, del, ins) = offset
    BY <1>1 DEF Follow
  <2> QED
    BY <1>1, <2>1
<1>2. CASE off < offset /\ off + del <= offset
  <2>1. Follow(offset, off, del, ins) = offset - del + ins
    BY <1>2 DEF Follow
  <2> QED
    BY <1>2, <2>1
<1>3. CASE off < offset /\ ~(off + del <= offset)
  <2>1. Follow(offset, off, del, ins) = off
    BY <1>3 DEF Follow
  <2> QED
    BY <2>1
<1> QED
  BY <1>1, <1>2, <1>3

\* An edit and what fix_cursors does, when it is told the truth
LEMMA EditedKeeps ==
  ASSUME Sound(ed), InPlace(ed), Watched(ed), NEW off \in Nat, NEW del \in Nat, NEW ins \in Nat,
         NEW cur \in 0..MaxLen, off + del <= Size, cur <= Size - del + ins,
         NEW m, NEW t, t = WithModified(Edited(ed, off, del, ins, cur, del, ins), m)
  PROVE  Kept(t) /\ Watched(t)
<1>0. PICK h : h = Marked(FixCursors(ed, off, del, ins), ed, off, del, ins)
  OBVIOUS
<1> DEFINE b == ed.views[ed.view].buf
           rec == [[h[ed.view] EXCEPT !.cur = cur] EXCEPT !.mark = cur]
           views == [h EXCEPT ![ed.view] = rec]
           len == [ed.len EXCEPT ![b] = ed.len[b] - del + ins]
           fresh == ed.fresh \ {b}
<1>1. /\ EdTypes(ed) /\ ed.view \in Views /\ ed.views[ed.view] \in ViewRecs /\ b \in Buffers
      /\ Size = ed.len[b] /\ Size \in Nat
  <2>1. Size = ed.len[b] /\ b = Here.buf
    BY DEF Size, Here
  <2> HIDE DEF b
  <2>2. EdTypes(ed) /\ Size \in 0..MaxLen
    BY HereIs DEF Sound, Loose
  <2>3. Size \in Nat
    BY <2>2, BoundsAssumption
  <2> QED
    BY <2>1, <2>2, <2>3, HereIs
<1>2. h = [v \in Views |-> h[v]] /\ StayPut(h)
  <2>1. h = [v \in Views |-> h[v]]
    BY <1>0 DEF Marked
  <2>2. StayPut(Marked(FixCursors(ed, off, del, ins), ed, off, del, ins))
    BY FixedAre
  <2> QED
    BY <1>0, <2>1, <2>2
<1>3. h[ed.view] = ed.views[ed.view]
  BY <1>1, <1>2 DEF StayPut
<1>4. t = [ed EXCEPT !.len = len, !.fresh = fresh, !.views = views, !.modified = m]
  <2>1. [h EXCEPT ![ed.view].cur = cur, ![ed.view].mark = cur] = views
    BY <1>1, <1>2
  <2>2. Edited(ed, off, del, ins, cur, del, ins) = [ed EXCEPT !.len = len, !.fresh = fresh, !.views = views]
    <3> HIDE DEF views
    <3> QED
      BY <1>0, <1>1, <2>1 DEF Edited, EdTypes
  <2> HIDE DEF views, len, fresh
  <2> QED
    BY <1>1, <2>2 DEF WithModified, EdTypes
<1>5. /\ rec.buf = b /\ rec.cur = cur /\ rec.mark = cur /\ rec.restore = FALSE
  BY <1>1, <1>3 DEF ViewRecs, Watched
<1> HIDE DEF rec
<1>6. \A v \in Views : views[v] = IF v = ed.view THEN rec ELSE h[v]
  BY <1>1, <1>2
<1>7. /\ len[b] = Size - del + ins
      /\ \A c \in Buffers : c # b => len[c] = ed.len[c]
  BY <1>1 DEF EdTypes
<1> HIDE DEF views, len, fresh
<1>8. t.views = views /\ t.len = len /\ t.view = ed.view
  BY <1>1, <1>4 DEF EdTypes
<1>9. ASSUME NEW v \in Views, v # ed.view, ed.views[v].buf = b
      PROVE  /\ h[v].buf = b /\ h[v].restore = TRUE /\ h[v].saved = h[v].mark
             /\ h[v].mark <= len[b]
  <2> DEFINE old == ed.views[v]
             f1 == Follow(old.saved, off, del, ins)
             f2 == Follow(old.mark, off, del, ins)
             fixed == FixCursors(ed, off, del, ins)
  <2>1. old \in ViewRecs /\ old.saved \in Nat /\ old.mark \in Nat
    BY <1>1, <1>9, ViewTypes, NothingIsNone
  <2>2. old.restore = TRUE /\ old.saved = old.mark /\ old.mark <= Size
    BY <1>1, <1>9, NothingIsNone DEF Watched, InPlace, IsRight
  <2>3. f1 = f2 /\ f2 \in Nat /\ f2 <= Size - del + ins
    BY <1>1, <2>1, <2>2, FollowIsOffset, FollowIsInText
  <2>4. fixed[v] = [old EXCEPT !.saved = f1] /\ fixed[ed.view] = ed.views[ed.view]
    BY <1>1, <1>9 DEF FixCursors
  <2> HIDE DEF f1
  <2>5. /\ fixed[v].buf = b /\ fixed[v].restore = TRUE /\ fixed[v].saved = f1
        /\ fixed[v].mark = old.mark /\ fixed[v] \in ViewRecs
    BY <1>9, <2>1, <2>2, <2>3, <2>4 DEF ViewRecs
  <2>6. h[v] = [fixed[v] EXCEPT !.mark = f2]
    <3> HIDE DEF fixed
    <3>1. h[v] = IF v # ed.view /\ fixed[v].buf = fixed[ed.view].buf
                 THEN [fixed[v] EXCEPT !.mark = Follow(@, off, del, ins)]
                 ELSE fixed[v]
      BY <1>0 DEF Marked, fixed
    <3> QED
      BY <1>9, <2>4, <2>5, <3>1
  <2> HIDE DEF f2, fixed
  <2> QED
    BY <1>7, <2>3, <2>5, <2>6 DEF ViewRecs
<1>10. ASSUME NEW v \in Views, v # ed.view, ed.views[v].buf # b
       PROVE  h[v] = ed.views[v]
  <2> DEFINE fixed == FixCursors(ed, off, del, ins)
  <2>1. fixed[v] = ed.views[v] /\ fixed[ed.view] = ed.views[ed.view]
    BY <1>1, <1>10 DEF FixCursors
  <2>2. h[v] = IF v # ed.view /\ fixed[v].buf = fixed[ed.view].buf
               THEN [fixed[v] EXCEPT !.mark = Follow(@, off, del, ins)]
               ELSE fixed[v]
    BY <1>0 DEF Marked
  <2> HIDE DEF fixed
  <2> QED
    BY <1>10, <2>1, <2>2
<1>11. Watched(t)
  <2>1. t.views[t.view].restore = FALSE /\ t.views[t.view].buf = b
    BY <1>1, <1>5, <1>6, <1>8
  <2>2. ASSUME NEW v \in Views, v # ed.view, t.views[v].buf = b
        PROVE  t.views[v].restore = TRUE
    <3>1. t.views[v] = h[v]
      BY <1>6, <1>8, <2>2
    <3>2. ed.views[v].buf = b
      BY <1>10, <2>2, <3>1
    <3> QED
      BY <1>9, <2>2, <3>1, <3>2
  <2> QED
    BY <1>8, <2>1, <2>2 DEF Watched
<1>12. Kept(t)
  <2> SUFFICES ASSUME NEW v \in Views, views[v].buf # Nothing
               PROVE  /\ views[v].mark <= len[views[v].buf]
                      /\ views[v].restore = TRUE => views[v].saved = views[v].mark
                      /\ (v = ed.view \/ views[v].buf # b => views[v].cur = views[v].mark)
    BY <1>1, <1>5, <1>6, <1>8 DEF Kept
  <2>1. CASE v = ed.view
    BY <1>5, <1>6, <1>7, <2>1
  <2>2. CASE v # ed.view /\ ed.views[v].buf = b
    BY <1>6, <1>9, <2>2
  <2>3. CASE v # ed.view /\ ed.views[v].buf # b
    <3>1. views[v] = ed.views[v] /\ ed.views[v].buf \in Buffers
      BY <1>1, <1>6, <1>10, <2>3, ViewTypes
    <3> QED
      BY <1>7, <2>3, <3>1 DEF InPlace, IsRight
  <2> QED
    BY <2>1, <2>2, <2>3
<1> QED
  BY <1>11, <1>12

-----------------------------------------------------------------------------
(* Cursors in all steps *)

\* Cursors are where they belong, or the screen update that puts them there
\* is still to come; one of all windows is only due when nothing was edited.
CursorsInv ==
  /\ ViewsInv /\ AllShown(ed) /\ Kept(ed) /\ Watched(ed)
  /\ pc # "update" \/ all = TRUE => InPlace(ed)
  /\ pc = "idle" => all = FALSE

\* What is left to show of a step, next to Goes
CursorsGo ==
  /\ Kept(ed') /\ Watched(ed')
  /\ pc' # "update" \/ all' = TRUE => InPlace(ed')
  /\ pc' = "idle" => all' = FALSE

LEMMA EditSettles ==
  ASSUME CursorsInv, NEW off \in Nat, NEW del \in Nat, NEW ins \in Nat,
         NEW cur \in 0..MaxLen, off + del <= Size, cur <= Size - del + ins,
         Size - del + ins \in 0..MaxLen, Compound = FALSE,
         NEW m, NEW s, s = Edited(ed, off, del, ins, cur, del, ins), NEW group,
         Run(group, WithModified(s, m), FALSE, FALSE)
  PROVE  CursorsGo
<1> DEFINE t == WithModified(s, m)
<1>1. /\ Run(group, t, FALSE, FALSE) /\ pc = "idle" /\ all = FALSE
      /\ Sound(ed) /\ InPlace(ed) /\ Watched(ed)
  BY DEF Run, CursorsInv, ViewsInv
<1>2. Kept(t) /\ Watched(t)
  BY <1>1, EditedKeeps
<1> HIDE DEF t
<1>3. ed' = t /\ pc' = "update" /\ all' = FALSE
  BY <1>1 DEF Run
<1> QED
  BY <1>2, <1>3 DEF CursorsGo

LEMMA DeleteSettles ==
  ASSUME CursorsInv, Compound = FALSE, NEW p \in 0..MaxLen, NEW n \in 0..MaxLen, Delete(p, n)
  PROVE  CursorsGo
<1> DEFINE s == Edited(ed, p, n, 0, p, n, 0)
           m == ed.modified \cup {Here.buf}
<1>1. Sound(ed) /\ Size \in 0..MaxLen /\ p \in Nat /\ n \in Nat /\ 0 \in Nat
  BY HereIs, BoundsAssumption DEF CursorsInv, ViewsInv
<1>2. p + n <= Size /\ Run("delete", Changed(s), FALSE, FALSE)
  BY DEF Delete
<1>3. Size - n + 0 \in 0..MaxLen /\ p <= Size - n + 0
  BY <1>1, <1>2, BoundsAssumption
<1>4. EditsHere(s)
  BY <1>1, <1>3, EditedIs
<1>5. Run("delete", WithModified(s, m), FALSE, FALSE)
  BY <1>1, <1>2, <1>4, ChangedIs
<1>6. PICK r : r = s
  OBVIOUS
<1> HIDE DEF m
<1>7. r = Edited(ed, p, n, 0, p, n, 0) /\ Run("delete", WithModified(r, m), FALSE, FALSE)
  BY <1>5, <1>6
<1> HIDE DEF s
<1> QED
  BY <1>1, <1>2, <1>3, <1>7, EditSettles

LEMMA ReplaceSettles ==
  ASSUME CursorsInv, Compound = FALSE, NEW p \in 0..MaxLen, NEW del \in 0..MaxLen,
         NEW ins \in 0..MaxLen, NEW cur \in 0..MaxLen, Replace(p, del, ins, cur)
  PROVE  CursorsGo
<1> DEFINE s == Edited(ed, p, del, ins, cur, del, ins)
           m == ed.modified \cup {Here.buf}
<1>1. Sound(ed) /\ Size \in 0..MaxLen /\ p \in Nat /\ del \in Nat /\ ins \in Nat
  BY HereIs, BoundsAssumption DEF CursorsInv, ViewsInv
<1>2. /\ p + del <= Size /\ cur \in {p, p + ins} /\ Size - del + ins <= MaxLen
      /\ Run("replace", Changed(s), FALSE, FALSE)
  BY DEF Replace
<1>3. Size - del + ins \in 0..MaxLen /\ cur <= Size - del + ins
  BY <1>1, <1>2, BoundsAssumption
<1>4. EditsHere(s)
  BY <1>1, <1>3, EditedIs
<1>5. Run("replace", WithModified(s, m), FALSE, FALSE)
  BY <1>1, <1>2, <1>4, ChangedIs
<1>6. PICK r : r = s
  OBVIOUS
<1> HIDE DEF m
<1>7. r = Edited(ed, p, del, ins, cur, del, ins) /\ Run("replace", WithModified(r, m), FALSE, FALSE)
  BY <1>5, <1>6
<1> HIDE DEF s
<1> QED
  BY <1>1, <1>2, <1>3, <1>7, EditSettles

LEMMA ReverseChangeSettles ==
  ASSUME CursorsInv, Compound = FALSE, NEW p \in 0..MaxLen, NEW del \in 0..MaxLen,
         NEW ins \in 0..MaxLen, NEW cur \in 0..MaxLen, NEW saved \in BOOLEAN,
         ReverseChange(p, del, ins, cur, saved)
  PROVE  CursorsGo
<1> DEFINE s == Edited(ed, p, del, ins, cur, del, ins)
           m == IF saved THEN ed.modified \ {Here.buf} ELSE ed.modified \cup {Here.buf}
           t == IF saved THEN [s EXCEPT !.modified = @ \ {Here.buf}] ELSE Changed(s)
<1>1. Sound(ed) /\ Size \in 0..MaxLen /\ p \in Nat /\ del \in Nat /\ ins \in Nat
  BY HereIs, BoundsAssumption DEF CursorsInv, ViewsInv
<1>2. /\ p + del <= Size /\ cur \in {p, p + ins} /\ Size - del + ins <= MaxLen
      /\ Run("undo", t, FALSE, FALSE)
  BY DEF ReverseChange
<1>3. Size - del + ins \in 0..MaxLen /\ cur <= Size - del + ins
  BY <1>1, <1>2, BoundsAssumption
<1>4. EditsHere(s)
  BY <1>1, <1>3, EditedIs
<1>5. t = WithModified(s, m)
  BY <1>1, <1>4, ChangedIs
<1>6. Run("undo", WithModified(s, m), FALSE, FALSE)
  BY <1>2, <1>5
<1>7. PICK r : r = s
  OBVIOUS
<1> HIDE DEF m
<1>8. r = Edited(ed, p, del, ins, cur, del, ins) /\ Run("undo", WithModified(r, m), FALSE, FALSE)
  BY <1>6, <1>7
<1> HIDE DEF s
<1> QED
  BY <1>1, <1>2, <1>3, <1>8, EditSettles

LEMMA RunSettled ==
  ASSUME CursorsInv, Compound = FALSE, pc = "idle", Settled => Settles
  PROVE  CursorsGo
<1>1. Settled
  BY DEF CursorsInv, Settled
<1>2. InPlace(ed') /\ Watched(ed') /\ pc' # "idle"
  BY <1>1 DEF Settles
<1>3. Kept(ed')
  BY <1>2, InPlaceIsKept
<1> QED
  BY <1>2, <1>3 DEF CursorsGo

LEMMA OpenCommandSettles ==
  ASSUME Settled, OpenCommand, AllShown(ed')
  PROVE  Settles
<1>1. CASE \E b \in Files, n \in Sizes : \E at \in Sources(ed, b) :
             \/ Open(b, n, at)
             \/ \E p \in 0..MaxLen : Jump(b, n, at, p)
             \/ \E c \in Files : \E atC \in Sources(ed, c) : OpenTwo(b, c, n, at, atC)
             \/ \E w \in Windows : WSplitFile(w, b, n, at)
  BY <1>1, OpenSettles, JumpSettles, OpenTwoSettles, WSplitFileSettles
<1>2. CASE \E b \in NewEmpties : OpenNew(b) \/ \E w \in Windows : WSplitNew(w, b)
  BY <1>2, OpenNewSettles, WSplitNewSettles
<1> QED
  BY <1>1, <1>2 DEF OpenCommand

LEMMA QuitSettles ==
  ASSUME Settled, NEW force \in BOOLEAN, Quit(force)
  PROVE  Settles
<1>1. ed' = ed /\ pc' = "exit"
  BY DEF Quit
<1> QED
  BY <1>1 DEF Settled, Settles

LEMMA ViewCommandSettles ==
  ASSUME Settled, ViewCommand
  PROVE  Settles
<1>1. CASE \E v \in Views : Tab(v) \/ WCloseRefused(v) \/ QuitRefused(v)
  BY <1>1, TabSettles
<1>2. CASE \E w \in Windows : NextWindow(w) \/ WSplit(w)
  BY <1>2, NextWindowSettles, WSplitSettles
<1>3. CASE \E force \in BOOLEAN :
             \/ Quit(force)
             \/ \E v \in Views : Close(force, v)
             \/ \E b \in NewEmpties : CloseLast(force, b)
             \/ \E b \in NewEmpties \cup {Nothing}, w \in Windows : WClose(force, b, w)
  BY <1>3, QuitSettles, CloseSettles, CloseLastSettles, WCloseSettles
<1> QED
  BY <1>1, <1>2, <1>3 DEF ViewCommand

\* Commands run between two screen updates.
LEMMA CommandsWait ==
  ASSUME OpenCommand \/ ViewCommand \/ EditCommand
  PROVE  pc = "idle"
<1>1. ASSUME NEW b, NEW n, NEW at
      PROVE  /\ Open(b, n, at) => pc = "idle"
             /\ \A p : Jump(b, n, at, p) => pc = "idle"
             /\ \A c, atC : OpenTwo(b, c, n, at, atC) => pc = "idle"
             /\ \A w : WSplitFile(w, b, n, at) => pc = "idle"
  <2>1. Open(b, n, at) => pc = "idle"
    BY Zenon DEF Open, Run
  <2>2. \A p : Jump(b, n, at, p) => pc = "idle"
    BY Zenon DEF Jump, Run
  <2>3. \A c, atC : OpenTwo(b, c, n, at, atC) => pc = "idle"
    BY Zenon DEF OpenTwo, Run
  <2>4. \A w : WSplitFile(w, b, n, at) => pc = "idle"
    BY Zenon DEF WSplitFile, Run
  <2> QED
    BY <2>1, <2>2, <2>3, <2>4
<1>2. ASSUME NEW b, NEW w
      PROVE  (OpenNew(b) => pc = "idle") /\ (WSplitNew(w, b) => pc = "idle")
  BY Zenon DEF OpenNew, WSplitNew, Run
<1>3. ASSUME NEW v, NEW w
      PROVE  /\ Tab(v) \/ WCloseRefused(v) \/ QuitRefused(v) => pc = "idle"
             /\ NextWindow(w) \/ WSplit(w) => pc = "idle"
  BY Zenon DEF Tab, WCloseRefused, QuitRefused, NextWindow, WSplit, Run
<1>4. ASSUME NEW force, NEW v, NEW b, NEW w
      PROVE  /\ Quit(force) => pc = "idle"
             /\ Close(force, v) => pc = "idle"
             /\ CloseLast(force, b) => pc = "idle"
             /\ WClose(force, b, w) => pc = "idle"
  BY Zenon DEF Quit, Close, CloseLast, WClose, Run
<1>5. CASE OpenCommand
  BY <1>1, <1>2, <1>5, Zenon DEF OpenCommand
<1>6. CASE ViewCommand
  BY <1>3, <1>4, <1>6, Zenon DEF ViewCommand
<1>7. CASE EditCommand
  <2>1. ASSUME NEW p, NEW n, NEW ins, NEW cur, NEW saved
        PROVE  /\ Move(p) => pc = "idle"
               /\ Delete(p, n) => pc = "idle"
               /\ Replace(p, n, ins, cur) => pc = "idle"
               /\ ReverseChange(p, n, ins, cur, saved) => pc = "idle"
    BY Zenon DEF Move, Delete, Replace, ReverseChange, Run
  <2>2. Save => pc = "idle"
    BY Zenon DEF Save, Run
  <2> QED
    BY <1>7, <2>1, <2>2, Zenon DEF EditCommand
<1> QED
  BY <1>5, <1>6, <1>7

LEMMA EditCommandSettles ==
  ASSUME CursorsInv, Compound = FALSE, EditCommand
  PROVE  CursorsGo
<1>1. pc = "idle"
  BY CommandsWait
<1>2. CASE Save
  BY <1>1, <1>2, SaveSettles, RunSettled
<1>3. ASSUME NEW p \in 0..MaxLen, Move(p)
      PROVE  CursorsGo
  BY <1>1, <1>3, MoveSettles, RunSettled
<1>4. ASSUME NEW p \in 0..MaxLen, NEW n \in 0..MaxLen,
             \/ Move(p)
             \/ n > 0 /\ Delete(p, n)
             \/ \E ins, cur \in 0..MaxLen :
                  \/ n > 0 /\ ins > 0 /\ Replace(p, n, ins, cur)
                  \/ n + ins > 0 /\ \E saved \in BOOLEAN : ReverseChange(p, n, ins, cur, saved)
      PROVE  CursorsGo
  BY <1>3, <1>4, DeleteSettles, ReplaceSettles, ReverseChangeSettles
<1> QED
  BY <1>2, <1>4 DEF EditCommand

LEMMA ResizeSettles ==
  ASSUME CursorsInv, Resize
  PROVE  CursorsGo
<1>1. pc = "idle" /\ pc' = "update" /\ ed' = ed
  BY DEF Resize
<1> QED
  BY <1>1 DEF CursorsInv, CursorsGo

\* A screen update puts the cursors that were left alone where they belong.
LEMMA RefreshedInPlace ==
  ASSUME Sound(ed), AllShown(ed), Kept(ed), Watched(ed), NEW t, t = WithViews(ed, Refreshed(ed))
  PROVE  InPlace(t) /\ Watched(t)
<1> DEFINE views == Refreshed(ed)
           b == ed.views[ed.view].buf
<1>1. EdTypes(ed) /\ ed.view \in Views /\ b \in Buffers
  BY HereIs DEF Sound, Loose, Here
<1>2. t.views = views /\ t.len = ed.len /\ t.view = ed.view
  BY <1>1 DEF EdTypes, WithViews
<1>3. ASSUME NEW v \in Views, v # ed.view, ed.views[v].buf = b
      PROVE  /\ views[v].buf = b /\ IsRight(views[v], ed.len[b])
             /\ views[v].restore = TRUE
  <2> DEFINE rec == ed.views[v]
             cur == GotoOffset(ed, v, rec.saved)
  <2>1. rec \in ViewRecs /\ ed.on[rec.win] = v
    BY <1>1, <1>3, ViewTypes, NothingIsNone DEF AllShown
  <2>2. rec.restore = TRUE /\ rec.saved = rec.mark /\ rec.mark <= ed.len[b]
    BY <1>1, <1>3, NothingIsNone DEF Watched, Kept
  <2>3. cur = rec.mark
    BY <1>3, <2>2 DEF GotoOffset
  <2>4. views[v] = [rec EXCEPT !.cur = cur]
    BY <1>3, <2>1 DEF Refreshed
  <2> HIDE DEF cur
  <2>5. /\ views[v].buf = b /\ views[v].cur = rec.mark /\ views[v].mark = rec.mark
        /\ views[v].saved = rec.mark /\ views[v].restore = TRUE
    BY <1>3, <2>1, <2>2, <2>3, <2>4 DEF ViewRecs
  <2> QED
    BY <2>2, <2>5 DEF IsRight
<1>4. ASSUME NEW v \in Views, v = ed.view \/ ed.views[v].buf # b
      PROVE  views[v] = ed.views[v]
  BY <1>4 DEF Refreshed
<1> HIDE DEF views
<1>5. InPlace(t)
  <2> SUFFICES ASSUME NEW v \in Views, views[v].buf # Nothing
               PROVE  IsRight(views[v], ed.len[views[v].buf])
    BY <1>2 DEF InPlace
  <2>1. CASE v = ed.view \/ ed.views[v].buf # b
    BY <1>4, <2>1 DEF Kept, IsRight
  <2>2. CASE v # ed.view /\ ed.views[v].buf = b
    BY <1>3, <2>2
  <2> QED
    BY <2>1, <2>2
<1>6. Watched(t)
  <2>1. views[ed.view] = ed.views[ed.view]
    BY <1>1, <1>4
  <2>2. \A v \in Views : views[v].buf = b => ed.views[v].buf = b
    BY <1>4
  <2>3. t.views[t.view].restore = FALSE /\ t.views[t.view].buf = b
    BY <1>2, <2>1 DEF Watched
  <2>4. ASSUME NEW v \in Views, v # t.view, t.views[v].buf = b
        PROVE  t.views[v].restore = TRUE
    BY <1>2, <1>3, <2>2, <2>4
  <2> HIDE DEF b
  <2> QED
    BY <2>3, <2>4 DEF Watched
<1> QED
  BY <1>5, <1>6

LEMMA UpdateScreenSettles ==
  ASSUME CursorsInv, UpdateScreen
  PROVE  CursorsGo
<1>1. /\ pc = "update" /\ pc' = "idle" /\ all' = FALSE /\ all \in BOOLEAN
      /\ ed' = IF all THEN ed ELSE WithViews(ed, Refreshed(ed))
  BY DEF UpdateScreen, WithViews, CursorsInv, ViewsInv
<1>2. InPlace(ed') /\ Watched(ed')
  <2>1. CASE all = TRUE
    BY <1>1, <2>1 DEF CursorsInv
  <2>2. CASE all = FALSE
    BY <1>1, <2>2, RefreshedInPlace DEF CursorsInv, ViewsInv
  <2> QED
    BY <1>1, <2>1, <2>2
<1>3. Kept(ed')
  BY <1>2, InPlaceIsKept
<1> QED
  BY <1>1, <1>2, <1>3 DEF CursorsGo

LEMMA CursorsNextGoes ==
  ASSUME CursorsInv, Compound = FALSE, CursorsNext
  PROVE  CursorsInv'
<1>1. AllShown(ed')
  BY DEF CursorsNext
<1>2. CursorsGo
  <2>1. CASE OpenCommand
    <3>1. Settled => Settles
      BY <1>1, <2>1, OpenCommandSettles
    <3> QED
      BY <2>1, <3>1, CommandsWait, RunSettled
  <2>2. CASE ViewCommand
    <3>1. Settled => Settles
      BY <2>2, ViewCommandSettles
    <3> QED
      BY <2>2, <3>1, CommandsWait, RunSettled
  <2> QED
    BY <2>1, <2>2, EditCommandSettles, ResizeSettles, UpdateScreenSettles DEF CursorsNext
<1>3. ViewsInv'
  <2>1. ViewsInv /\ Next
    BY DEF CursorsInv, CursorsNext, Next
  <2> QED
    BY <2>1, NextGoes DEF Goes
<1> QED
  BY <1>1, <1>2, <1>3 DEF CursorsInv, CursorsGo, AllShown, Kept, Watched, InPlace, IsRight

LEMMA CursorsStutter ==
  ASSUME CursorsInv, UNCHANGED vars
  PROVE  CursorsInv'
<1>1. ViewsInv'
  BY StutterGoes DEF CursorsInv
<1>2. UNCHANGED <<ed, pc, all>>
  BY DEF vars
<1> QED
  BY <1>1, <1>2 DEF CursorsInv, AllShown, Kept, Watched, InPlace, IsRight

LEMMA CursorsStart ==
  ASSUME Init
  PROVE  CursorsInv
<1>1. PICK w \in Windows, v \in Views, b \in Files, n \in Sizes :
       ed = [wins |-> {w},
             on |-> [x \in Windows |-> IF x = w THEN v ELSE Nothing],
             prev |-> [x \in Windows |-> Nothing],
             window |-> w,
             view |-> v,
             views |-> [u \in Views |->
               IF u = v THEN [NoView EXCEPT !.buf = b, !.win = w] ELSE NoView],
             len |-> [x \in Buffers |-> IF x = b THEN n ELSE 0],
             modified |-> {},
             fresh |-> {}]
  BY DEF Init
<1> DEFINE rec == [NoView EXCEPT !.buf = b, !.win = w]
<1>2. /\ rec.buf = b /\ rec.win = w /\ rec.cur = 0 /\ rec.mark = 0 /\ rec.restore = FALSE
      /\ NoView.buf = Nothing
  BY DEF NoView
<1>3. /\ \A u \in Views : ed.views[u] = IF u = v THEN rec ELSE NoView
      /\ ed.view = v /\ ed.on[w] = v /\ ed.len[b] = n
  BY <1>1, NothingIsNone
<1> HIDE DEF rec
<1>4. b # Nothing /\ n \in Nat /\ 0 <= n
  BY NothingIsNone, BoundsAssumption
<1>5. InPlace(ed) /\ Watched(ed) /\ AllShown(ed)
  BY <1>2, <1>3, <1>4 DEF InPlace, IsRight, Watched, AllShown
<1>6. Kept(ed)
  BY <1>5, InPlaceIsKept
<1>7. ViewsInv /\ all = FALSE
  BY InitIsSound DEF Init
<1> QED
  BY <1>5, <1>6, <1>7 DEF CursorsInv

LEMMA CursorsAreThere ==
  ASSUME CursorsInv
  PROVE  TypeOK /\ CurrentInText /\ DrawnInText /\ CursorsFollow
<1>1. /\ Sound(ed) /\ Kept(ed) /\ Watched(ed) /\ all \in BOOLEAN
      /\ ed.view \in Views /\ Here.buf \in Buffers /\ EdTypes(ed)
  BY HereIs DEF CursorsInv, ViewsInv, Sound, Loose
<1>2. TypeOK
  BY SoundIsRight DEF CursorsInv
<1>3. CurrentInText
  BY <1>1, NothingIsNone DEF CurrentInText, Kept, Here, Size
<1>4. DrawnInText
  <2> SUFFICES ASSUME pc = "update", NEW w \in ed.wins \ {ed.window}, NEW v, v = ed.on[w]
               PROVE  IF ~all /\ ed.views[v].buf = Here.buf
                      THEN InText(ed.views[v].saved, v)
                      ELSE InText(ed.views[v].cur, v)
    BY DEF DrawnInText
  <2>1. v \in Tabs(ed, w) /\ w \in Windows
    BY <1>1 DEF Sound, Showing, EdTypes
  <2>2. v \in Views /\ ed.views[v].buf # Nothing /\ ed.views[v].win = w
    BY <1>1, <2>1, TabIs, NothingIsNone
  <2>3. v # ed.view
    <3>1. ed.view \in Tabs(ed, ed.window)
      BY <1>1, SoundIsReady DEF Sound
    <3> QED
      BY <2>2, <3>1 DEF Tabs
  <2>4. CASE ~all /\ ed.views[v].buf = Here.buf
    BY <1>1, <2>2, <2>3, <2>4 DEF Kept, Watched, Here, InText
  <2>5. CASE all
    <3>1. InPlace(ed)
      BY <2>5 DEF CursorsInv
    <3> QED
      BY <2>2, <2>5, <3>1 DEF InPlace, IsRight, InText
  <2>6. CASE ~all /\ ed.views[v].buf # Here.buf
    BY <1>1, <2>2, <2>6 DEF Kept, Here, InText
  <2> QED
    BY <1>1, <2>4, <2>5, <2>6
<1>5. CursorsFollow
  <2> SUFFICES ASSUME NEW v \in Views, v # ed.view, ed.views[v].restore
               PROVE  ed.views[v].saved = ed.views[v].mark
    BY DEF CursorsFollow
  <2>1. CASE ed.views[v].buf # Nothing
    <3>1. ed.views[v].restore = TRUE
      <4>1. ed.views[v] \in ViewRecs
        BY <1>1, <2>1, ViewTypes
      <4> QED
        BY <4>1 DEF ViewRecs
    <3> QED
      BY <1>1, <2>1, <3>1 DEF Kept
  <2>2. CASE ed.views[v].buf = Nothing
    <3>1. ed.views[v] = NoView
      BY <1>1, <2>2, ViewTypes
    <3> QED
      BY <3>1 DEF NoView
  <2> QED
    BY <2>1, <2>2
<1> QED
  BY <1>2, <1>3, <1>4, <1>5

-----------------------------------------------------------------------------
(* The same for the behaviours that TLC explores *)

SwitchingInv == part = "switching" => ViewsInv

LEMMA SwitchingStarts ==
  ASSUME MCInit
  PROVE  SwitchingInv
  BY InitIsSound DEF MCInit, SwitchingInit, CursorsInit, SwitchingInv

LEMMA SwitchingSteps ==
  ASSUME SwitchingInv, [MCNext]_<<part, vars, blockVars>>
  PROVE  /\ SwitchingInv'
         /\ [part = "switching" => KeepsChanges]_<<part, vars>>
<1>1. CASE SmallNext
  <2>1. part = "switching" /\ part' = "switching" /\ Next
    BY <1>1 DEF SmallNext, Next, EditCommand
  <2> QED
    BY <2>1, NextGoes DEF SwitchingInv, Goes
<1>2. CASE part = "cursors" /\ part' = part
  BY <1>2 DEF SwitchingInv
<1>3. CASE UNCHANGED <<part, vars>>
  BY <1>3, StutterGoes DEF SwitchingInv
<1> QED
  BY <1>1, <1>2, <1>3 DEF MCNext, CursorsNext

\* The invariant that the run "views" checks.
THEOREM SwitchingStaysSound == MCSpec => []SwitchingIsSound
<1>1. MCInit => SwitchingInv
  BY SwitchingStarts
<1>2. SwitchingInv /\ [MCNext]_<<part, vars, blockVars>> => SwitchingInv'
  BY SwitchingSteps
<1>3. SwitchingInv => SwitchingIsSound
  BY SoundIsRight DEF SwitchingInv, SwitchingIsSound
<1> QED
  BY <1>1, <1>2, <1>3, PTL DEF MCSpec

\* The action property that the run "views" checks.
THEOREM SwitchingKeepsChanges == MCSpec => SwitchingLosesNothing
<1>1. MCInit => SwitchingInv
  BY SwitchingStarts
<1>2. SwitchingInv /\ [MCNext]_<<part, vars, blockVars>> => SwitchingInv'
  BY SwitchingSteps
<1>3. SwitchingInv /\ [MCNext]_<<part, vars, blockVars>> =>
        [part = "switching" =>
           \A b \in ed.modified : (~Exists(ed', b) \/ pc' = "exit") => forced']_<<part, vars>>
  BY SwitchingSteps DEF KeepsChanges
<1> QED
  BY <1>1, <1>2, <1>3, PTL DEF MCSpec, SwitchingLosesNothing

PartInv == part = "cursors" => CursorsInv

LEMMA PartSteps ==
  ASSUME Compound = FALSE, PartInv, [CursorsNext \/ MCNext]_<<part, vars, blockVars>>
  PROVE  PartInv'
<1>1. CASE CursorsNext
  <2>1. part = "cursors"
    BY <1>1 DEF CursorsNext
  <2> QED
    BY <1>1, <2>1, CursorsNextGoes DEF PartInv
<1>2. CASE part # "cursors" /\ part' = part
  BY <1>2 DEF PartInv
<1>3. CASE UNCHANGED <<part, vars>>
  BY <1>3, CursorsStutter DEF PartInv
<1> QED
  BY <1>1, <1>2, <1>3 DEF MCNext, SmallNext

LEMMA PartIsRight ==
  ASSUME PartInv
  PROVE  CursorsAreRight
  BY CursorsAreThere DEF PartInv, CursorsAreRight

\* As long as every View is on the screen, nothing is inserted and the screen
\* is updated after each command, the cursors are right with any number of
\* windows and files and texts of any length: set_view and the screen update
\* give every View back the byte that its cursor was at, and none is used or
\* drawn outside of its text.
THEOREM CursorsStayRightInAllFiles ==
  ASSUME Compound = FALSE
  PROVE  CursorsSpec => []CursorsAreRight
<1>1. CursorsInit => PartInv
  BY CursorsStart DEF CursorsInit, PartInv
<1>2. PartInv /\ [CursorsNext]_<<part, vars, blockVars>> => PartInv'
  BY PartSteps
<1>3. PartInv => CursorsAreRight
  BY PartIsRight
<1> QED
  BY <1>1, <1>2, <1>3, PTL DEF CursorsSpec

\* The invariant that the run "views" checks, with one file open.
THEOREM CursorsStayRight ==
  ASSUME Compound = FALSE
  PROVE  MCSpec => []CursorsAreRight
<1>1. MCInit => PartInv
  BY CursorsStart DEF MCInit, SwitchingInit, CursorsInit, PartInv
<1>2. PartInv /\ [MCNext]_<<part, vars, blockVars>> => PartInv'
  BY PartSteps
<1>3. PartInv => CursorsAreRight
  BY PartIsRight
<1> QED
  BY <1>1, <1>2, <1>3, PTL DEF MCSpec
=============================================================================
