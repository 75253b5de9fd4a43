--------------------------- MODULE HighlightProofs ---------------------------
(***************************************************************************)
(* Proofs about the line start states of module Highlight: what is not     *)
(* marked as invalid is right, the loops of an update start from states    *)
(* that are valid and only move down, and what a lone window shows after   *)
(* an update is right.                                                     *)
(*                                                                         *)
(* None of these is inductive.  The first needs what the loops know of     *)
(* each other, which is where they are in the array and how far the states *)
(* above them are valid; the last, which follows further below, needs what *)
(* the rows that are not to be drawn still share with the array.           *)
(***************************************************************************)
EXTENDS Highlight, FoldLemmas, TLAPS

\* Each valid state of the array s is the one that the line above leads to in
\* syntax sx, but for entry "pending".
RightStates(sx, s, ln, pending) ==
  \A k \in 1..s.count - 1 :
    s.ptr[k].ok /\ k # pending => s.ptr[k].st = Dest[<<sx, ln[k - 1], s.ptr[k - 1].st>>]

Pending == IF pc = "hole" THEN at.idx + 1 ELSE 0

ValidTo(s, y) == \A k \in 0..y : s.ptr[k].ok

\* The text and the cursors in it
TextTypes ==
  /\ nl \in 0..MaxLines
  /\ line \in [0..nl - 1 -> Kinds]
  /\ syntax \in Syntaxes \cup {NoSyntax}

ViewTypes ==
  /\ shown \subseteq Windows /\ here \in shown
  /\ cy \in [Windows -> 0..nl] /\ vy \in [Windows -> 0..MaxLines]
  /\ \A w \in Windows \ shown : cy[w] = 0

UpdateTypes ==
  /\ range \in [min : 0..LongMax, max : -1..LongMax]
  /\ old \in [cy : 0..MaxLines, vy : 0..MaxLines]
  /\ all \in BOOLEAN /\ todo \subseteq shown
  /\ batch \in 0..MaxBatch
  /\ pc \in {"idle", "window", "scan", "hole", "add", "draw"}
  /\ drawn \in [Windows -> [0..Height - 1 -> Rows]]

\* The array s of a text of n lines
CacheTypes(s) ==
  /\ s.count \in 0..MaxLines + 1
  /\ s.ptr \in [0..s.count - 1 -> Entries]
  /\ s = [count |-> s.count, ptr |-> s.ptr]

Cache(sx, s, ln, n, pending) ==
  /\ s.count \in 1..n + 1
  /\ s.ptr[0] = Entry(Start[sx])
  /\ RightStates(sx, s, ln, pending)

\* An update starts at a line of the text, at or above the first changed one.
StartFits ==
  pc # "idle" /\ ~all => vy[here] <= cy[here] /\ range.min <= cy[here]

AtRest == pc = "idle" => todo = {} /\ at = NoLoop

InLoop == pc \in {"scan", "hole", "add", "draw"}

Loops == [win : shown, y : 0..LongMax, y2 : 0..LongMax,
          idx : 0..MaxLines, bi : 0..MaxLines, last : -1..MaxLines]

LoopTypes ==
  /\ at = NoLoop \/ at \in Loops
  /\ InLoop => at \in Loops /\ at.y <= nl
  /\ pc \in {"scan", "hole", "add"} => syntax # NoSyntax

LoopFits ==
  /\ pc \in {"scan", "hole"} =>
       /\ at.last = Least(at.y, lss.count - 1)
       /\ at.bi = at.idx /\ at.idx <= at.last
       /\ ValidTo(lss, at.idx)
  /\ pc = "hole" => at.idx < at.last
  /\ pc = "add" => at.bi = lss.count - 1 /\ ValidTo(lss, Least(at.y, lss.count - 1))
  /\ pc = "draw" /\ syntax # NoSyntax => at.y < lss.count /\ ValidTo(lss, at.y)

HInv ==
  /\ TextTypes /\ ViewTypes /\ UpdateTypes /\ CacheTypes(lss)
  /\ syntax # NoSyntax => Cache(syntax, lss, line, nl, Pending)
  /\ StartFits /\ AtRest /\ LoopTypes /\ LoopFits

-----------------------------------------------------------------------------
(* The array *)

LEMMA SetStates ==
  ASSUME NEW s, CacheTypes(s), NEW st \in States, NEW i \in 0..s.count, i <= MaxLines,
         NEW s2, s2 = Set(s, i, st)
  PROVE  /\ CacheTypes(s2)
         /\ s2.count = IF i = s.count THEN i + 1 ELSE s.count
         /\ s2.ptr[i] = Entry(st)
         /\ \A k \in 0..s.count - 1 : k # i => s2.ptr[k] = s.ptr[k]
<1> DEFINE c == IF i = s.count THEN i + 1 ELSE s.count
           top == IF i = s.count THEN i ELSE s.count - 1
<1>1. s.count \in Nat /\ i \in Nat /\ MaxLines \in Nat /\ Entry(st) \in Entries
  BY SizesAssumption DEF CacheTypes, Entry, Entries
<1>2. top = c - 1 /\ c \in 0..MaxLines + 1 /\ i \in 0..top /\ 0..s.count - 1 \subseteq 0..top
      /\ \A k \in 0..top : k # i => k \in 0..s.count - 1
  BY <1>1 DEF CacheTypes
<1>3. s2 = [count |-> c, ptr |-> [k \in 0..top |-> IF k = i THEN Entry(st) ELSE s.ptr[k]]]
  BY DEF Set
<1> HIDE DEF c, top
<1>4. s2.count = c /\ s2.ptr = [k \in 0..top |-> IF k = i THEN Entry(st) ELSE s.ptr[k]]
  BY <1>3
<1>5. s2.ptr \in [0..top -> Entries]
  BY <1>1, <1>2, <1>4 DEF CacheTypes
<1>6. CacheTypes(s2)
  BY <1>2, <1>3, <1>4, <1>5 DEF CacheTypes
<1> QED
  BY <1>2, <1>4, <1>6 DEF c

\* What mark_state_invalid leaves as it is.
Marked(s, i, s2) ==
  /\ s2.count = s.count
  /\ \A k \in 0..s.count - 1 : k # i => s2.ptr[k] = s.ptr[k]
  /\ \A k \in 0..s.count - 1 : s2.ptr[k].st = s.ptr[k].st
  /\ i < s.count => ~s2.ptr[i].ok

LEMMA MarkStates ==
  ASSUME NEW s, CacheTypes(s), NEW i \in Nat
  PROVE  CacheTypes(Mark(s, i)) /\ Marked(s, i, Mark(s, i))
<1> DEFINE s2 == Mark(s, i)
<1>1. s.count \in Nat
  BY SizesAssumption DEF CacheTypes
<1>2. CASE i < s.count
  <2> DEFINE p == [s.ptr EXCEPT ![i] = Invalid(@)]
  <2>1. i \in 0..s.count - 1 /\ s.ptr[i] \in Entries
    BY <1>1, <1>2 DEF CacheTypes
  <2>2. Invalid(s.ptr[i]) \in Entries /\ Invalid(s.ptr[i]).st = s.ptr[i].st /\ ~Invalid(s.ptr[i]).ok
    BY <2>1 DEF Invalid, Entries
  <2>3. s2 = [s EXCEPT !.ptr = p]
    BY <1>2 DEF Mark
  <2>4. /\ p \in [0..s.count - 1 -> Entries] /\ p[i] = Invalid(s.ptr[i])
        /\ \A k \in 0..s.count - 1 : k # i => p[k] = s.ptr[k]
    BY <2>1, <2>2 DEF CacheTypes
  <2> HIDE DEF p
  <2>5. s2 = [count |-> s.count, ptr |-> p]
    BY <2>3 DEF CacheTypes
  <2>6. s2.count = s.count /\ s2.ptr = p
    BY <2>5
  <2> QED
    BY <2>1, <2>2, <2>4, <2>5, <2>6 DEF CacheTypes, Marked
<1>3. CASE ~(i < s.count)
  BY <1>1, <1>3 DEF Mark, Marked
<1> QED
  BY <1>2, <1>3

\* Entry i can be set to what line i - 1 leads to.
StoreFits(sx, s, ln, n, p, i, st) ==
  /\ n \in Nat /\ n <= MaxLines
  /\ CacheTypes(s) /\ Cache(sx, s, ln, n, p)
  /\ i \in 1..n /\ i <= s.count /\ p \in {0, i}
  /\ st \in States /\ st = Dest[<<sx, ln[i - 1], s.ptr[i - 1].st>>]

\* What that makes of the array, without and with a mark on the next entry.
Stored(sx, s, ln, n, i, st, s2, s3) ==
  /\ CacheTypes(s2) /\ Cache(sx, s2, ln, n, i + 1)
  /\ i = s.count \/ s.ptr[i].st = st => Cache(sx, s2, ln, n, 0)
  /\ CacheTypes(s3) /\ Cache(sx, s3, ln, n, 0) /\ s3.count = s2.count
  /\ s2.count = IF i = s.count THEN i + 1 ELSE s.count
  /\ ValidTo(s, i - 1) => ValidTo(s2, i) /\ ValidTo(s3, i)

\* One line down
LEMMA StoreRight ==
  ASSUME NEW sx, NEW ln, NEW n, NEW p, NEW s, NEW i, NEW st, StoreFits(sx, s, ln, n, p, i, st)
  PROVE  Stored(sx, s, ln, n, i, st, Set(s, i, st), Mark(Set(s, i, st), i + 1))
<1>s. PICK s2, s3 : s2 = Set(s, i, st) /\ s3 = Mark(s2, i + 1)
  OBVIOUS
<1>f. /\ n \in Nat /\ n <= MaxLines
      /\ CacheTypes(s) /\ Cache(sx, s, ln, n, p)
      /\ i \in 1..n /\ i <= s.count /\ p \in {0, i}
      /\ st \in States /\ st = Dest[<<sx, ln[i - 1], s.ptr[i - 1].st>>]
  BY DEF StoreFits
<1>1. s.count \in Nat /\ i \in Nat /\ MaxLines \in Nat /\ s.count >= 1 /\ s.count <= n + 1
  BY <1>f, SizesAssumption DEF CacheTypes, Cache
<1>2. i \in 0..s.count /\ i <= MaxLines /\ i + 1 \in Nat
  BY <1>f, <1>1
<1>3. /\ CacheTypes(s2)
      /\ s2.count = IF i = s.count THEN i + 1 ELSE s.count
      /\ s2.ptr[i] = Entry(st)
      /\ \A k \in 0..s.count - 1 : k # i => s2.ptr[k] = s.ptr[k]
  BY <1>f, <1>s, <1>2, SetStates
<1>j. PICK j \in Nat : j = i + 1
  BY <1>f, <1>1
<1>m. s3 = Mark(s2, j) /\ CacheTypes(s2) /\ j \in Nat
  BY <1>f, <1>s, <1>j, <1>3
<1>a. CacheTypes(s3) /\ Marked(s2, j, s3)
  BY <1>f, <1>m, MarkStates
<1>4. /\ s3.count = s2.count
      /\ \A k \in 0..s2.count - 1 : k # j => s3.ptr[k] = s2.ptr[k]
      /\ \A k \in 0..s2.count - 1 : s3.ptr[k].st = s2.ptr[k].st
      /\ j < s2.count => ~s3.ptr[j].ok
  BY <1>f, <1>a DEF Marked
<1>5. s2.count \in 1..n + 1 /\ s2.count >= i + 1 /\ s2.count >= s.count /\ s2.count \in Nat
  BY <1>f, <1>1, <1>3
<1>b. PICK c \in Nat : c = s2.count /\ c = s3.count
  <2>1. s3.count = s2.count
    BY <1>f, <1>4
  <2> QED
    BY <1>f, <1>5, <2>1
<1>6. s2.ptr[0] = Entry(Start[sx]) /\ s3.ptr[0] = Entry(Start[sx])
  <2>1. 0 \in 0..s.count - 1 /\ 0 \in 0..s2.count - 1 /\ 0 # i /\ 0 # j
    BY <1>f, <1>1, <1>5, <1>j
  <2> QED
    BY <1>f, <1>3, <1>4, <2>1 DEF Cache
<1>7. ASSUME NEW k \in 1..s2.count - 1, s2.ptr[k].ok, k # i + 1
      PROVE  s2.ptr[k].st = Dest[<<sx, ln[k - 1], s2.ptr[k - 1].st>>]
  <2>1. CASE k = i
    BY <1>f, <1>1, <1>3, <2>1 DEF Entry
  <2>2. CASE k # i
    <3>1. k \in 1..s.count - 1 /\ k - 1 \in 0..s.count - 1 /\ k \in 0..s.count - 1 /\ k - 1 # i /\ k # p
      BY <1>f, <1>1, <1>3, <1>7, <2>2
    <3> QED
      <4>1. s2.ptr[k] = s.ptr[k] /\ s2.ptr[k - 1] = s.ptr[k - 1]
        BY <1>f, <1>3, <2>2, <3>1
      <4> QED
        BY <1>f, <1>7, <3>1, <4>1 DEF Cache, RightStates
  <2> QED
    BY <1>f, <2>1, <2>2
<1>8. Cache(sx, s2, ln, n, i + 1)
  BY <1>f, <1>5, <1>6, <1>7 DEF Cache, RightStates
<1>9. ASSUME i = s.count \/ s.ptr[i].st = st PROVE Cache(sx, s2, ln, n, 0)
  <2>1. ASSUME NEW k \in 1..s2.count - 1, s2.ptr[k].ok
        PROVE  s2.ptr[k].st = Dest[<<sx, ln[k - 1], s2.ptr[k - 1].st>>]
    <3>1. CASE k # i + 1
      BY <1>f, <1>7, <2>1, <3>1
    <3>2. CASE k = i + 1
      <4>1. i # s.count /\ k \in 1..s.count - 1 /\ k \in 0..s.count - 1 /\ k - 1 = i /\ k # i
        BY <1>f, <1>1, <1>3, <2>1, <3>2
      <4>4. s2.ptr[i].st = s.ptr[i].st
        BY <1>f, <1>3, <1>9, <4>1 DEF Entry
      <4>2. s2.ptr[k] = s.ptr[k] /\ s2.ptr[k - 1].st = s.ptr[k - 1].st
        BY <1>f, <1>3, <4>1, <4>4
      <4>3. k # p
        BY <1>f, <1>1, <3>2
      <4> QED
        BY <1>f, <2>1, <4>1, <4>2, <4>3 DEF Cache, RightStates
    <3> QED
      BY <1>f, <3>1, <3>2
  <2> QED
    BY <1>f, <1>5, <1>6, <2>1 DEF Cache, RightStates
<1>10. Cache(sx, s3, ln, n, 0)
  <2>1. ASSUME NEW k \in 1..s3.count - 1, s3.ptr[k].ok
        PROVE  s3.ptr[k].st = Dest[<<sx, ln[k - 1], s3.ptr[k - 1].st>>]
    <3>1. k \in 1..s2.count - 1 /\ k \in 0..s2.count - 1 /\ k - 1 \in 0..s2.count - 1 /\ k < s2.count
      BY <1>f, <1>b, <2>1
    <3>3. k # j
      BY <1>f, <1>4, <2>1, <3>1
    <3>2. s3.ptr[k] = s2.ptr[k] /\ s3.ptr[k - 1].st = s2.ptr[k - 1].st
      BY <1>f, <1>4, <3>1, <3>3
    <3> QED
      <4>1. s2.ptr[k].ok /\ k # i + 1
        BY <1>f, <1>j, <2>1, <3>2, <3>3
      <4>2. s2.ptr[k].st = Dest[<<sx, ln[k - 1], s2.ptr[k - 1].st>>]
        BY <1>f, <1>7, <3>1, <4>1
      <4> QED
        BY <1>f, <3>2, <4>2
  <2> QED
    BY <1>f, <1>4, <1>5, <1>6, <2>1 DEF Cache, RightStates
<1>11. ASSUME ValidTo(s, i - 1) PROVE ValidTo(s2, i) /\ ValidTo(s3, i)
  <2>1. ASSUME NEW k \in 0..i PROVE s2.ptr[k].ok /\ s3.ptr[k].ok
    <3>1. k \in 0..s2.count - 1 /\ k # j
      BY <1>f, <1>1, <1>5, <1>j
    <3>2. CASE k = i
      <4>1. s2.ptr[k].ok
        BY <1>f, <1>3, <3>2 DEF Entry
      <4>2. s3.ptr[k] = s2.ptr[k]
        BY <1>f, <1>4, <3>1
      <4> QED
        BY <1>f, <4>1, <4>2
    <3>3. CASE k # i
      <4>1. k \in 0..i - 1 /\ k \in 0..s.count - 1
        BY <1>f, <1>1, <3>3
      <4> QED
        BY <1>f, <1>3, <1>4, <1>11, <3>1, <3>3, <4>1 DEF ValidTo
    <3> QED
      BY <1>f, <3>2, <3>3
  <2> QED
    BY <1>f, <2>1 DEF ValidTo
<1>12. Stored(sx, s, ln, n, i, st, s2, s3)
  BY <1>3, <1>4, <1>a, <1>8, <1>9, <1>10, <1>11 DEF Stored
<1> QED
  BY <1>s, <1>12

-----------------------------------------------------------------------------
(* hl_insert and hl_delete *)

\* The lines above e stay, and those below e + gone are now below e + new.
Around(ln, n, e, gone, new, ln2) ==
  /\ \A k \in 0..e - 1 : ln2[k] = ln[k]
  /\ \A k \in e + gone + 1..n - 1 : ln2[k - gone + new] = ln[k]

LEMMA InvalidEntry ==
  ASSUME NEW x \in Entries
  PROVE  Invalid(x) \in Entries /\ Invalid(x).st = x.st /\ ~Invalid(x).ok
BY DEF Invalid, Entries

\* A text of which all lines from e on are new keeps the states up to line e.
LEMMA TopRight ==
  ASSUME NEW sx, NEW ln, NEW ln2, NEW n \in Nat, NEW n2 \in Nat, NEW s, CacheTypes(s),
         Cache(sx, s, ln, n, 0), NEW e \in 0..n2, \A k \in 0..e - 1 : ln2[k] = ln[k]
  PROVE  /\ s.count <= e \/ s.count = 1 => Cache(sx, s, ln2, n2, 0)
         /\ e < s.count => CacheTypes(Truncate(s, e + 1))
                           /\ Cache(sx, Truncate(s, e + 1), ln2, n2, 0)
<1>1. s.count \in Nat /\ s.count >= 1
  BY DEF Cache, CacheTypes
<1>2. ASSUME s.count <= e \/ s.count = 1 PROVE Cache(sx, s, ln2, n2, 0)
  <2>1. s.count \in 1..n2 + 1
    BY <1>1, <1>2
  <2>2. ASSUME NEW k \in 1..s.count - 1, s.ptr[k].ok
        PROVE  s.ptr[k].st = Dest[<<sx, ln2[k - 1], s.ptr[k - 1].st>>]
    <3>1. k - 1 \in 0..e - 1 /\ k # 0
      BY <1>1, <1>2
    <3> QED
      BY <2>2, <3>1 DEF Cache, RightStates
  <2> QED
    BY <2>1, <2>2 DEF Cache, RightStates
<1>3. ASSUME e < s.count
      PROVE  CacheTypes(Truncate(s, e + 1)) /\ Cache(sx, Truncate(s, e + 1), ln2, n2, 0)
  <2> DEFINE q == [k \in 0..e + 1 - 1 |-> s.ptr[k]]
             t == Truncate(s, e + 1)
  <2>1. t = [count |-> e + 1, ptr |-> q]
    BY DEF Truncate
  <2>2. 0..e + 1 - 1 = 0..e /\ 0..e \subseteq 0..s.count - 1 /\ s.count - 1 <= MaxLines
    BY <1>1, <1>3, SizesAssumption DEF CacheTypes
  <2>3. q \in [0..e -> Entries] /\ (\A k \in 0..e : q[k] = s.ptr[k])
    BY <2>2 DEF CacheTypes
  <2> HIDE DEF q, t
  <2>4. t.count = e + 1 /\ t.ptr = q
    BY <2>1
  <2>5. CacheTypes(t)
    <3>1. e + 1 \in 0..MaxLines + 1
      BY <1>1, <1>3, <2>2, SizesAssumption
    <3>2. t.ptr \in [0..t.count - 1 -> Entries]
      BY <2>2, <2>3, <2>4
    <3> QED
      BY <2>1, <2>4, <3>1, <3>2 DEF CacheTypes
  <2>6. ASSUME NEW k \in 1..t.count - 1, t.ptr[k].ok
        PROVE  t.ptr[k].st = Dest[<<sx, ln2[k - 1], t.ptr[k - 1].st>>]
    <3>1. /\ k - 1 \in 0..e - 1 /\ k # 0 /\ k \in 1..s.count - 1
          /\ k \in 0..e /\ k - 1 \in 0..e
      BY <1>1, <1>3, <2>4
    <3>2. t.ptr[k] = s.ptr[k] /\ t.ptr[k - 1] = s.ptr[k - 1]
      BY <2>3, <2>4, <3>1
    <3> QED
      BY <2>6, <3>1, <3>2 DEF Cache, RightStates
  <2>7. t.ptr[0] = Entry(Start[sx]) /\ t.count \in 1..n2 + 1
    <3>1. 0 \in 0..e
      OBVIOUS
    <3> QED
      BY <2>3, <2>4, <3>1 DEF Cache
  <2> QED
    BY <2>5, <2>6, <2>7 DEF Cache, RightStates, t
<1> QED
  BY <1>2, <1>3

LEMMA InsertRight ==
  ASSUME NEW sx, NEW ln, NEW ln2, NEW n \in Nat, NEW s, CacheTypes(s),
         Cache(sx, s, ln, n, 0), NEW e \in 0..n, NEW m \in Nat, n + m <= MaxLines,
         Around(ln, n, e, 0, m, ln2)
  PROVE  CacheTypes(HlInsert(s, e, m)) /\ Cache(sx, HlInsert(s, e, m), ln2, n + m, 0)
<1>1. s.count \in Nat /\ s.count >= 1 /\ s.count <= n + 1 /\ MaxLines \in Nat
  BY SizesAssumption DEF Cache, CacheTypes
<1>2. \A k \in 0..e - 1 : ln2[k] = ln[k]
  BY DEF Around
<1>3. n + m \in Nat /\ e \in 0..n + m
  OBVIOUS
<1>4. CASE e >= s.count
  BY <1>1, <1>2, <1>3, <1>4, TopRight DEF HlInsert
<1>5. CASE e < s.count /\ e + m + 1 >= s.count
  <2>1. HlInsert(s, e, m) = Truncate(s, e + 1)
    BY <1>1, <1>5 DEF HlInsert
  <2> QED
    BY <1>1, <1>2, <1>3, <1>5, <2>1, TopRight
<1>6. CASE e + m + 1 < s.count
  <2> DEFINE last == e + m
             q == [k \in 0..s.count + m - 1 |->
                     CASE k <= e -> s.ptr[k]
                       [] e < k /\ k <= last -> Invalid(s.ptr[k])
                       [] k = last + 1 -> Invalid(s.ptr[e + 1])
                       [] last + 1 < k -> s.ptr[k - m]]
             t == HlInsert(s, e, m)
  <2>0. ~(e >= s.count) /\ ~(e < s.count /\ e + m + 1 >= s.count)
    BY <1>1, <1>6
  <2>1. t = [count |-> s.count + m, ptr |-> q]
    BY <2>0, Zenon DEF HlInsert
  <2>2. t.count = s.count + m /\ t.ptr = q
    BY <2>1
  <2>3. ASSUME NEW k \in 0..s.count + m - 1
        PROVE  /\ k <= e => q[k] = s.ptr[k] /\ k \in 0..s.count - 1
               /\ e < k /\ k <= last => q[k] = Invalid(s.ptr[k]) /\ k \in 0..s.count - 1
               /\ k = last + 1 => q[k] = Invalid(s.ptr[e + 1]) /\ e + 1 \in 0..s.count - 1
               /\ last + 1 < k => q[k] = s.ptr[k - m] /\ k - m \in 0..s.count - 1
               /\ k <= e \/ (e < k /\ k <= last) \/ k = last + 1 \/ last + 1 < k
    BY <1>1, <1>6
  <2>4. q \in [0..s.count + m - 1 -> Entries]
    <3>1. ASSUME NEW k \in 0..s.count + m - 1 PROVE q[k] \in Entries
      <4>1. \A l \in 0..s.count - 1 : s.ptr[l] \in Entries
        BY DEF CacheTypes
      <4> HIDE DEF q
      <4> QED
        BY <2>3, <4>1, InvalidEntry
    <3>2. q = [k \in 0..s.count + m - 1 |-> q[k]]
      OBVIOUS
    <3> HIDE DEF q
    <3> QED
      BY <3>1, <3>2
  <2> HIDE DEF q, t
  <2>5. CacheTypes(t)
    BY <1>1, <2>1, <2>2, <2>4 DEF CacheTypes
  <2>6. t.count \in 1..n + m + 1
    BY <1>1, <2>2
  <2>7. t.ptr[0] = Entry(Start[sx])
    <3>1. 0 \in 0..s.count + m - 1 /\ 0 <= e
      BY <1>1
    <3> QED
      BY <2>2, <2>3, <3>1 DEF Cache
  <2>8. ASSUME NEW k \in 1..t.count - 1, t.ptr[k].ok
        PROVE  t.ptr[k].st = Dest[<<sx, ln2[k - 1], t.ptr[k - 1].st>>]
    <3>1. /\ k \in 0..s.count + m - 1 /\ k - 1 \in 0..s.count + m - 1 /\ k \in Nat /\ k - 1 \in Nat
      BY <1>1, <2>2
    <3>2. k <= e \/ last + 1 < k
      <4>1. \A l \in 0..s.count - 1 : s.ptr[l] \in Entries
        BY DEF CacheTypes
      <4> QED
        BY <2>2, <2>3, <2>8, <3>1, <4>1, InvalidEntry
    <3>3. CASE k <= e
      <4>1. k - 1 <= e /\ k - 1 \in 0..e - 1 /\ k # 0 /\ k \in 1..s.count - 1
        BY <1>1, <1>6, <3>1, <3>3
      <4>2. t.ptr[k] = s.ptr[k] /\ t.ptr[k - 1] = s.ptr[k - 1]
        BY <2>2, <2>3, <3>1, <3>3, <4>1
      <4> QED
        BY <1>2, <2>8, <4>1, <4>2 DEF Cache, RightStates
    <3>4. CASE last + 1 < k
      <4>1. PICK j \in Nat : j = k - m
        BY <3>1, <3>4
      <4>2. j \in 1..s.count - 1 /\ j - 1 \in e + 0 + 1..n - 1 /\ j - 1 - 0 + m = k - 1
            /\ j - 1 = k - 1 - m /\ j # 0
        BY <1>1, <2>2, <3>1, <3>4, <4>1
      <4>3. ln2[k - 1] = ln[j - 1]
        BY <4>2 DEF Around
      <4>4. t.ptr[k] = s.ptr[j]
        BY <2>2, <2>3, <3>1, <3>4, <4>1
      <4>5. t.ptr[k - 1].st = s.ptr[j - 1].st
        <5>1. CASE k - 1 = last + 1
          <6>1. t.ptr[k - 1] = Invalid(s.ptr[e + 1]) /\ e + 1 \in 0..s.count - 1
            BY <2>2, <2>3, <3>1, <5>1
          <6>2. j - 1 = e + 1
            BY <3>1, <4>1, <5>1
          <6>3. s.ptr[e + 1] \in Entries
            BY <6>1 DEF CacheTypes
          <6> QED
            BY <6>1, <6>2, <6>3, InvalidEntry
        <5>2. CASE last + 1 < k - 1
          BY <2>2, <2>3, <3>1, <4>2, <5>2
        <5> QED
          BY <3>1, <3>4, <5>1, <5>2
      <4> QED
        BY <2>8, <4>2, <4>3, <4>4, <4>5 DEF Cache, RightStates
    <3> QED
      BY <3>2, <3>3, <3>4
  <2> QED
    BY <2>5, <2>6, <2>7, <2>8 DEF Cache, RightStates, t
<1> QED
  BY <1>1, <1>4, <1>5, <1>6

LEMMA DeleteRight ==
  ASSUME NEW sx, NEW ln, NEW ln2, NEW n \in Nat, NEW s, CacheTypes(s),
         Cache(sx, s, ln, n, 0), NEW e \in 0..n, NEW m \in 0..n - e,
         Around(ln, n, e, m, 0, ln2)
  PROVE  CacheTypes(HlDelete(s, e, m)) /\ Cache(sx, HlDelete(s, e, m), ln2, n - m, 0)
<1>1. s.count \in Nat /\ s.count >= 1 /\ s.count <= n + 1 /\ MaxLines \in Nat
  BY SizesAssumption DEF Cache, CacheTypes
<1>2. \A k \in 0..e - 1 : ln2[k] = ln[k]
  BY DEF Around
<1>3. n - m \in Nat /\ e \in 0..n - m /\ m \in Nat
  OBVIOUS
<1>4. CASE s.count = 1 \/ e >= s.count
  BY <1>1, <1>2, <1>3, <1>4, TopRight DEF HlDelete
<1>5. CASE s.count > 1 /\ e < s.count /\ e + m + 1 >= s.count
  <2>1. HlDelete(s, e, m) = Truncate(s, e + 1)
    BY <1>1, <1>5 DEF HlDelete
  <2> QED
    BY <1>1, <1>2, <1>3, <1>5, <2>1, TopRight
<1>6. CASE e + m + 1 < s.count
  <2> DEFINE last == e + m
             q == [k \in 0..s.count - m - 1 |->
                     CASE k <= e -> s.ptr[k]
                       [] k = e + 1 -> Invalid(s.ptr[last + 1])
                       [] e + 1 < k -> s.ptr[k + m]]
             t == HlDelete(s, e, m)
  <2>0. ~(s.count = 1 \/ e >= s.count) /\ ~(s.count > 1 /\ e < s.count /\ e + m + 1 >= s.count)
    BY <1>1, <1>3, <1>6
  <2>1. t = [count |-> s.count - m, ptr |-> q]
    BY <2>0, Zenon DEF HlDelete
  <2>2. t.count = s.count - m /\ t.ptr = q
    BY <2>1
  <2>3. ASSUME NEW k \in 0..s.count - m - 1
        PROVE  /\ k <= e => q[k] = s.ptr[k] /\ k \in 0..s.count - 1
               /\ k = e + 1 => q[k] = Invalid(s.ptr[last + 1]) /\ last + 1 \in 0..s.count - 1
               /\ e + 1 < k => q[k] = s.ptr[k + m] /\ k + m \in 0..s.count - 1
               /\ k <= e \/ k = e + 1 \/ e + 1 < k
    <3>1. PICK c \in Nat : c = s.count
      BY <1>1
    <3>2. PICK a \in Nat : a = k
      BY <1>1, <1>3
    <3>3. a <= e \/ a = e + 1 \/ e + 1 < a
      BY <3>2
    <3>4. /\ a <= e => a \in 0..c - 1 /\ a # e + 1 /\ ~(e + 1 < a)
          /\ a = e + 1 => last + 1 \in 0..c - 1 /\ ~(a <= e) /\ ~(e + 1 < a)
          /\ e + 1 < a => a + m \in 0..c - 1 /\ a # e + 1 /\ ~(a <= e)
      BY <1>3, <1>6, <3>1, <3>2
    <3> QED
      BY <3>1, <3>2, <3>3, <3>4
  <2>4. q \in [0..s.count - m - 1 -> Entries]
    <3>1. ASSUME NEW k \in 0..s.count - m - 1 PROVE q[k] \in Entries
      <4>1. \A l \in 0..s.count - 1 : s.ptr[l] \in Entries
        BY DEF CacheTypes
      <4> HIDE DEF q
      <4> QED
        BY <2>3, <4>1, InvalidEntry
    <3>2. q = [k \in 0..s.count - m - 1 |-> q[k]]
      OBVIOUS
    <3> HIDE DEF q
    <3> QED
      BY <3>1, <3>2
  <2> HIDE DEF q, t
  <2>5. CacheTypes(t)
    <3>1. s.count - m \in 0..MaxLines + 1
      BY <1>1, <1>3, <1>6 DEF CacheTypes
    <3> QED
      BY <2>1, <2>2, <2>4, <3>1 DEF CacheTypes
  <2>6. t.count \in 1..n - m + 1
    BY <1>1, <1>3, <1>6, <2>2
  <2>7. t.ptr[0] = Entry(Start[sx])
    <3>1. 0 \in 0..s.count - m - 1 /\ 0 <= e
      BY <1>1, <1>3, <1>6
    <3> QED
      BY <2>2, <2>3, <3>1 DEF Cache
  <2>8. ASSUME NEW k \in 1..t.count - 1, t.ptr[k].ok
        PROVE  t.ptr[k].st = Dest[<<sx, ln2[k - 1], t.ptr[k - 1].st>>]
    <3>1. /\ k \in 0..s.count - m - 1 /\ k - 1 \in 0..s.count - m - 1 /\ k \in Nat /\ k - 1 \in Nat
      BY <1>1, <1>3, <2>2
    <3>2. k <= e \/ e + 1 < k
      <4>1. \A l \in 0..s.count - 1 : s.ptr[l] \in Entries
        BY DEF CacheTypes
      <4> QED
        BY <2>2, <2>3, <2>8, <3>1, <4>1, InvalidEntry
    <3>3. CASE k <= e
      <4>1. k - 1 <= e /\ k - 1 \in 0..e - 1 /\ k # 0 /\ k \in 1..s.count - 1
        BY <1>1, <1>3, <1>6, <3>1, <3>3
      <4>2. t.ptr[k] = s.ptr[k] /\ t.ptr[k - 1] = s.ptr[k - 1]
        BY <2>2, <2>3, <3>1, <3>3, <4>1
      <4> QED
        BY <1>2, <2>8, <4>1, <4>2 DEF Cache, RightStates
    <3>4. CASE e + 1 < k
      <4>1. PICK j \in Nat : j = k + m
        BY <1>3, <3>1
      <4>2. j \in 1..s.count - 1 /\ j - 1 \in e + m + 1..n - 1 /\ j - 1 - m + 0 = k - 1
            /\ j - 1 = k - 1 + m /\ j # 0
        BY <1>1, <1>3, <2>2, <3>1, <3>4, <4>1
      <4>3. ln2[k - 1] = ln[j - 1]
        BY <4>2 DEF Around
      <4>4. t.ptr[k] = s.ptr[j]
        BY <2>2, <2>3, <3>1, <3>4, <4>1
      <4>5. t.ptr[k - 1].st = s.ptr[j - 1].st
        <5>1. CASE k - 1 = e + 1
          <6>1. t.ptr[k - 1] = Invalid(s.ptr[last + 1]) /\ last + 1 \in 0..s.count - 1
            BY <2>2, <2>3, <3>1, <5>1
          <6>2. j - 1 = last + 1
            BY <1>3, <3>1, <4>1, <5>1
          <6>3. s.ptr[last + 1] \in Entries
            BY <6>1 DEF CacheTypes
          <6> QED
            BY <6>1, <6>2, <6>3, InvalidEntry
        <5>2. CASE e + 1 < k - 1
          BY <2>2, <2>3, <3>1, <4>2, <5>2
        <5> QED
          BY <3>1, <3>4, <5>1, <5>2
      <4> QED
        BY <2>8, <4>2, <4>3, <4>4, <4>5 DEF Cache, RightStates
    <3> QED
      BY <3>2, <3>3, <3>4
  <2> QED
    BY <2>5, <2>6, <2>7, <2>8 DEF Cache, RightStates, t
<1> QED
  BY <1>1, <1>3, <1>4, <1>5, <1>6

-----------------------------------------------------------------------------
(* Edits *)

LEMMA ReplacedLines ==
  ASSUME TextTypes, NEW e \in 0..nl, NEW gone \in 0..nl - e, NEW m \in Nat, NEW new,
         \A k \in 0..m - 1 : new[k] \in Kinds, ReplaceLines(e, gone, m, new)
  PROVE  /\ nl' = nl - gone + m /\ nl' \in 0..MaxLines
         /\ line' \in [0..nl' - 1 -> Kinds]
         /\ \A k \in 0..e - 1 : line'[k] = line[k]
         /\ \A k \in e + gone..nl - 1 : line'[k - gone + m] = line[k]
<1>1. nl \in Nat /\ nl <= MaxLines /\ MaxLines \in Nat /\ gone \in Nat /\ e \in Nat
  BY SizesAssumption DEF TextTypes
<1>2. PICK c \in Nat : c = nl - gone + m
  BY <1>1
<1> DEFINE f(k) == IF k < e THEN line[k] ELSE IF k < e + m THEN new[k - e] ELSE line[k - m + gone]
<1>3. nl' = c /\ c <= MaxLines /\ line' = [k \in 0..c - 1 |-> f(k)]
  <2>1. /\ nl' = nl - gone + m /\ nl - gone + m <= MaxLines
        /\ line' = [k \in 0..nl - gone + m - 1 |-> f(k)]
    BY DEF ReplaceLines
  <2>2. nl - gone + m = c /\ 0..nl - gone + m - 1 = 0..c - 1
    BY <1>1, <1>2
  <2> HIDE DEF f
  <2>3. line' = [k \in 0..c - 1 |-> f(k)]
    BY <2>1, <2>2, Zenon
  <2> QED
    BY <2>1, <2>2, <2>3, Zenon
<1>4. ASSUME NEW k \in 0..c - 1 PROVE f(k) \in Kinds
  <2>1. CASE k < e
    <3>1. k \in 0..nl - 1
      BY <1>1, <2>1
    <3> QED
      BY <2>1, <3>1 DEF TextTypes
  <2>2. CASE ~(k < e) /\ k < e + m
    <3>1. k - e \in 0..m - 1
      BY <1>1, <2>2
    <3> QED
      BY <2>2, <3>1
  <2>3. CASE ~(k < e) /\ ~(k < e + m)
    <3>1. k - m + gone \in 0..nl - 1
      BY <1>1, <1>2, <2>3
    <3> QED
      BY <2>3, <3>1 DEF TextTypes
  <2> QED
    BY <2>1, <2>2, <2>3
<1>5. line' \in [0..nl' - 1 -> Kinds]
  <2> HIDE DEF f
  <2> QED
    BY <1>3, <1>4
<1>6. ASSUME NEW k \in 0..e - 1 PROVE line'[k] = line[k]
  <2>1. k \in 0..c - 1 /\ k < e
    BY <1>1, <1>2
  <2> QED
    BY <1>3, <2>1
<1>7. ASSUME NEW k \in e + gone..nl - 1 PROVE line'[k - gone + m] = line[k]
  <2>1. PICK j \in Nat : j = k - gone + m
    BY <1>1
  <2>2. j \in 0..c - 1 /\ ~(j < e) /\ ~(j < e + m) /\ j - m + gone = k
    BY <1>1, <1>2, <2>1
  <2> QED
    BY <1>3, <2>1, <2>2
<1> QED
  BY <1>2, <1>3, <1>5, <1>6, <1>7

LEMMA MarkedRange ==
  ASSUME NEW r \in [min : 0..LongMax, max : -1..LongMax], NEW a \in 0..LongMax,
         NEW b \in 0..LongMax
  PROVE  /\ MarkLines(r, a, b) \in [min : 0..LongMax, max : -1..LongMax]
         /\ MarkLines(r, a, b).min <= b
<1>1. LongMax \in Nat
  BY SizesAssumption DEF LongMax
<1> HIDE DEF LongMax
<1> QED
  BY <1>1 DEF MarkLines, Least, Most

LEMMA EditKeeps ==
  ASSUME HInv, pc = "idle", NEW e \in 0..nl, NEW gone \in 0..nl - e, NEW m \in Nat,
         nl' = nl - gone + m, nl' \in 0..MaxLines, line' \in [0..nl' - 1 -> Kinds],
         CursorsMove(e, gone, m), NEW max \in 0..LongMax, NEW s, Edited(e, max, s),
         syntax # NoSyntax => CacheTypes(s) /\ Cache(syntax, s, line', nl', 0)
  PROVE  HInv'
<1>1. nl \in Nat /\ nl <= MaxLines /\ MaxLines \in Nat /\ gone \in Nat /\ e \in Nat
      /\ Height \in Nat /\ MaxBatch \in Nat
  BY SizesAssumption DEF HInv, TextTypes
<1>2. TextTypes'
  BY DEF HInv, TextTypes, Edited
<1>3. ViewTypes'
  <2>1. /\ shown' = shown /\ here' = here /\ vy' = vy
        /\ shown \subseteq Windows /\ here \in shown
        /\ vy \in [Windows -> 0..MaxLines] /\ cy \in [Windows -> 0..nl]
        /\ \A w \in Windows \ shown : cy[w] = 0
    BY DEF HInv, ViewTypes, Edited
  <2>2. /\ cy' \in [Windows -> 0..MaxLines]
        /\ \A w \in Windows :
             IF w = here THEN cy'[w] = e
             ELSE IF w \notin shown \/ cy[w] < e THEN cy'[w] = cy[w]
             ELSE cy'[w] \in e..(Most(e, cy[w] - gone) + m)
    BY DEF CursorsMove
  <2>3. PICK c \in Nat : c = nl' /\ c = nl - gone + m
    BY <1>1
  <2>4. ASSUME NEW w \in Windows PROVE cy'[w] \in 0..c
    <3>1. cy[w] \in 0..nl
      BY <2>1
    <3>2. CASE w = here
      BY <1>1, <2>2, <2>3, <3>2
    <3>3. CASE w # here /\ w \notin shown
      BY <1>1, <2>1, <2>2, <3>3
    <3>4. CASE w # here /\ cy[w] < e
      BY <1>1, <2>2, <2>3, <3>1, <3>4
    <3>5. CASE w # here /\ w \in shown /\ ~(cy[w] < e)
      <4>1. cy'[w] \in e..(Most(e, cy[w] - gone) + m)
        BY <2>2, <3>5
      <4>2. Most(e, cy[w] - gone) + m \in Int /\ Most(e, cy[w] - gone) + m <= c
        BY <1>1, <2>3, <3>1 DEF Most
      <4> QED
        BY <1>1, <2>3, <4>1, <4>2
    <3> QED
      BY <3>2, <3>3, <3>4, <3>5
  <2>5. cy' \in [Windows -> 0..nl']
    BY <2>2, <2>3, <2>4
  <2>6. \A w \in Windows \ shown : cy'[w] = 0
    BY <2>1, <2>2
  <2> QED
    BY <2>1, <2>5, <2>6 DEF ViewTypes
<1>4. UpdateTypes'
  <2>1. e \in 0..LongMax
    BY <1>1 DEF LongMax
  <2>2. range' \in [min : 0..LongMax, max : -1..LongMax]
    BY <2>1, MarkedRange DEF HInv, UpdateTypes, Edited
  <2>3. batch' \in 0..MaxBatch
    BY <1>1 DEF HInv, UpdateTypes, Edited, Change
  <2> QED
    BY <2>2, <2>3 DEF HInv, UpdateTypes, Edited, Change, updateVars
<1>5. CacheTypes(lss)' /\ (syntax # NoSyntax => Cache(syntax, lss, line, nl, Pending))'
  <2>1. Pending' = 0 /\ syntax' = syntax
    BY DEF Pending, Edited, Change
  <2>2. CASE syntax = NoSyntax
    <3>1. lss' = lss
      BY <2>2 DEF Edited
    <3> QED
      BY <2>1, <2>2, <3>1 DEF HInv, CacheTypes
  <2>3. CASE syntax # NoSyntax
    <3>1. lss' = s
      BY <2>3 DEF Edited
    <3>2. CacheTypes(s) /\ Cache(syntax, s, line', nl', 0)
      BY <2>3
    <3>3. CacheTypes(lss)'
      BY <3>1, <3>2 DEF CacheTypes
    <3>4. Cache(syntax, lss, line, nl, Pending)'
      BY <2>1, <3>1, <3>2 DEF Cache, RightStates
    <3> QED
      BY <3>3, <3>4
  <2> QED
    BY <2>2, <2>3
<1>6. StartFits' /\ AtRest' /\ LoopFits'
  BY DEF HInv, StartFits, AtRest, LoopFits, Edited, Change, updateVars
<1>7. LoopTypes'
  BY DEF HInv, AtRest, LoopTypes, InLoop, Loops, Edited, Change, updateVars
<1> QED
  BY <1>2, <1>3, <1>4, <1>5, <1>6, <1>7 DEF HInv

LEMMA InsertKeeps ==
  ASSUME HInv, Ready, NEW e \in 0..nl, NEW n \in 0..MaxLines, n <= MaxLines - nl,
         NEW new \in [0..n -> Kinds], Insert(e, n, new)
  PROVE  HInv'
<1>1. nl \in Nat /\ nl <= MaxLines /\ MaxLines \in Nat /\ e \in Nat /\ pc = "idle" /\ n \in Nat
      /\ Height \in Nat
  BY SizesAssumption DEF HInv, TextTypes, Ready
<1>2. PICK gone \in {0, 1} : gone = IF e < nl THEN 1 ELSE 0
  OBVIOUS
<1>3. /\ gone + n > 0 /\ ReplaceLines(e, gone, n + gone, new) /\ CursorsMove(e, 0, n)
      /\ Edited(e, IF n = 0 THEN e ELSE LongMax, HlInsert(lss, e, n))
  BY <1>2 DEF Insert
<1>4. PICK m \in Nat : m = n + gone
  BY <1>1
<1>5. gone \in 0..nl - e /\ \A k \in 0..m - 1 : new[k] \in Kinds
  BY <1>1, <1>2, <1>4
<1>6. /\ nl' = nl - gone + m /\ nl' \in 0..MaxLines
      /\ line' \in [0..nl' - 1 -> Kinds]
      /\ \A k \in 0..e - 1 : line'[k] = line[k]
      /\ \A k \in e + gone..nl - 1 : line'[k - gone + m] = line[k]
  BY <1>3, <1>4, <1>5, ReplacedLines DEF HInv
<1>7. nl' = nl - 0 + n /\ nl' = nl + n /\ 0 \in 0..nl - e /\ nl + n <= MaxLines
  BY <1>1, <1>4, <1>6
<1>8. Around(line, nl, e, 0, n, line')
  <2>1. ASSUME NEW k \in e + 0 + 1..nl - 1 PROVE line'[k - 0 + n] = line[k]
    <3>1. k \in e + gone..nl - 1 /\ k - 0 + n = k - gone + m
      BY <1>1, <1>2, <1>4
    <3> QED
      BY <1>6, <3>1
  <2> QED
    BY <1>6, <2>1 DEF Around
<1>9. syntax # NoSyntax => /\ CacheTypes(HlInsert(lss, e, n))
                           /\ Cache(syntax, HlInsert(lss, e, n), line', nl + n, 0)
  <2>1. syntax # NoSyntax => Cache(syntax, lss, line, nl, 0) /\ CacheTypes(lss)
    BY <1>1 DEF HInv, Pending
  <2> QED
    BY <1>1, <1>7, <1>8, <2>1, InsertRight
<1>10. PICK s : s = HlInsert(lss, e, n)
  OBVIOUS
<1>11. PICK max \in 0..LongMax : max = IF n = 0 THEN e ELSE LongMax
  BY <1>1 DEF LongMax
<1>12. Edited(e, max, s)
  BY <1>3, <1>10, <1>11
<1>13. syntax # NoSyntax => CacheTypes(s) /\ Cache(syntax, s, line', nl', 0)
  BY <1>7, <1>9, <1>10
<1> QED
  BY <1>1, <1>3, <1>6, <1>7, <1>12, <1>13, EditKeeps

LEMMA DeleteKeeps ==
  ASSUME HInv, Ready, NEW e \in 0..nl, NEW n \in 0..MaxLines, NEW new \in [{0} -> Kinds],
         Delete(e, n, new)
  PROVE  HInv'
<1>1. nl \in Nat /\ nl <= MaxLines /\ MaxLines \in Nat /\ e \in Nat /\ pc = "idle" /\ n \in Nat
      /\ Height \in Nat
  BY SizesAssumption DEF HInv, TextTypes, Ready
<1>2. PICK left \in {0, 1} : left = IF e + n < nl THEN 1 ELSE 0
  OBVIOUS
<1>3. /\ e < nl /\ e + n <= nl /\ ReplaceLines(e, n + left, left, new) /\ CursorsMove(e, n, 0)
      /\ Edited(e, IF n = 0 THEN e ELSE LongMax, HlDelete(lss, e, n))
  BY <1>2 DEF Delete
<1>4. PICK gone \in Nat : gone = n + left
  BY <1>1
<1>5. gone \in 0..nl - e /\ left \in Nat /\ \A k \in 0..left - 1 : new[k] \in Kinds
  BY <1>1, <1>2, <1>3, <1>4
<1>6. /\ nl' = nl - gone + left /\ nl' \in 0..MaxLines
      /\ line' \in [0..nl' - 1 -> Kinds]
      /\ \A k \in 0..e - 1 : line'[k] = line[k]
      /\ \A k \in e + gone..nl - 1 : line'[k - gone + left] = line[k]
  BY <1>3, <1>4, <1>5, ReplacedLines DEF HInv
<1>7. nl' = nl - n + 0 /\ nl' = nl - n /\ n \in 0..nl - e
  BY <1>1, <1>3, <1>4, <1>6
<1>8. Around(line, nl, e, n, 0, line')
  <2>1. ASSUME NEW k \in e + n + 1..nl - 1 PROVE line'[k - n + 0] = line[k]
    <3>1. k \in e + gone..nl - 1 /\ k - n + 0 = k - gone + left
      BY <1>1, <1>2, <1>4
    <3> QED
      BY <1>6, <3>1
  <2> QED
    BY <1>6, <2>1 DEF Around
<1>9. syntax # NoSyntax => /\ CacheTypes(HlDelete(lss, e, n))
                           /\ Cache(syntax, HlDelete(lss, e, n), line', nl - n, 0)
  <2>1. syntax # NoSyntax => Cache(syntax, lss, line, nl, 0) /\ CacheTypes(lss)
    BY <1>1 DEF HInv, Pending
  <2> QED
    BY <1>1, <1>7, <1>8, <2>1, DeleteRight
<1>10. PICK s : s = HlDelete(lss, e, n)
  OBVIOUS
<1>11. PICK max \in 0..LongMax : max = IF n = 0 THEN e ELSE LongMax
  BY <1>1 DEF LongMax
<1>12. Edited(e, max, s)
  BY <1>3, <1>10, <1>11
<1>13. syntax # NoSyntax => CacheTypes(s) /\ Cache(syntax, s, line', nl', 0)
  BY <1>7, <1>9, <1>10
<1> QED
  BY <1>1, <1>3, <1>6, <1>7, <1>12, <1>13, EditKeeps

\* A do_replace tells hl of the lines that go and then of those that come.
LEMMA ReplaceKeeps ==
  ASSUME HInv, Ready, NEW e \in 0..nl, NEW n \in 0..MaxLines, NEW gone \in 0..nl - 1,
         nl - gone + n <= MaxLines, NEW new \in [0..n -> Kinds], Replace(e, gone, n, new)
  PROVE  HInv'
<1>1. nl \in Nat /\ nl <= MaxLines /\ MaxLines \in Nat /\ e \in Nat /\ pc = "idle" /\ n \in Nat
      /\ Height \in Nat /\ gone \in Nat
  BY SizesAssumption DEF HInv, TextTypes, Ready
<1>3. /\ e + gone < nl /\ ReplaceLines(e, gone + 1, n + 1, new) /\ CursorsMove(e, gone, n)
      /\ Edited(e, IF gone = n THEN e + gone ELSE LongMax,
                HlInsert(HlDelete(lss, e, gone), e, n))
  BY DEF Replace
<1>4. PICK g \in Nat, m \in Nat : g = gone + 1 /\ m = n + 1
  BY <1>1
<1>5. g \in 0..nl - e /\ gone \in 0..nl - e /\ \A k \in 0..m - 1 : new[k] \in Kinds
  BY <1>1, <1>3, <1>4
<1>6. /\ nl' = nl - g + m /\ nl' \in 0..MaxLines
      /\ line' \in [0..nl' - 1 -> Kinds]
      /\ \A k \in 0..e - 1 : line'[k] = line[k]
      /\ \A k \in e + g..nl - 1 : line'[k - g + m] = line[k]
  BY <1>3, <1>4, <1>5, ReplacedLines DEF HInv
<1>7. PICK r \in Nat : r = nl - gone
  BY <1>1, <1>3
<1>8. nl' = nl - gone + n /\ nl' = r + n /\ r + n <= MaxLines /\ e \in 0..r
  BY <1>1, <1>3, <1>4, <1>6, <1>7
<1> DEFINE between == [k \in 0..r - 1 |-> IF k < e THEN line[k] ELSE line[k + gone]]
<1>9. Around(line, nl, e, gone, 0, between)
  <2>1. ASSUME NEW k \in 0..e - 1 PROVE between[k] = line[k]
    BY <1>1, <1>8
  <2>2. ASSUME NEW k \in e + gone + 1..nl - 1 PROVE between[k - gone + 0] = line[k]
    <3>1. PICK j \in Nat : j = k - gone + 0
      BY <1>1
    <3>2. j \in 0..r - 1 /\ ~(j < e) /\ j + gone = k
      BY <1>1, <1>7, <3>1
    <3> QED
      BY <3>1, <3>2
  <2> HIDE DEF between
  <2> QED
    BY <2>1, <2>2 DEF Around
<1>10. Around(between, r, e, 0, n, line')
  <2>1. ASSUME NEW k \in 0..e - 1 PROVE line'[k] = between[k]
    BY <1>1, <1>6, <1>8
  <2>2. ASSUME NEW k \in e + 0 + 1..r - 1 PROVE line'[k - 0 + n] = between[k]
    <3>1. PICK j \in Nat : j = k + gone
      BY <1>1
    <3>2. j \in e + g..nl - 1 /\ j - g + m = k - 0 + n /\ k \in 0..r - 1 /\ ~(k < e)
      BY <1>1, <1>4, <1>7, <3>1
    <3>3. between[k] = line[j]
      BY <3>1, <3>2
    <3> HIDE DEF between
    <3> QED
      BY <1>6, <3>2, <3>3
  <2> HIDE DEF between
  <2> QED
    BY <2>1, <2>2 DEF Around
<1> HIDE DEF between
<1>11. PICK s : s = HlInsert(HlDelete(lss, e, gone), e, n)
  OBVIOUS
<1>12. syntax # NoSyntax => CacheTypes(s) /\ Cache(syntax, s, line', nl', 0)
  <2>1. SUFFICES ASSUME syntax # NoSyntax
                 PROVE  CacheTypes(s) /\ Cache(syntax, s, line', nl', 0)
    OBVIOUS
  <2>2. Cache(syntax, lss, line, nl, 0) /\ CacheTypes(lss)
    BY <1>1, <2>1 DEF HInv, Pending
  <2>3. PICK s1 : s1 = HlDelete(lss, e, gone)
    OBVIOUS
  <2>4. CacheTypes(s1) /\ Cache(syntax, s1, between, r, 0)
    BY <1>1, <1>5, <1>7, <1>9, <2>2, <2>3, DeleteRight
  <2>5. s = HlInsert(s1, e, n)
    BY <1>11, <2>3
  <2>6. CacheTypes(HlInsert(s1, e, n)) /\ Cache(syntax, HlInsert(s1, e, n), line', r + n, 0)
    BY <1>1, <1>8, <1>10, <2>4, InsertRight
  <2> QED
    BY <1>8, <2>5, <2>6
<1>13. PICK max \in 0..LongMax : max = IF gone = n THEN e + gone ELSE LongMax
  BY <1>1, <1>3 DEF LongMax
<1>14. Edited(e, max, s)
  BY <1>3, <1>11, <1>13
<1> QED
  BY <1>1, <1>3, <1>5, <1>6, <1>8, <1>12, <1>14, EditKeeps

LEMMA EditsKeep ==
  ASSUME HInv, Edit PROVE HInv'
BY InsertKeeps, DeleteKeeps, ReplaceKeeps DEF Edit

-----------------------------------------------------------------------------
(* Moves, and what is shown *)

LEMMA ShowKeeps ==
  ASSUME HInv, Show PROVE HInv'
<1>1. /\ nl \in Nat /\ nl <= MaxLines /\ MaxLines \in Nat /\ Height \in Nat /\ MaxBatch \in Nat
      /\ pc = "idle" /\ TextTypes /\ ViewTypes /\ UpdateTypes /\ CacheTypes(lss) /\ AtRest
      /\ LoopTypes
  BY SizesAssumption DEF HInv, TextTypes, Show, Ready
<1>2. ASSUME Change PROVE batch' \in 0..MaxBatch /\ pc' = "idle"
  BY <1>1, <1>2 DEF Change, UpdateTypes
<1>3. ASSUME pc' = "idle", todo' = todo, at' = at
      PROVE  StartFits' /\ AtRest' /\ LoopFits' /\ LoopTypes' /\ Pending' = 0 /\ Pending = 0
  BY <1>1, <1>3 DEF StartFits, AtRest, LoopFits, LoopTypes, InLoop, Loops, Pending
<1>4. ASSUME UNCHANGED <<line, nl, syntax, lss>>, pc' = "idle", todo' = todo, at' = at
      PROVE  /\ TextTypes' /\ CacheTypes(lss)'
             /\ (syntax # NoSyntax => Cache(syntax, lss, line, nl, Pending))'
  <2>1. TextTypes' /\ CacheTypes(lss)'
    BY <1>1, <1>4 DEF TextTypes, CacheTypes
  <2>2. Pending' = Pending
    BY <1>3, <1>4
  <2> QED
    BY <1>4, <2>1, <2>2 DEF HInv, Cache, RightStates
<1>5. ASSUME NEW e \in 0..nl, Move(e) PROVE HInv'
  <2>1. ViewTypes'
    BY <1>1, <1>5 DEF Move, ViewTypes, textVars
  <2>2. UpdateTypes'
    BY <1>1, <1>2, <1>5 DEF Move, UpdateTypes, updateVars
  <2> QED
    BY <1>2, <1>3, <1>4, <1>5, <2>1, <2>2 DEF Move, HInv, textVars, updateVars
<1>6. ASSUME NEW y \in 0..nl, NEW e \in 0..nl, Scroll(y, e) PROVE HInv'
  <2>1. ViewTypes'
    BY <1>1, <1>6 DEF Scroll, ViewTypes, textVars
  <2>2. UpdateTypes'
    BY <1>1, <1>2, <1>6 DEF Scroll, UpdateTypes, updateVars
  <2> QED
    BY <1>2, <1>3, <1>4, <1>6, <2>1, <2>2 DEF Scroll, HInv, textVars, updateVars
<1>7. AllLines \in [min : 0..LongMax, max : -1..LongMax] /\ LongMax \in Nat
  BY <1>1 DEF AllLines, LongMax
<1>8. ASSUME NEW s \in Syntaxes \cup {NoSyntax}, SetSyntax(s) PROVE HInv'
  <2>1. TextTypes' /\ ViewTypes'
    BY <1>1, <1>8 DEF SetSyntax, TextTypes, ViewTypes, viewVars
  <2>2. UpdateTypes'
    BY <1>1, <1>2, <1>7, <1>8 DEF SetSyntax, UpdateTypes, updateVars, viewVars
  <2>3. CacheTypes(lss)' /\ (syntax # NoSyntax => Cache(syntax, lss, line, nl, Pending))'
    <3>1. CASE s = NoSyntax
      BY <1>1, <1>8, <3>1 DEF SetSyntax, CacheTypes
    <3>2. CASE s # NoSyntax
      <4>1. lss' = [count |-> 1, ptr |-> [k \in {0} |-> Entry(Start[s])]] /\ syntax' = s
            /\ nl' = nl /\ s \in Syntaxes
        BY <1>8, <3>2 DEF SetSyntax
      <4>2. Entry(Start[s]) \in Entries
        BY <4>1, SyntaxAssumption DEF Entry, Entries
      <4>3. {0} = 0..1 - 1 /\ 1 \in 0..MaxLines + 1 /\ 1 \in 1..nl + 1 /\ 1..1 - 1 = {}
        BY <1>1
      <4>4. lss'.count = 1 /\ lss'.ptr = [k \in 0..1 - 1 |-> Entry(Start[s])]
        BY <4>1, <4>3
      <4>5. lss'.ptr \in [0..lss'.count - 1 -> Entries] /\ lss'.ptr[0] = Entry(Start[s])
        BY <4>2, <4>4
      <4> QED
        BY <4>1, <4>3, <4>4, <4>5 DEF CacheTypes, Cache, RightStates
    <3> QED
      BY <3>1, <3>2
  <2> QED
    BY <1>2, <1>3, <1>8, <2>1, <2>2, <2>3 DEF SetSyntax, HInv, updateVars
<1>9. ASSUME Select PROVE HInv'
  <2>1. ViewTypes'
    BY <1>1, <1>9 DEF Select, ViewTypes, textVars, viewVars
  <2>2. UpdateTypes'
    <3>1. cy[here] \in 0..LongMax
      BY <1>1 DEF ViewTypes, LongMax
    <3>2. range' \in [min : 0..LongMax, max : -1..LongMax]
      <4>1. range' = MarkLines(range, cy[here], cy[here]) \/ range' = AllLines
        BY <1>9 DEF Select
      <4>2. MarkLines(range, cy[here], cy[here]) \in [min : 0..LongMax, max : -1..LongMax]
        BY <1>1, <3>1, MarkedRange DEF UpdateTypes
      <4> QED
        BY <1>7, <4>1, <4>2
    <3> QED
      BY <1>1, <1>2, <1>9, <3>2 DEF Select, UpdateTypes, updateVars, viewVars
  <2> QED
    BY <1>2, <1>3, <1>4, <1>9, <2>1, <2>2 DEF Select, HInv, textVars, updateVars
<1>10. ASSUME NEW ws \in SUBSET Windows, NEW w \in Windows, NEW e \in 0..nl, Arrange(ws, w, e)
       PROVE  HInv'
  <2>1. ViewTypes'
    BY <1>1, <1>10 DEF Arrange, ViewTypes, textVars
  <2>2. UpdateTypes'
    <3>1. todo = {}
      BY <1>1 DEF AtRest
    <3>2. BlankRows \in [0..Height - 1 -> Rows]
      BY DEF BlankRows, Rows
    <3>3. drawn' \in [Windows -> [0..Height - 1 -> Rows]]
      BY <1>1, <1>10, <3>2 DEF Arrange, UpdateTypes
    <3> QED
      BY <1>1, <1>2, <1>10, <3>1, <3>3 DEF Arrange, UpdateTypes
  <2> QED
    BY <1>2, <1>3, <1>4, <1>10, <2>1, <2>2 DEF Arrange, HInv, textVars
<1> QED
  BY <1>5, <1>6, <1>8, <1>9, <1>10 DEF Show

-----------------------------------------------------------------------------
(* The steps of an update *)

LEMMA ScrolledFits ==
  ASSUME HInv, NEW w \in Windows
  PROVE  Scrolled(w) \in 0..MaxLines /\ Scrolled(w) <= cy[w]
<1>1. /\ nl \in Nat /\ nl <= MaxLines /\ MaxLines \in Nat /\ Height \in Nat /\ Height > 0
      /\ cy[w] \in 0..nl /\ vy[w] \in 0..MaxLines
  BY SizesAssumption DEF HInv, TextTypes, ViewTypes
<1>2. PICK c \in Nat, v \in Nat : c = cy[w] /\ v = vy[w]
  BY <1>1
<1>3. CASE c < v
  BY <1>1, <1>2, <1>3 DEF Scrolled
<1>4. CASE c > v + Height - 1
  <2>1. Scrolled(w) \in {nl - Height + 1, v + c - (v + Height - 1)}
        /\ (Scrolled(w) = nl - Height + 1 =>
              nl - Height + 1 >= 0 /\ v + c - (v + Height - 1) >= nl - Height + 1)
    BY <1>1, <1>2, <1>4 DEF Scrolled
  <2> QED
    BY <1>1, <1>2, <1>4, <2>1
<1>5. CASE ~(c < v) /\ ~(c > v + Height - 1)
  <2>1. Scrolled(w) = v
    BY <1>1, <1>2, <1>5 DEF Scrolled
  <2> QED
    BY <1>1, <1>2, <1>5, <2>1
<1> QED
  BY <1>3, <1>4, <1>5

LEMMA BeginKeeps ==
  ASSUME HInv, BeginUpdate PROVE HInv'
<1>1. /\ nl \in Nat /\ nl <= MaxLines /\ MaxLines \in Nat /\ Height \in Nat
      /\ TextTypes /\ ViewTypes /\ UpdateTypes /\ CacheTypes(lss) /\ LoopTypes /\ AtRest
      /\ here \in Windows /\ cy[here] \in 0..nl
  BY SizesAssumption DEF HInv, TextTypes, ViewTypes
<1>2. /\ pc = "idle" /\ pc' = "window" /\ todo' = shown
      /\ vy' = IF all THEN vy ELSE [vy EXCEPT ![here] = Scrolled(here)]
      /\ range' = CASE all -> range
                    [] ~all /\ Scrolled(here) # old.vy -> AllLines
                    [] OTHER -> MarkLines(range, old.cy, cy[here])
      /\ UNCHANGED <<line, nl, syntax, lss, shown, here, cy, old, all, batch, at, drawn>>
  BY DEF BeginUpdate, textVars
<1>3. Scrolled(here) \in 0..MaxLines /\ Scrolled(here) <= cy[here]
  BY <1>1, ScrolledFits
<1>4. ViewTypes'
  BY <1>1, <1>2, <1>3 DEF ViewTypes
<1>5. range' \in [min : 0..LongMax, max : -1..LongMax] /\ (all \/ range'.min <= cy[here])
  <2>1. cy[here] \in 0..LongMax /\ old.cy \in 0..LongMax
    BY <1>1 DEF LongMax, UpdateTypes
  <2>2. AllLines \in [min : 0..LongMax, max : -1..LongMax] /\ AllLines.min <= cy[here]
    BY <1>1 DEF AllLines, LongMax
  <2>3. CASE all
    BY <1>1, <1>2, <2>3 DEF UpdateTypes
  <2>4. CASE ~all /\ Scrolled(here) # old.vy
    BY <1>2, <2>2, <2>4
  <2>5. CASE ~all /\ Scrolled(here) = old.vy
    <3>1. range' = MarkLines(range, old.cy, cy[here])
      BY <1>2, <2>5
    <3> QED
      BY <1>1, <2>1, <3>1, MarkedRange DEF UpdateTypes
  <2> QED
    BY <2>3, <2>4, <2>5
<1>6. UpdateTypes'
  BY <1>1, <1>2, <1>5 DEF UpdateTypes
<1>7. StartFits'
  <2>1. ~all => vy'[here] = Scrolled(here)
    BY <1>1, <1>2 DEF ViewTypes
  <2> QED
    BY <1>2, <1>3, <1>5, <2>1 DEF StartFits
<1>8. TextTypes' /\ CacheTypes(lss)' /\ AtRest' /\ LoopTypes' /\ LoopFits'
  BY <1>1, <1>2 DEF TextTypes, CacheTypes, AtRest, LoopTypes, LoopFits, InLoop, Loops
<1>9. (syntax # NoSyntax => Cache(syntax, lss, line, nl, Pending))'
  BY <1>2 DEF HInv, Pending, Cache, RightStates
<1> QED
  BY <1>4, <1>6, <1>7, <1>8, <1>9 DEF HInv

LEMMA StartKeeps ==
  ASSUME HInv, NEW w \in Windows, StartWindow(w) PROVE HInv'
<1>1. /\ nl \in Nat /\ nl <= MaxLines /\ MaxLines \in Nat /\ Height \in Nat
      /\ TextTypes /\ ViewTypes /\ UpdateTypes /\ CacheTypes(lss) /\ LoopTypes /\ StartFits
      /\ here \in Windows /\ cy[here] \in 0..nl /\ cy[w] \in 0..nl /\ vy[w] \in 0..MaxLines
      /\ LongMax = MaxLines + Height /\ LongMax \in Nat
      /\ range.min \in 0..LongMax /\ range.max \in -1..LongMax /\ lss.count \in 0..MaxLines + 1
      /\ all \in BOOLEAN
  <2>1. /\ TextTypes /\ ViewTypes /\ UpdateTypes /\ CacheTypes(lss) /\ LoopTypes /\ StartFits
        /\ MaxLines \in Nat /\ Height \in Nat /\ LongMax = MaxLines + Height
    BY SizesAssumption DEF HInv, LongMax
  <2>2. nl \in Nat /\ nl <= MaxLines
    BY <2>1 DEF TextTypes
  <2>3. here \in Windows /\ cy[here] \in 0..nl /\ cy[w] \in 0..nl /\ vy[w] \in 0..MaxLines
    BY <2>1 DEF ViewTypes
  <2>4. range.min \in 0..LongMax /\ range.max \in -1..LongMax /\ all \in BOOLEAN
    BY <2>1 DEF UpdateTypes
  <2>5. lss.count \in 0..MaxLines + 1
    BY <2>1 DEF CacheTypes
  <2> QED
    BY <2>1, <2>2, <2>3, <2>4, <2>5
<1>2. PICK y : y = IF w = here /\ ~all THEN vy[w] ELSE Scrolled(w)
  OBVIOUS
<1>3. PICK y1 : y1 = IF all THEN y ELSE Most(range.min, y)
  OBVIOUS
<1>4. PICK y2 : y2 = IF all THEN y + Height ELSE Least(range.max, y + Height - 1) + 1
  OBVIOUS
<1>5. PICK last : last = LastToFill(y1)
  OBVIOUS
<1>6. /\ pc = "window" /\ w \in todo /\ todo' = todo \ {w}
      /\ vy' = [vy EXCEPT ![w] = y]
      /\ pc' = IF syntax = NoSyntax THEN "draw" ELSE "scan"
      /\ at' = [win |-> w, y |-> y1, y2 |-> y2, idx |-> 0, bi |-> 0, last |-> last]
      /\ UNCHANGED <<line, nl, syntax, lss, range, shown, here, cy, old, all, batch, drawn>>
  BY <1>2, <1>3, <1>4, <1>5, Zenon DEF StartWindow, textVars
<1>7. y \in 0..MaxLines /\ (y <= nl \/ (w = here /\ ~all)) /\ (w = here /\ ~all => y <= cy[here])
      /\ y <= nl
  BY <1>1, <1>2, <1>6, ScrolledFits DEF StartFits
<1>8. y1 \in 0..nl
  <2>1. ~all => range.min <= nl
    BY <1>1, <1>6 DEF StartFits
  <2> QED
    BY <1>1, <1>3, <1>7, <2>1 DEF Most
<1>9. y2 \in 0..LongMax
  BY <1>1, <1>4, <1>7 DEF Least
<1>10. last = Least(y1, lss.count - 1) /\ last \in -1..MaxLines
  BY <1>1, <1>5, <1>8 DEF LastToFill, Least
<1>11. ViewTypes' /\ UpdateTypes' /\ TextTypes' /\ CacheTypes(lss)'
  <2>1. ViewTypes'
    BY <1>1, <1>6, <1>7 DEF ViewTypes
  <2>2. UpdateTypes'
    BY <1>1, <1>6 DEF UpdateTypes
  <2>3. TextTypes' /\ CacheTypes(lss)'
    BY <1>1, <1>6 DEF TextTypes, CacheTypes
  <2> QED
    BY <2>1, <2>2, <2>3
<1>12. StartFits' /\ AtRest'
  BY <1>1, <1>6, <1>7 DEF StartFits, AtRest, ViewTypes
<1>13. at' \in Loops' /\ at'.y = y1 /\ at'.y <= nl /\ at'.idx = 0 /\ at'.bi = 0 /\ at'.last = last
  <2>1. w \in shown /\ shown' = shown
    BY <1>1, <1>6 DEF UpdateTypes
  <2>2. y1 \in 0..LongMax /\ 0 \in 0..MaxLines
    BY <1>1, <1>8
  <2>3. at' \in Loops'
    BY <1>6, <1>9, <1>10, <2>1, <2>2 DEF Loops
  <2> QED
    BY <1>6, <1>8, <2>3
<1>14. LoopTypes'
  BY <1>6, <1>13 DEF LoopTypes, InLoop
<1>15. LoopFits' /\ (syntax # NoSyntax => Cache(syntax, lss, line, nl, Pending))'
  <2>1. (syntax # NoSyntax => Cache(syntax, lss, line, nl, Pending))' /\ Pending = 0
    BY <1>6 DEF HInv, Pending, Cache, RightStates
  <2>2. CASE syntax = NoSyntax
    BY <1>6, <2>1, <2>2 DEF LoopFits
  <2>3. CASE syntax # NoSyntax
    <3>1. Cache(syntax, lss, line, nl, 0)
      BY <2>1, <2>3 DEF HInv
    <3>2. ValidTo(lss, 0) /\ 0 <= last
      <4>1. lss.ptr[0].ok /\ lss.count >= 1
        BY <3>1 DEF Cache, Entry
      <4>2. \A k \in 0..0 : k = 0
        OBVIOUS
      <4> QED
        BY <1>1, <1>8, <1>10, <4>1, <4>2 DEF ValidTo, Least
    <3>3. ValidTo(lss, at.idx)'
      BY <1>6, <1>13, <3>2 DEF ValidTo
    <3>4. at'.last = Least(at'.y, lss'.count - 1)
      BY <1>6, <1>10, <1>13
    <3> QED
      BY <1>6, <1>13, <2>1, <2>3, <3>2, <3>3, <3>4 DEF LoopFits
  <2> QED
    BY <2>1, <2>2, <2>3
<1> QED
  BY <1>11, <1>12, <1>14, <1>15 DEF HInv

LEMMA LoopFacts ==
  ASSUME HInv, pc \in {"scan", "hole", "add", "draw"}
  PROVE  /\ TextTypes /\ ViewTypes /\ UpdateTypes /\ CacheTypes(lss) /\ LoopFits
         /\ nl \in Nat /\ nl <= MaxLines /\ MaxLines \in Nat /\ LongMax \in Nat
         /\ at \in Loops /\ at.win \in shown /\ at.win \in Windows
         /\ at.y \in Nat /\ at.y <= nl /\ at.y2 \in 0..LongMax
         /\ at.idx \in 0..MaxLines /\ at.bi \in 0..MaxLines /\ at.last \in -1..MaxLines
         /\ lss.count \in Nat /\ lss.count <= MaxLines + 1
         /\ syntax # NoSyntax => /\ Cache(syntax, lss, line, nl, Pending)
                                 /\ lss.count >= 1 /\ lss.count <= nl + 1
<1>1. /\ TextTypes /\ ViewTypes /\ UpdateTypes /\ CacheTypes(lss) /\ LoopFits
      /\ MaxLines \in Nat /\ at \in Loops /\ at.y <= nl
      /\ syntax # NoSyntax => Cache(syntax, lss, line, nl, Pending)
  BY SizesAssumption DEF HInv, LoopTypes, InLoop
<1>2. nl \in Nat /\ nl <= MaxLines
  BY <1>1 DEF TextTypes
<1>3. lss.count \in Nat /\ lss.count <= MaxLines + 1
  BY <1>1 DEF CacheTypes
<1>4. syntax # NoSyntax => lss.count >= 1 /\ lss.count <= nl + 1
  BY <1>1, <1>2 DEF Cache
<1>5. LongMax \in Nat
  BY SizesAssumption DEF LongMax
<1>6. /\ at.win \in shown /\ at.y \in 0..LongMax /\ at.y2 \in 0..LongMax
      /\ at.idx \in 0..MaxLines /\ at.bi \in 0..MaxLines /\ at.last \in -1..MaxLines
  BY <1>1 DEF Loops
<1>7. at.win \in Windows
  BY <1>1, <1>6 DEF ViewTypes
<1> QED
  BY <1>1, <1>2, <1>3, <1>4, <1>5, <1>6, <1>7

\* What the loops leave alone stays typed.
LEMMA LoopKeeps ==
  ASSUME HInv, pc \in {"scan", "hole", "add", "draw"},
         pc' \in {"scan", "hole", "add", "draw"}, at' \in Loops, at'.y <= nl,
         pc' \in {"scan", "hole", "add"} => syntax # NoSyntax,
         UNCHANGED <<textVars, range, viewVars, old, all, batch, todo>>,
         drawn' \in [Windows -> [0..Height - 1 -> Rows]]
  PROVE  TextTypes' /\ ViewTypes' /\ UpdateTypes' /\ StartFits' /\ AtRest' /\ LoopTypes'
<1>1. UNCHANGED <<line, nl, syntax, range, shown, here, cy, vy, old, all, batch, todo>>
  BY DEF textVars, viewVars
<1>2. TextTypes' /\ ViewTypes' /\ StartFits' /\ AtRest'
  BY <1>1 DEF HInv, TextTypes, ViewTypes, StartFits, AtRest
<1>3. UpdateTypes'
  BY <1>1 DEF HInv, UpdateTypes
<1>4. LoopTypes'
  BY <1>1 DEF LoopTypes, InLoop, Loops
<1> QED
  BY <1>2, <1>3, <1>4

LEMMA ScanKeeps ==
  ASSUME HInv, Scan PROVE HInv' /\ at'.bi >= at.bi
<1>1. /\ pc = "scan" /\ syntax # NoSyntax
      /\ UNCHANGED <<textVars, lss, range, viewVars, old, all, batch, todo, drawn>>
      /\ UNCHANGED <<line, nl, syntax>>
  BY DEF Scan, HInv, LoopTypes, textVars
<1>2. /\ nl \in Nat /\ nl <= MaxLines /\ MaxLines \in Nat
      /\ at \in Loops /\ at.y \in Nat /\ at.y <= nl /\ Pending = 0
      /\ at.idx \in 0..MaxLines /\ at.bi \in 0..MaxLines /\ at.last \in -1..MaxLines
      /\ lss.count \in Nat /\ CacheTypes(lss) /\ Cache(syntax, lss, line, nl, 0)
      /\ lss.count >= 1 /\ lss.count <= nl + 1
      /\ drawn \in [Windows -> [0..Height - 1 -> Rows]]
  BY <1>1, LoopFacts DEF UpdateTypes, Pending
<1>3. /\ at.last = Least(at.y, lss.count - 1) /\ at.bi = at.idx /\ at.idx <= at.last
      /\ ValidTo(lss, at.idx)
  BY <1>1 DEF HInv, LoopFits
<1>4. at.last <= lss.count - 1 /\ at.last \in Nat
  BY <1>2, <1>3 DEF Least
<1>5. CacheTypes(lss)'
  BY <1>1, <1>2 DEF CacheTypes
<1>6. CASE Holes = {}
  <2>1. pc' = "add" /\ at' = [at EXCEPT !.bi = lss.count - 1]
    BY <1>6 DEF Scan
  <2>2. lss.count - 1 \in 0..MaxLines
    BY <1>2
  <2>3. at' \in Loops /\ at'.y = at.y /\ at'.bi = lss.count - 1
    BY <1>2, <2>1, <2>2 DEF Loops
  <2>4. ValidTo(lss, at.last)
    <3>1. ASSUME NEW k \in 0..at.last PROVE lss.ptr[k].ok
      <4>1. k \in 0..at.idx \/ k \in at.idx..at.last
        BY <1>2
      <4> QED
        BY <1>3, <1>6, <4>1 DEF ValidTo, Holes, Valid
    <3> QED
      BY <3>1 DEF ValidTo
  <2>5. LoopFits'
    <3>1. at'.bi = lss'.count - 1 /\ Least(at'.y, lss'.count - 1) = at.last /\ lss' = lss
      BY <1>1, <1>3, <2>3
    <3> QED
      BY <2>1, <2>4, <3>1 DEF LoopFits, ValidTo
  <2>6. Pending' = 0
    BY <2>1 DEF Pending
  <2>7. Cache(syntax, lss, line, nl, Pending)'
    BY <1>1, <1>2, <2>6 DEF Cache, RightStates
  <2>8. at'.bi >= at.bi
    BY <1>2, <1>3, <1>4, <2>3
  <2>9. TextTypes' /\ ViewTypes' /\ UpdateTypes' /\ StartFits' /\ AtRest' /\ LoopTypes'
    BY <1>1, <1>2, <2>1, <2>3, LoopKeeps
  <2> QED
    BY <1>5, <2>5, <2>7, <2>8, <2>9 DEF HInv
<1>7. CASE Holes # {}
  <2>1. PICK hole \in Holes :
          /\ \A k \in Holes : hole <= k
          /\ pc' = "hole"
          /\ at' = [at EXCEPT !.idx = LineBefore(hole), !.bi = LineBefore(hole)]
    BY <1>7 DEF Scan
  <2>2. hole \in at.idx..at.last /\ ~lss.ptr[hole].ok /\ hole \in Nat
    BY <1>2, <2>1 DEF Holes, Valid
  <2>3. hole # at.idx
    BY <1>2, <1>3, <2>2 DEF ValidTo
  <2>4. PICK b \in 0..MaxLines : b = hole - 1 /\ at.idx <= b /\ b < at.last /\ b + 1 = hole
    BY <1>2, <2>2, <2>3
  <2>5. at' = [at EXCEPT !.idx = b, !.bi = b]
    BY <2>1, <2>4 DEF LineBefore
  <2>6. at' \in Loops /\ at'.y = at.y /\ at'.bi = b /\ at'.idx = b /\ at'.last = at.last
    BY <1>2, <2>5 DEF Loops
  <2>7. ValidTo(lss, b)
    <3>1. ASSUME NEW k \in 0..b PROVE lss.ptr[k].ok
      <4>1. k \in 0..at.idx \/ (k \in at.idx..at.last /\ ~(hole <= k))
        BY <1>2, <2>4
      <4> QED
        BY <1>3, <2>1, <4>1 DEF ValidTo, Holes, Valid
    <3> QED
      BY <3>1 DEF ValidTo
  <2>8. LoopFits'
    <3>1. lss' = lss
      BY <1>1
    <3>2. ValidTo(lss, at.idx)'
      BY <2>6, <2>7, <3>1 DEF ValidTo
    <3>3. at'.last = Least(at'.y, lss'.count - 1) /\ at'.idx <= at'.last /\ at'.idx < at'.last
      BY <1>2, <1>3, <2>4, <2>6, <3>1
    <3> QED
      BY <2>1, <2>6, <3>2, <3>3 DEF LoopFits
  <2>9. Cache(syntax, lss, line, nl, Pending)'
    BY <1>1, <1>2 DEF Cache, RightStates
  <2>10. at'.bi >= at.bi
    BY <1>2, <1>3, <2>4, <2>6
  <2>11. TextTypes' /\ ViewTypes' /\ UpdateTypes' /\ StartFits' /\ AtRest' /\ LoopTypes'
    BY <1>1, <1>2, <2>1, <2>6, LoopKeeps
  <2> QED
    BY <1>5, <2>8, <2>9, <2>10, <2>11 DEF HInv
<1> QED
  BY <1>6, <1>7

\* A line leads to a state.
LEMMA AfterState ==
  ASSUME HInv, syntax # NoSyntax, NEW k \in 0..nl - 1, k < lss.count
  PROVE  /\ After(line[k], lss.ptr[k].st) \in States
         /\ After(line[k], lss.ptr[k].st) = Dest[<<syntax, line[k], lss.ptr[k].st>>]
<1>1. nl \in Nat /\ line[k] \in Kinds /\ syntax \in Syntaxes
  BY DEF HInv, TextTypes
<1>2. lss.ptr[k].st \in States
  <2>1. k \in 0..lss.count - 1
    BY <1>1 DEF HInv, CacheTypes
  <2>2. lss.ptr[k] \in Entries
    BY <2>1 DEF HInv, CacheTypes
  <2> QED
    BY <2>2 DEF Entries
<1> QED
  BY <1>1, <1>2, SyntaxAssumption DEF After

LEMMA FillKeeps ==
  ASSUME HInv, FillHole PROVE HInv' /\ at'.bi > at.bi
<1>1. PICK i : i = at.idx + 1
  OBVIOUS
<1>2. PICK st : st = After(line[at.bi], lss.ptr[at.idx].st)
  OBVIOUS
<1>3. /\ pc = "hole" /\ syntax # NoSyntax
      /\ lss' = IF lss.ptr[i].st # st /\ i = at.last THEN Mark(Set(lss, i, st), i + 1)
                ELSE Set(lss, i, st)
      /\ at' = [at EXCEPT !.idx = i, !.bi = EatLine(@)]
      /\ pc' = IF lss.ptr[i] = Entry(st) \/ i = at.last THEN "scan" ELSE "hole"
      /\ UNCHANGED <<textVars, range, viewVars, old, all, batch, todo, drawn>>
      /\ UNCHANGED <<line, nl, syntax>>
  BY <1>1, <1>2 DEF FillHole, HInv, LoopTypes, textVars
<1>4. /\ nl \in Nat /\ nl <= MaxLines /\ MaxLines \in Nat
      /\ at \in Loops /\ at.y \in Nat /\ at.y <= nl /\ Pending = i
      /\ at.idx \in 0..MaxLines /\ at.bi \in 0..MaxLines /\ at.last \in -1..MaxLines
      /\ lss.count \in Nat /\ CacheTypes(lss) /\ Cache(syntax, lss, line, nl, i)
      /\ lss.count >= 1 /\ lss.count <= nl + 1
      /\ drawn \in [Windows -> [0..Height - 1 -> Rows]]
  BY <1>1, <1>3, LoopFacts DEF UpdateTypes, Pending
<1>5. /\ at.last = Least(at.y, lss.count - 1) /\ at.bi = at.idx /\ at.idx < at.last
      /\ ValidTo(lss, at.idx)
  BY <1>3 DEF HInv, LoopFits
<1>6. at.last <= lss.count - 1 /\ at.last \in Nat
  BY <1>4, <1>5 DEF Least
<1>7. /\ i \in 1..nl /\ i < lss.count /\ i <= lss.count /\ i # lss.count /\ i - 1 = at.idx
      /\ i <= at.last /\ i \in 0..MaxLines /\ i \in {0, i}
  BY <1>1, <1>4, <1>5, <1>6
<1>8. st \in States /\ st = Dest[<<syntax, line[i - 1], lss.ptr[i - 1].st>>]
  <2>1. at.idx \in 0..nl - 1 /\ at.idx < lss.count
    BY <1>4, <1>7
  <2> QED
    BY <1>2, <1>3, <1>5, <1>7, <2>1, AfterState
<1>9. PICK s2 : s2 = Set(lss, i, st)
  OBVIOUS
<1>10. PICK s3 : s3 = Mark(s2, i + 1)
  OBVIOUS
<1>11. /\ CacheTypes(s2) /\ Cache(syntax, s2, line, nl, i + 1)
       /\ lss.ptr[i].st = st => Cache(syntax, s2, line, nl, 0)
       /\ CacheTypes(s3) /\ Cache(syntax, s3, line, nl, 0) /\ s3.count = s2.count
       /\ s2.count = lss.count
       /\ ValidTo(s2, i) /\ ValidTo(s3, i)
  <2>1. StoreFits(syntax, lss, line, nl, i, i, st)
    BY <1>4, <1>7, <1>8 DEF StoreFits
  <2>2. Stored(syntax, lss, line, nl, i, st, s2, s3)
    BY <1>9, <1>10, <2>1, StoreRight
  <2>3. ValidTo(lss, i - 1)
    BY <1>5, <1>7
  <2> QED
    BY <1>7, <2>2, <2>3 DEF Stored
<1>12. /\ lss' = s2 \/ (lss' = s3 /\ i = at.last)
       /\ pc' = "hole" => lss' = s2 /\ i # at.last
       /\ pc' = "scan" => lss' = s3 \/ (lss' = s2 /\ lss.ptr[i].st = st)
       /\ pc' \in {"scan", "hole"}
  BY <1>3, <1>9, <1>10 DEF Entry
<1>13. /\ at' \in Loops /\ at'.y = at.y /\ at'.bi = i /\ at'.idx = i /\ at'.last = at.last
  <2>1. at' = [at EXCEPT !.idx = i, !.bi = i]
    BY <1>1, <1>3, <1>4, <1>5 DEF EatLine
  <2> QED
    BY <1>4, <1>7, <2>1 DEF Loops
<1>14. CacheTypes(lss)' /\ lss'.count = lss.count /\ ValidTo(lss', i)
  BY <1>11, <1>12 DEF CacheTypes
<1>15. LoopFits'
  <2>1. ValidTo(lss, at.idx)'
    BY <1>13, <1>14 DEF ValidTo
  <2>2. at'.last = Least(at'.y, lss'.count - 1)
    BY <1>5, <1>13, <1>14
  <2>3. at'.idx <= at'.last /\ (pc' = "hole" => at'.idx < at'.last)
    BY <1>4, <1>7, <1>12, <1>13
  <2> QED
    BY <1>12, <1>13, <2>1, <2>2, <2>3 DEF LoopFits
<1>16. Cache(syntax, lss, line, nl, Pending)'
  <2>1. CASE pc' = "hole"
    <3>1. Pending' = i + 1 /\ lss' = s2
      BY <1>12, <1>13, <2>1 DEF Pending
    <3> QED
      BY <1>3, <1>11, <3>1 DEF Cache, RightStates
  <2>2. CASE pc' = "scan"
    <3>1. Pending' = 0
      BY <2>2 DEF Pending
    <3> QED
      BY <1>3, <1>11, <1>12, <2>2, <3>1 DEF Cache, RightStates
  <2> QED
    BY <1>12, <2>1, <2>2
<1>17. at'.bi > at.bi
  BY <1>4, <1>5, <1>7, <1>13
<1>18. TextTypes' /\ ViewTypes' /\ UpdateTypes' /\ StartFits' /\ AtRest' /\ LoopTypes'
  BY <1>3, <1>4, <1>12, <1>13, LoopKeeps
<1> QED
  BY <1>14, <1>15, <1>16, <1>17, <1>18 DEF HInv

LEMMA AddKeeps ==
  ASSUME HInv, AddState PROVE HInv' /\ at'.bi >= at.bi
<1>1. /\ pc = "add" /\ syntax # NoSyntax
      /\ UNCHANGED <<textVars, range, viewVars, old, all, batch, todo, drawn>>
      /\ UNCHANGED <<line, nl, syntax>>
  BY DEF AddState, HInv, LoopTypes, textVars
<1>2. /\ nl \in Nat /\ nl <= MaxLines /\ MaxLines \in Nat
      /\ at \in Loops /\ at.y \in Nat /\ at.y <= nl /\ Pending = 0
      /\ at.bi \in 0..MaxLines
      /\ lss.count \in Nat /\ CacheTypes(lss) /\ Cache(syntax, lss, line, nl, 0)
      /\ lss.count >= 1 /\ lss.count <= nl + 1
      /\ drawn \in [Windows -> [0..Height - 1 -> Rows]]
  BY <1>1, LoopFacts DEF UpdateTypes, Pending
<1>3. at.bi = lss.count - 1 /\ ValidTo(lss, Least(at.y, lss.count - 1))
  BY <1>1 DEF HInv, LoopFits
<1>4. CASE lss.count - 1 < at.y
  <2>1. PICK i \in Nat : i = lss.count
    BY <1>2
  <2>2. PICK st : st = After(line[i - 1], lss.ptr[i - 1].st)
    OBVIOUS
  <2>3. /\ i \in 1..nl /\ i <= lss.count /\ i - 1 = at.bi /\ i - 1 \in 0..nl - 1 /\ i - 1 < lss.count
        /\ Least(at.y, lss.count - 1) = i - 1 /\ i \in 0..MaxLines /\ 0 \in {0, i}
    BY <1>2, <1>3, <1>4, <2>1 DEF Least
  <2>4. st \in States /\ st = Dest[<<syntax, line[i - 1], lss.ptr[i - 1].st>>]
    BY <1>1, <2>2, <2>3, AfterState
  <2>5. PICK s2 : s2 = Set(lss, i, st)
    OBVIOUS
  <2>6. PICK s3 : s3 = Mark(s2, i + 1)
    OBVIOUS
  <2>7. StoreFits(syntax, lss, line, nl, 0, i, st)
    BY <1>2, <2>3, <2>4 DEF StoreFits
  <2>8. Stored(syntax, lss, line, nl, i, st, s2, s3)
    BY <2>5, <2>6, <2>7, StoreRight
  <2>9. CacheTypes(s2) /\ Cache(syntax, s2, line, nl, 0) /\ s2.count = i + 1 /\ ValidTo(s2, i)
    BY <1>3, <2>1, <2>3, <2>8 DEF Stored
  <2>10. /\ pc' = "add" /\ lss' = s2
         /\ at' = [at EXCEPT !.bi = i]
    <3>1. /\ lss' = Set(lss, lss.count, After(line[at.bi], lss.ptr[lss.count - 1].st))
          /\ at' = [at EXCEPT !.bi = EatLine(@)] /\ pc' = pc
      BY <1>4 DEF AddState
    <3>2. After(line[at.bi], lss.ptr[lss.count - 1].st) = st
      BY <2>1, <2>2, <2>3
    <3>3. EatLine(at.bi) = i
      BY <2>1, <2>3 DEF EatLine
    <3> QED
      BY <1>1, <1>2, <2>1, <2>5, <3>1, <3>2, <3>3
  <2>11. at' \in Loops /\ at'.y = at.y /\ at'.bi = i
    BY <1>2, <2>3, <2>10 DEF Loops
  <2>12. CacheTypes(lss)' /\ lss'.count = i + 1
    BY <2>9, <2>10 DEF CacheTypes
  <2>13. LoopFits'
    <3>1. at'.bi = lss'.count - 1
      BY <2>11, <2>12
    <3>2. Least(at'.y, lss'.count - 1) \in Nat /\ Least(at'.y, lss'.count - 1) <= i
      BY <1>2, <2>11, <2>12 DEF Least
    <3>3. ValidTo(lss', Least(at'.y, lss'.count - 1))
      BY <2>9, <2>10, <3>2 DEF ValidTo
    <3> QED
      BY <2>10, <3>1, <3>3 DEF LoopFits, ValidTo
  <2>14. Cache(syntax, lss, line, nl, Pending)'
    <3>1. Pending' = 0
      BY <2>10 DEF Pending
    <3> QED
      BY <1>1, <2>9, <2>10, <3>1 DEF Cache, RightStates
  <2>15. at'.bi >= at.bi
    BY <1>2, <2>3, <2>11
  <2>16. TextTypes' /\ ViewTypes' /\ UpdateTypes' /\ StartFits' /\ AtRest' /\ LoopTypes'
    BY <1>1, <1>2, <2>10, <2>11, LoopKeeps
  <2> QED
    BY <2>12, <2>13, <2>14, <2>15, <2>16 DEF HInv
<1>5. CASE ~(lss.count - 1 < at.y)
  <2>1. pc' = "draw" /\ lss' = lss /\ at' = at
    BY <1>5 DEF AddState
  <2>2. Least(at.y, lss.count - 1) = at.y /\ at.y < lss.count
    BY <1>2, <1>5 DEF Least
  <2>3. LoopFits'
    BY <1>3, <2>1, <2>2 DEF LoopFits, ValidTo
  <2>4. CacheTypes(lss)' /\ Cache(syntax, lss, line, nl, Pending)'
    <3>1. Pending' = 0
      BY <2>1 DEF Pending
    <3> QED
      BY <1>1, <1>2, <2>1, <3>1 DEF CacheTypes, Cache, RightStates
  <2>5. TextTypes' /\ ViewTypes' /\ UpdateTypes' /\ StartFits' /\ AtRest' /\ LoopTypes'
    BY <1>1, <1>2, <2>1, LoopKeeps
  <2> QED
    BY <1>2, <2>1, <2>3, <2>4, <2>5 DEF HInv
<1> QED
  BY <1>4, <1>5

LEMMA DrawKeeps ==
  ASSUME HInv, DrawLine PROVE HInv'
<1>1. PICK y : y = at.y
  OBVIOUS
<1>2. PICK w : w = at.win
  OBVIOUS
<1>3. PICK st : st = After(line[y], lss.ptr[y].st)
  OBVIOUS
<1>4. PICK more \in BOOLEAN :
        more <=> /\ syntax # NoSyntax
                 /\ NextChanged(y, st) /\ y + 1 = at.y2 /\ at.y2 < vy[w] + Height
  OBVIOUS
<1>5. /\ pc = "draw" /\ pc' = "draw" /\ y < nl /\ y < at.y2
      /\ IF syntax = NoSyntax
         THEN /\ drawn' = [drawn EXCEPT ![w][y - vy[w]] = Row(y, NoSyntax)]
              /\ lss' = lss
         ELSE /\ drawn' = [drawn EXCEPT ![w][y - vy[w]] = Row(y, lss.ptr[y].st)]
              /\ lss' = HlLine(y, st)
      /\ UNCHANGED <<textVars, range, viewVars, old, all, batch, todo>>
      /\ UNCHANGED <<line, nl, syntax>>
  BY <1>1, <1>2, <1>3, Zenon DEF DrawLine, textVars
<1>6. at' = [at EXCEPT !.y = @ + 1, !.y2 = IF more THEN @ + 1 ELSE @]
  BY <1>1, <1>2, <1>3, <1>4 DEF DrawLine
<1>7. /\ TextTypes /\ ViewTypes /\ UpdateTypes /\ CacheTypes(lss) /\ LoopFits
      /\ nl \in Nat /\ nl <= MaxLines /\ MaxLines \in Nat /\ LongMax \in Nat
      /\ at \in Loops /\ w \in Windows /\ y \in Nat /\ at.y2 \in 0..LongMax
      /\ lss.count \in Nat
  BY <1>1, <1>2, <1>5, LoopFacts
<1>8. Height \in Nat /\ LongMax = MaxLines + Height /\ vy[w] \in 0..MaxLines
  BY <1>7, SizesAssumption DEF LongMax, ViewTypes
<1>9. PICK z \in 0..LongMax : z = IF more THEN at.y2 + 1 ELSE at.y2
  <2>1. more => at.y2 < vy[w] + Height
    BY <1>4
  <2> QED
    BY <1>7, <1>8, <2>1
<1>10. at' \in Loops /\ at'.y = y + 1 /\ at'.y <= nl
  <2>1. at' = [at EXCEPT !.y = y + 1, !.y2 = z]
    BY <1>1, <1>6, <1>7, <1>9
  <2>2. y + 1 \in 0..LongMax /\ y + 1 <= nl
    BY <1>5, <1>7, <1>8
  <2> QED
    BY <1>7, <2>1, <2>2 DEF Loops
<1>11. line[y] \in Kinds /\ y \in 0..nl - 1
  BY <1>5, <1>7 DEF TextTypes
<1>12. drawn' \in [Windows -> [0..Height - 1 -> Rows]]
  <2>1. syntax # NoSyntax => lss.ptr[y].st \in States
    <3>1. syntax # NoSyntax => y \in 0..lss.count - 1
      BY <1>1, <1>5, <1>7 DEF LoopFits
    <3> QED
      BY <1>7, <3>1 DEF CacheTypes, Entries
  <2>2. PICK q : q \in States \cup {NoSyntax} /\ drawn' = [drawn EXCEPT ![w][y - vy[w]] = Row(y, q)]
    BY <1>5, <2>1
  <2>3. Row(y, q) \in Rows
    BY <1>11, <2>2 DEF Row, Rows
  <2>4. drawn \in [Windows -> [0..Height - 1 -> Rows]]
    BY <1>7 DEF UpdateTypes
  <2>5. PICK row, r : row \in Rows /\ row = Row(y, q) /\ r = y - vy[w]
    BY <2>3
  <2>6. [drawn[w] EXCEPT ![r] = row] \in [0..Height - 1 -> Rows]
    BY <1>7, <2>4, <2>5
  <2>7. drawn' = [drawn EXCEPT ![w] = [drawn[w] EXCEPT ![r] = row]]
    BY <1>7, <2>2, <2>4, <2>5
  <2> QED
    BY <2>4, <2>6, <2>7
<1>13. CacheTypes(lss)' /\ LoopFits' /\ (syntax # NoSyntax => Cache(syntax, lss, line, nl, Pending))'
  <2>1. Pending' = 0 /\ Pending = 0
    BY <1>5 DEF Pending
  <2>2. CASE syntax = NoSyntax
    BY <1>5, <1>7, <2>2 DEF CacheTypes, LoopFits
  <2>3. CASE syntax # NoSyntax
    <3>1. Cache(syntax, lss, line, nl, 0) /\ y < lss.count /\ ValidTo(lss, y)
      BY <1>1, <1>5, <1>7, <2>1, <2>3 DEF HInv, LoopFits
    <3>2. PICK i \in Nat : i = y + 1
      BY <1>7
    <3>3. i \in 1..nl /\ i <= lss.count /\ i - 1 = y /\ 0 \in {0, i}
      BY <1>5, <1>7, <3>1, <3>2
    <3>4. st \in States /\ st = Dest[<<syntax, line[i - 1], lss.ptr[i - 1].st>>]
      BY <1>3, <1>11, <2>3, <3>1, <3>3, AfterState
    <3>5. PICK s2 : s2 = Set(lss, i, st)
      OBVIOUS
    <3>6. PICK s3 : s3 = Mark(s2, i + 1)
      OBVIOUS
    <3>7. StoreFits(syntax, lss, line, nl, 0, i, st)
      BY <1>7, <3>1, <3>3, <3>4 DEF StoreFits
    <3>8. Stored(syntax, lss, line, nl, i, st, s2, s3)
      BY <3>5, <3>6, <3>7, StoreRight
    <3>9. lss' = s3 \/ (lss' = s2 /\ (i = lss.count \/ lss.ptr[i].st = st))
      <4>1. lss' = HlLine(y, st)
        BY <1>5, <2>3
      <4>2. y + 2 = i + 1 /\ (y + 1 < lss.count \/ i = lss.count)
        BY <1>7, <3>2, <3>3
      <4> QED
        BY <3>2, <3>5, <3>6, <4>1, <4>2 DEF HlLine
    <3>10. /\ CacheTypes(lss)' /\ Cache(syntax, lss, line, nl, 0)' /\ ValidTo(lss', i)
           /\ lss'.count = IF i = lss.count THEN i + 1 ELSE lss.count
      <4>1. /\ CacheTypes(s2) /\ CacheTypes(s3) /\ Cache(syntax, s3, line, nl, 0)
            /\ (i = lss.count \/ lss.ptr[i].st = st => Cache(syntax, s2, line, nl, 0))
            /\ ValidTo(s2, i) /\ ValidTo(s3, i) /\ s3.count = s2.count
            /\ s2.count = IF i = lss.count THEN i + 1 ELSE lss.count
        BY <3>1, <3>3, <3>8 DEF Stored
      <4>2. CASE lss' = s3
        BY <1>5, <4>1, <4>2 DEF CacheTypes, Cache, RightStates, ValidTo
      <4>3. CASE lss' = s2 /\ (i = lss.count \/ lss.ptr[i].st = st)
        BY <1>5, <4>1, <4>3 DEF CacheTypes, Cache, RightStates, ValidTo
      <4> QED
        BY <3>9, <4>2, <4>3
    <3>11. LoopFits'
      <4>1. at'.y = i /\ i < lss'.count
        BY <1>7, <1>10, <3>2, <3>3, <3>10
      <4> QED
        BY <1>5, <3>10, <4>1 DEF LoopFits, ValidTo
    <3> QED
      BY <2>1, <3>10, <3>11
  <2> QED
    BY <2>2, <2>3
<1>14. TextTypes' /\ ViewTypes' /\ UpdateTypes' /\ StartFits' /\ AtRest' /\ LoopTypes'
  BY <1>5, <1>10, <1>12, LoopKeeps
<1> QED
  BY <1>13, <1>14 DEF HInv

LEMMA FinishKeeps ==
  ASSUME HInv, FinishWindow PROVE HInv'
<1>1. PICK w : w = at.win
  OBVIOUS
<1>2. /\ pc = "draw" /\ at' = NoLoop
      /\ drawn' = [drawn EXCEPT ![w] = [r \in 0..Height - 1 |->
           IF at.y <= r + vy[w] /\ r + vy[w] < at.y2 THEN Nothing ELSE @[r]]]
      /\ \/ /\ todo # {} /\ pc' = "window" /\ UNCHANGED <<range, all, batch, old>>
         \/ /\ todo = {} /\ pc' = "idle"
            /\ range' = NoRange /\ all' = FALSE /\ batch' = 0
            /\ old' = [cy |-> cy[here], vy |-> vy[here]]
      /\ UNCHANGED <<line, nl, syntax, lss, shown, here, cy, vy, todo>>
  BY <1>1 DEF FinishWindow, textVars, viewVars
<1>3. /\ TextTypes /\ ViewTypes /\ UpdateTypes /\ CacheTypes(lss)
      /\ nl \in Nat /\ nl <= MaxLines /\ MaxLines \in Nat /\ LongMax \in Nat /\ w \in Windows
  BY <1>1, <1>2, LoopFacts
<1>4. TextTypes' /\ ViewTypes' /\ CacheTypes(lss)'
  BY <1>2, <1>3 DEF TextTypes, ViewTypes, CacheTypes
<1>5. drawn' \in [Windows -> [0..Height - 1 -> Rows]]
  <2>1. drawn \in [Windows -> [0..Height - 1 -> Rows]] /\ Nothing \in Rows
    BY <1>3 DEF UpdateTypes, Rows
  <2>2. [r \in 0..Height - 1 |->
           IF at.y <= r + vy[w] /\ r + vy[w] < at.y2 THEN Nothing ELSE drawn[w][r]]
          \in [0..Height - 1 -> Rows]
    BY <1>3, <2>1
  <2> QED
    BY <1>2, <1>3, <2>1, <2>2
<1>6. UpdateTypes'
  <2>1. CASE todo # {}
    BY <1>2, <1>3, <1>5, <2>1 DEF UpdateTypes
  <2>2. CASE todo = {}
    <3>1. NoRange \in [min : 0..LongMax, max : -1..LongMax]
      BY <1>3 DEF NoRange
    <3>2. cy[here] \in 0..MaxLines /\ vy[here] \in 0..MaxLines
      BY <1>3 DEF ViewTypes
    <3>3. batch' \in 0..MaxBatch
      BY <1>2, <2>2, SizesAssumption
    <3>4. old' \in [cy : 0..MaxLines, vy : 0..MaxLines] /\ all' \in BOOLEAN
      <4>1. old' = [cy |-> cy[here], vy |-> vy[here]] /\ all' = FALSE
        BY <1>2, <2>2, Zenon
      <4>2. PICK c \in 0..MaxLines, v \in 0..MaxLines : c = cy[here] /\ v = vy[here]
        BY <3>2
      <4>3. old' = [cy |-> c, vy |-> v]
        BY <4>1, <4>2, Zenon
      <4>4. old' \in [cy : 0..MaxLines, vy : 0..MaxLines]
        BY <4>3
      <4>5. all' \in BOOLEAN
        BY <4>1, Zenon
      <4> QED
        BY <4>4, <4>5
    <3>5. range' \in [min : 0..LongMax, max : -1..LongMax]
      BY <1>2, <2>2, <3>1
    <3>6. todo' \subseteq shown' /\ pc' = "idle"
      BY <1>2, <2>2
    <3> QED
      BY <1>5, <3>3, <3>4, <3>5, <3>6 DEF UpdateTypes
  <2> QED
    BY <2>1, <2>2
<1>7. StartFits'
  BY <1>2 DEF HInv, StartFits
<1>8. AtRest' /\ LoopTypes' /\ LoopFits' /\ Pending' = 0 /\ Pending = 0
  BY <1>2 DEF AtRest, LoopTypes, LoopFits, InLoop, Pending
<1>9. (syntax # NoSyntax => Cache(syntax, lss, line, nl, Pending))'
  BY <1>2, <1>8 DEF HInv, Cache, RightStates
<1> QED
  BY <1>4, <1>6, <1>7, <1>8, <1>9 DEF HInv

-----------------------------------------------------------------------------
(* The theorems *)

LEMMA InitFits == Init => HInv
<1> SUFFICES ASSUME Init PROVE HInv
  OBVIOUS
<1>1. PICK n \in 0..MaxLines, w \in Windows, s \in Syntaxes \cup {NoSyntax} :
        /\ nl = n
        /\ line \in [0..n - 1 -> Kinds]
        /\ syntax = s
        /\ lss = IF s = NoSyntax THEN [count |-> 0, ptr |-> [k \in {} |-> Entry(s)]]
                 ELSE [count |-> 1, ptr |-> [k \in {0} |-> Entry(Start[s])]]
        /\ shown = {w}
        /\ here = w
  BY DEF Init
<1>2. /\ range = AllLines /\ cy = [u \in Windows |-> 0] /\ vy = [u \in Windows |-> 0]
      /\ old = [cy |-> 0, vy |-> 0] /\ all = TRUE /\ at = NoLoop /\ todo = {}
      /\ pc = "idle" /\ drawn = [u \in Windows |-> BlankRows]
  BY DEF Init
<1>3. MaxLines \in Nat /\ Height \in Nat /\ MaxBatch \in Nat /\ LongMax \in Nat
  BY SizesAssumption DEF LongMax
<1>4. TextTypes /\ ViewTypes
  BY <1>1, <1>2, <1>3 DEF TextTypes, ViewTypes
<1>5. UpdateTypes
  <2>1. AllLines \in [min : 0..LongMax, max : -1..LongMax]
    BY <1>3 DEF AllLines
  <2>2. BlankRows \in [0..Height - 1 -> Rows]
    BY DEF BlankRows, Rows
  <2>3. batch \in 0..MaxBatch
    BY <1>3, SizesAssumption DEF Init
  <2> QED
    BY <1>1, <1>2, <1>3, <2>1, <2>2, <2>3 DEF UpdateTypes
<1>6. CacheTypes(lss) /\ (syntax # NoSyntax => Cache(syntax, lss, line, nl, Pending))
  <2>1. CASE s = NoSyntax
    <3>1. lss = [count |-> 0, ptr |-> [k \in {} |-> Entry(s)]] /\ 0..0 - 1 = {} /\ 0 \in 0..MaxLines + 1
      BY <1>1, <1>3, <2>1
    <3>2. lss.ptr \in [0..lss.count - 1 -> Entries]
      BY <3>1
    <3> QED
      BY <1>1, <2>1, <3>1, <3>2 DEF CacheTypes
  <2>2. CASE s # NoSyntax
    <3>1. lss = [count |-> 1, ptr |-> [k \in {0} |-> Entry(Start[s])]] /\ syntax = s
          /\ nl = n /\ s \in Syntaxes
      BY <1>1, <2>2
    <3>2. Entry(Start[s]) \in Entries
      BY <3>1, SyntaxAssumption DEF Entry, Entries
    <3>3. {0} = 0..1 - 1 /\ 1 \in 0..MaxLines + 1 /\ 1 \in 1..n + 1 /\ 1..1 - 1 = {}
      BY <1>3
    <3>4. lss.count = 1 /\ lss.ptr = [k \in 0..1 - 1 |-> Entry(Start[s])]
      BY <3>1, <3>3
    <3>5. lss.ptr \in [0..lss.count - 1 -> Entries] /\ lss.ptr[0] = Entry(Start[s])
      BY <3>2, <3>4
    <3> QED
      BY <3>1, <3>3, <3>4, <3>5 DEF CacheTypes, Cache, RightStates
  <2> QED
    BY <2>1, <2>2
<1>7. StartFits /\ AtRest /\ LoopTypes /\ LoopFits
  BY <1>2 DEF StartFits, AtRest, LoopTypes, LoopFits, InLoop
<1> QED
  BY <1>4, <1>5, <1>6, <1>7 DEF HInv

LEMMA UpdatesKeep ==
  ASSUME HInv, Update PROVE HInv'
BY BeginKeeps, StartKeeps, ScanKeeps, FillKeeps, AddKeeps, DrawKeeps, FinishKeeps DEF Update

LEMMA HNext == HInv /\ [Next]_vars => HInv'
<1> SUFFICES ASSUME HInv, [Next]_vars PROVE HInv'
  OBVIOUS
<1>1. CASE Edit
  BY <1>1, EditsKeep
<1>2. CASE Show
  BY <1>2, ShowKeeps
<1>3. CASE Update
  BY <1>3, UpdatesKeep
<1>4. CASE UNCHANGED vars
  <2>1. UNCHANGED <<line, nl, syntax, lss, range, shown, here, cy, vy, old, todo, at, drawn,
                    all, batch, pc>>
    BY <1>4 DEF vars, textVars, viewVars, updateVars
  <2>2. TextTypes' /\ ViewTypes' /\ UpdateTypes' /\ CacheTypes(lss)'
    BY <2>1 DEF HInv, TextTypes, ViewTypes, UpdateTypes, CacheTypes
  <2>3. StartFits' /\ AtRest' /\ LoopTypes' /\ LoopFits'
    BY <2>1 DEF HInv, StartFits, AtRest, LoopTypes, LoopFits, InLoop, Loops, ValidTo
  <2>4. (syntax # NoSyntax => Cache(syntax, lss, line, nl, Pending))'
    BY <2>1 DEF HInv, Cache, RightStates, Pending
  <2> QED
    BY <2>2, <2>3, <2>4 DEF HInv
<1> QED
  BY <1>1, <1>2, <1>3, <1>4 DEF Next

LEMMA HSound == HInv => CacheIsSound
<1> SUFFICES ASSUME HInv PROVE CacheIsSound
  OBVIOUS
<1>1. TypeOK
  BY DEF HInv, TextTypes, ViewTypes, UpdateTypes, CacheTypes, LoopTypes, Loops, TypeOK
<1>2. CacheIsRight
  <2>1. SUFFICES ASSUME syntax # NoSyntax
                 PROVE  /\ lss.count \in 1..nl + 1
                        /\ lss.ptr[0] = Entry(Start[syntax])
                        /\ \A k \in 1..lss.count - 1 :
                             Valid(k) /\ ~(pc = "hole" /\ k = at.idx + 1) =>
                               lss.ptr[k].st = After(line[k - 1], lss.ptr[k - 1].st)
    BY DEF CacheIsRight
  <2>2. Cache(syntax, lss, line, nl, Pending)
    BY <2>1 DEF HInv
  <2>3. ASSUME NEW k \in 1..lss.count - 1, Valid(k), ~(pc = "hole" /\ k = at.idx + 1)
        PROVE  lss.ptr[k].st = After(line[k - 1], lss.ptr[k - 1].st)
    <3>1. lss.count \in Nat
      BY DEF HInv, CacheTypes
    <3>2. k # Pending
      BY <2>3, <3>1 DEF Pending
    <3> QED
      BY <2>2, <2>3, <3>2 DEF Cache, RightStates, Valid, After
  <2> QED
    BY <2>2, <2>3 DEF Cache
<1>3. StartsAreValid
  <2>1. SUFFICES ASSUME syntax # NoSyntax
                 PROVE  /\ pc = "hole" =>
                             /\ at.idx < at.last /\ at.last < lss.count
                             /\ \A k \in 0..at.idx : Valid(k)
                        /\ pc = "draw" => /\ at.y < lss.count
                                          /\ \A k \in 0..at.y : Valid(k)
    BY DEF StartsAreValid
  <2>2. CASE pc = "hole"
    <3>1. /\ at.last = Least(at.y, lss.count - 1) /\ at.idx < at.last /\ ValidTo(lss, at.idx)
      BY <2>2 DEF HInv, LoopFits
    <3>2. at.y \in Nat /\ lss.count \in Nat
      BY <2>2, LoopFacts
    <3> QED
      BY <2>2, <3>1, <3>2 DEF Least, ValidTo, Valid
  <2>3. CASE pc = "draw"
    BY <2>1, <2>3 DEF HInv, LoopFits, ValidTo, Valid
  <2> QED
    BY <2>2, <2>3
<1> QED
  BY <1>1, <1>2, <1>3 DEF CacheIsSound

\* Whatever is inserted, deleted and replaced and whatever windows show the
\* Buffer, a line start state that is not marked as invalid is the one that the
\* line above leads to, and fill_hole and hl_line start from states that are
\* there and valid (src/syntax/highlight.c).
THEOREM CacheStaysSound == Spec => []CacheIsSound
<1>1. Init => HInv
  BY InitFits
<1>2. HInv /\ [Next]_vars => HInv'
  BY HNext
<1>3. HInv => CacheIsSound
  BY HSound
<1> QED
  BY <1>1, <1>2, <1>3, PTL DEF Spec

LEMMA LoopsAdvance == HInv /\ [Next]_vars => [Advances]_vars
<1> SUFFICES ASSUME HInv, Next PROVE Advances
  OBVIOUS
<1>1. SUFFICES ASSUME pc \in {"scan", "hole", "add"}
               PROVE  at'.bi >= at.bi /\ (pc = "hole" => at'.bi > at.bi)
  BY DEF Advances
<1>2. ~Edit /\ ~Show
  BY <1>1 DEF Edit, Show, Ready
<1>3. ~BeginUpdate /\ ~(\E w \in Windows : StartWindow(w)) /\ ~DrawLine /\ ~FinishWindow
  BY <1>1 DEF BeginUpdate, StartWindow, DrawLine, FinishWindow
<1>4. CASE Scan
  <2>1. pc # "hole"
    BY <1>4 DEF Scan
  <2> QED
    BY <1>4, <2>1, ScanKeeps
<1>5. CASE FillHole
  <2>1. at.bi \in Int /\ at'.bi \in Int
    BY <1>1, <1>5, LoopFacts, FillKeeps, HNext DEF FillHole, EatLine
  <2> QED
    BY <1>5, <2>1, FillKeeps
<1>6. CASE AddState
  <2>1. pc # "hole"
    BY <1>6 DEF AddState
  <2> QED
    BY <1>6, <2>1, AddKeeps
<1> QED
  BY <1>2, <1>3, <1>4, <1>5, <1>6 DEF Next, Update

\* The iterator of hl_fill_start_states never goes up, so that
\* block_iter_move_down is not asked for a negative number of lines, and every
\* turn of fill_hole takes it down.
THEOREM FillsAdvance == Spec => FillAdvances
<1>1. Init => HInv
  BY InitFits
<1>2. HInv /\ [Next]_vars => HInv'
  BY HNext
<1>3. HInv /\ [Next]_vars => [Advances]_vars
  BY LoopsAdvance
<1> QED
  BY <1>1, <1>2, <1>3, PTL DEF Spec, FillAdvances

-----------------------------------------------------------------------------
(***************************************************************************)
(* The rows of a lone window.  What an update does not draw again has to   *)
(* show what it showed before, although other lines above it changed.  The *)
(* invariant relates such rows to the array, not to the text: edits leave  *)
(* the entries of lines that are not to be drawn as they were, marked or   *)
(* not, so a row still shows the state that is there; and when drawing     *)
(* ends, as a state turns out to be as before, the entries below are valid *)
(* and rest on it.                                                         *)
(***************************************************************************)

\* The states of the first n lines
AreStates(f, n) ==
  /\ f = [k \in 0..n |-> f[k]]
  /\ \A k \in 0..n : f[k] = IF k = 0 THEN Start[syntax] ELSE After(line[k - 1], f[k - 1])

LEMMA StatesExist ==
  ASSUME NEW n \in Nat
  PROVE  \E f : AreStates(f, n)
<1> DEFINE Bad == {m \in Nat : ~\E f : AreStates(f, m)}
<1>1. SUFFICES ASSUME Bad # {} PROVE FALSE
  OBVIOUS
<1>2. PICK m \in Bad : \A k \in Bad : m <= k
  BY <1>1, LeastNumber
<1>3. CASE m = 0
  <2> DEFINE f == [k \in 0..0 |-> Start[syntax]]
  <2>1. \A k \in 0..0 : k = 0 /\ f[k] = Start[syntax]
    OBVIOUS
  <2>2. f = [k \in 0..0 |-> f[k]]
    OBVIOUS
  <2> HIDE DEF f
  <2>3. AreStates(f, 0)
    BY <2>1, <2>2 DEF AreStates
  <2> QED
    BY <1>2, <1>3, <2>3
<1>4. CASE m # 0
  <2>1. PICK p \in Nat : p = m - 1
    BY <1>2, <1>4
  <2>2. p \notin Bad
    BY <1>2, <2>1
  <2>3. PICK g : AreStates(g, p)
    BY <2>2
  <2> DEFINE f == [k \in 0..m |-> IF k = m THEN After(line[p], g[p]) ELSE g[k]]
  <2>4. m \in Nat /\ m = p + 1 /\ m - 1 = p
    BY <1>2, <2>1
  <2>5. ASSUME NEW k \in 0..m
        PROVE  f[k] = IF k = 0 THEN Start[syntax] ELSE After(line[k - 1], f[k - 1])
    <3>1. CASE k = m
      <4>1. f[k] = After(line[p], g[p]) /\ f[p] = g[p]
        BY <2>4, <3>1
      <4> HIDE DEF f
      <4> QED
        BY <1>4, <2>4, <3>1, <4>1
    <3>2. CASE k # m
      <4>1. k \in 0..p /\ k # m
        BY <2>4, <3>2
      <4>2. f[k] = g[k] /\ (k # 0 => f[k - 1] = g[k - 1] /\ k - 1 \in 0..p)
        BY <2>4, <4>1
      <4>3. g[k] = IF k = 0 THEN Start[syntax] ELSE After(line[k - 1], g[k - 1])
        BY <2>3, <4>1 DEF AreStates
      <4> HIDE DEF f
      <4> QED
        BY <4>2, <4>3
    <3> QED
      BY <3>1, <3>2
  <2>6. f = [k \in 0..m |-> f[k]]
    OBVIOUS
  <2> HIDE DEF f
  <2>7. AreStates(f, m)
    BY <2>5, <2>6 DEF AreStates
  <2> QED
    BY <1>2, <2>7
<1> QED
  BY <1>3, <1>4

LEMMA StatesAgree ==
  ASSUME NEW n \in Nat, NEW m \in Nat, n <= m, NEW f, NEW g, AreStates(f, n), AreStates(g, m),
         NEW k \in 0..n
  PROVE  f[k] = g[k]
<1> DEFINE Bad == {j \in 0..n : f[j] # g[j]}
<1>1. SUFFICES ASSUME Bad # {} PROVE FALSE
  OBVIOUS
<1>2. Bad \in SUBSET Nat
  OBVIOUS
<1>3. PICK j \in Bad : \A i \in Bad : j <= i
  BY <1>1, <1>2, LeastNumber
<1>4. /\ f[j] = IF j = 0 THEN Start[syntax] ELSE After(line[j - 1], f[j - 1])
      /\ g[j] = IF j = 0 THEN Start[syntax] ELSE After(line[j - 1], g[j - 1])
  <2>1. j \in 0..n /\ j \in 0..m
    BY <1>3
  <2> QED
    BY <2>1 DEF AreStates
<1>5. j # 0 /\ j - 1 \in 0..n /\ j - 1 \notin Bad
  <2>1. j # 0
    BY <1>3, <1>4
  <2> QED
    BY <1>3, <2>1
<1>6. f[j - 1] = g[j - 1]
  BY <1>5
<1> QED
  BY <1>3, <1>4, <1>5, <1>6

\* TrueState follows its recursion.
LEMMA TrueStates ==
  /\ TrueState[0] = Start[syntax]
  /\ \A k \in Nat : TrueState[k + 1] = After(line[k], TrueState[k])
<1> DEFINE St(n) == CHOOSE f : AreStates(f, n)
           F == [k \in Nat |-> St(k)[k]]
           Solves(f) == f = [k \in Nat |-> IF k = 0 THEN Start[syntax]
                                           ELSE After(line[k - 1], f[k - 1])]
<1>1. ASSUME NEW n \in Nat PROVE AreStates(St(n), n)
  BY StatesExist
<1>2. ASSUME NEW k \in Nat
      PROVE  F[k] = IF k = 0 THEN Start[syntax] ELSE After(line[k - 1], F[k - 1])
  <2>1. F[k] = St(k)[k] /\ (k # 0 => F[k - 1] = St(k - 1)[k - 1])
    OBVIOUS
  <2>2. St(k)[k] = IF k = 0 THEN Start[syntax] ELSE After(line[k - 1], St(k)[k - 1])
    <3>1. k \in 0..k
      OBVIOUS
    <3> HIDE DEF St
    <3> QED
      BY <1>1, <3>1 DEF AreStates
  <2>3. k # 0 => St(k - 1)[k - 1] = St(k)[k - 1]
    <3>1. SUFFICES ASSUME k # 0 PROVE St(k - 1)[k - 1] = St(k)[k - 1]
      OBVIOUS
    <3>2. k - 1 \in Nat /\ k - 1 <= k /\ k - 1 \in 0..k - 1
      BY <3>1
    <3>3. AreStates(St(k - 1), k - 1) /\ AreStates(St(k), k)
      BY <1>1, <3>2
    <3> HIDE DEF St
    <3> QED
      BY <3>2, <3>3, StatesAgree
  <2> HIDE DEF F, St
  <2> QED
    BY <2>1, <2>2, <2>3
<1>3. Solves(F)
  <2>1. F = [k \in Nat |-> F[k]]
    OBVIOUS
  <2> HIDE DEF F
  <2> QED
    BY <1>2, <2>1
<1>4. TrueState = CHOOSE f : Solves(f)
  BY DEF TrueState
<1> HIDE DEF F
<1>5. Solves(TrueState)
  <2>1. \E f : Solves(f)
    BY <1>3
  <2> HIDE DEF Solves
  <2> QED
    BY <1>4, <2>1
<1>6. ASSUME NEW k \in Nat
      PROVE  TrueState[k] = IF k = 0 THEN Start[syntax] ELSE After(line[k - 1], TrueState[k - 1])
  BY <1>5
<1>7. TrueState[0] = Start[syntax]
  BY <1>6
<1>8. ASSUME NEW k \in Nat PROVE TrueState[k + 1] = After(line[k], TrueState[k])
  <2>1. k + 1 \in Nat /\ k + 1 # 0 /\ k + 1 - 1 = k
    OBVIOUS
  <2> QED
    BY <1>6, <2>1
<1> QED
  BY <1>7, <1>8

\* A line below valid entries starts in the state of its own.
LEMMA ValidIsTrue ==
  ASSUME HInv, syntax # NoSyntax, pc # "hole", NEW y \in Nat, y < lss.count, ValidTo(lss, y)
  PROVE  lss.ptr[y].st = TrueState[y]
<1> DEFINE Bad == {k \in 0..y : lss.ptr[k].st # TrueState[k]}
<1>1. SUFFICES ASSUME Bad # {} PROVE FALSE
  OBVIOUS
<1>2. Bad \in SUBSET Nat
  OBVIOUS
<1>3. PICK k \in Bad : \A i \in Bad : k <= i
  BY <1>1, <1>2, LeastNumber
<1>4. Cache(syntax, lss, line, nl, 0) /\ lss.count \in Nat
  BY DEF HInv, Pending, CacheTypes
<1>5. k # 0
  BY <1>3, <1>4, TrueStates DEF Cache, Entry
<1>6. PICK j \in Nat : j + 1 = k /\ j = k - 1
  BY <1>3, <1>5
<1>7. k \in 1..lss.count - 1 /\ j \in 0..y /\ j \notin Bad
  BY <1>3, <1>4, <1>6
<1>8. lss.ptr[k].ok
  BY <1>3 DEF ValidTo
<1>9. lss.ptr[k].st = Dest[<<syntax, line[j], lss.ptr[j].st>>]
  BY <1>4, <1>5, <1>6, <1>7, <1>8 DEF Cache, RightStates
<1>10. TrueState[k] = After(line[j], TrueState[j])
  BY <1>6, TrueStates
<1>11. lss.ptr[j].st = TrueState[j]
  BY <1>7
<1> QED
  BY <1>3, <1>9, <1>10, <1>11 DEF After

-----------------------------------------------------------------------------
(* What hl_insert and hl_delete leave of the array *)

\* The entries of the first lines up to e stay.
Above(s, e, s2) ==
  \A k \in Nat : k <= e /\ k < s.count => k < s2.count /\ s2.ptr[k] = s.ptr[k]

\* Those behind line b stay where they are, but for a mark on the first of them,
\* or all of them go.
Behind(s, b, s2) ==
  /\ \A k \in Nat : b < k /\ k < s2.count =>
       /\ k < s.count /\ s2.ptr[k].st = s.ptr[k].st
       /\ b + 1 < k => s2.ptr[k] = s.ptr[k]
  /\ s2.count = s.count \/ s2.count <= b + 1

\* The entries from a on are now "by" further down.
Shifted(s, a, by, s2) ==
  /\ s2.count = s.count + by
  /\ \A k \in Nat : a <= k /\ k < s.count =>
       /\ s2.ptr[k + by].st = s.ptr[k].st
       /\ a < k => s2.ptr[k + by] = s.ptr[k]

Shaped(s, e, a, by, s2) ==
  /\ Above(s, e, s2)
  /\ \/ s2 = s /\ (s.count <= e \/ s.count = 1)
     \/ e < s.count /\ s2.count = e + 1
     \/ a < s.count /\ Shifted(s, a, by, s2)

LEMMA TruncateShape ==
  ASSUME NEW s, CacheTypes(s), NEW e \in Nat, e < s.count
  PROVE  Above(s, e, Truncate(s, e + 1)) /\ Truncate(s, e + 1).count = e + 1
<1> DEFINE q == [k \in 0..e + 1 - 1 |-> s.ptr[k]]
           t == Truncate(s, e + 1)
<1>1. t.count = e + 1 /\ t.ptr = q
  BY DEF Truncate
<1>2. \A k \in 0..e : q[k] = s.ptr[k]
  OBVIOUS
<1> HIDE DEF q, t
<1>3. \A k \in Nat : k <= e => k \in 0..e /\ k < e + 1
  OBVIOUS
<1>4. Above(s, e, t)
  BY <1>1, <1>2, <1>3 DEF Above
<1> QED
  BY <1>1, <1>4 DEF t

LEMMA InsertShape ==
  ASSUME NEW s, CacheTypes(s), NEW e \in Nat, NEW m \in Nat
  PROVE  Shaped(s, e, e + 1, m, HlInsert(s, e, m))
<1>1. s.count \in Nat
  BY SizesAssumption DEF CacheTypes
<1>2. CASE e >= s.count
  BY <1>1, <1>2 DEF HlInsert, Shaped, Above
<1>3. CASE e < s.count /\ e + m + 1 >= s.count
  <2>1. HlInsert(s, e, m) = Truncate(s, e + 1)
    BY <1>1, <1>3 DEF HlInsert
  <2> QED
    BY <1>3, <2>1, TruncateShape DEF Shaped
<1>4. CASE e + m + 1 < s.count
  <2> DEFINE last == e + m
             q == [k \in 0..s.count + m - 1 |->
                     CASE k <= e -> s.ptr[k]
                       [] e < k /\ k <= last -> Invalid(s.ptr[k])
                       [] k = last + 1 -> Invalid(s.ptr[e + 1])
                       [] last + 1 < k -> s.ptr[k - m]]
             t == HlInsert(s, e, m)
  <2>0. ~(e >= s.count) /\ ~(e < s.count /\ e + m + 1 >= s.count)
    BY <1>1, <1>4
  <2>1. t = [count |-> s.count + m, ptr |-> q]
    BY <2>0, Zenon DEF HlInsert
  <2>2. t.count = s.count + m /\ t.ptr = q
    BY <2>1
  <2>3. ASSUME NEW k \in 0..s.count + m - 1
        PROVE  /\ k <= e => q[k] = s.ptr[k]
               /\ k = last + 1 => q[k] = Invalid(s.ptr[e + 1])
               /\ last + 1 < k => q[k] = s.ptr[k - m]
    BY <1>1, <1>4
  <2> HIDE DEF q, t
  <2>4. Above(s, e, t)
    <3>1. ASSUME NEW k \in Nat, k <= e, k < s.count PROVE k < t.count /\ t.ptr[k] = s.ptr[k]
      <4>1. k \in 0..s.count + m - 1 /\ k < s.count + m
        BY <1>1, <3>1
      <4> QED
        BY <2>2, <2>3, <3>1, <4>1
    <3> QED
      BY <3>1 DEF Above
  <2>5. Shifted(s, e + 1, m, t)
    <3>1. ASSUME NEW k \in Nat, e + 1 <= k, k < s.count
          PROVE  t.ptr[k + m].st = s.ptr[k].st /\ (e + 1 < k => t.ptr[k + m] = s.ptr[k])
      <4>1. PICK j \in Nat : j = k + m
        OBVIOUS
      <4>2. j \in 0..s.count + m - 1 /\ j - m = k
        BY <1>1, <3>1, <4>1
      <4>3. CASE e + 1 < k
        <5>1. last + 1 < j
          BY <4>1, <4>3
        <5> QED
          BY <2>2, <2>3, <4>1, <4>2, <5>1
      <4>4. CASE ~(e + 1 < k)
        <5>1. j = last + 1 /\ k = e + 1 /\ k \in 0..s.count - 1
          BY <1>1, <3>1, <4>1, <4>4
        <5>2. s.ptr[k] \in Entries
          BY <5>1 DEF CacheTypes
        <5> QED
          BY <2>2, <2>3, <4>1, <4>2, <4>4, <5>1, <5>2, InvalidEntry
      <4> QED
        BY <4>3, <4>4
    <3> QED
      BY <2>2, <3>1 DEF Shifted
  <2>6. e + 1 < s.count
    BY <1>1, <1>4
  <2> QED
    BY <2>4, <2>5, <2>6 DEF Shaped, t
<1> QED
  BY <1>1, <1>2, <1>3, <1>4

LEMMA DeleteShape ==
  ASSUME NEW s, CacheTypes(s), NEW e \in Nat, NEW m \in Nat
  PROVE  Shaped(s, e, e + m + 1, 0 - m, HlDelete(s, e, m))
<1>1. s.count \in Nat
  BY SizesAssumption DEF CacheTypes
<1>2. CASE s.count = 1 \/ e >= s.count
  BY <1>1, <1>2 DEF HlDelete, Shaped, Above
<1>3. CASE s.count > 1 /\ e < s.count /\ e + m + 1 >= s.count
  <2>1. HlDelete(s, e, m) = Truncate(s, e + 1)
    BY <1>1, <1>3 DEF HlDelete
  <2> QED
    BY <1>3, <2>1, TruncateShape DEF Shaped
<1>4. CASE s.count # 1 /\ e + m + 1 < s.count
  <2> DEFINE q == [k \in 0..s.count - m - 1 |->
                     CASE k <= e -> s.ptr[k]
                       [] k = e + 1 -> Invalid(s.ptr[e + m + 1])
                       [] e + 1 < k -> s.ptr[k + m]]
             t == HlDelete(s, e, m)
  <2>0. ~(s.count = 1 \/ e >= s.count) /\ ~(s.count > 1 /\ e < s.count /\ e + m + 1 >= s.count)
    BY <1>1, <1>4
  <2>1. t = [count |-> s.count - m, ptr |-> q]
    BY <2>0, Zenon DEF HlDelete
  <2>2. t.count = s.count - m /\ t.ptr = q
    BY <2>1
  <2>3. ASSUME NEW k \in 0..s.count - m - 1
        PROVE  /\ k <= e => q[k] = s.ptr[k]
               /\ k = e + 1 => q[k] = Invalid(s.ptr[e + m + 1])
               /\ e + 1 < k => q[k] = s.ptr[k + m]
    BY <1>1, <1>4
  <2> HIDE DEF q, t
  <2>4. Above(s, e, t)
    <3>1. ASSUME NEW k \in Nat, k <= e, k < s.count PROVE k < t.count /\ t.ptr[k] = s.ptr[k]
      <4>1. k \in 0..s.count - m - 1 /\ k < s.count - m
        BY <1>1, <1>4, <3>1
      <4> QED
        BY <2>2, <2>3, <3>1, <4>1
    <3> QED
      BY <3>1 DEF Above
  <2>5. Shifted(s, e + m + 1, 0 - m, t)
    <3>1. ASSUME NEW k \in Nat, e + m + 1 <= k, k < s.count
          PROVE  t.ptr[k + (0 - m)].st = s.ptr[k].st /\ (e + m + 1 < k => t.ptr[k + (0 - m)] = s.ptr[k])
      <4>1. PICK j \in Nat : j = k + (0 - m)
        BY <3>1
      <4>2. j \in 0..s.count - m - 1 /\ j + m = k
        BY <1>1, <3>1, <4>1
      <4>3. CASE e + m + 1 < k
        <5>1. e + 1 < j
          BY <4>2, <4>3
        <5> QED
          BY <2>2, <2>3, <4>1, <4>2, <5>1
      <4>4. CASE ~(e + m + 1 < k)
        <5>1. j = e + 1 /\ k = e + m + 1 /\ k \in 0..s.count - 1
          BY <1>1, <3>1, <4>2, <4>4
        <5>2. s.ptr[k] \in Entries
          BY <5>1 DEF CacheTypes
        <5> QED
          BY <2>2, <2>3, <4>1, <4>2, <4>4, <5>1, <5>2, InvalidEntry
      <4> QED
        BY <4>3, <4>4
    <3>2. t.count = s.count + (0 - m)
      BY <1>1, <2>2
    <3> QED
      BY <3>1, <3>2 DEF Shifted
  <2> QED
    BY <1>4, <2>4, <2>5 DEF Shaped, t
<1> QED
  BY <1>1, <1>2, <1>3, <1>4

\* An edit without newlines
LEMMA EvenBehind ==
  ASSUME NEW s, CacheTypes(s), NEW e \in Nat, NEW s2, CacheTypes(s2), Shaped(s, e, e + 1, 0, s2)
  PROVE  Above(s, e, s2) /\ Behind(s, e, s2)
<1>1. Above(s, e, s2) /\ s.count \in Nat /\ s2.count \in Nat
  BY SizesAssumption DEF Shaped, CacheTypes
<1>2. CASE s2 = s
  BY <1>1, <1>2 DEF Behind
<1>3. CASE e < s.count /\ s2.count = e + 1
  BY <1>1, <1>3 DEF Behind
<1>4. CASE e + 1 < s.count /\ Shifted(s, e + 1, 0, s2)
  <2>1. s2.count = s.count
    BY <1>1, <1>4 DEF Shifted
  <2>2. ASSUME NEW k \in Nat, e < k, k < s2.count
        PROVE  s2.ptr[k].st = s.ptr[k].st /\ (e + 1 < k => s2.ptr[k] = s.ptr[k])
    <3>1. e + 1 <= k /\ k + 0 = k /\ k < s.count
      BY <2>1, <2>2
    <3> QED
      BY <1>4, <3>1 DEF Shifted
  <2> QED
    BY <1>1, <2>1, <2>2 DEF Behind
<1> QED
  BY <1>1, <1>2, <1>3, <1>4 DEF Shaped

\* A replacement by as many lines
LEMMA ReplaceBehind ==
  ASSUME NEW s, CacheTypes(s), NEW e \in Nat, NEW m \in Nat, NEW s1, CacheTypes(s1),
         NEW s2, CacheTypes(s2), Shaped(s, e, e + m + 1, 0 - m, s1), Shaped(s1, e, e + 1, m, s2)
  PROVE  Above(s, e, s2) /\ Behind(s, e + m, s2)
<1>1. /\ Above(s, e, s1) /\ Above(s1, e, s2)
      /\ s.count \in Nat /\ s1.count \in Nat /\ s2.count \in Nat
  BY SizesAssumption DEF Shaped, CacheTypes
<1>2. Above(s, e, s2)
  BY <1>1 DEF Above
<1>3. CASE s2.count <= e + 1
  BY <1>1, <1>2, <1>3 DEF Behind
<1>4. CASE s2 = s1 /\ s1 = s
  BY <1>1, <1>2, <1>4 DEF Behind
<1>5. CASE ~(s2.count <= e + 1) /\ ~(s2 = s1 /\ s1 = s)
  <2>1. e + 1 < s1.count /\ Shifted(s1, e + 1, m, s2)
    <3>1. s1.count <= e \/ s1.count = 1 => s1.count <= e + 1
      BY <1>1
    <3> QED
      BY <1>1, <1>5, <3>1 DEF Shaped
  <2>2. e + m + 1 < s.count /\ Shifted(s, e + m + 1, 0 - m, s1)
    <3>1. s.count <= e \/ s.count = 1 => s.count <= e + 1
      BY <1>1
    <3> QED
      BY <1>1, <1>5, <2>1, <3>1 DEF Shaped
  <2>3. s1.count = s.count + (0 - m) /\ s2.count = s1.count + m /\ s2.count = s.count
    BY <1>1, <2>1, <2>2 DEF Shifted
  <2>4. ASSUME NEW k \in Nat, e + m < k, k < s2.count
        PROVE  s2.ptr[k].st = s.ptr[k].st /\ (e + m + 1 < k => s2.ptr[k] = s.ptr[k])
    <3>1. PICK j \in Nat : j = k + (0 - m)
      BY <2>4
    <3>2. j + m = k /\ e + 1 <= j /\ j < s1.count /\ e + m + 1 <= k /\ k < s.count
          /\ (e + m + 1 < k => e + 1 < j)
      BY <1>1, <2>3, <2>4, <3>1
    <3>3. s2.ptr[k].st = s1.ptr[j].st /\ (e + 1 < j => s2.ptr[k] = s1.ptr[j])
      BY <2>1, <3>2 DEF Shifted
    <3>4. s1.ptr[j].st = s.ptr[k].st /\ (e + m + 1 < k => s1.ptr[j] = s.ptr[k])
      BY <2>2, <3>1, <3>2 DEF Shifted
    <3> QED
      BY <3>2, <3>3, <3>4
  <2> QED
    BY <1>1, <1>2, <2>3, <2>4 DEF Behind
<1> QED
  BY <1>3, <1>4, <1>5

-----------------------------------------------------------------------------
(* The invariant of a lone window *)

\* A row that shows line y as the array has it, if there is such a line and, with
\* a syntax, such an entry
Fits(row, y) ==
  IF y >= nl THEN row = Nothing
  ELSE IF syntax = NoSyntax THEN row = Row(y, NoSyntax)
  ELSE y < lss.count => row = Row(y, lss.ptr[y].st)

\* The rows of a view from line v on that show no line from lo to hi
RowsFit(v, lo, hi) ==
  \A r \in 0..Height - 1 : v + r < lo \/ v + r > hi => Fits(drawn[here][r], v + r)

\* The entries that those rows rest on: all above lo, if a row is; below hi those
\* that there are, and if not all are, then one is missing that is to be drawn,
\* and drawing goes on from there.
EntriesFit(v, lo, hi) ==
  /\ v < lo => \A k \in 0..v + Height - 1 : k < lo /\ k < nl => k < lss.count /\ Valid(k)
  /\ \A k \in 0..v + Height - 1 : hi + 1 < k /\ k < nl /\ k < lss.count => Valid(k)
  /\ lss.count <= hi + 1 \/ lss.count >= nl \/ lss.count >= v + Height

Kept(v, lo, hi) ==
  /\ RowsFit(v, lo, hi)
  /\ syntax # NoSyntax => EntriesFit(v, lo, hi)

LoneIdle == pc = "idle" /\ ~all => Kept(old.vy, range.min, range.max)

LoneStart ==
  pc = "window" =>
    /\ todo = {here}
    /\ ~all =>
         /\ range.min <= cy[here] /\ cy[here] <= range.max
         /\ vy[here] <= cy[here] /\ cy[here] < vy[here] + Height
         /\ range = AllLines \/ (vy[here] = old.vy /\ Kept(old.vy, range.min, range.max))

LoneLoop ==
  InLoop =>
    /\ todo = {} /\ at.win = here
    /\ vy[here] <= at.y /\ at.y <= at.y2 /\ at.y2 <= vy[here] + Height
    /\ pc # "draw" => at.y < at.y2
    /\ pc = "hole" /\ vy[here] < at.y => at.idx + 1 = at.y
    /\ Kept(vy[here], at.y, at.y2 - 1)

AtShown == Shown => range = NoRange /\ ~all /\ old.vy = vy[here]

LoneInv == AtShown /\ (shown = {here} => LoneIdle /\ LoneStart /\ LoneLoop)

LEMMA LoneFacts ==
  ASSUME HInv
  PROVE  /\ nl \in Nat /\ nl <= MaxLines /\ MaxLines \in Nat /\ Height \in Nat /\ Height >= 1
         /\ LongMax = MaxLines + Height /\ LongMax \in Nat
         /\ lss.count \in Nat /\ lss.count <= MaxLines + 1 /\ CacheTypes(lss)
         /\ range.min \in 0..LongMax /\ range.max \in -1..LongMax
         /\ range = [min |-> range.min, max |-> range.max]
         /\ old.vy \in 0..MaxLines /\ old.cy \in 0..MaxLines
         /\ here \in Windows /\ here \in shown /\ vy[here] \in 0..MaxLines /\ cy[here] \in 0..nl
         /\ batch \in Nat /\ all \in BOOLEAN
         /\ drawn \in [Windows -> [0..Height - 1 -> Rows]]
<1>1. /\ TextTypes /\ ViewTypes /\ UpdateTypes /\ CacheTypes(lss)
      /\ MaxLines \in Nat /\ Height \in Nat /\ Height >= 1 /\ MaxBatch \in Nat
  BY SizesAssumption DEF HInv
<1>2. LongMax = MaxLines + Height /\ LongMax \in Nat
  BY <1>1 DEF LongMax
<1>3. nl \in Nat /\ nl <= MaxLines
  BY <1>1 DEF TextTypes
<1>4. lss.count \in Nat /\ lss.count <= MaxLines + 1
  BY <1>1 DEF CacheTypes
<1>5. here \in Windows /\ here \in shown /\ vy[here] \in 0..MaxLines /\ cy[here] \in 0..nl
  BY <1>1 DEF ViewTypes
<1>6. /\ range.min \in 0..LongMax /\ range.max \in -1..LongMax
      /\ range = [min |-> range.min, max |-> range.max]
      /\ old.vy \in 0..MaxLines /\ old.cy \in 0..MaxLines
      /\ batch \in Nat /\ all \in BOOLEAN /\ drawn \in [Windows -> [0..Height - 1 -> Rows]]
  BY <1>1 DEF UpdateTypes
<1> QED
  BY <1>1, <1>2, <1>3, <1>4, <1>5, <1>6

\* More lines are to be drawn.
LEMMA KeptWidens ==
  ASSUME nl \in Nat, Height \in Nat, lss.count \in Nat,
         NEW v \in Nat, NEW lo \in Int, NEW hi \in Int, Kept(v, lo, hi),
         NEW lo2 \in Int, NEW hi2 \in Int, lo2 <= lo, hi <= hi2
  PROVE  Kept(v, lo2, hi2)
<1>1. RowsFit(v, lo2, hi2)
  <2>1. ASSUME NEW r \in 0..Height - 1, v + r < lo2 \/ v + r > hi2 PROVE v + r < lo \/ v + r > hi
    BY <2>1
  <2> QED
    BY <2>1 DEF Kept, RowsFit
<1>2. ASSUME syntax # NoSyntax PROVE EntriesFit(v, lo2, hi2)
  <2>1. EntriesFit(v, lo, hi)
    BY <1>2 DEF Kept
  <2>2. ASSUME v < lo2, NEW k \in 0..v + Height - 1, k < lo2, k < nl PROVE k < lss.count /\ Valid(k)
    <3>1. v < lo /\ k < lo
      BY <2>2
    <3> QED
      BY <2>1, <2>2, <3>1 DEF EntriesFit
  <2>3. ASSUME NEW k \in 0..v + Height - 1, hi2 + 1 < k, k < nl, k < lss.count PROVE Valid(k)
    <3>1. hi + 1 < k
      BY <2>3
    <3> QED
      BY <2>1, <2>3, <3>1 DEF EntriesFit
  <2>4. lss.count <= hi2 + 1 \/ lss.count >= nl \/ lss.count >= v + Height
    BY <2>1 DEF EntriesFit
  <2> QED
    BY <2>2, <2>3, <2>4 DEF EntriesFit
<1> QED
  BY <1>1, <1>2 DEF Kept

\* All lines are to be drawn.
LEMMA NothingKept ==
  ASSUME nl \in Nat, Height \in Nat, lss.count \in Nat, NEW v \in Nat,
         NEW lo \in Int, NEW hi \in Int, lo <= v, v + Height <= hi + 1
  PROVE  Kept(v, lo, hi)
<1>1. RowsFit(v, lo, hi)
  <2>1. ASSUME NEW r \in 0..Height - 1 PROVE ~(v + r < lo) /\ ~(v + r > hi)
    OBVIOUS
  <2> QED
    BY <2>1 DEF RowsFit
<1>2. EntriesFit(v, lo, hi)
  <2>1. ~(v < lo) /\ \A k \in 0..v + Height - 1 : ~(hi + 1 < k)
    OBVIOUS
  <2>2. lss.count <= hi + 1 \/ lss.count >= v + Height
    OBVIOUS
  <2> QED
    BY <2>1, <2>2 DEF EntriesFit
<1> QED
  BY <1>1, <1>2 DEF Kept

LEMMA KeptStays ==
  ASSUME NEW v, NEW lo, NEW hi, Kept(v, lo, hi), UNCHANGED <<line, nl, syntax, lss, here, drawn>>
  PROVE  Kept(v, lo, hi)'
BY DEF Kept, RowsFit, EntriesFit, Fits, Row, Valid

-----------------------------------------------------------------------------
(* What happens between two updates *)

\* No update has ended and none begins.
LEMMA IdleIsEnough ==
  ASSUME HInv, pc = "idle", Change,
         shown' = {here'} /\ ~all' => Kept(old.vy, range.min, range.max)'
  PROVE  LoneInv'
<1>1. pc' = "idle" /\ batch' = batch + 1 /\ batch \in Nat
  BY LoneFacts DEF Change
<1>2. ~Shown'
  BY <1>1 DEF Shown
<1> QED
  BY <1>1, <1>2 DEF LoneInv, AtShown, LoneIdle, LoneStart, LoneLoop, InLoop

LEMMA EditLone ==
  ASSUME HInv, LoneInv, pc = "idle", NEW e \in 0..nl, NEW max \in 0..LongMax, NEW s,
         Edited(e, max, s), CacheTypes(lss)', nl' \in Nat, e <= nl', e <= max,
         \A k \in 0..e - 1 : line'[k] = line[k],
         syntax # NoSyntax => Above(lss, e, s),
         \/ max = LongMax
         \/ /\ nl' = nl /\ \A k \in max + 1..nl - 1 : line'[k] = line[k]
            /\ syntax # NoSyntax => Behind(lss, max, s)
  PROVE  LoneInv'
<1>1. /\ nl \in Nat /\ nl <= MaxLines /\ MaxLines \in Nat /\ Height \in Nat /\ Height >= 1
      /\ LongMax = MaxLines + Height /\ LongMax \in Nat /\ lss.count \in Nat
      /\ range.min \in 0..LongMax /\ range.max \in -1..LongMax
      /\ old.vy \in 0..MaxLines
  BY LoneFacts
<1>2. /\ Change /\ syntax' = syntax /\ shown' = shown /\ here' = here /\ old' = old
      /\ drawn' = drawn /\ all' = all /\ range' = MarkLines(range, e, max)
      /\ lss' = IF syntax = NoSyntax THEN lss ELSE s
  BY DEF Edited, updateVars
<1>3. SUFFICES ASSUME shown = {here}, ~all PROVE Kept(old.vy, range.min, range.max)'
  BY <1>2, IdleIsEnough
<1>4. PICK v \in Nat, lo \in Nat, hi \in Int : v = old.vy /\ lo = range.min /\ hi = range.max
  BY <1>1
<1>5. Kept(v, lo, hi) /\ v <= MaxLines
  BY <1>1, <1>3, <1>4 DEF LoneInv, LoneIdle
<1>6. PICK lo2 \in Nat, hi2 \in Int :
        /\ lo2 = range'.min /\ hi2 = range'.max
        /\ lo2 <= lo /\ lo2 <= e /\ hi <= hi2 /\ max <= hi2
  BY <1>1, <1>2, <1>4 DEF MarkLines, Least, Most
<1>7. lss'.count \in Nat
  BY <1>1 DEF CacheTypes
<1>8. ASSUME NEW k \in 0..v + Height - 1, k < lo2, v < lo2, syntax # NoSyntax
      PROVE  k < lss.count /\ lss.ptr[k].ok /\ k < lss'.count /\ lss'.ptr[k] = lss.ptr[k]
  <2>1. k \in Nat /\ k < lo /\ v < lo /\ k < nl /\ k <= e
    BY <1>1, <1>6, <1>8
  <2>2. k < lss.count /\ lss.ptr[k].ok
    BY <1>5, <1>8, <2>1 DEF Kept, EntriesFit, Valid
  <2> QED
    BY <1>2, <1>8, <2>1, <2>2 DEF Above
<1>9. ASSUME NEW k \in 0..v + Height - 1, hi2 < k
      PROVE  /\ nl' = nl /\ (k < nl => line'[k] = line[k])
             /\ syntax # NoSyntax => Behind(lss, max, s)
             /\ hi < k /\ max < k /\ k \in Nat
  <2>1. max # LongMax /\ k \in Nat /\ hi < k /\ max < k
    BY <1>1, <1>5, <1>6, <1>9
  <2>2. k < nl => k \in max + 1..nl - 1
    BY <1>1, <2>1
  <2> QED
    BY <2>1, <2>2
<1>10. RowsFit(v, lo2, hi2)'
  <2>1. ASSUME NEW r \in 0..Height - 1, v + r < lo2 \/ v + r > hi2
        PROVE  Fits(drawn[here][r], v + r)'
    <3>1. PICK y \in Nat : y = v + r
      OBVIOUS
    <3>2. y \in 0..v + Height - 1 /\ v <= y
      BY <1>1, <3>1
    <3>3. Fits(drawn[here][r], y)
      <4>1. v + r < lo \/ v + r > hi
        BY <1>6, <2>1
      <4> QED
        BY <1>5, <3>1, <4>1 DEF Kept, RowsFit
    <3>4. CASE y < lo2
      <4>1. y < nl /\ y < nl' /\ y \in 0..e - 1
        BY <1>1, <1>6, <3>4
      <4>2. line'[y] = line[y]
        BY <4>1
      <4>3. syntax # NoSyntax => y < lss.count /\ lss'.ptr[y] = lss.ptr[y]
        BY <1>8, <3>2, <3>4
      <4>4. ~(y >= nl) /\ ~(y >= nl')
        BY <1>1, <4>1
      <4> QED
        BY <1>2, <3>1, <3>3, <4>2, <4>3, <4>4 DEF Fits, Row
    <3>5. CASE y > hi2
      <4>1. nl' = nl /\ (y < nl => line'[y] = line[y]) /\ max < y
        BY <1>9, <3>2, <3>5
      <4>2. syntax # NoSyntax /\ y < lss'.count => y < lss.count /\ lss'.ptr[y].st = lss.ptr[y].st
        BY <1>2, <1>9, <3>2, <3>5 DEF Behind
      <4>3. y >= nl \/ y < nl
        BY <1>1
      <4> QED
        BY <1>2, <3>1, <3>3, <4>1, <4>2, <4>3 DEF Fits, Row
    <3> QED
      BY <2>1, <3>1, <3>4, <3>5
  <2> QED
    BY <2>1 DEF RowsFit
<1>11. ASSUME syntax # NoSyntax PROVE EntriesFit(v, lo2, hi2)'
  <2>1. lss' = s /\ EntriesFit(v, lo, hi)
    BY <1>2, <1>5, <1>11 DEF Kept
  <2>2. ASSUME v < lo2, NEW k \in 0..v + Height - 1, k < lo2 PROVE k < lss'.count /\ lss'.ptr[k].ok
    BY <1>8, <1>11, <2>2
  <2>3. ASSUME NEW k \in 0..v + Height - 1, hi2 + 1 < k, k < nl', k < lss'.count
        PROVE  lss'.ptr[k].ok
    <3>1. hi2 < k /\ k \in Nat
      BY <2>3, <1>6
    <3>2. nl' = nl /\ Behind(lss, max, s)
      BY <1>9, <1>11, <3>1
    <3>3. max + 1 < k /\ max < k /\ hi + 1 < k
      BY <1>6, <2>3, <3>1
    <3>4. k < lss.count /\ lss'.ptr[k] = lss.ptr[k]
      BY <2>1, <2>3, <3>1, <3>2, <3>3 DEF Behind
    <3> QED
      BY <2>1, <2>3, <3>2, <3>3, <3>4 DEF EntriesFit, Valid
  <2>4. lss'.count <= hi2 + 1 \/ lss'.count >= nl' \/ lss'.count >= v + Height
    <3>1. CASE max = LongMax
      <4>1. lss'.count <= MaxLines + 1
        BY <1>1 DEF CacheTypes
      <4> QED
        BY <1>1, <1>6, <1>7, <3>1, <4>1
    <3>2. CASE max # LongMax
      <4>1. nl' = nl /\ (lss'.count = lss.count \/ lss'.count <= max + 1)
        BY <1>11, <2>1, <3>2 DEF Behind
      <4> QED
        BY <1>1, <1>6, <1>7, <2>1, <4>1 DEF EntriesFit
    <3> QED
      BY <3>1, <3>2
  <2> QED
    BY <2>2, <2>3, <2>4 DEF EntriesFit, Valid
<1>12. Kept(v, lo2, hi2)'
  BY <1>2, <1>10, <1>11 DEF Kept
<1>13. old'.vy = v
  BY <1>2, <1>4
<1> QED
  BY <1>6, <1>12, <1>13

LEMMA InsertLone ==
  ASSUME HInv, LoneInv, Ready, NEW e \in 0..nl, NEW n \in 0..MaxLines, n <= MaxLines - nl,
         NEW new \in [0..n -> Kinds], Insert(e, n, new)
  PROVE  LoneInv'
<1>1. nl \in Nat /\ nl <= MaxLines /\ MaxLines \in Nat /\ e \in Nat /\ pc = "idle" /\ n \in Nat
      /\ Height \in Nat /\ LongMax = MaxLines + Height /\ CacheTypes(lss) /\ TextTypes
  BY LoneFacts DEF Ready, HInv
<1>2. PICK gone \in {0, 1} : gone = IF e < nl THEN 1 ELSE 0
  OBVIOUS
<1>3. /\ gone + n > 0 /\ ReplaceLines(e, gone, n + gone, new)
      /\ Edited(e, IF n = 0 THEN e ELSE LongMax, HlInsert(lss, e, n))
  BY <1>2 DEF Insert
<1>4. PICK m \in Nat : m = n + gone
  BY <1>1
<1>5. gone \in 0..nl - e /\ \A k \in 0..m - 1 : new[k] \in Kinds
  BY <1>1, <1>2, <1>4
<1>6. /\ nl' = nl - gone + m /\ nl' \in 0..MaxLines
      /\ \A k \in 0..e - 1 : line'[k] = line[k]
      /\ \A k \in e + gone..nl - 1 : line'[k - gone + m] = line[k]
  BY <1>1, <1>3, <1>4, <1>5, ReplacedLines
<1>7. CacheTypes(lss)'
  BY InsertKeeps DEF HInv
<1>8. PICK s : s = HlInsert(lss, e, n)
  OBVIOUS
<1>9. PICK max \in 0..LongMax : max = IF n = 0 THEN e ELSE LongMax
  BY <1>1
<1>10. Edited(e, max, s)
  BY <1>3, <1>8, <1>9
<1>11. Shaped(lss, e, e + 1, n, s)
  BY <1>1, <1>8, InsertShape
<1>12. Above(lss, e, s) /\ e <= max /\ nl' \in Nat /\ e <= nl'
  BY <1>1, <1>4, <1>6, <1>9, <1>11 DEF Shaped
<1>13. ASSUME n = 0
       PROVE  /\ nl' = nl /\ \A k \in max + 1..nl - 1 : line'[k] = line[k]
              /\ syntax # NoSyntax => Behind(lss, max, s)
  <2>1. max = e /\ m = gone /\ gone = 1 /\ nl' = nl
    BY <1>1, <1>2, <1>3, <1>4, <1>6, <1>9, <1>13
  <2>2. ASSUME NEW k \in max + 1..nl - 1 PROVE line'[k] = line[k]
    <3>1. k \in e + gone..nl - 1 /\ k - gone + m = k
      BY <1>1, <2>1
    <3> QED
      BY <1>6, <3>1
  <2>3. ASSUME syntax # NoSyntax PROVE Behind(lss, max, s)
    <3>1. CacheTypes(s)
      <4>1. lss' = s
        BY <1>10, <2>3 DEF Edited
      <4> QED
        BY <1>7, <4>1 DEF CacheTypes
    <3> QED
      BY <1>1, <1>11, <1>13, <2>1, <3>1, EvenBehind
  <2> QED
    BY <2>1, <2>2, <2>3
<1> QED
  BY <1>1, <1>6, <1>7, <1>9, <1>10, <1>12, <1>13, EditLone

LEMMA DeleteLone ==
  ASSUME HInv, LoneInv, Ready, NEW e \in 0..nl, NEW n \in 0..MaxLines, NEW new \in [{0} -> Kinds],
         Delete(e, n, new)
  PROVE  LoneInv'
<1>1. nl \in Nat /\ nl <= MaxLines /\ MaxLines \in Nat /\ e \in Nat /\ pc = "idle" /\ n \in Nat
      /\ Height \in Nat /\ LongMax = MaxLines + Height /\ CacheTypes(lss) /\ TextTypes
  BY LoneFacts DEF Ready, HInv
<1>2. PICK left \in {0, 1} : left = IF e + n < nl THEN 1 ELSE 0
  OBVIOUS
<1>3. /\ e < nl /\ e + n <= nl /\ ReplaceLines(e, n + left, left, new)
      /\ Edited(e, IF n = 0 THEN e ELSE LongMax, HlDelete(lss, e, n))
  BY <1>2 DEF Delete
<1>4. PICK gone \in Nat : gone = n + left
  BY <1>1
<1>5. gone \in 0..nl - e /\ left \in Nat /\ \A k \in 0..left - 1 : new[k] \in Kinds
  BY <1>1, <1>2, <1>3, <1>4
<1>6. /\ nl' = nl - gone + left /\ nl' \in 0..MaxLines
      /\ \A k \in 0..e - 1 : line'[k] = line[k]
      /\ \A k \in e + gone..nl - 1 : line'[k - gone + left] = line[k]
  BY <1>1, <1>3, <1>4, <1>5, ReplacedLines
<1>7. CacheTypes(lss)'
  BY DeleteKeeps DEF HInv
<1>8. PICK s : s = HlDelete(lss, e, n)
  OBVIOUS
<1>9. PICK max \in 0..LongMax : max = IF n = 0 THEN e ELSE LongMax
  BY <1>1
<1>10. Edited(e, max, s)
  BY <1>3, <1>8, <1>9
<1>11. Shaped(lss, e, e + n + 1, 0 - n, s)
  BY <1>1, <1>8, DeleteShape
<1>12. Above(lss, e, s) /\ e <= max /\ nl' \in Nat /\ e <= nl'
  BY <1>1, <1>3, <1>4, <1>6, <1>9, <1>11 DEF Shaped
<1>13. ASSUME n = 0
       PROVE  /\ nl' = nl /\ \A k \in max + 1..nl - 1 : line'[k] = line[k]
              /\ syntax # NoSyntax => Behind(lss, max, s)
  <2>0. left = 1
    BY <1>1, <1>2, <1>3, <1>13
  <2>1. max = e /\ left = gone /\ gone = 1 /\ nl' = nl /\ e + n + 1 = e + 1 /\ 0 - n = 0
    <3>1. max = e /\ left = gone /\ gone = 1
      BY <1>1, <1>4, <1>9, <1>13, <2>0
    <3>2. nl' = nl
      BY <1>1, <1>6, <2>0, <3>1
    <3>3. e + n + 1 = e + 1 /\ 0 - n = 0
      BY <1>1, <1>13
    <3> QED
      BY <3>1, <3>2, <3>3
  <2>2. ASSUME NEW k \in max + 1..nl - 1 PROVE line'[k] = line[k]
    <3>1. k \in e + gone..nl - 1 /\ k - gone + left = k
      BY <1>1, <2>1
    <3> QED
      BY <1>6, <3>1
  <2>3. ASSUME syntax # NoSyntax PROVE Behind(lss, max, s)
    <3>1. CacheTypes(s)
      <4>1. lss' = s
        BY <1>10, <2>3 DEF Edited
      <4> QED
        BY <1>7, <4>1 DEF CacheTypes
    <3>2. Shaped(lss, e, e + 1, 0, s)
      BY <1>11, <2>1
    <3> QED
      BY <1>1, <2>1, <3>1, <3>2, EvenBehind
  <2> QED
    BY <2>1, <2>2, <2>3
<1> QED
  BY <1>1, <1>6, <1>7, <1>9, <1>10, <1>12, <1>13, EditLone

LEMMA ReplaceLone ==
  ASSUME HInv, LoneInv, Ready, NEW e \in 0..nl, NEW n \in 0..MaxLines, NEW gone \in 0..nl - 1,
         nl - gone + n <= MaxLines, NEW new \in [0..n -> Kinds], Replace(e, gone, n, new)
  PROVE  LoneInv'
<1>1. nl \in Nat /\ nl <= MaxLines /\ MaxLines \in Nat /\ e \in Nat /\ pc = "idle" /\ n \in Nat
      /\ Height \in Nat /\ LongMax = MaxLines + Height /\ CacheTypes(lss) /\ TextTypes
      /\ gone \in Nat
  BY LoneFacts DEF Ready, HInv
<1>2. /\ e + gone < nl /\ ReplaceLines(e, gone + 1, n + 1, new)
      /\ Edited(e, IF gone = n THEN e + gone ELSE LongMax,
                HlInsert(HlDelete(lss, e, gone), e, n))
  BY DEF Replace
<1>3. PICK g \in Nat, m \in Nat : g = gone + 1 /\ m = n + 1
  BY <1>1
<1>4. g \in 0..nl - e /\ \A k \in 0..m - 1 : new[k] \in Kinds
  BY <1>1, <1>2, <1>3
<1>5. /\ nl' = nl - g + m /\ nl' \in 0..MaxLines
      /\ \A k \in 0..e - 1 : line'[k] = line[k]
      /\ \A k \in e + g..nl - 1 : line'[k - g + m] = line[k]
  BY <1>1, <1>2, <1>3, <1>4, ReplacedLines
<1>6. CacheTypes(lss)'
  BY ReplaceKeeps DEF HInv
<1>7. PICK s1 : s1 = HlDelete(lss, e, gone)
  OBVIOUS
<1>8. PICK s : s = HlInsert(s1, e, n)
  OBVIOUS
<1>9. PICK max \in 0..LongMax : max = IF gone = n THEN e + gone ELSE LongMax
  BY <1>1, <1>2
<1>10. Edited(e, max, s)
  BY <1>2, <1>7, <1>8, <1>9
<1>11. Shaped(lss, e, e + gone + 1, 0 - gone, s1)
  BY <1>1, <1>7, DeleteShape
<1>12. ASSUME syntax # NoSyntax PROVE CacheTypes(s1) /\ Shaped(s1, e, e + 1, n, s)
  <2>1. Cache(syntax, lss, line, nl, 0)
    BY <1>1, <1>12 DEF HInv, Pending
  <2>2. PICK ln : ln = [k \in 0..nl - gone - 1 |-> IF k < e THEN line[k] ELSE line[k + gone]]
    OBVIOUS
  <2>3. Around(line, nl, e, gone, 0, ln)
    <3>1. ASSUME NEW k \in 0..e - 1 PROVE ln[k] = line[k]
      BY <1>1, <1>2, <2>2
    <3>2. ASSUME NEW k \in e + gone + 1..nl - 1 PROVE ln[k - gone + 0] = line[k]
      <4>1. PICK j \in Nat : j = k - gone + 0
        BY <1>1
      <4>2. j \in 0..nl - gone - 1 /\ ~(j < e) /\ j + gone = k
        BY <1>1, <4>1
      <4> QED
        BY <2>2, <4>1, <4>2
    <3> QED
      BY <3>1, <3>2 DEF Around
  <2>4. gone \in 0..nl - e
    BY <1>1, <1>2
  <2>5. CacheTypes(s1)
    BY <1>1, <1>7, <2>1, <2>3, <2>4, DeleteRight
  <2> QED
    BY <1>1, <1>8, <2>5, InsertShape
<1>13. e <= max /\ nl' \in Nat /\ e <= nl'
  BY <1>1, <1>2, <1>3, <1>5, <1>9
<1>14. ASSUME syntax # NoSyntax PROVE Above(lss, e, s)
  <2>1. Above(lss, e, s1) /\ Above(s1, e, s)
    BY <1>11, <1>12, <1>14 DEF Shaped
  <2> QED
    BY <2>1 DEF Above
<1>15. ASSUME gone = n
       PROVE  /\ nl' = nl /\ \A k \in max + 1..nl - 1 : line'[k] = line[k]
              /\ syntax # NoSyntax => Behind(lss, max, s)
  <2>1. max = e + gone /\ m = g /\ nl' = nl
    BY <1>1, <1>3, <1>5, <1>9, <1>15
  <2>2. ASSUME NEW k \in max + 1..nl - 1 PROVE line'[k] = line[k]
    <3>1. k \in e + g..nl - 1 /\ k - g + m = k
      BY <1>1, <1>3, <2>1
    <3> QED
      BY <1>5, <3>1
  <2>3. ASSUME syntax # NoSyntax PROVE Behind(lss, max, s)
    <3>1. CacheTypes(s)
      <4>1. lss' = s
        BY <1>10, <2>3 DEF Edited
      <4> QED
        BY <1>6, <4>1 DEF CacheTypes
    <3>2. Shaped(s1, e, e + 1, gone, s)
      BY <1>12, <1>15, <2>3
    <3> QED
      BY <1>1, <1>11, <1>12, <2>1, <2>3, <3>1, <3>2, ReplaceBehind
  <2> QED
    BY <2>1, <2>2, <2>3
<1> QED
  BY <1>1, <1>5, <1>6, <1>9, <1>10, <1>13, <1>14, <1>15, EditLone

LEMMA EditsLone ==
  ASSUME HInv, LoneInv, Edit PROVE LoneInv'
BY InsertLone, DeleteLone, ReplaceLone DEF Edit

LEMMA ShowLone ==
  ASSUME HInv, LoneInv, Show PROVE LoneInv'
<1>1. /\ nl \in Nat /\ nl <= MaxLines /\ MaxLines \in Nat /\ Height \in Nat /\ Height >= 1
      /\ LongMax = MaxLines + Height /\ LongMax \in Nat /\ lss.count \in Nat
      /\ range.min \in 0..LongMax /\ range.max \in -1..LongMax
      /\ old.vy \in 0..MaxLines /\ old.vy \in Nat /\ cy[here] \in 0..nl
      /\ pc = "idle"
  BY LoneFacts DEF Show, Ready
<1>2. AllLines.min = 0 /\ AllLines.max = LongMax
  BY DEF AllLines
<1>3. ASSUME Change, UNCHANGED <<line, nl, syntax, lss, here, shown, old, drawn, all>>,
             range'.min \in Int, range'.max \in Int,
             range'.min <= range.min, range.max <= range'.max
      PROVE  LoneInv'
  <2>1. SUFFICES ASSUME shown = {here}, ~all PROVE Kept(old.vy, range.min, range.max)'
    BY <1>1, <1>3, IdleIsEnough
  <2>2. Kept(old.vy, range.min, range.max)
    BY <1>1, <2>1 DEF LoneInv, LoneIdle
  <2>3. PICK v \in Nat, lo \in Int, hi \in Int, lo1 \in Int, hi1 \in Int :
          /\ v = old.vy /\ lo = range'.min /\ hi = range'.max
          /\ lo1 = range.min /\ hi1 = range.max
    BY <1>1, <1>3
  <2>4. Kept(v, lo, hi)
    <3>1. Kept(v, lo1, hi1)
      BY <2>2, <2>3
    <3> QED
      BY <1>1, <1>3, <2>3, <3>1, KeptWidens
  <2>5. Kept(v, lo, hi)'
    BY <1>3, <2>4, KeptStays
  <2>6. old'.vy = v
    BY <1>3, <2>3
  <2> QED
    BY <2>3, <2>5, <2>6
<1>4. ASSUME NEW e \in 0..nl, Move(e) PROVE LoneInv'
  BY <1>1, <1>3, <1>4 DEF Move, textVars, updateVars
<1>5. ASSUME NEW y \in 0..nl, NEW e \in 0..nl, Scroll(y, e) PROVE LoneInv'
  BY <1>1, <1>3, <1>5 DEF Scroll, textVars, updateVars
<1>6. ASSUME NEW s \in Syntaxes \cup {NoSyntax}, SetSyntax(s) PROVE LoneInv'
  <2>1. Change /\ range' = AllLines /\ UNCHANGED <<line, nl, here, shown, old, drawn, all>>
    BY <1>6 DEF SetSyntax, viewVars, updateVars
  <2>2. nl' \in Nat /\ lss'.count \in Nat
    <3>1. HInv'
      BY ShowKeeps
    <3> QED
      BY <1>1, <2>1, <3>1 DEF HInv, CacheTypes
  <2>3. PICK v \in Nat, lo \in Int, hi \in Int :
          v = old.vy /\ lo = range'.min /\ hi = range'.max /\ lo <= v /\ v + Height <= hi + 1
    BY <1>1, <1>2, <2>1
  <2>4. RowsFit(v, lo, hi)' /\ EntriesFit(v, lo, hi)'
    <3>1. ASSUME NEW r \in 0..Height - 1 PROVE ~(v + r < lo) /\ ~(v + r > hi)
      BY <1>1, <2>3
    <3>2. ~(v < lo) /\ \A k \in 0..v + Height - 1 : ~(hi + 1 < k)
      BY <1>1, <2>3
    <3>3. lss'.count <= hi + 1 \/ lss'.count >= v + Height
      BY <1>1, <2>2, <2>3
    <3> QED
      BY <3>1, <3>2, <3>3 DEF RowsFit, EntriesFit
  <2>5. Kept(v, lo, hi)'
    BY <2>4 DEF Kept
  <2>6. Kept(old.vy, range.min, range.max)'
    <3>1. old'.vy = v
      BY <2>1, <2>3
    <3> QED
      BY <2>3, <2>5, <3>1
  <2> QED
    BY <1>1, <2>1, <2>6, IdleIsEnough
<1>7. ASSUME Select PROVE LoneInv'
  <2>1. Change /\ UNCHANGED <<line, nl, syntax, lss, here, shown, old, drawn, all>>
    BY <1>7 DEF Select, textVars, viewVars, updateVars
  <2>2. range' = MarkLines(range, cy[here], cy[here]) \/ range' = AllLines
    BY <1>7 DEF Select
  <2>3. /\ range'.min \in Int /\ range'.max \in Int
        /\ range'.min <= range.min /\ range.max <= range'.max
    BY <1>1, <1>2, <2>2 DEF MarkLines, Least, Most
  <2> QED
    BY <1>3, <2>1, <2>3
<1>8. ASSUME NEW ws \in SUBSET Windows, NEW w \in Windows, NEW e \in 0..nl, Arrange(ws, w, e)
      PROVE  LoneInv'
  <2>1. Change /\ all' = TRUE
    BY <1>8 DEF Arrange
  <2> QED
    BY <1>1, <2>1, IdleIsEnough
<1> QED
  BY <1>4, <1>5, <1>6, <1>7, <1>8 DEF Show

-----------------------------------------------------------------------------
(* The steps of an update *)

\* The line of the cursor is on screen.
LEMMA ScrolledShows ==
  ASSUME HInv, NEW w \in Windows
  PROVE  cy[w] < Scrolled(w) + Height
<1>1. /\ nl \in Nat /\ nl <= MaxLines /\ MaxLines \in Nat /\ Height \in Nat /\ Height > 0
      /\ cy[w] \in 0..nl /\ vy[w] \in 0..MaxLines
  BY SizesAssumption DEF HInv, TextTypes, ViewTypes
<1>2. PICK c \in Nat, v \in Nat : c = cy[w] /\ v = vy[w] /\ c <= nl
  BY <1>1
<1>3. CASE c < v
  <2>1. Scrolled(w) = c
    BY <1>1, <1>2, <1>3 DEF Scrolled
  <2> QED
    BY <1>1, <1>2, <2>1
<1>4. CASE c > v + Height - 1
  <2>1. Scrolled(w) \in {nl - Height + 1, v + c - (v + Height - 1)}
    BY <1>1, <1>2, <1>4 DEF Scrolled
  <2> QED
    BY <1>1, <1>2, <2>1
<1>5. CASE ~(c < v) /\ ~(c > v + Height - 1)
  <2>1. Scrolled(w) = v
    BY <1>1, <1>2, <1>5 DEF Scrolled
  <2> QED
    BY <1>1, <1>2, <1>5, <2>1
<1> QED
  BY <1>1, <1>2, <1>3, <1>4, <1>5

LEMMA BeginLone ==
  ASSUME HInv, LoneInv, BeginUpdate PROVE LoneInv'
<1>1. /\ nl \in Nat /\ nl <= MaxLines /\ MaxLines \in Nat /\ Height \in Nat /\ Height >= 1
      /\ LongMax = MaxLines + Height /\ LongMax \in Nat /\ lss.count \in Nat
      /\ range.min \in 0..LongMax /\ range.max \in -1..LongMax
      /\ old.vy \in 0..MaxLines /\ old.cy \in 0..MaxLines /\ cy[here] \in 0..nl
      /\ here \in Windows /\ vy \in [Windows -> 0..MaxLines]
  BY LoneFacts DEF HInv, ViewTypes
<1>2. /\ pc = "idle" /\ pc' = "window" /\ todo' = shown
      /\ vy' = IF all THEN vy ELSE [vy EXCEPT ![here] = Scrolled(here)]
      /\ range' = CASE all -> range
                    [] ~all /\ Scrolled(here) # old.vy -> AllLines
                    [] OTHER -> MarkLines(range, old.cy, cy[here])
      /\ UNCHANGED <<line, nl, syntax, lss, shown, here, cy, old, all, batch, at, drawn>>
  BY DEF BeginUpdate, textVars
<1>3. ~Shown' /\ LoneIdle' /\ LoneLoop'
  BY <1>2 DEF Shown, LoneIdle, LoneLoop, InLoop
<1>4. ASSUME shown = {here}, ~all
      PROVE  /\ range'.min <= cy[here] /\ cy[here] <= range'.max
             /\ vy'[here] <= cy[here] /\ cy[here] < vy'[here] + Height
             /\ range' = AllLines \/ (vy'[here] = old.vy /\ Kept(old.vy, range.min, range.max)')
  <2>1. vy'[here] = Scrolled(here)
    BY <1>1, <1>2, <1>4
  <2>2. Scrolled(here) <= cy[here] /\ cy[here] < Scrolled(here) + Height
    BY <1>1, ScrolledFits, ScrolledShows
  <2>3. CASE Scrolled(here) # old.vy
    <3>1. range' = AllLines
      BY <1>2, <1>4, <2>3
    <3>2. AllLines.min = 0 /\ AllLines.max = LongMax
      BY DEF AllLines
    <3> QED
      BY <1>1, <2>1, <2>2, <3>1, <3>2
  <2>4. CASE Scrolled(here) = old.vy
    <3>1. range' = MarkLines(range, old.cy, cy[here])
      BY <1>2, <1>4, <2>4
    <3>2. /\ range'.min \in Int /\ range'.max \in Int
          /\ range'.min <= range.min /\ range.max <= range'.max
          /\ range'.min <= cy[here] /\ cy[here] <= range'.max
      BY <1>1, <3>1 DEF MarkLines, Least, Most
    <3>a. old.vy \in Nat /\ range.min \in Int /\ range.max \in Int
      BY <1>1
    <3>b. PICK v \in Nat : v = old.vy
      BY <3>a
    <3>c. PICK lo \in Int : lo = range'.min
      BY <3>2
    <3>d. PICK hi \in Int : hi = range'.max
      BY <3>2
    <3>e. PICK lo1 \in Int : lo1 = range.min
      BY <3>a
    <3>f. PICK hi1 \in Int : hi1 = range.max
      BY <3>a
    <3>3. /\ v = old.vy /\ lo = range'.min /\ hi = range'.max
          /\ lo1 = range.min /\ hi1 = range.max
      BY <3>b, <3>c, <3>d, <3>e, <3>f
    <3>4. Kept(v, lo1, hi1)
      BY <1>2, <1>4, <3>3 DEF LoneInv, LoneIdle
    <3>5. Kept(v, lo, hi)
      BY <1>1, <3>2, <3>3, <3>4, KeptWidens
    <3>6. Kept(v, lo, hi)'
      BY <1>2, <3>5, KeptStays
    <3>7. old'.vy = v
      BY <1>2, <3>3
    <3> QED
      BY <2>1, <2>2, <2>4, <3>2, <3>3, <3>6, <3>7
  <2> QED
    BY <2>3, <2>4
<1>5. shown = {here} => LoneStart'
  <2> SUFFICES ASSUME shown = {here} PROVE LoneStart'
    OBVIOUS
  <2>1. todo' = {here'} /\ here' = here /\ cy' = cy /\ old' = old /\ all' = all
    BY <1>2
  <2> QED
    BY <1>4, <2>1 DEF LoneStart
<1> QED
  BY <1>2, <1>3, <1>5 DEF LoneInv, AtShown

\* The range of changed lines, cut to the rows of the view
LEMMA StartLone ==
  ASSUME HInv, LoneInv, NEW w \in Windows, StartWindow(w) PROVE LoneInv'
<1>1. /\ nl \in Nat /\ nl <= MaxLines /\ MaxLines \in Nat /\ Height \in Nat /\ Height >= 1
      /\ LongMax = MaxLines + Height /\ LongMax \in Nat /\ lss.count \in Nat
      /\ range.min \in 0..LongMax /\ range.max \in -1..LongMax
      /\ old.vy \in 0..MaxLines /\ cy[here] \in 0..nl /\ all \in BOOLEAN
      /\ here \in Windows /\ vy \in [Windows -> 0..MaxLines] /\ vy[here] \in 0..MaxLines
  BY LoneFacts DEF HInv, ViewTypes
<1>2. PICK y : y = IF w = here /\ ~all THEN vy[w] ELSE Scrolled(w)
  OBVIOUS
<1>3. PICK y1 : y1 = IF all THEN y ELSE Most(range.min, y)
  OBVIOUS
<1>4. PICK y2 : y2 = IF all THEN y + Height ELSE Least(range.max, y + Height - 1) + 1
  OBVIOUS
<1>5. PICK last : last = LastToFill(y1)
  OBVIOUS
<1>6. /\ pc = "window" /\ w \in todo /\ todo' = todo \ {w}
      /\ vy' = [vy EXCEPT ![w] = y]
      /\ pc' = IF syntax = NoSyntax THEN "draw" ELSE "scan"
      /\ at' = [win |-> w, y |-> y1, y2 |-> y2, idx |-> 0, bi |-> 0, last |-> last]
      /\ UNCHANGED <<line, nl, syntax, lss, range, shown, here, cy, old, all, batch, drawn>>
  BY <1>2, <1>3, <1>4, <1>5, Zenon DEF StartWindow, textVars
<1>7. ~Shown' /\ LoneIdle' /\ LoneStart'
  BY <1>6 DEF Shown, LoneIdle, LoneStart
<1>8. SUFFICES ASSUME shown = {here} PROVE LoneLoop'
  BY <1>6, <1>7 DEF LoneInv, AtShown
<1>9. todo = {here} /\ w = here
  BY <1>6, <1>8 DEF LoneInv, LoneStart
<1>10. y \in Nat /\ y <= MaxLines
  BY <1>1, <1>2, <1>9, ScrolledFits
<1>11. /\ vy'[here] = y /\ todo' = {} /\ at'.win = here /\ at'.y = y1 /\ at'.y2 = y2
       /\ pc' # "hole" /\ here' = here
  BY <1>1, <1>6, <1>9
<1>12. /\ y1 \in Int /\ y2 \in Int /\ y <= y1 /\ y1 < y2 /\ y2 <= y + Height
       /\ Kept(y, y1, y2 - 1)
  <2>1. CASE all
    <3>1. y1 = y /\ y2 = y + Height
      BY <1>3, <1>4, <2>1
    <3>2. y <= y /\ y + Height <= y2 - 1 + 1 /\ y2 \in Int /\ y2 - 1 \in Int
      BY <1>1, <1>10, <3>1
    <3>3. PICK hi \in Int : hi = y2 - 1
      BY <3>2
    <3>4. y \in Int /\ y <= y /\ y + Height <= hi + 1
      BY <1>10, <3>2, <3>3
    <3>5. Kept(y, y, hi)
      BY <1>1, <1>10, <3>4, NothingKept
    <3> QED
      BY <1>1, <1>10, <3>1, <3>3, <3>5
  <2>2. CASE ~all
    <3>1. /\ range.min <= cy[here] /\ cy[here] <= range.max
          /\ vy[here] <= cy[here] /\ cy[here] < vy[here] + Height
          /\ range = AllLines \/ (vy[here] = old.vy /\ Kept(old.vy, range.min, range.max))
      BY <1>6, <1>8, <2>2 DEF LoneInv, LoneStart
    <3>2. y = vy[here] /\ y1 = Most(range.min, y) /\ y2 = Least(range.max, y + Height - 1) + 1
      BY <1>2, <1>3, <1>4, <1>9, <2>2
    <3>3. PICK lo \in Int, hi \in Int, c \in Nat : lo = range.min /\ hi = range.max /\ c = cy[here]
      BY <1>1
    <3>4. /\ y1 \in Int /\ y2 \in Int /\ y <= y1 /\ y1 < y2 /\ y2 <= y + Height
          /\ lo <= y1 /\ y2 - 1 <= hi
          /\ y1 = lo \/ y1 = y
          /\ y2 - 1 = hi \/ y2 - 1 = y + Height - 1
      BY <1>1, <1>10, <3>1, <3>2, <3>3 DEF Most, Least
    <3>5. CASE range = AllLines
      <4>1. lo = 0 /\ hi = LongMax
        BY <3>3, <3>5 DEF AllLines
      <4>2. y1 <= y /\ y + Height <= y2 - 1 + 1 /\ y2 - 1 \in Int
        BY <1>1, <1>10, <3>4, <4>1
      <4>3. Kept(y, y1, y2 - 1)
        BY <1>1, <1>10, <3>4, <4>2, NothingKept
      <4> QED
        BY <3>4, <4>3
    <3>6. CASE range # AllLines
      <4>1. Kept(y, lo, hi)
        BY <3>1, <3>2, <3>3, <3>6
      <4>2. RowsFit(y, y1, y2 - 1)
        <5>1. ASSUME NEW r \in 0..Height - 1, y + r < y1 \/ y + r > y2 - 1
              PROVE  y + r < lo \/ y + r > hi
          BY <1>1, <1>10, <3>4, <5>1
        <5> QED
          BY <4>1, <5>1 DEF Kept, RowsFit
      <4>3. ASSUME syntax # NoSyntax PROVE EntriesFit(y, y1, y2 - 1)
        <5>1. EntriesFit(y, lo, hi)
          BY <4>1, <4>3 DEF Kept
        <5>2. y < y1 => y1 = lo
          BY <1>10, <3>4
        <5>3. ASSUME NEW k \in 0..y + Height - 1, y2 - 1 + 1 < k PROVE hi + 1 < k
          BY <1>1, <1>10, <3>4, <5>3
        <5>4. lss.count <= y2 - 1 + 1 \/ lss.count >= nl \/ lss.count >= y + Height
          <6>1. lss.count <= hi + 1 \/ lss.count >= nl \/ lss.count >= y + Height
            BY <5>1 DEF EntriesFit
          <6> QED
            BY <1>1, <1>10, <3>4, <6>1
        <5> QED
          BY <5>1, <5>2, <5>3, <5>4 DEF EntriesFit
      <4> QED
        BY <3>4, <4>2, <4>3 DEF Kept
    <3> QED
      BY <3>5, <3>6
  <2> QED
    BY <1>1, <2>1, <2>2
<1>13. Kept(y, y1, y2 - 1)'
  BY <1>6, <1>12, KeptStays
<1> QED
  BY <1>11, <1>12, <1>13 DEF LoneLoop

\* An entry was set, and perhaps the next one marked.
Touched(s, i, s2) ==
  /\ s2.count = IF i = s.count THEN i + 1 ELSE s.count
  /\ \A k \in Nat : k < s.count /\ k # i =>
       /\ s2.ptr[k].st = s.ptr[k].st
       /\ k # i + 1 => s2.ptr[k] = s.ptr[k]

Unmarked(s, i, s2) == \A k \in Nat : k < s.count /\ k # i => s2.ptr[k] = s.ptr[k]

LEMMA TouchedBySet ==
  ASSUME NEW s, CacheTypes(s), NEW st \in States, NEW i \in 0..s.count, i <= MaxLines
  PROVE  /\ Touched(s, i, Set(s, i, st)) /\ Unmarked(s, i, Set(s, i, st))
         /\ Set(s, i, st).ptr[i] = Entry(st)
         /\ Touched(s, i, Mark(Set(s, i, st), i + 1))
<1>1. s.count \in Nat /\ i \in Nat /\ i + 1 \in Nat
  BY SizesAssumption DEF CacheTypes
<1>2. PICK s2 : s2 = Set(s, i, st)
  OBVIOUS
<1>3. /\ CacheTypes(s2) /\ s2.count = IF i = s.count THEN i + 1 ELSE s.count
      /\ s2.ptr[i] = Entry(st)
      /\ \A k \in 0..s.count - 1 : k # i => s2.ptr[k] = s.ptr[k]
  BY <1>2, SetStates
<1>4. PICK s3 : s3 = Mark(s2, i + 1)
  OBVIOUS
<1>5. Marked(s2, i + 1, s3)
  BY <1>1, <1>3, <1>4, MarkStates
<1>6. s2.count \in Nat /\ s.count <= s2.count
  BY <1>1, <1>3
<1>7. ASSUME NEW k \in Nat, k < s.count, k # i
      PROVE  /\ s2.ptr[k] = s.ptr[k] /\ s3.ptr[k].st = s.ptr[k].st
             /\ k # i + 1 => s3.ptr[k] = s.ptr[k]
  <2>1. k \in 0..s.count - 1 /\ k \in 0..s2.count - 1
    BY <1>1, <1>6, <1>7
  <2> QED
    BY <1>3, <1>5, <1>7, <2>1 DEF Marked
<1>8. s3.count = s2.count
  BY <1>5 DEF Marked
<1> QED
  BY <1>2, <1>3, <1>4, <1>7, <1>8 DEF Touched, Unmarked

\* An entry that is to be drawn from was computed.
LEMMA ComputedKeeps ==
  ASSUME nl \in Nat, Height \in Nat, lss.count \in Nat, NEW v \in Nat,
         NEW lo \in Int, NEW hi \in Int, Kept(v, lo, hi), lo <= hi, hi < v + Height,
         NEW i \in 0..lss.count, i <= lo, v < lo => i = lo \/ i = lss.count,
         Touched(lss, i, lss'),
         syntax # NoSyntax, UNCHANGED <<line, nl, syntax, here, drawn>>
  PROVE  Kept(v, lo, hi)'
<1>1. EntriesFit(v, lo, hi) /\ RowsFit(v, lo, hi)
  BY DEF Kept
<1>3. lss'.count = IF i = lss.count THEN i + 1 ELSE lss.count
  BY DEF Touched
<1>4. \A k \in Nat : k < lss.count /\ k # i =>
        lss'.ptr[k].st = lss.ptr[k].st /\ (k # i + 1 => lss'.ptr[k] = lss.ptr[k])
  BY DEF Touched
<1>5. RowsFit(v, lo, hi)'
  <2>1. ASSUME NEW r \in 0..Height - 1, v + r < lo \/ v + r > hi PROVE Fits(drawn[here][r], v + r)'
    <3>1. PICK y \in Nat : y = v + r
      OBVIOUS
    <3>2. Fits(drawn[here][r], y)
      BY <1>1, <2>1, <3>1 DEF RowsFit
    <3>3. ASSUME y < nl, y < lss'.count
          PROVE  y < lss.count /\ lss'.ptr[y].st = lss.ptr[y].st
      <4>1. CASE y < lo
        <5>1. v < lo /\ y \in 0..v + Height - 1
          BY <3>1, <4>1
        <5>2. y < lss.count
          BY <1>1, <3>3, <4>1, <5>1 DEF EntriesFit
        <5>3. y # i
          BY <4>1, <5>1, <5>2
        <5> QED
          BY <1>4, <5>2, <5>3
      <4>2. CASE y > hi
        <5>1. y # i /\ y < lss.count
          BY <1>3, <3>3, <4>2
        <5> QED
          BY <1>4, <5>1
      <4> QED
        BY <2>1, <3>1, <4>1, <4>2
    <3>4. y >= nl \/ y < nl
      OBVIOUS
    <3> QED
      BY <3>1, <3>2, <3>3, <3>4 DEF Fits, Row
  <2> QED
    BY <2>1 DEF RowsFit
<1>6. EntriesFit(v, lo, hi)'
  <2>1. ASSUME v < lo, NEW k \in 0..v + Height - 1, k < lo, k < nl
        PROVE  k < lss'.count /\ lss'.ptr[k].ok
    <3>1. k < lss.count /\ lss.ptr[k].ok /\ k \in Nat
      BY <1>1, <2>1 DEF EntriesFit, Valid
    <3>2. k # i /\ k # i + 1 /\ k < lss'.count
      BY <1>3, <2>1, <3>1
    <3> QED
      BY <1>4, <3>1, <3>2
  <2>2. ASSUME NEW k \in 0..v + Height - 1, hi + 1 < k, k < nl, k < lss'.count
        PROVE  lss'.ptr[k].ok
    <3>1. k # i /\ k # i + 1 /\ k < lss.count /\ k \in Nat
      BY <1>3, <2>2
    <3>2. lss.ptr[k].ok
      BY <1>1, <2>2, <3>1 DEF EntriesFit, Valid
    <3> QED
      BY <1>4, <3>1, <3>2
  <2>3. lss'.count <= hi + 1 \/ lss'.count >= nl \/ lss'.count >= v + Height
    <3>1. lss.count <= hi + 1 \/ lss.count >= nl \/ lss.count >= v + Height
      BY <1>1 DEF EntriesFit
    <3> QED
      BY <1>3, <3>1
  <2> QED
    BY <2>1, <2>2, <2>3 DEF EntriesFit, Valid
<1> QED
  BY <1>5, <1>6 DEF Kept

LEMMA ScanLone ==
  ASSUME HInv, LoneInv, Scan PROVE LoneInv'
<1>1. /\ pc = "scan" /\ syntax # NoSyntax
      /\ UNCHANGED <<line, nl, syntax, lss, range, shown, here, cy, vy, old, all, batch, todo, drawn>>
  BY DEF Scan, HInv, LoopTypes, textVars, viewVars
<1>2. /\ nl \in Nat /\ lss.count \in Nat /\ Height \in Nat
      /\ at \in Loops /\ at.y \in Nat /\ at.y <= nl /\ at.y2 \in Nat
      /\ at.idx \in 0..MaxLines /\ at.last \in -1..MaxLines /\ MaxLines \in Nat
      /\ vy[here] \in Nat
  <2>1. pc \in {"scan", "hole", "add", "draw"}
    BY <1>1
  <2>2. /\ nl \in Nat /\ at \in Loops /\ at.y \in Nat /\ at.y <= nl /\ at.y2 \in 0..LongMax
        /\ at.idx \in 0..MaxLines /\ at.last \in -1..MaxLines /\ MaxLines \in Nat
        /\ LongMax \in Nat /\ lss.count \in Nat
    BY <2>1, LoopFacts
  <2>3. Height \in Nat /\ vy[here] \in 0..MaxLines
    BY LoneFacts
  <2> QED
    BY <2>2, <2>3
<1>3. /\ at.last = Least(at.y, lss.count - 1) /\ at.idx <= at.last /\ ValidTo(lss, at.idx)
  BY <1>1 DEF HInv, LoopFits
<1>4. at.last <= at.y /\ at.last < lss.count
  BY <1>2, <1>3 DEF Least
<1>5. /\ at'.win = at.win /\ at'.y = at.y /\ at'.y2 = at.y2 /\ pc' \in {"add", "hole"}
      /\ pc' = "hole" => at'.idx + 1 \in Holes
  <2>1. CASE Holes = {}
    <3>1. pc' = "add" /\ at' = [at EXCEPT !.bi = lss.count - 1]
      BY <2>1 DEF Scan
    <3> QED
      BY <1>2, <3>1 DEF Loops
  <2>2. CASE Holes # {}
    <3>1. PICK hole \in Holes :
            pc' = "hole" /\ at' = [at EXCEPT !.idx = LineBefore(hole), !.bi = LineBefore(hole)]
      BY <2>2 DEF Scan
    <3>2. hole \in Int
      BY <1>2, <3>1 DEF Holes
    <3>3. PICK b \in Int : b = LineBefore(hole) /\ b + 1 = hole
      BY <3>2 DEF LineBefore
    <3>4. at' = [at EXCEPT !.idx = b, !.bi = b]
      BY <3>1, <3>3
    <3> QED
      BY <1>2, <3>1, <3>3, <3>4 DEF Loops
  <2> QED
    BY <2>1, <2>2
<1>6. ~Shown' /\ LoneIdle' /\ LoneStart'
  BY <1>5 DEF Shown, LoneIdle, LoneStart
<1>7. SUFFICES ASSUME shown = {here} PROVE LoneLoop'
  BY <1>1, <1>6 DEF LoneInv, AtShown
<1>8. /\ todo = {} /\ at.win = here
      /\ vy[here] <= at.y /\ at.y < at.y2 /\ at.y2 <= vy[here] + Height
      /\ Kept(vy[here], at.y, at.y2 - 1)
  BY <1>1, <1>7 DEF LoneInv, LoneLoop, InLoop
<1>9. PICK v \in Nat, y \in Nat, y2 \in Nat : v = vy[here] /\ y = at.y /\ y2 = at.y2
  BY <1>2
<1>10. Kept(v, y, y2 - 1)'
  <2>1. Kept(v, y, y2 - 1)
    BY <1>8, <1>9
  <2> QED
    BY <1>1, <2>1, KeptStays
<1>11. ASSUME pc' = "hole", v < y PROVE at'.idx + 1 = y
  <2>1. PICK h : h = at'.idx + 1 /\ h \in Holes
    BY <1>5, <1>11
  <2>2. h \in Nat /\ h <= y /\ ~Valid(h) /\ h < lss.count
    BY <1>2, <1>4, <1>9, <2>1 DEF Holes
  <2>3. ASSUME h < y PROVE FALSE
    <3>1. h \in 0..v + Height - 1 /\ h < nl
      BY <1>2, <1>8, <1>9, <2>2, <2>3
    <3>2. EntriesFit(v, y, y2 - 1)
      BY <1>1, <1>8, <1>9 DEF Kept
    <3> QED
      BY <1>11, <2>2, <2>3, <3>1, <3>2 DEF EntriesFit
  <2> QED
    BY <2>1, <2>2, <2>3
<1>12. vy'[here'] = v /\ at'.y = y /\ at'.y2 = y2 /\ at'.win = here' /\ todo' = {}
  BY <1>1, <1>5, <1>8, <1>9
<1>13. v <= y /\ y < y2 /\ y <= y2 /\ y2 <= v + Height
  BY <1>8, <1>9
<1> QED
  BY <1>10, <1>11, <1>12, <1>13 DEF LoneLoop

LEMMA FillLone ==
  ASSUME HInv, LoneInv, FillHole PROVE LoneInv'
<1>1. PICK i : i = at.idx + 1
  OBVIOUS
<1>2. PICK st : st = After(line[at.bi], lss.ptr[at.idx].st)
  OBVIOUS
<1>3. /\ pc = "hole" /\ syntax # NoSyntax
      /\ lss' = IF lss.ptr[i].st # st /\ i = at.last THEN Mark(Set(lss, i, st), i + 1)
                ELSE Set(lss, i, st)
      /\ at' = [at EXCEPT !.idx = i, !.bi = EatLine(@)]
      /\ pc' = IF lss.ptr[i] = Entry(st) \/ i = at.last THEN "scan" ELSE "hole"
      /\ UNCHANGED <<line, nl, syntax, range, shown, here, cy, vy, old, all, batch, todo, drawn>>
  BY <1>1, <1>2 DEF FillHole, HInv, LoopTypes, textVars, viewVars
<1>4. /\ nl \in Nat /\ nl <= MaxLines /\ lss.count \in Nat /\ Height \in Nat /\ MaxLines \in Nat
      /\ at \in Loops /\ at.y \in Nat /\ at.y <= nl /\ at.y2 \in Nat
      /\ at.idx \in 0..MaxLines /\ at.last \in -1..MaxLines
      /\ vy[here] \in Nat /\ CacheTypes(lss) /\ lss.count <= nl + 1
  <2>1. pc \in {"scan", "hole", "add", "draw"}
    BY <1>3
  <2>2. /\ nl \in Nat /\ nl <= MaxLines /\ at \in Loops /\ at.y \in Nat /\ at.y <= nl
        /\ at.y2 \in 0..LongMax /\ at.idx \in 0..MaxLines /\ at.last \in -1..MaxLines
        /\ MaxLines \in Nat /\ LongMax \in Nat /\ lss.count \in Nat /\ CacheTypes(lss)
        /\ syntax # NoSyntax => lss.count <= nl + 1
    BY <2>1, LoopFacts
  <2>3. Height \in Nat /\ vy[here] \in 0..MaxLines
    BY LoneFacts
  <2> QED
    BY <1>3, <2>2, <2>3
<1>5. /\ at.last = Least(at.y, lss.count - 1) /\ at.bi = at.idx /\ at.idx < at.last
  BY <1>3 DEF HInv, LoopFits
<1>6. i \in 0..lss.count /\ i <= MaxLines /\ i <= at.last /\ i <= at.y /\ at.last <= at.y
  BY <1>1, <1>4, <1>5 DEF Least
<1>7. st \in States
  <2>1. at.idx \in 0..nl - 1 /\ at.idx < lss.count
    BY <1>4, <1>5 DEF Least
  <2> QED
    BY <1>2, <1>3, <1>5, <2>1, AfterState
<1>8. Touched(lss, i, lss')
  <2>1. Touched(lss, i, Set(lss, i, st)) /\ Touched(lss, i, Mark(Set(lss, i, st), i + 1))
    BY <1>4, <1>6, <1>7, TouchedBySet
  <2>2. lss' = Mark(Set(lss, i, st), i + 1) \/ lss' = Set(lss, i, st)
    BY <1>3
  <2> QED
    BY <2>1, <2>2
<1>9. at'.win = at.win /\ at'.y = at.y /\ at'.y2 = at.y2 /\ at'.idx = i /\ pc' \in {"scan", "hole"}
      /\ (pc' = "hole" => i # at.last)
  BY <1>3, <1>4 DEF Loops
<1>10. ~Shown' /\ LoneIdle' /\ LoneStart'
  BY <1>9 DEF Shown, LoneIdle, LoneStart
<1>11. SUFFICES ASSUME shown = {here} PROVE LoneLoop'
  BY <1>3, <1>10 DEF LoneInv, AtShown
<1>12. /\ todo = {} /\ at.win = here
       /\ vy[here] <= at.y /\ at.y < at.y2 /\ at.y2 <= vy[here] + Height
       /\ vy[here] < at.y => i = at.y
       /\ Kept(vy[here], at.y, at.y2 - 1)
  BY <1>1, <1>3, <1>11 DEF LoneInv, LoneLoop, InLoop
<1>13. PICK v \in Nat, y \in Nat, hi \in Int : v = vy[here] /\ y = at.y /\ hi = at.y2 - 1
  BY <1>4
<1>14. y <= hi /\ hi < v + Height /\ i <= y
  BY <1>4, <1>6, <1>12, <1>13
<1>15. Kept(v, y, hi)'
  <2>1. Kept(v, y, hi)
    BY <1>12, <1>13
  <2>2. v < y => i = y \/ i = lss.count
    BY <1>12, <1>13
  <2>3. i \in 0..lss.count /\ i <= y
    BY <1>6, <1>14
  <2>4. nl \in Nat /\ Height \in Nat /\ lss.count \in Nat
    BY <1>4
  <2>5. syntax # NoSyntax /\ UNCHANGED <<line, nl, syntax, here, drawn>>
    BY <1>3
  <2>6. y \in Int
    OBVIOUS
  <2> QED
    BY <1>8, <1>14, <2>1, <2>2, <2>3, <2>4, <2>5, <2>6, ComputedKeeps
<1>16. v < y => pc' # "hole"
  <2>1. v < y => i = at.last
    BY <1>4, <1>6, <1>12, <1>13
  <2> QED
    BY <1>9, <2>1
<1>17. vy'[here'] = v /\ at'.y = y /\ at'.y2 - 1 = hi /\ at'.y2 = at.y2 /\ at'.win = here' /\ todo' = {}
  BY <1>3, <1>9, <1>12, <1>13
<1>18. v <= y /\ y < at.y2 /\ y <= at.y2 /\ at.y2 <= v + Height
  BY <1>4, <1>12, <1>13
<1> QED
  BY <1>15, <1>16, <1>17, <1>18 DEF LoneLoop

LEMMA AddLone ==
  ASSUME HInv, LoneInv, AddState PROVE LoneInv'
<1>1. /\ pc = "add" /\ syntax # NoSyntax
      /\ UNCHANGED <<line, nl, syntax, range, shown, here, cy, vy, old, all, batch, todo, drawn>>
  BY DEF AddState, HInv, LoopTypes, textVars, viewVars
<1>2. /\ nl \in Nat /\ nl <= MaxLines /\ lss.count \in Nat /\ Height \in Nat /\ MaxLines \in Nat
      /\ at \in Loops /\ at.y \in Nat /\ at.y <= nl /\ at.y2 \in Nat
      /\ vy[here] \in Nat /\ CacheTypes(lss) /\ lss.count <= nl + 1 /\ lss.count >= 1
  <2>1. pc \in {"scan", "hole", "add", "draw"}
    BY <1>1
  <2>2. /\ nl \in Nat /\ nl <= MaxLines /\ at \in Loops /\ at.y \in Nat /\ at.y <= nl
        /\ at.y2 \in 0..LongMax
        /\ MaxLines \in Nat /\ LongMax \in Nat /\ lss.count \in Nat /\ CacheTypes(lss)
        /\ syntax # NoSyntax => lss.count <= nl + 1 /\ lss.count >= 1
    BY <2>1, LoopFacts
  <2>3. Height \in Nat /\ vy[here] \in 0..MaxLines
    BY LoneFacts
  <2> QED
    BY <1>1, <2>2, <2>3
<1>3. at.bi = lss.count - 1
  BY <1>1 DEF HInv, LoopFits
<1>4. /\ pc' \in {"add", "draw"} /\ at'.win = at.win /\ at'.y = at.y /\ at'.y2 = at.y2
  <2>1. CASE lss.count - 1 < at.y
    <3>1. at' = [at EXCEPT !.bi = EatLine(@)] /\ pc' = pc
      BY <2>1 DEF AddState
    <3> QED
      BY <1>1, <1>2, <3>1 DEF Loops
  <2>2. CASE ~(lss.count - 1 < at.y)
    BY <2>2 DEF AddState
  <2> QED
    BY <2>1, <2>2
<1>5. ~Shown' /\ LoneIdle' /\ LoneStart'
  BY <1>4 DEF Shown, LoneIdle, LoneStart
<1>6. SUFFICES ASSUME shown = {here} PROVE LoneLoop'
  BY <1>1, <1>5 DEF LoneInv, AtShown
<1>7. /\ todo = {} /\ at.win = here
      /\ vy[here] <= at.y /\ at.y < at.y2 /\ at.y2 <= vy[here] + Height
      /\ Kept(vy[here], at.y, at.y2 - 1)
  BY <1>1, <1>6 DEF LoneInv, LoneLoop, InLoop
<1>8. PICK v \in Nat, y \in Nat, hi \in Int : v = vy[here] /\ y = at.y /\ hi = at.y2 - 1
  BY <1>2
<1>9. Kept(v, y, hi)'
  <2>1. CASE lss.count - 1 < at.y
    <3>1. PICK st : st = After(line[at.bi], lss.ptr[lss.count - 1].st)
      OBVIOUS
    <3>2. lss' = Set(lss, lss.count, st)
      BY <2>1, <3>1 DEF AddState
    <3>3. PICK j \in Nat : j = lss.count - 1
      BY <1>2
    <3>4. j \in 0..nl - 1 /\ j < lss.count
      BY <1>2, <2>1, <3>3
    <3>5. st \in States
      BY <1>1, <1>3, <3>1, <3>3, <3>4, AfterState
    <3>6. PICK i \in Nat : i = lss.count
      BY <1>2
    <3>7. i \in 0..lss.count /\ i <= MaxLines /\ i <= y
      BY <1>2, <1>8, <2>1, <3>6
    <3>8. Touched(lss, i, lss')
      BY <1>2, <3>2, <3>5, <3>6, <3>7, TouchedBySet
    <3>9. y <= hi /\ hi < v + Height /\ Kept(v, y, hi)
      BY <1>2, <1>7, <1>8
    <3>10. v < y => i = y \/ i = lss.count
      BY <3>6
    <3>11. nl \in Nat /\ Height \in Nat /\ lss.count \in Nat /\ y \in Int
      BY <1>2
    <3>12. syntax # NoSyntax /\ UNCHANGED <<line, nl, syntax, here, drawn>>
      BY <1>1
    <3> QED
      BY <3>7, <3>8, <3>9, <3>10, <3>11, <3>12, ComputedKeeps
  <2>2. CASE ~(lss.count - 1 < at.y)
    <3>1. lss' = lss
      BY <2>2 DEF AddState
    <3>2. Kept(v, y, hi)
      BY <1>7, <1>8
    <3> QED
      BY <1>1, <3>1, <3>2, KeptStays
  <2> QED
    BY <2>1, <2>2
<1>10. vy'[here'] = v /\ at'.y = y /\ at'.y2 - 1 = hi /\ at'.y2 = at.y2 /\ at'.win = here' /\ todo' = {}
  BY <1>1, <1>4, <1>7, <1>8
<1>11. v <= y /\ y < at.y2 /\ y <= at.y2 /\ at.y2 <= v + Height /\ pc' # "hole"
  BY <1>2, <1>4, <1>7, <1>8
<1> QED
  BY <1>9, <1>10, <1>11 DEF LoneLoop

\* A line was drawn: the rows show it, its successor was set, and unless that
\* turned out as before, the next line is to be drawn too, if it is on screen.
RowDrawn(v, y, q) ==
  \A r \in 0..Height - 1 :
    drawn'[here][r] = IF v + r = y THEN Row(y, q) ELSE drawn[here][r]

LEMMA PlainLineKept ==
  ASSUME nl \in Nat, Height \in Nat, NEW v \in Nat, NEW y \in Nat, NEW hi \in Int,
         Kept(v, y, hi), y < nl, syntax = NoSyntax, RowDrawn(v, y, NoSyntax),
         UNCHANGED <<line, nl, syntax, lss, here>>
  PROVE  Kept(v, y + 1, hi)'
<1>1. ASSUME NEW r \in 0..Height - 1, v + r < y + 1 \/ v + r > hi
      PROVE  Fits(drawn[here][r], v + r)'
  <2>1. PICK z \in Nat : z = v + r
    OBVIOUS
  <2>2. CASE z = y
    <3>1. drawn'[here][r] = Row(y, NoSyntax)
      BY <2>1, <2>2 DEF RowDrawn
    <3>2. ~(z >= nl)
      BY <2>2
    <3> QED
      BY <2>1, <2>2, <3>1, <3>2 DEF Fits, Row
  <2>3. CASE z # y
    <3>1. drawn'[here][r] = drawn[here][r]
      BY <2>1, <2>3 DEF RowDrawn
    <3>2. v + r < y \/ v + r > hi
      BY <1>1, <2>1, <2>3
    <3>3. Fits(drawn[here][r], z)
      BY <2>1, <3>2 DEF Kept, RowsFit
    <3> QED
      BY <2>1, <3>1, <3>3 DEF Fits, Row
  <2> QED
    BY <2>2, <2>3
<1> QED
  BY <1>1 DEF Kept, RowsFit

LEMMA DrawnLineKept ==
  ASSUME nl \in Nat, Height \in Nat, lss.count \in Nat, NEW v \in Nat, NEW y \in Nat,
         NEW hi \in Int, NEW hi2 \in Int, Kept(v, y, hi), v <= y, y <= hi, hi < v + Height,
         y < nl, y < lss.count, ValidTo(lss, y), syntax # NoSyntax,
         RowDrawn(v, y, lss.ptr[y].st), NEW i \in Nat, i = y + 1, Touched(lss, i, lss'),
         \/ hi2 = hi + 1
         \/ hi2 = hi /\ (y < hi \/ hi + 1 = v + Height)
         \/ /\ hi2 = hi /\ i < lss.count /\ lss'.ptr[i].st = lss.ptr[i].st
            /\ Unmarked(lss, i, lss'),
         UNCHANGED <<line, nl, syntax, here>>
  PROVE  Kept(v, y + 1, hi2)'
<1>1. EntriesFit(v, y, hi) /\ RowsFit(v, y, hi)
  BY DEF Kept
<1>2. i = y + 1
  OBVIOUS
<1>3. lss'.count = IF i = lss.count THEN i + 1 ELSE lss.count
  BY DEF Touched
<1>4. lss'.count \in Nat /\ lss.count <= lss'.count /\ hi <= hi2
  BY <1>2, <1>3
<1>5. ASSUME NEW k \in Nat, k < lss.count, k # i
      PROVE  /\ lss'.ptr[k].st = lss.ptr[k].st
             /\ k # i + 1 \/ Unmarked(lss, i, lss') => lss'.ptr[k] = lss.ptr[k]
  BY <1>5 DEF Touched, Unmarked
<1>6. ASSUME NEW z \in Nat, z > hi2, z < v + Height, z = i
      PROVE  z < lss.count /\ lss'.ptr[z].st = lss.ptr[z].st
  <2>1. hi2 = hi /\ y = hi /\ ~(hi + 1 = v + Height)
    BY <1>2, <1>4, <1>6
  <2> QED
    BY <1>2, <1>6, <2>1
<1>7. ASSUME NEW r \in 0..Height - 1, v + r < y + 1 \/ v + r > hi2
      PROVE  Fits(drawn[here][r], v + r)'
  <2>1. PICK z \in Nat : z = v + r /\ z < v + Height
    OBVIOUS
  <2>2. CASE z = y
    <3>1. drawn'[here][r] = Row(y, lss.ptr[y].st)
      BY <2>1, <2>2 DEF RowDrawn
    <3>2. ~(z >= nl) /\ y # i
      BY <1>2, <2>2
    <3>3. lss'.ptr[y].st = lss.ptr[y].st
      BY <1>5, <3>2
    <3> QED
      BY <2>1, <2>2, <3>1, <3>2, <3>3 DEF Fits, Row
  <2>3. CASE z # y
    <3>1. drawn'[here][r] = drawn[here][r]
      BY <2>1, <2>3 DEF RowDrawn
    <3>2. v + r < y \/ v + r > hi
      BY <1>4, <1>7, <2>1, <2>3
    <3>3. Fits(drawn[here][r], z)
      BY <1>1, <2>1, <3>2 DEF RowsFit
    <3>4. ASSUME z < nl, z < lss'.count
          PROVE  z < lss.count /\ lss'.ptr[z].st = lss.ptr[z].st
      <4>1. CASE z < y
        <5>1. z < lss.count /\ z # i
          BY <1>2, <4>1
        <5> QED
          BY <1>5, <5>1
      <4>2. CASE ~(z < y)
        <5>1. z > hi2
          BY <1>7, <2>1, <2>3, <4>2
        <5>2. CASE z = i
          BY <1>6, <2>1, <5>1, <5>2
        <5>3. CASE z # i
          <6>1. z < lss.count
            BY <1>3, <3>4, <5>1, <5>3, <1>2, <2>3, <4>2
          <6> QED
            BY <1>5, <5>3, <6>1
        <5> QED
          BY <5>2, <5>3
      <4> QED
        BY <4>1, <4>2
    <3>5. z >= nl \/ z < nl
      OBVIOUS
    <3> QED
      BY <2>1, <3>1, <3>3, <3>4, <3>5 DEF Fits, Row
  <2> QED
    BY <2>2, <2>3
<1>8. ASSUME NEW k \in 0..v + Height - 1, k < y + 1, k < nl
      PROVE  k < lss'.count /\ lss'.ptr[k].ok
  <2>1. k \in 0..y /\ k \in Nat /\ k < lss.count /\ k # i /\ k # i + 1
    BY <1>2, <1>8
  <2>2. lss.ptr[k].ok
    BY <2>1 DEF ValidTo
  <2> QED
    BY <1>4, <1>5, <2>1, <2>2
<1>9. ASSUME NEW k \in 0..v + Height - 1, hi2 + 1 < k, k < nl, k < lss'.count
      PROVE  lss'.ptr[k].ok
  <2>1. k \in Nat /\ k # i /\ hi + 1 < k /\ k < v + Height
    BY <1>2, <1>4, <1>9
  <2>2. k < lss.count
    BY <1>2, <1>3, <1>9, <2>1
  <2>3. lss.ptr[k].ok
    BY <1>1, <1>9, <2>1, <2>2 DEF EntriesFit, Valid
  <2>4. k = i + 1 => hi2 = hi /\ y = hi /\ ~(hi + 1 = v + Height)
    BY <1>2, <1>4, <1>9, <2>1
  <2>5. k # i + 1 \/ Unmarked(lss, i, lss')
    BY <1>2, <2>4
  <2> QED
    BY <1>5, <2>1, <2>2, <2>3, <2>5
<1>10. lss'.count <= hi2 + 1 \/ lss'.count >= nl \/ lss'.count >= v + Height
  <2>1. lss.count <= hi + 1 \/ lss.count >= nl \/ lss.count >= v + Height
    BY <1>1 DEF EntriesFit
  <2>2. CASE i # lss.count
    BY <1>3, <1>4, <2>1, <2>2
  <2>3. CASE i = lss.count
    <3>1. lss'.count = y + 2
      BY <1>2, <1>3, <2>3
    <3>2. hi2 = hi + 1 \/ y < hi \/ hi + 1 = v + Height
      BY <1>2, <2>3
    <3> QED
      BY <1>4, <3>1, <3>2
  <2> QED
    BY <2>2, <2>3
<1>11. RowsFit(v, y + 1, hi2)'
  BY <1>7 DEF RowsFit
<1>12. EntriesFit(v, y + 1, hi2)'
  BY <1>8, <1>9, <1>10 DEF EntriesFit, Valid
<1> QED
  BY <1>11, <1>12 DEF Kept

LEMMA DrawLone ==
  ASSUME HInv, LoneInv, DrawLine PROVE LoneInv'
<1>1. PICK y : y = at.y
  OBVIOUS
<1>2. PICK w : w = at.win
  OBVIOUS
<1>3. PICK st : st = After(line[y], lss.ptr[y].st)
  OBVIOUS
<1>4. PICK more \in BOOLEAN :
        more <=> /\ syntax # NoSyntax
                 /\ NextChanged(y, st) /\ y + 1 = at.y2 /\ at.y2 < vy[w] + Height
  OBVIOUS
<1>5. /\ pc = "draw" /\ pc' = "draw" /\ y < nl /\ y < at.y2
      /\ IF syntax = NoSyntax
         THEN /\ drawn' = [drawn EXCEPT ![w][y - vy[w]] = Row(y, NoSyntax)]
              /\ lss' = lss
         ELSE /\ drawn' = [drawn EXCEPT ![w][y - vy[w]] = Row(y, lss.ptr[y].st)]
              /\ lss' = HlLine(y, st)
      /\ UNCHANGED <<line, nl, syntax, range, shown, here, cy, vy, old, all, batch, todo>>
  BY <1>1, <1>2, <1>3, Zenon DEF DrawLine, textVars, viewVars
<1>6. at' = [at EXCEPT !.y = @ + 1, !.y2 = IF more THEN @ + 1 ELSE @]
  BY <1>1, <1>2, <1>3, <1>4 DEF DrawLine
<1>7. /\ nl \in Nat /\ nl <= MaxLines /\ MaxLines \in Nat /\ Height \in Nat
      /\ at \in Loops /\ y \in Nat /\ at.y2 \in Nat /\ lss.count \in Nat /\ CacheTypes(lss)
      /\ drawn \in [Windows -> [0..Height - 1 -> Rows]] /\ here \in Windows /\ vy[here] \in Nat
  <2>1. pc \in {"scan", "hole", "add", "draw"}
    BY <1>5
  <2>2. /\ nl \in Nat /\ nl <= MaxLines /\ at \in Loops /\ at.y \in Nat
        /\ at.y2 \in 0..LongMax
        /\ MaxLines \in Nat /\ LongMax \in Nat /\ lss.count \in Nat /\ CacheTypes(lss)
    BY <2>1, LoopFacts
  <2>3. /\ Height \in Nat /\ vy[here] \in 0..MaxLines /\ here \in Windows
        /\ drawn \in [Windows -> [0..Height - 1 -> Rows]]
    BY LoneFacts
  <2> QED
    BY <1>1, <2>2, <2>3
<1>8. PICK y2 \in Nat : y2 = at.y2
  BY <1>7
<1>9. at'.win = w /\ at'.y = y + 1 /\ at'.y2 = IF more THEN y2 + 1 ELSE y2
  BY <1>1, <1>2, <1>6, <1>7, <1>8 DEF Loops
<1>10. ~Shown' /\ LoneIdle' /\ LoneStart'
  BY <1>5 DEF Shown, LoneIdle, LoneStart
<1>11. SUFFICES ASSUME shown = {here} PROVE LoneLoop'
  BY <1>5, <1>10 DEF LoneInv, AtShown
<1>12. /\ todo = {} /\ at.win = here
       /\ vy[here] <= at.y /\ at.y <= at.y2 /\ at.y2 <= vy[here] + Height
       /\ Kept(vy[here], at.y, at.y2 - 1)
  BY <1>5, <1>11 DEF LoneInv, LoneLoop, InLoop
<1>13. PICK v \in Nat : v = vy[here]
  BY <1>7
<1>14. PICK hi \in Int : hi = y2 - 1
  BY <1>8
<1>15. PICK hi2 \in Int : hi2 = at'.y2 - 1 /\ hi2 = IF more THEN hi + 1 ELSE hi
  BY <1>9, <1>14
<1>16. Kept(v, y, hi) /\ v <= y /\ y <= hi /\ hi < v + Height /\ w = here
  <2>1. w = here /\ v <= y /\ y < y2 /\ y2 <= v + Height
    BY <1>1, <1>2, <1>5, <1>8, <1>12, <1>13
  <2>2. Kept(v, y, hi)
    BY <1>1, <1>8, <1>12, <1>13, <1>14
  <2> QED
    BY <1>7, <1>14, <2>1, <2>2
<1>17. ASSUME NEW q, drawn' = [drawn EXCEPT ![w][y - vy[w]] = Row(y, q)] PROVE RowDrawn(v, y, q)
  <2>1. PICK row, j : row = Row(y, q) /\ j = y - v
    OBVIOUS
  <2>2. drawn' = [drawn EXCEPT ![w] = [drawn[w] EXCEPT ![j] = row]]
    BY <1>7, <1>13, <1>16, <1>17, <2>1
  <2>3. drawn'[here] = [drawn[here] EXCEPT ![j] = row] /\ here' = here
    BY <1>5, <1>7, <1>16, <2>2
  <2>4. ASSUME NEW r \in 0..Height - 1
        PROVE  drawn'[here][r] = IF v + r = y THEN row ELSE drawn[here][r]
    <3>1. v + r = y <=> r = j
      BY <1>7, <2>1
    <3>2. drawn[here] \in [0..Height - 1 -> Rows]
      BY <1>7
    <3> QED
      BY <2>3, <3>1, <3>2
  <2> QED
    BY <2>1, <2>4 DEF RowDrawn
<1>18. Kept(v, y + 1, hi2)'
  <2>1. CASE syntax = NoSyntax
    <3>1. ~more /\ hi2 = hi
      BY <1>4, <1>15, <2>1
    <3>2. RowDrawn(v, y, NoSyntax)
      BY <1>5, <1>17, <2>1
    <3>3. UNCHANGED <<line, nl, syntax, lss, here>>
      BY <1>5, <2>1
    <3> QED
      BY <1>5, <1>7, <1>16, <2>1, <3>1, <3>2, <3>3, PlainLineKept
  <2>2. CASE syntax # NoSyntax
    <3>1. RowDrawn(v, y, lss.ptr[y].st) /\ lss' = HlLine(y, st)
      BY <1>5, <1>17, <2>2
    <3>2. y < lss.count /\ ValidTo(lss, y)
      BY <1>1, <1>5, <2>2 DEF HInv, LoopFits
    <3>3. y \in 0..nl - 1
      BY <1>5, <1>7
    <3>4. st \in States
      BY <1>3, <2>2, <3>2, <3>3, AfterState
    <3>5. PICK i \in Nat : i = y + 1
      BY <1>7
    <3>6. i \in 0..lss.count /\ i <= MaxLines
      BY <1>5, <1>7, <3>2, <3>5
    <3>7. /\ Touched(lss, i, Set(lss, i, st)) /\ Unmarked(lss, i, Set(lss, i, st))
          /\ Set(lss, i, st).ptr[i] = Entry(st)
          /\ Touched(lss, i, Mark(Set(lss, i, st), i + 1))
      BY <1>7, <3>4, <3>6, TouchedBySet
    <3>8. \/ lss' = Set(lss, i, st)
          \/ lss' = Mark(Set(lss, i, st), i + 1) /\ i < lss.count /\ lss.ptr[i].st # st
      <4>1. i + 1 = y + 2
        BY <1>7, <3>5
      <4> QED
        BY <3>1, <3>5, <4>1 DEF HlLine
    <3>9. Touched(lss, i, lss')
      BY <3>7, <3>8
    <3>10. CASE ~NextChanged(y, st)
      <4>1. i # lss.count /\ lss.ptr[i].st = st
        BY <3>5, <3>10 DEF NextChanged
      <4>2. lss' = Set(lss, i, st)
        BY <3>8, <4>1
      <4>3. lss'.ptr[i].st = st /\ Unmarked(lss, i, lss')
        <5>1. lss'.ptr[i] = Entry(st)
          BY <3>7, <4>2
        <5> QED
          BY <3>7, <4>2, <5>1 DEF Entry
      <4>4. i < lss.count /\ lss'.ptr[i].st = lss.ptr[i].st
        BY <1>7, <3>6, <4>1, <4>3
      <4>5. hi2 = hi
        BY <1>4, <1>15, <3>10
      <4>6. UNCHANGED <<line, nl, syntax, here>>
        BY <1>5
      <4> QED
        BY <1>5, <1>7, <1>16, <2>2, <3>1, <3>2, <3>5, <3>9, <4>3, <4>4, <4>5, <4>6, DrawnLineKept
    <3>11. CASE NextChanged(y, st)
      <4>1. more <=> y = hi /\ hi + 1 < v + Height
        <5>1. more <=> y + 1 = y2 /\ y2 < v + Height
          BY <1>4, <1>8, <1>13, <1>16, <2>2, <3>11
        <5> QED
          BY <1>7, <1>14, <5>1
      <4>2. hi2 = hi + 1 \/ (hi2 = hi /\ (y < hi \/ hi + 1 = v + Height))
        <5>1. CASE more
          BY <1>15, <5>1
        <5>2. CASE ~more
          <6>1. y < hi \/ hi + 1 = v + Height
            BY <1>7, <1>16, <4>1, <5>2
          <6> QED
            BY <1>15, <5>2, <6>1
        <5> QED
          BY <5>1, <5>2
      <4>3. UNCHANGED <<line, nl, syntax, here>>
        BY <1>5
      <4> QED
        BY <1>5, <1>7, <1>16, <2>2, <3>1, <3>2, <3>5, <3>9, <4>2, <4>3, DrawnLineKept
    <3> QED
      BY <3>10, <3>11
  <2> QED
    BY <2>1, <2>2
<1>19. /\ vy'[here'] = v /\ at'.y = y + 1 /\ at'.win = here' /\ todo' = {} /\ here' = here
       /\ pc' = "draw"
  BY <1>5, <1>9, <1>12, <1>13, <1>16
<1>20. v <= y + 1 /\ y + 1 <= at'.y2 /\ at'.y2 <= v + Height
  <2>1. more => y2 < v + Height
    BY <1>4, <1>8, <1>13, <1>16
  <2> QED
    BY <1>5, <1>7, <1>8, <1>9, <1>12, <1>13, <1>16, <2>1
<1> QED
  BY <1>15, <1>18, <1>19, <1>20 DEF LoneLoop

LEMMA FinishLone ==
  ASSUME HInv, LoneInv, FinishWindow PROVE LoneInv'
<1>1. PICK w : w = at.win
  OBVIOUS
<1>2. /\ pc = "draw" /\ at' = NoLoop /\ ~(at.y < nl /\ at.y < at.y2)
      /\ drawn' = [drawn EXCEPT ![w] = [r \in 0..Height - 1 |->
           IF at.y <= r + vy[w] /\ r + vy[w] < at.y2 THEN Nothing ELSE @[r]]]
      /\ \/ /\ todo # {} /\ pc' = "window" /\ UNCHANGED <<range, all, batch, old>>
         \/ /\ todo = {} /\ pc' = "idle"
            /\ range' = NoRange /\ all' = FALSE /\ batch' = 0
            /\ old' = [cy |-> cy[here], vy |-> vy[here]]
      /\ UNCHANGED <<line, nl, syntax, lss, shown, here, cy, vy, todo>>
  BY <1>1 DEF FinishWindow, textVars, viewVars
<1>3. /\ nl \in Nat /\ nl <= MaxLines /\ MaxLines \in Nat /\ Height \in Nat
      /\ at.y \in Nat /\ at.y2 \in Nat /\ lss.count \in Nat
      /\ drawn \in [Windows -> [0..Height - 1 -> Rows]] /\ here \in Windows /\ vy[here] \in Nat
      /\ LongMax = MaxLines + Height /\ vy[here] <= MaxLines
  <2>1. pc \in {"scan", "hole", "add", "draw"}
    BY <1>2
  <2>2. /\ nl \in Nat /\ nl <= MaxLines /\ at.y \in Nat /\ at.y2 \in 0..LongMax
        /\ MaxLines \in Nat /\ LongMax \in Nat /\ lss.count \in Nat
    BY <2>1, LoopFacts
  <2>3. /\ Height \in Nat /\ vy[here] \in 0..MaxLines /\ here \in Windows
        /\ drawn \in [Windows -> [0..Height - 1 -> Rows]] /\ LongMax = MaxLines + Height
    BY LoneFacts
  <2> QED
    BY <2>2, <2>3
<1>4. AtShown'
  <2>1. ASSUME Shown' PROVE range' = NoRange /\ ~all' /\ old'.vy = vy'[here']
    <3>1. pc' = "idle"
      BY <2>1 DEF Shown
    <3>2. range' = NoRange /\ all' = FALSE /\ old' = [cy |-> cy[here], vy |-> vy[here]]
      BY <1>2, <3>1
    <3> QED
      BY <1>2, <3>2
  <2> QED
    BY <2>1 DEF AtShown
<1>5. SUFFICES ASSUME shown = {here} PROVE LoneIdle' /\ LoneStart' /\ LoneLoop'
  BY <1>2, <1>4 DEF LoneInv
<1>6. /\ todo = {} /\ at.win = here
      /\ vy[here] <= at.y /\ at.y <= at.y2 /\ at.y2 <= vy[here] + Height
      /\ Kept(vy[here], at.y, at.y2 - 1)
  BY <1>2, <1>5 DEF LoneInv, LoneLoop, InLoop
<1>7. pc' = "idle" /\ range' = NoRange /\ all' = FALSE /\ old' = [cy |-> cy[here], vy |-> vy[here]]
  BY <1>2, <1>6
<1>8. LoneStart' /\ LoneLoop'
  BY <1>7 DEF LoneStart, LoneLoop, InLoop
<1>9. PICK v \in Nat, y \in Nat, y2 \in Nat : v = vy[here] /\ y = at.y /\ y2 = at.y2
  BY <1>3
<1>10. PICK hi \in Int : hi = y2 - 1
  OBVIOUS
<1>11. RowsFit(v, y, hi) /\ v <= y /\ y <= y2 /\ y2 <= v + Height /\ (y < nl => y = y2)
  <2>1. Kept(v, y, hi)
    BY <1>6, <1>9, <1>10
  <2> QED
    BY <1>2, <1>3, <1>6, <1>9, <2>1 DEF Kept
<1>12. ASSUME NEW r \in 0..Height - 1 PROVE Fits(drawn[here][r], v + r)'
  <2>1. PICK z \in Nat : z = v + r /\ z = r + v
    OBVIOUS
  <2>2. drawn'[here][r] = IF y <= z /\ z < y2 THEN Nothing ELSE drawn[here][r]
    <3>1. drawn' = [drawn EXCEPT ![here] = [q \in 0..Height - 1 |->
             IF y <= q + v /\ q + v < y2 THEN Nothing ELSE drawn[here][q]]]
      BY <1>1, <1>2, <1>3, <1>6, <1>9
    <3>2. drawn'[here] = [q \in 0..Height - 1 |->
             IF y <= q + v /\ q + v < y2 THEN Nothing ELSE drawn[here][q]]
      BY <1>3, <3>1
    <3> QED
      BY <2>1, <3>2
  <2>3. CASE y <= z /\ z < y2
    <3>1. z >= nl
      BY <1>3, <1>11, <2>3
    <3> QED
      BY <1>2, <2>1, <2>2, <2>3, <3>1 DEF Fits
  <2>4. CASE ~(y <= z /\ z < y2)
    <3>1. v + r < y \/ v + r > hi
      BY <1>10, <2>1, <2>4
    <3>2. Fits(drawn[here][r], z)
      BY <1>11, <2>1, <3>1 DEF RowsFit
    <3>3. drawn'[here][r] = drawn[here][r]
      BY <2>2, <2>4
    <3> QED
      BY <1>2, <2>1, <3>2, <3>3 DEF Fits, Row
  <2> QED
    BY <2>3, <2>4
<1>13. RowsFit(v, LongMax, -1)'
  BY <1>12 DEF RowsFit
<1>14. ASSUME syntax # NoSyntax PROVE EntriesFit(v, LongMax, -1)'
  <2>1. EntriesFit(v, y, hi)
    BY <1>6, <1>9, <1>10, <1>14 DEF Kept
  <2>2. y < lss.count /\ ValidTo(lss, y)
    BY <1>2, <1>9, <1>14 DEF HInv, LoopFits
  <2>3. lss.count <= hi + 1 \/ lss.count >= nl \/ lss.count >= v + Height
    BY <2>1 DEF EntriesFit
  <2>4. ASSUME NEW k \in 0..v + Height - 1, k < nl PROVE k < lss.count /\ lss.ptr[k].ok
    <3>1. CASE k <= y
      <4>1. k < lss.count /\ k \in 0..y
        BY <1>3, <2>2, <3>1
      <4> QED
        BY <2>2, <4>1 DEF ValidTo
    <3>2. CASE k > y
      <4>1. y = y2 /\ hi + 1 = y
        BY <1>3, <1>10, <1>11, <2>4, <3>2
      <4>2. k < lss.count /\ hi + 1 < k
        BY <1>3, <2>2, <2>3, <2>4, <3>2, <4>1
      <4> QED
        BY <2>1, <2>4, <4>2 DEF EntriesFit, Valid
    <3> QED
      BY <1>3, <3>1, <3>2
  <2>5. lss.count >= nl \/ lss.count >= v + Height
    <3>1. CASE y < nl
      <4>1. hi + 1 = y
        BY <1>10, <1>11, <3>1
      <4> QED
        BY <1>3, <2>2, <2>3, <4>1
    <3>2. CASE ~(y < nl)
      BY <1>3, <2>2, <3>2
    <3> QED
      BY <3>1, <3>2
  <2> QED
    BY <1>2, <2>4, <2>5 DEF EntriesFit, Valid
<1>15. Kept(v, LongMax, -1)'
  BY <1>2, <1>13, <1>14 DEF Kept
<1>16. old'.vy = v /\ range'.min = LongMax /\ range'.max = -1
  BY <1>7, <1>9 DEF NoRange
<1>17. LoneIdle'
  BY <1>15, <1>16 DEF LoneIdle
<1> QED
  BY <1>8, <1>17

-----------------------------------------------------------------------------
(* The rows after an update *)

LEMMA LoneInit == Init => LoneInv
BY DEF Init, LoneInv, AtShown, Shown, LoneIdle, LoneStart, LoneLoop, InLoop

LEMMA LoneNext == HInv /\ LoneInv /\ [Next]_vars => LoneInv'
<1> SUFFICES ASSUME HInv, LoneInv, [Next]_vars PROVE LoneInv'
  OBVIOUS
<1>1. CASE Edit
  BY <1>1, EditsLone
<1>2. CASE Show
  BY <1>2, ShowLone
<1>3. CASE Update
  BY <1>3, BeginLone, StartLone, ScanLone, FillLone, AddLone, DrawLone, FinishLone DEF Update
<1>4. CASE UNCHANGED vars
  <2>1. UNCHANGED <<line, nl, syntax, lss, range, shown, here, cy, vy, old, todo, at, drawn,
                    all, batch, pc>>
    BY <1>4 DEF vars, textVars, viewVars, updateVars
  <2>2. ASSUME NEW v, NEW lo, NEW hi, Kept(v, lo, hi) PROVE Kept(v, lo, hi)'
    BY <2>1, <2>2, KeptStays
  <2>3. AtShown'
    BY <2>1 DEF LoneInv, AtShown, Shown
  <2>4. ASSUME shown = {here} PROVE LoneIdle'
    <3>1. PICK v, lo, hi : v = old.vy /\ lo = range.min /\ hi = range.max
      OBVIOUS
    <3>2. pc = "idle" /\ ~all => Kept(v, lo, hi)
      BY <2>4, <3>1 DEF LoneInv, LoneIdle
    <3>3. pc = "idle" /\ ~all => Kept(v, lo, hi)'
      BY <2>2, <3>2
    <3>4. old'.vy = v /\ range'.min = lo /\ range'.max = hi /\ pc' = pc /\ all' = all
      BY <2>1, <3>1
    <3> QED
      BY <3>3, <3>4 DEF LoneIdle
  <2>5. ASSUME shown = {here} PROVE LoneStart'
    <3>1. PICK v, lo, hi : v = old.vy /\ lo = range.min /\ hi = range.max
      OBVIOUS
    <3>2. Kept(v, lo, hi) => Kept(v, lo, hi)'
      BY <2>2
    <3>3. old'.vy = v /\ range'.min = lo /\ range'.max = hi
      BY <2>1, <3>1
    <3>4. Kept(old.vy, range.min, range.max) => Kept(old.vy, range.min, range.max)'
      BY <3>1, <3>2, <3>3
    <3> QED
      BY <2>1, <2>5, <3>4 DEF LoneInv, LoneStart
  <2>6. ASSUME shown = {here} PROVE LoneLoop'
    <3>1. PICK v, lo, hi : v = vy[here] /\ lo = at.y /\ hi = at.y2 - 1
      OBVIOUS
    <3>2. Kept(v, lo, hi) => Kept(v, lo, hi)'
      BY <2>2
    <3>3. vy'[here'] = v /\ at'.y = lo /\ at'.y2 - 1 = hi
      BY <2>1, <3>1
    <3>4. Kept(vy[here], at.y, at.y2 - 1) => Kept(vy[here], at.y, at.y2 - 1)'
      BY <3>1, <3>2, <3>3
    <3> QED
      BY <2>1, <2>6, <3>4 DEF LoneInv, LoneLoop, InLoop
  <2> QED
    BY <2>1, <2>3, <2>4, <2>5, <2>6 DEF LoneInv
<1> QED
  BY <1>1, <1>2, <1>3, <1>4 DEF Next

LEMMA LoneIsRight == HInv /\ LoneInv => LoneWindowIsRight
<1> SUFFICES ASSUME HInv, LoneInv, Shown, shown = {here}, NEW r \in 0..Height - 1
             PROVE  drawn[here][r] = RightRow(vy[here] + r)
  BY DEF LoneWindowIsRight
<1>1. /\ nl \in Nat /\ Height \in Nat /\ Height >= 1 /\ MaxLines \in Nat /\ nl <= MaxLines
      /\ LongMax = MaxLines + Height /\ vy[here] \in 0..MaxLines /\ lss.count \in Nat
  BY LoneFacts
<1>2. PICK v \in Nat, z \in Nat : v = vy[here] /\ z = v + r /\ v <= MaxLines
  BY <1>1
<1>3. pc = "idle" /\ ~all /\ old.vy = v /\ range.min = LongMax /\ range.max = -1
  BY <1>2 DEF LoneInv, AtShown, Shown, NoRange
<1>4. Kept(v, LongMax, -1)
  BY <1>3 DEF LoneInv, LoneIdle
<1>5. Fits(drawn[here][r], z)
  <2>1. v + r > -1
    BY <1>1
  <2> QED
    BY <1>2, <1>4, <2>1 DEF Kept, RowsFit
<1>6. CASE z >= nl \/ syntax = NoSyntax
  BY <1>2, <1>5, <1>6 DEF Fits, RightRow
<1>7. CASE ~(z >= nl) /\ syntax # NoSyntax
  <2>1. EntriesFit(v, LongMax, -1)
    BY <1>4, <1>7 DEF Kept
  <2>2. ASSUME NEW k \in 0..z PROVE k < lss.count /\ lss.ptr[k].ok
    <3>1. v < LongMax /\ k \in 0..v + Height - 1 /\ k < LongMax /\ k < nl
      BY <1>1, <1>2, <1>7
    <3> QED
      BY <2>1, <3>1 DEF EntriesFit, Valid
  <2>3. z < lss.count /\ ValidTo(lss, z) /\ pc # "hole"
    BY <1>3, <2>2 DEF ValidTo
  <2>4. lss.ptr[z].st = TrueState[z]
    BY <1>7, <2>3, ValidIsTrue
  <2> QED
    BY <1>2, <1>5, <1>7, <2>3, <2>4 DEF Fits, RightRow
<1> QED
  BY <1>6, <1>7

\* After an update every row of the only window that shows the Buffer has its
\* line, highlighted from the state that the lines above it really lead to, for
\* every size of text and window: update_range draws enough, although it draws
\* only changed lines and goes on only as long as hl_line finds that a state
\* changed (src/ui-view.c, src/syntax/highlight.c).
THEOREM LoneWindowStaysRight == Spec => []LoneWindowIsRight
<1>1. Init => HInv /\ LoneInv
  BY InitFits, LoneInit
<1>2. HInv /\ LoneInv /\ [Next]_vars => HInv' /\ LoneInv'
  BY HNext, LoneNext
<1>3. HInv /\ LoneInv => LoneWindowIsRight
  BY LoneIsRight
<1> QED
  BY <1>1, <1>2, <1>3, PTL DEF Spec
=============================================================================
