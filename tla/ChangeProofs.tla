---------------------------- MODULE ChangeProofs ----------------------------
(***************************************************************************)
(* Proofs about the undo history of module Change, from the laws of Splice *)
(* and Slice that undo and redo rest on to the chains of Changes.          *)
(*                                                                         *)
(* The invariants of Change are not inductive: that undo restores a text   *)
(* depends on the Changes off the path to the root as well, on where those *)
(* on the path stand, and on what the next edit may merge into.  IInv adds *)
(* just that.                                                              *)
(***************************************************************************)
EXTENDS Change, FoldLemmas

-----------------------------------------------------------------------------
(* The laws of Splice and Slice.  Each of them is shown by cutting the     *)
(* text at the ends of the edit: Splice then exchanges one part of a       *)
(* concatenation for another.                                              *)

\* A slice of a text holds the bytes it is asked for.
LEMMA SliceIsText ==
  ASSUME NEW t \in Seq(Bytes), NEW off \in Nat, NEW n \in Nat,
         off + n <= Len(t)
  PROVE  /\ Slice(t, off, n) \in Seq(Bytes)
         /\ Len(Slice(t, off, n)) = n
         /\ \A i \in 1..n : Slice(t, off, n)[i] = t[off + i]
<1>1. CASE n = 0
  BY <1>1, SubSeqEmpty, EmptySeq DEF Slice
<1>2. CASE n > 0
  <2>1. off + 1 \in 1..Len(t) /\ off + n \in 1..Len(t)
    BY <1>2
  <2> QED
    BY <1>2, <2>1, SubSeqProperties DEF Slice
<1> QED BY <1>1, <1>2

\* A text cut into the parts before, inside and behind an edit.
Join(a, d, b) == a \o d \o b

LEMMA JoinIsText ==
  ASSUME NEW a \in Seq(Bytes), NEW d \in Seq(Bytes), NEW b \in Seq(Bytes)
  PROVE  /\ Join(a, d, b) \in Seq(Bytes)
         /\ Len(Join(a, d, b)) = Len(a) + Len(d) + Len(b)
BY ConcatProperties DEF Join

LEMMA BytesAssociative ==
  ASSUME NEW a \in Seq(Bytes), NEW d \in Seq(Bytes), NEW b \in Seq(Bytes)
  PROVE  a \o (d \o b) = (a \o d) \o b
BY ConcatAssociative

\* The edit may be widened or narrowed at either side.
LEMMA JoinAssociative ==
  ASSUME NEW a \in Seq(Bytes), NEW x \in Seq(Bytes), NEW y \in Seq(Bytes),
         NEW b \in Seq(Bytes)
  PROVE  /\ x \o y \in Seq(Bytes) /\ Len(x \o y) = Len(x) + Len(y)
         /\ a \o x \in Seq(Bytes) /\ Len(a \o x) = Len(a) + Len(x)
         /\ y \o b \in Seq(Bytes)
         /\ Join(a, x \o y, b) = Join(a \o x, y, b)
         /\ Join(a, x \o y, b) = Join(a, x, y \o b)
<1>1. /\ x \o y \in Seq(Bytes) /\ Len(x \o y) = Len(x) + Len(y)
      /\ a \o x \in Seq(Bytes) /\ Len(a \o x) = Len(a) + Len(x)
      /\ y \o b \in Seq(Bytes)
  BY ConcatProperties
<1>2. a \o (x \o y) = (a \o x) \o y
  BY BytesAssociative
<1>3. ((a \o x) \o y) \o b = (a \o x) \o (y \o b)
  BY <1>1, BytesAssociative
<1> QED BY <1>1, <1>2, <1>3 DEF Join

LEMMA JoinEmpty ==
  ASSUME NEW a \in Seq(Bytes), NEW d \in Seq(Bytes), NEW b \in Seq(Bytes)
  PROVE  /\ <<>> \in Seq(Bytes) /\ Len(<<>>) = 0
         /\ Join(a, d, b) = Join(a \o d, <<>>, b)
         /\ Join(a, d, b) = Join(a, <<>>, d \o b)
         /\ Join(<<>>, a, d \o b) = Join(a, d, b)
         /\ Join(a \o d, b, <<>>) = Join(a, d, b)
<1>1. <<>> \in Seq(Bytes) /\ Len(<<>>) = 0 /\ a \o d \in Seq(Bytes)
  BY EmptySeq, ConcatProperties
<1>2. (a \o d) \o b \in Seq(Bytes)
  BY <1>1, ConcatProperties
<1>3. (a \o d) \o <<>> = a \o d /\ a \o <<>> = a /\ <<>> \o a = a
  BY <1>1, ConcatEmptySeq
<1>4. ((a \o d) \o b) \o <<>> = (a \o d) \o b
  BY <1>2, ConcatEmptySeq
<1>5. a \o (d \o b) = (a \o d) \o b
  BY ConcatAssociative
<1> QED BY <1>1, <1>3, <1>4, <1>5 DEF Join

\* The part of a text that is cut out of it.
LEMMA SliceOfJoin ==
  ASSUME NEW a \in Seq(Bytes), NEW d \in Seq(Bytes), NEW b \in Seq(Bytes)
  PROVE  Slice(Join(a, d, b), Len(a), Len(d)) = d
<1> DEFINE t == Join(a, d, b)
           m == Slice(t, Len(a), Len(d))
<1>1. Len(a) \in Nat /\ Len(d) \in Nat /\ Len(b) \in Nat
  BY LenProperties
<1>2. /\ a \o d \in Seq(Bytes)
      /\ Len(a \o d) = Len(a) + Len(d)
      /\ \A i \in 1..Len(a) + Len(d) :
           (a \o d)[i] = IF i <= Len(a) THEN a[i] ELSE d[i - Len(a)]
  BY ConcatProperties
<1>3. /\ t \in Seq(Bytes)
      /\ Len(t) = Len(a) + Len(d) + Len(b)
      /\ \A i \in 1..Len(t) : i <= Len(a) + Len(d) => t[i] = (a \o d)[i]
  BY <1>1, <1>2, ConcatProperties DEF Join
<1> HIDE DEF t
<1>4. /\ m \in Seq(Bytes)
      /\ Len(m) = Len(d)
      /\ \A i \in 1..Len(d) : m[i] = t[Len(a) + i]
  <2>1. Len(a) + Len(d) <= Len(t)
    BY <1>1, <1>3
  <2>2. ASSUME NEW o \in Nat, NEW n \in Nat, o + n <= Len(t)
        PROVE  /\ Slice(t, o, n) \in Seq(Bytes)
               /\ Len(Slice(t, o, n)) = n
               /\ \A i \in 1..n : Slice(t, o, n)[i] = t[o + i]
    BY <2>2, <1>3, SliceIsText
  <2> QED BY <1>1, <2>1, <2>2, Zenon
<1> HIDE DEF m
<1>5. ASSUME NEW i \in 1..Len(m)
      PROVE  m[i] = d[i]
  <2>1. Len(a) + i \in 1..Len(a) + Len(d) /\ Len(a) + i \in 1..Len(t)
    BY <1>1, <1>3, <1>4
  <2>2. m[i] = (a \o d)[Len(a) + i]
    BY <2>1, <1>1, <1>3, <1>4
  <2>3. (a \o d)[Len(a) + i] = d[(Len(a) + i) - Len(a)]
    BY <2>1, <1>1, <1>2, <1>4
  <2>4. (Len(a) + i) - Len(a) = i
    BY <1>1
  <2> QED BY <2>2, <2>3, <2>4
<1>6. m = d
  BY <1>4, <1>5, SeqEqual
<1> QED BY <1>6 DEF m, t

\* Splice exchanges the part inside the edit.
LEMMA SpliceOfJoin ==
  ASSUME NEW a \in Seq(Bytes), NEW d \in Seq(Bytes), NEW b \in Seq(Bytes),
         NEW ins \in Seq(Bytes)
  PROVE  Splice(Join(a, d, b), Len(a), Len(d), ins) = Join(a, ins, b)
<1> DEFINE t == Join(a, d, b)
<1>1. Len(a) \in Nat /\ Len(d) \in Nat /\ Len(b) \in Nat
  BY LenProperties
<1>2. a \o d \in Seq(Bytes) /\ d \o b \in Seq(Bytes)
  BY ConcatProperties
<1>3. <<>> \in Seq(Bytes) /\ Len(<<>>) = 0
      /\ t = Join(<<>>, a, d \o b) /\ t = Join(a \o d, b, <<>>)
  BY JoinEmpty
<1>4. SubSeq(t, 1, Len(a)) = a
  <2>1. Slice(Join(<<>>, a, d \o b), Len(<<>>), Len(a)) = a
    BY <1>2, <1>3, SliceOfJoin
  <2>2. Slice(t, 0, Len(a)) = a
    BY <2>1, <1>3, Zenon
  <2> QED BY <2>2, <1>1 DEF Slice
<1>5. SubSeq(t, Len(a) + Len(d) + 1, Len(t)) = b
  <2>1. Len(a \o d) = Len(a) + Len(d) /\ Len(t) = (Len(a) + Len(d)) + Len(b)
    BY ConcatProperties, JoinIsText
  <2>2. Slice(Join(a \o d, b, <<>>), Len(a \o d), Len(b)) = b
    BY <1>2, <1>3, SliceOfJoin
  <2>3. Slice(t, Len(a) + Len(d), Len(b)) = b
    BY <2>1, <2>2, <1>3, Zenon
  <2> QED BY <2>1, <2>3 DEF Slice
<1> QED BY <1>4, <1>5 DEF Splice, Join

\* A text can be cut at both ends of any part of it.
HasCut(t, off, del) ==
  \E a, d, b \in Seq(Bytes) :
    t = Join(a, d, b) /\ Len(a) = off /\ Len(d) = del

LEMMA CutText ==
  ASSUME NEW t \in Seq(Bytes), NEW off \in Nat, NEW del \in Nat,
         off + del <= Len(t)
  PROVE  HasCut(t, off, del)
<1>1. Len(t) \in Nat
  BY LenProperties
<1> DEFINE a == SubSeq(t, 1, off)
           d == SubSeq(t, off + 1, off + del)
           b == SubSeq(t, off + del + 1, Len(t))
<1>2. a \in Seq(Bytes) /\ Len(a) = off /\ d \in Seq(Bytes) /\ Len(d) = del
  BY <1>1, SliceIsText DEF Slice
<1>3. b \in Seq(Bytes)
  <2>1. b = Slice(t, off + del, Len(t) - (off + del))
    BY <1>1 DEF Slice
  <2> QED BY <2>1, <1>1, SliceIsText
<1>4. a \o d = SubSeq(t, 1, off + del)
  BY <1>1, ConcatAdjacentSubSeq
<1>5. SubSeq(t, 1, off + del) \o b = t
  <2>1. SubSeq(t, 1, off + del) \o SubSeq(t, off + del + 1, Len(t))
          = SubSeq(t, 1, Len(t))
    <3> DEFINE k == off + del
    <3>1. k \in (1 - 1)..Len(t) /\ Len(t) \in k..Len(t) /\ 1 \in 1..Len(t) + 1
      BY <1>1
    <3> HIDE DEF k
    <3>2. SubSeq(t, 1, k) \o SubSeq(t, k + 1, Len(t)) = SubSeq(t, 1, Len(t))
      BY <3>1, ConcatAdjacentSubSeq
    <3> QED BY <3>2 DEF k
  <2> QED BY <2>1, SubSeqFull
<1>6. t = Join(a, d, b)
  BY <1>4, <1>5 DEF Join
<1> HIDE DEF a, d, b
<1> QED BY <1>2, <1>3, <1>6 DEF HasCut

\* Splice returns a text of the length one would expect.
LEMMA SpliceIsText ==
  ASSUME NEW t \in Seq(Bytes), NEW off \in Nat, NEW del \in Nat,
         NEW ins \in Seq(Bytes), off + del <= Len(t)
  PROVE  /\ Splice(t, off, del, ins) \in Seq(Bytes)
         /\ Len(Splice(t, off, del, ins)) = Len(t) - del + Len(ins)
<1>1. PICK a, d, b \in Seq(Bytes) :
        t = Join(a, d, b) /\ Len(a) = off /\ Len(d) = del
  <2>1. HasCut(t, off, del)
    BY CutText
  <2> QED BY <2>1 DEF HasCut
<1>2. Splice(t, off, del, ins) = Join(a, ins, b)
  <2>1. Splice(Join(a, d, b), Len(a), Len(d), ins) = Join(a, ins, b)
    BY SpliceOfJoin
  <2> QED BY <1>1, <2>1, Zenon
<1>3. /\ Join(a, ins, b) \in Seq(Bytes)
      /\ Len(Join(a, ins, b)) = Len(a) + Len(ins) + Len(b)
      /\ Len(Join(a, d, b)) = Len(a) + Len(d) + Len(b)
  BY JoinIsText
<1>4. Len(Join(a, ins, b)) = Len(Join(a, d, b)) - Len(d) + Len(ins)
  BY <1>3, LenProperties
<1> QED BY <1>1, <1>2, <1>3, <1>4, Zenon

\* An edit that inserts and deletes nothing leaves the text as it is.
LEMMA SpliceNothing ==
  ASSUME NEW t \in Seq(Bytes), NEW off \in Nat, off <= Len(t)
  PROVE  Splice(t, off, 0, <<>>) = t
<1>1. PICK a, d, b \in Seq(Bytes) :
        t = Join(a, d, b) /\ Len(a) = off /\ Len(d) = 0
  <2>1. off + 0 <= Len(t)
    BY LenProperties
  <2>2. HasCut(t, off, 0)
    BY <2>1, CutText
  <2> QED BY <2>2 DEF HasCut
<1>2. d = <<>>
  BY <1>1, EmptySeq
<1>3. Splice(Join(a, d, b), Len(a), Len(d), d) = Join(a, d, b)
  BY SpliceOfJoin
<1> QED BY <1>1, <1>2, <1>3, Zenon

\* The law undo rests on: putting the deleted bytes back in place of the
\* inserted ones gives the text before the edit, and returns the inserted ones.
LEMMA SpliceInverse ==
  ASSUME NEW t \in Seq(Bytes), NEW off \in Nat, NEW del \in Nat,
         NEW ins \in Seq(Bytes), off + del <= Len(t)
  PROVE  LET s == Splice(t, off, del, ins)
         IN  /\ off + Len(ins) <= Len(s)
             /\ Splice(s, off, Len(ins), Slice(t, off, del)) = t
             /\ Slice(s, off, Len(ins)) = ins
<1>1. PICK a, d, b \in Seq(Bytes) :
        t = Join(a, d, b) /\ Len(a) = off /\ Len(d) = del
  <2>1. HasCut(t, off, del)
    BY CutText
  <2> QED BY <2>1 DEF HasCut
<1>2. Splice(t, off, del, ins) = Join(a, ins, b) /\ Slice(t, off, del) = d
  <2>1. /\ Splice(Join(a, d, b), Len(a), Len(d), ins) = Join(a, ins, b)
        /\ Slice(Join(a, d, b), Len(a), Len(d)) = d
    BY SpliceOfJoin, SliceOfJoin
  <2> QED BY <1>1, <2>1, Zenon
<1>3. /\ Splice(Join(a, ins, b), Len(a), Len(ins), d) = Join(a, d, b)
      /\ Slice(Join(a, ins, b), Len(a), Len(ins)) = ins
  BY SpliceOfJoin, SliceOfJoin
<1>4. Len(a) + Len(ins) <= Len(Join(a, ins, b))
  <2>1. Len(Join(a, ins, b)) = Len(a) + Len(ins) + Len(b)
    BY JoinIsText
  <2> QED BY <2>1, LenProperties
<1> QED BY <1>1, <1>2, <1>3, <1>4, Zenon

\* Consecutive insertions: when bytes are inserted inside or next to earlier
\* insertions, taking all of them away gives the text before the first.
LEMMA SpliceMergeInsert ==
  ASSUME NEW t \in Seq(Bytes), NEW off \in Nat, NEW n \in Nat,
         NEW p \in Nat, NEW x \in Seq(Bytes),
         off <= p, p <= off + n, off + n <= Len(t)
  PROVE  Splice(Splice(t, p, 0, x), off, n + Len(x), <<>>)
           = Splice(t, off, n, <<>>)
<1>1. PICK a, d, b \in Seq(Bytes) :
        t = Join(a, d, b) /\ Len(a) = off /\ Len(d) = n
  <2>1. HasCut(t, off, n)
    BY CutText
  <2> QED BY <2>1 DEF HasCut
<1>2. PICK l, e, r \in Seq(Bytes) :
        d = Join(l, e, r) /\ Len(l) = p - off /\ Len(e) = 0
  <2>1. p - off \in Nat /\ (p - off) + 0 <= Len(d)
    BY <1>1
  <2>2. HasCut(d, p - off, 0)
    BY <2>1, CutText
  <2> QED BY <2>2 DEF HasCut
<1>3. e = <<>>
  BY <1>2, EmptySeq
<1> DEFINE al == a \o l
           rb == r \o b
           xr == x \o r
           lxr == l \o xr
<1>4. d = l \o r
  BY <1>2, <1>3, ConcatEmptySeq DEF Join
<1>5. al \in Seq(Bytes) /\ rb \in Seq(Bytes) /\ xr \in Seq(Bytes)
  BY ConcatProperties
<1>6. lxr \in Seq(Bytes)
  <2> HIDE DEF xr
  <2> QED BY <1>5, ConcatProperties
<1>7. Len(al) = p /\ Len(lxr) = n + Len(x)
  <2>1. Len(al) = Len(a) + Len(l) /\ Len(xr) = Len(x) + Len(r)
    BY ConcatProperties
  <2>2. Len(d) = Len(l) + Len(r)
    BY <1>4, ConcatProperties
  <2>3. Len(lxr) = Len(l) + Len(xr)
    <3> HIDE DEF xr
    <3> QED BY <1>5, ConcatProperties
  <2>4. Len(a) \in Nat /\ Len(l) \in Nat /\ Len(x) \in Nat /\ Len(r) \in Nat
    BY LenProperties
  <2> HIDE DEF al, xr, lxr
  <2>5. Len(al) = off + (p - off) /\ n = (p - off) + Len(r)
    BY <1>1, <1>2, <2>1, <2>2, Zenon
  <2>6. Len(lxr) = (p - off) + (Len(x) + Len(r))
    BY <1>2, <2>1, <2>3, Zenon
  <2>7. off + (p - off) = p
    OBVIOUS
  <2>8. (p - off) + (Len(x) + Len(r)) = ((p - off) + Len(r)) + Len(x)
    BY <2>4
  <2> QED BY <2>5, <2>6, <2>7, <2>8, Zenon
<1>8. t = Join(al, e, rb)
  <2>1. Join(a, l \o r, b) = Join(al, r, b)
    BY JoinAssociative
  <2>2. Join(al, r, b) = Join(al, <<>>, rb)
    <3> HIDE DEF al
    <3> QED BY <1>5, JoinEmpty
  <2> QED BY <2>1, <2>2, <1>1, <1>3, <1>4, Zenon
<1>9. Join(al, x, rb) = Join(a, lxr, b)
  <2>1. Join(al, x, rb) = Join(al, xr, b)
    <3> HIDE DEF al
    <3> QED BY <1>5, JoinAssociative
  <2>2. Join(al, xr, b) = Join(a, lxr, b)
    <3> HIDE DEF xr
    <3> QED BY <1>5, JoinAssociative
  <2> QED BY <2>1, <2>2, Zenon
<1> HIDE DEF al, rb, xr, lxr
<1>10. Splice(Join(al, e, rb), Len(al), Len(e), x) = Join(al, x, rb)
  BY <1>5, SpliceOfJoin
<1>11. Splice(Join(a, lxr, b), Len(a), Len(lxr), e) = Join(a, e, b)
  BY <1>6, SpliceOfJoin
<1>12. Splice(Join(a, d, b), Len(a), Len(d), e) = Join(a, e, b)
  BY SpliceOfJoin
<1> QED BY <1>1, <1>2, <1>3, <1>7, <1>8, <1>9, <1>10, <1>11, <1>12, Zenon

\* Consecutive deletions: the bytes deleted later go behind the earlier ones.
LEMMA SpliceMergeDelete ==
  ASSUME NEW t \in Seq(Bytes), NEW p \in Nat, NEW del \in Nat,
         NEW buf \in Seq(Bytes), p + del <= Len(t)
  PROVE  Splice(Splice(t, p, del, <<>>), p, 0, buf \o Slice(t, p, del))
           = Splice(t, p, 0, buf)
<1>1. PICK a, d, b \in Seq(Bytes) :
        t = Join(a, d, b) /\ Len(a) = p /\ Len(d) = del
  <2>1. HasCut(t, p, del)
    BY CutText
  <2> QED BY <2>1 DEF HasCut
<1> DEFINE e == <<>>
           bd == buf \o d
           db == d \o b
<1>2. e \in Seq(Bytes) /\ bd \in Seq(Bytes) /\ db \in Seq(Bytes)
  BY EmptySeq, ConcatProperties
<1>3. Join(a, d, b) = Join(a, e, db) /\ Join(a, bd, b) = Join(a, buf, db)
  BY JoinEmpty, JoinAssociative
<1>9. Len(e) = 0
  BY EmptySeq
<1> HIDE DEF e, bd, db
<1>4. /\ Splice(Join(a, d, b), Len(a), Len(d), e) = Join(a, e, b)
      /\ Slice(Join(a, d, b), Len(a), Len(d)) = d
  BY <1>2, SpliceOfJoin, SliceOfJoin
<1>5. Splice(Join(a, e, b), Len(a), Len(e), bd) = Join(a, bd, b)
  BY <1>2, SpliceOfJoin
<1>6. Splice(Join(a, e, db), Len(a), Len(e), buf) = Join(a, buf, db)
  BY <1>2, SpliceOfJoin
<1>7. Splice(Splice(t, p, del, e), p, 0, bd) = Splice(t, p, 0, buf)
  BY <1>1, <1>9, <1>3, <1>4, <1>5, <1>6, Zenon
<1>8. Slice(t, p, del) = d
  BY <1>1, <1>4, Zenon
<1> QED BY <1>7, <1>8, Zenon DEF e, bd

\* Consecutive erasures: the bytes erased later go before the earlier ones.
LEMMA SpliceMergeErase ==
  ASSUME NEW t \in Seq(Bytes), NEW p \in Nat, NEW del \in Nat,
         NEW buf \in Seq(Bytes), p + del <= Len(t)
  PROVE  Splice(Splice(t, p, del, <<>>), p, 0, Slice(t, p, del) \o buf)
           = Splice(t, p + del, 0, buf)
<1>1. PICK a, d, b \in Seq(Bytes) :
        t = Join(a, d, b) /\ Len(a) = p /\ Len(d) = del
  <2>1. HasCut(t, p, del)
    BY CutText
  <2> QED BY <2>1 DEF HasCut
<1> DEFINE e == <<>>
           db == d \o buf
           ad == a \o d
<1>2. e \in Seq(Bytes) /\ db \in Seq(Bytes) /\ ad \in Seq(Bytes)
  BY EmptySeq, ConcatProperties
<1>3. Join(a, d, b) = Join(ad, e, b) /\ Join(a, db, b) = Join(ad, buf, b)
  BY JoinEmpty, JoinAssociative
<1>9. Len(e) = 0 /\ Len(ad) = Len(a) + Len(d)
  BY EmptySeq, ConcatProperties
<1> HIDE DEF e, db, ad
<1>4. /\ Splice(Join(a, d, b), Len(a), Len(d), e) = Join(a, e, b)
      /\ Slice(Join(a, d, b), Len(a), Len(d)) = d
  BY <1>2, SpliceOfJoin, SliceOfJoin
<1>5. Splice(Join(a, e, b), Len(a), Len(e), db) = Join(a, db, b)
  BY <1>2, SpliceOfJoin
<1>6. Splice(Join(ad, e, b), Len(ad), Len(e), buf) = Join(ad, buf, b)
  BY <1>2, SpliceOfJoin
<1>7. Splice(Splice(t, p, del, e), p, 0, db) = Splice(t, p + del, 0, buf)
  BY <1>1, <1>9, <1>3, <1>4, <1>5, <1>6, Zenon
<1>8. Slice(t, p, del) = d
  BY <1>1, <1>4, Zenon
<1> QED BY <1>7, <1>8, Zenon DEF e, db

\* The last byte of a concatenation.
LEMMA ConcatEnd ==
  ASSUME NEW a \in Seq(Bytes), NEW b \in Seq(Bytes)
  PROVE  /\ Len(b) > 0 => LastByte(a \o b) = LastByte(b)
         /\ Len(b) = 0 => a \o b = a
<1>1. Len(a) \in Nat /\ Len(b) \in Nat
  BY LenProperties
<1>2. /\ Len(a \o b) = Len(a) + Len(b)
      /\ \A i \in 1..(Len(a) + Len(b)) :
           (a \o b)[i] = IF i <= Len(a) THEN a[i] ELSE b[i - Len(a)]
  BY ConcatProperties
<1>3. ASSUME Len(b) > 0
      PROVE  (a \o b)[Len(a) + Len(b)] = b[Len(b)]
  <2>1. /\ Len(a) + Len(b) \in 1..(Len(a) + Len(b))
        /\ ~(Len(a) + Len(b) <= Len(a))
        /\ (Len(a) + Len(b)) - Len(a) = Len(b)
    BY <1>1, <1>3
  <2> QED BY <1>2, <2>1, Zenon
<1>4. ASSUME Len(b) = 0
      PROVE  a \o b = a
  <2>1. b = <<>>
    BY <1>4, EmptySeq
  <2> QED BY <2>1, ConcatEmptySeq
<1> QED BY <1>2, <1>3, <1>4, Zenon DEF LastByte

LEMMA JoinEnd ==
  ASSUME NEW a \in Seq(Bytes), NEW x \in Seq(Bytes), NEW b \in Seq(Bytes)
  PROVE  /\ Len(b) > 0 => LastByte(Join(a, x, b)) = LastByte(b)
         /\ Len(b) = 0 /\ Len(x) > 0 => LastByte(Join(a, x, b)) = LastByte(x)
         /\ Len(b) = 0 /\ Len(x) = 0 => Join(a, x, b) = a
<1>1. a \o x \in Seq(Bytes)
  BY ConcatProperties
<1>2. /\ Len(b) > 0 => LastByte((a \o x) \o b) = LastByte(b)
      /\ Len(b) = 0 => (a \o x) \o b = a \o x
  BY <1>1, ConcatEnd
<1>3. /\ Len(x) > 0 => LastByte(a \o x) = LastByte(x)
      /\ Len(x) = 0 => a \o x = a
  BY ConcatEnd
<1> QED BY <1>2, <1>3, Zenon DEF Join

\* A byte of the first part.
LEMMA JoinFirst ==
  ASSUME NEW a \in Seq(Bytes), NEW x \in Seq(Bytes), NEW b \in Seq(Bytes),
         Len(a) > 0
  PROVE  Join(a, x, b)[Len(a)] = LastByte(a)
<1>1. /\ a \o x \in Seq(Bytes) /\ Len(a \o x) = Len(a) + Len(x)
      /\ \A i \in 1..(Len(a) + Len(x)) :
           (a \o x)[i] = IF i <= Len(a) THEN a[i] ELSE x[i - Len(a)]
  BY ConcatProperties
<1>2. \A i \in 1..(Len(a \o x) + Len(b)) :
        ((a \o x) \o b)[i] =
          IF i <= Len(a \o x) THEN (a \o x)[i] ELSE b[i - Len(a \o x)]
  BY <1>1, ConcatProperties
<1>3. /\ Len(a) \in 1..(Len(a) + Len(x)) /\ Len(a) <= Len(a)
      /\ Len(a) \in 1..(Len(a \o x) + Len(b)) /\ Len(a) <= Len(a \o x)
  <2>1. Len(a) \in Nat /\ Len(x) \in Nat /\ Len(b) \in Nat
    BY LenProperties
  <2> QED BY <2>1, <1>1
<1> QED BY <1>1, <1>2, <1>3, Zenon DEF Join, LastByte

\* The last byte of a spliced text is the last one that is not empty among
\* the part behind the edit, the inserted bytes and the part before the edit.
LEMMA SpliceEnd ==
  ASSUME NEW t \in Seq(Bytes), NEW off \in Nat, NEW del \in Nat,
         NEW ins \in Seq(Bytes), off + del <= Len(t)
  PROVE  LET s == Splice(t, off, del, ins)
         IN  /\ off + del < Len(t) => LastByte(s) = LastByte(t)
             /\ off + del = Len(t) /\ Len(ins) > 0 => LastByte(s) = LastByte(ins)
             /\ off + del = Len(t) /\ Len(ins) = 0 /\ off > 0 => LastByte(s) = t[off]
<1>1. PICK a, d, b \in Seq(Bytes) :
        t = Join(a, d, b) /\ Len(a) = off /\ Len(d) = del
  <2>1. HasCut(t, off, del)
    BY CutText
  <2> QED BY <2>1 DEF HasCut
<1> DEFINE s == Join(a, ins, b)
<1>2. Splice(t, off, del, ins) = s
  <2>1. Splice(Join(a, d, b), Len(a), Len(d), ins) = Join(a, ins, b)
    BY SpliceOfJoin
  <2> QED BY <1>1, <2>1, Zenon
<1> HIDE DEF s
<1>3. Len(a) \in Nat /\ Len(d) \in Nat /\ Len(b) \in Nat
  BY LenProperties
<1>4. Len(t) = Len(a) + Len(d) + Len(b)
  BY <1>1, JoinIsText
<1>5. /\ off + del < Len(t) => Len(b) > 0
      /\ off + del = Len(t) => Len(b) = 0
  <2> DEFINE n == Len(t)
  <2> HIDE DEF n
  <2>1. n = off + del + Len(b)
    BY <1>1, <1>4, Zenon DEF n
  <2>2. (off + del < n => Len(b) > 0) /\ (off + del = n => Len(b) = 0)
    BY <2>1, <1>3
  <2> QED BY <2>2 DEF n
<1>6. /\ Len(b) > 0 => LastByte(s) = LastByte(b)
      /\ Len(b) = 0 /\ Len(ins) > 0 => LastByte(s) = LastByte(ins)
      /\ Len(b) = 0 /\ Len(ins) = 0 => s = a
  BY JoinEnd DEF s
<1>7. Len(b) > 0 => LastByte(t) = LastByte(b)
  <2>1. Len(b) > 0 => LastByte(Join(a, d, b)) = LastByte(b)
    BY JoinEnd
  <2> QED BY <1>1, <2>1, Zenon
<1>8. off > 0 => t[off] = LastByte(a)
  <2>1. Len(a) > 0 => Join(a, d, b)[Len(a)] = LastByte(a)
    BY JoinFirst
  <2> QED BY <1>1, <2>1, Zenon
<1> QED BY <1>2, <1>5, <1>6, <1>7, <1>8, Zenon

-----------------------------------------------------------------------------
(* The history *)

\* A Change fits a text if the bytes it would take away are there.
Fits(t, r) == r.off + r.ins <= Len(t)

\* The text that reversing a Change gives, and the reversed Change.
Back(t, r) == Splice(t, r.off, r.ins, r.buf)
Reversed(t, r) == [r EXCEPT !.ins = Len(r.buf), !.buf = Slice(t, r.off, r.ins)]

\* A Change leads back to the text of its parent while it is applied, and
\* from there to its own text while it is undone.
Leads(r, from, to) == Fits(from, r) /\ Back(from, r) = to

LinkOK(ch, sn, dn, c) ==
  IF c \in dn THEN Leads(ch[c], sn[c], sn[ch[c].next])
              ELSE Leads(ch[c], sn[ch[c].next], sn[c])

EndsWithNewline(t) == t = <<>> \/ LastByte(t) = NL

TreeOK(ch, sn, dn) ==
  /\ ch \in Seq(ChangeRecs)
  /\ \A c \in 1..Len(ch) : ch[c].next \in 0..(c - 1)
  /\ sn \in [0..Len(ch) -> Seq(Bytes)]
  /\ \A c \in 0..Len(ch) : EndsWithNewline(sn[c])
  /\ \A c \in 1..Len(ch) : LinkOK(ch, sn, dn, c)

\* The applied Changes are the path from the root to the text on screen.
PathOK(ch, dn, here) ==
  /\ dn \subseteq 0..Len(ch) /\ 0 \in dn /\ here \in dn
  /\ \A c \in dn \ {0} : ch[c].next \in dn /\ ch[c].next # here
  /\ \A c, d \in dn \ {0} : ch[c].next = ch[d].next => c = d

HistoryOK(ch, sn, dn, here, tx) ==
  /\ TreeOK(ch, sn, dn)
  /\ PathOK(ch, dn, here)
  /\ tx = sn[here]

\* The next edit may merge into a Change that nothing else refers to, if it
\* is of the same kind and ends at the cursor.
Fresh(ch, here, sv) ==
  here # 0 /\ here # sv /\ \A c \in 1..Len(ch) : ch[c].next # here

MayMerge == Fresh(changes, cur, saved)

MergeOK ==
  /\ prevMerge # "none" => pc = "idle"
  /\ prevMerge = "insert" =>
       /\ MayMerge
       /\ changes[cur].buf = <<>>
       /\ changes[cur].off <= point
       /\ point <= changes[cur].off + changes[cur].ins
  /\ prevMerge = "delete" =>
       \/ point = Len(text)
       \/ MayMerge /\ changes[cur].ins = 0 /\ changes[cur].off = point
  /\ prevMerge = "erase" =>
       \/ point = 0
       \/ MayMerge /\ changes[cur].ins = 0 /\ changes[cur].off = point

IInv ==
  /\ TypeOK
  /\ HistoryOK(changes, snap, done, Here, text)
  /\ MergeOK
  /\ savedText = snap[saved]

-----------------------------------------------------------------------------
(* What one step does to the history, whichever command takes it *)

\* Reversing a Change gives the Change that leads the other way.
LEMMA ReversedLeads ==
  ASSUME NEW r \in ChangeRecs, NEW t \in Seq(Bytes), Fits(t, r)
  PROVE  /\ Reversed(t, r) \in ChangeRecs
         /\ Reversed(t, r).next = r.next
         /\ Reversed(t, r).off = r.off
         /\ Reversed(t, r).ins = Len(r.buf)
         /\ Back(t, r) \in Seq(Bytes)
         /\ Leads(Reversed(t, r), Back(t, r), t)
<1>1. /\ r.off \in Nat /\ r.ins \in Nat /\ r.buf \in Seq(Bytes)
      /\ r.off + r.ins <= Len(t)
  BY DEF ChangeRecs, Fits
<1>2. Len(r.buf) \in Nat
  BY <1>1, LenProperties
<1>3. Slice(t, r.off, r.ins) \in Seq(Bytes)
  BY <1>1, SliceIsText
<1>4. Splice(t, r.off, r.ins, r.buf) \in Seq(Bytes)
  BY <1>1, SpliceIsText
<1>5. /\ r.off + Len(r.buf) <= Len(Splice(t, r.off, r.ins, r.buf))
      /\ Splice(Splice(t, r.off, r.ins, r.buf), r.off, Len(r.buf),
                Slice(t, r.off, r.ins)) = t
  BY <1>1, SpliceInverse
<1>6. /\ Reversed(t, r) \in ChangeRecs
      /\ Reversed(t, r).next = r.next
      /\ Reversed(t, r).off = r.off
      /\ Reversed(t, r).ins = Len(r.buf)
      /\ Reversed(t, r).buf = Slice(t, r.off, r.ins)
  BY <1>2, <1>3 DEF Reversed, ChangeRecs
<1> QED BY <1>4, <1>5, <1>6 DEF Leads, Fits, Back

\* A new Change below the current one.
LEMMA HistoryAppend ==
  ASSUME NEW ch, NEW sn, NEW dn, NEW here, NEW tx,
         HistoryOK(ch, sn, dn, here, tx),
         NEW r \in ChangeRecs, r.next = here,
         NEW t \in Seq(Bytes), EndsWithNewline(t), Leads(r, t, tx)
  PROVE  LET n == Len(ch) + 1
         IN  HistoryOK(Append(ch, r), AddSnap(sn, n, t), dn \cup {n}, n, t)
<1> DEFINE n == Len(ch) + 1
           ch2 == Append(ch, r)
           sn2 == AddSnap(sn, n, t)
           dn2 == dn \cup {n}
<1>1. /\ ch \in Seq(ChangeRecs) /\ Len(ch) \in Nat
      /\ sn \in [0..Len(ch) -> Seq(Bytes)]
      /\ dn \subseteq 0..Len(ch) /\ here \in 0..Len(ch)
      /\ \A c \in 1..Len(ch) : ch[c].next \in 0..(c - 1)
      /\ \A c \in 1..Len(ch) : LinkOK(ch, sn, dn, c)
      /\ tx = sn[here]
  BY LenProperties DEF HistoryOK, TreeOK, PathOK
<1>2. /\ ch2 \in Seq(ChangeRecs) /\ Len(ch2) = n
      /\ \A c \in 1..Len(ch) : ch2[c] = ch[c]
      /\ ch2[n] = r
  BY <1>1, AppendProperties
<1>3. /\ sn2 \in [0..n -> Seq(Bytes)]
      /\ \A c \in 0..Len(ch) : sn2[c] = sn[c]
      /\ sn2[n] = t
  BY <1>1 DEF AddSnap
<1> HIDE DEF ch2, sn2
<1>4. \A c \in 1..n : c \in 1..Len(ch) \/ c = n
  BY <1>1
<1>5. n \notin dn
  BY <1>1
<1>6. ASSUME NEW c \in 1..n
      PROVE  ch2[c].next \in 0..(c - 1) /\ LinkOK(ch2, sn2, dn2, c)
  <2>1. CASE c = n
    <3>1. ch2[c].next = here /\ here \in 0..(c - 1) /\ sn2[here] = tx
      BY <2>1, <1>1, <1>2, <1>3
    <3> QED BY <2>1, <3>1, <1>2, <1>3 DEF LinkOK
  <2>2. CASE c \in 1..Len(ch)
    <3>1. c \in dn2 <=> c \in dn
      BY <2>2, <1>1
    <3>2. ch2[c] = ch[c] /\ ch[c].next \in 0..Len(ch)
      <4>1. ch2[c] = ch[c] /\ ch[c].next \in 0..(c - 1)
        BY <2>2, <1>1, <1>2
      <4>2. 0..(c - 1) \subseteq 0..Len(ch)
        BY <2>2, <1>1
      <4> QED BY <4>1, <4>2
    <3>3. sn2[c] = sn[c] /\ sn2[ch[c].next] = sn[ch[c].next]
      BY <2>2, <3>2, <1>3
    <3> QED BY <2>2, <3>1, <3>2, <3>3, <1>1 DEF LinkOK
  <2> QED BY <2>1, <2>2, <1>4
<1>7. ASSUME NEW c \in 0..n
      PROVE  EndsWithNewline(sn2[c])
  BY <1>1, <1>3 DEF HistoryOK, TreeOK
<1>8. TreeOK(ch2, sn2, dn2)
  BY <1>2, <1>3, <1>6, <1>7 DEF TreeOK
<1>9. PathOK(ch2, dn2, n)
  <2>1. /\ 0 \in dn /\ here \in dn
        /\ \A c \in dn \ {0} : ch[c].next \in dn /\ ch[c].next # here
        /\ \A c, d \in dn \ {0} : ch[c].next = ch[d].next => c = d
    BY DEF HistoryOK, PathOK
  <2>2. dn2 \subseteq 0..Len(ch2)
    <3>1. n \in 0..n /\ \A c \in 0..Len(ch) : c \in 0..n
      BY <1>1
    <3> QED BY <3>1, <1>1, <1>2
  <2>3. \A c \in dn \ {0} : ch2[c] = ch[c] /\ ch[c].next # n
    BY <1>1, <1>2
  <2>4. ch2[n].next = here /\ here # n
    BY <1>1, <1>2
  <2> HIDE DEF n
  <2>5. \A c \in dn2 \ {0} : ch2[c].next \in dn2 /\ ch2[c].next # n
    BY <2>1, <2>3, <2>4
  <2>6. \A c, d \in dn2 \ {0} : ch2[c].next = ch2[d].next => c = d
    BY <2>1, <2>3, <2>4
  <2> QED BY <2>1, <2>2, <2>5, <2>6 DEF PathOK
<1> QED BY <1>3, <1>8, <1>9 DEF HistoryOK, ch2, sn2

\* A merge rewrites the current Change, which nothing was built upon.
LEMMA HistoryMerge ==
  ASSUME NEW ch, NEW sn, NEW dn, NEW here, NEW tx,
         HistoryOK(ch, sn, dn, here, tx),
         here # 0, \A c \in 1..Len(ch) : ch[c].next # here,
         NEW r \in ChangeRecs, r.next = ch[here].next,
         NEW t \in Seq(Bytes), EndsWithNewline(t),
         Leads(r, t, sn[r.next])
  PROVE  HistoryOK([ch EXCEPT ![here] = r], [sn EXCEPT ![here] = t], dn, here, t)
<1> DEFINE ch2 == [ch EXCEPT ![here] = r]
           sn2 == [sn EXCEPT ![here] = t]
<1>1. /\ ch \in Seq(ChangeRecs) /\ Len(ch) \in Nat
      /\ sn \in [0..Len(ch) -> Seq(Bytes)]
      /\ dn \subseteq 0..Len(ch) /\ here \in dn /\ here \in 1..Len(ch)
      /\ \A c \in 1..Len(ch) : ch[c].next \in 0..(c - 1)
      /\ \A c \in 1..Len(ch) : LinkOK(ch, sn, dn, c)
      /\ \A c \in 0..Len(ch) : EndsWithNewline(sn[c])
  BY LenProperties DEF HistoryOK, TreeOK, PathOK
<1>2. /\ ch2 \in Seq(ChangeRecs) /\ Len(ch2) = Len(ch)
      /\ \A c \in 1..Len(ch) : ch2[c] = IF c = here THEN r ELSE ch[c]
  BY <1>1, ExceptSeq
<1>3. /\ sn2 \in [0..Len(ch) -> Seq(Bytes)]
      /\ \A c \in 0..Len(ch) : sn2[c] = IF c = here THEN t ELSE sn[c]
  BY <1>1
<1> HIDE DEF ch2, sn2
<1>4. \A c \in 1..Len(ch) : ch2[c].next = ch[c].next
  BY <1>1, <1>2
<1>5. ASSUME NEW c \in 1..Len(ch)
      PROVE  LinkOK(ch2, sn2, dn, c)
  <2>1. ch[c].next \in 0..Len(ch) /\ ch[c].next # here
    BY <1>1
  <2>2. sn2[ch[c].next] = sn[ch[c].next]
    BY <2>1, <1>3
  <2>3. CASE c = here
    <3>1. /\ ch2[c] = r /\ sn2[c] = t /\ c \in dn
          /\ sn2[ch2[c].next] = sn[r.next]
      BY <2>2, <2>3, <1>1, <1>2, <1>3
    <3> QED BY <3>1 DEF LinkOK
  <2>4. CASE c # here
    <3>1. ch2[c] = ch[c] /\ sn2[c] = sn[c] /\ LinkOK(ch, sn, dn, c)
      BY <2>4, <1>1, <1>2, <1>3
    <3> QED BY <2>2, <3>1 DEF LinkOK
  <2> QED BY <2>3, <2>4
<1>6. TreeOK(ch2, sn2, dn)
  BY <1>1, <1>2, <1>3, <1>4, <1>5 DEF TreeOK
<1>7. PathOK(ch2, dn, here)
  <2>1. \A c \in dn \ {0} : ch2[c].next = ch[c].next
    BY <1>1, <1>4
  <2>2. PathOK(ch, dn, here)
    BY DEF HistoryOK
  <2> QED BY <2>1, <2>2, <1>2 DEF PathOK
<1>8. t = sn2[here]
  BY <1>1, <1>3
<1> QED BY <1>6, <1>7, <1>8 DEF HistoryOK, ch2, sn2

\* The tree with Change c reversed in the text t.
ReversedAt(ch, c, t) == [ch EXCEPT ![c] = Reversed(t, ch[c])]

SameParents(ch, ch2) ==
  Len(ch2) = Len(ch) /\ \A d \in 1..Len(ch) : ch2[d].next = ch[d].next

\* Change c leaves the path, or joins it, and the text changes accordingly.
Crosses(ch, sn, dn, c, dn2, from, to) ==
  \/ /\ c \in dn /\ dn2 = dn \ {c}
     /\ from = sn[c] /\ to = sn[ch[c].next]
  \/ /\ c \notin dn /\ dn2 = dn \cup {c}
     /\ from = sn[ch[c].next] /\ to = sn[c]

\* Reversing a Change that joins or leaves the path keeps every link whole.
LEMMA TreeReverse ==
  ASSUME NEW ch, NEW sn, NEW dn, NEW dn2, TreeOK(ch, sn, dn),
         NEW c \in 1..Len(ch), NEW tx, NEW to,
         Crosses(ch, sn, dn, c, dn2, tx, to)
  PROVE  /\ TreeOK(ReversedAt(ch, c, tx), sn, dn2)
         /\ SameParents(ch, ReversedAt(ch, c, tx))
         /\ Back(tx, ch[c]) = to
<1> DEFINE r == Reversed(tx, ch[c])
           ch2 == [ch EXCEPT ![c] = r]
           back == Back(tx, ch[c])
<1>1. /\ ch \in Seq(ChangeRecs) /\ Len(ch) \in Nat
      /\ sn \in [0..Len(ch) -> Seq(Bytes)]
      /\ \A d \in 1..Len(ch) : ch[d].next \in 0..(d - 1)
      /\ \A d \in 1..Len(ch) : LinkOK(ch, sn, dn, d)
      /\ \A d \in 0..Len(ch) : EndsWithNewline(sn[d])
  BY LenProperties DEF TreeOK
<1>2. ch[c] \in ChangeRecs /\ c \in 0..Len(ch) /\ ch[c].next \in 0..Len(ch)
  BY <1>1, ElementOfSeq
<1>3. tx \in Seq(Bytes)
  BY <1>1, <1>2 DEF Crosses
<1>4. Fits(tx, ch[c]) /\ back = to
  <2>1. LinkOK(ch, sn, dn, c)
    BY <1>1
  <2> QED BY <2>1 DEF LinkOK, Leads, Crosses
<1>5. r \in ChangeRecs /\ r.next = ch[c].next /\ Leads(r, back, tx)
  BY <1>2, <1>3, <1>4, ReversedLeads
<1> HIDE DEF r, back
<1>6. /\ ch2 \in Seq(ChangeRecs) /\ Len(ch2) = Len(ch)
      /\ \A d \in 1..Len(ch) : ch2[d] = IF d = c THEN r ELSE ch[d]
  BY <1>1, <1>5, ExceptSeq
<1> HIDE DEF ch2
<1>7. \A d \in 1..Len(ch) : ch2[d].next = ch[d].next
  BY <1>5, <1>6
<1>8. ASSUME NEW d \in 1..Len(ch)
      PROVE  LinkOK(ch2, sn, dn2, d)
  <2>1. CASE d = c
    <3>1. ch2[d] = r /\ r.next = ch[c].next
      BY <2>1, <1>5, <1>6
    <3>2. CASE c \in dn
      BY <2>1, <3>1, <3>2, <1>4, <1>5 DEF LinkOK, Crosses
    <3>3. CASE c \notin dn
      BY <2>1, <3>1, <3>3, <1>4, <1>5 DEF LinkOK, Crosses
    <3> QED BY <3>2, <3>3
  <2>2. CASE d # c
    <3>1. ch2[d] = ch[d] /\ (d \in dn2 <=> d \in dn) /\ LinkOK(ch, sn, dn, d)
      BY <2>2, <1>1, <1>6 DEF Crosses
    <3> QED BY <3>1 DEF LinkOK
  <2> QED BY <2>1, <2>2
<1>9. TreeOK(ch2, sn, dn2)
  BY <1>1, <1>6, <1>7, <1>8 DEF TreeOK
<1> QED BY <1>4, <1>6, <1>7, <1>9 DEF ReversedAt, SameParents, ch2, r, back

\* Leaving the end of the path, and joining it.
LEMMA PathUndo ==
  ASSUME NEW ch, NEW dn, NEW here, PathOK(ch, dn, here), here # 0
  PROVE  PathOK(ch, dn \ {here}, ch[here].next)
BY DEF PathOK

LEMMA PathRedo ==
  ASSUME NEW ch, NEW dn, NEW here, PathOK(ch, dn, here),
         NEW c \in 1..Len(ch), ch[c].next = here, Len(ch) \in Nat,
         \A d \in 1..Len(ch) : ch[d].next # d
  PROVE  c \notin dn /\ PathOK(ch, dn \cup {c}, c)
<1>1. c \notin dn /\ c # 0 /\ c # here
  BY DEF PathOK
<1>2. \A d \in dn \ {0} : ch[d].next # c
  BY <1>1 DEF PathOK
<1>3. dn \cup {c} \subseteq 0..Len(ch)
  BY DEF PathOK
<1> QED BY <1>1, <1>2, <1>3 DEF PathOK

\* Only the parent of each Change matters to the path.
LEMMA PathSame ==
  ASSUME NEW ch, NEW ch2, NEW dn, NEW here, PathOK(ch, dn, here),
         Len(ch) \in Nat, SameParents(ch, ch2)
  PROVE  PathOK(ch2, dn, here)
<1>1. \A d \in dn \ {0} : d \in 1..Len(ch)
  BY DEF PathOK
<1> QED BY <1>1 DEF PathOK, SameParents

LEMMA HistoryUndo ==
  ASSUME NEW ch, NEW sn, NEW dn, NEW here, NEW tx,
         HistoryOK(ch, sn, dn, here, tx), here # 0
  PROVE  HistoryOK(ReversedAt(ch, here, tx), sn,
                   dn \ {here}, ch[here].next, Back(tx, ch[here]))
<1> DEFINE to == sn[ch[here].next]
           dn2 == dn \ {here}
<1>1. /\ TreeOK(ch, sn, dn) /\ PathOK(ch, dn, here)
      /\ Len(ch) \in Nat /\ here \in 1..Len(ch)
  BY LenProperties DEF HistoryOK, TreeOK, PathOK
<1>2. Crosses(ch, sn, dn, here, dn2, tx, to)
  BY DEF HistoryOK, PathOK, Crosses
<1>3. PathOK(ch, dn2, ch[here].next)
  BY <1>1, PathUndo
<1> HIDE DEF to, dn2
<1>4. /\ TreeOK(ReversedAt(ch, here, tx), sn, dn2)
      /\ SameParents(ch, ReversedAt(ch, here, tx))
      /\ Back(tx, ch[here]) = to
  BY <1>1, <1>2, TreeReverse
<1>5. PathOK(ReversedAt(ch, here, tx), dn2, ch[here].next)
  BY <1>1, <1>3, <1>4, PathSame
<1> QED BY <1>4, <1>5 DEF HistoryOK, dn2, to

LEMMA HistoryRedo ==
  ASSUME NEW ch, NEW sn, NEW dn, NEW here, NEW tx,
         HistoryOK(ch, sn, dn, here, tx),
         NEW c \in 1..Len(ch), ch[c].next = here
  PROVE  HistoryOK(ReversedAt(ch, c, tx), sn,
                   dn \cup {c}, c, Back(tx, ch[c]))
<1> DEFINE to == sn[c]
           dn2 == dn \cup {c}
<1>1. /\ TreeOK(ch, sn, dn) /\ PathOK(ch, dn, here)
      /\ Len(ch) \in Nat /\ \A d \in 1..Len(ch) : ch[d].next # d
  BY LenProperties DEF HistoryOK, TreeOK
<1>2. c \notin dn /\ PathOK(ch, dn2, c)
  BY <1>1, PathRedo
<1>3. Crosses(ch, sn, dn, c, dn2, tx, to)
  BY <1>2 DEF HistoryOK, Crosses
<1> HIDE DEF to, dn2
<1>4. /\ TreeOK(ReversedAt(ch, c, tx), sn, dn2)
      /\ SameParents(ch, ReversedAt(ch, c, tx))
      /\ Back(tx, ch[c]) = to
  BY <1>1, <1>3, TreeReverse
<1>5. PathOK(ReversedAt(ch, c, tx), dn2, c)
  BY <1>1, <1>2, <1>4, PathSame
<1> QED BY <1>4, <1>5 DEF HistoryOK, dn2, to

\* Reversing a barrier changes nothing.
LEMMA ReversedBarrier ==
  ASSUME NEW r \in ChangeRecs, NEW t \in Seq(Bytes), Fits(t, r),
         r.ins = 0, r.buf = <<>>
  PROVE  Reversed(t, r) = r /\ Back(t, r) = t
<1>1. r.off \in Nat /\ r.off <= Len(t)
  BY LenProperties DEF ChangeRecs, Fits
<1>2. Slice(t, r.off, 0) = <<>>
  BY <1>1, SubSeqEmpty DEF Slice
<1>3. Splice(t, r.off, 0, <<>>) = t
  BY <1>1, SpliceNothing
<1>4. Len(<<>>) = 0
  BY EmptySeq
<1> QED BY <1>2, <1>3, <1>4 DEF Reversed, Back, ChangeRecs

-----------------------------------------------------------------------------
(* Edits: what they leave at the end of the text, and their record *)

\* What makes an edit leave a newline at the end of the text.
EndIsSafe(t, off, del, ins) ==
  off + del = Len(t) =>
    IF ins = <<>> THEN off = 0 \/ t[off] = NL ELSE LastByte(ins) = NL

LEMMA SpliceEnds ==
  ASSUME NEW t \in Seq(Bytes), EndsWithNewline(t),
         NEW off \in Nat, NEW del \in Nat, off + del <= Len(t),
         NEW ins \in Seq(Bytes), EndIsSafe(t, off, del, ins)
  PROVE  EndsWithNewline(Splice(t, off, del, ins))
<1> DEFINE s == Splice(t, off, del, ins)
           n == Len(t)
           k == Len(ins)
<1>1. /\ s \in Seq(Bytes) /\ Len(s) = n - del + k
      /\ n \in Nat /\ k \in Nat
      /\ k = 0 <=> ins = <<>>
      /\ n = 0 <=> t = <<>>
      /\ Len(s) = 0 <=> s = <<>>
  BY SpliceIsText, LenProperties, EmptySeq
<1>2. /\ off + del < n => LastByte(s) = LastByte(t)
      /\ off + del = n /\ k > 0 => LastByte(s) = LastByte(ins)
      /\ off + del = n /\ k = 0 /\ off > 0 => LastByte(s) = t[off]
  BY SpliceEnd
<1>3. off + del <= n
  OBVIOUS
<1>4. off + del = n => IF ins = <<>> THEN off = 0 \/ t[off] = NL ELSE LastByte(ins) = NL
  BY DEF EndIsSafe
<1> HIDE DEF s, n, k
<1>5. ASSUME off + del < n
      PROVE  s = <<>> \/ LastByte(s) = NL
  <2>1. n # 0
    BY <1>1, <1>5
  <2> QED BY <2>1, <1>1, <1>2, <1>5, Zenon DEF EndsWithNewline
<1>6. ASSUME off + del = n
      PROVE  s = <<>> \/ LastByte(s) = NL
  <2>1. CASE k > 0
    <3>1. ins # <<>>
      BY <2>1, <1>1
    <3> QED BY <3>1, <2>1, <1>2, <1>4, <1>6, Zenon
  <2>2. CASE k = 0 /\ off > 0
    <3>1. ins = <<>> /\ off # 0
      BY <2>2, <1>1
    <3> QED BY <3>1, <2>2, <1>2, <1>4, <1>6, Zenon
  <2>3. CASE k = 0 /\ off = 0
    <3>1. Len(s) = 0
      BY <2>3, <1>1, <1>6
    <3> QED BY <3>1, <1>1, Zenon
  <2> QED BY <2>1, <2>2, <2>3, <1>1
<1>7. off + del < n \/ off + del = n
  BY <1>1, <1>3
<1> QED BY <1>5, <1>6, <1>7, Zenon DEF EndsWithNewline, s

\* An insertion is never empty, and leaves a newline at the end of the text.
LEMMA NetInsertEnds ==
  ASSUME text \in Seq(Bytes), EndsWithNewline(text),
         NEW p \in 0..Len(text), NEW ins \in Seq(Bytes), ins # <<>>
  PROVE  /\ NetInsert(p, ins) \in Seq(Bytes)
         /\ Len(NetInsert(p, ins)) >= Len(ins)
         /\ EndsWithNewline(Splice(text, p, 0, NetInsert(p, ins)))
<1> DEFINE x == NetInsert(p, ins)
<1>1. Len(text) \in Nat /\ Len(ins) \in Nat /\ p \in Nat /\ p + 0 <= Len(text)
  BY LenProperties
<1>2. /\ Append(ins, NL) \in Seq(Bytes)
      /\ Append(ins, NL) # <<>>
      /\ Len(Append(ins, NL)) = Len(ins) + 1
      /\ Append(ins, NL)[Len(ins) + 1] = NL
  BY BytesAssumption, AppendProperties
<1>3. /\ x \in Seq(Bytes) /\ Len(x) >= Len(ins) /\ x # <<>>
      /\ p + 0 = Len(text) => LastByte(x) = NL
  BY <1>1, <1>2 DEF NetInsert, LastByte
<1> HIDE DEF x
<1>4. EndIsSafe(text, p, 0, x)
  BY <1>3, Zenon DEF EndIsSafe
<1>5. EndsWithNewline(Splice(text, p, 0, x))
  BY <1>1, <1>3, <1>4, SpliceEnds
<1> QED BY <1>3, <1>5 DEF x

\* A deletion stays within the text and spares the last newline if it must.
LEMMA NetDeleteEnds ==
  ASSUME text \in Seq(Bytes), EndsWithNewline(text),
         NEW p \in Nat, NEW del \in Nat \ {0}, p + del <= Len(text)
  PROVE  /\ NetDelete(p, del) \in 0..del
         /\ EndsWithNewline(Splice(text, p, NetDelete(p, del), <<>>))
<1> DEFINE n == NetDelete(p, del)
<1>1. Len(text) \in Nat /\ <<>> \in Seq(Bytes)
  BY LenProperties, EmptySeq
<1>2. /\ n \in 0..del
      /\ p + n = Len(text) => p = 0 \/ text[p] = NL
  BY <1>1 DEF NetDelete, WouldDeleteLastBytes
<1> HIDE DEF n
<1>3. n \in Nat /\ p + n <= Len(text)
  BY <1>1, <1>2
<1>4. EndIsSafe(text, p, n, <<>>)
  BY <1>2, Zenon DEF EndIsSafe
<1>5. EndsWithNewline(Splice(text, p, n, <<>>))
  BY <1>1, <1>3, <1>4, SpliceEnds
<1> QED BY <1>2, <1>5 DEF n

\* So does a replacement.
LEMMA NetReplaceEnds ==
  ASSUME text \in Seq(Bytes), EndsWithNewline(text),
         NEW p \in Nat, NEW del \in Nat \ {0}, p + del <= Len(text),
         NEW ins \in Seq(Bytes), ins # <<>>
  PROVE  /\ NetReplace(p, del, ins) \in 0..del
         /\ EndsWithNewline(Splice(text, p, NetReplace(p, del, ins), ins))
<1> DEFINE n == NetReplace(p, del, ins)
<1>1. Len(text) \in Nat
  BY LenProperties
<1>2. /\ n \in 0..del
      /\ p + n = Len(text) => LastByte(ins) = NL
  BY <1>1 DEF NetReplace, WouldDeleteLastBytes
<1> HIDE DEF n
<1>3. n \in Nat /\ p + n <= Len(text)
  BY <1>1, <1>2
<1>4. EndIsSafe(text, p, n, ins)
  BY <1>2, Zenon DEF EndIsSafe
<1>5. EndsWithNewline(Splice(text, p, n, ins))
  BY <1>1, <1>3, <1>4, SpliceEnds
<1> QED BY <1>2, <1>5 DEF n

LEMMA InsCountGrows ==
  ASSUME NEW r \in ChangeRecs, NEW k \in Nat, NEW e, e = [r EXCEPT !.ins = @ + k]
  PROVE  /\ e \in ChangeRecs /\ e.next = r.next /\ e.off = r.off
         /\ e.ins = r.ins + k /\ e.buf = r.buf
BY DEF ChangeRecs

\* An insertion inside, or at an end of, what a Change inserted.
LEMMA ExtendInsert ==
  ASSUME NEW r \in ChangeRecs, NEW t \in Seq(Bytes), NEW to, Leads(r, t, to),
         NEW p \in Nat, NEW x \in Seq(Bytes), NEW bytes,
         r.buf = <<>>, r.off <= p, p <= r.off + r.ins
  PROVE  /\ Extended(r, "insert", bytes, x) \in ChangeRecs
         /\ Extended(r, "insert", bytes, x).next = r.next
         /\ Extended(r, "insert", bytes, x).off = r.off
         /\ Extended(r, "insert", bytes, x).ins = r.ins + Len(x)
         /\ Extended(r, "insert", bytes, x).buf = <<>>
         /\ Leads(Extended(r, "insert", bytes, x), Splice(t, p, 0, x), to)
<1> DEFINE e == Extended(r, "insert", bytes, x)
           s == Splice(t, p, 0, x)
<1>1. /\ r.off \in Nat /\ r.ins \in Nat /\ Len(x) \in Nat /\ Len(t) \in Nat
      /\ r.off + r.ins <= Len(t) /\ p + 0 <= Len(t)
  BY LenProperties DEF ChangeRecs, Leads, Fits
<1>2. /\ e \in ChangeRecs /\ e.next = r.next /\ e.off = r.off
      /\ e.ins = r.ins + Len(x) /\ e.buf = <<>>
  <2> DEFINE k == Len(x)
  <2>1. e = [r EXCEPT !.ins = @ + k]
    BY Zenon DEF Extended
  <2>2. k \in Nat
    BY <1>1
  <2> HIDE DEF e, k
  <2>3. /\ e \in ChangeRecs /\ e.next = r.next /\ e.off = r.off
        /\ e.ins = r.ins + k /\ e.buf = r.buf
    BY <2>1, <2>2, InsCountGrows
  <2> QED BY <2>3, Zenon DEF k
<1>3. Splice(s, r.off, r.ins + Len(x), <<>>) = Splice(t, r.off, r.ins, <<>>)
  BY <1>1, SpliceMergeInsert
<1>4. Len(s) = Len(t) - 0 + Len(x)
  BY <1>1, SpliceIsText
<1> HIDE DEF e, s
<1>5. Back(s, e) = to
  <2>1. Back(s, e) = Splice(s, r.off, r.ins + Len(x), <<>>)
    BY <1>2, Zenon DEF Back
  <2>2. Back(t, r) = Splice(t, r.off, r.ins, <<>>) /\ Back(t, r) = to
    BY Zenon DEF Back, Leads
  <2> QED BY <2>1, <2>2, <1>3, Zenon
<1>6. Fits(s, e)
  <2>1. e.off + e.ins <= Len(t) - 0 + Len(x)
    BY <1>1, <1>2
  <2> QED BY <2>1, <1>4, Zenon DEF Fits
<1> QED BY <1>2, <1>5, <1>6 DEF Leads, e, s

LEMMA LenAfterDeletion ==
  ASSUME NEW t \in Seq(Bytes), NEW p \in Nat, NEW del \in Nat,
         p + del <= Len(t)
  PROVE  Len(Splice(t, p, del, <<>>)) = Len(t) - del + 0
<1> DEFINE z == <<>>
<1>1. z \in Seq(Bytes) /\ Len(z) = 0
  BY EmptySeq
<1> HIDE DEF z
<1>2. Len(Splice(t, p, del, z)) = Len(t) - del + Len(z)
  BY <1>1, SpliceIsText
<1> QED BY <1>1, <1>2, Zenon DEF z

\* A deletion at the place of an earlier one, whose bytes go behind its bytes.
LEMMA ExtendDelete ==
  ASSUME NEW r \in ChangeRecs, NEW t \in Seq(Bytes), NEW to, Leads(r, t, to),
         NEW p \in Nat, NEW del \in Nat, p + del <= Len(t), NEW x,
         r.ins = 0, r.off = p
  PROVE  /\ Extended(r, "delete", Slice(t, p, del), x) \in ChangeRecs
         /\ Extended(r, "delete", Slice(t, p, del), x).next = r.next
         /\ Extended(r, "delete", Slice(t, p, del), x).off = p
         /\ Extended(r, "delete", Slice(t, p, del), x).ins = 0
         /\ Leads(Extended(r, "delete", Slice(t, p, del), x),
                  Splice(t, p, del, <<>>), to)
<1> DEFINE e == Extended(r, "delete", Slice(t, p, del), x)
           s == Splice(t, p, del, <<>>)
           b == Slice(t, p, del)
<1>1. /\ b \in Seq(Bytes) /\ r.buf \in Seq(Bytes) /\ Len(t) \in Nat
      /\ <<>> \in Seq(Bytes) /\ Len(<<>>) = 0
  BY SliceIsText, LenProperties, EmptySeq DEF ChangeRecs
<1>2. Splice(s, p, 0, r.buf \o b) = Splice(t, p, 0, r.buf)
  BY <1>1, SpliceMergeDelete
<1>3. Len(s) = Len(t) - del + 0
  BY LenAfterDeletion
<1> HIDE DEF b, s
<1>4. r.buf \o b \in Seq(Bytes)
  BY <1>1, ConcatProperties
<1>5. /\ e \in ChangeRecs /\ e.next = r.next /\ e.off = p
      /\ e.ins = 0 /\ e.buf = r.buf \o b
  BY <1>4 DEF Extended, ChangeRecs, b
<1> HIDE DEF e
<1>6. Back(s, e) = to
  <2>1. Back(s, e) = Splice(s, p, 0, r.buf \o b)
    BY <1>5, Zenon DEF Back
  <2>2. Back(t, r) = Splice(t, p, 0, r.buf) /\ Back(t, r) = to
    BY Zenon DEF Back, Leads
  <2> QED BY <2>1, <2>2, <1>2, Zenon
<1>7. Fits(s, e)
  <2>1. p + 0 <= Len(t) - del + 0
    BY <1>1
  <2> QED BY <2>1, <1>3, <1>5, Zenon DEF Fits
<1> QED BY <1>5, <1>6, <1>7 DEF Leads, e, s, b

\* A deletion that ends at an earlier one, whose bytes go before its bytes.
LEMMA ExtendErase ==
  ASSUME NEW r \in ChangeRecs, NEW t \in Seq(Bytes), NEW to, Leads(r, t, to),
         NEW p \in Nat, NEW del \in Nat, p + del <= Len(t), NEW x,
         r.ins = 0, r.off = p + del
  PROVE  /\ Extended(r, "erase", Slice(t, p, del), x) \in ChangeRecs
         /\ Extended(r, "erase", Slice(t, p, del), x).next = r.next
         /\ Extended(r, "erase", Slice(t, p, del), x).off = p
         /\ Extended(r, "erase", Slice(t, p, del), x).ins = 0
         /\ Leads(Extended(r, "erase", Slice(t, p, del), x),
                  Splice(t, p, del, <<>>), to)
<1> DEFINE e == Extended(r, "erase", Slice(t, p, del), x)
           s == Splice(t, p, del, <<>>)
           b == Slice(t, p, del)
<1>1. /\ b \in Seq(Bytes) /\ r.buf \in Seq(Bytes) /\ Len(t) \in Nat
      /\ <<>> \in Seq(Bytes) /\ Len(<<>>) = 0 /\ Len(b) = del
  BY SliceIsText, LenProperties, EmptySeq DEF ChangeRecs
<1>2. Splice(s, p, 0, b \o r.buf) = Splice(t, p + del, 0, r.buf)
  BY <1>1, SpliceMergeErase
<1>3. Len(s) = Len(t) - del + 0
  BY LenAfterDeletion
<1> HIDE DEF b, s
<1>4. b \o r.buf \in Seq(Bytes) /\ r.off - Len(b) = p
  BY <1>1, ConcatProperties
<1>5. /\ e \in ChangeRecs /\ e.next = r.next /\ e.off = p
      /\ e.ins = 0 /\ e.buf = b \o r.buf
  BY <1>4 DEF Extended, ChangeRecs, b
<1> HIDE DEF e
<1>6. Back(s, e) = to
  <2>1. Back(s, e) = Splice(s, p, 0, b \o r.buf)
    BY <1>5, Zenon DEF Back
  <2>2. Back(t, r) = Splice(t, p + del, 0, r.buf) /\ Back(t, r) = to
    BY Zenon DEF Back, Leads
  <2> QED BY <2>1, <2>2, <1>2, Zenon
<1>7. Fits(s, e)
  <2>1. p + 0 <= Len(t) - del + 0
    BY <1>1
  <2> QED BY <2>1, <1>3, <1>5, Zenon DEF Fits
<1> QED BY <1>5, <1>6, <1>7 DEF Leads, e, s, b

\* The record of an edit leads from the text after it to the text before it.
IsRecord(r, next, off, del, ins) ==
  /\ r \in ChangeRecs /\ r.next = next /\ r.off = off
  /\ r.ins = Len(ins) /\ r.buf = Slice(text, off, del)
  /\ Leads(r, Splice(text, off, del, ins), text)

LEMMA RecordLeads ==
  ASSUME text \in Seq(Bytes), NEW off \in Nat, NEW del \in Nat,
         NEW ins \in Seq(Bytes), off + del <= Len(text),
         NEW next \in Nat, NEW after \in BOOLEAN
  PROVE  IsRecord(ChangeRec(next, off, del, ins, after), next, off, del, ins)
<1> DEFINE r == ChangeRec(next, off, del, ins, after)
<1>1. Len(ins) \in Nat /\ Slice(text, off, del) \in Seq(Bytes)
  BY LenProperties, SliceIsText
<1>2. /\ off + Len(ins) <= Len(Splice(text, off, del, ins))
      /\ Splice(Splice(text, off, del, ins), off, Len(ins), Slice(text, off, del)) = text
  BY SpliceInverse
<1>3. /\ r \in ChangeRecs /\ r.next = next /\ r.off = off
      /\ r.ins = Len(ins) /\ r.buf = Slice(text, off, del)
  BY <1>1 DEF ChangeRecs, ChangeRec
<1> HIDE DEF r
<1>4. IsRecord(r, next, off, del, ins)
  BY <1>2, <1>3, Zenon DEF IsRecord, Leads, Fits, Back
<1> QED BY <1>4 DEF r

-----------------------------------------------------------------------------
(* Edits as steps: NewChange, ExtendChange and what is built from them *)

\* What every edit leaves behind: a whole history, whose current Change is
\* at the edit, refers to nothing that may come back, and replaced nothing
\* that something referred to.
EditDone ==
  /\ HistoryOK(changes', snap', done', cur', text')
  /\ Fresh(changes', cur', saved)
  /\ Len(changes') >= Len(changes)
  /\ \A c \in Ids : snap'[c] # snap[c] => c = cur /\ MayMerge

Ready ==
  /\ HistoryOK(changes, snap, done, cur, text)
  /\ MergeOK
  /\ saved \in Ids
  /\ point \in 0..Len(text)

\* An empty Change, a chain barrier, leads from a text to itself.
LEMMA BarrierLeads ==
  ASSUME NEW t \in Seq(Bytes), NEW next \in Nat
  PROVE  /\ BarrierRec(next) \in ChangeRecs
         /\ BarrierRec(next).next = next
         /\ Leads(BarrierRec(next), t, t)
<1>1. Splice(t, 0, 0, <<>>) = t /\ Len(t) \in Nat
  BY SpliceNothing, LenProperties
<1>2. /\ BarrierRec(next) \in ChangeRecs
      /\ BarrierRec(next).next = next
      /\ BarrierRec(next).off = 0
      /\ BarrierRec(next).ins = 0
      /\ BarrierRec(next).buf = <<>>
  BY EmptySeq DEF BarrierRec, ChangeRecs
<1>3. 0 + 0 <= Len(t)
  BY <1>1
<1> QED BY <1>1, <1>2, <1>3, Zenon DEF Leads, Fits, Back

\* What the parts of a whole history are.
LEMMA HistoryTypes ==
  ASSUME NEW ch, NEW sn, NEW dn, NEW here, NEW tx,
         HistoryOK(ch, sn, dn, here, tx)
  PROVE  /\ ch \in Seq(ChangeRecs) /\ Len(ch) \in Nat
         /\ here \in 0..Len(ch) /\ here \in Nat
         /\ tx \in Seq(Bytes) /\ EndsWithNewline(tx) /\ tx = sn[here]
         /\ sn \in [0..Len(ch) -> Seq(Bytes)]
         /\ dn \subseteq 0..Len(ch)
         /\ \A c \in 1..Len(ch) : ch[c].next \in 0..(c - 1)
BY LenProperties DEF HistoryOK, TreeOK, PathOK

\* A new Change is the current one, and the Changes before it stay.
Grown(ch, sn, dn, r, t) ==
  LET n == Len(ch) + 1
  IN  /\ HistoryOK(Append(ch, r), AddSnap(sn, n, t), dn \cup {n}, n, t)
      /\ Len(Append(ch, r)) = n
      /\ Append(ch, r)[n] = r
      /\ \A c \in 1..n : Append(ch, r)[c].next # n
      /\ \A c \in 0..Len(ch) : AddSnap(sn, n, t)[c] = sn[c]

LEMMA HistoryNew ==
  ASSUME NEW ch, NEW sn, NEW dn, NEW here, NEW tx,
         HistoryOK(ch, sn, dn, here, tx),
         NEW r \in ChangeRecs, r.next = here,
         NEW t \in Seq(Bytes), EndsWithNewline(t), Leads(r, t, tx)
  PROVE  Grown(ch, sn, dn, r, t)
<1> DEFINE n == Len(ch) + 1
           ch2 == Append(ch, r)
           sn2 == AddSnap(sn, n, t)
<1>1. /\ ch \in Seq(ChangeRecs) /\ Len(ch) \in Nat
      /\ here \in 0..Len(ch)
      /\ sn \in [0..Len(ch) -> Seq(Bytes)]
      /\ \A c \in 1..Len(ch) : ch[c].next \in 0..(c - 1)
  BY HistoryTypes
<1>2. HistoryOK(ch2, sn2, dn \cup {n}, n, t)
  BY HistoryAppend
<1>3. /\ Len(ch2) = n /\ ch2[n] = r
      /\ \A c \in 1..Len(ch) : ch2[c] = ch[c]
  BY <1>1, AppendProperties
<1>5. \A c \in 0..Len(ch) : sn2[c] = sn[c]
  BY <1>1 DEF AddSnap
<1> HIDE DEF ch2, sn2
<1>4. ASSUME NEW c \in 1..n
      PROVE  ch2[c].next # n
  <2>1. c = n \/ c \in 1..Len(ch)
    BY <1>1
  <2>2. CASE c = n
    BY <2>2, <1>1, <1>3
  <2>3. CASE c \in 1..Len(ch)
    <3>1. ch[c].next # n
      BY <1>1, <2>3
    <3> QED BY <2>3, <3>1, <1>3, Zenon
  <2> QED BY <2>1, <2>2, <2>3
<1> QED BY <1>2, <1>3, <1>4, <1>5 DEF ch2, sn2, Grown

\* A new Change, with its barrier if one is pending.
LEMMA NewChangeStep ==
  ASSUME HistoryOK(changes, snap, done, cur, text), saved \in Ids,
         NEW off \in Nat, NEW del \in Nat, NEW ins \in Seq(Bytes),
         NEW after \in BOOLEAN, off + del <= Len(text),
         EndsWithNewline(Splice(text, off, del, ins)),
         text' = Splice(text, off, del, ins),
         NewChange(off, del, ins, after)
  PROVE  /\ EditDone
         /\ changes'[cur'].off = off
         /\ changes'[cur'].ins = Len(ins)
         /\ changes'[cur'].buf = Slice(text, off, del)
<1> DEFINE new == Splice(text, off, del, ins)
           rec(k) == ChangeRec(k, off, del, ins, after)
           n == Len(changes)
<1>1. /\ text \in Seq(Bytes) /\ EndsWithNewline(text) /\ n \in Nat
      /\ cur \in 0..n /\ cur \in Nat /\ saved \in 0..n
  BY HistoryTypes DEF Ids
<1>2. new \in Seq(Bytes) /\ EndsWithNewline(new) /\ text' = new
  BY <1>1, SpliceIsText
<1>3. ASSUME NEW k \in Nat
      PROVE  IsRecord(rec(k), k, off, del, ins)
  BY <1>1, RecordLeads
<1>4. IF barrier
      THEN /\ changes' = Append(Append(changes, BarrierRec(cur)), rec(n + 1))
           /\ cur' = n + 2
           /\ done' = done \cup {n + 1, n + 2}
           /\ snap' = AddSnap(AddSnap(snap, n + 1, text), n + 2, new)
      ELSE /\ changes' = Append(changes, rec(cur))
           /\ cur' = n + 1
           /\ done' = done \cup {n + 1}
           /\ snap' = AddSnap(snap, n + 1, new)
  BY DEF NewChange
<1> HIDE DEF rec
<1>5. ASSUME NEW k \in Nat
      PROVE  /\ rec(k) \in ChangeRecs /\ rec(k).next = k
             /\ Leads(rec(k), new, text)
  BY <1>3, <1>5 DEF IsRecord
<1>6. ASSUME NEW k \in Nat
      PROVE  /\ rec(k).off = off
             /\ rec(k).ins = Len(ins)
             /\ rec(k).buf = Slice(text, off, del)
  BY <1>3, <1>6 DEF IsRecord
<1> HIDE DEF new
<1>7. CASE ~barrier
  <2>1. Grown(changes, snap, done, rec(cur), new)
    BY <1>1, <1>2, <1>5, HistoryNew
  <2>2. /\ HistoryOK(changes', snap', done', cur', text')
        /\ Len(changes') = n + 1 /\ cur' = n + 1
        /\ changes'[cur'] = rec(cur)
        /\ \A c \in 1..(n + 1) : changes'[c].next # cur'
        /\ \A c \in 0..n : snap'[c] = snap[c]
    BY <1>2, <1>4, <1>7, <2>1, Zenon DEF Grown
  <2> HIDE DEF n
  <2>3. cur' # 0 /\ cur' # saved /\ Len(changes') >= n
    BY <1>1, <2>2
  <2>4. Fresh(changes', cur', saved)
    BY <2>2, <2>3, Zenon DEF Fresh
  <2>5. EditDone
    BY <2>2, <2>3, <2>4, Zenon DEF EditDone, n, Ids
  <2> QED BY <1>1, <1>6, <2>2, <2>5, Zenon
<1>8. CASE barrier
  <2> DEFINE ch1 == Append(changes, BarrierRec(cur))
             sn1 == AddSnap(snap, n + 1, text)
             dn1 == done \cup {n + 1}
  <2>1. /\ BarrierRec(cur) \in ChangeRecs /\ BarrierRec(cur).next = cur
        /\ Leads(BarrierRec(cur), text, text)
    BY <1>1, BarrierLeads
  <2>2. Grown(changes, snap, done, BarrierRec(cur), text)
    BY <1>1, <2>1, HistoryNew
  <2>3. /\ HistoryOK(ch1, sn1, dn1, n + 1, text)
        /\ Len(ch1) = n + 1
        /\ \A c \in 0..n : sn1[c] = snap[c]
    BY <2>2, Zenon DEF Grown
  <2>4. dn1 \cup {n + 2} = done \cup {n + 1, n + 2}
    OBVIOUS
  <2> HIDE DEF ch1, sn1, dn1, n
  <2>5. n + 1 \in Nat /\ Len(ch1) + 1 = n + 2 /\ \A c \in 0..n : c \in 0..Len(ch1)
    BY <1>1, <2>3
  <2>6. Grown(ch1, sn1, dn1, rec(n + 1), new)
    BY <1>2, <1>5, <2>3, <2>5, HistoryNew
  <2>7. /\ HistoryOK(Append(ch1, rec(n + 1)), AddSnap(sn1, n + 2, new),
                     dn1 \cup {n + 2}, n + 2, new)
        /\ Len(Append(ch1, rec(n + 1))) = n + 2
        /\ Append(ch1, rec(n + 1))[n + 2] = rec(n + 1)
        /\ \A c \in 1..(n + 2) : Append(ch1, rec(n + 1))[c].next # n + 2
        /\ \A c \in 0..n : AddSnap(sn1, n + 2, new)[c] = snap[c]
    BY <2>3, <2>5, <2>6, Zenon DEF Grown
  <2>8. /\ HistoryOK(changes', snap', done', cur', text')
        /\ Len(changes') = n + 2 /\ cur' = n + 2
        /\ changes'[cur'] = rec(n + 1)
        /\ \A c \in 1..(n + 2) : changes'[c].next # cur'
        /\ \A c \in 0..n : snap'[c] = snap[c]
    BY <1>2, <1>4, <1>8, <2>4, <2>7, Zenon DEF ch1, sn1
  <2>9. cur' # 0 /\ cur' # saved /\ Len(changes') >= n
    BY <1>1, <2>8
  <2>10. Fresh(changes', cur', saved)
    BY <2>8, <2>9, Zenon DEF Fresh
  <2>11. EditDone
    BY <2>8, <2>9, <2>10, Zenon DEF EditDone, n, Ids
  <2> QED BY <1>6, <2>5, <2>8, <2>11, Zenon
<1> QED BY <1>7, <1>8

\* Where the callers of each kind of merge edit, relative to the cursor.
Aligned(m, off, del, ins) ==
  /\ m = "insert" => del = 0 /\ off = point
  /\ m = "delete" => ins = <<>> /\ del > 0 /\ off = point
  /\ m = "erase" => ins = <<>> /\ del > 0 /\ off + del = point

\* Where the current Change is after such an edit.
RecordAt(m, off, ins) ==
  /\ m = "insert" =>
       /\ changes'[cur'].buf = <<>>
       /\ changes'[cur'].off <= off
       /\ off + Len(ins) <= changes'[cur'].off + changes'[cur'].ins
  /\ m \in {"delete", "erase"} =>
       changes'[cur'].ins = 0 /\ changes'[cur'].off = off

\* The Change that the next edit extends leads to the text of its parent.
LEMMA CurrentLeads ==
  ASSUME HistoryOK(changes, snap, done, cur, text), cur # 0
  PROVE  /\ cur \in 1..Len(changes)
         /\ changes[cur] \in ChangeRecs
         /\ Leads(changes[cur], text, snap[changes[cur].next])
<1>1. /\ changes \in Seq(ChangeRecs) /\ Len(changes) \in Nat
      /\ cur \in 0..Len(changes) /\ text = snap[cur]
  BY HistoryTypes
<1>2. cur \in 1..Len(changes)
  BY <1>1
<1>3. changes[cur] \in ChangeRecs
  BY <1>1, <1>2, ElementOfSeq
<1>4. cur \in done /\ LinkOK(changes, snap, done, cur)
  BY <1>2 DEF HistoryOK, TreeOK, PathOK
<1> QED BY <1>1, <1>2, <1>3, <1>4, Zenon DEF LinkOK

\* A merge, and what makes it possible.
LEMMA ExtendStep ==
  ASSUME Ready, NEW m \in Merges \ {"none"}, m = prevMerge,
         NEW off \in Nat, NEW del \in Nat, NEW ins \in Seq(Bytes),
         Aligned(m, off, del, ins), off + del <= Len(text),
         EndsWithNewline(Splice(text, off, del, ins)),
         text' = Splice(text, off, del, ins),
         ExtendChange(m, off, del, ins)
  PROVE  EditDone /\ RecordAt(m, off, ins)
<1> DEFINE r == changes[cur]
           e == Extended(r, m, Slice(text, off, del), ins)
           new == Splice(text, off, del, ins)
           to == snap[r.next]
<1>1. /\ HistoryOK(changes, snap, done, cur, text) /\ MergeOK
      /\ text \in Seq(Bytes) /\ Len(text) \in Nat /\ point \in 0..Len(text)
  BY HistoryTypes, LenProperties DEF Ready
<1>2. MayMerge
  BY <1>1 DEF MergeOK, Aligned, Merges
<1>3. cur # 0 /\ \A c \in 1..Len(changes) : changes[c].next # cur
  BY <1>2 DEF MayMerge, Fresh
<1>4. /\ cur \in 1..Len(changes) /\ r \in ChangeRecs /\ Leads(r, text, to)
  BY <1>1, <1>3, CurrentLeads
<1>5. r.off \in Nat /\ r.ins \in Nat
  BY <1>4 DEF ChangeRecs
<1>6. new \in Seq(Bytes) /\ EndsWithNewline(new) /\ text' = new
  BY <1>1, SpliceIsText
<1>7. changes' = [changes EXCEPT ![cur] = e] /\ snap' = [snap EXCEPT ![cur] = new]
      /\ cur' = cur /\ done' = done
  BY DEF ExtendChange
<1> HIDE DEF r, to
<1>8. /\ e \in ChangeRecs /\ e.next = r.next /\ Leads(e, new, to)
      /\ m = "insert" => /\ e.buf = <<>> /\ e.off <= off
                         /\ off + Len(ins) <= e.off + e.ins
      /\ m \in {"delete", "erase"} => e.ins = 0 /\ e.off = off
  <2>1. CASE m = "insert"
    <3>1. /\ del = 0 /\ off = point /\ r.buf = <<>>
          /\ r.off <= off /\ off <= r.off + r.ins
      BY <2>1, <1>1 DEF MergeOK, Aligned, r
    <3> DEFINE b == Slice(text, off, del)
    <3> HIDE DEF b
    <3>2. /\ Extended(r, "insert", b, ins) \in ChangeRecs
          /\ Extended(r, "insert", b, ins).next = r.next
          /\ Extended(r, "insert", b, ins).off = r.off
          /\ Extended(r, "insert", b, ins).ins = r.ins + Len(ins)
          /\ Extended(r, "insert", b, ins).buf = <<>>
          /\ Leads(Extended(r, "insert", b, ins), Splice(text, off, 0, ins), to)
      BY <1>1, <1>4, <3>1, ExtendInsert
    <3> HIDE DEF e, new
    <3>3. /\ e \in ChangeRecs /\ e.next = r.next /\ e.off = r.off
          /\ e.ins = r.ins + Len(ins) /\ e.buf = <<>> /\ Leads(e, new, to)
      BY <2>1, <3>1, <3>2, Zenon DEF e, b, new
    <3>4. Len(ins) \in Nat
      BY LenProperties
    <3>5. e.off <= off /\ off + Len(ins) <= e.off + e.ins
      BY <1>5, <3>1, <3>3, <3>4
    <3> QED BY <2>1, <3>3, <3>5, Zenon
  <2>2. CASE m = "delete"
    <3>1. ins = <<>> /\ del > 0 /\ off = point
      BY <2>2 DEF Aligned
    <3>2. point # Len(text)
      BY <1>1, <3>1
    <3>3. r.ins = 0 /\ r.off = off
      BY <2>2, <1>1, <3>1, <3>2 DEF MergeOK, r
    <3> HIDE DEF e, new
    <3>4. /\ Extended(r, "delete", Slice(text, off, del), ins) \in ChangeRecs
          /\ Extended(r, "delete", Slice(text, off, del), ins).next = r.next
          /\ Extended(r, "delete", Slice(text, off, del), ins).off = off
          /\ Extended(r, "delete", Slice(text, off, del), ins).ins = 0
          /\ Leads(Extended(r, "delete", Slice(text, off, del), ins),
                   Splice(text, off, del, <<>>), to)
      BY <1>1, <1>4, <3>3, ExtendDelete
    <3>5. m # "insert"
      BY <2>2
    <3>6. /\ e \in ChangeRecs /\ e.next = r.next /\ e.off = off
          /\ e.ins = 0 /\ Leads(e, new, to)
      BY <2>2, <3>1, <3>4, Zenon DEF e, new
    <3> QED BY <3>5, <3>6, Zenon
  <2>3. CASE m = "erase"
    <3>1. ins = <<>> /\ del > 0 /\ off + del = point
      BY <2>3 DEF Aligned
    <3>2. point # 0
      BY <3>1
    <3>3. r.ins = 0 /\ r.off = off + del
      BY <2>3, <1>1, <3>1, <3>2 DEF MergeOK, r
    <3>4. /\ Extended(r, "erase", Slice(text, off, del), ins) \in ChangeRecs
          /\ Extended(r, "erase", Slice(text, off, del), ins).next = r.next
          /\ Extended(r, "erase", Slice(text, off, del), ins).off = off
          /\ Extended(r, "erase", Slice(text, off, del), ins).ins = 0
          /\ Leads(Extended(r, "erase", Slice(text, off, del), ins),
                   Splice(text, off, del, <<>>), to)
      BY <1>1, <1>4, <3>3, ExtendErase, Zenon
    <3>5. m # "insert"
      BY <2>3
    <3> HIDE DEF e, new
    <3>6. /\ e \in ChangeRecs /\ e.next = r.next /\ e.off = off
          /\ e.ins = 0 /\ Leads(e, new, to)
      BY <2>3, <3>1, <3>4, Zenon DEF e, new
    <3> QED BY <3>5, <3>6, Zenon
  <2> QED BY <2>1, <2>2, <2>3 DEF Merges
<1> HIDE DEF e, new
<1>9. Leads(e, new, snap[e.next])
  BY <1>8, Zenon DEF to
<1>10. HistoryOK([changes EXCEPT ![cur] = e], [snap EXCEPT ![cur] = new], done, cur, new)
  BY <1>1, <1>3, <1>6, <1>8, <1>9, HistoryMerge DEF r
<1>11. HistoryOK(changes', snap', done', cur', text')
  BY <1>6, <1>7, <1>10, Zenon
<1>12. /\ Len(changes') = Len(changes) /\ Len(changes) \in Nat
       /\ changes'[cur] = e
       /\ \A c \in 1..Len(changes) : changes'[c].next = changes[c].next
       /\ \A c \in Ids : c # cur => snap'[c] = snap[c]
  <2>1. /\ changes \in Seq(ChangeRecs) /\ Len(changes) \in Nat
        /\ snap \in [0..Len(changes) -> Seq(Bytes)]
    BY <1>1, HistoryTypes
  <2> QED BY <2>1, <1>4, <1>7, <1>8, ExceptSeq DEF Ids, r
<1>13. Fresh(changes', cur', saved)
  BY <1>2, <1>7, <1>12, Zenon DEF MayMerge, Fresh
<1>14. EditDone
  <2>1. Len(changes') >= Len(changes)
    BY <1>12
  <2> QED BY <1>2, <1>11, <1>12, <1>13, <2>1, Zenon DEF EditDone
<1>15. RecordAt(m, off, ins)
  BY <1>7, <1>8, <1>12, Zenon DEF RecordAt
<1> QED BY <1>14, <1>15

\* Any edit, whether its record is a new Change or extends the current one.
LEMMA EditStep ==
  ASSUME Ready, NEW m \in Merges, NEW off \in Nat, NEW del \in Nat,
         NEW ins \in Seq(Bytes), NEW after \in BOOLEAN,
         Aligned(m, off, del, ins), off + del <= Len(text),
         EndsWithNewline(Splice(text, off, del, ins)),
         Edit(m, off, del, ins, after)
  PROVE  EditDone /\ RecordAt(m, off, ins)
<1>1. text' = Splice(text, off, del, ins)
  BY DEF Edit
<1>2. CASE m = prevMerge /\ m # "none"
  <2>1. ExtendChange(m, off, del, ins)
    BY <1>2 DEF Edit, Record
  <2> QED BY <1>1, <1>2, <2>1, ExtendStep
<1>3. CASE ~(m = prevMerge /\ m # "none")
  <2>1. NewChange(off, del, ins, after)
    BY <1>3 DEF Edit, Record
  <2>2. /\ EditDone
        /\ changes'[cur'].off = off
        /\ changes'[cur'].ins = Len(ins)
        /\ changes'[cur'].buf = Slice(text, off, del)
    BY <1>1, <2>1, NewChangeStep DEF Ready
  <2>3. Len(ins) \in Nat
    BY LenProperties
  <2>4. m = "insert" => Slice(text, off, del) = <<>>
    <3>1. m = "insert" => del = 0
      BY DEF Aligned
    <3>2. Slice(text, off, 0) = <<>>
      BY SubSeqEmpty DEF Slice
    <3> QED BY <3>1, <3>2, Zenon
  <2>5. m \in {"delete", "erase"} => Len(ins) = 0
    BY EmptySeq DEF Aligned
  <2>6. off <= off /\ off + Len(ins) <= off + Len(ins)
    BY <2>3
  <2>7. RecordAt(m, off, ins)
    BY <2>2, <2>4, <2>5, <2>6, Zenon DEF RecordAt
  <2> QED BY <2>2, <2>7
<1> QED BY <1>2, <1>3

-----------------------------------------------------------------------------
(* buffer_insert_bytes, buffer_delete_bytes and buffer_replace_bytes *)

\* The history after a command is whole, and what could not be merged into
\* is as it was.
HistoryStep ==
  /\ HistoryOK(changes', snap', done', cur', text')
  /\ Len(changes') >= Len(changes)
  /\ \A c \in Ids : snap'[c] # snap[c] => c = cur /\ MayMerge

LEMMA NoEditStep ==
  ASSUME Ready, NoEdit
  PROVE  HistoryStep /\ text' = text
<1>1. /\ text' = text /\ changes' = changes /\ cur' = cur
      /\ snap' = snap /\ done' = done
  BY DEF NoEdit
<1>2. HistoryOK(changes', snap', done', cur', text')
  BY <1>1, Zenon DEF Ready
<1>3. Len(changes') >= Len(changes)
  <2>1. Len(changes) \in Nat
    BY HistoryTypes DEF Ready
  <2> QED BY <1>1, <2>1
<1> QED BY <1>1, <1>2, <1>3, Zenon DEF HistoryStep

LEMMA EditLength ==
  ASSUME Ready, NEW m, NEW off \in Nat, NEW del \in Nat,
         NEW ins \in Seq(Bytes), NEW after,
         off + del <= Len(text), Edit(m, off, del, ins, after)
  PROVE  /\ Len(text') = Len(text) - del + Len(ins)
         /\ Len(text') \in Nat /\ Len(text) \in Nat /\ Len(ins) \in Nat
<1>1. text \in Seq(Bytes)
  BY HistoryTypes DEF Ready
<1>2. /\ Splice(text, off, del, ins) \in Seq(Bytes)
      /\ Len(Splice(text, off, del, ins)) = Len(text) - del + Len(ins)
  BY <1>1, SpliceIsText
<1>3. text' = Splice(text, off, del, ins)
  BY DEF Edit
<1>4. text' \in Seq(Bytes) /\ Len(text') = Len(text) - del + Len(ins)
  BY <1>2, <1>3, Zenon
<1> QED BY <1>1, <1>4, LenProperties

LEMMA InsertBytesStep ==
  ASSUME Ready, NEW m \in {"none", "insert"}, NEW p \in 0..Len(text),
         NEW ins \in Seq(Bytes),
         m = "insert" => p = point /\ ins # <<>>,
         InsertBytes(m, p, ins)
  PROVE  /\ HistoryStep
         /\ p + Len(ins) <= Len(text')
         /\ m = "insert" =>
              /\ Fresh(changes', cur', saved)
              /\ changes'[cur'].buf = <<>>
              /\ changes'[cur'].off <= p
              /\ p + Len(ins) <= changes'[cur'].off + changes'[cur'].ins
<1> DEFINE x == NetInsert(p, ins)
<1>1. text \in Seq(Bytes) /\ EndsWithNewline(text) /\ Len(text) \in Nat
  BY HistoryTypes, LenProperties DEF Ready
<1>2. CASE ins = <<>>
  <2>1. NoEdit /\ m = "none" /\ Len(ins) = 0
    BY <1>2, EmptySeq DEF InsertBytes
  <2>2. HistoryStep /\ text' = text
    BY <2>1, NoEditStep
  <2>3. p + 0 <= Len(text)
    BY <1>1
  <2> QED BY <2>1, <2>2, <2>3, Zenon
<1>3. CASE ins # <<>>
  <2>1. Edit(m, p, 0, x, FALSE)
    BY <1>3 DEF InsertBytes
  <2>2. /\ x \in Seq(Bytes) /\ Len(x) >= Len(ins)
        /\ EndsWithNewline(Splice(text, p, 0, x))
    BY <1>1, <1>3, NetInsertEnds
  <2> HIDE DEF x
  <2>3. p \in Nat /\ p + 0 <= Len(text) /\ 0 \in Nat
    BY <1>1
  <2>4. m \in Merges /\ Aligned(m, p, 0, x)
    BY DEF Aligned, Merges
  <2>5. EditDone /\ RecordAt(m, p, x)
    BY <2>1, <2>2, <2>3, <2>4, EditStep
  <2>6. /\ Len(text') = Len(text) - 0 + Len(x)
        /\ Len(text') \in Nat /\ Len(text) \in Nat /\ Len(x) \in Nat
    BY <2>1, <2>2, <2>3, EditLength
  <2>7. Len(ins) \in Nat
    BY LenProperties
  <2>8. p + Len(ins) <= Len(text')
    BY <2>2, <2>3, <2>6, <2>7
  <2>9. HistoryStep /\ Fresh(changes', cur', saved)
    BY <2>5, Zenon DEF EditDone, HistoryStep
  <2>10. ASSUME m = "insert"
         PROVE  /\ changes'[cur'].buf = <<>>
                /\ changes'[cur'].off <= p
                /\ p + Len(ins) <= changes'[cur'].off + changes'[cur'].ins
    <3>1. /\ changes'[cur'].buf = <<>>
          /\ changes'[cur'].off <= p
          /\ p + Len(x) <= changes'[cur'].off + changes'[cur'].ins
      BY <2>5, <2>10 DEF RecordAt
    <3>2. changes'[cur'].off \in Nat /\ changes'[cur'].ins \in Nat
      <4>1. /\ changes' \in Seq(ChangeRecs) /\ cur' \in 0..Len(changes')
            /\ cur' # 0 /\ Len(changes') \in Nat
        BY <2>9, HistoryTypes DEF HistoryStep, Fresh
      <4>2. changes'[cur'] \in ChangeRecs
        BY <4>1, ElementOfSeq
      <4> QED BY <4>2 DEF ChangeRecs
    <3> QED BY <3>1, <3>2, <2>2, <2>3, <2>6, <2>7
  <2> QED BY <2>8, <2>9, <2>10
<1> QED BY <1>2, <1>3

LEMMA DeleteBytesStep ==
  ASSUME Ready, NEW m \in {"none", "delete", "erase"}, NEW p \in Nat,
         NEW del \in Nat, p + del <= Len(text), NEW after \in BOOLEAN,
         m = "delete" => p = point,
         m = "erase" => p + del = point /\ del <= 1,
         DeleteBytes(m, p, del, after)
  PROVE  /\ HistoryStep
         /\ p <= Len(text')
         /\ \/ prevMerge' = "none"
            \/ del = 0 /\ text' = text /\ prevMerge' = m
            \/ /\ prevMerge' = m /\ Fresh(changes', cur', saved)
               /\ m \in {"delete", "erase"} =>
                    changes'[cur'].ins = 0 /\ changes'[cur'].off = p
<1> DEFINE n == NetDelete(p, del)
<1>1. text \in Seq(Bytes) /\ EndsWithNewline(text) /\ Len(text) \in Nat
  BY HistoryTypes, LenProperties DEF Ready
<1>2. p <= Len(text)
  BY <1>1
<1>3. CASE del = 0
  <2>1. NoEdit /\ prevMerge' = m
    BY <1>3 DEF DeleteBytes
  <2> QED BY <1>2, <1>3, <2>1, NoEditStep
<1>4. CASE del # 0 /\ n = 0
  <2>1. NoEdit /\ prevMerge' = "none"
    BY <1>4 DEF DeleteBytes
  <2> QED BY <1>2, <2>1, NoEditStep
<1>5. CASE del # 0 /\ n # 0
  <2>1. Edit(m, p, n, <<>>, after) /\ prevMerge' = m
    BY <1>5 DEF DeleteBytes
  <2>2. n \in 0..del /\ EndsWithNewline(Splice(text, p, n, <<>>))
    BY <1>1, <1>5, NetDeleteEnds
  <2>3. m = "erase" => n = del
    BY <1>5, <2>2 DEF n
  <2> DEFINE z == <<>>
  <2>4. z \in Seq(Bytes) /\ Len(z) = 0 /\ z = <<>>
    BY EmptySeq
  <2> HIDE DEF n, z
  <2>5. n \in Nat /\ n > 0 /\ p + n <= Len(text)
    BY <1>1, <1>5, <2>2
  <2>6. m \in Merges /\ Aligned(m, p, n, z)
    BY <2>3, <2>4, <2>5 DEF Aligned, Merges
  <2>7. Edit(m, p, n, z, after) /\ EndsWithNewline(Splice(text, p, n, z))
    BY <2>1, <2>2, <2>4, Zenon
  <2>8. EditDone /\ RecordAt(m, p, z)
    BY <2>4, <2>5, <2>6, <2>7, EditStep
  <2>9. Len(text') = Len(text) - n + Len(z)
    BY <2>4, <2>5, <2>7, EditLength
  <2>10. p <= Len(text')
    BY <1>1, <2>4, <2>5, <2>9
  <2> QED BY <2>1, <2>8, <2>10, Zenon DEF EditDone, HistoryStep, RecordAt
<1> QED BY <1>3, <1>4, <1>5

LEMMA ReplaceBytesStep ==
  ASSUME Ready, NEW p \in Nat, NEW del \in Nat, p + del <= Len(text),
         NEW ins \in Seq(Bytes), NEW after \in BOOLEAN,
         ReplaceBytes(p, del, ins, after)
  PROVE  /\ HistoryStep
         /\ p + Len(ins) <= Len(text')
         /\ prevMerge' = "none"
<1> DEFINE n == NetReplace(p, del, ins)
<1>1. /\ text \in Seq(Bytes) /\ EndsWithNewline(text) /\ Len(text) \in Nat
      /\ Len(ins) \in Nat
  BY HistoryTypes, LenProperties DEF Ready
<1>2. p \in 0..Len(text)
  BY <1>1
<1>3. CASE del = 0
  <2>1. InsertBytes("none", p, ins) /\ prevMerge' = "none"
    BY <1>3 DEF ReplaceBytes
  <2> QED BY <1>2, <2>1, InsertBytesStep
<1>4. CASE del # 0 /\ ins = <<>>
  <2>1. DeleteBytes("none", p, del, after)
    <3>1. del > 0 /\ del # 0 /\ ins = <<>>
      BY <1>4
    <3> QED BY <3>1, Zenon DEF ReplaceBytes
  <2>2. /\ HistoryStep /\ p <= Len(text') /\ prevMerge' = "none"
    BY <2>1, DeleteBytesStep
  <2>3. Len(ins) = 0
    BY <1>4, EmptySeq
  <2>4. p + Len(ins) <= Len(text')
    BY <2>2, <2>3
  <2> QED BY <2>2, <2>4
<1>5. CASE del # 0 /\ ins # <<>>
  <2>1. /\ IF n = 0 THEN InsertBytes("none", p, ins)
           ELSE Edit("none", p, n, ins, FALSE)
        /\ prevMerge' = "none"
    BY <1>5 DEF ReplaceBytes
  <2>2. n \in 0..del /\ EndsWithNewline(Splice(text, p, n, ins))
    BY <1>1, <1>5, NetReplaceEnds
  <2> HIDE DEF n
  <2>3. CASE n = 0
    BY <1>2, <2>1, <2>3, InsertBytesStep
  <2>4. CASE n # 0
    <3>1. Edit("none", p, n, ins, FALSE)
      BY <2>1, <2>4
    <3>2. n \in Nat /\ p + n <= Len(text) /\ "none" \in Merges
          /\ Aligned("none", p, n, ins)
      BY <1>1, <2>2 DEF Aligned, Merges
    <3>3. EditDone
      BY <2>2, <3>1, <3>2, EditStep
    <3>4. Len(text') = Len(text) - n + Len(ins)
      BY <3>1, <3>2, EditLength
    <3>5. p + Len(ins) <= Len(text')
      BY <1>1, <3>2, <3>4
    <3> QED BY <2>1, <3>3, <3>5 DEF EditDone, HistoryStep
  <2> QED BY <2>3, <2>4
<1> QED BY <1>3, <1>4, <1>5

-----------------------------------------------------------------------------
(* The steps *)

\* What is left to show of a step, once its history is known to be whole.
LEMMA Assemble ==
  ASSUME HistoryOK(changes', snap', done', Here', text'), MergeOK',
         cur' \in Ids', saved' \in Ids', at' \in Ids',
         point' \in 0..Len(text'), prevMerge' \in Merges,
         barrier' \in BOOLEAN, pc' \in {"idle", "chain", "undo", "redo"},
         savedText' = snap'[saved']
  PROVE  IInv'
<1>1. /\ changes' \in Seq(ChangeRecs) /\ Len(changes') \in Nat
      /\ text' \in Seq(Bytes)
      /\ snap' \in [0..Len(changes') -> Seq(Bytes)]
      /\ done' \subseteq 0..Len(changes')
      /\ \A c \in 1..Len(changes') : changes'[c].next \in 0..(c - 1)
  BY HistoryTypes
<1>2. \A c \in 1..Len(changes') : changes'[c].next < c
  BY <1>1
<1>3. savedText' \in Seq(Bytes)
  BY <1>1 DEF Ids
<1>4. TypeOK'
  BY <1>1, <1>2, <1>3 DEF TypeOK, Ids
<1> QED BY <1>4 DEF IInv

LEMMA IInvReady ==
  ASSUME IInv, pc \in {"idle", "chain"}
  PROVE  /\ Ready
         /\ text \in Seq(Bytes) /\ Len(text) \in Nat /\ point \in 0..Len(text)
<1>1. Here = cur
  BY DEF Here
<1>2. TypeOK /\ HistoryOK(changes, snap, done, cur, text) /\ MergeOK
  BY <1>1, Zenon DEF IInv
<1> QED BY <1>2, LenProperties DEF Ready, TypeOK

\* A step of an editing command.
LEMMA EditPreserves ==
  ASSUME IInv, pc \in {"idle", "chain"}, HistoryStep, UNCHANGED <<savedVars, at>>,
         pc' \in {"idle", "chain"}, point' \in 0..Len(text'),
         barrier' \in BOOLEAN, prevMerge' \in Merges, MergeOK'
  PROVE  IInv'
<1>1. /\ saved' = saved /\ savedText' = savedText /\ at' = at
  BY DEF savedVars
<1>2. /\ saved \in Ids /\ at \in Ids /\ savedText = snap[saved]
      /\ Len(changes) \in Nat
  BY LenProperties DEF IInv, TypeOK
<1>3. /\ HistoryOK(changes', snap', done', cur', text')
      /\ cur' \in 0..Len(changes') /\ Len(changes') \in Nat
      /\ Len(changes') >= Len(changes)
      /\ \A c \in Ids : snap'[c] # snap[c] => c = cur /\ MayMerge
  BY HistoryTypes DEF HistoryStep
<1>4. Here' = cur'
  BY DEF Here
<1>5. HistoryOK(changes', snap', done', Here', text')
  BY <1>3, <1>4, Zenon
<1>6. snap'[saved] = snap[saved]
  BY <1>2, <1>3 DEF MayMerge, Fresh
<1>7. cur' \in Ids' /\ saved' \in Ids' /\ at' \in Ids'
  BY <1>1, <1>2, <1>3 DEF Ids
<1>8. savedText' = snap'[saved']
  BY <1>1, <1>2, <1>6, Zenon
<1>9. pc' \in {"idle", "chain", "undo", "redo"}
  OBVIOUS
<1> QED BY <1>5, <1>7, <1>8, <1>9, Assemble

\* The texts that a step leaves alone in the history.
Frozen == \A c \in Ids : snap'[c] # snap[c] => c = cur /\ MayMerge

LEMMA NoMerge ==
  ASSUME prevMerge' = "none"
  PROVE  prevMerge' \in Merges /\ MergeOK'
BY DEF Merges, MergeOK

LEMMA InsertChPreserves ==
  ASSUME IInv, NEW b \in Bytes \ {NL}, InsertCh(b)
  PROVE  IInv' /\ Frozen
<1> DEFINE ins == <<b>>
<1>1. ins \in Seq(Bytes) /\ Len(ins) = 1 /\ ins # <<>>
  OBVIOUS
<1>2. /\ pc = "idle" /\ InsertBytes("insert", point, ins) /\ point' = point + 1
      /\ prevMerge' = "insert" /\ UNCHANGED <<savedVars, pc, at>>
  BY DEF InsertCh, Idle
<1>3. Ready /\ point \in 0..Len(text) /\ point \in Nat
  BY <1>2, IInvReady
<1> HIDE DEF ins
<1>4. /\ HistoryStep
      /\ point + Len(ins) <= Len(text')
      /\ Fresh(changes', cur', saved)
      /\ changes'[cur'].buf = <<>>
      /\ changes'[cur'].off <= point
      /\ point + Len(ins) <= changes'[cur'].off + changes'[cur'].ins
  BY <1>1, <1>2, <1>3, InsertBytesStep
<1>5. /\ saved' = saved /\ pc' = "idle" /\ UNCHANGED <<savedVars, at>>
  BY <1>2 DEF savedVars
<1>6. /\ changes'[cur'].off \in Nat /\ changes'[cur'].ins \in Nat
      /\ Len(text') \in Nat
  <2>1. /\ changes' \in Seq(ChangeRecs) /\ cur' \in 0..Len(changes')
        /\ cur' # 0 /\ Len(changes') \in Nat /\ text' \in Seq(Bytes)
    BY <1>4, HistoryTypes DEF HistoryStep, Fresh
  <2>2. changes'[cur'] \in ChangeRecs
    BY <2>1, ElementOfSeq
  <2> QED BY <2>1, <2>2, LenProperties DEF ChangeRecs
<1>7. /\ changes'[cur'].off <= point'
      /\ point' <= changes'[cur'].off + changes'[cur'].ins
      /\ point' \in 0..Len(text')
  BY <1>1, <1>2, <1>3, <1>4, <1>6
<1>8. MayMerge'
  BY <1>4, <1>5, Zenon DEF MayMerge
<1>9. MergeOK'
  BY <1>2, <1>4, <1>5, <1>7, <1>8 DEF MergeOK
<1>10. barrier' \in BOOLEAN /\ prevMerge' \in Merges
  BY <1>1, <1>2 DEF InsertBytes, Edit, Merges
<1>11. pc \in {"idle", "chain"} /\ pc' \in {"idle", "chain"}
  BY <1>2, <1>5
<1>12. IInv'
  BY <1>4, <1>5, <1>7, <1>9, <1>10, <1>11, EditPreserves
<1> QED BY <1>4, <1>12 DEF HistoryStep, Frozen

LEMMA BarrierIsBoolean ==
  ASSUME IInv, NEW m, NEW p, NEW del, NEW ins, NEW after,
         \/ InsertBytes(m, p, ins)
         \/ DeleteBytes(m, p, del, after)
         \/ ReplaceBytes(p, del, ins, after)
  PROVE  barrier' \in BOOLEAN
<1>1. barrier \in BOOLEAN
  BY DEF IInv, TypeOK
<1>2. NoEdit => barrier' = barrier
  BY DEF NoEdit
<1>3. \A m2, p2, d2, i2, a2 : Edit(m2, p2, d2, i2, a2) => barrier' = FALSE
  BY DEF Edit
<1>4. \A m2, i2 : InsertBytes(m2, p, i2) => barrier' \in BOOLEAN
  BY <1>1, <1>2, <1>3 DEF InsertBytes
<1>5. \A m2 : DeleteBytes(m2, p, del, after) => barrier' \in BOOLEAN
  BY <1>1, <1>2, <1>3 DEF DeleteBytes
<1>6. ReplaceBytes(p, del, ins, after) => barrier' \in BOOLEAN
  BY <1>3, <1>4, <1>5 DEF ReplaceBytes
<1> QED BY <1>4, <1>5, <1>6

LEMMA DeleteChPreserves ==
  ASSUME IInv, DeleteCh
  PROVE  IInv' /\ Frozen
<1> DEFINE del == IF point = Len(text) THEN 0 ELSE 1
<1>1. /\ pc = "idle" /\ DeleteBytes("delete", point, del, FALSE)
      /\ point' = point /\ UNCHANGED <<savedVars, pc, at>>
  BY DEF DeleteCh, Idle
<1>2. Ready /\ point \in 0..Len(text) /\ Len(text) \in Nat
  BY <1>1, IInvReady
<1>3. /\ point \in Nat /\ del \in Nat /\ point + del <= Len(text)
      /\ del = 0 => point = Len(text)
  BY <1>2
<1>4. barrier' \in BOOLEAN
  BY <1>1, BarrierIsBoolean
<1> HIDE DEF del
<1>5. /\ HistoryStep
      /\ point <= Len(text')
      /\ \/ prevMerge' = "none"
         \/ del = 0 /\ text' = text /\ prevMerge' = "delete"
         \/ /\ prevMerge' = "delete" /\ Fresh(changes', cur', saved)
            /\ changes'[cur'].ins = 0 /\ changes'[cur'].off = point
  BY <1>1, <1>2, <1>3, DeleteBytesStep
<1>6. /\ saved' = saved /\ pc' = "idle" /\ UNCHANGED <<savedVars, at>>
  BY <1>1 DEF savedVars
<1>7. point' \in 0..Len(text') /\ prevMerge' \in Merges
  <2>1. Len(text') \in Nat
    BY <1>5, HistoryTypes, LenProperties DEF HistoryStep
  <2> QED BY <2>1, <1>1, <1>3, <1>5 DEF Merges
<1>8. MergeOK'
  <2>1. CASE prevMerge' = "none"
    BY <2>1, NoMerge
  <2>2. CASE del = 0 /\ text' = text /\ prevMerge' = "delete"
    <3>1. point' = Len(text')
      BY <1>1, <1>3, <2>2
    <3> QED BY <1>6, <2>2, <3>1 DEF MergeOK
  <2>3. CASE /\ prevMerge' = "delete" /\ Fresh(changes', cur', saved)
             /\ changes'[cur'].ins = 0 /\ changes'[cur'].off = point
    <3>1. MayMerge'
      BY <1>6, <2>3, Zenon DEF MayMerge
    <3> QED BY <1>1, <1>6, <2>3, <3>1 DEF MergeOK
  <2> QED BY <1>5, <2>1, <2>2, <2>3
<1>9. pc \in {"idle", "chain"} /\ pc' \in {"idle", "chain"}
  BY <1>1, <1>6
<1>10. IInv'
  BY <1>4, <1>5, <1>6, <1>7, <1>8, <1>9, EditPreserves
<1> QED BY <1>5, <1>10 DEF HistoryStep, Frozen

LEMMA ErasePreserves ==
  ASSUME IInv, Erase
  PROVE  IInv' /\ Frozen
<1> DEFINE size == IF point = 0 THEN 0 ELSE 1
           p == point - size
<1>1. /\ pc = "idle" /\ DeleteBytes("erase", p, size, TRUE)
      /\ point' = p /\ UNCHANGED <<savedVars, pc, at>>
  BY DEF Erase, Idle
<1>2. Ready /\ point \in 0..Len(text) /\ Len(text) \in Nat
  BY <1>1, IInvReady
<1>3. /\ p \in Nat /\ size \in Nat /\ size <= 1 /\ p + size <= Len(text)
      /\ p + size = point
      /\ size = 0 => p = 0
  BY <1>2
<1>4. barrier' \in BOOLEAN
  BY <1>1, BarrierIsBoolean
<1> HIDE DEF size, p
<1>5. /\ HistoryStep
      /\ p <= Len(text')
      /\ \/ prevMerge' = "none"
         \/ size = 0 /\ prevMerge' = "erase"
         \/ /\ prevMerge' = "erase" /\ Fresh(changes', cur', saved)
            /\ changes'[cur'].ins = 0 /\ changes'[cur'].off = p
  BY <1>1, <1>2, <1>3, DeleteBytesStep
<1>6. /\ saved' = saved /\ pc' = "idle" /\ UNCHANGED <<savedVars, at>>
  BY <1>1 DEF savedVars
<1>7. point' \in 0..Len(text') /\ prevMerge' \in Merges
  <2>1. Len(text') \in Nat
    BY <1>5, HistoryTypes, LenProperties DEF HistoryStep
  <2> QED BY <2>1, <1>1, <1>3, <1>5 DEF Merges
<1>8. MergeOK'
  <2>1. CASE prevMerge' = "none"
    BY <2>1, NoMerge
  <2>2. CASE size = 0 /\ prevMerge' = "erase"
    <3>1. point' = 0
      BY <1>1, <1>3, <2>2
    <3> QED BY <1>6, <2>2, <3>1 DEF MergeOK
  <2>3. CASE /\ prevMerge' = "erase" /\ Fresh(changes', cur', saved)
             /\ changes'[cur'].ins = 0 /\ changes'[cur'].off = p
    <3>1. MayMerge'
      BY <1>6, <2>3, Zenon DEF MayMerge
    <3> QED BY <1>1, <1>6, <2>3, <3>1 DEF MergeOK
  <2> QED BY <1>5, <2>1, <2>2, <2>3
<1>9. pc \in {"idle", "chain"} /\ pc' \in {"idle", "chain"}
  BY <1>1, <1>6
<1>10. IInv'
  BY <1>4, <1>5, <1>6, <1>7, <1>8, <1>9, EditPreserves
<1> QED BY <1>5, <1>10 DEF HistoryStep, Frozen

\* Commands that replace some text.
LEMMA ReplacePreserves ==
  ASSUME IInv, pc \in {"idle", "chain"}, NEW p \in Nat, NEW del \in Nat,
         p + del <= Len(text), NEW ins \in Seq(Bytes), NEW after \in BOOLEAN,
         ReplaceBytes(p, del, ins, after),
         point' = p \/ point' = p + Len(ins),
         UNCHANGED <<savedVars, pc, at>>
  PROVE  IInv' /\ Frozen
<1>1. Ready
  BY IInvReady
<1>2. /\ HistoryStep /\ p + Len(ins) <= Len(text') /\ prevMerge' = "none"
  BY <1>1, ReplaceBytesStep
<1>3. Len(text') \in Nat /\ Len(ins) \in Nat
  BY <1>2, HistoryTypes, LenProperties DEF HistoryStep
<1>4. point' \in 0..Len(text')
  BY <1>2, <1>3
<1>5. barrier' \in BOOLEAN
  BY BarrierIsBoolean
<1>6. UNCHANGED <<savedVars, at>> /\ pc' \in {"idle", "chain"}
  OBVIOUS
<1>7. IInv'
  BY <1>2, <1>4, <1>5, <1>6, NoMerge, EditPreserves
<1> QED BY <1>2, <1>7 DEF HistoryStep, Frozen

LEMMA EditCommandPreserves ==
  ASSUME IInv, NEW del \in 0..Len(text), NEW ins \in Payloads,
         NEW after \in BOOLEAN, EditCommand(del, ins, after)
  PROVE  IInv' /\ Frozen
<1>1. pc \in {"idle", "chain"}
  BY DEF EditCommand, Idle
<1>2. point \in Nat /\ del \in Nat /\ ins \in Seq(Bytes)
  BY <1>1, IInvReady, PayloadsAssumption
<1> QED BY <1>1, <1>2, ReplacePreserves DEF EditCommand

LEMMA ChainEditPreserves ==
  ASSUME IInv, NEW p \in 0..Len(text), NEW del \in 0..Len(text),
         NEW ins \in Payloads, ChainEdit(p, del, ins)
  PROVE  IInv' /\ Frozen
<1>1. pc \in {"idle", "chain"}
  BY DEF ChainEdit
<1>2. p \in Nat /\ del \in Nat /\ ins \in Seq(Bytes)
  BY <1>1, IInvReady, PayloadsAssumption
<1> QED BY <1>1, <1>2, ReplacePreserves DEF ChainEdit

\* Steps that leave the text, the tree and the history alone.
LEMMA SameHistory ==
  ASSUME IInv, pc \in {"idle", "chain"}, pc' \in {"idle", "chain"},
         UNCHANGED <<text, treeVars, at, snap, done>>,
         barrier' \in BOOLEAN, point' \in 0..Len(text), prevMerge' = "none",
         \/ UNCHANGED savedVars
         \/ saved' = cur /\ savedText' = text
  PROVE  IInv' /\ Frozen
<1>1. /\ text' = text /\ changes' = changes /\ cur' = cur /\ at' = at
      /\ snap' = snap /\ done' = done /\ Ids' = Ids
  BY DEF treeVars, Ids
<1>2. /\ HistoryOK(changes, snap, done, cur, text)
      /\ cur \in Ids /\ at \in Ids /\ saved \in Ids
      /\ savedText = snap[saved] /\ text = snap[cur]
  BY DEF IInv, TypeOK, HistoryOK, Here
<1>3. Here' = cur'
  BY DEF Here
<1>4. HistoryOK(changes', snap', done', Here', text')
  BY <1>1, <1>2, <1>3, Zenon
<1>5. cur' \in Ids' /\ at' \in Ids' /\ saved' \in Ids' /\ savedText' = snap'[saved']
  BY <1>1, <1>2, Zenon DEF savedVars
<1>6. point' \in 0..Len(text') /\ pc' \in {"idle", "chain", "undo", "redo"}
  BY <1>1
<1>7. IInv'
  BY <1>4, <1>5, <1>6, NoMerge, Assemble
<1> QED BY <1>1, <1>7 DEF Frozen

LEMMA MovePreserves ==
  ASSUME IInv, NEW p \in 0..Len(text), Move(p)
  PROVE  IInv' /\ Frozen
<1>1. /\ pc \in {"idle", "chain"} /\ pc' \in {"idle", "chain"}
      /\ UNCHANGED <<text, treeVars, at, snap, done>>
      /\ barrier' = barrier /\ point' \in 0..Len(text) /\ prevMerge' = "none"
      /\ UNCHANGED savedVars
  BY DEF Move, Idle
<1>2. barrier' \in BOOLEAN
  BY <1>1 DEF IInv, TypeOK
<1> QED BY <1>1, <1>2, SameHistory

LEMMA BeginChangeChainPreserves ==
  ASSUME IInv, BeginChangeChain
  PROVE  IInv' /\ Frozen
<1>1. /\ pc \in {"idle", "chain"} /\ pc' \in {"idle", "chain"}
      /\ UNCHANGED <<text, treeVars, at, snap, done>>
      /\ barrier' \in BOOLEAN /\ point' = point /\ prevMerge' = "none"
      /\ UNCHANGED savedVars
  BY DEF BeginChangeChain, Idle, bufferVars
<1>2. point' \in 0..Len(text)
  BY <1>1 DEF IInv, TypeOK
<1> QED BY <1>1, <1>2, SameHistory

LEMMA SavePreserves ==
  ASSUME IInv, Save
  PROVE  IInv' /\ Frozen
<1>1. /\ pc \in {"idle", "chain"} /\ pc' \in {"idle", "chain"}
      /\ UNCHANGED <<text, treeVars, at, snap, done>>
      /\ barrier' = barrier /\ point' = point /\ prevMerge' = "none"
      /\ saved' = cur /\ savedText' = text
  BY DEF Save, Idle, bufferVars
<1>2. point' \in 0..Len(text) /\ barrier' \in BOOLEAN
  BY <1>1 DEF IInv, TypeOK
<1> QED BY <1>1, <1>2, SameHistory

\* The merge is NONE inside a chain already.
LEMMA EndChangeChainPreserves ==
  ASSUME IInv, EndChangeChain
  PROVE  IInv' /\ Frozen
<1> DEFINE n == Len(changes)
<1>1. /\ pc = "chain" /\ pc' = "idle" /\ barrier' = FALSE
      /\ UNCHANGED <<bufferVars, savedVars, prevMerge, at>>
  BY DEF EndChangeChain
<1>2. prevMerge = "none"
  BY <1>1 DEF IInv, MergeOK, TypeOK, Merges
<1>3. /\ prevMerge' = "none" /\ text' = text /\ point' = point /\ at' = at
      /\ saved' = saved /\ savedText' = savedText
  BY <1>1, <1>2 DEF bufferVars, savedVars
<1>4. /\ Ready /\ text \in Seq(Bytes) /\ point \in 0..Len(text)
  BY <1>1, IInvReady
<1>5. HistoryStep
  <2>1. CASE barrier
    <3>1. changes' = changes /\ cur' = cur /\ snap' = snap /\ done' = done
      BY <2>1 DEF EndChangeChain, treeVars
    <3>2. HistoryOK(changes', snap', done', cur', text')
      BY <1>3, <1>4, <3>1, Zenon DEF Ready
    <3>3. Len(changes') >= Len(changes)
      BY <1>4, <3>1, HistoryTypes DEF Ready
    <3> QED BY <3>1, <3>2, <3>3, Zenon DEF HistoryStep
  <2>2. CASE ~barrier
    <3>1. /\ changes' = Append(changes, BarrierRec(cur))
          /\ cur' = n + 1
          /\ done' = done \cup {n + 1}
          /\ snap' = AddSnap(snap, n + 1, text)
      BY <2>2 DEF EndChangeChain
    <3>2. /\ HistoryOK(changes, snap, done, cur, text) /\ n \in Nat
          /\ cur \in Nat /\ EndsWithNewline(text)
      BY <1>4, HistoryTypes DEF Ready
    <3>3. /\ BarrierRec(cur) \in ChangeRecs /\ BarrierRec(cur).next = cur
          /\ Leads(BarrierRec(cur), text, text)
      BY <1>4, <3>2, BarrierLeads
    <3>4. Grown(changes, snap, done, BarrierRec(cur), text)
      BY <1>4, <3>2, <3>3, HistoryNew
    <3>5. /\ HistoryOK(changes', snap', done', cur', text')
          /\ Len(changes') = n + 1
          /\ \A c \in 0..n : snap'[c] = snap[c]
      BY <1>3, <3>1, <3>4, Zenon DEF Grown
    <3>6. Len(changes') >= n
      BY <3>2, <3>5
    <3> QED BY <3>5, <3>6, Zenon DEF HistoryStep, n, Ids
  <2>3. barrier \in BOOLEAN
    BY DEF IInv, TypeOK
  <2> QED BY <2>1, <2>2, <2>3
<1>6. /\ UNCHANGED <<savedVars, at>> /\ pc \in {"idle", "chain"}
      /\ pc' \in {"idle", "chain"} /\ barrier' \in BOOLEAN
      /\ point' \in 0..Len(text')
  BY <1>1, <1>3, <1>4
<1>7. IInv'
  BY <1>3, <1>5, <1>6, NoMerge, EditPreserves
<1> QED BY <1>5, <1>7 DEF HistoryStep, Frozen

\* One turn of undo(): the Change at the end of the path is reversed, unless
\* it is a barrier.
ReverseAt(c) ==
  IF IsBarrier(c) THEN UNCHANGED <<bufferVars, changes>> ELSE ReverseChange(c)

LEMMA ReverseStep ==
  ASSUME text \in Seq(Bytes), point \in 0..Len(text),
         changes \in Seq(ChangeRecs), NEW c \in 1..Len(changes),
         Fits(text, changes[c]), ReverseAt(c)
  PROVE  /\ text' = Back(text, changes[c])
         /\ changes' = ReversedAt(changes, c, text)
         /\ point' \in 0..Len(text')
<1> DEFINE r == changes[c]
<1>1. r \in ChangeRecs /\ Len(changes) \in Nat /\ c # 0
  BY ElementOfSeq, LenProperties
<1> HIDE DEF r
<1>2. CASE IsBarrier(c)
  <2>1. /\ r.ins = 0 /\ r.buf = <<>>
        /\ text' = text /\ point' = point /\ changes' = changes
    BY <1>1, <1>2 DEF IsBarrier, ReverseAt, bufferVars, r
  <2>2. Reversed(text, r) = r /\ Back(text, r) = text
    BY <1>1, <2>1, ReversedBarrier DEF r
  <2>3. ReversedAt(changes, c, text) = changes
    BY <2>2 DEF ReversedAt, r
  <2> QED BY <2>1, <2>2, <2>3 DEF r
<1>3. CASE ~IsBarrier(c)
  <2>1. /\ text' = Back(text, r)
        /\ changes' = ReversedAt(changes, c, text)
        /\ point' = r.off \/ point' = r.off + Len(r.buf)
    BY <1>3 DEF ReverseAt, ReverseChange, Back, Reversed, ReversedAt, r
  <2>2. /\ Back(text, r) \in Seq(Bytes)
        /\ Reversed(text, r).off = r.off
        /\ Reversed(text, r).ins = Len(r.buf)
        /\ Leads(Reversed(text, r), Back(text, r), text)
    BY <1>1, ReversedLeads DEF r
  <2>3. r.off + Len(r.buf) <= Len(text') /\ text' \in Seq(Bytes)
    BY <2>1, <2>2, Zenon DEF Leads, Fits
  <2>4. r.off \in Nat /\ Len(r.buf) \in Nat /\ Len(text') \in Nat
    <3>1. r.off \in Nat /\ r.buf \in Seq(Bytes)
      BY <1>1 DEF ChangeRecs
    <3> QED BY <2>3, <3>1, LenProperties
  <2>5. point' \in 0..Len(text')
    BY <2>1, <2>3, <2>4
  <2> QED BY <2>1, <2>5 DEF r
<1> QED BY <1>2, <1>3

\* What undo and redo leave of the tree.
ReverseDone(here) ==
  /\ HistoryOK(changes', snap, done', here, text')
  /\ Len(changes') = Len(changes)
  /\ point' \in 0..Len(text')

LEMMA UndoAt ==
  ASSUME NEW here, HistoryOK(changes, snap, done, here, text), here # 0,
         point \in 0..Len(text), done' = done \ {here}, ReverseAt(here)
  PROVE  /\ ReverseDone(changes[here].next)
         /\ here \in 1..Len(changes)
         /\ changes[here].next \in 0..Len(changes)
<1>1. /\ changes \in Seq(ChangeRecs) /\ Len(changes) \in Nat
      /\ text \in Seq(Bytes) /\ here \in 0..Len(changes) /\ text = snap[here]
      /\ \A c \in 1..Len(changes) : changes[c].next \in 0..(c - 1)
  BY HistoryTypes
<1>2. here \in 1..Len(changes)
  BY <1>1
<1>3. changes[here].next \in 0..Len(changes)
  BY <1>1, <1>2
<1>4. Fits(text, changes[here])
  <2>1. here \in done /\ LinkOK(changes, snap, done, here)
    BY <1>2 DEF HistoryOK, TreeOK, PathOK
  <2> QED BY <1>1, <2>1, Zenon DEF LinkOK, Leads
<1>5. /\ text' = Back(text, changes[here])
      /\ changes' = ReversedAt(changes, here, text)
      /\ point' \in 0..Len(text')
  BY <1>1, <1>2, <1>4, ReverseStep
<1>6. HistoryOK(ReversedAt(changes, here, text), snap, done \ {here},
                changes[here].next, Back(text, changes[here]))
  BY HistoryUndo
<1>7. Len(ReversedAt(changes, here, text)) = Len(changes)
  BY <1>1 DEF ReversedAt
<1> QED BY <1>2, <1>3, <1>5, <1>6, <1>7, Zenon DEF ReverseDone

LEMMA RedoAt ==
  ASSUME NEW here, HistoryOK(changes, snap, done, here, text),
         NEW c \in 1..Len(changes), changes[c].next = here,
         point \in 0..Len(text), done' = done \cup {c}, ReverseAt(c)
  PROVE  ReverseDone(c)
<1>1. /\ changes \in Seq(ChangeRecs) /\ Len(changes) \in Nat
      /\ text \in Seq(Bytes) /\ text = snap[here]
      /\ \A d \in 1..Len(changes) : changes[d].next \in 0..(d - 1)
  BY HistoryTypes
<1>2. c \notin done
  <2>1. \A d \in 1..Len(changes) : changes[d].next # d
    BY <1>1
  <2> QED BY <1>1, <2>1, PathRedo DEF HistoryOK
<1>3. Fits(text, changes[c])
  <2>1. LinkOK(changes, snap, done, c)
    BY DEF HistoryOK, TreeOK
  <2> QED BY <1>1, <1>2, <2>1, Zenon DEF LinkOK, Leads
<1>4. /\ text' = Back(text, changes[c])
      /\ changes' = ReversedAt(changes, c, text)
      /\ point' \in 0..Len(text')
  BY <1>1, <1>3, ReverseStep
<1>5. HistoryOK(ReversedAt(changes, c, text), snap, done \cup {c}, c,
                Back(text, changes[c]))
  BY HistoryRedo
<1>6. Len(ReversedAt(changes, c, text)) = Len(changes)
  BY <1>1 DEF ReversedAt
<1> QED BY <1>4, <1>5, <1>6, Zenon DEF ReverseDone

\* What the steps of undo and redo have in common.
LEMMA ReversePreserves ==
  ASSUME IInv, UNCHANGED <<savedVars, barrier, snap>>, prevMerge' = "none",
         ReverseDone(Here'), cur' \in Ids, at' \in Ids,
         pc' \in {"idle", "chain", "undo", "redo"}
  PROVE  IInv' /\ Frozen
<1>1. /\ saved' = saved /\ savedText' = savedText
      /\ barrier' = barrier /\ snap' = snap
  BY DEF savedVars
<1>2. saved \in Ids /\ savedText = snap[saved] /\ barrier \in BOOLEAN
  BY DEF IInv, TypeOK
<1>3. /\ HistoryOK(changes', snap', done', Here', text')
      /\ Ids' = Ids /\ point' \in 0..Len(text')
  BY <1>1 DEF ReverseDone, Ids
<1>4. /\ saved' \in Ids' /\ cur' \in Ids' /\ at' \in Ids'
      /\ savedText' = snap'[saved'] /\ barrier' \in BOOLEAN
  BY <1>1, <1>2, <1>3
<1>5. IInv'
  BY <1>3, <1>4, NoMerge, Assemble
<1> QED BY <1>1, <1>5 DEF Frozen

LEMMA UndoPreserves ==
  ASSUME IInv, Undo
  PROVE  IInv' /\ Frozen
<1>1. /\ pc = "idle" /\ cur # 0 /\ prevMerge' = "none" /\ done' = done \ {cur}
      /\ UNCHANGED <<savedVars, barrier, snap>> /\ ReverseAt(cur)
      /\ IF IsBarrier(cur)
         THEN at' = changes[cur].next /\ pc' = "undo" /\ cur' = cur
         ELSE cur' = changes[cur].next /\ pc' = pc /\ at' = at
  BY DEF Undo, Idle, ReverseAt, treeVars
<1>2. /\ HistoryOK(changes, snap, done, cur, text) /\ point \in 0..Len(text)
      /\ cur \in Ids /\ at \in Ids
  BY <1>1 DEF IInv, TypeOK, Here
<1>3. /\ ReverseDone(changes[cur].next) /\ changes[cur].next \in Ids
  BY <1>1, <1>2, UndoAt DEF Ids
<1>4. Here' = changes[cur].next
  BY <1>1 DEF Here
<1>5. cur' \in Ids /\ at' \in Ids /\ pc' \in {"idle", "chain", "undo", "redo"}
  BY <1>1, <1>2, <1>3
<1>6. ReverseDone(Here')
  BY <1>3, <1>4, Zenon
<1> QED BY <1>1, <1>5, <1>6, ReversePreserves

LEMMA UndoChainStepPreserves ==
  ASSUME IInv, UndoChainStep
  PROVE  IInv' /\ Frozen
<1>1. /\ pc = "undo" /\ at # 0 /\ prevMerge' = prevMerge /\ done' = done \ {at}
      /\ UNCHANGED <<savedVars, barrier, snap>> /\ ReverseAt(at)
      /\ IF IsBarrier(at)
         THEN cur' = changes[at].next /\ pc' = "idle" /\ at' = 0
         ELSE at' = changes[at].next /\ pc' = pc /\ cur' = cur
  BY DEF UndoChainStep, ReverseAt
<1>2. /\ HistoryOK(changes, snap, done, at, text) /\ point \in 0..Len(text)
      /\ cur \in Ids /\ 0 \in Ids
  BY <1>1, HistoryTypes DEF IInv, TypeOK, Here, Ids
<1>3. /\ ReverseDone(changes[at].next) /\ changes[at].next \in Ids
  BY <1>1, <1>2, UndoAt DEF Ids
<1>4. Here' = changes[at].next
  BY <1>1 DEF Here
<1>5. cur' \in Ids /\ at' \in Ids /\ pc' \in {"idle", "chain", "undo", "redo"}
  BY <1>1, <1>2, <1>3
<1>6. ReverseDone(Here')
  BY <1>3, <1>4, Zenon
<1>7. prevMerge' = "none"
  BY <1>1 DEF IInv, TypeOK, Merges, MergeOK
<1> QED BY <1>1, <1>5, <1>6, <1>7, ReversePreserves

LEMMA RedoPreserves ==
  ASSUME IInv, NEW c \in 1..Len(changes), Redo(c)
  PROVE  IInv' /\ Frozen
<1>1. /\ pc = "idle" /\ prevMerge' = "none" /\ done' = done \cup {c}
      /\ UNCHANGED <<savedVars, barrier, snap>> /\ ReverseAt(c)
      /\ changes[c].next = cur
      /\ IF IsBarrier(c)
         THEN at' = c /\ pc' = "redo" /\ cur' = cur
         ELSE cur' = c /\ pc' = pc /\ at' = at
  BY DEF Redo, Idle, Kids, ReverseAt, treeVars
<1>2. /\ HistoryOK(changes, snap, done, cur, text) /\ point \in 0..Len(text)
      /\ cur \in Ids /\ at \in Ids
  BY <1>1 DEF IInv, TypeOK, Here
<1>3. ReverseDone(c)
  BY <1>1, <1>2, RedoAt
<1>4. Here' = c /\ c \in Ids
  BY <1>1 DEF Here, Ids
<1>5. cur' \in Ids /\ at' \in Ids /\ pc' \in {"idle", "chain", "undo", "redo"}
  BY <1>1, <1>2, <1>4
<1>6. ReverseDone(Here')
  BY <1>3, <1>4, Zenon
<1> QED BY <1>1, <1>5, <1>6, ReversePreserves

LEMMA RedoChainStepPreserves ==
  ASSUME IInv, RedoChainStep
  PROVE  IInv' /\ Frozen
<1>1. PICK c \in Kids(at) :
        /\ pc = "redo" /\ prevMerge' = prevMerge /\ done' = done \cup {c}
        /\ UNCHANGED <<savedVars, barrier, snap>> /\ ReverseAt(c)
        /\ IF IsBarrier(c)
           THEN cur' = c /\ pc' = "idle" /\ at' = 0
           ELSE at' = c /\ pc' = pc /\ cur' = cur
  BY DEF RedoChainStep, ReverseAt
<1>2. c \in 1..Len(changes) /\ changes[c].next = at
  BY DEF Kids
<1>3. /\ HistoryOK(changes, snap, done, at, text) /\ point \in 0..Len(text)
      /\ cur \in Ids /\ 0 \in Ids
  BY <1>1, HistoryTypes DEF IInv, TypeOK, Here, Ids
<1>4. ReverseDone(c)
  BY <1>1, <1>2, <1>3, RedoAt
<1>5. Here' = c /\ c \in Ids
  BY <1>1, <1>2 DEF Here, Ids
<1>6. cur' \in Ids /\ at' \in Ids /\ pc' \in {"idle", "chain", "undo", "redo"}
  BY <1>1, <1>3, <1>5
<1>7. ReverseDone(Here')
  BY <1>4, <1>5, Zenon
<1>8. prevMerge' = "none"
  BY <1>1 DEF IInv, TypeOK, Merges, MergeOK
<1> QED BY <1>1, <1>6, <1>7, <1>8, ReversePreserves

-----------------------------------------------------------------------------
(* The theorems *)

\* A buffer that was just loaded has the root Change alone.
THEOREM InitHistory == Init => IInv
<1> SUFFICES ASSUME Init
             PROVE  IInv
  OBVIOUS
<1>1. /\ text \in Seq(Bytes) /\ EndsWithNewline(text) /\ Len(text) \in Nat
      /\ point = 0 /\ changes = <<>> /\ cur = 0 /\ saved = 0
      /\ prevMerge = "none" /\ barrier = FALSE /\ pc = "idle" /\ at = 0
      /\ snap = [c \in {0} |-> text] /\ done = {0} /\ savedText = text
  BY InitTextsAssumption, LenProperties DEF Init, EndsWithNewline, LastByte
<1>2. /\ changes \in Seq(ChangeRecs) /\ Len(changes) = 0
  BY <1>1, EmptySeq
<1>3. /\ Ids = {0} /\ 0..Len(changes) = {0} /\ 1..Len(changes) = {}
      /\ snap \in [{0} -> Seq(Bytes)] /\ snap[0] = text
  BY <1>1, <1>2 DEF Ids
<1>4. TypeOK
  BY <1>1, <1>2, <1>3 DEF TypeOK, Merges
<1>5. HistoryOK(changes, snap, done, 0, text)
  <2>1. TreeOK(changes, snap, done)
    BY <1>1, <1>2, <1>3 DEF TreeOK
  <2>2. PathOK(changes, done, 0)
    BY <1>1, <1>3 DEF PathOK
  <2> QED BY <2>1, <2>2, <1>3 DEF HistoryOK
<1>6. Here = 0
  BY <1>1 DEF Here
<1>7. MergeOK
  BY <1>1 DEF MergeOK
<1> QED BY <1>1, <1>3, <1>4, <1>5, <1>6, <1>7 DEF IInv

\* Every command and every turn of the loops of undo and redo keeps IInv.
THEOREM NextHistory == IInv /\ [Next]_vars => IInv' /\ Frozen
<1> SUFFICES ASSUME IInv, [Next]_vars
             PROVE  IInv' /\ Frozen
  OBVIOUS
<1>1. ASSUME NEW b \in Bytes \ {NL}, InsertCh(b)
      PROVE  IInv' /\ Frozen
  BY <1>1, InsertChPreserves
<1>2. CASE DeleteCh
  BY <1>2, DeleteChPreserves
<1>3. CASE Erase
  BY <1>3, ErasePreserves
<1>4. ASSUME NEW del \in 0..Len(text), NEW ins \in Payloads,
             NEW after \in BOOLEAN, EditCommand(del, ins, after)
      PROVE  IInv' /\ Frozen
  BY <1>4, EditCommandPreserves
<1>5. ASSUME NEW p \in 0..Len(text), Move(p)
      PROVE  IInv' /\ Frozen
  BY <1>5, MovePreserves
<1>6. CASE BeginChangeChain
  BY <1>6, BeginChangeChainPreserves
<1>7. ASSUME NEW p \in 0..Len(text), NEW del \in 0..Len(text),
             NEW ins \in Payloads, ChainEdit(p, del, ins)
      PROVE  IInv' /\ Frozen
  BY <1>7, ChainEditPreserves
<1>8. CASE EndChangeChain
  BY <1>8, EndChangeChainPreserves
<1>9. CASE Undo
  BY <1>9, UndoPreserves
<1>10. CASE UndoChainStep
  BY <1>10, UndoChainStepPreserves
<1>11. ASSUME NEW c \in 1..Len(changes), Redo(c)
       PROVE  IInv' /\ Frozen
  BY <1>11, RedoPreserves
<1>12. CASE RedoChainStep
  BY <1>12, RedoChainStepPreserves
<1>13. CASE Save
  BY <1>13, SavePreserves
<1>14. CASE UNCHANGED vars
  <2>1. /\ IInv' <=> IInv
        /\ snap' = snap
    BY <1>14 DEF vars, IInv, TypeOK, MergeOK, MayMerge, Here, Ids
  <2> QED BY <2>1 DEF Frozen
<1> QED
  BY <1>1, <1>2, <1>3, <1>4, <1>5, <1>6, <1>7, <1>8, <1>9, <1>10, <1>11, <1>12,
     <1>13, <1>14 DEF Next

THEOREM HistoryInvariant == Spec => []IInv
BY InitHistory, NextHistory, PTL DEF Spec

\* Every variable keeps its type, and a Change is younger than its parent.
THEOREM TypeCorrect == Spec => []TypeOK
<1>1. IInv => TypeOK
  BY DEF IInv
<1> QED BY <1>1, HistoryInvariant, PTL

\* Undo and redo restore every text exactly, in any order of edits, merges,
\* chains and branches, and at every turn of their loops (reverse_change).
THEOREM UndoIsExact == Spec => []HistoryIsExact
<1>1. IInv => HistoryIsExact
  BY DEF IInv, HistoryOK, HistoryIsExact
<1> QED BY <1>1, HistoryInvariant, PTL

\* A buffer that buffer_modified() calls unmodified holds the saved text.
THEOREM SavedIsExact == Spec => []UnmodifiedIsSaved
<1>1. IInv => UnmodifiedIsSaved
  <2>1. pc = "idle" => Here = cur
    BY DEF Here
  <2> QED BY <2>1 DEF IInv, HistoryOK, UnmodifiedIsSaved, Modified, Idle
<1> QED BY <1>1, HistoryInvariant, PTL

\* No edit, undo or redo leaves a text whose last line is incomplete.
THEOREM NewlineAtEnd == Spec => []TextEndsWithNewline
<1>1. IInv => TextEndsWithNewline
  <2>1. IInv => EndsWithNewline(text)
    BY HistoryTypes DEF IInv
  <2> QED BY <2>1 DEF EndsWithNewline, TextEndsWithNewline
<1> QED BY <1>1, HistoryInvariant, PTL

\* Merging rewrites the current Change only, and only if nothing refers to it.
THEOREM MergesAreSafe == Spec => HistoryIsFrozen
<1>1. IInv /\ Frozen =>
        \A c \in Ids : snap'[c] # snap[c] =>
          c = cur /\ c # 0 /\ c # saved /\ Kids(c) = {}
  BY DEF Frozen, MayMerge, Fresh, Kids
<1>2. IInv /\ [Next]_vars =>
        [\A c \in Ids : snap'[c] # snap[c] =>
          c = cur /\ c # 0 /\ c # saved /\ Kids(c) = {}]_vars
  BY <1>1, NextHistory
<1> QED BY <1>2, HistoryInvariant, PTL DEF Spec, HistoryIsFrozen

-----------------------------------------------------------------------------
(* Chains: the loops of undo() and redo() always meet the barrier they run *)
(* to.  Depth is a recursive function of the tree, so what a step does to  *)
(* it is shown in two parts: each step extends a function that follows the *)
(* recursion, and no two functions do.                                     *)

Tree(ch) == Len(ch) \in Nat /\ \A c \in 1..Len(ch) : ch[c].next \in 0..(c - 1)

Empty(r) == r.ins = 0 /\ r.buf = <<>>
BarrierIn(ch, c) == c = 0 \/ Empty(ch[c])
KidsIn(ch, c) == {k \in 1..Len(ch) : ch[k].next = c}

\* What d has to be below a Change of depth v.
Deeper(r, v) == IF Empty(r) THEN 1 - v ELSE v

IsDepth(d, ch) ==
  /\ d \in [0..Len(ch) -> {0, 1}]
  /\ d[0] = 0
  /\ \A c \in 1..Len(ch) : d[c] = Deeper(ch[c], d[ch[c].next])

Recursion(f, ch) ==
  f = [c \in 0..Len(ch) |->
         IF c = 0 THEN 0
         ELSE IF c = 0 \/ (ch[c].ins = 0 /\ ch[c].buf = <<>>) THEN 1 - f[ch[c].next]
         ELSE f[ch[c].next]]

\* The recursion has one solution.
LEMMA DepthIsUnique ==
  ASSUME NEW ch, Tree(ch), NEW d, IsDepth(d, ch), NEW f, Recursion(f, ch)
  PROVE  f = d
<1> DEFINE T == {c \in 0..Len(ch) : f[c] # d[c]}
<1>1. f = [c \in 0..Len(ch) |-> f[c]] /\ d = [c \in 0..Len(ch) |-> d[c]]
  BY DEF Recursion, IsDepth
<1>2. SUFFICES ASSUME T # {} PROVE FALSE
  BY <1>1
<1>3. T \in SUBSET Nat
  BY DEF Tree
<1>4. PICK m \in T : \A k \in T : m <= k
  BY <1>2, <1>3, LeastNumber
<1>5. m \in 0..Len(ch) /\ f[m] # d[m] /\ f[0] = d[0]
  BY <1>4 DEF Recursion, IsDepth, Tree
<1>6. m \in 1..Len(ch) /\ ch[m].next \in 0..Len(ch) /\ ch[m].next < m
  BY <1>5 DEF Tree
<1>7. f[ch[m].next] = d[ch[m].next]
  BY <1>4, <1>6 DEF Tree
<1>8. f[m] = Deeper(ch[m], f[ch[m].next])
  BY <1>6 DEF Recursion, Deeper, Empty
<1> QED
  BY <1>5, <1>6, <1>7, <1>8 DEF IsDepth

LEMMA DepthSolves ==
  ASSUME NEW ch, Tree(ch), NEW d, IsDepth(d, ch)
  PROVE  Recursion(d, ch)
<1>1. d = [c \in 0..Len(ch) |-> d[c]]
  BY DEF IsDepth
<1>2. \A c \in 0..Len(ch) :
        d[c] = IF c = 0 THEN 0
               ELSE IF c = 0 \/ (ch[c].ins = 0 /\ ch[c].buf = <<>>) THEN 1 - d[ch[c].next]
               ELSE d[ch[c].next]
  <2> SUFFICES ASSUME NEW c \in 0..Len(ch), c # 0 PROVE d[c] = Deeper(ch[c], d[ch[c].next])
    BY DEF IsDepth, Deeper, Empty
  <2>1. c \in 1..Len(ch)
    BY DEF Tree
  <2> QED
    BY <2>1 DEF IsDepth
<1> QED
  BY <1>1, <1>2 DEF Recursion

LEMMA DepthIs ==
  ASSUME Tree(changes), NEW d, IsDepth(d, changes)
  PROVE  Depth = d
<1>1. Depth = CHOOSE f : Recursion(f, changes)
  BY DEF Depth, Recursion, IsBarrier, Ids
<1>2. Recursion(d, changes)
  BY DepthSolves
<1>3. Recursion(Depth, changes)
  BY <1>1, <1>2
<1> QED
  BY <1>3, DepthIsUnique

-----------------------------------------------------------------------------
(* Whole trees *)

NoOne == -1

\* The chains of a tree are whole, but for the one that "open" is the end of.
Whole(ch, d, open) ==
  /\ IsDepth(d, ch)
  /\ \A c \in 1..Len(ch) : d[c] = 1 =>
       \/ c = open /\ KidsIn(ch, c) = {}
       \/ \E k \in 1..Len(ch) : KidsIn(ch, c) = {k}
  /\ \A c \in 1..Len(ch) : Empty(ch[c]) /\ d[c] = 0 => ~BarrierIn(ch, ch[c].next)

\* Undo, redo and merges keep the shape of the tree.
SameShape(ch, ch2) ==
  /\ Len(ch2) = Len(ch)
  /\ \A c \in 1..Len(ch) : ch2[c].next = ch[c].next /\ (Empty(ch2[c]) <=> Empty(ch[c]))

LEMMA WholeStays ==
  ASSUME NEW ch, NEW ch2, Tree(ch), SameShape(ch, ch2), NEW d, NEW open, Whole(ch, d, open)
  PROVE  Whole(ch2, d, open) /\ \A c \in 0..Len(ch) : BarrierIn(ch2, c) <=> BarrierIn(ch, c)
<1>1. \A c \in 0..Len(ch) : BarrierIn(ch2, c) <=> BarrierIn(ch, c)
  BY DEF Tree, SameShape, BarrierIn
<1>2. \A c \in 1..Len(ch) : KidsIn(ch2, c) = KidsIn(ch, c)
  BY DEF SameShape, KidsIn
<1>3. IsDepth(d, ch2)
  BY DEF SameShape, Whole, IsDepth, Deeper
<1>4. \A c \in 1..Len(ch) : ch[c].next \in 0..Len(ch)
  BY DEF Tree
<1>5. \A c \in 1..Len(ch2) : d[c] = 1 =>
        \/ c = open /\ KidsIn(ch2, c) = {}
        \/ \E k \in 1..Len(ch2) : KidsIn(ch2, c) = {k}
  BY <1>2 DEF SameShape, Whole
<1>6. \A c \in 1..Len(ch2) : Empty(ch2[c]) /\ d[c] = 0 => ~BarrierIn(ch2, ch2[c].next)
  BY <1>1, <1>4 DEF SameShape, Whole
<1> QED
  BY <1>1, <1>3, <1>5, <1>6 DEF Whole

\* A Change below the open end of a chain, or below one that is in no chain.
Extend(d, n, v) == [c \in 0..n |-> IF c = n THEN v ELSE d[c]]

\* The tree ch2 and its depths d2, with the Change r, the n-th, below Change h
Grows(ch, d, open, h, r, n, v, ch2, d2) ==
  /\ ch \in Seq(ChangeRecs) /\ Tree(ch) /\ r \in ChangeRecs
  /\ h \in 0..Len(ch) /\ r.next = h
  /\ Whole(ch, d, open) /\ open \in {h, NoOne}
  /\ d[h] = 1 => open = h /\ KidsIn(ch, h) = {}
  /\ Empty(r) /\ d[h] = 1 => ~BarrierIn(ch, h)
  /\ n = Len(ch) + 1 /\ v = Deeper(r, d[h])
  /\ ch2 = Append(ch, r) /\ d2 = Extend(d, n, v)

LEMMA WholeGrows ==
  ASSUME NEW ch, NEW d, NEW open, NEW h, NEW r, NEW n, NEW v, NEW ch2, NEW d2,
         Grows(ch, d, open, h, r, n, v, ch2, d2)
  PROVE  /\ ch2 \in Seq(ChangeRecs) /\ Len(ch2) = n /\ ch2[n] = r
         /\ Tree(ch2) /\ Whole(ch2, d2, IF v = 1 THEN n ELSE NoOne)
         /\ d2[n] = v /\ v \in {0, 1} /\ \A c \in 0..Len(ch) : d2[c] = d[c]
         /\ KidsIn(ch2, n) = {} /\ (BarrierIn(ch2, n) <=> Empty(r))
<1> /\ ch \in Seq(ChangeRecs) /\ Tree(ch) /\ r \in ChangeRecs
    /\ h \in 0..Len(ch) /\ r.next = h
    /\ Whole(ch, d, open) /\ open \in {h, NoOne}
    /\ d[h] = 1 => open = h /\ KidsIn(ch, h) = {}
    /\ Empty(r) /\ d[h] = 1 => ~BarrierIn(ch, h)
    /\ n = Len(ch) + 1 /\ v = Deeper(r, d[h])
    /\ ch2 = Append(ch, r) /\ d2 = Extend(d, n, v)
  BY DEF Grows
<1>1. /\ Len(ch) \in Nat /\ n \in Nat /\ n # 0
      /\ \A c \in 1..Len(ch) : c # n /\ c \in 1..n /\ ch[c].next \in 0..Len(ch) /\ ch[c].next \in 0..(c - 1)
      /\ \A c \in 0..Len(ch) : c # n /\ c \in 0..n
      /\ \A c \in 1..n : c = n \/ c \in 1..Len(ch)
      /\ \A c \in 0..n : c = n \/ c \in 0..Len(ch)
      /\ \A c \in 0..Len(ch) : c = 0 \/ c \in 1..Len(ch)
      /\ n \in 1..n /\ n \in 0..n /\ 0 \in 0..Len(ch)
  BY DEF Tree
<1>2. /\ ch2 \in Seq(ChangeRecs) /\ Len(ch2) = n /\ ch2[n] = r
      /\ \A c \in 1..Len(ch) : ch2[c] = ch[c]
  BY <1>1, AppendProperties
<1>3. h \in 0..Len(ch) /\ h # n
  BY <1>1
<1>4. IsDepth(d, ch) /\ d[h] \in {0, 1} /\ v \in {0, 1}
  BY <1>3 DEF Whole, IsDepth, Deeper
<1>5. d2[n] = v /\ \A c \in 0..Len(ch) : d2[c] = d[c]
  BY <1>1 DEF Extend
<1>6. d2 \in [0..n -> {0, 1}]
  BY <1>1, <1>4 DEF Extend, IsDepth
<1>7. Tree(ch2)
  BY <1>1, <1>2 DEF Tree
<1>8. IsDepth(d2, ch2)
  <2>1. d2[0] = 0
    BY <1>1, <1>4, <1>5 DEF IsDepth
  <2>2. \A c \in 1..n : d2[c] = Deeper(ch2[c], d2[ch2[c].next])
    <3> SUFFICES ASSUME NEW c \in 1..n PROVE d2[c] = Deeper(ch2[c], d2[ch2[c].next])
      OBVIOUS
    <3>1. CASE c = n
      BY <1>2, <1>3, <1>5, <3>1
    <3>2. CASE c \in 1..Len(ch)
      <4>1. c \in 0..Len(ch) /\ ch[c].next \in 0..Len(ch) /\ ch2[c] = ch[c]
        BY <1>1, <1>2, <3>2
      <4> QED
        BY <1>4, <1>5, <3>2, <4>1 DEF IsDepth
    <3> QED
      BY <1>1, <3>1, <3>2
  <2> QED
    BY <1>2, <1>6, <2>1, <2>2 DEF IsDepth
<1>9. KidsIn(ch2, n) = {}
  BY <1>1, <1>2, <1>3 DEF KidsIn
<1>10. \A c \in 0..Len(ch) : KidsIn(ch2, c) = IF c = h THEN KidsIn(ch, c) \cup {n} ELSE KidsIn(ch, c)
  BY <1>1, <1>2 DEF KidsIn
<1>11. (BarrierIn(ch2, n) <=> Empty(r))
       /\ \A c \in 0..Len(ch) : BarrierIn(ch2, c) <=> BarrierIn(ch, c)
  BY <1>1, <1>2 DEF BarrierIn
<1>12. ASSUME NEW c \in 1..n, d2[c] = 1
       PROVE  \/ c = n /\ v = 1 /\ KidsIn(ch2, c) = {}
              \/ \E k \in 1..n : KidsIn(ch2, c) = {k}
  <2>1. CASE c = n
    BY <1>5, <1>9, <1>12, <2>1
  <2>2. CASE c = h /\ c # n
    <3>1. KidsIn(ch2, c) = {n}
      BY <1>5, <1>3, <1>10, <1>12, <2>2
    <3> QED
      BY <1>1, <3>1
  <2>3. CASE c # n /\ c # h
    <3>1. c \in 1..Len(ch) /\ d[c] = 1 /\ c # open
      BY <1>1, <1>5, <1>12, <2>3 DEF NoOne
    <3>2. PICK k \in 1..Len(ch) : KidsIn(ch, c) = {k}
      BY <3>1 DEF Whole
    <3>3. KidsIn(ch2, c) = {k} /\ k \in 1..n
      BY <1>1, <1>10, <2>3, <3>1, <3>2
    <3> QED
      BY <3>3
  <2> QED
    BY <2>1, <2>2, <2>3
<1>13. ASSUME NEW c \in 1..n, Empty(ch2[c]), d2[c] = 0 PROVE ~BarrierIn(ch2, ch2[c].next)
  <2>1. CASE c = n
    <3>1. Empty(r) /\ v = 0
      BY <1>2, <1>5, <1>13, <2>1
    <3>2. d[h] = 1
      BY <1>4, <3>1 DEF Deeper
    <3> QED
      BY <1>2, <1>3, <1>11, <2>1, <3>1, <3>2
  <2>2. CASE c # n
    <3>1. c \in 1..Len(ch) /\ c \in 0..Len(ch) /\ ch[c].next \in 0..Len(ch) /\ ch2[c] = ch[c]
      BY <1>1, <1>2, <2>2
    <3>2. ~BarrierIn(ch, ch[c].next)
      BY <1>5, <1>13, <3>1 DEF Whole
    <3> QED
      BY <1>11, <3>1, <3>2
  <2> QED
    BY <2>1, <2>2
<1>14. Whole(ch2, d2, IF v = 1 THEN n ELSE NoOne)
  BY <1>2, <1>8, <1>12, <1>13 DEF Whole
<1> QED
  BY <1>2, <1>4, <1>5, <1>7, <1>9, <1>11, <1>14

-----------------------------------------------------------------------------
(* The invariant *)

InChain == pc = "chain" /\ ~barrier

\* What undo and redo run along is inside a chain, a chain that is being made
\* ends at cur_change, and what the next edit may merge into is no barrier.
TreeFits(d) ==
  /\ Whole(changes, d, IF InChain THEN cur ELSE NoOne)
  /\ InChain => ~IsBarrier(cur) /\ KidsIn(changes, cur) = {}
  /\ d[saved] = 0
  /\ d[cur] = IF InChain THEN 1 ELSE 0
  /\ barrier => pc = "chain"

MergeFits ==
  /\ prevMerge = "insert" => ~IsBarrier(cur)
  /\ prevMerge = "delete" => point = Len(text) \/ ~IsBarrier(cur)
  /\ prevMerge = "erase" => point = 0 \/ ~IsBarrier(cur)

ChainsFit(d) ==
  /\ TreeFits(d)
  /\ pc \in {"undo", "redo"} => d[at] = 1
  /\ MergeFits

ChainInv == \E d : ChainsFit(d)

LEMMA BarrierIs == \A c : IsBarrier(c) <=> BarrierIn(changes, c)
  BY DEF IsBarrier, BarrierIn, Empty

LEMMA IInvTree ==
  ASSUME IInv
  PROVE  /\ Tree(changes) /\ changes \in Seq(ChangeRecs) /\ Ids = 0..Len(changes)
         /\ cur \in Ids /\ saved \in Ids /\ at \in Ids /\ barrier \in BOOLEAN
         /\ \A c \in 1..Len(changes) : changes[c] \in ChangeRecs
  BY LenProperties, ElementOfSeq, HistoryTypes DEF IInv, TypeOK, Tree, Ids

-----------------------------------------------------------------------------
(* Edits *)

LEMMA RecordIsNotEmpty ==
  ASSUME text \in Seq(Bytes), NEW k \in Nat, NEW off \in Nat, NEW del \in Nat,
         NEW ins \in Seq(Bytes), NEW after \in BOOLEAN, off + del <= Len(text),
         del # 0 \/ ins # <<>>
  PROVE  LET r == ChangeRec(k, off, del, ins, after)
         IN  r \in ChangeRecs /\ r.next = k /\ ~Empty(r)
<1> DEFINE s == Slice(text, off, del)
<1>1. s \in Seq(Bytes) /\ Len(s) = del
  BY SliceIsText
<1>2. del # 0 => s # <<>>
  BY <1>1, EmptySeq
<1>3. Len(ins) \in Nat /\ (ins # <<>> => Len(ins) # 0)
  BY LenProperties, EmptySeq
<1> HIDE DEF s
<1> QED
  BY <1>1, <1>2, <1>3 DEF ChangeRec, ChangeRecs, Empty, s

LEMMA ExtendedIsNotEmpty ==
  ASSUME NEW r \in ChangeRecs, ~Empty(r), NEW m \in {"insert", "delete", "erase"},
         NEW bytes \in Seq(Bytes), NEW ins \in Seq(Bytes)
  PROVE  LET e == Extended(r, m, bytes, ins) IN e.next = r.next /\ ~Empty(e)
<1>1. /\ r.ins \in Nat /\ r.buf \in Seq(Bytes) /\ Len(ins) \in Nat
      /\ Len(r.buf) \in Nat /\ Len(bytes) \in Nat
  BY LenProperties DEF ChangeRecs
<1>2. r.buf # <<>> => r.buf \o bytes # <<>> /\ bytes \o r.buf # <<>>
  <2>1. /\ Len(r.buf \o bytes) = Len(r.buf) + Len(bytes)
        /\ Len(bytes \o r.buf) = Len(bytes) + Len(r.buf)
    BY <1>1, ConcatProperties
  <2>2. r.buf # <<>> => Len(r.buf) # 0
    BY <1>1, EmptySeq
  <2>3. Len(<<>>) = 0
    BY EmptySeq
  <2> QED
    BY <1>1, <2>1, <2>2, <2>3
<1>3. CASE m = "insert"
  <2>1. Extended(r, m, bytes, ins) = [r EXCEPT !.ins = @ + Len(ins)]
    BY <1>3 DEF Extended
  <2> QED
    BY <1>1, <2>1 DEF Empty, ChangeRecs
<1>4. CASE m = "delete"
  BY <1>2, <1>4 DEF Extended, Empty, ChangeRecs
<1>5. CASE m = "erase"
  BY <1>2, <1>5 DEF Extended, Empty, ChangeRecs
<1> QED
  BY <1>3, <1>4, <1>5

\* The tree after an edit, which ends with a Change that is no barrier
EditedTree == \E d : TreeFits(d)' /\ ~IsBarrier(cur)'

LEMMA NewChangeTree ==
  ASSUME IInv, ChainInv, pc \in {"idle", "chain"}, UNCHANGED <<pc, saved>>, barrier' = FALSE,
         NEW off \in Nat, NEW del \in Nat, NEW ins \in Seq(Bytes), NEW after \in BOOLEAN,
         off + del <= Len(text), del # 0 \/ ins # <<>>, NewChange(off, del, ins, after)
  PROVE  EditedTree
<1> DEFINE n == Len(changes)
           R(k) == ChangeRec(k, off, del, ins, after)
           ch1 == Append(changes, BarrierRec(cur))
<1>1. PICK d : ChainsFit(d)
  BY DEF ChainInv
<1>2. /\ Tree(changes) /\ changes \in Seq(ChangeRecs) /\ n \in Nat
      /\ cur \in 0..n /\ saved \in 0..n /\ barrier \in BOOLEAN /\ text \in Seq(Bytes)
  BY IInvTree DEF Tree, IInv, TypeOK
<1>3. \A k \in Nat : R(k) \in ChangeRecs /\ R(k).next = k /\ ~Empty(R(k))
  BY <1>2, RecordIsNotEmpty
<1> HIDE DEF R
<1>4. CASE ~barrier
  <2> DEFINE open == IF InChain THEN cur ELSE NoOne
             r == R(cur)
             v == Deeper(r, d[cur])
             d2 == Extend(d, n + 1, v)
  <2>1. changes' = Append(changes, r) /\ cur' = n + 1
    BY <1>4 DEF NewChange, R
  <2>2. /\ r \in ChangeRecs /\ r.next = cur /\ ~Empty(r) /\ v = d[cur]
        /\ Whole(changes, d, open) /\ open \in {cur, NoOne} /\ (d[cur] = 1 => open = cur)
        /\ d[cur] = 1 => KidsIn(changes, cur) = {}
        /\ d[saved] = 0 /\ d[cur] = IF pc = "chain" THEN 1 ELSE 0
    BY <1>1, <1>2, <1>3, <1>4 DEF ChainsFit, TreeFits, Deeper, InChain
  <2> HIDE DEF r, open, v, d2
  <2>3. /\ Whole(changes', d2, IF v = 1 THEN cur' ELSE NoOne)
        /\ d2[cur'] = v /\ \A c \in 0..n : d2[c] = d[c]
        /\ KidsIn(changes', cur') = {} /\ ~BarrierIn(changes', cur')
    <3>1. v = Deeper(r, d[cur]) /\ d2 = Extend(d, n + 1, v)
      BY DEF v, d2
    <3>2. Grows(changes, d, open, cur, r, n + 1, v, changes', d2)
      BY <1>2, <2>1, <2>2, <3>1 DEF Grows
    <3>3. Grows(changes, d, open, cur, r, cur', v, changes', d2)
      BY <2>1, <3>2
    <3> QED
      BY <2>2, <3>3, WholeGrows
  <2>4. ~IsBarrier(cur)' /\ (InChain' <=> pc = "chain") /\ (v = 1 <=> pc = "chain")
        /\ v = IF pc = "chain" THEN 1 ELSE 0
    BY <2>2, <2>3 DEF IsBarrier, BarrierIn, Empty, InChain
  <2>5. d2[saved'] = 0
    BY <1>2, <2>2, <2>3
  <2>6. PICK e : e = d2
    OBVIOUS
  <2>7. TreeFits(e)'
    <3>1. Whole(changes', e, IF InChain' THEN cur' ELSE NoOne) /\ e[cur'] = IF InChain' THEN 1 ELSE 0
      BY <2>3, <2>4, <2>6
    <3> QED
      BY <1>4, <2>3, <2>4, <2>5, <2>6, <3>1 DEF TreeFits
  <2> QED
    BY <2>4, <2>7 DEF EditedTree
<1>5. CASE barrier
  <2> DEFINE b == BarrierRec(cur)
             v1 == Deeper(b, d[cur])
             d1 == Extend(d, n + 1, v1)
             r == R(n + 1)
             v2 == Deeper(r, d1[n + 1])
             d2 == Extend(d1, n + 2, v2)
  <2>1. changes' = Append(ch1, r) /\ cur' = n + 2
    BY <1>5 DEF NewChange, R
  <2>2. /\ b \in ChangeRecs /\ b.next = cur /\ Empty(b) /\ r \in ChangeRecs /\ r.next = n + 1
        /\ ~Empty(r) /\ Whole(changes, d, NoOne) /\ d[cur] = 0 /\ v1 = 1
        /\ d[saved] = 0 /\ pc = "chain"
    <3>1. b \in ChangeRecs /\ b.next = cur /\ Empty(b)
      <4>1. <<>> \in Seq(Bytes)
        BY EmptySeq
      <4> QED
        BY <1>2, <4>1 DEF BarrierRec, ChangeRecs, Empty
    <3> QED
      BY <1>1, <1>2, <1>3, <1>5, <3>1 DEF ChainsFit, TreeFits, Deeper, InChain
  <2> HIDE DEF b, r, v1, d1, ch1
  <2>3. /\ ch1 \in Seq(ChangeRecs) /\ Len(ch1) = n + 1 /\ Tree(ch1) /\ Whole(ch1, d1, n + 1)
        /\ d1[n + 1] = 1 /\ \A c \in 0..n : d1[c] = d[c]
        /\ KidsIn(ch1, n + 1) = {}
    <3>1. v1 = Deeper(b, d[cur]) /\ d1 = Extend(d, n + 1, v1) /\ ch1 = Append(changes, b)
      BY DEF v1, d1, ch1, b
    <3>2. Grows(changes, d, NoOne, cur, b, n + 1, v1, ch1, d1)
      BY <1>2, <2>2, <3>1 DEF Grows
    <3> QED
      BY <2>2, <3>2, WholeGrows
  <2>4. v2 = 1 /\ n + 1 + 1 = n + 2 /\ n + 1 \in 0..Len(ch1)
    BY <1>2, <2>2, <2>3 DEF Deeper
  <2> HIDE DEF v2, d2
  <2>5. /\ Whole(changes', d2, cur')
        /\ d2[cur'] = 1 /\ \A c \in 0..(n + 1) : d2[c] = d1[c]
        /\ KidsIn(changes', cur') = {} /\ ~BarrierIn(changes', cur')
    <3>1. v2 = Deeper(r, d1[n + 1]) /\ d2 = Extend(d1, n + 2, v2)
      BY DEF v2, d2
    <3>2. Grows(ch1, d1, n + 1, n + 1, r, n + 2, v2, changes', d2)
      BY <1>2, <2>1, <2>2, <2>3, <2>4, <3>1 DEF Grows
    <3>3. Grows(ch1, d1, n + 1, n + 1, r, cur', v2, changes', d2)
      BY <2>1, <3>2
    <3> QED
      BY <2>2, <2>3, <2>4, <3>3, WholeGrows
  <2>6. ~IsBarrier(cur)' /\ InChain'
    BY <2>2, <2>5 DEF IsBarrier, BarrierIn, Empty, InChain
  <2>7. d2[saved'] = 0
    BY <1>2, <2>2, <2>3, <2>5
  <2>8. PICK e : e = d2
    OBVIOUS
  <2>9. TreeFits(e)'
    BY <2>2, <2>5, <2>6, <2>7, <2>8 DEF TreeFits
  <2> QED
    BY <2>6, <2>9 DEF EditedTree
<1> QED
  BY <1>2, <1>4, <1>5

\* A tree of the same shape, with the same cur_change
LEMMA SameTree ==
  ASSUME IInv, NEW d, TreeFits(d), SameShape(changes, changes'),
         UNCHANGED <<cur, pc, saved, barrier>>
  PROVE  TreeFits(d)' /\ (IsBarrier(cur)' <=> IsBarrier(cur))
<1>1. Tree(changes) /\ cur \in 0..Len(changes)
  BY IInvTree
<1>2. InChain' <=> InChain
  BY DEF InChain
<1>3. /\ Whole(changes', d, IF InChain THEN cur ELSE NoOne)
      /\ BarrierIn(changes', cur) <=> BarrierIn(changes, cur)
  BY <1>1, WholeStays DEF TreeFits
<1>4. IsBarrier(cur)' <=> IsBarrier(cur)
  BY <1>3 DEF IsBarrier, BarrierIn, Empty
<1>5. KidsIn(changes', cur) = KidsIn(changes, cur)
  BY DEF SameShape, KidsIn
<1> QED
  BY <1>2, <1>3, <1>4, <1>5 DEF TreeFits

LEMMA EditTree ==
  ASSUME IInv, ChainInv, pc \in {"idle", "chain"}, UNCHANGED <<pc, saved>>,
         NEW m \in Merges, NEW off \in Nat, NEW del \in Nat, NEW ins \in Seq(Bytes),
         NEW after \in BOOLEAN, off + del <= Len(text), del # 0 \/ ins # <<>>,
         m # "none" /\ m = prevMerge => ~IsBarrier(cur),
         Edit(m, off, del, ins, after)
  PROVE  EditedTree
<1>1. CASE m = prevMerge /\ m # "none"
  <2>1. pc = "idle" /\ cur \in 1..Len(changes) /\ ~IsBarrier(cur)
        /\ changes[cur] \in ChangeRecs /\ text \in Seq(Bytes) /\ Tree(changes)
        /\ changes \in Seq(ChangeRecs)
    BY <1>1, IInvTree DEF IInv, MergeOK, TypeOK, IsBarrier, Tree
  <2>2. PICK d : ChainsFit(d)
    BY DEF ChainInv
  <2>3. barrier = FALSE /\ barrier' = FALSE
    BY <2>1, <2>2, IInvTree DEF ChainsFit, TreeFits, Edit
  <2>4. /\ changes' = [changes EXCEPT ![cur] = Extended(changes[cur], m, Slice(text, off, del), ins)]
        /\ cur' = cur
    BY <1>1 DEF Edit, Record, ExtendChange
  <2>5. Slice(text, off, del) \in Seq(Bytes)
    BY <2>1, SliceIsText
  <2> DEFINE e == Extended(changes[cur], m, Slice(text, off, del), ins)
  <2>6. e.next = changes[cur].next /\ ~Empty(e) /\ ~Empty(changes[cur])
    <3>1. ~Empty(changes[cur])
      BY <2>1 DEF IsBarrier, Empty
    <3> QED
      BY <1>1, <2>1, <2>5, <3>1, ExtendedIsNotEmpty DEF Merges
  <2> HIDE DEF e
  <2>7. SameShape(changes, changes')
    BY <2>1, <2>4, <2>6 DEF SameShape, e
  <2>8. TreeFits(d)' /\ ~IsBarrier(cur)'
    BY <2>1, <2>2, <2>3, <2>4, <2>7, SameTree DEF ChainsFit
  <2> QED
    BY <2>8 DEF EditedTree
<1>2. CASE ~(m = prevMerge /\ m # "none")
  BY <1>2, NewChangeTree DEF Edit, Record
<1> QED
  BY <1>1, <1>2

LEMMA NoEditTree ==
  ASSUME IInv, ChainInv, NoEdit, UNCHANGED <<pc, saved>>
  PROVE  \E d : TreeFits(d)'
<1>1. PICK d : TreeFits(d)
  BY DEF ChainInv, ChainsFit
<1>2. SameShape(changes, changes') /\ UNCHANGED <<cur, barrier>>
  BY DEF NoEdit, SameShape
<1> QED
  BY <1>1, <1>2, SameTree

LEMMA InsertBytesTree ==
  ASSUME IInv, ChainInv, pc \in {"idle", "chain"}, UNCHANGED <<pc, saved>>,
         NEW m \in {"none", "insert"}, NEW p \in 0..Len(text), NEW ins \in Seq(Bytes),
         InsertBytes(m, p, ins)
  PROVE  (ins = <<>> /\ NoEdit) \/ EditedTree
<1>1. text \in Seq(Bytes) /\ EndsWithNewline(text) /\ Len(text) \in Nat /\ p \in Nat
  BY IInvReady, HistoryTypes DEF Ready
<1>2. CASE ins = <<>>
  BY <1>2 DEF InsertBytes
<1>3. CASE ins # <<>>
  <2> DEFINE x == NetInsert(p, ins)
  <2>1. Edit(m, p, 0, x, FALSE)
    BY <1>3 DEF InsertBytes
  <2>2. x \in Seq(Bytes) /\ Len(x) >= Len(ins)
    BY <1>1, <1>3, NetInsertEnds
  <2> HIDE DEF x
  <2>3. x # <<>>
    <3>1. Len(ins) \in Nat /\ Len(ins) # 0 /\ Len(<<>>) = 0
      BY <1>3, LenProperties, EmptySeq
    <3> QED
      BY <2>2, <3>1
  <2>4. m # "none" /\ m = prevMerge => ~IsBarrier(cur)
    BY DEF ChainInv, ChainsFit, MergeFits
  <2>5. m \in Merges /\ 0 \in Nat /\ p + 0 <= Len(text) /\ FALSE \in BOOLEAN
    BY <1>1 DEF Merges
  <2> QED
    BY <1>1, <2>1, <2>2, <2>3, <2>4, <2>5, EditTree
<1> QED
  BY <1>2, <1>3

LEMMA DeleteBytesTree ==
  ASSUME IInv, ChainInv, pc \in {"idle", "chain"}, UNCHANGED <<pc, saved>>,
         NEW m \in {"none", "delete", "erase"}, NEW p \in Nat, NEW del \in Nat,
         p + del <= Len(text), NEW after \in BOOLEAN,
         m = "delete" => p = point, m = "erase" => p + del = point,
         DeleteBytes(m, p, del, after)
  PROVE  \/ NoEdit /\ (prevMerge' = "none" \/ (del = 0 /\ prevMerge' = m))
         \/ EditedTree /\ prevMerge' = m
<1> DEFINE n == NetDelete(p, del)
<1>1. text \in Seq(Bytes) /\ EndsWithNewline(text) /\ Len(text) \in Nat
  BY IInvReady, HistoryTypes DEF Ready
<1>2. CASE del = 0
  BY <1>2 DEF DeleteBytes
<1>4. CASE del # 0 /\ n = 0
  <2>1. NoEdit /\ prevMerge' = "none"
    BY <1>4 DEF DeleteBytes
  <2> QED
    BY <2>1, Zenon
<1>3. CASE del # 0 /\ n # 0
  <2>1. Edit(m, p, n, <<>>, after) /\ prevMerge' = m
    BY <1>3 DEF DeleteBytes
  <2>2. n \in 0..del
    BY <1>1, <1>3, NetDeleteEnds
  <2> HIDE DEF n
  <2>3. m # "none" /\ m = prevMerge => ~IsBarrier(cur)
    BY <1>1, <1>3 DEF ChainInv, ChainsFit, MergeFits
  <2>4. m \in Merges /\ n \in Nat /\ n # 0 /\ p + n <= Len(text)
    BY <1>1, <1>3, <2>2 DEF Merges
  <2> DEFINE z == <<>>
  <2>5. z \in Seq(Bytes) /\ Edit(m, p, n, z, after)
    BY <2>1, EmptySeq
  <2> HIDE DEF z
  <2> QED
    BY <2>1, <2>3, <2>4, <2>5, EditTree
<1> QED
  BY <1>2, <1>3, <1>4

LEMMA ReplaceBytesTree ==
  ASSUME IInv, ChainInv, pc \in {"idle", "chain"}, UNCHANGED <<pc, saved>>,
         NEW p \in Nat, NEW del \in Nat, p + del <= Len(text), NEW ins \in Seq(Bytes),
         NEW after \in BOOLEAN, ReplaceBytes(p, del, ins, after)
  PROVE  (NoEdit \/ EditedTree) /\ prevMerge' = "none"
<1> DEFINE n == NetReplace(p, del, ins)
<1>1. text \in Seq(Bytes) /\ EndsWithNewline(text) /\ Len(text) \in Nat /\ p \in 0..Len(text)
  BY IInvReady, HistoryTypes DEF Ready
<1>2. CASE del = 0
  <2>1. InsertBytes("none", p, ins) /\ prevMerge' = "none"
    BY <1>2 DEF ReplaceBytes
  <2> QED
    BY <1>1, <2>1, InsertBytesTree
<1>3. CASE del # 0 /\ ins = <<>>
  <2>1. DeleteBytes("none", p, del, after)
    <3>1. del > 0 /\ del # 0 /\ ins = <<>>
      BY <1>3
    <3> QED
      BY <3>1, Zenon DEF ReplaceBytes
  <2> QED
    BY <2>1, DeleteBytesTree
<1>4. CASE del # 0 /\ ins # <<>>
  <2>1. /\ IF n = 0 THEN InsertBytes("none", p, ins)
           ELSE Edit("none", p, n, ins, FALSE)
        /\ prevMerge' = "none"
    BY <1>4, Zenon DEF ReplaceBytes
  <2>2. n \in 0..del
    BY <1>1, <1>4, NetReplaceEnds
  <2> HIDE DEF n
  <2>3. CASE n = 0
    BY <1>1, <2>1, <2>3, InsertBytesTree
  <2>4. CASE n # 0
    <3>1. n \in Nat /\ p + n <= Len(text) /\ FALSE \in BOOLEAN
      BY <1>1, <2>2
    <3>2. PICK m \in Merges : m = "none"
      BY DEF Merges
    <3>3. Edit(m, p, n, ins, FALSE)
      BY <2>1, <2>4, <3>2
    <3>4. EditedTree
      BY <2>4, <3>1, <3>2, <3>3, EditTree
    <3> QED
      BY <2>1, <3>4
  <2> QED
    BY <2>3, <2>4
<1> QED
  BY <1>2, <1>3, <1>4

\* The end of an editing command
LEMMA EditKeepsChains ==
  ASSUME IInv, ChainInv, pc \in {"idle", "chain"}, UNCHANGED <<pc, saved>>,
         \/ EditedTree
         \/ NoEdit /\ \/ prevMerge' = "none"
                      \/ prevMerge' = "delete" /\ point' = Len(text')
                      \/ prevMerge' = "erase" /\ point' = 0
  PROVE  ChainInv'
<1>1. CASE EditedTree
  <2>1. PICK d : TreeFits(d)' /\ ~IsBarrier(cur)'
    BY <1>1 DEF EditedTree
  <2>2. MergeFits'
    BY <2>1 DEF MergeFits
  <2> QED
    BY <2>1, <2>2 DEF ChainInv, ChainsFit
<1>2. CASE ~EditedTree
  <2>1. PICK d : TreeFits(d)'
    BY <1>2, NoEditTree
  <2>2. MergeFits'
    BY <1>2 DEF MergeFits
  <2> QED
    BY <2>1, <2>2 DEF ChainInv, ChainsFit
<1> QED
  BY <1>1, <1>2

-----------------------------------------------------------------------------
(* The steps *)

LEMMA InsertChChains ==
  ASSUME IInv, ChainInv, NEW b \in Bytes \ {NL}, InsertCh(b)
  PROVE  ChainInv'
<1> DEFINE ins == <<b>>
<1>1. ins \in Seq(Bytes) /\ ins # <<>>
  OBVIOUS
<1>2. pc = "idle" /\ InsertBytes("insert", point, ins) /\ UNCHANGED <<pc, saved>>
  BY DEF InsertCh, Idle, savedVars
<1>3. point \in 0..Len(text)
  BY <1>2, IInvReady
<1> HIDE DEF ins
<1>4. EditedTree
  BY <1>1, <1>2, <1>3, InsertBytesTree
<1> QED
  BY <1>2, <1>4, EditKeepsChains

LEMMA DeleteChChains ==
  ASSUME IInv, ChainInv, DeleteCh
  PROVE  ChainInv'
<1> DEFINE del == IF point = Len(text) THEN 0 ELSE 1
<1>1. /\ pc = "idle" /\ DeleteBytes("delete", point, del, FALSE)
      /\ point' = point /\ UNCHANGED <<pc, saved>>
  BY DEF DeleteCh, Idle, savedVars
<1>2. /\ point \in Nat /\ del \in Nat /\ point + del <= Len(text)
      /\ del = 0 => point = Len(text)
  BY <1>1, IInvReady
<1> HIDE DEF del
<1>3. \/ NoEdit /\ (prevMerge' = "none" \/ (del = 0 /\ prevMerge' = "delete"))
      \/ EditedTree
  BY <1>1, <1>2, DeleteBytesTree
<1>4. NoEdit => text' = text
  BY DEF NoEdit
<1> QED
  BY <1>1, <1>2, <1>3, <1>4, EditKeepsChains

LEMMA EraseChains ==
  ASSUME IInv, ChainInv, Erase
  PROVE  ChainInv'
<1> DEFINE size == IF point = 0 THEN 0 ELSE 1
           p == point - size
<1>1. /\ pc = "idle" /\ DeleteBytes("erase", p, size, TRUE)
      /\ point' = p /\ UNCHANGED <<pc, saved>>
  BY DEF Erase, Idle, savedVars
<1>2. /\ p \in Nat /\ size \in Nat /\ p + size <= Len(text) /\ p + size = point
      /\ size = 0 => p = 0
  BY <1>1, IInvReady
<1> HIDE DEF size, p
<1>3. \/ NoEdit /\ (prevMerge' = "none" \/ (size = 0 /\ prevMerge' = "erase"))
      \/ EditedTree
  BY <1>1, <1>2, DeleteBytesTree
<1> QED
  BY <1>1, <1>2, <1>3, EditKeepsChains

LEMMA EditCommandChains ==
  ASSUME IInv, ChainInv, NEW del \in 0..Len(text), NEW ins \in Payloads,
         NEW after \in BOOLEAN, EditCommand(del, ins, after)
  PROVE  ChainInv'
<1>1. /\ pc = "idle" /\ point + del <= Len(text) /\ UNCHANGED <<pc, saved>>
      /\ ReplaceBytes(point, del, ins, after)
  BY DEF EditCommand, Idle, savedVars
<1>2. point \in Nat /\ del \in Nat /\ ins \in Seq(Bytes)
  BY <1>1, IInvReady, PayloadsAssumption
<1>3. (NoEdit \/ EditedTree) /\ prevMerge' = "none"
  BY <1>1, <1>2, ReplaceBytesTree
<1> QED
  BY <1>1, <1>3, EditKeepsChains

LEMMA ChainEditChains ==
  ASSUME IInv, ChainInv, NEW p \in 0..Len(text), NEW del \in 0..Len(text),
         NEW ins \in Payloads, ChainEdit(p, del, ins)
  PROVE  ChainInv'
<1>1. /\ pc = "chain" /\ p + del <= Len(text) /\ UNCHANGED <<pc, saved>>
      /\ ReplaceBytes(p, del, ins, FALSE)
  BY DEF ChainEdit, savedVars
<1>2. p \in Nat /\ del \in Nat /\ ins \in Seq(Bytes)
  BY <1>1, IInvReady, PayloadsAssumption
<1>3. (NoEdit \/ EditedTree) /\ prevMerge' = "none"
  BY <1>1, <1>2, ReplaceBytesTree
<1> QED
  BY <1>1, <1>3, EditKeepsChains

\* Steps that leave the tree and the marks in it alone
LEMMA SameChains ==
  ASSUME ChainInv, UNCHANGED treeVars, pc' \in {"idle", "chain"},
         InChain' <=> InChain, barrier' => pc' = "chain",
         saved' \in {saved, cur}, saved' = cur => ~InChain, prevMerge' = "none"
  PROVE  ChainInv'
<1>1. PICK d : TreeFits(d)
  BY DEF ChainInv, ChainsFit
<1>2. changes' = changes /\ cur' = cur
  BY DEF treeVars
<1>3. TreeFits(d)'
  BY <1>1, <1>2 DEF TreeFits, IsBarrier
<1>4. MergeFits'
  BY DEF MergeFits
<1> QED
  BY <1>3, <1>4 DEF ChainInv, ChainsFit

LEMMA EndChangeChainChains ==
  ASSUME IInv, ChainInv, EndChangeChain
  PROVE  ChainInv'
<1>1. /\ pc = "chain" /\ pc' = "idle" /\ barrier' = FALSE /\ saved' = saved
      /\ prevMerge' = prevMerge
  BY DEF EndChangeChain, savedVars
<1>2. prevMerge' = "none" /\ MergeFits'
  BY <1>1 DEF IInv, TypeOK, Merges, MergeOK, MergeFits
<1>3. CASE barrier
  <2>1. UNCHANGED treeVars /\ (InChain' <=> InChain)
    BY <1>1, <1>3 DEF EndChangeChain, InChain
  <2>2. saved' = cur => ~InChain
    BY <1>3 DEF InChain
  <2> QED
    BY <1>1, <1>2, <2>1, <2>2, SameChains
<1>4. CASE ~barrier
  <2> DEFINE n == Len(changes)
             r == BarrierRec(cur)
  <2>1. changes' = Append(changes, r) /\ cur' = n + 1 /\ InChain /\ ~InChain'
    BY <1>1, <1>4 DEF EndChangeChain, InChain
  <2>2. PICK d : TreeFits(d)
    BY DEF ChainInv, ChainsFit
  <2>3. /\ Tree(changes) /\ changes \in Seq(ChangeRecs) /\ n \in Nat
        /\ cur \in 0..n /\ saved \in 0..n
    BY IInvTree DEF Tree
  <2>4. r \in ChangeRecs /\ r.next = cur /\ Empty(r)
    <3>1. <<>> \in Seq(Bytes)
      BY EmptySeq
    <3> QED
      BY <2>3, <3>1 DEF BarrierRec, ChangeRecs, Empty
  <2>5. /\ Whole(changes, d, cur) /\ d[cur] = 1 /\ KidsIn(changes, cur) = {}
        /\ ~BarrierIn(changes, cur) /\ d[saved] = 0
    BY <2>1, <2>2, BarrierIs DEF TreeFits
  <2> HIDE DEF r
  <2>6. Deeper(r, d[cur]) = 0
    BY <2>4, <2>5 DEF Deeper
  <2>7. PICK e : e = Extend(d, n + 1, 0)
    OBVIOUS
  <2>8. Grows(changes, d, cur, cur, r, n + 1, 0, changes', e)
    BY <2>1, <2>3, <2>4, <2>5, <2>6, <2>7 DEF Grows
  <2>9. Whole(changes', e, NoOne) /\ e[n + 1] = 0 /\ \A c \in 0..n : e[c] = d[c]
    BY <2>8, WholeGrows
  <2>10. TreeFits(e)'
    BY <1>1, <2>1, <2>3, <2>5, <2>9 DEF TreeFits
  <2> QED
    BY <1>1, <1>2, <2>10 DEF ChainInv, ChainsFit
<1> QED
  BY <1>3, <1>4

\* One turn of undo() or redo(): the tree keeps its shape.
LEMMA ReverseShape ==
  ASSUME text \in Seq(Bytes), point \in 0..Len(text), Tree(changes),
         changes \in Seq(ChangeRecs), NEW c \in 1..Len(changes),
         Fits(text, changes[c]), ReverseAt(c)
  PROVE  SameShape(changes, changes')
<1> DEFINE r == changes[c]
<1>1. r \in ChangeRecs /\ Len(changes) \in Nat /\ c # 0
  BY ElementOfSeq, LenProperties
<1>2. CASE IsBarrier(c)
  BY <1>2 DEF ReverseAt, SameShape
<1>3. CASE ~IsBarrier(c)
  <2>1. changes' = ReversedAt(changes, c, text)
    BY <1>3 DEF ReverseAt, ReverseChange, ReversedAt, Reversed
  <2>2. ~Empty(r)
    BY <1>1, <1>3 DEF IsBarrier, Empty
  <2>3. r.off \in Nat /\ r.ins \in Nat /\ r.buf \in Seq(Bytes) /\ r.off + r.ins <= Len(text)
    BY <1>1 DEF ChangeRecs, Fits
  <2> HIDE DEF r
  <2> DEFINE s == Slice(text, r.off, r.ins)
  <2>4. s \in Seq(Bytes) /\ Len(s) = r.ins
    BY <2>3, SliceIsText
  <2>5. /\ Reversed(text, r).next = r.next
        /\ Reversed(text, r).ins = Len(r.buf) /\ Reversed(text, r).buf = s
    BY <1>1 DEF Reversed, ChangeRecs, r
  <2> HIDE DEF s
  <2>6. /\ Len(r.buf) \in Nat /\ (Len(r.buf) = 0 => r.buf = <<>>)
        /\ (s = <<>> => Len(s) = 0)
    BY <2>3, LenProperties, EmptySeq
  <2>7. ~Empty(Reversed(text, r))
    BY <2>2, <2>4, <2>5, <2>6 DEF Empty
  <2>8. /\ Len(changes') = Len(changes) /\ changes'[c] = Reversed(text, r)
        /\ \A e \in 1..Len(changes) : e # c => changes'[e] = changes[e]
    BY <1>1, <2>1 DEF ReversedAt, r
  <2> QED
    BY <2>2, <2>5, <2>7, <2>8 DEF SameShape, r
<1> QED
  BY <1>2, <1>3

LEMMA UndoShape ==
  ASSUME IInv, NEW here, HistoryOK(changes, snap, done, here, text), here # 0, ReverseAt(here)
  PROVE  here \in 1..Len(changes) /\ SameShape(changes, changes')
<1>1. /\ changes \in Seq(ChangeRecs) /\ Len(changes) \in Nat
      /\ text \in Seq(Bytes) /\ here \in 0..Len(changes) /\ text = snap[here]
  BY HistoryTypes
<1>2. here \in 1..Len(changes) /\ point \in 0..Len(text) /\ Tree(changes)
  BY <1>1, IInvTree DEF IInv, TypeOK
<1>3. Fits(text, changes[here])
  <2>1. here \in done /\ LinkOK(changes, snap, done, here)
    BY <1>2 DEF HistoryOK, TreeOK, PathOK
  <2> QED BY <1>1, <2>1, Zenon DEF LinkOK, Leads
<1> QED
  BY <1>1, <1>2, <1>3, ReverseShape

LEMMA RedoShape ==
  ASSUME IInv, NEW here, HistoryOK(changes, snap, done, here, text),
         NEW c \in 1..Len(changes), changes[c].next = here, ReverseAt(c)
  PROVE  SameShape(changes, changes')
<1>1. /\ changes \in Seq(ChangeRecs) /\ Len(changes) \in Nat
      /\ text \in Seq(Bytes) /\ text = snap[here]
      /\ \A d \in 1..Len(changes) : changes[d].next \in 0..(d - 1)
  BY HistoryTypes
<1>2. c \notin done
  <2>1. \A d \in 1..Len(changes) : changes[d].next # d
    BY <1>1
  <2> QED BY <1>1, <2>1, PathRedo DEF HistoryOK
<1>3. Fits(text, changes[c])
  <2>1. LinkOK(changes, snap, done, c)
    BY DEF HistoryOK, TreeOK
  <2> QED BY <1>1, <1>2, <2>1, Zenon DEF LinkOK, Leads
<1>4. point \in 0..Len(text) /\ Tree(changes)
  BY IInvTree DEF IInv, TypeOK
<1> QED
  BY <1>1, <1>3, <1>4, ReverseShape

\* Undo and redo, in one step or in turns, with the depth they end at
LEMMA WalkChains ==
  ASSUME IInv, NEW d, TreeFits(d), SameShape(changes, changes'), UNCHANGED <<saved, barrier>>,
         pc # "chain", pc' \in {"idle", "undo", "redo"}, prevMerge' = "none",
         d[cur'] = 0, pc' \in {"undo", "redo"} => d[at'] = 1
  PROVE  ChainInv'
<1>1. Tree(changes) /\ ~InChain /\ ~InChain'
  BY IInvTree DEF InChain
<1>2. Whole(changes', d, NoOne)
  BY <1>1, WholeStays DEF TreeFits
<1>3. TreeFits(d)'
  BY <1>1, <1>2 DEF TreeFits
<1>4. MergeFits'
  BY DEF MergeFits
<1> QED
  BY <1>3, <1>4 DEF ChainInv, ChainsFit

\* One level up or down
LEMMA DepthOfNext ==
  ASSUME Tree(changes), NEW d, Whole(changes, d, NoOne), NEW c \in 1..Len(changes)
  PROVE  /\ d[c] \in {0, 1} /\ d[changes[c].next] \in {0, 1}
         /\ changes[c].next \in 0..Len(changes)
         /\ d[c] = IF IsBarrier(c) THEN 1 - d[changes[c].next] ELSE d[changes[c].next]
<1>1. c # 0 /\ c \in 0..Len(changes) /\ changes[c].next \in 0..Len(changes)
  BY DEF Tree
<1>2. IsBarrier(c) <=> Empty(changes[c])
  BY <1>1 DEF IsBarrier, Empty
<1> QED
  BY <1>1, <1>2 DEF Whole, IsDepth, Deeper

LEMMA UndoChains ==
  ASSUME IInv, ChainInv, Undo
  PROVE  ChainInv'
<1>1. /\ pc = "idle" /\ cur # 0 /\ prevMerge' = "none"
      /\ UNCHANGED <<saved, barrier>> /\ ReverseAt(cur)
      /\ IF IsBarrier(cur)
         THEN at' = changes[cur].next /\ pc' = "undo" /\ cur' = cur
         ELSE cur' = changes[cur].next /\ pc' = pc /\ at' = at
  BY DEF Undo, Idle, ReverseAt, treeVars, savedVars
<1>2. HistoryOK(changes, snap, done, cur, text)
  BY <1>1 DEF IInv, Here
<1>3. cur \in 1..Len(changes) /\ SameShape(changes, changes')
  BY <1>1, <1>2, UndoShape
<1>4. PICK d : TreeFits(d)
  BY DEF ChainInv, ChainsFit
<1>5. Tree(changes) /\ Whole(changes, d, NoOne) /\ d[cur] = 0
  BY <1>1, <1>4, IInvTree DEF TreeFits, InChain
<1>6. /\ d[changes[cur].next] \in {0, 1}
      /\ d[cur] = IF IsBarrier(cur) THEN 1 - d[changes[cur].next] ELSE d[changes[cur].next]
  BY <1>3, <1>5, DepthOfNext
<1>7. d[cur'] = 0 /\ (pc' \in {"undo", "redo"} => d[at'] = 1) /\ pc' \in {"idle", "undo", "redo"}
  BY <1>1, <1>5, <1>6
<1> QED
  BY <1>1, <1>3, <1>4, <1>7, WalkChains

LEMMA UndoChainStepChains ==
  ASSUME IInv, ChainInv, UndoChainStep
  PROVE  ChainInv'
<1>1. /\ pc = "undo" /\ at # 0 /\ prevMerge' = prevMerge
      /\ UNCHANGED <<saved, barrier>> /\ ReverseAt(at)
      /\ IF IsBarrier(at)
         THEN cur' = changes[at].next /\ pc' = "idle" /\ at' = 0
         ELSE at' = changes[at].next /\ pc' = pc /\ cur' = cur
  BY DEF UndoChainStep, ReverseAt, savedVars
<1>2. HistoryOK(changes, snap, done, at, text) /\ prevMerge' = "none"
  BY <1>1 DEF IInv, Here, TypeOK, Merges, MergeOK
<1>3. at \in 1..Len(changes) /\ SameShape(changes, changes')
  BY <1>1, <1>2, UndoShape
<1>4. PICK d : TreeFits(d) /\ d[at] = 1
  BY <1>1 DEF ChainInv, ChainsFit
<1>5. Tree(changes) /\ Whole(changes, d, NoOne) /\ d[cur] = 0
  BY <1>1, <1>4, IInvTree DEF TreeFits, InChain
<1>6. /\ d[changes[at].next] \in {0, 1}
      /\ d[at] = IF IsBarrier(at) THEN 1 - d[changes[at].next] ELSE d[changes[at].next]
  BY <1>3, <1>5, DepthOfNext
<1>7. d[cur'] = 0 /\ (pc' \in {"undo", "redo"} => d[at'] = 1) /\ pc' \in {"idle", "undo", "redo"}
  BY <1>1, <1>4, <1>5, <1>6
<1> QED
  BY <1>1, <1>2, <1>3, <1>4, <1>7, WalkChains

LEMMA RedoChains ==
  ASSUME IInv, ChainInv, NEW c \in 1..Len(changes), Redo(c)
  PROVE  ChainInv'
<1>1. /\ pc = "idle" /\ prevMerge' = "none" /\ changes[c].next = cur
      /\ UNCHANGED <<saved, barrier>> /\ ReverseAt(c)
      /\ IF IsBarrier(c)
         THEN at' = c /\ pc' = "redo" /\ cur' = cur
         ELSE cur' = c /\ pc' = pc /\ at' = at
  BY DEF Redo, Idle, Kids, ReverseAt, treeVars, savedVars
<1>2. HistoryOK(changes, snap, done, cur, text)
  BY <1>1 DEF IInv, Here
<1>3. SameShape(changes, changes')
  BY <1>1, <1>2, RedoShape
<1>4. PICK d : TreeFits(d)
  BY DEF ChainInv, ChainsFit
<1>5. Tree(changes) /\ Whole(changes, d, NoOne) /\ d[cur] = 0
  BY <1>1, <1>4, IInvTree DEF TreeFits, InChain
<1>6. d[c] = IF IsBarrier(c) THEN 1 ELSE 0
  BY <1>1, <1>5, DepthOfNext
<1>7. d[cur'] = 0 /\ (pc' \in {"undo", "redo"} => d[at'] = 1) /\ pc' \in {"idle", "undo", "redo"}
  BY <1>1, <1>5, <1>6
<1> QED
  BY <1>1, <1>3, <1>4, <1>7, WalkChains

LEMMA RedoChainStepChains ==
  ASSUME IInv, ChainInv, RedoChainStep
  PROVE  ChainInv'
<1>1. PICK c \in Kids(at) :
        /\ pc = "redo" /\ prevMerge' = prevMerge
        /\ UNCHANGED <<saved, barrier>> /\ ReverseAt(c)
        /\ IF IsBarrier(c)
           THEN cur' = c /\ pc' = "idle" /\ at' = 0
           ELSE at' = c /\ pc' = pc /\ cur' = cur
  BY DEF RedoChainStep, ReverseAt, savedVars
<1>2. c \in 1..Len(changes) /\ changes[c].next = at
  BY DEF Kids
<1>3. HistoryOK(changes, snap, done, at, text) /\ prevMerge' = "none"
  BY <1>1 DEF IInv, Here, TypeOK, Merges, MergeOK
<1>4. SameShape(changes, changes')
  BY <1>1, <1>2, <1>3, RedoShape
<1>5. PICK d : TreeFits(d) /\ d[at] = 1
  BY <1>1 DEF ChainInv, ChainsFit
<1>6. Tree(changes) /\ Whole(changes, d, NoOne) /\ d[cur] = 0
  BY <1>1, <1>5, IInvTree DEF TreeFits, InChain
<1>7. d[c] = IF IsBarrier(c) THEN 0 ELSE 1
  BY <1>2, <1>5, <1>6, DepthOfNext
<1>8. d[cur'] = 0 /\ (pc' \in {"undo", "redo"} => d[at'] = 1) /\ pc' \in {"idle", "undo", "redo"}
  BY <1>1, <1>6, <1>7
<1> QED
  BY <1>1, <1>3, <1>4, <1>5, <1>8, WalkChains

-----------------------------------------------------------------------------
(* The theorem *)

LEMMA InitChains == Init => ChainInv
<1> SUFFICES ASSUME Init PROVE ChainInv
  OBVIOUS
<1>1. /\ changes = <<>> /\ cur = 0 /\ saved = 0 /\ prevMerge = "none" /\ barrier = FALSE
      /\ pc = "idle" /\ ~InChain
  BY DEF Init, InChain
<1>2. Len(changes) = 0 /\ 0..Len(changes) = {0} /\ 1..Len(changes) = {}
  BY <1>1, EmptySeq
<1>3. PICK d : d = [c \in {0} |-> 0]
  OBVIOUS
<1>4. Whole(changes, d, NoOne)
  BY <1>2, <1>3 DEF Whole, IsDepth
<1>5. ChainsFit(d)
  BY <1>1, <1>3, <1>4 DEF ChainsFit, TreeFits, MergeFits
<1> QED
  BY <1>5 DEF ChainInv

LEMMA NextChains == IInv /\ ChainInv /\ [Next]_vars => ChainInv'
<1> SUFFICES ASSUME IInv, ChainInv, [Next]_vars
             PROVE  ChainInv'
  OBVIOUS
<1>1. ASSUME NEW b \in Bytes \ {NL}, InsertCh(b) PROVE ChainInv'
  BY <1>1, InsertChChains
<1>2. CASE DeleteCh
  BY <1>2, DeleteChChains
<1>3. CASE Erase
  BY <1>3, EraseChains
<1>4. ASSUME NEW del \in 0..Len(text), NEW ins \in Payloads,
             NEW after \in BOOLEAN, EditCommand(del, ins, after)
      PROVE  ChainInv'
  BY <1>4, EditCommandChains
<1>5. ASSUME NEW p \in 0..Len(text), Move(p) PROVE ChainInv'
  <2>1. /\ UNCHANGED <<treeVars, saved, barrier, pc>> /\ pc = "idle" /\ prevMerge' = "none"
    BY <1>5 DEF Move, Idle, savedVars
  <2>2. (InChain' <=> InChain) /\ ~InChain /\ ~barrier'
    BY <2>1 DEF InChain, ChainInv, ChainsFit, TreeFits
  <2> QED
    BY <2>1, <2>2, SameChains
<1>6. CASE BeginChangeChain
  <2>1. /\ UNCHANGED <<treeVars, saved>> /\ pc = "idle" /\ pc' = "chain" /\ barrier'
        /\ prevMerge' = "none"
    BY <1>6 DEF BeginChangeChain, Idle, savedVars
  <2>2. ~InChain' /\ ~InChain
    BY <2>1 DEF InChain
  <2> QED
    BY <2>1, <2>2, SameChains
<1>7. ASSUME NEW p \in 0..Len(text), NEW del \in 0..Len(text),
             NEW ins \in Payloads, ChainEdit(p, del, ins)
      PROVE  ChainInv'
  BY <1>7, ChainEditChains
<1>8. CASE EndChangeChain
  BY <1>8, EndChangeChainChains
<1>9. CASE Undo
  BY <1>9, UndoChains
<1>10. CASE UndoChainStep
  BY <1>10, UndoChainStepChains
<1>11. ASSUME NEW c \in 1..Len(changes), Redo(c) PROVE ChainInv'
  BY <1>11, RedoChains
<1>12. CASE RedoChainStep
  BY <1>12, RedoChainStepChains
<1>13. CASE Save
  <2>1. /\ UNCHANGED <<treeVars, barrier, pc>> /\ saved' = cur /\ pc = "idle"
        /\ prevMerge' = "none"
    BY <1>13 DEF Save, Idle
  <2>2. (InChain' <=> InChain) /\ ~InChain /\ ~barrier'
    BY <2>1 DEF InChain, ChainInv, ChainsFit, TreeFits
  <2> QED
    BY <2>1, <2>2, SameChains
<1>14. CASE UNCHANGED vars
  BY <1>14 DEF vars, ChainInv, ChainsFit, TreeFits, MergeFits, InChain, IsBarrier
<1> QED
  BY <1>1, <1>2, <1>3, <1>4, <1>5, <1>6, <1>7, <1>8, <1>9, <1>10, <1>11, <1>12,
     <1>13, <1>14 DEF Next

LEMMA ChainInvariant == Spec => []ChainInv
BY InitHistory, NextHistory, InitChains, NextChains, PTL DEF Spec

LEMMA WholeInvariant == IInv /\ ChainInv => ChainsAreWhole
<1> SUFFICES ASSUME IInv, ChainInv PROVE ChainsAreWhole
  OBVIOUS
<1>1. PICK d : TreeFits(d)
  BY DEF ChainInv, ChainsFit
<1>2. Tree(changes) /\ IsDepth(d, changes) /\ Whole(changes, d, IF InChain THEN cur ELSE NoOne)
  BY <1>1, IInvTree DEF TreeFits, Whole
<1>3. Depth = d
  BY <1>2, DepthIs
<1>4. \A c \in 1..Len(changes) : Kids(c) = KidsIn(changes, c)
  BY DEF Kids, KidsIn
<1>5. Idle => Depth[cur] = 0
  BY <1>1, <1>3 DEF TreeFits, InChain, Idle
<1>6. Depth[saved] = 0
  BY <1>1, <1>3 DEF TreeFits
<1>7. ASSUME NEW c \in 1..Len(changes), Depth[c] = 1
      PROVE  \/ pc = "chain" /\ c = cur /\ Kids(c) = {}
             \/ \E e \in 1..Len(changes) : Kids(c) = {e}
  <2>1. c # NoOne
    BY DEF NoOne
  <2> QED
    BY <1>2, <1>3, <1>4, <1>7, <2>1 DEF Whole, InChain
<1>8. ASSUME NEW c \in 1..Len(changes), IsBarrier(c), Depth[c] = 0
      PROVE  ~IsBarrier(changes[c].next)
  <2>1. Empty(changes[c]) /\ c # 0
    BY <1>8 DEF IsBarrier, Empty
  <2> QED
    BY <1>2, <1>3, <1>8, <2>1, BarrierIs DEF Whole
<1> QED
  BY <1>5, <1>6, <1>7, <1>8 DEF ChainsAreWhole

\* Chains are whole, whatever is edited, undone, redone and saved: the loops
\* of undo() and redo(), which follow "next" and "prev" without looking,
\* always meet the barrier they run to.
THEOREM ChainsStayWhole == Spec => []ChainsAreWhole
BY HistoryInvariant, ChainInvariant, WholeInvariant, PTL
=============================================================================
