----------------------------- MODULE FoldLemmas -----------------------------
(***************************************************************************)
(* Lemmas about numbers and about folds of sequences that several proofs   *)
(* rest on.                                                                *)
(*                                                                         *)
(* FoldLeft is defined by a function over the sets of indexes.  What it    *)
(* computes is told here by a run: the values after each element.  An      *)
(* operator is given to the lemmas as a function over its domain.          *)
(***************************************************************************)
EXTENDS Integers, SequencesExt, SequenceTheorems, FiniteSetTheorems, WellFoundedInduction, TLAPS

-----------------------------------------------------------------------------
(* Induction *)

\* A set of numbers has a least one: the intervals from 0 to its members are
\* finite sets, and the inclusion of finite sets is well-founded.
LEMMA LeastNumber ==
  ASSUME NEW T \in SUBSET Nat, T # {}
  PROVE  \E m \in T : \A k \in T : m <= k
<1>1. PICK t \in T : TRUE
  OBVIOUS
<1> DEFINE S == 0..t
           F == {0..k : k \in {j \in T : j <= t}}
           R == StrictSubsetOrdering(S)
<1>2. IsFiniteSet(S) /\ t \in Nat /\ t <= t
  BY FS_Interval
<1>3. IsWellFoundedOn(R, FiniteSubsetsOf(S))
  BY FS_StrictSubsetOrderingWellFounded
<1>4. F \subseteq FiniteSubsetsOf(S) /\ F # {}
  <2>1. \A j \in T : j <= t => 0..j \subseteq S /\ IsFiniteSet(0..j)
    BY <1>2, FS_Subset
  <2> QED
    BY <1>1, <1>2, <2>1 DEF FiniteSubsetsOf
<1>5. PICK x \in F : \A y \in F : ~(<<y, x>> \in R)
  BY <1>3, <1>4, WFMin
<1>6. PICK m \in T : m <= t /\ x = 0..m
  BY <1>5
<1>7. ASSUME NEW k \in T, k < m PROVE FALSE
  <2>1. 0..k \in F /\ 0..m \in F
    BY <1>2, <1>6, <1>7
  <2>2. 0..k \subseteq 0..m /\ 0..k # 0..m
    BY <1>7
  <2>3. <<0..k, 0..m>> \in R
    BY <2>1, <2>2, <1>4 DEF StrictSubsetOrdering, FiniteSubsetsOf
  <2> QED
    BY <1>5, <1>6, <2>1, <2>3
<1> QED
  BY <1>7

\* The last index of a set of indexes
LEMMA LastIndex ==
  ASSUME NEW n \in Nat, NEW I \in SUBSET (1..n), I # {}
  PROVE  Max(I) \in I /\ \A i \in I : i <= Max(I)
<1> DEFINE T == {n - i : i \in I}
<1>0. \A i \in I : i \in Int /\ n - i \in Nat
  OBVIOUS
<1>1. T \in SUBSET Nat /\ T # {}
  BY <1>0
<1>2. PICK m \in T : \A k \in T : m <= k
  BY <1>1, LeastNumber
<1>3. PICK j \in I : m = n - j
  BY <1>2
<1>4. \A i \in I : j >= i
  <2> TAKE i \in I
  <2>1. n - i \in T
    OBVIOUS
  <2>2. n - j <= n - i
    BY <1>2, <1>3, <2>1
  <2> QED
    BY <1>0, <2>2
<1>5. \E x \in I : \A y \in I : x >= y
  BY <1>3, <1>4
<1>6. Max(I) \in I /\ \A y \in I : Max(I) >= y
  BY <1>5 DEF Max
<1> QED
  BY <1>6

-----------------------------------------------------------------------------
(* Folds *)

\* The function of FoldLeft, with the operator as a function of pairs
IsIter(it, F, base, seq) ==
  it = [s \in SUBSET DOMAIN seq |->
          IF s = {} THEN base ELSE F[<<it[s \ {Max(s)}], seq[Max(s)]>>]]

\* The same over the subsets of the first k indexes
IsIterTo(g, k, T, F, base, seq) ==
  /\ g \in [SUBSET (1..k) -> T]
  /\ \A s \in SUBSET (1..k) :
       g[s] = IF s = {} THEN base ELSE F[<<g[s \ {Max(s)}], seq[Max(s)]>>]

\* The values after each element
IsRun(r, F, base, seq) ==
  /\ DOMAIN r = 0..Len(seq) /\ r[0] = base
  /\ \A k \in 1..Len(seq) : r[k] = F[<<r[k - 1], seq[k]>>]

\* A function that follows the recursion at the first indexes, as far as it
\* stays in the type
IterFollows(it, T, F, base, seq) ==
  /\ it[{}] = base
  /\ \A k \in 1..Len(seq) :
       it[1..(k - 1)] \in T => it[1..k] = F[<<it[1..(k - 1)], seq[k]>>]

\* The function exists: one over the subsets of 1..k extends to 1..(k + 1).
LEMMA IterExists ==
  ASSUME NEW T, NEW E, NEW F \in [T \X E -> T], NEW base \in T, NEW seq \in Seq(E)
  PROVE  \E it \in [SUBSET DOMAIN seq -> T] : IsIter(it, F, base, seq)
<1> DEFINE n == Len(seq)
           IsUpTo(g, k) == IsIterTo(g, k, T, F, base, seq)
           Bad == {k \in 0..n : ~\E g : IsUpTo(g, k)}
<1>1. n \in Nat /\ DOMAIN seq = 1..n /\ \A i \in 1..n : seq[i] \in E
  OBVIOUS
<1>2. SUFFICES ASSUME Bad # {} PROVE FALSE
  <2>1. PICK g : IsUpTo(g, n)
    BY <1>1, <1>2
  <2>2. g \in [SUBSET (1..n) -> T] /\ g = [s \in SUBSET (1..n) |-> g[s]]
    BY <2>1 DEF IsIterTo
  <2>3. IsIter(g, F, base, seq)
    BY <1>1, <2>1, <2>2 DEF IsIter, IsIterTo
  <2> QED
    BY <1>1, <2>2, <2>3
<1>3. PICK m \in Bad : \A k \in Bad : m <= k
  <2>1. Bad \in SUBSET Nat
    BY <1>1
  <2> QED
    BY <1>2, <2>1, LeastNumber
<1>4. m \in 0..n /\ ~\E g : IsUpTo(g, m)
  BY <1>3
<1>5. CASE m = 0
  <2> DEFINE g == [s \in SUBSET (1..0) |-> base]
  <2>1. 1..0 = {}
    OBVIOUS
  <2>2. g \in [SUBSET (1..0) -> T]
    OBVIOUS
  <2>3. \A s \in SUBSET (1..0) : s = {} /\ g[s] = base
    BY <2>1
  <2>4. IsUpTo(g, 0)
    BY <2>2, <2>3 DEF IsIterTo
  <2> QED
    BY <1>4, <1>5, <2>4
<1>6. CASE m > 0
  <2>1. m - 1 \in 0..n /\ ~(m <= m - 1) /\ m \in 1..n
    BY <1>1, <1>4, <1>6
  <2>2. PICK g : IsUpTo(g, m - 1)
    BY <1>3, <2>1
  <2> DEFINE h == [s \in SUBSET (1..m) |-> IF m \in s THEN F[<<g[s \ {m}], seq[m]>>] ELSE g[s]]
  <2>3. \A s \in SUBSET (1..m) : s \ {m} \in SUBSET (1..(m - 1))
    BY <2>1
  <2>4. \A s \in SUBSET (1..m) : m \notin s => s \in SUBSET (1..(m - 1))
    BY <2>1
  <2>5. h \in [SUBSET (1..m) -> T]
    <3> SUFFICES ASSUME NEW s \in SUBSET (1..m)
                 PROVE  (IF m \in s THEN F[<<g[s \ {m}], seq[m]>>] ELSE g[s]) \in T
      OBVIOUS
    <3>1. seq[m] \in E
      BY <1>1, <2>1
    <3>2. g \in [SUBSET (1..(m - 1)) -> T]
      BY <2>2 DEF IsIterTo
    <3>3. CASE m \in s
      <4>1. g[s \ {m}] \in T
        BY <2>3, <3>2
      <4> QED
        BY <3>1, <3>3, <4>1
    <3>4. CASE m \notin s
      BY <2>4, <3>2, <3>4
    <3> QED
      BY <3>3, <3>4
  <2>6. ASSUME NEW s \in SUBSET (1..m)
        PROVE  h[s] = IF s = {} THEN base ELSE F[<<h[s \ {Max(s)}], seq[Max(s)]>>]
    <3>1. CASE m \in s
      <4>1. Max(s) = m
        <5>1. m \in Nat /\ s # {}
          BY <2>1, <3>1
        <5>2. Max(s) \in s /\ \A i \in s : i <= Max(s)
          BY <5>1, LastIndex
        <5>3. Max(s) \in 1..m /\ m <= Max(s)
          BY <3>1, <5>2
        <5> QED
          BY <5>1, <5>3
      <4>2. h[s \ {m}] = g[s \ {m}]
        BY <2>3
      <4> QED
        BY <3>1, <4>1, <4>2
    <3>2. CASE m \notin s
      <4>1. h[s] = g[s] /\ s \in SUBSET (1..(m - 1))
        BY <2>4, <3>2
      <4>2. CASE s = {}
        BY <2>2, <4>1, <4>2 DEF IsIterTo
      <4>3. CASE s # {}
        <5> DEFINE u == s \ {Max(s)}
        <5>1. u \in SUBSET (1..m) /\ m \notin u
          BY <3>2
        <5>2. h[u] = g[u]
          BY <5>1
        <5>3. g[s] = F[<<g[u], seq[Max(s)]>>]
          BY <2>2, <4>1, <4>3 DEF IsIterTo
        <5> QED
          BY <4>1, <4>3, <5>2, <5>3
      <4> QED
        BY <4>2, <4>3
    <3> QED
      BY <3>1, <3>2
  <2>7. IsUpTo(h, m)
    BY <2>5, <2>6 DEF IsIterTo
  <2> QED
    BY <1>4, <2>7
<1> QED
  BY <1>1, <1>4, <1>5, <1>6

\* The interval that a fold takes its next element from
LEMMA MaxOfInterval ==
  ASSUME NEW k \in Nat, k > 0
  PROVE  Max(1..k) = k /\ (1..k) \ {k} = 1..(k - 1)
<1>1. 1..k \in SUBSET (1..k) /\ 1..k # {} /\ k \in 1..k
  OBVIOUS
<1>2. Max(1..k) \in 1..k /\ \A i \in 1..k : i <= Max(1..k)
  BY <1>1, LastIndex
<1> QED
  BY <1>1, <1>2

\* A sequence has a run, with values of the type.
LEMMA RunExists ==
  ASSUME NEW T, NEW E, NEW F \in [T \X E -> T], NEW base \in T, NEW seq \in Seq(E)
  PROVE  \E r \in [0..Len(seq) -> T] : IsRun(r, F, base, seq)
<1> DEFINE n == Len(seq)
<1>1. n \in Nat /\ DOMAIN seq = 1..n /\ \A i \in 1..n : seq[i] \in E
  OBVIOUS
<1>2. PICK it \in [SUBSET DOMAIN seq -> T] : IsIter(it, F, base, seq)
  BY IterExists
<1> DEFINE r == [k \in 0..n |-> it[1..k]]
<1>3. \A k \in 0..n : 1..k \in SUBSET DOMAIN seq
  BY <1>1
<1>4. r \in [0..n -> T]
  BY <1>2, <1>3
<1>5. r[0] = base
  <2>1. 1..0 = {} /\ 0 \in 0..n
    BY <1>1
  <2> QED
    BY <1>2, <1>3, <2>1 DEF IsIter
<1>6. ASSUME NEW k \in 1..n PROVE r[k] = F[<<r[k - 1], seq[k]>>]
  <2>1. k \in 0..n /\ k - 1 \in 0..n /\ k \in 1..k
    BY <1>1
  <2>2. 1..k \in SUBSET DOMAIN seq /\ 1..k # {}
    BY <1>1, <1>3, <2>1
  <2>3. Max(1..k) = k /\ (1..k) \ {k} = 1..(k - 1)
    BY <1>1, MaxOfInterval
  <2>5. it[1..k] = F[<<it[1..(k - 1)], seq[k]>>]
    BY <1>2, <2>2, <2>3 DEF IsIter
  <2> QED
    BY <2>1, <2>5
<1>7. IsRun(r, F, base, seq)
  BY <1>4, <1>5, <1>6 DEF IsRun
<1> QED
  BY <1>4, <1>7

\* A function that follows the recursion on the first indexes follows the run.
LEMMA IterIsRun ==
  ASSUME NEW T, NEW E, NEW F, NEW base, NEW seq \in Seq(E),
         NEW r \in [0..Len(seq) -> T], IsRun(r, F, base, seq),
         NEW it, IterFollows(it, T, F, base, seq)
  PROVE  it[DOMAIN seq] = r[Len(seq)]
<1> DEFINE n == Len(seq)
           Bad == {k \in 0..n : it[1..k] # r[k]}
<1>1. n \in Nat /\ DOMAIN seq = 1..n
  OBVIOUS
<1>2. SUFFICES ASSUME Bad # {} PROVE FALSE
  BY <1>1
<1>3. PICK m \in Bad : \A k \in Bad : m <= k
  <2>1. Bad \in SUBSET Nat
    BY <1>1
  <2> QED
    BY <1>2, <2>1, LeastNumber
<1>4. m \in 0..n /\ it[1..m] # r[m]
  BY <1>3
<1>5. CASE m = 0
  <2>1. 1..0 = {}
    OBVIOUS
  <2> QED
    BY <1>4, <1>5, <2>1 DEF IsRun, IterFollows
<1>6. CASE m > 0
  <2>1. m - 1 \in 0..n /\ ~(m <= m - 1) /\ m \in 1..n
    BY <1>1, <1>4, <1>6
  <2>2. it[1..(m - 1)] = r[m - 1]
    BY <1>3, <2>1
  <2>3. it[1..m] = F[<<it[1..(m - 1)], seq[m]>>]
    BY <2>1, <2>2 DEF IterFollows
  <2>4. r[m] = F[<<r[m - 1], seq[m]>>]
    BY <2>1 DEF IsRun
  <2> QED
    BY <1>4, <2>2, <2>3, <2>4
<1> QED
  BY <1>1, <1>4, <1>5, <1>6
=============================================================================
