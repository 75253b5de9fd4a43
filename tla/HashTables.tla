----------------------------- MODULE HashTables -----------------------------
(***************************************************************************)
(* The hash tables of util: HashMap (strings, hashmap.c) and IntMap (key   *)
(* codes, intmap.c) with open addressing, triangular probing and           *)
(* tombstones, and HashSet (hashset.c) with chains.                        *)
(*                                                                         *)
(* What the table should hold is kept beside it in "fn".  "use" says which *)
(* calls the owner of the table makes: only those combinations that exist. *)
(***************************************************************************)
EXTENDS Integers, Sequences, FiniteSets, SequencesExt

CONSTANTS
  HashKeys,   \* keys
  HashValues, \* values
  Hashes,     \* the hash functions looked at
  MinCap,     \* MIN_CAPACITY
  GrowLimit,  \* a table up to this size always grows
  Uses        \* the owners looked at

VARIABLES
  use,   \* who owns the table
  hash,  \* fnv_1a_hash or hash_key
  tab,   \* HashMap or IntMap: entries, count, tombstones
  set,   \* HashSet: its chains
  hung,  \* a search does not end
  fn     \* history: the value that each key was given last

hashVars == <<use, hash, tab, set, hung, fn>>

NoValue == "none"
Free == <<"free", NoValue>>
Dead == <<"dead", NoValue>>

Unallocated == [slots |-> <<>>, count |-> 0, dead |-> 0]
Size(t) == Len(t.slots)

\* Slots are numbered from 0, elements of sequences from 1.
Slot(t, k, j) == ((hash[k] + (j * (j + 1)) \div 2) % Size(t)) + 1

\* The first probe for k that meets one of these keys or marks; -1 if none
\* does, since after Size(t) probes all slots have been seen.
Search(t, k, ends) ==
  LET js == {j \in 0..(Size(t) - 1) : t.slots[Slot(t, k, j)][1] \in ends}
  IN IF js = {} THEN -1 ELSE CHOOSE j \in js : \A i \in js : j <= i

\* hashmap_find, intmap_find: the slot of k, 0 if it has none, -1 if the
\* loop does not end
Find(t, k) ==
  LET j == Search(t, k, {"free", k})
  IN CASE Size(t) = 0 -> 0
       [] Size(t) > 0 /\ j = -1 -> -1
       [] OTHER -> IF t.slots[Slot(t, k, j)] = Free THEN 0 ELSE Slot(t, k, j)

Get(t, k) == IF Find(t, k) > 0 THEN t.slots[Find(t, k)][2] ELSE NoValue

\* Variant with a bug: the old table is copied slot by slot.
ResizeInPlace(t, cap) ==
  [slots |-> [i \in 1..cap |-> IF i <= Size(t) /\ t.slots[i] # Dead THEN t.slots[i] ELSE Free],
   count |-> t.count, dead |-> 0]

\* hashmap_resize, intmap_resize: the entries move, the tombstones go.
Resize(t, cap) ==
  LET Put(n, e) ==
        IF e[1] \notin HashKeys THEN n
        ELSE [n EXCEPT !.slots[Slot(n, e[1], Search(n, e[1], {"free"}))] = e]
  IN FoldLeft(Put, [slots |-> [i \in 1..cap |-> Free], count |-> t.count, dead |-> 0], t.slots)

\* The table after an entry was put into slot i, with this many tombstones
MaxLoad(t) == (Size(t) - 1) - ((Size(t) - 1) \div 4)

Stored(t, i, e, dead) ==
  LET n == [slots |-> [t.slots EXCEPT ![i] = e],
            count |-> t.count + (IF t.slots[i][1] = e[1] THEN 0 ELSE 1),
            dead |-> dead]
      grows == n.count > n.dead \/ Size(n) <= GrowLimit
  IN IF n.count + n.dead <= MaxLoad(n) THEN n
     ELSE Resize(n, IF grows THEN 2 * Size(n) ELSE Size(n))

Allocated(t) == IF Size(t) = 0 THEN Resize(t, MinCap) ELSE t

\* hashmap_do_insert: a tombstone ends the search and is replaced.
HashInsert(t, k, v) ==
  LET j == Search(t, k, {"free", "dead", k})
      i == Slot(t, k, j)
  IN IF j = -1 THEN t
     ELSE Stored(t, i, <<k, v>>, t.dead - (IF t.slots[i] = Dead THEN 1 ELSE 0))

\* intmap_do_insert: tombstones are passed, and no longer counted.  The
\* counter is a size_t; nothing tells its wrap from a negative number.
IntInsert(t, k, v) ==
  LET j == Search(t, k, {"free", k})
      passed == {i \in 0..(j - 1) : t.slots[Slot(t, k, i)] = Dead}
  IN IF j = -1 THEN t
     ELSE Stored(t, Slot(t, k, j), <<k, v>>, t.dead - Cardinality(passed))

\* hashmap_remove, intmap_remove
Without(t, i) ==
  [slots |-> [t.slots EXCEPT ![i] = Dead], count |-> t.count - 1, dead |-> t.dead + 1]

-----------------------------------------------------------------------------
(* HashSet *)

Chain(s, k) == (hash[k] % Len(s)) + 1

\* rehash: each element goes to the head of its new chain.
Rehash(s, n) ==
  LET Move(new, k) == [new EXCEPT ![(hash[k] % n) + 1] = <<k>> \o @]
  IN FoldLeft(Move, [i \in 1..n |-> <<>>], FlattenSeq(s))

\* hashset_insert; it grows at three quarters.
SetInsert(s, k) ==
  LET more == [s EXCEPT ![Chain(s, k)] = <<k>> \o @]
  IN IF k \in ToSet(s[Chain(s, k)]) THEN s
     ELSE IF Len(FlattenSeq(more)) > Len(s) - (Len(s) \div 4) THEN Rehash(more, 2 * Len(s))
     ELSE more

-----------------------------------------------------------------------------
HashInit ==
  /\ use \in Uses /\ hash \in Hashes
  /\ tab = Unallocated /\ set = [i \in 1..2 |-> <<>>] /\ hung = FALSE
  /\ fn = [k \in HashKeys |-> NoValue]

IntMapUse == use \in {"bindings", "defaults"}

\* hashmap_insert (the key is new), hashmap_insert_or_replace,
\* intmap_insert_or_replace
Insert(k, v) ==
  /\ use # "set" /\ ~hung
  /\ use = "history" => fn[k] = NoValue
  /\ LET t == Allocated(tab)
         ends == {"free", k} \cup (IF IntMapUse THEN {} ELSE {"dead"})
     IN /\ hung' = (Search(t, k, ends) = -1)
        /\ tab' = IF IntMapUse THEN IntInsert(t, k, v) ELSE HashInsert(t, k, v)
  /\ fn' = [fn EXCEPT ![k] = v]
  /\ UNCHANGED <<use, hash, set>>

\* Owners: "history" (also of compilers) and "alias" remove, "styles" and
\* "defaults" (bindings nobody takes back) do not.
Delete(k) ==
  /\ use \in {"history", "alias", "bindings"} /\ ~hung
  /\ hung' = (Find(tab, k) = -1)
  /\ tab' = IF Find(tab, k) > 0 THEN Without(tab, Find(tab, k)) ELSE tab
  /\ fn' = [fn EXCEPT ![k] = NoValue]
  /\ UNCHANGED <<use, hash, set>>

\* hashset_insert and hashset_get
Include(k) ==
  /\ use = "set"
  /\ set' = SetInsert(set, k)
  /\ fn' = [fn EXCEPT ![k] = "in"]
  /\ UNCHANGED <<use, hash, tab, hung>>

\* hashmap_clear, for the styles only: the table stays, and its count of
\* tombstones too.
ClearTable ==
  /\ use = "styles" /\ Size(tab) > 0
  /\ tab' = [tab EXCEPT !.slots = [i \in 1..Size(tab) |-> Free], !.count = 0]
  /\ fn' = [k \in HashKeys |-> NoValue]
  /\ UNCHANGED <<use, hash, set, hung>>

HashNext ==
  \/ ClearTable
  \/ \E k \in HashKeys, v \in HashValues : Insert(k, v)
  \/ \E k \in HashKeys : Delete(k) \/ Include(k)

HashSpec == HashInit /\ [][HashNext]_hashVars

-----------------------------------------------------------------------------
Occupied(t) == {i \in 1..Size(t) : t.slots[i] \notin {Free, Dead}}

\* The assertion of intmap_do_insert, BUG_ON(map->tombstones == 0): a
\* tombstone that is met has been counted.  The counter decides when a table
\* is cleaned, and so whether a free slot is left to end a search.
TombstonesAreCounted == tab.dead >= 0

\* A table holds each key with the value it was given last and nothing else,
\* and a search for any key, present or not, comes to an end, whatever was
\* inserted and removed before and however the keys collide.
MapIsExact ==
  /\ ~hung
  /\ \A k \in HashKeys :
       IF use = "set" THEN (k \in ToSet(set[Chain(set, k)])) = (fn[k] = "in")
       ELSE Find(tab, k) # -1 /\ Get(tab, k) = fn[k]
  /\ use = "set" => Len(FlattenSeq(set)) = Cardinality({k \in HashKeys : fn[k] = "in"})
  /\ use # "set" => Cardinality(Occupied(tab)) = tab.count /\ tab.count = Cardinality({k \in HashKeys : fn[k] # NoValue})
  /\ TombstonesAreCounted
=============================================================================
