---------------------------- MODULE HistoryLists ----------------------------
(***************************************************************************)
(* The histories of commands, searches (history.c) and files               *)
(* (file-history.c): a doubly linked list of entries with a HashMap from   *)
(* their texts to them.  An entry is one of MaxEntries nodes; at the limit *)
(* the oldest node is used again for the new text.                         *)
(***************************************************************************)
EXTENDS Integers, Sequences, FiniteSets

CONSTANTS
  Texts,       \* texts (or names of files): sequences of characters
  MaxEntries   \* History::max_entries, FILEHIST_MAX_ENTRIES

Nodes == 1..MaxEntries
NULL == 0
NoText == <<"no text">>

\* BUG_ON(history->max_entries < 2)
ASSUME HistoryAssumption ==
  /\ MaxEntries \in Nat /\ MaxEntries >= 2
  /\ NoText \notin Texts

\* Fields of nodes that are not in use keep what they had; here they are
\* reset, so that equal lists are equal values.
EmptyHistory ==
  [next |-> [n \in Nodes |-> NULL], prev |-> [n \in Nodes |-> NULL],
   text |-> [n \in Nodes |-> NoText], place |-> [n \in Nodes |-> NULL],
   first |-> NULL, last |-> NULL, map |-> [t \in Texts |-> NULL]]

Count(h) == Cardinality({t \in Texts : h.map[t] # NULL})

\* An entry that is not the last one leaves the list.
Unlinked(h, n) ==
  LET succ == h.next[n]
      pred == h.prev[n]
      back == [h EXCEPT !.prev[succ] = pred]
  IN IF n = h.first THEN [back EXCEPT !.first = succ]
     ELSE [back EXCEPT !.next[pred] = succ]

\* The oldest entry leaves the list and the map.
Recycled(h) ==
  LET new == h.next[h.first]
  IN [h EXCEPT !.prev[new] = NULL, !.first = new, !.map[h.text[h.first]] = NULL]

Named(h, n, t) == [h EXCEPT !.text[n] = t, !.map[t] = n]

\* Variant with a bug: the entry that was last does not point to the new one.
LinkedLastLoose(h, n, p) ==
  [h EXCEPT !.next[n] = NULL, !.prev[n] = h.last, !.place[n] = p, !.last = n,
            !.first = IF h.last = NULL THEN n ELSE @]

LinkedLast(h, n, p) ==
  LET end == [h EXCEPT !.next[n] = NULL, !.prev[n] = h.last, !.place[n] = p, !.last = n]
  IN IF h.last = NULL THEN [end EXCEPT !.first = n] ELSE [end EXCEPT !.next[h.last] = n]

\* What history_append and file_history_append share
Appended(h, t, p) ==
  LET n == h.map[t]
      unused == CHOOSE m \in Nodes : h.text[m] = NoText
  IN IF n # NULL /\ n = h.last THEN [h EXCEPT !.place[n] = p]
     ELSE IF n # NULL THEN LinkedLast(Unlinked(h, n), n, p)
     ELSE IF Count(h) = MaxEntries THEN LinkedLast(Named(Recycled(h), h.first, t), h.first, p)
     ELSE LinkedLast(Named(h, unused, t), unused, p)

HistoryAppend(h, t) == IF t = <<>> THEN h ELSE Appended(h, t, NULL)
FileHistoryAppend(h, t, p) == Appended(h, t, p)

\* The entries that the links lead to from n on
Walk(link, n) ==
  LET at[k \in 1..MaxEntries] ==
        IF k = 1 THEN n ELSE LET m == at[k - 1] IN IF m = NULL THEN NULL ELSE link[m]
  IN [i \in 1..Cardinality({k \in 1..MaxEntries : at[k] # NULL}) |-> at[i]]

\* The entries from the oldest on, and from the newest back
Forward(h) == Walk(h.next, h.first)
Backward(h) == Walk(h.prev, h.last)

Entries(h) ==
  LET f == Forward(h)
  IN [i \in DOMAIN f |-> <<h.text[f[i]], h.place[f[i]]>>]

HasPrefix(t, prefix) == Len(prefix) <= Len(t) /\ SubSeq(t, 1, Len(prefix)) = prefix

\* The first entry of a walk whose text has the prefix; NULL if there is none
FirstMatch(h, walk, prefix) ==
  LET hits == {i \in DOMAIN walk : HasPrefix(h.text[walk[i]], prefix)}
  IN IF hits = {} THEN NULL ELSE walk[CHOOSE i \in hits : \A j \in hits : i <= j]

\* The part of a walk behind n; all of it if n is NULL
After(walk, n) ==
  IF n = NULL THEN walk
  ELSE SubSeq(walk, 1 + (CHOOSE i \in DOMAIN walk : walk[i] = n), Len(walk))

\* history_search_forward goes to older entries, history_search_backward to
\* newer ones.
SearchForward(h, n, prefix) == FirstMatch(h, After(Backward(h), n), prefix)
SearchBackward(h, n, prefix) == FirstMatch(h, After(Forward(h), n), prefix)

\* The list in both directions, the map and the count agree.
ListIsMap(h) ==
  LET f == Forward(h)
      b == Backward(h)
  IN /\ Len(f) = Count(h) /\ Len(b) = Len(f)
     /\ \A i \in DOMAIN f : /\ b[Len(f) + 1 - i] = f[i]
                            /\ h.map[h.text[f[i]]] = f[i]
     /\ \A t \in Texts : h.map[t] # NULL => h.text[h.map[t]] = t
=============================================================================
