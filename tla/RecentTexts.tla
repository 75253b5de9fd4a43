---------------------------- MODULE RecentTexts -----------------------------
(***************************************************************************)
(* What a history promises: the texts that were used last, each of them    *)
(* once, the oldest first.                                                 *)
(***************************************************************************)
EXTENDS Integers, Sequences, SequencesExt

CONSTANT MaxRecent

VARIABLE recent  \* pairs of a text and what goes with it

RecentInit == recent = <<>>

\* Without the text t, if it is there
Others(t) ==
  LET places == {i \in DOMAIN recent : recent[i][1] = t}
  IN IF places = {} THEN recent ELSE RemoveAt(recent, CHOOSE i \in places : TRUE)

Used(t, p) ==
  LET all == Append(Others(t), <<t, p>>)
  IN recent' = IF Len(all) > MaxRecent THEN Tail(all) ELSE all

Forget == recent' = <<>>

\* What a file had may come back.
Recall ==
  /\ recent = <<>> /\ Len(recent') <= MaxRecent
  /\ \A i, j \in DOMAIN recent' : recent'[i][1] = recent'[j][1] => i = j

\* The last one of the sequence tells which text was used.
RecentNext ==
  \/ Forget \/ Recall
  \/ /\ recent' # <<>>
     /\ Used(recent'[Len(recent')][1], recent'[Len(recent')][2])

RecentSpec == RecentInit /\ [][RecentNext]_recent
=============================================================================
