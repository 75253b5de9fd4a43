----------------------------- MODULE MCSaveFile -----------------------------
(* Small instances of SaveFile for TLC. *)
EXTENDS SaveFile

CONSTANTS e1, e2

\* One editor may force its saves, the other one is careful.
MCFlags == [e \in {e1, e2} |-> IF e = e1 THEN BOOLEAN ELSE {FALSE}]

\* Inodes that nothing refers to do not tell states apart.
Reachable == <<[i \in InUse \ {0} |-> file[i]], dir, lock, buf, job, counters, seen>>
=============================================================================
