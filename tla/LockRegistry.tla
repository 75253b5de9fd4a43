---------------------------- MODULE LockRegistry ----------------------------
(***************************************************************************)
(* What the lock file promises to the processes that share it: a registry  *)
(* of which process has which file open.  Each change to it is atomic, a   *)
(* file has at most one holder, nobody but the holder gives a file up, and *)
(* the holdings of a process end with the process.                         *)
(***************************************************************************)
CONSTANTS
  Procs,  \* editor processes
  Files   \* absolute filenames

VARIABLES
  alive,  \* the processes that run
  held    \* the <<process, file>> pairs in force

Holders(f) == {p \in Procs : <<p, f>> \in held}

Grant(p, f) ==
  /\ p \in alive
  /\ Holders(f) \subseteq {p}
  /\ held' = held \cup {<<p, f>>}
  /\ UNCHANGED alive

Release(p, f) ==
  /\ p \in alive
  /\ held' = held \ {<<p, f>>}
  /\ UNCHANGED alive

Die(p) ==
  /\ p \in alive
  /\ alive' = alive \ {p}
  /\ held' = {r \in held : r[1] # p}

Init == alive = Procs /\ held = {}

Next ==
  \E p \in Procs :
    \/ Die(p)
    \/ \E f \in Files : Grant(p, f) \/ Release(p, f)

Spec == Init /\ [][Next]_<<alive, held>>
=============================================================================
