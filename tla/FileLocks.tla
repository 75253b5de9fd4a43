------------------------------ MODULE FileLocks ------------------------------
(***************************************************************************)
(* The record of open files that all dte processes of a user share         *)
(* (src/lock.c), with the commands that lock and unlock (window_open_      *)
(* buffer, buffer_unlock_and_free, cmd_save).                              *)
(*                                                                         *)
(* The records live in one text file, "dte-locks".  Who wants to change it *)
(* creates "dte-locks.lock" with O_EXCL, writes the new records into that  *)
(* file and renames it over the old one, so "dte-locks.lock" is both the   *)
(* mutex and the next version.  A process that finds the mutex taken tries *)
(* again after 100ms; at its third failure it takes the mutex for the left-*)
(* over of a crash and unlinks it, whoever it belongs to by then.          *)
(*                                                                         *)
(* Each system call is a step.  A file remembers which process has it open *)
(* for writing, because a file that another process renamed or unlinked is *)
(* still written through that descriptor.  A process that died is gone for *)
(* good: a new editor has a new pid.                                       *)
(***************************************************************************)
EXTENDS Naturals

CONSTANTS
  Procs,     \* editor processes, by pid
  Files,     \* absolute filenames
  Bufs,      \* bound: Buffers a process can have, as slots
  NoFile,    \* filename of a slot with no Buffer, or with one that has no name
  Nobody,    \* writer of a file that no process has open
  Blind,     \* the <<p, q>> such that kill(q, 0) fails in p though q runs
  MayCrash,  \* processes may be killed at any moment
  MayFail,   \* system calls may fail
  MayStall,  \* a third try may meet a mutex whose owner is still at work
  MayRace,   \* a third try may come while another process removes the mutex
  Twice      \* a Buffer may be saved under the name of another one

ASSUME NamesAssumption == NoFile \notin Files /\ Nobody \notin Procs
ASSUME FlagsAssumption ==
  /\ Blind \subseteq Procs \X Procs
  /\ MayCrash \in BOOLEAN /\ MayFail \in BOOLEAN
  /\ MayStall \in BOOLEAN /\ MayRace \in BOOLEAN /\ Twice \in BOOLEAN

VARIABLES
  alive,   \* the processes that run
  file,    \* file[p][b]: Buffer::abs_filename
  locked,  \* locked[p]: the Buffers with Buffer::locked set
  pc,      \* where p is in lock_or_unlock; "idle" is outside
  tries,   \* its "tries" variable; 4 is more than three
  call,    \* the command that p runs: what it does, to which Buffer, with which file
  mem,     \* the records p has in memory, and whether another process has the file
  lock,    \* dte-locks.lock: is it there, who writes it, its records
  locks    \* dte-locks: who writes it, its records

bufVars == <<file, locked>>
procVars == <<pc, tries, call, mem>>
fileVars == <<lock, locks>>
vars == <<alive, file, locked, pc, tries, call, mem, lock, locks>>

Records == Procs \X Files
LockOps == {"open", "save", "saveas"}
UnlockOps == {"close", "rename", "undo"}
NoCall == [op |-> "none", buf |-> NoFile, file |-> NoFile, new |-> FALSE]
NoMem == [recs |-> {}, other |-> FALSE]
NoLock == [there |-> FALSE, writer |-> Nobody, recs |-> {}]

Idle(p) == p \in alive /\ pc[p] = "idle"

\* The filename argument of lock_or_unlock.
Target(p) == IF call[p].op = "rename" THEN file[p][call[p].buf] ELSE call[p].file

Goto(p, label) == pc' = [pc EXCEPT ![p] = label]

Begin(p, op, b, f, new) ==
  /\ Goto(p, "open")
  /\ tries' = [tries EXCEPT ![p] = 0]
  /\ call' = [call EXCEPT ![p] = [op |-> op, buf |-> b, file |-> f, new |-> new]]
  /\ UNCHANGED mem

Rest(p) ==
  /\ Goto(p, "idle")
  /\ tries' = [tries EXCEPT ![p] = 0]
  /\ call' = [call EXCEPT ![p] = NoCall]
  /\ mem' = [mem EXCEPT ![p] = NoMem]

-----------------------------------------------------------------------------
(* lock_or_unlock *)

\* Variant with a bug: open without O_EXCL.
AcquireAnyway(p) ==
  /\ pc[p] = "open"
  /\ lock' = [there |-> TRUE, writer |-> p, recs |-> {}]
  /\ Goto(p, "read")
  /\ UNCHANGED <<alive, bufVars, tries, call, mem, locks>>

\* open(O_CREAT | O_EXCL) succeeds
Acquire(p) ==
  /\ pc[p] = "open"
  /\ ~lock.there
  /\ lock' = [there |-> TRUE, writer |-> p, recs |-> {}]
  /\ Goto(p, "read")
  /\ UNCHANGED <<alive, bufVars, tries, call, mem, locks>>

\* Who takes the mutex for a left-over is right, and alone in removing it,
\* unless the constants allow otherwise: nothing in the code sees to that.
ThirdTry ==
  /\ lock.writer \notin alive \/ MayStall
  /\ (\A q \in Procs : pc[q] # "stale") \/ MayRace

\* Variant with a bug: the failures are not counted.
PollUncounted(p) ==
  /\ pc[p] = "open"
  /\ lock.there
  /\ UNCHANGED vars

\* open fails with EEXIST
Poll(p) ==
  LET n == IF tries[p] = 4 THEN 4 ELSE tries[p] + 1
  IN  /\ pc[p] = "open"
      /\ lock.there
      /\ n = 3 => ThirdTry
      /\ tries' = [tries EXCEPT ![p] = n]
      /\ Goto(p, IF n = 3 THEN "stale" ELSE "open")
      /\ UNCHANGED <<alive, bufVars, call, mem, fileVars>>

\* open fails for another reason, or unlink does
GiveUp(p) ==
  /\ \/ pc[p] \in {"open", "stale"} /\ MayFail
     \/ pc[p] = "stale" /\ ~lock.there
  /\ Goto(p, "refused")
  /\ UNCHANGED <<alive, bufVars, tries, call, mem, fileVars>>

RemoveStale(p) ==
  /\ pc[p] = "stale"
  /\ lock.there
  /\ lock' = NoLock
  /\ Goto(p, "open")
  /\ UNCHANGED <<alive, bufVars, tries, call, mem, locks>>

\* process_exists, as p sees q
Exists(p, q) == q \in alive /\ <<p, q>> \notin Blind

\* Variant with a bug: all lines of the own process go, not just the one.
KeptOfOthers(p, f) == {r \in locks.recs : r[1] # p /\ Exists(p, r[1])}

\* The lines that rewrite_lock_file keeps.
Kept(p, f) ==
  {r \in locks.recs : IF r[1] = p THEN r[2] # f ELSE Exists(p, r[1])}

Other(p, f) == \E r \in Kept(p, f) : r[1] # p /\ r[2] = f

\* Variant with a bug: the own record is added though another process has one.
ReadIgnoresOther(p) ==
  LET f == Target(p)
      add == IF call[p].op \in LockOps THEN {<<p, f>>} ELSE {}
  IN  /\ pc[p] = "read"
      /\ mem' = [mem EXCEPT ![p] = [recs |-> Kept(p, f) \cup add, other |-> FALSE]]
      /\ Goto(p, "write")
      /\ UNCHANGED <<alive, bufVars, tries, call, fileVars>>

\* read_file and rewrite_lock_file
Read(p) ==
  LET f == Target(p)
      add == IF call[p].op \in LockOps /\ ~Other(p, f) THEN {<<p, f>>} ELSE {}
  IN  /\ pc[p] = "read"
      /\ mem' = [mem EXCEPT ![p] =
                   [recs |-> Kept(p, f) \cup add, other |-> Other(p, f)]]
      /\ Goto(p, "write")
      /\ UNCHANGED <<alive, bufVars, tries, call, fileVars>>

\* write and close, into whatever has become of the file that p created
Write(p) ==
  /\ pc[p] = "write"
  /\ lock' = IF lock.writer = p THEN [lock EXCEPT !.recs = mem[p].recs] ELSE lock
  /\ locks' = IF locks.writer = p THEN [locks EXCEPT !.recs = mem[p].recs] ELSE locks
  /\ Goto(p, "rename")
  /\ UNCHANGED <<alive, bufVars, tries, call, mem>>

\* rename, of whatever is there by then
Rename(p) ==
  /\ pc[p] = "rename"
  /\ lock.there
  /\ locks' = [writer |-> IF lock.writer = p THEN Nobody ELSE lock.writer,
               recs |-> lock.recs]
  /\ lock' = NoLock
  /\ Goto(p, IF mem[p].other THEN "refused" ELSE "granted")
  /\ UNCHANGED <<alive, bufVars, tries, call, mem>>

\* A read, write, close or rename that fails
IOError(p) ==
  /\ \/ pc[p] \in {"read", "write", "rename"} /\ MayFail
     \/ pc[p] = "rename" /\ ~lock.there
  /\ Goto(p, "error")
  /\ UNCHANGED <<alive, bufVars, tries, call, mem, fileVars>>

\* The code at the label "error", which also closes the file.
CleanUp(p) ==
  /\ pc[p] = "error"
  /\ lock' = NoLock
  /\ locks' = IF locks.writer = p THEN [locks EXCEPT !.writer = Nobody] ELSE locks
  /\ Goto(p, "refused")
  /\ UNCHANGED <<alive, bufVars, tries, call, mem>>

LockStep(p) ==
  \/ Acquire(p) \/ Poll(p) \/ GiveUp(p) \/ RemoveStale(p) \/ Read(p)
  \/ Write(p) \/ Rename(p) \/ IOError(p) \/ CleanUp(p)

-----------------------------------------------------------------------------
(* The commands *)

Returned(p, op) == pc[p] \in {"granted", "refused"} /\ call[p].op = op

SetBuf(p, b, f, isLocked) ==
  /\ file' = [file EXCEPT ![p][b] = f]
  /\ locked' = [locked EXCEPT ![p] = IF isLocked THEN @ \cup {b} ELSE @ \ {b}]

IsOpen(p, f) == \E b \in Bufs : file[p][b] = f

\* window_open_buffer, for a file that is in none of the Buffers
Open(p, b, f) ==
  /\ Idle(p)
  /\ file[p][b] = NoFile
  /\ ~IsOpen(p, f)
  /\ Begin(p, "open", b, f, FALSE)
  /\ UNCHANGED <<alive, bufVars, fileVars>>

\* The same with the "lock-files" option off.
OpenWithoutLock(p, b, f) ==
  /\ Idle(p)
  /\ file[p][b] = NoFile
  /\ ~IsOpen(p, f)
  /\ SetBuf(p, b, f, FALSE)
  /\ UNCHANGED <<alive, procVars, fileVars>>

\* Variant with a bug: the Buffer is marked as locked when locking failed.
OpenedLocked(p) ==
  /\ Returned(p, "open")
  /\ SetBuf(p, call[p].buf, call[p].file, TRUE)
  /\ Rest(p)
  /\ UNCHANGED <<alive, fileVars>>

\* A file that cannot be locked is opened read-only.
Opened(p) ==
  /\ Returned(p, "open")
  /\ SetBuf(p, call[p].buf, call[p].file, pc[p] = "granted")
  /\ Rest(p)
  /\ UNCHANGED <<alive, fileVars>>

\* "save" to the Buffer's own name locks a file that is not locked yet
Save(p, b) ==
  /\ Idle(p)
  /\ file[p][b] # NoFile
  /\ b \notin locked[p]
  /\ Begin(p, "save", b, file[p][b], FALSE)
  /\ UNCHANGED <<alive, bufVars, fileVars>>

Saved(p) ==
  /\ Returned(p, "save")
  /\ SetBuf(p, call[p].buf, call[p].file, pc[p] = "granted")
  /\ Rest(p)
  /\ UNCHANGED <<alive, fileVars>>

\* "save" to another name locks that one first
SaveAs(p, b, f) ==
  /\ Idle(p)
  /\ file[p][b] # f
  /\ Twice \/ ~IsOpen(p, f)
  /\ Begin(p, "saveas", b, f, FALSE)
  /\ UNCHANGED <<alive, bufVars, fileVars>>

\* Variant with a bug: the lock of the new name is kept.
SaveAsFailsLocked(p) ==
  /\ Returned(p, "saveas")
  /\ Rest(p)
  /\ UNCHANGED <<alive, bufVars, fileVars>>

\* Not locked and no -f, the file exists and no -f, or writing it failed
SaveAsFails(p) ==
  /\ Returned(p, "saveas")
  /\ IF pc[p] = "granted"
     THEN Begin(p, "undo", call[p].buf, call[p].file, FALSE)
     ELSE Rest(p)
  /\ UNCHANGED <<alive, bufVars, fileVars>>

SaveAsUndone(p) ==
  /\ Returned(p, "undo")
  /\ Rest(p)
  /\ UNCHANGED <<alive, bufVars, fileVars>>

\* The file is written; the lock of the old name goes
SaveAsWrites(p) ==
  LET b == call[p].buf
  IN  /\ Returned(p, "saveas")
      /\ IF b \in locked[p]
         THEN /\ Begin(p, "rename", b, call[p].file, pc[p] = "granted")
              /\ UNCHANGED bufVars
         ELSE /\ SetBuf(p, b, call[p].file, pc[p] = "granted")
              /\ Rest(p)
      /\ UNCHANGED <<alive, fileVars>>

SaveAsRenames(p) ==
  /\ Returned(p, "rename")
  /\ SetBuf(p, call[p].buf, call[p].file, call[p].new)
  /\ Rest(p)
  /\ UNCHANGED <<alive, fileVars>>

\* buffer_unlock_and_free
Close(p, b) ==
  /\ Idle(p)
  /\ file[p][b] # NoFile
  /\ IF b \in locked[p]
     THEN /\ Begin(p, "close", b, file[p][b], FALSE)
          /\ UNCHANGED bufVars
     ELSE /\ SetBuf(p, b, NoFile, FALSE)
          /\ UNCHANGED procVars
  /\ UNCHANGED <<alive, fileVars>>

Closed(p) ==
  /\ Returned(p, "close")
  /\ SetBuf(p, call[p].buf, NoFile, FALSE)
  /\ Rest(p)
  /\ UNCHANGED <<alive, fileVars>>

Gone(p) ==
  /\ alive' = alive \ {p}
  /\ file' = [file EXCEPT ![p] = [b \in Bufs |-> NoFile]]
  /\ locked' = [locked EXCEPT ![p] = {}]
  /\ Rest(p)
  /\ UNCHANGED fileVars

\* The editor exits after it closed all Buffers.
Exit(p) == Idle(p) /\ (\A b \in Bufs : file[p][b] = NoFile) /\ Gone(p)

Crash(p) == MayCrash /\ p \in alive /\ Gone(p)

Finish(p) ==
  \/ Opened(p) \/ Saved(p) \/ SaveAsFails(p) \/ SaveAsUndone(p)
  \/ SaveAsWrites(p) \/ SaveAsRenames(p) \/ Closed(p)

-----------------------------------------------------------------------------
Init ==
  /\ alive = Procs
  /\ file = [p \in Procs |-> [b \in Bufs |-> NoFile]]
  /\ locked = [p \in Procs |-> {}]
  /\ pc = [p \in Procs |-> "idle"]
  /\ tries = [p \in Procs |-> 0]
  /\ call = [p \in Procs |-> NoCall]
  /\ mem = [p \in Procs |-> NoMem]
  /\ lock = NoLock
  /\ locks = [writer |-> Nobody, recs |-> {}]

Command(p) ==
  \E b \in Bufs :
    \/ Save(p, b) \/ Close(p, b)
    \/ \E f \in Files : Open(p, b, f) \/ OpenWithoutLock(p, b, f) \/ SaveAs(p, b, f)

Next == \E p \in Procs : LockStep(p) \/ Finish(p) \/ Command(p) \/ Exit(p) \/ Crash(p)

\* What a process does next in lock_or_unlock, when no call fails that can succeed.
Work(p) ==
  \/ Acquire(p) \/ Poll(p) \/ RemoveStale(p) \/ Read(p)
  \/ Write(p) \/ Rename(p) \/ CleanUp(p)
  \/ ~lock.there /\ (GiveUp(p) \/ IOError(p))

\* A process that is in a system call or has returned from one goes on.
Fairness == \A p \in Procs : WF_vars(Work(p)) /\ WF_vars(Finish(p))

Spec == Init /\ [][Next]_vars /\ Fairness

-----------------------------------------------------------------------------
(* Properties *)

Labels == {"idle", "open", "stale", "read", "write", "rename", "error",
           "granted", "refused"}

Calls == [op : LockOps \cup UnlockOps, buf : Bufs, file : Files, new : BOOLEAN]

\* Types of the variables; a process that died has no memory.
TypeOK ==
  /\ alive \subseteq Procs
  /\ file \in [Procs -> [Bufs -> Files \cup {NoFile}]]
  /\ locked \in [Procs -> SUBSET Bufs]
  /\ \A p \in Procs : \A b \in locked[p] : file[p][b] # NoFile
  /\ pc \in [Procs -> Labels]
  /\ tries \in [Procs -> 0..4]
  /\ call \in [Procs -> Calls \cup {NoCall}]
  /\ \A p \in Procs : call[p] = NoCall <=> pc[p] = "idle"
  /\ \A p \in Procs \ alive : pc[p] = "idle" /\ locked[p] = {}
  /\ mem \in [Procs -> [recs : SUBSET Records, other : BOOLEAN]]
  /\ lock \in [there : BOOLEAN, writer : Procs \cup {Nobody}, recs : SUBSET Records]
  /\ locks \in [writer : Procs \cup {Nobody}, recs : SUBSET Records]

InSection(p) == pc[p] \in {"read", "write", "rename", "error"}

\* Who is between the open and the rename of dte-locks.lock has that file to
\* itself: what it writes, renames or unlinks is what it created.
Exclusive == \A p \in Procs : InSection(p) => lock.there /\ lock.writer = p

\* p is giving up the lock of its Buffer b: the record may be gone already.
Releasing(p, b) == call[p].op \in {"close", "rename"} /\ call[p].buf = b

Holds(p, f) == \E b \in locked[p] : file[p][b] = f /\ ~Releasing(p, b)

\* A Buffer that believes its file to be locked has its record in dte-locks,
\* so that other processes can warn; rewriting by any process keeps it there.
HeldIsRecorded == \A p \in Procs, f \in Files : Holds(p, f) => <<p, f>> \in locks.recs

\* No two running processes both believe to have the lock of a file.
OneHolder ==
  \A p, q \in Procs, f \in Files : Holds(p, f) /\ Holds(q, f) => p = q

\* When no system call fails, closing a Buffer or saving it elsewhere leaves
\* no record behind that would make the file look open.
RecordsAreHeld ==
  \A p \in alive, f \in Files :
    pc[p] = "idle" /\ <<p, f>> \in locks.recs => \E b \in locked[p] : file[p][b] = f

Registry == INSTANCE LockRegistry WITH
              held <- {r \in locks.recs : r[1] \in alive}

\* The lock file is an atomic registry: each rename grants or releases one
\* file to the process that runs, or changes nothing that matters.
ImplementsRegistry == Registry!Spec

\* p removed the mutex of a crashed process and has met that of a second one,
\* which it will never remove: it compares tries with 3 for equality.
Stuck(p) == tries[p] = 4 /\ lock.there /\ lock.writer \notin alive

\* When the other processes are at rest for good, a call comes back: nobody
\* leaves the mutex behind, except by crashing, and a left-over is removed, if
\* only once in a call.
WaitsEnd ==
  \A p \in Procs :
    <>[](\A q \in Procs \ {p} : pc[q] = "idle") => []<>(pc[p] = "idle" \/ Stuck(p))
=============================================================================
