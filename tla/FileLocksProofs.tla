--------------------------- MODULE FileLocksProofs ---------------------------
(***************************************************************************)
(* Proofs about FileLocks for any number of processes, files and Buffers.  *)
(* The code of lock.c keeps its promise only if no process takes the mutex *)
(* away from another one that is at work or about to remove it as well;    *)
(* the theorems say so in their assumptions.                               *)
(***************************************************************************)
EXTENDS FileLocks, TLAPS

-----------------------------------------------------------------------------
(* The inductive invariants *)

\* Only one process is about to remove the mutex, and a dead one left it.
StaleIsDead ==
  \A p \in Procs : pc[p] = "stale" =>
    /\ lock.there
    /\ lock.writer \notin alive
    /\ \A q \in Procs : pc[q] = "stale" => q = p

MutexInv ==
  /\ TypeOK
  /\ Exclusive
  /\ StaleIsDead
  /\ locks.writer = Nobody

-----------------------------------------------------------------------------
(* Type correctness *)

LEMMA InitType == Init => TypeOK
  BY DEF Init, TypeOK, Labels, Calls, NoCall, NoMem, NoLock, Records

\* Beginning a call and coming back from one keep the types of their variables.
ProcTypes ==
  /\ pc \in [Procs -> Labels]
  /\ tries \in [Procs -> 0..4]
  /\ call \in [Procs -> Calls \cup {NoCall}]
  /\ \A p \in Procs : call[p] = NoCall <=> pc[p] = "idle"
  /\ mem \in [Procs -> [recs : SUBSET Records, other : BOOLEAN]]

LEMMA BeginType ==
  ASSUME ProcTypes,
         NEW p \in Procs, NEW op \in LockOps \cup UnlockOps, NEW b \in Bufs, NEW f \in Files,
         NEW new \in BOOLEAN, Begin(p, op, b, f, new)
  PROVE  ProcTypes'
<1>1. [op |-> op, buf |-> b, file |-> f, new |-> new] \in Calls
  BY DEF Calls
<1>2. [op |-> op, buf |-> b, file |-> f, new |-> new] # NoCall
  BY NamesAssumption DEF NoCall
<1> QED
  BY <1>1, <1>2 DEF ProcTypes, Begin, Goto, Labels

LEMMA RestType ==
  ASSUME ProcTypes, NEW p \in Procs, Rest(p)
  PROVE  ProcTypes'
<1>1. NoMem \in [recs : SUBSET Records, other : BOOLEAN]
  BY DEF NoMem
<1> QED
  BY <1>1 DEF ProcTypes, Rest, Goto, Labels

BufTypes ==
  /\ file \in [Procs -> [Bufs -> Files \cup {NoFile}]]
  /\ locked \in [Procs -> SUBSET Bufs]
  /\ \A p \in Procs : \A b \in locked[p] : file[p][b] # NoFile

LEMMA SetBufType ==
  ASSUME BufTypes, NEW p \in Procs, NEW b \in Bufs, NEW f \in Files \cup {NoFile},
         NEW isLocked \in BOOLEAN, isLocked => f # NoFile, SetBuf(p, b, f, isLocked)
  PROVE  BufTypes'
<1>1. CASE isLocked
  BY <1>1 DEF BufTypes, SetBuf
<1>2. CASE ~isLocked
  BY <1>2 DEF BufTypes, SetBuf
<1> QED
  BY <1>1, <1>2

\* The rest of TypeOK.
FileTypes ==
  /\ alive \subseteq Procs
  /\ lock \in [there : BOOLEAN, writer : Procs \cup {Nobody}, recs : SUBSET Records]
  /\ locks \in [writer : Procs \cup {Nobody}, recs : SUBSET Records]

DeadAtRest == \A p \in Procs \ alive : pc[p] = "idle" /\ locked[p] = {}

LEMMA TypeParts == TypeOK <=> ProcTypes /\ BufTypes /\ FileTypes /\ DeadAtRest
  BY DEF TypeOK, ProcTypes, BufTypes, FileTypes, DeadAtRest

\* A step of a command that only touches the Buffers and the caller's variables.
LEMMA StepTypes ==
  ASSUME TypeOK, NEW p \in alive, ProcTypes', BufTypes', UNCHANGED <<alive, fileVars>>,
         \A q \in Procs \ {p} : pc'[q] = pc[q] /\ locked'[q] = locked[q]
  PROVE  TypeOK'
<1>1. FileTypes'
  BY DEF TypeOK, FileTypes, fileVars
<1>2. DeadAtRest'
  BY DEF TypeOK, DeadAtRest
<1>3. ProcTypes' /\ BufTypes' /\ FileTypes' /\ DeadAtRest' => TypeOK'
  BY DEF TypeOK, ProcTypes, BufTypes, FileTypes, DeadAtRest
<1> QED
  BY <1>1, <1>2, <1>3

LEMMA NextType == TypeOK /\ [Next]_vars => TypeOK'
<1> SUFFICES ASSUME TypeOK, [Next]_vars PROVE TypeOK'
  OBVIOUS
<1>0. CASE UNCHANGED vars
  BY <1>0 DEF TypeOK, vars
<1>1. ASSUME NEW p \in Procs, Acquire(p) PROVE TypeOK'
  BY <1>1 DEF TypeOK, Acquire, Begin, Rest, Goto, SetBuf, Returned, Idle,
            Labels, Calls, LockOps, UnlockOps, NoCall, NoMem, NoLock, Records, Kept,
            bufVars, procVars, fileVars
<1>2. ASSUME NEW p \in Procs, Poll(p) PROVE TypeOK'
  <2>1. \A n \in 0..4 : (IF n = 4 THEN 4 ELSE n + 1) \in 0..4
    OBVIOUS
  <2>2. tries' \in [Procs -> 0..4]
    BY <1>2, <2>1 DEF TypeOK, Poll
  <2> QED
    BY <1>2, <2>2 DEF TypeOK, Poll, Goto, Labels, NoCall, bufVars, fileVars
<1>3. ASSUME NEW p \in Procs, GiveUp(p) PROVE TypeOK'
  BY <1>3 DEF TypeOK, GiveUp, Begin, Rest, Goto, SetBuf, Returned, Idle,
            Labels, Calls, LockOps, UnlockOps, NoCall, NoMem, NoLock, Records, Kept,
            bufVars, procVars, fileVars
<1>4. ASSUME NEW p \in Procs, RemoveStale(p) PROVE TypeOK'
  BY <1>4 DEF TypeOK, RemoveStale, Begin, Rest, Goto, SetBuf, Returned, Idle,
            Labels, Calls, LockOps, UnlockOps, NoCall, NoMem, NoLock, Records, Kept,
            bufVars, procVars, fileVars
<1>5. ASSUME NEW p \in Procs, Read(p) PROVE TypeOK'
  <2> DEFINE f == Target(p)
             add == IF call[p].op \in LockOps /\ ~Other(p, f) THEN {<<p, f>>} ELSE {}
  <2>2. call[p].op \in LockOps => f \in Files
    BY <1>5 DEF TypeOK, Read, Target, Calls, NoCall, LockOps
  <2>3. Kept(p, f) \cup add \subseteq Records
    BY <2>2 DEF TypeOK, Kept, Records
  <2>4. Other(p, f) \in BOOLEAN
    BY DEF Other
  <2>5. [recs |-> Kept(p, f) \cup add, other |-> Other(p, f)]
          \in [recs : SUBSET Records, other : BOOLEAN]
    BY <2>3, <2>4
  <2>6. mem' \in [Procs -> [recs : SUBSET Records, other : BOOLEAN]]
    BY <1>5, <2>5 DEF TypeOK, Read
  <2> QED
    BY <1>5, <2>6 DEF TypeOK, Read, Goto, Labels, NoCall, bufVars, fileVars
<1>6. ASSUME NEW p \in Procs, Write(p) PROVE TypeOK'
  BY <1>6 DEF TypeOK, Write, Begin, Rest, Goto, SetBuf, Returned, Idle,
            Labels, Calls, LockOps, UnlockOps, NoCall, NoMem, NoLock, Records, Kept,
            bufVars, procVars, fileVars
<1>7. ASSUME NEW p \in Procs, Rename(p) PROVE TypeOK'
  BY <1>7 DEF TypeOK, Rename, Begin, Rest, Goto, SetBuf, Returned, Idle,
            Labels, Calls, LockOps, UnlockOps, NoCall, NoMem, NoLock, Records, Kept,
            bufVars, procVars, fileVars
<1>8. ASSUME NEW p \in Procs, IOError(p) PROVE TypeOK'
  BY <1>8 DEF TypeOK, IOError, Begin, Rest, Goto, SetBuf, Returned, Idle,
            Labels, Calls, LockOps, UnlockOps, NoCall, NoMem, NoLock, Records, Kept,
            bufVars, procVars, fileVars
<1>9. ASSUME NEW p \in Procs, CleanUp(p) PROVE TypeOK'
  BY <1>9 DEF TypeOK, CleanUp, Begin, Rest, Goto, SetBuf, Returned, Idle,
            Labels, Calls, LockOps, UnlockOps, NoCall, NoMem, NoLock, Records, Kept,
            bufVars, procVars, fileVars
<1>10. ASSUME NEW p \in Procs, Opened(p) PROVE TypeOK'
  BY <1>10, NamesAssumption DEF TypeOK, Opened, Begin, Rest, Goto, SetBuf, Returned, Idle,
            Labels, Calls, LockOps, UnlockOps, NoCall, NoMem, NoLock, Records, Kept,
            bufVars, procVars, fileVars
<1>11. ASSUME NEW p \in Procs, Saved(p) PROVE TypeOK'
  BY <1>11, NamesAssumption DEF TypeOK, Saved, Begin, Rest, Goto, SetBuf, Returned, Idle,
            Labels, Calls, LockOps, UnlockOps, NoCall, NoMem, NoLock, Records, Kept,
            bufVars, procVars, fileVars
<1>12. ASSUME NEW p \in Procs, SaveAsFails(p) PROVE TypeOK'
  <2>1. p \in alive /\ call[p] \in Calls
    BY <1>12 DEF TypeOK, SaveAsFails, Returned
  <2>2. BufTypes'
    BY <1>12 DEF TypeOK, BufTypes, SaveAsFails, bufVars
  <2>3. ProcTypes'
    <3>1. CASE pc[p] = "granted"
      BY <1>12, <2>1, <3>1, BeginType DEF TypeOK, ProcTypes, SaveAsFails, Calls, UnlockOps
    <3>2. CASE pc[p] # "granted"
      BY <1>12, <3>2, RestType DEF TypeOK, ProcTypes, SaveAsFails
    <3> QED
      BY <3>1, <3>2
  <2>4. \A q \in Procs \ {p} : pc'[q] = pc[q] /\ locked'[q] = locked[q]
    BY <1>12 DEF TypeOK, SaveAsFails, Begin, Rest, Goto, bufVars
  <2> QED
    BY <1>12, <2>1, <2>2, <2>3, <2>4, StepTypes DEF SaveAsFails
<1>13. ASSUME NEW p \in Procs, SaveAsUndone(p) PROVE TypeOK'
  BY <1>13 DEF TypeOK, SaveAsUndone, Begin, Rest, Goto, SetBuf, Returned, Idle,
            Labels, Calls, LockOps, UnlockOps, NoCall, NoMem, NoLock, Records, Kept,
            bufVars, procVars, fileVars
<1>14. ASSUME NEW p \in Procs, SaveAsWrites(p) PROVE TypeOK'
  <2> DEFINE new == pc[p] = "granted"
             b == call[p].buf
             f == call[p].file
  <2>1. p \in alive /\ b \in Bufs /\ f \in Files /\ new \in BOOLEAN /\ f # NoFile
    BY <1>14, NamesAssumption DEF TypeOK, SaveAsWrites, Returned, Calls
  <2>2. CASE b \in locked[p]
    <3>1. Begin(p, "rename", b, f, new) /\ UNCHANGED bufVars
      BY <1>14, <2>2 DEF SaveAsWrites
    <3> HIDE DEF new, b, f
    <3>2. ProcTypes'
      BY <2>1, <3>1, TypeParts, BeginType DEF UnlockOps
    <3>3. BufTypes'
      BY <3>1 DEF TypeOK, BufTypes, bufVars
    <3>4. \A q \in Procs \ {p} : pc'[q] = pc[q] /\ locked'[q] = locked[q]
      BY <3>1 DEF TypeOK, Begin, Goto, bufVars
    <3>5. UNCHANGED <<alive, fileVars>>
      BY <1>14 DEF SaveAsWrites
    <3> QED
      BY <2>1, <3>2, <3>3, <3>4, <3>5, StepTypes
  <2>3. CASE b \notin locked[p]
    <3>1. SetBuf(p, b, f, new) /\ Rest(p)
      BY <1>14, <2>3 DEF SaveAsWrites
    <3> HIDE DEF new, b, f
    <3>2. ProcTypes'
      BY <3>1, RestType DEF TypeOK, ProcTypes
    <3>3. BufTypes'
      BY <2>1, <3>1, SetBufType DEF TypeOK, BufTypes
    <3>4. \A q \in Procs \ {p} : pc'[q] = pc[q] /\ locked'[q] = locked[q]
      BY <3>1 DEF TypeOK, Rest, Goto, SetBuf
    <3>5. UNCHANGED <<alive, fileVars>>
      BY <1>14 DEF SaveAsWrites
    <3> QED
      BY <2>1, <3>2, <3>3, <3>4, <3>5, StepTypes
  <2> QED
    BY <2>2, <2>3
<1>15. ASSUME NEW p \in Procs, SaveAsRenames(p) PROVE TypeOK'
  BY <1>15, NamesAssumption DEF TypeOK, SaveAsRenames, Begin, Rest, Goto, SetBuf, Returned, Idle,
            Labels, Calls, LockOps, UnlockOps, NoCall, NoMem, NoLock, Records, Kept,
            bufVars, procVars, fileVars
<1>16. ASSUME NEW p \in Procs, Closed(p) PROVE TypeOK'
  BY <1>16 DEF TypeOK, Closed, Begin, Rest, Goto, SetBuf, Returned, Idle,
            Labels, Calls, LockOps, UnlockOps, NoCall, NoMem, NoLock, Records, Kept,
            bufVars, procVars, fileVars
<1>17. ASSUME NEW p \in Procs, NEW b \in Bufs, Save(p, b) PROVE TypeOK'
  BY <1>17 DEF TypeOK, Save, Begin, Rest, Goto, SetBuf, Returned, Idle,
            Labels, Calls, LockOps, UnlockOps, NoCall, NoMem, NoLock, Records, Kept,
            bufVars, procVars, fileVars
<1>18. ASSUME NEW p \in Procs, NEW b \in Bufs, Close(p, b) PROVE TypeOK'
  <2>1. CASE b \in locked[p]
    <3> DEFINE f == file[p][b]
    <3>a. f \in Files
      BY <1>18, <2>1 DEF TypeOK, Close
    <3>0. Begin(p, "close", b, f, FALSE)
      BY <1>18, <2>1 DEF Close
    <3> HIDE DEF f
    <3>1. ProcTypes'
      BY <3>a, <3>0, TypeParts, BeginType DEF UnlockOps
    <3> QED
      BY <1>18, <2>1, <3>1 DEF TypeOK, ProcTypes, Close, Begin, Goto, Idle, bufVars, fileVars
  <2>2. CASE b \notin locked[p]
    <3>1. SetBuf(p, b, NoFile, FALSE) /\ UNCHANGED procVars /\ UNCHANGED <<alive, fileVars>>
      BY <1>18, <2>2 DEF Close
    <3>2. BufTypes'
      BY <3>1, SetBufType DEF TypeOK, BufTypes
    <3>3. ProcTypes'
      BY <3>1 DEF TypeOK, ProcTypes, procVars
    <3>4. \A q \in Procs \ {p} : pc'[q] = pc[q] /\ locked'[q] = locked[q]
      BY <3>1 DEF TypeOK, SetBuf, procVars
    <3> QED
      BY <1>18, <3>1, <3>2, <3>3, <3>4, StepTypes DEF Close, Idle
  <2> QED
    BY <2>1, <2>2
<1>19. ASSUME NEW p \in Procs, NEW b \in Bufs, NEW f \in Files, Open(p, b, f) PROVE TypeOK'
  BY <1>19 DEF TypeOK, Open, Begin, Rest, Goto, SetBuf, Returned, Idle,
            Labels, Calls, LockOps, UnlockOps, NoCall, NoMem, NoLock, Records, Kept,
            bufVars, procVars, fileVars
<1>20. ASSUME NEW p \in Procs, NEW b \in Bufs, NEW f \in Files, OpenWithoutLock(p, b, f) PROVE TypeOK'
  BY <1>20 DEF TypeOK, OpenWithoutLock, Begin, Rest, Goto, SetBuf, Returned, Idle,
            Labels, Calls, LockOps, UnlockOps, NoCall, NoMem, NoLock, Records, Kept,
            bufVars, procVars, fileVars
<1>21. ASSUME NEW p \in Procs, NEW b \in Bufs, NEW f \in Files, SaveAs(p, b, f) PROVE TypeOK'
  BY <1>21 DEF TypeOK, SaveAs, Begin, Rest, Goto, SetBuf, Returned, Idle,
            Labels, Calls, LockOps, UnlockOps, NoCall, NoMem, NoLock, Records, Kept,
            bufVars, procVars, fileVars
<1>22. ASSUME NEW p \in Procs, Exit(p) PROVE TypeOK'
  BY <1>22 DEF TypeOK, Exit, Gone, Begin, Rest, Goto, SetBuf, Returned, Idle,
            Labels, Calls, LockOps, UnlockOps, NoCall, NoMem, NoLock, Records, Kept,
            bufVars, procVars, fileVars
<1>23. ASSUME NEW p \in Procs, Crash(p) PROVE TypeOK'
  BY <1>23 DEF TypeOK, Crash, Gone, Begin, Rest, Goto, SetBuf, Returned, Idle,
            Labels, Calls, LockOps, UnlockOps, NoCall, NoMem, NoLock, Records, Kept,
            bufVars, procVars, fileVars
<1> QED
  BY <1>0, <1>1, <1>2, <1>3, <1>4, <1>5, <1>6, <1>7, <1>8, <1>9, <1>10, <1>11, <1>12, <1>13, <1>14, <1>15, <1>16, <1>17, <1>18, <1>19, <1>20, <1>21, <1>22, <1>23 DEF Next, LockStep, Finish, Command

-----------------------------------------------------------------------------
(* The mutex *)

\* The code cannot see to it that a third try is right and alone.
Calm == ~MayStall /\ ~MayRace

LEMMA InitMutex == Init => MutexInv
  BY InitType DEF Init, MutexInv, Exclusive, InSection, StaleIsDead

\* Steps that leave the files, and the stages of lock_or_unlock, as they are.
LEMMA MutexFrame ==
  ASSUME MutexInv, TypeOK', UNCHANGED fileVars, alive' \subseteq alive,
         \A q \in Procs : InSection(q)' => InSection(q),
         \A q \in Procs : pc'[q] = "stale" => pc[q] = "stale"
  PROVE  MutexInv'
  BY DEF MutexInv, Exclusive, StaleIsDead, fileVars

LEMMA NextMutex == Calm /\ MutexInv /\ [Next]_vars => MutexInv'
<1> SUFFICES ASSUME Calm, MutexInv, [Next]_vars PROVE MutexInv'
  OBVIOUS
<1> USE DEF InSection
<1>1. TypeOK /\ TypeOK'
  BY NextType DEF MutexInv
<1>2. CASE UNCHANGED vars
  BY <1>1, <1>2, MutexFrame DEF vars, fileVars
<1>3. ASSUME NEW p \in Procs, Acquire(p) PROVE MutexInv'
  BY <1>1, <1>3 DEF MutexInv, Exclusive, StaleIsDead, TypeOK, Acquire, Goto
<1>4. ASSUME NEW p \in Procs, Poll(p) PROVE MutexInv'
  BY <1>1, <1>4 DEF MutexInv, Exclusive, StaleIsDead, TypeOK, Poll, ThirdTry, Calm, Goto, fileVars
<1>5. ASSUME NEW p \in Procs, GiveUp(p) PROVE MutexInv'
  BY <1>1, <1>5, MutexFrame DEF TypeOK, GiveUp, Goto
<1>6. ASSUME NEW p \in Procs, RemoveStale(p) PROVE MutexInv'
  BY <1>1, <1>6 DEF MutexInv, Exclusive, StaleIsDead, TypeOK, RemoveStale, Goto
<1>7. ASSUME NEW p \in Procs, Read(p) PROVE MutexInv'
  BY <1>1, <1>7, MutexFrame DEF TypeOK, Read, Goto
<1>8. ASSUME NEW p \in Procs, Write(p) PROVE MutexInv'
  BY <1>1, <1>8 DEF MutexInv, Exclusive, StaleIsDead, TypeOK, Write, Goto
<1>9. ASSUME NEW p \in Procs, Rename(p) PROVE MutexInv'
  BY <1>1, <1>9 DEF MutexInv, Exclusive, StaleIsDead, TypeOK, Rename, Goto
<1>10. ASSUME NEW p \in Procs, IOError(p) PROVE MutexInv'
  BY <1>1, <1>10, MutexFrame DEF TypeOK, IOError, Goto
<1>11. ASSUME NEW p \in Procs, CleanUp(p) PROVE MutexInv'
  BY <1>1, <1>11 DEF MutexInv, Exclusive, StaleIsDead, TypeOK, CleanUp, Goto
<1>12. ASSUME NEW p \in Procs, Finish(p) PROVE MutexInv'
  <2>1. \/ Goto(p, "open")
        \/ Goto(p, "idle")
    BY <1>12 DEF Finish, Opened, Saved, SaveAsFails, SaveAsUndone, SaveAsWrites,
                 SaveAsRenames, Closed, Begin, Rest
  <2>2. UNCHANGED <<alive, fileVars>>
    BY <1>12 DEF Finish, Opened, Saved, SaveAsFails, SaveAsUndone, SaveAsWrites,
                 SaveAsRenames, Closed
  <2> QED
    BY <1>1, <2>1, <2>2, MutexFrame DEF TypeOK, Goto
<1>13. ASSUME NEW p \in Procs, Command(p) PROVE MutexInv'
  <2>1. \/ Goto(p, "open")
        \/ pc' = pc
    BY <1>13 DEF Command, Open, OpenWithoutLock, Save, SaveAs, Close, Begin, procVars
  <2>2. UNCHANGED <<alive, fileVars>>
    BY <1>13 DEF Command, Open, OpenWithoutLock, Save, SaveAs, Close
  <2> QED
    BY <1>1, <2>1, <2>2, MutexFrame DEF TypeOK, Goto
<1>14. ASSUME NEW p \in Procs, Exit(p) \/ Crash(p) PROVE MutexInv'
  BY <1>1, <1>14, MutexFrame DEF TypeOK, Exit, Crash, Gone, Rest, Goto
<1> QED
  BY <1>2, <1>3, <1>4, <1>5, <1>6, <1>7, <1>8, <1>9, <1>10, <1>11, <1>12, <1>13, <1>14
  DEF Next, LockStep

\* Every reachable state is well-typed, whatever the processes may do to
\* each other.
THEOREM TypeCorrect == Spec => []TypeOK
<1>1. Init => TypeOK
  BY InitType
<1>2. TypeOK /\ [Next]_vars => TypeOK'
  BY NextType
<1> QED
  BY <1>1, <1>2, PTL DEF Spec

\* Without stalls and races at the third try, a process that rewrites
\* dte-locks does so in the file that it created, crashes and failing system
\* calls at any point included.
THEOREM MutexIsExclusive == ASSUME Calm PROVE Spec => []Exclusive
<1>1. Init => MutexInv
  BY InitMutex
<1>2. MutexInv /\ [Next]_vars => MutexInv'
  BY NextMutex
<1>3. MutexInv => Exclusive
  BY DEF MutexInv
<1> QED
  BY <1>1, <1>2, <1>3, PTL DEF Spec

-----------------------------------------------------------------------------
(* The registry *)

Granting(p) == call[p].op \in LockOps

\* What a process is about to put in place of dte-locks differs from it by
\* the one record it is there for, and by records of the dead.
RecordsFit(p) ==
  LET own == <<p, Target(p)>>
  IN  pc[p] \in {"write", "rename"} =>
        /\ \A r \in locks.recs : r[1] \in alive /\ r # own => r \in mem[p].recs
        /\ \A r \in mem[p].recs : r \in locks.recs \/ r = own
        /\ own \in mem[p].recs =>
             /\ Granting(p)
             /\ \A q \in alive : <<q, Target(p)>> \in locks.recs => q = p
        /\ Granting(p) /\ ~mem[p].other => own \in mem[p].recs
        /\ pc[p] = "rename" => lock.recs = mem[p].recs

OneRecord ==
  \A p, q \in alive, f \in Files :
    <<p, f>> \in locks.recs /\ <<q, f>> \in locks.recs => p = q

TargetIsFile == \A p \in Procs : pc[p] # "idle" => Target(p) \in Files

RecordInv ==
  /\ MutexInv
  /\ TargetIsFile
  /\ OneRecord
  /\ \A p \in Procs : RecordsFit(p)

\* Kill tells the truth.
Seen == Blind = {}

LEMMA InitRecord == Init => RecordInv
  BY InitMutex DEF Init, RecordInv, TargetIsFile, OneRecord, RecordsFit

LEMMA FitFrame ==
  ASSUME NEW q, RecordsFit(q), UNCHANGED <<mem[q], Target(q), call[q], locks>>,
         pc'[q] \in {"write", "rename"} => pc[q] = pc'[q],
         pc[q] = "rename" => lock'.recs = lock.recs, alive' \subseteq alive
  PROVE  RecordsFit(q)'
  BY DEF RecordsFit, Granting

\* The process p moves within lock_or_unlock.
LEMMA TargetFrame ==
  ASSUME TypeOK, TargetIsFile, NEW p \in Procs, NEW label, pc[p] # "idle", Goto(p, label),
         UNCHANGED <<bufVars, call>>
  PROVE  TargetIsFile' /\ (\A q \in Procs : Target(q)' = Target(q) /\ call'[q] = call[q])
  BY DEF TypeOK, TargetIsFile, Target, Goto, bufVars

LEMMA SectionIsAlone ==
  ASSUME MutexInv, NEW p \in Procs, NEW q \in Procs, InSection(p), InSection(q)
  PROVE  p = q
  BY DEF MutexInv, Exclusive

\* What another process does to the files does not touch who is in the section.
LEMMA FitOthers ==
  ASSUME RecordInv, NEW p \in Procs, NEW label, label \notin {"write", "rename"},
         pc[p] # "idle", Goto(p, label), UNCHANGED <<alive, bufVars, call, mem, locks>>,
         \A q \in Procs : InSection(q) /\ q # p => lock' = lock
  PROVE  \A q \in Procs : RecordsFit(q)'
<1> SUFFICES ASSUME NEW q \in Procs PROVE RecordsFit(q)'
  OBVIOUS
<1>1. Target(q)' = Target(q) /\ call'[q] = call[q]
  BY TargetFrame DEF RecordInv, MutexInv
<1>2. CASE q = p
  BY <1>2 DEF RecordInv, MutexInv, TypeOK, Goto, RecordsFit
<1>3. CASE q # p
  <2>1. pc'[q] = pc[q]
    BY <1>3 DEF RecordInv, MutexInv, TypeOK, Goto
  <2>2. pc[q] = "rename" => lock' = lock
    BY <1>3 DEF InSection
  <2>3. RecordsFit(q)
    BY DEF RecordInv
  <2> QED
    BY <1>1, <2>1, <2>2, <2>3, FitFrame
<1> QED
  BY <1>2, <1>3

LEMMA CommandFit ==
  ASSUME RecordInv, MutexInv', NEW p \in Procs, pc'[p] \notin {"write", "rename"},
         UNCHANGED fileVars, alive' \subseteq alive, pc'[p] # "idle" => Target(p)' \in Files,
         \A q \in Procs \ {p} :
           UNCHANGED <<pc[q], file[q], call[q], mem[q]>>
  PROVE  RecordInv'
<1>1. \A q \in Procs \ {p} : Target(q)' = Target(q)
  BY DEF Target
<1>2. TargetIsFile'
  BY <1>1 DEF TargetIsFile, RecordInv
<1>3. OneRecord'
  BY DEF OneRecord, RecordInv, fileVars
<1>4. ASSUME NEW q \in Procs PROVE RecordsFit(q)'
  <2>1. CASE q = p
    BY <2>1 DEF RecordsFit
  <2>2. CASE q # p
    BY <1>1, <2>2, FitFrame DEF RecordInv, fileVars
  <2> QED
    BY <2>1, <2>2
<1> QED
  BY <1>2, <1>3, <1>4 DEF RecordInv

\* What rewrite_lock_file keeps, when kill tells the truth.
LEMMA KeptRecords ==
  ASSUME Seen, TypeOK, NEW p \in Procs, NEW f
  PROVE  /\ \A r \in locks.recs : r[1] \in alive /\ r # <<p, f>> => r \in Kept(p, f)
         /\ Kept(p, f) \subseteq locks.recs \ {<<p, f>>}
         /\ ~Other(p, f) => \A q \in alive : <<q, f>> \in locks.recs => q = p
<1>1. \A r \in locks.recs : r = <<r[1], r[2]>>
  BY DEF TypeOK, Records
<1> QED
  BY <1>1 DEF Kept, Other, Exists, Seen

LEMMA ReadFits ==
  ASSUME Seen, RecordInv, NEW p \in Procs, Read(p)
  PROVE  RecordsFit(p)'
<1> DEFINE f == Target(p)
           add == IF call[p].op \in LockOps /\ ~Other(p, f) THEN {<<p, f>>} ELSE {}
<1>1. mem'[p].recs = Kept(p, f) \cup add /\ mem'[p].other = Other(p, f) /\ pc'[p] = "write"
  BY DEF RecordInv, MutexInv, TypeOK, Read, Goto
<1>2. Target(p)' = f /\ UNCHANGED <<call, alive, locks>>
  BY DEF Read, Target, bufVars, fileVars
<1>3. /\ \A r \in locks.recs : r[1] \in alive /\ r # <<p, f>> => r \in Kept(p, f)
      /\ Kept(p, f) \subseteq locks.recs \ {<<p, f>>}
      /\ ~Other(p, f) => \A q \in alive : <<q, f>> \in locks.recs => q = p
  BY KeptRecords DEF RecordInv, MutexInv
<1> HIDE DEF f
<1> QED
  BY <1>1, <1>2, <1>3 DEF RecordsFit, Granting

\* What Begin, Rest and SetBuf say about one process at a time.
Others(p) == \A q \in Procs \ {p} : UNCHANGED <<pc[q], call[q], mem[q]>>
OtherBufs(p) == \A q \in Procs \ {p} : UNCHANGED <<file[q], locked[q]>>

LEMMA BeginOne ==
  ASSUME TypeOK, NEW p \in Procs, NEW op, NEW b, NEW f, NEW new, Begin(p, op, b, f, new)
  PROVE  /\ Others(p) /\ pc'[p] = "open"
         /\ call'[p].op = op /\ call'[p].buf = b /\ call'[p].file = f /\ call'[p].new = new
  BY DEF TypeOK, Begin, Goto, Others

LEMMA RestOne ==
  ASSUME TypeOK, NEW p \in Procs, Rest(p)
  PROVE  Others(p) /\ pc'[p] = "idle" /\ call'[p] = NoCall
  BY DEF TypeOK, Rest, Goto, Others

LEMMA SetBufOne ==
  ASSUME TypeOK, NEW p \in Procs, NEW b \in Bufs, NEW f, NEW isLocked \in BOOLEAN,
         SetBuf(p, b, f, isLocked)
  PROVE  /\ OtherBufs(p)
         /\ file'[p][b] = f
         /\ \A c \in Bufs \ {b} : file'[p][c] = file[p][c]
         /\ b \in locked'[p] <=> isLocked
         /\ \A c \in Bufs \ {b} : c \in locked'[p] <=> c \in locked[p]
<1>1. CASE isLocked
  BY <1>1 DEF TypeOK, SetBuf, OtherBufs
<1>2. CASE ~isLocked
  BY <1>2 DEF TypeOK, SetBuf, OtherBufs
<1> QED
  BY <1>1, <1>2

LEMMA NextRecord == Calm /\ Seen /\ RecordInv /\ [Next]_vars => RecordInv'
<1> SUFFICES ASSUME Calm, Seen, RecordInv, [Next]_vars PROVE RecordInv'
  OBVIOUS
<1>1. MutexInv /\ MutexInv' /\ TypeOK /\ TypeOK'
  BY NextMutex DEF RecordInv, MutexInv
<1>2. CASE UNCHANGED vars
  BY <1>1, <1>2
  DEF vars, RecordInv, TargetIsFile, Target, OneRecord, RecordsFit, Granting
<1>3. ASSUME NEW p \in Procs, Acquire(p) PROVE RecordInv'
  <2>1. pc[p] # "idle" /\ Goto(p, "read") /\ UNCHANGED <<alive, bufVars, call, mem, locks>>
    BY <1>3 DEF Acquire
  <2>2. \A q \in Procs : ~InSection(q)
    BY <1>1, <1>3 DEF MutexInv, Exclusive, Acquire
  <2>3. \A q \in Procs : RecordsFit(q)'
    BY <2>1, <2>2, FitOthers
  <2> QED
    BY <1>1, <2>1, <2>3, TargetFrame DEF RecordInv, OneRecord
<1>4. ASSUME NEW p \in Procs, Poll(p) \/ GiveUp(p) \/ IOError(p) PROVE RecordInv'
  <2>1. PICK label \in {"open", "stale", "refused", "error"} : Goto(p, label)
    BY <1>4 DEF Poll, GiveUp, IOError
  <2>2. pc[p] # "idle" /\ UNCHANGED <<alive, bufVars, call, mem, lock, locks>>
    BY <1>4 DEF Poll, GiveUp, IOError, fileVars
  <2>3. \A q \in Procs : RecordsFit(q)'
    BY <2>1, <2>2, FitOthers
  <2> QED
    BY <1>1, <2>1, <2>2, <2>3, TargetFrame DEF RecordInv, OneRecord
<1>5. ASSUME NEW p \in Procs, RemoveStale(p) PROVE RecordInv'
  <2>1. pc[p] # "idle" /\ Goto(p, "open") /\ UNCHANGED <<alive, bufVars, call, mem, locks>>
    BY <1>5 DEF RemoveStale
  <2>2. \A q \in Procs : ~InSection(q)
    BY <1>1, <1>5 DEF MutexInv, Exclusive, StaleIsDead, RemoveStale, InSection, TypeOK
  <2>3. \A q \in Procs : RecordsFit(q)'
    BY <2>1, <2>2, FitOthers
  <2> QED
    BY <1>1, <2>1, <2>3, TargetFrame DEF RecordInv, OneRecord
<1>6. ASSUME NEW p \in Procs, CleanUp(p) PROVE RecordInv'
  <2>1. pc[p] # "idle" /\ Goto(p, "refused") /\ UNCHANGED <<alive, bufVars, call, mem>>
    BY <1>6 DEF CleanUp
  <2>2. locks' = locks
    BY <1>1, <1>6, NamesAssumption DEF CleanUp, MutexInv
  <2>3. \A q \in Procs : InSection(q) => q = p
    BY <1>1, <1>6, SectionIsAlone DEF CleanUp, InSection
  <2>4. \A q \in Procs : RecordsFit(q)'
    BY <2>1, <2>2, <2>3, FitOthers
  <2> QED
    BY <1>1, <2>1, <2>2, <2>4, TargetFrame DEF RecordInv, OneRecord
<1>7. ASSUME NEW p \in Procs, Read(p) PROVE RecordInv'
  <2>1. pc[p] # "idle" /\ Goto(p, "write") /\ UNCHANGED <<alive, bufVars, call, lock, locks>>
    BY <1>7 DEF Read, fileVars
  <2>2. ASSUME NEW q \in Procs, q # p PROVE RecordsFit(q)'
    <3>1. ~InSection(q)
      BY <1>1, <1>7, <2>2, SectionIsAlone DEF Read, InSection
    <3> QED
      BY <1>1, <2>1, <2>2, <3>1 DEF RecordsFit, InSection, Goto, TypeOK
  <2> QED
    BY <1>1, <1>7, <2>1, <2>2, ReadFits, TargetFrame DEF RecordInv, OneRecord
<1>8. ASSUME NEW p \in Procs, Write(p) PROVE RecordInv'
  <2>1. pc[p] # "idle" /\ Goto(p, "rename") /\ UNCHANGED <<alive, bufVars, call, mem>>
    BY <1>8 DEF Write
  <2>2. locks' = locks /\ lock'.recs = mem[p].recs
    BY <1>1, <1>8, NamesAssumption DEF Write, MutexInv, Exclusive, InSection, TypeOK
  <2>3. RecordsFit(p)'
    <3>1. Target(p)' = Target(p) /\ pc'[p] = "rename"
      BY <1>1, <2>1, TargetFrame DEF RecordInv, TypeOK, Goto
    <3> QED
      BY <1>8, <2>1, <2>2, <3>1 DEF RecordInv, RecordsFit, Granting, Write
  <2>4. ASSUME NEW q \in Procs, q # p PROVE RecordsFit(q)'
    <3>1. ~InSection(q)
      BY <1>1, <1>8, <2>4, SectionIsAlone DEF Write, InSection
    <3> QED
      BY <1>1, <2>1, <2>4, <3>1 DEF RecordsFit, InSection, Goto, TypeOK
  <2> QED
    BY <1>1, <2>1, <2>2, <2>3, <2>4, TargetFrame DEF RecordInv, OneRecord
<1>9. ASSUME NEW p \in Procs, Rename(p) PROVE RecordInv'
  <2>1. PICK label \in {"refused", "granted"} : Goto(p, label)
    BY <1>9 DEF Rename
  <2>2. pc[p] = "rename" /\ UNCHANGED <<alive, bufVars, call, mem>>
    BY <1>9 DEF Rename
  <2>3. \A q \in Procs : RecordsFit(q)'
    <3>1. ASSUME NEW q \in Procs PROVE pc'[q] \notin {"write", "rename"}
      BY <1>1, <2>1, <2>2, SectionIsAlone DEF InSection, Goto, TypeOK
    <3> QED
      BY <3>1 DEF RecordsFit
  <2>4. locks'.recs = mem[p].recs
    BY <1>9 DEF RecordInv, RecordsFit, Rename
  <2>5. OneRecord'
    <3> DEFINE own == <<p, Target(p)>>
    <3>1. /\ \A r \in mem[p].recs : r \in locks.recs \/ r = own
          /\ own \in mem[p].recs => \A q \in alive : <<q, Target(p)>> \in locks.recs => q = p
      BY <2>2 DEF RecordInv, RecordsFit
    <3>2. ASSUME NEW q \in alive, NEW r \in alive, NEW f \in Files,
                 <<q, f>> \in mem[p].recs, <<r, f>> \in mem[p].recs
          PROVE  q = r
      <4>1. CASE <<q, f>> # own /\ <<r, f>> # own
        BY <3>1, <3>2, <4>1 DEF RecordInv, OneRecord
      <4>2. CASE <<q, f>> = own \/ <<r, f>> = own
        BY <3>1, <3>2, <4>2
      <4> QED
        BY <4>1, <4>2
    <3> QED
      BY <2>2, <2>4, <3>2 DEF OneRecord
  <2> QED
    BY <1>1, <2>1, <2>2, <2>3, <2>5, TargetFrame DEF RecordInv
<1>10. ASSUME NEW p \in Procs, Finish(p) PROVE RecordInv'
  <2>1. pc[p] # "idle" /\ call[p] \in Calls /\ UNCHANGED <<alive, fileVars>>
    BY <1>1, <1>10
    DEF TypeOK, Finish, Opened, Saved, SaveAsFails, SaveAsUndone, SaveAsWrites,
        SaveAsRenames, Closed, Returned
  <2>2. OtherBufs(p)
    <3>1. CASE UNCHANGED bufVars
      BY <3>1 DEF OtherBufs, bufVars
    <3>2. CASE \E f \in Files \cup {NoFile}, isLocked \in BOOLEAN :
                 SetBuf(p, call[p].buf, f, isLocked)
      BY <1>1, <2>1, <3>2, SetBufOne DEF Calls
    <3>3. (pc[p] = "granted") \in BOOLEAN
      OBVIOUS
    <3> QED
      BY <1>10, <2>1, <3>1, <3>2, <3>3
      DEF Finish, Opened, Saved, SaveAsFails, SaveAsUndone, SaveAsWrites, SaveAsRenames,
          Closed, Calls
  <2>3. CASE Rest(p)
    BY <1>1, <2>1, <2>2, <2>3, RestOne, CommandFit DEF Others, OtherBufs
  <2>4. CASE ~Rest(p)
    <3> DEFINE b == call[p].buf
               f == call[p].file
    <3> DEFINE new == pc[p] = "granted"
               no == FALSE
    <3>1. /\ \/ Begin(p, "undo", b, f, no)
             \/ b \in locked[p] /\ Begin(p, "rename", b, f, new)
          /\ UNCHANGED bufVars
      BY <1>10, <2>4
      DEF Finish, Opened, Saved, SaveAsFails, SaveAsUndone, SaveAsWrites, SaveAsRenames, Closed
    <3> HIDE DEF new, no
    <3>2. /\ pc'[p] = "open" /\ Others(p) /\ call'[p].buf = b /\ call'[p].file = f
          /\ call'[p].op = "rename" => b \in locked[p]
      <4>1. CASE Begin(p, "undo", b, f, no)
        BY <1>1, <4>1, BeginOne
      <4>2. CASE b \in locked[p] /\ Begin(p, "rename", b, f, new)
        BY <1>1, <4>2, BeginOne
      <4> QED
        BY <3>1, <4>1, <4>2
    <3>3. Target(p)' \in Files
      BY <1>1, <2>1, <3>1, <3>2 DEF Target, Calls, TypeOK, bufVars
    <3> QED
      BY <1>1, <2>1, <2>2, <3>2, <3>3, CommandFit DEF Others, OtherBufs
  <2> QED
    BY <2>3, <2>4
<1>11. ASSUME NEW p \in Procs, Command(p) PROVE RecordInv'
  <2>1. pc[p] = "idle" /\ UNCHANGED <<alive, fileVars>>
    BY <1>11 DEF Command, Open, OpenWithoutLock, Save, SaveAs, Close, Idle
  <2>2. CASE UNCHANGED procVars
    <3>1. PICK b \in Bufs, f \in Files \cup {NoFile} :
            SetBuf(p, b, f, FALSE) \/ UNCHANGED bufVars
      BY <1>11 DEF Command, Open, OpenWithoutLock, Save, SaveAs, Close
    <3>2. OtherBufs(p)
      BY <1>1, <3>1, SetBufOne DEF OtherBufs, bufVars
    <3> QED
      BY <1>1, <2>1, <2>2, <3>2, CommandFit DEF OtherBufs, procVars
  <2>3. CASE ~UNCHANGED procVars
    <3>1. PICK op \in {"open", "save", "saveas", "close"}, b \in Bufs, f \in Files :
            Begin(p, op, b, f, FALSE) /\ UNCHANGED bufVars
      <4>1. \A b \in Bufs : file[p][b] # NoFile => file[p][b] \in Files
        BY <1>1 DEF TypeOK
      <4> QED
        BY <1>11, <2>3, <4>1 DEF Command, Open, OpenWithoutLock, Save, SaveAs, Close
    <3>2. pc'[p] = "open" /\ Others(p) /\ call'[p].op = op /\ call'[p].file = f
      BY <1>1, <3>1, BeginOne
    <3> QED
      BY <1>1, <2>1, <3>1, <3>2, CommandFit DEF Others, Target, bufVars
  <2> QED
    BY <2>2, <2>3
<1>12. ASSUME NEW p \in Procs, Exit(p) \/ Crash(p) PROVE RecordInv'
  <2>1. pc'[p] = "idle" /\ UNCHANGED fileVars /\ alive' \subseteq alive
    BY <1>1, <1>12 DEF TypeOK, Exit, Crash, Gone, Rest, Goto
  <2>2. \A q \in Procs \ {p} : UNCHANGED <<pc[q], file[q], call[q], mem[q]>>
    BY <1>1, <1>12 DEF TypeOK, Exit, Crash, Gone, Rest, Goto
  <2> QED
    BY <1>1, <2>1, <2>2, CommandFit
<1> QED
  BY <1>2, <1>3, <1>4, <1>5, <1>6, <1>7, <1>8, <1>9, <1>10, <1>11, <1>12 DEF Next, LockStep

\* The records of the processes that run.
Held == {r \in locks.recs : r[1] \in alive}

LEMMA RenameIsAtomic ==
  ASSUME Calm, Seen, RecordInv, NEW p \in Procs, Rename(p)
  PROVE  \E f \in Files : Registry!Grant(p, f) \/ Registry!Release(p, f)
<1> DEFINE f == Target(p)
<1>1. /\ pc[p] = "rename" /\ alive' = alive /\ p \in alive /\ f \in Files
      /\ locks'.recs = mem[p].recs
  BY DEF Rename, RecordInv, RecordsFit, TargetIsFile, MutexInv, TypeOK
<1>2. /\ \A r \in locks.recs : r[1] \in alive /\ r # <<p, f>> => r \in mem[p].recs
      /\ \A r \in mem[p].recs : r \in locks.recs \/ r = <<p, f>>
      /\ <<p, f>> \in mem[p].recs => \A q \in alive : <<q, f>> \in locks.recs => q = p
  BY <1>1 DEF RecordInv, RecordsFit
<1> HIDE DEF f
<1>3. CASE <<p, f>> \in mem[p].recs
  <2>1. Held' = Held \cup {<<p, f>>}
    BY <1>1, <1>2, <1>3 DEF Held
  <2>2. Registry!Holders(f) \subseteq {p}
    BY <1>1, <1>2, <1>3 DEF Registry!Holders
  <2> QED
    BY <1>1, <2>1, <2>2 DEF Registry!Grant, Held
<1>4. CASE <<p, f>> \notin mem[p].recs
  <2>1. Held' = Held \ {<<p, f>>}
    BY <1>1, <1>2, <1>4 DEF Held
  <2> QED
    BY <1>1, <2>1 DEF Registry!Release, Held
<1> QED
  BY <1>3, <1>4

\* Without stalls and races at the third try, and if kill does not lie, the
\* steps of any number of processes on two files and a rename amount to an
\* atomic registry in which a file has one holder.
THEOREM LocksAreARegistry == ASSUME Calm, Seen PROVE Spec => ImplementsRegistry
<1>1. Init => RecordInv
  BY InitRecord
<1>2. RecordInv /\ [Next]_vars => RecordInv'
  BY NextRecord
<1>3. Init => Registry!Init
  BY DEF Init, Registry!Init
<1>4. RecordInv /\ [Next]_vars => [Registry!Next]_<<alive, Held>>
  <2> SUFFICES ASSUME RecordInv, [Next]_vars, ~UNCHANGED <<alive, Held>>
               PROVE  Registry!Next
    OBVIOUS
  <2>1. ASSUME NEW p \in Procs, Rename(p) PROVE Registry!Next
    BY <2>1, RenameIsAtomic DEF Registry!Next
  <2>2. ASSUME NEW p \in Procs, Exit(p) \/ Crash(p) PROVE Registry!Next
    <3>1. p \in alive /\ alive' = alive \ {p} /\ locks' = locks
      BY <2>2 DEF Exit, Crash, Gone, Idle, fileVars
    <3> QED
      BY <3>1 DEF Registry!Next, Registry!Die
  <2>3. UNCHANGED vars => UNCHANGED <<alive, Held>>
    BY DEF vars, Held
  <2>4. ASSUME NEW p \in Procs, LockStep(p), ~Rename(p) PROVE UNCHANGED <<alive, Held>>
    BY <2>4, NamesAssumption
    DEF LockStep, Acquire, Poll, GiveUp, RemoveStale, Read, Write, IOError, CleanUp, fileVars,
        RecordInv, MutexInv, Held
  <2>5. ASSUME NEW p \in Procs, Finish(p) PROVE UNCHANGED <<alive, Held>>
    BY <2>5
    DEF Finish, Opened, Saved, SaveAsFails, SaveAsUndone, SaveAsWrites, SaveAsRenames, Closed,
        fileVars, Held
  <2>6. ASSUME NEW p \in Procs, Command(p) PROVE UNCHANGED <<alive, Held>>
    BY <2>6 DEF Command, Open, OpenWithoutLock, Save, SaveAs, Close, fileVars, Held
  <2> QED
    BY <2>1, <2>2, <2>3, <2>4, <2>5, <2>6 DEF Next
<1> QED
  BY <1>1, <1>2, <1>3, <1>4, PTL DEF Spec, ImplementsRegistry, Registry!Spec, Held

-----------------------------------------------------------------------------
(* What Buffers believe *)

OneBuffer(p) ==
  \A b, c \in Bufs : file[p][b] # NoFile /\ file[p][b] = file[p][c] => b = c

\* What is known of the Buffer and the file that a command is about.
CallFits(p) ==
  LET op == call[p].op
      b == call[p].buf
      f == call[p].file
  IN  pc[p] # "idle" =>
        /\ op \in {"open", "saveas", "undo", "rename"} => ~IsOpen(p, f)
        /\ op \in {"save", "close"} => file[p][b] = f
        /\ op \in {"open", "save"} => b \notin locked[p]
        /\ op = "rename" => b \in locked[p]
        /\ op = "rename" /\ call[p].new => <<p, f>> \in locks.recs
        /\ pc[p] = "granted" /\ Granting(p) => <<p, f>> \in locks.recs

HoldsRecorded(p) == \A f \in Files : Holds(p, f) => <<p, f>> \in locks.recs

BufFits(p) == OneBuffer(p) /\ CallFits(p) /\ HoldsRecorded(p)

BufferInv == RecordInv /\ \A p \in Procs : BufFits(p)

LEMMA InitBuffer == Init => BufferInv
  BY InitRecord
  DEF Init, BufferInv, BufFits, OneBuffer, CallFits, HoldsRecorded, Holds

LEMMA BufFrame ==
  ASSUME TypeOK, NEW q \in Procs, BufFits(q), UNCHANGED <<file[q], locked[q], call[q]>>,
         \/ pc'[q] = pc[q]
         \/ pc[q] # "idle" /\ pc'[q] # "granted",
         \A r \in locks.recs : r[1] = q => r \in locks'.recs
  PROVE  BufFits(q)'
<1>1. OneBuffer(q)'
  BY DEF BufFits, OneBuffer
<1>2. CallFits(q)'
  BY DEF BufFits, CallFits, IsOpen, Granting
<1>3. HoldsRecorded(q)'
  BY DEF BufFits, HoldsRecorded, Holds, Releasing
<1> QED
  BY <1>1, <1>2, <1>3 DEF BufFits

\* p moves within lock_or_unlock.
LEMMA BufLockStep ==
  ASSUME BufferInv, NEW p \in Procs, NEW label \in Labels \ {"granted"}, pc[p] # "idle",
         Goto(p, label), UNCHANGED <<bufVars, call>>, locks'.recs = locks.recs
  PROVE  \A q \in Procs : BufFits(q)'
<1> SUFFICES ASSUME NEW q \in Procs PROVE BufFits(q)'
  OBVIOUS
<1>1. TypeOK /\ BufFits(q)
  BY DEF BufferInv, RecordInv, MutexInv
<1>2. pc'[q] = pc[q] \/ (pc[q] # "idle" /\ pc'[q] # "granted")
  BY <1>1 DEF TypeOK, Goto
<1> QED
  BY <1>1, <1>2, BufFrame DEF bufVars

\* The record that p is about to replace is none that a Buffer relies on.
LEMMA TargetIsNotHeld ==
  ASSUME BufferInv, NEW p \in Procs, pc[p] # "idle"
  PROVE  ~Holds(p, Target(p))
<1>1. call[p] \in Calls /\ file[p][call[p].buf] \in Files \cup {NoFile}
  BY DEF BufferInv, RecordInv, MutexInv, TypeOK, Calls
<1>2. BufFits(p) /\ Target(p) \in Files
  BY DEF BufferInv, RecordInv, TargetIsFile
<1> SUFFICES ASSUME NEW c \in locked[p], file[p][c] = Target(p), ~Releasing(p, c) PROVE FALSE
  BY DEF Holds
<1>3. c \in Bufs /\ call[p].buf \in Bufs
  BY <1>1 DEF BufferInv, RecordInv, MutexInv, TypeOK, Calls
<1>4. CASE call[p].op \in {"open", "saveas", "undo"}
  BY <1>2, <1>3, <1>4 DEF BufFits, CallFits, Target, IsOpen
<1>5. CASE call[p].op \in {"save", "close", "rename"}
  <2>1. file[p][call[p].buf] = Target(p)
    BY <1>2, <1>5 DEF BufFits, CallFits, Target
  <2>2. c = call[p].buf
    BY <1>2, <1>3, <2>1, NamesAssumption DEF BufFits, OneBuffer
  <2> QED
    BY <1>2, <1>5, <2>2 DEF BufFits, CallFits, Releasing
<1> QED
  BY <1>1, <1>4, <1>5 DEF Calls, LockOps, UnlockOps

LEMMA BufRename ==
  ASSUME BufferInv, NEW p \in Procs, Rename(p)
  PROVE  \A q \in Procs : BufFits(q)'
<1>1. /\ pc[p] = "rename" /\ UNCHANGED <<alive, bufVars, call>>
      /\ pc' = [pc EXCEPT ![p] = IF mem[p].other THEN "refused" ELSE "granted"]
      /\ locks'.recs = mem[p].recs /\ p \in alive /\ TypeOK /\ BufFits(p)
      /\ call[p] \in Calls
  BY DEF Rename, Goto, BufferInv, RecordInv, RecordsFit, MutexInv, TypeOK
<1>2. /\ \A r \in locks.recs : r[1] \in alive /\ r # <<p, Target(p)>> => r \in mem[p].recs
      /\ Granting(p) /\ ~mem[p].other => <<p, Target(p)>> \in mem[p].recs
  BY <1>1 DEF BufferInv, RecordInv, RecordsFit
<1>3. ASSUME NEW q \in Procs, q # p PROVE BufFits(q)'
  <2>1. pc'[q] = pc[q] /\ UNCHANGED <<file[q], locked[q], call[q]>> /\ BufFits(q)
    BY <1>1, <1>3 DEF TypeOK, bufVars, BufferInv
  <2>2. CASE q \in alive
    <3>1. \A r \in locks.recs : r[1] = q => r \in locks'.recs
      BY <1>1, <1>2, <1>3, <2>2
    <3> QED
      BY <1>1, <2>1, <3>1, BufFrame
  <2>3. CASE q \notin alive
    <3>1. pc[q] = "idle" /\ locked[q] = {}
      BY <1>1, <2>3 DEF TypeOK
    <3> QED
      BY <2>1, <3>1 DEF BufFits, OneBuffer, CallFits, HoldsRecorded, Holds
  <2> QED
    BY <2>2, <2>3
<1>4. OneBuffer(p)'
  BY <1>1 DEF BufFits, OneBuffer, bufVars
<1>5. HoldsRecorded(p)'
  <2> SUFFICES ASSUME NEW f \in Files, Holds(p, f) PROVE <<p, f>> \in mem[p].recs
    BY <1>1 DEF HoldsRecorded, Holds, Releasing, bufVars
  <2>1. f # Target(p)
    BY <1>1, TargetIsNotHeld
  <2> QED
    BY <1>1, <1>2, <2>1 DEF BufFits, HoldsRecorded
<1>6. CallFits(p)'
  <2> DEFINE f == call[p].file
  <2>1. Granting(p) => Target(p) = f
    BY DEF Granting, LockOps, Target
  <2>2. call[p].op = "rename" => f # Target(p)
    BY <1>1 DEF BufFits, CallFits, Target, IsOpen, Calls
  <2>3. pc'[p] = "granted" /\ Granting(p) => <<p, f>> \in locks'.recs
    BY <1>1, <1>2, <2>1 DEF TypeOK
  <2>4. call[p].op = "rename" /\ call[p].new => <<p, f>> \in locks'.recs
    BY <1>1, <1>2, <2>2 DEF BufFits, CallFits
  <2> QED
    BY <1>1, <2>3, <2>4 DEF BufFits, CallFits, IsOpen, Granting, bufVars
<1> QED
  BY <1>3, <1>4, <1>5, <1>6 DEF BufFits

LEMMA OthersFit ==
  ASSUME BufferInv, NEW p \in Procs, Others(p), OtherBufs(p), UNCHANGED locks, BufFits(p)'
  PROVE  \A q \in Procs : BufFits(q)'
<1> SUFFICES ASSUME NEW q \in Procs, q # p PROVE BufFits(q)'
  OBVIOUS
<1>1. TypeOK /\ BufFits(q)
  BY DEF BufferInv, RecordInv, MutexInv
<1> QED
  BY <1>1, BufFrame DEF Others, OtherBufs

\* A command comes to its end and leaves file f in Buffer b.
LEMMA EndFits ==
  ASSUME BufferInv, NEW p \in Procs, NEW b \in Bufs, NEW f \in Files \cup {NoFile},
         NEW isLocked \in BOOLEAN, SetBuf(p, b, f, isLocked),
         call'[p] = NoCall, pc'[p] = "idle", UNCHANGED locks,
         isLocked => <<p, f>> \in locks.recs,
         \A c \in Bufs \ {b} : file[p][c] # f \/ f = NoFile,
         \A c \in locked[p] \ {b} : ~Releasing(p, c)
  PROVE  BufFits(p)'
<1>1. /\ TypeOK /\ BufFits(p)
      /\ file'[p][b] = f
      /\ \A c \in Bufs \ {b} : file'[p][c] = file[p][c]
      /\ b \in locked'[p] <=> isLocked
      /\ \A c \in Bufs \ {b} : c \in locked'[p] <=> c \in locked[p]
  BY SetBufOne DEF BufferInv, RecordInv, MutexInv
<1>2. locked'[p] \subseteq Bufs
  BY <1>1 DEF SetBuf, TypeOK
<1>3. OneBuffer(p)'
  BY <1>1 DEF BufFits, OneBuffer
<1>4. CallFits(p)'
  BY DEF CallFits
<1>5. HoldsRecorded(p)'
  <2> SUFFICES ASSUME NEW g \in Files, NEW c \in locked'[p], file'[p][c] = g
               PROVE  <<p, g>> \in locks.recs
    BY DEF HoldsRecorded, Holds
  <2>1. CASE c = b
    BY <1>1, <2>1
  <2>2. CASE c # b
    BY <1>1, <1>2, <2>2 DEF BufFits, HoldsRecorded, Holds
  <2> QED
    BY <2>1, <2>2
<1> QED
  BY <1>3, <1>4, <1>5 DEF BufFits

\* A command ends and changes no Buffer, or begins.
LEMMA SameBufsFit ==
  ASSUME BufferInv, NEW p \in Procs, UNCHANGED <<file[p], locked[p], locks>>,
         \A c \in locked[p] : ~Releasing(p, c), CallFits(p)'
  PROVE  BufFits(p)'
  BY DEF BufferInv, BufFits, OneBuffer, HoldsRecorded, Holds

LEMMA BufFinish ==
  ASSUME BufferInv, NEW p \in Procs, Finish(p)
  PROVE  \A q \in Procs : BufFits(q)'
<1> DEFINE b == call[p].buf
           f == call[p].file
           new == pc[p] = "granted"
           no == FALSE
<1>1. /\ TypeOK /\ BufFits(p)
      /\ pc[p] \in {"granted", "refused"} /\ call[p] \in Calls
      /\ UNCHANGED <<alive, fileVars>> /\ locks' = locks
  BY DEF BufferInv, RecordInv, MutexInv, TypeOK, Finish, Opened, Saved, SaveAsFails,
         SaveAsUndone, SaveAsWrites, SaveAsRenames, Closed, Returned, fileVars
<1>2. /\ b \in Bufs /\ f \in Files /\ new \in BOOLEAN /\ no \in BOOLEAN
      /\ call[p].new \in BOOLEAN /\ f # NoFile
  BY <1>1, NamesAssumption DEF Calls
<1>3. /\ call[p].op \in {"open", "saveas", "undo", "rename"} => \A c \in Bufs : file[p][c] # f
      /\ call[p].op \in {"save", "close"} => file[p][b] = f
      /\ call[p].op = "rename" /\ call[p].new => <<p, f>> \in locks.recs
      /\ new /\ call[p].op \in LockOps => <<p, f>> \in locks.recs
  BY <1>1 DEF BufFits, CallFits, IsOpen, Granting
<1>4. \A c \in Bufs \ {b} : ~Releasing(p, c)
  BY DEF Releasing
<1>5. locked[p] \subseteq Bufs
  BY <1>1 DEF TypeOK
<1>6. \A c \in Bufs \ {b} : call[p].op = "save" => file[p][c] # f
  BY <1>1, <1>2, <1>3 DEF BufFits, OneBuffer
<1>7. CASE Opened(p) \/ Saved(p) \/ (SaveAsWrites(p) /\ b \notin locked[p])
  <2>1. SetBuf(p, b, f, new) /\ Rest(p) /\ call[p].op \in LockOps
    BY <1>7 DEF Opened, Saved, SaveAsWrites, Returned, LockOps
  <2> HIDE DEF b, f, new
  <2>2. Others(p) /\ pc'[p] = "idle" /\ call'[p] = NoCall
    BY <1>1, <2>1, RestOne
  <2>3. OtherBufs(p)
    BY <1>1, <1>2, <2>1, SetBufOne
  <2>4. \A c \in Bufs \ {b} : file[p][c] # f
    BY <1>3, <1>6, <2>1 DEF LockOps
  <2>5. BufFits(p)'
    BY <1>1, <1>2, <1>3, <1>4, <1>5, <2>1, <2>2, <2>4, EndFits
  <2> QED
    BY <1>1, <2>2, <2>3, <2>5, OthersFit
<1>8. CASE SaveAsRenames(p)
  <2> DEFINE was == call[p].new
  <2>1. SetBuf(p, b, f, was) /\ Rest(p) /\ call[p].op = "rename"
    BY <1>8 DEF SaveAsRenames, Returned
  <2>2. was \in BOOLEAN /\ (was => <<p, f>> \in locks.recs)
    BY <1>2, <1>3, <2>1
  <2> HIDE DEF b, f, was
  <2>3. Others(p) /\ pc'[p] = "idle" /\ call'[p] = NoCall
    BY <1>1, <2>1, RestOne
  <2>4. OtherBufs(p)
    BY <1>1, <1>2, <2>1, <2>2, SetBufOne
  <2>5. BufFits(p)'
    BY <1>1, <1>2, <1>3, <1>4, <1>5, <2>1, <2>2, <2>3, EndFits
  <2> QED
    BY <1>1, <2>3, <2>4, <2>5, OthersFit
<1>9. CASE Closed(p)
  <2>1. SetBuf(p, b, NoFile, no) /\ Rest(p) /\ ~no
    BY <1>9 DEF Closed
  <2> HIDE DEF b, no
  <2>2. Others(p) /\ pc'[p] = "idle" /\ call'[p] = NoCall
    BY <1>1, <2>1, RestOne
  <2>3. OtherBufs(p)
    BY <1>1, <1>2, <2>1, SetBufOne
  <2>4. BufFits(p)'
    BY <1>1, <1>2, <1>4, <1>5, <2>1, <2>2, EndFits
  <2> QED
    BY <1>1, <2>2, <2>3, <2>4, OthersFit
<1>10. CASE SaveAsUndone(p) \/ (SaveAsFails(p) /\ pc[p] # "granted")
  <2>1. UNCHANGED bufVars /\ Rest(p) /\ call[p].op \in {"undo", "saveas"}
    BY <1>10 DEF SaveAsUndone, SaveAsFails, Returned
  <2>2. Others(p) /\ pc'[p] = "idle"
    BY <1>1, <2>1, RestOne
  <2>3. CallFits(p)'
    BY <2>2 DEF CallFits
  <2>4. BufFits(p)'
    BY <1>1, <2>1, <2>3, SameBufsFit DEF bufVars, Releasing
  <2> QED
    BY <1>1, <2>1, <2>2, <2>4, OthersFit DEF OtherBufs, bufVars
<1>11. CASE SaveAsFails(p) /\ pc[p] = "granted"
  <2>1. Begin(p, "undo", b, f, no) /\ UNCHANGED bufVars /\ call[p].op = "saveas"
    BY <1>11 DEF SaveAsFails, Returned
  <2> HIDE DEF b, f, no
  <2>2. Others(p) /\ pc'[p] = "open" /\ call'[p].op = "undo" /\ call'[p].file = f
    BY <1>1, <2>1, BeginOne
  <2>3. CallFits(p)'
    BY <1>3, <2>1, <2>2 DEF CallFits, IsOpen, bufVars
  <2>4. BufFits(p)'
    BY <1>1, <2>1, <2>3, SameBufsFit DEF bufVars, Releasing
  <2> QED
    BY <1>1, <2>1, <2>2, <2>4, OthersFit DEF OtherBufs, bufVars
<1>12. CASE SaveAsWrites(p) /\ b \in locked[p]
  <2>1. Begin(p, "rename", b, f, new) /\ UNCHANGED bufVars /\ call[p].op = "saveas"
    BY <1>12 DEF SaveAsWrites, Returned
  <2>2. new => <<p, f>> \in locks.recs
    BY <1>3, <2>1 DEF LockOps
  <2> HIDE DEF b, f, new
  <2>3. /\ Others(p) /\ pc'[p] = "open" /\ call'[p].op = "rename" /\ call'[p].file = f
        /\ call'[p].buf = b /\ call'[p].new = new
    BY <1>1, <2>1, BeginOne
  <2>4. CallFits(p)'
    BY <1>1, <1>3, <1>12, <2>1, <2>2, <2>3 DEF CallFits, IsOpen, bufVars
  <2>5. BufFits(p)'
    BY <1>1, <2>1, <2>4, SameBufsFit DEF bufVars, Releasing
  <2> QED
    BY <1>1, <2>1, <2>3, <2>5, OthersFit DEF OtherBufs, bufVars
<1> QED
  BY <1>7, <1>8, <1>9, <1>10, <1>11, <1>12 DEF Finish

LEMMA BufCommand ==
  ASSUME ~Twice, BufferInv, NEW p \in Procs, Command(p)
  PROVE  \A q \in Procs : BufFits(q)'
<1> DEFINE no == FALSE
<1>1. /\ TypeOK /\ BufFits(p) /\ pc[p] = "idle" /\ call[p] = NoCall /\ no \in BOOLEAN
      /\ UNCHANGED <<alive, fileVars>> /\ locks' = locks
  BY DEF BufferInv, RecordInv, MutexInv, TypeOK, Command, Open, OpenWithoutLock, Save, SaveAs,
         Close, Idle, fileVars
<1>2. \A c \in Bufs : ~Releasing(p, c)
  BY <1>1 DEF Releasing, NoCall
<1>3. locked[p] \subseteq Bufs
  BY <1>1 DEF TypeOK
<1>4. ASSUME NEW op \in {"open", "saveas", "save", "close"}, NEW b \in Bufs, NEW f \in Files,
             Begin(p, op, b, f, no), UNCHANGED bufVars,
             op \in {"open", "saveas"} => ~IsOpen(p, f),
             op \in {"save", "close"} => file[p][b] = f,
             op \in {"open", "save"} => b \notin locked[p]
      PROVE  \A q \in Procs : BufFits(q)'
  <2> HIDE DEF no
  <2>1. /\ Others(p) /\ pc'[p] = "open" /\ call'[p].op = op /\ call'[p].file = f
        /\ call'[p].buf = b
    BY <1>1, <1>4, BeginOne
  <2>2. CallFits(p)'
    BY <1>4, <2>1 DEF CallFits, IsOpen, bufVars
  <2>3. BufFits(p)'
    BY <1>1, <1>2, <1>3, <1>4, <2>2, SameBufsFit DEF bufVars
  <2> QED
    BY <1>1, <1>4, <2>1, <2>3, OthersFit DEF OtherBufs, bufVars
<1>5. ASSUME NEW b \in Bufs, NEW f \in Files \cup {NoFile}, SetBuf(p, b, f, no),
             UNCHANGED procVars, \A c \in Bufs \ {b} : file[p][c] # f \/ f = NoFile
      PROVE  \A q \in Procs : BufFits(q)'
  <2>1. ~no
    OBVIOUS
  <2> HIDE DEF no
  <2>2. OtherBufs(p)
    BY <1>1, <1>5, SetBufOne
  <2>3. BufFits(p)'
    BY <1>1, <1>2, <1>3, <1>5, <2>1, EndFits DEF procVars
  <2> QED
    BY <1>1, <1>5, <2>2, <2>3, OthersFit DEF Others, procVars
<1>6. \A b \in Bufs : file[p][b] = NoFile => b \notin locked[p]
  BY <1>1 DEF TypeOK
<1>7. \A b \in Bufs : file[p][b] # NoFile => file[p][b] \in Files
  BY <1>1 DEF TypeOK
<1>8. ASSUME NEW b \in Bufs, NEW f \in Files, Open(p, b, f)
      PROVE  \A q \in Procs : BufFits(q)'
  BY <1>4, <1>6, <1>8 DEF Open
<1>9. ASSUME NEW b \in Bufs, NEW f \in Files, OpenWithoutLock(p, b, f)
      PROVE  \A q \in Procs : BufFits(q)'
  BY <1>5, <1>9 DEF OpenWithoutLock, IsOpen
<1>10. ASSUME NEW b \in Bufs, NEW f \in Files, SaveAs(p, b, f)
       PROVE  \A q \in Procs : BufFits(q)'
  BY <1>4, <1>10 DEF SaveAs
<1>11. ASSUME NEW b \in Bufs, Save(p, b)
       PROVE  \A q \in Procs : BufFits(q)'
  BY <1>4, <1>7, <1>11 DEF Save
<1>12. ASSUME NEW b \in Bufs, Close(p, b), b \in locked[p]
       PROVE  \A q \in Procs : BufFits(q)'
  BY <1>4, <1>7, <1>12 DEF Close
<1>13. ASSUME NEW b \in Bufs, Close(p, b), b \notin locked[p]
       PROVE  \A q \in Procs : BufFits(q)'
  BY <1>5, <1>13 DEF Close
<1> QED
  BY <1>8, <1>9, <1>10, <1>11, <1>12, <1>13 DEF Command

LEMMA NextBuffer == Calm /\ Seen /\ ~Twice /\ BufferInv /\ [Next]_vars => BufferInv'
<1> SUFFICES ASSUME Calm, Seen, ~Twice, BufferInv, [Next]_vars PROVE \A q \in Procs : BufFits(q)'
  BY NextRecord DEF BufferInv
<1>1. TypeOK /\ MutexInv
  BY DEF BufferInv, RecordInv, MutexInv
<1>2. CASE UNCHANGED vars
  <2>1. ASSUME NEW q \in Procs PROVE BufFits(q)'
    BY <1>1, <1>2, BufFrame DEF vars, BufferInv
  <2> QED
    BY <2>1
<1>3. ASSUME NEW p \in Procs, LockStep(p), ~Rename(p) PROVE \A q \in Procs : BufFits(q)'
  <2>1. PICK label \in Labels \ {"granted"} : Goto(p, label)
    BY <1>3 DEF LockStep, Acquire, Poll, GiveUp, RemoveStale, Read, Write, IOError, CleanUp,
                Labels
  <2>2. pc[p] # "idle" /\ UNCHANGED <<bufVars, call>>
    BY <1>3 DEF LockStep, Acquire, Poll, GiveUp, RemoveStale, Read, Write, IOError, CleanUp
  <2>3. locks'.recs = locks.recs
    BY <1>1, <1>3, NamesAssumption
    DEF LockStep, Acquire, Poll, GiveUp, RemoveStale, Read, Write, IOError, CleanUp, fileVars,
        MutexInv
  <2> QED
    BY <2>1, <2>2, <2>3, BufLockStep
<1>4. ASSUME NEW p \in Procs, Exit(p) \/ Crash(p) PROVE \A q \in Procs : BufFits(q)'
  <2>1. Rest(p) /\ locks' = locks
    BY <1>4 DEF Exit, Crash, Gone, fileVars
  <2>2. Others(p) /\ pc'[p] = "idle"
    BY <1>1, <2>1, RestOne
  <2>3. /\ OtherBufs(p) /\ locked'[p] = {} 
        /\ \A b \in Bufs : file'[p][b] = NoFile
    BY <1>1, <1>4 DEF TypeOK, Exit, Crash, Gone, OtherBufs
  <2>4. BufFits(p)'
    BY <2>2, <2>3 DEF BufFits, OneBuffer, CallFits, HoldsRecorded, Holds
  <2> QED
    BY <2>1, <2>2, <2>3, <2>4, OthersFit
<1> QED
  BY <1>2, <1>3, <1>4, BufRename, BufFinish, BufCommand DEF Next

\* If, besides, no file gets into two Buffers of one process, every Buffer that
\* believes to have the lock of its file is on record for the others to see.
THEOREM LocksAreRecorded == ASSUME Calm, Seen, ~Twice PROVE Spec => []HeldIsRecorded
<1>1. Init => BufferInv
  BY InitBuffer
<1>2. BufferInv /\ [Next]_vars => BufferInv'
  BY NextBuffer
<1>3. BufferInv => HeldIsRecorded
  BY DEF BufferInv, BufFits, HoldsRecorded, HeldIsRecorded
<1> QED
  BY <1>1, <1>2, <1>3, PTL DEF Spec

\* Under the same assumptions a file is locked by one process at a time.
THEOREM OneProcessPerFile == ASSUME Calm, Seen, ~Twice PROVE Spec => []OneHolder
<1>1. Init => BufferInv
  BY InitBuffer
<1>2. BufferInv /\ [Next]_vars => BufferInv'
  BY NextBuffer
<1>3. BufferInv => OneHolder
  <2> SUFFICES ASSUME BufferInv, NEW p \in Procs, NEW q \in Procs, NEW f \in Files,
                      Holds(p, f), Holds(q, f)
               PROVE  p = q
    BY DEF OneHolder
  <2>1. p \in alive /\ q \in alive
    BY DEF Holds, BufferInv, RecordInv, MutexInv, TypeOK
  <2>2. <<p, f>> \in locks.recs /\ <<q, f>> \in locks.recs
    BY DEF BufferInv, BufFits, HoldsRecorded
  <2> QED
    BY <2>1, <2>2 DEF BufferInv, RecordInv, OneRecord
<1> QED
  BY <1>1, <1>2, <1>3, PTL DEF Spec

-----------------------------------------------------------------------------
(* What is left behind *)

Moving == {"open", "stale", "read", "write", "rename"}
Done(p) == pc[p] \in {"granted", "refused"}
IsLocked(p, f) == \E b \in locked[p] : file[p][b] = f

\* Why p has a record of f: a Buffer is locked, and that lock is not given up
\* yet; or a command is about to make a Buffer of it, or to remove the record.
Accounted(p, f) ==
  \/ IsLocked(p, f) /\ ~(Done(p) /\ ~Granting(p) /\ f = Target(p))
  \/ call[p].op = "undo" /\ ~Done(p) /\ f = call[p].file
  \/ call[p].op = "rename" /\ call[p].new /\ f = call[p].file
  \/ Granting(p) /\ pc[p] = "granted" /\ f = call[p].file

LeftFits(p) ==
  /\ pc[p] # "error"
  /\ pc[p] \in {"write", "rename"} /\ mem[p].other => <<p, Target(p)>> \notin mem[p].recs
  /\ \A f \in Files : <<p, f>> \in locks.recs => Accounted(p, f)

LeftInv == BufferInv /\ \A p \in alive : LeftFits(p)

LEMMA LeftFrame ==
  ASSUME NEW q, LeftFits(q), UNCHANGED <<file[q], locked[q], call[q]>>,
         \/ pc'[q] = pc[q]
         \/ pc[q] \in Moving /\ pc'[q] \in Moving,
         pc'[q] \in {"write", "rename"} =>
           (pc[q] \in {"write", "rename"} /\ mem'[q] = mem[q])
           \/ (mem'[q].other => <<q, Target(q)>> \notin mem'[q].recs),
         \A f \in Files : <<q, f>> \in locks'.recs => <<q, f>> \in locks.recs
  PROVE  LeftFits(q)'
<1>1. Target(q)' = Target(q) /\ Granting(q)' = Granting(q)
  BY DEF Target, Granting
<1>2. Done(q)' = Done(q)
  BY DEF Done, Moving
<1>3. ASSUME NEW f \in Files, Accounted(q, f) PROVE Accounted(q, f)'
  BY <1>1, <1>2, <1>3 DEF Accounted, IsLocked, Moving
<1> QED
  BY <1>1, <1>3 DEF LeftFits, Moving

\* A step of p within lock_or_unlock, up to the rename
LEMMA LeftLockStep ==
  ASSUME Calm, Seen, ~MayFail, LeftInv, NEW p \in alive, LockStep(p), ~Rename(p)
  PROVE  \A q \in alive : LeftFits(q)'
<1>1. TypeOK /\ Exclusive /\ StaleIsDead /\ LeftFits(p) /\ p \in Procs /\ alive \subseteq Procs
      /\ locks.writer = Nobody
  BY DEF LeftInv, BufferInv, RecordInv, MutexInv, TypeOK
<1>2. ~GiveUp(p) /\ ~IOError(p) /\ ~CleanUp(p)
  BY <1>1 DEF GiveUp, IOError, CleanUp, StaleIsDead, Exclusive, InSection, LeftFits
<1>3. /\ pc[p] \in Moving /\ pc'[p] \in Moving
      /\ \A q \in Procs \ {p} : pc'[q] = pc[q] /\ mem'[q] = mem[q]
      /\ UNCHANGED <<bufVars, call>> /\ locks'.recs = locks.recs
  BY <1>1, <1>2, NamesAssumption
  DEF LockStep, Acquire, Poll, RemoveStale, Read, Write, Goto, Moving, TypeOK, fileVars
<1>4. CASE Read(p)
  <2>1. mem'[p].other => <<p, Target(p)>> \notin mem'[p].recs
    BY <1>1, <1>4, KeptRecords DEF Read, TypeOK
  <2>2. \A q \in alive \ {p} : LeftFits(q)'
    BY <1>1, <1>3, LeftFrame DEF LeftInv, bufVars
  <2>3. LeftFits(p)'
    BY <1>1, <1>3, <2>1, LeftFrame DEF bufVars
  <2> QED
    BY <2>2, <2>3
<1>5. CASE ~Read(p)
  <2>1. mem' = mem /\ (pc'[p] \in {"write", "rename"} => pc[p] = "write")
    BY <1>1, <1>2, <1>5 DEF LockStep, Acquire, Poll, RemoveStale, Write, Goto, TypeOK
  <2>2. ASSUME NEW q \in alive PROVE LeftFits(q)'
    BY <1>1, <1>3, <2>1, LeftFrame DEF LeftInv, bufVars
  <2> QED
    BY <2>2
<1> QED
  BY <1>4, <1>5

LEMMA LeftRename ==
  ASSUME LeftInv, NEW p \in alive, Rename(p)
  PROVE  \A q \in alive : LeftFits(q)'
<1>1. /\ TypeOK /\ alive \subseteq Procs /\ pc[p] = "rename" /\ UNCHANGED <<bufVars, call, mem>>
      /\ pc' = [pc EXCEPT ![p] = IF mem[p].other THEN "refused" ELSE "granted"]
      /\ locks'.recs = mem[p].recs /\ RecordsFit(p) /\ LeftFits(p) /\ call[p] \in Calls
  BY DEF Rename, Goto, LeftInv, BufferInv, RecordInv, RecordsFit, MutexInv, TypeOK
<1>2. \A r \in mem[p].recs : r \in locks.recs \/ (r = <<p, Target(p)>> /\ Granting(p) /\ ~mem[p].other)
  BY <1>1 DEF RecordsFit, LeftFits
<1>3. ASSUME NEW q \in alive, q # p PROVE LeftFits(q)'
  <2>1. \A f \in Files : <<q, f>> \in locks'.recs => <<q, f>> \in locks.recs
    BY <1>1, <1>2, <1>3
  <2>2. pc'[q] = pc[q] /\ LeftFits(q)
    BY <1>1, <1>3 DEF TypeOK, LeftInv
  <2> QED
    BY <1>1, <2>1, <2>2, LeftFrame DEF bufVars
<1>4. LeftFits(p)'
  <2>1. pc'[p] = (IF mem[p].other THEN "refused" ELSE "granted") /\ Target(p)' = Target(p)
    BY <1>1 DEF TypeOK, Target, bufVars
  <2> SUFFICES ASSUME NEW f \in Files, <<p, f>> \in mem[p].recs PROVE Accounted(p, f)'
    BY <1>1, <2>1 DEF LeftFits
  <2>2. CASE f = Target(p)
    <3>1. Granting(p) /\ ~mem[p].other /\ f = call[p].file
      BY <1>1, <2>2 DEF RecordsFit, LeftFits, Granting, LockOps, Target
    <3> QED
      BY <1>1, <2>1, <3>1 DEF Accounted, Granting
  <2>3. CASE f # Target(p)
    <3>1. Accounted(p, f)
      BY <1>1, <1>2, <2>3 DEF LeftFits
    <3>2. ~(call[p].op = "undo" /\ f = call[p].file)
      BY <2>3 DEF Target
    <3> QED
      BY <1>1, <2>1, <2>3, <3>1, <3>2 DEF Accounted, IsLocked, bufVars, Granting
  <2> QED
    BY <2>2, <2>3
<1> QED
  BY <1>3, <1>4

\* p has come to the end of a command, or begins one.
LEMMA LeftOthers ==
  ASSUME LeftInv, NEW p \in Procs, Others(p), OtherBufs(p), UNCHANGED locks, alive' \subseteq alive,
         p \in alive' => LeftFits(p)'
  PROVE  \A q \in alive' : LeftFits(q)'
<1> SUFFICES ASSUME NEW q \in alive', q # p PROVE LeftFits(q)'
  OBVIOUS
<1>1. LeftFits(q) /\ q \in Procs
  BY DEF LeftInv, BufferInv, RecordInv, MutexInv, TypeOK
<1> QED
  BY <1>1, LeftFrame DEF Others, OtherBufs

\* At rest, all that is on record is held.
LEMMA LeftAtRest ==
  ASSUME NEW p, call'[p] = NoCall, pc'[p] = "idle",
         \A f \in Files : <<p, f>> \in locks'.recs => IsLocked(p, f)'
  PROVE  LeftFits(p)'
  BY DEF LeftFits, Accounted, Done

\* What is locked through another Buffer than b stays so.
LEMMA LockedStays ==
  ASSUME TypeOK, NEW p \in Procs, NEW b \in Bufs, NEW f, NEW isLocked \in BOOLEAN,
         SetBuf(p, b, f, isLocked), NEW g, IsLocked(p, g),
         b \notin locked[p] \/ file[p][b] # g
  PROVE  IsLocked(p, g)'
<1>1. PICK c \in locked[p] : file[p][c] = g
  BY DEF IsLocked
<1>2. c \in Bufs \ {b}
  BY <1>1 DEF TypeOK
<1>3. c \in locked'[p] /\ file'[p][c] = g
  BY <1>1, <1>2, SetBufOne
<1> QED
  BY <1>3 DEF IsLocked

LEMMA LeftFinish ==
  ASSUME LeftInv, NEW p \in alive, Finish(p)
  PROVE  \A q \in alive' : LeftFits(q)'
<1> DEFINE b == call[p].buf
           f == call[p].file
           new == pc[p] = "granted"
           no == FALSE
<1>1. /\ TypeOK /\ BufFits(p) /\ LeftFits(p) /\ p \in Procs
      /\ Done(p) /\ pc[p] # "idle" /\ call[p] \in Calls
      /\ alive' = alive /\ locks' = locks
  BY DEF LeftInv, BufferInv, RecordInv, MutexInv, TypeOK, Finish, Opened, Saved, SaveAsFails,
         SaveAsUndone, SaveAsWrites, SaveAsRenames, Closed, Returned, Done, fileVars
<1>2. /\ b \in Bufs /\ f \in Files /\ new \in BOOLEAN /\ no \in BOOLEAN
      /\ call[p].new \in BOOLEAN
  BY <1>1 DEF Calls
<1>3. /\ call[p].op \in {"open", "save"} => b \notin locked[p]
      /\ call[p].op = "close" => file[p][b] = f
  BY <1>1 DEF BufFits, CallFits
<1>4. ASSUME NEW g \in Files, <<p, g>> \in locks.recs
      PROVE  \/ IsLocked(p, g) /\ (Granting(p) \/ g # Target(p))
             \/ call[p].op = "rename" /\ call[p].new /\ g = f
             \/ Granting(p) /\ new /\ g = f
  BY <1>1, <1>4 DEF LeftFits, Accounted
<1>5. CASE Opened(p) \/ Saved(p) \/ (SaveAsWrites(p) /\ b \notin locked[p])
  <2>1. /\ SetBuf(p, b, f, new) /\ Rest(p) /\ call[p].op \in LockOps
        /\ b \notin locked[p]
    BY <1>3, <1>5 DEF Opened, Saved, SaveAsWrites, Returned, LockOps
  <2>2. call[p].op # "rename"
    BY <2>1 DEF LockOps
  <2> HIDE DEF b, f, new
  <2>3. Others(p) /\ pc'[p] = "idle" /\ call'[p] = NoCall
    BY <1>1, <2>1, RestOne
  <2>4. OtherBufs(p) /\ (new => b \in locked'[p] /\ file'[p][b] = f)
    BY <1>1, <1>2, <2>1, SetBufOne
  <2>5. ASSUME NEW g \in Files, <<p, g>> \in locks.recs PROVE IsLocked(p, g)'
    <3>1. CASE IsLocked(p, g)
      BY <1>1, <1>2, <2>1, <3>1, LockedStays
    <3>2. CASE new /\ g = f
      BY <2>4, <3>2 DEF IsLocked
    <3> QED
      BY <1>4, <2>2, <2>5, <3>1, <3>2
  <2>6. LeftFits(p)'
    BY <1>1, <2>3, <2>5, LeftAtRest
  <2> QED
    BY <1>1, <2>3, <2>4, <2>6, LeftOthers
<1>6. CASE SaveAsRenames(p)
  <2> DEFINE was == call[p].new
  <2>1. SetBuf(p, b, f, was) /\ Rest(p) /\ ~Granting(p) /\ Target(p) = file[p][b]
    BY <1>6 DEF SaveAsRenames, Returned, Granting, LockOps, Target
  <2>2. was \in BOOLEAN
    BY <1>2
  <2>3. ASSUME NEW g \in Files, <<p, g>> \in locks.recs
        PROVE  (IsLocked(p, g) /\ file[p][b] # g) \/ (was /\ g = f)
    BY <1>4, <2>1, <2>3
  <2> HIDE DEF b, f, was
  <2>4. Others(p) /\ pc'[p] = "idle" /\ call'[p] = NoCall
    BY <1>1, <2>1, RestOne
  <2>5. OtherBufs(p) /\ (was => b \in locked'[p] /\ file'[p][b] = f)
    BY <1>1, <1>2, <2>1, <2>2, SetBufOne
  <2>6. ASSUME NEW g \in Files, <<p, g>> \in locks.recs PROVE IsLocked(p, g)'
    <3>1. CASE IsLocked(p, g) /\ file[p][b] # g
      BY <1>1, <1>2, <2>1, <2>2, <3>1, LockedStays
    <3>2. CASE was /\ g = f
      BY <2>5, <3>2 DEF IsLocked
    <3> QED
      BY <2>3, <2>6, <3>1, <3>2
  <2>7. LeftFits(p)'
    BY <1>1, <2>4, <2>6, LeftAtRest
  <2> QED
    BY <1>1, <2>4, <2>5, <2>7, LeftOthers
<1>7. CASE Closed(p)
  <2>1. /\ SetBuf(p, b, NoFile, no) /\ Rest(p) /\ ~Granting(p) /\ call[p].op = "close"
        /\ Target(p) = file[p][b]
    BY <1>3, <1>7 DEF Closed, Returned, Granting, LockOps, Target
  <2>2. ASSUME NEW g \in Files, <<p, g>> \in locks.recs
        PROVE  IsLocked(p, g) /\ file[p][b] # g
    BY <1>4, <2>1, <2>2
  <2> HIDE DEF b, no
  <2>3. Others(p) /\ pc'[p] = "idle" /\ call'[p] = NoCall
    BY <1>1, <2>1, RestOne
  <2>4. OtherBufs(p)
    BY <1>1, <1>2, <2>1, SetBufOne
  <2>5. ASSUME NEW g \in Files, <<p, g>> \in locks.recs PROVE IsLocked(p, g)'
    BY <1>1, <1>2, <2>1, <2>2, <2>5, LockedStays
  <2>6. LeftFits(p)'
    BY <1>1, <2>3, <2>5, LeftAtRest
  <2> QED
    BY <1>1, <2>3, <2>4, <2>6, LeftOthers
<1>8. CASE SaveAsUndone(p) \/ (SaveAsFails(p) /\ pc[p] # "granted")
  <2>1. UNCHANGED bufVars /\ Rest(p) /\ ~(Granting(p) /\ new) /\ call[p].op # "rename"
    BY <1>8 DEF SaveAsUndone, SaveAsFails, Returned, Granting, LockOps
  <2>2. Others(p) /\ pc'[p] = "idle" /\ call'[p] = NoCall
    BY <1>1, <2>1, RestOne
  <2>3. ASSUME NEW g \in Files, <<p, g>> \in locks.recs PROVE IsLocked(p, g)'
    BY <1>4, <2>1, <2>3 DEF IsLocked, bufVars
  <2>4. LeftFits(p)'
    BY <1>1, <2>2, <2>3, LeftAtRest
  <2> QED
    BY <1>1, <2>1, <2>2, <2>4, LeftOthers DEF OtherBufs, bufVars
<1>9. CASE SaveAsFails(p) /\ pc[p] = "granted"
  <2>1. Begin(p, "undo", b, f, no) /\ UNCHANGED bufVars /\ call[p].op = "saveas"
    BY <1>9 DEF SaveAsFails, Returned
  <2>2. ASSUME NEW g \in Files, <<p, g>> \in locks.recs PROVE IsLocked(p, g) \/ g = f
    BY <1>4, <2>1, <2>2
  <2> HIDE DEF b, f, no
  <2>3. Others(p) /\ pc'[p] = "open" /\ call'[p].op = "undo" /\ call'[p].file = f
    BY <1>1, <2>1, BeginOne
  <2>4. LeftFits(p)'
    BY <1>1, <2>1, <2>2, <2>3 DEF LeftFits, Accounted, IsLocked, Done, bufVars
  <2> QED
    BY <1>1, <2>1, <2>3, <2>4, LeftOthers DEF OtherBufs, bufVars
<1>10. CASE SaveAsWrites(p) /\ b \in locked[p]
  <2>1. Begin(p, "rename", b, f, new) /\ UNCHANGED bufVars /\ call[p].op = "saveas"
    BY <1>10 DEF SaveAsWrites, Returned
  <2>2. ASSUME NEW g \in Files, <<p, g>> \in locks.recs
        PROVE  IsLocked(p, g) \/ (new /\ g = f)
    BY <1>4, <2>1, <2>2
  <2> HIDE DEF b, f, new
  <2>3. /\ Others(p) /\ pc'[p] = "open" /\ call'[p].op = "rename" /\ call'[p].file = f
        /\ call'[p].new = new
    BY <1>1, <2>1, BeginOne
  <2>4. LeftFits(p)'
    BY <1>1, <2>1, <2>2, <2>3 DEF LeftFits, Accounted, IsLocked, Done, bufVars
  <2> QED
    BY <1>1, <2>1, <2>3, <2>4, LeftOthers DEF OtherBufs, bufVars
<1> QED
  BY <1>5, <1>6, <1>7, <1>8, <1>9, <1>10 DEF Finish, Done

LEMMA LeftCommand ==
  ASSUME LeftInv, NEW p \in alive, Command(p)
  PROVE  \A q \in alive' : LeftFits(q)'
<1> DEFINE no == FALSE
<1>1. /\ TypeOK /\ LeftFits(p) /\ p \in Procs /\ pc[p] = "idle" /\ call[p] = NoCall
      /\ no \in BOOLEAN /\ alive' = alive /\ locks' = locks
  BY DEF LeftInv, BufferInv, RecordInv, MutexInv, TypeOK, Command, Open, OpenWithoutLock, Save,
         SaveAs, Close, Idle, fileVars
<1>2. \A g \in Files : <<p, g>> \in locks.recs => IsLocked(p, g)
  BY <1>1 DEF LeftFits, Accounted, NoCall, Granting, LockOps
<1>3. ASSUME NEW op, NEW b, NEW f, Begin(p, op, b, f, no), UNCHANGED bufVars
      PROVE  \A q \in alive' : LeftFits(q)'
  <2> HIDE DEF no
  <2>1. Others(p) /\ pc'[p] = "open"
    BY <1>1, <1>3, BeginOne
  <2>2. LeftFits(p)'
    BY <1>1, <1>2, <1>3, <2>1 DEF LeftFits, Accounted, IsLocked, Done, bufVars
  <2> QED
    BY <1>1, <1>3, <2>1, <2>2, LeftOthers DEF OtherBufs, bufVars
<1>4. ASSUME NEW b \in Bufs, NEW f, SetBuf(p, b, f, no), UNCHANGED procVars, b \notin locked[p]
      PROVE  \A q \in alive' : LeftFits(q)'
  <2> HIDE DEF no
  <2>1. OtherBufs(p)
    BY <1>1, <1>4, SetBufOne
  <2>2. \A g \in Files : <<p, g>> \in locks.recs => IsLocked(p, g)'
    BY <1>1, <1>2, <1>4, LockedStays
  <2>3. LeftFits(p)'
    BY <1>1, <1>4, <2>2, LeftAtRest DEF procVars
  <2> QED
    BY <1>1, <1>4, <2>1, <2>3, LeftOthers DEF Others, procVars
<1>5. \A b \in Bufs : file[p][b] = NoFile => b \notin locked[p]
  BY <1>1 DEF TypeOK
<1>6. ASSUME NEW b \in Bufs, NEW f \in Files, Open(p, b, f) \/ SaveAs(p, b, f) \/ Save(p, b)
      PROVE  \A q \in alive' : LeftFits(q)'
  BY <1>3, <1>6 DEF Open, SaveAs, Save
<1>7. ASSUME NEW b \in Bufs, NEW f \in Files, OpenWithoutLock(p, b, f)
      PROVE  \A q \in alive' : LeftFits(q)'
  BY <1>4, <1>5, <1>7 DEF OpenWithoutLock
<1>8. ASSUME NEW b \in Bufs, Close(p, b), b \in locked[p]
      PROVE  \A q \in alive' : LeftFits(q)'
  BY <1>3, <1>8 DEF Close
<1>9. ASSUME NEW b \in Bufs, Close(p, b), b \notin locked[p]
      PROVE  \A q \in alive' : LeftFits(q)'
  BY <1>4, <1>9 DEF Close
<1>10. ASSUME NEW b \in Bufs, Save(p, b)
       PROVE  \A q \in alive' : LeftFits(q)'
  BY <1>3, <1>10 DEF Save
<1> QED
  BY <1>6, <1>7, <1>8, <1>9, <1>10 DEF Command

LEMMA NextLeft ==
  ASSUME Calm, Seen, ~Twice, ~MayFail, LeftInv, [Next]_vars
  PROVE  LeftInv'
<1>1. BufferInv'
  BY NextBuffer DEF LeftInv
<1>2. TypeOK /\ alive \subseteq Procs
  BY DEF LeftInv, BufferInv, RecordInv, MutexInv, TypeOK
<1>3. CASE UNCHANGED vars
  <2>1. ASSUME NEW q \in alive PROVE LeftFits(q)'
    BY <1>2, <1>3, LeftFrame DEF vars, LeftInv
  <2> QED
    BY <1>1, <1>3, <2>1 DEF LeftInv, vars
<1>4. ASSUME NEW p \in Procs, LockStep(p) PROVE \A q \in alive' : LeftFits(q)'
  <2>1. p \in alive /\ alive' = alive
    BY <1>2, <1>4
    DEF LockStep, Acquire, Poll, GiveUp, RemoveStale, Read, Write, Rename, IOError, CleanUp, TypeOK
  <2> QED
    BY <1>4, <2>1, LeftLockStep, LeftRename
<1>5. ASSUME NEW p \in Procs, Finish(p) PROVE p \in alive
  BY <1>2, <1>5 DEF Finish, Opened, Saved, SaveAsFails, SaveAsUndone, SaveAsWrites,
                    SaveAsRenames, Closed, Returned, TypeOK
<1>6. ASSUME NEW p \in Procs, Command(p) PROVE p \in alive
  BY <1>6 DEF Command, Open, OpenWithoutLock, Save, SaveAs, Close, Idle
<1>7. ASSUME NEW p \in Procs, Exit(p) \/ Crash(p) PROVE \A q \in alive' : LeftFits(q)'
  <2>1. Rest(p) /\ locks' = locks /\ alive' \subseteq alive /\ p \notin alive'
    BY <1>7 DEF Exit, Crash, Gone, fileVars
  <2>2. Others(p)
    BY <1>2, <2>1, RestOne
  <2>3. OtherBufs(p)
    BY <1>2, <1>7 DEF TypeOK, Exit, Crash, Gone, OtherBufs
  <2> QED
    BY <2>1, <2>2, <2>3, LeftOthers
<1> QED
  BY <1>1, <1>3, <1>4, <1>5, <1>6, <1>7, LeftFinish, LeftCommand DEF Next, LeftInv

\* If, besides, no system call fails, what an editor at rest has on record is
\* locked by one of its Buffers: no close, save or failed save leaves a record
\* behind that would keep other editors from the file.
THEOREM NothingLeftBehind ==
  ASSUME Calm, Seen, ~Twice, ~MayFail PROVE Spec => []RecordsAreHeld
<1>1. Init => LeftInv
  BY InitBuffer DEF Init, LeftInv, LeftFits
<1>2. LeftInv /\ [Next]_vars => LeftInv'
  BY NextLeft
<1>3. LeftInv => RecordsAreHeld
  <2> SUFFICES ASSUME LeftInv, NEW p \in alive, NEW f \in Files, pc[p] = "idle",
                      <<p, f>> \in locks.recs
               PROVE  IsLocked(p, f)
    BY DEF RecordsAreHeld, IsLocked
  <2>1. Accounted(p, f) /\ call[p] = NoCall
    BY DEF LeftInv, LeftFits, BufferInv, RecordInv, MutexInv, TypeOK
  <2> QED
    BY <2>1 DEF Accounted, NoCall, Granting, LockOps
<1> QED
  BY <1>1, <1>2, <1>3, PTL DEF Spec
=============================================================================
