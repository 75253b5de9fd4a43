--------------------------- MODULE SaveFileProofs ---------------------------
(***************************************************************************)
(* Proofs about SaveFile: whatever fails, and whoever is killed in the     *)
(* course of a save, a file is replaced at once (SavesAtOnce), the Buffers *)
(* know what is in their files (SavesAreSound), and a save under a lock    *)
(* overwrites nothing that its editor has not seen (KeepsUnseen).          *)
(***************************************************************************)
EXTENDS SaveFile, FiniteSetTheorems, TLAPS

Texts == 0..MaxText
Times == 0..MaxTime
Labels == {"idle", "off", "read", "hold", "lock", "clash", "write", "flush", "rename", "undo", "done"}
FileTypes == [text : Texts, whole : BOOLEAN, mtime : Times, safe : BOOLEAN, forced : BOOLEAN]
Stats == [ino : Inodes \cup {0}, mtime : Times]
BufTypes == [name : Names \cup {NoName}, text : Texts, saved : Texts, info : Stats,
             sure : BOOLEAN, locked : BOOLEAN, readonly : BOOLEAN]
JobTypes == [pc : Labels, name : Names \cup {NoName}, force : BOOLEAN, st : Stats,
             new : BOOLEAN, ino : Inodes \cup {0}, tmp : BOOLEAN, held : BOOLEAN]

Types ==
  /\ file \in [Inodes -> FileTypes]
  /\ dir \in [Names -> Inodes \cup {0}]
  /\ lock \in [Names -> Editors \cup {Nobody}]
  /\ buf \in [Editors -> BufTypes]
  /\ job \in [Editors -> JobTypes]
  /\ texts \in Texts /\ clock \in Times
  /\ seen \in [Editors -> SUBSET Texts]

\* No inode has two names, and what has not happened yet is no mtime.
Linked ==
  /\ \A m, n \in Names : dir[m] = dir[n] /\ dir[m] # 0 => m = n
  /\ \A i \in Inodes : file[i].mtime <= clock
  /\ \A e \in Editors : buf[e].info.mtime <= clock

Resting == {"idle", "off"}
Opened == {"write", "flush", "rename", "undo", "done"}   \* a file is open for writing
Pending == {"write", "flush", "rename", "undo"}          \* and not renamed yet

\* The state of a command.
JobFits(e) ==
  LET j == job[e]  b == buf[e]
  IN  /\ j.pc = "off" => b = NoBuf
      /\ j.pc \notin Resting => j.name \in Names /\ b.name \in Names
      /\ b.locked => b.name \in Names
      /\ j.pc \in Resting \cup {"hold", "lock", "clash"} => j.ino = 0
      /\ j.pc \in Opened \cup {"read"} => j.ino \in Inodes
      /\ j.pc \in {"read", "hold"} => j.name = b.name /\ ~b.locked
      /\ j.pc \in Resting \cup {"read", "hold", "lock"} => ~j.new /\ ~j.held
      /\ j.pc = "read" => b.info.ino = j.ino
      /\ j.new => j.name # b.name
      /\ j.held => j.name = b.name /\ b.locked
      /\ j.tmp => j.pc \in Opened
      /\ j.pc \in Opened => (j.tmp <=> j.name \notin Direct)
      /\ j.pc = "rename" => j.tmp
      /\ j.pc \in {"flush", "rename", "done"} => b.text \in seen[e]

\* Who believes to have a lock has it, and who writes without -f has one.
LockFits(e) ==
  /\ job[e].pc = "lock" => LockFiles
  /\ buf[e].locked => LockFiles /\ lock[buf[e].name] = e
  /\ job[e].new => LockFiles /\ lock[job[e].name] = e
  /\ job[e].pc \in Opened \cup {"clash"} /\ LockFiles /\ ~job[e].force => Holds(e)

\* Who has the lock of the file that its command is about.
Guards(e) == job[e].pc \in Opened \cup {"clash"} /\ Holds(e)

IsTmp(e) == job[e].tmp /\ job[e].pc \in Pending

\* A temporary file is nobody else's, and complete when it is renamed; a file
\* that is written in place keeps its name.
InodeFits(e) ==
  LET j == job[e]
      f == file[j.ino]
  IN  /\ IsTmp(e) => \A n \in Names : dir[n] # j.ino
      /\ IsTmp(e) => \A d \in Editors \ {e} : job[d].ino # j.ino
      /\ IsTmp(e) /\ j.pc \in {"flush", "rename"} =>
           /\ f.whole /\ f.text = buf[e].text /\ f.forced = j.force
           /\ j.pc = "rename" => f.safe = Fsync
           /\ \A d \in Editors : buf[d].info.ino = j.ino => buf[d].info.mtime # f.mtime
      /\ j.pc \in Opened /\ ~j.tmp => dir[j.name] = j.ino
      /\ j.pc = "done" => dir[j.name] # 0

Durable == Fsync \/ ~MayLosePower

\* What has been renamed is whole, and survives a loss of power.
RenamedIsWhole ==
  Durable \/ (\E e \in Editors : ~At(e, "off")) =>
    \A n \in Names \ Direct : dir[n] # 0 => file[dir[n]].whole /\ (Fsync => file[dir[n]].safe)

Known(e, f) == f.forced \/ (f.whole => f.text \in seen[e])

\* What e knows of a file, when its saved change is the text t.
Agrees(e, n, t) ==
  LET f == file[dir[n]]
  IN  Known(e, f) /\ (f.forced \/ n \in Direct \/ (f.whole /\ f.text = t))

\* What is in the file that a Buffer knows, or that its command is about.
ContentFits(e) ==
  LET j == job[e]
      b == buf[e]
  IN  /\ b.sure /\ Current(e) /\ j.pc # "read" => Agrees(e, b.name, b.saved)
      /\ Guards(e) /\ ~j.tmp /\ j.pc \in Opened => Agrees(e, j.name, b.text)
      /\ Guards(e) /\ j.pc = "done" => Agrees(e, j.name, b.text)
      /\ j.pc = "clash" /\ j.held /\ b.sure /\ j.st = b.info /\ dir[j.name] # 0 =>
           Agrees(e, j.name, b.saved)
      /\ j.held /\ ~j.force /\ b.sure /\ j.pc \in {"clash", "write", "flush", "rename"}
           /\ dir[j.name] # 0 => Known(e, file[dir[j.name]])

Fits(e) == JobFits(e) /\ LockFits(e) /\ InodeFits(e) /\ ContentFits(e)

SaveInv == Types /\ Linked /\ RenamedIsWhole /\ \A e \in Editors : Fits(e)

-----------------------------------------------------------------------------
(* Inodes *)

LEMMA ZeroIsNoInode == 0 \notin Inodes /\ Inodes \subseteq Nat
<1>1. Cardinality(Names) + Cardinality(Editors) \in Nat
  BY SizesAssumption, FS_CardinalityType
<1> QED
  BY <1>1 DEF Inodes

\* There are as many inodes as names and editors, so who has none finds one.
LEMMA FreeInodeIsFree ==
  ASSUME Types, NEW e \in Editors, job[e].ino = 0
  PROVE  /\ FreeInode \in Inodes /\ \A n \in Names : dir[n] # FreeInode
         /\ \A d \in Editors : job[d].ino # FreeInode
<1> DEFINE D == {dir[n] : n \in Names}
           J == {job[d].ino : d \in Editors}
           ino == [d \in Editors |-> job[d].ino]
           c == Cardinality(Names) + Cardinality(Editors)
<1>1. IsFiniteSet(D) /\ Cardinality(D) <= Cardinality(Names)
  <2>1. dir \in Surjection(Names, D)
    BY DEF Surjection, Types
  <2> QED
    BY <2>1, SizesAssumption, FS_Surjection
<1>2. IsFiniteSet(J) /\ Cardinality(J) <= Cardinality(Editors)
  <2>1. ino \in Surjection(Editors, J)
    BY DEF Surjection
  <2> QED
    BY <2>1, SizesAssumption, FS_Surjection
<1>3. IsFiniteSet(InUse) /\ Cardinality(InUse) <= c
  <2>1. /\ IsFiniteSet(D \cup J)
        /\ Cardinality(D \cup J) = Cardinality(D) + Cardinality(J) - Cardinality(D \cap J)
    BY <1>1, <1>2, FS_Union
  <2>2. IsFiniteSet(D \cap J)
    BY <1>1, FS_Intersection, <1>2
  <2>3. /\ Cardinality(D) \in Nat /\ Cardinality(J) \in Nat /\ Cardinality(D \cap J) \in Nat
        /\ Cardinality(Names) \in Nat /\ Cardinality(Editors) \in Nat
    BY <1>1, <1>2, <2>2, SizesAssumption, FS_CardinalityType
  <2> QED
    BY <1>1, <1>2, <2>1, <2>3 DEF InUse
<1>4. \E i \in Inodes : i \notin InUse
  <2> SUFFICES ASSUME Inodes \subseteq InUse PROVE FALSE
    OBVIOUS
  <2>1. c \in Nat
    BY SizesAssumption, FS_CardinalityType
  <2>2. IsFiniteSet(Inodes) /\ Cardinality(Inodes) = c
    BY <2>1, FS_Interval DEF Inodes
  <2>3. IsFiniteSet(Inodes \cup {0}) /\ Cardinality(Inodes \cup {0}) = c + 1
    BY <2>2, FS_AddElement, ZeroIsNoInode
  <2>4. Inodes \cup {0} \in SUBSET InUse
    BY DEF InUse
  <2>5. Cardinality(Inodes \cup {0}) <= Cardinality(InUse)
    BY <1>3, <2>4, FS_Subset
  <2>6. Cardinality(InUse) \in Nat
    BY <1>3, FS_CardinalityType
  <2> HIDE DEF c
  <2> QED
    BY <1>3, <2>1, <2>3, <2>5, <2>6
<1>5. FreeInode \in Inodes /\ FreeInode \notin InUse
  BY <1>4 DEF FreeInode
<1> QED
  BY <1>5 DEF InUse

-----------------------------------------------------------------------------
(* Types *)

LEMMA NoBufType == NoBuf \in BufTypes /\ NoStat \in Stats
  BY SizesAssumption, NamesAssumption DEF NoBuf, BufTypes, Stats, NoStat, Texts, Times

LEMMA IdleType == Idle \in JobTypes
  BY SizesAssumption DEF Idle, JobTypes, Stats, NoStat, Labels, Times

LEMMA StatType == ASSUME Types, NEW n \in Names PROVE Stat(n) \in Stats
  BY SizesAssumption DEF Types, Stat, NoStat, Stats, FileTypes, Times

LEMMA SetBufType ==
  ASSUME Types, NEW e \in Editors, NEW b \in BufTypes, SetBuf(e, b)
  PROVE  /\ buf' \in [Editors -> BufTypes]
         /\ buf'[e] = b /\ \A d \in Editors \ {e} : buf'[d] = buf[d]
  BY DEF Types, SetBuf

LEMMA SetJobType ==
  ASSUME Types, NEW e \in Editors, NEW j \in JobTypes, SetJob(e, j)
  PROVE  /\ job' \in [Editors -> JobTypes]
         /\ job'[e] = j /\ \A d \in Editors \ {e} : job'[d] = job[d]
  BY DEF Types, SetJob

LEMMA GotoType ==
  ASSUME Types, NEW e \in Editors, NEW pc \in Labels, Goto(e, pc)
  PROVE  /\ job' \in [Editors -> JobTypes]
         /\ job'[e] = [job[e] EXCEPT !.pc = pc]
         /\ \A d \in Editors \ {e} : job'[d] = job[d]
<1>1. [job[e] EXCEPT !.pc = pc] \in JobTypes
  BY DEF Types, JobTypes
<1> QED
  BY <1>1, SetJobType DEF Goto

-----------------------------------------------------------------------------
LEMMA InitInv == Init => SaveInv
<1> SUFFICES ASSUME Init PROVE SaveInv
  OBVIOUS
<1>1. \A e \in Editors : buf[e] = NoBuf /\ job[e] = Idle
  BY DEF Init
<1>2. Types
  <2>1. 0 \in Texts /\ 0 \in Times
    BY SizesAssumption DEF Texts, Times
  <2>2. 1 \in Inodes \/ There \notin Names
    <3>1. CASE There \in Names
      <4>1. Cardinality(Names) \in Nat /\ Cardinality(Editors) \in Nat /\ Cardinality(Names) # 0
        BY <3>1, SizesAssumption, FS_CardinalityType, FS_EmptySet
      <4> QED
        BY <4>1 DEF Inodes
    <3> QED
      BY <3>1
  <2>3. dir \in [Names -> Inodes \cup {0}]
    BY <2>2 DEF Init
  <2>4. file \in [Inodes -> FileTypes]
    BY <2>1 DEF Init, FileTypes
  <2> QED
    BY <2>1, <2>3, <2>4, NoBufType, IdleType DEF Init, Types
<1>3. Linked
  BY SizesAssumption DEF Init, Linked, NoBuf, NoStat
<1>4. RenamedIsWhole
  BY <1>2 DEF Init, RenamedIsWhole, Types
<1>5. ASSUME NEW e \in Editors PROVE Fits(e)
  <2>1. JobFits(e)
    BY <1>1 DEF JobFits, Idle, NoBuf, Resting, Opened
  <2>2. LockFits(e)
    BY <1>1 DEF LockFits, Idle, NoBuf, Opened
  <2>3. InodeFits(e)
    BY <1>1 DEF InodeFits, IsTmp, Idle, Opened
  <2>4. ContentFits(e)
    BY <1>1 DEF ContentFits, Guards, Idle, NoBuf, Opened
  <2> QED
    BY <2>1, <2>2, <2>3, <2>4 DEF Fits
<1> QED
  BY <1>2, <1>3, <1>4, <1>5 DEF SaveInv

-----------------------------------------------------------------------------
(* Types of the next state *)

LEMMA TickType == ASSUME Types, Tick PROVE clock' = clock + 1 /\ clock' \in Times
  BY SizesAssumption DEF Types, Tick, Times

LEMMA NewTextType == ASSUME Types, NewText PROVE texts' = texts + 1 /\ texts' \in Texts
  BY SizesAssumption DEF Types, NewText, Texts

LEMMA LockType ==
  ASSUME Types, NEW n, NEW v \in Editors \cup {Nobody}
  PROVE  [lock EXCEPT ![n] = v] \in [Names -> Editors \cup {Nobody}]
  BY DEF Types

LEMMA FailType ==
  ASSUME Types, NEW e \in Editors, Fail(e)
  PROVE  /\ job' \in [Editors -> JobTypes] /\ lock' \in [Names -> Editors \cup {Nobody}]
         /\ job'[e] = Idle /\ \A d \in Editors \ {e} : job'[d] = job[d]
  BY LockType, SetJobType, IdleType DEF Fail, Types

LEMMA LoadTypes ==
  ASSUME Types, NEW e \in Editors, JobFits(e),
         \/ \E n \in Names : Open(e, n)
         \/ Read(e) \/ LoadFails(e) \/ Hold(e) \/ Edit(e) \/ Undo(e) \/ Close(e) \/ Crash(e)
  PROVE  Types'
<1>1. buf[e] \in BufTypes /\ job[e] \in JobTypes /\ seen \in [Editors -> SUBSET Texts]
  BY DEF Types
<1>2. ASSUME NEW n \in Names, Open(e, n) PROVE Types'
  <2>1. [Idle EXCEPT !.pc = IF dir[n] # 0 THEN "read" ELSE "hold", !.name = n, !.ino = dir[n]]
          \in JobTypes
    BY IdleType DEF JobTypes, Labels, Types
  <2>2. [NoBuf EXCEPT !.name = n, !.info = Stat(n), !.sure = TRUE] \in BufTypes
    BY NoBufType, StatType DEF BufTypes
  <2>3. /\ SetJob(e, [Idle EXCEPT !.pc = IF dir[n] # 0 THEN "read" ELSE "hold",
                                   !.name = n, !.ino = dir[n]])
        /\ SetBuf(e, [NoBuf EXCEPT !.name = n, !.info = Stat(n), !.sure = TRUE])
        /\ UNCHANGED <<diskVars, lock, counters, seen>>
    BY <1>2 DEF Open
  <2> QED
    BY <2>1, <2>2, <2>3, SetBufType, SetJobType DEF Types, diskVars, counters
<1>3. CASE Read(e)
  <2>1. job[e].ino \in Inodes
    BY <1>3 DEF JobFits, Read, At
  <2>2. Got(e) \in Texts /\ texts' \in Texts
    BY <1>3, <2>1, NewTextType DEF Read, Got, Types, FileTypes
  <2>3. [buf[e] EXCEPT !.text = Got(e), !.saved = Got(e)] \in BufTypes
    BY <1>1, <2>2 DEF BufTypes
  <2>4. [job[e] EXCEPT !.pc = "hold", !.ino = 0] \in JobTypes
    BY <1>1 DEF JobTypes, Labels
  <2>5. seen' \in [Editors -> SUBSET Texts]
    BY <1>1, <1>3, <2>2 DEF Read
  <2> QED
    BY <1>3, <2>2, <2>3, <2>4, <2>5, SetBufType, SetJobType DEF Read, Types, diskVars
<1>4. ASSUME NEW S PROVE [d \in Editors |-> IF d \in S THEN {} ELSE seen[d]]
                           \in [Editors -> SUBSET Texts]
  BY <1>1
<1>5. CASE LoadFails(e)
  BY <1>4, <1>5, SetBufType, SetJobType, NoBufType, IdleType
  DEF LoadFails, Forget, Types, diskVars, counters
<1>6. CASE Hold(e)
  <2> DEFINE free == LockFiles /\ lock[job[e].name] = Nobody
             b == [buf[e] EXCEPT !.locked = free, !.readonly = LockFiles /\ ~free]
  <2>1. b \in BufTypes
    BY <1>1 DEF BufTypes
  <2>2. SetBuf(e, b) /\ SetJob(e, Idle) /\ UNCHANGED <<diskVars, counters, seen>>
    BY <1>6 DEF Hold
  <2>3. lock' \in [Names -> Editors \cup {Nobody}]
    BY <1>6, LockType DEF Hold, Types
  <2> QED
    BY <2>1, <2>2, <2>3, SetBufType, SetJobType, IdleType DEF Types, diskVars, counters
<1>7. CASE Edit(e)
  <2>1. texts' \in Texts /\ texts' = texts + 1
    BY <1>7, NewTextType DEF Edit
  <2>2. [buf[e] EXCEPT !.text = texts + 1] \in BufTypes
    BY <1>1, <2>1 DEF BufTypes
  <2> QED
    BY <1>7, <2>1, <2>2, SetBufType DEF Edit, Types, diskVars
<1>8. CASE Undo(e)
  <2>1. [buf[e] EXCEPT !.text = buf[e].saved] \in BufTypes
    BY <1>1 DEF BufTypes
  <2> QED
    BY <1>8, <2>1, SetBufType DEF Undo, Types, diskVars, counters
<1>9. CASE Close(e)
  BY <1>4, <1>9, SetBufType, NoBufType, LockType DEF Close, Forget, Types, diskVars, counters
<1>10. CASE Crash(e)
  <2>1. lock' \in [Names -> Editors \cup {Nobody}]
    BY <1>10 DEF Crash, Freed, Types
  <2> QED
    BY <1>4, <1>10, <2>1, SetBufType, SetJobType, NoBufType, IdleType
    DEF Crash, Forget, Types, diskVars, counters
<1> QED
  BY <1>2, <1>3, <1>5, <1>6, <1>7, <1>8, <1>9, <1>10

LEMMA SaveTypes ==
  ASSUME Types, NEW e \in Editors, JobFits(e), NEW n \in Names, NEW force \in BOOLEAN,
         Save(e, n, force)
  PROVE  Types'
<1> DEFINE j == [Idle EXCEPT !.pc = IF NeedsLock(e, n) THEN "lock" ELSE "clash",
                             !.name = n, !.force = force, !.st = Stat(n),
                             !.held = buf[e].locked /\ n = buf[e].name]
<1>1. j \in JobTypes
  BY IdleType, StatType DEF JobTypes, Labels, Types, BufTypes
<1>2. SetJob(e, j) /\ UNCHANGED <<diskVars, lock, buf, counters, seen>>
  BY DEF Save, StartSave
<1> QED
  BY <1>1, <1>2, SetJobType DEF Types, diskVars, counters

LEMMA CommandTypes ==
  ASSUME Types, NEW e \in Editors, JobFits(e),
         \/ Lock(e) \/ CannotLock(e) \/ Clash(e) \/ KeepAsIs(e) \/ OpenFails(e) \/ LaterFails(e)
         \/ Undone(e) \/ Saved(e)
  PROVE  Types'
<1>1. buf[e] \in BufTypes /\ job[e] \in JobTypes
  BY DEF Types
<1>2. CASE Lock(e)
  <2> DEFINE got == lock[job[e].name] \in {Nobody, e}
             b == [buf[e] EXCEPT !.locked = @ \/ (got /\ Own(e))]
             j == [job[e] EXCEPT !.pc = "clash", !.new = got /\ ~Own(e)]
  <2>1. b \in BufTypes /\ j \in JobTypes
    BY <1>1 DEF BufTypes, JobTypes, Labels, Own
  <2>2. SetBuf(e, b) /\ SetJob(e, j) /\ UNCHANGED <<diskVars, counters, seen>>
    BY <1>2 DEF Lock
  <2>3. lock' \in [Names -> Editors \cup {Nobody}]
    BY <1>2, LockType DEF Lock, Types
  <2> QED
    BY <2>1, <2>2, <2>3, SetBufType, SetJobType DEF Types, diskVars, counters
<1>3. CASE CannotLock(e) \/ Clash(e) \/ OpenFails(e)
  BY <1>3, FailType DEF CannotLock, Clash, OpenFails, Types, diskVars, counters
<1>4. CASE KeepAsIs(e)
  BY <1>4, SetJobType, IdleType DEF KeepAsIs, Types, diskVars, counters
<1>5. CASE LaterFails(e)
  BY <1>5, GotoType DEF LaterFails, Types, diskVars, counters, Labels
<1>6. CASE Undone(e)
  <2> DEFINE b == [buf[e] EXCEPT !.info = IF job[e].tmp THEN @ ELSE Stat(job[e].name),
                                 !.sure = IF job[e].tmp THEN @ ELSE Holds(e)]
  <2>1. job[e].name \in Names
    BY <1>6 DEF JobFits, Undone, At, Resting
  <2>2. b \in BufTypes
    BY <1>1, <2>1, StatType DEF BufTypes, JobTypes, Holds
  <2>3. SetBuf(e, b) /\ Fail(e) /\ UNCHANGED <<diskVars, counters, seen>>
    BY <1>6 DEF Undone
  <2> QED
    BY <2>2, <2>3, SetBufType, FailType DEF Types, diskVars, counters
<1>7. CASE Saved(e)
  <2> DEFINE n == job[e].name
             b == [buf[e] EXCEPT !.info = IF dir[n] = 0 THEN @ ELSE Stat(n),
                                 !.saved = buf[e].text,
                                 !.readonly = FALSE,
                                 !.name = n,
                                 !.sure = Holds(e),
                                 !.locked = Holds(e)]
  <2>1. n \in Names
    BY <1>7 DEF JobFits, Saved, At, Resting
  <2>2. b \in BufTypes
    BY <1>1, <2>1, StatType DEF BufTypes, JobTypes, Holds
  <2>3. SetBuf(e, b) /\ SetJob(e, Idle) /\ UNCHANGED <<diskVars, counters, seen>>
    BY <1>7 DEF Saved
  <2>4. lock' \in [Names -> Editors \cup {Nobody}]
    BY <1>7, LockType DEF Saved, Types
  <2> QED
    BY <2>2, <2>3, <2>4, SetBufType, SetJobType, IdleType DEF Types, diskVars, counters
<1> QED
  BY <1>2, <1>3, <1>4, <1>5, <1>6, <1>7

LEMMA WrittenType ==
  ASSUME Types, NEW e \in Editors, NEW t \in Texts, NEW whole \in BOOLEAN, clock' \in Times
  PROVE  Written(e, t, whole) \in FileTypes
  BY DEF Types, Written, FileTypes, JobTypes

LEMMA PutFile ==
  ASSUME Types, NEW i \in Inodes, NEW f \in FileTypes, file' = [file EXCEPT ![i] = f]
  PROVE  /\ file' \in [Inodes -> FileTypes] /\ file'[i] = f
         /\ \A k \in Inodes \ {i} : file'[k] = file[k]
  BY DEF Types

LEMMA DiskTypes ==
  ASSUME Types, NEW e \in Editors, JobFits(e),
         \/ Touch(e) \/ CreateTmp(e) \/ Truncate(e) \/ Write(e) \/ WriteFails(e)
         \/ Flush(e) \/ Rename(e)
  PROVE  Types'
<1>1. /\ buf[e] \in BufTypes /\ job[e] \in JobTypes /\ seen \in [Editors -> SUBSET Texts]
      /\ file \in [Inodes -> FileTypes] /\ dir \in [Names -> Inodes \cup {0}]
      /\ buf[e].text \in Texts /\ 0 \in Texts /\ clock \in Times
  BY SizesAssumption DEF Types, BufTypes, Texts
<1>2. job[e].name \in Names
  BY DEF JobFits, Touch, CreateTmp, Truncate, Write, WriteFails, Flush, Rename, At, Resting
<1>3. At(e, "clash") => job[e].ino = 0
  BY DEF JobFits, At
<1>4. job[e].pc \in {"write", "flush", "rename"} => job[e].ino \in Inodes
  BY DEF JobFits, Opened
<1>5. CASE Touch(e)
  <2> DEFINE i == dir[job[e].name]
  <2>1. i \in Inodes /\ clock' \in Times /\ clock' = clock + 1
    BY <1>1, <1>2, <1>5, TickType DEF Touch
  <2>2. file' \in [Inodes -> FileTypes]
    <3>1. [file[i] EXCEPT !.mtime = clock + 1] \in FileTypes
      BY <1>1, <2>1 DEF FileTypes
    <3>2. file' = [file EXCEPT ![i] = [file[i] EXCEPT !.mtime = clock + 1]]
      BY <1>1, <1>5, <2>1 DEF Touch
    <3> QED
      BY <2>1, <3>1, <3>2, PutFile
  <2>3. [buf[e] EXCEPT !.info.mtime = clock + 1, !.sure = @ /\ job[e].held] \in BufTypes
    BY <1>1, <2>1 DEF BufTypes, Stats, JobTypes
  <2> QED
    BY <1>5, <2>1, <2>2, <2>3, SetBufType, SetJobType, IdleType DEF Touch, Types
<1>6. CASE CreateTmp(e)
  <2>1. FreeInode \in Inodes /\ clock' = clock
    BY <1>3, <1>6, FreeInodeIsFree DEF CreateTmp, counters
  <2>2. Written(e, 0, FALSE) \in FileTypes
    BY <1>1, <2>1, WrittenType
  <2>3. [job[e] EXCEPT !.pc = "write", !.st = NoStat, !.ino = FreeInode, !.tmp = TRUE]
          \in JobTypes
    BY <1>1, <2>1, NoBufType DEF JobTypes, Labels
  <2>4. file' \in [Inodes -> FileTypes]
    BY <1>6, <2>1, <2>2, PutFile DEF CreateTmp
  <2> QED
    BY <1>6, <2>3, <2>4, SetJobType DEF CreateTmp, Types, counters
<1>7. CASE Truncate(e)
  <2> DEFINE i == IF dir[job[e].name] = 0 THEN FreeInode ELSE dir[job[e].name]
  <2>1. i \in Inodes /\ clock' \in Times
    BY <1>1, <1>2, <1>3, <1>7, FreeInodeIsFree, TickType DEF Truncate
  <2>2. Written(e, 0, FALSE) \in FileTypes
    BY <1>1, <2>1, WrittenType
  <2>3. [job[e] EXCEPT !.pc = "write", !.st = NoStat, !.ino = i] \in JobTypes
    BY <1>1, <2>1, NoBufType DEF JobTypes, Labels
  <2>4. file' \in [Inodes -> FileTypes]
    BY <1>7, <2>1, <2>2, PutFile DEF Truncate
  <2>5. dir' \in [Names -> Inodes \cup {0}]
    BY <1>1, <1>7, <2>1 DEF Truncate
  <2> QED
    BY <1>7, <2>1, <2>3, <2>4, <2>5, SetJobType DEF Truncate, Types
<1>8. CASE Write(e)
  <2>1. PICK whole \in BOOLEAN :
          file' = [file EXCEPT ![job[e].ino] = Written(e, buf[e].text, whole)]
    BY <1>8 DEF Write
  <2>2. job[e].ino \in Inodes /\ clock' \in Times
    BY <1>4, <1>8, TickType DEF Write, At
  <2>3. Written(e, buf[e].text, whole) \in FileTypes
    BY <1>1, <2>2, WrittenType
  <2>4. file' \in [Inodes -> FileTypes]
    BY <2>1, <2>2, <2>3, PutFile
  <2>5. seen' \in [Editors -> SUBSET Texts]
    BY <1>1, <1>8 DEF Write
  <2> QED
    BY <1>8, <2>2, <2>4, <2>5, GotoType DEF Write, Types, Labels
<1>9. CASE WriteFails(e)
  <2>1. job[e].ino \in Inodes /\ clock' \in Times
    BY <1>4, <1>9, TickType DEF WriteFails, At
  <2>2. Written(e, buf[e].text, FALSE) \in FileTypes
    BY <1>1, <2>1, WrittenType
  <2>3. file' \in [Inodes -> FileTypes]
    BY <1>9, <2>1, <2>2, PutFile DEF WriteFails
  <2> QED
    BY <1>9, <2>1, <2>3, GotoType DEF WriteFails, Types, Labels
<1>10. CASE Flush(e)
  <2> DEFINE i == job[e].ino
  <2>1. i \in Inodes
    BY <1>4, <1>10 DEF Flush, At
  <2>2. [file[i] EXCEPT !.safe = Fsync] \in FileTypes
    BY <1>1, <2>1, FlagsAssumption DEF FileTypes
  <2>3. file' = [file EXCEPT ![i] = [file[i] EXCEPT !.safe = Fsync]]
    BY <1>1, <1>10, <2>1 DEF Flush
  <2>4. file' \in [Inodes -> FileTypes]
    BY <2>1, <2>2, <2>3, PutFile
  <2> QED
    BY <1>10, <2>4, GotoType DEF Flush, Types, Labels, counters
<1>11. CASE Rename(e)
  <2>1. dir' \in [Names -> Inodes \cup {0}]
    BY <1>1, <1>4, <1>11 DEF Rename, At
  <2> QED
    BY <1>11, <2>1, GotoType DEF Rename, Types, Labels, counters
<1> QED
  BY <1>5, <1>6, <1>7, <1>8, <1>9, <1>10, <1>11

LEMMA PowerTypes == ASSUME Types, PowerLoss PROVE Types'
<1>1. file' \in [Inodes -> FileTypes]
  <2>1. \A i \in Inodes : [file[i] EXCEPT !.whole = @ /\ file[i].safe] \in FileTypes
    BY DEF Types, FileTypes
  <2> QED
    BY <2>1 DEF PowerLoss
<1>2. buf' \in [Editors -> BufTypes] /\ seen' \in [Editors -> SUBSET Texts]
  BY NoBufType DEF PowerLoss, Forget, Types
<1>3. [Idle EXCEPT !.pc = "off"] \in JobTypes
  BY IdleType DEF JobTypes, Labels
<1>4. job' \in [Editors -> JobTypes]
  BY <1>3 DEF PowerLoss
<1>5. lock' \in [Names -> Editors \cup {Nobody}]
  BY DEF PowerLoss, Freed, Types
<1> QED
  BY <1>1, <1>2, <1>4, <1>5 DEF PowerLoss, Types

LEMMA StepTypes ==
  ASSUME Types, NEW e \in Editors, JobFits(e), EditorStep(e)
  PROVE  Types'
  BY LoadTypes, SaveTypes, CommandTypes, DiskTypes, FlagsAssumption DEF EditorStep, SaveStep

-----------------------------------------------------------------------------
(* What a step of one editor means to the others *)

LEMMA StatFields ==
  ASSUME NEW n
  PROVE  /\ Stat(n).ino = dir[n]
         /\ Stat(n).mtime = IF dir[n] = 0 THEN 0 ELSE file[dir[n]].mtime
  BY DEF Stat, NoStat

LEMMA EditorFits == ASSUME SaveInv, NEW e \in Editors
  PROVE /\ Types /\ Fits(e) /\ JobFits(e) /\ LockFits(e) /\ InodeFits(e) /\ ContentFits(e)
        /\ buf[e] \in BufTypes /\ job[e] \in JobTypes /\ seen[e] \subseteq Texts
  BY DEF SaveInv, Fits, Types

\* e changes its own variables, and gives and takes only its own locks.
Alone(e) ==
  \A d \in Editors \ {e} :
    /\ UNCHANGED <<buf[d], job[d], seen[d]>>
    /\ \A n \in Names : lock[n] = d => lock'[n] = d

\* No step of e comes near the temporary file of another editor.
Spared(e) ==
  \A d \in Editors \ {e} : IsTmp(d) =>
    /\ file'[job[d].ino] = file[job[d].ino]
    /\ job'[e].ino # job[d].ino
    /\ job[d].pc \in {"flush", "rename"} /\ buf'[e].info.ino = job[d].ino =>
         buf'[e].info.mtime # file[job[d].ino].mtime
    /\ \A n \in Names : dir'[n] # job[d].ino

SameContent(n) ==
  LET f == file[dir[n]]
      g == file'[dir'[n]]
  IN  /\ dir[n] # 0 /\ dir'[n] # 0
      /\ g.whole = f.whole /\ g.text = f.text /\ g.forced = f.forced

\* No Buffer knows the file that is now under n.
Fresh(n) == \A d \in Editors : buf[d].info # Stat(n)'

\* What a step of e does to the file under a name: nothing; or it touches it;
\* or it writes the file that its command is about.
Effect(e, n) ==
  /\ n \in Direct /\ dir[n] # 0 => dir'[n] = dir[n]
  /\ \/ dir[n] = 0 /\ dir'[n] = 0
     \/ SameContent(n) /\ (Stat(n)' = Stat(n) \/ Fresh(n))
     \/ /\ dir'[n] # 0 /\ Fresh(n)
        /\ n = job[e].name /\ job[e].pc \in Opened \cup {"clash"}
        /\ file'[dir'[n]].forced = job[e].force

LEMMA HolderOwnsLock ==
  ASSUME SaveInv, NEW d \in Editors, job[d].pc \notin Resting, Holds(d)
  PROVE  LockFiles /\ lock[job[d].name] = d
  BY EditorFits DEF LockFits, Holds, Own

\* A file that is locked by d is written by others only with -f.
LEMMA LockedContent ==
  ASSUME SaveInv, NEW e \in Editors, NEW d \in Editors \ {e}, NEW n \in Names,
         LockFiles, lock[n] = d, Effect(e, n), dir'[n] # 0
  PROVE  file'[dir'[n]].forced \/ SameContent(n)
<1> SUFFICES ASSUME n = job[e].name, job[e].pc \in Opened \cup {"clash"}, ~job[e].force
             PROVE  FALSE
  BY EditorFits DEF Effect, JobTypes
<1>1. Holds(e) /\ job[e].pc \notin Resting
  BY EditorFits DEF LockFits, Opened, Resting
<1> QED
  BY <1>1, HolderOwnsLock

LEMMA AgreesStays ==
  ASSUME NEW d, NEW n, NEW t, UNCHANGED seen[d],
         \/ file'[dir'[n]].forced
         \/ SameContent(n) /\ Agrees(d, n, t)
  PROVE  Agrees(d, n, t)'
  BY DEF Agrees, Known, SameContent

LEMMA KnownStays ==
  ASSUME NEW d, NEW n, UNCHANGED seen[d],
         \/ file'[dir'[n]].forced
         \/ SameContent(n) /\ Known(d, file[dir[n]])
  PROVE  Known(d, file[dir[n]])'
  BY DEF Known, SameContent

LEMMA OthersContent ==
  ASSUME SaveInv, Types', NEW e \in Editors, Alone(e), \A n \in Names : Effect(e, n),
         NEW d \in Editors \ {e}
  PROVE  ContentFits(d)'
<1> DEFINE j == job[d]  b == buf[d]
<1>1. /\ Types /\ JobFits(d) /\ LockFits(d) /\ InodeFits(d) /\ ContentFits(d)
      /\ b \in BufTypes /\ j \in JobTypes
      /\ UNCHANGED <<buf[d], job[d], seen[d]>>
  BY EditorFits DEF Alone
<1>2. ASSUME NEW n \in Names, NEW t, lock[n] = d, LockFiles, dir'[n] # 0,
             dir[n] # 0 => Agrees(d, n, t)
      PROVE  Agrees(d, n, t)'
  BY <1>1, <1>2, LockedContent, AgreesStays DEF SameContent
<1>3. ASSUME NEW n \in Names, lock[n] = d, LockFiles, dir'[n] # 0,
             dir[n] # 0 => Known(d, file[dir[n]])
      PROVE  Known(d, file[dir[n]])'
  BY <1>1, <1>3, LockedContent, KnownStays DEF SameContent
<1>4. ASSUME NEW n, NEW t, n = b.name, t = b.saved, b.sure, Current(d)', j.pc # "read"
      PROVE  Agrees(d, n, t)'
  <2>1. n \in Names /\ b.info = Stat(n)' /\ b.info # NoStat
    BY <1>1, <1>4 DEF Current, BufTypes
  <2>2. SameContent(n) /\ Stat(n)' = Stat(n)
    BY <2>1 DEF Effect, Fresh, Stat
  <2>3. Agrees(d, n, t)
    BY <1>1, <1>4, <2>1, <2>2 DEF ContentFits, Current
  <2> QED
    BY <1>1, <2>2, <2>3, AgreesStays
<1>5. Guards(d)' <=> Guards(d)
  BY <1>1 DEF Guards, Holds, Own
<1>6. Guards(d) => j.name \in Names /\ LockFiles /\ lock[j.name] = d
  BY <1>1, HolderOwnsLock DEF Guards, JobFits, Opened, Resting
<1>7. ASSUME NEW n, NEW t, n = j.name, t = b.text, Guards(d), ~j.tmp, j.pc \in Opened
      PROVE  Agrees(d, n, t)'
  <2>1. n \in Direct /\ j.ino \in Inodes /\ dir[n] = j.ino
    BY <1>1, <1>7 DEF JobFits, InodeFits
  <2>2. n \in Names /\ dir[n] # 0 /\ dir'[n] # 0
    BY <1>6, <1>7, <2>1, ZeroIsNoInode DEF Effect
  <2>3. Agrees(d, n, t)
    BY <1>1, <1>7 DEF ContentFits
  <2> QED
    BY <1>2, <1>6, <1>7, <2>2, <2>3
<1>8. ASSUME NEW n, NEW t, n = j.name, t = b.text, Guards(d), j.pc = "done"
      PROVE  Agrees(d, n, t)'
  <2>1. dir[n] # 0 /\ Agrees(d, n, t)
    BY <1>1, <1>8 DEF InodeFits, ContentFits
  <2>2. n \in Names /\ dir'[n] # 0
    BY <1>6, <1>8, <2>1 DEF Effect, SameContent
  <2> QED
    BY <1>2, <1>6, <1>8, <2>1, <2>2
<1>9. j.held => j.name \in Names /\ LockFiles /\ lock[j.name] = d
  BY <1>1 DEF JobFits, LockFits
<1>10. ASSUME NEW n, NEW t, n = j.name, t = b.saved, j.pc = "clash", j.held, b.sure,
              j.st = b.info, dir'[n] # 0
       PROVE  Agrees(d, n, t)'
  <2>1. dir[n] # 0 => Agrees(d, n, t)
    BY <1>1, <1>10 DEF ContentFits
  <2> QED
    BY <1>2, <1>9, <1>10, <2>1
<1>11. ASSUME NEW n, n = j.name, j.held, ~j.force, b.sure,
              j.pc \in {"clash", "write", "flush", "rename"}, dir'[n] # 0
       PROVE  Known(d, file[dir[n]])'
  <2>1. dir[n] # 0 => Known(d, file[dir[n]])
    BY <1>1, <1>11 DEF ContentFits
  <2> QED
    BY <1>3, <1>9, <1>11, <2>1
<1> QED
  BY <1>1, <1>4, <1>5, <1>7, <1>8, <1>10, <1>11 DEF ContentFits, Agrees, Known

LEMMA OthersFit ==
  ASSUME SaveInv, Types', NEW e \in Editors, Alone(e), Spared(e),
         \A n \in Names : Effect(e, n)
  PROVE  \A d \in Editors \ {e} : Fits(d)'
<1> SUFFICES ASSUME NEW d \in Editors \ {e} PROVE Fits(d)'
  OBVIOUS
<1>1. /\ Types /\ JobFits(d) /\ LockFits(d) /\ InodeFits(d)
      /\ buf[d] \in BufTypes /\ job[d] \in JobTypes
      /\ UNCHANGED <<buf[d], job[d], seen[d]>>
      /\ \A n \in Names : lock[n] = d => lock'[n] = d
  BY EditorFits DEF Alone
<1>2. JobFits(d)'
  BY <1>1 DEF JobFits
<1>3. LockFits(d)'
  <2>1. buf[d].locked => buf[d].name \in Names
    BY <1>1 DEF JobFits
  <2>2. job[d].new => job[d].name \in Names
    BY <1>1 DEF JobFits
  <2> QED
    BY <1>1, <2>1, <2>2 DEF LockFits, Holds, Own
<1>4. InodeFits(d)'
  <2>1. IsTmp(d)' <=> IsTmp(d)
    BY <1>1 DEF IsTmp
  <2>2. IsTmp(d) => \A c \in Editors \ {d} : job'[c].ino # job[d].ino
    BY <1>1 DEF InodeFits, Spared, Alone
  <2>3. IsTmp(d) => \A n \in Names : dir'[n] # job[d].ino
    BY DEF Spared
  <2>4. IsTmp(d) /\ job[d].pc \in {"flush", "rename"} =>
          \A c \in Editors : buf'[c].info.ino = job[d].ino
                               => buf'[c].info.mtime # file'[job[d].ino].mtime
    BY <1>1 DEF InodeFits, Spared, Alone
  <2>5. job[d].pc \in Opened /\ ~job[d].tmp => dir'[job[d].name] = job[d].ino
    <3> SUFFICES ASSUME job[d].pc \in Opened, ~job[d].tmp
                 PROVE  dir'[job[d].name] = job[d].ino
      OBVIOUS
    <3>1. job[d].name \in Direct \cap Names /\ job[d].ino \in Inodes
            /\ dir[job[d].name] = job[d].ino
      BY <1>1 DEF JobFits, InodeFits, Opened, Resting
    <3> QED
      BY <3>1, ZeroIsNoInode DEF Effect
  <2>6. job[d].pc = "done" => dir'[job[d].name] # 0
    <3> SUFFICES ASSUME job[d].pc = "done" PROVE dir'[job[d].name] # 0
      OBVIOUS
    <3>1. job[d].name \in Names /\ dir[job[d].name] # 0
      BY <1>1 DEF JobFits, InodeFits, Resting
    <3> QED
      BY <3>1 DEF Effect, SameContent
  <2>7. IsTmp(d) => file'[job[d].ino] = file[job[d].ino]
    BY DEF Spared
  <2> QED
    BY <1>1, <2>1, <2>2, <2>3, <2>4, <2>5, <2>6, <2>7 DEF InodeFits
<1> QED
  BY <1>2, <1>3, <1>4, OthersContent DEF Fits

\* The steps that leave files and names alone
LEMMA QuietStep ==
  ASSUME SaveInv, Types', NEW e \in Editors, Alone(e), UNCHANGED <<diskVars, clock>>,
         ~At(e, "off"),
         \/ job'[e].ino \in {0, job[e].ino}
         \/ \E n \in Names : job'[e].ino = dir[n],
         \/ buf'[e].info \in {NoStat, buf[e].info}
         \/ \E n \in Names : buf'[e].info = Stat(n),
         Fits(e)'
  PROVE  SaveInv'
<1>1. Types /\ Linked
  BY DEF SaveInv
<1>2. file' = file /\ dir' = dir /\ clock' = clock
  BY DEF diskVars
<1>3. \A n \in Names : Effect(e, n)
  BY <1>2 DEF Effect, SameContent, Stat
<1>4. ASSUME NEW d \in Editors \ {e}, IsTmp(d) PROVE job'[e].ino # job[d].ino
  BY <1>4, EditorFits, ZeroIsNoInode DEF InodeFits, JobFits, IsTmp, Pending, Opened
<1>5. ASSUME NEW d \in Editors \ {e}, IsTmp(d), job[d].pc \in {"flush", "rename"},
             buf'[e].info.ino = job[d].ino
      PROVE  buf'[e].info.mtime # file[job[d].ino].mtime
  <2>1. job[d].ino # 0 /\ \A n \in Names : dir[n] # job[d].ino
    BY <1>5, EditorFits, ZeroIsNoInode DEF InodeFits, JobFits, Opened
  <2>2. buf'[e].info = buf[e].info
    <3>1. NoStat.ino = 0
      BY DEF NoStat
    <3> QED
      BY <1>5, <2>1, <3>1, StatFields
  <2> QED
    BY <1>5, <2>2, EditorFits DEF InodeFits
<1>6. ASSUME NEW d \in Editors \ {e}, IsTmp(d), NEW n \in Names PROVE dir[n] # job[d].ino
  BY <1>6, EditorFits DEF InodeFits
<1>7. Spared(e)
  BY <1>2, <1>4, <1>5, <1>6 DEF Spared
<1>8. Linked'
  <2>1. buf'[e].info.mtime <= clock
    <3>1. NoStat.mtime = 0 /\ 0 <= clock
      BY <1>1, SizesAssumption DEF NoStat, Types, Times
    <3>2. \A n \in Names : Stat(n).mtime <= clock
      BY <1>1, <3>1, StatFields DEF Linked, Types
    <3> QED
      BY <1>1, <3>1, <3>2 DEF Linked
  <2>2. \A d \in Editors : buf'[d].info.mtime <= clock
    BY <1>1, <2>1 DEF Linked, Alone
  <2> QED
    BY <1>1, <1>2, <2>2 DEF Linked
<1>9. RenamedIsWhole'
  BY <1>2 DEF SaveInv, RenamedIsWhole
<1> QED
  BY <1>3, <1>7, <1>8, <1>9, OthersFit DEF SaveInv

-----------------------------------------------------------------------------
(* The steps that leave files and names alone *)

KnowsFile(e) == buf[e].sure /\ Current(e) => Agrees(e, buf[e].name, buf[e].saved)

LEMMA QuietKnows ==
  ASSUME SaveInv, NEW e \in Editors, UNCHANGED diskVars, job[e].pc # "read",
         UNCHANGED <<buf[e].name, buf[e].info, buf[e].saved>>,
         buf'[e].sure => buf[e].sure, seen[e] \subseteq seen'[e]
  PROVE  KnowsFile(e)'
<1>1. UNCHANGED <<file, dir>>
  BY DEF diskVars
<1>2. SUFFICES ASSUME NEW n, NEW t, n = buf[e].name, t = buf[e].saved, buf[e].sure, Current(e)
               PROVE  Agrees(e, n, t)'
  BY <1>1 DEF KnowsFile, Current, Stat, Agrees, Known
<1>3. Agrees(e, n, t)
  BY <1>2, EditorFits DEF ContentFits
<1> QED
  BY <1>1, <1>3 DEF Agrees, Known

\* A command has come to its end.
LEMMA RestFits ==
  ASSUME NEW e, job'[e].pc = "idle", job'[e].ino = 0,
         ~job'[e].new, ~job'[e].held, ~job'[e].tmp,
         buf'[e].locked => /\ buf'[e].name \in Names
                           /\ LockFiles /\ lock'[buf'[e].name] = e,
         KnowsFile(e)'
  PROVE  Fits(e)'
<1>1. JobFits(e)'
  BY DEF JobFits, Resting, Opened
<1>2. LockFits(e)'
  BY DEF LockFits, Opened
<1>3. InodeFits(e)'
  BY DEF InodeFits, IsTmp, Opened
<1>4. ContentFits(e)'
  BY DEF ContentFits, Guards, Opened, KnowsFile
<1> QED
  BY <1>1, <1>2, <1>3, <1>4 DEF Fits

LEMMA IdleFits ==
  ASSUME NEW e, job'[e] = Idle,
         buf'[e].locked => /\ buf'[e].name \in Names
                           /\ LockFiles /\ lock'[buf'[e].name] = e,
         KnowsFile(e)'
  PROVE  Fits(e)'
  BY RestFits DEF Idle

LEMMA NoBufFits ==
  ASSUME NEW e, job'[e] = Idle, buf'[e] = NoBuf
  PROVE  Fits(e)'
  BY IdleFits DEF NoBuf, KnowsFile

LEMMA ForgetOne ==
  ASSUME Types, NEW e, Forget({e})
  PROVE  \A d \in Editors \ {e} : seen'[d] = seen[d]
  BY DEF Forget, Types

LEMMA OpenStep ==
  ASSUME SaveInv, Types', NEW e \in Editors, NEW n \in Names, Open(e, n)
  PROVE  SaveInv'
<1> DEFINE pc == IF dir[n] # 0 THEN "read" ELSE "hold"
           j == [Idle EXCEPT !.pc = pc, !.name = n, !.ino = dir[n]]
           b == [NoBuf EXCEPT !.name = n, !.info = Stat(n), !.sure = TRUE]
<1>1. /\ job' = [job EXCEPT ![e] = j] /\ buf' = [buf EXCEPT ![e] = b]
      /\ UNCHANGED <<diskVars, lock, counters, seen>> /\ At(e, "idle")
  BY DEF Open, SetJob, SetBuf
<1>2. /\ job'[e] = j /\ buf'[e] = b /\ UNCHANGED <<file, dir>>
      /\ \A d \in Editors \ {e} : job'[d] = job[d] /\ buf'[d] = buf[d]
  BY <1>1 DEF SaveInv, Types, diskVars
<1>3. /\ j.pc = pc /\ j.name = n /\ j.ino = dir[n] /\ ~j.new /\ ~j.held /\ ~j.tmp
      /\ b.name = n /\ b.info = Stat(n) /\ ~b.locked
  BY DEF Idle, NoBuf
<1> HIDE DEF j, b
<1>4. Alone(e)
  BY <1>1, <1>2 DEF Alone
<1>5. JobFits(e)'
  <2>1. dir[n] \in Inodes \cup {0} /\ Stat(n).ino = dir[n]
    BY StatFields DEF SaveInv, Types
  <2> QED
    BY <1>2, <1>3, <2>1 DEF JobFits, Resting, Opened
<1>6. LockFits(e)'
  BY <1>2, <1>3 DEF LockFits, Opened
<1>7. InodeFits(e)'
  BY <1>2, <1>3 DEF InodeFits, IsTmp, Opened
<1>8. ContentFits(e)'
  <2>1. dir[n] = 0 => ~Current(e)'
    BY <1>2, <1>3 DEF Current, Stat
  <2> QED
    BY <1>2, <1>3, <2>1 DEF ContentFits, Guards, Opened
<1>9. Fits(e)'
  BY <1>5, <1>6, <1>7, <1>8 DEF Fits
<1> QED
  BY <1>1, <1>2, <1>3, <1>4, <1>9, QuietStep DEF At, counters

LEMMA ReadStep ==
  ASSUME SaveInv, Types', NEW e \in Editors, Read(e)
  PROVE  SaveInv'
<1> DEFINE j == [job[e] EXCEPT !.pc = "hold", !.ino = 0]
           b == [buf[e] EXCEPT !.text = Got(e), !.saved = Got(e)]
<1>1. /\ job' = [job EXCEPT ![e] = j] /\ buf' = [buf EXCEPT ![e] = b]
      /\ UNCHANGED <<diskVars, lock, clock>> /\ At(e, "read")
      /\ seen' = [seen EXCEPT ![e] = @ \cup {Got(e)}]
  BY DEF Read, SetJob, SetBuf
<1>2. /\ job'[e] = j /\ buf'[e] = b /\ UNCHANGED <<file, dir>>
      /\ seen'[e] = seen[e] \cup {Got(e)}
      /\ \A d \in Editors \ {e} : job'[d] = job[d] /\ buf'[d] = buf[d] /\ seen'[d] = seen[d]
      /\ job[e] \in JobTypes /\ buf[e] \in BufTypes
      /\ JobFits(e) /\ RenamedIsWhole
  BY <1>1, EditorFits DEF SaveInv, Types, diskVars
<1>3. /\ j.pc = "hold" /\ j.name = job[e].name /\ j.ino = 0
      /\ j.new = job[e].new /\ j.held = job[e].held /\ j.tmp = job[e].tmp
      /\ b.name = buf[e].name /\ b.info = buf[e].info /\ b.locked = buf[e].locked
      /\ b.saved = Got(e)
  BY <1>2 DEF JobTypes, BufTypes
<1> HIDE DEF j, b
<1>4. Alone(e)
  BY <1>1, <1>2 DEF Alone
<1>5. JobFits(e)'
  BY <1>1, <1>2, <1>3 DEF JobFits, Resting, Opened, At
<1>6. LockFits(e)'
  BY <1>1, <1>2, <1>3 DEF LockFits, Opened, JobFits, Resting, At
<1>7. InodeFits(e)'
  BY <1>1, <1>2, <1>3 DEF InodeFits, IsTmp, Opened, JobFits, At
<1>8. KnowsFile(e)'
  <2> DEFINE i == job[e].ino
             f == file[i]
  <2> SUFFICES ASSUME Current(e)', NEW n, NEW t, n = buf[e].name, t = Got(e)
               PROVE  Agrees(e, n, t)'
    BY <1>2, <1>3 DEF KnowsFile, Agrees, Known
  <2>1. dir[n] = i /\ i # 0 /\ n \in Names
    <3>1. buf[e].info = Stat(n) /\ n \in Names
      BY <1>2, <1>3 DEF Current, Stat, BufTypes
    <3>2. buf[e].info.ino = i /\ i \in Inodes
      BY <1>1, <1>2 DEF JobFits, At
    <3> QED
      BY <3>1, <3>2, StatFields, ZeroIsNoInode
  <2>2. CASE f.whole
    BY <1>2, <2>1, <2>2 DEF Agrees, Known, Got
  <2>3. CASE ~f.whole
    <3>1. n \in Direct
      BY <1>1, <1>2, <2>1, <2>3 DEF RenamedIsWhole, At
    <3> QED
      BY <1>2, <2>1, <2>3, <3>1 DEF Agrees, Known
  <2> QED
    BY <2>2, <2>3
<1>9. ContentFits(e)'
  <2>1. ~job[e].held
    BY <1>1, <1>2 DEF JobFits, At
  <2> QED
    BY <1>2, <1>3, <1>8, <2>1 DEF ContentFits, Guards, Opened, KnowsFile
<1>10. Fits(e)'
  BY <1>5, <1>6, <1>7, <1>9 DEF Fits
<1> QED
  BY <1>1, <1>2, <1>3, <1>4, <1>10, QuietStep DEF At

LEMMA LoadStep ==
  ASSUME SaveInv, Types', NEW e \in Editors,
         \/ LoadFails(e) \/ Hold(e) \/ Edit(e) \/ Undo(e) \/ Close(e) \/ Crash(e)
  PROVE  SaveInv'
<1>1. /\ Types /\ buf[e] \in BufTypes /\ job[e] \in JobTypes
      /\ JobFits(e) /\ LockFits(e)
      /\ UNCHANGED <<diskVars, clock>>
  BY EditorFits
  DEF LoadFails, Hold, Edit, Undo, Close, Crash, counters
<1>2. NoBuf.info = NoStat /\ Idle.ino = 0
  BY DEF NoBuf, Idle
<1>3. CASE LoadFails(e)
  <2>1. buf'[e] = NoBuf /\ job'[e] = Idle /\ Alone(e)
    BY <1>1, <1>3, NoBufType, IdleType, SetBufType, SetJobType, ForgetOne DEF LoadFails, Alone
  <2>2. ~At(e, "off")
    BY <1>3 DEF LoadFails, At
  <2> QED
    BY <1>1, <1>2, <2>1, <2>2, NoBufFits, QuietStep
<1>4. CASE Close(e)
  <2>1. /\ buf'[e] = NoBuf /\ job' = job
        /\ \A d \in Editors \ {e} : buf'[d] = buf[d] /\ seen'[d] = seen[d]
    BY <1>1, <1>4, NoBufType, SetBufType, ForgetOne DEF Close
  <2>2. Alone(e)
    BY <1>1, <1>4, <2>1, NamesAssumption DEF Close, Alone, LockFits, Types
  <2>3. job[e].pc = "idle" /\ ~At(e, "off")
    BY <1>4 DEF Close, At
  <2>4. Fits(e)'
    BY <1>1, <2>1, <2>3, RestFits DEF JobFits, Resting, Opened, NoBuf, KnowsFile
  <2> QED
    BY <1>1, <1>2, <2>1, <2>2, <2>3, <2>4, QuietStep
<1>5. CASE Crash(e)
  <2>1. /\ buf'[e] = NoBuf /\ job'[e] = Idle
        /\ \A d \in Editors \ {e} : buf'[d] = buf[d] /\ seen'[d] = seen[d] /\ job'[d] = job[d]
    BY <1>1, <1>5, NoBufType, IdleType, SetBufType, SetJobType, ForgetOne DEF Crash
  <2>2. Alone(e)
    BY <1>1, <1>5, <2>1 DEF Crash, Alone, Freed
  <2>3. ~At(e, "off")
    BY <1>1, <1>5 DEF Crash, At, JobFits
  <2> QED
    BY <1>1, <1>2, <2>1, <2>2, <2>3, NoBufFits, QuietStep
<1>6. CASE Hold(e)
  <2> DEFINE n == job[e].name
             free == LockFiles /\ lock[n] = Nobody
             b == [buf[e] EXCEPT !.locked = free, !.readonly = LockFiles /\ ~free]
  <2>1. b \in BufTypes /\ SetBuf(e, b) /\ SetJob(e, Idle) /\ seen' = seen /\ At(e, "hold")
        /\ lock' = IF free THEN [lock EXCEPT ![n] = e] ELSE lock
    <3>1. b \in BufTypes
      BY <1>1 DEF BufTypes
    <3> QED
      BY <1>6, <3>1 DEF Hold
  <2>2. /\ buf'[e] = b /\ job'[e] = Idle
        /\ \A d \in Editors \ {e} : buf'[d] = buf[d] /\ job'[d] = job[d]
    BY <1>1, <2>1, IdleType, SetBufType, SetJobType
  <2>3. Alone(e)
    BY <1>1, <2>1, <2>2, NamesAssumption DEF Alone, Types
  <2>4. /\ b.name = buf[e].name /\ b.info = buf[e].info /\ b.saved = buf[e].saved
        /\ b.sure = buf[e].sure /\ b.locked = free
    BY <1>1 DEF BufTypes
  <2>5. n = buf[e].name /\ n \in Names
    BY <1>1, <2>1 DEF JobFits, At, Resting
  <2>6. KnowsFile(e)'
    BY <1>1, <2>1, <2>2, <2>4, QuietKnows DEF At
  <2>7. free => LockFiles /\ lock'[n] = e
    BY <1>1, <2>1, <2>5 DEF Types
  <2> HIDE DEF b, free
  <2>8. Fits(e)'
    BY <2>2, <2>4, <2>5, <2>6, <2>7, IdleFits
  <2> QED
    BY <1>1, <1>2, <2>1, <2>2, <2>3, <2>4, <2>8, QuietStep DEF At
<1>7. CASE Edit(e) \/ Undo(e)
  <2> DEFINE t == IF Edit(e) THEN texts + 1 ELSE buf[e].saved
             b == [buf[e] EXCEPT !.text = t]
  <2>1. /\ buf' = [buf EXCEPT ![e] = b] /\ UNCHANGED <<lock, job, seen>> /\ At(e, "idle")
    BY <1>7 DEF Edit, Undo, SetBuf
  <2>2. /\ buf'[e] = b
        /\ \A d \in Editors \ {e} : buf'[d] = buf[d]
    BY <1>1, <2>1 DEF Types
  <2>3. Alone(e)
    BY <2>1, <2>2 DEF Alone
  <2>4. /\ b.name = buf[e].name /\ b.info = buf[e].info /\ b.saved = buf[e].saved
        /\ b.sure = buf[e].sure /\ b.locked = buf[e].locked
    BY <1>1 DEF BufTypes
  <2> HIDE DEF b, t
  <2>5. KnowsFile(e)'
    BY <1>1, <2>1, <2>2, <2>4, QuietKnows DEF At
  <2>6. Fits(e)'
    BY <1>1, <2>1, <2>2, <2>4, <2>5, RestFits DEF JobFits, LockFits, Resting, Opened, At
  <2> QED
    BY <1>1, <2>1, <2>2, <2>3, <2>4, <2>6, QuietStep DEF At
<1> QED
  BY <1>3, <1>4, <1>5, <1>6, <1>7

LEMMA SaveStarts ==
  ASSUME SaveInv, Types', NEW e \in Editors, NEW n \in Names, NEW force \in BOOLEAN,
         Save(e, n, force)
  PROVE  SaveInv'
<1> DEFINE pc == IF NeedsLock(e, n) THEN "lock" ELSE "clash"
           j == [Idle EXCEPT !.pc = pc, !.name = n, !.force = force, !.st = Stat(n),
                             !.held = buf[e].locked /\ n = buf[e].name]
<1>1. /\ job' = [job EXCEPT ![e] = j] /\ UNCHANGED <<diskVars, lock, buf, counters, seen>>
      /\ At(e, "idle") /\ buf[e].name # NoName
      /\ n = buf[e].name /\ ~force => Stat(n) \in {NoStat, buf[e].info}
  BY DEF Save, StartSave, SetJob
<1>2. /\ job'[e] = j /\ UNCHANGED <<file, dir>>
      /\ \A d \in Editors \ {e} : job'[d] = job[d]
      /\ JobFits(e) /\ LockFits(e) /\ ContentFits(e) /\ buf[e] \in BufTypes
  BY <1>1, EditorFits DEF SaveInv, Types, diskVars
<1>3. /\ j.pc = pc /\ j.name = n /\ j.force = force /\ j.st = Stat(n) /\ j.ino = 0
      /\ ~j.new /\ ~j.tmp
      /\ j.held <=> buf[e].locked /\ n = buf[e].name
  BY DEF Idle
<1>4. pc \in {"lock", "clash"} /\ (pc = "lock" => ~j.held)
      /\ (pc = "clash" /\ LockFiles => j.held) /\ (pc = "lock" => LockFiles)
  BY <1>3 DEF NeedsLock
<1> HIDE DEF pc, j
<1>5. Alone(e)
  BY <1>1, <1>2 DEF Alone
<1>6. JobFits(e)'
  BY <1>1, <1>2, <1>3, <1>4 DEF JobFits, Resting, Opened, BufTypes
<1>7. LockFits(e)'
  BY <1>1, <1>2, <1>3, <1>4 DEF LockFits, Holds, Own, Opened
<1>8. InodeFits(e)'
  BY <1>2, <1>3, <1>4 DEF InodeFits, IsTmp, Opened
<1>9. ContentFits(e)'
  <2>1. KnowsFile(e)'
    BY <1>1, QuietKnows DEF At
  <2>2. buf[e].sure /\ j.held /\ Stat(n) = buf[e].info /\ dir[n] # 0
          => Agrees(e, n, buf[e].saved)
    <3>1. Stat(n) = buf[e].info /\ dir[n] # 0 => buf[e].info # NoStat
      BY StatFields DEF NoStat
    <3> QED
      BY <1>1, <1>2, <1>3, <3>1 DEF ContentFits, Current, At
  <2>3. j.held /\ ~force /\ dir[n] # 0 => Stat(n) = buf[e].info
    <3>1. dir[n] # 0 => Stat(n) # NoStat
      BY StatFields DEF NoStat
    <3> QED
      BY <1>1, <1>3, <3>1
  <2> QED
    BY <1>1, <1>2, <1>3, <1>4, <2>1, <2>2, <2>3
    DEF ContentFits, KnowsFile, Guards, Opened, Agrees, Known
<1>10. Fits(e)'
  BY <1>6, <1>7, <1>8, <1>9 DEF Fits
<1> QED
  BY <1>1, <1>2, <1>3, <1>5, <1>10, QuietStep DEF At, counters

LEMMA LockStep ==
  ASSUME SaveInv, Types', NEW e \in Editors, Lock(e)
  PROVE  SaveInv'
<1> DEFINE n == job[e].name
           got == lock[n] \in {Nobody, e}
           b == [buf[e] EXCEPT !.locked = @ \/ (got /\ Own(e))]
           j == [job[e] EXCEPT !.pc = "clash", !.new = got /\ ~Own(e)]
<1>1. /\ job' = [job EXCEPT ![e] = j] /\ buf' = [buf EXCEPT ![e] = b]
      /\ UNCHANGED <<diskVars, counters, seen>> /\ At(e, "lock") /\ (got \/ job[e].force)
      /\ lock' = IF got THEN [lock EXCEPT ![n] = e] ELSE lock
  BY DEF Lock, SetJob, SetBuf
<1>2. /\ job'[e] = j /\ buf'[e] = b /\ UNCHANGED <<file, dir>>
      /\ \A d \in Editors \ {e} : job'[d] = job[d] /\ buf'[d] = buf[d]
      /\ JobFits(e) /\ LockFits(e) /\ ContentFits(e) /\ buf[e] \in BufTypes
      /\ job[e] \in JobTypes /\ Types
  BY <1>1, EditorFits DEF SaveInv, Types, diskVars
<1>3. /\ j.pc = "clash" /\ j.name = n /\ j.force = job[e].force /\ j.st = job[e].st
      /\ j.ino = 0 /\ ~j.tmp /\ ~j.held /\ (j.new <=> got /\ n # buf[e].name)
      /\ b.name = buf[e].name /\ b.info = buf[e].info /\ b.saved = buf[e].saved
      /\ b.sure = buf[e].sure /\ (b.locked <=> buf[e].locked \/ (got /\ n = buf[e].name))
      /\ n \in Names /\ buf[e].name \in Names
  BY <1>1, <1>2 DEF JobTypes, BufTypes, Own, At, JobFits, Opened, Resting
<1>4. /\ \A m \in Names : lock[m] \in Editors \ {e} => lock'[m] = lock[m]
      /\ got => lock'[n] = e
      /\ \A m \in Names : lock[m] = e => lock'[m] = e
  BY <1>1, <1>2, <1>3, NamesAssumption DEF Types
<1>11. LockFiles
  BY <1>1, <1>2 DEF LockFits, At
<1> HIDE DEF got, j, b, n
<1>5. Alone(e)
  BY <1>1, <1>2, <1>4 DEF Alone
<1>6. JobFits(e)'
  BY <1>1, <1>2, <1>3 DEF JobFits, Resting, Opened, At
<1>7. LockFits(e)'
  BY <1>1, <1>2, <1>3, <1>4, <1>11 DEF LockFits, Holds, Own
<1>8. InodeFits(e)'
  BY <1>2, <1>3 DEF InodeFits, IsTmp, Opened
<1>9. ContentFits(e)'
  <2>1. KnowsFile(e)'
    BY <1>1, <1>2, <1>3, QuietKnows DEF At
  <2> QED
    BY <1>2, <1>3, <2>1 DEF ContentFits, KnowsFile, Opened
<1>10. Fits(e)'
  BY <1>6, <1>7, <1>8, <1>9 DEF Fits
<1> QED
  BY <1>1, <1>2, <1>3, <1>5, <1>10, QuietStep DEF At, counters

LEMMA FailEffect ==
  ASSUME SaveInv, NEW e \in Editors, Fail(e)
  PROVE  /\ job'[e] = Idle /\ \A d \in Editors \ {e} : job'[d] = job[d]
         /\ \A n \in Names, d \in Editors \ {e} : lock[n] = d => lock'[n] = d
         /\ buf[e].locked => buf[e].name \in Names /\ LockFiles /\ lock'[buf[e].name] = e
<1>1. Types /\ JobFits(e) /\ LockFits(e)
  BY EditorFits
<1>2. job'[e] = Idle /\ \A d \in Editors \ {e} : job'[d] = job[d]
  BY <1>1, FailType
<1>3. CASE job[e].new
  <2>1. job[e].name \in Names /\ lock[job[e].name] = e /\ job[e].name # buf[e].name
    BY <1>1, <1>3 DEF JobFits, LockFits
  <2>2. lock' = [lock EXCEPT ![job[e].name] = Nobody]
    BY <1>3 DEF Fail
  <2> QED
    BY <1>1, <1>2, <2>1, <2>2 DEF JobFits, LockFits, Types
<1>4. CASE ~job[e].new
  BY <1>1, <1>2, <1>4 DEF Fail, JobFits, LockFits
<1> QED
  BY <1>3, <1>4

LEMMA FailStep ==
  ASSUME SaveInv, Types', NEW e \in Editors,
         \/ CannotLock(e) \/ Clash(e) \/ OpenFails(e) \/ KeepAsIs(e)
  PROVE  SaveInv'
<1>1. /\ JobFits(e) /\ LockFits(e) /\ UNCHANGED <<diskVars, buf, counters, seen>> /\ clock' = clock
      /\ job[e].pc \in {"lock", "clash"}
  BY EditorFits DEF CannotLock, Clash, OpenFails, KeepAsIs, At, counters
<1>2. /\ job'[e] = Idle /\ \A d \in Editors \ {e} : job'[d] = job[d]
      /\ \A n \in Names, d \in Editors \ {e} : lock[n] = d => lock'[n] = d
      /\ buf[e].locked => buf[e].name \in Names /\ LockFiles /\ lock'[buf[e].name] = e
  <2>1. CASE KeepAsIs(e)
    BY <1>1, <2>1, SetJobType, IdleType DEF KeepAsIs, JobFits, LockFits, SaveInv
  <2> QED
    BY <2>1, FailEffect DEF CannotLock, Clash, OpenFails
<1>3. Alone(e)
  BY <1>1, <1>2 DEF Alone
<1>4. KnowsFile(e)'
  BY <1>1, QuietKnows
<1>5. Fits(e)'
  BY <1>1, <1>2, <1>4, IdleFits
<1> QED
  BY <1>1, <1>2, <1>3, <1>5, QuietStep DEF At, Idle

LEMMA LaterFailsStep ==
  ASSUME SaveInv, Types', NEW e \in Editors, LaterFails(e)
  PROVE  SaveInv'
<1> DEFINE j == [job[e] EXCEPT !.pc = "undo"]
<1>1. /\ job' = [job EXCEPT ![e] = j] /\ job[e].pc \in {"flush", "rename"}
      /\ UNCHANGED <<diskVars, lock, buf, counters, seen>>
  BY DEF LaterFails, Goto, SetJob
<1>2. /\ job'[e] = j /\ UNCHANGED <<file, dir>>
      /\ \A d \in Editors \ {e} : job'[d] = job[d]
      /\ JobFits(e) /\ LockFits(e) /\ InodeFits(e) /\ ContentFits(e) /\ job[e] \in JobTypes
  BY <1>1, EditorFits DEF SaveInv, Types, diskVars
<1>3. /\ j.pc = "undo" /\ j.name = job[e].name /\ j.force = job[e].force /\ j.ino = job[e].ino
      /\ j.new = job[e].new /\ j.tmp = job[e].tmp /\ j.held = job[e].held
  BY <1>2 DEF JobTypes
<1> HIDE DEF j
<1>4. Alone(e)
  BY <1>1, <1>2 DEF Alone
<1>5. JobFits(e)'
  BY <1>1, <1>2, <1>3 DEF JobFits, Resting, Opened
<1>6. LockFits(e)'
  BY <1>1, <1>2, <1>3 DEF LockFits, Holds, Own, Opened
<1>7. InodeFits(e)'
  BY <1>1, <1>2, <1>3 DEF InodeFits, IsTmp, Opened, Pending
<1>8. ContentFits(e)'
  <2>1. KnowsFile(e)'
    BY <1>1, QuietKnows
  <2> QED
    BY <1>1, <1>2, <1>3, <2>1
    DEF ContentFits, KnowsFile, Guards, Holds, Own, Opened, Agrees, Known
<1>9. Fits(e)'
  BY <1>5, <1>6, <1>7, <1>8 DEF Fits
<1> QED
  BY <1>1, <1>2, <1>3, <1>4, <1>9, QuietStep DEF At, counters

LEMMA UndoneStep ==
  ASSUME SaveInv, Types', NEW e \in Editors, Undone(e)
  PROVE  SaveInv'
<1> DEFINE b == [buf[e] EXCEPT !.info = IF job[e].tmp THEN @ ELSE Stat(job[e].name),
                               !.sure = IF job[e].tmp THEN @ ELSE Holds(e)]
<1>1. /\ At(e, "undo") /\ buf' = [buf EXCEPT ![e] = b] /\ Fail(e)
      /\ UNCHANGED <<diskVars, counters, seen>>
  BY DEF Undone, SetBuf
<1>2. /\ buf'[e] = b /\ UNCHANGED <<file, dir>> /\ Types /\ Linked
      /\ \A d \in Editors \ {e} : buf'[d] = buf[d]
      /\ JobFits(e) /\ LockFits(e) /\ InodeFits(e) /\ ContentFits(e)
      /\ job[e] \in JobTypes /\ buf[e] \in BufTypes
  BY <1>1, EditorFits DEF SaveInv, Types, diskVars
<1>3. /\ b.name = buf[e].name /\ b.saved = buf[e].saved /\ b.locked = buf[e].locked
      /\ b.info = (IF job[e].tmp THEN buf[e].info ELSE Stat(job[e].name))
      /\ b.sure = (IF job[e].tmp THEN buf[e].sure ELSE Holds(e))
      /\ job[e].name \in Names
  BY <1>1, <1>2 DEF BufTypes, JobFits, At, Resting
<1> HIDE DEF b
<1>4. /\ job'[e] = Idle /\ \A d \in Editors \ {e} : job'[d] = job[d]
      /\ \A n \in Names, d \in Editors \ {e} : lock[n] = d => lock'[n] = d
      /\ buf[e].locked => buf[e].name \in Names /\ LockFiles /\ lock'[buf[e].name] = e
  BY <1>1, FailEffect
<1>5. Alone(e)
  BY <1>1, <1>2, <1>4 DEF Alone
<1>6. KnowsFile(e)'
  <2>1. CASE job[e].tmp
    BY <1>1, <1>2, <1>3, <2>1, QuietKnows DEF At
  <2>2. CASE ~job[e].tmp
    <3> SUFFICES ASSUME NEW n, NEW t, n = buf[e].name, t = buf[e].saved, Holds(e),
                        Current(e)'
                 PROVE  Agrees(e, n, t)'
      BY <1>2, <1>3, <2>2 DEF KnowsFile, Agrees, Known
    <3>1. n \in Names /\ Stat(job[e].name) = Stat(n)
      BY <1>2, <1>3, <2>2 DEF Current, Stat, BufTypes
    <3>2. job[e].name \in Direct /\ dir[job[e].name] # 0
      BY <1>1, <1>2, <2>2, ZeroIsNoInode DEF JobFits, InodeFits, Opened, At
    <3>3. job[e].name = n
      BY <1>2, <1>3, <3>1, <3>2, StatFields DEF Linked
    <3>4. Agrees(e, n, buf[e].text)
      BY <1>1, <1>2, <2>2, <3>3 DEF ContentFits, Guards, Opened, At
    <3> QED
      BY <1>1, <1>2, <3>2, <3>3, <3>4 DEF Agrees, Known
  <2> QED
    BY <2>1, <2>2
<1>7. Fits(e)'
  BY <1>2, <1>3, <1>4, <1>6, IdleFits
<1>8. job'[e].ino = 0
  BY <1>4 DEF Idle
<1> QED
  BY <1>1, <1>2, <1>3, <1>5, <1>7, <1>8, QuietStep DEF At, counters

LEMMA SavedStep ==
  ASSUME SaveInv, Types', NEW e \in Editors, Saved(e)
  PROVE  SaveInv'
<1> DEFINE old == buf[e].name
           b == [buf[e] EXCEPT !.info = IF dir[job[e].name] = 0 THEN @ ELSE Stat(job[e].name),
                               !.saved = buf[e].text,
                               !.readonly = FALSE,
                               !.name = job[e].name,
                               !.sure = Holds(e),
                               !.locked = Holds(e)]
<1>1. /\ At(e, "done") /\ buf' = [buf EXCEPT ![e] = b] /\ job' = [job EXCEPT ![e] = Idle]
      /\ UNCHANGED <<diskVars, counters, seen>>
      /\ lock' = IF ~Own(e) /\ buf[e].locked THEN [lock EXCEPT ![old] = Nobody] ELSE lock
  BY DEF Saved, SetBuf, SetJob
<1>2. /\ buf'[e] = b /\ job'[e] = Idle /\ UNCHANGED <<file, dir>> /\ Types
      /\ \A d \in Editors \ {e} : buf'[d] = buf[d] /\ job'[d] = job[d]
      /\ JobFits(e) /\ LockFits(e) /\ InodeFits(e) /\ ContentFits(e)
      /\ job[e] \in JobTypes /\ buf[e] \in BufTypes
  BY <1>1, EditorFits DEF SaveInv, Types, diskVars
<1>3. PICK n \in Names : n = job[e].name
  BY <1>1, <1>2 DEF JobFits, At, Resting
<1>4. dir[n] # 0
  BY <1>1, <1>2, <1>3 DEF InodeFits, At
<1>5. /\ b.name = n /\ b.saved = buf[e].text /\ b.info = Stat(n)
      /\ b.locked = Holds(e) /\ b.sure = Holds(e)
  BY <1>2, <1>3, <1>4 DEF BufTypes
<1> HIDE DEF b
<1>6. /\ \A m \in Names, d \in Editors \ {e} : lock[m] = d => lock'[m] = d
      /\ Holds(e) => LockFiles /\ lock'[n] = e
  <2>1. Holds(e) => LockFiles /\ lock[n] = e
    BY <1>1, <1>3, HolderOwnsLock DEF At, Resting
  <2>2. CASE ~Own(e) /\ buf[e].locked
    <3>1. old \in Names /\ lock[old] = e /\ old # n
      BY <1>2, <1>3, <2>2 DEF JobFits, LockFits, Own
    <3> QED
      BY <1>1, <1>2, <2>1, <2>2, <3>1 DEF Types
  <2>3. CASE ~(~Own(e) /\ buf[e].locked)
    BY <1>1, <2>1, <2>3
  <2> QED
    BY <2>2, <2>3
<1>7. Alone(e)
  BY <1>1, <1>2, <1>6 DEF Alone
<1>8. KnowsFile(e)'
  <2> SUFFICES ASSUME NEW t, t = buf[e].text, Holds(e) PROVE Agrees(e, n, t)'
    BY <1>2, <1>5 DEF KnowsFile, Agrees, Known
  <2>1. Agrees(e, n, t)
    BY <1>1, <1>2, <1>3 DEF ContentFits, Guards, Opened, At
  <2> QED
    BY <1>1, <1>2, <2>1 DEF Agrees, Known
<1>9. Fits(e)'
  BY <1>2, <1>5, <1>6, <1>8, IdleFits
<1>10. job'[e].ino = 0
  BY <1>2 DEF Idle
<1> QED
  BY <1>1, <1>2, <1>5, <1>7, <1>9, <1>10, QuietStep DEF At, counters

-----------------------------------------------------------------------------
(* The steps that write *)

\* Only the inode i changes.
OnlyInode(i) == \A k \in Inodes \ {i} : file'[k] = file[k]

LEMMA ClockIsAhead ==
  ASSUME SaveInv
  PROVE  /\ clock \in Nat
         /\ \A e \in Editors : buf[e].info.mtime \in Nat /\ buf[e].info.mtime <= clock
         /\ \A i \in Inodes : file[i].mtime \in Nat /\ file[i].mtime <= clock
  BY SizesAssumption DEF SaveInv, Types, Linked, BufTypes, Stats, FileTypes, Times

LEMMA LaterIsFresh ==
  ASSUME SaveInv, NEW n, dir'[n] # 0, file'[dir'[n]].mtime = clock + 1
  PROVE  Fresh(n)
<1>1. Stat(n)'.mtime = clock + 1
  BY DEF Stat
<1> QED
  BY <1>1, ClockIsAhead DEF Fresh

LEMMA LinkedStays ==
  ASSUME SaveInv, NEW e \in Editors, Alone(e), NEW i \in Inodes, OnlyInode(i),
         clock' \in Nat, clock <= clock', file'[i].mtime <= clock',
         buf'[e].info.mtime <= clock',
         \A m, n \in Names : dir'[m] = dir'[n] /\ dir'[m] # 0 => m = n
  PROVE  Linked'
<1>1. \A k \in Inodes : file'[k].mtime <= clock'
  <2> SUFFICES ASSUME NEW k \in Inodes \ {i} PROVE file'[k].mtime <= clock'
    OBVIOUS
  <2>1. file'[k] = file[k] /\ file[k].mtime \in Nat /\ file[k].mtime <= clock /\ clock \in Nat
    BY ClockIsAhead DEF OnlyInode
  <2> QED
    BY <2>1
<1>2. \A d \in Editors : buf'[d].info.mtime <= clock'
  <2> SUFFICES ASSUME NEW d \in Editors \ {e} PROVE buf'[d].info.mtime <= clock'
    OBVIOUS
  <2>1. buf'[d] = buf[d] /\ buf[d].info.mtime \in Nat /\ buf[d].info.mtime <= clock
        /\ clock \in Nat
    BY ClockIsAhead DEF Alone
  <2> QED
    BY <2>1
<1> QED
  BY <1>1, <1>2 DEF Linked

LEMMA SparedBy ==
  ASSUME SaveInv, NEW e \in Editors, NEW i \in Inodes, OnlyInode(i),
         \A d \in Editors \ {e} : IsTmp(d) => job[d].ino # i,
         job'[e].ino \in {0, job[e].ino, i},
         buf'[e].info = buf[e].info \/ buf'[e].info.mtime = clock + 1,
         \A n \in Names : dir'[n] \in {dir[n], i}
  PROVE  Spared(e)
<1> SUFFICES ASSUME NEW d \in Editors \ {e}, IsTmp(d)
             PROVE  /\ file'[job[d].ino] = file[job[d].ino]
                    /\ job'[e].ino # job[d].ino
                    /\ job[d].pc \in {"flush", "rename"} /\ buf'[e].info.ino = job[d].ino =>
                         buf'[e].info.mtime # file[job[d].ino].mtime
                    /\ \A n \in Names : dir'[n] # job[d].ino
  BY DEF Spared
<1>1. /\ job[d].ino \in Inodes /\ job[d].ino # i /\ job[d].ino # 0 /\ InodeFits(d)
      /\ job[e].ino # job[d].ino
  BY EditorFits, ZeroIsNoInode DEF IsTmp, Pending, JobFits, Opened, InodeFits
<1>2. file[job[d].ino].mtime # clock + 1
  BY <1>1, ClockIsAhead
<1> QED
  BY <1>1, <1>2 DEF OnlyInode, InodeFits

\* An inode that has no name
LEMMA HiddenEffect ==
  ASSUME SaveInv, NEW i \in Inodes, OnlyInode(i), dir' = dir, \A n \in Names : dir[n] # i,
         NEW e
  PROVE  \A n \in Names : Effect(e, n)
<1> SUFFICES ASSUME NEW n \in Names, dir[n] # 0 PROVE file'[dir[n]] = file[dir[n]]
  BY DEF Effect, SameContent, Stat
<1> QED
  BY DEF SaveInv, Types, OnlyInode

LEMMA HiddenRenamed ==
  ASSUME SaveInv, NEW i \in Inodes, OnlyInode(i), dir' = dir,
         \A n \in Names \ Direct : dir[n] # i,
         NEW e \in Editors, ~At(e, "off")
  PROVE  RenamedIsWhole'
<1>1. \A n \in Names \ Direct : dir[n] # 0 => file'[dir[n]] = file[dir[n]]
  BY DEF SaveInv, Types, OnlyInode
<1> QED
  BY <1>1 DEF SaveInv, RenamedIsWhole

\* The file that a command of e is about
LEMMA NamedEffect ==
  ASSUME SaveInv, NEW e \in Editors, NEW n \in Names, NEW i \in Inodes, OnlyInode(i),
         n = job[e].name, job[e].pc \in Opened \cup {"clash"},
         n \in Direct /\ dir[n] # 0 => dir[n] = i,
         dir'[n] = i, \A m \in Names \ {n} : dir'[m] = dir[m] /\ dir[m] # i,
         Fresh(n), file'[i].forced = job[e].force
  PROVE  \A m \in Names : Effect(e, m)
<1>1. Effect(e, n)
  BY ZeroIsNoInode DEF Effect
<1>2. ASSUME NEW m \in Names \ {n} PROVE Effect(e, m)
  <2>1. dir[m] # 0 => file'[dir[m]] = file[dir[m]]
    BY <1>2 DEF SaveInv, Types, OnlyInode
  <2> QED
    BY <1>2, <2>1 DEF Effect, SameContent, Stat
<1> QED
  BY <1>1, <1>2

LEMMA WriteStepFits ==
  ASSUME SaveInv, Types', NEW e \in Editors, Alone(e), NEW i \in Inodes, OnlyInode(i),
         \A d \in Editors \ {e} : IsTmp(d) => job[d].ino # i,
         job'[e].ino \in {0, job[e].ino, i},
         buf'[e].info = buf[e].info \/ buf'[e].info.mtime = clock + 1,
         \A n \in Names : dir'[n] \in {dir[n], i},
         \A n \in Names : Effect(e, n), Linked', RenamedIsWhole', Fits(e)'
  PROVE  SaveInv'
<1>1. Spared(e)
  BY SparedBy
<1> QED
  BY <1>1, OthersFit DEF SaveInv

\* A Buffer knows its file as before when its step has not freshened it.
LEMMA FreshKnows ==
  ASSUME SaveInv, NEW e \in Editors, NEW n \in Names, Fresh(n),
         \A m \in Names \ {n} : dir'[m] = dir[m] /\ (dir[m] # 0 => file'[dir[m]] = file[dir[m]]),
         UNCHANGED <<buf[e].name, buf[e].info, buf[e].saved, buf[e].sure>>,
         job[e].pc # "read", seen[e] \subseteq seen'[e]
  PROVE  KnowsFile(e)'
<1> SUFFICES ASSUME NEW m, NEW t, m = buf[e].name, t = buf[e].saved, buf[e].sure, Current(e)'
             PROVE  Agrees(e, m, t)'
  BY DEF KnowsFile, Agrees, Known
<1>1. m \in Names /\ buf[e].info = Stat(m)' /\ buf[e].info # NoStat
  BY EditorFits DEF Current, Stat, BufTypes
<1>2. m # n
  BY <1>1 DEF Fresh
<1>3. dir[m] # 0 /\ Stat(m)' = Stat(m)
  BY <1>1, <1>2 DEF Stat
<1>4. Agrees(e, m, t)
  BY <1>1, <1>3, EditorFits DEF ContentFits, Current
<1> QED
  BY <1>1, <1>2, <1>3, <1>4 DEF Agrees, Known

LEMMA NamesKnow ==
  ASSUME SaveInv, NEW e \in Editors,
         \A m \in Names : dir'[m] = dir[m] /\ (dir[m] # 0 => file'[dir[m]] = file[dir[m]]),
         UNCHANGED <<buf[e].name, buf[e].info, buf[e].saved, buf[e].sure>>,
         job[e].pc # "read", seen[e] \subseteq seen'[e]
  PROVE  KnowsFile(e)'
<1> SUFFICES ASSUME NEW m, NEW t, m = buf[e].name, t = buf[e].saved, buf[e].sure, Current(e)'
             PROVE  Agrees(e, m, t)'
  BY DEF KnowsFile, Agrees, Known
<1>1. m \in Names /\ buf[e].info = Stat(m)' /\ buf[e].info # NoStat
  BY EditorFits DEF Current, Stat, BufTypes
<1>2. dir[m] # 0 /\ Stat(m)' = Stat(m)
  BY <1>1 DEF Stat
<1>3. Agrees(e, m, t)
  BY <1>1, <1>2, EditorFits DEF ContentFits, Current
<1> QED
  BY <1>1, <1>2, <1>3 DEF Agrees, Known

LEMMA TouchStep ==
  ASSUME SaveInv, Types', NEW e \in Editors, Touch(e)
  PROVE  SaveInv'
<1>1. PICK n \in Names : n = job[e].name
  BY EditorFits DEF Touch, JobFits, At, Resting
<1> DEFINE i == dir[n]
           b == [buf[e] EXCEPT !.info.mtime = clock + 1, !.sure = @ /\ job[e].held]
<1>2. /\ At(e, "clash") /\ Unmodified(e) /\ i \in Inodes /\ clock' = clock + 1
      /\ buf' = [buf EXCEPT ![e] = b] /\ job' = [job EXCEPT ![e] = Idle]
      /\ file' = [file EXCEPT ![i].mtime = clock + 1]
      /\ UNCHANGED <<dir, lock, texts, seen>>
  BY <1>1 DEF Touch, Tick, SetBuf, SetJob, SaveInv, Types
<1>3. /\ buf'[e] = b /\ job'[e] = Idle /\ Types
      /\ \A d \in Editors \ {e} : buf'[d] = buf[d] /\ job'[d] = job[d]
      /\ JobFits(e) /\ LockFits(e) /\ ContentFits(e)
      /\ job[e] \in JobTypes /\ buf[e] \in BufTypes
  BY <1>2, EditorFits DEF SaveInv, Types
<1>4. /\ b.name = buf[e].name /\ b.saved = buf[e].saved /\ b.locked = buf[e].locked
      /\ b.info.mtime = clock + 1 /\ (b.sure <=> buf[e].sure /\ job[e].held)
  BY <1>3 DEF BufTypes, Stats, JobTypes
<1>5. /\ file'[i].mtime = clock + 1 /\ file'[i].whole = file[i].whole
      /\ file'[i].text = file[i].text /\ file'[i].forced = file[i].forced
      /\ file'[i].safe = file[i].safe
      /\ OnlyInode(i)
  BY <1>2, <1>3 DEF Types, FileTypes, OnlyInode
<1> HIDE DEF b
<1>6. Alone(e)
  BY <1>2, <1>3 DEF Alone
<1>7. \A m \in Names \ {n} : dir[m] # i
  BY <1>2, ZeroIsNoInode DEF SaveInv, Linked
<1>8. \A m \in Names : Effect(e, m)
  <2>1. Fresh(n)
    BY <1>2, <1>5, ZeroIsNoInode, LaterIsFresh
  <2>2. Effect(e, n)
    BY <1>2, <1>5, <2>1, ZeroIsNoInode DEF Effect, SameContent
  <2>3. ASSUME NEW m \in Names \ {n} PROVE Effect(e, m)
    <3>1. dir[m] # 0 => file'[dir[m]] = file[dir[m]]
      BY <1>3, <1>5, <1>7 DEF Types, OnlyInode
    <3> QED
      BY <1>2, <3>1 DEF Effect, SameContent, Stat
  <2> QED
    BY <2>2, <2>3
<1>9. \A d \in Editors \ {e} : IsTmp(d) => job[d].ino # i
  BY EditorFits DEF InodeFits
<1>10. Linked'
  BY <1>2, <1>3, <1>4, <1>5, <1>6, ClockIsAhead, LinkedStays DEF SaveInv, Linked
<1>11. RenamedIsWhole'
  <2>1. \A m \in Names : dir[m] # 0 => /\ file'[dir[m]].whole = file[dir[m]].whole
                                       /\ file'[dir[m]].safe = file[dir[m]].safe
    BY <1>3, <1>5 DEF Types, OnlyInode
  <2> QED
    BY <1>2, <2>1 DEF SaveInv, RenamedIsWhole, At
<1>12. KnowsFile(e)'
  <2> SUFFICES ASSUME NEW t, t = buf[e].saved, buf[e].sure, job[e].held
               PROVE  Agrees(e, n, t)'
    BY <1>1, <1>3, <1>4 DEF KnowsFile, Agrees, Known, JobFits
  <2>1. Agrees(e, n, t)
    BY <1>1, <1>2, <1>3, ZeroIsNoInode DEF ContentFits, Unmodified, At
  <2> QED
    BY <1>2, <1>5, <2>1 DEF Agrees, Known
<1>13. Fits(e)'
  BY <1>2, <1>3, <1>4, <1>12, IdleFits DEF LockFits, JobFits
<1>14. job'[e].ino = 0
  BY <1>3 DEF Idle
<1> QED
  BY <1>2, <1>3, <1>4, <1>5, <1>6, <1>8, <1>9, <1>10, <1>11, <1>13, <1>14, WriteStepFits

LEMMA CreateTmpStep ==
  ASSUME SaveInv, Types', NEW e \in Editors, CreateTmp(e)
  PROVE  SaveInv'
<1> DEFINE i == FreeInode
           j == [job[e] EXCEPT !.pc = "write", !.st = NoStat, !.ino = i, !.tmp = TRUE]
<1>1. /\ At(e, "clash") /\ job[e].name \notin Direct
      /\ job' = [job EXCEPT ![e] = j] /\ UNCHANGED <<counters, dir, lock, buf, seen>>
      /\ clock' = clock
      /\ file' = [file EXCEPT ![i] = Written(e, 0, FALSE)]
  BY DEF CreateTmp, SetJob, counters
<1>2. /\ job'[e] = j /\ Types
      /\ \A d \in Editors \ {e} : job'[d] = job[d]
      /\ JobFits(e) /\ LockFits(e) /\ ContentFits(e) /\ job[e] \in JobTypes
  BY <1>1, EditorFits DEF SaveInv, Types
<1>3. /\ i \in Inodes /\ \A n \in Names : dir[n] # i
      /\ \A d \in Editors : job[d].ino # i
  BY <1>1, <1>2, FreeInodeIsFree DEF JobFits, At
<1>4. /\ j.pc = "write" /\ j.name = job[e].name /\ j.force = job[e].force /\ j.ino = i
      /\ j.new = job[e].new /\ j.tmp /\ j.held = job[e].held
  BY <1>2 DEF JobTypes
<1>5. OnlyInode(i) /\ file'[i].mtime = clock
  BY <1>1, <1>2, <1>3 DEF OnlyInode, Types, Written
<1> HIDE DEF i, j
<1>6. Alone(e)
  BY <1>1, <1>2 DEF Alone
<1>7. \A n \in Names : Effect(e, n)
  BY <1>1, <1>3, <1>5, HiddenEffect
<1>8. Linked'
  <2>1. clock' \in Nat /\ clock <= clock' /\ buf'[e].info.mtime <= clock'
    BY <1>1, ClockIsAhead
  <2>2. \A m, n \in Names : dir'[m] = dir'[n] /\ dir'[m] # 0 => m = n
    BY <1>1 DEF SaveInv, Linked
  <2> QED
    BY <1>1, <1>3, <1>5, <1>6, <2>1, <2>2, LinkedStays
<1>9. RenamedIsWhole'
  BY <1>1, <1>3, <1>5, HiddenRenamed DEF At
<1>10. JobFits(e)'
  BY <1>1, <1>2, <1>3, <1>4 DEF JobFits, Resting, Opened, At
<1>11. LockFits(e)'
  BY <1>1, <1>2, <1>4 DEF LockFits, Holds, Own, At
<1>12. InodeFits(e)'
  BY <1>1, <1>2, <1>3, <1>4 DEF InodeFits, IsTmp, Opened, Pending
<1>13. ContentFits(e)'
  <2>1. \A m \in Names : dir'[m] = dir[m] /\ (dir[m] # 0 => file'[dir[m]] = file[dir[m]])
    BY <1>1, <1>2, <1>3, <1>5 DEF OnlyInode, Types
  <2>2. KnowsFile(e)'
    BY <1>1, <2>1, NamesKnow DEF At
  <2>3. PICK n \in Names : n = job[e].name
    BY <1>1, <1>2 DEF JobFits, At, Resting
  <2>4. ASSUME job[e].held, ~job[e].force, buf[e].sure, dir[n] # 0
        PROVE  Known(e, file[dir[n]])'
    <3>1. Known(e, file[dir[n]])
      BY <1>1, <1>2, <2>3, <2>4 DEF ContentFits, At
    <3> QED
      BY <1>1, <2>1, <2>4, <3>1 DEF Known
  <2> QED
    BY <1>1, <1>2, <1>4, <2>2, <2>3, <2>4 DEF ContentFits, KnowsFile, Known
<1>14. Fits(e)'
  BY <1>10, <1>11, <1>12, <1>13 DEF Fits
<1> QED
  BY <1>1, <1>2, <1>3, <1>4, <1>5, <1>6, <1>7, <1>8, <1>9, <1>14, WriteStepFits

LEMMA TruncateStep ==
  ASSUME SaveInv, Types', NEW e \in Editors, Truncate(e)
  PROVE  SaveInv'
<1>1. PICK n \in Names : n = job[e].name
  BY EditorFits DEF Truncate, JobFits, At, Resting
<1> DEFINE i == IF dir[n] = 0 THEN FreeInode ELSE dir[n]
           j == [job[e] EXCEPT !.pc = "write", !.st = NoStat, !.ino = i]
<1>2. /\ At(e, "clash") /\ n \in Direct /\ clock' = clock + 1
      /\ job' = [job EXCEPT ![e] = j] /\ UNCHANGED <<lock, buf, texts, seen>>
      /\ file' = [file EXCEPT ![i] = Written(e, 0, FALSE)]
      /\ dir' = [dir EXCEPT ![n] = i]
  BY <1>1 DEF Truncate, Tick, SetJob
<1>3. /\ job'[e] = j /\ Types /\ Linked
      /\ \A d \in Editors \ {e} : job'[d] = job[d]
      /\ JobFits(e) /\ LockFits(e) /\ ContentFits(e) /\ job[e] \in JobTypes
      /\ buf[e] \in BufTypes
  BY <1>2, EditorFits DEF SaveInv, Types
<1>4. /\ FreeInode \in Inodes /\ \A m \in Names : dir[m] # FreeInode
      /\ \A d \in Editors : job[d].ino # FreeInode
  BY <1>2, <1>3, FreeInodeIsFree DEF JobFits, At
<1>5. /\ i \in Inodes /\ \A m \in Names \ {n} : dir[m] # i
      /\ dir[n] # 0 => dir[n] = i
      /\ \A d \in Editors \ {e} : IsTmp(d) => job[d].ino # i
  <2>1. \A d \in Editors \ {e} : IsTmp(d) => job[d].ino # dir[n]
    BY EditorFits DEF InodeFits
  <2> QED
    BY <1>3, <1>4, <2>1 DEF Types, Linked
<1>6. /\ j.pc = "write" /\ j.name = n /\ j.force = job[e].force /\ j.ino = i
      /\ j.new = job[e].new /\ j.tmp = job[e].tmp /\ j.held = job[e].held
  BY <1>1, <1>3 DEF JobTypes
<1>7. /\ OnlyInode(i) /\ file'[i].mtime = clock + 1 /\ ~file'[i].whole
      /\ file'[i].forced = job[e].force
  BY <1>2, <1>3, <1>5 DEF OnlyInode, Types, Written
<1>8. dir'[n] = i /\ \A m \in Names \ {n} : dir'[m] = dir[m]
  BY <1>2, <1>3 DEF Types
<1> HIDE DEF i, j
<1>9. Alone(e)
  BY <1>2, <1>3 DEF Alone
<1>10. Fresh(n)
  BY <1>5, <1>7, <1>8, ZeroIsNoInode, LaterIsFresh
<1>11. \A m \in Names : Effect(e, m)
  BY <1>1, <1>2, <1>5, <1>7, <1>8, <1>10, NamedEffect DEF At
<1>12. Linked'
  <2>1. \A m, k \in Names : dir'[m] = dir'[k] /\ dir'[m] # 0 => m = k
    BY <1>3, <1>5, <1>8 DEF Linked
  <2>2. clock' \in Nat /\ clock <= clock' /\ file'[i].mtime <= clock'
        /\ buf'[e].info.mtime <= clock'
    <3>1. /\ clock \in Nat /\ buf[e].info.mtime \in Nat /\ buf[e].info.mtime <= clock
          /\ buf' = buf /\ clock' = clock + 1
      BY <1>2, ClockIsAhead
    <3> QED
      BY <1>7, <3>1
  <2> QED
    BY <1>2, <1>5, <1>7, <1>9, <2>1, <2>2, LinkedStays
<1>13. \A m \in Names \ {n} : dir'[m] = dir[m] /\ (dir[m] # 0 => file'[dir[m]] = file[dir[m]])
  BY <1>3, <1>5, <1>7, <1>8 DEF OnlyInode, Types
<1>14. RenamedIsWhole'
  BY <1>2, <1>13 DEF SaveInv, RenamedIsWhole, At
<1>15. JobFits(e)'
  BY <1>1, <1>2, <1>3, <1>5, <1>6 DEF JobFits, Resting, Opened, At
<1>16. LockFits(e)'
  BY <1>1, <1>2, <1>3, <1>6 DEF LockFits, Holds, Own, At
<1>17. InodeFits(e)'
  BY <1>1, <1>2, <1>3, <1>6, <1>8 DEF InodeFits, IsTmp, JobFits, Opened, At
<1>18. ContentFits(e)'
  <2>1. KnowsFile(e)'
    BY <1>2, <1>10, <1>13, FreshKnows DEF At
  <2> QED
    BY <1>2, <1>3, <1>6, <1>7, <1>8, <2>1 DEF ContentFits, KnowsFile, Agrees, Known
<1>19. Fits(e)'
  BY <1>15, <1>16, <1>17, <1>18 DEF Fits
<1>20. \A m \in Names : dir'[m] \in {dir[m], i}
  BY <1>8
<1> QED
  BY <1>2, <1>3, <1>5, <1>6, <1>7, <1>9, <1>11, <1>12, <1>14, <1>19, <1>20, WriteStepFits

\* Write and WriteFails
LEMMA WriteStep ==
  ASSUME SaveInv, Types', NEW e \in Editors, NEW whole \in BOOLEAN, NEW pc, At(e, "write"), Tick,
         pc = IF whole THEN "flush" ELSE pc, pc \in {"flush", "undo"},
         pc = "flush" /\ ~whole => ~job[e].tmp,
         file' = [file EXCEPT ![job[e].ino] = Written(e, buf[e].text, whole)],
         Goto(e, pc), UNCHANGED <<dir, lock, buf, texts>>,
         seen' = IF pc = "flush" THEN [seen EXCEPT ![e] = @ \cup {buf[e].text}] ELSE seen
  PROVE  SaveInv'
<1>1. PICK n \in Names : n = job[e].name
  BY EditorFits DEF JobFits, At, Resting
<1> DEFINE i == job[e].ino
           j == [job[e] EXCEPT !.pc = pc]
<1>2. /\ job' = [job EXCEPT ![e] = j] /\ clock' = clock + 1
  BY DEF Tick, Goto, SetJob
<1>3. /\ job'[e] = j /\ Types /\ Linked
      /\ \A d \in Editors \ {e} : job'[d] = job[d] /\ seen'[d] = seen[d]
      /\ seen[e] \subseteq seen'[e] /\ (pc = "flush" => buf[e].text \in seen'[e])
      /\ JobFits(e) /\ LockFits(e) /\ InodeFits(e) /\ ContentFits(e) /\ job[e] \in JobTypes
      /\ buf[e] \in BufTypes
  BY <1>2, EditorFits DEF SaveInv, Types
<1>4. /\ i \in Inodes
      /\ \A d \in Editors \ {e} : IsTmp(d) => job[d].ino # i
  <2>1. \A d \in Editors \ {e} : IsTmp(d) => job[e].ino # job[d].ino
    BY EditorFits DEF InodeFits
  <2> QED
    BY <1>3, <2>1 DEF JobFits, Opened, At
<1>5. /\ j.pc = pc /\ j.name = n /\ j.force = job[e].force /\ j.ino = i
      /\ j.new = job[e].new /\ j.tmp = job[e].tmp /\ j.held = job[e].held
  BY <1>1, <1>3 DEF JobTypes
<1>6. /\ OnlyInode(i) /\ file'[i].mtime = clock + 1 /\ file'[i].whole = whole
      /\ file'[i].text = buf[e].text /\ file'[i].forced = job[e].force
  BY <1>2, <1>3, <1>4 DEF OnlyInode, Types, Written
<1> HIDE DEF i, j
<1>7. Alone(e)
  BY <1>2, <1>3 DEF Alone
<1>8. Linked'
  BY <1>2, <1>3, <1>4, <1>6, <1>7, ClockIsAhead, LinkedStays DEF Linked
<1>9. JobFits(e)'
  <2>1. /\ buf[e].name \in Names /\ job[e].ino \in Inodes
        /\ job[e].new => job[e].name # buf[e].name
        /\ job[e].held => job[e].name = buf[e].name /\ buf[e].locked
        /\ job[e].tmp <=> job[e].name \notin Direct
    BY <1>3 DEF JobFits, Resting, Opened, At
  <2> QED
    BY <1>1, <1>3, <1>5, <2>1 DEF JobFits, Resting, Opened, i
<1>10. LockFits(e)'
  BY <1>1, <1>2, <1>3, <1>5 DEF LockFits, Holds, Own, Opened, At
<1>11. InodeFits(e)'
  <2>1. /\ \A m \in Names : IsTmp(e) => dir[m] # i
        /\ \A d \in Editors \ {e} : IsTmp(e) => job'[d].ino # i
    BY <1>3 DEF InodeFits, i
  <2>2. IsTmp(e)' <=> IsTmp(e)
    BY <1>3, <1>5 DEF IsTmp, Pending, At
  <2>3. \A d \in Editors : buf'[d].info.mtime # file'[i].mtime
    BY <1>6, ClockIsAhead
  <2>4. IsTmp(e) /\ pc = "flush" => whole
    BY DEF IsTmp
  <2>5. ~job[e].tmp => dir[n] = i
    BY <1>1, <1>3 DEF InodeFits, i, Opened, At
  <2> QED
    BY <1>3, <1>5, <1>6, <2>1, <2>2, <2>3, <2>4, <2>5 DEF InodeFits
<1>12. \A m \in Names \ {n} : dir[m] # i
  BY <1>1, <1>3, <1>4, ZeroIsNoInode DEF InodeFits, IsTmp, Pending, Opened, Linked, At, i
<1>13. \A m \in Names \ {n} : dir'[m] = dir[m] /\ (dir[m] # 0 => file'[dir[m]] = file[dir[m]])
  BY <1>3, <1>6, <1>12 DEF OnlyInode, Types
<1>14. CASE job[e].tmp
  <2>1. dir[n] # i
    BY <1>3, <1>14 DEF InodeFits, IsTmp, Pending, At, i
  <2>2. \A m \in Names : dir'[m] = dir[m] /\ (dir[m] # 0 => file'[dir[m]] = file[dir[m]])
    BY <1>3, <1>6, <1>13, <2>1 DEF OnlyInode, Types
  <2>3. \A m \in Names : Effect(e, m)
    BY <1>4, <1>6, <1>12, <2>1, HiddenEffect
  <2>4. RenamedIsWhole'
    BY <1>4, <1>6, <1>12, <2>1, HiddenRenamed DEF At
  <2>5. KnowsFile(e)'
    BY <1>3, <2>2, NamesKnow DEF At
  <2>6. ContentFits(e)'
    BY <1>1, <1>3, <1>5, <1>14, <2>2, <2>5 DEF ContentFits, KnowsFile, Known, At
  <2>7. Fits(e)'
    BY <1>9, <1>10, <1>11, <2>6 DEF Fits
  <2> QED
    BY <1>2, <1>3, <1>4, <1>5, <1>6, <1>7, <1>8, <2>3, <2>4, <2>7, WriteStepFits
<1>15. CASE ~job[e].tmp
  <2>1. dir[n] = i /\ n \in Direct
    BY <1>1, <1>3, <1>15 DEF InodeFits, JobFits, Opened, At, i
  <2>2. Fresh(n)
    BY <1>4, <1>6, <2>1, ZeroIsNoInode, LaterIsFresh
  <2>3. \A m \in Names : Effect(e, m)
    BY <1>1, <1>4, <1>6, <1>12, <2>1, <2>2, NamedEffect DEF At, Opened
  <2>4. RenamedIsWhole'
    BY <1>13, <2>1 DEF SaveInv, RenamedIsWhole, At
  <2>5. KnowsFile(e)'
    BY <1>3, <1>13, <2>2, FreshKnows DEF At
  <2>6. ContentFits(e)'
    BY <1>3, <1>5, <1>6, <2>1, <2>5 DEF ContentFits, KnowsFile, Agrees, Known
  <2>7. Fits(e)'
    BY <1>9, <1>10, <1>11, <2>6 DEF Fits
  <2> QED
    BY <1>2, <1>3, <1>4, <1>5, <1>6, <1>7, <1>8, <2>3, <2>4, <2>7, WriteStepFits
<1> QED
  BY <1>14, <1>15

LEMMA WritingStep ==
  ASSUME SaveInv, Types', NEW e \in Editors, Write(e) \/ WriteFails(e)
  PROVE  SaveInv'
<1>1. CASE Write(e)
  <2>1. PICK whole \in BOOLEAN :
          /\ ~whole => \E d \in Editors \ {e} : job[d].ino = job[e].ino
          /\ file' = [file EXCEPT ![job[e].ino] = Written(e, buf[e].text, whole)]
    BY <1>1 DEF Write
  <2>2. /\ At(e, "write") /\ Tick /\ Goto(e, "flush") /\ UNCHANGED <<dir, lock, buf, texts>>
        /\ seen' = [seen EXCEPT ![e] = @ \cup {buf[e].text}]
    BY <1>1 DEF Write
  <2>3. ~whole => ~job[e].tmp
    BY <2>1, <2>2, EditorFits DEF InodeFits, IsTmp, Pending, At
  <2> DEFINE pc == "flush"
  <2>4. pc = "flush"
    OBVIOUS
  <2> HIDE DEF pc
  <2> QED
    BY <2>1, <2>2, <2>3, <2>4, WriteStep
<1>2. CASE WriteFails(e)
  <2> DEFINE pc == "undo"
             whole == FALSE
  <2>1. /\ At(e, "write") /\ Tick /\ Goto(e, pc) /\ UNCHANGED <<dir, lock, buf, texts, seen>>
        /\ file' = [file EXCEPT ![job[e].ino] = Written(e, buf[e].text, whole)]
        /\ pc = "undo" /\ whole \in BOOLEAN /\ ~whole
    BY <1>2 DEF WriteFails
  <2> HIDE DEF pc, whole
  <2> QED
    BY <2>1, WriteStep
<1> QED
  BY <1>1, <1>2

LEMMA FlushStep ==
  ASSUME SaveInv, Types', NEW e \in Editors, Flush(e)
  PROVE  SaveInv'
<1>1. PICK n \in Names : n = job[e].name
  BY EditorFits DEF Flush, JobFits, At, Resting
<1> DEFINE i == job[e].ino
           pc == IF job[e].tmp THEN "rename" ELSE "done"
           j == [job[e] EXCEPT !.pc = pc]
<1>2. /\ At(e, "flush") /\ job' = [job EXCEPT ![e] = j]
      /\ file' = [file EXCEPT ![i].safe = Fsync]
      /\ UNCHANGED <<dir, lock, buf, counters, seen>> /\ clock' = clock
  BY DEF Flush, Goto, SetJob, counters
<1>3. /\ job'[e] = j /\ Types /\ Linked
      /\ \A d \in Editors \ {e} : job'[d] = job[d]
      /\ JobFits(e) /\ LockFits(e) /\ InodeFits(e) /\ ContentFits(e) /\ job[e] \in JobTypes
      /\ buf[e] \in BufTypes
  BY <1>2, EditorFits DEF SaveInv, Types
<1>4. /\ i \in Inodes
      /\ \A d \in Editors \ {e} : IsTmp(d) => job[d].ino # i
  <2>1. \A d \in Editors \ {e} : IsTmp(d) => job[e].ino # job[d].ino
    BY EditorFits DEF InodeFits
  <2> QED
    BY <1>2, <1>3, <2>1 DEF JobFits, Opened, At
<1>5. /\ j.pc = pc /\ j.name = n /\ j.force = job[e].force /\ j.ino = i
      /\ j.new = job[e].new /\ j.tmp = job[e].tmp /\ j.held = job[e].held
  BY <1>1, <1>3 DEF JobTypes
<1>6. /\ OnlyInode(i) /\ file'[i].mtime = file[i].mtime /\ file'[i].whole = file[i].whole
      /\ file'[i].text = file[i].text /\ file'[i].forced = file[i].forced
      /\ file'[i].safe = Fsync
  BY <1>2, <1>3, <1>4 DEF OnlyInode, Types, FileTypes
<1> HIDE DEF i, j
<1>7. Alone(e)
  BY <1>2, <1>3 DEF Alone
<1>8. Linked'
  BY <1>2, <1>3, <1>4, <1>6, <1>7, ClockIsAhead, LinkedStays DEF Linked
<1>9. \A m \in Names : dir[m] # 0 =>
         LET f == file[dir[m]] IN
         /\ file'[dir[m]].mtime = f.mtime /\ file'[dir[m]].whole = f.whole
         /\ file'[dir[m]].text = f.text /\ file'[dir[m]].forced = f.forced
         /\ (m \notin Direct => file'[dir[m]] = f)
  <2>1. \A m \in Names \ Direct : dir[m] # i
    BY <1>1, <1>2, <1>3, <1>4, ZeroIsNoInode
    DEF InodeFits, IsTmp, Pending, Opened, Linked, JobFits, At, i
  <2> QED
    BY <1>3, <1>6, <2>1 DEF OnlyInode, Types
<1>10. \A m \in Names : Effect(e, m)
  BY <1>2, <1>9 DEF Effect, SameContent, Stat
<1>11. RenamedIsWhole'
  BY <1>2, <1>9 DEF SaveInv, RenamedIsWhole, At
<1>12. JobFits(e)'
  <2>1. /\ buf[e].name \in Names
        /\ job[e].new => job[e].name # buf[e].name
        /\ job[e].held => job[e].name = buf[e].name /\ buf[e].locked
        /\ job[e].tmp <=> job[e].name \notin Direct
        /\ buf[e].text \in seen[e]
    BY <1>2, <1>3 DEF JobFits, Resting, Opened, At
  <2> QED
    BY <1>1, <1>2, <1>3, <1>4, <1>5, <2>1 DEF JobFits, Resting, Opened
<1>13. LockFits(e)'
  BY <1>1, <1>2, <1>3, <1>5 DEF LockFits, Holds, Own, Opened, At
<1>14. InodeFits(e)'
  <2>1. IsTmp(e)' <=> IsTmp(e)
    BY <1>2, <1>3, <1>5 DEF IsTmp, Pending, At
  <2>2. /\ IsTmp(e) => \A m \in Names : dir[m] # i
        /\ IsTmp(e) => \A d \in Editors \ {e} : job[d].ino # i
        /\ IsTmp(e) => /\ file[i].whole /\ file[i].text = buf[e].text
                       /\ file[i].forced = job[e].force
                       /\ \A d \in Editors : buf[d].info.ino = i
                                               => buf[d].info.mtime # file[i].mtime
        /\ ~job[e].tmp => dir[n] = i
    BY <1>1, <1>2, <1>3 DEF InodeFits, i, Opened, At
  <2>3. ~job[e].tmp => dir[n] # 0
    BY <1>4, <2>2, ZeroIsNoInode
  <2> QED
    BY <1>2, <1>3, <1>5, <1>6, <2>1, <2>2, <2>3 DEF InodeFits
<1>15. ContentFits(e)'
  <2>1. KnowsFile(e)'
    <3> SUFFICES ASSUME NEW m, NEW t, m = buf[e].name, t = buf[e].saved, buf[e].sure,
                        Current(e)'
                 PROVE  Agrees(e, m, t)'
      BY <1>2 DEF KnowsFile, Agrees, Known
    <3>1. m \in Names /\ buf[e].info = Stat(m)' /\ buf[e].info # NoStat
      BY <1>2, <1>3 DEF Current, Stat, BufTypes
    <3>2. dir[m] # 0 /\ Stat(m)' = Stat(m)
      BY <1>2, <1>9, <3>1 DEF Stat
    <3>3. Agrees(e, m, t)
      BY <1>2, <1>3, <3>1, <3>2 DEF ContentFits, Current, At
    <3> QED
      BY <1>2, <1>9, <3>1, <3>2, <3>3 DEF Agrees, Known
  <2>2. PICK t : t = buf[e].text
    OBVIOUS
  <2>3. ASSUME Guards(e), ~job[e].tmp PROVE Agrees(e, n, t)'
    <3>1. dir[n] # 0 /\ Agrees(e, n, t)
      BY <1>1, <1>2, <1>3, <1>4, <2>2, <2>3, ZeroIsNoInode
      DEF ContentFits, InodeFits, Opened, At, i
    <3> QED
      BY <1>2, <1>9, <3>1 DEF Agrees, Known
  <2>4. ASSUME job[e].held, ~job[e].force, buf[e].sure, dir[n] # 0
        PROVE  Known(e, file[dir[n]])'
    <3>1. Known(e, file[dir[n]])
      BY <1>1, <1>2, <1>3, <2>4 DEF ContentFits, At
    <3> QED
      BY <1>2, <1>9, <2>4, <3>1 DEF Known
  <2>5. Guards(e)' => Guards(e)
    BY <1>1, <1>2, <1>3, <1>5 DEF Guards, Holds, Own, Opened, At
  <2> QED
    BY <1>2, <1>3, <1>5, <2>1, <2>2, <2>3, <2>4, <2>5
    DEF ContentFits, KnowsFile, Agrees, Known
<1>16. Fits(e)'
  BY <1>12, <1>13, <1>14, <1>15 DEF Fits
<1> QED
  BY <1>2, <1>3, <1>4, <1>5, <1>6, <1>7, <1>8, <1>10, <1>11, <1>16, WriteStepFits

LEMMA RenameStep ==
  ASSUME SaveInv, Types', NEW e \in Editors, Rename(e)
  PROVE  SaveInv'
<1>1. PICK n \in Names : n = job[e].name
  BY EditorFits DEF Rename, JobFits, At, Resting
<1> DEFINE i == job[e].ino
           j == [job[e] EXCEPT !.pc = "done"]
<1>2. /\ At(e, "rename") /\ job' = [job EXCEPT ![e] = j]
      /\ dir' = [dir EXCEPT ![n] = i]
      /\ UNCHANGED <<file, lock, buf, counters, seen>> /\ clock' = clock
  BY <1>1 DEF Rename, Goto, SetJob, counters
<1>3. /\ job'[e] = j /\ Types /\ Linked
      /\ \A d \in Editors \ {e} : job'[d] = job[d]
      /\ JobFits(e) /\ LockFits(e) /\ InodeFits(e) /\ ContentFits(e) /\ job[e] \in JobTypes
      /\ buf[e] \in BufTypes
  BY <1>2, EditorFits DEF SaveInv, Types
<1>4. /\ i \in Inodes /\ n \notin Direct /\ job[e].tmp /\ buf[e].text \in seen[e]
      /\ \A m \in Names : dir[m] # i
      /\ \A d \in Editors \ {e} : job[d].ino # i
      /\ file[i].whole /\ file[i].text = buf[e].text /\ file[i].forced = job[e].force
      /\ file[i].safe = Fsync
      /\ \A d \in Editors : buf[d].info.ino = i => buf[d].info.mtime # file[i].mtime
  BY <1>1, <1>2, <1>3 DEF InodeFits, IsTmp, Pending, JobFits, Opened, At
<1>5. /\ j.pc = "done" /\ j.name = n /\ j.force = job[e].force /\ j.ino = i
      /\ j.new = job[e].new /\ j.tmp = job[e].tmp /\ j.held = job[e].held
  BY <1>1, <1>3 DEF JobTypes
<1>6. /\ OnlyInode(i) /\ dir'[n] = i /\ \A m \in Names \ {n} : dir'[m] = dir[m]
  BY <1>2, <1>3 DEF OnlyInode, Types
<1> HIDE DEF i, j
<1>7. Alone(e)
  BY <1>2, <1>3 DEF Alone
<1>8. i # 0
  BY <1>4, ZeroIsNoInode
<1>9. Fresh(n)
  BY <1>2, <1>4, <1>6, <1>8 DEF Fresh, Stat
<1>10. \A m \in Names : Effect(e, m)
  BY <1>1, <1>2, <1>4, <1>6, <1>9, NamedEffect DEF At, Opened
<1>11. Linked'
  <2>1. \A m, k \in Names : dir'[m] = dir'[k] /\ dir'[m] # 0 => m = k
    BY <1>3, <1>4, <1>6 DEF Linked
  <2> QED
    BY <1>2, <1>3, <2>1 DEF Linked
<1>12. RenamedIsWhole'
  BY <1>2, <1>4, <1>6 DEF SaveInv, RenamedIsWhole, At
<1>13. JobFits(e)'
  <2>1. /\ buf[e].name \in Names
        /\ job[e].new => job[e].name # buf[e].name
        /\ job[e].held => job[e].name = buf[e].name /\ buf[e].locked
    BY <1>2, <1>3 DEF JobFits, Resting, Opened, At
  <2> QED
    BY <1>1, <1>2, <1>3, <1>4, <1>5, <2>1 DEF JobFits, Resting, Opened
<1>14. LockFits(e)'
  BY <1>1, <1>2, <1>3, <1>5 DEF LockFits, Holds, Own, Opened, At
<1>15. InodeFits(e)'
  BY <1>2, <1>3, <1>4, <1>5, <1>6, <1>8 DEF InodeFits, IsTmp, Pending
<1>16. ContentFits(e)'
  <2>1. KnowsFile(e)'
    BY <1>2, <1>6, <1>9, FreshKnows DEF At
  <2>2. Agrees(e, n, buf[e].text)'
    BY <1>2, <1>4, <1>6 DEF Agrees, Known
  <2> QED
    BY <1>2, <1>3, <1>4, <1>5, <2>1, <2>2 DEF ContentFits, KnowsFile, Agrees, Known
<1>17. Fits(e)'
  BY <1>13, <1>14, <1>15, <1>16 DEF Fits
<1>18. /\ \A d \in Editors \ {e} : IsTmp(d) => job[d].ino # i
       /\ \A m \in Names : dir'[m] \in {dir[m], i}
  BY <1>4, <1>6
<1> QED
  BY <1>2, <1>3, <1>4, <1>5, <1>6, <1>7, <1>10, <1>11, <1>12, <1>17, <1>18, WriteStepFits

LEMMA PowerStep ==
  ASSUME SaveInv, Types', PowerLoss
  PROVE  SaveInv'
<1> DEFINE off == [Idle EXCEPT !.pc = "off"]
<1>1. /\ \A e \in Editors : buf'[e] = NoBuf /\ job'[e] = off
      /\ \A i \in Inodes : /\ file'[i].whole <=> file[i].whole /\ file[i].safe
                           /\ file'[i].safe = file[i].safe /\ file'[i].mtime = file[i].mtime
      /\ dir' = dir /\ clock' = clock /\ MayLosePower
  BY DEF PowerLoss, SaveInv, Types, FileTypes
<1>2. off.pc = "off" /\ off.ino = 0 /\ ~off.new /\ ~off.held /\ ~off.tmp
  BY DEF Idle
<1> HIDE DEF off
<1>3. ~NoBuf.locked /\ ~NoBuf.sure /\ NoBuf.info.mtime = 0
  BY DEF NoBuf, NoStat
<1>4. Linked'
  BY <1>1, <1>3, ClockIsAhead DEF SaveInv, Linked
<1>5. RenamedIsWhole'
  <2>1. CASE Durable
    <3>1. Fsync
      BY <1>1, <2>1 DEF Durable
    <3> QED
      BY <1>1, <2>1, <3>1 DEF RenamedIsWhole, SaveInv, Types
  <2>2. CASE ~Durable
    BY <1>1, <1>2, <2>2 DEF RenamedIsWhole, At, Durable
  <2> QED
    BY <2>1, <2>2
<1>6. ASSUME NEW e \in Editors PROVE Fits(e)'
  <2>1. JobFits(e)'
    BY <1>1, <1>2, <1>3 DEF JobFits, Resting, Opened
  <2>2. LockFits(e)' /\ InodeFits(e)'
    BY <1>1, <1>2, <1>3 DEF LockFits, InodeFits, IsTmp, Opened
  <2>3. ContentFits(e)'
    BY <1>1, <1>2, <1>3 DEF ContentFits, Guards, Opened
  <2> QED
    BY <2>1, <2>2, <2>3 DEF Fits
<1> QED
  BY <1>4, <1>5, <1>6 DEF SaveInv

LEMMA StillFits == ASSUME SaveInv, UNCHANGED vars PROVE SaveInv'
<1>1. ASSUME NEW e \in Editors PROVE Fits(e)'
  <2>1. JobFits(e)' /\ LockFits(e)' /\ InodeFits(e)'
    BY EditorFits
    DEF vars, diskVars, counters, JobFits, LockFits, InodeFits, Holds, Own, IsTmp
  <2>2. ContentFits(e)'
    BY EditorFits
    DEF vars, diskVars, counters, ContentFits, Guards, Holds, Own, Agrees, Known, Current, Stat
  <2> QED
    BY <2>1, <2>2 DEF Fits
<1> QED
  BY <1>1 DEF SaveInv, Types, Linked, RenamedIsWhole, At, vars, diskVars, counters

LEMMA NextInv == SaveInv /\ [Next]_vars => SaveInv'
<1> SUFFICES ASSUME SaveInv, [Next]_vars PROVE SaveInv'
  OBVIOUS
<1>1. CASE UNCHANGED vars
  BY <1>1, StillFits
<1>2. CASE PowerLoss
  BY <1>2, PowerTypes, PowerStep DEF SaveInv
<1>3. ASSUME NEW e \in Editors, EditorStep(e) PROVE SaveInv'
  <2>1. Types'
    BY <1>3, EditorFits, StepTypes
  <2>2. \A f \in Editors : Flags[f] \subseteq BOOLEAN
    BY FlagsAssumption
  <2>3. CASE \E n \in Names : Open(e, n) \/ \E force \in Flags[e] : Save(e, n, force)
    BY <2>1, <2>2, <2>3, OpenStep, SaveStarts
  <2>4. CASE Read(e) \/ LoadFails(e) \/ Hold(e) \/ Edit(e) \/ Undo(e) \/ Close(e) \/ Crash(e)
    BY <2>1, <2>4, ReadStep, LoadStep
  <2>5. CASE SaveStep(e)
    BY <2>1, <2>5, LockStep, FailStep, TouchStep, CreateTmpStep, TruncateStep, WritingStep,
       FlushStep, RenameStep, LaterFailsStep, UndoneStep, SavedStep
    DEF SaveStep
  <2> QED
    BY <1>3, <2>3, <2>4, <2>5 DEF EditorStep
<1> QED
  BY <1>1, <1>2, <1>3 DEF Next

-----------------------------------------------------------------------------
(* The theorems *)

LEMMA SpecInv == Spec => []SaveInv
<1>1. Init => SaveInv
  BY InitInv
<1>2. SaveInv /\ [Next]_vars => SaveInv'
  BY NextInv
<1> QED
  BY <1>1, <1>2, PTL DEF Spec

\* At every moment, whatever has failed, whoever was killed, and in whatever
\* order the editors make their calls: who has a lock is on record with it, no
\* temporary file has a name before its rename, and a Buffer whose file looks
\* as it was left holds as its saved change what is in that file.
THEOREM SavesSound == Spec => []SavesAreSound
<1>1. SaveInv => TypeOK
  <2> SUFFICES ASSUME SaveInv, NEW e \in Editors
               PROVE  /\ buf[e].name \in Names \cup {NoName}
                      /\ {buf[e].text, buf[e].saved} \subseteq 0..MaxText
                      /\ buf[e].locked => lock[buf[e].name] = e
                      /\ job[e].new => lock[job[e].name] = e
                      /\ job[e].tmp => \A n \in Names : dir[n] = job[e].ino => At(e, "done")
    BY DEF TypeOK, SaveInv, Types, FileTypes, Texts, Times
  <2> QED
    BY EditorFits
    DEF BufTypes, Texts, LockFits, JobFits, InodeFits, IsTmp, Pending, Opened, At
<1>2. SaveInv => SavedIsOnDisk
  BY EditorFits DEF SavedIsOnDisk, ContentFits, Agrees, Known, At
<1> QED
  BY <1>1, <1>2, SpecInv, PTL DEF SavesAreSound

\* However the calls of the editors interleave, a save without -f under a lock
\* overwrites no text that its editor has not seen, but for one that -f put there.
THEOREM NothingUnseenIsLost == Spec => KeepsUnseen
<1> DEFINE Keeps == \A e \in Editors :
                      LET old == file[dir[job[e].name]]
                      IN job[e].held /\ buf[e].sure /\ ~job[e].force /\ Overwrites(e) =>
                           ~old.whole \/ old.forced \/ old.text \in seen[e]
<1>1. SaveInv => Keeps
  BY EditorFits DEF Overwrites, At, ContentFits, Known
<1>2. SaveInv /\ [Next]_vars => [Keeps]_vars
  BY <1>1
<1> QED
  BY <1>2, SpecInv, PTL DEF Spec, KeepsUnseen

-----------------------------------------------------------------------------
(* The refinement *)

\* What an onlooker sees under n is what it was.
Same(n) ==
  /\ dir'[n] = dir[n]
  /\ dir[n] # 0 => /\ file'[dir[n]].whole = file[dir[n]].whole
                   /\ file'[dir[n]].text = file[dir[n]].text

LEMMA DiskStays == ASSUME \A n \in Names : Same(n) PROVE Disk' = Disk
  BY DEF Disk, Same

LEMMA DiskPut ==
  ASSUME NEW e \in Editors, NEW n \in Names, \A m \in Names \ {n} : Same(m),
         dir'[n] # 0, file'[dir'[n]].whole, file'[dir'[n]].text = buf[e].text
  PROVE  Store!Next
<1>1. Disk' = [Disk EXCEPT ![n] = <<"whole", buf[e].text>>]
  BY DEF Disk, Same
<1> QED
  BY <1>1 DEF Store!Next, Store!Put

LEMMA DiskTear ==
  ASSUME NEW S \in SUBSET Direct, \A n \in Names \ S : Same(n),
         \A n \in S : dir'[n] # 0 /\ ~file'[dir'[n]].whole
  PROVE  Store!Next
<1>1. Disk' = [n \in Names |-> IF n \in S THEN <<"torn">> ELSE Disk[n]]
  BY DEF Disk, Same
<1> QED
  BY <1>1 DEF Store!Next, Store!Tear

LEMMA DiskTearsOne ==
  ASSUME NEW k \in Direct, \A m \in Names \ {k} : Same(m), dir'[k] # 0, ~file'[dir'[k]].whole
  PROVE  Store!Next
<1> DEFINE S == {k}
<1>1. S \in SUBSET Direct /\ \A n \in S : n = k
  OBVIOUS
<1>2. \A n \in Names \ S : Same(n)
  OBVIOUS
<1> HIDE DEF S
<1> QED
  BY <1>1, <1>2, DiskTear

\* A step that writes one inode and no name
LEMMA InodeShown ==
  ASSUME Types, NEW i \in Inodes, OnlyInode(i), dir' = dir
  PROVE  \A n \in Names : dir[n] # i => Same(n)
  BY DEF Types, OnlyInode, Same

LEMMA TruncateShown == ASSUME SaveInv, NEW e \in Editors, Truncate(e) PROVE Store!Next
<1> DEFINE n == job[e].name
           i == IF dir[n] = 0 THEN FreeInode ELSE dir[n]
<1>1. /\ At(e, "clash") /\ n \in Direct /\ n \in Names
      /\ file' = [file EXCEPT ![i] = Written(e, 0, FALSE)] /\ dir' = [dir EXCEPT ![n] = i]
  BY NamesAssumption DEF Truncate
<1>2. i \in Inodes /\ \A m \in Names \ {n} : dir[m] # i
  <2>1. Types /\ Linked /\ job[e].ino = 0
    BY <1>1, EditorFits DEF SaveInv, JobFits, At
  <2> QED
    BY <1>1, <2>1, FreeInodeIsFree DEF Types, Linked
<1>3. /\ dir'[n] = i /\ ~file'[i].whole
      /\ \A m \in Names \ {n} : Same(m)
  BY <1>1, <1>2 DEF SaveInv, Types, Written, Same
<1>4. PICK k \in Names : k = n
  BY <1>1
<1> HIDE DEF n, i
<1> QED
  BY <1>1, <1>2, <1>3, <1>4, ZeroIsNoInode, DiskTearsOne

LEMMA WriteShown ==
  ASSUME SaveInv, NEW e \in Editors, Write(e) \/ WriteFails(e)
  PROVE  Store!Next \/ Disk' = Disk
<1>1. PICK n \in Names, i \in Inodes : n = job[e].name /\ i = job[e].ino
  BY EditorFits DEF JobFits, Write, WriteFails, At, Opened, Resting
<1>2. PICK whole \in BOOLEAN : file' = [file EXCEPT ![i] = Written(e, buf[e].text, whole)]
  BY <1>1 DEF Write, WriteFails
<1>3. /\ At(e, "write") /\ dir' = dir /\ Types /\ Linked /\ JobFits(e) /\ InodeFits(e)
  BY EditorFits DEF Write, WriteFails, SaveInv
<1>4. /\ OnlyInode(i) /\ file'[i].whole = whole /\ file'[i].text = buf[e].text
  BY <1>2, <1>3 DEF OnlyInode, Types, Written
<1>5. \A m \in Names : dir[m] # i => Same(m)
  BY <1>3, <1>4, InodeShown
<1>6. CASE job[e].tmp
  <2>1. \A m \in Names : dir[m] # i
    BY <1>1, <1>3, <1>6 DEF InodeFits, IsTmp, Pending, At
  <2> QED
    BY <1>5, <2>1, DiskStays
<1>7. CASE ~job[e].tmp
  <2>1. dir[n] = i /\ n \in Direct /\ i # 0
    BY <1>1, <1>3, <1>7, ZeroIsNoInode DEF InodeFits, JobFits, At, Opened
  <2>2. \A m \in Names \ {n} : Same(m)
    BY <1>3, <1>5, <2>1 DEF Linked
  <2>3. dir'[n] = i
    BY <1>3, <2>1
  <2>4. CASE whole
    BY <1>4, <2>1, <2>2, <2>3, <2>4, DiskPut
  <2>5. CASE ~whole
    BY <1>4, <2>1, <2>2, <2>3, <2>5, DiskTearsOne
  <2> QED
    BY <2>4, <2>5
<1> QED
  BY <1>6, <1>7

LEMMA RenameShown == ASSUME SaveInv, NEW e \in Editors, Rename(e) PROVE Store!Next
<1>1. PICK n \in Names, i \in Inodes : n = job[e].name /\ i = job[e].ino
  BY EditorFits DEF JobFits, Rename, At, Opened, Resting
<1>2. /\ At(e, "rename") /\ dir' = [dir EXCEPT ![n] = i] /\ file' = file
      /\ Types /\ JobFits(e) /\ InodeFits(e)
  BY <1>1, EditorFits DEF Rename, SaveInv
<1>3. file[i].whole /\ file[i].text = buf[e].text
  BY <1>1, <1>2 DEF JobFits, InodeFits, IsTmp, Pending, At
<1>4. dir'[n] = i /\ i # 0 /\ \A m \in Names \ {n} : Same(m)
  BY <1>2, ZeroIsNoInode DEF Types, Same
<1> QED
  BY <1>2, <1>3, <1>4, DiskPut

\* What a loss of power tears has not been renamed, when renamed files survive it.
LEMMA PowerShown == ASSUME SaveInv, Durable, PowerLoss PROVE Store!Next
<1> DEFINE S == {n \in Names : dir[n] # 0 /\ ~(file[dir[n]].whole /\ file[dir[n]].safe)}
<1>1. Fsync /\ dir' = dir /\ Types /\ RenamedIsWhole
  BY DEF PowerLoss, Durable, SaveInv
<1>2. \A i \in Inodes : /\ file'[i].whole <=> file[i].whole /\ file[i].safe
                        /\ file'[i].text = file[i].text
  BY <1>1 DEF PowerLoss, Types, FileTypes
<1>3. S \in SUBSET Direct
  BY <1>1 DEF RenamedIsWhole
<1>4. \A n \in Names \ S : Same(n)
  <2> SUFFICES ASSUME NEW n \in Names, dir[n] # 0, file[dir[n]].whole, file[dir[n]].safe
               PROVE  Same(n)
    BY <1>1 DEF Same
  <2>1. dir[n] \in Inodes /\ file[dir[n]].whole \in BOOLEAN /\ file'[dir[n]].whole \in BOOLEAN
    BY <1>1 DEF Types, FileTypes, PowerLoss
  <2> QED
    BY <1>1, <1>2, <2>1 DEF Same
<1>5. \A n \in S : dir'[n] # 0 /\ ~file'[dir'[n]].whole
  BY <1>1, <1>2 DEF Types
<1> HIDE DEF S
<1> QED
  BY <1>3, <1>4, <1>5, DiskTear

LEMMA StepShown == ASSUME SaveInv, Durable, [Next]_vars PROVE [Store!Next]_Disk
<1>1. ASSUME UNCHANGED diskVars PROVE Disk' = Disk
  BY <1>1 DEF diskVars, Disk
<1>2. CASE UNCHANGED vars
  BY <1>1, <1>2 DEF vars
<1>3. CASE PowerLoss
  BY <1>3, PowerShown
<1>4. ASSUME NEW e \in Editors, EditorStep(e) PROVE [Store!Next]_Disk
  <2>1. Types /\ JobFits(e) /\ InodeFits(e) /\ job[e] \in JobTypes
    BY EditorFits
  <2>2. CASE ~SaveStep(e)
    BY <1>1, <1>4, <2>2
    DEF EditorStep, Open, Save, StartSave, Read, LoadFails, Hold, Edit, Undo, Close, Crash
  <2>3. CASE \/ Lock(e) \/ CannotLock(e) \/ Clash(e) \/ KeepAsIs(e) \/ OpenFails(e)
             \/ LaterFails(e) \/ Undone(e) \/ Saved(e)
    BY <1>1, <2>3
    DEF Lock, CannotLock, Clash, KeepAsIs, OpenFails, LaterFails, Undone, Saved
  <2>4. CASE Touch(e)
    <3>1. PICK n \in Names : n = job[e].name
      BY <2>1, <2>4 DEF Touch, JobFits, At, Resting
    <3>2. /\ dir' = dir /\ dir[n] \in Inodes
          /\ file' = [file EXCEPT ![dir[n]].mtime = clock + 1]
      BY <2>1, <2>4, <3>1 DEF Touch, Types
    <3>3. \A m \in Names : Same(m)
      BY <2>1, <3>2 DEF Types, FileTypes, Same
    <3> QED
      BY <3>3, DiskStays
  <2>5. CASE CreateTmp(e)
    <3>1. job[e].ino = 0 /\ dir' = dir
          /\ file' = [file EXCEPT ![FreeInode] = Written(e, 0, FALSE)]
      BY <2>1, <2>5 DEF CreateTmp, JobFits, At
    <3>2. FreeInode \in Inodes /\ \A n \in Names : dir[n] # FreeInode
      BY <2>1, <3>1, FreeInodeIsFree
    <3>3. \A m \in Names : Same(m)
      BY <2>1, <3>1, <3>2 DEF Types, Same
    <3> QED
      BY <3>3, DiskStays
  <2>6. CASE Flush(e)
    <3>1. \A m \in Names : Same(m)
      BY <2>1, <2>6 DEF Flush, Types, FileTypes, Same
    <3> QED
      BY <3>1, DiskStays
  <2> QED
    BY <2>2, <2>3, <2>4, <2>5, <2>6, TruncateShown, WriteShown, RenameShown DEF SaveStep
<1> QED
  BY <1>2, <1>3, <1>4 DEF Next

\* A file that is saved through a temporary one changes at once, from one
\* whole text to another, whatever fails in the course of the save; for a loss
\* of power this takes the option fsync.
THEOREM SavesAreAtomic == ASSUME Durable PROVE Spec => SavesAtOnce
<1>1. Init => Store!Init
  <2> SUFFICES ASSUME Init, NEW n \in Names PROVE Disk[n] # <<"torn">>
    BY DEF Store!Init
  <2>1. Disk[n] = IF dir[n] = 0 THEN <<"nothing">> ELSE <<"whole", file[dir[n]].text>>
    BY InitInv DEF Init, SaveInv, Types, Disk
  <2> QED
    BY <2>1
<1>2. SaveInv /\ [Next]_vars => [Store!Next]_Disk
  BY StepShown
<1> QED
  BY <1>1, <1>2, SpecInv, PTL DEF Spec, SavesAtOnce, Store!Spec
=============================================================================
