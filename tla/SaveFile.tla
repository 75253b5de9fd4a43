------------------------------ MODULE SaveFile ------------------------------
(***************************************************************************)
(* How a Buffer gets from a file and back into it: load_buffer and         *)
(* save_buffer (src/load-save.c) inside window_open_buffer (src/window.c)  *)
(* and cmd_save (src/commands.c).                                          *)
(*                                                                         *)
(* A save writes a temporary file beside the old one and renames it over   *)
(* the old one; where that cannot be done (below /tmp/, a file with hard   *)
(* links, a directory without write permission) it truncates the file and  *)
(* writes in place.  Several editors may have the same file; each system   *)
(* call is a step, may fail, and may be the last thing an editor does      *)
(* before it is killed or the machine loses power.                         *)
(*                                                                         *)
(* A text is a number: an edit makes a new one.  What stat tells of a file *)
(* is its inode and a time that no two writes share, which stands for the  *)
(* mtime and size that stat_changed compares.  lock is the registry that   *)
(* module FileLocks refines: who holds which file.                         *)
(***************************************************************************)
EXTENDS Naturals, FiniteSets

CONSTANTS
  Editors,      \* editor processes
  Names,        \* absolute filenames
  Direct,       \* names for which tmp_file fails or is not called
  There,        \* the name that has a file at first
  NoName,       \* Buffer::abs_filename of a Buffer without a file
  Nobody,       \* holder of a file that is not locked
  LockFiles,    \* global option lock-files
  Fsync,        \* local option fsync
  MayFail,      \* system calls may fail
  MayLosePower, \* the machine may lose power, which ends the behavior
  Flags,        \* values of the -f flag of "save", for each editor
  MaxText,      \* bound: texts
  MaxTime       \* bound: writes to files

ASSUME NamesAssumption ==
  /\ Direct \subseteq Names
  /\ There \in Names
  /\ NoName \notin Names
  /\ Nobody \notin Editors
ASSUME SizesAssumption ==
  /\ IsFiniteSet(Editors) /\ IsFiniteSet(Names)
  /\ MaxText \in Nat /\ MaxTime \in Nat
ASSUME FlagsAssumption ==
  /\ {LockFiles, Fsync, MayFail, MayLosePower} \subseteq BOOLEAN
  /\ Flags \in [Editors -> SUBSET BOOLEAN]

VARIABLES
  file,   \* inodes: text, is it all there, mtime, is it on the medium, and written
          \* with -f (for the properties)
  dir,    \* the inode under each name, 0 for none
  lock,   \* lock[n]: the editor that holds n
  buf,    \* buf[e]: the Buffer of e; sure: info was taken under the lock, or at
          \* the load (for the properties)
  job,    \* job[e]: the command that e runs
  texts,  \* the last text made
  clock,  \* the time of the last write
  seen    \* seen[e]: texts that e has loaded or written (for the properties)

diskVars == <<file, dir>>
counters == <<texts, clock>>
vars == <<diskVars, lock, buf, job, counters, seen>>

Inodes == 1..(Cardinality(Names) + Cardinality(Editors))
NoStat == [ino |-> 0, mtime |-> 0]
NoBuf == [name |-> NoName, text |-> 0, saved |-> 0, info |-> NoStat,
          sure |-> FALSE, locked |-> FALSE, readonly |-> FALSE]
Idle == [pc |-> "idle", name |-> NoName, force |-> FALSE, st |-> NoStat,
         new |-> FALSE, ino |-> 0, tmp |-> FALSE, held |-> FALSE]

InUse == {dir[n] : n \in Names} \cup {job[e].ino : e \in Editors}
FreeInode == CHOOSE i \in Inodes : i \notin InUse

Stat(n) == IF dir[n] = 0 THEN NoStat
           ELSE [ino |-> dir[n], mtime |-> file[dir[n]].mtime]

Modified(e) == buf[e].text # buf[e].saved
Own(e) == job[e].name = buf[e].name

\* Whether e holds the file that it saves
Holds(e) == IF Own(e) THEN buf[e].locked ELSE job[e].new

SetBuf(e, b) == buf' = [buf EXCEPT ![e] = b]
SetJob(e, j) == job' = [job EXCEPT ![e] = j]
Goto(e, pc) == SetJob(e, [job[e] EXCEPT !.pc = pc])
At(e, pc) == job[e].pc = pc

Forget(S) == seen' = [e \in Editors |-> IF e \in S THEN {} ELSE seen[e]]

Tick == clock < MaxTime /\ clock' = clock + 1
NewText == texts < MaxText /\ texts' = texts + 1

-----------------------------------------------------------------------------
(* window_open_buffer, load_buffer *)

\* open and fstat; without the file, a new and empty Buffer
Open(e, n) ==
  LET there == dir[n] # 0
  IN /\ At(e, "idle") /\ buf[e].name = NoName
     /\ SetJob(e, [Idle EXCEPT !.pc = IF there THEN "read" ELSE "hold",
                               !.name = n, !.ino = dir[n]])
     /\ SetBuf(e, [NoBuf EXCEPT !.name = n, !.info = Stat(n), !.sure = TRUE])
     /\ UNCHANGED <<diskVars, lock, counters, seen>>

\* What read_blocks gets: of a file that is being written in place it is a
\* part, which is a text of its own.
Got(e) == LET f == file[job[e].ino] IN IF f.whole THEN f.text ELSE texts + 1

\* Variant with a bug: the file is looked at by its name, after the read.
ReadThenStat(e) ==
  /\ At(e, "read")
  /\ IF Got(e) = texts + 1 THEN NewText ELSE UNCHANGED texts
  /\ SetBuf(e, [buf[e] EXCEPT !.text = Got(e), !.saved = Got(e),
                              !.info = Stat(job[e].name)])
  /\ seen' = [seen EXCEPT ![e] = @ \cup {Got(e)}]
  /\ SetJob(e, [job[e] EXCEPT !.pc = "hold", !.ino = 0])
  /\ UNCHANGED <<diskVars, lock, clock>>

Read(e) ==
  /\ At(e, "read")
  /\ IF Got(e) = texts + 1 THEN NewText ELSE UNCHANGED texts
  /\ SetBuf(e, [buf[e] EXCEPT !.text = Got(e), !.saved = Got(e)])
  /\ seen' = [seen EXCEPT ![e] = @ \cup {Got(e)}]
  /\ SetJob(e, [job[e] EXCEPT !.pc = "hold", !.ino = 0])
  /\ UNCHANGED <<diskVars, lock, clock>>

\* error of open, fstat or read: the Buffer is freed again
LoadFails(e) ==
  /\ MayFail
  /\ At(e, "read")
  /\ SetBuf(e, NoBuf) /\ SetJob(e, Idle) /\ Forget({e})
  /\ UNCHANGED <<diskVars, lock, counters>>

\* lock_file, and the read-only mark of a Buffer that does not get its lock
Hold(e) ==
  LET n == job[e].name
      free == LockFiles /\ lock[n] = Nobody
  IN /\ At(e, "hold")
     /\ lock' = IF free THEN [lock EXCEPT ![n] = e] ELSE lock
     /\ SetBuf(e, [buf[e] EXCEPT !.locked = free,
                                 !.readonly = LockFiles /\ ~free])
     /\ SetJob(e, Idle)
     /\ UNCHANGED <<diskVars, counters, seen>>

Edit(e) ==
  /\ At(e, "idle") /\ buf[e].name # NoName
  /\ NewText
  /\ SetBuf(e, [buf[e] EXCEPT !.text = texts + 1])
  /\ UNCHANGED <<diskVars, lock, job, clock, seen>>

\* cmd_undo as far as the saved change
Undo(e) ==
  /\ At(e, "idle") /\ Modified(e)
  /\ SetBuf(e, [buf[e] EXCEPT !.text = buf[e].saved])
  /\ UNCHANGED <<diskVars, lock, job, counters, seen>>

\* cmd_close without -f; with it, as in Crash
Close(e) ==
  /\ At(e, "idle") /\ buf[e].name # NoName /\ ~Modified(e)
  /\ lock' = IF buf[e].locked THEN [lock EXCEPT ![buf[e].name] = Nobody] ELSE lock
  /\ SetBuf(e, NoBuf) /\ Forget({e})
  /\ UNCHANGED <<diskVars, job, counters>>

-----------------------------------------------------------------------------
(* cmd_save *)

\* The way out for an error; the lock of another name is given back.
Fail(e) ==
  /\ lock' = IF job[e].new THEN [lock EXCEPT ![job[e].name] = Nobody] ELSE lock
  /\ SetJob(e, Idle)

NeedsLock(e, n) == LockFiles /\ ~(n = buf[e].name /\ buf[e].locked)

StartSave(e, n, force) ==
  /\ At(e, "idle") /\ buf[e].name # NoName
  /\ n = buf[e].name => force \/ ~buf[e].readonly
  /\ SetJob(e, [Idle EXCEPT !.pc = IF NeedsLock(e, n) THEN "lock" ELSE "clash",
                            !.name = n, !.force = force, !.st = Stat(n),
                            !.held = buf[e].locked /\ n = buf[e].name])
  /\ UNCHANGED <<diskVars, lock, buf, counters, seen>>

\* Variant with a bug: nobody compares the file with Buffer::file.
SaveUnchecked(e, n, force) == StartSave(e, n, force)

\* "save [-f] [n]" as far as the stat, which stat_changed compares; a read-only Buffer, a file that was
\* "modified by another process" and an error of stat end it with no change.
Save(e, n, force) ==
  /\ n = buf[e].name /\ ~force => Stat(n) \in {NoStat, buf[e].info}
  /\ StartSave(e, n, force)

\* Who has no lock on the file yet tries to get one, and has to use -f
\* without it.
Lock(e) ==
  LET n == job[e].name
      got == lock[n] \in {Nobody, e}
  IN /\ At(e, "lock")
     /\ got \/ job[e].force
     /\ lock' = IF got THEN [lock EXCEPT ![n] = e] ELSE lock
     /\ SetBuf(e, [buf[e] EXCEPT !.locked = @ \/ (got /\ Own(e))])
     /\ SetJob(e, [job[e] EXCEPT !.pc = "clash", !.new = got /\ ~Own(e)])
     /\ UNCHANGED <<diskVars, counters, seen>>

CannotLock(e) ==
  /\ At(e, "lock")
  /\ ~job[e].force
  /\ MayFail \/ lock[job[e].name] \notin {Nobody, e}
  /\ Fail(e)
  /\ UNCHANGED <<diskVars, buf, counters, seen>>

\* "Use -f to overwrite": the name of another file was there at the stat.
Clashes(e) == job[e].st # NoStat /\ ~Own(e) /\ ~job[e].force

Clash(e) ==
  /\ At(e, "clash") /\ Clashes(e)
  /\ Fail(e)
  /\ UNCHANGED <<diskVars, buf, counters, seen>>

\* Nothing has changed: Buffer and file are as they were loaded or saved.
Unmodified(e) ==
  /\ job[e].st # NoStat
  /\ Own(e)
  /\ job[e].st = buf[e].info
  /\ ~Modified(e)

\* Option save-unmodified=none
KeepAsIs(e) ==
  /\ At(e, "clash") /\ ~Clashes(e) /\ Unmodified(e)
  /\ SetJob(e, Idle)
  /\ UNCHANGED <<diskVars, lock, buf, counters, seen>>

\* Option save-unmodified=touch: utimensat by name, and the same time in
\* Buffer::file; without the file, the save goes on
Touch(e) ==
  /\ At(e, "clash") /\ ~Clashes(e) /\ Unmodified(e)
  /\ dir[job[e].name] # 0
  /\ Tick
  /\ file' = [file EXCEPT ![dir[job[e].name]].mtime = clock + 1]
  /\ SetBuf(e, [buf[e] EXCEPT !.info.mtime = clock + 1,
                              !.sure = @ /\ job[e].held])
  /\ SetJob(e, Idle)
  /\ UNCHANGED <<dir, lock, texts, seen>>

-----------------------------------------------------------------------------
(* save_buffer *)

Written(e, t, whole) == [text |-> t, whole |-> whole, mtime |-> clock',
                         safe |-> FALSE, forced |-> job[e].force]

\* tmp_file: mkstemp beside the file
CreateTmp(e) ==
  /\ At(e, "clash") /\ ~Clashes(e) /\ job[e].name \notin Direct
  /\ UNCHANGED counters
  /\ file' = [file EXCEPT ![FreeInode] = Written(e, 0, FALSE)]
  /\ SetJob(e, [job[e] EXCEPT !.pc = "write", !.st = NoStat, !.ino = FreeInode, !.tmp = TRUE])
  /\ UNCHANGED <<dir, lock, buf, seen>>

\* open(O_CREAT | O_TRUNC)
Truncate(e) ==
  LET n == job[e].name
      i == IF dir[n] = 0 THEN FreeInode ELSE dir[n]
  IN /\ At(e, "clash") /\ ~Clashes(e) /\ n \in Direct
     /\ Tick
     /\ file' = [file EXCEPT ![i] = Written(e, 0, FALSE)]
     /\ dir' = [dir EXCEPT ![n] = i]
     /\ SetJob(e, [job[e] EXCEPT !.pc = "write", !.st = NoStat, !.ino = i])
     /\ UNCHANGED <<lock, buf, texts, seen>>

OpenFails(e) ==
  /\ MayFail
  /\ At(e, "clash") /\ ~Clashes(e) /\ job[e].name \in Direct
  /\ Fail(e)
  /\ UNCHANGED <<diskVars, buf, counters, seen>>

\* write_buffer and its ftruncate.  Two editors that write the same inode
\* may mix their texts.
Write(e) ==
  \E whole \in BOOLEAN :
    /\ At(e, "write")
    /\ ~whole => \E d \in Editors \ {e} :
                   job[d].ino = job[e].ino /\ ~At(d, "read")
    /\ Tick
    /\ file' = [file EXCEPT ![job[e].ino] = Written(e, buf[e].text, whole)]
    /\ Goto(e, "flush")
    /\ seen' = [seen EXCEPT ![e] = @ \cup {buf[e].text}]
    /\ UNCHANGED <<dir, lock, buf, texts>>

\* Variant with a bug: fsync is left to the kernel.
FlushLater(e) ==
  /\ At(e, "flush")
  /\ Goto(e, IF job[e].tmp THEN "rename" ELSE "done")
  /\ UNCHANGED <<diskVars, lock, buf, counters, seen>>

\* fsync, if the option is set, and close
Flush(e) ==
  /\ At(e, "flush")
  /\ file' = [file EXCEPT ![job[e].ino].safe = Fsync]
  /\ Goto(e, IF job[e].tmp THEN "rename" ELSE "done")
  /\ UNCHANGED <<dir, lock, buf, counters, seen>>

Rename(e) ==
  /\ At(e, "rename")
  /\ dir' = [dir EXCEPT ![job[e].name] = job[e].ino]
  /\ Goto(e, "done")
  /\ UNCHANGED <<file, lock, buf, counters, seen>>

\* An error of write, ftruncate, fsync, close or rename: what was written
\* by then is in the file.
WriteFails(e) ==
  /\ MayFail
  /\ At(e, "write")
  /\ Tick
  /\ file' = [file EXCEPT ![job[e].ino] = Written(e, buf[e].text, FALSE)]
  /\ Goto(e, "undo")
  /\ UNCHANGED <<dir, lock, buf, texts, seen>>

LaterFails(e) ==
  /\ MayFail
  /\ job[e].pc \in {"flush", "rename"}
  /\ Goto(e, "undo")
  /\ UNCHANGED <<diskVars, lock, buf, counters, seen>>

\* Variant with a bug: a failed save counts as one.
UndoneCounts(e) ==
  /\ At(e, "undo")
  /\ SetBuf(e, [buf[e] EXCEPT !.info = IF job[e].tmp THEN @ ELSE Stat(job[e].name),
                              !.sure = IF job[e].tmp THEN @ ELSE Holds(e),
                              !.saved = buf[e].text])
  /\ Fail(e)
  /\ UNCHANGED <<diskVars, counters, seen>>

\* unlink of the temporary file, or buffer_stat of the file in place
Undone(e) ==
  /\ At(e, "undo")
  /\ SetBuf(e, [buf[e] EXCEPT !.info = IF job[e].tmp THEN @ ELSE Stat(job[e].name),
                              !.sure = IF job[e].tmp THEN @ ELSE Holds(e)])
  /\ Fail(e)
  /\ UNCHANGED <<diskVars, counters, seen>>

\* Variant with a bug: the lock of the old name counts for the new one.
SavedStaysLocked(e) ==
  LET n == job[e].name
  IN /\ At(e, "done")
     /\ SetBuf(e, [buf[e] EXCEPT !.info = Stat(n), !.saved = buf[e].text,
                                 !.readonly = FALSE, !.name = n])
     /\ SetJob(e, Idle)
     /\ UNCHANGED <<diskVars, lock, counters, seen>>

\* buffer_stat, and what cmd_save does after a successful save_buffer: the
\* Buffer takes the new name, and the lock of the old one is given up.
Saved(e) ==
  LET n == job[e].name
      old == buf[e].name
  IN /\ At(e, "done")
     /\ SetBuf(e, [buf[e] EXCEPT !.info = IF dir[n] = 0 THEN @ ELSE Stat(n),
                                 !.saved = buf[e].text,
                                 !.readonly = FALSE,
                                 !.name = n,
                                 !.sure = Holds(e),
                                 !.locked = Holds(e)])
     /\ lock' = IF ~Own(e) /\ buf[e].locked THEN [lock EXCEPT ![old] = Nobody] ELSE lock
     /\ SetJob(e, Idle)
     /\ UNCHANGED <<diskVars, counters, seen>>

-----------------------------------------------------------------------------
(* Crashes *)

Freed(S) == [n \in Names |-> IF lock[n] \in S THEN Nobody ELSE lock[n]]

\* An editor is killed, and started again; its record of locks ends with it.
Crash(e) ==
  /\ buf[e] # NoBuf
  /\ SetBuf(e, NoBuf) /\ SetJob(e, Idle) /\ Forget({e})
  /\ lock' = Freed({e})
  /\ UNCHANGED <<diskVars, counters>>

\* What was not flushed is lost.  A rename may be lost as well, which is the
\* loss of power before it.
PowerLoss ==
  /\ MayLosePower
  /\ \A e \in Editors : ~At(e, "off")
  /\ file' = [i \in Inodes |-> [file[i] EXCEPT !.whole = @ /\ file[i].safe]]
  /\ buf' = [e \in Editors |-> NoBuf]
  /\ job' = [e \in Editors |-> [Idle EXCEPT !.pc = "off"]]
  /\ lock' = Freed(Editors) /\ Forget(Editors)
  /\ UNCHANGED <<dir, texts, clock>>

-----------------------------------------------------------------------------
SaveStep(e) ==
  \/ Lock(e) \/ CannotLock(e) \/ Clash(e)
  \/ KeepAsIs(e) \/ Touch(e)
  \/ CreateTmp(e) \/ Truncate(e) \/ OpenFails(e) \/ Write(e) \/ WriteFails(e)
  \/ Flush(e) \/ Rename(e) \/ LaterFails(e)
  \/ Undone(e) \/ Saved(e)

EditorStep(e) ==
  \/ \E n \in Names : Open(e, n) \/ \E force \in Flags[e] : Save(e, n, force)
  \/ Read(e) \/ LoadFails(e) \/ Hold(e)
  \/ Edit(e) \/ Undo(e) \/ Close(e) \/ Crash(e)
  \/ SaveStep(e)

Init ==
  /\ dir = [n \in Names |-> IF n = There THEN 1 ELSE 0]
  /\ file = [i \in Inodes |-> [text |-> 0, whole |-> TRUE, mtime |-> 0,
                              safe |-> TRUE, forced |-> FALSE]]
  /\ lock = [n \in Names |-> Nobody]
  /\ buf = [e \in Editors |-> NoBuf]
  /\ job = [e \in Editors |-> Idle]
  /\ texts = 0 /\ clock = 0
  /\ seen = [e \in Editors |-> {}]

Next ==
  \/ PowerLoss
  \/ \E e \in Editors : EditorStep(e)

Spec == Init /\ [][Next]_vars

-----------------------------------------------------------------------------
(* Properties *)

\* Types of the variables; who has a lock is on record with it, and there is no
\* link to a temporary file before rename(2) (src/load-save.c, src/lock.c).
TypeOK ==
  /\ file \in [Inodes -> [text : 0..MaxText, whole : BOOLEAN, mtime : 0..MaxTime,
                         safe : BOOLEAN, forced : BOOLEAN]]
  /\ dir \in [Names -> Inodes \cup {0}]
  /\ lock \in [Names -> Editors \cup {Nobody}]
  /\ \A e \in Editors :
       /\ buf[e].name \in Names \cup {NoName}
       /\ {buf[e].text, buf[e].saved} \subseteq 0..MaxText
       /\ buf[e].locked => lock[buf[e].name] = e
       /\ job[e].new => lock[job[e].name] = e
       /\ job[e].tmp => \A n \in Names : dir[n] = job[e].ino => At(e, "done")

\* The file that "e" replaces or truncates in this step
Overwrites(e) ==
  /\ dir[job[e].name] # 0
  /\ \/ At(e, "rename") /\ dir'[job[e].name] # dir[job[e].name]
     \/ At(e, "clash") /\ job'[e].pc = "write" /\ file'[dir[job[e].name]].mtime # file[dir[job[e].name]].mtime

\* A save without -f by an editor that had locked its file, and has known it
\* since the load or a save under the lock, never replaces a text which this
\* editor has neither loaded nor written, unless that text was itself forced
\* upon the file with -f: the checks of window_open_buffer and cmd_save hold
\* through every order of the system calls.
KeepsUnseen ==
  [][\A e \in Editors :
       LET old == file[dir[job[e].name]]
       IN job[e].held /\ buf[e].sure /\ ~job[e].force /\ Overwrites(e) =>
            ~old.whole \/ old.forced \/ old.text \in seen[e]]_vars

\* Whether Buffer::file is the stat of the file as it is now
Current(e) ==
  /\ buf[e].name # NoName
  /\ buf[e].info # NoStat
  /\ buf[e].info = Stat(buf[e].name)

\* When stat_changed sees no change since the load, or since a save under
\* the lock, the file holds the text of the saved change, whatever has failed
\* since, unless another editor wrote it with -f; a file that was saved in
\* place without success is torn or holds the text of that save.
SavedIsOnDisk ==
  \A e \in Editors :
    LET f == file[dir[buf[e].name]]
    IN At(e, "idle") /\ buf[e].sure /\ Current(e) =>
         \/ f.forced
         \/ buf[e].name \in Direct /\ (f.whole => f.text \in seen[e])
         \/ f.whole /\ f.text = buf[e].saved

\* Both: what the system calls leave behind, and what the Buffers know of it.
SavesAreSound == TypeOK /\ SavedIsOnDisk

\* What the names stand for, to an onlooker
Disk == [n \in Names |->
           IF dir[n] = 0 THEN <<"nothing">>
           ELSE IF file[dir[n]].whole THEN <<"whole", file[dir[n]].text>>
           ELSE <<"torn">>]

\* A file changes at once, to the text of an editor: no failure, kill or
\* loss of power in the course of a save leaves anything but the old or the
\* new text under a name that is saved through a temporary file.
Store == INSTANCE FileStore WITH
  disk <- Disk, text <- [e \in Editors |-> buf[e].text], Fragile <- Direct
SavesAtOnce == Store!Spec

=============================================================================
