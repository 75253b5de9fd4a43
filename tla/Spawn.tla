-------------------------------- MODULE Spawn --------------------------------
(***************************************************************************)
(* A child process and the pipes between it and the editor: spawn(),       *)
(* spawn_compiler() and handle_piped_data() (src/spawn.c), fork_exec() and *)
(* wait_child() (src/util/fork-exec.c).                                    *)
(*                                                                         *)
(* The child is any program: it decides to read, to write, to close a      *)
(* stream or to exit, and is then blocked until it can.  Data is counted   *)
(* in units, of which each pipe holds a few.  Each system call of the editor is *)
(* a step, and what poll reported may be out of date when it is used.      *)
(***************************************************************************)
EXTENDS Naturals, FiniteSets

CONSTANTS
  Cap,       \* capacity of the pipe of each stream
  MaxIn,     \* bound: length of the input
  MaxOut,    \* bound: what a child writes to one stream
  MayFail    \* system calls may fail

ASSUME BoundsAssumption == MaxIn \in Nat /\ MaxOut \in Nat /\ MayFail \in BOOLEAN

VARIABLES
  how,     \* SpawnContext: is it a compiler, action of each stream, length of the input
  pc,      \* where the editor is
  fd,      \* the ends of pipes that the editor has open
  rev,     \* revents of poll
  wlen,    \* what was written of the input
  got,     \* length of each output
  pipe,    \* what is in each pipe
  child,   \* the child: state, stream ends, what it is about to do
  wrote,    \* what the child has written to each stream
  taken,   \* what it has read, and whether it saw the end of the input
  result   \* status of the child, and what went wrong in the editor

editorVars == <<pc, fd, rev, wlen, got, result>>
childVars == <<child, wrote, taken>>
vars == <<how, editorVars, pipe, childVars>>

STDIN == "stdin"
Outputs == {"stdout", "stderr"}
Streams == {STDIN} \cup Outputs
Statuses == {"ok", "code", "signal"}

ASSUME CapAssumption == Cap \in [Streams -> Nat \ {0}]

None == [i \in Streams |-> {}]
NoChild == [state |-> "none", ends |-> {}, want |-> "none", greedy |-> FALSE]

Piped(i) == how.actions[i] = "pipe"
Piping == {i \in Streams : Piped(i)}

Goto(l) == pc' = l
Complain(what) == result' = [result EXCEPT !.error = what]

-----------------------------------------------------------------------------
(* spawn, spawn_compiler, fork_exec *)

\* The pipes are there; an error of open, pipe or fcntl closes them again.
CannotOpen ==
  /\ pc = "start" /\ MayFail
  /\ Goto("done") /\ Complain("open")
  /\ UNCHANGED <<how, fd, rev, wlen, got, pipe, childVars>>

Fork ==
  /\ pc = "start"
  /\ Goto("exec")
  /\ fd' = Piping
  /\ \E greedy \in BOOLEAN :
       child' = [state |-> "forked", ends |-> Streams, want |-> "none", greedy |-> greedy]
  /\ UNCHANGED <<how, rev, wlen, got, pipe, wrote, taken, result>>

\* execvp closes the error pipe, of which fork_exec then reads the end; the
\* editor closes the ends of the child.
Exec ==
  /\ pc = "exec" /\ child.state = "forked"
  /\ child' = [child EXCEPT !.state = "runs"]
  /\ Goto(IF how.compiler THEN "errors" ELSE IF Piping = {} THEN "wait" ELSE "begin")
  /\ UNCHANGED <<how, fd, rev, wlen, got, pipe, wrote, taken, result>>

\* dup3 or execvp fails: errno comes through the error pipe, the child is
\* waited for, and spawn closes the pipes.
ExecFails ==
  /\ pc = "exec" /\ child.state = "forked" /\ MayFail
  /\ child' = NoChild
  /\ fd' = {}
  /\ Goto("done") /\ Complain("exec")
  /\ UNCHANGED <<how, rev, wlen, got, pipe, wrote, taken>>

\* read_errors: a blocking read of the only pipe, to its end
ReadErrors ==
  /\ pc = "errors"
  /\ \E i \in fd :
       \/ /\ pipe[i] > 0
          /\ pipe' = [pipe EXCEPT ![i] = 0]
          /\ got' = [got EXCEPT ![i] = @ + pipe[i]]
          /\ UNCHANGED <<pc, fd>>
       \/ /\ pipe[i] = 0 /\ i \notin child.ends
          /\ fd' = {} /\ Goto("wait")
          /\ UNCHANGED <<pipe, got>>
  /\ UNCHANGED <<how, rev, wlen, childVars, result>>

-----------------------------------------------------------------------------
(* handle_piped_data *)

\* Without input the pipe is closed at once.
Begin ==
  /\ pc = "begin"
  /\ fd' = IF how.input = 0 THEN fd \ {STDIN} ELSE fd
  /\ Goto(IF fd' = {} THEN "wait" ELSE "poll")
  /\ UNCHANGED <<how, rev, wlen, got, pipe, childVars, result>>

Events(i) ==
  IF i = STDIN
  THEN (IF pipe[STDIN] < Cap[STDIN] THEN {"POLLOUT"} ELSE {})
       \cup (IF STDIN \notin child.ends THEN {"POLLERR"} ELSE {})
  ELSE (IF pipe[i] > 0 THEN {"POLLIN"} ELSE {})
       \cup (IF i \notin child.ends THEN {"POLLHUP"} ELSE {})

\* Variant with a bug: the input goes first, the output is for later.
PollInputFirst ==
  /\ pc = "poll"
  /\ rev' = [i \in Streams |-> IF i = STDIN \/ STDIN \notin fd THEN Events(i) ELSE {}]
  /\ \E i \in fd : rev'[i] # {}
  /\ Goto("read")
  /\ UNCHANGED <<how, fd, wlen, got, pipe, childVars, result>>

\* poll waits for an event of any of the three.
Poll ==
  /\ pc = "poll"
  /\ rev' = [i \in Streams |-> IF i \in fd THEN Events(i) ELSE {}]
  /\ rev' # None
  /\ Goto("read")
  /\ UNCHANGED <<how, fd, wlen, got, pipe, childVars, result>>

\* Both outputs are read as poll has reported them; there is something to
\* read, since nobody else reads.
ReadOutputs ==
  /\ pc = "read"
  /\ \E n \in [Outputs -> 0..MaxOut] :
       /\ \A i \in Outputs : n[i] \in (IF "POLLIN" \in rev[i] THEN 1..pipe[i] ELSE {0})
       /\ pipe' = [i \in Streams |-> IF i = STDIN THEN pipe[STDIN] ELSE pipe[i] - n[i]]
       /\ got' = [i \in Outputs |-> got[i] + n[i]]
  /\ Goto("write")
  /\ UNCHANGED <<how, fd, rev, wlen, childVars, result>>

NothingToWrite ==
  /\ pc = "write" /\ "POLLOUT" \notin rev[STDIN]
  /\ Goto("hangup")
  /\ UNCHANGED <<how, fd, rev, wlen, got, pipe, childVars, result>>

\* write is never blocked: the pipe is in non-blocking mode and has room.
WriteInput ==
  /\ pc = "write" /\ "POLLOUT" \in rev[STDIN] /\ STDIN \in child.ends
  /\ \E n \in 1..(how.input - wlen) :
       /\ pipe[STDIN] + n <= Cap[STDIN]
       /\ wlen' = wlen + n
       /\ pipe' = [pipe EXCEPT ![STDIN] = @ + n]
       /\ fd' = IF wlen + n = how.input THEN fd \ {STDIN} ELSE fd
  /\ Goto("hangup")
  /\ UNCHANGED <<how, rev, got, childVars, result>>

\* EPIPE: the child has closed its input, and handle_piped_data returns.
\* Nothing tells that apart from another error of write.
BrokenPipe ==
  /\ pc = "write" /\ "POLLOUT" \in rev[STDIN] /\ STDIN \notin child.ends
  /\ Goto("close") /\ Complain("write")
  /\ UNCHANGED <<how, fd, rev, wlen, got, pipe, childVars>>

\* Variant with a bug: POLLHUP is the end, even if there is more to read.
HangUpTooEarly ==
  LET over == {i \in fd : rev[i] \cap {"POLLERR", "POLLHUP"} # {}}
  IN /\ pc = "hangup"
     /\ fd' = fd \ over
     /\ Goto(IF fd' = {} THEN "close" ELSE "poll")
     /\ rev' = None
     /\ UNCHANGED <<how, wlen, got, pipe, childVars, result>>

\* The streams that are over are closed, and when all are, the loop ends.
HangUp ==
  LET over == {i \in fd : "POLLERR" \in rev[i] \/ rev[i] = {"POLLHUP"}}
  IN /\ pc = "hangup"
     /\ fd' = fd \ over
     /\ Goto(IF fd' = {} THEN "close" ELSE "poll")
     /\ rev' = None
     /\ UNCHANGED <<how, wlen, got, pipe, childVars, result>>

\* An error of poll, read or close ends the loop as well.
PipeFails ==
  /\ MayFail
  /\ pc \in {"poll", "read", "write"}
  /\ Goto("close") /\ Complain("pipe")
  /\ UNCHANGED <<how, fd, rev, wlen, got, pipe, childVars>>

\* Variant with a bug: spawn waits before it closes the pipes.
WaitBeforeClose ==
  /\ pc = "close"
  /\ child.state \in Statuses
  /\ fd' = {} /\ rev' = None
  /\ Goto("wait")
  /\ UNCHANGED <<how, wlen, got, pipe, childVars, result>>

\* safe_xclose_all(parent_fds)
CloseAll ==
  /\ pc = "close"
  /\ fd' = {} /\ rev' = None
  /\ Goto("wait")
  /\ UNCHANGED <<how, wlen, got, pipe, childVars, result>>

\* wait_child
Wait ==
  /\ pc = "wait"
  /\ child.state \in Statuses
  /\ result' = [result EXCEPT !.status = child.state]
  /\ child' = NoChild
  /\ Goto("done")
  /\ UNCHANGED <<how, fd, rev, wlen, got, pipe, wrote, taken>>

-----------------------------------------------------------------------------
(* The child *)

Running == child.state = "runs"

Wants(w) == Running /\ child.want = w

ChildDecides ==
  /\ Running /\ child.want = "none"
  /\ \E w \in Streams \cup {"exit"} :
       /\ w = STDIN => taken.n < how.input + 1 /\ ~taken.eof
       /\ w \in Outputs => wrote[w] < MaxOut
       /\ w = "exit" /\ child.greedy => taken.eof
       /\ child' = [child EXCEPT !.want = w]
  /\ UNCHANGED <<how, editorVars, pipe, wrote, taken>>

\* Blocks until there is data, or the editor has closed the pipe.
ChildReads ==
  /\ Wants(STDIN)
  /\ \/ /\ Piped(STDIN) /\ pipe[STDIN] > 0
        /\ pipe' = [pipe EXCEPT ![STDIN] = @ - 1]
        /\ taken' = [taken EXCEPT !.n = @ + 1]
     \/ /\ pipe[STDIN] = 0 /\ STDIN \notin fd
        /\ taken' = [taken EXCEPT !.eof = TRUE]
        /\ UNCHANGED pipe
  /\ child' = [child EXCEPT !.want = "none"]
  /\ UNCHANGED <<how, editorVars, wrote>>

Dies(status) == child' = [NoChild EXCEPT !.state = status]

\* Blocks until there is room; without a reader, SIGPIPE ends the child.
ChildWrites(i) ==
  /\ Wants(i)
  /\ \/ /\ Piped(i) /\ i \notin fd
        /\ Dies("signal")
        /\ UNCHANGED <<pipe, wrote>>
     \/ /\ Piped(i) /\ i \in fd /\ pipe[i] < Cap[i]
        /\ pipe' = [pipe EXCEPT ![i] = @ + 1]
        /\ wrote' = [wrote EXCEPT ![i] = @ + 1]
        /\ child' = [child EXCEPT !.want = "none"]
     \/ /\ ~Piped(i)
        /\ wrote' = [wrote EXCEPT ![i] = @ + 1]
        /\ child' = [child EXCEPT !.want = "none"]
        /\ UNCHANGED pipe
  /\ UNCHANGED <<how, editorVars, taken>>

\* A filter may close its input before it is done.
ChildCloses ==
  /\ Running /\ child.want = "none" /\ ~child.greedy
  /\ STDIN \in child.ends
  /\ child' = [child EXCEPT !.ends = @ \ {STDIN}]
  /\ taken' = [taken EXCEPT !.eof = TRUE]
  /\ UNCHANGED <<how, editorVars, pipe, wrote>>

ChildExits ==
  /\ Wants("exit")
  /\ \E status \in {"ok", "code"} : Dies(status)
  /\ UNCHANGED <<how, editorVars, pipe, wrote, taken>>

-----------------------------------------------------------------------------
Init ==
  /\ how \in [compiler : {FALSE}, actions : [Streams -> {"null", "pipe"}], input : 0..MaxIn]
       \cup [compiler : {TRUE}, input : {0},
             actions : {[i \in Streams |-> IF i = o THEN "pipe" ELSE "null"] : o \in Outputs}]
  /\ IF how.actions[STDIN] = "pipe" THEN TRUE ELSE how.input = 0
  /\ pc = "start" /\ fd = {} /\ rev = None /\ wlen = 0
  /\ got = [i \in Outputs |-> 0]
  /\ pipe = [i \in Streams |-> 0]
  /\ child = NoChild
  /\ wrote = [i \in Outputs |-> 0]
  /\ taken = [n |-> 0, eof |-> FALSE]
  /\ result = [status |-> "none", error |-> "none"]

Editor ==
  \/ Fork \/ Exec \/ ReadErrors
  \/ Begin \/ Poll \/ ReadOutputs \/ NothingToWrite \/ WriteInput \/ BrokenPipe
  \/ HangUp \/ CloseAll \/ Wait

Failure == CannotOpen \/ ExecFails \/ PipeFails

Child ==
  ChildDecides \/ ChildReads \/ ChildCloses \/ ChildExits \/ \E i \in Outputs : ChildWrites(i)

Next == Editor \/ Failure \/ Child

\* The editor does not sleep, and the child goes on as long as it is not
\* blocked.  No system call has to fail: that must not be what ends a wait.
Fairness == WF_vars(Editor) /\ WF_vars(Child)

Spec == Init /\ [][Next]_vars /\ Fairness

-----------------------------------------------------------------------------
Done == pc = "done"

\* What a child gets to read is the input up to some point, and it sees the
\* end only after all of it, unless the editor has failed.
InputInOrder ==
  /\ taken.n + pipe[STDIN] = wlen
  /\ taken.eof /\ STDIN \in child.ends /\ result.error = "none" => taken.n = how.input

\* When spawn returns, nothing is left open, no child is left unwaited for,
\* and all that the child wrote to a pipe has been read, to the last byte
\* before its exit, unless an error was reported.
NothingIsLeft ==
  Done =>
    /\ fd = {} /\ child = NoChild
    /\ result.error = "none" => \A i \in Outputs : Piped(i) => got[i] = wrote[i]

\* Both, for whatever the child does and whichever system call fails.
SpawnIsRight == InputInOrder /\ NothingIsLeft

\* Whatever the child does with its three streams, in whatever order, spawn
\* returns: no order of reading and writing leaves both waiting.
Returns == <>Done
=============================================================================
