---------------------------- MODULE InputProofs ----------------------------
(***************************************************************************)
(* Proofs about what comes in and what is remembered of it: about Spawn,   *)
(* for pipes of any size, inputs of any length and children that write as  *)
(* much as they like; about TermFeatures, for any terminal and any order   *)
(* of its answers; about Histories, for any texts and any number of        *)
(* entries; and about CommandLine, for any lines, words and histories.     *)
(***************************************************************************)
EXTENDS Spawn, TermFeatures, Histories, CommandLine, FoldLemmas

-----------------------------------------------------------------------------
(* The inductive invariant *)

Places == {"start", "exec", "errors", "begin", "poll", "read", "write", "hangup", "close",
           "wait", "done"}
EventSets == SUBSET {"POLLIN", "POLLOUT", "POLLERR", "POLLHUP"}
Contexts == [compiler : BOOLEAN, actions : [Streams -> {"null", "pipe"}], input : Nat]
Children == [state : {"none", "forked", "runs"} \cup Statuses, ends : SUBSET Streams,
             want : Streams \cup {"none", "exit"}, greedy : BOOLEAN]

TypeOK ==
  /\ how \in Contexts
  /\ pc \in Places
  /\ fd \in SUBSET Streams
  /\ rev \in [Streams -> EventSets]
  /\ wlen \in 0..how.input
  /\ got \in [Outputs -> Nat]
  /\ pipe \in [Streams -> Nat]
  /\ child \in Children
  /\ wrote \in [Outputs -> Nat]
  /\ taken \in [n : Nat, eof : BOOLEAN]
  /\ result \in [status : Statuses \cup {"none"}, error : {"none", "open", "exec", "write",
         "pipe"}]

\* Only what was asked for is piped, and an input only where there is a pipe
\* for it; a compiler has the pipe of one output.
Asked ==
  /\ ~Piped(STDIN) => how.input = 0
  /\ how.compiler => \E o \in Outputs : Piping = {o}

\* The child is there from fork to wait, and keeps its outputs until it exits.
ChildInStep ==
  /\ pc = "start" => child = NoChild /\ ~taken.eof
  /\ pc = "done" => child = NoChild
  /\ child = NoChild => pc \in {"start", "done"}
  /\ pc = "exec" => child.state = "forked"
  /\ child.state = "none" => child = NoChild
  /\ child.state = "forked" => pc = "exec"
  /\ child.state \in {"forked", "runs"} => Outputs \subseteq child.ends
  /\ child.state \in Statuses => child.ends = {}

\* The pipes are open from fork to close, those of a compiler all at once.
FdInStep ==
  /\ fd \subseteq Piping
  /\ pc \in {"start", "wait", "done"} => fd = {}
  /\ pc \in {"exec", "errors"} => fd = Piping
  /\ pc = "errors" => how.compiler
  /\ pc = "close" /\ result.error = "none" => fd = {}

\* What poll has reported stays true of the ends that the child has closed,
\* and a pipe that nobody writes to any more stays empty.
ReportHolds ==
  pc \in {"read", "write", "hangup"} =>
    /\ "POLLHUP" \notin rev[STDIN]
    /\ "POLLERR" \in rev[STDIN] => STDIN \notin child.ends
    /\ \A i \in Outputs :
         /\ "POLLERR" \notin rev[i]
         /\ rev[i] = {"POLLHUP"} => pipe[i] = 0 /\ i \notin child.ends

\* Nothing is lost in a pipe.
Conserved ==
  /\ taken.n + pipe[STDIN] = wlen
  /\ \A i \in Outputs : Piped(i) => got[i] + pipe[i] = wrote[i]

\* A pipe is closed when all went through it, or its other end is closed.
ClosedWhenOver ==
  result.error = "none" /\ pc # "start" =>
    /\ STDIN \in child.ends /\ STDIN \notin fd => wlen = how.input
    /\ \A i \in Outputs : Piped(i) /\ i \notin fd => pipe[i] = 0 /\ i \notin child.ends

\* The child sees the end of its input for one of two reasons.
EndIsSeen ==
  taken.eof /\ STDIN \in child.ends /\ result.error = "none" => taken.n = how.input

SpawnInv ==
  /\ TypeOK /\ Asked /\ ChildInStep /\ FdInStep
  /\ ReportHolds /\ Conserved /\ ClosedWhenOver /\ EndIsSeen

LEMMA StreamNames == STDIN \notin Outputs /\ Streams = {STDIN} \cup Outputs
  BY DEF STDIN, Outputs, Streams

LEMMA InitInv == Init => SpawnInv
<1> SUFFICES ASSUME Init PROVE SpawnInv
  OBVIOUS
<1>1. TypeOK
  <2>1. how \in Contexts
    <3>1. 0..MaxIn \subseteq Nat /\ {0} \subseteq Nat
      OBVIOUS
    <3>2. \A o \in Outputs :
            [i \in Streams |-> IF i = o THEN "pipe" ELSE "null"] \in [Streams -> {"null",
                   "pipe"}]
      OBVIOUS
    <3>3. how \in [compiler : {FALSE}, actions : [Streams -> {"null", "pipe"}], input :
           0..MaxIn]
            => how \in Contexts
      BY <3>1, Zenon DEF Contexts
    <3>4. how \in [compiler : {TRUE}, input : {0},
                   actions : {[i \in Streams |-> IF i = o THEN "pipe" ELSE "null"] : o \in
                          Outputs}]
            => how \in Contexts
      <4>1. {[i \in Streams |-> IF i = o THEN "pipe" ELSE "null"] : o \in Outputs}
              \subseteq [Streams -> {"null", "pipe"}]
        BY <3>2
      <4> QED
        BY <3>1, <4>1, Zenon DEF Contexts
    <3> QED
      BY <3>3, <3>4 DEF Init
  <2>2. wlen \in 0..how.input
    BY <2>1 DEF Init, Contexts
  <2> QED
    BY <2>1, <2>2 DEF Init, TypeOK, Places, EventSets, Children, None, NoChild, Streams
<1>2. Asked
  BY DEF Init, Asked, Piping, Piped, Streams, STDIN, Outputs
<1>3. ChildInStep /\ FdInStep /\ ReportHolds
  BY DEF Init, ChildInStep, FdInStep, ReportHolds, NoChild
<1>4. Conserved /\ ClosedWhenOver /\ EndIsSeen
  BY StreamNames DEF Init, Conserved, ClosedWhenOver, EndIsSeen
<1> QED
  BY <1>1, <1>2, <1>3, <1>4 DEF SpawnInv

\* The pipes are opened, and the child is there.
LEMMA ForkInv == SpawnInv /\ Fork => SpawnInv'
<1> SUFFICES ASSUME SpawnInv, Fork PROVE SpawnInv'
  OBVIOUS
<1> USE StreamNames DEF SpawnInv, Fork, Goto, childVars
<1>1. TypeOK'
  BY DEF TypeOK, NoChild, Places, Children, Piping
<1>2. Asked'
  BY DEF Asked, Piping, Piped
<1>3. ChildInStep'
  BY DEF TypeOK, ChildInStep, Statuses, NoChild, Children
<1>4. FdInStep'
  BY DEF TypeOK, Asked, ChildInStep, FdInStep, Piping, Piped, NoChild, Children
<1>5. ReportHolds'
  BY DEF TypeOK, ReportHolds, ChildInStep, FdInStep, NoChild, Children
<1>6. Conserved'
  BY DEF TypeOK, Conserved, Piped, NoChild, Children
<1>7. ClosedWhenOver'
  BY DEF TypeOK, Contexts, Asked, ClosedWhenOver, Piping, Piped
<1>8. EndIsSeen'
  BY DEF EndIsSeen, ChildInStep
<1> QED
  BY <1>1, <1>2, <1>3, <1>4, <1>5, <1>6, <1>7, <1>8

\* The child runs.
LEMMA ExecInv == SpawnInv /\ Exec => SpawnInv'
<1> SUFFICES ASSUME SpawnInv, Exec PROVE SpawnInv'
  OBVIOUS
<1> USE StreamNames DEF SpawnInv, Exec, Goto, childVars
<1>1. TypeOK'
  BY DEF TypeOK, NoChild, Places, Children
<1>2. Asked'
  BY DEF Asked, Piping, Piped
<1>3. ChildInStep'
  BY DEF TypeOK, ChildInStep, Statuses, NoChild, Children
<1>4. FdInStep'
  BY DEF TypeOK, Asked, ChildInStep, FdInStep, Piping, Piped, NoChild, Children
<1>5. ReportHolds'
  BY DEF TypeOK, ReportHolds, ChildInStep, FdInStep, NoChild, Children
<1>6. Conserved'
  BY DEF TypeOK, Conserved, Piped, NoChild, Children
<1>7. ClosedWhenOver'
  BY DEF TypeOK, ClosedWhenOver, Conserved, ChildInStep, FdInStep, Piping, Piped, NoChild,
         Children
<1>8. EndIsSeen'
  BY DEF TypeOK, EndIsSeen, NoChild, Children
<1> QED
  BY <1>1, <1>2, <1>3, <1>4, <1>5, <1>6, <1>7, <1>8

\* The one pipe of a compiler: what is read is added, and an empty pipe that
\* the child has closed is closed.
LEMMA ReadErrorsInv == SpawnInv /\ ReadErrors => SpawnInv'
<1> SUFFICES ASSUME SpawnInv, ReadErrors PROVE SpawnInv'
  OBVIOUS
<1> USE StreamNames DEF SpawnInv, ReadErrors, Goto, childVars
<1>1. fd \subseteq Outputs /\ wlen = how.input /\ \A i \in fd : Piping = {i}
  BY DEF TypeOK, Asked, FdInStep, Contexts, Piping
<1>2. TypeOK'
  BY <1>1 DEF TypeOK, Places
<1>3. Asked'
  BY DEF Asked, Piping, Piped
<1>4. ChildInStep'
  BY DEF TypeOK, ChildInStep, Statuses, NoChild
<1>5. FdInStep'
  BY DEF TypeOK, Asked, ChildInStep, FdInStep, Piping, Piped
<1>6. ReportHolds'
  BY <1>1 DEF TypeOK, ReportHolds, ChildInStep, FdInStep
<1>7. Conserved'
  BY <1>1 DEF TypeOK, Conserved, Piped
<1>8. ClosedWhenOver'
  BY <1>1 DEF TypeOK, ClosedWhenOver, Conserved, ChildInStep, FdInStep, Piping, Piped
<1>9. EndIsSeen'
  BY DEF TypeOK, EndIsSeen
<1> QED
  BY <1>2, <1>3, <1>4, <1>5, <1>6, <1>7, <1>8, <1>9

\* The pipe of an empty input is closed.
LEMMA BeginInv == SpawnInv /\ Begin => SpawnInv'
<1> SUFFICES ASSUME SpawnInv, Begin PROVE SpawnInv'
  OBVIOUS
<1> USE StreamNames DEF SpawnInv, Begin, Goto, childVars
<1>1. TypeOK'
  BY DEF TypeOK, Places
<1>2. Asked'
  BY DEF Asked, Piping, Piped
<1>3. ChildInStep'
  BY DEF TypeOK, ChildInStep, Statuses, NoChild
<1>4. FdInStep'
  BY DEF TypeOK, Asked, ChildInStep, FdInStep, Piping, Piped
<1>5. ReportHolds'
  BY DEF TypeOK, ReportHolds, ChildInStep, FdInStep
<1>6. Conserved'
  BY DEF TypeOK, Conserved, Piped
<1>7. ClosedWhenOver'
  BY DEF TypeOK, ClosedWhenOver, Conserved, ChildInStep, FdInStep, Piping, Piped
<1>8. EndIsSeen'
  BY DEF TypeOK, EndIsSeen
<1> QED
  BY <1>1, <1>2, <1>3, <1>4, <1>5, <1>6, <1>7, <1>8

\* poll tells the state of each pipe; a closed end stays closed.
LEMMA PollInv == SpawnInv /\ Poll => SpawnInv'
<1> SUFFICES ASSUME SpawnInv, Poll PROVE SpawnInv'
  OBVIOUS
<1> USE StreamNames DEF SpawnInv, Poll, Goto, childVars
<1>1. TypeOK'
  BY DEF TypeOK, Events, Places, EventSets
<1>2. Asked'
  BY DEF Asked, Piping, Piped
<1>3. ChildInStep'
  BY DEF TypeOK, ChildInStep, Statuses, NoChild, Events
<1>4. FdInStep'
  BY DEF TypeOK, Asked, ChildInStep, FdInStep, Piping, Piped, Events
<1>5. ReportHolds'
  BY DEF TypeOK, ReportHolds, ChildInStep, FdInStep, Events
<1>6. Conserved'
  BY DEF TypeOK, Conserved, Piped, Events
<1>7. ClosedWhenOver'
  BY DEF TypeOK, ClosedWhenOver, Conserved, ChildInStep, FdInStep, Piping, Piped, Events
<1>8. EndIsSeen'
  BY DEF TypeOK, EndIsSeen, Events
<1> QED
  BY <1>1, <1>2, <1>3, <1>4, <1>5, <1>6, <1>7, <1>8

\* What is taken from the pipes is added to the outputs.
LEMMA ReadOutputsInv == SpawnInv /\ ReadOutputs => SpawnInv'
<1> SUFFICES ASSUME SpawnInv, ReadOutputs PROVE SpawnInv'
  OBVIOUS
<1> USE StreamNames DEF SpawnInv, ReadOutputs, Goto, childVars
<1>1. TypeOK'
  BY DEF TypeOK, Places
<1>2. Asked'
  BY DEF Asked, Piping, Piped
<1>3. ChildInStep'
  BY DEF TypeOK, ChildInStep, Statuses, NoChild
<1>4. FdInStep'
  BY DEF TypeOK, Asked, ChildInStep, FdInStep, Piping, Piped
<1>5. ReportHolds'
  BY DEF TypeOK, ReportHolds, ChildInStep, FdInStep
<1>6. Conserved'
  BY DEF TypeOK, Conserved, Piped
<1>7. ClosedWhenOver'
  <2>1. \A i \in Outputs : pipe[i] = 0 => pipe'[i] = 0
    BY DEF TypeOK
  <2> QED
    BY <2>1 DEF ClosedWhenOver, Piped
<1>8. EndIsSeen'
  BY DEF TypeOK, EndIsSeen
<1> QED
  BY <1>1, <1>2, <1>3, <1>4, <1>5, <1>6, <1>7, <1>8

LEMMA NothingToWriteInv == SpawnInv /\ NothingToWrite => SpawnInv'
<1> SUFFICES ASSUME SpawnInv, NothingToWrite PROVE SpawnInv'
  OBVIOUS
<1> USE StreamNames DEF SpawnInv, NothingToWrite, Goto, childVars
<1>1. TypeOK'
  BY DEF TypeOK, Places
<1>2. Asked'
  BY DEF Asked, Piping, Piped
<1>3. ChildInStep'
  BY DEF TypeOK, ChildInStep, Statuses, NoChild
<1>4. FdInStep'
  BY DEF TypeOK, Asked, ChildInStep, FdInStep, Piping, Piped
<1>5. ReportHolds'
  BY DEF TypeOK, ReportHolds, ChildInStep, FdInStep
<1>6. Conserved'
  BY DEF TypeOK, Conserved, Piped
<1>7. ClosedWhenOver'
  BY DEF TypeOK, ClosedWhenOver, Conserved, ChildInStep, FdInStep, Piping, Piped
<1>8. EndIsSeen'
  BY DEF TypeOK, EndIsSeen
<1> QED
  BY <1>1, <1>2, <1>3, <1>4, <1>5, <1>6, <1>7, <1>8

\* The pipe of the input is closed when all of it is written.
LEMMA WriteInputInv == SpawnInv /\ WriteInput => SpawnInv'
<1> SUFFICES ASSUME SpawnInv, WriteInput PROVE SpawnInv'
  OBVIOUS
<1> USE StreamNames DEF SpawnInv, WriteInput, Goto, childVars
<1>1. TypeOK'
  BY DEF TypeOK, Places, Contexts
<1>2. Asked'
  BY DEF Asked, Piping, Piped
<1>3. ChildInStep'
  BY DEF TypeOK, ChildInStep, Statuses, NoChild
<1>4. FdInStep'
  BY DEF TypeOK, Asked, ChildInStep, FdInStep, Piping, Piped
<1>5. ReportHolds'
  BY DEF TypeOK, ReportHolds, ChildInStep, FdInStep
<1>6. Conserved'
  BY DEF TypeOK, Conserved, Piped
<1>7. ClosedWhenOver'
  BY DEF TypeOK, ClosedWhenOver, Conserved, ChildInStep, FdInStep, Piping, Piped
<1>8. EndIsSeen'
  BY DEF TypeOK, EndIsSeen
<1> QED
  BY <1>1, <1>2, <1>3, <1>4, <1>5, <1>6, <1>7, <1>8

\* The error is reported, and nothing else is promised.
LEMMA BrokenPipeInv == SpawnInv /\ BrokenPipe => SpawnInv'
<1> SUFFICES ASSUME SpawnInv, BrokenPipe PROVE SpawnInv'
  OBVIOUS
<1> USE StreamNames DEF SpawnInv, BrokenPipe, Goto, Complain, childVars
<1>1. TypeOK'
  BY DEF TypeOK, Places
<1>2. Asked'
  BY DEF Asked, Piping, Piped
<1>3. ChildInStep'
  BY DEF TypeOK, ChildInStep, Statuses, NoChild
<1>4. FdInStep'
  BY DEF TypeOK, Asked, ChildInStep, FdInStep, Piping, Piped
<1>5. ReportHolds'
  BY DEF TypeOK, ReportHolds, ChildInStep, FdInStep
<1>6. Conserved'
  BY DEF TypeOK, Conserved, Piped
<1>7. ClosedWhenOver'
  BY DEF TypeOK, ClosedWhenOver, Conserved, ChildInStep, FdInStep, Piping, Piped
<1>8. EndIsSeen'
  BY DEF TypeOK, EndIsSeen
<1> QED
  BY <1>1, <1>2, <1>3, <1>4, <1>5, <1>6, <1>7, <1>8

\* A pipe is closed that is empty, and that the child does not hold any more.
LEMMA HangUpInv == SpawnInv /\ HangUp => SpawnInv'
<1> SUFFICES ASSUME SpawnInv, HangUp PROVE SpawnInv'
  OBVIOUS
<1> USE StreamNames DEF SpawnInv, HangUp, Goto, childVars
<1>1. TypeOK'
  BY DEF TypeOK, None, Places, EventSets
<1>2. Asked'
  BY DEF Asked, Piping, Piped
<1>3. ChildInStep'
  BY DEF TypeOK, ChildInStep, Statuses, NoChild, None
<1>4. FdInStep'
  BY DEF TypeOK, Asked, ChildInStep, FdInStep, Piping, Piped, None
<1>5. ReportHolds'
  BY DEF TypeOK, ReportHolds, ChildInStep, FdInStep, None
<1>6. Conserved'
  BY DEF TypeOK, Conserved, Piped, None
<1>7. ClosedWhenOver'
  <2>1. STDIN \in fd /\ STDIN \notin fd' => STDIN \notin child.ends
    BY DEF ReportHolds
  <2>2. ASSUME NEW i \in Outputs, i \in fd, i \notin fd' PROVE pipe[i] = 0 /\ i \notin
         child.ends
    BY <2>2 DEF ReportHolds
  <2> QED
    BY <2>1, <2>2 DEF ClosedWhenOver, Piped
<1>8. EndIsSeen'
  BY DEF TypeOK, EndIsSeen, None
<1> QED
  BY <1>1, <1>2, <1>3, <1>4, <1>5, <1>6, <1>7, <1>8

\* All was closed before, or an error was reported.
LEMMA CloseAllInv == SpawnInv /\ CloseAll => SpawnInv'
<1> SUFFICES ASSUME SpawnInv, CloseAll PROVE SpawnInv'
  OBVIOUS
<1> USE StreamNames DEF SpawnInv, CloseAll, Goto, childVars
<1>1. TypeOK'
  BY DEF TypeOK, None, Places, EventSets
<1>2. Asked'
  BY DEF Asked, Piping, Piped
<1>3. ChildInStep'
  BY DEF TypeOK, ChildInStep, Statuses, NoChild, None
<1>4. FdInStep'
  BY DEF TypeOK, Asked, ChildInStep, FdInStep, Piping, Piped, None
<1>5. ReportHolds'
  BY DEF TypeOK, ReportHolds, ChildInStep, FdInStep, None
<1>6. Conserved'
  BY DEF TypeOK, Conserved, Piped, None
<1>7. ClosedWhenOver'
  BY DEF TypeOK, ClosedWhenOver, Conserved, ChildInStep, FdInStep, Piping, Piped, None
<1>8. EndIsSeen'
  BY DEF TypeOK, EndIsSeen, None
<1> QED
  BY <1>1, <1>2, <1>3, <1>4, <1>5, <1>6, <1>7, <1>8

\* The pipes are closed, and the child is gone.
LEMMA WaitInv == SpawnInv /\ Wait => SpawnInv'
<1> SUFFICES ASSUME SpawnInv, Wait PROVE SpawnInv'
  OBVIOUS
<1> USE StreamNames DEF SpawnInv, Wait, Goto, childVars
<1>1. TypeOK'
  BY DEF TypeOK, NoChild, Statuses, Places, Children
<1>2. Asked'
  BY DEF Asked, Piping, Piped
<1>3. ChildInStep'
  BY DEF TypeOK, ChildInStep, Statuses, NoChild, Children
<1>4. FdInStep'
  BY DEF TypeOK, Asked, ChildInStep, FdInStep, Piping, Piped, NoChild, Statuses, Children
<1>5. ReportHolds'
  BY DEF TypeOK, ReportHolds, ChildInStep, FdInStep, NoChild, Statuses, Children
<1>6. Conserved'
  BY DEF TypeOK, Conserved, Piped, NoChild, Statuses, Children
<1>7. ClosedWhenOver'
  BY DEF TypeOK, ClosedWhenOver, Conserved, ChildInStep, FdInStep, Piping, Piped, NoChild,
         Statuses, Children
<1>8. EndIsSeen'
  BY DEF TypeOK, EndIsSeen, NoChild, Statuses, Children
<1> QED
  BY <1>1, <1>2, <1>3, <1>4, <1>5, <1>6, <1>7, <1>8

LEMMA CannotOpenInv == SpawnInv /\ CannotOpen => SpawnInv'
<1> SUFFICES ASSUME SpawnInv, CannotOpen PROVE SpawnInv'
  OBVIOUS
<1> USE StreamNames DEF SpawnInv, CannotOpen, Goto, Complain, childVars
<1>1. TypeOK'
  BY DEF TypeOK, Places
<1>2. Asked'
  BY DEF Asked, Piping, Piped
<1>3. ChildInStep'
  BY DEF TypeOK, ChildInStep, Statuses, NoChild
<1>4. FdInStep'
  BY DEF TypeOK, Asked, ChildInStep, FdInStep, Piping, Piped
<1>5. ReportHolds'
  BY DEF TypeOK, ReportHolds, ChildInStep, FdInStep
<1>6. Conserved'
  BY DEF TypeOK, Conserved, Piped
<1>7. ClosedWhenOver'
  BY DEF TypeOK, ClosedWhenOver, Conserved, ChildInStep, FdInStep, Piping, Piped
<1>8. EndIsSeen'
  BY DEF TypeOK, EndIsSeen
<1> QED
  BY <1>1, <1>2, <1>3, <1>4, <1>5, <1>6, <1>7, <1>8

LEMMA ExecFailsInv == SpawnInv /\ ExecFails => SpawnInv'
<1> SUFFICES ASSUME SpawnInv, ExecFails PROVE SpawnInv'
  OBVIOUS
<1> USE StreamNames DEF SpawnInv, ExecFails, Goto, Complain, childVars
<1>1. TypeOK'
  BY DEF TypeOK, NoChild, Places, Children
<1>2. Asked'
  BY DEF Asked, Piping, Piped
<1>3. ChildInStep'
  BY DEF TypeOK, ChildInStep, Statuses, NoChild, Children
<1>4. FdInStep'
  BY DEF TypeOK, Asked, ChildInStep, FdInStep, Piping, Piped, NoChild, Children
<1>5. ReportHolds'
  BY DEF TypeOK, ReportHolds, ChildInStep, FdInStep, NoChild, Children
<1>6. Conserved'
  BY DEF TypeOK, Conserved, Piped, NoChild, Children
<1>7. ClosedWhenOver'
  BY DEF TypeOK, ClosedWhenOver, Conserved, ChildInStep, FdInStep, Piping, Piped, NoChild,
         Children
<1>8. EndIsSeen'
  BY DEF TypeOK, EndIsSeen, NoChild, Children
<1> QED
  BY <1>1, <1>2, <1>3, <1>4, <1>5, <1>6, <1>7, <1>8

LEMMA PipeFailsInv == SpawnInv /\ PipeFails => SpawnInv'
<1> SUFFICES ASSUME SpawnInv, PipeFails PROVE SpawnInv'
  OBVIOUS
<1> USE StreamNames DEF SpawnInv, PipeFails, Goto, Complain, childVars
<1>1. TypeOK'
  BY DEF TypeOK, Places
<1>2. Asked'
  BY DEF Asked, Piping, Piped
<1>3. ChildInStep'
  BY DEF TypeOK, ChildInStep, Statuses, NoChild
<1>4. FdInStep'
  BY DEF TypeOK, Asked, ChildInStep, FdInStep, Piping, Piped
<1>5. ReportHolds'
  BY DEF TypeOK, ReportHolds, ChildInStep, FdInStep
<1>6. Conserved'
  BY DEF TypeOK, Conserved, Piped
<1>7. ClosedWhenOver'
  BY DEF TypeOK, ClosedWhenOver, Conserved, ChildInStep, FdInStep, Piping, Piped
<1>8. EndIsSeen'
  BY DEF TypeOK, EndIsSeen
<1> QED
  BY <1>1, <1>2, <1>3, <1>4, <1>5, <1>6, <1>7, <1>8

\* Steps of the child: it writes only to pipes that are read, and reads the
\* end only of a pipe that is closed.
LEMMA ChildDecidesInv == SpawnInv /\ ChildDecides => SpawnInv'
<1> SUFFICES ASSUME SpawnInv, ChildDecides PROVE SpawnInv'
  OBVIOUS
<1> USE StreamNames DEF SpawnInv, ChildDecides, editorVars
<1>1. TypeOK'
  BY DEF TypeOK, Running, Places, Children
<1>2. Asked'
  BY DEF Asked, Piping, Piped
<1>3. ChildInStep'
  BY DEF TypeOK, ChildInStep, Statuses, NoChild, Running, Children
<1>4. FdInStep'
  BY DEF TypeOK, Asked, ChildInStep, FdInStep, Piping, Piped, Running, Children
<1>5. ReportHolds'
  BY DEF TypeOK, ReportHolds, ChildInStep, FdInStep, Running, Children
<1>6. Conserved'
  BY DEF TypeOK, Conserved, Piped, Running, Children
<1>7. ClosedWhenOver'
  BY DEF TypeOK, ClosedWhenOver, Conserved, ChildInStep, FdInStep, Piping, Piped, Running,
         Children
<1>8. EndIsSeen'
  BY DEF TypeOK, EndIsSeen, Running, Children
<1> QED
  BY <1>1, <1>2, <1>3, <1>4, <1>5, <1>6, <1>7, <1>8

LEMMA ChildReadsInv == SpawnInv /\ ChildReads => SpawnInv'
<1> SUFFICES ASSUME SpawnInv, ChildReads PROVE SpawnInv'
  OBVIOUS
<1> USE StreamNames DEF SpawnInv, ChildReads, editorVars
<1>1. TypeOK'
  <2>1. child' \in Children
    BY DEF TypeOK, Children
  <2>2. pipe' \in [Streams -> Nat]
    BY DEF TypeOK
  <2>3. taken.n + 1 \in Nat
    BY DEF TypeOK
  <2>4. taken' \in [n : Nat, eof : BOOLEAN]
    BY <2>3 DEF TypeOK
  <2> QED
    BY <2>1, <2>2, <2>4 DEF TypeOK
<1>2. Asked'
  BY DEF Asked, Piping, Piped
<1>3. ChildInStep'
  BY DEF TypeOK, ChildInStep, Statuses, NoChild, Wants, Running, Children
<1>4. FdInStep'
  BY DEF TypeOK, Asked, ChildInStep, FdInStep, Piping, Piped, Wants, Running, Children
<1>5. ReportHolds'
  BY DEF TypeOK, ReportHolds, ChildInStep, FdInStep, Wants, Running, Children
<1>6. Conserved'
  BY DEF TypeOK, Conserved, Piped, Wants, Running, Children
<1>7. ClosedWhenOver'
  BY DEF TypeOK, ClosedWhenOver, Conserved, ChildInStep, FdInStep, Piping, Piped, Wants,
         Running, Children
<1>8. EndIsSeen'
  BY DEF TypeOK, Children, EndIsSeen, Conserved, ClosedWhenOver, ChildInStep, NoChild,
         Wants, Running
<1> QED
  BY <1>1, <1>2, <1>3, <1>4, <1>5, <1>6, <1>7, <1>8

LEMMA ChildClosesInv == SpawnInv /\ ChildCloses => SpawnInv'
<1> SUFFICES ASSUME SpawnInv, ChildCloses PROVE SpawnInv'
  OBVIOUS
<1> USE StreamNames DEF SpawnInv, ChildCloses, editorVars
<1>1. TypeOK'
  BY DEF TypeOK, Running, Places, Children
<1>2. Asked'
  BY DEF Asked, Piping, Piped
<1>3. ChildInStep'
  BY DEF TypeOK, ChildInStep, Statuses, NoChild, Running, Children
<1>4. FdInStep'
  BY DEF TypeOK, Asked, ChildInStep, FdInStep, Piping, Piped, Running, Children
<1>5. ReportHolds'
  BY DEF TypeOK, ReportHolds, ChildInStep, FdInStep, Running, Children
<1>6. Conserved'
  BY DEF TypeOK, Conserved, Piped, Running, Children
<1>7. ClosedWhenOver'
  BY DEF TypeOK, ClosedWhenOver, Conserved, ChildInStep, FdInStep, Piping, Piped, Running,
         Children
<1>8. EndIsSeen'
  BY DEF TypeOK, EndIsSeen, Running, Children
<1> QED
  BY <1>1, <1>2, <1>3, <1>4, <1>5, <1>6, <1>7, <1>8

LEMMA ChildExitsInv == SpawnInv /\ ChildExits => SpawnInv'
<1> SUFFICES ASSUME SpawnInv, ChildExits PROVE SpawnInv'
  OBVIOUS
<1> USE StreamNames DEF SpawnInv, ChildExits, editorVars
<1>1. TypeOK'
  BY DEF TypeOK, Dies, NoChild, Wants, Running, Statuses, Places, Children
<1>2. Asked'
  BY DEF Asked, Piping, Piped
<1>3. ChildInStep'
  BY DEF TypeOK, ChildInStep, Statuses, NoChild, Dies, Wants, Running, Children
<1>4. FdInStep'
  BY DEF TypeOK, Asked, ChildInStep, FdInStep, Piping, Piped, Dies, NoChild, Wants, Running,
         Statuses, Children
<1>5. ReportHolds'
  BY DEF TypeOK, ReportHolds, ChildInStep, FdInStep, Dies, NoChild, Wants, Running,
         Statuses, Children
<1>6. Conserved'
  BY DEF TypeOK, Conserved, Piped, Dies, NoChild, Wants, Running, Statuses, Children
<1>7. ClosedWhenOver'
  BY DEF TypeOK, ClosedWhenOver, Conserved, ChildInStep, FdInStep, Piping, Piped, Dies,
         NoChild, Wants, Running, Statuses, Children
<1>8. EndIsSeen'
  BY DEF TypeOK, EndIsSeen, Dies, NoChild, Wants, Running, Statuses, Children
<1> QED
  BY <1>1, <1>2, <1>3, <1>4, <1>5, <1>6, <1>7, <1>8

LEMMA ChildWritesInv ==
  ASSUME SpawnInv, NEW o \in Outputs, ChildWrites(o)
  PROVE  SpawnInv'
<1> USE StreamNames DEF SpawnInv, ChildWrites, editorVars
<1>1. TypeOK'
  <2>1. child' \in Children
    BY DEF TypeOK, Children, Dies, NoChild, Statuses
  <2>2. pipe' \in [Streams -> Nat] /\ wrote' \in [Outputs -> Nat]
    BY DEF TypeOK
  <2> QED
    BY <2>1, <2>2 DEF TypeOK
<1>2. Asked'
  BY DEF Asked, Piping, Piped
<1>3. ChildInStep'
  BY DEF TypeOK, ChildInStep, Statuses, NoChild, Wants, Running, Dies, Children
<1>4. FdInStep'
  BY DEF TypeOK, Asked, ChildInStep, FdInStep, Piping, Piped, Wants, Running, Dies, NoChild,
         Statuses, Children
<1>5. ReportHolds'
  BY DEF TypeOK, ReportHolds, ChildInStep, FdInStep, Wants, Running, Dies, NoChild,
         Statuses, Children
<1>6. Conserved'
  BY DEF TypeOK, Conserved, Piped, Wants, Running, Dies, NoChild, Statuses, Children
<1>7. ClosedWhenOver'
  BY DEF TypeOK, ClosedWhenOver, Conserved, ChildInStep, FdInStep, Piping, Piped, Wants,
         Running, Dies, NoChild, Statuses, Children
<1>8. EndIsSeen'
  BY DEF TypeOK, EndIsSeen, Wants, Running, Dies, NoChild, Statuses, Children
<1> QED
  BY <1>1, <1>2, <1>3, <1>4, <1>5, <1>6, <1>7, <1>8

LEMMA NextInv == SpawnInv /\ [Next]_vars => SpawnInv'
<1> SUFFICES ASSUME SpawnInv, [Next]_vars PROVE SpawnInv'
  OBVIOUS
<1>1. CASE Editor
  BY <1>1, ForkInv, ExecInv, ReadErrorsInv, BeginInv, PollInv, ReadOutputsInv,
         NothingToWriteInv,
     WriteInputInv, BrokenPipeInv, HangUpInv, CloseAllInv, WaitInv DEF Editor
<1>2. CASE Failure
  BY <1>2, CannotOpenInv, ExecFailsInv, PipeFailsInv DEF Failure
<1>3. CASE Child
  BY <1>3, ChildDecidesInv, ChildReadsInv, ChildClosesInv, ChildExitsInv, ChildWritesInv DEF
         Child
<1>4. CASE UNCHANGED vars
  BY <1>4 DEF vars, editorVars, childVars, SpawnInv, TypeOK, Asked, ChildInStep, FdInStep,
     ReportHolds, Conserved, ClosedWhenOver, EndIsSeen, Piping, Piped
<1> QED
  BY <1>1, <1>2, <1>3, <1>4 DEF Next

LEMMA SpawnIsInv == Spec => []SpawnInv
  BY InitInv, NextInv, PTL DEF Spec

-----------------------------------------------------------------------------
\* For pipes of any capacity, any input and any child: what the child has read
\* is the start of the input, in order, it sees the end only after all of it,
\* and when spawn returns nothing is open, the child was waited for, and all
\* its output was read, unless an error was reported (src/spawn.c,
\* src/util/fork-exec.c).
THEOREM ChildrenAreServed == Spec => []SpawnIsRight
<1>1. SpawnInv => SpawnIsRight
  BY StreamNames DEF SpawnInv, SpawnIsRight, InputInOrder, NothingIsLeft, Done, Conserved,
         EndIsSeen,
     ChildInStep, FdInStep, ClosedWhenOver, TypeOK
<1> QED
  BY <1>1, SpawnIsInv, PTL

-----------------------------------------------------------------------------
(* TermFeatures: what a sequence of writes does to the terminal *)

Screens == [alt : BOOLEAN, kbdNormal : Nat, kbdAlt : Nat, titles : Nat,
            mokeys : BOOLEAN, meta : BOOLEAN, altesc : BOOLEAN, paste : BOOLEAN]

Flags == {"alt", "mokeys", "meta", "altesc", "paste"}
ModeOps == (Flags \X {"on", "off"}) \cup ({"titles", "kbd"} \X {"push", "pop"})
Ops == ModeOps \cup ({"ask"} \X Queries)

IsOn(s, flag) ==
  /\ flag = "alt" => s.alt
  /\ flag = "mokeys" => s.mokeys
  /\ flag = "meta" => s.meta
  /\ flag = "altesc" => s.altesc
  /\ flag = "paste" => s.paste
IsOff(s, flag) ==
  /\ flag = "alt" => ~s.alt
  /\ flag = "mokeys" => ~s.mokeys
  /\ flag = "meta" => ~s.meta
  /\ flag = "altesc" => ~s.altesc
  /\ flag = "paste" => ~s.paste

\* Of the terminal s all but one thing is kept in t.
Kept(s, t, what) ==
  /\ what # "alt" => t.alt = s.alt
  /\ what # "mokeys" => t.mokeys = s.mokeys
  /\ what # "meta" => t.meta = s.meta
  /\ what # "altesc" => t.altesc = s.altesc
  /\ what # "paste" => t.paste = s.paste
  /\ what # "titles" => t.titles = s.titles
  /\ what # "kbd" => t.kbdNormal = s.kbdNormal /\ t.kbdAlt = s.kbdAlt

\* A flag is set or reset.
FlagSet(s, flag, way, t) ==
  /\ t \in Screens /\ Kept(s, t, flag)
  /\ way = "on" => IsOn(t, flag)
  /\ way = "off" => IsOff(t, flag)

LEMMA FlagIsSet ==
  ASSUME NEW s \in Screens, NEW flag \in Flags, NEW way \in {"on", "off"}
  PROVE  FlagSet(s, flag, way, Apply(s, <<flag, way>>))
<1>1. CASE flag = "alt" /\ way = "on"
  <2>1. Apply(s, <<"alt", "on">>) = [s EXCEPT !.alt = TRUE]
    BY DEF Apply
  <2> QED
    BY <1>1, <2>1 DEF FlagSet, Kept, IsOn, IsOff, Screens
<1>2. CASE flag = "alt" /\ way = "off"
  <2>1. Apply(s, <<"alt", "off">>) = [s EXCEPT !.alt = FALSE]
    BY DEF Apply
  <2> QED
    BY <1>2, <2>1 DEF FlagSet, Kept, IsOn, IsOff, Screens
<1>3. CASE flag = "mokeys" /\ way = "on"
  <2>1. Apply(s, <<"mokeys", "on">>) = [s EXCEPT !.mokeys = TRUE]
    BY DEF Apply
  <2> QED
    BY <1>3, <2>1 DEF FlagSet, Kept, IsOn, IsOff, Screens
<1>4. CASE flag = "mokeys" /\ way = "off"
  <2>1. Apply(s, <<"mokeys", "off">>) = [s EXCEPT !.mokeys = FALSE]
    BY DEF Apply
  <2> QED
    BY <1>4, <2>1 DEF FlagSet, Kept, IsOn, IsOff, Screens
<1>5. CASE flag = "meta" /\ way = "on"
  <2>1. Apply(s, <<"meta", "on">>) = [s EXCEPT !.meta = TRUE]
    BY DEF Apply
  <2> QED
    BY <1>5, <2>1 DEF FlagSet, Kept, IsOn, IsOff, Screens
<1>6. CASE flag = "meta" /\ way = "off"
  <2>1. Apply(s, <<"meta", "off">>) = [s EXCEPT !.meta = FALSE]
    BY DEF Apply
  <2> QED
    BY <1>6, <2>1 DEF FlagSet, Kept, IsOn, IsOff, Screens
<1>7. CASE flag = "altesc" /\ way = "on"
  <2>1. Apply(s, <<"altesc", "on">>) = [s EXCEPT !.altesc = TRUE]
    BY DEF Apply
  <2> QED
    BY <1>7, <2>1 DEF FlagSet, Kept, IsOn, IsOff, Screens
<1>8. CASE flag = "altesc" /\ way = "off"
  <2>1. Apply(s, <<"altesc", "off">>) = [s EXCEPT !.altesc = FALSE]
    BY DEF Apply
  <2> QED
    BY <1>8, <2>1 DEF FlagSet, Kept, IsOn, IsOff, Screens
<1>9. CASE flag = "paste" /\ way = "on"
  <2>1. Apply(s, <<"paste", "on">>) = [s EXCEPT !.paste = TRUE]
    BY DEF Apply
  <2> QED
    BY <1>9, <2>1 DEF FlagSet, Kept, IsOn, IsOff, Screens
<1>10. CASE flag = "paste" /\ way = "off"
  <2>1. Apply(s, <<"paste", "off">>) = [s EXCEPT !.paste = FALSE]
    BY DEF Apply
  <2> QED
    BY <1>10, <2>1 DEF FlagSet, Kept, IsOn, IsOff, Screens
<1> QED
  BY <1>1, <1>2, <1>3, <1>4, <1>5, <1>6, <1>7, <1>8, <1>9, <1>10 DEF Flags

\* A stack is pushed or popped, that of the keyboard on the screen in use.
StackMoved(s, what, way, t) ==
  /\ t \in Screens /\ Kept(s, t, what)
  /\ what = "titles" => t.titles = Stacked(s.titles, way)
  /\ what = "kbd" /\ s.alt => t.kbdNormal = s.kbdNormal /\ t.kbdAlt = Stacked(s.kbdAlt, way)
  /\ what = "kbd" /\ ~s.alt => t.kbdAlt = s.kbdAlt /\ t.kbdNormal = Stacked(s.kbdNormal, way)

LEMMA StackIsMoved ==
  ASSUME NEW s \in Screens, NEW what \in {"titles", "kbd"}, NEW way \in {"push", "pop"}
  PROVE  StackMoved(s, what, way, Apply(s, <<what, way>>))
<1>1. \A n \in Nat : Stacked(n, way) \in Nat
  BY DEF Stacked
<1>2. <<what, way>>[1] = what /\ <<what, way>>[2] = way
  OBVIOUS
<1> DEFINE o == <<what, way>>
<1>3. s.titles \in Nat /\ s.kbdAlt \in Nat /\ s.kbdNormal \in Nat
  BY DEF Screens
<1> HIDE DEF o
<1>4. CASE what = "titles"
  <2>1. Apply(s, o) = [s EXCEPT !.titles = Stacked(s.titles, way)]
    BY <1>2, <1>4 DEF Apply, o
  <2>2. PICK n \in Nat : n = Stacked(s.titles, way)
    BY <1>1, <1>3
  <2>3. Apply(s, o) = [s EXCEPT !.titles = n]
    BY <2>1, <2>2
  <2> QED
    BY <1>4, <2>2, <2>3 DEF StackMoved, Kept, Screens, o
<1>5. CASE what = "kbd" /\ s.alt
  <2>1. Apply(s, o) = [s EXCEPT !.kbdAlt = Stacked(s.kbdAlt, way)]
    BY <1>2, <1>5 DEF Apply, o
  <2>2. PICK n \in Nat : n = Stacked(s.kbdAlt, way)
    BY <1>1, <1>3
  <2>3. Apply(s, o) = [s EXCEPT !.kbdAlt = n]
    BY <2>1, <2>2
  <2> QED
    BY <1>5, <2>2, <2>3 DEF StackMoved, Kept, Screens, o
<1>6. CASE what = "kbd" /\ ~s.alt
  <2>1. Apply(s, o) = [s EXCEPT !.kbdNormal = Stacked(s.kbdNormal, way)]
    BY <1>2, <1>6 DEF Apply, o
  <2>2. PICK n \in Nat : n = Stacked(s.kbdNormal, way)
    BY <1>1, <1>3
  <2>3. Apply(s, o) = [s EXCEPT !.kbdNormal = n]
    BY <2>1, <2>2
  <2> QED
    BY <1>6, <2>2, <2>3 DEF StackMoved, Kept, Screens, o
<1> QED
  BY <1>4, <1>5, <1>6

LEMMA AskIsNothing == ASSUME NEW s, NEW q PROVE Apply(s, <<"ask", q>>) = s
BY DEF Apply

LEMMA ApplyIsScreen == ASSUME NEW s \in Screens, NEW o \in Ops PROVE Apply(s, o) \in Screens
<1>1. CASE o \in Flags \X {"on", "off"}
  <2>1. PICK flag \in Flags, way \in {"on", "off"} : o = <<flag, way>>
    BY <1>1
  <2> QED
    BY <2>1, FlagIsSet DEF FlagSet
<1>2. CASE o \in {"titles", "kbd"} \X {"push", "pop"}
  <2>1. PICK what \in {"titles", "kbd"}, way \in {"push", "pop"} : o = <<what, way>>
    BY <1>2
  <2> QED
    BY <2>1, StackIsMoved DEF StackMoved
<1>3. CASE o \in {"ask"} \X Queries
  <2>1. PICK q \in Queries : o = <<"ask", q>>
    BY <1>3
  <2> QED
    BY <2>1, AskIsNothing
<1> QED
  BY <1>1, <1>2, <1>3 DEF Ops, ModeOps

\* Writing out takes the terminal from s to t: there is a run of the fold.
ApplyTo == [p \in Screens \X Ops |-> Apply(p[1], p[2])]
Yields(s, out, t) ==
  /\ s \in Screens /\ out \in Seq(Ops)
  /\ \E r \in [0..Len(out) -> Screens] : IsRun(r, ApplyTo, s, out) /\ t = r[Len(out)]

LEMMA YieldsScreen ==
  ASSUME NEW s, NEW out, NEW t, Yields(s, out, t)
  PROVE  t \in Screens /\ out \in Seq(Ops)
<1>1. Len(out) \in 0..Len(out)
  BY DEF Yields
<1> QED
  BY <1>1 DEF Yields

LEMMA YieldsNothing == ASSUME NEW s \in Screens PROVE Yields(s, <<>>, s)
<1> DEFINE r == [k \in 0..0 |-> s]
<1>1. <<>> \in Seq(Ops) /\ Len(<<>>) = 0 /\ 1..0 = {} /\ 0 \in 0..0
  OBVIOUS
<1>2. r \in [0..0 -> Screens] /\ r[0] = s /\ DOMAIN r = 0..0
  BY <1>1
<1> HIDE DEF r
<1> QED
  BY <1>1, <1>2 DEF Yields, IsRun

LEMMA YieldsOne == ASSUME NEW s \in Screens, NEW o \in Ops PROVE Yields(s, <<o>>, Apply(s, o))
<1> DEFINE r == [k \in 0..1 |-> IF k = 0 THEN s ELSE Apply(s, o)]
<1>1. <<o>> \in Seq(Ops) /\ Len(<<o>>) = 1 /\ <<o>>[1] = o /\ 0 \in 0..1 /\ 1 \in 0..1
      /\ \A k \in 1..1 : k = 1 /\ k - 1 = 0
  OBVIOUS
<1>2. r \in [0..1 -> Screens] /\ r[0] = s /\ r[1] = Apply(s, o) /\ DOMAIN r = 0..1
  BY <1>1, ApplyIsScreen
<1>3. ApplyTo[<<s, o>>] = Apply(s, o)
  BY DEF ApplyTo
<1> HIDE DEF r
<1> QED
  BY <1>1, <1>2, <1>3 DEF Yields, IsRun

LEMMA YieldsBoth ==
  ASSUME NEW s, NEW a, NEW t, Yields(s, a, t), NEW b, NEW u, Yields(t, b, u)
  PROVE  Yields(s, a \o b, u)
<1> DEFINE m == Len(a)
           n == Len(b)
<1>1. PICK f \in [0..m -> Screens] : IsRun(f, ApplyTo, s, a) /\ t = f[m]
  BY DEF Yields
<1>2. PICK g \in [0..n -> Screens] : IsRun(g, ApplyTo, t, b) /\ u = g[n]
  BY DEF Yields
<1> DEFINE c == a \o b
           r == [k \in 0..(m + n) |-> IF k <= m THEN f[k] ELSE g[k - m]]
<1>3. /\ a \in Seq(Ops) /\ b \in Seq(Ops) /\ m \in Nat /\ n \in Nat /\ s \in Screens
      /\ c \in Seq(Ops) /\ Len(c) = m + n
  BY DEF Yields
<1>4. /\ \A k \in 1..m : c[k] = a[k]
      /\ \A k \in 1..n : c[m + k] = b[k]
  BY <1>3
<1> HIDE DEF m, n, c
<1>5. r \in [0..(m + n) -> Screens]
  <2> SUFFICES ASSUME NEW k \in 0..(m + n) PROVE (IF k <= m THEN f[k] ELSE g[k - m]) \in Screens
    OBVIOUS
  <2>1. k <= m => k \in 0..m
    BY <1>3
  <2>2. ~(k <= m) => k - m \in 0..n
    BY <1>3
  <2> QED
    BY <2>1, <2>2
<1>6. /\ \A k \in 0..m : r[k] = f[k]
      /\ \A k \in 0..n : r[m + k] = g[k]
  <2>1. ASSUME NEW k \in 0..m PROVE r[k] = f[k]
    BY <1>3
  <2>2. ASSUME NEW k \in 0..n PROVE r[m + k] = g[k]
    <3>1. g[0] = f[m]
      BY <1>1, <1>2 DEF IsRun
    <3>2. PICK j \in 0..(m + n) : j = m + k /\ j - m = k /\ (j <= m => k = 0)
      BY <1>3
    <3>3. r[j] = IF j <= m THEN f[j] ELSE g[j - m]
      OBVIOUS
    <3> HIDE DEF r
    <3>4. CASE j <= m
      <4>1. j = m /\ k = 0
        BY <1>3, <3>2, <3>4
      <4>2. r[j] = g[k]
        BY <3>1, <3>3, <3>4, <4>1
      <4> QED
        BY <3>2, <4>2
    <3>5. CASE ~(j <= m)
      <4>1. r[j] = g[k]
        BY <3>2, <3>3, <3>5
      <4> QED
        BY <3>2, <4>1
    <3> QED
      BY <3>4, <3>5
  <2> QED
    BY <2>1, <2>2
<1>7. DOMAIN r = 0..(m + n)
  OBVIOUS
<1> HIDE DEF r
<1>8. ASSUME NEW k \in 1..(m + n) PROVE r[k] = ApplyTo[<<r[k - 1], c[k]>>]
  <2>1. CASE k <= m
    <3>1. k \in 1..m /\ k \in 0..m /\ k - 1 \in 0..m
      BY <1>3, <2>1
    <3>2. f[k] = ApplyTo[<<f[k - 1], a[k]>>]
      BY <1>1, <3>1 DEF IsRun, m
    <3> QED
      BY <1>4, <1>6, <3>1, <3>2
  <2>2. CASE ~(k <= m)
    <3>1. PICK j \in 1..n : k = m + j
      <4>1. k - m \in 1..n /\ k = m + (k - m)
        BY <1>3, <2>2
      <4> QED
        BY <4>1
    <3>2. j \in 0..n /\ j - 1 \in 0..n /\ k - 1 = m + (j - 1)
      BY <1>3, <3>1
    <3>3. g[j] = ApplyTo[<<g[j - 1], b[j]>>]
      BY <1>2 DEF IsRun, n
    <3>4. r[k] = g[j] /\ r[k - 1] = g[j - 1] /\ c[k] = b[j]
      BY <1>4, <1>6, <3>1, <3>2
    <3> QED
      BY <3>3, <3>4
  <2> QED
    BY <2>1, <2>2
<1>9. r[0] = s /\ r[m + n] = u
  <2>1. 0 \in 0..m /\ n \in 0..n
    BY <1>3
  <2>2. f[0] = s
    BY <1>1 DEF IsRun
  <2> QED
    BY <1>2, <1>6, <2>1, <2>2
<1>10. IsRun(r, ApplyTo, s, c)
  BY <1>3, <1>7, <1>8, <1>9 DEF IsRun
<1>11. r \in [0..Len(c) -> Screens] /\ u = r[Len(c)]
  BY <1>3, <1>5, <1>9
<1> QED
  BY <1>3, <1>10, <1>11 DEF Yields, c

\* Questions change nothing.
LEMMA YieldsAsked == ASSUME NEW s \in Screens, NEW a \in Seq({"ask"} \X Queries) PROVE Yields(s, a, s)
<1> DEFINE r == [k \in 0..Len(a) |-> s]
           Q == {"ask"} \X Queries
<1>1. a \in Seq(Q) /\ Q \subseteq Ops
  BY DEF Ops
<1> HIDE DEF Q
<1>2. a \in Seq(Ops) /\ Len(a) \in Nat /\ \A k \in 1..Len(a) : a[k] \in Q
  BY <1>1
<1>3. ASSUME NEW k \in 1..Len(a) PROVE ApplyTo[<<s, a[k]>>] = s
  <2>1. PICK q \in Queries : a[k] = <<"ask", q>>
    BY <1>2 DEF Q
  <2>2. a[k] \in Ops
    BY <1>1, <1>2
  <2>3. ApplyTo[<<s, a[k]>>] = Apply(s, a[k])
    BY <2>2 DEF ApplyTo
  <2> QED
    BY <2>1, <2>3, AskIsNothing
<1>4. r \in [0..Len(a) -> Screens] /\ DOMAIN r = 0..Len(a) /\ r[0] = s /\ r[Len(a)] = s
      /\ \A k \in 1..Len(a) : r[k] = s /\ r[k - 1] = s
  <2>1. 0 \in 0..Len(a) /\ Len(a) \in 0..Len(a)
        /\ \A k \in 1..Len(a) : k \in 0..Len(a) /\ k - 1 \in 0..Len(a)
    BY <1>2
  <2> QED
    BY <2>1
<1> HIDE DEF r
<1>5. IsRun(r, ApplyTo, s, a)
  BY <1>3, <1>4 DEF IsRun
<1> QED
  BY <1>2, <1>4, <1>5 DEF Yields

\* The fold of term_output_flush
LEMMA YieldsFold ==
  ASSUME NEW s, NEW out, NEW t, Yields(s, out, t)
  PROVE  FoldLeft(Apply, s, out) = t
<1> DEFINE it == CHOOSE g : g = [I \in SUBSET DOMAIN out |->
                   IF I = {} THEN s ELSE Apply(g[I \ {Max(I)}], out[Max(I)])]
           Follows(g) == g = [I \in SUBSET DOMAIN out |->
                   IF I = {} THEN s ELSE Apply(g[I \ {Max(I)}], out[Max(I)])]
<1>1. out \in Seq(Ops) /\ s \in Screens /\ DOMAIN out = 1..Len(out) /\ Len(out) \in Nat
  BY DEF Yields
<1>2. FoldLeft(Apply, s, out) = it[DOMAIN out]
  BY DEF FoldLeft, MapThenFoldSet
<1>3. ApplyTo \in [Screens \X Ops -> Screens]
      /\ \A x \in Screens, o \in Ops : ApplyTo[<<x, o>>] = Apply(x, o)
  BY ApplyIsScreen DEF ApplyTo
<1>4. \E g : Follows(g)
  <2>1. PICK g \in [SUBSET DOMAIN out -> Screens] : IsIter(g, ApplyTo, s, out)
    BY <1>1, <1>3, IterExists
  <2>2. ASSUME NEW I \in SUBSET DOMAIN out, I # {}
        PROVE  ApplyTo[<<g[I \ {Max(I)}], out[Max(I)]>>] = Apply(g[I \ {Max(I)}], out[Max(I)])
    <3>1. Max(I) \in DOMAIN out
      BY <1>1, <2>2, LastIndex
    <3>2. out[Max(I)] \in Ops /\ g[I \ {Max(I)}] \in Screens
      BY <1>1, <3>1
    <3> QED
      BY <1>3, <3>2
  <2> QED
    BY <2>1, <2>2 DEF IsIter
<1>5. Follows(it)
  BY <1>4
<1>6. it[{}] = s
  BY <1>5
<1>7. ASSUME NEW k \in 1..Len(out), it[1..(k - 1)] \in Screens
      PROVE  it[1..k] = ApplyTo[<<it[1..(k - 1)], out[k]>>]
  <2>1. 1..k \in SUBSET DOMAIN out /\ 1..k # {} /\ k \in Nat /\ k > 0 /\ out[k] \in Ops
    <3>1. k \in Nat /\ k > 0 /\ k \in 1..k /\ 1..k \subseteq 1..Len(out)
      BY <1>1
    <3>2. out[k] \in Ops
      BY <1>1
    <3> QED
      BY <1>1, <3>1, <3>2
  <2>2. Max(1..k) = k /\ (1..k) \ {k} = 1..(k - 1)
    BY <2>1, MaxOfInterval
  <2>3. it[1..k] = Apply(it[1..(k - 1)], out[k])
    BY <1>5, <2>1, <2>2
  <2> QED
    BY <1>3, <1>7, <2>1, <2>3
<1>8. IterFollows(it, Screens, ApplyTo, s, out)
  BY <1>6, <1>7 DEF IterFollows
<1> HIDE DEF it
<1>9. PICK r \in [0..Len(out) -> Screens] : IsRun(r, ApplyTo, s, out) /\ t = r[Len(out)]
  BY DEF Yields
<1>10. it[DOMAIN out] = r[Len(out)]
  BY <1>1, <1>8, <1>9, IterIsRun
<1> QED
  BY <1>2, <1>9, <1>10

-----------------------------------------------------------------------------
(* What the editor writes *)

\* Writing out changes modes, and asks queries of Q only.
Writes(out, Q) == out \in Seq(ModeOps \cup ({"ask"} \X Q))

LEMMA WritesAre ==
  ASSUME NEW Q, NEW out, Writes(out, Q)
  PROVE  Asks(out) \subseteq Q /\ (Q \subseteq Queries => out \in Seq(Ops))
<1> DEFINE W == ModeOps \cup ({"ask"} \X Q)
<1>1. out \in Seq(W) /\ \A i \in DOMAIN out : out[i] \in W
  BY DEF Writes
<1>2. \A o \in W : o[1] = "ask" => o[2] \in Q
  BY DEF ModeOps, Flags
<1>3. Asks(out) \subseteq Q
  BY <1>1, <1>2 DEF Asks, ToSet
<1>4. Q \subseteq Queries => W \subseteq Ops
  BY DEF Ops
<1> QED
  BY <1>1, <1>3, <1>4

LEMMA WritesBoth ==
  ASSUME NEW Q, NEW R, NEW a, NEW b, Writes(a, Q), Writes(b, R)
  PROVE  Writes(a \o b, Q \cup R)
<1> DEFINE V == ModeOps \cup ({"ask"} \X Q)
           W == ModeOps \cup ({"ask"} \X R)
           X == ModeOps \cup ({"ask"} \X (Q \cup R))
<1>1. V \subseteq X /\ W \subseteq X /\ a \in Seq(V) /\ b \in Seq(W)
  BY DEF Writes
<1> HIDE DEF V, W, X
<1>2. a \o b \in Seq(X)
  BY <1>1
<1> QED
  BY <1>2 DEF Writes, X

\* A sequence that takes the terminal from s to t, and asks only what is in Q
Sends(s, out, t, Q) == Yields(s, out, t) /\ Writes(out, Q)

LEMMA SendsBoth ==
  ASSUME NEW s, NEW a, NEW t, NEW Q, Sends(s, a, t, Q), NEW b, NEW u, NEW R, Sends(t, b, u, R)
  PROVE  Sends(s, a \o b, u, Q \cup R)
BY YieldsBoth, WritesBoth DEF Sends

LEMMA SendsNothing == ASSUME NEW s \in Screens PROVE Sends(s, <<>>, s, {})
BY YieldsNothing DEF Sends, Writes

\* A flag that is set under a condition, and a stack
LEMMA SendsFlag ==
  ASSUME NEW s \in Screens, NEW flag \in Flags, NEW way \in {"on", "off"}, NEW cond
  PROVE  \E t \in Screens :
           /\ Sends(s, Only(cond, <<<<flag, way>>>>), t, {})
           /\ IF cond THEN FlagSet(s, flag, way, t) ELSE t = s
<1> DEFINE o == <<flag, way>>
<1>1. o \in ModeOps /\ o \in Ops
  BY DEF ModeOps, Ops
<1> HIDE DEF o
<1>2. CASE cond
  <2>1. Only(cond, <<o>>) = <<o>>
    BY <1>2 DEF Only
  <2>2. Yields(s, <<o>>, Apply(s, o))
    BY <1>1, YieldsOne
  <2>3. FlagSet(s, flag, way, Apply(s, o))
    BY FlagIsSet DEF o
  <2>4. Writes(<<o>>, {})
    BY <1>1 DEF Writes
  <2>5. Apply(s, o) \in Screens
    BY <2>3 DEF FlagSet
  <2> QED
    BY <1>2, <2>1, <2>2, <2>3, <2>4, <2>5 DEF Sends, o
<1>3. CASE ~cond
  <2>1. Only(cond, <<o>>) = <<>>
    BY <1>3 DEF Only
  <2> QED
    BY <1>3, <2>1, SendsNothing DEF o
<1> QED
  BY <1>2, <1>3

LEMMA SendsStack ==
  ASSUME NEW s \in Screens, NEW what \in {"titles", "kbd"}, NEW way \in {"push", "pop"}, NEW cond
  PROVE  \E t \in Screens :
           /\ Sends(s, Only(cond, <<<<what, way>>>>), t, {})
           /\ IF cond THEN StackMoved(s, what, way, t) ELSE t = s
<1> DEFINE o == <<what, way>>
<1>1. o \in ModeOps /\ o \in Ops
  BY DEF ModeOps, Ops
<1> HIDE DEF o
<1>2. CASE cond
  <2>1. Only(cond, <<o>>) = <<o>>
    BY <1>2 DEF Only
  <2>2. Yields(s, <<o>>, Apply(s, o))
    BY <1>1, YieldsOne
  <2>3. StackMoved(s, what, way, Apply(s, o))
    BY StackIsMoved DEF o
  <2>4. Writes(<<o>>, {})
    BY <1>1 DEF Writes
  <2>5. Apply(s, o) \in Screens
    BY <2>3 DEF StackMoved
  <2> QED
    BY <1>2, <2>1, <2>2, <2>3, <2>4, <2>5 DEF Sends, o
<1>3. CASE ~cond
  <2>1. Only(cond, <<o>>) = <<>>
    BY <1>3 DEF Only
  <2> QED
    BY <1>3, <2>1, SendsNothing DEF o
<1> QED
  BY <1>2, <1>3

\* Questions
LEMMA SendsAsked ==
  ASSUME NEW s \in Screens, NEW Q, Q \subseteq Queries, NEW out \in Seq({"ask"} \X Q), NEW cond
  PROVE  Sends(s, Only(cond, out), s, IF cond THEN Q ELSE {})
<1> DEFINE W == {"ask"} \X Q
<1>1. W \subseteq {"ask"} \X Queries /\ W \subseteq ModeOps \cup W /\ out \in Seq(W)
  OBVIOUS
<1>2. Writes(out, Q)
  <2> HIDE DEF W
  <2>1. out \in Seq(ModeOps \cup W)
    BY <1>1
  <2> QED
    BY <2>1 DEF Writes, W
<1>3. out \in Seq({"ask"} \X Queries)
  <2> DEFINE X == {"ask"} \X Queries
  <2>1. W \subseteq X
    BY <1>1
  <2> HIDE DEF W, X
  <2>2. out \in Seq(X)
    BY <1>1, <2>1
  <2> QED
    BY <2>2 DEF X
<1>4. CASE cond
  BY <1>2, <1>3, <1>4, YieldsAsked DEF Sends, Only
<1>5. CASE ~cond
  BY <1>5, SendsNothing DEF Only
<1> QED
  BY <1>4, <1>5

\* The queries of a level
LEMMA Level2IsAsked ==
  ASSUME NEW f
  PROVE  PutLevel2(f) \in Seq({"ask"} \X Level2)
<1> DEFINE W == {"ask"} \X Level2
<1>1. ASSUME NEW q \in Level2 PROVE Ask(q) \in Seq(W) /\ \A c : Only(c, Ask(q)) \in Seq(W)
  <2> DEFINE o == <<"ask", q>>
  <2>1. o \in W
    OBVIOUS
  <2> HIDE DEF W, o
  <2>2. <<o>> \in Seq(W) /\ <<>> \in Seq(W)
    BY <2>1
  <2>3. Ask(q) = <<o>>
    BY DEF Ask, o
  <2> QED
    BY <2>2, <2>3 DEF Only
<1>2. "xtversion" \in Level2 /\ "da2" \in Level2 /\ "kitty" \in Level2 /\ "1036" \in Level2
      /\ "1039" \in Level2 /\ "2026" \in Level2
  BY DEF Level2
<1>3. \A a, b \in Seq(W) : a \o b \in Seq(W)
  <2> HIDE DEF W
  <2> QED
    OBVIOUS
<1> HIDE DEF W
<1>4. PICK a, b, c, d, e, g \in Seq(W) :
        /\ a = Ask("xtversion") /\ b = Ask("da2") /\ c = Ask("kitty") /\ d = Ask("1036")
        /\ e = Ask("1039") /\ g = Only("SYNC" \notin f, Ask("2026"))
  BY <1>1, <1>2
<1>5. a \o b \o c \o d \o e \o g \in Seq(W)
  BY <1>3
<1> QED
  BY <1>4, <1>5 DEF PutLevel2, W

\* SetToSeq is a sequence of the elements of a finite set.
LEMMA Level3IsAsked ==
  ASSUME NEW f
  PROVE  PutLevel3(f) \in Seq({"ask"} \X Asked3)
<1> DEFINE S == Asked3 \ f
           n == Cardinality(S)
           q == SetToSeq(S)
<1>1. IsFiniteSet(S) /\ n \in Nat
  BY QueryAssumption, FS_Subset, FS_CardinalityType
<1>2. \E g : g \in [1..n -> S] /\ IsInjective(g)
  <2>1. ExistsBijection(1..n, S)
    BY <1>1, FS_CardinalityType
  <2>2. PICK g : g \in Bijection(1..n, S)
    BY <2>1 DEF ExistsBijection
  <2>3. g \in [1..n -> S] /\ \A a, b \in 1..n : g[a] = g[b] => a = b
    BY <2>2 DEF Bijection, Injection, IsInjective
  <2> QED
    BY <2>3 DEF IsInjective
<1>3. q \in [1..n -> S]
  BY <1>2 DEF SetToSeq
<1> HIDE DEF S, n, q
<1>4. Len(q) = n /\ DOMAIN q = 1..n
  BY <1>1, <1>3
<1>5. PutLevel3(f) = [i \in 1..n |-> <<"ask", q[i]>>]
  BY <1>4 DEF PutLevel3, q, S
<1>6. \A i \in 1..n : <<"ask", q[i]>> \in {"ask"} \X Asked3
  BY <1>3 DEF S
<1> QED
  BY <1>1, <1>5, <1>6

-----------------------------------------------------------------------------
(* The modes of the UI *)

\* All modes are as the editor finds them.
Dark(s) ==
  /\ ~s.alt /\ ~s.paste /\ ~s.mokeys /\ ~s.meta /\ ~s.altesc
  /\ s.kbdNormal = 0 /\ s.kbdAlt = 0

\* The modes that the UI sets on a terminal with the features f, on the
\* alternate screen or off it
ModesOn(f, s) ==
  /\ s.paste /\ s.kbdNormal = 0
  /\ s.kbdAlt = (IF "KITTYKBD" \in f THEN 1 ELSE 0)
  /\ s.mokeys <=> ("MOKEYS" \in f /\ "KITTYKBD" \notin f)
  /\ s.meta => "METAESC" \in f
  /\ s.altesc => "ALTESC" \in f

Lit(f, s) == s.alt /\ ModesOn(f, s)

Titles(f) == IF "TITLE" \in f THEN 1 ELSE 0

\* What enabling does to the modes of s
LEMMA EnablesModes ==
  ASSUME NEW s \in Screens, s.alt, Dark([s EXCEPT !.alt = FALSE])
  PROVE  \E t \in Screens :
           Sends(s, EnablePrivateModes, t, {}) /\ Lit(features, t) /\ t.titles = s.titles
<1> DEFINE a == Only("METAESC" \in features, <<<<"meta", "on">>>>)
           b == Only("ALTESC" \in features, <<<<"altesc", "on">>>>)
           c == IF "KITTYKBD" \in features THEN <<<<"kbd", "push">>>>
                ELSE Only("MOKEYS" \in features, <<<<"mokeys", "on">>>>)
           d == <<<<"paste", "on">>>>
<1>1. /\ ~s.paste /\ ~s.mokeys /\ ~s.meta /\ ~s.altesc /\ s.kbdNormal = 0 /\ s.kbdAlt = 0
      /\ s.alt
  BY DEF Dark, Screens
<1>2. PICK t \in Screens :
        /\ Sends(s, a, t, {})
        /\ IF "METAESC" \in features THEN FlagSet(s, "meta", "on", t) ELSE t = s
  BY SendsFlag DEF Flags
<1>3. PICK u \in Screens :
        /\ Sends(t, b, u, {})
        /\ IF "ALTESC" \in features THEN FlagSet(t, "altesc", "on", u) ELSE u = t
  BY SendsFlag DEF Flags
<1>4. PICK v \in Screens :
        /\ Sends(u, c, v, {})
        /\ IF "KITTYKBD" \in features THEN StackMoved(u, "kbd", "push", v)
           ELSE IF "MOKEYS" \in features THEN FlagSet(u, "mokeys", "on", v) ELSE v = u
  <2>1. CASE "KITTYKBD" \in features
    <3>1. c = Only(TRUE, <<<<"kbd", "push">>>>)
      BY <2>1 DEF Only
    <3> HIDE DEF c
    <3>2. \E v \in Screens : /\ Sends(u, Only(TRUE, <<<<"kbd", "push">>>>), v, {})
                             /\ IF TRUE THEN StackMoved(u, "kbd", "push", v) ELSE v = u
      BY SendsStack
    <3> QED
      BY <2>1, <3>1, <3>2
  <2>2. CASE "KITTYKBD" \notin features
    <3>1. c = Only("MOKEYS" \in features, <<<<"mokeys", "on">>>>)
      BY <2>2
    <3> HIDE DEF c
    <3>2. \E v \in Screens :
            /\ Sends(u, Only("MOKEYS" \in features, <<<<"mokeys", "on">>>>), v, {})
            /\ IF "MOKEYS" \in features THEN FlagSet(u, "mokeys", "on", v) ELSE v = u
      BY SendsFlag DEF Flags
    <3> QED
      BY <2>2, <3>1, <3>2
  <2> QED
    BY <2>1, <2>2
<1>5. PICK w \in Screens : Sends(v, d, w, {}) /\ FlagSet(v, "paste", "on", w)
  <2>1. d = Only(TRUE, d)
    BY DEF Only
  <2>2. \E w \in Screens : /\ Sends(v, Only(TRUE, d), w, {})
                           /\ IF TRUE THEN FlagSet(v, "paste", "on", w) ELSE w = v
    BY SendsFlag DEF Flags
  <2> QED
    BY <2>1, <2>2
<1>6. EnablePrivateModes = a \o b \o c \o d
  BY DEF EnablePrivateModes
<1> HIDE DEF a, b, c, d
<1>7. Sends(s, EnablePrivateModes, w, {})
  <2>1. Sends(s, a \o b, u, {} \cup {})
    BY <1>2, <1>3, SendsBoth
  <2>2. Sends(s, a \o b \o c, v, {} \cup {} \cup {})
    BY <2>1, <1>4, SendsBoth
  <2>3. Sends(s, a \o b \o c \o d, w, {} \cup {} \cup {} \cup {})
    BY <2>2, <1>5, SendsBoth
  <2>4. {} \cup {} \cup {} \cup {} = {}
    OBVIOUS
  <2> QED
    BY <1>6, <2>3, <2>4
<1>8. /\ t.alt /\ ~t.paste /\ ~t.mokeys /\ ~t.altesc /\ t.kbdNormal = 0 /\ t.kbdAlt = 0
      /\ t.titles = s.titles /\ (t.meta => "METAESC" \in features)
  BY <1>1, <1>2 DEF FlagSet, Kept, IsOn
<1>9. /\ u.alt /\ ~u.paste /\ ~u.mokeys /\ u.kbdNormal = 0 /\ u.kbdAlt = 0
      /\ u.titles = s.titles /\ (u.meta => "METAESC" \in features)
      /\ u.altesc => "ALTESC" \in features
  BY <1>8, <1>3 DEF FlagSet, Kept, IsOn
<1>10. /\ v.alt /\ v.kbdNormal = 0 /\ v.kbdAlt = (IF "KITTYKBD" \in features THEN 1 ELSE 0)
       /\ v.mokeys <=> ("MOKEYS" \in features /\ "KITTYKBD" \notin features)
       /\ v.titles = s.titles /\ (v.meta => "METAESC" \in features)
       /\ v.altesc => "ALTESC" \in features
  <2>1. CASE "KITTYKBD" \in features
    <3>1. Kept(u, v, "kbd") /\ v.kbdNormal = u.kbdNormal /\ v.kbdAlt = Stacked(u.kbdAlt, "push")
      BY <1>4, <1>9, <2>1 DEF StackMoved
    <3>2. v.kbdAlt = 1
      BY <1>9, <3>1 DEF Stacked
    <3> QED
      BY <1>9, <2>1, <3>1, <3>2 DEF Kept
  <2>2. CASE "KITTYKBD" \notin features /\ "MOKEYS" \in features
    <3>1. Kept(u, v, "mokeys") /\ IsOn(v, "mokeys")
      BY <1>4, <2>2 DEF FlagSet
    <3> QED
      BY <1>9, <2>2, <3>1 DEF Kept, IsOn
  <2>3. CASE "KITTYKBD" \notin features /\ "MOKEYS" \notin features
    BY <1>4, <1>9, <2>3
  <2> QED
    BY <2>1, <2>2, <2>3
<1>11. Lit(features, w) /\ w.titles = s.titles
  BY <1>10, <1>5 DEF FlagSet, Kept, IsOn, Lit, ModesOn
<1> QED
  BY <1>7, <1>11

LEMMA StartsUi ==
  ASSUME NEW s \in Screens, Dark(s)
  PROVE  \E t \in Screens : Sends(s, Start, t, {}) /\ Lit(features, t) /\ t.titles = s.titles
<1> DEFINE a == <<<<"alt", "on">>>>
<1>1. PICK t \in Screens : Sends(s, a, t, {}) /\ FlagSet(s, "alt", "on", t)
  <2>1. a = Only(TRUE, a)
    BY DEF Only
  <2>2. \E t \in Screens : /\ Sends(s, Only(TRUE, a), t, {})
                           /\ IF TRUE THEN FlagSet(s, "alt", "on", t) ELSE t = s
    BY SendsFlag DEF Flags
  <2> QED
    BY <2>1, <2>2
<1>2. Start = a \o EnablePrivateModes
  BY DEF Start
<1> HIDE DEF a
<1>3. t.alt /\ t.titles = s.titles
  BY <1>1 DEF FlagSet, Kept, IsOn
<1>4. Dark([t EXCEPT !.alt = FALSE])
  BY <1>1 DEF FlagSet, Kept, Dark, Screens
<1>5. PICK u \in Screens :
        Sends(t, EnablePrivateModes, u, {}) /\ Lit(features, u) /\ u.titles = t.titles
  BY <1>3, <1>4, EnablesModes
<1>6. Sends(s, Start, u, {} \cup {}) /\ {} \cup {} = {}
  BY <1>1, <1>2, <1>5, SendsBoth
<1> QED
  BY <1>3, <1>5, <1>6

\* What is restored before the UI is left
LEMMA EndsUi ==
  ASSUME NEW s \in Screens, Lit(features, s)
  PROVE  \E t \in Screens :
           /\ Sends(s, RestorePrivateModes, t, {}) /\ t.alt /\ t.titles = s.titles
           /\ Dark([t EXCEPT !.alt = FALSE])
<1> DEFINE a == Only("METAESC" \in features, <<<<"meta", "off">>>>)
           b == Only("ALTESC" \in features, <<<<"altesc", "off">>>>)
           c == IF "KITTYKBD" \in features THEN <<<<"kbd", "pop">>>>
                ELSE Only("MOKEYS" \in features, <<<<"mokeys", "off">>>>)
           d == <<<<"paste", "off">>>>
<1>1. PICK t \in Screens :
        /\ Sends(s, a, t, {})
        /\ IF "METAESC" \in features THEN FlagSet(s, "meta", "off", t) ELSE t = s
  BY SendsFlag DEF Flags
<1>2. PICK u \in Screens :
        /\ Sends(t, b, u, {})
        /\ IF "ALTESC" \in features THEN FlagSet(t, "altesc", "off", u) ELSE u = t
  BY SendsFlag DEF Flags
<1>3. PICK v \in Screens :
        /\ Sends(u, c, v, {})
        /\ IF "KITTYKBD" \in features THEN StackMoved(u, "kbd", "pop", v)
           ELSE IF "MOKEYS" \in features THEN FlagSet(u, "mokeys", "off", v) ELSE v = u
  <2>1. CASE "KITTYKBD" \in features
    <3>1. c = Only(TRUE, <<<<"kbd", "pop">>>>)
      BY <2>1 DEF Only
    <3> HIDE DEF c
    <3>2. \E v \in Screens : /\ Sends(u, Only(TRUE, <<<<"kbd", "pop">>>>), v, {})
                             /\ IF TRUE THEN StackMoved(u, "kbd", "pop", v) ELSE v = u
      BY SendsStack
    <3> QED
      BY <2>1, <3>1, <3>2
  <2>2. CASE "KITTYKBD" \notin features
    <3>1. c = Only("MOKEYS" \in features, <<<<"mokeys", "off">>>>)
      BY <2>2
    <3> HIDE DEF c
    <3>2. \E v \in Screens :
            /\ Sends(u, Only("MOKEYS" \in features, <<<<"mokeys", "off">>>>), v, {})
            /\ IF "MOKEYS" \in features THEN FlagSet(u, "mokeys", "off", v) ELSE v = u
      BY SendsFlag DEF Flags
    <3> QED
      BY <2>2, <3>1, <3>2
  <2> QED
    BY <2>1, <2>2
<1>4. PICK w \in Screens : Sends(v, d, w, {}) /\ FlagSet(v, "paste", "off", w)
  <2>1. d = Only(TRUE, d)
    BY DEF Only
  <2>2. \E w \in Screens : /\ Sends(v, Only(TRUE, d), w, {})
                           /\ IF TRUE THEN FlagSet(v, "paste", "off", w) ELSE w = v
    BY SendsFlag DEF Flags
  <2> QED
    BY <2>1, <2>2
<1>5. RestorePrivateModes = a \o b \o c \o d
  BY DEF RestorePrivateModes
<1> HIDE DEF a, b, c, d
<1>6. Sends(s, RestorePrivateModes, w, {})
  <2>1. Sends(s, a \o b, u, {} \cup {})
    BY <1>1, <1>2, SendsBoth
  <2>2. Sends(s, a \o b \o c, v, {} \cup {} \cup {})
    BY <2>1, <1>3, SendsBoth
  <2>3. Sends(s, a \o b \o c \o d, w, {} \cup {} \cup {} \cup {})
    BY <2>2, <1>4, SendsBoth
  <2>4. {} \cup {} \cup {} \cup {} = {}
    OBVIOUS
  <2> QED
    BY <1>5, <2>3, <2>4
<1>7. /\ t.alt /\ t.kbdNormal = 0 /\ t.kbdAlt = (IF "KITTYKBD" \in features THEN 1 ELSE 0)
      /\ t.mokeys <=> ("MOKEYS" \in features /\ "KITTYKBD" \notin features)
      /\ t.titles = s.titles /\ ~t.meta
      /\ t.altesc => "ALTESC" \in features
  BY <1>1 DEF FlagSet, Kept, IsOff, Lit, ModesOn
<1>8. /\ u.alt /\ u.kbdNormal = 0 /\ u.kbdAlt = (IF "KITTYKBD" \in features THEN 1 ELSE 0)
      /\ u.mokeys <=> ("MOKEYS" \in features /\ "KITTYKBD" \notin features)
      /\ u.titles = s.titles /\ ~u.meta /\ ~u.altesc
  BY <1>2, <1>7 DEF FlagSet, Kept, IsOff
<1>9. /\ v.alt /\ v.kbdNormal = 0 /\ v.kbdAlt = 0 /\ ~v.mokeys
      /\ v.titles = s.titles /\ ~v.meta /\ ~v.altesc
  <2>1. CASE "KITTYKBD" \in features
    <3>1. Kept(u, v, "kbd") /\ v.kbdNormal = u.kbdNormal /\ v.kbdAlt = Stacked(u.kbdAlt, "pop")
      BY <1>3, <1>8, <2>1 DEF StackMoved
    <3>2. v.kbdAlt = 0
      BY <1>8, <2>1, <3>1 DEF Stacked
    <3> QED
      BY <1>8, <2>1, <3>1, <3>2 DEF Kept
  <2>2. CASE "KITTYKBD" \notin features /\ "MOKEYS" \in features
    <3>1. Kept(u, v, "mokeys") /\ IsOff(v, "mokeys")
      BY <1>3, <2>2 DEF FlagSet
    <3> QED
      BY <1>8, <2>2, <3>1 DEF Kept, IsOff
  <2>3. CASE "KITTYKBD" \notin features /\ "MOKEYS" \notin features
    BY <1>3, <1>8, <2>3
  <2> QED
    BY <2>1, <2>2, <2>3
<1>10. /\ w.alt /\ w.kbdNormal = 0 /\ w.kbdAlt = 0 /\ ~w.mokeys
       /\ w.titles = s.titles /\ ~w.meta /\ ~w.altesc /\ ~w.paste
  BY <1>4, <1>9 DEF FlagSet, Kept, IsOff
<1>11. Dark([w EXCEPT !.alt = FALSE])
  BY <1>10 DEF Dark, Screens
<1> QED
  BY <1>6, <1>10, <1>11

\* ui_end, after title was written
LEMMA LeavesUi ==
  ASSUME NEW s \in Screens, NEW title, NEW t \in Screens, Sends(s, title, t, {}), Lit(features, t)
  PROVE  \E u \in Screens : Sends(s, UiEnd(title), u, {}) /\ Dark(u) /\ u.titles = t.titles
<1> DEFINE a == <<<<"alt", "off">>>>
<1>1. PICK u \in Screens :
        /\ Sends(t, RestorePrivateModes, u, {}) /\ u.alt /\ u.titles = t.titles
        /\ Dark([u EXCEPT !.alt = FALSE])
  BY EndsUi
<1>2. PICK v \in Screens : Sends(u, a, v, {}) /\ FlagSet(u, "alt", "off", v)
  <2>1. a = Only(TRUE, a)
    BY DEF Only
  <2>2. \E v \in Screens : /\ Sends(u, Only(TRUE, a), v, {})
                           /\ IF TRUE THEN FlagSet(u, "alt", "off", v) ELSE v = u
    BY SendsFlag DEF Flags
  <2> QED
    BY <2>1, <2>2
<1>3. UiEnd(title) = title \o RestorePrivateModes \o a
  BY DEF UiEnd
<1> HIDE DEF a
<1>4. Sends(s, UiEnd(title), v, {})
  <2>1. Sends(s, title \o RestorePrivateModes, u, {} \cup {})
    BY <1>1, SendsBoth
  <2>2. Sends(s, title \o RestorePrivateModes \o a, v, {} \cup {} \cup {})
    BY <2>1, <1>2, SendsBoth
  <2>3. {} \cup {} \cup {} = {}
    OBVIOUS
  <2> QED
    BY <1>3, <2>2, <2>3
<1>5. Dark(v) /\ v.titles = t.titles
  <2>1. ~u.paste /\ ~u.mokeys /\ ~u.meta /\ ~u.altesc /\ u.kbdNormal = 0 /\ u.kbdAlt = 0
    BY <1>1 DEF Dark, Screens
  <2> QED
    BY <1>1, <1>2, <2>1 DEF FlagSet, Kept, IsOff, Dark
<1> QED
  BY <1>4, <1>5

\* The title is saved, restored, or both.
LEMMA SavesTitle ==
  ASSUME NEW s \in Screens, NEW f
  PROVE  \E t \in Screens : /\ Sends(s, SaveTitle(f), t, {}) /\ Kept(s, t, "titles")
                            /\ t.titles = s.titles + Titles(f)
<1>1. PICK t \in Screens :
        /\ Sends(s, SaveTitle(f), t, {})
        /\ IF "TITLE" \in f THEN StackMoved(s, "titles", "push", t) ELSE t = s
  BY SendsStack DEF SaveTitle
<1>2. Kept(s, t, "titles") /\ t.titles = s.titles + Titles(f)
  BY <1>1 DEF StackMoved, Stacked, Kept, Titles, Screens
<1> QED
  BY <1>1, <1>2

LEMMA RestoresTitle ==
  ASSUME NEW s \in Screens, s.titles = Titles(features)
  PROVE  \E t \in Screens : /\ Sends(s, RestoreTitle, t, {}) /\ Kept(s, t, "titles")
                            /\ t.titles = 0
<1>1. PICK t \in Screens :
        /\ Sends(s, RestoreTitle, t, {})
        /\ IF "TITLE" \in features THEN StackMoved(s, "titles", "pop", t) ELSE t = s
  BY SendsStack DEF RestoreTitle
<1>2. Kept(s, t, "titles") /\ t.titles = 0
  BY <1>1 DEF StackMoved, Stacked, Kept, Titles, Screens
<1> QED
  BY <1>1, <1>2

LEMMA RestoresAndSavesTitle ==
  ASSUME NEW s \in Screens, s.titles = Titles(features)
  PROVE  \E t \in Screens : /\ Sends(s, RestoreAndSaveTitle, t, {}) /\ Kept(s, t, "titles")
                            /\ t.titles = Titles(features)
<1>1. PICK t \in Screens : Sends(s, RestoreTitle, t, {}) /\ Kept(s, t, "titles") /\ t.titles = 0
  BY RestoresTitle
<1>2. PICK u \in Screens : /\ Sends(t, SaveTitle(features), u, {}) /\ Kept(t, u, "titles")
                           /\ u.titles = t.titles + Titles(features)
  BY SavesTitle
<1>3. Sends(s, RestoreAndSaveTitle, u, {} \cup {}) /\ {} \cup {} = {}
  BY <1>1, <1>2, SendsBoth DEF RestoreAndSaveTitle
<1>4. Kept(s, u, "titles") /\ u.titles = Titles(features)
  BY <1>1, <1>2 DEF Kept, Titles
<1> QED
  BY <1>3, <1>4

LEMMA KeptModes ==
  ASSUME NEW s, NEW t, Kept(s, t, "titles")
  PROVE  /\ \A f : Lit(f, s) <=> Lit(f, t)
         /\ Dark(s) <=> Dark(t)
BY DEF Kept, Lit, ModesOn, Dark

-----------------------------------------------------------------------------
(* The queries and the answers *)

\* What put_initial_queries asks
InitialQueries ==
  IF level >= 1 /\ "NOQUERY1" \notin features
  THEN {"da1"} \cup (IF level >= 2 THEN Level2 ELSE {}) \cup (IF level >= 3 THEN Asked3 ELSE {})
  ELSE {}

LEMMA SendsQueries ==
  ASSUME NEW s \in Screens
  PROVE  Sends(s, PutInitialQueries, s, InitialQueries)
<1> DEFINE f == IF level >= 6 THEN {} ELSE features
           a == Ask("da1")
           b == Only(level >= 2, PutLevel2(f))
           c == Only(level >= 3, PutLevel3(f))
           Q == {"da1"} \cup (IF level >= 2 THEN Level2 ELSE {})
                \cup (IF level >= 3 THEN Asked3 ELSE {})
           cond == level >= 1 /\ "NOQUERY1" \notin features
<1>1. Sends(s, a, s, {"da1"})
  <2>1. a \in Seq({"ask"} \X {"da1"})
    BY DEF Ask
  <2>2. {"da1"} \subseteq Queries
    BY DEF Queries
  <2>3. Sends(s, Only(TRUE, a), s, IF TRUE THEN {"da1"} ELSE {})
    BY <2>1, <2>2, SendsAsked
  <2>4. Only(TRUE, a) = a
    BY DEF Only
  <2> QED
    BY <2>3, <2>4
<1>2. Sends(s, b, s, IF level >= 2 THEN Level2 ELSE {})
  BY Level2IsAsked, SendsAsked DEF Queries
<1>3. Sends(s, c, s, IF level >= 3 THEN Asked3 ELSE {})
  BY Level3IsAsked, SendsAsked DEF Queries
<1>4. PutInitialQueries = Only(cond, a \o b \o c)
  BY DEF PutInitialQueries
<1>5. InitialQueries = IF cond THEN Q ELSE {}
  BY DEF InitialQueries
<1> HIDE DEF a, b, c, cond
<1>6. Sends(s, a \o b, s, {"da1"} \cup (IF level >= 2 THEN Level2 ELSE {}))
  BY <1>1, <1>2, SendsBoth
<1>7. Sends(s, a \o b \o c, s, Q)
  BY <1>3, <1>6, SendsBoth
<1> HIDE DEF Q
<1>8. CASE cond
  BY <1>4, <1>5, <1>7, <1>8 DEF Only
<1>9. CASE ~cond
  BY <1>4, <1>5, <1>9, SendsNothing DEF Only
<1> QED
  BY <1>8, <1>9

\* What is asked for a reply
ReplyQueries(found) ==
  (IF "QUERY2" \in Detected(found) THEN Level2 ELSE {})
  \cup (IF "QUERY3" \in Detected(found) THEN Asked3 ELSE {})

\* What is new of the features that the modes depend on
LEMMA DetectedIs ==
  ASSUME NEW found
  PROVE  /\ \A x \in {"QUERY2", "KITTYKBD", "MOKEYS", "TITLE"} :
              x \in Detected(found) <=> x \in found /\ x \notin features
         /\ Detected(found) \subseteq found \ features
BY DEF Detected

LEMMA SendsReply ==
  ASSUME NEW found, NEW s \in Screens, Lit(features, s), s.titles = Titles(features)
  PROVE  \E t \in Screens :
           /\ Sends(s, ReplyOutput(found), t, ReplyQueries(found))
           /\ Lit(features \cup found, t) /\ t.titles = Titles(features \cup found)
<1> DEFINE new == Detected(found)
           known == features \cup found
           x == Only("MOKEYS" \in features, <<<<"mokeys", "off">>>>)
           y == <<<<"kbd", "push">>>>
           a == Only("QUERY2" \in new, PutLevel2(known))
           b == Only("QUERY3" \in new, PutLevel3(known))
           c == Only("KITTYKBD" \in new, x \o y)
           d == Only("MOKEYS" \in new /\ "KITTYKBD" \notin known, <<<<"mokeys", "on">>>>)
           e == Only("METAESC" \in new, <<<<"meta", "on">>>>)
           g == Only("ALTESC" \in new, <<<<"altesc", "on">>>>)
           h == Only("TITLE" \in new, SaveTitle(known))
           A == IF "QUERY2" \in new THEN Level2 ELSE {}
           B == IF "QUERY3" \in new THEN Asked3 ELSE {}
<1>1. Sends(s, a, s, A)
  BY Level2IsAsked, SendsAsked DEF Queries
<1>2. Sends(s, b, s, B)
  BY Level3IsAsked, SendsAsked DEF Queries
<1>3. PICK u \in Screens :
        /\ Sends(s, c, u, {})
        /\ IF "KITTYKBD" \in new
           THEN /\ Kept(s, [u EXCEPT !.kbdNormal = s.kbdNormal, !.kbdAlt = s.kbdAlt], "mokeys")
                /\ u.kbdNormal = 0 /\ u.kbdAlt = s.kbdAlt + 1
                /\ u.mokeys => s.mokeys /\ "MOKEYS" \notin features
           ELSE u = s
  <2>1. CASE "KITTYKBD" \in new
    <3>1. PICK v \in Screens :
            /\ Sends(s, x, v, {})
            /\ IF "MOKEYS" \in features THEN FlagSet(s, "mokeys", "off", v) ELSE v = s
      BY SendsFlag DEF Flags
    <3>2. PICK w \in Screens : Sends(v, y, w, {}) /\ StackMoved(v, "kbd", "push", w)
      <4>1. y = Only(TRUE, y)
        BY DEF Only
      <4>2. \E w \in Screens : /\ Sends(v, Only(TRUE, y), w, {})
                               /\ IF TRUE THEN StackMoved(v, "kbd", "push", w) ELSE w = v
        BY SendsStack
      <4> QED
        BY <4>1, <4>2
    <3>3. c = x \o y
      BY <2>1 DEF Only
    <3> HIDE DEF x, y, c
    <3>4. Sends(s, c, w, {} \cup {}) /\ {} \cup {} = {}
      BY <3>1, <3>2, <3>3, SendsBoth
    <3>5. /\ Kept(s, v, "mokeys") /\ v.alt
          /\ v.mokeys => s.mokeys /\ "MOKEYS" \notin features
      BY <3>1 DEF FlagSet, Kept, IsOff, Lit
    <3>6. /\ Kept(v, w, "kbd")
          /\ w.kbdNormal = v.kbdNormal /\ w.kbdAlt = v.kbdAlt + 1
      BY <3>2, <3>5 DEF StackMoved, Stacked
    <3>7. /\ Kept(s, [w EXCEPT !.kbdNormal = s.kbdNormal, !.kbdAlt = s.kbdAlt], "mokeys")
          /\ w.kbdNormal = 0 /\ w.kbdAlt = s.kbdAlt + 1
          /\ w.mokeys => s.mokeys /\ "MOKEYS" \notin features
      BY <3>5, <3>6 DEF Kept, Lit, ModesOn, Screens
    <3> QED
      BY <2>1, <3>4, <3>7
  <2>2. CASE "KITTYKBD" \notin new
    <3>1. c = <<>>
      BY <2>2 DEF Only
    <3> HIDE DEF c
    <3> QED
      BY <2>2, <3>1, SendsNothing
  <2> QED
    BY <2>1, <2>2
<1>4. PICK v \in Screens :
        /\ Sends(u, d, v, {})
        /\ IF "MOKEYS" \in new /\ "KITTYKBD" \notin known
           THEN FlagSet(u, "mokeys", "on", v) ELSE v = u
  BY SendsFlag DEF Flags
<1>5. PICK w \in Screens :
        /\ Sends(v, e, w, {})
        /\ IF "METAESC" \in new THEN FlagSet(v, "meta", "on", w) ELSE w = v
  BY SendsFlag DEF Flags
<1>6. PICK z \in Screens :
        /\ Sends(w, g, z, {})
        /\ IF "ALTESC" \in new THEN FlagSet(w, "altesc", "on", z) ELSE z = w
  BY SendsFlag DEF Flags
<1>7. PICK t \in Screens :
        /\ Sends(z, h, t, {}) /\ Kept(z, t, "titles")
        /\ t.titles = z.titles + (IF "TITLE" \in new THEN Titles(known) ELSE 0)
  <2>1. CASE "TITLE" \in new
    <3>1. h = SaveTitle(known)
      BY <2>1 DEF Only
    <3> HIDE DEF h, known
    <3> QED
      BY <2>1, <3>1, SavesTitle
  <2>2. CASE "TITLE" \notin new
    <3>1. h = <<>> /\ z.titles + 0 = z.titles
      BY <2>2 DEF Only, Screens
    <3>2. Kept(z, z, "titles")
      BY DEF Kept
    <3> HIDE DEF h
    <3> QED
      BY <2>2, <3>1, <3>2, SendsNothing
  <2> QED
    BY <2>1, <2>2
<1>8. ReplyOutput(found) = a \o b \o c \o d \o e \o g \o h /\ ReplyQueries(found) = A \cup B
  BY DEF ReplyOutput, ReplyQueries
<1>9. /\ \A n \in {"QUERY2", "KITTYKBD", "MOKEYS", "TITLE"} :
           n \in new <=> n \in found /\ n \notin features
      /\ new \subseteq found
  BY DetectedIs
<1> HIDE DEF a, b, c, d, e, g, h, A, B, new
<1>10. Sends(s, ReplyOutput(found), t, ReplyQueries(found))
  <2>1. Sends(s, a \o b, s, A \cup B)
    BY <1>1, <1>2, SendsBoth
  <2>2. Sends(s, a \o b \o c, u, A \cup B \cup {})
    BY <2>1, <1>3, SendsBoth
  <2>3. Sends(s, a \o b \o c \o d, v, A \cup B \cup {} \cup {})
    BY <2>2, <1>4, SendsBoth
  <2>4. Sends(s, a \o b \o c \o d \o e, w, A \cup B \cup {} \cup {} \cup {})
    BY <2>3, <1>5, SendsBoth
  <2>5. Sends(s, a \o b \o c \o d \o e \o g, z, A \cup B \cup {} \cup {} \cup {} \cup {})
    BY <2>4, <1>6, SendsBoth
  <2>6. Sends(s, a \o b \o c \o d \o e \o g \o h, t, A \cup B \cup {} \cup {} \cup {} \cup {} \cup {})
    BY <2>5, <1>7, SendsBoth
  <2>7. A \cup B \cup {} \cup {} \cup {} \cup {} \cup {} = A \cup B
    OBVIOUS
  <2> QED
    BY <1>8, <2>6, <2>7
<1>11. /\ u.alt /\ u.paste /\ u.kbdNormal = 0 /\ u.titles = s.titles
       /\ u.kbdAlt = (IF "KITTYKBD" \in known THEN 1 ELSE 0)
       /\ u.mokeys <=> ("MOKEYS" \in features /\ "KITTYKBD" \notin known)
       /\ u.meta => "METAESC" \in features
       /\ u.altesc => "ALTESC" \in features
  <2>1. CASE "KITTYKBD" \in new
    <3>1. "KITTYKBD" \in known /\ "KITTYKBD" \notin features
      BY <1>9, <2>1
    <3>2. u.alt = s.alt /\ u.paste = s.paste /\ u.meta = s.meta /\ u.altesc = s.altesc
          /\ u.titles = s.titles
      BY <1>3, <2>1 DEF Kept, Screens
    <3>3. /\ u.kbdNormal = 0 /\ u.kbdAlt = s.kbdAlt + 1
          /\ u.mokeys => s.mokeys /\ "MOKEYS" \notin features
      BY <1>3, <2>1
    <3> QED
      BY <3>1, <3>2, <3>3 DEF Lit, ModesOn
  <2>2. CASE "KITTYKBD" \notin new
    <3>1. "KITTYKBD" \in known <=> "KITTYKBD" \in features
      BY <1>9, <2>2
    <3>2. u = s
      BY <1>3, <2>2
    <3> QED
      BY <3>1, <3>2 DEF Lit, ModesOn
  <2> QED
    BY <2>1, <2>2
<1>12. /\ v.alt /\ v.paste /\ v.kbdNormal = 0 /\ v.titles = s.titles
       /\ v.kbdAlt = (IF "KITTYKBD" \in known THEN 1 ELSE 0)
       /\ v.mokeys <=> ("MOKEYS" \in known /\ "KITTYKBD" \notin known)
       /\ v.meta => "METAESC" \in features
       /\ v.altesc => "ALTESC" \in features
  <2>1. "MOKEYS" \in known <=> "MOKEYS" \in features \/ "MOKEYS" \in new
    BY <1>9
  <2> HIDE DEF known
  <2>2. CASE "MOKEYS" \in new /\ "KITTYKBD" \notin known
    BY <1>4, <1>11, <2>1, <2>2 DEF FlagSet, Kept, IsOn
  <2>3. CASE ~("MOKEYS" \in new /\ "KITTYKBD" \notin known)
    BY <1>4, <1>11, <2>1, <2>3
  <2> QED
    BY <2>2, <2>3
<1>13. /\ w.alt /\ w.paste /\ w.kbdNormal = 0 /\ w.titles = s.titles
       /\ w.kbdAlt = (IF "KITTYKBD" \in known THEN 1 ELSE 0)
       /\ w.mokeys <=> ("MOKEYS" \in known /\ "KITTYKBD" \notin known)
       /\ w.meta => "METAESC" \in known
       /\ w.altesc => "ALTESC" \in features
  <2>1. ("METAESC" \in new => "METAESC" \in known) /\ ("METAESC" \in features => "METAESC" \in known)
    BY <1>9
  <2> HIDE DEF known
  <2> QED
    BY <1>5, <1>12, <2>1 DEF FlagSet, Kept, IsOn
<1>14. /\ z.alt /\ z.paste /\ z.kbdNormal = 0 /\ z.titles = s.titles
       /\ z.kbdAlt = (IF "KITTYKBD" \in known THEN 1 ELSE 0)
       /\ z.mokeys <=> ("MOKEYS" \in known /\ "KITTYKBD" \notin known)
       /\ z.meta => "METAESC" \in known
       /\ z.altesc => "ALTESC" \in known
  <2>1. ("ALTESC" \in new => "ALTESC" \in known) /\ ("ALTESC" \in features => "ALTESC" \in known)
    BY <1>9
  <2> HIDE DEF known
  <2> QED
    BY <1>6, <1>13, <2>1 DEF FlagSet, Kept, IsOn
<1>15. Lit(known, z)
  <2> HIDE DEF known
  <2> QED
    BY <1>14 DEF Lit, ModesOn
<1>16. Lit(known, t)
  BY <1>7, <1>15, KeptModes
<1>17. t.titles = Titles(known)
  <2>1. "TITLE" \in known <=> "TITLE" \in features \/ "TITLE" \in new
    BY <1>9
  <2>2. "TITLE" \in new => "TITLE" \notin features
    BY <1>9
  <2> HIDE DEF known
  <2> QED
    BY <1>7, <1>14, <2>1, <2>2 DEF Titles
<1> QED
  BY <1>10, <1>16, <1>17

\* A reply that changes nothing that is written writes nothing.
LEMMA NothingReplied ==
  ASSUME NEW found, Detected(found) \cap Producing = {},
         ~("MOKEYS" \in Detected(found) /\ "KITTYKBD" \notin features \cup found)
  PROVE  ReplyOutput(found) = <<>>
<1> DEFINE new == Detected(found)
           known == features \cup found
<1>1. /\ "QUERY2" \notin new /\ "QUERY3" \notin new /\ "KITTYKBD" \notin new /\ "METAESC" \notin new
      /\ "ALTESC" \notin new /\ "TITLE" \notin new /\ ~("MOKEYS" \in new /\ "KITTYKBD" \notin known)
  BY DEF Producing
<1>2. \A x : Only(FALSE, x) = <<>>
  BY DEF Only
<1>3. <<>> \o <<>> = <<>>
  OBVIOUS
<1>4. ReplyOutput(found) = <<>> \o <<>> \o <<>> \o <<>> \o <<>> \o <<>> \o <<>>
  <2> HIDE DEF new, known
  <2>1. Only("QUERY2" \in new, PutLevel2(known)) = <<>>
    BY <1>1 DEF Only
  <2>2. Only("QUERY3" \in new, PutLevel3(known)) = <<>>
    BY <1>1 DEF Only
  <2>3. Only("KITTYKBD" \in new,
          Only("MOKEYS" \in features, <<<<"mokeys", "off">>>>) \o <<<<"kbd", "push">>>>) = <<>>
    BY <1>1 DEF Only
  <2>4. Only("MOKEYS" \in new /\ "KITTYKBD" \notin known, <<<<"mokeys", "on">>>>) = <<>>
    BY <1>1 DEF Only
  <2>5. Only("METAESC" \in new, <<<<"meta", "on">>>>) = <<>>
    BY <1>1 DEF Only
  <2>6. Only("ALTESC" \in new, <<<<"altesc", "on">>>>) = <<>>
    BY <1>1 DEF Only
  <2>7. Only("TITLE" \in new, SaveTitle(known)) = <<>>
    BY <1>1 DEF Only
  <2> QED
    BY <2>1, <2>2, <2>3, <2>4, <2>5, <2>6, <2>7 DEF ReplyOutput, new, known
<1> QED
  BY <1>3, <1>4

-----------------------------------------------------------------------------
(* The invariant *)

BeforeUi == {"start", "begun", "first"}
InUi == {"main", "yield", "ending", "started", "quiet", "quietchild", "suspend"}
Away == {"ended", "child", "prompt", "resumed", "suspending", "cooked", "stopped", "continued",
         "entering"}
AtEnd == {"quitting", "quit", "gone"}

\* Where need_term_reset_on_fatal_error is set
Armed == {"first", "main", "yield", "quiet", "quietchild", "suspend", "suspending", "cooked",
          "continued", "entering", "quitting", "quit"}
Cooked == {"start", "child", "cooked", "stopped", "continued", "quit", "gone"}

Raw == {"begun", "first", "main", "yield", "ending", "ended", "prompt", "resumed", "started",
        "quiet", "suspend", "suspending", "entering", "quitting"}

\* The modes and the titles at a place p, with the features f
ModesAt(p, f, s) ==
  /\ p \in BeforeUi \cup AtEnd => Dark(s) /\ s.titles = 0
  /\ p \in InUi => Lit(f, s) /\ s.titles = Titles(f)
  /\ p \in Away => Dark(s) /\ s.titles = Titles(f)

TtyAt(p, mode, armed) ==
  /\ p \in BeforeUi \cup InUi \cup Away \cup AtEnd \cup {"killed"}
  /\ armed <=> p \in Armed
  /\ p \in Cooked => mode = "cooked"
  /\ p \in Raw => mode = "raw"

\* A query was sent once at most, and what was asked is known to be.
QueriesAre(p, f, n) ==
  /\ n \in [Queries -> Nat]
  /\ \A q \in Queries : n[q] <= 1
  /\ p \in BeforeUi => \A q \in Queries : n[q] = 0
  /\ \A q \in Level2 : n[q] # 0 => "QUERY2" \in f
  /\ \A q \in Asked3 : n[q] # 0 => "QUERY3" \in f

TermInv ==
  /\ obuf = <<>> /\ level \in Nat /\ screen \in Screens
  /\ ModesAt(pos, features, screen)
  /\ TtyAt(pos, ttyMode, reset)
  /\ QueriesAre(pos, features, queried)

\* A fatal signal leaves the terminal as it was found.
KilledInv == pos = "killed" => Dark(screen) /\ ttyMode = "cooked"

LEMMA TermInvInit == TermInit => TermInv
<1> SUFFICES ASSUME TermInit PROVE TermInv
  OBVIOUS
<1>1. Fresh \in Screens /\ Dark(Fresh) /\ Fresh.titles = 0
  BY DEF Fresh, Screens, Dark
<1>2. screen = Fresh /\ pos = "start" /\ obuf = <<>> /\ ttyMode = "cooked" /\ reset = FALSE
      /\ level \in Nat /\ queried = [q \in Queries |-> 0]
  BY QueryAssumption DEF TermInit
<1>3. ModesAt(pos, features, screen)
  BY <1>1, <1>2 DEF ModesAt, BeforeUi, InUi, Away
<1>4. TtyAt(pos, ttyMode, reset)
  BY <1>2 DEF TtyAt, BeforeUi, Armed, Raw
<1>5. QueriesAre(pos, features, queried)
  BY <1>2 DEF QueriesAre, Queries
<1> QED
  BY <1>1, <1>2, <1>3, <1>4, <1>5 DEF TermInv

\* What a flush does
LEMMA FlushIs ==
  ASSUME NEW out, NEW t, NEW Q, Q \subseteq Queries, Sends(screen, out, t, Q), Flush(out),
         queried \in [Queries -> Nat]
  PROVE  /\ obuf' = <<>> /\ screen' = t /\ t \in Screens
         /\ queried' \in [Queries -> Nat]
         /\ \A q \in Queries : queried'[q] <= queried[q] + (IF q \in Q THEN 1 ELSE 0)
<1>1. FoldLeft(Apply, screen, out) = t /\ t \in Screens
  BY YieldsFold, YieldsScreen DEF Sends
<1>2. Asks(out) \subseteq Q
  BY WritesAre DEF Sends
<1>3. queried' = [q \in Queries |-> queried[q] + (IF q \in Asks(out) THEN 1 ELSE 0)]
  BY DEF Flush
<1>4. queried' \in [Queries -> Nat]
  BY <1>3
<1>5. ASSUME NEW q \in Queries PROVE queried'[q] <= queried[q] + (IF q \in Q THEN 1 ELSE 0)
  <2>1. queried'[q] = queried[q] + (IF q \in Asks(out) THEN 1 ELSE 0) /\ queried[q] \in Nat
    BY <1>3
  <2> QED
    BY <1>2, <2>1
<1> QED
  BY <1>1, <1>4, <1>5 DEF Flush

\* A step that writes nothing and is no step into the UI or out of it
Quietly(from, to) ==
  /\ from \in BeforeUi <=> to \in BeforeUi
  /\ from \in InUi <=> to \in InUi
  /\ from \in Away <=> to \in Away
  /\ from \in AtEnd <=> to \in AtEnd

LEMMA QuietStep ==
  ASSUME TermInv, Quietly(pos, pos'), TtyAt(pos', ttyMode', reset'),
         UNCHANGED <<obuf, level, features, screen, queried>>
  PROVE  TermInv'
<1>1. ModesAt(pos', features, screen)
  BY DEF TermInv, Quietly, ModesAt
<1>2. QueriesAre(pos', features, queried)
  BY DEF TermInv, Quietly, QueriesAre
<1> QED
  BY <1>1, <1>2 DEF TermInv

\* A step that writes modes only
LEMMA WriteStep ==
  ASSUME TermInv, NEW from, NEW out, NEW to, NEW t, Write(from, out, to), Sends(screen, out, t, {}),
         TtyAt(to, ttyMode, reset), to \notin BeforeUi, ModesAt(to, features, t)
  PROVE  TermInv'
<1>1. Sends(screen, obuf \o out, t, {})
  <2>1. Sends(screen, <<>>, screen, {})
    BY SendsNothing DEF TermInv
  <2>2. Sends(screen, <<>> \o out, t, {} \cup {}) /\ {} \cup {} = {}
    BY <2>1, SendsBoth
  <2> QED
    BY <2>2 DEF TermInv
<1>2. Flush(obuf \o out) /\ pos' = to /\ UNCHANGED <<level, features, ttyMode, reset>>
  BY DEF Write, GoOn
<1>3. queried \in [Queries -> Nat]
  BY DEF TermInv, QueriesAre
<1> DEFINE w == obuf \o out
<1> HIDE DEF w
<1>4. Sends(screen, w, t, {}) /\ Flush(w) /\ {} \subseteq Queries
  BY <1>1, <1>2 DEF w
<1>5. /\ obuf' = <<>> /\ screen' = t /\ t \in Screens
      /\ queried' \in [Queries -> Nat]
      /\ \A q \in Queries : queried'[q] <= queried[q] + (IF q \in {} THEN 1 ELSE 0)
  BY <1>3, <1>4, FlushIs
<1>6. \A q \in Queries : queried'[q] <= queried[q] /\ queried[q] \in Nat /\ queried'[q] \in Nat
  BY <1>3, <1>5
<1>7. QueriesAre(to, features, queried')
  <2>1. \A q \in Queries : queried'[q] <= 1 /\ (queried'[q] # 0 => queried[q] # 0)
    BY <1>6 DEF TermInv, QueriesAre
  <2>2. Level2 \subseteq Queries /\ Asked3 \subseteq Queries
    BY DEF Queries
  <2> QED
    BY <1>5, <2>1, <2>2 DEF TermInv, QueriesAre
<1> QED
  BY <1>2, <1>5, <1>7 DEF TermInv


\* The small steps
LEMMA TtyStep ==
  ASSUME TermInv, NEW from, NEW m, NEW to, Tty(from, m, to), Quietly(from, to),
         TtyAt(to, m, reset)
  PROVE  TermInv'
BY QuietStep DEF Tty, GoOn, SetMode

LEMMA ResetStep ==
  ASSUME TermInv, NEW from, NEW on, NEW to, SetReset(from, on, to), Quietly(from, to),
         TtyAt(to, ttyMode, on)
  PROVE  TermInv'
BY QuietStep DEF SetReset, GoOn

LEMMA LeaveStep ==
  ASSUME TermInv, NEW to \in {"yield", "quiet", "suspend"}, Leave(to)
  PROVE  TermInv'
<1>1. Quietly("main", to)
  BY DEF Quietly, BeforeUi, InUi, Away, AtEnd
<1>2. TtyAt(to, ttyMode, reset)
  BY DEF Leave, TermInv, TtyAt, InUi, Armed, Cooked, Raw
<1> QED
  BY <1>1, <1>2, QuietStep DEF Leave, GoOn

LEMMA ReentersUi ==
  ASSUME NEW s \in Screens, Dark(s), s.titles = Titles(features)
  PROVE  \E u \in Screens : /\ Sends(s, Start \o RestoreAndSaveTitle, u, {})
                            /\ Lit(features, u) /\ u.titles = Titles(features)
<1>1. PICK t \in Screens : Sends(s, Start, t, {}) /\ Lit(features, t) /\ t.titles = s.titles
  BY StartsUi
<1>2. PICK u \in Screens : /\ Sends(t, RestoreAndSaveTitle, u, {}) /\ Kept(t, u, "titles")
                           /\ u.titles = Titles(features)
  BY <1>1, RestoresAndSavesTitle
<1>3. Sends(s, Start \o RestoreAndSaveTitle, u, {} \cup {}) /\ {} \cup {} = {}
  BY <1>1, <1>2, SendsBoth
<1> QED
  BY <1>1, <1>2, <1>3, KeptModes

LEMMA MainBeginsStep == ASSUME TermInv, MainBegins PROVE TermInv'
<1>1. CASE Tty("start", "raw", "begun")
  <2>1. Quietly("start", "begun")
    BY DEF Quietly, BeforeUi, InUi, Away, AtEnd
  <2>2. pos = "start"
    BY <1>1 DEF Tty
  <2>3. TtyAt("begun", "raw", reset)
    BY <2>2 DEF TermInv, TtyAt, BeforeUi, InUi, Away, AtEnd, Armed, Cooked, Raw
  <2> QED
    BY <1>1, <2>1, <2>3, TtyStep
<1>2. CASE SetReset("begun", TRUE, "first")
  <2>1. Quietly("begun", "first")
    BY DEF Quietly, BeforeUi, InUi, Away, AtEnd
  <2>2. pos = "begun"
    BY <1>2 DEF SetReset
  <2>3. TtyAt("first", ttyMode, TRUE)
    BY <2>2 DEF TermInv, TtyAt, BeforeUi, InUi, Away, AtEnd, Armed, Cooked, Raw
  <2> QED
    BY <1>2, <2>1, <2>3, ResetStep
<1> QED
  BY <1>1, <1>2 DEF MainBegins

LEMMA YieldTerminalStep == ASSUME TermInv, YieldTerminal PROVE TermInv'
<1>1. CASE Leave("yield")
  BY <1>1, LeaveStep
<1>2. CASE SetReset("yield", FALSE, "ending")
  <2>1. Quietly("yield", "ending")
    BY DEF Quietly, BeforeUi, InUi, Away, AtEnd
  <2>2. pos = "yield"
    BY <1>2 DEF SetReset
  <2>3. TtyAt("ending", ttyMode, FALSE)
    BY <2>2 DEF TermInv, TtyAt, BeforeUi, InUi, Away, AtEnd, Armed, Cooked, Raw
  <2> QED
    BY <1>2, <2>1, <2>3, ResetStep
<1>3. CASE Write("ending", UiEnd(RestoreAndSaveTitle), "ended")
  <2>1. pos = "ending" /\ screen \in Screens
    BY <1>3 DEF Write, TermInv
  <2>2. Lit(features, screen) /\ screen.titles = Titles(features)
    BY <2>1 DEF TermInv, ModesAt, InUi
  <2>3. PICK t \in Screens : /\ Sends(screen, RestoreAndSaveTitle, t, {}) /\ Kept(screen, t, "titles")
                             /\ t.titles = Titles(features)
    BY <2>1, <2>2, RestoresAndSavesTitle
  <2>4. Lit(features, t)
    BY <2>2, <2>3, KeptModes
  <2>5. PICK u \in Screens : Sends(screen, UiEnd(RestoreAndSaveTitle), u, {}) /\ Dark(u) /\ u.titles = t.titles
    BY <2>1, <2>3, <2>4, LeavesUi
  <2>6. TtyAt("ended", ttyMode, reset) /\ "ended" \notin BeforeUi
    BY <2>1 DEF TermInv, TtyAt, BeforeUi, InUi, Away, AtEnd, Armed, Cooked, Raw
  <2>7. ModesAt("ended", features, u)
    BY <2>3, <2>5 DEF ModesAt, BeforeUi, InUi, Away, AtEnd
  <2> QED
    BY <1>3, <2>5, <2>6, <2>7, WriteStep
<1>4. CASE Tty("ended", "cooked", "child")
  <2>1. Quietly("ended", "child")
    BY DEF Quietly, BeforeUi, InUi, Away, AtEnd
  <2>2. pos = "ended"
    BY <1>4 DEF Tty
  <2>3. TtyAt("child", "cooked", reset)
    BY <2>2 DEF TermInv, TtyAt, BeforeUi, InUi, Away, AtEnd, Armed, Cooked, Raw
  <2> QED
    BY <1>4, <2>1, <2>3, TtyStep
<1> QED
  BY <1>1, <1>2, <1>3, <1>4 DEF YieldTerminal

LEMMA ResumeTerminalStep == ASSUME TermInv, ResumeTerminal PROVE TermInv'
<1>1. CASE Tty("child", "raw", "prompt")
  <2>1. Quietly("child", "prompt")
    BY DEF Quietly, BeforeUi, InUi, Away, AtEnd
  <2>2. pos = "child"
    BY <1>1 DEF Tty
  <2>3. TtyAt("prompt", "raw", reset)
    BY <2>2 DEF TermInv, TtyAt, BeforeUi, InUi, Away, AtEnd, Armed, Cooked, Raw
  <2> QED
    BY <1>1, <2>1, <2>3, TtyStep
<1>2. CASE Tty("child", "raw", "resumed")
  <2>1. Quietly("child", "resumed")
    BY DEF Quietly, BeforeUi, InUi, Away, AtEnd
  <2>2. pos = "child"
    BY <1>2 DEF Tty
  <2>3. TtyAt("resumed", "raw", reset)
    BY <2>2 DEF TermInv, TtyAt, BeforeUi, InUi, Away, AtEnd, Armed, Cooked, Raw
  <2> QED
    BY <1>2, <2>1, <2>3, TtyStep
<1>3. CASE SetReset("prompt", reset, "resumed")
  <2>1. Quietly("prompt", "resumed")
    BY DEF Quietly, BeforeUi, InUi, Away, AtEnd
  <2>2. pos = "prompt"
    BY <1>3 DEF SetReset
  <2>3. TtyAt("resumed", ttyMode, reset)
    BY <2>2 DEF TermInv, TtyAt, BeforeUi, InUi, Away, AtEnd, Armed, Cooked, Raw
  <2> QED
    BY <1>3, <2>1, <2>3, ResetStep
<1>4. CASE Write("resumed", Start \o RestoreAndSaveTitle, "started")
  <2>1. pos = "resumed" /\ screen \in Screens
    BY <1>4 DEF Write, TermInv
  <2>2. PICK u \in Screens :
          /\ Sends(screen, Start \o RestoreAndSaveTitle, u, {})
          /\ Lit(features, u) /\ u.titles = Titles(features)
    BY <2>1, ReentersUi DEF TermInv, ModesAt, Away
  <2>3. TtyAt("started", ttyMode, reset) /\ "started" \notin BeforeUi
    BY <2>1 DEF TermInv, TtyAt, BeforeUi, InUi, Away, AtEnd, Armed, Cooked, Raw
  <2>4. ModesAt("started", features, u)
    BY <2>2 DEF ModesAt, BeforeUi, InUi, Away, AtEnd
  <2> QED
    BY <1>4, <2>2, <2>3, <2>4, WriteStep
<1>5. CASE SetReset("started", TRUE, "main")
  <2>1. Quietly("started", "main")
    BY DEF Quietly, BeforeUi, InUi, Away, AtEnd
  <2>2. pos = "started"
    BY <1>5 DEF SetReset
  <2>3. TtyAt("main", ttyMode, TRUE)
    BY <2>2 DEF TermInv, TtyAt, BeforeUi, InUi, Away, AtEnd, Armed, Cooked, Raw
  <2> QED
    BY <1>5, <2>1, <2>3, ResetStep
<1> QED
  BY <1>1, <1>2, <1>3, <1>4, <1>5 DEF ResumeTerminal

LEMMA QuietChildStep == ASSUME TermInv, QuietChild PROVE TermInv'
<1>1. CASE Leave("quiet")
  BY <1>1, LeaveStep
<1>2. CASE Tty("quiet", "isig", "quietchild")
  <2>1. Quietly("quiet", "quietchild")
    BY DEF Quietly, BeforeUi, InUi, Away, AtEnd
  <2>2. pos = "quiet"
    BY <1>2 DEF Tty
  <2>3. TtyAt("quietchild", "isig", reset)
    BY <2>2 DEF TermInv, TtyAt, BeforeUi, InUi, Away, AtEnd, Armed, Cooked, Raw
  <2> QED
    BY <1>2, <2>1, <2>3, TtyStep
<1>3. CASE Tty("quietchild", "raw", "main")
  <2>1. Quietly("quietchild", "main")
    BY DEF Quietly, BeforeUi, InUi, Away, AtEnd
  <2>2. pos = "quietchild"
    BY <1>3 DEF Tty
  <2>3. TtyAt("main", "raw", reset)
    BY <2>2 DEF TermInv, TtyAt, BeforeUi, InUi, Away, AtEnd, Armed, Cooked, Raw
  <2> QED
    BY <1>3, <2>1, <2>3, TtyStep
<1> QED
  BY <1>1, <1>2, <1>3 DEF QuietChild

LEMMA SuspendStep == ASSUME TermInv, Suspend PROVE TermInv'
<1>1. CASE Leave("suspend")
  BY <1>1, LeaveStep
<1>2. CASE Write("suspend", UiEnd(RestoreAndSaveTitle), "suspending")
  <2>1. pos = "suspend" /\ screen \in Screens
    BY <1>2 DEF Write, TermInv
  <2>2. Lit(features, screen) /\ screen.titles = Titles(features)
    BY <2>1 DEF TermInv, ModesAt, InUi
  <2>3. PICK t \in Screens : /\ Sends(screen, RestoreAndSaveTitle, t, {}) /\ Kept(screen, t, "titles")
                             /\ t.titles = Titles(features)
    BY <2>1, <2>2, RestoresAndSavesTitle
  <2>4. Lit(features, t)
    BY <2>2, <2>3, KeptModes
  <2>5. PICK u \in Screens : Sends(screen, UiEnd(RestoreAndSaveTitle), u, {}) /\ Dark(u) /\ u.titles = t.titles
    BY <2>1, <2>3, <2>4, LeavesUi
  <2>6. TtyAt("suspending", ttyMode, reset) /\ "suspending" \notin BeforeUi
    BY <2>1 DEF TermInv, TtyAt, BeforeUi, InUi, Away, AtEnd, Armed, Cooked, Raw
  <2>7. ModesAt("suspending", features, u)
    BY <2>3, <2>5 DEF ModesAt, BeforeUi, InUi, Away, AtEnd
  <2> QED
    BY <1>2, <2>5, <2>6, <2>7, WriteStep
<1>3. CASE Tty("suspending", "cooked", "cooked")
  <2>1. Quietly("suspending", "cooked")
    BY DEF Quietly, BeforeUi, InUi, Away, AtEnd
  <2>2. pos = "suspending"
    BY <1>3 DEF Tty
  <2>3. TtyAt("cooked", "cooked", reset)
    BY <2>2 DEF TermInv, TtyAt, BeforeUi, InUi, Away, AtEnd, Armed, Cooked, Raw
  <2> QED
    BY <1>3, <2>1, <2>3, TtyStep
<1>4. CASE SetReset("cooked", FALSE, "stopped")
  <2>1. Quietly("cooked", "stopped")
    BY DEF Quietly, BeforeUi, InUi, Away, AtEnd
  <2>2. pos = "cooked"
    BY <1>4 DEF SetReset
  <2>3. TtyAt("stopped", ttyMode, FALSE)
    BY <2>2 DEF TermInv, TtyAt, BeforeUi, InUi, Away, AtEnd, Armed, Cooked, Raw
  <2> QED
    BY <1>4, <2>1, <2>3, ResetStep
<1>5. CASE SetReset("stopped", TRUE, "continued")
  <2>1. Quietly("stopped", "continued")
    BY DEF Quietly, BeforeUi, InUi, Away, AtEnd
  <2>2. pos = "stopped"
    BY <1>5 DEF SetReset
  <2>3. TtyAt("continued", ttyMode, TRUE)
    BY <2>2 DEF TermInv, TtyAt, BeforeUi, InUi, Away, AtEnd, Armed, Cooked, Raw
  <2> QED
    BY <1>5, <2>1, <2>3, ResetStep
<1>6. CASE Tty("continued", "raw", "entering")
  <2>1. Quietly("continued", "entering")
    BY DEF Quietly, BeforeUi, InUi, Away, AtEnd
  <2>2. pos = "continued"
    BY <1>6 DEF Tty
  <2>3. TtyAt("entering", "raw", reset)
    BY <2>2 DEF TermInv, TtyAt, BeforeUi, InUi, Away, AtEnd, Armed, Cooked, Raw
  <2> QED
    BY <1>6, <2>1, <2>3, TtyStep
<1>7. CASE Write("entering", Start \o RestoreAndSaveTitle, "main")
  <2>1. pos = "entering" /\ screen \in Screens
    BY <1>7 DEF Write, TermInv
  <2>2. PICK u \in Screens :
          /\ Sends(screen, Start \o RestoreAndSaveTitle, u, {})
          /\ Lit(features, u) /\ u.titles = Titles(features)
    BY <2>1, ReentersUi DEF TermInv, ModesAt, Away
  <2>3. TtyAt("main", ttyMode, reset) /\ "main" \notin BeforeUi
    BY <2>1 DEF TermInv, TtyAt, BeforeUi, InUi, Away, AtEnd, Armed, Cooked, Raw
  <2>4. ModesAt("main", features, u)
    BY <2>2 DEF ModesAt, BeforeUi, InUi, Away, AtEnd
  <2> QED
    BY <1>7, <2>2, <2>3, <2>4, WriteStep
<1> QED
  BY <1>1, <1>2, <1>3, <1>4, <1>5, <1>6, <1>7 DEF Suspend

LEMMA QuitStep == ASSUME TermInv, Quit PROVE TermInv'
<1>1. CASE Write("main", UiEnd(RestoreTitle), "quitting")
  <2>1. pos = "main" /\ screen \in Screens
    BY <1>1 DEF Write, TermInv
  <2>2. Lit(features, screen) /\ screen.titles = Titles(features)
    BY <2>1 DEF TermInv, ModesAt, InUi
  <2>3. PICK t \in Screens : /\ Sends(screen, RestoreTitle, t, {}) /\ Kept(screen, t, "titles")
                             /\ t.titles = 0
    BY <2>1, <2>2, RestoresTitle
  <2>4. Lit(features, t)
    BY <2>2, <2>3, KeptModes
  <2>5. PICK u \in Screens : Sends(screen, UiEnd(RestoreTitle), u, {}) /\ Dark(u) /\ u.titles = t.titles
    BY <2>1, <2>3, <2>4, LeavesUi
  <2>6. TtyAt("quitting", ttyMode, reset) /\ "quitting" \notin BeforeUi
    BY <2>1 DEF TermInv, TtyAt, BeforeUi, InUi, Away, AtEnd, Armed, Cooked, Raw
  <2>7. ModesAt("quitting", features, u)
    BY <2>3, <2>5 DEF ModesAt, BeforeUi, InUi, Away, AtEnd
  <2> QED
    BY <1>1, <2>5, <2>6, <2>7, WriteStep
<1>2. CASE Tty("quitting", "cooked", "quit")
  <2>1. Quietly("quitting", "quit")
    BY DEF Quietly, BeforeUi, InUi, Away, AtEnd
  <2>2. pos = "quitting"
    BY <1>2 DEF Tty
  <2>3. TtyAt("quit", "cooked", reset)
    BY <2>2 DEF TermInv, TtyAt, BeforeUi, InUi, Away, AtEnd, Armed, Cooked, Raw
  <2> QED
    BY <1>2, <2>1, <2>3, TtyStep
<1>3. CASE SetReset("quit", FALSE, "gone")
  <2>1. Quietly("quit", "gone")
    BY DEF Quietly, BeforeUi, InUi, Away, AtEnd
  <2>2. pos = "quit"
    BY <1>3 DEF SetReset
  <2>3. TtyAt("gone", ttyMode, FALSE)
    BY <2>2 DEF TermInv, TtyAt, BeforeUi, InUi, Away, AtEnd, Armed, Cooked, Raw
  <2> QED
    BY <1>3, <2>1, <2>3, ResetStep
<1> QED
  BY <1>1, <1>2, <1>3 DEF Quit

\* The UI starts, and the first queries are sent.
LEMMA FirstStartStep == ASSUME TermInv, FirstStart PROVE TermInv'
<1> DEFINE new == IF level < 2 \/ "NOQUERY1" \in features THEN {}
                  ELSE {"QUERY2"} \cup (IF level >= 3 THEN {"QUERY3"} ELSE {})
           known == features \cup new
           out == obuf \o Start \o SaveTitle(features) \o PutInitialQueries
<1>1. /\ pos = "first" /\ pos' = "main" /\ Flush(out) /\ features' = known
      /\ UNCHANGED <<level, ttyMode, reset>>
  BY DEF FirstStart, GoOn
<1>2. /\ obuf = <<>> /\ screen \in Screens /\ level \in Nat /\ Dark(screen) /\ screen.titles = 0
      /\ queried \in [Queries -> Nat] /\ \A q \in Queries : queried[q] = 0
  BY <1>1 DEF TermInv, ModesAt, BeforeUi, QueriesAre
<1>3. PICK t \in Screens : Sends(screen, Start, t, {}) /\ Lit(features, t) /\ t.titles = 0
  BY <1>2, StartsUi
<1>4. PICK u \in Screens : /\ Sends(t, SaveTitle(features), u, {}) /\ Kept(t, u, "titles")
                           /\ u.titles = t.titles + Titles(features)
  BY SavesTitle
<1>5. Sends(u, PutInitialQueries, u, InitialQueries)
  BY SendsQueries
<1>6. Sends(screen, out, u, InitialQueries)
  <2>1. Sends(screen, obuf, screen, {})
    BY <1>2, SendsNothing
  <2>2. Sends(screen, obuf \o Start, t, {} \cup {})
    BY <2>1, <1>3, SendsBoth
  <2>3. Sends(screen, obuf \o Start \o SaveTitle(features), u, {} \cup {} \cup {})
    BY <2>2, <1>4, SendsBoth
  <2>4. Sends(screen, out, u, {} \cup {} \cup {} \cup InitialQueries)
    BY <2>3, <1>5, SendsBoth
  <2>5. {} \cup {} \cup {} \cup InitialQueries = InitialQueries
    OBVIOUS
  <2> QED
    BY <2>4, <2>5
<1>7. InitialQueries \subseteq Queries
  BY DEF InitialQueries, Queries
<1> HIDE DEF out
<1>8. /\ obuf' = <<>> /\ screen' = u
      /\ queried' \in [Queries -> Nat]
      /\ \A q \in Queries : queried'[q] <= queried[q] + (IF q \in InitialQueries THEN 1 ELSE 0)
  BY <1>1, <1>2, <1>6, <1>7, FlushIs
<1>9. \A q \in Queries : queried'[q] <= 1 /\ (queried'[q] # 0 => q \in InitialQueries)
  <2> SUFFICES ASSUME NEW q \in Queries
               PROVE  queried'[q] <= 1 /\ (queried'[q] # 0 => q \in InitialQueries)
    OBVIOUS
  <2>1. queried'[q] <= (IF q \in InitialQueries THEN 1 ELSE 0) /\ queried'[q] \in Nat
    BY <1>2, <1>8
  <2> QED
    BY <2>1
<1>10. Lit(known, u) /\ u.titles = Titles(known)
  <2>1. \A x \in {"KITTYKBD", "MOKEYS", "METAESC", "ALTESC", "TITLE"} : x \in known <=> x \in features
    OBVIOUS
  <2>2. Lit(features, u) /\ u.titles = Titles(features)
    BY <1>3, <1>4, KeptModes DEF Titles
  <2> HIDE DEF known
  <2> QED
    BY <2>1, <2>2 DEF Lit, ModesOn, Titles
<1>11. /\ \A q \in Level2 : q \in InitialQueries => "QUERY2" \in known
       /\ \A q \in Asked3 : q \in InitialQueries => "QUERY3" \in known
  <2>1. Level2 \cap Asked3 = {} /\ "da1" \notin Level2 /\ "da1" \notin Asked3
    BY QueryAssumption DEF Level2
  <2>2. CASE level < 1 \/ "NOQUERY1" \in features
    <3>1. InitialQueries = {}
      BY <1>2, <2>2 DEF InitialQueries
    <3> QED
      BY <3>1
  <2>3. CASE level = 1 /\ "NOQUERY1" \notin features
    <3>1. InitialQueries = {"da1"}
      BY <2>3 DEF InitialQueries
    <3> QED
      BY <2>1, <3>1
  <2>4. CASE level = 2 /\ "NOQUERY1" \notin features
    <3>1. InitialQueries = {"da1"} \cup Level2
      BY <2>4 DEF InitialQueries
    <3>2. "QUERY2" \in known
      BY <2>4
    <3> QED
      BY <2>1, <3>1, <3>2
  <2>5. CASE level >= 3 /\ "NOQUERY1" \notin features
    <3>1. level >= 2 /\ ~(level < 2)
      BY <1>2, <2>5
    <3>2. "QUERY2" \in known /\ "QUERY3" \in known
      BY <2>5, <3>1
    <3> QED
      BY <3>2
  <2>6. level < 1 \/ level = 1 \/ level = 2 \/ level >= 3
    BY <1>2
  <2> QED
    BY <2>2, <2>3, <2>4, <2>5, <2>6
<1> HIDE DEF new, known
<1>12. QueriesAre("main", known, queried')
  <2>1. Level2 \subseteq Queries /\ Asked3 \subseteq Queries
    BY DEF Queries
  <2> QED
    BY <1>8, <1>9, <1>11, <2>1 DEF QueriesAre, BeforeUi
<1>13. ModesAt("main", known, u)
  BY <1>10 DEF ModesAt, BeforeUi, InUi, Away, AtEnd
<1>14. TtyAt("main", ttyMode, reset)
  BY <1>1 DEF TermInv, TtyAt, BeforeUi, InUi, Away, AtEnd, Armed, Cooked, Raw
<1> QED
  BY <1>1, <1>2, <1>8, <1>12, <1>13, <1>14 DEF TermInv

\* An answer during the UI
LEMMA HandleQueryReplyStep ==
  ASSUME TermInv, Late = FALSE, HandleQueryReply
  PROVE  TermInv'
<1> DEFINE Writes3(found) == Detected(found) \cap Producing # {}
                             \/ ("MOKEYS" \in Detected(found) /\ "KITTYKBD" \notin features')
<1>1. PICK found \in Answers(Head(asked)[2]) :
        /\ features' = features \cup found
        /\ IF Writes3(found)
           THEN /\ obuf' = <<>>
                /\ screen' = FoldLeft(Apply, screen, obuf \o ReplyOutput(found))
                /\ queried' = [q \in Queries |->
                     queried[q] + (IF q \in Asks(obuf \o ReplyOutput(found)) THEN 1 ELSE 0)]
           ELSE obuf' = obuf \o ReplyOutput(found) /\ UNCHANGED <<screen, queried>>
  BY DEF HandleQueryReply
<1>2. pos = "main" /\ UNCHANGED <<level, ttyMode, reset, pos>>
  BY DEF HandleQueryReply, Waiting
<1> DEFINE known == features \cup found
<1>3. /\ obuf = <<>> /\ screen \in Screens /\ queried \in [Queries -> Nat]
      /\ Lit(features, screen) /\ screen.titles = Titles(features)
  BY <1>2 DEF TermInv, ModesAt, InUi, QueriesAre
<1>4. PICK t \in Screens :
        /\ Sends(screen, ReplyOutput(found), t, ReplyQueries(found))
        /\ Lit(known, t) /\ t.titles = Titles(known)
  BY <1>3, SendsReply
<1> DEFINE out == obuf \o ReplyOutput(found)
<1>5. Sends(screen, out, t, ReplyQueries(found))
  <2>1. Sends(screen, <<>>, screen, {})
    BY <1>3, SendsNothing
  <2>2. Sends(screen, <<>> \o ReplyOutput(found), t, {} \cup ReplyQueries(found))
    BY <1>4, <2>1, SendsBoth
  <2>3. {} \cup ReplyQueries(found) = ReplyQueries(found)
    OBVIOUS
  <2> QED
    BY <1>3, <2>2, <2>3
<1>6. TtyAt("main", ttyMode, reset)
  BY <1>2 DEF TermInv
<1>7. /\ \A q \in Level2 : queried[q] # 0 => "QUERY2" \in features
      /\ \A q \in Asked3 : queried[q] # 0 => "QUERY3" \in features
      /\ \A q \in Queries : queried[q] <= 1
  BY DEF TermInv, QueriesAre
<1>8. Level2 \subseteq Queries /\ Asked3 \subseteq Queries /\ "da1" \notin Level2 /\ "da1" \notin Asked3
      /\ Level2 \cap Asked3 = {}
  BY QueryAssumption DEF Queries, Level2
<1>9. CASE Writes3(found)
  <2> HIDE DEF out
  <2>1. FoldLeft(Apply, screen, out) = t
    BY <1>5, YieldsFold DEF Sends
  <2>2. Asks(out) \subseteq ReplyQueries(found)
    BY <1>5, WritesAre DEF Sends
  <2>3. /\ obuf' = <<>> /\ screen' = t
        /\ queried' = [q \in Queries |-> queried[q] + (IF q \in Asks(out) THEN 1 ELSE 0)]
    BY <1>1, <1>9, <2>1 DEF out
  <2>4. queried' \in [Queries -> Nat]
    BY <1>3, <2>3
  <2>5. ASSUME NEW q \in Queries
        PROVE  /\ queried'[q] <= 1
               /\ q \in Level2 /\ queried'[q] # 0 => "QUERY2" \in known
               /\ q \in Asked3 /\ queried'[q] # 0 => "QUERY3" \in known
    <3>1. queried'[q] = queried[q] + (IF q \in Asks(out) THEN 1 ELSE 0) /\ queried[q] \in Nat
      BY <1>3, <2>3
    <3>2. CASE q \notin ReplyQueries(found)
      <4>1. queried'[q] = queried[q]
        BY <2>2, <3>1, <3>2
      <4> QED
        BY <1>7, <4>1
    <3>3. CASE q \in ReplyQueries(found)
      <4>1. \/ q \in Level2 /\ "QUERY2" \in Detected(found)
            \/ q \in Asked3 /\ "QUERY3" \in Detected(found)
        BY <3>3 DEF ReplyQueries
      <4>2. Detected(found) \subseteq found \ features
        BY DetectedIs
      <4>3. queried[q] = 0
        BY <1>3, <1>7, <4>1, <4>2
      <4>4. queried'[q] <= 1
        BY <3>1, <4>3
      <4> QED
        BY <1>8, <4>1, <4>2, <4>4
    <3> QED
      BY <3>2, <3>3
  <2> HIDE DEF known
  <2>6. QueriesAre("main", known, queried')
    BY <1>8, <2>4, <2>5 DEF QueriesAre, BeforeUi
  <2>7. ModesAt("main", known, t)
    BY <1>4 DEF ModesAt, BeforeUi, InUi, Away, AtEnd
  <2>8. features' = known
    BY <1>1 DEF known
  <2> QED
    BY <1>2, <1>6, <2>3, <2>6, <2>7, <2>8 DEF TermInv
<1>10. CASE ~Writes3(found)
  <2>1. ReplyOutput(found) = <<>>
    BY <1>1, <1>10, NothingReplied
  <2>2. out = <<>>
    BY <1>3, <2>1
  <2>3. t = screen
    <3>1. FoldLeft(Apply, screen, out) = t
      BY <1>5, YieldsFold DEF Sends
    <3>2. FoldLeft(Apply, screen, <<>>) = screen
      BY <1>3, YieldsNothing, YieldsFold
    <3> QED
      BY <2>2, <3>1, <3>2
  <2>4. obuf' = <<>> /\ screen' = screen /\ queried' = queried /\ features' = known
    BY <1>1, <1>10, <2>2
  <2> HIDE DEF known, out
  <2>5. QueriesAre("main", known, queried)
    <3>1. features \subseteq known
      BY DEF known
    <3> QED
      BY <1>2, <3>1 DEF TermInv, QueriesAre, BeforeUi
  <2>6. ModesAt("main", known, screen)
    BY <1>4, <2>3 DEF ModesAt, BeforeUi, InUi, Away, AtEnd
  <2> QED
    BY <1>2, <1>6, <2>4, <2>5, <2>6, <1>3 DEF TermInv
<1> QED
  BY <1>9, <1>10

LEMMA FatalSignalStep == ASSUME TermInv, FatalSignal PROVE TermInv'
<1>1. pos' = "killed" /\ obuf' = <<>> /\ UNCHANGED <<level, features, queried>>
      /\ IF reset THEN screen' = Fresh /\ ttyMode' = "cooked" /\ reset' = FALSE
         ELSE UNCHANGED <<screen, ttyMode, reset>>
  BY DEF FatalSignal, GoOn
<1>2. Fresh \in Screens
  BY DEF Fresh, Screens
<1>3. screen' \in Screens /\ obuf' = <<>> /\ level' \in Nat
  BY <1>1, <1>2 DEF TermInv
<1>4. ModesAt(pos', features', screen')
  BY <1>1 DEF ModesAt, BeforeUi, InUi, Away, AtEnd
<1>5. TtyAt(pos', ttyMode', reset')
  <2>1. ~reset'
    BY <1>1
  <2> QED
    BY <1>1, <2>1 DEF TtyAt, Armed, Cooked, Raw
<1>6. QueriesAre(pos', features', queried')
  BY <1>1 DEF TermInv, QueriesAre, BeforeUi
<1> QED
  BY <1>3, <1>4, <1>5, <1>6 DEF TermInv

\* A fatal signal finds the terminal as it was, or resets it: everywhere but
\* in the windows between the flag and the writes.
Unguarded == {"begun", "ending", "ended", "prompt", "resumed", "started"}

LEMMA KilledStep ==
  ASSUME TermInv, KilledInv, [TermNext]_termVars, KilledAt \cap Unguarded = {}
  PROVE  KilledInv'
<1>1. CASE FatalSignal
  <2>1. CASE reset
    <3>1. screen' = Fresh /\ ttyMode' = "cooked"
      BY <1>1, <2>1 DEF FatalSignal
    <3>2. Dark(Fresh)
      BY DEF Fresh, Dark
    <3> QED
      BY <3>1, <3>2 DEF KilledInv
  <2>2. CASE ~reset
    <3>1. screen' = screen /\ ttyMode' = ttyMode /\ pos \in KilledAt \ Unguarded
      BY <1>1, <2>2 DEF FatalSignal
    <3>2. pos \in {"start", "child", "stopped", "gone", "killed"}
      BY <2>2, <3>1 DEF TermInv, TtyAt, BeforeUi, InUi, Away, AtEnd, Armed, Unguarded
    <3>3. Dark(screen) /\ ttyMode = "cooked"
      BY <3>2 DEF TermInv, ModesAt, TtyAt, BeforeUi, Away, AtEnd, Cooked, KilledInv
    <3> QED
      BY <3>1, <3>3 DEF KilledInv
  <2> QED
    BY <2>1, <2>2
<1>2. CASE pos' # "killed"
  BY <1>2 DEF KilledInv
<1>3. CASE UNCHANGED termVars
  BY <1>3 DEF termVars, KilledInv
<1>4. CASE MainBegins \/ FirstStart \/ YieldTerminal \/ ResumeTerminal \/ QuietChild \/ Suspend \/ Quit
  <2>1. pos' # "killed"
    BY <1>4 DEF MainBegins, FirstStart, YieldTerminal, ResumeTerminal, QuietChild, Suspend, Quit,
      Tty, SetReset, Write, Leave, GoOn
  <2> QED
    BY <2>1, <1>2
<1>5. CASE HandleQueryReply
  <2>1. pos' # "killed"
    BY <1>5 DEF HandleQueryReply, Waiting
  <2> QED
    BY <2>1, <1>2
<1> QED
  BY <1>1, <1>3, <1>4, <1>5 DEF TermNext

LEMMA TermInvStep == ASSUME TermInv, Late = FALSE, [TermNext]_termVars PROVE TermInv'
<1>1. CASE UNCHANGED termVars
  BY <1>1 DEF termVars, TermInv, ModesAt, TtyAt, QueriesAre
<1>2. CASE TermNext
  BY <1>2, MainBeginsStep, FirstStartStep, HandleQueryReplyStep, YieldTerminalStep,
    ResumeTerminalStep, QuietChildStep, SuspendStep, QuitStep, FatalSignalStep DEF TermNext
<1> QED
  BY <1>1, <1>2

LEMMA TermInvIsSound == ASSUME TermInv, KilledInv PROVE TerminalIsInStep
<1>1. ModesMatchFeatures
  <2> SUFFICES ASSUME pos = "main"
               PROVE  /\ obuf = <<>> /\ ttyMode = "raw" /\ reset
                      /\ screen.alt /\ screen.paste /\ screen.kbdNormal = 0
                      /\ screen.kbdAlt = (IF "KITTYKBD" \in features THEN 1 ELSE 0)
                      /\ screen.mokeys = ("MOKEYS" \in features /\ "KITTYKBD" \notin features)
                      /\ screen.titles = (IF "TITLE" \in features THEN 1 ELSE 0)
    BY DEF ModesMatchFeatures
  <2>1. Lit(features, screen) /\ screen.titles = Titles(features) /\ screen.mokeys \in BOOLEAN
    BY DEF TermInv, ModesAt, InUi, Screens
  <2>2. obuf = <<>> /\ ttyMode = "raw" /\ reset
    BY DEF TermInv, TtyAt, Armed, Raw
  <2>3. screen.mokeys = ("MOKEYS" \in features /\ "KITTYKBD" \notin features)
    BY <2>1 DEF Lit, ModesOn
  <2> QED
    BY <2>1, <2>2, <2>3 DEF Lit, ModesOn, Titles
<1>2. TerminalIsRestored
  <2>1. ASSUME NEW s \in Screens, Dark(s), s.titles = 0 PROVE s = Fresh
    BY <2>1 DEF Dark, Screens, Fresh
  <2>2. ASSUME pos = "gone" PROVE screen = Fresh /\ ttyMode = "cooked"
    BY <2>1, <2>2 DEF TermInv, ModesAt, TtyAt, AtEnd, Cooked
  <2>3. ASSUME pos = "killed" PROVE [screen EXCEPT !.titles = 0] = Fresh /\ ttyMode = "cooked"
    <3>1. Dark(screen) /\ ttyMode = "cooked" /\ screen \in Screens
      BY <2>3 DEF KilledInv, TermInv
    <3> DEFINE s == [screen EXCEPT !.titles = 0]
    <3>2. s \in Screens /\ s.titles = 0 /\ Dark(s)
      BY <3>1 DEF Dark, Screens
    <3> HIDE DEF s
    <3>3. s = Fresh
      BY <2>1, <3>2
    <3> QED
      BY <3>1, <3>3 DEF s
  <2> QED
    BY <2>2, <2>3 DEF TerminalIsRestored
<1>3. QueriesAreSentOnce
  BY DEF TermInv, QueriesAre, QueriesAreSentOnce
<1> QED
  BY <1>1, <1>2, <1>3 DEF TerminalIsInStep

\* However the answers come and wherever a fatal signal comes but in the
\* windows where nothing guards the terminal, and if no answer comes during
\* the prompt: the terminal is in the modes that the editor takes it to be
\* in, it is left as it was found, and no query is sent twice.
THEOREM TerminalIsInStepAlways ==
  ASSUME Late = FALSE, KilledAt \cap Unguarded = {}
  PROVE  TermSpec => []TerminalIsInStep
<1>1. TermInit => TermInv /\ KilledInv
  BY TermInvInit DEF TermInit, KilledInv
<1>2. TermInv /\ KilledInv /\ [TermNext]_termVars => (TermInv /\ KilledInv)'
  BY TermInvStep, KilledStep
<1>3. TermInv /\ KilledInv => TerminalIsInStep
  BY TermInvIsSound
<1> QED
  BY <1>1, <1>2, <1>3, PTL DEF TermSpec

\* What the modes are while the UI waits for input, and what is asked, do not
\* depend on where a fatal signal may come.
THEOREM TerminalIsInUse ==
  ASSUME Late = FALSE
  PROVE  TermSpec => [](ModesMatchFeatures /\ QueriesAreSentOnce)
<1>1. TermInit => TermInv
  BY TermInvInit
<1>2. TermInv /\ [TermNext]_termVars => TermInv'
  BY TermInvStep
<1>3. TermInv => ModesMatchFeatures /\ QueriesAreSentOnce
  <2> SUFFICES ASSUME TermInv PROVE ModesMatchFeatures /\ QueriesAreSentOnce
    OBVIOUS
  <2>1. CASE pos = "killed"
    BY <2>1 DEF ModesMatchFeatures, QueriesAreSentOnce, TermInv, QueriesAre
  <2>2. CASE pos # "killed"
    BY <2>2, TermInvIsSound DEF KilledInv, TerminalIsInStep
  <2> QED
    BY <2>1, <2>2
<1> QED
  BY <1>1, <1>2, <1>3, PTL DEF TermSpec

-----------------------------------------------------------------------------
(* HistoryLists: the links, as a sequence of entries *)

Links == [Nodes -> 0..MaxEntries]

\* The entries of s are linked in both directions, in this order.
IsChain(nx, pv, first, last, s) ==
  /\ nx \in Links /\ pv \in Links
  /\ s \in Seq(Nodes)
  /\ \A i, j \in 1..Len(s) : s[i] = s[j] => i = j
  /\ s = <<>> => first = NULL /\ last = NULL
  /\ s # <<>> => first = s[1] /\ last = s[Len(s)]
  /\ \A i \in 1..Len(s) : /\ nx[s[i]] = (IF i < Len(s) THEN s[i + 1] ELSE NULL)
                          /\ pv[s[i]] = (IF i > 1 THEN s[i - 1] ELSE NULL)

Mirrored(s) == [i \in 1..Len(s) |-> s[Len(s) + 1 - i]]

\* A walk along the links of a sequence is the sequence.
LEMMA WalkIs ==
  ASSUME NEW link, NEW n, NEW s \in Seq(Nodes), Len(s) <= MaxEntries,
         s = <<>> => n = NULL, s # <<>> => n = s[1],
         \A i \in 1..Len(s) : link[s[i]] = (IF i < Len(s) THEN s[i + 1] ELSE NULL)
  PROVE  Walk(link, n) = s
<1> DEFINE L == Len(s)
           Follows(g) == g = [k \in 1..MaxEntries |->
             IF k = 1 THEN n ELSE IF g[k - 1] = NULL THEN NULL ELSE link[g[k - 1]]]
           at == CHOOSE g : Follows(g)
           g == [k \in 1..MaxEntries |-> IF k <= L THEN s[k] ELSE NULL]
<1>1. /\ L \in Nat /\ MaxEntries \in Nat /\ L <= MaxEntries /\ MaxEntries >= 2
      /\ \A i \in 1..L : s[i] \in Nodes /\ s[i] # NULL
  BY HistoryAssumption DEF Nodes, NULL
<1>2. (L = 0 => n = NULL) /\ (L > 0 => n = s[1])
  BY <1>1
<1>3. Walk(link, n) = [i \in 1..Cardinality({k \in 1..MaxEntries : at[k] # NULL}) |-> at[i]]
  BY DEF Walk
<1>4. \A k \in 1..MaxEntries : g[k] = IF k <= L THEN s[k] ELSE NULL
  OBVIOUS
<1>5. g = [k \in 1..MaxEntries |-> g[k]]
  OBVIOUS
<1> HIDE DEF L, g
<1>6. ASSUME NEW k \in 1..MaxEntries
      PROVE  g[k] = IF k = 1 THEN n ELSE IF g[k - 1] = NULL THEN NULL ELSE link[g[k - 1]]
  <2>1. CASE k = 1
    BY <1>1, <1>2, <1>4, <2>1
  <2>2. CASE k > 1 /\ k <= L
    <3>1. k - 1 \in 1..MaxEntries /\ k - 1 \in 1..L /\ k - 1 <= L /\ k - 1 < L /\ k - 1 + 1 = k
      BY <1>1, <2>2
    <3>2. g[k - 1] = s[k - 1] /\ s[k - 1] # NULL /\ g[k] = s[k] /\ link[s[k - 1]] = s[k]
      BY <1>1, <1>4, <2>2, <3>1 DEF L
    <3> QED
      BY <2>2, <3>2
  <2>3. CASE k > 1 /\ k = L + 1
    <3>1. k - 1 \in 1..MaxEntries /\ k - 1 \in 1..L /\ k - 1 <= L /\ ~(k - 1 < L) /\ ~(k <= L)
      BY <1>1, <2>3
    <3>2. g[k - 1] = s[k - 1] /\ s[k - 1] # NULL /\ g[k] = NULL /\ link[s[k - 1]] = NULL
      BY <1>1, <1>4, <2>3, <3>1 DEF L
    <3> QED
      BY <2>3, <3>2
  <2>4. CASE k > 1 /\ k > L + 1
    <3>1. k - 1 \in 1..MaxEntries /\ ~(k - 1 <= L) /\ ~(k <= L)
      BY <1>1, <2>4
    <3>2. g[k - 1] = NULL /\ g[k] = NULL
      BY <1>4, <3>1
    <3> QED
      BY <2>4, <3>2
  <2> QED
    BY <1>1, <2>1, <2>2, <2>3, <2>4
<1>7. Follows(g)
  BY <1>5, <1>6
<1>8. Follows(at)
  BY <1>7
<1> HIDE DEF at
<1>9. \A k \in 1..MaxEntries :
        at[k] = IF k = 1 THEN n ELSE IF at[k - 1] = NULL THEN NULL ELSE link[at[k - 1]]
  BY <1>8
<1>10. \A k \in 1..MaxEntries : at[k] = g[k]
  <2> DEFINE Bad == {k \in 1..MaxEntries : at[k] # g[k]}
  <2> SUFFICES ASSUME Bad # {} PROVE FALSE
    OBVIOUS
  <2>1. PICK m \in Bad : \A k \in Bad : m <= k
    <3>1. Bad \in SUBSET Nat
      OBVIOUS
    <3> QED
      BY <3>1, LeastNumber
  <2>2. CASE m = 1
    BY <1>6, <1>9, <2>1, <2>2
  <2>3. CASE m > 1
    <3>1. m - 1 \in 1..MaxEntries /\ ~(m <= m - 1)
      BY <1>1, <2>1, <2>3
    <3>2. at[m - 1] = g[m - 1]
      BY <2>1, <3>1
    <3>3. at[m] = g[m]
      BY <1>6, <1>9, <2>1, <2>3, <3>2
    <3> QED
      BY <2>1, <3>3
  <2> QED
    BY <1>1, <2>1, <2>2, <2>3
<1>11. {k \in 1..MaxEntries : at[k] # NULL} = 1..L
  <2>1. ASSUME NEW k \in 1..MaxEntries PROVE at[k] # NULL <=> k \in 1..L
    <3>1. CASE k <= L
      BY <1>1, <1>4, <1>10, <3>1
    <3>2. CASE ~(k <= L)
      BY <1>1, <1>4, <1>10, <3>2
    <3> QED
      BY <3>1, <3>2
  <2>2. 1..L \subseteq 1..MaxEntries
    BY <1>1
  <2> QED
    BY <2>1, <2>2
<1>12. Cardinality(1..L) = L
  BY <1>1, FS_Interval
<1>13. \A i \in 1..L : at[i] = s[i]
  BY <1>1, <1>4, <1>10
<1>14. Walk(link, n) = [i \in 1..L |-> s[i]]
  BY <1>3, <1>11, <1>12, <1>13
<1>15. s = [i \in 1..L |-> s[i]]
  BY DEF L
<1> QED
  BY <1>14, <1>15

\* There are no more entries in a sequence than there are, and one is left
\* when there are fewer.
LEMMA ChainFits ==
  ASSUME NEW s \in Seq(Nodes), \A i, j \in 1..Len(s) : s[i] = s[j] => i = j
  PROVE  /\ Len(s) <= MaxEntries
         /\ Len(s) < MaxEntries => \E n \in Nodes : \A i \in 1..Len(s) : s[i] # n
<1> DEFINE L == Len(s)
<1>1. L \in Nat /\ MaxEntries \in Nat
  BY HistoryAssumption
<1>2. IsFiniteSet(Nodes) /\ Cardinality(Nodes) = MaxEntries /\ Cardinality(1..L) = L
  <2> HIDE DEF L
  <2>1. \A k \in Nat : IsFiniteSet(1..k) /\ Cardinality(1..k) = k
    <3> TAKE k \in Nat
    <3>1. IsFiniteSet(1..k) /\ Cardinality(1..k) = IF 1 > k THEN 0 ELSE k - 1 + 1
      BY FS_Interval
    <3> QED
      BY <3>1
  <2> QED
    BY <1>1, <2>1 DEF Nodes
<1>3. s \in [1..L -> Nodes]
  OBVIOUS
<1>4. s \in Injection(1..L, Nodes)
  <2> HIDE DEF L
  <2>1. \A i, j \in 1..L : s[i] = s[j] => i = j
    BY DEF L
  <2> QED
    BY <1>3, <2>1 DEF Injection, IsInjective
<1> HIDE DEF L
<1>5. /\ Cardinality(1..L) <= Cardinality(Nodes)
      /\ Cardinality(1..L) = Cardinality(Nodes) <=> s \in Surjection(1..L, Nodes)
  BY <1>2, <1>4, FS_Injection
<1>6. ASSUME L < MaxEntries, \A n \in Nodes : \E i \in 1..L : s[i] = n PROVE FALSE
  <2>1. s \in Surjection(1..L, Nodes)
    BY <1>3, <1>6 DEF Surjection
  <2> QED
    BY <1>1, <1>2, <1>5, <1>6, <2>1
<1> QED
  BY <1>1, <1>2, <1>5, <1>6 DEF L

\* An entry of a sequence is taken out.
LEMMA RemoveAtIs ==
  ASSUME NEW S, NEW s \in Seq(S), NEW i \in 1..Len(s)
  PROVE  /\ RemoveAt(s, i) \in Seq(S) /\ Len(RemoveAt(s, i)) = Len(s) - 1
         /\ \A j \in 1..(Len(s) - 1) : RemoveAt(s, i)[j] = IF j < i THEN s[j] ELSE s[j + 1]
<1> DEFINE a == SubSeq(s, 1, i - 1)
           b == SubSeq(s, i + 1, Len(s))
<1>1. /\ a \in Seq(S) /\ Len(a) = i - 1 /\ \A j \in 1..(i - 1) : a[j] = s[j]
      /\ b \in Seq(S) /\ Len(b) = Len(s) - i /\ \A j \in 1..(Len(s) - i) : b[j] = s[j + i]
  <2>1. Len(s) \in Nat /\ i \in Nat /\ i <= Len(s) /\ i >= 1
    OBVIOUS
  <2>2. \A j \in 1..(i - 1) : s[j] \in S
    OBVIOUS
  <2>3. \A j \in (i + 1)..Len(s) : s[j] \in S
    OBVIOUS
  <2>4. a \in Seq(S) /\ Len(a) = i - 1 /\ \A j \in 1..(i - 1) : a[j] = s[j]
    BY <2>1, <2>2, SubSeqProperties
  <2>5. b \in Seq(S) /\ Len(b) = Len(s) - i /\ \A j \in 1..(Len(s) - i) : b[j] = s[j + i]
    BY <2>1, <2>3, SubSeqProperties
  <2> QED
    BY <2>4, <2>5
<1>2. RemoveAt(s, i) = a \o b
  BY DEF RemoveAt
<1> HIDE DEF a, b
<1>3. a \o b \in Seq(S) /\ Len(a \o b) = Len(s) - 1
  <2>1. a \o b \in Seq(S) /\ Len(a \o b) = Len(a) + Len(b)
    <3>1. a \in Seq(S) /\ b \in Seq(S)
      BY <1>1
    <3> QED
      BY <3>1, ConcatProperties
  <2>2. Len(s) \in Nat /\ i \in Nat
    OBVIOUS
  <2> QED
    BY <1>1, <2>1, <2>2
<1>4. ASSUME NEW j \in 1..(Len(s) - 1) PROVE (a \o b)[j] = IF j < i THEN s[j] ELSE s[j + 1]
  <2>1. CASE j < i
    BY <1>1, <2>1
  <2>2. CASE ~(j < i)
    <3>1. (a \o b)[j] = b[j - (i - 1)]
      BY <1>1, <2>2
    <3>2. j - (i - 1) \in 1..(Len(s) - i) /\ j - (i - 1) + i = j + 1
      BY <2>2
    <3>3. b[j - (i - 1)] = s[j + 1]
      BY <1>1, <3>2
    <3> QED
      BY <2>2, <3>1, <3>3
  <2> QED
    BY <2>1, <2>2
<1> QED
  BY <1>2, <1>3, <1>4

\* An entry that is not the last one is unlinked.
LEMMA UnlinkChain ==
  ASSUME NEW nx, NEW pv, NEW first, NEW last, NEW s, IsChain(nx, pv, first, last, s),
         NEW i \in 1..(Len(s) - 1), NEW n, n = s[i]
  PROVE  LET pv2 == [pv EXCEPT ![nx[n]] = pv[n]]
         IN IF n = first THEN IsChain(nx, pv2, nx[n], last, RemoveAt(s, i))
            ELSE IsChain([nx EXCEPT ![pv[n]] = nx[n]], pv2, first, last, RemoveAt(s, i))
<1> DEFINE L == Len(s)
           u == RemoveAt(s, i)
           succ == s[i + 1]
           pred == IF i > 1 THEN s[i - 1] ELSE NULL
           pv2 == [pv EXCEPT ![succ] = pred]
           nx2 == [nx EXCEPT ![pred] = succ]
<1>1. /\ nx \in Links /\ pv \in Links /\ s \in Seq(Nodes) /\ L \in Nat /\ i \in Nat /\ i >= 1 /\ i < L
      /\ \A j \in 1..L : s[j] \in Nodes
      /\ NULL \notin Nodes /\ i \in 1..L
  <2>1. nx \in Links /\ pv \in Links /\ s \in Seq(Nodes)
    BY DEF IsChain
  <2>2. L \in Nat /\ \A j \in 1..L : s[j] \in Nodes
    BY <2>1
  <2>3. i \in Nat /\ i >= 1 /\ i < L /\ i \in 1..L
    BY <2>2
  <2>4. NULL \notin Nodes
    BY HistoryAssumption DEF Nodes, NULL
  <2> QED
    BY <2>1, <2>2, <2>3, <2>4
<1>2. \A j, k \in 1..L : s[j] = s[k] => j = k
  BY DEF IsChain
<1>3. \A j \in 1..L : /\ nx[s[j]] = (IF j < L THEN s[j + 1] ELSE NULL)
                      /\ pv[s[j]] = (IF j > 1 THEN s[j - 1] ELSE NULL)
  BY DEF IsChain
<1>4. first = s[1] /\ last = s[L]
  <2>1. s # <<>>
    BY <1>1
  <2> QED
    BY <2>1 DEF IsChain
<1>5. nx[n] = succ /\ pv[n] = pred /\ succ \in Nodes /\ i + 1 \in 1..L
  <2>1. i + 1 \in 1..L
    BY <1>1
  <2> QED
    BY <1>1, <1>3, <2>1
<1>6. /\ u \in Seq(Nodes) /\ Len(u) = L - 1
      /\ \A j \in 1..(L - 1) : u[j] = IF j < i THEN s[j] ELSE s[j + 1]
  BY <1>1, RemoveAtIs
<1> HIDE DEF L, u
<1>7. pred \in 0..MaxEntries /\ (i > 1 => pred \in Nodes /\ pred = s[i - 1] /\ i - 1 \in 1..L)
  <2>1. CASE i > 1
    <3>1. i - 1 \in 1..L
      BY <1>1, <2>1
    <3> QED
      BY <1>1, <2>1, <3>1 DEF Nodes
  <2>2. CASE ~(i > 1)
    BY <2>2, HistoryAssumption DEF NULL
  <2> QED
    BY <2>1, <2>2
<1>8. /\ pv2 \in Links /\ nx2 \in Links
      /\ \A j \in 1..L : pv2[s[j]] = IF j = i + 1 THEN pred ELSE pv[s[j]]
      /\ \A j \in 1..L : nx2[s[j]] = IF i > 1 /\ j = i - 1 THEN succ ELSE nx[s[j]]
  <2>1. succ \in 0..MaxEntries
    BY <1>5 DEF Nodes
  <2>2. pv2 \in Links /\ nx2 \in Links
    BY <1>1, <1>5, <1>7, <2>1 DEF Links
  <2>3. ASSUME NEW j \in 1..L PROVE pv2[s[j]] = IF j = i + 1 THEN pred ELSE pv[s[j]]
    <3>1. s[j] = s[i + 1] <=> j = i + 1
      BY <1>2, <1>5
    <3> HIDE DEF pred
    <3> QED
      BY <1>1, <3>1 DEF Links
  <2>4. ASSUME NEW j \in 1..L
        PROVE  nx2[s[j]] = IF i > 1 /\ j = i - 1 THEN succ ELSE nx[s[j]]
    <3>1. CASE i > 1
      <4>1. s[j] = pred <=> j = i - 1
        BY <1>2, <1>7, <3>1
      <4> HIDE DEF pred, succ
      <4> QED
        BY <1>1, <3>1, <4>1 DEF Links
    <3>2. CASE ~(i > 1)
      <4>1. s[j] # pred
        BY <1>1, <3>2
      <4> HIDE DEF pred, succ
      <4> QED
        BY <1>1, <3>2, <4>1 DEF Links
    <3> QED
      BY <3>1, <3>2
  <2> QED
    BY <2>2, <2>3, <2>4
<1> HIDE DEF pv2, nx2
<1>9. \A j, k \in 1..Len(u) : u[j] = u[k] => j = k
  <2> SUFFICES ASSUME NEW j \in 1..(L - 1), NEW k \in 1..(L - 1), u[j] = u[k] PROVE j = k
    BY <1>6
  <2>1. j \in 1..L /\ j + 1 \in 1..L /\ k \in 1..L /\ k + 1 \in 1..L
    BY <1>1
  <2>2. (IF j < i THEN s[j] ELSE s[j + 1]) = (IF k < i THEN s[k] ELSE s[k + 1])
    BY <1>6
  <2>3. CASE j < i /\ k < i
    BY <1>2, <2>1, <2>2, <2>3
  <2>4. CASE j < i /\ ~(k < i)
    <3>1. j = k + 1
      BY <1>2, <2>1, <2>2, <2>4
    <3> QED
      BY <1>1, <2>4, <3>1
  <2>5. CASE ~(j < i) /\ k < i
    <3>1. j + 1 = k
      BY <1>2, <2>1, <2>2, <2>5
    <3> QED
      BY <1>1, <2>5, <3>1
  <2>6. CASE ~(j < i) /\ ~(k < i)
    <3>1. j + 1 = k + 1
      BY <1>2, <2>1, <2>2, <2>6
    <3> QED
      BY <3>1
  <2> QED
    BY <2>3, <2>4, <2>5, <2>6
<1>10. \A j \in 1..Len(u) : pv2[u[j]] = (IF j > 1 THEN u[j - 1] ELSE NULL)
  <2> SUFFICES ASSUME NEW j \in 1..(L - 1) PROVE pv2[u[j]] = (IF j > 1 THEN u[j - 1] ELSE NULL)
    BY <1>6
  <2>1. j \in 1..L /\ j + 1 \in 1..L /\ L - 1 \in Int
    BY <1>1
  <2>2. CASE j < i
    <3>1. u[j] = s[j] /\ j # i + 1
      BY <1>1, <1>6, <2>2
    <3>2. pv2[u[j]] = IF j > 1 THEN s[j - 1] ELSE NULL
      BY <1>3, <1>8, <2>1, <3>1
    <3>3. j > 1 => u[j - 1] = s[j - 1]
      <4>1. j > 1 => j - 1 \in 1..(L - 1) /\ j - 1 < i
        BY <1>1, <2>1, <2>2
      <4> QED
        BY <1>6, <4>1
    <3> QED
      BY <3>2, <3>3
  <2>3. CASE j = i
    <3>1. u[j] = s[i + 1] /\ i + 1 \in 1..L
      BY <1>1, <1>6, <2>3
    <3>2. pv2[u[j]] = pred
      BY <1>8, <3>1
    <3>3. j > 1 => u[j - 1] = s[i - 1]
      <4>1. j > 1 => j - 1 \in 1..(L - 1) /\ j - 1 < i /\ j - 1 = i - 1
        BY <1>1, <2>1, <2>3
      <4> QED
        BY <1>6, <4>1
    <3> QED
      BY <2>3, <3>2, <3>3
  <2>4. CASE j > i
    <3>1. u[j] = s[j + 1] /\ j + 1 # i + 1 /\ j + 1 > 1 /\ j > 1 /\ j + 1 - 1 = j
      BY <1>1, <1>6, <2>4
    <3>2. pv2[u[j]] = s[j]
      BY <1>3, <1>8, <2>1, <3>1
    <3>3. u[j - 1] = s[j]
      <4>1. j - 1 \in 1..(L - 1) /\ ~(j - 1 < i) /\ j - 1 + 1 = j
        BY <1>1, <2>1, <2>4
      <4> QED
        BY <1>6, <4>1
    <3> QED
      BY <3>1, <3>2, <3>3
  <2> QED
    BY <1>1, <2>2, <2>3, <2>4
<1>11. ASSUME NEW nx3, \/ i = 1 /\ nx3 = nx
                       \/ i > 1 /\ nx3 = nx2
       PROVE  \A j \in 1..Len(u) : nx3[u[j]] = (IF j < Len(u) THEN u[j + 1] ELSE NULL)
  <2> SUFFICES ASSUME NEW j \in 1..(L - 1)
               PROVE  nx3[u[j]] = (IF j < L - 1 THEN u[j + 1] ELSE NULL)
    BY <1>6
  <2>1. j \in 1..L /\ j + 1 \in 1..L /\ L - 1 \in Int
    BY <1>1
  <2>2. \A k \in 1..L : nx3[s[k]] = IF i > 1 /\ k = i - 1 THEN succ ELSE nx[s[k]]
    BY <1>8, <1>11
  <2>3. CASE j < i /\ j # i - 1
    <3>1. u[j] = s[j] /\ j < L /\ j < L - 1
      BY <1>1, <1>6, <2>3
    <3>2. nx3[u[j]] = s[j + 1]
      BY <1>3, <2>1, <2>2, <2>3, <3>1
    <3>3. u[j + 1] = s[j + 1]
      <4>1. j + 1 \in 1..(L - 1) /\ j + 1 < i
        BY <1>1, <2>1, <2>3
      <4> QED
        BY <1>6, <4>1
    <3> QED
      BY <3>1, <3>2, <3>3
  <2>4. CASE j = i - 1
    <3>1. u[j] = s[j] /\ i > 1 /\ j < L - 1 /\ j + 1 = i /\ i \in 1..(L - 1) /\ ~(i < i) /\ j < i
      BY <1>1, <1>6, <2>4
    <3>2. nx3[u[j]] = succ
      BY <2>1, <2>2, <2>4, <3>1
    <3>3. u[j + 1] = s[i + 1]
      BY <1>6, <3>1
    <3> QED
      BY <3>1, <3>2, <3>3
  <2>5. CASE ~(j < i)
    <3>1. u[j] = s[j + 1] /\ j + 1 # i - 1
      BY <1>1, <1>6, <2>5
    <3>2. nx3[u[j]] = IF j + 1 < L THEN s[j + 1 + 1] ELSE NULL
      BY <1>3, <2>1, <2>2, <3>1
    <3>3. CASE j < L - 1
      <4>1. j + 1 \in 1..(L - 1) /\ ~(j + 1 < i) /\ j + 1 < L
        BY <1>1, <2>1, <2>5, <3>3
      <4>2. u[j + 1] = s[j + 1 + 1]
        BY <1>6, <4>1
      <4> QED
        BY <3>2, <3>3, <4>1, <4>2
    <3>4. CASE ~(j < L - 1)
      <4>1. ~(j + 1 < L)
        BY <1>1, <2>1, <3>4
      <4> QED
        BY <3>2, <3>4, <4>1
    <3> QED
      BY <3>3, <3>4
  <2> QED
    BY <2>3, <2>4, <2>5
<1>12. /\ u # <<>> /\ u[Len(u)] = last
       /\ i > 1 => u[1] = first
       /\ i = 1 => u[1] = succ
  <2>1. L - 1 \in 1..(L - 1) /\ ~(L - 1 < i) /\ L - 1 + 1 = L /\ 1 \in 1..(L - 1)
    BY <1>1
  <2>2. u[Len(u)] = s[L]
    BY <1>6, <2>1
  <2>3. u[1] = IF 1 < i THEN s[1] ELSE s[1 + 1]
    BY <1>6, <2>1
  <2>4. u # <<>>
    BY <1>6, <2>1
  <2> QED
    BY <1>1, <1>4, <2>2, <2>3, <2>4
<1>13. n = first <=> i = 1
  <2>1. 1 \in 1..L
    BY <1>1
  <2> QED
    BY <1>1, <1>2, <1>4, <2>1
<1>14. CASE i = 1
  <2>1. \A j \in 1..Len(u) : nx[u[j]] = (IF j < Len(u) THEN u[j + 1] ELSE NULL)
    BY <1>11, <1>14
  <2>2. nx \in Links /\ pv2 \in Links /\ u \in Seq(Nodes) /\ u # <<>>
    BY <1>1, <1>6, <1>8, <1>12
  <2>3. u[1] = succ /\ u[Len(u)] = last
    BY <1>12, <1>14
  <2>4. IsChain(nx, pv2, succ, last, u)
    BY <1>9, <1>10, <2>1, <2>2, <2>3 DEF IsChain
  <2> QED
    BY <1>5, <1>13, <1>14, <2>4 DEF pv2, u
<1>15. CASE i > 1
  <2>1. \A j \in 1..Len(u) : nx2[u[j]] = (IF j < Len(u) THEN u[j + 1] ELSE NULL)
    BY <1>11, <1>15
  <2>2. nx2 \in Links /\ pv2 \in Links /\ u \in Seq(Nodes) /\ u # <<>>
    BY <1>1, <1>6, <1>8, <1>12, <1>15
  <2>3. u[1] = first /\ u[Len(u)] = last
    BY <1>12, <1>15
  <2>4. IsChain(nx2, pv2, first, last, u)
    BY <1>9, <1>10, <2>1, <2>2, <2>3 DEF IsChain
  <2> QED
    BY <1>5, <1>13, <1>15, <2>4 DEF pv2, nx2, u
<1> QED
  BY <1>1, <1>14, <1>15

\* An entry that is not in the list is linked at its end.
LEMMA LinkChain ==
  ASSUME NEW nx, NEW pv, NEW first, NEW last, NEW s, IsChain(nx, pv, first, last, s),
         NEW n \in Nodes, \A i \in 1..Len(s) : s[i] # n
  PROVE  LET nx1 == [nx EXCEPT ![n] = NULL]
             pv1 == [pv EXCEPT ![n] = last]
         IN IF last = NULL THEN IsChain(nx1, pv1, n, n, Append(s, n))
            ELSE IsChain([nx1 EXCEPT ![last] = n], pv1, first, n, Append(s, n))
<1> DEFINE L == Len(s)
           u == Append(s, n)
           nx1 == [nx EXCEPT ![n] = NULL]
           pv1 == [pv EXCEPT ![n] = last]
           nx2 == [nx1 EXCEPT ![last] = n]
<1>1. /\ nx \in Links /\ pv \in Links /\ s \in Seq(Nodes) /\ L \in Nat
      /\ \A j \in 1..L : s[j] \in Nodes /\ s[j] # n
      /\ \A j, k \in 1..L : s[j] = s[k] => j = k
      /\ NULL \notin Nodes /\ NULL \in 0..MaxEntries /\ Nodes \subseteq 0..MaxEntries
  BY HistoryAssumption DEF IsChain, Nodes, NULL
<1>2. \A j \in 1..L : /\ nx[s[j]] = (IF j < L THEN s[j + 1] ELSE NULL)
                      /\ pv[s[j]] = (IF j > 1 THEN s[j - 1] ELSE NULL)
  BY DEF IsChain
<1>3. /\ u \in Seq(Nodes) /\ Len(u) = L + 1 /\ u[L + 1] = n /\ u # <<>>
      /\ \A j \in 1..L : u[j] = s[j]
  BY <1>1
<1>4. /\ L = 0 => last = NULL
      /\ L > 0 => first = s[1] /\ last = s[L] /\ last \in Nodes /\ last # n /\ L \in 1..L
  <2>1. CASE L = 0
    <3>1. s = <<>>
      BY <1>1, <2>1
    <3> QED
      BY <2>1, <3>1 DEF IsChain
  <2>2. CASE L > 0
    <3>1. s # <<>> /\ L \in 1..L
      BY <1>1, <2>2
    <3> QED
      BY <1>1, <2>2, <3>1 DEF IsChain
  <2> QED
    BY <1>1, <2>1, <2>2
<1> HIDE DEF L, u
<1>5. last \in 0..MaxEntries /\ nx1 \in Links /\ pv1 \in Links /\ (L > 0 => nx2 \in Links)
  <2>1. last \in 0..MaxEntries
    <3>1. L = 0 \/ L > 0
      BY <1>1
    <3> QED
      BY <1>1, <1>4, <3>1
  <2>2. nx1 \in Links /\ pv1 \in Links
    BY <1>1, <2>1 DEF Links
  <2> HIDE DEF nx1
  <2>3. nx2 \in Links
    BY <1>1, <2>2 DEF Links
  <2> QED
    BY <2>1, <2>2, <2>3
<1>6. /\ nx1[n] = NULL /\ pv1[n] = last
      /\ \A j \in 1..L : nx1[s[j]] = nx[s[j]] /\ pv1[s[j]] = pv[s[j]]
  BY <1>1 DEF Links
<1>7. L > 0 => /\ nx2[n] = NULL /\ nx2[last] = n
               /\ \A j \in 1..L : j # L => nx2[s[j]] = nx[s[j]]
  <2> SUFFICES ASSUME L > 0
               PROVE  /\ nx2[n] = NULL /\ nx2[last] = n
                      /\ \A j \in 1..L : j # L => nx2[s[j]] = nx[s[j]]
    OBVIOUS
  <2> HIDE DEF nx1
  <2>1. nx2[n] = NULL /\ nx2[last] = n
    BY <1>4, <1>5, <1>6 DEF Links
  <2>2. ASSUME NEW j \in 1..L, j # L PROVE nx2[s[j]] = nx[s[j]]
    <3>1. s[j] # last /\ s[j] \in Nodes
      BY <1>1, <1>4, <2>2
    <3> QED
      BY <1>5, <1>6, <3>1 DEF Links
  <2> QED
    BY <2>1, <2>2
<1> HIDE DEF nx1, pv1, nx2
<1>8. \A j, k \in 1..Len(u) : u[j] = u[k] => j = k
  <2> SUFFICES ASSUME NEW j \in 1..(L + 1), NEW k \in 1..(L + 1), u[j] = u[k] PROVE j = k
    BY <1>3
  <2>1. \A x \in 1..(L + 1) : x \in 1..L \/ x = L + 1
    BY <1>1
  <2> QED
    BY <1>1, <1>3, <2>1
<1>9. \A j \in 1..Len(u) : pv1[u[j]] = (IF j > 1 THEN u[j - 1] ELSE NULL)
  <2> SUFFICES ASSUME NEW j \in 1..(L + 1) PROVE pv1[u[j]] = (IF j > 1 THEN u[j - 1] ELSE NULL)
    BY <1>3
  <2>1. CASE j \in 1..L
    <3>1. pv1[u[j]] = (IF j > 1 THEN s[j - 1] ELSE NULL)
      BY <1>2, <1>3, <1>6, <2>1
    <3>2. j > 1 => j - 1 \in 1..L
      BY <1>1, <2>1
    <3> QED
      BY <1>3, <3>1, <3>2
  <2>2. CASE j = L + 1
    <3>1. pv1[u[j]] = last
      BY <1>3, <1>6, <2>2
    <3>2. L > 0 => j > 1 /\ j - 1 = L /\ u[L] = s[L]
      BY <1>1, <1>3, <1>4, <2>2
    <3>3. L = 0 => ~(j > 1)
      BY <2>2
    <3> QED
      BY <1>1, <1>4, <3>1, <3>2, <3>3
  <2> QED
    BY <1>1, <2>1, <2>2
<1>10. ASSUME NEW nx3, \/ L = 0 /\ nx3 = nx1
                       \/ L > 0 /\ nx3 = nx2
       PROVE  \A j \in 1..Len(u) : nx3[u[j]] = (IF j < Len(u) THEN u[j + 1] ELSE NULL)
  <2> SUFFICES ASSUME NEW j \in 1..(L + 1)
               PROVE  nx3[u[j]] = (IF j < L + 1 THEN u[j + 1] ELSE NULL)
    BY <1>3
  <2>1. CASE j = L + 1
    <3>1. nx3[n] = NULL /\ ~(j < L + 1)
      BY <1>1, <1>6, <1>7, <1>10, <2>1
    <3> QED
      BY <1>3, <2>1, <3>1
  <2>2. CASE j = L /\ L > 0
    <3>1. u[j] = last /\ j < L + 1 /\ u[j + 1] = n
      BY <1>3, <1>4, <2>2
    <3> QED
      BY <1>7, <1>10, <2>2, <3>1
  <2>3. CASE j < L
    <3>1. j \in 1..L /\ L > 0 /\ j # L /\ j + 1 \in 1..L /\ j < L + 1
      BY <1>1, <2>3
    <3>2. nx3[s[j]] = nx[s[j]] /\ nx[s[j]] = s[j + 1]
      BY <1>2, <1>7, <1>10, <2>3, <3>1
    <3> QED
      BY <1>3, <3>1, <3>2
  <2> QED
    BY <1>1, <2>1, <2>2, <2>3
<1>11. CASE L = 0
  <2>1. u[1] = n /\ u[Len(u)] = n
    BY <1>3, <1>11
  <2>2. IsChain(nx1, pv1, n, n, u)
    BY <1>3, <1>5, <1>8, <1>9, <1>10, <1>11, <2>1 DEF IsChain
  <2> QED
    BY <1>4, <1>11, <2>2 DEF nx1, pv1, u
<1>12. CASE L > 0
  <2>1. u[1] = first /\ u[Len(u)] = n
    <3>1. 1 \in 1..L
      BY <1>1, <1>12
    <3> QED
      BY <1>3, <1>4, <1>12, <3>1
  <2>2. IsChain(nx2, pv1, first, n, u)
    BY <1>3, <1>5, <1>8, <1>9, <1>10, <1>12, <2>1 DEF IsChain
  <2>3. last # NULL
    BY <1>1, <1>4, <1>12
  <2> QED
    BY <2>2, <2>3 DEF nx1, nx2, pv1, u
<1> QED
  BY <1>1, <1>11, <1>12
-----------------------------------------------------------------------------
(* HistoryLists: the fields of a history *)

HistoryType(P) ==
  [next : Links, prev : Links, text : [Nodes -> Texts \cup {NoText}], place : [Nodes -> P],
   first : 0..MaxEntries, last : 0..MaxEntries, map : [Texts -> 0..MaxEntries]]

UnlinkedIs(u, h, n, P) ==
  /\ u.next = IF n = h.first THEN h.next ELSE [h.next EXCEPT ![h.prev[n]] = h.next[n]]
  /\ u.prev = [h.prev EXCEPT ![h.next[n]] = h.prev[n]]
  /\ u.first = IF n = h.first THEN h.next[n] ELSE h.first
  /\ u.last = h.last /\ u.text = h.text /\ u.place = h.place /\ u.map = h.map
  /\ u \in HistoryType(P)

LEMMA UnlinkedFields ==
  ASSUME NEW P, NEW h \in HistoryType(P), NEW n \in Nodes
  PROVE  UnlinkedIs(Unlinked(h, n), h, n, P)
<1> DEFINE nx == [h.next EXCEPT ![h.prev[n]] = h.next[n]]
           pv == [h.prev EXCEPT ![h.next[n]] = h.prev[n]]
<1>1. /\ h.next \in Links /\ h.prev \in Links /\ h.first \in 0..MaxEntries
      /\ h.next[n] \in 0..MaxEntries /\ h.prev[n] \in 0..MaxEntries
  BY DEF HistoryType, Links
<1>2. nx \in Links /\ pv \in Links
  BY <1>1 DEF Links
<1> HIDE DEF nx, pv
<1>3. Unlinked(h, n) = IF n = h.first THEN [[h EXCEPT !.prev = pv] EXCEPT !.first = h.next[n]]
                       ELSE [[h EXCEPT !.prev = pv] EXCEPT !.next = nx]
  BY DEF Unlinked, nx, pv, HistoryType
<1> QED
  BY <1>1, <1>2, <1>3 DEF HistoryType, UnlinkedIs, nx, pv

LEMMA RecycledFields ==
  ASSUME NEW P, NEW h \in HistoryType(P), h.first \in Nodes, h.text[h.first] \in Texts
  PROVE  LET u == Recycled(h)
         IN /\ u.next = h.next
            /\ u.prev = [h.prev EXCEPT ![h.next[h.first]] = NULL]
            /\ u.first = h.next[h.first]
            /\ u.last = h.last /\ u.text = h.text /\ u.place = h.place
            /\ u.map = [h.map EXCEPT ![h.text[h.first]] = NULL]
            /\ u \in HistoryType(P)
<1> DEFINE mp == [h.map EXCEPT ![h.text[h.first]] = NULL]
           pv == [h.prev EXCEPT ![h.next[h.first]] = NULL]
<1>1. /\ h.next \in Links /\ h.prev \in Links /\ h.map \in [Texts -> 0..MaxEntries]
      /\ h.next[h.first] \in 0..MaxEntries /\ NULL \in 0..MaxEntries
  BY HistoryAssumption DEF HistoryType, Links, NULL
<1>2. mp \in [Texts -> 0..MaxEntries] /\ pv \in Links
  BY <1>1 DEF Links
<1> HIDE DEF mp, pv
<1>3. Recycled(h) = [h EXCEPT !.prev = pv, !.first = h.next[h.first], !.map = mp]
  BY DEF Recycled, mp, pv, HistoryType
<1> QED
  BY <1>1, <1>2, <1>3 DEF HistoryType, mp, pv

NamedIs(u, h, n, t, P) ==
  /\ u.next = h.next /\ u.prev = h.prev /\ u.first = h.first /\ u.last = h.last
  /\ u.text = [h.text EXCEPT ![n] = t] /\ u.place = h.place
  /\ u.map = [h.map EXCEPT ![t] = n]
  /\ u \in HistoryType(P)

LEMMA NamedFields ==
  ASSUME NEW P, NEW h \in HistoryType(P), NEW n \in Nodes, NEW t \in Texts
  PROVE  NamedIs(Named(h, n, t), h, n, t, P)
<1> DEFINE mp == [h.map EXCEPT ![t] = n]
           tx == [h.text EXCEPT ![n] = t]
<1>1. /\ h.text \in [Nodes -> Texts \cup {NoText}] /\ h.map \in [Texts -> 0..MaxEntries]
      /\ n \in 0..MaxEntries
  BY DEF HistoryType, Nodes
<1>2. mp \in [Texts -> 0..MaxEntries] /\ tx \in [Nodes -> Texts \cup {NoText}]
  BY <1>1
<1> HIDE DEF mp, tx
<1>3. Named(h, n, t) = [h EXCEPT !.text = tx, !.map = mp]
  BY DEF Named, mp, tx, HistoryType
<1> QED
  BY <1>2, <1>3 DEF HistoryType, NamedIs, mp, tx

LEMMA LinkedFields ==
  ASSUME NEW P, NEW h \in HistoryType(P), NEW n \in Nodes, NEW p \in P
  PROVE  LET u == LinkedLast(h, n, p)
         IN /\ u.next = IF h.last = NULL THEN [h.next EXCEPT ![n] = NULL]
                        ELSE [[h.next EXCEPT ![n] = NULL] EXCEPT ![h.last] = n]
            /\ u.prev = [h.prev EXCEPT ![n] = h.last]
            /\ u.first = IF h.last = NULL THEN n ELSE h.first
            /\ u.last = n /\ u.text = h.text /\ u.map = h.map
            /\ u.place = [h.place EXCEPT ![n] = p]
            /\ u \in HistoryType(P)
<1> DEFINE nx == [h.next EXCEPT ![n] = NULL]
           nx2 == [nx EXCEPT ![h.last] = n]
           pv == [h.prev EXCEPT ![n] = h.last]
           pl == [h.place EXCEPT ![n] = p]
<1>1. /\ h.next \in Links /\ h.prev \in Links /\ h.last \in 0..MaxEntries
      /\ h.place \in [Nodes -> P] /\ NULL \in 0..MaxEntries /\ n \in 0..MaxEntries
  BY HistoryAssumption DEF HistoryType, Nodes, NULL
<1>2. nx \in Links /\ pv \in Links /\ pl \in [Nodes -> P]
  BY <1>1 DEF Links
<1> HIDE DEF nx, pv, pl
<1>3. nx2 \in Links
  BY <1>1, <1>2 DEF Links
<1>4. [h EXCEPT !.next[n] = NULL, !.prev[n] = h.last, !.place[n] = p, !.last = n]
        = [h EXCEPT !.next = nx, !.prev = pv, !.place = pl, !.last = n]
  BY DEF nx, pv, pl, HistoryType
<1>5. PICK e : e = [h EXCEPT !.next = nx, !.prev = pv, !.place = pl, !.last = n]
  OBVIOUS
<1>6. /\ e \in HistoryType(P) /\ e.next = nx /\ e.prev = pv /\ e.place = pl /\ e.last = n
      /\ e.first = h.first /\ e.text = h.text /\ e.map = h.map
  BY <1>1, <1>2, <1>5 DEF HistoryType
<1>7. LinkedLast(h, n, p) = IF h.last = NULL THEN [e EXCEPT !.first = n]
                            ELSE [e EXCEPT !.next[h.last] = n]
  BY <1>4, <1>5 DEF LinkedLast
<1>8. [e EXCEPT !.next[h.last] = n] = [e EXCEPT !.next = nx2]
  BY <1>6 DEF nx2, HistoryType
<1> HIDE DEF nx2
<1>9. LinkedLast(h, n, p) = IF h.last = NULL THEN [e EXCEPT !.first = n]
                            ELSE [e EXCEPT !.next = nx2]
  BY <1>7, <1>8
<1>10. CASE h.last = NULL
  <2>1. LinkedLast(h, n, p) = [e EXCEPT !.first = n]
    BY <1>9, <1>10
  <2> QED
    BY <1>1, <1>6, <1>10, <2>1 DEF HistoryType, nx, pv, pl
<1>11. CASE h.last # NULL
  <2>1. LinkedLast(h, n, p) = [e EXCEPT !.next = nx2]
    BY <1>9, <1>11
  <2> QED
    BY <1>1, <1>3, <1>6, <1>11, <2>1 DEF HistoryType, nx, nx2, pv, pl
<1> QED
  BY <1>10, <1>11
-----------------------------------------------------------------------------
(* HistoryLists: a history, as a sequence of its entries *)

In(m, s) == \E i \in 1..Len(s) : s[i] = m

\* The entries of s are in the list in this order, and the map leads from
\* their texts to them and to nothing else.
IsList(h, s, P) ==
  /\ h \in HistoryType(P)
  /\ IsChain(h.next, h.prev, h.first, h.last, s)
  /\ \A m \in Nodes : In(m, s) => h.text[m] \in Texts /\ h.map[h.text[m]] = m
  /\ \A t \in Texts : h.map[t] # NULL => h.text[h.map[t]] = t /\ In(h.map[t], s)
  /\ \A m \in Nodes : ~In(m, s) => h.text[m] = NoText

LEMMA EmptyIsList ==
  ASSUME NEW P, NULL \in P
  PROVE  IsList(EmptyHistory, <<>>, P)
<1> DEFINE no == [n \in Nodes |-> NULL]
           tx == [n \in Nodes |-> NoText]
           mp == [t \in Texts |-> NULL]
<1>1. NULL \in 0..MaxEntries
  BY HistoryAssumption DEF NULL
<1>2. /\ no \in Links /\ no \in [Nodes -> P]
      /\ tx \in [Nodes -> Texts \cup {NoText}] /\ mp \in [Texts -> 0..MaxEntries]
  BY <1>1 DEF Links
<1>3. (\A n \in Nodes : tx[n] = NoText) /\ (\A t \in Texts : mp[t] = NULL)
  OBVIOUS
<1>4. EmptyHistory = [next |-> no, prev |-> no, text |-> tx, place |-> no,
                      first |-> NULL, last |-> NULL, map |-> mp]
  BY DEF EmptyHistory
<1> HIDE DEF no, tx, mp
<1>5. EmptyHistory \in HistoryType(P)
  BY <1>1, <1>2, <1>4 DEF HistoryType
<1>6. /\ EmptyHistory.next = no /\ EmptyHistory.prev = no /\ EmptyHistory.text = tx
      /\ EmptyHistory.first = NULL /\ EmptyHistory.last = NULL /\ EmptyHistory.map = mp
  BY <1>4
<1>7. Len(<<>>) = 0 /\ <<>> \in Seq(Nodes) /\ 1..0 = {}
  OBVIOUS
<1>8. IsChain(no, no, NULL, NULL, <<>>)
  BY <1>2, <1>7 DEF IsChain
<1> QED
  BY <1>3, <1>5, <1>6, <1>7, <1>8 DEF IsList, In

LEMMA ListFacts ==
  ASSUME NEW P, NEW h, NEW s, IsList(h, s, P)
  PROVE  /\ s \in Seq(Nodes) /\ Len(s) \in Nat /\ Len(s) <= MaxEntries /\ DOMAIN s = 1..Len(s)
         /\ \A i \in 1..Len(s) : s[i] \in Nodes
         /\ \A i, j \in 1..Len(s) : s[i] = s[j] => i = j
         /\ \A i \in 1..Len(s) : h.text[s[i]] \in Texts /\ h.map[h.text[s[i]]] = s[i]
         /\ \A t \in Texts : h.map[t] # NULL =>
              h.map[t] \in Nodes /\ h.text[h.map[t]] = t /\ In(h.map[t], s)
<1>1. s \in Seq(Nodes) /\ \A i, j \in 1..Len(s) : s[i] = s[j] => i = j
  BY DEF IsList, IsChain
<1>2. Len(s) \in Nat /\ Len(s) <= MaxEntries /\ DOMAIN s = 1..Len(s)
  BY <1>1, ChainFits
<1>3. \A i \in 1..Len(s) : s[i] \in Nodes
  BY <1>1
<1>4. \A i \in 1..Len(s) : In(s[i], s)
  BY DEF In
<1>5. \A i \in 1..Len(s) : h.text[s[i]] \in Texts /\ h.map[h.text[s[i]]] = s[i]
  BY <1>3, <1>4 DEF IsList
<1>6. \A t \in Texts : h.map[t] # NULL => h.text[h.map[t]] = t /\ In(h.map[t], s)
  BY DEF IsList
<1>7. \A m : In(m, s) => m \in Nodes
  BY <1>3 DEF In
<1> QED
  BY <1>1, <1>2, <1>3, <1>5, <1>6, <1>7

\* The walks and the count of a list; ListIsMap follows.
LEMMA ListWalks ==
  ASSUME NEW P, NEW h, NEW s, IsList(h, s, P)
  PROVE  Forward(h) = s /\ Backward(h) = Mirrored(s) /\ Count(h) = Len(s) /\ ListIsMap(h)
<1> DEFINE L == Len(s)
           r == Mirrored(s)
<1>1. /\ s \in Seq(Nodes) /\ L \in Nat /\ L <= MaxEntries /\ DOMAIN s = 1..L
      /\ \A i \in 1..L : s[i] \in Nodes
      /\ \A i, j \in 1..L : s[i] = s[j] => i = j
  BY ListFacts
<1>2. \A i \in 1..L : h.text[s[i]] \in Texts /\ h.map[h.text[s[i]]] = s[i]
  BY ListFacts
<1>3. \A t \in Texts : h.map[t] # NULL =>
        h.map[t] \in Nodes /\ h.text[h.map[t]] = t /\ In(h.map[t], s)
  BY ListFacts
<1>4. /\ s = <<>> => h.first = NULL /\ h.last = NULL
      /\ s # <<>> => h.first = s[1] /\ h.last = s[L]
      /\ \A i \in 1..L : /\ h.next[s[i]] = (IF i < L THEN s[i + 1] ELSE NULL)
                         /\ h.prev[s[i]] = (IF i > 1 THEN s[i - 1] ELSE NULL)
  BY DEF IsList, IsChain
<1>5. Forward(h) = s
  <2>1. Walk(h.next, h.first) = s
    BY <1>1, <1>4, WalkIs
  <2> QED
    BY <2>1 DEF Forward
<1>6. r \in Seq(Nodes) /\ Len(r) = L /\ \A i \in 1..L : r[i] = s[L + 1 - i] /\ L + 1 - i \in 1..L
  <2> HIDE DEF L
  <2>1. \A i \in 1..L : L + 1 - i \in 1..L
    BY <1>1
  <2>2. r = [i \in 1..L |-> s[L + 1 - i]]
    BY DEF Mirrored, L
  <2> HIDE DEF r
  <2>3. r \in [1..L -> Nodes]
    BY <1>1, <2>1, <2>2
  <2>4. r \in Seq(Nodes) /\ Len(r) = L
    BY <1>1, <2>3
  <2> QED
    BY <2>1, <2>2, <2>4
<1>7. Backward(h) = r
  <2> HIDE DEF L, r
  <2>1. r = <<>> => h.last = NULL
    <3> SUFFICES ASSUME r = <<>> PROVE h.last = NULL
      OBVIOUS
    <3>1. L = 0
      BY <1>6
    <3>2. s = <<>>
      BY <1>1, <3>1 DEF L
    <3> QED
      BY <1>4, <3>2
  <2>2. r # <<>> => h.last = r[1]
    <3> SUFFICES ASSUME r # <<>> PROVE h.last = r[1]
      OBVIOUS
    <3>1. L > 0 /\ 1 \in 1..L /\ L + 1 - 1 = L
      BY <1>1, <1>6
    <3>2. s # <<>>
      BY <3>1 DEF L
    <3>3. r[1] = s[L]
      BY <1>6, <3>1
    <3> QED
      BY <1>4, <3>2, <3>3
  <2>3. \A i \in 1..Len(r) : h.prev[r[i]] = (IF i < Len(r) THEN r[i + 1] ELSE NULL)
    <3> SUFFICES ASSUME NEW i \in 1..L PROVE h.prev[r[i]] = (IF i < L THEN r[i + 1] ELSE NULL)
      BY <1>6
    <3>1. L + 1 - i \in 1..L /\ h.prev[r[i]] = IF L + 1 - i > 1 THEN s[L + 1 - i - 1] ELSE NULL
      BY <1>4, <1>6
    <3>2. CASE i < L
      <4>1. i + 1 \in 1..L /\ L + 1 - i > 1 /\ L + 1 - (i + 1) = L + 1 - i - 1
        BY <1>1, <3>2
      <4>2. r[i + 1] = s[L + 1 - (i + 1)]
        BY <1>6, <4>1
      <4> QED
        BY <3>1, <3>2, <4>1, <4>2
    <3>3. CASE ~(i < L)
      <4>1. ~(L + 1 - i > 1)
        BY <1>1, <3>3
      <4> QED
        BY <3>1, <3>3, <4>1
    <3> QED
      BY <3>2, <3>3
  <2>4. Walk(h.prev, h.last) = r
    BY <1>1, <1>6, <2>1, <2>2, <2>3, WalkIs
  <2> QED
    BY <2>4 DEF Backward
<1> HIDE DEF L, r
<1>8. Count(h) = L
  <2> DEFINE U == {t \in Texts : h.map[t] # NULL}
             f == [i \in 1..L |-> h.text[s[i]]]
  <2>1. NULL \notin Nodes
    BY HistoryAssumption DEF Nodes, NULL
  <2>2. f \in [1..L -> U]
    BY <1>1, <1>2, <2>1
  <2>3. ASSUME NEW i \in 1..L, NEW j \in 1..L, f[i] = f[j] PROVE i = j
    <3>1. h.text[s[i]] = h.text[s[j]]
      BY <2>3
    <3>2. s[i] = s[j]
      BY <1>2, <3>1
    <3> QED
      BY <1>1, <3>2
  <2>4. ASSUME NEW t \in U PROVE \E i \in 1..L : f[i] = t
    <3>1. PICK i \in 1..L : s[i] = h.map[t]
      BY <1>3 DEF In, L
    <3> QED
      BY <1>3, <3>1
  <2> HIDE DEF U, f
  <2>5. f \in Bijection(1..L, U)
    BY <2>2, <2>3, <2>4 DEF Bijection, Injection, Surjection, IsInjective
  <2>6. ExistsBijection(1..L, U)
    BY <2>5 DEF ExistsBijection
  <2>7. Cardinality(U) = L
    BY <1>1, <2>6, FS_CountingElements
  <2> QED
    BY <2>7 DEF Count, U
<1>9. ListIsMap(h)
  <2>1. ASSUME NEW i \in DOMAIN s
        PROVE  r[L + 1 - i] = s[i] /\ h.map[h.text[s[i]]] = s[i]
    <3>1. i \in 1..L /\ L + 1 - i \in 1..L /\ L + 1 - (L + 1 - i) = i
      BY <1>1
    <3> QED
      BY <1>2, <1>6, <3>1
  <2> QED
    BY <1>3, <1>5, <1>6, <1>7, <1>8, <2>1 DEF ListIsMap, L
<1> QED
  BY <1>5, <1>7, <1>8, <1>9 DEF L, r
-----------------------------------------------------------------------------
(* HistoryLists: a text is appended *)

\* The members of a sequence where one went to the end
LEMMA MembersOfMoved ==
  ASSUME NEW s \in Seq(Nodes), \A i, j \in 1..Len(s) : s[i] = s[j] => i = j,
         NEW i \in 1..Len(s), NEW m
  PROVE  In(m, RemoveAt(s, i)) <=> In(m, s) /\ m # s[i]
<1> DEFINE L == Len(s)
           u == RemoveAt(s, i)
<1>1. L \in Nat /\ i \in Nat /\ i >= 1 /\ i <= L /\ i \in 1..L
  OBVIOUS
<1>2. Len(u) = L - 1 /\ \A j \in 1..(L - 1) : u[j] = IF j < i THEN s[j] ELSE s[j + 1]
  BY RemoveAtIs
<1>3. \A j, k \in 1..L : s[j] = s[k] => j = k
  OBVIOUS
<1> HIDE DEF u, L
<1>4. ASSUME NEW j \in 1..(L - 1), u[j] = m PROVE (\E k \in 1..L : s[k] = m) /\ m # s[i]
  <2>1. j \in 1..L /\ j + 1 \in 1..L
    BY <1>1
  <2>2. CASE j < i
    <3>1. m = s[j] /\ j # i
      BY <1>1, <1>2, <1>4, <2>2
    <3> QED
      BY <1>1, <1>3, <2>1, <3>1
  <2>3. CASE ~(j < i)
    <3>1. m = s[j + 1] /\ j + 1 # i
      BY <1>1, <1>2, <1>4, <2>3
    <3> QED
      BY <1>1, <1>3, <2>1, <3>1
  <2> QED
    BY <2>2, <2>3
<1>5. ASSUME NEW k \in 1..L, s[k] = m, m # s[i] PROVE \E j \in 1..(L - 1) : u[j] = m
  <2>1. k # i
    BY <1>5
  <2>2. CASE k < i
    <3>1. k \in 1..(L - 1)
      BY <1>1, <2>2
    <3> QED
      BY <1>2, <1>5, <2>2, <3>1
  <2>3. CASE k > i
    <3>1. k - 1 \in 1..(L - 1) /\ ~(k - 1 < i) /\ k - 1 + 1 = k
      BY <1>1, <2>3
    <3> QED
      BY <1>2, <1>5, <3>1
  <2> QED
    BY <1>1, <2>1, <2>2, <2>3
<1> QED
  BY <1>2, <1>4, <1>5 DEF In, u, L

LEMMA MembersOfAppended ==
  ASSUME NEW s \in Seq(Nodes), NEW n \in Nodes, NEW m
  PROVE  In(m, Append(s, n)) <=> In(m, s) \/ m = n
<1> DEFINE L == Len(s)
           u == Append(s, n)
<1>1. L \in Nat /\ Len(u) = L + 1 /\ u[L + 1] = n /\ \A j \in 1..L : u[j] = s[j]
  OBVIOUS
<1> HIDE DEF L, u
<1>2. \A j \in 1..(L + 1) : j \in 1..L \/ j = L + 1
  BY <1>1
<1>3. 1..L \subseteq 1..(L + 1) /\ L + 1 \in 1..(L + 1)
  BY <1>1
<1> QED
  BY <1>1, <1>2, <1>3 DEF In, L, u

\* An entry that is in no list is linked at the end of one.
RelinkedIs(u, h, s, n, p, P) ==
  /\ IsChain(u.next, u.prev, u.first, u.last, Append(s, n))
  /\ u.text = h.text /\ u.map = h.map /\ u.place = [h.place EXCEPT ![n] = p]
  /\ u \in HistoryType(P)

LEMMA Relinked ==
  ASSUME NEW P, NEW h \in HistoryType(P), NEW s, IsChain(h.next, h.prev, h.first, h.last, s),
         NEW n \in Nodes, ~In(n, s), NEW p \in P
  PROVE  RelinkedIs(LinkedLast(h, n, p), h, s, n, p, P)
<1> DEFINE nx1 == [h.next EXCEPT ![n] = NULL]
           pv1 == [h.prev EXCEPT ![n] = h.last]
<1>1. \A i \in 1..Len(s) : s[i] # n
  BY DEF In
<1>2. PICK u : u = LinkedLast(h, n, p)
  OBVIOUS
<1>3. /\ u.next = IF h.last = NULL THEN nx1 ELSE [nx1 EXCEPT ![h.last] = n]
      /\ u.prev = pv1
      /\ u.first = IF h.last = NULL THEN n ELSE h.first
      /\ u.last = n /\ u.text = h.text /\ u.map = h.map
      /\ u.place = [h.place EXCEPT ![n] = p]
      /\ u \in HistoryType(P)
  BY <1>2, LinkedFields
<1>4. IF h.last = NULL THEN IsChain(nx1, pv1, n, n, Append(s, n))
      ELSE IsChain([nx1 EXCEPT ![h.last] = n], pv1, h.first, n, Append(s, n))
  BY <1>1, LinkChain
<1>5. IsChain(u.next, u.prev, u.first, u.last, Append(s, n))
  <2> HIDE DEF nx1, pv1
  <2>1. CASE h.last = NULL
    BY <1>3, <1>4, <2>1
  <2>2. CASE h.last # NULL
    BY <1>3, <1>4, <2>2
  <2> QED
    BY <2>1, <2>2
<1>6. RelinkedIs(u, h, s, n, p, P)
  BY <1>3, <1>5 DEF RelinkedIs
<1> QED
  BY <1>2, <1>6

\* What one append does to the list: the entry i, or none if i is 0, goes, and
\* n comes to the end with t and p.
Moved(h, s, i, n, t, p, u, s2) ==
  /\ i \in 0..Len(s) /\ n \in Nodes
  /\ i = 0 => ~In(n, s) /\ Len(s) < MaxEntries /\ s2 = Append(s, n)
  /\ i > 0 => n = s[i] /\ s2 = Append(RemoveAt(s, i), n)
  /\ u.text = [h.text EXCEPT ![n] = t]
  /\ u.place = [h.place EXCEPT ![n] = p]

\* It was the entry of t, or the oldest one of a full list, or there was room.
WasChosen(h, s, i, t) ==
  \/ i > 0 /\ h.text[s[i]] = t
  \/ /\ \A j \in 1..Len(s) : h.text[s[j]] # t
     /\ i = IF Len(s) = MaxEntries THEN 1 ELSE 0

\* A sequence whose last one goes to the end is the same one.
LEMMA LastStays ==
  ASSUME NEW s \in Seq(Nodes), Len(s) > 0
  PROVE  Append(RemoveAt(s, Len(s)), s[Len(s)]) = s
<1> DEFINE L == Len(s)
           u == RemoveAt(s, L)
           v == Append(u, s[L])
<1>1. L \in Nat /\ L \in 1..L /\ s[L] \in Nodes /\ s \in Seq(Nodes)
  OBVIOUS
<1>2. u \in Seq(Nodes) /\ Len(u) = L - 1 /\ \A j \in 1..(L - 1) : u[j] = IF j < L THEN s[j] ELSE s[j + 1]
  BY <1>1, RemoveAtIs
<1> HIDE DEF u
<1>3. v \in Seq(Nodes) /\ Len(v) = L - 1 + 1 /\ v[L - 1 + 1] = s[L] /\ \A j \in 1..(L - 1) : v[j] = u[j]
  BY <1>1, <1>2
<1> HIDE DEF v, L
<1>4. \A j \in 1..L : v[j] = s[j]
  <2> TAKE j \in 1..L
  <2>1. (j \in 1..(L - 1) /\ j < L) \/ j = L
    BY <1>1
  <2> QED
    BY <1>1, <1>2, <1>3, <2>1
<1>5. Len(v) = Len(s)
  BY <1>1, <1>3 DEF L
<1>6. v = s
  BY <1>1, <1>3, <1>4, <1>5 DEF L
<1> QED
  BY <1>6 DEF v, u, L
\* Like IsList, but the entry n is out of the list with whatever text it has.
IsListBut(h, s, n, P) ==
  /\ h \in HistoryType(P)
  /\ IsChain(h.next, h.prev, h.first, h.last, s)
  /\ ~In(n, s)
  /\ \A m \in Nodes : In(m, s) => h.text[m] \in Texts /\ h.map[h.text[m]] = m
  /\ \A t \in Texts : h.map[t] # NULL => h.text[h.map[t]] = t /\ In(h.map[t], s)
  /\ \A m \in Nodes : m # n /\ ~In(m, s) => h.text[m] = NoText

LEMMA NewEntry ==
  ASSUME NEW P, NEW h, NEW s, NEW n \in Nodes, IsListBut(h, s, n, P),
         NEW t \in Texts, h.map[t] = NULL, NEW p \in P
  PROVE  LET u == LinkedLast(Named(h, n, t), n, p)
         IN /\ IsList(u, Append(s, n), P)
            /\ u.text = [h.text EXCEPT ![n] = t] /\ u.place = [h.place EXCEPT ![n] = p]
<1>1. /\ h \in HistoryType(P) /\ IsChain(h.next, h.prev, h.first, h.last, s) /\ ~In(n, s)
      /\ s \in Seq(Nodes)
  BY DEF IsListBut, IsChain
<1>2. PICK g : g = Named(h, n, t)
  OBVIOUS
<1>3. /\ g.next = h.next /\ g.prev = h.prev /\ g.first = h.first /\ g.last = h.last
      /\ g.text = [h.text EXCEPT ![n] = t] /\ g.place = h.place
      /\ g.map = [h.map EXCEPT ![t] = n] /\ g \in HistoryType(P)
  <2>1. NamedIs(g, h, n, t, P)
    BY <1>1, <1>2, NamedFields
  <2> QED
    BY <2>1 DEF NamedIs
<1>4. PICK u : u = LinkedLast(g, n, p)
  OBVIOUS
<1>5. /\ IsChain(u.next, u.prev, u.first, u.last, Append(s, n))
      /\ u.text = g.text /\ u.map = g.map /\ u.place = [g.place EXCEPT ![n] = p]
      /\ u \in HistoryType(P)
  <2>1. IsChain(g.next, g.prev, g.first, g.last, s)
    BY <1>1, <1>3
  <2>2. RelinkedIs(u, g, s, n, p, P)
    BY <1>1, <1>3, <1>4, <2>1, Relinked
  <2> QED
    BY <2>2 DEF RelinkedIs
<1>6. /\ h.text \in [Nodes -> Texts \cup {NoText}] /\ h.map \in [Texts -> 0..MaxEntries]
      /\ n # NULL
  BY <1>1, HistoryAssumption DEF HistoryType, Nodes, NULL
<1>7. /\ u.text[n] = t /\ \A m \in Nodes : m # n => u.text[m] = h.text[m]
      /\ u.map[t] = n /\ \A x \in Texts : x # t => u.map[x] = h.map[x]
  BY <1>3, <1>5, <1>6
<1>8. \A m : In(m, Append(s, n)) <=> In(m, s) \/ m = n
  BY <1>1, MembersOfAppended
<1>9. ASSUME NEW m \in Nodes, In(m, s) \/ m = n PROVE u.text[m] \in Texts /\ u.map[u.text[m]] = m
  <2>1. CASE m = n
    BY <1>7, <2>1
  <2>2. CASE m # n
    <3>1. h.text[m] \in Texts /\ h.map[h.text[m]] = m /\ u.text[m] = h.text[m] /\ m # NULL
      BY <1>7, <1>9, <2>2, HistoryAssumption DEF IsListBut, Nodes, NULL
    <3> QED
      BY <1>7, <3>1
  <2> QED
    BY <2>1, <2>2
<1>10. ASSUME NEW x \in Texts, u.map[x] # NULL
       PROVE  u.text[u.map[x]] = x /\ (In(u.map[x], s) \/ u.map[x] = n)
  <2>1. CASE x = t
    BY <1>7, <2>1
  <2>2. CASE x # t
    <3>1. u.map[x] = h.map[x] /\ h.text[h.map[x]] = x /\ In(h.map[x], s)
      BY <1>7, <1>10, <2>2 DEF IsListBut
    <3>2. h.map[x] \in Nodes /\ h.map[x] # n
      BY <1>1, <1>6, <1>10, <3>1 DEF Nodes, NULL
    <3> QED
      BY <1>7, <3>1, <3>2
  <2> QED
    BY <2>1, <2>2
<1>11. ASSUME NEW m \in Nodes, ~(In(m, s) \/ m = n) PROVE u.text[m] = NoText
  BY <1>7, <1>11 DEF IsListBut
<1>12. IsList(u, Append(s, n), P)
  BY <1>5, <1>8, <1>9, <1>10, <1>11 DEF IsList
<1> QED
  BY <1>2, <1>3, <1>4, <1>5, <1>12

LEMMA AppendedIsList ==
  ASSUME NEW P, NEW h, NEW s, IsList(h, s, P), NEW t \in Texts, NEW p \in P
  PROVE  \E i, n, s2 :
           /\ IsList(Appended(h, t, p), s2, P)
           /\ Moved(h, s, i, n, t, p, Appended(h, t, p), s2) /\ WasChosen(h, s, i, t)
<1> DEFINE L == Len(s)
           u == Appended(h, t, p)
           c == h.map[t]
<1>1. /\ s \in Seq(Nodes) /\ L \in Nat /\ L <= MaxEntries
      /\ \A i \in 1..L : s[i] \in Nodes
      /\ \A i, j \in 1..L : s[i] = s[j] => i = j
      /\ \A i \in 1..L : h.text[s[i]] \in Texts /\ h.map[h.text[s[i]]] = s[i]
  BY ListFacts
<1>2. /\ h \in HistoryType(P) /\ IsChain(h.next, h.prev, h.first, h.last, s)
      /\ h.next \in Links /\ h.prev \in Links
      /\ h.text \in [Nodes -> Texts \cup {NoText}] /\ h.place \in [Nodes -> P]
      /\ h.map \in [Texts -> 0..MaxEntries] /\ c \in 0..MaxEntries
  BY DEF IsList, HistoryType
<1>3. NULL \notin Nodes /\ MaxEntries \in Nat /\ MaxEntries >= 2
  BY HistoryAssumption DEF Nodes, NULL
<1>4. Count(h) = L
  BY ListWalks
<1>5. L > 0 => h.first = s[1] /\ h.last = s[L] /\ 1 \in 1..L /\ L \in 1..L
  <2>1. L > 0 => s # <<>> /\ 1 \in 1..L /\ L \in 1..L
    BY <1>1
  <2> QED
    BY <1>2, <2>1 DEF IsChain
<1>6. CASE c # NULL
  <2>1. h.text[c] = t /\ c \in Nodes /\ In(c, s)
    BY <1>6, ListFacts
  <2>2. PICK i \in 1..L : s[i] = c
    BY <2>1 DEF In
  <2>3. WasChosen(h, s, i, t) /\ i \in 0..L /\ i > 0
    BY <2>1, <2>2 DEF WasChosen
  <2>4. L > 0
    BY <1>1, <2>2
  <2>5. h.text = [h.text EXCEPT ![c] = t]
    BY <1>2, <2>1
  <2>6. CASE c = h.last
    <3>1. i = L
      BY <1>1, <1>5, <1>6, <2>2, <2>4, <2>6
    <3> DEFINE pl == [h.place EXCEPT ![c] = p]
    <3>2. pl \in [Nodes -> P]
      BY <1>2
    <3>3. u = [h EXCEPT !.place = pl]
      BY <1>2, <1>6, <2>6 DEF Appended, HistoryType
    <3> HIDE DEF pl, u
    <3>4. /\ u \in HistoryType(P) /\ u.place = pl /\ u.text = h.text /\ u.map = h.map
          /\ u.next = h.next /\ u.prev = h.prev /\ u.first = h.first /\ u.last = h.last
      BY <1>2, <3>2, <3>3 DEF HistoryType
    <3>5. IsList(u, s, P)
      BY <3>4 DEF IsList
    <3>6. Append(RemoveAt(s, i), c) = s
      BY <1>1, <2>2, <2>4, <3>1, LastStays
    <3>7. Moved(h, s, i, c, t, p, u, s)
      BY <2>1, <2>2, <2>3, <2>5, <3>4, <3>6 DEF Moved, pl
    <3> QED
      BY <2>1, <2>3, <3>5, <3>7 DEF u
  <2>7. CASE c # h.last
    <3>1. i \in 1..(L - 1)
      BY <1>1, <1>5, <2>2, <2>4, <2>7
    <3> DEFINE s1 == RemoveAt(s, i)
    <3>2. PICK g : g = Unlinked(h, c)
      OBVIOUS
    <3>3. /\ IsChain(g.next, g.prev, g.first, g.last, s1)
          /\ g.text = h.text /\ g.place = h.place /\ g.map = h.map /\ g \in HistoryType(P)
      <4>1. /\ g.next = IF c = h.first THEN h.next ELSE [h.next EXCEPT ![h.prev[c]] = h.next[c]]
            /\ g.prev = [h.prev EXCEPT ![h.next[c]] = h.prev[c]]
            /\ g.first = IF c = h.first THEN h.next[c] ELSE h.first
            /\ g.last = h.last /\ g.text = h.text /\ g.place = h.place /\ g.map = h.map
            /\ g \in HistoryType(P)
        <5>1. UnlinkedIs(g, h, c, P)
          BY <1>2, <2>1, <3>2, UnlinkedFields
        <5> QED
          BY <5>1 DEF UnlinkedIs
      <4> DEFINE nx2 == [h.next EXCEPT ![h.prev[c]] = h.next[c]]
                 pv2 == [h.prev EXCEPT ![h.next[c]] = h.prev[c]]
      <4>2. IF c = h.first THEN IsChain(h.next, pv2, h.next[c], h.last, s1)
            ELSE IsChain(nx2, pv2, h.first, h.last, s1)
        BY <1>2, <2>2, <3>1, UnlinkChain
      <4> HIDE DEF nx2, pv2, s1
      <4>3. IsChain(g.next, g.prev, g.first, g.last, s1)
        <5>1. CASE c = h.first
          BY <4>1, <4>2, <5>1 DEF nx2, pv2
        <5>2. CASE c # h.first
          BY <4>1, <4>2, <5>2 DEF nx2, pv2
        <5> QED
          BY <5>1, <5>2
      <4> QED
        BY <4>1, <4>3
    <3>4. \A m : In(m, s1) <=> In(m, s) /\ m # c
      BY <1>1, <2>2, MembersOfMoved
    <3>5. s1 \in Seq(Nodes)
      BY <1>1, <2>2, RemoveAtIs
    <3>6. u = LinkedLast(g, c, p)
      BY <1>6, <2>7, <3>2 DEF Appended
    <3> HIDE DEF u, s1
    <3>7. /\ IsChain(u.next, u.prev, u.first, u.last, Append(s1, c))
          /\ u.text = g.text /\ u.map = g.map /\ u.place = [g.place EXCEPT ![c] = p]
          /\ u \in HistoryType(P)
      <4>1. ~In(c, s1)
        BY <3>4
      <4>2. RelinkedIs(u, g, s1, c, p, P)
        BY <2>1, <3>3, <3>6, <4>1, Relinked
      <4> QED
        BY <4>2 DEF RelinkedIs
    <3>8. \A m : In(m, Append(s1, c)) <=> In(m, s)
      <4>1. \A m : In(m, Append(s1, c)) <=> In(m, s1) \/ m = c
        BY <2>1, <3>5, MembersOfAppended
      <4> QED
        BY <2>1, <3>4, <4>1
    <3>9. IsList(u, Append(s1, c), P)
      BY <3>3, <3>7, <3>8 DEF IsList
    <3>10. Moved(h, s, i, c, t, p, u, Append(s1, c))
      BY <2>1, <2>2, <2>3, <2>5, <3>3, <3>7 DEF Moved, s1
    <3> QED
      BY <2>1, <2>3, <3>9, <3>10 DEF u
  <2> QED
    BY <2>6, <2>7
<1>7. CASE c = NULL
  <2>1. \A j \in 1..L : h.text[s[j]] # t
    BY <1>1, <1>3, <1>7
  <2>2. CASE L = MaxEntries
    <3> DEFINE n == s[1]
               s1 == RemoveAt(s, 1)
               old == h.text[n]
    <3>1. L > 0 /\ 1 \in 1..(L - 1) /\ n \in Nodes /\ h.first = n /\ 1 \in 1..L /\ 1 \in 0..L
      BY <1>1, <1>3, <1>5, <2>2
    <3>2. old \in Texts /\ h.map[old] = n /\ h.prev[n] = NULL
      <4>1. h.prev[n] = NULL
        BY <1>2, <3>1 DEF IsChain
      <4> QED
        BY <1>1, <3>1, <4>1
    <3>3. PICK g : g = Recycled(h)
      OBVIOUS
    <3>4. /\ g.next = h.next /\ g.prev = [h.prev EXCEPT ![h.next[n]] = NULL]
          /\ g.first = h.next[n] /\ g.last = h.last /\ g.text = h.text /\ g.place = h.place
          /\ g.map = [h.map EXCEPT ![old] = NULL] /\ g \in HistoryType(P)
      BY <1>2, <3>1, <3>2, <3>3, RecycledFields
    <3>5. IsChain(h.next, [h.prev EXCEPT ![h.next[n]] = h.prev[n]], h.next[n], h.last, s1)
      BY <1>2, <3>1, UnlinkChain
    <3>6. \A m : In(m, s1) <=> In(m, s) /\ m # n
      BY <1>1, <3>1, MembersOfMoved
    <3>7. u = LinkedLast(Named(g, n, t), n, p)
      BY <1>4, <1>7, <2>2, <3>1, <3>3 DEF Appended
    <3>8. In(n, s)
      BY <3>1 DEF In
    <3> HIDE DEF u, s1, n, old
    <3>9. IsChain(g.next, g.prev, g.first, g.last, s1)
      BY <3>2, <3>4, <3>5
    <3>10. /\ g.map[old] = NULL /\ \A x \in Texts : x # old => g.map[x] = h.map[x]
      BY <1>2, <3>2, <3>4
    <3>11. IsListBut(g, s1, n, P)
      <4>1. ASSUME NEW m \in Nodes, In(m, s1) PROVE g.text[m] \in Texts /\ g.map[g.text[m]] = m
        <5>1. h.text[m] \in Texts /\ h.map[h.text[m]] = m /\ m # n
          BY <3>6, <4>1 DEF IsList
        <5> QED
          BY <3>2, <3>4, <3>10, <5>1
      <4>2. ASSUME NEW x \in Texts, g.map[x] # NULL PROVE g.text[g.map[x]] = x /\ In(g.map[x], s1)
        <5>1. x # old /\ g.map[x] = h.map[x]
          BY <3>10, <4>2
        <5>2. h.text[h.map[x]] = x /\ In(h.map[x], s)
          BY <4>2, <5>1 DEF IsList
        <5>3. h.map[x] # n
          BY <5>1, <5>2 DEF old
        <5> QED
          BY <3>4, <3>6, <5>1, <5>2, <5>3
      <4>3. ASSUME NEW m \in Nodes, m # n, ~In(m, s1) PROVE g.text[m] = NoText
        BY <3>4, <3>6, <4>3 DEF IsList
      <4> QED
        BY <3>4, <3>6, <3>9, <4>1, <4>2, <4>3 DEF IsListBut
    <3>12. g.map[t] = NULL
      BY <1>7, <3>10
    <3>13. /\ IsList(u, Append(s1, n), P)
           /\ u.text = [g.text EXCEPT ![n] = t] /\ u.place = [g.place EXCEPT ![n] = p]
      BY <3>1, <3>7, <3>11, <3>12, NewEntry
    <3>14. Moved(h, s, 1, n, t, p, u, Append(s1, n))
      BY <3>1, <3>4, <3>13 DEF Moved, n, s1
    <3>15. WasChosen(h, s, 1, t)
      BY <2>1, <2>2 DEF WasChosen
    <3> QED
      BY <3>1, <3>13, <3>14, <3>15 DEF u
  <2>3. CASE L # MaxEntries
    <3> DEFINE n == CHOOSE m \in Nodes : h.text[m] = NoText
    <3>1. L < MaxEntries
      BY <1>1, <1>3, <2>3
    <3>2. \E m \in Nodes : h.text[m] = NoText
      <4>1. PICK m \in Nodes : \A j \in 1..L : s[j] # m
        BY <1>1, <3>1, ChainFits
      <4>2. ~In(m, s)
        BY <4>1 DEF In
      <4> QED
        BY <4>2 DEF IsList
    <3>3. n \in Nodes /\ h.text[n] = NoText
      BY <3>2
    <3>4. u = LinkedLast(Named(h, n, t), n, p)
      BY <1>4, <1>7, <2>3 DEF Appended
    <3> HIDE DEF u, n
    <3>5. ~In(n, s)
      BY <3>3, HistoryAssumption DEF IsList
    <3>6. IsListBut(h, s, n, P)
      BY <3>5 DEF IsList, IsListBut
    <3>7. /\ IsList(u, Append(s, n), P)
          /\ u.text = [h.text EXCEPT ![n] = t] /\ u.place = [h.place EXCEPT ![n] = p]
      BY <1>7, <3>3, <3>4, <3>6, NewEntry
    <3>8. Moved(h, s, 0, n, t, p, u, Append(s, n))
      BY <1>1, <3>1, <3>3, <3>5, <3>7 DEF Moved
    <3>9. WasChosen(h, s, 0, t) /\ 0 \in 0..L
      BY <1>1, <2>1, <2>3 DEF WasChosen
    <3> QED
      BY <3>3, <3>7, <3>8, <3>9 DEF u
  <2> QED
    BY <2>2, <2>3
<1> QED
  BY <1>6, <1>7
-----------------------------------------------------------------------------
(* Histories: the entries of a list *)

IsEntries(e, h, s) ==
  /\ DOMAIN e = 1..Len(s) /\ Len(e) = Len(s)
  /\ \A i \in 1..Len(s) : e[i] = <<h.text[s[i]], h.place[s[i]]>>

LEMMA EntriesOf ==
  ASSUME NEW P, NEW h, NEW s, IsList(h, s, P)
  PROVE  /\ Entries(h) \in Seq(Texts \X P) /\ IsEntries(Entries(h), h, s)
         /\ \A i, j \in 1..Len(s) : Entries(h)[i][1] = Entries(h)[j][1] => i = j
<1> DEFINE e == [i \in 1..Len(s) |-> <<h.text[s[i]], h.place[s[i]]>>]
<1>1. /\ Len(s) \in Nat /\ DOMAIN s = 1..Len(s)
      /\ \A i \in 1..Len(s) : s[i] \in Nodes
      /\ \A i, j \in 1..Len(s) : s[i] = s[j] => i = j
      /\ \A i \in 1..Len(s) : h.text[s[i]] \in Texts /\ h.map[h.text[s[i]]] = s[i]
  BY ListFacts
<1>2. Forward(h) = s
  BY ListWalks
<1>3. Entries(h) = e
  BY <1>1, <1>2 DEF Entries
<1>4. \A i \in 1..Len(s) : h.place[s[i]] \in P
  BY <1>1 DEF IsList, HistoryType
<1>5. e \in [1..Len(s) -> Texts \X P]
  BY <1>1, <1>4
<1>6. \A i \in 1..Len(s) : e[i] = <<h.text[s[i]], h.place[s[i]]>>
  OBVIOUS
<1> HIDE DEF e
<1>7. e \in Seq(Texts \X P) /\ Len(e) = Len(s) /\ DOMAIN e = 1..Len(s)
  BY <1>1, <1>5
<1>8. ASSUME NEW i \in 1..Len(s), NEW j \in 1..Len(s), e[i][1] = e[j][1] PROVE i = j
  <2>1. h.text[s[i]] = h.text[s[j]]
    BY <1>6, <1>8
  <2>2. s[i] = s[j]
    BY <1>1, <2>1
  <2> QED
    BY <1>1, <2>2
<1> QED
  BY <1>3, <1>6, <1>7, <1>8 DEF IsEntries

\* The entry i, if it is not 0, leaves the sequence, and l comes last.
Follow(a, b, i, l) == b = Append(IF i = 0 THEN a ELSE RemoveAt(a, i), l)

\* The entries follow the list: what was appended is at the end.
LEMMA EntriesMoved ==
  ASSUME NEW P, NEW h, NEW s, NEW u, NEW s2, NEW i, NEW n, NEW t \in Texts, NEW p \in P,
         IsList(h, s, P), IsList(u, s2, P), Moved(h, s, i, n, t, p, u, s2)
  PROVE  Follow(Entries(h), Entries(u), i, <<t, p>>)
<1> DEFINE L == Len(s)
           E == Texts \X P
           a == Entries(h)
           b == Entries(u)
           x == IF i = 0 THEN a ELSE RemoveAt(a, i)
           y == IF i = 0 THEN s ELSE RemoveAt(s, i)
           l == <<t, p>>
<1>1. /\ s \in Seq(Nodes) /\ L \in Nat /\ i \in 0..L /\ n \in Nodes
      /\ \A j \in 1..L : s[j] \in Nodes
      /\ \A j, k \in 1..L : s[j] = s[k] => j = k
  BY ListFacts DEF Moved
<1>2. /\ a \in Seq(E) /\ Len(a) = L /\ \A j \in 1..L : a[j] = <<h.text[s[j]], h.place[s[j]]>>
  <2>1. Entries(h) \in Seq(Texts \X P) /\ IsEntries(Entries(h), h, s)
    BY EntriesOf
  <2> QED
    BY <2>1 DEF IsEntries
<1>3. /\ b \in Seq(E) /\ Len(b) = Len(s2)
      /\ \A j \in 1..Len(s2) : b[j] = <<u.text[s2[j]], u.place[s2[j]]>>
  <2>1. Entries(u) \in Seq(Texts \X P) /\ IsEntries(Entries(u), u, s2)
    BY EntriesOf
  <2> QED
    BY <2>1 DEF IsEntries
<1>4. /\ i = 0 => ~In(n, s) /\ s2 = Append(y, n)
      /\ i > 0 => n = s[i] /\ s2 = Append(y, n)
      /\ u.text = [h.text EXCEPT ![n] = t] /\ u.place = [h.place EXCEPT ![n] = p]
  BY DEF Moved
<1>5. /\ h.text \in [Nodes -> Texts \cup {NoText}] /\ h.place \in [Nodes -> P]
  BY DEF IsList, HistoryType
<1>6. /\ u.text[n] = t /\ u.place[n] = p
      /\ \A m \in Nodes : m # n => u.text[m] = h.text[m] /\ u.place[m] = h.place[m]
  BY <1>1, <1>4, <1>5
<1>7. l \in E
  OBVIOUS
<1> HIDE DEF L, E, a, b
<1>8. PICK k \in Nat :
        /\ x \in Seq(E) /\ Len(x) = k /\ y \in Seq(Nodes) /\ Len(y) = k
        /\ \A j \in 1..k : \E q \in 1..L : q # i /\ x[j] = a[q] /\ y[j] = s[q]
  <2>1. CASE i = 0
    <3>1. x = a /\ y = s
      BY <2>1
    <3>2. \A j \in 1..L : j # i
      BY <2>1
    <3> QED
      BY <1>1, <1>2, <3>1, <3>2 DEF L
  <2>2. CASE i # 0
    <3>1. x = RemoveAt(a, i) /\ y = RemoveAt(s, i) /\ i \in 1..L
      BY <1>1, <2>2
    <3>2. /\ x \in Seq(E) /\ Len(x) = L - 1
          /\ \A j \in 1..(L - 1) : x[j] = IF j < i THEN a[j] ELSE a[j + 1]
      BY <1>2, <3>1, RemoveAtIs
    <3>3. /\ y \in Seq(Nodes) /\ Len(y) = L - 1
          /\ \A j \in 1..(L - 1) : y[j] = IF j < i THEN s[j] ELSE s[j + 1]
      BY <1>1, <3>1, RemoveAtIs DEF L
    <3>4. ASSUME NEW j \in 1..(L - 1)
          PROVE  \E q \in 1..L : q # i /\ x[j] = a[q] /\ y[j] = s[q]
      <4>1. j \in 1..L /\ j + 1 \in 1..L
        BY <1>1
      <4>2. CASE j < i
        BY <1>1, <3>2, <3>3, <4>1, <4>2
      <4>3. CASE ~(j < i)
        <5>1. j + 1 # i
          BY <1>1, <4>3
        <5> QED
          BY <3>2, <3>3, <4>1, <4>3, <5>1
      <4> QED
        BY <4>2, <4>3
    <3>5. L - 1 \in Nat
      BY <1>1, <3>1
    <3> QED
      BY <3>2, <3>3, <3>4, <3>5
  <2> QED
    BY <2>1, <2>2
<1>9. s2 = Append(y, n)
  BY <1>1, <1>4
<1> HIDE DEF x, y, l
<1>10. Len(s2) = k + 1 /\ s2[k + 1] = n /\ \A j \in 1..k : s2[j] = y[j]
  BY <1>1, <1>8, <1>9
<1>11. /\ Append(x, l) \in Seq(E) /\ Len(Append(x, l)) = k + 1 /\ Append(x, l)[k + 1] = l
       /\ \A j \in 1..k : Append(x, l)[j] = x[j]
  BY <1>7, <1>8
<1>12. \A j \in 1..(k + 1) : b[j] = Append(x, l)[j]
  <2> TAKE j \in 1..(k + 1)
  <2>1. CASE j = k + 1
    <3>1. b[j] = <<u.text[n], u.place[n]>>
      BY <1>3, <1>10, <2>1
    <3> QED
      BY <1>6, <1>11, <2>1, <3>1 DEF l
  <2>2. CASE j \in 1..k
    <3>1. PICK q \in 1..L : q # i /\ x[j] = a[q] /\ y[j] = s[q]
      BY <1>8, <2>2
    <3>2. s[q] \in Nodes /\ s[q] # n
      <4>1. CASE i = 0
        BY <1>1, <1>4, <3>1, <4>1 DEF In, L
      <4>2. CASE i > 0
        BY <1>1, <1>4, <3>1, <4>2
      <4> QED
        BY <1>1, <4>1, <4>2
    <3>3. b[j] = <<u.text[s[q]], u.place[s[q]]>>
      BY <1>3, <1>10, <2>2, <3>1
    <3>4. b[j] = a[q]
      BY <1>2, <1>6, <3>2, <3>3
    <3> QED
      BY <1>11, <2>2, <3>1, <3>4
  <2> QED
    BY <1>8, <2>1, <2>2
<1>13. b = Append(x, l)
  BY <1>3, <1>8, <1>10, <1>11, <1>12
<1> QED
  BY <1>13 DEF b, x, a, l, Follow
-----------------------------------------------------------------------------
(* Histories: what is used comes last, and what was saved comes back *)

Distinct(e) == \A i, j \in 1..Len(e) : e[i][1] = e[j][1] => i = j

\* The entry of t, the oldest one of a full sequence, or none
Chosen(a, t, i) ==
  \/ i > 0 /\ a[i][1] = t
  \/ /\ \A j \in 1..Len(a) : a[j][1] # t
     /\ i = IF Len(a) = MaxEntries THEN 1 ELSE 0

\* RecentTexts: what becomes of a when t is used
OthersOf(a, t) ==
  LET places == {j \in DOMAIN a : a[j][1] = t}
  IN IF places = {} THEN a ELSE RemoveAt(a, CHOOSE j \in places : TRUE)
UsedOf(a, t, p) ==
  LET all == Append(OthersOf(a, t), <<t, p>>)
  IN IF Len(all) > MaxEntries THEN Tail(all) ELSE all

\* The oldest one goes when one is appended.
LEMMA TailOfAppended ==
  ASSUME NEW E, NEW a \in Seq(E), Len(a) > 0, NEW l \in E
  PROVE  Tail(Append(a, l)) = Append(RemoveAt(a, 1), l)
<1> DEFINE L == Len(a)
           x == RemoveAt(a, 1)
           all == Append(a, l)
           b == Append(x, l)
<1>1. L \in Nat /\ L > 0 /\ 1 \in 1..L
  OBVIOUS
<1>2. /\ x \in Seq(E) /\ Len(x) = L - 1
      /\ \A j \in 1..(L - 1) : x[j] = IF j < 1 THEN a[j] ELSE a[j + 1]
  BY <1>1, RemoveAtIs
<1>3. /\ all \in Seq(E) /\ all # <<>> /\ Len(all) = L + 1 /\ all[L + 1] = l
      /\ \A j \in 1..L : all[j] = a[j]
  OBVIOUS
<1> HIDE DEF L, x, all
<1>4. Tail(all) \in Seq(E) /\ Len(Tail(all)) = L /\ \A j \in 1..L : Tail(all)[j] = all[j + 1]
  BY <1>1, <1>3
<1>5. b \in Seq(E) /\ Len(b) = L /\ b[L] = l /\ \A j \in 1..(L - 1) : b[j] = x[j]
  BY <1>1, <1>2
<1> HIDE DEF b
<1>6. \A j \in 1..L : b[j] = Tail(all)[j]
  <2> TAKE j \in 1..L
  <2>1. CASE j = L
    BY <1>3, <1>4, <1>5, <2>1
  <2>2. CASE j < L
    <3>1. j \in 1..(L - 1) /\ ~(j < 1) /\ j + 1 \in 1..L
      BY <1>1, <2>2
    <3> QED
      BY <1>2, <1>3, <1>4, <1>5, <3>1
  <2>3. j = L \/ j < L
    BY <1>1
  <2> QED
    BY <2>1, <2>2, <2>3
<1>7. b = Tail(all)
  BY <1>4, <1>5, <1>6
<1> QED
  BY <1>7 DEF b, x, all

\* The entry that is dropped is the one that RecentTexts drops.
LEMMA UsedEntries ==
  ASSUME NEW E, NEW a \in Seq(E), Distinct(a), Len(a) <= MaxEntries,
         NEW t, NEW p, <<t, p>> \in E, NEW i \in 0..Len(a), Chosen(a, t, i),
         NEW b, Follow(a, b, i, <<t, p>>)
  PROVE  /\ b = UsedOf(a, t, p)
         /\ b \in Seq(E) /\ b # <<>> /\ b[Len(b)] = <<t, p>>
<1> DEFINE L == Len(a)
           places == {j \in DOMAIN a : a[j][1] = t}
           others == OthersOf(a, t)
<1>1. /\ L \in Nat /\ L <= MaxEntries /\ MaxEntries \in Nat /\ MaxEntries >= 2 /\ DOMAIN a = 1..L
      /\ i \in 0..L
  BY HistoryAssumption
<1>2. PICK l \in E : l = <<t, p>>
  OBVIOUS
<1>3. b = Append(IF i = 0 THEN a ELSE RemoveAt(a, i), l)
  BY <1>2 DEF Follow
<1>4. UsedOf(a, t, p) = IF Len(Append(others, l)) > MaxEntries THEN Tail(Append(others, l))
                        ELSE Append(others, l)
  BY <1>2 DEF UsedOf
<1>5. i # 0 => /\ i \in 1..L /\ RemoveAt(a, i) \in Seq(E) /\ Len(RemoveAt(a, i)) = L - 1
  <2>1. i # 0 => i \in 1..Len(a)
    BY <1>1
  <2> QED
    BY <2>1, RemoveAtIs
<1>6. b \in Seq(E) /\ b # <<>> /\ b[Len(b)] = l
  <2>1. PICK x \in Seq(E) : b = Append(x, l)
    <3>1. CASE i = 0
      BY <1>3, <3>1
    <3>2. CASE i # 0
      BY <1>3, <1>5, <3>2
    <3> QED
      BY <3>1, <3>2
  <2>2. ASSUME NEW y \in Seq(E)
        PROVE  /\ Append(y, l) \in Seq(E) /\ Append(y, l) # <<>>
               /\ Append(y, l)[Len(Append(y, l))] = l
    <3>1. /\ Append(y, l) \in Seq(E) /\ Len(Append(y, l)) = Len(y) + 1
          /\ Append(y, l)[Len(y) + 1] = l /\ Append(y, l) # <<>>
      BY AppendProperties
    <3> QED
      BY <3>1
  <2> QED
    BY <2>1, <2>2
<1> HIDE DEF L, others, places
<1>7. CASE i > 0 /\ a[i][1] = t
  <2>1. i \in 1..L /\ i # 0
    BY <1>1, <1>7
  <2>2. \A j \in 1..L : a[j][1] = t => j = i
    BY <1>7, <2>1 DEF Distinct, L
  <2>3. i \in places /\ \A j \in places : j = i
    BY <1>1, <1>7, <2>1, <2>2 DEF places
  <2>4. (CHOOSE j \in places : TRUE) = i /\ places # {}
    BY <2>3
  <2>5. others = RemoveAt(a, i)
    BY <2>4 DEF others, OthersOf, places
  <2>6. b = Append(others, l)
    BY <1>3, <2>1, <2>5
  <2>7. Len(Append(others, l)) = L - 1 + 1
    BY <1>5, <2>1, <2>5
  <2>8. ~(Len(Append(others, l)) > MaxEntries)
    BY <1>1, <2>7
  <2> QED
    BY <1>2, <1>4, <1>6, <2>6, <2>8
<1>8. CASE /\ \A j \in 1..L : a[j][1] # t
           /\ i = IF L = MaxEntries THEN 1 ELSE 0
  <2>1. places = {}
    BY <1>1, <1>8 DEF places
  <2>2. others = a
    BY <2>1 DEF others, OthersOf, places
  <2>3. Len(Append(a, l)) = L + 1
    BY DEF L
  <2>4. CASE L = MaxEntries
    <3>1. i = 1 /\ Len(a) > 0 /\ L + 1 > MaxEntries
      BY <1>1, <1>8, <2>4 DEF L
    <3>2. Tail(Append(a, l)) = Append(RemoveAt(a, 1), l)
      BY <3>1, TailOfAppended
    <3>3. b = Append(RemoveAt(a, 1), l)
      BY <1>3, <3>1
    <3> QED
      BY <1>2, <1>4, <1>6, <2>2, <2>3, <3>1, <3>2, <3>3
  <2>5. CASE L # MaxEntries
    <3>1. i = 0 /\ ~(L + 1 > MaxEntries)
      BY <1>1, <1>8, <2>5
    <3>2. b = Append(a, l)
      BY <1>3, <3>1
    <3> QED
      BY <1>2, <1>4, <1>6, <2>2, <2>3, <3>1, <3>2
  <2> QED
    BY <2>4, <2>5
<1> QED
  BY <1>7, <1>8 DEF Chosen, L

FilePlaces == {NULL} \cup {l[2] : l \in FileLines}

\* The lines of a history of texts have no positions and no empty texts.
GoodLines(k) == {l \in Texts \X FilePlaces : k = "text" => l[1] # <<>> /\ l[2] = NULL}

KeptHistories(k) ==
  {h \in HistoryType(FilePlaces) : (\E s : IsList(h, s, FilePlaces)) /\ Entries(h) \in Seq(GoodLines(k))}

LEMMA KeptFacts ==
  ASSUME NEW k, NEW h \in KeptHistories(k)
  PROVE  /\ Entries(h) \in Seq(GoodLines(k)) /\ Distinct(Entries(h))
         /\ Len(Entries(h)) <= MaxEntries /\ ListIsMap(h)
<1>1. PICK s : IsList(h, s, FilePlaces)
  BY DEF KeptHistories
<1>2. Entries(h) \in Seq(GoodLines(k))
  BY DEF KeptHistories
<1>3. IsEntries(Entries(h), h, s) /\ \A i, j \in 1..Len(s) : Entries(h)[i][1] = Entries(h)[j][1] => i = j
  BY <1>1, EntriesOf
<1>4. Len(s) <= MaxEntries
  BY <1>1, ListFacts
<1>5. ListIsMap(h)
  BY <1>1, ListWalks
<1> QED
  BY <1>2, <1>3, <1>4, <1>5 DEF IsEntries, Distinct

LEMMA EmptyIsKept ==
  ASSUME NEW k
  PROVE  EmptyHistory \in KeptHistories(k) /\ Entries(EmptyHistory) = <<>>
<1>1. NULL \in FilePlaces
  BY DEF FilePlaces
<1>2. IsList(EmptyHistory, <<>>, FilePlaces)
  BY <1>1, EmptyIsList
<1>3. Entries(EmptyHistory) \in Seq(Texts \X FilePlaces) /\ IsEntries(Entries(EmptyHistory), EmptyHistory, <<>>)
  BY <1>2, EntriesOf
<1>4. Len(Entries(EmptyHistory)) = 0
  <2>1. Len(<<>>) = 0
    OBVIOUS
  <2> QED
    BY <1>3, <2>1 DEF IsEntries
<1>5. Entries(EmptyHistory) = <<>>
  BY <1>3, <1>4
<1>6. EmptyHistory \in HistoryType(FilePlaces)
  BY <1>2 DEF IsList
<1>7. <<>> \in Seq(GoodLines(k))
  OBVIOUS
<1> QED
  BY <1>2, <1>5, <1>6, <1>7 DEF KeptHistories

\* What an append does to the entries, and what it would do to them as texts
\* that were used
AppendedTo(a, b, t, p) ==
  \E i \in 0..Len(a) : Chosen(a, t, i) /\ Follow(a, b, i, <<t, p>>)

LEMMA AppendedIsKept ==
  ASSUME NEW k, NEW h \in KeptHistories(k), NEW t, NEW p, <<t, p>> \in GoodLines(k)
  PROVE  /\ Appended(h, t, p) \in KeptHistories(k)
         /\ AppendedTo(Entries(h), Entries(Appended(h, t, p)), t, p)
<1>1. PICK s : IsList(h, s, FilePlaces)
  BY DEF KeptHistories
<1>2. t \in Texts /\ p \in FilePlaces
  BY DEF GoodLines
<1>3. PICK u : u = Appended(h, t, p)
  OBVIOUS
<1>4. PICK i, n, s2 :
        IsList(u, s2, FilePlaces) /\ Moved(h, s, i, n, t, p, u, s2) /\ WasChosen(h, s, i, t)
  BY <1>1, <1>2, <1>3, AppendedIsList
<1>5. PICK a : a = Entries(h)
  OBVIOUS
<1>6. Follow(a, Entries(u), i, <<t, p>>)
  BY <1>1, <1>2, <1>4, <1>5, EntriesMoved
<1>7. a \in Seq(GoodLines(k)) /\ Distinct(a) /\ Len(a) <= MaxEntries
  BY <1>5, KeptFacts
<1>8. Len(a) = Len(s) /\ \A j \in 1..Len(s) : a[j][1] = h.text[s[j]]
  <2>1. IsEntries(a, h, s)
    BY <1>1, <1>5, EntriesOf
  <2> QED
    BY <2>1 DEF IsEntries
<1>9. Len(s) \in Nat /\ i \in 0..Len(s)
  BY <1>1, <1>4, ListFacts DEF Moved
<1>10. i \in 0..Len(a) /\ Chosen(a, t, i)
  <2>1. CASE i > 0 /\ h.text[s[i]] = t
    <3>1. i \in 1..Len(s)
      BY <1>9, <2>1
    <3>2. a[i][1] = t
      BY <1>8, <2>1, <3>1
    <3> QED
      BY <1>8, <1>9, <2>1, <3>2 DEF Chosen
  <2>2. CASE /\ \A j \in 1..Len(s) : h.text[s[j]] # t
             /\ i = IF Len(s) = MaxEntries THEN 1 ELSE 0
    <3>1. \A j \in 1..Len(a) : a[j][1] # t
      BY <1>8, <2>2
    <3> QED
      BY <1>8, <1>9, <2>2, <3>1 DEF Chosen
  <2> QED
    BY <1>4, <2>1, <2>2 DEF WasChosen
<1>11. AppendedTo(a, Entries(u), t, p)
  BY <1>6, <1>10 DEF AppendedTo
<1>12. Entries(u) \in Seq(GoodLines(k))
  BY <1>6, <1>7, <1>10, UsedEntries
<1>13. u \in KeptHistories(k)
  BY <1>4, <1>12 DEF KeptHistories, IsList
<1> QED
  BY <1>3, <1>5, <1>11, <1>13
\* What AppendLine does with a line that a history may have
LEMMA AppendLineIsKept ==
  ASSUME NEW h \in KeptHistories(kind), kind \in {"text", "file"}, NEW l \in HistoryLines
  PROVE  /\ AppendLine(h, l) \in KeptHistories(kind)
         /\ \/ AppendLine(h, l) = h
            \/ \E t, p : /\ <<t, p>> \in GoodLines(kind)
                         /\ AppendedTo(Entries(h), Entries(AppendLine(h, l)), t, p)
<1>1. CASE kind = "file"
  <2>1. l \in FileLines /\ l = <<l[1], l[2]>> /\ l[1] \in Texts /\ l[2] \in FilePlaces
    BY <1>1, FileLinesAssumption DEF HistoryLines, FilePlaces
  <2>2. <<l[1], l[2]>> \in GoodLines(kind)
    BY <1>1, <2>1 DEF GoodLines
  <2>3. AppendLine(h, l) = Appended(h, l[1], l[2])
    BY <1>1 DEF AppendLine, FileHistoryAppend
  <2> QED
    BY <2>2, <2>3, AppendedIsKept
<1>2. CASE kind = "text"
  <2>1. l \in Texts \X {NULL}
    BY <1>2 DEF HistoryLines
  <2>2. PICK t \in Texts : l = <<t, NULL>>
    BY <2>1
  <2>3. AppendLine(h, l) = IF t = <<>> THEN h ELSE Appended(h, t, NULL)
    BY <1>2, <2>2 DEF AppendLine, HistoryAppend
  <2>4. CASE t = <<>>
    BY <2>3, <2>4
  <2>5. CASE t # <<>>
    <3>1. <<t, NULL>> \in GoodLines(kind)
      BY <2>5 DEF GoodLines, FilePlaces
    <3>2. AppendLine(h, l) = Appended(h, t, NULL)
      BY <2>3, <2>5
    <3> QED
      BY <3>1, <3>2, AppendedIsKept
  <2> QED
    BY <2>4, <2>5
<1> QED
  BY <1>1, <1>2

-----------------------------------------------------------------------------
(* Histories: a file is loaded *)

PartLine == <<Part, NULL>>

\* The lines of a file: those that were written whole, and a part of one
IsStored(w, lines, k) ==
  /\ w \in Seq(GoodLines(k)) /\ Distinct(w) /\ Len(w) <= MaxEntries
  /\ lines = w \/ lines = Append(w, PartLine)

\* A line that may be in a file
LEMMA LoadLineIsKept ==
  ASSUME NEW h \in KeptHistories(kind), kind \in {"text", "file"},
         NEW l \in GoodLines(kind) \cup {PartLine}
  PROVE  /\ LoadLine(h, l) \in KeptHistories(kind)
         /\ l = PartLine => LoadLine(h, l) = h
         /\ l # PartLine => AppendedTo(Entries(h), Entries(LoadLine(h, l)), l[1], l[2])
<1>1. CASE l = PartLine
  <2>1. LoadLine(h, l) = h
    BY <1>1 DEF LoadLine, PartLine
  <2> QED
    BY <1>1, <2>1
<1>2. CASE l # PartLine
  <2>1. l \in GoodLines(kind) /\ l = <<l[1], l[2]>> /\ l[1] \in Texts
    BY <1>2 DEF GoodLines
  <2>2. l[1] # Part
    BY <2>1, PartAssumption
  <2>3. LoadLine(h, l) = AppendLine(h, l)
    BY <2>2 DEF LoadLine
  <2>4. kind = "text" => l[1] # <<>> /\ l[2] = NULL
    BY <2>1 DEF GoodLines
  <2>5. AppendLine(h, l) = Appended(h, l[1], l[2])
    BY <2>4 DEF AppendLine, HistoryAppend, FileHistoryAppend
  <2> QED
    BY <1>2, <2>1, <2>3, <2>5, AppendedIsKept
<1> QED
  BY <1>1, <1>2

\* Loading the lines of a file that was written by the editor gives the lines
\* that are whole.
LEMMA LoadedIsStored ==
  ASSUME kind \in {"text", "file"}, NEW w, NEW lines, IsStored(w, lines, kind)
  PROVE  /\ FoldLeft(LoadLine, EmptyHistory, lines) \in KeptHistories(kind)
         /\ Entries(FoldLeft(LoadLine, EmptyHistory, lines)) = w
<1> DEFINE T == KeptHistories(kind)
           E == GoodLines(kind) \cup {PartLine}
           F == [p \in T \X E |-> LoadLine(p[1], p[2])]
           it == CHOOSE g : g = [s \in SUBSET DOMAIN lines |->
                   IF s = {} THEN EmptyHistory ELSE LoadLine(g[s \ {Max(s)}], lines[Max(s)])]
           Follows(g) == g = [s \in SUBSET DOMAIN lines |->
                   IF s = {} THEN EmptyHistory ELSE LoadLine(g[s \ {Max(s)}], lines[Max(s)])]
           L == Len(lines)
           W == Len(w)
<1>0. /\ w \in Seq(GoodLines(kind)) /\ Distinct(w) /\ W \in Nat /\ W <= MaxEntries
      /\ \A j \in 1..W : w[j] \in GoodLines(kind)
  BY DEF IsStored
<1>1. /\ lines \in Seq(E) /\ DOMAIN lines = 1..L /\ L \in Nat /\ W <= L
      /\ \A j \in 1..L : lines[j] \in E
      /\ \A j \in 1..W : lines[j] = w[j]
      /\ \A j \in 1..L : j > W => lines[j] = PartLine
  <2> HIDE DEF E
  <2>1. w \in Seq(E) /\ PartLine \in E
    BY <1>0 DEF E
  <2>2. CASE lines = w
    BY <1>0, <2>1, <2>2
  <2>3. CASE lines = Append(w, PartLine)
    <3>1. /\ lines \in Seq(E) /\ L = W + 1 /\ lines[W + 1] = PartLine
          /\ \A j \in 1..W : lines[j] = w[j]
      BY <2>1, <2>3, AppendProperties
    <3>2. /\ DOMAIN lines = 1..L /\ \A j \in 1..L : lines[j] \in E
      BY <3>1
    <3>3. \A j \in 1..L : j > W => j = W + 1
      BY <1>0, <3>1
    <3>4. L \in Nat /\ W <= L
      BY <1>0, <3>1
    <3> QED
      BY <3>1, <3>2, <3>3, <3>4
  <2> QED
    BY <2>2, <2>3 DEF IsStored
<1>2. FoldLeft(LoadLine, EmptyHistory, lines) = it[DOMAIN lines]
  BY DEF FoldLeft, MapThenFoldSet
<1>3. /\ F \in [T \X E -> T] /\ EmptyHistory \in T
      /\ \A x \in T, y \in E : F[<<x, y>>] = LoadLine(x, y)
  BY LoadLineIsKept, EmptyIsKept
<1> HIDE DEF F, T, E
<1>4. \E g : Follows(g)
  <2>1. PICK g \in [SUBSET DOMAIN lines -> T] : IsIter(g, F, EmptyHistory, lines)
    BY <1>1, <1>3, IterExists
  <2>2. ASSUME NEW s \in SUBSET DOMAIN lines, s # {}
        PROVE  F[<<g[s \ {Max(s)}], lines[Max(s)]>>] = LoadLine(g[s \ {Max(s)}], lines[Max(s)])
    <3>1. Max(s) \in DOMAIN lines
      BY <1>1, <2>2, LastIndex
    <3>2. lines[Max(s)] \in E /\ g[s \ {Max(s)}] \in T
      BY <1>1, <3>1
    <3> QED
      BY <1>3, <3>2
  <2> QED
    BY <2>1, <2>2 DEF IsIter
<1>5. Follows(it)
  BY <1>4
<1>6. it[{}] = EmptyHistory
  BY <1>5
<1>7. ASSUME NEW k \in 1..Len(lines), it[1..(k - 1)] \in T
      PROVE  it[1..k] = F[<<it[1..(k - 1)], lines[k]>>]
  <2>1. 1..k \in SUBSET DOMAIN lines /\ 1..k # {} /\ k \in Nat /\ k > 0 /\ lines[k] \in E
    <3>1. k \in Nat /\ k > 0 /\ k \in 1..k /\ 1..k \subseteq 1..L
      BY <1>1
    <3>2. lines[k] \in E
      BY <1>1
    <3> QED
      BY <1>1, <3>1, <3>2
  <2>2. Max(1..k) = k /\ (1..k) \ {k} = 1..(k - 1)
    BY <2>1, MaxOfInterval
  <2>3. it[1..k] = LoadLine(it[1..(k - 1)], lines[k])
    BY <1>5, <2>1, <2>2
  <2> QED
    BY <1>3, <1>7, <2>1, <2>3
<1>8. IterFollows(it, T, F, EmptyHistory, lines)
  BY <1>6, <1>7 DEF IterFollows
<1> HIDE DEF it
<1>9. PICK r \in [0..Len(lines) -> T] : IsRun(r, F, EmptyHistory, lines)
  BY <1>1, <1>3, RunExists
<1>10. it[DOMAIN lines] = r[L]
  BY <1>1, <1>8, <1>9, IterIsRun
<1>11. /\ r[0] = EmptyHistory /\ \A j \in 0..L : r[j] \in T
       /\ \A j \in 1..L : r[j - 1] \in T /\ r[j] = LoadLine(r[j - 1], lines[j])
  <2>1. r[0] = EmptyHistory /\ \A j \in 0..L : r[j] \in T
    BY <1>9 DEF IsRun
  <2>2. ASSUME NEW j \in 1..L PROVE r[j - 1] \in T /\ r[j] = LoadLine(r[j - 1], lines[j])
    <3>1. j - 1 \in 0..L /\ lines[j] \in E
      BY <1>1
    <3>2. r[j] = F[<<r[j - 1], lines[j]>>]
      BY <1>9 DEF IsRun
    <3> QED
      BY <1>3, <2>1, <3>1, <3>2
  <2> QED
    BY <2>1, <2>2
<1> HIDE DEF L, W
<1> DEFINE Least(j) == IF j <= W THEN j ELSE W
           Loads(j) == /\ Len(Entries(r[j])) = Least(j)
                       /\ \A q \in 1..Least(j) : Entries(r[j])[q] = w[q]
           Bad == {j \in 0..L : ~Loads(j)}
<1>12. Bad = {}
  <2> SUFFICES ASSUME Bad # {} PROVE FALSE
    OBVIOUS
  <2>1. PICK m \in Bad : \A j \in Bad : m <= j
    <3>1. Bad \in SUBSET Nat
      BY <1>1
    <3> QED
      BY <3>1, LeastNumber
  <2>2. m \in 0..L /\ ~Loads(m)
    BY <2>1
  <2>3. CASE m = 0
    <3>1. Entries(r[0]) = <<>> /\ Len(<<>>) = 0 /\ Least(0) = 0 /\ 1..0 = {}
      BY <1>0, <1>11, EmptyIsKept
    <3>2. Loads(0)
      BY <3>1
    <3> QED
      BY <2>2, <2>3, <3>2
  <2>4. CASE m > 0
    <3>1. m - 1 \in 0..L /\ m \in 1..L /\ ~(m <= m - 1)
      BY <1>1, <2>2, <2>4
    <3>2. Loads(m - 1)
      BY <2>1, <3>1
    <3> HIDE DEF Loads, Bad
    <3>3. PICK e : e = Entries(r[m - 1])
      OBVIOUS
    <3>4. e \in Seq(GoodLines(kind)) /\ Len(e) = Least(m - 1) /\ \A q \in 1..Least(m - 1) : e[q] = w[q]
      <4>1. e \in Seq(GoodLines(kind))
        BY <1>11, <3>1, <3>3, KeptFacts DEF T
      <4> QED
        BY <3>2, <3>3, <4>1 DEF Loads
    <3>5. r[m - 1] \in T /\ r[m] = LoadLine(r[m - 1], lines[m]) /\ lines[m] \in E
      BY <1>1, <1>11, <3>1
    <3>6. CASE m > W
      <4>1. lines[m] = PartLine
        BY <1>1, <3>1, <3>6
      <4>2. r[m] = r[m - 1]
        BY <3>5, <4>1, LoadLineIsKept DEF T, E
      <4>3. Least(m) = W /\ Least(m - 1) = W
        BY <1>0, <3>1, <3>6
      <4> HIDE DEF Least
      <4>4. Loads(m)
        BY <3>2, <4>2, <4>3 DEF Loads
      <4> QED
        BY <2>2, <4>4
    <3>7. CASE m <= W
      <4>1. m \in 1..W /\ Least(m) = m /\ Least(m - 1) = m - 1 /\ m - 1 < MaxEntries
        BY <1>0, <3>1, <3>7, HistoryAssumption
      <4>2. PICK l \in GoodLines(kind) : l = w[m] /\ l = lines[m]
        BY <1>0, <1>1, <4>1
      <4>3. l # PartLine /\ l = <<l[1], l[2]>>
        BY <4>2, PartAssumption DEF GoodLines, PartLine
      <4>4. AppendedTo(e, Entries(r[m]), l[1], l[2])
        BY <3>3, <3>5, <4>2, <4>3, LoadLineIsKept DEF T, E
      <4>5. PICK i \in 0..Len(e) : Chosen(e, l[1], i) /\ Follow(e, Entries(r[m]), i, l)
        BY <4>3, <4>4 DEF AppendedTo
      <4>6. ASSUME NEW q \in 1..(m - 1) PROVE e[q][1] # l[1]
        <5>1. q \in 1..W /\ q # m
          BY <1>0, <4>1
        <5>2. e[q] = w[q]
          BY <3>4, <4>1
        <5> QED
          BY <1>0, <4>1, <4>2, <5>1, <5>2 DEF Distinct, W
      <4>7. i = 0
        <5>1. CASE i > 0 /\ e[i][1] = l[1]
          <6>1. i \in 1..(m - 1)
            BY <3>4, <4>1, <5>1
          <6> QED
            BY <4>6, <5>1, <6>1
        <5>2. CASE i = IF Len(e) = MaxEntries THEN 1 ELSE 0
          BY <3>4, <4>1, <5>2
        <5> QED
          BY <4>5, <5>1, <5>2 DEF Chosen
      <4>8. Entries(r[m]) = Append(e, l)
        BY <4>5, <4>7 DEF Follow
      <4> HIDE DEF Least
      <4>9. Len(e) = m - 1 /\ \A q \in 1..(m - 1) : e[q] = w[q]
        BY <3>4, <4>1
      <4>10. /\ Len(Append(e, l)) = m - 1 + 1 /\ Append(e, l)[m - 1 + 1] = l
             /\ \A q \in 1..(m - 1) : Append(e, l)[q] = e[q]
        BY <3>4, <4>9, AppendProperties
      <4>11. m - 1 + 1 = m /\ \A q \in 1..m : q \in 1..(m - 1) \/ q = m
        BY <4>1
      <4>12. Loads(m)
        <5>1. Len(Entries(r[m])) = Least(m)
          BY <4>1, <4>8, <4>10, <4>11
        <5>2. ASSUME NEW q \in 1..m PROVE Entries(r[m])[q] = w[q]
          <6>1. CASE q = m
            BY <4>2, <4>8, <4>10, <4>11, <6>1
          <6>2. CASE q \in 1..(m - 1)
            BY <4>8, <4>9, <4>10, <6>2
          <6> QED
            BY <4>11, <6>1, <6>2
        <5> QED
          BY <4>1, <5>1, <5>2 DEF Loads
      <4> QED
        BY <2>2, <4>12
    <3> QED
      BY <1>0, <3>1, <3>6, <3>7
  <2> QED
    BY <1>1, <2>2, <2>3, <2>4
<1>13. Loads(L)
  BY <1>1, <1>12
<1>14. r[L] \in T /\ Least(L) = W
  BY <1>0, <1>1, <1>11
<1>15. Entries(r[L]) \in Seq(GoodLines(kind))
  BY <1>14, KeptFacts DEF T
<1>16. Entries(r[L]) = w
  BY <1>0, <1>13, <1>14, <1>15 DEF W
<1> QED
  BY <1>2, <1>10, <1>14, <1>16 DEF T
-----------------------------------------------------------------------------
(* Histories: the invariant *)

\* The history is the list of good lines that AppendLine makes, and the file
\* has what such a history had, as far as it was written.
HistInv ==
  /\ kind \in {"text", "file"} /\ hist \in KeptHistories(kind)
  /\ ~runs => hist = EmptyHistory
  /\ \E w : IsStored(w, stored, kind)

LEMMA HistInvInit ==
  HistInit => HistInv
<1> SUFFICES ASSUME HistInit PROVE HistInv
  OBVIOUS
<1>1. kind \in {"text", "file"} /\ hist = EmptyHistory /\ stored = <<>>
  BY DEF HistInit
<1>2. <<>> \in Seq(GoodLines(kind)) /\ Len(<<>>) = 0 /\ 1..0 = {}
  OBVIOUS
<1>3. IsStored(<<>>, <<>>, kind)
  BY <1>2, HistoryAssumption DEF IsStored, Distinct
<1> QED
  BY <1>1, <1>3, EmptyIsKept DEF HistInv

\* The first lines of a file that could not be written to its end
LEMMA PrefixIsStored ==
  ASSUME NEW k, NEW e \in Seq(GoodLines(k)), Distinct(e), Len(e) <= MaxEntries,
         NEW n \in 0..Len(e)
  PROVE  /\ IsStored(SubSeq(e, 1, n), SubSeq(e, 1, n), k)
         /\ IsStored(SubSeq(e, 1, n), Append(SubSeq(e, 1, n), PartLine), k)
<1> DEFINE w == SubSeq(e, 1, n)
<1>1. Len(e) \in Nat /\ n \in Nat /\ n <= Len(e) /\ \A j \in 1..n : e[j] \in GoodLines(k)
  OBVIOUS
<1>2. w \in Seq(GoodLines(k)) /\ Len(w) = n /\ \A j \in 1..n : w[j] = e[j]
  BY <1>1, SubSeqProperties
<1> HIDE DEF w
<1>3. Distinct(w)
  <2> SUFFICES ASSUME NEW i \in 1..n, NEW j \in 1..n, w[i][1] = w[j][1] PROVE i = j
    BY <1>2 DEF Distinct
  <2>1. i \in 1..Len(e) /\ j \in 1..Len(e) /\ e[i][1] = e[j][1]
    BY <1>1, <1>2
  <2> QED
    BY <2>1 DEF Distinct
<1>4. Len(w) <= MaxEntries
  BY <1>1, <1>2, HistoryAssumption
<1> QED
  BY <1>2, <1>3, <1>4 DEF IsStored, w

LEMMA HistInvNext ==
  HistInv /\ [HistNext]_histVars => HistInv'
<1> SUFFICES ASSUME HistInv, [HistNext]_histVars PROVE HistInv'
  OBVIOUS
<1>1. /\ kind \in {"text", "file"} /\ hist \in KeptHistories(kind)
      /\ ~runs => hist = EmptyHistory
  BY DEF HistInv
<1>2. PICK w : IsStored(w, stored, kind)
  BY DEF HistInv
<1>3. CASE LoadHistory
  <2>1. runs' = TRUE /\ kind' = kind /\ stored' = stored
        /\ hist' = FoldLeft(LoadLine, EmptyHistory, stored)
    BY <1>3 DEF LoadHistory
  <2>2. hist' \in KeptHistories(kind)
    BY <1>1, <1>2, <2>1, LoadedIsStored
  <2> QED
    BY <1>1, <1>2, <2>1, <2>2 DEF HistInv
<1>4. CASE LoadFails
  <2>1. runs' = TRUE /\ kind' = kind /\ stored' = stored /\ hist' = hist
    BY <1>4 DEF LoadFails
  <2> QED
    BY <1>1, <1>2, <2>1 DEF HistInv
<1>5. ASSUME NEW l \in HistoryLines, Use(l) PROVE HistInv'
  <2>1. runs /\ hist' = AppendLine(hist, l) /\ kind' = kind /\ runs' = runs /\ stored' = stored
    BY <1>5 DEF Use
  <2>2. hist' \in KeptHistories(kind)
    BY <1>1, <1>5, <2>1, AppendLineIsKept
  <2> QED
    BY <1>1, <1>2, <2>1, <2>2 DEF HistInv
<1>6. ASSUME EditorEnds, NEW v, IsStored(v, stored', kind) PROVE HistInv'
  <2>1. runs' = FALSE /\ kind' = kind /\ hist' = EmptyHistory
    BY <1>6 DEF EditorEnds
  <2>2. hist' \in KeptHistories(kind)
    BY <2>1, EmptyIsKept
  <2> QED
    BY <1>1, <1>6, <2>1, <2>2 DEF HistInv
<1>7. /\ Entries(hist) \in Seq(GoodLines(kind)) /\ Distinct(Entries(hist))
      /\ Len(Entries(hist)) <= MaxEntries
  BY <1>1, KeptFacts
<1>8. CASE Save
  <2>1. EditorEnds /\ stored' = Entries(hist)
    BY <1>8 DEF Save
  <2>2. IsStored(Entries(hist), stored', kind)
    BY <1>7, <2>1 DEF IsStored
  <2> QED
    BY <1>6, <2>1, <2>2
<1>9. CASE Killed
  BY <1>2, <1>6, <1>9 DEF Killed
<1>10. CASE DiesSaving
  <2>1. PICK n \in 0..(Len(Entries(hist)) - 1) :
          stored' \in {SubSeq(Entries(hist), 1, n),
                       Append(SubSeq(Entries(hist), 1, n), <<Part, NULL>>)}
    BY <1>10 DEF DiesSaving
  <2>2. n \in 0..Len(Entries(hist))
    <3>1. Len(Entries(hist)) \in Nat
      BY <1>7
    <3> QED
      BY <3>1
  <2>3. IsStored(SubSeq(Entries(hist), 1, n), stored', kind)
    BY <1>7, <2>1, <2>2, PrefixIsStored DEF PartLine
  <2>4. EditorEnds
    BY <1>10 DEF DiesSaving
  <2> QED
    BY <1>6, <2>3, <2>4
<1>11. CASE UNCHANGED histVars
  <2>1. kind' = kind /\ runs' = runs /\ hist' = hist /\ stored' = stored
    BY <1>11 DEF histVars
  <2> QED
    BY <1>1, <1>2, <2>1 DEF HistInv
<1> QED
  BY <1>3, <1>4, <1>5, <1>8, <1>9, <1>10, <1>11 DEF HistNext

\* A step of a history is a step of RecentTexts, or none.
LEMMA HistoryIsRecent ==
  HistInv /\ [HistNext]_histVars =>
    [Recent!RecentNext]_(Entries(hist)) /\ ListIsMap(hist')
<1> SUFFICES ASSUME HistInv, [HistNext]_histVars
             PROVE  [Recent!RecentNext]_(Entries(hist)) /\ ListIsMap(hist')
  OBVIOUS
<1>1. /\ kind \in {"text", "file"} /\ hist \in KeptHistories(kind)
      /\ ~runs => hist = EmptyHistory
  BY DEF HistInv
<1>2. PICK w : IsStored(w, stored, kind)
  BY DEF HistInv
<1>3. HistInv'
  BY HistInvNext
<1>4. ListIsMap(hist')
  BY <1>3, KeptFacts DEF HistInv
<1>5. CASE hist' = hist
  BY <1>4, <1>5
<1>6. CASE LoadHistory
  <2>1. ~runs /\ hist' = FoldLeft(LoadLine, EmptyHistory, stored)
    BY <1>6 DEF LoadHistory
  <2>2. Entries(hist) = <<>>
    BY <1>1, <2>1, EmptyIsKept
  <2>3. Entries(hist') = w
    BY <1>1, <1>2, <2>1, LoadedIsStored
  <2>4. w \in Seq(GoodLines(kind)) /\ Distinct(w) /\ Len(w) <= MaxEntries
    BY <1>2 DEF IsStored
  <2>5. DOMAIN w = 1..Len(w)
    BY <2>4
  <2>6. Recent!Recall
    BY <2>2, <2>3, <2>4, <2>5 DEF Recent!Recall, Distinct
  <2> QED
    BY <1>4, <2>6 DEF Recent!RecentNext
<1>7. ASSUME NEW l \in HistoryLines, Use(l)
      PROVE  [Recent!RecentNext]_(Entries(hist))
  <2>1. hist' = AppendLine(hist, l)
    BY <1>7 DEF Use
  <2>2. CASE AppendLine(hist, l) = hist
    BY <2>1, <2>2
  <2>3. ASSUME NEW t, NEW p, <<t, p>> \in GoodLines(kind),
               AppendedTo(Entries(hist), Entries(AppendLine(hist, l)), t, p)
        PROVE  Recent!RecentNext
    <3>1. PICK i \in 0..Len(Entries(hist)) :
            Chosen(Entries(hist), t, i) /\ Follow(Entries(hist), Entries(hist'), i, <<t, p>>)
      BY <2>1, <2>3 DEF AppendedTo
    <3>2. /\ Entries(hist) \in Seq(GoodLines(kind)) /\ Distinct(Entries(hist))
          /\ Len(Entries(hist)) <= MaxEntries
      BY <1>1, KeptFacts
    <3>3. /\ Entries(hist') = UsedOf(Entries(hist), t, p)
          /\ Entries(hist') # <<>> /\ Entries(hist')[Len(Entries(hist'))] = <<t, p>>
      BY <2>3, <3>1, <3>2, UsedEntries
    <3>4. Recent!Others(t) = OthersOf(Entries(hist), t)
      BY DEF Recent!Others, Recent!RemoveAt, OthersOf, RemoveAt
    <3>5. Recent!Used(t, p)
      BY <3>3, <3>4 DEF Recent!Used, UsedOf
    <3>6. <<t, p>>[1] = t /\ <<t, p>>[2] = p
      OBVIOUS
    <3> QED
      BY <3>3, <3>5, <3>6 DEF Recent!RecentNext
  <2> QED
    BY <1>1, <1>7, <2>2, <2>3, AppendLineIsKept
<1>8. CASE EditorEnds
  <2>1. Entries(hist') = <<>>
    BY <1>8, EmptyIsKept DEF EditorEnds
  <2>2. Recent!Forget
    BY <2>1 DEF Recent!Forget
  <2> QED
    BY <1>4, <2>2 DEF Recent!RecentNext
<1>9. LoadFails \/ UNCHANGED histVars => hist' = hist
  BY DEF LoadFails, histVars
<1>10. Save \/ Killed \/ DiesSaving => EditorEnds
  BY DEF Save, Killed, DiesSaving
<1> QED
  BY <1>4, <1>5, <1>6, <1>7, <1>8, <1>9, <1>10 DEF HistNext

\* What was written to its end comes back.
LEMMA SavedComesBack ==
  HistInv /\ [HistNext]_histVars =>
    (LoadHistory /\ Whole(stored) => Entries(hist') = stored)
<1> SUFFICES ASSUME HistInv, LoadHistory, Whole(stored) PROVE Entries(hist') = stored
  OBVIOUS
<1>1. kind \in {"text", "file"}
  BY DEF HistInv
<1>2. PICK w : IsStored(w, stored, kind)
  BY DEF HistInv
<1>3. Entries(hist') = w
  BY <1>1, <1>2, LoadedIsStored DEF LoadHistory
<1>4. w \in Seq(GoodLines(kind)) /\ (stored = w \/ stored = Append(w, PartLine))
  BY <1>2 DEF IsStored
<1>5. CASE stored = Append(w, PartLine)
  <2>1. Len(w) + 1 \in DOMAIN stored /\ stored[Len(w) + 1] = PartLine
    <3>1. PICK E : E = GoodLines(kind) \cup {PartLine}
      OBVIOUS
    <3>2. w \in Seq(E) /\ PartLine \in E /\ Len(w) \in Nat
      BY <1>4, <3>1
    <3>3. stored \in Seq(E) /\ Len(stored) = Len(w) + 1 /\ stored[Len(w) + 1] = PartLine
      BY <1>5, <3>2, AppendProperties
    <3> QED
      BY <3>2, <3>3
  <2>2. stored[Len(w) + 1][1] = Part
    BY <2>1 DEF PartLine
  <2> QED
    BY <2>1, <2>2 DEF Whole
<1> QED
  BY <1>3, <1>4, <1>5

\* HistoriesAreRecent: the linked list with its map is the history of the texts
\* that were used last, in every step the links in both directions, the map and
\* the count agree, and what an editor wrote to the end the next one loads in
\* the same order (history_append, file_history_append, history_load,
\* history_save).
THEOREM HistoriesAreRecentAlways ==
  HistSpec => HistoriesAreRecent
<1>1. HistInit => HistInv
  BY HistInvInit
<1>2. HistInv /\ [HistNext]_histVars => HistInv'
  BY HistInvNext
<1>3. HistInit => Recent!RecentInit
  <2> SUFFICES ASSUME HistInit PROVE Entries(hist) = <<>>
    BY DEF Recent!RecentInit
  <2> QED
    BY EmptyIsKept DEF HistInit
<1>4. HistInv /\ [HistNext]_histVars => [Recent!RecentNext]_(Entries(hist))
  BY HistoryIsRecent
<1>5. HistInv /\ [HistNext]_histVars => [ListIsMap(hist')]_histVars
  BY HistoryIsRecent
<1>6. HistInv /\ [HistNext]_histVars =>
        [LoadHistory /\ Whole(stored) => Entries(hist') = stored]_histVars
  BY SavedComesBack
<1> QED
  BY <1>1, <1>2, <1>3, <1>4, <1>5, <1>6, PTL
    DEF HistSpec, HistoriesAreRecent, ImplementsRecent, SavedIsLoaded, Recent!RecentSpec
-----------------------------------------------------------------------------
(* CommandLine: the line, as a sequence of characters *)

Alphabet == Chars \cup {" "} \cup UNION {ToSet(t) : t \in Texts \cup {Clip} \cup ToSet(Words)}
Strings == Seq(Alphabet)

LEMMA TextsAreStrings ==
  /\ \A t \in Texts : t \in Strings
  /\ Clip \in Strings
  /\ \A w \in ToSet(Words) : w \in Strings
<1> DEFINE All == Texts \cup {Clip} \cup ToSet(Words)
<1>1. ASSUME NEW t \in All PROVE t \in Strings
  <2>1. t \in Seq(ToSet(t))
    BY LineAssumption
  <2>2. ToSet(t) \subseteq Alphabet
    BY DEF Alphabet
  <2> HIDE DEF All
  <2>3. \A i \in 1..Len(t) : t[i] \in Alphabet
    BY <2>1, <2>2
  <2>4. t \in Seq(Alphabet)
    BY <2>1, <2>3
  <2> QED
    BY <2>4 DEF Strings
<1> QED
  BY <1>1

\* Parts of a string
LEMMA PartOfString ==
  ASSUME NEW b \in Strings, NEW p \in 0..Len(b), NEW q \in p..Len(b)
  PROVE  SubSeq(b, p + 1, q) \in Strings /\ Len(SubSeq(b, p + 1, q)) = q - p
<1>1. b \in Seq(Alphabet) /\ Len(b) \in Nat
  BY DEF Strings
<1>2. p \in Nat /\ q \in Nat /\ p <= q /\ q <= Len(b)
  BY <1>1
<1>3. \A i \in (p + 1)..q : b[i] \in Alphabet
  BY <1>1, <1>2
<1>4. SubSeq(b, p + 1, q) \in Seq(Alphabet) /\ Len(SubSeq(b, p + 1, q)) = IF p + 1 <= q THEN q - (p + 1) + 1 ELSE 0
  BY <1>2, <1>3, SubSeqProperties
<1> QED
  BY <1>2, <1>4 DEF Strings

LEMMA JoinStrings ==
  ASSUME NEW a \in Strings, NEW b \in Strings
  PROVE  a \o b \in Strings /\ Len(a \o b) = Len(a) + Len(b)
BY ConcatProperties DEF Strings

IsLine(l) == l.buf \in Strings /\ l.pos \in 0..Len(l.buf)

LEMMA LineIs ==
  ASSUME NEW b \in Strings, NEW p \in 0..Len(b)
  PROVE  IsLine(Line(b, p))
BY DEF IsLine, Line

LEMMA LineParts ==
  ASSUME IsLine(line)
  PROVE  /\ Len(line.buf) \in Nat /\ line.pos \in Nat /\ line.pos <= Len(line.buf)
         /\ Ahead \in Strings /\ Len(Ahead) = line.pos
         /\ Behind \in Strings /\ Len(Behind) = Len(line.buf) - line.pos
<1>1. line.buf \in Strings /\ line.pos \in 0..Len(line.buf) /\ Len(line.buf) \in Nat
  BY DEF IsLine, Strings
<1>2. SubSeq(line.buf, 0 + 1, line.pos) \in Strings /\ Len(SubSeq(line.buf, 0 + 1, line.pos)) = line.pos - 0
  <2>1. 0 \in 0..Len(line.buf) /\ line.pos \in 0..Len(line.buf)
    BY <1>1
  <2> QED
    BY <1>1, <2>1, PartOfString
<1>3. /\ SubSeq(line.buf, line.pos + 1, Len(line.buf)) \in Strings
      /\ Len(SubSeq(line.buf, line.pos + 1, Len(line.buf))) = Len(line.buf) - line.pos
  <2>1. Len(line.buf) \in line.pos..Len(line.buf)
    BY <1>1
  <2> QED
    BY <1>1, <2>1, PartOfString
<1>4. 0 + 1 = 1 /\ line.pos - 0 = line.pos
  BY <1>1
<1> QED
  BY <1>1, <1>2, <1>3, <1>4 DEF Ahead, Behind

LEMMA CutIs ==
  ASSUME IsLine(line), NEW from \in 0..Len(line.buf), NEW to \in from..Len(line.buf)
  PROVE  Cut(from, to) \in Strings /\ Len(Cut(from, to)) = Len(line.buf) - (to - from)
<1>1. line.buf \in Strings /\ Len(line.buf) \in Nat
  BY DEF IsLine, Strings
<1>2. SubSeq(line.buf, 0 + 1, from) \in Strings /\ Len(SubSeq(line.buf, 0 + 1, from)) = from - 0
  <2>1. 0 \in 0..Len(line.buf) /\ from \in 0..Len(line.buf)
    BY <1>1
  <2> QED
    BY <1>1, <2>1, PartOfString
<1>3. /\ SubSeq(line.buf, to + 1, Len(line.buf)) \in Strings
      /\ Len(SubSeq(line.buf, to + 1, Len(line.buf))) = Len(line.buf) - to
  <2>1. to \in 0..Len(line.buf) /\ Len(line.buf) \in to..Len(line.buf)
    BY <1>1
  <2> QED
    BY <1>1, <2>1, PartOfString
<1>4. 0 + 1 = 1 /\ from - 0 = from
  BY <1>1
<1>5. PICK a : a = SubSeq(line.buf, 1, from)
  OBVIOUS
<1>6. PICK b : b = SubSeq(line.buf, to + 1, Len(line.buf))
  OBVIOUS
<1>7. a \in Strings /\ Len(a) = from /\ b \in Strings /\ Len(b) = Len(line.buf) - to
  BY <1>2, <1>3, <1>4, <1>5, <1>6
<1>8. a \o b \in Strings /\ Len(a \o b) = Len(a) + Len(b)
  BY <1>7, JoinStrings
<1>9. Cut(from, to) = a \o b
  BY <1>5, <1>6 DEF Cut
<1> QED
  BY <1>1, <1>7, <1>8, <1>9

\* Words end and begin in the line.
LEMMA NextWordIs ==
  ASSUME IsLine(line)
  PROVE  NextWord \in line.pos..Len(line.buf)
<1> DEFINE ends == {i \in line.pos..Len(line.buf) :
                      \/ i = Len(line.buf)
                      \/ IsWord(i + 1) /\ i > line.pos /\ ~IsWord(i)}
<1>1. Len(line.buf) \in Nat /\ line.pos \in Nat /\ line.pos <= Len(line.buf)
  BY LineParts
<1>2. Len(line.buf) \in ends /\ ends \in SUBSET Nat
  BY <1>1
<1>3. NextWord = CHOOSE i \in ends : \A j \in ends : i <= j
  BY DEF NextWord
<1>4. \E i \in ends : \A j \in ends : i <= j
  <2> HIDE DEF ends
  <2> QED
    BY <1>2, LeastNumber
<1>5. NextWord \in ends
  BY <1>3, <1>4
<1> QED
  BY <1>5

LEMMA PrevWordIs ==
  ASSUME IsLine(line)
  PROVE  PrevWord \in 0..line.pos
<1> DEFINE starts == {i \in 0..line.pos : IsWord(i + 1) /\ ~IsWord(i) /\ i < line.pos}
           T == {line.pos - i : i \in starts}
<1>1. line.pos \in Nat
  BY LineParts
<1>2. PrevWord = IF starts = {} THEN 0 ELSE CHOOSE i \in starts : \A j \in starts : i >= j
  BY DEF PrevWord
<1>3. CASE starts = {}
  BY <1>1, <1>2, <1>3
<1>4. CASE starts # {}
  <2>1. \A i \in starts : i \in Nat /\ line.pos - i \in Nat
    BY <1>1
  <2> HIDE DEF starts
  <2>2. T \in SUBSET Nat /\ T # {}
    BY <1>4, <2>1
  <2>3. PICK m \in T : \A k \in T : m <= k
    BY <2>2, LeastNumber
  <2>4. PICK i \in starts : m = line.pos - i
    BY <2>3
  <2>5. \A j \in starts : i >= j
    <3> TAKE j \in starts
    <3>1. line.pos - j \in T
      OBVIOUS
    <3>2. line.pos - i <= line.pos - j
      BY <2>3, <2>4, <3>1
    <3> QED
      BY <1>1, <2>1, <3>2
  <2>6. PrevWord \in starts
    BY <1>2, <1>4, <2>5
  <2> QED
    BY <2>6 DEF starts
<1> QED
  BY <1>3, <1>4

-----------------------------------------------------------------------------
(* CommandLine: what is completed *)

LEMMA CandidatesAre ==
  ASSUME NEW word
  PROVE  Candidates(word) \in Seq(Strings)
<1> DEFINE Collect(list, w) == IF HasPrefix(w, word) THEN Append(list, w) ELSE list
           T == Seq(Strings)
           E == ToSet(Words)
           F == [p \in T \X E |-> Collect(p[1], p[2])]
           Follows(g) == g = [s \in SUBSET DOMAIN Words |->
             IF s = {} THEN <<>> ELSE Collect(g[s \ {Max(s)}], Words[Max(s)])]
           it == CHOOSE g : Follows(g)
<1>0. Words \in Seq(E) /\ DOMAIN Words = 1..Len(Words) /\ Len(Words) \in Nat
      /\ \A i \in 1..Len(Words) : Words[i] \in E
  <2>1. Words \in Seq(E)
    BY LineAssumption
  <2> HIDE DEF E
  <2> QED
    BY <2>1
<1>1. Candidates(word) = it[DOMAIN Words]
  BY DEF Candidates, FoldLeft, MapThenFoldSet
<1>2. ASSUME NEW x \in T, NEW w \in E PROVE Collect(x, w) \in T
  <2>1. w \in Strings
    BY TextsAreStrings
  <2>2. Append(x, w) \in T
    BY <2>1, AppendProperties
  <2> QED
    BY <2>2
<1> HIDE DEF Collect
<1>3. /\ F \in [T \X E -> T] /\ <<>> \in T
      /\ \A x \in T, w \in E : F[<<x, w>>] = Collect(x, w)
  BY <1>2
<1> HIDE DEF F, T, E
<1>4. PICK r \in [0..Len(Words) -> T] : IsRun(r, F, <<>>, Words)
  BY <1>0, <1>3, RunExists
<1>5. \E g : Follows(g)
  <2>1. PICK g \in [SUBSET DOMAIN Words -> T] : IsIter(g, F, <<>>, Words)
    BY <1>0, <1>3, IterExists
  <2>2. ASSUME NEW s \in SUBSET DOMAIN Words, s # {}
        PROVE  F[<<g[s \ {Max(s)}], Words[Max(s)]>>] = Collect(g[s \ {Max(s)}], Words[Max(s)])
    <3>1. Max(s) \in DOMAIN Words
      BY <1>0, <2>2, LastIndex
    <3>2. Words[Max(s)] \in E /\ g[s \ {Max(s)}] \in T
      BY <1>0, <3>1
    <3> QED
      BY <1>3, <3>2
  <2> QED
    BY <2>1, <2>2 DEF IsIter
<1>6. Follows(it)
  BY <1>5
<1>7. it[{}] = <<>>
  BY <1>6
<1>8. ASSUME NEW k \in 1..Len(Words), it[1..(k - 1)] \in T
      PROVE  it[1..k] = F[<<it[1..(k - 1)], Words[k]>>]
  <2>1. 1..k \in SUBSET DOMAIN Words /\ 1..k # {} /\ k \in Nat /\ k > 0 /\ Words[k] \in E
    <3>1. k \in Nat /\ k > 0 /\ k \in 1..k /\ 1..k \subseteq 1..Len(Words)
      BY <1>0
    <3>2. Words[k] \in E
      BY <1>0
    <3> QED
      BY <1>0, <3>1, <3>2
  <2>2. Max(1..k) = k /\ (1..k) \ {k} = 1..(k - 1)
    BY <2>1, MaxOfInterval
  <2>3. it[1..k] = Collect(it[1..(k - 1)], Words[k])
    BY <1>6, <2>1, <2>2
  <2> QED
    BY <1>3, <1>8, <2>1, <2>3
<1>9. IterFollows(it, T, F, <<>>, Words)
  BY <1>7, <1>8 DEF IterFollows
<1> HIDE DEF it
<1>10. it[DOMAIN Words] = r[Len(Words)]
  BY <1>0, <1>4, <1>9, IterIsRun
<1>11. it[DOMAIN Words] \in T
  BY <1>0, <1>4, <1>10
<1> QED
  BY <1>1, <1>11 DEF T
-----------------------------------------------------------------------------
(* CommandLine: walking through the history *)

\* What the searches of a history find is in it.
LEMMA MatchIsIn ==
  ASSUME NEW h, NEW walk \in Seq(Nodes), NEW n, NEW prefix,
         n = NULL \/ In(n, walk)
  PROVE  \/ FirstMatch(h, After(walk, n), prefix) = NULL
         \/ /\ FirstMatch(h, After(walk, n), prefix) \in Nodes
            /\ In(FirstMatch(h, After(walk, n), prefix), walk)
<1> DEFINE L == Len(walk)
           rest == After(walk, n)
           hits == {i \in DOMAIN rest : HasPrefix(h.text[rest[i]], prefix)}
           first == CHOOSE i \in hits : \A j \in hits : i <= j
<1>1. L \in Nat /\ DOMAIN walk = 1..L /\ \A i \in 1..L : walk[i] \in Nodes
  OBVIOUS
<1>2. /\ rest \in Seq(Nodes)
      /\ \A i \in DOMAIN rest : \E j \in 1..L : rest[i] = walk[j]
  <2>1. CASE n = NULL
    <3>1. rest = walk
      BY <2>1 DEF After
    <3> QED
      BY <1>1, <3>1
  <2>2. CASE n # NULL
    <3> DEFINE at == CHOOSE i \in DOMAIN walk : walk[i] = n
    <3>1. at \in 1..L
      <4>1. \E i \in DOMAIN walk : walk[i] = n
        BY <1>1, <2>2 DEF In
      <4> QED
        BY <1>1, <4>1
    <3>2. rest = SubSeq(walk, 1 + at, L)
      BY <2>2 DEF After
    <3> HIDE DEF at, rest, L
    <3>3. 1 + at \in Nat /\ 1 + at >= 1 /\ at \in Nat /\ at <= L
      BY <1>1, <3>1
    <3>4. \A i \in (1 + at)..L : walk[i] \in Nodes /\ i \in 1..L
      BY <1>1, <3>3
    <3>5. /\ rest \in Seq(Nodes) /\ Len(rest) = (IF 1 + at <= L THEN L - (1 + at) + 1 ELSE 0)
          /\ \A i \in 1..(L - (1 + at) + 1) : rest[i] = walk[1 + at + i - 1]
      BY <1>1, <3>2, <3>3, <3>4, SubSeqProperties
    <3>6. ASSUME NEW i \in DOMAIN rest PROVE \E j \in 1..L : rest[i] = walk[j]
      <4>1. i \in 1..Len(rest)
        BY <3>5
      <4>2. i \in 1..(L - (1 + at) + 1) /\ 1 + at + i - 1 \in 1..L
        BY <1>1, <3>3, <3>5, <4>1
      <4> QED
        BY <3>5, <4>2
    <3> QED
      BY <3>5, <3>6
  <2> QED
    BY <2>1, <2>2
<1>3. FirstMatch(h, rest, prefix) = IF hits = {} THEN NULL ELSE rest[first]
  BY DEF FirstMatch
<1> HIDE DEF rest
<1>4. CASE hits = {}
  <2> HIDE DEF hits
  <2>1. FirstMatch(h, rest, prefix) = NULL
    BY <1>3, <1>4
  <2> QED
    BY <2>1 DEF rest
<1>5. CASE hits # {}
  <2>1. hits \in SUBSET Nat
    BY <1>2
  <2> HIDE DEF hits
  <2>2. \E i \in hits : \A j \in hits : i <= j
    BY <1>5, <2>1, LeastNumber
  <2>3. first \in hits
    BY <2>2
  <2>4. first \in DOMAIN rest
    BY <2>3 DEF hits
  <2>5. PICK j \in 1..L : rest[first] = walk[j]
    BY <1>2, <2>4
  <2>6. FirstMatch(h, rest, prefix) = walk[j]
    BY <1>3, <1>5, <2>5
  <2> QED
    BY <1>1, <2>5, <2>6 DEF In, rest
<1> QED
  BY <1>4, <1>5

NoPlace == {NULL}

LEMMA MirroredIs ==
  ASSUME NEW s \in Seq(Nodes)
  PROVE  Mirrored(s) \in Seq(Nodes) /\ \A m : In(m, Mirrored(s)) <=> In(m, s)
<1> DEFINE L == Len(s)
           r == Mirrored(s)
<1>1. L \in Nat /\ \A i \in 1..L : s[i] \in Nodes
  OBVIOUS
<1>2. r = [i \in 1..L |-> s[L + 1 - i]]
  BY DEF Mirrored
<1> HIDE DEF L, r
<1>3. \A i \in 1..L : L + 1 - i \in 1..L /\ L + 1 - (L + 1 - i) = i
  BY <1>1
<1>4. r \in [1..L -> Nodes]
  BY <1>1, <1>2, <1>3
<1>5. r \in Seq(Nodes) /\ Len(r) = L
  BY <1>1, <1>4
<1>6. \A i \in 1..L : r[i] = s[L + 1 - i]
  BY <1>2
<1>7. ASSUME NEW m PROVE (\E i \in 1..L : r[i] = m) <=> (\E i \in 1..L : s[i] = m)
  <2>1. ASSUME NEW i \in 1..L, s[i] = m PROVE \E j \in 1..L : r[j] = m
    <3>1. r[L + 1 - i] = s[L + 1 - (L + 1 - i)]
      BY <1>3, <1>6
    <3> QED
      BY <1>3, <2>1, <3>1
  <2> QED
    BY <1>3, <1>6, <2>1
<1> QED
  BY <1>5, <1>7 DEF In, L, r

\* The entries of a history that the command line keeps
LEMMA SearchIsIn ==
  ASSUME NEW h, NEW s, IsList(h, s, NoPlace), NEW n, n = NULL \/ In(n, s), NEW prefix,
         NEW m, m \in {SearchForward(h, n, prefix), SearchBackward(h, n, prefix)}
  PROVE  m = NULL \/ (m \in Nodes /\ In(m, s) /\ h.text[m] \in Strings)
<1>1. Forward(h) = s /\ Backward(h) = Mirrored(s)
  BY ListWalks
<1>2. s \in Seq(Nodes)
  BY ListFacts
<1>3. Mirrored(s) \in Seq(Nodes) /\ \A x : In(x, Mirrored(s)) <=> In(x, s)
  BY <1>2, MirroredIs
<1>4. m = NULL \/ (m \in Nodes /\ In(m, s))
  <2>1. CASE m = SearchForward(h, n, prefix)
    <3>1. m = FirstMatch(h, After(Mirrored(s), n), prefix)
      BY <1>1, <2>1 DEF SearchForward
    <3>2. m = NULL \/ (m \in Nodes /\ In(m, Mirrored(s)))
      BY <1>3, <3>1, MatchIsIn
    <3> QED
      BY <1>3, <3>2
  <2>2. CASE m = SearchBackward(h, n, prefix)
    <3>1. m = FirstMatch(h, After(s, n), prefix)
      BY <1>1, <2>2 DEF SearchBackward
    <3> QED
      BY <1>2, <3>1, MatchIsIn
  <2> QED
    BY <2>1, <2>2
<1>5. CASE m = NULL
  BY <1>5
<1>6. CASE m \in Nodes /\ In(m, s)
  <2>1. h.text[m] \in Texts
    BY <1>6 DEF IsList
  <2>2. h.text[m] \in Strings
    BY <2>1, TextsAreStrings
  <2> QED
    BY <1>6, <2>2
<1> QED
  BY <1>4, <1>5, <1>6

\* A list stays one when a text is remembered.
HasList(h) == \E s : IsList(h, s, NoPlace)

LEMMA RememberedIsList ==
  ASSUME NEW h, HasList(h), NEW t \in Texts \cup {<<>>}
  PROVE  HasList(HistoryAppend(h, t))
<1>1. PICK s : IsList(h, s, NoPlace)
  BY DEF HasList
<1>2. CASE t = <<>>
  BY <1>2 DEF HistoryAppend
<1>3. CASE t # <<>>
  <2>1. t \in Texts /\ NULL \in NoPlace
    BY <1>3 DEF NoPlace
  <2>2. HistoryAppend(h, t) = Appended(h, t, NULL)
    BY <1>3 DEF HistoryAppend
  <2>3. \E s2 : IsList(Appended(h, t, NULL), s2, NoPlace)
    BY <1>1, <2>1, AppendedIsList
  <2> QED
    BY <2>2, <2>3 DEF HasList
<1> QED
  BY <1>2, <1>3

-----------------------------------------------------------------------------
(* CommandLine: the invariant *)

IsCompletion(c) ==
  /\ c \in [orig : Strings, head : Strings, tail : Strings, list : Seq(Strings), idx : Int]
  /\ c.list # <<>> => c.idx \in 1..Len(c.list)

\* The entry of the history that the line stands on
StandsOn(s, n) ==
  /\ inputMode \in {"command", "search"}
  /\ n \in Nodes
  /\ \E q : IsList(histories[inputMode], q, NoPlace) /\ In(n, q)
  /\ histories[inputMode].text[n] \in Strings
  /\ line = Line(histories[inputMode].text[n], Len(histories[inputMode].text[n]))
  /\ s \in [pos : Nodes, text : Strings] /\ s.pos = n

ModeInv == inputMode \in {"normal", "command", "search"}
HistoriesInv ==
  /\ histories \in [{"command", "search"} -> HistoryType(NoPlace)]
  /\ \A m \in {"command", "search"} : HasList(histories[m])
SearchedInv == searched = NoSearch \/ StandsOn(searched, searched.pos)
CompInv ==
  Completing =>
    /\ inputMode = "command" /\ IsCompletion(comp)
    /\ IF comp.list = <<>> THEN line.buf = comp.orig ELSE line = Completed(comp)

LineInv == ModeInv /\ IsLine(line) /\ HistoriesInv /\ SearchedInv /\ CompInv

LEMMA LineInvIsTracked ==
  LineInv => LineIsTracked
<1> SUFFICES ASSUME LineInv PROVE LineIsTracked
  OBVIOUS
<1>1. line.pos \in 0..Len(line.buf)
  BY DEF LineInv, IsLine
<1>2. SearchIsLive
  <2>1. CASE searched = NoSearch
    <3>1. searched.pos = NULL
      BY <2>1 DEF NoSearch
    <3> QED
      BY <3>1 DEF SearchIsLive
  <2>2. CASE StandsOn(searched, searched.pos)
    <3>1. PICK q : IsList(histories[inputMode], q, NoPlace) /\ In(searched.pos, q)
      BY <2>2 DEF StandsOn
    <3>2. Forward(histories[inputMode]) = q /\ DOMAIN q = 1..Len(q)
      BY <3>1, ListWalks, ListFacts
    <3>3. searched.pos \in {Forward(histories[inputMode])[i] : i \in DOMAIN Forward(histories[inputMode])}
      BY <3>1, <3>2 DEF In
    <3>4. Editing
      BY <2>2 DEF StandsOn, Editing
    <3> QED
      BY <2>2, <3>3, <3>4 DEF StandsOn, SearchIsLive
  <2> QED
    BY <2>1, <2>2 DEF LineInv, SearchedInv
<1>3. CompletionIsFresh
  BY DEF LineInv, CompInv, CompletionIsFresh
<1>4. ASSUME NEW m \in {"command", "search"} PROVE ListIsMap(histories[m])
  <2>1. PICK s : IsList(histories[m], s, NoPlace)
    BY DEF LineInv, HistoriesInv, HasList
  <2> QED
    BY <2>1, ListWalks
<1> QED
  BY <1>1, <1>2, <1>3, <1>4 DEF LineIsTracked

LEMMA LineInvInit ==
  LineInit => LineInv
<1> SUFFICES ASSUME LineInit PROVE LineInv
  OBVIOUS
<1>1. /\ inputMode = "normal" /\ line = Line(<<>>, 0) /\ searched = NoSearch
      /\ comp = NoCompletion /\ histories = [m \in {"command", "search"} |-> EmptyHistory]
  BY DEF LineInit
<1>2. IsLine(line)
  <2>1. <<>> \in Strings /\ Len(<<>>) = 0 /\ 0 \in 0..0
    BY DEF Strings
  <2> QED
    BY <1>1, <2>1, LineIs
<1>3. IsList(EmptyHistory, <<>>, NoPlace)
  BY EmptyIsList DEF NoPlace
<1>4. EmptyHistory \in HistoryType(NoPlace) /\ HasList(EmptyHistory)
  BY <1>3 DEF HasList, IsList
<1>5. HistoriesInv
  BY <1>1, <1>4 DEF HistoriesInv
<1> QED
  BY <1>1, <1>2, <1>5 DEF LineInv, ModeInv, SearchedInv, CompInv, Completing

\* Everything that changes the line without a history or a completion
LEMMA ChangeKeeps ==
  ASSUME LineInv, NEW l, IsLine(l), Change(l) \/ (Careless = FALSE /\ ChangeOnly(l))
  PROVE  LineInv'
<1>1. /\ line' = l /\ searched' = NoSearch /\ inputMode' = inputMode /\ histories' = histories
  BY DEF Change, ChangeOnly
<1>2. comp' = NoCompletion
  BY DEF Change, ChangeOnly, Completing
<1> QED
  BY <1>1, <1>2 DEF LineInv, ModeInv, SearchedInv, CompInv, Completing, HistoriesInv, IsLine

\* One lemma for the line that each edit makes
LEMMA EditsAreLines ==
  ASSUME IsLine(line)
  PROVE  /\ \A c \in Chars : IsLine(Line(Ahead \o <<c>> \o Behind, line.pos + 1))
         /\ IsLine(Line(line.buf, 0)) /\ IsLine(Line(line.buf, Len(line.buf)))
         /\ IsLine(Line(line.buf, IF line.pos = 0 THEN 0 ELSE line.pos - 1))
         /\ IsLine(Line(line.buf, IF Behind = <<>> THEN line.pos ELSE line.pos + 1))
         /\ IsLine(Line(Ahead, line.pos)) /\ IsLine(Line(Behind, 0))
         /\ IsLine(Line(Ahead \o Clip \o Behind, line.pos + Len(Clip)))
         /\ IsLine(Line(Ahead \o Clip \o Behind, line.pos))
         /\ IsLine(Line(line.buf, NextWord))
         /\ IsLine(Line(line.buf, IF PrevWord = 1 THEN 0 ELSE PrevWord))
<1>1. /\ Len(line.buf) \in Nat /\ line.pos \in Nat /\ line.pos <= Len(line.buf)
      /\ Ahead \in Strings /\ Len(Ahead) = line.pos
      /\ Behind \in Strings /\ Len(Behind) = Len(line.buf) - line.pos
  BY LineParts
<1>2. line.buf \in Strings
  BY DEF IsLine
<1>3. ASSUME NEW p \in 0..Len(line.buf) PROVE IsLine(Line(line.buf, p))
  BY <1>2, <1>3, LineIs
<1>4. ASSUME NEW m \in Strings, NEW p \in Nat, p <= line.pos + Len(m)
      PROVE  IsLine(Line(Ahead \o m \o Behind, p))
  <2>0. Len(m) \in Nat
    BY DEF Strings
  <2>1. PICK a : a = Ahead \o m
    OBVIOUS
  <2>2. a \in Strings /\ Len(a) = line.pos + Len(m)
    BY <1>1, <2>1, JoinStrings
  <2>3. a \o Behind \in Strings /\ Len(a \o Behind) = Len(a) + Len(Behind)
    BY <1>1, <2>2, JoinStrings
  <2>4. p \in 0..Len(a \o Behind)
    BY <1>1, <1>4, <2>0, <2>2, <2>3
  <2>5. IsLine(Line(a \o Behind, p))
    BY <2>3, <2>4, LineIs
  <2> QED
    BY <2>1, <2>5
<1>5. ASSUME NEW c \in Chars PROVE IsLine(Line(Ahead \o <<c>> \o Behind, line.pos + 1))
  <2>1. <<c>> \in Seq(Alphabet) /\ Len(<<c>>) = 1
    <3>1. c \in Alphabet
      BY DEF Alphabet
    <3> HIDE DEF Alphabet
    <3> QED
      BY <3>1
  <2>2. PICK m \in Strings : m = <<c>> /\ Len(m) = 1
    BY <2>1 DEF Strings
  <2>3. line.pos + 1 \in Nat /\ line.pos + 1 <= line.pos + Len(m)
    BY <1>1, <2>2
  <2>4. IsLine(Line(Ahead \o m \o Behind, line.pos + 1))
    BY <1>4, <2>3
  <2> QED
    BY <2>2, <2>4
<1>6. Clip \in Strings /\ Len(Clip) \in Nat
  BY TextsAreStrings DEF Strings
<1>7. /\ IsLine(Line(Ahead \o Clip \o Behind, line.pos + Len(Clip)))
      /\ IsLine(Line(Ahead \o Clip \o Behind, line.pos))
  BY <1>1, <1>4, <1>6
<1>8. IsLine(Line(Ahead, line.pos)) /\ IsLine(Line(Behind, 0))
  <2>1. line.pos \in 0..Len(Ahead) /\ 0 \in 0..Len(Behind)
    BY <1>1
  <2> QED
    BY <1>1, <2>1, LineIs
<1>9. IsLine(Line(line.buf, 0)) /\ IsLine(Line(line.buf, Len(line.buf)))
  BY <1>1, <1>3
<1>10. IsLine(Line(line.buf, IF line.pos = 0 THEN 0 ELSE line.pos - 1))
  BY <1>1, <1>3
<1>11. IsLine(Line(line.buf, IF Behind = <<>> THEN line.pos ELSE line.pos + 1))
  <2>1. CASE Behind = <<>>
    BY <1>1, <1>3, <2>1
  <2>2. CASE Behind # <<>>
    <3>1. Len(Behind) > 0
      BY <1>1, <2>2 DEF Strings
    <3>2. line.pos + 1 \in 0..Len(line.buf)
      BY <1>1, <3>1
    <3> QED
      BY <1>3, <2>2, <3>2
  <2> QED
    BY <2>1, <2>2
<1>12. IsLine(Line(line.buf, NextWord))
  <2>1. NextWord \in 0..Len(line.buf)
    BY <1>1, NextWordIs
  <2> QED
    BY <1>3, <2>1
<1>13. IsLine(Line(line.buf, IF PrevWord = 1 THEN 0 ELSE PrevWord))
  <2>1. PrevWord \in 0..Len(line.buf) /\ 0 \in 0..Len(line.buf)
    BY <1>1, PrevWordIs
  <2> QED
    BY <1>3, <2>1
<1> QED
  BY <1>5, <1>7, <1>8, <1>9, <1>10, <1>11, <1>12, <1>13

LEMMA DeletesAreLines ==
  ASSUME IsLine(line)
  PROVE  /\ IsLine(Line(Cut(line.pos, IF Behind = <<>> THEN line.pos ELSE line.pos + 1), line.pos))
         /\ line.pos # 0 => IsLine(Line(Cut(line.pos - 1, line.pos), line.pos - 1))
         /\ IsLine(Line(Cut(PrevWord, line.pos), PrevWord))
         /\ IsLine(Line(Cut(line.pos, NextWord), line.pos))
<1>1. /\ Len(line.buf) \in Nat /\ line.pos \in Nat /\ line.pos <= Len(line.buf)
      /\ Behind \in Strings /\ Len(Behind) = Len(line.buf) - line.pos
  BY LineParts
<1>2. ASSUME NEW from \in Nat, NEW to \in Nat, from <= to, to <= Len(line.buf)
      PROVE  IsLine(Line(Cut(from, to), from))
  <2>1. from \in 0..Len(line.buf) /\ to \in from..Len(line.buf)
    BY <1>1, <1>2
  <2>2. Cut(from, to) \in Strings /\ Len(Cut(from, to)) = Len(line.buf) - (to - from)
    BY <2>1, CutIs
  <2>3. from \in 0..Len(Cut(from, to))
    BY <1>1, <1>2, <2>2
  <2> QED
    BY <2>2, <2>3, LineIs
<1>3. PICK q : q = IF Behind = <<>> THEN line.pos ELSE line.pos + 1
  OBVIOUS
<1>4. q \in Nat /\ line.pos <= q /\ q <= Len(line.buf)
  <2>1. CASE Behind = <<>>
    BY <1>1, <1>3, <2>1
  <2>2. CASE Behind # <<>>
    <3>1. Len(Behind) > 0
      BY <1>1, <2>2 DEF Strings
    <3> QED
      BY <1>1, <1>3, <2>2, <3>1
  <2> QED
    BY <2>1, <2>2
<1>5. line.pos # 0 => line.pos - 1 \in Nat /\ line.pos - 1 <= line.pos
  BY <1>1
<1>6. PrevWord \in Nat /\ PrevWord <= line.pos
  BY <1>1, PrevWordIs
<1>7. NextWord \in Nat /\ line.pos <= NextWord /\ NextWord <= Len(line.buf)
  BY <1>1, NextWordIs
<1>8. IsLine(Line(Cut(line.pos, q), line.pos))
  BY <1>1, <1>2, <1>4
<1>9. line.pos # 0 => IsLine(Line(Cut(line.pos - 1, line.pos), line.pos - 1))
  BY <1>1, <1>2, <1>5
<1>10. IsLine(Line(Cut(PrevWord, line.pos), PrevWord))
  BY <1>1, <1>2, <1>6
<1>11. IsLine(Line(Cut(line.pos, NextWord), line.pos))
  BY <1>1, <1>2, <1>7
<1> QED
  BY <1>3, <1>8, <1>9, <1>10, <1>11

\* The edits of the line
Edits ==
  \/ \E c \in Chars : TypeChar(c)
  \/ Bol \/ Eol \/ Left \/ Right \/ DeleteEol \/ EraseBol \/ DeleteChar \/ Erase
  \/ WordFwd \/ WordBwd \/ EraseWord \/ DeleteWord
  \/ \E moves \in BOOLEAN : PasteCommand(moves) \/ InsertCommand(moves)
  \/ InsertPaste \/ Clear

LEMMA EditsKeep ==
  ASSUME Careless = FALSE, LineInv, Edits
  PROVE  LineInv'
<1>1. IsLine(line)
  BY DEF LineInv
<1>2. ASSUME NEW l, IsLine(l), Change(l) PROVE LineInv'
  BY <1>2, ChangeKeeps
<1>3. ASSUME NEW l, IsLine(l), ChangeOnly(l) PROVE LineInv'
  BY <1>3, ChangeKeeps
<1>4. ASSUME NEW c \in Chars, TypeChar(c) PROVE LineInv'
  <2>1. PICK l : l = Line(Ahead \o <<c>> \o Behind, line.pos + 1)
    OBVIOUS
  <2>2. IsLine(l)
    BY <1>1, <2>1, EditsAreLines
  <2> QED
    BY <1>2, <1>4, <2>1, <2>2 DEF TypeChar
<1>5. CASE Bol
  <2>1. IsLine(Line(line.buf, 0))
    BY <1>1, EditsAreLines
  <2> QED
    BY <1>2, <1>5, <2>1 DEF Bol
<1>6. CASE Eol
  <2>1. IsLine(Line(line.buf, Len(line.buf)))
    BY <1>1, EditsAreLines
  <2> QED
    BY <1>2, <1>6, <2>1 DEF Eol
<1>7. CASE Left
  <2>1. PICK l : l = Line(line.buf, IF line.pos = 0 THEN 0 ELSE line.pos - 1)
    OBVIOUS
  <2>2. IsLine(l)
    BY <1>1, <2>1, EditsAreLines
  <2> QED
    BY <1>2, <1>7, <2>1, <2>2 DEF Left
<1>8. CASE Right
  <2>1. PICK l : l = Line(line.buf, IF Behind = <<>> THEN line.pos ELSE line.pos + 1)
    OBVIOUS
  <2>2. IsLine(l)
    BY <1>1, <2>1, EditsAreLines
  <2> QED
    BY <1>2, <1>8, <2>1, <2>2 DEF Right
<1>9. CASE DeleteEol
  <2>1. IsLine(Line(Ahead, line.pos))
    BY <1>1, EditsAreLines
  <2> QED
    BY <1>2, <1>9, <2>1 DEF DeleteEol
<1>10. CASE EraseBol
  <2>1. IsLine(Line(Behind, 0))
    BY <1>1, EditsAreLines
  <2> QED
    BY <1>2, <1>10, <2>1 DEF EraseBol
<1>11. CASE DeleteChar
  <2>1. PICK l : l = Line(Cut(line.pos, IF Behind = <<>> THEN line.pos ELSE line.pos + 1), line.pos)
    OBVIOUS
  <2>2. IsLine(l)
    BY <1>1, <2>1, DeletesAreLines
  <2> QED
    BY <1>2, <1>11, <2>1, <2>2 DEF DeleteChar
<1>12. CASE Erase
  <2>1. CASE line.pos = 0
    <3>1. Change(line)
      BY <1>12, <2>1 DEF Erase
    <3> QED
      BY <1>1, <1>2, <3>1
  <2>2. CASE line.pos # 0
    <3>1. IsLine(Line(Cut(line.pos - 1, line.pos), line.pos - 1))
      BY <1>1, <2>2, DeletesAreLines
    <3>2. Change(Line(Cut(line.pos - 1, line.pos), line.pos - 1))
      BY <1>12, <2>2 DEF Erase
    <3> QED
      BY <1>2, <3>1, <3>2
  <2> QED
    BY <2>1, <2>2
<1>13. CASE WordFwd
  <2>1. IsLine(Line(line.buf, NextWord))
    BY <1>1, EditsAreLines
  <2> QED
    BY <1>2, <1>13, <2>1 DEF WordFwd
<1>14. CASE WordBwd
  <2>1. PICK l : l = Line(line.buf, IF PrevWord = 1 THEN 0 ELSE PrevWord)
    OBVIOUS
  <2>2. IsLine(l)
    BY <1>1, <2>1, EditsAreLines
  <2> QED
    BY <1>2, <1>14, <2>1, <2>2 DEF WordBwd
<1>15. CASE EraseWord
  <2>1. IsLine(Line(Cut(PrevWord, line.pos), PrevWord))
    BY <1>1, DeletesAreLines
  <2> QED
    BY <1>2, <1>15, <2>1 DEF EraseWord
<1>16. CASE DeleteWord
  <2>1. IsLine(Line(Cut(line.pos, NextWord), line.pos))
    BY <1>1, DeletesAreLines
  <2> QED
    BY <1>2, <1>16, <2>1 DEF DeleteWord
<1>17. ASSUME NEW moves \in BOOLEAN
       PROVE  IsLine(Line(Ahead \o Clip \o Behind, IF moves THEN line.pos + Len(Clip) ELSE line.pos))
  <2>1. CASE moves
    <3>1. IsLine(Line(Ahead \o Clip \o Behind, line.pos + Len(Clip)))
      BY <1>1, EditsAreLines
    <3> QED
      BY <2>1, <3>1
  <2>2. CASE ~moves
    <3>1. IsLine(Line(Ahead \o Clip \o Behind, line.pos))
      BY <1>1, EditsAreLines
    <3> QED
      BY <2>2, <3>1
  <2> QED
    BY <2>1, <2>2
<1>18. ASSUME NEW moves \in BOOLEAN, PasteCommand(moves) PROVE LineInv'
  <2>1. PICK l : l = Line(Ahead \o Clip \o Behind, IF moves THEN line.pos + Len(Clip) ELSE line.pos)
    OBVIOUS
  <2>2. IsLine(l)
    BY <1>17, <2>1
  <2> QED
    BY <1>2, <1>18, <2>1, <2>2 DEF PasteCommand
<1>19. ASSUME NEW moves \in BOOLEAN, InsertCommand(moves) PROVE LineInv'
  <2>1. PICK l : l = Line(Ahead \o Clip \o Behind, IF moves THEN line.pos + Len(Clip) ELSE line.pos)
    OBVIOUS
  <2>2. IsLine(l)
    BY <1>17, <2>1
  <2> QED
    BY <1>3, <1>19, <2>1, <2>2 DEF InsertCommand
<1>20. CASE InsertPaste
  <2>1. PICK l : l = Line(Ahead \o Clip \o Behind, line.pos + Len(Clip))
    OBVIOUS
  <2>2. IsLine(l)
    BY <1>1, <2>1, EditsAreLines
  <2> QED
    BY <1>3, <1>20, <2>1, <2>2 DEF InsertPaste
<1>21. CASE Clear
  <2>1. /\ line' = Line(<<>>, 0) /\ searched' = NoSearch /\ comp' = comp /\ comp = NoCompletion
        /\ inputMode' = inputMode /\ histories' = histories
    BY <1>21 DEF Clear, CmdlineClear, Completing
  <2>2. IsLine(Line(<<>>, 0))
    <3>1. <<>> \in Strings /\ Len(<<>>) = 0 /\ 0 \in 0..0
      BY DEF Strings
    <3> QED
      BY <3>1, LineIs
  <2> QED
    BY <2>1, <2>2 DEF LineInv, ModeInv, SearchedInv, CompInv, Completing, HistoriesInv, IsLine
<1> QED
  BY <1>4, <1>5, <1>6, <1>7, <1>8, <1>9, <1>10, <1>11, <1>12, <1>13, <1>14, <1>15, <1>16,
     <1>18, <1>19, <1>20, <1>21 DEF Edits

-----------------------------------------------------------------------------
(* CommandLine: the steps of the history *)

\* In a mode with a line there is a history, and the line may stand in it.
LEMMA CurrentHistory ==
  ASSUME LineInv, Editing
  PROVE  /\ inputMode \in {"command", "search"}
         /\ \E s : /\ IsList(histories[inputMode], s, NoPlace)
                   /\ searched.pos = NULL \/ In(searched.pos, s)
         /\ searched.text \in Strings
<1>1. inputMode \in {"command", "search"}
  BY DEF LineInv, ModeInv, Editing
<1>2. PICK s : IsList(histories[inputMode], s, NoPlace)
  BY <1>1 DEF LineInv, HistoriesInv, HasList
<1>3. CASE searched = NoSearch
  <2>1. searched.pos = NULL /\ searched.text = <<>> /\ <<>> \in Strings
    BY <1>3 DEF NoSearch, Strings
  <2> QED
    BY <1>1, <1>2, <2>1
<1>4. CASE StandsOn(searched, searched.pos)
  <2>1. PICK q : IsList(histories[inputMode], q, NoPlace) /\ In(searched.pos, q)
    BY <1>4 DEF StandsOn
  <2>2. searched.text \in Strings
    BY <1>4 DEF StandsOn
  <2> QED
    BY <1>1, <2>1, <2>2
<1> QED
  BY <1>3, <1>4 DEF LineInv, SearchedInv

\* The line comes to stand on an entry.
LEMMA StandingKeeps ==
  ASSUME LineInv, Editing, NEW s, IsList(histories[inputMode], s, NoPlace),
         NEW n \in Nodes, In(n, s), NEW text \in Strings,
         searched' = [pos |-> n, text |-> text],
         line' = Line(histories[inputMode].text[n], Len(histories[inputMode].text[n])),
         comp' = NoCompletion, inputMode' = inputMode, histories' = histories
  PROVE  LineInv'
<1>1. inputMode \in {"command", "search"}
  BY CurrentHistory
<1>2. PICK t : t = histories[inputMode].text[n]
  OBVIOUS
<1>3. t \in Strings /\ Len(t) \in Nat /\ Len(t) \in 0..Len(t)
  <2>1. t \in Texts
    BY <1>2 DEF IsList
  <2>2. t \in Strings
    BY <2>1, TextsAreStrings
  <2>3. Len(t) \in Nat
    BY <2>2 DEF Strings
  <2> QED
    BY <2>2, <2>3
<1>4. IsLine(Line(t, Len(t)))
  BY <1>3, LineIs
<1>5. IsLine(line)'
  BY <1>2, <1>4 DEF IsLine
<1>6. StandsOn(searched, searched.pos)'
  BY <1>1, <1>2, <1>3 DEF StandsOn
<1> QED
  BY <1>5, <1>6 DEF LineInv, ModeInv, SearchedInv, CompInv, Completing, HistoriesInv

LEMMA HistoryPrevKeeps ==
  ASSUME LineInv, NEW prefix_search \in BOOLEAN, HistoryPrev(prefix_search)
  PROVE  LineInv'
<1> DEFINE text == IF searched.pos = NULL THEN line.buf ELSE searched.text
           h == histories[inputMode]
           prefix == IF prefix_search THEN text ELSE <<>>
           n == SearchForward(h, searched.pos, prefix)
<1>1. /\ Editing /\ comp' = NoCompletion /\ inputMode' = inputMode /\ histories' = histories
      /\ n = NULL => line' = line /\ searched' = searched
      /\ n # NULL => searched' = [pos |-> n, text |-> text] /\ line' = Line(h.text[n], Len(h.text[n]))
  BY DEF HistoryPrev
<1>2. PICK s : IsList(h, s, NoPlace) /\ (searched.pos = NULL \/ In(searched.pos, s))
  BY <1>1, CurrentHistory
<1>3. text \in Strings
  BY <1>1, CurrentHistory DEF LineInv, IsLine
<1>4. n = NULL \/ (n \in Nodes /\ In(n, s))
  <2> HIDE DEF prefix, h
  <2> QED
    BY <1>2, SearchIsIn
<1>5. CASE n = NULL
  <2> HIDE DEF n
  <2>1. line' = line /\ searched' = searched
    BY <1>1, <1>5
  <2> QED
    BY <1>1, <2>1 DEF LineInv, ModeInv, SearchedInv, CompInv, Completing, HistoriesInv, StandsOn, IsLine
<1>6. CASE n # NULL
  <2> HIDE DEF n, text
  <2> QED
    BY <1>1, <1>2, <1>3, <1>4, <1>6, StandingKeeps
<1> QED
  BY <1>5, <1>6

LEMMA HistoryNextKeeps ==
  ASSUME LineInv, NEW prefix_search \in BOOLEAN, HistoryNext(prefix_search)
  PROVE  LineInv'
<1> DEFINE h == histories[inputMode]
           prefix == IF prefix_search THEN searched.text ELSE <<>>
           n == SearchBackward(h, searched.pos, prefix)
           text == IF n = NULL THEN searched.text ELSE h.text[n]
<1>1. /\ Editing /\ comp' = NoCompletion /\ inputMode' = inputMode /\ histories' = histories
      /\ searched.pos = NULL => line' = line /\ searched' = searched
      /\ searched.pos # NULL =>
           /\ searched' = (IF n = NULL THEN NoSearch ELSE [searched EXCEPT !.pos = n])
           /\ line' = Line(text, Len(text))
  BY DEF HistoryNext
<1>2. PICK s : IsList(h, s, NoPlace) /\ (searched.pos = NULL \/ In(searched.pos, s))
  BY <1>1, CurrentHistory
<1>3. searched.text \in Strings
  BY <1>1, CurrentHistory
<1>4. n = NULL \/ (n \in Nodes /\ In(n, s))
  <2> HIDE DEF prefix, h
  <2> QED
    BY <1>2, SearchIsIn
<1>5. CASE searched.pos = NULL
  <2> HIDE DEF n, text
  <2>1. line' = line /\ searched' = searched
    BY <1>1, <1>5
  <2> QED
    BY <1>1, <2>1 DEF LineInv, ModeInv, SearchedInv, CompInv, Completing, HistoriesInv, StandsOn, IsLine
<1>6. CASE searched.pos # NULL /\ n = NULL
  <2>1. text = searched.text
    BY <1>6
  <2> HIDE DEF n, text
  <2>2. line' = Line(text, Len(text)) /\ searched' = NoSearch
    BY <1>1, <1>6
  <2>3. Len(text) \in 0..Len(text) /\ text \in Strings
    BY <1>3, <2>1 DEF Strings
  <2>4. IsLine(Line(text, Len(text)))
    BY <2>3, LineIs
  <2> QED
    BY <1>1, <2>2, <2>4 DEF LineInv, ModeInv, SearchedInv, CompInv, Completing, HistoriesInv, IsLine
<1>7. CASE searched.pos # NULL /\ n # NULL
  <2>1. text = h.text[n]
    BY <1>7
  <2> HIDE DEF n, text
  <2>2. searched \in [pos : Nodes, text : Strings]
    <3>1. searched # NoSearch
      BY <1>7 DEF NoSearch
    <3> QED
      BY <3>1 DEF LineInv, SearchedInv, StandsOn
  <2>3. [searched EXCEPT !.pos = n] = [pos |-> n, text |-> searched.text]
    BY <2>2
  <2>4. line' = Line(h.text[n], Len(h.text[n])) /\ searched' = [pos |-> n, text |-> searched.text]
    BY <1>1, <1>7, <2>1, <2>3
  <2>5. n \in Nodes /\ In(n, s)
    BY <1>4, <1>7
  <2> QED
    BY <1>1, <1>2, <1>3, <2>4, <2>5, StandingKeeps
<1> QED
  BY <1>5, <1>6, <1>7

-----------------------------------------------------------------------------
(* CommandLine: the steps of a completion *)

LEMMA BegunIs ==
  ASSUME IsLine(line)
  PROVE  IsCompletion(Begun) /\ Begun.orig = line.buf
<1> DEFINE starts == {i \in 0..line.pos : \A j \in (i + 1)..line.pos : IsWord(j)}
           from == CHOOSE i \in starts : \A j \in starts : i <= j
           head == SubSeq(line.buf, 1, from)
           list == Candidates(SubSeq(line.buf, from + 1, line.pos))
<1>1. /\ Len(line.buf) \in Nat /\ line.pos \in Nat /\ line.pos <= Len(line.buf)
      /\ Behind \in Strings
  BY LineParts
<1>2. line.buf \in Strings
  BY DEF IsLine
<1>3. from \in 0..line.pos
  <2>1. line.pos \in starts /\ starts \in SUBSET Nat
    <3>1. (line.pos + 1)..line.pos = {}
      BY <1>1
    <3> QED
      BY <1>1, <3>1
  <2>2. \E i \in starts : \A j \in starts : i <= j
    <3> HIDE DEF starts
    <3> QED
      BY <2>1, LeastNumber
  <2>3. from \in starts
    <3> HIDE DEF starts
    <3> QED
      BY <2>2
  <2> QED
    BY <2>3
<1>4. Begun = [orig |-> line.buf, head |-> head, tail |-> Behind, list |-> list, idx |-> 1]
  BY DEF Begun
<1> HIDE DEF from
<1>5. head \in Strings
  <2>1. 0 \in 0..Len(line.buf) /\ from \in 0..Len(line.buf) /\ 0 + 1 = 1
    BY <1>1, <1>3
  <2>2. SubSeq(line.buf, 0 + 1, from) \in Strings
    BY <1>2, <2>1, PartOfString
  <2> QED
    BY <2>1, <2>2
<1>6. list \in Seq(Strings)
  BY CandidatesAre
<1>7. list # <<>> => 1 \in 1..Len(list)
  <2> HIDE DEF list
  <2> QED
    BY <1>6
<1> HIDE DEF head, list
<1>8. PICK c : c = [orig |-> line.buf, head |-> head, tail |-> Behind, list |-> list, idx |-> 1]
  OBVIOUS
<1>9. IsCompletion(c) /\ c.orig = line.buf
  BY <1>1, <1>2, <1>5, <1>6, <1>7, <1>8 DEF IsCompletion
<1> QED
  BY <1>4, <1>8, <1>9

LEMMA NextCandidate ==
  ASSUME NEW n \in Nat, n > 0, NEW i \in 1..n, NEW step \in {-1, 1}
  PROVE  ((i - 1 + step + n) % n) + 1 \in 1..n
<1>1. PICK x \in Int : x = i - 1 + step + n
  OBVIOUS
<1>2. x % n \in 0..(n - 1)
  OBVIOUS
<1>3. (x % n) + 1 \in 1..n
  BY <1>2
<1> QED
  BY <1>1, <1>3

LEMMA NextCompletion ==
  ASSUME NEW c, IsCompletion(c), NEW step \in {-1, 1}, NEW n, n = Len(c.list)
  PROVE  LET d == [c EXCEPT !.idx = IF n = 0 THEN @ ELSE ((@ - 1 + step + n) % n) + 1]
         IN IsCompletion(d) /\ d.orig = c.orig /\ d.list = c.list
<1>1. c \in [orig : Strings, head : Strings, tail : Strings, list : Seq(Strings), idx : Int]
  BY DEF IsCompletion
<1>2. n \in Nat /\ (n = 0 <=> c.list = <<>>)
  BY <1>1
<1>3. PICK i : i = IF n = 0 THEN c.idx ELSE ((c.idx - 1 + step + n) % n) + 1
  OBVIOUS
<1>4. i \in Int /\ (c.list # <<>> => i \in 1..Len(c.list))
  <2>1. CASE n = 0
    BY <1>1, <1>2, <1>3, <2>1
  <2>2. CASE n # 0
    <3>1. c.idx \in 1..n /\ n > 0
      BY <1>2, <2>2 DEF IsCompletion
    <3>2. ((c.idx - 1 + step + n) % n) + 1 \in 1..n
      BY <1>2, <3>1, NextCandidate
    <3>3. i \in 1..n
      BY <1>3, <2>2, <3>2
    <3> QED
      BY <3>3
  <2> QED
    BY <2>1, <2>2
<1>5. PICK d : d = [c EXCEPT !.idx = i]
  OBVIOUS
<1>6. IsCompletion(d) /\ d.orig = c.orig /\ d.list = c.list
  BY <1>1, <1>4, <1>5 DEF IsCompletion
<1>7. [c EXCEPT !.idx = IF n = 0 THEN @ ELSE ((@ - 1 + step + n) % n) + 1] = d
  BY <1>3, <1>5
<1> QED
  BY <1>6, <1>7

LEMMA CompletedIs ==
  ASSUME NEW c, IsCompletion(c), c.list # <<>>
  PROVE  IsLine(Completed(c))
<1> DEFINE blank == IF Len(c.list) = 1 THEN <<" ">> ELSE <<>>
<1>1. /\ c.head \in Strings /\ c.tail \in Strings /\ c.list[c.idx] \in Strings
  BY DEF IsCompletion
<1>2. blank \in Strings
  <2>1. " " \in Alphabet
    BY DEF Alphabet
  <2> HIDE DEF Alphabet
  <2>2. PICK ch \in Alphabet : ch = " "
    BY <2>1
  <2>3. <<ch>> \in Seq(Alphabet) /\ <<>> \in Seq(Alphabet)
    OBVIOUS
  <2>4. blank = <<ch>> \/ blank = <<>>
    BY <2>2
  <2> QED
    BY <2>3, <2>4 DEF Strings
<1>3. PICK middle : middle = c.list[c.idx] \o blank
  OBVIOUS
<1>4. Completed(c) = Line(c.head \o middle \o c.tail, Len(c.head) + Len(middle))
  BY <1>3 DEF Completed
<1> HIDE DEF blank
<1>5. middle \in Strings
  BY <1>1, <1>2, <1>3, JoinStrings
<1>6. PICK a : a = c.head \o middle
  OBVIOUS
<1>7. a \in Strings /\ Len(a) = Len(c.head) + Len(middle)
  BY <1>1, <1>5, <1>6, JoinStrings
<1>8. a \o c.tail \in Strings /\ Len(a \o c.tail) = Len(a) + Len(c.tail)
  BY <1>1, <1>7, JoinStrings
<1>9. Len(a) \in 0..Len(a \o c.tail)
  <2>1. Len(a) \in Nat /\ Len(c.tail) \in Nat
    BY <1>1, <1>7 DEF Strings
  <2> QED
    BY <1>8, <2>1
<1>10. IsLine(Line(a \o c.tail, Len(a)))
  BY <1>8, <1>9, LineIs
<1> QED
  BY <1>4, <1>6, <1>7, <1>10

LEMMA CompleteKeeps ==
  ASSUME LineInv, NEW step \in {-1, 1}, Complete(step)
  PROVE  LineInv'
<1> DEFINE n == Len(comp.list)
           next == [comp EXCEPT !.idx = IF n = 0 THEN @ ELSE ((@ - 1 + step + n) % n) + 1]
<1>1. PICK c : c = IF ~Completing THEN Begun ELSE next
  OBVIOUS
<1>2. /\ inputMode = "command"
      /\ c.list = <<>> => comp' = c /\ line' = line /\ searched' = searched
      /\ c.list # <<>> => /\ line' = Completed(c) /\ searched' = NoSearch
                          /\ comp' = (IF Len(c.list) = 1 THEN NoCompletion ELSE c)
      /\ inputMode' = inputMode /\ histories' = histories
  BY <1>1 DEF Complete
<1> HIDE DEF n
<1>3. IsCompletion(c) /\ (c.list = <<>> => line.buf = c.orig)
  <2>1. CASE ~Completing
    <3>1. c = Begun
      BY <1>1, <2>1
    <3> QED
      BY <3>1, BegunIs DEF LineInv
  <2>2. CASE Completing
    <3>1. IsCompletion(comp) /\ (comp.list = <<>> => line.buf = comp.orig)
      BY <2>2 DEF LineInv, CompInv
    <3>2. IsCompletion(next) /\ next.orig = comp.orig /\ next.list = comp.list
      BY <3>1, NextCompletion DEF n
    <3> HIDE DEF next
    <3>3. c = next
      BY <1>1, <2>2
    <3> QED
      BY <3>1, <3>2, <3>3
  <2> QED
    BY <2>1, <2>2
<1> HIDE DEF next
<1>4. CASE c.list = <<>>
  <2>1. comp' = c /\ line' = line /\ searched' = searched
    BY <1>2, <1>4
  <2>2. CompInv'
    BY <1>2, <1>3, <1>4, <2>1 DEF CompInv
  <2>3. SearchedInv'
    BY <1>2, <2>1 DEF LineInv, SearchedInv, StandsOn
  <2> QED
    BY <1>2, <2>1, <2>2, <2>3 DEF LineInv, ModeInv, HistoriesInv, IsLine
<1>5. CASE c.list # <<>>
  <2>1. /\ line' = Completed(c) /\ searched' = NoSearch
        /\ comp' = NoCompletion \/ comp' = c
    BY <1>2, <1>5
  <2>2. IsLine(Completed(c))
    BY <1>3, <1>5, CompletedIs
  <2>3. CompInv'
    <3>1. CASE comp' = NoCompletion
      BY <3>1 DEF CompInv, Completing
    <3>2. CASE comp' = c
      <4>1. Completed(c)' = Completed(c) 
        BY DEF Completed
      <4>2. Completed(comp)' = Completed(c)
        BY <3>2 DEF Completed
      <4> QED
        BY <1>2, <1>3, <1>5, <2>1, <3>2, <4>2 DEF CompInv
    <3> QED
      BY <2>1, <3>1, <3>2
  <2>4. IsLine(line)'
    BY <2>1, <2>2 DEF IsLine
  <2> QED
    BY <1>2, <2>1, <2>3, <2>4 DEF LineInv, ModeInv, SearchedInv, HistoriesInv
<1> QED
  BY <1>4, <1>5

-----------------------------------------------------------------------------
(* CommandLine: the modes *)

\* Only "searched" tells of an entry, and there is none in normal mode.
LEMMA NormalMode ==
  ASSUME LineInv, inputMode = "normal"
  PROVE  searched = NoSearch /\ comp = NoCompletion
BY DEF LineInv, SearchedInv, StandsOn, CompInv, Completing

LEMMA EmptyLine ==
  IsLine(Line(<<>>, 0))
<1>1. <<>> \in Strings /\ Len(<<>>) = 0 /\ 0 \in 0..0
  BY DEF Strings
<1> QED
  BY <1>1, LineIs

\* A text is added to one of the histories, or none is.
LEMMA HistoriesKeep ==
  ASSUME HistoriesInv, NEW mode \in {"command", "search"}, NEW t \in Texts \cup {<<>>},
         \/ histories' = histories
         \/ histories' = [histories EXCEPT ![mode] = HistoryAppend(@, t)]
  PROVE  HistoriesInv'
<1>1. CASE histories' = histories
  BY <1>1 DEF HistoriesInv
<1>2. CASE histories' = [histories EXCEPT ![mode] = HistoryAppend(@, t)]
  <2>1. PICK u : u = HistoryAppend(histories[mode], t)
    OBVIOUS
  <2>2. HasList(u)
    BY <2>1, RememberedIsList DEF HistoriesInv
  <2>3. u \in HistoryType(NoPlace)
    BY <2>2 DEF HasList, IsList
  <2>4. histories' = [histories EXCEPT ![mode] = u]
    BY <1>2, <2>1
  <2>5. /\ histories' \in [{"command", "search"} -> HistoryType(NoPlace)]
        /\ \A m \in {"command", "search"} : histories'[m] = IF m = mode THEN u ELSE histories[m]
    BY <2>3, <2>4 DEF HistoriesInv
  <2>6. \A m \in {"command", "search"} : HasList(histories'[m])
    BY <2>2, <2>5 DEF HistoriesInv
  <2> QED
    BY <2>5, <2>6 DEF HistoriesInv
<1> QED
  BY <1>1, <1>2

LEMMA ModesKeep ==
  ASSUME LineInv,
         \/ \E text \in {NoText, Clip} : EnterCommand(text)
         \/ EnterSearch \/ Cancel
         \/ \E flagH \in BOOLEAN : AcceptCommand(flagH) \/ AcceptSearch(flagH)
         \/ SearchCommand(Clip)
  PROVE  LineInv'
<1>1. IsLine(line) /\ HistoriesInv
  BY DEF LineInv
<1>2. ASSUME IsLine(line)', ModeInv', HistoriesInv', searched' = NoSearch, comp' = NoCompletion
      PROVE  LineInv'
  BY <1>2 DEF LineInv, SearchedInv, CompInv, Completing
<1>3. ASSUME NEW text \in {NoText, Clip}, EnterCommand(text) PROVE LineInv'
  <2>1. /\ inputMode = "normal" /\ inputMode' = "command"
        /\ line' = (IF text = NoText THEN line ELSE Line(text, Len(text)))
        /\ searched' = searched /\ comp' = comp /\ histories' = histories
    BY <1>3 DEF EnterCommand
  <2>2. IsLine(line)'
    <3>1. CASE text = NoText
      BY <1>1, <2>1, <3>1 DEF IsLine
    <3>2. CASE text # NoText
      <4>1. Clip \in Strings /\ Len(Clip) \in 0..Len(Clip)
        BY TextsAreStrings DEF Strings
      <4>2. IsLine(Line(Clip, Len(Clip)))
        BY <4>1, LineIs
      <4>3. line' = Line(Clip, Len(Clip))
        BY <1>3, <2>1, <3>2
      <4> QED
        BY <4>2, <4>3 DEF IsLine
    <3> QED
      BY <3>1, <3>2
  <2>3. ModeInv' /\ HistoriesInv'
    BY <1>1, <2>1 DEF ModeInv, HistoriesInv
  <2> QED
    BY <1>2, <2>1, <2>2, <2>3, NormalMode
<1>4. CASE EnterSearch
  <2>1. /\ inputMode = "normal" /\ inputMode' = "search"
        /\ line' = line /\ searched' = searched /\ comp' = comp /\ histories' = histories
    BY <1>4 DEF EnterSearch
  <2>2. IsLine(line)' /\ ModeInv' /\ HistoriesInv'
    BY <1>1, <2>1 DEF IsLine, ModeInv, HistoriesInv
  <2> QED
    BY <1>2, <2>1, <2>2, NormalMode
<1>5. ASSUME inputMode' = "normal", CmdlineClear, comp' = NoCompletion, HistoriesInv'
      PROVE  LineInv'
  <2>1. line' = Line(<<>>, 0) /\ searched' = NoSearch
    BY <1>5 DEF CmdlineClear
  <2>2. IsLine(line)' /\ ModeInv'
    BY <1>5, <2>1, EmptyLine DEF IsLine, ModeInv
  <2> QED
    BY <1>2, <1>5, <2>1, <2>2
<1>6. CASE Cancel
  <2>1. inputMode' = "normal" /\ CmdlineClear /\ comp' = NoCompletion /\ histories' = histories
    BY <1>6 DEF Cancel
  <2> QED
    BY <1>1, <1>5, <2>1 DEF HistoriesInv
<1>7. ASSUME NEW mode \in {"command", "search"}, NEW add \in BOOLEAN, Remember(mode, add)
      PROVE  HistoriesInv'
  <2>1. CASE add
    <3>1. PICK t \in Texts \cup {<<>>} : t = line.buf
      BY <1>7, <2>1 DEF Remember
    <3>2. histories' = [histories EXCEPT ![mode] = HistoryAppend(@, t)]
      BY <1>7, <2>1, <3>1 DEF Remember
    <3> QED
      BY <1>1, <3>2, HistoriesKeep
  <2>2. CASE ~add
    <3>1. histories' = histories
      BY <1>7, <2>2 DEF Remember
    <3> QED
      BY <1>1, <3>1 DEF HistoriesInv
  <2> QED
    BY <2>1, <2>2
<1>8. ASSUME NEW flagH \in BOOLEAN, AcceptCommand(flagH) PROVE LineInv'
  <2>1. PICK add \in BOOLEAN : add = (~flagH /\ (line.buf = <<>> \/ line.buf[1] # " "))
    OBVIOUS
  <2>2. /\ inputMode' = "normal" /\ CmdlineClear /\ comp' = NoCompletion
        /\ Remember("command", add)
    BY <1>8, <2>1 DEF AcceptCommand
  <2>3. HistoriesInv'
    BY <1>7, <2>2
  <2> QED
    BY <1>5, <2>2, <2>3
<1>9. ASSUME NEW flagH \in BOOLEAN, AcceptSearch(flagH) PROVE LineInv'
  <2>1. PICK add \in BOOLEAN : add = ~flagH
    OBVIOUS
  <2>2. /\ inputMode = "search" /\ inputMode' = "normal" /\ CmdlineClear /\ comp' = comp
        /\ Remember("search", add)
    BY <1>9, <2>1 DEF AcceptSearch
  <2>3. comp = NoCompletion
    BY <2>2 DEF LineInv, CompInv, Completing
  <2>4. HistoriesInv'
    BY <1>7, <2>2
  <2> QED
    BY <1>5, <2>2, <2>3, <2>4
<1>10. CASE SearchCommand(Clip)
  <2>1. /\ inputMode = "normal" /\ inputMode' = inputMode /\ line' = line
        /\ searched' = searched /\ comp' = comp
        /\ histories' = [histories EXCEPT !["search"] = HistoryAppend(@, Clip)]
    BY <1>10 DEF SearchCommand
  <2>2. Clip \in Texts \cup {<<>>}
    BY LineAssumption
  <2>3. HistoriesInv'
    BY <1>1, <2>1, <2>2, HistoriesKeep
  <2>4. IsLine(line)' /\ ModeInv'
    BY <1>1, <2>1 DEF IsLine, ModeInv
  <2> QED
    BY <1>2, <2>1, <2>3, <2>4, NormalMode
<1> QED
  BY <1>3, <1>4, <1>6, <1>8, <1>9, <1>10

LEMMA LineInvNext ==
  ASSUME Careless = FALSE
  PROVE  LineInv /\ [LineNext]_lineVars => LineInv'
<1> SUFFICES ASSUME LineInv, [LineNext]_lineVars PROVE LineInv'
  OBVIOUS
<1>1. CASE Edits
  BY <1>1, EditsKeep
<1>2. ASSUME NEW prefix_search \in BOOLEAN,
             HistoryPrev(prefix_search) \/ HistoryNext(prefix_search)
      PROVE  LineInv'
  BY <1>2, HistoryPrevKeeps, HistoryNextKeeps
<1>3. ASSUME NEW step \in {-1, 1}, Complete(step) PROVE LineInv'
  BY <1>3, CompleteKeeps
<1>4. CASE \/ \E text \in {NoText, Clip} : EnterCommand(text)
           \/ EnterSearch \/ Cancel
           \/ \E flagH \in BOOLEAN : AcceptCommand(flagH) \/ AcceptSearch(flagH)
           \/ SearchCommand(Clip)
  BY <1>4, ModesKeep
<1>5. CASE UNCHANGED lineVars
  BY <1>5 DEF lineVars, LineInv, ModeInv, SearchedInv, StandsOn, CompInv, Completing, Completed,
              HistoriesInv, IsLine
<1> QED
  BY <1>1, <1>2, <1>3, <1>4, <1>5 DEF LineNext, Edits

\* LineIsTracked, when a paste or a "clear" ends the completion that is under
\* way: what the command line keeps about its text is about the text it has,
\* after any sequence of edits, walks through the history and completions
\* (cmdline.c, cmdline_soft_reset and its callers).
THEOREM LineIsTrackedAlways ==
  ASSUME Careless = FALSE
  PROVE  LineSpec => []LineIsTracked
<1>1. LineInit => LineInv
  BY LineInvInit
<1>2. LineInv /\ [LineNext]_lineVars => LineInv'
  BY LineInvNext
<1>3. LineInv => LineIsTracked
  BY LineInvIsTracked
<1> QED
  BY <1>1, <1>2, <1>3, PTL DEF LineSpec
=============================================================================
