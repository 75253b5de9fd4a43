------------------------------- MODULE MCInput -------------------------------
(***************************************************************************)
(* What comes in and becomes commands, on small instances in one run: the  *)
(* output of a child (Spawn), the bytes of the terminal (TermInput) and    *)
(* the handshake with it (TermFeatures), the command line (CommandLine),   *)
(* the text of commands (CommandText), their running (Session), and the    *)
(* tables that most of these keep (HashTables).                            *)
(*                                                                         *)
(* The components share nothing that a property is about, so a behaviour   *)
(* is one of a single component, the part; the others stay as they were at *)
(* the start, with nothing left to do.                                     *)
(***************************************************************************)
EXTENDS Spawn, TermInput, TermFeatures, HashTables, CommandLine, CommandText, Session, TLC

CONSTANTS k1, k2, k3

-----------------------------------------------------------------------------
(* TermFeatures *)

MCTerms == {C8 \cup {"TITLE"}, C256 \cup {"KITTYKBD", "SYNC"}, C8 \cup {"NOQUERY3", "TITLE"},
            {"NOQUERY1"}}

-----------------------------------------------------------------------------
(* HashTables: keys with the same hash, with hashes next to each other, and
   with different ones that share slots of a small table *)

MCHashKeys == {k1, k2, k3}
MCHashes == {k1 :> 0 @@ k2 :> 0 @@ k3 :> 0, k1 :> 0 @@ k2 :> 0 @@ k3 :> 1,
             k1 :> 0 @@ k2 :> 4 @@ k3 :> 3}

-----------------------------------------------------------------------------
(* CommandLine: two words to complete, one of them in the clipboard *)

MCTexts == {<<"a">>, <<"b">>, <<"a", "a">>}
MCWords == << <<"a">>, <<"b">> >>
MCClip == <<"a">>

-----------------------------------------------------------------------------
(* CommandText: flags without and with an argument, one that is not known *)

MCArgTexts == {<<"-", "f">>, <<"-", "f", "g">>, <<"-", "h">>, <<"-", "-">>, <<"-">>, <<"a">>,
               <<"b">>, <<"-", "z">>, <<"-", "f", "h">>}
MCHome == <<"a", "/">>
MCVar == <<"0">>
MCLetters == {"a", "n", "x", "0", "1", "'", "\"", "\\", "$", ";", " ", "~", "/", "\n", "^A"}

-----------------------------------------------------------------------------
(* Session: bindings that record and play a macro, an alias of an alias, one
   that calls itself, and a file that includes itself *)

Do(op, arg) == <<[op |-> op, arg |-> arg]>>
MCPrograms ==
  "none" :> <<>> @@ "bad" :> <<>> @@ "y" :> Do("insert", <<"y">>)
  @@ "record" :> Do("macro", <<"record">>) @@ "stop" :> Do("macro", <<"stop">>)
  @@ "cancel" :> Do("macro", <<"cancel">>) @@ "play" :> Do("macro", <<"play">>)
  @@ "alias" :> (Do("alias", <<"q", "qy">>) \o Do("mode", <<"vi">>))
  @@ "q" :> Do("q", <<>>) @@ "qy" :> (Do("insert", <<"z">>) \o Do("q", <<>>))
  @@ "yy" :> (Do("repeat", <<"y">>) \o Do("mode", <<"normal">>))
  @@ "file" :> (Do("bind", <<"normal", "k5", "yy">>) \o Do("include", <<"file">>)
                  \o Do("insert", <<"z">>))
  @@ "include" :> Do("include", <<"file">>)
  @@ "again" :> Do("repeat", <<"play">>)
  @@ "fails" :> (Do("insert", <<"z">>) \o Do("fail", <<>>))
MCKeys == {"x", "k1", "k2", "k3", "k4", "k5", "k6", "k7"}
MCModes == [normal |-> [flags |-> "", falls |-> <<>>],
            vi |-> [flags |-> "U", falls |-> <<"normal">>]]
Bound(f) == [k \in MCKeys |-> IF k \in DOMAIN f THEN f[k] ELSE "none"]
MCBinds ==
  [normal |-> Bound("k1" :> "record" @@ "k2" :> "stop" @@ "k3" :> "cancel" @@ "k4" :> "play"
                    @@ "k5" :> "alias" @@ "k6" :> "include" @@ "k7" :> "q"),
   vi |-> Bound("x" :> "yy" @@ "k5" :> "y")]

-----------------------------------------------------------------------------
(* Spawn: standard output may hang up with more than one read left in its
   pipe, the others block a writer after one unit *)

MCCap == [i \in Streams |-> IF i = "stdout" THEN 2 ELSE 1]

-----------------------------------------------------------------------------
VARIABLE part

allVars == <<part, vars, inputVars, termVars, hashVars, lineVars, textVars,
             sessionVars>>

\* A child that has been waited for
SpawnRests ==
  /\ how = [compiler |-> FALSE, actions |-> [i \in Streams |-> "null"], input |-> 0]
  /\ pc = "done" /\ fd = {} /\ rev = None /\ wlen = 0
  /\ got = [i \in Outputs |-> 0] /\ pipe = [i \in Streams |-> 0] /\ child = NoChild
  /\ wrote = [i \in Outputs |-> 0] /\ taken = [n |-> 0, eof |-> FALSE]
  /\ result = [status |-> "none", error |-> "none"]

MCInit ==
  /\ part \in {"spawn", "input", "term", "hash", "line", "text", "session"}
  /\ IF part = "spawn" THEN Init ELSE SpawnRests
  /\ InputInit /\ (part = "input" \/ family = "kitty")
  /\ IF part = "term" THEN TermInit
     ELSE /\ level = 0 /\ features = {} /\ obuf = <<>> /\ ttyMode = "cooked" /\ reset = FALSE
          /\ pos = "start" /\ leaves = 0 /\ screen = Fresh /\ asked = <<>>
          /\ queried = [q \in Queries |-> 0]
  /\ HashInit /\ (part = "hash" \/ (use = "set" /\ hash[k1] = hash[k2] /\ hash[k2] = hash[k3]))
  /\ LineInit /\ TextInit /\ SessionInit

MCNext ==
  \/ /\ part = "spawn" /\ Next
     /\ UNCHANGED <<part, inputVars, termVars, hashVars, lineVars, textVars, sessionVars>>
  \/ /\ part = "input" /\ InputNext
     /\ UNCHANGED <<part, vars, termVars, hashVars, lineVars, textVars, sessionVars>>
  \/ /\ part = "term" /\ TermNext
     /\ UNCHANGED <<part, vars, inputVars, hashVars, lineVars, textVars, sessionVars>>
  \/ /\ part = "hash" /\ HashNext
     /\ UNCHANGED <<part, vars, inputVars, termVars, lineVars, textVars, sessionVars>>
  \/ /\ part = "line" /\ LineNext
     /\ UNCHANGED <<part, vars, inputVars, termVars, hashVars, textVars, sessionVars>>
  \/ /\ part = "text" /\ TextNext
     /\ UNCHANGED <<part, vars, inputVars, termVars, hashVars, lineVars, sessionVars>>
  \/ /\ part = "session" /\ SessionNext
     /\ UNCHANGED <<part, vars, inputVars, termVars, hashVars, lineVars, textVars>>

\* A component that rests has nothing to do that fairness is about.
MCSpec == MCInit /\ [][MCNext]_allVars /\ Fairness /\ InputFairness
=============================================================================
