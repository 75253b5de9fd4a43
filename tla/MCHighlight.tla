----------------------------- MODULE MCHighlight -----------------------------
(* Instances of Highlight that TLC can check: a line opens a comment or not. *)
EXTENDS Highlight

CONSTANTS plain, open, code, comment, C, w1, w2

TwoKinds == {plain, open}
TwoStates == {code, comment}
MCStart == [s \in {C} |-> code]
MCDest == [t \in {C} \X TwoKinds \X TwoStates |-> IF t[2] = open THEN comment ELSE t[3]]
TwoWindows == {w1, w2}
OneWindow == {w1}

\* Bound: what follows another change before the update leaves a short text.
MCNext == Next /\ (batch' > 1 => nl' < MaxLines)
MCSpec == Init /\ [][MCNext]_vars
=============================================================================
