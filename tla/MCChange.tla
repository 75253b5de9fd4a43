------------------------------ MODULE MCChange ------------------------------
(***************************************************************************)
(* Two small instances of Change in one run: texts of two bytes, one of    *)
(* them the newline, and texts of newlines only, with one Change more,     *)
(* which gives room for chains of two edits.                               *)
(***************************************************************************)
EXTENDS Change

CONSTANT a

VARIABLE chains  \* which of the two it is

MCBytes == {a, NL}
MCPayloads == {<<>>, <<a>>, <<NL>>}
MCInitTexts == {<<>>, <<a, NL>>}

Chains == INSTANCE Change WITH
  Bytes <- {NL}, Payloads <- {<<NL>>}, InitTexts <- {<<>>}, MaxChanges <- 4, MaxLen <- 3

MCInit ==
  \/ Init /\ chains = FALSE
  \/ Chains!Init /\ chains = TRUE

MCNext ==
  \/ ~chains /\ Next /\ UNCHANGED chains
  \/ chains /\ Chains!Next /\ UNCHANGED chains

MCSpec == MCInit /\ [][MCNext]_<<vars, chains>> /\ Fairness
=============================================================================
