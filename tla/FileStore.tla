------------------------------ MODULE FileStore ------------------------------
(***************************************************************************)
(* What a save promises: under each name there is a whole text, which a    *)
(* save replaces by the text of its editor in one step.  Only a name for   *)
(* which no temporary file can be made may be left torn.                   *)
(***************************************************************************)
CONSTANTS
  Editors,  \* editor processes
  Names,    \* filenames
  Fragile   \* names that are saved in place

VARIABLES
  disk,     \* <<"whole", text>>, <<"torn">> or <<"nothing">> under each name
  text      \* the text of each editor, which changes at will

Put(e, n) == disk' = [disk EXCEPT ![n] = <<"whole", text[e]>>]

Tear(S) == disk' = [n \in Names |-> IF n \in S THEN <<"torn">> ELSE disk[n]]

Init == \A n \in Names : disk[n] # <<"torn">>

Next ==
  \/ \E e \in Editors, n \in Names : Put(e, n)
  \/ \E S \in SUBSET Fragile : Tear(S)

Spec == Init /\ [][Next]_disk
=============================================================================
