------------------------------- MODULE Split -------------------------------
(***************************************************************************)
(* What a GP process promises about its data: some records of the file are *)
(* chosen to train on, the others, all of them, to test with, and neither  *)
(* choice is ever changed in the same process.                             *)
(***************************************************************************)
EXTENDS FiniteSets, Naturals

CONSTANTS Records, Amount

VARIABLES train, test

Init == train = {} /\ test = {}

ChooseTraining ==
  /\ train = {} /\ test = {}
  /\ train' \in {s \in SUBSET Records : Cardinality(s) = Amount}
  /\ UNCHANGED test

ChooseTesting ==
  /\ train # {} /\ test = {}
  /\ test' = Records \ train
  /\ UNCHANGED train

\* Another process starts.
Restart == train' = {} /\ test' = {}

Next == ChooseTraining \/ ChooseTesting \/ Restart

Spec == Init /\ [][Next]_<<train, test>>
=============================================================================
