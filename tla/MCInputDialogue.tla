--------------------------- MODULE MCInputDialogue ---------------------------
(* The bounds of InputDialogue are given in the configurations.            *)
EXTENDS InputDialogue
=============================================================================
