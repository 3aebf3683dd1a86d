---------------------------- MODULE MCStacksMutex ----------------------------
(* Every instruction, and delays of some quanta, for StacksMutex.          *)
EXTENDS StacksMutex

EveryInstruction == AllInstructions
=============================================================================
