---------------------------- MODULE MCRunControl ----------------------------
(* Small programs for RunControl.                                          *)
EXTENDS RunControl

\* A main algorithm with an initialiser; one with parameters; one with
\* initialisers of its own and of a library file and a testing algorithm; a file
\* without a main algorithm.
WithInit == [start |-> "MAIN", testing |-> FALSE, inits |-> <<TRUE>>]
WithParameters == [start |-> "BELOW", testing |-> FALSE, inits |-> << >>]
WithTest == [start |-> "MAIN", testing |-> TRUE, inits |-> <<FALSE, TRUE>>]
WithoutMain == [start |-> "NONE", testing |-> FALSE, inits |-> <<TRUE>>]

OneProgram == {WithInit}
MainPrograms == {WithInit, WithTest}
TwoPrograms == {WithParameters, WithTest}
AllPrograms == {WithInit, WithParameters, WithTest, WithoutMain}
=============================================================================
