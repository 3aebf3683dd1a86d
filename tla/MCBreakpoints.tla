--------------------------- MODULE MCBreakpoints ---------------------------
(* Small programs for Breakpoints.                                         *)
EXTENDS Breakpoints

Src(i) == [file |-> "source", id |-> i]
Lib(i) == [file |-> "library", id |-> i]

\* The module id of the program's own code differs with the modules it imports.
Plain(i) == [units |-> <<Src(i), Src(i)>>, module |-> [l \in Lines |-> i]]
WithLibrary(i, j) == [units |-> <<Src(i), Lib(j)>>, module |-> [l \in Lines |-> i]]
Empty == [units |-> << >>, module |-> [l \in Lines |-> 0]]

\* Its first line belongs to a module it defines.
TwoModules == [units |-> <<Src(1), Src(2)>>,
               module |-> [l \in Lines |-> IF l = 1 THEN 1 ELSE 2]]

OneModulePrograms == {Empty, Plain(0), Plain(1), WithLibrary(0, 1), WithLibrary(1, 0)}
ModulePrograms == {TwoModules}
=============================================================================
