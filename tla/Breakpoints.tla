---------------------------- MODULE Breakpoints ----------------------------
(***************************************************************************)
(* Breakpoints: the marks on the lines of the editor, the virtual          *)
(* machine's table of locations (BreakpointsTable), and what keeps the two *)
(* together: prepareRunner, the toggles of a mark, `run to cursor', and    *)
(* the line instructions that look a location up.                          *)
(*                                                                         *)
(* The table is keyed by module id and line.  A source file holds several  *)
(* modules when the program defines some of its own, and a library file    *)
(* numbers its modules by itself.  Enabledness, ignore counts and          *)
(* conditions are left out: nothing sets the first, nothing reads the rest.*)
(***************************************************************************)
EXTENDS Naturals, Sequences

CONSTANTS
  Lines,      \* line numbers
  Programs,   \* shapes of the programs that may be loaded
  Local       \* the text comes from a local file, not from a course

\* A unit is a module with code, of the source or of a library file.  A program
\* has its units in the order setProgram registers them, and every line of the
\* source belongs to a module.
Unit == [file : {"source", "library"}, id : Nat]
Program == [units : Seq(Unit), module : [Lines -> Nat]]

ASSUME BreakProgramsAssumption == Programs \subseteq Program
ASSUME LocalAssumption == Local \in BOOLEAN

VARIABLES
  phase,         \* idle, evaluating, or suspended
  blind,         \* blindMode_: breakpoints are not looked up
  marks,         \* lines of the editor with hasBreakpoint
  prog,          \* the program loaded last
  sourceToIds,   \* the module id of a file name
  knownIds,      \* domain of idsToSources_
  breakpoints,   \* breakpoints_
  singleHits,    \* singleHits_
  asked          \* auxiliary: lines `run to cursor' has still to stop at

vars == <<phase, blind, marks, prog, sourceToIds, knownIds, breakpoints, singleHits, asked>>


TypeOK ==
  /\ phase \in {"idle", "running", "paused"}
  /\ blind \in BOOLEAN
  /\ marks \subseteq Lines
  /\ prog \in Program
  /\ DOMAIN sourceToIds \subseteq {"source", "library"}
  /\ sourceToIds \in [DOMAIN sourceToIds -> Nat]
  /\ knownIds \subseteq Nat
  /\ breakpoints \subseteq Nat \X Lines
  /\ singleHits \subseteq Nat \X Lines
  /\ asked \subseteq Lines

-----------------------------------------------------------------------------
(* BreakpointsTable.                                                       *)

Units(p) == {p.units[i] : i \in DOMAIN p.units}

\* A later registration of the same file name replaces the earlier one.
LastId(p, f) ==
  LET last == CHOOSE i \in DOMAIN p.units :
                /\ p.units[i].file = f
                /\ \A j \in DOMAIN p.units : p.units[j].file = f => j <= i
  IN  p.units[last].id

Registered(p) == [f \in {u.file : u \in Units(p)} |-> LastId(p, f)]

\* Mutant: the parts of a location are swapped.
LocatedSwapped(table, f, ls) == IF f \in DOMAIN table THEN ls \X {table[f]} ELSE {}

\* What a file name and lines of it stand for; nothing when it is unknown.
Located(table, f, ls) == IF f \in DOMAIN table THEN {table[f]} \X ls ELSE {}

-----------------------------------------------------------------------------
(* The GUI thread.  Every access to the table takes the machine's mutex.   *)

\* prepareRunner names a text of a course by its path, and so does the plugin
\* when it loads it; toggles and `run to cursor' by toLocalFile, which is empty.
EditorName == IF Local THEN "source" ELSE "none"

Init ==
  /\ phase = "idle" /\ blind = FALSE
  /\ marks = {}
  /\ prog \in Programs
  /\ sourceToIds = [f \in {} |-> 0]
  /\ knownIds = {} /\ breakpoints = {} /\ singleHits = {}
  /\ asked = {}

\* Mutant: the marks are inserted before the program is loaded.
PrepareEarly(p) ==
  /\ prog' = p
  /\ sourceToIds' = Registered(p)
  /\ knownIds' = {u.id : u \in Units(p)}
  /\ breakpoints' = Located(sourceToIds, "source", marks)

\* prepareRunner: the load resets the table and registers the units, then the
\* marks are inserted.  What follows in the same command uses the new table.
Prepare(p) ==
  /\ prog' = p
  /\ sourceToIds' = Registered(p)
  /\ knownIds' = {u.id : u \in Units(p)}
  /\ breakpoints' = Located(sourceToIds', "source", marks)

KeepProgram == UNCHANGED <<prog, sourceToIds, knownIds, breakpoints>>

\* Mutant: a load forgets the single hits.
RunKeepsHits(b) ==
  /\ \/ /\ phase = "idle"
        /\ \E p \in Programs : Prepare(p)
        /\ asked' = {} /\ UNCHANGED singleHits
        /\ blind' = b
     \/ /\ phase = "paused"
        /\ KeepProgram
        /\ blind' = (blind \/ b)
        /\ UNCHANGED <<singleHits, asked>>
  /\ phase' = "running"
  /\ UNCHANGED marks

\* Any run but `run to cursor': a new program, or the suspended one goes on.
Run(b) ==
  /\ \/ /\ phase = "idle"
        /\ \E p \in Programs : Prepare(p)
        /\ singleHits' = {} /\ asked' = {}
        /\ blind' = b
     \/ /\ phase = "paused"
        /\ KeepProgram
        /\ blind' = (blind \/ b)
        /\ UNCHANGED <<singleHits, asked>>
  /\ phase' = "running"
  /\ UNCHANGED marks

\* Mutant: the single hit is set before the program is loaded.
RunToCursorEarly(l) ==
  /\ \/ /\ phase = "idle"
        /\ \E p \in Programs : Prepare(p)
        /\ singleHits' = Located(sourceToIds, EditorName, {l})
        /\ asked' = {l}
        /\ blind' = FALSE
     \/ /\ phase # "idle"
        /\ KeepProgram
        /\ singleHits' = singleHits \cup Located(sourceToIds, EditorName, {l})
        /\ asked' = asked \cup {l}
        /\ UNCHANGED blind
  /\ phase' = "running"
  /\ UNCHANGED marks

\* `Run to cursor' is never disabled, not even while the program runs.
RunToCursor(l) ==
  /\ \/ /\ phase = "idle"
        /\ \E p \in Programs : Prepare(p)
        /\ singleHits' = Located(sourceToIds', EditorName, {l})
        /\ asked' = {l}
        /\ blind' = FALSE
     \/ /\ phase # "idle"
        /\ KeepProgram
        /\ singleHits' = singleHits \cup Located(sourceToIds, EditorName, {l})
        /\ asked' = asked \cup {l}
        /\ UNCHANGED blind
  /\ phase' = "running"
  /\ UNCHANGED marks

\* Mutant: a removed mark is not passed on.
ToggleKeeps(l) ==
  /\ IF l \in marks
     THEN marks' = marks \ {l} /\ UNCHANGED breakpoints
     ELSE /\ marks' = marks \cup {l}
          /\ breakpoints' = breakpoints \cup Located(sourceToIds, EditorName, {l})
  /\ UNCHANGED <<phase, blind, prog, sourceToIds, knownIds, singleHits, asked>>

\* A click beside a line, at any time.
Toggle(l) ==
  /\ IF l \in marks
     THEN /\ marks' = marks \ {l}
          /\ breakpoints' = breakpoints \ Located(sourceToIds, EditorName, {l})
     ELSE /\ marks' = marks \cup {l}
          /\ breakpoints' = breakpoints \cup Located(sourceToIds, EditorName, {l})
  /\ UNCHANGED <<phase, blind, prog, sourceToIds, knownIds, singleHits, asked>>

\* Editing moves, removes and restores lines with their marks.
Edit ==
  /\ phase = "idle"
  /\ marks' \in SUBSET Lines
  /\ UNCHANGED <<phase, blind, prog, sourceToIds, knownIds, breakpoints, singleHits, asked>>

-----------------------------------------------------------------------------
(* The evaluating thread.                                                  *)

HasLine(u, l) == u.file = "source" => prog.module[l] = u.id

\* processBreakpointHit, asked only outside blind mode.
Stops(u, l) == ~blind /\ <<u.id, l>> \in breakpoints \cup singleHits

\* Mutant: a single hit stays in the table.
EvalLineKeeps(u, l) ==
  /\ phase = "running"
  /\ HasLine(u, l)
  /\ IF Stops(u, l)
     THEN phase' = "paused" /\ asked' = asked \ {l}
     ELSE UNCHANGED <<phase, asked>>
  /\ UNCHANGED <<blind, marks, prog, sourceToIds, knownIds, breakpoints, singleHits>>

\* do_line with a line number; the run control suspends the program on a hit.
EvalLine(u, l) ==
  /\ phase = "running"
  /\ HasLine(u, l)
  /\ IF Stops(u, l)
     THEN /\ phase' = "paused"
          /\ singleHits' = singleHits \ {<<u.id, l>>}
          /\ asked' = asked \ {l}
     ELSE UNCHANGED <<phase, singleHits, asked>>
  /\ UNCHANGED <<blind, marks, prog, sourceToIds, knownIds, breakpoints>>

\* The end of a step, or PAUSE, which turns blind mode off.
Suspend ==
  /\ phase = "running" /\ phase' = "paused"
  /\ blind' = FALSE
  /\ UNCHANGED <<marks, prog, sourceToIds, knownIds, breakpoints, singleHits, asked>>

\* The program ends, fails, or is stopped.
Over ==
  /\ phase # "idle" /\ phase' = "idle"
  /\ UNCHANGED <<blind, marks, prog, sourceToIds, knownIds, breakpoints, singleHits, asked>>

Next ==
  \/ \E b \in BOOLEAN : Run(b)
  \/ \E l \in Lines : RunToCursor(l)
  \/ \E l \in Lines : Toggle(l)
  \/ Edit
  \/ \E u \in Units(prog), l \in Lines : EvalLine(u, l)
  \/ Suspend
  \/ Over

Spec == Init /\ [][Next]_vars
-----------------------------------------------------------------------------
(* Properties.                                                             *)

\* While a program is run, the machine's table holds the editor's marks, no
\* matter which were set before the run, during it, or by an earlier run: the
\* marks are copied on load, and every later toggle is passed on.
TableHoldsMarks == phase # "idle" => breakpoints = Located(sourceToIds, "source", marks)

\* A hit names a module the table knows: registeredSourceFileName throws
\* otherwise, in the evaluating thread.
HitsAreKnown == \A b \in breakpoints \cup singleHits : b[1] \in knownIds

\* A marked line of the program can not be evaluated without suspending it,
\* unless in blind mode: the breakpoint of menu.xml.
MarkedLinesStop ==
  phase = "running" /\ ~blind =>
    \A u \in Units(prog), l \in marks : u.file = "source" /\ HasLine(u, l) => Stops(u, l)

\* Only marked lines, and the line of a `run to cursor' the first time it is
\* reached, suspend the program: never a line of a library file.
OnlyAskedLinesStop ==
  phase = "running" =>
    \A u \in Units(prog), l \in Lines :
      HasLine(u, l) /\ Stops(u, l) => u.file = "source" /\ l \in marks \cup asked

\* menu.xml: `run to cursor' runs the program to the line of the cursor, where
\* it is suspended.
CursorLineStops ==
  phase = "running" /\ ~blind =>
    \A u \in Units(prog), l \in asked : u.file = "source" /\ HasLine(u, l) => Stops(u, l)
=============================================================================
