-------------------------- MODULE BreakpointsProofs --------------------------
(***************************************************************************)
(* The breakpoint table against the editor's marks, for any lines and any  *)
(* programs.                                                               *)
(***************************************************************************)
EXTENDS Breakpoints, WellFoundedInduction, TLAPS

\* All code of the source is in one module, and no library file uses its id.
OneModule(p) ==
  /\ \A u, v \in Units(p) : u.file = "source" /\ v.file = "source" => u.id = v.id
  /\ \A u, v \in Units(p) : u.file = "source" /\ v.file = "library" => u.id # v.id

\* A set of natural numbers has a least element.
LEMMA LeastNumber ==
  ASSUME NEW T, T \subseteq Nat, T # {}
  PROVE  \E m \in T : \A l \in T : m <= l
<1> DEFINE R == OpToRel(<, Nat)
<1>1. IsWellFoundedOn(R, Nat)
  BY NatLessThanWellFounded
<1>2. \A l, m \in Nat : l < m => <<l, m>> \in R
  BY DEF OpToRel
<1> HIDE DEF R
<1>3. PICK m \in T : \A l \in T : ~ (<<l, m>> \in R)
  BY <1>1, WFMin
<1>4. \A l \in T : ~ (l < m)
  BY <1>2, <1>3, Zenon
<1>5. \A l \in T : m <= l
  BY <1>4
<1> QED
  BY <1>5, Zenon

\* A file with units has a last one.
LEMMA LastUnit ==
  ASSUME NEW p \in Program, NEW f, NEW k \in DOMAIN p.units, p.units[k].file = f
  PROVE  \E i \in DOMAIN p.units :
           /\ p.units[i].file = f
           /\ \A j \in DOMAIN p.units : p.units[j].file = f => j <= i
<1> DEFINE n == Len(p.units)
           T == {m \in 0..n : n - m \in DOMAIN p.units /\ p.units[n - m].file = f}
<1>1. n \in Nat /\ DOMAIN p.units = 1..n
  BY DEF Program
<1>2. T \subseteq Nat /\ n - k \in T
  <2>1. k \in 1..n
    BY <1>1
  <2>2. n - k \in 0..n /\ n - (n - k) = k
    BY <1>1, <2>1
  <2> QED
    BY <2>2
<1> HIDE DEF n
<1>3. PICK m \in T : \A l \in T : m <= l
  BY <1>2, LeastNumber
<1>4. n - m \in DOMAIN p.units /\ p.units[n - m].file = f
  OBVIOUS
<1>5. ASSUME NEW j \in DOMAIN p.units, p.units[j].file = f
      PROVE  j <= n - m
  <2>1. j \in 1..n /\ m \in 0..n
    BY <1>1
  <2>2. n - j \in 0..n /\ n - (n - j) = j
    BY <1>1, <2>1
  <2>3. n - j \in T
    BY <1>5, <2>2
  <2>4. m <= n - j
    BY <1>3, <2>3
  <2> QED
    BY <1>1, <2>1, <2>4
<1> QED
  BY <1>4, <1>5

\* The table gives a file the id of one of its units.
LEMMA RegisteredId ==
  ASSUME NEW p \in Program, NEW f \in DOMAIN Registered(p)
  PROVE  \E u \in Units(p) : u.file = f /\ Registered(p)[f] = u.id
<1>1. Registered(p)[f] = LastId(p, f)
  BY DEF Registered
<1>2. PICK k \in DOMAIN p.units : p.units[k].file = f
  BY DEF Registered, Units
<1> DEFINE Q(i) == /\ p.units[i].file = f
                   /\ \A j \in DOMAIN p.units : p.units[j].file = f => j <= i
           last == CHOOSE i \in DOMAIN p.units : Q(i)
<1>3. \E i \in DOMAIN p.units : Q(i)
  BY <1>2, LastUnit
<1>4. last \in DOMAIN p.units /\ Q(last)
  <2> HIDE DEF Q
  <2> QED
    BY <1>3, Zenon
<1>5. LastId(p, f) = p.units[last].id
  BY DEF LastId
<1>6. p.units[last] \in Units(p) /\ p.units[last].file = f
  BY <1>4, Zenon DEF Units
<1> QED
  BY <1>1, <1>5, <1>6, Zenon

-----------------------------------------------------------------------------

\* The table belongs to the program that is being run.
Loaded ==
  /\ phase # "idle" => sourceToIds = Registered(prog)
  /\ \A f \in DOMAIN sourceToIds : sourceToIds[f] \in knownIds

TableInv == TypeOK /\ Loaded /\ HitsAreKnown

LEMMA PrepareTable ==
  ASSUME TypeOK, NEW p \in Programs, Prepare(p)
  PROVE  /\ prog' \in Program
         /\ (DOMAIN sourceToIds)' \subseteq {"source", "library"}
         /\ sourceToIds' \in [DOMAIN sourceToIds' -> Nat]
         /\ knownIds' \subseteq Nat
         /\ breakpoints' \subseteq Nat \X Lines
         /\ \A f \in DOMAIN sourceToIds' : sourceToIds'[f] \in knownIds'
         /\ \A b \in breakpoints' : b[1] \in knownIds'
         /\ sourceToIds' = Registered(prog')
<1>1. /\ p \in Program /\ prog' = p /\ sourceToIds' = Registered(p)
      /\ knownIds' = {u.id : u \in Units(p)}
      /\ breakpoints' = Located(sourceToIds', "source", marks)
  BY BreakProgramsAssumption DEF Prepare
<1>2. Units(p) \subseteq Unit
  BY <1>1 DEF Program, Units
<1>3. knownIds' \subseteq Nat
  BY <1>1, <1>2 DEF Unit
<1>4. DOMAIN Registered(p) \subseteq {"source", "library"}
  BY <1>2 DEF Registered, Unit
<1>5. \A f \in DOMAIN Registered(p) : Registered(p)[f] \in {u.id : u \in Units(p)}
  BY <1>1, RegisteredId
<1>6. Registered(p) \in [DOMAIN Registered(p) -> Nat]
  <2>1. Registered(p) = [f \in DOMAIN Registered(p) |-> Registered(p)[f]]
    BY DEF Registered
  <2> QED
    BY <1>1, <1>3, <1>5, <2>1
<1>7. breakpoints' \subseteq knownIds' \X Lines
  BY <1>1, <1>5 DEF Located, TypeOK
<1> QED
  BY <1>1, <1>3, <1>4, <1>5, <1>6, <1>7

\* What the GUI inserts is known, and within the types.
LEMMA LocatedKnown ==
  ASSUME TableInv, NEW f, NEW ls \in SUBSET Lines
  PROVE  Located(sourceToIds, f, ls) \subseteq knownIds \X Lines
BY DEF TableInv, Loaded, Located

LEMMA TableStep == TableInv /\ [Next]_vars => TableInv'
<1> SUFFICES ASSUME TableInv, [Next]_vars PROVE TableInv'
  OBVIOUS
<1> USE DEF TableInv, TypeOK, Loaded, HitsAreKnown
<1>1. ASSUME NEW b \in BOOLEAN, Run(b) PROVE TableInv'
  <2>1. CASE phase = "idle"
    <3>1. PICK p \in Programs : Prepare(p)
      BY <1>1, <2>1 DEF Run
    <3>2. /\ singleHits' = {} /\ asked' = {} /\ blind' = b
          /\ phase' = "running" /\ marks' = marks
      BY <1>1, <2>1 DEF Run
    <3> QED
      BY <3>1, <3>2, PrepareTable
  <2>2. CASE phase # "idle"
    BY <1>1, <2>2 DEF Run, KeepProgram
  <2> QED
    BY <2>1, <2>2
<1>2. ASSUME NEW l \in Lines, RunToCursor(l) PROVE TableInv'
  <2>1. CASE phase = "idle"
    <3>1. PICK p \in Programs : Prepare(p)
      BY <1>2, <2>1 DEF RunToCursor
    <3>2. /\ singleHits' = Located(sourceToIds', EditorName, {l}) /\ asked' = {l}
          /\ blind' = FALSE /\ phase' = "running" /\ marks' = marks
      BY <1>2, <2>1 DEF RunToCursor
    <3>3. /\ \A f \in DOMAIN sourceToIds' : sourceToIds'[f] \in knownIds'
          /\ knownIds' \subseteq Nat
      BY <3>1, PrepareTable
    <3>4. singleHits' \subseteq knownIds' \X Lines
      BY <3>2, <3>3 DEF Located
    <3>5. singleHits' \subseteq Nat \X Lines /\ \A b \in singleHits' : b[1] \in knownIds'
      BY <3>3, <3>4
    <3> QED
      BY <3>1, <3>2, <3>5, PrepareTable
  <2>2. CASE phase # "idle"
    <3>1. Located(sourceToIds, EditorName, {l}) \subseteq knownIds \X Lines
      BY LocatedKnown
    <3>2. /\ singleHits' = singleHits \cup Located(sourceToIds, EditorName, {l})
          /\ asked' = asked \cup {l} /\ phase' = "running"
          /\ UNCHANGED <<prog, sourceToIds, knownIds, breakpoints, blind, marks>>
      BY <1>2, <2>2 DEF RunToCursor, KeepProgram
    <3>3. singleHits' \subseteq Nat \X Lines /\ \A b \in singleHits' : b[1] \in knownIds
      BY <3>1, <3>2
    <3> QED
      BY <2>2, <3>2, <3>3
  <2> QED
    BY <2>1, <2>2
<1>3. ASSUME NEW l \in Lines, Toggle(l) PROVE TableInv'
  <2>1. Located(sourceToIds, EditorName, {l}) \subseteq knownIds \X Lines
    BY LocatedKnown
  <2>2. /\ marks' \subseteq Lines
        /\ breakpoints' \subseteq breakpoints \cup Located(sourceToIds, EditorName, {l})
        /\ UNCHANGED <<phase, blind, prog, sourceToIds, knownIds, singleHits, asked>>
    BY <1>3 DEF Toggle
  <2>3. breakpoints' \subseteq Nat \X Lines /\ \A b \in breakpoints' : b[1] \in knownIds
    BY <2>1, <2>2
  <2> QED
    BY <2>2, <2>3
<1>4. CASE Edit
  BY <1>4 DEF Edit
<1>5. ASSUME NEW u \in Units(prog), NEW l \in Lines, EvalLine(u, l) PROVE TableInv'
  BY <1>5 DEF EvalLine
<1>6. CASE Suspend
  BY <1>6 DEF Suspend
<1>7. CASE Over
  BY <1>7 DEF Over
<1>8. CASE UNCHANGED vars
  BY <1>8 DEF vars
<1> QED
  BY <1>1, <1>2, <1>3, <1>4, <1>5, <1>6, <1>7, <1>8 DEF Next

LEMMA TableInit == Init => TableInv
BY BreakProgramsAssumption DEF Init, TableInv, TypeOK, Loaded, HitsAreKnown

LEMMA TableAlways == Spec => []TableInv
BY TableInit, TableStep, PTL DEF Spec

\* The state of the breakpoint table and of the editor's marks is well typed.
THEOREM BreakTypesCorrect == Spec => []TypeOK
<1>1. TableInv => TypeOK
  BY DEF TableInv
<1> QED
  BY <1>1, TableAlways, PTL

\* Every location in the machine's table is in a module whose file name is known:
\* looking the name up on a hit does not throw.
THEOREM HitsHaveFiles == Spec => []HitsAreKnown
<1>1. TableInv => HitsAreKnown
  BY DEF TableInv
<1> QED
  BY <1>1, TableAlways, PTL

-----------------------------------------------------------------------------

\* The single hits left are the lines asked for and not reached.
SingleHitsAreAsked ==
  phase # "idle" => singleHits = Located(sourceToIds, "source", asked)

MarksInv == TableInv /\ TableHoldsMarks /\ SingleHitsAreAsked

\* Inserting and removing lines changes what is located by just these.
LEMMA LocatedChange ==
  ASSUME NEW t, NEW f, NEW A, NEW B
  PROVE  /\ Located(t, f, A \cup B) = Located(t, f, A) \cup Located(t, f, B)
         /\ Located(t, f, A \ B) = Located(t, f, A) \ Located(t, f, B)
         /\ Located(t, f, {}) = {}
BY DEF Located

LEMMA MarksStep ==
  ASSUME Local, MarksInv, [Next]_vars
  PROVE  (TableHoldsMarks /\ SingleHitsAreAsked)'
<1> USE DEF TableHoldsMarks, SingleHitsAreAsked, MarksInv
<1>0. EditorName = "source"
  BY DEF EditorName
<1>1. ASSUME NEW b \in BOOLEAN, Run(b) PROVE (TableHoldsMarks /\ SingleHitsAreAsked)'
  <2>1. CASE phase = "idle"
    <3>1. PICK p \in Programs : Prepare(p)
      BY <1>1, <2>1 DEF Run
    <3>2. singleHits' = {} /\ asked' = {} /\ marks' = marks
      BY <1>1, <2>1 DEF Run
    <3>3. breakpoints' = Located(sourceToIds', "source", marks)
      BY <3>1 DEF Prepare
    <3>4. Located(sourceToIds', "source", {}) = {}
      BY LocatedChange
    <3> QED
      BY <3>2, <3>3, <3>4
  <2>2. CASE phase # "idle"
    <3>1. UNCHANGED <<sourceToIds, breakpoints, singleHits, asked, marks>>
      BY <1>1, <2>2 DEF Run, KeepProgram
    <3> QED
      BY <2>2, <3>1
  <2> QED
    BY <2>1, <2>2
<1>2. ASSUME NEW l \in Lines, RunToCursor(l)
      PROVE  (TableHoldsMarks /\ SingleHitsAreAsked)'
  <2>1. CASE phase = "idle"
    <3>1. PICK p \in Programs : Prepare(p)
      BY <1>2, <2>1 DEF RunToCursor
    <3>2. singleHits' = Located(sourceToIds', "source", {l}) /\ asked' = {l} /\ marks' = marks
      BY <1>0, <1>2, <2>1 DEF RunToCursor
    <3> QED
      BY <3>1, <3>2 DEF Prepare
  <2>2. CASE phase # "idle"
    <3>1. /\ singleHits' = singleHits \cup Located(sourceToIds, "source", {l})
          /\ asked' = asked \cup {l}
          /\ UNCHANGED <<sourceToIds, breakpoints, marks>>
      BY <1>0, <1>2, <2>2 DEF RunToCursor, KeepProgram
    <3> QED
      BY <2>2, <3>1, LocatedChange
  <2> QED
    BY <2>1, <2>2
<1>3. ASSUME NEW l \in Lines, Toggle(l) PROVE (TableHoldsMarks /\ SingleHitsAreAsked)'
  <2>1. /\ \/ /\ marks' = marks \ {l}
              /\ breakpoints' = breakpoints \ Located(sourceToIds, "source", {l})
           \/ /\ marks' = marks \cup {l}
              /\ breakpoints' = breakpoints \cup Located(sourceToIds, "source", {l})
        /\ UNCHANGED <<phase, sourceToIds, singleHits, asked>>
    BY <1>0, <1>3 DEF Toggle
  <2>2. /\ Located(sourceToIds, "source", marks \ {l})
             = Located(sourceToIds, "source", marks) \ Located(sourceToIds, "source", {l})
        /\ Located(sourceToIds, "source", marks \cup {l})
             = Located(sourceToIds, "source", marks) \cup Located(sourceToIds, "source", {l})
    BY DEF Located
  <2>3. phase # "idle" => breakpoints' = Located(sourceToIds, "source", marks')
    BY <2>1, <2>2
  <2> QED
    BY <2>1, <2>3
<1>4. CASE Edit
  BY <1>4 DEF Edit
<1>5. ASSUME NEW u \in Units(prog), NEW l \in Lines, EvalLine(u, l)
      PROVE  (TableHoldsMarks /\ SingleHitsAreAsked)'
  <2>1. phase = "running" /\ UNCHANGED <<marks, sourceToIds, breakpoints>>
    BY <1>5 DEF EvalLine
  <2>2. CASE Stops(u, l)
    <3>1. singleHits' = singleHits \ {<<u.id, l>>} /\ asked' = asked \ {l}
      BY <1>5, <2>2 DEF EvalLine
    <3>2. <<u.id, l>> \in Located(sourceToIds, "source", marks \cup asked)
      BY <2>1, <2>2, LocatedChange DEF Stops
    <3>3. Located(sourceToIds, "source", {l}) = {<<u.id, l>>}
      BY <3>2 DEF Located
    <3>4. Located(sourceToIds, "source", asked \ {l})
            = Located(sourceToIds, "source", asked) \ {<<u.id, l>>}
      BY <3>3 DEF Located
    <3>5. phase # "idle"
      BY <2>1
    <3> QED
      BY <2>1, <3>1, <3>4, <3>5
  <2>3. CASE ~Stops(u, l)
    <3>1. UNCHANGED <<phase, singleHits, asked>>
      BY <1>5, <2>3 DEF EvalLine
    <3> QED
      BY <2>1, <3>1
  <2> QED
    BY <2>2, <2>3
<1>6. CASE Suspend
  BY <1>6 DEF Suspend
<1>7. CASE Over
  BY <1>7 DEF Over
<1>8. CASE UNCHANGED vars
  BY <1>8 DEF vars
<1> QED
  BY <1>1, <1>2, <1>3, <1>4, <1>5, <1>6, <1>7, <1>8 DEF Next

LEMMA MarksAlways == ASSUME Local PROVE Spec => []MarksInv
<1>1. Init => MarksInv
  BY TableInit DEF Init, MarksInv, TableHoldsMarks, SingleHitsAreAsked
<1>2. MarksInv /\ [Next]_vars => MarksInv'
  BY TableStep, MarksStep DEF MarksInv
<1> QED
  BY <1>1, <1>2, PTL DEF Spec

\* For a text of a local file, whatever is toggled before or during a run: the
\* machine's table holds the marks of the editor.
THEOREM MarksAreHeld == ASSUME Local PROVE Spec => []TableHoldsMarks
<1>1. MarksInv => TableHoldsMarks
  BY DEF MarksInv
<1> QED
  BY <1>1, MarksAlways, PTL

-----------------------------------------------------------------------------
(* The table's answers, for programs whose source is one module.           *)

\* The id the table has for the source is that of any unit of the source.
LEMMA SourceId ==
  ASSUME TableInv, phase # "idle", OneModule(prog),
         NEW u \in Units(prog), u.file = "source"
  PROVE  "source" \in DOMAIN sourceToIds /\ sourceToIds["source"] = u.id
<1>1. sourceToIds = Registered(prog) /\ prog \in Program
  BY DEF TableInv, Loaded, TypeOK
<1>2. "source" \in DOMAIN Registered(prog)
  BY DEF Registered
<1>3. PICK v \in Units(prog) : v.file = "source" /\ Registered(prog)["source"] = v.id
  BY <1>1, <1>2, RegisteredId
<1> QED
  BY <1>1, <1>2, <1>3 DEF OneModule

LEMMA AnswersRight ==
  ASSUME MarksInv, OneModule(prog)
  PROVE  MarkedLinesStop /\ CursorLineStops /\ OnlyAskedLinesStop
<1> USE DEF MarksInv, TableHoldsMarks, SingleHitsAreAsked
<1>1. MarkedLinesStop
  <2> SUFFICES ASSUME phase = "running", ~blind, NEW u \in Units(prog), NEW l \in marks,
                      u.file = "source"
               PROVE  Stops(u, l)
    BY DEF MarkedLinesStop
  <2> QED
    BY SourceId DEF Stops, Located
<1>2. CursorLineStops
  <2> SUFFICES ASSUME phase = "running", ~blind, NEW u \in Units(prog), NEW l \in asked,
                      u.file = "source"
               PROVE  Stops(u, l)
    BY DEF CursorLineStops
  <2> QED
    BY SourceId DEF Stops, Located
<1>3. OnlyAskedLinesStop
  <2> SUFFICES ASSUME phase = "running", NEW u \in Units(prog), NEW l \in Lines, Stops(u, l)
               PROVE  u.file = "source" /\ l \in marks \cup asked
    BY DEF OnlyAskedLinesStop
  <2>1. /\ "source" \in DOMAIN sourceToIds
        /\ u.id = sourceToIds["source"]
        /\ l \in marks \cup asked
    BY DEF Stops, Located
  <2>2. prog \in Program /\ sourceToIds = Registered(prog)
    BY DEF TableInv, TypeOK, Loaded
  <2>3. PICK v \in Units(prog) : v.file = "source" /\ Registered(prog)["source"] = v.id
    BY <2>1, <2>2, RegisteredId
  <2>4. u.file \in {"source", "library"}
    <3>1. PICK i \in DOMAIN prog.units : u = prog.units[i]
      BY DEF Units
    <3>2. prog.units \in Seq(Unit)
      BY <2>2 DEF Program
    <3>3. u \in Unit
      BY <3>1, <3>2
    <3> QED
      BY <3>3 DEF Unit
  <2> QED
    BY <2>1, <2>2, <2>3, <2>4 DEF OneModule
<1> QED
  BY <1>1, <1>2, <1>3

Listed == prog \in Programs

LEMMA OneModuleAlways ==
  ASSUME \A p \in Programs : OneModule(p)
  PROVE  Spec => []OneModule(prog)
<1>1. Init => Listed
  BY DEF Init, Listed
<1>2. Listed /\ [Next]_vars => Listed'
  BY DEF Next, Run, RunToCursor, Toggle, Edit, EvalLine, Suspend, Over, Prepare,
         KeepProgram, vars, Listed
<1>3. Listed => OneModule(prog)
  BY DEF Listed
<1> QED
  BY <1>1, <1>2, <1>3, PTL DEF Spec

\* For a text of a local file and programs of one module: a marked line can not
\* be evaluated unnoticed outside blind mode.
THEOREM BreakpointsStop ==
  ASSUME Local, \A p \in Programs : OneModule(p)
  PROVE  Spec => []MarkedLinesStop
BY AnswersRight, MarksAlways, OneModuleAlways, PTL

\* Under the same conditions `run to cursor' stops where it was asked to.
THEOREM CursorStops ==
  ASSUME Local, \A p \in Programs : OneModule(p)
  PROVE  Spec => []CursorLineStops
BY AnswersRight, MarksAlways, OneModuleAlways, PTL

\* Under the same conditions nothing else stops the program: no line without a
\* mark, no line of a library file, no line of a `run to cursor' a second time.
THEOREM NothingElseStops ==
  ASSUME Local, \A p \in Programs : OneModule(p)
  PROVE  Spec => []OnlyAskedLinesStop
BY AnswersRight, MarksAlways, OneModuleAlways, PTL
=============================================================================
