# Kumir 2: a TLA+ model of running, stepping and stopping programs

Kumir 2 is an educational programming system: an editor and analyser for the
Kumir language, a generator of byte code, a virtual machine, and a GUI in which
a program is run, stepped through, suspended and stopped. This directory models
what is concurrent and long-lived in it: the session with a program, what the
threads wait for, the dialogue of program and user, and the history of the edited
text. Paths below are relative to the repository's root; those of the code omit
the leading `src/`.

Contents: [inventory](#inventory), [plan](#plan), [modules](#modules),
[runs](#runs), [fairness](#fairness), [proofs](#proofs),
[disagreements](#disagreements-with-the-documentation),
[not modelled](#what-is-not-modelled).

## Inventory

| component | state it keeps | operations | what must be right |
|---|---|---|---|
| Run menu, `KumirProgram` (`src/plugins/coregui/kumirprogram.cpp`) | `state_` (Idle, BlindRun, RegularRun, TestingRun, StepRun), which actions are enabled | blindRun, regularRun, runToCursor, testingRun, stepRun, stepIn, stepOut, stop, handleRunnerStopped, switchGlobalState | it agrees with the plugin on whether a program is being run; a program is loaded only when none is |
| Runner plugin, `KumirRunPlugin` (`src/plugins/kumircoderun/runplugin.cpp`) | `done_`, the `Run` object | loadProgram, the run commands (reset, arm, start), terminate, handleThreadFinished | each end of a run is reported, as a pause only if it can be resumed |
| Evaluating thread, `Run` (`run.cpp`) | `stoppingFlag_`, `stepDoneFlag_`, `algDoneFlag_`, `breakHitFlag_`, `ignoreLineChangeFlag_`, `_runMode`, the QThread's own state | run (the loop), mustStop, the debugger's notices, stop, runBlind/Continuous/StepOver/StepIn/ToEnd | steps stop where they should; a stop ends the run |
| Virtual machine, contexts (`kumir2-libs/vm/vm.hpp`) | `contextsStack_` with a run mode in every context, `blindMode_`, `nextCallInto_`, `error_`, `entryPoint_` | setProgram, reset, setNextCall..., evaluateNextInstruction (call, return, line, pause, halt) | run modes follow the commands; recursion is bounded |
| Virtual machine, values and library (`vm.hpp`, `variant.hpp`, `stdlib`) | value stack, locals, globals, files | the arithmetic and data instructions | data only, sequential |
| Virtual machine, stacks mutex (`vm.hpp`, `kumvariablesmodel.cpp`) | `stacksMutex_` | lock/unlock in the instructions, in the breakpoint commands and in the variables view; the forced unlock of `reset` | every lock is released; nobody waits with it held for what needs it |
| Breakpoints (`vm_breakpoints_table.hpp`, `mainwindow.cpp`, `editor.cpp`) | marks of the editor's lines; `breakpoints_`, `singleHits_`, `sourceToIds_`, `idsToSources_` | toggle, prepareRunner, run to cursor, do_line's look-up, reset of the table | the table answers what the editor shows |
| Global session state (`pluginmanager.cpp`, `coregui/plugin.cpp`) | GS_Unlocked, GS_Observe, GS_Running, GS_Pause | switchGlobalState, called by the menu, by the report of a run and by edits | the text is edited only while no program is run |
| Waits of the thread (`guirun.cpp`, `commonrun.cpp`) | flags and values of the input and main argument functors, stop flag of the delay | the functors' operators, finishInput, `DelayFunctor::stop`, actor calls | a wait ends with its own answer or with a stop |
| Terminal (`coregui/terminal*.cpp`) | sessions, the plane's input mode, the request being answered | output, input, keys, Return, clear, finish | keys reach the request that waits for them; output is not lost |
| Plugin manager's lifecycle | plugin states | load, start, prepareToStop, stop | order of start and stop |
| Editor (`src/plugins/editor`) | text, undo stack with a clean index, marks | typing, removing, blocks, comments, imports, drops, undo, redo, save | undo restores the text; "not modified" means saved; marks move with their lines |
| Analyser, code generator | syntax tree, byte code | compile | sequential translation |
| Course manager, Python runner, LLVM generator, actors, widgets | their own documents | | outside the core |

How they interact:

```
 user ── actions ──> KumirProgram ── runXxx() ──> KumirRunPlugin ── flags ──> Run (QThread)
                       ^   │                          │  ^                       │
      switchGlobalState│   │loadProgram, breakpoints  │  │ finished (queued)     │ evaluateNextInstruction
   stopped (direct)    │   v                          v  │ userTerminated        v
                       └──────────── KumirVM: contexts, modes, breakpoint table ─┘
                                         │  notices (direct, in the thread)
                                         └──> Run::noticeOn..., debuggerNotice...
```

The menu, the plugin and everything the user does are in the GUI thread. `Run`
is a `QThread`; its `run()` evaluates instructions while `mustStop()` is false.
Nothing locks the two against each other: flags and run modes are plain fields
that both write, but for the machine's stacks, which `stacksMutex_` guards.
Requests for input and output are posted to the GUI thread; the answer comes back
by a direct call and a polled flag. `finished` crosses from the thread to the GUI as a queued
event, `userTerminated` and `stopped` are direct calls in the GUI thread.

What is hard here: a run command is four steps (load, reset and flags, mode of
the machine, `start()`) with the thread possibly still alive; `QThread::start` does
nothing to a running thread; a stop may be given when the thread is past its loop; the end
of one run may be reported twice, or after the next command; whether a run is
"over" is kept in three places (`state_`, `done_`, the contexts); each context
carries a run mode from some earlier command. A mutex that is not recursive is
taken and freed several times within an instruction, with notices to the
debugger in between; one answer goes to every functor that may be waiting. In
the editor, a command does not keep the text it found: undo works out the
opposite change, after merging with other commands and wherever the cursor is
by then. `PROJECT.json` lists these hazards by line.

## Plan

In the order written, the most important behaviour first.

1. `VMContexts`: the context stack and its run modes.
2. `RunControl` (extends `VMContexts`): menu, plugin, thread and machine.
3. `KumirSession`: the abstract session of the user guide, implemented by
   `RunControl` for a patient user.
4. `Breakpoints`: the editor's marks against the machine's table.
5. `RunControlProofs` (with the lemmas about `VMContexts`), `BreakpointsProofs`.
6. `StacksMutex`, `StacksMutexProofs`: who holds the stacks mutex, in which
   instruction, while something is waited for.
7. `InputDialogue`, `InputDialogueProofs`: whose answer reaches whom.
8. `EditorUndo`, `TextHistory`, `TextHistoryProofs`: what undo, redo and "saved"
   promise, and the commands that implement it; then `EditorTextProofs`, the
   operations on the text, and `EditorUndoProofs`, the commands, the stack and the
   refinement.
9. `StackProofs`: how deep the context stack grows and where steps stop, which
   needs the shape of the whole stack in the invariants.

What could follow: the order of initialisation and of shutdown in
`PluginManager` (a sequence the code fixes, with one refusal of a plugin as its
only branch); and a run for `stepOut` after a breakpoint of a continuous run
(`menu.xml:187-189`), where the command does nothing.

## Modules

### VMContexts

The state is the stack of contexts (`stack`: kind, run mode, own file or library
file), where the startup code of a main algorithm with parameters is (`bottom`;
it is generated without a return), `blindMode_`, `nextCallInto_` and whether
`error_` is set. A program is reduced to its shape (`Program`): its startup
algorithm, whether it has a testing algorithm, and its module initialisers. What
an algorithm evaluates is left open: any instruction its kind of code can
contain may come next. The operators `VMReset`, `SetNextCall...` and `Eval...`
are the bodies of the methods of the same name (`do_call` is `EvalCall` for the
program's own algorithms and `EvalCallLibrary` for those of another Kumir file,
`do_ret` is `EvalRet`, ...); they are operators and not a specification because
`RunControl` decides when they happen.

`do_line` looks up a breakpoint when it has a line number and reports a line
when it has a column: two instructions, `Breakpoint` and `Line` in `RunControl`.

### RunControl

Actions and code:

| actions | code |
|---|---|
| `BlindRun`, `RegularRun`, `RunToCursor`, `TestingRun`, `StepRun`, `StepIn` (when no step goes on) | the slots of `KumirProgram` up to the call of the plugin (`StartRun`): load if `state_` is Idle, `state_`, global state |
| `PluginRun` | the plugin's part of these: reset if `done_`, and the flags of `Run` |
| `StepIn`, `StepOut` of a stepped program | the slots down to the flags of `Run`: neither loads nor resets |
| `TestingRefused` | `testingRun` of a program without a testing algorithm: loaded, not run |
| `Arm` | the call `vm->setNextCall...` in the plugin |
| `Start` | `QThread::start` |
| `Stop`, `StopCheck` | `Run::stop`: the flag, then `isRunning()` and `userTerminated` |
| `HandleFinished` | the queued `finished`: `handleThreadFinished`, `stopped`, `handleRunnerStopped` and the switches of the global state |
| `Edit` | an edit in GS_Observe |
| `Check` | the loop's condition in `Run::run` |
| `Line` ... `Pause`, `AskInput`, `EvalNothing` | one instruction with its notices |
| `InputGiven`, `InputCancelled` | the end of an input wait |
| `Leave`, `PostFinished`, `Finish` | the end of `run()` and of the QThread around the `finished` signal |

Interleaving is at the granularity of these actions: the GUI thread gives up
nothing between its steps but the evaluating thread may act there. `thr` follows
Qt's QThread: `isRunning()` is false from the beginning of its finish on, the
signal is posted in between, and `start()` waits for the rest.

`setProgram` clears the loaded modules, which frees the instructions the old
contexts point to. `fresh` says whether the contexts belong to the program
loaded last: it becomes false with a load and true with the reset, a step later.
Where it is false, `hasMoreInstructions` may read anything (`MoreRead`), and so may
the thread (`EvalNothing`).

That the thread reads freed instructions is excluded for a patient user only
(`EvaluatesLoadedProgram`). An impatient one can have the thread alive while no
program is being run: a run to the cursor is given while the last run, ended by an
error, is in its finish; `start()` waits for the finish and starts the thread anew;
the report of the first end then finds the error and makes the session idle. (With a
stop in place of the error the thread may even be inside an instruction.) The next
run command loads, and until its reset the thread, at the loop's condition or in that
instruction, reads what the load has freed. No document speaks of this; the model has
it, and no property denies it.

`mark` is auxiliary: the depth at which the last step command was given, moved
down with returns. Only properties read it.

`Patient` separates two users. A patient one gives commands only while nothing
is being evaluated and no signal is queued (and may stop a running program); an
impatient one does what the enabled menu actions allow at any moment.

### KumirSession

Four modes, `active`, and six steps: what `userdocs/system/session/session.xml`
promises. A program is suspended or ended only once evaluation has ceased, and
is never evaluated while the text may be edited. `RunControl` maps GS_Unlocked
to Editing, GS_Observe to Analysis, and `active` to `Evaluating`.

GS_Pause may be *active* in this specification: `stepIn` and `stepOut` run the
program without leaving GS_Pause. The user guide's stronger sentence is the
violated run `BadPause`.

### Breakpoints

Marks of lines, the table with its file names and module ids, and single hits
of `run to cursor`. A program is the sequence of units (modules with code) that
`setProgram` registers, and the module each line belongs to. The table is
guarded by the machine's mutex, so every operation is one step. `Edit` moves and
removes marks freely while no program is run; `Toggle` and `RunToCursor` are
possible at any time, as in the code. `Local` is false for a text of a course,
whose URL `toLocalFile` maps to the empty name.

### StacksMutex

An instruction is a set of *scripts*: the sequences of steps on the mutex, and of
steps that wait (an answer, an actor's method, a delay, a notice that reads
the rows of the variables view), that the `do_...` method may follow. The scripts
are read off the locks and unlocks of `vm.hpp`, one operator per method; what is
computed between them is left out. `Run::run` is `Evaluate`, `HitBreakpoint`, `Leave`
and `EnterFinish`. The GUI thread has scripts too (`PrepareAndStart`, `PrepareToCursor`, `StartToCursor`, `Terminate`, a
`LockedRequest` for a toggled breakpoint or a look at the variables): it handles
no event before it has finished one.

The session is that of `RunControl` with less detail: the thread goes through its
finish and posts `finished`, which is counted in `pending` and handled later, even
after another start; `userTerminated` is delivered at once to a thread that is not
running; run to cursor is never disabled; step into and step out start the thread
with a stop left as it is. `patient` is chosen at the start: a patient user gives
commands only while nothing is evaluated or queued.

`OfBadKey` is a return of `do_specialcall` that leaves the mutex locked. There are
two: an input from (`vm.hpp:1951`) and an output to (`vm.hpp:2065`) a file key without a
value. `LockIsFreed` says that no other instruction does so, and `GuiIsServed`
that the GUI then, and only then, waits for ever: at the next breakpoint toggled,
variable shown or program run. The forced unlock in `reset` does not help, since
`prepareRunner` locks the mutex before it resets.

That unlock frees whatever is held (`Mutex::reset`). With a patient user it meets a
free mutex and no thread (`ResetFreesNothing`). An impatient one can bring it beside
an evaluating thread: a run to the cursor while a `finished` is queued, a stop, that
`finished`, which makes the session idle, and a run before the second `finished` is
handled or the thread has left. The mutex is then freed under the instruction in
progress, whose own unlock may free the GUI's lock. `met` (auxiliary) records such a
reset. What still holds after it: the thread waits for nobody with the mutex held and
never waits for itself. (A thread met inside an instruction was stopped, and the stop is
taken back only after the GUI has passed the mutex once more.) What is given up is the
mutual exclusion of the two threads, and `LockIsFreed`: the instruction in progress
may lock the mutex again and the reset clears the error it ends with.

`late` is auxiliary: whether the delay began while a stop was being given. The
plugin cuts the delay before it sets the thread's flag, so a delay that begins in
between, or after both, clears its flag and sleeps to its end (`DelayHearsStop`);
the stop still ends the run after it (`StopEndsEvaluation`).

### InputDialogue

The thread (`Clear`, `Request`, `Take`, `Abandon`, `Output`, `Leave`), the events
it posts (`Handle`: `Term::output`, `Term::input`, the end of the run) and the
user (`Run`, `Stop`, `Type`, `Enter`, `ClearTerminal`). Values are counted, not
read: a request is for a number of values, Return gives some of those missing.
Posted events are handled in order; `owed` is the number of those that were
posted before the user's last event, which Qt handles before the next one.

`finishInput` writes the values and flags of both functors at once. That is
harmless only because nothing answers while a functor clears its state
(`ClearsUndisturbed`), and because each request clears the flag a former answer
left (`AnswerIsOwn`).

The end of a run, `Term::finish`, lets the session's cursor go but leaves the plane
in input mode. After a stop during an input wait the keys therefore go to a
session that asks for nothing: the first one typed erases what the program
showed, for `changeInputText` keeps the lines after none (`lines_.mid(0, 0)`), and
Return reads `lines_[-1]`, which is undefined and here ends the behaviour
(`EnterAstray`). `AstrayOnlyAfterStop` and `OutputStays` say that no other
order of events leads there.

### TextHistory, EditorUndo

`TextHistory` is what the user guide promises: a text with a past and a future,
edits that continue the one before, and a saved text. `EditorUndo` is the code: the
document's `InsertText` and `RemoveText` (with the loop `Cut`, its rounds a
recursive function over the lines of the text), a redo and an undo for each
command, the merging, and the stack of Qt as the editor uses it
(`Push`, `Mergeable`, `ForgetUndone`; a command is carried out before it is
merged). The cursor is not kept: it moves freely, beyond the ends of lines and of
the text, so each command may be given at any place, and a redo with the cursor in
any row. `texts` is auxiliary, the text after each entry of the stack; the
refinement mapping cuts it at `index`.

`ImplementsHistory` does not hold for every user. `spoilt` is set by four uses that
undo or redo does not cover, each a counterexample met while the module was
written:

- a line break typed, or a removal begun, past the end of a line: `removeText`
  computes a negative number to remove and then removes that many more
  (`textdocument.cpp:170`);
- a removal that takes the end of the last line and leaves part of a line: the
  line is dropped with what was left of it (`textdocument.cpp:188`);
- a merge of two pieces with other text between them: `mergeWith` compares columns
  of two different texts (`editcommands.cpp:68`, `:193`);
- a redo of a removal with the cursor below the text, which does nothing
  (`editcommands.cpp:126-172`).

`CarefulSpec` is the user who keeps away from them; `Spec` is any user, and
`UndoTakesBack` is what the guide says and the run `EditorUndo` refutes.
`DropAway` is the drop of a file, or of a selection onto itself: `dropEvent` begins
a macro and returns. From then on undo and redo are dead and the text stays
"modified"; the abstract specification has `Freeze` for it.

`MoveText` drags a selection: one macro of a removal and an insertion. `dropEvent`
works out the place of the insertion anew after the removal, with an arithmetic of
rows and characters that does not always give the place pointed at; the model takes any
place, which is what the history must stand. Left out: a text dropped into a selection,
which replaces it (`TypeOver`, but for the place), and dragged blocks. (With an
analyser a dragged block carries no data: it is removed and nothing is inserted, which
undo takes back.)

A selection's cursor may stand at either of its ends. `RemoveSelectedText` has it where
the selection starts; at the other end it may be below the text, and the removal
then does nothing, which is the fourth use above. `Save` takes the write to succeed:
`saveDocument` does not look at what `write` returns (`editor.cpp:1226`) and marks the
text clean in any case, so `CleanIsSaved` speaks of the text last handed to the file.

Three more places where the cursor goes wrong are not in the model, which keeps no
cursor: undo of an import in the first row sets the row to one before it
(`editcommands.cpp:482`, an unsigned number), Backspace right of column 0 in an
empty text does the same (`textcursor.cpp`, `removePreviousChar`), and cutting a
block clears the selection only.

### MCRunControl, MCStepping, MCBreakpoints, MCStacksMutex, MCInputDialogue, MCEditorUndo

Small instances. For `RunControl`: a main algorithm with an initialiser; one with
parameters (startup code without a return); one with an initialiser of its own,
one of a library file and a testing algorithm; a file without a main algorithm.
`MCStepping` adds two users of the stepping commands to it. For `Breakpoints`: an
empty program, one module under either id, a library before and after the
program's ids, and a program with a module of its own. For `StacksMutex`: all
instructions. For `EditorUndo`: two short lines, one a comment, three texts
to type or paste, and a place to drag a selection to.

## Runs

| run | what happens | what is checked |
|---|---|---|
| `RunPatient` | a patient user, all commands, all features | `TypeOK`, `EvaluatesLoadedProgram`, `PauseIsResumable`, `DepthBounded`, `StepOutStopsAtReturn`, and `ImplementsSession`: the run control implements `KumirSession` |
| `RunImpatient` | an impatient user, all commands, input, refused tests | `IdleIffDone`, `EditableIffIdle`, `IdleIsOver`, `RunHasItsProgram`, `RunningWillEnd`: however late or doubled the reports, menu, plugin and machine agree, and a running session has an end coming. `StopEndsTheRun` (liveness): a stop ends the run unless a later command takes it back |
| `RunStepping` | two patient users; one steps over and continues, one steps over and into | `StepsOverCalls`: a step never stops inside a call it steps over, also after breakpoints and PAUSE. `StepsLineByLine`: stepping from the start, no line that `do_line` reports of the stepped algorithm or of its callers is run past. (`do_line` drops a line whose position is that of the one before, whatever the mode.) |
| `Breaks` | marks and runs, programs of one module | `TypeOK`, `TableHoldsMarks`, `HitsAreKnown`, `MarkedLinesStop`, `OnlyAskedLinesStop`, `CursorLineStops` |
| `Mutex` | every instruction against runs, stops, toggles, looks at variables; a patient and an impatient user, late and doubled `finished` | `TypeOK`, `NoSelfDeadlock`, `WaitsAreUnlocked`, `LockIsFreed`, `ResetFreesNothing`, `DelayHearsStop`, `StopEndsEvaluation`, `GuiIsServed` |
| `Dialogue` | requests of both functors, answers in parts, stops, clearing | `TypeOK`, `AnswerIsOwn`, `ClearsUndisturbed`, `WaitCanBeAnswered`, `AstrayOnlyAfterStop`, `AnswersEndTheWait`, `OutputStays` |
| `Editor` | a careful user: every edit at every place, a selection dragged, undo, redo, save, drops | `TypeOK`, `CleanIsSaved`, `ImplementsHistory`: the commands implement `TextHistory` |
| `BadPause`, `BadStepOver`, `BadStepReturn`, `BreaksOwnModule`, `EditorUndo` | | sentences of the user guide that the code does not keep, see below |

Every property of a passing run has a mutant of the code (the operators marked
*Mutant* in the modules) that violates it.

### Bounds

- `MaxRecursion` is 3 or 4 (4000 in a build). Modes are handed on between
  neighbouring contexts only, so an initialiser or startup context, a stepped
  algorithm, its callee and one more call show every combination; the limit
  itself is reached in every run.
- `MaxPending` is 1 or 2, in `Mutex` 2: run commands are given while fewer signals are queued.
  A stop may still be given, and a thread may still finish, so `pending` reaches 2
  with an impatient user: two ends of runs waiting to be reported, which is what
  the properties about late reports need. The theorems have no such bound.
- `Features` leaves out of `RunImpatient` library calls and HALT, and blind runs
  are left out of its commands: they do not concern the interleaving with the GUI
  and only multiply states.
- `Lines` is `{1, 2, 3}`: a marked line, a line of `run to cursor` and one more.
- In `RunStepping` the user who steps into calls meets no breakpoints and gives no
  continuous runs, and the other does not step into: with them the properties are
  violated, which is what `BadStepReturn` and `BadStepOver` show.
  `StepOutStopsAtReturn` needs no such restriction, nor a patient user. All three, and the limit and the
  pauses of `RunPatient`, are also proved without the bounds (`StackProofs`).
- `RunImpatient` takes programs whose main algorithm has no parameters. A *refused*
  test loads the program and leaves the contexts pointing into freed memory. That
  does no harm when the last run emptied the stack; after a main algorithm with
  parameters, whose startup context stays on the stack, a second report still
  queued asks `hasMoreInstructions` about freed memory, which may answer
  anything, and may then suspend an idle session: `EditableIffIdle` fails. This
  takes a user who runs to the cursor as the program ends, and has a test
  refused between two queued reports; no document speaks of it. Without such a
  test, or without such a main algorithm, `EditableIffIdle` is proved
  (`AnyoneEditsOnlyWhenIdle`); the other invariants of the run are proved for all
  programs.
- `Breaks` takes programs of one module whose library modules have other ids.
  The other case is `BreaksOwnModule`, and for libraries the assumption of the
  theorems below.
- `MaxQuanta` is 2: a stop before, between and after the quanta of a delay.
- In `Dialogue` three requests of up to two values, and output while fewer than two
  events are queued: a request answered in parts, one stopped, and one after
  it, of the other functor; the end of a run queued behind output. The theorems
  have no such bounds.
- In `Editor` two changes of the text, and any number of undos, redos and saves,
  at rows 1 to 3 of two lines and columns 0 to 3 of lines of two characters and of one:
  one line below the text, and columns past a line's end and past the longest a
  letter makes, so both kinds of blanks are added. A selection is dragged to one
  place, beyond the end of its line or, if the removal joined lines, below the text.
  Two changes are what merging
  needs, and what a save between them and a branch of the history need. The
  theorems have no such bounds: any alphabet, text, place and number of edits.

## Fairness

`WF_vars(Gui)`: a command under way is carried to its end. `SF_vars(HandleFinished)`:
posted events are handled in each turn of the event loop; the user's commands
can keep disabling the handler for a moment but not for ever. `WF_vars(Thread)`:
the operating system schedules a thread that can run. There is no fairness for
the user: no command, no edit and no input (`InputGiven`) ever has to come, so
`StopEndsTheRun` holds for a program that waits for an answer nobody gives. It is
the stop flag, polled by the wait, that ends it (`InputCancelled`).

`StacksMutex`: each thread goes on when it can (`WF`), and gets a mutex that is free
again and again (`SF` on the three locking steps): QMutex promises no order, but
the system lets neither thread starve. An actor's method ends, and the loop is
left when something asks for it. No instruction, answer or command has to come.

`InputDialogue`: the thread polls, the GUI handles its events, and the user
*answers*: `AnswersEndTheWait` is about a user who keeps giving values, and
shows that no request asks for ever. That a stop ends the wait without any
answer is shown by `Mutex` and `RunImpatient`.

`EditorUndo` and `Breakpoints` have no liveness: nothing there happens by itself.

## Proofs

Checked by TLAPS for all values of the constants that satisfy the named
assumptions: `ProgramsAssumption` (programs are shapes as in `Program`),
`MaxRecursionAssumption` and `MaxPendingAssumption` (positive numbers),
`CommandsAssumption`, `FeaturesAssumption`, `PatientAssumption`,
`BreakProgramsAssumption`, `LocalAssumption`, `InstructionsAssumption`,
`MaxQuantaAssumption`, `GoalsAssumption` (places in a text),
`CharsAssumption` (the blank and the bar are characters),
`TextsAssumption` (what is typed, pasted and imported is text, of at least one
line) and the two `BoundsAssumption`s. Further hypotheses are in the
statements of the theorems.

**RunControl, any user** (`RunControlProofs`). `TypeCorrect`, from lemmas about
each operation of the context stack. `ControlInvariant`:

    ControlInv == TypeOK /\ IdleIffDone /\ IdleIsOver /\ RunHasItsProgram /\ RunningWillEnd

is, with `Resetting`, inductive. (`Resetting` is about a run command between the load
and the reset: a program is being run, and its contexts are fresh or the plugin will
reset them.) `IdleIffDone` needs little help: `state_` and `done_` are set by the same
handlers. The others lean on each other. A late `finished` must not turn an
idle session into a paused one that the plugin considers over: for that,
an idle session's last run must have ended for a reason that is still
visible (`IdleIsOver`: an error, a stop, or nothing left), because the handler
looks again. That needs `RunHasItsProgram` for what `hasMoreInstructions` reads,
which in turn follows from `IdleIffDone`: a run command resets exactly when the
menu loads. `MenuAndPluginAgree`, `IdleSessionsAreOver`,
`RunsHaveTheirProgram` and `RunsHaveAnEnd` are its parts.

**RunControl, a patient user** (`RunControlProofs`, hypothesis `Patient`).
`PatientInv == ControlInv /\ Quiet /\ EditableIffIdle`: `Quiet` says that a command
under way found the thread off and nothing queued, and that a queued signal
finds the thread past its loop. From it `EditedOnlyWhenIdle`,
`EvaluatesWhatWasLoaded`, and `RefinesSession`: the initial states map to initial
states of `KumirSession`, and every step to one of its steps or to a stutter, one
lemma per actor.

**RunControl, an impatient user** (`RunControlProofs`). `AnyoneEditsOnlyWhenIdle`:
`EditableIffIdle` holds for any user, under the hypothesis `NeverRefused \/
StartupsReturn` (no test is refused after its load, or no program has a main
algorithm with parameters). Only a report to an idle session could break it, and
such a report reads either contexts of the program (`Owned`) or a stack that has
nothing left (`Returning`, by the kinds of all contexts). With neither hypothesis
it fails, see the bounds. There is no such theorem about what the thread evaluates:
`EvaluatesLoadedProgram` fails for an impatient user, see `RunControl` above.

**The context stack** (`StackProofs`), by invariants over all contexts.
`RecursionIsBounded`: no stack is deeper than `MaxRecursion`, for any user, under the
hypothesis `InitsFit`: a program has fewer module initialisers than that, since a
reset pushes them without a look at the limit.
`PausesAreResumable`: a pause leaves the stack that stopped, because nothing but a
run command that loads resets it; this needs no more than what keeps the text from
being edited, so it holds for a patient user and under the hypotheses of
`AnyoneEditsOnlyWhenIdle`. `StepsOutStopAtReturn`, for any user: no context above the
one a step out was given in has its mode (`OutMarked`), although contexts keep modes
of earlier commands and commands change modes and flags under the running thread.
`CallsAreOneStep` and `EveryLineIsSeen` are about the two users of `MCStepping`, who
must be patient: a step given to a running thread marks whatever context is on top
by then, and both properties fail. For the first, `OverMarked` says the same of step over and `NeverInto`
that `nextCallInto_` stays clear. For the second, `LineInv` says which contexts are
not stepped through: only those of calls stepped over, at the top of the stack; an
initialiser hands its mode on when it returns, so a step given in one goes on
stepping in the next.

**Breakpoints** (`BreakpointsProofs`). `TableInv == TypeOK /\ Loaded /\ HitsAreKnown`,
where `Loaded` ties the table of names to the program; hence `BreakTypesCorrect`
and `HitsHaveFiles`, for every program, with modules of its own or not.
`MarksInv` adds `TableHoldsMarks` and `SingleHitsAreAsked` under the hypothesis
`Local`, hence `MarksAreHeld`. `BreakpointsStop`, `CursorStops` and
`NothingElseStops` follow for programs that satisfy `OneModule`: all code of the
source under one id that no library file uses. Both hypotheses are needed:
`BreaksOwnModule` shows the first part of `OneModule` failing, and a text of a
course (`Local` false) loses its toggles.

**StacksMutex, any user** (`StacksMutexProofs`).

    IInv == TypeOK /\ ThreadInv /\ LeftInv /\ GuiInv /\ PatientInv /\ OverInv /\ ClearInv /\ DelayInv

`ThreadInv` says that what is left of the thread's script is *sound* for what the
thread believes to hold: locks when it does not hold the mutex, unlocks when it does,
waits for the user or an actor without it, and ends with the mutex only by failing.
Each method's scripts are shown sound once (`ScriptsLock`), and each step keeps the
rest sound. Until the machine is reset beside the thread, the belief is the truth
(`Belief`); after it the thread may believe to hold what was freed, never the other way
round, so it still cannot wait for itself. `GuiInv` lists where the GUI can be in its
scripts. `PatientInv` says that a patient user's commands find the thread off and
that the reset comes after a lock was taken and freed, hence `ResetIsHarmless`.
The other parts are about the rest: a session that is over, or about to be reset, is
over by an error, a stop or its last instruction (`OverInv`), so a thread that the
reset meets inside an instruction was stopped; between the reset and the next lock of
the GUI nothing is left locked without that stop (`ClearInv`, `LeftInv`).
Hence `ThreadNeverSelfDeadlocks`, `WaitsHoldNothing`, `LockFreedBetweenInstructions`
and `DelaysHearStops`, for any user, any set of instructions and any length of delays.

**InputDialogue** (`InputDialogueProofs`). `DialogueInv` is `TypeOK`, the
properties `AnswerIsOwn`, `WaitCanBeAnswered` and `AstrayOnlyAfterStop`, and three
parts that say where a request can be, since no property is inductive without
them. `Queue`: the thread's last request is posted at most once and with the number
of values it waits for, the end of the run is the last event of a thread that is
off, and the user of an idle session waits for all that is posted. `Requests`: the
last request is not posted yet, underway, or held by the terminal. `Opened`: an open
input is for the last request, which still waits or was stopped. Hence
`AnswersAreOwn`, `ClearsAreUndisturbed`, `WaitsCanBeAnswered`,
`KeysAstrayOnlyAfterStops` and `OutputIsKept`, for any number of values, requests
and posted events.

**TextHistory** (`TextHistoryProofs`). "Not modified means saved" is not inductive:
undo and redo come back to the saved text, edits forget it. The invariant says
where it is: behind, here or ahead, at the place `savedAt` counts to, as long as that
is in reach; `UnmodifiedTextIsSaved` follows.

**The operations on the text** (`EditorTextProofs`). The provers know little of nested
sequences, so texts and lines are taken through a few laws (`Length`, `At`, `Cat`,
`One`, `Part`, `Put`), and each operation is shown to act on a text cut in three: the
lines before, the line with what stands left and right of a place, the lines after.
`InsertText` puts a text between left and right; `Cut`, whose rounds are followed
one by one, takes out exactly what stands there, end of line by end of line;
`Trim` takes back the blanks added. The library's induction theorems cannot be
instantiated here, but induction over the rounds can be stated for a set
(`Induction`, from the least element of its complement), as can the existence of
the recursive function (`Recursion`). `Cut`, the offsets of the lines and the
comment loop are defined as such functions, so these lemmas hold for texts of any
length.

**The commands and their merging** (`EditorUndoProofs`). A command as it stands on the
stack is `Fixed` between two texts: redone on the first it gives the second and
stays as it is. `FixedRedone` and `FixedUndone` add that a redo does so with the
cursor in any row where it is covered, and that undo gives the first text back.
`Redone` and `Undone` show, command by command, that the first redo of any given
command fixes it (`CommandUndone`); `Merged` that a merge without a gap of two
fixed commands is fixed (`MergedUndone`). Both are used under the conditions that
`Uncovered` and `Gap` name and no other: outside the four uses listed under
`EditorUndo` above, undo is exact for every text.

**The undo stack** (`EditorUndoProofs`).

    IInv == Recorded /\ edits \in 0 .. MaxEdits /\ spoilt = FALSE

`Recorded` says that each entry of the stack is fixed between the texts kept before
and after it, that `doc` is the text at `index`, and that the saved text is the one
at the clean index. It is inductive because a merge replaces the top entry by one
that is fixed over both changes, and because the entry of a save is never merged
with. From it
`EditorTypes`, `CleanTextIsSaved` and `EditorKeepsHistory`: each step of a careful user
is a step of `TextHistory` or a stutter. `CleanTextIsSaved` is
`UnmodifiedTextIsSaved` of the code itself: `isModified` of the editor is right, for any
text and any number of edits.

Only model-checked: the liveness properties `StopEndsTheRun`, `StopEndsEvaluation`,
`GuiIsServed` and `AnswersEndTheWait`, which are out of the prover's reach. What a user of `EditorUndo` meets
who is not careful is no theorem either: the four uses of `spoilt` are
counterexamples.

## Disagreements with the documentation

- `BadPause`: step into and step out evaluate the program while the session
  says it is suspended (`kumirprogram.cpp:433-445` against `session.xml:43`).
- `BadStepOver`: a step into over a line without a call leaves `nextCallInto_`
  set; the next step over stops inside the call (`vm.hpp:3304` against
  `run.xml:43-48`, `menu.xml:176-184`).
- `BadStepReturn`: stepping on from a breakpoint of a continuous run does not
  stop after the return, because the callers keep the mode of the continuous
  run (`vm.hpp:3321` against `menu.xml:176`).
- `BreaksOwnModule`: a breakpoint in a module the program itself defines never
  stops, the table keeps the last module id of a file only
  (`vm_breakpoints_table.hpp:96` against `menu.xml:196-197`).
- `EditorUndo`: undo of a removal that reaches past the last line does not restore
  the text (`textdocument.cpp:188` against `menu.xml:84-85`).

More defects, of which no document speaks, are stated as the exceptions of
properties that hold: the mutex left locked by an input from, or an output to, a file
key without a value (`LockIsFreed`, `GuiIsServed`), the mutex freed by a reset beside
an evaluating thread (`met`, `ResetFreesNothing` for a patient user only), and the plane
left in input mode by a stop (`AstrayOnlyAfterStop`, `OutputStays`).

## What is not modelled

Values, locals, arrays and the standard library: data of the evaluated program
that no property here depends on. Inside `RunControl` an actor call or a delay is a
plain instruction, and a command that meets the thread inside an instruction comes
before or after it; what happens inside is the matter of `StacksMutex` and
`InputDialogue`. A generated actor emits a directly
connected signal that runs its asynchronous method in the evaluating thread
(`scripts/gen_actor_source.py:1513` and `:1971`) before it returns `ES_Async`, so the
wait in `commonrun.cpp` that follows finds its flag set. Of the terminal,
layout, selection and saving. Of the editor, hidden and protected lines, indents,
recorded keyboard macros, search, completion, highlighting and painting. Ignore
counts and conditions of breakpoints: nothing in the code reads them. GS_Input: the
runner of this version never asks for it. `PluginManager`: it loads, initialises and
stops plugins once, in a fixed order, in one thread. The analyser, the generators,
the course manager, the Python runner, the actors and the widgets: sequential
translation, data or presentation; `PROJECT.json` gives the reason for each.
