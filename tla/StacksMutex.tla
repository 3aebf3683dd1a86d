----------------------------- MODULE StacksMutex -----------------------------
(***************************************************************************)
(* The stacks mutex of the virtual machine, and what its threads wait for. *)
(* One QMutex, not recursive, guards the machine's stacks: the evaluating  *)
(* thread takes and frees it several times within one instruction, the GUI *)
(* thread takes it to edit the breakpoints and to show the variables.      *)
(*                                                                         *)
(* An instruction is the set of scripts it may follow: sequences of steps  *)
(* on the mutex and of steps that wait.  What a step computes, and the     *)
(* steps no other thread can notice, are left out.                         *)
(***************************************************************************)
EXTENDS Naturals, Sequences

CONSTANTS
  Instructions,  \* the instructions of the programs
  MaxQuanta,     \* bound: the quanta of 250 ms in a delay
  MaxPending     \* bound: run commands given while so many signals are queued

AllInstructions ==
  {"line", "call", "callFile", "callActor", "delay", "files", "strings", "input",
   "output", "substring", "argument", "array", "store", "storeElement",
   "load", "loadElement", "reference", "ret", "pause", "halt"}

ASSUME InstructionsAssumption == Instructions \subseteq AllInstructions
ASSUME MaxQuantaAssumption == MaxQuanta \in Nat
ASSUME MaxPendingAssumption == MaxPending \in Nat \ {0}

\* lock, unlock: of the stacks mutex.  rows: VariablesModel::rowCount.
\* ask: the user's answer.  work: a method of an actor.  delay, sleep: the
\* start of a delay and its quanta.  suspend: the pause functor.  fail: the
\* machine's error and a return.
ThreadSteps ==
  {"lock", "unlock", "rows", "ask", "work", "delay", "sleep", "suspend", "fail"}

\* cut: DelayFunctor::stop.  stop, report: Run::stop.  reset, clear: of the
\* machine, its mutex and its error.  go, goOn: the flags of a command, which
\* take a stop back or not.  start: of the thread.
GuiSteps ==
  {"lock", "unlock", "cut", "stop", "report", "reset", "clear", "go", "goOn", "start"}

VARIABLES
  lock,      \* who holds the stacks mutex
  thr,       \* the evaluating thread: off, on, past the loop, in its finish
  pending,   \* queued `finished' signals
  more,      \* there are instructions left
  todo,      \* the rest of the thread's instruction
  quanta,    \* quanta left of the delay
  err,       \* the machine has an error
  brk,       \* a breakpoint was hit or a step is done
  stopping,  \* Run::stoppingFlag_
  cut,       \* DelayFunctor::stopFlag_
  gst,       \* the session: nothing evaluated, evaluating, suspended
  gui,       \* the rest of what the GUI thread does before its event loop
  patient,   \* the user waits: commands only while nothing is evaluated
  late,      \* auxiliary: the delay began when a stop was being given
  met        \* auxiliary: the machine was reset beside an evaluating thread

user == <<patient, met>>
vars == <<lock, thr, pending, more, todo, quanta, err, brk, stopping, cut, gst, gui,
          late, user>>

TypeOK ==
  /\ lock \in {"none", "thread", "gui"}
  /\ thr \in {"off", "on", "tail", "fin"}
  /\ pending \in Nat
  /\ todo \in Seq(ThreadSteps)
  /\ quanta \in 0..MaxQuanta
  /\ {more, err, brk, stopping, cut, patient, late, met} \subseteq BOOLEAN
  /\ gst \in {"Idle", "Running", "Pause"}
  /\ gui \in Seq(GuiSteps)

Init ==
  /\ lock = "none" /\ thr = "off" /\ pending = 0 /\ more = FALSE
  /\ todo = << >> /\ quanta = 0
  /\ err = FALSE /\ brk = FALSE /\ stopping = FALSE /\ cut = FALSE
  /\ gst = "Idle" /\ gui = << >>
  /\ patient \in BOOLEAN /\ late = FALSE /\ met = FALSE

-----------------------------------------------------------------------------
(* The instructions.                                                       *)

\* do_call of an algorithm of the program: the debugger is told before and
\* after the push when the callee is stepped.
Call ==
  { <<"lock", "unlock", "lock", "unlock", "lock", "unlock">>,
    <<"lock", "unlock", "rows", "lock", "unlock", "lock", "unlock">> }

\* Mutant: the mutex is not freed.
CallOfFileKept == { <<"lock">> }

CallOfFile == { <<"lock", "unlock">> }

\* The actor's method is evaluated between two sections.
CallOfActor == { <<"lock", "unlock", "work", "lock", "unlock">> }

\* do_stdcall: a standard function, a delay among them, within one section.
StandardCall == { <<"lock", "unlock">>, <<"lock", "delay", "sleep", "unlock">> }

\* do_filescall, do_stringscall: within one section.
FilesCall == { <<"lock", "unlock">> }
StringsCall == { <<"lock", "unlock">> }

\* A file key without a value: the function returns from within its section.
OfBadKey == <<"lock", "unlock", "lock", "fail">>

\* Mutant: the references are still locked when the user is asked.
InputLocked == { <<"lock", "unlock", "lock", "ask", "unlock">>, OfBadKey }

\* do_specialcall, input: the count, the references, then the functor; or a
\* file, read within a third section.
Input ==
  { <<"lock", "unlock", "lock", "unlock", "ask">>,
    <<"lock", "unlock", "lock", "unlock", "lock", "unlock">>, OfBadKey }

Output == { <<"lock", "unlock", "lock", "unlock">>, OfBadKey }

\* do_specialcall on a character or a part of a string.
PartOfString == { <<"lock", "unlock", "lock", "unlock">> }

\* The arguments of the main algorithm are asked for.
MainArgument == { <<"lock", "unlock", "lock", "unlock", "ask">> }

\* do_setarr, do_updarr: the debugger is told before and after.
ArrayBounds == { <<"lock", "unlock">>,
                 <<"lock", "unlock", "lock", "unlock", "lock", "unlock">> }

\* Mutant: taken again after the debugger is told, and not freed.
StoreKept == { <<"lock", "unlock">>, <<"lock", "unlock", "lock">> }

\* do_store: the debugger is told of the new value.
Store == { <<"lock", "unlock">>, <<"lock", "unlock", "lock", "unlock">> }

\* do_storearr, the same for an element.
StoreElement == { <<"lock", "unlock">>, <<"lock", "unlock", "lock", "unlock">> }

Load == { <<"lock", "unlock">> }
LoadElement == { <<"lock", "unlock">> }

\* do_ref, do_setref, do_refarr.
Reference == { <<"lock", "unlock">> }

\* Mutant: the debugger is told within the section.
ReturnLocked == { <<"lock", "unlock">>, <<"lock", "rows", "unlock">> }

\* do_ret: the debugger is told of every function's end unless blind.
Return == { <<"lock", "unlock">>,
            <<"lock", "unlock", "rows", "lock", "unlock", "lock", "unlock">> }

\* do_pause: the functor suspends the run within the section, unless the
\* algorithm is stepped or tested.
Pause == { << >>, <<"lock", "unlock">>, <<"lock", "suspend", "unlock">> }

Halt == { <<"lock", "unlock">> }

Scripts(i) ==
  CASE i = "line"      -> { << >> }
    [] i = "call"      -> Call
    [] i = "callFile"  -> CallOfFile
    [] i = "callActor" -> CallOfActor
    [] i = "delay"     -> StandardCall
    [] i = "files"     -> FilesCall
    [] i = "strings"   -> StringsCall
    [] i = "input"     -> Input
    [] i = "output"    -> Output
    [] i = "substring" -> PartOfString
    [] i = "argument"  -> MainArgument
    [] i = "array"     -> ArrayBounds
    [] i = "store"     -> Store
    [] i = "storeElement" -> StoreElement
    [] i = "load"      -> Load
    [] i = "loadElement" -> LoadElement
    [] i = "reference" -> Reference
    [] i = "ret"       -> Return
    [] i = "pause"     -> Pause
    [] i = "halt"      -> Halt

-----------------------------------------------------------------------------
(* The evaluating thread.                                                  *)

flags == <<err, brk, stopping, cut>>
guiVars == <<pending, gst, gui>>

MustStop == err \/ stopping \/ brk

\* QThread::isRunning.
IsRunning == thr \in {"on", "tail"}

\* Run::run: an instruction is evaluated, as long as there is one and
\* nothing asks to stop; it may end with an error.
Evaluate ==
  /\ thr = "on" /\ todo = << >>
  /\ more /\ ~MustStop
  /\ \E i \in Instructions : \E s \in Scripts(i) : todo' \in {s, Append(s, "fail")}
  /\ UNCHANGED <<lock, thr, more, quanta, flags, guiVars, late, user>>

\* do_line: the line has a breakpoint, or ends a step.
HitBreakpoint ==
  /\ thr = "on" /\ todo = << >> /\ "line" \in Instructions
  /\ more /\ ~MustStop
  /\ brk' = TRUE
  /\ UNCHANGED <<lock, thr, more, todo, quanta, err, stopping, cut, guiVars, late, user>>

\* The loop is left when something asks for it, or after the last instruction.
Leave ==
  /\ thr = "on" /\ todo = << >>
  /\ more' = FALSE \/ (MustStop /\ UNCHANGED more)
  /\ thr' = "tail"
  /\ UNCHANGED <<lock, todo, quanta, flags, guiVars, late, user>>

\* aboutToStop; then QThread's finish, which posts `finished'.
EnterFinish ==
  /\ thr = "tail"
  /\ thr' = "fin"
  /\ UNCHANGED <<lock, more, todo, quanta, flags, guiVars, late, user>>

Finish ==
  /\ thr = "fin"
  /\ thr' = "off" /\ pending' = pending + 1
  /\ UNCHANGED <<lock, more, todo, quanta, flags, gst, gui, late, user>>

ThreadAt(s) == thr = "on" /\ todo # << >> /\ Head(todo) = s

ThreadLock ==
  /\ ThreadAt("lock") /\ lock = "none"
  /\ lock' = "thread" /\ todo' = Tail(todo)
  /\ UNCHANGED <<thr, more, quanta, flags, guiVars, late, user>>

\* QMutex::unlock frees the mutex, whoever holds it.
ThreadUnlock ==
  /\ ThreadAt("unlock")
  /\ lock' = "none" /\ todo' = Tail(todo)
  /\ UNCHANGED <<thr, more, quanta, flags, guiVars, late, user>>

\* The notice reads the number of rows, under a lock of its own.
ReadRows ==
  /\ ThreadAt("rows") /\ lock = "none"
  /\ todo' = Tail(todo)
  /\ UNCHANGED <<lock, thr, more, quanta, flags, guiVars, late, user>>

\* The functors that ask poll for an answer.
Answered ==
  /\ ThreadAt("ask")
  /\ todo' = Tail(todo)
  /\ UNCHANGED <<lock, thr, more, quanta, flags, guiVars, late, user>>

\* Mutant: the poll does not test mustStop.
AskNoMoreNever == FALSE /\ UNCHANGED vars

AskNoMore ==
  /\ ThreadAt("ask") /\ MustStop
  /\ todo' = Tail(todo)
  /\ UNCHANGED <<lock, thr, more, quanta, flags, guiVars, late, user>>

\* An actor's method is evaluated by the thread itself, to its end.
Work ==
  /\ ThreadAt("work")
  /\ todo' = Tail(todo)
  /\ UNCHANGED <<lock, thr, more, quanta, flags, guiVars, late, user>>

\* A stop is being given, or was since the last command that takes it back.
StopGiven == stopping \/ gui = <<"stop", "report">>

\* DelayFunctor: the flag is cleared when the delay starts.
BeginDelay ==
  /\ ThreadAt("delay")
  /\ cut' = FALSE
  /\ late' = StopGiven
  /\ quanta' \in 0..MaxQuanta
  /\ todo' = Tail(todo)
  /\ UNCHANGED <<lock, thr, more, err, brk, stopping, guiVars, user>>

\* Mutant: a quantum too many.
SleepMore ==
  /\ ThreadAt("sleep")
  /\ quanta' = IF cut THEN 0 ELSE quanta - 1
  /\ todo' = IF cut \/ quanta = 0 THEN Tail(todo) ELSE todo
  /\ UNCHANGED <<lock, thr, more, flags, guiVars, late, user>>

\* A quantum is slept unless the flag is set; the rest is slept without a test.
Sleep ==
  /\ ThreadAt("sleep")
  /\ quanta' = IF cut \/ quanta = 0 THEN 0 ELSE quanta - 1
  /\ todo' = IF cut \/ quanta = 0 THEN Tail(todo) ELSE todo
  /\ UNCHANGED <<lock, thr, more, flags, guiVars, late, user>>

\* PauseFunctor: the run is to be suspended.
Suspend ==
  /\ ThreadAt("suspend")
  /\ brk' = TRUE /\ todo' = Tail(todo)
  /\ UNCHANGED <<lock, thr, more, quanta, err, stopping, cut, guiVars, late, user>>

Fail ==
  /\ ThreadAt("fail")
  /\ err' = TRUE /\ todo' = << >>
  /\ UNCHANGED <<lock, thr, more, quanta, brk, stopping, cut, guiVars, late, user>>

ThreadStep == \/ ThreadUnlock \/ AskNoMore \/ Work \/ BeginDelay \/ Sleep \/ Suspend
              \/ Fail \/ EnterFinish \/ Finish

-----------------------------------------------------------------------------
(* The GUI thread.  A command is a script; the event loop is the empty one. *)

LockOnce == <<"lock", "unlock">>

\* Mutant: the machine is reset first.
PrepareLate ==
  <<"reset", "clear", "lock", "unlock", "lock", "unlock", "lock", "unlock", "go", "start">>

\* prepareRunner forgets the breakpoints and marks those of the editor, each
\* under the mutex; then the machine is reset: the mutex, the error and the
\* rest, and the debugger's notice of the contexts pushed reads the number of
\* rows; then the thread is started.
PrepareAndStart ==
  <<"lock", "unlock", "lock", "unlock", "reset", "clear", "lock", "unlock", "go", "start">>

\* The single hit is inserted after the load.
PrepareToCursor ==
  <<"lock", "unlock", "lock", "unlock", "lock", "unlock", "reset", "clear",
    "lock", "unlock", "go", "start">>

StartToCursor == <<"lock", "unlock", "go", "start">>

\* Mutant: the flag of the thread first.
TerminateSwapped == <<"stop", "cut", "report">>

\* KumirRunPlugin::terminate.
Terminate == <<"cut", "stop", "report">>

MayStart == /\ gui = << >> /\ pending < MaxPending
            /\ patient => thr = "off" /\ pending = 0

\* The machine is reset when the last run is over, which is when no program is
\* being run (IdleIffDone of RunControl).
Run ==
  /\ MayStart /\ gst = "Idle"
  /\ gst' = "Running" /\ gui' = PrepareAndStart
  /\ UNCHANGED <<lock, thr, pending, more, todo, quanta, flags, late, user>>

Resume ==
  /\ MayStart /\ gst = "Pause"
  /\ gst' = "Running" /\ gui' = <<"go", "start">>
  /\ UNCHANGED <<lock, thr, pending, more, todo, quanta, flags, late, user>>

\* Step into and step out leave the session suspended and a stop given.
StepInside ==
  /\ MayStart /\ gst = "Pause"
  /\ gui' = <<"goOn", "start">>
  /\ UNCHANGED <<lock, thr, pending, more, todo, quanta, flags, gst, late, user>>

\* Nothing disables `run to cursor'.
RunToCursor ==
  /\ MayStart
  /\ gst' = "Running"
  /\ gui' = IF gst = "Idle" THEN PrepareToCursor ELSE StartToCursor
  /\ UNCHANGED <<lock, thr, pending, more, todo, quanta, flags, late, user>>

\* A breakpoint is toggled, at any time; the variables are looked at, while
\* nothing is evaluated.
LockedRequest ==
  /\ gui = << >>
  /\ gui' = LockOnce
  /\ UNCHANGED <<lock, thr, pending, more, todo, quanta, flags, gst, late, user>>

Stop ==
  /\ gui = << >> /\ gst \in {"Running", "Pause"}
  /\ patient => thr \notin {"tail", "fin"} /\ pending = 0
  /\ gui' = Terminate
  /\ UNCHANGED <<lock, thr, pending, more, todo, quanta, flags, gst, late, user>>

\* handleThreadFinished: suspended when there is more to evaluate, no error
\* and no stop; otherwise over, and the value computed may then be read.
Report ==
  IF more /\ ~err /\ ~stopping
  THEN gst' = "Pause" /\ gui' = << >>
  ELSE gst' = "Idle" /\ gui' \in {<< >>, LockOnce}

HandleFinished ==
  /\ gui = << >> /\ pending > 0
  /\ pending' = pending - 1
  /\ Report
  /\ UNCHANGED <<lock, thr, more, todo, quanta, flags, late, user>>

GuiAt(s) == gui # << >> /\ Head(gui) = s

GuiLock ==
  /\ GuiAt("lock") /\ lock = "none"
  /\ lock' = "gui" /\ gui' = Tail(gui)
  /\ UNCHANGED <<thr, pending, more, todo, quanta, flags, gst, late, user>>

GuiUnlock ==
  /\ GuiAt("unlock")
  /\ lock' = "none" /\ gui' = Tail(gui)
  /\ UNCHANGED <<thr, pending, more, todo, quanta, flags, gst, late, user>>

CutDelay ==
  /\ GuiAt("cut")
  /\ cut' = TRUE /\ gui' = Tail(gui)
  /\ UNCHANGED <<lock, thr, pending, more, todo, quanta, err, brk, stopping, gst, late, user>>

GiveStop ==
  /\ GuiAt("stop")
  /\ stopping' = TRUE /\ gui' = Tail(gui)
  /\ UNCHANGED <<lock, thr, pending, more, todo, quanta, err, brk, cut, gst, late, user>>

\* userTerminated is delivered at once when the thread is not running.
StopReport ==
  /\ GuiAt("report")
  /\ IF IsRunning THEN gui' = << >> /\ UNCHANGED gst ELSE Report
  /\ UNCHANGED <<lock, thr, pending, more, todo, quanta, flags, late, user>>

\* Mutex::reset tries the mutex and frees it, whoever holds it.
Reset ==
  /\ GuiAt("reset")
  /\ lock' = "none" /\ gui' = Tail(gui)
  /\ met' = (met \/ thr = "on")
  /\ UNCHANGED <<thr, pending, more, todo, quanta, flags, gst, patient, late>>

Clear ==
  /\ GuiAt("clear")
  /\ err' = FALSE /\ more' = TRUE /\ gui' = Tail(gui)
  /\ UNCHANGED <<lock, thr, pending, todo, quanta, brk, stopping, cut, gst, late, user>>

Go ==
  /\ GuiAt("go") \/ GuiAt("goOn")
  /\ brk' = FALSE /\ stopping' = (stopping /\ GuiAt("goOn"))
  /\ gui' = Tail(gui)
  /\ UNCHANGED <<lock, thr, pending, more, todo, quanta, err, cut, gst, late, user>>

\* QThread::start waits out a finishing thread, does nothing to a running one.
Start ==
  /\ GuiAt("start") /\ thr # "fin"
  /\ thr' = IF thr = "off" THEN "on" ELSE thr
  /\ gui' = Tail(gui)
  /\ UNCHANGED <<lock, pending, more, todo, quanta, flags, gst, late, user>>

GuiStep == \/ GuiUnlock \/ CutDelay \/ GiveStop \/ StopReport
           \/ Reset \/ Clear \/ Go \/ Start

Next ==
  \/ Evaluate \/ HitBreakpoint \/ Leave \/ ThreadLock \/ ReadRows \/ Answered
  \/ ThreadStep
  \/ Run \/ Resume \/ StepInside \/ RunToCursor \/ LockedRequest \/ Stop
  \/ HandleFinished \/ GuiLock \/ GuiStep

\* The operating system runs both threads and lets neither starve at the
\* mutex; actors' methods end.  Nothing says that the user answers, that a
\* program ends or that another command is given.
Fairness ==
  /\ WF_vars(Leave /\ MustStop) /\ WF_vars(ThreadStep)
  /\ SF_vars(ThreadLock) /\ SF_vars(ReadRows)
  /\ WF_vars(HandleFinished) /\ WF_vars(GuiStep) /\ SF_vars(GuiLock)

Spec == Init /\ [][Next]_vars /\ Fairness

-----------------------------------------------------------------------------
(* Properties.                                                             *)

\* The thread never asks for the mutex it holds (it would wait for itself for
\* ever), in any instruction and through the debugger's notices; and it never
\* frees a mutex it does not hold, unless the machine was reset under it.
NoSelfDeadlock ==
  /\ ThreadAt("lock") \/ ThreadAt("rows") => lock # "thread"
  /\ ThreadAt("unlock") => lock = "thread" \/ met

\* The thread never waits for the user or for an actor with the mutex held:
\* the GUI, that must answer, could be waiting for it.
WaitsAreUnlocked == ThreadAt("ask") \/ ThreadAt("work") => lock # "thread"

\* Between instructions, and when it is not running, the thread has freed the
\* mutex, unless an instruction left it with the machine's error (do_specialcall
\* does: an input from, or an output to, a file whose key has no value) or the
\* machine was reset under the thread, which forgets the error.
LockIsFreed == (thr # "on" \/ todo = << >>) /\ lock = "thread" => err \/ met

\* With a patient user the forced unlock of Mutex::reset frees nothing: it never
\* helps, since the breakpoints are locked before it, and never harms, since no
\* thread is left that holds or wants the mutex.  (An impatient user can have
\* the machine reset beside an evaluating thread: run to cursor while the last
\* `finished' is queued, a stop, that `finished', then a run.)
ResetFreesNothing == patient => ~met /\ (GuiAt("reset") => lock = "none")

\* A stop is lost by the delay only when the delay began after the GUI had
\* given up delays and before it set the thread's flag, or after both.
DelayHearsStop == ThreadAt("sleep") /\ stopping /\ ~cut => late

\* A stop ends the evaluation, whatever the thread waits for, unless a later
\* command takes it back.
StopEndsEvaluation == (stopping /\ thr = "on") ~> (thr # "on" \/ ~stopping)

\* The GUI gets the mutex it waits for, unless the thread was left with it.
Abandoned == thr # "on" /\ lock = "thread"
GuiIsServed == GuiAt("lock") ~> (~GuiAt("lock") \/ Abandoned)
=============================================================================
