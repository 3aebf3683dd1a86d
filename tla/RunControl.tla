----------------------------- MODULE RunControl -----------------------------
(***************************************************************************)
(* How a Kumir program is run, stepped, suspended and stopped: the run     *)
(* menu (KumirProgram), the runner plugin (KumirRunPlugin), the evaluating *)
(* thread (Run, a QThread) and the virtual machine's context stack.        *)
(*                                                                         *)
(* Two actors interleave.  The GUI thread handles the user's commands and  *)
(* the queued `finished' signal one at a time; a run command loads the     *)
(* program, then resets the machine and sets the flags of Run, then sets   *)
(* the mode of the virtual machine, then starts the thread, in four steps.   The evaluating thread tests the flags, then    *)
(* evaluates one instruction, and leaves its loop through the last steps   *)
(* of a QThread.  Neither locks what the other reads in between.           *)
(***************************************************************************)
EXTENDS VMContexts, FiniteSets

CONSTANTS
  Commands,    \* the run commands the user gives
  Features,    \* what the programs do besides evaluating lines and calls
  Patient,     \* the user waits: commands only while nothing is evaluated
  MaxPending   \* bound: run commands given while so many signals are queued

AllCommands == {"blind", "cont", "cursor", "test", "step", "into", "out", "stop"}
AllFeatures == {"break", "pause", "halt", "fail", "input", "library"}

ASSUME CommandsAssumption == Commands \subseteq AllCommands
ASSUME FeaturesAssumption == Features \subseteq AllFeatures
ASSUME PatientAssumption == Patient \in BOOLEAN
ASSUME MaxPendingAssumption == MaxPending \in Nat \ {0}

GlobalStates == {"Unlocked", "Observe", "Running", "Pause"}
ProgramStates == {"Idle", "BlindRun", "RegularRun", "TestingRun", "StepRun"}
RunModes == {"ToEnd", "StepOver", "StepIn", "StepOut"}
VMCommands == {"blind", "cont", "step", "into", "out"}

\* The thread: off, testing the loop's conditions, evaluating, waiting for
\* input, past the loop, then in QThread's own finish (isRunning is false)
\* before and after it has posted `finished'.
ThreadStates == {"off", "check", "eval", "input", "tail", "fin1", "fin2"}

VARIABLES
  gst,      \* PluginManager's global state
  pst,      \* KumirProgram::state_
  gpc,      \* what the GUI thread does: its event loop, or within a command
  cmd,      \* the command being given to the virtual machine
  pending,  \* queued `finished' signals
  prog,     \* the shape of the program loaded last
  done,     \* KumirRunPlugin::done_
  fresh,    \* the contexts are those of the program loaded last
  entry,    \* KumirVM::entryPoint_
  thr,      \* the evaluating thread
  stopping, stepDone, algDone, breakHit, ignoreLine, runMode,  \* flags of Run
  mark      \* auxiliary: depth the last step command was given at, 0 if none

guiVars == <<gst, pst, gpc, cmd, pending, prog, done, fresh, entry>>
flags == <<stopping, stepDone, algDone, breakHit, ignoreLine, runMode>>
vars == <<vmVars, guiVars, thr, flags, mark>>

TypeOK ==
  /\ VMTypeOK
  /\ gst \in GlobalStates
  /\ pst \in ProgramStates
  /\ gpc \in {"loop", "reset", "arm", "start", "stop"}
  /\ cmd \in VMCommands
  /\ pending \in Nat
  /\ prog \in Program
  /\ entry \in {"Main", "Test"}
  /\ thr \in ThreadStates
  /\ runMode \in RunModes
  /\ {done, fresh, stopping, stepDone, algDone, breakHit, ignoreLine} \subseteq BOOLEAN
  /\ mark \in Nat

\* The main window is shown in GS_Unlocked; nothing is loaded.
Init ==
  /\ VMInit
  /\ gst = "Unlocked" /\ pst = "Idle" /\ gpc = "loop" /\ cmd = "cont"
  /\ pending = 0
  /\ prog \in Programs
  /\ done = TRUE /\ fresh = FALSE /\ entry = "Main"
  /\ thr = "off"
  /\ stopping = FALSE /\ stepDone = FALSE /\ algDone = FALSE
  /\ breakHit = FALSE /\ ignoreLine = FALSE /\ runMode = "ToEnd"
  /\ mark = 0

-----------------------------------------------------------------------------
(* What the actors read of each other.                                     *)

\* QThread::isRunning: the thread has started and is not in its finish.
IsRunning == thr \in {"check", "eval", "input", "tail"}

Evaluating == thr \in {"check", "eval", "input"}

\* Mutant: the user's stop is not looked at.
MustStopUnasked ==
  \/ err \/ breakHit
  \/ runMode = "StepOut" /\ algDone
  \/ runMode \in {"StepOver", "StepIn"} /\ stepDone

\* Run::mustStop.
MustStop ==
  \/ err
  \/ stopping
  \/ breakHit
  \/ runMode = "StepOut" /\ algDone
  \/ runMode \in {"StepOver", "StepIn"} /\ stepDone

\* KumirVM::hasMoreInstructions.  Loading a program frees the instructions the
\* old contexts point to: until the reset, reading them may answer anything.
MoreRead == IF fresh \/ stack = << >> THEN {HasMore} ELSE BOOLEAN

\* A run is ending: past the loop, or its end is not handled yet.
Ending == thr \in {"tail", "fin1", "fin2"} \/ pending > 0

UserMay(c) == /\ gpc = "loop"
              /\ c \in Commands
              /\ Patient => ~Ending /\ (c = "stop" \/ thr = "off")
              /\ c # "stop" => pending < MaxPending

\* The actions KumirProgram::switchGlobalState leaves enabled.  Nothing
\* ever disables `run to cursor'.
Enabled(c) ==
  CASE c \in {"blind", "cont", "step", "into"} ->
         gst \in {"Unlocked", "Observe", "Pause"}
    [] c = "test" -> gst \in {"Unlocked", "Observe"}
    [] c = "out" -> gst = "Pause"
    [] c = "stop" -> gst \in {"Running", "Pause"}
    [] c = "cursor" -> TRUE

-----------------------------------------------------------------------------
(* Run commands, first and second step: KumirProgram loads the program,    *)
(* then KumirRunPlugin resets the machine and sets the flags of Run.       *)

\* giveMeAProgram and prepareRunner, when no program is being run.
Prepare == IF pst = "Idle" THEN prog' \in Programs ELSE UNCHANGED prog

\* Mutant: the machine is reset only when the last run failed.
ResetIfFailed(e) ==
  IF done /\ err
  THEN VMReset(prog, e) /\ entry' = e /\ fresh' = TRUE
  ELSE UNCHANGED <<vmVars, entry, fresh>>

\* The plugin resets the virtual machine when the last run is over;
\* Run::reset clears two flags as well.
ResetIfDone(e) ==
  IF done
  THEN VMReset(prog, e) /\ entry' = e /\ fresh' = TRUE
  ELSE UNCHANGED <<vmVars, entry, fresh>>

Give(c) == gpc' = "arm" /\ cmd' = c /\ UNCHANGED <<pending, thr, mark>>

\* Run::runBlind, runContinuous.
FlagsToEnd ==
  /\ stopping' = FALSE /\ breakHit' = FALSE /\ ignoreLine' = FALSE
  /\ runMode' = "ToEnd"
  /\ UNCHANGED <<stepDone, algDone>>

\* Run::runStepOver: the pending line notice is dropped only by a reset.
FlagsStepOver ==
  /\ stopping' = FALSE /\ stepDone' = FALSE /\ breakHit' = FALSE
  /\ ignoreLine' = (ignoreLine /\ ~done)
  /\ runMode' = "StepOver"
  /\ UNCHANGED algDone

\* Run::runStepIn: stoppingFlag_ is left alone.
FlagsStepIn ==
  /\ stepDone' = FALSE /\ breakHit' = FALSE
  /\ runMode' = "StepIn"
  /\ UNCHANGED <<stopping, algDone, ignoreLine>>

\* Run::runToEnd: stoppingFlag_ is left alone.
FlagsStepOut ==
  /\ stepDone' = FALSE /\ algDone' = FALSE /\ breakHit' = FALSE
  /\ ignoreLine' = FALSE
  /\ runMode' = "StepOut"
  /\ UNCHANGED stopping

\* The menu's part of a run command.  Loading frees the instructions the old
\* contexts point to (setProgram); the machine is reset in the next step, and a
\* thread that is still evaluating reads them in between.
StartRun(state, c) ==
  /\ Prepare
  /\ fresh' = (fresh /\ pst # "Idle")
  /\ pst' = state
  /\ gst' = "Running"
  /\ gpc' = "reset" /\ cmd' = c
  /\ UNCHANGED <<vmVars, pending, done, entry, thr, flags, mark>>

BlindRun ==
  UserMay("blind") /\ Enabled("blind") /\ StartRun("BlindRun", "blind")

RegularRun ==
  UserMay("cont") /\ Enabled("cont") /\ StartRun("RegularRun", "cont")

\* The single-hit breakpoint is the subject of Breakpoints; then regularRun.
RunToCursor ==
  UserMay("cursor") /\ Enabled("cursor") /\ StartRun("RegularRun", "cont")

TestingRun ==
  /\ UserMay("test") /\ Enabled("test")
  /\ StartRun("TestingRun", "blind") /\ prog'.testing

\* testingRun returns once the program is loaded and has no such algorithm.
TestingRefused ==
  /\ UserMay("test") /\ Enabled("test")
  /\ pst = "Idle" /\ Prepare /\ ~prog'.testing
  /\ fresh' = FALSE
  /\ UNCHANGED <<vmVars, gst, pst, gpc, cmd, pending, done, entry, thr, flags, mark>>

DoStepRun == StartRun("StepRun", "step")

StepRun == UserMay("step") /\ Enabled("step") /\ DoStepRun

\* While stepping, neither stepIn nor stepOut switches the global state.
StepIn ==
  /\ UserMay("into") /\ Enabled("into")
  /\ \/ pst # "StepRun" /\ DoStepRun
     \/ /\ pst = "StepRun" /\ FlagsStepIn /\ Give("into")
        /\ UNCHANGED <<vmVars, gst, pst, prog, done, fresh, entry>>

StepOut ==
  /\ UserMay("out") /\ Enabled("out")
  /\ pst = "StepRun" /\ FlagsStepOut /\ Give("out")
  /\ UNCHANGED <<vmVars, gst, pst, prog, done, fresh, entry>>

\* Editing the text after a run.
Edit ==
  /\ gpc = "loop" /\ gst = "Observe" /\ (Patient => ~Ending /\ thr = "off")
  /\ gst' = "Unlocked"
  /\ UNCHANGED <<vmVars, pst, gpc, cmd, pending, prog, done, fresh, entry, thr, flags, mark>>

User == \/ BlindRun \/ RegularRun \/ RunToCursor \/ TestingRun \/ TestingRefused
        \/ StepRun \/ StepIn \/ StepOut \/ Edit

-----------------------------------------------------------------------------
(* Run commands from the second step on, and the rest of the GUI thread.   *)

\* The plugin's part: runContinuous, runBlind, runStepOver and runTesting.
PluginRun ==
  /\ gpc = "reset"
  /\ ResetIfDone(IF pst = "TestingRun" THEN "Test" ELSE "Main")
  /\ done' = FALSE
  /\ IF cmd = "step" THEN FlagsStepOver ELSE FlagsToEnd
  /\ gpc' = "arm"
  /\ UNCHANGED <<gst, pst, cmd, pending, prog, thr, mark>>

\* vm->setNextCall...: no lock is taken.
Arm ==
  /\ gpc = "arm"
  /\ \/ cmd = "blind" /\ SetBlindToEnd
     \/ cmd = "cont" /\ SetNextCallToEnd
     \/ cmd = "step" /\ SetNextCallStepOver
     \/ cmd = "into" /\ SetNextCallInto
     \/ cmd = "out" /\ SetNextCallToEndOfContext
  /\ mark' = IF cmd \in {"step", "out"} THEN Depth ELSE 0
  /\ gpc' = "start"
  /\ UNCHANGED <<gst, pst, cmd, pending, prog, done, fresh, entry, thr, flags>>

\* QThread::start: waits out a finishing thread, does nothing to a running one.
Start ==
  /\ gpc = "start"
  /\ thr \notin {"fin1", "fin2"}
  /\ thr' = IF thr = "off" THEN "check" ELSE thr
  /\ gpc' = "loop"
  /\ UNCHANGED <<vmVars, gst, pst, cmd, pending, prog, done, fresh, entry, flags, mark>>

\* Mutants of the report: an error leaves the run open for the plugin; a stop
\* leaves it open for the menu; errors are not looked at; a suspension is not
\* passed on to the other plugins.
ReportKeepsRun(more) ==
  \/ more /\ ~err /\ ~stopping /\ gst' = "Pause" /\ UNCHANGED <<pst, done>>
  \/ /\ ~more \/ err \/ stopping
     /\ gst' = "Observe" /\ pst' = "Idle" /\ done' = (done \/ ~err)
ReportKeepsMenu(more) ==
  \/ more /\ ~err /\ ~stopping /\ gst' = "Pause" /\ UNCHANGED <<pst, done>>
  \/ /\ ~more \/ err \/ stopping
     /\ gst' = "Observe" /\ pst' = (IF stopping THEN pst ELSE "Idle") /\ done' = TRUE
ReportIgnoresError(more) ==
  \/ more /\ ~stopping /\ gst' = "Pause" /\ UNCHANGED <<pst, done>>
  \/ (~more \/ stopping) /\ gst' = "Observe" /\ pst' = "Idle" /\ done' = TRUE
ReportSilent(more) ==
  \/ more /\ ~err /\ ~stopping /\ UNCHANGED <<gst, pst, done>>
  \/ /\ ~more \/ err \/ stopping
     /\ gst' = "Observe" /\ pst' = "Idle" /\ done' = TRUE

\* handleThreadFinished and the `stopped' signal it ends in: suspended when
\* there is more to evaluate, no error and no stop; otherwise over.
Report(more) ==
  \/ /\ more /\ ~err /\ ~stopping
     /\ gst' = "Pause" /\ UNCHANGED <<pst, done>>
  \/ /\ ~more \/ err \/ stopping
     /\ gst' = "Observe" /\ pst' = "Idle" /\ done' = TRUE

Deliver == \E more \in MoreRead : Report(more)

\* Mutant: the signal is handled once too often.
HandleFinishedTwice ==
  /\ gpc = "loop"
  /\ pending' = pending - 1
  /\ Deliver
  /\ UNCHANGED <<vmVars, gpc, cmd, prog, fresh, entry, thr, flags, mark>>

HandleFinished ==
  /\ gpc = "loop" /\ pending > 0
  /\ pending' = pending - 1
  /\ Deliver
  /\ UNCHANGED <<vmVars, gpc, cmd, prog, fresh, entry, thr, flags, mark>>

\* Run::stop sets the flag, then looks at the thread.
Stop ==
  /\ UserMay("stop") /\ Enabled("stop") /\ pst # "Idle"
  /\ stopping' = TRUE
  /\ gpc' = "stop"
  /\ UNCHANGED <<vmVars, gst, pst, cmd, pending, prog, done, fresh, entry, thr,
                 stepDone, algDone, breakHit, ignoreLine, runMode, mark>>

\* Mutants: the termination is reported while the thread runs; the stop is
\* forgotten as soon as it is reported.
StopCheckHasty ==
  /\ gpc = "stop"
  /\ gpc' = "loop"
  /\ Deliver
  /\ UNCHANGED <<vmVars, cmd, pending, prog, fresh, entry, thr, flags, mark>>
StopCheckForgets ==
  /\ gpc = "stop"
  /\ gpc' = "loop"
  /\ IF IsRunning
     THEN UNCHANGED <<gst, pst, done, stopping>>
     ELSE Deliver /\ stopping' = FALSE
  /\ UNCHANGED <<vmVars, cmd, pending, prog, fresh, entry, thr,
                 stepDone, algDone, breakHit, ignoreLine, runMode, mark>>

\* userTerminated is delivered at once when the thread is not running.
StopCheck ==
  /\ gpc = "stop"
  /\ gpc' = "loop"
  /\ IF IsRunning THEN UNCHANGED <<gst, pst, done>> ELSE Deliver
  /\ UNCHANGED <<vmVars, cmd, pending, prog, fresh, entry, thr, flags, mark>>

Gui == PluginRun \/ Arm \/ Start \/ HandleFinished \/ StopCheck

-----------------------------------------------------------------------------
(* The evaluating thread.                                                  *)

Check ==
  /\ thr = "check"
  /\ \E more \in MoreRead : thr' = IF more /\ ~MustStop THEN "eval" ELSE "tail"
  /\ UNCHANGED <<vmVars, guiVars, flags, mark>>

Evaluate == thr = "eval" /\ HasMore /\ thr' = "check" /\ UNCHANGED guiVars

NoNotice == UNCHANGED flags

\* Run::noticeOnLineChanged.
LineNotice ==
  /\ IF ignoreLine
     THEN ignoreLine' = FALSE /\ UNCHANGED stepDone
     ELSE stepDone' = TRUE /\ UNCHANGED ignoreLine
  /\ UNCHANGED <<stopping, algDone, breakHit, runMode>>

\* LINE with a column position.  One that repeats the position before it gets no
\* notice in any mode (do_line): such a line is an instance of Plain.
Line ==
  /\ Evaluate /\ HasLines
  /\ IF NoticesLine THEN LineNotice ELSE NoNotice
  /\ EvalPlain /\ UNCHANGED mark

Plain == Evaluate /\ NoNotice /\ EvalPlain /\ UNCHANGED mark

Fail == "fail" \in Features /\ Evaluate /\ NoNotice /\ EvalFail /\ UNCHANGED mark

\* LINE with a number where a breakpoint is set: debuggerNoticeOnBreakpointHit.
Breakpoint ==
  /\ "break" \in Features
  /\ Evaluate /\ EvalBreakpoint
  /\ stepDone' = TRUE /\ breakHit' = TRUE /\ ignoreLine' = TRUE
  /\ runMode' = "StepOver"
  /\ mark' = 0
  /\ UNCHANGED <<stopping, algDone>>

\* The startup code that calls a main algorithm with parameters stands for it.
Call ==
  /\ Evaluate /\ NoNotice /\ EvalCall
  /\ mark' = IF mark = Depth /\ bottom' # bottom THEN Len(stack') ELSE mark

CallLibrary ==
  /\ "library" \in Features
  /\ Evaluate /\ NoNotice /\ EvalCallLibrary /\ UNCHANGED mark

\* Run::noticeOnFunctionReturn, when the return is reported.
Ret ==
  /\ Evaluate /\ EvalRet
  /\ algDone' = (algDone \/ NoticesReturn)
  /\ mark' = IF mark > Len(stack') THEN Len(stack') ELSE mark
  /\ UNCHANGED <<stopping, stepDone, breakHit, ignoreLine, runMode>>

End == Evaluate /\ NoNotice /\ EvalEnd /\ UNCHANGED mark

Halt == "halt" \in Features /\ Evaluate /\ NoNotice /\ EvalHalt /\ mark' = 0

\* PAUSE: two line notices with Run::handlePauseRequest between them.
Pause ==
  /\ "pause" \in Features
  /\ Evaluate /\ Top.kind # "BELOW" /\ EvalPause(entry)
  /\ IF Suspends(entry)
     THEN /\ stepDone' = TRUE /\ ignoreLine' = FALSE /\ runMode' = "StepOver"
          /\ mark' = 0
          /\ UNCHANGED <<stopping, algDone, breakHit>>
     ELSE NoNotice /\ UNCHANGED mark

\* An instruction that waits for the user's input, or until mustStop.
AskInput ==
  /\ "input" \in Features
  /\ thr = "eval" /\ HasMore
  /\ thr' = "input"
  /\ UNCHANGED <<vmVars, guiVars, flags, mark>>

InputGiven ==
  /\ thr = "input"
  /\ thr' = "check"
  /\ UNCHANGED <<vmVars, guiVars, flags, mark>>

InputCancelled ==
  /\ thr = "input" /\ MustStop
  /\ thr' = "check"
  /\ UNCHANGED <<vmVars, guiVars, flags, mark>>

\* The program was loaded or reset under the thread: what it reads is undefined.
EvalNothing ==
  /\ thr = "eval" /\ (~HasMore \/ ~fresh)
  /\ thr' = "check"
  /\ UNCHANGED <<vmVars, guiVars, flags, mark>>

\* aboutToStop, then QThread's finish, which posts `finished'.
Leave ==
  /\ thr = "tail"
  /\ thr' = "fin1"
  /\ UNCHANGED <<vmVars, guiVars, flags, mark>>

PostFinished ==
  /\ thr = "fin1"
  /\ thr' = "fin2"
  /\ pending' = pending + 1
  /\ UNCHANGED <<vmVars, gst, pst, gpc, cmd, prog, done, fresh, entry, flags, mark>>

Finish ==
  /\ thr = "fin2"
  /\ thr' = "off"
  /\ UNCHANGED <<vmVars, guiVars, flags, mark>>

Instruction == \/ Line \/ Plain \/ Fail \/ Breakpoint \/ Call \/ CallLibrary \/ Ret
               \/ End \/ Halt \/ Pause \/ AskInput \/ EvalNothing

\* What the thread does by itself; InputGiven waits for the user.
Thread == Check \/ Instruction \/ InputCancelled \/ Leave \/ PostFinished \/ Finish

-----------------------------------------------------------------------------

Next == User \/ Stop \/ Gui \/ Thread \/ InputGiven

\* The event loop and the thread are scheduled; the user owes nothing.
\* Posted events are handled in every turn of the event loop, however many
\* commands the user gives: hence the strong fairness.
Fairness == WF_vars(Gui) /\ SF_vars(HandleFinished) /\ WF_vars(Thread)

Spec == Init /\ [][Next]_vars /\ Fairness
-----------------------------------------------------------------------------
(* Properties.                                                             *)

\* The run menu and the plugin agree: KumirProgram loads a program when it is
\* idle, KumirRunPlugin resets the machine when it is done, so were they to
\* differ a program would run without its reset or be reset half way.  A command
\* that has reached the menu only is on its way from one to the other.
IdleIffDone == gpc # "reset" => ((pst = "Idle") <=> done)

\* The text may be edited exactly while the run menu is idle, whatever signals
\* arrive late or twice (handleRunnerStopped sets both, KumirProgram one each).
EditableIffIdle == (gst \in {"Unlocked", "Observe"}) <=> (pst = "Idle")

\* A stale report can not suspend an idle session: what ended the last run is
\* remembered until the next command (handleThreadFinished rereads it).
IdleIsOver == pst = "Idle" => err \/ stopping \/ ~HasMore

\* While the session runs, something will end it: the thread runs or will be
\* started by the command under way, or its end is queued.  A start() that does
\* nothing because the thread is leaving its loop is covered by that end.
RunningWillEnd ==
  gst = "Running" =>
    thr \notin {"off", "fin2"} \/ pending > 0 \/ gpc \in {"reset", "arm", "start"}

\* Between the reset that starts a run and the report of its end the contexts
\* are those of the loaded program, though loading (the menu) and resetting (the
\* plugin) are decided by different flags.
RunHasItsProgram == pst # "Idle" /\ gpc # "reset" => fresh

\* The instructions evaluated are those of the program loaded last, after its
\* reset: loading frees what the old contexts point to (setProgram).
EvaluatesLoadedProgram == Evaluating => fresh

\* A paused program can be resumed: it has instructions left, no error, and
\* the plugin will not reset it.
PauseIsResumable ==
  gst = "Pause" /\ thr = "off" /\ pending = 0 /\ gpc = "loop" =>
    fresh /\ HasMore /\ ~err /\ ~done

\* The menu's `step' treats a call as one step: it stops in the algorithm it
\* was given in or in a caller, never in a callee.
StepTreatsCallAsOneStep ==
  runMode = "StepOver" /\ mark > 0 /\ stepDone => Depth <= mark

\* A step stops at the next line of the program: while it goes on, the machine is
\* in the mode that notices lines in the algorithm it was given in and in every
\* caller it returned to.  (do_line drops a line whose position is that of the
\* line before, in any mode.)
StepStopsAtNextLine ==
  thr = "eval" /\ HasMore /\ runMode = "StepOver" /\ 0 < Depth /\ Depth <= mark
    /\ Top.own /\ Top.kind # "BELOW" => NoticesLine

\* `To the end of the algorithm' stops at the return of the algorithm it was
\* given in.
StepOutStopsAtReturn == runMode = "StepOut" /\ algDone /\ mark > 0 => Depth = mark

\* Calls, of whatever file, are refused at MAX_RECURSION_SIZE: only the contexts
\* a reset pushes may be more.
DepthBounded == Depth <= MaxRecursion \/ Depth <= Len(prog.inits) + 1

\* Stopping ends the run, unless a later command takes the stop back.
StopEndsTheRun == stopping /\ gst = "Running" ~> gst # "Running" \/ ~stopping

\* The session as the user guide promises it.
ModeOf == IF gst = "Unlocked" THEN "Editing"
          ELSE IF gst = "Observe" THEN "Analysis" ELSE gst
Session == INSTANCE KumirSession WITH mode <- ModeOf, active <- Evaluating

\* With a patient user the run control implements the session.
ImplementsSession == Session!Spec

\* userdocs/system/session/session.xml: `Pause -- the program is suspended'.
PauseMeansSuspended == gst = "Pause" => thr # "eval"

=============================================================================
