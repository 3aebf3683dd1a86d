-------------------------- MODULE RunControlProofs --------------------------
(***************************************************************************)
(* Theorems about RunControl, for every set of programs, commands and      *)
(* features, a patient user or not, and about the context stack under it.  *)
(* With a patient user the run control implements KumirSession, and the    *)
(* program it evaluates is the one loaded last; some of that holds for an  *)
(* impatient user as well.                                                 *)
(***************************************************************************)
EXTENDS RunControl, SequenceTheorems, TLAPS

-----------------------------------------------------------------------------
(* The context stack: every operation of the virtual machine keeps its      *)
(* state well-typed, and the commands of the debugger change run modes only,*)
(* never which algorithms are being evaluated.                              *)

\* Setting the mode of the top context keeps the stack's length.
LEMMA WithTopModeType ==
  ASSUME NEW s \in Seq(Context), s # << >>, NEW m \in Modes
  PROVE  /\ WithTopMode(s, m) \in Seq(Context)
         /\ Len(WithTopMode(s, m)) = Len(s)
         /\ WithTopMode(s, m) # << >>
<1>1. Len(s) \in 1..Len(s)
  BY EmptySeq, LenProperties
<1>2. s[Len(s)] \in Context
  BY <1>1, ElementOfSeq
<1> DEFINE e == [s[Len(s)] EXCEPT !.mode = m]
<1>3. e \in Context
  BY <1>2 DEF Context
<1>4. WithTopMode(s, m) = [s EXCEPT ![Len(s)] = e]
  BY DEF WithTopMode
<1>5. /\ WithTopMode(s, m) \in Seq(Context)
      /\ Len(WithTopMode(s, m)) = Len(s)
  BY <1>1, <1>3, <1>4, ExceptSeq
<1>6. Len(s) # 0
  BY <1>1, LenProperties
<1> QED
  BY <1>5, <1>6, EmptySeq

\* What is left when the top context is popped.
LEMMA BelowType ==
  ASSUME VMTypeOK, stack # << >>
  PROVE  /\ Below \in Seq(Context)
         /\ Len(Below) = Depth - 1
<1>1. Depth \in Nat /\ Depth # 0
  BY EmptySeq, LenProperties DEF VMTypeOK, Depth
<1>2. \A i \in 1..(Depth - 1) : stack[i] \in Context
  BY <1>1, ElementOfSeq DEF VMTypeOK, Depth
<1> QED
  BY <1>1, <1>2, SubSeqProperties DEF Below

\* Leaving every mode at ToEnd keeps the stack's length.
LEMMA AllToEndType ==
  ASSUME VMTypeOK
  PROVE  /\ AllToEnd \in Seq(Context)
         /\ Len(AllToEnd) = Depth
<1>1. Depth \in Nat
  BY LenProperties DEF VMTypeOK, Depth
<1>2. \A i \in 1..Depth : stack[i] \in Context
  BY ElementOfSeq DEF VMTypeOK, Depth
<1>3. \A c \in Context : [c EXCEPT !.mode = "ToEnd"] \in Context
  BY DEF Context, Modes
<1>4. \A i \in 1..Depth : [stack[i] EXCEPT !.mode = "ToEnd"] \in Context
  BY <1>2, <1>3
<1> QED
  BY <1>1, <1>4 DEF AllToEnd

\* The contexts a reset pushes.
LEMMA ResetContexts ==
  ASSUME NEW p \in Program, NEW e
  PROVE  /\ StartContexts(p, e) \in Seq(Context)
         /\ InitContexts(p) \in Seq(Context)
<1>1. StartContexts(p, e) \in Seq(Context)
  <2>1. p.start # "NONE" => Ctx(p.start, "ToEnd", TRUE) \in Context
    BY DEF Program, Ctx, Context, Kinds, Modes
  <2>2. Ctx("TEST", "ToEnd", TRUE) \in Context
    BY DEF Ctx, Context, Kinds, Modes
  <2> HIDE DEF Ctx
  <2>3. \A c \in Context : <<c>> \in Seq(Context)
    OBVIOUS
  <2>4. << >> \in Seq(Context)
    BY EmptySeq
  <2>5. CASE e = "Main" /\ p.start # "NONE"
    BY <2>1, <2>3, <2>5 DEF StartContexts
  <2>6. CASE e # "Main" /\ p.testing
    BY <2>2, <2>3, <2>6 DEF StartContexts
  <2>7. CASE ~(e = "Main" /\ p.start # "NONE") /\ ~(e # "Main" /\ p.testing)
    BY <2>4, <2>7 DEF StartContexts
  <2> QED
    BY <2>5, <2>6, <2>7
<1>2. Len(p.inits) \in Nat /\ \A i \in 1..Len(p.inits) : p.inits[i] \in BOOLEAN
  BY LenProperties, ElementOfSeq DEF Program
<1>3. \A i \in 1..Len(p.inits) :
        Ctx("INIT", IF p.inits[i] THEN "OneStep" ELSE "ToEnd", p.inits[i]) \in Context
  BY <1>2 DEF Ctx, Context, Kinds, Modes
<1>4. InitContexts(p) \in Seq(Context)
  BY <1>2, <1>3 DEF InitContexts
<1> QED
  BY <1>1, <1>4

LEMMA ResetType ==
  ASSUME NEW p \in Program, NEW e, VMReset(p, e)
  PROVE  VMTypeOK'
<1>1. stack' \in Seq(Context)
  BY ResetContexts, ConcatProperties DEF VMReset
<1> QED
  BY <1>1 DEF VMReset, VMTypeOK

-----------------------------------------------------------------------------

DebuggerCommand ==
  \/ SetNextCallInto \/ SetNextCallToEndOfContext \/ SetNextCallStepOver
  \/ SetNextCallToEnd \/ SetBlindToEnd

\* The debugger's commands: types, and whether there is something to evaluate.
LEMMA CommandType ==
  ASSUME VMTypeOK, DebuggerCommand
  PROVE  VMTypeOK' /\ HasMore' = HasMore /\ err' = err /\ Depth' = Depth
<1>1. CASE SetNextCallInto
  BY <1>1 DEF SetNextCallInto, VMTypeOK, HasMore, Depth
<1>2. CASE SetNextCallToEndOfContext
  BY <1>2, WithTopModeType
  DEF SetNextCallToEndOfContext, VMTypeOK, HasMore, Depth, Modes
<1>3. CASE SetNextCallStepOver
  BY <1>3, WithTopModeType DEF SetNextCallStepOver, VMTypeOK, HasMore, Depth, Modes
<1>4. stack' = AllToEnd => stack' \in Seq(Context) /\ Len(stack') = Len(stack)
  BY AllToEndType DEF Depth
<1>5. stack' = AllToEnd => (stack' = << >> <=> stack = << >>)
  BY <1>4, EmptySeq, LenProperties DEF VMTypeOK
<1>6. CASE SetNextCallToEnd
  BY <1>4, <1>5, <1>6 DEF SetNextCallToEnd, VMTypeOK, HasMore, Depth
<1>7. CASE SetBlindToEnd
  BY <1>4, <1>5, <1>7 DEF SetBlindToEnd, VMTypeOK, HasMore, Depth
<1> QED
  BY <1>1, <1>2, <1>3, <1>6, <1>7 DEF DebuggerCommand

Evaluation(e) ==
  \/ EvalPlain \/ EvalFail \/ EvalBreakpoint \/ EvalCall \/ EvalCallLibrary
  \/ EvalRet \/ EvalEnd \/ EvalPause(e) \/ EvalHalt

\* Evaluating an instruction of a non-empty stack keeps the types.
LEMMA EvaluationType ==
  ASSUME VMTypeOK, stack # << >>, NEW e, Evaluation(e)
  PROVE  VMTypeOK'
<1>1. /\ Depth \in 1..Depth
      /\ Top \in Context
  BY EmptySeq, LenProperties, ElementOfSeq DEF VMTypeOK, Depth, Top
<1>2. CASE EvalPlain
  BY <1>2 DEF EvalPlain, vmVars, VMTypeOK
<1>3. CASE EvalFail
  BY <1>3 DEF EvalFail, VMTypeOK
<1>4. CASE EvalBreakpoint
  BY <1>4, WithTopModeType DEF EvalBreakpoint, SetNextCallStepOver, VMTypeOK, Modes
<1>5. CASE EvalCall
  <2>1. PICK k \in Callees :
          /\ IF Depth >= MaxRecursion
             THEN err' = TRUE /\ UNCHANGED <<stack, into>>
             ELSE /\ stack' = Append(stack, Ctx(k, CalledMode(k), Top.own))
                  /\ into' = FALSE /\ UNCHANGED err
          /\ bottom' = IF k = "MAIN" THEN "after" ELSE bottom
          /\ UNCHANGED blind
    BY <1>5 DEF EvalCall
  <2>2. k \in Kinds
    BY DEF Callees, Kinds
  <2>3. Ctx(k, CalledMode(k), Top.own) \in Context
    BY <1>1, <2>2 DEF Ctx, CalledMode, Context, Modes
  <2>4. Append(stack, Ctx(k, CalledMode(k), Top.own)) \in Seq(Context)
    BY <2>3, AppendProperties DEF VMTypeOK
  <2> QED
    BY <2>1, <2>4 DEF VMTypeOK
<1>6. CASE EvalCallLibrary
  <2>1. Ctx("FUN", "ToEnd", FALSE) \in Context
    BY DEF Ctx, Context, Kinds, Modes
  <2>2. Append(stack, Ctx("FUN", "ToEnd", FALSE)) \in Seq(Context)
    BY <2>1, AppendProperties DEF VMTypeOK
  <2> QED
    BY <1>6, <2>2 DEF EvalCallLibrary, VMTypeOK
<1>7. CASE EvalRet
  <2>1. WithTopMode(stack, "OneStep") \in Seq(Context)
    BY WithTopModeType DEF VMTypeOK, Modes
  <2>2. Below \in Seq(Context) /\ Len(Below) = Depth - 1
    BY BelowType
  <2>3. Depth > 1 => Below # << >>
    BY <1>1, <2>2, EmptySeq
  <2>4. Depth > 1 => WithTopMode(Below, "OneStep") \in Seq(Context)
    BY <2>2, <2>3, WithTopModeType DEF Modes
  <2>5. stack' \in Seq(Context)
    BY <1>7, <2>1, <2>2, <2>4 DEF EvalRet
  <2> QED
    BY <1>7, <2>5 DEF EvalRet, VMTypeOK
<1>8. CASE EvalEnd
  BY <1>8 DEF EvalEnd, VMTypeOK
<1>9. CASE EvalPause(e)
  BY <1>9, WithTopModeType DEF EvalPause, VMTypeOK, Modes
<1>10. CASE EvalHalt
  BY <1>10 DEF EvalHalt, VMTypeOK
<1> QED
  BY <1>2, <1>3, <1>4, <1>5, <1>6, <1>7, <1>8, <1>9, <1>10 DEF Evaluation

-----------------------------------------------------------------------------
(* The menu, the plugin and the evaluating thread.                          *)

\* The variables of Run, the plugin and the menu.
RestTypeOK ==
  /\ gst \in GlobalStates
  /\ pst \in ProgramStates
  /\ gpc \in {"loop", "reset", "arm", "start", "stop"}
  /\ cmd \in VMCommands
  /\ pending \in Nat
  /\ prog \in Program
  /\ entry \in {"Main", "Test"}
  /\ thr \in ThreadStates
  /\ runMode \in RunModes
  /\ {done, fresh, stopping, stepDone, algDone, breakHit, ignoreLine} \subseteq BOOLEAN
  /\ mark \in Nat

LEMMA SplitType == TypeOK <=> VMTypeOK /\ RestTypeOK
BY DEF TypeOK, RestTypeOK

LEMMA InitType == Init => TypeOK
<1> SUFFICES ASSUME Init PROVE TypeOK
  OBVIOUS
<1>1. stack \in Seq(Context)
  BY EmptySeq DEF Init, VMInit
<1> QED
  BY <1>1, ProgramsAssumption
  DEF Init, VMInit, TypeOK, VMTypeOK, GlobalStates, ProgramStates, VMCommands,
      ThreadStates, RunModes

\* What a run command does before it reaches the virtual machine.
LEMMA PrepareType ==
  ASSUME TypeOK, Prepare
  PROVE  prog' \in Program
BY ProgramsAssumption DEF Prepare, TypeOK

LEMMA ResetIfDoneType ==
  ASSUME TypeOK, NEW e \in {"Main", "Test"}, ResetIfDone(e)
  PROVE  VMTypeOK' /\ entry' \in {"Main", "Test"} /\ fresh' \in BOOLEAN
<1>1. prog \in Program
  BY DEF TypeOK
<1>2. CASE done
  BY <1>1, <1>2, ResetType DEF ResetIfDone
<1>3. CASE ~done
  BY <1>3 DEF ResetIfDone, vmVars, TypeOK, VMTypeOK
<1> QED
  BY <1>2, <1>3

LEMMA StartRunType ==
  ASSUME TypeOK, NEW s \in ProgramStates, NEW c \in VMCommands, StartRun(s, c)
  PROVE  TypeOK'
<1>1. prog' \in Program
  BY PrepareType DEF StartRun
<1> QED
  BY <1>1 DEF StartRun, TypeOK, VMTypeOK, vmVars, flags, GlobalStates

LEMMA PluginRunType ==
  ASSUME TypeOK, PluginRun
  PROVE  TypeOK'
<1>1. VMTypeOK' /\ entry' \in {"Main", "Test"} /\ fresh' \in BOOLEAN
  BY ResetIfDoneType DEF PluginRun
<1>2. /\ stopping' \in BOOLEAN /\ stepDone' \in BOOLEAN /\ algDone' \in BOOLEAN
      /\ breakHit' \in BOOLEAN /\ ignoreLine' \in BOOLEAN /\ runMode' \in RunModes
  BY DEF PluginRun, FlagsToEnd, FlagsStepOver, TypeOK, RunModes
<1> QED
  BY <1>1, <1>2 DEF PluginRun, TypeOK

LEMMA UserType == TypeOK /\ User => TypeOK'
<1> SUFFICES ASSUME TypeOK, User PROVE TypeOK'
  OBVIOUS
<1>1. CASE BlindRun
  BY <1>1, StartRunType DEF BlindRun, ProgramStates, VMCommands
<1>2. CASE RegularRun
  BY <1>2, StartRunType DEF RegularRun, ProgramStates, VMCommands
<1>3. CASE RunToCursor
  BY <1>3, StartRunType DEF RunToCursor, ProgramStates, VMCommands
<1>4. CASE TestingRun
  BY <1>4, StartRunType DEF TestingRun, ProgramStates, VMCommands
<1>5. CASE TestingRefused
  BY <1>5, PrepareType DEF TestingRefused, TypeOK, VMTypeOK, vmVars, flags
<1>6. ASSUME DoStepRun PROVE TypeOK'
  BY <1>6, StartRunType DEF DoStepRun, ProgramStates, VMCommands
<1>7. CASE StepRun
  BY <1>6, <1>7 DEF StepRun
<1>8. CASE StepIn
  <2>1. CASE DoStepRun
    BY <1>6, <2>1
  <2>2. CASE ~DoStepRun
    BY <1>8, <2>2
    DEF StepIn, FlagsStepIn, Give, TypeOK, VMTypeOK, vmVars, RunModes, VMCommands
  <2> QED
    BY <2>1, <2>2
<1>9. CASE StepOut
  BY <1>9 DEF StepOut, FlagsStepOut, Give, TypeOK, VMTypeOK, vmVars, RunModes, VMCommands
<1>10. CASE Edit
  BY <1>10 DEF Edit, TypeOK, VMTypeOK, vmVars, flags, GlobalStates
<1> QED
  BY <1>1, <1>2, <1>3, <1>4, <1>5, <1>7, <1>8, <1>9, <1>10 DEF User

LEMMA DeliverType ==
  ASSUME TypeOK, Deliver
  PROVE  gst' \in GlobalStates /\ pst' \in ProgramStates /\ done' \in BOOLEAN
BY DEF Deliver, Report, TypeOK, GlobalStates, ProgramStates

LEMMA DepthType == VMTypeOK => Depth \in Nat
BY LenProperties DEF VMTypeOK, Depth

LEMMA ArmIsCommand == Arm => DebuggerCommand
BY DEF Arm, DebuggerCommand

LEMMA GuiType == TypeOK /\ (Gui \/ Stop) => TypeOK'
<1> SUFFICES ASSUME TypeOK, Gui \/ Stop PROVE TypeOK'
  OBVIOUS
<1>1. CASE Arm
  <2>1. VMTypeOK'
    BY <1>1, ArmIsCommand, CommandType DEF TypeOK
  <2>2. mark' \in Nat
    BY <1>1, DepthType DEF Arm, TypeOK
  <2> QED
    BY <1>1, <2>1, <2>2 DEF Arm, TypeOK, flags
<1>2. CASE Start
  BY <1>2 DEF Start, TypeOK, VMTypeOK, vmVars, flags, ThreadStates
<1>3. CASE HandleFinished
  <2>1. pending' \in Nat
    BY <1>3 DEF HandleFinished, TypeOK
  <2> QED
    BY <1>3, <2>1, DeliverType DEF HandleFinished, TypeOK, VMTypeOK, vmVars, flags
<1>4. CASE StopCheck
  BY <1>4, DeliverType DEF StopCheck, TypeOK, VMTypeOK, vmVars, flags
<1>5. CASE Stop
  BY <1>5 DEF Stop, TypeOK, VMTypeOK, vmVars
<1>6. CASE PluginRun
  BY <1>6, PluginRunType
<1> QED
  BY <1>1, <1>2, <1>3, <1>4, <1>5, <1>6 DEF Gui

\* Evaluating an instruction touches the flags of Run and the auxiliary mark.
LEMMA EvaluateType ==
  ASSUME TypeOK, Evaluate, VMTypeOK', mark' \in Nat, runMode' \in RunModes,
         {stopping', stepDone', algDone', breakHit', ignoreLine'} \subseteq BOOLEAN
  PROVE  TypeOK'
BY DEF Evaluate, TypeOK, guiVars, ThreadStates

LEMMA FlagsType ==
  TypeOK =>
  /\ mark \in Nat /\ runMode \in RunModes
  /\ {stopping, stepDone, algDone, breakHit, ignoreLine} \subseteq BOOLEAN
BY DEF TypeOK

LEMMA InstructionType == TypeOK /\ Instruction => TypeOK'
<1> SUFFICES ASSUME TypeOK, Instruction PROVE TypeOK'
  OBVIOUS
<1>1. VMTypeOK /\ mark \in Nat /\ runMode \in RunModes
      /\ {stopping, stepDone, algDone, breakHit, ignoreLine} \subseteq BOOLEAN
  BY FlagsType DEF TypeOK
<1>2. ASSUME Evaluate, Evaluation(entry) PROVE VMTypeOK'
  BY <1>1, <1>2, EvaluationType DEF Evaluate, HasMore
<1>3. CASE Line
  BY <1>1, <1>2, <1>3, EvaluateType DEF Line, LineNotice, NoNotice, flags, Evaluation
<1>4. CASE Plain
  BY <1>1, <1>2, <1>4, EvaluateType DEF Plain, NoNotice, flags, Evaluation
<1>5. CASE Fail
  BY <1>1, <1>2, <1>5, EvaluateType DEF Fail, NoNotice, flags, Evaluation
<1>6. CASE Breakpoint
  BY <1>1, <1>2, <1>6, EvaluateType DEF Breakpoint, Evaluation, RunModes
<1>7. CASE Call
  <2>1. VMTypeOK'
    BY <1>2, <1>7 DEF Call, Evaluation
  <2>2. Len(stack') \in Nat
    BY <2>1, LenProperties DEF VMTypeOK
  <2>3. mark' \in Nat
    BY <1>1, <1>7, <2>2 DEF Call
  <2> QED
    BY <1>1, <1>7, <2>1, <2>3, EvaluateType DEF Call, NoNotice, flags
<1>8. CASE CallLibrary
  BY <1>1, <1>2, <1>8, EvaluateType DEF CallLibrary, NoNotice, flags, Evaluation
<1>9. CASE Ret
  <2>1. VMTypeOK'
    BY <1>2, <1>9 DEF Ret, Evaluation
  <2>2. Len(stack') \in Nat
    BY <2>1, LenProperties DEF VMTypeOK
  <2>3. mark' \in Nat
    BY <1>1, <1>9, <2>2 DEF Ret
  <2>4. algDone' \in BOOLEAN
    BY <1>1, <1>9 DEF Ret
  <2> QED
    BY <1>1, <1>9, <2>1, <2>3, <2>4, EvaluateType DEF Ret
<1>10. CASE End
  BY <1>1, <1>2, <1>10, EvaluateType DEF End, NoNotice, flags, Evaluation
<1>11. CASE Halt
  BY <1>1, <1>2, <1>11, EvaluateType DEF Halt, NoNotice, flags, Evaluation
<1>12. CASE Pause
  <2>1. VMTypeOK'
    BY <1>2, <1>12 DEF Pause, Evaluation
  <2>2. CASE Suspends(entry)
    <3>1. /\ Evaluate /\ stepDone' = TRUE /\ ignoreLine' = FALSE
          /\ runMode' = "StepOver" /\ mark' = 0
          /\ UNCHANGED <<stopping, algDone, breakHit>>
      BY <1>12, <2>2 DEF Pause
    <3>2. mark' \in Nat /\ runMode' \in RunModes
      BY <3>1 DEF RunModes
    <3> QED
      BY <1>1, <2>1, <3>1, <3>2, EvaluateType
  <2>3. CASE ~Suspends(entry)
    BY <1>1, <1>12, <2>1, <2>3, EvaluateType DEF Pause, NoNotice, flags
  <2> QED
    BY <2>2, <2>3
<1>13. CASE AskInput
  BY <1>13 DEF AskInput, TypeOK, VMTypeOK, vmVars, guiVars, flags, ThreadStates
<1>14. CASE EvalNothing
  BY <1>14 DEF EvalNothing, TypeOK, VMTypeOK, vmVars, guiVars, flags, ThreadStates
<1> QED
  BY <1>3, <1>4, <1>5, <1>6, <1>7, <1>8, <1>9, <1>10, <1>11, <1>12, <1>13, <1>14
  DEF Instruction

LEMMA ThreadType == TypeOK /\ (Thread \/ InputGiven) => TypeOK'
<1> SUFFICES ASSUME TypeOK, Thread \/ InputGiven PROVE TypeOK'
  OBVIOUS
<1>1. CASE Check
  BY <1>1 DEF Check, TypeOK, VMTypeOK, vmVars, guiVars, flags, ThreadStates
<1>2. CASE Instruction
  BY <1>2, InstructionType
<1>3. CASE InputCancelled
  BY <1>3 DEF InputCancelled, TypeOK, VMTypeOK, vmVars, guiVars, flags, ThreadStates
<1>4. CASE Leave
  BY <1>4 DEF Leave, TypeOK, VMTypeOK, vmVars, guiVars, flags, ThreadStates
<1>5. CASE PostFinished
  BY <1>5 DEF PostFinished, TypeOK, VMTypeOK, vmVars, flags, ThreadStates
<1>6. CASE Finish
  BY <1>6 DEF Finish, TypeOK, VMTypeOK, vmVars, guiVars, flags, ThreadStates
<1>7. CASE InputGiven
  BY <1>7 DEF InputGiven, TypeOK, VMTypeOK, vmVars, guiVars, flags, ThreadStates
<1> QED
  BY <1>1, <1>2, <1>3, <1>4, <1>5, <1>6, <1>7 DEF Thread

LEMMA StutterType == TypeOK /\ UNCHANGED vars => TypeOK'
BY DEF TypeOK, VMTypeOK, vars, vmVars, guiVars, flags

\* Every variable keeps its type, whoever moves.
THEOREM TypeCorrect == Spec => []TypeOK
<1>1. Init => TypeOK
  BY InitType
<1>2. TypeOK /\ [Next]_vars => TypeOK'
  BY UserType, GuiType, ThreadType, StutterType DEF Next
<1> QED
  BY <1>1, <1>2, PTL DEF Spec

-----------------------------------------------------------------------------
(* The menu, the plugin and the global state agree, whatever the order of  *)
(* commands and signals.                                                   *)

\* Within a run command: the run has begun for the menu, and the plugin will
\* reset the machine if the program was loaded anew.
Resetting == gpc = "reset" => gst = "Running" /\ pst # "Idle" /\ (fresh \/ done)

Agree == IdleIffDone /\ IdleIsOver /\ RunHasItsProgram /\ RunningWillEnd /\ Resetting

ControlInv ==
  /\ TypeOK /\ IdleIffDone /\ IdleIsOver /\ RunHasItsProgram /\ RunningWillEnd
  /\ Resetting

LEMMA StartRunControl ==
  ASSUME ControlInv, gpc = "loop", NEW s \in ProgramStates \ {"Idle"}, NEW c,
         StartRun(s, c)
  PROVE  Agree'
BY DEF StartRun, ControlInv, Agree, IdleIffDone, IdleIsOver, RunHasItsProgram,
       RunningWillEnd, Resetting

LEMMA UserControl == ControlInv /\ User => Agree'
<1> SUFFICES ASSUME ControlInv, User
             PROVE  Agree'
  OBVIOUS
<1> USE DEF UserMay, Resetting
<1>1. CASE BlindRun
  BY <1>1, StartRunControl DEF BlindRun, ProgramStates
<1>2. CASE RegularRun
  BY <1>2, StartRunControl DEF RegularRun, ProgramStates
<1>3. CASE RunToCursor
  BY <1>3, StartRunControl DEF RunToCursor, ProgramStates
<1>4. CASE TestingRun
  BY <1>4, StartRunControl DEF TestingRun, ProgramStates
<1>5. CASE TestingRefused
  BY <1>5 DEF TestingRefused, ControlInv, Agree, IdleIffDone, IdleIsOver,
              RunHasItsProgram, RunningWillEnd, vmVars, flags, HasMore
<1>6. ASSUME DoStepRun, gpc = "loop" PROVE Agree'
  BY <1>6, StartRunControl DEF DoStepRun, ProgramStates
<1>7. CASE StepRun
  BY <1>6, <1>7 DEF StepRun
<1>8. CASE StepIn
  <2>1. CASE DoStepRun
    BY <1>6, <1>8, <2>1 DEF StepIn
  <2>2. CASE ~DoStepRun
    BY <1>8, <2>2 DEF StepIn, Give, ControlInv, Agree, IdleIffDone, IdleIsOver,
                      RunHasItsProgram, RunningWillEnd
  <2> QED
    BY <2>1, <2>2
<1>9. CASE StepOut
  BY <1>9 DEF StepOut, Give, ControlInv, Agree, IdleIffDone, IdleIsOver,
              RunHasItsProgram, RunningWillEnd
<1>10. CASE Edit
  BY <1>10 DEF Edit, ControlInv, Agree, IdleIffDone, IdleIsOver, RunHasItsProgram,
               RunningWillEnd, vmVars, flags, HasMore
<1> QED
  BY <1>1, <1>2, <1>3, <1>4, <1>5, <1>7, <1>8, <1>9, <1>10 DEF User

\* A report that reads contexts that were not freed reads what they hold.
LEMMA DeliverFresh ==
  ASSUME fresh, Deliver
  PROVE  Report(HasMore)
<1>1. PICK more \in MoreRead : Report(more)
  BY DEF Deliver
<1>2. more = HasMore
  BY DEF MoreRead
<1> QED
  BY <1>1, <1>2

\* After the report of an end the session is paused, with nothing else changed,
\* or idle, because nothing is left to evaluate, there is an error or a stop.
LEMMA DeliverControl ==
  ASSUME ControlInv, Deliver, UNCHANGED <<vmVars, flags, fresh>>,
         gpc # "reset", gpc' # "reset"
  PROVE  Agree'
<1>1. (IdleIffDone /\ RunHasItsProgram /\ RunningWillEnd /\ Resetting)'
  BY DEF Deliver, Report, ControlInv, IdleIffDone, RunHasItsProgram, RunningWillEnd,
         Resetting
<1>2. CASE pst = "Idle"
  BY <1>1, <1>2 DEF Agree, ControlInv, IdleIsOver, vmVars, flags, HasMore
<1>3. CASE pst # "Idle"
  <2>1. fresh
    BY <1>3 DEF ControlInv, RunHasItsProgram
  <2>2. IdleIsOver'
    BY <1>3, <2>1, DeliverFresh DEF Report, IdleIsOver, vmVars, flags, HasMore
  <2> QED
    BY <1>1, <2>2 DEF Agree
<1> QED
  BY <1>2, <1>3

LEMMA GuiControl == ControlInv /\ (Gui \/ Stop) => Agree'
<1> SUFFICES ASSUME ControlInv, Gui \/ Stop PROVE Agree'
  OBVIOUS
<1> USE DEF ControlInv, Agree, IdleIffDone, IdleIsOver, RunHasItsProgram, RunningWillEnd,
           Resetting
<1>1. CASE Arm
  <2>1. HasMore' = HasMore /\ err' = err
    BY <1>1, ArmIsCommand, CommandType DEF TypeOK
  <2> QED
    BY <1>1, <2>1 DEF Arm, flags
<1>2. CASE Start
  BY <1>2 DEF Start, vmVars, flags, HasMore
<1>3. CASE HandleFinished
  BY <1>3, DeliverControl DEF HandleFinished
<1>4. CASE StopCheck
  <2>1. CASE IsRunning
    BY <1>4, <2>1 DEF StopCheck, IsRunning, vmVars, flags, HasMore
  <2>2. CASE ~IsRunning
    BY <1>4, <2>2, DeliverControl DEF StopCheck
  <2> QED
    BY <2>1, <2>2
<1>5. CASE Stop
  BY <1>5 DEF Stop, UserMay, vmVars, HasMore
<1>6. CASE PluginRun
  BY <1>6 DEF PluginRun, ResetIfDone
<1> QED
  BY <1>1, <1>2, <1>3, <1>4, <1>5, <1>6 DEF Gui

\* The machine's error and a pending stop survive every instruction.
LEMMA InstructionKeeps ==
  ASSUME TypeOK, Instruction
  PROVE  /\ thr' \in {"check", "input"}
         /\ UNCHANGED guiVars
         /\ stopping' = stopping
         /\ err => err'
         /\ ~HasMore => UNCHANGED <<stack, bottom>>
<1> USE DEF vmVars, flags
<1>1. CASE Evaluate
  <2>1. thr' = "check" /\ UNCHANGED guiVars /\ HasMore
    BY <1>1 DEF Evaluate
  <2>2. stopping' = stopping
    BY <1>1 DEF Instruction, Line, Plain, Fail, Breakpoint, Call, CallLibrary, Ret, End,
                Halt, Pause, AskInput, EvalNothing, LineNotice, NoNotice
  <2>3. err => err'
    BY <1>1
    DEF Instruction, Line, Plain, Fail, Breakpoint, Call, CallLibrary, Ret, End, Halt,
        Pause, AskInput, EvalNothing, EvalPlain, EvalFail, EvalBreakpoint,
        SetNextCallStepOver, EvalCall, EvalCallLibrary, EvalRet, EvalEnd, EvalPause,
        EvalHalt
  <2> QED
    BY <2>1, <2>2, <2>3
<1>2. CASE AskInput \/ EvalNothing
  BY <1>2 DEF AskInput, EvalNothing
<1> QED
  BY <1>1, <1>2
  DEF Instruction, Line, Plain, Fail, Breakpoint, Call, CallLibrary, Ret, End, Halt, Pause

\* Every instruction of the thread evaluates one of the machine's, or nothing.
LEMMA InstructionEvaluates ==
  Instruction => (stack # << >> /\ Evaluation(entry)) \/ UNCHANGED vmVars
BY DEF Instruction, Line, Plain, Fail, Breakpoint, Call, CallLibrary, Ret, End, Halt,
       Pause, AskInput, EvalNothing, Evaluate, HasMore, Evaluation

LEMMA ThreadControl == ControlInv /\ (Thread \/ InputGiven) => Agree'
<1> SUFFICES ASSUME ControlInv, Thread \/ InputGiven PROVE Agree'
  OBVIOUS
<1> USE DEF ControlInv, Agree, IdleIffDone, IdleIsOver, RunHasItsProgram, RunningWillEnd,
           Resetting
<1>1. CASE Check
  <2>1. thr' \in {"eval", "tail"}
    BY <1>1 DEF Check
  <2> QED
    BY <1>1, <2>1 DEF Check, vmVars, guiVars, flags, HasMore
<1>2. CASE Instruction
  BY <1>2, InstructionKeeps DEF guiVars, HasMore
<1>3. CASE InputCancelled \/ InputGiven
  BY <1>3 DEF InputCancelled, InputGiven, vmVars, guiVars, flags, HasMore
<1>4. CASE Leave
  BY <1>4 DEF Leave, vmVars, guiVars, flags, HasMore
<1>5. CASE PostFinished
  <2>1. pending' > 0
    BY <1>5 DEF PostFinished, TypeOK
  <2> QED
    BY <1>5, <2>1 DEF PostFinished, vmVars, flags, HasMore
<1>6. CASE Finish
  BY <1>6 DEF Finish, vmVars, guiVars, flags, HasMore
<1> QED
  BY <1>1, <1>2, <1>3, <1>4, <1>5, <1>6 DEF Thread

LEMMA InitControl == Init => ControlInv
BY InitType DEF Init, VMInit, ControlInv, IdleIffDone, IdleIsOver, RunHasItsProgram,
                RunningWillEnd, Resetting, HasMore

LEMMA NextControl == ControlInv /\ [Next]_vars => ControlInv'
<1> SUFFICES ASSUME ControlInv, [Next]_vars PROVE ControlInv'
  OBVIOUS
<1>1. TypeOK'
  BY UserType, GuiType, ThreadType, StutterType DEF Next, ControlInv
<1>2. ASSUME Next PROVE Agree'
  BY <1>2, UserControl, GuiControl, ThreadControl DEF Next
<1>3. ASSUME UNCHANGED vars PROVE Agree'
  BY <1>3 DEF vars, vmVars, guiVars, flags, ControlInv, Agree, IdleIffDone, IdleIsOver,
              RunHasItsProgram, RunningWillEnd, Resetting, HasMore
<1>4. Agree'
  BY <1>2, <1>3
<1> QED
  BY <1>1, <1>4 DEF ControlInv, Agree

THEOREM ControlInvariant == Spec => []ControlInv
BY InitControl, NextControl, PTL DEF Spec

\* KumirProgram's state and KumirRunPlugin's done_ never disagree.
THEOREM MenuAndPluginAgree == Spec => []IdleIffDone
<1>1. ControlInv => IdleIffDone
  BY DEF ControlInv
<1> QED
  BY <1>1, ControlInvariant, PTL

\* Whatever the user and the signals do, a running session has an end to come.
THEOREM RunsHaveAnEnd == Spec => []RunningWillEnd
<1>1. ControlInv => RunningWillEnd
  BY DEF ControlInv
<1> QED
  BY <1>1, ControlInvariant, PTL

\* A run has the contexts of the program that was loaded for it.
THEOREM RunsHaveTheirProgram == Spec => []RunHasItsProgram
<1>1. ControlInv => RunHasItsProgram
  BY DEF ControlInv
<1> QED
  BY <1>1, ControlInvariant, PTL

\* An idle session keeps the reason its last run ended for, so that a report
\* handled late can not take it for a suspension.
THEOREM IdleSessionsAreOver == Spec => []IdleIsOver
<1>1. ControlInv => IdleIsOver
  BY DEF ControlInv
<1> QED
  BY <1>1, ControlInvariant, PTL

-----------------------------------------------------------------------------
(* The session a patient user sees.                                         *)

\* A command under way found the thread off and no signal queued; a queued
\* signal finds the thread past its loop; the text is open to editing only
\* when all of that is over.
Quiet ==
  /\ gpc \in {"reset", "arm", "start"} => thr = "off" /\ pending = 0 /\ pst # "Idle"
  /\ gpc = "stop" => pst # "Idle"
  /\ pending > 0 => thr \in {"fin2", "off"}
  /\ ~fresh => thr = "off" /\ pending = 0
  /\ Evaluating => pst # "Idle"
  /\ gst = "Unlocked" => thr = "off" /\ pending = 0

PatientInv == ControlInv /\ Quiet /\ EditableIffIdle

LEMMA InitPatient == Init => Quiet /\ EditableIffIdle
BY DEF Init, Quiet, EditableIffIdle, Evaluating

LEMMA StartRunPatient ==
  ASSUME Patient, PatientInv, NEW c, UserMay(c), c # "stop",
         NEW s \in ProgramStates \ {"Idle"}, NEW d, StartRun(s, d)
  PROVE  (Quiet /\ EditableIffIdle)'
<1>1. thr = "off" /\ pending = 0
  BY DEF UserMay, Ending, PatientInv, ControlInv, TypeOK
<1> QED
  BY <1>1 DEF StartRun, Quiet, EditableIffIdle, Evaluating

LEMMA UserPatient ==
  ASSUME Patient, PatientInv, User
  PROVE  (Quiet /\ EditableIffIdle)'
<1>1. CASE BlindRun
  BY <1>1, StartRunPatient DEF BlindRun, ProgramStates
<1>2. CASE RegularRun
  BY <1>2, StartRunPatient DEF RegularRun, ProgramStates
<1>3. CASE RunToCursor
  BY <1>3, StartRunPatient DEF RunToCursor, ProgramStates
<1>4. CASE TestingRun
  BY <1>4, StartRunPatient DEF TestingRun, ProgramStates
<1>5. CASE TestingRefused
  <2>1. thr = "off" /\ pending = 0 /\ gpc = "loop"
    BY <1>5 DEF TestingRefused, UserMay, Ending, PatientInv, ControlInv, TypeOK
  <2> QED
    BY <1>5, <2>1 DEF TestingRefused, PatientInv, Quiet, EditableIffIdle, Evaluating
<1>6. CASE StepRun
  BY <1>6, StartRunPatient DEF StepRun, DoStepRun, ProgramStates
<1>7. CASE StepIn
  <2>1. CASE DoStepRun
    BY <1>7, <2>1, StartRunPatient DEF StepIn, DoStepRun, ProgramStates
  <2>2. CASE ~DoStepRun
    <3>1. thr = "off" /\ pending = 0 /\ pst = "StepRun"
      BY <1>7, <2>2 DEF StepIn, UserMay, Ending, PatientInv, ControlInv, TypeOK
    <3>2. Give("into") /\ UNCHANGED <<gst, pst, fresh>>
      BY <1>7, <2>2 DEF StepIn
    <3> QED
      BY <3>1, <3>2 DEF Give, PatientInv, Quiet, EditableIffIdle, Evaluating
  <2> QED
    BY <2>1, <2>2
<1>8. CASE StepOut
  <2>1. thr = "off" /\ pending = 0 /\ pst = "StepRun"
    BY <1>8 DEF StepOut, UserMay, Ending, PatientInv, ControlInv, TypeOK
  <2> QED
    BY <1>8, <2>1 DEF StepOut, Give, PatientInv, Quiet, EditableIffIdle, Evaluating
<1>9. CASE Edit
  <2>1. thr = "off" /\ pending = 0 /\ gpc = "loop"
    BY <1>9 DEF Edit, Ending, PatientInv, ControlInv, TypeOK
  <2> QED
    BY <1>9, <2>1 DEF Edit, flags, PatientInv, Quiet, EditableIffIdle, Evaluating
<1> QED
  BY <1>1, <1>2, <1>3, <1>4, <1>5, <1>6, <1>7, <1>8, <1>9 DEF User

\* A report delivered to an idle session leaves it so: what ended the run is
\* still there to be read, in contexts that are still those of the program.
LEMMA DeliverPatient ==
  ASSUME PatientInv, Deliver, fresh
  PROVE  \/ gst' = "Pause" /\ pst # "Idle" /\ pst' = pst
         \/ gst' = "Observe" /\ pst' = "Idle"
<1>1. Report(HasMore)
  BY DeliverFresh
<1>2. pst = "Idle" => err \/ stopping \/ ~HasMore
  BY DEF PatientInv, ControlInv, IdleIsOver
<1> HIDE DEF HasMore
<1>3. CASE HasMore /\ ~err /\ ~stopping
  <2>1. gst' = "Pause" /\ pst' = pst
    BY <1>1, <1>3, Zenon DEF Report
  <2> QED
    BY <1>2, <1>3, <2>1, Zenon
<1>4. CASE ~(HasMore /\ ~err /\ ~stopping)
  BY <1>1, <1>4, Zenon DEF Report
<1> QED
  BY <1>3, <1>4

LEMMA GuiPatient ==
  ASSUME Patient, PatientInv, Gui \/ Stop
  PROVE  (Quiet /\ EditableIffIdle)'
<1>1. CASE Arm
  BY <1>1 DEF Arm, PatientInv, Quiet, EditableIffIdle, Evaluating
<1>2. CASE Start
  <2>1. thr = "off" /\ pending = 0 /\ pst # "Idle" /\ fresh /\ gst # "Unlocked"
    BY <1>2 DEF Start, PatientInv, Quiet, ControlInv, RunHasItsProgram, EditableIffIdle
  <2> QED
    BY <1>2, <2>1 DEF Start, PatientInv, Quiet, EditableIffIdle, Evaluating
<1>3. CASE HandleFinished
  <2>1. /\ pending > 0 /\ pending \in Nat /\ gpc = "loop" /\ thr \in {"fin2", "off"}
        /\ fresh
    BY <1>3 DEF HandleFinished, PatientInv, ControlInv, TypeOK, Quiet
  <2>2. \/ gst' = "Pause" /\ pst # "Idle" /\ pst' = pst
        \/ gst' = "Observe" /\ pst' = "Idle"
    BY <1>3, <2>1, DeliverPatient DEF HandleFinished
  <2>3. thr' = thr /\ gpc' = gpc /\ fresh' = fresh
    BY <1>3 DEF HandleFinished
  <2> QED
    BY <2>1, <2>2, <2>3 DEF Quiet, EditableIffIdle, Evaluating
<1>4. CASE StopCheck
  <2>1. CASE IsRunning
    BY <1>4, <2>1 DEF StopCheck, PatientInv, Quiet, EditableIffIdle, Evaluating
  <2>2. CASE ~IsRunning
    <3>1. fresh /\ pst # "Idle"
      BY <1>4 DEF StopCheck, PatientInv, Quiet, ControlInv, RunHasItsProgram
    <3>2. \/ gst' = "Pause" /\ pst # "Idle" /\ pst' = pst
          \/ gst' = "Observe" /\ pst' = "Idle"
      BY <1>4, <2>2, <3>1, DeliverPatient DEF StopCheck
    <3>3. ~Evaluating
      BY <2>2 DEF IsRunning, Evaluating
    <3>4. UNCHANGED <<thr, pending, fresh>> /\ gpc' = "loop"
      BY <1>4 DEF StopCheck
    <3> QED
      BY <3>1, <3>2, <3>3, <3>4 DEF PatientInv, Quiet, EditableIffIdle, Evaluating
  <2> QED
    BY <2>1, <2>2
<1>5. CASE Stop
  BY <1>5 DEF Stop, PatientInv, Quiet, EditableIffIdle, Evaluating
<1>6. CASE PluginRun
  BY <1>6 DEF PluginRun, PatientInv, Quiet, EditableIffIdle, Evaluating
<1> QED
  BY <1>1, <1>2, <1>3, <1>4, <1>5, <1>6 DEF Gui

\* The thread moves on only when it is started, within the program's run.
LEMMA ThreadPatient ==
  ASSUME Patient, PatientInv, Thread \/ InputGiven
  PROVE  (Quiet /\ EditableIffIdle)'
<1> USE DEF PatientInv, Quiet, EditableIffIdle
<1>1. CASE Check
  <2>1. thr = "check" /\ thr' \in {"eval", "tail"} /\ UNCHANGED guiVars
    BY <1>1 DEF Check
  <2> QED
    BY <2>1 DEF guiVars, Evaluating
<1>2. CASE Instruction
  <2>1. thr = "eval"
    BY <1>2 DEF Instruction, Line, Plain, Fail, Breakpoint, Call, CallLibrary, Ret, End,
                Halt, Pause, AskInput, EvalNothing, Evaluate
  <2>2. thr' \in {"check", "input"} /\ UNCHANGED guiVars
    BY <1>2, InstructionKeeps DEF ControlInv
  <2> QED
    BY <2>1, <2>2 DEF guiVars, Evaluating
<1>3. CASE InputCancelled \/ InputGiven
  BY <1>3 DEF InputCancelled, InputGiven, guiVars, Evaluating
<1>4. CASE Leave
  BY <1>4 DEF Leave, guiVars, Evaluating
<1>5. CASE PostFinished
  BY <1>5 DEF PostFinished, Evaluating
<1>6. CASE Finish
  BY <1>6 DEF Finish, guiVars, Evaluating
<1> QED
  BY <1>1, <1>2, <1>3, <1>4, <1>5, <1>6 DEF Thread

LEMMA NextPatient ==
  ASSUME Patient, PatientInv, [Next]_vars
  PROVE  PatientInv'
<1>1. ControlInv'
  BY NextControl DEF PatientInv
<1>2. ASSUME UNCHANGED vars PROVE (Quiet /\ EditableIffIdle)'
  BY <1>2 DEF vars, guiVars, PatientInv, Quiet, EditableIffIdle, Evaluating
<1>3. (Quiet /\ EditableIffIdle)'
  BY <1>2, UserPatient, GuiPatient, ThreadPatient DEF Next
<1> QED
  BY <1>1, <1>3 DEF PatientInv

LEMMA PatientInvariant ==
  ASSUME Patient
  PROVE  Spec => []PatientInv
<1>1. Init => PatientInv
  BY InitControl, InitPatient DEF PatientInv
<1>2. PatientInv /\ [Next]_vars => PatientInv'
  BY NextPatient
<1> QED
  BY <1>1, <1>2, PTL DEF Spec

-----------------------------------------------------------------------------

\* The text can be edited exactly while no run is under way.
THEOREM EditedOnlyWhenIdle ==
  ASSUME Patient
  PROVE  Spec => []EditableIffIdle
<1>1. PatientInv => EditableIffIdle
  BY DEF PatientInv
<1> QED
  BY <1>1, PatientInvariant, PTL

\* Only instructions of the program loaded last are evaluated.
THEOREM EvaluatesWhatWasLoaded ==
  ASSUME Patient
  PROVE  Spec => []EvaluatesLoadedProgram
<1>1. PatientInv => EvaluatesLoadedProgram
  BY DEF PatientInv, Quiet, EvaluatesLoadedProgram, Evaluating
<1> QED
  BY <1>1, PatientInvariant, PTL

-----------------------------------------------------------------------------
(* The refinement.                                                         *)

LEMMA InitRefines == Init => Session!Init
BY DEF Init, Session!Init, ModeOf, Evaluating

LEMMA StartRunRefines ==
  ASSUME Patient, PatientInv, NEW c, UserMay(c), c # "stop",
         NEW s, NEW d, StartRun(s, d)
  PROVE  [Session!Next]_<<ModeOf, Evaluating>>
<1>1. ~Evaluating /\ Evaluating' = Evaluating
  BY DEF UserMay, StartRun, Evaluating
<1>2. ModeOf' = "Running"
  BY DEF StartRun, ModeOf
<1> QED
  BY <1>1, <1>2 DEF Session!Next, Session!Run

LEMMA UserRefines ==
  ASSUME Patient, PatientInv, User
  PROVE  [Session!Next]_<<ModeOf, Evaluating>>
<1>1. CASE BlindRun
  BY <1>1, StartRunRefines DEF BlindRun
<1>2. CASE RegularRun
  BY <1>2, StartRunRefines DEF RegularRun
<1>3. CASE RunToCursor
  BY <1>3, StartRunRefines DEF RunToCursor
<1>4. CASE TestingRun
  BY <1>4, StartRunRefines DEF TestingRun
<1>5. CASE TestingRefused
  BY <1>5 DEF TestingRefused, ModeOf, Evaluating
<1>6. CASE StepRun
  BY <1>6, StartRunRefines DEF StepRun, DoStepRun
<1>7. CASE StepIn
  <2>1. CASE DoStepRun
    BY <1>7, <2>1, StartRunRefines DEF StepIn, DoStepRun
  <2>2. CASE ~DoStepRun
    BY <1>7, <2>2 DEF StepIn, Give, ModeOf, Evaluating
  <2> QED
    BY <2>1, <2>2
<1>8. CASE StepOut
  BY <1>8 DEF StepOut, Give, ModeOf, Evaluating
<1>9. CASE Edit
  BY <1>9 DEF Edit, ModeOf, Evaluating, Session!Next, Session!Edit
<1> QED
  BY <1>1, <1>2, <1>3, <1>4, <1>5, <1>6, <1>7, <1>8, <1>9 DEF User

\* A report suspends or ends a session that runs or is paused, and changes
\* nothing in one that is paused or over.
LEMMA DeliverRefines ==
  ASSUME PatientInv, Deliver, fresh, ~Evaluating, thr' = thr, gst # "Unlocked"
  PROVE  [Session!Next]_<<ModeOf, Evaluating>>
<1>1. Evaluating' = Evaluating
  BY DEF Evaluating
<1>2. gst \in {"Observe", "Running", "Pause"}
  BY DEF PatientInv, ControlInv, TypeOK, GlobalStates
<1>3. CASE gst' = "Pause" /\ pst # "Idle"
  <2>1. gst # "Observe"
    BY <1>3 DEF PatientInv, EditableIffIdle
  <2> QED
    BY <1>1, <1>2, <1>3, <2>1 DEF ModeOf, Session!Next, Session!Suspend
<1>4. CASE gst' = "Observe"
  BY <1>1, <1>2, <1>4 DEF ModeOf, Session!Next, Session!Finish
<1> QED
  BY <1>3, <1>4, DeliverPatient

LEMMA GuiRefines ==
  ASSUME Patient, PatientInv, Gui \/ Stop
  PROVE  [Session!Next]_<<ModeOf, Evaluating>>
<1>1. CASE Arm
  BY <1>1 DEF Arm, ModeOf, Evaluating
<1>2. CASE Start
  <2>1. thr = "off" /\ gst \in {"Running", "Pause"}
    BY <1>2 DEF Start, PatientInv, Quiet, EditableIffIdle, ControlInv, TypeOK, GlobalStates
  <2>2. thr' = "check" /\ gst' = gst
    BY <1>2, <2>1 DEF Start
  <2> QED
    BY <2>1, <2>2 DEF ModeOf, Evaluating, Session!Next, Session!Activate
<1>3. CASE HandleFinished
  <2>1. pending > 0 /\ pending \in Nat
    BY <1>3 DEF HandleFinished, PatientInv, ControlInv, TypeOK
  <2>2. ~Evaluating /\ fresh /\ gst # "Unlocked"
    BY <2>1 DEF PatientInv, Quiet, Evaluating
  <2> QED
    BY <1>3, <2>2, DeliverRefines DEF HandleFinished
<1>4. CASE StopCheck
  <2>1. CASE IsRunning
    BY <1>4, <2>1 DEF StopCheck, ModeOf, Evaluating
  <2>2. CASE ~IsRunning
    <3>1. ~Evaluating
      BY <2>2 DEF IsRunning, Evaluating
    <3>2. fresh /\ gst # "Unlocked"
      BY <1>4 DEF StopCheck, PatientInv, Quiet, ControlInv, RunHasItsProgram, EditableIffIdle
    <3> QED
      BY <1>4, <2>2, <3>1, <3>2, DeliverRefines DEF StopCheck
  <2> QED
    BY <2>1, <2>2
<1>5. CASE Stop
  BY <1>5 DEF Stop, ModeOf, Evaluating
<1>6. CASE PluginRun
  BY <1>6 DEF PluginRun, ModeOf, Evaluating
<1> QED
  BY <1>1, <1>2, <1>3, <1>4, <1>5, <1>6 DEF Gui

LEMMA ThreadRefines ==
  ASSUME PatientInv, Thread \/ InputGiven
  PROVE  [Session!Next]_<<ModeOf, Evaluating>>
<1>1. CASE Check
  <2>1. thr = "check" /\ thr' \in {"eval", "tail"} /\ gst' = gst
    BY <1>1 DEF Check, guiVars
  <2> QED
    BY <2>1 DEF ModeOf, Evaluating, Session!Next, Session!Cease
<1>2. CASE Instruction
  <2>1. thr = "eval"
    BY <1>2 DEF Instruction, Line, Plain, Fail, Breakpoint, Call, CallLibrary, Ret, End,
                Halt, Pause, AskInput, EvalNothing, Evaluate
  <2>2. thr' \in {"check", "input"} /\ gst' = gst
    BY <1>2, InstructionKeeps DEF PatientInv, ControlInv, guiVars
  <2> QED
    BY <2>1, <2>2 DEF ModeOf, Evaluating
<1>3. CASE InputCancelled \/ InputGiven
  BY <1>3 DEF InputCancelled, InputGiven, guiVars, ModeOf, Evaluating
<1>4. CASE Leave
  BY <1>4 DEF Leave, guiVars, ModeOf, Evaluating
<1>5. CASE PostFinished
  BY <1>5 DEF PostFinished, ModeOf, Evaluating
<1>6. CASE Finish
  BY <1>6 DEF Finish, guiVars, ModeOf, Evaluating
<1> QED
  BY <1>1, <1>2, <1>3, <1>4, <1>5, <1>6 DEF Thread

\* With a patient user every behaviour of the run control is a session as the
\* user guide describes it.
THEOREM RefinesSession ==
  ASSUME Patient
  PROVE  Spec => ImplementsSession
<1>1. PatientInv /\ [Next]_vars => [Session!Next]_<<ModeOf, Evaluating>>
  <2> SUFFICES ASSUME PatientInv, [Next]_vars
               PROVE  [Session!Next]_<<ModeOf, Evaluating>>
    OBVIOUS
  <2>1. CASE UNCHANGED vars
    BY <2>1 DEF vars, guiVars, ModeOf, Evaluating
  <2> QED
    BY <2>1, UserRefines, GuiRefines, ThreadRefines DEF Next
<1> QED
  BY <1>1, InitRefines, PatientInvariant, PTL DEF Spec, ImplementsSession, Session!Spec

-----------------------------------------------------------------------------
(* Editing, whoever commands.                                               *)

\* What a late report reads is what the stack says: the contexts are those of the
\* program, or none is left, or the machine may be asked without its program.  No
\* report is delivered within a run command.
Readable == gpc = "reset" \/ fresh \/ stack = << >> \/ bottom # "end"

\* A test is never refused after its program was loaded.
NeverRefused == "test" \notin Commands \/ \A p \in Programs : p.testing

\* No startup code stays on the stack when its main algorithm is over.
StartupsReturn == \A p \in Programs : p.start # "BELOW"

\* A report to an idle session leaves it idle, whoever commands.
LEMMA DeliverIdle ==
  ASSUME ControlInv, Readable, Deliver, gpc # "reset"
  PROVE  \/ gst' = "Pause" /\ pst # "Idle" /\ pst' = pst
         \/ gst' = "Observe" /\ pst' = "Idle"
<1>1. PICK more \in MoreRead : Report(more)
  BY DEF Deliver
<1>2. CASE pst # "Idle"
  BY <1>1, <1>2 DEF Report
<1>3. CASE pst = "Idle"
  <2>1. err \/ stopping \/ ~HasMore
    BY <1>3 DEF ControlInv, IdleIsOver
  <2>2. ~HasMore => more = FALSE
    BY DEF MoreRead, Readable, HasMore
  <2>3. ~more \/ err \/ stopping
    BY <2>1, <2>2
  <2> QED
    BY <1>1, <2>3 DEF Report
<1> QED
  BY <1>2, <1>3

LEMMA NextEditable ==
  ASSUME ControlInv, Readable, EditableIffIdle, [Next]_vars
  PROVE  EditableIffIdle'
<1> USE DEF EditableIffIdle
<1>1. CASE User
  <2>1. ASSUME NEW s \in ProgramStates \ {"Idle"}, NEW c, StartRun(s, c)
        PROVE  EditableIffIdle'
    BY <2>1 DEF StartRun
  <2>2. CASE DoStepRun
    BY <2>1, <2>2 DEF DoStepRun, ProgramStates
  <2>3. CASE BlindRun \/ RegularRun \/ RunToCursor \/ TestingRun
    BY <2>1, <2>3 DEF BlindRun, RegularRun, RunToCursor, TestingRun, ProgramStates
  <2>4. CASE UNCHANGED <<gst, pst>>
    BY <2>4
  <2>5. CASE Edit
    BY <2>5 DEF Edit
  <2> QED
    BY <1>1, <2>2, <2>3, <2>4, <2>5 DEF User, TestingRefused, StepRun, StepIn, StepOut
<1>2. CASE Gui \/ Stop
  <2>1. CASE Deliver /\ gpc # "reset"
    BY <2>1, DeliverIdle
  <2>2. CASE UNCHANGED <<gst, pst>>
    BY <2>2
  <2> QED
    BY <1>2, <2>1, <2>2 DEF Gui, Stop, PluginRun, Arm, Start, HandleFinished, StopCheck
<1>3. CASE Thread \/ InputGiven
  BY <1>3, InstructionKeeps
  DEF ControlInv, Thread, InputGiven, Check, InputCancelled, Leave, PostFinished, Finish,
      guiVars
<1>4. CASE UNCHANGED vars
  BY <1>4 DEF vars, guiVars
<1> QED
  BY <1>1, <1>2, <1>3, <1>4 DEF Next

\* Contexts without a program are none when loading is followed by a reset.
Owned == gpc = "reset" \/ fresh \/ stack = << >>

LEMMA NextOwned ==
  ASSUME NeverRefused, ControlInv, Owned, prog \in Programs, [Next]_vars
  PROVE  Owned' /\ prog' \in Programs
<1>1. CASE User
  <2>1. ASSUME NEW s, NEW c, StartRun(s, c)
        PROVE  Owned' /\ prog' \in Programs
    BY <2>1 DEF StartRun, Prepare, Owned
  <2>2. ~TestingRefused
    BY DEF NeverRefused, TestingRefused, UserMay, Prepare
  <2>3. CASE gpc = "loop" /\ UNCHANGED <<stack, fresh, prog>>
    BY <2>3 DEF Owned
  <2> QED
    BY <1>1, <2>1, <2>2, <2>3
    DEF User, BlindRun, RegularRun, RunToCursor, TestingRun, StepRun, DoStepRun, StepIn,
        StepOut, Edit, UserMay, vmVars
<1>2. CASE PluginRun
  BY <1>2 DEF PluginRun, ResetIfDone, ControlInv, Resetting, Owned
<1>3. CASE (Gui /\ ~PluginRun) \/ Stop
  <2>1. UNCHANGED <<fresh, prog>> /\ gpc # "reset"
    BY <1>3 DEF UserMay,  Gui, Stop, Arm, Start, HandleFinished, StopCheck
  <2>2. stack = << >> => stack' = << >>
    <3>1. CASE Arm
      BY <3>1 DEF Arm, SetBlindToEnd, SetNextCallToEnd, SetNextCallStepOver, SetNextCallInto,
                  SetNextCallToEndOfContext, AllToEnd, Depth
    <3> QED
      BY <1>3, <3>1 DEF Gui, Stop, Start, HandleFinished, StopCheck, vmVars
  <2> QED
    BY <2>1, <2>2 DEF Owned
<1>4. CASE Thread \/ InputGiven
  <2>1. UNCHANGED <<gpc, fresh, prog>>
    BY <1>4, InstructionKeeps
    DEF ControlInv, Thread, InputGiven, Check, InputCancelled, Leave, PostFinished, Finish,
        guiVars
  <2>2. stack = << >> => stack' = << >>
    BY <1>4, InstructionKeeps
    DEF ControlInv, Thread, InputGiven, Check, InputCancelled, Leave, PostFinished, Finish,
        vmVars, HasMore
  <2> QED
    BY <2>1, <2>2 DEF Owned
<1>5. CASE UNCHANGED vars
  BY <1>5 DEF vars, vmVars, guiVars, Owned
<1> QED
  BY <1>1, <1>2, <1>3, <1>4, <1>5 DEF Next

\* Contexts that end in a return.
ReturningContext == [kind : Kinds \ {"BELOW"}, mode : Modes, own : BOOLEAN]

Returning == stack \in Seq(ReturningContext) /\ bottom # "end"

\* A context of another mode ends as it did.
LEMMA ReturningTopMode ==
  ASSUME NEW s \in Seq(ReturningContext), s # << >>, NEW m \in Modes
  PROVE  WithTopMode(s, m) \in Seq(ReturningContext)
<1>1. Len(s) \in 1..Len(s)
  BY EmptySeq, LenProperties
<1>2. s[Len(s)] \in ReturningContext
  BY <1>1, ElementOfSeq
<1> DEFINE e == [s[Len(s)] EXCEPT !.mode = m]
<1>3. e \in ReturningContext
  BY <1>2 DEF ReturningContext
<1>4. WithTopMode(s, m) = [s EXCEPT ![Len(s)] = e]
  BY DEF WithTopMode
<1> QED
  BY <1>1, <1>3, <1>4, ExceptSeq

\* So do those below the top.
LEMMA ReturningBelow ==
  ASSUME stack \in Seq(ReturningContext), stack # << >>
  PROVE  Below \in Seq(ReturningContext)
<1>1. Depth \in Nat /\ Depth # 0
  BY EmptySeq, LenProperties DEF Depth
<1>2. \A i \in 1..(Depth - 1) : stack[i] \in ReturningContext
  BY <1>1, ElementOfSeq DEF Depth
<1> QED
  BY <1>1, <1>2 DEF Below

LEMMA ReturningAllToEnd ==
  ASSUME stack \in Seq(ReturningContext)
  PROVE  AllToEnd \in Seq(ReturningContext)
<1>1. Depth \in Nat /\ \A i \in 1..Depth : stack[i] \in ReturningContext
  BY LenProperties, ElementOfSeq DEF Depth
<1>2. \A c \in ReturningContext : [c EXCEPT !.mode = "ToEnd"] \in ReturningContext
  BY DEF ReturningContext, Modes
<1>3. \A i \in 1..Depth : [stack[i] EXCEPT !.mode = "ToEnd"] \in ReturningContext
  BY <1>1, <1>2
<1> QED
  BY <1>1, <1>3 DEF AllToEnd

LEMMA ReturningReset ==
  ASSUME StartupsReturn, NEW p \in Programs, NEW e, VMReset(p, e)
  PROVE  Returning'
<1>1. p \in Program /\ p.start # "BELOW"
  BY ProgramsAssumption DEF StartupsReturn
<1>2. StartContexts(p, e) \in Seq(ReturningContext)
  <2>1. p.start # "NONE" => Ctx(p.start, "ToEnd", TRUE) \in ReturningContext
    BY <1>1 DEF Program, Ctx, ReturningContext, Kinds, Modes
  <2>2. Ctx("TEST", "ToEnd", TRUE) \in ReturningContext
    BY DEF Ctx, ReturningContext, Kinds, Modes
  <2> HIDE DEF Ctx
  <2>3. \A c \in ReturningContext : <<c>> \in Seq(ReturningContext)
    OBVIOUS
  <2>4. << >> \in Seq(ReturningContext)
    BY EmptySeq
  <2>5. CASE e = "Main" /\ p.start # "NONE"
    BY <2>1, <2>3, <2>5 DEF StartContexts
  <2>6. CASE e # "Main" /\ p.testing
    BY <2>2, <2>3, <2>6 DEF StartContexts
  <2>7. CASE ~(e = "Main" /\ p.start # "NONE") /\ ~(e # "Main" /\ p.testing)
    BY <2>4, <2>7 DEF StartContexts
  <2> QED
    BY <2>5, <2>6, <2>7
<1>3. Len(p.inits) \in Nat /\ \A i \in 1..Len(p.inits) : p.inits[i] \in BOOLEAN
  BY <1>1, LenProperties, ElementOfSeq DEF Program
<1>4. \A i \in 1..Len(p.inits) :
        Ctx("INIT", IF p.inits[i] THEN "OneStep" ELSE "ToEnd", p.inits[i]) \in ReturningContext
  BY <1>3 DEF Ctx, ReturningContext, Kinds, Modes
<1>5. InitContexts(p) \in Seq(ReturningContext)
  BY <1>3, <1>4 DEF InitContexts
<1>6. stack' \in Seq(ReturningContext)
  BY <1>2, <1>5, ConcatProperties DEF VMReset
<1> QED
  BY <1>6 DEF VMReset, Returning

\* An instruction starts contexts that return, and ends none that does not.
LEMMA EvaluationReturning ==
  ASSUME VMTypeOK, Returning, stack # << >>, NEW e, Evaluation(e)
  PROVE  Returning'
<1>1. /\ Depth \in 1..Depth /\ Top \in ReturningContext
      /\ Top.kind # "BELOW" /\ Top.mode \in Modes /\ Top.own \in BOOLEAN
  <2>1. Depth \in 1..Depth /\ Top \in ReturningContext
    BY EmptySeq, LenProperties, ElementOfSeq DEF Returning, Depth, Top
  <2> QED
    BY <2>1 DEF ReturningContext
<1>2. \A m \in Modes : WithTopMode(stack, m) \in Seq(ReturningContext)
  BY ReturningTopMode DEF Returning
<1>3. Below \in Seq(ReturningContext)
  BY ReturningBelow DEF Returning
<1>4. CASE EvalPlain \/ EvalFail
  BY <1>4 DEF EvalPlain, EvalFail, vmVars, Returning
<1>5. CASE EvalBreakpoint \/ EvalPause(e)
  BY <1>2, <1>5
  DEF EvalBreakpoint, SetNextCallStepOver, EvalPause, Returning, Modes
<1>6. CASE EvalCall \/ EvalCallLibrary
  <2>1. \A k \in {"MAIN", "FUN"}, m \in Modes, o \in BOOLEAN :
          Ctx(k, m, o) \in ReturningContext
    BY DEF Ctx, ReturningContext, Kinds
  <2>2. \A c \in ReturningContext : Append(stack, c) \in Seq(ReturningContext)
    BY AppendProperties DEF Returning
  <2>3. \A k : CalledMode(k) \in Modes
    BY <1>1 DEF CalledMode, Modes
  <2> HIDE DEF Ctx
  <2>4. CASE EvalCall
    <3>1. PICK k \in {"MAIN", "FUN"} :
            /\ stack' = stack \/ stack' = Append(stack, Ctx(k, CalledMode(k), Top.own))
            /\ bottom' = IF k = "MAIN" THEN "after" ELSE bottom
      BY <1>1, <2>4 DEF EvalCall, Callees
    <3> QED
      BY <1>1, <2>1, <2>2, <2>3, <3>1 DEF Returning
  <2>5. CASE EvalCallLibrary
    BY <2>1, <2>2, <2>5 DEF EvalCallLibrary, Returning, Modes
  <2> QED
    BY <1>6, <2>4, <2>5
<1>7. CASE EvalRet
  <2>1. Depth > 1 => Below # << >>
    BY <1>1, BelowType, EmptySeq
  <2>2. Depth > 1 => WithTopMode(Below, "OneStep") \in Seq(ReturningContext)
    BY <1>3, <2>1, ReturningTopMode DEF Modes
  <2> QED
    BY <1>2, <1>3, <1>7, <2>2 DEF EvalRet, Returning, Modes
<1>8. CASE EvalEnd
  BY <1>1, <1>8 DEF EvalEnd
<1>9. CASE EvalHalt
  BY <1>9, EmptySeq DEF EvalHalt, Returning
<1> QED
  BY <1>4, <1>5, <1>6, <1>7, <1>8, <1>9 DEF Evaluation

LEMMA CommandReturning ==
  ASSUME Returning, DebuggerCommand
  PROVE  Returning'
<1>1. \A m \in Modes : stack # << >> => WithTopMode(stack, m) \in Seq(ReturningContext)
  BY ReturningTopMode DEF Returning
<1>2. AllToEnd \in Seq(ReturningContext)
  BY ReturningAllToEnd DEF Returning
<1> QED
  BY <1>1, <1>2
  DEF DebuggerCommand, SetNextCallInto, SetNextCallToEndOfContext, SetNextCallStepOver,
      SetNextCallToEnd, SetBlindToEnd, Returning, Modes

LEMMA NextReturning ==
  ASSUME StartupsReturn, TypeOK, Returning, prog \in Programs, [Next]_vars
  PROVE  Returning' /\ prog' \in Programs
<1>1. CASE UNCHANGED <<vmVars, prog>>
  BY <1>1 DEF vmVars, Returning
<1>2. CASE User
  <2>1. ASSUME NEW s, NEW c, StartRun(s, c)
        PROVE  Returning' /\ prog' \in Programs
    BY <2>1 DEF StartRun, Prepare, vmVars, Returning
  <2>2. CASE TestingRefused
    BY <2>2 DEF TestingRefused, Prepare, vmVars, Returning
  <2> QED
    BY <1>1, <1>2, <2>1, <2>2
    DEF User, BlindRun, RegularRun, RunToCursor, TestingRun, StepRun, DoStepRun, StepIn,
        StepOut, Edit
<1>3. CASE Gui \/ Stop
  <2>1. CASE Arm
    BY <2>1, ArmIsCommand, CommandReturning DEF Arm
  <2>2. CASE PluginRun
    BY <2>2, ReturningReset DEF PluginRun, ResetIfDone, vmVars, Returning
  <2> QED
    BY <1>1, <1>3, <2>1, <2>2 DEF Gui, Stop, Start, HandleFinished, StopCheck
<1>4. CASE Thread \/ InputGiven
  <2>1. prog' = prog
    BY <1>4, InstructionKeeps
    DEF Thread, InputGiven, Check, InputCancelled, Leave, PostFinished, Finish, guiVars
  <2>2. CASE Instruction
    <3>1. CASE stack # << >> /\ Evaluation(entry)
      BY <2>1, <3>1, EvaluationReturning DEF TypeOK
    <3> QED
      BY <1>1, <2>1, <2>2, <3>1, InstructionEvaluates
  <2> QED
    BY <1>1, <1>4, <2>1, <2>2
    DEF Thread, InputGiven, Check, InputCancelled, Leave, PostFinished, Finish
<1>5. CASE UNCHANGED vars
  BY <1>1, <1>5 DEF vars, guiVars
<1> QED
  BY <1>2, <1>3, <1>4, <1>5 DEF Next

\* Whoever commands, and however late reports come, the text can be edited exactly
\* while no run is under way (handleRunnerStopped, handleThreadFinished): unless
\* both a test can be refused, which leaves the machine with freed instructions,
\* and the startup code of a main algorithm with parameters can stay behind.
THEOREM AnyoneEditsOnlyWhenIdle ==
  ASSUME NeverRefused \/ StartupsReturn
  PROVE  Spec => []EditableIffIdle
<1> DEFINE OwnedInv == ControlInv /\ Owned /\ prog \in Programs /\ EditableIffIdle
           ReturnInv == ControlInv /\ Returning /\ prog \in Programs /\ EditableIffIdle
<1>1. Init => ControlInv /\ EditableIffIdle /\ prog \in Programs /\ Owned /\ Returning
  <2>1. << >> \in Seq(ReturningContext)
    BY EmptySeq
  <2> QED
    BY <2>1, InitControl DEF Init, VMInit, EditableIffIdle, Owned, Returning
<1>2. NeverRefused => (OwnedInv /\ [Next]_vars => OwnedInv')
  BY NextControl, NextOwned, NextEditable DEF Owned, Readable
<1>3. StartupsReturn => (ReturnInv /\ [Next]_vars => ReturnInv')
  BY NextControl, NextReturning, NextEditable DEF Returning, Readable, ControlInv
<1>4. CASE NeverRefused
  <2>1. Init => OwnedInv
    BY <1>1
  <2>2. OwnedInv /\ [Next]_vars => OwnedInv'
    BY <1>2, <1>4
  <2>3. OwnedInv => EditableIffIdle
    OBVIOUS
  <2> HIDE DEF OwnedInv
  <2> QED
    BY <2>1, <2>2, <2>3, PTL DEF Spec
<1>5. CASE StartupsReturn
  <2>1. Init => ReturnInv
    BY <1>1
  <2>2. ReturnInv /\ [Next]_vars => ReturnInv'
    BY <1>3, <1>5
  <2>3. ReturnInv => EditableIffIdle
    OBVIOUS
  <2> HIDE DEF ReturnInv
  <2> QED
    BY <2>1, <2>2, <2>3, PTL DEF Spec
<1> QED
  BY <1>4, <1>5

=============================================================================
