----------------------------- MODULE StackProofs -----------------------------
(***************************************************************************)
(* Theorems about the context stack: how deep it grows, that a pause can   *)
(* be resumed, where a step stops, and which lines it stops at.            *)
(***************************************************************************)
EXTENDS RunControlProofs, MCStepping

-----------------------------------------------------------------------------
(* The depth.                                                              *)

\* An instruction pushes below MAX_RECURSION_SIZE only.
LEMMA EvaluationDepth ==
  ASSUME VMTypeOK, stack # << >>, NEW e, Evaluation(e)
  PROVE  Len(stack') <= Depth \/ Len(stack') <= MaxRecursion
<1>1. Depth \in Nat /\ Depth > 0
  BY EmptySeq, LenProperties DEF VMTypeOK, Depth
<1>2. \A s \in Seq(Context), m \in Modes :
        s # << >> => Len(WithTopMode(s, m)) = Len(s)
  BY WithTopModeType
<1>3. Len(Below) = Depth - 1 /\ Below \in Seq(Context)
  BY BelowType
<1>4. CASE EvalPlain \/ EvalFail \/ EvalEnd
  BY <1>1, <1>4 DEF EvalPlain, EvalFail, EvalEnd, vmVars, Depth
<1>5. CASE EvalBreakpoint \/ EvalPause(e)
  BY <1>1, <1>2, <1>5
  DEF EvalBreakpoint, SetNextCallStepOver, EvalPause, VMTypeOK, Modes, Depth
<1>6. CASE EvalCall \/ EvalCallLibrary
  <2>1. \A c : Len(Append(stack, c)) = Depth + 1
    BY AppendProperties DEF VMTypeOK, Depth
  <2>2. stack' = stack \/ (~(Depth >= MaxRecursion) /\ \E c : stack' = Append(stack, c))
    BY <1>6 DEF EvalCall, EvalCallLibrary
  <2> QED
    BY <1>1, <2>1, <2>2, MaxRecursionAssumption DEF Depth
<1>7. CASE EvalRet
  <2>1. Depth > 1 => Below # << >>
    BY <1>1, <1>3, EmptySeq
  <2>2. Depth > 1 => Len(WithTopMode(Below, "OneStep")) = Depth - 1
    BY <1>2, <1>3, <2>1 DEF Modes
  <2>3. Len(WithTopMode(stack, "OneStep")) = Depth
    BY <1>2 DEF VMTypeOK, Modes, Depth
  <2> QED
    BY <1>1, <1>3, <1>7, <2>2, <2>3 DEF EvalRet
<1>8. CASE EvalHalt
  BY <1>1, <1>8, EmptySeq DEF EvalHalt
<1> QED
  BY <1>4, <1>5, <1>6, <1>7, <1>8 DEF Evaluation

\* A reset pushes a context of its own and one for each initialiser.
LEMMA ResetDepth ==
  ASSUME NEW p \in Program, NEW e, VMReset(p, e)
  PROVE  Len(stack') <= Len(p.inits) + 1
<1>1. Len(p.inits) \in Nat
  BY LenProperties DEF Program
<1>2. Len(InitContexts(p)) = Len(p.inits)
  BY <1>1 DEF InitContexts
<1> QED
  BY <1>1, <1>2 DEF VMReset, StartContexts

-----------------------------------------------------------------------------
(* Programs with fewer modules than MAX_RECURSION_SIZE.                    *)

InitsFit == \A p \in Programs : Len(p.inits) < MaxRecursion

DepthInv == TypeOK /\ prog \in Programs /\ Depth <= MaxRecursion

LEMMA InitDepth == Init => DepthInv
BY InitType, MaxRecursionAssumption DEF Init, VMInit, DepthInv, Depth

\* What a run command leaves on the stack.
LEMMA PluginRunDepth ==
  ASSUME InitsFit, DepthInv, PluginRun
  PROVE  Depth' <= MaxRecursion
<1>1. prog \in Program /\ Len(prog.inits) \in Nat /\ Len(prog.inits) < MaxRecursion
  BY ProgramsAssumption, LenProperties DEF DepthInv, InitsFit, Program
<1>2. ASSUME NEW e, VMReset(prog, e) PROVE Depth' <= MaxRecursion
  <2>1. VMTypeOK'
    BY <1>1, <1>2, ResetType
  <2>2. Len(stack') <= Len(prog.inits) + 1
    BY <1>1, <1>2, ResetDepth
  <2> QED
    BY <1>1, <2>1, <2>2, LenProperties, MaxRecursionAssumption
    DEF VMTypeOK, Depth
<1>3. CASE UNCHANGED vmVars
  BY <1>3 DEF DepthInv, vmVars, Depth
<1> QED
  BY <1>2, <1>3 DEF PluginRun, ResetIfDone

LEMMA UserDepth ==
  ASSUME DepthInv, User
  PROVE  prog' \in Programs /\ Depth' <= MaxRecursion
<1>1. CASE \E s, c : StartRun(s, c)
  BY <1>1 DEF StartRun, Prepare, DepthInv, vmVars, Depth
<1>2. CASE TestingRefused
  BY <1>2 DEF TestingRefused, Prepare, DepthInv, vmVars, Depth
<1>3. CASE UNCHANGED <<vmVars, prog>>
  BY <1>3 DEF DepthInv, vmVars, Depth
<1> QED
  BY <1>1, <1>2, <1>3
  DEF User, BlindRun, RegularRun, RunToCursor, TestingRun, StepRun, DoStepRun, StepIn,
      StepOut, Edit

LEMMA ThreadDepth ==
  ASSUME DepthInv, Thread \/ InputGiven
  PROVE  prog' \in Programs /\ Depth' <= MaxRecursion
<1>1. prog' = prog
  BY InstructionKeeps
  DEF DepthInv, Thread, InputGiven, Check, InputCancelled, Leave, PostFinished, Finish,
      guiVars
<1>2. CASE UNCHANGED vmVars
  BY <1>1, <1>2 DEF DepthInv, vmVars, Depth
<1>3. CASE stack # << >> /\ Evaluation(entry)
  <2>1. Len(stack') <= Depth \/ Len(stack') <= MaxRecursion
    BY <1>3, EvaluationDepth DEF DepthInv, TypeOK
  <2>2. Len(stack') \in Nat /\ Depth \in Nat
    BY <1>3, EvaluationType, LenProperties DEF DepthInv, TypeOK, VMTypeOK, Depth
  <2> QED
    BY <1>1, <2>1, <2>2, MaxRecursionAssumption DEF DepthInv, Depth
<1> QED
  BY <1>2, <1>3, InstructionEvaluates
  DEF Thread, InputGiven, Check, InputCancelled, Leave, PostFinished, Finish

LEMMA GuiDepth ==
  ASSUME InitsFit, DepthInv, Gui \/ Stop
  PROVE  prog' \in Programs /\ Depth' <= MaxRecursion
<1>1. CASE Arm
  <2>1. Depth' = Depth
    BY <1>1, ArmIsCommand, CommandType DEF DepthInv, TypeOK
  <2> QED
    BY <1>1, <2>1 DEF Arm, DepthInv
<1>2. CASE PluginRun
  BY <1>2, PluginRunDepth DEF PluginRun, DepthInv
<1>3. CASE ~Arm /\ ~PluginRun
  BY <1>3 DEF Gui, Stop, Start, HandleFinished, StopCheck, DepthInv, vmVars, Depth
<1> QED
  BY <1>1, <1>2, <1>3

\* No program recurses past MAX_RECURSION_SIZE (do_call, vm.hpp), whoever commands:
\* the contexts a reset pushes fit as well when there are fewer modules.
THEOREM RecursionIsBounded ==
  ASSUME InitsFit
  PROVE  Spec => []DepthBounded
<1>1. DepthInv /\ [Next]_vars => DepthInv'
  <2> SUFFICES ASSUME DepthInv, [Next]_vars
               PROVE  DepthInv'
    OBVIOUS
  <2>1. TypeOK'
    BY UserType, GuiType, ThreadType, StutterType DEF Next, DepthInv
  <2>2. CASE Next
    BY <2>1, <2>2, UserDepth, GuiDepth, ThreadDepth DEF Next, DepthInv
  <2>3. CASE UNCHANGED vars
    BY <2>1, <2>3 DEF vars, guiVars, vmVars, DepthInv, Depth
  <2> QED
    BY <2>2, <2>3
<1>2. DepthInv => DepthBounded
  BY DEF DepthInv, DepthBounded
<1> QED
  BY InitDepth, <1>1, <1>2, PTL DEF Spec

-----------------------------------------------------------------------------
(* A pause.                                                                *)

\* What paused the session left the program with more to evaluate; a session that
\* is stepped inside a pause has its end to come.
Resumable ==
  gst = "Pause" /\ thr \in {"off", "fin2"} /\ pending = 0 => HasMore /\ ~err

\* A report that suspends was made of a program with instructions left.
LEMMA DeliverResumable ==
  ASSUME ControlInv, EditableIffIdle', Deliver, UNCHANGED vmVars, gpc # "reset"
  PROVE  gst' = "Pause" => HasMore' /\ ~err'
<1>1. CASE pst = "Idle"
  <2>1. gst' = "Pause" => pst' = "Idle"
    BY <1>1 DEF Deliver, Report
  <2> QED
    BY <2>1 DEF EditableIffIdle
<1>2. CASE pst # "Idle"
  <2>1. Report(HasMore)
    BY <1>2, DeliverFresh DEF ControlInv, RunHasItsProgram
  <2> QED
    BY <2>1 DEF Report, vmVars, HasMore
<1> QED
  BY <1>1, <1>2

LEMMA UserResumable ==
  ASSUME Resumable, User
  PROVE  Resumable'
<1>1. CASE gst' # "Pause"
  BY <1>1 DEF Resumable
<1>2. CASE UNCHANGED <<vmVars, gst, thr, pending>>
  BY <1>2 DEF Resumable, vmVars, HasMore
<1> QED
  BY <1>1, <1>2
  DEF User, BlindRun, RegularRun, RunToCursor, TestingRun, TestingRefused, StepRun,
      DoStepRun, StepIn, StepOut, Edit, StartRun, Give

LEMMA GuiResumable ==
  ASSUME ControlInv, EditableIffIdle', Resumable, Gui \/ Stop
  PROVE  Resumable'
<1>1. CASE Arm
  <2>1. HasMore' = HasMore /\ err' = err
    BY <1>1, ArmIsCommand, CommandType DEF ControlInv, TypeOK
  <2> QED
    BY <1>1, <2>1 DEF Arm, Resumable
<1>2. CASE Start
  BY <1>2 DEF Start, Resumable, vmVars, HasMore
<1>3. CASE HandleFinished
  BY <1>3, DeliverResumable DEF HandleFinished, Resumable
<1>4. CASE StopCheck
  <2>1. CASE Deliver
    BY <1>4, <2>1, DeliverResumable DEF StopCheck, Resumable
  <2>2. CASE UNCHANGED gst
    BY <1>4, <2>2 DEF StopCheck, Resumable, vmVars, HasMore
  <2> QED
    BY <1>4, <2>1, <2>2 DEF StopCheck
<1>5. CASE Stop
  BY <1>5 DEF Stop, Resumable, vmVars, HasMore
<1>6. CASE PluginRun
  BY <1>6 DEF PluginRun, ControlInv, Resetting, Resumable
<1> QED
  BY <1>1, <1>2, <1>3, <1>4, <1>5, <1>6 DEF Gui

LEMMA ThreadResumable ==
  ASSUME ControlInv, Resumable, Thread \/ InputGiven
  PROVE  Resumable'
<1>1. CASE thr' \notin {"off", "fin2"}
  BY <1>1 DEF Resumable
<1>2. CASE PostFinished
  BY <1>2 DEF PostFinished, Resumable, ControlInv, TypeOK
<1>3. CASE Finish
  BY <1>3 DEF Finish, Resumable, guiVars, vmVars, HasMore
<1> QED
  BY <1>1, <1>2, <1>3, InstructionKeeps
  DEF Thread, InputGiven, Check, InputCancelled, Leave, ControlInv

LEMMA NextResumable ==
  ASSUME ControlInv, EditableIffIdle', Resumable, [Next]_vars
  PROVE  Resumable'
<1>1. CASE Next
  BY <1>1, UserResumable, GuiResumable, ThreadResumable DEF Next
<1>2. CASE UNCHANGED vars
  BY <1>2 DEF vars, guiVars, vmVars, Resumable, HasMore
<1> QED
  BY <1>1, <1>2

\* After a pause the program goes on where it was: the menu will not load it again,
\* the plugin will not reset it, and there is more to evaluate (handleThreadFinished,
\* kumirrunplugin.cpp).  Needed is only what keeps the text from being edited.
THEOREM PausesAreResumable ==
  ASSUME Patient \/ NeverRefused \/ StartupsReturn
  PROVE  Spec => []PauseIsResumable
<1>1. Init => Resumable
  BY DEF Init, Resumable
<1>2. ControlInv /\ EditableIffIdle' /\ Resumable /\ [Next]_vars => Resumable'
  BY NextResumable
<1>3. ControlInv /\ EditableIffIdle /\ Resumable => PauseIsResumable
  BY DEF ControlInv, IdleIffDone, RunHasItsProgram, EditableIffIdle, Resumable,
         PauseIsResumable
<1>4. Spec => []EditableIffIdle
  BY EditedOnlyWhenIdle, AnyoneEditsOnlyWhenIdle
<1> QED
  BY <1>1, <1>2, <1>3, <1>4, ControlInvariant, PTL DEF Spec

-----------------------------------------------------------------------------
(* Where a step stops.                                                     *)

\* The contexts above the one a step was given in run in these modes.
Marked(M) == mark <= Depth /\ \A i \in (mark + 1)..Depth : stack[i].mode \in M

\* What is above the mark keeps its modes when the top context gets one of them.
LEMMA MarkedTop ==
  ASSUME VMTypeOK, stack # << >>, mark \in Nat, NEW M, Marked(M),
         NEW m \in Modes, m \in M \/ mark = Depth,
         stack' = WithTopMode(stack, m), mark' = mark
  PROVE  Marked(M)'
<1>1. Depth \in Nat /\ Depth > 0
  BY EmptySeq, LenProperties DEF VMTypeOK, Depth
<1>2. Depth' = Depth
  BY WithTopModeType DEF VMTypeOK, Depth
<1>3. \A i \in 1..Depth : stack[i] \in Context
  BY ElementOfSeq DEF VMTypeOK, Depth
<1>4. \A i \in 1..Depth :
        stack'[i] = IF i = Depth THEN [stack[i] EXCEPT !.mode = m] ELSE stack[i]
  BY <1>1 DEF WithTopMode, VMTypeOK, Depth
<1>5. \A i \in 1..Depth : stack'[i].mode = IF i = Depth THEN m ELSE stack[i].mode
  BY <1>3, <1>4 DEF Context
<1> QED
  BY <1>1, <1>2, <1>5 DEF Marked

\* A call marks the main algorithm in the place of its startup code, and gives
\* every other context a mode of its own.
LEMMA MarkedCall ==
  ASSUME VMTypeOK, stack # << >>, mark \in Nat \ {0},
         NEW M, Marked(M), "ToEnd" \in M, into => "OneStep" \in M,
         \/ /\ EvalCall
            /\ mark' = IF mark = Depth /\ bottom' # bottom THEN Len(stack') ELSE mark
         \/ EvalCallLibrary /\ mark' = mark
  PROVE  Marked(M)' /\ mark' \in Nat \ {0}
<1>1. Depth \in Nat /\ Depth > 0
  BY EmptySeq, LenProperties DEF VMTypeOK, Depth
<1>2. CASE stack' = stack
  BY <1>1, <1>2 DEF Marked, Depth
<1>3. ASSUME NEW k, NEW m, NEW o, stack' = Append(stack, Ctx(k, m, o))
      PROVE  /\ Depth' = Depth + 1
             /\ \A i \in 1..Depth : stack'[i] = stack[i]
             /\ stack'[Depth + 1].mode = m
  <2>1. /\ Depth' = Depth + 1
        /\ \A i \in 1..Depth : stack'[i] = stack[i]
        /\ stack'[Depth + 1] = Ctx(k, m, o)
    BY <1>3, AppendProperties DEF VMTypeOK, Depth
  <2> QED
    BY <2>1 DEF Ctx
<1>4. ASSUME NEW k, NEW m \in M, NEW o, stack' = Append(stack, Ctx(k, m, o)),
             mark' = mark
      PROVE  Marked(M)'
  <2>1. /\ Depth' = Depth + 1
        /\ \A i \in 1..Depth : stack'[i] = stack[i]
        /\ stack'[Depth + 1].mode = m
    BY <1>3, <1>4
  <2>2. ASSUME NEW i \in (mark + 1)..(Depth + 1)
        PROVE  stack'[i].mode \in M
    <3>1. CASE i = Depth + 1
      BY <1>4, <2>1, <3>1
    <3>2. CASE i # Depth + 1
      <4>1. i \in 1..Depth /\ i \in (mark + 1)..Depth
        BY <1>1, <3>2
      <4> QED
        BY <2>1, <4>1 DEF Marked
    <3> QED
      BY <3>1, <3>2
  <2>3. mark' = mark /\ Depth' = Depth + 1
    BY <1>4, <2>1
  <2>4. mark' <= Depth'
    BY <1>1, <2>3 DEF Marked
  <2>5. \A i \in (mark' + 1)..Depth' : stack'[i].mode \in M
    BY <2>2, <2>3
  <2> QED
    BY <2>4, <2>5 DEF Marked
<1>5. CASE EvalCall /\ stack' # stack
  <2>1. PICK k \in Callees :
          /\ stack' = Append(stack, Ctx(k, CalledMode(k), Top.own))
          /\ bottom' = IF k = "MAIN" THEN "after" ELSE bottom
    BY <1>5 DEF EvalCall
  <2>2. mark' = IF mark = Depth /\ bottom' # bottom THEN Depth + 1 ELSE mark
    BY <1>3, <1>5, <2>1 DEF EvalCall, EvalCallLibrary, Depth
  <2>3. CASE mark' = Depth + 1
    BY <1>1, <1>3, <2>1, <2>3 DEF Marked
  <2>4. CASE mark' = mark
    <3>1. CalledMode(k) \in M
      <4>1. CASE into \/ ~(Top.kind = "BELOW" /\ k = "MAIN")
        BY <4>1 DEF CalledMode
      <4>2. CASE Top.kind = "BELOW" /\ k = "MAIN"
        <5>1. bottom = "before" /\ bottom' = "after"
          BY <2>1, <4>2 DEF Callees
        <5>2. mark # Depth
          BY <1>1, <2>2, <2>4, <5>1
        <5>3. Top.mode \in M
          BY <1>1, <5>2 DEF Marked, Top
        <5> QED
          BY <4>2, <5>3 DEF CalledMode
      <4> QED
        BY <4>1, <4>2
    <3> QED
      BY <1>4, <2>1, <2>4, <3>1
  <2> QED
    BY <1>1, <2>2, <2>3, <2>4
<1>6. CASE EvalCallLibrary /\ stack' # stack
  <2>1. stack' = Append(stack, Ctx("FUN", "ToEnd", FALSE)) /\ mark' = mark
    BY <1>6 DEF EvalCall, EvalCallLibrary
  <2> QED
    BY <1>4, <2>1
<1> QED
  BY <1>1, <1>2, <1>5, <1>6

\* A return moves the mark down with the stack; what it uncovers runs on in the mode
\* of an initialiser only.
LEMMA MarkedRet ==
  ASSUME VMTypeOK, stack # << >>, mark \in Nat, NEW M, Marked(M),
         "UntilReturn" \notin M, EvalRet,
         mark' = IF mark > Len(stack') THEN Len(stack') ELSE mark
  PROVE  Marked(M)' /\ (NoticesReturn => Depth' = mark')
<1>1. Depth \in Nat /\ Depth > 0 /\ mark <= Depth
  BY EmptySeq, LenProperties DEF VMTypeOK, Depth, Marked
<1>2. mark < Depth => Top.mode \in M
  BY <1>1 DEF Marked, Top
<1>3. CASE NoticesReturn
  <2>1. mark = Depth
    BY <1>1, <1>2, <1>3 DEF NoticesReturn
  <2>2. stack' = WithTopMode(stack, "OneStep") /\ Depth' = Depth
    BY <1>3, WithTopModeType DEF EvalRet, VMTypeOK, Modes, Depth
  <2>3. mark' = mark
    BY <1>1, <2>1, <2>2 DEF Depth
  <2> QED
    BY <2>1, <2>2, <2>3, MarkedTop DEF Modes
<1>4. CASE ~NoticesReturn
  <2>1. /\ Below \in Seq(Context) /\ Len(Below) = Depth - 1
        /\ \A i \in 1..(Depth - 1) : Below[i] = stack[i]
    BY <1>1, BelowType DEF Below, VMTypeOK, Depth
  <2>2. /\ Depth' = Depth - 1
        /\ \A i \in 1..(Depth - 1) :
             stack'[i].mode = stack[i].mode
               \/ (stack'[i].mode = "OneStep" /\ Top.mode = "OneStep")
    <3>1. CASE stack' = Below
      BY <2>1, <3>1 DEF Depth
    <3>2. CASE Depth > 1 /\ Top.mode = "OneStep" /\ stack' = WithTopMode(Below, "OneStep")
      <4>1. Below # << >>
        BY <1>1, <2>1, <3>2, EmptySeq
      <4>2. Depth' = Depth - 1
        BY <2>1, <3>2, <4>1, WithTopModeType DEF Modes, Depth
      <4>3. \A i \in 1..(Depth - 1) :
              stack'[i] = stack[i] \/ stack'[i] = [stack[i] EXCEPT !.mode = "OneStep"]
        BY <1>1, <2>1, <3>2 DEF WithTopMode
      <4>4. \A i \in 1..(Depth - 1) : stack[i] \in Context
        BY <1>1 DEF VMTypeOK, Depth
      <4> QED
        BY <3>2, <4>2, <4>3, <4>4 DEF Context
    <3> QED
      BY <1>4, <3>1, <3>2 DEF EvalRet
  <2>3. mark' = (IF mark = Depth THEN Depth - 1 ELSE mark)
    BY <1>1, <2>2 DEF Depth
  <2>4. mark' <= Depth'
    BY <1>1, <2>2, <2>3
  <2>5. \A i \in (mark' + 1)..Depth' : stack'[i].mode \in M
    BY <1>1, <1>2, <2>2, <2>3 DEF Marked
  <2> QED
    BY <1>4, <2>4, <2>5 DEF Marked
<1> QED
  BY <1>3, <1>4

\* What an instruction does to a mark: it keeps it, unless the thread suspends.
LEMMA InstructionMarked ==
  ASSUME TypeOK, Instruction, NEW M, "ToEnd" \in M, "UntilReturn" \notin M,
         into => "OneStep" \in M, mark # 0 => Marked(M)
  PROVE  /\ mark' # 0 => Marked(M)'
         /\ mark' # 0 /\ algDone' => algDone \/ Depth' = mark'
         /\ mark' # 0 /\ stepDone' =>
              stepDone \/ (Depth' = Depth /\ mark' = mark /\ Top.mode = "OneStep")
<1> DEFINE Kept ==
         /\ mark' # 0 => Marked(M)'
         /\ mark' # 0 /\ algDone' => algDone \/ Depth' = mark'
         /\ mark' # 0 /\ stepDone' =>
              stepDone \/ (Depth' = Depth /\ mark' = mark /\ Top.mode = "OneStep")
<1> SUFFICES Kept
  OBVIOUS
<1>1. VMTypeOK /\ mark \in Nat
  BY DEF TypeOK
<1>2. ASSUME UNCHANGED <<stack, flags, mark>> PROVE Kept
  BY <1>2 DEF flags, Marked, Depth
<1>3. CASE Line
  BY <1>3
  DEF Line, LineNotice, NoNotice, flags, EvalPlain, vmVars, NoticesLine, Marked, Depth
<1>4. CASE Plain \/ Fail \/ End \/ AskInput \/ EvalNothing
  BY <1>2, <1>4 DEF Plain, Fail, End, AskInput, EvalNothing, NoNotice, EvalPlain, EvalFail,
                    EvalEnd, vmVars
<1>5. CASE Breakpoint
  BY <1>5 DEF Breakpoint
<1>6. CASE Halt
  BY <1>6 DEF Halt, NoNotice, flags
<1>7. CASE Call \/ CallLibrary
  <2>1. stack # << >> /\ UNCHANGED flags
    BY <1>7 DEF Call, CallLibrary, Evaluate, HasMore, NoNotice
  <2>2. Depth # 0
    BY <1>1, <2>1, EmptySeq, LenProperties DEF VMTypeOK, Depth
  <2>3. CASE mark = 0
    BY <1>7, <2>1, <2>2, <2>3 DEF Call, CallLibrary, flags
  <2>4. CASE mark # 0
    BY <1>1, <1>7, <2>1, <2>4, MarkedCall DEF Call, CallLibrary, flags
  <2> QED
    BY <2>3, <2>4
<1>8. CASE Ret
  <2>1. stack # << >> /\ EvalRet /\ stepDone' = stepDone
        /\ mark' = (IF mark > Len(stack') THEN Len(stack') ELSE mark)
        /\ algDone' = (algDone \/ NoticesReturn)
    BY <1>8 DEF Ret, Evaluate, HasMore
  <2>2. CASE mark = 0
    <3>1. Len(stack') \in Nat
      BY <1>8, InstructionType, LenProperties DEF Instruction, TypeOK, VMTypeOK
    <3> QED
      BY <2>1, <2>2, <3>1
  <2>3. CASE mark # 0
    <3>1. Marked(M)' /\ (NoticesReturn => Depth' = mark')
      BY <1>1, <2>1, <2>3, MarkedRet
    <3> QED
      BY <2>1, <3>1
  <2> QED
    BY <2>2, <2>3
<1>9. CASE Pause
  <2>1. CASE Suspends(entry)
    BY <1>9, <2>1 DEF Pause
  <2>2. CASE ~Suspends(entry)
    <3>1. stack # << >> /\ UNCHANGED <<flags, mark>> /\ EvalPause(entry)
      BY <1>9, <2>2 DEF Pause, Evaluate, HasMore, NoNotice
    <3>2. CASE entry = "Main"
      <4>1. Top.mode = "OneStep" /\ stack' = WithTopMode(stack, "OneStep")
        BY <2>2, <3>1, <3>2 DEF Suspends, EvalPause
      <4>2. Marked(M) => "OneStep" \in M \/ mark = Depth
        BY <1>1, <4>1, LenProperties DEF Marked, Top, VMTypeOK, Depth
      <4>3. mark # 0 => Marked(M)'
        BY <1>1, <3>1, <4>1, <4>2, MarkedTop DEF Modes
      <4> QED
        BY <3>1, <4>3 DEF flags
    <3>3. CASE entry # "Main"
      BY <1>2, <3>1, <3>3 DEF EvalPause
    <3> QED
      BY <3>2, <3>3
  <2> QED
    BY <2>1, <2>2
<1> QED
  BY <1>3, <1>4, <1>5, <1>6, <1>7, <1>8, <1>9 DEF Instruction

\* Stepping out, only the context the command was given in reports its return; when
\* it has, nothing is evaluated before the thread leaves its loop.
OutMarked ==
  /\ mark # 0 /\ (runMode = "StepOut" \/ gpc # "arm") => Marked({"ToEnd", "OneStep"})
  /\ runMode = "StepOut" /\ algDone => thr \notin {"eval", "input"}
  /\ runMode = "StepOut" /\ algDone /\ mark # 0 => Depth = mark

\* A suspension makes of any mode the step over calls, given nowhere.
LEMMA InstructionMode ==
  ASSUME TypeOK, Instruction
  PROVE  runMode' # runMode => runMode' = "StepOver" /\ mark' = 0
BY DEF Instruction, Line, Plain, Fail, Breakpoint, Call, CallLibrary, Ret, End, Halt, Pause,
       AskInput, EvalNothing, LineNotice, NoNotice, flags

LEMMA UserOutMarked ==
  ASSUME OutMarked, User
  PROVE  OutMarked'
<1>1. CASE TestingRefused \/ Edit
  BY <1>1 DEF TestingRefused, Edit, vmVars, flags, OutMarked, Marked, Depth
<1>2. CASE StepIn /\ pst = "StepRun"
  BY <1>2 DEF StepIn, DoStepRun, StartRun, OutMarked, FlagsStepIn, Give
<1>3. CASE gpc = "loop" /\ FlagsStepOut /\ UNCHANGED <<vmVars, mark>>
  BY <1>3 DEF OutMarked, FlagsStepOut, vmVars, Marked, Depth
<1>4. CASE gpc = "loop" /\ \E s, c : StartRun(s, c)
  BY <1>4 DEF StartRun, OutMarked, vmVars, flags, Marked, Depth
<1> QED
  BY <1>1, <1>2, <1>3, <1>4
  DEF User, BlindRun, RegularRun, RunToCursor, TestingRun, StepRun, DoStepRun, StepIn,
      StepOut, UserMay, Give

LEMMA GuiOutMarked ==
  ASSUME TypeOK, OutMarked, Gui \/ Stop
  PROVE  OutMarked'
<1>1. CASE Arm
  <2>1. Depth' = Depth /\ Depth \in Nat
    BY <1>1, ArmIsCommand, CommandType, DepthType DEF TypeOK
  <2>2. mark' = 0 \/ mark' = Depth'
    BY <1>1, <2>1 DEF Arm
  <2>3. mark' # 0 => Marked({"ToEnd", "OneStep"})'
    BY <2>1, <2>2 DEF Marked
  <2>4. UNCHANGED <<runMode, algDone, thr>>
    BY <1>1 DEF Arm, flags
  <2> QED
    BY <2>2, <2>3, <2>4 DEF OutMarked
<1>2. CASE PluginRun
  BY <1>2 DEF PluginRun, OutMarked, FlagsToEnd, FlagsStepOver
<1>3. CASE ~Arm /\ ~PluginRun
  <2>1. UNCHANGED <<stack, mark, runMode, algDone>> /\ gpc # "arm"
    BY <1>3 DEF Gui, Stop, UserMay, Start, HandleFinished, StopCheck, vmVars, flags
  <2>2. thr' \in {thr, "check"}
    BY <1>3 DEF Gui, Stop, Start, HandleFinished, StopCheck
  <2> QED
    BY <2>1, <2>2 DEF OutMarked, Marked, Depth
<1> QED
  BY <1>1, <1>2, <1>3

LEMMA ThreadOutMarked ==
  ASSUME TypeOK, OutMarked, Thread \/ InputGiven
  PROVE  OutMarked'
<1>1. CASE Instruction
  <2>1. thr \in {"eval", "input"} /\ gpc' = gpc
    BY <1>1, InstructionKeeps
    DEF guiVars, Instruction, Line, Plain, Fail, Breakpoint, Call, CallLibrary, Ret, End,
        Halt, Pause, AskInput, EvalNothing, Evaluate
  <2>2. thr' = "input" => UNCHANGED flags
    BY <1>1
    DEF Instruction, Line, Plain, Fail, Breakpoint, Call, CallLibrary, Ret, End, Halt,
        Pause, AskInput, EvalNothing, Evaluate
  <2>3. runMode' # runMode => runMode' = "StepOver" /\ mark' = 0
    BY <1>1, InstructionMode
  <2>4. thr' \in {"check", "input"}
    BY <1>1, InstructionKeeps
  <2>5. ASSUME mark # 0 => Marked({"ToEnd", "OneStep"})
        PROVE  /\ mark' # 0 => Marked({"ToEnd", "OneStep"})'
               /\ mark' # 0 /\ algDone' => algDone \/ Depth' = mark'
    BY <1>1, <2>5, InstructionMarked
  <2>6. runMode = "StepOut" => ~algDone
    BY <2>1 DEF OutMarked
  <2>7. CASE runMode = "StepOut" \/ gpc # "arm"
    <3>1. mark # 0 => Marked({"ToEnd", "OneStep"})
      BY <2>7 DEF OutMarked
    <3>2. runMode' = "StepOut" => runMode = "StepOut"
      BY <2>3
    <3> QED
      BY <2>2, <2>4, <2>5, <2>6, <3>1, <3>2 DEF OutMarked, flags
  <2>8. CASE runMode # "StepOut" /\ gpc = "arm"
    BY <2>1, <2>3, <2>8 DEF OutMarked
  <2> QED
    BY <2>7, <2>8
<1>2. CASE Check
  <2>1. UNCHANGED <<stack, gpc, runMode, algDone, mark>>
    BY <1>2 DEF Check, vmVars, guiVars, flags
  <2>2. thr' \in {"eval", "tail"} /\ (thr' = "eval" => ~(runMode = "StepOut" /\ algDone))
    BY <1>2 DEF Check, MustStop
  <2> QED
    BY <2>1, <2>2 DEF OutMarked, Marked, Depth
<1>3. CASE InputGiven \/ InputCancelled \/ Leave \/ PostFinished \/ Finish
  BY <1>3
  DEF InputGiven, InputCancelled, Leave, PostFinished, Finish, vmVars, guiVars, flags,
      OutMarked, Marked, Depth
<1> QED
  BY <1>1, <1>2, <1>3 DEF Thread

\* `To the end of the algorithm' stops at the return of the algorithm it was given in,
\* not of one that it calls, whoever commands and whatever steps were interrupted
\* before (do_ret, vm.hpp).
THEOREM StepsOutStopAtReturn == Spec => []StepOutStopsAtReturn
<1>1. Init => OutMarked
  BY DEF Init, OutMarked
<1>2. TypeOK /\ OutMarked /\ [Next]_vars => OutMarked'
  <2>1. TypeOK /\ OutMarked /\ Next => OutMarked'
    BY UserOutMarked, GuiOutMarked, ThreadOutMarked DEF Next
  <2>2. OutMarked /\ UNCHANGED vars => OutMarked'
    BY DEF vars, guiVars, vmVars, flags, OutMarked, Marked, Depth
  <2> QED
    BY <2>1, <2>2
<1>3. OutMarked => StepOutStopsAtReturn
  <2>1. mark > 0 => mark # 0
    OBVIOUS
  <2> QED
    BY <2>1 DEF OutMarked, StepOutStopsAtReturn
<1> QED
  BY <1>1, <1>2, <1>3, TypeCorrect, PTL DEF Spec

\* Stepping over calls, only the context the command was given in reports its lines.
OverMarked ==
  runMode = "StepOver" =>
    /\ gpc = "arm" => ~stepDone
    /\ stepDone => thr \notin {"eval", "input"}
    /\ gpc # "arm" /\ mark # 0 => Marked({"ToEnd"}) /\ (stepDone => Depth = mark)

LEMMA SameMarked ==
  ASSUME UNCHANGED <<stack, runMode, algDone, stepDone, mark>>,
         gpc # "arm", gpc' # "arm",
         thr' = thr \/ thr' \notin {"eval", "input"}
  PROVE  OverMarked => OverMarked'
BY DEF OverMarked, Marked, Depth

LEMMA UserMarked ==
  ASSUME PatientInv, Patient, User
  PROVE  OverMarked => OverMarked'
<1>1. gpc = "loop" /\ thr = "off" /\ thr' = "off"
  BY DEF User, BlindRun, RegularRun, RunToCursor, TestingRun, TestingRefused, StepRun,
         DoStepRun, StepIn, StepOut, Edit, StartRun, UserMay, Give
<1>2. CASE TestingRefused \/ Edit
  BY <1>1, <1>2, SameMarked DEF TestingRefused, Edit, vmVars, flags
<1>3. CASE gpc' = "arm" /\ (FlagsStepIn \/ FlagsStepOut)
  BY <1>1, <1>3 DEF OverMarked, FlagsStepIn, FlagsStepOut
<1>4. CASE \E s, c : StartRun(s, c)
  BY <1>1, <1>4, SameMarked DEF StartRun, vmVars, flags
<1> QED
  BY <1>2, <1>3, <1>4
  DEF User, BlindRun, RegularRun, RunToCursor, TestingRun, StepRun, DoStepRun, StepIn,
      StepOut, Give

LEMMA GuiMarked ==
  ASSUME PatientInv, Gui \/ Stop
  PROVE  OverMarked => OverMarked'
<1>1. CASE Arm
  <2>1. Depth' = Depth /\ Depth \in Nat
    BY <1>1, ArmIsCommand, CommandType, DepthType DEF PatientInv, ControlInv, TypeOK
  <2>2. mark' = 0 \/ mark' = Depth'
    BY <1>1, <2>1 DEF Arm
  <2>3. mark' # 0 => \A M : Marked(M)'
    BY <2>1, <2>2 DEF Marked
  <2>4. UNCHANGED <<runMode, algDone, stepDone, thr>> /\ gpc = "arm" /\ gpc' = "start"
    BY <1>1 DEF Arm, flags
  <2> QED
    BY <2>3, <2>4 DEF OverMarked
<1>2. CASE PluginRun
  BY <1>2 DEF PluginRun, OverMarked, FlagsToEnd, FlagsStepOver
<1>3. CASE ~Arm /\ ~PluginRun
  BY <1>3, SameMarked
  DEF Gui, Stop, UserMay, Start, HandleFinished, StopCheck, vmVars, flags
<1> QED
  BY <1>1, <1>2, <1>3

LEMMA ThreadMarked ==
  ASSUME PatientInv, Thread \/ InputGiven
  PROVE  OverMarked /\ ~into => OverMarked'
<1>1. TypeOK
  BY DEF PatientInv, ControlInv
<1>2. gpc \in {"arm", "start"} => thr = "off"
  BY DEF PatientInv, Quiet
<1>3. CASE Check
  <2>1. UNCHANGED <<stack, gpc, runMode, algDone, stepDone, mark>>
    BY <1>3 DEF Check, vmVars, guiVars, flags
  <2>2. thr' = "eval" => ~MustStop
    BY <1>3 DEF Check
  <2> QED
    BY <1>3, <2>1, <2>2 DEF Check, MustStop, OverMarked, Marked, Depth
<1>4. CASE Instruction
  <2>1. thr = "eval" /\ thr' \in {"check", "input"} /\ gpc' = gpc /\ gpc # "arm"
    BY <1>1, <1>2, <1>4, InstructionKeeps
    DEF guiVars, Instruction, Line, Plain, Fail, Breakpoint, Call, CallLibrary, Ret, End,
        Halt, Pause, AskInput, EvalNothing, Evaluate
  <2>2. thr' = "input" => UNCHANGED flags
    BY <1>4
    DEF Instruction, Line, Plain, Fail, Breakpoint, Call, CallLibrary, Ret, End, Halt,
        Pause, AskInput, EvalNothing, Evaluate
  <2>3. ASSUME OverMarked, ~into, runMode' = "StepOver"
        PROVE  OverMarked'
    <3>1. CASE runMode # "StepOver"
      BY <1>1, <1>4, <2>1, <2>2, <3>1, InstructionMode DEF OverMarked, flags
    <3>2. CASE runMode = "StepOver"
      <4>1. ~stepDone /\ (mark # 0 => Marked({"ToEnd"}))
        BY <2>1, <2>3, <3>2 DEF OverMarked
      <4>2. /\ mark' # 0 => Marked({"ToEnd"})'
            /\ mark' # 0 /\ stepDone' =>
                 Depth' = Depth /\ mark' = mark /\ Top.mode = "OneStep"
        BY <1>1, <1>4, <2>3, <4>1, InstructionMarked
      <4>3. Depth \in Nat /\ mark \in Nat
        BY <1>1, DepthType DEF TypeOK
      <4>4. mark # 0 /\ Top.mode = "OneStep" => Depth = mark
        BY <4>1, <4>3 DEF Marked, Top
      <4> QED
        BY <2>1, <2>2, <4>1, <4>2, <4>4 DEF OverMarked, flags
    <3> QED
      BY <3>1, <3>2
  <2> QED
    BY <2>3 DEF OverMarked
<1>5. CASE InputGiven \/ InputCancelled \/ Leave \/ PostFinished \/ Finish
  BY <1>2, <1>5, SameMarked
  DEF InputGiven, InputCancelled, Leave, PostFinished, Finish, vmVars, guiVars, flags
<1> QED
  BY <1>3, <1>4, <1>5 DEF Thread

LEMMA NextMarked ==
  ASSUME Patient, PatientInv, [Next]_vars
  PROVE  OverMarked /\ ~into => OverMarked'
<1>1. CASE Next
  BY <1>1, UserMarked, GuiMarked, ThreadMarked DEF Next
<1>2. CASE UNCHANGED vars
  BY <1>2 DEF vars, guiVars, vmVars, flags, OverMarked, Marked, Depth
<1> QED
  BY <1>1, <1>2

-----------------------------------------------------------------------------
(* The users of MCStepping.                                                *)

\* nextCallInto_ is set by the step into calls alone.
NeverInto == ~into /\ cmd # "into"

LEMMA NextNeverInto ==
  ASSUME TypeOK, NeverInto, [Next]_vars, cmd' # "into"
  PROVE  NeverInto'
<1>1. CASE User
  BY <1>1
  DEF User, BlindRun, RegularRun, RunToCursor, TestingRun, TestingRefused, StepRun,
      DoStepRun, StepIn, StepOut, Edit, StartRun, vmVars, NeverInto
<1>2. CASE PluginRun
  BY <1>2 DEF PluginRun, ResetIfDone, VMReset, vmVars, NeverInto
<1>3. CASE (Gui /\ ~PluginRun) \/ Stop
  BY <1>3
  DEF Gui, Stop, Arm, SetBlindToEnd, SetNextCallToEnd, SetNextCallStepOver,
      SetNextCallToEndOfContext, Start, HandleFinished, StopCheck, vmVars, NeverInto
<1>4. CASE Instruction
  <2>1. into' => into
    BY <1>4
    DEF Instruction, Line, Plain, Fail, Breakpoint, Call, CallLibrary, Ret, End, Halt,
        Pause, AskInput, EvalNothing, EvalPlain, EvalFail, EvalBreakpoint,
        SetNextCallStepOver, EvalCall, EvalCallLibrary, EvalRet, EvalEnd, EvalPause,
        EvalHalt, vmVars
  <2> QED
    BY <2>1 DEF NeverInto
<1>5. CASE UNCHANGED vmVars
  BY <1>5 DEF vmVars, NeverInto
<1> QED
  BY <1>1, <1>2, <1>3, <1>4, <1>5
  DEF Next, Thread, Check, InputCancelled, InputGiven, Leave, PostFinished, Finish, vars

LEMMA SteppingIsNext == [SteppingNext]_<<vars, user>> => [Next]_vars
BY DEF SteppingNext, vars

\* Who never steps into calls steps over them: a step stops in the algorithm it was
\* given in or in a caller, with breakpoints, pauses, errors and stops in between
\* (do_call and do_line, vm.hpp).  After a step into nothing the next step over may
\* stop in a callee.
THEOREM CallsAreOneStep ==
  ASSUME Patient
  PROVE  SteppingSpec => []StepsOverCalls
<1> DEFINE Over == user = "over" => NeverInto /\ OverMarked
<1>1. SteppingInit => PatientInv /\ Over
  BY InitControl, InitPatient
  DEF SteppingInit, PatientInv, Init, VMInit, NeverInto, OverMarked
<1>2. PatientInv /\ Over /\ [SteppingNext]_<<vars, user>> => PatientInv' /\ Over'
  <2> SUFFICES ASSUME PatientInv, Over, [SteppingNext]_<<vars, user>>
               PROVE  PatientInv' /\ Over'
    OBVIOUS
  <2>1. PatientInv' /\ [Next]_vars /\ TypeOK
    BY SteppingIsNext, NextPatient DEF PatientInv, ControlInv
  <2>2. user' = user
    BY DEF SteppingNext
  <2>3. user = "over" => cmd' # "into"
    BY DEF SteppingNext, UserKeeps, vars, guiVars, NeverInto
  <2>4. user = "over" => NeverInto' /\ OverMarked'
    BY <2>1, <2>3, NextNeverInto, NextMarked DEF NeverInto
  <2> QED
    BY <2>1, <2>2, <2>4
<1>3. PatientInv /\ Over => StepsOverCalls
  BY DepthType
  DEF PatientInv, ControlInv, TypeOK, OverMarked, StepTreatsCallAsOneStep, StepsOverCalls
<1> QED
  BY <1>1, <1>2, <1>3, PTL DEF SteppingSpec

-----------------------------------------------------------------------------
(* Stepping from the start.                                                *)

\* A context that is stepped through, or is below an initialiser that will hand its
\* mode on, or is code of a library.
Stepped(i) ==
  \/ stack[i].mode = "OneStep"
  \/ i < Depth /\ stack[i + 1].kind = "INIT"
  \/ stack[i].kind = "FUN" /\ ~stack[i].own

AllStepped == \A i \in 1..Depth : Stepped(i)

\* A command found every context stepped, or those a reset left.
Armed ==
  /\ pst = "StepRun" /\ ~stepDone
  /\ \A i \in 1..Depth : i < Depth => Stepped(i)
  /\ cmd = "step" \/ (cmd = "into" /\ AllStepped)
  /\ into => AllStepped

\* Only calls that are stepped over leave contexts unstepped, on the top of the stack.
Chain ==
  \A i \in 1..Depth : ~Stepped(i) =>
    \A j \in i..Depth : stack[j].kind = "FUN" /\ stack[j].mode = "ToEnd"

MarkStepped == mark <= Depth /\ \A i \in 1..mark : Stepped(i)

\* While there are such contexts the thread runs on, and no call is stepped into.
Stepping ==
  /\ Chain /\ MarkStepped
  /\ into \/ stepDone => AllStepped
  /\ stepDone => thr \notin {"eval", "input"}
  /\ thr \in {"tail", "fin1", "fin2", "off"} /\ gpc # "start" =>
       ~HasMore \/ err \/ stopping \/ stepDone

\* The thread suspends at lines only; a stop is reported.
LineInv ==
  /\ ~blind /\ ~breakHit
  /\ pst \in {"Idle", "StepRun"}
  /\ gpc = "reset" => pst = "StepRun" /\ cmd = "step" /\ (done \/ AllStepped)
  /\ pst = "StepRun" /\ gpc # "reset" => runMode \in {"StepOver", "StepIn"}
  /\ pst = "StepRun" /\ stopping =>
       gpc \in {"reset", "arm", "start", "stop"} \/ thr \notin {"off", "fin2"} \/ pending > 0
  /\ gpc = "arm" => Armed
  /\ pst = "StepRun" /\ gpc \notin {"reset", "arm"} => Stepping

\* The top context is stepped through.
LEMMA TopStepped ==
  ASSUME VMTypeOK, stack # << >>, stack' = WithTopMode(stack, "OneStep")
  PROVE  /\ Depth' = Depth /\ Stepped(Depth)'
         /\ \A i \in 1..Depth : i # Depth => stack'[i] = stack[i]
         /\ \A i \in 1..Depth : i # Depth => (Stepped(i)' <=> Stepped(i))
<1>1. Depth \in Nat /\ Depth > 0
  BY EmptySeq, LenProperties DEF VMTypeOK, Depth
<1>2. Depth' = Depth
  BY WithTopModeType DEF VMTypeOK, Modes, Depth
<1>3. \A i \in 1..Depth : stack[i] \in Context
  BY ElementOfSeq DEF VMTypeOK, Depth
<1>4. \A i \in 1..Depth : i # Depth => stack'[i] = stack[i]
  BY <1>1 DEF WithTopMode, VMTypeOK, Depth
<1>5. stack'[Depth] = [stack[Depth] EXCEPT !.mode = "OneStep"]
  BY <1>1 DEF WithTopMode, VMTypeOK, Depth
<1>6. stack'[Depth].mode = "OneStep" /\ stack'[Depth].kind = stack[Depth].kind
  BY <1>1, <1>3, <1>5 DEF Context
<1>7. Stepped(Depth)'
  BY <1>2, <1>6 DEF Stepped
<1>8. ASSUME NEW i \in 1..Depth, i # Depth
      PROVE  Stepped(i)' <=> Stepped(i)
  <2>1. i + 1 \in 1..Depth /\ stack'[i] = stack[i]
    BY <1>1, <1>4, <1>8
  <2>2. stack'[i + 1].kind = stack[i + 1].kind
    BY <1>4, <1>6, <2>1
  <2> QED
    BY <1>2, <2>1, <2>2 DEF Stepped
<1> QED
  BY <1>2, <1>4, <1>7, <1>8

\* A call adds a context that is stepped, or that of an algorithm stepped over.
LEMMA CallStepped ==
  ASSUME VMTypeOK, stack # << >>, mark \in Nat, Chain, MarkStepped, into => AllStepped,
         \/ /\ EvalCall
            /\ mark' = IF mark = Depth /\ bottom' # bottom THEN Len(stack') ELSE mark
         \/ EvalCallLibrary /\ mark' = mark
  PROVE  Chain' /\ MarkStepped' /\ (into' => AllStepped')
<1>1. Depth \in Nat /\ Depth > 0
  BY EmptySeq, LenProperties DEF VMTypeOK, Depth
<1>2. CASE stack' = stack
  <2>1. /\ Depth' = Depth /\ mark' = mark /\ (into' => into)
        /\ \A i : Stepped(i)' <=> Stepped(i)
    BY <1>1, <1>2 DEF Depth, Stepped, EvalCall, EvalCallLibrary, MarkStepped
  <2> QED
    BY <1>2, <2>1 DEF Chain, MarkStepped, AllStepped
<1>3. ASSUME NEW k \in {"MAIN", "FUN"}, NEW m, NEW o,
             stack' = Append(stack, Ctx(k, m, o)), ~into',
             \/ m = "OneStep" /\ AllStepped
             \/ k = "FUN" /\ m = "ToEnd",
             \/ mark' = mark
             \/ mark' = Depth + 1 /\ mark = Depth /\ m = "OneStep"
      PROVE  Chain' /\ MarkStepped' /\ (into' => AllStepped')
  <2>1. /\ Depth' = Depth + 1
        /\ \A i \in 1..Depth : stack'[i] = stack[i]
        /\ stack'[Depth + 1] = Ctx(k, m, o)
    BY <1>3, AppendProperties DEF VMTypeOK, Depth
  <2>2. stack'[Depth + 1].mode = m /\ stack'[Depth + 1].kind = k
    BY <2>1 DEF Ctx
  <2>3. ASSUME NEW i \in 1..Depth
        PROVE  Stepped(i)' <=> Stepped(i)
    <3>1. CASE i = Depth
      <4>1. stack'[i] = stack[i] /\ stack'[i + 1].kind # "INIT" /\ ~(i < Depth)
        <5>1. k # "INIT"
          OBVIOUS
        <5>2. i + 1 = Depth + 1 /\ ~(i < Depth)
          BY <1>1, <3>1
        <5> QED
          BY <2>1, <2>2, <5>1, <5>2
      <4>2. Stepped(i) <=>
              stack[i].mode = "OneStep" \/ (stack[i].kind = "FUN" /\ ~stack[i].own)
        BY <4>1 DEF Stepped
      <4>3. Stepped(i)' <=>
              stack'[i].mode = "OneStep" \/ (stack'[i].kind = "FUN" /\ ~stack'[i].own)
        BY <4>1 DEF Stepped
      <4> QED
        BY <4>1, <4>2, <4>3
    <3>2. CASE i # Depth
      <4>1. i + 1 \in 1..Depth
        BY <1>1, <3>2
      <4> QED
        BY <1>1, <2>1, <4>1 DEF Stepped
    <3> QED
      BY <3>1, <3>2
  <2>4. ASSUME NEW i, i = Depth + 1, m = "OneStep"
        PROVE  Stepped(i)'
    BY <2>2, <2>4 DEF Stepped
  <2>5. Chain'
    <3> SUFFICES ASSUME NEW i \in 1..(Depth + 1), ~Stepped(i)',
                        NEW j \in i..(Depth + 1)
                 PROVE  stack'[j].kind = "FUN" /\ stack'[j].mode = "ToEnd"
      BY <2>1 DEF Chain
    <3>1. m = "ToEnd" /\ k = "FUN"
      <4>1. CASE i = Depth + 1
        BY <1>3, <2>4, <4>1
      <4>2. CASE i # Depth + 1
        <5>1. i \in 1..Depth /\ ~Stepped(i) /\ Depth \in i..Depth
          BY <1>1, <2>3, <4>2
        <5>2. ~AllStepped
          BY <5>1 DEF AllStepped
        <5> QED
          BY <1>3, <5>2
      <4> QED
        BY <4>1, <4>2
    <3>2. CASE j = Depth + 1
      BY <2>2, <3>1, <3>2
    <3>3. CASE j # Depth + 1
      <4>1. i \in 1..Depth /\ j \in i..Depth /\ j \in 1..Depth
        BY <1>1, <3>3
      <4> QED
        BY <2>1, <2>3, <4>1 DEF Chain
    <3> QED
      BY <3>2, <3>3
  <2>6. MarkStepped'
    <3>1. mark' <= Depth'
      BY <1>1, <1>3, <2>1 DEF MarkStepped
    <3>2. ASSUME NEW i \in 1..mark'
          PROVE  Stepped(i)'
      <4>1. CASE i \in 1..Depth
        <5>1. i \in 1..mark
          BY <1>1, <1>3, <4>1
        <5> QED
          BY <2>3, <4>1, <5>1 DEF MarkStepped
      <4>2. CASE i \notin 1..Depth
        BY <1>1, <1>3, <2>4, <4>2 DEF MarkStepped
      <4> QED
        BY <4>1, <4>2
    <3> QED
      BY <3>1, <3>2 DEF MarkStepped
  <2> QED
    BY <1>3, <2>5, <2>6
<1>4. CASE EvalCall /\ stack' # stack
  <2>1. PICK k \in Callees :
          /\ stack' = Append(stack, Ctx(k, CalledMode(k), Top.own))
          /\ into' = FALSE
          /\ bottom' = IF k = "MAIN" THEN "after" ELSE bottom
    BY <1>4 DEF EvalCall
  <2>2. Len(stack') = Depth + 1
    BY <2>1, AppendProperties DEF VMTypeOK, Depth
  <2>3. mark' = IF mark = Depth /\ bottom' # bottom THEN Depth + 1 ELSE mark
    BY <1>4, <2>2 DEF EvalCallLibrary, Depth
  <2>4. CASE k = "MAIN"
    <3>1. Top.kind = "BELOW" /\ bottom' # bottom
      BY <2>1, <2>4 DEF Callees
    <3>2. AllStepped
      BY <1>1, <3>1 DEF Chain, AllStepped, Top
    <3>3. Top.mode = "OneStep"
      BY <1>1, <3>1, <3>2 DEF AllStepped, Stepped, Top
    <3>4. CalledMode(k) = "OneStep"
      BY <2>4, <3>1, <3>3 DEF CalledMode
    <3> QED
      BY <1>3, <2>1, <2>3, <2>4, <3>2, <3>4
  <2>5. CASE k # "MAIN"
    <3>1. k = "FUN" /\ bottom' = bottom
      BY <2>1, <2>5 DEF Callees
    <3>2. CalledMode(k) = (IF into THEN "OneStep" ELSE "ToEnd")
      BY <3>1 DEF CalledMode
    <3>3. mark' = mark
      BY <2>3, <3>1
    <3>4. into => AllStepped
      OBVIOUS
    <3> QED
      BY <1>3, <2>1, <3>1, <3>2, <3>3, <3>4
  <2> QED
    BY <2>4, <2>5
<1>5. CASE EvalCallLibrary /\ stack' # stack
  <2>1. stack' = Append(stack, Ctx("FUN", "ToEnd", FALSE)) /\ into' = FALSE /\ mark' = mark
    BY <1>5 DEF EvalCall, EvalCallLibrary
  <2> QED
    BY <1>3, <2>1
<1> QED
  BY <1>2, <1>4, <1>5

\* A context that is not stepped over may be stepped through.
LEMMA RaiseStepped ==
  ASSUME VMTypeOK, stack # << >>, mark \in Nat, Chain, MarkStepped, into => AllStepped,
         Top.mode # "ToEnd", stack' = WithTopMode(stack, "OneStep"),
         mark' = mark, into' = into
  PROVE  AllStepped' /\ Chain' /\ MarkStepped' /\ (into' => AllStepped')
<1>1. Depth \in Nat /\ Depth > 0
  BY EmptySeq, LenProperties DEF VMTypeOK, Depth
<1>2. Depth' = Depth /\ Stepped(Depth)'
        /\ \A i \in 1..Depth : i # Depth => (Stepped(i)' <=> Stepped(i))
  BY TopStepped
<1>3. \A i \in 1..Depth : Stepped(i)
  <2> SUFFICES ASSUME NEW i \in 1..Depth, ~Stepped(i) PROVE FALSE
    OBVIOUS
  <2>1. Depth \in i..Depth
    BY <1>1
  <2> QED
    BY <2>1 DEF Chain, Top
<1>4. \A i \in 1..Depth' : Stepped(i)'
  <2> SUFFICES ASSUME NEW i \in 1..Depth PROVE Stepped(i)'
    BY <1>2
  <2>1. CASE i = Depth
    BY <1>2, <2>1
  <2>2. CASE i # Depth
    BY <1>2, <1>3, <2>2
  <2> QED
    BY <2>1, <2>2
<1>5. AllStepped'
  BY <1>4 DEF AllStepped
<1>6. Chain'
  BY <1>4 DEF Chain
<1>7. MarkStepped'
  <2>1. mark' <= Depth' /\ \A i \in 1..mark' : i \in 1..Depth'
    BY <1>1, <1>2 DEF MarkStepped
  <2> QED
    BY <1>4, <2>1 DEF MarkStepped
<1> QED
  BY <1>5, <1>6, <1>7

\* A return uncovers a context that is stepped through when the one that returns was:
\* initialisers hand their mode on.
LEMMA RetStepped ==
  ASSUME VMTypeOK, stack # << >>, mark \in Nat, Chain, MarkStepped, into => AllStepped,
         EvalRet, mark' = IF mark > Len(stack') THEN Len(stack') ELSE mark
  PROVE  Chain' /\ MarkStepped' /\ (into' => AllStepped')
<1>1. Depth \in Nat /\ Depth > 0 /\ mark <= Depth
  BY EmptySeq, LenProperties DEF VMTypeOK, Depth, MarkStepped
<1>2. CASE NoticesReturn
  <2>1. stack' = WithTopMode(stack, "OneStep") /\ Depth' = Depth
    BY <1>2, WithTopModeType DEF EvalRet, VMTypeOK, Modes, Depth
  <2>2. mark' = mark /\ into' = into /\ Top.mode # "ToEnd"
    BY <1>1, <1>2, <2>1 DEF Depth, EvalRet, NoticesReturn
  <2> QED
    BY <2>1, <2>2, RaiseStepped
<1>3. CASE ~NoticesReturn
  <2>1. /\ Below \in Seq(Context) /\ Len(Below) = Depth - 1
        /\ \A i \in 1..(Depth - 1) : Below[i] = stack[i]
    BY <1>1, BelowType DEF Below, VMTypeOK, Depth
  <2> DEFINE hands == Top.kind = "INIT" /\ Top.mode = "OneStep" /\ Depth > 1
  <2>2. /\ Depth' = Depth - 1
        /\ \A i \in 1..(Depth - 1) :
             /\ stack'[i].kind = stack[i].kind /\ stack'[i].own = stack[i].own
             /\ stack'[i].mode = IF hands /\ i = Depth - 1 THEN "OneStep" ELSE stack[i].mode
    <3>1. CASE ~hands
      BY <1>3, <2>1, <3>1 DEF Depth, EvalRet
    <3>2. CASE hands
      <4>1. Below # << >> /\ stack' = WithTopMode(Below, "OneStep")
        BY <1>1, <1>3, <2>1, <3>2, EmptySeq DEF EvalRet
      <4>2. Depth' = Depth - 1
        BY <2>1, <4>1, WithTopModeType DEF Modes, Depth
      <4>3. \A i \in 1..(Depth - 1) :
              stack'[i] = IF i = Depth - 1 THEN [stack[i] EXCEPT !.mode = "OneStep"]
                                           ELSE stack[i]
        BY <1>1, <2>1, <4>1 DEF WithTopMode
      <4>4. \A i \in 1..(Depth - 1) : stack[i] \in Context
        BY <1>1 DEF VMTypeOK, Depth
      <4> QED
        BY <3>2, <4>2, <4>3, <4>4 DEF Context
    <3> QED
      BY <3>1, <3>2
  <2> HIDE DEF hands
  <2>3. ASSUME NEW i \in 1..(Depth - 1), Stepped(i)
        PROVE  Stepped(i)'
    <3>1. CASE i # Depth - 1 /\ stack[i + 1].kind = "INIT"
      <4>1. i + 1 \in 1..(Depth - 1) /\ i < Depth - 1
        BY <1>1, <3>1
      <4> QED
        BY <2>2, <3>1, <4>1 DEF Stepped
    <3>2. CASE i = Depth - 1 /\ stack[i + 1].kind = "INIT"
      <4>1. Top.kind = "INIT" /\ Depth \in 1..Depth /\ Depth > 1 /\ Depth \in Depth..Depth
        BY <1>1, <3>2 DEF Top
      <4>2. Stepped(Depth)
        BY <4>1 DEF Chain, Top
      <4>3. Top.mode = "OneStep"
        BY <1>1, <4>1, <4>2 DEF Stepped, Top
      <4>4. stack'[i].mode = "OneStep"
        BY <2>2, <3>2, <4>1, <4>3 DEF hands
      <4> QED
        BY <4>4 DEF Stepped
    <3>3. CASE stack[i + 1].kind # "INIT"
      <4>1. stack[i].mode = "OneStep" \/ (stack[i].kind = "FUN" /\ ~stack[i].own)
        BY <2>3, <3>3 DEF Stepped
      <4> QED
        BY <2>2, <4>1 DEF Stepped
    <3> QED
      BY <3>1, <3>2, <3>3
  <2>4. Chain'
    <3> SUFFICES ASSUME NEW i \in 1..(Depth - 1), ~Stepped(i)', NEW j \in i..(Depth - 1)
                 PROVE  stack'[j].kind = "FUN" /\ stack'[j].mode = "ToEnd"
      BY <2>2 DEF Chain
    <3>1. i \in 1..Depth /\ j \in i..Depth /\ Depth \in i..Depth /\ j \in 1..(Depth - 1)
      BY <1>1
    <3>2. ~Stepped(i)
      BY <2>3
    <3>3. stack[j].kind = "FUN" /\ stack[j].mode = "ToEnd" /\ Top.kind = "FUN"
      BY <3>1, <3>2 DEF Chain, Top
    <3>4. ~hands
      BY <3>3 DEF hands
    <3> QED
      BY <2>2, <3>1, <3>3, <3>4
  <2>5. mark' = IF mark = Depth THEN Depth - 1 ELSE mark
    BY <1>1, <2>2 DEF Depth
  <2>6. MarkStepped'
    <3>1. mark' <= Depth' /\ \A i \in 1..mark' : i \in 1..(Depth - 1) /\ i \in 1..mark
      BY <1>1, <2>2, <2>5
    <3> QED
      BY <2>3, <3>1 DEF MarkStepped
  <2>7. into' => AllStepped'
    <3>1. \A i \in 1..(Depth - 1) : i \in 1..Depth
      BY <1>1
    <3> QED
      BY <2>2, <2>3, <3>1 DEF EvalRet, AllStepped
  <2> QED
    BY <2>4, <2>6, <2>7
<1> QED
  BY <1>2, <1>3

\* The conjuncts of Stepping that speak of the stack.
Climb == Chain /\ MarkStepped /\ (into => AllStepped)

LEMMA SameClimb ==
  ASSUME UNCHANGED <<stack, mark>>, into' => into
  PROVE  /\ Climb => Climb'
         /\ AllStepped => AllStepped'
BY DEF Climb, Chain, MarkStepped, AllStepped, Stepped, Depth

\* A line that is noticed is one of a stack that is stepped altogether.
LEMMA NoticedAllStepped ==
  ASSUME VMTypeOK, Chain, NoticesLine
  PROVE  AllStepped
<1> SUFFICES ASSUME NEW i \in 1..Depth, ~Stepped(i) PROVE FALSE
  BY DEF AllStepped
<1>1. Depth \in i..Depth
  BY DepthType
<1> QED
  BY <1>1 DEF Chain, NoticesLine, Top

LEMMA InstructionStepped ==
  ASSUME TypeOK, Instruction, Climb, ~stepDone, ~breakHit', ~(Pause /\ Suspends(entry))
  PROVE  Climb' /\ (stepDone' => AllStepped') /\ (thr' = "input" => ~stepDone')
<1> DEFINE Goal == Climb' /\ (stepDone' => AllStepped') /\ (thr' = "input" => ~stepDone')
<1> SUFFICES Goal
  OBVIOUS
<1>1. VMTypeOK /\ mark \in Nat
  BY DEF TypeOK
<1>2. CASE Line
  BY <1>1, <1>2, SameClimb, NoticedAllStepped
  DEF Line, LineNotice, NoNotice, flags, Evaluate, EvalPlain, vmVars, Climb
<1>3. CASE Plain \/ Fail \/ End \/ AskInput \/ EvalNothing
  BY <1>3, SameClimb
  DEF Plain, Fail, End, AskInput, EvalNothing, NoNotice, EvalPlain, EvalFail, EvalEnd,
      vmVars, flags
<1>4. CASE Breakpoint
  BY <1>4 DEF Breakpoint
<1>5. CASE Halt
  <2>1. stack' = << >> /\ mark' = 0 /\ UNCHANGED stepDone
    BY <1>5 DEF Halt, NoNotice, flags, EvalHalt
  <2>2. Depth' = 0
    BY <2>1, EmptySeq DEF Depth
  <2> QED
    BY <2>1, <2>2 DEF Climb, Chain, MarkStepped, AllStepped
<1>6. CASE Call \/ CallLibrary
  <2>1. stack # << >> /\ UNCHANGED flags
    BY <1>6 DEF Call, CallLibrary, Evaluate, HasMore, NoNotice
  <2> QED
    BY <1>1, <1>6, <2>1, CallStepped DEF Call, CallLibrary, Climb, flags
<1>7. CASE Ret
  BY <1>1, <1>7, RetStepped DEF Ret, Evaluate, HasMore, Climb
<1>8. CASE Pause
  <2>1. /\ stack # << >> /\ UNCHANGED <<flags, mark>> /\ EvalPause(entry)
        /\ ~Suspends(entry)
    BY <1>8 DEF Pause, Evaluate, HasMore, NoNotice
  <2>2. CASE entry = "Main"
    BY <1>1, <2>1, <2>2, RaiseStepped DEF Suspends, EvalPause, Climb, flags
  <2>3. CASE entry # "Main"
    BY <2>1, <2>3, SameClimb DEF EvalPause, flags
  <2> QED
    BY <2>2, <2>3
<1> QED
  BY <1>2, <1>3, <1>4, <1>5, <1>6, <1>7, <1>8 DEF Instruction

\* A reset leaves the startup context and the initialisers that hand their mode on.
LEMMA ResetStepped ==
  ASSUME NEW p \in Program, NEW e, VMReset(p, e)
  PROVE  \A i \in 1..Depth' : i < Depth' => Stepped(i)'
<1> DEFINE start == StartContexts(p, e)
           inits == InitContexts(p)
<1>1. Len(p.inits) \in Nat
  BY LenProperties DEF Program
<1>2. Len(start) \in {0, 1} /\ Len(inits) = Len(p.inits)
  BY <1>1 DEF StartContexts, InitContexts
<1>3. \A i \in 1..Len(inits) : inits[i].kind = "INIT"
  BY <1>1 DEF InitContexts, Ctx
<1>4. /\ Depth' = Len(start) + Len(inits)
      /\ \A i \in 1..Depth' :
           i > Len(start) => stack'[i] = inits[i - Len(start)]
  <2>1. stack' = start \o inits
    BY DEF VMReset
  <2>2. start \in Seq(Context) /\ inits \in Seq(Context)
    BY ResetContexts
  <2> HIDE DEF start, inits
  <2>3. /\ Len(start \o inits) = Len(start) + Len(inits)
        /\ \A i \in 1..(Len(start) + Len(inits)) :
             (start \o inits)[i] = IF i <= Len(start) THEN start[i]
                                   ELSE inits[i - Len(start)]
    BY <2>2, ConcatProperties
  <2>4. Depth' = Len(start) + Len(inits)
    BY <2>1, <2>3 DEF Depth
  <2>5. ASSUME NEW i \in 1..Depth', i > Len(start)
        PROVE  stack'[i] = inits[i - Len(start)]
    BY <1>2, <2>1, <2>3, <2>4, <2>5
  <2> QED
    BY <2>4, <2>5
<1> HIDE DEF start, inits
<1> SUFFICES ASSUME NEW i \in 1..Depth', i < Depth'
             PROVE  Stepped(i)'
  OBVIOUS
<1>5. i + 1 \in 1..Depth' /\ i + 1 - Len(start) \in 1..Len(inits) /\ i + 1 > Len(start)
  <2>1. Depth' = Len(start) + Len(p.inits) /\ Len(inits) = Len(p.inits) /\ i < Depth'
    BY <1>2, <1>4
  <2>2. CASE Len(start) = 0
    BY <1>1, <2>1, <2>2
  <2>3. CASE Len(start) = 1
    BY <1>1, <2>1, <2>3
  <2> QED
    BY <1>2, <2>2, <2>3
<1>6. stack'[i + 1].kind = "INIT"
  BY <1>3, <1>4, <1>5
<1> QED
  BY <1>6 DEF Stepped

\* A command that finds a run finds it suspended at a line, every context stepped.
LEMMA CommandFindsStepped ==
  ASSUME PatientInv, Resumable, LineInv, pst # "Idle", thr = "off", pending = 0,
         gpc = "loop", gst \in {"Unlocked", "Observe", "Pause"}
  PROVE  AllStepped
<1>1. gst = "Pause" /\ pst = "StepRun"
  BY DEF PatientInv, EditableIffIdle, LineInv
<1>2. HasMore /\ ~err /\ ~stopping /\ Stepping
  BY <1>1 DEF Resumable, LineInv
<1> QED
  BY <1>2 DEF Stepping

LEMMA StepRunLine ==
  ASSUME Patient, PatientInv, Resumable, LineInv, NEW c \in {"step", "into"},
         UserMay(c), Enabled(c), DoStepRun
  PROVE  LineInv'
<1>1. thr = "off" /\ pending = 0 /\ gpc = "loop" /\ gst \in {"Unlocked", "Observe", "Pause"}
  <2>1. thr = "off" /\ ~Ending /\ gpc = "loop"
    BY DEF UserMay
  <2>2. pending = 0
    BY <2>1 DEF Ending, PatientInv, ControlInv, TypeOK
  <2>3. c = "step" \/ c = "into"
    OBVIOUS
  <2>4. gst \in {"Unlocked", "Observe", "Pause"}
    BY <2>3 DEF Enabled
  <2> QED
    BY <2>1, <2>2, <2>4
<1>2. /\ pst' = "StepRun" /\ gpc' = "reset" /\ cmd' = "step"
      /\ UNCHANGED <<vmVars, done, flags, thr, mark>>
  BY DEF DoStepRun, StartRun
<1>3. ~done => AllStepped
  BY <1>1, CommandFindsStepped DEF PatientInv, ControlInv, IdleIffDone
<1>4. ~done => AllStepped'
  BY <1>2, <1>3 DEF vmVars, AllStepped, Stepped, Depth
<1> QED
  BY <1>2, <1>4 DEF LineInv, vmVars, flags

\* The plugin's part of a step: a reset, or the run as it was suspended.
LEMMA PluginRunLine ==
  ASSUME PatientInv, LineInv, PluginRun
  PROVE  LineInv'
<1>1. pst = "StepRun" /\ cmd = "step" /\ (done \/ AllStepped) /\ ~blind
  BY DEF PluginRun, LineInv
<1>2. /\ pst' = "StepRun" /\ gpc' = "arm" /\ cmd' = "step" /\ ~stepDone' /\ ~breakHit'
      /\ runMode' = "StepOver" /\ ~stopping' /\ ResetIfDone("Main")
  BY <1>1 DEF PluginRun, FlagsStepOver
<1>3. CASE done
  <2>1. prog \in Program /\ VMReset(prog, "Main")
    BY <1>2, <1>3 DEF ResetIfDone, PatientInv, ControlInv, TypeOK
  <2>2. ~blind' /\ ~into' /\ \A i \in 1..Depth' : i < Depth' => Stepped(i)'
    BY <2>1, ResetStepped DEF VMReset
  <2> QED
    BY <1>2, <2>2 DEF LineInv, Armed
<1>4. CASE ~done
  <2>1. AllStepped' /\ ~blind'
    BY <1>1, <1>2, <1>4 DEF ResetIfDone, vmVars, AllStepped, Stepped, Depth
  <2> QED
    BY <1>2, <2>1 DEF LineInv, Armed, AllStepped
<1> QED
  BY <1>3, <1>4

LEMMA UserLine ==
  ASSUME Patient, PatientInv, Resumable, LineInv, User,
         gpc' \in {"reset", "arm"} => cmd' \in {"step", "into"}
  PROVE  LineInv'
<1>1. CASE StepRun
  BY <1>1, StepRunLine DEF StepRun
<1>2. CASE StepIn /\ pst # "StepRun"
  BY <1>2, StepRunLine DEF StepIn
<1>3. CASE StepIn /\ pst = "StepRun"
  <2>1. /\ thr = "off" /\ pending = 0 /\ gpc = "loop"
        /\ gst \in {"Unlocked", "Observe", "Pause"}
    BY <1>3 DEF StepIn, UserMay, Ending, Enabled, PatientInv, ControlInv, TypeOK
  <2>2. AllStepped
    BY <1>3, <2>1, CommandFindsStepped
  <2>3. /\ gpc' = "arm" /\ cmd' = "into" /\ UNCHANGED <<vmVars, pst>>
        /\ ~stepDone' /\ ~breakHit' /\ runMode' = "StepIn"
    BY <1>3 DEF StepIn, FlagsStepIn, Give, DoStepRun
  <2>4. AllStepped' /\ ~blind'
    BY <2>2, <2>3 DEF vmVars, AllStepped, Stepped, Depth, LineInv
  <2> QED
    BY <1>3, <2>3, <2>4 DEF LineInv, Armed, AllStepped
<1>4. CASE TestingRefused \/ Edit
  <2>1. pst' = "Idle" /\ UNCHANGED <<blind, breakHit, gpc>>
        /\ gpc \notin {"reset", "arm"}
    BY <1>4 DEF TestingRefused, Edit, UserMay, vmVars, flags, PatientInv, EditableIffIdle
  <2> QED
    BY <2>1 DEF LineInv
<1> QED
  BY <1>1, <1>2, <1>3, <1>4
  DEF User, BlindRun, RegularRun, RunToCursor, TestingRun, StepOut, StartRun,
      Give

\* A report of a run that is not over was of one that was not stopped.
LEMMA DeliverLine ==
  ASSUME LineInv, gpc \in {"loop", "stop"}, gpc' = "loop", Deliver,
         UNCHANGED <<vmVars, thr, flags, mark>>
  PROVE  LineInv'
<1>1. pst' = "Idle" \/ (pst' = pst /\ ~stopping)
  BY DEF Deliver, Report
<1>2. Stepping => Stepping'
  BY DEF Stepping, Chain, MarkStepped, AllStepped, Stepped, Depth, HasMore, vmVars, flags
<1> QED
  BY <1>1, <1>2 DEF LineInv, vmVars, flags

LEMMA ArmLine ==
  ASSUME PatientInv, LineInv, Arm
  PROVE  LineInv'
<1>1. VMTypeOK /\ thr = "off" /\ Armed /\ Depth \in Nat
  BY DepthType DEF PatientInv, ControlInv, TypeOK, Quiet, LineInv, Arm
<1>2. /\ gpc = "arm" /\ gpc' = "start" /\ UNCHANGED <<pst, thr, stopping, stepDone, breakHit, runMode>>
  BY DEF Arm, flags
<1>3. ~blind' /\ mark' <= Depth' /\ mark' \in Nat /\ AllStepped'
  <2>1. CASE cmd = "step"
    <3>1. SetNextCallStepOver /\ mark' = Depth
      BY <2>1 DEF Arm
    <3>2. CASE stack = << >>
      <4>1. Depth = 0 /\ Depth' = 0 /\ ~blind'
        BY <3>1, <3>2, EmptySeq DEF SetNextCallStepOver, Depth, LineInv
      <4> QED
        BY <3>1, <4>1 DEF AllStepped
    <3>3. CASE stack # << >>
      <4>1. stack' = WithTopMode(stack, "OneStep") /\ ~blind'
        BY <3>1, <3>3 DEF SetNextCallStepOver, LineInv
      <4>2. Depth' = Depth /\ Stepped(Depth)'
              /\ \A i \in 1..Depth : i # Depth => (Stepped(i)' <=> Stepped(i))
        BY <1>1, <3>3, <4>1, TopStepped
      <4>3. ASSUME NEW i \in 1..Depth PROVE Stepped(i)'
        <5>1. CASE i = Depth
          BY <4>2, <5>1
        <5>2. CASE i # Depth
          BY <1>1, <4>2, <5>2 DEF Armed
        <5> QED
          BY <5>1, <5>2
      <4> QED
        BY <1>1, <3>1, <4>1, <4>2, <4>3 DEF AllStepped
    <3> QED
      BY <3>2, <3>3
  <2>2. CASE cmd = "into"
    <3>1. UNCHANGED <<stack, blind>> /\ mark' = 0
      BY <2>2 DEF Arm, SetNextCallInto
    <3>2. Depth' = Depth /\ AllStepped'
      BY <1>1, <2>2, <3>1 DEF Armed, AllStepped, Stepped, Depth
    <3> QED
      BY <1>1, <3>1, <3>2 DEF LineInv
  <2> QED
    BY <1>1, <2>1, <2>2 DEF Armed
<1>4. Chain' /\ MarkStepped'
  <2>1. \A i \in 1..mark' : i \in 1..Depth'
    BY <1>1, <1>3, LenProperties, ArmIsCommand, CommandType DEF VMTypeOK, Depth
  <2> QED
    BY <1>3, <2>1 DEF Chain, MarkStepped, AllStepped
<1>5. Stepping'
  BY <1>1, <1>2, <1>3, <1>4 DEF Stepping, Armed
<1> QED
  BY <1>2, <1>3, <1>5 DEF LineInv

LEMMA GuiLine ==
  ASSUME PatientInv, LineInv, Gui \/ Stop
  PROVE  LineInv'
<1>1. CASE Arm
  BY <1>1, ArmLine
<1>2. CASE Start
  <2>1. thr' = "check" /\ gpc = "start" /\ gpc' = "loop"
          /\ UNCHANGED <<vmVars, pst, flags, mark>>
    BY <1>2 DEF Start, PatientInv, Quiet
  <2>2. Stepping => Stepping'
    BY <2>1 DEF Stepping, Chain, MarkStepped, AllStepped, Stepped, Depth, vmVars, flags
  <2> QED
    BY <2>1, <2>2 DEF LineInv, vmVars, flags
<1>3. CASE HandleFinished
  BY <1>3, DeliverLine DEF HandleFinished
<1>4. CASE StopCheck
  <2>1. CASE IsRunning
    <3>1. Stepping => Stepping'
      BY <1>4, <2>1 DEF StopCheck, Stepping, Chain, MarkStepped, AllStepped, Stepped, Depth,
                        HasMore, vmVars, flags
    <3> QED
      BY <1>4, <2>1, <3>1 DEF StopCheck, IsRunning, LineInv, vmVars, flags
  <2>2. CASE ~IsRunning
    BY <1>4, <2>2, DeliverLine DEF StopCheck
  <2> QED
    BY <2>1, <2>2
<1>5. CASE Stop
  <2>1. Stepping => Stepping'
    BY <1>5 DEF Stop, Stepping, Chain, MarkStepped, AllStepped, Stepped, Depth, HasMore,
                vmVars
  <2> QED
    BY <1>5, <2>1 DEF Stop, UserMay, LineInv, vmVars
<1>6. CASE PluginRun
  BY <1>6, PluginRunLine
<1> QED
  BY <1>1, <1>2, <1>3, <1>4, <1>5, <1>6 DEF Gui

LEMMA ThreadLine ==
  ASSUME PatientInv, LineInv, Thread \/ InputGiven, ~breakHit',
         ~(Pause /\ Suspends(entry))
  PROVE  LineInv'
<1>1. TypeOK /\ pending \in Nat
  BY DEF PatientInv, ControlInv, TypeOK
<1>2. gpc \in {"reset", "arm", "start"} => thr = "off"
  BY DEF PatientInv, Quiet
<1>3. ASSUME UNCHANGED <<vmVars, flags, mark>>
      PROVE  /\ Climb => Climb'
             /\ AllStepped => AllStepped'
             /\ HasMore' = HasMore
  BY <1>3, SameClimb DEF vmVars, HasMore
<1>4. CASE Check
  <2>1. /\ thr = "check" /\ UNCHANGED <<vmVars, guiVars, flags, mark>>
        /\ thr' \in {"eval", "tail"}
        /\ thr' = "eval" => ~MustStop
    BY <1>4 DEF Check
  <2>2. pst = "StepRun" /\ thr' = "tail" => ~HasMore \/ MustStop
    BY <1>2, <1>4 DEF Check, MoreRead, PatientInv, ControlInv, RunHasItsProgram
  <2>3. pst = "StepRun" =>
          (MustStop <=> err \/ stopping \/ stepDone)
    BY <1>2, <2>1 DEF LineInv, MustStop
  <2> QED
    BY <1>2, <1>3, <2>1, <2>2, <2>3 DEF LineInv, Stepping, Climb, guiVars, vmVars, flags
<1>5. CASE Instruction
  <2>1. /\ thr = "eval" /\ thr' \in {"check", "input"}
        /\ UNCHANGED guiVars /\ stopping' = stopping
    BY <1>1, <1>5, InstructionKeeps
    DEF Instruction, Line, Plain, Fail, Breakpoint, Call, CallLibrary, Ret, End, Halt,
        Pause, AskInput, EvalNothing, Evaluate
  <2>2. pst = "StepRun" /\ gpc \notin {"reset", "arm"} /\ Stepping
    BY <1>2, <2>1 DEF LineInv, PatientInv, Quiet, Evaluating
  <2>3. Climb /\ ~stepDone
    BY <2>1, <2>2 DEF Climb, Stepping
  <2>4. Climb' /\ (stepDone' => AllStepped') /\ (thr' = "input" => ~stepDone')
    BY <1>1, <1>5, <2>3, InstructionStepped
  <2>5. ~blind'
    BY <1>5
    DEF LineInv, Instruction, Line, Plain, Fail, Breakpoint, Call, CallLibrary, Ret, End,
        Halt, Pause, AskInput, EvalNothing, EvalPlain, EvalFail, EvalBreakpoint,
        SetNextCallStepOver, EvalCall, EvalCallLibrary, EvalRet, EvalEnd, EvalPause,
        EvalHalt, vmVars
  <2>6. runMode' \in {"StepOver", "StepIn"}
    BY <1>1, <1>5, <2>2, InstructionMode DEF LineInv
  <2>7. Stepping'
    BY <2>1, <2>4 DEF Stepping, Climb
  <2> QED
    BY <2>1, <2>2, <2>5, <2>6, <2>7 DEF LineInv, guiVars
<1>6. CASE InputGiven \/ InputCancelled
  <2>1. thr' = "check" /\ UNCHANGED <<vmVars, guiVars, flags, mark>>
    BY <1>6 DEF InputGiven, InputCancelled
  <2>2. thr = "input"
    BY <1>6 DEF InputGiven, InputCancelled
  <2> QED
    BY <1>2, <1>3, <2>1, <2>2 DEF LineInv, Stepping, Climb, guiVars, vmVars, flags
<1>7. CASE Leave \/ PostFinished \/ Finish
  <2>1. /\ <<thr, thr'>> \in {<<"tail", "fin1">>, <<"fin1", "fin2">>, <<"fin2", "off">>}
        /\ UNCHANGED <<vmVars, flags, mark, gpc, pst, cmd, done>>
        /\ pending' = IF thr = "fin1" THEN pending + 1 ELSE pending
    BY <1>7 DEF Leave, PostFinished, Finish, guiVars
  <2>2. Stepping => Stepping'
    BY <1>3, <2>1 DEF Stepping, Climb, vmVars, flags
  <2>3. pst = "StepRun" /\ stopping =>
          gpc \in {"reset", "arm", "start", "stop"} \/ thr' \notin {"off", "fin2"} \/ pending' > 0
    BY <1>1, <2>1 DEF LineInv
  <2> QED
    BY <1>2, <2>1, <2>2, <2>3 DEF LineInv, vmVars, flags
<1> QED
  BY <1>4, <1>5, <1>6, <1>7 DEF Thread

LEMMA NextLine ==
  ASSUME Patient, PatientInv, Resumable, LineInv, user = "into",
         [SteppingNext]_<<vars, user>>
  PROVE  LineInv'
<1>1. CASE SteppingNext
  <2>1. Next /\ (gpc' \in {"reset", "arm"} => cmd' \in {"step", "into"}) /\ ~breakHit'
          /\ ~(Pause /\ Suspends(entry))
    BY <1>1 DEF SteppingNext, UserKeeps
  <2> QED
    BY <2>1, UserLine, GuiLine, ThreadLine DEF Next
<1>2. CASE UNCHANGED <<vars, user>>
  BY <1>2 DEF vars, guiVars, vmVars, flags, LineInv, Armed, Stepping, Chain, MarkStepped,
              AllStepped, Stepped, Depth, HasMore
<1> QED
  BY <1>1, <1>2

\* Who steps from the start, over calls and into them: the machine notices the lines of
\* the algorithm a step was given in and of the callers it returns to (do_ret, do_line),
\* after initialisers, library calls, errors and stops.  The theorem is about the mode
\* of the context: a line whose position repeats the one before gets no notice.
THEOREM EveryLineIsSeen ==
  ASSUME Patient
  PROVE  SteppingSpec => []StepsLineByLine
<1> DEFINE Inv == PatientInv /\ Resumable /\ (user = "into" => LineInv)
<1>1. SteppingInit => Inv
  BY InitControl, InitPatient
  DEF SteppingInit, PatientInv, Resumable, Init, VMInit, LineInv
<1>2. Inv /\ [SteppingNext]_<<vars, user>> => Inv'
  <2> SUFFICES ASSUME Inv, [SteppingNext]_<<vars, user>>
               PROVE  Inv'
    OBVIOUS
  <2>1. [Next]_vars /\ user' = user
    BY SteppingIsNext DEF SteppingNext
  <2>2. PatientInv' /\ Resumable'
    BY <2>1, NextPatient, NextResumable DEF PatientInv
  <2>3. user = "into" => LineInv'
    BY NextLine
  <2> QED
    BY <2>1, <2>2, <2>3
<1>3. Inv => StepsLineByLine
  <2> SUFFICES ASSUME Inv, user = "into", thr = "eval", 0 < Depth, Depth <= mark,
                      Top.own, Top.kind # "BELOW"
               PROVE  NoticesLine
    BY DEF StepsLineByLine, StepStopsAtNextLine
  <2>1. LineInv /\ pst = "StepRun" /\ gpc \notin {"reset", "arm"}
    BY DEF LineInv, PatientInv, Quiet, Evaluating
  <2>2. ~blind /\ Depth \in 1..mark /\ MarkStepped
    BY <2>1, DepthType DEF LineInv, Stepping, PatientInv, ControlInv, TypeOK
  <2>3. Stepped(Depth) /\ ~(Depth < Depth)
    BY <2>2 DEF MarkStepped
  <2> QED
    BY <2>2, <2>3 DEF Stepped, NoticesLine, Top
<1> QED
  BY <1>1, <1>2, <1>3, PTL DEF SteppingSpec
=============================================================================
