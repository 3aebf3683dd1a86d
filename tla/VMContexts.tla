----------------------------- MODULE VMContexts -----------------------------
(***************************************************************************)
(* The context stack of the Kumir virtual machine (KumirVM in              *)
(* kumir2-libs/vm/vm.hpp): which algorithms are being evaluated, and the   *)
(* run mode of each, which decides where the debugger is told about a line *)
(* or a return.  Values, locals and the instructions' data are left out;   *)
(* the program is any sequence of instructions its shape allows.           *)
(***************************************************************************)
EXTENDS Naturals, Sequences

CONSTANTS
  Programs,      \* shapes of the programs that may be loaded (see Program)
  MaxRecursion   \* MAX_RECURSION_SIZE: 4000 unless the build sets it

Modes == {"ToEnd", "OneStep", "UntilReturn"}
Kinds == {"MAIN", "BELOW", "TEST", "INIT", "FUN"}

\* A context: the kind of code it runs, its run mode, and whether the code
\* is of the program itself (moduleContextNo = 0) or of a library file.
Context == [kind : Kinds, mode : Modes, own : BOOLEAN]

\* What reset needs to know of a loaded program: the startup algorithm
\* ("NONE" in a file without one), whether it has a testing algorithm, and
\* the own flags of the module initialisers in the order they are pushed.
Program == [start : {"MAIN", "BELOW", "NONE"}, testing : BOOLEAN,
            inits : Seq(BOOLEAN)]

ASSUME ProgramsAssumption == Programs \subseteq Program
ASSUME MaxRecursionAssumption == MaxRecursion \in Nat \ {0}

VARIABLES
  stack,    \* contextsStack_, bottom first
  bottom,   \* where an EL_BELOWMAIN startup context is: it has no RET
  blind,    \* blindMode_
  into,     \* nextCallInto_
  err       \* error_ is not empty

vmVars == <<stack, bottom, blind, into, err>>

VMTypeOK ==
  /\ stack \in Seq(Context)
  /\ bottom \in {"before", "after", "end"}
  /\ blind \in BOOLEAN
  /\ into \in BOOLEAN
  /\ err \in BOOLEAN

\* Before the first reset the stack holds one context without a program:
\* nothing to evaluate, as with the empty stack.
VMInit ==
  /\ stack = << >>
  /\ bottom = "before"
  /\ blind = FALSE
  /\ into = FALSE
  /\ err = FALSE

-----------------------------------------------------------------------------
(* Reading the stack.                                                      *)

Depth == Len(stack)
Top == stack[Depth]
Below == SubSeq(stack, 1, Depth - 1)

HasMore == stack # << >> /\ bottom # "end"

Ctx(k, m, o) == [kind |-> k, mode |-> m, own |-> o]

WithTopMode(s, m) == [s EXCEPT ![Len(s)].mode = m]

\* do_line reports a column position when the context is stepped through.
NoticesLine == ~blind /\ Top.mode = "OneStep" /\ Top.own

\* do_ret reports a return instead of returning when it was asked for.
NoticesReturn == Top.mode = "UntilReturn"

\* do_pause suspends only a context that is not stepped through already.
Suspends(entry) == entry = "Main" /\ Top.mode # "OneStep"

-----------------------------------------------------------------------------
(* KumirVM::reset.                                                         *)

StartContexts(p, entry) ==
  IF entry = "Main"
  THEN IF p.start = "NONE" THEN << >> ELSE <<Ctx(p.start, "ToEnd", TRUE)>>
  ELSE IF p.testing THEN <<Ctx("TEST", "ToEnd", TRUE)>> ELSE << >>

InitContexts(p) ==
  [i \in 1..Len(p.inits) |->
     Ctx("INIT", IF p.inits[i] THEN "OneStep" ELSE "ToEnd", p.inits[i])]

VMReset(p, entry) ==
  /\ stack' = StartContexts(p, entry) \o InitContexts(p)
  /\ bottom' = "before"
  /\ blind' = FALSE
  /\ into' = FALSE
  /\ err' = FALSE

-----------------------------------------------------------------------------
(* The commands of the debugger.                                           *)

SetNextCallInto == into' = TRUE /\ UNCHANGED <<stack, bottom, blind, err>>

SetNextCallToEndOfContext ==
  /\ stack' = IF stack = << >> THEN stack ELSE WithTopMode(stack, "UntilReturn")
  /\ UNCHANGED <<bottom, blind, into, err>>

SetNextCallStepOver ==
  /\ stack' = IF stack = << >> THEN stack ELSE WithTopMode(stack, "OneStep")
  /\ UNCHANGED <<bottom, blind, into, err>>

AllToEnd == [i \in 1..Depth |-> [stack[i] EXCEPT !.mode = "ToEnd"]]

SetNextCallToEnd == stack' = AllToEnd /\ UNCHANGED <<bottom, blind, into, err>>

\* setDebugOff(true) followed by setNextCallToEnd.
SetBlindToEnd ==
  /\ blind' = TRUE
  /\ stack' = AllToEnd
  /\ UNCHANGED <<bottom, into, err>>

-----------------------------------------------------------------------------
(* Evaluating one instruction.  The caller knows that HasMore holds.       *)

\* An instruction that changes neither contexts nor error.
EvalPlain == UNCHANGED vmVars

\* An instruction that fails: ERRORR, a library call, an undefined value.
EvalFail == err' = TRUE /\ UNCHANGED <<stack, bottom, blind, into>>

\* The startup code of a main algorithm with parameters has the line of its
\* header, before the call of the main algorithm.
HasLines == Top.kind = "BELOW" => bottom = "before"

\* The debugger reacts to a breakpoint with setNextCallStepOver.
EvalBreakpoint == HasLines /\ ~blind /\ SetNextCallStepOver

\* Who may be called: the startup code calls the main algorithm once, and
\* functions in the bounds of its arrays before.
Callees ==
  IF Top.kind # "BELOW" THEN {"FUN"}
  ELSE IF bottom = "before" THEN {"MAIN", "FUN"} ELSE {}

\* Mutant: a called context inherits the mode of its caller.
CalledModeInherited(k) == IF into THEN "OneStep" ELSE Top.mode

CalledMode(k) ==
  IF into THEN "OneStep"
  ELSE IF Top.kind = "BELOW" /\ k = "MAIN" THEN Top.mode
  ELSE "ToEnd"

\* Mutant: the recursion limit is off by one.
EvalCallBeyond ==
  \E k \in Callees :
    /\ IF Depth > MaxRecursion
       THEN /\ err' = TRUE
            /\ UNCHANGED <<stack, into>>
       ELSE /\ stack' = Append(stack, Ctx(k, CalledMode(k), Top.own))
            /\ into' = FALSE
            /\ UNCHANGED err
    /\ bottom' = IF k = "MAIN" THEN "after" ELSE bottom
    /\ UNCHANGED blind

\* CALL of an algorithm of the same file.
EvalCall ==
  \E k \in Callees :
    /\ IF Depth >= MaxRecursion
       THEN /\ err' = TRUE
            /\ UNCHANGED <<stack, into>>
       ELSE /\ stack' = Append(stack, Ctx(k, CalledMode(k), Top.own))
            /\ into' = FALSE
            /\ UNCHANGED err
    /\ bottom' = IF k = "MAIN" THEN "after" ELSE bottom
    /\ UNCHANGED blind

\* CALL of an algorithm of another Kumir file.
EvalCallLibrary ==
  /\ Callees # {}
  /\ IF Depth >= MaxRecursion
     THEN /\ err' = TRUE
          /\ UNCHANGED <<stack, into>>
     ELSE /\ stack' = Append(stack, Ctx("FUN", "ToEnd", FALSE))
          /\ into' = FALSE
          /\ UNCHANGED err
  /\ UNCHANGED <<bottom, blind>>

\* Mutant: an initialiser returns like any other context.
EvalRetPlain ==
  /\ Top.kind # "BELOW"
  /\ stack' = IF NoticesReturn THEN WithTopMode(stack, "OneStep") ELSE Below
  /\ UNCHANGED <<bottom, blind, into, err>>

\* RET: an initialiser stepped through hands its mode to what it uncovers.
EvalRet ==
  /\ Top.kind # "BELOW"
  /\ stack' = IF NoticesReturn THEN WithTopMode(stack, "OneStep")
              ELSE IF Top.kind = "INIT" /\ Top.mode = "OneStep" /\ Depth > 1
              THEN WithTopMode(Below, "OneStep")
              ELSE Below
  /\ UNCHANGED <<bottom, blind, into, err>>

\* The startup code of a main algorithm with parameters runs off its end.
EvalEnd ==
  /\ Top.kind = "BELOW"
  /\ bottom = "after"
  /\ bottom' = "end"
  /\ UNCHANGED <<stack, blind, into, err>>

\* PAUSE: the testing algorithm is not suspended.
EvalPause(entry) ==
  /\ IF entry = "Main"
     THEN stack' = WithTopMode(stack, "OneStep") /\ blind' = FALSE
     ELSE UNCHANGED <<stack, blind>>
  /\ UNCHANGED <<bottom, into, err>>

\* HALT drops every context.
EvalHalt == stack' = << >> /\ UNCHANGED <<bottom, blind, into, err>>
=============================================================================
