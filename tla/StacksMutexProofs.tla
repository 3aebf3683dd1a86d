-------------------------- MODULE StacksMutexProofs --------------------------
(***************************************************************************)
(* The mutex discipline of StacksMutex, for any instructions and delays of *)
(* any length, and any user.                                               *)
(*                                                                         *)
(* A script is sound when every step of it can be given the holding of the *)
(* mutex before it, 1 or 0, such that locks and frees alternate, nothing   *)
(* waits while it is 1, and a script that ends with 1 ends by failing.     *)
(* Every script of an instruction is sound, and so is the rest of a sound  *)
(* script: the invariant keeps `the rest of the instruction is sound from  *)
(* what the thread believes it holds', which is what it holds until the    *)
(* machine is reset under it.                                              *)
(*                                                                         *)
(* A run that is over is over by an error, a stop or its last instruction  *)
(* (OverInv).  A thread that the reset meets inside an instruction has no  *)
(* error and more to do, so it was stopped, and the stop is taken back     *)
(* only after the GUI has passed the mutex once more (ClearInv, LeftInv).  *)
(***************************************************************************)
EXTENDS StacksMutex, TLAPS

\* The holding before and after a step.
StepHolds(s, b, a) ==
  /\ s = "lock" => b = 0 /\ a = 1
  /\ s = "unlock" => b = 1 /\ a = 0
  /\ s \in {"rows", "ask", "work"} => b = 0 /\ a = 0
  /\ s \in {"delay", "sleep", "suspend", "fail"} => a = b

Follows(h, s, o) ==
  /\ h \in [1..(Len(s) + 1) -> {0, 1}]
  /\ h[1] = o
  /\ \A i \in 1..Len(s) : StepHolds(s[i], h[i], h[i + 1])
  /\ h[Len(s) + 1] = 1 /\ Len(s) > 0 => s[Len(s)] = "fail"
  /\ \A i \in 2..Len(s) : s[i] = "sleep" => s[i - 1] = "delay"

Sound(s, o) == \E h : Follows(h, s, o)

\* A script the thread may start with nothing held.
Script(s) == s \in Seq(ThreadSteps) /\ Sound(s, 0)

\* What the thread holds.
Holds == IF lock = "thread" THEN 1 ELSE 0

\* The machine is about to forget its error; it has, and the debugger's notice
\* waits for the mutex.
AtClear == <<"clear", "lock", "unlock", "go", "start">>
AfterClear == <<"lock", "unlock", "go", "start">>

GuiScripts ==
  { << >>, <<"start">>, <<"go", "start">>, <<"goOn", "start">>,
    <<"unlock", "go", "start">>, AfterClear, AtClear,
    <<"reset", "clear", "lock", "unlock", "go", "start">>,
    <<"unlock", "reset", "clear", "lock", "unlock", "go", "start">>,
    <<"lock", "unlock", "reset", "clear", "lock", "unlock", "go", "start">>,
    <<"unlock", "lock", "unlock", "reset", "clear", "lock", "unlock", "go", "start">>,
    PrepareAndStart,
    <<"unlock", "lock", "unlock", "lock", "unlock", "reset", "clear",
      "lock", "unlock", "go", "start">>,
    PrepareToCursor,
    LockOnce, <<"unlock">>, Terminate, <<"stop", "report">>, <<"report">> }

\* A run is started; the machine will be reset first; a lock has been taken.
WillStart(g) == Len(g) > 0 /\ g[Len(g)] = "start"
WillClear(g) == WillStart(g) /\ Len(g) >= 5
Locked(g) == WillStart(g) /\ Len(g) \in 5..9

\* No run is going on: the next command loads a program and resets.
Over == gst = "Idle" \/ WillClear(gui)

\* What the thread believes to hold, b, is what it holds until a reset.
Belief(b) == /\ Sound(todo, b)
             /\ lock = "thread" => b = 1
             /\ ~met => b = Holds

ThreadInv ==
  todo # << >> => /\ thr = "on" /\ more /\ ~err
                  /\ \E b \in {0, 1} : Belief(b)

LeftInv ==
  todo = << >> /\ lock = "thread" => err \/ (stopping /\ met /\ gui = AfterClear)

GuiInv ==
  /\ gui \in GuiScripts
  /\ ~met => (GuiAt("unlock") <=> lock = "gui")
  /\ WillStart(gui) => gst # "Idle"

PatientInv ==
  patient => /\ ~met
             /\ WillStart(gui) => thr = "off"
             /\ Locked(gui) => lock # "thread"

OverInv == Over => err \/ stopping \/ ~more

ClearInv == gui = AtClear /\ (todo # << >> \/ lock = "thread") => stopping /\ met

DelayInv == ThreadAt("sleep") /\ StopGiven /\ ~cut => late

IInv ==
  /\ TypeOK /\ ThreadInv /\ LeftInv /\ GuiInv /\ PatientInv /\ OverInv /\ ClearInv
  /\ DelayInv

-----------------------------------------------------------------------------
(* Scripts.                                                                *)

LEMMA SoundTail ==
  ASSUME NEW s \in Seq(ThreadSteps), NEW o, s # << >>, Sound(s, o)
  PROVE  /\ o \in {0, 1}
         /\ \E a \in {0, 1} : StepHolds(Head(s), o, a)
         /\ \A a \in {0, 1} : StepHolds(Head(s), o, a) => Sound(Tail(s), a)
         /\ Tail(s) = << >> /\ Head(s) # "fail"
              => \A a \in {0, 1} : StepHolds(Head(s), o, a) => a = 0
         /\ Tail(s) # << >> /\ Head(Tail(s)) = "sleep" => Head(s) = "delay"
<1>1. PICK h : Follows(h, s, o)
  BY DEF Sound
<1>2. Len(s) \in Nat \ {0} /\ Head(s) = s[1] /\ s[1] \in ThreadSteps
  OBVIOUS
<1>3. Tail(s) \in Seq(ThreadSteps) /\ Len(Tail(s)) = Len(s) - 1
      /\ \A i \in 1..(Len(s) - 1) : Tail(s)[i] = s[i + 1]
  BY <1>2
<1>4. h[1] = o /\ h[2] \in {0, 1} /\ o \in {0, 1} /\ StepHolds(s[1], o, h[2])
  BY <1>1, <1>2 DEF Follows
<1> DEFINE g == [i \in 1..Len(s) |-> h[i + 1]]
<1>5. Follows(g, Tail(s), h[2])
  <2>1. g \in [1..(Len(Tail(s)) + 1) -> {0, 1}] /\ g[1] = h[2]
    BY <1>1, <1>2, <1>3 DEF Follows
  <2>2. ASSUME NEW i \in 1..Len(Tail(s))
        PROVE  StepHolds(Tail(s)[i], g[i], g[i + 1])
    BY <1>1, <1>2, <1>3 DEF Follows
  <2>3. g[Len(Tail(s)) + 1] = 1 /\ Len(Tail(s)) > 0 => Tail(s)[Len(Tail(s))] = "fail"
    BY <1>1, <1>2, <1>3 DEF Follows
  <2>4. ASSUME NEW i \in 2..Len(Tail(s)), Tail(s)[i] = "sleep"
        PROVE  Tail(s)[i - 1] = "delay"
    BY <2>4, <1>1, <1>2, <1>3 DEF Follows
  <2> QED BY <2>1, <2>2, <2>3, <2>4 DEF Follows
<1>6. ASSUME NEW a \in {0, 1}, StepHolds(Head(s), o, a)
      PROVE  Sound(Tail(s), a)
  <2>1. a = h[2]
    BY <1>2, <1>4, <1>6 DEF StepHolds, ThreadSteps
  <2> QED BY <1>5, <2>1 DEF Sound
<1>7. Len(<< >>) = 0
  OBVIOUS
<1>8. ASSUME Tail(s) = << >>, Head(s) # "fail", NEW a \in {0, 1}, StepHolds(Head(s), o, a)
      PROVE  a = 0
  <2>1. Len(Tail(s)) = 0
    BY <1>8, <1>7, Zenon
  <2>2. Len(s) = 1
    <3>1. Len(s) - 1 = 0
      BY <1>3, <2>1, Zenon
    <3> QED BY <3>1, <1>2
  <2>3. h[2] = 0
    BY <2>2, <1>1, <1>2, <1>4, <1>8 DEF Follows
  <2> QED BY <2>3, <1>2, <1>4, <1>8 DEF StepHolds, ThreadSteps
<1>9. ASSUME Tail(s) # << >>, Head(Tail(s)) = "sleep"
      PROVE  Head(s) = "delay"
  <2>1. Len(s) > 1 /\ s[2] = "sleep"
    BY <1>2, <1>3, <1>9
  <2> QED BY <2>1, <1>1, <1>2 DEF Follows
<1> QED BY <1>2, <1>4, <1>6, <1>8, <1>9

\* A script that fails after its last step is sound as well.
LEMMA SoundAppend ==
  ASSUME NEW s \in Seq(ThreadSteps), NEW o \in {0, 1}, Sound(s, o)
  PROVE  Sound(Append(s, "fail"), o)
<1>1. PICK h : Follows(h, s, o)
  BY DEF Sound
<1> DEFINE n == Len(s)
           t == Append(s, "fail")
           g == [i \in 1..(n + 2) |-> IF i = n + 2 THEN h[n + 1] ELSE h[i]]
<1>2. n \in Nat /\ Len(t) = n + 1 /\ t[n + 1] = "fail"
      /\ \A i \in 1..n : t[i] = s[i]
  OBVIOUS
<1>3. g \in [1..(Len(t) + 1) -> {0, 1}] /\ g[1] = o
  BY <1>1, <1>2 DEF Follows
<1>4. ASSUME NEW i \in 1..Len(t)
      PROVE  StepHolds(t[i], g[i], g[i + 1])
  <2>1. CASE i \in 1..n
    BY <1>1, <1>2, <2>1 DEF Follows
  <2>2. CASE i = n + 1
    BY <1>2, <2>2 DEF StepHolds
  <2> QED BY <2>1, <2>2, <1>2
<1>5. ASSUME NEW i \in 2..Len(t), t[i] = "sleep"
      PROVE  t[i - 1] = "delay"
  BY <1>1, <1>2, <1>5 DEF Follows
<1>6. Follows(g, t, o)
  BY <1>2, <1>3, <1>4, <1>5 DEF Follows
<1> QED BY <1>6 DEF Sound

\* Locks and frees in turn, and nothing that waits in between.
LEMMA SoundPairs ==
  /\ Script(<< >>)
  /\ Script(<<"lock", "unlock">>)
  /\ Script(<<"lock", "unlock", "lock", "unlock">>)
  /\ Script(<<"lock", "unlock", "lock", "unlock", "lock", "unlock">>)
<1> DEFINE h == [i \in 1..7 |-> IF i \in {2, 4, 6} THEN 1 ELSE 0]
           c(n) == [i \in 1..n |-> h[i]]
<1>1. Follows(c(1), << >>, 0)
  BY DEF Follows, StepHolds
<1>2. Follows(c(3), <<"lock", "unlock">>, 0)
  BY DEF Follows, StepHolds
<1>3. Follows(c(5), <<"lock", "unlock", "lock", "unlock">>, 0)
  BY DEF Follows, StepHolds
<1>4. Follows(c(7), <<"lock", "unlock", "lock", "unlock", "lock", "unlock">>, 0)
  BY DEF Follows, StepHolds
<1>5. /\ << >> \in Seq(ThreadSteps)
      /\ <<"lock", "unlock">> \in Seq(ThreadSteps)
      /\ <<"lock", "unlock", "lock", "unlock">> \in Seq(ThreadSteps)
      /\ <<"lock", "unlock", "lock", "unlock", "lock", "unlock">> \in Seq(ThreadSteps)
  BY DEF ThreadSteps
<1> QED BY <1>1, <1>2, <1>3, <1>4, <1>5 DEF Sound, Script

LEMMA SoundWaits ==
  /\ Script(<<"lock", "unlock", "rows", "lock", "unlock", "lock", "unlock">>)
  /\ Script(<<"lock", "unlock", "work", "lock", "unlock">>)
  /\ Script(<<"lock", "delay", "sleep", "unlock">>)
  /\ Script(<<"lock", "suspend", "unlock">>)
  /\ Script(<<"lock", "unlock", "lock", "unlock", "ask">>)
  /\ Script(<<"lock", "unlock", "lock", "fail">>)
<1>1. Follows([i \in 1..8 |-> IF i \in {2, 5, 7} THEN 1 ELSE 0],
              <<"lock", "unlock", "rows", "lock", "unlock", "lock", "unlock">>, 0)
  BY DEF Follows, StepHolds
<1>2. Follows([i \in 1..6 |-> IF i \in {2, 5} THEN 1 ELSE 0],
              <<"lock", "unlock", "work", "lock", "unlock">>, 0)
  BY DEF Follows, StepHolds
<1>3. Follows([i \in 1..5 |-> IF i \in {2, 3, 4} THEN 1 ELSE 0],
              <<"lock", "delay", "sleep", "unlock">>, 0)
  BY DEF Follows, StepHolds
<1>4. Follows([i \in 1..6 |-> IF i \in {2, 4} THEN 1 ELSE 0],
              <<"lock", "unlock", "lock", "unlock", "ask">>, 0)
  BY DEF Follows, StepHolds
<1>5. Follows([i \in 1..5 |-> IF i \in {2, 4, 5} THEN 1 ELSE 0],
              <<"lock", "unlock", "lock", "fail">>, 0)
  BY DEF Follows, StepHolds
<1>6. Follows([i \in 1..4 |-> IF i \in {2, 3} THEN 1 ELSE 0],
              <<"lock", "suspend", "unlock">>, 0)
  BY DEF Follows, StepHolds
<1>7. /\ <<"lock", "unlock", "rows", "lock", "unlock", "lock", "unlock">> \in Seq(ThreadSteps)
      /\ <<"lock", "unlock", "work", "lock", "unlock">> \in Seq(ThreadSteps)
      /\ <<"lock", "delay", "sleep", "unlock">> \in Seq(ThreadSteps)
      /\ <<"lock", "suspend", "unlock">> \in Seq(ThreadSteps)
      /\ <<"lock", "unlock", "lock", "unlock", "ask">> \in Seq(ThreadSteps)
      /\ <<"lock", "unlock", "lock", "fail">> \in Seq(ThreadSteps)
  BY DEF ThreadSteps
<1> QED BY <1>1, <1>2, <1>3, <1>4, <1>5, <1>6, <1>7 DEF Sound, Script

LEMMA ScriptsSound ==
  ASSUME NEW i \in AllInstructions
  PROVE  \A s \in Scripts(i) : Script(s)
<1>1. CASE i = "line"
  <2>1. Scripts(i) = { << >> }
    BY <1>1 DEF Scripts
  <2> QED BY <2>1, SoundPairs
<1>2. CASE i = "call"
  <2>1. Scripts(i) = Call
    BY <1>2 DEF Scripts
  <2> QED BY <2>1, SoundPairs, SoundWaits DEF Call
<1>3. CASE i = "callFile"
  <2>1. Scripts(i) = CallOfFile
    BY <1>3 DEF Scripts
  <2> QED BY <2>1, SoundPairs DEF CallOfFile
<1>4. CASE i = "callActor"
  <2>1. Scripts(i) = CallOfActor
    BY <1>4 DEF Scripts
  <2> QED BY <2>1, SoundWaits DEF CallOfActor
<1>5. CASE i = "delay"
  <2>1. Scripts(i) = StandardCall
    BY <1>5 DEF Scripts
  <2> QED BY <2>1, SoundPairs, SoundWaits DEF StandardCall
<1>6. CASE i = "files"
  <2>1. Scripts(i) = FilesCall
    BY <1>6 DEF Scripts
  <2> QED BY <2>1, SoundPairs DEF FilesCall
<1>7. CASE i = "strings"
  <2>1. Scripts(i) = StringsCall
    BY <1>7 DEF Scripts
  <2> QED BY <2>1, SoundPairs DEF StringsCall
<1>8. CASE i = "input"
  <2>1. Scripts(i) = Input
    BY <1>8 DEF Scripts
  <2> QED BY <2>1, SoundPairs, SoundWaits DEF Input, OfBadKey
<1>9. CASE i = "output"
  <2>1. Scripts(i) = Output
    BY <1>9 DEF Scripts
  <2> QED BY <2>1, SoundPairs, SoundWaits DEF Output, OfBadKey
<1>10. CASE i = "substring"
  <2>1. Scripts(i) = PartOfString
    BY <1>10 DEF Scripts
  <2> QED BY <2>1, SoundPairs DEF PartOfString
<1>11. CASE i = "argument"
  <2>1. Scripts(i) = MainArgument
    BY <1>11 DEF Scripts
  <2> QED BY <2>1, SoundWaits DEF MainArgument
<1>12. CASE i = "array"
  <2>1. Scripts(i) = ArrayBounds
    BY <1>12 DEF Scripts
  <2> QED BY <2>1, SoundPairs DEF ArrayBounds
<1>13. CASE i = "store"
  <2>1. Scripts(i) = Store
    BY <1>13 DEF Scripts
  <2> QED BY <2>1, SoundPairs DEF Store
<1>14. CASE i = "storeElement"
  <2>1. Scripts(i) = StoreElement
    BY <1>14 DEF Scripts
  <2> QED BY <2>1, SoundPairs DEF StoreElement
<1>15. CASE i = "load"
  <2>1. Scripts(i) = Load
    BY <1>15 DEF Scripts
  <2> QED BY <2>1, SoundPairs DEF Load
<1>16. CASE i = "loadElement"
  <2>1. Scripts(i) = LoadElement
    BY <1>16 DEF Scripts
  <2> QED BY <2>1, SoundPairs DEF LoadElement
<1>17. CASE i = "reference"
  <2>1. Scripts(i) = Reference
    BY <1>17 DEF Scripts
  <2> QED BY <2>1, SoundPairs DEF Reference
<1>18. CASE i = "ret"
  <2>1. Scripts(i) = Return
    BY <1>18 DEF Scripts
  <2> QED BY <2>1, SoundPairs, SoundWaits DEF Return
<1>19. CASE i = "pause"
  <2>1. Scripts(i) = Pause
    BY <1>19 DEF Scripts
  <2> QED BY <2>1, SoundPairs, SoundWaits DEF Pause
<1>20. CASE i = "halt"
  <2>1. Scripts(i) = Halt
    BY <1>20 DEF Scripts
  <2> QED BY <2>1, SoundPairs DEF Halt
<1> QED BY <1>1, <1>2, <1>3, <1>4, <1>5, <1>6, <1>7, <1>8,
          <1>9, <1>10, <1>11, <1>12, <1>13, <1>14, <1>15, <1>16, <1>17, <1>18, <1>19,
          <1>20 DEF AllInstructions

LEMMA ScriptsLock ==
  ASSUME NEW i \in AllInstructions
  PROVE  \A s \in Scripts(i) : s = << >> \/ Head(s) = "lock"
BY DEF AllInstructions, Scripts, Call, CallOfFile, CallOfActor, StandardCall, FilesCall,
       StringsCall, Input, OfBadKey, Output, PartOfString, MainArgument, ArrayBounds,
       Store, StoreElement, Load, LoadElement, Reference, Return, Pause, Halt

-----------------------------------------------------------------------------
(* The invariant.                                                          *)

\* What the thread holds before a step, by the step.
LEMMA HeldAtHead ==
  ASSUME TypeOK, ThreadInv, todo # << >>
  PROVE  /\ Head(todo) \in ThreadSteps /\ Tail(todo) \in Seq(ThreadSteps)
         /\ Head(todo) \in {"lock", "rows", "ask", "work"} => lock # "thread"
         /\ Head(todo) = "unlock" => lock = "thread" \/ met
<1>1. PICK b \in {0, 1} : Belief(b)
  BY DEF ThreadInv
<1>2. todo \in Seq(ThreadSteps) /\ Sound(todo, b)
  BY <1>1 DEF TypeOK, Belief
<1>3. PICK a \in {0, 1} : StepHolds(Head(todo), b, a)
  BY <1>2, SoundTail
<1>4. Head(todo) \in ThreadSteps /\ Tail(todo) \in Seq(ThreadSteps)
  BY <1>2
<1> QED BY <1>1, <1>3, <1>4 DEF StepHolds, Belief, Holds

\* A step that is done leaves a sound rest: c and a are what it makes of what
\* the thread believes to hold.
LEMMA StepKeepsSound ==
  ASSUME TypeOK, ThreadInv, LeftInv, todo # << >>, Head(todo) # "fail",
         todo' = Tail(todo), thr' = thr, more' = more, err' = err, met' = met,
         \/ /\ Head(todo) = "lock" /\ lock' = "thread"
         \/ /\ Head(todo) = "unlock" /\ lock' = "none"
         \/ /\ Head(todo) \notin {"lock", "unlock"} /\ lock' = lock
  PROVE  ThreadInv' /\ LeftInv'
<1>1. PICK b \in {0, 1} : Belief(b)
  BY DEF ThreadInv
<1>2. todo \in Seq(ThreadSteps) /\ Sound(todo, b) /\ thr = "on" /\ more /\ ~err
  BY <1>1 DEF TypeOK, Belief, ThreadInv
<1>3. PICK a \in {0, 1} : StepHolds(Head(todo), b, a)
  BY <1>2, SoundTail
<1>4. Head(todo) \in ThreadSteps
  BY <1>2
<1>5. Sound(Tail(todo), a) /\ (Tail(todo) = << >> => a = 0)
  BY <1>2, <1>3, SoundTail
<1>6. (lock' = "thread" => a = 1) /\ (~met' => a = Holds')
  BY <1>1, <1>3, <1>4 DEF StepHolds, Belief, Holds, ThreadSteps
<1>7. Belief(a)'
  BY <1>5, <1>6 DEF Belief
<1>8. todo' = << >> => lock' # "thread"
  BY <1>5, <1>6
<1> QED BY <1>2, <1>7, <1>8 DEF ThreadInv, LeftInv

\* The scripts the GUI may be following, and what is left of them.
LEMMA GuiTails ==
  ASSUME gui \in GuiScripts, gui # << >>
  PROVE  /\ Tail(gui) \in GuiScripts
         /\ WillStart(Tail(gui)) => WillStart(gui)
         /\ WillClear(Tail(gui)) => WillClear(gui)
         /\ Locked(Tail(gui)) => Locked(gui) \/ Head(gui) = "lock"
         /\ Head(gui) = "lock" => Tail(gui) # << >> /\ Head(Tail(gui)) = "unlock"
         /\ Head(gui) # "lock" => Tail(gui) = << >> \/ Head(Tail(gui)) # "unlock"
         /\ Head(gui) = "reset" => Locked(gui) /\ WillClear(gui)
         /\ Head(gui) = "clear" =>
              gui = AtClear /\ Tail(gui) = AfterClear /\ ~WillClear(Tail(gui))
         /\ Tail(gui) = AtClear => Head(gui) = "reset"
         /\ Head(gui) \in {"go", "goOn"} => WillStart(gui) /\ Tail(gui) = <<"start">>
         /\ Head(gui) = "start" => WillStart(gui) /\ Tail(gui) = << >>
         /\ Tail(gui) = <<"stop", "report">> => Head(gui) = "cut"
         /\ Head(gui) = "stop" => gui = <<"stop", "report">>
         /\ Head(gui) = "report" => gui = <<"report">>
         /\ gui = AfterClear => Head(gui) = "lock"
<1> USE DEF GuiScripts, PrepareAndStart, PrepareToCursor, AtClear, AfterClear, LockOnce,
            Terminate, WillStart, WillClear, Locked
<1>1. CASE gui = PrepareToCursor
  BY <1>1
<1>2. CASE gui = <<"unlock", "lock", "unlock", "lock", "unlock", "reset", "clear",
                   "lock", "unlock", "go", "start">>
  BY <1>2
<1>3. CASE gui = PrepareAndStart
  BY <1>3
<1>4. CASE gui = <<"unlock", "lock", "unlock", "reset", "clear",
                   "lock", "unlock", "go", "start">>
  BY <1>4
<1>5. CASE gui = <<"lock", "unlock", "reset", "clear", "lock", "unlock", "go", "start">>
  BY <1>5
<1>6. CASE gui = <<"unlock", "reset", "clear", "lock", "unlock", "go", "start">>
  BY <1>6
<1>7. CASE gui = <<"reset", "clear", "lock", "unlock", "go", "start">>
  BY <1>7
<1>8. CASE gui = AtClear
  BY <1>8
<1>9. CASE gui = AfterClear
  BY <1>9
<1>10. CASE gui = <<"unlock", "go", "start">>
  BY <1>10
<1>11. CASE gui = <<"go", "start">>
  BY <1>11
<1>12. CASE gui = <<"goOn", "start">>
  BY <1>12
<1>13. CASE gui = <<"start">>
  BY <1>13
<1>14. CASE gui = LockOnce
  BY <1>14
<1>15. CASE gui = <<"unlock">>
  BY <1>15
<1>16. CASE gui = Terminate
  BY <1>16
<1>17. CASE gui = <<"stop", "report">>
  BY <1>17
<1>18. CASE gui = <<"report">>
  BY <1>18
<1> QED BY <1>1, <1>2, <1>3, <1>4, <1>5, <1>6, <1>7, <1>8, <1>9, <1>10,
          <1>11, <1>12, <1>13, <1>14, <1>15, <1>16, <1>17, <1>18

\* What a command makes the GUI do.
LEMMA GuiBegins ==
  /\ {<< >>, PrepareAndStart, PrepareToCursor, StartToCursor, <<"go", "start">>,
      <<"goOn", "start">>, LockOnce, Terminate} \subseteq GuiScripts
  /\ ~WillStart(<< >>) /\ ~WillStart(LockOnce) /\ ~WillStart(Terminate)
  /\ ~WillClear(StartToCursor) /\ ~WillClear(<<"go", "start">>)
  /\ ~WillClear(<<"goOn", "start">>)
  /\ \A g \in {PrepareAndStart, PrepareToCursor, StartToCursor, <<"go", "start">>,
               <<"goOn", "start">>, LockOnce, Terminate} :
       g # << >> /\ Head(g) # "unlock" /\ g # <<"stop", "report">> /\ g # AtClear
       /\ ~Locked(g)
  /\ << >> # AtClear /\ << >> # AfterClear
BY DEF GuiScripts, PrepareAndStart, PrepareToCursor, StartToCursor, AtClear, AfterClear,
       LockOnce, Terminate, WillStart, WillClear, Locked

\* No run is being prepared in the event loop, nor after a report.
LEMMA GuiIdle == ~WillClear(<< >>) /\ ~WillClear(LockOnce) /\ ~WillClear(Terminate)
BY GuiBegins DEF WillClear

LEMMA InitInv == Init => IInv
<1> SUFFICES ASSUME Init PROVE IInv
  OBVIOUS
<1>1. TypeOK
  <2>1. << >> \in Seq(ThreadSteps) /\ << >> \in Seq(GuiSteps)
    OBVIOUS
  <2>2. 0 \in 0..MaxQuanta
    BY MaxQuantaAssumption
  <2> QED BY <2>1, <2>2 DEF Init, TypeOK
<1>2. ThreadInv /\ LeftInv /\ DelayInv /\ OverInv
  BY DEF Init, ThreadInv, LeftInv, DelayInv, ThreadAt, OverInv
<1>3. GuiInv /\ PatientInv /\ ClearInv
  BY GuiBegins DEF Init, GuiInv, GuiAt, PatientInv, ClearInv, Locked
<1> QED BY <1>1, <1>2, <1>3 DEF IInv

-----------------------------------------------------------------------------
(* The types.                                                              *)

LEMMA TypeStep == IInv /\ Next => TypeOK'
<1> SUFFICES ASSUME IInv, Next PROVE TypeOK'
  OBVIOUS
<1> USE DEF IInv, flags, guiVars, user
<1>1. CASE Evaluate
  <2>1. PICK i \in Instructions : \E s \in Scripts(i) : todo' \in {s, Append(s, "fail")}
    BY <1>1 DEF Evaluate
  <2>2. PICK s \in Scripts(i) : todo' \in {s, Append(s, "fail")}
    BY <2>1
  <2>3. s \in Seq(ThreadSteps)
    BY <2>1, <2>2, ScriptsSound, InstructionsAssumption DEF Script
  <2>4. Append(s, "fail") \in Seq(ThreadSteps)
    BY <2>3 DEF ThreadSteps
  <2> QED BY <2>2, <2>3, <2>4, <1>1 DEF Evaluate, TypeOK
<1>2. CASE HitBreakpoint \/ Leave \/ EnterFinish \/ Finish \/ Fail
  <2>1. << >> \in Seq(ThreadSteps)
    OBVIOUS
  <2>2. CASE HitBreakpoint \/ Leave \/ EnterFinish \/ Fail
    BY <2>1, <2>2 DEF HitBreakpoint, Leave, EnterFinish, Fail, TypeOK
  <2>3. CASE Finish
    BY <2>3 DEF Finish, TypeOK
  <2> QED BY <1>2, <2>2, <2>3
<1>3. CASE ThreadLock \/ ReadRows \/ Answered \/ ThreadUnlock \/ AskNoMore \/ Work \/ Suspend
  BY <1>3, HeldAtHead
  DEF ThreadLock, ReadRows, Answered, ThreadUnlock, AskNoMore, Work, Suspend,
      ThreadAt, TypeOK
<1>4. CASE BeginDelay
  BY <1>4, HeldAtHead DEF BeginDelay, ThreadAt, TypeOK, StopGiven
<1>5. CASE Sleep
  <2>1. todo' \in Seq(ThreadSteps)
    BY <1>5, HeldAtHead DEF Sleep, ThreadAt, TypeOK
  <2>2. quanta' \in 0..MaxQuanta
    BY <1>5, MaxQuantaAssumption DEF Sleep, TypeOK
  <2> QED BY <1>5, <2>1, <2>2 DEF Sleep, TypeOK
<1>6. /\ << >> \in Seq(GuiSteps) /\ LockOnce \in Seq(GuiSteps)
      /\ Terminate \in Seq(GuiSteps) /\ <<"go", "start">> \in Seq(GuiSteps)
      /\ <<"goOn", "start">> \in Seq(GuiSteps) /\ StartToCursor \in Seq(GuiSteps)
  BY DEF GuiSteps, LockOnce, Terminate, StartToCursor
<1>7. PrepareAndStart \in Seq(GuiSteps)
  BY DEF GuiSteps, PrepareAndStart
<1>8. PrepareToCursor \in Seq(GuiSteps)
  BY DEF GuiSteps, PrepareToCursor
<1>9. CASE Run \/ Resume \/ StepInside \/ RunToCursor
  BY <1>6, <1>7, <1>8, <1>9 DEF Run, Resume, StepInside, RunToCursor, TypeOK
<1>10. CASE LockedRequest \/ Stop
  BY <1>6, <1>10 DEF LockedRequest, Stop, TypeOK
<1>11. CASE HandleFinished
  <2>1. gst' \in {"Idle", "Running", "Pause"} /\ gui' \in Seq(GuiSteps)
    BY <1>6, <1>11 DEF HandleFinished, Report, TypeOK
  <2>2. pending' \in Nat
    BY <1>11 DEF HandleFinished, TypeOK
  <2> QED BY <1>11, <2>1, <2>2 DEF HandleFinished, TypeOK
<1>12. CASE StopReport
  BY <1>6, <1>12 DEF StopReport, Report, TypeOK
<1>13. gui # << >> => Tail(gui) \in Seq(GuiSteps)
  BY DEF TypeOK
<1>14. CASE GuiLock \/ GuiUnlock \/ CutDelay \/ GiveStop
  BY <1>13, <1>14 DEF GuiLock, GuiUnlock, CutDelay, GiveStop, GuiAt, TypeOK
<1>15. CASE Reset \/ Clear \/ Start
  BY <1>13, <1>15 DEF Reset, Clear, Start, GuiAt, TypeOK
<1>16. CASE Go
  <2>1. stopping' \in BOOLEAN
    BY <1>16 DEF Go, TypeOK
  <2> QED BY <1>13, <1>16, <2>1 DEF Go, GuiAt, TypeOK
<1> QED BY <1>1, <1>2, <1>3, <1>4, <1>5, <1>9, <1>10, <1>11, <1>12, <1>14, <1>15, <1>16
        DEF Next, ThreadStep, GuiStep

-----------------------------------------------------------------------------
(* The thread's instruction and what it leaves.                            *)

LEMMA ThreadInvStep == IInv /\ Next => ThreadInv' /\ LeftInv'
<1> SUFFICES ASSUME IInv, Next PROVE ThreadInv' /\ LeftInv'
  OBVIOUS
<1> USE DEF IInv, flags, guiVars, user
<1>1. CASE Evaluate
  <2>1. PICK i \in Instructions : \E s \in Scripts(i) : todo' \in {s, Append(s, "fail")}
    BY <1>1 DEF Evaluate
  <2>2. PICK s \in Scripts(i) : todo' \in {s, Append(s, "fail")}
    BY <2>1
  <2>3. s \in Seq(ThreadSteps) /\ Sound(s, 0) /\ Sound(Append(s, "fail"), 0)
    BY <2>1, <2>2, ScriptsSound, SoundAppend, InstructionsAssumption DEF Script
  <2>4. lock # "thread"
    BY <1>1 DEF Evaluate, MustStop, LeftInv
  <2>5. thr' = "on" /\ more' /\ ~err' /\ lock' # "thread" /\ Sound(todo', 0)
    BY <1>1, <2>2, <2>3, <2>4 DEF Evaluate, MustStop
  <2>6. Belief(0)'
    BY <2>5 DEF Belief, Holds
  <2> QED BY <2>5, <2>6 DEF ThreadInv, LeftInv
<1>2. CASE HitBreakpoint \/ Leave
  BY <1>2 DEF HitBreakpoint, Leave, ThreadInv, LeftInv
<1>3. CASE EnterFinish \/ Finish
  <2>1. todo = << >>
    BY <1>3 DEF EnterFinish, Finish, ThreadInv
  <2> QED BY <1>3, <2>1 DEF EnterFinish, Finish, ThreadInv, LeftInv
<1>4. CASE Fail
  BY <1>4 DEF Fail, ThreadInv, LeftInv
<1>5. CASE ThreadLock \/ ThreadUnlock
  BY <1>5, StepKeepsSound DEF ThreadLock, ThreadUnlock, ThreadAt
<1>6. CASE ReadRows \/ Answered \/ AskNoMore \/ Work
  BY <1>6, StepKeepsSound DEF ReadRows, Answered, AskNoMore, Work, ThreadAt
<1>7. CASE BeginDelay \/ Suspend
  BY <1>7, StepKeepsSound DEF BeginDelay, Suspend, ThreadAt
<1>8. CASE Sleep
  <2>1. CASE todo' = todo
    BY <1>8, <2>1 DEF Sleep, ThreadAt, ThreadInv, LeftInv, Belief, Holds
  <2>2. CASE todo' = Tail(todo)
    BY <1>8, <2>2, StepKeepsSound DEF Sleep, ThreadAt
  <2> QED BY <1>8, <2>1, <2>2 DEF Sleep
<1>9. ASSUME UNCHANGED <<lock, thr, more, todo, err, met>>,
             stopping' = stopping \/ gui # AfterClear,
             gui # AfterClear \/ gui' = AfterClear
      PROVE  ThreadInv' /\ LeftInv'
  BY <1>9 DEF ThreadInv, LeftInv, Belief, Holds
<1>10. CASE Run \/ Resume \/ StepInside \/ RunToCursor
  BY <1>9, <1>10, GuiBegins DEF Run, Resume, StepInside, RunToCursor, MayStart
<1>11. CASE LockedRequest \/ Stop \/ HandleFinished
  BY <1>9, <1>11, GuiBegins DEF LockedRequest, Stop, HandleFinished
<1>12. ASSUME gui # << >>, Head(gui) # "lock"
       PROVE  gui # AfterClear
  BY <1>12, GuiTails DEF GuiInv
<1>13. CASE CutDelay \/ GiveStop \/ StopReport
  <2>1. gui # AfterClear
    BY <1>13, <1>12 DEF CutDelay, GiveStop, StopReport, GuiAt
  <2> QED BY <1>9, <1>13, <2>1 DEF CutDelay, GiveStop, StopReport
<1>14. CASE Go
  <2>1. gui # AfterClear
    BY <1>14, <1>12 DEF Go, GuiAt
  <2> QED BY <1>9, <1>14, <2>1 DEF Go
<1>15. CASE GuiLock
  BY <1>15 DEF GuiLock, ThreadInv, LeftInv, Belief, Holds
<1>16. CASE GuiUnlock
  <2>1. met \/ lock = "gui"
    BY <1>16 DEF GuiUnlock, GuiInv
  <2> QED BY <1>16, <2>1 DEF GuiUnlock, ThreadInv, LeftInv, Belief, Holds
<1>17. CASE Reset
  <2>1. todo # << >> => met' /\ met'
    BY <1>17 DEF Reset, ThreadInv
  <2> QED BY <1>17, <2>1 DEF Reset, ThreadInv, LeftInv, Belief, Holds
<1>18. CASE Clear
  <2>1. gui = AtClear /\ gui' = AfterClear
    BY <1>18, GuiTails DEF Clear, GuiAt, GuiInv
  <2>2. todo = << >> /\ lock = "thread" => stopping /\ met
    BY <2>1 DEF ClearInv
  <2>3. LeftInv'
    BY <1>18, <2>1, <2>2 DEF Clear, LeftInv
  <2>4. ThreadInv'
    BY <1>18 DEF Clear, ThreadInv, Belief, Holds
  <2> QED BY <2>3, <2>4
<1>19. CASE Start
  <2>1. gui # AfterClear
    BY <1>19, <1>12 DEF Start, GuiAt
  <2> QED BY <1>19, <2>1 DEF Start, ThreadInv, LeftInv, Belief, Holds
<1> QED BY <1>1, <1>2, <1>3, <1>4, <1>5, <1>6, <1>7, <1>8, <1>10, <1>11, <1>13, <1>14,
           <1>15, <1>16, <1>17, <1>18, <1>19 DEF Next, ThreadStep, GuiStep

-----------------------------------------------------------------------------
(* The GUI's scripts, the patient user, and the run that is over.          *)

\* The steps of the thread, as the GUI's part sees them.
ThreadMoves ==
  /\ gui' = gui /\ gst' = gst /\ patient' = patient /\ met' = met
  /\ stopping' = stopping /\ (err => err') /\ (more' => more)
  /\ \/ lock' = lock
     \/ thr = "on" /\ lock' = "thread" /\ lock = "none" /\ todo # << >>
     \/ thr = "on" /\ lock' = "none" /\ (lock = "thread" \/ met)
  /\ thr' = thr \/ thr # "off"
  /\ todo' # << >> => todo # << >> \/ (more /\ ~err /\ ~stopping)

LEMMA ThreadMovesSo ==
  ASSUME IInv, \/ Evaluate \/ HitBreakpoint \/ Leave \/ ThreadLock \/ ReadRows \/ Answered
               \/ ThreadStep
  PROVE  ThreadMoves
<1> USE DEF IInv, flags, guiVars, user
<1>1. CASE Evaluate \/ HitBreakpoint \/ Leave
  BY <1>1 DEF Evaluate, HitBreakpoint, Leave, MustStop, ThreadMoves
<1>2. CASE EnterFinish \/ Finish
  BY <1>2 DEF EnterFinish, Finish, ThreadMoves
<1>3. CASE ThreadLock
  BY <1>3 DEF ThreadLock, ThreadAt, ThreadMoves
<1>4. CASE ThreadUnlock
  <2>1. lock = "thread" \/ met
    BY <1>4, HeldAtHead DEF ThreadUnlock, ThreadAt
  <2> QED BY <1>4, <2>1 DEF ThreadUnlock, ThreadAt, ThreadMoves
<1>5. CASE ReadRows \/ Answered \/ AskNoMore \/ Work
  BY <1>5 DEF ReadRows, Answered, AskNoMore, Work, ThreadAt, ThreadMoves
<1>6. CASE BeginDelay \/ Sleep \/ Suspend \/ Fail
  BY <1>6 DEF BeginDelay, Sleep, Suspend, Fail, ThreadAt, ThreadMoves
<1> QED BY <1>1, <1>2, <1>3, <1>4, <1>5, <1>6 DEF ThreadStep

GuiPart == GuiInv /\ PatientInv /\ OverInv /\ ClearInv

LEMMA ThreadKeepsGuiPart ==
  ASSUME IInv, ThreadMoves
  PROVE  GuiPart'
<1> USE DEF IInv, ThreadMoves
<1>1. GuiInv'
  <2>1. ~met => (lock' = "gui" <=> lock = "gui")
    OBVIOUS
  <2> QED BY <2>1 DEF GuiInv, GuiAt
<1>2. PatientInv'
  BY DEF PatientInv, Locked
<1>3. OverInv'
  BY DEF OverInv, Over
<1>4. ClearInv'
  <2>1. gui = AtClear => Over
    <3>1. WillClear(AtClear)
      BY DEF WillClear, WillStart, AtClear
    <3> QED BY <3>1 DEF Over
  <2>2. ASSUME gui = AtClear
        PROVE  todo' # << >> \/ lock' = "thread" => todo # << >> \/ lock = "thread"
    BY <2>1, <2>2 DEF OverInv
  <2> QED BY <2>2 DEF ClearInv
<1> QED BY <1>1, <1>2, <1>3, <1>4 DEF GuiPart

LEMMA GuiPartStep == IInv /\ Next => GuiPart'
<1> SUFFICES ASSUME IInv, Next PROVE GuiPart'
  OBVIOUS
<1> USE DEF IInv, flags, guiVars, user
<1>1. CASE \/ Evaluate \/ HitBreakpoint \/ Leave \/ ThreadLock \/ ReadRows \/ Answered
           \/ ThreadStep
  BY <1>1, ThreadMovesSo, ThreadKeepsGuiPart
<1>2. CASE Run \/ Resume \/ StepInside \/ RunToCursor
  <2>1. /\ gui = << >> /\ gst' # "Idle" /\ lock' = lock /\ thr' = thr /\ met' = met
        /\ patient' = patient /\ err' = err /\ stopping' = stopping /\ more' = more
        /\ patient => thr = "off"
        /\ gui' \in {PrepareAndStart, PrepareToCursor, StartToCursor, <<"go", "start">>,
                     <<"goOn", "start">>}
        /\ gst = "Idle" \/ gui' \in {StartToCursor, <<"go", "start">>, <<"goOn", "start">>}
    BY <1>2 DEF Run, Resume, StepInside, RunToCursor, MayStart
  <2>2. GuiInv'
    BY <2>1, GuiBegins DEF GuiInv, GuiAt
  <2>3. PatientInv'
    BY <2>1, GuiBegins DEF PatientInv
  <2>4. OverInv'
    BY <2>1, GuiBegins DEF OverInv, Over
  <2>5. ClearInv'
    BY <2>1, GuiBegins DEF ClearInv
  <2> QED BY <2>2, <2>3, <2>4, <2>5 DEF GuiPart
<1>3. CASE LockedRequest \/ Stop
  <2>1. /\ gui = << >> /\ gst' = gst /\ lock' = lock /\ thr' = thr /\ met' = met
        /\ patient' = patient /\ err' = err /\ stopping' = stopping /\ more' = more
        /\ gui' \in {LockOnce, Terminate}
    BY <1>3 DEF LockedRequest, Stop
  <2>2. GuiInv' /\ PatientInv' /\ ClearInv'
    BY <2>1, GuiBegins DEF GuiInv, GuiAt, PatientInv, ClearInv
  <2>3. OverInv'
    BY <2>1, GuiIdle DEF OverInv, Over
  <2> QED BY <2>2, <2>3 DEF GuiPart
<1>4. ASSUME Report, UNCHANGED <<lock, thr, met, patient, err, stopping, more>>,
             ~GuiAt("unlock")
      PROVE  GuiPart'
  <2>1. /\ gui' \in {<< >>, LockOnce}
        /\ gst' = "Idle" => err \/ stopping \/ ~more
    BY <1>4 DEF Report, TypeOK
  <2>2. GuiInv'
    <3>1. ~met => lock # "gui"
      BY <1>4 DEF GuiInv
    <3> QED BY <1>4, <2>1, <3>1, GuiBegins DEF GuiInv, GuiAt
  <2>3. PatientInv' /\ ClearInv'
    BY <1>4, <2>1, GuiBegins DEF PatientInv, ClearInv, Locked
  <2>4. OverInv'
    BY <1>4, <2>1, GuiIdle DEF OverInv, Over
  <2> QED BY <2>2, <2>3, <2>4 DEF GuiPart
<1>5. CASE HandleFinished
  BY <1>4, <1>5 DEF HandleFinished, GuiAt
<1>6. CASE StopReport
  <2>1. CASE IsRunning
    <3>1. /\ gui # << >> /\ Head(gui) = "report" /\ gui' = << >> /\ gst' = gst
          /\ UNCHANGED <<lock, thr, met, patient, err, stopping, more>>
      BY <1>6, <2>1 DEF StopReport, GuiAt
    <3>2. GuiInv' /\ PatientInv' /\ ClearInv'
      BY <3>1, GuiBegins DEF GuiInv, GuiAt, PatientInv, ClearInv, Locked
    <3>3. OverInv'
      BY <3>1, GuiIdle DEF OverInv, Over
    <3> QED BY <3>2, <3>3 DEF GuiPart
  <2>2. CASE ~IsRunning
    BY <1>4, <1>6, <2>2 DEF StopReport, GuiAt
  <2> QED BY <2>1, <2>2
<1>7. CASE GuiLock
  <2>1. /\ gui # << >> /\ Head(gui) = "lock" /\ gui' = Tail(gui) /\ lock' = "gui"
        /\ UNCHANGED <<gst, thr, met, patient, err, stopping, more, todo>>
    BY <1>7 DEF GuiLock, GuiAt
  <2>2. gui' # AtClear
    BY <2>1, GuiTails DEF GuiInv
  <2>3. GuiInv' /\ PatientInv'
    BY <2>1, GuiTails DEF GuiInv, GuiAt, PatientInv
  <2>4. OverInv' /\ ClearInv'
    BY <2>1, <2>2, GuiTails DEF GuiInv, OverInv, Over, ClearInv
  <2> QED BY <2>3, <2>4 DEF GuiPart
<1>8. CASE GuiUnlock
  <2>1. /\ gui # << >> /\ Head(gui) = "unlock" /\ gui' = Tail(gui) /\ lock' = "none"
        /\ UNCHANGED <<gst, thr, met, patient, err, stopping, more, todo>>
    BY <1>8 DEF GuiUnlock, GuiAt
  <2>2. gui' # AtClear
    BY <2>1, GuiTails DEF GuiInv
  <2>3. GuiInv' /\ PatientInv'
    BY <2>1, GuiTails DEF GuiInv, GuiAt, PatientInv
  <2>4. OverInv' /\ ClearInv'
    BY <2>1, <2>2, GuiTails DEF GuiInv, OverInv, Over, ClearInv
  <2> QED BY <2>3, <2>4 DEF GuiPart
<1>9. CASE CutDelay \/ GiveStop
  <2>1. /\ gui # << >> /\ Head(gui) \in {"cut", "stop"} /\ gui' = Tail(gui)
        /\ UNCHANGED <<lock, gst, thr, met, patient, err, more, todo>>
        /\ stopping' = stopping \/ stopping'
    BY <1>9 DEF CutDelay, GiveStop, GuiAt
  <2>2. gui' # AtClear
    BY <2>1, GuiTails DEF GuiInv
  <2>3. GuiInv' /\ PatientInv'
    BY <2>1, GuiTails DEF GuiInv, GuiAt, PatientInv
  <2>4. OverInv' /\ ClearInv'
    BY <2>1, <2>2, GuiTails DEF GuiInv, OverInv, Over, ClearInv
  <2> QED BY <2>3, <2>4 DEF GuiPart
<1>10. CASE Reset
  <2>1. /\ gui # << >> /\ Head(gui) = "reset" /\ gui' = Tail(gui) /\ lock' = "none"
        /\ met' = (met \/ thr = "on")
        /\ UNCHANGED <<gst, thr, patient, err, stopping, more, todo>>
    BY <1>10 DEF Reset, GuiAt
  <2>2. WillStart(gui) /\ WillClear(gui)
    BY <2>1, GuiTails DEF GuiInv, WillClear
  <2>3. GuiInv' /\ PatientInv'
    BY <2>1, <2>2, GuiTails DEF GuiInv, GuiAt, PatientInv
  <2>4. OverInv'
    BY <2>1, GuiTails DEF GuiInv, OverInv, Over
  <2>5. todo # << >> => stopping /\ met'
    BY <2>1, <2>2 DEF ThreadInv, OverInv, Over
  <2>6. ClearInv'
    BY <2>1, <2>5 DEF ClearInv
  <2> QED BY <2>3, <2>4, <2>6 DEF GuiPart
<1>11. CASE Clear
  <2>1. /\ gui # << >> /\ Head(gui) = "clear" /\ gui' = Tail(gui)
        /\ UNCHANGED <<lock, gst, thr, met, patient, stopping, todo>>
    BY <1>11 DEF Clear, GuiAt
  <2>2. gui' # AtClear /\ WillStart(gui) /\ ~WillClear(gui')
    <3>1. gui = AtClear /\ ~WillClear(gui')
      BY <2>1, GuiTails DEF GuiInv
    <3>2. WillStart(AtClear)
      BY DEF WillStart, AtClear
    <3> QED BY <2>1, <3>1, <3>2, GuiTails DEF GuiInv
  <2>3. GuiInv' /\ PatientInv'
    BY <2>1, GuiTails DEF GuiInv, GuiAt, PatientInv
  <2>4. OverInv' /\ ClearInv'
    BY <2>1, <2>2 DEF GuiInv, OverInv, Over, ClearInv
  <2> QED BY <2>3, <2>4 DEF GuiPart
<1>12. CASE Go
  <2>1. /\ gui # << >> /\ Head(gui) \in {"go", "goOn"} /\ gui' = Tail(gui)
        /\ UNCHANGED <<lock, gst, thr, met, patient, err, more, todo>>
    BY <1>12 DEF Go, GuiAt
  <2>2. gui' # AtClear /\ WillStart(gui) /\ ~WillClear(gui')
    <3>1. gui' = <<"start">> /\ WillStart(gui)
      BY <2>1, GuiTails DEF GuiInv
    <3>2. <<"start">> # AtClear /\ ~WillClear(<<"start">>)
      BY DEF AtClear, WillClear
    <3> QED BY <3>1, <3>2
  <2>3. GuiInv' /\ PatientInv'
    BY <2>1, GuiTails DEF GuiInv, GuiAt, PatientInv
  <2>4. OverInv' /\ ClearInv'
    BY <2>1, <2>2 DEF GuiInv, OverInv, Over, ClearInv
  <2> QED BY <2>3, <2>4 DEF GuiPart
<1>13. CASE Start
  <2>1. /\ gui # << >> /\ Head(gui) = "start" /\ gui' = << >> /\ WillStart(gui)
        /\ UNCHANGED <<lock, gst, met, patient, err, stopping, more, todo>>
    BY <1>13, GuiTails DEF Start, GuiAt, GuiInv
  <2>2. GuiInv' /\ PatientInv' /\ ClearInv'
    BY <2>1, GuiBegins DEF GuiInv, GuiAt, PatientInv, ClearInv, Locked
  <2>3. OverInv'
    BY <2>1, GuiIdle DEF GuiInv, OverInv, Over
  <2> QED BY <2>2, <2>3 DEF GuiPart
<1> QED BY <1>1, <1>2, <1>3, <1>5, <1>6, <1>7, <1>8, <1>9, <1>10, <1>11, <1>12, <1>13
        DEF Next, GuiStep

-----------------------------------------------------------------------------
(* The delay.                                                              *)

\* A script is at its sleep only after its delay.
LEMMA SleepAfterDelay ==
  ASSUME TypeOK, ThreadInv, todo # << >>, Head(todo) # "delay"
  PROVE  Tail(todo) = << >> \/ Head(Tail(todo)) # "sleep"
BY SoundTail DEF TypeOK, ThreadInv, Belief

LEMMA DelayInvStep == IInv /\ Next => DelayInv'
<1> SUFFICES ASSUME IInv, Next PROVE DelayInv'
  OBVIOUS
<1> USE DEF IInv, flags, guiVars, user
<1>1. CASE Evaluate
  <2>1. PICK i \in Instructions : \E s \in Scripts(i) : todo' \in {s, Append(s, "fail")}
    BY <1>1 DEF Evaluate
  <2>2. todo' # << >> => Head(todo') # "sleep"
    <3>1. PICK s \in Scripts(i) : todo' \in {s, Append(s, "fail")}
      BY <2>1
    <3>2. s = << >> \/ Head(s) = "lock"
      BY <3>1, <2>1, InstructionsAssumption, ScriptsLock
    <3>3. s \in Seq(ThreadSteps)
      BY <3>1, <2>1, InstructionsAssumption, ScriptsSound DEF Script
    <3>4. s # << >> => Head(Append(s, "fail")) = Head(s)
      BY <3>3
    <3>5. s = << >> => Head(Append(s, "fail")) = "fail"
      OBVIOUS
    <3> QED BY <3>1, <3>2, <3>4, <3>5
  <2> QED BY <2>2 DEF DelayInv, ThreadAt
<1>2. CASE HitBreakpoint \/ Leave \/ EnterFinish \/ Finish \/ Fail
  BY <1>2 DEF HitBreakpoint, Leave, EnterFinish, Finish, Fail, DelayInv, ThreadAt
<1>3. CASE ThreadLock \/ ReadRows \/ Answered \/ ThreadUnlock \/ AskNoMore \/ Work \/ Suspend
  BY <1>3, SleepAfterDelay
  DEF ThreadLock, ReadRows, Answered, ThreadUnlock, AskNoMore, Work, Suspend, DelayInv,
      ThreadAt
<1>4. CASE BeginDelay
  BY <1>4 DEF BeginDelay, DelayInv, ThreadAt, StopGiven
<1>5. CASE Sleep
  <2>1. CASE todo' = todo
    BY <1>5, <2>1 DEF Sleep, DelayInv, ThreadAt, StopGiven
  <2>2. CASE todo' = Tail(todo)
    BY <1>5, <2>2, SleepAfterDelay DEF Sleep, DelayInv, ThreadAt
  <2> QED BY <1>5, <2>1, <2>2 DEF Sleep
<1>6. ASSUME UNCHANGED <<thr, todo, cut, late>>, stopping' => stopping,
             gui' = <<"stop", "report">> => StopGiven
      PROVE  DelayInv'
  BY <1>6 DEF DelayInv, ThreadAt, StopGiven
<1>7. << >> # <<"stop", "report">> /\ LockOnce # <<"stop", "report">>
  BY DEF LockOnce
<1>8. CASE Run \/ Resume \/ StepInside \/ RunToCursor \/ LockedRequest \/ Stop
  <2>1. gui' # <<"stop", "report">>
    BY <1>8, GuiBegins DEF Run, Resume, StepInside, RunToCursor, LockedRequest, Stop
  <2> QED BY <1>6, <1>8, <2>1 DEF Run, Resume, StepInside, RunToCursor, LockedRequest, Stop
<1>9. CASE HandleFinished \/ StopReport
  <2>1. gui' # <<"stop", "report">>
    BY <1>7, <1>9 DEF HandleFinished, StopReport, Report
  <2> QED BY <1>6, <1>9, <2>1 DEF HandleFinished, StopReport
<1>10. CASE GuiLock \/ GuiUnlock \/ Reset \/ Clear
  <2>1. gui' # <<"stop", "report">>
    BY <1>10, GuiTails DEF GuiLock, GuiUnlock, Reset, Clear, GuiAt, GuiInv
  <2> QED BY <1>6, <1>10, <2>1 DEF GuiLock, GuiUnlock, Reset, Clear
<1>11. CASE Go
  <2>1. gui' # <<"stop", "report">>
    BY <1>11, GuiTails DEF Go, GuiAt, GuiInv
  <2>2. stopping' => stopping
    BY <1>11 DEF Go
  <2> QED BY <1>6, <1>11, <2>1, <2>2 DEF Go
<1>12. CASE CutDelay \/ GiveStop
  BY <1>12, GuiTails DEF CutDelay, GiveStop, GuiInv, GuiAt, DelayInv, ThreadAt, StopGiven
<1>13. CASE Start
  <2>1. thr' = "on" => thr = "on" \/ todo = << >>
    BY <1>13 DEF Start, ThreadInv
  <2>2. gui' # <<"stop", "report">>
    BY <1>13, GuiTails DEF Start, GuiAt, GuiInv
  <2> QED BY <1>13, <2>1, <2>2 DEF Start, DelayInv, ThreadAt, StopGiven
<1> QED BY <1>1, <1>2, <1>3, <1>4, <1>5, <1>8, <1>9, <1>10, <1>11, <1>12, <1>13
        DEF Next, ThreadStep, GuiStep

LEMMA InvHolds == Spec => []IInv
<1>1. IInv /\ [Next]_vars => IInv'
  <2>1. IInv /\ Next => IInv'
    BY TypeStep, ThreadInvStep, GuiPartStep, DelayInvStep DEF IInv, GuiPart
  <2>2. IInv /\ UNCHANGED vars => IInv'
    <3> SUFFICES ASSUME IInv, UNCHANGED vars PROVE IInv'
      OBVIOUS
    <3>1. TypeOK' /\ GuiInv' /\ PatientInv'
      BY DEF IInv, vars, user, TypeOK, GuiInv, GuiAt, PatientInv
    <3>2. ThreadInv' /\ LeftInv'
      BY DEF IInv, vars, user, ThreadInv, Belief, Holds, LeftInv
    <3>3. OverInv' /\ ClearInv' /\ DelayInv'
      BY DEF IInv, vars, user, OverInv, Over, ClearInv, DelayInv, ThreadAt, StopGiven
    <3> QED BY <3>1, <3>2, <3>3 DEF IInv
  <2> QED BY <2>1, <2>2
<1> QED BY InitInv, <1>1, PTL DEF Spec

-----------------------------------------------------------------------------
(* Theorems.                                                               *)

\* Every state is of the model's types, whatever the programs evaluate.
THEOREM TypeCorrect == Spec => []TypeOK
<1>1. IInv => TypeOK
  BY DEF IInv
<1> QED BY InvHolds, <1>1, PTL

\* The thread never waits for itself at the mutex, whoever the user, and frees
\* only what it holds until the machine is reset under it.
THEOREM ThreadNeverSelfDeadlocks == Spec => []NoSelfDeadlock
<1>1. IInv => NoSelfDeadlock
  BY HeldAtHead DEF IInv, NoSelfDeadlock, ThreadAt
<1> QED BY InvHolds, <1>1, PTL

\* The user and the actors are never waited for with the mutex held.
THEOREM WaitsHoldNothing == Spec => []WaitsAreUnlocked
<1>1. IInv => WaitsAreUnlocked
  BY HeldAtHead DEF IInv, WaitsAreUnlocked, ThreadAt
<1> QED BY InvHolds, <1>1, PTL

\* Only a failed instruction, or a reset under the thread, leaves the mutex
\* with the thread between instructions or after them.
THEOREM LockFreedBetweenInstructions == Spec => []LockIsFreed
<1>1. IInv => LockIsFreed
  BY DEF IInv, ThreadInv, LeftInv, LockIsFreed
<1> QED BY InvHolds, <1>1, PTL

\* With a patient user no reset meets an evaluating thread, and the mutex it
\* frees is free.
THEOREM ResetIsHarmless == Spec => []ResetFreesNothing
<1>1. IInv => ResetFreesNothing
  <2>1. SUFFICES ASSUME IInv, patient PROVE ~met /\ (GuiAt("reset") => lock = "none")
    BY DEF ResetFreesNothing
  <2>2. ~met
    BY <2>1 DEF IInv, PatientInv
  <2>3. ASSUME GuiAt("reset") PROVE lock = "none"
    <3>1. Locked(gui) /\ ~GuiAt("unlock")
      BY <2>1, <2>3, GuiTails DEF IInv, GuiInv, GuiAt
    <3> QED BY <2>1, <2>2, <3>1 DEF IInv, GuiInv, PatientInv, TypeOK
  <2> QED BY <2>2, <2>3
<1> QED BY InvHolds, <1>1, PTL

\* A delay misses a stop only when it began in the middle of one or after it.
THEOREM DelaysHearStops == Spec => []DelayHearsStop
<1>1. IInv => DelayHearsStop
  BY DEF IInv, DelayInv, DelayHearsStop, StopGiven
<1> QED BY InvHolds, <1>1, PTL
=============================================================================
