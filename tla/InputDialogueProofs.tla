------------------------- MODULE InputDialogueProofs -------------------------
(***************************************************************************)
(* The invariants of InputDialogue, for any number of values, requests and *)
(* posted events.                                                          *)
(***************************************************************************)
EXTENDS InputDialogue, TLAPS

-----------------------------------------------------------------------------
(* The inductive invariant.                                                *)

AskAt(i) == posted[i].type = "ask"
Asking == \E i \in 1..Len(posted) : AskAt(i)

\* A stop ended the thread's last request.
Stopped == thr \in {"eval", "off"} /\ stopping /\ req \in dropped

\* What is posted: the thread's last request at most once, and the end of the
\* run at the end; in an idle session the user waits for all of it.
Queue ==
  /\ \A i \in 1..Len(posted) : AskAt(i) => posted[i].id = req /\ posted[i].n = want
  /\ \A i, j \in 1..Len(posted) : AskAt(i) /\ AskAt(j) => i = j
  /\ \A i \in 1..Len(posted) :
       posted[i].type = "fin" => i = Len(posted) /\ thr = "off"
  /\ gst = "Idle" => thr = "off" /\ owed = Len(posted)
  /\ has \/ (gst = "Idle" /\ posted = << >>)

\* Where the thread's last request is: not yet posted, underway, or held by the
\* terminal.
Requests ==
  /\ from.held \in 0..req /\ from.answered \in 0..from.held
  /\ thr \in {"clear", "wait"} => req # 0 /\ want # 0
  /\ Asking => from.held # req /\ (thr = "wait" \/ Stopped)
  /\ thr = "clear" => from.held # req /\ ~flag[asker]
  /\ thr = "wait" => Asking \/ from.held = req

\* An open input is for the thread's last request, which waits or was stopped.
Opened ==
  mode /\ open =>
    /\ from.held = req
    /\ formats = want /\ got < want /\ asked = want - got
    /\ (thr = "wait" /\ ~flag[asker]) \/ Stopped

\* The two parts of TypeOK.
Numbers ==
  /\ thr \in {"off", "eval", "clear", "wait"}
  /\ asker \in Functors
  /\ want \in 0..MaxFields /\ req \in 0..MaxRequests
  /\ flag \in [Functors -> BOOLEAN] /\ vals \in [Functors -> 0..MaxFields]
  /\ gst \in {"Idle", "Running"}
  /\ posted \in Seq(Event) /\ owed \in 0..Len(posted)
  /\ asked \in 0..MaxFields /\ formats \in 0..MaxFields /\ got \in 0..MaxFields
  /\ from \in [{"held", "answered"} -> 0..MaxRequests]
  /\ dropped \subseteq 1..MaxRequests
Switches ==
  /\ stopping \in BOOLEAN /\ crashed \in BOOLEAN
  /\ mode \in BOOLEAN /\ open \in BOOLEAN /\ has \in BOOLEAN /\ shown \in BOOLEAN

DialogueInv ==
  /\ TypeOK /\ Queue /\ Requests /\ Opened
  /\ AnswerIsOwn /\ WaitCanBeAnswered /\ AstrayOnlyAfterStop

-----------------------------------------------------------------------------
(* The queue.                                                              *)

\* An event posted goes to the end.
LEMMA Posted ==
  ASSUME posted \in Seq(Event), NEW e \in Event, posted' = Append(posted, e)
  PROVE  /\ posted' \in Seq(Event) /\ Len(posted') = Len(posted) + 1
         /\ \A i \in 1..Len(posted) : posted'[i] = posted[i]
         /\ posted'[Len(posted) + 1] = e
OBVIOUS

\* The first event is handled.
LEMMA Handled ==
  ASSUME posted \in Seq(Event), posted # << >>, posted' = Tail(posted)
  PROVE  /\ posted' \in Seq(Event) /\ Len(posted') = Len(posted) - 1
         /\ Len(posted) \in Nat \ {0} /\ Head(posted) = posted[1] /\ posted[1] \in Event
         /\ \A i \in 1..Len(posted') :
              i + 1 \in 1..Len(posted) /\ posted'[i] = posted[i + 1]
         /\ \A i \in 1..Len(posted) :
              i = 1 \/ (i - 1 \in 1..Len(posted') /\ posted'[i - 1] = posted[i])
OBVIOUS

-----------------------------------------------------------------------------
(* The steps of the thread.                                                *)

LEMMA TypeParts == (TypeOK <=> Numbers /\ Switches) /\ (TypeOK' <=> Numbers' /\ Switches')
BY DEF TypeOK, Numbers, Switches

LEMMA InitKeeps == Init => DialogueInv
<1> SUFFICES ASSUME Init PROVE DialogueInv
  OBVIOUS
<1> USE DEF Init
<1>1. TypeOK
  <2>1. /\ flag \in [Functors -> BOOLEAN] /\ vals \in [Functors -> 0..MaxFields]
        /\ from \in [{"held", "answered"} -> 0..MaxRequests]
    BY BoundsAssumption
  <2>2. posted \in Seq(Event) /\ Len(posted) = 0
    OBVIOUS
  <2>3. Numbers
    BY <2>1, <2>2, BoundsAssumption DEF Numbers, Functors
  <2>4. Switches
    BY DEF Switches
  <2> QED BY <2>3, <2>4, TypeParts
<1>2. Queue /\ Requests /\ Opened
  BY DEF Queue, Requests, Opened, Asking
<1>3. AnswerIsOwn /\ WaitCanBeAnswered /\ AstrayOnlyAfterStop
  BY DEF AnswerIsOwn, WaitCanBeAnswered, AstrayOnlyAfterStop
<1> QED BY <1>1, <1>2, <1>3 DEF DialogueInv

LEMMA OutputKeeps == DialogueInv /\ Output => DialogueInv'
<1> SUFFICES ASSUME DialogueInv, Output PROVE DialogueInv'
  OBVIOUS
<1> USE DEF DialogueInv, Output, Post, thread, functor, terminal
<1>1. [type |-> "out"] \in Event
  BY DEF Event
<1>2. /\ posted' \in Seq(Event) /\ Len(posted') = Len(posted) + 1
      /\ \A i \in 1..Len(posted) : posted'[i] = posted[i]
      /\ posted'[Len(posted) + 1] = [type |-> "out"]
  BY <1>1, Posted DEF TypeOK
<1>3. Asking' = Asking
  BY <1>2 DEF Asking, AskAt, TypeOK
<1>4. TypeOK'
  BY <1>2 DEF TypeOK
<1>5. Queue'
  BY <1>2 DEF Queue, AskAt, TypeOK
<1>6. Requests' /\ Opened'
  BY <1>3 DEF Requests, Opened, Stopped
<1>7. AnswerIsOwn' /\ WaitCanBeAnswered' /\ AstrayOnlyAfterStop'
  BY DEF AnswerIsOwn, WaitCanBeAnswered, AstrayOnlyAfterStop
<1> QED BY <1>4, <1>5, <1>6, <1>7

LEMMA ClearingKeeps ==
  ASSUME DialogueInv, NEW f \in Functors, NEW n \in 1..MaxFields, Clear(f, n)
  PROVE  DialogueInv'
<1> USE DEF DialogueInv, Clear, terminal
<1>1. ~Asking /\ ~(mode /\ open)
  BY DEF Requests, Opened, Stopped
<1>2. ~Asking'
  BY <1>1 DEF Asking, AskAt
<1>3. TypeOK'
  BY BoundsAssumption DEF TypeOK
<1>4. Queue'
  BY <1>1 DEF Queue, AskAt, Asking, TypeOK
<1>5. Requests'
  BY <1>2 DEF Requests, TypeOK
<1>6. Opened'
  BY <1>1 DEF Opened
<1>7. AnswerIsOwn' /\ WaitCanBeAnswered' /\ AstrayOnlyAfterStop'
  BY DEF AnswerIsOwn, WaitCanBeAnswered, AstrayOnlyAfterStop
<1> QED BY <1>3, <1>4, <1>5, <1>6, <1>7

LEMMA RequestKeeps == DialogueInv /\ Request => DialogueInv'
<1> SUFFICES ASSUME DialogueInv, Request PROVE DialogueInv'
  OBVIOUS
<1> DEFINE e == [type |-> "ask", n |-> want, id |-> req]
<1> USE DEF DialogueInv, Request, Post, functor, terminal
<1>1. e \in Event
  BY BoundsAssumption DEF Event, TypeOK, Requests
<1>2. /\ posted' \in Seq(Event) /\ Len(posted') = Len(posted) + 1
      /\ \A i \in 1..Len(posted) : posted'[i] = posted[i]
      /\ posted'[Len(posted) + 1] = e
  BY <1>1, Posted DEF TypeOK
<1>3. ~Asking /\ ~(mode /\ open)
  BY DEF Requests, Opened, Stopped
<1>4. Asking' /\ Underway'
  BY <1>2 DEF Asking, AskAt, Underway, TypeOK
<1>5. TypeOK'
  BY <1>2 DEF TypeOK
<1>6. Queue'
  BY <1>2, <1>3 DEF Queue, Asking, AskAt, TypeOK
<1>7. Requests'
  BY <1>4 DEF Requests
<1>8. Opened'
  BY <1>3 DEF Opened
<1>9. AnswerIsOwn' /\ WaitCanBeAnswered' /\ AstrayOnlyAfterStop'
  BY <1>4 DEF AnswerIsOwn, WaitCanBeAnswered, AstrayOnlyAfterStop, Requests
<1> QED BY <1>5, <1>6, <1>7, <1>8, <1>9

LEMMA AbandonKeeps == DialogueInv /\ Abandon => DialogueInv'
<1> SUFFICES ASSUME DialogueInv, Abandon PROVE DialogueInv'
  OBVIOUS
<1> USE DEF DialogueInv, Abandon, functor, terminal
<1>1. Asking' = Asking /\ Stopped'
  BY DEF Asking, AskAt, Stopped
<1>2. TypeOK'
  BY DEF TypeOK, Requests
<1>3. Queue'
  BY DEF Queue, AskAt
<1>4. Requests' /\ Opened'
  BY <1>1 DEF Requests, Opened
<1>5. AnswerIsOwn' /\ WaitCanBeAnswered' /\ AstrayOnlyAfterStop'
  BY DEF AnswerIsOwn, WaitCanBeAnswered, AstrayOnlyAfterStop
<1> QED BY <1>2, <1>3, <1>4, <1>5

LEMMA TakeKeeps == DialogueInv /\ Take => DialogueInv'
<1> SUFFICES ASSUME DialogueInv, Take PROVE DialogueInv'
  OBVIOUS
<1> USE DEF DialogueInv, Take, functor, terminal
<1>1. ~Asking /\ ~(mode /\ open)
  BY DEF Requests, Opened, Stopped, AnswerIsOwn, TypeOK
<1>2. ~Asking'
  BY <1>1 DEF Asking, AskAt
<1>3. TypeOK'
  BY DEF TypeOK
<1>4. Queue'
  BY DEF Queue, AskAt
<1>5. Requests' /\ Opened'
  BY <1>1, <1>2 DEF Requests, Opened
<1>6. AnswerIsOwn' /\ WaitCanBeAnswered' /\ AstrayOnlyAfterStop'
  BY DEF AnswerIsOwn, WaitCanBeAnswered, AstrayOnlyAfterStop
<1> QED BY <1>3, <1>4, <1>5, <1>6

LEMMA LeaveKeeps == DialogueInv /\ Leave => DialogueInv'
<1> SUFFICES ASSUME DialogueInv, Leave PROVE DialogueInv'
  OBVIOUS
<1> USE DEF DialogueInv, Leave, Post, functor, terminal
<1>1. [type |-> "fin"] \in Event
  BY DEF Event
<1>2. /\ posted' \in Seq(Event) /\ Len(posted') = Len(posted) + 1
      /\ \A i \in 1..Len(posted) : posted'[i] = posted[i]
      /\ posted'[Len(posted) + 1] = [type |-> "fin"]
  BY <1>1, Posted DEF TypeOK
<1>3. Asking' = Asking
  BY <1>2 DEF Asking, AskAt, TypeOK
<1>4. TypeOK'
  BY <1>2 DEF TypeOK
<1>5. Queue'
  BY <1>2 DEF Queue, AskAt, TypeOK
<1>6. Requests' /\ Opened'
  BY <1>3 DEF Requests, Opened, Stopped
<1>7. AnswerIsOwn' /\ WaitCanBeAnswered' /\ AstrayOnlyAfterStop'
  BY DEF AnswerIsOwn, WaitCanBeAnswered, AstrayOnlyAfterStop
<1> QED BY <1>4, <1>5, <1>6, <1>7

-----------------------------------------------------------------------------
(* The steps of the GUI thread and of the user.                            *)

LEMMA HandleKeeps == DialogueInv /\ Handle => DialogueInv'
<1> SUFFICES ASSUME DialogueInv, Handle PROVE DialogueInv'
  OBVIOUS
<1> USE DEF DialogueInv, thread, functor
<1>0. posted # << >> /\ posted' = Tail(posted)
  BY DEF Handle
<1>1. /\ posted' \in Seq(Event) /\ Len(posted') = Len(posted) - 1
      /\ Len(posted) \in Nat \ {0} /\ Head(posted) = posted[1] /\ posted[1] \in Event
      /\ \A i \in 1..Len(posted') :
           i + 1 \in 1..Len(posted) /\ posted'[i] = posted[i + 1]
      /\ \A i \in 1..Len(posted) :
           i = 1 \/ (i - 1 \in 1..Len(posted') /\ posted'[i - 1] = posted[i])
  BY <1>0, Handled DEF TypeOK
<1>2. /\ UNCHANGED <<thr, asker, want, req, flag, vals, stopping, crashed, dropped>>
      /\ owed' = IF owed = 0 THEN 0 ELSE owed - 1
  BY DEF Handle
<1>3. has
  BY <1>0 DEF Queue
<1>7. /\ \A i \in 1..Len(posted') :
           posted'[i].type = "ask" => posted'[i].id = req' /\ posted'[i].n = want'
      /\ \A i \in 1..Len(posted') :
           posted'[i].type = "fin" => i = Len(posted') /\ thr' = "off"
  BY <1>1, <1>2 DEF Queue, AskAt
<1>8. \A i, j \in 1..Len(posted') :
        posted'[i].type = "ask" /\ posted'[j].type = "ask" => i = j
  <2> SUFFICES ASSUME NEW i \in 1..Len(posted'), NEW j \in 1..Len(posted'),
                      posted'[i].type = "ask", posted'[j].type = "ask"
               PROVE  i = j
    OBVIOUS
  <2>1. AskAt(i + 1) /\ AskAt(j + 1)
    BY <1>1 DEF AskAt
  <2>2. i + 1 = j + 1
    BY <1>1, <2>1 DEF Queue
  <2> QED BY <1>1, <2>2
<1>9. gst = "Idle" => thr' = "off" /\ owed' = Len(posted')
  BY <1>1, <1>2 DEF Queue, TypeOK
<1>4. CASE posted[1].type = "out"
  <2>1. /\ shown' = TRUE /\ has' = TRUE
        /\ UNCHANGED <<mode, open, asked, formats, got, gst, from>>
    BY <1>1, <1>4 DEF Handle
  <2>2. Asking' <=> Asking
    BY <1>1, <1>4 DEF Asking, AskAt
  <2>3. TypeOK'
    <3>1. Numbers'
      BY <1>1, <1>2, <2>1, TypeParts DEF Numbers
    <3>2. Switches'
      BY <1>1, <1>2, <2>1, TypeParts DEF Switches
    <3> QED BY <3>1, <3>2, TypeParts
  <2>4. Queue'
    BY <1>7, <1>8, <1>9, <2>1 DEF Queue, AskAt
  <2>5. Requests' /\ Opened'
    BY <1>2, <2>1, <2>2 DEF Requests, Opened, Stopped
  <2>6. Underway => Underway'
    BY <1>1, <1>2, <1>4 DEF Underway
  <2>7. AnswerIsOwn' /\ WaitCanBeAnswered' /\ AstrayOnlyAfterStop'
    BY <1>2, <2>1, <2>6 DEF AnswerIsOwn, WaitCanBeAnswered, AstrayOnlyAfterStop
  <2> QED BY <2>3, <2>4, <2>5, <2>7
<1>5. CASE posted[1].type = "ask"
  <2>1. /\ formats' = posted[1].n /\ got' = 0 /\ asked' = posted[1].n
        /\ mode' = TRUE /\ open' = TRUE
        /\ from' = [from EXCEPT !.held = posted[1].id]
        /\ UNCHANGED <<has, shown, gst>>
    BY <1>1, <1>5 DEF Handle, Ask
  <2>2. posted[1].n = want /\ posted[1].id = req /\ AskAt(1) /\ Asking
    BY <1>1, <1>5 DEF Queue, AskAt, Asking
  <2>3. want # 0
    BY <1>1, <1>5, <2>2, BoundsAssumption DEF Event
  <2>4. ~Asking'
    BY <1>1, <2>2 DEF Queue, Asking, AskAt
  <2>5. from'.held = req /\ from'.answered = from.answered
    BY <2>1, <2>2 DEF TypeOK
  <2>6. TypeOK'
    <3>1. from' \in [{"held", "answered"} -> 0..MaxRequests]
      BY <2>1, <2>2 DEF TypeOK
    <3>2. owed' \in 0..Len(posted')
      BY <1>1, <1>2 DEF TypeOK
    <3>3. Numbers'
      BY <1>1, <1>2, <2>1, <2>2, <3>1, <3>2, BoundsAssumption, TypeParts DEF Numbers
    <3>4. Switches'
      BY <1>2, <2>1, TypeParts DEF Switches
    <3> QED BY <3>3, <3>4, TypeParts
  <2>7. Queue'
    BY <1>3, <1>7, <1>8, <1>9, <2>1 DEF Queue, AskAt
  <2>8. Requests'
    BY <1>2, <2>2, <2>4, <2>5 DEF Requests, TypeOK, Stopped
  <2>9. thr = "wait" => ~flag[asker]
    BY <2>2 DEF AnswerIsOwn, Requests, TypeOK
  <2>10. Opened'
    BY <1>2, <2>1, <2>2, <2>3, <2>5, <2>9 DEF Opened, Requests, Stopped, TypeOK
  <2>11. AnswerIsOwn' /\ WaitCanBeAnswered' /\ AstrayOnlyAfterStop'
    BY <1>2, <1>3, <2>1, <2>2, <2>5, <2>9
    DEF AnswerIsOwn, WaitCanBeAnswered, AstrayOnlyAfterStop, TypeOK
  <2> QED BY <2>6, <2>7, <2>8, <2>10, <2>11
<1>6. CASE posted[1].type = "fin"
  <2>1. /\ open' = FALSE /\ has' = TRUE /\ gst' = "Idle"
        /\ UNCHANGED <<mode, asked, formats, got, shown, from>>
    BY <1>1, <1>6 DEF Handle, EndSession
  <2>2. thr = "off" /\ Len(posted) = 1
    BY <1>1, <1>6 DEF Queue
  <2>3. ~Asking'
    BY <1>1, <2>2 DEF Asking
  <2>4. TypeOK'
    <3>1. Numbers'
      BY <1>1, <1>2, <2>1, <2>2, TypeParts DEF Numbers
    <3>2. Switches'
      BY <1>1, <1>2, <2>1, <2>2, TypeParts DEF Switches
    <3> QED BY <3>1, <3>2, TypeParts
  <2>5. Queue'
    BY <1>1, <1>2, <2>1, <2>2 DEF Queue, AskAt, TypeOK
  <2>6. Requests' /\ Opened'
    BY <1>2, <2>1, <2>2, <2>3 DEF Requests, Opened
  <2>7. AnswerIsOwn' /\ WaitCanBeAnswered' /\ AstrayOnlyAfterStop'
    BY <1>2, <2>1, <2>2
    DEF AnswerIsOwn, WaitCanBeAnswered, AstrayOnlyAfterStop, Opened, Stopped
  <2> QED BY <2>4, <2>5, <2>6, <2>7
<1> QED BY <1>1, <1>4, <1>5, <1>6 DEF Event

\* Without a new event the queue stays as it is.
LEMMA SamePosted ==
  ASSUME UNCHANGED posted
  PROVE  Asking' = Asking
BY DEF Asking, AskAt

LEMMA RunKeeps == DialogueInv /\ Run => DialogueInv'
<1> SUFFICES ASSUME DialogueInv, Run PROVE DialogueInv'
  OBVIOUS
<1> USE DEF DialogueInv, Run, UserEvent, functor
<1>1. Len(posted) = 0 /\ ~Asking /\ ~Asking'
  BY DEF Queue, Asking
<1>2. TypeOK'
  <2>1. Numbers'
    BY TypeParts DEF Numbers
  <2>2. Switches'
    BY TypeParts DEF Switches
  <2> QED BY <2>1, <2>2, TypeParts
<1>3. Queue'
  BY <1>1 DEF Queue
<1>4. Requests' /\ Opened'
  BY <1>1 DEF Requests, Opened
<1>5. AnswerIsOwn' /\ WaitCanBeAnswered' /\ AstrayOnlyAfterStop'
  BY DEF AnswerIsOwn, WaitCanBeAnswered, AstrayOnlyAfterStop, Opened, Stopped
<1> QED BY <1>2, <1>3, <1>4, <1>5

LEMMA StopKeeps == DialogueInv /\ Stop => DialogueInv'
<1> SUFFICES ASSUME DialogueInv, Stop PROVE DialogueInv'
  OBVIOUS
<1> USE DEF DialogueInv, Stop, EndSession, thread, functor, terminal
<1>1. Asking' = Asking
  BY SamePosted
<1>2. TypeOK'
  <2>1. Numbers'
    BY TypeParts DEF Numbers
  <2>2. Switches'
    BY TypeParts DEF Switches
  <2> QED BY <2>1, <2>2, TypeParts
<1>3. Queue'
  BY DEF Queue, AskAt, TypeOK
<1>4. Requests'
  BY <1>1 DEF Requests, Stopped
<1>5. Opened'
  BY DEF Opened, Stopped
<1>6. AnswerIsOwn' /\ WaitCanBeAnswered' /\ AstrayOnlyAfterStop'
  BY DEF AnswerIsOwn, WaitCanBeAnswered, AstrayOnlyAfterStop, Opened, Stopped
<1> QED BY <1>2, <1>3, <1>4, <1>5, <1>6

LEMMA ClearTerminalKeeps == DialogueInv /\ ClearTerminal => DialogueInv'
<1> SUFFICES ASSUME DialogueInv, ClearTerminal PROVE DialogueInv'
  OBVIOUS
<1> USE DEF DialogueInv, ClearTerminal, UserEvent, thread, functor
<1>1. Asking' = Asking /\ thr = "off" /\ posted = << >>
  BY SamePosted DEF Queue, TypeOK
<1>2. TypeOK'
  <2>1. Numbers'
    BY TypeParts DEF Numbers
  <2>2. Switches'
    BY TypeParts DEF Switches
  <2> QED BY <2>1, <2>2, TypeParts
<1>3. Queue'
  BY <1>1 DEF Queue, AskAt
<1>4. Requests' /\ Opened'
  BY <1>1 DEF Requests, Opened, Stopped
<1>5. AnswerIsOwn' /\ WaitCanBeAnswered' /\ AstrayOnlyAfterStop'
  BY <1>1 DEF AnswerIsOwn, WaitCanBeAnswered, AstrayOnlyAfterStop, Opened, Stopped
<1> QED BY <1>2, <1>3, <1>4, <1>5

LEMMA TypeKeeps == DialogueInv /\ Type => DialogueInv'
<1> SUFFICES ASSUME DialogueInv, Type PROVE DialogueInv'
  OBVIOUS
<1> USE DEF DialogueInv, Type, thread, functor
<1>1. Asking' = Asking
  BY SamePosted
<1>2. TypeOK'
  <2>1. Numbers'
    BY TypeParts DEF Numbers
  <2>2. Switches'
    BY TypeParts DEF Switches
  <2> QED BY <2>1, <2>2, TypeParts
<1>3. Queue'
  BY DEF Queue, AskAt, TypeOK
<1>4. Requests' /\ Opened'
  BY <1>1 DEF Requests, Opened, Stopped
<1>5. AnswerIsOwn' /\ WaitCanBeAnswered' /\ AstrayOnlyAfterStop'
  BY DEF AnswerIsOwn, WaitCanBeAnswered, Underway, AstrayOnlyAfterStop
<1> QED BY <1>2, <1>3, <1>4, <1>5

LEMMA EnterKeeps ==
  ASSUME DialogueInv, NEW k \in 1..MaxFields, Enter(k)
  PROVE  DialogueInv'
<1> USE DEF DialogueInv, Enter, InputDone, thread
<1>1. Asking' = Asking
  BY SamePosted
<1>2. /\ from.held = req /\ formats = want /\ asked = want - got /\ k \in 1..asked
      /\ got' = got + k /\ got' \in 1..want
      /\ (thr = "wait" /\ ~flag[asker]) \/ Stopped
  BY DEF Opened, TypeOK
<1>3. CASE got' < formats
  <2>1. /\ mode' = TRUE /\ open' = TRUE /\ asked' = want - got'
        /\ UNCHANGED <<flag, vals, from>>
    BY <1>2, <1>3 DEF functor
  <2>2. TypeOK'
    <3>1. asked' \in 0..MaxFields /\ got' \in 0..MaxFields
      <4>1. want \in 0..MaxFields
        BY DEF TypeOK
      <4> HIDE DEF Enter, InputDone, DialogueInv
      <4> QED BY <1>2, <2>1, <4>1, BoundsAssumption
    <3>2. Numbers'
      BY <2>1, <3>1, TypeParts DEF Numbers
    <3>3. Switches'
      BY <2>1, TypeParts DEF Switches
    <3> QED BY <3>2, <3>3, TypeParts
  <2>3. Queue'
    BY DEF Queue, AskAt, TypeOK
  <2>4. Requests' /\ Opened'
    BY <1>1, <1>2, <1>3, <2>1 DEF Requests, Opened, Stopped
  <2>5. AnswerIsOwn' /\ WaitCanBeAnswered' /\ AstrayOnlyAfterStop'
    BY <1>2, <2>1 DEF AnswerIsOwn, WaitCanBeAnswered, AstrayOnlyAfterStop
  <2> QED BY <2>2, <2>3, <2>4, <2>5
<1>4. CASE ~(got' < formats)
  <2>1. /\ mode' = FALSE /\ open' = FALSE /\ asked' = asked
        /\ flag' = [f \in Functors |-> TRUE] /\ vals' = [f \in Functors |-> got']
        /\ from' = [from EXCEPT !.answered = from.held]
    BY <1>4
  <2>2. got' = want
    BY <1>2, <1>4 DEF TypeOK
  <2>3. from'.held = req /\ from'.answered = req
    BY <1>2, <2>1 DEF TypeOK
  <2>4. TypeOK'
    <3>1. got' \in 0..MaxFields
      BY <2>2 DEF TypeOK
    <3>2. /\ flag' \in [Functors -> BOOLEAN] /\ vals' \in [Functors -> 0..MaxFields]
          /\ from' \in [{"held", "answered"} -> 0..MaxRequests]
      BY <1>2, <2>1, <3>1 DEF TypeOK
    <3>3. Numbers'
      BY <2>1, <3>1, <3>2, TypeParts DEF Numbers
    <3>4. Switches'
      BY <2>1, TypeParts DEF Switches
    <3> QED BY <3>3, <3>4, TypeParts
  <2>5. Queue'
    BY DEF Queue, AskAt, TypeOK
  <2>6. Requests'
    BY <1>1, <1>2, <2>3 DEF Requests, Stopped, TypeOK
  <2>7. Opened' /\ WaitCanBeAnswered' /\ AstrayOnlyAfterStop'
    BY <2>1 DEF Opened, WaitCanBeAnswered, AstrayOnlyAfterStop, TypeOK
  <2>8. AnswerIsOwn'
    BY <2>1, <2>2, <2>3 DEF AnswerIsOwn, TypeOK
  <2> QED BY <2>4, <2>5, <2>6, <2>7, <2>8
<1> QED BY <1>3, <1>4

LEMMA StutterKeeps ==
  ASSUME DialogueInv, EnterAstray \/ UNCHANGED vars
  PROVE  DialogueInv'
<1> USE DEF DialogueInv, EnterAstray, vars, thread, functor, terminal
<1>1. Asking' = Asking
  BY SamePosted
<1>2. TypeOK'
  <2>1. Numbers'
    BY TypeParts DEF Numbers
  <2>2. Switches'
    BY TypeParts DEF Switches
  <2> QED BY <2>1, <2>2, TypeParts
<1>3. Queue'
  BY DEF Queue, AskAt
<1>4. Requests' /\ Opened'
  BY <1>1 DEF Requests, Opened, Stopped
<1>5. AnswerIsOwn' /\ WaitCanBeAnswered' /\ AstrayOnlyAfterStop'
  BY DEF AnswerIsOwn, WaitCanBeAnswered, Underway, AstrayOnlyAfterStop
<1> QED BY <1>2, <1>3, <1>4, <1>5

-----------------------------------------------------------------------------
(* The theorems.                                                           *)

LEMMA StepKeeps == DialogueInv /\ [Next]_vars => DialogueInv'
<1> SUFFICES ASSUME DialogueInv, [Next]_vars PROVE DialogueInv'
  OBVIOUS
<1>1. CASE ThreadNext
  <2>1. "argument" \in Functors /\ "input" \in Functors /\ 1 \in 1..MaxFields
    BY BoundsAssumption DEF Functors
  <2> QED
    BY <1>1, <2>1, OutputKeeps, ClearingKeeps, RequestKeeps, AbandonKeeps, TakeKeeps,
       LeaveKeeps DEF ThreadNext
<1>2. CASE Handle
  BY <1>2, HandleKeeps
<1>3. CASE UserNext
  BY <1>3, RunKeeps, StopKeeps, ClearTerminalKeeps, TypeKeeps, EnterKeeps, StutterKeeps
  DEF UserNext
<1>4. CASE UNCHANGED vars
  BY <1>4, StutterKeeps
<1> QED BY <1>1, <1>2, <1>3, <1>4 DEF Next

LEMMA DialogueInductive == Spec => []DialogueInv
<1>1. Init => DialogueInv
  BY InitKeeps
<1>2. DialogueInv /\ [Next]_vars => DialogueInv'
  BY StepKeeps
<1> QED BY <1>1, <1>2, PTL DEF Spec

\* The functors, the terminal and the queue keep their shapes.
THEOREM TypeCorrect == Spec => []TypeOK
<1>1. DialogueInv => TypeOK
  BY DEF DialogueInv
<1> QED BY <1>1, DialogueInductive, PTL

\* A functor that finds its flag set (guirun.cpp) has the values of its own
\* request, all of them, whoever asked before and whatever was stopped.
THEOREM AnswersAreOwn == Spec => []AnswerIsOwn
<1>1. DialogueInv => AnswerIsOwn
  BY DEF DialogueInv
<1> QED BY <1>1, DialogueInductive, PTL

\* No answer is given while a functor clears its flag and values, which it does
\* without their mutex.
THEOREM ClearsAreUndisturbed == Spec => []ClearsUndisturbed
<1>1. DialogueInv => ClearsUndisturbed
  BY DEF DialogueInv, ClearsUndisturbed, Opened, Stopped
<1> QED BY <1>1, DialogueInductive, PTL

\* A request of a program that is not stopped is never lost between the queue,
\* the terminal and its last session.
THEOREM WaitsCanBeAnswered == Spec => []WaitCanBeAnswered
<1>1. DialogueInv => WaitCanBeAnswered
  BY DEF DialogueInv
<1> QED BY <1>1, DialogueInductive, PTL

\* The plane takes keys for a session without an input only after a stop that
\* ended the request the terminal holds (kumirprogram.cpp, terminal.cpp).
THEOREM KeysAstrayOnlyAfterStops == Spec => []AstrayOnlyAfterStop
<1>1. DialogueInv => AstrayOnlyAfterStop
  BY DEF DialogueInv
<1> QED BY <1>1, DialogueInductive, PTL

\* What a program showed is not erased after its end, by no key and no late event,
\* but in that case (terminal_onesession.cpp).
THEOREM OutputIsKept == Spec => OutputStays
<1> DEFINE Stays ==
  gst = "Idle" /\ gst' = "Idle" /\ shown /\ has' => shown' \/ from.held \in dropped
<1>1. DialogueInv /\ [Next]_vars => [Stays]_vars
  <2> SUFFICES ASSUME DialogueInv, Next,
                      gst = "Idle", gst' = "Idle", shown, has', ~shown'
               PROVE  from.held \in dropped
    BY DEF Stays
  <2>1. ~ThreadNext
    BY DEF ThreadNext, Output, Clear, Request, Abandon, Take, Leave, terminal
  <2>2. ~Handle
    BY DEF Handle, Ask, EndSession
  <2>3. Type
    BY <2>1, <2>2 DEF Next, UserNext, Run, Stop, ClearTerminal, Enter, EnterAstray, terminal
  <2> QED BY <2>3 DEF Type, DialogueInv, AstrayOnlyAfterStop
<1> QED BY <1>1, DialogueInductive, PTL DEF Spec, OutputStays, Stays

=============================================================================
