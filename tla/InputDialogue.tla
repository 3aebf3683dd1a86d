---------------------------- MODULE InputDialogue ----------------------------
(***************************************************************************)
(* How a program asks and the user answers: the functors of the evaluating *)
(* thread (InputFunctor, GetMainArgumentFunctor), the terminal (Term), its *)
(* last session (OneSession) and its plane, which takes the keys.          *)
(*                                                                         *)
(* The thread posts requests and output to the GUI thread and polls a      *)
(* flag.  The GUI thread handles what was posted in order; an answer       *)
(* reaches both functors at once, by direct calls.  Values are counted,    *)
(* not read: a request is for a number of values, an answer gives some.    *)
(***************************************************************************)
EXTENDS Naturals, Sequences

CONSTANTS
  MaxFields,    \* the most values of one request
  MaxRequests,  \* bound: the requests made
  MaxPosted     \* bound: output is posted while so many events are queued

ASSUME BoundsAssumption ==
  /\ MaxFields \in Nat \ {0}
  /\ MaxRequests \in Nat
  /\ MaxPosted \in Nat \ {0}

Functors == {"input", "argument"}

VARIABLES
  thr,      \* the thread: off, evaluating, flags cleared, waiting
  asker,    \* the functor asking
  want,     \* the number of values it asks for
  req,      \* auxiliary: the number of the request
  flag,     \* finishedFlag_ of each functor
  vals,     \* inputValues_ of each functor, counted
  stopping, \* Run::stoppingFlag_
  gst,      \* the session: idle or running
  posted,   \* events posted to the GUI thread
  owed,     \* of these, those to be handled before the user's next event
  mode,     \* Plane::inputMode_
  open,     \* the last session's inputLineStart_ is a line
  asked,    \* the formats of the last session's request, counted
  formats,  \* Term::inputFormats_, counted
  got,      \* Term::inputValues_, counted
  has,      \* the terminal has a session
  shown,    \* the last session shows output
  crashed,  \* an answer was read before the first line
  dropped,  \* auxiliary: the requests a stop ended
  from      \* auxiliary: the requests the terminal held and answered last

thread == <<thr, asker, want, req>>
functor == <<flag, vals>>
terminal == <<mode, open, asked, formats, got, has, shown>>
vars == <<thread, functor, stopping, gst, posted, owed, terminal, crashed, from, dropped>>

Event == [type : {"out", "fin"}] \cup
         [type : {"ask"}, n : 1..MaxFields, id : 1..MaxRequests]

TypeOK ==
  /\ thr \in {"off", "eval", "clear", "wait"}
  /\ asker \in Functors
  /\ want \in 0..MaxFields /\ req \in 0..MaxRequests
  /\ flag \in [Functors -> BOOLEAN] /\ vals \in [Functors -> 0..MaxFields]
  /\ gst \in {"Idle", "Running"}
  /\ posted \in Seq(Event) /\ owed \in 0..Len(posted)
  /\ stopping \in BOOLEAN /\ crashed \in BOOLEAN
  /\ mode \in BOOLEAN /\ open \in BOOLEAN /\ has \in BOOLEAN /\ shown \in BOOLEAN
  /\ asked \in 0..MaxFields /\ formats \in 0..MaxFields /\ got \in 0..MaxFields
  /\ from \in [{"held", "answered"} -> 0..MaxRequests]
  /\ dropped \subseteq 1..MaxRequests

Init ==
  /\ thr = "off" /\ asker = "input" /\ want = 0 /\ req = 0
  /\ flag = [f \in Functors |-> FALSE] /\ vals = [f \in Functors |-> 0]
  /\ stopping = FALSE /\ gst = "Idle" /\ posted = << >> /\ owed = 0
  /\ mode = FALSE /\ open = FALSE /\ asked = 0 /\ formats = 0 /\ got = 0
  /\ has = FALSE /\ shown = FALSE /\ crashed = FALSE
  /\ from = [held |-> 0, answered |-> 0]
  /\ dropped = {}

-----------------------------------------------------------------------------
(* The evaluating thread.                                                  *)

Post(e) == posted' = Append(posted, e)

Output ==
  /\ thr = "eval" /\ ~stopping
  /\ Len(posted) < MaxPosted
  /\ Post([type |-> "out"])
  /\ UNCHANGED <<thread, functor, stopping, gst, owed, terminal, crashed, from, dropped>>

\* Mutant: the flag of the last request is kept.
ClearKeeps(f, n) ==
  /\ thr = "eval" /\ ~stopping /\ req < MaxRequests
  /\ thr' = "clear" /\ asker' = f /\ want' = n /\ req' = req + 1
  /\ UNCHANGED <<functor, stopping, gst, posted, owed, terminal, crashed, from, dropped>>

\* A functor clears its state, without the mutex that guards it.
Clear(f, n) ==
  /\ thr = "eval" /\ ~stopping /\ req < MaxRequests
  /\ thr' = "clear" /\ asker' = f /\ want' = n /\ req' = req + 1
  /\ flag' = [flag EXCEPT ![f] = FALSE] /\ vals' = [vals EXCEPT ![f] = 0]
  /\ UNCHANGED <<stopping, gst, posted, owed, terminal, crashed, from, dropped>>

Request ==
  /\ thr = "clear"
  /\ thr' = "wait"
  /\ Post([type |-> "ask", n |-> want, id |-> req])
  /\ UNCHANGED <<asker, want, req, functor, stopping, gst, owed, terminal, crashed,
                 from, dropped>>

\* The poll ends: mustStop is tested first, the flag afterwards.
Abandon ==
  /\ thr = "wait" /\ stopping
  /\ thr' = "eval"
  /\ dropped' = dropped \cup {req}
  /\ UNCHANGED <<asker, want, req, functor, stopping, gst, posted, owed, terminal,
                 crashed, from>>

\* Mutant: an answer ends the poll only together with a stop.
TakeStopped ==
  /\ thr = "wait" /\ flag[asker] /\ stopping
  /\ thr' = "eval"
  /\ UNCHANGED <<asker, want, req, functor, stopping, gst, posted, owed, terminal,
                 crashed, from, dropped>>

\* Mutant: the poll goes once round only.
TakeAnyway ==
  /\ thr = "wait" /\ ~stopping
  /\ thr' = "eval"
  /\ UNCHANGED <<asker, want, req, functor, stopping, gst, posted, owed, terminal,
                 crashed, from, dropped>>

Take ==
  /\ thr = "wait" /\ flag[asker] /\ ~stopping
  /\ thr' = "eval"
  /\ UNCHANGED <<asker, want, req, functor, stopping, gst, posted, owed, terminal,
                 crashed, from, dropped>>

\* The program is over, or must stop.
Leave ==
  /\ thr = "eval"
  /\ thr' = "off"
  /\ Post([type |-> "fin"])
  /\ UNCHANGED <<asker, want, req, functor, stopping, gst, owed, terminal, crashed,
                 from, dropped>>

ThreadNext ==
  \/ Output \/ Request \/ Abandon \/ Take \/ Leave
  \/ Clear("argument", 1)
  \/ \E n \in 1..MaxFields : Clear("input", n)

-----------------------------------------------------------------------------
(* Events posted to the GUI thread.                                        *)

\* The last session lets the cursor go.
EndSession == open' = FALSE /\ has' = TRUE
              /\ UNCHANGED <<mode, asked, formats, got, shown>>

\* Term::input and OneSession::input.
Ask(e) ==
  /\ formats' = e.n /\ got' = 0 /\ asked' = e.n
  /\ mode' = TRUE /\ open' = TRUE
  /\ UNCHANGED <<has, shown>>

Handle ==
  /\ posted # << >>
  /\ posted' = Tail(posted)
  /\ owed' = IF owed = 0 THEN 0 ELSE owed - 1
  /\ LET e == Head(posted) IN
     \/ /\ e.type = "out"
        /\ shown' = TRUE /\ has' = TRUE
        /\ UNCHANGED <<mode, open, asked, formats, got, gst, from>>
     \/ /\ e.type = "ask"
        /\ Ask(e)
        /\ from' = [from EXCEPT !.held = e.id]
        /\ UNCHANGED gst
     \/ /\ e.type = "fin"
        /\ EndSession
        /\ gst' = "Idle"
        /\ UNCHANGED from
  /\ UNCHANGED <<thread, functor, stopping, crashed, dropped>>

-----------------------------------------------------------------------------
(* The user.                                                               *)

\* Qt handles what was posted before one event of the user before the next.
UserEvent == owed = 0

\* A run starts a session of its own.
Run ==
  /\ UserEvent /\ gst = "Idle" /\ thr = "off"
  /\ gst' = "Running" /\ thr' = "eval" /\ stopping' = FALSE
  /\ has' = TRUE /\ open' = FALSE /\ shown' = FALSE
  /\ owed' = Len(posted)
  /\ UNCHANGED <<asker, want, req, functor, posted, mode, asked, formats, got, crashed,
                 from, dropped>>

\* Run::stop: the thread is told; when it is over the end is reported at once.
Stop ==
  /\ UserEvent /\ gst = "Running"
  /\ stopping' = TRUE
  /\ owed' = Len(posted)
  /\ IF thr = "off"
     THEN gst' = "Idle" /\ EndSession
     ELSE UNCHANGED <<gst, terminal>>
  /\ UNCHANGED <<thread, functor, posted, crashed, from, dropped>>

ClearTerminal ==
  /\ UserEvent /\ gst = "Idle" /\ has
  /\ has' = FALSE /\ open' = FALSE /\ shown' = FALSE
  /\ owed' = Len(posted)
  /\ UNCHANGED <<thread, functor, stopping, gst, posted, mode, asked, formats, got,
                 crashed, from, dropped>>

\* Plane::keyPressEvent and OneSession::changeInputText: what was typed replaces
\* the lines after the one the input began in, all of them if it began in none.
Type ==
  /\ UserEvent /\ mode /\ has
  /\ shown' = (shown /\ open)
  /\ owed' = Len(posted)
  /\ UNCHANGED <<thread, functor, stopping, gst, posted, mode, open, asked, formats, got,
                 has, crashed, from, dropped>>

\* Mutant: the plane goes on taking keys.
InputDoneStays(k) ==
  /\ got' = got + k /\ mode' = TRUE
  /\ IF got' < formats
     THEN open' = TRUE /\ asked' = formats - got' /\ UNCHANGED <<functor, from>>
     ELSE /\ open' = FALSE /\ UNCHANGED asked
          /\ flag' = [f \in Functors |-> TRUE] /\ vals' = [f \in Functors |-> got']
          /\ from' = [from EXCEPT !.answered = from.held]

\* Mutant: the rest is asked for with the plane out of input mode.
InputDoneLeaves(k) ==
  /\ got' = got + k /\ mode' = FALSE
  /\ IF got' < formats
     THEN open' = TRUE /\ asked' = formats - got' /\ UNCHANGED <<functor, from>>
     ELSE /\ open' = FALSE /\ UNCHANGED asked
          /\ flag' = [f \in Functors |-> TRUE] /\ vals' = [f \in Functors |-> got']
          /\ from' = [from EXCEPT !.answered = from.held]

\* Term::handleInputDone: the rest is asked for again, or all values go to
\* both functors.
InputDone(k) ==
  /\ got' = got + k
  /\ IF got' < formats
     THEN /\ mode' = TRUE /\ open' = TRUE /\ asked' = formats - got'
          /\ UNCHANGED <<functor, from>>
     ELSE /\ mode' = FALSE /\ open' = FALSE /\ UNCHANGED asked
          /\ flag' = [f \in Functors |-> TRUE] /\ vals' = [f \in Functors |-> got']
          /\ from' = [from EXCEPT !.answered = from.held]

\* Mutant: the answer to a rest may give as many values as the first one.
EnterAnew(k) ==
  /\ UserEvent /\ mode /\ has /\ open
  /\ k \in 1..formats
  /\ InputDone(k)
  /\ shown' = TRUE
  /\ owed' = Len(posted)
  /\ UNCHANGED <<thread, stopping, gst, posted, formats, has, crashed, dropped>>

\* OneSession::tryFinishInput: the text gives some of the values asked for, and
\* no more; otherwise the input goes on.
Enter(k) ==
  /\ UserEvent /\ mode /\ has /\ open
  /\ k \in 1..asked
  /\ InputDone(k)
  /\ shown' = TRUE
  /\ owed' = Len(posted)
  /\ UNCHANGED <<thread, stopping, gst, posted, formats, has, crashed, dropped>>

\* Without a line the input began in, the text is read from before the first
\* line: two counters of the list's header taken for a pointer.
EnterAstray ==
  /\ UserEvent /\ mode /\ has /\ ~open
  /\ crashed' = TRUE
  /\ UNCHANGED <<thread, functor, stopping, gst, posted, owed, terminal, from, dropped>>

UserNext ==
  \/ Run \/ Stop \/ ClearTerminal \/ Type \/ EnterAstray
  \/ \E k \in 1..MaxFields : Enter(k)

Next == ~crashed /\ (ThreadNext \/ Handle \/ UserNext)

\* The thread polls and the GUI handles its events; the user answers.
Fairness ==
  /\ WF_vars(~crashed /\ (Request \/ Abandon \/ Take))
  /\ WF_vars(~crashed /\ Handle)
  /\ WF_vars(~crashed /\ \E k \in 1..MaxFields : Enter(k))

Spec == Init /\ [][Next]_vars /\ Fairness

-----------------------------------------------------------------------------
(* Properties.                                                             *)

\* The request is on its way to the terminal.
Underway == \E i \in 1..Len(posted) : posted[i].type = "ask" /\ posted[i].id = req

\* A functor takes values only for its own request, as many as it asked for: not
\* those of an earlier request, of the other functor's, or of a stopped run.
AnswerIsOwn ==
  thr = "wait" /\ flag[asker] => from.answered = req /\ vals[asker] = want

\* No answer can come while a functor clears its state: it does so without the
\* mutex under which the GUI thread writes the values.
ClearsUndisturbed ==
  thr = "clear" \/ (thr = "eval" /\ ~stopping) => ~(mode /\ open)

\* A waiting program can be answered: its request is underway or shown, with
\* the values still missing, unless it is answered or stopped.
WaitCanBeAnswered ==
  thr = "wait" /\ ~flag[asker] /\ ~stopping
    => \/ Underway
       \/ from.held = req /\ mode /\ open /\ has /\ formats = want /\ asked = want - got

\* The keys go astray only after a stop while an answer was waited for: no
\* other order of events leaves the plane in input mode without an input.
AstrayOnlyAfterStop == mode /\ ~open => from.held \in dropped

\* A user who goes on answering is not asked for ever.
AnswersEndTheWait == thr = "wait" ~> (thr # "wait" \/ crashed)

\* All that the program showed stays on the terminal when it is over, unless it
\* was stopped while it waited for an answer: then the first key erases it.
OutputStays ==
  [][gst = "Idle" /\ gst' = "Idle" /\ shown /\ has' => shown' \/ from.held \in dropped]_vars

=============================================================================
