------------------------------ MODULE MCStepping ------------------------------
(* Two users who step through a program: one steps over calls and also runs   *)
(* on to breakpoints and pauses, one steps over and into calls from the start. *)
EXTENDS MCRunControl

VARIABLE user

SteppingInit == Init /\ user \in {"over", "into"}

\* Giving a command sets cmd; running on and pausing are the first user's.
UserKeeps ==
  /\ user = "over" => cmd' # "into"
  /\ user = "into" => /\ gpc' \in {"reset", "arm"} => cmd' \in {"step", "into"}
                      /\ ~breakHit' /\ ~(Pause /\ Suspends(entry))

SteppingNext == Next /\ UserKeeps /\ UNCHANGED user

SteppingSpec == SteppingInit /\ [][SteppingNext]_<<vars, user>>

\* The step over a call stops in the algorithm it was given in or in a caller,
\* never in the callee (do_call, do_line), after breakpoints and pauses too.
StepsOverCalls == user = "over" => StepTreatsCallAsOneStep

\* Stepping from the start, the machine notices the lines of the stepped algorithm
\* and of every caller it returns to (do_ret, do_line); a line at the position of
\* the one before it is no new line to the debugger.
StepsLineByLine == user = "into" => StepStopsAtNextLine
=============================================================================
