---------------------------- MODULE KumirSession ----------------------------
(***************************************************************************)
(* What the user is promised of a session with a program: the four states  *)
(* of the user guide (editing, running, pause, analysis) and when the      *)
(* program may be evaluated.  A program is suspended or ended only once    *)
(* evaluation has ceased, and is never evaluated while its text may be     *)
(* edited.                                                                 *)
(***************************************************************************)

VARIABLES
  mode,    \* the state of the session
  active   \* instructions of the program may be evaluated

TypeOK == mode \in {"Editing", "Running", "Pause", "Analysis"} /\ active \in BOOLEAN

Init == mode = "Editing" /\ active = FALSE

\* A run command, from any state but running.
Run == mode # "Running" /\ ~active /\ mode' = "Running" /\ UNCHANGED active

Activate == mode \in {"Running", "Pause"} /\ active' = TRUE /\ UNCHANGED mode

Cease == active' = FALSE /\ UNCHANGED mode

Suspend == mode = "Running" /\ ~active /\ mode' = "Pause" /\ UNCHANGED active

Finish ==
  /\ mode \in {"Running", "Pause"} /\ ~active
  /\ mode' = "Analysis" /\ UNCHANGED active

Edit == mode = "Analysis" /\ ~active /\ mode' = "Editing" /\ UNCHANGED active

Next == Run \/ Activate \/ Cease \/ Suspend \/ Finish \/ Edit

Spec == Init /\ [][Next]_<<mode, active>>
=============================================================================
