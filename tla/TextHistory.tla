----------------------------- MODULE TextHistory -----------------------------
(***************************************************************************)
(* What the user guide promises of the editor's menu: "undo" takes back    *)
(* the last action that changed the text, "redo" repeats what was taken    *)
(* back unless the text was changed since, and a text that is not marked   *)
(* as modified is the one saved.  Some edits continue the one before them  *)
(* and are taken back with it.                                             *)
(***************************************************************************)
EXTENDS Integers, Sequences

CONSTANT Texts

VARIABLES
  text,     \* the text in the editor
  past,     \* the texts undo goes back to, the oldest first
  future,   \* the texts redo goes on to, the next first
  savedAt,  \* the number of undoable edits at the last save, -1 if out of reach
  saved,    \* the text saved last
  frozen    \* edits are neither undone nor redone any more

history == <<text, past, future, savedAt, saved, frozen>>

Modified == frozen \/ savedAt # Len(past)

\* A change of the text drops what could be redone, the saved text too.
Change ==
  /\ text' \in Texts
  /\ future' = << >>
  /\ savedAt' = IF savedAt > Len(past) THEN -1 ELSE savedAt
  /\ UNCHANGED <<saved, frozen>>

Edit == ~frozen /\ Change /\ past' = Append(past, text)

\* An edit that continues the last one; the saved text is never continued.
Continue == Change /\ UNCHANGED past /\ (frozen \/ (past # << >> /\ Modified))

Undo ==
  /\ ~frozen /\ past # << >>
  /\ text' = past[Len(past)]
  /\ past' = SubSeq(past, 1, Len(past) - 1)
  /\ future' = <<text>> \o future
  /\ UNCHANGED <<savedAt, saved, frozen>>

Redo ==
  /\ ~frozen /\ future # << >>
  /\ text' = Head(future)
  /\ past' = Append(past, text)
  /\ future' = Tail(future)
  /\ UNCHANGED <<savedAt, saved, frozen>>

Save ==
  /\ saved' = text
  /\ savedAt' = IF frozen THEN savedAt ELSE Len(past)
  /\ UNCHANGED <<text, past, future, frozen>>

\* The history ends; what could be redone is dropped.
Freeze ==
  /\ frozen' = TRUE
  /\ future' = << >>
  /\ savedAt' = IF savedAt > Len(past) THEN -1 ELSE savedAt
  /\ UNCHANGED <<text, past, saved>>

HistoryInit ==
  /\ text \in Texts /\ saved = text
  /\ past = << >> /\ future = << >> /\ savedAt = 0 /\ frozen = FALSE

HistoryNext == Edit \/ Continue \/ Undo \/ Redo \/ Save \/ Freeze

HistorySpec == HistoryInit /\ [][HistoryNext]_history

\* A text that is not marked as modified is the one saved last.
UnmodifiedIsSaved == ~Modified => text = saved

=============================================================================
