-------------------------- MODULE TextHistoryProofs --------------------------
(***************************************************************************)
(* A text that is not marked as modified is the one saved last, for every  *)
(* set of texts and every length of the history.  The invariant says where *)
(* the saved text is: among the texts to go back to, in the editor, or     *)
(* among the texts to go on to.                                            *)
(***************************************************************************)
EXTENDS TextHistory, TLAPS

Types ==
  /\ text \in Texts /\ saved \in Texts
  /\ past \in Seq(Texts) /\ future \in Seq(Texts)
  /\ savedAt \in Int /\ frozen \in BOOLEAN

InReach == savedAt \in -1 .. Len(past) + Len(future)

SavedBehind == savedAt \in 0 .. Len(past) - 1 => past[savedAt + 1] = saved
SavedHere == savedAt = Len(past) => text = saved
SavedAhead == savedAt > Len(past) => future[savedAt - Len(past)] = saved

SavedThere == ~frozen => InReach /\ SavedBehind /\ SavedHere /\ SavedAhead

IInv == Types /\ SavedThere

\* The shapes of the variables last.
LEMMA TypesStep == Types /\ HistoryNext => Types'
<1> SUFFICES ASSUME Types, HistoryNext PROVE Types'
  OBVIOUS
<1> USE DEF Types
<1>1. CASE Edit
  BY <1>1 DEF Edit, Change
<1>2. CASE Continue
  BY <1>2 DEF Continue, Change
<1>3. CASE Undo
  <2>1. Len(past) \in Nat /\ Len(past) >= 1 /\ past[Len(past)] \in Texts
    BY <1>3 DEF Undo
  <2>2. SubSeq(past, 1, Len(past) - 1) \in Seq(Texts)
    BY <2>1
  <2>3. <<text>> \o future \in Seq(Texts)
    OBVIOUS
  <2> QED BY <1>3, <2>1, <2>2, <2>3 DEF Undo
<1>4. CASE Redo
  BY <1>4 DEF Redo
<1>5. CASE Save
  BY <1>5 DEF Save
<1>6. CASE Freeze
  BY <1>6 DEF Freeze
<1> QED BY <1>1, <1>2, <1>3, <1>4, <1>5, <1>6 DEF HistoryNext

\* An edit puts the text behind, the saved one too if it is the one edited;
\* what lay ahead is out of reach.
LEMMA EditStep == IInv /\ Edit => SavedThere'
<1> SUFFICES ASSUME IInv, Edit, ~frozen'
             PROVE  (InReach /\ SavedBehind /\ SavedHere /\ SavedAhead)'
  BY DEF SavedThere
<1>1. /\ past \in Seq(Texts) /\ text \in Texts /\ savedAt \in Int
      /\ savedAt' = (IF savedAt > Len(past) THEN -1 ELSE savedAt)
      /\ ~frozen /\ InReach /\ SavedBehind /\ SavedHere
      /\ past' = Append(past, text) /\ future' = << >> /\ saved' = saved
  BY DEF IInv, Types, SavedThere, Edit, Change
<1>2. /\ Len(past') = Len(past) + 1 /\ Len(future') = 0
      /\ \A i \in 1 .. Len(past) : past'[i] = past[i]
      /\ past'[Len(past) + 1] = text
  BY <1>1
<1>3. CASE savedAt > Len(past)
  <2>1. savedAt' = -1
    BY <1>1, <1>3
  <2> QED BY <1>1, <1>2, <2>1 DEF InReach, SavedBehind, SavedHere, SavedAhead
<1>4. CASE savedAt <= Len(past)
  <2>1. savedAt' = savedAt /\ savedAt < Len(past')
    BY <1>1, <1>2, <1>4
  <2>2. InReach' /\ SavedHere' /\ SavedAhead'
    BY <1>1, <1>2, <2>1 DEF InReach, SavedHere, SavedAhead
  <2>3. SavedBehind'
    BY <1>1, <1>2, <1>4, <2>1 DEF SavedBehind, SavedHere, InReach
  <2> QED BY <2>2, <2>3
<1> QED BY <1>1, <1>3, <1>4

\* An edit is continued only if its text is not the saved one.
LEMMA ContinueStep == IInv /\ Continue => SavedThere'
<1> SUFFICES ASSUME IInv, Continue, ~frozen'
             PROVE  (InReach /\ SavedBehind /\ SavedHere /\ SavedAhead)'
  BY DEF SavedThere
<1> USE DEF IInv, Types, SavedThere, Continue, Change, Modified
<1>1. /\ ~frozen /\ InReach /\ SavedBehind /\ savedAt # Len(past)
      /\ past' = past /\ future' = << >> /\ saved' = saved
  OBVIOUS
<1>2. CASE savedAt > Len(past)
  BY <1>1, <1>2 DEF InReach, SavedBehind, SavedHere, SavedAhead
<1>3. CASE savedAt < Len(past)
  BY <1>1, <1>3 DEF InReach, SavedBehind, SavedHere, SavedAhead
<1> QED BY <1>1, <1>2, <1>3

\* Undo moves the last text behind into the editor and the text there ahead.
LEMMA UndoStep == IInv /\ Undo => SavedThere'
<1> SUFFICES ASSUME IInv, Undo, ~frozen'
             PROVE  (InReach /\ SavedBehind /\ SavedHere /\ SavedAhead)'
  BY DEF SavedThere
<1>1. /\ savedAt \in Int
      /\ InReach /\ SavedBehind /\ SavedHere /\ SavedAhead
      /\ text' = past[Len(past)] /\ savedAt' = savedAt /\ saved' = saved
  BY DEF IInv, Types, SavedThere, Undo
<1>2. Len(past) \in Nat /\ Len(future) \in Nat /\ Len(past) >= 1
  BY DEF IInv, Types, SavedThere, Undo
<1>3. /\ past \in Seq(Texts) /\ future \in Seq(Texts) /\ text \in Texts
      /\ past' = SubSeq(past, 1, Len(past) - 1) /\ future' = <<text>> \o future
  BY DEF IInv, Types, SavedThere, Undo
<1>4. /\ Len(past') = Len(past) - 1
      /\ \A i \in 1 .. Len(past) - 1 : past'[i] = past[i]
  BY <1>3, <1>2
<1>5. /\ Len(future') = Len(future) + 1 /\ future'[1] = text
      /\ \A i \in 1 .. Len(future) : future'[i + 1] = future[i]
  BY <1>3, <1>2
<1>6. InReach'
  BY <1>1, <1>2, <1>4, <1>5 DEF InReach
<1>7. SavedBehind' /\ SavedHere'
  BY <1>1, <1>2, <1>4 DEF SavedBehind, SavedHere
<1>8. SavedAhead'
  <2> SUFFICES ASSUME savedAt > Len(past) - 1
               PROVE  future'[savedAt - (Len(past) - 1)] = saved
    BY <1>1, <1>2, <1>4 DEF SavedAhead
  <2>1. CASE savedAt = Len(past)
    <3>1. savedAt - (Len(past) - 1) = 1
      BY <1>2, <2>1
    <3> QED BY <1>1, <1>5, <2>1, <3>1 DEF SavedHere
  <2>2. CASE savedAt > Len(past)
    <3>1. /\ savedAt - Len(past) \in 1 .. Len(future)
          /\ savedAt - (Len(past) - 1) = (savedAt - Len(past)) + 1
      BY <1>1, <1>2, <2>2 DEF InReach
    <3> QED BY <1>1, <1>5, <2>2, <3>1 DEF SavedAhead
  <2>3. savedAt = Len(past) \/ savedAt > Len(past)
    BY <1>1, <1>2
  <2> QED BY <2>1, <2>2, <2>3
<1> QED BY <1>6, <1>7, <1>8

\* Redo moves the first text ahead into the editor and the text there behind.
LEMMA RedoStep == IInv /\ Redo => SavedThere'
<1> SUFFICES ASSUME IInv, Redo, ~frozen'
             PROVE  (InReach /\ SavedBehind /\ SavedHere /\ SavedAhead)'
  BY DEF SavedThere
<1>1. /\ savedAt \in Int
      /\ InReach /\ SavedBehind /\ SavedHere /\ SavedAhead
      /\ text' = Head(future) /\ savedAt' = savedAt /\ saved' = saved
  BY DEF IInv, Types, SavedThere, Redo
<1>2. Len(past) \in Nat /\ Len(future) \in Nat /\ Len(future) >= 1
  BY DEF IInv, Types, SavedThere, Redo
<1>3. /\ past \in Seq(Texts) /\ future \in Seq(Texts) /\ text \in Texts
      /\ past' = Append(past, text) /\ future' = Tail(future)
  BY DEF IInv, Types, SavedThere, Redo
<1>4. /\ Len(past') = Len(past) + 1 /\ past'[Len(past) + 1] = text
      /\ \A i \in 1 .. Len(past) : past'[i] = past[i]
  BY <1>3, <1>2
<1>5. /\ Len(future') = Len(future) - 1 /\ Head(future) = future[1]
      /\ \A i \in 1 .. Len(future) - 1 : future'[i] = future[i + 1]
  BY <1>3, <1>2
<1>6. InReach'
  BY <1>1, <1>2, <1>4, <1>5 DEF InReach
<1>7. SavedBehind'
  BY <1>1, <1>2, <1>4 DEF SavedBehind, SavedHere
<1>8. SavedHere'
  BY <1>1, <1>2, <1>4, <1>5 DEF SavedHere, SavedAhead
<1>9. SavedAhead'
  <2> SUFFICES ASSUME savedAt > Len(past) + 1
               PROVE  future'[savedAt - (Len(past) + 1)] = saved
    BY <1>1, <1>2, <1>4 DEF SavedAhead
  <2>1. /\ savedAt - (Len(past) + 1) \in 1 .. Len(future) - 1
        /\ (savedAt - (Len(past) + 1)) + 1 = savedAt - Len(past)
    BY <1>1, <1>2 DEF InReach
  <2>2. future'[savedAt - (Len(past) + 1)] = future[savedAt - Len(past)]
    BY <1>5, <2>1
  <2>3. savedAt > Len(past)
    BY <1>1, <1>2
  <2> QED BY <1>1, <2>2, <2>3 DEF SavedAhead
<1> QED BY <1>6, <1>7, <1>8, <1>9

LEMMA SaveStep == IInv /\ Save => SavedThere'
  BY DEF IInv, Types, SavedThere, Save, InReach, SavedBehind, SavedHere, SavedAhead

LEMMA FreezeStep == IInv /\ Freeze => SavedThere'
  BY DEF SavedThere, Freeze

LEMMA HistoryInductive == IInv /\ [HistoryNext]_history => IInv'
<1>1. ASSUME IInv, HistoryNext PROVE IInv'
  BY <1>1, TypesStep, EditStep, ContinueStep, UndoStep, RedoStep, SaveStep, FreezeStep
  DEF HistoryNext, IInv
<1>2. ASSUME IInv, UNCHANGED history PROVE IInv'
  BY <1>2 DEF IInv, Types, SavedThere, InReach, SavedBehind, SavedHere, SavedAhead, history
<1> QED BY <1>1, <1>2

\* A text that is not marked as modified is the one saved last: for the menu of
\* the editor, once its commands implement this history.
THEOREM UnmodifiedTextIsSaved == HistorySpec => []UnmodifiedIsSaved
<1>1. HistoryInit => IInv
  <2> SUFFICES ASSUME HistoryInit PROVE IInv
    OBVIOUS
  <2>1. << >> \in Seq(Texts) /\ Len(<< >>) = 0
    OBVIOUS
  <2>2. Types /\ savedAt = 0 /\ text = saved
    <3>1. frozen \in BOOLEAN
      BY Zenon DEF HistoryInit
    <3>2. past \in Seq(Texts) /\ future \in Seq(Texts)
      BY <2>1 DEF HistoryInit
    <3>3. savedAt = 0 /\ text = saved /\ text \in Texts
      BY DEF HistoryInit
    <3> QED BY <3>1, <3>2, <3>3 DEF Types
  <2>3. Len(past) = 0 /\ Len(future) = 0
    BY <2>1 DEF HistoryInit
  <2>4. InReach /\ SavedBehind /\ SavedHere /\ SavedAhead
    BY <2>2, <2>3 DEF InReach, SavedBehind, SavedHere, SavedAhead
  <2> QED BY <2>2, <2>4 DEF IInv, SavedThere
<1>2. IInv => UnmodifiedIsSaved
  BY DEF IInv, Types, SavedThere, SavedHere, UnmodifiedIsSaved, Modified
<1> QED BY <1>1, <1>2, HistoryInductive, PTL DEF HistorySpec

=============================================================================
