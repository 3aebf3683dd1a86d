----------------------------- MODULE EditorUndo -----------------------------
(***************************************************************************)
(* The text of an editor, the cursor and the undo stack: each command the  *)
(* user gives the text (textcursor.cpp) pushes commands on a QUndoStack    *)
(* whose redo and undo (editcommands.cpp) insert and remove text           *)
(* (textdocument.cpp).  A command does not keep the text it found: it is   *)
(* undone by working out the opposite change, so what undo restores hangs  *)
(* on every detail of the two document operations and of the merging of    *)
(* neighbouring commands.                                                  *)
(*                                                                         *)
(* A text is a sequence of lines, a line a sequence of characters; rows    *)
(* count from 1 and columns from 0.  The cursor is not kept: it moves      *)
(* freely, beyond the ends of the lines and of the text, so every command  *)
(* may be given at any place.  Indents are zero and no line is protected.  *)
(***************************************************************************)
EXTENDS Integers, Sequences, FiniteSets

CONSTANTS
  Chars,      \* the characters of a text
  FirstText,  \* the text the editor opens
  Typed,      \* the texts typed, pasted or dropped
  Blocks,     \* the rectangular blocks pasted
  Import,     \* the line that imports an actor
  MaxRow, MaxCol,  \* bound: the places the cursor is moved to
  Goals,      \* bound: the places, row and column, a selection is dragged to
  MaxEdits,   \* bound: the changes of the text
  Drops       \* whether something is dropped that the editor does not insert

Blank == " "
Bar == "|"
Line == Seq(Chars)
Text == Seq(Line)

ASSUME CharsAssumption == {Blank, Bar} \subseteq Chars
ASSUME TextsAssumption ==
  /\ FirstText \in Text /\ Import \in Line
  /\ Typed \subseteq Text \ {<<>>} /\ Blocks \subseteq Text \ {<<>>}
ASSUME BoundsAssumption == MaxRow \in Nat /\ MaxCol \in Nat /\ MaxEdits \in Nat
ASSUME GoalsAssumption == Goals \subseteq (Nat \ {0}) \X Nat

NewLine == << <<>>, <<>> >>

\* The bar starts comments; the other delimiters break words as the blank does.
Delimiters == {Blank, Bar}

VARIABLES
  doc,      \* the text in the editor
  stack,    \* the undo stack, each entry [macro, cmds]
  index,    \* the entries of the stack that are done, the others are undone
  clean,    \* the index at the last save, -1 if it is out of reach
  stuck,    \* a macro was begun and will never end
  texts,    \* the text after each entry and before the first
  saved,    \* the text in the file
  spoilt,   \* a command was used in a way its undo or redo does not cover
  edits     \* the changes of the text so far

vars == <<doc, stack, index, clean, stuck, texts, saved, spoilt, edits>>

Min2(a, b) == IF a < b THEN a ELSE b
Max2(a, b) == IF a < b THEN b ELSE a

Upto(line, n) == SubSeq(line, 1, Min2(n, Len(line)))
From(line, n) == SubSeq(line, n + 1, Len(line))
Without(line, p, n) == Upto(line, p) \o From(line, p + Max2(n, 0))
Fill(n) == [i \in 1 .. n |-> Blank]

\* The characters of the first lines of a text, the ends of lines too.
Offsets(t) ==
  LET upto[k \in 0 .. Len(t)] == IF k = 0 THEN 0 ELSE upto[k - 1] + Len(t[k]) + 1
  IN  upto
Size(t) == Offsets(t)[Len(t)] - 1
LineAt(d, r) == IF r \in DOMAIN d THEN d[r] ELSE <<>>

-----------------------------------------------------------------------------
(* The document *)

\* A text between the two parts of a line.
Glue(before, t, after) ==
  LET begun == [t EXCEPT ![1] = before \o @]
  IN  [begun EXCEPT ![Len(t)] = @ \o after]

\* insertText grows the text and the line up to the place of the new text; a
\* line break alone may stand one column past the end of its line.
InsertText(d, line, pos, t) ==
  LET blankLines == Max2(0, line - Len(d))
      grown == d \o [i \in 1 .. blankLines |-> <<>>]
      slack == IF t = NewLine THEN 1 ELSE 0
      blankChars == Max2(0, pos - Len(grown[line]) - slack)
      target == grown[line] \o Fill(blankChars)
      pieces == Glue(Upto(target, pos), t, From(target, pos))
  IN  [doc |-> Upto(grown, line - 1) \o pieces \o From(grown, line),
       blankLines |-> blankLines, blankChars |-> blankChars]

\* A round of the loop of removeText: s.count characters are to go from pos, an
\* end of line counts as one.  Past the end of the line the number to remove is
\* negative: nothing is removed and the rest to be removed grows.
CutRound(s, line, pos) ==
  IF s.count <= 0 \/ line > Len(s.doc) THEN s
  ELSE LET old == s.doc[line]
           n == Min2(s.count, Len(old) - pos)
           rest == s.count - n
           cut == [s.doc EXCEPT ![line] = Without(old, pos, n)]
           got == [s.removed EXCEPT ![Len(s.removed)] = @ \o SubSeq(old, pos + 1, pos + n)]
           joined == Upto(cut, line - 1) \o <<cut[line] \o cut[line + 1]>>
                       \o From(cut, line + 1)
       IN  IF rest <= 0 THEN [doc |-> cut, count |-> rest, removed |-> got]
           ELSE IF line < Len(cut)
           THEN [doc |-> joined, count |-> rest - 1, removed |-> Append(got, <<>>)]
           ELSE [doc |-> Upto(cut, line - 1), count |-> rest - 1, removed |-> got]

\* Every round but the last takes a line: as many rounds as lines are enough.
CutRounds(d, line, pos, count) ==
  LET round[k \in 0 .. Len(d)] ==
        IF k = 0 THEN [doc |-> d, count |-> count, removed |-> << <<>> >>]
        ELSE CutRound(round[k - 1], line, pos)
  IN  round
Cut(d, line, pos, count) == CutRounds(d, line, pos, count)[Len(d)]

\* As many characters go from the end of the line as it has blanks, up to n.
Trim(line, n) ==
  Upto(line, Len(line) - Min2(n, Cardinality({i \in DOMAIN line : line[i] = Blank})))

\* After the cut: the blanks and the lines that insertText added are taken back.
WithoutBlanks(c, line, blankLines, blankChars) ==
  LET trimmed == IF line > Len(c.doc) THEN c.doc
                 ELSE [c.doc EXCEPT ![line] = Trim(@, blankChars)]
  IN  [doc |-> Upto(trimmed, Max2(0, Len(trimmed) - blankLines)), removed |-> c.removed]

RemoveText(d, line, pos, blankLines, blankChars, count) ==
  IF d = <<>> THEN [doc |-> d, removed |-> << <<>> >>]
  ELSE WithoutBlanks(Cut(d, line, pos, count), line, blankLines, blankChars)

-----------------------------------------------------------------------------
(* The commands: redo works on the text and fills in the command *)

InsertCommand(line, pos, t) ==
  [type |-> "insert", line |-> line, pos |-> pos, text |-> t,
   blankLines |-> 0, blankChars |-> 0]

RemoveCommand(line, pos, count, keep) ==
  [type |-> "remove", line |-> line, pos |-> pos, count |-> count, keep |-> keep,
   removed |-> << <<>> >>]

RemoveBlockCommand(top, bottom, left, right) ==
  [type |-> "removeBlock", top |-> top, bottom |-> bottom, left |-> left, right |-> right,
   previous |-> <<>>]

InsertBlockCommand(row, col, block) ==
  [type |-> "insertBlock", row |-> row, col |-> col, block |-> block, previous |-> <<>>,
   added |-> 0]

InsertImportCommand == [type |-> "import", line |-> 0]

ToggleCommentCommand(from, to) ==
  [type |-> "comment", from |-> from, to |-> to, blanks |-> <<>>, commented |-> FALSE]

RedoInsert(c, d) ==
  LET i == InsertText(d, c.line, c.pos, c.text)
  IN  [cmd |-> [c EXCEPT !.blankLines = i.blankLines, !.blankChars = i.blankChars],
       doc |-> i.doc]

\* The text is left alone when the cursor is below it, in the given row.
RedoRemove(c, d, row) ==
  LET r == IF row <= Len(d) + 1 THEN RemoveText(d, c.line, c.pos, 0, 0, c.count)
           ELSE [doc |-> d, removed |-> << <<>> >>]
  IN  [cmd |-> [c EXCEPT !.removed = r.removed], doc |-> r.doc]

RedoRemoveBlock(c, d) ==
  LET last == Min2(c.bottom, Len(d))
  IN  [cmd |-> [c EXCEPT !.previous = SubSeq(d, c.top, last)],
       doc |-> [i \in DOMAIN d |->
                  IF i \in c.top .. last THEN Without(d[i], c.left, c.right - c.left + 1)
                  ELSE d[i]]]

\* A line of the block goes into each row, at its column.
RedoInsertBlock(c, d) ==
  LET last == c.row + Len(c.block) - 1
      added == Max2(0, last - Len(d))
      grown == d \o [i \in 1 .. added |-> <<>>]
      With(line, t) == Upto(line, c.col) \o Fill(Max2(0, c.col - Len(line))) \o t
                         \o From(line, c.col)
  IN  [cmd |-> [c EXCEPT !.previous = SubSeq(grown, c.row, last), !.added = added],
       doc |-> [i \in DOMAIN grown |->
                  IF i \in c.row .. last THEN With(grown[i], c.block[i - c.row + 1])
                  ELSE grown[i]]]

\* The bar a line starts with and the blanks after it.
Lead(line) ==
  CHOOSE n \in 1 .. Len(line) :
    (\A j \in 2 .. n : line[j] = Blank) /\ (n = Len(line) \/ line[n + 1] # Blank)

\* Lines that are all comments lose the bar and the blanks after it, otherwise
\* each line gets a bar and a blank.
RedoComment(c, d) ==
  LET rows == c.from .. c.to
      commented == \A i \in rows : d[i] # <<>> /\ d[i][1] = Bar
  IN  [cmd |-> [c EXCEPT !.commented = commented,
                         !.blanks = [i \in rows |-> IF commented THEN Lead(d[i]) ELSE 2]],
       doc |-> [i \in DOMAIN d |->
                  IF i \notin rows THEN d[i]
                  ELSE IF commented THEN From(d[i], Lead(d[i]))
                  ELSE <<Bar, Blank>> \o d[i]]]

\* The import goes before the first line that is not a comment.
RedoImport(c, d) ==
  LET Commented(i) == \E j \in DOMAIN d[i] :
                        d[i][j] = Bar /\ \A k \in 1 .. j - 1 : d[i][k] = Blank
      line == CHOOSE n \in 1 .. Len(d) + 1 :
                (\A i \in 1 .. n - 1 : Commented(i)) /\ (n = Len(d) + 1 \/ ~Commented(n))
  IN  [cmd |-> [c EXCEPT !.line = line],
       doc |-> Upto(d, line - 1) \o <<Import>> \o From(d, line - 1)]

RedoCommand(c, d, row) ==
  CASE c.type = "insert" -> RedoInsert(c, d)
    [] c.type = "remove" -> RedoRemove(c, d, row)
    [] c.type = "removeBlock" -> RedoRemoveBlock(c, d)
    [] c.type = "insertBlock" -> RedoInsertBlock(c, d)
    [] c.type = "comment" -> RedoComment(c, d)
    [] c.type = "import" -> RedoImport(c, d)

UndoInsertKeepsBlanks(c, d) == RemoveText(d, c.line, c.pos, 0, 0, Size(c.text)).doc

UndoInsert(c, d) ==
  RemoveText(d, c.line, c.pos, c.blankLines, c.blankChars, Size(c.text)).doc

UndoRemove(c, d) == InsertText(d, c.line, c.pos, c.removed).doc

UndoRemoveBlock(c, d) ==
  [i \in DOMAIN d |->
     IF i \in c.top .. Min2(c.bottom, Len(d)) THEN c.previous[i - c.top + 1] ELSE d[i]]

UndoInsertBlock(c, d) ==
  LET restored == [i \in DOMAIN d |->
        IF i \in c.row .. c.row + Len(c.block) - 1 THEN c.previous[i - c.row + 1] ELSE d[i]]
  IN  Upto(restored, Len(restored) - c.added)

UncommentLine(c, t, i) ==
  IF c.commented THEN InsertText(t, i, 0, << <<Bar>> \o Fill(c.blanks[i] - 1) >>).doc
  ELSE RemoveText(t, i, 0, 0, 0, 2).doc

UncommentLines(c, d) ==
  LET back[n \in 0 .. c.to - c.from + 1] ==
        IF n = 0 THEN d ELSE UncommentLine(c, back[n - 1], c.from + n - 1)
  IN  back
UndoComment(c, d) == UncommentLines(c, d)[c.to - c.from + 1]

UndoImport(c, d) == Upto(d, c.line - 1) \o From(d, c.line)

UndoCommand(c, d) ==
  CASE c.type = "insert" -> UndoInsert(c, d)
    [] c.type = "remove" -> UndoRemove(c, d)
    [] c.type = "removeBlock" -> UndoRemoveBlock(c, d)
    [] c.type = "insertBlock" -> UndoInsertBlock(c, d)
    [] c.type = "comment" -> UndoComment(c, d)
    [] c.type = "import" -> UndoImport(c, d)

-----------------------------------------------------------------------------
(* Merging: a new command may continue the one on the top of the stack *)

Word(t) == Len(t) = 1 /\ \A i \in DOMAIN t[1] : t[1][i] \notin Delimiters

InsertsAfter(c, o) == o.pos = c.pos + Size(c.text)
InsertsBefore(c, o) == ~InsertsAfter(c, o) /\ o.pos + Size(o.text) = c.pos

InsertMerges(c, o) ==
  /\ o.line = c.line
  /\ InsertsAfter(c, o) \/ InsertsBefore(c, o)
  /\ Word(c.text) /\ Word(o.text)

MergeInserts(c, o) ==
  IF InsertsAfter(c, o)
  THEN [c EXCEPT !.text = << @[1] \o o.text[1] >>]
  ELSE [c EXCEPT !.text = << o.text[1] \o @[1] >>, !.pos = o.pos,
                 !.blankLines = o.blankLines, !.blankChars = o.blankChars]

RemovesAfter(c, o) == c.pos + c.count = o.pos
RemovesBefore(c, o) == ~RemovesAfter(c, o) /\ o.pos + o.count = c.pos

RemoveMerges(c, o) ==
  /\ o.line = c.line /\ c.keep = o.keep
  /\ RemovesAfter(c, o) \/ RemovesBefore(c, o)
  /\ Word(c.removed) /\ Word(o.removed)

MergeRemoves(c, o) ==
  LET wider == [c EXCEPT !.count = @ + o.count]
  IN  IF RemovesAfter(c, o)
      THEN [wider EXCEPT !.removed = << @[1] \o o.removed[1] >>]
      ELSE [wider EXCEPT !.removed = << o.removed[1] \o @[1] >>, !.pos = o.pos]

CanMerge(c, o) ==
  /\ c.type = o.type
  /\ \/ c.type = "insert" /\ InsertMerges(c, o)
     \/ c.type = "remove" /\ RemoveMerges(c, o)

Merge(c, o) == IF c.type = "insert" THEN MergeInserts(c, o) ELSE MergeRemoves(c, o)

-----------------------------------------------------------------------------
(* What undo and redo do not cover *)

\* A line break typed past the end of its line; a removal that starts there, or
\* that takes the end of the last line and leaves a part of it; a removal with
\* the cursor below the text.
Uncovered(c, d, row) ==
  \/ c.type = "insert" /\ c.text = NewLine /\ c.pos > Len(LineAt(d, c.line))
  \/ /\ c.type = "remove"
     /\ \/ row > Len(d) + 1
        \/ c.pos > Len(LineAt(d, c.line))
        \/ c.pos > 0 /\ c.line > Len(RemoveText(d, c.line, c.pos, 0, 0, c.count).doc)

\* A merge of two pieces with other text between them.
Gap(c, o) == IF c.type = "insert" THEN InsertsBefore(c, o) ELSE RemovesAfter(c, o)

-----------------------------------------------------------------------------
(* The undo stack *)

\* The commands of an entry, one or the two of a macro, carried out one after the
\* other, as they are then on the stack, with the cursor in the given row.
Run(cmds, d, row) ==
  LET first == RedoCommand(cmds[1], d, row)
      bad == Uncovered(cmds[1], d, row)
      second == RedoCommand(cmds[2], first.doc, row)
  IN  IF Len(cmds) = 1 THEN [cmds |-> <<first.cmd>>, doc |-> first.doc, bad |-> bad]
      ELSE [cmds |-> <<first.cmd, second.cmd>>, doc |-> second.doc,
            bad |-> bad \/ Uncovered(cmds[2], first.doc, row)]

RunBack(cmds, d) ==
  IF Len(cmds) = 1 THEN UndoCommand(cmds[1], d)
  ELSE UndoCommand(cmds[1], UndoCommand(cmds[2], d))

Done == SubSeq(stack, 1, index)

ForgetUndoneKeepsClean == UNCHANGED clean

\* What is undone goes for good, the saved text too if it is there.
ForgetUndone == clean' = IF clean > index THEN -1 ELSE clean

MergeableSaved(c) == index > 0 /\ ~stack[index].macro /\ CanMerge(stack[index].cmds[1], c)

Mergeable(c) ==
  /\ index > 0 /\ clean # index
  /\ ~stack[index].macro /\ CanMerge(stack[index].cmds[1], c)

\* The command on the top takes in the new one.
Continue(r) ==
  LET top == stack[index].cmds[1]
  IN  /\ stack' = [Done EXCEPT ![index].cmds[1] = Merge(top, r.cmds[1])]
      /\ texts' = Append(SubSeq(texts, 1, index), r.doc)
      /\ spoilt' = (spoilt \/ r.bad \/ Gap(top, r.cmds[1]))
      /\ ForgetUndone
      /\ UNCHANGED index

\* A new entry of the stack.
Enter(r, macro) ==
  /\ stack' = Append(Done, [macro |-> macro, cmds |-> r.cmds])
  /\ texts' = Append(SubSeq(texts, 1, index + 1), r.doc)
  /\ spoilt' = (spoilt \/ r.bad)
  /\ ForgetUndone
  /\ index' = index + 1

\* QUndoStack::push of one command, or a macro of several, with the cursor in
\* the given row.  Within a macro that never ends the text alone changes.
Push(cmds, macro, row) ==
  /\ edits < MaxEdits /\ edits' = edits + 1
  /\ \E r \in {Run(cmds, doc, row)} :
       /\ doc' = r.doc
       /\ \/ /\ stuck
             /\ spoilt' = (spoilt \/ r.bad)
             /\ UNCHANGED <<stack, index, clean, texts>>
          \/ ~stuck /\ ~macro /\ Mergeable(r.cmds[1]) /\ Continue(r)
          \/ ~stuck /\ (macro \/ ~Mergeable(r.cmds[1])) /\ Enter(r, macro)
  /\ UNCHANGED <<stuck, saved>>

-----------------------------------------------------------------------------
(* What the user does, with the cursor at row r and column c *)

\* insertText: a key, a line break or a paste.
Type(r, c, t) == Push(<<InsertCommand(r, c, t)>>, FALSE, r)

\* The characters from a place to the end of the text, the ends of lines too.
Ahead(d, line, pos) == Size(SubSeq(d, line, Len(d))) - pos

\* The lengths of the selections that start at the cursor, an end of line
\* counts as one character.
Spans(r, c) == IF c <= Len(doc[r]) THEN 1 .. Ahead(doc, r, c) + 1 ELSE {}

\* With the cursor in the row the selection starts in.  (It may have been
\* selected from the other end, below the text even: see Uncovered.)
RemoveSelectedText(r, c, n) == Push(<<RemoveCommand(r, c, n, TRUE)>>, FALSE, r)

\* insertText over a selection is a macro.
TypeOver(r, c, n, t) ==
  Push(<<RemoveCommand(r, c, n, TRUE), InsertCommand(r, c, t)>>, TRUE, r)

\* The rectangular selection from the cursor to the corner at row b, column e.
RemoveSelectedBlock(r, c, b, e) == Push(<<RemoveBlockCommand(r, b, c, e)>>, FALSE, r)

\* insertText over a rectangular selection.
TypeOverBlock(r, c, b, e, t) ==
  Push(<<RemoveBlockCommand(r, b, c, e), InsertCommand(r, c, t)>>, TRUE, r)

PasteBlock(r, c, block) == Push(<<InsertBlockCommand(r, c, block)>>, FALSE, r)

\* removePreviousChar within a line, or at its start.
Backspace(r, c) ==
  \/ c \in 1 .. Len(doc[r]) /\ Push(<<RemoveCommand(r, c - 1, 1, FALSE)>>, FALSE, r)
  \/ c = 0 /\ r > 1 /\ Push(<<RemoveCommand(r - 1, Len(doc[r - 1]), 1, FALSE)>>, FALSE, r)

\* removeCurrentChar.
Delete(r, c) ==
  (c < Len(doc[r]) \/ r < Len(doc)) /\ Push(<<RemoveCommand(r, c, 1, TRUE)>>, FALSE, r)

\* removeCurrentLine.
RemoveLine(r) == Push(<<RemoveCommand(r, 0, Len(doc[r]) + 1, TRUE)>>, FALSE, r)

RemoveLineTail(r, c) ==
  c < Len(doc[r]) /\ Push(<<RemoveCommand(r, c, Len(doc[r]) - c, TRUE)>>, FALSE, r)

\* The lines of the selection, or the line of the cursor.
ToggleComment(from, to) == Push(<<ToggleCommentCommand(from, to)>>, FALSE, from)

\* insertImport: an actor used in the text is added to its imports.
InsertImport == Push(<<InsertImportCommand>>, FALSE, 1)

\* Text dragged in from elsewhere, and not into a selection.
DropText(r, c, t) == Push(<<InsertCommand(r, c, t)>>, TRUE, r)

\* selectedText: the end of the last line is not in it.
SelectedText(r, c, n) == RemoveText(doc, r, c, 0, 0, n).removed

\* A selection dragged to another place, which dropEvent works out for the text
\* after the removal: taken as any place.  Dragged blocks are left out.
MoveText(r, c, n, goal) ==
  Push(<<RemoveCommand(r, c, n, TRUE),
         InsertCommand(goal[1], goal[2], SelectedText(r, c, n))>>, TRUE, r)

\* A file dragged in, or a selection dropped onto itself: dropEvent begins a
\* macro and returns before it ends it.
DropAway ==
  /\ Drops /\ ~stuck
  /\ stuck' = TRUE
  /\ stack' = Done /\ texts' = SubSeq(texts, 1, index + 1)
  /\ ForgetUndone
  /\ UNCHANGED <<doc, index, saved, spoilt, edits>>

Undo ==
  /\ ~stuck /\ index > 0
  /\ doc' = RunBack(stack[index].cmds, doc)
  /\ index' = index - 1
  /\ UNCHANGED <<stack, clean, stuck, texts, saved, spoilt, edits>>

\* The cursor is in row r.
Redo(r) ==
  /\ ~stuck /\ index < Len(stack)
  /\ \E run \in {Run(stack[index + 1].cmds, doc, r)} :
         /\ doc' = run.doc
         /\ stack' = [stack EXCEPT ![index + 1].cmds = run.cmds]
         /\ spoilt' = (spoilt \/ run.bad)
  /\ index' = index + 1
  /\ UNCHANGED <<clean, stuck, texts, saved, edits>>

\* saveDocument does not look at the result of the write, here taken to succeed;
\* setClean does nothing within a macro.
Save ==
  /\ saved' = doc
  /\ clean' = IF stuck THEN clean ELSE index
  /\ UNCHANGED <<doc, stack, index, stuck, texts, spoilt, edits>>

Init ==
  /\ doc = FirstText
  /\ stack = <<>> /\ index = 0 /\ clean = 0 /\ stuck = FALSE
  /\ texts = <<FirstText>> /\ saved = FirstText
  /\ spoilt = FALSE /\ edits = 0

Rows == 1 .. MaxRow
Cols == 0 .. MaxCol

\* The commands that need the cursor on a line of the text.
OnLine(r, c) ==
  \/ Backspace(r, c) \/ Delete(r, c) \/ RemoveLineTail(r, c)
  \/ c = 0 /\ RemoveLine(r)
  \/ \E n \in Spans(r, c) : \/ RemoveSelectedText(r, c, n)
                          \/ \E t \in Typed : TypeOver(r, c, n, t)
                          \/ \E goal \in Goals : MoveText(r, c, n, goal)
  \/ \E b \in r + 1 .. Len(doc), e \in c .. MaxCol :
       RemoveSelectedBlock(r, c, b, e) \/ \E t \in Typed : TypeOverBlock(r, c, b, e, t)

Next ==
  \/ \E r \in Rows, c \in Cols :
       \/ \E t \in Typed : Type(r, c, t) \/ DropText(r, c, t)
       \/ \E block \in Blocks : PasteBlock(r, c, block)
       \/ r \in DOMAIN doc /\ OnLine(r, c)
  \/ \E from, to \in DOMAIN doc : from <= to /\ ToggleComment(from, to)
  \/ InsertImport \/ DropAway
  \/ Undo \/ (\E r \in Rows : Redo(r)) \/ Save

Spec == Init /\ [][Next]_vars

\* The user who keeps away from what undo and redo do not cover.
CarefulSpec == Init /\ [][Next /\ ~spoilt']_vars

-----------------------------------------------------------------------------
(* Properties *)

\* Shapes: the done entries are on the stack and a text is kept for each.
TypeOK ==
  /\ doc \in Text
  /\ index \in 0 .. Len(stack) /\ Len(texts) = Len(stack) + 1
  /\ clean \in -1 .. Len(stack)
  /\ stuck \in BOOLEAN /\ spoilt \in BOOLEAN /\ edits \in 0 .. MaxEdits

History == INSTANCE TextHistory WITH
  Texts <- Text,
  text <- doc,
  past <- SubSeq(texts, 1, index),
  future <- SubSeq(texts, index + 2, Len(texts)),
  savedAt <- clean,
  frozen <- stuck

\* For a careful user the commands of the editor keep a history of the text:
\* each undo restores exactly the text before the command or the commands
\* merged with it, each redo the text after it, wherever the cursor was moved
\* in between (InsertCommand and RemoveCommand and their merging, the block
\* and comment commands, the macros).
ImplementsHistory == History!HistorySpec

\* A text the editor does not call modified (isModified) is the one in the
\* file, whatever was undone, redone or merged since it was saved, provided the
\* write of the save succeeded.
CleanIsSaved == History!UnmodifiedIsSaved

\* What the user guide says of "undo": it takes back the last action that
\* changed the text.
UndoTakesBack == [][Undo => doc' = texts[index]]_vars

=============================================================================
