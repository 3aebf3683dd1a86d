--------------------------- MODULE EditorUndoProofs --------------------------
(***************************************************************************)
(* The commands of the editor and its undo stack, for every text and       *)
(* alphabet and without a bound on the edits: every command that is        *)
(* covered is undone and redone exactly, commands that merge are one       *)
(* command, and the stack implements a history of texts.                   *)
(***************************************************************************)
EXTENDS EditorTextProofs

-----------------------------------------------------------------------------
(* The commands *)

\* The commands, field by field.
Insertion(line, pos, t, bl, bc) ==
  [type |-> "insert", line |-> line, pos |-> pos, text |-> t, blankLines |-> bl, blankChars |-> bc]
Removal(line, pos, count, keep, removed) ==
  [type |-> "remove", line |-> line, pos |-> pos, count |-> count, keep |-> keep,
   removed |-> removed]
BlockRemoval(top, bottom, left, right, previous) ==
  [type |-> "removeBlock", top |-> top, bottom |-> bottom, left |-> left, right |-> right,
   previous |-> previous]
BlockInsertion(row, col, block, previous, added) ==
  [type |-> "insertBlock", row |-> row, col |-> col, block |-> block, previous |-> previous,
   added |-> added]
Commenting(from, to, blanks, commented) ==
  [type |-> "comment", from |-> from, to |-> to, blanks |-> blanks, commented |-> commented]

\* What the fields of a command given to the text d are.
GivenInsertion(c) ==
  /\ c = Insertion(c.line, c.pos, c.text, c.blankLines, c.blankChars)
  /\ c.line \in Nat /\ c.line >= 1 /\ c.pos \in Nat /\ c.text \in Full
GivenRemoval(c, d) ==
  /\ c = Removal(c.line, c.pos, c.count, c.keep, c.removed)
  /\ c.line \in 1 .. Length(d) /\ c.pos \in Nat /\ c.count \in Nat /\ c.count >= 1
GivenBlockRemoval(c, d) ==
  /\ c = BlockRemoval(c.top, c.bottom, c.left, c.right, c.previous)
  /\ c.top \in 1 .. Length(d) /\ c.bottom \in c.top .. Length(d) /\ c.left \in Nat /\ c.right \in Nat
GivenBlockInsertion(c) ==
  /\ c = BlockInsertion(c.row, c.col, c.block, c.previous, c.added)
  /\ c.row \in Nat /\ c.row >= 1 /\ c.col \in Nat /\ c.block \in Full
GivenCommenting(c, d) ==
  /\ c = Commenting(c.from, c.to, c.blanks, c.commented)
  /\ c.from \in 1 .. Length(d) /\ c.to \in c.from .. Length(d)
GivenImporting(c) == c = Importing(c.line)

\* A command the user may give the text d.
Given(c, d) ==
  \/ c.type = "insert" /\ GivenInsertion(c)
  \/ c.type = "remove" /\ GivenRemoval(c, d)
  \/ c.type = "removeBlock" /\ GivenBlockRemoval(c, d)
  \/ c.type = "insertBlock" /\ GivenBlockInsertion(c)
  \/ c.type = "comment" /\ GivenCommenting(c, d)
  \/ c.type = "import" /\ GivenImporting(c)

\* What carrying out a command returns.
Result(c, d) == [cmd |-> c, doc |-> d]

\* c is as it stands on the undo stack: carried out on d it changes no more, and
\* leads to e.
Fixed(c, d, e) ==
  Given(c, d) /\ ~Uncovered(c, d, 1) /\ RedoCommand(c, d, 1) = Result(c, e) /\ e \in Text

\* Carrying out c on d gives c2 and e, and undoing c2 gives d back.
Becomes(c, d, c2, e) ==
  RedoCommand(c, d, 1) = Result(c2, e) /\ Fixed(c2, d, e) /\ UndoCommand(c2, e) = d

\* A text with a text inserted is a text.
LEMMA InsertedType ==
  ASSUME NEW a \in Text, NEW p \in Line, NEW t \in Full, NEW q \in Line, NEW b \in Text
  PROVE  Inserted(a, p, t, q, b) \in Text
<1>1. Glue(p, t, q) \in Text
  BY GlueType DEF Full
<1>2. Cat(Glue(p, t, q), b) \in Text
  BY <1>1, CatType, TextIsList
<1> QED BY <1>2, CatType, TextIsList DEF Inserted

\* InsertCommand: what redo inserts undo removes.
LEMMA InsertDone ==
  ASSUME NEW d \in Text, NEW c, c.type = "insert", GivenInsertion(c), ~Uncovered(c, d, 1)
  PROVE  \E c2, e : Becomes(c, d, c2, e)
<1> DEFINE line == c.line
           pos == c.pos
           t == c.text
<1>1. /\ c = Insertion(line, pos, t, c.blankLines, c.blankChars)
      /\ line \in Nat /\ line >= 1 /\ pos \in Nat /\ t \in Full
  BY DEF GivenInsertion
<1>2. PICK a \in Text, b \in Text, p \in Line, q \in Line, bl \in Nat, bc \in Nat :
           /\ Place(d, line, pos, a, LineAt(d, line), b, p, q, bl, bc)
           /\ InsertsAt(d, line, pos, a, b, p, q, bl, bc)
  <2> HIDE DEF line, pos
  <2> QED BY <1>1, PlaceOf
<1> DEFINE e == Inserted(a, p, t, q, b)
           c2 == Insertion(line, pos, t, bl, bc)
<1>3. t = NewLine => pos <= Length(LineAt(d, line))
  <2>1. ~(t = NewLine /\ pos > Length(LineAt(d, line)))
    BY DEF Uncovered, Length
  <2>2. Length(LineAt(d, line)) \in Nat
    <3>1. LineAt(d, line) \in Line
      BY <1>2 DEF Place
    <3> QED BY <3>1, LengthNat, TextIsList
  <2> QED BY <1>1, <2>1, <2>2
<1> HIDE DEF line, pos, t, e
<1>4. InsertText(d, line, pos, t) = [doc |-> e, blankLines |-> bl, blankChars |-> bc]
  BY <1>1, <1>2, <1>3 DEF InsertsAt, e
<1>5. \A x, y : RedoCommand(Insertion(line, pos, t, x, y), d, 1) = Result(c2, e)
  <2> SUFFICES ASSUME NEW x, NEW y
               PROVE  RedoCommand(Insertion(line, pos, t, x, y), d, 1) = Result(c2, e)
    OBVIOUS
  <2> DEFINE k == Insertion(line, pos, t, x, y)
  <2>0. k.type = "insert" /\ k.line = line /\ k.pos = pos /\ k.text = t
    BY DEF Insertion
  <2>1. [k EXCEPT !.blankLines = bl, !.blankChars = bc] = c2
    <3>1. [k EXCEPT !.blankLines = bl] = Insertion(line, pos, t, bl, y)
      BY DEF Insertion
    <3>2. [Insertion(line, pos, t, bl, y) EXCEPT !.blankChars = bc] = c2
      BY DEF Insertion
    <3> QED BY <3>1, <3>2
  <2> HIDE DEF k, c2
  <2>2. RedoCommand(k, d, 1) = RedoInsert(k, d)
    BY <2>0 DEF RedoCommand
  <2>3. RedoInsert(k, d) = Result(c2, e)
    BY <2>0, <2>1, <1>4 DEF RedoInsert, Result
  <2> QED BY <2>2, <2>3 DEF k
<1>6. RedoCommand(c, d, 1) = Result(c2, e) /\ RedoCommand(c2, d, 1) = Result(c2, e)
  BY <1>1, <1>5
<1>7. /\ c2.type = "insert" /\ c2.line = line /\ c2.pos = pos /\ c2.text = t
      /\ c2.blankLines = bl /\ c2.blankChars = bc
  BY DEF Insertion
<1>8. Given(c2, d)
  BY <1>1, <1>7 DEF Given, GivenInsertion
<1>9. ~Uncovered(c2, d, 1)
  BY <1>7 DEF Uncovered, line, pos, t
<1>10. e \in Text
  BY <1>1, <1>2, InsertedType DEF e
<1>11. UndoCommand(c2, e) = d
  <2> HIDE DEF c2
  <2>1. UndoCommand(c2, e) = UndoInsert(c2, e)
    BY <1>7 DEF UndoCommand
  <2>2. UndoInsert(c2, e) = RemoveText(e, line, pos, bl, bc, Size(t)).doc
    BY <1>7 DEF UndoInsert
  <2>3. RemoveText(e, line, pos, bl, bc, Size(t)) = [doc |-> d, removed |-> t]
    BY <1>1, <1>2, RemoveInserted DEF e
  <2> QED BY <2>1, <2>2, <2>3
<1> QED BY <1>6, <1>8, <1>9, <1>10, <1>11 DEF Becomes, Fixed

\* RemoveCommand: what redo removes undo inserts.
LEMMA RemoveDone ==
  ASSUME NEW d \in Text, NEW c, c.type = "remove", GivenRemoval(c, d), ~Uncovered(c, d, 1)
  PROVE  \E c2, e : Becomes(c, d, c2, e)
<1> DEFINE line == c.line
           pos == c.pos
           k == c.count
           s == Cut(d, line, pos, k)
           e == s.doc
           c2 == Removal(line, pos, k, c.keep, s.removed)
           a == Upto(d, line - 1)
           p == Upto(At(d, line), pos)
<1>1. /\ c = Removal(line, pos, k, c.keep, c.removed)
      /\ line \in 1 .. Length(d) /\ pos \in Nat /\ k \in Nat /\ k >= 1
  BY DEF GivenRemoval
<1>2. Length(d) \in Nat /\ Len(d) = Length(d)
  BY LengthNat, TextIsList DEF Length
<1>3. LineAt(d, line) = At(d, line) /\ At(d, line) \in Line
  BY <1>1, LinesOf DEF LineAt
<1>4. Length(At(d, line)) \in Nat
  BY <1>3, LengthNat, TextIsList
<1>5. pos \in 0 .. Length(At(d, line))
  <2>1. ~(pos > Length(At(d, line)))
    BY <1>3 DEF Uncovered, Length
  <2> QED BY <2>1, <1>1, <1>4
<1> HIDE DEF line, pos, k
<1>6. /\ a \in Text /\ p \in Line /\ Length(a) + 1 = line /\ Length(p) = pos
      /\ s \in Reached(a, p, d)
      /\ RemoveText(d, line, pos, 0, 0, k) = [doc |-> e, removed |-> s.removed]
  BY <1>1, <1>5, RemovePlain
<1>7. e \in Text /\ s.removed \in Full
  BY <1>6, StatesAre DEF Reached, Open, Gone
<1> HIDE DEF s, e, a, p
<1>8. pos > 0 => line <= Length(e)
  <2>1. ~(pos > 0 /\ line > Length(RemoveText(d, line, pos, 0, 0, k).doc))
    BY DEF Uncovered, Length, line, pos, k
  <2>2. Length(e) \in Nat
    BY <1>7, LengthNat, TextIsList
  <2> QED BY <2>1, <2>2, <1>1, <1>2, <1>6
<1>9. \A r : RedoCommand(Removal(line, pos, k, c.keep, r), d, 1) = Result(c2, e)
  <2> SUFFICES ASSUME NEW r
               PROVE  RedoCommand(Removal(line, pos, k, c.keep, r), d, 1) = Result(c2, e)
    OBVIOUS
  <2> DEFINE m == Removal(line, pos, k, c.keep, r)
  <2>1. /\ m.type = "remove" /\ m.line = line /\ m.pos = pos /\ m.count = k
        /\ [m EXCEPT !.removed = s.removed] = c2
    BY DEF Removal
  <2> HIDE DEF m, c2
  <2>2. RedoCommand(m, d, 1) = RedoRemove(m, d, 1)
    BY <2>1 DEF RedoCommand
  <2>3. 1 <= Len(d) + 1
    BY <1>2
  <2>4. RedoRemove(m, d, 1) = Result(c2, e)
    BY <2>1, <2>3, <1>6 DEF RedoRemove, Result
  <2> QED BY <2>2, <2>4 DEF m
<1>10. RedoCommand(c, d, 1) = Result(c2, e) /\ RedoCommand(c2, d, 1) = Result(c2, e)
  BY <1>1, <1>9
<1>11. /\ c2.type = "remove" /\ c2.line = line /\ c2.pos = pos /\ c2.count = k
       /\ c2.keep = c.keep /\ c2.removed = s.removed
  BY DEF Removal
<1>12. Given(c2, d)
  BY <1>1, <1>11 DEF Given, GivenRemoval
<1>13. ~Uncovered(c2, d, 1)
  <2> HIDE DEF c2
  <2> QED BY <1>11 DEF Uncovered, line, pos, k
<1>14. UndoCommand(c2, e) = d
  <2> HIDE DEF c2
  <2>1. UndoCommand(c2, e) = UndoRemove(c2, e)
    BY <1>11 DEF UndoCommand
  <2>2. UndoRemove(c2, e) = InsertText(e, line, pos, s.removed).doc
    BY <1>11 DEF UndoRemove
  <2>3. Length(p) > 0 => Length(a) + 1 <= Length(s.doc)
    BY <1>6, <1>8 DEF e
  <2>4. InsertText(s.doc, Length(a) + 1, Length(p), s.removed).doc = d
    BY <1>6, <2>3, InsertRemoved
  <2> QED BY <1>6, <2>1, <2>2, <2>4 DEF e
<1> QED BY <1>7, <1>10, <1>12, <1>13, <1>14 DEF Becomes, Fixed

\* RemoveBlockCommand.
LEMMA BlockRemovalDone ==
  ASSUME NEW d \in Text, NEW c, c.type = "removeBlock", GivenBlockRemoval(c, d)
  PROVE  \E c2, e : Becomes(c, d, c2, e)
<1> DEFINE top == c.top
           bottom == c.bottom
           left == c.left
           right == c.right
           e == RedoRemoveBlock(c, d).doc
           c2 == BlockRemoval(top, bottom, left, right, Stretch(d, top, bottom))
<1>1. /\ c = BlockRemoval(top, bottom, left, right, c.previous)
      /\ top \in 1 .. Length(d) /\ bottom \in top .. Length(d) /\ left \in Nat /\ right \in Nat
  BY DEF GivenBlockRemoval
<1>2. /\ c2.type = "removeBlock" /\ c2.top = top /\ c2.bottom = bottom /\ c2.left = left
      /\ c2.right = right /\ c2.previous = Stretch(d, top, bottom)
  BY DEF BlockRemoval
<1>3. Min2(bottom, Len(d)) = bottom
  <2>1. Length(d) \in Nat
    BY LengthNat, TextIsList
  <2> QED BY <1>1, <2>1 DEF Min2, Length
<1>4. ASSUME NEW x
      PROVE RedoCommand(BlockRemoval(top, bottom, left, right, x), d, 1) = Result(c2, e)
  <2> DEFINE k == BlockRemoval(top, bottom, left, right, x)
  <2>1. /\ k.type = "removeBlock" /\ k.top = top /\ k.bottom = bottom /\ k.left = left
        /\ k.right = right
    BY DEF BlockRemoval
  <2>2. [k EXCEPT !.previous = Stretch(d, top, bottom)] = c2
    BY DEF BlockRemoval
  <2> HIDE DEF k, c2
  <2>3. RedoCommand(k, d, 1) = RedoRemoveBlock(k, d)
    BY <2>1 DEF RedoCommand
  <2>4. RedoRemoveBlock(k, d) =
          [cmd |-> [k EXCEPT !.previous = SubSeq(d, k.top, Min2(k.bottom, Len(d)))],
           doc |-> RedoRemoveBlock(k, d).doc]
    BY DEF RedoRemoveBlock
  <2>5. RedoRemoveBlock(k, d).doc = e
    <3> HIDE DEF top, bottom, left, right
    <3>1. RedoRemoveBlock(k, d).doc =
            [i \in DOMAIN d |->
                  IF i \in k.top .. Min2(k.bottom, Len(d)) THEN Without(d[i], k.left, k.right - k.left + 1)
                  ELSE d[i]]
      BY DEF RedoRemoveBlock
    <3>2. RedoRemoveBlock(c, d).doc =
            [i \in DOMAIN d |->
                  IF i \in c.top .. Min2(c.bottom, Len(d)) THEN Without(d[i], c.left, c.right - c.left + 1)
                  ELSE d[i]]
      BY DEF RedoRemoveBlock
    <3>3. k.top = c.top /\ k.bottom = c.bottom /\ k.left = c.left /\ k.right = c.right
      BY <2>1 DEF top, bottom, left, right
    <3> QED BY <3>1, <3>2, <3>3, Zenon
  <2> HIDE DEF e, top, bottom
  <2>6. SubSeq(d, k.top, Min2(k.bottom, Len(d))) = Stretch(d, top, bottom)
    BY <2>1, <1>3 DEF Stretch
  <2> QED BY <2>2, <2>3, <2>4, <2>5, <2>6 DEF k, Result
<1>5. RedoCommand(c, d, 1) = Result(c2, e) /\ RedoCommand(c2, d, 1) = Result(c2, e)
  <2> HIDE DEF e, top, bottom, left, right
  <2> QED BY <1>1, <1>4
<1> HIDE DEF c2, e
<1>6. Given(c2, d)
  <2> HIDE DEF top, bottom, left, right
  <2>1. c2 = BlockRemoval(c2.top, c2.bottom, c2.left, c2.right, c2.previous)
    BY <1>2 DEF c2
  <2> QED BY <1>1, <1>2, <2>1 DEF Given, GivenBlockRemoval
<1>7. ~Uncovered(c2, d, 1)
  BY <1>2 DEF Uncovered
<1>8. e \in Text /\ UndoRemoveBlock(c2, e) = d
  BY <1>1, <1>2, BlockRemoved DEF e
<1>9. UndoCommand(c2, e) = UndoRemoveBlock(c2, e)
  BY <1>2 DEF UndoCommand
<1> QED BY <1>5, <1>6, <1>7, <1>8, <1>9 DEF Becomes, Fixed

\* InsertBlockCommand.
LEMMA BlockInsertionDone ==
  ASSUME NEW d \in Text, NEW c, c.type = "insertBlock", GivenBlockInsertion(c)
  PROVE  \E c2, e : Becomes(c, d, c2, e)
<1> DEFINE row == c.row
           col == c.col
           block == c.block
           last == row + Length(block) - 1
           added == Max2(0, last - Length(d))
           previous == Stretch(Cat(d, EmptyLines(added)), row, last)
           e == RedoInsertBlock(c, d).doc
           c2 == BlockInsertion(row, col, block, previous, added)
<1>1. /\ c = BlockInsertion(row, col, block, c.previous, c.added)
      /\ row \in Nat /\ row >= 1 /\ col \in Nat /\ block \in Full
  BY DEF GivenBlockInsertion
<1>2. /\ c2.type = "insertBlock" /\ c2.row = row /\ c2.col = col /\ c2.block = block
      /\ c2.previous = previous /\ c2.added = added
  <2> HIDE DEF previous, added
  <2> QED BY DEF BlockInsertion
<1>4. ASSUME NEW x, NEW y
      PROVE RedoCommand(BlockInsertion(row, col, block, x, y), d, 1) = Result(c2, e)
  <2> DEFINE k == BlockInsertion(row, col, block, x, y)
  <2>1. k.type = "insertBlock" /\ k.row = row /\ k.col = col /\ k.block = block
    BY DEF BlockInsertion
  <2>2. [k EXCEPT !.previous = previous, !.added = added] = c2
    <3> HIDE DEF previous, added
    <3>1. [k EXCEPT !.previous = previous] = BlockInsertion(row, col, block, previous, y)
      BY DEF BlockInsertion
    <3>2. [BlockInsertion(row, col, block, previous, y) EXCEPT !.added = added] = c2
      BY DEF BlockInsertion
    <3> QED BY <3>1, <3>2
  <2> HIDE DEF k, c2
  <2>3. RedoCommand(k, d, 1) = RedoInsertBlock(k, d)
    BY <2>1 DEF RedoCommand
  <2> DEFINE With(line, t) == Upto(line, col) \o Fill(Max2(0, col - Len(line))) \o t
                         \o From(line, col)
             grown == d \o [i \in 1 .. added |-> <<>>]
             doc2 == [i \in DOMAIN grown |->
                  IF i \in row .. last THEN With(grown[i], block[i - row + 1])
                  ELSE grown[i]]
  <2>4. RedoInsertBlock(k, d) = [cmd |-> [k EXCEPT !.previous = previous, !.added = added], doc |-> doc2]
    <3>1. RedoInsertBlock(k, d) =
            LET last2 == k.row + Len(k.block) - 1
                added2 == Max2(0, last2 - Len(d))
                grown2 == d \o [i \in 1 .. added2 |-> <<>>]
                With2(line, t) == Upto(line, k.col) \o Fill(Max2(0, k.col - Len(line))) \o t
                         \o From(line, k.col)
            IN  [cmd |-> [k EXCEPT !.previous = SubSeq(grown2, k.row, last2), !.added = added2],
                 doc |-> [i \in DOMAIN grown2 |->
                  IF i \in k.row .. last2 THEN With2(grown2[i], k.block[i - k.row + 1])
                  ELSE grown2[i]]]
      BY Zenon DEF RedoInsertBlock
    <3> QED BY <3>1, <2>1, Zenon DEF Stretch, Cat, EmptyLines, Length
  <2>5. RedoInsertBlock(c, d).doc = doc2
    <3>1. RedoInsertBlock(c, d) = [cmd |-> [c EXCEPT !.previous = previous, !.added = added], doc |-> doc2]
      BY Zenon DEF RedoInsertBlock, Stretch, Cat, EmptyLines, Length
    <3> HIDE DEF doc2, previous, added
    <3> QED BY <3>1
  <2> HIDE DEF doc2, previous, added
  <2> QED BY <2>2, <2>3, <2>4, <2>5 DEF k, Result
<1>5. RedoCommand(c, d, 1) = Result(c2, e) /\ RedoCommand(c2, d, 1) = Result(c2, e)
  <2> HIDE DEF e, row, col, block, previous, added
  <2> QED BY <1>1, <1>4
<1> HIDE DEF c2, e
<1>6. Given(c2, d)
  <2> HIDE DEF row, col, block, previous, added
  <2>1. c2 = BlockInsertion(c2.row, c2.col, c2.block, c2.previous, c2.added)
    BY <1>2 DEF c2
  <2> QED BY <1>1, <1>2, <2>1 DEF Given, GivenBlockInsertion
<1>7. ~Uncovered(c2, d, 1)
  <2> HIDE DEF row, col, block, previous, added
  <2> QED BY <1>2 DEF Uncovered
<1>8. e \in Text /\ UndoInsertBlock(c2, e) = d
  <2>1. \A l, a : l = last /\ a = added => previous = Stretch(Cat(d, EmptyLines(a)), row, l)
    OBVIOUS
  <2> HIDE DEF previous
  <2> QED BY <1>1, <1>2, <2>1, BlockInserted DEF e
<1>9. UndoCommand(c2, e) = UndoInsertBlock(c2, e)
  <2> HIDE DEF row, col, block, previous, added
  <2> QED BY <1>2 DEF UndoCommand
<1> QED BY <1>5, <1>6, <1>7, <1>8, <1>9 DEF Becomes, Fixed

\* ToggleCommentCommand.
LEMMA CommentDone ==
  ASSUME NEW d \in Text, NEW c, c.type = "comment", GivenCommenting(c, d)
  PROVE  \E c2, e : Becomes(c, d, c2, e)
<1> DEFINE from == c.from
           to == c.to
           commented == \A i \in from .. to : d[i] # <<>> /\ d[i][1] = Bar
           blanks == [i \in from .. to |-> IF commented THEN Lead(d[i]) ELSE 2]
           e == CommentedText(d, from, to, commented)
           c2 == Commenting(from, to, blanks, commented)
<1>1. /\ c = Commenting(from, to, c.blanks, c.commented)
      /\ from \in 1 .. Length(d) /\ to \in from .. Length(d)
  BY DEF GivenCommenting
<1>2. commented \in BOOLEAN
  BY Zenon
<1>3. ASSUME NEW x, NEW y
      PROVE  RedoCommand(Commenting(from, to, x, y), d, 1) = Result(c2, e)
  <2> DEFINE k == Commenting(from, to, x, y)
  <2>1. k.type = "comment" /\ k.from = from /\ k.to = to
    BY DEF Commenting
  <2>2. [k EXCEPT !.commented = commented, !.blanks = blanks] = c2
    <3> HIDE DEF commented, blanks
    <3>1. [k EXCEPT !.commented = commented] = Commenting(from, to, x, commented)
      BY DEF Commenting
    <3>2. [Commenting(from, to, x, commented) EXCEPT !.blanks = blanks] = c2
      BY DEF Commenting
    <3> QED BY <3>1, <3>2
  <2> HIDE DEF k, c2
  <2>3. RedoCommand(k, d, 1) = RedoComment(k, d)
    BY <2>1 DEF RedoCommand
  <2>4. RedoComment(k, d) = [cmd |-> [k EXCEPT !.commented = commented, !.blanks = blanks], doc |-> e]
    <3>1. RedoComment(k, d) =
            LET rows == k.from .. k.to
                commented2 == \A i \in rows : d[i] # <<>> /\ d[i][1] = Bar
            IN  [cmd |-> [k EXCEPT !.commented = commented2,
                                   !.blanks = [i \in rows |-> IF commented2 THEN Lead(d[i]) ELSE 2]],
                 doc |-> [i \in DOMAIN d |->
                  IF i \notin rows THEN d[i]
                  ELSE IF commented2 THEN From(d[i], Lead(d[i]))
                  ELSE <<Bar, Blank>> \o d[i]]]
      BY Zenon DEF RedoComment
    <3> QED BY <3>1, <2>1, Zenon DEF CommentedText
  <2> HIDE DEF e, commented, blanks
  <2> QED BY <2>2, <2>3, <2>4 DEF k, Result
<1>4. RedoCommand(c, d, 1) = Result(c2, e) /\ RedoCommand(c2, d, 1) = Result(c2, e)
  <2> HIDE DEF e, from, to, commented, blanks
  <2> QED BY <1>1, <1>3
<1>5. /\ c2.type = "comment" /\ c2.from = from /\ c2.to = to
      /\ c2.blanks = blanks /\ c2.commented = commented
  <2> HIDE DEF commented, blanks
  <2> QED BY DEF Commenting
<1>6. Given(c2, d)
  <2>1. c2 = Commenting(c2.from, c2.to, c2.blanks, c2.commented)
    <3> HIDE DEF commented, blanks, from, to
    <3> QED BY <1>5 DEF c2
  <2> HIDE DEF commented, blanks, from, to, c2
  <2> QED BY <1>1, <1>5, <2>1 DEF Given, GivenCommenting
<1>7. ~Uncovered(c2, d, 1)
  <2> HIDE DEF commented, blanks, from, to, c2
  <2> QED BY <1>5 DEF Uncovered
<1>8. \A i \in from .. to : d[i] = At(d, i) /\ At(d, i) \in Line
  BY <1>1, LinesOf
<1>9. commented => \A i \in from .. to : Length(At(d, i)) >= 1 /\ At(At(d, i), 1) = Bar
  <2> SUFFICES ASSUME commented, NEW i \in from .. to
               PROVE  Length(At(d, i)) >= 1 /\ At(At(d, i), 1) = Bar
    OBVIOUS
  <2>1. d[i] # <<>> /\ d[i][1] = Bar /\ d[i] = At(d, i) /\ At(d, i) \in Line
    BY <1>8
  <2>2. Length(At(d, i)) \in Nat /\ Length(At(d, i)) # 0
    BY <2>1, LengthNat, NilLength, TextIsList DEF Nil
  <2> QED BY <2>1, <2>2 DEF At
<1>10. commented => \A i \in from .. to : c2.blanks[i] = Lead(At(d, i))
  <2>1. commented => \A i \in from .. to : blanks[i] = Lead(d[i])
    OBVIOUS
  <2> HIDE DEF blanks, commented
  <2> QED BY <1>5, <1>8, <2>1
<1>11. e \in Text /\ UndoComment(c2, e) = d
  <2> HIDE DEF blanks, commented, c2, from, to
  <2> QED BY <1>1, <1>2, <1>5, <1>9, <1>10, CommentUndone
<1>12. UndoCommand(c2, e) = UndoComment(c2, e)
  <2> HIDE DEF commented, blanks, from, to, c2, e
  <2> QED BY <1>5 DEF UndoCommand
<1> HIDE DEF c2, e, from, to, commented, blanks
<1> QED BY <1>4, <1>6, <1>7, <1>11, <1>12 DEF Becomes, Fixed

\* InsertImportCommand.
LEMMA ImportDone ==
  ASSUME NEW d \in Text, NEW c, c.type = "import", GivenImporting(c)
  PROVE  \E c2, e : Becomes(c, d, c2, e)
<1>1. PICK n, e : e \in Text /\ ImportsAt(d, n, e) /\ UndoImport(Importing(n), e) = d
  BY ImportUndone
<1> DEFINE c2 == Importing(n)
<1>2. c2.type = "import" /\ c2 = Importing(c2.line)
  BY DEF Importing
<1>3. \A x : RedoImport(Importing(x), d) = Result(c2, e)
  BY <1>1, Zenon DEF ImportsAt, Result
<1>4. c = Importing(c.line)
  BY DEF GivenImporting
<1> HIDE DEF c2
<1>5. RedoImport(c, d) = Result(c2, e) /\ RedoImport(c2, d) = Result(c2, e)
  BY <1>2, <1>3, <1>4, Zenon
<1>6. /\ RedoCommand(c, d, 1) = RedoImport(c, d) /\ RedoCommand(c2, d, 1) = RedoImport(c2, d)
      /\ UndoCommand(c2, e) = UndoImport(c2, e)
  BY <1>2 DEF RedoCommand, UndoCommand
<1>7. Given(c2, d) /\ ~Uncovered(c2, d, 1)
  BY <1>2 DEF Given, GivenImporting, Uncovered
<1> QED BY <1>1, <1>5, <1>6, <1>7 DEF Becomes, Fixed, c2

\* Every command.
LEMMA CarriedOut ==
  ASSUME NEW d \in Text, NEW c, Given(c, d), ~Uncovered(c, d, 1)
  PROVE  \E c2, e : Becomes(c, d, c2, e)
  BY InsertDone, RemoveDone, BlockRemovalDone, BlockInsertionDone, CommentDone, ImportDone DEF Given

\* The fields of a result.
LEMMA ResultIs ==
  ASSUME NEW c, NEW d
  PROVE  Result(c, d).cmd = c /\ Result(c, d).doc = d
  BY DEF Result

\* The cursor matters to the removal alone, and not to one that is covered.
LEMMA AnyRow ==
  ASSUME NEW d \in Text, NEW c, Given(c, d), NEW row \in Int, ~Uncovered(c, d, row)
  PROVE  ~Uncovered(c, d, 1) /\ RedoCommand(c, d, row) = RedoCommand(c, d, 1)
<1>1. Len(d) \in Nat /\ ~(1 > Len(d) + 1) /\ 1 <= Len(d) + 1
  BY DEF Text
<1>2. CASE c.type = "remove"
  <2>1. ~(row > Len(d) + 1)
    BY <1>2 DEF Uncovered
  <2>2. row <= Len(d) + 1
    BY <2>1, <1>1
  <2> QED BY <1>1, <1>2, <2>2 DEF RedoCommand, RedoRemove, Uncovered
<1>3. CASE c.type # "remove"
  BY <1>3 DEF RedoCommand, Uncovered
<1> QED BY <1>2, <1>3

\* A command carried out is fixed.
LEMMA Redone ==
  ASSUME NEW d \in Text, NEW c, Given(c, d), NEW row \in Int, ~Uncovered(c, d, row)
  PROVE  LET r == RedoCommand(c, d, row)
         IN  r = Result(r.cmd, r.doc) /\ Fixed(r.cmd, d, r.doc)
<1>1. ~Uncovered(c, d, 1) /\ RedoCommand(c, d, row) = RedoCommand(c, d, 1)
  BY AnyRow
<1>2. PICK c2, e : Becomes(c, d, c2, e)
  BY <1>1, CarriedOut
<1> QED BY <1>1, <1>2, ResultIs DEF Becomes

\* A fixed command is undone.
LEMMA Undone ==
  ASSUME NEW d \in Text, NEW c, NEW e, Fixed(c, d, e)
  PROVE  UndoCommand(c, e) = d
<1>1. PICK c2, e2 : Becomes(c, d, c2, e2)
  BY CarriedOut DEF Fixed
<1>2. Result(c, e) = Result(c2, e2)
  BY <1>1 DEF Becomes, Fixed
<1>3. c = c2 /\ e = e2
  BY <1>2, ResultIs
<1> QED BY <1>1, <1>3 DEF Becomes

\* A fixed command carried out again, with the cursor anywhere.
LEMMA Again ==
  ASSUME NEW d \in Text, NEW c, NEW e, Fixed(c, d, e), NEW row \in Int, ~Uncovered(c, d, row)
  PROVE  RedoCommand(c, d, row).cmd = c /\ RedoCommand(c, d, row).doc = e
<1>1. RedoCommand(c, d, row) = Result(c, e)
  BY AnyRow DEF Fixed
<1> QED BY <1>1, ResultIs

\* Every command that is covered, given to any text with the cursor anywhere, is
\* undone exactly: redo and undo of InsertCommand, RemoveCommand and the others
\* (editcommands.cpp) are each other's opposite.
THEOREM CommandUndone ==
  ASSUME NEW d \in Text, NEW c, Given(c, d), NEW row \in Int, ~Uncovered(c, d, row)
  PROVE  LET r == RedoCommand(c, d, row) IN UndoCommand(r.cmd, r.doc) = d
  BY Redone, Undone

-----------------------------------------------------------------------------
(* Merging *)

\* An insertion keeps the lines and blanks it added.
LEMMA InsertRedo ==
  ASSUME NEW d, NEW line, NEW pos, NEW t, NEW x, NEW y,
         NEW i, i = InsertText(d, line, pos, t)
  PROVE  RedoCommand(Insertion(line, pos, t, x, y), d, 1)
           = Result(Insertion(line, pos, t, i.blankLines, i.blankChars), i.doc)
<1> DEFINE k == Insertion(line, pos, t, x, y)
           bl == i.blankLines
           bc == i.blankChars
           c2 == Insertion(line, pos, t, bl, bc)
<1>1. k.type = "insert" /\ k.line = line /\ k.pos = pos /\ k.text = t
  BY DEF Insertion
<1> HIDE DEF bl, bc
<1>2. [k EXCEPT !.blankLines = bl, !.blankChars = bc] = c2
  <2>1. [k EXCEPT !.blankLines = bl] = Insertion(line, pos, t, bl, y)
    BY DEF Insertion
  <2>2. [Insertion(line, pos, t, bl, y) EXCEPT !.blankChars = bc] = c2
    BY DEF Insertion
  <2> QED BY <2>1, <2>2
<1> HIDE DEF k, c2
<1>3. RedoCommand(k, d, 1) = RedoInsert(k, d)
  BY <1>1 DEF RedoCommand
<1>4. RedoInsert(k, d) = [cmd |-> [k EXCEPT !.blankLines = bl, !.blankChars = bc], doc |-> i.doc]
  BY <1>1 DEF RedoInsert, bl, bc
<1> QED BY <1>2, <1>3, <1>4, Zenon DEF k, c2, Result, bl, bc

\* A removal keeps what it removed.
LEMMA RemoveRedo ==
  ASSUME NEW d \in Text, NEW line, NEW pos, NEW k, NEW keep, NEW x,
         NEW r, r = RemoveText(d, line, pos, 0, 0, k)
  PROVE  RedoCommand(Removal(line, pos, k, keep, x), d, 1)
           = Result(Removal(line, pos, k, keep, r.removed), r.doc)
<1> DEFINE m == Removal(line, pos, k, keep, x)
           c2 == Removal(line, pos, k, keep, r.removed)
<1>1. m.type = "remove" /\ m.line = line /\ m.pos = pos /\ m.count = k
  BY DEF Removal
<1>2. [m EXCEPT !.removed = r.removed] = c2
  BY DEF Removal
<1> HIDE DEF m, c2
<1>3. RedoCommand(m, d, 1) = RedoRemove(m, d, 1)
  BY <1>1 DEF RedoCommand
<1>4. 1 <= Len(d) + 1
  BY DEF Text
<1>5. RedoRemove(m, d, 1) = [cmd |-> [m EXCEPT !.removed = r.removed], doc |-> r.doc]
  BY <1>1, <1>4 DEF RedoRemove
<1> QED BY <1>2, <1>3, <1>5 DEF m, c2, Result

\* A word is one line.
LEMMA WordIs ==
  ASSUME NEW t \in Full, Word(t)
  PROVE  t[1] \in Line /\ t = One(t[1])
<1>1. Length(t) = 1 /\ t \in Text /\ t[1] = At(t, 1)
  BY DEF Word, Full, Length, At
<1>2. At(t, 1) \in Line /\ From(t, 1) \in Text /\ Length(From(t, 1)) = Length(t) - 1
      /\ t = Cat(One(At(t, 1)), From(t, 1))
  BY First
<1>3. From(t, 1) = Nil
  BY <1>1, <1>2, NilLength, TextIsList
<1>4. One(At(t, 1)) \in Text
  BY <1>2, OneType, TextIsList
<1>5. Cat(One(At(t, 1)), Nil) = One(At(t, 1))
  BY <1>4, EmptyLine
<1> QED BY <1>1, <1>2, <1>3, <1>5

\* What is known of a fixed insertion.
LEMMA FixedInsertion ==
  ASSUME NEW d \in Text, NEW c, c.type = "insert", NEW e, Fixed(c, d, e),
         NEW i, i = InsertText(d, c.line, c.pos, c.text)
  PROVE  /\ GivenInsertion(c) /\ e = i.doc /\ e \in Text
         /\ c.blankLines = i.blankLines /\ c.blankChars = i.blankChars
         /\ c = Insertion(c.line, c.pos, c.text, i.blankLines, i.blankChars)
<1>1. GivenInsertion(c) /\ e \in Text /\ RedoCommand(c, d, 1) = Result(c, e)
  BY DEF Fixed, Given
<1>2. c = Insertion(c.line, c.pos, c.text, c.blankLines, c.blankChars)
  BY <1>1 DEF GivenInsertion
<1> DEFINE c2 == Insertion(c.line, c.pos, c.text, i.blankLines, i.blankChars)
<1>3. RedoCommand(c, d, 1) = Result(c2, i.doc)
  <2> HIDE DEF c2
  <2>1. RedoCommand(Insertion(c.line, c.pos, c.text, c.blankLines, c.blankChars), d, 1) = Result(c2, i.doc)
    BY InsertRedo DEF c2
  <2> QED BY <1>2, <2>1
<1>4. c = c2 /\ e = i.doc
  <2> HIDE DEF c2
  <2> QED BY <1>1, <1>3, ResultIs
<1>5. c2.blankLines = i.blankLines /\ c2.blankChars = i.blankChars
  BY DEF Insertion
<1> QED BY <1>1, <1>4, <1>5

\* What is known of a fixed removal.
LEMMA FixedRemoval ==
  ASSUME NEW d \in Text, NEW c, c.type = "remove", NEW e, Fixed(c, d, e),
         NEW r, r = RemoveText(d, c.line, c.pos, 0, 0, c.count)
  PROVE  /\ GivenRemoval(c, d) /\ e = r.doc /\ e \in Text /\ c.removed = r.removed
         /\ c = Removal(c.line, c.pos, c.count, c.keep, c.removed)
<1>1. GivenRemoval(c, d) /\ e \in Text /\ RedoCommand(c, d, 1) = Result(c, e)
  BY DEF Fixed, Given
<1>2. c = Removal(c.line, c.pos, c.count, c.keep, c.removed)
  BY <1>1 DEF GivenRemoval
<1> DEFINE c2 == Removal(c.line, c.pos, c.count, c.keep, r.removed)
<1>3. RedoCommand(c, d, 1) = Result(c2, r.doc)
  <2> HIDE DEF c2
  <2>1. RedoCommand(Removal(c.line, c.pos, c.count, c.keep, c.removed), d, 1) = Result(c2, r.doc)
    BY RemoveRedo DEF c2
  <2> QED BY <1>2, <2>1
<1>4. c = c2 /\ e = r.doc
  <2> HIDE DEF c2
  <2> QED BY <1>1, <1>3, ResultIs
<1>5. c2.removed = r.removed
  BY DEF Removal
<1> QED BY <1>1, <1>2, <1>4, <1>5

\* Two insertions, the second right after the first, are one.
LEMMA InsertionsMerge ==
  ASSUME NEW d \in Text, NEW c, NEW o, c.type = "insert", o.type = "insert", NEW e, NEW g,
         Fixed(c, d, e), Fixed(o, e, g), InsertMerges(c, o), InsertsAfter(c, o)
  PROVE  Fixed(MergeInserts(c, o), d, g)
<1> DEFINE line == c.line
           pos == c.pos
           x == c.text[1]
           y == o.text[1]
           xy == Cat(x, y)
           i == InsertText(d, line, pos, c.text)
           j == InsertText(e, o.line, o.pos, o.text)
           bl == i.blankLines
           bc == i.blankChars
           m == Insertion(line, pos, One(xy), bl, bc)
<1>1. /\ GivenInsertion(c) /\ e = i.doc /\ e \in Text
      /\ c.blankLines = bl /\ c.blankChars = bc /\ c = Insertion(line, pos, c.text, bl, bc)
  BY FixedInsertion
<1>2. GivenInsertion(o) /\ g = j.doc /\ g \in Text
  BY <1>1, FixedInsertion
<1>3. x \in Line /\ c.text = One(x) /\ y \in Line /\ o.text = One(y)
  BY <1>1, <1>2, WordIs DEF GivenInsertion, InsertMerges
<1>4. line \in Nat /\ line >= 1 /\ pos \in Nat /\ Length(x) \in Nat
  BY <1>1, <1>3, LengthNat, TextIsList DEF GivenInsertion
<1>5. o.line = line /\ o.pos = pos + Length(x)
  BY <1>3, SizeOne DEF InsertMerges, InsertsAfter
<1>6. MergeInserts(c, o) = [c EXCEPT !.text = One(Cat(c.text[1], o.text[1]))]
  BY Zenon DEF MergeInserts, One, Cat
<1> HIDE DEF x, y
<1>7. xy \in Line /\ One(xy) \in Full /\ One(x) \in Full /\ One(y) \in Full
  BY <1>3, CatType, OneFull, TextIsList
<1> HIDE DEF line, pos, i, j, bl, bc, xy
<1>8. MergeInserts(c, o) = m
  <2>1. [Insertion(line, pos, c.text, bl, bc) EXCEPT !.text = One(xy)] = m
    BY DEF Insertion
  <2> QED BY <1>1, <1>6, <2>1 DEF xy, x, y
<1>9. PICK a \in Text, b \in Text, p \in Line, q \in Line, bl1 \in Nat, bc1 \in Nat :
           /\ Place(d, line, pos, a, LineAt(d, line), b, p, q, bl1, bc1)
           /\ InsertsAt(d, line, pos, a, b, p, q, bl1, bc1)
  BY <1>4, PlaceOf
<1>10. Length(a) + 1 = line /\ Length(p) = pos
  BY <1>9 DEF Place
<1>11. \A z \in Line : One(z) # NewLine
  <2> SUFFICES ASSUME NEW z \in Line PROVE One(z) # NewLine
    OBVIOUS
  <2>1. Len(One(z)) = 1 /\ Len(NewLine) = 2
    BY DEF One, NewLine
  <2> QED BY <2>1
<1>12. \A z \in Line : InsertText(d, line, pos, One(z)) =
          [doc |-> Inserted(a, p, One(z), q, b), blankLines |-> bl1, blankChars |-> bc1]
  <2>1. \A z \in Line : One(z) \in Full
    BY OneFull
  <2> QED BY <2>1, <1>9, <1>11 DEF InsertsAt
<1>13. i = [doc |-> Inserted(a, p, One(x), q, b), blankLines |-> bl1, blankChars |-> bc1]
  BY <1>3, <1>12 DEF i
<1>14. e = Inserted(a, p, One(x), q, b) /\ bl = bl1 /\ bc = bc1
  BY <1>1, <1>13 DEF bl, bc
<1>15. e = Around(a, Cat(Cat(p, x), q), b)
  <2>1. Glue(p, One(x), q) = One(Cat(p, Cat(x, q)))
    BY <1>3, GlueOne
  <2>2. Cat(p, Cat(x, q)) = Cat(Cat(p, x), q)
    BY <1>3, CatAssociative, TextIsList
  <2> QED BY <1>14, <2>1, <2>2 DEF Inserted, Around
<1>16. Cat(p, x) \in Line /\ Length(Cat(p, x)) = o.pos
  <2>1. Cat(p, x) \in Line /\ Length(Cat(p, x)) = Length(p) + Length(x)
    BY <1>3, CatType, TextIsList
  <2> QED BY <2>1, <1>5, <1>10
<1>17. g = Around(a, Cat(Cat(p, x), Cat(y, q)), b)
  <2> DEFINE px == Cat(p, x)
  <2>1. InsertText(Around(a, Cat(px, q), b), Length(a) + 1, Length(px), One(y)).doc
           = Around(a, Cat(px, Cat(y, q)), b)
    <3>1. px \in Line /\ y \in Line
      BY <1>3, <1>16
    <3> HIDE DEF px
    <3> QED BY <3>1, InsertMiddle
  <2> QED BY <2>1, <1>2, <1>3, <1>5, <1>10, <1>15, <1>16 DEF j
<1>18. g = Inserted(a, p, One(xy), q, b)
  <2>1. Glue(p, One(xy), q) = One(Cat(p, Cat(xy, q)))
    BY <1>7, GlueOne
  <2>2. Cat(y, q) \in Line
    BY <1>3, CatType, TextIsList
  <2>3. Cat(Cat(p, x), Cat(y, q)) = Cat(p, Cat(x, Cat(y, q)))
    BY <1>3, <2>2, CatAssociative, TextIsList
  <2>4. Cat(xy, q) = Cat(x, Cat(y, q))
    BY <1>3, CatAssociative, TextIsList DEF xy
  <2> QED BY <1>17, <2>1, <2>3, <2>4 DEF Inserted, Around
<1>19. RedoCommand(m, d, 1) = Result(m, g)
  <2> DEFINE i2 == InsertText(d, line, pos, One(xy))
  <2>1. i2 = [doc |-> g, blankLines |-> bl, blankChars |-> bc]
    BY <1>7, <1>12, <1>14, <1>18
  <2> HIDE DEF i2
  <2>2. i2.doc = g /\ i2.blankLines = bl /\ i2.blankChars = bc
    BY <2>1
  <2>3. RedoCommand(Insertion(line, pos, One(xy), bl, bc), d, 1)
          = Result(Insertion(line, pos, One(xy), i2.blankLines, i2.blankChars), i2.doc)
    BY InsertRedo DEF i2
  <2> QED BY <2>2, <2>3
<1>20. /\ m.type = "insert" /\ m.line = line /\ m.pos = pos /\ m.text = One(xy)
       /\ m.blankLines = bl /\ m.blankChars = bc
  BY DEF Insertion
<1>21. Given(m, d)
  <2>1. m = Insertion(m.line, m.pos, m.text, m.blankLines, m.blankChars)
    BY <1>20
  <2> HIDE DEF m
  <2> QED BY <1>4, <1>7, <1>20, <2>1 DEF Given, GivenInsertion
<1>22. ~Uncovered(m, d, 1)
  <2> HIDE DEF m
  <2> QED BY <1>7, <1>11, <1>20 DEF Uncovered
<1> HIDE DEF m
<1> QED BY <1>2, <1>8, <1>19, <1>21, <1>22 DEF Fixed

\* A covered removal whose text is one line stays within its line.
LEMMA WordWithin ==
  ASSUME NEW d \in Text, NEW line \in 1 .. Length(d), NEW pos \in 0 .. Length(At(d, line)),
         NEW k \in Nat, k >= 1, NEW x, NEW e,
         RemoveText(d, line, pos, 0, 0, k) = [doc |-> e, removed |-> One(x)],
         line <= Length(e)
  PROVE  \E a \in Text, p \in Line, q \in Line, b \in Text :
           /\ Length(a) + 1 = line /\ Length(p) = pos /\ x \in Line /\ Length(x) = k
           /\ d = Around(a, Cat(p, Cat(x, q)), b) /\ e = Around(a, Cat(p, q), b)
<1> DEFINE l == At(d, line)
           a == Upto(d, line - 1)
           b == From(d, line)
           p == Upto(l, pos)
           y == From(l, pos)
           c == Cut(d, line, pos, k)
           q == From(y, k)
<1>1. l \in Line /\ b \in Text /\ k \in Int
  BY Split, TextIsList
<1>2. y \in Line /\ Length(y) = Length(l) - pos /\ Length(l) \in Nat
  BY <1>1, FromType, LengthNat, TextIsList
<1>3. /\ a \in Text /\ p \in Line /\ Length(a) + 1 = line /\ Length(p) = pos
      /\ d = CutLine(a, p, y, b)
      /\ RemoveText(d, line, pos, 0, 0, k) = [doc |-> c.doc, removed |-> c.removed]
  BY <1>1, RemovePlain
<1>4. c.doc = e /\ c.removed = One(x) /\ Length(One(x)) = 1 /\ Length(a) \in Nat
  <2>1. Length(One(x)) = 1
    BY DEF Length, One
  <2>2. Length(a) \in Nat
    BY <1>3, LengthNat, TextIsList
  <2> HIDE DEF c, a
  <2> QED BY <1>3, <2>1, <2>2
<1>5. k \in 1 .. Length(y)
  <2> SUFFICES ASSUME k > Length(y) PROVE FALSE
    BY <1>2
  <2>1. c = Cut(CutLine(a, p, y, b), Length(a) + 1, Length(p), k)
    BY <1>3
  <2> HIDE DEF a, p, y, b, c, l
  <2>2. c.doc = a \/ Length(c.removed) >= 2
    BY <1>1, <1>2, <1>3, <2>1, CutBeyond
  <2>3. Length(c.doc) = Length(e) /\ Length(c.removed) = 1
    BY <1>4
  <2>4. Length(e) = Length(a)
    BY <2>2, <2>3
  <2> QED BY <2>4, <1>3, <1>4
<1>6. RemoveText(d, line, pos, 0, 0, k) = [doc |-> CutLine(a, p, q, b), removed |-> One(Upto(y, k))]
  BY <1>2, <1>5, RemoveWithin
<1>7. k \in 0 .. Length(y)
  BY <1>2, <1>5
<1>8. /\ Upto(y, k) \in Line /\ Length(Upto(y, k)) = k /\ q \in Line
      /\ Cat(Upto(y, k), q) = y
  BY <1>2, <1>7, UptoType, FromType, UptoFrom, TextIsList
<1> HIDE DEF a, p, y, b, c, l, q
<1>9. e = CutLine(a, p, q, b) /\ One(x) = One(Upto(y, k))
  BY <1>6
<1>10. x = Upto(y, k)
  BY <1>9 DEF One
<1> QED BY <1>1, <1>3, <1>8, <1>9, <1>10 DEF CutLine

\* Two removals, the second right before the first, are one.
LEMMA RemovalsMerge ==
  ASSUME NEW d \in Text, NEW c, NEW o, c.type = "remove", o.type = "remove", NEW e, NEW g,
         Fixed(c, d, e), Fixed(o, e, g), RemoveMerges(c, o), RemovesBefore(c, o)
  PROVE  Fixed(MergeRemoves(c, o), d, g)
<1> DEFINE line == c.line
           pos == c.pos
           k == c.count
           pos2 == o.pos
           k2 == o.count
           keep == c.keep
           x == c.removed[1]
           y == o.removed[1]
           r == RemoveText(d, line, pos, 0, 0, k)
           r2 == RemoveText(e, o.line, pos2, 0, 0, k2)
<1>1. /\ GivenRemoval(c, d) /\ e = r.doc /\ e \in Text /\ c.removed = r.removed
      /\ c = Removal(line, pos, k, keep, c.removed)
  BY FixedRemoval
<1>2. GivenRemoval(o, e) /\ g = r2.doc /\ g \in Text /\ o.removed = r2.removed
  BY <1>1, FixedRemoval
<1>3. /\ line \in 1 .. Length(d) /\ pos \in Nat /\ k \in Nat /\ k >= 1
      /\ o.line \in 1 .. Length(e) /\ pos2 \in Nat /\ k2 \in Nat /\ k2 >= 1
  BY <1>1, <1>2 DEF GivenRemoval
<1>4. o.line = line /\ pos2 + k2 = pos /\ pos + k # pos2 /\ Word(c.removed) /\ Word(o.removed)
  BY DEF RemoveMerges, RemovesBefore, RemovesAfter
<1>5. Length(d) \in Nat /\ Length(e) \in Nat
  BY <1>1, LengthNat, TextIsList
<1>6. pos \in 0 .. Length(At(d, line)) /\ Length(At(d, line)) \in Nat
  <2>1. LineAt(d, line) = At(d, line) /\ At(d, line) \in Line
    BY <1>3, LinesOf DEF LineAt
  <2>2. ~(pos > Length(At(d, line)))
    BY <2>1 DEF Uncovered, Length, Fixed
  <2>3. Length(At(d, line)) \in Nat
    BY <2>1, LengthNat, TextIsList
  <2> QED BY <2>2, <2>3, <1>3
<1>7. line <= Length(e)
  BY <1>3, <1>4, <1>5
<1>8. r = [doc |-> r.doc, removed |-> r.removed] /\ r.removed \in Full
  <2> DEFINE s == Cut(d, line, pos, k)
  <2>1. /\ s \in Reached(Upto(d, line - 1), Upto(At(d, line), pos), d)
        /\ r = [doc |-> s.doc, removed |-> s.removed]
    <3> HIDE DEF line, pos, k
    <3> QED BY <1>3, <1>6, RemovePlain
  <2>2. s.removed \in Full
    BY <2>1, StatesAre DEF Reached, Open, Gone
  <2> HIDE DEF s, r
  <2> QED BY <2>1, <2>2
<1>9. x \in Line /\ c.removed = One(x)
  BY <1>1, <1>4, <1>8, WordIs
<1> HIDE DEF x, r
<1>10. r = [doc |-> e, removed |-> One(x)]
  BY <1>1, <1>8, <1>9
<1>11. PICK a \in Text, p \in Line, q \in Line, b \in Text :
           /\ Length(a) + 1 = line /\ Length(p) = pos /\ x \in Line /\ Length(x) = k
           /\ d = Around(a, Cat(p, Cat(x, q)), b) /\ e = Around(a, Cat(p, q), b)
  <2> HIDE DEF line, pos, k
  <2> QED BY <1>3, <1>6, <1>7, <1>10, WordWithin DEF r
<1> DEFINE u == Upto(p, pos2)
           v == From(p, pos2)
<1>12. u \in Line /\ Length(u) = pos2 /\ v \in Line /\ Length(v) = k2 /\ Cat(u, v) = p
  <2>1. pos2 \in 0 .. Length(p) /\ Length(p) - pos2 = k2
    BY <1>3, <1>4, <1>11
  <2> QED BY <2>1, UptoType, FromType, UptoFrom, TextIsList
<1> HIDE DEF u, v, pos2, k2, pos, k, line, y, r2
<1>13. e = Around(a, Cat(u, Cat(v, q)), b)
  <2>1. Cat(Cat(u, v), q) = Cat(u, Cat(v, q))
    BY <1>12, CatAssociative, TextIsList
  <2> QED BY <2>1, <1>11, <1>12
<1>14. r2 = [doc |-> Around(a, Cat(u, q), b), removed |-> One(v)]
  <2>1. RemoveText(Around(a, Cat(u, Cat(v, q)), b), Length(a) + 1, Length(u), 0, 0, Length(v))
           = [doc |-> Around(a, Cat(u, q), b), removed |-> One(v)]
    BY <1>3, <1>12, RemoveMiddle
  <2> QED BY <2>1, <1>4, <1>11, <1>12, <1>13 DEF r2
<1>15. g = Around(a, Cat(u, q), b) /\ o.removed = One(v)
  BY <1>2, <1>14
<1>16. y = v
  BY <1>15 DEF y, One
<1> DEFINE z == Cat(v, x)
           n == k + k2
           m == Removal(line, pos2, n, keep, One(z))
           t == RemoveText(d, line, pos2, 0, 0, n)
<1>17. z \in Line /\ Length(z) = n /\ n \in Nat /\ n >= 1
  <2>1. z \in Line /\ Length(z) = k2 + k
    BY <1>11, <1>12, CatType, TextIsList
  <2> QED BY <2>1, <1>3
<1>18. d = Around(a, Cat(u, Cat(z, q)), b)
  <2>1. Cat(x, q) \in Line
    BY <1>11, CatType, TextIsList
  <2>2. Cat(Cat(u, v), Cat(x, q)) = Cat(u, Cat(v, Cat(x, q)))
    BY <1>12, <2>1, CatAssociative, TextIsList
  <2>3. Cat(z, q) = Cat(v, Cat(x, q))
    BY <1>11, <1>12, CatAssociative, TextIsList
  <2> QED BY <2>2, <2>3, <1>11, <1>12
<1> HIDE DEF z, n
<1>19. t = [doc |-> g, removed |-> One(z)]
  <2>1. RemoveText(Around(a, Cat(u, Cat(z, q)), b), Length(a) + 1, Length(u), 0, 0, Length(z))
           = [doc |-> Around(a, Cat(u, q), b), removed |-> One(z)]
    BY <1>12, <1>17, RemoveMiddle
  <2> QED BY <2>1, <1>11, <1>12, <1>15, <1>17, <1>18
<1>20. t.doc = g /\ t.removed = One(z)
  <2> HIDE DEF t
  <2> QED BY <1>19
<1>21. RedoCommand(m, d, 1) = Result(m, g)
  <2>1. RedoCommand(Removal(line, pos2, n, keep, One(z)), d, 1)
          = Result(Removal(line, pos2, n, keep, t.removed), t.doc)
    BY RemoveRedo
  <2> HIDE DEF t
  <2> QED BY <1>20, <2>1
<1>22. MergeRemoves(c, o) = m
  <2> DEFINE wider == [c EXCEPT !.count = @ + o.count]
  <2>1. MergeRemoves(c, o) =
          [wider EXCEPT !.removed = One(Cat(o.removed[1], wider.removed[1])), !.pos = o.pos]
    BY Zenon DEF MergeRemoves, RemovesBefore, One, Cat
  <2>2. wider = Removal(line, pos, n, keep, c.removed)
    <3>1. [Removal(line, pos, k, keep, c.removed) EXCEPT !.count = @ + o.count]
            = Removal(line, pos, n, keep, c.removed)
      BY DEF Removal, n, k2
    <3> QED BY <3>1, <1>1
  <2> HIDE DEF wider
  <2>3. wider.removed = c.removed
    BY <2>2 DEF Removal
  <2>4. Cat(o.removed[1], wider.removed[1]) = z
    BY <1>16, <2>3 DEF z, x, y
  <2>5. [wider EXCEPT !.removed = One(z)] = Removal(line, pos, n, keep, One(z))
    BY <2>2 DEF Removal
  <2>6. [Removal(line, pos, n, keep, One(z)) EXCEPT !.pos = pos2] = m
    BY DEF Removal
  <2>7. [wider EXCEPT !.removed = One(z), !.pos = pos2] = m
    BY <2>5, <2>6
  <2> HIDE DEF m
  <2> QED BY <2>1, <2>4, <2>7 DEF pos2
<1>23. /\ m.type = "remove" /\ m.line = line /\ m.pos = pos2 /\ m.count = n
       /\ m.keep = keep /\ m.removed = One(z)
  BY DEF Removal
<1>24. Given(m, d)
  <2>1. m = Removal(m.line, m.pos, m.count, m.keep, m.removed)
    BY <1>23
  <2> HIDE DEF m
  <2> QED BY <1>3, <1>17, <1>23, <2>1 DEF Given, GivenRemoval
<1>25. ~Uncovered(m, d, 1)
  <2> HIDE DEF m
  <2>1. Len(d) \in Nat /\ ~(1 > Len(d) + 1)
    BY DEF Text
  <2>2. ~(pos2 > Len(LineAt(d, line)))
    <3>1. LineAt(d, line) = At(d, line)
      BY <1>3, LinesOf DEF LineAt
    <3>2. pos2 <= Length(At(d, line))
      BY <1>3, <1>4, <1>6
    <3> QED BY <3>1, <3>2, <1>3, <1>6 DEF Length
  <2>3. ~(line > Len(t.doc))
    <3>1. Cat(u, q) \in Line
      BY <1>12, CatType, TextIsList
    <3>2. Length(g) = Length(a) + 1 + Length(b) /\ Length(a) \in Nat /\ Length(b) \in Nat
      BY <1>15, <3>1, AroundType, LengthNat, TextIsList
    <3> HIDE DEF t
    <3> QED BY <3>2, <1>11, <1>20 DEF Length
  <2> QED BY <1>23, <2>1, <2>2, <2>3 DEF Uncovered
<1> HIDE DEF m
<1> QED BY <1>2, <1>21, <1>22, <1>24, <1>25 DEF Fixed

-----------------------------------------------------------------------------
(* The commands of an entry *)

\* Two commands that merge without a gap are one that leads from the text before
\* the first to the text after the second.
LEMMA Merged ==
  ASSUME NEW d \in Text, NEW c, NEW o, NEW e, NEW g,
         Fixed(c, d, e), Fixed(o, e, g), CanMerge(c, o), ~Gap(c, o)
  PROVE  Fixed(Merge(c, o), d, g)
<1>1. c.type = o.type
  BY DEF CanMerge
<1>2. CASE c.type = "insert"
  <2>1. InsertMerges(c, o) /\ InsertsAfter(c, o)
    BY <1>2 DEF CanMerge, Gap, InsertMerges
  <2>2. Fixed(MergeInserts(c, o), d, g)
    BY <1>1, <1>2, <2>1, InsertionsMerge
  <2> QED BY <1>2, <2>2 DEF Merge
<1>3. CASE c.type = "remove"
  <2>1. RemoveMerges(c, o) /\ RemovesBefore(c, o)
    BY <1>3 DEF CanMerge, Gap, RemoveMerges
  <2>2. Fixed(MergeRemoves(c, o), d, g)
    BY <1>1, <1>3, <2>1, RemovalsMerge
  <2> QED BY <1>3, <2>2 DEF Merge
<1> QED BY <1>2, <1>3 DEF CanMerge

\* Two commands that merge without a gap are undone and redone as one, whatever
\* the texts (mergeWith of InsertCommand and RemoveCommand).
THEOREM MergedUndone ==
  ASSUME NEW d \in Text, NEW c, NEW o, NEW e, NEW g,
         Fixed(c, d, e), Fixed(o, e, g), CanMerge(c, o), ~Gap(c, o)
  PROVE  /\ UndoCommand(Merge(c, o), g) = d
         /\ RedoCommand(Merge(c, o), d, 1).doc = g
<1>1. Fixed(Merge(c, o), d, g)
  BY Merged
<1> QED BY <1>1, Undone, ResultIs DEF Fixed

\* The commands of an entry lead from one text to another.
Carries(cmds, d, e) ==
  \/ cmds = <<cmds[1]>> /\ Fixed(cmds[1], d, e)
  \/ /\ cmds = <<cmds[1], cmds[2]>>
     /\ LET m == RedoCommand(cmds[1], d, 1).doc
        IN  Fixed(cmds[1], d, m) /\ Fixed(cmds[2], m, e)

\* Commands the user may give a text: one, or an insertion after a removal.
GivenRun(cmds, d) ==
  \/ cmds = <<cmds[1]>> /\ Given(cmds[1], d)
  \/ /\ cmds = <<cmds[1], cmds[2]>> /\ Given(cmds[1], d)
     /\ cmds[2].type = "insert" /\ GivenInsertion(cmds[2])

\* Sequences of one and of two commands.
LEMMA Pairs ==
  ASSUME NEW x, NEW y
  PROVE  /\ Len(<<x>>) = 1 /\ <<x>>[1] = x
         /\ Len(<<x, y>>) = 2 /\ <<x, y>>[1] = x /\ <<x, y>>[2] = y
  OBVIOUS

\* What is known of a fixed command.
LEMMA FixedRedo ==
  ASSUME NEW d \in Text, NEW c, NEW e, Fixed(c, d, e)
  PROVE  RedoCommand(c, d, 1).doc = e /\ e \in Text /\ Given(c, d)
  BY ResultIs DEF Fixed

\* An entry of one command.
LEMMA RunOne ==
  ASSUME NEW c, NEW d, NEW row, NEW first, first = RedoCommand(c, d, row)
  PROVE  /\ Run(<<c>>, d, row).cmds = <<first.cmd>> /\ Run(<<c>>, d, row).doc = first.doc
         /\ Run(<<c>>, d, row).bad = Uncovered(c, d, row)
<1> DEFINE f == first.cmd
           g == first.doc
           u == Uncovered(c, d, row)
<1>1. Run(<<c>>, d, row) = [cmds |-> <<f>>, doc |-> g, bad |-> u]
  BY Pairs DEF Run
<1> HIDE DEF f, g, u
<1>2. Run(<<c>>, d, row).cmds = <<f>> /\ Run(<<c>>, d, row).doc = g /\ Run(<<c>>, d, row).bad = u
  BY <1>1
<1> QED BY <1>2 DEF f, g, u

\* A macro of two commands.
LEMMA RunTwo ==
  ASSUME NEW c, NEW o, NEW d, NEW row, NEW first, first = RedoCommand(c, d, row),
         NEW second, second = RedoCommand(o, first.doc, row)
  PROVE  /\ Run(<<c, o>>, d, row).cmds = <<first.cmd, second.cmd>>
         /\ Run(<<c, o>>, d, row).doc = second.doc
         /\ Run(<<c, o>>, d, row).bad = (Uncovered(c, d, row) \/ Uncovered(o, first.doc, row))
<1> DEFINE f == first.cmd
           s == second.cmd
           g == second.doc
           u == Uncovered(c, d, row) \/ Uncovered(o, first.doc, row)
<1>1. Len(<<c, o>>) # 1 /\ <<c, o>>[1] = c /\ <<c, o>>[2] = o
  BY Pairs
<1>2. Run(<<c, o>>, d, row) = [cmds |-> <<f, s>>, doc |-> g, bad |-> u]
  BY <1>1 DEF Run
<1> HIDE DEF f, s, g, u
<1>3. Run(<<c, o>>, d, row).cmds = <<f, s>> /\ Run(<<c, o>>, d, row).doc = g /\ Run(<<c, o>>, d, row).bad = u
  BY <1>2
<1> QED BY <1>3 DEF f, s, g, u

\* Commands carried out lead from the text before to the text after.
LEMMA RunDone ==
  ASSUME NEW d \in Text, NEW cmds, GivenRun(cmds, d), NEW row \in Int, ~Run(cmds, d, row).bad
  PROVE  LET r == Run(cmds, d, row)
         IN  Carries(r.cmds, d, r.doc) /\ r.doc \in Text /\ Len(r.cmds) = Len(cmds)
<1> DEFINE c == cmds[1]
           o == cmds[2]
           first == RedoCommand(c, d, row)
           second == RedoCommand(o, first.doc, row)
           r == Run(cmds, d, row)
<1>1. Given(c, d)
  BY DEF GivenRun
<1>2. CASE cmds = <<c>>
  <2>1. r.cmds = <<first.cmd>> /\ r.doc = first.doc /\ r.bad = Uncovered(c, d, row)
    <3> HIDE DEF c
    <3> QED BY <1>2, RunOne
  <2>2. ~Uncovered(c, d, row)
    BY <2>1
  <2> HIDE DEF r, c
  <2>3. Fixed(first.cmd, d, first.doc)
    BY <1>1, <2>2, Redone
  <2> DEFINE f == first.cmd
             g == first.doc
  <2> HIDE DEF f, g
  <2>4. r.cmds = <<f>> /\ r.doc = g /\ Fixed(f, d, g)
    BY <2>1, <2>3 DEF f, g
  <2>5. Carries(r.cmds, d, r.doc) /\ Len(r.cmds) = 1
    BY <2>4, Pairs DEF Carries
  <2>6. g \in Text /\ Len(cmds) = 1
    BY <1>2, <2>4, FixedRedo, Pairs
  <2> QED BY <2>4, <2>5, <2>6 DEF r
<1>3. CASE cmds = <<c, o>> /\ o.type = "insert" /\ GivenInsertion(o)
  <2>1. /\ r.cmds = <<first.cmd, second.cmd>> /\ r.doc = second.doc
        /\ r.bad = (Uncovered(c, d, row) \/ Uncovered(o, first.doc, row))
    <3> HIDE DEF c, o
    <3> QED BY <1>3, RunTwo
  <2>2. ~Uncovered(c, d, row) /\ ~Uncovered(o, first.doc, row)
    BY <2>1
  <2> HIDE DEF r, c, o
  <2>3. Fixed(first.cmd, d, first.doc)
    BY <1>1, <2>2, Redone
  <2>4. first.doc \in Text
    BY <2>3, FixedRedo
  <2>5. Given(o, first.doc)
    BY <1>3 DEF Given
  <2> DEFINE f == first.cmd
             m == first.doc
  <2> HIDE DEF m, f
  <2>6. Fixed(second.cmd, m, second.doc)
    BY <2>2, <2>4, <2>5, Redone DEF m
  <2> DEFINE s == second.cmd
             g == second.doc
  <2> HIDE DEF s, g
  <2>7. r.cmds = <<f, s>> /\ r.doc = g /\ Fixed(f, d, m) /\ Fixed(s, m, g) /\ m \in Text
    BY <2>1, <2>3, <2>4, <2>6 DEF f, g, m, s
  <2>8. RedoCommand(f, d, 1).doc = m /\ g \in Text
    BY <2>7, FixedRedo
  <2>9. Carries(r.cmds, d, r.doc) /\ Len(r.cmds) = 2
    BY <2>7, <2>8, Pairs DEF Carries
  <2>10. Len(cmds) = 2
    BY <1>3, Pairs
  <2> QED BY <2>7, <2>8, <2>9, <2>10 DEF r
<1> QED BY <1>2, <1>3 DEF GivenRun

\* Their undo leads back.
LEMMA RunUndone ==
  ASSUME NEW d \in Text, NEW cmds, NEW e, Carries(cmds, d, e)
  PROVE  RunBack(cmds, e) = d
<1> DEFINE c == cmds[1]
           o == cmds[2]
           m == RedoCommand(c, d, 1).doc
<1>1. CASE cmds = <<c>> /\ Fixed(c, d, e)
  <2>1. UndoCommand(c, e) = d /\ Len(cmds) = 1
    BY <1>1, Undone, Pairs
  <2> QED BY <2>1 DEF RunBack
<1>2. CASE cmds = <<c, o>> /\ Fixed(c, d, m) /\ Fixed(o, m, e)
  <2>1. m \in Text
    BY <1>2, FixedRedo
  <2>2. UndoCommand(o, e) = m /\ UndoCommand(c, m) = d
    <3> HIDE DEF m, c, o
    <3> QED BY <1>2, <2>1, Undone
  <2>3. Len(cmds) # 1
    <3> HIDE DEF c, o, m
    <3> QED BY <1>2, Pairs
  <2> QED BY <2>2, <2>3 DEF RunBack
<1> QED BY <1>1, <1>2 DEF Carries

\* Their redo leads to the same text again, and they stay the same.
LEMMA RunAgain ==
  ASSUME NEW d \in Text, NEW cmds, NEW e, Carries(cmds, d, e), NEW row \in Int,
         ~Run(cmds, d, row).bad
  PROVE  Run(cmds, d, row).cmds = cmds /\ Run(cmds, d, row).doc = e /\ e \in Text
<1> DEFINE c == cmds[1]
           o == cmds[2]
           m == RedoCommand(c, d, 1).doc
           first == RedoCommand(c, d, row)
           second == RedoCommand(o, first.doc, row)
           r == Run(cmds, d, row)
<1>1. CASE cmds = <<c>> /\ Fixed(c, d, e)
  <2>1. r.cmds = <<first.cmd>> /\ r.doc = first.doc /\ r.bad = Uncovered(c, d, row)
    <3> HIDE DEF c
    <3> QED BY <1>1, RunOne
  <2>2. ~Uncovered(c, d, row)
    BY <2>1
  <2>3. first.cmd = c /\ first.doc = e /\ e \in Text
    <3> HIDE DEF c
    <3> QED BY <1>1, <2>2, Again, FixedRedo
  <2> HIDE DEF r, first, c
  <2> QED BY <1>1, <2>1, <2>3 DEF r
<1>2. CASE cmds = <<c, o>> /\ Fixed(c, d, m) /\ Fixed(o, m, e)
  <2>1. /\ r.cmds = <<first.cmd, second.cmd>> /\ r.doc = second.doc
        /\ r.bad = (Uncovered(c, d, row) \/ Uncovered(o, first.doc, row))
    <3> HIDE DEF c, o, m
    <3> QED BY <1>2, RunTwo
  <2>2. ~Uncovered(c, d, row) /\ ~Uncovered(o, first.doc, row)
    BY <2>1
  <2>3. m \in Text
    BY <1>2, FixedRedo
  <2>4. first.cmd = c /\ first.doc = m
    <3> HIDE DEF m, c, o
    <3> QED BY <1>2, <2>2, Again
  <2>5. second.cmd = o /\ second.doc = e /\ e \in Text
    <3> HIDE DEF first, m, c, o
    <3> QED BY <1>2, <2>2, <2>3, <2>4, Again, FixedRedo
  <2> HIDE DEF r, first, second, c, o, m
  <2> QED BY <1>2, <2>1, <2>4, <2>5 DEF r
<1> QED BY <1>1, <1>2 DEF Carries

-----------------------------------------------------------------------------
(* The undo stack *)

\* An entry of the stack leads from one text to another.
Entry(en, d, e) ==
  /\ en = [macro |-> en.macro, cmds |-> en.cmds]
  /\ en.macro \in BOOLEAN /\ (~en.macro => Len(en.cmds) = 1)
  /\ Carries(en.cmds, d, e)

\* What a sequence holds.
Elements(s) == {s[i] : i \in DOMAIN s}

\* Each entry leads from the text before it to the text after it.
Chain(s, ts) == \A i \in 1 .. Length(s) : Entry(At(s, i), At(ts, i), At(ts, i + 1))

\* A text more than entries.
Shapes(s, ts, n) ==
  /\ s \in List(Elements(s)) /\ ts \in List(Text)
  /\ n \in 0 .. Length(s) /\ Length(ts) = Length(s) + 1

\* The stack leads through the texts.
Stacked(s, ts, n) == Shapes(s, ts, n) /\ Chain(s, ts)

\* The first n elements.
Part(s, n) == SubSeq(s, 1, n)

\* The first n elements and one more.
Pushed(s, n, x) == Append(SubSeq(s, 1, n), x)

\* They are the elements of the sequence.
LEMMA PartIs ==
  ASSUME NEW S, NEW s \in List(S), NEW n \in 0 .. Length(s)
  PROVE  /\ Part(s, n) \in List(S) /\ Length(Part(s, n)) = n
         /\ \A i \in 1 .. n : At(Part(s, n), i) = At(s, i)
<1>1. Part(s, n) = Upto(s, n)
  <2>1. n \in 0 .. Len(s) /\ Len(s) \in Nat
    BY LengthNat DEF Length
  <2>2. Min2(n, Len(s)) = n
    BY <2>1 DEF Min2
  <2> QED BY <2>2 DEF Upto, Part
<1> QED BY <1>1, UptoType, UptoAt

\* They and the new one are its elements.
LEMMA PushedIs ==
  ASSUME NEW S, NEW s \in List(S), NEW n \in 0 .. Length(s), NEW x \in S,
         NEW m, m = n + 1
  PROVE  /\ Pushed(s, n, x) \in List(S) /\ Length(Pushed(s, n, x)) = m
         /\ \A i \in 1 .. n : At(Pushed(s, n, x), i) = At(s, i)
         /\ At(Pushed(s, n, x), m) = x
<1> DEFINE p == Part(s, n)
           r == Pushed(s, n, x)
<1>1. p \in List(S) /\ Length(p) = n /\ \A i \in 1 .. n : At(p, i) = At(s, i)
  BY PartIs
<1>0. n \in Nat /\ Length(s) \in Nat
  BY LengthNat
<1>2. One(x) \in List(S) /\ Length(One(x)) = 1 /\ At(One(x), 1) = x
  BY OneType
<1> HIDE DEF p
<1>3. r = Cat(p, One(x))
  <2>1. p \in Seq(S)
    BY <1>1 DEF List
  <2>2. Append(p, x) = p \o <<x>>
    BY <2>1
  <2> QED BY <2>2, Zenon DEF p, Cat, One, Pushed, Part
<1> HIDE DEF r
<1>4. r \in List(S) /\ Length(r) = n + 1
  BY <1>1, <1>2, <1>3, CatType
<1>5. \A i \in 1 .. n : At(r, i) = At(s, i)
  <2> SUFFICES ASSUME NEW i \in 1 .. n PROVE At(r, i) = At(s, i)
    OBVIOUS
  <2>1. i \in 1 .. Length(p) /\ At(p, i) = At(s, i)
    BY <1>1
  <2> QED BY <2>1, <1>1, <1>2, <1>3, CatFirst
<1>6. At(r, n + 1) = x
  <2>1. 1 \in 1 .. Length(One(x))
    BY <1>2
  <2>2. At(Cat(p, One(x)), Length(p) + 1) = At(One(x), 1)
    BY <1>1, <1>2, <2>1, CatSecond
  <2> QED BY <2>2, <1>1, <1>2, <1>3
<1> QED BY <1>4, <1>5, <1>6 DEF r

\* A sequence of elements of a larger set.
LEMMA Larger ==
  ASSUME NEW S, NEW s \in List(S), NEW T, S \subseteq T
  PROVE  s \in List(T)
  BY DEF List

\* A sequence of its own elements.
LEMMA Own ==
  ASSUME NEW S, NEW s \in List(S)
  PROVE  s \in List(Elements(s))
<1>1. Len(s) \in Nat /\ DOMAIN s = 1 .. Len(s) /\ s = [i \in 1 .. Len(s) |-> s[i]]
  BY DEF List
<1>2. s \in [1 .. Len(s) -> Elements(s)]
  BY <1>1 DEF Elements
<1>3. s \in Seq(Elements(s))
  BY <1>1, <1>2
<1> QED BY <1>3 DEF List

\* A new entry in place of those that are undone.
LEMMA Entered ==
  ASSUME NEW s, NEW ts, NEW n, Stacked(s, ts, n), NEW en, NEW e \in Text,
         Entry(en, At(ts, n + 1), e),
         NEW s2, s2 = Pushed(s, n, en),
         NEW ts2, ts2 = Pushed(ts, n + 1, e)
  PROVE  /\ Stacked(s2, ts2, n + 1) /\ Length(s2) = n + 1
         /\ \A i \in 1 .. n + 1 : At(ts2, i) = At(ts, i)
         /\ At(ts2, n + 2) = e
<1> DEFINE S == Elements(s) \cup {en}
<1>1. /\ s \in List(Elements(s)) /\ ts \in List(Text)
      /\ n \in 0 .. Length(s) /\ Length(ts) = Length(s) + 1 /\ Chain(s, ts)
  BY DEF Stacked, Shapes
<1>2. s \in List(S) /\ en \in S
  BY <1>1, Larger
<1>3. Length(s) \in Nat /\ n + 1 \in 0 .. Length(ts) /\ n \in Nat
  BY <1>1, LengthNat
<1> HIDE DEF S
<1>4. /\ s2 \in List(S) /\ Length(s2) = n + 1
      /\ \A i \in 1 .. n : At(s2, i) = At(s, i)
      /\ At(s2, n + 1) = en
  BY <1>1, <1>2, PushedIs
<1>5. /\ ts2 \in List(Text) /\ Length(ts2) = (n + 1) + 1
      /\ \A i \in 1 .. n + 1 : At(ts2, i) = At(ts, i)
      /\ At(ts2, (n + 1) + 1) = e
  BY <1>1, <1>3, PushedIs
<1>6. Shapes(s2, ts2, n + 1)
  <2>1. s2 \in List(Elements(s2))
    BY <1>4, Own
  <2> QED BY <2>1, <1>3, <1>4, <1>5 DEF Shapes
<1>7. ASSUME NEW i \in 1 .. n + 1 PROVE Entry(At(s2, i), At(ts2, i), At(ts2, i + 1))
  <2>1. CASE i = n + 1
    <3>1. At(s2, i) = en /\ At(ts2, i) = At(ts, n + 1) /\ At(ts2, i + 1) = e
      BY <2>1, <1>3, <1>4, <1>5
    <3> QED BY <3>1
  <2>2. CASE i # n + 1
    <3>1. i \in 1 .. n /\ i + 1 \in 1 .. n + 1 /\ i \in 1 .. Length(s)
      BY <2>2, <1>1, <1>3
    <3>2. At(s2, i) = At(s, i) /\ At(ts2, i) = At(ts, i) /\ At(ts2, i + 1) = At(ts, i + 1)
      BY <3>1, <1>4, <1>5
    <3> QED BY <3>1, <3>2, <1>1 DEF Chain
  <2> QED BY <2>1, <2>2
<1>8. Chain(s2, ts2)
  BY <1>4, <1>7 DEF Chain
<1>9. (n + 1) + 1 = n + 2
  BY <1>3
<1> QED BY <1>4, <1>5, <1>6, <1>8, <1>9 DEF Stacked

\* The undone entries dropped.
LEMMA Dropped ==
  ASSUME NEW s, NEW ts, NEW n, Stacked(s, ts, n),
         NEW s2, s2 = Part(s, n),
         NEW ts2, ts2 = Part(ts, n + 1)
  PROVE  /\ Stacked(s2, ts2, n) /\ Length(s2) = n
         /\ \A i \in 1 .. n + 1 : At(ts2, i) = At(ts, i)
<1>1. /\ s \in List(Elements(s)) /\ ts \in List(Text)
      /\ n \in 0 .. Length(s) /\ Length(ts) = Length(s) + 1 /\ Chain(s, ts)
  BY DEF Stacked, Shapes
<1>2. Length(s) \in Nat /\ n + 1 \in 0 .. Length(ts) /\ n \in Nat
  BY <1>1, LengthNat
<1>3. s2 \in List(Elements(s)) /\ Length(s2) = n /\ \A i \in 1 .. n : At(s2, i) = At(s, i)
  BY <1>1, PartIs
<1>4. ts2 \in List(Text) /\ Length(ts2) = n + 1 /\ \A i \in 1 .. n + 1 : At(ts2, i) = At(ts, i)
  BY <1>1, <1>2, PartIs
<1>5. Shapes(s2, ts2, n)
  <2>1. s2 \in List(Elements(s2))
    BY <1>3, Own
  <2> QED BY <2>1, <1>2, <1>3, <1>4 DEF Shapes
<1>6. ASSUME NEW i \in 1 .. n PROVE Entry(At(s2, i), At(ts2, i), At(ts2, i + 1))
  <2>1. i \in 1 .. n + 1 /\ i + 1 \in 1 .. n + 1 /\ i \in 1 .. Length(s)
    BY <1>1, <1>2
  <2>2. At(s2, i) = At(s, i) /\ At(ts2, i) = At(ts, i) /\ At(ts2, i + 1) = At(ts, i + 1)
    BY <2>1, <1>3, <1>4
  <2> QED BY <2>1, <2>2, <1>1 DEF Chain
<1>7. Chain(s2, ts2)
  BY <1>3, <1>6 DEF Chain
<1> QED BY <1>3, <1>4, <1>5, <1>7 DEF Stacked

\* The entry on the top replaced by one that leads further.
LEMMA Continued ==
  ASSUME NEW s, NEW ts, NEW n, Stacked(s, ts, n), n >= 1, NEW en, NEW e \in Text,
         Entry(en, At(ts, n), e),
         NEW s2, s2 = Put(Part(s, n), n, en),
         NEW ts2, ts2 = Pushed(ts, n, e)
  PROVE  /\ Stacked(s2, ts2, n) /\ Length(s2) = n
         /\ \A i \in 1 .. n : At(ts2, i) = At(ts, i)
         /\ At(ts2, n + 1) = e
<1> DEFINE S == Elements(s) \cup {en}
           p == Part(s, n)
<1>1. /\ s \in List(Elements(s)) /\ ts \in List(Text)
      /\ n \in 0 .. Length(s) /\ Length(ts) = Length(s) + 1 /\ Chain(s, ts)
  BY DEF Stacked, Shapes
<1>2. s \in List(S) /\ en \in S
  BY <1>1, Larger
<1>3. Length(s) \in Nat /\ n \in 0 .. Length(ts) /\ n \in Nat
  BY <1>1, LengthNat
<1> HIDE DEF S
<1>4. p \in List(S) /\ Length(p) = n /\ \A i \in 1 .. n : At(p, i) = At(s, i)
  BY <1>1, <1>2, PartIs
<1> HIDE DEF p
<1>5. n \in 1 .. Length(p)
  BY <1>3, <1>4
<1>6. /\ s2 \in List(S) /\ Length(s2) = n /\ At(s2, n) = en
      /\ \A i \in 1 .. n : i # n => At(s2, i) = At(p, i)
  BY <1>2, <1>4, <1>5, PutType DEF p
<1>7. /\ ts2 \in List(Text) /\ Length(ts2) = n + 1
      /\ \A i \in 1 .. n : At(ts2, i) = At(ts, i)
      /\ At(ts2, n + 1) = e
  BY <1>1, <1>3, PushedIs
<1>8. Shapes(s2, ts2, n)
  <2>1. s2 \in List(Elements(s2))
    BY <1>6, Own
  <2> QED BY <2>1, <1>3, <1>6, <1>7 DEF Shapes
<1>9. ASSUME NEW i \in 1 .. n PROVE Entry(At(s2, i), At(ts2, i), At(ts2, i + 1))
  <2>1. CASE i = n
    <3>1. At(s2, i) = en /\ At(ts2, i) = At(ts, n) /\ At(ts2, i + 1) = e
      BY <2>1, <1>3, <1>6, <1>7
    <3> QED BY <3>1
  <2>2. CASE i # n
    <3>1. i \in 1 .. n /\ i + 1 \in 1 .. n /\ i \in 1 .. Length(s)
      BY <2>2, <1>1, <1>3
    <3>2. At(s2, i) = At(s, i) /\ At(ts2, i) = At(ts, i) /\ At(ts2, i + 1) = At(ts, i + 1)
      BY <2>2, <3>1, <1>4, <1>6, <1>7
    <3> QED BY <3>1, <3>2, <1>1 DEF Chain
  <2> QED BY <2>1, <2>2
<1>10. Chain(s2, ts2)
  BY <1>6, <1>9 DEF Chain
<1> QED BY <1>6, <1>7, <1>8, <1>10 DEF Stacked

-----------------------------------------------------------------------------
(* The state of the editor *)

\* What holds of the editor: its text, stack, index, clean, stuck, texts, saved.
\* The stack leads through the texts, the text of the editor is the one at the
\* index and the saved text the one at the clean index.
Remembers(d, s, n, cl, st, ts, sv) ==
  /\ d \in Text /\ st \in BOOLEAN
  /\ Stacked(s, ts, n)
  /\ cl \in -1 .. Length(s)
  /\ st => Length(s) = n
  /\ ~st => d = At(ts, n + 1)
  /\ ~st /\ cl >= 0 => sv = At(ts, cl + 1)

\* The clean index when the undone entries are dropped.
Forgotten(cl, n) == IF cl > n THEN -1 ELSE cl

\* The numbers are numbers.
LEMMA StackedIs ==
  ASSUME NEW s, NEW ts, NEW n, Stacked(s, ts, n)
  PROVE  /\ n \in Nat /\ Length(s) \in Nat /\ n <= Length(s) /\ Length(ts) = Length(s) + 1
         /\ ts \in List(Text) /\ s \in List(Elements(s))
  BY LengthNat DEF Stacked, Shapes

\* A new entry.
LEMMA EnterKeeps ==
  ASSUME NEW d, NEW s, NEW n, NEW cl, NEW ts, NEW sv, Remembers(d, s, n, cl, FALSE, ts, sv),
         NEW en, NEW e \in Text, Entry(en, d, e),
         NEW s2, s2 = Pushed(s, n, en), NEW ts2, ts2 = Pushed(ts, n + 1, e),
         NEW m, m = n + 1
  PROVE  Remembers(e, s2, m, Forgotten(cl, n), FALSE, ts2, sv)
<1>1. Stacked(s, ts, n) /\ d = At(ts, n + 1) /\ cl \in -1 .. Length(s)
      /\ (cl >= 0 => sv = At(ts, cl + 1))
  BY DEF Remembers
<1>2. n \in Nat /\ Length(s) \in Nat
  BY <1>1, StackedIs
<1>3. /\ Stacked(s2, ts2, n + 1) /\ Length(s2) = n + 1
      /\ \A i \in 1 .. n + 1 : At(ts2, i) = At(ts, i)
      /\ At(ts2, n + 2) = e
  BY <1>1, Entered
<1>4. Forgotten(cl, n) \in -1 .. Length(s2)
  BY <1>1, <1>2, <1>3 DEF Forgotten
<1>5. ASSUME Forgotten(cl, n) >= 0 PROVE sv = At(ts2, Forgotten(cl, n) + 1)
  <2>1. Forgotten(cl, n) = cl /\ cl + 1 \in 1 .. n + 1 /\ cl >= 0
    BY <1>1, <1>2, <1>5 DEF Forgotten
  <2> QED BY <2>1, <1>1, <1>3
<1>6. e = At(ts2, m + 1) /\ m + 1 = n + 2
  <2>1. m + 1 = n + 2
    BY <1>2
  <2> QED BY <2>1, <1>3
<1> QED BY <1>3, <1>4, <1>5, <1>6 DEF Remembers

\* An entry merged with the one on the top.
LEMMA ContinueKeeps ==
  ASSUME NEW d, NEW s, NEW n, NEW cl, NEW ts, NEW sv, Remembers(d, s, n, cl, FALSE, ts, sv),
         n >= 1, cl # n, NEW en, NEW e \in Text, Entry(en, At(ts, n), e),
         NEW s2, s2 = Put(Part(s, n), n, en), NEW ts2, ts2 = Pushed(ts, n, e)
  PROVE  Remembers(e, s2, n, Forgotten(cl, n), FALSE, ts2, sv)
<1>1. Stacked(s, ts, n) /\ cl \in -1 .. Length(s) /\ (cl >= 0 => sv = At(ts, cl + 1))
  BY DEF Remembers
<1>2. n \in Nat /\ Length(s) \in Nat
  BY <1>1, StackedIs
<1>3. /\ Stacked(s2, ts2, n) /\ Length(s2) = n
      /\ \A i \in 1 .. n : At(ts2, i) = At(ts, i)
      /\ At(ts2, n + 1) = e
  BY <1>1, Continued
<1>4. Forgotten(cl, n) \in -1 .. Length(s2)
  BY <1>1, <1>2, <1>3 DEF Forgotten
<1>5. ASSUME Forgotten(cl, n) >= 0 PROVE sv = At(ts2, Forgotten(cl, n) + 1)
  <2>1. Forgotten(cl, n) = cl /\ cl + 1 \in 1 .. n /\ cl >= 0
    BY <1>1, <1>2, <1>5 DEF Forgotten
  <2> QED BY <2>1, <1>1, <1>3
<1> QED BY <1>3, <1>4, <1>5 DEF Remembers

\* A macro that never ends.
LEMMA DropKeeps ==
  ASSUME NEW d, NEW s, NEW n, NEW cl, NEW ts, NEW sv, Remembers(d, s, n, cl, FALSE, ts, sv),
         NEW s2, s2 = Part(s, n), NEW ts2, ts2 = Part(ts, n + 1)
  PROVE  Remembers(d, s2, n, Forgotten(cl, n), TRUE, ts2, sv)
<1>1. Stacked(s, ts, n) /\ cl \in -1 .. Length(s) /\ d \in Text
  BY DEF Remembers
<1>2. n \in Nat /\ Length(s) \in Nat
  BY <1>1, StackedIs
<1>3. Stacked(s2, ts2, n) /\ Length(s2) = n
  BY <1>1, Dropped
<1>4. Forgotten(cl, n) \in -1 .. Length(s2)
  BY <1>1, <1>2, <1>3 DEF Forgotten
<1> QED BY <1>1, <1>3, <1>4 DEF Remembers

\* A change within it.
LEMMA StuckKeeps ==
  ASSUME NEW d, NEW s, NEW n, NEW cl, NEW ts, NEW sv, Remembers(d, s, n, cl, TRUE, ts, sv),
         NEW e \in Text
  PROVE  Remembers(e, s, n, cl, TRUE, ts, sv)
  BY DEF Remembers

\* The index moves back.
LEMMA UndoKeeps ==
  ASSUME NEW d, NEW s, NEW n, NEW cl, NEW ts, NEW sv, Remembers(d, s, n, cl, FALSE, ts, sv),
         n > 0
  PROVE  Remembers(At(ts, n), s, n - 1, cl, FALSE, ts, sv)
<1>1. Stacked(s, ts, n)
  BY DEF Remembers
<1>2. n \in Nat /\ Length(s) \in Nat /\ n <= Length(s) /\ Length(ts) = Length(s) + 1
      /\ ts \in List(Text)
  BY <1>1, StackedIs
<1>3. n - 1 \in 0 .. Length(s) /\ n \in 1 .. Length(ts) /\ (n - 1) + 1 = n
  BY <1>2
<1>4. At(ts, n) \in Text
  BY <1>2, <1>3, AtType
<1>5. Stacked(s, ts, n - 1)
  BY <1>1, <1>3 DEF Stacked, Shapes
<1> QED BY <1>3, <1>4, <1>5 DEF Remembers

\* The index moves on.
LEMMA RedoKeeps ==
  ASSUME NEW d, NEW s, NEW n, NEW cl, NEW ts, NEW sv, Remembers(d, s, n, cl, FALSE, ts, sv),
         n < Length(s)
  PROVE  Remembers(At(ts, (n + 1) + 1), s, n + 1, cl, FALSE, ts, sv)
<1>1. Stacked(s, ts, n)
  BY DEF Remembers
<1>2. n \in Nat /\ Length(s) \in Nat /\ n <= Length(s) /\ Length(ts) = Length(s) + 1
      /\ ts \in List(Text)
  BY <1>1, StackedIs
<1>3. n + 1 \in 0 .. Length(s) /\ (n + 1) + 1 \in 1 .. Length(ts)
  BY <1>2
<1>4. At(ts, (n + 1) + 1) \in Text
  BY <1>2, <1>3, AtType
<1>5. Stacked(s, ts, n + 1)
  BY <1>1, <1>3 DEF Stacked, Shapes
<1> QED BY <1>3, <1>4, <1>5 DEF Remembers

\* The text is saved.
LEMMA SaveKeeps ==
  ASSUME NEW d, NEW s, NEW n, NEW cl, NEW st, NEW ts, NEW sv, Remembers(d, s, n, cl, st, ts, sv)
  PROVE  Remembers(d, s, n, IF st THEN cl ELSE n, st, ts, d)
<1>1. n \in 0 .. Length(s) /\ Length(s) \in Nat
  BY StackedIs DEF Remembers
<1> QED BY <1>1 DEF Remembers

\* An entry of the stack, the texts before and after it.
LEMMA EntryAt ==
  ASSUME NEW s, NEW ts, NEW n, Stacked(s, ts, n), NEW i \in 1 .. Length(s)
  PROVE  /\ Entry(At(s, i), At(ts, i), At(ts, i + 1)) /\ At(ts, i) \in Text
         /\ At(ts, i + 1) \in Text
<1>1. i \in 1 .. Length(ts) /\ i + 1 \in 1 .. Length(ts) /\ ts \in List(Text)
  BY StackedIs
<1> QED BY <1>1, AtType DEF Stacked, Chain

-----------------------------------------------------------------------------
(* The history *)

\* What redo goes on to.
Coming(ts, n) == SubSeq(ts, n + 2, Len(ts))

\* What comes, in terms of the laws of sequences.
LEMMA ComingIs ==
  ASSUME NEW ts, NEW n \in Nat
  PROVE  Coming(ts, n) = From(ts, n + 1)
<1>1. n + 2 = (n + 1) + 1
  OBVIOUS
<1> QED BY <1>1, Zenon DEF Coming, From

\* The first n + 1 elements.
LEMMA PartMore ==
  ASSUME NEW S, NEW s \in List(S), NEW n \in Nat, n + 1 <= Length(s)
  PROVE  Part(s, n + 1) = Pushed(s, n, At(s, n + 1))
<1> DEFINE m == n + 1
           x == At(s, m)
           p == Part(s, m)
           q == Pushed(s, n, x)
<1>1. Length(s) \in Nat /\ n \in 0 .. Length(s) /\ m \in 0 .. Length(s) /\ m \in 1 .. Length(s)
  BY LengthNat
<1>2. x \in S
  <2> HIDE DEF m
  <2> QED BY <1>1, AtType
<1>3. p \in List(S) /\ Length(p) = m /\ \A i \in 1 .. m : At(p, i) = At(s, i)
  <2> HIDE DEF m
  <2> QED BY <1>1, PartIs
<1>4. q \in List(S) /\ Length(q) = m /\ At(q, m) = x /\ \A i \in 1 .. n : At(q, i) = At(s, i)
  <2> HIDE DEF x
  <2>1. m = n + 1
    OBVIOUS
  <2> HIDE DEF m
  <2> QED BY <1>1, <1>2, <2>1, PushedIs
<1> HIDE DEF p, q
<1>5. ASSUME NEW i \in 1 .. m PROVE At(p, i) = At(q, i)
  <2>1. CASE i = m
    BY <2>1, <1>3, <1>4
  <2>2. CASE i # m
    <3>1. i \in 1 .. n
      BY <2>2
    <3> QED BY <3>1, <1>3, <1>4
  <2> QED BY <2>1, <2>2
<1>6. p = q
  <2> HIDE DEF m, x
  <2> QED BY <1>3, <1>4, <1>5, Same
<1> QED BY <1>6 DEF p, q, m, x

\* Sequences with the same first n elements.
LEMMA PartSame ==
  ASSUME NEW S, NEW s \in List(S), NEW t \in List(S), NEW n \in Nat,
         n <= Length(s), n <= Length(t), \A i \in 1 .. n : At(t, i) = At(s, i)
  PROVE  Part(t, n) = Part(s, n)
<1>1. n \in 0 .. Length(s) /\ n \in 0 .. Length(t)
  BY LengthNat
<1>2. /\ Part(s, n) \in List(S) /\ Length(Part(s, n)) = n
      /\ Part(t, n) \in List(S) /\ Length(Part(t, n)) = n
      /\ \A i \in 1 .. n : At(Part(s, n), i) = At(s, i) /\ At(Part(t, n), i) = At(t, i)
  BY <1>1, PartIs
<1> QED BY <1>2, Same

\* The first of the first elements.
LEMMA PartLess ==
  ASSUME NEW S, NEW s \in List(S), NEW n \in Nat, NEW m \in Nat, m <= n, n <= Length(s)
  PROVE  Part(Part(s, n), m) = Part(s, m)
<1>1. n \in 0 .. Length(s)
  BY LengthNat
<1>2. Part(s, n) \in List(S) /\ Length(Part(s, n)) = n /\ \A i \in 1 .. n : At(Part(s, n), i) = At(s, i)
  BY <1>1, PartIs
<1>3. m <= Length(s) /\ \A i \in 1 .. m : At(Part(s, n), i) = At(s, i)
  BY <1>2, LengthNat
<1> DEFINE t == Part(s, n)
<1> HIDE DEF t
<1>4. Part(t, m) = Part(s, m)
  BY <1>2, <1>3, PartSame DEF t
<1> QED BY <1>4 DEF t

\* Pushed appends.
LEMMA PushedAppends ==
  ASSUME NEW s, NEW n, NEW x
  PROVE  Pushed(s, n, x) = Append(Part(s, n), x)
  BY DEF Pushed, Part

\* Nothing comes at the end of the texts.
LEMMA NoFuture ==
  ASSUME NEW ts \in List(Text), NEW n \in Nat, Length(ts) = n + 1
  PROVE  Coming(ts, n) = << >>
  BY ComingIs, Whole DEF Nil

\* The next text comes first.
LEMMA FutureHead ==
  ASSUME NEW ts \in List(Text), NEW n \in Nat, n + 2 <= Length(ts)
  PROVE  Coming(ts, n) = <<At(ts, n + 2)>> \o Coming(ts, n + 1)
<1> DEFINE m == n + 1
           r == n + 2
<1>1. Length(ts) \in Nat /\ r \in 1 .. Length(ts) /\ r - 1 = m /\ r = m + 1 /\ m \in Nat
  BY LengthNat
<1>2. Coming(ts, n) = From(ts, m) /\ Coming(ts, m) = From(ts, r)
  BY <1>1, ComingIs
<1> HIDE DEF m, r
<1>3. /\ Upto(ts, m) \in List(Text) /\ Length(Upto(ts, m)) = m
      /\ From(ts, r) \in List(Text) /\ At(ts, r) \in Text
      /\ ts = Around(Upto(ts, m), At(ts, r), From(ts, r))
  BY <1>1, Split
<1>4. From(ts, m) = Cat(One(At(ts, r)), From(ts, r))
  <2> DEFINE a == Upto(ts, m)
             x == At(ts, r)
             b == From(ts, r)
  <2> HIDE DEF a, x, b
  <2>1. a \in List(Text) /\ Length(a) = m /\ b \in List(Text) /\ x \in Text
        /\ ts = Around(a, x, b)
    BY <1>3 DEF a, b, x
  <2>2. From(Around(a, x, b), Length(a)) = Cat(One(x), b)
    BY <2>1, AroundParts
  <2>3. From(ts, m) = Cat(One(x), b)
    BY <2>1, <2>2
  <2> QED BY <2>3 DEF x, b
<1> QED BY <1>2, <1>4 DEF Cat, One, m, r

\* The head and the tail of a sequence.
LEMMA HeadTail ==
  ASSUME NEW S, NEW x \in S, NEW s \in Seq(S)
  PROVE  /\ <<x>> \o s # << >>
         /\ Head(<<x>> \o s) = x /\ Tail(<<x>> \o s) = s
<1> DEFINE t == <<x>> \o s
<1>1. t \in Seq(S) /\ Len(t) = 1 + Len(s) /\ Len(s) \in Nat /\ t[1] = x
  OBVIOUS
<1>2. t # << >> /\ Head(t) = x
  BY <1>1
<1>3. Tail(t) = s
  <2>1. Tail(t) \in Seq(S) /\ Len(Tail(t)) = Len(s)
    BY <1>1
  <2>2. ASSUME NEW i \in 1 .. Len(s) PROVE Tail(t)[i] = s[i]
    <3>1. Tail(t)[i] = t[i + 1]
      BY <1>1
    <3>2. t[1 + i] = s[i]
      OBVIOUS
    <3> QED BY <3>1, <3>2
  <2> QED BY <2>1, <2>2
<1> QED BY <1>2, <1>3

\* A single command.
LEMMA OneCarries ==
  ASSUME NEW cmds, NEW d, NEW e, Carries(cmds, d, e), Len(cmds) = 1
  PROVE  cmds = <<cmds[1]>> /\ Fixed(cmds[1], d, e)
<1>1. cmds # <<cmds[1], cmds[2]>>
  <2> DEFINE c == cmds[1]
             o == cmds[2]
  <2> HIDE DEF c, o
  <2>1. cmds # <<c, o>>
    BY Pairs
  <2> QED BY <2>1 DEF c, o
<1> QED BY <1>1, Zenon DEF Carries

\* The entry of commands that were carried out.
LEMMA NewEntry ==
  ASSUME NEW cmds, NEW d, NEW e, Carries(cmds, d, e), NEW macro \in BOOLEAN,
         ~macro => Len(cmds) = 1
  PROVE  Entry([macro |-> macro, cmds |-> cmds], d, e)
<1> DEFINE en == [macro |-> macro, cmds |-> cmds]
<1>1. en.macro = macro /\ en.cmds = cmds
  OBVIOUS
<1>2. en = [macro |-> en.macro, cmds |-> en.cmds]
  BY <1>1
<1> HIDE DEF en
<1>3. Entry(en, d, e)
  BY <1>1, <1>2 DEF Entry
<1> QED BY <1>3 DEF en

\* An entry with its command replaced.
LEMMA Replaced ==
  ASSUME NEW en, en = [macro |-> en.macro, cmds |-> en.cmds], NEW m
  PROVE  [en EXCEPT !.cmds[1] = m] = [macro |-> en.macro, cmds |-> [en.cmds EXCEPT ![1] = m]]
  OBVIOUS

\* The command of a single command replaced.
LEMMA Single ==
  ASSUME NEW c, NEW m
  PROVE  [<<c>> EXCEPT ![1] = m] = <<m>>
  OBVIOUS

\* The entry that took in a command.
LEMMA MergedEntry ==
  ASSUME NEW en, NEW a \in Text, NEW d, Entry(en, a, d), ~en.macro,
         NEW cmds, NEW e, Carries(cmds, d, e), Len(cmds) = 1,
         CanMerge(en.cmds[1], cmds[1]), ~Gap(en.cmds[1], cmds[1])
  PROVE  Entry([en EXCEPT !.cmds[1] = Merge(en.cmds[1], cmds[1])], a, e)
<1> DEFINE c == en.cmds[1]
           o == cmds[1]
           m == Merge(c, o)
<1>1. /\ en = [macro |-> en.macro, cmds |-> en.cmds]
      /\ Len(en.cmds) = 1 /\ Carries(en.cmds, a, d) /\ en.macro \in BOOLEAN
  BY DEF Entry
<1>2. en.cmds = <<c>> /\ Fixed(c, a, d) /\ Fixed(o, d, e)
  BY <1>1, OneCarries
<1>3. Fixed(m, a, e)
  <2> HIDE DEF m
  <2>1. m = Merge(c, o)
    BY DEF m
  <2> HIDE DEF c, o
  <2> QED BY <1>2, <2>1, Merged DEF c, o
<1>4. [en EXCEPT !.cmds[1] = m] = [macro |-> FALSE, cmds |-> <<m>>]
  <2> HIDE DEF m
  <2> HIDE DEF c
  <2>1. [en EXCEPT !.cmds[1] = m] = [macro |-> en.macro, cmds |-> [en.cmds EXCEPT ![1] = m]]
    BY <1>1, Replaced
  <2>2. [en.cmds EXCEPT ![1] = m] = <<m>>
    BY <1>2, Single
  <2>3. en.macro = FALSE
    BY <1>1
  <2> QED BY <2>1, <2>2, <2>3, Zenon
<1>5. Carries(<<m>>, a, e) /\ Len(<<m>>) = 1
  <2> HIDE DEF m
  <2> QED BY <1>3, Pairs DEF Carries
<1>6. Entry([macro |-> FALSE, cmds |-> <<m>>], a, e)
  <2> HIDE DEF m
  <2> QED BY <1>5, NewEntry
<1> QED BY <1>4, <1>6

\* The top of the stack replaced.
LEMMA TopPut ==
  ASSUME NEW S, NEW s \in List(S), NEW n \in 1 .. Length(s), NEW x
  PROVE  [Part(s, n) EXCEPT ![n].cmds[1] = x]
           = Put(Part(s, n), n, [At(s, n) EXCEPT !.cmds[1] = x])
<1>1. n \in 0 .. Length(s) /\ n \in 1 .. n
  BY LengthNat
<1>2. At(Part(s, n), n) = At(s, n)
  BY <1>1, PartIs
<1>3. Part(s, n)[n] = At(s, n)
  BY <1>2 DEF At
<1> DEFINE p == Part(s, n)
           y == At(s, n)
<1> HIDE DEF p, y
<1>4. [p EXCEPT ![n].cmds[1] = x] = Put(p, n, [p[n] EXCEPT !.cmds[1] = x])
  BY Zenon DEF Put
<1>5. p[n] = y
  BY <1>3 DEF p, y
<1>6. [p EXCEPT ![n].cmds[1] = x] = Put(p, n, [y EXCEPT !.cmds[1] = x])
  BY <1>4, <1>5
<1> QED BY <1>6 DEF p, y

\* The state of the editor is what it remembers.
Recorded == Remembers(doc, stack, index, clean, stuck, texts, saved)

\* The history of the text, as TextHistory has it.
PastNow == SubSeq(texts, 1, index)
FutureNow == SubSeq(texts, index + 2, Len(texts))

\* The types of what is recorded.
LEMMA RecordedIs ==
  ASSUME Recorded
  PROVE  /\ doc \in Text /\ stuck \in BOOLEAN /\ Stacked(stack, texts, index)
         /\ index \in Nat /\ index <= Length(stack) /\ Length(stack) \in Nat
         /\ Length(texts) = Length(stack) + 1
         /\ texts \in List(Text) /\ stack \in List(Elements(stack))
         /\ clean \in -1 .. Length(stack)
  BY StackedIs DEF Recorded, Remembers

\* The past has a text for each entry that is done.
LEMMA PastIs ==
  ASSUME Recorded
  PROVE  /\ PastNow = Part(texts, index) /\ Len(PastNow) = index
         /\ FutureNow = Coming(texts, index)
         /\ (PastNow # << >> <=> index > 0)
<1>1. texts \in List(Text) /\ index \in 0 .. Length(texts) /\ index \in Nat
  BY RecordedIs
<1>2. PastNow = Part(texts, index) /\ FutureNow = Coming(texts, index)
  BY DEF PastNow, FutureNow, Part, Coming
<1>3. Part(texts, index) \in List(Text) /\ Length(Part(texts, index)) = index
  BY <1>1, PartIs
<1>4. PastNow \in Seq(Text) /\ Len(PastNow) = index
  BY <1>2, <1>3 DEF List, Length
<1> QED BY <1>1, <1>2, <1>4

\* The entry on the top of the stack.
LEMMA TopIs ==
  ASSUME Recorded, index > 0
  PROVE  /\ stack[index] = At(stack, index) /\ index \in 1 .. Length(stack)
         /\ Entry(At(stack, index), At(texts, index), At(texts, index + 1))
         /\ At(texts, index) \in Text
<1>1. index \in 1 .. Length(stack)
  BY RecordedIs
<1> QED BY <1>1, RecordedIs, EntryAt DEF At

\* A new entry is an edit.
LEMMA EnterStep ==
  ASSUME Recorded, ~stuck, NEW STATE r, NEW STATE macro, macro \in BOOLEAN,
         Carries(r.cmds, doc, r.doc), r.doc \in Text, ~macro => Len(r.cmds) = 1,
         Enter(r, macro), doc' = r.doc, UNCHANGED <<stuck, saved>>
  PROVE  Recorded' /\ History!Edit
<1> DEFINE en == [macro |-> macro, cmds |-> r.cmds]
           e == r.doc
<1>1. /\ Stacked(stack, texts, index) /\ texts \in List(Text)
      /\ index \in Nat /\ Length(texts) = Length(stack) + 1 /\ index <= Length(stack)
      /\ Length(stack) \in Nat
  BY RecordedIs
<1>2. doc = At(texts, index + 1) /\ stuck = FALSE /\ stuck' = FALSE /\ saved' = saved
  BY RecordedIs DEF Recorded, Remembers
<1>3. Entry(en, doc, e)
  BY NewEntry
<1>4. /\ stack' = Pushed(stack, index, en) /\ texts' = Pushed(texts, index + 1, e)
      /\ clean' = Forgotten(clean, index) /\ index' = index + 1
  BY DEF Enter, Done, ForgetUndone, Forgotten, Pushed
<1> HIDE DEF en, e
<1>5. Remembers(doc, stack, index, clean, FALSE, texts, saved) /\ e \in Text
  BY <1>2 DEF Recorded, e
<1>6. Remembers(e, stack', index', Forgotten(clean, index), FALSE, texts', saved)
  BY <1>3, <1>4, <1>5, EnterKeeps
<1>7. Recorded'
  BY <1>2, <1>4, <1>6 DEF Recorded, e
<1>8. PastNow' = Append(PastNow, doc)
  <2> DEFINE m == index + 1
  <2>1. m = index + 1 /\ m \in Nat /\ m \in 0 .. Length(texts)
    BY <1>1
  <2> HIDE DEF m
  <2>2. /\ texts' \in List(Text) /\ Length(texts') = m + 1
        /\ \A i \in 1 .. m : At(texts', i) = At(texts, i)
    BY <1>1, <1>4, <1>5, <2>1, PushedIs
  <2>3. m <= Length(texts) /\ m <= Length(texts')
    BY <2>1, <2>2
  <2>4. Part(texts', m) = Part(texts, m)
    BY <1>1, <2>1, <2>2, <2>3, PartSame
  <2>5. Part(texts, index + 1) = Pushed(texts, index, At(texts, index + 1))
    BY <1>1, <2>1, <2>3, PartMore
  <2>6. PastNow' = Part(texts', m)
    BY <1>4, <2>1 DEF PastNow, Part
  <2>7. Pushed(texts, index, doc) = Append(PastNow, doc)
    BY DEF Pushed, PastNow
  <2> QED BY <1>2, <2>1, <2>4, <2>5, <2>6, <2>7
<1>9. FutureNow' = << >>
  <2>1. Recorded' => Length(texts') = Length(stack') + 1 /\ texts' \in List(Text) /\ index' \in Nat
    BY StackedIs DEF Recorded, Remembers
  <2>2. Length(stack') = index'
    <3>1. en \in {en} \cup Elements(stack) /\ stack \in List(Elements(stack))
      BY <1>1, RecordedIs
    <3>2. stack \in List({en} \cup Elements(stack)) /\ index \in 0 .. Length(stack)
      BY <1>1, <3>1, Larger
    <3> DEFINE S == {en} \cup Elements(stack)
               m == index + 1
    <3>3. en \in S /\ m = index + 1 /\ stack \in List(S)
      BY <3>1, <3>2
    <3> HIDE DEF S, m
    <3>4. Length(Pushed(stack, index, en)) = m
      BY <3>2, <3>3, PushedIs
    <3> QED BY <1>4, <3>3, <3>4
  <2>3. Coming(texts', index') = << >>
    BY <1>7, <2>1, <2>2, NoFuture
  <2> QED BY <2>3 DEF FutureNow, Coming
<1>10. clean' = IF clean > Len(PastNow) THEN -1 ELSE clean
  BY <1>4, PastIs DEF Forgotten
<1>11. History!Edit
  BY <1>2, <1>5, <1>8, <1>9, <1>10 DEF History!Edit, History!Change, PastNow, FutureNow, e
<1> QED BY <1>7, <1>11

-----------------------------------------------------------------------------
(* Each step of the editor is a step of the history *)

\* A merge continues the last edit.
LEMMA ContinueStep ==
  ASSUME Recorded, ~stuck, NEW STATE r, Carries(r.cmds, doc, r.doc), r.doc \in Text, Len(r.cmds) = 1,
         Mergeable(r.cmds[1]), Continue(r), ~spoilt',
         doc' = r.doc, UNCHANGED <<stuck, saved>>
  PROVE  Recorded' /\ History!Continue
<1> DEFINE top == At(stack, index)
           o == r.cmds[1]
           e == r.doc
           x == Merge(top.cmds[1], o)
           en == [top EXCEPT !.cmds[1] = x]
<1>1. /\ Stacked(stack, texts, index) /\ texts \in List(Text) /\ stack \in List(Elements(stack))
      /\ index \in Nat /\ Length(texts) = Length(stack) + 1 /\ index <= Length(stack)
      /\ Length(stack) \in Nat
  BY RecordedIs
<1>2. /\ doc = At(texts, index + 1) /\ stuck = FALSE /\ stuck' = FALSE /\ saved' = saved
  BY RecordedIs DEF Recorded, Remembers
<1>3. /\ index > 0 /\ clean # index /\ ~stack[index].macro /\ CanMerge(stack[index].cmds[1], o)
  BY DEF Mergeable
<1>4. /\ stack[index] = top /\ index \in 1 .. Length(stack)
      /\ Entry(top, At(texts, index), doc) /\ At(texts, index) \in Text
  BY <1>2, <1>3, TopIs
<1> HIDE DEF top
<1>5. ~Gap(top.cmds[1], o)
  BY <1>4 DEF Continue
<1>6. Entry(en, At(texts, index), e)
  BY <1>3, <1>4, <1>5, MergedEntry
<1>7. /\ stack' = [Part(stack, index) EXCEPT ![index].cmds[1] = Merge(top.cmds[1], o)]
      /\ texts' = Pushed(texts, index, e)
      /\ clean' = Forgotten(clean, index) /\ index' = index
  BY <1>4 DEF Continue, Done, ForgetUndone, Forgotten, Pushed, Part
<1>8. stack' = Put(Part(stack, index), index, en)
  <2>1. stack' = [Part(stack, index) EXCEPT ![index].cmds[1] = x]
    BY <1>7, Zenon
  <2> HIDE DEF x
  <2>2. [Part(stack, index) EXCEPT ![index].cmds[1] = x]
          = Put(Part(stack, index), index, [At(stack, index) EXCEPT !.cmds[1] = x])
    BY <1>1, <1>4, TopPut
  <2> QED BY <2>1, <2>2, Zenon DEF top
<1> HIDE DEF en, e
<1>9. Remembers(doc, stack, index, clean, FALSE, texts, saved) /\ e \in Text /\ index >= 1
  <2>1. Remembers(doc, stack, index, clean, FALSE, texts, saved)
    BY <1>2 DEF Recorded
  <2>2. index >= 1
    BY <1>1, <1>3
  <2> QED BY <2>1, <2>2 DEF e
<1>10. Remembers(e, stack', index, Forgotten(clean, index), FALSE, texts', saved)
  BY <1>3, <1>6, <1>7, <1>8, <1>9, ContinueKeeps
<1>11. Recorded'
  BY <1>2, <1>7, <1>10 DEF Recorded, e
<1>12. Stacked(stack', texts', index) /\ Length(stack') = index
       /\ texts' \in List(Text) /\ Length(texts') = index + 1
       /\ \A i \in 1 .. index : At(texts', i) = At(texts, i)
  <2>1. /\ Stacked(stack', texts', index) /\ Length(stack') = index
        /\ \A i \in 1 .. index : At(texts', i) = At(texts, i)
    <3>1. Stacked(stack, texts, index) /\ index >= 1 /\ e \in Text
      BY <1>1, <1>9
    <3>2. texts' = Pushed(texts, index, e)
      BY <1>7
    <3> QED BY <3>1, <3>2, <1>6, <1>8, Continued
  <2> QED BY <2>1, StackedIs
<1>13. PastNow' = PastNow
  <2>1. Part(texts', index) = Part(texts, index)
    BY <1>1, <1>12, PartSame
  <2> QED BY <2>1, <1>7 DEF PastNow, Part
<1>14. FutureNow' = << >>
  BY <1>1, <1>7, <1>12, NoFuture DEF FutureNow, Coming
<1>15. clean' = IF clean > Len(PastNow) THEN -1 ELSE clean
  BY <1>7, PastIs DEF Forgotten
<1>16. PastNow # << >> /\ clean # Len(PastNow)
  BY <1>3, PastIs
<1>17. History!Continue
  BY <1>2, <1>9, <1>13, <1>14, <1>15, <1>16
     DEF History!Continue, History!Change, History!Modified, PastNow, FutureNow, e
<1> QED BY <1>11, <1>17

\* In a macro that never ends a change of the text is all there is.
LEMMA StuckStep ==
  ASSUME Recorded, stuck, doc' \in Text, UNCHANGED <<stack, index, clean, stuck, texts, saved>>
  PROVE  Recorded' /\ History!Continue
<1>1. stuck = TRUE /\ stuck' = TRUE
  BY RecordedIs
<1>2. Recorded'
  <2>1. Remembers(doc', stack, index, clean, TRUE, texts, saved)
    BY <1>1, StuckKeeps DEF Recorded
  <2> QED BY <1>1, <2>1 DEF Recorded
<1>3. FutureNow = << >> /\ clean <= Len(PastNow)
  <2>1. Length(stack) = index /\ index \in Nat /\ clean \in -1 .. index
    BY <1>1, RecordedIs DEF Recorded, Remembers
  <2>2. Coming(texts, index) = << >>
    BY <2>1, RecordedIs, NoFuture
  <2> QED BY <2>1, <2>2, PastIs
<1>4. clean' = IF clean > Len(PastNow) THEN -1 ELSE clean
  <2>1. clean \in Int /\ Len(PastNow) \in Int
    BY RecordedIs, PastIs
  <2> QED BY <1>3, <2>1
<1>5. History!Continue
  BY <1>1, <1>3, <1>4 DEF History!Continue, History!Change, PastNow, FutureNow
<1> QED BY <1>2, <1>5

\* A macro that never ends freezes the history.
LEMMA DropStep ==
  ASSUME Recorded, DropAway
  PROVE  Recorded' /\ History!Freeze
<1>1. /\ ~stuck /\ stuck' = TRUE
      /\ stack' = Part(stack, index) /\ texts' = Part(texts, index + 1)
      /\ clean' = Forgotten(clean, index) /\ doc' = doc /\ index' = index /\ saved' = saved
  BY DEF DropAway, Done, Part, ForgetUndone, Forgotten
<1>2. /\ Stacked(stack, texts, index) /\ texts \in List(Text)
      /\ index \in Nat /\ Length(texts) = Length(stack) + 1 /\ index <= Length(stack)
      /\ Length(stack) \in Nat /\ stuck = FALSE
  BY <1>1, RecordedIs
<1>3. Recorded'
  <2>1. Remembers(doc, stack, index, clean, FALSE, texts, saved)
    BY <1>2 DEF Recorded
  <2>2. Remembers(doc, stack', index, Forgotten(clean, index), TRUE, texts', saved)
    BY <1>1, <2>1, DropKeeps
  <2> QED BY <1>1, <2>2 DEF Recorded
<1>4. PastNow' = PastNow /\ FutureNow' = << >>
  <2> DEFINE m == index + 1
  <2>1. m = index + 1 /\ m \in Nat /\ m \in 0 .. Length(texts) /\ index <= m /\ m <= Length(texts)
    BY <1>2
  <2> HIDE DEF m
  <2>2. texts' \in List(Text) /\ Length(texts') = m
    BY <1>1, <1>2, <2>1, PartIs
  <2>3. Part(texts', index) = Part(texts, index)
    BY <1>1, <1>2, <2>1, PartLess
  <2>4. Coming(texts', index) = << >>
    BY <1>2, <2>1, <2>2, NoFuture
  <2> QED BY <1>1, <2>3, <2>4 DEF PastNow, FutureNow, Part, Coming
<1>5. clean' = IF clean > Len(PastNow) THEN -1 ELSE clean
  BY <1>1, PastIs DEF Forgotten
<1>6. History!Freeze
  BY <1>1, <1>4, <1>5 DEF History!Freeze, PastNow, FutureNow
<1> QED BY <1>3, <1>6

\* Saving is saving.
LEMMA SaveStep ==
  ASSUME Recorded, Save
  PROVE  Recorded' /\ History!Save
<1>1. Remembers(doc, stack, index, IF stuck THEN clean ELSE index, stuck, texts, doc)
  BY SaveKeeps DEF Recorded
<1>2. Recorded'
  BY <1>1 DEF Recorded, Save
<1>3. Len(PastNow) = index /\ PastNow' = PastNow /\ FutureNow' = FutureNow
  BY PastIs DEF Save, PastNow, FutureNow
<1>4. History!Save
  BY <1>3 DEF History!Save, Save, PastNow, FutureNow
<1> QED BY <1>2, <1>4

\* Undo goes back.
LEMMA UndoStep ==
  ASSUME Recorded, Undo
  PROVE  Recorded' /\ History!Undo
<1>1. /\ ~stuck /\ index > 0 /\ index' = index - 1
      /\ doc' = RunBack(stack[index].cmds, doc)
      /\ stack' = stack /\ clean' = clean /\ stuck' = stuck /\ texts' = texts /\ saved' = saved
  BY DEF Undo
<1>2. /\ Stacked(stack, texts, index) /\ texts \in List(Text)
      /\ index \in Nat /\ Length(texts) = Length(stack) + 1 /\ index <= Length(stack)
      /\ Length(stack) \in Nat /\ stuck = FALSE /\ stuck' = FALSE
  BY <1>1, RecordedIs
<1>3. doc = At(texts, index + 1)
  BY <1>1 DEF Recorded, Remembers
<1>4. /\ stack[index] = At(stack, index)
      /\ Entry(At(stack, index), At(texts, index), doc) /\ At(texts, index) \in Text
  BY <1>1, <1>3, TopIs
<1>5. doc' = At(texts, index)
  <2>1. Carries(stack[index].cmds, At(texts, index), doc)
    BY <1>4 DEF Entry
  <2> QED BY <1>1, <1>4, <2>1, RunUndone
<1>6. Recorded'
  <2>1. Remembers(doc, stack, index, clean, FALSE, texts, saved)
    BY <1>2 DEF Recorded
  <2>2. Remembers(At(texts, index), stack, index - 1, clean, FALSE, texts, saved)
    BY <1>1, <2>1, UndoKeeps
  <2> QED BY <1>1, <1>2, <1>5, <2>2 DEF Recorded
<1> DEFINE m == index - 1
<1>7. m \in Nat /\ m + 1 = index /\ m <= index /\ m <= Length(texts) /\ index <= Length(texts)
      /\ m + 2 = index + 1 /\ m + 2 <= Length(texts) /\ index' = m /\ index \in 1 .. index
  BY <1>1, <1>2
<1> HIDE DEF m
<1>8. PastNow = Part(texts, index) /\ Len(PastNow) = index /\ PastNow # << >>
  BY <1>1, PastIs
<1>9. doc' = PastNow[Len(PastNow)]
  <2>1. index \in 0 .. Length(texts)
    BY <1>2
  <2>2. At(Part(texts, index), index) = At(texts, index)
    BY <1>2, <1>7, <2>1, PartIs
  <2> QED BY <1>5, <1>8, <2>2 DEF At
<1>10. PastNow' = SubSeq(PastNow, 1, Len(PastNow) - 1)
  <2>1. Part(Part(texts, index), m) = Part(texts, m)
    BY <1>2, <1>7, PartLess
  <2>2. Len(PastNow) - 1 = m
    BY <1>7, <1>8, <1>2
  <2>3. PastNow' = Part(texts, m)
    BY <1>1, <1>7 DEF PastNow, Part
  <2>4. SubSeq(PastNow, 1, Len(PastNow) - 1) = Part(Part(texts, index), m)
    BY <1>8, <2>2, Zenon DEF Part
  <2> QED BY <2>1, <2>3, <2>4
<1>11. FutureNow' = <<doc>> \o FutureNow
  <2>1. Coming(texts, m) = <<At(texts, m + 2)>> \o Coming(texts, m + 1)
    BY <1>2, <1>7, FutureHead
  <2>2. FutureNow' = Coming(texts, m) /\ FutureNow = Coming(texts, index)
    BY <1>1, <1>7, Zenon DEF FutureNow, Coming
  <2> QED BY <1>3, <1>7, <2>1, <2>2
<1>12. History!Undo
  BY <1>1, <1>8, <1>9, <1>10, <1>11 DEF History!Undo, PastNow, FutureNow
<1> QED BY <1>6, <1>12

\* An entry done again is the entry it was.
LEMMA Kept ==
  ASSUME NEW S, NEW s \in List(S), NEW n \in 1 .. Length(s),
         At(s, n) = [macro |-> At(s, n).macro, cmds |-> At(s, n).cmds],
         NEW cmds, cmds = At(s, n).cmds
  PROVE  [s EXCEPT ![n].cmds = cmds] = s
<1> DEFINE y == At(s, n)
<1>1. s[n] = y
  BY DEF At
<1>2. [s EXCEPT ![n].cmds = cmds] = [s EXCEPT ![n] = [s[n] EXCEPT !.cmds = cmds]]
  BY Zenon
<1> HIDE DEF y
<1>3. [y EXCEPT !.cmds = cmds] = y
  <2>1. y = [macro |-> y.macro, cmds |-> y.cmds] /\ cmds = y.cmds
    BY DEF y
  <2> QED BY <2>1
<1>4. [s EXCEPT ![n] = y] = s
  <2>1. s = [i \in 1 .. Len(s) |-> s[i]]
    BY DEF List
  <2> QED BY <2>1, <1>1
<1> QED BY <1>1, <1>2, <1>3, <1>4, Zenon

\* Redo goes on.
LEMMA RedoStep ==
  ASSUME Recorded, spoilt = FALSE, NEW row \in Int, Redo(row), ~spoilt'
  PROVE  Recorded' /\ History!Redo
<1> DEFINE m == index + 1
           run == Run(stack[m].cmds, doc, row)
<1>1. /\ ~stuck /\ index < Len(stack) /\ index' = m
      /\ doc' = run.doc /\ stack' = [stack EXCEPT ![m].cmds = run.cmds]
      /\ spoilt' = (spoilt \/ run.bad)
      /\ clean' = clean /\ stuck' = stuck /\ texts' = texts /\ saved' = saved
  BY DEF Redo
<1>2. /\ Stacked(stack, texts, index) /\ texts \in List(Text) /\ stack \in List(Elements(stack))
      /\ index \in Nat /\ Length(texts) = Length(stack) + 1 /\ index <= Length(stack)
      /\ Length(stack) \in Nat /\ stuck = FALSE /\ stuck' = FALSE /\ doc \in Text
  BY <1>1, RecordedIs
<1>3. doc = At(texts, m)
  BY <1>1 DEF Recorded, Remembers
<1>4. ~run.bad
  BY <1>1
<1>5. m \in Nat /\ m = index + 1 /\ m \in 1 .. Length(stack) /\ index < Length(stack)
      /\ m + 1 = index + 2 /\ index + 2 <= Length(texts)
  BY <1>1, <1>2 DEF Length
<1> HIDE DEF m
<1>6. stack[m] = At(stack, m) /\ Entry(At(stack, m), doc, At(texts, m + 1))
  <2>1. Entry(At(stack, m), At(texts, m), At(texts, m + 1))
    BY <1>2, <1>5, EntryAt
  <2> QED BY <2>1, <1>3 DEF At
<1>7. run.cmds = At(stack, m).cmds /\ run.doc = At(texts, m + 1)
  <2>1. Carries(stack[m].cmds, doc, At(texts, m + 1))
    BY <1>6 DEF Entry
  <2>2. run.cmds = stack[m].cmds /\ run.doc = At(texts, m + 1)
    BY <1>2, <1>4, <2>1, RunAgain
  <2> QED BY <2>2, <1>6
<1>8. stack' = stack
  <2> HIDE DEF run
  <2>1. At(stack, m) = [macro |-> At(stack, m).macro, cmds |-> At(stack, m).cmds]
    BY <1>6 DEF Entry
  <2>2. [stack EXCEPT ![m].cmds = run.cmds] = stack
    BY <1>2, <1>5, <1>7, <2>1, Kept
  <2> QED BY <1>1, <2>2
<1> HIDE DEF run
<1>9. Recorded'
  <2>1. Remembers(doc, stack, index, clean, FALSE, texts, saved)
    BY <1>2 DEF Recorded
  <2>2. Remembers(At(texts, (index + 1) + 1), stack, index + 1, clean, FALSE, texts, saved)
    BY <1>5, <2>1, RedoKeeps
  <2>3. Remembers(At(texts, m + 1), stack, m, clean, FALSE, texts, saved)
    BY <1>5, <2>2
  <2> QED BY <1>1, <1>2, <1>7, <1>8, <2>3 DEF Recorded
<1>10. PastNow' = Append(PastNow, doc)
  <2>1. m <= Length(texts)
    BY <1>2, <1>5
  <2>2. Part(texts, index + 1) = Pushed(texts, index, At(texts, index + 1))
    BY <1>2, <1>5, <2>1, PartMore
  <2>3. PastNow' = Part(texts, m) /\ Pushed(texts, index, doc) = Append(PastNow, doc)
    BY <1>1 DEF PastNow, Part, Pushed
  <2> QED BY <1>3, <1>5, <2>2, <2>3
<1>11. FutureNow # << >> /\ doc' = Head(FutureNow) /\ FutureNow' = Tail(FutureNow)
  <2> DEFINE f == Coming(texts, m)
             x == At(texts, m + 1)
  <2>1. Coming(texts, index) = <<At(texts, index + 2)>> \o Coming(texts, index + 1)
    BY <1>2, <1>5, FutureHead
  <2>2. Coming(texts, index) = <<x>> \o f
    BY <1>5, <2>1
  <2>3. x \in Text
    BY <1>2, <1>5, EntryAt
  <2>4. f \in Seq(Text)
    <3>1. m + 1 \in 0 .. Length(texts)
      BY <1>2, <1>5
    <3>2. f = From(texts, m + 1)
      BY <1>5, ComingIs
    <3> DEFINE k == m + 1
    <3> HIDE DEF k
    <3>3. From(texts, k) \in List(Text)
      BY <1>2, <3>1, FromType DEF k
    <3> QED BY <3>2, <3>3 DEF k, List
  <2>5. FutureNow = Coming(texts, index) /\ FutureNow' = f
    BY <1>1, Zenon DEF FutureNow, Coming
  <2> HIDE DEF f, x
  <2>6. <<x>> \o f # << >> /\ Head(<<x>> \o f) = x /\ Tail(<<x>> \o f) = f
    BY <2>3, <2>4, HeadTail
  <2>7. doc' = x
    BY <1>1, <1>7 DEF x
  <2> QED BY <2>2, <2>5, <2>6, <2>7
<1>12. History!Redo
  BY <1>1, <1>10, <1>11 DEF History!Redo, PastNow, FutureNow
<1> QED BY <1>9, <1>12

-----------------------------------------------------------------------------
(* What the user does *)

\* QUndoStack::push is an edit or continues one.
LEMMA PushStep ==
  ASSUME Recorded, spoilt = FALSE, NEW STATE cmds, GivenRun(cmds, doc), NEW macro \in BOOLEAN,
         ~macro => Len(cmds) = 1, NEW row \in Int, Push(cmds, macro, row), ~spoilt'
  PROVE  Recorded' /\ (History!Edit \/ History!Continue)
<1> DEFINE r == Run(cmds, doc, row)
<1>1. /\ doc' = r.doc /\ UNCHANGED <<stuck, saved>>
      /\ \/ /\ stuck
            /\ spoilt' = (spoilt \/ r.bad)
            /\ UNCHANGED <<stack, index, clean, texts>>
         \/ ~stuck /\ ~macro /\ Mergeable(r.cmds[1]) /\ Continue(r)
         \/ ~stuck /\ Enter(r, macro)
  BY Zenon DEF Push
<1>2. ~r.bad
  BY <1>1 DEF Continue, Enter
<1>3. doc \in Text
  BY RecordedIs
<1>4. Carries(r.cmds, doc, r.doc) /\ r.doc \in Text /\ Len(r.cmds) = Len(cmds)
  BY <1>2, <1>3, RunDone
<1> HIDE DEF r
<1>5. CASE stuck /\ UNCHANGED <<stack, index, clean, texts>>
  BY <1>1, <1>4, <1>5, StuckStep
<1>6. CASE ~stuck /\ ~macro /\ Mergeable(r.cmds[1]) /\ Continue(r)
  BY <1>1, <1>4, <1>6, ContinueStep
<1>7. CASE ~stuck /\ Enter(r, macro)
  BY <1>1, <1>4, <1>7, EnterStep
<1> QED BY <1>1, <1>5, <1>6, <1>7

\* One command.
LEMMA GivenOne ==
  ASSUME NEW c, NEW d, Given(c, d)
  PROVE  GivenRun(<<c>>, d) /\ Len(<<c>>) = 1
  BY Pairs DEF GivenRun

\* A removal and an insertion.
LEMMA GivenTwo ==
  ASSUME NEW c, NEW d, Given(c, d), NEW o, o.type = "insert", GivenInsertion(o)
  PROVE  GivenRun(<<c, o>>, d)
  BY Pairs DEF GivenRun

\* What is typed and pasted has a line.
LEMMA FullOf ==
  ASSUME NEW t \in Text, t # << >>
  PROVE  t \in Full
<1>1. Length(t) \in Nat /\ Length(t) # 0
  BY LengthNat, NilLength, TextIsList DEF Nil
<1> QED BY <1>1 DEF Full

\* A text inserted at any place is a command the user may give.
LEMMA InsertGivenAt ==
  ASSUME NEW r \in Nat, r >= 1, NEW c \in Nat, NEW t \in Full
  PROVE  /\ InsertCommand(r, c, t).type = "insert" /\ GivenInsertion(InsertCommand(r, c, t))
         /\ \A d : Given(InsertCommand(r, c, t), d)
<1> DEFINE i == InsertCommand(r, c, t)
<1>1. i.type = "insert" /\ i.line = r /\ i.pos = c /\ i.text = t
      /\ i = Insertion(i.line, i.pos, i.text, i.blankLines, i.blankChars)
  BY DEF InsertCommand, Insertion
<1> HIDE DEF i
<1>2. GivenInsertion(i)
  BY <1>1 DEF GivenInsertion
<1> QED BY <1>1, <1>2 DEF Given, i

\* What is typed is one.
LEMMA InsertGiven ==
  ASSUME NEW r \in Rows, NEW c \in Cols, NEW t \in Typed
  PROVE  /\ InsertCommand(r, c, t).type = "insert" /\ GivenInsertion(InsertCommand(r, c, t))
         /\ \A d : Given(InsertCommand(r, c, t), d)
<1>1. r \in Nat /\ r >= 1 /\ c \in Nat
  BY BoundsAssumption DEF Rows, Cols
<1>2. t \in Full
  BY FullOf, TextsAssumption
<1> QED BY <1>1, <1>2, InsertGivenAt

\* What a selection holds has a line.
LEMMA SelectionIs ==
  ASSUME NEW d \in Text, NEW line \in 1 .. Length(d), NEW pos \in 0 .. Length(At(d, line)),
         NEW k \in Int
  PROVE  RemoveText(d, line, pos, 0, 0, k).removed \in Full
<1> DEFINE a == Upto(d, line - 1)
           p == Upto(At(d, line), pos)
           s == Cut(d, line, pos, k)
<1>1. /\ s \in Reached(a, p, d)
      /\ RemoveText(d, line, pos, 0, 0, k) = [doc |-> s.doc, removed |-> s.removed]
  BY RemovePlain
<1> HIDE DEF s, a, p
<1> QED BY <1>1, StatesAre DEF Reached, Open, Gone

\* So is a removal on a line of the text ...
LEMMA RemoveGiven ==
  ASSUME NEW d \in Text, NEW r \in 1 .. Length(d), NEW c \in Nat, NEW n \in Nat, n >= 1, NEW keep
  PROVE  Given(RemoveCommand(r, c, n, keep), d)
<1> DEFINE i == RemoveCommand(r, c, n, keep)
<1>1. i.type = "remove" /\ i.line = r /\ i.pos = c /\ i.count = n
      /\ i = Removal(i.line, i.pos, i.count, i.keep, i.removed)
  BY DEF RemoveCommand, Removal
<1> HIDE DEF i
<1>2. GivenRemoval(i, d)
  BY <1>1 DEF GivenRemoval
<1> QED BY <1>1, <1>2 DEF Given, i

\* ... a rectangular selection removed ...
LEMMA RemoveBlockGiven ==
  ASSUME NEW d \in Text, NEW r \in 1 .. Length(d), NEW b \in r .. Length(d), NEW c \in Nat, NEW e \in Nat
  PROVE  Given(RemoveBlockCommand(r, b, c, e), d)
<1> DEFINE i == RemoveBlockCommand(r, b, c, e)
<1>1. i.type = "removeBlock" /\ i.top = r /\ i.bottom = b /\ i.left = c /\ i.right = e
      /\ i = BlockRemoval(i.top, i.bottom, i.left, i.right, i.previous)
  BY DEF RemoveBlockCommand, BlockRemoval
<1> HIDE DEF i
<1>2. GivenBlockRemoval(i, d)
  BY <1>1 DEF GivenBlockRemoval
<1> QED BY <1>1, <1>2 DEF Given, i

\* ... a block pasted ...
LEMMA InsertBlockGiven ==
  ASSUME NEW r \in Rows, NEW c \in Cols, NEW block \in Blocks, NEW d
  PROVE  Given(InsertBlockCommand(r, c, block), d)
<1> DEFINE i == InsertBlockCommand(r, c, block)
<1>1. r \in Nat /\ r >= 1 /\ c \in Nat
  BY BoundsAssumption DEF Rows, Cols
<1>2. block \in Full
  BY FullOf, TextsAssumption
<1>3. i.type = "insertBlock" /\ i.row = r /\ i.col = c /\ i.block = block
      /\ i = BlockInsertion(i.row, i.col, i.block, i.previous, i.added)
  BY DEF InsertBlockCommand, BlockInsertion
<1> HIDE DEF i
<1>4. GivenBlockInsertion(i)
  BY <1>1, <1>2, <1>3 DEF GivenBlockInsertion
<1> QED BY <1>3, <1>4 DEF Given, i

\* ... a comment toggled ...
LEMMA CommentGiven ==
  ASSUME NEW d \in Text, NEW from \in 1 .. Length(d), NEW to \in from .. Length(d)
  PROVE  Given(ToggleCommentCommand(from, to), d)
<1> DEFINE i == ToggleCommentCommand(from, to)
<1>1. i.type = "comment" /\ i.from = from /\ i.to = to
      /\ i = Commenting(i.from, i.to, i.blanks, i.commented)
  BY DEF ToggleCommentCommand, Commenting
<1> HIDE DEF i
<1>2. GivenCommenting(i, d)
  BY <1>1 DEF GivenCommenting
<1> QED BY <1>1, <1>2 DEF Given, i

\* ... and an import.
LEMMA ImportGiven ==
  ASSUME NEW d
  PROVE  Given(InsertImportCommand, d)
<1> DEFINE i == InsertImportCommand
<1>1. i.type = "import" /\ i = Importing(i.line)
  BY DEF InsertImportCommand, Importing
<1> HIDE DEF i
<1> QED BY <1>1 DEF Given, GivenImporting, i

\* A push, as TextHistory sees it.
Pushes == Recorded' /\ (History!Edit \/ History!Continue)

\* A push of one command.
LEMMA OnePush ==
  ASSUME Recorded, spoilt = FALSE, ~spoilt', NEW STATE c, Given(c, doc), NEW macro \in BOOLEAN,
         NEW row \in Int, Push(<<c>>, macro, row)
  PROVE  Pushes
<1>1. GivenRun(<<c>>, doc) /\ Len(<<c>>) = 1
  BY GivenOne
<1> DEFINE cmds == <<c>>
<1>2. GivenRun(cmds, doc) /\ Len(cmds) = 1 /\ Push(cmds, macro, row)
  BY <1>1
<1> HIDE DEF cmds
<1> QED BY <1>2, PushStep DEF Pushes

\* A push of a removal and an insertion.
LEMMA TwoPush ==
  ASSUME Recorded, spoilt = FALSE, ~spoilt', NEW STATE c, Given(c, doc),
         NEW STATE o, o.type = "insert", GivenInsertion(o),
         NEW row \in Int, Push(<<c, o>>, TRUE, row)
  PROVE  Pushes
<1>1. GivenRun(<<c, o>>, doc)
  BY GivenTwo
<1> DEFINE cmds == <<c, o>>
<1>2. GivenRun(cmds, doc) /\ Push(cmds, TRUE, row)
  BY <1>1
<1> HIDE DEF cmds
<1> QED BY <1>2, PushStep DEF Pushes

\* The rows of the text.
LEMMA RowIs ==
  ASSUME Recorded, NEW r \in DOMAIN doc
  PROVE  /\ doc \in Text /\ r \in 1 .. Length(doc) /\ Length(doc) \in Nat /\ Len(doc) = Length(doc)
         /\ Len(doc[r]) \in Nat /\ r \in Int
<1>1. doc \in Text
  BY RecordedIs
<1>2. r \in 1 .. Length(doc) /\ doc[r] = At(doc, r) /\ At(doc, r) \in Line /\ Length(doc) \in Nat
  BY <1>1, LinesOf
<1>3. Len(doc[r]) \in Nat
  BY <1>2 DEF Line
<1> QED BY <1>1, <1>2, <1>3 DEF Length

\* Typing, dropping and pasting a block, at any place.
LEMMA TypeSteps ==
  ASSUME Recorded, spoilt = FALSE, ~spoilt', NEW r \in Rows, NEW c \in Cols,
         \/ \E t \in Typed : Type(r, c, t) \/ DropText(r, c, t)
         \/ \E block \in Blocks : PasteBlock(r, c, block)
  PROVE  Pushes
<1>0. r \in Int
  BY DEF Rows
<1>1. ASSUME NEW t \in Typed, Type(r, c, t) \/ DropText(r, c, t) PROVE Pushes
  <2> DEFINE i == InsertCommand(r, c, t)
  <2>1. Given(i, doc)
    BY InsertGiven
  <2>2. PICK macro \in BOOLEAN : Push(<<i>>, macro, r)
    BY <1>1 DEF Type, DropText
  <2> HIDE DEF i
  <2> QED BY <1>0, <2>1, <2>2, OnePush
<1>2. ASSUME NEW block \in Blocks, PasteBlock(r, c, block) PROVE Pushes
  <2> DEFINE i == InsertBlockCommand(r, c, block)
  <2>1. Given(i, doc)
    BY InsertBlockGiven
  <2>2. Push(<<i>>, FALSE, r)
    BY <1>2 DEF PasteBlock
  <2> HIDE DEF i
  <2> QED BY <1>0, <2>1, <2>2, OnePush
<1> QED BY <1>1, <1>2

\* A push of a removal.
LEMMA RemovePush ==
  ASSUME Recorded, spoilt = FALSE, ~spoilt', NEW STATE r, r \in 1 .. Length(doc), NEW STATE c, c \in Nat,
         NEW STATE n, n \in Nat, n >= 1, NEW keep, NEW row \in Int,
         Push(<<RemoveCommand(r, c, n, keep)>>, FALSE, row)
  PROVE  Pushes
<1> DEFINE i == RemoveCommand(r, c, n, keep)
<1>1. Given(i, doc)
  BY RecordedIs, RemoveGiven
<1>2. Push(<<i>>, FALSE, row)
  OBVIOUS
<1> HIDE DEF i
<1> QED BY <1>1, <1>2, OnePush

\* The commands that need a line of the text.
LEMMA OnLineSteps ==
  ASSUME Recorded, spoilt = FALSE, ~spoilt', NEW r \in Rows, NEW c \in Cols, r \in DOMAIN doc,
         OnLine(r, c)
  PROVE  Pushes
<1>0. /\ doc \in Text /\ r \in 1 .. Length(doc) /\ Length(doc) \in Nat /\ Len(doc) = Length(doc)
      /\ Len(doc[r]) \in Nat /\ r \in Int /\ c \in Nat
  BY RowIs, BoundsAssumption DEF Cols
<1>1. CASE Backspace(r, c)
  <2>1. CASE c \in 1 .. Len(doc[r]) /\ Push(<<RemoveCommand(r, c - 1, 1, FALSE)>>, FALSE, r)
    <3>1. c - 1 \in Nat /\ 1 \in Nat /\ 1 >= 1
      BY <1>0, <2>1
    <3> QED BY <1>0, <2>1, <3>1, RemovePush
  <2>2. CASE c = 0 /\ r > 1 /\ Push(<<RemoveCommand(r - 1, Len(doc[r - 1]), 1, FALSE)>>, FALSE, r)
    <3>1. r - 1 \in 1 .. Length(doc) /\ r - 1 \in DOMAIN doc /\ 1 \in Nat /\ 1 >= 1
      BY <1>0, <2>2, LinesOf
    <3>2. Len(doc[r - 1]) \in Nat
      BY <3>1, RowIs
    <3> QED BY <1>0, <2>2, <3>1, <3>2, RemovePush
  <2> QED BY <1>1, <2>1, <2>2 DEF Backspace
<1>2. CASE Delete(r, c)
  <2>1. Push(<<RemoveCommand(r, c, 1, TRUE)>>, FALSE, r)
    BY <1>2, Zenon DEF Delete
  <2>2. 1 \in Nat /\ 1 >= 1
    OBVIOUS
  <2> QED BY <1>0, <2>1, <2>2, RemovePush
<1>3. CASE RemoveLineTail(r, c)
  <2>1. /\ c < Len(doc[r])
        /\ Push(<<RemoveCommand(r, c, Len(doc[r]) - c, TRUE)>>, FALSE, r)
    BY <1>3 DEF RemoveLineTail
  <2>2. Len(doc[r]) - c \in Nat /\ Len(doc[r]) - c >= 1
    BY <1>0, <2>1
  <2> QED BY <1>0, <2>1, <2>2, RemovePush
<1>4. CASE RemoveLine(r)
  <2>1. Push(<<RemoveCommand(r, 0, Len(doc[r]) + 1, TRUE)>>, FALSE, r)
    BY <1>4 DEF RemoveLine
  <2>2. Len(doc[r]) + 1 \in Nat /\ Len(doc[r]) + 1 >= 1 /\ 0 \in Nat
    BY <1>0
  <2> QED BY <1>0, <2>1, <2>2, RemovePush
<1>5. ASSUME NEW n \in Spans(r, c),
             \/ RemoveSelectedText(r, c, n)
             \/ \E t \in Typed : TypeOver(r, c, n, t)
             \/ \E goal \in Goals : MoveText(r, c, n, goal)
      PROVE  Pushes
  <2>1. n \in Nat /\ n >= 1 /\ c <= Len(doc[r])
    BY DEF Spans
  <2>2. CASE RemoveSelectedText(r, c, n)
    BY <1>0, <2>1, <2>2, RemovePush DEF RemoveSelectedText
  <2>3. ASSUME NEW t \in Typed, TypeOver(r, c, n, t) PROVE Pushes
    <3> DEFINE o == InsertCommand(r, c, t)
               i == RemoveCommand(r, c, n, TRUE)
    <3>1. Push(<<i, o>>, TRUE, r)
      BY <2>3 DEF TypeOver
    <3>2. o.type = "insert" /\ GivenInsertion(o)
      BY InsertGiven
    <3>3. Given(i, doc)
      BY <1>0, <2>1, RemoveGiven
    <3> HIDE DEF i, o
    <3> QED BY <1>0, <3>1, <3>2, <3>3, TwoPush
  <2>4. ASSUME NEW goal \in Goals, MoveText(r, c, n, goal) PROVE Pushes
    <3> DEFINE t == SelectedText(r, c, n)
               o == InsertCommand(goal[1], goal[2], t)
               i == RemoveCommand(r, c, n, TRUE)
    <3>1. Push(<<i, o>>, TRUE, r)
      BY <2>4 DEF MoveText
    <3>2. t \in Full
      <4>1. doc[r] = At(doc, r)
        BY <1>0, LinesOf
      <4>2. c \in 0 .. Length(At(doc, r)) /\ n \in Int
        BY <1>0, <2>1, <4>1 DEF Length
      <4> QED BY <1>0, <4>2, SelectionIs DEF SelectedText
    <3>3. goal[1] \in Nat /\ goal[1] >= 1 /\ goal[2] \in Nat
      BY GoalsAssumption
    <3>4. o.type = "insert" /\ GivenInsertion(o)
      <4> HIDE DEF t
      <4> QED BY <3>2, <3>3, InsertGivenAt
    <3>5. Given(i, doc)
      BY <1>0, <2>1, RemoveGiven
    <3> HIDE DEF i, o
    <3> QED BY <1>0, <3>1, <3>4, <3>5, TwoPush
  <2> QED BY <1>5, <2>2, <2>3, <2>4
<1>6. ASSUME NEW b \in r + 1 .. Len(doc), NEW e \in c .. MaxCol,
             \/ RemoveSelectedBlock(r, c, b, e)
             \/ \E t \in Typed : TypeOverBlock(r, c, b, e, t)
      PROVE  Pushes
  <2> DEFINE i == RemoveBlockCommand(r, b, c, e)
  <2>1. b \in r .. Length(doc) /\ e \in Nat
    BY <1>0, BoundsAssumption
  <2>2. Given(i, doc)
    BY <1>0, <2>1, RemoveBlockGiven
  <2>3. CASE RemoveSelectedBlock(r, c, b, e)
    <3>1. Push(<<i>>, FALSE, r)
      BY <2>3 DEF RemoveSelectedBlock
    <3> HIDE DEF i
    <3> QED BY <1>0, <2>2, <3>1, OnePush
  <2>4. ASSUME NEW t \in Typed, TypeOverBlock(r, c, b, e, t) PROVE Pushes
    <3> DEFINE o == InsertCommand(r, c, t)
    <3>1. Push(<<i, o>>, TRUE, r)
      BY <2>4 DEF TypeOverBlock
    <3>2. o.type = "insert" /\ GivenInsertion(o)
      BY InsertGiven
    <3> HIDE DEF i, o
    <3> QED BY <1>0, <2>2, <3>1, <3>2, TwoPush
  <2> QED BY <1>6, <2>3, <2>4
<1> QED BY <1>1, <1>2, <1>3, <1>4, <1>5, <1>6 DEF OnLine

\* A comment toggled.
LEMMA CommentSteps ==
  ASSUME Recorded, spoilt = FALSE, ~spoilt', NEW from \in DOMAIN doc, NEW to \in DOMAIN doc,
         from <= to, ToggleComment(from, to)
  PROVE  Pushes
<1> DEFINE i == ToggleCommentCommand(from, to)
<1>1. from \in 1 .. Length(doc) /\ to \in from .. Length(doc) /\ doc \in Text /\ from \in Int
  BY RowIs
<1>2. Given(i, doc)
  BY <1>1, CommentGiven
<1>3. Push(<<i>>, FALSE, from)
  BY DEF ToggleComment
<1> HIDE DEF i
<1> QED BY <1>1, <1>2, <1>3, OnePush

\* An import inserted.
LEMMA ImportSteps ==
  ASSUME Recorded, spoilt = FALSE, ~spoilt', InsertImport
  PROVE  Pushes
<1> DEFINE i == InsertImportCommand
<1>1. Given(i, doc) /\ 1 \in Int
  BY ImportGiven
<1>2. Push(<<i>>, FALSE, 1)
  BY DEF InsertImport
<1> HIDE DEF i
<1> QED BY <1>1, <1>2, OnePush

-----------------------------------------------------------------------------
(* The theorems *)

\* The inductive invariant.
IInv == Recorded /\ edits \in 0 .. MaxEdits /\ spoilt = FALSE

\* Every change is counted.
LEMMA NextCounts ==
  ASSUME Next, spoilt \in BOOLEAN
  PROVE  /\ edits' = edits \/ (edits < MaxEdits /\ edits' = edits + 1)
         /\ spoilt' \in BOOLEAN
<1> DEFINE Counted == edits < MaxEdits /\ edits' = edits + 1 /\ spoilt' \in BOOLEAN
<1>1. ASSUME NEW STATE cmds, NEW STATE macro, NEW STATE row, Push(cmds, macro, row) PROVE Counted
  <2>1. edits < MaxEdits /\ edits' = edits + 1
    BY <1>1, Zenon DEF Push
  <2>2. spoilt' \in BOOLEAN
    BY <1>1, Zenon DEF Push, Continue, Enter
  <2> QED BY <2>1, <2>2
<1> HIDE DEF Counted
<1>2. ASSUME NEW r \in Rows, NEW c \in Cols,
             \/ \E t \in Typed : Type(r, c, t) \/ DropText(r, c, t)
             \/ \E block \in Blocks : PasteBlock(r, c, block)
      PROVE  Counted
  BY <1>1, <1>2, Zenon DEF Type, DropText, PasteBlock
<1>3. ASSUME NEW r, NEW c, OnLine(r, c) PROVE Counted
  BY <1>1, <1>3, Zenon
     DEF OnLine, Backspace, Delete, RemoveLineTail, RemoveLine, RemoveSelectedText, TypeOver,
         MoveText, RemoveSelectedBlock, TypeOverBlock
<1>4. ASSUME NEW from, NEW to, ToggleComment(from, to) PROVE Counted
  BY <1>1, <1>4, Zenon DEF ToggleComment
<1>5. ASSUME InsertImport PROVE Counted
  BY <1>1, <1>5, Zenon DEF InsertImport
<1>6. ASSUME DropAway \/ Undo \/ (\E r \in Rows : Redo(r)) \/ Save PROVE edits' = edits /\ spoilt' \in BOOLEAN
  BY <1>6, Zenon DEF DropAway, Undo, Redo, Save
<1>7. Counted \/ (edits' = edits /\ spoilt' \in BOOLEAN)
  BY <1>2, <1>3, <1>4, <1>5, <1>6, Zenon DEF Next
<1> QED BY <1>7 DEF Counted

\* Every step of a careful user is a step of the history.
LEMMA NextSteps ==
  ASSUME Recorded, spoilt = FALSE, Next, ~spoilt'
  PROVE  Recorded' /\ History!HistoryNext
<1>1. ASSUME Pushes PROVE Recorded' /\ History!HistoryNext
  BY <1>1 DEF Pushes, History!HistoryNext
<1>2. ASSUME NEW r \in Rows, NEW c \in Cols,
             \/ \E t \in Typed : Type(r, c, t) \/ DropText(r, c, t)
             \/ \E block \in Blocks : PasteBlock(r, c, block)
             \/ r \in DOMAIN doc /\ OnLine(r, c)
      PROVE  Recorded' /\ History!HistoryNext
  <2>1. CASE \/ \E t \in Typed : Type(r, c, t) \/ DropText(r, c, t)
             \/ \E block \in Blocks : PasteBlock(r, c, block)
    BY <1>1, <2>1, TypeSteps
  <2>2. CASE r \in DOMAIN doc /\ OnLine(r, c)
    BY <1>1, <2>2, OnLineSteps
  <2> QED BY <1>2, <2>1, <2>2
<1>3. ASSUME NEW from \in DOMAIN doc, NEW to \in DOMAIN doc, from <= to, ToggleComment(from, to)
      PROVE  Recorded' /\ History!HistoryNext
  BY <1>1, <1>3, CommentSteps
<1>4. CASE InsertImport
  BY <1>1, <1>4, ImportSteps
<1>5. CASE DropAway
  BY <1>5, DropStep DEF History!HistoryNext
<1>6. CASE Undo
  BY <1>6, UndoStep DEF History!HistoryNext
<1>7. ASSUME NEW r \in Rows, Redo(r) PROVE Recorded' /\ History!HistoryNext
  <2>1. r \in Int
    BY DEF Rows
  <2> QED BY <1>7, <2>1, RedoStep DEF History!HistoryNext
<1>8. CASE Save
  BY <1>8, SaveStep DEF History!HistoryNext
<1> QED BY <1>2, <1>3, <1>4, <1>5, <1>6, <1>7, <1>8, Zenon DEF Next

\* The editor opens a text.
LEMMA InitNow ==
  ASSUME Init
  PROVE  IInv /\ History!HistoryInit
<1> DEFINE t == FirstText
           ts == One(t)
           s == Nil
<1>1. /\ doc = t /\ stack = s /\ index = 0 /\ clean = 0 /\ stuck = FALSE
      /\ texts = ts /\ saved = t /\ spoilt = FALSE /\ edits = 0
  BY DEF Init, One, Nil
<1>2. t \in Text
  BY TextsAssumption
<1> HIDE DEF t, s
<1>3. ts \in List(Text) /\ Length(ts) = 1 /\ At(ts, 1) = t
  BY <1>2, OneType
<1>4. s \in List(Elements(s)) /\ Length(s) = 0
  BY NilType DEF s
<1> HIDE DEF ts
<1>5. Stacked(s, ts, 0)
  BY <1>3, <1>4 DEF Stacked, Shapes, Chain
<1>6. Remembers(t, s, 0, 0, FALSE, ts, t)
  BY <1>2, <1>3, <1>4, <1>5 DEF Remembers
<1>7. Recorded
  BY <1>1, <1>6 DEF Recorded
<1>8. edits \in 0 .. MaxEdits
  BY <1>1, BoundsAssumption
<1>9. PastNow = << >> /\ FutureNow = << >>
  <2>1. PastNow = << >>
    BY <1>1, <1>7, PastIs
  <2>2. Coming(ts, 0) = << >>
    BY <1>3, NoFuture
  <2> QED BY <1>1, <2>1, <2>2 DEF FutureNow, Coming
<1>10. History!HistoryInit
  BY <1>1, <1>2, <1>9 DEF History!HistoryInit, PastNow, FutureNow
<1> QED BY <1>1, <1>7, <1>8, <1>10 DEF IInv

\* A step or a stutter.
LEMMA CarefulStep ==
  ASSUME IInv, [Next /\ ~spoilt']_vars
  PROVE  IInv' /\ [History!HistoryNext]_(History!history)
<1>1. CASE Next /\ ~spoilt'
  <2>1. Recorded' /\ History!HistoryNext
    BY <1>1, NextSteps DEF IInv
  <2>2. edits' \in 0 .. MaxEdits
    <3>1. spoilt \in BOOLEAN
      BY DEF IInv
    <3>2. edits' = edits \/ (edits < MaxEdits /\ edits' = edits + 1)
      BY <1>1, <3>1, NextCounts
    <3> QED BY <3>2, BoundsAssumption DEF IInv
  <2>3. spoilt' = FALSE
    <3>1. spoilt' \in BOOLEAN
      BY <1>1, NextCounts DEF IInv
    <3> QED BY <1>1, <3>1
  <2> QED BY <2>1, <2>2, <2>3 DEF IInv
<1>2. CASE UNCHANGED vars
  BY <1>2 DEF vars, IInv, Recorded, History!history
<1> QED BY <1>1, <1>2

\* What the invariant says of the properties.
LEMMA InvType ==
  ASSUME IInv
  PROVE  TypeOK /\ CleanIsSaved
<1>1. TypeOK
  <2>1. /\ doc \in Text /\ stuck \in BOOLEAN
        /\ index \in Nat /\ index <= Length(stack) /\ Length(stack) \in Nat
        /\ Length(texts) = Length(stack) + 1 /\ clean \in -1 .. Length(stack)
    BY RecordedIs DEF IInv
  <2>2. spoilt \in BOOLEAN /\ edits \in 0 .. MaxEdits
    BY DEF IInv
  <2>3. index \in 0 .. Length(stack)
    BY <2>1
  <2> QED BY <2>1, <2>2, <2>3, Zenon DEF TypeOK, Length
<1>2. CleanIsSaved
  <2> SUFFICES ASSUME ~stuck, clean = Len(PastNow) PROVE doc = saved
    BY DEF CleanIsSaved, History!UnmodifiedIsSaved, History!Modified, PastNow
  <2>1. clean = index /\ index \in Nat
    BY PastIs, RecordedIs DEF IInv
  <2>2. doc = At(texts, index + 1) /\ saved = At(texts, clean + 1)
    BY <2>1 DEF IInv, Recorded, Remembers
  <2> QED BY <2>1, <2>2
<1> QED BY <1>1, <1>2

\* The inductive invariant holds: the stack of QUndoStack always leads through
\* the texts that were seen.
THEOREM CarefulInvariant == CarefulSpec => []IInv
<1>1. Init => IInv
  BY InitNow
<1>2. IInv /\ [Next /\ ~spoilt']_vars => IInv'
  BY CarefulStep
<1> QED BY <1>1, <1>2, PTL DEF CarefulSpec

\* The shapes of the editor's state, for every text and however many edits.
THEOREM EditorTypes == CarefulSpec => []TypeOK
<1>1. IInv => TypeOK
  BY InvType
<1> QED BY <1>1, CarefulInvariant, PTL

\* A text that is not called modified (isModified) is the one in the file,
\* whatever was undone, redone and merged since it was saved.
THEOREM CleanTextIsSaved == CarefulSpec => []CleanIsSaved
<1>1. IInv => CleanIsSaved
  BY InvType
<1> QED BY <1>1, CarefulInvariant, PTL

\* The editor of a careful user keeps a history of the text: each undo restores
\* exactly the text before the command, each redo the text after it.
THEOREM EditorKeepsHistory == CarefulSpec => ImplementsHistory
<1>1. Init => History!HistoryInit
  BY InitNow
<1>2. IInv /\ [Next /\ ~spoilt']_vars => [History!HistoryNext]_(History!history)
  BY CarefulStep
<1> QED BY <1>1, <1>2, CarefulInvariant, PTL DEF CarefulSpec, ImplementsHistory, History!HistorySpec

=============================================================================
