---------------------------- MODULE MCEditorUndo ----------------------------
(* A text of two short lines, one a comment; a letter or a line break is *)
(* typed, or two lines are pasted; a selection is dragged to a place     *)
(* beyond the end of its line or, with fewer lines, below the text.      *)
EXTENDS EditorUndo

FirstLines == << <<"a", "b">>, <<Bar>> >>
Letters == {"a", "b", "x", Blank, Bar}
Keys == {<< <<"x">> >>, NewLine, << <<"x">>, <<"x">> >>}
ImportLine == <<"x">>
OneBlock == {<< <<"x">>, <<"x">> >>}
DraggedTo == {<<2, 3>>}

=============================================================================
