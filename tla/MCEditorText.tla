---------------------------- MODULE MCEditorText ----------------------------
(* A needle of one character, one of two and one that overlaps itself; the second
   occurs twice in what is made of a text of the undo list. Steps that wrap around in texts of these lengths, as those of 200 do in a text
   of 100 to 200 characters. *)
EXTENDS EditorText

MCNeedles == {<<"t">>, <<"q", "n">>, <<"q", "q">>}
MCOpened == {<<"t", "n", "t", "q">>}
MCRestored == {<<>>, <<"q", "n", "q">>}
=============================================================================
