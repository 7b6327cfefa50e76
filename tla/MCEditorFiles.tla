---------------------------- MODULE MCEditorFiles ----------------------------
(* Two files, three texts, and a history that holds two entries. *)
EXTENDS EditorFiles

CONSTANTS f, g, a, b, empty, none

MCIds == {f, g}
MCTexts == {empty, a, b}

\* Neither the names nor the texts but the empty one are told apart.
MCSymmetry == Permutations({f, g}) \union Permutations({a, b})
=============================================================================
