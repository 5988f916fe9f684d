--------------------------- MODULE MCNoteEditing ---------------------------
(***************************************************************************)
(* Instances of NoteEditing for TLC: one page, and each of the three tabs. *)
(***************************************************************************)
EXTENDS NoteEditing

CONSTANT a   \* the page

OnePage == {a}
AllKinds == {"body", "mindmap", "drawio"}
TextTab == {"body"}
=============================================================================
