----------------------------- MODULE MCWindows -----------------------------
(***************************************************************************)
(* The four windows for TLC: three acts of the author and three requests   *)
(* for the report, two edits and two requests for the memo, three          *)
(* questions for the chat, four nodes for the mindmap.                     *)
(***************************************************************************)
EXTENDS Windows, TLC

\* A report that was empty, and one that was filled in from the template.
MCBodies == {{}, {0}}

\* A chain of three nodes, and a parent with two children that is folded.
MCSaved == {[nodes |-> {1, 2, 3}, edges |-> {<<1, 2>>, <<2, 3>>}, shut |-> {}],
            [nodes |-> {1, 2, 3}, edges |-> {<<1, 2>>, <<1, 3>>}, shut |-> {1}]}
=============================================================================
