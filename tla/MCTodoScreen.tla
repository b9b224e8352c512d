----------------------------- MODULE MCTodoScreen -----------------------------
(***************************************************************************)
(* The same notes, seen in the terminal.                                   *)
(***************************************************************************)
EXTENDS MCTodoFiles, TodoScreen

MCDefault == [k \in MCKey |-> "p2"]
MCBuffers == {NoTags, Rank("p1")}
=============================================================================
