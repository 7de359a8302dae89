------------------------------ MODULE MCBoards ------------------------------
(* Two boards of one source, a worker that polls and the user at the page.   *)
EXTENDS Boards

MCSourceOf == [b \in Boards |-> CHOOSE k \in Sources : TRUE]
=============================================================================
