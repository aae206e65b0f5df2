----------------------------- MODULE MCForward ------------------------------
(***************************************************************************)
(* One connection, accepted at either end, with four bytes one way, which  *)
(* exceed a window of three and take several packets, and one byte the     *)
(* other way; and two connections, accepted at different ends or at the    *)
(* same one, that use two slots at once or one after the other.            *)
(***************************************************************************)
EXTENDS ForwardFlow
Stream(n, m) == [e \in End |-> IF e = "client" THEN n ELSE m]
MCLoads == [openers : [1..1 -> End], bytes : {Stream(4, 1)}] \cup
           [openers : [1..2 -> End], bytes : {Stream(1, 0)}]
=============================================================================
