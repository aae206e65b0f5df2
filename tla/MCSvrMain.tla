----------------------------- MODULE MCSvrMain ------------------------------
(***************************************************************************)
(* Four connections, two of them from one address, at two sockets: more    *)
(* than the two slots and the one per address allow.                       *)
(***************************************************************************)
EXTENDS SvrMain
MCAddr == [c \in Conns |-> IF c \in {"c1", "c2"} THEN "a" ELSE c]
=============================================================================
