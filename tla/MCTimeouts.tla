---------------------------- MODULE MCTimeouts ------------------------------
(***************************************************************************)
(* Keepalives of two seconds at either end, both or neither, an idle time  *)
(* of five or none, with a channel and without; a duration of nine; and a  *)
(* client that sends nothing.                                              *)
(***************************************************************************)
EXTENDS Timeouts
Both(n) == [e \in End |-> n]
MCSettings ==
    [keepalive : [End -> {0, 2}], idle : {Both(0), Both(5)}, duration : {0},
     channel : BOOLEAN, silent : {FALSE}] \cup
    [keepalive : {Both(2)}, idle : {Both(0)}, duration : {9},
     channel : {TRUE}, silent : {FALSE}] \cup
    [keepalive : {Both(2)}, idle : {Both(2)}, duration : {2},
     channel : {FALSE}, silent : {TRUE}]
=============================================================================
