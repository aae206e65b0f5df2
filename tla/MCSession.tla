----------------------------- MODULE MCSession ------------------------------
(***************************************************************************)
(* Instances of Session.  Output: a command on pipes writes three bytes to *)
(* stdout and one to stderr, against a window of three, with background    *)
(* processes.  Duplex: a pty is asked for (and may be refused), input,     *)
(* output, every kind of exit and a window change.  PtyOutput: a pty and   *)
(* two bytes of output.                                                    *)
(***************************************************************************)
EXTENDS Session
Load(pty, in, out, err, ends, n) ==
    [wantpty |-> pty, input |-> in, output |-> [s \in Streams |-> IF s = "out" THEN out ELSE err],
     exits |-> ends, winches |-> n]
MCLoads == {Load(FALSE, 0, 3, 1, {"exit-status"}, 0), Load(TRUE, 1, 1, 0, ExitKinds, 1)}
MCPtyOutput == {Load(TRUE, 0, 2, 0, {"exit-status"}, 0)}
=============================================================================
