---------------------------- MODULE ForwardFlow -----------------------------
(***************************************************************************)
(* Each direction of a forwarded connection implements FlowControl: the    *)
(* refinement mapping counts the bytes in the messages on the wire and     *)
(* reads the other variables off the two channels.  It is stated for the   *)
(* loads with a single connection; in the others nothing is opened.        *)
(***************************************************************************)
EXTENDS Forward
LOCAL INSTANCE Functions

Single == Len(load.openers) = 1

\* The sum of f over the messages on their way to e.
Total(e, f(_)) ==
    IF ~Single THEN 0
    ELSE FoldFunction(LAMBDA x, y : x + y, 0, [k \in DOMAIN wire[e] |-> f(wire[e][k])])

DataBytes(m) == IF m.type = "DATA" THEN Len(m.bytes) ELSE 0
Increment(m) == IF m.type = "ADJUST" THEN m.incr ELSE 0

\* e has a channel for the connection, does not have it yet, or not any more.
Has(e) == Single /\ \E i \in Slots : conn[e][i] = 1
NotYet(e) == ~Single \/ opened = 0 \/ \E k \in DOMAIN wire[e] : wire[e][k].type = "OPEN"
Gone(e) == ~Has(e) /\ ~NotYet(e)
Chan(e) == chans[e][CHOOSE i \in Slots : conn[e][i] = 1]

\* e has not learnt its window: the first one is still to come.
Ungranted(e) == NotYet(e) \/ (Has(e) /\ Chan(e).await_open)

TransWindow(s) == IF Has(s) THEN Chan(s).transwindow ELSE 0
Credit(s) == IF Ungranted(s) THEN RecvWindow
             ELSE IF Gone(s) THEN 0 ELSE Total(s, Increment)
\* A channel whose connect is pending will have a descriptor.
Writable(r) == NotYet(r) \/ (Has(r) /\ Chan(r).writefd # FD_CLOSED)
\* When the receiver is gone its last counts no longer matter.
Counts(r) == IF Has(r) THEN [win |-> Chan(r).recvwindow, used |-> Len(Chan(r).writebuf),
                             done |-> Chan(r).recvdonelen]
             ELSE [win |-> RecvWindow, used |-> 0, done |-> 0]

ToServer == INSTANCE FlowControl WITH
    Window <- RecvWindow, Extend <- RECV_WINDOWEXTEND,
    transwindow <- TransWindow("client"), credit <- Credit("client"),
    inflight <- Total("server", DataBytes),
    recvwindow <- Counts("server").win, used <- Counts("server").used,
    recvdonelen <- Counts("server").done, writable <- Writable("server"),
    sending <- ~Gone("client"), receiving <- ~Gone("server")

ToClient == INSTANCE FlowControl WITH
    Window <- RecvWindow, Extend <- RECV_WINDOWEXTEND,
    transwindow <- TransWindow("server"), credit <- Credit("server"),
    inflight <- Total("client", DataBytes),
    recvwindow <- Counts("client").win, used <- Counts("client").used,
    recvdonelen <- Counts("client").done, writable <- Writable("client"),
    sending <- ~Gone("server"), receiving <- ~Gone("client")

(***************************************************************************)
(* The channel code, as it interleaves with opening, end of file, failed   *)
(* writes and closing, manages the windows of both directions the way      *)
(* FlowControl promises.                                                   *)
(***************************************************************************)
ImplementsFlowControl == ToServer!Spec /\ ToClient!Spec
=============================================================================
