------------------------------ MODULE Session ------------------------------
(***************************************************************************)
(* A session channel: dbclient with its three standard descriptors on one  *)
(* side, the server's "session" type with the child process it runs on the *)
(* other (svr-chansession.c, cli-chansession.c over common-channel.c).     *)
(* The command runs with three pipes, or on a pty whose master descriptor  *)
(* serves both directions.  Byte k of a stream is the number k.            *)
(***************************************************************************)
EXTENDS ChannelOps

CONSTANT Loads         \* bounds: see load

\* By exit(), by a signal in signames[], by a signal that is not in it.
ExitKinds == {"exit-status", "exit-signal", "unnamed"}
Streams == {"out", "err"}
ASSUME SessionAssumption ==
    \A l \in Loads :
       /\ l.wantpty \in BOOLEAN /\ l.exits \subseteq ExitKinds /\ l.exits # {}
       /\ l.input \in Nat /\ l.output \in [Streams -> Nat] /\ l.winches \in Nat

VARIABLES load,     \* wantpty: dbclient -t; input: bytes on its standard input;
                    \* output[s]: bytes written to stream s; exits: how the
                    \* child may end; winches: window size changes
          chans,    \* the session's channel at each endpoint, or NULL
          wire,     \* wire[e]: messages on their way to e
          term,     \* chansess: no "term", a "term" without a pty, a "pty"
          child,    \* "none", "running", "exited" (zombie), "reaped"
          how,      \* how it ended
          sigpipe,  \* SIGCHLD wrote to ses.signal_pipe
          writers,  \* streams some process still has open for writing
          pipe,     \* pipe[s]: bytes in the pipe (or pty), not yet read
          made,     \* made[s]: bytes written to the stream so far
          atexit,   \* made, when the child exited
          typed,    \* bytes the client has read from its standard input
          fed,      \* bytes written to the child's standard input
          shown,    \* shown[s]: bytes written to the client's stdout, stderr
          report,   \* exit requests that the client has received
          broken,   \* streams on which a write failed
          winches,  \* window changes so far
          exited    \* "no", or why an endpoint called dropbear_exit

vars == <<load, chans, wire, term, child, how, sigpipe, writers, pipe, made, atexit,
          typed, fed, shown, report, broken, winches, exited>>

End == {"client", "server"}
Peer(e) == CHOOSE f \in End : f # e
cli == chans["client"]
svr == chans["server"]

\* The client's descriptors, and the parent's ends of the child's pipes or pty.
STDIN == 0
STDOUT == 1
STDERR == 2
FD_IN == 4
FD_OUT == 5
FD_ERR == 6
MASTER == 7
StreamOf(fd) == IF fd \in {FD_ERR, STDERR} THEN "err" ELSE "out"

None == [s \in Streams |-> 0]

\* cli_send_chansess_request has just opened the channel.
Init ==
    /\ load \in Loads
    /\ chans = [client |-> [NewChannel(0, 0, 0) EXCEPT
                              !.readfd = STDIN, !.writefd = STDIN,
                              !.bidir_fd = TRUE, !.await_open = TRUE],
                server |-> NULL]
    /\ wire = [client |-> << >>, server |-> <<Open(0, "session")>>]
    /\ term = "none" /\ child = "none" /\ how = "running" /\ sigpipe = FALSE
    /\ writers = {} /\ pipe = [s \in Streams |-> << >>]
    /\ made = None /\ atexit = None /\ typed = 0 /\ fed = << >>
    /\ shown = [s \in Streams |-> << >>] /\ report = << >>
    /\ broken = {} /\ winches = 0 /\ exited = "no"

-----------------------------------------------------------------------------
(***************************************************************************)
(* The processes on the server (external).                                 *)
(***************************************************************************)
Running == exited = "no"
Reading(s) == svr # NULL /\ \E fd \in {svr.readfd, svr.errfd} : fd >= 0 /\ StreamOf(fd) = s

ProcessWrites(s) ==
    /\ Running /\ s \in writers /\ Reading(s) /\ made[s] < load.output[s]
    /\ made' = [made EXCEPT ![s] = @ + 1]
    /\ pipe' = [pipe EXCEPT ![s] = Append(@, made[s] + 1)]
    /\ UNCHANGED <<chans, wire, term, child, how, sigpipe, writers, atexit, typed,
                   fed, shown, report, broken, winches, exited, load>>

\* The child closes an output while it runs, or the last background process
\* that held the child's outputs open ends.
StreamEnds(gone) ==
    /\ Running /\ gone # {} /\ gone \subseteq writers
    /\ child = "running" \/ gone = writers
    /\ writers' = writers \ gone
    /\ UNCHANGED <<chans, wire, term, child, how, sigpipe, pipe, made, atexit, typed,
                   fed, shown, report, broken, winches, exited, load>>

\* The child exits; a background process may keep its outputs open
\* ("sleep 10&echo hello").  SIGCHLD: sesssigchild_handler.
ChildExits(kind, held) ==
    /\ Running /\ child = "running"
    /\ child' = "exited" /\ how' = kind /\ sigpipe' = TRUE
    /\ writers' = IF held THEN writers ELSE {}
    /\ atexit' = made
    /\ UNCHANGED <<chans, wire, term, pipe, made, typed, fed, shown, report, broken,
                   winches, exited, load>>

-----------------------------------------------------------------------------
(***************************************************************************)
(* Closing.  sesscheckclose allows it when no child was started or it has  *)
(* been reaped, and then turns on flushing; closechansess sends the exit   *)
(* status first.  c is the child's state, p the pipes' contents, when      *)
(* check_close runs.  The client's type has no such callback.              *)
(***************************************************************************)
\* Faulty variant: nothing is ever found to be pending.
NothingPending(p) == {}

fd_read_pending(p) ==
    {fd \in {FD_OUT, FD_ERR, MASTER} : p[StreamOf(fd)] # << >> \/ StreamOf(fd) \notin writers}

\* Faulty variant: flushing is not turned on.
NoFlushing(ch, c) == ch

sesscheckclose(ch, c) == [ch EXCEPT !.flushing = @ \/ c = "reaped"]

send_exitsignalstatus(ch, c) ==
    IF c = "reaped" /\ how # "unnamed" THEN <<Request(ch.remotechan, how)>> ELSE << >>

\* Faulty variant: the child is not waited for.
CloseUnreaped(ch, c, p) ==
    check_close_with(ch, TRUE, TRUE, fd_read_pending(p), send_exitsignalstatus(ch, c))

svr_check_close(ch, c, p) ==
    check_close_with(IF ch.sent_close THEN ch ELSE sesscheckclose(ch, c),
                     TRUE, c \in {"none", "reaped"}, fd_read_pending(p),
                     send_exitsignalstatus(ch, c))

CheckClose(e, ch) == IF e = "client" THEN check_close(ch)
                     ELSE svr_check_close(ch, child, pipe)

-----------------------------------------------------------------------------
Dispatches(e, type) == Running /\ wire[e] # << >> /\ Head(wire[e]).type = type
Reply(e, msgs) == wire' = [wire EXCEPT ![e] = Tail(@), ![Peer(e)] = @ \o msgs]
SetChannel(e, ch) == chans' = [chans EXCEPT ![e] = ch]
Checked(e, r) == SetChannel(e, IF r.removed THEN NULL ELSE r.ch)

processes == <<term, child, how, sigpipe, writers, pipe, made, atexit>>
logs == <<typed, fed, shown, report, broken, winches>>

\* getchannel_msg: the peer named a channel that does not exist.
Unknown(e) == chans[e] = NULL
dropbear_exit(why) ==
    /\ exited' = why /\ UNCHANGED <<chans, wire, processes, logs, load>>

\* recv_msg_channel_open with newchansess.
RecvOpen ==
    /\ Dispatches("server", "OPEN")
    /\ LET m == Head(wire["server"])
       IN  /\ SetChannel("server", NewChannel(m.sender, m.window, MaxPacket))
           /\ Reply("server", <<Confirm(m.sender, 0, RecvWindow)>>)
    /\ UNCHANGED <<processes, logs, exited, load>>

\* recv_msg_channel_open_confirmation with cli_initchansess.
RecvOpenConfirmation ==
    /\ Dispatches("client", "CONFIRM")
    /\ LET m == Head(wire["client"])
       IN  IF Unknown("client") \/ ~cli.await_open THEN dropbear_exit("unexpected reply")
           ELSE /\ SetChannel("client",
                     [cli EXCEPT !.await_open = FALSE, !.remotechan = m.sender,
                                 !.transwindow = m.window, !.transmaxpacket = MaxPacket,
                                 !.writefd = STDOUT, !.readfd = STDIN, !.errfd = STDERR,
                                 !.has_extrabuf = TRUE, !.bidir_fd = FALSE,
                                 !.open = {STDIN, STDOUT, STDERR}])
                /\ Reply("client",
                     (IF load.wantpty THEN <<Request(m.sender, "pty-req")>> ELSE << >>)
                       \o <<Request(m.sender, "shell")>>)
                /\ UNCHANGED <<processes, logs, exited, load>>

(***************************************************************************)
(* sessionpty: forbidden by the public key's options, no pty to be had, or *)
(* allocated.  sessioncommand: noptycommand or ptycommand; the fork fails, *)
(* there is no pty, or the child starts.  No reply is asked for.           *)
(***************************************************************************)
sessionpty == /\ term' \in {"none", "term", "pty"}
              /\ UNCHANGED <<chans, child, writers>>

noptycommand ==
    /\ SetChannel("server", [svr EXCEPT !.writefd = FD_IN, !.readfd = FD_OUT,
                                        !.errfd = FD_ERR, !.open = {FD_IN, FD_OUT, FD_ERR}])
    /\ writers' = Streams

ptycommand ==
    /\ SetChannel("server", [svr EXCEPT !.writefd = MASTER, !.readfd = MASTER,
                                        !.open = {MASTER}])
    /\ writers' = {"out"}

sessioncommand ==
    /\ UNCHANGED term
    /\ \/ UNCHANGED <<chans, child, writers>>
       \/ /\ child = "none" /\ term # "term"
          /\ child' = "running"
          /\ IF term = "none" THEN noptycommand ELSE ptycommand

RecvRequestServer ==
    /\ Dispatches("server", "REQUEST")
    /\ IF Unknown("server") THEN dropbear_exit("unknown channel")
       ELSE /\ CASE Head(wire["server"]).what = "pty-req" -> sessionpty
                 [] Head(wire["server"]).what = "shell" -> sessioncommand
                 [] OTHER -> UNCHANGED <<chans, term, child, writers>>
            /\ Reply("server", << >>)
            /\ UNCHANGED <<how, sigpipe, pipe, made, atexit, logs, exited, load>>

\* cli_chansessreq: the exit status becomes the client's own.
RecvRequestClient ==
    /\ Dispatches("client", "REQUEST")
    /\ IF Unknown("client") THEN dropbear_exit("unknown channel")
       ELSE /\ report' = Append(report, Head(wire["client"]).what)
            /\ Reply("client", << >>)
            /\ UNCHANGED <<chans, processes, typed, fed, shown, broken, winches, exited, load>>

RecvWindowAdjust(e) ==
    /\ Dispatches(e, "ADJUST")
    /\ IF Unknown(e) THEN dropbear_exit("unknown channel")
       ELSE /\ SetChannel(e, AddWindow(chans[e], Head(wire[e]).incr))
            /\ Reply(e, << >>)
            /\ UNCHANGED <<processes, logs, exited, load>>

\* recv_msg_channel_data at the server: the child's standard input.
RecvDataServer ==
    /\ Dispatches("server", "DATA")
    /\ LET bytes == Head(wire["server"]).bytes
           problem == DataProblem(svr, svr.writefd, "writebuf", bytes)
       IN  IF Unknown("server") THEN dropbear_exit("unknown channel")
           ELSE IF problem # "no" THEN dropbear_exit(problem)
           ELSE \E r \in ReceiveOutcomes(svr, svr.writefd, "writebuf", bytes) :
                  /\ SetChannel("server", r.ch)
                  /\ Reply("server", r.out)
                  /\ fed' = fed \o Front(svr.writebuf \o bytes, r.n)
                  /\ broken' = IF r.failed THEN broken \cup {"in"} ELSE broken
                  /\ UNCHANGED <<processes, typed, shown, report, winches, exited, load>>

\* At the client, recv_msg_channel_data and recv_msg_channel_extended_data.
RecvDataClient ==
    /\ Dispatches("client", "DATA") \/ Dispatches("client", "EXT_DATA")
    /\ LET m == Head(wire["client"])
           s == IF m.type = "DATA" THEN "out" ELSE "err"
           fd == IF m.type = "DATA" THEN cli.writefd ELSE cli.errfd
           buf == IF m.type = "DATA" THEN "writebuf" ELSE "extrabuf"
           problem == DataProblem(cli, fd, buf, m.bytes)
       IN  IF Unknown("client") THEN dropbear_exit("unknown channel")
           ELSE IF problem # "no" THEN dropbear_exit(problem)
           ELSE \E r \in ReceiveOutcomes(cli, fd, buf, m.bytes) :
                  /\ SetChannel("client", r.ch)
                  /\ Reply("client", r.out)
                  /\ shown' = [shown EXCEPT ![s] = @ \o Front(cli[buf] \o m.bytes, r.n)]
                  /\ broken' = IF r.failed THEN broken \cup {s} ELSE broken
                  /\ UNCHANGED <<processes, typed, fed, report, winches, exited, load>>

RecvEof(e) ==
    /\ Dispatches(e, "EOF")
    /\ LET r == CheckClose(e, [chans[e] EXCEPT !.recv_eof = TRUE])
       IN  IF Unknown(e) THEN dropbear_exit("unknown channel")
           ELSE /\ Checked(e, r) /\ Reply(e, r.out)
                /\ UNCHANGED <<processes, logs, exited, load>>

RecvClose(e) ==
    /\ Dispatches(e, "CLOSE")
    /\ LET r == CheckClose(e, [chans[e] EXCEPT !.recv_eof = TRUE, !.recv_close = TRUE])
       IN  IF Unknown(e) THEN dropbear_exit("unknown channel")
           ELSE /\ Checked(e, r) /\ Reply(e, r.out)
                /\ UNCHANGED <<processes, logs, exited, load>>

-----------------------------------------------------------------------------
\* Faulty variant: a second read in the same pass uses the window of select.
ReadStaleWindow(ch, fd, window, bytes) ==
    IF fd < 0 \/ window <= 0 \/ bytes = << >> THEN {}
    ELSE LET n == Lesser(Lesser(window, ch.transmaxpacket), Len(bytes))
             what == Front(bytes, n)
         IN  {ReadData(ch, IF StreamOf(fd) = "err" THEN ExtData(ch.remotechan, what)
                                                   ELSE Data(ch.remotechan, what), n)}

(***************************************************************************)
(* A pass of session_loop at the server: svr_chansess_checksignal reaps    *)
(* the child when the signal pipe was readable (sg), channelio reads both  *)
(* outputs, writes to the child, and ends in check_close.  What became     *)
(* ready after select is left for the next pass (Idle).                    *)
(***************************************************************************)
ReadPipe(ch, fd, window, bytes) ==
    IF fd < 0 \/ window = 0 THEN {}
    ELSE IF MaxRead(ch) = 0 THEN {Outcome([ch |-> ch, out |-> << >>], 0, FALSE)}
    ELSE IF bytes # << >>
    THEN LET n == Lesser(MaxRead(ch), Len(bytes))
             what == Front(bytes, n)
         IN  {ReadData(ch, IF StreamOf(fd) = "err" THEN ExtData(ch.remotechan, what)
                                                   ELSE Data(ch.remotechan, what), n)}
    ELSE IF StreamOf(fd) \notin writers THEN {ReadEnd(ch, fd)}
    ELSE {}

ReadOut == ReadPipe(svr, svr.readfd, svr.transwindow, pipe["out"])
ReadErr(ch) == ReadPipe(ch, ch.errfd, svr.transwindow, pipe["err"])
WriteIn(ch) == DrainOutcomes(ch, ch.writefd, "writebuf")

ServerPass(sg, o, er, wr) ==
    LET c == IF sg /\ child = "exited" THEN "reaped" ELSE child
        p == [out |-> Rest(pipe["out"], o.n), err |-> Rest(pipe["err"], er.n)]
        r == svr_check_close(wr.ch, c, p)
    IN  /\ sg \/ o.io \/ er.io \/ wr.io
        /\ child' = c /\ pipe' = p
        /\ sigpipe' = (sigpipe /\ ~sg)
        /\ Checked("server", r)
        /\ wire' = [wire EXCEPT !["client"] = @ \o o.out \o er.out \o wr.out \o r.out]
        /\ fed' = fed \o Front(svr.writebuf, wr.n)
        /\ broken' = IF wr.failed THEN broken \cup {"in"} ELSE broken
        /\ UNCHANGED <<term, how, writers, made, atexit, typed, shown, report, winches, exited, load>>

\* When select saw the signal it saw the child's output as well.
All(set, ch) == IF set = {} THEN {Idle(ch)} ELSE set
Some(sg, set, ch) == IF sg THEN All(set, ch) ELSE {Idle(ch)} \cup set

ServerLoop ==
    /\ Running /\ svr # NULL
    /\ \E sg \in {FALSE, sigpipe} : \E o \in Some(sg, ReadOut, svr) :
         \E er \in Some(sg, ReadErr(o.ch), o.ch) :
           \E wr \in {Idle(er.ch)} \cup WriteIn(er.ch) : ServerPass(sg, o, er, wr)

(***************************************************************************)
(* channelio at the client.                                                *)
(***************************************************************************)
ReadIn ==
    IF cli.readfd < 0 \/ cli.transwindow = 0 THEN {}
    ELSE {ReadEnd(cli, cli.readfd)} \cup
         {ReadData(cli, Data(cli.remotechan, [j \in 1..n |-> typed + j]), n) :
             n \in 1..Lesser(MaxRead(cli), load.input - typed)}
WriteOut(ch) == DrainOutcomes(ch, ch.writefd, "writebuf")
WriteErr(ch) == IF ch.has_extrabuf THEN DrainOutcomes(ch, ch.errfd, "extrabuf") ELSE {}

ClientPass(i, o, er) ==
    LET r == check_close(er.ch)
    IN  /\ i.io \/ o.io \/ er.io
        /\ Checked("client", r)
        /\ wire' = [wire EXCEPT !["server"] = @ \o i.out \o o.out \o er.out \o r.out]
        /\ typed' = typed + i.n
        /\ shown' = [out |-> shown["out"] \o Front(cli.writebuf, o.n),
                     err |-> shown["err"] \o Front(cli.extrabuf, er.n)]
        /\ broken' = broken \cup (IF o.failed THEN {"out"} ELSE {})
                            \cup (IF er.failed THEN {"err"} ELSE {})
        /\ UNCHANGED <<processes, fed, report, winches, exited, load>>

ClientLoop ==
    /\ Running /\ cli # NULL
    /\ \E i \in {Idle(cli)} \cup ReadIn : \E o \in {Idle(i.ch)} \cup WriteOut(i.ch) :
         \E er \in {Idle(o.ch)} \cup WriteErr(o.ch) : ClientPass(i, o, er)

\* SIGWINCH, handled from cli_sessionloop by cli_chansess_winchange.
WindowChange ==
    /\ Running /\ load.wantpty /\ winches < load.winches
    /\ cli # NULL /\ ~cli.await_open
    /\ winches' = winches + 1
    /\ wire' = [wire EXCEPT !["server"] = Append(@, Request(cli.remotechan, "window-change"))]
    /\ UNCHANGED <<chans, processes, typed, fed, shown, report, broken, exited, load>>

-----------------------------------------------------------------------------
ServerReceives == RecvOpen \/ RecvRequestServer \/ RecvWindowAdjust("server")
                    \/ RecvDataServer \/ RecvEof("server") \/ RecvClose("server")
ClientReceives == RecvOpenConfirmation \/ RecvRequestClient \/ RecvWindowAdjust("client")
                    \/ RecvDataClient \/ RecvEof("client") \/ RecvClose("client")

Next == \/ \E s \in Streams : ProcessWrites(s)
        \/ \E gone \in SUBSET Streams : StreamEnds(gone)
        \/ \E kind \in load.exits : \E held \in BOOLEAN : ChildExits(kind, held)
        \/ ServerReceives \/ ClientReceives
        \/ ServerLoop \/ ClientLoop \/ WindowChange

Spec == Init /\ [][Next]_vars

(***************************************************************************)
(* Fairness: the transport delivers, and each main loop keeps serving what *)
(* is ready; the client's output descriptors and the child's input keep    *)
(* taking data.  Nothing is assumed of the processes or of standard input. *)
(***************************************************************************)
Busy(e) == Running /\ wire[e] # << >>
ServerReady == Running /\ svr # NULL /\ (sigpipe \/ ReadOut \cup ReadErr(svr) \cup WriteIn(svr) # {})
ClientReady == Running /\ cli # NULL /\ WriteOut(cli) \cup WriteErr(cli) # {}

\* Passes that leave nothing ready aside.
ServesAll ==
    /\ ServerReady
    /\ \E o \in All(ReadOut, svr) : \E er \in All(ReadErr(o.ch), o.ch) :
         \E wr \in All(WriteIn(er.ch), er.ch) : ServerPass(sigpipe, o, er, wr)
WritesAll ==
    /\ ClientReady
    /\ \E i \in {Idle(cli)} \cup ReadIn : \E o \in All(WriteOut(i.ch), i.ch) :
         \E er \in All(WriteErr(o.ch), o.ch) : ClientPass(i, o, er)

FairSpec ==
    /\ Spec
    /\ []<>~Busy("server") \/ []<><<ServerReceives>>_vars
    /\ []<>~Busy("client") \/ []<><<ClientReceives>>_vars
    /\ []<>~ServerReady \/ []<><<ServesAll>>_vars
    /\ []<>~ClientReady \/ []<><<WritesAll>>_vars

-----------------------------------------------------------------------------
(***************************************************************************)
(* Neither endpoint ends the other's session: no message to a channel that *)
(* is gone, no data after EOF or beyond the window.  A window change is    *)
(* the exception: cli_chansess_winchange sends its request although the    *)
(* client's CLOSE is out, and the server may have removed the channel.     *)
(***************************************************************************)
NoProtocolError == exited = "no" \/ winches > 0

(***************************************************************************)
(* When the server's CLOSE arrives, the client has received the exit of    *)
(* the command: exactly one report, of the right kind, and none when no    *)
(* command was started or the signal has no name.                          *)
(***************************************************************************)
Reportable == IF child # "none" /\ how # "unnamed" THEN <<how>> ELSE << >>
ExitReported == (cli = NULL \/ cli.recv_close) => report = Reportable

(***************************************************************************)
(* Everything the command had written when it exited has been written to   *)
(* the client's stdout and stderr when the client is done (unless writing  *)
(* there failed): flushing mode drains the outputs although no EOF comes   *)
(* (check_close, fd_read_pending).                                         *)
(***************************************************************************)
FlushingDrains ==
    (cli = NULL /\ exited = "no" /\ child # "none" /\ broken \cap Streams = {})
       => \A s \in Streams : Len(shown[s]) >= atexit[s]

(***************************************************************************)
(* FlushingDrains for a command on pipes; and, on a pty as well, what the  *)
(* client shows is in order and has no gap.                                *)
(***************************************************************************)
OutputComplete ==
    /\ \A s \in Streams : \A k \in 1..Len(shown[s]) : shown[s][k] = k
    /\ term # "pty" => FlushingDrains

(***************************************************************************)
(* The standard input of a command on pipes is closed on EOF only after    *)
(* all that was typed has been written to it.  (On a pty the end of the    *)
(* output closes the master, and so the input as well.)                    *)
(***************************************************************************)
InputComplete ==
    (/\ svr # NULL /\ svr.recv_eof /\ svr.writefd = FD_CLOSED
     /\ term = "none" /\ child = "running" /\ "in" \notin broken)
      => Len(fed) = typed

(***************************************************************************)
(* Once the command has exited both channels are closed and removed, even  *)
(* though the client's standard input stays open and background processes  *)
(* keep the outputs open; unless the client cannot write its output, or    *)
(* the connection ended with a window change that came too late.  The      *)
(* server's channel may be left with both CLOSEs through: check_close      *)
(* looks whether it may be removed before it closes a writefd with         *)
(* buffered input, so that it goes in the pass that select next wakes the  *)
(* loop for.                                                               *)
(***************************************************************************)
Gone == exited # "no" \/ (cli = NULL /\ (svr = NULL \/ (svr.sent_close /\ svr.recv_close)))
ExitEndsSession == child = "exited" ~> (Gone \/ broken \cap Streams # {})

=============================================================================
