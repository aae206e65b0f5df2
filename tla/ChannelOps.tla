----------------------------- MODULE ChannelOps -----------------------------
(***************************************************************************)
(* The part of common-channel.c that works on one struct Channel: what     *)
(* each function does to the channel and which messages it hands to        *)
(* encrypt_packet.  Every function that may send returns a record          *)
(* [ch, out]: the channel afterwards and the messages, in order.  Modules  *)
(* Forward and Session build their actions from these operators.           *)
(***************************************************************************)
EXTENDS Integers, Sequences, FiniteSets

CONSTANTS RecvWindow,   \* opts.recv_window
          MaxPacket,    \* RECV_MAX_CHANNEL_DATA_LEN, the largest data packet
          UintMax,      \* the largest unsigned int, 0xffffffff
          NULL          \* an unused entry of ses.channels

ASSUME WindowAssumption == RecvWindow \in Nat \ {0}
ASSUME UintAssumption == UintMax \in Nat /\ RecvWindow <= UintMax
ASSUME PacketAssumption == MaxPacket \in Nat \ {0}

FD_UNINIT == -2
FD_CLOSED == -1

RECV_WINDOWEXTEND == RecvWindow \div 3

Lesser(a, b) == IF a <= b THEN a ELSE b

\* The first n elements, and the rest.
Front(s, n) == SubSeq(s, 1, n)
Rest(s, n) == SubSeq(s, n + 1, Len(s))

-----------------------------------------------------------------------------
(***************************************************************************)
(* Messages.  chan is the recipient's channel number.                      *)
(***************************************************************************)
\* conn stands for the type-specific data: which connection is forwarded.
Open(sender, conn) ==
    [type |-> "OPEN", sender |-> sender, window |-> RecvWindow, conn |-> conn]
Confirm(chan, sender, window) ==
    [type |-> "CONFIRM", chan |-> chan, sender |-> sender, window |-> window]
OpenFailure(chan) == [type |-> "OPEN_FAILURE", chan |-> chan]
Data(chan, bytes) == [type |-> "DATA", chan |-> chan, bytes |-> bytes]
ExtData(chan, bytes) == [type |-> "EXT_DATA", chan |-> chan, bytes |-> bytes]
Adjust(chan, incr) == [type |-> "ADJUST", chan |-> chan, incr |-> incr]
Eof(chan) == [type |-> "EOF", chan |-> chan]
Close(chan) == [type |-> "CLOSE", chan |-> chan]
Request(chan, what) == [type |-> "REQUEST", chan |-> chan, what |-> what]

-----------------------------------------------------------------------------
(***************************************************************************)
(* A fresh channel.  extrabuf is <<FALSE, ..>> until the client allocates  *)
(* it.  `open' is the set of descriptors the operating system still holds  *)
(* for the channel.                                                        *)
(***************************************************************************)
NewChannel(remotechan, transwindow, transmaxpacket) ==
    [remotechan |-> remotechan,
     transwindow |-> transwindow, transmaxpacket |-> transmaxpacket,
     recvwindow |-> RecvWindow, recvdonelen |-> 0,
     readfd |-> FD_UNINIT, writefd |-> FD_UNINIT, errfd |-> FD_CLOSED,
     bidir_fd |-> FALSE,
     writebuf |-> << >>, has_extrabuf |-> FALSE, extrabuf |-> << >>,
     sent_close |-> FALSE, recv_close |-> FALSE,
     sent_eof |-> FALSE, recv_eof |-> FALSE,
     flushing |-> FALSE, conn_pending |-> FALSE, await_open |-> FALSE,
     open |-> {}]

\* The first unused slot of ses.channels; none when the table is full.
FreeSlots(chans) == {i \in DOMAIN chans : chans[i] = NULL}
FirstFree(chans) ==
    CHOOSE i \in FreeSlots(chans) : \A j \in FreeSlots(chans) : i <= j

\* ERRFD_IS_READ: a channel without extrabuf reads from errfd (server side).
ErrfdIsRead(ch) == ~ch.has_extrabuf

\* Faulty variant: the socket is closed with its first direction.
CloseFdAtOnce(ch, fd, how) ==
    [ch EXCEPT !.readfd  = IF how = "SHUT_RD" /\ fd = @ THEN FD_CLOSED ELSE @,
               !.writefd = IF how # "SHUT_RD" /\ fd = @ THEN FD_CLOSED ELSE @,
               !.open = @ \ {fd}]

(***************************************************************************)
(* close_chan_fd.  A socket is shut down in one direction, and closed when *)
(* neither direction is left; any other descriptor is closed at once, with *)
(* every field that names it.                                              *)
(***************************************************************************)
close_chan_fd(ch, fd, how) ==
    LET closeout == ~ch.bidir_fd \/ how = "SHUT_RD"
        closein  == ~ch.bidir_fd \/ how # "SHUT_RD"
        c == [ch EXCEPT
               !.readfd  = IF closeout /\ fd = @ THEN FD_CLOSED ELSE @,
               !.writefd = IF closein /\ fd = @ THEN FD_CLOSED ELSE @,
               !.errfd   = IF fd = @ /\ (IF ErrfdIsRead(ch) THEN closeout ELSE closein)
                           THEN FD_CLOSED ELSE @]
        allclosed == \A f \in {c.readfd, c.writefd, c.errfd} : f = FD_CLOSED
    IN  [c EXCEPT !.open = IF ~ch.bidir_fd \/ allclosed THEN @ \ {fd} ELSE @]

\* Faulty variant: only the second buffer is looked at.
ExtraPending(ch) == ch.errfd >= 0 /\ ch.has_extrabuf /\ ch.extrabuf # << >>

\* Data for the local side that could still be written.
write_pending(ch) ==
    \/ ch.writefd >= 0 /\ ch.writebuf # << >>
    \/ ch.errfd >= 0 /\ ch.has_extrabuf /\ ch.extrabuf # << >>

\* We are not going to read any more from the local side.
NothingToRead(ch) ==
    /\ ch.readfd = FD_CLOSED
    /\ ~ErrfdIsRead(ch) \/ ch.errfd = FD_CLOSED

send_msg_channel_eof(ch) ==
    [ch |-> [ch EXCEPT !.sent_eof = TRUE], out |-> <<Eof(ch.remotechan)>>]

\* exit holds what the type's closehandler sends first (an exit status).
send_msg_channel_close(ch, exit) ==
    LET c1 == [ch EXCEPT !.sent_eof = TRUE, !.sent_close = TRUE]
        c2 == close_chan_fd(c1, c1.readfd, "SHUT_RD")
        c3 == close_chan_fd(c2, c2.errfd, "SHUT_RDWR")
        c4 == close_chan_fd(c3, c3.writefd, "SHUT_WR")
    IN  [ch |-> c4, out |-> exit \o <<Close(ch.remotechan)>>]

(***************************************************************************)
(* check_close.  hasCheck: the type has a check_close callback; ready: its *)
(* answer; pending: the descriptors on which fd_read_pending is true.      *)
(* `removed' says that remove_channel was called.                          *)
(***************************************************************************)
CloseFlushed(ch, pending) ==
    LET c1 == IF ch.flushing /\ ch.readfd >= 0 /\ ch.readfd \notin pending
              THEN close_chan_fd(ch, ch.readfd, "SHUT_RD") ELSE ch
    IN  IF c1.flushing /\ ErrfdIsRead(c1) /\ c1.errfd >= 0 /\ c1.errfd \notin pending
        THEN close_chan_fd(c1, c1.errfd, "SHUT_RD") ELSE c1

\* Faulty variant: buffered data is not waited for.
ShutWriterEarly(ch, hasCheck, allowed) ==
    IF ch.recv_eof THEN close_chan_fd(ch, ch.writefd, "SHUT_WR") ELSE ch

ShutWriter(ch, hasCheck, allowed) ==
    IF \/ ch.recv_eof /\ ~write_pending(ch)
       \/ ch.writefd # FD_UNINIT /\ hasCheck /\ allowed
    THEN close_chan_fd(ch, ch.writefd, "SHUT_WR") ELSE ch

\* Faulty variant: EOF waits for the other direction.
EofWhenBothEnd(ch) ==
    IF ~ch.sent_eof /\ NothingToRead(ch) /\ ch.writefd = FD_CLOSED
    THEN send_msg_channel_eof(ch) ELSE [ch |-> ch, out |-> << >>]

MaybeEof(ch) ==
    IF ~ch.sent_eof /\ NothingToRead(ch)
    THEN send_msg_channel_eof(ch) ELSE [ch |-> ch, out |-> << >>]

MaybeClose(ch, allowed, exit) ==
    IF /\ NothingToRead(ch) /\ ch.writefd = FD_CLOSED
       /\ ~ch.sent_close /\ allowed /\ ~write_pending(ch)
    THEN send_msg_channel_close(ch, exit) ELSE [ch |-> ch, out |-> << >>]

\* Faulty variant: our own CLOSE is enough.
RemoveWhenSent(ch, allowed) ==
    (ch.recv_close \/ ch.sent_close) /\ ~write_pending(ch) /\ allowed

MayRemove(ch, allowed) == ch.recv_close /\ ~write_pending(ch) /\ allowed

check_close_with(ch, hasCheck, ready, pending, exit) ==
    LET allowed == ~hasCheck \/ ch.sent_close \/ ready
        c1 == CloseFlushed(ch, pending)
    IN  IF MayRemove(c1, allowed)
        THEN LET r == IF c1.sent_close THEN [ch |-> c1, out |-> << >>]
                      ELSE send_msg_channel_close(c1, exit)
             IN  [ch |-> r.ch, out |-> r.out, removed |-> TRUE]
        ELSE LET e == MaybeEof(ShutWriter(c1, hasCheck, allowed))
                 f == MaybeClose(e.ch, allowed, exit)
             IN  [ch |-> f.ch, out |-> e.out \o f.out, removed |-> FALSE]

\* Channel types without a check_close or closehandler callback.
check_close(ch) == check_close_with(ch, FALSE, FALSE, {}, << >>)

-----------------------------------------------------------------------------
\* Faulty variant: nothing is sent.
ExtendSilently(ch) ==
    [ch |-> IF ch.recvdonelen < RECV_WINDOWEXTEND THEN ch
            ELSE [ch EXCEPT !.recvwindow = @ + ch.recvdonelen, !.recvdonelen = 0],
     out |-> << >>]

(***************************************************************************)
(* writechannel.  `moved' bytes went to the descriptor (out of the buffer, *)
(* then out of the packet being received), or the write failed.  The       *)
(* window is given back once a third of it has been consumed.              *)
(***************************************************************************)
ExtendWindow(ch) ==
    IF ch.recvdonelen >= RECV_WINDOWEXTEND
    THEN [ch |-> [ch EXCEPT !.recvwindow = @ + ch.recvdonelen, !.recvdonelen = 0],
          out |-> <<Adjust(ch.remotechan, ch.recvdonelen)>>]
    ELSE [ch |-> ch, out |-> << >>]

WriteOk(ch, moved) == ExtendWindow([ch EXCEPT !.recvdonelen = @ + moved])
WriteFailed(ch, fd) == ExtendWindow(close_chan_fd(ch, fd, "SHUT_WR"))

(***************************************************************************)
(* What one call does to a channel: the channel afterwards, the messages,  *)
(* n bytes moved, whether there was any I/O and whether a write failed.    *)
(***************************************************************************)
Outcome(r, n, failed) ==
    [ch |-> r.ch, out |-> r.out, n |-> n, io |-> TRUE, failed |-> failed]
Idle(ch) == [ch |-> ch, out |-> << >>, n |-> 0, io |-> FALSE, failed |-> FALSE]

\* Faulty variant: cbuf_incrread is forgotten.
DrainTwice(ch, fd, buf) ==
    IF fd < 0 \/ ch[buf] = << >> THEN {}
    ELSE {Outcome(WriteOk(ch, n), n, FALSE) : n \in 1..Len(ch[buf])}

\* writechannel from channelio.  buf names the buffer that goes to fd; select
\* reported fd writable, so it takes at least a byte, or the write fails.
DrainOutcomes(ch, fd, buf) ==
    IF fd < 0 \/ ch[buf] = << >> THEN {}
    ELSE {Outcome(WriteOk([ch EXCEPT ![buf] = Rest(@, n)], n), n, FALSE) :
             n \in 1..Len(ch[buf])}
         \cup {Outcome(WriteFailed(ch, fd), 0, TRUE)}

(***************************************************************************)
(* common_recv_msg_channel_data for a packet that fits: dropped when the   *)
(* descriptor is closed; otherwise it comes off the window, the descriptor *)
(* takes n bytes of buffer and packet (none when it would block) and the   *)
(* rest is buffered; after a failed write the packet is discarded.         *)
(***************************************************************************)
ReceiveOutcomes(ch, fd, buf, bytes) ==
    LET c == [ch EXCEPT !.recvwindow = @ - Len(bytes)] IN
    IF fd < 0 THEN {Idle(ch)}
    ELSE {Outcome(WriteOk([c EXCEPT ![buf] = Rest(@ \o bytes, n)], n), n, FALSE) :
             n \in 0..Len(ch[buf] \o bytes)}
         \cup {Outcome(WriteFailed(c, fd), 0, TRUE)}

\* What ends the session instead: data after EOF, and data beyond the buffer
\* or the window.
DataProblem(ch, fd, buf, bytes) ==
    IF ch.recv_eof THEN "data after eof"
    ELSE IF fd >= 0 /\ Len(bytes) > Lesser(RecvWindow - Len(ch[buf]), ch.recvwindow)
    THEN "oversized packet" ELSE "no"

\* Faulty variant: the increment replaces the window.
ReplaceWindow(ch, incr) == [ch EXCEPT !.transwindow = incr]

\* recv_msg_channel_window_adjust: the sum is clamped when it wraps around.
AddWindow(ch, incr) == [ch EXCEPT !.transwindow = Lesser(@ + incr, UintMax)]

\* send_msg_channel_data: the most it reads at a time, the n bytes it read and
\* sends as msg, and end of file (or a read error).
MaxRead(ch) == Lesser(ch.transwindow, ch.transmaxpacket)
ReadData(ch, msg, n) ==
    Outcome([ch |-> [ch EXCEPT !.transwindow = @ - n], out |-> <<msg>>], n, FALSE)
ReadEnd(ch, fd) ==
    Outcome([ch |-> close_chan_fd(ch, fd, "SHUT_RD"), out |-> << >>], 0, FALSE)
=============================================================================
