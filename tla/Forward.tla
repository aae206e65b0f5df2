------------------------------ MODULE Forward ------------------------------
(***************************************************************************)
(* Two Dropbear endpoints that forward TCP connections to each other: the  *)
(* channel layer (common-channel.c) with socket channels, opened by        *)
(* tcp_acceptor on one side and connected by channel_connect_done on the   *)
(* other.  The transport below delivers messages reliably and in order.    *)
(* Each forwarded connection has a number; byte k that was read from a     *)
(* socket of connection c is <<c, k>>, so that a byte that surfaces in     *)
(* the wrong place or twice is recognised.                                 *)
(***************************************************************************)
EXTENDS ChannelOps

CONSTANTS MaxChannels,  \* MAX_CHANNELS, entries ses.channels can grow to
          Loads         \* bounds: see load

End == {"client", "server"}

ASSUME ChannelsAssumption == MaxChannels \in Nat \ {0}
ASSUME LoadsAssumption ==
    \A l \in Loads : l.openers \in Seq(End) /\ l.bytes \in [End -> Nat]

VARIABLES load,     \* openers: the end at which each connection is accepted, in turn;
                    \* bytes[e]: what each socket at e has to send
          chans,    \* ses.channels of each endpoint
          conn,     \* the connection a channel carries (0: none)
          wire,     \* wire[e]: messages on their way to e
          opened,   \* connections opened so far
          sent,     \* sent[c][e]: bytes read from e's socket of connection c
          got,      \* got[c][e]: bytes written to e's socket of connection c
          broken,   \* broken[c]: ends at which writing to the socket failed
          exited    \* "no", or why an endpoint called dropbear_exit

vars == <<load, chans, conn, wire, opened, sent, got, broken, exited>>

Peer(e) == CHOOSE f \in End : f # e
SOCK == 3  \* the descriptor of a channel's socket
Conns == UNION {DOMAIN l.openers : l \in Loads}
Slots == 0..MaxChannels-1

Init ==
    /\ load \in Loads
    /\ chans = [e \in End |-> [i \in Slots |-> NULL]]
    /\ conn = [e \in End |-> [i \in Slots |-> 0]]
    /\ wire = [e \in End |-> << >>]
    /\ opened = 0
    /\ sent = [c \in Conns |-> [e \in End |-> 0]]
    /\ got = [c \in Conns |-> [e \in End |-> << >>]]
    /\ broken = [c \in Conns |-> {}]
    /\ exited = "no"

-----------------------------------------------------------------------------
Running == exited = "no"
Send(e, msgs) == wire' = [wire EXCEPT ![Peer(e)] = @ \o msgs]

\* Consume the head of wire[e], and answer.
Reply(e, msgs) == wire' = [wire EXCEPT ![e] = Tail(@), ![Peer(e)] = @ \o msgs]

SetChannel(e, i, ch) == chans' = [chans EXCEPT ![e][i] = ch]
SetConn(e, i, c) == conn' = [conn EXCEPT ![e][i] = c]

\* The state after check_close has run on channel i.
Checked(e, i, r) == /\ SetChannel(e, i, IF r.removed THEN NULL ELSE r.ch)
                    /\ SetConn(e, i, IF r.removed THEN 0 ELSE conn[e][i])

WithSocket(ch) == [ch EXCEPT !.readfd = SOCK, !.writefd = SOCK,
                             !.bidir_fd = TRUE, !.open = {SOCK}]

(***************************************************************************)
(* tcp_acceptor and send_msg_channel_open_init: a connection was accepted. *)
(* With no free slot the socket is closed and nothing else happens.        *)
(***************************************************************************)
OpenInit(e) ==
    /\ Running /\ opened < Len(load.openers) /\ load.openers[opened + 1] = e
    /\ FreeSlots(chans[e]) # {}
    /\ LET i == FirstFree(chans[e])
       IN  /\ SetChannel(e, i, [WithSocket(NewChannel(0, 0, 0))
                                  EXCEPT !.await_open = TRUE])
           /\ SetConn(e, i, opened + 1)
           /\ Send(e, <<Open(i, opened + 1)>>)
    /\ opened' = opened + 1
    /\ UNCHANGED <<load, sent, got, broken, exited>>

-----------------------------------------------------------------------------
\* process_packet is about to dispatch a message of this type.
Dispatches(e, type) == Running /\ wire[e] # << >> /\ Head(wire[e]).type = type

(***************************************************************************)
(* recv_msg_channel_open.  The type's inithandler refuses, is done at once *)
(* (agent forwarding) or starts a connect that completes later.            *)
(***************************************************************************)
RecvOpen(e) ==
    /\ Dispatches(e, "OPEN")
    /\ LET m == Head(wire[e])
           i == FirstFree(chans[e])
           ch == NewChannel(m.sender, m.window, MaxPacket)
       IN  \/ /\ Reply(e, <<OpenFailure(m.sender)>>)  \* refused, or no slot
              /\ UNCHANGED <<chans, conn>>
           \/ /\ FreeSlots(chans[e]) # {}             \* SSH_OPEN_IN_PROGRESS
              /\ SetChannel(e, i, [ch EXCEPT !.conn_pending = TRUE])
              /\ SetConn(e, i, m.conn)
              /\ Reply(e, << >>)
           \/ /\ FreeSlots(chans[e]) # {}
              /\ SetChannel(e, i, WithSocket(ch))
              /\ SetConn(e, i, m.conn)
              /\ Reply(e, <<Confirm(m.sender, i, ch.recvwindow)>>)
    /\ UNCHANGED <<load, opened, sent, got, broken, exited>>

\* channel_connect_done: the socket is connected, or every address failed.
ConnectDone(e, i) ==
    /\ Running /\ chans[e][i] # NULL /\ chans[e][i].conn_pending
    /\ LET ch == chans[e][i]
       IN  \/ /\ SetChannel(e, i, [WithSocket(ch) EXCEPT !.conn_pending = FALSE])
              /\ Send(e, <<Confirm(ch.remotechan, i, ch.recvwindow)>>)
              /\ UNCHANGED conn
           \/ /\ SetChannel(e, i, NULL)
              /\ SetConn(e, i, 0)
              /\ Send(e, <<OpenFailure(ch.remotechan)>>)
    /\ UNCHANGED <<load, opened, sent, got, broken, exited>>

(***************************************************************************)
(* Messages about an existing channel.  What ends the session: a channel   *)
(* number that is not in use (getchannel_msg), an answer to an open that   *)
(* was not awaited, data after EOF, and data beyond the buffer or the      *)
(* window (the assertion in common_recv_msg_channel_data).                 *)
(***************************************************************************)
Problem(e, m) ==
    IF m.chan \notin Slots \/ chans[e][m.chan] = NULL THEN "unknown channel"
    ELSE LET ch == chans[e][m.chan] IN
      CASE m.type \in {"CONFIRM", "OPEN_FAILURE"} /\ ~ch.await_open -> "unexpected reply"
        [] m.type = "DATA" -> DataProblem(ch, ch.writefd, "writebuf", m.bytes)
        [] OTHER -> "no"

dropbear_exit(why) ==
    /\ exited' = why
    /\ UNCHANGED <<load, chans, conn, wire, opened, sent, got, broken>>

RecvOpenConfirmation(e) ==
    /\ Dispatches(e, "CONFIRM")
    /\ LET m == Head(wire[e])
       IN  IF Problem(e, m) # "no" THEN dropbear_exit(Problem(e, m))
           ELSE /\ SetChannel(e, m.chan,
                      [chans[e][m.chan] EXCEPT
                         !.await_open = FALSE, !.remotechan = m.sender,
                         !.transwindow = m.window, !.transmaxpacket = MaxPacket])
                /\ Reply(e, << >>)
                /\ UNCHANGED <<load, conn, opened, sent, got, broken, exited>>

RecvOpenFailure(e) ==
    /\ Dispatches(e, "OPEN_FAILURE")
    /\ LET m == Head(wire[e])
       IN  IF Problem(e, m) # "no" THEN dropbear_exit(Problem(e, m))
           ELSE /\ SetChannel(e, m.chan, NULL)
                /\ SetConn(e, m.chan, 0)
                /\ Reply(e, << >>)
                /\ UNCHANGED <<load, opened, sent, got, broken, exited>>

RecvWindowAdjust(e) ==
    /\ Dispatches(e, "ADJUST")
    /\ LET m == Head(wire[e])
       IN  IF Problem(e, m) # "no" THEN dropbear_exit(Problem(e, m))
           ELSE /\ SetChannel(e, m.chan, AddWindow(chans[e][m.chan], m.incr))
                /\ Reply(e, << >>)
                /\ UNCHANGED <<load, conn, opened, sent, got, broken, exited>>

\* recv_msg_channel_data.  There is no check_close here.
RecvData(e) ==
    /\ Dispatches(e, "DATA")
    /\ LET m == Head(wire[e])
           i == m.chan
           ch == chans[e][i]
           c == conn[e][i]
       IN  IF Problem(e, m) # "no" THEN dropbear_exit(Problem(e, m))
           ELSE \E r \in ReceiveOutcomes(ch, ch.writefd, "writebuf", m.bytes) :
                  /\ SetChannel(e, i, r.ch)
                  /\ Reply(e, r.out)
                  /\ got' = [got EXCEPT ![c][e] = @ \o Front(ch.writebuf \o m.bytes, r.n)]
                  /\ broken' = [broken EXCEPT ![c] = IF r.failed THEN @ \cup {e} ELSE @]
                  /\ UNCHANGED <<load, conn, opened, sent, exited>>

\* recv_msg_channel_eof and recv_msg_channel_close end in check_close.
RecvEof(e) ==
    /\ Dispatches(e, "EOF")
    /\ LET m == Head(wire[e])
           r == check_close([chans[e][m.chan] EXCEPT !.recv_eof = TRUE])
       IN  IF Problem(e, m) # "no" THEN dropbear_exit(Problem(e, m))
           ELSE /\ Checked(e, m.chan, r) /\ Reply(e, r.out)
                /\ UNCHANGED <<load, opened, sent, got, broken, exited>>

RecvClose(e) ==
    /\ Dispatches(e, "CLOSE")
    /\ LET m == Head(wire[e])
           r == check_close([chans[e][m.chan] EXCEPT !.recv_eof = TRUE,
                                                     !.recv_close = TRUE])
       IN  IF Problem(e, m) # "no" THEN dropbear_exit(Problem(e, m))
           ELSE /\ Checked(e, m.chan, r) /\ Reply(e, r.out)
                /\ UNCHANGED <<load, opened, sent, got, broken, exited>>

-----------------------------------------------------------------------------
(***************************************************************************)
(* channelio for one channel: a read, a write or both, then check_close.   *)
(* setchannelfds selects for reading only while there is window, for       *)
(* writing only while there is data.                                       *)
(***************************************************************************)
\* send_msg_channel_data: bytes, or end of file (or a read error).
ReadOutcomes(e, ch, c, k) ==
    {Idle(ch)} \cup
    IF ch.readfd < 0 \/ ch.transwindow = 0 THEN {}
    ELSE {ReadEnd(ch, ch.readfd)} \cup
         {ReadData(ch, Data(ch.remotechan, [j \in 1..n |-> <<c, k + j>>]), n) :
             n \in 1..Lesser(MaxRead(ch), load.bytes[e] - k)}

\* writechannel, when select reports the socket writable.
WriteOutcomes(ch) == {Idle(ch)} \cup DrainOutcomes(ch, ch.writefd, "writebuf")

IO(e, i, rd, wr) ==
    LET c == conn[e][i]
        r == check_close(wr.ch)
    IN  /\ rd.io \/ wr.io
        /\ Checked(e, i, r)
        /\ Send(e, rd.out \o wr.out \o r.out)
        /\ sent' = [sent EXCEPT ![c][e] = @ + rd.n]
        /\ got' = [got EXCEPT ![c][e] = @ \o Front(chans[e][i].writebuf, wr.n)]
        /\ broken' = [broken EXCEPT ![c] = IF wr.failed THEN @ \cup {e} ELSE @]
        /\ UNCHANGED <<load, opened, exited>>

Ready(e, i) == Running /\ chans[e][i] # NULL
Reads(e, i) == ReadOutcomes(e, chans[e][i], conn[e][i], sent[conn[e][i]][e])

ChannelIO(e, i) ==
    /\ Ready(e, i)
    /\ \E rd \in Reads(e, i) : \E wr \in WriteOutcomes(rd.ch) : IO(e, i, rd, wr)

-----------------------------------------------------------------------------
Receive(e) ==
    \/ RecvOpen(e) \/ RecvOpenConfirmation(e) \/ RecvOpenFailure(e)
    \/ RecvWindowAdjust(e) \/ RecvData(e) \/ RecvEof(e) \/ RecvClose(e)

Next == \E e \in End :
           \/ OpenInit(e)
           \/ Receive(e)
           \/ \E i \in Slots : ConnectDone(e, i) \/ ChannelIO(e, i)

Spec == Init /\ [][Next]_vars

(***************************************************************************)
(* Fairness.  The transport delivers; the main loop selects on every       *)
(* descriptor, so bytes that a socket has are read while there is window,  *)
(* and buffered bytes are written when the socket takes them.  Nothing is  *)
(* assumed of the sockets reaching their end, or of new connections.       *)
(***************************************************************************)
ReadsData(e, i) ==
    /\ Ready(e, i)
    /\ \E rd \in {r \in Reads(e, i) : r.n > 0} :
          \E wr \in WriteOutcomes(rd.ch) : IO(e, i, rd, wr)
WritesData(e, i) ==
    /\ Ready(e, i)
    /\ \E rd \in Reads(e, i) :
          \E wr \in {w \in WriteOutcomes(rd.ch) : w.n > 0} : IO(e, i, rd, wr)

\* When these steps are possible.
CanReceive(e) == Running /\ wire[e] # << >>
CanConnect(e, i) == Ready(e, i) /\ chans[e][i].conn_pending
CanRead(e, i) == /\ Ready(e, i) /\ chans[e][i].readfd >= 0
                 /\ chans[e][i].transwindow > 0 /\ sent[conn[e][i]][e] < load.bytes[e]
CanWrite(e, i) == /\ Ready(e, i) /\ chans[e][i].writefd >= 0
                  /\ chans[e][i].writebuf # << >>

\* Weak fairness of each step, with its enabling condition written out.
FairSpec ==
    /\ Spec
    /\ \A e \in End : []<>~CanReceive(e) \/ []<><<Receive(e)>>_vars
    /\ \A e \in End : \A i \in Slots :
         /\ []<>~CanConnect(e, i) \/ []<><<ConnectDone(e, i)>>_vars
         /\ []<>~CanRead(e, i) \/ []<><<ReadsData(e, i)>>_vars
         /\ []<>~CanWrite(e, i) \/ []<><<WritesData(e, i)>>_vars

-----------------------------------------------------------------------------
ChannelType ==
    [remotechan : Nat, transwindow : 0..UintMax, transmaxpacket : 0..MaxPacket,
     recvwindow : 0..RecvWindow, recvdonelen : 0..RecvWindow,
     readfd : {FD_UNINIT, FD_CLOSED, SOCK}, writefd : {FD_UNINIT, FD_CLOSED, SOCK},
     errfd : {FD_CLOSED}, bidir_fd : BOOLEAN,
     writebuf : Seq(Conns \X Nat), has_extrabuf : {FALSE},
     extrabuf : {<< >>}, sent_close : BOOLEAN, recv_close : BOOLEAN,
     sent_eof : BOOLEAN, recv_eof : BOOLEAN, flushing : {FALSE},
     conn_pending : BOOLEAN, await_open : BOOLEAN, open : SUBSET {SOCK}]

TypeOK ==
    /\ \A e \in End : \A i \in Slots : chans[e][i] # NULL => chans[e][i] \in ChannelType
    /\ conn \in [End -> [Slots -> Conns \cup {0}]]
    /\ opened \in 0..Len(load.openers)
    /\ \A c \in Conns : \A e \in End : sent[c][e] \in 0..load.bytes[e]
    /\ broken \in [Conns -> SUBSET End]

Live == {<<e, i>> \in End \X Slots : chans[e][i] # NULL}

(***************************************************************************)
(* Two endpoints running this code never end each other's session: no      *)
(* message names a slot that is not in use, no open is answered twice, no  *)
(* data follows EOF, and no data exceeds the window or the buffer.         *)
(***************************************************************************)
NoProtocolError == exited = "no"

(***************************************************************************)
(* Bytes reach the socket of the connection they were sent on, once and in *)
(* order, although slots and channel numbers are reused.                   *)
(***************************************************************************)
DeliveredInOrder ==
    \A c \in Conns : \A e \in End :
       /\ Len(got[c][e]) <= sent[c][Peer(e)]
       /\ \A k \in 1..Len(got[c][e]) : got[c][e][k] = <<c, k>>

(***************************************************************************)
(* End of file reaches the socket only after everything that was read from *)
(* the other socket before its end: when this side shuts its socket down   *)
(* for writing, nothing is missing, unless writing to it failed.           *)
(***************************************************************************)
EofAfterAllData ==
    \A e \in End : \A i \in Slots :
       LET c == conn[e][i] IN
       (chans[e][i] # NULL /\ chans[e][i].writefd = FD_CLOSED /\ e \notin broken[c])
          => Len(got[c][e]) = sent[c][Peer(e)]

(***************************************************************************)
(* A descriptor is open exactly while the channel names it, so             *)
(* remove_channel leaks none and no closed descriptor is ever used.        *)
(***************************************************************************)
FdsConsistent ==
    \A s \in Live : LET ch == chans[s[1]][s[2]] IN
       ch.open = {f \in {ch.readfd, ch.writefd, ch.errfd} : f >= 0}

\* The slots that carry connection c.
Carrying(c) == {s \in Live : conn[s[1]][s[2]] = c}

(***************************************************************************)
(* Once both sockets of a connection have been read to their end, both     *)
(* channels are eventually closed and their slots free again: the EOF and  *)
(* CLOSE handshake never leaves the two sides waiting for each other.      *)
(* (Here and below, connections are few and states like BothEnded last     *)
(* until they are left for good, so one formula serves all connections.)   *)
(***************************************************************************)
BothEnded(c) == /\ Carrying(c) # {}
                /\ \A s \in Carrying(c) : chans[s[1]][s[2]].readfd = FD_CLOSED
CloseCompletes == []<>(\A c \in Conns : ~BothEnded(c))

(***************************************************************************)
(* While nobody ends the connection, everything a socket has to send       *)
(* arrives, however small the window: flow control never stalls a stream.  *)
(***************************************************************************)
Flowing(c) == /\ Cardinality(Carrying(c)) = 2
              /\ broken[c] = {}
              /\ \A s \in Carrying(c) : chans[s[1]][s[2]].readfd # FD_CLOSED
StreamCompletes ==
    []<>(\A c \in Conns : \A e \in End :
            Flowing(c) => Len(got[c][Peer(e)]) = load.bytes[e])

(***************************************************************************)
(* Every byte that was read from one socket is written to the other, even  *)
(* when the connection is being closed, unless writing fails.              *)
(***************************************************************************)
NothingLost ==
    []<>(\A c \in Conns : \A e \in End \ broken[c] :
            Len(got[c][e]) = sent[c][Peer(e)])
=============================================================================
