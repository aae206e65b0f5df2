------------------------------ MODULE Transport -----------------------------
(***************************************************************************)
(* Packets on a byte stream: the queue of encrypted packets and its        *)
(* partial writes (packet.c write_packet, netio.c packet_queue_consume),   *)
(* reading a packet in pieces (read_packet, read_packet_init,              *)
(* decrypt_packet), the identification line, the rules by which            *)
(* session_loop stops reading while the write queue is full, and the queue *)
(* of what may not be sent during a key exchange.                          *)
(*                                                                         *)
(* A byte on the wire is <<n, k>>, byte k of the sender's n-th packet, so  *)
(* a lost, repeated or misplaced byte shows.  Packet 1 is the              *)
(* identification line, packet 2 the first KEXINIT, which has no MAC; the  *)
(* others have one.  An exchange is here a KEXINIT each way: the packets   *)
(* that follow (module Kex) are taken as part of it, and it is over for an *)
(* end when that of its peer has come.                                     *)
(***************************************************************************)
EXTENDS Naturals, Sequences, SequencesExt, FiniteSets, FiniteSetsExt

CONSTANTS BlockSize,     \* ses.keys->recv.algo_crypt->blocksize
          MacSize,       \* algo_mac->hashsize once keys are in use
          IdentLen,      \* bytes of the identification line
          DataBlocks,    \* blocks of a packet of channel data
          HighWater,     \* 2*TRANS_MAX_PAYLOAD_LEN
          IovCount,      \* packets write_packet hands to one writev
          SockCap,       \* bytes the kernels hold in one direction
          Window,        \* channel data packets that fit the receive window
          Work           \* Work[e]: bounds on the data packets and requests of e, and
                         \* on the exchanges it starts after the first

End == {"client", "server"}
Peer(e) == IF e = "client" THEN "server" ELSE "client"

ASSUME TransportAssumption ==
    /\ {BlockSize, IdentLen, DataBlocks, IovCount, SockCap, Window} \subseteq Nat \ {0}
    /\ MacSize \in Nat /\ HighWater \in Nat
    /\ Work \in [End -> [data : Nat, reqs : Nat, rekeys : Nat]]

Kind == {"ident", "kexinit", "data", "adjust", "request", "reply"}

VARIABLES ses,    \* the session of each end
          wire    \* wire[e]: bytes under way to e

vars == <<ses, wire>>

\* What packet n of kind k occupies on the wire (encrypt_packet).
MacLen(n) == IF n <= 2 THEN 0 ELSE MacSize
PacketLen(n, k) ==
    CASE k = "ident" -> IdentLen
      [] k = "data" -> DataBlocks * BlockSize + MacLen(n)
      [] OTHER -> BlockSize + MacLen(n)

\* A window of data and a KEXINIT fit in the write queue and the kernels' buffers, as
\* they do by default (24576 bytes and less than 2000, a mark of 32768).  With a larger
\* window (-W) two ends that both send in bulk fill their queues, stop reading and
\* wait for each other for ever.  What is written before the first read fits in the
\* kernels' buffers.
ASSUME WindowAssumption ==
    /\ Window * PacketLen(3, "data") + PacketLen(3, "kexinit") <= HighWater + SockCap
    /\ PacketLen(1, "ident") + PacketLen(2, "kexinit") <= SockCap

(***************************************************************************)
(* The write queue.                                                        *)
(***************************************************************************)

\* writebuf_enqueue.
writebuf_enqueue(s, k) ==
    LET n == Len(s.sent) + 1
    IN [s EXCEPT !.writequeue = Append(@, [n |-> n, pos |-> 0, len |-> PacketLen(n, k)]),
                 !.writequeue_len = @ + PacketLen(n, k),
                 !.sent = Append(@, k)]

\* encrypt_packet.  Of the kinds of this module none may be sent between an end's
\* KEXINIT and the end of the exchange (packet_is_okay_kex): it waits.
encrypt_packet(s, k) ==
    IF s.dataallowed THEN writebuf_enqueue(s, k) ELSE [s EXCEPT !.reply_queue = Append(@, k)]

\* maybe_flush_reply_queue: what waited is queued, in its order and whatever is
\* queued already.  late: the packets that have waited (not a variable of the code).
Late(s) == [s EXCEPT !.late = @ \cup {Len(s.sent)}]
maybe_flush_reply_queue(s) ==
    LET flushed[i \in 0..Len(s.reply_queue)] ==
            IF i = 0 THEN s ELSE Late(writebuf_enqueue(flushed[i - 1], s.reply_queue[i]))
    IN IF s.dataallowed THEN [flushed[Len(s.reply_queue)] EXCEPT !.reply_queue = << >>] ELSE s

\* send_msg_kexinit
send_msg_kexinit(s) == [encrypt_packet(s, "kexinit") EXCEPT !.dataallowed = FALSE]

\* Sums(d)[i]: the sum of the first i numbers of d.
Sums(d) ==
    LET upto[i \in 0..Len(d)] == IF i = 0 THEN 0 ELSE upto[i - 1] + d[i]
    IN upto

\* Remaining(q)[i]: bytes of the first i packets of q that are still to be written.
Remaining(q) == Sums([i \in 1..Len(q) |-> q[i].len - q[i].pos])

\* packet_queue_to_iovec: how much is offered to writev, and what byte k of it is.
packet_queue_to_iovec(q) == Remaining(q)[Min({IovCount, Len(q)})]
OfferedByte(q, k) ==
    LET i == Min({j \in 1..Len(q) : Remaining(q)[j] >= k})
    IN <<q[i].n, q[i].len - (Remaining(q)[i] - k)>>

\* Faulty variant: a packet that was written in part is taken for done.
ConsumeWhole(q, written) ==
    SubSeq(q, Cardinality({i \in 1..Len(q) : Remaining(q)[i - 1] < written}) + 1, Len(q))

\* packet_queue_consume: drop the packets written in full, advance in the next.
packet_queue_consume(q, written) ==
    LET full == Max({i \in 0..Len(q) : Remaining(q)[i] <= written})
        part == written - Remaining(q)[full]
        rest == SubSeq(q, full + 1, Len(q))
    IN IF part = 0 THEN rest ELSE [rest EXCEPT ![1].pos = @ + part]

\* write_packet.  w is what writev took; 0 stands for EAGAIN.
write_packet(s, w) ==
    [s EXCEPT !.writequeue = packet_queue_consume(@, w), !.writequeue_len = @ - w]

(***************************************************************************)
(* Reading.  A result is the session, and the bytes left on the wire.      *)
(***************************************************************************)

Result(s, w) == [s |-> s, w |-> w]

\* read() of at most max bytes into readbuf; 0 stands for EAGAIN.
ReadSome(r, max) ==
    {Result([r.s EXCEPT !.readbuf = @ \o SubSeq(r.w, 1, k)], SubSeq(r.w, k + 1, Len(r.w))) :
        k \in 0..Min({max, Len(r.w)})}

\* The sender's packet whose first bytes decrypt, with the keys and the sequence
\* number of the receiver, to a length.
Expected(s) == Len(s.got) + 1
Aligned(s) == \A k \in 1..Len(s.readbuf) : s.readbuf[k] = <<Expected(s), k>>

\* read_packet_init once the first block is there: its length, or garbage.
read_packet_init(e, s) ==
    IF Len(s.readbuf) < BlockSize THEN s
    ELSE IF Aligned(s)
    THEN [s EXCEPT !.readlen = PacketLen(Expected(s), ses[Peer(e)].sent[Expected(s)])]
    ELSE [s EXCEPT !.problem = "Integrity error (bad packet size)"]

\* decrypt_packet and, in the same pass, process_packet: an answer to a request,
\* data for a channel, more window, or a KEXINIT, answered unless ours is out.
process_packet(s, k) ==
    LET t == [s EXCEPT !.got = Append(@, k), !.readbuf = << >>, !.readlen = 0]
    IN CASE k = "request" -> encrypt_packet(t, "reply")
         [] k = "kexinit" -> [(IF t.dataallowed THEN send_msg_kexinit(t) ELSE t)
                                EXCEPT !.dataallowed = TRUE]
         [] k = "data" -> [t EXCEPT !.held = @ + 1]
         [] k = "adjust" -> [t EXCEPT !.window = @ + 1]
         [] OTHER -> t
decrypt_packet(e, s) ==
    IF Aligned(s) THEN process_packet(s, ses[Peer(e)].sent[Expected(s)])
    ELSE [s EXCEPT !.problem = "Integrity error"]

\* read_packet: the first block if its length is not known yet, then the rest.
read_packet(e, r) ==
    LET firsts == IF r.s.readlen # 0 THEN {r}
                  ELSE {Result(read_packet_init(e, q.s), q.w) :
                           q \in ReadSome(r, BlockSize - Len(r.s.readbuf))}
        Whole(q) == IF Len(q.s.readbuf) = q.s.readlen
                    THEN Result(decrypt_packet(e, q.s), q.w) ELSE q
    IN UNION {IF q.s.readlen = 0 THEN {q}
              ELSE {Whole(p) : p \in ReadSome(q, q.s.readlen - Len(q.s.readbuf))} :
                 q \in firsts}

\* Faulty variant: the blocking read starts as soon as there is something to read.
IdentAtOnce(s) == TRUE

\* The identification line may be read: everything of one's own has been written.
ident_allowed(s) == s.writequeue = << >>

\* read_session_identification blocks until the line is complete; the loop of e
\* does nothing else.
ReadIdentification(e) ==
    LET s == ses[e] IN
    /\ ~s.remoteident /\ wire[e] # << >>
    /\ s.readbuf # << >> \/ ident_allowed(s)
    /\ \E r \in ReadSome(Result(s, wire[e]), IdentLen - Len(s.readbuf)) :
          /\ r.w # wire[e]
          /\ wire' = [wire EXCEPT ![e] = r.w]
          /\ ses' = [ses EXCEPT ![e] =
                IF Len(r.s.readbuf) < IdentLen THEN r.s
                ELSE [r.s EXCEPT !.remoteident = TRUE, !.readbuf = << >>,
                                 !.got = Append(@, "ident")]]

(***************************************************************************)
(* The loop.                                                               *)
(***************************************************************************)

\* Faulty variant: reading goes on whatever is queued.
AlwaysSpace(s) == TRUE

writequeue_has_space(s) == s.writequeue_len <= HighWater

\* checktimeouts may start an exchange and send a request that wants an answer (a
\* keepalive), whatever is queued; not before the first exchange.
checktimeouts(s) ==
    LET rekeyed == {s} \cup (IF s.rekeys > 0 /\ s.dataallowed
                             THEN {[send_msg_kexinit(s) EXCEPT !.rekeys = @ - 1]} ELSE {})
        Asked(t) == [encrypt_packet(t, "request") EXCEPT !.reqs = @ - 1]
    IN rekeyed \cup {Asked(t) : t \in {u \in rekeyed : u.reqs > 0 /\ Len(u.got) >= 2}}

\* The socket is in the read set of select: `space' is from the start of the pass.
reads_socket(e, s, space) ==
    IF space /\ s.remoteident THEN read_packet(e, Result(s, wire[e]))
    ELSE {Result(s, wire[e])}

\* setchannelfds, before select: may data be read from a channel's descriptor?
reads_channel(s) == writequeue_has_space(s) /\ s.dataallowed /\ s.window > 0

\* channelio: data is read from a channel's descriptor and sent if it was in the
\* read set; data that a descriptor has taken is granted again.
Data(s) == [encrypt_packet(s, "data") EXCEPT !.data = @ - 1, !.window = @ - 1]
Adjusted(s) == [encrypt_packet(s, "adjust") EXCEPT !.held = @ - 1]
channelio(s, readable) ==
    LET sent == {s} \cup (IF readable /\ s.data > 0 /\ s.window > 0 THEN {Data(s)} ELSE {})
    IN sent \cup {Adjusted(t) : t \in {u \in sent : u.held > 0}}

\* The end is in the blocking read of the identification line.
Blocked(s) == ~s.remoteident /\ s.readbuf # << >>

\* A pass of session_loop.
Pass(e) ==
    LET out == wire[Peer(e)]
        space == writequeue_has_space(ses[e])
    IN
    /\ ~Blocked(ses[e])
    /\ \E s1 \in checktimeouts(ses[e]) : \E r \in reads_socket(e, s1, space) :
       \E s2 \in channelio(maybe_flush_reply_queue(r.s), reads_channel(ses[e])) :
       \E w \in 0..Min({packet_queue_to_iovec(s2.writequeue), SockCap - Len(out)}) :
          /\ ses' = [ses EXCEPT ![e] = write_packet(s2, w)]
          /\ wire' = [wire EXCEPT ![e] = r.w, ![Peer(e)] =
                @ \o [k \in 1..w |-> OfferedByte(s2.writequeue, k)]]

\* common_session_init, send_session_identification, and send_msg_kexinit before the
\* loop starts.
NewSession(e) ==
    send_msg_kexinit(writebuf_enqueue(
        [writequeue |-> << >>, writequeue_len |-> 0, sent |-> << >>,
         dataallowed |-> TRUE, reply_queue |-> << >>, late |-> {},
         readbuf |-> << >>, readlen |-> 0, remoteident |-> FALSE, got |-> << >>,
         window |-> Window, held |-> 0, data |-> Work[e].data, reqs |-> Work[e].reqs,
         rekeys |-> Work[e].rekeys, problem |-> "no"], "ident"))

Init ==
    /\ ses = [e \in End |-> NewSession(e)]
    /\ wire = [e \in End |-> << >>]

Running == \A e \in End : ses[e].problem = "no"
Next == Running /\ \E e \in End : ReadIdentification(e) \/ Pass(e)
Spec == Init /\ [][Next]_vars

\* session_loop runs for ever; every pass that changes anything moves bytes on.  This
\* is weak fairness of Moves(e): a step that changes the session of e is one of e.
Moves(e) == Running /\ (ReadIdentification(e) \/ Pass(e))
FairSpec ==
    Spec /\ \A e \in End : []<>~ENABLED <<Moves(e)>>_vars \/ []<><<ses[e]' # ses[e]>>_vars

-----------------------------------------------------------------------------

TypeOK ==
    /\ wire \in [End -> Seq(Nat \X Nat)]
    /\ \A e \in End :
          /\ ses[e].writequeue_len \in Nat /\ ses[e].readlen \in Nat
          /\ ses[e].sent \in Seq(Kind) /\ ses[e].got \in Seq(Kind)
          /\ ses[e].reply_queue \in Seq(Kind \ {"ident", "kexinit"})
          /\ ses[e].window \in 0..Window /\ ses[e].held \in 0..Window

\* However the stream is cut into reads and writes, the packets that an end
\* processes are those its peer encrypted, in that order, and neither length nor
\* MAC is ever wrong (read_packet, decrypt_packet, packet_queue_consume).
FramesIntact ==
    /\ Running
    /\ \A e \in End : IsPrefix(ses[e].got, ses[Peer(e)].sent)

\* What is left of each packet of the queue; a request counts for nothing.
Unasked(s) ==
    [i \in 1..Len(s.writequeue) |->
        IF s.sent[s.writequeue[i].n] = "request" THEN 0
        ELSE s.writequeue[i].len - s.writequeue[i].pos]

\* The packet of which some is still to be written is a reply.
IsReply(s, i) == s.sent[s.writequeue[i].n] = "reply"

\* A peer that sends requests and does not read: a reply that did not have to wait
\* for the end of a key exchange is queued behind no more than the mark, counting
\* the bytes really queued and not writequeue_len (session_loop).  That holds also
\* after a flush has put far more than that in the queue.  A request that
\* checktimeouts queued in the same pass does not count.  "avoids replies backing
\* up" (the comment of session_loop) is not so of the others: they wait in
\* reply_queue, which writequeue_len does not count, and are flushed all at once.
RepliesBounded ==
    \A e \in End : \A i \in 1..Len(ses[e].writequeue) :
       IsReply(ses[e], i) /\ ses[e].writequeue[i].n \notin ses[e].late
          => Sums(Unasked(ses[e]))[i - 1] <= HighWater

\* Two ends that stop reading while their own queue is full never wait for each
\* other: all that was to be sent is delivered, also what waited for the end of a
\* key exchange.
AllDelivered ==
    <>(\A e \in End : /\ ses[e].data = 0 /\ ses[e].reply_queue = << >>
                      /\ ses[e].got = ses[Peer(e)].sent)
=============================================================================
