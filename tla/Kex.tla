-------------------------------- MODULE Kex ---------------------------------
(***************************************************************************)
(* The transport of two Dropbear endpoints: key exchange and rekeying      *)
(* (common-kex.c, svr-kex.c, cli-kex.c, the KEX part of cli_sessionloop),  *)
(* the rules of process_packet for what may arrive during an exchange, and *)
(* encrypt_packet with its queue for what may not be sent.  A packet       *)
(* carries the key and the sequence number it was encrypted with; it can   *)
(* be decrypted with the same two only.  Each function of the code is an   *)
(* operator from the endpoint's state to its state afterwards; `out' in it *)
(* collects the packets of the current pass of session_loop.               *)
(***************************************************************************)
EXTENDS Naturals, Sequences, FiniteSets

CONSTANTS Modes,         \* what is built in and advertised, see mode
          MaxRekeys,     \* bound: key exchanges after the first
          MaxData        \* bound: data packets from each end

ASSUME KexAssumption ==
    /\ Modes \subseteq [follows : BOOLEAN, strict : BOOLEAN] /\ Modes # {}
    /\ MaxRekeys \in Nat /\ MaxData \in Nat

End == {"client", "server"}
Peer(e) == CHOOSE f \in End : f # e

VARIABLES mode,     \* follows: DROPBEAR_KEX_FIRST_FOLLOWS, the client sends a guess;
                    \* strict: both ends advertise strict kex
          ses,      \* struct sshsession of each endpoint
          wire,     \* wire[e]: packets on their way to e
          rekeys,   \* exchanges started after the first
          made,     \* made[e]: data packets handed to encrypt_packet
          got,      \* got[e]: data packets received
          nonces,   \* nonces[e]: the <<key, seq>> with which e has encrypted
          reused,   \* endpoints that encrypted two packets with the same pair
          exited    \* "no", or why an endpoint called dropbear_exit

vars == <<mode, ses, wire, rekeys, made, got, nonces, reused, exited>>

\* The keys derived from the two KEXINITs and the client's DH value; none yet.
Key(c, s, p) == [cli |-> c, svr |-> s, param |-> p]
NoKey == Key(0, 0, 0)

\* common_session_init and kexfirstinitialise.
NewSession(e) ==
    [end |-> e, sentkexinit |-> FALSE, recvkexinit |-> FALSE,
     sentnewkeys |-> FALSE, recvnewkeys |-> FALSE,
     donefirstkex |-> FALSE, donesecondkex |-> FALSE, recvfirstnewkeys |-> FALSE,
     strict_kex |-> FALSE, dataallowed |-> TRUE,
     requirenext |-> "KEXINIT", ignorenext |-> FALSE,
     our_first_follows_matches |-> FALSE, good |-> FALSE,
     trans |-> NoKey, recv |-> NoKey,                    \* ses.keys
     newkey |-> NoKey, transvalid |-> FALSE, recvvalid |-> FALSE,  \* ses.newkeys
     transseq |-> 0, recvseq |-> 0, reply_queue |-> << >>,
     kexinits |-> 0, theirs |-> 0, param |-> 0, session_id |-> NoKey,
     kex_state |-> "KEX_NOTHING", lastpacket |-> "none",
     out |-> << >>, problem |-> "no"]

\* dropbear_exit
Die(s, why) == [s EXCEPT !.problem = IF @ = "no" THEN why ELSE @]

-----------------------------------------------------------------------------
(***************************************************************************)
(* encrypt_packet: a packet that may not be sent during a key exchange is  *)
(* queued until it is over; maybe_flush_reply_queue sends the queue.       *)
(***************************************************************************)
packet_is_okay_kex(type) == type \notin {"DATA", "KEXINIT"}

\* Faulty variant: what may not be sent now is dropped.
DropDuringKex(s, m) ==
    IF ~s.dataallowed /\ ~packet_is_okay_kex(m.type) THEN s
    ELSE [s EXCEPT !.out = Append(@, [msg |-> m, key |-> s.trans, seq |-> s.transseq]),
                   !.transseq = @ + 1]

encrypt_packet(s, m) ==
    IF ~s.dataallowed /\ ~packet_is_okay_kex(m.type)
    THEN [s EXCEPT !.reply_queue = Append(@, m)]
    ELSE [s EXCEPT !.out = Append(@, [msg |-> m, key |-> s.trans, seq |-> s.transseq]),
                   !.transseq = @ + 1]

maybe_flush_reply_queue(s) ==
    IF ~s.dataallowed THEN s
    ELSE [s EXCEPT !.reply_queue = << >>,
                   !.out = @ \o [i \in DOMAIN s.reply_queue |->
                                   [msg |-> s.reply_queue[i], key |-> s.trans,
                                    seq |-> s.transseq + i - 1]],
                   !.transseq = @ + Len(s.reply_queue)]

\* send_msg_kexdh_init: a fresh DH value, replacing the one of a wrong guess.
send_msg_kexdh_init(s) ==
    encrypt_packet([s EXCEPT !.param = @ + 1],
                   [type |-> "KEXDH_INIT", param |-> s.param + 1])

\* send_msg_kexinit.  good: the lists make the client's guess right, which
\* both ends find out alike (ChoiceAgreed of module AlgoMatch).
send_msg_kexinit(s, good) ==
    LET follows == s.end = "client" /\ mode.follows
        s1 == encrypt_packet(s, [type |-> "KEXINIT", id |-> s.kexinits + 1,
                                 follows |-> follows, good |-> good])
        s2 == [s1 EXCEPT !.dataallowed = FALSE, !.sentkexinit = TRUE, !.good = good,
                         !.kexinits = @ + 1, !.transvalid = FALSE, !.recvvalid = FALSE]
    IN  IF follows THEN send_msg_kexdh_init(s2) ELSE s2

\* kexinitialise
kexinitialise(s) ==
    [s EXCEPT !.sentkexinit = FALSE, !.recvkexinit = FALSE, !.recvnewkeys = FALSE,
              !.sentnewkeys = FALSE, !.our_first_follows_matches = FALSE]

\* Faulty variant: both directions change over together.
SwitchTogether(s) ==
    IF s.sentnewkeys /\ s.recvnewkeys
    THEN kexinitialise([s EXCEPT !.recv = s.newkey, !.trans = s.newkey,
                                 !.recvvalid = FALSE, !.transvalid = FALSE])
    ELSE s

\* switch_keys: each direction changes over when its NEWKEYS has passed.
switch_keys(s) ==
    LET s1 == IF s.recvnewkeys /\ s.recvvalid
              THEN [s EXCEPT !.recv = s.newkey, !.recvvalid = FALSE] ELSE s
        s2 == IF s1.sentnewkeys /\ s1.transvalid
              THEN [s1 EXCEPT !.trans = s.newkey, !.transvalid = FALSE] ELSE s1
    IN  IF ~(s.sentkexinit /\ s.recvkexinit) THEN Die(s, "unexpected newkeys")
        ELSE IF s2.sentnewkeys /\ s2.recvnewkeys THEN kexinitialise(s2) ELSE s2

send_msg_newkeys(s) ==
    LET s1 == encrypt_packet(s, [type |-> "NEWKEYS"])
        s2 == switch_keys([s1 EXCEPT !.sentnewkeys = TRUE,
                                     !.donesecondkex = s1.donefirstkex,
                                     !.donefirstkex = TRUE, !.dataallowed = TRUE,
                                     !.transvalid = TRUE, !.recvvalid = TRUE])
    IN  IF s.strict_kex THEN [s2 EXCEPT !.transseq = 0] ELSE s2

recv_msg_newkeys(s) ==
    LET s1 == switch_keys([s EXCEPT !.recvnewkeys = TRUE])
    IN  [s1 EXCEPT !.recvseq = IF s.strict_kex THEN 0 ELSE @,
                   !.recvfirstnewkeys = TRUE]

(***************************************************************************)
(* recv_msg_kexinit with read_kex_algos: answer with a KEXINIT unless ours *)
(* is out already, and wait for the next packet of the exchange.           *)
(***************************************************************************)
recv_msg_kexinit(s, m, good) ==
    LET s1 == IF s.sentkexinit THEN s ELSE send_msg_kexinit(s, good)
        client == s.end = "client"
        s2 == [s1 EXCEPT
                 !.strict_kex = IF s.donefirstkex THEN @ ELSE mode.strict,
                 !.ignorenext = @ \/ (m.follows /\ ~m.good),
                 !.our_first_follows_matches = @ \/ (client /\ mode.follows /\ s1.good),
                 !.requirenext = IF client THEN "KEXDH_REPLY" ELSE "KEXDH_INIT",
                 !.recvkexinit = TRUE, !.theirs = m.id,
                 !.transvalid = FALSE, !.recvvalid = FALSE]
    IN  IF s1.recvkexinit THEN Die(s1, "unexpected kexinit")
        ELSE IF s2.strict_kex /\ ~s.donefirstkex /\ s.recvseq # 1
        THEN Die(s2, "first packet was not kexinit") ELSE s2

\* finish_kexhashbuf and the shared secret: the exchange's keys, and at the
\* first one the session id.
Derived(s, key) == [s EXCEPT !.newkey = key,
                             !.session_id = IF @ = NoKey THEN key ELSE @]

\* recv_msg_kexdh_init (server).  The reply is signed over the hash.
recv_msg_kexdh_init(s, m) ==
    LET key == Key(s.theirs, s.kexinits, m.param)
        s1 == encrypt_packet(Derived(s, key), [type |-> "KEXDH_REPLY", hash |-> key])
        s2 == send_msg_newkeys(s1)
        s3 == IF s2.donesecondkex THEN s2 ELSE encrypt_packet(s2, [type |-> "EXT_INFO"])
    IN  IF ~s.recvkexinit THEN Die(s, "premature kexdh_init")
        ELSE [s3 EXCEPT !.requirenext = "NEWKEYS"]

\* recv_msg_kexdh_reply (client).
recv_msg_kexdh_reply(s, m) ==
    LET key == Key(s.kexinits, s.theirs, s.param)
    IN  IF s.kex_state # "KEXDH_INIT_SENT" THEN Die(s, "out-of-order kexdhreply")
        ELSE IF m.hash # key THEN Die(s, "bad hostkey signature")
        ELSE [send_msg_newkeys(Derived(s, key)) EXCEPT !.requirenext = "NEWKEYS"]

(***************************************************************************)
(* decrypt_packet and process_packet.                                      *)
(***************************************************************************)
Dispatch(s, m, good) ==
    CASE m.type = "KEXINIT" -> recv_msg_kexinit(s, m, good)
      [] m.type = "KEXDH_INIT" -> recv_msg_kexdh_init(s, m)
      [] m.type = "KEXDH_REPLY" -> recv_msg_kexdh_reply(s, m)
      [] m.type = "NEWKEYS" -> recv_msg_newkeys(s)
      [] OTHER -> s

recv_unimplemented(s) == encrypt_packet(s, [type |-> "UNIMPLEMENTED"])

process_packet(s, m, good) ==
    LET first_strict_kex == s.strict_kex /\ ~s.recvfirstnewkeys
        expected == s.requirenext \in {"any", m.type}
    IN  IF m.type = "UNIMPLEMENTED" /\ ~first_strict_kex THEN s
        ELSE IF ~expected /\ (m.type \in {"DATA", "KEXINIT"} \/ first_strict_kex)
        THEN Die(s, "unexpected packet")
        ELSE IF ~expected THEN recv_unimplemented(s)
        ELSE IF s.ignorenext THEN [s EXCEPT !.ignorenext = FALSE]
        ELSE Dispatch([s EXCEPT !.requirenext = "any"], m, good)

read_packet(s, pkt, good) ==
    IF pkt.key # s.recv \/ (s.recv # NoKey /\ pkt.seq # s.recvseq)
    THEN Die(s, "integrity error")
    ELSE [process_packet([s EXCEPT !.recvseq = @ + 1], pkt.msg, good)
            EXCEPT !.lastpacket = pkt.msg.type]

\* Faulty variants of cli_sessionloop: a right guess is sent again; the end of
\* an exchange goes unnoticed.
GuessTwice(s) ==
    IF s.lastpacket = "KEXINIT" /\ s.kex_state = "KEX_NOTHING"
    THEN [send_msg_kexdh_init(s) EXCEPT !.kex_state = "KEXDH_INIT_SENT"]
    ELSE IF s.sentnewkeys THEN [s EXCEPT !.kex_state = "KEX_NOTHING"] ELSE s
StateSticks(s) ==
    IF s.lastpacket = "KEXINIT" /\ s.kex_state = "KEX_NOTHING"
    THEN [(IF s.our_first_follows_matches THEN s ELSE send_msg_kexdh_init(s))
            EXCEPT !.kex_state = "KEXDH_INIT_SENT"]
    ELSE s

\* The KEX part of cli_sessionloop.
cli_sessionloop(s) ==
    IF s.lastpacket = "KEXINIT" /\ s.kex_state = "KEX_NOTHING"
    THEN [(IF s.our_first_follows_matches THEN s ELSE send_msg_kexdh_init(s))
            EXCEPT !.kex_state = "KEXDH_INIT_SENT"]
    ELSE IF s.kex_state # "KEX_NOTHING" /\ s.sentnewkeys
    THEN [s EXCEPT !.kex_state = "KEX_NOTHING"]
    ELSE s

\* Faulty variant: the server does not flush.
ClientFlushes(s) ==
    IF s.end = "client" THEN cli_sessionloop(maybe_flush_reply_queue(s)) ELSE s

\* The rest of a pass of session_loop, after checktimeouts and process_packet.
RestOfPass(s) ==
    LET f == maybe_flush_reply_queue(s)
    IN  IF s.end = "client" THEN cli_sessionloop(f) ELSE f

-----------------------------------------------------------------------------
Running == exited = "no"

\* The pass is over: what it encrypted goes out.  (Packets sent before there
\* are keys have no nonce.)
Commit(e, s, left) ==
    LET secret == {i \in DOMAIN s.out : s.out[i].key # NoKey}
        pairs == {<<s.out[i].key, s.out[i].seq>> : i \in secret}
    IN  /\ ses' = [ses EXCEPT ![e] = [s EXCEPT !.out = << >>]]
        /\ wire' = [wire EXCEPT ![e] = left, ![Peer(e)] = @ \o s.out]
        /\ nonces' = [nonces EXCEPT ![e] = @ \cup pairs]
        /\ reused' = IF pairs \cap nonces[e] # {} \/ Cardinality(pairs) < Cardinality(secret)
                     THEN reused \cup {e} ELSE reused
        /\ exited' = s.problem

\* cli_session and svr_session send the first KEXINIT.
Started(e, good) == send_msg_kexinit(NewSession(e), good)
Init == mode \in Modes /\ \E good \in BOOLEAN :
    LET first == [e \in End |-> Started(e, good)] IN
    /\ ses = [e \in End |-> [first[e] EXCEPT !.out = << >>]]
    /\ wire = [e \in End |-> first[Peer(e)].out]
    /\ rekeys = 0 /\ made = [e \in End |-> 0] /\ got = [e \in End |-> << >>]
    /\ nonces = [e \in End |-> {}]
    /\ reused = {} /\ exited = "no"

Receive(e) ==
    /\ Running /\ wire[e] # << >>
    /\ LET pkt == Head(wire[e])
       IN  /\ \E good \in BOOLEAN :
                 Commit(e, RestOfPass(read_packet(ses[e], pkt, good)), Tail(wire[e]))
           /\ got' = IF pkt.msg.type = "DATA" THEN [got EXCEPT ![e] = Append(@, pkt.msg.n)]
                     ELSE got
    /\ UNCHANGED <<mode, rekeys, made>>

\* Anything above the transport sends: only once the first exchange is done.
SendData(e) ==
    /\ Running /\ made[e] < MaxData /\ ses[e].donefirstkex
    /\ made' = [made EXCEPT ![e] = @ + 1]
    /\ Commit(e, encrypt_packet(ses[e], [type |-> "DATA", n |-> made[e] + 1]), wire[e])
    /\ UNCHANGED <<mode, rekeys, got>>

\* checktimeouts: time or traffic since the last exchange, or ~R.
Rekey(e) ==
    /\ Running /\ rekeys < MaxRekeys /\ ~ses[e].sentkexinit
    /\ rekeys' = rekeys + 1
    /\ \E good \in BOOLEAN : Commit(e, RestOfPass(send_msg_kexinit(ses[e], good)), wire[e])
    /\ UNCHANGED <<mode, made, got>>

Next == \E e \in End : Receive(e) \/ SendData(e) \/ Rekey(e)
Spec == Init /\ [][Next]_vars

\* Packets on the wire arrive and are processed: weak fairness of Receive(e),
\* which is enabled whenever a packet is on the wire of a running endpoint.
FairSpec ==
    Spec /\ \A e \in End : \/ []<>~(Running /\ wire[e] # << >>)
                           \/ []<><<Receive(e)>>_vars

-----------------------------------------------------------------------------
(***************************************************************************)
(* Whoever starts an exchange, also both at once and with data in flight,  *)
(* no endpoint ends the session: every packet decrypts with the key and    *)
(* sequence number in use, nothing but the expected packet follows KEXINIT *)
(* and a wrong guess is skipped by the server exactly when the client      *)
(* sends another.                                                          *)
(***************************************************************************)
NoProtocolError == exited = "no"

(***************************************************************************)
(* Data packets arrive once and in the order in which they were handed to  *)
(* encrypt_packet, although some wait in the queue during an exchange.     *)
(***************************************************************************)
DataInOrder ==
    \A e \in End : /\ Len(got[e]) <= made[Peer(e)]
                   /\ \A k \in 1..Len(got[e]) : got[e][k] = k

(***************************************************************************)
(* No two packets are encrypted with the same key and sequence number (the *)
(* nonce of the AEAD ciphers), although strict kex resets the number.      *)
(***************************************************************************)
NonceNeverReused == reused = {}

(***************************************************************************)
(* Every exchange completes, and the packets that waited for it are sent.  *)
(***************************************************************************)
KexCompletes == \A e \in End : ses[e].sentkexinit ~> ~ses[e].sentkexinit
QueueDrains == \A e \in End :
                 (ses[e].reply_queue # << >>) ~> (ses[e].reply_queue = << >>)
=============================================================================
