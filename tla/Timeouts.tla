------------------------------ MODULE Timeouts ------------------------------
(***************************************************************************)
(* The timers of a connection (common-session.c checktimeouts,             *)
(* select_timeout and send_msg_keepalive, and the time stamps that         *)
(* encrypt_packet and process_packet keep), at two ends joined by a link   *)
(* that delays packets and may go down without notice.                     *)
(*                                                                         *)
(* Time advances in seconds, but never past the moment at which select     *)
(* returns at an end that is running, until that end has had a pass of     *)
(* session_loop; nor past the delay of a packet while the link is up.      *)
(***************************************************************************)
EXTENDS Naturals, Sequences, FiniteSetsExt

CONSTANTS AUTH_TIMEOUT,             \* before the user is authenticated
          DEFAULT_KEEPALIVE_LIMIT,  \* keepalives without an answer
          KEX_REKEY_TIMEOUT,        \* the longest select (rekeying: module Kex)
          Settings,                 \* see set
          Delay,                    \* bound: seconds a packet is under way
          MaxTime,                  \* bound: seconds
          MaxTraffic                \* bound: packets of data from each end

End == {"client", "server"}
Peer(e) == IF e = "client" THEN "server" ELSE "client"

ASSUME TimeoutsAssumption ==
    /\ {AUTH_TIMEOUT, DEFAULT_KEEPALIVE_LIMIT, KEX_REKEY_TIMEOUT} \subseteq Nat \ {0}
    /\ {Delay, MaxTime, MaxTraffic} \subseteq Nat
    /\ \A s \in Settings :
          /\ {s.keepalive, s.idle} \subseteq [End -> Nat] /\ s.duration \in Nat
          /\ {s.channel, s.silent} \subseteq BOOLEAN
    \* An answer is back before the last keepalive would end the session.
    /\ \A s \in Settings : \A e \in End :
          s.keepalive[e] > 0 => 2 * Delay < (DEFAULT_KEEPALIVE_LIMIT - 1) * s.keepalive[e]
    \* The identification arrives before the idle time or the duration is over:
    \* until then select_timeout counts both and checktimeouts tests neither.
    /\ \A s \in Settings : \A e \in End :
          \A limit \in {s.idle[e], s.duration} : limit > 0 => Delay < limit

VARIABLES set,      \* keepalive, idle, duration: opts.*_secs (duration: server only);
                    \* channel: a channel is open once authenticated; silent: the
                    \* client connects and sends nothing
          clock,    \* monotonic_now()
          ses,      \* the session at each end
          wire,     \* wire[e]: packets under way to e, with the time they were sent
          down,     \* when the link went down, 0 while it is up
          traffic,  \* traffic[e]: when e last sent or received anything but keepalives
          made      \* made[e]: packets of data sent

vars == <<set, clock, ses, wire, down, traffic, made>>

\* Answers to keepalives: no handler knows keepalive@openssh.com.
Answer == [CHANNEL_REQUEST |-> "CHANNEL_FAILURE", GLOBAL_REQUEST |-> "REQUEST_FAILURE"]
Keepalives == DOMAIN Answer \cup {Answer[t] : t \in DOMAIN Answer}

connect_time == 1
NewSession == [running |-> "yes", remoteident |-> FALSE, authdone |-> FALSE,
               any_sent |-> 0, keepalive_sent |-> 0,
               keepalive_recv |-> connect_time, idle |-> connect_time,
               passed |-> connect_time, wake |-> connect_time, out |-> << >>]

Limit(e) == [keepalive |-> set.keepalive[e], idle |-> set.idle[e],
             duration |-> IF e = "server" THEN set.duration ELSE 0]

elapsed(t) == clock - t
Close(s, why) == IF s.running = "yes" THEN [s EXCEPT !.running = why] ELSE s

\* encrypt_packet
encrypt_packet(s, type) ==
    [s EXCEPT !.any_sent = clock, !.out = Append(@, type),
              !.idle = IF type = "REQUEST_FAILURE" THEN @ ELSE clock]

send_msg_keepalive(s) ==
    [encrypt_packet(s, IF set.channel THEN "CHANNEL_REQUEST" ELSE "GLOBAL_REQUEST")
        EXCEPT !.keepalive_sent = clock, !.idle = s.idle]

\* Faulty variant: the limit is measured from the last keepalive sent.
LimitSinceSent(e, s) ==
    LET ka == Limit(e).keepalive
        s1 == IF elapsed(s.any_sent) >= ka THEN send_msg_keepalive(s) ELSE s
    IN IF ka = 0 \/ ~s.authdone THEN s
       ELSE IF elapsed(s1.keepalive_sent) >= ka * DEFAULT_KEEPALIVE_LIMIT
       THEN Close(s1, "Keepalive timeout") ELSE s1

\* checktimeouts: the part about keepalives.
CheckKeepalive(e, s) ==
    LET ka == Limit(e).keepalive
        s1 == IF elapsed(s.any_sent) >= ka THEN send_msg_keepalive(s) ELSE s
        s2 == IF elapsed(s1.keepalive_recv) >= ka /\ elapsed(s1.keepalive_sent) >= ka
              THEN send_msg_keepalive(s1) ELSE s1
    IN IF ka = 0 \/ ~s.authdone THEN s
       ELSE IF elapsed(s2.keepalive_recv) >= ka * DEFAULT_KEEPALIVE_LIMIT
       THEN Close(s2, "Keepalive timeout") ELSE s2

\* A limit of 0 is none.
Expired(limit, t) == limit > 0 /\ elapsed(t) >= limit

checktimeouts(e, s) ==
    IF e = "server" /\ ~s.authdone /\ elapsed(connect_time) >= AUTH_TIMEOUT
    THEN Close(s, "Timeout before auth")
    ELSE IF ~s.remoteident THEN s
    ELSE LET s1 == CheckKeepalive(e, s)
             s2 == IF Expired(Limit(e).idle, s1.idle) THEN Close(s1, "Idle timeout") ELSE s1
         IN IF Expired(Limit(e).duration, connect_time)
            THEN Close(s2, "Max duration reached") ELSE s2

\* Faulty variants: the idle limit is forgotten; keepalives are timed from the
\* last packet received only.
TimeoutWithoutIdle(e, s) ==
    IF e = "server" /\ ~s.authdone
    THEN AUTH_TIMEOUT - Min({AUTH_TIMEOUT, elapsed(connect_time)}) ELSE KEX_REKEY_TIMEOUT
TimeoutSinceRecv(e, s) ==
    LET ka == Limit(e).keepalive
    IN IF s.authdone /\ ka > 0 THEN ka - Min({ka, elapsed(s.keepalive_recv)}) ELSE 1

\* select_timeout: the next deadline; deadlines in the past count as now.
select_timeout(e, s) ==
    LET Left(limit, t) == IF limit = 0 THEN {}
                          ELSE {IF elapsed(t) >= limit THEN 0 ELSE limit - elapsed(t)}
    IN Min({KEX_REKEY_TIMEOUT}
           \cup (IF e = "server" /\ ~s.authdone THEN Left(AUTH_TIMEOUT, connect_time) ELSE {})
           \cup (IF s.authdone
                 THEN Left(Limit(e).keepalive, Max({s.keepalive_recv, s.keepalive_sent}))
                 ELSE {})
           \cup Left(Limit(e).idle, s.idle)
           \cup Left(Limit(e).duration, connect_time))

-----------------------------------------------------------------------------
(***************************************************************************)
(* A pass of session_loop: checktimeouts, then what select reported, then  *)
(* back to select.                                                         *)
(***************************************************************************)
Running(e) == ses[e].running = "yes"

\* What an end that stops or sends puts on the wire: its packets, or FIN.
Transmitted(s) ==
    [k \in DOMAIN s.out |-> [type |-> s.out[k], at |-> clock]]
      \o (IF s.running = "yes" THEN << >> ELSE <<[type |-> "FIN", at |-> clock]>>)

\* The end of a pass that leaves e in state s and `rest' of its incoming wire.
EndPass(e, s, rest) ==
    /\ ses' = [ses EXCEPT ![e] = [s EXCEPT !.out = << >>, !.passed = clock,
                                           !.wake = clock + select_timeout(e, s)]]
    /\ wire' = [wire EXCEPT ![e] = rest,
                            ![Peer(e)] = IF down > 0 THEN @ ELSE @ \o Transmitted(s)]
    /\ UNCHANGED <<set, clock, down>>

\* select timed out.
TimesOut(e) ==
    /\ Running(e) /\ clock >= ses[e].wake
    /\ EndPass(e, checktimeouts(e, ses[e]), wire[e])
    /\ UNCHANGED <<traffic, made>>

\* Faulty variant: an answer to a keepalive leaves every time stamp alone.
AnswersIgnored(e, s, type) ==
    LET t == IF type \in {"REQUEST_FAILURE", "CHANNEL_FAILURE"} THEN s
             ELSE [s EXCEPT !.keepalive_recv = clock, !.idle = clock]
    IN CASE type \in DOMAIN Answer -> encrypt_packet(t, Answer[type])
         [] type = "USERAUTH_REQUEST" ->
              encrypt_packet([t EXCEPT !.authdone = TRUE], "USERAUTH_SUCCESS")
         [] type = "USERAUTH_SUCCESS" -> [t EXCEPT !.authdone = TRUE]
         [] OTHER -> t

\* process_packet: the time stamps, then the handler.
process_packet(e, s, type) ==
    LET t == [s EXCEPT !.keepalive_recv = clock,
                       !.idle = IF type \in {"GLOBAL_REQUEST", "REQUEST_FAILURE", "CHANNEL_FAILURE"}
                                THEN @ ELSE clock]
    IN CASE type \in DOMAIN Answer -> encrypt_packet(t, Answer[type])
         [] type = "USERAUTH_REQUEST" ->
              encrypt_packet([t EXCEPT !.authdone = TRUE], "USERAUTH_SUCCESS")
         [] type = "USERAUTH_SUCCESS" -> [t EXCEPT !.authdone = TRUE]
         [] OTHER -> t

\* The socket is readable.  The identification line is not a packet and leaves
\* the time stamps alone.
Receives(e) ==
    /\ Running(e) /\ wire[e] # << >> /\ down = 0
    /\ LET s == checktimeouts(e, ses[e])
           type == Head(wire[e]).type
           live == s.running = "yes"
       IN /\ EndPass(e, CASE ~live -> s
                          [] live /\ type = "FIN" -> Close(s, "Remote closed")
                          [] live /\ type = "ident" -> [s EXCEPT !.remoteident = TRUE]
                          [] OTHER -> process_packet(e, s, type), Tail(wire[e]))
          /\ traffic' = [traffic EXCEPT ![e] =
                            IF live /\ type \notin Keepalives \cup {"FIN", "ident"} THEN clock ELSE @]
    /\ UNCHANGED made

\* A packet of e's own: data, or the client's authentication.
Sends(e, type) ==
    LET s == checktimeouts(e, ses[e]) IN
    /\ Running(e) /\ s.remoteident
    /\ EndPass(e, IF s.running = "yes" THEN encrypt_packet(s, type) ELSE s, wire[e])
    /\ traffic' = [traffic EXCEPT ![e] = IF s.running = "yes" THEN clock ELSE @]
SendData(e) ==
    /\ ses[e].authdone /\ made[e] < MaxTraffic /\ Sends(e, "DATA")
    /\ made' = [made EXCEPT ![e] = @ + 1]
Authenticate ==
    /\ ~set.silent /\ ~ses["client"].authdone /\ ses["client"].any_sent = 0
    /\ Sends("client", "USERAUTH_REQUEST")
    /\ UNCHANGED made

\* The link goes down (external); packets under way are lost.
LinkFails ==
    /\ down = 0 /\ \E e \in End : Running(e)
    /\ down' = clock
    /\ wire' = [e \in End |-> << >>]
    /\ UNCHANGED <<set, clock, ses, traffic, made>>

\* Time passes (external).
Served(e) == ~Running(e) \/ clock < ses[e].wake \/ ses[e].passed = clock
Tick ==
    /\ clock < MaxTime
    /\ \A e \in End : Served(e)
    /\ \A e \in End : (Running(e) /\ wire[e] # << >>) => clock < Head(wire[e]).at + Delay
    /\ clock' = clock + 1
    /\ UNCHANGED <<set, ses, wire, down, traffic, made>>

Init ==
    /\ set \in Settings
    /\ clock = connect_time /\ down = 0
    /\ ses = [e \in End |-> NewSession]
    /\ wire = [e \in End |-> IF e = "server" /\ set.silent THEN << >>
                             ELSE <<[type |-> "ident", at |-> connect_time]>>]
    /\ traffic = [e \in End |-> connect_time]
    /\ made = [e \in End |-> 0]

Next == \/ \E e \in End : TimesOut(e) \/ Receives(e) \/ SendData(e)
        \/ Authenticate \/ LinkFails \/ Tick

Spec == Init /\ [][Next]_vars

-----------------------------------------------------------------------------
\* The keepalives of the other end do not touch e's idle time: it sends none, or
\* sends them as global requests.
IdleIsOwn(e) == set.keepalive[Peer(e)] = 0 \/ ~set.channel

(***************************************************************************)
(* Deadlines are met although an end sleeps in select: a server does not   *)
(* outlive AUTH_TIMEOUT without authentication, nor an identified one its  *)
(* duration, nor an end its idle time, measured from the last packet that  *)
(* was not a keepalive or an answer to one.                                *)
(***************************************************************************)
DeadlinesMet ==
    \A e \in End : Running(e) =>
       /\ (e = "server" /\ ~ses[e].authdone) => elapsed(connect_time) <= AUTH_TIMEOUT
       /\ ses[e].remoteident =>
            /\ Limit(e).duration > 0 => elapsed(connect_time) <= Limit(e).duration
            /\ (Limit(e).idle > 0 /\ IdleIsOwn(e)) => elapsed(traffic[e]) <= Limit(e).idle

(***************************************************************************)
(* No session ends by mistake: "Idle timeout" only after that long without *)
(* traffic, and "Keepalive timeout" never while the link is up, since an   *)
(* idle peer is made to answer in time (the second test of checktimeouts). *)
(***************************************************************************)
ClosedForCause ==
    \A e \in End :
       /\ ses[e].running = "Idle timeout" => ses[e].passed - traffic[e] >= Limit(e).idle
       /\ ses[e].running = "Keepalive timeout" => down > 0

(***************************************************************************)
(* With keepalives, a link that went down is noticed: after               *)
(* DEFAULT_KEEPALIVE_LIMIT keepalives without an answer, which takes less  *)
(* than one period more since select is timed from the later of the last   *)
(* packet received and the last keepalive sent.                            *)
(***************************************************************************)
DeadPeerDetected ==
    \A e \in End : (Running(e) /\ ses[e].authdone /\ down > 0 /\ Limit(e).keepalive > 0) =>
       elapsed(down) < (DEFAULT_KEEPALIVE_LIMIT + 1) * Limit(e).keepalive

(***************************************************************************)
(* select_timeout is meant "to avoid waking when unneccessary": once the   *)
(* peer is identified, no deadline it computes is one that checktimeouts   *)
(* has just left standing, so the loop never spins.                        *)
(***************************************************************************)
NeverSpins ==
    \A e \in End : (Running(e) /\ ses[e].remoteident) =>
       ses[e].wake > ses[e].passed

(***************************************************************************)
(* "so that keepalives don't interfere with idle detection"                *)
(* (process_packet): the idle part of DeadlinesMet whatever keepalives the *)
(* other end sends.  It does not hold for those sent on a channel: neither *)
(* CHANNEL_REQUEST in process_packet nor CHANNEL_FAILURE in encrypt_packet *)
(* is among the types left out.                                            *)
(***************************************************************************)
IdleDetected ==
    \A e \in End : (Running(e) /\ ses[e].remoteident /\ Limit(e).idle > 0) =>
       elapsed(traffic[e]) <= Limit(e).idle
=============================================================================
