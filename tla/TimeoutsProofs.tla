---------------------------- MODULE TimeoutsProofs --------------------------
(***************************************************************************)
(* The deadlines of a session, for every setting of the timeouts and every *)
(* length of a run.  The inductive invariant is about two things.  At each *)
(* end (Waiting), no deadline was over at the last pass of its loop, and   *)
(* select returns no later than each of them: checktimeouts and            *)
(* select_timeout, which compute their deadlines separately, agree.  On the *)
(* link (Ordered, Answered), a keepalive sent since the last packet arrived *)
(* is under way, or its answer is, and each travels for at most Delay: so  *)
(* while the link is up an answer arrives before the limit.                *)
(***************************************************************************)
EXTENDS Timeouts, SequenceTheorems, WellFoundedInduction, TLAPS

Why == {"yes", "Timeout before auth", "Keepalive timeout", "Idle timeout",
        "Max duration reached", "Remote closed"}
Type == Keepalives \cup {"USERAUTH_REQUEST", "USERAUTH_SUCCESS", "DATA", "FIN", "ident"}
Packet == [type : Type, at : Nat]
Ses == [running : Why, remoteident : BOOLEAN, authdone : BOOLEAN,
        any_sent : Nat, keepalive_sent : Nat, keepalive_recv : Nat, idle : Nat,
        passed : Nat, wake : Nat, out : Seq(Type)]

Typed ==
    /\ set \in Settings /\ clock \in Nat /\ down \in Nat
    /\ ses \in [End -> Ses] /\ wire \in [End -> Seq(Packet)]
    /\ traffic \in [End -> Nat]
    /\ made \in [End -> Nat]

\* No stamp is from the future.
Stamped(s) ==
    /\ s.any_sent <= clock /\ s.keepalive_sent <= clock
    /\ connect_time <= s.keepalive_recv /\ s.keepalive_recv <= clock
    /\ connect_time <= s.idle /\ s.idle <= clock

\* No deadline of session s is over by time t.
KeepaliveDue(e, s) ==
    Limit(e).keepalive
      + (IF s.keepalive_sent > s.keepalive_recv THEN s.keepalive_sent ELSE s.keepalive_recv)
Unexpired(e, s, t) ==
    /\ (e = "server" /\ ~s.authdone) => t < connect_time + AUTH_TIMEOUT
    /\ s.remoteident =>
          /\ Limit(e).duration > 0 => t < connect_time + Limit(e).duration
          /\ Limit(e).idle > 0 => t < s.idle + Limit(e).idle
    /\ (s.authdone /\ Limit(e).keepalive > 0) =>
          /\ t < s.keepalive_recv + Limit(e).keepalive * DEFAULT_KEEPALIVE_LIMIT
          /\ t < KeepaliveDue(e, s)

\* select returns in time for each.
Awake(e, s) ==
    /\ (e = "server" /\ ~s.authdone) => s.wake <= connect_time + AUTH_TIMEOUT
    /\ s.remoteident =>
          /\ Limit(e).duration > 0 => s.wake <= connect_time + Limit(e).duration
          /\ Limit(e).idle > 0 => s.wake <= s.idle + Limit(e).idle
          /\ s.wake > s.passed
    /\ (s.authdone /\ Limit(e).keepalive > 0) => s.wake <= KeepaliveDue(e, s)

Waiting(e) ==
    /\ Stamped(ses[e]) /\ ses[e].out = << >>
    /\ connect_time <= ses[e].passed /\ ses[e].passed <= clock
    /\ ses[e].keepalive_sent <= ses[e].passed /\ ses[e].keepalive_recv <= ses[e].passed
    /\ ses[e].authdone => ses[e].remoteident
    /\ down > 0 => ses[e].keepalive_recv <= down
    /\ Running(e) =>
          /\ clock <= ses[e].wake \/ clock <= ses[e].passed + 1
          /\ Unexpired(e, ses[e], ses[e].passed) /\ Awake(e, ses[e])

\* Traffic is what the idle stamp records, and nothing else if IdleIsOwn.
Measured(e) ==
    /\ connect_time <= traffic[e] /\ traffic[e] <= ses[e].idle
    /\ IdleIsOwn(e) => traffic[e] = ses[e].idle

\* The wire keeps the order of time, and the delay.
Ordered(e) ==
    /\ down > 0 => wire[e] = << >>
    /\ (Running(e) /\ wire[e] # << >>) => clock <= wire[e][1].at + Delay
    /\ \A k \in 1..Len(wire[e]) :
          /\ wire[e][k].at <= clock
          /\ \A j \in 1..k : wire[e][j].at <= wire[e][k].at
          /\ wire[e][k].type = "ident" => k = 1 /\ wire[e][k].at = connect_time
          /\ wire[e][k].type = "CHANNEL_REQUEST" => ~IdleIsOwn(e)

\* The identification comes first.
Identifies(e) ==
    /\ (~set.silent /\ down = 0 /\ Running(e) /\ ~ses[e].remoteident) =>
          wire[e] # << >> /\ wire[e][1].type = "ident"
    /\ set.silent =>
          /\ ~ses[e].authdone
          /\ \A k \in 1..Len(wire[e]) : wire[e][k].type \in {"ident", "FIN"}

\* A peer that stopped has said so.
FinSent(e) ==
    (down = 0 /\ Running(e) /\ ~Running(Peer(e))) =>
       \E k \in 1..Len(wire[e]) : wire[e][k].type = "FIN"

\* A keepalive that was sent since the last packet arrived, or its answer, is
\* under way.
Answered(e) ==
    LET due == ses[e].keepalive_recv + Limit(e).keepalive IN
    (/\ down = 0 /\ Running(e) /\ ses[e].authdone /\ Limit(e).keepalive > 0
     /\ ses[e].keepalive_sent > ses[e].keepalive_recv) =>
       \/ \E k \in 1..Len(wire[e]) : wire[e][k].type # "ident" /\ wire[e][k].at <= due + Delay
       \/ /\ Running(Peer(e))
          /\ \E k \in 1..Len(wire[Peer(e)]) :
                wire[Peer(e)][k].type \in DOMAIN Answer /\ wire[Peer(e)][k].at <= due

IInv ==
    /\ Typed /\ ClosedForCause /\ down <= clock
    /\ \A e \in End : Waiting(e) /\ Measured(e) /\ Ordered(e) /\ Identifies(e)
                        /\ FinSent(e) /\ Answered(e)

-----------------------------------------------------------------------------

\* A set of numbers that is not empty has a least one.
LEMMA MinNat ==
  ASSUME NEW T, T \subseteq Nat, T # {}
  PROVE  Min(T) \in T /\ \A y \in T : Min(T) <= y
<1>1. PICK x \in T : \A y \in T : ~(<<y, x>> \in OpToRel(<, Nat))
  BY WFMin, NatLessThanWellFounded
<1>2. \A y \in T : ~(y < x)
  BY <1>1 DEF OpToRel
<1>3. \A y \in T : x <= y
  BY <1>2
<1>4. QED
  BY <1>3 DEF Min

\* What the assumption on the constants says of the limits of one end; a
\* keepalive and its answer fit in the time that is left after the first period.
LEMMA Limits ==
  ASSUME set \in Settings, NEW e \in End
  PROVE  /\ Limit(e).keepalive \in Nat /\ Limit(e).idle \in Nat /\ Limit(e).duration \in Nat
         /\ Limit(e).keepalive = set.keepalive[e]
         /\ set.channel \in BOOLEAN /\ set.silent \in BOOLEAN
         /\ Limit(e).idle > 0 => Delay < Limit(e).idle
         /\ Limit(e).duration > 0 => Delay < Limit(e).duration
         /\ Limit(e).keepalive * DEFAULT_KEEPALIVE_LIMIT \in Nat
         /\ Limit(e).keepalive > 0 =>
               Limit(e).keepalive + 2 * Delay < Limit(e).keepalive * DEFAULT_KEEPALIVE_LIMIT
         /\ {AUTH_TIMEOUT, DEFAULT_KEEPALIVE_LIMIT, KEX_REKEY_TIMEOUT} \subseteq Nat \ {0}
         /\ Delay \in Nat
<1>1. /\ set.keepalive \in [End -> Nat] /\ set.idle \in [End -> Nat] /\ set.duration \in Nat
      /\ set.channel \in BOOLEAN /\ set.silent \in BOOLEAN
      /\ {AUTH_TIMEOUT, DEFAULT_KEEPALIVE_LIMIT, KEX_REKEY_TIMEOUT} \subseteq Nat \ {0}
      /\ Delay \in Nat
  BY TimeoutsAssumption
<1>2. /\ set.idle[e] > 0 => Delay < set.idle[e]
      /\ set.duration > 0 => Delay < set.duration
      /\ set.keepalive[e] > 0 => 2 * Delay < (DEFAULT_KEEPALIVE_LIMIT - 1) * set.keepalive[e]
  BY TimeoutsAssumption
<1>3. \A k, l, d \in Nat : 2 * d < (l - 1) * k => k + 2 * d < k * l
  OBVIOUS
<1>4. \A k, l \in Nat : k * l \in Nat
  OBVIOUS
<1>5. /\ Limit(e).keepalive = set.keepalive[e] /\ Limit(e).idle = set.idle[e]
      /\ Limit(e).duration = set.duration \/ Limit(e).duration = 0
  BY DEF Limit
<1>6. set.keepalive[e] \in Nat /\ set.idle[e] \in Nat
  BY <1>1
<1>7. QED
  BY <1>1, <1>2, <1>3, <1>4, <1>5, <1>6

\* There are two ends.
LEMMA Ends == \A e \in End : Peer(e) \in End /\ Peer(e) # e /\ Peer(Peer(e)) = e
                               /\ \A d \in End : d = e \/ d = Peer(e)
BY DEF End, Peer

\* The packets of a keepalive, and what answers them.
LEMMA Answers ==
  /\ DOMAIN Answer = {"CHANNEL_REQUEST", "GLOBAL_REQUEST"}
  /\ Answer["CHANNEL_REQUEST"] = "CHANNEL_FAILURE" /\ Answer["GLOBAL_REQUEST"] = "REQUEST_FAILURE"
  /\ Keepalives = {"CHANNEL_REQUEST", "GLOBAL_REQUEST", "CHANNEL_FAILURE", "REQUEST_FAILURE"}
<1>1. DOMAIN Answer = {"CHANNEL_REQUEST", "GLOBAL_REQUEST"}
  BY DEF Answer
<1>2. Answer["CHANNEL_REQUEST"] = "CHANNEL_FAILURE" /\ Answer["GLOBAL_REQUEST"] = "REQUEST_FAILURE"
  BY DEF Answer
<1>3. {Answer[t] : t \in DOMAIN Answer} = {"CHANNEL_FAILURE", "REQUEST_FAILURE"}
  BY <1>1, <1>2
<1>4. QED
  BY <1>1, <1>2, <1>3 DEF Keepalives

\* select_timeout ends at none of the deadlines that are over, and at or before
\* each of the others.
LEMMA SelectTimeout ==
  ASSUME Typed, NEW e \in End, NEW s \in Ses, Stamped(s), connect_time <= clock
  PROVE  LET t == select_timeout(e, s) IN
         /\ t \in Nat
         /\ (e = "server" /\ ~s.authdone /\ clock < connect_time + AUTH_TIMEOUT) =>
               clock + t <= connect_time + AUTH_TIMEOUT
         /\ (Limit(e).duration > 0 /\ clock < connect_time + Limit(e).duration) =>
               clock + t <= connect_time + Limit(e).duration
         /\ (Limit(e).idle > 0 /\ clock < s.idle + Limit(e).idle) =>
               clock + t <= s.idle + Limit(e).idle
         /\ (s.authdone /\ Limit(e).keepalive > 0 /\ clock < KeepaliveDue(e, s)) =>
               clock + t <= KeepaliveDue(e, s)
         /\ (s.remoteident /\ Unexpired(e, s, clock)) => t > 0
<1> DEFINE Left(limit, t) == IF limit = 0 THEN {}
                             ELSE {IF clock - t >= limit THEN 0 ELSE limit - (clock - t)}
           last == Max({s.keepalive_recv, s.keepalive_sent})
           A == IF e = "server" /\ ~s.authdone THEN Left(AUTH_TIMEOUT, connect_time) ELSE {}
           B == IF s.authdone THEN Left(Limit(e).keepalive, last) ELSE {}
           C == Left(Limit(e).idle, s.idle)
           D == Left(Limit(e).duration, connect_time)
           T == {KEX_REKEY_TIMEOUT} \cup A \cup B \cup C \cup D
<1>1. select_timeout(e, s) = Min(T)
  BY DEF select_timeout, elapsed
<1>2. /\ clock \in Nat /\ connect_time \in Nat
      /\ s.keepalive_recv \in Nat /\ s.keepalive_sent \in Nat /\ s.idle \in Nat
      /\ s.authdone \in BOOLEAN /\ s.remoteident \in BOOLEAN
  BY DEF Typed, Ses, connect_time
<1>3. last = IF s.keepalive_sent > s.keepalive_recv THEN s.keepalive_sent ELSE s.keepalive_recv
  BY <1>2 DEF Max
<1>4. /\ Limit(e).keepalive \in Nat /\ Limit(e).idle \in Nat /\ Limit(e).duration \in Nat
      /\ AUTH_TIMEOUT \in Nat \ {0} /\ KEX_REKEY_TIMEOUT \in Nat \ {0}
  BY Limits DEF Typed
<1>5. \A limit, t \in Nat : t <= clock => Left(limit, t) \subseteq Nat
  BY <1>2
<1>6. \A limit, t \in Nat : limit > 0 /\ t <= clock /\ clock < t + limit =>
         \E y \in Left(limit, t) : clock + y <= t + limit
  BY <1>2
<1>7. \A limit, t \in Nat : t <= clock /\ (limit > 0 => clock < t + limit) =>
         \A y \in Left(limit, t) : y > 0
  BY <1>2
<1>8. last \in Nat /\ last <= clock /\ s.idle <= clock
  BY <1>2, <1>3 DEF Stamped
<1>9. KeepaliveDue(e, s) = last + Limit(e).keepalive
  BY <1>2, <1>3, <1>4 DEF KeepaliveDue
<1> HIDE DEF Left, last
<1>10. T \subseteq Nat /\ T # {}
  BY <1>2, <1>4, <1>5, <1>8
<1>11. Min(T) \in T /\ \A y \in T : Min(T) <= y
  BY <1>10, MinNat
<1>12. \A limit, x \in Nat :
          (limit > 0 /\ x <= clock /\ clock < x + limit /\ Left(limit, x) \subseteq T) =>
             clock + Min(T) <= x + limit
  <2> SUFFICES ASSUME NEW limit \in Nat, NEW x \in Nat, limit > 0, x <= clock,
                      clock < x + limit, Left(limit, x) \subseteq T
               PROVE  clock + Min(T) <= x + limit
    OBVIOUS
  <2>1. PICK y \in Left(limit, x) : clock + y <= x + limit
    BY <1>6
  <2>2. PICK m : m = Min(T)
    OBVIOUS
  <2>3. m \in Nat /\ y \in Nat /\ m <= y
    BY <1>10, <1>11, <2>1, <2>2
  <2>4. clock + m <= x + limit
    BY <1>2, <2>1, <2>3
  <2>5. QED
    BY <2>2, <2>4
<1>13. /\ (e = "server" /\ ~s.authdone) => Left(AUTH_TIMEOUT, connect_time) \subseteq T
       /\ s.authdone => Left(Limit(e).keepalive, last) \subseteq T
       /\ Left(Limit(e).idle, s.idle) \subseteq T
       /\ Left(Limit(e).duration, connect_time) \subseteq T
  OBVIOUS
<1>16. (s.remoteident /\ Unexpired(e, s, clock)) => Min(T) > 0
  <2> SUFFICES ASSUME s.remoteident, Unexpired(e, s, clock) PROVE \A y \in T : y > 0
    BY <1>11
  <2>1. \A y \in A : y > 0
    BY <1>2, <1>4, <1>7 DEF Unexpired
  <2>2. \A y \in B : y > 0
    BY <1>2, <1>4, <1>7, <1>8, <1>9 DEF Unexpired
  <2>3. \A y \in C \cup D : y > 0
    BY <1>2, <1>4, <1>7, <1>8 DEF Unexpired
  <2>4. KEX_REKEY_TIMEOUT > 0
    BY <1>4
  <2>5. QED
    BY <2>1, <2>2, <2>3, <2>4
<1>17. Min(T) \in Nat
  BY <1>10, <1>11
<1> HIDE DEF T
<1>18. /\ (e = "server" /\ ~s.authdone /\ clock < connect_time + AUTH_TIMEOUT) =>
             clock + Min(T) <= connect_time + AUTH_TIMEOUT
       /\ (Limit(e).duration > 0 /\ clock < connect_time + Limit(e).duration) =>
             clock + Min(T) <= connect_time + Limit(e).duration
       /\ (Limit(e).idle > 0 /\ clock < s.idle + Limit(e).idle) =>
             clock + Min(T) <= s.idle + Limit(e).idle
       /\ (s.authdone /\ Limit(e).keepalive > 0 /\ clock < KeepaliveDue(e, s)) =>
             clock + Min(T) <= KeepaliveDue(e, s)
  BY <1>2, <1>4, <1>8, <1>9, <1>12, <1>13
<1>19. QED
  BY <1>1, <1>16, <1>17, <1>18

\* No packet is under way to a running end for longer than the delay.
LEMMA Delayed ==
  ASSUME IInv, NEW e \in End, NEW k \in 1..Len(wire[e])
  PROVE  /\ wire[e][k] \in Packet /\ wire[e][k].at \in Nat /\ wire[e][k].at <= clock
         /\ Running(e) => clock <= wire[e][k].at + Delay
<1>1. /\ wire[e] \in Seq(Packet) /\ clock \in Nat
  BY DEF IInv, Typed
<1>2. Delay \in Nat
  BY Limits DEF IInv, Typed
<1>3. wire[e] # << >> /\ 1 \in 1..k /\ 1 \in 1..Len(wire[e])
  BY <1>1
<1>4. wire[e][1] \in Packet /\ wire[e][k] \in Packet
  BY <1>1, <1>3
<1>5. wire[e][1].at \in Nat /\ wire[e][k].at \in Nat
  BY <1>4 DEF Packet
<1>6. Ordered(e)
  BY DEF IInv
<1>7. wire[e][k].at <= clock /\ \A j \in 1..k : wire[e][j].at <= wire[e][k].at
  BY <1>6 DEF Ordered
<1>8. wire[e][1].at <= wire[e][k].at
  BY <1>3, <1>7
<1>9. Running(e) => clock <= wire[e][1].at + Delay
  BY <1>3, <1>6 DEF Ordered
<1>10. QED
  BY <1>1, <1>2, <1>4, <1>5, <1>7, <1>8, <1>9

\* An answer is back in time while the link is up: the first keepalive since a
\* packet arrived is sent within a period, and takes two delays.
LEMMA InTime ==
  ASSUME IInv, NEW e \in End, Running(e), ses[e].authdone, Limit(e).keepalive > 0, down = 0
  PROVE  clock < ses[e].keepalive_recv + Limit(e).keepalive * DEFAULT_KEEPALIVE_LIMIT
<1> DEFINE s == ses[e]
           ka == Limit(e).keepalive
           due == s.keepalive_recv + ka
<1>1. /\ s \in Ses /\ clock \in Nat /\ ka \in Nat /\ Delay \in Nat
      /\ ka * DEFAULT_KEEPALIVE_LIMIT \in Nat
      /\ ka + 2 * Delay < ka * DEFAULT_KEEPALIVE_LIMIT
      /\ s.keepalive_recv \in Nat /\ s.keepalive_sent \in Nat /\ s.passed \in Nat /\ s.wake \in Nat
  BY Limits DEF IInv, Typed, Ses
<1>2. due \in Nat
  BY <1>1
<1>3. clock <= due + 2 * Delay
  <2>1. CASE s.keepalive_sent <= s.keepalive_recv
    <3>1. KeepaliveDue(e, s) = due
      BY <1>1, <2>1 DEF KeepaliveDue
    <3>2. /\ clock <= s.wake \/ clock <= s.passed + 1
          /\ s.wake <= due /\ s.passed < due
      BY <3>1, <1>1 DEF IInv, Waiting, Unexpired, Awake
    <3>3. QED
      BY <1>1, <3>2
  <2>2. CASE s.keepalive_sent > s.keepalive_recv
    <3>1. ASSUME NEW k \in 1..Len(wire[e]), wire[e][k].at <= due + Delay
          PROVE  clock <= due + 2 * Delay
      <4>1. wire[e][k].at \in Nat /\ clock <= wire[e][k].at + Delay
        BY <3>1, Delayed
      <4> HIDE DEF due
      <4>2. QED
        BY <1>1, <1>2, <3>1, <4>1
    <3>2. ASSUME Running(Peer(e)), NEW k \in 1..Len(wire[Peer(e)]), wire[Peer(e)][k].at <= due
          PROVE  clock <= due + 2 * Delay
      <4>1. Peer(e) \in End
        BY Ends
      <4>2. wire[Peer(e)][k].at \in Nat /\ clock <= wire[Peer(e)][k].at + Delay
        BY <3>2, <4>1, Delayed
      <4> HIDE DEF due
      <4>3. QED
        BY <1>1, <1>2, <3>2, <4>2, SMTT(30)
    <3>3. QED
      BY <2>2, <3>1, <3>2 DEF IInv, Answered
  <2>3. QED
    BY <1>1, <2>1, <2>2
<1>4. QED
  BY <1>1, <1>3

-----------------------------------------------------------------------------
(***************************************************************************)
(* What checktimeouts leaves: the session as it was but for a keepalive    *)
(* that was sent, and closed or with every deadline ahead.                 *)
(***************************************************************************)
KaType == IF set.channel THEN "CHANNEL_REQUEST" ELSE "GLOBAL_REQUEST"
Kept(e, s, c) ==
    /\ c \in Ses
    /\ c.remoteident = s.remoteident /\ c.authdone = s.authdone
    /\ c.keepalive_recv = s.keepalive_recv /\ c.idle = s.idle /\ c.any_sent <= clock
    /\ \/ c.keepalive_sent = s.keepalive_sent /\ c.out = << >>
       \/ /\ c.keepalive_sent = clock /\ c.out = <<KaType>>
          /\ s.authdone /\ Limit(e).keepalive > 0
Checked(e, s, c) ==
    /\ Kept(e, s, c)
    /\ c.running = "yes" => Unexpired(e, c, clock)
    /\ c.running = "Idle timeout" => s.idle + Limit(e).idle <= clock
    /\ c.running = "Keepalive timeout" => down > 0

\* The keepalive part of checktimeouts sends at most one keepalive, and goes on
\* only with the next deadline ahead.
LEMMA CheckKeepaliveKeeps ==
  ASSUME Typed, NEW e \in End, NEW s \in Ses, Stamped(s), s.out = << >>, s.running = "yes"
  PROVE  LET c == CheckKeepalive(e, s) IN
         /\ Kept(e, s, c)
         /\ c.running \in {"yes", "Keepalive timeout"}
         /\ (s.authdone /\ Limit(e).keepalive > 0) =>
               /\ clock < KeepaliveDue(e, c)
               /\ (c.running = "yes") <=>
                     (clock < s.keepalive_recv + Limit(e).keepalive * DEFAULT_KEEPALIVE_LIMIT)
         /\ ~(s.authdone /\ Limit(e).keepalive > 0) => c.running = "yes"
<1>1. PICK ka : ka = Limit(e).keepalive
  OBVIOUS
<1>2. PICK max : max = ka * DEFAULT_KEEPALIVE_LIMIT
  OBVIOUS
<1>3. clock \in Nat /\ ka \in Nat /\ max \in Nat
  BY <1>1, <1>2, Limits DEF Typed
<1>4. KaType \in Type /\ KaType # "REQUEST_FAILURE"
  BY Answers DEF KaType, Type
<1>5. PICK S : S = [s EXCEPT !.any_sent = clock, !.out = <<KaType>>, !.keepalive_sent = clock]
  OBVIOUS
<1>6. send_msg_keepalive(s) = S
  <2>1. Append(s.out, KaType) = <<KaType>>
    OBVIOUS
  <2>2. encrypt_packet(s, KaType) = [s EXCEPT !.any_sent = clock, !.out = <<KaType>>, !.idle = clock]
    BY <2>1, <1>4 DEF encrypt_packet
  <2>3. send_msg_keepalive(s) = [encrypt_packet(s, KaType) EXCEPT !.keepalive_sent = clock, !.idle = s.idle]
    BY DEF send_msg_keepalive, KaType
  <2>4. QED
    BY <1>5, <2>2, <2>3 DEF Ses
<1>7. <<KaType>> \in Seq(Type)
  BY <1>4
<1>8. /\ S \in Ses /\ S.running = s.running /\ S.remoteident = s.remoteident
      /\ S.authdone = s.authdone /\ S.keepalive_recv = s.keepalive_recv /\ S.idle = s.idle
      /\ S.any_sent = clock /\ S.keepalive_sent = clock /\ S.out = <<KaType>>
  BY <1>3, <1>5, <1>7 DEF Ses
<1>9. /\ s.any_sent \in Nat /\ s.keepalive_recv \in Nat /\ s.keepalive_sent \in Nat
      /\ s.any_sent <= clock
  BY DEF Ses, Stamped
<1>10. CASE ka = 0 \/ ~s.authdone
  <2>1. CheckKeepalive(e, s) = s
    BY <1>1, <1>10 DEF CheckKeepalive
  <2>2. QED
    <3>1. Kept(e, s, s)
      BY <1>9 DEF Kept
    <3>2. ~(s.authdone /\ Limit(e).keepalive > 0)
      BY <1>1, <1>3, <1>10
    <3>3. QED
      BY <2>1, <3>1, <3>2
<1>11. CASE ka > 0 /\ s.authdone
  <2>1. PICK s1 : s1 = IF clock - s.any_sent >= ka THEN S ELSE s
    OBVIOUS
  <2>2. PICK s2 : s2 = IF clock - s1.keepalive_recv >= ka /\ clock - s1.keepalive_sent >= ka
                       THEN send_msg_keepalive(s1) ELSE s1
    OBVIOUS
  <2>3. CheckKeepalive(e, s) = IF clock - s2.keepalive_recv >= max
                               THEN Close(s2, "Keepalive timeout") ELSE s2
    <3>1. ~(Limit(e).keepalive = 0 \/ ~s.authdone)
      BY <1>1, <1>3, <1>11
    <3>2. QED
      BY <3>1, <1>1, <1>2, <1>6, <2>1, <2>2, Zenon DEF CheckKeepalive, elapsed
  <2>4. s1 = S => s2 = S
    BY <1>3, <1>8, <1>11, <2>2
  <2>5. s2 = S \/ (s2 = s /\ ~(clock - s.keepalive_recv >= ka /\ clock - s.keepalive_sent >= ka))
    BY <1>6, <2>1, <2>2, <2>4
  <2>6. s2 \in Ses /\ s2.running = "yes" /\ Kept(e, s, s2)
    <3>1. Kept(e, s, s)
      BY <1>9 DEF Kept
    <3>2. clock <= clock /\ Limit(e).keepalive > 0
      BY <1>1, <1>3, <1>11
    <3>3. Kept(e, s, S)
      BY <1>8, <1>11, <3>2 DEF Kept
    <3>4. QED
      BY <1>8, <2>5, <3>1, <3>3
  <2>7. s2.keepalive_recv = s.keepalive_recv /\ s2.keepalive_sent \in Nat
    BY <1>3, <1>8, <1>9, <2>5
  <2>8. clock < s2.keepalive_recv + ka \/ clock < s2.keepalive_sent + ka
    BY <2>5, <1>3, <1>8, <1>9, <1>11
  <2>9. PICK c : c = CheckKeepalive(e, s)
    OBVIOUS
  <2>10. c = IF clock - s2.keepalive_recv >= max THEN [s2 EXCEPT !.running = "Keepalive timeout"] ELSE s2
    BY <2>3, <2>6, <2>9 DEF Close
  <2>11. /\ c \in Ses /\ c.remoteident = s2.remoteident
         /\ c.authdone = s2.authdone /\ c.keepalive_recv = s2.keepalive_recv /\ c.idle = s2.idle
         /\ c.any_sent = s2.any_sent /\ c.keepalive_sent = s2.keepalive_sent /\ c.out = s2.out
         /\ c.running = IF clock - s2.keepalive_recv >= max THEN "Keepalive timeout" ELSE "yes"
    BY <2>6, <2>10 DEF Ses, Why
  <2>12. Kept(e, s, c)
    BY <2>6, <2>11 DEF Kept
  <2>13. c.running = "yes" <=> clock < s.keepalive_recv + max
    <3>1. c.running = IF clock - s.keepalive_recv >= max THEN "Keepalive timeout" ELSE "yes"
      BY <2>7, <2>11
    <3>2. clock - s.keepalive_recv >= max <=> ~(clock < s.keepalive_recv + max)
      BY <1>3, <1>9
    <3>3. QED
      BY <3>1, <3>2
  <2>14. c.running \in {"yes", "Keepalive timeout"}
    BY <2>11
  <2>15. clock < KeepaliveDue(e, c)
    <3>1. KeepaliveDue(e, c) = ka + (IF c.keepalive_sent > c.keepalive_recv
                                     THEN c.keepalive_sent ELSE c.keepalive_recv)
      BY <1>1 DEF KeepaliveDue
    <3>2. c.keepalive_sent \in Nat /\ c.keepalive_recv \in Nat
      BY <1>9, <2>7, <2>11
    <3>3. clock < c.keepalive_recv + ka \/ clock < c.keepalive_sent + ka
      BY <2>8, <2>11
    <3>4. QED
      BY <3>1, <3>2, <3>3, <1>3
  <2>16. QED
    BY <1>1, <1>2, <1>11, <2>9, <2>12, <2>13, <2>14, <2>15
<1>12. ka > 0 \/ ka = 0
  BY <1>3
<1>13. QED
  BY <1>10, <1>11, <1>12

\* checktimeouts closes the session for cause, or leaves every deadline ahead.
LEMMA CheckTimeouts ==
  ASSUME IInv, NEW e \in End, Running(e)
  PROVE  Checked(e, ses[e], checktimeouts(e, ses[e]))
<1>1. PICK s : s = ses[e]
  OBVIOUS
<1>2. PICK c : c = checktimeouts(e, s)
  OBVIOUS
<1>3. /\ s \in Ses /\ Stamped(s) /\ s.out = << >> /\ s.running = "yes"
      /\ s.authdone => s.remoteident
  BY <1>1 DEF IInv, Typed, Waiting, Running
<1>4. /\ s.any_sent <= clock /\ clock \in Nat /\ connect_time \in Nat /\ s.idle \in Nat
      /\ s.authdone \in BOOLEAN /\ s.remoteident \in BOOLEAN
  BY <1>3 DEF Stamped, IInv, Typed, connect_time, Ses
<1>5. /\ Limit(e).keepalive \in Nat /\ Limit(e).idle \in Nat /\ Limit(e).duration \in Nat
      /\ AUTH_TIMEOUT \in Nat
  BY Limits DEF IInv, Typed
<1>6. Kept(e, s, s)
  BY <1>3, <1>4 DEF Kept
<1> DEFINE late == e = "server" /\ ~s.authdone /\ clock - connect_time >= AUTH_TIMEOUT
<1>7. CASE late
  <2>1. c = [s EXCEPT !.running = "Timeout before auth"]
    BY <1>2, <1>3, <1>7 DEF checktimeouts, elapsed, Close
  <2>2. /\ c \in Ses /\ c.running = "Timeout before auth" /\ c.remoteident = s.remoteident
        /\ c.authdone = s.authdone /\ c.keepalive_recv = s.keepalive_recv /\ c.idle = s.idle
        /\ c.any_sent = s.any_sent /\ c.keepalive_sent = s.keepalive_sent /\ c.out = s.out
    BY <2>1, <1>3 DEF Ses, Why
  <2>3. Kept(e, s, c)
    BY <1>6, <2>2 DEF Kept
  <2>4. QED
    BY <1>1, <1>2, <2>2, <2>3 DEF Checked
<1>8. (e = "server" /\ ~s.authdone /\ ~late) => clock < connect_time + AUTH_TIMEOUT
  BY <1>4, <1>5
<1>9. CASE ~late /\ ~s.remoteident
  <2>1. c = s
    BY <1>2, <1>9 DEF checktimeouts, elapsed
  <2>2. Unexpired(e, s, clock)
    BY <1>3, <1>8, <1>9 DEF Unexpired
  <2>3. QED
    BY <1>1, <1>2, <1>3, <1>6, <2>1, <2>2 DEF Checked
<1>10. CASE ~late /\ s.remoteident
  <2>1. PICK c1 : c1 = CheckKeepalive(e, s)
    OBVIOUS
  <2>2. PICK c2 : c2 = IF Expired(Limit(e).idle, c1.idle) THEN Close(c1, "Idle timeout") ELSE c1
    OBVIOUS
  <2>3. c = IF Expired(Limit(e).duration, connect_time) THEN Close(c2, "Max duration reached") ELSE c2
    BY <1>2, <1>10, <2>1, <2>2, Zenon DEF checktimeouts, elapsed
  <2>4. /\ Kept(e, s, c1) /\ c1 \in Ses /\ c1.running \in {"yes", "Keepalive timeout"} /\ c1.idle = s.idle
        /\ (s.authdone /\ Limit(e).keepalive > 0) =>
               /\ clock < KeepaliveDue(e, c1)
               /\ (c1.running = "yes") <=>
                     (clock < s.keepalive_recv + Limit(e).keepalive * DEFAULT_KEEPALIVE_LIMIT)
        /\ ~(s.authdone /\ Limit(e).keepalive > 0) => c1.running = "yes"
    BY <1>3, <2>1, CheckKeepaliveKeeps DEF IInv, Kept
  <2>5. c1.running = "Keepalive timeout" => down > 0
    <3>1. down = 0 \/ down > 0
      BY DEF IInv, Typed
    <3>2. ASSUME c1.running = "Keepalive timeout", down = 0 PROVE FALSE
      <4>1. ses[e].authdone /\ Limit(e).keepalive > 0
        BY <1>1, <2>4, <3>2
      <4>2. clock < ses[e].keepalive_recv + Limit(e).keepalive * DEFAULT_KEEPALIVE_LIMIT
        BY <3>2, <4>1, InTime
      <4>3. QED
        BY <1>1, <2>4, <3>2, <4>1, <4>2
    <3>3. QED
      BY <3>1, <3>2
  <2>6. Expired(Limit(e).idle, c1.idle) <=> (Limit(e).idle > 0 /\ s.idle + Limit(e).idle <= clock)
    <3>1. c1.idle = s.idle
      BY <2>4
    <3>2. QED
      BY <1>4, <1>5, <3>1 DEF Expired, elapsed
  <2>7. Expired(Limit(e).duration, connect_time) <=>
           (Limit(e).duration > 0 /\ connect_time + Limit(e).duration <= clock)
    BY <1>4, <1>5 DEF Expired, elapsed
  <2>8. /\ c \in Ses /\ c.remoteident = c1.remoteident
        /\ c.authdone = c1.authdone /\ c.keepalive_recv = c1.keepalive_recv /\ c.idle = c1.idle
        /\ c.any_sent = c1.any_sent /\ c.keepalive_sent = c1.keepalive_sent /\ c.out = c1.out
        /\ c.running = CASE c1.running # "yes" -> c1.running
                         [] c1.running = "yes" /\ Expired(Limit(e).idle, c1.idle) -> "Idle timeout"
                         [] c1.running = "yes" /\ ~Expired(Limit(e).idle, c1.idle)
                               /\ Expired(Limit(e).duration, connect_time) -> "Max duration reached"
                         [] OTHER -> "yes"
    <3>1. /\ c2 \in Ses /\ c2.remoteident = c1.remoteident
          /\ c2.authdone = c1.authdone /\ c2.keepalive_recv = c1.keepalive_recv /\ c2.idle = c1.idle
          /\ c2.any_sent = c1.any_sent /\ c2.keepalive_sent = c1.keepalive_sent /\ c2.out = c1.out
          /\ c2.running = IF c1.running = "yes" /\ Expired(Limit(e).idle, c1.idle)
                          THEN "Idle timeout" ELSE c1.running
      BY <2>2, <2>4 DEF Close, Ses, Why
    <3>2. /\ c \in Ses /\ c.remoteident = c2.remoteident
          /\ c.authdone = c2.authdone /\ c.keepalive_recv = c2.keepalive_recv /\ c.idle = c2.idle
          /\ c.any_sent = c2.any_sent /\ c.keepalive_sent = c2.keepalive_sent /\ c.out = c2.out
          /\ c.running = IF c2.running = "yes" /\ Expired(Limit(e).duration, connect_time)
                         THEN "Max duration reached" ELSE c2.running
      BY <2>3, <3>1 DEF Close, Ses, Why
    <3>3. QED
      BY <3>1, <3>2, <2>4
  <2>9. Kept(e, s, c)
    BY <2>4, <2>8 DEF Kept
  <2>10. c.running = "Idle timeout" => s.idle + Limit(e).idle <= clock
    BY <2>4, <2>6, <2>8
  <2>11. c.running = "Keepalive timeout" => down > 0
    BY <2>4, <2>5, <2>8
  <2>12. ASSUME c.running = "yes" PROVE Unexpired(e, c, clock)
    <3>1. /\ c1.running = "yes" /\ ~Expired(Limit(e).idle, c1.idle)
          /\ ~Expired(Limit(e).duration, connect_time)
      BY <2>8, <2>12
    <3>2. /\ Limit(e).idle > 0 => clock < c.idle + Limit(e).idle
          /\ Limit(e).duration > 0 => clock < connect_time + Limit(e).duration
      BY <1>4, <1>5, <2>4, <2>6, <2>7, <2>8, <3>1
    <3>3. (c.authdone /\ Limit(e).keepalive > 0) =>
             /\ clock < c.keepalive_recv + Limit(e).keepalive * DEFAULT_KEEPALIVE_LIMIT
             /\ clock < KeepaliveDue(e, c)
      <4>1. c.authdone = s.authdone /\ c.keepalive_recv = s.keepalive_recv
        BY <2>9 DEF Kept
      <4>2. KeepaliveDue(e, c) = KeepaliveDue(e, c1)
        BY <2>8 DEF KeepaliveDue
      <4>3. QED
        BY <2>4, <3>1, <4>1, <4>2
    <3>4. (e = "server" /\ ~c.authdone) => clock < connect_time + AUTH_TIMEOUT
      BY <1>8, <1>10, <2>9 DEF Kept
    <3>5. QED
      BY <3>2, <3>3, <3>4 DEF Unexpired
  <2>13. QED
    BY <1>1, <1>2, <2>9, <2>10, <2>11, <2>12 DEF Checked
<1>11. QED
  BY <1>4, <1>7, <1>9, <1>10

\* The wait before the first keepalive.
LEMMA FirstInTime ==
  ASSUME IInv, NEW e \in End, Running(e), ses[e].authdone, Limit(e).keepalive > 0,
         ses[e].keepalive_sent <= ses[e].keepalive_recv
  PROVE  clock <= ses[e].keepalive_recv + Limit(e).keepalive
<1> DEFINE s == ses[e]
<1>1. /\ s \in Ses /\ clock \in Nat /\ Limit(e).keepalive \in Nat
      /\ s.keepalive_recv \in Nat /\ s.keepalive_sent \in Nat /\ s.passed \in Nat /\ s.wake \in Nat
  BY Limits DEF IInv, Typed, Ses
<1>2. KeepaliveDue(e, s) = s.keepalive_recv + Limit(e).keepalive
  BY <1>1 DEF KeepaliveDue
<1>3. /\ clock <= s.wake \/ clock <= s.passed + 1
      /\ s.wake <= KeepaliveDue(e, s) /\ s.passed < KeepaliveDue(e, s)
  BY DEF IInv, Waiting, Unexpired, Awake
<1>4. QED
  BY <1>1, <1>2, <1>3

-----------------------------------------------------------------------------
(***************************************************************************)
(* What a pass at e may come to: the session p, the rest of its wire, and  *)
(* the time tr of its last traffic.                                        *)
(***************************************************************************)
SesLeft(e, p, tr) ==
    /\ p \in Ses /\ Stamped(p) /\ (p.authdone => p.remoteident)
    /\ p.running = "yes" => Unexpired(e, p, clock)
    /\ p.running = "Idle timeout" => clock - tr >= Limit(e).idle
    /\ p.running = "Keepalive timeout" => down > 0
    /\ down > 0 => p.keepalive_recv <= down
    /\ tr \in Nat /\ connect_time <= tr /\ tr <= p.idle /\ (IdleIsOwn(e) => tr = p.idle)
OutLeft(e, p) ==
    /\ \A i \in 1..Len(p.out) :
          /\ p.out[i] \in Type \ {"ident", "FIN"}
          /\ p.out[i] = "CHANNEL_REQUEST" => ~IdleIsOwn(Peer(e))
    /\ set.silent => p.out = << >> /\ ~p.authdone
WireLeft(e, p, rest) ==
    /\ rest = wire[e] \/ (rest = Tail(wire[e]) /\ wire[e] # << >> /\ down = 0)
    /\ rest # wire[e] =>
          /\ wire[e][1].type = "FIN" => p.running # "yes"
          /\ (wire[e][1].type \in DOMAIN Answer /\ p.running = "yes") => Len(p.out) > 0
    /\ (p.running = "yes" /\ ~p.remoteident) => rest = wire[e] /\ ~ses[e].remoteident
KeepaliveLeft(e, p, rest) ==
    (/\ down = 0 /\ p.running = "yes" /\ p.authdone /\ Limit(e).keepalive > 0
     /\ p.keepalive_sent > p.keepalive_recv) =>
       \/ /\ ses[e].authdone /\ ses[e].keepalive_sent > ses[e].keepalive_recv
          /\ p.keepalive_recv = ses[e].keepalive_recv
          /\ rest = wire[e] \/ wire[e][1].type = "ident"
       \/ /\ clock <= p.keepalive_recv + Limit(e).keepalive
          /\ \E i \in 1..Len(p.out) : p.out[i] \in DOMAIN Answer
Outcome(e, p, rest, tr) ==
    SesLeft(e, p, tr) /\ OutLeft(e, p) /\ WireLeft(e, p, rest) /\ KeepaliveLeft(e, p, rest)

\* A keepalive is a packet that is answered.
LEMMA KaTypes == /\ KaType \in DOMAIN Answer /\ KaType \in Type \ {"ident", "FIN"}
                 /\ KaType = "CHANNEL_REQUEST" => set.channel
BY Answers DEF KaType, Type

\* checktimeouts alone: select timed out, or the session was closed by it.
LEMMA CheckedOutcome ==
  ASSUME IInv, NEW e \in End, Running(e), NEW c, c = checktimeouts(e, ses[e])
  PROVE  /\ SesLeft(e, c, traffic[e]) /\ OutLeft(e, c)
         /\ \A rest : (rest = wire[e] \/ wire[e][1].type = "ident") => KeepaliveLeft(e, c, rest)
<1>1. PICK s : s = ses[e]
  OBVIOUS
<1>2. /\ Checked(e, s, c) /\ Kept(e, s, c)
  BY <1>1, CheckTimeouts DEF Checked
<1>3. /\ s \in Ses /\ Stamped(s)
      /\ s.authdone => s.remoteident
  BY <1>1 DEF IInv, Typed, Waiting
<1>4. /\ clock \in Nat /\ connect_time \in Nat /\ s.idle \in Nat /\ traffic[e] \in Nat
      /\ s.keepalive_recv \in Nat /\ s.keepalive_sent \in Nat /\ connect_time <= clock /\ down \in Nat
  BY <1>3, <1>1 DEF IInv, Typed, connect_time, Ses, Waiting
<1>5. /\ Limit(e).keepalive \in Nat /\ Limit(e).idle \in Nat
      /\ Limit(e).keepalive = set.keepalive[e]
  BY Limits DEF IInv, Typed
<1>6. Measured(e) /\ Waiting(e) /\ Identifies(e)
  BY DEF IInv
<1>7. SesLeft(e, c, traffic[e])
  <2>1. c.authdone => c.remoteident
    BY <1>2, <1>3 DEF Kept
  <2>2. Stamped(c)
    BY <1>2, <1>3, <1>4 DEF Kept, Stamped
  <2>3. c.running = "yes" => Unexpired(e, c, clock)
    BY <1>2 DEF Checked
  <2>4. /\ connect_time <= traffic[e] /\ traffic[e] <= c.idle
        /\ IdleIsOwn(e) => traffic[e] = c.idle
        /\ c.idle = s.idle /\ c.keepalive_recv = s.keepalive_recv
    BY <1>1, <1>2, <1>6 DEF Kept, Measured
  <2>5. c.running = "Idle timeout" => clock - traffic[e] >= Limit(e).idle
    <3>1. traffic[e] <= s.idle
      BY <2>4
    <3>2. c.running = "Idle timeout" => s.idle + Limit(e).idle <= clock
      BY <1>2 DEF Checked
    <3>3. \A a, b, d, l \in Nat : a <= b /\ b + l <= d => d - a >= l
      OBVIOUS
    <3>4. QED
      BY <3>1, <3>2, <3>3, <1>4, <1>5
  <2>6. c.running = "Keepalive timeout" => down > 0
    BY <1>2 DEF Checked
  <2>7. down > 0 => c.keepalive_recv <= down
    BY <1>1, <1>6, <2>4 DEF Waiting
  <2>8. c \in Ses
    BY <1>2 DEF Kept
  <2>9. QED
    BY <1>4, <2>1, <2>2, <2>3, <2>4, <2>5, <2>6, <2>7, <2>8 DEF SesLeft
<1>8. OutLeft(e, c)
  <2>1. CASE c.out = << >>
    <3>1. set.silent => ~c.authdone
      BY <1>1, <1>2, <1>6 DEF Kept, Identifies
    <3>2. QED
      BY <2>1, <3>1 DEF OutLeft
  <2>2. CASE c.out = <<KaType>> /\ s.authdone /\ Limit(e).keepalive > 0
    <3>1. ~set.silent
      BY <1>1, <1>6, <2>2 DEF Identifies
    <3>2. set.channel => ~IdleIsOwn(Peer(e))
      BY <1>5, <2>2, Ends DEF IdleIsOwn
    <3>3. \A i \in 1..Len(c.out) : c.out[i] = KaType
      BY <2>2
    <3>4. QED
      BY <3>1, <3>2, <3>3, KaTypes DEF OutLeft
  <2>3. QED
    BY <1>2, <2>1, <2>2 DEF Kept
<1>9. ASSUME NEW rest, rest = wire[e] \/ wire[e][1].type = "ident"
      PROVE  KeepaliveLeft(e, c, rest)
  <2> SUFFICES ASSUME down = 0, c.running = "yes", c.authdone, Limit(e).keepalive > 0,
                      c.keepalive_sent > c.keepalive_recv,
                      ~(s.keepalive_sent > s.keepalive_recv /\ s.authdone)
               PROVE  /\ clock <= c.keepalive_recv + Limit(e).keepalive
                      /\ \E i \in 1..Len(c.out) : c.out[i] \in DOMAIN Answer
    BY <1>1, <1>2, <1>9 DEF KeepaliveLeft, Kept
  <2>1. s.authdone /\ s.keepalive_sent <= s.keepalive_recv
    BY <1>2, <1>4 DEF Kept
  <2>2. clock <= s.keepalive_recv + Limit(e).keepalive
    BY <1>1, <2>1, FirstInTime
  <2>3. c.keepalive_recv = s.keepalive_recv /\ c.out = <<KaType>>
    BY <1>2, <2>1, <1>4 DEF Kept
  <2>4. 1 \in 1..Len(c.out) /\ c.out[1] \in DOMAIN Answer
    BY <2>3, KaTypes
  <2>5. QED
    BY <2>2, <2>3, <2>4
<1>10. QED
  BY <1>7, <1>8, <1>9

\* A pass in which select timed out.
LEMMA TimesOutOutcome ==
  ASSUME IInv, NEW e \in End, Running(e)
  PROVE  Outcome(e, checktimeouts(e, ses[e]), wire[e], traffic[e])
<1>1. PICK c : c = checktimeouts(e, ses[e])
  OBVIOUS
<1>2. c.remoteident = ses[e].remoteident
  BY <1>1, CheckTimeouts DEF Checked, Kept
<1>3. WireLeft(e, c, wire[e])
  BY <1>2 DEF WireLeft
<1>4. QED
  BY <1>1, <1>3, CheckedOutcome DEF Outcome

\* p is c with a packet sent.
Sent(c, type, p) ==
    /\ p \in Ses /\ p.running = c.running /\ p.remoteident = c.remoteident
    /\ p.authdone = c.authdone /\ p.keepalive_recv = c.keepalive_recv
    /\ p.keepalive_sent = c.keepalive_sent /\ p.any_sent = clock
    /\ p.idle = (IF type = "REQUEST_FAILURE" THEN c.idle ELSE clock)
    /\ p.out = Append(c.out, type)

\* encrypt_packet sends a packet and sets its stamps.
LEMMA Encrypts ==
  ASSUME clock \in Nat, NEW c \in Ses, NEW type \in Type
  PROVE  Sent(c, type, encrypt_packet(c, type))
<1>0. PICK p : p = encrypt_packet(c, type)
  OBVIOUS
<1>1. Append(c.out, type) \in Seq(Type)
  BY DEF Ses
<1>2. PICK o : o = Append(c.out, type)
  OBVIOUS
<1>3. p = [c EXCEPT !.any_sent = clock, !.out = o,
                    !.idle = IF type = "REQUEST_FAILURE" THEN c.idle ELSE clock]
  BY <1>0, <1>2 DEF encrypt_packet
<1>4. /\ p \in Ses /\ p.running = c.running /\ p.remoteident = c.remoteident
      /\ p.authdone = c.authdone /\ p.keepalive_recv = c.keepalive_recv
      /\ p.keepalive_sent = c.keepalive_sent /\ p.any_sent = clock
      /\ p.idle = (IF type = "REQUEST_FAILURE" THEN c.idle ELSE clock)
      /\ p.out = Append(c.out, type)
  BY <1>1, <1>2, <1>3 DEF Ses
<1>5. QED
  BY <1>0, <1>4 DEF Sent

\* A session p that differs from c, which checktimeouts left, in newer stamps, in
\* what it has still to send and in being authenticated.
Advanced(e, c, p, tr) ==
    /\ p \in Ses /\ p.running = "yes" /\ p.remoteident = c.remoteident
    /\ (c.authdone => p.authdone) /\ (p.authdone => p.remoteident)
    /\ p.keepalive_sent = c.keepalive_sent /\ p.any_sent \in {c.any_sent, clock}
    /\ p.keepalive_recv = c.keepalive_recv \/ (p.keepalive_recv = clock /\ down = 0)
    /\ p.authdone = c.authdone \/ p.keepalive_recv = clock
    /\ p.idle \in {c.idle, clock}
    /\ tr = p.idle \/ (tr = traffic[e] /\ (p.idle = c.idle \/ ~IdleIsOwn(e)))
LEMMA Advances ==
  ASSUME IInv, NEW e \in End, Running(e), NEW c, c = checktimeouts(e, ses[e]), c.running = "yes",
         NEW p, NEW tr, Advanced(e, c, p, tr)
  PROVE  SesLeft(e, p, tr)
<1> SUFFICES ASSUME p \in Ses, p.running = "yes", p.remoteident = c.remoteident,
                    c.authdone => p.authdone, p.authdone => p.remoteident,
                    p.keepalive_sent = c.keepalive_sent, p.any_sent \in {c.any_sent, clock},
                    p.keepalive_recv = c.keepalive_recv \/ (p.keepalive_recv = clock /\ down = 0),
                    p.authdone = c.authdone \/ p.keepalive_recv = clock,
                    p.idle \in {c.idle, clock},
                    tr = p.idle \/ (tr = traffic[e] /\ (p.idle = c.idle \/ ~IdleIsOwn(e)))
             PROVE  SesLeft(e, p, tr)
  BY DEF Advanced
<1>1. SesLeft(e, c, traffic[e])
  BY CheckedOutcome
<1>2. /\ c \in Ses /\ Stamped(c) /\ Unexpired(e, c, clock)
      /\ connect_time <= traffic[e] /\ traffic[e] <= c.idle
      /\ IdleIsOwn(e) => traffic[e] = c.idle
      /\ down > 0 => c.keepalive_recv <= down
      /\ traffic[e] \in Nat
  BY <1>1 DEF SesLeft
<1>3. /\ clock \in Nat /\ connect_time \in Nat /\ down \in Nat
      /\ p.idle \in Nat /\ p.keepalive_recv \in Nat /\ p.keepalive_sent \in Nat
      /\ c.idle \in Nat /\ c.keepalive_recv \in Nat /\ c.keepalive_sent \in Nat
      /\ c.any_sent \in Nat
      /\ c.authdone \in BOOLEAN /\ p.authdone \in BOOLEAN
  BY <1>2 DEF IInv, Typed, connect_time, Ses
<1>4. /\ Limit(e).keepalive \in Nat /\ Limit(e).idle \in Nat /\ Limit(e).duration \in Nat
      /\ Limit(e).keepalive * DEFAULT_KEEPALIVE_LIMIT \in Nat /\ Delay \in Nat
      /\ Limit(e).keepalive > 0 =>
            Limit(e).keepalive + 2 * Delay < Limit(e).keepalive * DEFAULT_KEEPALIVE_LIMIT
  BY Limits DEF IInv, Typed
<1>5. connect_time <= clock /\ c.any_sent <= clock /\ c.keepalive_sent <= clock
        /\ c.keepalive_recv <= clock /\ c.idle <= clock /\ connect_time <= c.keepalive_recv
        /\ connect_time <= c.idle
  BY <1>2, <1>3 DEF Stamped
<1>6. Stamped(p)
  BY <1>3, <1>5 DEF Stamped
<1>7. Unexpired(e, p, clock)
  <2>1. (e = "server" /\ ~p.authdone) => clock < connect_time + AUTH_TIMEOUT
    BY <1>2 DEF Unexpired
  <2>2. p.remoteident =>
          /\ Limit(e).duration > 0 => clock < connect_time + Limit(e).duration
          /\ Limit(e).idle > 0 => clock < p.idle + Limit(e).idle
    BY <1>2, <1>3, <1>4, <1>5 DEF Unexpired
  <2>3. ASSUME p.authdone, Limit(e).keepalive > 0
        PROVE  /\ clock < p.keepalive_recv + Limit(e).keepalive * DEFAULT_KEEPALIVE_LIMIT
               /\ clock < KeepaliveDue(e, p)
    <3>1. PICK ka, max : ka = Limit(e).keepalive /\ max = Limit(e).keepalive * DEFAULT_KEEPALIVE_LIMIT
      OBVIOUS
    <3>2. ka \in Nat /\ max \in Nat /\ ka > 0 /\ max > 0
      BY <1>4, <2>3, <3>1
    <3>3. KeepaliveDue(e, p) = ka + (IF p.keepalive_sent > p.keepalive_recv
                                     THEN p.keepalive_sent ELSE p.keepalive_recv)
      BY <3>1 DEF KeepaliveDue
    <3>4. CASE p.keepalive_recv = clock
      <4>1. p.keepalive_sent <= clock
        BY <1>5
      <4>2. KeepaliveDue(e, p) = ka + clock
        BY <1>3, <3>2, <3>3, <3>4, <4>1
      <4>3. QED
        BY <1>3, <3>1, <3>2, <3>4, <4>2
    <3>5. CASE p.keepalive_recv # clock
      <4>1. c.authdone /\ p.keepalive_recv = c.keepalive_recv
        BY <2>3, <3>5
      <4>2. KeepaliveDue(e, p) = KeepaliveDue(e, c)
        BY <4>1 DEF KeepaliveDue
      <4>3. QED
        BY <1>2, <2>3, <4>1, <4>2 DEF Unexpired
    <3>6. QED
      BY <3>4, <3>5
  <2>4. QED
    BY <2>1, <2>2, <2>3 DEF Unexpired
<1>8. tr \in Nat /\ connect_time <= tr /\ tr <= p.idle /\ (IdleIsOwn(e) => tr = p.idle)
  <2>1. CASE tr = p.idle
    BY <2>1, <1>3, <1>5
  <2>2. CASE tr # p.idle
    <3>1. tr = traffic[e] /\ (p.idle = c.idle \/ ~IdleIsOwn(e))
      BY <2>2
    <3>2. p.idle = c.idle \/ p.idle = clock
      OBVIOUS
    <3>3. tr <= p.idle
      BY <3>1, <3>2, <1>2, <1>3, <1>5
    <3>4. QED
      BY <3>1, <3>3, <1>2
  <2>3. QED
    BY <2>1, <2>2
<1>9. down > 0 => p.keepalive_recv <= down
  BY <1>2, <1>3
<1>10. QED
  BY <1>6, <1>7, <1>8, <1>9 DEF SesLeft

\* A pass in which the session sends a packet of its own.
LEMMA SendsOutcome ==
  ASSUME IInv, NEW e \in End, Running(e), NEW type \in {"DATA", "USERAUTH_REQUEST"}, ~set.silent,
         NEW c, c = checktimeouts(e, ses[e]), c.running = "yes", c.remoteident
  PROVE  Outcome(e, encrypt_packet(c, type), wire[e], clock)
<1>1. PICK p : p = encrypt_packet(c, type)
  OBVIOUS
<1>2. /\ SesLeft(e, c, traffic[e]) /\ OutLeft(e, c) /\ KeepaliveLeft(e, c, wire[e])
      /\ c \in Ses /\ clock \in Nat
      /\ c.authdone => c.remoteident
  BY CheckedOutcome DEF SesLeft, IInv, Typed
<1>3. type \in Type \ {"ident", "FIN"} /\ type # "REQUEST_FAILURE" /\ type # "CHANNEL_REQUEST"
  BY DEF Type
<1>4. /\ p \in Ses /\ p.running = c.running /\ p.remoteident = c.remoteident
      /\ p.authdone = c.authdone /\ p.keepalive_recv = c.keepalive_recv
      /\ p.keepalive_sent = c.keepalive_sent /\ p.any_sent = clock
      /\ p.idle = clock /\ p.out = Append(c.out, type)
  <2>1. type \in Type
    BY <1>3
  <2>2. c \in Ses /\ clock \in Nat
    BY <1>2
  <2>3. Sent(c, type, p)
    BY <1>1, <2>1, <2>2, Encrypts
  <2>4. QED
    BY <1>3, <2>3 DEF Sent
<1>5. SesLeft(e, p, clock)
  BY <1>2, <1>4, Advances DEF Advanced
<1>6. /\ c.out \in Seq(Type) /\ Len(p.out) = Len(c.out) + 1 /\ p.out[Len(c.out) + 1] = type
      /\ \A i \in 1..Len(c.out) : p.out[i] = c.out[i]
  BY <1>2, <1>3, <1>4, SMTT(30) DEF Ses
<1>7. OutLeft(e, p)
  BY <1>2, <1>3, <1>6 DEF OutLeft
<1>8. KeepaliveLeft(e, p, wire[e])
  <2>1. (\E i \in 1..Len(c.out) : c.out[i] \in DOMAIN Answer) =>
           \E i \in 1..Len(p.out) : p.out[i] \in DOMAIN Answer
    BY <1>6
  <2>2. QED
    BY <1>2, <1>4, <2>1 DEF KeepaliveLeft
<1>9. WireLeft(e, p, wire[e])
  BY <1>4 DEF WireLeft
<1>10. QED
  BY <1>1, <1>5, <1>7, <1>8, <1>9 DEF Outcome

\* p is c with a packet received and handled.
Handled(c, type, p) ==
    /\ p \in Ses /\ p.running = c.running /\ p.remoteident = c.remoteident
    /\ p.authdone = c.authdone
         \/ (p.authdone = TRUE /\ type \in {"USERAUTH_REQUEST", "USERAUTH_SUCCESS"})
    /\ p.keepalive_recv = clock /\ p.keepalive_sent = c.keepalive_sent
    /\ p.any_sent \in {c.any_sent, clock} /\ p.idle \in {c.idle, clock}
    /\ type \in {"GLOBAL_REQUEST", "REQUEST_FAILURE", "CHANNEL_FAILURE"} => p.idle = c.idle
    /\ type \in {"USERAUTH_REQUEST", "USERAUTH_SUCCESS", "DATA"} => p.idle = clock
    /\ \/ p.out = c.out /\ type \notin DOMAIN Answer
       \/ /\ \E x \in {"CHANNEL_FAILURE", "REQUEST_FAILURE", "USERAUTH_SUCCESS"} :
                p.out = Append(c.out, x)
          /\ type \in DOMAIN Answer \cup {"USERAUTH_REQUEST"}

\* process_packet sets its stamps and answers a keepalive.
LEMMA Processes ==
  ASSUME clock \in Nat, NEW e, NEW c \in Ses, NEW type \in Type \ {"FIN", "ident"}
  PROVE  Handled(c, type, process_packet(e, c, type))
<1>0. PICK p : p = process_packet(e, c, type)
  OBVIOUS
<1>1. PICK t : t = [c EXCEPT !.keepalive_recv = clock,
                       !.idle = IF type \in {"GLOBAL_REQUEST", "REQUEST_FAILURE", "CHANNEL_FAILURE"}
                                THEN @ ELSE clock]
  OBVIOUS
<1>2. /\ t \in Ses /\ t.running = c.running /\ t.remoteident = c.remoteident
      /\ t.authdone = c.authdone /\ t.keepalive_recv = clock /\ t.keepalive_sent = c.keepalive_sent
      /\ t.any_sent = c.any_sent /\ t.out = c.out
      /\ t.idle = IF type \in {"GLOBAL_REQUEST", "REQUEST_FAILURE", "CHANNEL_FAILURE"}
                  THEN c.idle ELSE clock
  BY <1>1 DEF Ses
<1>3. PICK u : u = [t EXCEPT !.authdone = TRUE]
  OBVIOUS
<1>4. /\ u \in Ses /\ u.running = t.running /\ u.remoteident = t.remoteident
      /\ u.authdone = TRUE /\ u.keepalive_recv = t.keepalive_recv
      /\ u.keepalive_sent = t.keepalive_sent
      /\ u.any_sent = t.any_sent /\ u.out = t.out /\ u.idle = t.idle
  BY <1>2, <1>3 DEF Ses
<1>5. p = CASE type \in DOMAIN Answer -> encrypt_packet(t, Answer[type])
            [] type = "USERAUTH_REQUEST" -> encrypt_packet(u, "USERAUTH_SUCCESS")
            [] type = "USERAUTH_SUCCESS" -> u
            [] OTHER -> t
  BY <1>0, <1>1, <1>3, Zenon DEF process_packet
<1>6. CASE type = "CHANNEL_REQUEST"
  <2>1. p = encrypt_packet(t, "CHANNEL_FAILURE") /\ "CHANNEL_FAILURE" \in Type
    BY <1>5, <1>6, Answers DEF Type
  <2>2. Sent(t, "CHANNEL_FAILURE", p)
    BY <1>2, <2>1, Encrypts
  <2>3. QED
    BY <1>0, <1>2, <1>6, <2>2, Answers DEF Sent, Handled
<1>7. CASE type = "GLOBAL_REQUEST"
  <2>1. p = encrypt_packet(t, "REQUEST_FAILURE") /\ "REQUEST_FAILURE" \in Type
    BY <1>5, <1>7, Answers DEF Type
  <2>2. Sent(t, "REQUEST_FAILURE", p)
    BY <1>2, <2>1, Encrypts
  <2>3. QED
    BY <1>0, <1>2, <1>7, <2>2, Answers DEF Sent, Handled
<1>8. CASE type = "USERAUTH_REQUEST"
  <2>1. p = encrypt_packet(u, "USERAUTH_SUCCESS") /\ "USERAUTH_SUCCESS" \in Type
    BY <1>5, <1>8, Answers DEF Type
  <2>2. Sent(u, "USERAUTH_SUCCESS", p)
    BY <1>4, <2>1, Encrypts
  <2>3. p.idle = clock /\ p.out = Append(c.out, "USERAUTH_SUCCESS")
    BY <1>2, <1>4, <1>8, <2>2 DEF Sent
  <2>4. QED
    BY <1>0, <1>2, <1>4, <1>8, <2>2, <2>3, Answers DEF Sent, Handled
<1>9. CASE type = "USERAUTH_SUCCESS"
  <2>1. p = u
    BY <1>5, <1>9, Answers
  <2>2. QED
    BY <1>0, <1>2, <1>4, <1>9, <2>1, Answers DEF Handled
<1>10. CASE type \notin DOMAIN Answer \cup {"USERAUTH_REQUEST", "USERAUTH_SUCCESS"}
  <2>1. p = t
    BY <1>5, <1>10
  <2>2. QED
    BY <1>0, <1>2, <1>10, <2>1, Answers DEF Handled
<1>11. QED
  BY <1>6, <1>7, <1>8, <1>9, <1>10, Answers

\* A packet that is read, and what checktimeouts left before.
LEMMA Received ==
  ASSUME IInv, NEW e \in End, Running(e), wire[e] # << >>,
         NEW c, c = checktimeouts(e, ses[e]), NEW type, type = wire[e][1].type
  PROVE  /\ SesLeft(e, c, traffic[e]) /\ OutLeft(e, c) /\ c \in Ses /\ clock \in Nat
         /\ (type = "ident") => KeepaliveLeft(e, c, Tail(wire[e]))
         /\ wire[e] \in Seq(Packet) /\ 1 \in 1..Len(wire[e]) /\ type \in Type
<1>1. wire[e] \in Seq(Packet)
  BY DEF IInv, Typed
<1>2. 1 \in 1..Len(wire[e]) /\ wire[e][1] \in Packet
  BY <1>1
<1>3. type \in Type
  BY <1>2 DEF Packet
<1>4. /\ SesLeft(e, c, traffic[e]) /\ OutLeft(e, c) /\ c \in Ses /\ clock \in Nat
      /\ (type = "ident") => KeepaliveLeft(e, c, Tail(wire[e]))
  BY CheckedOutcome DEF SesLeft, IInv, Typed
<1>5. QED
  BY <1>1, <1>2, <1>3, <1>4

\* A pass that was to read a packet, and closed the session before.
LEMMA ReceivesClosed ==
  ASSUME IInv, NEW e \in End, Running(e), wire[e] # << >>, down = 0,
         NEW c, c = checktimeouts(e, ses[e]), NEW type, type = wire[e][1].type,
         c.running # "yes"
  PROVE  Outcome(e, c, Tail(wire[e]), traffic[e])
<1>1. /\ SesLeft(e, c, traffic[e]) /\ OutLeft(e, c) /\ c \in Ses /\ clock \in Nat
      /\ (type = "ident") => KeepaliveLeft(e, c, Tail(wire[e]))
  BY Received
<1>2. /\ wire[e] \in Seq(Packet) /\ 1 \in 1..Len(wire[e]) /\ type \in Type
  BY Received
<1>3. /\ Ordered(e) /\ Identifies(e)
  BY DEF IInv
<1>4. QED
  BY <1>1 DEF Outcome, WireLeft, KeepaliveLeft

\* A pass that reads the end of the stream.
LEMMA ReceivesFin ==
  ASSUME IInv, NEW e \in End, Running(e), wire[e] # << >>, down = 0,
         NEW c, c = checktimeouts(e, ses[e]), NEW type, type = wire[e][1].type,
         c.running = "yes", type = "FIN",
         NEW p, p = Close(c, "Remote closed")
  PROVE  Outcome(e, p, Tail(wire[e]), traffic[e])
<1>1. /\ SesLeft(e, c, traffic[e]) /\ OutLeft(e, c) /\ c \in Ses /\ clock \in Nat
      /\ (type = "ident") => KeepaliveLeft(e, c, Tail(wire[e]))
  BY Received
<1>2. /\ wire[e] \in Seq(Packet) /\ 1 \in 1..Len(wire[e]) /\ type \in Type
  BY Received
<1>3. /\ Ordered(e) /\ Identifies(e)
  BY DEF IInv
<1>4. QED
  <2>1. p = [c EXCEPT !.running = "Remote closed"]
    BY DEF Close
  <2>2. /\ p \in Ses /\ p.running = "Remote closed" /\ p.remoteident = c.remoteident
        /\ p.authdone = c.authdone /\ p.keepalive_recv = c.keepalive_recv
        /\ p.keepalive_sent = c.keepalive_sent /\ p.any_sent = c.any_sent
        /\ p.idle = c.idle /\ p.out = c.out
    BY <1>1, <2>1 DEF Ses, Why
  <2>3. SesLeft(e, p, traffic[e])
    BY <1>1, <2>1, <2>2 DEF SesLeft, Stamped
  <2>4. OutLeft(e, p)
    BY <1>1, <2>2, ZenonT(60) DEF OutLeft
  <2>5. QED
    BY <2>2, <2>3, <2>4 DEF Outcome, WireLeft, KeepaliveLeft

\* A pass that reads the identification.
LEMMA ReceivesIdent ==
  ASSUME IInv, NEW e \in End, Running(e), wire[e] # << >>, down = 0,
         NEW c, c = checktimeouts(e, ses[e]), NEW type, type = wire[e][1].type,
         c.running = "yes", type = "ident",
         NEW p, p = [c EXCEPT !.remoteident = TRUE]
  PROVE  Outcome(e, p, Tail(wire[e]), traffic[e])
<1>1. /\ SesLeft(e, c, traffic[e]) /\ OutLeft(e, c) /\ c \in Ses /\ clock \in Nat
      /\ (type = "ident") => KeepaliveLeft(e, c, Tail(wire[e]))
  BY Received
<1>2. /\ wire[e] \in Seq(Packet) /\ 1 \in 1..Len(wire[e]) /\ type \in Type
  BY Received
<1>3. /\ Ordered(e) /\ Identifies(e)
  BY DEF IInv
<1>4. QED
  <2>2. /\ p \in Ses /\ p.running = "yes" /\ p.remoteident = TRUE
        /\ p.authdone = c.authdone /\ p.keepalive_recv = c.keepalive_recv
        /\ p.keepalive_sent = c.keepalive_sent /\ p.any_sent = c.any_sent
        /\ p.idle = c.idle /\ p.out = c.out
    BY <1>1 DEF Ses
  <2>3. clock <= connect_time + Delay
    <3>1. wire[e][1].at = connect_time
      BY <1>2, <1>3 DEF Ordered
    <3>2. QED
      BY <1>2, <3>1, Delayed
  <2>4. Unexpired(e, p, clock)
    <3>1. /\ Limit(e).idle \in Nat /\ Limit(e).duration \in Nat /\ Delay \in Nat
          /\ Limit(e).idle > 0 => Delay < Limit(e).idle
          /\ Limit(e).duration > 0 => Delay < Limit(e).duration
      BY Limits DEF IInv, Typed
    <3>2. connect_time \in Nat /\ p.idle \in Nat /\ connect_time <= p.idle
      BY <1>1, <2>2 DEF SesLeft, Stamped, connect_time, Ses
    <3>3. /\ Limit(e).duration > 0 => clock < connect_time + Limit(e).duration
          /\ Limit(e).idle > 0 => clock < p.idle + Limit(e).idle
      BY <1>1, <2>3, <3>1, <3>2
    <3>4. KeepaliveDue(e, p) = KeepaliveDue(e, c)
      BY <2>2 DEF KeepaliveDue
    <3>5. Unexpired(e, c, clock)
      BY <1>1 DEF SesLeft
    <3>6. QED
      BY <2>2, <3>3, <3>4, <3>5 DEF Unexpired
  <2>5. SesLeft(e, p, traffic[e])
    BY <1>1, <2>2, <2>4 DEF SesLeft, Stamped
  <2>6. OutLeft(e, p)
    BY <1>1, <2>2 DEF OutLeft
  <2>7. KeepaliveLeft(e, p, Tail(wire[e]))
    BY <1>1, <2>2 DEF KeepaliveLeft
  <2>8. WireLeft(e, p, Tail(wire[e]))
    BY <2>2, Answers DEF WireLeft
  <2>9. QED
    BY <2>5, <2>6, <2>7, <2>8 DEF Outcome

\* A pass that reads any other packet.
LEMMA ReceivesPacket ==
  ASSUME IInv, NEW e \in End, Running(e), wire[e] # << >>, down = 0,
         NEW c, c = checktimeouts(e, ses[e]), NEW type, type = wire[e][1].type,
         c.running = "yes", type \notin {"FIN", "ident"},
         NEW p, p = process_packet(e, c, type),
         NEW tr, tr = IF type \in Keepalives THEN traffic[e] ELSE clock
  PROVE  Outcome(e, p, Tail(wire[e]), tr)
<1>1. /\ SesLeft(e, c, traffic[e]) /\ OutLeft(e, c) /\ c \in Ses /\ clock \in Nat
      /\ (type = "ident") => KeepaliveLeft(e, c, Tail(wire[e]))
  BY Received
<1>2. /\ wire[e] \in Seq(Packet) /\ 1 \in 1..Len(wire[e]) /\ type \in Type
  BY Received
<1>3. /\ Ordered(e) /\ Identifies(e)
  BY DEF IInv
<1>4. QED
  <2>1. p = process_packet(e, c, type) /\ type \in Type \ {"FIN", "ident"}
    BY <1>2
  <2>2. /\ p \in Ses /\ p.running = c.running /\ p.remoteident = c.remoteident
        /\ p.authdone = c.authdone
             \/ (p.authdone = TRUE /\ type \in {"USERAUTH_REQUEST", "USERAUTH_SUCCESS"})
        /\ p.keepalive_recv = clock /\ p.keepalive_sent = c.keepalive_sent
        /\ p.any_sent \in {c.any_sent, clock} /\ p.idle \in {c.idle, clock}
        /\ type \in {"GLOBAL_REQUEST", "REQUEST_FAILURE", "CHANNEL_FAILURE"} => p.idle = c.idle
        /\ type \in {"USERAUTH_REQUEST", "USERAUTH_SUCCESS", "DATA"} => p.idle = clock
        /\ \/ p.out = c.out /\ type \notin DOMAIN Answer
           \/ /\ \E x \in {"CHANNEL_FAILURE", "REQUEST_FAILURE", "USERAUTH_SUCCESS"} :
                    p.out = Append(c.out, x)
              /\ type \in DOMAIN Answer \cup {"USERAUTH_REQUEST"}
    <3>1. c \in Ses /\ clock \in Nat
      BY <1>1
    <3>2. Handled(c, type, p)
      BY <2>1, <3>1, Processes
    <3>3. QED
      BY <3>2, Zenon DEF Handled
  <2>3. set.silent \in BOOLEAN /\ ~set.silent
    <3>1. set.silent => type \in {"ident", "FIN"}
      BY <1>2, <1>3 DEF Identifies
    <3>2. set.silent \in BOOLEAN
      BY Limits DEF IInv, Typed
    <3>3. QED
      BY <3>1, <3>2
  <2>4. c.remoteident
    <3>1. c.remoteident = ses[e].remoteident
      BY CheckTimeouts DEF Checked, Kept
    <3>2. QED
      BY <1>3, <2>3, <3>1 DEF Identifies
  <2>5. tr = p.idle \/ (tr = traffic[e] /\ (p.idle = c.idle \/ ~IdleIsOwn(e)))
    <3>1. type \in Keepalives \/ type \in {"USERAUTH_REQUEST", "USERAUTH_SUCCESS", "DATA"}
      BY <2>1 DEF Type
    <3>2. CASE type \in Keepalives
      <4>1. tr = traffic[e]
        BY <3>2
      <4>2. type = "CHANNEL_REQUEST" => ~IdleIsOwn(e)
        BY <1>2, <1>3 DEF Ordered
      <4>3. QED
        BY <2>2, <3>2, <4>1, <4>2, Answers
    <3>3. CASE type \in {"USERAUTH_REQUEST", "USERAUTH_SUCCESS", "DATA"}
      <4>1. tr = clock
        BY <3>3, Answers
      <4>2. QED
        BY <2>2, <3>3, <4>1
    <3>4. QED
      BY <3>1, <3>2, <3>3
  <2>6. SesLeft(e, p, tr)
    <3>1. c.authdone => p.authdone
      BY <2>2
    <3>2. p.authdone => p.remoteident
      BY <2>2, <2>4
    <3>3. p.running = "yes"
      BY <2>2
    <3>4. down = 0
      OBVIOUS
    <3>5. Advanced(e, c, p, tr)
      BY <2>2, <2>5, <3>1, <3>2, <3>3, <3>4 DEF Advanced
    <3>6. QED
      BY <3>5, Advances
  <2>7. c.out \in Seq(Type)
    BY <1>1 DEF Ses
  <2>8. OutLeft(e, p) /\ (type \in DOMAIN Answer => Len(p.out) > 0)
    <3>1. CASE p.out = c.out /\ type \notin DOMAIN Answer
      BY <1>1, <2>3, <3>1 DEF OutLeft
    <3>2. ASSUME NEW x \in {"CHANNEL_FAILURE", "REQUEST_FAILURE", "USERAUTH_SUCCESS"},
                 p.out = Append(c.out, x)
          PROVE  OutLeft(e, p) /\ Len(p.out) > 0
      <4>1. x \in Type \ {"ident", "FIN"} /\ x # "CHANNEL_REQUEST"
        BY <3>2, Answers DEF Type
      <4>2. /\ Len(p.out) = Len(c.out) + 1 /\ p.out[Len(c.out) + 1] = x
            /\ \A i \in 1..Len(c.out) : p.out[i] = c.out[i]
        BY <2>7, <3>2, <4>1
      <4>3. Len(c.out) \in Nat
        BY <2>7
      <4>4. \A i \in 1..Len(p.out) :
               /\ p.out[i] \in Type \ {"ident", "FIN"}
               /\ p.out[i] = "CHANNEL_REQUEST" => ~IdleIsOwn(Peer(e))
        BY <1>1, <4>1, <4>2, <4>3, SMTT(30) DEF OutLeft
      <4>5. QED
        BY <2>3, <4>2, <4>3, <4>4 DEF OutLeft
    <3>3. QED
      BY <2>2, <3>1, <3>2
  <2>9. p.keepalive_sent <= clock
    BY <1>1, <2>2 DEF SesLeft, Stamped
  <2>10. KeepaliveLeft(e, p, Tail(wire[e]))
    <3>1. ~(p.keepalive_sent > p.keepalive_recv)
      <4>1. p.keepalive_sent \in Nat /\ clock \in Nat /\ p.keepalive_recv = clock
        BY <1>1, <2>2 DEF Ses
      <4>2. QED
        BY <2>9, <4>1
    <3>2. QED
      BY <3>1 DEF KeepaliveLeft
  <2>11. WireLeft(e, p, Tail(wire[e]))
    BY <2>2, <2>4, <2>8 DEF WireLeft
  <2>12. QED
    BY <2>6, <2>8, <2>10, <2>11 DEF Outcome

-----------------------------------------------------------------------------
(***************************************************************************)
(* Such a pass keeps the invariant.                                        *)
(***************************************************************************)
Join(t, u, v) ==
    /\ \A i \in 1..Len(u) : i \in 1..Len(t) /\ t[i] = u[i]
    /\ \A i \in 1..Len(v) : Len(u) + i \in 1..Len(t) /\ t[Len(u) + i] = v[i]
    /\ \A k \in 1..Len(t) : k \in 1..Len(u) \/ \E i \in 1..Len(v) : k = Len(u) + i

\* The elements of a concatenation.
LEMMA Joined ==
  ASSUME NEW S, NEW u \in Seq(S), NEW v \in Seq(S)
  PROVE  u \o v \in Seq(S) /\ Join(u \o v, u, v)
<1>0. PICK t : t = u \o v
  OBVIOUS
<1>1. Len(u) \in Nat /\ Len(v) \in Nat
  OBVIOUS
<1>2. t \in Seq(S) /\ Len(t) = Len(u) + Len(v)
  BY <1>0, ConcatProperties
<1>3. \A i \in 1..(Len(u) + Len(v)) : t[i] = IF i <= Len(u) THEN u[i] ELSE v[i - Len(u)]
  BY <1>0, ConcatProperties
<1>4. \A i \in 1..Len(v) : t[Len(u) + i] = v[i]
  <2> SUFFICES ASSUME NEW i \in 1..Len(v) PROVE t[Len(u) + i] = v[i]
    OBVIOUS
  <2>1. /\ Len(u) + i \in 1..(Len(u) + Len(v)) /\ ~(Len(u) + i <= Len(u))
        /\ (Len(u) + i) - Len(u) = i
    BY <1>1
  <2>2. QED
    BY <1>3, <2>1
<1>5. ASSUME NEW k \in 1..Len(t), k \notin 1..Len(u) PROVE \E i \in 1..Len(v) : k = Len(u) + i
  <2>1. k - Len(u) \in 1..Len(v) /\ k = Len(u) + (k - Len(u))
    BY <1>1, <1>2, <1>5
  <2>2. QED
    BY <2>1
<1>6. QED
  BY <1>0, <1>1, <1>2, <1>3, <1>4, <1>5 DEF Join

\* What a pass has to send goes to the wire of the peer, stamped with the clock.
LEMMA Transmits ==
  ASSUME clock \in Nat, NEW e \in End, NEW p \in Ses, OutLeft(e, p), NEW t, t = Transmitted(p)
  PROVE  /\ t \in Seq(Packet)
         /\ \A i \in 1..Len(t) :
               /\ t[i].at = clock /\ t[i].type # "ident"
               /\ t[i].type = "CHANNEL_REQUEST" => ~IdleIsOwn(Peer(e))
               /\ set.silent => t[i].type = "FIN"
         /\ p.running # "yes" => \E i \in 1..Len(t) : t[i].type = "FIN"
         /\ \A i \in 1..Len(p.out) : i \in 1..Len(t) /\ t[i].type = p.out[i]
<1>1. p.out \in Seq(Type) /\ DOMAIN p.out = 1..Len(p.out) /\ Len(p.out) \in Nat
  BY DEF Ses
<1>2. PICK u : u = [k \in 1..Len(p.out) |-> [type |-> p.out[k], at |-> clock]]
  OBVIOUS
<1>3. PICK v : v = (IF p.running = "yes" THEN << >> ELSE <<[type |-> "FIN", at |-> clock]>>)
  OBVIOUS
<1>4. t = u \o v
  BY <1>1, <1>2, <1>3 DEF Transmitted
<1>5. /\ u \in Seq(Packet) /\ Len(u) = Len(p.out)
      /\ \A i \in 1..Len(p.out) : u[i].type = p.out[i] /\ u[i].at = clock
  <2>1. \A k \in 1..Len(p.out) : [type |-> p.out[k], at |-> clock] \in Packet
    BY <1>1 DEF Packet
  <2>2. u \in [1..Len(p.out) -> Packet]
    BY <1>2, <2>1
  <2>3. u \in Seq(Packet) /\ Len(u) = Len(p.out)
    BY <1>1, <2>2
  <2>4. QED
    BY <1>2, <2>3
<1>6. "FIN" \in Type
  BY DEF Type
<1>7. PICK f : f = [type |-> "FIN", at |-> clock]
  OBVIOUS
<1>8. f \in Packet /\ f.type = "FIN" /\ f.at = clock
  BY <1>6, <1>7 DEF Packet
<1>9. /\ v \in Seq(Packet) /\ \A i \in 1..Len(v) : v[i].type = "FIN" /\ v[i].at = clock
      /\ p.running # "yes" => 1 \in 1..Len(v) /\ v[1].type = "FIN"
  <2>1. CASE p.running = "yes"
    BY <1>3, <2>1
  <2>2. CASE p.running # "yes"
    <3>1. v = <<f>>
      BY <1>3, <1>7, <2>2
    <3>2. QED
      BY <1>8, <2>2, <3>1
  <2>3. QED
    BY <2>1, <2>2
<1>10. t \in Seq(Packet) /\ Join(t, u, v)
  <2>1. u \in Seq(Packet) /\ v \in Seq(Packet)
    BY <1>5, <1>9
  <2>2. QED
    BY <1>4, <2>1, Joined
<1>11. \A i \in 1..Len(p.out) : i \in 1..Len(t) /\ t[i].type = p.out[i] /\ t[i].at = clock
  BY <1>5, <1>10 DEF Join
<1>12. p.running # "yes" => \E i \in 1..Len(t) : t[i].type = "FIN"
  BY <1>9, <1>10 DEF Join
<1>13. ASSUME NEW i \in 1..Len(t)
       PROVE  /\ t[i].at = clock /\ t[i].type # "ident"
              /\ t[i].type = "CHANNEL_REQUEST" => ~IdleIsOwn(Peer(e))
              /\ set.silent => t[i].type = "FIN"
  <2>1. CASE i \in 1..Len(p.out)
    <3>1. t[i].at = clock /\ t[i].type = p.out[i]
      BY <1>11, <2>1
    <3>2. ~set.silent
      BY <2>1 DEF OutLeft
    <3>3. p.out[i] # "ident" /\ (p.out[i] = "CHANNEL_REQUEST" => ~IdleIsOwn(Peer(e)))
      BY <2>1 DEF OutLeft
    <3>4. QED
      BY <3>1, <3>2, <3>3
  <2>2. CASE i \notin 1..Len(p.out)
    <3>1. PICK k \in 1..Len(v) : i = Len(u) + k
      BY <1>5, <1>10, <1>13, <2>2 DEF Join
    <3>2. t[i] = v[k]
      BY <1>10, <3>1 DEF Join
    <3>3. v[k].type = "FIN" /\ v[k].at = clock
      BY <1>9
    <3>4. QED
      BY <3>2, <3>3
  <2>3. QED
    BY <2>1, <2>2
<1>14. QED
  BY <1>10, <1>11, <1>12, <1>13

\* The part about the session of e.
LEMMA PassSession ==
  ASSUME IInv, NEW e \in End, NEW p, NEW rest, NEW tr, SesLeft(e, p, tr), EndPass(e, p, rest)
  PROVE  /\ ses'[e] \in Ses /\ ses'[Peer(e)] = ses[Peer(e)] /\ ses' \in [End -> Ses]
         /\ ses'[e].running = p.running /\ ses'[e].remoteident = p.remoteident
         /\ ses'[e].authdone = p.authdone /\ ses'[e].keepalive_recv = p.keepalive_recv
         /\ ses'[e].keepalive_sent = p.keepalive_sent /\ ses'[e].idle = p.idle
         /\ ses'[e].passed = clock
         /\ Waiting(e)'
<1>1. /\ p \in Ses /\ Stamped(p) /\ clock \in Nat /\ connect_time <= clock /\ connect_time \in Nat
      /\ ses \in [End -> Ses] /\ Typed
      /\ set' = set /\ clock' = clock /\ down' = down
      /\ p.authdone => p.remoteident
      /\ down > 0 => p.keepalive_recv <= down
      /\ p.running = "yes" => Unexpired(e, p, clock)
  <2>1. clock \in Nat /\ ses \in [End -> Ses] /\ Typed
    BY DEF IInv, Typed
  <2>2. set' = set /\ clock' = clock /\ down' = down
    BY DEF EndPass
  <2>3. connect_time \in Nat /\ ses[e].passed \in Nat
    BY <2>1 DEF connect_time, Ses
  <2>4. connect_time <= ses[e].passed /\ ses[e].passed <= clock
    BY DEF IInv, Waiting
  <2>5. connect_time <= clock
    BY <2>1, <2>3, <2>4
  <2>6. QED
    BY <2>1, <2>2, <2>3, <2>5 DEF SesLeft
<1>2. PICK x : x = select_timeout(e, p)
  OBVIOUS
<1>3. /\ x \in Nat
      /\ (e = "server" /\ ~p.authdone /\ clock < connect_time + AUTH_TIMEOUT) =>
            clock + x <= connect_time + AUTH_TIMEOUT
      /\ (Limit(e).duration > 0 /\ clock < connect_time + Limit(e).duration) =>
            clock + x <= connect_time + Limit(e).duration
      /\ (Limit(e).idle > 0 /\ clock < p.idle + Limit(e).idle) =>
            clock + x <= p.idle + Limit(e).idle
      /\ (p.authdone /\ Limit(e).keepalive > 0 /\ clock < KeepaliveDue(e, p)) =>
            clock + x <= KeepaliveDue(e, p)
      /\ (p.remoteident /\ Unexpired(e, p, clock)) => x > 0
  BY <1>1, <1>2, SelectTimeout
<1>4. PICK n : n = [p EXCEPT !.out = << >>, !.passed = clock, !.wake = clock + x]
  OBVIOUS
<1>5. ses' = [ses EXCEPT ![e] = n]
  BY <1>2, <1>4 DEF EndPass
<1>6. ses'[e] = n /\ ses'[Peer(e)] = ses[Peer(e)]
  BY <1>1, <1>5, Ends
<1>7. /\ n \in Ses /\ n.running = p.running /\ n.remoteident = p.remoteident
      /\ n.authdone = p.authdone /\ n.keepalive_recv = p.keepalive_recv
      /\ n.keepalive_sent = p.keepalive_sent /\ n.idle = p.idle /\ n.any_sent = p.any_sent
      /\ n.passed = clock /\ n.wake = clock + x /\ n.out = << >>
  <2>1. clock + x \in Nat /\ << >> \in Seq(Type)
    BY <1>1, <1>3
  <2>2. QED
    BY <1>1, <1>4, <2>1 DEF Ses
<1>8. ses' \in [End -> Ses]
  BY <1>1, <1>5, <1>7
<1>9. Limit(e)' = Limit(e)
  BY <1>1 DEF Limit
<1>10. Stamped(n)
  BY <1>1, <1>7 DEF Stamped
<1>11. KeepaliveDue(e, n) = KeepaliveDue(e, p)
  BY <1>7 DEF KeepaliveDue
<1>12. p.running = "yes" => Unexpired(e, n, n.passed) /\ Awake(e, n)
  <2> SUFFICES ASSUME p.running = "yes" PROVE Unexpired(e, n, n.passed) /\ Awake(e, n)
    OBVIOUS
  <2>1. Unexpired(e, p, clock)
    BY <1>1
  <2>2. Unexpired(e, n, n.passed)
    BY <1>7, <1>11, <2>1 DEF Unexpired
  <2>3. p.remoteident => clock + x > clock
    BY <1>1, <1>3, <2>1
  <2>4. Awake(e, n)
    BY <1>3, <1>7, <1>11, <2>1, <2>3 DEF Unexpired, Awake
  <2>5. QED
    BY <2>2, <2>4
<1>13. KeepaliveDue(e, ses[e])' = KeepaliveDue(e, n)
  BY <1>6, <1>9 DEF KeepaliveDue
<1>14. Unexpired(e, ses[e], ses[e].passed)' <=> Unexpired(e, n, n.passed)
  BY <1>6, <1>9, <1>13 DEF Unexpired
<1>15. Awake(e, ses[e])' <=> Awake(e, n)
  BY <1>6, <1>9, <1>13 DEF Awake
<1>16. Stamped(ses[e])' <=> Stamped(n)
  BY <1>1, <1>6 DEF Stamped
<1>17. Running(e)' <=> p.running = "yes"
  BY <1>6, <1>7 DEF Running
<1>18. clock <= n.passed + 1
  BY <1>1, <1>7
<1>19. clock <= clock /\ n.keepalive_sent <= clock /\ n.keepalive_recv <= clock
  BY <1>1, <1>10 DEF Stamped
<1>20. Waiting(e)'
  BY <1>1, <1>6, <1>7, <1>10, <1>12, <1>14, <1>15, <1>16, <1>17, <1>18, <1>19 DEF Waiting
<1>21. QED
  BY <1>6, <1>7, <1>8, <1>20

\* The part about the wires.  A packet of the old wire is under way still unless
\* it was the head and e read it.
LEMMA PassWire ==
  ASSUME IInv, NEW e \in End, NEW p \in Ses, NEW rest, OutLeft(e, p), WireLeft(e, p, rest),
         EndPass(e, p, rest)
  PROVE  /\ wire'[e] = rest /\ wire' \in [End -> Seq(Packet)]
         /\ \A k \in 1..Len(wire[e]) :
               (rest # wire[e] /\ k = 1) \/ \E j \in 1..Len(rest) : rest[j] = wire[e][k]
         /\ \A k \in 1..Len(wire[Peer(e)]) :
               k \in 1..Len(wire'[Peer(e)]) /\ wire'[Peer(e)][k] = wire[Peer(e)][k]
         /\ down = 0 =>
              /\ \A i \in 1..Len(p.out) : \E k \in 1..Len(wire'[Peer(e)]) :
                    wire'[Peer(e)][k].type = p.out[i] /\ wire'[Peer(e)][k].at = clock
              /\ p.running # "yes" => \E k \in 1..Len(wire'[Peer(e)]) :
                    wire'[Peer(e)][k].type = "FIN" /\ wire'[Peer(e)][k].at = clock
         /\ \A k \in 1..Len(wire'[Peer(e)]) :
               \/ k \in 1..Len(wire[Peer(e)]) /\ wire'[Peer(e)][k] = wire[Peer(e)][k]
               \/ /\ k > Len(wire[Peer(e)]) /\ down = 0
                  /\ wire'[Peer(e)][k].at = clock /\ wire'[Peer(e)][k].type # "ident"
                  /\ wire'[Peer(e)][k].type = "CHANNEL_REQUEST" => ~IdleIsOwn(Peer(e))
                  /\ set.silent => wire'[Peer(e)][k].type = "FIN"
<1>1. PICK d : d = Peer(e) /\ d \in End /\ d # e
  BY Ends
<1>2. PICK t : t = Transmitted(p)
  OBVIOUS
<1>3. clock \in Nat /\ down \in Nat /\ wire \in [End -> Seq(Packet)]
  BY DEF IInv, Typed
<1>4. /\ t \in Seq(Packet)
      /\ \A i \in 1..Len(t) :
            /\ t[i].at = clock /\ t[i].type # "ident"
            /\ t[i].type = "CHANNEL_REQUEST" => ~IdleIsOwn(Peer(e))
            /\ set.silent => t[i].type = "FIN"
      /\ p.running # "yes" => \E i \in 1..Len(t) : t[i].type = "FIN"
      /\ \A i \in 1..Len(p.out) : i \in 1..Len(t) /\ t[i].type = p.out[i]
  BY <1>2, <1>3, Transmits
<1>5. PICK w : w = IF down > 0 THEN wire[d] ELSE wire[d] \o t
  OBVIOUS
<1>6. wire' = [wire EXCEPT ![e] = rest, ![d] = w]
  BY <1>1, <1>2, <1>5 DEF EndPass
<1>7. wire'[e] = rest /\ wire'[d] = w
  BY <1>1, <1>3, <1>6
<1>8. /\ rest \in Seq(Packet)
      /\ \A k \in 1..Len(wire[e]) :
            (rest # wire[e] /\ k = 1) \/ \E j \in 1..Len(rest) : rest[j] = wire[e][k]
  <2>1. CASE rest = wire[e]
    BY <1>3, <2>1
  <2>2. CASE rest # wire[e]
    <3>1. rest = Tail(wire[e]) /\ wire[e] # << >> /\ wire[e] \in Seq(Packet)
      BY <1>3, <2>2 DEF WireLeft
    <3>2. /\ rest \in Seq(Packet) /\ Len(rest) = Len(wire[e]) - 1 /\ Len(wire[e]) \in Nat
          /\ \A j \in 1..Len(rest) : rest[j] = wire[e][j + 1]
      BY <3>1
    <3>3. ASSUME NEW k \in 1..Len(wire[e]), k # 1 PROVE \E j \in 1..Len(rest) : rest[j] = wire[e][k]
      <4>1. k - 1 \in 1..Len(rest) /\ (k - 1) + 1 = k
        BY <3>2, <3>3
      <4>2. rest[k - 1] = wire[e][k]
        BY <3>2, <4>1
      <4>3. QED
        BY <4>1, <4>2
    <3>4. QED
      BY <2>2, <3>2, <3>3
  <2>3. QED
    BY <2>1, <2>2
<1>9. down > 0 => wire[d] = << >>
  BY <1>1 DEF IInv, Ordered
<1>10. CASE down > 0
  <2>1. w = wire[d] /\ w \in Seq(Packet)
    BY <1>1, <1>3, <1>5, <1>10
  <2>2. wire' \in [End -> Seq(Packet)]
    BY <1>1, <1>3, <1>6, <1>8, <2>1
  <2>3. down # 0
    BY <1>3, <1>10
  <2>4. QED
    BY <1>1, <1>7, <1>8, <2>1, <2>2, <2>3
<1>11. CASE down = 0
  <2>1. w = wire[d] \o t /\ wire[d] \in Seq(Packet)
    BY <1>1, <1>3, <1>5, <1>11
  <2>2. w \in Seq(Packet) /\ Join(w, wire[d], t)
    BY <1>4, <2>1, Joined
  <2>3. wire' \in [End -> Seq(Packet)]
    BY <1>1, <1>3, <1>6, <1>8, <2>2
  <2>4. \A k \in 1..Len(wire[d]) : k \in 1..Len(w) /\ w[k] = wire[d][k]
    BY <2>2 DEF Join
  <2>5. \A i \in 1..Len(t) : \E k \in 1..Len(w) : w[k] = t[i]
    BY <2>2 DEF Join
  <2>6. ASSUME NEW k \in 1..Len(w), k \notin 1..Len(wire[d])
        PROVE  /\ k > Len(wire[d])
               /\ w[k].at = clock /\ w[k].type # "ident"
               /\ w[k].type = "CHANNEL_REQUEST" => ~IdleIsOwn(Peer(e))
               /\ set.silent => w[k].type = "FIN"
    <3>1. PICK i \in 1..Len(t) : k = Len(wire[d]) + i
      BY <2>2, <2>6 DEF Join
    <3>2. w[k] = t[i]
      BY <2>2, <3>1 DEF Join
    <3>3. k > Len(wire[d])
      BY <2>1, <3>1
    <3>4. QED
      BY <1>4, <3>2, <3>3
  <2>7. \A i \in 1..Len(p.out) : \E k \in 1..Len(w) : w[k].type = p.out[i] /\ w[k].at = clock
    BY <1>4, <2>5, ZenonT(60)
  <2>8. p.running # "yes" => \E k \in 1..Len(w) : w[k].type = "FIN" /\ w[k].at = clock
    BY <1>4, <2>5
  <2>9. \A k \in 1..Len(w) :
           \/ k \in 1..Len(wire[d]) /\ w[k] = wire[d][k]
           \/ /\ k > Len(wire[d]) /\ down = 0
              /\ w[k].at = clock /\ w[k].type # "ident"
              /\ w[k].type = "CHANNEL_REQUEST" => ~IdleIsOwn(d)
              /\ set.silent => w[k].type = "FIN"
    BY <1>1, <1>11, <2>4, <2>6
  <2>10. QED
    BY <1>1, <1>7, <1>8, <2>3, <2>4, <2>7, <2>8, <2>9
<1>12. QED
  BY <1>3, <1>10, <1>11

\* A pass with such an outcome keeps the invariant.
LEMMA Pass ==
  ASSUME IInv, NEW e \in End, Running(e), NEW p, NEW rest, NEW tr, Outcome(e, p, rest, tr),
         EndPass(e, p, rest), traffic' = [traffic EXCEPT ![e] = tr], made' \in [End -> Nat]
  PROVE  IInv'
<1>1. PICK d : d = Peer(e) /\ d \in End /\ d # e /\ e = Peer(d)
  BY Ends
<1>2. SesLeft(e, p, tr) /\ OutLeft(e, p) /\ WireLeft(e, p, rest) /\ KeepaliveLeft(e, p, rest)
  BY DEF Outcome
<1>3. p \in Ses /\ tr \in Nat
  BY <1>2 DEF SesLeft
<1>4. /\ set' = set /\ clock' = clock /\ down' = down
  BY DEF EndPass
<1>5. /\ ses'[e] \in Ses /\ ses'[d] = ses[d] /\ ses' \in [End -> Ses]
      /\ ses'[e].running = p.running /\ ses'[e].remoteident = p.remoteident
      /\ ses'[e].authdone = p.authdone /\ ses'[e].keepalive_recv = p.keepalive_recv
      /\ ses'[e].keepalive_sent = p.keepalive_sent /\ ses'[e].idle = p.idle
      /\ ses'[e].passed = clock
      /\ Waiting(e)'
  BY <1>1, <1>2, PassSession
<1>6. /\ wire'[e] = rest /\ wire' \in [End -> Seq(Packet)]
      /\ \A k \in 1..Len(wire[e]) :
            (rest # wire[e] /\ k = 1) \/ \E j \in 1..Len(rest) : rest[j] = wire[e][k]
      /\ \A k \in 1..Len(wire[d]) : k \in 1..Len(wire'[d]) /\ wire'[d][k] = wire[d][k]
  <2>1. wire'[e] = rest /\ wire' \in [End -> Seq(Packet)]
    BY <1>2, <1>3, PassWire
  <2>2. \A k \in 1..Len(wire[e]) :
            (rest # wire[e] /\ k = 1) \/ \E j \in 1..Len(rest) : rest[j] = wire[e][k]
    BY <1>2, <1>3, PassWire
  <2>3. \A k \in 1..Len(wire[d]) : k \in 1..Len(wire'[d]) /\ wire'[d][k] = wire[d][k]
    BY <1>1, <1>2, <1>3, PassWire
  <2>4. QED
    BY <2>1, <2>2, <2>3
<1>7. down = 0 =>
        /\ \A i \in 1..Len(p.out) : \E k \in 1..Len(wire'[d]) :
              wire'[d][k].type = p.out[i] /\ wire'[d][k].at = clock
        /\ p.running # "yes" => \E k \in 1..Len(wire'[d]) :
              wire'[d][k].type = "FIN" /\ wire'[d][k].at = clock
  BY <1>1, <1>2, <1>3, PassWire
<1>8. \A k \in 1..Len(wire'[d]) :
         \/ k \in 1..Len(wire[d]) /\ wire'[d][k] = wire[d][k]
         \/ /\ k > Len(wire[d]) /\ down = 0
            /\ wire'[d][k].at = clock /\ wire'[d][k].type # "ident"
            /\ wire'[d][k].type = "CHANNEL_REQUEST" => ~IdleIsOwn(d)
            /\ set.silent => wire'[d][k].type = "FIN"
  BY <1>1, <1>2, <1>3, PassWire
<1>9. Typed /\ Waiting(e) /\ Waiting(d) /\ Measured(e) /\ Measured(d) /\ Ordered(e) /\ Ordered(d)
        /\ Identifies(e) /\ Identifies(d) /\ FinSent(e) /\ FinSent(d) /\ Answered(e) /\ Answered(d)
        /\ ClosedForCause /\ down <= clock
  BY <1>1 DEF IInv
<1>10. /\ clock \in Nat /\ down \in Nat /\ wire \in [End -> Seq(Packet)] /\ ses[e] \in Ses /\ ses[d] \in Ses
       /\ traffic \in [End -> Nat] /\ Delay \in Nat
  BY <1>1, <1>9, Limits DEF Typed
<1>11. /\ Limit(e)' = Limit(e) /\ Limit(d)' = Limit(d)
       /\ IdleIsOwn(e)' <=> IdleIsOwn(e)
       /\ IdleIsOwn(d)' <=> IdleIsOwn(d)
  BY <1>4 DEF Limit, IdleIsOwn
<1>12. /\ Running(e)' <=> p.running = "yes"
       /\ Running(d)' <=> Running(d)
  BY <1>5 DEF Running
<1>13. traffic'[e] = tr /\ traffic'[d] = traffic[d] /\ traffic' \in [End -> Nat]
  BY <1>1, <1>3, <1>10
<1>14. Typed'
  BY <1>4, <1>5, <1>6, <1>9, <1>13 DEF Typed
<1>15. ClosedForCause'
  <2>1. /\ p.running = "Idle timeout" => clock - tr >= Limit(e).idle
        /\ p.running = "Keepalive timeout" => down > 0
    BY <1>2 DEF SesLeft
  <2>2. /\ ses'[e].running = "Idle timeout" => ses'[e].passed - traffic'[e] >= Limit(e)'.idle
        /\ ses'[e].running = "Keepalive timeout" => down' > 0
    BY <2>1, <1>4, <1>5, <1>11, <1>13
  <2>3. /\ ses'[d].running = "Idle timeout" => ses'[d].passed - traffic'[d] >= Limit(d)'.idle
        /\ ses'[d].running = "Keepalive timeout" => down' > 0
    BY <1>1, <1>4, <1>5, <1>9, <1>11, <1>13 DEF ClosedForCause
  <2>4. \A x \in End : x = e \/ x = d
    BY <1>1, Ends
  <2>5. QED
    BY <2>2, <2>3, <2>4 DEF ClosedForCause
<1>16. Waiting(d)'
  <2>1. KeepaliveDue(d, ses[d])' = KeepaliveDue(d, ses[d])
    BY <1>5, <1>11 DEF KeepaliveDue
  <2>2. /\ Unexpired(d, ses[d], ses[d].passed)' <=> Unexpired(d, ses[d], ses[d].passed)
    BY <1>5, <1>11, <2>1 DEF Unexpired
  <2>3. /\ Awake(d, ses[d])' <=> Awake(d, ses[d])
    BY <1>5, <1>11, <2>1 DEF Awake
  <2>4. /\ Stamped(ses[d])' <=> Stamped(ses[d])
    BY <1>4, <1>5 DEF Stamped
  <2>5. QED
    BY <1>4, <1>5, <1>9, <1>12, <2>2, <2>3, <2>4 DEF Waiting
<1>17. Measured(e)' /\ Measured(d)'
  BY <1>2, <1>5, <1>9, <1>11, <1>13 DEF Measured, SesLeft
<1>18. Ordered(e)'
  <2>1. CASE rest = wire[e]
    BY <1>4, <1>6, <1>9, <1>11, <1>12, <2>1 DEF Ordered
  <2>2. CASE rest # wire[e]
    <3>1. rest = Tail(wire[e]) /\ wire[e] # << >> /\ wire[e] \in Seq(Packet) /\ down = 0
      BY <1>10, <2>2 DEF WireLeft, Outcome
    <3>2. /\ rest \in Seq(Packet) /\ Len(rest) = Len(wire[e]) - 1 /\ Len(wire[e]) \in Nat
          /\ \A j \in 1..Len(rest) : rest[j] = wire[e][j + 1]
      BY <3>1
    <3>3. \A j \in 1..Len(rest) : j + 1 \in 1..Len(wire[e]) /\ j + 1 # 1
      BY <3>2
    <3>4. rest # << >> => clock <= rest[1].at + Delay
      <4> SUFFICES ASSUME rest # << >> PROVE clock <= rest[1].at + Delay
        OBVIOUS
      <4>1. 1 \in 1..Len(rest) /\ 1 + 1 = 2
        BY <3>2
      <4>2. rest[1] = wire[e][2] /\ 2 \in 1..Len(wire[e])
        BY <3>2, <3>3, <4>1
      <4>3. QED
        BY <4>2, Delayed
    <3>5. ASSUME NEW k \in 1..Len(rest)
          PROVE  /\ rest[k].at <= clock
                 /\ \A j \in 1..k : rest[j].at <= rest[k].at
                 /\ rest[k].type # "ident"
                 /\ rest[k].type = "CHANNEL_REQUEST" => ~IdleIsOwn(e)
      <4>1. k + 1 \in 1..Len(wire[e]) /\ rest[k] = wire[e][k + 1] /\ k + 1 # 1
        BY <3>2, <3>3
      <4>2. /\ wire[e][k + 1].at <= clock /\ wire[e][k + 1].type # "ident"
            /\ wire[e][k + 1].type = "CHANNEL_REQUEST" => ~IdleIsOwn(e)
            /\ \A j \in 1..(k + 1) : wire[e][j].at <= wire[e][k + 1].at
        BY <1>9, <4>1 DEF Ordered
      <4>3. ASSUME NEW j \in 1..k PROVE rest[j].at <= rest[k].at
        <5>1. j + 1 \in 1..(k + 1) /\ j \in 1..Len(rest)
          BY <3>2
        <5>2. QED
          BY <3>2, <4>1, <4>2, <5>1
      <4>4. QED
        BY <4>1, <4>2, <4>3
    <3>6. ~(down' > 0) /\ (rest # << >> => clock' <= rest[1].at + Delay)
      BY <1>4, <3>1, <3>4
    <3>7. \A k \in 1..Len(rest) :
             /\ rest[k].at <= clock'
             /\ \A j \in 1..k : rest[j].at <= rest[k].at
             /\ rest[k].type = "ident" => k = 1 /\ rest[k].at = connect_time
             /\ rest[k].type = "CHANNEL_REQUEST" => ~IdleIsOwn(e)'
      BY <1>4, <1>11, <3>5
    <3>8. wire'[e] = rest
      BY <1>6
    <3>9. QED
      BY <3>6, <3>7, <3>8 DEF Ordered
  <2>3. QED
    BY <2>1, <2>2
<1>19. Ordered(d)'
  <2>1. wire[d] \in Seq(Packet) /\ Len(wire[d]) \in Nat
    BY <1>1, <1>10
  <2>2. wire'[d] \in Seq(Packet) /\ Len(wire'[d]) \in Nat
    BY <1>1, <1>6
  <2>3. \A k \in 1..Len(wire[d]) :
           /\ wire[d][k].at \in Nat /\ wire[d][k].at <= clock
           /\ Running(d) => clock <= wire[d][k].at + Delay
    BY <1>1, Delayed
  <2>4. \A k \in 1..Len(wire[d]) :
           /\ \A j \in 1..k : wire[d][j].at <= wire[d][k].at
           /\ wire[d][k].type = "ident" => k = 1 /\ wire[d][k].at = connect_time
           /\ wire[d][k].type = "CHANNEL_REQUEST" => ~IdleIsOwn(d)
    BY <1>9 DEF Ordered
  <2>5. down' > 0 => wire'[d] = << >>
    <3> SUFFICES ASSUME down > 0 PROVE wire'[d] = << >>
      BY <1>4
    <3>1. wire[d] = << >> /\ down # 0
      BY <1>9, <1>10 DEF Ordered
    <3>2. \A k \in 1..Len(wire'[d]) : FALSE
      BY <1>8, <3>1
    <3>3. QED
      BY <2>2, <3>2
  <2>6. (Running(d) /\ wire'[d] # << >>) => clock <= wire'[d][1].at + Delay
    <3> SUFFICES ASSUME Running(d), wire'[d] # << >> PROVE clock <= wire'[d][1].at + Delay
      OBVIOUS
    <3>1. 1 \in 1..Len(wire'[d])
      BY <2>2
    <3>2. CASE 1 \in 1..Len(wire[d]) /\ wire'[d][1] = wire[d][1]
      BY <2>3, <3>2
    <3>3. CASE wire'[d][1].at = clock
      BY <1>10, <3>3
    <3>4. QED
      BY <1>8, <3>1, <3>2, <3>3
  <2>7. ASSUME NEW k \in 1..Len(wire'[d])
        PROVE  /\ wire'[d][k].at <= clock
               /\ \A j \in 1..k : wire'[d][j].at <= wire'[d][k].at
               /\ wire'[d][k].type = "ident" => k = 1 /\ wire'[d][k].at = connect_time
               /\ wire'[d][k].type = "CHANNEL_REQUEST" => ~IdleIsOwn(d)
    <3>1. CASE k \in 1..Len(wire[d]) /\ wire'[d][k] = wire[d][k]
      <4>1. ASSUME NEW j \in 1..k PROVE wire'[d][j].at <= wire'[d][k].at
        <5>1. j \in 1..Len(wire[d])
          BY <2>1, <3>1
        <5>2. wire'[d][j] = wire[d][j]
          BY <1>6, <5>1
        <5>3. QED
          BY <2>4, <3>1, <4>1, <5>2
      <4>2. QED
        BY <2>3, <2>4, <3>1, <4>1
    <3>2. CASE /\ wire'[d][k].at = clock /\ wire'[d][k].type # "ident"
               /\ wire'[d][k].type = "CHANNEL_REQUEST" => ~IdleIsOwn(d)
      <4>1. ASSUME NEW j \in 1..k PROVE wire'[d][j].at <= clock
        <5>1. j \in 1..Len(wire'[d])
          BY <2>2
        <5>2. CASE j \in 1..Len(wire[d]) /\ wire'[d][j] = wire[d][j]
          BY <2>3, <5>2
        <5>3. CASE wire'[d][j].at = clock
          BY <1>10, <5>3
        <5>4. QED
          BY <1>8, <5>1, <5>2, <5>3
      <4>2. clock <= clock
        BY <1>10
      <4>3. QED
        BY <3>2, <4>1, <4>2
    <3>3. QED
      BY <1>8, <2>7, <3>1, <3>2
  <2>8. QED
    BY <1>4, <1>11, <1>12, <2>5, <2>6, <2>7 DEF Ordered
<1>20. Identifies(e)'
  <2>1. (~set.silent /\ down = 0 /\ p.running = "yes" /\ ~p.remoteident) =>
           rest # << >> /\ rest[1].type = "ident"
    BY <1>2, <1>9 DEF WireLeft, Identifies
  <2>2. set.silent => ~p.authdone
    BY <1>2 DEF OutLeft
  <2>3. set.silent => \A k \in 1..Len(rest) : rest[k].type \in {"ident", "FIN"}
    <3> SUFFICES ASSUME set.silent, NEW k \in 1..Len(rest) PROVE rest[k].type \in {"ident", "FIN"}
      OBVIOUS
    <3>1. \A j \in 1..Len(wire[e]) : wire[e][j].type \in {"ident", "FIN"}
      BY <1>9 DEF Identifies
    <3>2. CASE rest = wire[e]
      BY <3>1, <3>2
    <3>3. CASE rest = Tail(wire[e]) /\ wire[e] # << >>
      <4>1. wire[e] \in Seq(Packet)
        BY <1>10
      <4>2. k + 1 \in 1..Len(wire[e]) /\ rest[k] = wire[e][k + 1]
        BY <3>3, <4>1
      <4>3. QED
        BY <3>1, <4>2
    <3>4. QED
      BY <1>2, <3>2, <3>3 DEF WireLeft
  <2>4. QED
    BY <1>4, <1>5, <1>6, <1>12, <2>1, <2>2, <2>3 DEF Identifies
<1>21. Identifies(d)'
  <2>1. (~set.silent /\ down = 0 /\ Running(d) /\ ~ses[d].remoteident) =>
           wire'[d] # << >> /\ wire'[d][1].type = "ident"
    <3> SUFFICES ASSUME ~set.silent, down = 0, Running(d), ~ses[d].remoteident
                 PROVE  wire'[d] # << >> /\ wire'[d][1].type = "ident"
      OBVIOUS
    <3>1. wire[d] # << >> /\ wire[d][1].type = "ident" /\ wire[d] \in Seq(Packet)
      BY <1>1, <1>9, <1>10 DEF Identifies
    <3>2. 1 \in 1..Len(wire[d])
      BY <3>1
    <3>3. 1 \in 1..Len(wire'[d]) /\ wire'[d][1] = wire[d][1]
      BY <1>6, <3>2
    <3>4. QED
      BY <3>1, <3>3
  <2>2. set.silent => ~ses[d].authdone
    BY <1>9 DEF Identifies
  <2>3. set.silent => \A k \in 1..Len(wire'[d]) : wire'[d][k].type \in {"ident", "FIN"}
    BY <1>8, <1>9 DEF Identifies
  <2>4. QED
    BY <1>4, <1>5, <1>12, <2>1, <2>2, <2>3 DEF Identifies
<1>22. FinSent(e)'
  <2> SUFFICES ASSUME down = 0, p.running = "yes", ~Running(d)
               PROVE  \E k \in 1..Len(rest) : rest[k].type = "FIN"
    BY <1>1, <1>4, <1>6, <1>12 DEF FinSent
  <2>1. PICK k \in 1..Len(wire[e]) : wire[e][k].type = "FIN"
    BY <1>1, <1>9 DEF FinSent
  <2>2. ~(rest # wire[e] /\ k = 1)
    BY <1>2, <2>1 DEF WireLeft
  <2>3. QED
    BY <1>6, <2>1, <2>2
<1>23. FinSent(d)'
  <2> SUFFICES ASSUME down = 0, Running(d), p.running # "yes"
               PROVE  \E k \in 1..Len(wire'[d]) : wire'[d][k].type = "FIN"
    BY <1>1, <1>4, <1>12 DEF FinSent
  <2>1. QED
    BY <1>7
<1>24. Answered(e)'
  <2>1. PICK due : due = p.keepalive_recv + Limit(e).keepalive
    OBVIOUS
  <2>2. due \in Nat
    <3>1. Limit(e).keepalive \in Nat
      BY <1>9, Limits DEF Typed
    <3>2. p.keepalive_recv \in Nat
      BY <1>3 DEF Ses
    <3>3. QED
      BY <2>1, <3>1, <3>2
  <2> SUFFICES ASSUME down = 0, p.running = "yes", p.authdone, Limit(e).keepalive > 0,
                      p.keepalive_sent > p.keepalive_recv
               PROVE  \/ \E k \in 1..Len(rest) : rest[k].type # "ident" /\ rest[k].at <= due + Delay
                      \/ /\ Running(d)
                         /\ \E k \in 1..Len(wire'[d]) :
                               wire'[d][k].type \in DOMAIN Answer /\ wire'[d][k].at <= due
    BY <1>1, <1>4, <1>5, <1>6, <1>11, <1>12, <2>1 DEF Answered
  <2>3. CASE /\ ses[e].authdone /\ ses[e].keepalive_sent > ses[e].keepalive_recv
             /\ p.keepalive_recv = ses[e].keepalive_recv
             /\ rest = wire[e] \/ wire[e][1].type = "ident"
    <3>1. CASE \E k \in 1..Len(wire[e]) : wire[e][k].type # "ident" /\ wire[e][k].at <= due + Delay
      <4>1. PICK k \in 1..Len(wire[e]) : wire[e][k].type # "ident" /\ wire[e][k].at <= due + Delay
        BY <3>1
      <4>2. \E j \in 1..Len(rest) : rest[j] = wire[e][k]
        BY <1>6, <2>3, <4>1
      <4>3. QED
        BY <4>1, <4>2
    <3>2. CASE /\ Running(d)
               /\ \E k \in 1..Len(wire[d]) :
                     wire[d][k].type \in DOMAIN Answer /\ wire[d][k].at <= due
      BY <1>6, <3>2
    <3>3. QED
      BY <1>1, <1>9, <2>1, <2>3, <3>1, <3>2 DEF Answered
  <2>4. CASE /\ clock <= due
             /\ \E i \in 1..Len(p.out) : p.out[i] \in DOMAIN Answer
    <3>1. CASE Running(d)
      BY <1>7, <2>4, <3>1
    <3>2. CASE ~Running(d)
      <4>1. PICK k \in 1..Len(wire[e]) : wire[e][k].type = "FIN"
        BY <1>1, <1>9, <3>2 DEF FinSent
      <4>2. wire[e][k].at \in Nat /\ wire[e][k].at <= clock
        BY Delayed
      <4>3. ~(rest # wire[e] /\ k = 1)
        BY <1>2, <4>1 DEF WireLeft
      <4>4. PICK j \in 1..Len(rest) : rest[j] = wire[e][k]
        BY <1>6, <4>3
      <4>5. wire[e][k].at <= due + Delay
        BY <1>10, <2>2, <2>4, <4>2
      <4>6. QED
        BY <4>1, <4>4, <4>5
    <3>3. QED
      BY <3>1, <3>2
  <2>5. QED
    BY <1>2, <2>1, <2>3, <2>4 DEF KeepaliveLeft
<1>25. Answered(d)'
  <2>1. PICK due : due = ses[d].keepalive_recv + Limit(d).keepalive
    OBVIOUS
  <2>2. due \in Nat
    <3>1. Limit(d).keepalive \in Nat
      BY <1>1, <1>9, Limits DEF Typed
    <3>2. ses[d].keepalive_recv \in Nat
      BY <1>10 DEF Ses
    <3>3. QED
      BY <2>1, <3>1, <3>2
  <2> SUFFICES ASSUME down = 0, Running(d), ses[d].authdone, Limit(d).keepalive > 0,
                      ses[d].keepalive_sent > ses[d].keepalive_recv
               PROVE  \/ \E k \in 1..Len(wire'[d]) :
                            wire'[d][k].type # "ident" /\ wire'[d][k].at <= due + Delay
                      \/ /\ p.running = "yes"
                         /\ \E k \in 1..Len(rest) : rest[k].type \in DOMAIN Answer /\ rest[k].at <= due
    BY <1>1, <1>4, <1>5, <1>6, <1>11, <1>12, <2>1 DEF Answered
  <2>3. CASE \E k \in 1..Len(wire[d]) : wire[d][k].type # "ident" /\ wire[d][k].at <= due + Delay
    BY <1>6, <2>3
  <2>4. CASE \E k \in 1..Len(wire[e]) : wire[e][k].type \in DOMAIN Answer /\ wire[e][k].at <= due
    <3>1. PICK k \in 1..Len(wire[e]) : wire[e][k].type \in DOMAIN Answer /\ wire[e][k].at <= due
      BY <2>4
    <3>2. wire[e][k].at \in Nat /\ clock <= wire[e][k].at + Delay
      BY Delayed
    <3>3. clock <= due + Delay
      BY <1>10, <2>2, <3>1, <3>2
    <3>4. CASE p.running # "yes"
      BY <1>7, <3>3, <3>4
    <3>5. CASE p.running = "yes" /\ rest # wire[e] /\ k = 1
      <4>1. Len(p.out) > 0 /\ Len(p.out) \in Nat
        BY <1>2, <1>3, <3>1, <3>5 DEF WireLeft, Ses
      <4>2. 1 \in 1..Len(p.out)
        BY <4>1
      <4>3. p.out[1] # "ident"
        BY <1>2, <4>2 DEF OutLeft
      <4>4. QED
        BY <1>7, <3>3, <4>2, <4>3
    <3>6. CASE p.running = "yes" /\ ~(rest # wire[e] /\ k = 1)
      BY <1>6, <3>1, <3>6
    <3>7. QED
      BY <3>4, <3>5, <3>6
  <2>5. QED
    BY <1>1, <1>9, <2>1, <2>3, <2>4 DEF Answered
<1>26. \A x \in End : x = e \/ x = d
  BY <1>1, Ends
<1>27. down' <= clock'
  BY <1>4, <1>9
<1>28. QED
  BY <1>5, <1>14, <1>15, <1>16, <1>17, <1>18, <1>19, <1>20, <1>21, <1>22, <1>23, <1>24, <1>25,
     <1>26, <1>27 DEF IInv

-----------------------------------------------------------------------------
(***************************************************************************)
(* The actions.                                                            *)
(***************************************************************************)

\* The invariant holds when both ends have connected.
LEMMA InitInv == Init => IInv
<1> SUFFICES ASSUME Init PROVE IInv
  OBVIOUS
<1>1. PICK i : i = [type |-> "ident", at |-> connect_time]
  OBVIOUS
<1>2. i \in Packet /\ i.type = "ident" /\ i.at = connect_time /\ connect_time = 1
  BY <1>1 DEF Packet, Type, connect_time
<1>3. \A e \in End : ses[e] = NewSession /\ traffic[e] = connect_time
  BY DEF Init
<1>4. \A e \in End : wire[e] = << >> \/ wire[e] = <<i>>
  BY <1>1 DEF Init
<1>5. \A e \in End : wire[e] \in Seq(Packet)
  <2>1. << >> \in Seq(Packet) /\ <<i>> \in Seq(Packet)
    BY <1>2
  <2>2. QED
    BY <1>4, <2>1
<1>6. /\ NewSession \in Ses
      /\ NewSession.running = "yes" /\ ~NewSession.remoteident /\ ~NewSession.authdone
      /\ NewSession.any_sent = 0 /\ NewSession.keepalive_sent = 0
      /\ NewSession.keepalive_recv = 1 /\ NewSession.idle = 1 /\ NewSession.passed = 1
      /\ NewSession.wake = 1 /\ NewSession.out = << >>
  <2>1. << >> \in Seq(Type)
    OBVIOUS
  <2>2. QED
    BY <2>1 DEF NewSession, Ses, Why, connect_time
<1>7. set \in Settings /\ clock = 1 /\ down = 0
  BY DEF Init, connect_time
<1>8. Typed
  <2>1. ses \in [End -> Ses]
    BY <1>6 DEF Init
  <2>2. wire \in [End -> Seq(Packet)]
    BY <1>5 DEF Init
  <2>3. traffic \in [End -> Nat] /\ made \in [End -> Nat]
    BY <1>2 DEF Init
  <2>4. QED
    BY <1>7, <2>1, <2>2, <2>3 DEF Typed
<1>9. ClosedForCause
  BY <1>3, <1>6 DEF ClosedForCause
<1>10. ASSUME NEW e \in End
       PROVE  Waiting(e) /\ Measured(e) /\ Ordered(e) /\ Identifies(e) /\ FinSent(e) /\ Answered(e)
  <2>1. /\ ses[e] = NewSession /\ traffic[e] = 1 /\ Running(e) /\ Running(Peer(e))
    BY <1>2, <1>3, <1>6, <1>10, Ends DEF Running
  <2>2. AUTH_TIMEOUT \in Nat \ {0} /\ Delay \in Nat
    BY TimeoutsAssumption
  <2>3. Waiting(e)
    BY <1>2, <1>6, <1>7, <2>1, <2>2 DEF Waiting, Stamped, Unexpired, Awake
  <2>4. Measured(e)
    BY <1>2, <1>6, <2>1 DEF Measured
  <2>5. Ordered(e)
    <3>1. CASE wire[e] = << >>
      BY <1>7, <3>1 DEF Ordered
    <3>2. CASE wire[e] = <<i>>
      <4>1. Len(wire[e]) = 1 /\ wire[e][1] = i
        BY <3>2
      <4>2. QED
        BY <1>2, <1>7, <2>2, <4>1 DEF Ordered
    <3>3. QED
      BY <1>4, <1>10, <3>1, <3>2
  <2>6. Identifies(e)
    <3>1. ~set.silent => wire[e] = <<i>>
      BY <1>1 DEF Init
    <3>2. <<i>> # << >> /\ <<i>>[1] = i /\ Len(<<i>>) = 1 /\ Len(<< >>) = 0
      OBVIOUS
    <3>3. ~set.silent => wire[e] # << >> /\ wire[e][1].type = "ident"
      BY <1>2, <3>1, <3>2
    <3>4. \A k \in 1..Len(wire[e]) : wire[e][k].type = "ident"
      BY <1>2, <1>4, <1>10, <3>2
    <3>5. QED
      BY <1>6, <2>1, <3>3, <3>4 DEF Identifies
  <2>7. FinSent(e) /\ Answered(e)
    BY <1>6, <2>1 DEF FinSent, Answered
  <2>8. QED
    BY <2>3, <2>4, <2>5, <2>6, <2>7
<1>11. QED
  BY <1>7, <1>8, <1>9, <1>10 DEF IInv

\* select timed out.
LEMMA TimesOutInv == ASSUME IInv, NEW e \in End, TimesOut(e) PROVE IInv'
<1>1. PICK c : c = checktimeouts(e, ses[e])
  OBVIOUS
<1>2. Running(e) /\ EndPass(e, c, wire[e]) /\ traffic' = traffic /\ made' = made
  BY <1>1 DEF TimesOut
<1>3. Outcome(e, c, wire[e], traffic[e])
  BY <1>1, <1>2, TimesOutOutcome
<1>4. traffic' = [traffic EXCEPT ![e] = traffic[e]] /\ made' \in [End -> Nat]
  BY <1>2 DEF IInv, Typed
<1>5. QED
  BY <1>2, <1>3, <1>4, Pass

\* A packet, an identification or the end of the stream is read.
LEMMA ReceivesInv == ASSUME IInv, NEW e \in End, Receives(e) PROVE IInv'
<1>1. PICK c : c = checktimeouts(e, ses[e])
  OBVIOUS
<1>2. PICK type : type = wire[e][1].type
  OBVIOUS
<1>3. PICK p : p = (CASE ~(c.running = "yes") -> c
                      [] c.running = "yes" /\ type = "FIN" -> Close(c, "Remote closed")
                      [] c.running = "yes" /\ type = "ident" -> [c EXCEPT !.remoteident = TRUE]
                      [] OTHER -> process_packet(e, c, type))
  OBVIOUS
<1>4. PICK tr : tr = IF c.running = "yes" /\ type \notin Keepalives \cup {"FIN", "ident"}
                     THEN clock ELSE traffic[e]
  OBVIOUS
<1>5. Running(e) /\ wire[e] # << >> /\ down = 0 /\ made' = made
  BY DEF Receives
<1>6. Head(wire[e]) = wire[e][1]
  BY <1>5 DEF IInv, Typed
<1>7. EndPass(e, p, Tail(wire[e])) /\ traffic' = [traffic EXCEPT ![e] = tr]
  BY <1>1, <1>2, <1>3, <1>4, <1>6, Zenon DEF Receives
<1>8. Outcome(e, p, Tail(wire[e]), tr)
  <2>1. CASE c.running # "yes"
    <3>1. p = c /\ tr = traffic[e]
      BY <1>3, <1>4, <2>1
    <3>2. QED
      BY <1>1, <1>5, <2>1, <3>1, ReceivesClosed
  <2>2. CASE c.running = "yes" /\ type = "FIN"
    <3>1. p = Close(c, "Remote closed") /\ tr = traffic[e]
      BY <1>3, <1>4, <2>2
    <3>2. QED
      BY <1>1, <1>2, <1>5, <2>2, <3>1, ReceivesFin
  <2>3. CASE c.running = "yes" /\ type = "ident"
    <3>1. p = [c EXCEPT !.remoteident = TRUE] /\ tr = traffic[e]
      BY <1>3, <1>4, <2>3
    <3>2. QED
      BY <1>1, <1>2, <1>5, <2>3, <3>1, ReceivesIdent
  <2>4. CASE c.running = "yes" /\ type \notin {"FIN", "ident"}
    <3>1. p = process_packet(e, c, type)
      BY <1>3, <2>4
    <3>2. tr = IF type \in Keepalives THEN traffic[e] ELSE clock
      BY <1>4, <2>4
    <3>3. QED
      BY <1>1, <1>2, <1>5, <2>4, <3>1, <3>2, ReceivesPacket
  <2>5. QED
    BY <2>1, <2>2, <2>3, <2>4
<1>9. made' \in [End -> Nat]
  BY <1>5 DEF IInv, Typed
<1>10. QED
  BY <1>5, <1>7, <1>8, <1>9, Pass

\* A packet is sent.
LEMMA SendsInv ==
  ASSUME IInv, NEW e \in End, NEW type \in {"DATA", "USERAUTH_REQUEST"}, ~set.silent,
         Sends(e, type), made' \in [End -> Nat]
  PROVE  IInv'
<1>1. PICK c : c = checktimeouts(e, ses[e])
  OBVIOUS
<1>2. /\ Running(e) /\ c.remoteident
      /\ EndPass(e, IF c.running = "yes" THEN encrypt_packet(c, type) ELSE c, wire[e])
      /\ traffic' = [traffic EXCEPT ![e] = IF c.running = "yes" THEN clock ELSE traffic[e]]
  BY <1>1, Zenon DEF Sends
<1>3. CASE c.running = "yes"
  <2>1. PICK p : p = encrypt_packet(c, type)
    OBVIOUS
  <2>2. Outcome(e, p, wire[e], clock)
    BY <1>1, <1>2, <1>3, <2>1, SendsOutcome
  <2>3. EndPass(e, p, wire[e]) /\ traffic' = [traffic EXCEPT ![e] = clock]
    BY <1>2, <1>3, <2>1
  <2>4. QED
    BY <1>2, <2>2, <2>3, Pass
<1>4. CASE c.running # "yes"
  <2>1. Outcome(e, c, wire[e], traffic[e])
    BY <1>1, <1>2, TimesOutOutcome
  <2>2. EndPass(e, c, wire[e]) /\ traffic' = [traffic EXCEPT ![e] = traffic[e]]
    BY <1>2, <1>4
  <2>3. QED
    BY <1>2, <2>1, <2>2, Pass
<1>5. QED
  BY <1>3, <1>4

\* Data is sent.
LEMMA SendDataInv == ASSUME IInv, NEW e \in End, SendData(e) PROVE IInv'
<1>1. ses[e].authdone /\ Sends(e, "DATA") /\ made' = [made EXCEPT ![e] = @ + 1]
  BY DEF SendData
<1>2. ~set.silent
  BY <1>1 DEF IInv, Identifies
<1>3. made' \in [End -> Nat]
  BY <1>1 DEF IInv, Typed
<1>4. QED
  BY <1>1, <1>2, <1>3, SendsInv

\* The client asks to be authenticated.
LEMMA AuthenticateInv == ASSUME IInv, Authenticate PROVE IInv'
<1>1. ~set.silent /\ Sends("client", "USERAUTH_REQUEST") /\ made' = made /\ "client" \in End
  BY DEF Authenticate, End
<1>2. made' \in [End -> Nat]
  BY <1>1 DEF IInv, Typed
<1>3. QED
  BY <1>1, <1>2, SendsInv

\* The link goes down: what was under way is lost.
LEMMA LinkFailsInv == ASSUME IInv, LinkFails PROVE IInv'
<1>1. /\ down = 0 /\ down' = clock /\ wire' = [e \in End |-> << >>]
      /\ set' = set /\ clock' = clock /\ ses' = ses /\ traffic' = traffic /\ made' = made
  BY DEF LinkFails
<1>2. \A e \in End : wire'[e] = << >>
  BY <1>1
<1>3. Typed /\ clock \in Nat
  BY DEF IInv, Typed
<1>4. Typed'
  BY <1>1, <1>3 DEF Typed
<1>5. ClosedForCause'
  <2>1. \A e \in End : Limit(e)' = Limit(e)
    BY <1>1 DEF Limit
  <2>2. ASSUME NEW e \in End, ses[e].running = "Keepalive timeout" PROVE FALSE
    <3>1. ClosedForCause
      BY DEF IInv
    <3>2. down > 0
      BY <2>2, <3>1 DEF ClosedForCause
    <3>3. QED
      BY <1>1, <3>2
  <2>3. QED
    BY <1>1, <2>1, <2>2 DEF IInv, ClosedForCause
<1>6. down' > 0
  <2>1. Waiting("client") /\ "client" \in End
    BY DEF IInv, End
  <2>2. connect_time <= ses["client"].passed /\ ses["client"].passed <= clock
           /\ ses["client"].passed \in Nat
    BY <1>3, <2>1 DEF Waiting, Typed, Ses
  <2>3. QED
    BY <1>1, <1>3, <2>2 DEF connect_time
<1>7. ASSUME NEW e \in End
      PROVE  (Waiting(e) /\ Measured(e) /\ Ordered(e) /\ Identifies(e) /\ FinSent(e) /\ Answered(e))'
  <2>1. Limit(e)' = Limit(e) /\ (Running(e)' <=> Running(e)) /\ (IdleIsOwn(e)' <=> IdleIsOwn(e))
    BY <1>1 DEF Limit, Running, IdleIsOwn
  <2>2. KeepaliveDue(e, ses[e])' = KeepaliveDue(e, ses[e])
    BY <1>1, <2>1 DEF KeepaliveDue
  <2>3. Unexpired(e, ses[e], ses[e].passed)' <=> Unexpired(e, ses[e], ses[e].passed)
    BY <1>1, <2>1, <2>2 DEF Unexpired
  <2>4. Awake(e, ses[e])' <=> Awake(e, ses[e])
    BY <1>1, <2>1, <2>2 DEF Awake
  <2>5. (Stamped(ses[e])' <=> Stamped(ses[e])) /\ (Stamped(ses[e]) => ses[e].keepalive_recv <= clock)
    BY <1>1 DEF Stamped
  <2>6. Waiting(e) /\ Measured(e) /\ Identifies(e)
    BY <1>7 DEF IInv
  <2>7. Waiting(e)'
    BY <1>1, <2>1, <2>3, <2>4, <2>5, <2>6 DEF Waiting
  <2>8. Measured(e)'
    BY <1>1, <2>1, <2>6 DEF Measured
  <2>9. Ordered(e)'
    BY <1>2, <1>7 DEF Ordered
  <2>10. ~(down' = 0)
    BY <1>1, <1>3, <1>6
  <2>11. Identifies(e)'
    BY <1>1, <1>2, <1>7, <2>6, <2>10 DEF Identifies
  <2>12. FinSent(e)' /\ Answered(e)'
    BY <2>10 DEF FinSent, Answered
  <2>13. QED
    BY <2>7, <2>8, <2>9, <2>11, <2>12
<1>8. down' <= clock'
  BY <1>1, <1>3
<1>9. QED
  BY <1>4, <1>5, <1>7, <1>8 DEF IInv

\* Time passes, but no end sleeps past its wake-up and no packet past its delay.
LEMMA TickInv == ASSUME IInv, Tick PROVE IInv'
<1>1. /\ clock' = clock + 1 /\ set' = set /\ ses' = ses /\ wire' = wire /\ down' = down
      /\ traffic' = traffic /\ made' = made
      /\ \A e \in End : Served(e)
      /\ \A e \in End : (Running(e) /\ wire[e] # << >>) => clock < Head(wire[e]).at + Delay
  BY DEF Tick
<1>2. Typed /\ clock \in Nat /\ clock' \in Nat /\ clock <= clock' /\ down \in Nat /\ down <= clock
  BY <1>1 DEF IInv, Typed
<1>3. Typed'
  BY <1>1, <1>2 DEF Typed
<1>4. ClosedForCause'
  <2>1. \A e \in End : Limit(e)' = Limit(e)
    BY <1>1 DEF Limit
  <2>2. QED
    BY <1>1, <2>1 DEF IInv, ClosedForCause
<1>5. ASSUME NEW e \in End
      PROVE  (Waiting(e) /\ Measured(e) /\ Ordered(e) /\ Identifies(e) /\ FinSent(e) /\ Answered(e))'
  <2>1. Limit(e)' = Limit(e) /\ (IdleIsOwn(e)' <=> IdleIsOwn(e)) /\ (Running(e)' <=> Running(e))
          /\ (Running(Peer(e))' <=> Running(Peer(e)))
    BY <1>1 DEF Limit, Running, IdleIsOwn
  <2>2. /\ Waiting(e) /\ Measured(e) /\ Ordered(e) /\ Identifies(e) /\ FinSent(e) /\ Answered(e)
        /\ ses[e] \in Ses /\ wire[e] \in Seq(Packet)
    BY <1>2, <1>5 DEF IInv, Typed
  <2>3. /\ ses[e].any_sent \in Nat /\ ses[e].keepalive_sent \in Nat /\ ses[e].keepalive_recv \in Nat
        /\ ses[e].idle \in Nat /\ ses[e].passed \in Nat /\ ses[e].wake \in Nat
    BY <2>2 DEF Ses
  <2>4. KeepaliveDue(e, ses[e])' = KeepaliveDue(e, ses[e])
    BY <1>1, <2>1 DEF KeepaliveDue
  <2>5. Unexpired(e, ses[e], ses[e].passed)' <=> Unexpired(e, ses[e], ses[e].passed)
    BY <1>1, <2>1, <2>4 DEF Unexpired
  <2>6. Awake(e, ses[e])' <=> Awake(e, ses[e])
    BY <1>1, <2>1, <2>4 DEF Awake
  <2>7. Stamped(ses[e])'
    BY <1>1, <1>2, <2>2, <2>3, SMTT(30) DEF Waiting, Stamped
  <2>8. Running(e) => clock' <= ses[e].wake \/ clock' <= ses[e].passed + 1
    <3>1. Running(e) => clock < ses[e].wake \/ ses[e].passed = clock
      BY <1>1, <1>5 DEF Served
    <3>2. QED
      BY <1>1, <1>2, <2>3, <3>1
  <2>9. connect_time <= ses[e].passed /\ ses[e].passed <= clock'
    BY <1>1, <1>2, <2>2, <2>3 DEF Waiting
  <2>10. Waiting(e)'
    BY <1>1, <2>1, <2>2, <2>5, <2>6, <2>7, <2>8, <2>9 DEF Waiting
  <2>11. Measured(e)'
    BY <1>1, <2>1, <2>2 DEF Measured
  <2>12. Ordered(e)'
    <3>1. \A k \in 1..Len(wire[e]) : wire[e][k].at \in Nat /\ wire[e][k].at <= clock
      BY <1>5, Delayed
    <3>2. \A k \in 1..Len(wire[e]) : wire[e][k].at <= clock'
      BY <1>1, <1>2, <3>1
    <3>3. (Running(e) /\ wire[e] # << >>) => clock' <= wire[e][1].at + Delay
      <4> SUFFICES ASSUME Running(e), wire[e] # << >> PROVE clock' <= wire[e][1].at + Delay
        OBVIOUS
      <4>1. 1 \in 1..Len(wire[e]) /\ Head(wire[e]) = wire[e][1]
        BY <2>2
      <4>2. clock < wire[e][1].at + Delay
        BY <1>1, <1>5, <4>1
      <4>3. wire[e][1].at \in Nat /\ Delay \in Nat
        BY <3>1, <4>1, TimeoutsAssumption
      <4>4. QED
        BY <1>1, <1>2, <4>2, <4>3
    <3>4. \A k \in 1..Len(wire[e]) :
             /\ \A j \in 1..k : wire[e][j].at <= wire[e][k].at
             /\ wire[e][k].type = "ident" => k = 1 /\ wire[e][k].at = connect_time
             /\ wire[e][k].type = "CHANNEL_REQUEST" => ~IdleIsOwn(e)
      BY <2>2 DEF Ordered
    <3>5. down > 0 => wire[e] = << >>
      BY <2>2 DEF Ordered
    <3>6. QED
      BY <1>1, <2>1, <3>2, <3>3, <3>4, <3>5 DEF Ordered
  <2>13. Identifies(e)'
    BY <1>1, <2>1, <2>2 DEF Identifies
  <2>14. FinSent(e)' /\ Answered(e)'
    BY <1>1, <2>1, <2>2 DEF FinSent, Answered
  <2>15. QED
    BY <2>10, <2>11, <2>12, <2>13, <2>14
<1>6. down' <= clock'
  BY <1>1, <1>2
<1>7. QED
  BY <1>3, <1>4, <1>5, <1>6 DEF IInv

\* Nothing changes.
LEMMA StutterInv == ASSUME IInv, UNCHANGED vars PROVE IInv'
<1>1. /\ clock' = clock /\ set' = set /\ ses' = ses /\ wire' = wire /\ down' = down
      /\ traffic' = traffic /\ made' = made
  BY DEF vars
<1>2. ASSUME NEW e \in End
      PROVE  (Waiting(e) /\ Measured(e) /\ Ordered(e) /\ Identifies(e) /\ FinSent(e) /\ Answered(e))'
  <2>1. Limit(e)' = Limit(e) /\ (IdleIsOwn(e)' <=> IdleIsOwn(e)) /\ (Running(e)' <=> Running(e))
          /\ (Running(Peer(e))' <=> Running(Peer(e)))
    BY <1>1 DEF Limit, Running, IdleIsOwn
  <2>2. Waiting(e) /\ Measured(e) /\ Ordered(e) /\ Identifies(e) /\ FinSent(e) /\ Answered(e)
    BY <1>2 DEF IInv
  <2>3. KeepaliveDue(e, ses[e])' = KeepaliveDue(e, ses[e])
    BY <1>1, <2>1 DEF KeepaliveDue
  <2>4. /\ Unexpired(e, ses[e], ses[e].passed)' <=> Unexpired(e, ses[e], ses[e].passed)
        /\ Awake(e, ses[e])' <=> Awake(e, ses[e])
        /\ Stamped(ses[e])' <=> Stamped(ses[e])
    BY <1>1, <2>1, <2>3 DEF Unexpired, Awake, Stamped
  <2>5. Waiting(e)'
    BY <1>1, <2>1, <2>2, <2>4 DEF Waiting
  <2>6. Measured(e)' /\ Ordered(e)'
    BY <1>1, <2>1, <2>2 DEF Measured, Ordered
  <2>7. Identifies(e)' /\ FinSent(e)' /\ Answered(e)'
    BY <1>1, <2>1, <2>2 DEF Identifies, FinSent, Answered
  <2>8. QED
    BY <2>5, <2>6, <2>7
<1>3. Typed' /\ down' <= clock'
  BY <1>1 DEF IInv, Typed
<1>4. ClosedForCause'
  <2>1. \A e \in End : Limit(e)' = Limit(e)
    BY <1>1 DEF Limit
  <2>2. QED
    BY <1>1, <2>1 DEF IInv, ClosedForCause
<1>5. QED
  BY <1>2, <1>3, <1>4 DEF IInv

\* The invariant holds in every reachable state: whatever the settings, at
\* each end checktimeouts and select_timeout agree on the deadlines.
THEOREM Invariant == Spec => []IInv
<1>1. IInv /\ [Next]_vars => IInv'
  <2> SUFFICES ASSUME IInv, [Next]_vars PROVE IInv'
    OBVIOUS
  <2>1. ASSUME NEW e \in End, TimesOut(e) PROVE IInv'
    BY <2>1, TimesOutInv
  <2>2. ASSUME NEW e \in End, Receives(e) PROVE IInv'
    BY <2>2, ReceivesInv
  <2>3. ASSUME NEW e \in End, SendData(e) PROVE IInv'
    BY <2>3, SendDataInv
  <2>4. CASE Authenticate
    BY <2>4, AuthenticateInv
  <2>5. CASE LinkFails
    BY <2>5, LinkFailsInv
  <2>6. CASE Tick
    BY <2>6, TickInv
  <2>7. CASE UNCHANGED vars
    BY <2>7, StutterInv
  <2>8. QED
    BY <2>1, <2>2, <2>3, <2>4, <2>5, <2>6, <2>7 DEF Next
<1>2. QED
  BY <1>1, InitInv, PTL DEF Spec

-----------------------------------------------------------------------------
\* What the invariant says of one end that is running.
LEMMA AtEnd ==
  ASSUME IInv, NEW e \in End, Running(e)
  PROVE  /\ (e = "server" /\ ~ses[e].authdone) => elapsed(connect_time) <= AUTH_TIMEOUT
         /\ ses[e].remoteident =>
               /\ Limit(e).duration > 0 => elapsed(connect_time) <= Limit(e).duration
               /\ (Limit(e).idle > 0 /\ IdleIsOwn(e)) => elapsed(traffic[e]) <= Limit(e).idle
               /\ ses[e].wake > ses[e].passed
         /\ (ses[e].authdone /\ down > 0 /\ Limit(e).keepalive > 0) =>
               elapsed(down) < (DEFAULT_KEEPALIVE_LIMIT + 1) * Limit(e).keepalive
<1>1. PICK s : s = ses[e]
  OBVIOUS
<1>2. /\ s \in Ses /\ clock \in Nat /\ down \in Nat /\ connect_time \in Nat /\ traffic[e] \in Nat
      /\ s.idle \in Nat /\ s.passed \in Nat /\ s.wake \in Nat
      /\ s.keepalive_recv \in Nat /\ s.keepalive_sent \in Nat
  BY <1>1 DEF IInv, Typed, Ses, connect_time
<1>3. /\ clock <= s.wake \/ clock <= s.passed + 1
      /\ Unexpired(e, s, s.passed) /\ Awake(e, s) /\ Stamped(s) /\ s.passed <= clock
      /\ down > 0 => s.keepalive_recv <= down
      /\ s.keepalive_sent <= s.passed /\ s.keepalive_recv <= s.passed
  BY <1>1 DEF IInv, Waiting
<1>4. /\ Limit(e).keepalive \in Nat /\ Limit(e).idle \in Nat /\ Limit(e).duration \in Nat
      /\ AUTH_TIMEOUT \in Nat /\ DEFAULT_KEEPALIVE_LIMIT \in Nat
      /\ Limit(e).keepalive * DEFAULT_KEEPALIVE_LIMIT \in Nat
  BY Limits DEF IInv, Typed
<1>5. (e = "server" /\ ~s.authdone) => elapsed(connect_time) <= AUTH_TIMEOUT
  <2> SUFFICES ASSUME e = "server", ~s.authdone PROVE elapsed(connect_time) <= AUTH_TIMEOUT
    OBVIOUS
  <2>1. s.passed < connect_time + AUTH_TIMEOUT /\ s.wake <= connect_time + AUTH_TIMEOUT
    BY <1>3 DEF Unexpired, Awake
  <2>2. clock <= connect_time + AUTH_TIMEOUT
    BY <1>2, <1>3, <1>4, <2>1
  <2>3. QED
    BY <1>2, <1>4, <2>2 DEF elapsed
<1>6. ASSUME s.remoteident, Limit(e).duration > 0
      PROVE  elapsed(connect_time) <= Limit(e).duration
  <2>1. s.passed < connect_time + Limit(e).duration /\ s.wake <= connect_time + Limit(e).duration
    BY <1>3, <1>6 DEF Unexpired, Awake
  <2>2. clock <= connect_time + Limit(e).duration
    BY <1>2, <1>3, <1>4, <2>1
  <2>3. QED
    BY <1>2, <1>4, <2>2 DEF elapsed
<1>7. ASSUME s.remoteident, Limit(e).idle > 0, IdleIsOwn(e)
      PROVE  elapsed(traffic[e]) <= Limit(e).idle
  <2>1. s.passed < s.idle + Limit(e).idle /\ s.wake <= s.idle + Limit(e).idle
    BY <1>3, <1>7 DEF Unexpired, Awake
  <2>2. traffic[e] = s.idle
    BY <1>1, <1>7 DEF IInv, Measured
  <2>3. clock <= traffic[e] + Limit(e).idle
    BY <1>2, <1>3, <1>4, <2>1, <2>2
  <2>4. QED
    BY <1>2, <1>4, <2>3 DEF elapsed
<1>8. s.remoteident => s.wake > s.passed
  BY <1>3 DEF Awake
<1>9. ASSUME s.authdone, down > 0, Limit(e).keepalive > 0
      PROVE  elapsed(down) < (DEFAULT_KEEPALIVE_LIMIT + 1) * Limit(e).keepalive
  <2>1. PICK ka, max : ka = Limit(e).keepalive /\ max = Limit(e).keepalive * DEFAULT_KEEPALIVE_LIMIT
    OBVIOUS
  <2>2. ka \in Nat /\ max \in Nat /\ ka > 0
    BY <1>4, <1>9, <2>1
  <2>3. s.passed < s.keepalive_recv + max /\ s.wake <= KeepaliveDue(e, s)
          /\ s.passed < KeepaliveDue(e, s)
    BY <1>3, <1>9, <2>1 DEF Unexpired, Awake
  <2>4. KeepaliveDue(e, s) = ka + (IF s.keepalive_sent > s.keepalive_recv
                                   THEN s.keepalive_sent ELSE s.keepalive_recv)
    BY <2>1 DEF KeepaliveDue
  <2>5. clock <= s.passed + ka
    BY <1>2, <1>3, <2>2, <2>3, <2>4
  <2>6. clock - down < max + ka
    BY <1>2, <1>3, <1>9, <2>2, <2>3, <2>5
  <2>7. \A k, l \in Nat : k * l + k = (l + 1) * k
    OBVIOUS
  <2>8. max + ka = (DEFAULT_KEEPALIVE_LIMIT + 1) * Limit(e).keepalive
    BY <1>4, <2>1, <2>7
  <2>9. QED
    BY <2>6, <2>8 DEF elapsed
<1>10. QED
  BY <1>1, <1>5, <1>6, <1>7, <1>8, <1>9

(***************************************************************************)
(* No deadline is missed although an end sleeps in select                  *)
(* (select_timeout, checktimeouts): not AUTH_TIMEOUT, not the duration,    *)
(* and not the idle time where the peer's keepalives leave it alone.       *)
(***************************************************************************)
THEOREM Deadlines == Spec => []DeadlinesMet
<1>1. IInv => DeadlinesMet
  BY AtEnd DEF DeadlinesMet
<1>2. QED
  BY <1>1, Invariant, PTL

(***************************************************************************)
(* No session is closed by mistake (checktimeouts): as idle only without   *)
(* traffic for that long, and for want of an answer to keepalives only     *)
(* when the link is down.                                                  *)
(***************************************************************************)
THEOREM Closing == Spec => []ClosedForCause
<1>1. IInv => ClosedForCause
  BY DEF IInv
<1>2. QED
  BY <1>1, Invariant, PTL

(***************************************************************************)
(* A link that went down is noticed in less than                           *)
(* DEFAULT_KEEPALIVE_LIMIT + 1 periods (CheckKeepalive).                   *)
(***************************************************************************)
THEOREM Detection == Spec => []DeadPeerDetected
<1>1. IInv => DeadPeerDetected
  BY AtEnd DEF DeadPeerDetected
<1>2. QED
  BY <1>1, Invariant, PTL

(***************************************************************************)
(* select never returns at once for a deadline that checktimeouts has just *)
(* left standing (select_timeout).                                         *)
(***************************************************************************)
THEOREM NoSpinning == Spec => []NeverSpins
<1>1. IInv => NeverSpins
  BY AtEnd DEF NeverSpins
<1>2. QED
  BY <1>1, Invariant, PTL
=============================================================================
