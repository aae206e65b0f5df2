----------------------------- MODULE KexProofs ------------------------------
(***************************************************************************)
(* Proofs about module Kex, for any number of exchanges and data packets,  *)
(* all of Modes and any interleaving of the two ends: no end meets a       *)
(* packet that it does not expect or cannot decrypt (NoErrors), data that  *)
(* waits for an exchange arrives once and in order (InOrder), no nonce is  *)
(* used twice (NoncesFresh), and both ends have one session id             *)
(* (SameSessionId).                                                        *)
(*                                                                         *)
(* Each end writes a stream of packets that its peer reads.  A view is a   *)
(* position in such a stream, and a packet an edge from one view to the    *)
(* next (Edge), which says what may be sent there.  The invariant is that  *)
(* the packets on the wire are a chain of edges from the view at which the *)
(* reader stands (RecvView) to the view at which the writer stands         *)
(* (SendView), that each end is in one of four phases of an exchange       *)
(* (EndOK), and that the keys and session ids of the two ends agree        *)
(* (Cross).  A pass of session_loop appends a chain of edges to one stream *)
(* (the lemmas about what is sent and Take...), and moves its reader one   *)
(* edge along the other (Taken...).  Along a chain counts only grow        *)
(* (ChainLater): what the reader may conclude about the writer, above all  *)
(* that a reply answers its last DH value, follows from that and from the  *)
(* stream in the other direction.                                          *)
(***************************************************************************)
EXTENDS Kex, SequenceTheorems, FiniteSetTheorems, WellFoundedInduction, TLAPS

\* The keys, messages and packets of the model, for any number of exchanges.
Keys == [cli : Nat, svr : Nat, param : Nat]
Messages ==
    [type : {"KEXINIT"}, id : Nat, follows : BOOLEAN, good : BOOLEAN]
    \cup [type : {"KEXDH_INIT"}, param : Nat] \cup [type : {"KEXDH_REPLY"}, hash : Keys]
    \cup [type : {"NEWKEYS", "EXT_INFO"}] \cup [type : {"DATA"}, n : Nat]
Packets == [msg : Messages, key : Keys, seq : Nat]
Types == {"KEXINIT", "KEXDH_INIT", "KEXDH_REPLY", "NEWKEYS", "EXT_INFO", "DATA"}

\* struct sshsession of an endpoint that has not called dropbear_exit.
Sessions ==
    [end : End, sentkexinit : BOOLEAN, recvkexinit : BOOLEAN,
     sentnewkeys : BOOLEAN, recvnewkeys : BOOLEAN,
     donefirstkex : BOOLEAN, donesecondkex : BOOLEAN, recvfirstnewkeys : BOOLEAN,
     strict_kex : BOOLEAN, dataallowed : BOOLEAN,
     requirenext : Types \cup {"any"}, ignorenext : BOOLEAN,
     our_first_follows_matches : BOOLEAN, good : BOOLEAN,
     trans : Keys, recv : Keys, newkey : Keys, transvalid : BOOLEAN, recvvalid : BOOLEAN,
     transseq : Nat, recvseq : Nat, reply_queue : Seq(Messages),
     kexinits : Nat, theirs : Nat, param : Nat, session_id : Keys,
     kex_state : {"KEX_NOTHING", "KEXDH_INIT_SENT"}, lastpacket : Types \cup {"none"},
     out : Seq(Packets), problem : {"no"}]

-----------------------------------------------------------------------------
(***************************************************************************)
(* A view is a position in the stream of packets from one end to the       *)
(* other: how many KEXINIT and NEWKEYS came before it, how many DH         *)
(* messages the exchange still needs, the key and sequence number of the   *)
(* next packet, the data packets so far, and the last DH value or signed   *)
(* hash.                                                                   *)
(***************************************************************************)
Views ==
    {v \in [k : Nat, t : Nat, togo : Nat, key : Keys, seq : Nat, n : Nat,
            param : Nat, hash : Keys] :
        v.t <= v.k /\ v.k <= v.t + 1 /\ v.key.cli = v.t}
\* The view with these fields.
View(k, t, togo, key, seq, n, param, hash) ==
    [k |-> k, t |-> t, togo |-> togo, key |-> key, seq |-> seq, n |-> n,
     param |-> param, hash |-> hash]

\* The message with which e contributes to an exchange.
DH(e) == IF e = "client" THEN "KEXDH_INIT" ELSE "KEXDH_REPLY"

\* A KEXINIT, a DH message, NEWKEYS, and what only goes out between exchanges.
Begins(e, a, m, b) ==
    /\ m.type = "KEXINIT" /\ a.t = a.k /\ m.id = a.k + 1 /\ (e = "server" => ~m.follows)
    /\ b.k = a.k + 1 /\ b.togo = (IF m.follows /\ ~m.good THEN 2 ELSE 1)
    /\ b.t = a.t /\ b.key = a.key /\ b.seq = a.seq + 1 /\ b.n = a.n
    /\ b.param = a.param /\ b.hash = a.hash
Exchanges(e, a, m, b) ==
    /\ m.type = DH(e) /\ a.togo > 0 /\ b.togo = a.togo - 1
    /\ b.param = (IF e = "client" THEN m.param ELSE a.param)
    /\ b.hash = (IF e = "server" THEN m.hash ELSE a.hash)
    /\ b.k = a.k /\ b.t = a.t /\ b.key = a.key /\ b.seq = a.seq + 1 /\ b.n = a.n
Switches(e, a, m, b) ==
    /\ m.type = "NEWKEYS" /\ a.t < a.k /\ a.togo = 0 /\ b.t = a.k
    /\ b.seq = (IF mode.strict THEN 0 ELSE a.seq + 1)
    /\ (e = "server" => b.key = a.hash)
    /\ b.k = a.k /\ b.togo = 0 /\ b.n = a.n /\ b.param = a.param /\ b.hash = a.hash
Carries(a, m, b) ==
    /\ m.type \in {"DATA", "EXT_INFO"} /\ a.t = a.k /\ a.k > 0
    /\ (m.type = "DATA" => m.n = a.n + 1)
    /\ b.n = (IF m.type = "DATA" THEN a.n + 1 ELSE a.n)
    /\ b.k = a.k /\ b.t = a.t /\ b.togo = a.togo /\ b.key = a.key /\ b.seq = a.seq + 1
    /\ b.param = a.param /\ b.hash = a.hash

\* A message of e, and the packet it is in, leads from one view to the next.
Moves(e, a, m, b) ==
    Begins(e, a, m, b) \/ Exchanges(e, a, m, b) \/ Switches(e, a, m, b) \/ Carries(a, m, b)
Edge(e, a, p, b) == p.key = a.key /\ p.seq = a.seq /\ Moves(e, a, p.msg, b)

\* The packets w of e lead from view a to view b, passing those of f.
Passes(e, w, f) ==
    /\ f \in [0..Len(w) -> Views]
    /\ \A i \in 1..Len(w) : Edge(e, f[i - 1], w[i], f[i])
Chain(e, w, a, b) ==
    w \in Seq(Packets) /\ \E f : Passes(e, w, f) /\ f[0] = a /\ f[Len(w)] = b

\* What is true of two views of a stream, the first before the second.
Later(e, a, b) ==
    /\ a.k <= b.k /\ a.t <= b.t /\ a.n <= b.n
    /\ a.k = b.k => b.togo <= a.togo /\ (b.togo = a.togo => b.param = a.param /\ b.hash = a.hash)
    /\ a.t = b.t => b.key = a.key
    /\ (e = "server" /\ a.k = b.k /\ a.togo = 0 /\ a.t < b.t) => b.key = a.hash

\* Induction up to n, for a property given as the set of numbers that have it.
Inductive(P, n) == 0 \in P /\ \A m \in 1..n : m - 1 \in P => m \in P
\* A set that has 0 and, up to n, the successor of what it has, has all up to n.
LEMMA Induct ==
  ASSUME NEW n \in Nat, NEW P, Inductive(P, n)
  PROVE  \A m \in 0..n : m \in P
<1> DEFINE T == {m \in 0..n : m \notin P}
<1> SUFFICES ASSUME T # {} PROVE FALSE
  OBVIOUS
<1>1. T \subseteq Nat
  OBVIOUS
<1>2. PICK x \in T : \A y \in T : ~(<<y, x>> \in OpToRel(<, Nat))
  BY <1>1, WFMin, NatLessThanWellFounded
<1>3. \A y \in T : ~(y < x)
  BY <1>1, <1>2 DEF OpToRel
<1>4. x \in 1..n /\ x - 1 \in 0..n /\ x - 1 < x /\ x \notin P
  <2>1. x \in 0..n /\ x \notin P /\ x # 0
    BY <1>2 DEF Inductive
  <2>2. QED
    BY <2>1
<1>5. x - 1 \in P
  BY <1>3, <1>4
<1>6. QED
  BY <1>4, <1>5 DEF Inductive

\* The fields of a view.
LEMMA ViewType ==
  ASSUME NEW v \in Views
  PROVE  /\ v.k \in Nat /\ v.t \in Nat /\ v.togo \in Nat /\ v.key \in Keys /\ v.seq \in Nat
         /\ v.n \in Nat /\ v.param \in Nat /\ v.hash \in Keys
         /\ v.t <= v.k /\ v.k <= v.t + 1 /\ v.key.cli = v.t
  BY DEF Views

\* The first case of the induction in ChainLater.
LEMMA LaterReflexive ==
  ASSUME NEW e, NEW a \in Views
  PROVE  Later(e, a, a)
  BY ViewType DEF Later

\* A packet leads to a later view.
LEMMA LaterStep ==
  ASSUME NEW e \in End, NEW a \in Views, NEW b \in Views, NEW c \in Views, NEW p,
         Later(e, a, b), Edge(e, b, p, c)
  PROVE  Later(e, a, c)
<1>1. /\ a.k \in Nat /\ a.t \in Nat /\ a.togo \in Nat /\ b.k \in Nat /\ b.t \in Nat
      /\ b.togo \in Nat /\ c.k \in Nat /\ c.t \in Nat /\ c.togo \in Nat
      /\ a.n \in Nat /\ b.n \in Nat /\ c.n \in Nat
      /\ a.t <= a.k /\ a.k <= a.t + 1 /\ b.t <= b.k /\ b.k <= b.t + 1 /\ c.t <= c.k /\ c.k <= c.t + 1
  BY ViewType
<1>2. CASE Begins(e, b, p.msg, c)
  BY <1>1, <1>2 DEF Later, Begins
<1>3. CASE Exchanges(e, b, p.msg, c)
  BY <1>1, <1>3 DEF Later, Exchanges
<1>4. CASE Switches(e, b, p.msg, c)
  BY <1>1, <1>4 DEF Later, Switches
<1>5. CASE Carries(b, p.msg, c)
  BY <1>1, <1>5 DEF Later, Carries
<1>6. QED
  BY <1>2, <1>3, <1>4, <1>5 DEF Edge, Moves

\* No packets lead nowhere.
LEMMA ChainEmpty ==
  ASSUME NEW e, NEW a \in Views
  PROVE  Chain(e, << >>, a, a)
<1>1. << >> \in Seq(Packets) /\ Len(<< >>) = 0
  BY EmptySeq
<1>2. Passes(e, << >>, [i \in 0..0 |-> a])
  BY <1>1 DEF Passes
<1>3. QED
  BY <1>1, <1>2 DEF Chain

\* One more packet is sent.
LEMMA ChainAppend ==
  ASSUME NEW e, NEW w, NEW a, NEW b, NEW c \in Views, NEW p \in Packets,
         Chain(e, w, a, b), Edge(e, b, p, c)
  PROVE  Chain(e, Append(w, p), a, c)
<1>1. PICK f : Passes(e, w, f) /\ f[0] = a /\ f[Len(w)] = b
  BY DEF Chain
<1>2. w \in Seq(Packets)
  BY DEF Chain
<1> DEFINE u == Append(w, p)
<1>3. /\ u \in Seq(Packets) /\ Len(u) = Len(w) + 1 /\ Len(w) \in Nat
      /\ \A i \in 1..Len(w) : u[i] = w[i]
      /\ u[Len(w) + 1] = p
  BY <1>2, AppendProperties, LenProperties
<1> HIDE DEF u
<1> DEFINE g == [i \in 0..Len(u) |-> IF i = Len(u) THEN c ELSE f[i]]
<1>4. f \in [0..Len(w) -> Views] /\ \A i \in 1..Len(w) : Edge(e, f[i - 1], w[i], f[i])
  BY <1>1 DEF Passes
<1>5. g \in [0..Len(u) -> Views] /\ g[0] = a /\ g[Len(u)] = c /\ g[Len(w)] = b
      /\ \A i \in 0..Len(w) : g[i] = f[i]
  BY <1>1, <1>3, <1>4
<1> HIDE DEF g
<1>6. ASSUME NEW i \in 1..Len(u) PROVE Edge(e, g[i - 1], u[i], g[i])
  <2>1. CASE i = Len(u)
    <3>1. i - 1 = Len(w) /\ u[i] = p
      BY <1>3, <2>1
    <3>2. QED
      BY <1>5, <2>1, <3>1
  <2>2. CASE i # Len(u)
    <3>1. i \in 1..Len(w) /\ i \in 0..Len(w) /\ i - 1 \in 0..Len(w)
      BY <1>3, <2>2
    <3>2. QED
      BY <1>3, <1>4, <1>5, <3>1
  <2>3. QED
    BY <2>1, <2>2
<1>7. Passes(e, u, g)
  BY <1>5, <1>6 DEF Passes
<1>8. QED
  BY <1>3, <1>5, <1>7 DEF Chain, u

\* The packets of a pass follow those on the wire.
LEMMA ChainConcat ==
  ASSUME NEW e, NEW w, NEW x, NEW a, NEW b, NEW c,
         Chain(e, w, a, b), Chain(e, x, b, c)
  PROVE  Chain(e, w \o x, a, c)
<1>1. PICK f : Passes(e, w, f) /\ f[0] = a /\ f[Len(w)] = b
  BY DEF Chain
<1>2. PICK g : Passes(e, x, g) /\ g[0] = b /\ g[Len(x)] = c
  BY DEF Chain
<1>3. w \in Seq(Packets) /\ x \in Seq(Packets)
  BY DEF Chain
<1> DEFINE u == w \o x
<1>4. /\ u \in Seq(Packets) /\ Len(u) = Len(w) + Len(x) /\ Len(w) \in Nat /\ Len(x) \in Nat
      /\ \A i \in 1..(Len(w) + Len(x)) : u[i] = IF i <= Len(w) THEN w[i] ELSE x[i - Len(w)]
  BY <1>3, ConcatProperties, LenProperties
<1> HIDE DEF u
<1> DEFINE h == [i \in 0..Len(u) |-> IF i <= Len(w) THEN f[i] ELSE g[i - Len(w)]]
<1>5. /\ f \in [0..Len(w) -> Views] /\ \A i \in 1..Len(w) : Edge(e, f[i - 1], w[i], f[i])
      /\ g \in [0..Len(x) -> Views] /\ \A i \in 1..Len(x) : Edge(e, g[i - 1], x[i], g[i])
  BY <1>1, <1>2 DEF Passes
<1>6. ASSUME NEW i \in 0..Len(u)
      PROVE  /\ h[i] \in Views
             /\ i <= Len(w) => h[i] = f[i]
             /\ i >= Len(w) => h[i] = g[i - Len(w)]
  <2>1. CASE i <= Len(w)
    <3>1. i \in 0..Len(w) /\ (i >= Len(w) => i = Len(w) /\ i - Len(w) = 0)
      BY <1>4, <2>1
    <3>2. QED
      BY <1>1, <1>2, <1>5, <2>1, <3>1
  <2>2. CASE ~(i <= Len(w))
    <3>1. i - Len(w) \in 0..Len(x)
      BY <1>4, <2>2
    <3>2. QED
      BY <1>5, <2>2, <3>1
  <2>3. QED
    BY <2>1, <2>2
<1>7. h \in [0..Len(u) -> Views]
  BY <1>6
<1>8. h[0] = a /\ h[Len(u)] = c
  <2>1. 0 \in 0..Len(u) /\ Len(u) \in 0..Len(u) /\ Len(u) >= Len(w) /\ Len(u) - Len(w) = Len(x)
    BY <1>4
  <2>2. QED
    BY <1>1, <1>2, <1>4, <1>6, <2>1
<1> HIDE DEF h
<1>9. ASSUME NEW i \in 1..Len(u) PROVE Edge(e, h[i - 1], u[i], h[i])
  <2>1. CASE i <= Len(w)
    <3>1. i \in 1..Len(w) /\ i \in 0..Len(u) /\ i - 1 \in 0..Len(u) /\ i - 1 <= Len(w) /\ u[i] = w[i]
      BY <1>4, <2>1
    <3>2. QED
      BY <1>5, <1>6, <2>1, <3>1
  <2>2. CASE ~(i <= Len(w))
    <3>1. /\ i - Len(w) \in 1..Len(x) /\ i \in 0..Len(u) /\ i - 1 \in 0..Len(u)
          /\ i >= Len(w) /\ i - 1 >= Len(w) /\ u[i] = x[i - Len(w)]
          /\ (i - 1) - Len(w) = (i - Len(w)) - 1
      BY <1>4, <2>2
    <3>2. h[i] = g[i - Len(w)] /\ h[i - 1] = g[(i - Len(w)) - 1]
      BY <1>6, <3>1
    <3>3. QED
      BY <1>5, <3>1, <3>2
  <2>3. QED
    BY <2>1, <2>2
<1>10. Passes(e, u, h)
  BY <1>7, <1>9 DEF Passes
<1>11. QED
  BY <1>4, <1>8, <1>10 DEF Chain, u

\* The first packet of the wire is taken off.
LEMMA ChainHead ==
  ASSUME NEW e, NEW w, NEW a, NEW b, Chain(e, w, a, b), w # << >>
  PROVE  /\ Head(w) \in Packets /\ a \in Views
         /\ \E c \in Views : Edge(e, a, Head(w), c) /\ Chain(e, Tail(w), c, b)
<1>1. PICK f : Passes(e, w, f) /\ f[0] = a /\ f[Len(w)] = b
  BY DEF Chain
<1>2. w \in Seq(Packets)
  BY DEF Chain
<1> DEFINE u == Tail(w)
<1>3. /\ u \in Seq(Packets) /\ Len(u) = Len(w) - 1 /\ Len(w) \in Nat \ {0}
      /\ \A i \in 1..Len(u) : u[i] = w[i + 1]
      /\ Head(w) \in Packets /\ Head(w) = w[1]
  BY <1>2, HeadTailProperties, LenProperties, EmptySeq
<1> HIDE DEF u
<1>4. f \in [0..Len(w) -> Views] /\ \A i \in 1..Len(w) : Edge(e, f[i - 1], w[i], f[i])
  BY <1>1 DEF Passes
<1> DEFINE g == [i \in 0..Len(u) |-> f[i + 1]]
<1>5. /\ g \in [0..Len(u) -> Views] /\ g[0] = f[1] /\ g[Len(u)] = b
      /\ \A i \in 0..Len(u) : g[i] = f[i + 1]
  BY <1>1, <1>3, <1>4
<1> HIDE DEF g
<1>6. ASSUME NEW i \in 1..Len(u) PROVE Edge(e, g[i - 1], u[i], g[i])
  <2>1. i + 1 \in 1..Len(w) /\ i \in 0..Len(u) /\ i - 1 \in 0..Len(u) /\ (i - 1) + 1 = (i + 1) - 1
    BY <1>3
  <2>2. QED
    BY <1>3, <1>4, <1>5, <2>1
<1>7. Passes(e, u, g)
  BY <1>5, <1>6 DEF Passes
<1>8. Chain(e, u, f[1], b)
  BY <1>3, <1>5, <1>7 DEF Chain
<1>9. f[0] \in Views /\ f[1] \in Views /\ Edge(e, f[0], w[1], f[1])
  <2>1. 1 \in 1..Len(w) /\ 0 \in 0..Len(w) /\ 1 \in 0..Len(w) /\ 1 - 1 = 0
    BY <1>3
  <2>2. QED
    BY <1>4, <2>1
<1>10. QED
  BY <1>1, <1>3, <1>8, <1>9 DEF u

\* Packets lead to a later view.
LEMMA ChainLater ==
  ASSUME NEW e \in End, NEW w, NEW a, NEW b, Chain(e, w, a, b)
  PROVE  a \in Views /\ b \in Views /\ Later(e, a, b)
<1>1. PICK f : Passes(e, w, f) /\ f[0] = a /\ f[Len(w)] = b
  BY DEF Chain
<1>2. Len(w) \in Nat
  BY LenProperties DEF Chain
<1>3. f \in [0..Len(w) -> Views] /\ \A i \in 1..Len(w) : Edge(e, f[i - 1], w[i], f[i])
  BY <1>1 DEF Passes
<1>4. a \in Views /\ b \in Views
  BY <1>1, <1>2, <1>3
<1> DEFINE P == {i \in 0..Len(w) : Later(e, a, f[i])}
<1>5. 0 \in P
  BY <1>1, <1>2, <1>4, LaterReflexive
<1>6. ASSUME NEW m \in 1..Len(w), m - 1 \in P PROVE m \in P
  <2>1. m \in 0..Len(w) /\ f[m - 1] \in Views /\ f[m] \in Views /\ Later(e, a, f[m - 1])
    BY <1>2, <1>3, <1>6
  <2>2. Later(e, a, f[m])
    BY <1>3, <1>4, <2>1, LaterStep
  <2>3. QED
    BY <2>1, <2>2
<1> HIDE DEF P
<1>7. Inductive(P, Len(w))
  BY <1>5, <1>6 DEF Inductive
<1>8. Len(w) \in P
  BY <1>2, <1>7, Induct
<1>9. QED
  BY <1>1, <1>4, <1>8 DEF P

-----------------------------------------------------------------------------
\* The pair p was used before view v.
Used(p, v) == p[1].cli < v.t \/ (p[1] = v.key /\ p[2] < v.seq)
Nonce(p) == <<p.key, p.seq>>
\* The nonces of the packets of w at I; nonces that are all used before v.
NoncesOf(Q, w, I) == I \subseteq DOMAIN w /\ Q = {Nonce(w[i]) : i \in I}
AllUsed(N, v) == N \subseteq Keys \X Nat /\ \A q \in N : Used(q, v)

\* The nonce of a packet is used with it and not before.
LEMMA UsedStep ==
  ASSUME NEW e, NEW a \in Views, NEW b \in Views, NEW p \in Packets, Edge(e, a, p, b)
  PROVE  /\ \A q \in Keys \X Nat : Used(q, a) => Used(q, b)
         /\ Used(Nonce(p), b) /\ ~Used(Nonce(p), a)
<1>1. /\ a.t \in Nat /\ b.t \in Nat /\ a.k \in Nat /\ a.seq \in Nat /\ b.seq \in Nat
      /\ a.key.cli = a.t /\ p.key = a.key /\ p.seq = a.seq
  BY ViewType DEF Edge
<1>2. \/ b.t = a.t /\ b.key = a.key /\ b.seq = a.seq + 1
      \/ b.t > a.t
  BY <1>1 DEF Edge, Moves, Begins, Exchanges, Switches, Carries
<1>3. Nonce(p)[1] = a.key /\ Nonce(p)[2] = a.seq
  BY <1>1 DEF Nonce
<1>4. Used(Nonce(p), b) /\ ~Used(Nonce(p), a)
  BY <1>1, <1>2, <1>3 DEF Used
<1>5. ASSUME NEW q \in Keys \X Nat, Used(q, a) PROVE Used(q, b)
  <2>1. q[1] \in Keys /\ q[1].cli \in Nat /\ q[2] \in Nat
    BY DEF Keys
  <2>2. QED
    BY <1>1, <1>2, <1>5, <2>1 DEF Used
<1>6. QED
  BY <1>4, <1>5

\* The nonces of the packets from a to b are distinct, none is used before a, and
\* all are used at b.
LEMMA FreshNonces ==
  ASSUME NEW e, NEW w, NEW a, NEW b, Chain(e, w, a, b),
         NEW I, NEW Q, NoncesOf(Q, w, I), NEW N, AllUsed(N, a)
  PROVE  Q \cap N = {} /\ Cardinality(Q) = Cardinality(I) /\ AllUsed(N \cup Q, b)
<1>0. /\ I \subseteq DOMAIN w /\ Q = {Nonce(w[i]) : i \in I}
      /\ N \subseteq Keys \X Nat /\ \A q \in N : Used(q, a)
  BY DEF NoncesOf, AllUsed
<1>1. PICK f : Passes(e, w, f) /\ f[0] = a /\ f[Len(w)] = b
  BY DEF Chain
<1>2. /\ w \in Seq(Packets) /\ Len(w) \in Nat /\ DOMAIN w = 1..Len(w)
      /\ \A i \in 1..Len(w) : w[i] \in Packets
  BY LenProperties, ElementOfSeq DEF Chain
<1>3. f \in [0..Len(w) -> Views] /\ \A i \in 1..Len(w) : Edge(e, f[i - 1], w[i], f[i])
  BY <1>1 DEF Passes
<1>4. \A i \in 1..Len(w) : Nonce(w[i]) \in Keys \X Nat
  BY <1>2 DEF Nonce, Packets
<1>5. ASSUME NEW i \in 1..Len(w)
      PROVE  /\ \A q \in Keys \X Nat : Used(q, f[i - 1]) => Used(q, f[i])
             /\ Used(Nonce(w[i]), f[i]) /\ ~Used(Nonce(w[i]), f[i - 1])
  <2>1. f[i - 1] \in Views /\ f[i] \in Views /\ w[i] \in Packets
    BY <1>2, <1>3
  <2>2. QED
    BY <1>3, <2>1, UsedStep
<1> DEFINE P == {j \in 0..Len(w) : /\ \A q \in N : Used(q, f[j])
                                   /\ \A i \in 1..j : Used(Nonce(w[i]), f[j])}
<1>6. \A j \in 0..Len(w) : j \in P
  <2>1. 0 \in P
    BY <1>0, <1>1, <1>2
  <2>2. ASSUME NEW m \in 1..Len(w), m - 1 \in P PROVE m \in P
    <3>1. m \in 0..Len(w)
      BY <1>2
    <3>2. \A q \in N : Used(q, f[m])
      BY <1>0, <1>5, <2>2
    <3>3. ASSUME NEW i \in 1..m PROVE Used(Nonce(w[i]), f[m])
      <4>1. CASE i = m
        BY <1>5, <4>1
      <4>2. CASE i # m
        <5>1. i \in 1..(m - 1) /\ i \in 1..Len(w)
          BY <1>2, <4>2
        <5>2. QED
          BY <1>4, <1>5, <2>2, <5>1
      <4>3. QED
        BY <4>1, <4>2
    <3>4. QED
      BY <3>1, <3>2, <3>3
  <2> HIDE DEF P
  <2>3. Inductive(P, Len(w))
    BY <2>1, <2>2 DEF Inductive
  <2>4. QED
    BY <1>2, <2>3, Induct
<1>7. ASSUME NEW i \in 1..Len(w)
      PROVE  /\ \A q \in N : q # Nonce(w[i])
             /\ \A j \in 1..(i - 1) : Nonce(w[j]) # Nonce(w[i])
  <2>1. i - 1 \in 0..Len(w)
    BY <1>2
  <2>2. i - 1 \in P
    BY <1>6, <2>1
  <2>3. QED
    BY <1>5, <2>2
<1>8. I \subseteq 1..Len(w)
  BY <1>0, <1>2
<1>9. Q \subseteq Keys \X Nat /\ Q \cap N = {}
  BY <1>0, <1>4, <1>7, <1>8
<1>10. \A q \in N \cup Q : Used(q, b)
  <2>1. Len(w) \in P
    BY <1>2, <1>6
  <2>2. QED
    BY <1>0, <1>1, <1>8, <2>1
<1>11. Cardinality(Q) = Cardinality(I)
  <2>1. IsFiniteSet(I)
    <3>1. 1 \in Int /\ Len(w) \in Int
      BY <1>2
    <3>2. IsFiniteSet(1..Len(w))
      BY <3>1, FS_Interval
    <3>3. QED
      BY <1>8, <3>2, FS_Subset
  <2> DEFINE g == [i \in I |-> Nonce(w[i])]
  <2>2. g \in Surjection(I, Q)
    BY <1>0 DEF Surjection
  <2>3. g \in Injection(I, Q)
    <3>1. g \in [I -> Q]
      BY <1>0
    <3>2. ASSUME NEW i \in I, NEW j \in I, g[i] = g[j] PROVE i = j
      <4>1. i \in 1..Len(w) /\ j \in 1..Len(w) /\ Nonce(w[i]) = Nonce(w[j])
        BY <1>8, <3>2
      <4>2. ~(i < j)
        BY <1>2, <1>7, <4>1
      <4>3. ~(j < i)
        BY <1>2, <1>7, <4>1
      <4>4. QED
        BY <1>2, <4>1, <4>2, <4>3
    <3> HIDE DEF g
    <3>3. IsInjective(g)
      BY <3>1, <3>2 DEF IsInjective
    <3>4. QED
      BY <3>1, <3>3 DEF Injection
  <2> HIDE DEF g
  <2>4. QED
    BY <2>1, <2>2, <2>3, FS_Surjection
<1>12. QED
  BY <1>0, <1>9, <1>10, <1>11 DEF AllUsed

-----------------------------------------------------------------------------
(***************************************************************************)
(* The updates the functions of the code make: u is s with some fields     *)
(* set (As), and so agrees with s in all others (Is).                      *)
(***************************************************************************)
\* Groups of fields of a session that an update leaves alone.
SameId(r, s) ==
    /\ r.end = s.end /\ r.strict_kex = s.strict_kex
    /\ r.donefirstkex = s.donefirstkex /\ r.donesecondkex = s.donesecondkex
    /\ r.recvfirstnewkeys = s.recvfirstnewkeys /\ r.session_id = s.session_id
SameFlags(r, s) ==
    /\ r.sentkexinit = s.sentkexinit /\ r.recvkexinit = s.recvkexinit
    /\ r.sentnewkeys = s.sentnewkeys /\ r.recvnewkeys = s.recvnewkeys
    /\ r.dataallowed = s.dataallowed
    /\ r.our_first_follows_matches = s.our_first_follows_matches
    /\ r.good = s.good
SameRecv(r, s) ==
    /\ r.recv = s.recv /\ r.recvseq = s.recvseq /\ r.theirs = s.theirs
    /\ r.requirenext = s.requirenext /\ r.ignorenext = s.ignorenext
    /\ r.lastpacket = s.lastpacket
SameSend(r, s) ==
    /\ r.trans = s.trans /\ r.transseq = s.transseq /\ r.kexinits = s.kexinits
    /\ r.param = s.param /\ r.reply_queue = s.reply_queue /\ r.out = s.out
SameKeys(r, s) ==
    /\ r.newkey = s.newkey /\ r.transvalid = s.transvalid
    /\ r.recvvalid = s.recvvalid /\ r.kex_state = s.kex_state

\* Part of the update below leaves a session.
LEMMA KexinitOutType ==
  ASSUME NEW s \in Sessions, NEW k \in Nat
  PROVE  [s EXCEPT !.kexinits = k, !.transvalid = FALSE, !.recvvalid = FALSE] \in Sessions
  BY ZenonT(60) DEF Sessions

\* send_msg_kexinit, before a guess.
KexinitOutAs(u, s, good, k) ==
    /\ s \in Sessions /\ good \in BOOLEAN /\ k \in Nat
    /\ u = [s EXCEPT !.dataallowed = FALSE, !.sentkexinit = TRUE, !.good = good,
                     !.kexinits = k, !.transvalid = FALSE, !.recvvalid = FALSE]
KexinitOutIs(u, s, good, k) ==
    /\ u \in Sessions /\ SameId(u, s) /\ SameRecv(u, s) /\ u.dataallowed = FALSE
    /\ u.sentkexinit = TRUE /\ u.good = good /\ u.kexinits = k /\ u.transvalid = FALSE
    /\ u.recvvalid = FALSE /\ u.recvkexinit = s.recvkexinit
    /\ u.sentnewkeys = s.sentnewkeys /\ u.recvnewkeys = s.recvnewkeys
    /\ u.our_first_follows_matches = s.our_first_follows_matches /\ u.trans = s.trans
    /\ u.transseq = s.transseq /\ u.param = s.param /\ u.reply_queue = s.reply_queue
    /\ u.out = s.out /\ u.newkey = s.newkey /\ u.kex_state = s.kex_state
\* The fields after that.
LEMMA KexinitOut ==
  ASSUME NEW u, NEW s, NEW good, NEW k, KexinitOutAs(u, s, good, k)
  PROVE  KexinitOutIs(u, s, good, k)
<1>0. s \in Sessions /\ good \in BOOLEAN /\ k \in Nat
  BY DEF KexinitOutAs
<1>1. u \in Sessions
  <2>1. PICK x : x = [s EXCEPT !.dataallowed = FALSE, !.sentkexinit = TRUE,
                       !.good = good]
    OBVIOUS
  <2>2. [s EXCEPT !.dataallowed = FALSE, !.sentkexinit = TRUE, !.good = good] \in Sessions
    BY <1>0, ZenonT(60) DEF Sessions
  <2>3. x \in Sessions
    BY <2>1, <2>2
  <2>4. [x EXCEPT !.kexinits = k, !.transvalid = FALSE, !.recvvalid = FALSE] \in Sessions
    BY <2>3, KexinitOutType, <1>0
  <2>5. u = [x EXCEPT !.kexinits = k, !.transvalid = FALSE, !.recvvalid = FALSE]
    BY <2>1 DEF KexinitOutAs
  <2>6. QED
    BY <2>4, <2>5
<1>2. /\ u.dataallowed = FALSE /\ u.sentkexinit = TRUE /\ u.good = good
      /\ u.kexinits = k /\ u.transvalid = FALSE /\ u.recvvalid = FALSE
      /\ u.recvkexinit = s.recvkexinit /\ u.sentnewkeys = s.sentnewkeys
  BY <1>0 DEF Sessions, KexinitOutAs
<1>3. /\ u.recvnewkeys = s.recvnewkeys
      /\ u.our_first_follows_matches = s.our_first_follows_matches /\ u.trans = s.trans
      /\ u.transseq = s.transseq /\ u.param = s.param /\ u.reply_queue = s.reply_queue
      /\ u.out = s.out /\ u.newkey = s.newkey
  BY <1>0 DEF Sessions, KexinitOutAs
<1>4. /\ u.kex_state = s.kex_state
  BY <1>0 DEF Sessions, KexinitOutAs
<1>5. SameId(u, s)
  BY <1>0 DEF Sessions, KexinitOutAs, SameId
<1>6. SameRecv(u, s)
  BY <1>0 DEF Sessions, KexinitOutAs, SameRecv
<1>7. QED
  BY <1>1, <1>2, <1>3, <1>4, <1>5, <1>6 DEF KexinitOutIs

\* send_msg_newkeys, before strict kex resets the sequence number.
NewkeysSentAs(u, s) ==
    /\ s \in Sessions
    /\ u = [s EXCEPT !.sentnewkeys = TRUE, !.donesecondkex = s.donefirstkex,
                     !.donefirstkex = TRUE, !.dataallowed = TRUE, !.transvalid = FALSE,
                     !.recvvalid = TRUE, !.trans = s.newkey]
NewkeysSentIs(u, s) ==
    /\ u \in Sessions /\ SameRecv(u, s) /\ u.sentnewkeys = TRUE
    /\ u.donesecondkex = s.donefirstkex /\ u.donefirstkex = TRUE /\ u.dataallowed = TRUE
    /\ u.transvalid = FALSE /\ u.recvvalid = TRUE /\ u.trans = s.newkey /\ u.end = s.end
    /\ u.strict_kex = s.strict_kex /\ u.recvfirstnewkeys = s.recvfirstnewkeys
    /\ u.session_id = s.session_id /\ u.sentkexinit = s.sentkexinit
    /\ u.recvkexinit = s.recvkexinit /\ u.recvnewkeys = s.recvnewkeys
    /\ u.our_first_follows_matches = s.our_first_follows_matches /\ u.good = s.good
    /\ u.transseq = s.transseq /\ u.kexinits = s.kexinits /\ u.param = s.param
    /\ u.reply_queue = s.reply_queue /\ u.out = s.out /\ u.newkey = s.newkey
    /\ u.kex_state = s.kex_state
\* The fields after that.
LEMMA NewkeysSent ==
  ASSUME NEW u, NEW s, NewkeysSentAs(u, s)
  PROVE  NewkeysSentIs(u, s)
<1>0. s \in Sessions
  BY DEF NewkeysSentAs
<1>1. u \in Sessions
  <2>1. [s EXCEPT !.sentnewkeys = TRUE, !.donesecondkex = s.donefirstkex,
                       !.donefirstkex = TRUE, !.dataallowed = TRUE,
                       !.transvalid = FALSE, !.recvvalid = TRUE, !.trans = s.newkey] \in Sessions
    BY <1>0, ZenonT(60) DEF Sessions
  <2>2. QED
    BY <2>1 DEF NewkeysSentAs
<1>2. /\ u.sentnewkeys = TRUE /\ u.donesecondkex = s.donefirstkex
      /\ u.donefirstkex = TRUE /\ u.dataallowed = TRUE /\ u.transvalid = FALSE
      /\ u.recvvalid = TRUE /\ u.trans = s.newkey /\ u.end = s.end
  BY <1>0 DEF Sessions, NewkeysSentAs
<1>3. /\ u.strict_kex = s.strict_kex /\ u.recvfirstnewkeys = s.recvfirstnewkeys
      /\ u.session_id = s.session_id /\ u.sentkexinit = s.sentkexinit
      /\ u.recvkexinit = s.recvkexinit /\ u.recvnewkeys = s.recvnewkeys
      /\ u.our_first_follows_matches = s.our_first_follows_matches /\ u.good = s.good
  BY <1>0 DEF Sessions, NewkeysSentAs
<1>4. /\ u.transseq = s.transseq /\ u.kexinits = s.kexinits /\ u.param = s.param
      /\ u.reply_queue = s.reply_queue /\ u.out = s.out /\ u.newkey = s.newkey
      /\ u.kex_state = s.kex_state
  BY <1>0 DEF Sessions, NewkeysSentAs
<1>5. SameRecv(u, s)
  BY <1>0 DEF Sessions, NewkeysSentAs, SameRecv
<1>6. QED
  BY <1>1, <1>2, <1>3, <1>4, <1>5 DEF NewkeysSentIs

\* send_msg_newkeys, the reset.
SequenceResetAs(u, s, q) ==
    /\ s \in Sessions /\ q \in Nat
    /\ u = [s EXCEPT !.transseq = q]
SequenceResetIs(u, s, q) ==
    /\ u \in Sessions /\ SameId(u, s) /\ SameFlags(u, s) /\ SameRecv(u, s)
    /\ SameKeys(u, s) /\ u.transseq = q /\ u.trans = s.trans /\ u.kexinits = s.kexinits
    /\ u.param = s.param /\ u.reply_queue = s.reply_queue /\ u.out = s.out
\* The fields after that.
LEMMA SequenceReset ==
  ASSUME NEW u, NEW s, NEW q, SequenceResetAs(u, s, q)
  PROVE  SequenceResetIs(u, s, q)
<1>0. s \in Sessions /\ q \in Nat
  BY DEF SequenceResetAs
<1>1. u \in Sessions
  <2>1. [s EXCEPT !.transseq = q] \in Sessions
    BY <1>0 DEF Sessions
  <2>2. QED
    BY <2>1 DEF SequenceResetAs
<1>2. /\ u.transseq = q /\ u.trans = s.trans /\ u.kexinits = s.kexinits
      /\ u.param = s.param /\ u.reply_queue = s.reply_queue /\ u.out = s.out
  BY <1>0 DEF Sessions, SequenceResetAs
<1>3. SameId(u, s)
  BY <1>0 DEF Sessions, SequenceResetAs, SameId
<1>4. SameFlags(u, s)
  BY <1>0 DEF Sessions, SequenceResetAs, SameFlags
<1>5. SameRecv(u, s)
  BY <1>0 DEF Sessions, SequenceResetAs, SameRecv
<1>6. SameKeys(u, s)
  BY <1>0 DEF Sessions, SequenceResetAs, SameKeys
<1>7. QED
  BY <1>1, <1>2, <1>3, <1>4, <1>5, <1>6 DEF SequenceResetIs

\* send_msg_kexdh_init.
KexdhInitSentAs(u, s, p, o, q) ==
    /\ s \in Sessions /\ p \in Nat /\ o \in Seq(Packets) /\ q \in Nat
    /\ u = [s EXCEPT !.param = p, !.out = o, !.transseq = q]
KexdhInitSentIs(u, s, p, o, q) ==
    /\ u \in Sessions /\ SameId(u, s) /\ SameFlags(u, s) /\ SameRecv(u, s)
    /\ SameKeys(u, s) /\ u.param = p /\ u.out = o /\ u.transseq = q /\ u.trans = s.trans
    /\ u.kexinits = s.kexinits /\ u.reply_queue = s.reply_queue
\* The fields after that.
LEMMA KexdhInitSent ==
  ASSUME NEW u, NEW s, NEW p, NEW o, NEW q, KexdhInitSentAs(u, s, p, o, q)
  PROVE  KexdhInitSentIs(u, s, p, o, q)
<1>0. s \in Sessions /\ p \in Nat /\ o \in Seq(Packets) /\ q \in Nat
  BY DEF KexdhInitSentAs
<1>1. u \in Sessions
  <2>1. [s EXCEPT !.param = p, !.out = o, !.transseq = q] \in Sessions
    BY <1>0 DEF Sessions
  <2>2. QED
    BY <2>1 DEF KexdhInitSentAs
<1>2. /\ u.param = p /\ u.out = o /\ u.transseq = q /\ u.trans = s.trans
      /\ u.kexinits = s.kexinits /\ u.reply_queue = s.reply_queue
  BY <1>0 DEF Sessions, KexdhInitSentAs
<1>3. SameId(u, s)
  BY <1>0 DEF Sessions, KexdhInitSentAs, SameId
<1>4. SameFlags(u, s)
  BY <1>0 DEF Sessions, KexdhInitSentAs, SameFlags
<1>5. SameRecv(u, s)
  BY <1>0 DEF Sessions, KexdhInitSentAs, SameRecv
<1>6. SameKeys(u, s)
  BY <1>0 DEF Sessions, KexdhInitSentAs, SameKeys
<1>7. QED
  BY <1>1, <1>2, <1>3, <1>4, <1>5, <1>6 DEF KexdhInitSentIs

\* encrypt_packet, when it does not queue.
PacketSentAs(u, s, o, q) ==
    /\ s \in Sessions /\ o \in Seq(Packets) /\ q \in Nat
    /\ u = [s EXCEPT !.out = o, !.transseq = q]
PacketSentIs(u, s, o, q) ==
    /\ u \in Sessions /\ SameId(u, s) /\ SameFlags(u, s) /\ SameRecv(u, s)
    /\ SameKeys(u, s) /\ u.out = o /\ u.transseq = q /\ u.trans = s.trans
    /\ u.kexinits = s.kexinits /\ u.param = s.param /\ u.reply_queue = s.reply_queue
\* The fields after that.
LEMMA PacketSent ==
  ASSUME NEW u, NEW s, NEW o, NEW q, PacketSentAs(u, s, o, q)
  PROVE  PacketSentIs(u, s, o, q)
<1>0. s \in Sessions /\ o \in Seq(Packets) /\ q \in Nat
  BY DEF PacketSentAs
<1>1. u \in Sessions
  <2>1. [s EXCEPT !.out = o, !.transseq = q] \in Sessions
    BY <1>0 DEF Sessions
  <2>2. QED
    BY <2>1 DEF PacketSentAs
<1>2. /\ u.out = o /\ u.transseq = q /\ u.trans = s.trans /\ u.kexinits = s.kexinits
      /\ u.param = s.param /\ u.reply_queue = s.reply_queue
  BY <1>0 DEF Sessions, PacketSentAs
<1>3. SameId(u, s)
  BY <1>0 DEF Sessions, PacketSentAs, SameId
<1>4. SameFlags(u, s)
  BY <1>0 DEF Sessions, PacketSentAs, SameFlags
<1>5. SameRecv(u, s)
  BY <1>0 DEF Sessions, PacketSentAs, SameRecv
<1>6. SameKeys(u, s)
  BY <1>0 DEF Sessions, PacketSentAs, SameKeys
<1>7. QED
  BY <1>1, <1>2, <1>3, <1>4, <1>5, <1>6 DEF PacketSentIs

\* maybe_flush_reply_queue.
QueueFlushedAs(u, s, o, q) ==
    /\ s \in Sessions /\ o \in Seq(Packets) /\ q \in Nat
    /\ u = [s EXCEPT !.reply_queue = << >>, !.out = o, !.transseq = q]
QueueFlushedIs(u, s, o, q) ==
    /\ u \in Sessions /\ SameId(u, s) /\ SameFlags(u, s) /\ SameRecv(u, s)
    /\ SameKeys(u, s) /\ u.reply_queue = << >> /\ u.out = o /\ u.transseq = q
    /\ u.trans = s.trans /\ u.kexinits = s.kexinits /\ u.param = s.param
\* The fields after that.
LEMMA QueueFlushed ==
  ASSUME NEW u, NEW s, NEW o, NEW q, QueueFlushedAs(u, s, o, q)
  PROVE  QueueFlushedIs(u, s, o, q)
<1>0. s \in Sessions /\ o \in Seq(Packets) /\ q \in Nat
  BY DEF QueueFlushedAs
<1>1. u \in Sessions
  <2>1. PICK z \in Seq(Messages) : z = << >>
    BY EmptySeq
  <2>2. [s EXCEPT !.reply_queue = z, !.out = o, !.transseq = q] \in Sessions
    BY <1>0 DEF Sessions
  <2>3. QED
    BY <2>1, <2>2 DEF QueueFlushedAs
<1>2. /\ u.reply_queue = << >> /\ u.out = o /\ u.transseq = q /\ u.trans = s.trans
      /\ u.kexinits = s.kexinits /\ u.param = s.param
  BY <1>0 DEF Sessions, QueueFlushedAs
<1>3. SameId(u, s)
  BY <1>0 DEF Sessions, QueueFlushedAs, SameId
<1>4. SameFlags(u, s)
  BY <1>0 DEF Sessions, QueueFlushedAs, SameFlags
<1>5. SameRecv(u, s)
  BY <1>0 DEF Sessions, QueueFlushedAs, SameRecv
<1>6. SameKeys(u, s)
  BY <1>0 DEF Sessions, QueueFlushedAs, SameKeys
<1>7. QED
  BY <1>1, <1>2, <1>3, <1>4, <1>5, <1>6 DEF QueueFlushedIs

\* encrypt_packet, when it queues.
PacketQueuedAs(u, s, x) ==
    /\ s \in Sessions /\ x \in Seq(Messages)
    /\ u = [s EXCEPT !.reply_queue = x]
PacketQueuedIs(u, s, x) ==
    /\ u \in Sessions /\ SameId(u, s) /\ SameFlags(u, s) /\ SameRecv(u, s)
    /\ SameKeys(u, s) /\ u.reply_queue = x /\ u.trans = s.trans
    /\ u.transseq = s.transseq /\ u.kexinits = s.kexinits /\ u.param = s.param
    /\ u.out = s.out
\* The fields after that.
LEMMA PacketQueued ==
  ASSUME NEW u, NEW s, NEW x, PacketQueuedAs(u, s, x)
  PROVE  PacketQueuedIs(u, s, x)
<1>0. s \in Sessions /\ x \in Seq(Messages)
  BY DEF PacketQueuedAs
<1>1. u \in Sessions
  <2>1. [s EXCEPT !.reply_queue = x] \in Sessions
    BY <1>0 DEF Sessions
  <2>2. QED
    BY <2>1 DEF PacketQueuedAs
<1>2. /\ u.reply_queue = x /\ u.trans = s.trans /\ u.transseq = s.transseq
      /\ u.kexinits = s.kexinits /\ u.param = s.param /\ u.out = s.out
  BY <1>0 DEF Sessions, PacketQueuedAs
<1>3. SameId(u, s)
  BY <1>0 DEF Sessions, PacketQueuedAs, SameId
<1>4. SameFlags(u, s)
  BY <1>0 DEF Sessions, PacketQueuedAs, SameFlags
<1>5. SameRecv(u, s)
  BY <1>0 DEF Sessions, PacketQueuedAs, SameRecv
<1>6. SameKeys(u, s)
  BY <1>0 DEF Sessions, PacketQueuedAs, SameKeys
<1>7. QED
  BY <1>1, <1>2, <1>3, <1>4, <1>5, <1>6 DEF PacketQueuedIs

\* decrypt_packet and process_packet, before a handler runs.
PacketTakenAs(u, s, q) ==
    /\ s \in Sessions /\ q \in Nat
    /\ u = [s EXCEPT !.recvseq = q, !.requirenext = "any"]
PacketTakenIs(u, s, q) ==
    /\ u \in Sessions /\ SameId(u, s) /\ SameFlags(u, s) /\ SameSend(u, s)
    /\ SameKeys(u, s) /\ u.recvseq = q /\ u.requirenext = "any" /\ u.recv = s.recv
    /\ u.theirs = s.theirs /\ u.ignorenext = s.ignorenext /\ u.lastpacket = s.lastpacket
\* The fields after that.
LEMMA PacketTaken ==
  ASSUME NEW u, NEW s, NEW q, PacketTakenAs(u, s, q)
  PROVE  PacketTakenIs(u, s, q)
<1>0. s \in Sessions /\ q \in Nat
  BY DEF PacketTakenAs
<1>1. u \in Sessions
  <2>1. [s EXCEPT !.recvseq = q, !.requirenext = "any"] \in Sessions
    BY <1>0 DEF Sessions
  <2>2. QED
    BY <2>1 DEF PacketTakenAs
<1>2. /\ u.recvseq = q /\ u.requirenext = "any" /\ u.recv = s.recv
      /\ u.theirs = s.theirs /\ u.ignorenext = s.ignorenext
      /\ u.lastpacket = s.lastpacket
  BY <1>0 DEF Sessions, PacketTakenAs
<1>3. SameId(u, s)
  BY <1>0 DEF Sessions, PacketTakenAs, SameId
<1>4. SameFlags(u, s)
  BY <1>0 DEF Sessions, PacketTakenAs, SameFlags
<1>5. SameSend(u, s)
  BY <1>0 DEF Sessions, PacketTakenAs, SameSend
<1>6. SameKeys(u, s)
  BY <1>0 DEF Sessions, PacketTakenAs, SameKeys
<1>7. QED
  BY <1>1, <1>2, <1>3, <1>4, <1>5, <1>6 DEF PacketTakenIs

\* The same for a packet that is ignored.
GuessIgnoredAs(u, s, q) ==
    /\ s \in Sessions /\ q \in Nat
    /\ u = [s EXCEPT !.recvseq = q, !.ignorenext = FALSE]
GuessIgnoredIs(u, s, q) ==
    /\ u \in Sessions /\ SameId(u, s) /\ SameFlags(u, s) /\ SameSend(u, s)
    /\ SameKeys(u, s) /\ u.recvseq = q /\ u.ignorenext = FALSE /\ u.recv = s.recv
    /\ u.theirs = s.theirs /\ u.requirenext = s.requirenext
    /\ u.lastpacket = s.lastpacket
\* The fields after that.
LEMMA GuessIgnored ==
  ASSUME NEW u, NEW s, NEW q, GuessIgnoredAs(u, s, q)
  PROVE  GuessIgnoredIs(u, s, q)
<1>0. s \in Sessions /\ q \in Nat
  BY DEF GuessIgnoredAs
<1>1. u \in Sessions
  <2>1. [s EXCEPT !.recvseq = q, !.ignorenext = FALSE] \in Sessions
    BY <1>0, ZenonT(60) DEF Sessions
  <2>2. QED
    BY <2>1 DEF GuessIgnoredAs
<1>2. /\ u.recvseq = q /\ u.ignorenext = FALSE /\ u.recv = s.recv /\ u.theirs = s.theirs
      /\ u.requirenext = s.requirenext /\ u.lastpacket = s.lastpacket
  BY <1>0 DEF Sessions, GuessIgnoredAs
<1>3. SameId(u, s)
  BY <1>0 DEF Sessions, GuessIgnoredAs, SameId
<1>4. SameFlags(u, s)
  BY <1>0 DEF Sessions, GuessIgnoredAs, SameFlags
<1>5. SameSend(u, s)
  BY <1>0 DEF Sessions, GuessIgnoredAs, SameSend
<1>6. SameKeys(u, s)
  BY <1>0 DEF Sessions, GuessIgnoredAs, SameKeys
<1>7. QED
  BY <1>1, <1>2, <1>3, <1>4, <1>5, <1>6 DEF GuessIgnoredIs

\* Part of the update below leaves a session.
LEMMA KexinitTakenType ==
  ASSUME NEW s \in Sessions, NEW t \in Nat
  PROVE  [s EXCEPT !.recvkexinit = TRUE, !.theirs = t, !.transvalid = FALSE,
                        !.recvvalid = FALSE] \in Sessions
  BY ZenonT(60) DEF Sessions

\* recv_msg_kexinit.
KexinitTakenAs(u, s, y, i, f, r, t) ==
    /\ s \in Sessions /\ y \in BOOLEAN /\ i \in BOOLEAN /\ f \in BOOLEAN
    /\ r \in Types \cup {"any"} /\ t \in Nat
    /\ u = [s EXCEPT !.strict_kex = y, !.ignorenext = i,
                     !.our_first_follows_matches = f, !.requirenext = r,
                     !.recvkexinit = TRUE, !.theirs = t, !.transvalid = FALSE,
                     !.recvvalid = FALSE]
KexinitTakenIs(u, s, y, i, f, r, t) ==
    /\ u \in Sessions /\ SameSend(u, s) /\ u.strict_kex = y /\ u.ignorenext = i
    /\ u.our_first_follows_matches = f /\ u.requirenext = r /\ u.recvkexinit = TRUE
    /\ u.theirs = t /\ u.transvalid = FALSE /\ u.recvvalid = FALSE /\ u.end = s.end
    /\ u.donefirstkex = s.donefirstkex /\ u.donesecondkex = s.donesecondkex
    /\ u.recvfirstnewkeys = s.recvfirstnewkeys /\ u.session_id = s.session_id
    /\ u.sentkexinit = s.sentkexinit /\ u.sentnewkeys = s.sentnewkeys
    /\ u.recvnewkeys = s.recvnewkeys /\ u.dataallowed = s.dataallowed /\ u.good = s.good
    /\ u.recv = s.recv /\ u.recvseq = s.recvseq /\ u.lastpacket = s.lastpacket
    /\ u.newkey = s.newkey /\ u.kex_state = s.kex_state
\* The fields after that.
LEMMA KexinitTaken ==
  ASSUME NEW u, NEW s, NEW y, NEW i, NEW f, NEW r, NEW t, KexinitTakenAs(u, s, y, i, f, r, t)
  PROVE  KexinitTakenIs(u, s, y, i, f, r, t)
<1>0. /\ s \in Sessions /\ y \in BOOLEAN /\ i \in BOOLEAN /\ f \in BOOLEAN
      /\ r \in Types \cup {"any"} /\ t \in Nat
  BY DEF KexinitTakenAs
<1>1. u \in Sessions
  <2>1. PICK x : x = [s EXCEPT !.strict_kex = y, !.ignorenext = i,
                       !.our_first_follows_matches = f, !.requirenext = r]
    OBVIOUS
  <2>2. [s EXCEPT !.strict_kex = y, !.ignorenext = i, !.our_first_follows_matches = f,
                       !.requirenext = r] \in Sessions
    BY <1>0, ZenonT(60) DEF Sessions
  <2>3. x \in Sessions
    BY <2>1, <2>2
  <2>4. [x EXCEPT !.recvkexinit = TRUE, !.theirs = t, !.transvalid = FALSE,
                       !.recvvalid = FALSE] \in Sessions
    BY <2>3, KexinitTakenType, <1>0
  <2>5. u = [x EXCEPT !.recvkexinit = TRUE, !.theirs = t, !.transvalid = FALSE,
                       !.recvvalid = FALSE]
    BY <2>1 DEF KexinitTakenAs
  <2>6. QED
    BY <2>4, <2>5
<1>2. /\ u.strict_kex = y /\ u.ignorenext = i /\ u.our_first_follows_matches = f
      /\ u.requirenext = r /\ u.recvkexinit = TRUE /\ u.theirs = t
      /\ u.transvalid = FALSE /\ u.recvvalid = FALSE
  BY <1>0 DEF Sessions, KexinitTakenAs
<1>3. /\ u.end = s.end /\ u.donefirstkex = s.donefirstkex
      /\ u.donesecondkex = s.donesecondkex /\ u.recvfirstnewkeys = s.recvfirstnewkeys
      /\ u.session_id = s.session_id /\ u.sentkexinit = s.sentkexinit
      /\ u.sentnewkeys = s.sentnewkeys /\ u.recvnewkeys = s.recvnewkeys
  BY <1>0 DEF Sessions, KexinitTakenAs
<1>4. /\ u.dataallowed = s.dataallowed /\ u.good = s.good /\ u.recv = s.recv
      /\ u.recvseq = s.recvseq /\ u.lastpacket = s.lastpacket /\ u.newkey = s.newkey
      /\ u.kex_state = s.kex_state
  BY <1>0 DEF Sessions, KexinitTakenAs
<1>5. SameSend(u, s)
  BY <1>0 DEF Sessions, KexinitTakenAs, SameSend
<1>6. QED
  BY <1>1, <1>2, <1>3, <1>4, <1>5 DEF KexinitTakenIs

\* finish_kexhashbuf.
KeysDerivedAs(u, s, k, i) ==
    /\ s \in Sessions /\ k \in Keys /\ i \in Keys
    /\ u = [s EXCEPT !.newkey = k, !.session_id = i]
KeysDerivedIs(u, s, k, i) ==
    /\ u \in Sessions /\ SameFlags(u, s) /\ SameRecv(u, s) /\ SameSend(u, s)
    /\ u.newkey = k /\ u.session_id = i /\ u.end = s.end /\ u.strict_kex = s.strict_kex
    /\ u.donefirstkex = s.donefirstkex /\ u.donesecondkex = s.donesecondkex
    /\ u.recvfirstnewkeys = s.recvfirstnewkeys /\ u.transvalid = s.transvalid
    /\ u.recvvalid = s.recvvalid /\ u.kex_state = s.kex_state
\* The fields after that.
LEMMA KeysDerived ==
  ASSUME NEW u, NEW s, NEW k, NEW i, KeysDerivedAs(u, s, k, i)
  PROVE  KeysDerivedIs(u, s, k, i)
<1>0. s \in Sessions /\ k \in Keys /\ i \in Keys
  BY DEF KeysDerivedAs
<1>1. u \in Sessions
  <2>1. [s EXCEPT !.newkey = k, !.session_id = i] \in Sessions
    BY <1>0 DEF Sessions
  <2>2. QED
    BY <2>1 DEF KeysDerivedAs
<1>2. /\ u.newkey = k /\ u.session_id = i /\ u.end = s.end
      /\ u.strict_kex = s.strict_kex /\ u.donefirstkex = s.donefirstkex
      /\ u.donesecondkex = s.donesecondkex /\ u.recvfirstnewkeys = s.recvfirstnewkeys
      /\ u.transvalid = s.transvalid
  BY <1>0 DEF Sessions, KeysDerivedAs
<1>3. /\ u.recvvalid = s.recvvalid /\ u.kex_state = s.kex_state
  BY <1>0 DEF Sessions, KeysDerivedAs
<1>4. SameFlags(u, s)
  BY <1>0 DEF Sessions, KeysDerivedAs, SameFlags
<1>5. SameRecv(u, s)
  BY <1>0 DEF Sessions, KeysDerivedAs, SameRecv
<1>6. SameSend(u, s)
  BY <1>0 DEF Sessions, KeysDerivedAs, SameSend
<1>7. QED
  BY <1>1, <1>2, <1>3, <1>4, <1>5, <1>6 DEF KeysDerivedIs

\* Part of the update below leaves a session.
LEMMA NewkeysTakenType ==
  ASSUME NEW s \in Sessions, NEW q \in Nat
  PROVE  [s EXCEPT !.recvkexinit = FALSE, !.sentnewkeys = FALSE,
                        !.our_first_follows_matches = FALSE, !.recvseq = q,
                        !.recvfirstnewkeys = TRUE] \in Sessions
  BY ZenonT(60) DEF Sessions

\* recv_msg_newkeys, when ours is out.
NewkeysTakenAs(u, s, q) ==
    /\ s \in Sessions /\ q \in Nat
    /\ u = [s EXCEPT !.recvnewkeys = FALSE, !.recv = s.newkey, !.recvvalid = FALSE,
                     !.sentkexinit = FALSE, !.recvkexinit = FALSE,
                     !.sentnewkeys = FALSE, !.our_first_follows_matches = FALSE,
                     !.recvseq = q, !.recvfirstnewkeys = TRUE]
NewkeysTakenIs(u, s, q) ==
    /\ u \in Sessions /\ SameSend(u, s) /\ u.recvnewkeys = FALSE /\ u.recv = s.newkey
    /\ u.recvvalid = FALSE /\ u.sentkexinit = FALSE /\ u.recvkexinit = FALSE
    /\ u.sentnewkeys = FALSE /\ u.our_first_follows_matches = FALSE /\ u.recvseq = q
    /\ u.recvfirstnewkeys = TRUE /\ u.end = s.end /\ u.strict_kex = s.strict_kex
    /\ u.donefirstkex = s.donefirstkex /\ u.donesecondkex = s.donesecondkex
    /\ u.session_id = s.session_id /\ u.dataallowed = s.dataallowed /\ u.good = s.good
    /\ u.theirs = s.theirs /\ u.requirenext = s.requirenext
    /\ u.ignorenext = s.ignorenext /\ u.lastpacket = s.lastpacket /\ u.newkey = s.newkey
    /\ u.transvalid = s.transvalid /\ u.kex_state = s.kex_state
\* The fields after that.
LEMMA NewkeysTaken ==
  ASSUME NEW u, NEW s, NEW q, NewkeysTakenAs(u, s, q)
  PROVE  NewkeysTakenIs(u, s, q)
<1>0. s \in Sessions /\ q \in Nat
  BY DEF NewkeysTakenAs
<1>1. u \in Sessions
  <2>1. PICK x : x = [s EXCEPT !.recvnewkeys = FALSE, !.recv = s.newkey,
                       !.recvvalid = FALSE, !.sentkexinit = FALSE]
    OBVIOUS
  <2>2. [s EXCEPT !.recvnewkeys = FALSE, !.recv = s.newkey, !.recvvalid = FALSE,
                       !.sentkexinit = FALSE] \in Sessions
    BY <1>0, ZenonT(60) DEF Sessions
  <2>3. x \in Sessions
    BY <2>1, <2>2
  <2>4. [x EXCEPT !.recvkexinit = FALSE, !.sentnewkeys = FALSE,
                       !.our_first_follows_matches = FALSE, !.recvseq = q,
                       !.recvfirstnewkeys = TRUE] \in Sessions
    BY <2>3, NewkeysTakenType, <1>0
  <2>5. u = [x EXCEPT !.recvkexinit = FALSE, !.sentnewkeys = FALSE,
                       !.our_first_follows_matches = FALSE, !.recvseq = q,
                       !.recvfirstnewkeys = TRUE]
    BY <2>1 DEF NewkeysTakenAs
  <2>6. QED
    BY <2>4, <2>5
<1>2. /\ u.recvnewkeys = FALSE /\ u.recv = s.newkey /\ u.recvvalid = FALSE
      /\ u.sentkexinit = FALSE /\ u.recvkexinit = FALSE /\ u.sentnewkeys = FALSE
      /\ u.our_first_follows_matches = FALSE /\ u.recvseq = q
  BY <1>0 DEF Sessions, NewkeysTakenAs
<1>3. /\ u.recvfirstnewkeys = TRUE /\ u.end = s.end /\ u.strict_kex = s.strict_kex
      /\ u.donefirstkex = s.donefirstkex /\ u.donesecondkex = s.donesecondkex
      /\ u.session_id = s.session_id /\ u.dataallowed = s.dataallowed /\ u.good = s.good
  BY <1>0 DEF Sessions, NewkeysTakenAs
<1>4. /\ u.theirs = s.theirs /\ u.requirenext = s.requirenext
      /\ u.ignorenext = s.ignorenext /\ u.lastpacket = s.lastpacket
      /\ u.newkey = s.newkey /\ u.transvalid = s.transvalid /\ u.kex_state = s.kex_state
  BY <1>0 DEF Sessions, NewkeysTakenAs
<1>5. SameSend(u, s)
  BY <1>0 DEF Sessions, NewkeysTakenAs, SameSend
<1>6. QED
  BY <1>1, <1>2, <1>3, <1>4, <1>5 DEF NewkeysTakenIs

\* A handler that names the packet to follow.
NextRequiredAs(u, s, r) ==
    /\ s \in Sessions /\ r \in Types \cup {"any"}
    /\ u = [s EXCEPT !.requirenext = r]
NextRequiredIs(u, s, r) ==
    /\ u \in Sessions /\ SameId(u, s) /\ SameFlags(u, s) /\ SameSend(u, s)
    /\ SameKeys(u, s) /\ u.requirenext = r /\ u.recv = s.recv /\ u.recvseq = s.recvseq
    /\ u.theirs = s.theirs /\ u.ignorenext = s.ignorenext /\ u.lastpacket = s.lastpacket
\* The fields after that.
LEMMA NextRequired ==
  ASSUME NEW u, NEW s, NEW r, NextRequiredAs(u, s, r)
  PROVE  NextRequiredIs(u, s, r)
<1>0. s \in Sessions /\ r \in Types \cup {"any"}
  BY DEF NextRequiredAs
<1>1. u \in Sessions
  <2>1. [s EXCEPT !.requirenext = r] \in Sessions
    BY <1>0 DEF Sessions
  <2>2. QED
    BY <2>1 DEF NextRequiredAs
<1>2. /\ u.requirenext = r /\ u.recv = s.recv /\ u.recvseq = s.recvseq
      /\ u.theirs = s.theirs /\ u.ignorenext = s.ignorenext
      /\ u.lastpacket = s.lastpacket
  BY <1>0 DEF Sessions, NextRequiredAs
<1>3. SameId(u, s)
  BY <1>0 DEF Sessions, NextRequiredAs, SameId
<1>4. SameFlags(u, s)
  BY <1>0 DEF Sessions, NextRequiredAs, SameFlags
<1>5. SameSend(u, s)
  BY <1>0 DEF Sessions, NextRequiredAs, SameSend
<1>6. SameKeys(u, s)
  BY <1>0 DEF Sessions, NextRequiredAs, SameKeys
<1>7. QED
  BY <1>1, <1>2, <1>3, <1>4, <1>5, <1>6 DEF NextRequiredIs

\* The end of process_packet.
PacketDoneAs(u, s, t) ==
    /\ s \in Sessions /\ t \in Types \cup {"none"}
    /\ u = [s EXCEPT !.lastpacket = t]
PacketDoneIs(u, s, t) ==
    /\ u \in Sessions /\ SameId(u, s) /\ SameFlags(u, s) /\ SameSend(u, s)
    /\ SameKeys(u, s) /\ u.lastpacket = t /\ u.recv = s.recv /\ u.recvseq = s.recvseq
    /\ u.theirs = s.theirs /\ u.requirenext = s.requirenext
    /\ u.ignorenext = s.ignorenext
\* The fields after that.
LEMMA PacketDone ==
  ASSUME NEW u, NEW s, NEW t, PacketDoneAs(u, s, t)
  PROVE  PacketDoneIs(u, s, t)
<1>0. s \in Sessions /\ t \in Types \cup {"none"}
  BY DEF PacketDoneAs
<1>1. u \in Sessions
  <2>1. [s EXCEPT !.lastpacket = t] \in Sessions
    BY <1>0 DEF Sessions
  <2>2. QED
    BY <2>1 DEF PacketDoneAs
<1>2. /\ u.lastpacket = t /\ u.recv = s.recv /\ u.recvseq = s.recvseq
      /\ u.theirs = s.theirs /\ u.requirenext = s.requirenext
      /\ u.ignorenext = s.ignorenext
  BY <1>0 DEF Sessions, PacketDoneAs
<1>3. SameId(u, s)
  BY <1>0 DEF Sessions, PacketDoneAs, SameId
<1>4. SameFlags(u, s)
  BY <1>0 DEF Sessions, PacketDoneAs, SameFlags
<1>5. SameSend(u, s)
  BY <1>0 DEF Sessions, PacketDoneAs, SameSend
<1>6. SameKeys(u, s)
  BY <1>0 DEF Sessions, PacketDoneAs, SameKeys
<1>7. QED
  BY <1>1, <1>2, <1>3, <1>4, <1>5, <1>6 DEF PacketDoneIs

\* cli_sessionloop.
ClientStateAs(u, s, k) ==
    /\ s \in Sessions /\ k \in {"KEX_NOTHING", "KEXDH_INIT_SENT"}
    /\ u = [s EXCEPT !.kex_state = k]
ClientStateIs(u, s, k) ==
    /\ u \in Sessions /\ SameId(u, s) /\ SameFlags(u, s) /\ SameRecv(u, s)
    /\ SameSend(u, s) /\ u.kex_state = k /\ u.newkey = s.newkey
    /\ u.transvalid = s.transvalid /\ u.recvvalid = s.recvvalid
\* The fields after that.
LEMMA ClientState ==
  ASSUME NEW u, NEW s, NEW k, ClientStateAs(u, s, k)
  PROVE  ClientStateIs(u, s, k)
<1>0. s \in Sessions /\ k \in {"KEX_NOTHING", "KEXDH_INIT_SENT"}
  BY DEF ClientStateAs
<1>1. u \in Sessions
  <2>1. [s EXCEPT !.kex_state = k] \in Sessions
    BY <1>0 DEF Sessions
  <2>2. QED
    BY <2>1 DEF ClientStateAs
<1>2. /\ u.kex_state = k /\ u.newkey = s.newkey /\ u.transvalid = s.transvalid
      /\ u.recvvalid = s.recvvalid
  BY <1>0 DEF Sessions, ClientStateAs
<1>3. SameId(u, s)
  BY <1>0 DEF Sessions, ClientStateAs, SameId
<1>4. SameFlags(u, s)
  BY <1>0 DEF Sessions, ClientStateAs, SameFlags
<1>5. SameRecv(u, s)
  BY <1>0 DEF Sessions, ClientStateAs, SameRecv
<1>6. SameSend(u, s)
  BY <1>0 DEF Sessions, ClientStateAs, SameSend
<1>7. QED
  BY <1>1, <1>2, <1>3, <1>4, <1>5, <1>6 DEF ClientStateIs

\* The end of a pass.
PassDoneAs(u, s) ==
    /\ s \in Sessions
    /\ u = [s EXCEPT !.out = << >>]
PassDoneIs(u, s) ==
    /\ u \in Sessions /\ SameId(u, s) /\ SameFlags(u, s) /\ SameRecv(u, s)
    /\ SameKeys(u, s) /\ u.out = << >> /\ u.trans = s.trans /\ u.transseq = s.transseq
    /\ u.kexinits = s.kexinits /\ u.param = s.param /\ u.reply_queue = s.reply_queue
\* The fields after that.
LEMMA PassDone ==
  ASSUME NEW u, NEW s, PassDoneAs(u, s)
  PROVE  PassDoneIs(u, s)
<1>0. s \in Sessions
  BY DEF PassDoneAs
<1>1. u \in Sessions
  <2>1. PICK z \in Seq(Packets) : z = << >>
    BY EmptySeq
  <2>2. [s EXCEPT !.out = z] \in Sessions
    BY <1>0 DEF Sessions
  <2>3. QED
    BY <2>1, <2>2 DEF PassDoneAs
<1>2. /\ u.out = << >> /\ u.trans = s.trans /\ u.transseq = s.transseq
      /\ u.kexinits = s.kexinits /\ u.param = s.param /\ u.reply_queue = s.reply_queue
  BY <1>0 DEF Sessions, PassDoneAs
<1>3. SameId(u, s)
  BY <1>0 DEF Sessions, PassDoneAs, SameId
<1>4. SameFlags(u, s)
  BY <1>0 DEF Sessions, PassDoneAs, SameFlags
<1>5. SameRecv(u, s)
  BY <1>0 DEF Sessions, PassDoneAs, SameRecv
<1>6. SameKeys(u, s)
  BY <1>0 DEF Sessions, PassDoneAs, SameKeys
<1>7. QED
  BY <1>1, <1>2, <1>3, <1>4, <1>5, <1>6 DEF PassDoneIs


-----------------------------------------------------------------------------
(***************************************************************************)
(* The four phases of an exchange at an end: none is under way, our        *)
(* KEXINIT is out, both KEXINITs are through, our NEWKEYS is out.          *)
(***************************************************************************)
Idle(s) ==
    /\ s.kexinits > 0 /\ s.trans.cli = s.kexinits /\ s.recv.cli = s.kexinits
    /\ s.theirs = s.kexinits
    /\ ~s.sentkexinit /\ ~s.recvkexinit /\ ~s.sentnewkeys /\ s.dataallowed
    /\ s.requirenext = "any" /\ ~s.ignorenext /\ ~s.our_first_follows_matches
Begun(s) ==
    /\ s.kexinits = s.trans.cli + 1 /\ s.recv.cli = s.trans.cli /\ s.theirs = s.trans.cli
    /\ s.sentkexinit /\ ~s.recvkexinit /\ ~s.sentnewkeys /\ ~s.dataallowed
    /\ s.requirenext = (IF s.kexinits = 1 THEN "KEXINIT" ELSE "any")
    /\ ~s.ignorenext /\ ~s.our_first_follows_matches
Agreeing(e, s) ==
    /\ s.kexinits = s.trans.cli + 1 /\ s.recv.cli = s.trans.cli /\ s.theirs = s.kexinits
    /\ s.sentkexinit /\ s.recvkexinit /\ ~s.sentnewkeys /\ ~s.dataallowed
    /\ s.requirenext = DH(Peer(e)) /\ (e = "client" => ~s.ignorenext)
Switching(s) ==
    /\ s.kexinits = s.recv.cli + 1 /\ s.trans.cli = s.kexinits /\ s.theirs = s.kexinits
    /\ s.sentkexinit /\ s.recvkexinit /\ s.sentnewkeys /\ s.dataallowed
    /\ s.requirenext = "NEWKEYS" /\ ~s.ignorenext
    /\ s.recvvalid /\ ~s.transvalid /\ s.newkey = s.trans

\* kex_state and lastpacket let cli_sessionloop send KEXDH_INIT once.
ClientOK(s) ==
    /\ Agreeing("client", s) => s.kex_state = "KEXDH_INIT_SENT"
    /\ ~Agreeing("client", s) => s.kex_state = "KEX_NOTHING" /\ s.lastpacket # "KEXINIT"

\* The queue holds the last of the n data packets made, and is empty when
\* there is nothing to wait for.
QueueOK(s, n) ==
    /\ s.dataallowed => s.reply_queue = << >>
    /\ Len(s.reply_queue) <= n
    /\ \A i \in 1..Len(s.reply_queue) :
          s.reply_queue[i] = [type |-> "DATA", n |-> n - Len(s.reply_queue) + i]

\* An end between two passes of session_loop, by itself.
EndOK(e, s, n) ==
    /\ s.end = e /\ ~s.recvnewkeys
    /\ Idle(s) \/ Begun(s) \/ Agreeing(e, s) \/ Switching(s)
    /\ s.donefirstkex = (s.trans.cli > 0) /\ s.donesecondkex = (s.trans.cli > 1)
    /\ s.theirs > 0 => s.strict_kex = mode.strict
    /\ s.theirs = 0 => s.recvseq = 0
    /\ QueueOK(s, n)
    /\ e = "client" => ClientOK(s)

\* Where e stands in its own stream, after making n data packets.
Owed(e, s) ==
    IF s.dataallowed \/ (e = "client" /\ (s.recvkexinit \/ (mode.follows /\ s.good)))
    THEN 0 ELSE 1
SendView(e, s, n) ==
    View(s.kexinits, s.trans.cli, Owed(e, s), s.trans, s.transseq, n - Len(s.reply_queue),
         IF e = "client" THEN s.param ELSE 0, IF e = "client" THEN NoKey ELSE s.newkey)

\* Where an end stands in the stream it reads, after l data packets.
Awaited(s) == IF ~s.recvkexinit \/ s.sentnewkeys THEN 0 ELSE IF s.ignorenext THEN 2 ELSE 1
RecvView(s, l, v) ==
    /\ v.k = s.theirs /\ v.t = s.recv.cli /\ v.togo = Awaited(s)
    /\ v.key = s.recv /\ v.seq = s.recvseq /\ v.n = l

\* The two ends are each other's peer.
LEMMA Peers == Peer("client") = "server" /\ Peer("server") = "client"
  BY DEF Peer, End

\* NoKey is the key of exchange 0.
LEMMA NoKeyType == NoKey \in Keys /\ NoKey.cli = 0
  BY DEF NoKey, Key, Keys

\* Where an end stands in its stream is a view.
LEMMA SendViewType ==
  ASSUME NEW e, NEW s \in Sessions, NEW n \in Nat, EndOK(e, s, n)
  PROVE  SendView(e, s, n) \in Views
<1>1. /\ s.kexinits \in Nat /\ s.trans \in Keys /\ s.trans.cli \in Nat /\ s.transseq \in Nat
      /\ s.param \in Nat /\ s.newkey \in Keys /\ s.reply_queue \in Seq(Messages)
  BY DEF Sessions, Keys
<1>2. n - Len(s.reply_queue) \in Nat
  <2>1. Len(s.reply_queue) \in Nat /\ Len(s.reply_queue) <= n
    BY <1>1, LenProperties DEF EndOK, QueueOK
  <2>2. QED
    BY <2>1
<1>3. s.trans.cli <= s.kexinits /\ s.kexinits <= s.trans.cli + 1
  <2>1. \/ s.trans.cli = s.kexinits \/ s.kexinits = s.trans.cli + 1
    BY DEF EndOK, Idle, Begun, Agreeing, Switching
  <2>2. QED
    BY <1>1, <2>1
<1>4. QED
  BY <1>1, <1>2, <1>3, NoKeyType DEF SendView, View, Views, Owed

-----------------------------------------------------------------------------
(***************************************************************************)
(* What the functions that send leave behind.  e has reached view v of its *)
(* stream when the packets of this pass lead from a, where the pass began, *)
(* to v, and the next packet takes the key and sequence number of v.       *)
(***************************************************************************)
At(e, s, a, v) ==
    v \in Views /\ Chain(e, s.out, a, v) /\ v.key = s.trans /\ v.seq = s.transseq

\* encrypt_packet changes the output and the sequence number only.
Sent(r, s) ==
    /\ r \in Sessions /\ SameId(r, s) /\ SameFlags(r, s) /\ SameRecv(r, s) /\ SameKeys(r, s)
    /\ r.trans = s.trans /\ r.kexinits = s.kexinits /\ r.param = s.param
    /\ r.reply_queue = s.reply_queue

\* encrypt_packet, when the packet may be sent, moves the end on in its stream.
LEMMA Encrypt ==
  ASSUME NEW e, NEW s \in Sessions, NEW m \in Messages,
         s.dataallowed \/ packet_is_okay_kex(m.type),
         NEW a, NEW v, NEW c \in Views, At(e, s, a, v), Moves(e, v, m, c),
         NEW r, r = encrypt_packet(s, m)
  PROVE  Sent(r, s) /\ r.transseq = s.transseq + 1 /\ Chain(e, r.out, a, c)
<1> DEFINE p == [msg |-> m, key |-> s.trans, seq |-> s.transseq]
<1>1. s.trans \in Keys /\ s.transseq \in Nat /\ s.out \in Seq(Packets) /\ s.transseq + 1 \in Nat
  BY DEF Sessions
<1>2. p \in Packets /\ p.msg = m /\ p.key = s.trans /\ p.seq = s.transseq
  BY <1>1 DEF Packets
<1>3. r = [s EXCEPT !.out = Append(s.out, p), !.transseq = s.transseq + 1]
  BY DEF encrypt_packet, Sessions
<1> HIDE DEF p
<1>4. Edge(e, v, p, c)
  BY <1>2 DEF Edge, At
<1>5. Chain(e, s.out, a, v)
  BY DEF At
<1>6. Chain(e, Append(s.out, p), a, c)
  BY <1>2, <1>4, <1>5, ChainAppend
<1>7. Append(s.out, p) \in Seq(Packets)
  BY <1>1, <1>2, AppendProperties
<1>8. PICK o, q : o = Append(s.out, p) /\ q = s.transseq + 1
  OBVIOUS
<1>9. PacketSentAs(r, s, o, q)
  BY <1>1, <1>3, <1>7, <1>8 DEF PacketSentAs
<1>10. PacketSentIs(r, s, o, q)
  BY <1>9, PacketSent
<1>11. QED
  BY <1>6, <1>8, <1>10 DEF Sent, PacketSentIs

\* maybe_flush_reply_queue, when there is nothing to wait for.
Flushed(r, s) ==
    /\ r \in Sessions /\ SameId(r, s) /\ SameFlags(r, s) /\ SameRecv(r, s) /\ SameKeys(r, s)
    /\ r.trans = s.trans /\ r.kexinits = s.kexinits /\ r.param = s.param
    /\ r.reply_queue = << >>

\* The queued data packets follow those sent before.
LEMMA Flush ==
  ASSUME NEW e, NEW s \in Sessions, NEW n \in Nat, s.dataallowed,
         Len(s.reply_queue) <= n,
         \A i \in 1..Len(s.reply_queue) :
           s.reply_queue[i] = [type |-> "DATA", n |-> n - Len(s.reply_queue) + i],
         NEW a, NEW v, At(e, s, a, v), v.k > 0, v.t = v.k, v.n = n - Len(s.reply_queue),
         NEW r, r = maybe_flush_reply_queue(s)
  PROVE  /\ Flushed(r, s)
         /\ Chain(e, r.out, a, View(v.k, v.t, v.togo, v.key, r.transseq, n, v.param, v.hash))
<1>0. v \in Views /\ Chain(e, s.out, a, v) /\ v.key = s.trans /\ v.seq = s.transseq
  BY DEF At
<1> DEFINE L == Len(s.reply_queue)
           P(i) == [msg |-> s.reply_queue[i], key |-> s.trans, seq |-> s.transseq + i - 1]
           x == [i \in DOMAIN s.reply_queue |-> P(i)]
           f == [i \in 0..L |-> View(v.k, v.t, v.togo, v.key, v.seq + i, v.n + i, v.param, v.hash)]
<1>1. /\ s.trans \in Keys /\ s.transseq \in Nat /\ s.out \in Seq(Packets)
      /\ s.reply_queue \in Seq(Messages)
  BY DEF Sessions
<1>2. L \in Nat /\ DOMAIN s.reply_queue = 1..L /\ \A i \in 1..L : s.reply_queue[i] \in Messages
  BY <1>1, LenProperties, ElementOfSeq
<1>3. \A i \in 1..L : P(i) \in Packets
  BY <1>1, <1>2 DEF Packets
<1>4. x \in Seq(Packets) /\ Len(x) = L /\ \A i \in 1..L : x[i] = P(i)
  <2>1. x = [i \in 1..L |-> P(i)]
    BY <1>2
  <2>2. x \in [1..L -> Packets]
    BY <1>3, <2>1
  <2>3. QED
    BY <1>2, <2>1, <2>2
<1>5. r
        = [s EXCEPT !.reply_queue = << >>, !.out = s.out \o x, !.transseq = s.transseq + L]
  BY DEF maybe_flush_reply_queue, Sessions
<1>6. ASSUME NEW i \in 0..L
      PROVE  View(v.k, v.t, v.togo, v.key, v.seq + i, v.n + i, v.param, v.hash) \in Views
  BY <1>0, <1>2, ViewType, SMTT(30) DEF View, Views
<1>7. f \in [0..L -> Views]
  BY <1>6
<1>8. ASSUME NEW i \in 1..L PROVE Edge(e, f[i - 1], x[i], f[i])
  <2>1. i - 1 \in 0..L /\ i \in 0..L
    BY <1>2
  <2>2. PICK b, c : /\ b = View(v.k, v.t, v.togo, v.key, v.seq + (i - 1), v.n + (i - 1), v.param, v.hash)
                    /\ c = View(v.k, v.t, v.togo, v.key, v.seq + i, v.n + i, v.param, v.hash)
    OBVIOUS
  <2>3. /\ b.k = v.k /\ b.t = v.t /\ b.togo = v.togo /\ b.key = v.key /\ b.seq = v.seq + (i - 1)
        /\ b.n = v.n + (i - 1) /\ b.param = v.param /\ b.hash = v.hash
        /\ c.k = v.k /\ c.t = v.t /\ c.togo = v.togo /\ c.key = v.key /\ c.seq = v.seq + i
        /\ c.n = v.n + i /\ c.param = v.param /\ c.hash = v.hash
    BY <2>2 DEF View
  <2>4. x[i].msg.type = "DATA" /\ x[i].msg.n = n - L + i /\ x[i].key = s.trans
        /\ x[i].seq = s.transseq + i - 1
    <3>1. PICK y : y = x[i]
      OBVIOUS
    <3>2. y = P(i)
      BY <1>4, <3>1
    <3>3. PICK m : m = s.reply_queue[i]
      OBVIOUS
    <3>4. m = [type |-> "DATA", n |-> n - L + i]
      BY <3>3
    <3>5. y.msg = m /\ y.key = s.trans /\ y.seq = s.transseq + i - 1
      BY <3>2, <3>3
    <3>6. m.type = "DATA" /\ m.n = n - L + i
      BY <3>4
    <3>7. QED
      BY <3>1, <3>5, <3>6
  <2>5. v.k \in Nat /\ v.seq \in Nat /\ v.n \in Nat
    BY <1>0, ViewType
  <2>6. /\ v.n + (i - 1) + 1 = n - L + i /\ v.seq + (i - 1) = s.transseq + i - 1
        /\ v.seq + (i - 1) + 1 = v.seq + i /\ v.n + (i - 1) + 1 = v.n + i
    BY <1>0, <1>1, <1>2, <2>5
  <2>7. Carries(b, x[i].msg, c)
    BY <2>3, <2>4, <2>6 DEF Carries
  <2>8. Edge(e, b, x[i], c)
    BY <1>0, <2>3, <2>4, <2>6, <2>7 DEF Edge, Moves
  <2>9. f[i - 1] = b /\ f[i] = c
    BY <2>1, <2>2
  <2>10. QED
    BY <2>8, <2>9
<1>9. Passes(e, x, f)
  BY <1>4, <1>7, <1>8 DEF Passes
<1> DEFINE c == View(v.k, v.t, v.togo, v.key, s.transseq + L, n, v.param, v.hash)
<1>10. f[0] = v /\ f[L] = c
  <2>1. v = View(v.k, v.t, v.togo, v.key, v.seq, v.n, v.param, v.hash)
    BY <1>0 DEF View, Views
  <2>2. v.seq + 0 = v.seq /\ v.n + 0 = v.n /\ v.n + L = n
    BY <1>0, <1>2, ViewType
  <2>3. 0 \in 0..L /\ L \in 0..L
    BY <1>2
  <2>4. QED
    BY <1>0, <2>1, <2>2, <2>3
<1>11. Chain(e, x, v, c)
  BY <1>4, <1>9, <1>10 DEF Chain
<1>12. Chain(e, s.out \o x, a, c)
  BY <1>0, <1>11, ChainConcat
<1>13. s.out \o x \in Seq(Packets) /\ s.transseq + L \in Nat
  BY <1>1, <1>2, <1>4, ConcatProperties
<1> HIDE DEF x, L, f
<1>14. PICK o, q : o = s.out \o x /\ q = s.transseq + L
  OBVIOUS
<1>15. QueueFlushedAs(r, s, o, q)
  BY <1>5, <1>13, <1>14 DEF QueueFlushedAs
<1>16. QueueFlushedIs(r, s, o, q)
  BY <1>15, QueueFlushed
<1>17. QED
  BY <1>12, <1>14, <1>16 DEF Flushed, QueueFlushedIs

\* send_msg_newkeys: the sending direction changes over to the new keys.
NewkeysOut(r, s) ==
    /\ r \in Sessions /\ SameRecv(r, s) /\ r.sentnewkeys /\ r.dataallowed /\ r.recvvalid /\ ~r.transvalid
    /\ r.donesecondkex = s.donefirstkex /\ r.donefirstkex = TRUE
    /\ r.trans = s.newkey /\ r.newkey = s.newkey /\ r.end = s.end
    /\ r.strict_kex = s.strict_kex /\ r.session_id = s.session_id
    /\ r.sentkexinit = s.sentkexinit /\ r.recvkexinit = s.recvkexinit
    /\ r.recvnewkeys = s.recvnewkeys /\ r.kexinits = s.kexinits /\ r.param = s.param
    /\ r.reply_queue = s.reply_queue /\ r.kex_state = s.kex_state

\* send_msg_newkeys moves the end on to the new key and, with strict kex, to
\* sequence number 0.
LEMMA SendNewkeys ==
  ASSUME NEW e, NEW s \in Sessions, NEW a, NEW v, At(e, s, a, v), v.k = s.kexinits,
         v.togo = 0, v.t < v.k, e = "server" => v.hash = s.newkey,
         s.newkey.cli = s.kexinits, s.strict_kex = mode.strict,
         s.sentkexinit, s.recvkexinit, ~s.recvnewkeys,
         NEW r, r = send_msg_newkeys(s)
  PROVE  /\ NewkeysOut(r, s)
         /\ Chain(e, r.out, a, View(v.k, v.k, 0, s.newkey, r.transseq, v.n, v.param, v.hash))
<1>0. v \in Views /\ v.key = s.trans /\ v.seq = s.transseq
  BY DEF At
<1>1. PICK m : m = [type |-> "NEWKEYS"]
  OBVIOUS
<1>2. PICK q : q = IF mode.strict THEN 0 ELSE s.transseq + 1
  OBVIOUS
<1>3. PICK c : c = View(v.k, v.k, 0, s.newkey, q, v.n, v.param, v.hash)
  OBVIOUS
<1>4. /\ s.transseq \in Nat /\ s.newkey \in Keys /\ q \in Nat /\ s.strict_kex \in BOOLEAN
      /\ v.k \in Nat /\ v.n \in Nat /\ v.param \in Nat /\ v.hash \in Keys /\ v.t \in Nat
  BY <1>0, <1>2, ViewType DEF Sessions
<1>5. c \in Views
  BY <1>3, <1>4 DEF View, Views
<1>6. Moves(e, v, m, c)
  <2>1. /\ c.k = v.k /\ c.t = v.k /\ c.togo = 0 /\ c.key = s.newkey /\ c.seq = q
        /\ c.n = v.n /\ c.param = v.param /\ c.hash = v.hash /\ m.type = "NEWKEYS"
    BY <1>1, <1>3 DEF View
  <2>2. Switches(e, v, m, c)
    BY <1>0, <1>2, <2>1 DEF Switches
  <2>3. QED
    BY <2>2 DEF Moves
<1>7. m \in Messages /\ packet_is_okay_kex(m.type)
  BY <1>1 DEF Messages, packet_is_okay_kex
<1>8. PICK y : y = encrypt_packet(s, m)
  OBVIOUS
<1>9. Sent(y, s) /\ y.transseq = s.transseq + 1 /\ Chain(e, y.out, a, c)
  BY <1>5, <1>6, <1>7, <1>8, Encrypt
<1>10. PICK x : x = [y EXCEPT !.sentnewkeys = TRUE, !.donesecondkex = y.donefirstkex,
                              !.donefirstkex = TRUE, !.dataallowed = TRUE,
                              !.transvalid = TRUE, !.recvvalid = TRUE]
  OBVIOUS
<1>11. y \in Sessions /\ y.newkey = s.newkey /\ y.sentkexinit /\ y.recvkexinit /\ ~y.recvnewkeys
       /\ y.out \in Seq(Packets) /\ y.transseq \in Nat
  BY <1>4, <1>9 DEF Sent, SameFlags, SameKeys, Chain
<1>12. /\ x.sentkexinit /\ x.recvkexinit /\ ~x.recvnewkeys /\ x.sentnewkeys /\ x.transvalid
       /\ x.newkey = s.newkey
  BY <1>10, <1>11 DEF Sessions
<1>13. PICK u : u = [x EXCEPT !.trans = s.newkey, !.transvalid = FALSE]
  OBVIOUS
<1>14. r = IF s.strict_kex THEN [u EXCEPT !.transseq = 0] ELSE u
  <2>1. r = IF s.strict_kex THEN [switch_keys(x) EXCEPT !.transseq = 0] ELSE switch_keys(x)
    BY <1>1, <1>8, <1>10 DEF send_msg_newkeys
  <2>2. switch_keys(x) = u
    BY <1>12, <1>13 DEF switch_keys
  <2>3. QED
    BY <2>1, <2>2
<1>15. NewkeysOut(u, y) /\ u.out = y.out /\ u.transseq = y.transseq
  <2>1. NewkeysSentAs(u, y)
    BY <1>10, <1>11, <1>13, ZenonT(60) DEF Sessions, NewkeysSentAs
  <2>2. NewkeysSentIs(u, y)
    BY <2>1, NewkeysSent
  <2>3. QED
    BY <2>2 DEF NewkeysOut, NewkeysSentIs
<1>16. NewkeysOut(r, y) /\ r.out = y.out /\ r.transseq = q
  <2>1. CASE mode.strict
    <3>1. r = [u EXCEPT !.transseq = 0] /\ q = 0
      BY <1>2, <1>4, <1>14, <2>1
    <3>2. u \in Sessions
      BY <1>15 DEF NewkeysOut
    <3>3. SequenceResetAs(r, u, q)
      BY <3>1, <3>2 DEF SequenceResetAs
    <3>4. SequenceResetIs(r, u, q)
      BY <3>3, SequenceReset
    <3>5. QED
      BY <1>15, <3>4 DEF NewkeysOut, SequenceResetIs, SameId, SameFlags, SameRecv, SameKeys
  <2>2. CASE ~mode.strict
    <3>1. r = u /\ q = y.transseq
      BY <1>2, <1>4, <1>9, <1>14, <2>2
    <3>2. QED
      BY <1>15, <3>1
  <2>3. QED
    BY <2>1, <2>2
<1>17. NewkeysOut(r, s)
  BY <1>9, <1>16 DEF NewkeysOut, Sent, SameId, SameRecv, SameFlags, SameKeys
<1>18. QED
  BY <1>3, <1>9, <1>16, <1>17

\* send_msg_kexdh_init: a DH value and a packet.
DhOut(r, s) ==
    /\ r \in Sessions /\ SameId(r, s) /\ SameFlags(r, s) /\ SameRecv(r, s) /\ SameKeys(r, s)
    /\ r.trans = s.trans /\ r.kexinits = s.kexinits /\ r.reply_queue = s.reply_queue

\* send_msg_kexdh_init sends one of the DH messages that are owed.
LEMMA SendKexdhInit ==
  ASSUME NEW s \in Sessions, NEW a, NEW v, At("client", s, a, v), v.togo > 0,
         NEW r, r = send_msg_kexdh_init(s)
  PROVE  /\ DhOut(r, s)
         /\ Chain("client", r.out, a,
                  View(v.k, v.t, v.togo - 1, v.key, r.transseq, v.n, r.param, v.hash))
<1>0. v \in Views /\ v.key = s.trans /\ v.seq = s.transseq
  BY DEF At
<1>1. PICK p : p = s.param + 1
  OBVIOUS
<1>2. PICK m : m = [type |-> "KEXDH_INIT", param |-> p]
  OBVIOUS
<1>3. PICK c : c = View(v.k, v.t, v.togo - 1, v.key, s.transseq + 1, v.n, p, v.hash)
  OBVIOUS
<1>4. /\ s.transseq \in Nat /\ p \in Nat
      /\ v.k \in Nat /\ v.n \in Nat /\ v.param \in Nat /\ v.hash \in Keys /\ v.t \in Nat
      /\ v.togo \in Nat /\ v.key \in Keys /\ v.t <= v.k /\ v.k <= v.t + 1 /\ v.key.cli = v.t
  BY <1>0, <1>1, ViewType DEF Sessions
<1>5. c \in Views
  BY <1>3, <1>4 DEF View, Views
<1>6. Moves("client", v, m, c)
  <2>1. Exchanges("client", v, m, c)
    BY <1>0, <1>2, <1>3, <1>4 DEF Exchanges, View, DH
  <2>2. QED
    BY <2>1 DEF Moves
<1>7. m \in Messages /\ packet_is_okay_kex(m.type)
  BY <1>2, <1>4 DEF Messages, packet_is_okay_kex
<1>8. PICK u : u = [s EXCEPT !.param = p]
  OBVIOUS
<1>9. /\ u \in Sessions /\ u.out = s.out /\ u.trans = s.trans /\ u.transseq = s.transseq
      /\ u.param = p
  BY <1>4, <1>8, ZenonT(60) DEF Sessions
<1>10. r = encrypt_packet(u, m)
  BY <1>1, <1>2, <1>8 DEF send_msg_kexdh_init
<1>11. At("client", u, a, v)
  BY <1>9 DEF At
<1>12. Sent(r, u) /\ r.transseq = u.transseq + 1 /\ Chain("client", r.out, a, c)
  BY <1>5, <1>6, <1>7, <1>9, <1>10, <1>11, Encrypt
<1>13. DhOut(u, s)
  BY <1>8, <1>9 DEF DhOut, Sessions, SameId, SameFlags, SameRecv, SameKeys
<1>14. DhOut(r, s)
  BY <1>12, <1>13 DEF DhOut, Sent, SameId, SameFlags, SameRecv, SameKeys
<1>15. r.param = p /\ r.transseq = s.transseq + 1
  BY <1>9, <1>12 DEF Sent
<1>16. QED
  BY <1>3, <1>12, <1>14, <1>15

\* Whether e sends a guess with its KEXINIT.
Guessing(e) == e = "client" /\ mode.follows
\* send_msg_kexinit.
KexinitSent(r, s, good) ==
    /\ r \in Sessions /\ SameId(r, s) /\ SameRecv(r, s)
    /\ r.dataallowed = FALSE /\ r.sentkexinit = TRUE /\ r.good = good
    /\ r.kexinits = s.kexinits + 1
    /\ r.recvkexinit = s.recvkexinit /\ r.sentnewkeys = s.sentnewkeys
    /\ r.recvnewkeys = s.recvnewkeys
    /\ r.our_first_follows_matches = s.our_first_follows_matches
    /\ r.trans = s.trans /\ r.reply_queue = s.reply_queue /\ r.newkey = s.newkey
    /\ r.kex_state = s.kex_state

\* send_msg_kexinit opens an exchange; with a right guess no DH message is owed.
LEMMA SendKexinit ==
  ASSUME NEW e \in End, NEW s \in Sessions, s.end = e, s.dataallowed, NEW good \in BOOLEAN,
         NEW a, NEW v, At(e, s, a, v),
         v.k = s.kexinits, v.t = v.k, e = "client" => v.param = s.param,
         mode.follows \in BOOLEAN, NEW r, r = send_msg_kexinit(s, good)
  PROVE  /\ KexinitSent(r, s, good)
         /\ Chain(e, r.out, a,
                  View(r.kexinits, v.t, IF Guessing(e) /\ good THEN 0 ELSE 1, v.key,
                       r.transseq, v.n, IF e = "client" THEN r.param ELSE v.param, v.hash))
<1>0. v \in Views /\ v.key = s.trans /\ v.seq = s.transseq
  BY DEF At
<1>1. PICK k : k = s.kexinits + 1
  OBVIOUS
<1>2. PICK m : m = [type |-> "KEXINIT", id |-> k, follows |-> Guessing(e), good |-> good]
  OBVIOUS
<1>3. PICK c : c = View(k, v.t, IF Guessing(e) /\ ~good THEN 2 ELSE 1, v.key,
                        s.transseq + 1, v.n, v.param, v.hash)
  OBVIOUS
<1>4. /\ s.transseq \in Nat /\ s.param \in Nat /\ s.kexinits \in Nat /\ k \in Nat
      /\ v.k \in Nat /\ v.n \in Nat /\ v.param \in Nat /\ v.hash \in Keys /\ v.t \in Nat
      /\ v.togo \in Nat /\ v.key \in Keys /\ v.key.cli = v.t /\ Guessing(e) \in BOOLEAN
      /\ v.seq = s.transseq
  BY <1>0, <1>1, ViewType DEF Sessions, Guessing
<1>5. c \in Views
  BY <1>1, <1>3, <1>4 DEF View, Views
<1>6. /\ c.k = k /\ c.t = v.t /\ c.togo = (IF Guessing(e) /\ ~good THEN 2 ELSE 1)
      /\ c.key = s.trans /\ c.seq = s.transseq + 1 /\ c.n = v.n /\ c.param = v.param /\ c.hash = v.hash
  BY <1>0, <1>3 DEF View
<1>7. Moves(e, v, m, c)
  <2>1. m.type = "KEXINIT" /\ m.id = k /\ m.follows = Guessing(e) /\ m.good = good
    BY <1>2
  <2>2. e = "server" => ~m.follows
    BY <2>1 DEF Guessing
  <2>3. Begins(e, v, m, c)
    BY <1>0, <1>1, <1>4, <1>6, <2>1, <2>2 DEF Begins
  <2>4. QED
    BY <2>3 DEF Moves
<1>8. m \in Messages
  BY <1>2, <1>4 DEF Messages
<1>9. PICK y : y = encrypt_packet(s, m)
  OBVIOUS
<1>10. Sent(y, s) /\ y.transseq = s.transseq + 1 /\ Chain(e, y.out, a, c)
  BY <1>5, <1>7, <1>8, <1>9, Encrypt
<1>11. PICK u : u = [y EXCEPT !.dataallowed = FALSE,
                              !.sentkexinit = TRUE, !.good = good, !.kexinits = k,
                              !.transvalid = FALSE, !.recvvalid = FALSE]
  OBVIOUS
<1>12. y \in Sessions /\ y.kexinits = s.kexinits
  BY <1>10 DEF Sent
<1>13. r = IF Guessing(e) THEN send_msg_kexdh_init(u) ELSE u
  BY <1>1, <1>2, <1>9, <1>11, <1>12 DEF send_msg_kexinit, Guessing
<1>14. KexinitOutIs(u, y, good, k)
  <2>1. KexinitOutAs(u, y, good, k)
    BY <1>4, <1>11, <1>12 DEF KexinitOutAs
  <2>2. QED
    BY <2>1, KexinitOut
<1>15. KexinitSent(u, y, good) /\ u.out = y.out /\ u.transseq = y.transseq /\ u.param = y.param
  BY <1>1, <1>12, <1>14 DEF KexinitOutIs, KexinitSent
<1>16. KexinitSent(u, s, good) /\ u.param = s.param
  BY <1>10, <1>15 DEF KexinitSent, Sent, SameId, SameRecv, SameFlags, SameKeys
<1>17. CASE Guessing(e)
  <2>1. e = "client"
    BY <1>17 DEF Guessing
  <2>2. u \in Sessions /\ u.trans = s.trans
    BY <1>16 DEF KexinitSent
  <2>3. At("client", u, a, c) /\ c.togo > 0
    BY <1>5, <1>6, <1>10, <1>15, <1>16, <2>1, <2>2 DEF At
  <2>4. r = send_msg_kexdh_init(u)
    BY <1>13, <1>17
  <2>5. /\ DhOut(r, u)
        /\ Chain("client", r.out, a, View(c.k, c.t, c.togo - 1, c.key, r.transseq, c.n, r.param, c.hash))
    BY <2>2, <2>3, <2>4, SendKexdhInit
  <2>6. c.togo - 1 = (IF Guessing(e) /\ good THEN 0 ELSE 1)
    BY <1>6, <1>17
  <2>7. KexinitSent(r, s, good)
    BY <1>16, <2>5 DEF KexinitSent, DhOut, SameId, SameFlags, SameRecv, SameKeys
  <2>8. r.kexinits = k
    BY <1>1, <2>7 DEF KexinitSent
  <2>9. View(c.k, c.t, c.togo - 1, c.key, r.transseq, c.n, r.param, c.hash)
          = View(r.kexinits, v.t, IF Guessing(e) /\ good THEN 0 ELSE 1, v.key,
                 r.transseq, v.n, IF e = "client" THEN r.param ELSE v.param, v.hash)
    BY <1>0, <1>6, <2>1, <2>6, <2>8
  <2>10. QED
    BY <2>1, <2>5, <2>7, <2>9
<1>18. CASE ~Guessing(e)
  <2>1. r = u
    BY <1>13, <1>18
  <2>2. r.kexinits = k
    BY <1>1, <1>16, <2>1 DEF KexinitSent
  <2>3. c = View(r.kexinits, v.t, IF Guessing(e) /\ good THEN 0 ELSE 1, v.key,
                 r.transseq, v.n, IF e = "client" THEN r.param ELSE v.param, v.hash)
    BY <1>3, <1>10, <1>15, <1>16, <1>18, <2>1, <2>2
  <2>4. QED
    BY <1>10, <1>15, <1>16, <2>1, <2>3
<1>19. QED
  BY <1>17, <1>18

-----------------------------------------------------------------------------
(***************************************************************************)
(* A pass of session_loop, one lemma for each way it can go.               *)
(***************************************************************************)
\* The packet decrypts and is the one expected.
Expected(s, pkt) ==
    /\ s \in Sessions /\ pkt \in Packets /\ pkt.key = s.recv /\ pkt.seq = s.recvseq
    /\ s.requirenext \in {"any", pkt.msg.type}

\* No end has a reason to send UNIMPLEMENTED.
LEMMA MessageType ==
  ASSUME NEW m \in Messages
  PROVE  m.type \in Types /\ m.type # "UNIMPLEMENTED"
  BY DEF Messages, Types

\* A packet that is expected is dispatched.
LEMMA ReadPacket ==
  ASSUME NEW s, NEW pkt, Expected(s, pkt), ~s.ignorenext, NEW good
  PROVE  \E u : /\ PacketTakenIs(u, s, s.recvseq + 1)
                /\ read_packet(s, pkt, good)
                     = [Dispatch(u, pkt.msg, good) EXCEPT !.lastpacket = pkt.msg.type]
<1>1. PICK q : q = s.recvseq + 1
  OBVIOUS
<1>2. /\ s \in Sessions /\ s.recvseq \in Nat /\ q \in Nat /\ s.ignorenext \in BOOLEAN
      /\ pkt.key = s.recv /\ pkt.seq = s.recvseq /\ s.requirenext \in {"any", pkt.msg.type}
      /\ pkt.msg.type \in Types /\ pkt.msg.type # "UNIMPLEMENTED"
  BY <1>1, MessageType DEF Expected, Sessions, Packets
<1>3. PICK x : x = [s EXCEPT !.recvseq = q]
  OBVIOUS
<1>4. PICK u : u = [s EXCEPT !.recvseq = q, !.requirenext = "any"]
  OBVIOUS
<1>5. PacketTakenIs(u, s, q)
  <2>1. PacketTakenAs(u, s, q)
    BY <1>2, <1>4 DEF PacketTakenAs
  <2>2. QED
    BY <2>1, PacketTaken
<1>6. x.requirenext = s.requirenext /\ x.ignorenext = s.ignorenext
  BY <1>2, <1>3 DEF Sessions
<1>7. [x EXCEPT !.requirenext = "any"] = u
  BY <1>3, <1>4
<1>8. process_packet(x, pkt.msg, good) = Dispatch(u, pkt.msg, good)
  BY <1>2, <1>6, <1>7 DEF process_packet
<1>9. read_packet(s, pkt, good)
        = [process_packet(x, pkt.msg, good) EXCEPT !.lastpacket = pkt.msg.type]
  BY <1>1, <1>2, <1>3 DEF read_packet
<1>10. QED
  BY <1>1, <1>5, <1>8, <1>9

\* A packet that follows a wrong guess is read and skipped.
LEMMA ReadIgnored ==
  ASSUME NEW s, NEW pkt, Expected(s, pkt), s.ignorenext, NEW good
  PROVE  \E u : /\ GuessIgnoredIs(u, s, s.recvseq + 1)
                /\ read_packet(s, pkt, good) = [u EXCEPT !.lastpacket = pkt.msg.type]
<1>1. PICK q : q = s.recvseq + 1
  OBVIOUS
<1>2. /\ s \in Sessions /\ s.recvseq \in Nat /\ q \in Nat /\ s.ignorenext \in BOOLEAN
      /\ pkt.key = s.recv /\ pkt.seq = s.recvseq /\ s.requirenext \in {"any", pkt.msg.type}
      /\ pkt.msg.type \in Types /\ pkt.msg.type # "UNIMPLEMENTED"
  BY <1>1, MessageType DEF Expected, Sessions, Packets
<1>3. PICK x : x = [s EXCEPT !.recvseq = q]
  OBVIOUS
<1>4. PICK u : u = [s EXCEPT !.recvseq = q, !.ignorenext = FALSE]
  OBVIOUS
<1>5. GuessIgnoredIs(u, s, q)
  <2>1. GuessIgnoredAs(u, s, q)
    BY <1>2, <1>4 DEF GuessIgnoredAs
  <2>2. QED
    BY <2>1, GuessIgnored
<1>6. x.requirenext = s.requirenext /\ x.ignorenext = s.ignorenext
  BY <1>2, <1>3 DEF Sessions
<1>7. [x EXCEPT !.ignorenext = FALSE] = u
  BY <1>3, <1>4
<1>8. process_packet(x, pkt.msg, good) = u
  BY <1>2, <1>6, <1>7 DEF process_packet
<1>9. read_packet(s, pkt, good)
        = [process_packet(x, pkt.msg, good) EXCEPT !.lastpacket = pkt.msg.type]
  BY <1>1, <1>2, <1>3 DEF read_packet
<1>10. QED
  BY <1>1, <1>5, <1>8, <1>9

\* The build options are Boolean, as KexAssumption says.
ModeOK == mode.follows \in BOOLEAN /\ mode.strict \in BOOLEAN

\* The fields of the view at which an end stands.
LEMMA SendViewFields ==
  ASSUME NEW e, NEW s, NEW n, NEW v, v = SendView(e, s, n)
  PROVE  /\ v.k = s.kexinits /\ v.t = s.trans.cli /\ v.togo = Owed(e, s) /\ v.key = s.trans
         /\ v.seq = s.transseq /\ v.n = n - Len(s.reply_queue)
         /\ v.param = (IF e = "client" THEN s.param ELSE 0)
         /\ v.hash = (IF e = "client" THEN NoKey ELSE s.newkey)
  BY DEF SendView, View

\* u may answer a KEXINIT: its own is out, or it sends one now.
Opening(e, u, n) ==
    /\ u \in Sessions /\ u.end = e /\ u.out = << >> /\ SendView(e, u, n) \in Views
    /\ ~u.recvkexinit /\ u.sentkexinit = ~u.dataallowed
    /\ ~u.sentkexinit => u.kexinits = u.trans.cli
\* Its own KEXINIT is out.
Opened(e, y, u, n) ==
    /\ y \in Sessions /\ SameId(y, u) /\ SameRecv(y, u)
    /\ y.dataallowed = FALSE /\ y.sentkexinit = TRUE /\ y.recvkexinit = FALSE
    /\ y.sentnewkeys = u.sentnewkeys /\ y.recvnewkeys = u.recvnewkeys
    /\ y.our_first_follows_matches = u.our_first_follows_matches
    /\ y.trans = u.trans /\ y.reply_queue = u.reply_queue /\ y.newkey = u.newkey
    /\ y.kex_state = u.kex_state
    /\ IF u.sentkexinit THEN y = u ELSE y.kexinits = u.kexinits + 1
    /\ Chain(e, y.out, SendView(e, u, n), SendView(e, y, n))

\* A pass starts where the last one ended.
LEMMA AtStart ==
  ASSUME NEW e, NEW s, NEW n, s.out = << >>, SendView(e, s, n) \in Views
  PROVE  At(e, s, SendView(e, s, n), SendView(e, s, n))
<1>1. PICK v : v = SendView(e, s, n)
  OBVIOUS
<1>2. v \in Views /\ v.key = s.trans /\ v.seq = s.transseq
  BY <1>1, SendViewFields
<1>3. Chain(e, s.out, v, v)
  BY <1>2, ChainEmpty
<1>4. QED
  BY <1>1, <1>2, <1>3 DEF At

\* recv_msg_kexinit sends our KEXINIT unless it is out.
LEMMA Open ==
  ASSUME NEW e \in End, NEW u, NEW n, Opening(e, u, n), ModeOK, NEW good \in BOOLEAN,
         NEW y, y = IF u.sentkexinit THEN u ELSE send_msg_kexinit(u, good)
  PROVE  Opened(e, y, u, n)
<1>1. /\ u \in Sessions /\ u.end = e /\ ~u.recvkexinit /\ u.sentkexinit = ~u.dataallowed
      /\ u.sentkexinit \in BOOLEAN /\ u.recvkexinit \in BOOLEAN /\ u.dataallowed \in BOOLEAN
      /\ ~u.sentkexinit => u.kexinits = u.trans.cli
  BY DEF Opening, Sessions
<1>2. PICK a : a = SendView(e, u, n)
  OBVIOUS
<1>3. At(e, u, a, a)
  BY <1>2, AtStart DEF Opening
<1>4. CASE u.sentkexinit
  <2>1. y = u /\ Chain(e, y.out, a, a)
    BY <1>3, <1>4 DEF At
  <2>2. QED
    BY <1>1, <1>2, <1>4, <2>1 DEF Opened, SameId, SameRecv
<1>5. CASE ~u.sentkexinit
  <2>1. y = send_msg_kexinit(u, good)
    BY <1>5
  <2>2. /\ a.k = u.kexinits /\ a.t = u.trans.cli /\ a.key = u.trans
        /\ a.n = n - Len(u.reply_queue) /\ a.param = (IF e = "client" THEN u.param ELSE 0)
        /\ a.hash = (IF e = "client" THEN NoKey ELSE u.newkey)
    BY <1>2, SendViewFields
  <2>3. u.dataallowed /\ a.t = a.k /\ (e = "client" => a.param = u.param) /\ mode.follows \in BOOLEAN
    BY <1>1, <1>5, <2>2 DEF ModeOK
  <2>4. /\ KexinitSent(y, u, good)
        /\ Chain(e, y.out, a,
                 View(y.kexinits, a.t, IF Guessing(e) /\ good THEN 0 ELSE 1, a.key,
                      y.transseq, a.n, IF e = "client" THEN y.param ELSE a.param, a.hash))
    BY <1>1, <1>3, <2>1, <2>2, <2>3, SendKexinit
  <2>5. Owed(e, y) = IF Guessing(e) /\ good THEN 0 ELSE 1
    BY <1>1, <2>4 DEF Owed, KexinitSent, Guessing
  <2>6. View(y.kexinits, a.t, IF Guessing(e) /\ good THEN 0 ELSE 1, a.key,
             y.transseq, a.n, IF e = "client" THEN y.param ELSE a.param, a.hash)
          = SendView(e, y, n)
    <3>1. /\ y.trans = u.trans /\ y.reply_queue = u.reply_queue /\ y.newkey = u.newkey
      BY <2>4 DEF KexinitSent
    <3>2. QED
      BY <2>2, <2>5, <3>1 DEF SendView
  <2>7. Chain(e, y.out, SendView(e, u, n), SendView(e, y, n))
    BY <1>2, <2>4, <2>6
  <2>8. QED
    BY <1>1, <1>5, <2>4, <2>7 DEF Opened, KexinitSent
<1>6. QED
  BY <1>1, <1>4, <1>5

\* The fields of a KEXINIT.
LEMMA KexinitMessage ==
  ASSUME NEW m \in Messages, m.type = "KEXINIT"
  PROVE  m.id \in Nat /\ m.follows \in BOOLEAN /\ m.good \in BOOLEAN
  BY DEF Messages

\* recv_msg_kexinit does not fail: the KEXINIT is the first of its exchange and, at
\* the first one with strict kex, the first packet.
LEMMA HandleKexinit ==
  ASSUME NEW e \in End, NEW u, NEW n, Opening(e, u, n), ModeOK, NEW good \in BOOLEAN,
         u.donefirstkex \/ u.recvseq = 1, NEW m \in Messages, m.type = "KEXINIT",
         NEW x, x = recv_msg_kexinit(u, m, good)
  PROVE  \E y, t, i, f :
           /\ Opened(e, y, u, n) /\ KexinitTakenIs(x, y, t, i, f, DH(Peer(e)), m.id)
           /\ t = (IF u.donefirstkex THEN u.strict_kex ELSE mode.strict)
           /\ i = (u.ignorenext \/ (m.follows /\ ~m.good))
           /\ f = (u.our_first_follows_matches \/ (Guessing(e) /\ y.good))
<1>1. /\ u \in Sessions /\ u.end = e /\ u.ignorenext \in BOOLEAN /\ u.strict_kex \in BOOLEAN
      /\ u.our_first_follows_matches \in BOOLEAN /\ u.donefirstkex \in BOOLEAN
      /\ mode.strict \in BOOLEAN /\ mode.follows \in BOOLEAN
  BY DEF Opening, Sessions, ModeOK
<1>2. m.id \in Nat /\ m.follows \in BOOLEAN /\ m.good \in BOOLEAN
  BY KexinitMessage
<1>3. PICK y : y = IF u.sentkexinit THEN u ELSE send_msg_kexinit(u, good)
  OBVIOUS
<1>4. Opened(e, y, u, n)
  BY <1>3, Open
<1>5. /\ y \in Sessions /\ y.good \in BOOLEAN /\ y.recvkexinit = FALSE
      /\ y.strict_kex = u.strict_kex /\ y.ignorenext = u.ignorenext
      /\ y.our_first_follows_matches = u.our_first_follows_matches
  BY <1>4 DEF Opened, Sessions, SameId, SameRecv
<1>6. PICK t, i, f, k, d :
           /\ t = (IF u.donefirstkex THEN u.strict_kex ELSE mode.strict)
           /\ i = (u.ignorenext \/ (m.follows /\ ~m.good))
           /\ f = (u.our_first_follows_matches \/ (Guessing(e) /\ y.good))
           /\ k = m.id
           /\ d = DH(Peer(e))
  OBVIOUS
<1>7. d = IF e = "client" THEN "KEXDH_REPLY" ELSE "KEXDH_INIT"
  BY <1>6, Peers DEF DH, End
<1>8. PICK z : z = [y EXCEPT !.strict_kex = t, !.ignorenext = i, !.our_first_follows_matches = f,
                             !.requirenext = d, !.recvkexinit = TRUE, !.theirs = k,
                             !.transvalid = FALSE, !.recvvalid = FALSE]
  OBVIOUS
<1>9. /\ t \in BOOLEAN /\ i \in BOOLEAN /\ f \in BOOLEAN /\ k \in Nat /\ d \in Types \cup {"any"}
  BY <1>1, <1>2, <1>5, <1>6, <1>7 DEF Types, Guessing
<1>10. KexinitTakenIs(z, y, t, i, f, d, k)
  <2>1. KexinitTakenAs(z, y, t, i, f, d, k)
    BY <1>5, <1>8, <1>9 DEF KexinitTakenAs
  <2>2. QED
    BY <2>1, KexinitTaken
<1>11. x = z
  <2> DEFINE w == [y EXCEPT
                 !.strict_kex = IF u.donefirstkex THEN @ ELSE mode.strict,
                 !.ignorenext = @ \/ (m.follows /\ ~m.good),
                 !.our_first_follows_matches = @ \/ (u.end = "client" /\ mode.follows /\ y.good),
                 !.requirenext = IF u.end = "client" THEN "KEXDH_REPLY" ELSE "KEXDH_INIT",
                 !.recvkexinit = TRUE, !.theirs = m.id,
                 !.transvalid = FALSE, !.recvvalid = FALSE]
  <2>1. w = z
    BY <1>1, <1>5, <1>6, <1>7, <1>8 DEF Guessing
  <2>2. x = IF y.recvkexinit THEN Die(y, "unexpected kexinit")
            ELSE IF w.strict_kex /\ ~u.donefirstkex /\ u.recvseq # 1
            THEN Die(w, "first packet was not kexinit") ELSE w
    BY <1>3, ZenonT(60) DEF recv_msg_kexinit
  <2> HIDE DEF w
  <2>3. QED
    BY <1>5, <2>1, <2>2
<1>12. QED
  BY <1>4, <1>6, <1>10, <1>11

\* The view at which an end stands depends on what it sends only.
LEMMA SendViewSame ==
  ASSUME NEW e, NEW s, NEW u, NEW n, SameFlags(u, s), SameSend(u, s), u.newkey = s.newkey
  PROVE  SendView(e, u, n) = SendView(e, s, n)
<1>1. Owed(e, u) = Owed(e, s)
  BY DEF Owed, SameFlags
<1>2. QED
  BY <1>1 DEF SendView, SameSend

\* The pass of e from s, with n data packets made before and m after it, ends
\* in r.
Pass(e, s, n, r, m) ==
    /\ r \in Sessions /\ EndOK(e, r, m)
    /\ Chain(e, r.out, SendView(e, s, n), SendView(e, r, m))

\* The same before it: e is at rest between two passes.
Ready(e, s, n) == s \in Sessions /\ n \in Nat /\ EndOK(e, s, n) /\ s.out = << >> /\ ModeOK

\* A KEXINIT has been read, and answered if ours was not out.
Answered(e, s, n, m, r) ==
    /\ r \in Sessions /\ r.end = e /\ Agreeing(e, r) /\ ~r.recvnewkeys
    /\ r.trans = s.trans /\ r.recv = s.recv /\ r.newkey = s.newkey
    /\ r.session_id = s.session_id /\ r.reply_queue = s.reply_queue
    /\ r.donefirstkex = s.donefirstkex /\ r.donesecondkex = s.donesecondkex
    /\ r.strict_kex = mode.strict /\ r.recvseq = s.recvseq + 1 /\ r.theirs = m.id
    /\ r.ignorenext = (m.follows /\ ~m.good) /\ r.lastpacket = "KEXINIT"
    /\ r.kex_state = s.kex_state /\ r.our_first_follows_matches = (Guessing(e) /\ r.good)
    /\ IF s.sentkexinit THEN r.kexinits = s.kexinits /\ r.param = s.param /\ r.good = s.good
       ELSE r.kexinits = s.kexinits + 1
    /\ Chain(e, r.out, SendView(e, s, n),
             View(r.kexinits, r.trans.cli, IF Guessing(e) /\ r.good THEN 0 ELSE 1, r.trans,
                  r.transseq, n - Len(r.reply_queue), IF e = "client" THEN r.param ELSE 0,
                  IF e = "client" THEN NoKey ELSE r.newkey))

\* read_packet with a KEXINIT.
LEMMA ReadKexinit ==
  ASSUME NEW e \in End, NEW s, NEW n, Ready(e, s, n), Idle(s) \/ Begun(s),
         NEW pkt, Expected(s, pkt), NEW m, m = pkt.msg, m.type = "KEXINIT",
         m.id = s.trans.cli + 1, e = "client" => ~m.follows,
         NEW good \in BOOLEAN, NEW r, r = read_packet(s, pkt, good)
  PROVE  Answered(e, s, n, m, r)
<1>1. s \in Sessions /\ n \in Nat /\ EndOK(e, s, n) /\ s.out = << >> /\ ModeOK
  BY DEF Ready
<1>2. m \in Messages
  BY DEF Expected, Packets
<1>3. m.id \in Nat /\ m.follows \in BOOLEAN /\ m.good \in BOOLEAN
  BY <1>2, KexinitMessage
<1>4. /\ s.end = e /\ ~s.recvnewkeys /\ ~s.recvkexinit /\ ~s.sentnewkeys /\ ~s.ignorenext
      /\ s.recv.cli = s.trans.cli /\ s.sentkexinit = ~s.dataallowed
      /\ s.kexinits = (IF s.sentkexinit THEN s.trans.cli + 1 ELSE s.trans.cli)
      /\ s.donefirstkex = (s.trans.cli > 0) /\ s.theirs = s.trans.cli
      /\ s.theirs > 0 => s.strict_kex = mode.strict
      /\ s.theirs = 0 => s.recvseq = 0
      /\ ~s.our_first_follows_matches
  BY <1>1 DEF EndOK, Idle, Begun, Sessions
<1>5. /\ s.trans.cli \in Nat /\ s.recvseq \in Nat /\ s.sentkexinit \in BOOLEAN
      /\ s.ignorenext \in BOOLEAN /\ s.our_first_follows_matches \in BOOLEAN
      /\ s.donefirstkex \in BOOLEAN /\ s.strict_kex \in BOOLEAN
  BY <1>1 DEF Sessions, Keys
<1>6. PICK u : /\ PacketTakenIs(u, s, s.recvseq + 1)
               /\ r = [Dispatch(u, m, good) EXCEPT !.lastpacket = m.type]
  BY <1>4, ReadPacket
<1>7. /\ u \in Sessions /\ SameFlags(u, s) /\ SameSend(u, s) /\ u.newkey = s.newkey
      /\ u.end = s.end /\ u.donefirstkex = s.donefirstkex /\ u.recvseq = s.recvseq + 1
      /\ u.strict_kex = s.strict_kex /\ u.ignorenext = s.ignorenext
      /\ u.our_first_follows_matches = s.our_first_follows_matches
  BY <1>6 DEF PacketTakenIs, SameId, SameKeys, SameFlags
<1>8. SendView(e, u, n) = SendView(e, s, n) /\ SendView(e, s, n) \in Views
  BY <1>1, <1>7, SendViewSame, SendViewType
<1>9. Opening(e, u, n)
  <2>1. /\ u.out = s.out /\ u.recvkexinit = s.recvkexinit /\ u.sentkexinit = s.sentkexinit
        /\ u.dataallowed = s.dataallowed /\ u.kexinits = s.kexinits /\ u.trans = s.trans
    BY <1>7 DEF SameFlags, SameSend
  <2>2. QED
    BY <1>1, <1>4, <1>5, <1>7, <1>8, <2>1 DEF Opening
<1>10. PICK x : x = recv_msg_kexinit(u, m, good)
  OBVIOUS
<1>11. u.donefirstkex \/ u.recvseq = 1
  <2>1. CASE s.trans.cli = 0
    <3>1. s.recvseq = 0
      BY <1>4, <2>1
    <3>2. QED
      BY <1>7, <3>1
  <2>2. CASE s.trans.cli # 0
    <3>1. s.trans.cli > 0
      BY <1>5, <2>2
    <3>2. s.donefirstkex
      BY <1>4, <3>1
    <3>3. QED
      BY <1>7, <3>2
  <2>3. QED
    BY <2>1, <2>2
<1>12. PICK y, t, i, f :
           /\ Opened(e, y, u, n) /\ KexinitTakenIs(x, y, t, i, f, DH(Peer(e)), m.id)
           /\ t = (IF u.donefirstkex THEN u.strict_kex ELSE mode.strict)
           /\ i = (u.ignorenext \/ (m.follows /\ ~m.good))
           /\ f = (u.our_first_follows_matches \/ (Guessing(e) /\ y.good))
  BY <1>1, <1>2, <1>9, <1>10, <1>11, HandleKexinit
<1>13. PacketDoneIs(r, x, "KEXINIT")
  <2>1. r = [x EXCEPT !.lastpacket = "KEXINIT"]
    BY <1>6, <1>10 DEF Dispatch
  <2>2. x \in Sessions /\ "KEXINIT" \in Types \cup {"none"}
    BY <1>12 DEF KexinitTakenIs, Types
  <2>3. PacketDoneAs(r, x, "KEXINIT")
    BY <2>1, <2>2 DEF PacketDoneAs
  <2>4. QED
    BY <2>3, PacketDone
<1>14. t = mode.strict /\ i = (m.follows /\ ~m.good) /\ f = (Guessing(e) /\ y.good)
  <2>1. t = mode.strict
    BY <1>4, <1>5, <1>7, <1>12
  <2>2. i = (m.follows /\ ~m.good)
    BY <1>3, <1>4, <1>5, <1>7, <1>12
  <2>3. Guessing(e) \in BOOLEAN /\ y.good \in BOOLEAN
    BY <1>1, <1>12 DEF Guessing, ModeOK, Opened, Sessions
  <2>4. f = (Guessing(e) /\ y.good)
    BY <1>4, <1>5, <1>7, <1>12, <2>3
  <2>5. QED
    BY <2>1, <2>2, <2>4
<1>15. /\ r \in Sessions /\ SameId(r, x) /\ SameFlags(r, x) /\ SameSend(r, x) /\ SameKeys(r, x)
       /\ r.lastpacket = "KEXINIT" /\ r.recv = x.recv /\ r.recvseq = x.recvseq
       /\ r.theirs = x.theirs /\ r.requirenext = x.requirenext /\ r.ignorenext = x.ignorenext
  BY <1>13 DEF PacketDoneIs
<1>16. /\ r.end = y.end /\ r.donefirstkex = y.donefirstkex /\ r.donesecondkex = y.donesecondkex
       /\ r.session_id = y.session_id /\ r.sentkexinit = y.sentkexinit /\ r.recvkexinit
       /\ r.sentnewkeys = y.sentnewkeys /\ r.recvnewkeys = y.recvnewkeys
       /\ r.dataallowed = y.dataallowed /\ r.good = y.good
       /\ r.our_first_follows_matches = (Guessing(e) /\ y.good)
       /\ r.strict_kex = mode.strict /\ r.ignorenext = (m.follows /\ ~m.good)
       /\ r.requirenext = DH(Peer(e)) /\ r.theirs = m.id /\ r.recv = y.recv
       /\ r.recvseq = y.recvseq /\ r.newkey = y.newkey /\ r.kex_state = y.kex_state
  BY <1>12, <1>14, <1>15 DEF KexinitTakenIs, SameId, SameFlags, SameKeys
<1>17. /\ r.trans = y.trans /\ r.transseq = y.transseq /\ r.kexinits = y.kexinits
       /\ r.param = y.param /\ r.reply_queue = y.reply_queue /\ r.out = y.out
  BY <1>12, <1>15 DEF KexinitTakenIs, SameSend
<1>18. /\ y.end = e /\ y.donefirstkex = s.donefirstkex /\ y.donesecondkex = s.donesecondkex
       /\ y.session_id = s.session_id /\ y.sentkexinit /\ ~y.recvkexinit /\ ~y.dataallowed
       /\ ~y.sentnewkeys /\ ~y.recvnewkeys
       /\ y.recv = s.recv /\ y.recvseq = s.recvseq + 1 /\ y.newkey = s.newkey
       /\ y.kex_state = s.kex_state /\ y.trans = s.trans /\ y.reply_queue = s.reply_queue
  BY <1>4, <1>6, <1>7, <1>12
     DEF Opened, PacketTakenIs, SameId, SameRecv, SameFlags, SameSend, SameKeys
<1>19. /\ IF s.sentkexinit THEN y.kexinits = s.kexinits /\ y.param = s.param /\ y.good = s.good
          ELSE y.kexinits = s.kexinits + 1
       /\ Chain(e, y.out, SendView(e, s, n), SendView(e, y, n))
  BY <1>5, <1>7, <1>8, <1>12 DEF Opened, SameFlags, SameSend
<1>20. y.kexinits = s.trans.cli + 1
  BY <1>4, <1>5, <1>19
<1>21. Agreeing(e, r)
  BY <1>4, <1>5, <1>16, <1>17, <1>18, <1>20 DEF Agreeing
<1>22. SendView(e, y, n)
         = View(r.kexinits, r.trans.cli, IF Guessing(e) /\ r.good THEN 0 ELSE 1, r.trans,
                r.transseq, n - Len(r.reply_queue), IF e = "client" THEN r.param ELSE 0,
                IF e = "client" THEN NoKey ELSE r.newkey)
  <2>1. Owed(e, y) = IF Guessing(e) /\ r.good THEN 0 ELSE 1
    BY <1>16, <1>18 DEF Owed, Guessing
  <2>2. QED
    BY <1>16, <1>17, <2>1 DEF SendView
<1>23. QED
  BY <1>15, <1>16, <1>17, <1>18, <1>19, <1>21, <1>22 DEF Answered

\* The pass that takes a KEXINIT.
LEMMA TakeKexinit ==
  ASSUME NEW e \in End, NEW s, NEW n, Ready(e, s, n), Idle(s) \/ Begun(s),
         NEW pkt, Expected(s, pkt), NEW m, m = pkt.msg, m.type = "KEXINIT",
         m.id = s.trans.cli + 1, e = "client" => ~m.follows,
         NEW good \in BOOLEAN, NEW r, r = RestOfPass(read_packet(s, pkt, good))
  PROVE  /\ Pass(e, s, n, r, n) /\ Agreeing(e, r)
         /\ r.theirs = m.id /\ r.recv = s.recv /\ r.recvseq = s.recvseq + 1
         /\ r.ignorenext = (m.follows /\ ~m.good)
         /\ r.trans = s.trans /\ r.session_id = s.session_id
         /\ \/ s.sentkexinit /\ r.kexinits = s.kexinits /\ r.param = s.param
            \/ s.sentkexinit /\ r.kexinits = s.kexinits /\ Owed(e, s) = 1
            \/ r.kexinits = s.kexinits + 1
<1>1. s \in Sessions /\ n \in Nat /\ EndOK(e, s, n) /\ ModeOK
  BY DEF Ready
<1>2. PICK x : x = read_packet(s, pkt, good)
  OBVIOUS
<1>3. Answered(e, s, n, m, x)
  BY <1>2, ReadKexinit
<1>4. /\ x \in Sessions /\ x.end = e /\ ~x.dataallowed /\ Agreeing(e, x)
      /\ x.recvkexinit /\ ~x.sentnewkeys
  BY <1>3 DEF Answered, Agreeing
<1>5. maybe_flush_reply_queue(x) = x
  BY <1>4 DEF maybe_flush_reply_queue
<1>6. PICK v : v = View(x.kexinits, x.trans.cli, IF Guessing(e) /\ x.good THEN 0 ELSE 1, x.trans,
                        x.transseq, n - Len(x.reply_queue), IF e = "client" THEN x.param ELSE 0,
                        IF e = "client" THEN NoKey ELSE x.newkey)
  OBVIOUS
<1>7. Chain(e, x.out, SendView(e, s, n), v)
  BY <1>3, <1>6 DEF Answered
<1>8. \/ s.sentkexinit /\ x.kexinits = s.kexinits /\ x.param = s.param /\ x.good = s.good
      \/ x.kexinits = s.kexinits + 1
  BY <1>3 DEF Answered
<1>9. /\ x.theirs = m.id /\ x.recv = s.recv /\ x.recvseq = s.recvseq + 1
      /\ x.ignorenext = (m.follows /\ ~m.good)
      /\ x.trans = s.trans /\ x.session_id = s.session_id
      /\ x.reply_queue = s.reply_queue /\ x.strict_kex = mode.strict
      /\ x.donefirstkex = s.donefirstkex /\ x.donesecondkex = s.donesecondkex
      /\ ~x.recvnewkeys
  BY <1>3 DEF Answered
<1>10. ASSUME NEW z \in Sessions, SameId(z, x), SameFlags(z, x), SameRecv(z, x),
              z.trans = x.trans, z.kexinits = x.kexinits, z.reply_queue = x.reply_queue,
              e = "client" => z.kex_state = "KEXDH_INIT_SENT"
       PROVE  EndOK(e, z, n) /\ Agreeing(e, z)
  <2>1. /\ Agreeing(e, z) /\ ~z.recvnewkeys /\ z.end = e /\ ~z.dataallowed
        /\ z.strict_kex = mode.strict
    BY <1>4, <1>9, <1>10 DEF Agreeing, SameId, SameFlags, SameRecv
  <2>2. QueueOK(z, n)
    <3>1. QueueOK(s, n)
      BY <1>1 DEF EndOK
    <3>2. z.reply_queue = s.reply_queue
      BY <1>9, <1>10
    <3>3. QED
      BY <2>1, <3>1, <3>2 DEF QueueOK
  <2>3. z.donefirstkex = (z.trans.cli > 0) /\ z.donesecondkex = (z.trans.cli > 1)
    BY <1>1, <1>9, <1>10 DEF EndOK, SameId
  <2>4. z.theirs > 0
    <3>1. z.theirs = z.trans.cli + 1 /\ z.trans.cli \in Nat
      BY <1>10, <2>1 DEF Agreeing, Sessions, Keys
    <3>2. QED
      BY <3>1
  <2>5. e = "client" => ClientOK(z)
    BY <1>10, <2>1 DEF ClientOK
  <2>6. ~(z.theirs = 0)
    BY <2>4
  <2>7. QED
    BY <2>1, <2>2, <2>3, <2>5, <2>6 DEF EndOK
<1>11. CASE e = "server"
  <2>1. r = x
    BY <1>2, <1>4, <1>5, <1>11 DEF RestOfPass
  <2>2. EndOK(e, r, n)
    BY <1>4, <1>10, <1>11, <2>1 DEF SameId, SameFlags, SameRecv
  <2>3. SendView(e, r, n) = v
    <3>1. Owed(e, r) = 1 /\ ~Guessing(e)
      BY <1>4, <1>11, <2>1 DEF Owed, Guessing
    <3>2. QED
      BY <1>6, <1>11, <2>1, <3>1 DEF SendView
  <2>4. Pass(e, s, n, r, n)
    BY <1>4, <1>7, <2>1, <2>2, <2>3 DEF Pass
  <2>5. QED
    BY <1>4, <1>8, <1>9, <2>1, <2>4
<1>12. CASE e = "client"
  <2>1. s.kex_state = "KEX_NOTHING"
    <3>1. s.recvkexinit = FALSE
      BY <1>1 DEF Idle, Begun, Sessions
    <3>2. ~Agreeing("client", s)
      BY <3>1 DEF Agreeing
    <3>3. QED
      BY <1>1, <1>12, <3>2 DEF EndOK, ClientOK
  <2>2. x.lastpacket = "KEXINIT" /\ x.kex_state = "KEX_NOTHING"
        /\ x.our_first_follows_matches = (Guessing(e) /\ x.good)
    BY <1>3, <2>1 DEF Answered
  <2>3. PICK y : y = IF x.our_first_follows_matches THEN x ELSE send_msg_kexdh_init(x)
    OBVIOUS
  <2>4. r = [y EXCEPT !.kex_state = "KEXDH_INIT_SENT"]
    BY <1>2, <1>4, <1>5, <1>12, <2>2, <2>3 DEF RestOfPass, cli_sessionloop
  <2>5. /\ y \in Sessions /\ SameId(y, x) /\ SameFlags(y, x) /\ SameRecv(y, x)
        /\ y.trans = x.trans /\ y.kexinits = x.kexinits /\ y.reply_queue = x.reply_queue
        /\ (Guessing(e) /\ x.good => y.param = x.param)
        /\ Chain("client", y.out, SendView(e, s, n),
                 View(y.kexinits, y.trans.cli, 0, y.trans, y.transseq,
                      n - Len(y.reply_queue), y.param, NoKey))
    <3>1. CASE Guessing(e) /\ x.good
      <4>1. y = x
        BY <2>2, <2>3, <3>1
      <4>2. v = View(y.kexinits, y.trans.cli, 0, y.trans, y.transseq,
                     n - Len(y.reply_queue), y.param, NoKey)
        BY <1>6, <1>12, <3>1, <4>1
      <4>3. QED
        BY <1>4, <1>7, <1>12, <4>1, <4>2 DEF SameId, SameFlags, SameRecv
    <3>2. CASE ~(Guessing(e) /\ x.good)
      <4>1. y = send_msg_kexdh_init(x)
        BY <2>2, <2>3, <3>2
      <4>2. /\ v.k = x.kexinits /\ v.t = x.trans.cli /\ v.togo = 1 /\ v.key = x.trans
            /\ v.seq = x.transseq /\ v.n = n - Len(x.reply_queue) /\ v.hash = NoKey
        BY <1>6, <1>12, <3>2 DEF View
      <4>3. v \in Views
        BY <1>7, <1>12, ChainLater DEF End
      <4>4. At("client", x, SendView(e, s, n), v) /\ v.togo > 0
        BY <1>7, <1>12, <4>2, <4>3 DEF At
      <4>5. /\ DhOut(y, x)
            /\ Chain("client", y.out, SendView(e, s, n),
                     View(v.k, v.t, v.togo - 1, v.key, y.transseq, v.n, y.param, v.hash))
        BY <1>4, <4>1, <4>4, SendKexdhInit
      <4>6. v.togo - 1 = 0
        BY <4>2
      <4>7. View(v.k, v.t, v.togo - 1, v.key, y.transseq, v.n, y.param, v.hash)
              = View(y.kexinits, y.trans.cli, 0, y.trans, y.transseq,
                     n - Len(y.reply_queue), y.param, NoKey)
        BY <4>2, <4>5, <4>6 DEF DhOut
      <4>8. QED
        BY <3>2, <4>5, <4>7 DEF DhOut
    <3>3. QED
      BY <3>1, <3>2
  <2>6. ClientStateIs(r, y, "KEXDH_INIT_SENT")
    <3>1. ClientStateAs(r, y, "KEXDH_INIT_SENT")
      BY <2>4, <2>5 DEF ClientStateAs
    <3>2. QED
      BY <3>1, ClientState
  <2>7. /\ r \in Sessions /\ SameId(r, x) /\ SameFlags(r, x) /\ SameRecv(r, x)
        /\ r.trans = x.trans /\ r.kexinits = x.kexinits /\ r.reply_queue = x.reply_queue
        /\ r.kex_state = "KEXDH_INIT_SENT" /\ r.param = y.param /\ r.transseq = y.transseq
        /\ r.out = y.out
    BY <2>5, <2>6 DEF ClientStateIs, SameId, SameFlags, SameRecv, SameSend
  <2>8. EndOK(e, r, n) /\ Agreeing(e, r)
    BY <1>10, <2>7
  <2>9. SendView(e, r, n) = View(y.kexinits, y.trans.cli, 0, y.trans, y.transseq,
                                 n - Len(y.reply_queue), y.param, NoKey)
    <3>1. r.recvkexinit /\ ~r.dataallowed
      BY <1>4, <2>7 DEF SameFlags
    <3>2. Owed(e, r) = 0
      BY <1>12, <3>1 DEF Owed
    <3>3. QED
      BY <1>12, <2>5, <2>7, <3>2 DEF SendView
  <2>10. Pass(e, s, n, r, n)
    BY <1>12, <2>5, <2>7, <2>8, <2>9 DEF Pass
  <2>11. \/ s.sentkexinit /\ r.kexinits = s.kexinits /\ r.param = s.param
         \/ s.sentkexinit /\ r.kexinits = s.kexinits /\ Owed(e, s) = 1
         \/ r.kexinits = s.kexinits + 1
    <3>1. CASE x.kexinits = s.kexinits + 1
      BY <2>7, <3>1
    <3>2. CASE s.sentkexinit /\ x.kexinits = s.kexinits /\ x.param = s.param /\ x.good = s.good
      <4>1. CASE Guessing(e) /\ x.good
        BY <2>5, <2>7, <3>2, <4>1
      <4>2. CASE ~(Guessing(e) /\ x.good)
        <5>1. Begun(s)
          BY <1>1, <3>2 DEF Idle, Sessions
        <5>2. ~s.dataallowed /\ ~s.recvkexinit
          BY <5>1 DEF Begun
        <5>3. Owed(e, s) = 1
          BY <1>12, <3>2, <4>2, <5>2 DEF Owed, Guessing
        <5>4. QED
          BY <2>7, <3>2, <5>3
      <4>3. QED
        BY <4>1, <4>2
    <3>3. QED
      BY <1>8, <3>1, <3>2
  <2>12. QED
    BY <1>9, <2>7, <2>8, <2>10, <2>11 DEF SameId, SameRecv
<1>13. QED
  BY <1>11, <1>12 DEF End

\* maybe_flush_reply_queue at the end of a pass, after m of the kind of NEWKEYS.
LEMMA FlushAll ==
  ASSUME NEW e, NEW s, NEW n, Ready(e, s, n), NEW x \in Sessions, x.dataallowed,
         x.reply_queue = s.reply_queue, NEW v, At(e, x, SendView(e, s, n), v), v.k > 0,
         v.t = v.k, v.n = n - Len(s.reply_queue), NEW r, r = maybe_flush_reply_queue(x)
  PROVE  /\ Flushed(r, x)
         /\ Chain(e, r.out, SendView(e, s, n),
                  View(v.k, v.t, v.togo, v.key, r.transseq, n, v.param, v.hash))
<1>1. /\ n \in Nat /\ Len(s.reply_queue) <= n
      /\ \A i \in 1..Len(s.reply_queue) :
           s.reply_queue[i] = [type |-> "DATA", n |-> n - Len(s.reply_queue) + i]
  BY DEF Ready, EndOK, QueueOK
<1>2. /\ Len(x.reply_queue) <= n
      /\ \A i \in 1..Len(x.reply_queue) :
           x.reply_queue[i] = [type |-> "DATA", n |-> n - Len(x.reply_queue) + i]
  BY <1>1
<1>3. v.n = n - Len(x.reply_queue)
  OBVIOUS
<1>4. QED
  BY <1>1, <1>2, <1>3, Flush

\* The pass of the client that takes KEXDH_REPLY.
LEMMA TakeReply ==
  ASSUME NEW s, NEW n, Ready("client", s, n), Agreeing("client", s),
         NEW pkt, Expected(s, pkt), NEW m, m = pkt.msg, m.type = "KEXDH_REPLY",
         NEW key, key = Key(s.kexinits, s.kexinits, s.param), m.hash = key,
         NEW good \in BOOLEAN, NEW r, r = RestOfPass(read_packet(s, pkt, good))
  PROVE  /\ Pass("client", s, n, r, n) /\ Switching(r)
         /\ r.theirs = s.theirs /\ r.recv = s.recv /\ r.recvseq = s.recvseq + 1
         /\ r.trans = key /\ r.kexinits = s.kexinits /\ r.param = s.param
         /\ r.session_id = (IF s.session_id = NoKey THEN key ELSE s.session_id)
<1>1. s \in Sessions /\ n \in Nat /\ EndOK("client", s, n) /\ ModeOK /\ s.out = << >>
  BY DEF Ready
<1>2. /\ s.kexinits = s.trans.cli + 1 /\ s.recv.cli = s.trans.cli /\ s.theirs = s.kexinits
      /\ s.sentkexinit /\ s.recvkexinit /\ ~s.sentnewkeys /\ ~s.dataallowed /\ ~s.ignorenext
  BY DEF Agreeing
<1>3. /\ s.end = "client" /\ ~s.recvnewkeys /\ s.kex_state = "KEXDH_INIT_SENT"
      /\ s.donefirstkex = (s.trans.cli > 0)
      /\ (s.theirs > 0 => s.strict_kex = mode.strict)
  BY <1>1 DEF EndOK, ClientOK
<1>4. /\ s.trans.cli \in Nat /\ s.kexinits \in Nat /\ s.param \in Nat /\ s.session_id \in Keys
      /\ s.recvseq \in Nat /\ s.donefirstkex \in BOOLEAN
  BY <1>1 DEF Sessions, Keys
<1>5. key \in Keys /\ key.cli = s.kexinits
  BY <1>4 DEF Key, Keys
<1>6. PICK u : /\ PacketTakenIs(u, s, s.recvseq + 1)
               /\ read_packet(s, pkt, good)
                    = [Dispatch(u, m, good) EXCEPT !.lastpacket = m.type]
  BY <1>2, ReadPacket
<1>7. /\ u \in Sessions /\ SameId(u, s) /\ SameFlags(u, s) /\ SameSend(u, s) /\ SameKeys(u, s)
      /\ u.recvseq = s.recvseq + 1 /\ u.requirenext = "any" /\ u.recv = s.recv
      /\ u.theirs = s.theirs /\ u.ignorenext = s.ignorenext
  BY <1>6 DEF PacketTakenIs
<1>8. PICK id : id = IF s.session_id = NoKey THEN key ELSE s.session_id
  OBVIOUS
<1>9. PICK d : d = [u EXCEPT !.newkey = key, !.session_id = id]
  OBVIOUS
<1>10. Derived(u, key) = d
  <2>1. u.session_id = s.session_id
    BY <1>7 DEF SameId
  <2>2. QED
    BY <1>8, <1>9, <2>1 DEF Derived
<1>11. KeysDerivedIs(d, u, key, id)
  <2>1. id \in Keys
    BY <1>4, <1>5, <1>8
  <2>2. KeysDerivedAs(d, u, key, id)
    BY <1>5, <1>7, <1>9, <2>1 DEF KeysDerivedAs
  <2>3. QED
    BY <2>2, KeysDerived
<1>12. /\ d \in Sessions /\ d.out = s.out /\ d.trans = s.trans /\ d.transseq = s.transseq
       /\ d.newkey = key /\ d.kexinits = s.kexinits /\ d.session_id = id
       /\ d.sentkexinit /\ d.recvkexinit /\ ~d.recvnewkeys /\ d.param = s.param
       /\ d.reply_queue = s.reply_queue /\ d.recvseq = s.recvseq + 1 /\ d.recv = s.recv
       /\ d.theirs = s.theirs /\ ~d.ignorenext /\ d.end = "client"
       /\ d.strict_kex = s.strict_kex /\ d.donefirstkex = s.donefirstkex
       /\ d.kex_state = s.kex_state
  BY <1>2, <1>3, <1>7, <1>11 DEF KeysDerivedIs, SameId, SameFlags, SameSend, SameKeys, SameRecv
<1>13. PICK a : a = SendView("client", s, n)
  OBVIOUS
<1>14. a \in Views /\ At("client", s, a, a)
  BY <1>1, <1>13, AtStart, SendViewType
<1>15. At("client", d, a, a)
  BY <1>12, <1>14 DEF At
<1>16. /\ a.k = s.kexinits /\ a.t = s.trans.cli /\ a.togo = 0 /\ a.key = s.trans
       /\ a.n = n - Len(s.reply_queue) /\ a.param = s.param /\ a.hash = NoKey
  <2>1. Owed("client", s) = 0
    BY <1>2 DEF Owed
  <2>2. QED
    BY <1>13, <2>1, SendViewFields
<1>17. PICK y : y = send_msg_newkeys(d)
  OBVIOUS
<1>18. /\ NewkeysOut(y, d)
       /\ Chain("client", y.out, a, View(a.k, a.k, 0, d.newkey, y.transseq, a.n, a.param, a.hash))
  <2>1. s.strict_kex = mode.strict
    BY <1>2, <1>3, <1>4
  <2>2. a.t < a.k /\ a.k = d.kexinits /\ d.newkey.cli = d.kexinits /\ d.strict_kex = mode.strict
    BY <1>2, <1>4, <1>5, <1>12, <1>16, <2>1
  <2>3. QED
    BY <1>12, <1>15, <1>16, <1>17, <2>2, SendNewkeys
<1>19. PICK x : x = [y EXCEPT !.requirenext = "NEWKEYS"]
  OBVIOUS
<1>20. NextRequiredIs(x, y, "NEWKEYS")
  <2>1. y \in Sessions /\ "NEWKEYS" \in Types \cup {"any"}
    BY <1>18 DEF NewkeysOut, Types
  <2>2. NextRequiredAs(x, y, "NEWKEYS")
    BY <1>19, <2>1 DEF NextRequiredAs
  <2>3. QED
    BY <2>2, NextRequired
<1>21. Dispatch(u, m, good) = x
  <2>1. u.kex_state = "KEXDH_INIT_SENT" /\ u.kexinits = s.kexinits /\ u.param = s.param
        /\ u.theirs = s.kexinits
    BY <1>2, <1>3, <1>7 DEF SameKeys, SameSend
  <2>2. recv_msg_kexdh_reply(u, m) = x
    BY <1>10, <1>17, <1>19, <2>1 DEF recv_msg_kexdh_reply
  <2>3. QED
    BY <2>2 DEF Dispatch
<1>22. PICK z : z = [x EXCEPT !.lastpacket = "KEXDH_REPLY"]
  OBVIOUS
<1>23. PacketDoneIs(z, x, "KEXDH_REPLY")
  <2>1. x \in Sessions /\ "KEXDH_REPLY" \in Types \cup {"none"}
    BY <1>20 DEF NextRequiredIs, Types
  <2>2. PacketDoneAs(z, x, "KEXDH_REPLY")
    BY <1>22, <2>1 DEF PacketDoneAs
  <2>3. QED
    BY <2>2, PacketDone
<1>24. r = RestOfPass(z)
  BY <1>6, <1>21, <1>22
<1>25. /\ z \in Sessions /\ z.end = "client" /\ z.dataallowed /\ z.reply_queue = s.reply_queue
       /\ z.trans = key /\ z.newkey = key /\ z.out = y.out /\ z.transseq = y.transseq
       /\ z.kexinits = s.kexinits /\ z.param = s.param /\ z.session_id = id
  BY <1>12, <1>18, <1>20, <1>23
     DEF NewkeysOut, NextRequiredIs, PacketDoneIs, SameId, SameFlags, SameSend, SameKeys
<1>26. /\ z.sentkexinit /\ z.recvkexinit /\ z.sentnewkeys /\ ~z.recvnewkeys /\ z.recvvalid
       /\ ~z.transvalid /\ z.requirenext = "NEWKEYS" /\ ~z.ignorenext /\ z.recv = s.recv
       /\ z.theirs = s.theirs /\ z.recvseq = s.recvseq + 1 /\ z.kex_state = "KEXDH_INIT_SENT"
       /\ z.strict_kex = s.strict_kex /\ z.donefirstkex = TRUE
       /\ z.donesecondkex = s.donefirstkex /\ z.lastpacket = "KEXDH_REPLY"
  BY <1>3, <1>12, <1>18, <1>20, <1>23
     DEF NewkeysOut, NextRequiredIs, PacketDoneIs, SameId, SameFlags, SameSend, SameKeys, SameRecv
<1>27. PICK v : v = View(a.k, a.k, 0, d.newkey, y.transseq, a.n, a.param, a.hash)
  OBVIOUS
<1>28. /\ v.k = s.kexinits /\ v.t = s.kexinits /\ v.togo = 0 /\ v.key = key /\ v.seq = z.transseq
       /\ v.n = n - Len(s.reply_queue) /\ v.param = s.param /\ v.hash = NoKey
  BY <1>12, <1>16, <1>25, <1>27 DEF View
<1>29. At("client", z, SendView("client", s, n), v)
  <2>1. Chain("client", z.out, a, v)
    BY <1>18, <1>25, <1>27
  <2>2. v \in Views
    BY <2>1, ChainLater DEF End
  <2>3. QED
    BY <1>13, <1>25, <1>28, <2>1, <2>2 DEF At
<1>30. PICK f : f = maybe_flush_reply_queue(z)
  OBVIOUS
<1>31. /\ Flushed(f, z)
       /\ Chain("client", f.out, SendView("client", s, n),
                View(v.k, v.t, v.togo, v.key, f.transseq, n, v.param, v.hash))
  <2>1. v.k > 0 /\ v.t = v.k
    BY <1>2, <1>4, <1>28
  <2>2. QED
    BY <1>25, <1>28, <1>29, <1>30, <2>1, FlushAll
<1>32. /\ f \in Sessions /\ f.end = "client" /\ f.kex_state = "KEXDH_INIT_SENT" /\ f.sentnewkeys
       /\ f.lastpacket = "KEXDH_REPLY"
  BY <1>25, <1>26, <1>31 DEF Flushed, SameId, SameKeys, SameFlags, SameRecv
<1>33. r = [f EXCEPT !.kex_state = "KEX_NOTHING"]
  BY <1>24, <1>25, <1>30, <1>32 DEF RestOfPass, cli_sessionloop
<1>34. ClientStateIs(r, f, "KEX_NOTHING")
  <2>1. ClientStateAs(r, f, "KEX_NOTHING")
    BY <1>32, <1>33 DEF ClientStateAs
  <2>2. QED
    BY <2>1, ClientState
<1>35. /\ r \in Sessions /\ r.end = "client" /\ r.dataallowed /\ r.reply_queue = << >>
       /\ r.trans = key /\ r.newkey = key /\ r.out = f.out /\ r.transseq = f.transseq
       /\ r.kexinits = s.kexinits /\ r.param = s.param /\ r.session_id = id
       /\ r.sentkexinit /\ r.recvkexinit /\ r.sentnewkeys /\ ~r.recvnewkeys /\ r.recvvalid
       /\ ~r.transvalid
  BY <1>25, <1>26, <1>31, <1>34
     DEF ClientStateIs, Flushed, SameId, SameFlags, SameSend, SameKeys, SameRecv
<1>36. /\ r.requirenext = "NEWKEYS" /\ ~r.ignorenext /\ r.recv = s.recv
       /\ r.theirs = s.theirs /\ r.recvseq = s.recvseq + 1 /\ r.kex_state = "KEX_NOTHING"
       /\ r.strict_kex = s.strict_kex /\ r.donefirstkex = TRUE
       /\ r.donesecondkex = s.donefirstkex /\ r.lastpacket = "KEXDH_REPLY"
  BY <1>25, <1>26, <1>31, <1>34
     DEF ClientStateIs, Flushed, SameId, SameFlags, SameSend, SameKeys, SameRecv
<1>37. Switching(r)
  BY <1>2, <1>5, <1>35, <1>36 DEF Switching
<1>38. EndOK("client", r, n)
  <2>1. QueueOK(r, n)
    BY <1>1, <1>35, EmptySeq DEF QueueOK
  <2>2. ClientOK(r)
    BY <1>35, <1>36 DEF ClientOK, Agreeing
  <2>3. /\ r.donefirstkex = (r.trans.cli > 0) /\ r.donesecondkex = (r.trans.cli > 1)
    <3>1. r.trans.cli = s.trans.cli + 1
      BY <1>2, <1>5, <1>35
    <3>2. r.trans.cli > 0 /\ (r.trans.cli > 1) = (s.trans.cli > 0)
      BY <1>4, <3>1
    <3>3. QED
      BY <1>3, <1>4, <1>36, <3>2
  <2>4. (r.theirs > 0 => r.strict_kex = mode.strict) /\ r.theirs # 0
    BY <1>2, <1>3, <1>4, <1>36
  <2>5. QED
    BY <1>35, <1>37, <2>1, <2>2, <2>3, <2>4 DEF EndOK
<1>39. SendView("client", r, n) = View(v.k, v.t, v.togo, v.key, f.transseq, n, v.param, v.hash)
  <2>1. Owed("client", r) = 0
    BY <1>35 DEF Owed
  <2>2. n - Len(r.reply_queue) = n
    BY <1>1, <1>35, EmptySeq
  <2>3. QED
    BY <1>5, <1>28, <1>35, <2>1, <2>2 DEF SendView
<1>40. Pass("client", s, n, r, n)
  BY <1>31, <1>35, <1>38, <1>39 DEF Pass
<1>41. QED
  BY <1>8, <1>35, <1>36, <1>37, <1>40

\* Nothing for cli_sessionloop to do.
LEMMA LoopIdle ==
  ASSUME NEW z, NEW f, f = maybe_flush_reply_queue(z), z.end \in End,
         z.end = "client" => f.kex_state = "KEX_NOTHING" /\ f.lastpacket # "KEXINIT"
  PROVE  RestOfPass(z) = f
  BY DEF RestOfPass, cli_sessionloop, End

\* The pass that takes NEWKEYS.
LEMMA TakeNewkeys ==
  ASSUME NEW e \in End, NEW s, NEW n, Ready(e, s, n), Switching(s),
         NEW pkt, Expected(s, pkt), NEW m, m = pkt.msg, m.type = "NEWKEYS",
         NEW good \in BOOLEAN, NEW r, r = RestOfPass(read_packet(s, pkt, good))
  PROVE  /\ Pass(e, s, n, r, n) /\ Idle(r)
         /\ r.theirs = s.theirs /\ r.recv = s.newkey
         /\ r.recvseq = (IF mode.strict THEN 0 ELSE s.recvseq + 1)
         /\ r.trans = s.trans /\ r.kexinits = s.kexinits /\ r.param = s.param
         /\ r.session_id = s.session_id
<1>1. s \in Sessions /\ n \in Nat /\ EndOK(e, s, n) /\ ModeOK /\ s.out = << >>
  BY DEF Ready
<1>2. /\ s.kexinits = s.recv.cli + 1 /\ s.trans.cli = s.kexinits /\ s.theirs = s.kexinits
      /\ s.sentkexinit /\ s.recvkexinit /\ s.sentnewkeys /\ s.dataallowed /\ ~s.ignorenext
      /\ s.recvvalid /\ ~s.transvalid /\ s.newkey = s.trans
  BY DEF Switching
<1>3. /\ s.end = e /\ ~s.recvnewkeys
      /\ s.donefirstkex = (s.trans.cli > 0) /\ s.donesecondkex = (s.trans.cli > 1)
      /\ (s.theirs > 0 => s.strict_kex = mode.strict)
      /\ (e = "client" => s.kex_state = "KEX_NOTHING")
  BY <1>1, <1>2 DEF EndOK, ClientOK, Agreeing
<1>4. /\ s.recv.cli \in Nat /\ s.kexinits \in Nat /\ s.kexinits > 0 /\ s.strict_kex \in BOOLEAN
      /\ s.recvseq \in Nat /\ s.strict_kex = mode.strict
  BY <1>1, <1>2, <1>3, SMTT(30) DEF Sessions, Keys
<1>5. PICK u : /\ PacketTakenIs(u, s, s.recvseq + 1)
               /\ read_packet(s, pkt, good)
                    = [Dispatch(u, m, good) EXCEPT !.lastpacket = m.type]
  BY <1>2, ReadPacket
<1>6. /\ u \in Sessions /\ SameId(u, s) /\ SameFlags(u, s) /\ SameSend(u, s) /\ SameKeys(u, s)
      /\ u.recvseq = s.recvseq + 1 /\ u.requirenext = "any" /\ u.recv = s.recv
      /\ u.theirs = s.theirs /\ u.ignorenext = s.ignorenext
  BY <1>5 DEF PacketTakenIs
<1>7. PICK q : q = IF s.strict_kex THEN 0 ELSE u.recvseq
  OBVIOUS
<1>8. PICK x : x = recv_msg_newkeys(u)
  OBVIOUS
<1>9. NewkeysTakenIs(x, u, q)
  <2>1. /\ u.sentkexinit /\ u.recvkexinit /\ u.sentnewkeys /\ u.recvvalid /\ ~u.transvalid
        /\ u.strict_kex = s.strict_kex
    BY <1>2, <1>6 DEF SameFlags, SameKeys, SameId
  <2>2. PICK w : w = [u EXCEPT !.recvnewkeys = TRUE]
    OBVIOUS
  <2>3. /\ w.sentkexinit /\ w.recvkexinit /\ w.sentnewkeys /\ w.recvvalid /\ ~w.transvalid
        /\ w.recvnewkeys /\ w.newkey = u.newkey
    BY <1>6, <2>1, <2>2 DEF Sessions
  <2>4. PICK y : y = [w EXCEPT !.recv = u.newkey, !.recvvalid = FALSE]
    OBVIOUS
  <2>5. y = [u EXCEPT !.recvnewkeys = TRUE, !.recv = u.newkey, !.recvvalid = FALSE]
    BY <2>2, <2>4
  <2>6. y.sentnewkeys /\ ~y.transvalid /\ y.recvnewkeys
    BY <1>6, <2>1, <2>5 DEF Sessions
  <2>7. switch_keys(w) = kexinitialise(y)
    BY <2>3, <2>4, <2>6 DEF switch_keys
  <2>8. PICK k : k = [u EXCEPT !.recvnewkeys = FALSE, !.recv = u.newkey, !.recvvalid = FALSE,
                               !.sentkexinit = FALSE, !.recvkexinit = FALSE,
                               !.sentnewkeys = FALSE, !.our_first_follows_matches = FALSE]
    OBVIOUS
  <2>9. kexinitialise(y) = k
    BY <1>6, <2>5, <2>8 DEF kexinitialise, Sessions
  <2>10. k.recvseq = u.recvseq
    BY <1>6, <2>8 DEF Sessions
  <2>11. x = [k EXCEPT !.recvseq = q, !.recvfirstnewkeys = TRUE]
    BY <1>7, <1>8, <2>1, <2>2, <2>7, <2>9, <2>10 DEF recv_msg_newkeys
  <2>12. q \in Nat
    BY <1>4, <1>6, <1>7
  <2>13. NewkeysTakenAs(x, u, q)
    BY <1>6, <2>8, <2>11, <2>12 DEF NewkeysTakenAs
  <2>14. QED
    BY <2>13, NewkeysTaken
<1>10. PICK z : z = [x EXCEPT !.lastpacket = "NEWKEYS"]
  OBVIOUS
<1>11. PacketDoneIs(z, x, "NEWKEYS")
  <2>1. x \in Sessions /\ "NEWKEYS" \in Types \cup {"none"}
    BY <1>9 DEF NewkeysTakenIs, Types
  <2>2. PacketDoneAs(z, x, "NEWKEYS")
    BY <1>10, <2>1 DEF PacketDoneAs
  <2>3. QED
    BY <2>2, PacketDone
<1>12. r = RestOfPass(z)
  BY <1>5, <1>8, <1>10 DEF Dispatch
<1>13. /\ z \in Sessions /\ z.end = e /\ z.dataallowed /\ z.reply_queue = s.reply_queue
       /\ z.trans = s.trans /\ z.newkey = s.newkey /\ z.out = s.out /\ z.transseq = s.transseq
       /\ z.kexinits = s.kexinits /\ z.param = s.param /\ z.session_id = s.session_id
       /\ z.kex_state = s.kex_state /\ z.lastpacket = "NEWKEYS"
  BY <1>2, <1>3, <1>6, <1>9, <1>11
     DEF NewkeysTakenIs, PacketDoneIs, SameId, SameFlags, SameSend, SameKeys
<1>14. /\ ~z.sentkexinit /\ ~z.recvkexinit /\ ~z.sentnewkeys /\ ~z.recvnewkeys
       /\ ~z.our_first_follows_matches /\ z.requirenext = "any" /\ ~z.ignorenext
       /\ z.recv = s.newkey /\ z.theirs = s.theirs /\ z.recvseq = q
       /\ z.strict_kex = s.strict_kex /\ z.donefirstkex = s.donefirstkex
       /\ z.donesecondkex = s.donesecondkex
  BY <1>2, <1>6, <1>9, <1>11
     DEF NewkeysTakenIs, PacketDoneIs, SameId, SameFlags, SameSend, SameKeys
<1>15. PICK a : a = SendView(e, s, n)
  OBVIOUS
<1>16. a \in Views /\ At(e, s, a, a)
  BY <1>1, <1>15, AtStart, SendViewType
<1>17. /\ a.k = s.kexinits /\ a.t = s.kexinits /\ a.togo = 0 /\ a.key = s.trans
       /\ a.n = n - Len(s.reply_queue) /\ a.param = (IF e = "client" THEN s.param ELSE 0)
       /\ a.hash = (IF e = "client" THEN NoKey ELSE s.newkey)
  <2>1. Owed(e, s) = 0
    BY <1>2 DEF Owed
  <2>2. QED
    BY <1>2, <1>15, <2>1, SendViewFields
<1>18. At(e, z, SendView(e, s, n), a)
  BY <1>13, <1>15, <1>16 DEF At
<1>19. PICK f : f = maybe_flush_reply_queue(z)
  OBVIOUS
<1>20. /\ Flushed(f, z)
       /\ Chain(e, f.out, SendView(e, s, n),
                View(a.k, a.t, a.togo, a.key, f.transseq, n, a.param, a.hash))
  <2>1. a.k > 0 /\ a.t = a.k
    BY <1>4, <1>17
  <2>2. QED
    BY <1>13, <1>17, <1>18, <1>19, <2>1, FlushAll
<1>21. r = f
  <2>1. f.kex_state = z.kex_state /\ f.lastpacket = z.lastpacket
    BY <1>20 DEF Flushed, SameKeys, SameRecv
  <2>2. z.end = "client" => f.kex_state = "KEX_NOTHING" /\ f.lastpacket # "KEXINIT"
    BY <1>3, <1>13, <2>1
  <2>3. QED
    BY <1>12, <1>13, <1>19, <2>2, LoopIdle
<1>22. /\ r \in Sessions /\ r.end = e /\ r.dataallowed /\ r.reply_queue = << >>
       /\ r.trans = s.trans /\ r.newkey = s.newkey
       /\ r.kexinits = s.kexinits /\ r.param = s.param /\ r.session_id = s.session_id
       /\ r.kex_state = s.kex_state /\ r.lastpacket = "NEWKEYS"
  BY <1>13, <1>20, <1>21 DEF Flushed, SameId, SameFlags, SameKeys, SameRecv
<1>23. /\ ~r.sentkexinit /\ ~r.recvkexinit /\ ~r.sentnewkeys /\ ~r.recvnewkeys
       /\ ~r.our_first_follows_matches /\ r.requirenext = "any" /\ ~r.ignorenext
       /\ r.recv = s.newkey /\ r.theirs = s.theirs /\ r.recvseq = q
       /\ r.strict_kex = s.strict_kex /\ r.donefirstkex = s.donefirstkex
       /\ r.donesecondkex = s.donesecondkex
  BY <1>14, <1>20, <1>21 DEF Flushed, SameId, SameFlags, SameKeys, SameRecv
<1>24. Idle(r)
  BY <1>2, <1>4, <1>22, <1>23 DEF Idle
<1>25. EndOK(e, r, n)
  <2>1. QueueOK(r, n)
    BY <1>1, <1>22, EmptySeq DEF QueueOK
  <2>2. e = "client" => ClientOK(r)
    BY <1>3, <1>22, <1>23 DEF ClientOK, Agreeing
  <2>3. (r.theirs > 0 => r.strict_kex = mode.strict) /\ r.theirs # 0
    BY <1>2, <1>3, <1>4, <1>23
  <2>4. /\ r.donefirstkex = (r.trans.cli > 0) /\ r.donesecondkex = (r.trans.cli > 1)
    BY <1>3, <1>22, <1>23
  <2>5. QED
    BY <1>22, <1>23, <1>24, <2>1, <2>2, <2>3, <2>4 DEF EndOK
<1>26. SendView(e, r, n) = View(a.k, a.t, a.togo, a.key, f.transseq, n, a.param, a.hash)
  <2>1. Owed(e, r) = 0
    BY <1>22 DEF Owed
  <2>2. n - Len(r.reply_queue) = n
    BY <1>1, <1>22, EmptySeq
  <2>3. QED
    BY <1>2, <1>17, <1>21, <1>22, <2>1, <2>2 DEF SendView
<1>27. Pass(e, s, n, r, n)
  BY <1>20, <1>21, <1>22, <1>25, <1>26 DEF Pass
<1>28. r.recvseq = (IF mode.strict THEN 0 ELSE s.recvseq + 1)
  BY <1>4, <1>6, <1>7, <1>23
<1>29. QED
  BY <1>22, <1>23, <1>24, <1>27, <1>28

\* The pass that takes a packet for the layers above.
LEMMA TakeData ==
  ASSUME NEW e \in End, NEW s, NEW n, Ready(e, s, n), Idle(s) \/ Begun(s), s.theirs > 0,
         NEW pkt, Expected(s, pkt), NEW m, m = pkt.msg, m.type \in {"DATA", "EXT_INFO"},
         NEW good \in BOOLEAN, NEW r, r = RestOfPass(read_packet(s, pkt, good))
  PROVE  /\ Pass(e, s, n, r, n) /\ SameFlags(r, s)
         /\ r.theirs = s.theirs /\ r.recv = s.recv /\ r.recvseq = s.recvseq + 1
         /\ r.ignorenext = s.ignorenext
         /\ r.trans = s.trans /\ r.kexinits = s.kexinits /\ r.param = s.param
         /\ r.session_id = s.session_id
<1>1. s \in Sessions /\ n \in Nat /\ EndOK(e, s, n) /\ ModeOK /\ s.out = << >>
  BY DEF Ready
<1>2. s.requirenext = "any" /\ ~s.ignorenext /\ ~s.recvkexinit
  BY DEF Idle, Begun, Expected
<1>3. /\ s.end = e /\ QueueOK(s, n)
      /\ (e = "client" => s.kex_state = "KEX_NOTHING")
  BY <1>1, <1>2 DEF EndOK, ClientOK, Agreeing
<1>4. PICK u : /\ PacketTakenIs(u, s, s.recvseq + 1)
               /\ read_packet(s, pkt, good)
                    = [Dispatch(u, m, good) EXCEPT !.lastpacket = m.type]
  BY <1>2, ReadPacket
<1>5. /\ u \in Sessions /\ SameId(u, s) /\ SameFlags(u, s) /\ SameSend(u, s) /\ SameKeys(u, s)
      /\ u.recvseq = s.recvseq + 1 /\ u.requirenext = "any" /\ u.recv = s.recv
      /\ u.theirs = s.theirs /\ u.ignorenext = s.ignorenext
  BY <1>4 DEF PacketTakenIs
<1>6. Dispatch(u, m, good) = u
  BY DEF Dispatch
<1>7. PICK t : t = m.type
  OBVIOUS
<1>8. PICK z : z = [u EXCEPT !.lastpacket = t]
  OBVIOUS
<1>9. PacketDoneIs(z, u, t)
  <2>1. u \in Sessions /\ t \in Types \cup {"none"}
    BY <1>5, <1>7 DEF Types
  <2>2. PacketDoneAs(z, u, t)
    BY <1>8, <2>1 DEF PacketDoneAs
  <2>3. QED
    BY <2>2, PacketDone
<1>10. r = RestOfPass(z)
  BY <1>4, <1>6, <1>7, <1>8
<1>11. /\ z \in Sessions /\ SameId(z, s) /\ SameFlags(z, s) /\ SameSend(z, s) /\ SameKeys(z, s)
       /\ z.recvseq = s.recvseq + 1 /\ z.requirenext = "any" /\ z.recv = s.recv
       /\ z.theirs = s.theirs /\ z.ignorenext = s.ignorenext /\ z.lastpacket = t
  BY <1>5, <1>9 DEF PacketDoneIs, SameId, SameFlags, SameSend, SameKeys
<1>12. z.end = e /\ z.kex_state = s.kex_state /\ z.dataallowed = s.dataallowed /\ z.out = s.out
       /\ z.reply_queue = s.reply_queue /\ z.trans = s.trans /\ z.transseq = s.transseq
       /\ z.newkey = s.newkey /\ z.kexinits = s.kexinits /\ z.param = s.param
  BY <1>3, <1>11 DEF SameId, SameKeys, SameFlags, SameSend
<1>13. PICK f : f = maybe_flush_reply_queue(z)
  OBVIOUS
<1>14. SendView(e, s, n) \in Views /\ At(e, s, SendView(e, s, n), SendView(e, s, n))
  BY <1>1, AtStart, SendViewType
<1>15. /\ f \in Sessions /\ SameId(f, z) /\ SameFlags(f, z) /\ SameRecv(f, z) /\ SameKeys(f, z)
       /\ f.trans = z.trans /\ f.kexinits = z.kexinits /\ f.param = z.param
       /\ f.reply_queue = s.reply_queue
       /\ Chain(e, f.out, SendView(e, s, n), SendView(e, f, n))
  <2>1. CASE Begun(s)
    <3>1. ~z.dataallowed
      BY <1>12, <2>1 DEF Begun
    <3>2. f = z
      BY <1>13, <3>1 DEF maybe_flush_reply_queue
    <3>3. SendView(e, z, n) = SendView(e, s, n)
      BY <1>11, <1>12, SendViewSame
    <3>4. Chain(e, f.out, SendView(e, s, n), SendView(e, f, n))
      BY <1>12, <1>14, <3>2, <3>3 DEF At
    <3>5. QED
      BY <1>11, <1>12, <3>2, <3>4 DEF SameId, SameFlags, SameRecv, SameKeys
  <2>2. CASE Idle(s)
    <3>1. z.dataallowed /\ s.dataallowed /\ s.reply_queue = << >>
      BY <1>3, <1>12, <2>2 DEF Idle, QueueOK
    <3>2. PICK a : a = SendView(e, s, n)
      OBVIOUS
    <3>3. /\ a.k = s.kexinits /\ a.t = s.trans.cli /\ a.togo = 0 /\ a.key = s.trans
          /\ a.n = n - Len(s.reply_queue) /\ a.param = (IF e = "client" THEN s.param ELSE 0)
          /\ a.hash = (IF e = "client" THEN NoKey ELSE s.newkey)
      <4>1. Owed(e, s) = 0
        BY <3>1 DEF Owed
      <4>2. QED
        BY <3>2, <4>1, SendViewFields
    <3>4. a.k > 0 /\ a.t = a.k
      BY <2>2, <3>3 DEF Idle
    <3>5. At(e, z, SendView(e, s, n), a)
      BY <1>12, <1>14, <3>2 DEF At
    <3>6. /\ Flushed(f, z)
          /\ Chain(e, f.out, SendView(e, s, n),
                   View(a.k, a.t, a.togo, a.key, f.transseq, n, a.param, a.hash))
      BY <1>11, <1>12, <1>13, <3>1, <3>3, <3>4, <3>5, FlushAll
    <3>7. SendView(e, f, n) = View(a.k, a.t, a.togo, a.key, f.transseq, n, a.param, a.hash)
      <4>1. f.dataallowed /\ f.newkey = s.newkey
        BY <1>12, <3>1, <3>6 DEF Flushed, SameFlags, SameKeys
      <4>2. Owed(e, f) = 0
        BY <4>1 DEF Owed
      <4>3. n - Len(f.reply_queue) = n
        BY <1>1, <3>6, EmptySeq DEF Flushed
      <4>4. QED
        BY <1>12, <3>3, <3>6, <4>1, <4>2, <4>3 DEF SendView, Flushed
    <3>8. QED
      BY <3>1, <3>6, <3>7 DEF Flushed
  <2>3. QED
    BY <2>1, <2>2
<1>16. r = f
  <2>1. f.kex_state = z.kex_state /\ f.lastpacket = z.lastpacket
    BY <1>15 DEF SameKeys, SameRecv
  <2>2. z.end = "client" => f.kex_state = "KEX_NOTHING" /\ f.lastpacket # "KEXINIT"
    BY <1>3, <1>7, <1>11, <1>12, <2>1
  <2>3. QED
    BY <1>10, <1>12, <1>13, <2>2, LoopIdle
<1>17. /\ SameId(r, s) /\ SameFlags(r, s) /\ SameKeys(r, s) /\ r.trans = s.trans
       /\ r.kexinits = s.kexinits /\ r.param = s.param /\ r.reply_queue = s.reply_queue
       /\ r.recvseq = s.recvseq + 1 /\ r.requirenext = "any" /\ r.recv = s.recv
       /\ r.theirs = s.theirs /\ r.ignorenext = s.ignorenext /\ r.lastpacket = t
  BY <1>11, <1>12, <1>15, <1>16 DEF SameId, SameFlags, SameKeys, SameRecv
<1>18. EndOK(e, r, n)
  <2>1. QueueOK(r, n)
    BY <1>3, <1>17 DEF QueueOK, SameFlags
  <2>2. Idle(r) \/ Begun(r)
    <3>1. CASE Idle(s)
      BY <1>17, <3>1 DEF Idle, SameFlags
    <3>2. CASE Begun(s)
      BY <1>2, <1>17, <3>2 DEF Begun, SameFlags
    <3>3. QED
      BY <3>1, <3>2
  <2>3. ~r.recvkexinit
    BY <1>2, <1>17 DEF SameFlags
  <2>4. e = "client" => ClientOK(r)
    BY <1>3, <1>7, <1>17, <2>3 DEF ClientOK, Agreeing, SameKeys
  <2>5. /\ s.donefirstkex = (s.trans.cli > 0) /\ s.donesecondkex = (s.trans.cli > 1)
        /\ s.theirs > 0 => s.strict_kex = mode.strict
        /\ ~s.recvnewkeys
    BY <1>1 DEF EndOK
  <2>6. /\ r.end = e /\ ~r.recvnewkeys
        /\ r.donefirstkex = (r.trans.cli > 0) /\ r.donesecondkex = (r.trans.cli > 1)
        /\ r.theirs > 0 => r.strict_kex = mode.strict
    BY <1>3, <1>17, <2>5 DEF SameId, SameFlags
  <2>7. r.theirs # 0
    BY <1>17
  <2>8. QED
    BY <2>1, <2>2, <2>4, <2>6, <2>7 DEF EndOK
<1>19. Pass(e, s, n, r, n)
  BY <1>15, <1>16, <1>18 DEF Pass
<1>20. QED
  BY <1>17, <1>19 DEF SameId

\* The pass of the server that skips the packet of a wrong guess.
LEMMA SkipGuess ==
  ASSUME NEW s, NEW n, Ready("server", s, n), Agreeing("server", s), s.ignorenext,
         NEW pkt, Expected(s, pkt),
         NEW good \in BOOLEAN, NEW r, r = RestOfPass(read_packet(s, pkt, good))
  PROVE  /\ Pass("server", s, n, r, n) /\ SameFlags(r, s) /\ ~r.ignorenext
         /\ r.theirs = s.theirs /\ r.recv = s.recv /\ r.recvseq = s.recvseq + 1
         /\ r.trans = s.trans /\ r.kexinits = s.kexinits /\ r.param = s.param
         /\ r.session_id = s.session_id
<1>1. s \in Sessions /\ n \in Nat /\ EndOK("server", s, n) /\ ModeOK /\ s.out = << >>
  BY DEF Ready
<1>2. PICK u : /\ GuessIgnoredIs(u, s, s.recvseq + 1)
               /\ read_packet(s, pkt, good) = [u EXCEPT !.lastpacket = pkt.msg.type]
  BY ReadIgnored
<1>3. PICK t : t = pkt.msg.type
  OBVIOUS
<1>4. PICK z : z = [u EXCEPT !.lastpacket = t]
  OBVIOUS
<1>5. PacketDoneIs(z, u, t)
  <2>1. u \in Sessions /\ t \in Types \cup {"none"}
    BY <1>2, <1>3, MessageType DEF GuessIgnoredIs, Expected, Packets
  <2>2. PacketDoneAs(z, u, t)
    BY <1>4, <2>1 DEF PacketDoneAs
  <2>3. QED
    BY <2>2, PacketDone
<1>6. /\ z \in Sessions /\ SameId(z, s) /\ SameFlags(z, s) /\ SameSend(z, s) /\ SameKeys(z, s)
      /\ z.recvseq = s.recvseq + 1 /\ z.requirenext = s.requirenext /\ z.recv = s.recv
      /\ z.theirs = s.theirs /\ ~z.ignorenext
  BY <1>2, <1>5 DEF GuessIgnoredIs, PacketDoneIs, SameId, SameFlags, SameSend, SameKeys
<1>7. z.end = "server" /\ ~z.dataallowed
  BY <1>1, <1>6 DEF EndOK, Agreeing, SameId, SameFlags
<1>8. r = z
  <2>1. maybe_flush_reply_queue(z) = z
    BY <1>7 DEF maybe_flush_reply_queue
  <2>2. RestOfPass(z) = z
    BY <1>7, <2>1 DEF RestOfPass
  <2>3. QED
    BY <1>2, <1>3, <1>4, <2>2
<1>9. SendView("server", r, n) = SendView("server", s, n)
  <2>1. r.newkey = s.newkey
    BY <1>6, <1>8 DEF SameKeys
  <2>2. QED
    BY <1>6, <1>8, <2>1, SendViewSame
<1>10. Agreeing("server", r)
  BY <1>6, <1>8 DEF Agreeing, SameFlags, SameSend
<1>11. EndOK("server", r, n)
  <2>1. /\ s.donefirstkex = (s.trans.cli > 0) /\ s.donesecondkex = (s.trans.cli > 1)
        /\ s.theirs > 0 => s.strict_kex = mode.strict
        /\ ~s.recvnewkeys /\ QueueOK(s, n)
    BY <1>1 DEF EndOK
  <2>2. QueueOK(r, n)
    BY <1>6, <1>8, <2>1 DEF QueueOK, SameFlags, SameSend
  <2>3. /\ r.donefirstkex = (r.trans.cli > 0) /\ r.donesecondkex = (r.trans.cli > 1)
        /\ r.theirs > 0 => r.strict_kex = mode.strict
        /\ ~r.recvnewkeys
    BY <1>6, <1>8, <2>1 DEF SameId, SameFlags, SameSend
  <2>4. r.theirs # 0
    <3>1. s.theirs = s.trans.cli + 1 /\ s.trans.cli \in Nat
      BY <1>1 DEF Agreeing, Sessions, Keys
    <3>2. s.theirs # 0
      BY <3>1
    <3>3. QED
      BY <1>6, <1>8, <3>2
  <2>5. QED
    BY <1>7, <1>8, <1>10, <2>2, <2>3, <2>4 DEF EndOK
<1>12. r.out = << >> /\ SendView("server", s, n) \in Views
  BY <1>1, <1>6, <1>8, SendViewType DEF SameSend
<1>13. Chain("server", r.out, SendView("server", s, n), SendView("server", r, n))
  BY <1>9, <1>12, ChainEmpty
<1>14. Pass("server", s, n, r, n)
  BY <1>6, <1>8, <1>11, <1>13 DEF Pass
<1>15. QED
  BY <1>6, <1>8, <1>14 DEF SameSend, SameId

\* recv_msg_kexdh_init: the reply, NEWKEYS, and EXT_INFO at the first exchange.
DhTaken(s, n, key, x) ==
    /\ key \in Keys /\ key.cli = s.kexinits
    /\ x \in Sessions /\ x.end = "server" /\ x.dataallowed /\ x.reply_queue = s.reply_queue
    /\ x.trans = key /\ x.newkey = key /\ x.kexinits = s.kexinits /\ x.param = s.param
    /\ x.session_id = (IF s.session_id = NoKey THEN key ELSE s.session_id)
    /\ x.sentkexinit /\ x.recvkexinit /\ x.sentnewkeys /\ ~x.recvnewkeys /\ x.recvvalid
    /\ ~x.transvalid /\ x.requirenext = "NEWKEYS" /\ x.ignorenext = s.ignorenext
    /\ x.recv = s.recv /\ x.theirs = s.theirs /\ x.recvseq = s.recvseq + 1
    /\ x.strict_kex = s.strict_kex /\ x.donefirstkex = TRUE
    /\ x.donesecondkex = s.donefirstkex
    /\ At("server", x, SendView("server", s, n),
          View(s.kexinits, s.kexinits, 0, key, x.transseq, n - Len(s.reply_queue), 0, key))

\* recv_msg_kexdh_init sends the reply, NEWKEYS and at the first exchange EXT_INFO.
LEMMA ReadDhInit ==
  ASSUME NEW s, NEW n, Ready("server", s, n), Agreeing("server", s),
         NEW u, PacketTakenIs(u, s, s.recvseq + 1),
         NEW m \in Messages, m.type = "KEXDH_INIT",
         NEW key, key = Key(s.kexinits, s.kexinits, m.param),
         NEW x, x = recv_msg_kexdh_init(u, m)
  PROVE  DhTaken(s, n, key, x)
<1>1. s \in Sessions /\ n \in Nat /\ EndOK("server", s, n) /\ ModeOK /\ s.out = << >>
  BY DEF Ready
<1>2. /\ s.kexinits = s.trans.cli + 1 /\ s.recv.cli = s.trans.cli /\ s.theirs = s.kexinits
      /\ s.sentkexinit /\ s.recvkexinit /\ ~s.sentnewkeys /\ ~s.dataallowed
  BY DEF Agreeing
<1>3. /\ s.end = "server" /\ ~s.recvnewkeys
      /\ (s.theirs > 0 => s.strict_kex = mode.strict)
  BY <1>1 DEF EndOK
<1>4. /\ s.trans.cli \in Nat /\ s.kexinits \in Nat /\ s.session_id \in Keys /\ m.param \in Nat
      /\ s.donefirstkex \in BOOLEAN
  BY <1>1 DEF Sessions, Keys, Messages
<1>5. key \in Keys /\ key.cli = s.kexinits
  BY <1>4 DEF Key, Keys
<1>6. /\ u \in Sessions /\ SameId(u, s) /\ SameFlags(u, s) /\ SameSend(u, s) /\ SameKeys(u, s)
      /\ u.recvseq = s.recvseq + 1 /\ u.requirenext = "any" /\ u.recv = s.recv
      /\ u.theirs = s.theirs /\ u.ignorenext = s.ignorenext
  BY DEF PacketTakenIs
<1>7. PICK id : id = IF s.session_id = NoKey THEN key ELSE s.session_id
  OBVIOUS
<1>8. PICK d : d = [u EXCEPT !.newkey = key, !.session_id = id]
  OBVIOUS
<1>9. Derived(u, key) = d
  <2>1. u.session_id = s.session_id
    BY <1>6 DEF SameId
  <2>2. QED
    BY <1>7, <1>8, <2>1 DEF Derived
<1>10. KeysDerivedIs(d, u, key, id)
  <2>1. id \in Keys
    BY <1>4, <1>5, <1>7
  <2>2. KeysDerivedAs(d, u, key, id)
    BY <1>5, <1>6, <1>8, <2>1 DEF KeysDerivedAs
  <2>3. QED
    BY <2>2, KeysDerived
<1>11. /\ d \in Sessions /\ d.out = s.out /\ d.trans = s.trans /\ d.transseq = s.transseq
       /\ d.newkey = key /\ d.kexinits = s.kexinits /\ d.session_id = id
       /\ d.sentkexinit /\ d.recvkexinit /\ ~d.recvnewkeys /\ d.param = s.param
       /\ d.reply_queue = s.reply_queue /\ d.recvseq = s.recvseq + 1 /\ d.recv = s.recv
       /\ d.theirs = s.theirs /\ d.ignorenext = s.ignorenext /\ d.end = "server"
       /\ d.strict_kex = s.strict_kex /\ d.donefirstkex = s.donefirstkex
  BY <1>2, <1>3, <1>6, <1>10 DEF KeysDerivedIs, SameId, SameFlags, SameSend, SameKeys, SameRecv
<1>12. PICK a : a = SendView("server", s, n)
  OBVIOUS
<1>13. a \in Views /\ At("server", s, a, a)
  BY <1>1, <1>12, AtStart, SendViewType
<1>14. At("server", d, a, a)
  BY <1>11, <1>13 DEF At
<1>15. /\ a.k = s.kexinits /\ a.t = s.trans.cli /\ a.togo = 1 /\ a.key = s.trans
       /\ a.seq = s.transseq /\ a.n = n - Len(s.reply_queue) /\ a.param = 0
  <2>1. Owed("server", s) = 1
    BY <1>2 DEF Owed
  <2>2. QED
    BY <1>12, <2>1, SendViewFields
<1>16. PICK w : w = [type |-> "KEXDH_REPLY", hash |-> key]
  OBVIOUS
<1>17. PICK b : b = View(a.k, a.t, 0, a.key, a.seq + 1, a.n, 0, key)
  OBVIOUS
<1>18. b \in Views /\ b.k = a.k /\ b.t = a.t /\ b.togo = 0 /\ b.key = a.key /\ b.seq = a.seq + 1
       /\ b.n = a.n /\ b.param = 0 /\ b.hash = key
  BY <1>5, <1>13, <1>17, ViewType DEF View, Views
<1>19. w \in Messages /\ packet_is_okay_kex(w.type) /\ Moves("server", a, w, b)
  <2>1. w.type = "KEXDH_REPLY" /\ w.hash = key
    BY <1>16
  <2>2. Exchanges("server", a, w, b)
    BY <1>15, <1>18, <2>1 DEF Exchanges, DH
  <2>3. w \in Messages
    BY <1>5, <1>16 DEF Messages
  <2>4. QED
    BY <2>1, <2>2, <2>3 DEF Moves, packet_is_okay_kex
<1>20. PICK s1 : s1 = encrypt_packet(d, w)
  OBVIOUS
<1>21. Sent(s1, d) /\ s1.transseq = d.transseq + 1 /\ Chain("server", s1.out, a, b)
  BY <1>11, <1>14, <1>18, <1>19, <1>20, Encrypt
<1>22. /\ s1 \in Sessions /\ s1.trans = s.trans /\ s1.newkey = key /\ s1.kexinits = s.kexinits
       /\ s1.sentkexinit /\ s1.recvkexinit /\ ~s1.recvnewkeys /\ s1.strict_kex = s.strict_kex
  BY <1>11, <1>21 DEF Sent, SameId, SameFlags, SameKeys
<1>23. At("server", s1, a, b)
  BY <1>11, <1>15, <1>18, <1>21, <1>22 DEF At
<1>24. PICK y : y = send_msg_newkeys(s1)
  OBVIOUS
<1>25. /\ NewkeysOut(y, s1)
       /\ Chain("server", y.out, a, View(b.k, b.k, 0, s1.newkey, y.transseq, b.n, b.param, b.hash))
  <2>1. s.strict_kex = mode.strict
    BY <1>2, <1>3, <1>4
  <2>2. b.t < b.k /\ b.k = s1.kexinits /\ s1.newkey.cli = s1.kexinits /\ b.hash = s1.newkey
        /\ s1.strict_kex = mode.strict
    BY <1>2, <1>4, <1>5, <1>15, <1>18, <1>22, <2>1
  <2>3. QED
    BY <1>18, <1>22, <1>23, <1>24, <2>2, SendNewkeys
<1>26. /\ y \in Sessions /\ y.trans = key /\ y.newkey = key /\ y.dataallowed
       /\ y.kexinits = s.kexinits /\ y.transseq \in Nat
  BY <1>22, <1>25 DEF NewkeysOut, Sessions
<1>27. PICK c : c = View(s.kexinits, s.kexinits, 0, key, y.transseq, n - Len(s.reply_queue), 0, key)
  OBVIOUS
<1>28. c = View(b.k, b.k, 0, s1.newkey, y.transseq, b.n, b.param, b.hash)
  BY <1>15, <1>18, <1>22, <1>27
<1>29. c \in Views /\ Chain("server", y.out, a, c)
  BY <1>25, <1>28, ChainLater DEF End
<1>30. At("server", y, a, c)
  <2>1. c.key = key /\ c.seq = y.transseq
    BY <1>27 DEF View
  <2>2. QED
    BY <1>26, <1>29, <2>1 DEF At
<1>31. PICK s3 : s3 = IF y.donesecondkex THEN y ELSE encrypt_packet(y, [type |-> "EXT_INFO"])
  OBVIOUS
<1>32. /\ Sent(s3, y)
       /\ At("server", s3, a, View(s.kexinits, s.kexinits, 0, key, s3.transseq,
                                   n - Len(s.reply_queue), 0, key))
  <2>1. CASE y.donesecondkex
    <3>1. s3 = y
      BY <1>31, <2>1
    <3>2. QED
      BY <1>26, <1>27, <1>30, <3>1 DEF Sent, SameId, SameFlags, SameRecv, SameKeys
  <2>2. CASE ~y.donesecondkex
    <3>1. PICK h : h = [type |-> "EXT_INFO"]
      OBVIOUS
    <3>2. s3 = encrypt_packet(y, h)
      BY <1>31, <2>2, <3>1
    <3>3. PICK g : g = View(s.kexinits, s.kexinits, 0, key, y.transseq + 1,
                            n - Len(s.reply_queue), 0, key)
      OBVIOUS
    <3>4. /\ c.k = s.kexinits /\ c.t = s.kexinits /\ c.togo = 0 /\ c.key = key
          /\ c.seq = y.transseq /\ c.n = n - Len(s.reply_queue) /\ c.param = 0 /\ c.hash = key
      BY <1>27 DEF View
    <3>5. c.n \in Nat
      BY <1>29, ViewType
    <3>6. /\ g \in Views /\ g.k = s.kexinits /\ g.t = s.kexinits /\ g.togo = 0 /\ g.key = key
          /\ g.seq = y.transseq + 1 /\ g.n = c.n /\ g.param = 0 /\ g.hash = key
      BY <1>4, <1>5, <1>26, <3>3, <3>4, <3>5 DEF View, Views
    <3>7. h \in Messages /\ h.type = "EXT_INFO"
      BY <3>1 DEF Messages
    <3>8. c.k > 0
      BY <1>2, <1>4, <3>4
    <3>9. Carries(c, h, g)
      BY <3>4, <3>6, <3>7, <3>8 DEF Carries
    <3>10. Moves("server", c, h, g)
      BY <3>9 DEF Moves
    <3>11. Sent(s3, y) /\ s3.transseq = y.transseq + 1 /\ Chain("server", s3.out, a, g)
      BY <1>26, <1>30, <3>2, <3>6, <3>7, <3>10, Encrypt
    <3>12. s3.trans = key
      BY <1>26, <3>11 DEF Sent
    <3>13. At("server", s3, a, g)
      BY <3>6, <3>11, <3>12 DEF At
    <3>14. QED
      BY <3>3, <3>11, <3>13
  <2>3. QED
    BY <2>1, <2>2
<1>33. x = [s3 EXCEPT !.requirenext = "NEWKEYS"]
  <2>1. u.recvkexinit /\ Key(u.theirs, u.kexinits, m.param) = key
    BY <1>2, <1>6 DEF SameFlags, SameSend
  <2>2. QED
    BY <1>9, <1>16, <1>20, <1>24, <1>31, <2>1 DEF recv_msg_kexdh_init
<1>34. NextRequiredIs(x, s3, "NEWKEYS")
  <2>1. s3 \in Sessions /\ "NEWKEYS" \in Types \cup {"any"}
    BY <1>32 DEF Sent, Types
  <2>2. NextRequiredAs(x, s3, "NEWKEYS")
    BY <1>33, <2>1 DEF NextRequiredAs
  <2>3. QED
    BY <2>2, NextRequired
<1>35. /\ x \in Sessions /\ x.end = "server" /\ x.dataallowed /\ x.reply_queue = s.reply_queue
       /\ x.trans = key /\ x.newkey = key /\ x.kexinits = s.kexinits /\ x.param = s.param
       /\ x.session_id = id /\ x.out = s3.out /\ x.transseq = s3.transseq
       /\ x.sentkexinit /\ x.recvkexinit /\ x.sentnewkeys /\ ~x.recvnewkeys
  BY <1>11, <1>21, <1>25, <1>32, <1>34
     DEF Sent, NewkeysOut, NextRequiredIs, SameId, SameFlags, SameKeys, SameRecv, SameSend
<1>36. /\ x.recvvalid /\ ~x.transvalid /\ x.requirenext = "NEWKEYS" /\ x.ignorenext = s.ignorenext
       /\ x.recv = s.recv /\ x.theirs = s.theirs /\ x.recvseq = s.recvseq + 1
       /\ x.strict_kex = s.strict_kex /\ x.donefirstkex = TRUE
       /\ x.donesecondkex = s.donefirstkex
  BY <1>11, <1>21, <1>25, <1>32, <1>34
     DEF Sent, NewkeysOut, NextRequiredIs, SameId, SameFlags, SameKeys, SameRecv, SameSend
<1>37. s3.trans = key
  BY <1>26, <1>32 DEF Sent
<1>38. At("server", x, SendView("server", s, n),
          View(s.kexinits, s.kexinits, 0, key, x.transseq, n - Len(s.reply_queue), 0, key))
  BY <1>12, <1>32, <1>35, <1>37 DEF At
<1>39. QED
  BY <1>5, <1>7, <1>35, <1>36, <1>38 DEF DhTaken

\* The pass of the server that takes KEXDH_INIT.
LEMMA TakeDhInit ==
  ASSUME NEW s, NEW n, Ready("server", s, n), Agreeing("server", s), ~s.ignorenext,
         NEW pkt, Expected(s, pkt), NEW m, m = pkt.msg, m.type = "KEXDH_INIT",
         NEW key, key = Key(s.kexinits, s.kexinits, m.param),
         NEW good \in BOOLEAN, NEW r, r = RestOfPass(read_packet(s, pkt, good))
  PROVE  /\ Pass("server", s, n, r, n) /\ Switching(r)
         /\ r.theirs = s.theirs /\ r.recv = s.recv /\ r.recvseq = s.recvseq + 1
         /\ r.trans = key /\ r.kexinits = s.kexinits /\ r.param = s.param
         /\ r.session_id = (IF s.session_id = NoKey THEN key ELSE s.session_id)
<1>1. s \in Sessions /\ n \in Nat /\ EndOK("server", s, n) /\ ModeOK /\ s.out = << >>
  BY DEF Ready
<1>2. s.kexinits = s.trans.cli + 1 /\ s.recv.cli = s.trans.cli /\ s.theirs = s.kexinits
  BY DEF Agreeing
<1>3. s.donefirstkex = (s.trans.cli > 0) /\ (s.theirs > 0 => s.strict_kex = mode.strict)
  BY <1>1 DEF EndOK
<1>4. s.trans.cli \in Nat /\ s.kexinits \in Nat /\ s.donefirstkex \in BOOLEAN
  BY <1>1 DEF Sessions, Keys
<1>5. m \in Messages
  BY DEF Expected, Packets
<1>6. PICK u : /\ PacketTakenIs(u, s, s.recvseq + 1)
               /\ read_packet(s, pkt, good)
                    = [Dispatch(u, m, good) EXCEPT !.lastpacket = m.type]
  BY ReadPacket
<1>7. PICK x : x = recv_msg_kexdh_init(u, m)
  OBVIOUS
<1>8. PICK v : v = View(s.kexinits, s.kexinits, 0, key, x.transseq, n - Len(s.reply_queue), 0, key)
  OBVIOUS
<1>9. /\ key \in Keys /\ key.cli = s.kexinits
      /\ x \in Sessions /\ x.end = "server" /\ x.dataallowed /\ x.reply_queue = s.reply_queue
      /\ x.trans = key /\ x.newkey = key /\ x.kexinits = s.kexinits /\ x.param = s.param
      /\ x.session_id = (IF s.session_id = NoKey THEN key ELSE s.session_id)
      /\ x.sentkexinit /\ x.recvkexinit /\ x.sentnewkeys /\ ~x.recvnewkeys /\ x.recvvalid
      /\ ~x.transvalid /\ x.requirenext = "NEWKEYS" /\ x.ignorenext = s.ignorenext
      /\ x.recv = s.recv /\ x.theirs = s.theirs /\ x.recvseq = s.recvseq + 1
      /\ x.strict_kex = s.strict_kex /\ x.donefirstkex = TRUE
      /\ x.donesecondkex = s.donefirstkex
      /\ At("server", x, SendView("server", s, n), v)
  <2>1. DhTaken(s, n, key, x)
    BY <1>5, <1>6, <1>7, ReadDhInit
  <2>2. QED
    BY <1>8, <2>1 DEF DhTaken
<1>10. PICK z : z = [x EXCEPT !.lastpacket = "KEXDH_INIT"]
  OBVIOUS
<1>11. PacketDoneIs(z, x, "KEXDH_INIT")
  <2>1. x \in Sessions /\ "KEXDH_INIT" \in Types \cup {"none"}
    BY <1>9 DEF Types
  <2>2. PacketDoneAs(z, x, "KEXDH_INIT")
    BY <1>10, <2>1 DEF PacketDoneAs
  <2>3. QED
    BY <2>2, PacketDone
<1>12. r = RestOfPass(z)
  BY <1>6, <1>7, <1>10 DEF Dispatch
<1>13. /\ z \in Sessions /\ SameId(z, x) /\ SameFlags(z, x) /\ SameSend(z, x) /\ SameKeys(z, x)
       /\ z.requirenext = x.requirenext /\ z.ignorenext = x.ignorenext /\ z.recv = x.recv
       /\ z.theirs = x.theirs /\ z.recvseq = x.recvseq
  BY <1>11 DEF PacketDoneIs
<1>14. /\ z.end = "server" /\ z.dataallowed /\ z.reply_queue = s.reply_queue
       /\ At("server", z, SendView("server", s, n), v)
  BY <1>9, <1>13 DEF SameId, SameFlags, SameSend, At
<1>15. PICK f : f = maybe_flush_reply_queue(z)
  OBVIOUS
<1>16. r = f
  BY <1>12, <1>14, <1>15 DEF RestOfPass
<1>17. /\ v.k = s.kexinits /\ v.t = s.kexinits /\ v.togo = 0 /\ v.key = key
       /\ v.n = n - Len(s.reply_queue) /\ v.param = 0 /\ v.hash = key
  BY <1>8 DEF View
<1>18. /\ Flushed(f, z)
       /\ Chain("server", f.out, SendView("server", s, n),
                View(v.k, v.t, v.togo, v.key, f.transseq, n, v.param, v.hash))
  <2>1. v.k > 0 /\ v.t = v.k
    BY <1>2, <1>4, <1>17
  <2>2. QED
    BY <1>13, <1>14, <1>15, <1>17, <2>1, FlushAll
<1>19. /\ r \in Sessions /\ r.end = "server" /\ r.dataallowed /\ r.reply_queue = << >>
       /\ r.trans = key /\ r.newkey = key /\ r.kexinits = s.kexinits /\ r.param = s.param
       /\ r.session_id = (IF s.session_id = NoKey THEN key ELSE s.session_id)
       /\ r.sentkexinit /\ r.recvkexinit /\ r.sentnewkeys /\ ~r.recvnewkeys
  BY <1>9, <1>13, <1>14, <1>16, <1>18 DEF Flushed, SameId, SameFlags, SameSend, SameKeys
<1>20. /\ r.recvvalid /\ ~r.transvalid /\ r.requirenext = "NEWKEYS" /\ ~r.ignorenext
       /\ r.recv = s.recv /\ r.theirs = s.theirs /\ r.recvseq = s.recvseq + 1
       /\ r.strict_kex = s.strict_kex /\ r.donefirstkex = TRUE
       /\ r.donesecondkex = s.donefirstkex
  BY <1>9, <1>13, <1>16, <1>18 DEF Flushed, SameId, SameKeys, SameRecv
<1>21. Switching(r)
  BY <1>2, <1>9, <1>19, <1>20 DEF Switching
<1>22. EndOK("server", r, n)
  <2>1. QueueOK(r, n)
    BY <1>1, <1>19, EmptySeq DEF QueueOK
  <2>2. /\ r.donefirstkex = (r.trans.cli > 0) /\ r.donesecondkex = (r.trans.cli > 1)
    <3>1. r.trans.cli = s.trans.cli + 1
      BY <1>2, <1>9, <1>19
    <3>2. r.trans.cli > 0 /\ (r.trans.cli > 1) = (s.trans.cli > 0)
      BY <1>4, <3>1
    <3>3. QED
      BY <1>3, <1>4, <1>20, <3>2
  <2>3. (r.theirs > 0 => r.strict_kex = mode.strict) /\ r.theirs # 0
    BY <1>2, <1>3, <1>4, <1>20
  <2>4. QED
    BY <1>19, <1>21, <2>1, <2>2, <2>3 DEF EndOK
<1>23. SendView("server", r, n) = View(v.k, v.t, v.togo, v.key, f.transseq, n, v.param, v.hash)
  <2>1. Owed("server", r) = 0
    BY <1>19 DEF Owed
  <2>2. n - Len(r.reply_queue) = n
    BY <1>1, <1>19, EmptySeq
  <2>3. QED
    BY <1>9, <1>16, <1>17, <1>19, <2>1, <2>2 DEF SendView
<1>24. Pass("server", s, n, r, n)
  BY <1>16, <1>18, <1>19, <1>22, <1>23 DEF Pass
<1>25. QED
  BY <1>19, <1>20, <1>21, <1>24

\* Nothing changes but the output, the sequence number and the queue.
Wrote(r, s) ==
    /\ r \in Sessions /\ SameId(r, s) /\ SameFlags(r, s) /\ SameRecv(r, s) /\ SameKeys(r, s)
    /\ r.trans = s.trans /\ r.kexinits = s.kexinits /\ r.param = s.param

\* Writing leaves an end in order as long as its queue is.
LEMMA WroteOK ==
  ASSUME NEW e \in End, NEW s, NEW n, EndOK(e, s, n), NEW r, Wrote(r, s), NEW k, QueueOK(r, k)
  PROVE  EndOK(e, r, k)
<1>1. EndOK(e, s, n)
  OBVIOUS
<1>2. /\ s.end = e /\ ~s.recvnewkeys
      /\ Idle(s) \/ Begun(s) \/ Agreeing(e, s) \/ Switching(s)
      /\ s.donefirstkex = (s.trans.cli > 0) /\ s.donesecondkex = (s.trans.cli > 1)
      /\ s.theirs > 0 => s.strict_kex = mode.strict
      /\ s.theirs = 0 => s.recvseq = 0
      /\ e = "client" => ClientOK(s)
  BY <1>1 DEF EndOK
<1>3. /\ SameId(r, s) /\ SameFlags(r, s) /\ SameRecv(r, s) /\ SameKeys(r, s)
      /\ r.trans = s.trans /\ r.kexinits = s.kexinits
  BY DEF Wrote
<1>4. /\ r.end = e /\ ~r.recvnewkeys
      /\ r.donefirstkex = (r.trans.cli > 0) /\ r.donesecondkex = (r.trans.cli > 1)
      /\ r.theirs > 0 => r.strict_kex = mode.strict
      /\ r.theirs = 0 => r.recvseq = 0
  BY <1>2, <1>3 DEF SameId, SameFlags, SameRecv
<1>5. Idle(s) => Idle(r)
  BY <1>3 DEF Idle, SameFlags, SameRecv
<1>6. Begun(s) => Begun(r)
  BY <1>3 DEF Begun, SameFlags, SameRecv
<1>7. Agreeing(e, s) = Agreeing(e, r)
  BY <1>3 DEF Agreeing, SameFlags, SameRecv
<1>8. Switching(s) => Switching(r)
  BY <1>3 DEF Switching, SameFlags, SameRecv, SameKeys
<1>9. e = "client" => ClientOK(r)
  <2>1. r.kex_state = s.kex_state /\ r.lastpacket = s.lastpacket
    BY <1>3 DEF SameKeys, SameRecv
  <2>2. QED
    BY <1>2, <1>7, <2>1 DEF ClientOK
<1>10. QED
  BY <1>2, <1>4, <1>5, <1>6, <1>7, <1>8, <1>9 DEF EndOK

\* What a data packet more changes.
LEMMA Differences ==
  ASSUME NEW n \in Nat, NEW l \in Nat
  PROVE  (n + 1) - 0 = n + 1 /\ (n + 1) - (l + 1) = n - l
  OBVIOUS

\* SendData: the packet is sent, or queued.
LEMMA MakeData ==
  ASSUME NEW e \in End, NEW s, NEW n, Ready(e, s, n),
         NEW r, r = encrypt_packet(s, [type |-> "DATA", n |-> n + 1])
  PROVE  Pass(e, s, n, r, n + 1) /\ Wrote(r, s)
<1>1. /\ s \in Sessions /\ n \in Nat /\ EndOK(e, s, n) /\ s.out = << >> /\ QueueOK(s, n)
      /\ s.dataallowed \in BOOLEAN
  BY DEF Ready, EndOK, Sessions
<1>2. PICK m : m = [type |-> "DATA", n |-> n + 1]
  OBVIOUS
<1>3. m \in Messages /\ m.type = "DATA" /\ m.n = n + 1
  BY <1>1, <1>2 DEF Messages
<1>4. PICK a : a = SendView(e, s, n)
  OBVIOUS
<1>5. a \in Views /\ At(e, s, a, a)
  BY <1>1, <1>4, AtStart, SendViewType
<1>6. /\ a.k = s.kexinits /\ a.t = s.trans.cli /\ a.togo = Owed(e, s) /\ a.key = s.trans
      /\ a.seq = s.transseq
      /\ a.n = n - Len(s.reply_queue) /\ a.param = (IF e = "client" THEN s.param ELSE 0)
      /\ a.hash = (IF e = "client" THEN NoKey ELSE s.newkey)
  BY <1>4, SendViewFields
<1>7. CASE s.dataallowed
  <2>1. s.reply_queue = << >> /\ Len(s.reply_queue) = 0
    BY <1>1, <1>7, EmptySeq DEF QueueOK
  <2>2. s.kexinits > 0 /\ s.trans.cli = s.kexinits
    <3>1. Idle(s) \/ Switching(s)
      BY <1>1, <1>7 DEF EndOK, Begun, Agreeing
    <3>2. s.kexinits \in Nat /\ s.recv.cli \in Nat
      BY <1>1 DEF Sessions, Keys
    <3>3. QED
      BY <3>1, <3>2 DEF Idle, Switching
  <2>3. a.n = n
    BY <1>1, <1>6, <2>1
  <2>4. PICK c : c = View(a.k, a.t, a.togo, a.key, a.seq + 1, n + 1, a.param, a.hash)
    OBVIOUS
  <2>5. /\ c \in Views /\ c.k = a.k /\ c.t = a.t /\ c.togo = a.togo /\ c.key = a.key
        /\ c.seq = a.seq + 1 /\ c.n = n + 1 /\ c.param = a.param /\ c.hash = a.hash
    BY <1>1, <1>5, <2>4, ViewType DEF View, Views
  <2>6. Carries(a, m, c)
    BY <1>3, <1>6, <2>2, <2>3, <2>5 DEF Carries
  <2>7. Moves(e, a, m, c)
    BY <2>6 DEF Moves
  <2>8. Sent(r, s) /\ r.transseq = s.transseq + 1 /\ Chain(e, r.out, a, c)
    BY <1>1, <1>2, <1>3, <1>5, <1>7, <2>5, <2>7, Encrypt
  <2>9. Wrote(r, s) /\ r.reply_queue = << >>
    BY <2>1, <2>8 DEF Sent, Wrote
  <2>10. QueueOK(r, n + 1)
    <3>1. Len(r.reply_queue) = 0
      BY <2>1, <2>9
    <3>2. Len(r.reply_queue) <= n + 1 /\ 1..Len(r.reply_queue) = {}
      BY <1>1, <3>1
    <3>3. QED
      BY <2>9, <3>2 DEF QueueOK
  <2>11. SendView(e, r, n + 1) = c
    <3>1. Owed(e, r) = Owed(e, s)
      BY <2>8 DEF Owed, Sent, SameFlags
    <3>2. r.newkey = s.newkey
      BY <2>8 DEF Sent, SameKeys
    <3>3. (n + 1) - Len(r.reply_queue) = n + 1
      <4>1. Len(r.reply_queue) = 0
        BY <2>1, <2>9
      <4>2. QED
        BY <1>1, <4>1, Differences
    <3>4. QED
      BY <1>6, <2>4, <2>8, <2>9, <3>1, <3>2, <3>3 DEF SendView, Wrote
  <2>12. r \in Sessions /\ EndOK(e, r, n + 1)
    BY <2>9, <2>10, WroteOK DEF Wrote, Ready
  <2>13. QED
    BY <1>4, <2>8, <2>9, <2>11, <2>12 DEF Pass
<1>8. CASE ~s.dataallowed
  <2>1. PICK q : q = Append(s.reply_queue, m)
    OBVIOUS
  <2>2. PICK L : L = Len(s.reply_queue)
    OBVIOUS
  <2>3. s.reply_queue \in Seq(Messages)
    BY <1>1 DEF Sessions
  <2>4. /\ q \in Seq(Messages) /\ Len(q) = L + 1 /\ L \in Nat
        /\ \A i \in 1..L : q[i] = s.reply_queue[i]
        /\ q[L + 1] = m
    BY <1>3, <2>1, <2>2, <2>3, AppendProperties, LenProperties
  <2>5. r = [s EXCEPT !.reply_queue = q]
    BY <1>2, <1>3, <1>8, <2>1 DEF encrypt_packet, packet_is_okay_kex
  <2>6. PacketQueuedIs(r, s, q)
    <3>1. PacketQueuedAs(r, s, q)
      BY <1>1, <2>4, <2>5 DEF PacketQueuedAs
    <3>2. QED
      BY <3>1, PacketQueued
  <2>7. Wrote(r, s) /\ r.reply_queue = q /\ r.out = s.out /\ r.transseq = s.transseq
    BY <2>6 DEF PacketQueuedIs, Wrote
  <2>8. L <= n /\ \A i \in 1..L : s.reply_queue[i] = [type |-> "DATA", n |-> n - L + i]
    BY <1>1, <2>2 DEF QueueOK
  <2>9. ASSUME NEW i \in 1..(L + 1) PROVE q[i] = [type |-> "DATA", n |-> (n + 1) - (L + 1) + i]
    <3>1. CASE i = L + 1
      <4>1. (n + 1) - (L + 1) + i = n + 1
        BY <1>1, <2>4, <3>1
      <4>2. QED
        BY <1>2, <2>4, <3>1, <4>1
    <3>2. CASE i # L + 1
      <4>1. i \in 1..L /\ (n + 1) - (L + 1) + i = n - L + i
        BY <1>1, <2>4, <3>2
      <4>2. QED
        BY <2>4, <2>8, <4>1
    <3>3. QED
      BY <3>1, <3>2
  <2>10. ~r.dataallowed
    BY <1>8, <2>7 DEF Wrote, SameFlags
  <2>11. QueueOK(r, n + 1)
    <3>1. Len(q) <= n + 1
      BY <1>1, <2>4, <2>8
    <3>2. QED
      BY <2>4, <2>7, <2>9, <2>10, <3>1 DEF QueueOK
  <2>12. SendView(e, r, n + 1) = a
    <3>1. Owed(e, r) = Owed(e, s)
      BY <2>7 DEF Owed, Wrote, SameFlags
    <3>2. r.newkey = s.newkey
      BY <2>7 DEF Wrote, SameKeys
    <3>3. (n + 1) - Len(r.reply_queue) = n - Len(s.reply_queue)
      <4>1. Len(r.reply_queue) = L + 1
        BY <2>4, <2>7
      <4>2. QED
        BY <1>1, <2>2, <2>4, <4>1, Differences
    <3>4. QED
      BY <1>4, <2>7, <3>1, <3>2, <3>3 DEF SendView, Wrote
  <2>13. r \in Sessions /\ EndOK(e, r, n + 1)
    BY <2>7, <2>11, WroteOK DEF Wrote, Ready
  <2>14. Chain(e, r.out, a, a)
    BY <1>5, <2>7 DEF At
  <2>15. QED
    BY <1>4, <2>7, <2>12, <2>13, <2>14 DEF Pass
<1>9. QED
  BY <1>1, <1>7, <1>8

\* Rekey: an exchange is started.
LEMMA StartRekey ==
  ASSUME NEW e \in End, NEW s, NEW n, Ready(e, s, n), ~s.sentkexinit,
         NEW good \in BOOLEAN, NEW r, r = RestOfPass(send_msg_kexinit(s, good))
  PROVE  /\ Pass(e, s, n, r, n) /\ Begun(r) /\ SameRecv(r, s)
         /\ r.trans = s.trans /\ r.kexinits = s.kexinits + 1 /\ r.session_id = s.session_id
         /\ Idle(s)
<1>1. s \in Sessions /\ n \in Nat /\ EndOK(e, s, n) /\ ModeOK /\ s.out = << >>
  BY DEF Ready
<1>2. Idle(s)
  BY <1>1 DEF EndOK, Begun, Agreeing, Switching
<1>3. /\ s.kexinits > 0 /\ s.trans.cli = s.kexinits /\ s.recv.cli = s.kexinits
      /\ s.theirs = s.kexinits
      /\ ~s.sentkexinit /\ ~s.recvkexinit /\ ~s.sentnewkeys /\ s.dataallowed
      /\ s.requirenext = "any" /\ ~s.ignorenext /\ ~s.our_first_follows_matches
  BY <1>2 DEF Idle
<1>4. /\ s.end = e /\ ~s.recvnewkeys /\ QueueOK(s, n)
      /\ s.donefirstkex = (s.trans.cli > 0) /\ s.donesecondkex = (s.trans.cli > 1)
      /\ (s.theirs > 0 => s.strict_kex = mode.strict)
      /\ (e = "client" => s.kex_state = "KEX_NOTHING" /\ s.lastpacket # "KEXINIT")
  BY <1>1, <1>3 DEF EndOK, ClientOK, Agreeing
<1>5. Opening(e, s, n)
  <2>1. SendView(e, s, n) \in Views
    BY <1>1, SendViewType
  <2>2. s.sentkexinit = ~s.dataallowed
    BY <1>1, <1>3 DEF Sessions
  <2>3. QED
    BY <1>1, <1>3, <1>4, <2>1, <2>2 DEF Opening
<1>6. PICK y : y = send_msg_kexinit(s, good)
  OBVIOUS
<1>7. Opened(e, y, s, n)
  BY <1>1, <1>3, <1>5, <1>6, Open
<1>8. /\ y \in Sessions /\ SameId(y, s) /\ SameRecv(y, s)
      /\ ~y.dataallowed /\ y.sentkexinit /\ ~y.recvkexinit /\ ~y.sentnewkeys /\ ~y.recvnewkeys
      /\ ~y.our_first_follows_matches /\ y.kex_state = s.kex_state
      /\ y.trans = s.trans /\ y.reply_queue = s.reply_queue
      /\ y.kexinits = s.kexinits + 1
      /\ Chain(e, y.out, SendView(e, s, n), SendView(e, y, n))
  BY <1>3, <1>4, <1>7 DEF Opened
<1>9. y.end = e /\ y.lastpacket = s.lastpacket
  BY <1>4, <1>8 DEF SameId, SameRecv
<1>10. r = y
  <2>1. maybe_flush_reply_queue(y) = y
    BY <1>8 DEF maybe_flush_reply_queue
  <2>2. y.end = "client" => y.kex_state = "KEX_NOTHING" /\ y.lastpacket # "KEXINIT"
    BY <1>4, <1>8, <1>9
  <2>3. RestOfPass(y) = y
    BY <1>9, <2>1, <2>2, LoopIdle
  <2>4. QED
    BY <1>6, <2>3
<1>11. Begun(r)
  <2>1. s.kexinits \in Nat
    BY <1>1 DEF Sessions
  <2>2. y.kexinits # 1
    BY <1>3, <1>8, <2>1
  <2>3. QED
    BY <1>3, <1>8, <1>10, <2>2 DEF Begun, SameRecv
<1>12. EndOK(e, r, n)
  <2>1. QueueOK(r, n)
    BY <1>4, <1>8, <1>10 DEF QueueOK
  <2>2. e = "client" => ClientOK(r)
    BY <1>4, <1>8, <1>9, <1>10 DEF ClientOK, Agreeing
  <2>3. /\ r.donefirstkex = (r.trans.cli > 0) /\ r.donesecondkex = (r.trans.cli > 1)
        /\ (r.theirs > 0 => r.strict_kex = mode.strict)
    BY <1>4, <1>8, <1>10 DEF SameId, SameRecv
  <2>4. r.theirs # 0
    BY <1>3, <1>8, <1>10 DEF SameRecv
  <2>5. QED
    BY <1>8, <1>9, <1>10, <1>11, <2>1, <2>2, <2>3, <2>4 DEF EndOK
<1>13. Pass(e, s, n, r, n)
  BY <1>8, <1>10, <1>12 DEF Pass
<1>14. QED
  BY <1>2, <1>8, <1>10, <1>11, <1>13 DEF SameId

-----------------------------------------------------------------------------
(***************************************************************************)
(* The two ends together.                                                  *)
(***************************************************************************)
\* The packets w on their way to s, which has received l data packets, lead
\* from where s stands to where its peer t stands, which has made k.
Linked(e, s, l, w, t, k) ==
    \E v : RecvView(s, l, v) /\ Chain(Peer(e), w, v, SendView(Peer(e), t, k))

\* The server changes over first; the keys of an exchange are the same at both
\* ends, and come from the client's last DH value.
Agreement(c, s) ==
    /\ c.trans.cli <= s.trans.cli
    /\ c.trans.cli = s.trans.cli => c.trans = s.trans
    /\ s.trans.cli = c.kexinits => s.trans = Key(c.kexinits, c.kexinits, c.param)
\* The session id is the key of the first exchange.
Identified(c, s) ==
    /\ s.trans.cli = 0 => s.session_id = NoKey
    /\ s.trans.cli = 1 => s.session_id = s.trans
    /\ s.trans.cli > 0 => s.session_id # NoKey
    /\ c.trans.cli = 0 => c.session_id = NoKey
    /\ c.trans.cli > 0 => c.session_id = s.session_id
\* Both, seen from either end.
Cross(e, s, t) ==
    IF e = "client" THEN Agreement(s, t) /\ Identified(s, t)
    ELSE Agreement(t, s) /\ Identified(t, s)

\* How an end's own counts compare.
LEMMA Numbers ==
  ASSUME NEW e \in End, NEW s, NEW n, Ready(e, s, n)
  PROVE  /\ s.trans.cli \in Nat /\ s.recv.cli \in Nat /\ s.kexinits \in Nat /\ s.theirs \in Nat
         /\ s.trans.cli <= s.theirs /\ s.kexinits <= s.recv.cli + 1
         /\ s.recv.cli <= s.trans.cli /\ s.trans.cli <= s.kexinits
         /\ s.kexinits <= s.trans.cli + 1
         /\ s.theirs = s.trans.cli => Awaited(s) = 0
         /\ Owed(e, s) = 0 /\ e = "server" => s.trans.cli = s.kexinits
<1>1. s \in Sessions /\ EndOK(e, s, n)
  BY DEF Ready
<1>2. s.trans.cli \in Nat /\ s.recv.cli \in Nat /\ s.kexinits \in Nat /\ s.theirs \in Nat
  BY <1>1 DEF Sessions, Keys
<1>3. CASE Idle(s)
  BY <1>2, <1>3 DEF Idle, Awaited
<1>4. CASE Begun(s)
  BY <1>2, <1>4 DEF Begun, Awaited, Owed
<1>5. CASE Agreeing(e, s)
  BY <1>2, <1>5 DEF Agreeing, Awaited, Owed
<1>6. CASE Switching(s)
  BY <1>2, <1>6 DEF Switching, Awaited
<1>7. QED
  BY <1>1, <1>3, <1>4, <1>5, <1>6 DEF EndOK

\* What an end has read is behind what its peer has sent.
LEMMA LinkedBounds ==
  ASSUME NEW e \in End, NEW s, NEW l, NEW w, NEW t, NEW k, Linked(e, s, l, w, t, k)
  PROVE  /\ s.recv.cli <= t.trans.cli /\ s.theirs <= t.kexinits
         /\ l <= k - Len(t.reply_queue)
         /\ s.theirs = t.kexinits => Owed(Peer(e), t) <= Awaited(s)
<1>1. PICK v : RecvView(s, l, v) /\ Chain(Peer(e), w, v, SendView(Peer(e), t, k))
  BY DEF Linked
<1>2. Peer(e) \in End
  BY Peers DEF End
<1>3. PICK b : b = SendView(Peer(e), t, k)
  OBVIOUS
<1>4. Later(Peer(e), v, b)
  BY <1>1, <1>2, <1>3, ChainLater
<1>5. /\ b.k = t.kexinits /\ b.t = t.trans.cli /\ b.togo = Owed(Peer(e), t)
      /\ b.n = k - Len(t.reply_queue)
  BY <1>3, SendViewFields
<1>6. v.k = s.theirs /\ v.t = s.recv.cli /\ v.togo = Awaited(s) /\ v.n = l
  BY <1>1 DEF RecvView
<1>7. QED
  BY <1>4, <1>5, <1>6 DEF Later

\* What can arrive in each phase, and that it is expected there.
LEMMA Arrival ==
  ASSUME NEW e \in End, NEW s, NEW n, Ready(e, s, n), NEW l, NEW v \in Views, RecvView(s, l, v),
         NEW pkt \in Packets, NEW c, Edge(Peer(e), v, pkt, c), NEW m, m = pkt.msg
  PROVE  /\ Expected(s, pkt)
         /\ \/ (Idle(s) \/ Begun(s)) /\ Begins(Peer(e), v, m, c)
            \/ (Idle(s) \/ Begun(s)) /\ Carries(v, m, c)
            \/ Agreeing(e, s) /\ Exchanges(Peer(e), v, m, c)
            \/ Switching(s) /\ Switches(Peer(e), v, m, c)
<1>1. s \in Sessions /\ EndOK(e, s, n)
  BY DEF Ready
<1>2. /\ v.k = s.theirs /\ v.t = s.recv.cli /\ v.togo = Awaited(s)
      /\ v.key = s.recv /\ v.seq = s.recvseq
  BY DEF RecvView
<1>3. /\ s.trans.cli \in Nat /\ s.recv.cli \in Nat /\ s.kexinits \in Nat /\ s.theirs \in Nat
  BY <1>1 DEF Sessions, Keys
<1>4. /\ pkt.key = s.recv /\ pkt.seq = s.recvseq /\ Moves(Peer(e), v, m, c)
  BY <1>2 DEF Edge
<1>5. CASE Idle(s)
  <2>1. v.togo = 0 /\ v.t = v.k /\ s.requirenext = "any"
    BY <1>2, <1>5 DEF Idle, Awaited
  <2>2. Begins(Peer(e), v, m, c) \/ Carries(v, m, c)
    BY <1>2, <1>3, <1>4, <2>1 DEF Moves, Exchanges, Switches
  <2>3. QED
    BY <1>1, <1>4, <1>5, <2>1, <2>2 DEF Expected
<1>6. CASE Begun(s)
  <2>1. /\ v.togo = 0 /\ v.t = v.k /\ s.requirenext = (IF s.kexinits = 1 THEN "KEXINIT" ELSE "any")
        /\ s.kexinits = v.k + 1
    BY <1>2, <1>6 DEF Begun, Awaited
  <2>2. Begins(Peer(e), v, m, c) \/ Carries(v, m, c)
    BY <1>2, <1>3, <1>4, <2>1 DEF Moves, Exchanges, Switches
  <2>3. s.requirenext \in {"any", m.type}
    BY <1>2, <1>3, <2>1, <2>2 DEF Begins, Carries
  <2>4. QED
    BY <1>1, <1>4, <1>6, <2>2, <2>3 DEF Expected
<1>7. CASE Agreeing(e, s)
  <2>1. v.togo > 0 /\ v.t < v.k /\ s.requirenext = DH(Peer(e))
    BY <1>2, <1>3, <1>7 DEF Agreeing, Awaited
  <2>2. Exchanges(Peer(e), v, m, c)
    BY <1>2, <1>3, <1>4, <2>1 DEF Moves, Begins, Carries, Switches
  <2>3. s.requirenext \in {"any", m.type}
    BY <2>1, <2>2 DEF Exchanges
  <2>4. QED
    BY <1>1, <1>4, <1>7, <2>2, <2>3 DEF Expected
<1>8. CASE Switching(s)
  <2>1. v.togo = 0 /\ v.t < v.k /\ s.requirenext = "NEWKEYS"
    BY <1>2, <1>3, <1>8 DEF Switching, Awaited
  <2>2. Switches(Peer(e), v, m, c)
    BY <1>2, <1>3, <1>4, <2>1 DEF Moves, Begins, Carries, Exchanges
  <2>3. s.requirenext \in {"any", m.type}
    BY <2>1, <2>2 DEF Switches
  <2>4. QED
    BY <1>1, <1>4, <1>8, <2>2, <2>3 DEF Expected
<1>9. QED
  BY <1>1, <1>5, <1>6, <1>7, <1>8 DEF EndOK

-----------------------------------------------------------------------------
(***************************************************************************)
(* A packet arrives: pkt, with which the stream of the peer t goes from v  *)
(* to c, comes to s.  The last lines are what the stream the other way,    *)
(* and what both ends have agreed on, say about s.                         *)
(***************************************************************************)
Incoming(e, s, n, pkt, v, c, t, k) ==
    /\ Ready(e, s, n) /\ Ready(Peer(e), t, k)
    /\ v \in Views /\ c \in Views /\ pkt \in Packets /\ RecvView(s, v.n, v)
    /\ Edge(Peer(e), v, pkt, c) /\ Later(Peer(e), c, SendView(Peer(e), t, k))
    /\ t.recv.cli <= s.trans.cli /\ t.theirs <= s.kexinits
    /\ t.theirs = s.kexinits => Owed(e, s) <= Awaited(t)
    /\ Cross(e, s, t)
\* What a pass that reads it leaves behind.
Taken(e, s, n, c, t, r) ==
    Pass(e, s, n, r, n) /\ RecvView(r, c.n, c) /\ Cross(e, r, t)

\* What the end reading a stream may conclude about the end that writes it.
Ahead(e, c, t) ==
    /\ c.k <= t.kexinits /\ c.t <= t.trans.cli
    /\ c.k = t.kexinits =>
         /\ Owed(Peer(e), t) <= c.togo
         /\ (e = "server" /\ Owed(Peer(e), t) = c.togo) => t.param = c.param
    /\ c.t = t.trans.cli => t.trans = c.key
    /\ (e = "client" /\ c.k = t.kexinits /\ c.togo = 0 /\ c.t < t.trans.cli) => t.trans = c.hash
\* The sender of a packet is ahead of its reader.
LEMMA IsAhead ==
  ASSUME NEW e \in End, NEW s, NEW n, NEW pkt, NEW v, NEW c, NEW t, NEW k,
         Incoming(e, s, n, pkt, v, c, t, k)
  PROVE  Ahead(e, c, t)
<1>1. PICK b : b = SendView(Peer(e), t, k)
  OBVIOUS
<1>2. Later(Peer(e), c, b)
  BY <1>1 DEF Incoming
<1>3. /\ b.k = t.kexinits /\ b.t = t.trans.cli /\ b.togo = Owed(Peer(e), t) /\ b.key = t.trans
      /\ b.param = (IF Peer(e) = "client" THEN t.param ELSE 0)
  BY <1>1, SendViewFields
<1>4. (e = "server" => Peer(e) = "client") /\ (e = "client" => Peer(e) = "server")
  BY Peers
<1>5. QED
  BY <1>2, <1>3, <1>4 DEF Ahead, Later

\* The numbers of both ends.
Counts(s, t) ==
    /\ s.trans.cli \in Nat /\ s.recv.cli \in Nat /\ s.kexinits \in Nat /\ s.theirs \in Nat
    /\ t.trans.cli \in Nat /\ t.recv.cli \in Nat /\ t.kexinits \in Nat /\ t.theirs \in Nat
    /\ t.trans.cli <= t.theirs /\ t.kexinits <= t.recv.cli + 1 /\ t.recv.cli <= t.trans.cli
    /\ t.trans.cli <= t.kexinits /\ t.kexinits <= t.trans.cli + 1
    /\ t.theirs = t.trans.cli => Awaited(t) = 0
    /\ t.recv.cli <= s.trans.cli /\ t.theirs <= s.kexinits
\* How the counts of the two ends compare when a packet arrives.
LEMMA IncomingCounts ==
  ASSUME NEW e \in End, NEW s, NEW n, NEW pkt, NEW v, NEW c, NEW t, NEW k,
         Incoming(e, s, n, pkt, v, c, t, k)
  PROVE  Counts(s, t) /\ (e = "client" /\ Owed(Peer(e), t) = 0 => t.trans.cli = t.kexinits)
<1>1. Peer(e) \in End /\ (e = "client" => Peer(e) = "server")
  BY Peers DEF End
<1>2. Ready(e, s, n) /\ Ready(Peer(e), t, k) /\ t.recv.cli <= s.trans.cli /\ t.theirs <= s.kexinits
  BY DEF Incoming
<1>3. s.trans.cli \in Nat /\ s.recv.cli \in Nat /\ s.kexinits \in Nat /\ s.theirs \in Nat
  BY <1>2, Numbers
<1>4. /\ t.trans.cli \in Nat /\ t.recv.cli \in Nat /\ t.kexinits \in Nat /\ t.theirs \in Nat
      /\ t.trans.cli <= t.theirs /\ t.kexinits <= t.recv.cli + 1
      /\ t.recv.cli <= t.trans.cli /\ t.trans.cli <= t.kexinits
      /\ t.kexinits <= t.trans.cli + 1
      /\ t.theirs = t.trans.cli => Awaited(t) = 0
      /\ Owed(Peer(e), t) = 0 /\ Peer(e) = "server" => t.trans.cli = t.kexinits
  BY <1>1, <1>2, Numbers
<1>5. QED
  BY <1>1, <1>2, <1>3, <1>4 DEF Counts

\* The agreement survives when an end keeps its keys and its part in them.
LEMMA CrossSame ==
  ASSUME NEW e \in End, NEW s, NEW t, NEW r, Cross(e, s, t), r.trans = s.trans,
         r.session_id = s.session_id,
         e = "client" => \/ r.kexinits = s.kexinits /\ r.param = s.param
                         \/ t.trans.cli # r.kexinits
  PROVE  Cross(e, r, t)
<1>1. CASE e = "client"
  <2>1. Agreement(s, t) /\ Identified(s, t)
    BY <1>1 DEF Cross
  <2>2. Agreement(r, t)
    BY <1>1, <2>1 DEF Agreement
  <2>3. Identified(r, t)
    BY <2>1 DEF Identified
  <2>4. QED
    BY <1>1, <2>2, <2>3 DEF Cross
<1>2. CASE e = "server"
  <2>1. Agreement(t, s) /\ Identified(t, s) /\ e # "client"
    BY <1>2 DEF Cross
  <2>2. Agreement(t, r) /\ Identified(t, r)
    BY <2>1 DEF Agreement, Identified
  <2>3. QED
    BY <2>1, <2>2 DEF Cross
<1>3. QED
  BY <1>1, <1>2 DEF End

\* A KEXINIT arrives, as a start or as the answer to our own.
LEMMA TakenKexinit ==
  ASSUME NEW e \in End, NEW s, NEW n, NEW pkt, NEW v, NEW c, NEW t, NEW k,
         Incoming(e, s, n, pkt, v, c, t, k), Expected(s, pkt), Idle(s) \/ Begun(s),
         NEW m, m = pkt.msg, Begins(Peer(e), v, m, c),
         NEW good \in BOOLEAN, NEW r, r = RestOfPass(read_packet(s, pkt, good))
  PROVE  Taken(e, s, n, c, t, r)
<1>1. /\ Ready(e, s, n) /\ RecvView(s, v.n, v) /\ Cross(e, s, t)
      /\ t.theirs = s.kexinits => Owed(e, s) <= Awaited(t)
  BY DEF Incoming
<1>2. /\ v.k = s.theirs /\ v.t = s.recv.cli /\ v.key = s.recv /\ v.seq = s.recvseq
  BY <1>1 DEF RecvView
<1>3. /\ m.type = "KEXINIT" /\ m.id = v.k + 1 /\ c.k = v.k + 1 /\ c.t = v.t /\ c.key = v.key
      /\ c.seq = v.seq + 1 /\ c.togo = (IF m.follows /\ ~m.good THEN 2 ELSE 1)
  BY DEF Begins
<1>4. m.id = s.trans.cli + 1
  <2>1. s.theirs = s.trans.cli
    BY DEF Idle, Begun
  <2>2. QED
    BY <1>2, <1>3, <2>1
<1>5. e = "client" => ~m.follows
  BY Peers DEF Begins
<1>6. /\ Pass(e, s, n, r, n) /\ Agreeing(e, r)
      /\ r.theirs = m.id /\ r.recv = s.recv /\ r.recvseq = s.recvseq + 1
      /\ r.ignorenext = (m.follows /\ ~m.good)
      /\ r.trans = s.trans /\ r.session_id = s.session_id
      /\ \/ s.sentkexinit /\ r.kexinits = s.kexinits /\ r.param = s.param
         \/ s.sentkexinit /\ r.kexinits = s.kexinits /\ Owed(e, s) = 1
         \/ r.kexinits = s.kexinits + 1
  BY <1>1, <1>3, <1>4, <1>5, TakeKexinit
<1>7. RecvView(r, c.n, c)
  <2>1. Awaited(r) = (IF m.follows /\ ~m.good THEN 2 ELSE 1)
    BY <1>6 DEF Agreeing, Awaited
  <2>2. QED
    BY <1>2, <1>3, <1>6, <2>1 DEF RecvView
<1>8. Counts(s, t)
  BY IncomingCounts
<1>9. e = "client" => \/ r.kexinits = s.kexinits /\ r.param = s.param
                      \/ t.trans.cli # r.kexinits
  <2>1. ASSUME r.kexinits = s.kexinits, Owed(e, s) = 1, t.trans.cli = r.kexinits PROVE FALSE
    BY <1>1, <1>8, <2>1 DEF Counts
  <2>2. ASSUME r.kexinits = s.kexinits + 1, t.trans.cli = r.kexinits PROVE FALSE
    BY <1>8, <2>2 DEF Counts
  <2>3. QED
    BY <1>6, <2>1, <2>2
<1>10. Cross(e, r, t)
  BY <1>1, <1>6, <1>9, CrossSame
<1>11. QED
  BY <1>6, <1>7, <1>10 DEF Taken

\* Data arrives between exchanges, or after our KEXINIT and before theirs.
LEMMA TakenData ==
  ASSUME NEW e \in End, NEW s, NEW n, NEW pkt, NEW v, NEW c, NEW t, NEW k,
         Incoming(e, s, n, pkt, v, c, t, k), Expected(s, pkt), Idle(s) \/ Begun(s),
         NEW m, m = pkt.msg, Carries(v, m, c),
         NEW good \in BOOLEAN, NEW r, r = RestOfPass(read_packet(s, pkt, good))
  PROVE  Taken(e, s, n, c, t, r)
<1>1. Ready(e, s, n) /\ RecvView(s, v.n, v) /\ Cross(e, s, t)
  BY DEF Incoming
<1>2. /\ v.k = s.theirs /\ v.t = s.recv.cli /\ v.key = s.recv /\ v.seq = s.recvseq
      /\ v.togo = Awaited(s)
  BY <1>1 DEF RecvView
<1>3. /\ m.type \in {"DATA", "EXT_INFO"} /\ v.k > 0 /\ c.k = v.k /\ c.t = v.t /\ c.key = v.key
      /\ c.seq = v.seq + 1 /\ c.togo = v.togo
  BY DEF Carries
<1>4. /\ Pass(e, s, n, r, n) /\ SameFlags(r, s)
      /\ r.theirs = s.theirs /\ r.recv = s.recv /\ r.recvseq = s.recvseq + 1
      /\ r.ignorenext = s.ignorenext
      /\ r.trans = s.trans /\ r.kexinits = s.kexinits /\ r.param = s.param
      /\ r.session_id = s.session_id
  BY <1>1, <1>2, <1>3, TakeData
<1>5. RecvView(r, c.n, c)
  <2>1. Awaited(r) = Awaited(s)
    BY <1>4 DEF SameFlags, Awaited
  <2>2. QED
    BY <1>2, <1>3, <1>4, <2>1 DEF RecvView
<1>6. Cross(e, r, t)
  BY <1>1, <1>4, CrossSame
<1>7. QED
  BY <1>4, <1>5, <1>6 DEF Taken

\* NEWKEYS arrives; what follows it is encrypted with the key we have derived.
LEMMA TakenNewkeys ==
  ASSUME NEW e \in End, NEW s, NEW n, NEW pkt, NEW v, NEW c, NEW t, NEW k,
         Incoming(e, s, n, pkt, v, c, t, k), Expected(s, pkt), Switching(s),
         NEW m, m = pkt.msg, Switches(Peer(e), v, m, c),
         NEW good \in BOOLEAN, NEW r, r = RestOfPass(read_packet(s, pkt, good))
  PROVE  Taken(e, s, n, c, t, r)
<1>1. Ready(e, s, n) /\ RecvView(s, v.n, v) /\ Cross(e, s, t)
  BY DEF Incoming
<1>2. /\ v.k = s.theirs /\ v.t = s.recv.cli /\ v.key = s.recv /\ v.seq = s.recvseq
      /\ v.togo = Awaited(s)
  BY <1>1 DEF RecvView
<1>3. /\ m.type = "NEWKEYS" /\ c.k = v.k /\ c.t = v.k /\ c.togo = 0
      /\ c.seq = (IF mode.strict THEN 0 ELSE v.seq + 1)
  BY DEF Switches
<1>4. /\ Pass(e, s, n, r, n) /\ Idle(r)
      /\ r.theirs = s.theirs /\ r.recv = s.newkey
      /\ r.recvseq = (IF mode.strict THEN 0 ELSE s.recvseq + 1)
      /\ r.trans = s.trans /\ r.kexinits = s.kexinits /\ r.param = s.param
      /\ r.session_id = s.session_id
  BY <1>1, <1>3, TakeNewkeys
<1>5. Counts(s, t) /\ Ahead(e, c, t)
  BY IncomingCounts, IsAhead
<1>6. s.newkey = s.trans /\ s.trans.cli = s.theirs /\ s.kexinits = s.theirs
  BY DEF Switching
<1>7. c.key = s.newkey
  <2>1. c.t = s.trans.cli /\ c.t = s.kexinits /\ c.t <= t.trans.cli
    BY <1>2, <1>3, <1>5, <1>6 DEF Ahead
  <2>2. t.trans.cli = s.trans.cli
    BY <1>5, <1>6, <2>1 DEF Counts
  <2>3. t.trans = s.trans
    <3>1. CASE e = "client"
      BY <1>1, <2>2, <3>1 DEF Cross, Agreement
    <3>2. CASE e = "server"
      BY <1>1, <2>2, <3>2 DEF Cross, Agreement
    <3>3. QED
      BY <3>1, <3>2 DEF End
  <2>4. QED
    BY <1>5, <1>6, <2>1, <2>2, <2>3 DEF Ahead
<1>8. RecvView(r, c.n, c)
  <2>1. Awaited(r) = 0
    BY <1>4 DEF Idle, Awaited
  <2>2. r.recv.cli = c.t
    BY <1>2, <1>3, <1>4, <1>6
  <2>3. QED
    BY <1>2, <1>3, <1>4, <1>7, <2>1, <2>2 DEF RecvView
<1>9. Cross(e, r, t)
  BY <1>1, <1>4, CrossSame
<1>10. QED
  BY <1>4, <1>8, <1>9 DEF Taken

\* A guess that was wrong.
LEMMA TakenGuess ==
  ASSUME NEW s, NEW n, NEW pkt, NEW v, NEW c, NEW t, NEW k,
         Incoming("server", s, n, pkt, v, c, t, k), Expected(s, pkt), Agreeing("server", s),
         s.ignorenext, NEW m, m = pkt.msg, Exchanges("client", v, m, c),
         NEW good \in BOOLEAN, NEW r, r = RestOfPass(read_packet(s, pkt, good))
  PROVE  Taken("server", s, n, c, t, r)
<1>1. Ready("server", s, n) /\ RecvView(s, v.n, v) /\ Cross("server", s, t)
  BY DEF Incoming
<1>2. /\ v.k = s.theirs /\ v.t = s.recv.cli /\ v.key = s.recv /\ v.seq = s.recvseq
      /\ v.togo = 2
  BY <1>1 DEF RecvView, Agreeing, Awaited
<1>3. /\ c.k = v.k /\ c.t = v.t /\ c.key = v.key /\ c.seq = v.seq + 1 /\ c.togo = v.togo - 1
  BY DEF Exchanges
<1>4. /\ Pass("server", s, n, r, n) /\ SameFlags(r, s) /\ ~r.ignorenext
      /\ r.theirs = s.theirs /\ r.recv = s.recv /\ r.recvseq = s.recvseq + 1
      /\ r.trans = s.trans /\ r.kexinits = s.kexinits /\ r.param = s.param
      /\ r.session_id = s.session_id
  BY <1>1, SkipGuess
<1>5. RecvView(r, c.n, c)
  <2>1. Awaited(r) = 1
    BY <1>4 DEF SameFlags, Awaited, Agreeing
  <2>2. QED
    BY <1>2, <1>3, <1>4, <2>1 DEF RecvView
<1>6. Cross("server", r, t)
  BY <1>1, <1>4, CrossSame DEF End
<1>7. QED
  BY <1>4, <1>5, <1>6 DEF Taken

\* A key that has been derived is none of exchange 0.
LEMMA KeyFields ==
  ASSUME NEW i \in Nat, NEW j, NEW p
  PROVE  Key(i, j, p).cli = i /\ (i > 0 => Key(i, j, p) # NoKey)
<1>1. Key(i, j, p).cli = i /\ NoKey.cli = 0
  BY DEF Key, NoKey
<1>2. QED
  BY <1>1

\* At most one DH message is owed between passes.
LEMMA OwedValues ==
  ASSUME NEW e, NEW s
  PROVE  Owed(e, s) \in {0, 1}
  BY DEF Owed

\* The server's keys of an exchange come from the DH value the client kept.
LEMMA TakenDhInit ==
  ASSUME NEW s, NEW n, NEW pkt, NEW v, NEW c, NEW t, NEW k,
         Incoming("server", s, n, pkt, v, c, t, k), Expected(s, pkt), Agreeing("server", s),
         ~s.ignorenext, NEW m, m = pkt.msg, Exchanges("client", v, m, c),
         NEW good \in BOOLEAN, NEW r, r = RestOfPass(read_packet(s, pkt, good))
  PROVE  Taken("server", s, n, c, t, r)
<1>1. Ready("server", s, n) /\ RecvView(s, v.n, v) /\ Cross("server", s, t)
  BY DEF Incoming
<1>2. /\ v.k = s.theirs /\ v.t = s.recv.cli /\ v.key = s.recv /\ v.seq = s.recvseq
      /\ v.togo = 1
  BY <1>1 DEF RecvView, Agreeing, Awaited
<1>3. /\ m.type = "KEXDH_INIT" /\ c.param = m.param
      /\ c.k = v.k /\ c.t = v.t /\ c.key = v.key /\ c.seq = v.seq + 1 /\ c.togo = v.togo - 1
  BY DEF Exchanges, DH
<1>4. PICK key : key = Key(s.kexinits, s.kexinits, m.param)
  OBVIOUS
<1>5. /\ Pass("server", s, n, r, n) /\ Switching(r)
      /\ r.theirs = s.theirs /\ r.recv = s.recv /\ r.recvseq = s.recvseq + 1
      /\ r.trans = key /\ r.kexinits = s.kexinits /\ r.param = s.param
      /\ r.session_id = (IF s.session_id = NoKey THEN key ELSE s.session_id)
  BY <1>1, <1>3, <1>4, TakeDhInit
<1>6. RecvView(r, c.n, c)
  <2>1. Awaited(r) = 0
    BY <1>5 DEF Switching, Awaited
  <2>2. QED
    BY <1>2, <1>3, <1>5, <2>1 DEF RecvView
<1>7. Counts(s, t) /\ Ahead("server", c, t)
  BY IncomingCounts, IsAhead DEF End
<1>8. s.kexinits = s.trans.cli + 1 /\ s.theirs = s.kexinits
  BY DEF Agreeing
<1>9. key.cli = s.kexinits /\ key # NoKey
  <2>1. s.kexinits \in Nat /\ s.kexinits > 0
    BY <1>7, <1>8 DEF Counts
  <2>2. QED
    BY <1>4, <2>1, KeyFields
<1>10. Agreement(t, s) /\ Identified(t, s)
  BY <1>1 DEF Cross
<1>11. t.trans.cli <= s.trans.cli /\ t.trans.cli < s.kexinits
  BY <1>7, <1>8, <1>10 DEF Agreement, Counts
<1>12. s.kexinits = t.kexinits => key = Key(t.kexinits, t.kexinits, t.param)
  <2>1. Peer("server") = "client" /\ Owed("client", t) \in {0, 1}
    BY Peers, OwedValues
  <2>2. SUFFICES ASSUME s.kexinits = t.kexinits PROVE m.param = t.param
    BY <1>4
  <2>3. c.k = t.kexinits /\ c.togo = 0
    BY <1>2, <1>3, <1>8, <2>2
  <2>4. Owed("client", t) = c.togo
    BY <1>7, <2>1, <2>3 DEF Ahead
  <2>5. QED
    BY <1>3, <1>7, <2>1, <2>3, <2>4 DEF Ahead
<1>13. Agreement(t, r)
  BY <1>5, <1>7, <1>9, <1>11, <1>12 DEF Agreement, Counts
<1>14. Identified(t, r)
  <2>1. s.trans.cli \in Nat /\ t.trans.cli \in Nat
    BY <1>7 DEF Counts
  <2>2. r.trans.cli = s.trans.cli + 1
    BY <1>5, <1>8, <1>9
  <2>3. r.trans.cli = 1 => r.session_id = r.trans
    BY <1>5, <1>10, <2>1, <2>2 DEF Identified
  <2>4. r.session_id # NoKey
    BY <1>5, <1>9
  <2>5. t.trans.cli = 0 => t.session_id = NoKey
    BY <1>10 DEF Identified
  <2>6. t.trans.cli > 0 => t.session_id = r.session_id
    BY <1>5, <1>10, <1>11, <2>1 DEF Identified
  <2>7. QED
    BY <2>1, <2>2, <2>3, <2>4, <2>5, <2>6 DEF Identified
<1>15. Cross("server", r, t)
  BY <1>13, <1>14 DEF Cross
<1>16. QED
  BY <1>5, <1>6, <1>15 DEF Taken

\* The hash the server signed is the one the client computes.
LEMMA TakenReply ==
  ASSUME NEW s, NEW n, NEW pkt, NEW v, NEW c, NEW t, NEW k,
         Incoming("client", s, n, pkt, v, c, t, k), Expected(s, pkt), Agreeing("client", s),
         NEW m, m = pkt.msg, Exchanges("server", v, m, c),
         NEW good \in BOOLEAN, NEW r, r = RestOfPass(read_packet(s, pkt, good))
  PROVE  Taken("client", s, n, c, t, r)
<1>1. Ready("client", s, n) /\ RecvView(s, v.n, v) /\ Cross("client", s, t)
  BY DEF Incoming
<1>2. /\ v.k = s.theirs /\ v.t = s.recv.cli /\ v.key = s.recv /\ v.seq = s.recvseq
      /\ v.togo = 1
  BY <1>1 DEF RecvView, Agreeing, Awaited
<1>3. /\ m.type = "KEXDH_REPLY" /\ c.hash = m.hash
      /\ c.k = v.k /\ c.t = v.t /\ c.key = v.key /\ c.seq = v.seq + 1 /\ c.togo = v.togo - 1
  BY DEF Exchanges, DH
<1>4. PICK key : key = Key(s.kexinits, s.kexinits, s.param)
  OBVIOUS
<1>5. /\ Counts(s, t) /\ Ahead("client", c, t)
      /\ Owed("server", t) = 0 => t.trans.cli = t.kexinits
  BY IncomingCounts, IsAhead, Peers DEF End
<1>6. s.kexinits = s.trans.cli + 1 /\ s.theirs = s.kexinits /\ s.recv.cli = s.trans.cli
  BY DEF Agreeing
<1>7. c.k = s.kexinits /\ c.togo = 0 /\ c.t = s.trans.cli
  BY <1>2, <1>3, <1>6
<1>8. t.kexinits = s.kexinits
  BY <1>5, <1>6, <1>7 DEF Counts, Ahead
<1>9. t.trans.cli = s.kexinits
  <2>1. Peer("client") = "server" /\ Owed("server", t) \in {0, 1}
    BY Peers, OwedValues
  <2>2. Owed("server", t) = 0
    BY <1>5, <1>7, <1>8, <2>1 DEF Ahead
  <2>3. QED
    BY <1>5, <1>8, <2>2
<1>10. Agreement(s, t) /\ Identified(s, t)
  BY <1>1 DEF Cross
<1>11. t.trans = key
  BY <1>4, <1>9, <1>10 DEF Agreement
<1>12. m.hash = key
  <2>1. c.t < t.trans.cli /\ c.k = t.kexinits
    BY <1>5, <1>6, <1>7, <1>8, <1>9 DEF Counts
  <2>2. QED
    BY <1>3, <1>5, <1>7, <1>11, <2>1 DEF Ahead
<1>13. /\ Pass("client", s, n, r, n) /\ Switching(r)
       /\ r.theirs = s.theirs /\ r.recv = s.recv /\ r.recvseq = s.recvseq + 1
       /\ r.trans = key /\ r.kexinits = s.kexinits /\ r.param = s.param
       /\ r.session_id = (IF s.session_id = NoKey THEN key ELSE s.session_id)
  BY <1>1, <1>3, <1>4, <1>12, TakeReply
<1>14. RecvView(r, c.n, c)
  <2>1. Awaited(r) = 0
    BY <1>13 DEF Switching, Awaited
  <2>2. QED
    BY <1>2, <1>3, <1>13, <2>1 DEF RecvView
<1>15. s.kexinits \in Nat /\ s.kexinits > 0 /\ s.trans.cli \in Nat
  BY <1>5, <1>6 DEF Counts
<1>16. Agreement(r, t)
  BY <1>4, <1>9, <1>11, <1>13, <1>15 DEF Agreement
<1>17. Identified(r, t)
  <2>1. r.trans.cli = s.kexinits
    BY <1>9, <1>11, <1>13
  <2>2. r.session_id = t.session_id
    <3>1. CASE s.session_id = NoKey
      <4>1. t.trans.cli > 0
        BY <1>9, <1>15
      <4>2. ~(s.trans.cli > 0)
        BY <1>10, <3>1, <4>1 DEF Identified
      <4>3. t.trans.cli = 1
        BY <1>6, <1>9, <1>15, <4>2
      <4>4. QED
        BY <1>10, <1>11, <1>13, <3>1, <4>3 DEF Identified
    <3>2. CASE s.session_id # NoKey
      <4>1. s.trans.cli > 0
        BY <1>10, <1>15, <3>2 DEF Identified
      <4>2. QED
        BY <1>10, <1>13, <3>2, <4>1 DEF Identified
    <3>3. QED
      BY <3>1, <3>2
  <2>3. QED
    BY <1>10, <1>15, <2>1, <2>2 DEF Identified
<1>18. Cross("client", r, t)
  BY <1>16, <1>17 DEF Cross
<1>19. QED
  BY <1>13, <1>14, <1>18 DEF Taken

\* Whatever arrives, the pass that reads it keeps the two ends in step.
LEMMA TakePacket ==
  ASSUME NEW e \in End, NEW s, NEW n, NEW pkt, NEW v, NEW c, NEW t, NEW k,
         Incoming(e, s, n, pkt, v, c, t, k),
         NEW good \in BOOLEAN, NEW r, r = RestOfPass(read_packet(s, pkt, good))
  PROVE  Taken(e, s, n, c, t, r)
<1>1. PICK m : m = pkt.msg
  OBVIOUS
<1>2. /\ Ready(e, s, n) /\ v \in Views /\ RecvView(s, v.n, v) /\ pkt \in Packets
      /\ Edge(Peer(e), v, pkt, c)
  BY DEF Incoming
<1>3. /\ Expected(s, pkt)
      /\ \/ (Idle(s) \/ Begun(s)) /\ Begins(Peer(e), v, m, c)
         \/ (Idle(s) \/ Begun(s)) /\ Carries(v, m, c)
         \/ Agreeing(e, s) /\ Exchanges(Peer(e), v, m, c)
         \/ Switching(s) /\ Switches(Peer(e), v, m, c)
  BY <1>1, <1>2, Arrival
<1>4. CASE (Idle(s) \/ Begun(s)) /\ Begins(Peer(e), v, m, c)
  BY <1>1, <1>3, <1>4, TakenKexinit
<1>5. CASE (Idle(s) \/ Begun(s)) /\ Carries(v, m, c)
  BY <1>1, <1>3, <1>5, TakenData
<1>6. CASE Agreeing(e, s) /\ Exchanges(Peer(e), v, m, c)
  <2>1. CASE e = "client"
    BY <1>1, <1>3, <1>6, <2>1, TakenReply, Peers
  <2>2. CASE e = "server" /\ s.ignorenext
    BY <1>1, <1>3, <1>6, <2>2, TakenGuess, Peers
  <2>3. CASE e = "server" /\ ~s.ignorenext
    BY <1>1, <1>3, <1>6, <2>3, TakenDhInit, Peers
  <2>4. QED
    BY <2>1, <2>2, <2>3 DEF End
<1>7. CASE Switching(s) /\ Switches(Peer(e), v, m, c)
  BY <1>1, <1>3, <1>7, TakenNewkeys
<1>8. QED
  BY <1>3, <1>4, <1>5, <1>6, <1>7

-----------------------------------------------------------------------------
(***************************************************************************)
(* The inductive invariant.                                                *)
(***************************************************************************)
TypeOK ==
    /\ mode.follows \in BOOLEAN /\ mode.strict \in BOOLEAN
    /\ ses \in [End -> Sessions] /\ wire \in [End -> Seq(Packets)] /\ made \in [End -> Nat]
    /\ got \in [End -> Seq(Nat)] /\ nonces \in [End -> SUBSET (Keys \X Nat)]
\* Each end is in order by itself, and the packets on their way to it lead to
\* where its peer stands.
EndsOK == \A e \in End : Ready(e, ses[e], made[e])
WiresOK == \A e \in End :
    Linked(e, ses[e], Len(got[e]), wire[e], ses[Peer(e)], made[Peer(e)])
\* Used nonces lie behind, data has come in order, the ends agree on the keys.
NoncesOK == \A e \in End : \A q \in nonces[e] : Used(q, SendView(e, ses[e], made[e]))
GotOK == \A e \in End : \A k \in 1..Len(got[e]) : got[e][k] = k
KeysOK == Cross("client", ses["client"], ses["server"])
\* All of it.
IInv == TypeOK /\ EndsOK /\ WiresOK /\ NoncesOK /\ GotOK /\ KeysOK
        /\ NoProtocolError /\ NonceNeverReused

\* The mode does not change, so neither does the meaning of what depends on it.
LEMMA ReadyPrime ==
  ASSUME mode' = mode
  PROVE  \A x, s, n : Ready(x, s, n)' <=> Ready(x, s, n)
  BY DEF Ready, EndOK, ModeOK, Idle, Begun, Agreeing, Switching, QueueOK, ClientOK, Sessions,
         Keys, Messages, Packets, Types, DH, Peer, End
\* The same of the view of an end, of the packets on the wire, and of both.
LEMMA SendViewPrime ==
  ASSUME mode' = mode
  PROVE  \A x, s, n : SendView(x, s, n)' = SendView(x, s, n)
  BY DEF SendView, View, Owed, NoKey, Key
LEMMA ChainPrime ==
  ASSUME mode' = mode
  PROVE  \A x, w, a, b : Chain(x, w, a, b)' <=> Chain(x, w, a, b)
  BY DEF Chain, Passes, Edge, Moves, Begins, Exchanges, Switches, Carries, Views, Packets,
         Messages, Keys, DH
LEMMA LinkedPrime ==
  ASSUME mode' = mode
  PROVE  \A x, s, l, w, t, k : Linked(x, s, l, w, t, k)' <=> Linked(x, s, l, w, t, k)
<1>1. \A x, w, a, b : Chain(x, w, a, b)' <=> Chain(x, w, a, b)
  BY ChainPrime
<1>2. \A x, s, n : SendView(x, s, n)' = SendView(x, s, n)
  BY SendViewPrime
<1>3. QED
  BY <1>1, <1>2 DEF Linked

\* The end of a pass, as one for which nothing is left to send.
LEMMA PassOver ==
  ASSUME NEW e \in End, NEW m \in Nat, ModeOK, NEW r \in Sessions, EndOK(e, r, m),
         NEW x, PassDoneAs(x, r)
  PROVE  /\ PassDoneIs(x, r) /\ Ready(e, x, m) /\ SendView(e, x, m) = SendView(e, r, m)
         /\ \A l, c : RecvView(r, l, c) => RecvView(x, l, c)
         /\ \A t : Cross(e, r, t) => Cross(e, x, t)
<1>1. PassDoneIs(x, r)
  BY PassDone
<1>2. Wrote(x, r)
  BY <1>1 DEF PassDoneIs, Wrote
<1>3. QueueOK(x, m)
  BY <1>1 DEF PassDoneIs, EndOK, QueueOK, SameFlags
<1>4. Ready(e, x, m)
  BY <1>1, <1>2, <1>3, WroteOK DEF Ready, PassDoneIs
<1>5. SendView(e, x, m) = SendView(e, r, m)
  BY <1>1 DEF PassDoneIs, SameFlags, SameKeys, SendView, Owed
<1>6. \A l, c : RecvView(r, l, c) => RecvView(x, l, c)
  BY <1>1 DEF PassDoneIs, SameFlags, SameRecv, RecvView, Awaited
<1>7. ASSUME NEW t, Cross(e, r, t) PROVE Cross(e, x, t)
  BY <1>1, <1>7, CrossSame DEF PassDoneIs, SameId
<1>8. QED
  BY <1>1, <1>4, <1>5, <1>6, <1>7

\* An end and its peer are all there are.
LEMMA Other ==
  ASSUME NEW e \in End, NEW f, f = Peer(e)
  PROVE  f \in End /\ f # e /\ Peer(f) = e /\ \A x \in End : x = e \/ x = f
  BY Peers DEF End

\* Agreement is seen alike from both ends.
LEMMA CrossTurn ==
  ASSUME NEW e \in End, NEW s, NEW t
  PROVE  Cross(e, s, t) <=> Cross(Peer(e), t, s)
  BY Peers DEF Cross, End

\* What Commit does to the two ends, the wires and the nonces.
Committed(e, f, r, x, left) ==
    /\ ses' \in [End -> Sessions] /\ ses'[e] = x /\ ses'[f] = ses[f]
    /\ wire' \in [End -> Seq(Packets)] /\ wire'[e] = left /\ wire'[f] = wire[f] \o r.out
    /\ exited' = "no" /\ nonces'[f] = nonces[f]
\* Commit does that.
LEMMA CommitFields ==
  ASSUME TypeOK, NEW e \in End, NEW f, f = Peer(e), NEW r, NEW left \in Seq(Packets),
         Commit(e, r, left), NEW x, PassDoneAs(x, r), x \in Sessions
  PROVE  Committed(e, f, r, x, left)
<1>1. f \in End /\ f # e
  BY Other
<1>2. /\ ses \in [End -> Sessions] /\ wire \in [End -> Seq(Packets)]
      /\ nonces \in [End -> SUBSET (Keys \X Nat)]
  BY DEF TypeOK
<1>3. ses' = [ses EXCEPT ![e] = x] /\ r \in Sessions
  BY DEF Commit, PassDoneAs
<1>4. PICK y : y = wire[f] \o r.out
  OBVIOUS
<1>5. y \in Seq(Packets)
  <2>1. wire[f] \in Seq(Packets) /\ r.out \in Seq(Packets)
    BY <1>1, <1>2, <1>3 DEF Sessions
  <2>2. QED
    BY <1>4, <2>1, ConcatProperties
<1>6. wire' = [wire EXCEPT ![e] = left, ![f] = y]
  BY <1>1, <1>2, <1>4 DEF Commit
<1>7. exited' = "no"
  BY <1>3 DEF Commit, Sessions
<1>8. nonces'[f] = nonces[f]
  BY <1>1, <1>2 DEF Commit
<1>9. ses' \in [End -> Sessions] /\ ses'[e] = x /\ ses'[f] = ses[f]
  BY <1>1, <1>2, <1>3
<1>10. wire' \in [End -> Seq(Packets)] /\ wire'[e] = left /\ wire'[f] = y
  BY <1>1, <1>2, <1>5, <1>6
<1>11. QED
  BY <1>4, <1>7, <1>8, <1>9, <1>10 DEF Committed

\* The nonces of a pass are new, so Commit finds none that is used twice.
LEMMA CommitNonces ==
  ASSUME TypeOK, NonceNeverReused, NEW e \in End, NEW r \in Sessions, NEW left,
         Commit(e, r, left), NEW a, NEW b, Chain(e, r.out, a, b), \A q \in nonces[e] : Used(q, a)
  PROVE  /\ nonces' \in [End -> SUBSET (Keys \X Nat)]
         /\ \A q \in nonces'[e] : Used(q, b)
         /\ reused' = {}
<1>1. nonces \in [End -> SUBSET (Keys \X Nat)] /\ nonces[e] \in SUBSET (Keys \X Nat)
  BY DEF TypeOK
<1>2. PICK I : I = {i \in DOMAIN r.out : r.out[i].key # NoKey}
  OBVIOUS
<1>3. PICK Q : Q = {Nonce(r.out[i]) : i \in I}
  OBVIOUS
<1>4. Q = {<<r.out[i].key, r.out[i].seq>> : i \in I}
  BY <1>3 DEF Nonce
<1>5. I \in SUBSET DOMAIN r.out
  BY <1>2
<1>6. /\ Q \subseteq Keys \X Nat /\ Q \cap nonces[e] = {} /\ Cardinality(Q) = Cardinality(I)
      /\ \A q \in nonces[e] \cup Q : Used(q, b)
  <2>1. PICK w, N : w = r.out /\ N = nonces[e]
    OBVIOUS
  <2>2. Chain(e, w, a, b) /\ NoncesOf(Q, w, I) /\ AllUsed(N, a)
    BY <1>1, <1>3, <1>5, <2>1 DEF NoncesOf, AllUsed
  <2>3. Q \cap N = {} /\ Cardinality(Q) = Cardinality(I) /\ AllUsed(N \cup Q, b)
    BY <2>2, FreshNonces
  <2>4. QED
    BY <2>1, <2>3 DEF AllUsed
<1>7. Cardinality(I) \in Nat
  <2>1. r.out \in Seq(Packets)
    BY DEF Sessions
  <2>2. DOMAIN r.out = 1..Len(r.out) /\ Len(r.out) \in Nat
    BY <2>1, LenProperties
  <2>3. IsFiniteSet(1..Len(r.out))
    BY <2>2, FS_Interval
  <2>4. QED
    BY <1>5, <2>2, <2>3, FS_Subset, FS_CardinalityType
<1>8. /\ nonces' = [nonces EXCEPT ![e] = nonces[e] \cup Q]
      /\ reused' = IF Q \cap nonces[e] # {} \/ Cardinality(Q) < Cardinality(I)
                   THEN reused \cup {e} ELSE reused
  BY <1>1, <1>2, <1>4 DEF Commit
<1>9. reused' = {}
  BY <1>6, <1>7, <1>8 DEF NonceNeverReused
<1>10. QED
  BY <1>1, <1>6, <1>8, <1>9

\* A pass of e that keeps it in order, and in step with its peer, keeps the
\* invariant once its packets are out.
LEMMA PassKeeps ==
  ASSUME IInv, mode' = mode, NEW e \in End, NEW f, f = Peer(e), NEW r, NEW m, NEW left,
         Pass(e, ses[e], made[e], r, m), Commit(e, r, left),
         made' \in [End -> Nat], made'[e] = m, made'[f] = made[f],
         got' \in [End -> Seq(Nat)], got'[f] = got[f], \A k \in 1..Len(got'[e]) : got'[e][k] = k,
         NEW c, RecvView(r, Len(got'[e]), c), Chain(f, left, c, SendView(f, ses[f], made[f])),
         Cross(e, r, ses[f])
  PROVE  IInv'
<1>1. /\ TypeOK /\ EndsOK /\ WiresOK /\ NoncesOK /\ GotOK /\ NonceNeverReused
  BY DEF IInv
<1>2. f \in End /\ f # e /\ Peer(f) = e /\ \A x \in End : x = e \/ x = f
  BY Other
<1>3. /\ r \in Sessions /\ EndOK(e, r, m) /\ m \in Nat
      /\ Chain(e, r.out, SendView(e, ses[e], made[e]), SendView(e, r, m))
  BY DEF Pass
<1>4. left \in Seq(Packets)
  BY DEF Chain
<1>5. PICK x : PassDoneAs(x, r)
  BY <1>3 DEF PassDoneAs
<1>6. ModeOK
  BY <1>1 DEF TypeOK, ModeOK
<1>7. /\ x \in Sessions /\ Ready(e, x, m) /\ SendView(e, x, m) = SendView(e, r, m)
      /\ RecvView(x, Len(got'[e]), c) /\ Cross(e, x, ses[f])
  <2>1. /\ PassDoneIs(x, r) /\ Ready(e, x, m) /\ SendView(e, x, m) = SendView(e, r, m)
        /\ \A l, d : RecvView(r, l, d) => RecvView(x, l, d)
        /\ \A t : Cross(e, r, t) => Cross(e, x, t)
    BY <1>3, <1>5, <1>6, PassOver
  <2>2. QED
    BY <2>1 DEF PassDoneIs
<1>8. /\ ses' \in [End -> Sessions] /\ ses'[e] = x /\ ses'[f] = ses[f]
      /\ wire' \in [End -> Seq(Packets)] /\ wire'[e] = left /\ wire'[f] = wire[f] \o r.out
      /\ exited' = "no" /\ nonces'[f] = nonces[f]
  <2>1. Committed(e, f, r, x, left)
    BY <1>1, <1>4, <1>5, <1>7, CommitFields
  <2>2. QED
    BY <2>1 DEF Committed
<1>9. /\ nonces' \in [End -> SUBSET (Keys \X Nat)]
      /\ \A q \in nonces'[e] : Used(q, SendView(e, x, m))
      /\ reused' = {}
  <2>1. \A q \in nonces[e] : Used(q, SendView(e, ses[e], made[e]))
    BY <1>1 DEF NoncesOK
  <2>2. QED
    BY <1>1, <1>3, <1>7, <2>1, CommitNonces
<1>10. TypeOK'
  BY <1>1, <1>8, <1>9 DEF TypeOK
<1>11. EndsOK'
  <2>1. \A y, s, n : Ready(y, s, n)' <=> Ready(y, s, n)
    BY ReadyPrime
  <2>2. Ready(e, ses'[e], made'[e])
    BY <1>7, <1>8
  <2>3. Ready(f, ses'[f], made'[f])
    BY <1>1, <1>2, <1>8 DEF EndsOK
  <2>4. \A y \in End : Ready(y, ses'[y], made'[y])
    BY <1>2, <2>2, <2>3
  <2>5. QED
    BY <2>1, <2>4 DEF EndsOK
<1>12. WiresOK'
  <2>1. \A y, s, l, w, t, k : Linked(y, s, l, w, t, k)' <=> Linked(y, s, l, w, t, k)
    BY LinkedPrime
  <2>2. Linked(e, ses'[e], Len(got'[e]), wire'[e], ses'[f], made'[f])
    BY <1>7, <1>8 DEF Linked
  <2>3. PICK v : /\ RecvView(ses[f], Len(got[f]), v)
                 /\ Chain(e, wire[f], v, SendView(e, ses[e], made[e]))
    BY <1>1, <1>2 DEF WiresOK, Linked
  <2>4. Chain(e, wire[f] \o r.out, v, SendView(e, r, m))
    BY <1>3, <2>3, ChainConcat
  <2>5. Linked(f, ses'[f], Len(got'[f]), wire'[f], ses'[e], made'[e])
    BY <1>2, <1>7, <1>8, <2>3, <2>4 DEF Linked
  <2>6. \A y \in End : Linked(y, ses'[y], Len(got'[y]), wire'[y], ses'[Peer(y)], made'[Peer(y)])
    BY <1>2, <2>2, <2>5
  <2>7. QED
    BY <2>1, <2>6 DEF WiresOK
<1>13. NoncesOK'
  <2>1. \A y, s, n : SendView(y, s, n)' = SendView(y, s, n)
    BY SendViewPrime
  <2>2. \A q \in nonces'[e] : Used(q, SendView(e, ses'[e], made'[e]))
    BY <1>8, <1>9
  <2>3. \A q \in nonces'[f] : Used(q, SendView(f, ses'[f], made'[f]))
    BY <1>1, <1>2, <1>8 DEF NoncesOK
  <2>4. \A y \in End : \A q \in nonces'[y] : Used(q, SendView(y, ses'[y], made'[y]))
    BY <1>2, <2>2, <2>3
  <2>5. QED
    BY <2>1, <2>4 DEF NoncesOK, Used
<1>14. GotOK'
  BY <1>1, <1>2 DEF GotOK
<1>15. KeysOK'
  <2>1. Cross(e, ses'[e], ses'[f])
    BY <1>7, <1>8
  <2>2. CASE e = "client"
    <3>1. f = "server"
      BY <2>2, Peers
    <3>2. Cross("client", ses'["client"], ses'["server"])
      BY <2>1, <2>2, <3>1
    <3>3. QED
      BY <3>2 DEF KeysOK
  <2>3. CASE e = "server"
    <3>1. f = "client" /\ f \in End
      BY <2>3, <1>2, Peers
    <3>2. Cross(f, ses'[f], ses'[e])
      BY <2>1, CrossTurn
    <3>3. Cross("client", ses'["client"], ses'["server"])
      BY <2>3, <3>1, <3>2
    <3>4. QED
      BY <3>3 DEF KeysOK
  <2>4. QED
    BY <2>2, <2>3 DEF End
<1>16. QED
  BY <1>8, <1>9, <1>10, <1>11, <1>12, <1>13, <1>14, <1>15 DEF IInv, NoProtocolError, NonceNeverReused

-----------------------------------------------------------------------------
(***************************************************************************)
(* The initial states and the actions.                                     *)
(***************************************************************************)
Zero == View(0, 0, 0, NoKey, 0, 0, 0, NoKey)
\* cli_session and svr_session, their KEXINIT encrypted.
First(e, r) ==
    /\ r \in Sessions /\ EndOK(e, r, 0) /\ Chain(e, r.out, Zero, SendView(e, r, 0))
    /\ RecvView(r, 0, Zero) /\ r.trans = NoKey /\ r.kexinits = 1 /\ r.session_id = NoKey

\* common_session_init leaves a session.
LEMMA NewSessionType ==
  ASSUME NEW e \in End
  PROVE  NewSession(e) \in Sessions
  BY NoKeyType, EmptySeq DEF NewSession, Sessions, Types

\* Its fields.
LEMMA ZeroType ==
  /\ Zero \in Views /\ Zero.k = 0 /\ Zero.t = 0 /\ Zero.togo = 0 /\ Zero.key = NoKey
  /\ Zero.seq = 0 /\ Zero.n = 0 /\ Zero.param = 0 /\ Zero.hash = NoKey
  BY NoKeyType DEF Zero, View, Views

\* The first KEXINIT, and the client's first guess, lead from the start of the stream.
LEMMA Start ==
  ASSUME NEW e \in End, ModeOK, NEW good \in BOOLEAN, NEW r, r = Started(e, good)
  PROVE  First(e, r)
<1>1. PICK s : s = NewSession(e)
  OBVIOUS
<1>2. s \in Sessions
  BY <1>1, NewSessionType
<1>3. /\ s.end = e /\ s.dataallowed /\ s.out = << >> /\ s.trans = NoKey /\ s.transseq = 0
      /\ s.kexinits = 0 /\ s.param = 0 /\ s.newkey = NoKey /\ s.session_id = NoKey
      /\ s.recvkexinit = FALSE /\ s.sentnewkeys = FALSE /\ s.recvnewkeys = FALSE
      /\ s.our_first_follows_matches = FALSE /\ s.kex_state = "KEX_NOTHING"
      /\ s.reply_queue = << >> /\ s.theirs = 0 /\ s.recv = NoKey /\ s.recvseq = 0
      /\ s.requirenext = "KEXINIT" /\ s.ignorenext = FALSE /\ s.lastpacket = "none"
      /\ s.donefirstkex = FALSE /\ s.donesecondkex = FALSE
  BY <1>1 DEF NewSession
<1>4. At(e, s, Zero, Zero)
  <2>1. Chain(e, << >>, Zero, Zero)
    BY ChainEmpty, ZeroType
  <2>2. QED
    BY <1>3, <2>1, ZeroType DEF At
<1>5. /\ KexinitSent(r, s, good)
      /\ Chain(e, r.out, Zero,
               View(r.kexinits, Zero.t, IF Guessing(e) /\ good THEN 0 ELSE 1, Zero.key,
                    r.transseq, Zero.n, IF e = "client" THEN r.param ELSE Zero.param, Zero.hash))
  <2>1. r = send_msg_kexinit(s, good)
    BY <1>1 DEF Started
  <2>2. mode.follows \in BOOLEAN
    BY DEF ModeOK
  <2>3. Zero.k = s.kexinits /\ Zero.t = Zero.k /\ (e = "client" => Zero.param = s.param)
    BY <1>3, ZeroType
  <2>4. QED
    BY <1>2, <1>3, <1>4, <2>1, <2>2, <2>3, SendKexinit
<1>6. /\ r \in Sessions /\ SameId(r, s) /\ SameRecv(r, s)
      /\ r.dataallowed = FALSE /\ r.sentkexinit = TRUE /\ r.good = good
      /\ r.kexinits = 1 /\ r.recvkexinit = FALSE /\ r.sentnewkeys = FALSE
      /\ r.recvnewkeys = FALSE /\ r.our_first_follows_matches = FALSE
      /\ r.trans = NoKey /\ r.reply_queue = << >> /\ r.newkey = NoKey
      /\ r.kex_state = "KEX_NOTHING"
  BY <1>3, <1>5 DEF KexinitSent
<1>7. /\ r.end = e /\ r.theirs = 0 /\ r.recv = NoKey /\ r.recvseq = 0
      /\ r.requirenext = "KEXINIT" /\ r.ignorenext = FALSE /\ r.lastpacket = "none"
      /\ r.donefirstkex = FALSE /\ r.donesecondkex = FALSE /\ r.session_id = NoKey
  BY <1>3, <1>6 DEF SameId, SameRecv
<1>8. Len(r.reply_queue) = 0 /\ NoKey.cli = 0
  BY <1>6, NoKeyType, EmptySeq
<1>9. Begun(r)
  BY <1>6, <1>7, <1>8 DEF Begun
<1>10. QueueOK(r, 0)
  BY <1>6, <1>8 DEF QueueOK
<1>11. ~Agreeing("client", r)
  BY <1>6 DEF Agreeing
<1>12. EndOK(e, r, 0)
  <2>1. ClientOK(r)
    BY <1>6, <1>7, <1>11 DEF ClientOK
  <2>2. (r.trans.cli > 0) = FALSE /\ (r.trans.cli > 1) = FALSE
    BY <1>6, <1>8
  <2>3. r.donefirstkex = (r.trans.cli > 0) /\ r.donesecondkex = (r.trans.cli > 1)
    BY <1>7, <2>2
  <2>4. ~(r.theirs > 0)
    BY <1>7
  <2>5. QED
    BY <1>6, <1>7, <1>9, <1>10, <2>1, <2>3, <2>4 DEF EndOK
<1>13. SendView(e, r, 0)
         = View(r.kexinits, Zero.t, IF Guessing(e) /\ good THEN 0 ELSE 1, Zero.key,
                r.transseq, Zero.n, IF e = "client" THEN r.param ELSE Zero.param, Zero.hash)
  <2>1. Owed(e, r) = IF Guessing(e) /\ good THEN 0 ELSE 1
    BY <1>6 DEF Owed, Guessing
  <2>2. 0 - Len(r.reply_queue) = 0
    BY <1>8
  <2>3. (IF e = "client" THEN NoKey ELSE r.newkey) = NoKey
    BY <1>6
  <2>4. QED
    BY <1>6, <1>8, <2>1, <2>2, <2>3, ZeroType DEF SendView
<1>14. RecvView(r, 0, Zero)
  BY <1>6, <1>7, <1>8, ZeroType DEF RecvView, Awaited
<1>15. QED
  BY <1>5, <1>6, <1>7, <1>12, <1>13, <1>14 DEF First

\* Nothing has been agreed on yet.
LEMMA FirstCross ==
  ASSUME NEW r, NEW t, First("client", r), First("server", t)
  PROVE  Cross("client", r, t)
<1>1. r.trans = NoKey /\ t.trans = NoKey /\ r.kexinits = 1
      /\ r.session_id = NoKey /\ t.session_id = NoKey
  BY DEF First
<1>2. QED
  BY <1>1, NoKeyType DEF Cross, Agreement, Identified

\* The invariant holds when both ends have sent their first KEXINIT.
LEMMA InitInv == Init => IInv
<1> SUFFICES ASSUME Init PROVE IInv
  OBVIOUS
<1>1. ModeOK /\ mode.follows \in BOOLEAN /\ mode.strict \in BOOLEAN
  BY KexAssumption DEF Init, ModeOK
<1>2. PICK good \in BOOLEAN :
        LET first == [e \in End |-> Started(e, good)] IN
        /\ ses = [e \in End |-> [first[e] EXCEPT !.out = << >>]]
        /\ wire = [e \in End |-> first[Peer(e)].out]
        /\ rekeys = 0 /\ made = [e \in End |-> 0] /\ got = [e \in End |-> << >>]
        /\ nonces = [e \in End |-> {}]
        /\ reused = {} /\ exited = "no"
  BY DEF Init
<1>3. PICK F : F = [e \in End |-> Started(e, good)]
  OBVIOUS
<1>4. \A e \in End : First(e, F[e])
  BY <1>1, <1>3, Start
<1>5. \A e \in End : F[e] \in Sessions
  BY <1>4 DEF First
<1>6. /\ ses = [e \in End |-> [F[e] EXCEPT !.out = << >>]]
      /\ wire = [e \in End |-> F[Peer(e)].out]
  BY <1>2, <1>3
<1>7. ASSUME NEW e \in End
      PROVE  /\ ses[e] \in Sessions /\ Ready(e, ses[e], 0)
             /\ SendView(e, ses[e], 0) = SendView(e, F[e], 0)
             /\ RecvView(ses[e], 0, Zero)
             /\ \A t : Cross(e, F[e], t) => Cross(e, ses[e], t)
  <2>1. PICK x, r : x = ses[e] /\ r = F[e]
    OBVIOUS
  <2>2. PassDoneAs(x, r)
    BY <1>5, <1>6, <2>1 DEF PassDoneAs
  <2>3. r \in Sessions /\ EndOK(e, r, 0) /\ RecvView(r, 0, Zero)
    BY <1>4, <2>1 DEF First
  <2>4. /\ PassDoneIs(x, r) /\ Ready(e, x, 0) /\ SendView(e, x, 0) = SendView(e, r, 0)
        /\ \A l, c : RecvView(r, l, c) => RecvView(x, l, c)
        /\ \A t : Cross(e, r, t) => Cross(e, x, t)
    BY <1>1, <2>2, <2>3, PassOver
  <2>5. QED
    BY <2>1, <2>3, <2>4 DEF PassDoneIs
<1>8. \A e \in End : made[e] = 0 /\ got[e] = << >> /\ nonces[e] = {}
  BY <1>2
<1>9. \A e \in End : Peer(e) \in End /\ Peer(Peer(e)) = e
  BY Other
<1>10. \A e \in End : wire[e] = F[Peer(e)].out /\ wire[e] \in Seq(Packets)
  BY <1>5, <1>6, <1>9 DEF Sessions
<1>11. TypeOK
  <2>1. ses \in [End -> Sessions]
    BY <1>6, <1>7
  <2>2. wire \in [End -> Seq(Packets)]
    BY <1>6, <1>10
  <2>3. << >> \in Seq(Nat)
    BY EmptySeq
  <2>4. made \in [End -> Nat] /\ got \in [End -> Seq(Nat)]
    BY <1>2, <2>3
  <2>5. nonces \in [End -> SUBSET (Keys \X Nat)]
    BY <1>2
  <2>6. QED
    BY <1>1, <2>1, <2>2, <2>4, <2>5 DEF TypeOK
<1>12. EndsOK
  BY <1>7, <1>8 DEF EndsOK
<1>13. WiresOK
  <2> SUFFICES ASSUME NEW e \in End
               PROVE  Linked(e, ses[e], Len(got[e]), wire[e], ses[Peer(e)], made[Peer(e)])
    BY DEF WiresOK
  <2>1. PICK f \in End : f = Peer(e)
    BY <1>9
  <2>2. Chain(f, F[f].out, Zero, SendView(f, F[f], 0))
    BY <1>4 DEF First
  <2>3. Len(got[e]) = 0 /\ made[f] = 0
    BY <1>8, EmptySeq
  <2>4. Chain(f, wire[e], Zero, SendView(f, ses[f], made[f]))
    BY <1>7, <1>10, <2>1, <2>2, <2>3
  <2>5. RecvView(ses[e], Len(got[e]), Zero)
    BY <1>7, <2>3
  <2>6. QED
    BY <2>1, <2>4, <2>5 DEF Linked
<1>14. NoncesOK
  BY <1>8 DEF NoncesOK
<1>15. GotOK
  <2>1. \A e \in End : Len(got[e]) = 0
    BY <1>8, EmptySeq
  <2>2. QED
    BY <2>1 DEF GotOK
<1>16. KeysOK
  <2>1. "client" \in End /\ "server" \in End
    BY DEF End
  <2>2. Cross("client", F["client"], F["server"]) /\ Cross("client", F["client"], ses["server"])
    <3>1. Cross("client", F["client"], F["server"])
      BY <1>4, <2>1, FirstCross
    <3>2. Cross("server", F["server"], F["client"])
      BY <2>1, <3>1, CrossTurn, Peers
    <3>3. Cross("server", ses["server"], F["client"])
      BY <1>7, <2>1, <3>2
    <3>4. QED
      BY <2>1, <3>1, <3>3, CrossTurn, Peers
  <2>3. QED
    BY <1>7, <2>1, <2>2 DEF KeysOK
<1>17. QED
  BY <1>2, <1>11, <1>12, <1>13, <1>14, <1>15, <1>16 DEF IInv, NoProtocolError, NonceNeverReused

\* What the invariant says of an end and its peer.
LEMMA BothEnds ==
  ASSUME IInv, NEW e \in End, NEW f, f = Peer(e)
  PROVE  /\ Ready(e, ses[e], made[e]) /\ Ready(f, ses[f], made[f])
         /\ Linked(e, ses[e], Len(got[e]), wire[e], ses[f], made[f])
         /\ Linked(f, ses[f], Len(got[f]), wire[f], ses[e], made[e])
         /\ Cross(e, ses[e], ses[f])
<1>1. f \in End /\ Peer(f) = e
  BY Other
<1>2. Cross(e, ses[e], ses[f])
  <2>1. Cross("client", ses["client"], ses["server"])
    BY DEF IInv, KeysOK
  <2>2. CASE e = "client"
    BY <2>1, <2>2, Peers
  <2>3. CASE e = "server"
    <3>1. f = "client" /\ f \in End
      BY <2>3, Peers DEF End
    <3>2. QED
      BY <1>1, <2>1, <2>3, <3>1, CrossTurn
  <2>4. QED
    BY <2>2, <2>3 DEF End
<1>3. QED
  BY <1>1, <1>2 DEF IInv, EndsOK, WiresOK

\* Only a data packet counts as one.
LEMMA EdgeCount ==
  ASSUME NEW e, NEW a, NEW p, NEW b, Edge(e, a, p, b), e \in End
  PROVE  IF p.msg.type = "DATA" THEN p.msg.n = a.n + 1 /\ b.n = a.n + 1 ELSE b.n = a.n
  BY DEF Edge, Moves, Begins, Exchanges, Switches, Carries, DH

\* A pass that reads a packet: by TakePacket, whatever the packet is.
LEMMA ReceiveInv ==
  ASSUME IInv, NEW e \in End, Receive(e)
  PROVE  IInv'
<1>1. PICK f : f = Peer(e)
  OBVIOUS
<1>2. f \in End /\ f # e /\ Peer(f) = e
  BY <1>1, Other
<1>3. /\ Ready(e, ses[e], made[e]) /\ Ready(f, ses[f], made[f])
      /\ Linked(e, ses[e], Len(got[e]), wire[e], ses[f], made[f])
      /\ Linked(f, ses[f], Len(got[f]), wire[f], ses[e], made[e])
      /\ Cross(e, ses[e], ses[f])
  BY <1>1, BothEnds
<1>4. PICK s, n, t, k : s = ses[e] /\ n = made[e] /\ t = ses[f] /\ k = made[f]
  OBVIOUS
<1>5. PICK w, pkt : w = wire[e] /\ pkt = Head(wire[e])
  OBVIOUS
<1>6. PICK v : RecvView(s, Len(got[e]), v) /\ Chain(f, w, v, SendView(f, t, k))
  BY <1>1, <1>3, <1>4, <1>5 DEF Linked
<1>7. PICK good \in BOOLEAN : Commit(e, RestOfPass(read_packet(s, pkt, good)), Tail(w))
  BY <1>4, <1>5 DEF Receive
<1>8. w # << >>
  BY <1>5 DEF Receive
<1>9. pkt \in Packets /\ v \in Views
  BY <1>5, <1>6, <1>8, ChainHead
<1>10. PICK c \in Views : Edge(f, v, pkt, c) /\ Chain(f, Tail(w), c, SendView(f, t, k))
  BY <1>5, <1>6, <1>8, ChainHead
<1>11. v.n = Len(got[e]) /\ RecvView(s, v.n, v)
  BY <1>6 DEF RecvView
<1>12. Later(f, c, SendView(f, t, k))
  BY <1>2, <1>10, ChainLater
<1>13. /\ t.recv.cli <= s.trans.cli /\ t.theirs <= s.kexinits
       /\ t.theirs = s.kexinits => Owed(e, s) <= Awaited(t)
  BY <1>2, <1>3, <1>4, LinkedBounds
<1>14. Incoming(e, s, n, pkt, v, c, t, k)
  BY <1>1, <1>3, <1>4, <1>9, <1>10, <1>11, <1>12, <1>13 DEF Incoming
<1>15. PICK r : r = RestOfPass(read_packet(s, pkt, good))
  OBVIOUS
<1>16. Taken(e, s, n, c, t, r)
  BY <1>14, <1>15, TakePacket
<1>17. Pass(e, s, n, r, n) /\ RecvView(r, c.n, c) /\ Cross(e, r, t)
  BY <1>16 DEF Taken
<1>18. IF pkt.msg.type = "DATA" THEN pkt.msg.n = v.n + 1 /\ c.n = v.n + 1 ELSE c.n = v.n
  BY <1>2, <1>10, EdgeCount
<1>19. PICK g, l : g = got[e] /\ l = Len(g)
  OBVIOUS
<1>20. /\ got \in [End -> Seq(Nat)] /\ g \in Seq(Nat) /\ l \in Nat
       /\ \A i \in 1..l : g[i] = i
  BY <1>19, LenProperties DEF IInv, TypeOK, GotOK
<1>21. /\ got' \in [End -> Seq(Nat)] /\ got'[f] = got[f] /\ Len(got'[e]) = c.n
       /\ \A i \in 1..Len(got'[e]) : got'[e][i] = i
  <2>1. CASE pkt.msg.type = "DATA"
    <3>1. PICK h : h = Append(g, l + 1)
      OBVIOUS
    <3>2. /\ h \in Seq(Nat) /\ Len(h) = l + 1 /\ h[l + 1] = l + 1
          /\ \A i \in 1..l : h[i] = g[i]
      BY <1>19, <1>20, <3>1, AppendProperties
    <3>3. pkt.msg.n = l + 1 /\ c.n = l + 1
      BY <1>11, <1>18, <1>19, <2>1
    <3>4. got' = [got EXCEPT ![e] = Append(got[e], pkt.msg.n)]
      BY <1>5, <1>20, <2>1 DEF Receive
    <3>5. got' = [got EXCEPT ![e] = h]
      BY <1>19, <3>1, <3>3, <3>4
    <3>6. got' \in [End -> Seq(Nat)] /\ got'[f] = got[f] /\ got'[e] = h
      BY <1>2, <1>20, <3>2, <3>5
    <3>7. ASSUME NEW i \in 1..(l + 1) PROVE h[i] = i
      <4>1. i \in 1..l \/ i = l + 1
        BY <1>20
      <4>2. QED
        BY <1>20, <3>2, <4>1
    <3>8. QED
      BY <3>2, <3>3, <3>6, <3>7
  <2>2. CASE pkt.msg.type # "DATA"
    <3>1. got' = got
      BY <1>5, <2>2 DEF Receive
    <3>2. QED
      BY <1>11, <1>18, <1>19, <1>20, <2>2, <3>1
  <2>3. QED
    BY <2>1, <2>2
<1>22. PICK left : left = Tail(w)
  OBVIOUS
<1>23. mode' = mode /\ made' = made /\ made \in [End -> Nat]
  BY DEF Receive, IInv, TypeOK
<1>24. /\ Pass(e, ses[e], made[e], r, n) /\ Commit(e, r, left)
       /\ made' \in [End -> Nat] /\ made'[e] = n /\ made'[f] = made[f]
       /\ RecvView(r, Len(got'[e]), c) /\ Chain(f, left, c, SendView(f, ses[f], made[f]))
       /\ Cross(e, r, ses[f])
  BY <1>4, <1>7, <1>10, <1>15, <1>17, <1>21, <1>22, <1>23
<1>25. QED
  BY <1>1, <1>21, <1>23, <1>24, PassKeeps

\* A data packet more, sent or queued.
LEMMA SendDataInv ==
  ASSUME IInv, NEW e \in End, SendData(e)
  PROVE  IInv'
<1>1. PICK f : f = Peer(e)
  OBVIOUS
<1>2. f \in End /\ f # e /\ Peer(f) = e
  BY <1>1, Other
<1>3. /\ Ready(e, ses[e], made[e])
      /\ Linked(e, ses[e], Len(got[e]), wire[e], ses[f], made[f])
      /\ Cross(e, ses[e], ses[f])
  BY <1>1, BothEnds
<1>4. PICK s, n : s = ses[e] /\ n = made[e]
  OBVIOUS
<1>5. PICK r : r = encrypt_packet(s, [type |-> "DATA", n |-> n + 1])
  OBVIOUS
<1>6. PICK left : left = wire[e]
  OBVIOUS
<1>7. Commit(e, r, left) /\ mode' = mode /\ got' = got /\ made' = [made EXCEPT ![e] = made[e] + 1]
  BY <1>4, <1>5, <1>6 DEF SendData
<1>8. Pass(e, s, n, r, n + 1) /\ Wrote(r, s)
  BY <1>3, <1>4, <1>5, MakeData
<1>9. PICK c : RecvView(s, Len(got[e]), c) /\ Chain(f, left, c, SendView(f, ses[f], made[f]))
  BY <1>1, <1>3, <1>4, <1>6 DEF Linked
<1>10. RecvView(r, Len(got'[e]), c)
  BY <1>7, <1>8, <1>9 DEF Wrote, SameFlags, SameRecv, RecvView, Awaited
<1>11. Cross(e, r, ses[f])
  BY <1>3, <1>4, <1>8, CrossSame DEF Wrote, SameId
<1>12. /\ made' \in [End -> Nat] /\ made'[e] = n + 1 /\ made'[f] = made[f]
  BY <1>2, <1>4, <1>7 DEF IInv, TypeOK
<1>13. got' \in [End -> Seq(Nat)] /\ got'[f] = got[f] /\ \A k \in 1..Len(got'[e]) : got'[e][k] = k
  BY <1>7 DEF IInv, TypeOK, GotOK
<1>14. PICK m : m = n + 1
  OBVIOUS
<1>15. Pass(e, ses[e], made[e], r, m) /\ made'[e] = m
  BY <1>4, <1>8, <1>12, <1>14
<1>16. QED
  BY <1>1, <1>7, <1>9, <1>10, <1>11, <1>12, <1>13, <1>15, PassKeeps

\* An end starts an exchange; the server cannot have keys for it yet.
LEMMA RekeyInv ==
  ASSUME IInv, NEW e \in End, Rekey(e)
  PROVE  IInv'
<1>1. PICK f : f = Peer(e)
  OBVIOUS
<1>2. f \in End /\ f # e /\ Peer(f) = e
  BY <1>1, Other
<1>3. /\ Ready(e, ses[e], made[e]) /\ Ready(f, ses[f], made[f])
      /\ Linked(e, ses[e], Len(got[e]), wire[e], ses[f], made[f])
      /\ Linked(f, ses[f], Len(got[f]), wire[f], ses[e], made[e])
      /\ Cross(e, ses[e], ses[f])
  BY <1>1, BothEnds
<1>4. PICK s, n, t : s = ses[e] /\ n = made[e] /\ t = ses[f]
  OBVIOUS
<1>5. PICK good \in BOOLEAN : Commit(e, RestOfPass(send_msg_kexinit(s, good)), wire[e])
  BY <1>4 DEF Rekey
<1>6. PICK r : r = RestOfPass(send_msg_kexinit(s, good))
  OBVIOUS
<1>7. PICK left : left = wire[e]
  OBVIOUS
<1>8. Commit(e, r, left) /\ mode' = mode /\ got' = got /\ made' = made /\ ~s.sentkexinit
  BY <1>4, <1>5, <1>6, <1>7 DEF Rekey
<1>9. /\ Pass(e, s, n, r, n) /\ Begun(r) /\ SameRecv(r, s)
      /\ r.trans = s.trans /\ r.kexinits = s.kexinits + 1 /\ r.session_id = s.session_id
      /\ Idle(s)
  BY <1>3, <1>4, <1>6, <1>8, StartRekey
<1>10. PICK c : RecvView(s, Len(got[e]), c) /\ Chain(f, left, c, SendView(f, ses[f], made[f]))
  BY <1>1, <1>3, <1>4, <1>7 DEF Linked
<1>11. RecvView(r, Len(got'[e]), c)
  <2>1. Awaited(r) = 0 /\ Awaited(s) = 0
    BY <1>9 DEF Begun, Idle, Awaited
  <2>2. QED
    BY <1>8, <1>9, <1>10, <2>1 DEF SameRecv, RecvView
<1>12. Cross(e, r, t)
  <2>1. t.theirs <= s.kexinits
    BY <1>2, <1>3, <1>4, LinkedBounds
  <2>2. t.trans.cli \in Nat /\ t.theirs \in Nat /\ t.trans.cli <= t.theirs
    BY <1>2, <1>3, <1>4, Numbers
  <2>3. s.kexinits \in Nat
    BY <1>3, <1>4, Numbers
  <2>4. t.trans.cli # r.kexinits
    BY <1>9, <2>1, <2>2, <2>3
  <2>5. QED
    BY <1>3, <1>4, <1>9, <2>4, CrossSame
<1>13. /\ Pass(e, ses[e], made[e], r, n) /\ Cross(e, r, ses[f])
       /\ made' \in [End -> Nat] /\ made'[e] = n /\ made'[f] = made[f]
  BY <1>4, <1>8, <1>9, <1>12 DEF IInv, TypeOK
<1>14. got' \in [End -> Seq(Nat)] /\ got'[f] = got[f] /\ \A k \in 1..Len(got'[e]) : got'[e][k] = k
  BY <1>8 DEF IInv, TypeOK, GotOK
<1>15. QED
  BY <1>1, <1>8, <1>10, <1>11, <1>13, <1>14, PassKeeps

\* A step that changes nothing.
LEMMA StutterInv ==
  ASSUME IInv, UNCHANGED vars
  PROVE  IInv'
<1>1. /\ mode' = mode /\ ses' = ses /\ wire' = wire /\ made' = made /\ got' = got
      /\ nonces' = nonces /\ reused' = reused /\ exited' = exited
  BY DEF vars
<1>2. TypeOK' /\ GotOK' /\ NoProtocolError' /\ NonceNeverReused'
  BY <1>1 DEF IInv, TypeOK, GotOK, NoProtocolError, NonceNeverReused
<1>3. EndsOK'
  <2>1. \A y, s, n : Ready(y, s, n)' <=> Ready(y, s, n)
    BY <1>1, ReadyPrime
  <2>2. QED
    BY <1>1, <2>1 DEF IInv, EndsOK
<1>4. WiresOK'
  <2>1. \A y, s, l, w, t, k : Linked(y, s, l, w, t, k)' <=> Linked(y, s, l, w, t, k)
    BY <1>1, LinkedPrime
  <2>2. QED
    BY <1>1, <2>1 DEF IInv, WiresOK
<1>5. NoncesOK'
  <2>1. \A y, s, n : SendView(y, s, n)' = SendView(y, s, n)
    BY <1>1, SendViewPrime
  <2>2. QED
    BY <1>1, <2>1 DEF IInv, NoncesOK, Used
<1>6. KeysOK'
  BY <1>1 DEF IInv, KeysOK
<1>7. QED
  BY <1>2, <1>3, <1>4, <1>5, <1>6 DEF IInv

\* The invariant above holds in every reachable state.
THEOREM Invariant == Spec => []IInv
<1>1. IInv /\ [Next]_vars => IInv'
  BY ReceiveInv, SendDataInv, RekeyInv, StutterInv DEF Next
<1>2. QED
  BY <1>1, InitInv, PTL DEF Spec

-----------------------------------------------------------------------------
(***************************************************************************)
(* No endpoint ends the session: decrypt_packet never meets a packet with  *)
(* another key or sequence number than its own, process_packet no packet   *)
(* that it does not expect, and the client no signature over another hash, *)
(* for any number of exchanges, started by either end or both at once, for *)
(* right and wrong guesses, with and without strict kex.                   *)
(***************************************************************************)
THEOREM NoErrors == Spec => []NoProtocolError
<1>1. IInv => NoProtocolError
  BY DEF IInv
<1>2. QED
  BY <1>1, Invariant, PTL

(***************************************************************************)
(* What encrypt_packet takes, and queues during an exchange, arrives once  *)
(* and in order.                                                           *)
(***************************************************************************)
THEOREM InOrder == Spec => []DataInOrder
<1>1. ASSUME IInv, NEW e \in End PROVE Len(got[e]) <= made[Peer(e)]
  <2>1. PICK f : f = Peer(e)
    OBVIOUS
  <2>2. /\ Linked(e, ses[e], Len(got[e]), wire[e], ses[f], made[f])
        /\ Ready(f, ses[f], made[f])
    BY <1>1, <2>1, BothEnds
  <2>3. PICK l, k, x : l = Len(got[e]) /\ k = made[f] /\ x = Len(ses[f].reply_queue)
    OBVIOUS
  <2>4. l <= k - x
    BY <2>2, <2>3, LinkedBounds
  <2>5. k \in Nat /\ x \in Nat
    BY <2>2, <2>3, LenProperties DEF Ready, Sessions
  <2>6. l \in Nat
    BY <1>1, <2>3, LenProperties DEF IInv, TypeOK
  <2>7. l <= k
    BY <2>4, <2>5, <2>6
  <2>8. QED
    BY <2>1, <2>3, <2>7
<1>2. IInv => DataInOrder
  BY <1>1 DEF DataInOrder, IInv, GotOK
<1>3. QED
  BY <1>2, Invariant, PTL

(***************************************************************************)
(* encrypt_packet never uses a key twice with the same sequence number,    *)
(* although strict kex sets the number back to 0 in send_msg_newkeys.      *)
(***************************************************************************)
THEOREM NoncesFresh == Spec => []NonceNeverReused
<1>1. IInv => NonceNeverReused
  BY DEF IInv
<1>2. QED
  BY <1>1, Invariant, PTL

\* Once the client has a session id, the server has the same one, also while only
\* one of them has derived the keys of a rekey.  Public-key authentication signs
\* it and hashkeys puts it in every later key.
SessionIdAgreed ==
    ses["client"].session_id # NoKey => ses["client"].session_id = ses["server"].session_id

(***************************************************************************)
(* finish_kexhashbuf gives the client the session id that the server has,  *)
(* and no later exchange changes either of them.                           *)
(***************************************************************************)
THEOREM SameSessionId == Spec => []SessionIdAgreed
<1>1. IInv => SessionIdAgreed
  <2> SUFFICES ASSUME IInv PROVE SessionIdAgreed
    OBVIOUS
  <2>1. PICK c, s : c = ses["client"] /\ s = ses["server"]
    OBVIOUS
  <2>2. Identified(c, s)
    BY <2>1 DEF IInv, KeysOK, Cross
  <2>3. c.trans.cli \in Nat
    <3>1. Ready("client", c, made["client"])
      BY <2>1 DEF IInv, EndsOK, End
    <3>2. QED
      BY <3>1 DEF Ready, Sessions, Keys
  <2>4. c.trans.cli = 0 \/ c.trans.cli > 0
    BY <2>3
  <2>5. QED
    BY <2>1, <2>2, <2>4 DEF Identified, SessionIdAgreed
<1>2. QED
  BY <1>1, Invariant, PTL
=============================================================================
