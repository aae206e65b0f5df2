-------------------------- MODULE TransportProofs --------------------------
(***************************************************************************)
(* Proofs about module Transport: however a connection is cut into reads   *)
(* and partial writes, each end processes exactly the packets that the     *)
(* other made (Framing), also when some had to wait for the end of a key   *)
(* exchange, and a reply that did not have to never waits behind more than *)
(* the mark (Replies), for packets, blocks, buffers and windows of any     *)
(* size and any number of exchanges.                                       *)
(*                                                                         *)
(* The heart is the stream between two ends.  The bytes in the reader's    *)
(* buffer, followed by those under way, are linked: each is followed by    *)
(* the next byte of its packet or the first of the next packet, from the   *)
(* first byte of the packet the reader expects up to the byte the sender   *)
(* writes next.  A write extends it by what writev took (WriteQueue), a    *)
(* read moves bytes from its middle into the buffer (ReadSomeMoves), and a *)
(* packet that is complete is cut off its front (WholePacket).  Sums of    *)
(* sequences are reasoned about by induction over the set of indices that  *)
(* have a property (Induct).                                               *)
(***************************************************************************)
EXTENDS Transport, SequenceTheorems, WellFoundedInduction, TLAPS

\* Induction up to n, for a property given as the set of numbers that have it.
Inductive(P, n) == 0 \in P /\ \A m \in 1..n : m - 1 \in P => m \in P
\* A set that has 0 and, up to n, the successor of what it has, has all up to n.
LEMMA Induct ==
  ASSUME NEW n \in Nat, NEW P, Inductive(P, n)
  PROVE  \A m \in 0..n : m \in P
<1> DEFINE T == {m \in 0..n : m \notin P}
<1> SUFFICES ASSUME T # {} PROVE FALSE
  OBVIOUS
<1>1. T \subseteq Nat
  OBVIOUS
<1>2. PICK x \in T : \A y \in T : ~(<<y, x>> \in OpToRel(<, Nat))
  BY <1>1, WFMin, NatLessThanWellFounded
<1>3. \A y \in T : ~(y < x)
  BY <1>1, <1>2 DEF OpToRel
<1>4. x \in 1..n /\ x - 1 \in 0..n /\ x - 1 < x /\ x \notin P
  <2>1. x \in 0..n /\ x \notin P /\ x # 0
    BY <1>2 DEF Inductive
  <2>2. QED
    BY <2>1
<1>5. x - 1 \in P
  BY <1>3, <1>4
<1>6. QED
  BY <1>4, <1>5 DEF Inductive

\* f is the recursive function that Sums chooses.
SumsTo(d, n, f) == f = [i \in 0..n |-> IF i = 0 THEN 0 ELSE f[i - 1] + d[i]]

\* There are prefix sums.
LEMMA SumsExist ==
  ASSUME NEW d \in Seq(Nat)
  PROVE  \E f \in [0..Len(d) -> Nat] : SumsTo(d, Len(d), f)
<1> DEFINE P == {m \in 0..Len(d) : \E f \in [0..m -> Nat] : SumsTo(d, m, f)}
<1>1. Len(d) \in Nat
  OBVIOUS
<1>2. 0 \in P
  <2>1. [i \in 0..0 |-> 0] \in [0..0 -> Nat] /\ SumsTo(d, 0, [i \in 0..0 |-> 0])
    BY DEF SumsTo
  <2>2. QED
    BY <1>1, <2>1
<1>3. ASSUME NEW m \in 1..Len(d), m - 1 \in P PROVE m \in P
  <2>1. m - 1 \in 0..Len(d) /\ m \in 0..Len(d) /\ m \in Nat \ {0}
    BY <1>1
  <2>2. PICK g \in [0..(m - 1) -> Nat] : SumsTo(d, m - 1, g)
    BY <1>3
  <2>3. d[m] \in Nat /\ g[m - 1] \in Nat
    BY <2>1, <2>2
  <2> DEFINE f == [i \in 0..m |-> IF i = m THEN g[m - 1] + d[m] ELSE g[i]]
  <2>4. f \in [0..m -> Nat]
    BY <2>1, <2>2, <2>3
  <2>5. \A i \in 0..(m - 1) : g[i] = IF i = 0 THEN 0 ELSE g[i - 1] + d[i]
    BY <2>1, <2>2 DEF SumsTo
  <2>6. \A i \in 0..m : f[i] = IF i = 0 THEN 0 ELSE f[i - 1] + d[i]
    <3> SUFFICES ASSUME NEW i \in 0..m PROVE f[i] = IF i = 0 THEN 0 ELSE f[i - 1] + d[i]
      OBVIOUS
    <3>1. CASE i = m
      BY <2>1, <3>1
    <3>2. CASE i # m
      <4>1. i \in 0..(m - 1) /\ (i # 0 => i - 1 \in 0..m /\ i - 1 # m) /\ f[i] = g[i]
        BY <2>1, <3>2
      <4>2. QED
        BY <2>5, <4>1
    <3>3. QED
      BY <3>1, <3>2
  <2>7. f = [i \in 0..m |-> f[i]]
    OBVIOUS
  <2> HIDE DEF f
  <2>8. SumsTo(d, m, f)
    BY <2>6, <2>7 DEF SumsTo
  <2>9. QED
    BY <2>1, <2>4, <2>8
<1> HIDE DEF P
<1>4. Inductive(P, Len(d))
  BY <1>2, <1>3 DEF Inductive
<1>5. Len(d) \in P
  BY <1>1, <1>4, Induct
<1>6. QED
  BY <1>5 DEF P

\* Prefix sums add up.
LEMMA SumsDef ==
  ASSUME NEW d \in Seq(Nat)
  PROVE  /\ Sums(d)[0] = 0
         /\ \A i \in 1..Len(d) : Sums(d)[i] = Sums(d)[i - 1] + d[i]
         /\ \A i \in 0..Len(d) : Sums(d)[i] \in Nat
<1>1. PICK f \in [0..Len(d) -> Nat] : SumsTo(d, Len(d), f)
  BY SumsExist
<1>2. Sums(d) = CHOOSE g : SumsTo(d, Len(d), g)
  BY DEF Sums, SumsTo
<1>3. SumsTo(d, Len(d), Sums(d))
  BY <1>1, <1>2
<1>4. PICK g : g = Sums(d)
  OBVIOUS
<1>5. g = [i \in 0..Len(d) |-> IF i = 0 THEN 0 ELSE g[i - 1] + d[i]]
  BY <1>3, <1>4 DEF SumsTo
<1>6. g[0] = 0 /\ \A i \in 1..Len(d) : g[i] = g[i - 1] + d[i]
  <2>1. \A i \in 0..Len(d) : g[i] = IF i = 0 THEN 0 ELSE g[i - 1] + d[i]
    BY <1>5, Zenon
  <2>2. Len(d) \in Nat
    OBVIOUS
  <2>3. QED
    BY <2>1, <2>2
<1> DEFINE P == {m \in 0..Len(d) : g[m] \in Nat}
<1>7. Len(d) \in Nat /\ 0 \in P
  BY <1>6
<1>8. ASSUME NEW m \in 1..Len(d), m - 1 \in P PROVE m \in P
  <2>1. d[m] \in Nat /\ g[m - 1] \in Nat
    BY <1>8
  <2>2. QED
    BY <1>6, <2>1
<1> HIDE DEF P
<1>9. Inductive(P, Len(d))
  BY <1>7, <1>8 DEF Inductive
<1>10. \A m \in 0..Len(d) : m \in P
  BY <1>7, <1>9, Induct
<1>11. QED
  BY <1>4, <1>6, <1>10 DEF P

\* A part of a sequence of numbers, and numbers that are no larger.
LEMMA SumsPart ==
  ASSUME NEW c \in Seq(Nat), NEW d \in Seq(Nat), NEW f \in Nat, f + Len(c) <= Len(d)
  PROVE  /\ (\A i \in 1..Len(c) : c[i] <= d[f + i]) =>
               \A i \in 0..Len(c) : Sums(c)[i] + Sums(d)[f] <= Sums(d)[f + i]
         /\ (\A i \in 1..Len(c) : c[i] = d[f + i]) =>
               \A i \in 0..Len(c) : Sums(c)[i] + Sums(d)[f] = Sums(d)[f + i]
<1>1. PICK C, D : C = Sums(c) /\ D = Sums(d)
  OBVIOUS
<1>2. /\ C[0] = 0 /\ \A i \in 1..Len(c) : C[i] = C[i - 1] + c[i]
      /\ \A i \in 0..Len(c) : C[i] \in Nat
      /\ \A i \in 1..Len(d) : D[i] = D[i - 1] + d[i]
      /\ \A i \in 0..Len(d) : D[i] \in Nat
  BY <1>1, SumsDef
<1>3. /\ Len(c) \in Nat /\ Len(d) \in Nat
      /\ \A i \in 1..Len(c) : c[i] \in Nat /\ d[f + i] \in Nat
  <2>1. Len(c) \in Nat /\ Len(d) \in Nat
    OBVIOUS
  <2>2. ASSUME NEW i \in 1..Len(c) PROVE c[i] \in Nat /\ d[f + i] \in Nat
    <3>1. f + i \in 1..Len(d)
      BY <2>1
    <3>2. c[i] \in Nat
      OBVIOUS
    <3>3. d[f + i] \in Nat
      BY <3>1
    <3>4. QED
      BY <3>2, <3>3
  <2>3. QED
    BY <2>1, <2>2
<1>4. ASSUME NEW m \in 1..Len(c)
      PROVE  /\ C[m] = C[m - 1] + c[m] /\ D[f + m] = D[f + (m - 1)] + d[f + m]
             /\ C[m - 1] \in Nat /\ D[f + (m - 1)] \in Nat /\ D[f] \in Nat
             /\ m - 1 \in 0..Len(c) /\ c[m] \in Nat /\ d[f + m] \in Nat
  <2>1. f + m \in 1..Len(d) /\ f + (m - 1) \in 0..Len(d) /\ f + (m - 1) = (f + m) - 1
        /\ m - 1 \in 0..Len(c) /\ f \in 0..Len(d)
    BY <1>3
  <2>2. QED
    BY <1>2, <1>3, <2>1
<1>5. f \in 0..Len(d) /\ f + 0 = f /\ D[f] \in Nat
  BY <1>2, <1>3
<1>6. ASSUME \A i \in 1..Len(c) : c[i] <= d[f + i]
      PROVE  \A i \in 0..Len(c) : C[i] + D[f] <= D[f + i]
  <2> DEFINE P == {m \in 0..Len(c) : C[m] + D[f] <= D[f + m]}
  <2>1. 0 \in P
    BY <1>2, <1>3, <1>5
  <2>2. ASSUME NEW m \in 1..Len(c), m - 1 \in P PROVE m \in P
    <3>1. C[m - 1] + D[f] <= D[f + (m - 1)] /\ c[m] <= d[f + m]
      BY <1>6, <2>2
    <3>2. C[m] + D[f] <= D[f + m]
      <4>1. PICK u, v, x, y, z, a, b : /\ u = C[m - 1] /\ v = D[f + (m - 1)] /\ x = c[m]
                                       /\ y = d[f + m] /\ z = D[f] /\ a = C[m] /\ b = D[f + m]
        OBVIOUS
      <4>2. /\ u \in Nat /\ v \in Nat /\ x \in Nat /\ y \in Nat /\ z \in Nat
            /\ a = u + x /\ b = v + y
        BY <1>4, <4>1
      <4>3. u + z <= v /\ x <= y
        BY <3>1, <4>1
      <4>4. a + z <= b
        BY <4>2, <4>3
      <4>5. QED
        BY <4>1, <4>4
    <3>3. QED
      BY <3>2
  <2> HIDE DEF P
  <2>3. Inductive(P, Len(c))
    BY <2>1, <2>2 DEF Inductive
  <2>4. \A m \in 0..Len(c) : m \in P
    BY <1>3, <2>3, Induct
  <2>5. QED
    BY <2>4 DEF P
<1>7. ASSUME \A i \in 1..Len(c) : c[i] = d[f + i]
      PROVE  \A i \in 0..Len(c) : C[i] + D[f] = D[f + i]
  <2> DEFINE P == {m \in 0..Len(c) : C[m] + D[f] = D[f + m]}
  <2>1. 0 \in P
    BY <1>2, <1>3, <1>5
  <2>2. ASSUME NEW m \in 1..Len(c), m - 1 \in P PROVE m \in P
    <3>1. C[m - 1] + D[f] = D[f + (m - 1)] /\ c[m] = d[f + m]
      BY <1>7, <2>2
    <3>2. C[m] + D[f] = D[f + m]
      <4>1. PICK u, v, x, y, z, a, b : /\ u = C[m - 1] /\ v = D[f + (m - 1)] /\ x = c[m]
                                       /\ y = d[f + m] /\ z = D[f] /\ a = C[m] /\ b = D[f + m]
        OBVIOUS
      <4>2. /\ u \in Nat /\ v \in Nat /\ x \in Nat /\ y \in Nat /\ z \in Nat
            /\ a = u + x /\ b = v + y
        BY <1>4, <4>1
      <4>3. u + z = v /\ x = y
        BY <3>1, <4>1
      <4>4. a + z = b
        BY <4>2, <4>3
      <4>5. QED
        BY <4>1, <4>4
    <3>3. QED
      BY <3>2
  <2> HIDE DEF P
  <2>3. Inductive(P, Len(c))
    BY <2>1, <2>2 DEF Inductive
  <2>4. \A m \in 0..Len(c) : m \in P
    BY <1>3, <2>3, Induct
  <2>5. QED
    BY <2>4 DEF P
<1>8. QED
  BY <1>1, <1>6, <1>7

\* Later sums are no smaller.
LEMMA SumsGrow ==
  ASSUME NEW d \in Seq(Nat), NEW i \in 0..Len(d), NEW j \in i..Len(d)
  PROVE  Sums(d)[i] <= Sums(d)[j]
<1> DEFINE P == {m \in 0..(j - i) : Sums(d)[i] <= Sums(d)[i + m]}
<1>1. Len(d) \in Nat /\ j - i \in Nat
  OBVIOUS
<1>2. 0 \in P
  <2>1. i + 0 = i /\ Sums(d)[i] \in Nat
    BY SumsDef
  <2>2. QED
    BY <1>1, <2>1
<1>3. ASSUME NEW m \in 1..(j - i), m - 1 \in P PROVE m \in P
  <2>1. i + m \in 1..Len(d) /\ i + (m - 1) = (i + m) - 1 /\ (i + m) - 1 \in 0..Len(d)
    BY <1>1
  <2>2. d[i + m] \in Nat
    BY <2>1
  <2>3. /\ Sums(d)[i + m] = Sums(d)[(i + m) - 1] + d[i + m]
        /\ Sums(d)[(i + m) - 1] \in Nat /\ Sums(d)[i] \in Nat
    BY <2>1, SumsDef
  <2>4. PICK a, b, c, x : a = Sums(d)[i] /\ b = Sums(d)[(i + m) - 1] /\ c = Sums(d)[i + m] /\ x = d[i + m]
    OBVIOUS
  <2>5. a \in Nat /\ b \in Nat /\ x \in Nat /\ c = b + x /\ a <= b
    <3>1. Sums(d)[i] <= Sums(d)[i + (m - 1)]
      BY <1>3
    <3>2. QED
      BY <2>1, <2>2, <2>3, <2>4, <3>1
  <2>6. a <= c
    BY <2>5
  <2>7. QED
    BY <1>1, <2>4, <2>6
<1> HIDE DEF P
<1>4. Inductive(P, j - i)
  BY <1>2, <1>3 DEF Inductive
<1>5. j - i \in P
  BY <1>1, <1>4, Induct
<1>6. i + (j - i) = j
  BY <1>1
<1>7. QED
  BY <1>5, <1>6 DEF P

\* The least of a set of numbers, and the greatest of one that is bounded.
LEMMA MinNat ==
  ASSUME NEW T, T \subseteq Nat, T # {}
  PROVE  Min(T) \in T /\ \A y \in T : Min(T) <= y
<1>1. PICK x \in T : \A y \in T : ~(<<y, x>> \in OpToRel(<, Nat))
  BY WFMin, NatLessThanWellFounded
<1>2. \A y \in T : ~(y < x)
  BY <1>1 DEF OpToRel
<1>3. \A y \in T : x <= y
  BY <1>2
<1>4. QED
  BY <1>3 DEF Min

\* The greatest of a set of numbers that is bounded.
LEMMA MaxNat ==
  ASSUME NEW n \in Nat, NEW T, T \subseteq 0..n, T # {}
  PROVE  Max(T) \in T /\ \A y \in T : Max(T) >= y
<1> DEFINE U == {m \in Nat : n - m \in T}
<1>1. PICK z \in T : TRUE
  OBVIOUS
<1>2. n - z \in U
  <2>1. z \in 0..n
    OBVIOUS
  <2>2. n - z \in Nat /\ n - (n - z) = z
    BY <2>1
  <2>3. QED
    BY <1>1, <2>2
<1> HIDE DEF U
<1>3. U \subseteq Nat /\ U # {}
  BY <1>2 DEF U
<1>4. Min(U) \in U /\ \A y \in U : Min(U) <= y
  BY <1>3, MinNat
<1>5. PICK u : u = Min(U)
  OBVIOUS
<1>6. u \in Nat /\ n - u \in T /\ \A y \in U : u <= y
  BY <1>4, <1>5 DEF U
<1>7. \A y \in T : n - u >= y
  <2> SUFFICES ASSUME NEW y \in T PROVE n - u >= y
    OBVIOUS
  <2>1. y \in 0..n
    OBVIOUS
  <2>2. n - y \in Nat /\ n - (n - y) = y
    BY <2>1
  <2>3. n - y \in U
    BY <2>2 DEF U
  <2>4. u <= n - y
    BY <1>6, <2>3
  <2>5. QED
    BY <1>6, <2>1, <2>4
<1>8. \E x \in T : \A y \in T : x >= y
  BY <1>6, <1>7
<1>9. QED
  BY <1>8 DEF Max

-----------------------------------------------------------------------------
(***************************************************************************)
(* The write queue.                                                        *)
(***************************************************************************)
\* A packet of the queue, and a session.
Pack == [n : Nat, pos : Nat, len : Nat]
Ses == [writequeue : Seq(Pack), writequeue_len : Nat, sent : Seq(Kind),
        dataallowed : BOOLEAN, reply_queue : Seq(Kind \ {"ident"}), late : SUBSET Nat,
        readbuf : Seq(Nat \X Nat), readlen : Nat, remoteident : BOOLEAN, got : Seq(Kind),
        window : Nat, held : Nat, data : Nat, reqs : Nat, rekeys : Nat,
        problem : {"no"}]

\* The queue holds the last packets that were made, in order.
Numbered(q, sent) ==
    /\ Len(q) <= Len(sent)
    /\ \A i \in 1..Len(q) : q[i].n = Len(sent) - Len(q) + i
\* Only the first packet of the queue can be written in part.
Cut(q, sent) ==
    \A i \in 1..Len(q) :
       /\ q[i].len = PacketLen(q[i].n, sent[q[i].n]) /\ q[i].pos < q[i].len
       /\ i > 1 => q[i].pos = 0
\* The queue is in order, and writequeue_len is what it holds.
QueueOK(s) ==
    /\ \A n \in 1..Len(s.sent) : (s.sent[n] = "ident") <=> (n = 1)
    /\ Numbered(s.writequeue, s.sent) /\ Cut(s.writequeue, s.sent)
    /\ s.writequeue_len = Remaining(s.writequeue)[Len(s.writequeue)]
\* RepliesBounded for one end.
Bounded(s) ==
    \A i \in 1..Len(s.writequeue) :
       IsReply(s, i) /\ s.writequeue[i].n \notin s.late
          => Sums(Unasked(s))[i - 1] <= HighWater

\* The byte that the next write starts with.
NextByte(s) == IF s.writequeue = << >> THEN <<Len(s.sent) + 1, 1>>
               ELSE <<s.writequeue[1].n, s.writequeue[1].pos + 1>>

\* encrypt_packet: every packet has bytes, and all but the identification line have at
\* least the block from which read_packet_init takes the length.
LEMMA PacketLens ==
  /\ \A n \in Nat, k \in Kind : PacketLen(n, k) \in Nat \ {0}
  /\ \A n \in Nat, k \in Kind \ {"ident"} : PacketLen(n, k) >= BlockSize
  /\ \A n \in Nat : PacketLen(n, "ident") = IdentLen
<1>1. /\ BlockSize \in Nat \ {0} /\ IdentLen \in Nat \ {0} /\ DataBlocks \in Nat \ {0}
      /\ MacSize \in Nat
  BY TransportAssumption
<1>2. PICK b : b = DataBlocks * BlockSize
  OBVIOUS
<1>3. b \in Nat /\ b >= BlockSize
  <2>1. \A x, y \in Nat \ {0} : x * y \in Nat /\ x * y >= y
    OBVIOUS
  <2>2. QED
    BY <1>1, <1>2, <2>1
<1>4. \A n \in Nat : MacLen(n) \in Nat
  BY <1>1 DEF MacLen
<1>5. ASSUME NEW n \in Nat, NEW k \in Kind
      PROVE  /\ PacketLen(n, k) \in Nat \ {0}
             /\ k # "ident" => PacketLen(n, k) >= BlockSize
             /\ k = "ident" => PacketLen(n, k) = IdentLen
  <2>1. PICK m : m = MacLen(n)
    OBVIOUS
  <2>2. m \in Nat
    BY <1>4, <2>1
  <2>3. CASE k = "ident"
    BY <1>1, <2>3 DEF PacketLen
  <2>4. CASE k = "data"
    <3>1. PacketLen(n, k) = b + m
      BY <1>2, <2>1, <2>4 DEF PacketLen
    <3>2. QED
      BY <1>1, <1>3, <2>2, <2>4, <3>1
  <2>5. CASE k \notin {"ident", "data"}
    <3>1. PacketLen(n, k) = BlockSize + m
      BY <2>1, <2>5 DEF PacketLen
    <3>2. QED
      BY <1>1, <2>2, <2>5, <3>1
  <2>6. QED
    BY <2>3, <2>4, <2>5
<1>6. "ident" \in Kind
  BY DEF Kind
<1>7. QED
  BY <1>5, <1>6

\* The bytes left of the packets of a queue.
Left(q) == [i \in 1..Len(q) |-> q[i].len - q[i].pos]
\* Remaining adds up what is left of each packet, and no packet in the queue is done.
LEMMA QueueSums ==
  ASSUME NEW q \in Seq(Pack), \A i \in 1..Len(q) : q[i].pos < q[i].len
  PROVE  /\ Left(q) \in Seq(Nat) /\ Len(Left(q)) = Len(q) /\ Remaining(q) = Sums(Left(q))
         /\ Remaining(q)[0] = 0
         /\ \A i \in 1..Len(q) :
               /\ Remaining(q)[i] = Remaining(q)[i - 1] + (q[i].len - q[i].pos)
               /\ Remaining(q)[i - 1] < Remaining(q)[i]
         /\ \A i \in 0..Len(q) : Remaining(q)[i] \in Nat
<1>1. Len(q) \in Nat /\ \A i \in 1..Len(q) : q[i].len - q[i].pos \in Nat \ {0}
  <2>1. ASSUME NEW i \in 1..Len(q) PROVE q[i].len - q[i].pos \in Nat \ {0}
    <3>1. q[i] \in Pack /\ q[i].pos < q[i].len
      OBVIOUS
    <3>2. q[i].len \in Nat /\ q[i].pos \in Nat
      BY <3>1 DEF Pack
    <3>3. QED
      BY <3>1, <3>2
  <2>2. QED
    BY <2>1
<1>2. Left(q) \in Seq(Nat) /\ Len(Left(q)) = Len(q)
        /\ \A i \in 1..Len(q) : Left(q)[i] = q[i].len - q[i].pos
  BY <1>1 DEF Left
<1>3. Remaining(q) = Sums(Left(q))
  BY DEF Remaining, Left
<1>4. PICK R, L : R = Remaining(q) /\ L = Left(q)
  OBVIOUS
<1>5. /\ R[0] = 0 /\ \A i \in 1..Len(q) : R[i] = R[i - 1] + L[i]
      /\ \A i \in 0..Len(q) : R[i] \in Nat
  BY <1>2, <1>3, <1>4, SumsDef
<1>6. ASSUME NEW i \in 1..Len(q)
      PROVE  R[i] = R[i - 1] + (q[i].len - q[i].pos) /\ R[i - 1] < R[i]
  <2>1. PICK x : x = q[i].len - q[i].pos
    OBVIOUS
  <2>2. x \in Nat \ {0} /\ L[i] = x
    BY <1>1, <1>2, <1>4, <2>1
  <2>3. i - 1 \in 0..Len(q) /\ R[i - 1] \in Nat /\ R[i] = R[i - 1] + x
    BY <1>1, <1>5, <2>2
  <2>4. QED
    BY <2>1, <2>2, <2>3
<1>7. QED
  BY <1>2, <1>3, <1>4, <1>5, <1>6

\* packet_queue_to_iovec: which byte is byte k.
LEMMA OfferedByteIs ==
  ASSUME NEW q \in Seq(Pack), \A i \in 1..Len(q) : q[i].pos < q[i].len,
         NEW k \in Nat \ {0}, NEW i \in 1..Len(q),
         Remaining(q)[i - 1] < k, k <= Remaining(q)[i]
  PROVE  OfferedByte(q, k) = <<q[i].n, q[i].pos + (k - Remaining(q)[i - 1])>>
<1>1. PICK R : R = Remaining(q)
  OBVIOUS
<1>2. /\ \A j \in 1..Len(q) : R[j] = R[j - 1] + (q[j].len - q[j].pos) /\ R[j - 1] < R[j]
      /\ \A j \in 0..Len(q) : R[j] \in Nat
      /\ Left(q) \in Seq(Nat) /\ Len(Left(q)) = Len(q) /\ R = Sums(Left(q))
  BY <1>1, QueueSums
<1> DEFINE J == {j \in 1..Len(q) : R[j] >= k}
<1>3. i \in J /\ J \subseteq Nat
  BY <1>1, <1>2
<1>4. \A j \in J : i <= j
  <2> SUFFICES ASSUME NEW j \in J, j < i PROVE FALSE
    OBVIOUS
  <2>1. j \in 0..Len(q) /\ i - 1 \in j..Len(q) /\ i - 1 \in 0..Len(q) /\ R[j] >= k
    OBVIOUS
  <2>2. R[j] <= R[i - 1]
    BY <1>2, <2>1, SumsGrow
  <2>3. R[j] \in Nat /\ R[i - 1] \in Nat
    BY <1>2, <2>1
  <2>4. QED
    BY <1>1, <2>1, <2>2, <2>3
<1> HIDE DEF J
<1>5. Min(J) = i
  <2>1. Min(J) \in J /\ Min(J) <= i
    BY <1>3, MinNat
  <2>2. Min(J) \in Nat /\ i <= Min(J)
    BY <1>3, <1>4, <2>1
  <2>3. QED
    BY <2>1, <2>2
<1>6. OfferedByte(q, k) = <<q[i].n, q[i].len - (R[i] - k)>>
  BY <1>1, <1>5 DEF OfferedByte, J
<1>7. q[i].len - (R[i] - k) = q[i].pos + (k - R[i - 1])
  <2>1. PICK x, y, u, v : x = q[i].len /\ y = q[i].pos /\ u = R[i] /\ v = R[i - 1]
    OBVIOUS
  <2>2. x \in Nat /\ y \in Nat /\ u \in Nat /\ v \in Nat /\ u = v + (x - y)
    <3>1. i - 1 \in 0..Len(q) /\ i \in 0..Len(q) /\ q[i] \in Pack
      OBVIOUS
    <3>2. QED
      BY <1>2, <2>1, <3>1 DEF Pack
  <2>3. x - (u - k) = y + (k - v)
    BY <2>2
  <2>4. QED
    BY <2>1, <2>3
<1>8. QED
  BY <1>1, <1>6, <1>7

\* packet_queue_consume: f packets are gone, and part of the next.
Consumed(q, w, f, t) ==
    /\ f \in 0..Len(q) /\ Remaining(q)[f] <= w /\ (f < Len(q) => w < Remaining(q)[f + 1])
    /\ f = Len(q) => w = Remaining(q)[f]
    /\ t \in Seq(Pack) /\ Len(t) = Len(q) - f
    /\ \A i \in 1..Len(t) :
          /\ t[i].n = q[f + i].n /\ t[i].len = q[f + i].len
          /\ t[i].pos = q[f + i].pos + (IF i = 1 THEN w - Remaining(q)[f] ELSE 0)

\* packet_queue_consume, of no more than the queue holds, does what Consumed says.
LEMMA ConsumeIs ==
  ASSUME NEW q \in Seq(Pack), \A i \in 1..Len(q) : q[i].pos < q[i].len,
         NEW w \in 0..Remaining(q)[Len(q)]
  PROVE  \E f : Consumed(q, w, f, packet_queue_consume(q, w))
<1>1. PICK R, n : R = Remaining(q) /\ n = Len(q)
  OBVIOUS
<1>2. /\ n \in Nat /\ R[0] = 0 /\ \A j \in 0..n : R[j] \in Nat
  BY <1>1, QueueSums
<1>3. w \in Nat /\ w <= R[n]
  BY <1>1, <1>2
<1> DEFINE F == {i \in 0..n : R[i] <= w}
<1>4. 0 \in F /\ F \subseteq 0..n
  BY <1>2, <1>3
<1>5. PICK f : f = Max(F)
  OBVIOUS
<1>6. f \in F /\ \A y \in F : f >= y
  <2> HIDE DEF F
  <2> QED
    BY <1>2, <1>4, <1>5, MaxNat
<1>7. f \in 0..n /\ R[f] <= w /\ R[f] \in Nat
  BY <1>2, <1>6
<1>8. ASSUME f < n PROVE w < R[f + 1]
  <2>1. f + 1 \in 0..n /\ ~(f >= f + 1)
    BY <1>2, <1>7, <1>8
  <2>2. R[f + 1] \in Nat /\ ~(R[f + 1] <= w)
    BY <1>2, <1>6, <2>1
  <2>3. QED
    BY <1>3, <2>2
<1>9. f = n => w = R[f]
  BY <1>3, <1>7
<1>10. PICK part, rest : part = w - R[f] /\ rest = SubSeq(q, f + 1, n)
  OBVIOUS
<1>11. part \in Nat
  BY <1>3, <1>7, <1>10
<1>12. /\ rest \in Seq(Pack) /\ Len(rest) = n - f
       /\ \A i \in 1..Len(rest) : rest[i] = q[f + i] /\ rest[i] \in Pack
  <2>1. f + 1 \in 1..(n + 1) /\ n = Len(q) /\ n \in Nat
    BY <1>1, <1>2, <1>7
  <2>2. \A i \in (f + 1)..n : q[i] \in Pack
    BY <2>1
  <2>3. /\ rest \in Seq(Pack)
        /\ Len(rest) = IF f + 1 <= n THEN n - (f + 1) + 1 ELSE 0
        /\ \A i \in 1..(n - (f + 1) + 1) : rest[i] = q[(f + 1) + i - 1]
    BY <1>10, <2>1, <2>2, SubSeqProperties
  <2>4. Len(rest) = n - f /\ \A i \in 1..Len(rest) : rest[i] = q[f + i]
    BY <1>2, <1>7, <2>3
  <2>5. QED
    BY <2>3, <2>4
<1>13. PICK t : t = packet_queue_consume(q, w)
  OBVIOUS
<1>14. t = IF part = 0 THEN rest ELSE [rest EXCEPT ![1].pos = @ + part]
  <2>1. F = {i \in 0..Len(q) : Remaining(q)[i] <= w}
    BY <1>1
  <2> HIDE DEF F
  <2>2. QED
    BY <1>1, <1>5, <1>10, <1>13, <2>1 DEF packet_queue_consume
<1>15. CASE part = 0
  <2>1. t = rest
    BY <1>14, <1>15
  <2>2. ASSUME NEW i \in 1..Len(t)
        PROVE  t[i].pos = q[f + i].pos + (IF i = 1 THEN w - R[f] ELSE 0)
    <3>1. t[i] = q[f + i] /\ t[i].pos \in Nat
      BY <1>12, <2>1 DEF Pack
    <3>2. QED
      BY <1>10, <1>15, <3>1
  <2>3. \A i \in 1..Len(t) : t[i].n = q[f + i].n /\ t[i].len = q[f + i].len
    BY <1>12, <2>1
  <2>4. Consumed(q, w, f, t)
    BY <1>1, <1>7, <1>8, <1>9, <1>12, <2>1, <2>2, <2>3 DEF Consumed
  <2>5. QED
    BY <1>13, <2>4
<1>16. CASE part # 0
  <2>1. f < n /\ Len(rest) \in Nat \ {0} /\ 1 \in 1..Len(rest)
    BY <1>2, <1>7, <1>9, <1>10, <1>12, <1>16
  <2>2. PICK x : x = [rest[1] EXCEPT !.pos = @ + part]
    OBVIOUS
  <2>3. x \in Pack /\ x.n = rest[1].n /\ x.len = rest[1].len /\ x.pos = rest[1].pos + part
    <3>1. rest[1] \in Pack
      BY <1>12, <2>1
    <3>2. rest[1].n \in Nat /\ rest[1].len \in Nat /\ rest[1].pos \in Nat
      BY <3>1 DEF Pack
    <3>3. rest[1].pos + part \in Nat
      BY <1>11, <3>2
    <3>4. QED
      BY <2>2, <3>1, <3>2, <3>3 DEF Pack
  <2>4. t = [rest EXCEPT ![1] = x]
    BY <1>14, <1>16, <2>2
  <2>5. t \in Seq(Pack) /\ Len(t) = Len(rest) /\ \A i \in 1..Len(t) : t[i] = IF i = 1 THEN x ELSE rest[i]
    BY <1>12, <2>1, <2>3, <2>4
  <2>6. ASSUME NEW i \in 1..Len(t)
        PROVE  /\ t[i].n = q[f + i].n /\ t[i].len = q[f + i].len
               /\ t[i].pos = q[f + i].pos + (IF i = 1 THEN w - R[f] ELSE 0)
    <3>1. i \in 1..Len(rest) /\ rest[i] = q[f + i] /\ rest[i].pos \in Nat
      BY <1>12, <2>5 DEF Pack
    <3>2. CASE i = 1
      BY <1>10, <2>1, <2>3, <2>5, <3>1, <3>2
    <3>3. CASE i # 1
      <4>1. t[i] = q[f + i] /\ q[f + i].pos \in Nat
        BY <2>5, <3>1, <3>3
      <4>2. QED
        BY <3>3, <4>1
    <3>4. QED
      BY <3>2, <3>3
  <2>7. Consumed(q, w, f, t)
    BY <1>1, <1>7, <1>8, <1>9, <1>12, <2>5, <2>6 DEF Consumed
  <2>8. QED
    BY <1>13, <2>7
<1>17. QED
  BY <1>15, <1>16

\* The rest of the queue has the bytes that were not written.
LEMMA ConsumeSums ==
  ASSUME NEW q \in Seq(Pack), \A i \in 1..Len(q) : q[i].pos < q[i].len,
         NEW w \in 0..Remaining(q)[Len(q)], NEW f, NEW t, Consumed(q, w, f, t)
  PROVE  /\ \A i \in 1..Len(t) : t[i].pos < t[i].len
         /\ Remaining(t)[Len(t)] = Remaining(q)[Len(q)] - w
         /\ f < Len(q) => w - Remaining(q)[f] \in 0..(q[f + 1].len - q[f + 1].pos - 1)
<1>1. PICK R, n : R = Remaining(q) /\ n = Len(q)
  OBVIOUS
<1>2. /\ n \in Nat /\ R[0] = 0 /\ \A j \in 0..n : R[j] \in Nat
      /\ \A i \in 1..n : R[i] = R[i - 1] + (q[i].len - q[i].pos)
  <2>1. Len(q) \in Nat
    OBVIOUS
  <2>2. QED
    BY <1>1, <2>1, QueueSums
<1>3. /\ f \in 0..n /\ R[f] <= w /\ (f < n => w < R[f + 1]) /\ (f = n => w = R[f])
      /\ t \in Seq(Pack) /\ Len(t) = n - f /\ w \in Nat /\ w <= R[n] /\ Len(t) \in Nat
      /\ \A i \in 1..Len(t) : t[i].n = q[f + i].n /\ t[i].len = q[f + i].len
      /\ \A i \in 1..Len(t) : t[i].pos = q[f + i].pos + (IF i = 1 THEN w - R[f] ELSE 0)
  BY <1>1, <1>2 DEF Consumed
<1>4. \A i \in 1..n : q[i].len \in Nat /\ q[i].pos \in Nat /\ q[i].pos < q[i].len
  <2>1. ASSUME NEW i \in 1..n PROVE q[i].len \in Nat /\ q[i].pos \in Nat /\ q[i].pos < q[i].len
    <3>1. q[i] \in Pack /\ q[i].pos < q[i].len
      BY <1>1
    <3>2. QED
      BY <3>1 DEF Pack
  <2>2. QED
    BY <2>1
<1>5. ASSUME f < n PROVE w - R[f] \in 0..(q[f + 1].len - q[f + 1].pos - 1)
  <2>1. f + 1 \in 1..n /\ (f + 1) - 1 = f
    BY <1>2, <1>3, <1>5
  <2>2. PICK x, y : x = q[f + 1].len /\ y = q[f + 1].pos
    OBVIOUS
  <2>3. x \in Nat /\ y \in Nat /\ y < x /\ R[f + 1] = R[f] + (x - y) /\ R[f] \in Nat
    BY <1>2, <1>3, <1>4, <2>1, <2>2
  <2>4. w - R[f] \in 0..(x - y - 1)
    BY <1>3, <1>5, <2>3
  <2>5. QED
    BY <2>2, <2>4
<1>6. ASSUME NEW i \in 1..Len(t)
      PROVE  /\ t[i].pos < t[i].len
             /\ t[i].len - t[i].pos = (q[f + i].len - q[f + i].pos) - (IF i = 1 THEN w - R[f] ELSE 0)
  <2>1. f + i \in 1..n /\ f < n
    BY <1>2, <1>3
  <2>2. PICK x, y, p : x = q[f + i].len /\ y = q[f + i].pos /\ p = w - R[f]
    OBVIOUS
  <2>3. x \in Nat /\ y \in Nat /\ y < x /\ p \in Nat
    BY <1>4, <1>5, <2>1, <2>2
  <2>4. t[i].len = x /\ t[i].pos = y + (IF i = 1 THEN p ELSE 0)
    BY <1>3, <2>2
  <2>5. i = 1 => p <= x - y - 1
    BY <1>5, <2>1, <2>2
  <2>6. t[i].pos < t[i].len /\ t[i].len - t[i].pos = (x - y) - (IF i = 1 THEN p ELSE 0)
    BY <2>3, <2>4, <2>5
  <2>7. QED
    BY <2>2, <2>6
<1>7. PICK U : U = Remaining(t)
  OBVIOUS
<1>8. /\ U[0] = 0 /\ \A j \in 0..Len(t) : U[j] \in Nat
      /\ \A i \in 1..Len(t) : U[i] = U[i - 1] + (t[i].len - t[i].pos)
  BY <1>3, <1>6, <1>7, QueueSums
<1> DEFINE P == {m \in 0..Len(t) : m # 0 => U[m] = R[f + m] - w}
<1>9. 0 \in P
  BY <1>3
<1>10. ASSUME NEW m \in 1..Len(t), m - 1 \in P PROVE m \in P
  <2>1. /\ f + m \in 1..n /\ (f + m) - 1 = f + (m - 1) /\ f + (m - 1) \in 0..n /\ m - 1 \in 0..Len(t)
    BY <1>2, <1>3
  <2>2. PICK x, y, u, v, p : /\ x = q[f + m].len - q[f + m].pos /\ u = U[m - 1]
                             /\ v = R[f + (m - 1)] /\ p = w - R[f] /\ y = t[m].len - t[m].pos
    OBVIOUS
  <2>3. U[m] = u + y /\ y = x - (IF m = 1 THEN p ELSE 0) /\ R[f + m] = v + x
    BY <1>2, <1>6, <1>8, <2>1, <2>2
  <2>4. x \in Int /\ u \in Nat /\ v \in Nat /\ p \in Int
    <3>1. q[f + m].len \in Nat /\ q[f + m].pos \in Nat
      BY <1>4, <2>1
    <3>2. x \in Int
      BY <2>2, <3>1
    <3>3. u \in Nat /\ v \in Nat
      BY <1>2, <1>8, <2>1, <2>2
    <3>4. R[f] \in Nat
      BY <1>2, <1>3
    <3>5. p \in Int
      BY <1>3, <2>2, <3>4
    <3>6. QED
      BY <3>2, <3>3, <3>5
  <2>5. IF m = 1 THEN u = 0 /\ v + p = w ELSE u = v - w
    <3>1. CASE m = 1
      <4>1. m - 1 = 0 /\ f + 0 = f
        BY <1>3, <3>1
      <4>2. u = 0 /\ v = R[f] /\ R[f] \in Nat
        BY <1>2, <1>3, <1>8, <2>2, <4>1
      <4>3. p = w - v /\ v \in Nat /\ w \in Nat
        BY <1>3, <2>2, <4>2
      <4>4. v + p = w
        BY <4>3
      <4>5. QED
        BY <3>1, <4>2, <4>4
    <3>2. CASE m # 1
      BY <1>10, <2>2, <3>2
    <3>3. QED
      BY <3>1, <3>2
  <2>6. u + y = (v + x) - w
    <3>1. w \in Nat /\ y = x - (IF m = 1 THEN p ELSE 0)
      BY <1>3, <2>3
    <3>2. QED
      BY <2>4, <2>5, <3>1
  <2>7. U[m] = R[f + m] - w
    BY <2>3, <2>6
  <2>8. QED
    BY <2>7
<1> HIDE DEF P
<1>11. Inductive(P, Len(t))
  BY <1>9, <1>10 DEF Inductive
<1>12. Len(t) \in P
  BY <1>3, <1>11, Induct
<1>13. U[Len(t)] = R[n] - w
  <2>1. CASE Len(t) = 0
    BY <1>2, <1>3, <1>8, <2>1
  <2>2. CASE Len(t) # 0
    <3>1. f + Len(t) = n
      BY <1>2, <1>3
    <3>2. QED
      BY <1>12, <2>2, <3>1 DEF P
  <2>3. QED
    BY <2>1, <2>2
<1>14. QED
  BY <1>1, <1>5, <1>6, <1>7, <1>13

\* Every byte that is queued belongs to a packet of the queue.
LEMMA Locate ==
  ASSUME NEW q \in Seq(Pack), \A i \in 1..Len(q) : q[i].pos < q[i].len,
         NEW k \in 1..Remaining(q)[Len(q)]
  PROVE  \E i \in 1..Len(q) : Remaining(q)[i - 1] < k /\ k <= Remaining(q)[i]
<1>1. PICK R, n : R = Remaining(q) /\ n = Len(q)
  OBVIOUS
<1>2. n \in Nat /\ R[0] = 0 /\ \A j \in 0..n : R[j] \in Nat
  <2>1. Len(q) \in Nat
    OBVIOUS
  <2>2. QED
    BY <1>1, <2>1, QueueSums
<1>3. k \in Nat \ {0} /\ k <= R[n]
  BY <1>1, <1>2
<1> DEFINE J == {j \in 1..n : R[j] >= k}
<1>4. n \in J /\ J \subseteq Nat
  <2>1. n # 0
    BY <1>2, <1>3
  <2>2. QED
    BY <1>2, <1>3, <2>1
<1>5. PICK m : m = Min(J)
  OBVIOUS
<1>6. m \in J /\ \A j \in J : m <= j
  <2> HIDE DEF J
  <2> QED
    BY <1>4, <1>5, MinNat
<1>7. m \in 1..n /\ k <= R[m]
  BY <1>2, <1>3, <1>6
<1>8. R[m - 1] < k
  <2>1. CASE m = 1
    BY <1>2, <1>3, <2>1
  <2>2. CASE m # 1
    <3>1. m - 1 \in 1..n /\ ~(m <= m - 1)
      BY <1>2, <1>7, <2>2
    <3>2. R[m - 1] \in Nat /\ ~(R[m - 1] >= k)
      BY <1>2, <1>6, <3>1
    <3>3. QED
      BY <1>3, <3>2
  <2>3. QED
    BY <2>1, <2>2
<1>9. QED
  BY <1>1, <1>7, <1>8

(***************************************************************************)
(* The stream.  The bytes of a sequence follow each other from the byte    *)
(* `first' on, and `last' comes after them.                                *)
(***************************************************************************)
InPacket(sent, b) ==
    b[1] \in 1..Len(sent) /\ b[2] \in 1..PacketLen(b[1], sent[b[1]])
Follows(sent, b) ==
    IF b[2] < PacketLen(b[1], sent[b[1]]) THEN <<b[1], b[2] + 1>> ELSE <<b[1] + 1, 1>>
Nth(S, last, k) == IF k <= Len(S) THEN S[k] ELSE last
Linked(sent, S, first, last) ==
    /\ S \in Seq(Nat \X Nat)
    /\ Nth(S, last, 1) = first
    /\ \A k \in 1..Len(S) : InPacket(sent, S[k]) /\ Nth(S, last, k + 1) = Follows(sent, S[k])

\* What writev is offered, and then the next packet to be made.
ByteAt(q, sent, k) ==
    IF k <= Remaining(q)[Len(q)] THEN OfferedByte(q, k) ELSE <<Len(sent) + 1, 1>>

\* Each byte that writev is offered is followed by the next one of the stream.
LEMMA ByteAtSteps ==
  ASSUME NEW q \in Seq(Pack), NEW sent \in Seq(Kind), Numbered(q, sent), Cut(q, sent),
         NEW k \in 1..Remaining(q)[Len(q)]
  PROVE  /\ ByteAt(q, sent, k) \in Nat \X Nat /\ InPacket(sent, ByteAt(q, sent, k))
         /\ ByteAt(q, sent, k + 1) = Follows(sent, ByteAt(q, sent, k))
<1>1. PICK R, n : R = Remaining(q) /\ n = Len(q)
  OBVIOUS
<1>2. \A i \in 1..Len(q) : q[i].pos < q[i].len
  BY DEF Cut
<1>3. /\ n \in Nat /\ R[0] = 0 /\ \A j \in 0..n : R[j] \in Nat
      /\ \A i \in 1..n : R[i] = R[i - 1] + (q[i].len - q[i].pos) /\ R[i - 1] < R[i]
      /\ Left(q) \in Seq(Nat) /\ Len(Left(q)) = n /\ R = Sums(Left(q))
  <2>1. Len(q) \in Nat
    OBVIOUS
  <2>2. QED
    BY <1>1, <1>2, <2>1, QueueSums
<1>4. PICK i \in 1..n : R[i - 1] < k /\ k <= R[i]
  BY <1>1, <1>2, Locate
<1>5. k \in Nat \ {0} /\ k <= R[n] /\ R[i] \in Nat /\ R[i - 1] \in Nat /\ R[n] \in Nat
      /\ R[i] <= R[n]
  <2>1. i \in 0..n /\ i - 1 \in 0..n /\ n \in 0..n /\ n \in i..n
    BY <1>3, <1>4
  <2>2. R[i] <= R[n]
    BY <1>3, <2>1, SumsGrow
  <2>3. R[i] \in Nat /\ R[i - 1] \in Nat /\ R[n] \in Nat
    BY <1>3, <2>1
  <2>4. k \in Nat \ {0} /\ k <= R[n]
    BY <1>1, <2>3
  <2>5. QED
    BY <2>2, <2>3, <2>4
<1>6. PICK N, x, y : N = q[i].n /\ x = q[i].len /\ y = q[i].pos
  OBVIOUS
<1>7. /\ N \in Nat /\ x \in Nat /\ y \in Nat /\ y < x
      /\ N = Len(sent) - n + i /\ N \in 1..Len(sent) /\ x = PacketLen(N, sent[N])
      /\ R[i] = R[i - 1] + (x - y)
  <2>1. q[i] \in Pack
    BY <1>1, <1>4
  <2>2. /\ N = Len(sent) - n + i /\ n <= Len(sent) /\ x = PacketLen(N, sent[N])
        /\ y < x
    BY <1>1, <1>4, <1>6 DEF Numbered, Cut
  <2>3. Len(sent) \in Nat
    OBVIOUS
  <2>4. N \in Nat /\ x \in Nat /\ y \in Nat
    BY <1>6, <2>1 DEF Pack
  <2>5. N \in 1..Len(sent)
    BY <1>3, <1>4, <2>2, <2>3
  <2>6. QED
    BY <1>3, <1>4, <1>6, <2>2, <2>4, <2>5
<1>8. ByteAt(q, sent, k) = <<N, y + (k - R[i - 1])>>
  <2>1. OfferedByte(q, k) = <<q[i].n, q[i].pos + (k - Remaining(q)[i - 1])>>
    BY <1>1, <1>2, <1>4, <1>5, OfferedByteIs
  <2>2. QED
    BY <1>1, <1>5, <1>6, <2>1 DEF ByteAt
<1>9. PICK u, v, z : u = R[i - 1] /\ v = R[i] /\ z = y + (k - u)
  OBVIOUS
<1>10. /\ u \in Nat /\ v \in Nat /\ v = u + (x - y) /\ u < k /\ k <= v
       /\ z \in 1..x /\ (z < x <=> k < v)
  <2>1. u \in Nat /\ v \in Nat /\ v = u + (x - y) /\ u < k /\ k <= v
    BY <1>4, <1>5, <1>7, <1>9
  <2>2. z = y + (k - u) /\ k \in Nat /\ x \in Nat /\ y \in Nat
    BY <1>5, <1>7, <1>9
  <2>3. QED
    BY <2>1, <2>2
<1>11. PICK b : b = ByteAt(q, sent, k)
  OBVIOUS
<1>12. b = <<N, z>> /\ b[1] = N /\ b[2] = z
  BY <1>8, <1>9, <1>11
<1>13. b \in Nat \X Nat /\ InPacket(sent, b)
  <2>1. z \in Nat /\ N \in Nat
    BY <1>7, <1>10
  <2>2. b \in Nat \X Nat
    BY <1>12, <2>1
  <2>3. b[1] \in 1..Len(sent) /\ b[2] \in 1..PacketLen(b[1], sent[b[1]])
    BY <1>7, <1>10, <1>12
  <2>4. QED
    BY <2>2, <2>3 DEF InPacket
<1>14. Follows(sent, b) = IF k < v THEN <<N, z + 1>> ELSE <<N + 1, 1>>
  BY <1>7, <1>10, <1>12 DEF Follows
<1>15. CASE k < v
  <2>1. /\ k + 1 \in Nat \ {0} /\ Remaining(q)[i - 1] < k + 1 /\ k + 1 <= Remaining(q)[i]
        /\ k + 1 <= R[n] /\ i \in 1..Len(q)
    <3>1. k + 1 <= v /\ u < k + 1 /\ k + 1 \in Nat \ {0}
      BY <1>5, <1>10, <1>15
    <3>2. v <= R[n] /\ R[n] \in Nat
      BY <1>5, <1>9
    <3>3. k + 1 <= R[n]
      BY <1>10, <3>1, <3>2
    <3>4. QED
      BY <1>1, <1>4, <1>9, <3>1, <3>3
  <2>2. OfferedByte(q, k + 1) = <<q[i].n, q[i].pos + ((k + 1) - Remaining(q)[i - 1])>>
    BY <1>2, <2>1, OfferedByteIs
  <2>3. y + ((k + 1) - u) = z + 1
    <3>1. z = y + (k - u) /\ k \in Nat /\ y \in Nat /\ u \in Nat
      BY <1>5, <1>7, <1>9, <1>10
    <3>2. QED
      BY <3>1
  <2>4. ByteAt(q, sent, k + 1) = <<N, z + 1>>
    BY <1>1, <1>6, <1>9, <2>1, <2>2, <2>3 DEF ByteAt
  <2>5. QED
    BY <1>11, <1>13, <1>14, <1>15, <2>4
<1>16. CASE k = v /\ i < n
  <2>1. i + 1 \in 1..n /\ (i + 1) - 1 = i /\ i + 1 \in 0..n
    <3>1. n \in Nat /\ i \in 1..n /\ i < n
      BY <1>3, <1>4, <1>16
    <3>2. QED
      BY <3>1
  <2>2. R[i] < R[i + 1] /\ R[i + 1] \in Nat
    BY <1>3, <2>1
  <2>3. R[i + 1] <= R[n]
    <3>1. n \in (i + 1)..n
      BY <1>3, <2>1
    <3>2. QED
      BY <1>3, <2>1, <3>1, SumsGrow
  <2>4. /\ k + 1 \in Nat \ {0} /\ Remaining(q)[(i + 1) - 1] < k + 1
        /\ k + 1 <= Remaining(q)[i + 1] /\ k + 1 <= R[n] /\ i + 1 \in 1..Len(q)
    <3>1. k = R[i] /\ k < R[i + 1]
      BY <1>9, <1>16, <2>2
    <3>2. k + 1 \in Nat \ {0} /\ R[i] < k + 1 /\ k + 1 <= R[i + 1]
      <4>1. PICK a : a = R[i + 1]
        OBVIOUS
      <4>2. k \in Nat /\ a \in Nat /\ k < a
        BY <1>5, <2>2, <3>1, <4>1
      <4>3. k + 1 \in Nat \ {0} /\ k < k + 1 /\ k + 1 <= a
        BY <4>2
      <4>4. QED
        BY <3>1, <4>1, <4>3
    <3>3. k + 1 <= R[n]
      BY <1>5, <2>2, <2>3, <3>2
    <3>4. QED
      BY <1>1, <2>1, <3>2, <3>3
  <2>5. OfferedByte(q, k + 1) = <<q[i + 1].n, q[i + 1].pos + ((k + 1) - Remaining(q)[(i + 1) - 1])>>
    BY <1>2, <2>4, OfferedByteIs
  <2>6. q[i + 1].n = N + 1 /\ q[i + 1].pos = 0
    <3>1. q[i + 1].n = Len(sent) - n + (i + 1) /\ i + 1 > 1
      <4>1. q[i + 1].n = Len(sent) - n + (i + 1)
        BY <1>1, <2>1 DEF Numbered
      <4>2. i + 1 > 1
        BY <1>3, <1>4
      <4>3. QED
        BY <4>1, <4>2
    <3>2. q[i + 1].pos = 0
      BY <1>1, <2>1, <3>1 DEF Cut
    <3>3. Len(sent) \in Nat
      OBVIOUS
    <3>4. QED
      BY <1>3, <1>4, <1>7, <3>1, <3>2, <3>3
  <2>7. (k + 1) - Remaining(q)[(i + 1) - 1] = 1
    <3>1. Remaining(q)[(i + 1) - 1] = k
      BY <1>1, <1>9, <1>16, <2>1
    <3>2. QED
      BY <1>5, <3>1
  <2>8. ByteAt(q, sent, k + 1) = <<N + 1, 1>>
    BY <1>1, <2>4, <2>5, <2>6, <2>7 DEF ByteAt
  <2>9. ~(k < v)
    BY <1>10, <1>16
  <2>10. QED
    BY <1>11, <1>13, <1>14, <2>8, <2>9
<1>17. CASE k = v /\ i = n
  <2>1. N = Len(sent) /\ ~(k < v)
    <3>1. Len(sent) \in Nat
      OBVIOUS
    <3>2. QED
      BY <1>3, <1>7, <1>10, <1>17, <3>1
  <2>2. ~(k + 1 <= R[n])
    BY <1>5, <1>9, <1>17
  <2>3. ByteAt(q, sent, k + 1) = <<N + 1, 1>>
    BY <1>1, <2>1, <2>2 DEF ByteAt
  <2>4. QED
    BY <1>11, <1>13, <1>14, <2>1, <2>3
<1>18. QED
  <2>1. k < v \/ k = v
    BY <1>5, <1>10
  <2>2. i < n \/ i = n
    BY <1>3, <1>4
  <2>3. QED
    BY <1>15, <1>16, <1>17, <2>1, <2>2

\* The end of the kernel's part of the stream, before and after a write.
LEMMA NextByteAt ==
  ASSUME NEW q \in Seq(Pack), NEW sent \in Seq(Kind), Numbered(q, sent), Cut(q, sent),
         NEW w \in 0..Remaining(q)[Len(q)], NEW f, NEW t, Consumed(q, w, f, t),
         NEW s, s.writequeue = t, s.sent = sent
  PROVE  NextByte(s) = ByteAt(q, sent, w + 1)
<1>1. PICK R, n : R = Remaining(q) /\ n = Len(q)
  OBVIOUS
<1>2. \A i \in 1..Len(q) : q[i].pos < q[i].len
  BY DEF Cut
<1>3. n \in Nat /\ \A j \in 0..n : R[j] \in Nat
  <2>1. Len(q) \in Nat
    OBVIOUS
  <2>2. QED
    BY <1>1, <1>2, <2>1, QueueSums
<1>4. /\ f \in 0..n /\ R[f] <= w /\ (f < n => w < R[f + 1]) /\ (f = n => w = R[f])
      /\ t \in Seq(Pack) /\ Len(t) = n - f
      /\ \A i \in 1..Len(t) : /\ t[i].n = q[f + i].n
                              /\ t[i].pos = q[f + i].pos + (IF i = 1 THEN w - R[f] ELSE 0)
  BY <1>1 DEF Consumed
<1>5. w \in Nat /\ w <= R[n] /\ R[f] \in Nat /\ R[n] \in Nat
  <2>1. R[f] \in Nat /\ R[n] \in Nat
    BY <1>3, <1>4
  <2>2. QED
    BY <1>1, <2>1
<1>6. CASE f = n
  <2>1. Len(t) = 0
    BY <1>3, <1>4, <1>6
  <2>2. t = << >>
    BY <1>4, <2>1
  <2>3. ~(w + 1 <= R[n])
    BY <1>4, <1>5, <1>6
  <2>4. QED
    BY <1>1, <2>2, <2>3 DEF NextByte, ByteAt
<1>7. CASE f < n
  <2>1. f + 1 \in 1..n /\ f + 1 \in 0..n /\ (f + 1) - 1 = f /\ Len(t) \in Nat \ {0} /\ 1 \in 1..Len(t)
    BY <1>3, <1>4, <1>7
  <2>2. R[f + 1] \in Nat /\ w < R[f + 1]
    BY <1>3, <1>4, <1>7, <2>1
  <2>3. R[f + 1] <= R[n]
    <3>1. n \in (f + 1)..n
      BY <1>3, <2>1
    <3>2. Left(q) \in Seq(Nat) /\ Len(Left(q)) = n /\ R = Sums(Left(q))
      BY <1>1, <1>2, QueueSums
    <3>3. QED
      BY <2>1, <3>1, <3>2, SumsGrow
  <2>4. /\ w + 1 \in Nat \ {0} /\ R[f] < w + 1 /\ w + 1 <= R[f + 1] /\ w + 1 <= R[n]
    BY <1>4, <1>5, <2>2, <2>3
  <2>5. OfferedByte(q, w + 1) = <<q[f + 1].n, q[f + 1].pos + ((w + 1) - R[(f + 1) - 1])>>
    <3>1. /\ Remaining(q)[(f + 1) - 1] < w + 1 /\ w + 1 <= Remaining(q)[f + 1] /\ f + 1 \in 1..Len(q)
      BY <1>1, <2>1, <2>4
    <3>2. QED
      BY <1>1, <1>2, <2>4, <3>1, OfferedByteIs
  <2>6. t[1].n = q[f + 1].n /\ t[1].pos = q[f + 1].pos + (w - R[f])
    BY <1>4, <2>1
  <2>7. q[f + 1].pos \in Nat
    <3>1. q[f + 1] \in Pack
      BY <1>1, <2>1
    <3>2. QED
      BY <3>1 DEF Pack
  <2>8. t[1].pos + 1 = q[f + 1].pos + ((w + 1) - R[(f + 1) - 1])
    <3>1. PICK y, r : y = q[f + 1].pos /\ r = R[f]
      OBVIOUS
    <3>2. y \in Nat /\ r \in Nat /\ t[1].pos = y + (w - r) /\ R[(f + 1) - 1] = r
      BY <1>5, <2>1, <2>6, <2>7, <3>1
    <3>3. PICK z : z = t[1].pos
      OBVIOUS
    <3>4. z + 1 = y + ((w + 1) - r)
      <4>1. z = y + (w - r) /\ w \in Nat /\ y \in Nat /\ r \in Nat
        BY <1>5, <3>2, <3>3
      <4>2. QED
        BY <4>1
    <3>5. QED
      BY <3>1, <3>2, <3>3, <3>4
  <2>9. t # << >>
    BY <1>4, <2>1
  <2>10. NextByte(s) = <<t[1].n, t[1].pos + 1>>
    BY <2>9 DEF NextByte
  <2>11. ByteAt(q, sent, w + 1) = OfferedByte(q, w + 1)
    BY <1>1, <2>4 DEF ByteAt
  <2>12. QED
    BY <2>5, <2>6, <2>8, <2>10, <2>11
<1>8. QED
  BY <1>3, <1>4, <1>6, <1>7

\* write_packet: the bytes that writev took continue the stream.
LEMMA WriteLinked ==
  ASSUME NEW s \in Ses, QueueOK(s), NEW w \in 0..Remaining(s.writequeue)[Len(s.writequeue)],
         NEW t, t.writequeue = packet_queue_consume(s.writequeue, w), t.sent = s.sent
  PROVE  Linked(s.sent, [k \in 1..w |-> OfferedByte(s.writequeue, k)], NextByte(s), NextByte(t))
<1>1. PICK q, sent, b : /\ q = s.writequeue /\ sent = s.sent
                        /\ b = [k \in 1..w |-> OfferedByte(s.writequeue, k)]
  OBVIOUS
<1>2. /\ q \in Seq(Pack) /\ sent \in Seq(Kind) /\ Numbered(q, sent) /\ Cut(q, sent)
      /\ w \in 0..Remaining(q)[Len(q)] /\ \A i \in 1..Len(q) : q[i].pos < q[i].len
  BY <1>1 DEF Ses, QueueOK, Cut
<1>3. PICK f : Consumed(q, w, f, t.writequeue)
  BY <1>1, <1>2, ConsumeIs
<1>4. NextByte(t) = ByteAt(q, sent, w + 1)
  BY <1>1, <1>2, <1>3, NextByteAt
<1>5. PICK r : r = Remaining(q)[Len(q)]
  OBVIOUS
<1>6. r \in Nat /\ w \in Nat /\ w <= r /\ Remaining(q)[0] = 0 /\ Len(q) \in Nat
  <2>1. Len(q) \in Nat /\ Len(q) \in 0..Len(q)
    BY <1>2
  <2>2. Remaining(q)[Len(q)] \in Nat /\ Remaining(q)[0] = 0
    BY <1>2, <2>1, QueueSums
  <2>3. QED
    BY <1>2, <1>5, <2>1, <2>2
<1>7. NextByte(s) = ByteAt(q, sent, 1)
  <2>1. CASE q = << >>
    <3>1. Len(q) = 0
      BY <2>1
    <3>2. ~(1 <= Remaining(q)[Len(q)])
      BY <1>6, <3>1
    <3>3. QED
      BY <1>1, <2>1, <3>2 DEF NextByte, ByteAt
  <2>2. CASE q # << >>
    <3>1. Len(q) \in Nat \ {0} /\ 1 \in 1..Len(q) /\ 1 \in 0..Len(q) /\ Len(q) \in 1..Len(q)
      BY <1>2, <2>2
    <3>2. /\ Remaining(q)[1] = Remaining(q)[1 - 1] + (q[1].len - q[1].pos)
          /\ Remaining(q)[1 - 1] < Remaining(q)[1] /\ Remaining(q)[1] \in Nat
          /\ Left(q) \in Seq(Nat) /\ Len(Left(q)) = Len(q) /\ Remaining(q) = Sums(Left(q))
      BY <1>2, <3>1, QueueSums
    <3>3. Remaining(q)[1] <= Remaining(q)[Len(q)]
      BY <3>1, <3>2, SumsGrow
    <3>4. Remaining(q)[1 - 1] = 0
      BY <1>6
    <3>5. 1 <= Remaining(q)[1] /\ Remaining(q)[1 - 1] < 1 /\ 1 <= Remaining(q)[Len(q)]
      BY <1>5, <1>6, <3>2, <3>3, <3>4
    <3>6. OfferedByte(q, 1) = <<q[1].n, q[1].pos + (1 - Remaining(q)[1 - 1])>>
      BY <1>2, <3>1, <3>5, OfferedByteIs
    <3>7. q[1].pos + (1 - Remaining(q)[1 - 1]) = q[1].pos + 1
      BY <3>4
    <3>8. QED
      BY <1>1, <2>2, <3>5, <3>6, <3>7 DEF NextByte, ByteAt
  <2>3. QED
    BY <2>1, <2>2
<1>8. \A k \in 1..r : /\ ByteAt(q, sent, k) \in Nat \X Nat /\ InPacket(sent, ByteAt(q, sent, k))
                      /\ ByteAt(q, sent, k + 1) = Follows(sent, ByteAt(q, sent, k))
  BY <1>2, <1>5, ByteAtSteps
<1>9. b \in Seq(Nat \X Nat) /\ Len(b) = w /\ \A k \in 1..w : b[k] = ByteAt(q, sent, k)
  <2>1. \A k \in 1..w : k \in 1..r /\ OfferedByte(q, k) = ByteAt(q, sent, k)
    BY <1>5, <1>6 DEF ByteAt
  <2>2. \A k \in 1..w : OfferedByte(q, k) \in Nat \X Nat
    BY <1>8, <2>1
  <2>3. b = [k \in 1..w |-> OfferedByte(q, k)]
    BY <1>1
  <2>4. b \in Seq(Nat \X Nat) /\ Len(b) = w
    BY <1>6, <2>2, <2>3
  <2>5. QED
    BY <2>1, <2>3, <2>4
<1>10. \A k \in 1..(w + 1) : Nth(b, NextByte(t), k) = ByteAt(q, sent, k)
  <2> SUFFICES ASSUME NEW k \in 1..(w + 1) PROVE Nth(b, NextByte(t), k) = ByteAt(q, sent, k)
    OBVIOUS
  <2>1. CASE k <= w
    BY <1>6, <1>9, <2>1 DEF Nth
  <2>2. CASE k = w + 1
    BY <1>4, <1>6, <1>9, <2>2 DEF Nth
  <2>3. QED
    BY <1>6, <2>1, <2>2
<1>11. Nth(b, NextByte(t), 1) = NextByte(s)
  <2>1. 1 \in 1..(w + 1)
    BY <1>6
  <2>2. QED
    BY <1>7, <1>10, <2>1
<1>12. ASSUME NEW k \in 1..Len(b)
       PROVE  InPacket(sent, b[k]) /\ Nth(b, NextByte(t), k + 1) = Follows(sent, b[k])
  <2>1. k \in 1..r /\ k \in 1..w /\ k + 1 \in 1..(w + 1)
    <3>1. k \in 1..w
      BY <1>9
    <3>2. r \in Nat /\ w \in Nat /\ w <= r
      BY <1>6
    <3>3. QED
      BY <3>1, <3>2
  <2>2. QED
    BY <1>8, <1>9, <1>10, <2>1
<1>13. Linked(sent, b, NextByte(s), NextByte(t))
  BY <1>9, <1>11, <1>12 DEF Linked
<1>14. QED
  BY <1>1, <1>13

\* The stream of a sender that has made more packets.
Extends(sent, more) == Len(sent) <= Len(more) /\ \A n \in 1..Len(sent) : more[n] = sent[n]

\* A stream stays one when its sender makes further packets.
LEMMA LinkedMore ==
  ASSUME NEW sent \in Seq(Kind), NEW more \in Seq(Kind), Extends(sent, more),
         NEW S, NEW first, NEW last, Linked(sent, S, first, last)
  PROVE  Linked(more, S, first, last)
<1>1. ASSUME NEW k \in 1..Len(S)
      PROVE  InPacket(more, S[k]) /\ Nth(S, last, k + 1) = Follows(more, S[k])
  <2>1. PICK b : b = S[k]
    OBVIOUS
  <2>2. InPacket(sent, b) /\ Nth(S, last, k + 1) = Follows(sent, b)
    BY <2>1 DEF Linked
  <2>3. b[1] \in 1..Len(sent)
    BY <2>2 DEF InPacket
  <2>4. b[1] \in 1..Len(more) /\ more[b[1]] = sent[b[1]]
    <3>1. Len(sent) \in Nat /\ Len(more) \in Nat
      OBVIOUS
    <3>2. QED
      BY <2>3, <3>1 DEF Extends
  <2>5. InPacket(more, b) /\ Follows(more, b) = Follows(sent, b)
    BY <2>2, <2>4 DEF InPacket, Follows
  <2>6. QED
    BY <2>1, <2>2, <2>5
<1>2. QED
  BY <1>1 DEF Linked

\* Two pieces of a stream, end to end.
LEMMA LinkedConcat ==
  ASSUME NEW sent, NEW S, NEW B, NEW first, NEW mid, NEW last,
         Linked(sent, S, first, mid), Linked(sent, B, mid, last)
  PROVE  Linked(sent, S \o B, first, last)
<1>1. S \in Seq(Nat \X Nat) /\ B \in Seq(Nat \X Nat)
  BY DEF Linked
<1>2. PICK T, a, b : T = S \o B /\ a = Len(S) /\ b = Len(B)
  OBVIOUS
<1>3. /\ a \in Nat /\ b \in Nat /\ T \in Seq(Nat \X Nat) /\ Len(T) = a + b
      /\ \A i \in 1..a : T[i] = S[i]
      /\ \A i \in 1..b : T[a + i] = B[i]
  <2>1. a \in Nat /\ b \in Nat
    BY <1>1, <1>2
  <2>2. \A i \in 1..(a + b) : T[i] = IF i <= a THEN S[i] ELSE B[i - a]
    BY <1>1, <1>2, ConcatProperties
  <2>3. ASSUME NEW i \in 1..a PROVE T[i] = S[i]
    <3>1. i \in 1..(a + b) /\ i <= a
      BY <2>1
    <3>2. QED
      BY <2>2, <3>1
  <2>4. ASSUME NEW i \in 1..b PROVE T[a + i] = B[i]
    <3>1. a + i \in 1..(a + b) /\ ~(a + i <= a) /\ (a + i) - a = i
      BY <2>1
    <3>2. QED
      BY <2>2, <3>1
  <2>5. T \in Seq(Nat \X Nat) /\ Len(T) = a + b
    BY <1>1, <1>2, ConcatProperties
  <2>6. QED
    BY <2>1, <2>3, <2>4, <2>5
<1>4. ASSUME NEW k \in 1..(b + 1) PROVE Nth(T, last, a + k) = Nth(B, last, k)
  <2>1. CASE k <= b
    <3>1. a + k <= a + b /\ k \in 1..b
      BY <1>3, <2>1
    <3>2. QED
      BY <1>2, <1>3, <2>1, <3>1 DEF Nth
  <2>2. CASE ~(k <= b)
    <3>1. ~(a + k <= a + b)
      BY <1>3, <2>2
    <3>2. QED
      BY <1>2, <1>3, <2>2, <3>1 DEF Nth
  <2>3. QED
    BY <2>1, <2>2
<1>5. ASSUME NEW k \in 1..(a + 1) PROVE Nth(T, last, k) = Nth(S, mid, k)
  <2>1. CASE k <= a
    <3>1. k <= a + b /\ k \in 1..a
      BY <1>3, <2>1
    <3>2. QED
      BY <1>2, <1>3, <2>1, <3>1 DEF Nth
  <2>2. CASE ~(k <= a)
    <3>1. k = a + 1 /\ 1 \in 1..(b + 1)
      BY <1>3, <2>2
    <3>2. Nth(T, last, k) = Nth(B, last, 1)
      BY <1>4, <3>1
    <3>3. Nth(B, last, 1) = mid
      BY DEF Linked
    <3>4. Nth(S, mid, k) = mid
      BY <1>2, <2>2 DEF Nth
    <3>5. QED
      BY <3>2, <3>3, <3>4
  <2>3. QED
    BY <2>1, <2>2
<1>6. Nth(T, last, 1) = first
  <2>1. 1 \in 1..(a + 1)
    BY <1>3
  <2>2. QED
    BY <1>5, <2>1 DEF Linked
<1>7. ASSUME NEW k \in 1..Len(T)
      PROVE  InPacket(sent, T[k]) /\ Nth(T, last, k + 1) = Follows(sent, T[k])
  <2>1. CASE k <= a
    <3>1. k \in 1..a /\ k + 1 \in 1..(a + 1)
      BY <1>3, <2>1
    <3>2. T[k] = S[k] /\ Nth(T, last, k + 1) = Nth(S, mid, k + 1)
      BY <1>3, <1>5, <3>1
    <3>3. InPacket(sent, S[k]) /\ Nth(S, mid, k + 1) = Follows(sent, S[k])
      BY <1>2, <3>1 DEF Linked
    <3>4. QED
      BY <3>2, <3>3
  <2>2. CASE ~(k <= a)
    <3>1. PICK j : j = k - a
      OBVIOUS
    <3>2. j \in 1..b /\ j + 1 \in 1..(b + 1) /\ k = a + j /\ k + 1 = a + (j + 1)
      BY <1>3, <2>2, <3>1
    <3>3. T[k] = B[j] /\ Nth(T, last, k + 1) = Nth(B, last, j + 1)
      BY <1>3, <1>4, <3>2
    <3>4. InPacket(sent, B[j]) /\ Nth(B, last, j + 1) = Follows(sent, B[j])
      BY <1>2, <3>2 DEF Linked
    <3>5. QED
      BY <3>3, <3>4
  <2>3. QED
    BY <2>1, <2>2
<1>8. Linked(sent, T, first, last)
  BY <1>3, <1>6, <1>7 DEF Linked
<1>9. QED
  BY <1>2, <1>8

\* What is left of a stream once its beginning is gone.
LEMMA LinkedRest ==
  ASSUME NEW sent, NEW S \in Seq(Nat \X Nat), NEW B \in Seq(Nat \X Nat), NEW first, NEW last,
         Linked(sent, S \o B, first, last)
  PROVE  Linked(sent, B, Nth(S \o B, last, Len(S) + 1), last)
<1>1. PICK T, a, b : T = S \o B /\ a = Len(S) /\ b = Len(B)
  OBVIOUS
<1>2. /\ a \in Nat /\ b \in Nat /\ Len(T) = a + b /\ \A i \in 1..b : T[a + i] = B[i]
  <2>1. a \in Nat /\ b \in Nat
    BY <1>1
  <2>2. Len(T) = a + b /\ \A i \in 1..(a + b) : T[i] = IF i <= a THEN S[i] ELSE B[i - a]
    BY <1>1, ConcatProperties
  <2>3. ASSUME NEW i \in 1..b PROVE T[a + i] = B[i]
    <3>1. a + i \in 1..(a + b) /\ ~(a + i <= a) /\ (a + i) - a = i
      BY <2>1
    <3>2. QED
      BY <2>2, <3>1
  <2>4. QED
    BY <2>1, <2>2, <2>3
<1>3. ASSUME NEW k \in 1..(b + 1) PROVE Nth(T, last, a + k) = Nth(B, last, k)
  <2>1. CASE k <= b
    <3>1. a + k <= a + b /\ k \in 1..b
      BY <1>2, <2>1
    <3>2. QED
      BY <1>1, <1>2, <2>1, <3>1 DEF Nth
  <2>2. CASE ~(k <= b)
    <3>1. ~(a + k <= a + b)
      BY <1>2, <2>2
    <3>2. QED
      BY <1>1, <1>2, <2>2, <3>1 DEF Nth
  <2>3. QED
    BY <2>1, <2>2
<1>4. ASSUME NEW k \in 1..b
      PROVE  InPacket(sent, B[k]) /\ Nth(B, last, k + 1) = Follows(sent, B[k])
  <2>1. /\ a + k \in 1..Len(T) /\ (a + k) + 1 = a + (k + 1) /\ k + 1 \in 1..(b + 1)
    BY <1>2
  <2>2. InPacket(sent, T[a + k]) /\ Nth(T, last, (a + k) + 1) = Follows(sent, T[a + k])
    BY <1>1, <2>1 DEF Linked
  <2>3. T[a + k] = B[k] /\ Nth(T, last, a + (k + 1)) = Nth(B, last, k + 1)
    BY <1>2, <1>3, <2>1
  <2>4. QED
    BY <2>1, <2>2, <2>3
<1>5. Nth(B, last, 1) = Nth(T, last, a + 1)
  <2>1. 1 \in 1..(b + 1)
    BY <1>2
  <2>2. QED
    BY <1>3, <2>1
<1>6. QED
  BY <1>1, <1>4, <1>5 DEF Linked

\* A stream that starts with a packet has that packet's bytes in order, and then
\* the next packet.
LEMMA InFirst ==
  ASSUME NEW sent \in Seq(Kind), NEW T, NEW g \in Nat, NEW last, Linked(sent, T, <<g, 1>>, last),
         NEW n \in Nat \ {0}, n <= Len(T)
  PROVE  /\ g \in 1..Len(sent)
         /\ n <= PacketLen(g, sent[g]) => \A k \in 1..n : T[k] = <<g, k>>
         /\ n = PacketLen(g, sent[g]) => Nth(T, last, n + 1) = <<g + 1, 1>>
<1>1. Len(T) \in Nat /\ T \in Seq(Nat \X Nat)
  BY DEF Linked
<1>2. \A k \in 1..Len(T) : InPacket(sent, T[k]) /\ Nth(T, last, k + 1) = Follows(sent, T[k])
  BY DEF Linked
<1>3. 1 \in 1..Len(T) /\ 1 <= Len(T)
  BY <1>1
<1>4. T[1] = <<g, 1>>
  BY <1>3 DEF Linked, Nth
<1>5. g \in 1..Len(sent)
  BY <1>2, <1>3, <1>4 DEF InPacket
<1>6. PICK x : x = PacketLen(g, sent[g])
  OBVIOUS
<1>7. x \in Nat \ {0}
  <2>1. sent[g] \in Kind
    BY <1>5
  <2>2. QED
    BY <1>6, <2>1, PacketLens
<1>8. ASSUME n <= x PROVE \A k \in 1..n : T[k] = <<g, k>>
  <2> DEFINE P == {m \in 0..n : m # 0 => T[m] = <<g, m>>}
  <2>1. 0 \in P
    OBVIOUS
  <2>2. ASSUME NEW m \in 1..n, m - 1 \in P PROVE m \in P
    <3>1. CASE m = 1
      BY <1>4, <3>1
    <3>2. CASE m # 1
      <4>1. PICK j : j = m - 1
        OBVIOUS
      <4>2. /\ j \in 1..Len(T) /\ j + 1 = m /\ j # 0 /\ m <= Len(T) /\ j < x /\ j \in Nat
        BY <1>1, <1>7, <1>8, <3>2, <4>1
      <4>3. T[j] = <<g, j>>
        BY <2>2, <4>1, <4>2
      <4>4. Nth(T, last, m) = T[m]
        BY <4>2 DEF Nth
      <4>5. Follows(sent, T[j]) = <<g, j + 1>>
        BY <1>6, <4>2, <4>3 DEF Follows
      <4>6. T[m] = <<g, m>>
        BY <1>2, <4>2, <4>4, <4>5
      <4>7. QED
        BY <4>6
    <3>3. QED
      BY <3>1, <3>2
  <2> HIDE DEF P
  <2>3. Inductive(P, n)
    BY <2>1, <2>2 DEF Inductive
  <2>4. \A m \in 0..n : m \in P
    BY <2>3, Induct
  <2>5. \A k \in 1..n : k \in 0..n /\ k # 0
    OBVIOUS
  <2>6. QED
    BY <2>4, <2>5 DEF P
<1>9. ASSUME n = x PROVE Nth(T, last, n + 1) = <<g + 1, 1>>
  <2>1. n \in 1..n /\ n \in 1..Len(T) /\ n <= x
    BY <1>1, <1>9
  <2>2. T[n] = <<g, n>>
    BY <1>8, <2>1
  <2>3. Follows(sent, T[n]) = <<g + 1, 1>>
    BY <1>6, <1>7, <1>9, <2>2 DEF Follows
  <2>4. QED
    BY <1>2, <2>1, <2>3
<1>10. QED
  BY <1>5, <1>6, <1>8, <1>9

-----------------------------------------------------------------------------
(***************************************************************************)
(* What enqueueing and writing do to a session.                            *)
(***************************************************************************)
\* The reading fields are unchanged.
SameReader(s, t) ==
    /\ t.readbuf = s.readbuf /\ t.readlen = s.readlen
    /\ t.remoteident = s.remoteident /\ t.got = s.got
\* The fields that enqueueing leaves alone.
SameRest(s, t) ==
    /\ t.window = s.window /\ t.held = s.held /\ t.data = s.data /\ t.reqs = s.reqs
    /\ t.rekeys = s.rekeys /\ t.dataallowed = s.dataallowed
\* If a reply can be queued now, no more than the mark is, requests apart.
Quiet(s) == s.dataallowed => Sums(Unasked(s))[Len(s.writequeue)] <= HighWater
\* The invariant of a session's sending side.
Queue(s) == s \in Ses /\ QueueOK(s) /\ Bounded(s)
\* Packets were put in the queue and nothing was written.
Grows(s, t) == Queue(t) /\ NextByte(t) = NextByte(s) /\ Extends(s.sent, t.sent)

\* writebuf_enqueue, field by field.
LEMMA EnqueueFields ==
  ASSUME NEW s \in Ses, NEW k \in Kind, NEW n, n = Len(s.sent) + 1,
         NEW t, t = writebuf_enqueue(s, k)
  PROVE  /\ t \in Ses /\ SameReader(s, t)
         /\ t.writequeue = Append(s.writequeue, [n |-> n, pos |-> 0, len |-> PacketLen(n, k)])
         /\ t.writequeue_len = s.writequeue_len + PacketLen(n, k)
         /\ t.sent = Append(s.sent, k) /\ t.late = s.late /\ SameRest(s, t)
<1>1. n \in Nat /\ PacketLen(n, k) \in Nat
  <2>1. n \in Nat
    BY DEF Ses
  <2>2. QED
    BY <2>1, PacketLens
<1>2. PICK x, c : x = PacketLen(n, k) /\ c = [n |-> n, pos |-> 0, len |-> PacketLen(n, k)]
  OBVIOUS
<1>3. c \in Pack /\ x \in Nat
  BY <1>1, <1>2 DEF Pack
<1>4. t = [s EXCEPT !.writequeue = Append(@, c), !.writequeue_len = @ + x, !.sent = Append(@, k)]
  BY <1>2 DEF writebuf_enqueue
<1>5. /\ Append(s.writequeue, c) \in Seq(Pack) /\ s.writequeue_len + x \in Nat
      /\ Append(s.sent, k) \in Seq(Kind)
  <2>1. s.writequeue \in Seq(Pack) /\ s.writequeue_len \in Nat /\ s.sent \in Seq(Kind)
    BY DEF Ses
  <2>2. PICK wq, wl, ws : wq = s.writequeue /\ wl = s.writequeue_len /\ ws = s.sent
    OBVIOUS
  <2>3. Append(wq, c) \in Seq(Pack) /\ Append(ws, k) \in Seq(Kind)
    BY <1>3, <2>1, <2>2, AppendProperties
  <2>4. wl + x \in Nat
    BY <1>3, <2>1, <2>2
  <2>5. QED
    BY <2>2, <2>3, <2>4
<1>6. t \in Ses
  <2>1. PICK q, l, d : /\ q = Append(s.writequeue, c) /\ l = s.writequeue_len + x
                       /\ d = Append(s.sent, k)
    OBVIOUS
  <2>2. /\ t = [s EXCEPT !.writequeue = q, !.writequeue_len = l, !.sent = d]
        /\ q \in Seq(Pack) /\ l \in Nat /\ d \in Seq(Kind)
    BY <1>4, <1>5, <2>1
  <2>3. QED
    BY <2>2, ZenonT(60) DEF Ses
<1>7. /\ SameReader(s, t) /\ t.writequeue = Append(s.writequeue, c)
      /\ t.writequeue_len = s.writequeue_len + x /\ t.sent = Append(s.sent, k)
      /\ t.late = s.late /\ SameRest(s, t)
  BY <1>4 DEF Ses, SameReader, SameRest
<1>8. QED
  BY <1>2, <1>6, <1>7

\* The bytes of a queue without those of requests.
LEMMA UnaskedIs ==
  ASSUME NEW s \in Ses, Cut(s.writequeue, s.sent)
  PROVE  /\ Unasked(s) \in Seq(Nat) /\ Len(Unasked(s)) = Len(s.writequeue)
         /\ \A i \in 1..Len(s.writequeue) :
               Unasked(s)[i] = IF s.sent[s.writequeue[i].n] = "request" THEN 0
                               ELSE s.writequeue[i].len - s.writequeue[i].pos
         /\ \A i \in 1..Len(s.writequeue) : Unasked(s)[i] <= Left(s.writequeue)[i]
<1>1. PICK q, U : q = s.writequeue /\ U = Unasked(s)
  OBVIOUS
<1>2. q \in Seq(Pack) /\ \A i \in 1..Len(q) : q[i].pos < q[i].len
  BY <1>1 DEF Cut, Ses
<1>3. Left(q) \in Seq(Nat) /\ Len(Left(q)) = Len(q) /\ \A i \in 1..Len(q) : Left(q)[i] = q[i].len - q[i].pos
  BY <1>2, QueueSums DEF Left
<1>4. \A i \in 1..Len(q) : q[i].len - q[i].pos \in Nat
  BY <1>3
<1>5. U = [i \in 1..Len(q) |-> IF s.sent[q[i].n] = "request" THEN 0 ELSE q[i].len - q[i].pos]
  BY <1>1 DEF Unasked
<1>6. Len(q) \in Nat
  BY <1>2
<1>7. /\ U \in Seq(Nat) /\ Len(U) = Len(q)
      /\ \A i \in 1..Len(q) : U[i] = IF s.sent[q[i].n] = "request" THEN 0 ELSE q[i].len - q[i].pos
  BY <1>4, <1>5, <1>6
<1>8. ASSUME NEW i \in 1..Len(q) PROVE U[i] <= Left(q)[i]
  <2>1. PICK x : x = q[i].len - q[i].pos
    OBVIOUS
  <2>2. x \in Nat /\ Left(q)[i] = x /\ (U[i] = 0 \/ U[i] = x)
    BY <1>3, <1>4, <1>7, <2>1
  <2>3. QED
    BY <2>2
<1>9. QED
  BY <1>1, <1>7, <1>8

\* writequeue_has_space: no more than the mark is queued, requests apart.
LEMMA SpaceQuiet ==
  ASSUME NEW s, Queue(s), writequeue_has_space(s)
  PROVE  Quiet(s)
<1>1. s \in Ses /\ QueueOK(s) /\ Cut(s.writequeue, s.sent)
  BY DEF Queue, QueueOK
<1>2. PICK q, U, L, n : q = s.writequeue /\ U = Unasked(s) /\ L = Left(q) /\ n = Len(q)
  OBVIOUS
<1>3. q \in Seq(Pack) /\ \A i \in 1..Len(q) : q[i].pos < q[i].len
  BY <1>1, <1>2 DEF Cut, Ses
<1>4. U \in Seq(Nat) /\ Len(U) = n /\ \A i \in 1..n : U[i] <= L[i]
  BY <1>1, <1>2, UnaskedIs
<1>5. L \in Seq(Nat) /\ Len(L) = n /\ Remaining(q) = Sums(L) /\ n \in Nat
  BY <1>2, <1>3, QueueSums
<1>6. \A i \in 1..Len(U) : U[i] <= L[0 + i]
  BY <1>4, <1>5
<1>7. \A i \in 0..Len(U) : Sums(U)[i] + Sums(L)[0] <= Sums(L)[0 + i]
  <2>1. 0 \in Nat /\ 0 + Len(U) <= Len(L)
    BY <1>4, <1>5
  <2>2. QED
    BY <1>4, <1>5, <1>6, <2>1, SumsPart
<1>8. Sums(L)[0] = 0 /\ Sums(U)[n] \in Nat /\ Sums(L)[n] \in Nat
  <2>1. n \in 0..Len(U) /\ n \in 0..Len(L)
    BY <1>4, <1>5
  <2>2. QED
    BY <1>4, <1>5, <2>1, SumsDef
<1>9. Sums(U)[n] <= Sums(L)[n]
  <2>1. n \in 0..Len(U) /\ 0 + n = n
    BY <1>4, <1>5
  <2>2. QED
    BY <1>7, <1>8, <2>1
<1>10. Sums(L)[n] <= HighWater /\ HighWater \in Nat
  <2>1. s.writequeue_len = Sums(L)[n]
    BY <1>1, <1>2, <1>5 DEF QueueOK
  <2>2. QED
    BY <2>1, TransportAssumption DEF writequeue_has_space
<1>11. Sums(U)[n] <= HighWater
  BY <1>8, <1>9, <1>10
<1>12. QED
  BY <1>2, <1>11 DEF Quiet

\* A packet is put at the end of the queue.
Joined(s, k, t) ==
    /\ s \in Ses /\ k \in Kind /\ t \in Ses
    /\ t.writequeue = Append(s.writequeue, [n |-> Len(s.sent) + 1, pos |-> 0,
                                            len |-> PacketLen(Len(s.sent) + 1, k)])
    /\ t.writequeue_len = s.writequeue_len + PacketLen(Len(s.sent) + 1, k)
    /\ t.sent = Append(s.sent, k)
    /\ s.late \subseteq t.late /\ t.dataallowed = s.dataallowed

\* The same for the queues and the packets made, position by position.
Behind(q, u, sent, more, k) ==
    /\ Len(sent) \in Nat /\ Len(q) \in Nat /\ Len(q) <= Len(sent)
    /\ PacketLen(Len(sent) + 1, k) \in Nat \ {0}
    /\ Len(more) = Len(sent) + 1 /\ Len(u) = Len(q) + 1
    /\ \A n \in 1..Len(sent) : more[n] = sent[n]
    /\ more[Len(sent) + 1] = k
    /\ \A i \in 1..Len(q) : /\ u[i] = q[i] /\ q[i].n \in 1..Len(sent)
                            /\ q[i].n = Len(sent) - Len(q) + i
    /\ u[Len(q) + 1].n = Len(sent) + 1 /\ u[Len(q) + 1].pos = 0
    /\ u[Len(q) + 1].len = PacketLen(Len(sent) + 1, k)

\* The queue before and after a packet was put at its end.
LEMMA JoinedFacts ==
  ASSUME NEW s, NEW k, NEW t, Joined(s, k, t), QueueOK(s)
  PROVE  Behind(s.writequeue, t.writequeue, s.sent, t.sent, k)
<1>1. PICK q, u, N, x, c : /\ q = s.writequeue /\ u = t.writequeue /\ N = Len(s.sent)
                           /\ x = PacketLen(N + 1, k) /\ c = [n |-> N + 1, pos |-> 0, len |-> x]
  OBVIOUS
<1>2. /\ q \in Seq(Pack) /\ s.sent \in Seq(Kind) /\ k \in Kind /\ u = Append(q, c)
      /\ t.sent = Append(s.sent, k)
  BY <1>1 DEF Joined, Ses
<1>3. N \in Nat /\ Len(q) \in Nat
  BY <1>1, <1>2
<1>4. x \in Nat \ {0}
  <2>1. N + 1 \in Nat
    BY <1>3
  <2>2. QED
    BY <1>1, <1>2, <2>1, PacketLens
<1>5. Len(q) <= N /\ \A i \in 1..Len(q) : q[i].n = N - Len(q) + i
  BY <1>1 DEF QueueOK, Numbered
<1>6. \A i \in 1..Len(q) : q[i].n \in 1..N
  BY <1>3, <1>5
<1>7. c \in Pack /\ c.n = N + 1 /\ c.pos = 0 /\ c.len = x
  BY <1>1, <1>3, <1>4 DEF Pack
<1>8. Len(u) = Len(q) + 1 /\ (\A i \in 1..Len(q) : u[i] = q[i]) /\ u[Len(q) + 1] = c
  BY <1>2, <1>7, AppendProperties
<1>9. Len(t.sent) = N + 1 /\ (\A n \in 1..N : t.sent[n] = s.sent[n]) /\ t.sent[N + 1] = k
  BY <1>1, <1>2, AppendProperties
<1>10. Behind(q, u, s.sent, t.sent, k)
  BY <1>1, <1>3, <1>4, <1>5, <1>6, <1>7, <1>8, <1>9 DEF Behind
<1>11. QED
  BY <1>1, <1>10

\* writebuf_enqueue keeps the queue and writequeue_len in order.
LEMMA JoinedQueueOK ==
  ASSUME NEW s, NEW k, NEW t, Joined(s, k, t), QueueOK(s),
         (k = "ident") <=> (Len(s.sent) = 0)
  PROVE  QueueOK(t)
<1>1. PICK q, u, N, m, x, sent, more :
         /\ q = s.writequeue /\ u = t.writequeue /\ N = Len(s.sent) /\ m = Len(q)
         /\ x = PacketLen(N + 1, k) /\ sent = s.sent /\ more = t.sent
  OBVIOUS
<1>2. /\ N \in Nat /\ m \in Nat /\ m <= N /\ x \in Nat \ {0}
      /\ Len(more) = N + 1 /\ Len(u) = m + 1
      /\ \A n \in 1..N : more[n] = sent[n]
      /\ more[N + 1] = k
      /\ \A i \in 1..m : u[i] = q[i] /\ q[i].n \in 1..N /\ q[i].n = N - m + i
      /\ u[m + 1].n = N + 1 /\ u[m + 1].pos = 0 /\ u[m + 1].len = x
  <2>1. Behind(q, u, sent, more, k)
    BY <1>1, JoinedFacts
  <2>2. QED
    BY <1>1, <2>1 DEF Behind
<1>3. q \in Seq(Pack) /\ u \in Seq(Pack) /\ Cut(q, sent) /\ Numbered(q, sent)
  BY <1>1 DEF Joined, Ses, QueueOK
<1>4. \A n \in 1..Len(more) : (more[n] = "ident") <=> (n = 1)
  <2> SUFFICES ASSUME NEW n \in 1..Len(more) PROVE (more[n] = "ident") <=> (n = 1)
    OBVIOUS
  <2>1. CASE n <= N
    <3>1. n \in 1..N
      BY <1>2, <2>1
    <3>2. (sent[n] = "ident") <=> (n = 1)
      BY <1>1, <3>1 DEF QueueOK
    <3>3. QED
      BY <1>2, <3>1, <3>2
  <2>2. CASE n = N + 1
    BY <1>1, <1>2, <2>2
  <2>3. QED
    BY <1>2, <2>1, <2>2
<1>5. Numbered(u, more)
  <2>1. Len(u) <= Len(more)
    BY <1>2
  <2>2. ASSUME NEW i \in 1..Len(u) PROVE u[i].n = Len(more) - Len(u) + i
    <3>1. CASE i \in 1..m
      <4>1. u[i].n = N - m + i
        BY <1>2, <3>1
      <4>2. QED
        BY <1>2, <4>1
    <3>2. CASE i = m + 1
      BY <1>2, <3>2
    <3>3. QED
      BY <1>2, <3>1, <3>2
  <2>3. QED
    BY <2>1, <2>2 DEF Numbered
<1>6. Cut(u, more)
  <2>1. ASSUME NEW i \in 1..Len(u)
        PROVE  /\ u[i].len = PacketLen(u[i].n, more[u[i].n]) /\ u[i].pos < u[i].len
               /\ i > 1 => u[i].pos = 0
    <3>1. CASE i \in 1..m
      <4>1. u[i] = q[i] /\ more[q[i].n] = sent[q[i].n]
        BY <1>2, <3>1
      <4>2. QED
        BY <1>1, <1>3, <3>1, <4>1 DEF Cut
    <3>2. CASE i = m + 1
      <4>1. u[i].len = PacketLen(u[i].n, more[u[i].n])
        BY <1>1, <1>2, <3>2
      <4>2. QED
        BY <1>2, <3>2, <4>1
    <3>3. QED
      BY <1>2, <3>1, <3>2
  <2>2. QED
    BY <2>1 DEF Cut
<1>7. /\ \A i \in 1..Len(u) : u[i].pos < u[i].len
      /\ \A i \in 1..Len(q) : q[i].pos < q[i].len
  BY <1>3, <1>6 DEF Cut
<1>8. /\ Left(q) \in Seq(Nat) /\ Len(Left(q)) = m /\ Remaining(q) = Sums(Left(q))
      /\ Left(u) \in Seq(Nat) /\ Len(Left(u)) = m + 1 /\ Remaining(u) = Sums(Left(u))
      /\ Remaining(u)[0] = 0
  BY <1>1, <1>2, <1>3, <1>7, QueueSums
<1>9. \A i \in 1..Len(Left(q)) : Left(q)[i] = Left(u)[0 + i]
  <2>1. ASSUME NEW i \in 1..m PROVE Left(q)[i] = Left(u)[i]
    <3>1. i \in 1..Len(q) /\ i \in 1..Len(u)
      <4>1. m \in Nat /\ Len(q) = m /\ Len(u) = m + 1
        BY <1>1, <1>2
      <4>2. QED
        BY <4>1
    <3>1a. u[i] = q[i]
      BY <1>2
    <3>2. QED
      BY <3>1, <3>1a DEF Left
  <2>2. QED
    BY <1>2, <1>8, <2>1
<1>10. Remaining(q)[m] = Remaining(u)[m]
  <2>1. 0 \in Nat /\ 0 + Len(Left(q)) <= Len(Left(u)) /\ m \in 0..Len(Left(q)) /\ 0 + m = m
    BY <1>2, <1>8
  <2>2. Sums(Left(q))[m] + Sums(Left(u))[0] = Sums(Left(u))[0 + m]
    BY <1>8, <1>9, <2>1, SumsPart
  <2>3. Sums(Left(q))[m] \in Nat
    BY <1>8, <2>1, SumsDef
  <2>4. QED
    BY <1>8, <2>1, <2>2, <2>3
<1>11. Remaining(u)[m + 1] = Remaining(u)[m] + x
  <2>1. m + 1 \in 1..Len(u) /\ (m + 1) - 1 = m
    BY <1>2
  <2>2. Remaining(u)[m + 1] = Remaining(u)[(m + 1) - 1] + (u[m + 1].len - u[m + 1].pos)
    BY <1>3, <1>7, <2>1, QueueSums
  <2>3. u[m + 1].len - u[m + 1].pos = x
    BY <1>2
  <2>4. QED
    BY <2>1, <2>2, <2>3
<1>12. t.writequeue_len = Remaining(u)[Len(u)]
  <2>1. s.writequeue_len = Remaining(q)[m]
    BY <1>1 DEF QueueOK
  <2>2. t.writequeue_len = s.writequeue_len + x
    BY <1>1 DEF Joined
  <2>3. QED
    BY <1>2, <1>10, <1>11, <2>1, <2>2
<1>13. QED
  BY <1>1, <1>4, <1>5, <1>6, <1>12 DEF QueueOK

\* A reply that joins no more than the mark keeps every reply behind no more than it;
\* a request does not count.
LEMMA JoinedBounded ==
  ASSUME NEW s, NEW k, NEW t, Joined(s, k, t), QueueOK(s), QueueOK(t), Bounded(s),
         k = "reply" /\ Len(s.sent) + 1 \notin t.late => s.dataallowed /\ Quiet(s)
  PROVE  Bounded(t) /\ (k = "request" /\ Quiet(s) => Quiet(t))
<1>1. PICK q, u, N, m, sent, more, U, V :
         /\ q = s.writequeue /\ u = t.writequeue /\ N = Len(s.sent) /\ m = Len(q)
         /\ sent = s.sent /\ more = t.sent /\ U = Unasked(s) /\ V = Unasked(t)
  OBVIOUS
<1>2. /\ N \in Nat /\ m \in Nat /\ Len(u) = m + 1
      /\ \A n \in 1..N : more[n] = sent[n]
      /\ more[N + 1] = k
      /\ \A i \in 1..m : u[i] = q[i] /\ q[i].n \in 1..N
      /\ u[m + 1].n = N + 1
  <2>1. Behind(q, u, sent, more, k)
    BY <1>1, JoinedFacts
  <2>2. QED
    BY <1>1, <2>1 DEF Behind
<1>3. s \in Ses /\ t \in Ses /\ Cut(q, sent) /\ Cut(u, more)
  BY <1>1 DEF Joined, QueueOK
<1>4. /\ U \in Seq(Nat) /\ Len(U) = m /\ V \in Seq(Nat) /\ Len(V) = m + 1
      /\ \A i \in 1..m : U[i] = IF sent[q[i].n] = "request" THEN 0 ELSE q[i].len - q[i].pos
      /\ \A i \in 1..(m + 1) : V[i] = IF more[u[i].n] = "request" THEN 0 ELSE u[i].len - u[i].pos
  BY <1>1, <1>2, <1>3, UnaskedIs
<1>5. \A i \in 1..Len(U) : U[i] = V[0 + i]
  <2>1. ASSUME NEW i \in 1..m PROVE U[i] = V[i]
    <3>1. i \in 1..(m + 1) /\ u[i] = q[i] /\ more[q[i].n] = sent[q[i].n]
      BY <1>2
    <3>2. QED
      BY <1>4, <3>1
  <2>2. QED
    BY <1>2, <1>4, <2>1
<1>6. ASSUME NEW i \in 0..m PROVE Sums(U)[i] = Sums(V)[i]
  <2>1. 0 \in Nat /\ 0 + Len(U) <= Len(V) /\ i \in 0..Len(U) /\ 0 + i = i
    BY <1>2, <1>4
  <2>2. Sums(U)[i] + Sums(V)[0] = Sums(V)[0 + i]
    BY <1>4, <1>5, <2>1, SumsPart
  <2>3. Sums(U)[i] \in Nat /\ Sums(V)[0] = 0
    BY <1>4, <2>1, SumsDef
  <2>4. QED
    BY <2>1, <2>2, <2>3
<1>7. ASSUME NEW i \in 1..(m + 1), more[u[i].n] = "reply", u[i].n \notin t.late
      PROVE  Sums(V)[i - 1] <= HighWater
  <2>1. CASE i \in 1..m
    <3>1. sent[q[i].n] = "reply" /\ i - 1 \in 0..m /\ q[i].n \notin s.late
      <4>1. s.late \subseteq t.late
        BY DEF Joined
      <4>2. QED
        BY <1>2, <1>7, <2>1, <4>1
    <3>2. Sums(U)[i - 1] <= HighWater
      BY <1>1, <2>1, <3>1 DEF Bounded, IsReply
    <3>3. QED
      BY <1>6, <3>1, <3>2
  <2>2. CASE i = m + 1
    <3>1. k = "reply" /\ i - 1 = m /\ m \in 0..m /\ N + 1 \notin t.late
      BY <1>2, <1>7, <2>2
    <3>2. Sums(U)[m] <= HighWater
      BY <1>1, <3>1 DEF Quiet
    <3>3. QED
      BY <1>6, <3>1, <3>2
  <2>3. QED
    BY <1>2, <2>1, <2>2
<1>8. ASSUME k = "request", Quiet(s) PROVE Quiet(t)
  <2>1. m + 1 \in 1..Len(V) /\ (m + 1) - 1 = m /\ m \in 0..m /\ m + 1 \in 1..(m + 1) /\ m \in 0..Len(V)
    BY <1>2, <1>4
  <2>2. V[m + 1] = 0
    BY <1>2, <1>4, <1>8, <2>1
  <2>3. Sums(V)[m + 1] = Sums(V)[(m + 1) - 1] + V[m + 1] /\ Sums(V)[m] \in Nat
    BY <1>4, <2>1, SumsDef
  <2>4. Sums(V)[m + 1] = Sums(U)[m]
    BY <1>6, <2>1, <2>2, <2>3
  <2>5. s.dataallowed => Sums(U)[m] <= HighWater
    BY <1>1, <1>8 DEF Quiet
  <2>6. t.dataallowed = s.dataallowed
    BY DEF Joined
  <2>7. QED
    BY <1>1, <1>2, <2>4, <2>5, <2>6 DEF Quiet
<1>9. QED
  BY <1>1, <1>2, <1>7, <1>8 DEF Bounded, IsReply

\* A packet at the end of the queue extends what is sent.
LEMMA JoinedGrows ==
  ASSUME NEW s, Queue(s), NEW k, NEW t, Joined(s, k, t), (k = "ident") <=> (Len(s.sent) = 0),
         k = "reply" /\ Len(s.sent) + 1 \notin t.late => s.dataallowed /\ Quiet(s)
  PROVE  Grows(s, t) /\ (k = "request" /\ Quiet(s) => Quiet(t))
<1>1. s \in Ses /\ QueueOK(s) /\ Bounded(s)
  BY DEF Queue
<1>3. QueueOK(t)
  BY <1>1, JoinedQueueOK
<1>4. Bounded(t) /\ (k = "request" /\ Quiet(s) => Quiet(t))
  BY <1>1, <1>3, JoinedBounded
<1>5. Queue(t)
  BY <1>3, <1>4 DEF Queue, Joined
<1>6. PICK q, u, N : q = s.writequeue /\ u = t.writequeue /\ N = Len(s.sent)
  OBVIOUS
<1>7. /\ N \in Nat /\ Len(q) \in Nat /\ Len(t.sent) = N + 1 /\ Len(u) = Len(q) + 1
      /\ \A n \in 1..N : t.sent[n] = s.sent[n]
      /\ \A i \in 1..Len(q) : u[i] = q[i]
      /\ u[Len(q) + 1].n = N + 1 /\ u[Len(q) + 1].pos = 0
  <2>1. Behind(q, u, s.sent, t.sent, k)
    BY <1>1, <1>6, JoinedFacts
  <2>2. QED
    BY <1>6, <2>1 DEF Behind
<1>8. Extends(s.sent, t.sent)
  BY <1>6, <1>7 DEF Extends
<1>9. NextByte(t) = NextByte(s)
  <2>1. u # << >>
    BY <1>7
  <2>2. NextByte(t) = <<u[1].n, u[1].pos + 1>>
    BY <1>6, <2>1 DEF NextByte
  <2>3. CASE q = << >>
    <3>1. Len(q) = 0
      BY <2>3
    <3>2. u[1].n = N + 1 /\ u[1].pos + 1 = 1
      BY <1>7, <3>1
    <3>3. NextByte(s) = <<N + 1, 1>>
      BY <1>6, <2>3 DEF NextByte
    <3>4. QED
      BY <2>2, <3>2, <3>3
  <2>4. CASE q # << >>
    <3>1. q \in Seq(Pack)
      BY <1>1, <1>6 DEF Ses
    <3>2. 1 \in 1..Len(q)
      BY <2>4, <3>1
    <3>3. u[1] = q[1]
      BY <1>7, <3>2
    <3>4. QED
      BY <1>6, <2>2, <2>4, <3>3 DEF NextByte
  <2>5. QED
    BY <2>3, <2>4
<1>10. QED
  BY <1>4, <1>5, <1>8, <1>9 DEF Grows

\* writebuf_enqueue.
LEMMA Enqueue ==
  ASSUME NEW s, Queue(s), NEW k \in Kind, (k = "ident") <=> (Len(s.sent) = 0),
         k = "reply" => s.dataallowed /\ Quiet(s), NEW t, t = writebuf_enqueue(s, k)
  PROVE  /\ Grows(s, t) /\ SameReader(s, t) /\ (k = "request" /\ Quiet(s) => Quiet(t))
         /\ SameRest(s, t) /\ t.sent = Append(s.sent, k)
<1>1. s \in Ses
  BY DEF Queue
<1>2. Joined(s, k, t) /\ SameReader(s, t) /\ SameRest(s, t) /\ t.sent = Append(s.sent, k)
  BY <1>1, EnqueueFields DEF Joined, SameRest
<1>3. Grows(s, t) /\ (k = "request" /\ Quiet(s) => Quiet(t))
  BY <1>2, JoinedGrows
<1>4. QED
  BY <1>2, <1>3

\* A packet that has waited for the end of an exchange.
LEMMA EnqueueLate ==
  ASSUME NEW s, Queue(s), NEW k \in Kind \ {"ident"}, Len(s.sent) # 0,
         NEW t, t = Late(writebuf_enqueue(s, k))
  PROVE  Grows(s, t) /\ SameReader(s, t) /\ SameRest(s, t)
<1>1. s \in Ses /\ k \in Kind
  BY DEF Queue
<1>2. PICK u, n : u = writebuf_enqueue(s, k) /\ n = Len(s.sent) + 1
  OBVIOUS
<1>3. /\ u \in Ses /\ SameReader(s, u)
      /\ u.writequeue = Append(s.writequeue, [n |-> n, pos |-> 0, len |-> PacketLen(n, k)])
      /\ u.writequeue_len = s.writequeue_len + PacketLen(n, k)
      /\ u.sent = Append(s.sent, k) /\ u.late = s.late /\ SameRest(s, u)
  BY <1>1, <1>2, EnqueueFields
<1>4. Len(u.sent) = n /\ n \in Nat
  <2>1. s.sent \in Seq(Kind)
    BY <1>1 DEF Ses
  <2>2. QED
    BY <1>1, <1>2, <1>3, <2>1
<1>5. t = [u EXCEPT !.late = @ \cup {n}]
  BY <1>2, <1>4 DEF Late
<1>6. u.late \cup {n} \in SUBSET Nat
  BY <1>3, <1>4 DEF Ses
<1>7. t \in Ses
  BY <1>3, <1>5, <1>6 DEF Ses
<1>8. /\ t.writequeue = u.writequeue /\ t.writequeue_len = u.writequeue_len /\ t.sent = u.sent
      /\ t.late = u.late \cup {n} /\ SameReader(u, t) /\ SameRest(u, t)
  BY <1>3, <1>5 DEF Ses, SameReader, SameRest
<1>9. SameReader(s, t) /\ SameRest(s, t)
  BY <1>3, <1>8 DEF SameReader, SameRest
<1>10. Joined(s, k, t) /\ n \in t.late
  BY <1>1, <1>2, <1>3, <1>7, <1>8, <1>9 DEF Joined, SameRest
<1>11. Grows(s, t)
  BY <1>1, <1>2, <1>10, JoinedGrows
<1>12. QED
  BY <1>9, <1>11

\* Nothing but other fields change.
LEMMA SameQueue ==
  ASSUME NEW s, Queue(s), NEW t \in Ses, t.writequeue = s.writequeue,
         t.writequeue_len = s.writequeue_len, t.sent = s.sent, t.late = s.late
  PROVE  Grows(s, t) /\ (Quiet(s) /\ (t.dataallowed => s.dataallowed) => Quiet(t))
<1>1. Unasked(t) = Unasked(s) /\ NextByte(t) = NextByte(s)
  BY DEF Unasked, NextByte
<1>2. QueueOK(t) /\ Bounded(t) /\ (Quiet(s) /\ (t.dataallowed => s.dataallowed) => Quiet(t))
  BY <1>1 DEF Queue, QueueOK, Bounded, IsReply, Quiet
<1>3. Extends(s.sent, t.sent)
  <2>1. Len(s.sent) \in Nat
    BY DEF Queue, Ses
  <2>2. QED
    BY <2>1 DEF Extends
<1>4. QED
  BY <1>1, <1>2, <1>3 DEF Grows, Queue

\* Making packets twice is making packets.
LEMMA GrowsTwice ==
  ASSUME NEW s, NEW t, NEW u, Queue(s), Grows(s, t), Grows(t, u)
  PROVE  Grows(s, u)
<1>1. PICK a, b, c : a = s.sent /\ b = t.sent /\ c = u.sent
  OBVIOUS
<1>2. a \in Seq(Kind) /\ b \in Seq(Kind) /\ c \in Seq(Kind)
  BY <1>1 DEF Grows, Queue, Ses
<1>3. Extends(a, b) /\ Extends(b, c)
  BY <1>1 DEF Grows
<1>4. Len(a) \in Nat /\ Len(b) \in Nat /\ Len(c) \in Nat
  BY <1>2
<1>5. Extends(a, c)
  BY <1>3, <1>4 DEF Extends
<1>6. QED
  BY <1>1, <1>5 DEF Grows

\* write_packet.
LEMMA WriteQueue ==
  ASSUME NEW s, Queue(s), NEW w \in 0..Remaining(s.writequeue)[Len(s.writequeue)],
         NEW t, t = write_packet(s, w)
  PROVE  /\ Queue(t) /\ SameReader(s, t) /\ t.sent = s.sent
         /\ Linked(s.sent, [k \in 1..w |-> OfferedByte(s.writequeue, k)], NextByte(s), NextByte(t))
<1>1. s \in Ses /\ QueueOK(s) /\ Bounded(s)
  BY DEF Queue
<1>2. PICK q, u, sent, r : /\ q = s.writequeue /\ u = packet_queue_consume(q, w) /\ sent = s.sent
                           /\ r = Remaining(q)[Len(q)]
  OBVIOUS
<1>3. /\ q \in Seq(Pack) /\ sent \in Seq(Kind) /\ Numbered(q, sent) /\ Cut(q, sent)
      /\ w \in 0..Remaining(q)[Len(q)] /\ \A i \in 1..Len(q) : q[i].pos < q[i].len
  BY <1>1, <1>2 DEF Ses, QueueOK, Cut
<1>4. PICK f : Consumed(q, w, f, u)
  BY <1>2, <1>3, ConsumeIs
<1>5. /\ u \in Seq(Pack) /\ f \in 0..Len(q) /\ Len(u) = Len(q) - f
      /\ \A i \in 1..Len(u) : u[i].n = q[f + i].n /\ u[i].len = q[f + i].len
      /\ \A i \in 1..Len(u) : u[i].pos = q[f + i].pos + (IF i = 1 THEN w - Remaining(q)[f] ELSE 0)
  BY <1>4 DEF Consumed
<1>6. (\A i \in 1..Len(u) : u[i].pos < u[i].len) /\ Remaining(u)[Len(u)] = r - w
  BY <1>2, <1>3, <1>4, ConsumeSums
<1>7. r \in Nat /\ w \in Nat /\ w <= r /\ Len(q) \in Nat /\ Len(sent) \in Nat /\ Len(u) \in Nat
  <2>1. Len(q) \in Nat /\ Len(q) \in 0..Len(q)
    BY <1>3
  <2>2. Remaining(q)[Len(q)] \in Nat
    BY <1>3, <2>1, QueueSums
  <2>3. QED
    BY <1>2, <1>3, <1>5, <2>1, <2>2
<1>8. s.writequeue_len = r
  BY <1>1, <1>2 DEF QueueOK
<1>9. t = [s EXCEPT !.writequeue = u, !.writequeue_len = r - w]
  BY <1>2, <1>8 DEF write_packet
<1>10. r - w \in Nat
  BY <1>7
<1>11. /\ t \in Ses /\ SameReader(s, t) /\ t.sent = sent /\ t.writequeue = u
       /\ t.writequeue_len = r - w /\ t.late = s.late
  <2>1. u \in Seq(Pack)
    BY <1>5
  <2>2. t \in Ses
    BY <1>1, <1>9, <1>10, <2>1 DEF Ses
  <2>3. SameReader(s, t) /\ t.sent = s.sent /\ t.writequeue = u /\ t.writequeue_len = r - w
        /\ t.late = s.late
    BY <1>1, <1>9 DEF Ses, SameReader
  <2>4. QED
    BY <1>2, <2>2, <2>3
<1>12. \A i \in 1..Len(u) : f + i \in 1..Len(q) /\ (i > 1 => f + i > 1)
  BY <1>5, <1>7
<1>13. Numbered(u, sent)
  <2>1. Len(q) <= Len(sent) /\ \A i \in 1..Len(q) : q[i].n = Len(sent) - Len(q) + i
    BY <1>3 DEF Numbered
  <2>2. ASSUME NEW i \in 1..Len(u) PROVE u[i].n = Len(sent) - Len(u) + i
    <3>1. u[i].n = Len(sent) - Len(q) + (f + i)
      BY <1>5, <1>12, <2>1
    <3>2. QED
      BY <1>5, <1>7, <3>1
  <2>3. Len(u) <= Len(sent)
    BY <1>5, <1>7, <2>1
  <2>4. QED
    BY <2>2, <2>3 DEF Numbered
<1>14. Cut(u, sent)
  <2>1. ASSUME NEW i \in 1..Len(u)
        PROVE  u[i].len = PacketLen(u[i].n, sent[u[i].n]) /\ (i > 1 => u[i].pos = 0)
    <3>1. /\ q[f + i].len = PacketLen(q[f + i].n, sent[q[f + i].n])
          /\ (i > 1 => q[f + i].pos = 0)
      BY <1>3, <1>12 DEF Cut
    <3>2. u[i].n = q[f + i].n /\ u[i].len = q[f + i].len
      BY <1>5
    <3>3. ASSUME i > 1 PROVE u[i].pos = 0
      <4>1. u[i].pos = q[f + i].pos + (IF i = 1 THEN w - Remaining(q)[f] ELSE 0)
        BY <1>5
      <4>1a. i # 1 /\ q[f + i].pos = 0
        BY <3>1, <3>3
      <4>2. QED
        BY <4>1, <4>1a
    <3>4. QED
      BY <3>1, <3>2, <3>3
  <2>2. QED
    BY <1>6, <2>1 DEF Cut
<1>15. QueueOK(t)
  BY <1>1, <1>2, <1>6, <1>11, <1>13, <1>14 DEF QueueOK
<1>16. Bounded(t)
  <2>1. PICK U, V : U = Unasked(s) /\ V = Unasked(t)
    OBVIOUS
  <2>2. /\ U \in Seq(Nat) /\ Len(U) = Len(q)
        /\ \A i \in 1..Len(q) : U[i] = IF sent[q[i].n] = "request" THEN 0 ELSE q[i].len - q[i].pos
    BY <1>1, <1>2, <1>3, <2>1, UnaskedIs
  <2>3. /\ V \in Seq(Nat) /\ Len(V) = Len(u)
        /\ \A i \in 1..Len(u) : V[i] = IF sent[u[i].n] = "request" THEN 0 ELSE u[i].len - u[i].pos
    BY <1>11, <1>14, <2>1, UnaskedIs
  <2>4. ASSUME NEW i \in 1..Len(V) PROVE V[i] <= U[f + i]
    <3>1. i \in 1..Len(u) /\ f + i \in 1..Len(q) /\ u[i].n = q[f + i].n
      BY <1>5, <1>12, <2>3
    <3>2. CASE sent[u[i].n] = "request"
      BY <2>2, <2>3, <3>1, <3>2
    <3>3. CASE sent[u[i].n] # "request"
      <4>1. PICK x, y, p : x = q[f + i].len /\ y = q[f + i].pos /\ p = w - Remaining(q)[f]
        OBVIOUS
      <4>2. V[i] = x - (y + (IF i = 1 THEN p ELSE 0)) /\ U[f + i] = x - y
        BY <1>5, <2>2, <2>3, <3>1, <3>3, <4>1
      <4>3. x \in Nat /\ y \in Nat
        <5>1. q[f + i] \in Pack
          BY <1>3, <3>1
        <5>2. QED
          BY <4>1, <5>1 DEF Pack
      <4>4. p \in Nat
        <5>1. Remaining(q)[f] \in Nat
          BY <1>3, <1>5, QueueSums
        <5>2. Remaining(q)[f] <= w
          BY <1>4 DEF Consumed
        <5>3. QED
          BY <1>7, <4>1, <5>1, <5>2
      <4>5. QED
        BY <4>2, <4>3, <4>4
    <3>4. QED
      BY <3>2, <3>3
  <2>5. f \in Nat /\ f + Len(V) <= Len(U)
    BY <1>5, <1>7, <2>2, <2>3
  <2>6. \A i \in 0..Len(V) : Sums(V)[i] + Sums(U)[f] <= Sums(U)[f + i]
    BY <2>2, <2>3, <2>4, <2>5, SumsPart
  <2>7. ASSUME NEW i \in 1..Len(u), sent[u[i].n] = "reply", u[i].n \notin s.late
        PROVE  Sums(V)[i - 1] <= HighWater
    <3>1. /\ i - 1 \in 0..Len(V) /\ f + i \in 1..Len(q) /\ (f + i) - 1 = f + (i - 1)
          /\ f + (i - 1) \in 0..Len(U) /\ f \in 0..Len(U)
      BY <1>5, <1>7, <1>12, <2>2, <2>3
    <3>2. sent[q[f + i].n] = "reply" /\ q[f + i].n \notin s.late
      BY <1>5, <2>7
    <3>3. Sums(U)[(f + i) - 1] <= HighWater
      BY <1>1, <1>2, <2>1, <3>1, <3>2 DEF Bounded, IsReply
    <3>4. Sums(V)[i - 1] + Sums(U)[f] <= Sums(U)[f + (i - 1)]
      BY <2>6, <3>1
    <3>5. Sums(V)[i - 1] \in Nat /\ Sums(U)[f] \in Nat /\ Sums(U)[f + (i - 1)] \in Nat
      BY <2>2, <2>3, <3>1, SumsDef
    <3>6. HighWater \in Nat
      BY TransportAssumption
    <3>7. PICK a, b, c : a = Sums(V)[i - 1] /\ b = Sums(U)[f] /\ c = Sums(U)[f + (i - 1)]
      OBVIOUS
    <3>8. a \in Nat /\ b \in Nat /\ c \in Nat /\ a + b <= c /\ c <= HighWater
      BY <3>1, <3>3, <3>4, <3>5, <3>7
    <3>9. a <= HighWater
      BY <3>6, <3>8
    <3>10. QED
      BY <3>7, <3>9
  <2>8. QED
    BY <1>2, <1>11, <2>1, <2>7 DEF Bounded, IsReply
<1>17. Linked(s.sent, [k \in 1..w |-> OfferedByte(s.writequeue, k)], NextByte(s), NextByte(t))
  <2>1. w \in 0..Remaining(s.writequeue)[Len(s.writequeue)]
    OBVIOUS
  <2>2. t.writequeue = packet_queue_consume(s.writequeue, w) /\ t.sent = s.sent
    BY <1>2, <1>11
  <2>3. QED
    BY <1>1, <2>1, <2>2, WriteLinked
<1>18. QED
  BY <1>2, <1>11, <1>15, <1>16, <1>17 DEF Queue

-----------------------------------------------------------------------------
(***************************************************************************)
(* Reading.  The packets that r has processed are the first that p made;   *)
(* what r holds of the next one and what is under way are the stream from  *)
(* there up to what p writes next.                                         *)
(***************************************************************************)
Reading(r, p, w) ==
    /\ w \in Seq(Nat \X Nat)
    /\ Extends(r.got, p.sent)
    /\ r.remoteident <=> Len(r.got) >= 1
    /\ r.readlen # 0 =>
          /\ r.remoteident /\ Len(r.got) < Len(p.sent)
          /\ r.readlen = PacketLen(Len(r.got) + 1, p.sent[Len(r.got) + 1])
    /\ Linked(p.sent, r.readbuf \o w, <<Len(r.got) + 1, 1>>, NextByte(p))
\* Between two passes the reader waits for more of a packet, a first block or the line.
Unfinished(r) ==
    Len(r.readbuf) < IF r.readlen # 0 THEN r.readlen
                     ELSE IF r.remoteident THEN BlockSize ELSE IdentLen

\* What is said of a reader is about its reading fields alone.
LEMMA ReaderSame ==
  ASSUME NEW r, NEW t, SameReader(r, t), NEW p, NEW w
  PROVE  (Reading(r, p, w) => Reading(t, p, w)) /\ (Unfinished(r) => Unfinished(t))
  BY DEF SameReader, Reading, Unfinished

\* The sender makes packets.
LEMMA SenderGrows ==
  ASSUME NEW r \in Ses, NEW p, Queue(p), NEW t, Grows(p, t), NEW w, Reading(r, p, w)
  PROVE  Reading(r, t, w)
<1>1. PICK got, sent, more : got = r.got /\ sent = p.sent /\ more = t.sent
  OBVIOUS
<1>2. /\ got \in Seq(Kind) /\ sent \in Seq(Kind) /\ more \in Seq(Kind)
      /\ Extends(sent, more) /\ NextByte(t) = NextByte(p) /\ Extends(got, sent)
  BY <1>1 DEF Queue, Grows, Ses, Reading
<1>3. Len(got) \in Nat /\ Len(sent) \in Nat /\ Len(more) \in Nat
  BY <1>2
<1>4. Extends(got, more)
  BY <1>2, <1>3 DEF Extends
<1>5. Linked(sent, r.readbuf \o w, <<Len(got) + 1, 1>>, NextByte(t))
  BY <1>1, <1>2 DEF Reading
<1>6. Linked(more, r.readbuf \o w, <<Len(got) + 1, 1>>, NextByte(t))
  BY <1>2, <1>5, LinkedMore
<1>7. ASSUME r.readlen # 0
      PROVE  r.remoteident /\ Len(got) < Len(more) /\ r.readlen = PacketLen(Len(got) + 1, more[Len(got) + 1])
  <2>1. /\ r.remoteident /\ Len(got) < Len(sent)
        /\ r.readlen = PacketLen(Len(got) + 1, sent[Len(got) + 1])
    BY <1>1, <1>7 DEF Reading
  <2>2. Len(got) + 1 \in 1..Len(sent) /\ Len(got) < Len(more)
    BY <1>2, <1>3, <2>1 DEF Extends
  <2>3. more[Len(got) + 1] = sent[Len(got) + 1]
    BY <1>2, <2>2 DEF Extends
  <2>4. QED
    BY <2>1, <2>2, <2>3
<1>8. QED
  BY <1>1, <1>4, <1>6, <1>7 DEF Reading

\* The sender writes.
LEMMA SenderWrites ==
  ASSUME NEW r \in Ses, NEW p, NEW w, Reading(r, p, w), NEW t, t.sent = p.sent,
         NEW b, Linked(p.sent, b, NextByte(p), NextByte(t))
  PROVE  Reading(r, t, w \o b)
<1>1. r.readbuf \in Seq(Nat \X Nat) /\ w \in Seq(Nat \X Nat) /\ b \in Seq(Nat \X Nat)
  BY DEF Ses, Reading, Linked
<1>2. (r.readbuf \o w) \o b = r.readbuf \o (w \o b)
  <2>1. PICK B, rb : B = Nat \X Nat /\ rb = r.readbuf
    OBVIOUS
  <2>2. rb \in Seq(B) /\ w \in Seq(B) /\ b \in Seq(B)
    BY <1>1, <2>1
  <2>3. (rb \o w) \o b = rb \o (w \o b)
    BY <2>2, SMTT(60)
  <2>4. QED
    BY <2>1, <2>3
<1>3. Linked(p.sent, r.readbuf \o w, <<Len(r.got) + 1, 1>>, NextByte(p))
  BY DEF Reading
<1>4. Linked(p.sent, (r.readbuf \o w) \o b, <<Len(r.got) + 1, 1>>, NextByte(t))
  BY <1>3, LinkedConcat
<1>5. w \o b \in Seq(Nat \X Nat)
  BY <1>1, ConcatProperties
<1>6. QED
  BY <1>2, <1>4, <1>5 DEF Reading

\* The smaller of two numbers is no larger than either.
LEMMA MinPair ==
  ASSUME NEW a \in Int, NEW b \in Int
  PROVE  Min({a, b}) \in Int /\ Min({a, b}) <= a /\ Min({a, b}) <= b
<1>1. \E x \in {a, b} : \A y \in {a, b} : x <= y
  <2>1. CASE a <= b
    BY <2>1
  <2>2. CASE ~(a <= b)
    BY <2>2
  <2>3. QED
    BY <2>1, <2>2
<1>2. Min({a, b}) \in {a, b} /\ \A y \in {a, b} : Min({a, b}) <= y
  BY <1>1 DEF Min
<1>3. QED
  BY <1>2

\* read(): bytes pass from the wire to the buffer.
Moved(s, w, max, t, v) ==
    /\ t \in Ses /\ t.readlen = s.readlen /\ t.remoteident = s.remoteident /\ t.got = s.got
    /\ t.writequeue = s.writequeue /\ t.writequeue_len = s.writequeue_len /\ t.sent = s.sent
    /\ t.late = s.late /\ t.dataallowed = s.dataallowed
    /\ Len(t.readbuf) <= Len(s.readbuf) + max
    /\ v \in Seq(Nat \X Nat) /\ t.readbuf \o v = s.readbuf \o w

\* read() returns any part of what is there, and loses and repeats nothing.
LEMMA ReadSomeMoves ==
  ASSUME NEW s \in Ses, NEW w \in Seq(Nat \X Nat), NEW max \in Nat,
         NEW q \in ReadSome(Result(s, w), max)
  PROVE  Moved(s, w, max, q.s, q.w)
<1>1. Result(s, w).s = s /\ Result(s, w).w = w
  BY DEF Result
<1>2. PICK k \in 0..Min({max, Len(w)}) :
         q = Result([s EXCEPT !.readbuf = @ \o SubSeq(w, 1, k)], SubSeq(w, k + 1, Len(w)))
  BY <1>1 DEF ReadSome
<1>3. Len(w) \in Nat /\ k \in Nat /\ k <= max /\ k <= Len(w)
  <2>1. Len(w) \in Nat
    OBVIOUS
  <2>2. Min({max, Len(w)}) \in Int /\ Min({max, Len(w)}) <= max /\ Min({max, Len(w)}) <= Len(w)
    <3>1. max \in Int /\ Len(w) \in Int
      BY <2>1
    <3>2. QED
      BY <3>1, MinPair, Zenon
  <2>3. QED
    BY <2>1, <2>2
<1>4. PICK x, y : x = SubSeq(w, 1, k) /\ y = SubSeq(w, k + 1, Len(w))
  OBVIOUS
<1>5. \A i \in 1..Len(w) : w[i] \in Nat \X Nat
  OBVIOUS
<1>6. x \in Seq(Nat \X Nat) /\ Len(x) = k /\ \A i \in 1..k : x[i] = w[i]
  <2>1. \A i \in 1..k : w[i] \in Nat \X Nat
    BY <1>3, <1>5
  <2>2. /\ x \in Seq(Nat \X Nat) /\ Len(x) = IF 1 <= k THEN k - 1 + 1 ELSE 0
        /\ \A i \in 1..(k - 1 + 1) : x[i] = w[1 + i - 1]
    BY <1>3, <1>4, <2>1, SubSeqProperties
  <2>3. QED
    BY <1>3, <2>2
<1>7. y \in Seq(Nat \X Nat) /\ Len(y) = Len(w) - k /\ \A i \in 1..(Len(w) - k) : y[i] = w[k + i]
  <2>1. (\A i \in (k + 1)..Len(w) : w[i] \in Nat \X Nat) /\ k + 1 \in Int /\ Len(w) \in Int
    BY <1>3, <1>5
  <2>2. /\ y \in Seq(Nat \X Nat)
        /\ Len(y) = IF k + 1 <= Len(w) THEN Len(w) - (k + 1) + 1 ELSE 0
        /\ \A i \in 1..(Len(w) - (k + 1) + 1) : y[i] = w[(k + 1) + i - 1]
    BY <1>4, <2>1, SubSeqProperties
  <2>3. QED
    BY <1>3, <2>2
<1>8. x \o y = w
  <2>1. 1 \in 1..(Len(w) + 1) /\ k \in (1 - 1)..Len(w) /\ Len(w) \in k..Len(w)
    BY <1>3
  <2>2. x \o y = SubSeq(w, 1, Len(w))
    BY <1>4, <2>1, ConcatAdjacentSubSeq, Zenon
  <2>3. QED
    BY <2>2, SubSeqFull, Zenon
<1>9. PICK t, rb : t = q.s /\ rb = s.readbuf
  OBVIOUS
<1>10. rb \in Seq(Nat \X Nat) /\ Len(rb) \in Nat
  BY <1>9 DEF Ses
<1>11. rb \o x \in Seq(Nat \X Nat) /\ Len(rb \o x) = Len(rb) + k /\ (rb \o x) \o y = rb \o w
  <2>1. rb \o x \in Seq(Nat \X Nat) /\ Len(rb \o x) = Len(rb) + Len(x)
    BY <1>6, <1>10, ConcatProperties, Zenon
  <2>2. (rb \o x) \o y = rb \o (x \o y)
    <3>1. PICK B : B = Nat \X Nat
      OBVIOUS
    <3>2. rb \in Seq(B) /\ x \in Seq(B) /\ y \in Seq(B)
      BY <1>6, <1>7, <1>10, <3>1
    <3>3. QED
      BY <3>2, SMTT(60)
  <2>3. QED
    BY <1>6, <1>8, <2>1, <2>2
<1>12. t = [s EXCEPT !.readbuf = rb \o x] /\ q.w = y
  BY <1>2, <1>4, <1>9 DEF Result
<1>13. /\ t \in Ses /\ t.readbuf = rb \o x /\ t.readlen = s.readlen
       /\ t.remoteident = s.remoteident /\ t.got = s.got
       /\ t.writequeue = s.writequeue /\ t.writequeue_len = s.writequeue_len /\ t.sent = s.sent
       /\ t.late = s.late /\ t.dataallowed = s.dataallowed
  BY <1>11, <1>12 DEF Ses
<1>14. Len(rb \o x) <= Len(rb) + max
  BY <1>3, <1>10, <1>11
<1>15. QED
  BY <1>7, <1>9, <1>11, <1>12, <1>13, <1>14 DEF Moved

\* The buffer and the wire together are the same stream after read().
LEMMA MovedReads ==
  ASSUME NEW s, NEW w, NEW max, NEW t, NEW v, Moved(s, w, max, t, v), NEW p, Reading(s, p, w)
  PROVE  Reading(t, p, v)
  BY DEF Moved, Reading

\* The bytes that the reader holds are of the packet that it expects.
LEMMA BufferAligned ==
  ASSUME NEW s \in Ses, NEW p \in Ses, NEW w, Reading(s, p, w), Len(s.readbuf) # 0
  PROVE  /\ Len(s.got) + 1 \in 1..Len(p.sent)
         /\ Len(s.readbuf) <= PacketLen(Len(s.got) + 1, p.sent[Len(s.got) + 1]) => Aligned(s)
         /\ Len(s.readbuf) = PacketLen(Len(s.got) + 1, p.sent[Len(s.got) + 1]) =>
               Linked(p.sent, w, <<Len(s.got) + 2, 1>>, NextByte(p))
<1>1. PICK rb, g, sent, n, T, last : /\ rb = s.readbuf /\ g = Len(s.got) + 1 /\ sent = p.sent /\ n = Len(rb)
                                     /\ T = rb \o w /\ last = NextByte(p)
  OBVIOUS
<1>2. /\ rb \in Seq(Nat \X Nat) /\ w \in Seq(Nat \X Nat) /\ sent \in Seq(Kind)
      /\ Linked(sent, T, <<g, 1>>, last)
  <2>1. rb \in Seq(Nat \X Nat) /\ sent \in Seq(Kind)
    BY <1>1 DEF Ses
  <2>2. w \in Seq(Nat \X Nat) /\ Linked(p.sent, s.readbuf \o w, <<Len(s.got) + 1, 1>>, NextByte(p))
    BY DEF Reading
  <2>3. QED
    BY <1>1, <2>1, <2>2, Zenon
<1>3. g \in Nat /\ n \in Nat \ {0} /\ Len(w) \in Nat
  <2>1. Len(s.got) \in Nat
    BY DEF Ses
  <2>2. Len(rb) \in Nat /\ Len(w) \in Nat /\ Len(rb) # 0
    BY <1>1, <1>2
  <2>3. QED
    BY <1>1, <2>1, <2>2
<1>4. Len(T) = n + Len(w) /\ \A i \in 1..n : T[i] = rb[i]
  <2>1. Len(T) = n + Len(w)
    BY <1>1, <1>2, ConcatProperties
  <2>2. \A i \in 1..(n + Len(w)) : T[i] = IF i <= n THEN rb[i] ELSE w[i - n]
    BY <1>1, <1>2, ConcatProperties
  <2>3. QED
    BY <1>3, <2>1, <2>2
<1>5. n <= Len(T)
  BY <1>3, <1>4
<1>6. /\ g \in 1..Len(sent)
      /\ n <= PacketLen(g, sent[g]) => \A k \in 1..n : T[k] = <<g, k>>
      /\ n = PacketLen(g, sent[g]) => Nth(T, last, n + 1) = <<g + 1, 1>>
  BY <1>2, <1>3, <1>5, InFirst
<1>7. ASSUME n <= PacketLen(g, sent[g]) PROVE Aligned(s)
  <2>1. \A k \in 1..n : rb[k] = <<g, k>>
    BY <1>4, <1>6, <1>7
  <2>2. QED
    BY <1>1, <2>1 DEF Aligned, Expected
<1>8. ASSUME n = PacketLen(g, sent[g]) PROVE Linked(sent, w, <<g + 1, 1>>, last)
  <2>1. Linked(sent, rb \o w, <<g, 1>>, last)
    BY <1>1, <1>2
  <2>2. Linked(sent, w, Nth(rb \o w, last, Len(rb) + 1), last)
    BY <1>2, <2>1, LinkedRest
  <2>3. QED
    BY <1>1, <1>6, <1>8, <2>2
<1>9. g + 1 = Len(s.got) + 2
  <2>1. Len(s.got) \in Nat
    BY DEF Ses
  <2>2. QED
    BY <1>1, <2>1
<1>10. QED
  BY <1>1, <1>6, <1>7, <1>8, <1>9

\* A packet is complete, and the reader is ready for the next.
LEMMA WholePacket ==
  ASSUME NEW s \in Ses, NEW p \in Ses, NEW w, Reading(s, p, w),
         Len(s.got) + 1 \in 1..Len(p.sent),
         Len(s.readbuf) = PacketLen(Len(s.got) + 1, p.sent[Len(s.got) + 1]),
         NEW t \in Ses, t.got = Append(s.got, p.sent[Len(s.got) + 1]),
         t.readbuf = << >>, t.readlen = 0, t.remoteident
  PROVE  Reading(t, p, w) /\ Unfinished(t)
<1>1. PICK got, sent, g, more : got = s.got /\ sent = p.sent /\ g = Len(got) + 1 /\ more = t.got
  OBVIOUS
<1>2. /\ got \in Seq(Kind) /\ sent \in Seq(Kind) /\ g \in 1..Len(sent) /\ sent[g] \in Kind
      /\ more = Append(got, sent[g]) /\ Extends(got, sent) /\ w \in Seq(Nat \X Nat)
  <2>1. got \in Seq(Kind) /\ sent \in Seq(Kind)
    BY <1>1 DEF Ses
  <2>2. Extends(got, sent) /\ w \in Seq(Nat \X Nat)
    BY <1>1 DEF Reading
  <2>3. g \in 1..Len(sent) /\ more = Append(got, sent[g])
    BY <1>1, Zenon
  <2>4. sent[g] \in Kind
    BY <2>1, <2>3
  <2>5. QED
    BY <2>1, <2>2, <2>3, <2>4
<1>3. Len(got) \in Nat /\ Len(sent) \in Nat /\ g \in Nat
  BY <1>1, <1>2
<1>4. Len(s.readbuf) # 0
  <2>1. PacketLen(g, sent[g]) \in Nat \ {0}
    BY <1>2, <1>3, PacketLens
  <2>2. QED
    BY <1>1, <2>1
<1>5. Linked(sent, w, <<Len(got) + 2, 1>>, NextByte(p))
  <2>1. Linked(p.sent, w, <<Len(s.got) + 2, 1>>, NextByte(p))
    BY <1>4, BufferAligned
  <2>2. QED
    BY <1>1, <2>1
<1>6. Len(more) = g /\ more[g] = sent[g] /\ \A i \in 1..Len(got) : more[i] = got[i]
  <2>1. PICK x : x = sent[g]
    OBVIOUS
  <2>2. got \in Seq(Kind) /\ x \in Kind /\ more = Append(got, x)
    BY <1>2, <2>1
  <2>3. /\ Len(more) = Len(got) + 1 /\ more[Len(got) + 1] = x
        /\ \A i \in 1..Len(got) : more[i] = got[i]
    BY <2>2, AppendProperties
  <2>4. QED
    BY <1>1, <2>1, <2>3
<1>7. Extends(more, sent)
  <2>1. \A i \in 1..Len(got) : sent[i] = got[i]
    BY <1>2 DEF Extends
  <2>2. ASSUME NEW i \in 1..Len(more) PROVE sent[i] = more[i]
    <3>1. CASE i \in 1..Len(got)
      BY <1>6, <2>1, <3>1
    <3>2. CASE i = g
      BY <1>6, <3>2
    <3>3. QED
      BY <1>1, <1>3, <1>6, <3>1, <3>2
  <2>3. QED
    BY <1>2, <1>3, <1>6, <2>2 DEF Extends
<1>8. Len(more) >= 1 /\ Len(more) + 1 = Len(got) + 2
  BY <1>1, <1>3, <1>6
<1>9. t.readbuf \o w = w
  BY <1>2, ConcatEmptySeq
<1>10. Reading(t, p, w)
  BY <1>1, <1>2, <1>5, <1>7, <1>8, <1>9 DEF Reading
<1>11. Unfinished(t)
  <2>1. BlockSize \in Nat \ {0} /\ Len(t.readbuf) = 0
    BY TransportAssumption
  <2>2. QED
    BY <2>1 DEF Unfinished
<1>12. QED
  BY <1>10, <1>11

\* A session that has sent something still has when it has made packets.
LEMMA StillSent ==
  ASSUME NEW s, Queue(s), Len(s.sent) # 0, NEW t, Grows(s, t)
  PROVE  Len(t.sent) # 0
<1>1. PICK a, b : a = s.sent /\ b = t.sent
  OBVIOUS
<1>2. s \in Ses /\ t \in Ses /\ Extends(a, b)
  BY <1>1 DEF Queue, Grows
<1>3. Len(a) \in Nat /\ Len(b) \in Nat
  <2>1. a \in Seq(Kind) /\ b \in Seq(Kind)
    BY <1>1, <1>2 DEF Ses
  <2>2. QED
    BY <2>1
<1>4. QED
  BY <1>1, <1>2, <1>3 DEF Extends

-----------------------------------------------------------------------------
(***************************************************************************)
(* encrypt_packet and the queue of what waits.                             *)
(***************************************************************************)
\* Packets were made or put aside; nothing was read or written.
Extra(s, t) == Grows(s, t) /\ SameReader(s, t)
\* The fields of the sending side.
SameSender(s, t) ==
    /\ t.writequeue = s.writequeue /\ t.writequeue_len = s.writequeue_len /\ t.sent = s.sent
    /\ t.late = s.late

\* Nothing was sent; other fields may have changed.
LEMMA Idle ==
  ASSUME NEW s, Queue(s), NEW t \in Ses, SameReader(s, t), SameSender(s, t)
  PROVE  Extra(s, t) /\ (Quiet(s) /\ (t.dataallowed => s.dataallowed) => Quiet(t))
<1>1. Grows(s, t) /\ (Quiet(s) /\ (t.dataallowed => s.dataallowed) => Quiet(t))
  BY SameQueue DEF SameSender
<1>2. QED
  BY <1>1 DEF Extra

\* Sending nothing.
LEMMA ExtraRefl ==
  ASSUME NEW s, Queue(s)
  PROVE  Extra(s, s)
<1>1. s \in Ses /\ SameReader(s, s) /\ SameSender(s, s)
  BY DEF Queue, SameReader, SameSender
<1>2. QED
  BY <1>1, Idle

\* Sending twice.
LEMMA ExtraTwice ==
  ASSUME NEW s, Queue(s), NEW t, Extra(s, t), NEW u, Extra(t, u)
  PROVE  Extra(s, u)
<1>1. Grows(s, u)
  BY GrowsTwice DEF Extra
<1>2. SameReader(s, u)
  BY DEF Extra, SameReader
<1>3. QED
  BY <1>1, <1>2 DEF Extra

\* encrypt_packet: the packet is queued, or waits for the end of the exchange.
LEMMA Encrypt ==
  ASSUME NEW s, Queue(s), Len(s.sent) # 0, NEW k \in Kind \ {"ident"},
         k = "reply" => Quiet(s), NEW t, t = encrypt_packet(s, k)
  PROVE  Extra(s, t) /\ SameRest(s, t) /\ (k = "request" /\ Quiet(s) => Quiet(t))
<1>1. s \in Ses /\ k \in Kind
  BY DEF Queue
<1>2. CASE s.dataallowed
  <2>1. t = writebuf_enqueue(s, k)
    BY <1>2 DEF encrypt_packet
  <2>2. QED
    BY <1>1, <1>2, <2>1, Enqueue DEF Extra
<1>3. CASE ~s.dataallowed
  <2>1. PICK q : q = Append(s.reply_queue, k)
    OBVIOUS
  <2>2. t = [s EXCEPT !.reply_queue = q] /\ q \in Seq(Kind \ {"ident"})
    BY <1>1, <1>3, <2>1 DEF encrypt_packet, Ses
  <2>3. t \in Ses
    BY <1>1, <2>2 DEF Ses
  <2>4. SameReader(s, t) /\ SameSender(s, t) /\ SameRest(s, t)
    BY <1>1, <2>2 DEF Ses, SameReader, SameSender, SameRest
  <2>5. Extra(s, t)
    BY <2>3, <2>4, Idle
  <2>6. Quiet(t)
    BY <1>3, <2>4 DEF Quiet, SameRest
  <2>7. QED
    BY <2>4, <2>5, <2>6
<1>4. QED
  BY <1>2, <1>3

\* A packet that is neither the identification line nor a reply, with the counters of
\* the loop.
LEMMA EncryptExtra ==
  ASSUME NEW s, Queue(s), Len(s.sent) # 0, NEW k \in Kind \ {"ident", "reply"},
         NEW u, u = encrypt_packet(s, k), NEW t \in Ses, SameReader(u, t), SameSender(u, t)
  PROVE  /\ Extra(s, t)
         /\ k = "request" /\ Quiet(s) /\ (t.dataallowed => u.dataallowed) => Quiet(t)
<1>1. Extra(s, u) /\ (k = "request" /\ Quiet(s) => Quiet(u))
  BY Encrypt
<1>2. Queue(u)
  BY <1>1 DEF Extra, Grows
<1>3. Extra(u, t) /\ (Quiet(u) /\ (t.dataallowed => u.dataallowed) => Quiet(t))
  BY <1>2, Idle
<1>4. QED
  BY <1>1, <1>3, ExtraTwice

\* send_msg_kexinit: no other packet may be sent from here on.
LEMMA KexinitExtra ==
  ASSUME NEW s, Queue(s), Len(s.sent) # 0, NEW t, t = send_msg_kexinit(s)
  PROVE  Extra(s, t) /\ t.dataallowed = FALSE /\ t.rekeys = s.rekeys
<1>1. PICK u : u = encrypt_packet(s, "kexinit")
  OBVIOUS
<1>2. "kexinit" \in Kind \ {"ident", "reply"}
  BY DEF Kind
<1>3. u \in Ses /\ u.rekeys = s.rekeys
  BY <1>1, <1>2, Encrypt DEF SameRest, Extra, Grows, Queue
<1>4. t = [u EXCEPT !.dataallowed = FALSE]
  BY <1>1 DEF send_msg_kexinit
<1>5. t \in Ses
  BY <1>3, <1>4 DEF Ses
<1>6. SameReader(u, t) /\ SameSender(u, t) /\ t.dataallowed = FALSE /\ t.rekeys = u.rekeys
  BY <1>3, <1>4 DEF Ses, SameReader, SameSender
<1>7. QED
  BY <1>1, <1>2, <1>3, <1>5, <1>6, EncryptExtra

\* f is the recursive function of maybe_flush_reply_queue, up to n.
FlushTo(s, n, f) ==
    f = [i \in 0..n |-> IF i = 0 THEN s ELSE Late(writebuf_enqueue(f[i - 1], s.reply_queue[i]))]

\* There is one.
LEMMA FlushExists ==
  ASSUME NEW s, NEW n \in Nat
  PROVE  \E f : FlushTo(s, n, f)
<1> DEFINE P == {m \in 0..n : \E f : FlushTo(s, m, f)}
<1>1. 0 \in P
  <2>1. FlushTo(s, 0, [i \in 0..0 |-> s])
    BY DEF FlushTo
  <2>2. QED
    BY <2>1
<1>2. ASSUME NEW m \in 1..n, m - 1 \in P PROVE m \in P
  <2>1. m - 1 \in 0..n /\ m \in 0..n /\ m \in Nat \ {0}
    OBVIOUS
  <2>2. PICK g : FlushTo(s, m - 1, g)
    BY <1>2
  <2>3. PICK last : last = Late(writebuf_enqueue(g[m - 1], s.reply_queue[m]))
    OBVIOUS
  <2> DEFINE f == [i \in 0..m |-> IF i = m THEN last ELSE g[i]]
  <2>5. \A i \in 0..(m - 1) : g[i] = IF i = 0 THEN s ELSE Late(writebuf_enqueue(g[i - 1], s.reply_queue[i]))
    BY <2>1, <2>2, Zenon DEF FlushTo
  <2>6. ASSUME NEW i \in 0..m
        PROVE  f[i] = IF i = 0 THEN s ELSE Late(writebuf_enqueue(f[i - 1], s.reply_queue[i]))
    <3>1. CASE i = m
      <4>1. f[i] = last /\ i # 0 /\ f[i - 1] = g[m - 1]
        BY <2>1, <3>1
      <4>2. QED
        BY <2>3, <3>1, <4>1
    <3>2. CASE i # m
      <4>1. i \in 0..(m - 1) /\ (i # 0 => f[i - 1] = g[i - 1]) /\ f[i] = g[i]
        BY <2>1, <3>2
      <4>2. QED
        BY <2>5, <4>1
    <3>3. QED
      BY <3>1, <3>2
  <2>7. f = [i \in 0..m |-> f[i]]
    OBVIOUS
  <2> HIDE DEF f
  <2>8. FlushTo(s, m, f)
    BY <2>6, <2>7, Zenon DEF FlushTo
  <2>9. QED
    BY <2>1, <2>8
<1> HIDE DEF P
<1>3. Inductive(P, n)
  BY <1>1, <1>2 DEF Inductive
<1>4. n \in P
  BY <1>3, Induct
<1>5. QED
  BY <1>4 DEF P

\* maybe_flush_reply_queue: what waited joins the queue, packet by packet.
LEMMA FlushExtra ==
  ASSUME NEW s, Queue(s), Len(s.sent) # 0, NEW t, t = maybe_flush_reply_queue(s)
  PROVE  Extra(s, t)
<1>1. CASE ~s.dataallowed
  <2>1. t = s
    BY <1>1 DEF maybe_flush_reply_queue
  <2>2. QED
    BY <2>1, ExtraRefl
<1>2. CASE s.dataallowed
  <2>1. PICK n : n = Len(s.reply_queue)
    OBVIOUS
  <2>2. s \in Ses /\ s.reply_queue \in Seq(Kind \ {"ident"}) /\ n \in Nat
    BY <2>1 DEF Queue, Ses
  <2>3. PICK f : f = CHOOSE g : FlushTo(s, n, g)
    OBVIOUS
  <2>4. FlushTo(s, n, f)
    BY <2>2, <2>3, FlushExists
  <2>5. t = [f[n] EXCEPT !.reply_queue = << >>]
    BY <1>2, <2>1, <2>3 DEF maybe_flush_reply_queue, FlushTo
  <2>6. \A i \in 0..n : f[i] = IF i = 0 THEN s ELSE Late(writebuf_enqueue(f[i - 1], s.reply_queue[i]))
    BY <2>2, <2>4, Zenon DEF FlushTo
  <2> DEFINE P == {m \in 0..n : Extra(s, f[m]) /\ SameRest(s, f[m])}
  <2>7. 0 \in P
    <3>1. 0 \in 0..n /\ f[0] = s
      BY <2>2, <2>6
    <3>2. QED
      BY <3>1, ExtraRefl DEF SameRest
  <2>8. ASSUME NEW m \in 1..n, m - 1 \in P PROVE m \in P
    <3>1. PICK a, b, k : a = f[m - 1] /\ b = f[m] /\ k = s.reply_queue[m]
      OBVIOUS
    <3>2. Extra(s, a) /\ SameRest(s, a)
      BY <2>8, <3>1
    <3>3. Queue(a) /\ Len(a.sent) # 0
      <4>1. Grows(s, a)
        BY <3>2 DEF Extra
      <4>2. Len(a.sent) # 0
        BY <4>1, StillSent
      <4>3. QED
        BY <4>1, <4>2 DEF Grows
    <3>4. k \in Kind \ {"ident"}
      BY <2>1, <2>2, <3>1
    <3>5. b = Late(writebuf_enqueue(a, k)) /\ m \in 0..n
      <4>1. m \in 0..n /\ m # 0
        BY <2>2
      <4>2. QED
        BY <2>6, <3>1, <4>1
    <3>6. Grows(a, b) /\ SameReader(a, b) /\ SameRest(a, b)
      BY <3>3, <3>4, <3>5, EnqueueLate
    <3>7. Extra(s, b)
      BY <3>2, <3>6, ExtraTwice DEF Extra
    <3>8. SameRest(s, b)
      BY <3>2, <3>6 DEF SameRest
    <3>9. QED
      BY <3>1, <3>5, <3>7, <3>8
  <2> HIDE DEF P
  <2>9. n \in P
    <3>1. Inductive(P, n)
      BY <2>7, <2>8 DEF Inductive
    <3>2. n \in 0..n
      BY <2>2
    <3>3. QED
      BY <2>2, <3>1, <3>2, Induct
  <2>10. PICK u : u = f[n]
    OBVIOUS
  <2>11. Extra(s, u) /\ SameRest(s, u)
    BY <2>9, <2>10 DEF P
  <2>12. Queue(u) /\ u \in Ses
    BY <2>11 DEF Extra, Grows, Queue
  <2>13. t \in Ses
    <3>1. << >> \in Seq(Kind \ {"ident"})
      OBVIOUS
    <3>2. QED
      BY <2>5, <2>10, <2>12, <3>1 DEF Ses
  <2>14. SameReader(u, t) /\ SameSender(u, t)
    BY <2>5, <2>10, <2>12 DEF Ses, SameReader, SameSender
  <2>15. Extra(u, t)
    BY <2>12, <2>13, <2>14, Idle
  <2>16. QED
    BY <2>11, <2>15, ExtraTwice
<1>3. QED
  BY <1>1, <1>2

\* checktimeouts sends a KEXINIT, after which no reply can be queued, and a request,
\* which no reply counts.
LEMMA TimeoutsExtra ==
  ASSUME NEW s, Queue(s), Len(s.sent) # 0, NEW t \in checktimeouts(s)
  PROVE  Extra(s, t) /\ (Quiet(s) => Quiet(t))
<1> DEFINE Rekeyed == {s} \cup (IF s.rekeys > 0 /\ s.dataallowed
                                THEN {[send_msg_kexinit(s) EXCEPT !.rekeys = @ - 1]} ELSE {})
           Asked(u) == [encrypt_packet(u, "request") EXCEPT !.reqs = @ - 1]
<1>1. t \in Rekeyed \cup {Asked(u) : u \in {v \in Rekeyed : v.reqs > 0 /\ Len(v.got) >= 2}}
  BY DEF checktimeouts
<1>2. ASSUME NEW a \in Rekeyed PROVE Extra(s, a) /\ (Quiet(s) => Quiet(a))
  <2>1. CASE a = s
    BY <2>1, ExtraRefl
  <2>2. CASE a # s
    <3>1. PICK u : u = send_msg_kexinit(s)
      OBVIOUS
    <3>2. s.rekeys > 0 /\ a = [u EXCEPT !.rekeys = @ - 1]
      BY <1>2, <2>2, <3>1
    <3>3. Extra(s, u) /\ u.dataallowed = FALSE /\ u.rekeys = s.rekeys
      BY <3>1, KexinitExtra
    <3>4. Queue(u) /\ u \in Ses
      BY <3>3 DEF Extra, Grows, Queue
    <3>5. u.rekeys - 1 \in Nat
      <4>1. u.rekeys \in Nat
        BY <3>4 DEF Ses
      <4>2. QED
        BY <3>2, <3>3, <4>1
    <3>6. a \in Ses /\ SameReader(u, a) /\ SameSender(u, a) /\ a.dataallowed = u.dataallowed
      BY <3>2, <3>4, <3>5 DEF Ses, SameReader, SameSender
    <3>7. Extra(u, a)
      BY <3>4, <3>6, Idle
    <3>8. Quiet(a)
      BY <3>3, <3>6 DEF Quiet
    <3>9. QED
      BY <3>3, <3>7, <3>8, ExtraTwice
  <2>3. QED
    BY <2>1, <2>2
<1>3. CASE t \in Rekeyed
  BY <1>2, <1>3
<1>4. CASE t \notin Rekeyed
  <2>1. PICK a \in Rekeyed : a.reqs > 0 /\ t = Asked(a)
    BY <1>1, <1>4
  <2>2. Extra(s, a) /\ (Quiet(s) => Quiet(a))
    BY <1>2, <2>1
  <2>3. Queue(a) /\ Len(a.sent) # 0
    <3>1. Grows(s, a)
      BY <2>2 DEF Extra
    <3>2. Len(a.sent) # 0
      BY <3>1, StillSent
    <3>3. QED
      BY <3>1, <3>2 DEF Grows
  <2>4. PICK u : u = encrypt_packet(a, "request")
    OBVIOUS
  <2>5. "request" \in Kind \ {"ident", "reply"} /\ "request" \in Kind \ {"ident"}
    BY DEF Kind
  <2>6. u \in Ses /\ u.reqs = a.reqs
    BY <2>3, <2>4, <2>5, Encrypt DEF SameRest, Extra, Grows, Queue
  <2>7. t = [u EXCEPT !.reqs = @ - 1]
    BY <2>1, <2>4
  <2>8. u.reqs - 1 \in Nat
    <3>1. u.reqs \in Nat
      BY <2>6 DEF Ses
    <3>2. QED
      BY <2>1, <2>6, <3>1
  <2>9. t \in Ses /\ SameReader(u, t) /\ SameSender(u, t) /\ t.dataallowed = u.dataallowed
    BY <2>6, <2>7, <2>8 DEF Ses, SameReader, SameSender
  <2>10. Extra(a, t) /\ (Quiet(a) => Quiet(t))
    BY <2>3, <2>4, <2>5, <2>9, EncryptExtra
  <2>11. QED
    BY <2>2, <2>10, ExtraTwice
<1>5. QED
  BY <1>3, <1>4

-----------------------------------------------------------------------------
(***************************************************************************)
(* read_packet.                                                            *)
(***************************************************************************)
\* read_packet_init: the length is that of the packet that is expected.
LEMMA InitReads ==
  ASSUME NEW e \in End, NEW s \in Ses, NEW p, Queue(p), p = ses[Peer(e)], NEW w, Reading(s, p, w),
         s.readlen = 0, s.remoteident, Len(s.readbuf) <= BlockSize,
         NEW t, t = read_packet_init(e, s)
  PROVE  /\ t \in Ses /\ t.writequeue = s.writequeue /\ t.writequeue_len = s.writequeue_len
         /\ t.sent = s.sent
         /\ t.late = s.late /\ t.dataallowed = s.dataallowed /\ Reading(t, p, w) /\ t.remoteident
         /\ IF t.readlen = 0 THEN Len(t.readbuf) < BlockSize ELSE Len(t.readbuf) <= t.readlen
<1>1. BlockSize \in Nat \ {0} /\ Len(s.readbuf) \in Nat /\ Len(s.got) \in Nat
  <2>1. s.readbuf \in Seq(Nat \X Nat) /\ s.got \in Seq(Kind)
    BY DEF Ses
  <2>2. BlockSize \in Nat \ {0}
    BY TransportAssumption
  <2>3. QED
    BY <2>1, <2>2
<1>2. CASE Len(s.readbuf) < BlockSize
  <2>1. t = s
    BY <1>2 DEF read_packet_init
  <2>2. QED
    BY <1>2, <2>1
<1>3. CASE Len(s.readbuf) = BlockSize
  <2>1. p \in Ses /\ p.sent \in Seq(Kind) /\ QueueOK(p)
    BY DEF Queue, Ses
  <2>2. PICK g, x : g = Len(s.got) + 1 /\ x = PacketLen(g, p.sent[g])
    OBVIOUS
  <2>3. Len(s.readbuf) # 0
    BY <1>1, <1>3
  <2>4. g \in 1..Len(p.sent) /\ (Len(s.readbuf) <= x => Aligned(s))
    BY <2>1, <2>2, <2>3, BufferAligned
  <2>5. g # 1
    <3>1. Len(s.got) >= 1
      BY DEF Reading
    <3>2. QED
      BY <1>1, <2>2, <3>1
  <2>6. p.sent[g] \in Kind \ {"ident"} /\ g \in Nat
    <3>1. p.sent[g] \in Kind /\ g \in Nat
      BY <2>1, <2>4
    <3>2. p.sent[g] # "ident"
      BY <2>1, <2>4, <2>5 DEF QueueOK
    <3>3. QED
      BY <3>1, <3>2
  <2>7. x \in Nat \ {0} /\ x >= BlockSize
    BY <2>2, <2>6, PacketLens
  <2>8. Aligned(s)
    BY <1>1, <1>3, <2>4, <2>7
  <2>9. ~(Len(s.readbuf) < BlockSize)
    BY <1>1, <1>3
  <2>10. t = [s EXCEPT !.readlen = x]
    BY <2>2, <2>8, <2>9 DEF read_packet_init, Expected
  <2>11. /\ t \in Ses /\ t.readlen = x /\ t.readbuf = s.readbuf /\ t.got = s.got
         /\ t.remoteident = s.remoteident /\ t.writequeue = s.writequeue
         /\ t.writequeue_len = s.writequeue_len /\ t.sent = s.sent
         /\ t.late = s.late /\ t.dataallowed = s.dataallowed
    BY <2>7, <2>10 DEF Ses
  <2>12. Len(s.got) < Len(p.sent)
    <3>1. Len(p.sent) \in Nat
      BY <2>1
    <3>2. QED
      BY <1>1, <2>2, <2>4, <3>1
  <2>13. Reading(t, p, w)
    BY <2>2, <2>11, <2>12 DEF Reading
  <2>14. Len(t.readbuf) <= t.readlen /\ t.readlen # 0
    BY <1>1, <1>3, <2>7, <2>11
  <2>15. QED
    BY <2>11, <2>13, <2>14
<1>4. QED
  BY <1>1, <1>2, <1>3

\* decrypt_packet and process_packet: the MAC is right, and an answer finds space.
LEMMA DecryptReads ==
  ASSUME NEW e \in End, NEW s, Queue(s), Quiet(s), Len(s.sent) # 0,
         NEW p, Queue(p), p = ses[Peer(e)], NEW w, Reading(s, p, w),
         s.readlen # 0, Len(s.readbuf) = s.readlen, NEW t, t = decrypt_packet(e, s)
  PROVE  Grows(s, t) /\ Reading(t, p, w) /\ Unfinished(t)
<1>1. s \in Ses /\ p \in Ses /\ p.sent \in Seq(Kind) /\ Len(s.got) \in Nat /\ s.got \in Seq(Kind)
  <2>1. s \in Ses /\ p \in Ses
    BY DEF Queue
  <2>2. s.got \in Seq(Kind) /\ p.sent \in Seq(Kind)
    BY <2>1 DEF Ses
  <2>3. QED
    BY <2>1, <2>2
<1>2. PICK g, k, u : /\ g = Len(s.got) + 1 /\ k = p.sent[g]
                     /\ u = [s EXCEPT !.got = Append(@, k), !.readbuf = << >>, !.readlen = 0]
  OBVIOUS
<1>3. Len(s.readbuf) = PacketLen(g, k) /\ Len(s.readbuf) # 0 /\ s.remoteident
  BY <1>2 DEF Reading
<1>4. Len(s.readbuf) <= PacketLen(g, k)
  <2>1. s.readlen \in Nat
    BY <1>1 DEF Ses
  <2>2. QED
    BY <1>3, <2>1
<1>5. g \in 1..Len(p.sent) /\ Aligned(s)
  BY <1>1, <1>2, <1>3, <1>4, BufferAligned
<1>6. k \in Kind
  BY <1>1, <1>2, <1>5
<1>7. t = process_packet(s, k)
  BY <1>2, <1>5 DEF decrypt_packet, Expected
<1>8. /\ u \in Ses /\ u.got = Append(s.got, k) /\ u.readbuf = << >> /\ u.readlen = 0
      /\ u.remoteident = s.remoteident /\ u.writequeue = s.writequeue
      /\ u.writequeue_len = s.writequeue_len /\ u.sent = s.sent
      /\ u.late = s.late /\ u.dataallowed = s.dataallowed
  <2>1. Append(s.got, k) \in Seq(Kind) /\ << >> \in Seq(Nat \X Nat)
    BY <1>1, <1>6
  <2>2. QED
    BY <1>1, <1>2, <2>1 DEF Ses
<1>9. Grows(s, u) /\ Quiet(u) /\ Queue(u)
  <2>1. Grows(s, u) /\ Quiet(u)
    BY <1>8, SameQueue
  <2>2. QED
    BY <2>1 DEF Grows
<1>10. Reading(u, p, w) /\ Unfinished(u)
  <2>1. g = Len(s.got) + 1 /\ k = p.sent[g]
    BY <1>2
  <2>2. QED
    BY <1>1, <1>3, <1>5, <1>8, <2>1, WholePacket
<1>11. CASE k = "request"
  <2>1. t = encrypt_packet(u, "reply")
    BY <1>2, <1>7, <1>11 DEF process_packet
  <2>2. "reply" \in Kind \ {"ident"} /\ Len(u.sent) # 0
    BY <1>8 DEF Kind
  <2>3. Grows(u, t) /\ SameReader(u, t)
    BY <1>9, <2>1, <2>2, Encrypt DEF Extra
  <2>4. Grows(s, t)
    BY <1>9, <2>3, GrowsTwice
  <2>5. QED
    BY <1>10, <2>3, <2>4, ReaderSame
<1>11a. CASE k = "kexinit"
  <2>1. PICK x : x = IF u.dataallowed THEN send_msg_kexinit(u) ELSE u
    OBVIOUS
  <2>2. t = [x EXCEPT !.dataallowed = TRUE]
    BY <1>2, <1>7, <1>11a, <2>1 DEF process_packet
  <2>3. Extra(u, x)
    <3>1. CASE u.dataallowed
      BY <1>8, <1>9, <2>1, <3>1, KexinitExtra
    <3>2. CASE ~u.dataallowed
      BY <1>9, <2>1, <3>2, ExtraRefl
    <3>3. QED
      BY <3>1, <3>2
  <2>4. Queue(x) /\ x \in Ses
    BY <2>3 DEF Extra, Grows, Queue
  <2>5. t \in Ses
    BY <2>2, <2>4 DEF Ses
  <2>6. SameReader(x, t) /\ SameSender(x, t)
    BY <2>2, <2>4 DEF Ses, SameReader, SameSender
  <2>7. Extra(x, t)
    BY <2>4, <2>5, <2>6, Idle
  <2>8. Grows(u, t) /\ SameReader(u, t)
    BY <1>9, <2>3, <2>7, ExtraTwice DEF Extra
  <2>9. Grows(s, t)
    BY <1>9, <2>8, GrowsTwice
  <2>10. QED
    BY <1>10, <2>8, <2>9, ReaderSame
<1>12. CASE k = "data" \/ k = "adjust"
  <2>1. t = [u EXCEPT !.held = @ + 1] \/ t = [u EXCEPT !.window = @ + 1]
    BY <1>2, <1>7, <1>12 DEF process_packet
  <2>2. u.held + 1 \in Nat /\ u.window + 1 \in Nat
    <3>1. u.held \in Nat /\ u.window \in Nat
      BY <1>8 DEF Ses
    <3>2. QED
      BY <3>1
  <2>3. /\ t \in Ses /\ SameReader(u, t) /\ t.writequeue = u.writequeue
        /\ t.writequeue_len = u.writequeue_len /\ t.sent = u.sent
        /\ t.late = u.late /\ t.dataallowed = u.dataallowed
    <3>1. CASE t = [u EXCEPT !.held = @ + 1]
      <4>1. t \in Ses
        BY <1>8, <2>2, <3>1 DEF Ses
      <4>2. QED
        BY <1>8, <3>1, <4>1 DEF Ses, SameReader
    <3>2. CASE t = [u EXCEPT !.window = @ + 1]
      <4>1. t \in Ses
        BY <1>8, <2>2, <3>2 DEF Ses
      <4>2. QED
        BY <1>8, <3>2, <4>1 DEF Ses, SameReader
    <3>3. QED
      BY <2>1, <3>1, <3>2
  <2>4. Grows(u, t)
    BY <1>9, <2>3, SameQueue
  <2>5. Grows(s, t)
    BY <1>9, <2>4, GrowsTwice
  <2>6. QED
    BY <1>10, <2>3, <2>5, ReaderSame
<1>13. CASE k \notin {"request", "kexinit", "data", "adjust"}
  <2>1. t = u
    BY <1>2, <1>7, <1>13 DEF process_packet
  <2>2. QED
    BY <1>9, <1>10, <2>1
<1>14. QED
  BY <1>11, <1>11a, <1>12, <1>13

\* A read, between its parts: the length is known or the first block is not complete.
Between(s, p, t, v) ==
    /\ Grows(s, t) /\ Quiet(t) /\ Reading(t, p, v) /\ t.remoteident
    /\ IF t.readlen = 0 THEN Len(t.readbuf) < BlockSize ELSE Len(t.readbuf) <= t.readlen

\* The first part of read_packet, with the length still unknown or known already.
LEMMA FirstsBetween ==
  ASSUME NEW e \in End, NEW s, Queue(s), Quiet(s), s.remoteident, Unfinished(s),
         NEW p, Queue(p), p = ses[Peer(e)], NEW w, Reading(s, p, w),
         NEW q, q \in IF s.readlen # 0 THEN {Result(s, w)}
                      ELSE {Result(read_packet_init(e, x.s), x.w) :
                              x \in ReadSome(Result(s, w), BlockSize - Len(s.readbuf))}
  PROVE  q = Result(q.s, q.w) /\ Between(s, p, q.s, q.w)
<1>1. s \in Ses /\ w \in Seq(Nat \X Nat)
  BY DEF Queue, Reading
<1>2. s.readlen \in Nat /\ Len(s.readbuf) \in Nat /\ BlockSize \in Nat
  BY <1>1, TransportAssumption DEF Ses
<1>3. CASE s.readlen # 0
  <2>1. q = Result(s, w) /\ q.s = s /\ q.w = w
    BY <1>3 DEF Result
  <2>2. Grows(s, s)
    BY <1>1, SameQueue
  <2>3. Len(s.readbuf) <= s.readlen
    BY <1>2, <1>3 DEF Unfinished
  <2>4. QED
    BY <1>3, <2>1, <2>2, <2>3 DEF Between
<1>4. CASE s.readlen = 0
  <2>1. PICK x \in ReadSome(Result(s, w), BlockSize - Len(s.readbuf)) :
           q = Result(read_packet_init(e, x.s), x.w)
    BY <1>4
  <2>2. Len(s.readbuf) < BlockSize
    BY <1>4 DEF Unfinished
  <2>3. BlockSize - Len(s.readbuf) \in Nat
    BY <1>2, <2>2
  <2>4. Moved(s, w, BlockSize - Len(s.readbuf), x.s, x.w)
    BY <1>1, <2>1, <2>3, ReadSomeMoves
  <2>5. PICK u, v, t : u = x.s /\ v = x.w /\ t = read_packet_init(e, x.s)
    OBVIOUS
  <2>6. Reading(u, p, v)
    BY <2>4, <2>5, MovedReads
  <2>7. /\ u \in Ses /\ u.readlen = 0 /\ u.remoteident /\ Len(u.readbuf) <= BlockSize
        /\ u.writequeue = s.writequeue /\ u.writequeue_len = s.writequeue_len /\ u.sent = s.sent
        /\ u.late = s.late /\ u.dataallowed = s.dataallowed
    <3>1. /\ u \in Ses /\ u.readlen = s.readlen /\ u.remoteident = s.remoteident
          /\ u.writequeue = s.writequeue /\ u.writequeue_len = s.writequeue_len /\ u.sent = s.sent
          /\ u.late = s.late /\ u.dataallowed = s.dataallowed
          /\ Len(u.readbuf) <= Len(s.readbuf) + (BlockSize - Len(s.readbuf))
      BY <2>4, <2>5 DEF Moved
    <3>2. Len(u.readbuf) <= BlockSize
      BY <1>2, <3>1
    <3>3. QED
      BY <1>4, <3>1, <3>2
  <2>8. /\ t \in Ses /\ t.writequeue = u.writequeue /\ t.writequeue_len = u.writequeue_len
        /\ t.sent = u.sent
        /\ t.late = u.late /\ t.dataallowed = u.dataallowed /\ Reading(t, p, v) /\ t.remoteident
        /\ IF t.readlen = 0 THEN Len(t.readbuf) < BlockSize ELSE Len(t.readbuf) <= t.readlen
    <3>1. t = read_packet_init(e, u)
      BY <2>5
    <3>2. QED
      BY <2>6, <2>7, <3>1, InitReads, SMTT(60)
  <2>9. Grows(s, t) /\ Quiet(t)
    BY <2>7, <2>8, SameQueue
  <2>10. q = Result(t, v) /\ q.s = t /\ q.w = v
    BY <2>1, <2>5 DEF Result
  <2>11. QED
    BY <2>8, <2>9, <2>10 DEF Between
<1>5. QED
  BY <1>3, <1>4

\* read_packet.
LEMMA PacketReads ==
  ASSUME NEW e \in End, NEW s, Queue(s), Quiet(s), s.remoteident, Unfinished(s), Len(s.sent) # 0,
         NEW p, Queue(p), p = ses[Peer(e)], NEW w, Reading(s, p, w),
         NEW r \in read_packet(e, Result(s, w))
  PROVE  Grows(s, r.s) /\ Reading(r.s, p, r.w) /\ Unfinished(r.s)
<1> DEFINE Firsts == IF s.readlen # 0 THEN {Result(s, w)}
                     ELSE {Result(read_packet_init(e, x.s), x.w) :
                              x \in ReadSome(Result(s, w), BlockSize - Len(s.readbuf))}
           Whole(q) == IF Len(q.s.readbuf) = q.s.readlen
                       THEN Result(decrypt_packet(e, q.s), q.w) ELSE q
<1>1. Result(s, w).s = s /\ Result(s, w).w = w
  BY DEF Result
<1>2. read_packet(e, Result(s, w)) =
         UNION {IF q.s.readlen = 0 THEN {q}
                ELSE {Whole(x) : x \in ReadSome(q, q.s.readlen - Len(q.s.readbuf))} : q \in Firsts}
  BY <1>1 DEF read_packet
<1>3. PICK q \in Firsts :
         r \in IF q.s.readlen = 0 THEN {q}
               ELSE {Whole(x) : x \in ReadSome(q, q.s.readlen - Len(q.s.readbuf))}
  BY <1>2
<1>4. q = Result(q.s, q.w) /\ Between(s, p, q.s, q.w)
  BY <1>3, FirstsBetween
<1>5. PICK t, v : t = q.s /\ v = q.w
  OBVIOUS
<1>6. /\ Grows(s, t) /\ Quiet(t) /\ Reading(t, p, v) /\ t.remoteident
      /\ IF t.readlen = 0 THEN Len(t.readbuf) < BlockSize ELSE Len(t.readbuf) <= t.readlen
  BY <1>4, <1>5 DEF Between
<1>7. Queue(t) /\ t \in Ses /\ t.readlen \in Nat /\ Len(t.readbuf) \in Nat
  <2>1. Queue(t) /\ t \in Ses
    BY <1>6 DEF Grows, Queue
  <2>2. QED
    BY <2>1 DEF Ses
<1>8. CASE t.readlen = 0
  <2>1. r = q
    BY <1>3, <1>5, <1>8
  <2>2. Unfinished(t)
    BY <1>6, <1>8 DEF Unfinished
  <2>3. QED
    BY <1>5, <1>6, <2>1, <2>2
<1>9. CASE t.readlen # 0
  <2>1. PICK x \in ReadSome(q, t.readlen - Len(t.readbuf)) : r = Whole(x)
    BY <1>3, <1>5, <1>9
  <2>2. t.readlen - Len(t.readbuf) \in Nat
    BY <1>6, <1>7, <1>9
  <2>3. v \in Seq(Nat \X Nat) /\ q = Result(t, v)
    BY <1>4, <1>5, <1>6 DEF Reading
  <2>4. Moved(t, v, t.readlen - Len(t.readbuf), x.s, x.w)
    BY <1>7, <2>1, <2>2, <2>3, ReadSomeMoves
  <2>5. PICK u, y : u = x.s /\ y = x.w
    OBVIOUS
  <2>6. Reading(u, p, y)
    BY <1>6, <2>4, <2>5, MovedReads
  <2>7. /\ u \in Ses /\ u.readlen = t.readlen /\ Len(u.readbuf) <= t.readlen
        /\ u.writequeue = t.writequeue /\ u.writequeue_len = t.writequeue_len /\ u.sent = t.sent
        /\ u.late = t.late /\ u.dataallowed = t.dataallowed
    <3>1. /\ u \in Ses /\ u.readlen = t.readlen
          /\ u.writequeue = t.writequeue /\ u.writequeue_len = t.writequeue_len /\ u.sent = t.sent
          /\ u.late = t.late /\ u.dataallowed = t.dataallowed
          /\ Len(u.readbuf) <= Len(t.readbuf) + (t.readlen - Len(t.readbuf))
      BY <2>4, <2>5 DEF Moved
    <3>2. QED
      BY <1>7, <3>1
  <2>8. Grows(t, u) /\ Quiet(u) /\ Queue(u)
    <3>1. Grows(t, u) /\ Quiet(u)
      BY <1>6, <1>7, <2>7, SameQueue
    <3>2. QED
      BY <3>1 DEF Grows
  <2>9. Grows(s, u)
    BY <1>6, <2>8, GrowsTwice
  <2>10. Len(u.sent) # 0
    BY <2>9, StillSent
  <2>11. CASE Len(u.readbuf) = u.readlen
    <3>1. PICK d : d = decrypt_packet(e, u)
      OBVIOUS
    <3>2. Grows(u, d) /\ Reading(d, p, y) /\ Unfinished(d)
      BY <1>9, <2>6, <2>7, <2>8, <2>10, <2>11, <3>1, DecryptReads
    <3>3. r.s = d /\ r.w = y
      BY <2>1, <2>5, <2>11, <3>1 DEF Result
    <3>4. Grows(s, d)
      BY <2>9, <3>2, GrowsTwice
    <3>5. QED
      BY <3>2, <3>3, <3>4
  <2>12. CASE Len(u.readbuf) # u.readlen
    <3>1. r.s = u /\ r.w = y
      BY <2>1, <2>5, <2>12
    <3>2. Len(u.readbuf) < u.readlen
      <4>1. Len(u.readbuf) \in Nat
        BY <2>7 DEF Ses
      <4>2. QED
        BY <1>7, <2>7, <2>12, <4>1
    <3>3. Unfinished(u)
      BY <1>9, <2>7, <3>2 DEF Unfinished
    <3>4. QED
      BY <2>6, <2>9, <3>1, <3>3
  <2>13. QED
    BY <2>11, <2>12
<1>10. QED
  BY <1>8, <1>9

-----------------------------------------------------------------------------
(***************************************************************************)
(* The loop.                                                               *)
(***************************************************************************)
\* The inductive invariant.
IInv ==
    /\ ses \in [End -> Ses] /\ wire \in [End -> Seq(Nat \X Nat)]
    /\ \A e \in End :
          /\ Queue(ses[e]) /\ Len(ses[e].sent) # 0 /\ Unfinished(ses[e])
          /\ Reading(ses[e], ses[Peer(e)], wire[e])

\* There are two ends, each the other's peer.
LEMMA Peers ==
  /\ \A e \in End : Peer(e) \in End /\ Peer(e) # e /\ Peer(Peer(e)) = e
  /\ \A e \in End, f \in End : f = e \/ f = Peer(e)
  BY DEF End, Peer

\* channelio sends data, a window adjustment, both or nothing.
LEMMA ChannelsExtra ==
  ASSUME NEW s, Queue(s), Len(s.sent) # 0, NEW readable, NEW t \in channelio(s, readable)
  PROVE  Extra(s, t)
<1> DEFINE Out == {s} \cup (IF readable /\ s.data > 0 /\ s.window > 0 THEN {Data(s)} ELSE {})
<1>1. t \in Out \cup {Adjusted(u) : u \in {v \in Out : v.held > 0}}
  BY DEF channelio
<1>2. "adjust" \in Kind \ {"ident", "reply"} /\ "data" \in Kind \ {"ident", "reply"}
  BY DEF Kind
<1>3. ASSUME NEW a \in Out PROVE Extra(s, a)
  <2>1. CASE a = s
    BY <2>1, ExtraRefl
  <2>2. CASE a # s
    <3>1. PICK u : u = encrypt_packet(s, "data")
      OBVIOUS
    <3>2. s.data > 0 /\ s.window > 0 /\ a = [u EXCEPT !.data = @ - 1, !.window = @ - 1]
      BY <1>3, <2>2, <3>1 DEF Data
    <3>3. u \in Ses /\ u.data = s.data /\ u.window = s.window
      BY <1>2, <3>1, Encrypt DEF SameRest, Extra, Grows, Queue
    <3>4. u.data - 1 \in Nat /\ u.window - 1 \in Nat
      <4>1. u.data \in Nat /\ u.window \in Nat
        BY <3>3 DEF Ses
      <4>2. QED
        BY <3>2, <3>3, <4>1
    <3>5. a \in Ses /\ SameReader(u, a) /\ SameSender(u, a)
      BY <3>2, <3>3, <3>4 DEF Ses, SameReader, SameSender
    <3>6. QED
      BY <1>2, <3>1, <3>5, EncryptExtra
  <2>3. QED
    BY <2>1, <2>2
<1>4. CASE t \in Out
  BY <1>3, <1>4
<1>5. CASE t \notin Out
  <2>1. PICK a \in Out : a.held > 0 /\ t = Adjusted(a)
    BY <1>1, <1>5
  <2>2. Extra(s, a)
    BY <1>3, <2>1
  <2>3. Queue(a) /\ Len(a.sent) # 0
    <3>1. Grows(s, a)
      BY <2>2 DEF Extra
    <3>2. Len(a.sent) # 0
      BY <3>1, StillSent
    <3>3. QED
      BY <3>1, <3>2 DEF Grows
  <2>4. PICK u : u = encrypt_packet(a, "adjust")
    OBVIOUS
  <2>5. u \in Ses /\ u.held = a.held
    BY <1>2, <2>3, <2>4, Encrypt DEF SameRest, Extra, Grows, Queue
  <2>6. t = [u EXCEPT !.held = @ - 1]
    BY <2>1, <2>4 DEF Adjusted
  <2>7. u.held - 1 \in Nat
    <3>1. u.held \in Nat
      BY <2>5 DEF Ses
    <3>2. QED
      BY <2>1, <2>5, <3>1
  <2>8. t \in Ses /\ SameReader(u, t) /\ SameSender(u, t)
    BY <2>5, <2>6, <2>7 DEF Ses, SameReader, SameSender
  <2>9. Extra(a, t)
    BY <1>2, <2>3, <2>4, <2>8, EncryptExtra
  <2>10. QED
    BY <2>2, <2>9, ExtraTwice
<1>6. QED
  BY <1>4, <1>5

\* writev takes no more than is queued.
LEMMA OfferBounded ==
  ASSUME NEW s, Queue(s), NEW x \in Int,
         NEW w \in 0..Min({packet_queue_to_iovec(s.writequeue), x})
  PROVE  w \in 0..Remaining(s.writequeue)[Len(s.writequeue)]
<1>1. PICK q, n : q = s.writequeue /\ n = Len(q)
  OBVIOUS
<1>2. q \in Seq(Pack) /\ \A i \in 1..Len(q) : q[i].pos < q[i].len
  BY <1>1 DEF Queue, QueueOK, Cut, Ses
<1>3. n \in Nat /\ IovCount \in Nat
  BY <1>1, <1>2, TransportAssumption
<1>4. /\ Left(q) \in Seq(Nat) /\ Len(Left(q)) = n /\ Remaining(q) = Sums(Left(q))
      /\ \A i \in 0..n : Remaining(q)[i] \in Nat
  BY <1>1, <1>2, QueueSums
<1>5. PICK i : i = Min({IovCount, n})
  OBVIOUS
<1>6. i \in 0..n
  <2>1. {IovCount, n} \subseteq Nat /\ {IovCount, n} # {}
    BY <1>3
  <2>2. i \in {IovCount, n} /\ i <= n
    BY <1>5, <2>1, MinNat
  <2>3. QED
    BY <1>3, <2>2
<1>7. n \in i..n /\ n \in 0..n
  BY <1>3, <1>6
<1>8. Remaining(q)[i] <= Remaining(q)[n] /\ Remaining(q)[i] \in Nat /\ Remaining(q)[n] \in Nat
  <2>1. Sums(Left(q))[i] <= Sums(Left(q))[n]
    BY <1>4, <1>6, <1>7, SumsGrow
  <2>2. QED
    BY <1>4, <1>6, <1>7, <2>1
<1>9. PICK y, m : y = packet_queue_to_iovec(q) /\ m = Min({y, x})
  OBVIOUS
<1>10. y = Remaining(q)[i]
  BY <1>1, <1>5, <1>9 DEF packet_queue_to_iovec
<1>11. m \in Int /\ m <= y
  <2>1. y \in Int
    BY <1>8, <1>10
  <2>2. QED
    BY <1>9, <2>1, MinPair
<1>12. w \in 0..m
  BY <1>1, <1>9
<1>13. w \in 0..Remaining(q)[n]
  BY <1>8, <1>10, <1>11, <1>12
<1>14. QED
  BY <1>1, <1>13

\* What an end's step has to keep.
Stepped(e, t, v, u) ==
    /\ Queue(t) /\ Len(t.sent) # 0 /\ Unfinished(t)
    /\ Reading(t, ses[Peer(e)], v) /\ Reading(ses[Peer(e)], t, u)

\* A step of one end keeps the invariant of both directions if its new session does.
LEMMA StepKeeps ==
  ASSUME IInv, NEW e \in End, NEW t, NEW v, NEW u, Stepped(e, t, v, u),
         ses' = [ses EXCEPT ![e] = t], wire' \in [End -> Seq(Nat \X Nat)],
         wire'[e] = v, wire'[Peer(e)] = u
  PROVE  IInv'
<1>1. ses \in [End -> Ses] /\ t \in Ses
  BY DEF IInv, Stepped, Queue
<1>2. Peer(e) \in End /\ Peer(e) # e /\ Peer(Peer(e)) = e
  BY Peers
<1>3. ses' \in [End -> Ses] /\ ses'[e] = t /\ ses'[Peer(e)] = ses[Peer(e)]
  BY <1>1, <1>2
<1>4. ASSUME NEW f \in End
      PROVE  /\ Queue(ses'[f]) /\ Len(ses'[f].sent) # 0 /\ Unfinished(ses'[f])
             /\ Reading(ses'[f], ses'[Peer(f)], wire'[f])
  <2>1. CASE f = e
    BY <1>3, <2>1 DEF Stepped
  <2>2. CASE f = Peer(e)
    <3>1. Queue(ses[f]) /\ Len(ses[f].sent) # 0 /\ Unfinished(ses[f])
      BY DEF IInv
    <3>2. ses'[f] = ses[f] /\ ses'[Peer(f)] = t /\ wire'[f] = u /\ Reading(ses[f], t, u)
      BY <1>2, <1>3, <2>2 DEF Stepped
    <3>3. QED
      BY <3>1, <3>2
  <2>3. QED
    BY <2>1, <2>2, Peers
<1>5. QED
  BY <1>3, <1>4 DEF IInv

\* read_session_identification takes the identification line and nothing of what follows.
LEMMA IdentificationKeeps ==
  ASSUME IInv, NEW e \in End, ReadIdentification(e)
  PROVE  IInv'
<1>1. PICK s, p, w : s = ses[e] /\ p = ses[Peer(e)] /\ w = wire[e]
  OBVIOUS
<1>2. Peer(e) \in End /\ Peer(e) # e /\ Peer(Peer(e)) = e
  BY Peers
<1>3. /\ Queue(s) /\ Len(s.sent) # 0 /\ Unfinished(s) /\ Reading(s, p, w)
      /\ Queue(p) /\ Reading(p, s, wire[Peer(e)])
  BY <1>1, <1>2 DEF IInv
<1>4. s \in Ses /\ p \in Ses /\ QueueOK(p) /\ w \in Seq(Nat \X Nat) /\ wire \in [End -> Seq(Nat \X Nat)]
  BY <1>1, <1>3 DEF Queue, IInv
<1>5. ~s.remoteident
  BY <1>1 DEF ReadIdentification
<1>6. PICK r \in ReadSome(Result(s, w), IdentLen - Len(s.readbuf)) :
        /\ wire' = [wire EXCEPT ![e] = r.w]
        /\ ses' = [ses EXCEPT ![e] =
              IF Len(r.s.readbuf) < IdentLen THEN r.s
              ELSE [r.s EXCEPT !.remoteident = TRUE, !.readbuf = << >>, !.got = Append(@, "ident")]]
  BY <1>1 DEF ReadIdentification
<1>7. s.readlen = 0
  BY <1>3, <1>5 DEF Reading
<1>8. IdentLen \in Nat \ {0} /\ Len(s.readbuf) \in Nat /\ Len(s.readbuf) < IdentLen
  <2>1. IdentLen \in Nat \ {0}
    BY TransportAssumption
  <2>2. Len(s.readbuf) \in Nat
    BY <1>4 DEF Ses
  <2>3. QED
    BY <1>3, <1>5, <1>7, <2>1, <2>2 DEF Unfinished
<1>9. IdentLen - Len(s.readbuf) \in Nat
  BY <1>8
<1>10. Moved(s, w, IdentLen - Len(s.readbuf), r.s, r.w)
  BY <1>4, <1>6, <1>9, ReadSomeMoves
<1>11. PICK u, v : u = r.s /\ v = r.w
  OBVIOUS
<1>12. Reading(u, p, v)
  BY <1>3, <1>10, <1>11, MovedReads
<1>13. /\ u \in Ses /\ u.readlen = 0 /\ u.remoteident = s.remoteident /\ u.got = s.got
       /\ u.writequeue = s.writequeue /\ u.writequeue_len = s.writequeue_len /\ u.sent = s.sent
       /\ u.late = s.late /\ u.dataallowed = s.dataallowed
       /\ Len(u.readbuf) <= IdentLen /\ v \in Seq(Nat \X Nat) /\ Len(u.readbuf) \in Nat
  <2>1. /\ u \in Ses /\ u.readlen = s.readlen /\ u.remoteident = s.remoteident /\ u.got = s.got
        /\ u.writequeue = s.writequeue /\ u.writequeue_len = s.writequeue_len /\ u.sent = s.sent
        /\ u.late = s.late /\ u.dataallowed = s.dataallowed
        /\ Len(u.readbuf) <= Len(s.readbuf) + (IdentLen - Len(s.readbuf))
        /\ v \in Seq(Nat \X Nat)
    BY <1>10, <1>11 DEF Moved
  <2>2. Len(u.readbuf) \in Nat
    BY <2>1 DEF Ses
  <2>3. Len(u.readbuf) <= IdentLen
    BY <1>8, <2>1, <2>2
  <2>4. QED
    BY <1>7, <2>1, <2>2, <2>3
<1>14. PICK t : t = IF Len(u.readbuf) < IdentLen THEN u
                    ELSE [u EXCEPT !.remoteident = TRUE, !.readbuf = << >>, !.got = Append(@, "ident")]
  OBVIOUS
<1>15. /\ t \in Ses /\ Reading(t, p, v) /\ Unfinished(t)
       /\ t.writequeue = s.writequeue /\ t.writequeue_len = s.writequeue_len /\ t.sent = s.sent
       /\ t.late = s.late /\ t.dataallowed = s.dataallowed
  <2>1. CASE Len(u.readbuf) < IdentLen
    <3>1. t = u
      BY <1>14, <2>1
    <3>2. Unfinished(t)
      BY <1>5, <1>13, <2>1, <3>1 DEF Unfinished
    <3>3. QED
      BY <1>12, <1>13, <3>1, <3>2
  <2>2. CASE Len(u.readbuf) = IdentLen
    <3>1. ~(Len(u.readbuf) < IdentLen)
      BY <1>8, <2>2
    <3>2. t = [u EXCEPT !.remoteident = TRUE, !.readbuf = << >>, !.got = Append(@, "ident")]
      BY <1>14, <3>1
    <3>3. Append(u.got, "ident") \in Seq(Kind) /\ << >> \in Seq(Nat \X Nat) /\ Len(u.got) \in Nat
      <4>1. u.got \in Seq(Kind) /\ "ident" \in Kind
        BY <1>13 DEF Ses, Kind
      <4>2. QED
        BY <4>1
    <3>4. /\ t \in Ses /\ t.remoteident /\ t.readbuf = << >> /\ t.got = Append(u.got, "ident")
          /\ t.readlen = 0 /\ t.writequeue = u.writequeue /\ t.writequeue_len = u.writequeue_len
          /\ t.sent = u.sent
          /\ t.late = u.late /\ t.dataallowed = u.dataallowed
      BY <1>13, <3>2, <3>3 DEF Ses
    <3>5. Len(u.got) = 0 /\ Len(u.got) + 1 = 1
      <4>1. ~(Len(u.got) >= 1)
        BY <1>5, <1>12, <1>13 DEF Reading
      <4>2. QED
        BY <3>3, <4>1
    <3>6. Len(u.readbuf) # 0
      BY <1>8, <2>2
    <3>7. 1 \in 1..Len(p.sent)
      <4>1. Len(u.got) + 1 \in 1..Len(p.sent)
        BY <1>4, <1>12, <1>13, <3>6, BufferAligned
      <4>2. QED
        BY <3>5, <4>1
    <3>8. p.sent[1] = "ident"
      BY <1>4, <3>7 DEF QueueOK
    <3>9. PacketLen(1, "ident") = IdentLen
      BY PacketLens
    <3>10. /\ Len(u.got) + 1 \in 1..Len(p.sent)
           /\ Len(u.readbuf) = PacketLen(Len(u.got) + 1, p.sent[Len(u.got) + 1])
           /\ t.got = Append(u.got, p.sent[Len(u.got) + 1])
      BY <2>2, <3>4, <3>5, <3>7, <3>8, <3>9
    <3>11. Reading(t, p, v) /\ Unfinished(t)
      BY <1>4, <1>12, <1>13, <3>4, <3>10, WholePacket
    <3>12. QED
      BY <1>13, <3>4, <3>11
  <2>3. QED
    BY <1>8, <1>13, <2>1, <2>2
<1>16. Grows(s, t) /\ Queue(t)
  <2>1. Grows(s, t)
    BY <1>3, <1>15, SameQueue
  <2>2. QED
    BY <2>1 DEF Grows
<1>17. Reading(p, t, wire[Peer(e)])
  BY <1>3, <1>4, <1>16, SenderGrows
<1>18. Stepped(e, t, v, wire[Peer(e)])
  BY <1>1, <1>3, <1>15, <1>16, <1>17 DEF Stepped
<1>19. ses' = [ses EXCEPT ![e] = t]
  BY <1>6, <1>11, <1>14
<1>20. /\ wire' \in [End -> Seq(Nat \X Nat)] /\ wire'[e] = v /\ wire'[Peer(e)] = wire[Peer(e)]
  BY <1>2, <1>4, <1>6, <1>11, <1>13
<1>21. QED
  BY <1>18, <1>19, <1>20, StepKeeps

\* The body of Pass.
Passes(e, s, out, space, readable) ==
    \E s1 \in checktimeouts(s) : \E r \in reads_socket(e, s1, space) :
    \E s2 \in channelio(maybe_flush_reply_queue(r.s), readable) :
    \E w \in 0..Min({packet_queue_to_iovec(s2.writequeue), SockCap - Len(out)}) :
       /\ ses' = [ses EXCEPT ![e] = write_packet(s2, w)]
       /\ wire' = [wire EXCEPT ![e] = r.w, ![Peer(e)] =
             @ \o [k \in 1..w |-> OfferedByte(s2.writequeue, k)]]

\* A pass of session_loop: a timer, a read, the channels and a write.
LEMMA PassKeeps ==
  ASSUME IInv, NEW e \in End, Pass(e)
  PROVE  IInv'
<1>1. PICK s, p, in, out, space, readable :
        /\ s = ses[e] /\ p = ses[Peer(e)] /\ in = wire[e] /\ out = wire[Peer(e)]
        /\ space = writequeue_has_space(s) /\ readable = reads_channel(s)
  OBVIOUS
<1>2. Peer(e) \in End /\ Peer(e) # e /\ Peer(Peer(e)) = e
  BY Peers
<1>3. /\ Queue(s) /\ Len(s.sent) # 0 /\ Unfinished(s) /\ Reading(s, p, in)
      /\ Queue(p) /\ Reading(p, s, out)
  BY <1>1, <1>2 DEF IInv
<1>4. /\ s \in Ses /\ p \in Ses /\ in \in Seq(Nat \X Nat) /\ out \in Seq(Nat \X Nat)
      /\ wire \in [End -> Seq(Nat \X Nat)]
  BY <1>1, <1>2, <1>3 DEF Queue, IInv
<1>5. PICK s1 \in checktimeouts(s) : \E r \in reads_socket(e, s1, space) :
        \E s2 \in channelio(maybe_flush_reply_queue(r.s), readable) :
        \E w \in 0..Min({packet_queue_to_iovec(s2.writequeue), SockCap - Len(out)}) :
          /\ ses' = [ses EXCEPT ![e] = write_packet(s2, w)]
          /\ wire' = [wire EXCEPT ![e] = r.w, ![Peer(e)] =
                @ \o [k \in 1..w |-> OfferedByte(s2.writequeue, k)]]
  <2>1. Passes(e, ses[e], wire[Peer(e)], writequeue_has_space(ses[e]), reads_channel(ses[e]))
    BY Zenon DEF Pass, Passes
  <2>2. Passes(e, s, out, space, readable)
    BY <1>1, <2>1, Zenon
  <2>3. QED
    BY <2>2, Zenon DEF Passes
<1>5a. PICK r \in reads_socket(e, s1, space) :
        \E s2 \in channelio(maybe_flush_reply_queue(r.s), readable) :
        \E w \in 0..Min({packet_queue_to_iovec(s2.writequeue), SockCap - Len(out)}) :
          /\ ses' = [ses EXCEPT ![e] = write_packet(s2, w)]
          /\ wire' = [wire EXCEPT ![e] = r.w, ![Peer(e)] =
                @ \o [k \in 1..w |-> OfferedByte(s2.writequeue, k)]]
  BY <1>5
<1>5b. PICK s2 \in channelio(maybe_flush_reply_queue(r.s), readable) :
        \E w \in 0..Min({packet_queue_to_iovec(s2.writequeue), SockCap - Len(out)}) :
          /\ ses' = [ses EXCEPT ![e] = write_packet(s2, w)]
          /\ wire' = [wire EXCEPT ![e] = r.w, ![Peer(e)] =
                @ \o [k \in 1..w |-> OfferedByte(s2.writequeue, k)]]
  BY <1>5a
<1>6. PICK w \in 0..Min({packet_queue_to_iovec(s2.writequeue), SockCap - Len(out)}) :
          /\ ses' = [ses EXCEPT ![e] = write_packet(s2, w)]
          /\ wire' = [wire EXCEPT ![e] = r.w, ![Peer(e)] =
                @ \o [k \in 1..w |-> OfferedByte(s2.writequeue, k)]]
  BY <1>5b
<1>7. Extra(s, s1) /\ (Quiet(s) => Quiet(s1))
  BY <1>3, <1>5, TimeoutsExtra
<1>8. Grows(s, s1) /\ Queue(s1) /\ Len(s1.sent) # 0 /\ Reading(s1, p, in) /\ Unfinished(s1)
  <2>1. Grows(s, s1) /\ SameReader(s, s1)
    BY <1>7 DEF Extra
  <2>2. Len(s1.sent) # 0
    BY <1>3, <2>1, StillSent
  <2>3. Reading(s1, p, in) /\ Unfinished(s1)
    BY <1>3, <2>1, ReaderSame
  <2>4. QED
    BY <2>1, <2>2, <2>3 DEF Grows
<1>9. Grows(s1, r.s) /\ Reading(r.s, p, r.w) /\ Unfinished(r.s)
  <2>1. CASE space /\ s1.remoteident
    <3>1. r \in read_packet(e, Result(s1, in))
      BY <1>1, <1>5a, <2>1 DEF reads_socket
    <3>2. Quiet(s1)
      BY <1>1, <1>3, <1>7, <2>1, SpaceQuiet
    <3>3. QED
      BY <1>1, <1>3, <1>8, <2>1, <3>1, <3>2, PacketReads
  <2>2. CASE ~(space /\ s1.remoteident)
    <3>1. r = Result(s1, in)
      BY <1>1, <1>5a, <2>2 DEF reads_socket
    <3>2. r.s = s1 /\ r.w = in
      BY <3>1 DEF Result
    <3>3. Grows(s1, s1)
      BY <1>8, ExtraRefl DEF Extra
    <3>4. QED
      BY <1>8, <3>2, <3>3
  <2>3. QED
    BY <2>1, <2>2
<1>10. PICK sr, v : sr = r.s /\ v = r.w
  OBVIOUS
<1>11. Queue(sr) /\ Len(sr.sent) # 0 /\ Grows(s1, sr) /\ Reading(sr, p, v) /\ Unfinished(sr)
  <2>1. Grows(s1, sr) /\ Reading(sr, p, v) /\ Unfinished(sr)
    BY <1>9, <1>10
  <2>2. Len(sr.sent) # 0
    BY <1>8, <2>1, StillSent
  <2>3. QED
    BY <2>1, <2>2 DEF Grows
<1>12. Extra(sr, s2)
  <2>1. PICK sf : sf = maybe_flush_reply_queue(sr)
    OBVIOUS
  <2>2. Extra(sr, sf)
    BY <1>11, <2>1, FlushExtra
  <2>3. Queue(sf) /\ Len(sf.sent) # 0
    <3>1. Grows(sr, sf)
      BY <2>2 DEF Extra
    <3>2. Len(sf.sent) # 0
      BY <1>11, <3>1, StillSent
    <3>3. QED
      BY <3>1, <3>2 DEF Grows
  <2>4. s2 \in channelio(sf, readable)
    BY <1>5b, <1>10, <2>1
  <2>5. Extra(sf, s2)
    BY <2>3, <2>4, ChannelsExtra
  <2>6. QED
    BY <1>11, <2>2, <2>5, ExtraTwice
<1>13. Grows(sr, s2) /\ Queue(s2) /\ Len(s2.sent) # 0 /\ Reading(s2, p, v) /\ Unfinished(s2)
  <2>1. Grows(sr, s2) /\ SameReader(sr, s2)
    BY <1>12 DEF Extra
  <2>2. Len(s2.sent) # 0
    BY <1>11, <2>1, StillSent
  <2>3. Reading(s2, p, v) /\ Unfinished(s2)
    BY <1>11, <2>1, ReaderSame
  <2>4. QED
    BY <2>1, <2>2, <2>3 DEF Grows
<1>14. Reading(p, s2, out)
  <2>1. Grows(s, sr)
    BY <1>3, <1>8, <1>11, GrowsTwice
  <2>2. Grows(s, s2)
    BY <1>3, <1>13, <2>1, GrowsTwice
  <2>3. QED
    BY <1>3, <1>4, <2>2, SenderGrows
<1>15. w \in 0..Remaining(s2.writequeue)[Len(s2.writequeue)]
  <2>1. SockCap - Len(out) \in Int
    <3>1. SockCap \in Nat /\ Len(out) \in Nat
      BY <1>4, TransportAssumption
    <3>2. QED
      BY <3>1
  <2>2. QED
    BY <1>6, <1>13, <2>1, OfferBounded
<1>16. PICK t, b : t = write_packet(s2, w) /\ b = [k \in 1..w |-> OfferedByte(s2.writequeue, k)]
  OBVIOUS
<1>17. /\ Queue(t) /\ SameReader(s2, t) /\ t.sent = s2.sent
       /\ Linked(s2.sent, b, NextByte(s2), NextByte(t))
  BY <1>13, <1>15, <1>16, WriteQueue
<1>18. Reading(p, t, out \o b)
  BY <1>4, <1>14, <1>17, SenderWrites
<1>19. Reading(t, p, v) /\ Unfinished(t)
  BY <1>13, <1>17, ReaderSame
<1>20. Stepped(e, t, v, out \o b)
  BY <1>1, <1>13, <1>17, <1>18, <1>19 DEF Stepped
<1>21. ses' = [ses EXCEPT ![e] = t] /\ wire' = [wire EXCEPT ![e] = v, ![Peer(e)] = @ \o b]
  BY <1>6, <1>10, <1>16
<1>22. v \in Seq(Nat \X Nat) /\ out \o b \in Seq(Nat \X Nat)
  BY <1>18, <1>19 DEF Reading
<1>23. wire' \in [End -> Seq(Nat \X Nat)] /\ wire'[e] = v /\ wire'[Peer(e)] = out \o b
  BY <1>1, <1>2, <1>4, <1>21, <1>22
<1>24. QED
  BY <1>20, <1>21, <1>23, StepKeeps

\* send_session_identification and send_msg_kexinit.
LEMMA InitKeeps ==
  ASSUME Init
  PROVE  IInv
<1>1. ASSUME NEW e \in End
      PROVE  /\ Queue(NewSession(e)) /\ Len(NewSession(e).sent) # 0
             /\ NextByte(NewSession(e)) = <<1, 1>>
             /\ NewSession(e).readbuf = << >> /\ NewSession(e).readlen = 0
             /\ NewSession(e).remoteident = FALSE /\ NewSession(e).got = << >>
  <2>1. PICK z, a, b :
          /\ z = [writequeue |-> << >>, writequeue_len |-> 0, sent |-> << >>,
                  dataallowed |-> TRUE, reply_queue |-> << >>, late |-> {},
                  readbuf |-> << >>, readlen |-> 0, remoteident |-> FALSE, got |-> << >>,
                  window |-> Window, held |-> 0, data |-> Work[e].data, reqs |-> Work[e].reqs,
                  rekeys |-> Work[e].rekeys, problem |-> "no"]
          /\ a = writebuf_enqueue(z, "ident") /\ b = send_msg_kexinit(a)
    OBVIOUS
  <2>2. Window \in Nat /\ Work[e].data \in Nat /\ Work[e].reqs \in Nat
        /\ Work[e].rekeys \in Nat
    <3>1. Window \in Nat /\ Work[e] \in [data : Nat, reqs : Nat, rekeys : Nat]
      BY TransportAssumption
    <3>2. QED
      BY <3>1
  <2>3. /\ << >> \in Seq(Pack) /\ << >> \in Seq(Kind) /\ << >> \in Seq(Nat \X Nat)
        /\ << >> \in Seq(Kind \ {"ident"})
    OBVIOUS
  <2>4. z \in Ses
    BY <2>1, <2>2, <2>3 DEF Ses
  <2>5. /\ z.writequeue = << >> /\ z.writequeue_len = 0 /\ z.sent = << >> /\ z.readbuf = << >>
        /\ z.readlen = 0 /\ z.remoteident = FALSE /\ z.got = << >>
    BY <2>1
  <2>6. Remaining(<< >>)[0] = 0
    <3>1. << >> \in Seq(Pack) /\ \A i \in 1..Len(<< >>) : << >>[i].pos < << >>[i].len
      OBVIOUS
    <3>2. QED
      BY <3>1, QueueSums
  <2>7. QueueOK(z)
    BY <2>5, <2>6 DEF QueueOK, Numbered, Cut
  <2>8. Bounded(z)
    BY <2>5 DEF Bounded
  <2>9. Queue(z) /\ Len(z.sent) = 0 /\ NextByte(z) = <<1, 1>>
    BY <2>4, <2>5, <2>7, <2>8 DEF Queue, NextByte
  <2>10. "ident" \in Kind /\ "kexinit" \in Kind
    BY DEF Kind
  <2>11. Grows(z, a) /\ SameReader(z, a) /\ a.sent = Append(z.sent, "ident")
    BY <2>1, <2>9, <2>10, Enqueue
  <2>12. Queue(a) /\ Len(a.sent) # 0 /\ NextByte(a) = <<1, 1>>
    <3>1. Queue(a) /\ NextByte(a) = <<1, 1>>
      BY <2>9, <2>11 DEF Grows
    <3>2. a.sent = Append(<< >>, "ident")
      BY <2>5, <2>11
    <3>3. QED
      BY <3>1, <3>2
  <2>13. Grows(a, b) /\ SameReader(a, b)
    BY <2>1, <2>12, KexinitExtra DEF Extra
  <2>14. Queue(b) /\ NextByte(b) = <<1, 1>> /\ Len(b.sent) # 0
    <3>1. Len(b.sent) # 0
      BY <2>12, <2>13, StillSent
    <3>2. QED
      BY <2>12, <2>13, <3>1 DEF Grows
  <2>15. b = NewSession(e)
    BY <2>1 DEF NewSession
  <2>16. b.readbuf = << >> /\ b.readlen = 0 /\ b.remoteident = FALSE /\ b.got = << >>
    BY <2>5, <2>11, <2>13 DEF SameReader
  <2>17. QED
    BY <2>14, <2>15, <2>16
<1>2. ASSUME NEW e \in End
      PROVE  /\ Queue(ses[e]) /\ Len(ses[e].sent) # 0 /\ NextByte(ses[e]) = <<1, 1>>
             /\ ses[e].readbuf = << >> /\ ses[e].readlen = 0
             /\ ses[e].remoteident = FALSE /\ ses[e].got = << >> /\ wire[e] = << >>
  BY <1>1 DEF Init
<1>3. << >> \in Seq(Nat \X Nat)
  OBVIOUS
<1>4. ses \in [End -> Ses] /\ wire \in [End -> Seq(Nat \X Nat)]
  <2>1. \A e \in End : NewSession(e) \in Ses
    BY <1>1 DEF Queue
  <2>2. QED
    BY <1>3, <2>1 DEF Init
<1>5. ASSUME NEW e \in End PROVE Unfinished(ses[e]) /\ Reading(ses[e], ses[Peer(e)], wire[e])
  <2>1. Peer(e) \in End
    BY Peers
  <2>2. PICK r, p : r = ses[e] /\ p = ses[Peer(e)]
    OBVIOUS
  <2>3. /\ r.readbuf = << >> /\ r.readlen = 0 /\ r.remoteident = FALSE /\ r.got = << >>
        /\ wire[e] = << >> /\ NextByte(p) = <<1, 1>>
    BY <1>2, <2>1, <2>2
  <2>4. p.sent \in Seq(Kind)
    BY <1>2, <2>1, <2>2 DEF Queue, Ses
  <2>5. Unfinished(r)
    <3>1. IdentLen \in Nat \ {0}
      BY TransportAssumption
    <3>2. QED
      BY <2>3, <3>1 DEF Unfinished
  <2>6. Linked(p.sent, << >>, <<1, 1>>, <<1, 1>>)
    BY DEF Linked, Nth
  <2>7. << >> \o << >> = << >>
    OBVIOUS
  <2>8. Extends(<< >>, p.sent)
    BY <2>4 DEF Extends
  <2>9. Reading(r, p, wire[e])
    BY <2>3, <2>6, <2>7, <2>8, <1>3 DEF Reading
  <2>10. QED
    BY <2>2, <2>5, <2>9
<1>6. QED
  BY <1>2, <1>4, <1>5 DEF IInv

\* The invariant of both directions holds throughout.
LEMMA Inductiveness == Spec => []IInv
<1>1. Init => IInv
  BY InitKeeps
<1>2. IInv /\ [Next]_vars => IInv'
  <2> SUFFICES ASSUME IInv, [Next]_vars PROVE IInv'
    OBVIOUS
  <2>1. CASE Next
    <3>1. PICK e \in End : ReadIdentification(e) \/ Pass(e)
      BY <2>1 DEF Next
    <3>2. QED
      BY <3>1, IdentificationKeeps, PassKeeps
  <2>2. CASE UNCHANGED vars
    BY <2>2 DEF vars, IInv
  <2>3. QED
    BY <2>1, <2>2
<1>3. QED
  BY <1>1, <1>2, PTL DEF Spec

\* However the stream is cut into reads and writes, each end processes the packets of
\* its peer, whole and in order, and reports no integrity error (read_packet,
\* decrypt_packet, write_packet, packet_queue_consume).
THEOREM Framing == Spec => []FramesIntact
<1>1. IInv => FramesIntact
  <2> SUFFICES ASSUME IInv PROVE FramesIntact
    OBVIOUS
  <2>1. ASSUME NEW e \in End PROVE ses[e].problem = "no" /\ IsPrefix(ses[e].got, ses[Peer(e)].sent)
    <3>1. PICK a, b : a = ses[e].got /\ b = ses[Peer(e)].sent
      OBVIOUS
    <3>2. ses[e] \in Ses /\ ses[Peer(e)] \in Ses
      BY Peers DEF IInv
    <3>3. a \in Seq(Kind) /\ b \in Seq(Kind) /\ ses[e].problem = "no"
      BY <3>1, <3>2 DEF Ses
    <3>4. Extends(a, b)
      BY <3>1 DEF IInv, Reading
    <3>5. Len(a) \in Nat /\ Len(b) \in Nat /\ Len(a) <= Len(b) /\ \A n \in 1..Len(a) : b[n] = a[n]
      BY <3>3, <3>4 DEF Extends
    <3>6. PICK c, d : c = SubSeq(a, 1, Len(a)) /\ d = SubSeq(b, 1, Len(a))
      OBVIOUS
    <3>7. \A n \in 1..Len(a) : a[n] \in Kind /\ b[n] \in Kind
      BY <3>3, <3>5
    <3>8. /\ c \in Seq(Kind) /\ Len(c) = IF 1 <= Len(a) THEN Len(a) - 1 + 1 ELSE 0
          /\ \A i \in 1..(Len(a) - 1 + 1) : c[i] = a[1 + i - 1]
      BY <3>5, <3>6, <3>7, SubSeqProperties
    <3>9. /\ d \in Seq(Kind) /\ Len(d) = IF 1 <= Len(a) THEN Len(a) - 1 + 1 ELSE 0
          /\ \A i \in 1..(Len(a) - 1 + 1) : d[i] = b[1 + i - 1]
      BY <3>5, <3>6, <3>7, SubSeqProperties
    <3>10. Len(c) = Len(a) /\ Len(d) = Len(a) /\ \A i \in 1..Len(c) : c[i] = d[i]
      BY <3>5, <3>8, <3>9
    <3>11. c = d
      BY <3>8, <3>9, <3>10, SeqEqual
    <3>12. IsPrefix(a, b)
      BY <3>5, <3>6, <3>11 DEF IsPrefix
    <3>13. QED
      BY <3>1, <3>3, <3>12
  <2>2. QED
    BY <2>1 DEF FramesIntact, Running
<1>2. QED
  BY <1>1, Inductiveness, PTL

\* A reply that does not have to wait for the end of a key exchange is queued behind no
\* more than the mark at which session_loop stops reading, requests of the same end
\* apart (writequeue_has_space, process_packet, encrypt_packet).
THEOREM Replies == Spec => []RepliesBounded
<1>1. IInv => RepliesBounded
  BY DEF IInv, Queue, Bounded, RepliesBounded
<1>2. QED
  BY <1>1, Inductiveness, PTL
============================================================================
