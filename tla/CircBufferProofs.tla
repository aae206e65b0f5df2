-------------------------- MODULE CircBufferProofs --------------------------
(***************************************************************************)
(* Proofs about circbuffer.c for every size: the assertions of             *)
(* cbuf_writelen hold, the write loop makes progress, and the ring is a    *)
(* bounded FIFO.  All three rest on one fact, Linked: the write position   *)
(* is the read position advanced by the bytes in use.                      *)
(***************************************************************************)
EXTENDS CircBuffer, SequenceTheorems, TLAPS

\* What % does to a position advanced by at most one turn of the ring.
LEMMA ModWrap ==
  ASSUME NEW a \in 0..(2 * Size - 1)
  PROVE  a % Size = IF a < Size THEN a ELSE a - Size
BY SizeAssumption

\* The same for the sums in the assertions, which start from 2 * Size.
LEMMA ModWrapTwice ==
  ASSUME NEW a \in (2 * Size)..(3 * Size - 1)
  PROVE  a % Size = a - 2 * Size
BY SizeAssumption

\* The write position, stated without %.
Linked == writepos = IF readpos + used < Size
                     THEN readpos + used ELSE readpos + used - Size

IInv == TypeOK /\ Linked

\* A new ring is empty.
LEMMA InitIInv == Init => IInv
BY SizeAssumption DEF Init, cbuf_new, IInv, TypeOK, Linked

\* One committed write advances writepos and used together.
LEMMA WriteIInv ==
  ASSUME IInv, NEW n \in 1..Size, NEW bytes \in [1..n -> Byte], Write(n, bytes)
  PROVE  IInv'
<1>1. /\ used \in 0..Size /\ readpos \in 0..Size-1 /\ writepos \in 0..Size-1
      /\ Linked
  BY DEF IInv, TypeOK
<1>2. /\ n <= cbuf_writelen /\ used' = used + n /\ readpos' = readpos
      /\ writepos' = (writepos + n) % Size
  BY DEF Write
<1>3. n <= Size - writepos /\ used + n <= Size
  BY <1>1, <1>2, SizeAssumption DEF cbuf_writelen, Linked
<1>4. writepos' = IF writepos + n < Size THEN writepos + n ELSE writepos + n - Size
  <2>1. writepos + n \in 0..(2 * Size - 1)
    BY <1>1, <1>3, SizeAssumption
  <2>2. (writepos + n) % Size =
          IF writepos + n < Size THEN writepos + n ELSE writepos + n - Size
    BY <2>1, <1>1, SizeAssumption
  <2>3. QED
    BY <2>2, <1>2, Zenon
<1>5. Linked'
  BY <1>1, <1>2, <1>3, <1>4, SizeAssumption DEF Linked
<1>6. data' \in [0..Size-1 -> Byte \cup {Junk}]
  <2>1. ASSUME NEW i \in 0..Size-1
        PROVE  (IF writepos <= i /\ i < writepos + n
                THEN bytes[i - writepos + 1] ELSE data[i]) \in Byte \cup {Junk}
    <3>1. CASE writepos <= i /\ i < writepos + n
      <4>1. i - writepos + 1 \in 1..n
        BY <1>1, <3>1, SizeAssumption
      <4>2. QED
        BY <3>1, <4>1
    <3>2. CASE ~(writepos <= i /\ i < writepos + n)
      BY <3>2 DEF IInv, TypeOK
    <3>3. QED
      BY <3>1, <3>2
  <2>2. QED
    BY <2>1 DEF Write
<1>7. QED
  BY <1>1, <1>2, <1>3, <1>4, <1>5, <1>6, SizeAssumption DEF IInv, TypeOK

\* Releasing bytes advances readpos and shrinks used by the same amount.
LEMMA IncrReadIInv ==
  ASSUME IInv, NEW n \in 0..Size, cbuf_incrread(n)
  PROVE  IInv'
<1>1. /\ used \in 0..Size /\ readpos \in 0..Size-1 /\ writepos \in 0..Size-1
      /\ Linked
  BY DEF IInv, TypeOK
<1>2. /\ n <= used /\ used' = used - n /\ writepos' = writepos
      /\ readpos' = (readpos + n) % Size /\ data' = data
  BY DEF cbuf_incrread
<1>3. readpos' = IF readpos + n < Size THEN readpos + n ELSE readpos + n - Size
  BY <1>1, <1>2, ModWrap, SizeAssumption
<1>4. Linked'
  BY <1>1, <1>2, <1>3, SizeAssumption DEF Linked
<1>5. QED
  BY <1>1, <1>2, <1>3, <1>4, SizeAssumption DEF IInv, TypeOK

\* Every operation keeps the two positions linked.
LEMMA NextIInv == IInv /\ [Next]_vars => IInv'
<1> SUFFICES ASSUME IInv, [Next]_vars PROVE IInv'
  OBVIOUS
<1>1. CASE \E n \in 1..Size : \E bytes \in [1..n -> Byte] : Write(n, bytes)
  BY <1>1, WriteIInv
<1>2. CASE \E n \in 0..Size : cbuf_incrread(n)
  BY <1>2, IncrReadIInv
<1>3. CASE UNCHANGED vars
  BY <1>3 DEF vars, IInv, TypeOK, Linked
<1>4. QED
  BY <1>1, <1>2, <1>3 DEF Next

\* The positions are linked in every reachable state.
LEMMA InvariantIInv == Spec => []IInv
BY InitIInv, NextIInv, PTL DEF Spec

(***************************************************************************)
(* used and both positions stay within the ring (circbuffer.c).            *)
(***************************************************************************)
THEOREM TypeCorrect == Spec => []TypeOK
<1>1. IInv => TypeOK
  BY DEF IInv
<1>2. QED
  BY <1>1, InvariantIInv, PTL

(***************************************************************************)
(* The assertions of cbuf_writelen never fail.                             *)
(***************************************************************************)
THEOREM PositionsAgreeAlways == Spec => []PositionsAgree
<1>1. IInv => PositionsAgree
  <2> SUFFICES ASSUME IInv PROVE PositionsAgree
    OBVIOUS
  <2>1. /\ used \in 0..Size /\ readpos \in 0..Size-1 /\ writepos \in 0..Size-1
        /\ Linked
    BY DEF IInv, TypeOK
  <2>2. used % Size = IF used < Size THEN used ELSE 0
    BY <2>1, ModWrap, SizeAssumption
  <2>3. (Size - used) % Size = IF used > 0 THEN Size - used ELSE 0
    BY <2>1, ModWrap, SizeAssumption
  <2>4. (2 * Size + writepos - readpos) % Size =
          IF writepos < readpos THEN Size + writepos - readpos ELSE writepos - readpos
    <3> DEFINE a == 2 * Size + writepos - readpos
    <3>1. CASE writepos < readpos
      <4>1. a \in Size..(2 * Size - 1)
        BY <2>1, <3>1, SizeAssumption
      <4>2. a % Size = a - Size
        BY <4>1, SizeAssumption
      <4>3. QED
        BY <2>1, <3>1, <4>2, SizeAssumption
    <3>2. CASE writepos >= readpos
      BY <2>1, <3>2, ModWrapTwice, SizeAssumption
    <3>3. QED
      BY <2>1, <3>1, <3>2, SizeAssumption
  <2>5. (2 * Size + readpos - writepos) % Size =
          IF readpos < writepos THEN Size + readpos - writepos ELSE readpos - writepos
    <3> DEFINE a == 2 * Size + readpos - writepos
    <3>1. CASE readpos < writepos
      <4>1. a \in Size..(2 * Size - 1)
        BY <2>1, <3>1, SizeAssumption
      <4>2. a % Size = a - Size
        BY <4>1, SizeAssumption
      <4>3. QED
        BY <2>1, <3>1, <4>2, SizeAssumption
    <3>2. CASE readpos >= writepos
      BY <2>1, <3>2, ModWrapTwice, SizeAssumption
    <3>3. QED
      BY <2>1, <3>1, <3>2, SizeAssumption
  <2>6. QED
    BY <2>1, <2>2, <2>3, <2>4, <2>5, SizeAssumption DEF PositionsAgree, Linked
<1>2. QED
  BY <1>1, InvariantIInv, PTL

(***************************************************************************)
(* The copy loop of common_recv_msg_channel_data finds contiguous room     *)
(* whenever there is room, and needs at most two rounds.                   *)
(***************************************************************************)
THEOREM TwoRoundsSufficeAlways == Spec => []TwoRoundsSuffice
<1>1. IInv => TwoRoundsSuffice
  BY SizeAssumption
  DEF IInv, TypeOK, Linked, TwoRoundsSuffice, cbuf_getavail, cbuf_writelen
<1>2. QED
  BY <1>1, InvariantIInv, PTL

-----------------------------------------------------------------------------
(***************************************************************************)
(* The refinement.  Byte k of the contents lies k - 1 places after readpos *)
(* in the ring, whichever of the two segments it is in.                    *)
(***************************************************************************)
At(k, r) == IF r + k - 1 < Size THEN r + k - 1 ELSE r + k - 1 - Size

\* The two segments of cbuf_readptrs, byte by byte.
LEMMA ContentsAt ==
  ASSUME IInv
  PROVE  Contents = [k \in 1..used |-> data[At(k, readpos)]]
BY SizeAssumption
DEF IInv, TypeOK, Contents, cbuf_readlen1, At

\* A committed write appends its bytes to the contents.
LEMMA WriteAppends ==
  ASSUME IInv, NEW n \in 1..Size, NEW bytes \in [1..n -> Byte], Write(n, bytes)
  PROVE  Contents' = Contents \o bytes /\ n <= Size - Len(Contents)
<1>1. /\ used \in 0..Size /\ readpos \in 0..Size-1 /\ writepos \in 0..Size-1
      /\ Linked
  BY DEF IInv, TypeOK
<1>2. /\ n <= cbuf_writelen /\ used' = used + n /\ readpos' = readpos
  BY DEF Write
<1>3. n <= Size - writepos /\ used + n <= Size
  BY <1>1, <1>2, SizeAssumption DEF cbuf_writelen, Linked
<1>4. Contents = [k \in 1..used |-> data[At(k, readpos)]]
  BY ContentsAt
<1>5. Contents' = [k \in 1..(used + n) |-> data'[At(k, readpos)]]
  <2>1. IInv'
    BY WriteIInv
  <2>2. QED
    BY <2>1, <1>2, ContentsAt, SizeAssumption
    DEF IInv, TypeOK, Contents, cbuf_readlen1, At
<1>6. Contents \in Seq(Byte \cup {Junk}) /\ Len(Contents) = used
  BY <1>1, <1>4, SizeAssumption DEF IInv, TypeOK, At
<1>7. bytes \in Seq(Byte \cup {Junk}) /\ Len(bytes) = n
  OBVIOUS
<1>8. /\ Contents \o bytes \in Seq(Byte \cup {Junk})
      /\ Len(Contents \o bytes) = used + n
      /\ \A k \in 1..(used + n) : (Contents \o bytes)[k] =
            IF k <= used THEN Contents[k] ELSE bytes[k - used]
  BY <1>6, <1>7, ConcatProperties
<1>9. ASSUME NEW k \in 1..(used + n)
      PROVE  data'[At(k, readpos)] =
               IF k <= used THEN Contents[k] ELSE bytes[k - used]
  <2>1. At(k, readpos) \in 0..Size-1
    BY <1>1, <1>3, SizeAssumption DEF At
  <2>2. data'[At(k, readpos)] =
          IF writepos <= At(k, readpos) /\ At(k, readpos) < writepos + n
          THEN bytes[At(k, readpos) - writepos + 1] ELSE data[At(k, readpos)]
    BY <2>1 DEF Write
  <2>3. CASE k <= used
    <3>1. ~(writepos <= At(k, readpos) /\ At(k, readpos) < writepos + n)
      BY <2>3, <1>1, <1>2, <1>3, SizeAssumption DEF At, Linked, cbuf_writelen
    <3>2. QED
      BY <3>1, <2>2, <2>3, <1>4, <1>1
  <2>4. CASE k > used
    <3>1. At(k, readpos) = writepos + (k - used) - 1
      BY <2>4, <1>1, <1>2, <1>3, SizeAssumption DEF At, Linked, cbuf_writelen
    <3>2. QED
      BY <3>1, <2>2, <2>4, <1>1, <1>3
  <2>5. QED
    BY <2>3, <2>4, <1>1
<1>10. Contents' = Contents \o bytes
  <2>1. Contents' \in Seq(Byte \cup {Junk}) /\ Len(Contents') = used + n
    BY <1>1, <1>3, <1>5, WriteIInv, SizeAssumption DEF IInv, TypeOK, At
  <2>2. \A k \in 1..(used + n) : Contents'[k] = (Contents \o bytes)[k]
    BY <1>5, <1>8, <1>9
  <2>3. QED
    BY <2>1, <2>2, <1>8, SeqEqual
<1>11. QED
  BY <1>10, <1>6, <1>3, <1>1, SizeAssumption

\* Releasing n bytes drops the first n of the contents.
LEMMA IncrReadDrops ==
  ASSUME IInv, NEW n \in 0..Size, cbuf_incrread(n)
  PROVE  n <= Len(Contents) /\ Contents' = SubSeq(Contents, n + 1, Len(Contents))
<1>1. /\ used \in 0..Size /\ readpos \in 0..Size-1 /\ writepos \in 0..Size-1
      /\ Linked
  BY DEF IInv, TypeOK
<1>2. /\ n <= used /\ used' = used - n /\ writepos' = writepos
      /\ readpos' = (readpos + n) % Size /\ data' = data
  BY DEF cbuf_incrread
<1>3. readpos' = IF readpos + n < Size THEN readpos + n ELSE readpos + n - Size
  BY <1>1, <1>2, ModWrap, SizeAssumption
<1>4. Contents = [k \in 1..used |-> data[At(k, readpos)]]
  BY ContentsAt
<1>5. Contents' = [k \in 1..(used - n) |-> data[At(k, readpos')]]
  <2>1. IInv'
    BY IncrReadIInv
  <2>2. QED
    BY <2>1, <1>2, <1>3, SizeAssumption
    DEF IInv, TypeOK, Contents, cbuf_readlen1, At
<1>6. Contents \in Seq(Byte \cup {Junk}) /\ Len(Contents) = used
  BY <1>1, <1>4, SizeAssumption DEF IInv, TypeOK, At
<1>7. SubSeq(Contents, n + 1, Len(Contents)) =
        [k \in 1..(used - n) |-> Contents[k + n]]
  BY <1>1, <1>2, <1>6
<1>8. ASSUME NEW k \in 1..(used - n)
      PROVE  data[At(k, readpos')] = Contents[k + n]
  <2>1. At(k, readpos') = At(k + n, readpos)
    <3>1. CASE readpos + n < Size
      <4>1. readpos' + k - 1 = readpos + (k + n) - 1
        BY <3>1, <1>1, <1>3, SizeAssumption
      <4>2. QED
        BY <4>1, <3>1, <1>1, <1>3, SizeAssumption DEF At
    <3>2. CASE readpos + n >= Size
      <4>1. /\ readpos' + k - 1 = readpos + (k + n) - 1 - Size
            /\ readpos' + k - 1 < Size /\ readpos + (k + n) - 1 >= Size
        BY <3>2, <1>1, <1>2, <1>3, SizeAssumption
      <4>2. QED
        BY <4>1, <1>1, SizeAssumption DEF At
    <3>3. QED
      BY <3>1, <3>2, <1>1, SizeAssumption
  <2>2. QED
    BY <2>1, <1>4, <1>1, <1>2
<1>9. QED
  BY <1>2, <1>5, <1>6, <1>7, <1>8

(***************************************************************************)
(* The ring of circbuffer.c implements the bounded byte FIFO: what is      *)
(* written comes out once, in order.                                       *)
(***************************************************************************)
THEOREM RingIsQueue == Spec => ImplementsQueue
<1>1. Init => Queue!Init
  BY DEF Init, cbuf_new, Queue!Init, Contents
<1>2. IInv /\ [Next]_vars => [Queue!Next]_Contents
  <2> SUFFICES ASSUME IInv, [Next]_vars PROVE [Queue!Next]_Contents
    OBVIOUS
  <2>1. ASSUME NEW n \in 1..Size, NEW bytes \in [1..n -> Byte], Write(n, bytes)
        PROVE  Queue!Put
    <3>1. Contents' = Contents \o bytes /\ n <= Size - Len(Contents)
      BY <2>1, WriteAppends
    <3>2. n \in 1..(Size - Len(Contents))
      BY <3>1, ContentsAt, SizeAssumption DEF IInv, TypeOK
    <3>3. QED
      BY <3>1, <3>2 DEF Queue!Put
  <2>2. ASSUME NEW n \in 0..Size, cbuf_incrread(n)
        PROVE  Queue!Take
    <3>1. n <= Len(Contents) /\ Contents' = SubSeq(Contents, n + 1, Len(Contents))
      BY <2>2, IncrReadDrops
    <3>2. n \in 0..Len(Contents)
      BY <3>1, ContentsAt, SizeAssumption DEF IInv, TypeOK
    <3>3. QED
      BY <3>1, <3>2 DEF Queue!Take
  <2>3. CASE UNCHANGED vars
    BY <2>3 DEF vars, Contents, cbuf_readlen1
  <2>4. QED
    BY <2>1, <2>2, <2>3 DEF Next, Queue!Next
<1>3. QED
  BY <1>1, <1>2, InvariantIInv, PTL DEF Spec, ImplementsQueue, Queue!Spec
=============================================================================
