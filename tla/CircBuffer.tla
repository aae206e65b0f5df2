----------------------------- MODULE CircBuffer -----------------------------
(***************************************************************************)
(* circbuffer.c: the ring buffer that holds data received for a channel    *)
(* until the local descriptor takes it.  A writer asks for the contiguous  *)
(* space (cbuf_writelen), copies into it (cbuf_writeptr) and commits       *)
(* (cbuf_incrwrite); a reader takes the one or two segments that           *)
(* cbuf_readptrs names and commits what it wrote out (cbuf_incrread).      *)
(***************************************************************************)
EXTENDS Integers, Sequences

CONSTANTS Size,   \* cbuf->size
          Byte,   \* byte values
          Junk    \* what malloc'ed memory holds before the first write

ASSUME SizeAssumption == Size \in Nat \ {0}
ASSUME JunkAssumption == Junk \notin Byte

VARIABLES data,       \* the ring: index 0..Size-1
          used, readpos, writepos

vars == <<data, used, readpos, writepos>>

\* m_malloc is lazy in the code; memory that was never written is Junk.
cbuf_new == /\ data = [i \in 0..Size-1 |-> Junk]
            /\ used = 0 /\ readpos = 0 /\ writepos = 0

cbuf_getavail == Size - used

\* Faulty variant: an empty buffer has no contiguous room.
WritelenOffByOne ==
    IF used = Size THEN 0
    ELSE IF writepos <= readpos THEN readpos - writepos
    ELSE Size - writepos

\* The contiguous space at writepos: up to readpos, or to the end of the ring.
cbuf_writelen ==
    IF used = Size THEN 0
    ELSE IF writepos < readpos THEN readpos - writepos
    ELSE Size - writepos

\* The second segment starts at index 0 and exists when the data wraps.
cbuf_readlen1 == IF used <= Size - readpos THEN used ELSE Size - readpos
cbuf_readlen2 == used - cbuf_readlen1

\* Faulty variant: the write pointer is the start of the ring.
WriteAtStart(n, bytes) ==
    /\ n <= cbuf_writelen
    /\ data' = [i \in 0..Size-1 |-> IF i < n THEN bytes[i + 1] ELSE data[i]]
    /\ used' = used + n /\ writepos' = (writepos + n) % Size
    /\ UNCHANGED readpos

(***************************************************************************)
(* One cbuf_writeptr/memcpy/cbuf_incrwrite round of                        *)
(* common_recv_msg_channel_data: at most cbuf_writelen bytes.              *)
(***************************************************************************)
Write(n, bytes) ==
    /\ n <= cbuf_writelen
    /\ data' = [i \in 0..Size-1 |->
                  IF writepos <= i /\ i < writepos + n
                  THEN bytes[i - writepos + 1] ELSE data[i]]
    /\ used' = used + n
    /\ writepos' = (writepos + n) % Size
    /\ UNCHANGED readpos

\* Faulty variant: readpos stays.
IncrreadStays(n) == n <= used /\ used' = used - n /\ UNCHANGED <<data, readpos, writepos>>

\* writechannel wrote n bytes of the segments out and releases them.
cbuf_incrread(n) ==
    /\ n <= used
    /\ used' = used - n
    /\ readpos' = (readpos + n) % Size
    /\ UNCHANGED <<data, writepos>>

Init == cbuf_new
Next == \/ \E n \in 1..Size : \E bytes \in [1..n -> Byte] : Write(n, bytes)
        \/ \E n \in 0..Size : cbuf_incrread(n)
Spec == Init /\ [][Next]_vars

-----------------------------------------------------------------------------
TypeOK == /\ data \in [0..Size-1 -> Byte \cup {Junk}]
          /\ used \in 0..Size
          /\ readpos \in 0..Size-1
          /\ writepos \in 0..Size-1

(***************************************************************************)
(* The assertions at the head of cbuf_writelen: the distance between the   *)
(* two positions, modulo the size, is the number of bytes in use, so full  *)
(* and empty (where the positions coincide) are told apart by `used' only. *)
(***************************************************************************)
PositionsAgree ==
    /\ (2 * Size + writepos - readpos) % Size = used % Size
    /\ (2 * Size + readpos - writepos) % Size = (Size - used) % Size

\* What the segments returned by cbuf_readptrs hold, in order.
Contents ==
    [i \in 1..used |->
        IF i <= cbuf_readlen1 THEN data[readpos + i - 1]
                              ELSE data[i - cbuf_readlen1 - 1]]

(***************************************************************************)
(* The loop in common_recv_msg_channel_data always gets somewhere: when    *)
(* there is room there is contiguous room, and whatever fits in the buffer *)
(* fits in at most two rounds.                                             *)
(***************************************************************************)
TwoRoundsSuffice ==
    /\ cbuf_getavail > 0 => cbuf_writelen > 0
    /\ cbuf_writelen < cbuf_getavail => writepos + cbuf_writelen = Size
    /\ cbuf_getavail - cbuf_writelen <= readpos

Queue == INSTANCE ByteQueue WITH queue <- Contents

(***************************************************************************)
(* The ring behaves as a bounded FIFO.                                     *)
(***************************************************************************)
ImplementsQueue == Queue!Spec
=============================================================================
