----------------------------- MODULE ByteQueue -----------------------------
(***************************************************************************)
(* What a channel expects of its write buffer: a FIFO of bytes that holds  *)
(* at most Size of them.  Bytes enter at the back, leave at the front, and *)
(* are never lost, duplicated or reordered.  CircBuffer implements it.     *)
(***************************************************************************)
EXTENDS Naturals, Sequences

CONSTANTS Size,   \* capacity in bytes (opts.recv_window)
          Byte    \* the byte values

VARIABLE queue

\* A buffer is created empty.
Init == queue = << >>

\* Appends a run of bytes that fits.
Put == \E n \in 1..(Size - Len(queue)) : \E bytes \in [1..n -> Byte] :
          queue' = queue \o bytes

\* Removes a run of bytes from the front; nothing at all for n = 0.
Take == \E n \in 0..Len(queue) :
           queue' = SubSeq(queue, n + 1, Len(queue))

Next == Put \/ Take

Spec == Init /\ [][Next]_queue
=============================================================================
