---------------------------- MODULE FlowControl -----------------------------
(***************************************************************************)
(* What the window handling of common-channel.c promises for one direction *)
(* of a channel, in byte counts: the sender's window, the data and the     *)
(* window adjustments on their way, and the receiver's window and buffers. *)
(* Message boundaries are left out: any part of what is in flight may      *)
(* arrive next.  Module Forward implements this specification.             *)
(***************************************************************************)
EXTENDS Naturals

CONSTANTS Window,    \* opts.recv_window of the receiver
          Extend,    \* RECV_WINDOWEXTEND, when to give window back
          UintMax    \* the largest unsigned int

ASSUME WindowAssumption == Window \in Nat \ {0}
ASSUME ExtendAssumption == Extend \in 0..Window
ASSUME UintAssumption == UintMax \in Nat /\ Window <= UintMax

VARIABLES transwindow,   \* sender: bytes it may still send
          inflight,      \* bytes of channel data on their way
          credit,        \* window on its way to the sender
          recvwindow,    \* receiver: bytes it has still granted
          used,          \* receiver: bytes in its buffers
          recvdonelen,   \* receiver: consumed and not yet granted again
          writable,      \* the receiver's descriptor is open
          sending,       \* the sender still has the channel
          receiving      \* the receiver still has the channel

vars == <<transwindow, inflight, credit, recvwindow, used, recvdonelen,
          writable, sending, receiving>>

\* The first window travels with the open or its confirmation.
Init == /\ transwindow = 0 /\ inflight = 0 /\ credit = Window
        /\ recvwindow = Window /\ used = 0 /\ recvdonelen = 0
        /\ writable = TRUE /\ sending = TRUE /\ receiving = TRUE

\* send_msg_channel_data reads at most the window.
Send(n) ==
    /\ sending /\ receiving /\ n <= transwindow
    /\ transwindow' = transwindow - n
    /\ inflight' = inflight + n
    /\ UNCHANGED <<credit, recvwindow, used, recvdonelen, writable, sending, receiving>>

\* recv_msg_channel_window_adjust, with its clamp.
Granted(n) == IF transwindow + n <= UintMax THEN transwindow + n ELSE UintMax

RecvAdjust(n) ==
    /\ sending /\ n <= credit
    /\ credit' = credit - n
    /\ transwindow' = Granted(n)
    /\ UNCHANGED <<inflight, recvwindow, used, recvdonelen, writable, sending, receiving>>

\* Faulty variants of Consume: the bytes of the packet do not come off the
\* window; what was given back is given back again; the last count replaces
\* the sum.
ConsumeUncounted(n, m) ==
    /\ inflight' = inflight - n /\ used' = used + n - m
    /\ recvdonelen' = recvdonelen + m
    /\ UNCHANGED <<recvwindow, credit>>
ConsumeRepeats(n, m) ==
    /\ inflight' = inflight - n /\ used' = used + n - m
    /\ recvdonelen' = recvdonelen + m
    /\ recvwindow' = recvwindow - n + recvdonelen' /\ credit' = credit + recvdonelen'
ConsumeForgets(n, m) ==
    /\ inflight' = inflight - n /\ used' = used + n - m
    /\ recvdonelen' = IF m >= Extend THEN 0 ELSE m
    /\ recvwindow' = recvwindow - n + (IF m >= Extend THEN m ELSE 0)
    /\ credit' = credit + (IF m >= Extend THEN m ELSE 0)

(***************************************************************************)
(* writechannel after n bytes arrived (none when called from channelio)    *)
(* and m bytes went to the descriptor, which check_close may then close.   *)
(***************************************************************************)
Consume(n, m) ==
    LET done == recvdonelen + m IN
    /\ inflight' = inflight - n
    /\ used' = used + n - m
    /\ IF done >= Extend
       THEN /\ recvwindow' = recvwindow - n + done
            /\ recvdonelen' = 0
            /\ credit' = credit + done
       ELSE /\ recvwindow' = recvwindow - n
            /\ recvdonelen' = done
            /\ UNCHANGED credit

Write(n, m) ==
    /\ receiving /\ writable /\ n <= inflight /\ m <= used + n
    /\ Consume(n, m)
    /\ writable' \in BOOLEAN
    /\ UNCHANGED <<transwindow, sending, receiving>>

(***************************************************************************)
(* The descriptor is closed, by end of file or by a failed write while n   *)
(* bytes were being received; those are discarded.                         *)
(***************************************************************************)
CloseWriter(n) ==
    /\ receiving /\ writable /\ n <= inflight
    /\ inflight' = inflight - n
    /\ recvwindow' = recvwindow - n
    /\ writable' = FALSE
    /\ UNCHANGED <<transwindow, credit, used, recvdonelen, sending, receiving>>

\* Data for a closed descriptor is dropped, and its window never given back.
Drop(n) ==
    /\ receiving /\ ~writable /\ n <= inflight
    /\ inflight' = inflight - n
    /\ UNCHANGED <<transwindow, credit, recvwindow, used, recvdonelen,
                   writable, sending, receiving>>

\* The sender removes the channel, perhaps right after sending its last bytes.
SenderGone(n) ==
    /\ sending /\ (receiving \/ n = 0) /\ n <= transwindow
    /\ sending' = FALSE
    /\ transwindow' = 0 /\ credit' = 0 /\ inflight' = inflight + n
    /\ UNCHANGED <<recvwindow, used, recvdonelen, writable, receiving>>

\* So does the receiver, once nothing is in flight, perhaps after a last grant.
ReceiverGone(k) ==
    /\ receiving /\ inflight = 0 /\ k <= used + recvdonelen
    /\ receiving' = FALSE /\ writable' = FALSE
    /\ recvwindow' = Window /\ used' = 0 /\ recvdonelen' = 0
    /\ credit' = IF sending THEN credit + k ELSE credit
    /\ UNCHANGED <<transwindow, inflight, sending>>

Next == \/ \E n \in 1..transwindow : Send(n)
        \/ \E n \in 1..credit : RecvAdjust(n)
        \/ \E n \in 0..inflight : \E m \in 0..(used + n) : Write(n, m)
        \/ \E n \in 0..inflight : CloseWriter(n)
        \/ \E n \in 1..inflight : Drop(n)
        \/ \E n \in 0..transwindow : SenderGone(n)
        \/ \E k \in 0..(used + recvdonelen) : ReceiverGone(k)

Spec == Init /\ [][Next]_vars

-----------------------------------------------------------------------------
TypeOK ==
    /\ transwindow \in Nat /\ inflight \in Nat /\ credit \in Nat
    /\ recvwindow \in Nat /\ used \in Nat /\ recvdonelen \in Nat
    /\ writable \in BOOLEAN /\ sending \in BOOLEAN /\ receiving \in BOOLEAN

(***************************************************************************)
(* Whatever the sender may still send, plus what is on its way in either   *)
(* direction, is covered by the receiver's window; exactly, as long as     *)
(* both sides are up.  So the assertion recvwindow >= datalen in           *)
(* common_recv_msg_channel_data cannot fail.                               *)
(***************************************************************************)
WindowConserved ==
    /\ transwindow + inflight + credit <= recvwindow
    /\ writable /\ sending => transwindow + inflight + credit = recvwindow

(***************************************************************************)
(* The assertions of writechannel: the granted window always fits in the   *)
(* free part of the buffers (which together hold `used' bytes), so no      *)
(* packet of a conforming sender is ever oversized.                        *)
(***************************************************************************)
GrantFitsBuffer == recvwindow + used <= Window

(***************************************************************************)
(* recv_msg_channel_window_adjust never has to clamp.                      *)
(***************************************************************************)
NeverClamps == transwindow + credit <= UintMax

(***************************************************************************)
(* Fairness: the network delivers and the descriptor takes data.           *)
(***************************************************************************)
FairSpec ==
    /\ Spec
    /\ WF_vars(\E n \in 1..credit : RecvAdjust(n))
    /\ WF_vars(\E n \in 1..inflight : \E m \in 0..(used + n) : Write(n, m))
    /\ WF_vars(\E m \in 1..used : Write(0, m))

(***************************************************************************)
(* An exhausted window is always opened again while both ends are up: the  *)
(* threshold for giving window back can never strand the sender.           *)
(***************************************************************************)
WindowReopens ==
    transwindow = 0 ~> (transwindow > 0 \/ ~writable \/ ~sending \/ ~receiving)
=============================================================================
