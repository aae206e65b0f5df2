------------------------- MODULE FlowControlProofs --------------------------
(***************************************************************************)
(* The window of a channel direction is conserved, for every window size,  *)
(* threshold and integer width.  The inductive invariant adds to the       *)
(* checked properties the accounting of the receiver: what is granted,     *)
(* buffered and consumed never exceeds the window.                         *)
(***************************************************************************)
EXTENDS FlowControl, TLAPS

Accounted == recvwindow + used + recvdonelen <= Window

IInv == TypeOK /\ WindowConserved /\ Accounted

\* A new channel has all its window at the sender.
LEMMA InitIInv == Init => IInv
BY WindowAssumption DEF Init, IInv, TypeOK, WindowConserved, Accounted

\* The clamp of recv_msg_channel_window_adjust is never reached.
LEMMA GrantedExact ==
  ASSUME IInv, NEW n \in 1..credit
  PROVE  Granted(n) = transwindow + n
BY WindowAssumption, UintAssumption
DEF IInv, TypeOK, WindowConserved, Accounted, Granted

\* Window becomes bytes in flight.
LEMMA SendIInv ==
  ASSUME IInv, NEW n \in 1..transwindow, Send(n)
  PROVE  IInv'
BY WindowAssumption DEF Send, IInv, TypeOK, WindowConserved, Accounted

\* Credit in flight becomes window.
LEMMA RecvAdjustIInv ==
  ASSUME IInv, NEW n \in 1..credit, RecvAdjust(n)
  PROVE  IInv'
BY GrantedExact, WindowAssumption
DEF RecvAdjust, IInv, TypeOK, WindowConserved, Accounted

\* n received and m consumed bytes move between the receiver's accounts.
LEMMA WriteIInv ==
  ASSUME IInv, NEW n \in 0..inflight, NEW m \in 0..(used + n), Write(n, m)
  PROVE  IInv'
<1>1. /\ n <= recvwindow /\ inflight' = inflight - n /\ used' = used + n - m
      /\ transwindow' = transwindow /\ writable' \in BOOLEAN
      /\ sending' = sending /\ receiving' = receiving /\ writable
  BY DEF Write, Consume, IInv, TypeOK, WindowConserved
<1>2. CASE recvdonelen + m >= Extend
  <2>1. /\ recvwindow' = recvwindow - n + (recvdonelen + m) /\ recvdonelen' = 0
        /\ credit' = credit + (recvdonelen + m)
    BY <1>2 DEF Write, Consume
  <2>2. QED
    BY <1>1, <2>1, WindowAssumption DEF IInv, TypeOK, WindowConserved, Accounted
<1>3. CASE ~(recvdonelen + m >= Extend)
  <2>1. /\ recvwindow' = recvwindow - n /\ recvdonelen' = recvdonelen + m
        /\ credit' = credit
    BY <1>3 DEF Write, Consume
  <2>2. QED
    BY <1>1, <2>1, WindowAssumption DEF IInv, TypeOK, WindowConserved, Accounted
<1>4. QED
  BY <1>2, <1>3

\* The descriptor fails: bytes that will not be granted again drop out.
LEMMA CloseWriterIInv ==
  ASSUME IInv, NEW n \in 0..inflight, CloseWriter(n)
  PROVE  IInv'
<1>1. /\ transwindow' \in Nat /\ inflight' \in Nat /\ credit' \in Nat
      /\ recvwindow' \in Nat /\ used' \in Nat /\ recvdonelen' \in Nat
      /\ transwindow' + inflight' + credit' <= recvwindow'
      /\ Accounted'
  BY WindowAssumption DEF CloseWriter, IInv, TypeOK, WindowConserved, Accounted
<1>2. ~writable' /\ writable' \in BOOLEAN /\ sending' \in BOOLEAN /\ receiving' \in BOOLEAN
  BY Zenon DEF CloseWriter, IInv, TypeOK
<1>3. QED
  BY <1>1, <1>2, Zenon DEF IInv, TypeOK, WindowConserved

\* Data for a channel whose descriptor is closed.
LEMMA DropIInv ==
  ASSUME IInv, NEW n \in 1..inflight, Drop(n)
  PROVE  IInv'
BY WindowAssumption DEF Drop, IInv, TypeOK, WindowConserved, Accounted

\* The sender's channel is removed.
LEMMA SenderGoneIInv ==
  ASSUME IInv, NEW n \in 0..transwindow, SenderGone(n)
  PROVE  IInv'
<1>1. /\ transwindow' \in Nat /\ inflight' \in Nat /\ credit' \in Nat
      /\ recvwindow' \in Nat /\ used' \in Nat /\ recvdonelen' \in Nat
      /\ transwindow' + inflight' + credit' <= recvwindow'
      /\ Accounted'
  BY DEF SenderGone, IInv, TypeOK, WindowConserved, Accounted
<1>2. ~sending' /\ writable' \in BOOLEAN /\ sending' \in BOOLEAN /\ receiving' \in BOOLEAN
  BY Zenon DEF SenderGone, IInv, TypeOK
<1>3. QED
  BY <1>1, <1>2, Zenon DEF IInv, TypeOK, WindowConserved

\* The receiver's channel is removed.
LEMMA ReceiverGoneIInv ==
  ASSUME IInv, NEW k \in 0..(used + recvdonelen), ReceiverGone(k)
  PROVE  IInv'
<1>1. /\ inflight' = 0 /\ transwindow' = transwindow /\ recvwindow' = Window
      /\ used' = 0 /\ recvdonelen' = 0 /\ (credit' = credit \/ credit' = credit + k)
  BY Zenon DEF ReceiverGone
<1>2. /\ transwindow' \in Nat /\ inflight' \in Nat /\ credit' \in Nat
      /\ recvwindow' \in Nat /\ used' \in Nat /\ recvdonelen' \in Nat
      /\ transwindow' + inflight' + credit' <= recvwindow'
      /\ Accounted'
  BY <1>1, WindowAssumption DEF IInv, TypeOK, WindowConserved, Accounted, ReceiverGone
<1>3. ~writable' /\ writable' \in BOOLEAN /\ sending' \in BOOLEAN /\ receiving' \in BOOLEAN
  BY Zenon DEF ReceiverGone, IInv, TypeOK
<1>4. QED
  BY <1>2, <1>3, Zenon DEF IInv, TypeOK, WindowConserved

\* The invariant is inductive.
LEMMA NextIInv == IInv /\ [Next]_vars => IInv'
<1> SUFFICES ASSUME IInv, [Next]_vars PROVE IInv'
  OBVIOUS
<1>1. CASE \E n \in 1..transwindow : Send(n)
  BY <1>1, SendIInv
<1>2. CASE \E n \in 1..credit : RecvAdjust(n)
  BY <1>2, RecvAdjustIInv
<1>3. CASE \E n \in 0..inflight : \E m \in 0..(used + n) : Write(n, m)
  BY <1>3, WriteIInv
<1>4. CASE \E n \in 0..inflight : CloseWriter(n)
  BY <1>4, CloseWriterIInv
<1>5. CASE \E n \in 1..inflight : Drop(n)
  BY <1>5, DropIInv
<1>6. CASE \E n \in 0..transwindow : SenderGone(n)
  BY <1>6, SenderGoneIInv
<1>7. CASE \E k \in 0..(used + recvdonelen) : ReceiverGone(k)
  BY <1>7, ReceiverGoneIInv
<1>8. CASE UNCHANGED vars
  BY <1>8 DEF vars, IInv, TypeOK, WindowConserved, Accounted
<1>9. QED
  BY <1>1, <1>2, <1>3, <1>4, <1>5, <1>6, <1>7, <1>8 DEF Next

\* Window is conserved in every reachable state.
LEMMA InvariantIInv == Spec => []IInv
BY InitIInv, NextIInv, PTL DEF Spec

(***************************************************************************)
(* All counts stay natural: no unsigned subtraction of the window code     *)
(* wraps around (transwindow -= len, recvwindow -= datalen).               *)
(***************************************************************************)
THEOREM TypeCorrect == Spec => []TypeOK
<1>1. IInv => TypeOK
  BY DEF IInv
<1>2. QED
  BY <1>1, InvariantIInv, PTL

(***************************************************************************)
(* Sender's window, data and adjustments in flight are covered by the      *)
(* receiver's window (send_msg_channel_data, common_recv_msg_channel_data, *)
(* recv_msg_channel_window_adjust).                                        *)
(***************************************************************************)
THEOREM WindowIsConserved == Spec => []WindowConserved
<1>1. IInv => WindowConserved
  BY DEF IInv
<1>2. QED
  BY <1>1, InvariantIInv, PTL

(***************************************************************************)
(* The assertions of writechannel hold: the granted window always fits in  *)
(* the free buffer space.                                                  *)
(***************************************************************************)
THEOREM GrantAlwaysFits == Spec => []GrantFitsBuffer
<1>1. IInv => GrantFitsBuffer
  BY WindowAssumption DEF IInv, TypeOK, Accounted, GrantFitsBuffer
<1>2. QED
  BY <1>1, InvariantIInv, PTL

(***************************************************************************)
(* The overflow clamp of recv_msg_channel_window_adjust is dead code       *)
(* between two endpoints that run this code.                               *)
(***************************************************************************)
THEOREM ClampIsNeverReached == Spec => []NeverClamps
<1>1. IInv => NeverClamps
  BY WindowAssumption, UintAssumption
  DEF IInv, TypeOK, WindowConserved, Accounted, NeverClamps
<1>2. QED
  BY <1>1, InvariantIInv, PTL
=============================================================================
