---------------------------- MODULE SvrMainProofs ---------------------------
(***************************************************************************)
(* The limits of the listening server, for every size of the table, limit  *)
(* per address, number of sockets and set of connections.  They are about  *)
(* children, the code counts entries of its table; what joins the two is   *)
(* that the table tracks the children (Tracked), which in turn rests on    *)
(* the order of the loop: the answer of select is used up before a slot is *)
(* given away (FdsFresh), and a connection that is accepted was waiting,   *)
(* in one place, and so has no slot yet (Queued).                          *)
(***************************************************************************)
EXTENDS SvrMain, FiniteSetTheorems, SequenceTheorems, WellFoundedInduction, TLAPS

\* A connection waits in one place, and only while it waits.
Queued ==
    \A l \in 1..Listeners : \A i \in 1..Len(backlog[l]) :
       /\ child[backlog[l][i]] = "waiting"
       /\ \A m \in 1..Listeners : \A k \in 1..Len(backlog[m]) :
             backlog[m][k] = backlog[l][i] => m = l /\ k = i

\* The answer of select is used while it is still true: the pipes it named
\* are those of children that stay closed, and they are gone before a slot is
\* given away.
FdsFresh ==
    /\ fds.pipes # {} => next = 1
    /\ \A i \in fds.pipes : childpipes[i] # Free /\ Closed(childpipes[i])

\* The table holds as many entries for an address as are allowed.
TableBounded ==
    \A c \in Conns : num_unauthed_for_addr(Addr[c]) <= MAX_UNAUTH_PER_IP

IInv == TypeOK /\ Tracked /\ Queued /\ FdsFresh /\ TableBounded

(***************************************************************************)
(* Sets of slots.                                                          *)
(***************************************************************************)

\* A set of numbers that is not empty has a least one.
LEMMA MinNat ==
  ASSUME NEW T, T \subseteq Nat, T # {}
  PROVE  \E x \in T : \A y \in T : x <= y
<1>1. PICK x \in T : \A y \in T : ~(<<y, x>> \in OpToRel(<, Nat))
  BY WFMin, NatLessThanWellFounded
<1>2. \A y \in T : ~(y < x)
  BY <1>1 DEF OpToRel
<1>3. QED
  BY <1>2

\* The table has MAX_UNAUTH_CLIENTS slots.
LEMMA SlotsFinite == IsFiniteSet(Slots) /\ Cardinality(Slots) = MAX_UNAUTH_CLIENTS
BY FS_Interval, SvrMainAssumption DEF Slots

\* The slots in use for an address.
UsedBy(a) == {i \in Slots : childpipes[i] # Free /\ preauth_addrs[i] = a}

\* num_unauthed_for_addr counts the slots in use for an address.
LEMMA UsedByFinite ==
  ASSUME NEW a
  PROVE  /\ IsFiniteSet(UsedBy(a)) /\ IsFiniteSet(UsedBy(a)')
         /\ num_unauthed_for_addr(a) = Cardinality(UsedBy(a))
         /\ num_unauthed_for_addr(a)' = Cardinality(UsedBy(a)')
<1>1. UsedBy(a) \in SUBSET Slots /\ UsedBy(a)' \in SUBSET Slots
  BY DEF UsedBy, Slots
<1>2. QED
  BY <1>1, SlotsFinite, FS_Subset DEF UsedBy, num_unauthed_for_addr, Slots

\* When the table is not full, conn_idx is a free slot.
LEMMA ConnIdxFree ==
  ASSUME TypeOK, num_unauthed_total < MAX_UNAUTH_CLIENTS
  PROVE  conn_idx \in Slots /\ childpipes[conn_idx] = Free
<1> DEFINE F == {i \in Slots : childpipes[i] = Free}
<1>1. F # {}
  <2>1. SUFFICES ASSUME F = {} PROVE FALSE
    OBVIOUS
  <2>2. {i \in Slots : childpipes[i] # Free} = Slots
    BY <2>1
  <2>3. QED
    BY <2>2, SlotsFinite, SvrMainAssumption DEF num_unauthed_total
<1> DEFINE T == {MAX_UNAUTH_CLIENTS - i : i \in F}
<1>2. T \subseteq Nat /\ T # {}
  BY <1>1, SvrMainAssumption DEF Slots
<1>3. PICK x \in T : \A y \in T : x <= y
  BY <1>2, MinNat
<1>4. PICK i \in F : \A k \in F : i >= k
  <2>1. PICK i \in F : x = MAX_UNAUTH_CLIENTS - i
    BY <1>3
  <2>2. \A k \in F : MAX_UNAUTH_CLIENTS - i <= MAX_UNAUTH_CLIENTS - k
    BY <2>1, <1>3
  <2>3. \A k \in F : i >= k
    BY <2>2, SvrMainAssumption DEF Slots
  <2>4. QED
    BY <2>3
<1>5. conn_idx = Max(F)
  BY DEF conn_idx
<1>6. Max(F) \in F
  BY <1>4 DEF Max
<1>7. QED
  BY <1>5, <1>6

(***************************************************************************)
(* The backlogs.                                                           *)
(***************************************************************************)

\* A backlog holds connections.
LEMMA BacklogType ==
  ASSUME TypeOK, NEW l \in 1..Listeners
  PROVE  /\ backlog[l] \in Seq(Conns) /\ Len(backlog[l]) \in Nat
         /\ \A i \in 1..Len(backlog[l]) : backlog[l][i] \in Conns
<1>1. backlog[l] \in Seq(Conns)
  BY DEF TypeOK
<1>2. QED
  BY <1>1

\* A connection that leaves its place leaves the others where they were.
LEMMA QueuedRemoval ==
  ASSUME TypeOK, Queued,
         NEW l \in 1..Listeners, NEW p \in 1..Len(backlog[l]),
         NEW s \in Seq(Conns), Len(s) = Len(backlog[l]) - 1,
         \A i \in 1..Len(s) : s[i] = IF i < p THEN backlog[l][i] ELSE backlog[l][i + 1],
         backlog' = [backlog EXCEPT ![l] = s],
         NEW st, child' = [child EXCEPT ![backlog[l][p]] = st]
  PROVE  Queued'
<1> DEFINE Was(m, i) == IF m = l /\ i >= p THEN i + 1 ELSE i
<1>1. \A m \in 1..Listeners : backlog[m] \in Seq(Conns) /\ Len(backlog[m]) \in Nat
  BY BacklogType
<1>2. /\ backlog'[l] = s
      /\ \A m \in 1..Listeners : m # l => backlog'[m] = backlog[m]
  BY DEF TypeOK
<1>3. ASSUME NEW m \in 1..Listeners, NEW i \in 1..Len(backlog'[m])
      PROVE  /\ Was(m, i) \in 1..Len(backlog[m])
             /\ backlog'[m][i] = backlog[m][Was(m, i)]
             /\ backlog'[m][i] # backlog[l][p]
             /\ backlog'[m][i] \in Conns
  <2>1. Was(m, i) \in 1..Len(backlog[m]) /\ backlog'[m][i] = backlog[m][Was(m, i)]
        /\ ~(m = l /\ Was(m, i) = p)
    <3>1. CASE m # l
      BY <1>1, <1>2, <3>1
    <3>2. CASE m = l
      <4>1. /\ i \in 1..Len(s) /\ backlog'[m][i] = s[i] /\ p \in Nat /\ i \in Nat
            /\ Len(s) = Len(backlog[l]) - 1 /\ Len(backlog[l]) \in Nat
        BY <1>1, <1>2, <3>2
      <4>2. s[i] = IF i < p THEN backlog[l][i] ELSE backlog[l][i + 1]
        BY <4>1
      <4>3. CASE i < p
        BY <3>2, <4>1, <4>2, <4>3
      <4>4. CASE i >= p
        BY <3>2, <4>1, <4>2, <4>4
      <4>5. QED
        BY <4>1, <4>3, <4>4
    <3>3. QED
      BY <3>1, <3>2
  <2>2. backlog[m][Was(m, i)] # backlog[l][p]
    BY <2>1 DEF Queued
  <2>3. QED
    BY <2>1, <2>2, <1>1
<1>4. ASSUME NEW m \in 1..Listeners, NEW i \in 1..Len(backlog'[m])
      PROVE  child'[backlog'[m][i]] = "waiting"
  <2>1. child[backlog[m][Was(m, i)]] = "waiting"
    BY <1>3 DEF Queued
  <2>2. QED
    BY <2>1, <1>3 DEF TypeOK
<1>5. ASSUME NEW m \in 1..Listeners, NEW i \in 1..Len(backlog'[m]),
             NEW n \in 1..Listeners, NEW k \in 1..Len(backlog'[n]),
             backlog'[n][k] = backlog'[m][i]
      PROVE  n = m /\ k = i
  <2>1. n = m /\ Was(n, k) = Was(m, i)
    <3>1. PICK a, b : a = Was(m, i) /\ b = Was(n, k)
      OBVIOUS
    <3>2. a \in 1..Len(backlog[m]) /\ b \in 1..Len(backlog[n]) /\ backlog[n][b] = backlog[m][a]
      <4>1. Was(m, i) \in 1..Len(backlog[m]) /\ backlog'[m][i] = backlog[m][Was(m, i)]
        BY <1>3
      <4>2. Was(n, k) \in 1..Len(backlog[n]) /\ backlog'[n][k] = backlog[n][Was(n, k)]
        BY <1>3
      <4> HIDE DEF Was
      <4>3. QED
        BY <1>5, <3>1, <4>1, <4>2
    <3>3. n = m /\ b = a
      BY <3>2 DEF Queued
    <3>4. QED
      BY <3>1, <3>3
  <2>2. i \in Nat /\ k \in Nat /\ p \in Nat
    <3>1. /\ Len(backlog'[m]) \in Nat /\ Len(backlog'[n]) \in Nat /\ Len(backlog[l]) \in Nat
      BY <1>1, <1>2
    <3>2. QED
      BY <3>1
  <2>3. QED
    BY <2>1, <2>2
<1>6. QED
  BY <1>4, <1>5 DEF Queued

\* A new connection waits in one place.
LEMMA ConnectQueued ==
  ASSUME TypeOK, Queued, NEW c \in Conns, NEW l \in 1..Listeners, Connect(c, l)
  PROVE  Queued'
<1>1. \A m \in 1..Listeners : backlog[m] \in Seq(Conns) /\ Len(backlog[m]) \in Nat
  BY BacklogType
<1>2. /\ backlog'[l] = Append(backlog[l], c)
      /\ \A m \in 1..Listeners : m # l => backlog'[m] = backlog[m]
  BY DEF TypeOK, Connect
<1>3. ASSUME NEW m \in 1..Listeners, NEW i \in 1..Len(backlog'[m])
      PROVE  \/ i \in 1..Len(backlog[m]) /\ backlog'[m][i] = backlog[m][i]
                /\ backlog[m][i] \in Conns /\ backlog[m][i] # c
             \/ m = l /\ i = Len(backlog[l]) + 1 /\ backlog'[m][i] = c
  <2>1. \/ i \in 1..Len(backlog[m]) /\ backlog'[m][i] = backlog[m][i]
        \/ m = l /\ i = Len(backlog[l]) + 1 /\ backlog'[m][i] = c
    <3>1. CASE m = l
      <4>1. /\ Len(backlog'[l]) = Len(backlog[l]) + 1
            /\ \A k \in 1..Len(backlog[l]) : backlog'[l][k] = backlog[l][k]
            /\ backlog'[l][Len(backlog[l]) + 1] = c
        BY <1>1, <1>2, AppendProperties
      <4>2. QED
        BY <3>1, <4>1, <1>1
    <3>2. CASE m # l
      BY <3>2, <1>2
    <3>3. QED
      BY <3>1, <3>2
  <2>2. \A k \in 1..Len(backlog[m]) : backlog[m][k] # c
    <3>1. child[c] = "none" /\ \A k \in 1..Len(backlog[m]) : child[backlog[m][k]] = "waiting"
      BY DEF Queued, Connect
    <3>2. QED
      BY <3>1
  <2>3. QED
    BY <2>1, <2>2, <1>1, BacklogType
<1>4. ASSUME NEW m \in 1..Listeners, NEW i \in 1..Len(backlog'[m])
      PROVE  child'[backlog'[m][i]] = "waiting"
  <2>1. child' = [child EXCEPT ![c] = "waiting"] /\ child \in [Conns -> Status]
    BY DEF Connect, TypeOK
  <2>2. \A k \in 1..Len(backlog[m]) : child[backlog[m][k]] = "waiting"
    BY DEF Queued
  <2>3. QED
    BY <1>3, <2>1, <2>2
<1>5. ASSUME NEW m \in 1..Listeners, NEW i \in 1..Len(backlog'[m]),
             NEW n \in 1..Listeners, NEW k \in 1..Len(backlog'[n]),
             backlog'[n][k] = backlog'[m][i]
      PROVE  n = m /\ k = i
  <2>1. CASE i \in 1..Len(backlog[m]) /\ backlog'[m][i] = backlog[m][i] /\ backlog[m][i] # c
    <3>1. k \in 1..Len(backlog[n]) /\ backlog[n][k] = backlog[m][i]
      BY <2>1, <1>3, <1>5
    <3>2. QED
      BY <2>1, <3>1 DEF Queued
  <2>2. CASE m = l /\ i = Len(backlog[l]) + 1 /\ backlog'[m][i] = c
    BY <2>2, <1>3, <1>5
  <2>3. QED
    BY <2>1, <2>2, <1>3
<1>6. QED
  BY <1>4, <1>5 DEF Queued

(***************************************************************************)
(* Steps that leave the table alone: a connection changes its status, and  *)
(* one that has a slot keeps a child's status.                             *)
(***************************************************************************)

\* Then the table tracks the children as before.
LEMMA TableUnchanged ==
  ASSUME TypeOK, Tracked, TableBounded, UNCHANGED table,
         NEW c \in Conns, NEW st \in Status \ {"unauth"},
         child' = [child EXCEPT ![c] = st],
         \/ child[c] \in {"none", "waiting"}
         \/ child[c] \in {"unauth", "authed"} /\ st \in {"authed", "gone"}
  PROVE  Tracked' /\ TableBounded' /\ child' \in [Conns -> Status]
<1>1. childpipes' = childpipes /\ preauth_addrs' = preauth_addrs
  BY DEF table
<1>2. TableBounded'
  BY <1>1 DEF TableBounded, num_unauthed_for_addr, Slots
<1>3. child' \in [Conns -> Status]
  BY DEF TypeOK
<1>4. \A d \in Unauthed(Conns)' : d \in Unauthed(Conns)
  BY DEF TypeOK, Unauthed
<1>5. ASSUME NEW i \in Slots, childpipes[i] # Free
      PROVE  child'[childpipes[i]] \in {"unauth", "authed", "gone"}
  <2>1. childpipes[i] \in Conns /\ child[childpipes[i]] \in {"unauth", "authed", "gone"}
    BY <1>5 DEF TypeOK, Tracked
  <2>2. QED
    BY <2>1 DEF TypeOK
<1>6. Tracked'
  BY <1>1, <1>4, <1>5 DEF Tracked, Slots
<1>7. QED
  BY <1>2, <1>3, <1>6

\* A client connects.
LEMMA ConnectIInv ==
  ASSUME IInv, NEW c \in Conns, NEW l \in 1..Listeners, Connect(c, l)
  PROVE  IInv'
<1>1. Tracked' /\ TableBounded' /\ child' \in [Conns -> Status]
  BY TableUnchanged DEF IInv, Connect, Status
<1>2. Queued'
  BY ConnectQueued DEF IInv
<1>3. backlog' \in [1..Listeners -> Seq(Conns)]
  BY BacklogType, AppendProperties DEF IInv, TypeOK, Connect
<1>4. TypeOK'
  BY <1>1, <1>3 DEF IInv, TypeOK, Connect, table, Slots
<1>5. FdsFresh'
  BY DEF IInv, TypeOK, FdsFresh, Closed, Connect, table, Slots
<1>6. QED
  BY <1>1, <1>2, <1>4, <1>5 DEF IInv

\* A socket is served with no pipe left from the answer of select.
LEMMA AtSocketFresh ==
  ASSUME IInv, NEW l \in 1..Listeners, AtSocket(l), Advance, fds' = fds
  PROVE  next' \in 0..Listeners /\ fds.pipes = {} /\ FdsFresh'
<1>1. next = l /\ fds.pipes = {}
  BY DEF IInv, FdsFresh, AtSocket
<1>2. next' \in 0..Listeners
  BY <1>1, SvrMainAssumption DEF Advance
<1>3. QED
  BY <1>1, <1>2 DEF FdsFresh

\* A child that has authenticated or exited has no place in a backlog.
LEMMA ChildIInv ==
  ASSUME IInv, NEW c \in Conns, Authenticate(c) \/ Exit(c)
  PROVE  IInv'
<1>1. PICK st \in {"authed", "gone"} : child' = [child EXCEPT ![c] = st]
  BY DEF Authenticate, Exit
<1>2. /\ child[c] \in {"unauth", "authed"}
      /\ UNCHANGED <<table, backlog, fds, failures>>
  BY DEF Authenticate, Exit
<1>3. next' \in 0..Listeners /\ (fds.pipes # {} => next' = 1)
  <2>1. CASE next' = next
    BY <2>1 DEF IInv, TypeOK, FdsFresh
  <2>2. CASE InAccept /\ Advance
    BY <1>2, <2>2, AtSocketFresh DEF InAccept
  <2>3. QED
    BY <2>1, <2>2 DEF Authenticate, Exit
<1>4. Tracked' /\ TableBounded' /\ child' \in [Conns -> Status]
  BY <1>1, <1>2, TableUnchanged DEF IInv, Status
<1>5. TypeOK'
  BY <1>2, <1>4, <1>3 DEF IInv, TypeOK, table, Slots
<1>6. Queued'
  <2>1. \A l \in 1..Listeners : \A i \in 1..Len(backlog[l]) :
           child'[backlog[l][i]] = "waiting"
    BY <1>1, <1>2, BacklogType DEF IInv, TypeOK, Queued
  <2>2. QED
    BY <1>2, <2>1 DEF IInv, Queued
<1>7. FdsFresh'
  <2>1. \A i \in fds.pipes : Closed(childpipes[i])'
    BY <1>1, <1>2 DEF IInv, TypeOK, FdsFresh, Closed, table
  <2>2. QED
    BY <1>2, <1>3, <2>1 DEF IInv, FdsFresh, Closed, table
<1>8. QED
  BY <1>4, <1>5, <1>6, <1>7 DEF IInv

\* A client gives up while it waits in a backlog.
LEMMA GiveUpIInv ==
  ASSUME IInv, NEW c \in Conns, NEW l \in 1..Listeners, GiveUp(c, l)
  PROVE  IInv'
<1>1. PICK p \in 1..Len(backlog[l]) :
         backlog[l][p] = c /\ backlog' = [backlog EXCEPT ![l] = RemoveAt(@, p)]
  BY DEF GiveUp
<1> DEFINE s == RemoveAt(backlog[l], p)
<1>2. backlog[l] \in Seq(Conns) /\ Len(backlog[l]) \in Nat /\ p \in Nat
  BY BacklogType DEF IInv
<1>3. /\ s \in Seq(Conns) /\ Len(s) = Len(backlog[l]) - 1
      /\ \A i \in 1..Len(s) : s[i] = IF i < p THEN backlog[l][i] ELSE backlog[l][i + 1]
  <2> DEFINE a == SubSeq(backlog[l], 1, p - 1)
             b == SubSeq(backlog[l], p + 1, Len(backlog[l]))
  <2>1. /\ a \in Seq(Conns) /\ Len(a) = p - 1
        /\ \A i \in 1..(p - 1) : a[i] = backlog[l][i]
    BY <1>2, SubSeqProperties
  <2>2. /\ b \in Seq(Conns) /\ Len(b) = Len(backlog[l]) - p
        /\ \A i \in 1..(Len(backlog[l]) - p) : b[i] = backlog[l][p + i]
    <3>1. \A i \in (p + 1)..Len(backlog[l]) : backlog[l][i] \in Conns
      BY <1>2
    <3>2. /\ b \in Seq(Conns)
          /\ Len(b) = IF p + 1 <= Len(backlog[l]) THEN Len(backlog[l]) - (p + 1) + 1 ELSE 0
          /\ \A i \in 1..(Len(backlog[l]) - (p + 1) + 1) : b[i] = backlog[l][(p + 1) + i - 1]
      BY <1>2, <3>1, SubSeqProperties
    <3> HIDE DEF b
    <3>3. QED
      BY <1>2, <3>2
  <2>3. s = a \o b
    BY DEF RemoveAt
  <2> HIDE DEF a, b, s
  <2>4. /\ s \in Seq(Conns) /\ Len(s) = Len(a) + Len(b)
        /\ \A i \in 1..(Len(a) + Len(b)) : s[i] = IF i <= Len(a) THEN a[i] ELSE b[i - Len(a)]
    BY <2>1, <2>2, <2>3, ConcatProperties
  <2>5. Len(s) = Len(backlog[l]) - 1
    BY <2>1, <2>2, <2>4, <1>2
  <2>6. ASSUME NEW i \in 1..Len(s)
        PROVE  s[i] = IF i < p THEN backlog[l][i] ELSE backlog[l][i + 1]
    <3>1. i \in Nat /\ i >= 1 /\ i <= Len(backlog[l]) - 1 /\ i \in 1..(Len(a) + Len(b))
      BY <1>2, <2>4, <2>5
    <3>2. CASE i < p
      <4>1. i <= Len(a) /\ i \in 1..(p - 1)
        BY <1>2, <2>1, <3>1, <3>2
      <4>2. s[i] = a[i] /\ a[i] = backlog[l][i]
        BY <2>1, <2>4, <3>1, <4>1
      <4>3. QED
        BY <3>2, <4>2
    <3>3. CASE ~(i < p)
      <4>1. PICK k : k = i - Len(a)
        OBVIOUS
      <4>2. ~(i <= Len(a)) /\ k \in 1..(Len(backlog[l]) - p) /\ p + k = i + 1
        BY <1>2, <2>1, <3>1, <3>3, <4>1
      <4>3. s[i] = b[k] /\ b[k] = backlog[l][p + k]
        BY <2>2, <2>4, <3>1, <4>1, <4>2
      <4>4. QED
        BY <3>3, <4>2, <4>3
    <3>4. QED
      BY <3>2, <3>3
  <2>7. QED
    BY <2>4, <2>5, <2>6
<1>4. backlog' = [backlog EXCEPT ![l] = s] /\ child' = [child EXCEPT ![backlog[l][p]] = "gone"]
  BY <1>1 DEF GiveUp
<1> HIDE DEF s
<1>5. Queued'
  BY <1>3, <1>4, QueuedRemoval DEF IInv
<1>6. Tracked' /\ TableBounded' /\ child' \in [Conns -> Status]
  BY TableUnchanged DEF IInv, GiveUp, Status
<1>7. TypeOK'
  BY <1>3, <1>4, <1>6 DEF IInv, TypeOK, GiveUp, table, Slots
<1>8. FdsFresh'
  BY DEF IInv, TypeOK, FdsFresh, Closed, GiveUp, table, Slots
<1>9. QED
  BY <1>5, <1>6, <1>7, <1>8 DEF IInv

(***************************************************************************)
(* The loop.  A listening socket is served when no pipe is left to close.  *)
(***************************************************************************)

\* select reports pipes that are closed, and they stay closed.
LEMMA SelectIInv ==
  ASSUME IInv, Select
  PROVE  IInv'
<1>1. TypeOK'
  BY SvrMainAssumption DEF IInv, TypeOK, Select, Readable, table, Slots
<1>2. FdsFresh'
  BY DEF IInv, TypeOK, Select, Readable, FdsFresh, Closed, table, Slots
<1>3. Queued' /\ Tracked' /\ TableBounded'
  BY DEF IInv, Select, Queued, Tracked, TableBounded, Unauthed, num_unauthed_for_addr, table, Slots
<1>4. QED
  BY <1>1, <1>2, <1>3 DEF IInv

\* No child that has not authenticated loses its slot.
LEMMA FreeSlotsIInv ==
  ASSUME IInv, FreeSlots
  PROVE  IInv'
<1>1. /\ childpipes' = [i \in Slots |-> IF i \in fds.pipes THEN Free ELSE childpipes[i]]
      /\ preauth_addrs' = [i \in Slots |-> IF i \in fds.pipes THEN Free ELSE preauth_addrs[i]]
      /\ fds' = [fds EXCEPT !.pipes = {}] /\ next = 1
      /\ UNCHANGED <<backlog, child, next, failures>>
  BY DEF FreeSlots, Freed
<1>2. TypeOK'
  BY <1>1 DEF IInv, TypeOK, Slots
<1>3. Queued'
  BY <1>1 DEF IInv, Queued
<1>4. FdsFresh'
  BY <1>1 DEF IInv, TypeOK, FdsFresh
<1>5. Tracked'
  <2>1. \A i \in Slots : /\ i \in fds.pipes => childpipes'[i] = Free
                         /\ i \notin fds.pipes => /\ childpipes'[i] = childpipes[i]
                                                  /\ preauth_addrs'[i] = preauth_addrs[i]
    BY <1>1
  <2>2. ASSUME NEW c \in Unauthed(Conns)'
        PROVE  \E i \in Slots : childpipes'[i] = c
    <3>1. c \in Conns /\ child[c] = "unauth"
      BY <1>1 DEF Unauthed
    <3>2. PICK i \in Slots : childpipes[i] = c
      BY <3>1 DEF IInv, Tracked, Unauthed
    <3>3. i \notin fds.pipes
      BY <3>1, <3>2 DEF IInv, FdsFresh, Closed
    <3>4. QED
      BY <2>1, <3>2, <3>3
  <2>3. ASSUME NEW i \in Slots, childpipes'[i] # Free
        PROVE  /\ child'[childpipes'[i]] \in {"unauth", "authed", "gone"}
               /\ preauth_addrs'[i] = Addr[childpipes'[i]]
               /\ \A k \in Slots \ {i} : childpipes'[k] # childpipes'[i]
    BY <1>1, <2>1, <2>3 DEF IInv, Tracked
  <2>4. QED
    BY <2>2, <2>3 DEF Tracked, Slots
<1>6. TableBounded'
  <2>1. SUFFICES ASSUME NEW c \in Conns
                 PROVE  num_unauthed_for_addr(Addr[c])' <= MAX_UNAUTH_PER_IP
    BY DEF TableBounded
  <2>2. UsedBy(Addr[c])' \in SUBSET UsedBy(Addr[c])
    BY <1>1 DEF UsedBy, Slots
  <2>3. Cardinality(UsedBy(Addr[c])') <= Cardinality(UsedBy(Addr[c]))
    BY <2>2, UsedByFinite, FS_Subset
  <2>4. /\ Cardinality(UsedBy(Addr[c])') \in Nat /\ Cardinality(UsedBy(Addr[c])) \in Nat
        /\ num_unauthed_for_addr(Addr[c])' = Cardinality(UsedBy(Addr[c])')
        /\ Cardinality(UsedBy(Addr[c])) <= MAX_UNAUTH_PER_IP
    BY UsedByFinite, FS_CardinalityType DEF IInv, TableBounded
  <2>5. QED
    BY <2>3, <2>4, SvrMainAssumption
<1>7. QED
  BY <1>2, <1>3, <1>4, <1>5, <1>6 DEF IInv

\* A socket that select did not report, or whose accept fails.
LEMMA SkipIInv ==
  ASSUME IInv, NEW l \in 1..Listeners, Skip(l) \/ AcceptFails(l)
  PROVE  IInv'
<1>1. /\ AtSocket(l) /\ Advance /\ UNCHANGED <<table, backlog, child, fds>>
      /\ failures' \in 0..MaxFailures
  BY SvrMainAssumption DEF Skip, AcceptFails, IInv, TypeOK
<1>2. next' \in 0..Listeners /\ FdsFresh'
  BY <1>1, AtSocketFresh
<1>3. TypeOK'
  BY <1>2, <1>1 DEF IInv, TypeOK, table, Slots
<1>4. Queued' /\ Tracked' /\ TableBounded'
  BY <1>1 DEF IInv, Queued, Tracked, TableBounded, Unauthed, num_unauthed_for_addr, table, Slots
<1>5. QED
  BY <1>2, <1>3, <1>4 DEF IInv

\* Head and Tail of a backlog, in the terms of QueuedRemoval.
LEMMA Dequeue ==
  ASSUME TypeOK, Queued, NEW l \in 1..Listeners, backlog[l] # <<>>,
         backlog' = [backlog EXCEPT ![l] = Tail(@)],
         NEW st, child' = [child EXCEPT ![Head(backlog[l])] = st]
  PROVE  /\ Head(backlog[l]) \in Conns /\ child[Head(backlog[l])] = "waiting"
         /\ backlog' \in [1..Listeners -> Seq(Conns)]
         /\ Queued'
<1>1. backlog[l] \in Seq(Conns) /\ Len(backlog[l]) \in Nat
  BY BacklogType
<1> DEFINE s == Tail(backlog[l])
<1>2. /\ Head(backlog[l]) = backlog[l][1] /\ 1 \in 1..Len(backlog[l])
      /\ s \in Seq(Conns) /\ Len(s) = Len(backlog[l]) - 1
      /\ \A i \in 1..Len(s) : s[i] = backlog[l][i + 1]
  BY <1>1, HeadTailProperties, EmptySeq
<1>3. backlog' = [backlog EXCEPT ![l] = s]
  OBVIOUS
<1> HIDE DEF s
<1>4. \A i \in 1..Len(s) : s[i] = IF i < 1 THEN backlog[l][i] ELSE backlog[l][i + 1]
  BY <1>1, <1>2
<1>5. Queued'
  BY <1>2, <1>3, <1>4, QueuedRemoval
<1>6. Head(backlog[l]) \in Conns /\ child[Head(backlog[l])] = "waiting"
  BY <1>2, BacklogType DEF Queued
<1>7. QED
  BY <1>2, <1>3, <1>5, <1>6 DEF TypeOK

\* The connection at the head is closed: Refuse, or Fail.
LEMMA RefuseIInv ==
  ASSUME IInv, NEW l \in 1..Listeners, Refuse(l) \/ Fail(l)
  PROVE  IInv'
<1>1. /\ AtSocket(l) /\ Advance /\ backlog[l] # <<>>
      /\ child' = [child EXCEPT ![Head(backlog[l])] = "refused"]
      /\ backlog' = [backlog EXCEPT ![l] = Tail(@)]
      /\ UNCHANGED table /\ fds' = fds
  BY DEF Refuse, Fail, table
<1>2. failures' \in 0..MaxFailures
  <2>1. failures' = failures \/ (failures < MaxFailures /\ failures' = failures + 1)
    BY DEF Refuse, Fail
  <2>2. QED
    BY <2>1, SvrMainAssumption DEF IInv, TypeOK
<1>3. next' \in 0..Listeners /\ FdsFresh'
  BY <1>1, AtSocketFresh
<1>4. /\ Head(backlog[l]) \in Conns /\ child[Head(backlog[l])] = "waiting"
      /\ backlog' \in [1..Listeners -> Seq(Conns)]
      /\ Queued'
  BY <1>1, Dequeue DEF IInv
<1>5. Tracked' /\ TableBounded' /\ child' \in [Conns -> Status]
  BY <1>1, <1>4, TableUnchanged DEF IInv, Status
<1>6. TypeOK'
  BY <1>1, <1>2, <1>3, <1>4, <1>5 DEF IInv, TypeOK, table, Slots
<1>7. QED
  BY <1>3, <1>4, <1>5, <1>6 DEF IInv

\* A connection is accepted below both limits, into a free slot.
LEMMA AcceptIInv ==
  ASSUME IInv, NEW l \in 1..Listeners, Accept(l)
  PROVE  IInv'
<1> DEFINE c == Head(backlog[l])
<1>1. /\ AtSocket(l) /\ Advance /\ backlog[l] # <<>>
      /\ child' = [child EXCEPT ![c] = "unauth"]
      /\ backlog' = [backlog EXCEPT ![l] = Tail(@)]
      /\ childpipes' = [childpipes EXCEPT ![conn_idx] = c]
      /\ preauth_addrs' = [preauth_addrs EXCEPT ![conn_idx] = Addr[c]]
      /\ num_unauthed_total < MAX_UNAUTH_CLIENTS
      /\ num_unauthed_for_addr(Addr[c]) < MAX_UNAUTH_PER_IP
      /\ fds' = fds /\ failures' = failures
  BY DEF Accept, Admits
<1>2. next' \in 0..Listeners /\ FdsFresh'
  BY <1>1, AtSocketFresh
<1>3. /\ c \in Conns /\ child[c] = "waiting"
      /\ backlog' \in [1..Listeners -> Seq(Conns)]
      /\ Queued'
  BY <1>1, Dequeue DEF IInv
<1>4. PICK j \in Slots : j = conn_idx /\ childpipes[j] = Free
  BY <1>1, ConnIdxFree DEF IInv
<1> HIDE DEF c
<1>5. TypeOK'
  BY <1>1, <1>2, <1>3, <1>4 DEF IInv, TypeOK, Status, Slots
<1>6. /\ childpipes'[j] = c /\ preauth_addrs'[j] = Addr[c]
      /\ \A i \in Slots \ {j} : /\ childpipes'[i] = childpipes[i]
                                /\ preauth_addrs'[i] = preauth_addrs[i]
  BY <1>1, <1>4 DEF IInv, TypeOK
<1>7. child'[c] = "unauth" /\ \A d \in Conns \ {c} : child'[d] = child[d]
  BY <1>1, <1>3 DEF IInv, TypeOK
<1>8. Tracked'
  <2>1. \A i \in Slots : childpipes[i] # c
    BY <1>3, FreeAssumption DEF IInv, Tracked
  <2>2. ASSUME NEW d \in Unauthed(Conns)'
        PROVE  \E i \in Slots : childpipes'[i] = d
    <3>1. CASE d = c
      BY <3>1, <1>6
    <3>2. CASE d # c
      <4>1. d \in Conns /\ child[d] = "unauth"
        BY <3>2, <1>7 DEF Unauthed
      <4>2. PICK i \in Slots : childpipes[i] = d
        BY <4>1 DEF IInv, Tracked, Unauthed
      <4>3. i # j
        BY <1>4, <4>1, <4>2, FreeAssumption
      <4>4. QED
        BY <4>2, <4>3, <1>6
    <3>3. QED
      BY <3>1, <3>2
  <2>3. ASSUME NEW i \in Slots, childpipes'[i] # Free
        PROVE  /\ child'[childpipes'[i]] \in {"unauth", "authed", "gone"}
               /\ preauth_addrs'[i] = Addr[childpipes'[i]]
               /\ \A k \in Slots \ {i} : childpipes'[k] # childpipes'[i]
    <3>1. CASE i = j
      BY <3>1, <1>6, <1>7, <2>1
    <3>2. CASE i # j
      <4>1. childpipes'[i] = childpipes[i] /\ preauth_addrs'[i] = preauth_addrs[i]
        BY <3>2, <1>6
      <4>2. childpipes[i] \in Conns \ {c}
        BY <4>1, <2>1, <2>3 DEF IInv, TypeOK
      <4>3. QED
        BY <2>3, <4>1, <4>2, <1>6, <1>7 DEF IInv, Tracked
    <3>3. QED
      BY <3>1, <3>2
  <2>4. QED
    BY <2>2, <2>3 DEF Tracked, Slots
<1>9. TableBounded'
  <2>1. SUFFICES ASSUME NEW d \in Conns
                 PROVE  num_unauthed_for_addr(Addr[d])' <= MAX_UNAUTH_PER_IP
    BY DEF TableBounded
  <2>2. /\ Cardinality(UsedBy(Addr[d])) \in Nat /\ IsFiniteSet(UsedBy(Addr[d]))
        /\ num_unauthed_for_addr(Addr[d]) = Cardinality(UsedBy(Addr[d]))
        /\ num_unauthed_for_addr(Addr[d])' = Cardinality(UsedBy(Addr[d])')
    BY UsedByFinite, FS_CardinalityType
  <2>3. CASE Addr[d] = Addr[c]
    <3>1. UsedBy(Addr[d])' = UsedBy(Addr[d]) \cup {j} /\ j \notin UsedBy(Addr[d])
      <4>1. j \in UsedBy(Addr[d])'
        BY <1>3, <1>6, <2>3, FreeAssumption DEF UsedBy, Slots
      <4>2. \A i \in Slots \ {j} : i \in UsedBy(Addr[d])' <=> i \in UsedBy(Addr[d])
        BY <1>6 DEF UsedBy, Slots
      <4>3. j \notin UsedBy(Addr[d]) /\ UsedBy(Addr[d]) \subseteq Slots
            /\ UsedBy(Addr[d])' \subseteq Slots
        BY <1>4 DEF UsedBy, Slots
      <4>4. QED
        BY <4>1, <4>2, <4>3
    <3>2. Cardinality(UsedBy(Addr[d])') = Cardinality(UsedBy(Addr[d])) + 1
      BY <3>1, <2>2, FS_AddElement
    <3>3. num_unauthed_for_addr(Addr[d]) < MAX_UNAUTH_PER_IP
      BY <1>1, <2>3
    <3>4. QED
      BY <2>2, <3>2, <3>3, SvrMainAssumption
  <2>4. CASE Addr[d] # Addr[c]
    <3>1. UsedBy(Addr[d])' = UsedBy(Addr[d])
      BY <1>4, <1>6, <2>4 DEF UsedBy, Slots
    <3>2. QED
      BY <2>2, <3>1 DEF IInv, TableBounded
  <2>5. QED
    BY <2>3, <2>4
<1>10. QED
  BY <1>2, <1>3, <1>5, <1>8, <1>9 DEF IInv

(***************************************************************************)
(* The theorems.                                                           *)
(***************************************************************************)

\* At the start the table and the backlogs are empty.
LEMMA InitIInv == Init => IInv
<1> SUFFICES ASSUME Init PROVE IInv
  OBVIOUS
<1>2. TypeOK
  BY SvrMainAssumption DEF Init, TypeOK, Status
<1>3. Tracked /\ FdsFresh
  BY DEF Init, Tracked, Unauthed, FdsFresh
<1>4. Queued
  BY DEF Init, Queued
<1>5. TableBounded
  <2>1. \A a : UsedBy(a) = {}
    BY DEF Init, UsedBy
  <2>2. QED
    BY <2>1, UsedByFinite, FS_EmptySet, SvrMainAssumption DEF TableBounded
<1>6. QED
  BY <1>2, <1>3, <1>4, <1>5 DEF IInv

\* The invariant is inductive.
LEMMA NextIInv == IInv /\ [Next]_vars => IInv'
<1> SUFFICES ASSUME IInv, [Next]_vars PROVE IInv'
  OBVIOUS
<1>2. CASE Loop
  BY <1>2, SelectIInv, FreeSlotsIInv, SkipIInv, RefuseIInv, AcceptIInv DEF Loop
<1>3. CASE Clients
  BY <1>3, ChildIInv, ConnectIInv, GiveUpIInv DEF Clients
<1>4. CASE UNCHANGED vars
  BY <1>4 DEF vars, IInv, TypeOK, Tracked, Queued, FdsFresh, TableBounded, Unauthed, Closed,
             num_unauthed_for_addr, Slots
<1>5. QED
  BY <1>2, <1>3, <1>4 DEF Next

\* Children that have slots of their own are no more than the slots.
LEMMA TrackedCardinality ==
  ASSUME NEW C, NEW S, IsFiniteSet(S), NEW pipes,
         \A c \in C : \E i \in S : pipes[i] = c
  PROVE  IsFiniteSet(C) /\ Cardinality(C) <= Cardinality(S)
<1> DEFINE f == [c \in C |-> CHOOSE i \in S : pipes[i] = c]
<1>1. \A c \in C : f[c] \in S /\ pipes[f[c]] = c
  OBVIOUS
<1>2. f \in [C -> S] /\ DOMAIN f = C
  BY <1>1
<1>3. f \in Injection(C, S)
  BY <1>1, <1>2, Zenon DEF Injection, IsInjective
<1>4. QED
  BY <1>3, FS_Injection

\* Each child that is not authenticated has a slot of its own, so the limits of
\* the table are limits on the children.
LEMMA IInvLimitHolds == IInv => LimitHolds
<1> SUFFICES ASSUME IInv PROVE LimitHolds
  OBVIOUS
<1>2. Cardinality(Unauthed(Conns)) <= MAX_UNAUTH_CLIENTS
  BY SlotsFinite, TrackedCardinality DEF IInv, Tracked
<1>3. ASSUME NEW d \in Conns
      PROVE  Cardinality(Unauthed({c \in Conns : Addr[c] = Addr[d]})) <= MAX_UNAUTH_PER_IP
  <2> DEFINE C == Unauthed({c \in Conns : Addr[c] = Addr[d]})
             S == UsedBy(Addr[d])
  <2>1. \A c \in C : \E i \in S : childpipes[i] = c
    BY FreeAssumption DEF IInv, Tracked, UsedBy, Unauthed
  <2>2. IsFiniteSet(S) /\ Cardinality(S) <= MAX_UNAUTH_PER_IP
    BY UsedByFinite DEF IInv, TableBounded
  <2>3. IsFiniteSet(C) /\ Cardinality(C) <= Cardinality(S)
    BY <2>1, <2>2, TrackedCardinality
  <2>4. Cardinality(C) \in Nat /\ Cardinality(S) \in Nat
    BY <2>2, <2>3, FS_CardinalityType
  <2>5. QED
    BY <2>2, <2>3, <2>4, SvrMainAssumption
<1>4. QED
  BY <1>2, <1>3 DEF LimitHolds

\* Type correctness of the server's state.
THEOREM TypeCorrect == Spec => []TypeOK
<1>1. IInv => TypeOK
  BY DEF IInv
<1>2. QED
  BY <1>1, InitIInv, NextIInv, PTL DEF Spec

\* main_noinetd knows of every child that has not authenticated, in one slot
\* and with its address, whatever the order in which children end and
\* connections come and go between select and accept.
THEOREM ChildrenTracked == Spec => []Tracked
<1>1. IInv => Tracked
  BY DEF IInv
<1>2. QED
  BY <1>1, InitIInv, NextIInv, PTL DEF Spec

\* MAX_UNAUTH_CLIENTS and MAX_UNAUTH_PER_IP bound the children there really
\* are, for any number of connections (the checks before fork in
\* main_noinetd).
THEOREM Limits == Spec => []LimitHolds
BY InitIInv, NextIInv, IInvLimitHolds, PTL DEF Spec
=============================================================================
