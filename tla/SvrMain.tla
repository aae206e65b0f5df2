------------------------------ MODULE SvrMain -------------------------------
(***************************************************************************)
(* The listening server, svr-main.c main_noinetd: one process that accepts *)
(* connections, forks a child for each and keeps, in childpipes[] and      *)
(* preauth_addrs[], the children that have not authenticated yet.  A child *)
(* holds the other end of its pipe until it has authenticated              *)
(* (send_msg_userauth_success) or exits, so the pipe reads end of file     *)
(* then.                                                                   *)
(*                                                                         *)
(* A pass of the loop takes the answer of select, frees the slots whose    *)
(* pipe was readable, and then serves the listening sockets in order.      *)
(* Clients and children run between any two of these steps.  The listening *)
(* sockets block: accept at one whose client has gone in the meantime      *)
(* waits for the next client, or for the SIGCHLD of a child that exits.    *)
(***************************************************************************)
EXTENDS Naturals, Sequences, FiniteSets, SequencesExt

CONSTANTS MAX_UNAUTH_CLIENTS, MAX_UNAUTH_PER_IP,
          Listeners,     \* number of listening sockets
          Conns,         \* connections that will ever be made
          Addr,          \* Addr[c]: the client's address
          MaxFailures    \* bound on failures of accept(), pipe() and fork()

ASSUME SvrMainAssumption ==
    /\ {MAX_UNAUTH_CLIENTS, MAX_UNAUTH_PER_IP, Listeners} \subseteq Nat \ {0}
    /\ DOMAIN Addr = Conns
    /\ MaxFailures \in Nat

Slots == 1..MAX_UNAUTH_CLIENTS
Free == "free"

ASSUME FreeAssumption == Free \notin Conns

VARIABLES childpipes,    \* childpipes[i]: the child whose pipe it is, or Free
          preauth_addrs, \* preauth_addrs[i]: the address it came from
          backlog,       \* backlog[l]: connections waiting at socket l
          child,         \* child[c]: what has become of connection c
          fds,           \* what select returned: pipes and sockets
          next,          \* the loop: 0 before select, then the next socket
          failures       \* failures of accept, pipe and fork so far

vars == <<childpipes, preauth_addrs, backlog, child, fds, next, failures>>
table == <<childpipes, preauth_addrs>>

\* A child is "unauth", "authed" or "gone"; a connection is "none" before it
\* is made, "waiting" in the backlog and "refused" when the parent closes it.
Status == {"none", "waiting", "refused", "unauth", "authed", "gone"}

\* The step that is left to the listening sockets.
AtSocket(l) == next = l /\ (l = 1 => fds.pipes = {})
Advance == next' = IF next = Listeners THEN 0 ELSE next + 1

\* The parent is in accept at a socket that has no client any more.
InAccept == \E l \in 1..Listeners : AtSocket(l) /\ l \in fds.socks /\ backlog[l] = <<>>

(***************************************************************************)
(* Clients and children.                                                   *)
(***************************************************************************)

Connect(c, l) ==
    /\ child[c] = "none"
    /\ child' = [child EXCEPT ![c] = "waiting"]
    /\ backlog' = [backlog EXCEPT ![l] = Append(@, c)]
    /\ UNCHANGED <<table, fds, next, failures>>

\* m_close(svr_ses.childpipe) in send_msg_userauth_success.
Authenticate(c) ==
    /\ child[c] = "unauth"
    /\ child' = [child EXCEPT ![c] = "authed"]
    /\ UNCHANGED <<table, backlog, fds, next, failures>>

\* SIGCHLD, whose handler is set without SA_RESTART, ends an accept that waits.
Exit(c) ==
    /\ child[c] \in {"unauth", "authed"}
    /\ child' = [child EXCEPT ![c] = "gone"]
    /\ IF InAccept THEN Advance ELSE next' = next
    /\ UNCHANGED <<table, backlog, fds, failures>>

\* A client that gives up while it waits leaves the backlog.  (Where the system
\* leaves it in the backlog, it is accepted and its child exits.)
GiveUp(c, l) ==
    /\ child[c] = "waiting"
    /\ \E i \in 1..Len(backlog[l]) :
          backlog[l][i] = c /\ backlog' = [backlog EXCEPT ![l] = RemoveAt(@, i)]
    /\ child' = [child EXCEPT ![c] = "gone"]
    /\ UNCHANGED <<table, fds, next, failures>>

(***************************************************************************)
(* The loop of main_noinetd.                                               *)
(***************************************************************************)

\* Faulty variant: the child keeps its pipe after it has authenticated.
ClosedByExit(c) == child[c] = "gone"

\* The pipe of a child that has authenticated or exited is readable.
Closed(c) == child[c] \in {"authed", "gone"}
Readable ==
    [pipes |-> {i \in Slots : childpipes[i] # Free /\ Closed(childpipes[i])},
     socks |-> {l \in 1..Listeners : backlog[l] # <<>>}]

Select ==
    /\ next = 0
    /\ Readable.pipes # {} \/ Readable.socks # {}
    /\ fds' = Readable
    /\ next' = 1
    /\ UNCHANGED <<table, backlog, child, failures>>

\* Slots after the pipes that select reported have been closed.
Freed(f) == [i \in Slots |-> IF i \in f.pipes THEN Free ELSE childpipes[i]]

FreeSlots ==
    /\ next = 1 /\ fds.pipes # {}
    /\ childpipes' = Freed(fds)
    /\ preauth_addrs' = [i \in Slots |-> IF i \in fds.pipes THEN Free ELSE preauth_addrs[i]]
    /\ fds' = [fds EXCEPT !.pipes = {}]
    /\ UNCHANGED <<backlog, child, next, failures>>

\* The loop over the table: the last free slot is taken.
num_unauthed_total == Cardinality({i \in Slots : childpipes[i] # Free})
num_unauthed_for_addr(a) ==
    Cardinality({i \in Slots : childpipes[i] # Free /\ preauth_addrs[i] = a})

\* Faulty variant: the last slot the loop looked at.
LastSlot == Max(Slots)

conn_idx == Max({i \in Slots : childpipes[i] = Free})

\* Faulty variant: the limit for an address leaves one more.
AdmitsOneMore(a) ==
    num_unauthed_total < MAX_UNAUTH_CLIENTS /\ num_unauthed_for_addr(a) <= MAX_UNAUTH_PER_IP

Admits(a) ==
    num_unauthed_total < MAX_UNAUTH_CLIENTS /\ num_unauthed_for_addr(a) < MAX_UNAUTH_PER_IP

\* The socket has nothing to say.
Skip(l) ==
    /\ AtSocket(l) /\ l \notin fds.socks
    /\ Advance
    /\ UNCHANGED <<table, backlog, child, fds, failures>>

\* accept() fails and the connection stays where it is.
AcceptFails(l) ==
    /\ AtSocket(l) /\ l \in fds.socks /\ backlog[l] # <<>> /\ failures < MaxFailures
    /\ failures' = failures + 1
    /\ Advance
    /\ UNCHANGED <<table, backlog, child, fds>>

Refuse(l) ==
    /\ AtSocket(l) /\ l \in fds.socks /\ backlog[l] # <<>>
    /\ ~Admits(Addr[Head(backlog[l])])
    /\ child' = [child EXCEPT ![Head(backlog[l])] = "refused"]
    /\ backlog' = [backlog EXCEPT ![l] = Tail(@)]
    /\ Advance
    /\ UNCHANGED <<table, fds, failures>>

\* pipe() or fork() fails, or accept() reports that the client has gone: the
\* connection is closed.
Fail(l) ==
    /\ AtSocket(l) /\ l \in fds.socks /\ backlog[l] # <<>>
    /\ Admits(Addr[Head(backlog[l])]) /\ failures < MaxFailures
    /\ child' = [child EXCEPT ![Head(backlog[l])] = "refused"]
    /\ backlog' = [backlog EXCEPT ![l] = Tail(@)]
    /\ failures' = failures + 1
    /\ Advance
    /\ UNCHANGED <<table, fds>>

Accept(l) ==
    /\ AtSocket(l) /\ l \in fds.socks /\ backlog[l] # <<>>
    /\ LET c == Head(backlog[l])
       IN /\ Admits(Addr[c])
          /\ childpipes' = [childpipes EXCEPT ![conn_idx] = c]
          /\ preauth_addrs' = [preauth_addrs EXCEPT ![conn_idx] = Addr[c]]
          /\ child' = [child EXCEPT ![c] = "unauth"]
    /\ backlog' = [backlog EXCEPT ![l] = Tail(@)]
    /\ Advance
    /\ UNCHANGED <<fds, failures>>

Init ==
    /\ childpipes = [i \in Slots |-> Free]
    /\ preauth_addrs = [i \in Slots |-> Free]
    /\ backlog = [l \in 1..Listeners |-> <<>>]
    /\ child = [c \in Conns |-> "none"]
    /\ fds = [pipes |-> {}, socks |-> {}]
    /\ next = 0 /\ failures = 0

Loop ==
    \/ Select \/ FreeSlots
    \/ \E l \in 1..Listeners : Skip(l) \/ AcceptFails(l) \/ Refuse(l) \/ Fail(l) \/ Accept(l)
Clients ==
    \E c \in Conns :
       \/ Authenticate(c) \/ Exit(c)
       \/ \E l \in 1..Listeners : Connect(c, l) \/ GiveUp(c, l)
Next == Loop \/ Clients

Spec == Init /\ [][Next]_vars

\* The parent's loop goes on unless it waits in select or in accept, where no step
\* of Loop is possible; a child authenticates or is ended by the authentication
\* timeout (checktimeouts).
FairSpec ==
    /\ Spec /\ WF_vars(Loop)
    /\ \A c \in Conns : WF_vars(child[c] = "unauth" /\ (Authenticate(c) \/ Exit(c)))

(***************************************************************************)
(* Properties.                                                             *)
(***************************************************************************)

TypeOK ==
    /\ childpipes \in [Slots -> Conns \cup {Free}]
    /\ DOMAIN preauth_addrs = Slots
    /\ child \in [Conns -> Status]
    /\ backlog \in [1..Listeners -> Seq(Conns)]
    /\ fds \in [pipes : SUBSET Slots, socks : SUBSET (1..Listeners)]
    /\ next \in 0..Listeners /\ failures \in 0..MaxFailures

Unauthed(S) == {c \in S : child[c] = "unauth"}

\* The limits hold for the children there really are, not only for the
\* entries of the table: at no time are more than MAX_UNAUTH_CLIENTS of them
\* unauthenticated, or more than MAX_UNAUTH_PER_IP from one address.
LimitHolds ==
    /\ Cardinality(Unauthed(Conns)) <= MAX_UNAUTH_CLIENTS
    /\ \A a \in {Addr[c] : c \in Conns} :
          Cardinality(Unauthed({c \in Conns : Addr[c] = a})) <= MAX_UNAUTH_PER_IP

\* Every unauthenticated child has one slot, with the address it came from,
\* and no slot is for a connection without a child (conn_idx, FreeSlots).
Tracked ==
    /\ \A c \in Unauthed(Conns) : \E i \in Slots : childpipes[i] = c
    /\ \A i \in Slots : childpipes[i] # Free =>
          /\ child[childpipes[i]] \in {"unauth", "authed", "gone"}
          /\ preauth_addrs[i] = Addr[childpipes[i]]
          /\ \A k \in Slots \ {i} : childpipes[k] # childpipes[i]

\* Slots come back: a child that has authenticated or exited leaves the
\* table, even if it lives on for ever, and a connection that waits is taken
\* or refused, so nobody is locked out by sessions of the past.  That is so
\* unless the parent waits for ever in an accept whose client has gone: then
\* neither happens before the next client comes to that socket or a child exits.
SlotsRecycled ==
    []<>~InAccept =>
       \A c \in Conns :
          /\ child[c] \in {"authed", "gone"} ~> \A i \in Slots : childpipes[i] # c
          /\ child[c] = "waiting" ~> child[c] # "waiting"
=============================================================================
