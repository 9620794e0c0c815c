------------------------------ MODULE GcServer ------------------------------
(***************************************************************************)
(* The GlobalCache TCP server (src/lib/service_ir/globalcache_server.cpp) *)
(* and the completeir reply of the IR send task.                           *)
(*                                                                         *)
(*  - tcp_server_task takes a slot of the counting semaphore               *)
(*    clientCountSemaphore, accepts a connection and starts a socket_task  *)
(*    for the new socket;                                                  *)
(*  - socket_task reads requests until recv() returns 0 or an error (or a  *)
(*    reply cannot be written), then closes the socket and gives the slot *)
(*    back;                                                                *)
(*  - a sendir that InfraredService::send() accepts carries the socket     *)
(*    number; when the IR send task finishes it, it writes completeir to  *)
(*    that number (service_ir.cpp:464-474).                                *)
(*                                                                         *)
(* lwIP hands out the lowest free socket number, and other parts of the    *)
(* firmware (the API WebSocket server) open sockets from the same table.  *)
(* The IR send path is abstracted to its one-slot queue: a sendir is       *)
(* queued if the queue is empty and answered busyir otherwise (IrSend has  *)
(* the details).                                                           *)
(***************************************************************************)
EXTENDS Naturals, Sequences, FiniteSets, FiniteSetsExt

CONSTANTS
    Peers,          \* GlobalCache clients on the network (model values)
    Fds,            \* the socket numbers of lwIP's socket table
    MaxTcpClients,  \* MAX_TCP_CLIENT_COUNT (8 in the code)
    MaxConnects,    \* bound on the connections peers open
    MaxSends,       \* bound on the sendir requests
    Other,          \* owner of a socket opened by another part of the firmware
    None            \* owner of a free socket number

ASSUME /\ Fds \subseteq Nat \ {0} /\ Fds # {}
       /\ MaxTcpClients \in Nat \ {0}
       /\ MaxConnects \in Nat /\ MaxSends \in Nat
       /\ Other \notin Peers /\ None \notin Peers \cup {Other}

\* What recv() returns once the peer is gone: 0 after an orderly close,
\* -1 after a reset or a keepalive timeout.
RecvResults == {0, -1}
NoHup == 1

VARIABLES
    sem,        \* count of clientCountSemaphore
    srv,        \* tcp_server_task: "take" (the semaphore) or "accept"
    peer,       \* per peer: "off", "pending" (connecting) or "open"
    fdOf,       \* per peer: its socket number while "open", else 0
    owner,      \* per socket number: the peer, Other or None
    task,       \* per socket number: "run" while a socket_task serves it
    hup,        \* per socket number: what recv() returns, NoHup while the
                \* peer is still there
    irq,        \* m_queue of the IR service: <<>> or <<[peer, fd]>>
    connects,   \* number of connections opened so far
    sends,      \* number of sendir requests so far
    \* history variable, not state of the program
    deliveries    \* completeir writes: requester, receiver, and whether
                  \* the requester's connection had gone

vars == <<sem, srv, peer, fdOf, owner, task, hup, irq, connects, sends,
          deliveries>>

Owners == Peers \cup {Other, None}

TypeOK ==
    /\ sem \in 0..MaxTcpClients
    /\ srv \in {"take", "accept"}
    /\ peer \in [Peers -> {"off", "pending", "open"}]
    /\ fdOf \in [Peers -> Fds \cup {0}]
    /\ owner \in [Fds -> Owners]
    /\ task \in [Fds -> {"none", "run"}]
    /\ hup \in [Fds -> RecvResults \cup {NoHup}]
    /\ irq \in Seq([peer : Peers, fd : Fds]) /\ Len(irq) <= 1
    /\ connects \in 0..MaxConnects /\ sends \in 0..MaxSends
    /\ deliveries \subseteq [req : Peers, to : Owners, reqClosed : BOOLEAN]

\* tcp_server_task after its setup: clientCountSemaphore created full, the
\* listening socket bound (its own socket number is not in Fds).  A failure
\* of that setup ends the task before it serves anyone and is not modelled.
Init ==
    /\ sem = MaxTcpClients
    /\ srv = "take"
    /\ peer = [p \in Peers |-> "off"]
    /\ fdOf = [p \in Peers |-> 0]
    /\ owner = [f \in Fds |-> None]
    /\ task = [f \in Fds |-> "none"]
    /\ hup = [f \in Fds |-> NoHup]
    /\ irq = <<>>
    /\ connects = 0 /\ sends = 0
    /\ deliveries = {}

-----------------------------------------------------------------------------
(***************************************************************************)
(* tcp_server_task.                                                        *)
(***************************************************************************)

\* xSemaphoreTake(clientCountSemaphore, portMAX_DELAY).
ServerTake ==
    /\ srv = "take" /\ sem > 0
    /\ sem' = sem - 1 /\ srv' = "accept"
    /\ UNCHANGED <<peer, fdOf, owner, task, hup, irq, connects, sends,
                   deliveries>>

\* The socket numbers nobody has open.
FreeFds == {f \in Fds : owner[f] = None}

\* lwIP's alloc_socket() takes the lowest free entry.
LowestFree == Min(FreeFds)

\* accept(): the lowest free socket number, or -1 (ENFILE) when the table
\* is full; lwIP then drops the connection.
AcceptResult == IF FreeFds = {} THEN -1 ELSE LowestFree

\* Mutant: the sock < 0 check dropped.
AcceptFailedIgnored(sock) == FALSE

AcceptFailed(sock) == sock < 0

\* accept() returns the next connection.  With the socket table full lwIP
\* drops the connection and accept() fails with ENFILE; the loop then
\* continues without giving the slot back.  Otherwise the keepalive
\* options are set and a socket_task is created for the socket; the
\* result of xTaskCreatePinnedToCore is not checked, so when it fails
\* (no memory for the 4000-byte stack) the socket stays open with nobody
\* reading it, and the slot and the GCClient are never freed.
ServerAccept(p) ==
    /\ srv = "accept" /\ peer[p] = "pending"
    /\ srv' = "take"
    /\ LET sock == AcceptResult
       IN  IF AcceptFailed(sock)
             THEN /\ peer' = [peer EXCEPT ![p] = "off"]
                  /\ UNCHANGED <<fdOf, owner, task>>
             ELSE /\ peer' = [peer EXCEPT ![p] = "open"]
                  /\ fdOf' = [fdOf EXCEPT ![p] = sock]
                  /\ owner' = [owner EXCEPT ![sock] = p]
                  /\ \E created \in BOOLEAN :
                        task' = [task EXCEPT ![sock] = IF created THEN "run"
                                                                  ELSE "none"]
    /\ UNCHANGED <<sem, hup, irq, connects, sends, deliveries>>

-----------------------------------------------------------------------------
(***************************************************************************)
(* The network: peers connect, send sendir and go away; other parts of     *)
(* the firmware open and close sockets.                                    *)
(***************************************************************************)

Connect(p) ==
    /\ peer[p] = "off" /\ connects < MaxConnects
    /\ peer' = [peer EXCEPT ![p] = "pending"]
    /\ connects' = connects + 1
    /\ UNCHANGED <<sem, srv, fdOf, owner, task, hup, irq, sends,
                   deliveries>>

\* The peer closes (recv() then returns 0) or vanishes (-1, after a reset
\* or the keepalive probes).  The socket stays open until socket_task
\* closes it.
Disconnect(p, r) ==
    /\ peer[p] = "open"
    /\ hup' = [hup EXCEPT ![fdOf[p]] = r]
    /\ peer' = [peer EXCEPT ![p] = "off"]
    /\ fdOf' = [fdOf EXCEPT ![p] = 0]
    /\ UNCHANGED <<sem, srv, owner, task, irq, connects, sends,
                   deliveries>>

OtherOpen ==
    /\ FreeFds # {}
    /\ owner' = [owner EXCEPT ![LowestFree] = Other]
    /\ UNCHANGED <<sem, srv, peer, fdOf, task, hup, irq, connects, sends,
                   deliveries>>

OtherClose(f) ==
    /\ owner[f] = Other
    /\ owner' = [owner EXCEPT ![f] = None]
    /\ UNCHANGED <<sem, srv, peer, fdOf, task, hup, irq, connects, sends,
                   deliveries>>

-----------------------------------------------------------------------------
(***************************************************************************)
(* socket_task and the IR send task.                                       *)
(***************************************************************************)

\* sendGlobalCache(): a line that fails its checks (module 1, an id, port
\* 1..15, a frequency, repeat 1..50) is answered ERR_.. and queues nothing;
\* a valid one goes to send(), which queues the message with the socket
\* number if m_queue is empty (no reply until completeir) and returns 429
\* otherwise (busyir).
SendGlobalCache(p, valid) ==
    IF valid /\ irq = <<>> THEN <<[peer |-> p, fd |-> fdOf[p]]>> ELSE irq

\* A sendir line from peer p: socket_task parses it and calls
\* sendGlobalCache(.., client->socket).
Sendir(p) ==
    /\ peer[p] = "open" /\ task[fdOf[p]] = "run" /\ sends < MaxSends
    /\ sends' = sends + 1
    /\ \E valid \in BOOLEAN : irq' = SendGlobalCache(p, valid)
    /\ UNCHANGED <<sem, srv, peer, fdOf, owner, task, hup, connects,
                   deliveries>>

\* if (len <= 0) break;
BreakOnRecv(len) == len <= 0

\* xSemaphoreGive(client->semaphore).
ReleaseSlot(s) == s + 1

\* The loop ends (recv() <= 0, or a reply that cannot be written to the
\* gone peer); shutdown(), close() and xSemaphoreGive(), and the task
\* deletes itself.
SocketExit(f) ==
    /\ task[f] = "run" /\ hup[f] # NoHup
    /\ BreakOnRecv(hup[f])
    /\ task' = [task EXCEPT ![f] = "none"]
    /\ owner' = [owner EXCEPT ![f] = None]
    /\ hup' = [hup EXCEPT ![f] = NoHup]
    /\ sem' = ReleaseSlot(sem)
    /\ UNCHANGED <<srv, peer, fdOf, irq, connects, sends,
                   deliveries>>

\* send_ir_f, after the transmission of a GlobalCache message: completeir
\* is written to pIrMsg->gcSocket, whoever holds that number now (a
\* write to a closed number fails), and m_queue is reset.
IrComplete ==
    /\ irq # <<>>
    /\ LET m == irq[1]
       IN  deliveries' = deliveries \cup
              {[req |-> m.peer, to |-> owner[m.fd],
                reqClosed |-> fdOf[m.peer] # m.fd]}
    /\ irq' = <<>>
    /\ UNCHANGED <<sem, srv, peer, fdOf, owner, task, hup, connects, sends>>

-----------------------------------------------------------------------------
Next ==
    \/ ServerTake
    \/ \E p \in Peers : ServerAccept(p)
    \/ \E p \in Peers : Connect(p) \/ Sendir(p)
    \/ \E p \in Peers, r \in RecvResults : Disconnect(p, r)
    \/ OtherOpen
    \/ \E f \in Fds : OtherClose(f)
    \/ \E f \in Fds : SocketExit(f)
    \/ IrComplete

\* The server, the socket tasks and the IR send task block only on the
\* semaphore, accept(), recv() and m_queue; peers and other socket users
\* need not do anything.
Fairness ==
    /\ WF_vars(ServerTake)
    /\ WF_vars(\E p \in Peers : ServerAccept(p))
    /\ \A f \in Fds : WF_vars(SocketExit(f))
    /\ WF_vars(IrComplete)

Spec == Init /\ [][Next]_vars /\ Fairness

-----------------------------------------------------------------------------
(***************************************************************************)
(* Properties.                                                             *)
(***************************************************************************)

RunningTasks == {f \in Fds : task[f] = "run"}

\* No slot is ever lost: at most MAX_TCP_CLIENT_COUNT connections at once,
\* and the server accepts again whenever fewer are open (spec 4.5: a new
\* accept blocks until a slot frees).
SlotsConserved ==
    sem + (IF srv = "accept" THEN 1 ELSE 0) + Cardinality(RunningTasks)
        = MaxTcpClients

=============================================================================
