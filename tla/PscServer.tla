----------------------------- MODULE PscServer ------------------------------
(***************************************************************************)
(* The PSC server of listener.c: the accept loop, one thread per client,   *)
(* and the data threads that broadcast to every client, over one table of  *)
(* client slots guarded by one mutex (sendguard).                          *)
(*                                                                         *)
(* A thread of control is a program counter.  What runs under sendguard    *)
(* without a blocking call is one step that waits for the guard; psc_send, *)
(* which blocks in send() while it holds the guard, holds it over one step *)
(* per slot.  lwIP is external: descriptors are small integers, the lowest *)
(* free one is handed out, and the listening socket was opened first.      *)
(***************************************************************************)
EXTENDS Integers

CONSTANTS
  Conn,               \* peers (one client thread per connection)
  Sender,             \* data threads that call psc_send
  NSlot,              \* PSC_MAX_CLIENTS
  NFd,                \* descriptors lwIP has
  Listening, Free,    \* what a descriptor may stand for, besides a Conn
  NoSender, NoConn

ASSUME SizeAssumption == NSlot \in Nat \ {0} /\ NFd \in Nat \ {0}
ASSUME ValueAssumption ==
  /\ Listening \notin Conn /\ Free \notin Conn /\ Listening # Free
  /\ NoSender \notin Sender /\ NoConn \notin Conn

VARIABLES
  fds,                \* lwIP: what each descriptor stands for
  gone,               \* lwIP: descriptors whose peer has closed its end
  clients_used,       \* psc_key: bit mask of the slots in use
  sock,               \* psc_key: clients[].sock
  sendguard,          \* psc_key: the data thread inside psc_send
  accpc, client, caller, C,
                      \* psc_run: program counter, descriptor, peer, slot
  pc, hsock, hslot,   \* handle_client: program counter, local sock, C
  idx,                \* psc_send: the slot each data thread is at
  reused              \* history: accept returned a descriptor that a client
                      \* thread still holds

acc_vars  == <<accpc, client, caller, C>>
hand_vars == <<pc, hsock, hslot>>
vars == <<fds, gone, clients_used, sock, sendguard, acc_vars, hand_vars, idx,
          reused>>

Slot == 0..(NSlot - 1)
FD   == 0..(NFd - 1)
ListenSock == 0
Bad == -1

\* The steps of a client thread between its creation and vTaskDelete.
Serving == {"start", "hello", "recv", "free"}
Alive   == Serving \cup {"close"}

TypeOK ==
  /\ fds \in [FD -> Conn \cup {Listening, Free}]
  /\ gone \in SUBSET FD
  /\ clients_used \in SUBSET Slot
  /\ sock \in [Slot -> FD \cup {Bad}]
  /\ sendguard \in Sender \cup {NoSender}
  /\ accpc \in {"accept", "alloc", "store", "drop"}
  /\ client \in FD \cup {Bad} /\ caller \in Conn \cup {NoConn} /\ C \in Slot
  /\ pc \in [Conn -> Alive \cup {"none"}]
  /\ hsock \in [Conn -> FD \cup {Bad}]
  /\ hslot \in [Conn -> Slot]
  /\ idx \in [Sender -> 0..NSlot]
  /\ reused \in BOOLEAN

GuardFree == sendguard = NoSender

\* lwip close(): a descriptor that is not open is left alone (EBADF).
CloseFd(fd) ==
  /\ fds' = [f \in FD |-> IF f = fd THEN Free ELSE fds[f]]
  /\ gone' = gone \ {fd}

-----------------------------------------------------------------------------
(* Peers (external): the peer of an open connection may close its end. *)

PeerClose(fd) ==
  /\ fds[fd] \in Conn /\ fd \notin gone
  /\ gone' = gone \cup {fd}
  /\ UNCHANGED <<fds, clients_used, sock, sendguard, acc_vars, hand_vars, idx,
                 reused>>

-----------------------------------------------------------------------------
(* psc_run: the accept loop *)

\* accept() takes a new peer and the lowest free descriptor.  Without one, or
\* once the listening socket is closed, it returns -1: the loop sleeps.
Accept(c, fd) ==
  /\ accpc = "accept"
  /\ fds[ListenSock] = Listening
  /\ pc[c] = "none" /\ \A f \in FD : fds[f] # c
  /\ fds[fd] = Free /\ \A f \in FD : f < fd => fds[f] # Free
  /\ fds' = [fds EXCEPT ![fd] = c]
  /\ client' = fd /\ caller' = c
  /\ accpc' = "alloc"
  /\ reused' = (reused \/ \E h \in Conn : pc[h] \in Alive /\ hsock[h] = fd)
  /\ UNCHANGED <<gone, clients_used, sock, sendguard, C, hand_vars, idx>>

\* Faulty variant: the bit mask is not looked at.
AllocAnySlot(slot) ==
  /\ accpc = "alloc" /\ GuardFree
  /\ clients_used' = clients_used \cup {slot}
  /\ sock' = [sock EXCEPT ![slot] = 0]
  /\ C' = slot
  /\ accpc' = "store"
  /\ UNCHANGED <<fds, gone, sendguard, client, caller, hand_vars, idx, reused>>

\* psc_client_alloc: the first free slot, zeroed (so its sock is 0).
Alloc(slot) ==
  /\ accpc = "alloc" /\ GuardFree
  /\ slot \notin clients_used /\ \A i \in Slot : i < slot => i \in clients_used
  /\ clients_used' = clients_used \cup {slot}
  /\ sock' = [sock EXCEPT ![slot] = 0]
  /\ C' = slot
  /\ accpc' = "store"
  /\ UNCHANGED <<fds, gone, sendguard, client, caller, hand_vars, idx, reused>>

\* Faulty variant: a client without a slot waits for one.
AllocWaits == accpc = "alloc" /\ GuardFree /\ clients_used = Slot /\ UNCHANGED vars

AllocFull ==
  /\ accpc = "alloc" /\ GuardFree
  /\ clients_used = Slot
  /\ accpc' = "drop"
  /\ UNCHANGED <<fds, gone, clients_used, sock, sendguard, client, caller, C,
                 hand_vars, idx, reused>>

\* The locals of the loop body end with it.
Reloop == accpc' = "accept" /\ client' = Bad /\ caller' = NoConn /\ C' = 0

\* Faulty variant: a dropped client's descriptor is not closed.
DropOpen ==
  /\ accpc = "drop"
  /\ Reloop
  /\ UNCHANGED <<fds, gone, clients_used, sock, sendguard, hand_vars, idx, reused>>

Drop ==
  /\ accpc = "drop"
  /\ CloseFd(client)
  /\ Reloop
  /\ UNCHANGED <<clients_used, sock, sendguard, hand_vars, idx, reused>>

\* C->sock = client, outside the guard, then the client's thread is created.
Store ==
  /\ accpc = "store"
  /\ sock' = [sock EXCEPT ![C] = client]
  /\ pc' = [pc EXCEPT ![caller] = "start"]
  /\ hslot' = [hslot EXCEPT ![caller] = C]
  /\ Reloop
  /\ UNCHANGED <<fds, gone, clients_used, sendguard, hsock, idx, reused>>

-----------------------------------------------------------------------------
(* Sending: psc_sendmsg on one descriptor, and what follows an error *)

\* send() can succeed on a connection whose peer is up, and may fail on any.
SendOk(fd) == fds[fd] \in Conn /\ fd \notin gone

\* Faulty variant: the slot keeps the descriptor that was closed.
SendOnUnmarked(slot) ==
  \/ sock[slot] # Bad /\ CloseFd(sock[slot]) /\ UNCHANGED sock
  \/ UNCHANGED <<fds, gone, sock>>

\* One slot's share of psc_send, and all of psc_send_one: on an error the
\* descriptor is closed and the slot marked.
SendOn(slot) ==
  \/ /\ sock[slot] # Bad /\ SendOk(sock[slot])
     /\ UNCHANGED <<fds, gone, sock>>
  \/ /\ sock[slot] # Bad
     /\ CloseFd(sock[slot])
     /\ sock' = [sock EXCEPT ![slot] = Bad]
  \/ /\ sock[slot] = Bad
     /\ UNCHANGED <<fds, gone, sock>>

SendLock(s) ==
  /\ GuardFree
  /\ sendguard' = s
  /\ UNCHANGED <<fds, gone, clients_used, sock, acc_vars, hand_vars, idx, reused>>

SendSlot(s) ==
  /\ sendguard = s /\ idx[s] < NSlot
  /\ IF idx[s] \in clients_used THEN SendOn(idx[s]) ELSE UNCHANGED <<fds, gone, sock>>
  /\ idx' = [idx EXCEPT ![s] = @ + 1]
  /\ UNCHANGED <<clients_used, sendguard, acc_vars, hand_vars, reused>>

SendUnlock(s) ==
  /\ sendguard = s /\ idx[s] = NSlot
  /\ sendguard' = NoSender
  /\ idx' = [idx EXCEPT ![s] = 0]
  /\ UNCHANGED <<fds, gone, clients_used, sock, acc_vars, hand_vars, reused>>

psc_send(s) == SendLock(s) \/ SendSlot(s) \/ SendUnlock(s)

-----------------------------------------------------------------------------
(* handle_client *)

Goto(c, from, to) == pc[c] = from /\ pc' = [pc EXCEPT ![c] = to]

\* The local copy of the descriptor.
Start(c) ==
  /\ Goto(c, "start", "hello")
  /\ hsock' = [hsock EXCEPT ![c] = sock[hslot[c]]]
  /\ UNCHANGED <<fds, gone, clients_used, sock, sendguard, acc_vars, hslot, idx,
                 reused>>

\* client_event: psc_send_one of message 0x100 to the new client.
Hello(c) ==
  /\ GuardFree
  /\ Goto(c, "hello", "recv")
  /\ SendOn(hslot[c])
  /\ UNCHANGED <<clients_used, sendguard, acc_vars, hsock, hslot, idx,
                 reused>>

\* Faulty variant: a read error is taken for a timeout and read again.
RecvRetries(c) == pc[c] = "recv" /\ UNCHANGED vars

\* psc_recvmsg fails: closed, the peer gone, or nothing for the RX timeout.
\* A message received instead changes nothing here.  PSC_DIS is not handled.
RecvFails(c) ==
  /\ Goto(c, "recv", "free")
  /\ UNCHANGED <<fds, gone, clients_used, sock, sendguard, acc_vars, hsock,
                 hslot, idx, reused>>

\* psc_client_free: the slot is cleared and may be taken again at once.
ClientFree(c) ==
  /\ GuardFree
  /\ Goto(c, "free", "close")
  /\ clients_used' = clients_used \ {hslot[c]}
  /\ sock' = [sock EXCEPT ![hslot[c]] = 0]
  /\ UNCHANGED <<fds, gone, sendguard, acc_vars, hsock, hslot, idx, reused>>

\* The thread closes its local copy and deletes itself.
Close(c) ==
  /\ GuardFree
  /\ Goto(c, "close", "none")
  /\ CloseFd(hsock[c])
  /\ hsock' = [hsock EXCEPT ![c] = Bad]
  /\ hslot' = [hslot EXCEPT ![c] = 0]
  /\ UNCHANGED <<clients_used, sock, sendguard, acc_vars, idx, reused>>

handle_client(c) ==
  Start(c) \/ Hello(c) \/ RecvFails(c) \/ ClientFree(c) \/ Close(c)

-----------------------------------------------------------------------------
\* The thread's descriptor is open, and somebody at its other end may send.
Connected(c) == hsock[c] # Bad /\ fds[hsock[c]] # Free /\ hsock[c] \notin gone

Init ==
  /\ fds = [fd \in FD |-> IF fd = ListenSock THEN Listening ELSE Free]
  /\ gone = {}
  /\ clients_used = {}
  /\ sock = [slot \in Slot |-> 0]
  /\ sendguard = NoSender
  /\ accpc = "accept" /\ client = Bad /\ caller = NoConn /\ C = 0
  /\ pc = [c \in Conn |-> "none"]
  /\ hsock = [c \in Conn |-> Bad]
  /\ hslot = [c \in Conn |-> 0]
  /\ idx = [s \in Sender |-> 0]
  /\ reused = FALSE

psc_run ==
  \/ \E c \in Conn, fd \in FD : Accept(c, fd)
  \/ \E slot \in Slot : Alloc(slot)
  \/ AllocFull
  \/ Drop
  \/ Store

Next ==
  \/ \E fd \in FD : PeerClose(fd)
  \/ psc_run
  \/ \E s \in Sender : psc_send(s)
  \/ \E c \in Conn : handle_client(c)

SafetySpec == Init /\ [][Next]_vars

\* Waiting for sendguard needs strong fairness: the FreeRTOS mutex queues its
\* waiters, but a data thread may take it again before a woken one runs.
\* send() ends by SO_SNDTIMEO; recv() fails when the peer is gone, or the
\* descriptor is no longer this client's and then idle.
Fairness ==
  /\ \A slot \in Slot : SF_vars(Alloc(slot))
  /\ SF_vars(AllocFull) /\ WF_vars(Drop) /\ WF_vars(Store)
  /\ \A s \in Sender : WF_vars(SendSlot(s)) /\ WF_vars(SendUnlock(s))
  /\ \A c \in Conn :
       /\ WF_vars(Start(c)) /\ SF_vars(Hello(c))
       /\ WF_vars(RecvFails(c) /\ ~Connected(c))
       /\ SF_vars(ClientFree(c)) /\ SF_vars(Close(c))

Spec == SafetySpec /\ Fairness

-----------------------------------------------------------------------------
(* Properties *)

Serves(c, slot) == pc[c] \in Serving /\ hslot[c] = slot
AccHolds(slot)  == accpc = "store" /\ C = slot

\* The bit mask and the threads agree: a slot in use belongs to the accept loop
\* or to exactly one client thread, and no thread works on a slot that is not in
\* use (listener.c:65, 84, 180-184: the bit is set, handed over and cleared by
\* three different pieces of code).
SlotHasOneOwner ==
  /\ \A slot \in clients_used : AccHolds(slot) <=> ~\E c \in Conn : Serves(c, slot)
  /\ \A c \in Conn : pc[c] \in Serving => hslot[c] \in clients_used
  /\ \A c, d \in Conn : \A slot \in Slot :
        Serves(c, slot) /\ Serves(d, slot) => c = d
  /\ \A slot \in Slot : AccHolds(slot) => slot \in clients_used

\* Every open client descriptor is one that the accept loop or a client thread
\* will still close (listener.c:177, 228): none is forgotten, whatever closes
\* and re-uses come between.
NoDescriptorLeak ==
  \A fd \in FD : fds[fd] \in Conn =>
     \/ accpc # "accept" /\ client = fd
     \/ \E c \in Conn : pc[c] = "start" /\ sock[hslot[c]] = fd
     \/ \E c \in Conn : pc[c] \in Alive \ {"start"} /\ hsock[c] = fd

\* As long as accept has not handed out a descriptor that a client thread still
\* remembers, each client's slot and thread refer to that client's connection
\* or to nothing: no message goes to another client and no close hits one.
OwnDescriptor ==
  ~reused =>
     \A c \in Conn :
        /\ pc[c] \in Serving /\ sock[hslot[c]] # Bad => fds[sock[hslot[c]]] = c
        /\ pc[c] \in Alive /\ hsock[c] # Bad => fds[hsock[c]] \in {c, Free}

\* A client whose connection ended leaves: its thread ends and so its slot is
\* free again, however often the data threads take sendguard.
ClientLeaves ==
  \A c \in Conn : pc[c] = "recv" /\ ~Connected(c) ~> (pc[c] = "none" \/ reused)

\* The accept loop comes back to accept, with the peer served or dropped.
AcceptReturns == accpc = "alloc" ~> accpc = "accept"

=============================================================================
