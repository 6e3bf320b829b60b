-------------------------- MODULE PscServerProofs ---------------------------
(***************************************************************************)
(* Slots and descriptors of the PSC server, for any number of peers, data  *)
(* threads, slots and descriptors.                                         *)
(***************************************************************************)
EXTENDS PscServer, TLAPS

\* The accept loop works for a peer that has no client thread yet.
CallerInv ==
  accpc # "accept" => client \in FD /\ caller \in Conn /\ pc[caller] = "none"

\* Before the first re-use of a remembered descriptor, the accept loop's
\* descriptor is its caller's, and a slot it has not filled yet still names
\* descriptor 0, which was never a client's.
PristineInv ==
  ~reused =>
     /\ fds[ListenSock] \in {Listening, Free}
     /\ accpc # "accept" => fds[client] = caller
     /\ accpc = "store" => sock[C] \in {ListenSock, Bad}

\* A thread's local descriptor is set by its first step and lost with it.
LocalInv == \A c \in Conn : pc[c] \in {"none", "start"} => hsock[c] = Bad

IInv ==
  /\ TypeOK
  /\ CallerInv
  /\ LocalInv
  /\ SlotHasOneOwner
  /\ NoDescriptorLeak
  /\ PristineInv
  /\ OwnDescriptor

-----------------------------------------------------------------------------
LEMMA ListenSockType == ListenSock \in FD /\ Bad \notin FD /\ 0 \in Slot
BY SizeAssumption DEF ListenSock, FD, Bad, Slot

LEMMA InitType == Init => TypeOK
<1>1. 0 \in FD /\ 0 \in 0..NSlot /\ 0 \in Slot
  BY SizeAssumption DEF FD, Slot
<1>2. QED
  BY <1>1 DEF Init, TypeOK, Alive, Serving

LEMMA SendOnType ==
  ASSUME TypeOK, NEW slot \in Slot, SendOn(slot)
  PROVE  /\ fds' \in [FD -> Conn \cup {Listening, Free}]
         /\ gone' \in SUBSET FD
         /\ sock' \in [Slot -> FD \cup {Bad}]
BY DEF TypeOK, SendOn, CloseFd

LEMMA NextType ==
  ASSUME TypeOK, CallerInv, [Next]_vars
  PROVE  TypeOK'
<1>1. ASSUME NEW fd \in FD, PeerClose(fd)
      PROVE  TypeOK'
  BY <1>1 DEF TypeOK, PeerClose, acc_vars, hand_vars
<1>2. ASSUME NEW c \in Conn, NEW fd \in FD, Accept(c, fd)
      PROVE  TypeOK'
  BY <1>2 DEF TypeOK, Accept, hand_vars
<1>3. ASSUME NEW slot \in Slot, Alloc(slot)
      PROVE  TypeOK'
  BY <1>3, ListenSockType DEF TypeOK, Alloc, hand_vars, ListenSock
<1>4. CASE AllocFull
  BY <1>4 DEF TypeOK, AllocFull, hand_vars
<1>5. CASE Drop
  BY <1>5, ListenSockType DEF TypeOK, Drop, Reloop, CloseFd, hand_vars
<1>6. CASE Store
  BY <1>6, ListenSockType
     DEF TypeOK, CallerInv, Store, Reloop, Alive, Serving
<1>7. ASSUME NEW s \in Sender, psc_send(s)
      PROVE  TypeOK'
  <2>1. CASE SendLock(s)
    BY <2>1 DEF TypeOK, SendLock, acc_vars, hand_vars
  <2>2. CASE SendSlot(s)
    <3>1. idx[s] \in Slot /\ idx' \in [Sender -> 0..NSlot]
      BY <2>2, SizeAssumption DEF SendSlot, TypeOK, Slot
    <3>2. /\ fds' \in [FD -> Conn \cup {Listening, Free}]
          /\ gone' \in SUBSET FD
          /\ sock' \in [Slot -> FD \cup {Bad}]
      BY <2>2, <3>1, SendOnType DEF SendSlot, TypeOK
    <3>3. QED
      BY <2>2, <3>1, <3>2 DEF TypeOK, SendSlot, acc_vars, hand_vars
  <2>3. CASE SendUnlock(s)
    BY <2>3, SizeAssumption DEF TypeOK, SendUnlock, acc_vars, hand_vars
  <2>4. QED
    BY <1>7, <2>1, <2>2, <2>3 DEF psc_send
<1>8. ASSUME NEW c \in Conn, handle_client(c)
      PROVE  TypeOK'
  <2>1. CASE Start(c)
    BY <2>1 DEF TypeOK, Start, Goto, acc_vars, Alive, Serving
  <2>2. CASE Hello(c)
    <3>1. hslot[c] \in Slot
      BY DEF TypeOK
    <3>2. QED
      BY <2>2, <3>1, SendOnType DEF TypeOK, Hello, Goto, acc_vars, Alive, Serving
  <2>3. CASE RecvFails(c)
    BY <2>3 DEF TypeOK, RecvFails, Goto, acc_vars, Alive, Serving
  <2>4. CASE ClientFree(c)
    BY <2>4, ListenSockType
       DEF TypeOK, ClientFree, Goto, acc_vars, Alive, Serving, ListenSock
  <2>5. CASE Close(c)
    BY <2>5, ListenSockType DEF TypeOK, Close, CloseFd, Goto, acc_vars, Alive
  <2>6. QED
    BY <1>8, <2>1, <2>2, <2>3, <2>4, <2>5 DEF handle_client
<1>9. CASE UNCHANGED vars
  BY <1>9 DEF TypeOK, vars, acc_vars, hand_vars
<1>10. QED
  BY <1>1, <1>2, <1>3, <1>4, <1>5, <1>6, <1>7, <1>8, <1>9 DEF Next, psc_run

LEMMA NextCaller ==
  ASSUME TypeOK, CallerInv, [Next]_vars
  PROVE  CallerInv'
<1>1. CASE psc_run
  BY <1>1, NextType
     DEF psc_run, CallerInv, Accept, Alloc, AllocFull, Drop, Store, Reloop,
         hand_vars, TypeOK
<1>2. ASSUME NEW c \in Conn, handle_client(c)
      PROVE  CallerInv'
  <2>1. UNCHANGED acc_vars /\ pc[c] # "none"
    BY <1>2 DEF handle_client, Start, Hello, RecvFails, ClientFree, Close, Goto
  <2>2. \A d \in Conn \ {c} : pc'[d] = pc[d]
    BY <1>2 DEF handle_client, Start, Hello, RecvFails, ClientFree, Close, Goto,
                TypeOK
  <2>3. QED
    BY <2>1, <2>2 DEF CallerInv, acc_vars
<1>3. CASE UNCHANGED <<acc_vars, pc>>
  BY <1>3 DEF CallerInv, acc_vars
<1>4. QED
  BY <1>1, <1>2, <1>3
     DEF Next, PeerClose, psc_send, SendLock, SendSlot, SendUnlock, vars,
         hand_vars

LEMMA NextLocal ==
  ASSUME TypeOK, CallerInv, LocalInv, [Next]_vars
  PROVE  LocalInv'
<1>1. CASE Store
  BY <1>1 DEF Store, LocalInv, CallerInv, TypeOK
<1>2. ASSUME NEW c \in Conn, handle_client(c)
      PROVE  LocalInv'
  BY <1>2 DEF handle_client, Start, Hello, RecvFails, ClientFree, Close, Goto,
              LocalInv, TypeOK
<1>3. CASE UNCHANGED <<pc, hsock>>
  BY <1>3 DEF LocalInv
<1>4. QED
  BY <1>1, <1>2, <1>3
     DEF Next, psc_run, Accept, Alloc, AllocFull, Drop, PeerClose, psc_send,
         SendLock, SendSlot, SendUnlock, vars, hand_vars

-----------------------------------------------------------------------------
(* Slots *)

\* The part of the state SlotHasOneOwner is about.
slot_vars == <<clients_used, accpc, C, pc, hslot>>

LEMMA NextOwner ==
  ASSUME TypeOK, CallerInv, SlotHasOneOwner, [Next]_vars
  PROVE  SlotHasOneOwner'
<1> USE DEF SlotHasOneOwner, Serves, AccHolds, Serving
<1>1. ASSUME NEW c \in Conn, NEW fd \in FD, Accept(c, fd)
      PROVE  SlotHasOneOwner'
  BY <1>1 DEF Accept, hand_vars
<1>2. ASSUME NEW slot \in Slot, Alloc(slot)
      PROVE  SlotHasOneOwner'
  BY <1>2 DEF Alloc, hand_vars
<1>3. CASE AllocFull
  BY <1>3 DEF AllocFull, hand_vars
<1>4. CASE Drop
  BY <1>4 DEF Drop, Reloop, hand_vars
<1>5. CASE Store
  <2>1. caller \in Conn /\ pc[caller] = "none" /\ AccHolds(C) /\ C \in Slot
    BY <1>5 DEF Store, CallerInv, TypeOK
  <2>2. /\ pc'[caller] = "start" /\ hslot'[caller] = C
        /\ \A d \in Conn \ {caller} : pc'[d] = pc[d] /\ hslot'[d] = hslot[d]
    BY <1>5, <2>1 DEF Store, TypeOK
  <2>3. clients_used' = clients_used /\ accpc' = "accept"
    BY <1>5 DEF Store, Reloop
  <2>4. \A d \in Conn \ {caller} : pc[d] \in Serving => hslot[d] # C
    BY <2>1
  <2>5. QED
    BY <2>1, <2>2, <2>3, <2>4 DEF TypeOK
<1>6. ASSUME NEW c \in Conn, handle_client(c)
      PROVE  SlotHasOneOwner'
  <2>1. UNCHANGED <<accpc, C>>
    BY <1>6 DEF handle_client, Start, Hello, RecvFails, ClientFree, Close,
                acc_vars
  <2>2. CASE Start(c) \/ Hello(c) \/ RecvFails(c)
    <3>1. UNCHANGED <<clients_used, hslot>>
      BY <2>2 DEF Start, Hello, RecvFails
    <3>2. pc[c] \in Serving /\ pc'[c] \in Serving
      BY <2>2 DEF Start, Hello, RecvFails, Goto, TypeOK
    <3>3. \A d \in Conn \ {c} : pc'[d] = pc[d]
      BY <2>2 DEF Start, Hello, RecvFails, Goto, TypeOK
    <3>4. \A d \in Conn : pc'[d] \in Serving <=> pc[d] \in Serving
      BY <3>2, <3>3
    <3>5. QED
      BY <2>1, <3>1, <3>4
  <2>3. CASE ClientFree(c)
    <3>1. /\ clients_used' = clients_used \ {hslot[c]} /\ hslot' = hslot
          /\ pc[c] \in Serving /\ pc'[c] \notin Serving
          /\ \A d \in Conn \ {c} : pc'[d] = pc[d]
      BY <2>3 DEF ClientFree, Goto, TypeOK
    <3>2. ~AccHolds(hslot[c])
      BY <3>1 DEF TypeOK
    <3>3. QED
      BY <2>1, <3>1, <3>2 DEF TypeOK
  <2>4. CASE Close(c)
    <3>1. /\ clients_used' = clients_used
          /\ pc[c] \notin Serving /\ pc'[c] \notin Serving
          /\ \A d \in Conn \ {c} : pc'[d] = pc[d] /\ hslot'[d] = hslot[d]
      BY <2>4 DEF Close, Goto, TypeOK
    <3>2. QED
      BY <2>1, <3>1
  <2>5. QED
    BY <1>6, <2>2, <2>3, <2>4 DEF handle_client
<1>7. CASE UNCHANGED slot_vars
  BY <1>7 DEF slot_vars
<1>8. QED
  BY <1>1, <1>2, <1>3, <1>4, <1>5, <1>6, <1>7
     DEF Next, psc_run, PeerClose, psc_send, SendLock, SendSlot, SendUnlock,
         vars, acc_vars, hand_vars, slot_vars

-----------------------------------------------------------------------------
(* Descriptors *)

\* What SendOn may do to the descriptors and the slots.
LEMMA SendOnEffect ==
  ASSUME TypeOK, NEW slot \in Slot, SendOn(slot)
  PROVE  \/ UNCHANGED <<fds, sock>>
         \/ /\ sock[slot] # Bad
            /\ fds' = [f \in FD |-> IF f = sock[slot] THEN Free ELSE fds[f]]
            /\ sock' = [sock EXCEPT ![slot] = Bad]
BY DEF SendOn, CloseFd

\* A sender touches a slot in use: the accept loop's, or a client's.
LEMMA SendSlotEffect ==
  ASSUME TypeOK, SlotHasOneOwner, NEW s \in Sender, SendSlot(s)
  PROVE  \/ UNCHANGED <<fds, sock>>
         \/ \E slot \in clients_used :
              SendOn(slot) /\ (AccHolds(slot) \/ \E c \in Conn : Serves(c, slot))
<1>1. idx[s] \in Slot
  BY SizeAssumption DEF SendSlot, TypeOK, Slot
<1>2. QED
  BY <1>1 DEF SendSlot, SlotHasOneOwner

\* A descriptor somebody will still close.
Claimed(fd) ==
  \/ accpc # "accept" /\ client = fd
  \/ \E c \in Conn : pc[c] = "start" /\ sock[hslot[c]] = fd
  \/ \E c \in Conn : pc[c] \in Alive \ {"start"} /\ hsock[c] = fd

LEMMA SendOnLeak ==
  ASSUME TypeOK, NoDescriptorLeak, NEW slot \in Slot, SendOn(slot),
         UNCHANGED <<acc_vars, hsock, hslot>>,
         \A c \in Conn : \/ pc'[c] = pc[c]
                        \/ {pc[c], pc'[c]} \subseteq Alive \ {"start"}
  PROVE  NoDescriptorLeak'
<1>1. CASE UNCHANGED <<fds, sock>>
  BY <1>1 DEF NoDescriptorLeak, acc_vars
<1>2. CASE /\ sock[slot] # Bad
           /\ fds' = [f \in FD |-> IF f = sock[slot] THEN Free ELSE fds[f]]
           /\ sock' = [sock EXCEPT ![slot] = Bad]
  <2>1. SUFFICES ASSUME NEW fd \in FD, fds'[fd] \in Conn
                 PROVE  Claimed(fd)'
    BY DEF NoDescriptorLeak, Claimed
  <2>2. fd # sock[slot] /\ fds[fd] \in Conn
    BY <1>2, <2>1, ValueAssumption DEF TypeOK
  <2>3. CASE accpc # "accept" /\ client = fd
    BY <2>3 DEF Claimed, acc_vars
  <2>4. ASSUME NEW c \in Conn, pc[c] = "start", sock[hslot[c]] = fd
        PROVE  Claimed(fd)'
    <3>1. hslot[c] # slot /\ pc'[c] = "start"
      BY <2>2, <2>4
    <3>2. sock'[hslot'[c]] = fd
      BY <1>2, <2>4, <3>1 DEF TypeOK
    <3>3. QED
      BY <3>1, <3>2 DEF Claimed
  <2>5. ASSUME NEW c \in Conn, pc[c] \in Alive \ {"start"}, hsock[c] = fd
        PROVE  Claimed(fd)'
    BY <2>5 DEF Claimed
  <2>6. QED
    BY <2>2, <2>3, <2>4, <2>5 DEF NoDescriptorLeak
<1>3. QED
  BY <1>1, <1>2, SendOnEffect

LEMMA NextLeak ==
  ASSUME TypeOK, CallerInv, SlotHasOneOwner, NoDescriptorLeak, [Next]_vars
  PROVE  NoDescriptorLeak'
<1>1. ASSUME NEW c \in Conn, NEW fd \in FD, Accept(c, fd)
      PROVE  NoDescriptorLeak'
  BY <1>1 DEF Accept, hand_vars, NoDescriptorLeak, TypeOK
<1>2. ASSUME NEW slot \in Slot, Alloc(slot)
      PROVE  NoDescriptorLeak'
  <2>1. \A c \in Conn : pc[c] = "start" => hslot[c] # slot
    BY <1>2 DEF Alloc, SlotHasOneOwner, Serving
  <2>2. QED
    BY <1>2, <2>1 DEF Alloc, hand_vars, NoDescriptorLeak, TypeOK
<1>3. CASE AllocFull
  BY <1>3 DEF AllocFull, hand_vars, NoDescriptorLeak
<1>4. CASE Drop
  BY <1>4, ValueAssumption
     DEF Drop, Reloop, CloseFd, hand_vars, NoDescriptorLeak, TypeOK
<1>5. CASE Store
  <2>1. SUFFICES ASSUME NEW fd \in FD, fds[fd] \in Conn
                 PROVE  Claimed(fd)'
    BY <1>5 DEF NoDescriptorLeak, Claimed, Store
  <2>2. caller \in Conn /\ pc[caller] = "none" /\ C \in Slot
    BY <1>5 DEF Store, CallerInv, TypeOK
  <2>3. /\ pc'[caller] = "start" /\ hslot'[caller] = C /\ sock'[C] = client
        /\ \A d \in Conn \ {caller} : pc'[d] = pc[d] /\ hslot'[d] = hslot[d]
        /\ hsock' = hsock
    BY <1>5, <2>2 DEF Store, TypeOK
  <2>4. CASE client = fd
    BY <2>2, <2>3, <2>4 DEF Claimed
  <2>5. ASSUME NEW c \in Conn, pc[c] = "start", sock[hslot[c]] = fd
        PROVE  Claimed(fd)'
    <3>1. c # caller /\ hslot[c] # C
      BY <1>5, <2>2, <2>5 DEF Store, SlotHasOneOwner, Serves, AccHolds, Serving
    <3>2. sock'[hslot[c]] = fd
      BY <1>5, <2>5, <3>1 DEF Store, TypeOK
    <3>3. QED
      BY <2>3, <2>5, <3>1, <3>2 DEF Claimed
  <2>6. ASSUME NEW c \in Conn, pc[c] \in Alive \ {"start"}, hsock[c] = fd
        PROVE  Claimed(fd)'
    BY <2>2, <2>3, <2>6 DEF Claimed, Alive, Serving
  <2>7. QED
    BY <2>1, <2>4, <2>5, <2>6 DEF NoDescriptorLeak
<1>6. ASSUME NEW s \in Sender, psc_send(s)
      PROVE  NoDescriptorLeak'
  <2>1. CASE SendSlot(s)
    BY <2>1, SendSlotEffect, SendOnLeak
       DEF SendSlot, NoDescriptorLeak, TypeOK, acc_vars, hand_vars
  <2>2. CASE SendLock(s) \/ SendUnlock(s)
    BY <2>2 DEF SendLock, SendUnlock, NoDescriptorLeak, acc_vars, hand_vars
  <2>3. QED
    BY <1>6, <2>1, <2>2 DEF psc_send
<1>7. ASSUME NEW c \in Conn, handle_client(c)
      PROVE  NoDescriptorLeak'
  <2>1. CASE Start(c)
    <3>1. /\ pc[c] = "start" /\ pc'[c] = "hello" /\ hsock'[c] = sock[hslot[c]]
          /\ \A d \in Conn \ {c} : pc'[d] = pc[d] /\ hsock'[d] = hsock[d]
          /\ UNCHANGED <<fds, sock, acc_vars, hslot>>
      BY <2>1 DEF Start, Goto, TypeOK
    <3>2. QED
      BY <3>1 DEF NoDescriptorLeak, acc_vars, Alive, Serving
  <2>2. CASE Hello(c)
    <3>1. \A d \in Conn : \/ pc'[d] = pc[d]
                          \/ {pc[d], pc'[d]} \subseteq Alive \ {"start"}
      BY <2>2 DEF Hello, Goto, TypeOK, Alive, Serving
    <3>2. hslot[c] \in Slot
      BY DEF TypeOK
    <3>3. SendOn(hslot[c]) /\ UNCHANGED <<acc_vars, hsock, hslot>>
      BY <2>2 DEF Hello
    <3>4. QED
      BY <3>1, <3>2, <3>3, SendOnLeak
  <2>3. CASE RecvFails(c)
    BY <2>3 DEF RecvFails, Goto, NoDescriptorLeak, TypeOK, acc_vars, Alive, Serving
  <2>4. CASE ClientFree(c)
    <3>1. /\ pc[c] = "free" /\ pc'[c] = "close"
          /\ \A d \in Conn \ {c} : pc'[d] = pc[d]
          /\ UNCHANGED <<fds, acc_vars, hsock, hslot>>
          /\ \A i \in Slot \ {hslot[c]} : sock'[i] = sock[i]
      BY <2>4 DEF ClientFree, Goto, TypeOK
    <3>2. \A d \in Conn : pc[d] = "start" => hslot[d] \in Slot \ {hslot[c]}
      BY <3>1 DEF SlotHasOneOwner, Serves, Serving, TypeOK
    <3>3. QED
      BY <3>1, <3>2 DEF NoDescriptorLeak, acc_vars, Alive, Serving
  <2>5. CASE Close(c)
    <3>1. /\ pc[c] = "close" /\ pc'[c] = "none"
          /\ \A d \in Conn \ {c} :
               pc'[d] = pc[d] /\ hsock'[d] = hsock[d] /\ hslot'[d] = hslot[d]
          /\ UNCHANGED <<sock, acc_vars>>
          /\ \A fd \in FD : fds'[fd] = IF fd = hsock[c] THEN Free ELSE fds[fd]
      BY <2>5 DEF Close, CloseFd, Goto, TypeOK
    <3>2. QED
      BY <3>1, ValueAssumption DEF NoDescriptorLeak, acc_vars
  <2>6. QED
    BY <1>7, <2>1, <2>2, <2>3, <2>4, <2>5 DEF handle_client
<1>8. CASE (\E fd \in FD : PeerClose(fd)) \/ UNCHANGED vars
  BY <1>8 DEF PeerClose, vars, NoDescriptorLeak, acc_vars, hand_vars
<1>9. QED
  BY <1>1, <1>2, <1>3, <1>4, <1>5, <1>6, <1>7, <1>8 DEF Next, psc_run

-----------------------------------------------------------------------------
(* Whose descriptor is it *)

OwnInv == PristineInv /\ OwnDescriptor

\* The two halves of OwnDescriptor for one client, under ~reused.
SlotIsOwn(c)  == pc[c] \in Serving /\ sock[hslot[c]] # Bad => fds[sock[hslot[c]]] = c
LocalIsOwn(c) == pc[c] \in Alive /\ hsock[c] # Bad => fds[hsock[c]] \in {c, Free}

\* A send error on a slot in use closes a descriptor nobody else works with.
LEMMA SendOnOwn ==
  ASSUME TypeOK, CallerInv, SlotHasOneOwner, OwnInv, NEW slot \in clients_used,
         SendOn(slot), AccHolds(slot) \/ \E c \in Conn : Serves(c, slot),
         UNCHANGED <<acc_vars, hsock, hslot, reused>>,
         \A c \in Conn : \/ pc'[c] = pc[c]
                        \/ {pc[c], pc'[c]} \subseteq Serving
  PROVE  OwnInv'
<1>1. CASE UNCHANGED <<fds, sock>>
  BY <1>1 DEF OwnInv, PristineInv, OwnDescriptor, acc_vars, Alive
<1>2. CASE /\ sock[slot] # Bad
           /\ fds' = [f \in FD |-> IF f = sock[slot] THEN Free ELSE fds[f]]
           /\ sock' = [sock EXCEPT ![slot] = Bad]
           /\ ~reused
  <2>1. /\ \A c \in Conn : SlotIsOwn(c) /\ LocalIsOwn(c)
        /\ fds[ListenSock] \in {Listening, Free}
        /\ accpc # "accept" => /\ fds[client] = caller
                              /\ caller \in Conn /\ pc[caller] = "none"
                              /\ client \in FD
        /\ accpc = "store" => sock[C] \in {ListenSock, Bad}
    BY <1>2 DEF OwnInv, PristineInv, OwnDescriptor, CallerInv, SlotIsOwn,
                LocalIsOwn
  <2>2. slot \in Slot /\ sock[slot] \in FD
    BY <1>2 DEF TypeOK
  \* Of an accepted descriptor, and of a thread that serves another slot.
  <2>3. accpc # "accept" => client # sock[slot]
    <3>1. CASE AccHolds(slot)
      BY <2>1, <3>1, <1>2, ValueAssumption DEF AccHolds
    <3>2. CASE \E c \in Conn : Serves(c, slot)
      BY <2>1, <3>2, <1>2 DEF Serves, SlotIsOwn, Serving
    <3>3. QED
      BY <3>1, <3>2
  <2>4. ASSUME NEW c \in Conn, pc[c] \in Serving, hslot[c] # slot,
               sock[hslot[c]] # Bad
        PROVE  sock[hslot[c]] # sock[slot]
    <3>1. fds[sock[hslot[c]]] = c
      BY <2>1, <2>4 DEF SlotIsOwn
    <3>2. CASE AccHolds(slot)
      BY <2>1, <3>1, <3>2, <1>2, ValueAssumption DEF AccHolds
    <3>3. CASE \E d \in Conn : Serves(d, slot)
      <4>1. PICK d \in Conn : Serves(d, slot)
        BY <3>3
      <4>2. fds[sock[slot]] = d /\ c # d
        BY <2>1, <2>4, <4>1, <1>2 DEF Serves, SlotIsOwn
      <4>3. QED
        BY <3>1, <4>2
    <3>4. QED
      BY <3>2, <3>3
  <2>5. \A c \in Conn : pc'[c] \in Serving <=> pc[c] \in Serving
    OBVIOUS
  <2>6. \A c \in Conn : pc'[c] \in Alive => pc[c] \in Alive
    BY DEF Alive
  <2>7. ASSUME NEW c \in Conn
        PROVE  SlotIsOwn(c)'
    <3>1. SUFFICES ASSUME pc[c] \in Serving, sock'[hslot[c]] # Bad
                   PROVE  fds'[sock'[hslot[c]]] = c
      BY <2>5 DEF SlotIsOwn
    <3>2. hslot[c] \in Slot /\ hslot[c] # slot /\ sock'[hslot[c]] = sock[hslot[c]]
      BY <1>2, <3>1 DEF TypeOK
    <3>3. /\ sock[hslot[c]] \in FD /\ sock[hslot[c]] # sock[slot]
          /\ fds[sock[hslot[c]]] = c
      BY <2>1, <2>4, <3>1, <3>2 DEF SlotIsOwn, TypeOK
    <3>4. QED
      BY <1>2, <3>2, <3>3
  <2>8. ASSUME NEW c \in Conn
        PROVE  LocalIsOwn(c)'
    BY <1>2, <2>1, <2>6 DEF LocalIsOwn, TypeOK
  <2>9. PristineInv'
    BY <1>2, <2>1, <2>2, <2>3, ListenSockType DEF PristineInv, acc_vars, TypeOK
  <2>10. QED
    BY <2>7, <2>8, <2>9 DEF OwnInv, OwnDescriptor, SlotIsOwn, LocalIsOwn
<1>3. CASE reused
  BY <1>3 DEF OwnInv, PristineInv, OwnDescriptor
<1>4. slot \in Slot
  BY DEF TypeOK
<1>5. QED
  BY <1>1, <1>2, <1>3, <1>4, SendOnEffect

LEMMA NextOwn ==
  ASSUME TypeOK, CallerInv, LocalInv, SlotHasOneOwner, OwnInv, [Next]_vars
  PROVE  OwnInv'
<1>1. CASE reused'
  BY <1>1 DEF OwnInv, PristineInv, OwnDescriptor
<1>2. CASE ~reused'
  <2>1. ~reused
    BY <1>2 DEF Next, psc_run, Accept, Alloc, AllocFull, Drop, Store, PeerClose,
                psc_send, SendLock, SendSlot, SendUnlock, handle_client, Start,
                Hello, RecvFails, ClientFree, Close, vars
  <2>2. /\ \A c \in Conn : SlotIsOwn(c) /\ LocalIsOwn(c)
        /\ fds[ListenSock] \in {Listening, Free}
        /\ accpc # "accept" => /\ fds[client] = caller
                              /\ caller \in Conn /\ pc[caller] = "none"
                              /\ client \in FD
        /\ accpc = "store" => sock[C] \in {ListenSock, Bad}
    BY <2>1 DEF OwnInv, PristineInv, OwnDescriptor, CallerInv, SlotIsOwn,
                LocalIsOwn
  <2>3. ASSUME NEW c \in Conn, NEW fd \in FD, Accept(c, fd)
        PROVE  OwnInv'
    <3>1. /\ fds[fd] = Free /\ fds[ListenSock] = Listening /\ fd # ListenSock
          /\ \A f \in FD : fds'[f] = IF f = fd THEN c ELSE fds[f]
          /\ client' = fd /\ caller' = c /\ accpc' = "alloc"
          /\ UNCHANGED <<sock, pc, hsock, hslot>>
      BY <2>3, ValueAssumption DEF Accept, hand_vars, TypeOK
    <3>2. \A h \in Conn : pc[h] \in Alive => hsock[h] # fd
      BY <2>3, <1>2 DEF Accept
    <3>3. \A h \in Conn : SlotIsOwn(h)' /\ LocalIsOwn(h)'
      BY <2>2, <3>1, <3>2, ValueAssumption DEF SlotIsOwn, LocalIsOwn, TypeOK
    <3>4. PristineInv'
      BY <3>1, ListenSockType DEF PristineInv
    <3>5. QED
      BY <3>3, <3>4 DEF OwnInv, OwnDescriptor, SlotIsOwn, LocalIsOwn
  <2>4. ASSUME NEW slot \in Slot, Alloc(slot)
        PROVE  OwnInv'
    <3>1. \A c \in Conn : pc[c] \in Serving => hslot[c] # slot
      BY <2>4 DEF Alloc, SlotHasOneOwner
    <3>2. /\ UNCHANGED <<fds, client, caller, pc, hsock, hslot>>
          /\ \A i \in Slot \ {slot} : sock'[i] = sock[i]
          /\ sock'[slot] = ListenSock /\ C' = slot /\ accpc = "alloc"
      BY <2>4 DEF Alloc, hand_vars, TypeOK, ListenSock
    <3>3. \A c \in Conn : SlotIsOwn(c)' /\ LocalIsOwn(c)'
      BY <2>2, <3>1, <3>2 DEF SlotIsOwn, LocalIsOwn, TypeOK
    <3>4. PristineInv'
      BY <2>2, <3>2 DEF PristineInv
    <3>5. QED
      BY <3>3, <3>4 DEF OwnInv, OwnDescriptor, SlotIsOwn, LocalIsOwn
  <2>5. CASE AllocFull
    BY <2>5, <2>2, <2>1 DEF AllocFull, hand_vars, OwnInv, OwnDescriptor, PristineInv
  <2>6. CASE Drop
    <3>1. /\ \A f \in FD : fds'[f] = IF f = client THEN Free ELSE fds[f]
          /\ fds[client] = caller /\ caller \in Conn /\ pc[caller] = "none"
          /\ UNCHANGED <<sock, pc, hsock, hslot>> /\ accpc' = "accept"
      BY <2>6, <2>2 DEF Drop, CloseFd, Reloop, hand_vars
    <3>2. \A c \in Conn : SlotIsOwn(c)'
      BY <2>2, <3>1 DEF SlotIsOwn, TypeOK, Serving
    <3>3. \A c \in Conn : LocalIsOwn(c)'
      BY <2>2, <3>1 DEF LocalIsOwn, TypeOK
    <3>4. PristineInv'
      BY <2>2, <3>1, ListenSockType DEF PristineInv
    <3>5. QED
      BY <3>2, <3>3, <3>4 DEF OwnInv, OwnDescriptor, SlotIsOwn, LocalIsOwn
  <2>7. CASE Store
    <3>1. /\ caller \in Conn /\ C \in Slot /\ fds[client] = caller
          /\ hsock[caller] = Bad
      BY <2>7, <2>2 DEF Store, TypeOK, LocalInv
    <3>2. /\ pc'[caller] = "start" /\ hslot'[caller] = C /\ sock'[C] = client
          /\ \A d \in Conn \ {caller} : pc'[d] = pc[d] /\ hslot'[d] = hslot[d]
          /\ \A i \in Slot \ {C} : sock'[i] = sock[i]
          /\ UNCHANGED <<fds, hsock>> /\ accpc' = "accept"
      BY <2>7, <3>1 DEF Store, Reloop, TypeOK
    <3>3. \A d \in Conn : pc[d] \in Serving => hslot[d] # C
      BY <2>7 DEF Store, SlotHasOneOwner, Serves, AccHolds
    <3>4. \A d \in Conn : SlotIsOwn(d)'
      BY <2>2, <3>1, <3>2, <3>3 DEF SlotIsOwn, TypeOK
    <3>5. \A d \in Conn : LocalIsOwn(d)'
      BY <2>2, <3>1, <3>2 DEF LocalIsOwn
    <3>6. PristineInv'
      BY <2>2, <3>2 DEF PristineInv
    <3>7. QED
      BY <3>4, <3>5, <3>6 DEF OwnInv, OwnDescriptor, SlotIsOwn, LocalIsOwn
  <2>8. ASSUME NEW s \in Sender, psc_send(s)
        PROVE  OwnInv'
    <3>1. CASE UNCHANGED <<fds, sock, acc_vars, pc, hsock, hslot, reused>>
      BY <3>1 DEF OwnInv, PristineInv, OwnDescriptor, acc_vars
    <3>2. CASE SendSlot(s)
      BY <3>1, <3>2, SendSlotEffect, SendOnOwn DEF SendSlot, acc_vars, hand_vars
    <3>3. QED
      BY <2>8, <3>1, <3>2 DEF psc_send, SendLock, SendUnlock, acc_vars, hand_vars
  <2>9. ASSUME NEW c \in Conn, handle_client(c)
        PROVE  OwnInv'
    <3>1. CASE Start(c)
      <4>1. /\ pc[c] = "start" /\ pc'[c] = "hello" /\ hsock'[c] = sock[hslot[c]]
            /\ \A d \in Conn \ {c} : pc'[d] = pc[d] /\ hsock'[d] = hsock[d]
            /\ UNCHANGED <<fds, sock, acc_vars, hslot, reused>>
        BY <3>1 DEF Start, Goto, TypeOK
      <4>2. \A d \in Conn : SlotIsOwn(d)' /\ LocalIsOwn(d)'
        BY <2>2, <4>1 DEF SlotIsOwn, LocalIsOwn, Alive, Serving
      <4>3. QED
        BY <2>2, <4>1, <4>2
           DEF OwnInv, OwnDescriptor, PristineInv, SlotIsOwn, LocalIsOwn, acc_vars
    <3>2. CASE Hello(c)
      <4>1. \A d \in Conn : pc'[d] = pc[d] \/ {pc[d], pc'[d]} \subseteq Serving
        BY <3>2 DEF Hello, Goto, TypeOK, Serving
      <4>2. Serves(c, hslot[c]) /\ hslot[c] \in clients_used
        BY <3>2 DEF Hello, Goto, Serves, Serving, SlotHasOneOwner
      <4>3. SendOn(hslot[c]) /\ UNCHANGED <<acc_vars, hsock, hslot, reused>>
        BY <3>2 DEF Hello
      <4>4. QED
        BY <4>1, <4>2, <4>3, SendOnOwn
    <3>3. CASE RecvFails(c)
      <4>1. /\ pc[c] = "recv" /\ pc'[c] = "free"
            /\ \A d \in Conn \ {c} : pc'[d] = pc[d]
            /\ UNCHANGED <<fds, sock, acc_vars, hsock, hslot, reused>>
        BY <3>3 DEF RecvFails, Goto, TypeOK
      <4>2. QED
        BY <2>1, <4>1
           DEF OwnInv, OwnDescriptor, PristineInv, acc_vars, Alive, Serving
    <3>4. CASE ClientFree(c)
      <4>1. /\ pc[c] = "free" /\ pc'[c] = "close"
            /\ \A d \in Conn \ {c} : pc'[d] = pc[d]
            /\ UNCHANGED <<fds, acc_vars, hsock, hslot, reused>>
            /\ \A i \in Slot \ {hslot[c]} : sock'[i] = sock[i]
            /\ sock'[hslot[c]] = ListenSock
        BY <3>4 DEF ClientFree, Goto, TypeOK, ListenSock
      <4>2. \A d \in Conn \ {c} :
               pc[d] \in Serving => hslot[d] \in Slot \ {hslot[c]}
        BY <4>1 DEF SlotHasOneOwner, Serves, Serving, TypeOK
      <4>3. \A d \in Conn : SlotIsOwn(d)'
        BY <2>2, <4>1, <4>2 DEF SlotIsOwn, Serving
      <4>4. \A d \in Conn : LocalIsOwn(d)'
        BY <2>2, <4>1 DEF LocalIsOwn, Alive, Serving
      <4>5. PristineInv'
        BY <2>2, <4>1 DEF PristineInv, acc_vars, TypeOK
      <4>6. QED
        BY <4>3, <4>4, <4>5 DEF OwnInv, OwnDescriptor, SlotIsOwn, LocalIsOwn
    <3>5. CASE Close(c)
      <4>1. /\ pc[c] = "close" /\ pc'[c] = "none"
            /\ \A d \in Conn \ {c} :
                 pc'[d] = pc[d] /\ hsock'[d] = hsock[d] /\ hslot'[d] = hslot[d]
            /\ UNCHANGED <<sock, acc_vars, reused>>
            /\ \A fd \in FD : fds'[fd] = IF fd = hsock[c] THEN Free ELSE fds[fd]
        BY <3>5 DEF Close, CloseFd, Goto, TypeOK
      <4>2. hsock[c] \in FD => fds[hsock[c]] \in {c, Free}
        BY <2>2, <4>1, ListenSockType DEF LocalIsOwn, Alive
      <4>3. \A d \in Conn : SlotIsOwn(d)'
        BY <2>2, <4>1, <4>2, ValueAssumption DEF SlotIsOwn, TypeOK, Serving
      <4>4. \A d \in Conn : LocalIsOwn(d)'
        BY <2>2, <4>1 DEF LocalIsOwn, TypeOK, Alive, Serving
      <4>5. PristineInv'
        BY <2>2, <4>1, <4>2, ListenSockType, ValueAssumption
           DEF PristineInv, acc_vars, TypeOK
      <4>6. QED
        BY <4>3, <4>4, <4>5 DEF OwnInv, OwnDescriptor, SlotIsOwn, LocalIsOwn
    <3>6. QED
      BY <2>9, <3>1, <3>2, <3>3, <3>4, <3>5 DEF handle_client
  <2>10. CASE (\E fd \in FD : PeerClose(fd)) \/ UNCHANGED vars
    BY <2>10 DEF PeerClose, vars, OwnInv, PristineInv, OwnDescriptor, acc_vars,
                 hand_vars
  <2>11. QED
    BY <2>3, <2>4, <2>5, <2>6, <2>7, <2>8, <2>9, <2>10 DEF Next, psc_run
<1>3. QED
  BY <1>1, <1>2

-----------------------------------------------------------------------------
(* Theorems *)

LEMMA InitInv == Init => IInv
<1>1. Init => CallerInv /\ LocalInv /\ SlotHasOneOwner
  BY DEF Init, CallerInv, LocalInv, SlotHasOneOwner, Serves, AccHolds, Serving
<1>2. Init => NoDescriptorLeak
  BY ValueAssumption DEF Init, NoDescriptorLeak
<1>3. Init => PristineInv /\ OwnDescriptor
  BY ListenSockType DEF Init, PristineInv, OwnDescriptor, Alive, Serving
<1>4. QED
  BY <1>1, <1>2, <1>3, InitType DEF IInv

LEMMA NextInv == IInv /\ [Next]_vars => IInv'
BY NextType, NextCaller, NextLocal, NextOwner, NextLeak, NextOwn
   DEF IInv, OwnInv

\* The invariant the four theorems below rest on: it adds to the checked
\* properties what the accept loop (listener.c:131-187) and a client thread
\* (listener.c:199-201) hold in their locals.
THEOREM Invariance == SafetySpec => []IInv
BY InitInv, NextInv, PTL DEF SafetySpec

\* Every variable of listener.c's table, threads and descriptors stays in its
\* range: no slot index or descriptor outside the arrays.
THEOREM TypeCorrect == SafetySpec => []TypeOK
<1>1. IInv => TypeOK
  BY DEF IInv
<1>2. QED
  BY <1>1, Invariance, PTL

\* The bit mask and the threads agree about who uses a slot (listener.c:65, 84,
\* 180-184), for any number of peers and slots.
THEOREM SlotsAreOwned == SafetySpec => []SlotHasOneOwner
<1>1. IInv => SlotHasOneOwner
  BY DEF IInv
<1>2. QED
  BY <1>1, Invariance, PTL

\* No client descriptor is forgotten on any path (listener.c:177, 228).
THEOREM DescriptorsAreClosed == SafetySpec => []NoDescriptorLeak
<1>1. IInv => NoDescriptorLeak
  BY DEF IInv
<1>2. QED
  BY <1>1, Invariance, PTL

\* Messages and closes hit the client's own connection until accept re-uses a
\* descriptor a thread still remembers (listener.c:201, 251).
THEOREM DescriptorsAreOwn == SafetySpec => []OwnDescriptor
<1>1. IInv => OwnDescriptor
  BY DEF IInv
<1>2. QED
  BY <1>1, Invariance, PTL
=============================================================================
