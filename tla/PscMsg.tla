------------------------------- MODULE PscMsg -------------------------------
(***************************************************************************)
(* How a client's thread cuts the TCP stream back into messages:           *)
(* psc_recvmsg, psc_recvhead, psc_recvall and psc_recvskip (pscmsg.c) in   *)
(* the loop of handle_client (listener.c).                                 *)
(*                                                                         *)
(* The stream is external.  It is known by the message at the reading      *)
(* position and by how much of that message has been read; a body's bytes  *)
(* are not distinguished.  recv returns any part of what it was asked for: *)
(* here one byte, so that a longer result is several steps.                *)
(***************************************************************************)
EXTENDS Naturals

CONSTANTS
  MsgId,              \* message identifiers
  MaxLen,             \* longest body a peer sends
  HeadLen,            \* sizeof(struct psc_header), 8
  BufLen,             \* sizeof(C->rxbuf)
  Chunk               \* bytes psc_recvskip discards at a time, 128

ASSUME IdAssumption == MsgId # {}
ASSUME LenAssumption == MaxLen \in Nat /\ BufLen \in Nat
ASSUME SizeAssumption == HeadLen \in Nat \ {0} /\ Chunk \in Nat \ {0}

VARIABLES
  msg, off,           \* stream: message at the position, bytes of it read
  cut,                \* stream: the peer has stopped for good
  pc,                 \* what the thread is receiving
  want,               \* psc_recvall: buflen still to come
  mid, mlen,          \* psc_recvhead: what the header said
  got,                \* bytes of this message in rxbuf
  rest,               \* psc_recvskip: len
  torn                \* history: a timeout ended psc_recvskip's loop

stream_vars == <<msg, off, cut, torn>>
msg_vars    == <<mid, mlen, got, rest>>
recv_vars == <<stream_vars, pc, want, msg_vars>>

BodyLen == 0..MaxLen
Msg == [mid : MsgId, len : BodyLen]
Size(m) == HeadLen + m.len

Lesser(a, b) == IF a > b THEN b ELSE a

\* The length psc_recvmsg asks psc_recvall for, and reports.
rlen == Lesser(mlen, BufLen)

MsgTypeOK ==
  /\ msg \in Msg /\ off \in 0..(HeadLen + MaxLen) /\ cut \in BOOLEAN
  /\ pc \in {"head", "body", "chunk", "last", "recv", "closed"}
  /\ want \in Nat
  /\ mid \in MsgId /\ mlen \in BodyLen
  /\ got \in 0..BufLen
  /\ rest \in BodyLen
  /\ torn \in BOOLEAN

-----------------------------------------------------------------------------
(* recv *)

\* The next byte, of the message being read or of the one after it.
RecvByte ==
  /\ want # 0 /\ ~cut /\ pc # "closed"
  /\ \/ off < Size(msg) /\ off' = off + 1 /\ msg' = msg
     \/ off = Size(msg) /\ off' = 1 /\ msg' \in Msg
  /\ want' = want - 1
  /\ got' = IF pc = "body" THEN got + 1 ELSE got
  /\ UNCHANGED <<cut, torn, pc, mid, mlen, rest>>

\* Faulty variant: a failed skip starts again.
SkipRetries ==
  /\ want # 0 /\ pc # "closed"
  /\ pc' = IF pc \in {"chunk", "last"} THEN pc ELSE "closed"
  /\ want' = IF pc \in {"chunk", "last"} THEN want ELSE 0
  /\ UNCHANGED <<stream_vars, msg_vars>>

\* recv returns 0 or fails: the peer is gone, or nothing came for the timeout
\* of listener.c:155.  Every caller passes the error on and the thread leaves
\* its loop, except that psc_recvskip's loop only ends, and its last
\* psc_recvall is asked for all that the loop has not counted down.
RecvFails ==
  /\ want # 0 /\ pc # "closed"
  /\ IF pc = "chunk" THEN pc' = "last" /\ want' = rest
                     ELSE pc' = "closed" /\ want' = 0
  /\ torn' = (torn \/ (pc = "chunk" /\ ~cut))
  /\ UNCHANGED <<msg, off, cut, msg_vars>>

-----------------------------------------------------------------------------
(* psc_recvmsg *)

Done(step) == pc = step /\ want = 0

\* psc_recvhead: a header that begins where a message does tells its identifier
\* and length.  Elsewhere it tells anything, and P and S may be missing.
psc_recvhead ==
  /\ Done("head")
  /\ \/ /\ IF off = HeadLen THEN mid' = msg.mid /\ mlen' = msg.len
                            ELSE mid' \in MsgId /\ mlen' \in BodyLen
        /\ pc' = "body" /\ want' = Lesser(mlen', BufLen)
     \/ /\ off # HeadLen
        /\ pc' = "closed" /\ want' = 0
        /\ UNCHANGED <<mid, mlen>>
  /\ got' = 0
  /\ UNCHANGED <<stream_vars, rest>>

\* The steps of psc_recvskip: chunks while more than one is left, then the rest.
Skip(len) ==
  /\ rest' = len
  /\ IF len > Chunk THEN pc' = "chunk" /\ want' = Chunk
                    ELSE pc' = "last" /\ want' = len

\* Faulty variant: the rest of a long body stays in the stream.
BodyNoSkip ==
  /\ Done("body")
  /\ pc' = "recv"
  /\ UNCHANGED <<stream_vars, want, msg_vars>>

BodyDone ==
  /\ Done("body")
  /\ IF rlen < mlen
     THEN Skip(mlen - rlen) /\ UNCHANGED <<mid, mlen, got>>
     ELSE pc' = "recv" /\ UNCHANGED <<want, msg_vars>>
  /\ UNCHANGED stream_vars

\* Faulty variant: what is left after the last whole chunk is not read.
ChunkNoLast ==
  /\ Done("chunk")
  /\ rest' = rest - Chunk
  /\ IF rest' > Chunk THEN pc' = "chunk" /\ want' = Chunk ELSE pc' = "recv" /\ want' = 0
  /\ UNCHANGED <<stream_vars, mid, mlen, got>>

ChunkDone ==
  /\ Done("chunk")
  /\ Skip(rest - Chunk)
  /\ UNCHANGED <<stream_vars, mid, mlen, got>>

LastDone ==
  /\ Done("last")
  /\ pc' = "recv"
  /\ UNCHANGED <<stream_vars, want, msg_vars>>

-----------------------------------------------------------------------------
(* handle_client *)

\* The message goes to client_msg (main.c), which changes nothing here; then the
\* next one is received.
NextMsg ==
  /\ pc = "recv"
  /\ pc' = "head" /\ want' = HeadLen
  /\ UNCHANGED <<stream_vars, msg_vars>>

\* The thread ends with its connection; another peer is accepted.
Accept ==
  /\ pc = "closed"
  /\ msg' \in Msg /\ off' = Size(msg') /\ cut' = FALSE /\ torn' = FALSE
  /\ pc' = "head" /\ want' = HeadLen
  /\ UNCHANGED msg_vars

\* The peer closes its end or falls silent, also in the middle of a message.
PeerStops ==
  /\ ~cut /\ pc # "closed"
  /\ cut' = TRUE
  /\ UNCHANGED <<msg, off, torn, pc, want, msg_vars>>

MsgInit ==
  /\ msg \in Msg /\ off = Size(msg) /\ cut = FALSE /\ torn = FALSE
  /\ pc = "head" /\ want = HeadLen
  /\ mid \in MsgId /\ mlen = 0 /\ got = 0 /\ rest = 0

handle_client ==
  RecvByte \/ RecvFails \/ psc_recvhead \/ BodyDone \/ ChunkDone \/ LastDone \/ NextMsg

MsgNext == handle_client \/ Accept \/ PeerStops

MsgSafetySpec == MsgInit /\ [][MsgNext]_recv_vars

\* A recv ends with bytes, or with the timeout of listener.c:155.
MsgSpec == MsgSafetySpec /\ WF_recv_vars(handle_client)

-----------------------------------------------------------------------------
(* Properties *)

\* Every header is read where a message begins, whatever the lengths of the
\* messages before it, and however recv cut them (listener.c:208-216), until a
\* timeout has ended psc_recvskip's loop.
StreamInStep == ~torn /\ pc = "head" /\ want = HeadLen => off = Size(msg)

\* The callback gets the message that was sent: its identifier, as much of its
\* body as fits, and nothing is left over.
Whole ==
  /\ off = Size(msg)
  /\ mid = msg.mid /\ rlen = Lesser(msg.len, BufLen)
  /\ got = rlen

\* Every message reaches client_msg whole, until a timeout has ended
\* psc_recvskip's loop (pscmsg.c:146-173).
DeliveredWhole == ~torn /\ pc = "recv" => Whole

\* A message whose header has been read is delivered, or the connection ends:
\* no sequence of stalls keeps the thread in psc_recvmsg.
MessageHandled == pc \in {"body", "chunk", "last"} ~> pc \in {"recv", "closed"}
=============================================================================
