-------------------------- MODULE TrigLogicProofs ---------------------------
(***************************************************************************)
(* The handshake of TrigLogic holds for every set of channels, every burst *)
(* length and every wrap of the trigger count.                             *)
(***************************************************************************)
EXTENDS TrigLogic, TLAPS

(***************************************************************************)
(* The invariant that carries the proofs.  The latch alone does not say    *)
(* where a capture stands; the thread's program counter and the two counts *)
(* do, and each part says what must agree with what in one such phase.     *)
(***************************************************************************)

\* The acknowledge pulse is high exactly between the thread's two writes.
PulseInv == txtoioc_done = 1 <=> pc = "clear"

\* Latch clear: nothing is left of the previous capture.
ReadyInv ==
  dma_trig_lat = 0 => /\ ~Busy
                      /\ trig_cnt = prevtrignum
                      /\ pc \notin {"send", "ack"}

\* A capture in progress: the thread has nothing to fetch yet.
CapturingInv ==
  dma_trig_lat = 1 /\ Busy => /\ trig_cnt = prevtrignum
                              /\ pc \notin {"send", "ack"}
                              /\ dma_done = 1 => ~dma_active /\ dma_running = 0

\* Captured and counted, not fetched: one ahead, and no engine runs.
AnnouncedInv ==
  dma_trig_lat = 1 /\ trig_cnt # prevtrignum =>
     /\ trig_cnt = Inc(prevtrignum)
     /\ pc \in {"poll", "arm"}

\* Fetched, and the latch still set: the thread is on its way to the pulse,
\* or the pulse has not seen a clock edge yet.
SendingInv ==
  dma_trig_lat = 1 /\ ~Busy /\ trig_cnt = prevtrignum =>
     pc \in {"send", "ack"} \/ (pc = "clear" /\ ~clocked)

\* A second trigger in the clock after an accepted one finds every engine busy.
RetriggerInv ==
  dma_trig = 1 /\ dma_trig_lat = 1 => \A ch \in Chan : fifo_wrlen[ch] # 0

HandshakeInv ==
  /\ ReadyInv
  /\ CapturingInv
  /\ AnnouncedInv
  /\ SendingInv
  /\ RetriggerInv

IInv == TypeOK /\ PulseInv /\ (~broken => HandshakeInv)
-----------------------------------------------------------------------------
LEMMA IncType ==
  ASSUME NEW c \in 0..CntMax
  PROVE  Inc(c) \in 0..CntMax /\ Inc(c) # c
BY CntAssumption DEF Inc

LEMMA InitType ==
  ASSUME Init
  PROVE  TypeOK
<1>1. sr \in [TrigSrc -> [s1: Bit, s2: Bit]]
  BY DEF Init, Bit
<1>2. clocked \in BOOLEAN /\ broken \in BOOLEAN
  BY DEF Init
<1>3. fifo_wrlen \in [Chan -> 0..MaxLen] /\ burst_len \in [Chan -> Len]
  BY MaxLenAssumption DEF Init
<1>4. trig_cnt \in 0..CntMax /\ prevtrignum \in 0..CntMax
  BY CntAssumption DEF Init
<1>5. QED
  BY <1>1, <1>2, <1>3, <1>4 DEF Init, TypeOK, TrigSrc, Bit, Step

LEMMA EdgeType ==
  ASSUME TypeOK, NEW strobe \in SUBSET Paced, NEW din \in [TrigSrc -> Bit],
         Clock(strobe, din)
  PROVE  TypeOK'
<1>1. sr' \in [TrigSrc -> [s1: Bit, s2: Bit]]
  BY DEF Clock, TypeOK, Shift
<1>2. /\ dma_trig' \in Bit /\ dma_trig_lat' \in Bit
      /\ dma_running' \in Bit /\ dma_done' \in Bit
  BY DEF Clock, TypeOK, Bit, TrigNext, LatchNext, RunningNext, DoneNext, Rise
<1>3. trig_cnt' \in 0..CntMax
  BY IncType DEF Clock, TypeOK, CountNext
<1>4. fifo_wrlen' \in [Chan -> 0..MaxLen]
  <2>1. ASSUME NEW ch \in Chan
        PROVE  EngineNext(ch, strobe) \in 0..MaxLen
    <3>1. fifo_wrlen[ch] \in 0..MaxLen /\ burst_len[ch] \in 1..MaxLen
      BY DEF TypeOK, Len
    <3>2. QED
      BY <3>1, MaxLenAssumption DEF EngineNext
  <2>2. QED
    BY <2>1 DEF Clock
<1>5. clocked' \in BOOLEAN /\ broken' \in BOOLEAN
  BY DEF Clock, TypeOK
<1>6. QED
  BY <1>1, <1>2, <1>3, <1>4, <1>5 DEF TypeOK, Clock

LEMMA NextType ==
  ASSUME TypeOK, [Next]_vars
  PROVE  TypeOK'
<1>1. CASE Edge
  BY <1>1, EdgeType DEF Edge
<1>a. CASE PollMixed
  BY <1>a DEF PollMixed, TypeOK, pl_vars, Step
<1>2. CASE dmadata_push /\ ~PollMixed
  <2>1. pc' \in Step
    BY <1>2 DEF TypeOK, dmadata_push, PollCount, SendBuffers, AckHigh, AckLow,
                Rearm, Access, Step
  <2>2. prevtrignum' \in 0..CntMax /\ txtoioc_done' \in Bit
    BY <1>2 DEF TypeOK, dmadata_push, PollCount, SendBuffers, AckHigh, AckLow,
                Rearm, Access, Bit
  <2>3. /\ clocked' \in BOOLEAN
        /\ UNCHANGED <<pl_vars, trigsrc, burst_len, broken>>
    BY <1>2 DEF TypeOK, dmadata_push, PollCount, SendBuffers, AckHigh, AckLow,
                Rearm, Access
  <2>4. QED
    BY <2>1, <2>2, <2>3 DEF TypeOK, pl_vars
<1>3. ASSUME NEW src \in TrigSrc, set_trigsrc(src)
      PROVE  TypeOK'
  BY <1>3 DEF TypeOK, set_trigsrc, pl_vars
<1>4. ASSUME NEW ch \in Chan, NEW len \in Len, set_dmalen(ch, len)
      PROVE  TypeOK'
  BY <1>4 DEF TypeOK, set_dmalen, pl_vars
<1>5. CASE UNCHANGED vars
  BY <1>5 DEF TypeOK, vars, pl_vars
<1>6. QED
  BY <1>1, <1>a, <1>2, <1>3, <1>4, <1>5 DEF Next

\* Every variable of the logic and its thread keeps its type, for every set of
\* channels, burst length and count width (the signal declarations of
\* trig_logic.vhd and the locals of dmadata_push).
THEOREM TypeCorrect == SafetySpec => []TypeOK
<1>1. Init => TypeOK
  BY InitType
<1>2. TypeOK /\ [Next]_vars => TypeOK'
  BY NextType
<1>3. QED
  BY <1>1, <1>2, PTL DEF SafetySpec
-----------------------------------------------------------------------------
(* The clock edge *)

\* A trigger never comes out in the clock after the latch was set.
LEMMA EdgeRetrigger ==
  ASSUME TypeOK, HandshakeInv, NEW strobe \in SUBSET Paced,
         NEW din \in [TrigSrc -> Bit], Clock(strobe, din),
         dma_trig' = 1, dma_trig_lat' = 1
  PROVE  /\ dma_trig_lat = 0 /\ dma_trig = 1
         /\ \A ch \in Chan : fifo_wrlen'[ch] # 0
<1>1. dma_trig_lat = 0 /\ dma_trig = 1
  BY DEF Clock, TypeOK, Bit, TrigNext, LatchNext
<1>2. ASSUME NEW ch \in Chan
      PROVE  fifo_wrlen'[ch] # 0
  <2>1. fifo_wrlen[ch] = 0
    BY <1>1 DEF HandshakeInv, ReadyInv, Busy, dma_active
  <2>2. fifo_wrlen'[ch] = burst_len[ch] /\ burst_len[ch] \in 1..MaxLen
    BY <1>1, <2>1 DEF Clock, EngineNext, TypeOK, Len
  <2>3. QED
    BY <2>2, MaxLenAssumption
<1>3. QED
  BY <1>1, <1>2

\* What the engines do: they start together from idle on a trigger, and without
\* a trigger an idle engine stays idle.
LEMMA EdgeEngines ==
  ASSUME TypeOK, NEW strobe \in SUBSET Paced,
         NEW din \in [TrigSrc -> Bit], Clock(strobe, din)
  PROVE  /\ dma_trig = 1 /\ ~dma_active => dma_active'
         /\ dma_trig = 0 /\ ~dma_active => ~dma_active'
<1>1. ASSUME NEW ch \in Chan, fifo_wrlen[ch] = 0
      PROVE  /\ dma_trig = 1 => fifo_wrlen'[ch] # 0
             /\ dma_trig = 0 => fifo_wrlen'[ch] = 0
  <2>1. burst_len[ch] \in 1..MaxLen
    BY DEF TypeOK, Len
  <2>2. fifo_wrlen'[ch] = IF dma_trig = 1 THEN burst_len[ch] ELSE 0
    BY <1>1 DEF Clock, EngineNext
  <2>3. QED
    BY <2>1, <2>2, MaxLenAssumption
<1>2. QED
  BY <1>1, ChanAssumption DEF dma_active

LEMMA EdgeInv ==
  ASSUME IInv, NEW strobe \in SUBSET Paced,
         NEW din \in [TrigSrc -> Bit], Clock(strobe, din)
  PROVE  IInv'
<1>1. TypeOK'
  BY EdgeType DEF IInv
<1>2. PulseInv'
  BY DEF IInv, PulseInv, Clock
<1>3. ASSUME ~broken'
      PROVE  HandshakeInv'
  <2>1. /\ TypeOK /\ HandshakeInv /\ PulseInv
        /\ ~(Busy /\ dma_trig_lat = 1 /\ txtoioc_done = 1)
    BY <1>3 DEF IInv, Clock
  <2>2. RetriggerInv'
    BY <2>1, EdgeRetrigger DEF RetriggerInv
  <2>3. /\ prevtrignum' = prevtrignum /\ pc' = pc /\ clocked' = TRUE
        /\ dma_trig_lat' = LatchNext /\ dma_running' = RunningNext
        /\ dma_done' = DoneNext /\ trig_cnt' = CountNext
    BY DEF Clock
  <2>4. CASE dma_trig_lat = 0 /\ dma_trig = 0
    <3>1. /\ dma_trig_lat' = 0 /\ trig_cnt' = trig_cnt
          /\ dma_running' = 0 /\ dma_done' = 0 /\ ~dma_active'
      BY <2>1, <2>3, <2>4, EdgeEngines
         DEF HandshakeInv, ReadyInv, Busy, LatchNext, CountNext, RunningNext,
             DoneNext, TypeOK, Bit
    <3>2. QED
      BY <2>1, <2>2, <2>3, <2>4, <3>1
         DEF HandshakeInv, ReadyInv, CapturingInv, AnnouncedInv, SendingInv, Busy
  <2>5. CASE dma_trig_lat = 0 /\ dma_trig = 1
    <3>1. /\ dma_trig_lat' = 1 /\ trig_cnt' = trig_cnt
          /\ dma_running' = 0 /\ dma_done' = 0 /\ dma_active'
      BY <2>1, <2>3, <2>5, EdgeEngines
         DEF HandshakeInv, ReadyInv, Busy, LatchNext, CountNext, RunningNext,
             DoneNext, TypeOK, Bit
    <3>2. QED
      BY <2>1, <2>2, <2>3, <2>5, <3>1
         DEF HandshakeInv, ReadyInv, CapturingInv, AnnouncedInv, SendingInv, Busy
  <2>6. CASE dma_trig_lat = 1 /\ Busy
    <3>1. txtoioc_done # 1 /\ dma_trig_lat' = 1
      BY <2>1, <2>3, <2>6 DEF LatchNext
    <3>2. CASE dma_active
      <4>1. dma_running' = 1 /\ dma_done' = 0 /\ trig_cnt' = trig_cnt
        BY <2>1, <2>3, <2>6, <3>2
           DEF HandshakeInv, CapturingInv, CountNext, RunningNext, DoneNext,
               TypeOK, Bit
      <4>2. QED
        BY <2>1, <2>2, <2>3, <2>6, <3>1, <4>1
           DEF HandshakeInv, ReadyInv, CapturingInv, AnnouncedInv, SendingInv,
               Busy
    <3>3. CASE ~dma_active /\ dma_running = 1
      <4>1. /\ dma_running' = 0 /\ dma_done' = 1 /\ trig_cnt' = trig_cnt
            /\ dma_trig = 0
        BY <2>1, <2>3, <2>6, <3>3, ChanAssumption
           DEF HandshakeInv, CapturingInv, RetriggerInv, CountNext, RunningNext,
               DoneNext, TypeOK, Bit, dma_active
      <4>2. ~dma_active'
        BY <2>1, <3>3, <4>1, EdgeEngines
      <4>3. QED
        BY <2>1, <2>2, <2>3, <2>6, <3>1, <4>1, <4>2
           DEF HandshakeInv, ReadyInv, CapturingInv, AnnouncedInv, SendingInv,
               Busy
    <3>4. CASE ~dma_active /\ dma_running # 1
      <4>1. /\ dma_done = 1 /\ dma_trig = 0
            /\ dma_running' = 0 /\ dma_done' = 0
            /\ trig_cnt' = Inc(prevtrignum)
        BY <2>1, <2>3, <2>6, <3>4, ChanAssumption
           DEF HandshakeInv, CapturingInv, RetriggerInv, CountNext, RunningNext,
               DoneNext, TypeOK, Bit, dma_active, Busy
      <4>2. ~dma_active' /\ Inc(prevtrignum) # prevtrignum
        BY <2>1, <3>4, <4>1, EdgeEngines, IncType DEF TypeOK
      <4>3. pc \in {"poll", "arm"}
        BY <2>1, <2>6, <3>1
           DEF HandshakeInv, CapturingInv, PulseInv, TypeOK, Step
      <4>4. QED
        BY <2>2, <2>3, <3>1, <4>1, <4>2, <4>3
           DEF HandshakeInv, ReadyInv, CapturingInv, AnnouncedInv, SendingInv,
               Busy
    <3>5. QED
      BY <3>2, <3>3, <3>4
  <2>7. CASE dma_trig_lat = 1 /\ ~Busy
    <3>1. /\ dma_trig = 0 /\ dma_running' = 0 /\ dma_done' = 0
          /\ trig_cnt' = trig_cnt
      BY <2>1, <2>3, <2>7, ChanAssumption
         DEF HandshakeInv, RetriggerInv, CountNext, RunningNext, DoneNext,
             TypeOK, Bit, dma_active, Busy
    <3>2. ~dma_active' /\ ~Busy'
      BY <2>1, <2>7, <3>1, EdgeEngines DEF Busy
    <3>3. CASE txtoioc_done = 1
      <4>1. dma_trig_lat' = 0 /\ pc = "clear"
        BY <2>1, <2>3, <2>7, <3>3 DEF LatchNext, PulseInv
      <4>2. QED
        BY <2>1, <2>2, <2>3, <2>7, <3>1, <3>2, <4>1
           DEF HandshakeInv, ReadyInv, CapturingInv, AnnouncedInv, SendingInv
    <3>4. CASE txtoioc_done # 1
      <4>1. dma_trig_lat' = 1 /\ pc # "clear"
        BY <2>1, <2>3, <2>7, <3>1, <3>4 DEF LatchNext, PulseInv
      <4>2. QED
        BY <2>1, <2>2, <2>3, <2>7, <3>1, <3>2, <4>1
           DEF HandshakeInv, ReadyInv, CapturingInv, AnnouncedInv, SendingInv
    <3>5. QED
      BY <3>3, <3>4
  <2>8. QED
    BY <2>1, <2>4, <2>5, <2>6, <2>7 DEF TypeOK, Bit
<1>4. QED
  BY <1>1, <1>2, <1>3 DEF IInv
-----------------------------------------------------------------------------
(* The thread and the client *)

LEMMA BusyUnchanged ==
  ASSUME UNCHANGED pl_vars
  PROVE  /\ dma_active' <=> dma_active
         /\ Busy' <=> Busy
BY DEF pl_vars, Busy, dma_active

\* A mixed count ends the promise; the pulse stays low.
LEMMA MixedInv ==
  ASSUME IInv, PollMixed
  PROVE  IInv'
<1>1. TypeOK'
  BY NextType DEF IInv, Next, dmadata_push
<1>2. broken' = TRUE
  BY DEF PollMixed
<1>3. PulseInv'
  BY DEF IInv, PulseInv, PollMixed
<1>4. QED
  BY <1>1, <1>2, <1>3 DEF IInv

LEMMA PushInv ==
  ASSUME IInv, dmadata_push, ~PollMixed
  PROVE  IInv'
<1>1. TypeOK'
  BY NextType DEF IInv, Next
<1>2. /\ UNCHANGED pl_vars /\ broken' = broken /\ clocked /\ clocked' = FALSE
  BY DEF dmadata_push, PollCount, SendBuffers, AckHigh, AckLow, Rearm, Access
<1>3. /\ dma_trig_lat' = dma_trig_lat /\ dma_trig' = dma_trig
      /\ dma_running' = dma_running /\ dma_done' = dma_done
      /\ trig_cnt' = trig_cnt /\ fifo_wrlen' = fifo_wrlen
      /\ dma_active' <=> dma_active
      /\ Busy' <=> Busy
  BY <1>2, BusyUnchanged DEF pl_vars
<1>4. PulseInv'
  BY DEF IInv, PulseInv, dmadata_push, PollCount, SendBuffers, AckHigh, AckLow,
         Rearm, Access
<1>5. ASSUME ~broken
      PROVE  HandshakeInv'
  <2>1. HandshakeInv /\ TypeOK
    BY <1>5 DEF IInv
  <2>2. RetriggerInv'
    BY <1>3, <2>1 DEF HandshakeInv, RetriggerInv
  <2>3. CASE PollCount
    <3>1. /\ pc = "poll" /\ pc' = "send" /\ prevtrignum' = trig_cnt
          /\ trig_cnt # prevtrignum
      BY <2>3 DEF PollCount, Access
    <3>2. dma_trig_lat = 1 /\ ~Busy
      BY <2>1, <3>1 DEF HandshakeInv, ReadyInv, CapturingInv, TypeOK, Bit
    <3>3. QED
      BY <1>3, <2>2, <3>1, <3>2
         DEF HandshakeInv, ReadyInv, CapturingInv, AnnouncedInv, SendingInv
  <2>4. CASE SendBuffers
    <3>1. pc = "send" /\ pc' = "ack" /\ prevtrignum' = prevtrignum
      BY <2>4 DEF SendBuffers, Access
    <3>2. QED
      BY <1>3, <2>1, <2>2, <3>1
         DEF HandshakeInv, ReadyInv, CapturingInv, AnnouncedInv, SendingInv
  <2>5. CASE AckHigh
    <3>1. pc = "ack" /\ pc' = "clear" /\ prevtrignum' = prevtrignum
      BY <2>5 DEF AckHigh, Access
    <3>2. QED
      BY <1>2, <1>3, <2>1, <2>2, <3>1
         DEF HandshakeInv, ReadyInv, CapturingInv, AnnouncedInv, SendingInv
  <2>6. CASE AckLow
    <3>1. pc = "clear" /\ pc' = "arm" /\ prevtrignum' = prevtrignum
      BY <2>6 DEF AckLow, Access
    <3>2. dma_trig_lat = 1 => Busy
      BY <1>2, <2>1, <3>1 DEF HandshakeInv, CapturingInv, AnnouncedInv, SendingInv
    <3>3. QED
      BY <1>3, <2>1, <2>2, <3>1, <3>2
         DEF HandshakeInv, ReadyInv, CapturingInv, AnnouncedInv, SendingInv
  <2>7. CASE Rearm
    <3>1. pc = "arm" /\ pc' = "poll" /\ prevtrignum' = prevtrignum
      BY <2>7 DEF Rearm, Access
    <3>2. QED
      BY <1>3, <2>1, <2>2, <3>1
         DEF HandshakeInv, ReadyInv, CapturingInv, AnnouncedInv, SendingInv
  <2>8. QED
    BY <2>3, <2>4, <2>5, <2>6, <2>7 DEF dmadata_push
<1>6. QED
  BY <1>1, <1>2, <1>4, <1>5 DEF IInv

\* A setting, or no step at all, touches nothing the invariant speaks of.
LEMMA QuietInv ==
  ASSUME IInv, TypeOK',
         UNCHANGED <<pl_vars, txtoioc_done, pc, prevtrignum, clocked, broken>>
  PROVE  IInv'
<1>1. /\ dma_trig_lat' = dma_trig_lat /\ dma_trig' = dma_trig
      /\ dma_running' = dma_running /\ dma_done' = dma_done
      /\ trig_cnt' = trig_cnt /\ fifo_wrlen' = fifo_wrlen
      /\ dma_active' <=> dma_active
      /\ Busy' <=> Busy
  BY BusyUnchanged DEF pl_vars
<1>2. PulseInv'
  BY DEF IInv, PulseInv
<1>3. ASSUME ~broken PROVE HandshakeInv'
  BY <1>1, <1>3 DEF IInv, HandshakeInv, ReadyInv, CapturingInv, AnnouncedInv,
                    SendingInv, RetriggerInv
<1>4. QED
  BY <1>2, <1>3 DEF IInv

LEMMA InitInv == Init => IInv
<1> SUFFICES ASSUME Init PROVE IInv
  OBVIOUS
<1>1. TypeOK
  BY InitType
<1>2. PulseInv
  BY DEF Init, PulseInv
<1>3. ~Busy
  BY DEF Init, Busy, dma_active
<1>4. HandshakeInv
  BY <1>3 DEF Init, HandshakeInv, ReadyInv, CapturingInv, AnnouncedInv,
              SendingInv, RetriggerInv
<1>5. QED
  BY <1>1, <1>2, <1>4 DEF IInv

LEMMA NextInv == IInv /\ [Next]_vars => IInv'
<1> SUFFICES ASSUME IInv, [Next]_vars PROVE IInv'
  OBVIOUS
<1>1. TypeOK'
  BY NextType DEF IInv
<1>2. CASE Edge
  BY <1>2, EdgeInv DEF Edge
<1>3. CASE dmadata_push
  BY <1>3, PushInv, MixedInv
<1>4. ASSUME NEW src \in TrigSrc, set_trigsrc(src)
      PROVE  IInv'
  BY <1>1, <1>4, QuietInv DEF set_trigsrc
<1>5. ASSUME NEW ch \in Chan, NEW len \in Len, set_dmalen(ch, len)
      PROVE  IInv'
  BY <1>1, <1>5, QuietInv DEF set_dmalen
<1>6. CASE UNCHANGED vars
  BY <1>1, <1>6, QuietInv DEF vars
<1>7. QED
  BY <1>2, <1>3, <1>4, <1>5, <1>6 DEF Next

THEOREM Invariance == SafetySpec => []IInv
BY InitInv, NextInv, PTL DEF SafetySpec
-----------------------------------------------------------------------------
(* What follows from the invariant *)

\* A clear latch means the previous capture has been counted, fetched and sent:
\* the latch of trig_logic.vhd guards the whole of dmadata_push's transmission.
THEOREM LatchGuards == SafetySpec => []LatchGuardsCapture
<1>1. IInv => LatchGuardsCapture
  BY DEF IInv, HandshakeInv, ReadyInv, LatchGuardsCapture
<1>2. QED
  BY <1>1, Invariance, PTL

\* No engine refills a buffer while dmadata_push sends it.
THEOREM SendingIsUndisturbed == SafetySpec => []BuffersStable
<1>1. IInv => BuffersStable
  BY DEF IInv, HandshakeInv, ReadyInv, CapturingInv, BuffersStable, TypeOK, Bit
<1>2. QED
  BY <1>1, Invariance, PTL

\* Polling for a changed count every 10 ms misses no capture.
THEOREM CountsAreConsecutive == SafetySpec => []NoCountSkipped
<1>1. IInv => NoCountSkipped
  BY DEF IInv, HandshakeInv, ReadyInv, AnnouncedInv, NoCountSkipped, TypeOK, Bit
<1>2. QED
  BY <1>1, Invariance, PTL
-----------------------------------------------------------------------------
(* Refinement: TrigLogic implements AcqHandshake *)

\* Once the contract is broken, or on the step that breaks it, Break covers
\* whatever the logic does.
LEMMA BreakStep ==
  ASSUME IInv, IInv', broken', broken \/ HandshakePhase = "capturing"
  PROVE  A!Break
<1>1. trig_cnt' \in 0..CntMax /\ prevtrignum' \in 0..CntMax
  BY DEF IInv, TypeOK
<1>2. HandshakePhase' \in A!Phase
  BY DEF HandshakePhase, A!Phase
<1>3. broken' = TRUE
  BY DEF IInv, TypeOK
<1>4. QED
  BY <1>1, <1>2, <1>3 DEF A!Break

LEMMA EdgeRefines ==
  ASSUME IInv, IInv', NEW strobe \in SUBSET Paced,
         NEW din \in [TrigSrc -> Bit], Clock(strobe, din)
  PROVE  [A!Next]_A!vars
<1>1. CASE broken
  <2>1. broken'
    BY <1>1 DEF Clock
  <2>2. QED
    BY <1>1, <2>1, BreakStep DEF A!Next
<1>2. CASE ~broken /\ broken'
  <2>1. HandshakePhase = "capturing"
    <3>1. Busy /\ dma_trig_lat = 1
      BY <1>2, Zenon DEF Clock
    <3>2. QED
      BY <3>1 DEF HandshakePhase
  <2>2. QED
    BY <1>2, <2>1, BreakStep DEF A!Next
<1>3. CASE ~broken /\ ~broken'
  <2>1. /\ TypeOK /\ HandshakeInv /\ PulseInv /\ TypeOK' /\ HandshakeInv'
        /\ ~(Busy /\ dma_trig_lat = 1 /\ txtoioc_done = 1)
        /\ broken' = broken
    BY <1>3 DEF IInv, Clock, TypeOK
  <2>2. /\ prevtrignum' = prevtrignum
        /\ dma_trig_lat' = LatchNext /\ dma_running' = RunningNext
        /\ dma_done' = DoneNext /\ trig_cnt' = CountNext
    BY DEF Clock
  <2>3. CASE dma_trig_lat = 0
    <3>1. trig_cnt' = trig_cnt
      BY <2>1, <2>2, <2>3 DEF HandshakeInv, ReadyInv, Busy, CountNext
    <3>2. CASE dma_trig = 1
      <4>1. dma_trig_lat' = 1 /\ Busy'
        BY <2>1, <2>2, <2>3, <3>2, EdgeEngines
           DEF LatchNext, HandshakeInv, ReadyInv, Busy
      <4>2. A!Accept
        BY <1>3, <2>1, <2>2, <2>3, <3>1, <4>1
           DEF A!Accept, A!Move, HandshakePhase
      <4>3. QED
        BY <4>2 DEF A!Next
    <3>3. CASE dma_trig # 1
      <4>1. dma_trig_lat' = 0
        BY <2>2, <2>3, <3>3 DEF LatchNext
      <4>2. QED
        BY <2>1, <2>2, <2>3, <3>1, <4>1 DEF A!vars, HandshakePhase
    <3>4. QED
      BY <3>2, <3>3
  <2>4. CASE dma_trig_lat = 1 /\ Busy
    <3>1. dma_trig_lat' = 1 /\ trig_cnt = prevtrignum
      BY <2>1, <2>2, <2>4 DEF LatchNext, HandshakeInv, CapturingInv
    <3>2. CASE dma_done = 1
      <4>1. trig_cnt' = Inc(trig_cnt) /\ trig_cnt' # prevtrignum'
        BY <2>1, <2>2, <3>1, <3>2, IncType DEF CountNext, TypeOK
      <4>2. ~Busy'
        BY <2>1, <3>1, <4>1 DEF HandshakeInv, CapturingInv
      <4>3. A!Announce
        BY <1>3, <2>1, <2>2, <2>4, <3>1, <4>1, <4>2
           DEF A!Announce, A!Move, A!Inc, Inc, HandshakePhase
      <4>4. QED
        BY <4>3 DEF A!Next
    <3>3. CASE dma_done # 1
      <4>1. trig_cnt' = trig_cnt
        BY <2>2, <3>3 DEF CountNext
      <4>2. Busy'
        BY <2>2, <2>4, <3>3 DEF Busy, RunningNext, DoneNext
      <4>3. QED
        BY <2>1, <2>2, <2>4, <3>1, <4>1, <4>2 DEF A!vars, HandshakePhase
    <3>4. QED
      BY <3>2, <3>3
  <2>5. CASE dma_trig_lat = 1 /\ ~Busy
    <3>1. trig_cnt' = trig_cnt /\ dma_trig = 0
      BY <2>1, <2>2, <2>5, ChanAssumption
         DEF Busy, CountNext, HandshakeInv, RetriggerInv, dma_active, TypeOK, Bit
    <3>2. ~Busy'
      BY <2>2, <2>5, <3>1, EdgeEngines, <2>1 DEF Busy, RunningNext, DoneNext
    <3>3. CASE txtoioc_done = 1
      <4>1. dma_trig_lat' = 0 /\ trig_cnt = prevtrignum
        BY <2>1, <2>2, <2>5, <3>3
           DEF LatchNext, HandshakeInv, AnnouncedInv, PulseInv
      <4>2. A!Release
        BY <1>3, <2>1, <2>2, <2>5, <3>1, <4>1
           DEF A!Release, A!Move, HandshakePhase
      <4>3. QED
        BY <4>2 DEF A!Next
    <3>4. CASE txtoioc_done # 1
      <4>1. dma_trig_lat' = 1
        BY <2>2, <2>5, <3>1, <3>4 DEF LatchNext
      <4>2. QED
        BY <2>1, <2>2, <2>5, <3>1, <3>2, <4>1 DEF A!vars, HandshakePhase
    <3>5. QED
      BY <3>3, <3>4
  <2>6. QED
    BY <2>1, <2>3, <2>4, <2>5 DEF TypeOK, Bit
<1>4. QED
  BY <1>1, <1>2, <1>3 DEF IInv, TypeOK

LEMMA MixedRefines ==
  ASSUME IInv, IInv', PollMixed
  PROVE  [A!Next]_A!vars
<1>1. broken' = TRUE /\ Busy
  BY DEF PollMixed, Busy
<1>2. broken \/ HandshakePhase = "capturing"
  <2>1. CASE ~broken
    <3>1. dma_trig_lat # 0
      BY <1>1, <2>1 DEF IInv, HandshakeInv, ReadyInv
    <3>2. QED
      BY <1>1, <3>1 DEF HandshakePhase
  <2>2. QED
    BY <2>1
<1>3. QED
  BY <1>1, <1>2, BreakStep DEF A!Next

LEMMA PushRefines ==
  ASSUME IInv, IInv', dmadata_push, ~PollMixed
  PROVE  [A!Next]_A!vars
<1>1. /\ dma_trig_lat' = dma_trig_lat /\ trig_cnt' = trig_cnt
      /\ Busy' <=> Busy
      /\ broken' = broken
  <2>1. UNCHANGED pl_vars /\ broken' = broken
    BY DEF dmadata_push, PollCount, SendBuffers, AckHigh, AckLow, Rearm, Access
  <2>2. QED
    BY <2>1, BusyUnchanged DEF pl_vars
<1>2. CASE broken
  BY <1>1, <1>2, BreakStep DEF A!Next
<1>3. CASE ~broken /\ PollCount
  <2>1. /\ prevtrignum' = trig_cnt /\ trig_cnt # prevtrignum
        /\ dma_trig_lat = 1 /\ ~Busy
    BY <1>3 DEF PollCount, IInv, TypeOK, Bit, HandshakeInv, ReadyInv, CapturingInv
  <2>2. A!Fetch
    BY <1>1, <1>3, <2>1 DEF A!Fetch, A!Move, HandshakePhase
  <2>3. QED
    BY <2>2 DEF A!Next
<1>4. CASE ~PollCount
  <2>1. prevtrignum' = prevtrignum
    BY <1>4 DEF dmadata_push, SendBuffers, AckHigh, AckLow, Rearm
  <2>2. QED
    BY <1>1, <2>1 DEF A!vars, HandshakePhase
<1>5. QED
  BY <1>2, <1>3, <1>4 DEF IInv, TypeOK

LEMMA NextRefines == IInv /\ IInv' /\ [Next]_vars => [A!Next]_A!vars
<1> SUFFICES ASSUME IInv, IInv', [Next]_vars PROVE [A!Next]_A!vars
  OBVIOUS
<1>1. CASE Edge
  BY <1>1, EdgeRefines DEF Edge
<1>2. CASE dmadata_push
  BY <1>2, PushRefines, MixedRefines
<1>3. CASE UNCHANGED <<pl_vars, prevtrignum, broken>>
  <2>1. dma_trig_lat' = dma_trig_lat /\ trig_cnt' = trig_cnt /\ (Busy' <=> Busy)
    BY <1>3, BusyUnchanged DEF pl_vars
  <2>2. QED
    BY <1>3, <2>1 DEF A!vars, HandshakePhase
<1>4. QED
  BY <1>1, <1>2, <1>3 DEF Next, set_trigsrc, set_dmalen, vars

\* The latch, the engines, the count and the polling thread implement the
\* one-capture-at-a-time handshake of AcqHandshake, for every number of
\* channels and every wrap of the count.
THEOREM Refinement == SafetySpec => ImplementsHandshake
<1>1. Init => A!Init
  BY DEF Init, A!Init, HandshakePhase
<1>2. IInv /\ IInv' /\ [Next]_vars => [A!Next]_A!vars
  BY NextRefines
<1>3. QED
  BY <1>1, <1>2, Invariance, PTL DEF SafetySpec, ImplementsHandshake, A!Spec
=============================================================================
