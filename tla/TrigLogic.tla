----------------------------- MODULE TrigLogic ------------------------------
(***************************************************************************)
(* The trigger logic of the DMA acquisition and the thread that serves it: *)
(*                                                                         *)
(*   trig_logic.vhd   source selection, trigger latch, running flag, done  *)
(*                    pulse and trigger count, one register per variable   *)
(*   adc2dma, tbt2dma, fa2dma                                              *)
(*                    the burst engines: how many samples are still due    *)
(*   dmadata.c        dmadata_push: poll the count, send the buffers,      *)
(*                    pulse TXTOIOC_DONE, re-arm                           *)
(*                                                                         *)
(* Clock is one rising edge of adc_clk: every register takes its next      *)
(* value from the values before the edge.  The thread's register accesses  *)
(* interleave with the clock; each takes longer than an adc_clk period, so *)
(* at least one edge falls between two of them (the variable clocked).     *)
(***************************************************************************)
EXTENDS Naturals

CONSTANTS
  Chan,               \* the capture channels (ADC, TbT, FA)
  Paced,              \* those that wait for a turn or FA strobe per sample
  MaxLen,             \* largest burst length
  CntMax              \* trig_cnt wraps after this value (2^32 - 1 in the PL)

ASSUME ChanAssumption == Chan # {} /\ Paced \subseteq Chan
ASSUME MaxLenAssumption == MaxLen \in Nat \ {0}
ASSUME CntAssumption == CntMax \in Nat \ {0}

VARIABLES
  sr,                 \* sync_cdc stages 1 and 2 of each trigger source
  trigsrc,            \* DMA_TRIGSRC register: 0 = event link, 1 = soft
  dma_trig, dma_trig_lat, dma_running, dma_done,
  trig_cnt,
  burst_len,          \* the three DMA_*BURSTLEN registers
  fifo_wrlen,         \* samples each engine has still to write; 0 = IDLE
  txtoioc_done,       \* DMA_TXTOIOC_DONE register
  pc, prevtrignum,    \* the dmadata thread
  clocked,            \* an edge has passed since the thread's last access
  broken              \* history: the latch was cleared under a live trigger,
                      \* or the count was read while its bits changed

pl_vars == <<sr, dma_trig, dma_trig_lat, dma_running, dma_done, trig_cnt,
             fifo_wrlen>>
vars == <<pl_vars, trigsrc, burst_len, txtoioc_done, pc, prevtrignum,
          clocked, broken>>

Bit     == 0..1
TrigSrc == 0..1
Len     == 1..MaxLen
Step    == {"poll", "send", "ack", "clear", "arm"}

TypeOK ==
  /\ sr \in [TrigSrc -> [s1: Bit, s2: Bit]]
  /\ trigsrc \in TrigSrc
  /\ dma_trig \in Bit /\ dma_trig_lat \in Bit
  /\ dma_running \in Bit /\ dma_done \in Bit
  /\ trig_cnt \in 0..CntMax
  /\ burst_len \in [Chan -> Len]
  /\ fifo_wrlen \in [Chan -> 0..MaxLen]
  /\ txtoioc_done \in Bit
  /\ pc \in Step
  /\ prevtrignum \in 0..CntMax
  /\ clocked \in BOOLEAN /\ broken \in BOOLEAN

-----------------------------------------------------------------------------
(* The programmable logic *)

\* sync_cdc: the first stage only delays a free input, so din enters stage 1.
Shift(s, din) == [s1 |-> din, s2 |-> s.s1]
Rise(s) == IF s.s2 = 0 /\ s.s1 = 1 THEN 1 ELSE 0

dma_active == \E ch \in Chan : fifo_wrlen[ch] # 0

\* Faulty variant: triggers are not held off by the latch.
TrigIgnoresLatch == Rise(sr[trigsrc])

\* The selected source triggers only while the latch is clear.
TrigNext == IF dma_trig_lat = 0 THEN Rise(sr[trigsrc]) ELSE 0

\* Faulty variant: the done pulse clears the latch, not only the software.
DoneClearsLatch ==
  IF dma_trig_lat = 1 /\ (txtoioc_done = 1 \/ dma_done = 1) THEN 0
  ELSE IF dma_trig = 1 THEN 1 ELSE dma_trig_lat

\* The last assignment of the process wins: clearing beats setting.
LatchNext ==
  IF dma_trig_lat = 1 /\ txtoioc_done = 1 THEN 0
  ELSE IF dma_trig = 1 THEN 1 ELSE dma_trig_lat

\* Faulty variant: running ends as soon as the latch is clear.
RunsWhileLatched == IF dma_trig_lat = 1 /\ dma_active THEN 1 ELSE 0

RunningNext ==
  IF dma_running = 1 /\ ~dma_active THEN 0
  ELSE IF dma_trig_lat = 1 /\ dma_active THEN 1 ELSE dma_running

DoneNext == IF dma_running = 1 /\ ~dma_active THEN 1 ELSE 0

Inc(c) == IF c = CntMax THEN 0 ELSE c + 1

\* Faulty variant: triggers are counted, not completed captures.
CountTriggers == IF dma_trig = 1 THEN Inc(trig_cnt) ELSE trig_cnt

CountNext == IF dma_done = 1 THEN Inc(trig_cnt) ELSE trig_cnt

\* An idle engine loads its length on a trigger and ignores triggers until
\* it is idle again; a paced one counts down on its sample strobe only.  The
\* eight (five) words of a TbT (FA) sample are written in the strobe's step.
EngineNext(ch, strobe) ==
  IF fifo_wrlen[ch] = 0
  THEN IF dma_trig = 1 THEN burst_len[ch] ELSE 0
  ELSE IF ch \in Paced /\ ch \notin strobe THEN fifo_wrlen[ch]
       ELSE fifo_wrlen[ch] - 1

\* A capture that has been triggered and is not yet counted.
Busy == dma_active \/ dma_running = 1 \/ dma_done = 1

Clock(strobe, din) ==
  /\ sr' = [s \in TrigSrc |-> Shift(sr[s], din[s])]
  /\ dma_trig' = TrigNext
  /\ dma_trig_lat' = LatchNext
  /\ dma_running' = RunningNext
  /\ dma_done' = DoneNext
  /\ trig_cnt' = CountNext
  /\ fifo_wrlen' = [ch \in Chan |-> EngineNext(ch, strobe)]
  /\ clocked' = TRUE
  /\ broken' = (broken \/ (Busy /\ dma_trig_lat = 1 /\ txtoioc_done = 1))
  /\ UNCHANGED <<trigsrc, burst_len, txtoioc_done, pc, prevtrignum>>

Edge == \E strobe \in SUBSET Paced, din \in [TrigSrc -> Bit] : Clock(strobe, din)

-----------------------------------------------------------------------------
(* The dmadata thread *)

Access(from, to) ==
  /\ clocked
  /\ clocked' = FALSE
  /\ pc = from
  /\ pc' = to
  /\ UNCHANGED <<pl_vars, trigsrc, burst_len, broken>>

\* Faulty variant: only a larger count is taken for a new one.
PollLarger ==
  /\ trig_cnt > prevtrignum
  /\ prevtrignum' = trig_cnt
  /\ Access("poll", "send")
  /\ UNCHANGED txtoioc_done

\* Read DMA_TRIGCNT every 10 ms; a changed count starts a transmission.
PollCount ==
  /\ trig_cnt # prevtrignum
  /\ prevtrignum' = trig_cnt
  /\ Access("poll", "send")
  /\ UNCHANGED txtoioc_done

\* The count's clock and the registers' clock are asynchronous (timing.xdc), and
\* nothing holds its 32 bits together: a read at the moment of the increment may
\* give any mixture of the two values.
PollMixed ==
  /\ clocked /\ clocked' = FALSE
  /\ pc = "poll" /\ pc' = "send"
  /\ dma_done = 1
  /\ prevtrignum' \in (0..CntMax) \ {prevtrignum, trig_cnt, Inc(trig_cnt)}
  /\ broken' = TRUE
  /\ UNCHANGED <<pl_vars, trigsrc, burst_len, txtoioc_done>>

\* The step in which the last of messages 53, 54 and 55 has gone out.
SendBuffers ==
  /\ Access("send", "ack")
  /\ UNCHANGED <<prevtrignum, txtoioc_done>>

AckHigh ==
  /\ Access("ack", "clear")
  /\ txtoioc_done' = 1
  /\ UNCHANGED prevtrignum

AckLow ==
  /\ Access("clear", "arm")
  /\ txtoioc_done' = 0
  /\ UNCHANGED prevtrignum

\* dma_arm touches the FIFOs and the AXI DMA cores only (module DmaArm).
Rearm ==
  /\ Access("arm", "poll")
  /\ UNCHANGED <<prevtrignum, txtoioc_done>>

dmadata_push ==
  PollCount \/ PollMixed \/ SendBuffers \/ AckHigh \/ AckLow \/ Rearm

-----------------------------------------------------------------------------
(* The settings a client may write at any moment *)

set_trigsrc(msgVal) ==
  /\ trigsrc' = msgVal
  /\ UNCHANGED <<pl_vars, burst_len, txtoioc_done, pc, prevtrignum, clocked,
                 broken>>

set_dmalen(ch, dmalen) ==
  /\ burst_len' = [burst_len EXCEPT ![ch] = dmalen]
  /\ UNCHANGED <<pl_vars, trigsrc, txtoioc_done, pc, prevtrignum, clocked,
                 broken>>

-----------------------------------------------------------------------------
Init ==
  /\ sr = [s \in TrigSrc |-> [s1 |-> 0, s2 |-> 0]]
  /\ trigsrc = 0
  /\ dma_trig = 0 /\ dma_trig_lat = 0 /\ dma_running = 0 /\ dma_done = 0
  /\ trig_cnt = 0
  /\ burst_len \in [Chan -> Len]
  /\ fifo_wrlen = [ch \in Chan |-> 0]
  /\ txtoioc_done = 0
  /\ pc = "poll"
  /\ prevtrignum = 0
  /\ clocked = FALSE
  /\ broken = FALSE

Next ==
  \/ Edge
  \/ dmadata_push
  \/ \E src \in TrigSrc : set_trigsrc(src)
  \/ \E ch \in Chan, len \in Len : set_dmalen(ch, len)

\* A paced engine that is due a sample gets its strobe.
SampleStrobe(ch) == Edge /\ fifo_wrlen'[ch] < fifo_wrlen[ch]

Fairness ==
  /\ WF_vars(Edge)
  /\ \A ch \in Chan : WF_vars(SampleStrobe(ch))
  /\ WF_vars(dmadata_push)

SafetySpec == Init /\ [][Next]_vars
Spec == SafetySpec /\ Fairness
-----------------------------------------------------------------------------
(* Properties *)

\* While the latch is clear, and so a trigger would be accepted, the previous
\* capture is over, counted, fetched and sent: what dma_trig_lat is for
\* (trig_logic.vhd:97-101 against dmadata.c:252-281).
LatchGuardsCapture ==
  ~broken /\ dma_trig_lat = 0 =>
     /\ ~Busy
     /\ trig_cnt = prevtrignum
     /\ pc \notin {"send", "ack"}

\* From the fetch of a count to the acknowledge no engine writes samples: the
\* DDR buffers dmadata.c:272-278 copies out are not refilled meanwhile.
BuffersStable == ~broken /\ pc \in {"send", "ack"} => ~Busy

\* The polled count is at most one behind trig_cnt, so that comparing for
\* "changed" (dmadata.c:252) misses no capture.
NoCountSkipped == ~broken => trig_cnt \in {prevtrignum, Inc(prevtrignum)}

\* A capture that starts is counted, also one whose latch was cleared under it:
\* dma_running keeps it (trig_logic.vhd:122-128).
BurstCounted == dma_active ~> dma_done = 1

-----------------------------------------------------------------------------
(* The handshake this logic implements *)

HandshakePhase ==
  IF dma_trig_lat = 0 THEN "ready"
  ELSE IF Busy THEN "capturing"
  ELSE IF trig_cnt # prevtrignum THEN "announced"
  ELSE "sending"

A == INSTANCE AcqHandshake WITH
       phase <- HandshakePhase,
       count <- trig_cnt,
       fetched <- prevtrignum,
       broken <- broken

\* Latch, engines, count and thread together implement AcqHandshake.
ImplementsHandshake == A!Spec

\* Every accepted trigger is captured, counted, polled and acknowledged, unless
\* it met the acknowledge pulse of the one before or its count was read mixed.
CaptureServed == A!Served
=============================================================================
