------------------------------- MODULE DmaArm -------------------------------
(***************************************************************************)
(* How one channel's capture gets into DDR: the burst engine writes into a *)
(* FIFO, an AXI DMA core moves the FIFO's words to memory, and dma_arm     *)
(* (dmadata.c) prepares both.  dma_arm runs in the dmadata thread after    *)
(* every transmission and in a client's thread after every change of a     *)
(* length (control.c), and nothing keeps the two apart.                    *)
(*                                                                         *)
(* The trigger logic enters as the phase it implements (AcqHandshake, see  *)
(* TrigLogic).  One channel is modelled: the channels share nothing but    *)
(* the trigger, the FIFO reset and the order of dma_arm's accesses, each   *)
(* of which is a step here.  The channel is TbT or FA: the ADC's length    *)
(* has 16 samples to spare (dmadata.c:77).  A sample counts once, however  *)
(* many words it has, and is told only by whether it is new, that is, of   *)
(* the latest capture.  Samples beyond MaxLen are never read and not kept. *)
(***************************************************************************)
EXTENDS Naturals, Sequences

CONSTANTS
  DmaData,            \* the dmadata thread
  Client,             \* client threads, which call set_dmalen
  MaxLen,             \* largest burst length
  Depth               \* samples the FIFO holds

ASSUME ThreadAssumption == DmaData \notin Client
ASSUME SizeAssumption == MaxLen \in Nat \ {0} /\ Depth \in Nat \ {0}

VARIABLES
  phase,              \* the capture, as in AcqHandshake
  burst_len,          \* DMA_*BURSTLEN register
  fifo_wrlen,         \* samples the engine has still to write
  fifo_rst,           \* DMA_FIFORST register
  fifo,               \* samples waiting for the DMA core
  dma,                \* S2MM channel: its state, samples its length leaves,
                      \* place of its next sample, whether in the buffer
  da,                 \* S2MM_DA holds the buffer's address
  ddr,                \* the buffer: which places hold a new sample
  pc, nsamples, sent, \* dmadata: step, length read, samples transmitted
  arm, armlen,        \* dma_arm per thread: step, length read
  crossed,            \* history: the last calls of dma_arm overlapped
  due                 \* history: samples the capture owes, 0 if disturbed

capture_vars == <<phase, fifo_wrlen>>
store_vars   == <<fifo, dma, da, ddr>>
data_vars    == <<pc, nsamples, sent>>
arm_vars     == <<arm, armlen>>
hist_vars    == <<crossed, due>>
vars == <<capture_vars, burst_len, fifo_rst, store_vars, data_vars, arm_vars, hist_vars>>

Thread == Client \cup {DmaData}
Len1   == 1..MaxLen
Word   == [new : BOOLEAN, last : BOOLEAN]
ArmStep == {"idle", "len", "rst", "unrst", "reset", "start", "addr", "go"}

TypeOK ==
  /\ phase \in {"ready", "capturing", "announced", "sending"}
  /\ burst_len \in Len1
  /\ fifo_wrlen \in 0..MaxLen
  /\ fifo_rst \in 0..1
  /\ fifo \in Seq(Word) /\ Len(fifo) <= Depth
  /\ dma \in [st : {"reset", "run", "busy", "error"}, room : 0..MaxLen,
              at : 1..(MaxLen + 1), buf : BOOLEAN]
  /\ dma.st = "busy" => dma.room # 0
  /\ da \in BOOLEAN
  /\ ddr \in [Len1 -> BOOLEAN]
  /\ pc \in {"poll", "send", "ack"}
  /\ nsamples \in 0..MaxLen
  /\ sent \in Seq(BOOLEAN)
  /\ arm \in [Thread -> ArmStep]
  /\ armlen \in [Thread -> 0..MaxLen]
  /\ crossed \in BOOLEAN
  /\ due \in 0..MaxLen

NobodyArms == \A t \in Thread : arm[t] = "idle"

-----------------------------------------------------------------------------
(* The programmable logic *)

\* A trigger starts the engine with len samples; from now on these are the new
\* ones.  All of them are due if nobody is inside dma_arm and the last call had
\* it for itself.
StartEngine(len) ==
  /\ phase = "ready"
  /\ phase' = "capturing"
  /\ fifo_wrlen' = len
  /\ fifo' = [i \in 1..Len(fifo) |-> [fifo[i] EXCEPT !.new = FALSE]]
  /\ ddr' = [i \in Len1 |-> FALSE]
  /\ due' = IF NobodyArms /\ ~crossed THEN burst_len ELSE 0
  /\ UNCHANGED <<burst_len, fifo_rst, dma, da, data_vars, arm_vars, crossed>>

\* Faulty variant: the engine counts from one less.
TriggerShort == StartEngine(burst_len - 1)

\* The engine takes the length register's value, whatever state FIFO and DMA
\* core are in: the enable registers of control.c:122-124 reach no logic.
Trigger == StartEngine(burst_len)

\* The engine does not look at the FIFO's ready signal: a FIFO that is full or
\* in reset loses the sample.  An armed DMA core keeps it from filling up.
WriteSample ==
  /\ fifo_wrlen # 0
  /\ fifo_wrlen' = fifo_wrlen - 1
  /\ dma.st = "busy" /\ fifo_rst = 0 => Len(fifo) < Depth
  /\ fifo' = IF fifo_rst = 1 \/ Len(fifo) = Depth THEN fifo
             ELSE Append(fifo, [new |-> TRUE, last |-> fifo_wrlen = 1])
  /\ UNCHANGED <<phase, burst_len, fifo_rst, dma, da, ddr, data_vars, arm_vars,
                 hist_vars>>

\* trig_cnt is incremented when the engine has finished.
Announce ==
  /\ phase = "capturing" /\ fifo_wrlen = 0
  /\ phase' = "announced"
  /\ UNCHANGED <<fifo_wrlen, burst_len, fifo_rst, store_vars, data_vars,
                 arm_vars, hist_vars>>

\* The S2MM channel (external) stores one sample: in the buffer, or wherever
\* the address it was started with points.  A transfer ends with the packet; a
\* packet longer than the length halts the channel.
Store ==
  /\ dma.st = "busy" /\ fifo # <<>>
  /\ ddr' = IF dma.buf /\ dma.at \in Len1 THEN [ddr EXCEPT ![dma.at] = Head(fifo).new]
            ELSE ddr
  /\ fifo' = Tail(fifo)
  /\ dma' = [dma EXCEPT
              !.at   = IF @ \in Len1 THEN @ + 1 ELSE @,
              !.st   = IF Head(fifo).last THEN "run"
                       ELSE IF dma.room = 1 THEN "error" ELSE "busy",
              !.room = IF Head(fifo).last THEN 0 ELSE @ - 1]
  /\ UNCHANGED <<capture_vars, burst_len, fifo_rst, da, data_vars, arm_vars, hist_vars>>

-----------------------------------------------------------------------------
(* dma_arm, in any thread *)

Goto(t, from, to) ==
  /\ arm[t] = from /\ arm' = [arm EXCEPT ![t] = to]
  /\ UNCHANGED <<capture_vars, burst_len, data_vars, hist_vars>>

ReadLen(t) ==
  /\ Goto(t, "len", "rst")
  /\ armlen' = [armlen EXCEPT ![t] = burst_len]
  /\ UNCHANGED <<fifo_rst, store_vars>>

\* Faulty variant: the reset keeps what is in the FIFO.
FifoKeeps(t) ==
  /\ Goto(t, "rst", "unrst")
  /\ fifo_rst' = 1
  /\ UNCHANGED <<store_vars, armlen>>

FifoReset(t) ==
  /\ Goto(t, "rst", "unrst")
  /\ fifo_rst' = 1
  /\ fifo' = <<>>
  /\ UNCHANGED <<dma, da, ddr, armlen>>

FifoRun(t) ==
  /\ Goto(t, "unrst", "reset")
  /\ fifo_rst' = 0
  /\ UNCHANGED <<store_vars, armlen>>

\* DMACR = 4: soft reset, which gives every register of the core its reset value.
DmaReset(t) ==
  /\ Goto(t, "reset", "start")
  /\ dma' = [dma EXCEPT !.st = "reset", !.room = 0]
  /\ da' = FALSE
  /\ UNCHANGED <<fifo_rst, fifo, ddr, armlen>>

\* DMACR = 0xF001: run, without effect on a channel that runs or has failed.
DmaStart(t) ==
  /\ Goto(t, "start", "addr")
  /\ dma' = IF dma.st = "reset" THEN [dma EXCEPT !.st = "run"] ELSE dma
  /\ UNCHANGED <<fifo_rst, fifo, da, ddr, armlen>>

\* Faulty variant: the address is not written again after the reset.
AddressKept(t) ==
  /\ Goto(t, "addr", "go")
  /\ UNCHANGED <<fifo_rst, store_vars, armlen>>

\* S2MM_DA: for the transfers that start later.
DmaAddress(t) ==
  /\ Goto(t, "addr", "go")
  /\ da' = TRUE
  /\ UNCHANGED <<fifo_rst, fifo, dma, ddr, armlen>>

\* S2MM_LEN starts a transfer to the address on a channel that runs and does
\* nothing on one that does not; writing it during a transfer is undefined: it
\* is ignored or replaces the length.
DmaLength(t) ==
  /\ Goto(t, "go", "idle")
  /\ \/ /\ dma.st = "run"
        /\ dma' = [st |-> "busy", room |-> armlen[t], at |-> 1, buf |-> da]
     \/ /\ dma.st = "busy"
        /\ dma' = [dma EXCEPT !.room = armlen[t]]
     \/ /\ dma.st # "run"
        /\ dma' = dma
  /\ armlen' = [armlen EXCEPT ![t] = 0]
  /\ UNCHANGED <<fifo_rst, fifo, da, ddr>>

dma_arm(t) ==
  \/ ReadLen(t) \/ FifoReset(t) \/ FifoRun(t)
  \/ DmaReset(t) \/ DmaStart(t) \/ DmaAddress(t) \/ DmaLength(t)

\* The call itself.  It has dma_arm for itself if nobody is inside.
Call(t) ==
  /\ arm[t] = "idle"
  /\ arm' = [arm EXCEPT ![t] = "len"]
  /\ crossed' = ~NobodyArms

-----------------------------------------------------------------------------
\* control.c: the new length is written, then dma_arm called.  A capture that is
\* being sent and wholly stored is due nevertheless: its length has been read,
\* and arming does not touch the buffer.
set_dmalen(t, dmalen) ==
  /\ Call(t)
  /\ burst_len' = dmalen
  /\ due' = IF phase = "sending" /\ fifo = <<>> THEN due ELSE 0
  /\ UNCHANGED <<capture_vars, fifo_rst, store_vars, data_vars, armlen>>

-----------------------------------------------------------------------------
(* dmadata_push *)

\* The changed count is seen and the lengths are read.
PollCount ==
  /\ arm[DmaData] = "idle" /\ pc = "poll"
  /\ phase = "announced"
  /\ phase' = "sending"
  /\ nsamples' = burst_len
  /\ pc' = "send"
  /\ UNCHANGED <<fifo_wrlen, burst_len, fifo_rst, store_vars, sent, arm_vars, hist_vars>>

\* process_*_dma copies what the buffer holds at that moment, stored or not.
SendBuffers ==
  /\ pc = "send"
  /\ sent' = [i \in 1..nsamples |-> ddr[i]]
  /\ due' = IF fifo = <<>> THEN due ELSE 0
  /\ pc' = "ack"
  /\ UNCHANGED <<capture_vars, burst_len, fifo_rst, store_vars, nsamples, arm_vars,
                 crossed>>

\* The acknowledge pulse, and the call of dma_arm that follows it.
Acknowledge ==
  /\ pc = "ack"
  /\ phase' = "ready"
  /\ pc' = "poll"
  /\ nsamples' = 0 /\ sent' = <<>>
  /\ Call(DmaData)
  /\ due' = 0
  /\ UNCHANGED <<fifo_wrlen, burst_len, fifo_rst, store_vars, armlen>>

dmadata_push == PollCount \/ SendBuffers \/ Acknowledge

-----------------------------------------------------------------------------
\* dmadata_push begins with dma_arm; the cores come out of power-on reset.
Init ==
  /\ phase = "ready" /\ fifo_wrlen = 0
  /\ burst_len \in Len1
  /\ fifo_rst = 0 /\ fifo = <<>>
  /\ dma = [st |-> "reset", room |-> 0, at |-> 1, buf |-> FALSE]
  /\ da = FALSE /\ ddr = [i \in Len1 |-> FALSE]
  /\ pc = "poll" /\ nsamples = 0 /\ sent = <<>>
  /\ arm = [t \in Thread |-> IF t = DmaData THEN "len" ELSE "idle"]
  /\ armlen = [t \in Thread |-> 0]
  /\ crossed = FALSE /\ due = 0

pl_step == Trigger \/ WriteSample \/ Announce \/ Store

Next ==
  \/ pl_step
  \/ dmadata_push
  \/ \E t \in Thread : dma_arm(t)
  \/ \E t \in Client, dmalen \in Len1 : set_dmalen(t, dmalen)

Spec == Init /\ [][Next]_vars

-----------------------------------------------------------------------------
(* Properties *)

\* Whatever the threads' dma_arm calls do to each other, the core waits for
\* samples when the last of them is through and no trigger came meanwhile, and
\* none are left in the FIFO.  A call that was alone has armed the channel as it
\* should be: the buffer, from its start, with the length the engine will use
\* (dmadata.c:55-83).  Overlapping calls may leave another address or length.
ArmedAtRest ==
  NobodyArms /\ phase = "ready" =>
     /\ dma.st = "busy" /\ dma.at = 1
     /\ fifo_rst = 0 /\ fifo = <<>>
     /\ ~crossed => dma.buf /\ dma.room = burst_len

\* Outside dma_arm, the FIFO holds new samples only, and so does the buffer as
\* far as the core has got in it: what earlier captures left behind was flushed
\* (dmadata.c:55-57), also when calls overlapped or a trigger came between
\* their steps.  After a call that was alone the core is in the buffer.
NoStaleSamples ==
  NobodyArms /\ phase # "ready" =>
     /\ \A i \in 1..Len(fifo) : fifo[i].new
     /\ dma.buf => \A i \in Len1 : i < dma.at => ddr[i]
     /\ ~crossed => dma.buf

\* A capture that was triggered with nobody in dma_arm, after a call that was
\* alone, kept its length until it was read, and had left the FIFO, is sent
\* whole: nothing but new samples, as many as were triggered, also if a client
\* re-arms the core during the transmission (dmadata.c:266-278).
WholeCaptureSent ==
  pc = "ack" /\ due # 0 => sent = [i \in 1..due |-> TRUE]

=============================================================================
