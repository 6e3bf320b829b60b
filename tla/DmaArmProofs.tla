---------------------------- MODULE DmaArmProofs ----------------------------
(***************************************************************************)
(* dma_arm in any number of threads at once: what the channel is left in.  *)
(***************************************************************************)
EXTENDS DmaArm, TLAPS

\* A thread past the reading of the length has one; dmadata transmits between
\* two calls of dma_arm; the engine runs only while capturing.
ThreadInv ==
  /\ \A t \in Thread : arm[t] \notin {"idle", "len"} => armlen[t] # 0
  /\ pc # "poll" <=> phase = "sending"
  /\ pc # "poll" => arm[DmaData] = "idle"
  /\ phase # "capturing" => fifo_wrlen = 0
  /\ fifo_rst = 1 => \E t \in Thread : arm[t] = "unrst"

\* dmadata has yet to flush the FIFO, or to reset the core, since the last
\* acknowledge.
Unflushed == arm[DmaData] \in {"len", "rst"}
Unreset   == Unflushed \/ arm[DmaData] \in {"unrst", "reset"}

\* Somebody will start the core, or give it its length.
Pending ==
  \/ dma.st = "reset" /\ \E t \in Thread : arm[t] = "start"
  \/ dma.st = "run" /\ \E t \in Thread : arm[t] \in {"addr", "go"}

\* Once dmadata is past its resets and until a trigger, the core waits for its
\* first sample and the FIFO is empty, or a thread that will make it so is under way.
ReadyInv ==
  phase = "ready" =>
     /\ ~Unflushed => fifo = <<>>
     /\ ~Unreset => Pending \/ (dma.st = "busy" /\ dma.at = 1)

\* The same for the samples of a capture: those in the FIFO and those the core
\* has put into the buffer are new.
FifoIsOwn == \A i \in 1..Len(fifo) : fifo[i].new
DdrIsOwn  == dma.buf => \A i \in Len1 : i < dma.at => ddr[i]

OwnInv ==
  phase # "ready" =>
     /\ ~Unflushed => FifoIsOwn
     /\ ~Unreset => Pending \/ DdrIsOwn

\* What a call of dma_arm that is alone has established at each of its steps, and
\* leaves until the next call or trigger.
LoneInv ==
  ~crossed =>
     /\ \A t, u \in Thread : arm[t] # "idle" /\ arm[u] # "idle" => t = u
     /\ \A t \in Thread :
          /\ arm[t] \notin {"idle", "len"} => armlen[t] = burst_len
          /\ arm[t] = "start" => dma.st = "reset"
          /\ arm[t] \in {"addr", "go"} => dma.st = "run"
          /\ arm[t] = "go" => da
     /\ NobodyArms => dma.buf
     /\ NobodyArms /\ phase = "ready" => dma.room = burst_len

\* A capture on its way: every sample is still due, in the FIFO or stored, the
\* core's length is what is still to come, and the last sample is marked.
Flowing ==
  /\ NobodyArms /\ fifo_rst = 0 /\ burst_len = due /\ dma.buf
  /\ (dma.at - 1) + Len(fifo) + fifo_wrlen = due
  /\ \A i \in 1..Len(fifo) : fifo[i].last <=> fifo_wrlen = 0 /\ i = Len(fifo)
  /\ fifo_wrlen + Len(fifo) # 0 =>
       dma.st = "busy" /\ dma.room = fifo_wrlen + Len(fifo)

\* A capture that is in the buffer while it is being sent.
Stored ==
  /\ phase = "sending" /\ fifo = <<>>
  /\ \A i \in 1..due : ddr[i]

DueInv ==
  due # 0 =>
     /\ phase # "ready" /\ (Flowing \/ Stored)
     /\ pc # "poll" => nsamples = due
     /\ pc = "ack" => sent = [i \in 1..due |-> TRUE]

IInv == TypeOK /\ ThreadInv /\ ReadyInv /\ OwnInv /\ LoneInv /\ DueInv

-----------------------------------------------------------------------------
DmaState == [st : {"reset", "run", "busy", "error"}, room : 0..MaxLen,
             at : 1..(MaxLen + 1), buf : BOOLEAN]

LEMMA GotoEffect ==
  ASSUME TypeOK, NEW t \in Thread, NEW from, NEW to \in ArmStep, Goto(t, from, to)
  PROVE  /\ arm' \in [Thread -> ArmStep]
         /\ arm[t] = from /\ arm'[t] = to
         /\ \A u \in Thread \ {t} : arm'[u] = arm[u]
         /\ UNCHANGED <<capture_vars, burst_len, data_vars, hist_vars>>
BY DEF Goto, TypeOK

LEMMA CallEffect ==
  ASSUME TypeOK, NEW t \in Thread, Call(t)
  PROVE  /\ arm' \in [Thread -> ArmStep] /\ crossed' \in BOOLEAN
         /\ arm[t] = "idle" /\ arm'[t] = "len"
         /\ \A u \in Thread \ {t} : arm'[u] = arm[u]
         /\ ~crossed' => \A u \in Thread : arm[u] = "idle"
<1>1. /\ arm[t] = "idle" /\ arm' = [arm EXCEPT ![t] = "len"]
      /\ crossed' = ~NobodyArms
  BY DEF Call
<1>2. arm' \in [Thread -> ArmStep] /\ arm'[t] = "len"
  BY <1>1 DEF TypeOK, ArmStep
<1>3. \A u \in Thread \ {t} : arm'[u] = arm[u]
  BY <1>1 DEF TypeOK
<1>4. crossed' \in BOOLEAN /\ (~crossed' => \A u \in Thread : arm[u] = "idle")
  BY <1>1, Zenon DEF NobodyArms
<1>5. QED
  BY <1>1, <1>2, <1>3, <1>4

LEMMA AppendElement ==
  ASSUME NEW S, NEW s \in Seq(S), NEW e \in S
  PROVE  /\ Len(s) \in Nat /\ Append(s, e) \in Seq(S)
         /\ Len(Append(s, e)) = Len(s) + 1
         /\ \A i \in 1..Len(s) : Append(s, e)[i] = s[i]
         /\ Append(s, e)[Len(s) + 1] = e
OBVIOUS

\* The sample WriteSample appends, and the FIFO that Trigger relabels.
WrittenWord == [new |-> TRUE, last |-> fifo_wrlen = 1]
OldFifo     == [i \in 1..Len(fifo) |-> [fifo[i] EXCEPT !.new = FALSE]]

LEMMA WordWritten ==
  WrittenWord \in Word /\ WrittenWord.new /\ (WrittenWord.last <=> fifo_wrlen = 1)
<1>1. WrittenWord \in Word
  BY DEF WrittenWord, Word
<1>2. WrittenWord.new /\ (WrittenWord.last <=> fifo_wrlen = 1)
  BY Zenon DEF WrittenWord
<1>3. QED
  BY <1>1, <1>2

LEMMA FifoAged ==
  ASSUME TypeOK
  PROVE  OldFifo \in Seq(Word) /\ Len(OldFifo) = Len(fifo) /\ (fifo = <<>> => OldFifo = <<>>)
<1>1. fifo \in Seq(Word) /\ Len(fifo) \in Nat
  BY DEF TypeOK
<1>2. \A i \in 1..Len(fifo) : [fifo[i] EXCEPT !.new = FALSE] \in Word
  <2>1. TAKE i \in 1..Len(fifo)
  <2>2. fifo[i] \in Word
    BY <1>1
  <2>3. QED
    BY <2>2 DEF Word
<1>3. OldFifo \in Seq(Word) /\ Len(OldFifo) = Len(fifo)
  BY <1>1, <1>2 DEF OldFifo
<1>4. QED
  BY <1>3

LEMMA EmptyType == <<>> \in Seq(Word) /\ <<>> \in Seq(BOOLEAN) /\ Len(<<>>) = 0
OBVIOUS

LEMMA InitType == Init => TypeOK
<1> SUFFICES ASSUME Init PROVE TypeOK
  OBVIOUS
<1>1. fifo \in Seq(Word) /\ Len(fifo) <= Depth /\ sent \in Seq(BOOLEAN)
  BY EmptyType, SizeAssumption DEF Init
<1>2. arm \in [Thread -> ArmStep] /\ armlen \in [Thread -> 0..MaxLen]
  BY SizeAssumption DEF Init, ArmStep
<1>3. dma \in DmaState /\ dma.st = "reset" /\ ddr \in [Len1 -> BOOLEAN]
  BY SizeAssumption DEF Init, DmaState
<1>4. /\ phase = "ready" /\ fifo_wrlen \in 0..MaxLen
      /\ burst_len \in Len1 /\ fifo_rst \in 0..1 /\ da = FALSE
      /\ pc = "poll" /\ nsamples \in 0..MaxLen /\ crossed = FALSE /\ due \in 0..MaxLen
  BY SizeAssumption DEF Init, Len1
<1>5. QED
  BY <1>1, <1>2, <1>3, <1>4 DEF TypeOK, DmaState

LEMMA NextType ==
  ASSUME TypeOK, ThreadInv, [Next]_vars
  PROVE  TypeOK'
<1> USE DEF Len1
<1>1. CASE Trigger
  <2>1. /\ phase' = "capturing" /\ fifo_wrlen' = burst_len
        /\ fifo' = OldFifo /\ ddr' = [i \in Len1 |-> FALSE]
        /\ due' = IF NobodyArms /\ ~crossed THEN burst_len ELSE 0
        /\ UNCHANGED <<burst_len, fifo_rst, dma, da, data_vars, arm_vars, crossed>>
    BY <1>1 DEF Trigger, StartEngine, OldFifo
  <2>2. fifo' \in Seq(Word) /\ Len(fifo') <= Depth
    BY <2>1, FifoAged DEF TypeOK
  <2>3. ddr' \in [Len1 -> BOOLEAN]
    BY <2>1
  <2>4. due' \in 0..MaxLen /\ fifo_wrlen' \in 0..MaxLen
    BY <2>1, SizeAssumption DEF TypeOK
  <2>5. QED
    BY <2>1, <2>2, <2>3, <2>4 DEF TypeOK, data_vars, arm_vars
<1>2. CASE WriteSample
  <2>1. fifo_wrlen' \in 0..MaxLen
    BY <1>2, SizeAssumption DEF WriteSample, TypeOK
  <2>2. fifo' \in Seq(Word) /\ Len(fifo') <= Depth
    <3>1. CASE fifo_rst = 1 \/ Len(fifo) = Depth
      BY <1>2, <3>1 DEF WriteSample, TypeOK
    <3>2. CASE ~(fifo_rst = 1 \/ Len(fifo) = Depth)
      <4>1. fifo' = Append(fifo, WrittenWord)
        BY <1>2, <3>2 DEF WriteSample, WrittenWord
      <4>2. Len(fifo) + 1 <= Depth
        BY <3>2, SizeAssumption DEF TypeOK
      <4>3. QED
        BY <4>1, <4>2, WordWritten DEF TypeOK
    <3>3. QED
      BY <3>1, <3>2
  <2>3. QED
    BY <1>2, <2>1, <2>2 DEF TypeOK, WriteSample, data_vars, arm_vars, hist_vars
<1>3. CASE Announce
  BY <1>3 DEF TypeOK, Announce, store_vars, data_vars, arm_vars, hist_vars
<1>4. CASE Store
  <2>1. /\ Head(fifo) \in Word /\ Tail(fifo) \in Seq(Word)
        /\ Len(Tail(fifo)) = Len(fifo) - 1 /\ Len(fifo) \in Nat
    BY <1>4 DEF Store, TypeOK
  <2>2. fifo' \in Seq(Word) /\ Len(fifo') <= Depth
    BY <1>4, <2>1, SizeAssumption DEF Store, TypeOK
  <2>3. ddr' \in [Len1 -> BOOLEAN]
    <3>1. Head(fifo).new \in BOOLEAN
      BY <2>1 DEF Word
    <3>2. [ddr EXCEPT ![dma.at] = Head(fifo).new] \in [Len1 -> BOOLEAN]
      BY <3>1 DEF TypeOK
    <3>3. QED
      BY <1>4, <3>2 DEF Store, TypeOK
  <2>4. /\ dma' \in DmaState
        /\ dma'.st = "busy" => dma'.room # 0
    <3>1. dma.room - 1 \in 0..MaxLen /\ (dma.room # 1 => dma.room - 1 # 0)
      BY <1>4, SizeAssumption DEF Store, TypeOK
    <3>2. 0 \in 0..MaxLen
      BY SizeAssumption
    <3>3. dma.at \in Len1 => dma.at + 1 \in 1..(MaxLen + 1)
      BY SizeAssumption
    <3>4. QED
      BY <1>4, <3>1, <3>2, <3>3 DEF Store, TypeOK, DmaState
  <2>5. QED
    BY <1>4, <2>2, <2>3, <2>4
       DEF TypeOK, DmaState, Store, capture_vars, data_vars, arm_vars, hist_vars
<1>5. CASE dmadata_push
  <2>1. CASE PollCount
    BY <2>1, SizeAssumption DEF TypeOK, PollCount, store_vars, arm_vars, hist_vars
  <2>2. CASE SendBuffers
    <3>1. sent' \in Seq(BOOLEAN)
      <4>1. \A i \in 1..nsamples : ddr[i] \in BOOLEAN
        BY SizeAssumption DEF TypeOK
      <4>2. sent' = [i \in 1..nsamples |-> ddr[i]] /\ nsamples \in Nat
        BY <2>2, SizeAssumption DEF SendBuffers, TypeOK
      <4>3. QED
        BY <4>1, <4>2
    <3>2. due' \in 0..MaxLen
      BY <2>2, SizeAssumption DEF SendBuffers, TypeOK
    <3>3. QED
      BY <2>2, <3>1, <3>2 DEF TypeOK, SendBuffers, capture_vars, store_vars, arm_vars
  <2>3. CASE Acknowledge
    <3>1. nsamples' \in 0..MaxLen /\ sent' \in Seq(BOOLEAN) /\ due' \in 0..MaxLen
      BY <2>3, EmptyType, SizeAssumption DEF Acknowledge
    <3>2. arm' \in [Thread -> ArmStep] /\ crossed' \in BOOLEAN
      BY <2>3, CallEffect DEF Acknowledge, Thread
    <3>3. QED
      BY <2>3, <3>1, <3>2 DEF TypeOK, Acknowledge, store_vars
  <2>4. QED
    BY <1>5, <2>1, <2>2, <2>3 DEF dmadata_push
<1>6. ASSUME NEW t \in Thread, dma_arm(t)
      PROVE  TypeOK'
  <2>1. /\ arm' \in [Thread -> ArmStep]
        /\ UNCHANGED <<phase, fifo_wrlen, burst_len, pc, nsamples, sent, crossed, due>>
    BY <1>6, GotoEffect
       DEF dma_arm, ReadLen, FifoReset, FifoRun, DmaReset, DmaStart, DmaAddress,
           DmaLength, ArmStep, capture_vars, data_vars, hist_vars
  <2>2. CASE ReadLen(t)
    <3>1. armlen' \in [Thread -> 0..MaxLen]
      BY <2>2, SizeAssumption DEF ReadLen, TypeOK
    <3>2. QED
      BY <2>1, <2>2, <3>1 DEF TypeOK, ReadLen, store_vars
  <2>3. CASE FifoReset(t)
    <3>1. fifo' \in Seq(Word) /\ Len(fifo') <= Depth
      BY <2>3, EmptyType, SizeAssumption DEF FifoReset
    <3>2. QED
      BY <2>1, <2>3, <3>1 DEF TypeOK, FifoReset
  <2>4. CASE FifoRun(t)
    BY <2>1, <2>4 DEF TypeOK, FifoRun, store_vars
  <2>5. CASE DmaReset(t)
    <3>1. dma' = [dma EXCEPT !.st = "reset", !.room = 0] /\ dma \in DmaState
      BY <2>5 DEF DmaReset, TypeOK, DmaState
    <3>2. 0 \in 0..MaxLen
      BY SizeAssumption
    <3>3. dma' \in DmaState
      BY <3>1, <3>2 DEF DmaState
    <3>4. dma'.st # "busy"
      BY <3>1 DEF DmaState
    <3>5. QED
      BY <2>1, <2>5, <3>3, <3>4 DEF TypeOK, DmaReset, DmaState
  <2>6. CASE DmaStart(t)
    <3>1. dma' \in DmaState
      BY <2>6 DEF DmaStart, TypeOK, DmaState
    <3>2. dma'.st = "busy" => dma' = dma
      BY <2>6 DEF DmaStart, TypeOK
    <3>3. QED
      BY <2>1, <2>6, <3>1, <3>2 DEF TypeOK, DmaStart, DmaState
  <2>7. CASE DmaAddress(t)
    BY <2>1, <2>7 DEF TypeOK, DmaAddress
  <2>8. CASE DmaLength(t)
    <3>1. armlen[t] \in 0..MaxLen /\ armlen[t] # 0
      BY <2>8 DEF DmaLength, Goto, ThreadInv, TypeOK
    <3>2. dma' \in DmaState /\ (dma'.st = "busy" => dma'.room # 0)
      <4>1. CASE dma' = [st |-> "busy", room |-> armlen[t], at |-> 1, buf |-> da]
        <5>1. 1 \in 1..(MaxLen + 1) /\ da \in BOOLEAN
          BY SizeAssumption DEF TypeOK
        <5>2. QED
          BY <3>1, <4>1, <5>1 DEF DmaState
      <4>2. CASE dma' = [dma EXCEPT !.room = armlen[t]]
        BY <3>1, <4>2 DEF TypeOK, DmaState
      <4>3. CASE dma' = dma
        BY <4>3 DEF TypeOK, DmaState
      <4>4. QED
        BY <2>8, <4>1, <4>2, <4>3 DEF DmaLength
    <3>3. armlen' \in [Thread -> 0..MaxLen]
      BY <2>8, SizeAssumption DEF DmaLength, TypeOK
    <3>4. QED
      BY <2>1, <2>8, <3>2, <3>3 DEF TypeOK, DmaLength, DmaState
  <2>9. QED
    BY <1>6, <2>2, <2>3, <2>4, <2>5, <2>6, <2>7, <2>8 DEF dma_arm
<1>7. ASSUME NEW t \in Client, NEW dmalen \in Len1, set_dmalen(t, dmalen)
      PROVE  TypeOK'
  <2>1. arm' \in [Thread -> ArmStep] /\ crossed' \in BOOLEAN
    BY <1>7, CallEffect DEF set_dmalen, Thread
  <2>2. due' \in 0..MaxLen
    BY <1>7, SizeAssumption DEF set_dmalen, TypeOK
  <2>3. QED
    BY <1>7, <2>1, <2>2 DEF TypeOK, set_dmalen, capture_vars, store_vars, data_vars
<1>8. CASE UNCHANGED vars
  BY <1>8 DEF TypeOK, vars, capture_vars, store_vars, data_vars, arm_vars, hist_vars
<1>9. QED
  BY <1>1, <1>2, <1>3, <1>4, <1>5, <1>6, <1>7, <1>8 DEF Next, pl_step

LEMMA NextThread ==
  ASSUME TypeOK, ThreadInv, [Next]_vars
  PROVE  ThreadInv'
<1> USE DEF ThreadInv
<1>1. CASE pl_step
  BY <1>1, SizeAssumption
     DEF pl_step, Trigger, StartEngine, WriteSample, Announce, Store, data_vars,
         arm_vars, capture_vars, store_vars, TypeOK
<1>2. CASE dmadata_push
  BY <1>2, ThreadAssumption
     DEF dmadata_push, PollCount, SendBuffers, Acknowledge, Call, store_vars, arm_vars,
         capture_vars, data_vars, TypeOK, Thread
<1>3. ASSUME NEW t \in Thread, dma_arm(t)
      PROVE  ThreadInv'
  <2> USE DEF dma_arm, ReadLen, FifoReset, FifoRun, DmaReset, DmaStart, DmaAddress,
              DmaLength, Goto
  <2>1. UNCHANGED <<phase, fifo_wrlen, pc>> /\ arm[t] # "idle"
    BY <1>3 DEF capture_vars, data_vars
  <2>2. \A u \in Thread \ {t} : arm'[u] = arm[u] /\ armlen'[u] = armlen[u]
    BY <1>3 DEF TypeOK
  <2>3. arm'[t] \notin {"idle", "len"} => armlen'[t] # 0
    BY <1>3 DEF TypeOK, Len1
  <2>4. fifo_rst' = 1 => \E u \in Thread : arm'[u] = "unrst"
    <3>1. CASE FifoReset(t)
      BY <3>1 DEF TypeOK
    <3>2. CASE FifoRun(t)
      BY <3>2
    <3>3. CASE fifo_rst' = fifo_rst /\ arm[t] # "unrst"
      BY <2>2, <3>3
    <3>4. QED
      BY <1>3, <3>1, <3>2, <3>3
  <2>5. DmaData \in Thread
    BY DEF Thread
  <2>6. QED
    BY <2>1, <2>2, <2>3, <2>4, <2>5
<1>4. ASSUME NEW t \in Client, NEW dmalen \in Len1, set_dmalen(t, dmalen)
      PROVE  ThreadInv'
  BY <1>4, ThreadAssumption
     DEF set_dmalen, Call, capture_vars, data_vars, TypeOK, Thread
<1>5. CASE UNCHANGED vars
  BY <1>5 DEF vars, capture_vars, data_vars, arm_vars
<1>6. QED
  BY <1>1, <1>2, <1>3, <1>4, <1>5 DEF Next

-----------------------------------------------------------------------------
(* The channel before the trigger, and its samples after it *)

\* The steps of dma_arm in one place: who arms, what the core and the stores do.
LEMMA ArmEffect ==
  ASSUME TypeOK, NEW t \in Thread, dma_arm(t)
  PROVE  /\ UNCHANGED <<capture_vars, burst_len, data_vars, hist_vars, ddr>>
         /\ \A u \in Thread \ {t} : arm'[u] = arm[u] /\ armlen'[u] = armlen[u]
         /\ \/ /\ arm[t] = "len" /\ arm'[t] = "rst"
               /\ armlen'[t] = burst_len /\ UNCHANGED <<fifo, dma>>
            \/ /\ arm[t] = "rst" /\ arm'[t] = "unrst"
               /\ fifo' = <<>> /\ UNCHANGED <<dma, armlen>>
            \/ /\ arm[t] = "unrst" /\ arm'[t] = "reset" /\ UNCHANGED <<fifo, dma, armlen>>
            \/ /\ arm[t] = "reset" /\ arm'[t] = "start"
               /\ dma'.st = "reset" /\ dma'.at = dma.at /\ dma'.buf = dma.buf
               /\ UNCHANGED <<fifo, armlen>>
            \/ /\ arm[t] = "start" /\ arm'[t] = "addr"
               /\ dma'.st = IF dma.st = "reset" THEN "run" ELSE dma.st
               /\ dma'.at = dma.at /\ dma'.buf = dma.buf /\ UNCHANGED <<fifo, armlen>>
            \/ /\ arm[t] = "addr" /\ arm'[t] = "go"
               /\ da' /\ UNCHANGED <<fifo, dma, armlen>>
            \/ /\ arm[t] = "go" /\ arm'[t] = "idle" /\ fifo' = fifo
               /\ dma.st = "run" => dma' = [st |-> "busy", room |-> armlen[t], at |-> 1,
                                            buf |-> da]
               /\ dma.st # "run" => dma'.st = dma.st /\ dma'.at = dma.at
                                      /\ dma'.buf = dma.buf
<1> USE GotoEffect DEF capture_vars, store_vars, ArmStep
<1>1. CASE ReadLen(t)
  BY <1>1 DEF ReadLen, TypeOK
<1>2. CASE FifoReset(t)
  BY <1>2 DEF FifoReset
<1>3. CASE FifoRun(t)
  BY <1>3 DEF FifoRun
<1>4. CASE DmaReset(t)
  BY <1>4 DEF DmaReset, TypeOK
<1>5. CASE DmaStart(t)
  BY <1>5 DEF DmaStart, TypeOK
<1>6. CASE DmaAddress(t)
  BY <1>6 DEF DmaAddress
<1>7. CASE DmaLength(t)
  <2>1. dma.st = "run" => dma' = [st |-> "busy", room |-> armlen[t], at |-> 1, buf |-> da]
    BY <1>7 DEF DmaLength
  <2>2. dma.st # "run" => dma'.st = dma.st /\ dma'.at = dma.at /\ dma'.buf = dma.buf
    BY <1>7 DEF DmaLength, TypeOK
  <2>3. Goto(t, "go", "idle") /\ UNCHANGED <<fifo, ddr>>
    BY <1>7 DEF DmaLength
  <2>4. \A u \in Thread \ {t} : armlen'[u] = armlen[u]
    BY <1>7 DEF DmaLength, TypeOK
  <2>5. QED
    BY <2>1, <2>2, <2>3, <2>4
<1>8. QED
  BY <1>1, <1>2, <1>3, <1>4, <1>5, <1>6, <1>7 DEF dma_arm

\* A thread's step leaves the core waiting for its first sample, or another step
\* of dma_arm to come.
LEMMA PendingStep ==
  ASSUME TypeOK, NEW t \in Thread, dma_arm(t), Pending
  PROVE  Pending' \/ (dma'.st = "busy" /\ dma'.at = 1)
BY ArmEffect DEF Pending

\* dmadata's own flush and reset are the steps that end Unflushed and Unreset.
LEMMA FlushStep ==
  ASSUME TypeOK, NEW t \in Thread, dma_arm(t)
  PROVE  Unflushed' \/ fifo' = <<>> \/ (~Unflushed /\ fifo' = fifo)
<1>1. CASE t = DmaData
  BY <1>1, ArmEffect DEF Unflushed
<1>2. CASE t # DmaData
  <2>1. arm'[DmaData] = arm[DmaData]
    BY <1>2, ArmEffect DEF Thread
  <2>2. fifo' = <<>> \/ fifo' = fifo
    BY ArmEffect
  <2>3. QED
    BY <2>1, <2>2 DEF Unflushed
<1>3. QED
  BY <1>1, <1>2

LEMMA UnresetStep ==
  ASSUME TypeOK, NEW t \in Thread, dma_arm(t), Unreset
  PROVE  Unreset' \/ (t = DmaData /\ arm[t] = "reset")
<1>1. CASE t = DmaData
  BY <1>1, ArmEffect DEF Unreset, Unflushed
<1>2. CASE t # DmaData
  <2>1. arm'[DmaData] = arm[DmaData]
    BY <1>2, ArmEffect DEF Thread
  <2>2. QED
    BY <2>1 DEF Unreset, Unflushed
<1>3. QED
  BY <1>1, <1>2

LEMMA NextReady ==
  ASSUME TypeOK, ThreadInv, ReadyInv, [Next]_vars
  PROVE  ReadyInv'
<1>1. CASE phase' # "ready"
  BY <1>1 DEF ReadyInv
<1>2. CASE Acknowledge
  BY <1>2, CallEffect DEF Acknowledge, ReadyInv, Unflushed, Unreset, Thread
<1>3. CASE phase = "ready" /\ phase' = "ready"
  <2>1. /\ fifo_wrlen = 0
        /\ ~Unflushed => fifo = <<>>
        /\ ~Unreset => Pending \/ (dma.st = "busy" /\ dma.at = 1)
    BY <1>3 DEF ThreadInv, ReadyInv
  <2>2. CASE pl_step
    BY <1>3, <2>1, <2>2
       DEF pl_step, Trigger, StartEngine, WriteSample, Announce, Store, ReadyInv,
           Unflushed, Unreset, arm_vars
  <2>3. ASSUME NEW t \in Thread, dma_arm(t)
        PROVE  ReadyInv'
    <3>1. Unflushed' \/ fifo' = <<>>
      BY <2>1, <2>3, FlushStep
    <3>2. CASE Unreset
      <4>1. Unreset' \/ (t = DmaData /\ arm[t] = "reset")
        BY <2>3, <3>2, UnresetStep
      <4>2. CASE t = DmaData /\ arm[t] = "reset"
        <5>1. Pending'
          BY <2>3, <4>2, ArmEffect DEF Pending
        <5>2. QED
          BY <3>1, <5>1 DEF ReadyInv
      <4>3. QED
        BY <3>1, <4>1, <4>2 DEF ReadyInv
    <3>3. CASE ~Unreset /\ Pending
      BY <2>3, <3>1, <3>3, PendingStep DEF ReadyInv
    <3>4. CASE dma.st = "busy" /\ dma.at = 1
      BY <2>3, <3>1, <3>4, ArmEffect DEF ReadyInv, Pending
    <3>5. QED
      BY <2>1, <3>2, <3>3, <3>4
  <2>4. ASSUME NEW t \in Client, NEW dmalen \in Len1, set_dmalen(t, dmalen)
        PROVE  ReadyInv'
    <3>1. /\ t # DmaData /\ arm[t] = "idle" /\ UNCHANGED store_vars
          /\ \A u \in Thread \ {t} : arm'[u] = arm[u]
      BY <2>4, ThreadAssumption, CallEffect DEF set_dmalen, Thread
    <3>2. DmaData \in Thread \ {t}
      BY <3>1 DEF Thread
    <3>3. QED
      BY <2>1, <3>1, <3>2 DEF ReadyInv, Unflushed, Unreset, Pending, store_vars
  <2>5. CASE UNCHANGED vars
    BY <2>1, <2>5 DEF vars, ReadyInv, Unflushed, Unreset, Pending, store_vars, arm_vars
  <2>6. CASE dmadata_push
    BY <1>3, <2>6, <1>2 DEF dmadata_push, PollCount, SendBuffers, ThreadInv
  <2>7. QED
    BY <2>2, <2>3, <2>4, <2>5, <2>6 DEF Next
<1>4. CASE phase # "ready" /\ phase' = "ready"
  <2>1. Acknowledge
    BY <1>4, ArmEffect
       DEF Next, pl_step, Trigger, StartEngine, WriteSample, Announce, Store,
           dmadata_push, PollCount, SendBuffers, set_dmalen, vars, capture_vars
  <2>2. QED
    BY <1>2, <2>1
<1>5. QED
  BY <1>1, <1>3, <1>4 DEF TypeOK

\* What WriteSample does to a FIFO that takes the sample, and Store to the buffer.
LEMMA WriteEffect ==
  ASSUME TypeOK, fifo' = Append(fifo, WrittenWord)
  PROVE  /\ Len(fifo') = Len(fifo) + 1 /\ Len(fifo) \in Nat
         /\ \A i \in 1..Len(fifo) : fifo'[i] = fifo[i]
         /\ fifo'[Len(fifo) + 1] = WrittenWord
         /\ \A i \in 1..Len(fifo') : i \in 1..Len(fifo) \/ i = Len(fifo) + 1
<1>1. /\ Len(Append(fifo, WrittenWord)) = Len(fifo) + 1
      /\ Len(fifo) \in Nat
      /\ \A i \in 1..Len(fifo) : Append(fifo, WrittenWord)[i] = fifo[i]
      /\ Append(fifo, WrittenWord)[Len(fifo) + 1] = WrittenWord
  BY WordWritten, AppendElement DEF TypeOK
<1>2. /\ Len(fifo') = Len(fifo) + 1 /\ Len(fifo) \in Nat
      /\ \A i \in 1..Len(fifo) : fifo'[i] = fifo[i]
      /\ fifo'[Len(fifo) + 1] = WrittenWord
  BY <1>1, Zenon
<1>3. \A i \in 1..Len(fifo') : i \in 1..Len(fifo) \/ i = Len(fifo) + 1
  BY <1>2
<1>4. QED
  BY <1>2, <1>3

LEMMA StoreEffect ==
  ASSUME TypeOK, Store
  PROVE  /\ dma.st = "busy" /\ fifo \in Seq(Word)
         /\ Len(fifo) \in Nat \ {0} /\ Len(fifo') = Len(fifo) - 1
         /\ Head(fifo) = fifo[1] /\ Head(fifo).new \in BOOLEAN
         /\ \A i \in 1..Len(fifo') : fifo'[i] = fifo[i + 1] /\ i + 1 \in 1..Len(fifo)
         /\ dma'.at = (IF dma.at \in Len1 THEN dma.at + 1 ELSE dma.at)
         /\ dma'.buf = dma.buf
         /\ Head(fifo).last => dma'.st = "run" /\ dma'.room = 0
         /\ ~Head(fifo).last => /\ dma'.room = dma.room - 1
                                /\ dma'.st = IF dma.room = 1 THEN "error" ELSE "busy"
<1>1. /\ fifo \in Seq(Word) /\ fifo # <<>> /\ fifo' = Tail(fifo)
      /\ dma' = [dma EXCEPT
              !.at   = IF @ \in Len1 THEN @ + 1 ELSE @,
              !.st   = IF Head(fifo).last THEN "run"
                       ELSE IF dma.room = 1 THEN "error" ELSE "busy",
              !.room = IF Head(fifo).last THEN 0 ELSE @ - 1]
      /\ dma \in DmaState /\ dma.st = "busy"
  BY DEF Store, TypeOK, DmaState
<1>2. /\ Len(fifo) \in Nat \ {0} /\ Len(fifo') = Len(fifo) - 1
      /\ Head(fifo) = fifo[1] /\ Head(fifo).new \in BOOLEAN
  <2>1. /\ Len(fifo) \in Nat \ {0} /\ Len(fifo') = Len(fifo) - 1
        /\ Head(fifo) = fifo[1] /\ Head(fifo) \in Word
    BY <1>1
  <2>2. QED
    BY <2>1 DEF Word
<1>3. \A i \in 1..Len(fifo') : fifo'[i] = fifo[i + 1] /\ i + 1 \in 1..Len(fifo)
  BY <1>1, <1>2
<1>4. /\ dma'.at = (IF dma.at \in Len1 THEN dma.at + 1 ELSE dma.at)
      /\ dma'.buf = dma.buf
      /\ Head(fifo).last => dma'.st = "run" /\ dma'.room = 0
      /\ ~Head(fifo).last => /\ dma'.room = dma.room - 1
                             /\ dma'.st = IF dma.room = 1 THEN "error" ELSE "busy"
  BY <1>1 DEF DmaState
<1>5. QED
  BY <1>1, <1>2, <1>3, <1>4

\* Samples of another capture are gone once dmadata is past its own flush and
\* reset: a trigger finds the FIFO empty and the core at the buffer's start, or
\* about to be.
LEMMA NextOwn ==
  ASSUME TypeOK, ThreadInv, ReadyInv, OwnInv, [Next]_vars
  PROVE  OwnInv'
<1>1. CASE Trigger
  <2>1. /\ fifo' = OldFifo /\ phase = "ready"
        /\ UNCHANGED <<burst_len, fifo_rst, dma, da, data_vars, arm_vars, crossed>>
    BY <1>1 DEF Trigger, StartEngine, OldFifo
  <2>2. ~Unflushed' => FifoIsOwn'
    BY <2>1, FifoAged, EmptyType DEF ReadyInv, Unflushed, arm_vars, FifoIsOwn
  <2>3. dma.at = 1 => DdrIsOwn'
    BY <2>1 DEF DdrIsOwn, Len1
  <2>4. QED
    BY <2>1, <2>2, <2>3
       DEF ReadyInv, OwnInv, Unflushed, Unreset, Pending, arm_vars
<1>2. CASE phase # "ready" /\ phase' # "ready"
  <2>1. /\ ~Unflushed => FifoIsOwn
        /\ ~Unreset => Pending \/ DdrIsOwn
    BY <1>2 DEF OwnInv
  <2>2. CASE WriteSample
    <3>1. ~Unflushed => FifoIsOwn'
      <4>1. CASE fifo' = fifo
        BY <2>1, <4>1 DEF FifoIsOwn
      <4>2. CASE fifo' = Append(fifo, WrittenWord)
        BY <2>1, <4>2, WriteEffect, WordWritten DEF FifoIsOwn
      <4>3. QED
        BY <2>2, <4>1, <4>2 DEF WriteSample, WrittenWord
    <3>2. QED
      BY <2>1, <2>2, <3>1
         DEF WriteSample, OwnInv, Unflushed, Unreset, Pending, arm_vars, DdrIsOwn
  <2>3. CASE Store
    <3>1. ~Unflushed => FifoIsOwn'
      BY <2>1, <2>3, StoreEffect DEF FifoIsOwn
    <3>2. ~Unreset => DdrIsOwn'
      <4>1. SUFFICES ASSUME ~Unreset, dma'.buf, NEW i \in Len1, i < dma'.at
                     PROVE  ddr'[i]
        BY DEF DdrIsOwn
      <4>2. DdrIsOwn /\ FifoIsOwn /\ dma.buf
        BY <2>1, <2>3, <4>1, StoreEffect DEF Pending, Unreset
      <4>3. Head(fifo).new
        BY <2>3, <4>2, StoreEffect DEF FifoIsOwn
      <4>4. CASE i < dma.at
        <5>1. ddr[i]
          BY <4>2, <4>4 DEF DdrIsOwn
        <5>2. QED
          BY <2>3, <4>3, <4>4, <5>1 DEF Store, TypeOK
      <4>5. CASE ~(i < dma.at)
        <5>1. i = dma.at /\ dma.at \in Len1
          <6>1. dma.at \in Nat /\ i \in Nat
            BY SizeAssumption DEF TypeOK, Len1
          <6>2. dma'.at = (IF dma.at \in Len1 THEN dma.at + 1 ELSE dma.at)
            BY <2>3, StoreEffect
          <6>3. dma.at \in Len1
            BY <4>1, <4>5, <6>2
          <6>4. QED
            BY <4>1, <4>5, <6>1, <6>2, <6>3
        <5>2. QED
          BY <2>3, <4>2, <4>3, <5>1 DEF Store, TypeOK
      <4>6. QED
        BY <4>4, <4>5
    <3>3. QED
      BY <2>3, <3>1, <3>2 DEF Store, OwnInv, Unflushed, Unreset, arm_vars
  <2>4. ASSUME NEW t \in Thread, dma_arm(t)
        PROVE  OwnInv'
    <3>1. Unflushed' \/ FifoIsOwn'
      BY <2>1, <2>4, FlushStep, EmptyType DEF FifoIsOwn
    <3>2. dma'.at = 1 => DdrIsOwn'
      BY DEF DdrIsOwn, Len1
    <3>3. CASE Unreset
      <4>1. Unreset' \/ (t = DmaData /\ arm[t] = "reset")
        BY <2>4, <3>3, UnresetStep
      <4>2. CASE t = DmaData /\ arm[t] = "reset"
        <5>1. Pending'
          BY <2>4, <4>2, ArmEffect DEF Pending
        <5>2. QED
          BY <3>1, <5>1 DEF OwnInv
      <4>3. QED
        BY <3>1, <4>1, <4>2 DEF OwnInv
    <3>4. CASE Pending
      <4>1. Pending' \/ DdrIsOwn'
        BY <2>4, <3>2, <3>4, PendingStep
      <4>2. QED
        BY <3>1, <4>1 DEF OwnInv
    <3>5. CASE DdrIsOwn
      <4>1. ddr' = ddr /\ (dma'.at = 1 \/ (dma'.at = dma.at /\ dma'.buf = dma.buf))
        BY <2>4, ArmEffect
      <4>2. DdrIsOwn'
        BY <3>2, <3>5, <4>1 DEF DdrIsOwn
      <4>3. QED
        BY <3>1, <4>2 DEF OwnInv
    <3>6. QED
      BY <2>1, <3>3, <3>4, <3>5
  <2>5. ASSUME NEW t \in Client, NEW dmalen \in Len1, set_dmalen(t, dmalen)
        PROVE  OwnInv'
    <3>1. /\ t # DmaData /\ arm[t] = "idle" /\ UNCHANGED store_vars
          /\ \A u \in Thread \ {t} : arm'[u] = arm[u]
      BY <2>5, ThreadAssumption, CallEffect DEF set_dmalen, Thread
    <3>2. DmaData \in Thread \ {t}
      BY <3>1 DEF Thread
    <3>3. QED
      BY <2>1, <3>1, <3>2
         DEF OwnInv, Unflushed, Unreset, Pending, store_vars, FifoIsOwn, DdrIsOwn
  <2>6. CASE Announce \/ PollCount \/ SendBuffers \/ UNCHANGED vars
    BY <2>1, <2>6
       DEF Announce, PollCount, SendBuffers, vars, OwnInv, Unflushed, Unreset,
           Pending, store_vars, arm_vars, FifoIsOwn, DdrIsOwn
  <2>7. CASE Trigger \/ Acknowledge
    BY <1>2, <2>7 DEF Trigger, StartEngine, Acknowledge
  <2>8. QED
    BY <2>2, <2>3, <2>4, <2>5, <2>6, <2>7 DEF Next, pl_step, dmadata_push
<1>3. CASE phase' = "ready"
  BY <1>3 DEF OwnInv
<1>4. CASE phase = "ready" /\ phase' # "ready" /\ ~Trigger
  BY <1>4, ArmEffect
     DEF Next, pl_step, WriteSample, Announce, Store, dmadata_push, PollCount,
         SendBuffers, Acknowledge, ThreadInv, set_dmalen, vars, capture_vars
<1>5. QED
  BY <1>1, <1>2, <1>3, <1>4

-----------------------------------------------------------------------------
(* A call of dma_arm that is alone *)

LEMMA NextLone ==
  ASSUME TypeOK, ThreadInv, ReadyInv, LoneInv, [Next]_vars
  PROVE  LoneInv'
<1> SUFFICES ASSUME ~crossed' PROVE LoneInv'
  BY DEF LoneInv
<1>1. ASSUME NEW t \in Thread, Call(t)
      PROVE  LoneInv'
  <2>1. /\ \A u \in Thread : arm[u] = "idle"
        /\ arm'[t] = "len" /\ \A u \in Thread \ {t} : arm'[u] = "idle"
    BY <1>1, CallEffect
  <2>2. QED
    BY <2>1 DEF LoneInv, NobodyArms
<1>2. ASSUME NEW t \in Thread, dma_arm(t)
      PROVE  LoneInv'
  <2>1. ~crossed /\ arm[t] # "idle" /\ UNCHANGED <<phase, burst_len>>
    BY <1>2, ArmEffect DEF hist_vars, capture_vars
  <2>2. /\ \A u \in Thread \ {t} : arm[u] = "idle" /\ arm'[u] = "idle"
        /\ arm[t] # "len" => armlen[t] = burst_len
        /\ arm[t] = "start" => dma.st = "reset"
        /\ arm[t] \in {"addr", "go"} => dma.st = "run"
        /\ arm[t] = "go" => da
    BY <1>2, <2>1, ArmEffect DEF LoneInv
  <2>3. /\ arm'[t] \notin {"idle", "len"} => armlen'[t] = burst_len
        /\ arm'[t] = "start" => dma'.st = "reset"
        /\ arm'[t] \in {"addr", "go"} => dma'.st = "run"
        /\ arm'[t] = "go" => da'
        /\ arm'[t] = "idle" => dma'.buf /\ dma'.room = burst_len
    BY <1>2, <2>2, ArmEffect
  <2>4. QED
    BY <2>1, <2>2, <2>3 DEF LoneInv, NobodyArms
<1>3. CASE Trigger \/ WriteSample \/ Announce \/ PollCount \/ SendBuffers \/ UNCHANGED vars
  BY <1>3
     DEF Trigger, StartEngine, WriteSample, Announce, PollCount, SendBuffers, vars,
         LoneInv, NobodyArms, store_vars, arm_vars, hist_vars, capture_vars
<1>4. CASE Store
  <2>1. /\ dma.st = "busy" /\ dma'.buf = dma.buf /\ ~crossed
        /\ UNCHANGED <<arm, armlen, burst_len, phase, da>>
    BY <1>4, StoreEffect DEF Store, capture_vars, arm_vars, hist_vars
  <2>2. ~(NobodyArms /\ phase = "ready")
    <3>1. SUFFICES ASSUME NobodyArms, phase = "ready" PROVE FALSE
      OBVIOUS
    <3>2. DmaData \in Thread
      BY DEF Thread
    <3>3. fifo = <<>>
      BY <3>1, <3>2 DEF NobodyArms, ReadyInv, Unflushed
    <3>4. QED
      BY <1>4, <3>3 DEF Store
  <2>3. QED
    BY <2>1, <2>2 DEF LoneInv, NobodyArms
<1>5. QED
  BY <1>1, <1>2, <1>3, <1>4
     DEF Next, pl_step, dmadata_push, Acknowledge, set_dmalen, Thread

-----------------------------------------------------------------------------
(* A capture that is due *)

\* With nobody inside dma_arm, FIFO and buffer are the capture's own.
LEMMA OwnAtRest ==
  ASSUME OwnInv, NobodyArms, phase # "ready"
  PROVE  FifoIsOwn /\ DdrIsOwn
<1>1. DmaData \in Thread
  BY DEF Thread
<1>2. ~Unflushed /\ ~Unreset /\ ~Pending
  BY <1>1 DEF NobodyArms, Unflushed, Unreset, Pending
<1>3. QED
  BY <1>2 DEF OwnInv

LEMMA DueTrigger ==
  ASSUME TypeOK, ThreadInv, ReadyInv, LoneInv, Trigger
  PROVE  DueInv'
<1> SUFFICES ASSUME due' # 0 PROVE DueInv'
  BY DEF DueInv
<1>1. /\ NobodyArms /\ ~crossed /\ phase = "ready" /\ phase' = "capturing"
      /\ due' = burst_len /\ fifo_wrlen' = burst_len /\ fifo' = OldFifo
      /\ UNCHANGED <<burst_len, fifo_rst, dma, da, data_vars, arm_vars, crossed>>
  BY DEF Trigger, StartEngine, OldFifo
<1>2. DmaData \in Thread
  BY DEF Thread
<1>3. ~Unflushed /\ ~Unreset /\ ~Pending
  BY <1>1, <1>2 DEF NobodyArms, Unflushed, Unreset, Pending
<1>4. fifo = <<>> /\ dma.st = "busy" /\ dma.at = 1 /\ dma.buf /\ dma.room = burst_len
  BY <1>1, <1>3 DEF ReadyInv, LoneInv
<1>5. fifo_rst = 0 /\ pc = "poll" /\ burst_len \in Nat
  BY <1>1 DEF NobodyArms, ThreadInv, TypeOK, Len1
<1>6. fifo' = <<>> /\ Len(fifo') = 0
  BY <1>1, <1>4, FifoAged, EmptyType
<1>7. Flowing'
  BY <1>1, <1>4, <1>5, <1>6 DEF Flowing, NobodyArms, arm_vars
<1>8. QED
  BY <1>1, <1>5, <1>7 DEF DueInv, data_vars

LEMMA DueWrite ==
  ASSUME TypeOK, ThreadInv, DueInv, WriteSample
  PROVE  DueInv'
<1> SUFFICES ASSUME due' # 0 PROVE DueInv'
  BY DEF DueInv
<1>1. /\ due # 0 /\ due' = due /\ fifo_wrlen' = fifo_wrlen - 1 /\ fifo_wrlen # 0
      /\ UNCHANGED <<phase, burst_len, fifo_rst, dma, da, ddr, data_vars, arm_vars, hist_vars>>
  BY DEF WriteSample, hist_vars
<1>2. fifo_wrlen \in Nat /\ Len(fifo) \in Nat /\ phase = "capturing" /\ pc = "poll"
  BY <1>1, SizeAssumption DEF TypeOK, ThreadInv
<1>3. Flowing
  BY <1>1, <1>2 DEF DueInv, Stored
<1>4. fifo' = Append(fifo, WrittenWord)
  BY <1>1, <1>2, <1>3 DEF WriteSample, WrittenWord, Flowing
<1>5. \A i \in 1..Len(fifo') : fifo'[i].last <=> fifo_wrlen' = 0 /\ i = Len(fifo')
  <2>1. \A i \in 1..Len(fifo) : ~fifo'[i].last /\ i # Len(fifo')
    BY <1>1, <1>2, <1>3, <1>4, WriteEffect DEF Flowing
  <2>2. fifo'[Len(fifo')].last <=> fifo_wrlen' = 0
    BY <1>1, <1>2, <1>4, WriteEffect, WordWritten
  <2>3. QED
    BY <1>4, <2>1, <2>2, WriteEffect
<1>6. fifo_wrlen' + Len(fifo') = fifo_wrlen + Len(fifo) /\ Len(fifo') \in Nat
  BY <1>1, <1>2, <1>4, WriteEffect
<1>7. (dma'.at - 1) + Len(fifo') + fifo_wrlen' = due'
  BY <1>1, <1>2, <1>3, <1>4, WriteEffect DEF Flowing, TypeOK
<1>8. Flowing'
  BY <1>1, <1>2, <1>3, <1>5, <1>6, <1>7 DEF Flowing, NobodyArms, arm_vars
<1>9. QED
  BY <1>1, <1>2, <1>8 DEF DueInv, data_vars

LEMMA DueStore ==
  ASSUME TypeOK, ThreadInv, DueInv, Store
  PROVE  DueInv'
<1> SUFFICES ASSUME due' # 0 PROVE DueInv'
  BY DEF DueInv
<1>1. /\ due # 0
      /\ UNCHANGED <<phase, fifo_wrlen, burst_len, fifo_rst, pc, nsamples, sent, arm, due>>
  BY DEF Store, capture_vars, data_vars, arm_vars, hist_vars
<1>2. Flowing
  BY <1>1 DEF DueInv, Stored, Store
<1>3. /\ fifo_wrlen \in Nat /\ Len(fifo) \in Nat \ {0} /\ Len(fifo') = Len(fifo) - 1
      /\ dma.at \in Nat \ {0} /\ due \in 0..MaxLen /\ MaxLen \in Nat
  BY StoreEffect, SizeAssumption DEF TypeOK
<1>4. dma.at \in Len1 /\ dma'.at = dma.at + 1
  <2>1. dma.at <= due
    BY <1>2, <1>3 DEF Flowing
  <2>2. dma.at \in Len1
    BY <1>3, <2>1 DEF Len1
  <2>3. QED
    BY <2>2, StoreEffect
<1>5. Head(fifo).last <=> fifo_wrlen = 0 /\ Len(fifo) = 1
  <2>1. 1 \in 1..Len(fifo)
    BY <1>3
  <2>2. QED
    BY <1>2, <1>3, <2>1, StoreEffect DEF Flowing
<1>6. \A i \in 1..Len(fifo') : fifo'[i].last <=> fifo_wrlen' = 0 /\ i = Len(fifo')
  <2>1. TAKE i \in 1..Len(fifo')
  <2>2. /\ fifo'[i] = fifo[i + 1] /\ i + 1 \in 1..Len(fifo)
        /\ i + 1 = Len(fifo) <=> i = Len(fifo')
    BY <1>3, StoreEffect
  <2>3. QED
    BY <1>1, <1>2, <2>2 DEF Flowing
<1>7. fifo_wrlen' + Len(fifo') # 0 =>
        dma'.st = "busy" /\ dma'.room = fifo_wrlen' + Len(fifo')
  <2>1. SUFFICES ASSUME fifo_wrlen' + Len(fifo') # 0
                 PROVE  dma'.st = "busy" /\ dma'.room = fifo_wrlen' + Len(fifo')
    OBVIOUS
  <2>2. ~Head(fifo).last /\ dma.room = fifo_wrlen + Len(fifo) /\ dma.room # 1
    BY <1>1, <1>2, <1>3, <1>5, <2>1 DEF Flowing
  <2>3. QED
    BY <1>1, <1>3, <2>2, StoreEffect
<1>8. (dma'.at - 1) + Len(fifo') + fifo_wrlen' = due'
  BY <1>1, <1>2, <1>3, <1>4 DEF Flowing
<1>9. Flowing'
  BY <1>1, <1>2, <1>6, <1>7, <1>8, StoreEffect DEF Flowing, NobodyArms
<1>10. QED
  BY <1>1, <1>9 DEF DueInv

\* A due capture that has left engine and FIFO is in the buffer.
LEMMA DueIsStored ==
  ASSUME TypeOK, ThreadInv, OwnInv, DueInv, due # 0, phase = "sending", fifo = <<>>
  PROVE  Stored
<1>1. CASE Flowing
  <2>1. fifo_wrlen = 0 /\ Len(fifo) = 0 /\ DdrIsOwn
    BY <1>1, EmptyType, OwnAtRest DEF ThreadInv, Flowing
  <2>2. due = dma.at - 1 /\ dma.buf /\ dma.at \in Nat /\ due \in 0..MaxLen /\ MaxLen \in Nat
    BY <1>1, <2>1, SizeAssumption DEF Flowing, TypeOK
  <2>3. \A i \in 1..due : i \in Len1 /\ i < dma.at
    BY <2>2 DEF Len1
  <2>4. QED
    BY <2>1, <2>2, <2>3 DEF Stored, DdrIsOwn
<1>2. QED
  BY <1>1 DEF DueInv

LEMMA DueSend ==
  ASSUME TypeOK, ThreadInv, OwnInv, DueInv, SendBuffers
  PROVE  DueInv'
<1> SUFFICES ASSUME due' # 0 PROVE DueInv'
  BY DEF DueInv
<1>1. /\ due # 0 /\ due' = due /\ fifo = <<>> /\ pc = "send" /\ phase = "sending"
      /\ sent' = [i \in 1..nsamples |-> ddr[i]]
      /\ UNCHANGED <<phase, nsamples, fifo, ddr>>
  BY DEF SendBuffers, ThreadInv, capture_vars, store_vars
<1>2. Stored /\ nsamples = due
  BY <1>1, DueIsStored DEF DueInv
<1>3. \A i \in 1..due : ddr[i] = TRUE
  BY <1>2, SizeAssumption DEF Stored, TypeOK, Len1
<1>4. sent' = [i \in 1..due |-> TRUE]
  BY <1>1, <1>2, <1>3
<1>5. QED
  BY <1>1, <1>2, <1>4 DEF DueInv, Stored

LEMMA NextDue ==
  ASSUME TypeOK, ThreadInv, ReadyInv, OwnInv, LoneInv, DueInv, [Next]_vars
  PROVE  DueInv'
<1>1. CASE Announce \/ UNCHANGED vars
  <2>1. CASE due = 0
    BY <1>1, <2>1 DEF Announce, vars, DueInv, hist_vars
  <2>2. CASE due # 0
    BY <1>1, <2>2
       DEF Announce, vars, DueInv, Flowing, Stored, NobodyArms, capture_vars, store_vars,
           data_vars, arm_vars, hist_vars
  <2>3. QED
    BY <2>1, <2>2
<1>2. CASE PollCount
  <2>1. CASE due = 0
    BY <1>2, <2>1 DEF PollCount, DueInv, hist_vars
  <2>2. CASE due # 0
    <3>1. Flowing /\ burst_len = due
      BY <1>2, <2>2 DEF PollCount, DueInv, Stored, Flowing
    <3>2. QED
      BY <1>2, <2>2, <3>1
         DEF PollCount, DueInv, Flowing, NobodyArms, store_vars, arm_vars, hist_vars
  <2>3. QED
    BY <2>1, <2>2
<1>3. ASSUME NEW t \in Thread, dma_arm(t)
      PROVE  DueInv'
  <2>1. /\ UNCHANGED <<phase, pc, nsamples, sent, due, ddr>>
        /\ arm[t] # "idle" /\ (fifo' = fifo \/ fifo' = <<>>)
    BY <1>3, ArmEffect DEF capture_vars, data_vars, hist_vars
  <2>2. due # 0 => Stored
    BY <2>1 DEF DueInv, Flowing, NobodyArms
  <2>3. QED
    BY <2>1, <2>2 DEF DueInv, Stored
<1>4. ASSUME NEW t \in Client, NEW dmalen \in Len1, set_dmalen(t, dmalen), due' # 0
      PROVE  DueInv'
  <2>1. /\ due # 0 /\ phase = "sending" /\ fifo = <<>>
        /\ UNCHANGED <<phase, pc, nsamples, sent, due, fifo, ddr>>
    BY <1>4 DEF set_dmalen, capture_vars, store_vars, data_vars
  <2>2. Stored
    BY <2>1, DueIsStored
  <2>3. QED
    BY <2>1, <2>2 DEF DueInv, Stored
<1>5. CASE due' = 0
  BY <1>5 DEF DueInv
<1>6. QED
  BY <1>1, <1>2, <1>3, <1>4, <1>5, DueTrigger, DueWrite, DueStore, DueSend
     DEF Next, pl_step, dmadata_push, Acknowledge

-----------------------------------------------------------------------------
LEMMA InitInv == Init => IInv
<1> SUFFICES ASSUME Init PROVE IInv
  OBVIOUS
<1>1. TypeOK
  BY InitType
<1>2. DmaData \in Thread /\ arm[DmaData] = "len" /\ phase = "ready" /\ due = 0
  BY DEF Init, Thread
<1>3. \A t \in Thread : arm[t] = IF t = DmaData THEN "len" ELSE "idle"
  BY DEF Init
<1>4. ThreadInv
  BY <1>2, <1>3 DEF Init, ThreadInv
<1>5. ReadyInv /\ OwnInv /\ DueInv
  BY <1>2 DEF ReadyInv, OwnInv, DueInv, Unflushed, Unreset
<1>6. LoneInv
  BY <1>2, <1>3 DEF LoneInv, NobodyArms
<1>7. QED
  BY <1>1, <1>4, <1>5, <1>6 DEF IInv

LEMMA Invariance == Spec => []IInv
<1>1. IInv /\ [Next]_vars => IInv'
  BY NextType, NextThread, NextReady, NextOwn, NextLone, NextDue DEF IInv
<1>2. QED
  BY InitInv, <1>1, PTL DEF Spec

\* The registers, the FIFO and the core stay in their ranges: the FIFO never
\* takes more than it holds, and the core never runs without a length.
THEOREM TypeCorrect == Spec => []TypeOK
<1>1. IInv => TypeOK
  BY DEF IInv
<1>2. QED
  BY Invariance, <1>1, PTL

\* With any number of threads inside dma_arm, in any order: when the last is
\* through and no trigger came, the core waits for its first sample and the FIFO
\* is empty; address and length are right if the last call was alone.
THEOREM RestIsArmed == Spec => []ArmedAtRest
<1>1. IInv => ArmedAtRest
  <2> SUFFICES ASSUME IInv, NobodyArms, phase = "ready" PROVE ArmedAtRest
    BY DEF ArmedAtRest
  <2>1. DmaData \in Thread
    BY DEF Thread
  <2>2. ~Unflushed /\ ~Unreset /\ ~Pending
    BY <2>1 DEF NobodyArms, Unflushed, Unreset, Pending
  <2>3. fifo_rst = 0
    BY DEF IInv, ThreadInv, TypeOK, NobodyArms
  <2>4. QED
    BY <2>2, <2>3 DEF IInv, ReadyInv, LoneInv, ArmedAtRest
<1>2. QED
  BY Invariance, <1>1, PTL

\* Outside dma_arm, no sample of an earlier capture is in the FIFO, nor among
\* those the core has put into the buffer.
THEOREM SamplesAreCurrent == Spec => []NoStaleSamples
<1>1. IInv => NoStaleSamples
  <2> SUFFICES ASSUME IInv, NobodyArms, phase # "ready" PROVE NoStaleSamples
    BY DEF NoStaleSamples
  <2>1. FifoIsOwn /\ DdrIsOwn
    BY OwnAtRest DEF IInv
  <2>2. QED
    BY <2>1 DEF IInv, LoneInv, FifoIsOwn, DdrIsOwn, NoStaleSamples
<1>2. QED
  BY Invariance, <1>1, PTL

\* A capture that is due is transmitted whole, for every length and FIFO depth.
THEOREM CaptureIsWhole == Spec => []WholeCaptureSent
<1>1. IInv => WholeCaptureSent
  BY DEF IInv, DueInv, WholeCaptureSent
<1>2. QED
  BY Invariance, <1>1, PTL
=============================================================================
