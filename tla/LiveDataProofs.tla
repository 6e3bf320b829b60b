--------------------------- MODULE LiveDataProofs ---------------------------
(***************************************************************************)
(* The messages of LiveData, for every number of samples and every depth   *)
(* of the FIFOs that holds what one pass writes.                           *)
(***************************************************************************)
EXTENDS LiveData, TLAPS

(***************************************************************************)
(* The invariant that carries the proofs.                                  *)
(***************************************************************************)

\* Word k of what pass p writes into the ADC and the turn-by-turn FIFO.
AdcWord(p, k) == <<p, (k + 1) \div 2, Columns.ch[((k + 1) % 2) + 1]>>
TbtWord(p, k) == <<p, (k + 1) \div 2, Columns.pos[((k + 1) % 2) + 1]>>

\* The ADC's message and FIFO are together the first words of this pass.
AdcInv ==
    /\ pc # "adc" => adc = <<>> /\ adcw.st = "idle"
    /\ pc = "adc" /\ adcw.st = "arm" => adc = <<>> /\ i = 0
    /\ pc = "adc" /\ adcw.st = "idle" =>
         /\ Len(adc) = 2 * (N + Extra + 1) - i
         /\ \A k \in 1..Len(adc) : adc[k] = AdcWord(pass, i + k)
    /\ pc \in {"adc", "adcreset"} => \A k \in 1..i : msg[k] = AdcWord(pass, k)
    /\ pc = "adcreset" => i = 2 * N

\* The turn-by-turn FIFO is held in reset in one step of the thread, and no
\* sample is half in it then.
RstInv == /\ rst <=> pc = "tbtreset"
          /\ rst => tbt = <<>> /\ tbtw.st # "y"

\* Words of the turn-by-turn FIFO that this pass has read, and the words of it
\* that it has read or may still read.
Taken == IF pc = "tbt" THEN i ELSE 0
Total == Taken + Len(tbt)
Both(k) == IF k <= Taken THEN msg[k] ELSE tbt[k - Taken]

\* What the thread has not emptied is of this pass or the one before.
AgeInv ==
    /\ \A k \in 1..Len(tbt) : tbt[k][1] \in {pass, (pass + 2) % 3}
    /\ pc \in {"tbtreset", "start"} => \A k \in 1..Len(tbt) : tbt[k][1] = pass
    /\ pc = "tbt" => \A k \in 1..i : msg[k] = None \/ msg[k][1] \in {pass, (pass + 2) % 3}

\* What the turn-by-turn writer has written in this pass.
Written == IF tbtw.st = "idle" THEN 2 * (N + Extra)
           ELSE 2 * tbtw.n + IF tbtw.st = "y" THEN 1 ELSE 0

\* A thread that was not too early finds all of it.
WholeInv ==
    ~cut /\ (pc = "tbt" => ~dry) =>
        /\ pc \in {"tbtreset", "start"} => tbt = <<>> /\ tbtw.st = "idle"
        /\ pc \in {"adc", "adcreset", "tbt"} =>
             /\ tbtw.st # "alone" /\ Total = Written
             /\ \A k \in 1..Total : Both(k) = TbtWord(pass, k)

\* The words are in pairs, but for the x whose y is being written.
PairInv ==
    ~split /\ (pc = "tbt" => ~dry) =>
        /\ tbtw.st = "y" <=> Total % 2 = 1
        /\ tbtw.st = "y" => Both(Total) = <<pass, tbtw.n + 1, "x">>
        /\ \A k \in 1..Total : k % 2 = 1 =>
             /\ Both(k)[3] = "x"
             /\ k < Total => Both(k + 1) = <<Both(k)[1], Both(k)[2], "y">>

IInv == TypeOK /\ AdcInv /\ RstInv /\ AgeInv /\ WholeInv /\ PairInv
-----------------------------------------------------------------------------
(* Words *)

LEMMA Names == /\ Columns.ch = <<"dc", "ba">> /\ Columns.pos = <<"x", "y">>
BY DEF Columns

LEMMA WordTypes ==
    ASSUME NEW p \in Passes, NEW k \in 1..(2 * (N + Extra + 1))
    PROVE  AdcWord(p, k) \in Word(Columns.ch)
<1>1. (k + 1) \div 2 \in 1..(N + Extra + 1) /\ (k + 1) % 2 \in 0..1
    BY SizeAssumption
<1> DEFINE s == (k + 1) \div 2
           c == Columns.ch[((k + 1) % 2) + 1]
<1>2. c \in {Columns.ch[1], Columns.ch[2]}
    <2>1. ((k + 1) % 2) + 1 = 1 \/ ((k + 1) % 2) + 1 = 2
        BY <1>1
    <2>2. QED
        BY <2>1
<1> HIDE DEF s, c
<1>3. <<p, s, c>> \in Passes \X (1..(N + Extra + 1)) \X {Columns.ch[1], Columns.ch[2]}
    BY <1>1, <1>2 DEF s
<1>4. QED
    BY <1>3 DEF AdcWord, Word, s, c

LEMMA TbtTypes ==
    ASSUME NEW p \in Passes, NEW n \in 1..(N + Extra), NEW c \in {"x", "y"}
    PROVE  <<p, n, c>> \in Word(Columns.pos)
<1>1. n \in 1..(N + Extra + 1)
    BY SizeAssumption
<1>2. QED
    BY <1>1, Names DEF Word

LEMMA TbtWords ==
    ASSUME NEW p \in Passes, NEW n \in Nat
    PROVE  /\ TbtWord(p, 2 * n + 1) = <<p, n + 1, "x">>
           /\ TbtWord(p, 2 * n + 2) = <<p, n + 1, "y">>
<1>1. /\ (2 * n + 1 + 1) \div 2 = n + 1 /\ (2 * n + 1 + 1) % 2 = 0
      /\ (2 * n + 2 + 1) \div 2 = n + 1 /\ (2 * n + 2 + 1) % 2 = 1
    OBVIOUS
<1>2. QED
    BY <1>1, Names DEF TbtWord

LEMMA NoneWord == \A c : None \in Word(c)
BY DEF Word
-----------------------------------------------------------------------------
LEMMA InitInv ==
    ASSUME Init
    PROVE  IInv
<1> USE DEF Init
<1>1. TypeOK
    <2>1. adcw \in [st : {"idle", "arm"}, n : {0}] /\ tbtw \in [st : WriterSt, n : 0..(N + Extra - 1)]
        BY SizeAssumption DEF Idle, WriterSt
    <2>2. /\ msg \in Seq(Word(Columns.ch) \cup Word(Columns.pos)) /\ Len(msg) = i
          /\ adc \in Seq(Word(Columns.ch)) /\ Len(adc) <= AdcDepth
          /\ tbt \in Seq(Word(Columns.pos)) /\ Len(tbt) <= TbtDepth
        BY SizeAssumption, DepthAssumption
    <2>3. i \in 0..(2 * N) /\ pass \in Passes
        BY SizeAssumption DEF Passes
    <2>4. QED
        BY <2>1, <2>2, <2>3 DEF TypeOK
<1>2. AdcInv /\ RstInv /\ AgeInv
    BY DEF AdcInv, RstInv, AgeInv, Idle
<1>3. Total = 0
    BY DEF Total, Taken
<1>4. WholeInv /\ PairInv
    BY <1>3 DEF WholeInv, PairInv, Idle
<1>5. QED
    BY <1>1, <1>2, <1>4 DEF IInv
-----------------------------------------------------------------------------
(* Types *)

LEMMA PushType ==
    ASSUME TypeOK, NEW c \in {"x", "y"}, tbtw.st \in {"x", "y", "alone"}
    PROVE  Push(c) \in Seq(Word(Columns.pos)) /\ Len(Push(c)) <= TbtDepth
<1>1. /\ tbtw.n + 1 \in 1..(N + Extra) /\ pass \in Passes
      /\ tbt \in Seq(Word(Columns.pos)) /\ Len(tbt) <= TbtDepth /\ TbtDepth \in Nat
    BY SizeAssumption, DepthAssumption DEF TypeOK
<1>2. <<pass, tbtw.n + 1, c>> \in Word(Columns.pos)
    BY <1>1, TbtTypes
<1>3. CASE Dropped
    BY <1>1, <1>3 DEF Push
<1>4. CASE ~Dropped
    <2>1. Push(c) = Append(tbt, <<pass, tbtw.n + 1, c>>) /\ Len(tbt) # TbtDepth
        BY <1>4 DEF Push, Dropped, Full
    <2>2. QED
        BY <1>1, <1>2, <2>1
<1>5. QED
    BY <1>3, <1>4

LEMMA ReadType ==
    ASSUME NEW S, NEW f \in Seq(S), NEW d \in Nat, Len(f) <= d
    PROVE  Popped(f) \in Seq(S) /\ Len(Popped(f)) <= d /\ (f # <<>> => Head(f) \in S)
BY DEF Popped

\* What AdcWrite leaves in the FIFO when it was empty before.
AllWords == [k \in 1..(2 * (N + Extra + 1)) |->
                 <<pass, (k + 1) \div 2, Columns.ch[((k + 1) % 2) + 1]>>]

LEMMA AdcFilled ==
    ASSUME TypeOK, AdcInv, AdcWrite
    PROVE  /\ adc' = AllWords /\ adc' \in Seq(Word(Columns.ch))
           /\ Len(adc') = 2 * (N + Extra + 1) /\ pc = "adc"
           /\ \A k \in 1..Len(adc') : adc'[k] = AdcWord(pass, k)
<1> DEFINE M == 2 * (N + Extra + 1)
<1>1. M \in Nat /\ AdcDepth \in Nat /\ M <= AdcDepth
    BY SizeAssumption, DepthAssumption
<1>2. \A k \in 1..M : AllWords[k] = AdcWord(pass, k)
    BY DEF AllWords, AdcWord
<1>3. pass \in Passes
    BY DEF TypeOK
<1>4. \A k \in 1..M : AllWords[k] \in Word(Columns.ch)
    BY <1>2, <1>3, WordTypes
<1>5. AllWords \in Seq(Word(Columns.ch)) /\ Len(AllWords) = M
    BY <1>1, <1>4 DEF AllWords
<1>6. adc = <<>> /\ pc = "adc"
    BY DEF AdcWrite, AdcInv
<1>7. adc \o AllWords = AllWords
    BY <1>5, <1>6
<1>8. adc' = Cap(adc \o AllWords, AdcDepth)
    BY DEF AdcWrite, AllWords
<1>9. adc' = AllWords
    BY <1>1, <1>5, <1>7, <1>8 DEF Cap
<1>10. QED
    BY <1>2, <1>5, <1>6, <1>9

LEMMA NextType ==
    ASSUME TypeOK, AdcInv, [Next]_vars
    PROVE  TypeOK'
<1> USE SizeAssumption, DepthAssumption DEF TypeOK, Idle, WriterSt
<1>1. CASE AdcWrite
    BY <1>1, AdcFilled DEF AdcWrite
<1>2. CASE TbtTrig
    BY <1>2 DEF TbtTrig
<1>3. CASE TbtWriteX
    <2>1. tbt' \in Seq(Word(Columns.pos)) /\ Len(tbt') <= TbtDepth
        BY <1>3, PushType DEF TbtWriteX
    <2>2. tbtw' \in [st : WriterSt, n : 0..(N + Extra - 1)]
        BY <1>3 DEF TbtWriteX
    <2>3. QED
        BY <1>3, <2>1, <2>2 DEF TbtWriteX
<1>4. CASE TbtWriteY
    <2>1. tbt' \in Seq(Word(Columns.pos)) /\ Len(tbt') <= TbtDepth
        BY <1>4, PushType DEF TbtWriteY
    <2>2. tbtw' \in [st : WriterSt, n : 0..(N + Extra - 1)]
        <3>1. tbtw.n \in 0..(N + Extra - 1) /\ N + Extra \in Nat \ {0}
            OBVIOUS
        <3>2. CASE tbtw.n + 1 = N + Extra
            BY <1>4, <3>1, <3>2 DEF TbtWriteY, NextNum
        <3>3. CASE tbtw.n + 1 # N + Extra
            <4>1. tbtw.n + 1 \in 0..(N + Extra - 1)
                BY <3>1, <3>3
            <4>2. tbtw' = [st |-> "wait", n |-> tbtw.n + 1]
                BY <1>4, <3>3 DEF TbtWriteY, NextNum
            <4>3. QED
                BY <4>1, <4>2
        <3>4. QED
            BY <3>2, <3>3
    <2>3. split' \in BOOLEAN
        BY <1>4 DEF TbtWriteY
    <2>4. QED
        BY <1>4, <2>1, <2>2, <2>3 DEF TbtWriteY
<1>5. CASE Enable
    <2>1. /\ pass' \in Passes /\ pc' = "adc" /\ i' = 0 /\ msg' = <<>> /\ dry' = FALSE
        BY <1>5 DEF Enable, Goto, Passes
    <2>2. adcw' \in [st : {"idle", "arm"}, n : {0}] /\ tbtw' \in [st : WriterSt, n : 0..(N + Extra - 1)]
        BY <1>5 DEF Enable
    <2>3. msg' \in Seq(Word(Columns.ch) \cup Word(Columns.pos)) /\ Len(msg') = i'
          /\ i' \in 0..(2 * N)
        BY <2>1
    <2>4. UNCHANGED <<adc, tbt, rst, cut, split>>
        BY <1>5 DEF Enable
    <2>5. QED
        BY <2>1, <2>2, <2>3, <2>4
<1>6. CASE ReadAdc
    <2>1. adc' \in Seq(Word(Columns.ch)) /\ Len(adc') <= AdcDepth
        BY <1>6, ReadType DEF ReadAdc
    <2>2. (IF adc = <<>> THEN None ELSE Head(adc)) \in Word(Columns.ch)
        BY NoneWord
    <2>3. msg' \in Seq(Word(Columns.ch) \cup Word(Columns.pos)) /\ Len(msg') = i'
        BY <1>6, <2>2 DEF ReadAdc, ReadWord
    <2>4. i' \in 0..(2 * N)
        BY <1>6 DEF ReadAdc, ReadWord
    <2>5. QED
        BY <1>6, <2>1, <2>3, <2>4 DEF ReadAdc
<1>7. CASE ResetAdc
    BY <1>7 DEF ResetAdc, Goto, EmptyAdc
<1>8. CASE SendAdc
    BY <1>8 DEF SendAdc, Goto
<1>9. CASE ReadTbt
    <2>1. tbt' \in Seq(Word(Columns.pos)) /\ Len(tbt') <= TbtDepth
        BY <1>9, ReadType DEF ReadTbt
    <2>2. (IF tbt = <<>> THEN None ELSE Head(tbt)) \in Word(Columns.pos)
        BY NoneWord
    <2>3. msg' \in Seq(Word(Columns.ch) \cup Word(Columns.pos)) /\ Len(msg') = i'
        BY <1>9, <2>2 DEF ReadTbt, ReadWord
    <2>4. i' \in 0..(2 * N) /\ dry' \in BOOLEAN
        BY <1>9 DEF ReadTbt, ReadWord
    <2>5. QED
        BY <1>9, <2>1, <2>3, <2>4 DEF ReadTbt
<1>10. CASE ResetTbt
    <2>1. tbtw' \in [st : WriterSt, n : 0..(N + Extra - 1)]
        BY <1>10 DEF ResetTbt
    <2>2. /\ tbt' = <<>> /\ rst' \in BOOLEAN /\ split' \in BOOLEAN /\ cut' \in BOOLEAN
          /\ pc' = "tbtreset"
        BY <1>10 DEF ResetTbt, Goto, EmptyTbt
    <2>3. UNCHANGED <<i, pass, msg, adc, adcw, dry>>
        BY <1>10 DEF ResetTbt
    <2>4. QED
        BY <2>1, <2>2, <2>3
<1>11. CASE SendTbt
    BY <1>11 DEF SendTbt, Goto
<1>12. CASE UNCHANGED vars
    BY <1>12 DEF vars
<1>13. QED
    BY <1>1, <1>2, <1>3, <1>4, <1>5, <1>6, <1>7, <1>8, <1>9, <1>10, <1>11, <1>12
       DEF Next, livedata_push
-----------------------------------------------------------------------------
(* The ADC *)

LEMMA NextAdc ==
    ASSUME TypeOK, AdcInv, [Next]_vars
    PROVE  AdcInv'
<1>1. /\ N \in Nat /\ Extra \in Nat /\ i \in Nat
      /\ msg \in Seq(Word(Columns.ch) \cup Word(Columns.pos)) /\ Len(msg) = i
      /\ adc \in Seq(Word(Columns.ch)) /\ adcw.st \in {"idle", "arm"}
    BY SizeAssumption DEF TypeOK
<1>2. CASE AdcWrite
    <2>1. /\ pc = "adc" /\ adcw.st = "arm" /\ i = 0
          /\ UNCHANGED <<pc, i, pass, msg>> /\ adcw'.st = "idle"
        BY <1>2, AdcFilled DEF AdcWrite, AdcInv, Idle
    <2>2. /\ Len(adc') = 2 * (N + Extra + 1) - i'
          /\ \A k \in 1..Len(adc') : adc'[k] = AdcWord(pass', i' + k)
        BY <1>1, <1>2, <2>1, AdcFilled
    <2>3. QED
        BY <2>1, <2>2 DEF AdcInv
<1>3. CASE Enable
    BY <1>3 DEF Enable, Goto, AdcInv
<1>4. CASE ReadAdc
    <2>1. /\ pc = "adc" /\ adcw.st = "idle" /\ i < 2 * N /\ i' = i + 1
          /\ UNCHANGED <<pc, pass, adcw>>
        BY <1>4 DEF ReadAdc, ReadWord
    <2>2. /\ Len(adc) = 2 * (N + Extra + 1) - i /\ Len(adc) > 0
          /\ \A k \in 1..Len(adc) : adc[k] = AdcWord(pass, i + k)
          /\ \A k \in 1..i : msg[k] = AdcWord(pass, k)
        BY <1>1, <2>1 DEF AdcInv
    <2>3. adc # <<>> /\ msg' = Append(msg, Head(adc)) /\ adc' = Tail(adc)
        BY <1>4, <2>2 DEF ReadAdc, ReadWord, Popped
    <2>4. Head(adc) = AdcWord(pass, i + 1)
        BY <1>1, <2>2, <2>3
    <2>5. \A k \in 1..i' : msg'[k] = AdcWord(pass, k)
        <3>1. Head(adc) \in Word(Columns.ch) \cup Word(Columns.pos)
            BY <1>1, <2>3
        <3>2. (\A k \in 1..i : msg'[k] = msg[k]) /\ msg'[i + 1] = Head(adc)
            BY <1>1, <2>3, <3>1
        <3>3. \A k \in 1..i' : k \in 1..i \/ k = i + 1
            BY <1>1, <2>1
        <3>4. msg'[i + 1] = AdcWord(pass, i + 1)
            BY <2>4, <3>2
        <3>5. \A k \in 1..i : msg'[k] = AdcWord(pass, k)
            BY <2>2, <3>2
        <3>6. QED
            BY <3>3, <3>4, <3>5
    <2>6. Len(adc') = Len(adc) - 1 /\ \A k \in 1..Len(adc') : adc'[k] = adc[k + 1]
        BY <1>1, <2>2, <2>3
    <2>7. \A k \in 1..Len(adc') : k + 1 \in 1..Len(adc) /\ i + (k + 1) = i' + k
        BY <1>1, <2>1, <2>6
    <2>8. \A k \in 1..Len(adc') : adc'[k] = AdcWord(pass, i' + k)
        BY <2>2, <2>6, <2>7
    <2>9. Len(adc') = 2 * (N + Extra + 1) - i'
        BY <1>1, <2>1, <2>2, <2>6
    <2>10. QED
        BY <2>1, <2>5, <2>8, <2>9 DEF AdcInv
<1>5. CASE ResetAdc
    <2>1. /\ pc = "adc" /\ pc' = "adcreset" /\ i = 2 * N /\ adc' = <<>>
          /\ UNCHANGED <<i, pass, msg, adcw>>
        BY <1>5 DEF ResetAdc, Goto, EmptyAdc
    <2>2. adcw.st = "idle"
        BY <1>1, <2>1, SizeAssumption DEF AdcInv
    <2>3. QED
        BY <2>1, <2>2 DEF AdcInv
<1>6. CASE SendAdc
    BY <1>6 DEF SendAdc, Goto, AdcInv
<1>7. CASE TbtTrig \/ TbtWriteX \/ TbtWriteY
    BY <1>7 DEF TbtTrig, TbtWriteX, TbtWriteY, AdcInv
<1>8. CASE ReadTbt \/ ResetTbt \/ SendTbt
    BY <1>8 DEF ReadTbt, ResetTbt, SendTbt, Goto, AdcInv
<1>9. CASE UNCHANGED vars
    BY <1>9 DEF vars, AdcInv
<1>10. QED
    BY <1>2, <1>3, <1>4, <1>5, <1>6, <1>7, <1>8, <1>9 DEF Next, livedata_push
-----------------------------------------------------------------------------
(* The turn-by-turn FIFO: what steps do to it *)

LEMMA NextRst ==
    ASSUME TypeOK, RstInv, [Next]_vars
    PROVE  RstInv'
<1> USE DEF RstInv
<1>1. CASE AdcWrite
    BY <1>1 DEF AdcWrite
<1>2. CASE TbtTrig
    BY <1>2 DEF TbtTrig, TypeOK
<1>3. CASE TbtWriteX
    BY <1>3 DEF TbtWriteX, TypeOK, Push, Dropped
<1>4. CASE TbtWriteY
    <2>1. rst => tbt' = tbt /\ tbtw'.st # "y"
        BY <1>4 DEF TbtWriteY, Push, Dropped, Idle
    <2>2. QED
        BY <1>4, <2>1 DEF TbtWriteY
<1>5. CASE Enable \/ ReadAdc \/ ResetAdc \/ SendAdc
    BY <1>5 DEF Enable, ReadAdc, ResetAdc, SendAdc, Goto
<1>6. CASE ReadTbt
    BY <1>6 DEF ReadTbt
<1>7. CASE ResetTbt
    <2>1. tbtw'.st # "y"
        BY <1>7 DEF ResetTbt, TypeOK
    <2>2. QED
        BY <1>7, <2>1 DEF ResetTbt, Goto, EmptyTbt
<1>8. CASE SendTbt
    BY <1>8 DEF SendTbt, Goto
<1>9. CASE UNCHANGED vars
    BY <1>9 DEF vars
<1>10. QED
    BY <1>1, <1>2, <1>3, <1>4, <1>5, <1>6, <1>7, <1>8, <1>9 DEF Next, livedata_push

\* A write that is not dropped adds one word at the end.
LEMMA PushAdds ==
    ASSUME TypeOK, NEW c \in {"x", "y"}, ~Dropped, tbt' = Push(c),
           tbtw.st \in {"x", "y", "alone"}, UNCHANGED <<pc, i, msg>>
    PROVE  /\ Taken' = Taken /\ Total \in Nat /\ Total' = Total + 1
           /\ \A k \in 1..Total : Both(k)' = Both(k)
           /\ \A k : k = Total + 1 => Both(k)' = <<pass, tbtw.n + 1, c>>
<1> DEFINE w == <<pass, tbtw.n + 1, c>>
<1>1. Taken' = Taken /\ Taken \in Nat
    BY DEF Taken, TypeOK
<1>2. /\ tbt \in Seq(Word(Columns.pos)) /\ w \in Word(Columns.pos)
      /\ tbt' = Append(tbt, w)
    BY PushType, TbtTypes, SizeAssumption DEF TypeOK, Push
<1> HIDE DEF w
<1>3. /\ Len(tbt) \in Nat /\ Len(tbt') = Len(tbt) + 1 /\ tbt'[Len(tbt) + 1] = w
      /\ \A k \in 1..Len(tbt) : tbt'[k] = tbt[k]
    BY <1>2
<1>4. Total \in Nat /\ Total' = Total + 1
    BY <1>1, <1>3 DEF Total
<1>5. \A k \in 1..Total : Both(k)' = Both(k)
    <2>1. \A k \in 1..Total : k <= Taken \/ k - Taken \in 1..Len(tbt)
        BY <1>1, <1>3 DEF Total
    <2>2. QED
        BY <1>1, <1>3, <2>1 DEF Both
<1>6. ASSUME NEW k, k = Total + 1
      PROVE  Both(k)' = w
    <2>1. ~(k <= Taken) /\ k - Taken = Len(tbt) + 1
        BY <1>1, <1>3, <1>6 DEF Total
    <2>2. QED
        BY <1>1, <1>3, <2>1 DEF Both
<1>7. QED
    BY <1>1, <1>4, <1>5, <1>6 DEF w

\* A read that meets a word moves it, and changes nothing for the two together.
LEMMA ReadMoves ==
    ASSUME TypeOK, ReadTbt, tbt # <<>>
    PROVE  /\ Total \in Nat /\ Total' = Total
           /\ \A k \in 1..Total : Both(k)' = Both(k)
<1>1. /\ i \in Nat /\ msg \in Seq(Word(Columns.ch) \cup Word(Columns.pos)) /\ Len(msg) = i
      /\ tbt \in Seq(Word(Columns.pos))
    BY SizeAssumption DEF TypeOK
<1>2. /\ pc = "tbt" /\ pc' = "tbt" /\ i' = i + 1
      /\ msg' = Append(msg, Head(tbt)) /\ tbt' = Tail(tbt)
    BY DEF ReadTbt, ReadWord, Popped
<1>3. Taken = i /\ Taken' = i + 1
    BY <1>2 DEF Taken
<1>4. /\ Len(tbt) \in Nat /\ Len(tbt) > 0 /\ Len(tbt') = Len(tbt) - 1
      /\ \A k \in 1..Len(tbt') : tbt'[k] = tbt[k + 1]
    BY <1>1, <1>2
<1>5. /\ \A k \in 1..i : msg'[k] = msg[k]
      /\ msg'[i + 1] = tbt[1]
    BY <1>1, <1>2
<1>6. Total \in Nat /\ Total' = Total
    BY <1>1, <1>3, <1>4 DEF Total
<1>7. ASSUME NEW k \in 1..Total
      PROVE  Both(k)' = Both(k)
    <2>1. CASE k <= i
        BY <1>1, <1>3, <1>5, <2>1 DEF Both
    <2>2. CASE k = i + 1
        <3>1. ~(k <= i) /\ k - i = 1
            BY <1>1, <2>2
        <3>2. QED
            BY <1>3, <1>5, <2>2, <3>1 DEF Both
    <2>3. CASE k > i + 1
        <3>1. k - (i + 1) \in 1..Len(tbt') /\ (k - (i + 1)) + 1 = k - i /\ ~(k <= i)
              /\ ~(k <= i + 1)
            BY <1>1, <1>3, <1>4, <2>3 DEF Total
        <3>2. tbt'[k - (i + 1)] = tbt[k - i]
            BY <1>4, <3>1
        <3>3. QED
            BY <1>3, <3>1, <3>2 DEF Both
    <2>4. QED
        BY <1>1, <2>1, <2>2, <2>3
<1>8. QED
    BY <1>6, <1>7

\* Steps that touch neither.
LEMMA SameBoth ==
    ASSUME TypeOK, UNCHANGED tbt, Taken' = Taken,
           pc = "tbt" => UNCHANGED msg
    PROVE  /\ Total \in Nat /\ Total' = Total
           /\ \A k \in 1..Total : Both(k)' = Both(k)
<1>1. Taken \in Nat /\ (pc # "tbt" => Taken = 0) /\ Len(tbt) \in Nat
    BY DEF TypeOK, Taken
<1>2. QED
    BY <1>1 DEF Total, Both
-----------------------------------------------------------------------------
(* The age of the words *)

LEMMA PushAge ==
    ASSUME TypeOK, NEW c \in {"x", "y"}, tbt' = Push(c), tbtw.st \in {"x", "y", "alone"},
           NEW k \in 1..Len(tbt')
    PROVE  (k \in 1..Len(tbt) /\ tbt'[k] = tbt[k]) \/ tbt'[k][1] = pass
<1> DEFINE w == <<pass, tbtw.n + 1, c>>
<1>1. tbt \in Seq(Word(Columns.pos)) /\ w[1] = pass /\ w \in Word(Columns.pos)
    <2>1. pass \in Passes /\ tbtw.n + 1 \in 1..(N + Extra)
        BY SizeAssumption DEF TypeOK
    <2>2. w \in Word(Columns.pos)
        BY <2>1, TbtTypes
    <2>3. QED
        BY <2>2 DEF TypeOK
<1>2. tbt' = tbt \/ tbt' = Append(tbt, w)
    BY DEF Push
<1> HIDE DEF w
<1>3. CASE tbt' = tbt
    BY <1>3
<1>4. CASE tbt' = Append(tbt, w)
    <2>1. Len(tbt') = Len(tbt) + 1 /\ tbt'[Len(tbt) + 1] = w
          /\ \A j \in 1..Len(tbt) : tbt'[j] = tbt[j]
        BY <1>1, <1>4
    <2>2. k \in 1..Len(tbt) \/ k = Len(tbt) + 1
        BY <1>1, <2>1
    <2>3. QED
        BY <1>1, <2>1, <2>2
<1>5. QED
    BY <1>2, <1>3, <1>4

LEMMA NextAge ==
    ASSUME TypeOK, RstInv, AgeInv, [Next]_vars
    PROVE  AgeInv'
<1>1. /\ pass \in 0..2 /\ i \in Nat /\ Len(msg) = i
      /\ msg \in Seq(Word(Columns.ch) \cup Word(Columns.pos)) /\ tbt \in Seq(Word(Columns.pos))
    BY SizeAssumption DEF TypeOK, Passes
<1>2. CASE AdcWrite \/ TbtTrig \/ ReadAdc \/ ResetAdc \/ SendTbt
    BY <1>2 DEF AdcWrite, TbtTrig, ReadAdc, ResetAdc, SendTbt, Goto, AgeInv
<1>3. CASE TbtWriteX \/ TbtWriteY
    <2>1. PICK c \in {"x", "y"} : tbt' = Push(c)
        BY <1>3 DEF TbtWriteX, TbtWriteY
    <2>2. tbtw.st \in {"x", "y", "alone"} /\ UNCHANGED <<pc, i, msg, pass>>
        BY <1>3 DEF TbtWriteX, TbtWriteY
    <2>3. \A k \in 1..Len(tbt') : (k \in 1..Len(tbt) /\ tbt'[k] = tbt[k]) \/ tbt'[k][1] = pass
        BY <2>1, <2>2, PushAge
    <2>4. QED
        BY <2>2, <2>3 DEF AgeInv
<1>4. CASE Enable
    <2>1. /\ pc = "start" /\ pc' = "adc" /\ tbt' = tbt /\ (pass' + 2) % 3 = pass
        BY <1>1, <1>4 DEF Enable, Goto
    <2>2. QED
        BY <2>1 DEF AgeInv
<1>5. CASE SendAdc
    <2>1. pc = "adcreset" /\ pc' = "tbt" /\ i' = 0 /\ UNCHANGED <<tbt, pass>>
        BY <1>5 DEF SendAdc, Goto
    <2>2. QED
        BY <2>1 DEF AgeInv
<1>6. CASE ReadTbt
    <2>1. /\ pc = "tbt" /\ pc' = "tbt" /\ i' = i + 1 /\ pass' = pass
          /\ tbt' = Popped(tbt) /\ msg' = Append(msg, IF tbt = <<>> THEN None ELSE Head(tbt))
        BY <1>6 DEF ReadTbt, ReadWord
    <2>2. CASE tbt = <<>>
        <3>1. tbt' = <<>> /\ msg' = Append(msg, None)
            BY <2>1, <2>2 DEF Popped
        <3>2. (\A k \in 1..i : msg'[k] = msg[k]) /\ msg'[i + 1] = None
            BY <1>1, <3>1, NoneWord
        <3>3. QED
            BY <1>1, <2>1, <3>1, <3>2 DEF AgeInv
    <2>3. CASE tbt # <<>>
        <3>1. tbt' = Tail(tbt) /\ msg' = Append(msg, Head(tbt)) /\ Head(tbt) = tbt[1]
            BY <1>1, <2>1, <2>3 DEF Popped
        <3>2. /\ 1 \in 1..Len(tbt)
              /\ \A k \in 1..Len(tbt') : k + 1 \in 1..Len(tbt) /\ tbt'[k] = tbt[k + 1]
            BY <1>1, <2>3, <3>1
        <3>3. tbt[1] \in Word(Columns.pos)
            BY <1>1, <3>2
        <3>4. (\A k \in 1..i : msg'[k] = msg[k]) /\ msg'[i + 1] = tbt[1]
            BY <1>1, <3>1, <3>3
        <3>5. \A k \in 1..i' : k \in 1..i \/ k = i + 1
            BY <1>1, <2>1
        <3>6. QED
            BY <2>1, <3>2, <3>4, <3>5 DEF AgeInv
    <2>4. QED
        BY <2>2, <2>3
<1>7. CASE ResetTbt
    <2>1. pc' = "tbtreset" /\ tbt' = <<>>
        BY <1>7 DEF ResetTbt, Goto, EmptyTbt
    <2>2. QED
        BY <2>1 DEF AgeInv
<1>8. CASE UNCHANGED vars
    BY <1>8 DEF vars, AgeInv
<1>9. QED
    BY <1>2, <1>3, <1>4, <1>5, <1>6, <1>7, <1>8 DEF Next, livedata_push
-----------------------------------------------------------------------------
(* What was written in this pass *)

LEMMA NextWhole ==
    ASSUME TypeOK, RstInv, WholeInv, [Next]_vars
    PROVE  WholeInv'
<1> DEFINE Met == ~cut /\ (pc = "tbt" => ~dry)
           Before == pc \in {"tbtreset", "start"} => tbt = <<>> /\ tbtw.st = "idle"
           Pass == pc \in {"adc", "adcreset", "tbt"} =>
                     /\ tbtw.st # "alone" /\ Total = Written
                     /\ \A k \in 1..Total : Both(k) = TbtWord(pass, k)
<1>1. SUFFICES ASSUME Met'
               PROVE  Before' /\ Pass'
    BY DEF WholeInv
<1>2. Met => Before /\ Pass
    BY DEF WholeInv
<1>3. /\ N + Extra \in Nat \ {0} /\ 2 * (N + Extra) <= TbtDepth /\ TbtDepth \in Nat
      /\ tbtw.n \in 0..(N + Extra - 1) /\ tbtw.st \in WriterSt /\ pass \in Passes
      /\ i \in Nat /\ Len(tbt) \in Nat /\ Taken \in Nat
      /\ Len(tbt) <= Total /\ Total \in Nat
    BY SizeAssumption, DepthAssumption DEF TypeOK, Taken, Total
\* Steps after which neither the FIFO nor the message's share of it differs.
<1>4. ASSUME UNCHANGED <<tbt, pass>>, Taken' = Taken, pc = "tbt" => UNCHANGED msg, Met,
             pc \in {"adc", "adcreset", "tbt"}, Written' = Written, tbtw'.st # "alone"
      PROVE  Pass'
    <2>1. Total \in Nat /\ Total' = Total /\ \A k \in 1..Total : Both(k)' = Both(k)
        BY <1>4, SameBoth
    <2>2. QED
        BY <1>2, <1>4, <2>1 DEF TbtWord
\* Steps that add what is next.
<1>5. ASSUME NEW c \in {"x", "y"}, tbt' = Push(c), UNCHANGED <<pc, i, msg, pass>>, Met,
             tbtw.st = c, TbtWord(pass, Written + 1) = <<pass, tbtw.n + 1, c>>,
             Written' = Written + 1, tbtw'.st # "alone"
      PROVE  Before' /\ Pass'
    <2>1. pc \in {"adc", "adcreset", "tbt"}
        BY <1>2, <1>5 DEF TypeOK
    <2>2. /\ tbtw.st # "alone" /\ Total = Written
          /\ \A k \in 1..Total : Both(k) = TbtWord(pass, k)
        BY <1>2, <1>5, <2>1
    <2>3. Written < TbtDepth
        <3>1. Written = 2 * tbtw.n \/ Written = 2 * tbtw.n + 1
            BY <1>3, <1>5 DEF Written
        <3>2. QED
            BY <1>3, <3>1, SizeAssumption
    <2>4. ~Dropped
        <3>1. pc # "tbtreset" /\ ~rst
            BY <2>1 DEF RstInv
        <3>2. Len(tbt) # TbtDepth
            BY <1>3, <2>2, <2>3
        <3>3. QED
            BY <3>1, <3>2 DEF Dropped, Full
    <2>5. /\ Total \in Nat /\ Total' = Total + 1
          /\ \A k \in 1..Total : Both(k)' = Both(k)
          /\ \A k : k = Total + 1 => Both(k)' = <<pass, tbtw.n + 1, c>>
        BY <1>5, <2>4, PushAdds
    <2>6. \A k \in 1..Total' : k \in 1..Total \/ k = Total + 1
        BY <2>5
    <2>7. \A k \in 1..Total' : Both(k)' = TbtWord(pass, k)
        BY <1>5, <2>2, <2>5, <2>6
    <2>8. QED
        BY <1>5, <2>1, <2>2, <2>5, <2>7 DEF TbtWord
<1>6. CASE AdcWrite
    <2>1. UNCHANGED <<pc, i, msg, tbt, tbtw, pass, cut, dry>>
        BY <1>6 DEF AdcWrite
    <2>2. QED
        BY <1>1, <1>2, <1>4, <2>1 DEF Taken, Written
<1>7. CASE TbtTrig
    <2>1. /\ UNCHANGED <<pc, i, msg, tbt, pass, cut, dry>> /\ tbtw.st \in {"arm", "wait"}
          /\ tbtw'.st = "x" /\ tbtw'.n = tbtw.n
        BY <1>7 DEF TbtTrig, TypeOK
    <2>2. pc \in {"adc", "adcreset", "tbt"}
        BY <1>1, <1>2, <2>1 DEF TypeOK
    <2>3. Written' = Written /\ Taken' = Taken
        BY <2>1 DEF Written, Taken
    <2>4. QED
        BY <1>1, <1>4, <2>1, <2>2, <2>3
<1>8. CASE TbtWriteX
    <2>1. /\ UNCHANGED <<pc, i, msg, pass, cut, dry>> /\ tbtw.st = "x" /\ tbt' = Push("x")
          /\ tbtw'.n = tbtw.n /\ tbtw'.st = IF Dropped THEN "alone" ELSE "y"
        BY <1>8 DEF TbtWriteX, TypeOK
    <2>2. Met /\ pc \in {"adc", "adcreset", "tbt"}
        BY <1>1, <1>2, <2>1 DEF TypeOK
    <2>3. Written = 2 * tbtw.n
        BY <1>3, <2>1 DEF Written
    <2>4. ~Dropped
        <3>1. pc # "tbtreset" /\ ~rst
            BY <2>2 DEF RstInv
        <3>2. Total = Written
            BY <1>2, <2>2
        <3>3. Len(tbt) # TbtDepth
            BY <1>3, <2>3, <3>2, SizeAssumption
        <3>4. QED
            BY <3>1, <3>3 DEF Dropped, Full
    <2>5. Written' = Written + 1
        BY <1>3, <2>1, <2>3, <2>4 DEF Written
    <2>6. TbtWord(pass, Written + 1) = <<pass, tbtw.n + 1, "x">>
        BY <1>3, <2>3, TbtWords
    <2>7. tbtw'.st # "alone"
        BY <2>1, <2>4
    <2>8. QED
        BY <1>5, <2>1, <2>2, <2>5, <2>6, <2>7
<1>9. CASE TbtWriteY
    <2>1. /\ UNCHANGED <<pc, i, msg, pass, cut, dry>> /\ tbtw.st \in {"y", "alone"}
          /\ tbt' = Push("y") /\ tbtw'.st \in {"idle", "wait"}
          /\ tbtw' = IF tbtw.n + 1 = N + Extra THEN Idle
                     ELSE [st |-> "wait", n |-> tbtw.n + 1]
        BY <1>9 DEF TbtWriteY, NextNum, Idle
    <2>2. Met /\ tbtw.st = "y"
        BY <1>1, <1>2, <2>1 DEF TypeOK
    <2>3. Written = 2 * tbtw.n + 1
        BY <1>3, <2>2 DEF Written
    <2>4. Written' = 2 * (tbtw.n + 1)
        BY <1>3, <2>1 DEF Written, Idle
    <2>5. Written' = Written + 1 /\ TbtWord(pass, Written + 1) = <<pass, tbtw.n + 1, "y">>
        <3>1. Written' = Written + 1 /\ Written + 1 = 2 * tbtw.n + 2
            BY <1>3, <2>3, <2>4
        <3>2. QED
            BY <1>3, <3>1, TbtWords
    <2>6. QED
        BY <1>5, <2>1, <2>2, <2>5
<1>10. CASE Enable
    <2>1. /\ pc = "start" /\ pc' = "adc" /\ tbt' = tbt /\ tbtw'.st = "arm" /\ tbtw'.n = 0
          /\ UNCHANGED cut
        BY <1>10 DEF Enable, Goto
    <2>2. tbt' = <<>>
        BY <1>1, <1>2, <2>1
    <2>3. Total' = 0 /\ Written' = 0
        BY <2>1, <2>2 DEF Total, Taken, Written
    <2>4. QED
        BY <2>1, <2>3
<1>11. CASE ReadAdc \/ ResetAdc \/ SendAdc
    <2>1. /\ pc \in {"adc", "adcreset"} /\ pc' \in {"adc", "adcreset", "tbt"}
          /\ (pc' = "tbt" => i' = 0) /\ UNCHANGED <<pass, tbt, tbtw, cut>>
        BY <1>11 DEF ReadAdc, ResetAdc, SendAdc, Goto
    <2>2. Taken' = Taken /\ Written' = Written /\ Met
        BY <1>1, <2>1 DEF Taken, Written
    <2>3. QED
        BY <1>2, <1>4, <2>1, <2>2
<1>12. CASE ReadTbt
    <2>1. /\ pc = "tbt" /\ pc' = "tbt" /\ UNCHANGED <<pass, tbtw, cut>>
          /\ dry' = (dry \/ tbt = <<>>)
        BY <1>12 DEF ReadTbt
    <2>2. Met /\ tbt # <<>>
        BY <1>1, <2>1
    <2>3. Total \in Nat /\ Total' = Total /\ \A k \in 1..Total : Both(k)' = Both(k)
        BY <1>12, <2>2, ReadMoves
    <2>4. Written' = Written
        BY <2>1 DEF Written
    <2>5. QED
        BY <1>2, <2>1, <2>2, <2>3, <2>4 DEF TbtWord
<1>13. CASE ResetTbt
    <2>1. pc' = "tbtreset" /\ tbt' = <<>> /\ cut' = (tbtw.st # "idle")
        BY <1>13 DEF ResetTbt, Goto, EmptyTbt
    <2>2. tbtw.st = "idle" /\ tbtw' = tbtw
        BY <1>1, <1>13, <2>1 DEF ResetTbt
    <2>3. QED
        BY <2>1, <2>2
<1>14. CASE SendTbt
    <2>1. pc = "tbtreset" /\ pc' = "start" /\ UNCHANGED <<tbt, tbtw, cut>>
        BY <1>14 DEF SendTbt, Goto
    <2>2. QED
        BY <1>1, <1>2, <2>1
<1>15. CASE UNCHANGED vars
    <2>1. UNCHANGED <<pc, i, msg, tbt, tbtw, pass, cut, dry>>
        BY <1>15 DEF vars
    <2>2. QED
        BY <1>1, <1>2, <1>4, <2>1 DEF Taken, Written
<1>16. QED
    BY <1>6, <1>7, <1>8, <1>9, <1>10, <1>11, <1>12, <1>13, <1>14, <1>15
       DEF Next, livedata_push
-----------------------------------------------------------------------------
(* Pairs *)

LEMMA NextPair ==
    ASSUME TypeOK, RstInv, PairInv, [Next]_vars
    PROVE  PairInv'
<1> DEFINE Met == ~split /\ (pc = "tbt" => ~dry)
           Even == tbtw.st = "y" <=> Total % 2 = 1
           Last == tbtw.st = "y" => Both(Total) = <<pass, tbtw.n + 1, "x">>
           Pair(k) == /\ Both(k)[3] = "x"
                      /\ k < Total => Both(k + 1) = <<Both(k)[1], Both(k)[2], "y">>
           Pairs == \A k \in 1..Total : k % 2 = 1 => Pair(k)
<1>1. SUFFICES ASSUME Met'
               PROVE  Even' /\ Last' /\ Pairs'
    BY DEF PairInv
<1>2. Met => Even /\ Last /\ Pairs
    BY DEF PairInv
<1>3. Taken \in Nat /\ Len(tbt) \in Nat /\ Total \in Nat
    BY DEF TypeOK, Taken, Total
\* Steps that leave the words as they are.
<1>4. ASSUME Met, Total' = Total, \A k \in 1..Total : Both(k)' = Both(k),
             tbtw'.st = "y" <=> tbtw.st = "y",
             tbtw.st = "y" => UNCHANGED <<pass, tbtw>>
      PROVE  Even' /\ Last' /\ Pairs'
    <2>1. Even'
        BY <1>2, <1>4
    <2>2. Last'
        <3>1. SUFFICES ASSUME tbtw'.st = "y"
                       PROVE  Both(Total)' = <<pass', tbtw'.n + 1, "x">>
            OBVIOUS
        <3>2. Total % 2 = 1 /\ Both(Total) = <<pass, tbtw.n + 1, "x">>
            BY <1>2, <1>4, <3>1
        <3>3. Total \in 1..Total
            BY <1>3, <3>2
        <3>4. \A k : k = Total => Both(k)' = Both(k)
            BY <1>4, <3>3
        <3>5. Both(Total)' = Both(Total)
            BY <1>4, <3>4 DEF Both
        <3>6. QED
            BY <1>4, <3>1, <3>2, <3>5
    <2>3. ASSUME NEW k \in 1..Total', k % 2 = 1
          PROVE  Pair(k)'
        <3>1. k \in 1..Total /\ Pair(k)
            BY <1>2, <1>4, <2>3
        <3>2. k < Total => k + 1 \in 1..Total
            BY <1>3, <3>1
        <3>3. Both(k)' = Both(k) /\ (k < Total => Both(k + 1)' = Both(k + 1))
            BY <1>4, <3>1, <3>2
        <3>4. QED
            BY <1>4, <3>1, <3>3
    <2>4. QED
        BY <2>1, <2>2, <2>3
\* Such steps, seen from the variables.
<1>5. ASSUME Met, UNCHANGED tbt, Taken' = Taken, pc = "tbt" => UNCHANGED msg,
             tbtw'.st = "y" <=> tbtw.st = "y",
             tbtw.st = "y" => UNCHANGED <<pass, tbtw>>
      PROVE  Even' /\ Last' /\ Pairs'
    <2>1. Total' = Total /\ \A k \in 1..Total : Both(k)' = Both(k)
        BY <1>5, SameBoth
    <2>2. QED
        BY <1>4, <1>5, <2>1
<1>6. CASE AdcWrite
    <2>1. UNCHANGED <<pc, i, msg, tbt, tbtw, pass, split, dry>>
        BY <1>6 DEF AdcWrite
    <2>2. QED
        BY <1>1, <1>5, <2>1 DEF Taken
<1>7. CASE TbtTrig
    <2>1. /\ UNCHANGED <<pc, i, msg, tbt, pass, split, dry>>
          /\ tbtw.st # "y" /\ tbtw'.st # "y"
        BY <1>7 DEF TbtTrig, TypeOK
    <2>2. QED
        BY <1>1, <1>5, <2>1 DEF Taken
<1>8. CASE TbtWriteX
    <2>1. /\ UNCHANGED <<pc, i, msg, pass, split, dry>> /\ tbtw.st = "x" /\ tbt' = Push("x")
          /\ tbtw'.n = tbtw.n /\ tbtw'.st = IF Dropped THEN "alone" ELSE "y"
        BY <1>8 DEF TbtWriteX, TypeOK
    <2>2. CASE Dropped
        BY <1>1, <1>5, <2>1, <2>2 DEF Taken, Push
    <2>3. CASE ~Dropped
        <3>1. /\ Total' = Total + 1
              /\ \A k \in 1..Total : Both(k)' = Both(k)
              /\ \A k : k = Total + 1 => Both(k)' = <<pass, tbtw.n + 1, "x">>
            BY <2>1, <2>3, PushAdds
        <3>2. Total % 2 = 0 /\ Pairs
            BY <1>1, <1>2, <1>3, <2>1
        <3>3. Even'
            BY <1>3, <2>1, <2>3, <3>1, <3>2
        <3>4. Both(Total)' = <<pass, tbtw.n + 1, "x">>
            BY <3>1 DEF Both
        <3>5. ASSUME NEW k \in 1..Total', k % 2 = 1
              PROVE  Pair(k)'
            <4>1. CASE k = Total + 1
                <5>1. Both(k)' = <<pass, tbtw.n + 1, "x">> /\ ~(k < Total')
                    BY <1>3, <3>1, <4>1
                <5>2. QED
                    BY <5>1
            <4>2. CASE k # Total + 1
                <5>1. k \in 1..Total /\ k < Total /\ k + 1 \in 1..Total
                    BY <1>3, <3>1, <3>2, <3>5, <4>2
                <5>2. Pair(k) /\ Both(k)' = Both(k) /\ Both(k + 1)' = Both(k + 1)
                    BY <3>1, <3>2, <3>5, <5>1
                <5>3. QED
                    BY <5>1, <5>2
            <4>3. QED
                BY <4>1, <4>2
        <3>6. QED
            BY <2>1, <3>3, <3>4, <3>5
    <2>4. QED
        BY <2>2, <2>3
<1>9. CASE TbtWriteY
    <2>1. /\ UNCHANGED <<pc, i, msg, pass, dry>> /\ tbtw.st \in {"y", "alone"}
          /\ tbt' = Push("y") /\ tbtw'.st # "y"
        BY <1>9 DEF TbtWriteY, Idle
    <2>2. ~split /\ (tbtw.st = "alone" => Dropped) /\ (tbtw.st = "y" => ~Full \/ rst)
        BY <1>1, <1>9, <2>1 DEF TbtWriteY
    <2>3. CASE tbtw.st = "alone"
        BY <1>1, <1>5, <2>1, <2>2, <2>3 DEF Taken, Push
    <2>4. CASE tbtw.st = "y"
        <3>1. ~Dropped
            BY <2>2, <2>4 DEF RstInv, Dropped
        <3>2. /\ Total' = Total + 1
              /\ \A k \in 1..Total : Both(k)' = Both(k)
              /\ \A k : k = Total + 1 => Both(k)' = <<pass, tbtw.n + 1, "y">>
            BY <2>1, <3>1, PushAdds
        <3>3. Total % 2 = 1 /\ Pairs /\ Both(Total) = <<pass, tbtw.n + 1, "x">>
            BY <1>1, <1>2, <2>1, <2>2, <2>4
        <3>4. Even' /\ Last'
            <4>1. Total' % 2 # 1
                BY <1>3, <3>2, <3>3
            <4>2. QED
                BY <2>1, <4>1
        <3>5. ASSUME NEW k \in 1..Total', k % 2 = 1
              PROVE  Pair(k)'
            <4>1. k \in 1..Total /\ Pair(k) /\ Both(k)' = Both(k)
                BY <1>3, <3>2, <3>3, <3>5
            <4>2. CASE k = Total
                <5>1. Both(k) = <<pass, tbtw.n + 1, "x">>
                    BY <3>3, <4>2
                <5>2. Both(k + 1)' = <<pass, tbtw.n + 1, "y">>
                    BY <3>2, <4>2
                <5>3. Both(k)'[1] = pass /\ Both(k)'[2] = tbtw.n + 1 /\ Both(k)'[3] = "x"
                    BY <4>1, <5>1
                <5>4. QED
                    BY <5>2, <5>3
            <4>3. CASE k # Total
                <5>1. k < Total /\ k + 1 \in 1..Total
                    BY <1>3, <4>1, <4>3
                <5>2. Both(k + 1)' = Both(k + 1)
                    BY <3>2, <5>1
                <5>3. QED
                    BY <4>1, <5>1, <5>2
            <4>4. QED
                BY <4>2, <4>3
        <3>6. QED
            BY <3>4, <3>5
    <2>5. QED
        BY <2>1, <2>3, <2>4
<1>10. CASE Enable
    <2>1. /\ pc = "start" /\ pc' = "adc" /\ tbt' = tbt /\ UNCHANGED split
          /\ tbtw.st # "y" /\ tbtw'.st # "y"
        BY <1>10 DEF Enable, Goto, Second
    <2>2. QED
        BY <1>1, <1>5, <2>1 DEF Taken
<1>11. CASE ReadAdc \/ ResetAdc \/ SendAdc
    <2>1. /\ pc \in {"adc", "adcreset"} /\ pc' \in {"adc", "adcreset", "tbt"}
          /\ (pc' = "tbt" => i' = 0) /\ UNCHANGED <<pass, tbt, tbtw, split>>
        BY <1>11 DEF ReadAdc, ResetAdc, SendAdc, Goto
    <2>2. QED
        BY <1>1, <1>5, <2>1 DEF Taken
<1>12. CASE ReadTbt
    <2>1. /\ pc = "tbt" /\ pc' = "tbt" /\ UNCHANGED <<pass, tbtw, split>>
          /\ dry' = (dry \/ tbt = <<>>)
        BY <1>12 DEF ReadTbt
    <2>2. Met /\ tbt # <<>>
        BY <1>1, <2>1
    <2>3. Total' = Total /\ \A k \in 1..Total : Both(k)' = Both(k)
        BY <1>12, <2>2, ReadMoves
    <2>4. QED
        BY <1>4, <2>1, <2>2, <2>3
<1>13. CASE ResetTbt
    <2>1. pc' = "tbtreset" /\ tbt' = <<>> /\ tbtw'.st # "y"
        BY <1>13 DEF ResetTbt, Goto, EmptyTbt, TypeOK
    <2>2. Total' = 0
        BY <2>1 DEF Total, Taken
    <2>3. QED
        BY <2>1, <2>2
<1>14. CASE SendTbt
    <2>1. pc = "tbtreset" /\ pc' = "start" /\ UNCHANGED <<tbt, tbtw, pass, split>>
        BY <1>14 DEF SendTbt, Goto
    <2>2. QED
        BY <1>1, <1>5, <2>1 DEF Taken
<1>15. CASE UNCHANGED vars
    <2>1. UNCHANGED <<pc, i, msg, tbt, tbtw, pass, split, dry>>
        BY <1>15 DEF vars
    <2>2. QED
        BY <1>1, <1>5, <2>1 DEF Taken
<1>16. QED
    BY <1>6, <1>7, <1>8, <1>9, <1>10, <1>11, <1>12, <1>13, <1>14, <1>15
       DEF Next, livedata_push
-----------------------------------------------------------------------------
(* The theorems *)

LEMMA Inductive == Spec => []IInv
<1>1. Init => IInv
    BY InitInv
<1>2. IInv /\ [Next]_vars => IInv'
    BY NextType, NextAdc, NextRst, NextAge, NextWhole, NextPair DEF IInv
<1>3. QED
    BY <1>1, <1>2, PTL DEF Spec

\* The variables keep their types and the FIFOs their depths, whenever the
\* writers and the thread of livedata.c meet.
THEOREM TypeCorrect == Spec => []TypeOK
<1>1. IInv => TypeOK
    BY DEF IInv
<1>2. QED
    BY <1>1, Inductive, PTL

\* Message 51 of livedata_push is of one pass, whatever came before it.
THEOREM AdcIsWhole == Spec => []AdcWhole
<1>1. ASSUME TypeOK, AdcInv
      PROVE  AdcWhole
    <2>1. SUFFICES ASSUME pc = "adcreset"
                   PROVE  msg = Samples(Columns.ch)
        BY DEF AdcWhole
    <2>2. i = 2 * N /\ \A k \in 1..i : msg[k] = AdcWord(pass, k)
        BY <1>1, <2>1 DEF AdcInv
    <2>3. msg \in Seq(Word(Columns.ch) \cup Word(Columns.pos)) /\ Len(msg) = i /\ i \in Nat
        BY <1>1, SizeAssumption DEF TypeOK
    <2>4. \A k \in 1..(2 * N) : Samples(Columns.ch)[k] = AdcWord(pass, k)
        BY DEF Samples, AdcWord
    <2>5. QED
        BY <2>2, <2>3, <2>4 DEF Samples
<1>2. IInv => AdcWhole
    BY <1>1 DEF IInv
<1>3. QED
    BY <1>2, Inductive, PTL

\* At the end of a pass the thread has read what the two have in common.
LEMMA AllRead ==
    ASSUME TypeOK, AtEnd
    PROVE  /\ msg \in Seq(Word(Columns.ch) \cup Word(Columns.pos)) /\ Len(msg) = 2 * N
           /\ N \in Nat /\ Total \in Nat /\ 2 * N <= Total
           /\ \A k \in 1..(2 * N) : Both(k) = msg[k]
BY SizeAssumption DEF TypeOK, AtEnd, Total, Taken, Both

\* Message 52 is the first samples of this pass if the thread of livedata.c has
\* not overtaken tbt2fifo.vhd.
THEOREM TbtIsWhole == Spec => []TbtWhole
<1>1. ASSUME TypeOK, WholeInv
      PROVE  TbtWhole
    <2>1. SUFFICES ASSUME AtEnd, ~dry, ~cut
                   PROVE  msg = Samples(Columns.pos)
        BY DEF TbtWhole
    <2>2. \A k \in 1..Total : Both(k) = TbtWord(pass, k)
        BY <1>1, <2>1 DEF WholeInv, AtEnd
    <2>3. \A k \in 1..(2 * N) : msg[k] = TbtWord(pass, k)
        BY <1>1, <2>1, <2>2, AllRead
    <2>4. \A k \in 1..(2 * N) : Samples(Columns.pos)[k] = TbtWord(pass, k)
        BY DEF Samples, TbtWord
    <2>5. QED
        BY <1>1, <2>1, <2>3, <2>4, AllRead DEF Samples
<1>2. IInv => TbtWhole
    BY <1>1 DEF IInv
<1>3. QED
    BY <1>2, Inductive, PTL

\* The x and y that livedata.c sends side by side are of one turn, unless a word
\* was lost alone between tbt2fifo.vhd and the FIFO or the FIFO was read empty.
THEOREM TbtIsPaired == Spec => []TbtPairs
<1>1. ASSUME TypeOK, PairInv
      PROVE  TbtPairs
    <2>1. SUFFICES ASSUME AtEnd, ~dry, ~split, NEW k \in 1..N
                   PROVE  /\ msg[2 * k - 1][3] = "x" /\ msg[2 * k][3] = "y"
                          /\ \A c \in 1..2 : msg[2 * k - 1][c] = msg[2 * k][c]
        BY DEF TbtPairs
    <2>2. /\ 2 * k - 1 \in 1..Total /\ (2 * k - 1) % 2 = 1 /\ 2 * k - 1 < Total
          /\ 2 * k - 1 \in 1..(2 * N) /\ 2 * k \in 1..(2 * N) /\ (2 * k - 1) + 1 = 2 * k
        BY <1>1, <2>1, AllRead
    <2>3. \A j \in 1..Total : j % 2 = 1 =>
             /\ Both(j)[3] = "x"
             /\ j < Total => Both(j + 1) = <<Both(j)[1], Both(j)[2], "y">>
        BY <1>1, <2>1 DEF PairInv, AtEnd
    <2>4. /\ Both(2 * k - 1)[3] = "x"
          /\ Both(2 * k) = <<Both(2 * k - 1)[1], Both(2 * k - 1)[2], "y">>
        BY <2>2, <2>3
    <2>5. Both(2 * k - 1) = msg[2 * k - 1] /\ Both(2 * k) = msg[2 * k]
        BY <1>1, <2>1, <2>2, AllRead
    <2>6. QED
        BY <2>4, <2>5
<1>2. IInv => TbtPairs
    BY <1>1 DEF IInv
<1>3. QED
    BY <1>2, Inductive, PTL

\* A word of tbt2fifo.vhd is sent by the pass of livedata.c in which it was
\* written or by the next one.
THEOREM OnePassOldOnly == Spec => []OnePassOld
<1>1. ASSUME TypeOK, AgeInv
      PROVE  OnePassOld
    <2>1. pass \in 0..2
        BY <1>1 DEF TypeOK, Passes
    <2>2. (pass + 2) % 3 # (pass + 1) % 3 /\ pass # (pass + 1) % 3
        BY <2>1
    <2>3. QED
        BY <1>1, <2>2 DEF AgeInv, OnePassOld
<1>2. IInv => OnePassOld
    BY <1>1 DEF IInv
<1>3. QED
    BY <1>2, Inductive, PTL
=============================================================================
