-------------------------- MODULE SpiMasterProofs --------------------------
(***************************************************************************)
(* The SPI masters of SpiMaster, for every number of clients and thermistor*)
(* chips, every set of ADC words and of attenuations.                      *)
(*                                                                         *)
(* First what the programs of the threads are made of, place by place: a   *)
(* program waits after every word and reads only after a query and a wait  *)
(* (Paced); the thermistor thread's program follows ThermRule at each of   *)
(* its steps.  Then the invariant and its preservation, action by action.  *)
(***************************************************************************)
EXTENDS SpiMaster, TLAPS, SequenceTheorems

(***************************************************************************)
(* Programs that are put together from pieces.                             *)
(***************************************************************************)

\* A function on 1..n is a sequence.
LEMMA SeqOf ==
  ASSUME NEW S, NEW n \in Nat, NEW f \in [1..n -> S]
  PROVE  f \in Seq(S) /\ Len(f) = n
<1>1. f \in Seq(S)
  BY SeqDef
<1>2. Len(f) \in Nat /\ 1..Len(f) = 1..n
  BY <1>1, LenProperties
<1>3. QED
  BY <1>1, <1>2

\* What stands where in two sequences, one after the other.
LEMMA Join ==
  ASSUME NEW S, NEW s \in Seq(S), NEW t \in Seq(S)
  PROVE  /\ s \o t \in Seq(S)
         /\ Len(s \o t) = Len(s) + Len(t)
         /\ \A p \in 1..Len(s) : (s \o t)[p] = s[p]
         /\ \A p \in 1..Len(t) : (s \o t)[Len(s) + p] = t[p]
<1>1. Len(s) \in Nat /\ Len(t) \in Nat
  BY LenProperties
<1>2. /\ s \o t \in Seq(S) /\ Len(s \o t) = Len(s) + Len(t)
      /\ \A p \in 1..(Len(s) + Len(t)) :
           (s \o t)[p] = IF p <= Len(s) THEN s[p] ELSE t[p - Len(s)]
  BY ConcatProperties
<1>3. QED
  BY <1>1, <1>2

Wait == {Usleep, Op("delay")}
Instr == {Write(w) : w \in WordSet} \cup {Select(c) : c \in 0..(Chips - 1)}
         \cup Wait \cup {ReadData, Op("send")}

\* A program waits after every word, and reads after a query and a wait.
Paced(P) ==
  /\ P \in Seq(Instr)
  /\ \A i \in 1..Len(P) :
       /\ P[i].op = "write" => i < Len(P) /\ P[i + 1] \in Wait
       /\ P[i].op = "read" =>
            i > 2 /\ P[i - 1] = Usleep /\ P[i - 2].op = "write" /\ P[i - 2].word.rd

\* A program that does nothing but write, wait and read, and asks for registers
\* of A only.
Tame(P, A) ==
  /\ Paced(P) /\ Len(P) >= 1
  /\ \A i \in 1..Len(P) :
       /\ P[i].op \in {"write", "usleep", "read"}
       /\ P[i].op = "write" /\ P[i].word.rd => P[i].word.at \in A

\* The kinds of steps differ.
LEMMA InstrOps ==
  /\ \A w : Write(w).op = "write" /\ Write(w).word = w
  /\ \A c : Select(c).op = "select" /\ Select(c).chip = c
  /\ \A o : Op(o).op = o
  /\ Usleep = Op("usleep") /\ ReadData = Op("read")
BY DEF Write, Select, Op, Usleep, ReadData

\* Words and queries.
LEMMA WordTypes ==
  /\ \A r, v : Word(r, v).rd = FALSE /\ Word(r, v).at = r /\ Word(r, v).val = v
  /\ \A r : Query(r).rd = TRUE /\ Query(r).at = r
  /\ \A r, v \in 0..255 : Word(r, v) \in WordSet
  /\ \A r \in 0..255 : Query(r) \in WordSet
<1>1. /\ \A r, v : Word(r, v).rd = FALSE /\ Word(r, v).at = r /\ Word(r, v).val = v
      /\ \A r : Query(r).rd = TRUE /\ Query(r).at = r
  BY Zenon DEF Word, Query
<1>2. \A r, v \in 0..255 : Word(r, v) \in WordSet
  BY DEF Word, WordSet
<1>3. \A r \in 0..255 : Query(r) \in WordSet
  BY DEF Query, WordSet
<1>4. QED
  BY <1>1, <1>2, <1>3

\* Paced programs, one after the other, are paced.
LEMMA PacedJoin ==
  ASSUME NEW P, NEW Q, Paced(P), Paced(Q)
  PROVE  /\ Paced(P \o Q) /\ Len(P \o Q) = Len(P) + Len(Q)
         /\ \A i \in 1..Len(P) : (P \o Q)[i] = P[i]
         /\ \A i \in 1..Len(Q) : (P \o Q)[Len(P) + i] = Q[i]
<1> DEFINE J == P \o Q
<1>1. P \in Seq(Instr) /\ Q \in Seq(Instr)
  BY DEF Paced
<1>2. Len(P) \in Nat /\ Len(Q) \in Nat
  BY <1>1, LenProperties
<1>3. /\ J \in Seq(Instr) /\ Len(J) = Len(P) + Len(Q)
      /\ \A p \in 1..Len(P) : J[p] = P[p]
      /\ \A p \in 1..Len(Q) : J[Len(P) + p] = Q[p]
  BY <1>1, Join
<1> HIDE DEF J
<1>4. ASSUME NEW i \in 1..Len(J)
      PROVE  /\ J[i].op = "write" => i < Len(J) /\ J[i + 1] \in Wait
             /\ J[i].op = "read" =>
                  i > 2 /\ J[i - 1] = Usleep /\ J[i - 2].op = "write" /\ J[i - 2].word.rd
  <2>1. CASE i \in 1..Len(P)
    <3>1. J[i] = P[i]
      BY <1>3, <2>1
    <3>2. ASSUME J[i].op = "write" PROVE i < Len(J) /\ J[i + 1] \in Wait
      <4>1. i < Len(P) /\ P[i + 1] \in Wait
        BY <2>1, <3>1, <3>2 DEF Paced
      <4>2. i + 1 \in 1..Len(P)
        BY <1>2, <2>1, <4>1
      <4>3. J[i + 1] = P[i + 1]
        BY <1>3, <4>2
      <4>4. QED
        BY <1>2, <1>3, <4>1, <4>3
    <3>3. ASSUME J[i].op = "read"
          PROVE  i > 2 /\ J[i - 1] = Usleep /\ J[i - 2].op = "write" /\ J[i - 2].word.rd
      <4>1. i > 2 /\ P[i - 1] = Usleep /\ P[i - 2].op = "write" /\ P[i - 2].word.rd
        BY <2>1, <3>1, <3>3 DEF Paced
      <4>2. i - 1 \in 1..Len(P) /\ i - 2 \in 1..Len(P)
        BY <1>2, <2>1, <4>1
      <4>3. J[i - 1] = P[i - 1] /\ J[i - 2] = P[i - 2]
        BY <1>3, <4>2
      <4>4. QED
        BY <4>1, <4>3
    <3>4. QED
      BY <3>2, <3>3
  <2>2. CASE i \notin 1..Len(P)
    <3> DEFINE k == i - Len(P)
    <3>1. k \in 1..Len(Q) /\ i = Len(P) + k
      BY <1>2, <1>3, <2>2
    <3> HIDE DEF k
    <3>2. J[i] = Q[k]
      BY <1>3, <3>1
    <3>3. ASSUME J[i].op = "write" PROVE i < Len(J) /\ J[i + 1] \in Wait
      <4>1. k < Len(Q) /\ Q[k + 1] \in Wait
        BY <3>1, <3>2, <3>3 DEF Paced
      <4>2. k + 1 \in 1..Len(Q) /\ i + 1 = Len(P) + (k + 1) /\ i < Len(J)
        BY <1>2, <1>3, <3>1, <4>1
      <4>3. J[i + 1] = Q[k + 1]
        BY <1>3, <4>2
      <4>4. QED
        BY <4>1, <4>2, <4>3
    <3>4. ASSUME J[i].op = "read"
          PROVE  i > 2 /\ J[i - 1] = Usleep /\ J[i - 2].op = "write" /\ J[i - 2].word.rd
      <4>1. k > 2 /\ Q[k - 1] = Usleep /\ Q[k - 2].op = "write" /\ Q[k - 2].word.rd
        BY <3>1, <3>2, <3>4 DEF Paced
      <4>2. /\ k - 1 \in 1..Len(Q) /\ k - 2 \in 1..Len(Q) /\ i > 2
            /\ i - 1 = Len(P) + (k - 1) /\ i - 2 = Len(P) + (k - 2)
        BY <1>2, <3>1, <4>1
      <4>3. J[i - 1] = Q[k - 1] /\ J[i - 2] = Q[k - 2]
        BY <1>3, <4>2
      <4>4. QED
        BY <4>1, <4>2, <4>3
    <3>5. QED
      BY <3>3, <3>4
  <2>3. QED
    BY <2>1, <2>2
<1>5. QED
  BY <1>3, <1>4 DEF Paced, J

\* Every word of W, with its wait.
LEMMA EachSteps ==
  ASSUME NEW W \in Seq((0..255) \X (0..255))
  PROVE  /\ Paced(Each(W)) /\ Len(Each(W)) = 2 * Len(W)
         /\ \A j \in 1..Len(W) :
              /\ Each(W)[2 * j - 1] = Write(Word(W[j][1], W[j][2]))
              /\ Each(W)[2 * j] = Usleep
<1> DEFINE P == Each(W)
           n == Len(W)
<1>1. n \in Nat /\ \A j \in 1..n : W[j][1] \in 0..255 /\ W[j][2] \in 0..255
  BY LenProperties, ElementOfSeq
<1>2. P = [i \in 1..(2 * n) |->
             IF i % 2 = 1 THEN Write(Word(W[(i + 1) \div 2][1], W[(i + 1) \div 2][2]))
             ELSE Usleep]
  BY DEF Each
<1> HIDE DEF P, n
<1>3. ASSUME NEW j \in 1..n
      PROVE  P[2 * j - 1] = Write(Word(W[j][1], W[j][2])) /\ P[2 * j] = Usleep
  <2>1. /\ 2 * j - 1 \in 1..(2 * n) /\ 2 * j \in 1..(2 * n)
        /\ (2 * j - 1) % 2 = 1 /\ (2 * j) % 2 # 1 /\ (2 * j - 1 + 1) \div 2 = j
    BY <1>1
  <2>2. QED
    BY <1>2, <2>1
<1>4. \A i \in 1..(2 * n) : \E j \in 1..n : i = 2 * j - 1 \/ i = 2 * j
  <2> TAKE i \in 1..(2 * n)
  <2>1. (i + 1) \div 2 \in 1..n
    BY <1>1
  <2>2. i = 2 * ((i + 1) \div 2) - 1 \/ i = 2 * ((i + 1) \div 2)
    BY <1>1
  <2>3. QED
    BY <2>1, <2>2
<1>5. \A j \in 1..n : Write(Word(W[j][1], W[j][2])) \in Instr
  BY <1>1, WordTypes DEF Instr
<1>6. Usleep \in Instr /\ Usleep \in Wait
  BY DEF Instr, Wait
<1>7. \A i \in 1..(2 * n) : P[i] \in Instr
  BY <1>3, <1>4, <1>5, <1>6
<1>8. P \in Seq(Instr) /\ Len(P) = 2 * n
  <2>1. P \in [1..(2 * n) -> Instr] /\ 2 * n \in Nat
    BY <1>1, <1>2, <1>7
  <2>2. QED
    BY <2>1, SeqOf
<1>9. ASSUME NEW i \in 1..(2 * n)
      PROVE  /\ P[i].op = "write" => i < 2 * n /\ P[i + 1] \in Wait
             /\ P[i].op # "read"
  <2>1. PICK j \in 1..n : i = 2 * j - 1 \/ i = 2 * j
    BY <1>4
  <2>2. CASE i = 2 * j - 1
    <3>1. i < 2 * n /\ i + 1 = 2 * j
      BY <1>1, <2>2
    <3>2. QED
      BY <1>3, <1>6, <2>2, <3>1, InstrOps
  <2>3. CASE i = 2 * j
    BY <1>3, <2>3, InstrOps
  <2>4. QED
    BY <2>1, <2>2, <2>3
<1>10. Paced(P)
  BY <1>8, <1>9 DEF Paced
<1>11. QED
  BY <1>3, <1>8, <1>10 DEF P, n

\* So are tame ones tame.
LEMMA TameJoin ==
  ASSUME NEW A, NEW P, NEW Q, Tame(P, A), Tame(Q, A)
  PROVE  Tame(P \o Q, A)
<1> DEFINE J == P \o Q
<1>1. /\ Paced(J) /\ Len(J) = Len(P) + Len(Q)
      /\ \A i \in 1..Len(P) : J[i] = P[i]
      /\ \A i \in 1..Len(Q) : J[Len(P) + i] = Q[i]
  BY PacedJoin DEF Tame
<1>2. Len(P) \in Nat /\ Len(Q) \in Nat
  BY LenProperties DEF Tame, Paced
<1> HIDE DEF J
<1>3. ASSUME NEW i \in 1..Len(J)
      PROVE  /\ J[i].op \in {"write", "usleep", "read"}
             /\ J[i].op = "write" /\ J[i].word.rd => J[i].word.at \in A
  <2>1. CASE i \in 1..Len(P)
    BY <1>1, <2>1 DEF Tame
  <2>2. CASE i \notin 1..Len(P)
    <3>1. i - Len(P) \in 1..Len(Q) /\ i = Len(P) + (i - Len(P))
      BY <1>1, <1>2, <2>2
    <3>2. J[i] = Q[i - Len(P)]
      BY <1>1, <3>1
    <3>3. QED
      BY <3>1, <3>2 DEF Tame
  <2>3. QED
    BY <2>1, <2>2
<1>4. QED
  BY <1>1, <1>3 DEF Tame, J

\* The pieces of which the programs for the ADCs are made.
LEMMA TamePieces ==
  ASSUME NEW A
  PROVE  /\ Tame(<<Usleep>>, A)
         /\ \A w \in WordSet : (w.rd => w.at \in A) => Tame(<<Write(w), Usleep>>, A)
         /\ \A r \in A \cap (0..255) : Tame(ReadBack(r), A)
<1>1. Usleep \in Instr /\ Usleep \in Wait /\ Usleep.op = "usleep" /\ ReadData \in Instr
      /\ ReadData.op = "read"
  BY InstrOps DEF Instr, Wait
<1>2. Tame(<<Usleep>>, A)
  <2> DEFINE P == <<Usleep>>
  <2>1. P \in Seq(Instr) /\ Len(P) = 1 /\ P[1] = Usleep
    BY <1>1
  <2> HIDE DEF P
  <2>2. QED
    BY <1>1, <2>1 DEF Tame, Paced, P
<1>3. ASSUME NEW w \in WordSet, w.rd => w.at \in A
      PROVE  Tame(<<Write(w), Usleep>>, A)
  <2> DEFINE P == <<Write(w), Usleep>>
  <2>1. Write(w) \in Instr
    BY DEF Instr
  <2>2. P \in Seq(Instr) /\ Len(P) = 2 /\ P[1] = Write(w) /\ P[2] = Usleep
    BY <1>1, <2>1
  <2> HIDE DEF P
  <2>3. \A i \in 1..2 : i = 1 \/ i = 2
    OBVIOUS
  <2>4. P[1].op = "write" /\ P[1].word = w
    BY <2>2, InstrOps
  <2>5. Paced(P)
    BY <1>1, <2>2, <2>3, <2>4 DEF Paced
  <2>6. QED
    BY <1>1, <1>3, <2>2, <2>3, <2>4, <2>5 DEF Tame, P
<1>4. ASSUME NEW r \in A \cap (0..255)
      PROVE  Tame(ReadBack(r), A)
  <2> DEFINE P == ReadBack(r)
  <2>1. Write(Query(r)) \in Instr
    BY WordTypes DEF Instr
  <2>2. P \in Seq(Instr) /\ Len(P) = 3
        /\ P[1] = Write(Query(r)) /\ P[2] = Usleep /\ P[3] = ReadData
    BY <1>1, <2>1 DEF ReadBack
  <2> HIDE DEF P
  <2>3. \A i \in 1..3 : i = 1 \/ i = 2 \/ i = 3
    OBVIOUS
  <2>4. P[1].op = "write" /\ P[1].word = Query(r) /\ Query(r).rd = TRUE /\ Query(r).at = r
    BY <2>2, InstrOps, WordTypes
  <2>5. Paced(P)
    <3>1. P[2].op = "usleep" /\ P[3].op = "read"
      BY <1>1, <2>2
    <3>2. P[3 - 2].op = "write" /\ P[3 - 2].word.rd /\ P[3 - 1] = Usleep
      BY <2>2, <2>4
    <3>3. \A i \in 1..3 : P[i].op = "write" => i = 1
      BY <2>3, <3>1
    <3>4. \A i \in 1..3 : P[i].op = "read" => i = 3
      BY <2>3, <2>4, <3>1
    <3>5. P[1 + 1] \in Wait
      BY <1>1, <2>2
    <3>6. QED
      BY <2>2, <3>2, <3>3, <3>4, <3>5 DEF Paced
  <2>6. \A i \in 1..Len(P) :
          /\ P[i].op \in {"write", "usleep", "read"}
          /\ P[i].op = "write" /\ P[i].word.rd => P[i].word.at \in A
    BY <1>1, <2>2, <2>3, <2>4
  <2>7. QED
    BY <2>2, <2>5, <2>6 DEF Tame, P
<1>5. QED
  BY <1>2, <1>3, <1>4

\* Words that are each followed by a wait.
LEMMA TameEach ==
  ASSUME NEW A, NEW W \in Seq((0..255) \X (0..255)), Len(W) >= 1
  PROVE  Tame(Each(W), A)
<1>1. /\ Paced(Each(W)) /\ Len(Each(W)) = 2 * Len(W) /\ Len(W) \in Nat
      /\ \A j \in 1..Len(W) :
            /\ Each(W)[2 * j - 1] = Write(Word(W[j][1], W[j][2]))
            /\ Each(W)[2 * j] = Usleep
  BY EachSteps, LenProperties
<1>2. ASSUME NEW i \in 1..Len(Each(W))
      PROVE  /\ Each(W)[i].op \in {"write", "usleep", "read"}
             /\ Each(W)[i].op = "write" /\ Each(W)[i].word.rd => Each(W)[i].word.at \in A
  <2>1. \E j \in 1..Len(W) : i = 2 * j - 1 \/ i = 2 * j
    <3>1. i \in 1..(2 * Len(W)) /\ Len(W) \in Nat
      BY <1>1
    <3>2. (i + 1) \div 2 \in 1..Len(W)
      BY ONLY <3>1
    <3>3. i = 2 * ((i + 1) \div 2) - 1 \/ i = 2 * ((i + 1) \div 2)
      BY ONLY <3>1
    <3>4. QED
      BY <3>2, <3>3
  <2>2. PICK j \in 1..Len(W) : i = 2 * j - 1 \/ i = 2 * j
    BY <2>1
  <2>3. CASE i = 2 * j
    BY <1>1, <2>3, InstrOps
  <2>4. CASE i = 2 * j - 1
    <3>1. Each(W)[i] = Write(Word(W[j][1], W[j][2]))
      BY <1>1, <2>4
    <3>2. Each(W)[i].op = "write" /\ Each(W)[i].word = Word(W[j][1], W[j][2])
      BY <3>1, InstrOps
    <3>3. Word(W[j][1], W[j][2]).rd = FALSE
      BY DEF Word
    <3>4. Each(W)[i].word.rd = FALSE
      BY Zenon, <3>2, <3>3
    <3>5. QED
      BY Zenon, <3>2, <3>4
  <2>5. QED
    BY <2>2, <2>3, <2>4
<1>3. QED
  BY <1>1, <1>2 DEF Tame

\* adc_spi, for every word of a client.
LEMMA AdcSpiTame ==
  ASSUME NEW A, NEW r \in 0..255, NEW v \in 0..255, AdcReg(r) \in A
  PROVE  Tame(AdcSpi(r, v), A)
<1>1. AdcReg(r) \in 0..255
  BY DEF AdcReg
<1>2. Tame(<<ToAdc(r, v), Usleep>>, A)
  <2> DEFINE w == IF r < 128 THEN Word(r, v) ELSE Query(AdcReg(r))
  <2>1. w \in WordSet
    BY <1>1, WordTypes
  <2>2. w.rd => w.at \in A
    BY WordTypes
  <2>3. ToAdc(r, v) = Write(w)
    BY DEF ToAdc
  <2> HIDE DEF w
  <2>4. QED
    BY <2>1, <2>2, <2>3, TamePieces
<1>3. Tame(ReadBack(AdcReg(r)), A) /\ Tame(<<Usleep>>, A)
  BY <1>1, TamePieces
<1> DEFINE P == <<ToAdc(r, v), Usleep>>
           Q == ReadBack(AdcReg(r))
           U == <<Usleep>>
<1>4. AdcSpi(r, v) = ((P \o Q) \o U) \o Q
  BY Zenon DEF AdcSpi
<1> HIDE DEF P, Q, U
<1>5. Tame(P, A) /\ Tame(Q, A) /\ Tame(U, A)
  BY <1>2, <1>3 DEF P, Q, U
<1>6. Tame(P \o Q, A)
  BY <1>5, TameJoin
<1>7. Tame((P \o Q) \o U, A)
  BY <1>5, <1>6, TameJoin
<1>8. Tame(((P \o Q) \o U) \o Q, A)
  BY <1>5, <1>7, TameJoin
<1>9. QED
  BY <1>4, <1>8

\* ltc2195_init.
LEMMA InitTame ==
  ASSUME NEW A, {1, 3, 4} \subseteq A
  PROVE  Tame(ltc2195_init, A)
<1>1. AdcReg(1) \in A /\ AdcReg(4) \in A
  <2>1. \A r \in 0..127 : r % 128 = r
    OBVIOUS
  <2>2. AdcReg(1) = 1 /\ AdcReg(4) = 4
    BY <2>1 DEF AdcReg
  <2>3. QED
    BY <2>2
<1>2. Tame(AdcSpi(1, \h20), A) /\ Tame(AdcSpi(4, 0), A)
  <2>1. 1 \in 0..255 /\ \h20 \in 0..255 /\ 4 \in 0..255 /\ 0 \in 0..255
    OBVIOUS
  <2>2. Tame(AdcSpi(1, \h20), A)
    BY Zenon, <1>1, <2>1, AdcSpiTame
  <2>3. Tame(AdcSpi(4, 0), A)
    BY Zenon, <1>1, <2>1, AdcSpiTame
  <2>4. QED
    BY <2>2, <2>3
<1>3. Tame(Each(<< <<3, \h01>> >>), A) /\ Tame(Each(<< <<2, 1>> >>), A)
  <2>1. /\ << <<3, \h01>> >> \in Seq((0..255) \X (0..255))
        /\ << <<2, 1>> >> \in Seq((0..255) \X (0..255))
        /\ Len(<< <<3, \h01>> >>) >= 1 /\ Len(<< <<2, 1>> >>) >= 1
    OBVIOUS
  <2>2. QED
    BY Zenon, <2>1, TameEach
<1>4. Tame(ReadBack(3), A)
  BY TamePieces
<1> DEFINE P1 == AdcSpi(1, \h20)
           P2 == Each(<< <<3, \h01>> >>)
           P3 == ReadBack(3)
           P4 == AdcSpi(4, 0)
           P5 == Each(<< <<2, 1>> >>)
<1>5. ltc2195_init = (((P1 \o P2) \o P3) \o P4) \o P5
  BY Zenon DEF ltc2195_init
<1> HIDE DEF P1, P2, P3, P4, P5
<1>6. Tame(P1, A) /\ Tame(P2, A) /\ Tame(P3, A) /\ Tame(P4, A) /\ Tame(P5, A)
  BY <1>2, <1>3, <1>4 DEF P1, P2, P3, P4, P5
<1>7. Tame(P1 \o P2, A)
  BY <1>6, TameJoin
<1>8. Tame((P1 \o P2) \o P3, A)
  BY <1>6, <1>7, TameJoin
<1>9. Tame(((P1 \o P2) \o P3) \o P4, A)
  BY <1>6, <1>8, TameJoin
<1>10. Tame((((P1 \o P2) \o P3) \o P4) \o P5, A)
  BY <1>6, <1>9, TameJoin
<1>11. QED
  BY <1>5, <1>10

(***************************************************************************)
(* The words of the clock chip: 32 different registers, the update last.   *)
(***************************************************************************)

Byte == 0..255
Pair == Byte \X Byte

\* The settings of the clock chip are words of two bytes.
LEMMA PllSetupSeq ==
  PllSetup \in Seq(Pair) /\ Len(PllSetup) = 31
BY DEF PllSetup, Byte, Pair

\* Their registers.
LEMMA PllSetupWords ==
  /\ PllSetup[1][1] = 0 /\ PllSetup[2][1] = 88 /\ PllSetup[3][1] = 69 /\ PllSetup[4][1] = 60
  /\ PllSetup[5][1] = 75 /\ PllSetup[6][1] = 61 /\ PllSetup[7][1] = 73 /\ PllSetup[8][1] = 62
  /\ PllSetup[9][1] = 77 /\ PllSetup[10][1] = 63 /\ PllSetup[11][1] = 79 /\ PllSetup[12][1] = 64
  /\ PllSetup[13][1] = 81 /\ PllSetup[14][1] = 65 /\ PllSetup[15][1] = 83 /\ PllSetup[16][1] = 66
  /\ PllSetup[17][1] = 85 /\ PllSetup[18][1] = 56 /\ PllSetup[19][1] = 57 /\ PllSetup[20][1] = 58
  /\ PllSetup[21][1] = 67 /\ PllSetup[22][1] = 87 /\ PllSetup[23][1] = 4 /\ PllSetup[24][1] = 5
  /\ PllSetup[25][1] = 6 /\ PllSetup[26][1] = 8 /\ PllSetup[27][1] = 9 /\ PllSetup[28][1] = 10
  /\ PllSetup[29][1] = 11 /\ PllSetup[30][1] = 12 /\ PllSetup[31][1] = 13
BY DEF PllSetup, Byte, Pair

\* No register is set twice.
LEMMA PllDistinct ==
  /\ \A i, j \in 1..31 : PllSetup[i][1] = PllSetup[j][1] => i = j
  /\ \A i \in 1..31 : PllSetup[i][1] # 90
<1> DEFINE Place(r) == CASE r = 0 -> 1
          [] r = 88 -> 2
          [] r = 69 -> 3
          [] r = 60 -> 4
          [] r = 75 -> 5
          [] r = 61 -> 6
          [] r = 73 -> 7
          [] r = 62 -> 8
          [] r = 77 -> 9
          [] r = 63 -> 10
          [] r = 79 -> 11
          [] r = 64 -> 12
          [] r = 81 -> 13
          [] r = 65 -> 14
          [] r = 83 -> 15
          [] r = 66 -> 16
          [] r = 85 -> 17
          [] r = 56 -> 18
          [] r = 57 -> 19
          [] r = 58 -> 20
          [] r = 67 -> 21
          [] r = 87 -> 22
          [] r = 4 -> 23
          [] r = 5 -> 24
          [] r = 6 -> 25
          [] r = 8 -> 26
          [] r = 9 -> 27
          [] r = 10 -> 28
          [] r = 11 -> 29
          [] r = 12 -> 30
          [] r = 13 -> 31
<1>1. \A i \in 1..31 : \/ i = 1 \/ i = 2 \/ i = 3 \/ i = 4 \/ i = 5 \/ i = 6 \/ i = 7 \/ i = 8
                       \/ i = 9 \/ i = 10 \/ i = 11 \/ i = 12 \/ i = 13 \/ i = 14 \/ i = 15
                       \/ i = 16 \/ i = 17 \/ i = 18 \/ i = 19 \/ i = 20 \/ i = 21 \/ i = 22
                       \/ i = 23 \/ i = 24 \/ i = 25 \/ i = 26 \/ i = 27 \/ i = 28 \/ i = 29
                       \/ i = 30 \/ i = 31
  OBVIOUS
<1>2. \A i \in 1..31 : PllSetup[i][1] # 90
  BY <1>1, PllSetupWords
<1>3. \A i \in 1..31 : Place(PllSetup[i][1]) = i
  BY <1>1, PllSetupWords
<1> HIDE DEF Place
<1>4. QED
  BY <1>2, <1>3

\* A sequence and one element more.
LEMMA Appended ==
  ASSUME NEW S, NEW s \in Seq(S), NEW e \in S
  PROVE  /\ Append(s, e) \in Seq(S) /\ Len(Append(s, e)) = Len(s) + 1
         /\ \A j \in 1..Len(s) : Append(s, e)[j] = s[j]
         /\ Append(s, e)[Len(s) + 1] = e
BY AppendProperties

\* With the update at the end they are 32 words for different registers.
LEMMA PllSteps ==
  LET W == PllWords(PllSetup) IN
  /\ W \in Seq(Pair) /\ Len(W) = 32
  /\ \A j \in 1..31 : W[j] = PllSetup[j]
  /\ W[32] = Update
  /\ \A i, j \in 1..32 : W[i][1] = W[j][1] => i = j
<1> DEFINE W == PllWords(PllSetup)
<1>1. Update \in Pair /\ Update[1] = 90
  BY DEF Update, Byte, Pair
<1>2. PllSetup \in Seq(Pair) /\ Len(PllSetup) = 31
  BY PllSetupSeq
<1>3. /\ W \in Seq(Pair) /\ Len(W) = 32
      /\ \A j \in 1..31 : W[j] = PllSetup[j]
      /\ W[32] = Update
  <2>1. W = Append(PllSetup, Update)
    BY DEF PllWords
  <2>2. /\ W \in Seq(Pair) /\ Len(W) = Len(PllSetup) + 1
        /\ \A j \in 1..Len(PllSetup) : W[j] = PllSetup[j]
        /\ W[Len(PllSetup) + 1] = Update
    <3> HIDE DEF W
    <3>1. Update \in Pair /\ PllSetup \in Seq(Pair)
      BY <1>1, <1>2
    <3>2. /\ Append(PllSetup, Update) \in Seq(Pair)
          /\ Len(Append(PllSetup, Update)) = Len(PllSetup) + 1
          /\ \A j \in 1..Len(PllSetup) : Append(PllSetup, Update)[j] = PllSetup[j]
          /\ Append(PllSetup, Update)[Len(PllSetup) + 1] = Update
      BY ONLY <3>1, Appended
    <3>3. QED
      BY <2>1, <3>2
  <2>3. QED
    BY <1>2, <2>2
<1> HIDE DEF W
<1>4. \A i, j \in 1..32 : W[i][1] = W[j][1] => i = j
  <2>1. \A i \in 1..31 : W[i][1] # 90 /\ W[32][1] = 90
    <3>1. W[32][1] = 90
      BY <1>1, <1>3
    <3>2. \A i \in 1..31 : W[i][1] = PllSetup[i][1]
      BY <1>3
    <3>3. QED
      BY <3>1, <3>2, PllDistinct
  <2>2. \A i \in 1..32 : i # 32 => i \in 1..31
    OBVIOUS
  <2>3. \A i, j \in 1..31 : W[i][1] = W[j][1] => i = j
    <3>1. \A i \in 1..31 : W[i][1] = PllSetup[i][1]
      BY <1>3
    <3>2. QED
      BY <3>1, PllDistinct
  <2>4. TAKE i, j \in 1..32
  <2>5. HAVE W[i][1] = W[j][1]
  <2>6. CASE i = 32
    BY <2>1, <2>2, <2>5, <2>6
  <2>7. CASE i # 32
    <3>1. i \in 1..31
      BY <2>2, <2>7
    <3>2. j \in 1..31
      BY <2>1, <2>2, <2>5, <3>1
    <3>3. QED
      BY <2>3, <2>5, <3>1, <3>2
  <2>8. QED
    BY <2>6, <2>7
<1>5. QED
  BY <1>3, <1>4 DEF W

(***************************************************************************)
(* The thermistors' programs: the settings and the rounds of one chip.     *)
(***************************************************************************)

\* The result registers are apart from those that are written.
LEMMA ResultRegs ==
  /\ \A ch \in {4, 6}, b \in 1..3 : Result[ch][b] \in 29..39
  /\ \A ch \in {4, 6}, b \in 1..3 : Result[ch][b] \in 0..255
<1>1. \A b \in 1..3 : b = 1 \/ b = 2 \/ b = 3
  OBVIOUS
<1>2. /\ Result[4] = <<31, 30, 29>>
      /\ Result[6] = <<39, 38, 37>>
  BY DEF Result
<1>3. \A ch \in {4, 6}, b \in 1..3 : Result[ch][b] \in 29..39
  BY <1>1, <1>2
<1>4. QED
  BY <1>3

\* A query, a wait, a read.
LEMMA ReadBackSteps ==
  ASSUME NEW r \in 0..255
  PROVE  /\ ReadBack(r) \in Seq(Instr) /\ Len(ReadBack(r)) = 3
         /\ ReadBack(r)[1] = Write(Query(r)) /\ ReadBack(r)[2] = Usleep
         /\ ReadBack(r)[3] = ReadData
<1>1. Write(Query(r)) \in Instr /\ Usleep \in Instr /\ ReadData \in Instr
  BY WordTypes DEF Instr, Wait
<1>2. QED
  BY <1>1 DEF ReadBack

\* J is s, of length m, followed by t, of length n.
IsJoin(J, s, t, m, n) ==
  /\ J \in Seq(Instr) /\ Len(J) = m + n
  /\ \A p \in 1..m : J[p] = s[p]
  /\ \A p \in 1..n : J[m + p] = t[p]

\* A concatenation is one.
LEMMA Joined ==
  ASSUME NEW s \in Seq(Instr), NEW t \in Seq(Instr)
  PROVE  IsJoin(s \o t, s, t, Len(s), Len(t))
BY Join DEF IsJoin

\* A conversion, and its three bytes.
LEMMA ChannelSteps ==
  ASSUME NEW ch \in {4, 6}
  PROVE  LET P == ReadChannel(ch) IN
         /\ P \in Seq(Instr) /\ Len(P) = 11
         /\ P[1] = Write(Word(Start, ch)) /\ P[2] = Op("delay")
         /\ \A b \in 1..3 : /\ P[3 * b] = Write(Query(Result[ch][b]))
                            /\ P[3 * b + 1] = Usleep /\ P[3 * b + 2] = ReadData
<1> DEFINE H == <<Write(Word(Start, ch)), Op("delay")>>
           R1 == ReadBack(Result[ch][1])
           R2 == ReadBack(Result[ch][2])
           R3 == ReadBack(Result[ch][3])
           Q == H \o R1
           S == Q \o R2
           P == ReadChannel(ch)
<1>1. P = S \o R3
  BY Zenon DEF ReadChannel
<1>2. H \in Seq(Instr) /\ Len(H) = 2 /\ H[1] = Write(Word(Start, ch)) /\ H[2] = Op("delay")
  <2>1. Start \in 0..255 /\ ch \in 0..255
    BY DEF Start
  <2>2. Word(Start, ch) \in WordSet
    BY <2>1, WordTypes
  <2>3. Write(Word(Start, ch)) \in Instr /\ Op("delay") \in Instr
    BY <2>2 DEF Instr, Wait
  <2>4. QED
    BY <2>3
<1>3. /\ R1 \in Seq(Instr) /\ Len(R1) = 3 /\ R1[1] = Write(Query(Result[ch][1]))
      /\ R1[2] = Usleep /\ R1[3] = ReadData
  <2>1. Result[ch][1] \in 0..255
    BY ResultRegs
  <2>2. QED
    BY <2>1, ReadBackSteps
<1>4. /\ R2 \in Seq(Instr) /\ Len(R2) = 3 /\ R2[1] = Write(Query(Result[ch][2]))
      /\ R2[2] = Usleep /\ R2[3] = ReadData
  <2>1. Result[ch][2] \in 0..255
    BY ResultRegs
  <2>2. QED
    BY <2>1, ReadBackSteps
<1>5. /\ R3 \in Seq(Instr) /\ Len(R3) = 3 /\ R3[1] = Write(Query(Result[ch][3]))
      /\ R3[2] = Usleep /\ R3[3] = ReadData
  <2>1. Result[ch][3] \in 0..255
    BY ResultRegs
  <2>2. QED
    BY <2>1, ReadBackSteps
<1>6. Q = H \o R1 /\ S = Q \o R2
  OBVIOUS
<1> HIDE DEF H, R1, R2, R3, Q, S, P
<1>7. IsJoin(Q, H, R1, 2, 3)
  <2>1. H \in Seq(Instr) /\ R1 \in Seq(Instr) /\ Len(H) = 2 /\ Len(R1) = 3
    BY <1>2, <1>3 DEF IsJoin
  <2>2. IsJoin(H \o R1, H, R1, Len(H), Len(R1))
    BY Zenon, <2>1, Joined
  <2>3. QED
    BY <2>1, <2>2, <1>6
<1>8. IsJoin(S, Q, R2, 5, 3)
  <2>1. Q \in Seq(Instr) /\ R2 \in Seq(Instr) /\ Len(Q) = 5 /\ Len(R2) = 3
    BY <1>4, <1>7 DEF IsJoin
  <2>2. IsJoin(Q \o R2, Q, R2, Len(Q), Len(R2))
    BY Zenon, <2>1, Joined
  <2>3. QED
    BY <2>1, <2>2, <1>6
<1>9. IsJoin(P, S, R3, 8, 3)
  <2>1. S \in Seq(Instr) /\ R3 \in Seq(Instr) /\ Len(S) = 8 /\ Len(R3) = 3
    BY <1>5, <1>8 DEF IsJoin
  <2>2. IsJoin(S \o R3, S, R3, Len(S), Len(R3))
    BY Zenon, <2>1, Joined
  <2>3. QED
    BY <2>1, <2>2, <1>1
<1>10. /\ Q[1] = H[1] /\ Q[2] = H[2]
       /\ Q[3] = R1[1] /\ Q[4] = R1[2] /\ Q[5] = R1[3]
  BY <1>7 DEF IsJoin
<1>11. /\ S[1] = Q[1] /\ S[2] = Q[2] /\ S[3] = Q[3] /\ S[4] = Q[4] /\ S[5] = Q[5]
       /\ S[6] = R2[1] /\ S[7] = R2[2] /\ S[8] = R2[3]
  BY <1>8 DEF IsJoin
<1>12. /\ P[1] = S[1] /\ P[2] = S[2] /\ P[3] = S[3] /\ P[4] = S[4] /\ P[5] = S[5]
       /\ P[6] = S[6] /\ P[7] = S[7] /\ P[8] = S[8]
       /\ P[9] = R3[1] /\ P[10] = R3[2] /\ P[11] = R3[3]
       /\ P \in Seq(Instr) /\ Len(P) = 11
  BY <1>9 DEF IsJoin
<1>13. \A b \in 1..3 : b = 1 \/ b = 2 \/ b = 3
  OBVIOUS
<1>14. \A b \in 1..3 : /\ P[3 * b] = Write(Query(Result[ch][b]))
                       /\ P[3 * b + 1] = Usleep /\ P[3 * b + 2] = ReadData
  BY <1>3, <1>4, <1>5, <1>10, <1>11, <1>12, <1>13
<1>15. QED
  BY <1>2, <1>10, <1>11, <1>12, <1>14 DEF P

\* A round's steps for one chip.
LEMMA RoundSteps ==
  ASSUME NEW c \in 0..(Chips - 1)
  PROVE  LET P == read_thermistors(c) IN
         /\ P \in Seq(Instr) /\ Len(P) = 24
         /\ P[1] = Select(c) /\ P[2] = Usleep
         /\ \A k \in 1..11 : /\ P[2 + k] = ReadChannel(4)[k]
                             /\ P[13 + k] = ReadChannel(6)[k]
<1> DEFINE H == <<Select(c), Usleep>>
           R4 == ReadChannel(4)
           R6 == ReadChannel(6)
           Q == H \o R4
           P == read_thermistors(c)
<1>1. P = Q \o R6 /\ Q = H \o R4
  BY Zenon DEF read_thermistors
<1>2. H \in Seq(Instr) /\ Len(H) = 2 /\ H[1] = Select(c) /\ H[2] = Usleep
  <2>1. Select(c) \in Instr /\ Usleep \in Instr
    BY DEF Instr, Wait
  <2>2. QED
    BY <2>1
<1>3. R4 \in Seq(Instr) /\ Len(R4) = 11
  BY ChannelSteps
<1>4. R6 \in Seq(Instr) /\ Len(R6) = 11
  BY ChannelSteps
<1> HIDE DEF H, R4, R6, Q, P
<1>5. IsJoin(Q, H, R4, 2, 11)
  <2>1. H \in Seq(Instr) /\ R4 \in Seq(Instr) /\ Len(H) = 2 /\ Len(R4) = 11
    BY <1>2, <1>3 DEF IsJoin
  <2>2. IsJoin(H \o R4, H, R4, Len(H), Len(R4))
    BY Zenon, <2>1, Joined
  <2>3. QED
    BY <2>1, <2>2, <1>1
<1>6. IsJoin(P, Q, R6, 13, 11)
  <2>1. Q \in Seq(Instr) /\ R6 \in Seq(Instr) /\ Len(Q) = 13 /\ Len(R6) = 11
    BY <1>4, <1>5 DEF IsJoin
  <2>2. IsJoin(Q \o R6, Q, R6, Len(Q), Len(R6))
    BY Zenon, <2>1, Joined
  <2>3. QED
    BY <2>1, <2>2, <1>1
<1>7. /\ P \in Seq(Instr) /\ Len(P) = 24
      /\ \A p \in 1..13 : P[p] = Q[p]
      /\ \A k \in 1..11 : P[13 + k] = R6[k]
  BY <1>6 DEF IsJoin
<1>8. /\ Q[1] = H[1] /\ Q[2] = H[2]
      /\ \A k \in 1..11 : Q[2 + k] = R4[k]
  BY <1>5 DEF IsJoin
<1>9. \A k \in 1..11 : P[2 + k] = R4[k]
  <2>1. \A k \in 1..11 : 2 + k \in 1..13
    OBVIOUS
  <2>2. QED
    BY <1>7, <1>8, <2>1
<1>10. QED
  BY <1>2, <1>7, <1>8, <1>9 DEF P, R4, R6

\* The settings of the thermistor chip are for registers 4 to 23.
LEMMA SetupWords ==
  /\ ThermSetup \in Seq(Pair) /\ Len(ThermSetup) = 12
  /\ \A j \in 1..12 : ThermSetup[j][1] \in 4..23
<1>1. ThermSetup \in Seq(Pair) /\ Len(ThermSetup) = 12
  BY DEF ThermSetup, Byte, Pair
<1>2. /\ ThermSetup[1][1] = 4 /\ ThermSetup[2][1] = 5 /\ ThermSetup[3][1] = 6
      /\ ThermSetup[4][1] = 7 /\ ThermSetup[5][1] = 12 /\ ThermSetup[6][1] = 13
      /\ ThermSetup[7][1] = 14 /\ ThermSetup[8][1] = 15 /\ ThermSetup[9][1] = 20
      /\ ThermSetup[10][1] = 21 /\ ThermSetup[11][1] = 22 /\ ThermSetup[12][1] = 23
  BY DEF ThermSetup
<1>3. \A j \in 1..12 : \/ j = 1 \/ j = 2 \/ j = 3 \/ j = 4 \/ j = 5 \/ j = 6
                       \/ j = 7 \/ j = 8 \/ j = 9 \/ j = 10 \/ j = 11 \/ j = 12
  OBVIOUS
<1>4. \A j \in 1..12 : ThermSetup[j][1] \in 4..23
  BY <1>2, <1>3
<1>5. QED
  BY <1>1, <1>4

\* The steps of its set-up.
LEMMA SetupSteps ==
  ASSUME NEW c \in 0..(Chips - 1)
  PROVE  LET P == setup_thermistors(c) IN
         /\ P \in Seq(Instr) /\ Len(P) = 26
         /\ P[1] = Select(c) /\ P[2] = Usleep
         /\ \A j \in 1..12 :
              /\ P[2 * j + 1] = Write(Word(ThermSetup[j][1], ThermSetup[j][2]))
              /\ P[2 * j + 2] = Usleep
<1> DEFINE H == <<Select(c), Usleep>>
           E == Each(ThermSetup)
           P == setup_thermistors(c)
<1>1. P = H \o E
  BY Zenon DEF setup_thermistors
<1>2. H \in Seq(Instr) /\ Len(H) = 2 /\ H[1] = Select(c) /\ H[2] = Usleep
  <2>1. Select(c) \in Instr /\ Usleep \in Instr
    BY DEF Instr, Wait
  <2>2. QED
    BY <2>1
<1>3. /\ E \in Seq(Instr) /\ Len(E) = 24
      /\ \A j \in 1..12 : /\ E[2 * j - 1] = Write(Word(ThermSetup[j][1], ThermSetup[j][2]))
                          /\ E[2 * j] = Usleep
  <2>1. ThermSetup \in Seq((0..255) \X (0..255))
    BY SetupWords DEF Pair, Byte
  <2>2. /\ Paced(E) /\ Len(E) = 2 * Len(ThermSetup)
        /\ \A j \in 1..Len(ThermSetup) :
             /\ E[2 * j - 1] = Write(Word(ThermSetup[j][1], ThermSetup[j][2]))
             /\ E[2 * j] = Usleep
    BY ONLY <2>1, EachSteps
  <2> HIDE DEF E
  <2>3. Len(ThermSetup) = 12
    BY SetupWords
  <2>4. QED
    BY <2>2, <2>3 DEF Paced
<1> HIDE DEF H, E, P
<1>4. IsJoin(P, H, E, 2, 24)
  <2>1. H \in Seq(Instr) /\ E \in Seq(Instr) /\ Len(H) = 2 /\ Len(E) = 24
    BY <1>2, <1>3 DEF IsJoin
  <2>2. IsJoin(H \o E, H, E, Len(H), Len(E))
    BY Zenon, <2>1, Joined
  <2>3. QED
    BY <2>1, <2>2, <1>1
<1>5. ASSUME NEW j \in 1..12
      PROVE  P[2 * j + 1] = E[2 * j - 1] /\ P[2 * j + 2] = E[2 * j]
  <2>1. /\ 2 * j - 1 \in 1..24 /\ 2 + (2 * j - 1) = 2 * j + 1
        /\ 2 * j \in 1..24 /\ 2 + 2 * j = 2 * j + 2
    OBVIOUS
  <2>2. P[2 + (2 * j - 1)] = E[2 * j - 1] /\ P[2 + 2 * j] = E[2 * j]
    BY <1>4, <2>1 DEF IsJoin
  <2>3. QED
    BY <2>1, <2>2
<1>6. P \in Seq(Instr) /\ Len(P) = 26 /\ P[1] = H[1] /\ P[2] = H[2]
  BY <1>4 DEF IsJoin
<1>7. QED
  BY <1>2, <1>3, <1>5, <1>6 DEF P

(***************************************************************************)
(* The thermistor thread's program: 26 steps of settings for every chip,   *)
(* then 24 of readings for every chip, then the record.                    *)
(***************************************************************************)

\* The programs of all chips, one after the other.
LEMMA SetupAll ==
  LET P == ForChips(setup_thermistors) IN
  /\ P \in Seq(Instr) /\ Len(P) = 26 * Chips
  /\ \A c \in 0..(Chips - 1), k \in 1..26 : P[26 * c + k] = setup_thermistors(c)[k]
<1> DEFINE P == ForChips(setup_thermistors)
<1>1. Chips \in Nat \ {0} /\ 0 \in 0..(Chips - 1)
  BY ChipsAssumption
<1>2. Len(setup_thermistors(0)) = 26
  BY <1>1, SetupSteps
<1>3. P = [i \in 1..(26 * Chips) |-> setup_thermistors((i - 1) \div 26)[((i - 1) % 26) + 1]]
  <2>1. Chips * Len(setup_thermistors(0)) = 26 * Chips
    <3>1. \A n \in Nat : n * 26 = 26 * n
      OBVIOUS
    <3>2. Chips * 26 = 26 * Chips
      BY <1>1, <3>1
    <3>3. QED
      BY <1>2, <3>2
  <2>2. QED
    BY <1>2, <2>1 DEF ForChips
<1> HIDE DEF P
<1>4. ASSUME NEW i \in 1..(26 * Chips)
      PROVE  (i - 1) \div 26 \in 0..(Chips - 1) /\ ((i - 1) % 26) + 1 \in 1..26
  BY <1>1
<1>5. \A i \in 1..(26 * Chips) : P[i] \in Instr
  <2> TAKE i \in 1..(26 * Chips)
  <2>1. PICK c \in 0..(Chips - 1), k \in 1..26 : P[i] = setup_thermistors(c)[k]
    BY <1>3, <1>4
  <2>2. setup_thermistors(c) \in Seq(Instr) /\ Len(setup_thermistors(c)) = 26
    BY SetupSteps
  <2>3. QED
    BY <2>1, <2>2, ElementOfSeq
<1>6. P \in [1..(26 * Chips) -> Instr] /\ 26 * Chips \in Nat
  BY <1>1, <1>3, <1>5
<1>7. P \in Seq(Instr) /\ Len(P) = 26 * Chips
  BY <1>6, SeqOf
<1>8. ASSUME NEW c \in 0..(Chips - 1), NEW k \in 1..26
      PROVE  P[26 * c + k] = setup_thermistors(c)[k]
  <2>1. /\ 26 * c + k \in 1..(26 * Chips) /\ (26 * c + k - 1) \div 26 = c
        /\ ((26 * c + k - 1) % 26) + 1 = k
    BY <1>1
  <2>2. QED
    BY <1>3, <2>1
<1>9. QED
  BY <1>7, <1>8 DEF P

\* The rounds of all chips.
LEMMA RoundAll ==
  LET P == ForChips(read_thermistors) IN
  /\ P \in Seq(Instr) /\ Len(P) = 24 * Chips
  /\ \A c \in 0..(Chips - 1), k \in 1..24 : P[24 * c + k] = read_thermistors(c)[k]
<1> DEFINE P == ForChips(read_thermistors)
<1>1. Chips \in Nat \ {0} /\ 0 \in 0..(Chips - 1)
  BY ChipsAssumption
<1>2. Len(read_thermistors(0)) = 24
  BY <1>1, RoundSteps
<1>3. P = [i \in 1..(24 * Chips) |-> read_thermistors((i - 1) \div 24)[((i - 1) % 24) + 1]]
  <2>1. Chips * Len(read_thermistors(0)) = 24 * Chips
    <3>1. \A n \in Nat : n * 24 = 24 * n
      OBVIOUS
    <3>2. Chips * 24 = 24 * Chips
      BY <1>1, <3>1
    <3>3. QED
      BY <1>2, <3>2
  <2>2. QED
    BY <1>2, <2>1 DEF ForChips
<1> HIDE DEF P
<1>4. ASSUME NEW i \in 1..(24 * Chips)
      PROVE  (i - 1) \div 24 \in 0..(Chips - 1) /\ ((i - 1) % 24) + 1 \in 1..24
  BY <1>1
<1>5. \A i \in 1..(24 * Chips) : P[i] \in Instr
  <2> TAKE i \in 1..(24 * Chips)
  <2>1. PICK c \in 0..(Chips - 1), k \in 1..24 : P[i] = read_thermistors(c)[k]
    BY <1>3, <1>4
  <2>2. read_thermistors(c) \in Seq(Instr) /\ Len(read_thermistors(c)) = 24
    BY RoundSteps
  <2>3. QED
    BY <2>1, <2>2, ElementOfSeq
<1>6. P \in [1..(24 * Chips) -> Instr] /\ 24 * Chips \in Nat
  BY <1>1, <1>3, <1>5
<1>7. P \in Seq(Instr) /\ Len(P) = 24 * Chips
  BY <1>6, SeqOf
<1>8. ASSUME NEW c \in 0..(Chips - 1), NEW k \in 1..24
      PROVE  P[24 * c + k] = read_thermistors(c)[k]
  <2>1. /\ 24 * c + k \in 1..(24 * Chips) /\ (24 * c + k - 1) \div 24 = c
        /\ ((24 * c + k - 1) % 24) + 1 = k
    BY <1>1
  <2>2. QED
    BY <1>3, <2>1
<1>9. QED
  BY <1>7, <1>8 DEF P

\* The thread's program, place by place.
LEMMA ThermSteps ==
  LET P == thermistors_push IN
  /\ P \in Seq(Instr) /\ Len(P) = 50 * Chips + 1 /\ Len(ThermLoop) = 24 * Chips + 1
  /\ \A c \in 0..(Chips - 1), k \in 1..26 : P[26 * c + k] = setup_thermistors(c)[k]
  /\ \A c \in 0..(Chips - 1), k \in 1..24 :
       P[26 * Chips + 24 * c + k] = read_thermistors(c)[k]
  /\ P[50 * Chips + 1] = Op("send")
<1> DEFINE S == ForChips(setup_thermistors)
           R == ForChips(read_thermistors)
           E == <<Op("send")>>
           L == ThermLoop
           P == thermistors_push
<1>1. Chips \in Nat \ {0}
  BY ChipsAssumption
<1>2. L = R \o E /\ P = S \o L
  BY Zenon DEF ThermLoop, thermistors_push
<1>3. E \in Seq(Instr) /\ Len(E) = 1 /\ E[1] = Op("send")
  <2>1. Op("send") \in Instr
    BY DEF Instr
  <2>2. QED
    BY <2>1
<1>4. /\ S \in Seq(Instr) /\ Len(S) = 26 * Chips
      /\ \A c \in 0..(Chips - 1), k \in 1..26 : S[26 * c + k] = setup_thermistors(c)[k]
  BY SetupAll
<1>5. /\ R \in Seq(Instr) /\ Len(R) = 24 * Chips
      /\ \A c \in 0..(Chips - 1), k \in 1..24 : R[24 * c + k] = read_thermistors(c)[k]
  BY RoundAll
<1> HIDE DEF S, R, E, L, P
<1>6. IsJoin(L, R, E, 24 * Chips, 1)
  <2>1. R \in Seq(Instr) /\ E \in Seq(Instr)
    BY <1>3, <1>5
  <2>2. IsJoin(R \o E, R, E, Len(R), Len(E))
    BY Zenon, <2>1, Joined
  <2>3. QED
    BY <1>2, <1>3, <1>5, <2>2
<1>7. L \in Seq(Instr) /\ Len(L) = 24 * Chips + 1
  BY <1>6 DEF IsJoin
<1>8. IsJoin(P, S, L, 26 * Chips, 24 * Chips + 1)
  <2>1. S \in Seq(Instr) /\ L \in Seq(Instr)
    BY <1>4, <1>7
  <2>2. IsJoin(S \o L, S, L, Len(S), Len(L))
    BY Zenon, <2>1, Joined
  <2>3. QED
    BY <1>2, <1>4, <1>7, <2>2
<1>9. P \in Seq(Instr) /\ Len(P) = 50 * Chips + 1
  BY <1>1, <1>8 DEF IsJoin
<1>10. ASSUME NEW c \in 0..(Chips - 1), NEW k \in 1..26
       PROVE  P[26 * c + k] = setup_thermistors(c)[k]
  <2>1. 26 * c + k \in 1..(26 * Chips)
    BY <1>1
  <2>2. P[26 * c + k] = S[26 * c + k]
    BY <1>8, <2>1 DEF IsJoin
  <2>3. QED
    BY <1>4, <2>2
<1>11. \A p \in 1..(24 * Chips + 1) : P[26 * Chips + p] = L[p]
  BY <1>8 DEF IsJoin
<1>12. ASSUME NEW c \in 0..(Chips - 1), NEW k \in 1..24
       PROVE  P[26 * Chips + 24 * c + k] = read_thermistors(c)[k]
  <2>1. /\ 24 * c + k \in 1..(24 * Chips) /\ 24 * c + k \in 1..(24 * Chips + 1)
        /\ 26 * Chips + 24 * c + k = 26 * Chips + (24 * c + k)
    BY <1>1
  <2>2. L[24 * c + k] = R[24 * c + k]
    BY <1>6, <2>1 DEF IsJoin
  <2>3. P[26 * Chips + (24 * c + k)] = L[24 * c + k]
    BY <1>11, <2>1
  <2>4. QED
    BY <1>5, <2>1, <2>2, <2>3
<1>13. P[50 * Chips + 1] = Op("send")
  <2>1. /\ 24 * Chips + 1 \in 1..(24 * Chips + 1)
        /\ 50 * Chips + 1 = 26 * Chips + (24 * Chips + 1)
    BY <1>1
  <2>2. P[50 * Chips + 1] = L[24 * Chips + 1]
    BY <1>11, <2>1
  <2>3. L[24 * Chips + 1] = E[1]
    BY <1>6 DEF IsJoin
  <2>4. QED
    BY <1>3, <2>2, <2>3
<1>14. QED
  BY <1>7, <1>9, <1>10, <1>12, <1>13 DEF P, L

(***************************************************************************)
(* Column and Fresh say where in a round the thread is: Fresh(p) is the    *)
(* channel whose three bytes are of this round when the next step is p, 0  *)
(* if none is.                                                             *)
(***************************************************************************)

Column(p) == ((p - 26 * Chips - 1) % 24) + 1
Fresh(p) ==
  IF p \in (26 * Chips + 1)..(50 * Chips)
  THEN IF Column(p) \in 5..13 THEN 4 ELSE IF Column(p) \in 16..24 THEN 6 ELSE 0
  ELSE 0

\* What the thermistor thread's steps have to do with the results it reads: its
\* words are queries for a byte of the result, settings and starts.
QueryRule(P, i) ==
  /\ P[i].word.rd = TRUE /\ P[i + 1] = Usleep
  /\ Fresh(i) \in {4, 6} /\ Fresh(i + 1) = Fresh(i)
  /\ \E b \in 1..3 : P[i].word.at = Result[Fresh(i)][b]
SettingRule(P, i) ==
  /\ P[i].word.rd = FALSE /\ P[i + 1] = Usleep
  /\ P[i].word.at \in 4..23 /\ Fresh(i + 1) = 0
StartRule(P, i) ==
  /\ P[i].word.rd = FALSE /\ P[i + 1] = Op("delay")
  /\ P[i].word.at = Start /\ P[i].word.val \in {4, 6} /\ Fresh(i + 1) = 0
DelayRule(P, i) ==
  /\ i > 1 /\ P[i - 1].op = "write"
  /\ P[i - 1].word.rd = FALSE /\ P[i - 1].word.at = Start /\ P[i - 1].word.val \in {4, 6}
  /\ Fresh(i) = 0 /\ Fresh(i + 1) = P[i - 1].word.val
ReadRule(P, i) ==
  i > 2 /\ P[i - 1] = Usleep /\ P[i - 2].op = "write" /\ P[i - 2].word.rd = TRUE
ThermRule(P, i) ==
  /\ P[i].op = "write" =>
       i < Len(P) /\ (QueryRule(P, i) \/ SettingRule(P, i) \/ StartRule(P, i))
  /\ P[i].op = "delay" => DelayRule(P, i)
  /\ P[i].op = "read" => ReadRule(P, i)
  /\ P[i].op \in {"usleep", "read"} => Fresh(i + 1) \in {0, Fresh(i)}
  /\ P[i].op = "select" => Fresh(i + 1) = 0
  /\ P[i].op = "send" => i = Len(P)

\* Fresh, by the place in a round.
LEMMA FreshAt ==
  /\ \A c \in 0..(Chips - 1), k \in 1..25 :
       Fresh(26 * Chips + 24 * c + k) =
         IF k \in 5..13 THEN 4 ELSE IF k \in 16..24 THEN 6 ELSE 0
  /\ \A p \in 0..(26 * Chips + 1) : Fresh(p) = 0
<1>1. Chips \in Nat \ {0}
  BY ChipsAssumption
<1>2. ASSUME NEW c \in 0..(Chips - 1), NEW k \in 1..24
      PROVE  Fresh(26 * Chips + 24 * c + k) =
               IF k \in 5..13 THEN 4 ELSE IF k \in 16..24 THEN 6 ELSE 0
  <2> DEFINE p == 26 * Chips + 24 * c + k
  <2>1. p \in (26 * Chips + 1)..(50 * Chips)
    BY <1>1
  <2>2. p - 26 * Chips - 1 = 24 * c + (k - 1)
    BY <1>1
  <2>3. (24 * c + (k - 1)) % 24 = k - 1
    BY <1>1
  <2>4. Column(p) = k
    BY <2>2, <2>3 DEF Column
  <2> HIDE DEF p
  <2>5. QED
    BY <2>1, <2>4 DEF Fresh, p
<1>3. ASSUME NEW c \in 0..(Chips - 1)
      PROVE  Fresh(26 * Chips + 24 * c + 25) = 0
  <2>1. CASE c = Chips - 1
    <3>1. 26 * Chips + 24 * c + 25 = 50 * Chips + 1
      BY <1>1, <2>1
    <3>2. QED
      BY <1>1, <3>1 DEF Fresh
  <2>2. CASE c # Chips - 1
    <3>1. c + 1 \in 0..(Chips - 1) /\ 1 \in 1..24
          /\ 26 * Chips + 24 * c + 25 = 26 * Chips + 24 * (c + 1) + 1
      BY <1>1, <2>2
    <3>2. Fresh(26 * Chips + 24 * (c + 1) + 1) = 0
      BY <1>2, <3>1
    <3>3. QED
      BY <3>1, <3>2
  <2>3. QED
    BY <2>1, <2>2
<1>4. ASSUME NEW p \in 0..(26 * Chips + 1)
      PROVE  Fresh(p) = 0
  <2>1. CASE p = 26 * Chips + 1
    <3>1. 0 \in 0..(Chips - 1) /\ 1 \in 1..24 /\ p = 26 * Chips + 24 * 0 + 1
      BY <1>1, <2>1
    <3>2. Fresh(26 * Chips + 24 * 0 + 1) = 0
      BY <1>2, <3>1
    <3>3. QED
      BY <3>1, <3>2
  <2>2. CASE p # 26 * Chips + 1
    BY <1>1, <2>2 DEF Fresh
  <2>3. QED
    BY <2>1, <2>2
<1>5. ASSUME NEW c \in 0..(Chips - 1), NEW k \in 1..25
      PROVE  Fresh(26 * Chips + 24 * c + k) =
               IF k \in 5..13 THEN 4 ELSE IF k \in 16..24 THEN 6 ELSE 0
  BY <1>2, <1>3
<1>6. QED
  BY <1>4, <1>5

\* The rules hold in a conversion and in the reading of its result.
LEMMA ChannelRule ==
  ASSUME NEW c \in 0..(Chips - 1), NEW ch \in {4, 6}, NEW m \in 1..11
  PROVE  ThermRule(thermistors_push,
                   26 * Chips + 24 * c + (IF ch = 4 THEN 2 ELSE 13) + m)
<1> DEFINE P == thermistors_push
           B == 26 * Chips + 24 * c + (IF ch = 4 THEN 2 ELSE 13)
           R == ReadChannel(ch)
<1>1. Chips \in Nat \ {0} /\ B \in Nat /\ B + m < 50 * Chips + 1
  BY ChipsAssumption
<1>2. Len(P) = 50 * Chips + 1
  BY ThermSteps
<1>3. \A n \in 1..11 : P[B + n] = R[n]
  <2> TAKE n \in 1..11
  <2>1. /\ read_thermistors(c)[2 + n] = ReadChannel(4)[n]
        /\ read_thermistors(c)[13 + n] = ReadChannel(6)[n]
    BY RoundSteps
  <2>2. CASE ch = 4
    <3>1. 2 + n \in 1..24 /\ B + n = 26 * Chips + 24 * c + (2 + n)
      BY <1>1, <2>2
    <3>2. P[26 * Chips + 24 * c + (2 + n)] = read_thermistors(c)[2 + n]
      BY <3>1, ThermSteps
    <3>3. QED
      BY <2>1, <2>2, <3>1, <3>2
  <2>3. CASE ch = 6
    <3>1. 13 + n \in 1..24 /\ B + n = 26 * Chips + 24 * c + (13 + n)
      BY <1>1, <2>3
    <3>2. P[26 * Chips + 24 * c + (13 + n)] = read_thermistors(c)[13 + n]
      BY <3>1, ThermSteps
    <3>3. QED
      BY <2>1, <2>3, <3>1, <3>2
  <2>4. QED
    BY <2>2, <2>3
<1>4. \A n \in 1..12 : Fresh(B + n) = IF n \in 3..11 THEN ch ELSE 0
  <2> TAKE n \in 1..12
  <2>1. CASE ch = 4
    <3>1. 2 + n \in 1..25 /\ B + n = 26 * Chips + 24 * c + (2 + n)
      BY <1>1, <2>1
    <3>2. Fresh(26 * Chips + 24 * c + (2 + n)) =
            IF 2 + n \in 5..13 THEN 4 ELSE IF 2 + n \in 16..24 THEN 6 ELSE 0
      BY <3>1, FreshAt
    <3>3. QED
      BY <2>1, <3>1, <3>2
  <2>2. CASE ch = 6
    <3>1. 13 + n \in 1..25 /\ B + n = 26 * Chips + 24 * c + (13 + n)
      BY <1>1, <2>2
    <3>2. Fresh(26 * Chips + 24 * c + (13 + n)) =
            IF 13 + n \in 5..13 THEN 4 ELSE IF 13 + n \in 16..24 THEN 6 ELSE 0
      BY <3>1, FreshAt
    <3>3. QED
      BY <2>2, <3>1, <3>2
  <2>3. QED
    BY <2>1, <2>2
<1>5. /\ R[1] = Write(Word(Start, ch)) /\ R[2] = Op("delay")
      /\ \A b \in 1..3 : /\ R[3 * b] = Write(Query(Result[ch][b]))
                         /\ R[3 * b + 1] = Usleep /\ R[3 * b + 2] = ReadData
  BY ChannelSteps
<1> HIDE DEF P, B, R
<1>6. CASE m = 1
  <2>1. P[B + 1] = Write(Word(Start, ch)) /\ P[B + 1 + 1] = Op("delay")
        /\ Fresh(B + 1 + 1) = 0
    <3>1. B + 1 + 1 = B + 2
      BY <1>1
    <3>2. QED
      BY <1>3, <1>4, <1>5, <3>1
  <2>2. P[B + 1].op = "write" /\ P[B + 1].word = Word(Start, ch)
    BY <2>1, InstrOps
  <2>3. P[B + 1].word.rd = FALSE /\ P[B + 1].word.at = Start /\ P[B + 1].word.val = ch
    BY <2>2 DEF Word
  <2>4. B + 1 < Len(P)
    BY <1>1, <1>2, <1>6
  <2>5. StartRule(P, B + 1)
    BY <2>1, <2>3 DEF StartRule
  <2>6. ThermRule(P, B + 1)
    BY <2>2, <2>4, <2>5 DEF ThermRule
  <2>7. QED
    BY <1>6, <2>6 DEF P, B
<1>7. CASE m = 2
  <2>1. /\ P[B + 2] = Op("delay") /\ P[B + 2 - 1] = Write(Word(Start, ch))
        /\ Fresh(B + 2) = 0 /\ Fresh(B + 2 + 1) = ch
    <3>1. B + 2 - 1 = B + 1 /\ B + 2 + 1 = B + 3
      BY <1>1
    <3>2. QED
      BY <1>3, <1>4, <1>5, <3>1
  <2>2. P[B + 2].op = "delay" /\ P[B + 2 - 1].op = "write"
        /\ P[B + 2 - 1].word = Word(Start, ch)
    BY <2>1, InstrOps
  <2>3. /\ P[B + 2 - 1].word.rd = FALSE /\ P[B + 2 - 1].word.at = Start
        /\ P[B + 2 - 1].word.val = ch
    BY <2>2 DEF Word
  <2>4. B + 2 > 1
    BY <1>1
  <2>5. DelayRule(P, B + 2)
    BY <1>1, <2>1, <2>2, <2>3, <2>4 DEF DelayRule
  <2>6. ThermRule(P, B + 2)
    BY <2>2, <2>5 DEF ThermRule
  <2>7. QED
    BY <1>7, <2>6 DEF P, B
<1>8. ASSUME NEW b \in 1..3, m = 3 * b
      PROVE  ThermRule(P, B + m)
  <2>1. m + 1 \in 1..11 /\ m \in 3..11 /\ m + 1 \in 3..11 /\ B + m + 1 = B + (m + 1)
    BY <1>1, <1>8
  <2>2. /\ P[B + m] = Write(Query(Result[ch][b])) /\ P[B + m + 1] = Usleep
        /\ Fresh(B + m) = ch /\ Fresh(B + m + 1) = ch
    BY <1>3, <1>4, <1>5, <1>8, <2>1
  <2>3. P[B + m].op = "write" /\ P[B + m].word = Query(Result[ch][b])
    BY <2>2, InstrOps
  <2>4. P[B + m].word.rd = TRUE /\ P[B + m].word.at = Result[ch][b]
    BY <2>3 DEF Query
  <2>5. QueryRule(P, B + m)
    BY <2>2, <2>4 DEF QueryRule
  <2>6. B + m < Len(P)
    BY <1>1, <1>2
  <2>7. QED
    BY <2>3, <2>5, <2>6 DEF ThermRule
<1>9. ASSUME NEW b \in 1..3, m = 3 * b + 1
      PROVE  ThermRule(P, B + m)
  <2>1. m + 1 \in 1..11 /\ m \in 3..11 /\ m + 1 \in 3..11 /\ B + m + 1 = B + (m + 1)
    BY <1>1, <1>9
  <2>2. P[B + m] = Usleep /\ Fresh(B + m) = ch /\ Fresh(B + m + 1) = ch
    BY <1>3, <1>4, <1>5, <1>9, <2>1
  <2>3. P[B + m].op = "usleep"
    BY <2>2, InstrOps
  <2>4. QED
    BY <2>2, <2>3 DEF ThermRule
<1>10. ASSUME NEW b \in 1..3, m = 3 * b + 2
       PROVE  ThermRule(P, B + m)
  <2>1. /\ m - 2 = 3 * b /\ m - 1 = 3 * b + 1 /\ m \in 3..11 /\ m + 1 \in 3..12
        /\ m - 2 \in 1..11 /\ m - 1 \in 1..11 /\ m + 1 \in 1..12
        /\ B + m + 1 = B + (m + 1) /\ B + m - 1 = B + (m - 1) /\ B + m - 2 = B + (m - 2)
        /\ B + m > 2
    BY <1>1, <1>10
  <2>2. /\ P[B + m] = ReadData /\ P[B + m - 1] = Usleep
        /\ P[B + m - 2] = Write(Query(Result[ch][b]))
        /\ Fresh(B + m) = ch /\ Fresh(B + m + 1) \in {0, ch}
    BY <1>3, <1>4, <1>5, <1>10, <2>1
  <2>3. /\ P[B + m].op = "read" /\ P[B + m - 2].op = "write"
        /\ P[B + m - 2].word = Query(Result[ch][b])
    BY <2>2, InstrOps
  <2>4. P[B + m - 2].word.rd = TRUE
    BY <2>3 DEF Query
  <2>5. ReadRule(P, B + m)
    BY <1>1, <2>1, <2>2, <2>3, <2>4 DEF ReadRule
  <2>6. ThermRule(P, B + m)
    BY <2>2, <2>3, <2>5 DEF ThermRule
  <2>7. QED
    BY <2>6 DEF P, B
<1>11. \/ m = 1 \/ m = 2 \/ \E b \in 1..3 : m = 3 * b \/ m = 3 * b + 1 \/ m = 3 * b + 2
  <2>1. m > 2 => m \div 3 \in 1..3
    OBVIOUS
  <2>2. m = 3 * (m \div 3) \/ m = 3 * (m \div 3) + 1 \/ m = 3 * (m \div 3) + 2
    OBVIOUS
  <2>3. QED
    BY <2>1, <2>2
<1>12. QED
  BY <1>6, <1>7, <1>8, <1>9, <1>10, <1>11 DEF P, B

\* They hold in the settings of every chip,
LEMMA SetupRule ==
  ASSUME NEW c \in 0..(Chips - 1), NEW k \in 1..26
  PROVE  ThermRule(thermistors_push, 26 * c + k)
<1> DEFINE P == thermistors_push
           B == 26 * c
           R == setup_thermistors(c)
<1>1. Chips \in Nat \ {0} /\ B \in Nat /\ B + k < 50 * Chips + 1 /\ B + k + 1 \in 0..(26 * Chips + 1)
  BY ChipsAssumption
<1>2. Len(P) = 50 * Chips + 1
  BY ThermSteps
<1>3. \A n \in 1..26 : P[B + n] = R[n]
  BY ThermSteps
<1>4. Fresh(B + k + 1) = 0
  BY <1>1, FreshAt
<1>5. /\ R[1] = Select(c) /\ R[2] = Usleep
      /\ \A j \in 1..12 : /\ R[2 * j + 1] = Write(Word(ThermSetup[j][1], ThermSetup[j][2]))
                          /\ R[2 * j + 2] = Usleep
  BY SetupSteps
<1> HIDE DEF P, B, R
<1>6. CASE k = 1
  <2>1. P[B + k].op = "select"
    BY <1>3, <1>5, <1>6, InstrOps
  <2>2. QED
    BY <1>4, <2>1 DEF ThermRule, P, B
<1>7. CASE k = 2 \/ \E j \in 1..12 : k = 2 * j + 2
  <2>1. P[B + k].op = "usleep"
    BY <1>3, <1>5, <1>7, InstrOps
  <2>2. QED
    BY <1>4, <2>1 DEF ThermRule, P, B
<1>8. ASSUME NEW j \in 1..12, k = 2 * j + 1
      PROVE  ThermRule(P, B + k)
  <2>1. k + 1 = 2 * j + 2 /\ k + 1 \in 1..26 /\ B + k + 1 = B + (k + 1)
    BY <1>1, <1>8
  <2>2. /\ P[B + k] = Write(Word(ThermSetup[j][1], ThermSetup[j][2]))
        /\ P[B + k + 1] = Usleep
    BY <1>3, <1>5, <1>8, <2>1
  <2>3. /\ P[B + k].op = "write"
        /\ P[B + k].word = Word(ThermSetup[j][1], ThermSetup[j][2])
    BY <2>2, InstrOps
  <2>4. P[B + k].word.rd = FALSE /\ P[B + k].word.at = ThermSetup[j][1]
    BY <2>3 DEF Word
  <2>5. ThermSetup[j][1] \in 4..23
    BY SetupWords
  <2>6. SettingRule(P, B + k)
    BY <1>1, <1>4, <2>2, <2>4, <2>5 DEF SettingRule
  <2>7. B + k < Len(P)
    BY <1>1, <1>2
  <2>8. QED
    BY <2>3, <2>6, <2>7 DEF ThermRule
<1>9. k = 1 \/ k = 2 \/ \E j \in 1..12 : k = 2 * j + 2 \/ k = 2 * j + 1
  <2>1. k > 2 => (k - 1) \div 2 \in 1..12
    OBVIOUS
  <2>2. k = 2 * ((k - 1) \div 2) + 2 \/ k = 2 * ((k - 1) \div 2) + 1
    OBVIOUS
  <2>3. QED
    BY <2>1, <2>2
<1>10. QED
  BY <1>6, <1>7, <1>8, <1>9 DEF P, B

\* in the readings of every chip,
LEMMA RoundRule ==
  ASSUME NEW c \in 0..(Chips - 1), NEW k \in 1..24
  PROVE  ThermRule(thermistors_push, 26 * Chips + 24 * c + k)
<1> DEFINE P == thermistors_push
           B == 26 * Chips + 24 * c
<1>1. Chips \in Nat \ {0} /\ B \in Nat
  BY ChipsAssumption
<1>2. P[B + k] = read_thermistors(c)[k]
  BY ThermSteps
<1>3. \A n \in 1..25 : Fresh(B + n) = IF n \in 5..13 THEN 4 ELSE IF n \in 16..24 THEN 6 ELSE 0
  BY FreshAt
<1>4. CASE k \in {1, 2}
  <2>1. P[B + k].op \in {"select", "usleep"}
    <3>1. read_thermistors(c)[1] = Select(c) /\ read_thermistors(c)[2] = Usleep
      BY RoundSteps
    <3>2. P[B + k] = Select(c) \/ P[B + k] = Usleep
      BY <1>2, <1>4, <3>1
    <3> HIDE DEF P, B
    <3>3. QED
      BY <3>2, InstrOps
  <2>2. k + 1 \in 1..25 /\ k + 1 \notin 5..13 /\ k + 1 \notin 16..24 /\ B + k + 1 = B + (k + 1)
    BY <1>1, <1>4
  <2>3. Fresh(B + k + 1) = 0
    BY <1>3, <2>2
  <2> HIDE DEF P, B
  <2>4. QED
    BY <2>1, <2>3 DEF ThermRule, P, B
<1>5. CASE k \in 3..13
  <2>1. k - 2 \in 1..11 /\ B + 2 + (k - 2) = B + k
    BY <1>1, <1>5
  <2>2. ThermRule(P, B + (IF 4 = 4 THEN 2 ELSE 13) + (k - 2))
    BY <2>1, ChannelRule
  <2>3. QED
    BY <2>1, <2>2
<1>6. CASE k \in 14..24
  <2>1. k - 13 \in 1..11 /\ B + 13 + (k - 13) = B + k
    BY <1>1, <1>6
  <2>2. ThermRule(P, B + (IF 6 = 4 THEN 2 ELSE 13) + (k - 13))
    BY <2>1, ChannelRule
  <2>3. QED
    BY <2>1, <2>2
<1>7. QED
  BY <1>4, <1>5, <1>6

\* and in the whole program.
LEMMA ThermRules ==
  /\ thermistors_push \in Seq(Instr) /\ Len(thermistors_push) = 50 * Chips + 1
  /\ \A i \in 1..Len(thermistors_push) : ThermRule(thermistors_push, i)
  /\ 50 * Chips + 1 + 1 - Len(ThermLoop) = 26 * Chips + 1
  /\ thermistors_push[26 * Chips + 1].op = "select"
  /\ thermistors_push[26 * Chips] = Usleep /\ thermistors_push[1].op = "select"
  /\ Fresh(1) = 0 /\ Fresh(26 * Chips + 1) = 0
<1> DEFINE P == thermistors_push
<1>1. Chips \in Nat \ {0}
  BY ChipsAssumption
<1>2. P \in Seq(Instr) /\ Len(P) = 50 * Chips + 1 /\ Len(ThermLoop) = 24 * Chips + 1
  BY ThermSteps
<1>3. 50 * Chips + 1 + 1 - Len(ThermLoop) = 26 * Chips + 1
  BY <1>1, <1>2
<1>4. ASSUME NEW i \in 1..Len(P)
      PROVE  ThermRule(P, i)
  <2>1. CASE i \in 1..(26 * Chips)
    <3>1. /\ (i - 1) \div 26 \in 0..(Chips - 1) /\ ((i - 1) % 26) + 1 \in 1..26
          /\ i = 26 * ((i - 1) \div 26) + (((i - 1) % 26) + 1)
      BY <1>1, <2>1
    <3>2. ThermRule(P, 26 * ((i - 1) \div 26) + (((i - 1) % 26) + 1))
      BY <3>1, SetupRule
    <3>3. QED
      BY <3>1, <3>2
  <2>2. CASE i \in (26 * Chips + 1)..(50 * Chips)
    <3> DEFINE n == i - 26 * Chips
    <3>1. n \in 1..(24 * Chips) /\ i = 26 * Chips + n
      BY <1>1, <2>2
    <3> HIDE DEF n
    <3>2. /\ (n - 1) \div 24 \in 0..(Chips - 1) /\ ((n - 1) % 24) + 1 \in 1..24
          /\ i = 26 * Chips + 24 * ((n - 1) \div 24) + (((n - 1) % 24) + 1)
      BY <1>1, <3>1
    <3>3. ThermRule(P, 26 * Chips + 24 * ((n - 1) \div 24) + (((n - 1) % 24) + 1))
      BY <3>2, RoundRule
    <3>4. QED
      BY <3>2, <3>3
  <2>3. CASE i = 50 * Chips + 1
    <3>1. P[i] = Op("send")
      BY <2>3, ThermSteps
    <3>2. P[i].op = "send"
      BY <3>1, InstrOps
    <3>3. QED
      BY <1>2, <2>3, <3>2 DEF ThermRule
  <2>4. QED
    BY <1>1, <1>2, <2>1, <2>2, <2>3
<1>5. P[26 * Chips + 1].op = "select"
  <2>1. 0 \in 0..(Chips - 1) /\ 1 \in 1..24 /\ 26 * Chips + 24 * 0 + 1 = 26 * Chips + 1
    BY <1>1
  <2>2. P[26 * Chips + 24 * 0 + 1] = read_thermistors(0)[1]
    BY <2>1, ThermSteps
  <2>3. read_thermistors(0)[1] = Select(0)
    BY <2>1, RoundSteps
  <2>4. QED
    BY <2>1, <2>2, <2>3, InstrOps
<1>6. P[26 * Chips] = Usleep
  <2>1. Chips - 1 \in 0..(Chips - 1) /\ 26 \in 1..26 /\ 26 * (Chips - 1) + 26 = 26 * Chips
    BY <1>1
  <2>2. P[26 * (Chips - 1) + 26] = setup_thermistors(Chips - 1)[26]
    BY <2>1, ThermSteps
  <2>3. \A j \in 1..12 : setup_thermistors(Chips - 1)[2 * j + 2] = Usleep
    BY <2>1, SetupSteps
  <2>4. QED
    <3>1. 12 \in 1..12 /\ 2 * 12 + 2 = 26
      OBVIOUS
    <3>2. setup_thermistors(Chips - 1)[26] = Usleep
      BY <2>3, <3>1
    <3>3. QED
      BY <2>1, <2>2, <3>2
<1>7. P[1].op = "select"
  <2>1. 0 \in 0..(Chips - 1) /\ 1 \in 1..26 /\ 26 * 0 + 1 = 1
    BY <1>1
  <2>2. P[26 * 0 + 1] = setup_thermistors(0)[1]
    BY <2>1, ThermSteps
  <2>3. setup_thermistors(0)[1] = Select(0)
    BY <2>1, SetupSteps
  <2>4. QED
    BY <2>1, <2>2, <2>3, InstrOps
<1>8. Fresh(1) = 0 /\ Fresh(26 * Chips + 1) = 0
  <2>1. 1 \in 0..(26 * Chips + 1) /\ 26 * Chips + 1 \in 0..(26 * Chips + 1)
    BY <1>1
  <2>2. QED
    BY <2>1, FreshAt
<1>9. QED
  BY <1>2, <1>3, <1>4, <1>5, <1>6, <1>7, <1>8

(***************************************************************************)
(* The invariant.                                                          *)
(***************************************************************************)

\* The commands a thread can have, by the master that is looked at.
Command == [msg : {"none", "pll", "init", "adc", "atten", "therm"}, arg : Nat \X Nat]
Own(m) == [NoCmd EXCEPT !.msg = m]
Commands(t) ==
  {NoCmd} \cup
    CASE kind = "pll"   -> {c \in {Own("pll")} : t = "main"}
      [] kind = "adc"   -> {c \in {Own("init")} : t = "main"} \cup
                           {c \in [msg : {"adc"}, arg : AdcWord] : t \in Client}
      [] kind = "dsa"   -> {c \in [msg : {"atten"}, arg : AttenMsg \X {0}] : t \in Client}
      [] kind = "therm" -> {c \in {Own("therm")} : t = "thermistor"}

CmdInv ==
  /\ cmd \in [Thread -> Command] /\ pc \in [Thread -> Nat]
  /\ \A t \in Thread : /\ cmd[t] \in Commands(t)
                       /\ pc[t] \in 0..Len(Prog(cmd[t]))
                       /\ pc[t] = 0 <=> cmd[t] = NoCmd

\* The step that a thread has before it (n = 0), and those before that one.
Back(t, n) == Prog(cmd[t])[pc[t] - n]

\* As long as no two clients have met, one thread at a time has a program.
AloneInv ==
  /\ ~overlap => \A t, u \in Thread : pc[t] # 0 /\ pc[u] # 0 => t = u
  /\ overlap => kind \in {"adc", "dsa"}
  /\ sel # 0 => kind = "therm"

\* A thread whose transfer is not over is about to wait for it.
Waiting(t) == owed[t] => /\ pc[t] > 1 /\ Back(t, 1).op = "write"
                         /\ Back(t, 0).op \in {"usleep", "delay"}
BusyInv ==
  /\ Blind => ~lat
  /\ ~Settled => \E t \in Thread : owed[t]
  /\ kind # "dsa" => \A t \in Thread : Waiting(t)

\* Queries are for registers of the chip.
AddrInv ==
  /\ lat /\ data.rd => <<sel, data.at>> \in Registers(kind)
  /\ ph = "shift" /\ treg.rd => <<sel, treg.at>> \in Registers(kind)

\* The value a register has when the word on its way has arrived.
After(r) ==
  CASE lat /\ ~data.rd /\ r = <<sel, data.at>> -> data.val
    [] ph = "shift" /\ ~treg.rd /\ r = <<sel, treg.at>> -> treg.val
    [] OTHER -> chip[r]
ResultReg == IF kind # "therm" THEN {}
             ELSE (0..(Chips - 1)) \X {Result[ch][b] : ch \in {4, 6}, b \in 1..3}
FollowInv ==
  /\ ~lost => \A r \in Registers(kind) \ ResultReg : After(r) = want[r]
  /\ \A r \in ResultReg : want[r] = Unset

\* The words of the clock chip that main() has written, and has not.
PllWord(j) == PllWords(PllSetup)[j]
PllInv ==
  kind = "pll" =>
    /\ \A j \in 1..32 :
         want[<<0, PllWord(j)[1]>>] =
           IF pc["main"] \in 1..(2 * j - 1) THEN Unset ELSE PllWord(j)[2]
    /\ pc["main"] \in 1..63 => chip[<<0, Update[1]>>] = Unset
    /\ pc["main"] \notin 1..63 =>
         \A j \in 1..31 : chip[<<0, PllWord(j)[1]>>] = PllWord(j)[2]

\* A word is on its way, or it has arrived: a query has its answer, a start of a
\* conversion runs or has left this round's result.
OnItsWay(w) ==
  \/ ph = "idle" /\ lat /\ data = w
  \/ ph = "shift" /\ treg = w
Answer(w) ==
  rdata = <<sel, w.at, IF kind = "therm" THEN turn ELSE chip[<<sel, w.at>>]>>
Converted(ch) == \A b \in 1..3 : chip[<<sel, Result[ch][b]>>] = turn
Done(w) ==
  /\ w.rd => Answer(w)
  /\ kind = "therm" /\ ~w.rd /\ w.at = Start => conv[sel] = w.val \/ Converted(w.val)
Sent(w) == OnItsWay(w) \/ (~lat /\ ph # "shift" /\ Done(w))
SendInv ==
  ~overlap /\ kind # "dsa" =>
    \A t \in Thread : pc[t] > 1 /\ Back(t, 1).op = "write" => Sent(Back(t, 1).word)
ReadInv ==
  ~overlap => \A t \in Thread : pc[t] # 0 /\ Back(t, 0).op = "read" =>
                                  Settled /\ Answer(Back(t, 2).word)

\* A conversion runs only while the thermistor thread waits for it.
ConvInv ==
  \A c \in DOMAIN conv : conv[c] # 0 =>
    /\ kind = "therm" /\ c = sel /\ pc["thermistor"] > 1
    /\ Back("thermistor", 0).op = "delay" /\ conv[c] = Back("thermistor", 1).word.val
    /\ ~lat /\ ph # "shift"

FreshInv ==
  kind = "therm" /\ Fresh(pc["thermistor"]) # 0 => Converted(Fresh(pc["thermistor"]))

Inv ==
  /\ TypeOK /\ CmdInv /\ AloneInv /\ BusyInv /\ AddrInv /\ FollowInv /\ PllInv
  /\ SendInv /\ ReadInv /\ ConvInv /\ FreshInv /\ LostByCrowdOnly

\* The commands of a master, and what holds of their programs.
Work(k) ==
  CASE k = "pll"   -> {Own("pll")}
    [] k = "adc"   -> {Own("init")} \cup [msg : {"adc"}, arg : AdcWord]
    [] k = "dsa"   -> [msg : {"atten"}, arg : AttenMsg \X {0}]
    [] k = "therm" -> {Own("therm")}
Good(k, P) ==
  /\ P \in Seq(Instr) /\ Len(P) >= 1
  /\ k # "dsa" => Paced(P)
  /\ k = "dsa" => /\ Len(P) = 1 /\ P[1].op = "write"
                  /\ P[1].word.rd = FALSE /\ P[1].word.at = 0
  /\ k # "therm" => \A i \in 1..Len(P) :
       /\ P[i].op \in {"write", "usleep", "read"}
       /\ P[i].op = "write" /\ P[i].word.rd => <<0, P[i].word.at>> \in Registers(k)
  /\ k = "therm" => P = thermistors_push
  /\ k = "pll" => P = prog_ad9510

\* Tame programs are good ones of the clock chip and of the ADCs.
LEMMA TameIsGood ==
  ASSUME NEW k \in {"pll", "adc"}, NEW P, NEW A, Tame(P, A),
         \A a \in A : <<0, a>> \in Registers(k), k = "pll" => P = prog_ad9510
  PROVE  Good(k, P)
BY DEF Good, Tame, Paced

\* ad9510_init: every word of the table, each with its wait.
LEMMA PllIsGood ==
  /\ Good("pll", prog_ad9510) /\ Len(prog_ad9510) = 64
  /\ \A j \in 1..32 : /\ prog_ad9510[2 * j - 1] = Write(Word(PllWord(j)[1], PllWord(j)[2]))
                      /\ prog_ad9510[2 * j] = Usleep
<1> DEFINE W == PllWords(PllSetup)
<1>1. W \in Seq((0..255) \X (0..255)) /\ Len(W) = 32
  BY PllSteps DEF Pair, Byte
<1>2. prog_ad9510 = Each(W)
  BY DEF prog_ad9510
<1> HIDE DEF W
<1>3. W \in Seq((0..255) \X (0..255))
  BY <1>1
<1>4. /\ Len(Each(W)) = 2 * Len(W)
      /\ \A j \in 1..Len(W) :
            /\ Each(W)[2 * j - 1] = Write(Word(W[j][1], W[j][2]))
            /\ Each(W)[2 * j] = Usleep
  BY ONLY <1>3, EachSteps
<1>5. Tame(Each(W), {})
  <2>1. Len(W) >= 1
    BY <1>1
  <2>2. QED
    BY ONLY <1>3, <2>1, TameEach
<1>6. Len(prog_ad9510) = 64
  BY <1>1, <1>2, <1>4
<1>7. Good("pll", prog_ad9510)
  BY <1>2, <1>5, <1>6, TameIsGood
<1>8. \A j \in 1..32 : /\ prog_ad9510[2 * j - 1] = Write(Word(PllWord(j)[1], PllWord(j)[2]))
                       /\ prog_ad9510[2 * j] = Usleep
  BY <1>1, <1>2, <1>4 DEF PllWord, W
<1>9. QED
  BY <1>6, <1>7, <1>8

\* ltc2195_init and the messages for the ADCs.
LEMMA AdcIsGood ==
  /\ Good("adc", ltc2195_init)
  /\ \A w \in AdcWord : Good("adc", AdcSpi(w[1], w[2]))
<1> DEFINE A == 1..4 \cup {AdcReg(w[1]) : w \in AdcWord}
<1>1. \A a \in A : <<0, a>> \in Registers("adc")
  BY DEF Registers
<1>2. Tame(ltc2195_init, A)
  BY InitTame
<1>3. ASSUME NEW w \in AdcWord
      PROVE  Tame(AdcSpi(w[1], w[2]), A)
  <2>1. w[1] \in 0..255 /\ w[2] \in 0..255
    BY WordAssumption
  <2>2. AdcReg(w[1]) \in A
    OBVIOUS
  <2> HIDE DEF A
  <2>3. QED
    BY <2>1, <2>2, AdcSpiTame
<1> HIDE DEF A
<1>4. QED
  BY <1>1, <1>2, <1>3, TameIsGood

\* The attenuator's one word.
LEMMA DsaIsGood ==
  ASSUME NEW v \in Nat
  PROVE  Good("dsa", set_atten(v))
<1> DEFINE w == Word(0, Atten(v))
           P == set_atten(v)
<1>1. Atten(v) \in 0..255
  <2>1. 4 * v \in Nat
    OBVIOUS
  <2>2. \A n \in Nat : n % 256 \in 0..255
    OBVIOUS
  <2>3. QED
    BY <2>1, <2>2 DEF Atten
<1>2. w \in WordSet /\ w.rd = FALSE /\ w.at = 0
  <2>1. w \in WordSet
    BY <1>1 DEF Word, WordSet
  <2>2. w.rd = FALSE /\ w.at = 0
    BY DEF Word
  <2>3. QED
    BY <2>1, <2>2
<1>3. P = <<Write(w)>>
  BY DEF set_atten
<1> HIDE DEF w, P
<1>4. Write(w) \in Instr
  BY <1>2 DEF Instr
<1>5. P \in Seq(Instr) /\ Len(P) = 1 /\ P[1] = Write(w)
  BY <1>3, <1>4
<1>6. P[1].op = "write" /\ P[1].word = w
  BY <1>5, InstrOps
<1>7. P[1].word.rd = FALSE /\ P[1].word.at = 0
  BY <1>2, <1>6
<1>8. \A i \in 1..Len(P) : i = 1
  BY <1>5
<1>9. QED
  BY <1>5, <1>6, <1>7, <1>8 DEF Good, P

\* The thermistor thread.
LEMMA ThermIsGood ==
  Good("therm", thermistors_push)
<1> DEFINE P == thermistors_push
<1>1. P \in Seq(Instr) /\ Len(P) = 50 * Chips + 1 /\ \A i \in 1..Len(P) : ThermRule(P, i)
  BY ThermRules
<1>2. Len(P) >= 1
  BY <1>1, ChipsAssumption
<1> HIDE DEF P
<1>3. ASSUME NEW i \in 1..Len(P)
      PROVE  /\ P[i].op = "write" => i < Len(P) /\ P[i + 1] \in Wait
             /\ P[i].op = "read" =>
                  i > 2 /\ P[i - 1] = Usleep /\ P[i - 2].op = "write" /\ P[i - 2].word.rd
  <2>1. ThermRule(P, i)
    BY <1>1
  <2>2. Usleep \in Wait /\ Op("delay") \in Wait
    BY DEF Wait
  <2>3. ASSUME P[i].op = "write" PROVE i < Len(P) /\ P[i + 1] \in Wait
    BY <2>1, <2>2, <2>3 DEF ThermRule, QueryRule, SettingRule, StartRule
  <2>4. ASSUME P[i].op = "read"
        PROVE  i > 2 /\ P[i - 1] = Usleep /\ P[i - 2].op = "write" /\ P[i - 2].word.rd
    BY <2>1, <2>4 DEF ThermRule, ReadRule
  <2>5. QED
    BY <2>3, <2>4
<1>4. Paced(P)
  BY <1>1, <1>3 DEF Paced
<1>5. QED
  BY <1>1, <1>2, <1>4 DEF Good, P

\* Every command has a good program.
LEMMA ProgGood ==
  ASSUME NEW k \in Kind, NEW c \in Work(k)
  PROVE  Good(k, Prog(c)) /\ c # NoCmd /\ c \in Command
<1>1. /\ \A m : Own(m) = [msg |-> m, arg |-> <<0, 0>>]
      /\ NoCmd = [msg |-> "none", arg |-> <<0, 0>>]
  BY DEF Own, NoCmd
<1>2. CASE k = "pll"
  <2>1. c = Own("pll")
    BY <1>2 DEF Work
  <2>2. c.msg = "pll" /\ c \in Command /\ c # NoCmd
    BY <1>1, <2>1 DEF Command
  <2>3. Prog(c) = prog_ad9510
    BY <2>2 DEF Prog
  <2>4. QED
    BY <1>2, <2>2, <2>3, PllIsGood
<1>3. CASE k = "adc" /\ c = Own("init")
  <2>1. c.msg = "init" /\ c \in Command /\ c # NoCmd
    BY <1>1, <1>3 DEF Command
  <2>2. Prog(c) = ltc2195_init
    BY <2>1 DEF Prog
  <2>3. QED
    BY <1>3, <2>1, <2>2, AdcIsGood
<1>4. CASE k = "adc" /\ c # Own("init")
  <2>1. c \in [msg : {"adc"}, arg : AdcWord]
    BY <1>4 DEF Work
  <2>2. c.msg = "adc" /\ c.arg \in AdcWord /\ c = [msg |-> "adc", arg |-> c.arg]
    BY <2>1
  <2>3. c.arg \in Nat \X Nat
    BY <2>2, WordAssumption
  <2>4. c \in Command /\ c # NoCmd
    BY <1>1, <2>2, <2>3 DEF Command
  <2>5. Prog(c) = AdcSpi(c.arg[1], c.arg[2])
    BY <2>2 DEF Prog
  <2>6. QED
    BY <1>4, <2>2, <2>4, <2>5, AdcIsGood
<1>5. CASE k = "dsa"
  <2>1. c \in [msg : {"atten"}, arg : AttenMsg \X {0}]
    BY <1>5 DEF Work
  <2>2. c.msg = "atten" /\ c.arg \in AttenMsg \X {0} /\ c = [msg |-> "atten", arg |-> c.arg]
    BY <2>1
  <2>3. c.arg \in Nat \X Nat /\ c.arg[1] \in Nat
    BY <2>2, AttenAssumption
  <2>4. c \in Command /\ c # NoCmd
    BY <1>1, <2>2, <2>3 DEF Command
  <2>5. Prog(c) = set_atten(c.arg[1])
    BY <2>2 DEF Prog
  <2>6. QED
    BY <1>5, <2>3, <2>4, <2>5, DsaIsGood
<1>6. CASE k = "therm"
  <2>1. c = Own("therm")
    BY <1>6 DEF Work
  <2>2. c.msg = "therm" /\ c \in Command /\ c # NoCmd
    BY <1>1, <2>1 DEF Command
  <2>3. Prog(c) = thermistors_push
    BY <2>2 DEF Prog
  <2>4. QED
    BY <1>6, <2>2, <2>3, ThermIsGood
<1>7. QED
  BY <1>2, <1>3, <1>4, <1>5, <1>6 DEF Kind

(***************************************************************************)
(* The steps of the threads.                                               *)
(***************************************************************************)

DoWrite(t) ==
  /\ pc[t] # 0 /\ Back(t, 0).op = "write"
  /\ WriteWord(t, Back(t, 0).word) /\ UNCHANGED <<kind, conv, overlap>>
DoSelect(t) ==
  /\ pc[t] # 0 /\ Back(t, 0).op = "select"
  /\ SelectChip(t, Back(t, 0).chip) /\ UNCHANGED <<kind, conv, overlap>>
DoWait(t) ==
  /\ pc[t] # 0 /\ Back(t, 0).op \in {"usleep", "delay", "read"}
  /\ WaitOrRead(t, Back(t, 0).op) /\ UNCHANGED <<kind, conv, overlap>>
DoSend(t) ==
  /\ pc[t] # 0 /\ Back(t, 0).op = "send"
  /\ SendRecord(t) /\ UNCHANGED <<kind, conv, overlap>>

\* A thread's program ends, or it goes on to its next step.
Moves(t) ==
  /\ \A u \in Thread \ {t} : pc'[u] = pc[u] /\ cmd'[u] = cmd[u]
  /\ \/ pc[t] = Len(Prog(cmd[t])) /\ pc'[t] = 0 /\ cmd'[t] = NoCmd
     \/ pc[t] < Len(Prog(cmd[t])) /\ pc'[t] = pc[t] + 1 /\ cmd'[t] = cmd[t]

\* The three kinds of threads.
LEMMA ThreadFacts ==
  /\ "main" \in Thread /\ "thermistor" \in Thread /\ "main" # "thermistor"
  /\ \A t \in Client : t \in Thread /\ t # "main" /\ t # "thermistor"
BY ClientAssumption DEF Thread

\* A thread that has a program works for the master, and is in the program.
LEMMA AtWork ==
  ASSUME CmdInv, kind \in Kind, NEW t \in Thread, pc[t] # 0
  PROVE  /\ cmd[t] \in Work(kind) /\ Good(kind, Prog(cmd[t]))
         /\ pc[t] \in 1..Len(Prog(cmd[t])) /\ Len(Prog(cmd[t])) \in Nat
         /\ pc[t] \in Nat /\ pc[t] - 0 = pc[t] /\ Back(t, 0) = Prog(cmd[t])[pc[t]]
         /\ kind = "pll" => t = "main" /\ cmd[t] = Own("pll")
         /\ kind = "therm" => t = "thermistor" /\ cmd[t] = Own("therm")
<1>1. pc[t] \in 0..Len(Prog(cmd[t])) /\ cmd[t] # NoCmd /\ cmd[t] \in Commands(t) /\ pc[t] \in Nat
  BY DEF CmdInv
<1>2. /\ cmd[t] \in Work(kind)
      /\ kind = "pll" => t = "main" /\ cmd[t] = Own("pll")
      /\ kind = "therm" => t = "thermistor" /\ cmd[t] = Own("therm")
  BY <1>1 DEF Commands, Work, Kind
<1>3. Good(kind, Prog(cmd[t]))
  BY <1>2, ProgGood
<1>4. Len(Prog(cmd[t])) \in Nat
  BY <1>3, LenProperties DEF Good
<1>5. pc[t] \in 1..Len(Prog(cmd[t]))
  BY <1>1, <1>4
<1>6. Back(t, 0) = Prog(cmd[t])[pc[t]]
  BY <1>1 DEF Back
<1>7. QED
  BY <1>1, <1>2, <1>3, <1>4, <1>5, <1>6

\* A step is one of the four.
LEMMA StepKinds ==
  ASSUME CmdInv, kind \in Kind, NEW t \in Thread, Step(t)
  PROVE  pc[t] # 0 /\ (DoWrite(t) \/ DoSelect(t) \/ DoWait(t) \/ DoSend(t))
<1>1. pc[t] # 0
  BY DEF Step
<1>2. Back(t, 0) = Prog(cmd[t])[pc[t]]
  BY <1>1, AtWork
<1>3. /\ UNCHANGED <<kind, conv, overlap>>
      /\ \/ Back(t, 0).op = "write" /\ WriteWord(t, Back(t, 0).word)
         \/ Back(t, 0).op = "select" /\ SelectChip(t, Back(t, 0).chip)
         \/ Back(t, 0).op = "send" /\ SendRecord(t)
         \/ WaitOrRead(t, Back(t, 0).op)
  BY <1>2 DEF Step
<1>4. WaitOrRead(t, Back(t, 0).op) => Back(t, 0).op \in {"usleep", "delay", "read"}
  BY DEF WaitOrRead
<1>5. QED
  BY <1>1, <1>3, <1>4 DEF DoWrite, DoSelect, DoWait, DoSend

\* What Goto does, and
LEMMA GotoMoves ==
  ASSUME CmdInv, kind \in Kind, NEW t \in Thread, pc[t] # 0, Goto(t)
  PROVE  Moves(t) /\ cmd' \in [Thread -> Command] /\ pc' \in [Thread -> Nat]
<1>1. cmd \in [Thread -> Command] /\ pc \in [Thread -> Nat]
  BY DEF CmdInv
<1>2. pc[t] \in 1..Len(Prog(cmd[t])) /\ Len(Prog(cmd[t])) \in Nat
  BY AtWork
<1>3. NoCmd \in Command
  BY DEF NoCmd, Command
<1>4. /\ pc' = [pc EXCEPT ![t] = IF pc[t] = Len(Prog(cmd[t])) THEN 0 ELSE pc[t] + 1]
      /\ cmd' = IF pc[t] = Len(Prog(cmd[t])) THEN [cmd EXCEPT ![t] = NoCmd] ELSE cmd
  BY <1>1 DEF Goto
<1>5. cmd' \in [Thread -> Command] /\ pc' \in [Thread -> Nat]
  BY <1>1, <1>2, <1>3, <1>4
<1>6. \A u \in Thread \ {t} : pc'[u] = pc[u] /\ cmd'[u] = cmd[u]
  BY <1>1, <1>4
<1>7. CASE pc[t] = Len(Prog(cmd[t]))
  <2>1. pc'[t] = 0 /\ cmd'[t] = NoCmd
    BY <1>1, <1>4, <1>7
  <2>2. QED
    BY <1>5, <1>6, <1>7, <2>1 DEF Moves
<1>8. CASE pc[t] # Len(Prog(cmd[t]))
  <2>1. pc'[t] = pc[t] + 1 /\ cmd'[t] = cmd[t] /\ pc[t] < Len(Prog(cmd[t]))
    BY <1>1, <1>2, <1>4, <1>8
  <2>2. QED
    BY <1>5, <1>6, <2>1 DEF Moves
<1>9. QED
  BY <1>7, <1>8

\* what sending the record does: back to the first of the readings.
LEMMA SendMoves ==
  ASSUME CmdInv, kind \in Kind, NEW t \in Thread, DoSend(t)
  PROVE  /\ kind = "therm" /\ t = "thermistor" /\ cmd' = cmd /\ pc' \in [Thread -> Nat]
         /\ pc'[t] = 26 * Chips + 1 /\ \A u \in Thread \ {t} : pc'[u] = pc[u]
         /\ Prog(cmd[t]) = thermistors_push
<1>1. pc[t] # 0 /\ Back(t, 0).op = "send"
  BY DEF DoSend
<1>2. /\ Good(kind, Prog(cmd[t])) /\ pc[t] \in 1..Len(Prog(cmd[t]))
      /\ Back(t, 0) = Prog(cmd[t])[pc[t]]
      /\ kind = "therm" => t = "thermistor"
  BY <1>1, AtWork
<1>3. kind = "therm"
  <2>1. kind # "therm" => Prog(cmd[t])[pc[t]].op \in {"write", "usleep", "read"}
    BY <1>2 DEF Good
  <2>2. QED
    BY <1>1, <1>2, <2>1
<1>4. Prog(cmd[t]) = thermistors_push
  BY <1>2, <1>3 DEF Good
<1>5. pc[t] = 50 * Chips + 1
  <2>1. ThermRule(thermistors_push, pc[t])
    BY <1>2, <1>4, ThermRules
  <2>2. thermistors_push[pc[t]].op = "send"
    BY <1>1, <1>2, <1>4
  <2>3. pc[t] = Len(thermistors_push)
    BY <2>1, <2>2 DEF ThermRule
  <2>4. QED
    BY <2>3, ThermRules
<1>6. pc \in [Thread -> Nat] /\ pc' = [pc EXCEPT ![t] = pc[t] + 1 - Len(ThermLoop)] /\ cmd' = cmd
  BY DEF CmdInv, DoSend, SendRecord
<1>7. pc[t] + 1 - Len(ThermLoop) = 26 * Chips + 1 /\ 26 * Chips + 1 \in Nat
  <2>1. Len(ThermLoop) = 24 * Chips + 1 /\ Chips \in Nat
    BY ThermSteps, ChipsAssumption
  <2>2. QED
    BY <1>5, <2>1
<1>8. QED
  BY <1>2, <1>3, <1>4, <1>6, <1>7

(***************************************************************************)
(* Programs and places; one thread at a time.                              *)
(***************************************************************************)

\* A behaviour looks at one master.
LEMMA KindStays ==
  ASSUME Next
  PROVE  kind' = kind
BY DEF Next, Accept, Finish, Clear, Convert, Step, Receive

\* A message is work for its master.
LEMMA MessageWork ==
  ASSUME kind \in Kind, NEW m \in Message
  PROVE  /\ kind \in {"adc", "dsa"} /\ m \in Work(kind) /\ Good(kind, Prog(m))
         /\ m # NoCmd /\ m \in Command /\ Len(Prog(m)) \in Nat
<1>1. kind \in {"adc", "dsa"} /\ m \in Work(kind)
  BY DEF Message, Work, Kind
<1>2. Good(kind, Prog(m)) /\ m # NoCmd /\ m \in Command
  BY <1>1, ProgGood
<1>3. QED
  BY <1>1, <1>2, LenProperties DEF Good

\* Programs and places stay in their ranges.
LEMMA CmdStep ==
  ASSUME Inv, Next
  PROVE  CmdInv'
<1>1. CmdInv /\ kind \in Kind /\ kind' = kind
  BY KindStays DEF Inv, TypeOK
<1>2. \A t \in Thread : /\ cmd[t] \in Commands(t) /\ pc[t] \in 0..Len(Prog(cmd[t]))
                        /\ pc[t] = 0 <=> cmd[t] = NoCmd
  BY <1>1 DEF CmdInv
<1>3. \A t \in Thread : NoCmd \in Commands(t) /\ Commands(t)' = Commands(t)
  BY <1>1 DEF Commands
<1>4. ASSUME cmd' = cmd, pc' = pc
      PROVE  CmdInv'
  BY <1>1, <1>3, <1>4 DEF CmdInv
<1>5. CASE Accept \/ Finish \/ Clear \/ \E c \in 0..(Chips - 1) : Convert(c)
  <2>1. cmd' = cmd /\ pc' = pc
    BY <1>5 DEF Accept, Finish, Clear, Convert, threads
  <2>2. QED
    BY <1>4, <2>1
<1>6. ASSUME NEW t \in Thread, Step(t)
      PROVE  CmdInv'
  <2>1. pc[t] # 0 /\ (DoWrite(t) \/ DoSelect(t) \/ DoWait(t) \/ DoSend(t))
    BY <1>1, <1>6, StepKinds
  <2>2. CASE DoSend(t)
    <3>1. /\ kind = "therm" /\ t = "thermistor" /\ cmd' = cmd /\ pc' \in [Thread -> Nat]
          /\ pc'[t] = 26 * Chips + 1 /\ \A u \in Thread \ {t} : pc'[u] = pc[u]
          /\ Prog(cmd[t]) = thermistors_push
      BY <1>1, <2>2, SendMoves
    <3>2. pc'[t] \in 0..Len(Prog(cmd'[t])) /\ pc'[t] # 0
      <4>1. Len(thermistors_push) = 50 * Chips + 1 /\ Chips \in Nat \ {0}
        BY ThermRules, ChipsAssumption
      <4>2. QED
        BY <3>1, <4>1
    <3>3. cmd'[t] # NoCmd
      BY <1>2, <2>1, <3>1
    <3>4. cmd' \in [Thread -> Command]
      BY <1>1, <3>1 DEF CmdInv
    <3>5. QED
      BY <1>2, <1>3, <3>1, <3>2, <3>3, <3>4 DEF CmdInv
  <2>3. CASE DoWrite(t) \/ DoSelect(t) \/ DoWait(t)
    <3>1. Goto(t)
      BY <2>3 DEF DoWrite, DoSelect, DoWait, WriteWord, SelectChip, WaitOrRead
    <3>2. Moves(t) /\ cmd' \in [Thread -> Command] /\ pc' \in [Thread -> Nat]
      BY <1>1, <2>1, <3>1, GotoMoves
    <3>3. pc[t] \in Nat /\ Len(Prog(cmd[t])) \in Nat
      BY <1>1, <2>1, AtWork
    <3>4. cmd'[t] \in Commands(t) /\ (pc'[t] = 0 <=> cmd'[t] = NoCmd)
      BY <1>2, <1>3, <2>1, <3>2, <3>3 DEF Moves
    <3>5. pc'[t] \in 0..Len(Prog(cmd'[t]))
      <4>1. CASE pc'[t] = 0
        <5>1. cmd'[t] = NoCmd
          BY <3>4, <4>1
        <5>2. Prog(NoCmd) = <<>>
          BY DEF Prog, NoCmd
        <5>3. Len(Prog(cmd'[t])) \in Nat
          BY <5>1, <5>2
        <5>4. QED
          BY <4>1, <5>3
      <4>2. CASE pc'[t] # 0
        BY <3>2, <3>3, <4>2 DEF Moves
      <4>3. QED
        BY <4>1, <4>2
    <3>6. QED
      BY <1>2, <1>3, <3>2, <3>4, <3>5 DEF CmdInv, Moves
  <2>4. QED
    BY <2>1, <2>2, <2>3
<1>7. ASSUME NEW t \in Client, NEW m \in Message, Receive(t, m)
      PROVE  CmdInv'
  <2>1. /\ kind \in {"adc", "dsa"} /\ m \in Work(kind) /\ Good(kind, Prog(m))
        /\ m # NoCmd /\ m \in Command /\ Len(Prog(m)) \in Nat
    BY <1>1, MessageWork
  <2>2. m \in Commands(t)
    BY <2>1 DEF Commands, Message
  <2>3. cmd' = [cmd EXCEPT ![t] = m] /\ pc' = [pc EXCEPT ![t] = 1] /\ t \in Thread
    BY <1>7, ThreadFacts DEF Receive
  <2>4. cmd \in [Thread -> Command] /\ pc \in [Thread -> Nat]
    BY <1>1 DEF CmdInv
  <2>5. cmd' \in [Thread -> Command] /\ pc' \in [Thread -> Nat]
    BY <2>1, <2>3, <2>4
  <2>6. cmd'[t] = m /\ pc'[t] = 1 /\ \A u \in Thread \ {t} : cmd'[u] = cmd[u] /\ pc'[u] = pc[u]
    BY <2>3, <2>4
  <2>7. 1 \in 0..Len(Prog(m))
    BY <2>1 DEF Good
  <2>8. QED
    BY <1>2, <1>3, <2>1, <2>2, <2>5, <2>6, <2>7 DEF CmdInv
<1>8. QED
  BY <1>5, <1>6, <1>7 DEF Next

\* One thread at a time has a program, unless two clients have met.
LEMMA AloneStep ==
  ASSUME Inv, Next
  PROVE  AloneInv'
<1>1. CmdInv /\ AloneInv /\ kind \in Kind /\ kind' = kind
  BY KindStays DEF Inv, TypeOK
<1>2. CASE Accept \/ Finish \/ Clear \/ \E c \in 0..(Chips - 1) : Convert(c)
  <2>1. pc' = pc /\ overlap' = overlap /\ sel' = sel
    BY <1>2 DEF Accept, Finish, Clear, Convert, threads
  <2>2. QED
    BY <1>1, <2>1 DEF AloneInv
<1>3. ASSUME NEW t \in Thread, Step(t)
      PROVE  AloneInv'
  <2>1. pc[t] # 0 /\ (DoWrite(t) \/ DoSelect(t) \/ DoWait(t) \/ DoSend(t))
    BY <1>1, <1>3, StepKinds
  <2>2. overlap' = overlap
    BY <1>3 DEF Step
  <2>3. \A u \in Thread \ {t} : pc'[u] = pc[u]
    <3>1. CASE DoSend(t)
      BY <1>1, <3>1, SendMoves
    <3>2. CASE DoWrite(t) \/ DoSelect(t) \/ DoWait(t)
      <4>1. Goto(t)
        BY <3>2 DEF DoWrite, DoSelect, DoWait, WriteWord, SelectChip, WaitOrRead
      <4>2. QED
        BY <1>1, <2>1, <4>1, GotoMoves DEF Moves
    <3>3. QED
      BY <2>1, <3>1, <3>2
  <2>4. ~overlap' => \A u, v \in Thread : pc'[u] # 0 /\ pc'[v] # 0 => u = v
    <3>1. SUFFICES ASSUME ~overlap', NEW u \in Thread, pc'[u] # 0 PROVE u = t
      BY <3>1
    <3>2. CASE u # t
      BY <1>1, <2>1, <2>2, <2>3, <3>1, <3>2 DEF AloneInv
    <3>3. QED
      BY <3>2
  <2>5. sel' # 0 => kind' = "therm"
    <3>1. CASE DoSelect(t)
      <4>1. /\ Good(kind, Prog(cmd[t])) /\ pc[t] \in 1..Len(Prog(cmd[t]))
            /\ Back(t, 0) = Prog(cmd[t])[pc[t]]
        BY <1>1, <2>1, AtWork
      <4>2. Back(t, 0).op = "select"
        BY <3>1 DEF DoSelect
      <4>3. kind = "therm"
        BY <4>1, <4>2 DEF Good
      <4>4. QED
        BY <1>1, <4>3
    <3>2. CASE ~DoSelect(t)
      <4>1. sel' = sel
        BY <2>1, <3>2 DEF DoWrite, WriteWord, DoWait, WaitOrRead, DoSend, SendRecord
      <4>2. QED
        BY <1>1, <4>1 DEF AloneInv
    <3>3. QED
      BY <3>1, <3>2
  <2>6. QED
    BY <1>1, <2>2, <2>4, <2>5 DEF AloneInv
<1>4. ASSUME NEW t \in Client, NEW m \in Message, Receive(t, m)
      PROVE  AloneInv'
  <2>1. kind \in {"adc", "dsa"} /\ t \in Thread /\ t # "main"
    BY <1>1, MessageWork, ThreadFacts
  <2>2. /\ pc["main"] = 0 /\ sel' = sel
        /\ overlap' = (overlap \/ \E u \in Client : pc[u] # 0)
    BY <1>4 DEF Receive
  <2>3. pc \in [Thread -> Nat] /\ pc' = [pc EXCEPT ![t] = 1]
    BY <1>1, <1>4 DEF CmdInv, Receive
  <2>4. pc["thermistor"] = 0
    <3>1. pc["thermistor"] # 0 => cmd["thermistor"] # NoCmd /\ cmd["thermistor"] \in Commands("thermistor")
      BY <1>1, ThreadFacts DEF CmdInv
    <3>2. "thermistor" \notin Client /\ "thermistor" # "main"
      BY ThreadFacts
    <3>3. QED
      BY <2>1, <3>1, <3>2 DEF Commands
  <2>5. ~overlap' => \A u \in Thread : pc'[u] # 0 => u = t
    BY <2>1, <2>2, <2>3, <2>4 DEF Thread
  <2>6. QED
    BY <1>1, <2>1, <2>2, <2>5 DEF AloneInv
<1>5. QED
  BY <1>2, <1>3, <1>4 DEF Next

(***************************************************************************)
(* No word is lost, and every thread waits for its own.                    *)
(***************************************************************************)

\* The word of a write, the chip of a selection.
LEMMA InstrFacts ==
  ASSUME NEW s \in Instr
  PROVE  /\ s.op = "write" => s.word \in WordSet /\ s = Write(s.word)
         /\ s.op = "select" => s.chip \in 0..(Chips - 1)
<1>1. CASE \E w \in WordSet : s = Write(w)
  <2>1. PICK w \in WordSet : s = Write(w)
    BY <1>1
  <2>2. s.op = "write" /\ s.word = w
    BY <2>1, InstrOps
  <2>3. QED
    BY <2>1, <2>2
<1>2. CASE \E c \in 0..(Chips - 1) : s = Select(c)
  <2>1. PICK c \in 0..(Chips - 1) : s = Select(c)
    BY <1>2
  <2>2. s.op = "select" /\ s.chip = c
    BY <2>1, InstrOps
  <2>3. QED
    BY <2>2
<1>3. CASE s \in {Usleep, Op("delay"), ReadData, Op("send")}
  <2>1. s.op \in {"usleep", "delay", "read", "send"}
    BY <1>3, InstrOps
  <2>2. QED
    BY <2>1
<1>4. QED
  BY <1>1, <1>2, <1>3 DEF Instr, Wait

\* The word a thread writes.
LEMMA WordAt ==
  ASSUME CmdInv, kind \in Kind, NEW t \in Thread, DoWrite(t)
  PROVE  Back(t, 0).word \in WordSet /\ Back(t, 0) = Write(Back(t, 0).word)
<1>1. pc[t] # 0 /\ Back(t, 0).op = "write"
  BY DEF DoWrite
<1>2. /\ Good(kind, Prog(cmd[t])) /\ pc[t] \in 1..Len(Prog(cmd[t]))
      /\ Back(t, 0) = Prog(cmd[t])[pc[t]]
  BY <1>1, AtWork
<1>3. Back(t, 0) \in Instr
  BY <1>2, ElementOfSeq DEF Good
<1>4. QED
  BY <1>1, <1>3, InstrFacts

\* A thread that takes a step, with no two clients about, finds the master idle.
LEMMA Quiet ==
  ASSUME Inv, ~overlap, kind # "dsa", NEW t \in Thread, Step(t)
  PROVE  /\ Settled /\ \A u \in Thread : ~owed[u]
         /\ \A u \in Thread \ {t} : pc[u] = 0
<1>1. CmdInv /\ AloneInv /\ BusyInv /\ kind \in Kind
  BY DEF Inv, TypeOK
<1>2. pc[t] # 0 /\ (DoWrite(t) \/ DoSelect(t) \/ DoWait(t) \/ DoSend(t))
  BY <1>1, StepKinds
<1>3. \A u \in Thread \ {t} : pc[u] = 0
  BY <1>1, <1>2 DEF AloneInv
<1>4. \A u \in Thread : owed[u] => /\ pc[u] > 1
                                   /\ Back(u, 0).op \in {"usleep", "delay"}
  BY <1>1 DEF BusyInv, Waiting
<1>5. \A u \in Thread \ {t} : ~owed[u]
  BY <1>3, <1>4
<1>6. ~owed[t]
  <2>1. SUFFICES ASSUME owed[t] PROVE FALSE
    OBVIOUS
  <2>2. Back(t, 0).op \in {"usleep", "delay"}
    BY <1>4, <2>1
  <2>3. DoWait(t)
    BY <1>2, <2>2 DEF DoWrite, DoSelect, DoSend
  <2>4. QED
    BY <2>1, <2>2, <2>3 DEF DoWait, WaitOrRead
<1>7. \A u \in Thread : ~owed[u]
  BY <1>5, <1>6
<1>8. Settled
  BY <1>1, <1>7 DEF BusyInv
<1>9. QED
  BY <1>3, <1>7, <1>8

\* Who writes finds the master idle, so nothing is lost but by a crowd.
LEMMA LostStep ==
  ASSUME Inv, Next
  PROVE  LostByCrowdOnly'
<1>1. LostByCrowdOnly /\ CmdInv /\ kind \in Kind /\ kind' = kind
  BY KindStays DEF Inv, TypeOK
<1>2. ASSUME lost' = lost, overlap => overlap'
      PROVE  LostByCrowdOnly'
  BY <1>1, <1>2 DEF LostByCrowdOnly
<1>3. CASE Accept \/ Finish \/ Clear \/ \E c \in 0..(Chips - 1) : Convert(c)
  BY <1>2, <1>3 DEF Accept, Finish, Clear, Convert
<1>4. ASSUME NEW t \in Thread, Step(t)
      PROVE  LostByCrowdOnly'
  <2>1. pc[t] # 0 /\ (DoWrite(t) \/ DoSelect(t) \/ DoWait(t) \/ DoSend(t))
    BY <1>1, <1>4, StepKinds
  <2>2. overlap' = overlap
    BY <1>4 DEF Step
  <2>3. CASE DoWrite(t)
    <3>1. SUFFICES ASSUME ~overlap, kind # "dsa" PROVE lost' = lost
      BY <1>1, <2>2 DEF LostByCrowdOnly
    <3>2. Settled
      BY <1>4, <3>1, Quiet
    <3>3. ~Blind /\ ~lat
      BY <3>2 DEF Settled, Blind
    <3>4. lost' = (lost \/ Blind \/ (lat /\ kind # "dsa" /\ data # Back(t, 0).word))
      BY <2>3 DEF DoWrite, WriteWord, Strobe
    <3>5. lost \in BOOLEAN
      BY DEF Inv, TypeOK
    <3>6. QED
      BY <3>3, <3>4, <3>5
  <2>4. CASE DoSelect(t) \/ DoWait(t) \/ DoSend(t)
    <3>1. lost' = lost
      BY <2>4 DEF DoSelect, DoWait, DoSend, SelectChip, WaitOrRead, SendRecord
    <3>2. QED
      BY <1>2, <2>2, <3>1
  <2>5. QED
    BY <2>1, <2>3, <2>4
<1>5. ASSUME NEW t \in Client, NEW m \in Message, Receive(t, m)
      PROVE  LostByCrowdOnly'
  BY <1>2, <1>5 DEF Receive
<1>6. QED
  BY <1>3, <1>4, <1>5 DEF Next

\* A transfer is under way only while a thread waits for it.
LEMMA BusyStep ==
  ASSUME Inv, Next
  PROVE  BusyInv'
<1>1. /\ CmdInv /\ BusyInv /\ kind \in Kind /\ kind' = kind
      /\ lat \in BOOLEAN /\ owed \in [Thread -> BOOLEAN]
  BY KindStays DEF Inv, TypeOK
<1>2. /\ Blind => ~lat
      /\ ~Settled => \E t \in Thread : owed[t]
      /\ kind # "dsa" => \A t \in Thread : Waiting(t)
  BY <1>1 DEF BusyInv
<1>3. CASE Accept
  <2>1. ph = "idle" /\ lat /\ ph' = "shift" /\ lat' = FALSE /\ UNCHANGED <<cmd, pc, owed>>
    BY <1>3 DEF Accept, threads
  <2>2. \E t \in Thread : owed'[t]
    BY <1>2, <2>1 DEF Settled
  <2>3. kind # "dsa" => \A t \in Thread : Waiting(t)'
    BY <1>2, <2>1 DEF Waiting, Back
  <2>4. QED
    BY <1>1, <2>1, <2>2, <2>3 DEF BusyInv
<1>4. CASE Finish
  <2>1. ph = "shift" /\ ph' = "clear" /\ lat' = lat /\ UNCHANGED <<cmd, pc, owed>>
    BY <1>4 DEF Finish, threads
  <2>2. ~lat'
    BY <1>2, <2>1 DEF Blind
  <2>3. \E t \in Thread : owed'[t]
    BY <1>2, <2>1 DEF Settled
  <2>4. kind # "dsa" => \A t \in Thread : Waiting(t)'
    BY <1>2, <2>1 DEF Waiting, Back
  <2>5. QED
    BY <1>1, <2>2, <2>3, <2>4 DEF BusyInv
<1>5. CASE Clear
  <2>1. ph = "clear" /\ ph' = "idle" /\ lat' = lat /\ owed' = [t \in Thread |-> FALSE]
    BY <1>5 DEF Clear
  <2>2. ~lat'
    BY <1>2, <2>1 DEF Blind
  <2>3. ~Blind' /\ Settled'
    BY <2>1, <2>2 DEF Blind, Settled
  <2>4. \A t \in Thread : ~owed'[t]
    BY <2>1
  <2>5. QED
    BY <2>3, <2>4 DEF BusyInv, Waiting
<1>6. ASSUME NEW c \in 0..(Chips - 1), Convert(c)
      PROVE  BusyInv'
  <2>1. UNCHANGED <<ph, lat, cmd, pc, owed>>
    BY <1>6 DEF Convert, threads
  <2>2. QED
    BY <1>1, <2>1 DEF BusyInv, Waiting, Back, Blind, Settled
<1>7. ASSUME NEW t \in Thread, Step(t)
      PROVE  BusyInv'
  <2>1. pc[t] # 0 /\ (DoWrite(t) \/ DoSelect(t) \/ DoWait(t) \/ DoSend(t))
    BY <1>1, <1>7, StepKinds
  <2>2. CASE DoWrite(t)
    <3>1. /\ ph' = ph /\ lat' = (lat \/ ~Blind) /\ owed' = [owed EXCEPT ![t] = TRUE]
          /\ Goto(t) /\ Back(t, 0).op = "write"
      BY <2>2 DEF DoWrite, WriteWord, Strobe
    <3>2. Moves(t)
      BY <1>1, <2>1, <3>1, GotoMoves
    <3>3. Blind' => ~lat'
      BY <1>2, <3>1 DEF Blind
    <3>4. owed'[t] /\ \A u \in Thread \ {t} : owed'[u] = owed[u]
      BY <1>1, <3>1
    <3>5. ASSUME kind # "dsa", NEW u \in Thread
          PROVE  Waiting(u)'
      <4>1. CASE u = t
        <5>1. /\ Good(kind, Prog(cmd[t])) /\ pc[t] \in 1..Len(Prog(cmd[t]))
              /\ Back(t, 0) = Prog(cmd[t])[pc[t]] /\ Len(Prog(cmd[t])) \in Nat
          BY <1>1, <2>1, AtWork
        <5>2. pc[t] < Len(Prog(cmd[t])) /\ Prog(cmd[t])[pc[t] + 1] \in Wait
          BY <3>1, <3>5, <5>1 DEF Good, Paced
        <5>3. pc'[t] = pc[t] + 1 /\ cmd'[t] = cmd[t]
          BY <3>2, <5>1, <5>2 DEF Moves
        <5>4. pc'[t] > 1 /\ pc'[t] - 1 = pc[t] /\ pc'[t] - 0 = pc[t] + 1
          BY <5>1, <5>3
        <5>5. Prog(cmd[t])[pc[t] + 1].op \in {"usleep", "delay"}
          BY <5>2, InstrOps DEF Wait
        <5>6. Back(t, 1)' = Back(t, 0) /\ Back(t, 0)' = Prog(cmd[t])[pc[t] + 1]
          BY <5>1, <5>3, <5>4 DEF Back
        <5>7. QED
          BY <3>1, <4>1, <5>4, <5>5, <5>6 DEF Waiting
      <4>2. CASE u # t
        BY <1>2, <3>2, <3>4, <3>5, <4>2 DEF Waiting, Back, Moves
      <4>3. QED
        BY <4>1, <4>2
    <3>6. QED
      BY <1>1, <3>3, <3>4, <3>5 DEF BusyInv
  <2>3. CASE DoSelect(t) \/ DoWait(t) \/ DoSend(t)
    <3>1. ph' = ph /\ lat' = lat /\ owed' = owed
      BY <2>3 DEF DoSelect, DoWait, DoSend, SelectChip, WaitOrRead, SendRecord, master
    <3>2. \A u \in Thread \ {t} : pc'[u] = pc[u] /\ cmd'[u] = cmd[u]
      <4>1. CASE DoSend(t)
        BY <1>1, <4>1, SendMoves
      <4>2. CASE DoSelect(t) \/ DoWait(t)
        <5>1. Goto(t)
          BY <4>2 DEF DoSelect, DoWait, SelectChip, WaitOrRead
        <5>2. QED
          BY <1>1, <2>1, <5>1, GotoMoves DEF Moves
      <4>3. QED
        BY <2>3, <4>1, <4>2
    <3>3. kind # "dsa" => ~owed[t]
      <4>1. SUFFICES ASSUME kind # "dsa", owed[t] PROVE FALSE
        OBVIOUS
      <4>2. Back(t, 0).op \in {"usleep", "delay"}
        BY <1>2, <4>1 DEF Waiting
      <4>3. DoWait(t)
        BY <2>3, <4>2 DEF DoSelect, DoSend
      <4>4. QED
        BY <4>1, <4>2, <4>3 DEF DoWait, WaitOrRead
    <3>4. ASSUME kind # "dsa", NEW u \in Thread
          PROVE  Waiting(u)'
      BY <1>2, <3>1, <3>2, <3>3, <3>4 DEF Waiting, Back
    <3>5. (Blind => ~lat)' /\ (~Settled => \E u \in Thread : owed[u])'
      BY <1>2, <3>1 DEF Blind, Settled
    <3>6. QED
      BY <1>1, <3>4, <3>5 DEF BusyInv
  <2>4. QED
    BY <2>1, <2>2, <2>3
<1>8. ASSUME NEW t \in Client, NEW m \in Message, Receive(t, m)
      PROVE  BusyInv'
  <2>1. /\ ph' = ph /\ lat' = lat /\ owed' = owed /\ pc[t] = 0 /\ t \in Thread
        /\ cmd' = [cmd EXCEPT ![t] = m] /\ pc' = [pc EXCEPT ![t] = 1]
    BY <1>8, ThreadFacts DEF Receive, master
  <2>2. \A u \in Thread \ {t} : pc'[u] = pc[u] /\ cmd'[u] = cmd[u]
    BY <1>1, <2>1 DEF CmdInv
  <2>3. kind # "dsa" => ~owed[t]
    BY <1>2, <2>1 DEF Waiting
  <2>4. ASSUME kind # "dsa", NEW u \in Thread
        PROVE  Waiting(u)'
    BY <1>2, <2>1, <2>2, <2>3, <2>4 DEF Waiting, Back
  <2>5. (Blind => ~lat)' /\ (~Settled => \E u \in Thread : owed[u])'
    BY <1>2, <2>1 DEF Blind, Settled
  <2>6. QED
    BY <1>1, <2>4, <2>5 DEF BusyInv
<1>9. QED
  BY <1>3, <1>4, <1>5, <1>6, <1>7, <1>8 DEF Next

(***************************************************************************)
(* The words on their way are for registers of the chip they go to.        *)
(***************************************************************************)

\* The rule of the step the thermistor thread is at.
LEMMA ThermAt ==
  ASSUME CmdInv, kind = "therm", NEW t \in Thread, pc[t] # 0
  PROVE  /\ t = "thermistor" /\ Prog(cmd[t]) = thermistors_push
         /\ \A i \in 1..pc[t] : ThermRule(Prog(cmd[t]), i)
<1>1. kind \in Kind
  BY DEF Kind
<1>2. /\ Good(kind, Prog(cmd[t])) /\ t = "thermistor"
      /\ pc[t] \in 1..Len(Prog(cmd[t])) /\ Len(Prog(cmd[t])) \in Nat
  BY <1>1, AtWork
<1>3. Prog(cmd[t]) = thermistors_push
  BY <1>2 DEF Good
<1>4. \A i \in 1..pc[t] : i \in 1..Len(Prog(cmd[t]))
  BY <1>2
<1>5. QED
  BY <1>2, <1>3, <1>4, ThermRules

\* The registers that the words of a thread are for.
LEMMA Targets ==
  ASSUME TypeOK, CmdInv, AloneInv, NEW t \in Thread, DoWrite(t)
  PROVE  LET w == Back(t, 0).word IN
         /\ w.rd => <<sel, w.at>> \in Registers(kind)
         /\ ~w.rd => <<sel, w.at>> \notin ResultReg
         /\ kind = "dsa" => w.rd = FALSE /\ w.at = 0
<1> DEFINE w == Back(t, 0).word
<1>1. kind \in Kind /\ pc[t] # 0 /\ Back(t, 0).op = "write" /\ sel \in 0..(Chips - 1)
  BY DEF TypeOK, DoWrite
<1>2. /\ Good(kind, Prog(cmd[t])) /\ pc[t] \in 1..Len(Prog(cmd[t]))
      /\ Back(t, 0) = Prog(cmd[t])[pc[t]]
  BY <1>1, AtWork
<1>3. CASE kind # "therm"
  <2>1. sel = 0 /\ ResultReg = {}
    BY <1>3 DEF AloneInv, ResultReg
  <2>2. w.rd => <<0, w.at>> \in Registers(kind)
    BY <1>1, <1>2, <1>3 DEF Good
  <2>3. kind = "dsa" => w.rd = FALSE /\ w.at = 0
    <3>1. kind = "dsa" => pc[t] = 1
      BY <1>2 DEF Good
    <3>2. QED
      BY <1>2, <3>1 DEF Good
  <2>4. QED
    BY <2>1, <2>2, <2>3
<1>4. CASE kind = "therm"
  <2>1. ThermRule(Prog(cmd[t]), pc[t])
    BY <1>1, <1>2, <1>4, ThermAt
  <2> DEFINE P == Prog(cmd[t])
             i == pc[t]
  <2>2. QueryRule(P, i) \/ SettingRule(P, i) \/ StartRule(P, i)
    BY <1>1, <1>2, <2>1 DEF ThermRule
  <2>3. P[i].word = w
    BY <1>2
  <2>4. CASE QueryRule(P, i)
    <3>1. w.rd = TRUE /\ Fresh(i) \in {4, 6} /\ \E b \in 1..3 : w.at = Result[Fresh(i)][b]
      BY <2>3, <2>4 DEF QueryRule
    <3>2. w.at \in {Result[ch][b] : ch \in {4, 6}, b \in 1..3}
      BY <3>1
    <3>3. <<sel, w.at>> \in Registers("therm")
      BY <1>1, <3>2 DEF Registers
    <3>4. QED
      BY <1>4, <3>1, <3>3
  <2>5. CASE SettingRule(P, i) \/ StartRule(P, i)
    <3>1. w.rd = FALSE /\ (w.at \in 4..23 \/ w.at = 0)
      BY <2>3, <2>5 DEF SettingRule, StartRule, Start
    <3>2. \A ch \in {4, 6}, b \in 1..3 : w.at # Result[ch][b]
      BY <3>1, ResultRegs
    <3>3. w.at \notin {Result[ch][b] : ch \in {4, 6}, b \in 1..3}
      BY <3>2
    <3>4. <<sel, w.at>> \notin ResultReg
      BY <3>3 DEF ResultReg
    <3>5. QED
      BY <1>4, <3>1, <3>4
  <2>6. QED
    BY <2>2, <2>4, <2>5
<1>5. QED
  BY <1>3, <1>4

\* Queries stay queries for registers.
LEMMA AddrStep ==
  ASSUME Inv, Next
  PROVE  AddrInv'
<1>1. TypeOK /\ CmdInv /\ AloneInv /\ AddrInv /\ kind \in Kind /\ kind' = kind
  BY KindStays DEF Inv, TypeOK
<1>2. CASE Accept
  BY <1>1, <1>2 DEF Accept, AddrInv, threads
<1>3. ASSUME sel' = sel, data' = data, lat' = lat, treg' = treg, ph' = ph \/ ph' # "shift"
      PROVE  AddrInv'
  BY <1>1, <1>3 DEF AddrInv
<1>4. CASE Finish \/ Clear \/ \E c \in 0..(Chips - 1) : Convert(c)
  BY <1>3, <1>4 DEF Finish, Clear, Convert, threads
<1>5. ASSUME NEW t \in Thread, Step(t)
      PROVE  AddrInv'
  <2>1. pc[t] # 0 /\ (DoWrite(t) \/ DoSelect(t) \/ DoWait(t) \/ DoSend(t))
    BY <1>1, <1>5, StepKinds
  <2>2. CASE DoWrite(t)
    <3> DEFINE w == Back(t, 0).word
    <3>1. w.rd => <<sel, w.at>> \in Registers(kind)
      BY <1>1, <2>2, Targets
    <3>2. /\ ph' = ph /\ treg' = treg /\ sel' = sel /\ lat' = (lat \/ ~Blind)
          /\ data' = IF Blind THEN data ELSE w
      BY <2>2 DEF DoWrite, WriteWord, Strobe, Latched
    <3> HIDE DEF w
    <3>3. CASE Blind
      <4>1. lat' = lat /\ data' = data
        BY <1>1, <3>2, <3>3 DEF TypeOK
      <4>2. QED
        BY <1>3, <3>2, <4>1
    <3>4. CASE ~Blind
      BY <1>1, <3>1, <3>2, <3>4 DEF AddrInv
    <3>5. QED
      BY <3>3, <3>4
  <2>3. CASE DoSelect(t)
    <3>1. kind = "therm"
      <4>1. /\ Good(kind, Prog(cmd[t])) /\ pc[t] \in 1..Len(Prog(cmd[t]))
            /\ Back(t, 0) = Prog(cmd[t])[pc[t]]
        BY <1>1, <2>1, AtWork
      <4>2. Back(t, 0).op = "select"
        BY <2>3 DEF DoSelect
      <4>3. QED
        BY <4>1, <4>2 DEF Good
    <3>2. Settled
      BY <1>1, <1>5, <3>1, Quiet DEF AloneInv
    <3>3. ph' = "idle" /\ ~lat'
      BY <2>3, <3>2 DEF DoSelect, SelectChip, master, Settled
    <3>4. QED
      BY <3>3 DEF AddrInv
  <2>4. CASE DoWait(t) \/ DoSend(t)
    BY <1>3, <2>4 DEF DoWait, DoSend, WaitOrRead, SendRecord, master
  <2>5. QED
    BY <2>1, <2>2, <2>3, <2>4
<1>6. ASSUME NEW t \in Client, NEW m \in Message, Receive(t, m)
      PROVE  AddrInv'
  BY <1>3, <1>6 DEF Receive, master
<1>7. QED
  BY <1>2, <1>4, <1>5, <1>6 DEF Next

\* The word that is being shifted is the one its thread waits for.
LEMMA OnTheWire ==
  ASSUME Inv, ~overlap, kind # "dsa", ph = "shift"
  PROVE  \E t \in Thread : /\ pc[t] > 1 /\ Back(t, 1).op = "write" /\ treg = Back(t, 1).word
                           /\ Back(t, 0).op \in {"usleep", "delay"}
                           /\ ~lat /\ \A u \in Thread \ {t} : pc[u] = 0
<1>1. CmdInv /\ AloneInv /\ BusyInv /\ SendInv
  BY DEF Inv
<1>2. PICK t \in Thread : owed[t]
  BY <1>1 DEF BusyInv, Settled
<1>3. /\ pc[t] > 1 /\ Back(t, 1).op = "write"
      /\ Back(t, 0).op \in {"usleep", "delay"}
  BY <1>1, <1>2 DEF BusyInv, Waiting
<1>4. Sent(Back(t, 1).word)
  BY <1>1, <1>3 DEF SendInv
<1>5. treg = Back(t, 1).word
  BY <1>4 DEF Sent, OnItsWay
<1>6. ~lat
  BY <1>1 DEF BusyInv, Blind
<1>7. pc[t] \in Nat /\ pc[t] # 0
  BY <1>1, <1>3 DEF CmdInv
<1>8. \A u \in Thread \ {t} : pc[u] = 0
  BY <1>1, <1>7 DEF AloneInv
<1>9. QED
  BY <1>3, <1>5, <1>6, <1>8

\* The thermistors' word: a query, a setting or the start of a conversion.
LEMMA ThermWire ==
  ASSUME Inv, kind = "therm", ph = "shift"
  PROVE  LET t == "thermistor"
             P == Prog(cmd[t])
             i == pc[t] - 1 IN
         /\ pc[t] > 1 /\ pc[t] \in Nat /\ i + 1 = pc[t]
         /\ treg = P[i].word /\ Back(t, 1) = P[i] /\ P[i].op = "write" /\ ~lat
         /\ QueryRule(P, i) \/ SettingRule(P, i) \/ StartRule(P, i)
<1>1. CmdInv /\ ~overlap /\ kind # "dsa" /\ kind \in Kind
  BY DEF Inv, AloneInv, Kind
<1>2. PICK t \in Thread : /\ pc[t] > 1 /\ Back(t, 1).op = "write" /\ treg = Back(t, 1).word
                          /\ ~lat
  BY <1>1, OnTheWire
<1>3. pc[t] \in Nat /\ pc[t] # 0
  BY <1>1, <1>2 DEF CmdInv
<1>4. t = "thermistor" /\ \A i \in 1..pc[t] : ThermRule(Prog(cmd[t]), i)
  BY <1>1, <1>3, ThermAt
<1>5. pc[t] - 1 \in 1..pc[t] /\ (pc[t] - 1) + 1 = pc[t]
  BY <1>2, <1>3
<1>6. Back(t, 1) = Prog(cmd[t])[pc[t] - 1]
  BY DEF Back
<1>7. \/ QueryRule(Prog(cmd[t]), pc[t] - 1) \/ SettingRule(Prog(cmd[t]), pc[t] - 1)
      \/ StartRule(Prog(cmd[t]), pc[t] - 1)
  BY <1>2, <1>4, <1>5, <1>6 DEF ThermRule
<1>8. QED
  BY <1>2, <1>3, <1>4, <1>5, <1>6, <1>7

(***************************************************************************)
(* Types.                                                                  *)
(***************************************************************************)

\* Types.
LEMMA TypeStep ==
  ASSUME Inv, Next
  PROVE  TypeOK'
<1>1. TypeOK /\ CmdInv /\ AloneInv /\ AddrInv /\ kind \in Kind /\ kind' = kind
  BY KindStays DEF Inv, TypeOK
<1>2. /\ ph \in {"idle", "shift", "clear"} /\ lat \in BOOLEAN
      /\ data \in WordSet /\ treg \in WordSet /\ rdata \in Nat \X Nat \X Int
      /\ chip \in [Registers(kind) -> -1..255] /\ want \in [Registers(kind) -> -1..255]
      /\ sel \in 0..(Chips - 1) /\ turn \in {0, 1}
      /\ conv \in [0..(Chips - 1) -> {0, 4, 6}]
      /\ owed \in [Thread -> BOOLEAN] /\ lost \in BOOLEAN /\ overlap \in BOOLEAN
  BY <1>1 DEF TypeOK
<1>3. \A t \in Thread : pc'[t] \in 0..Len(Prog(cmd'[t]))
  BY CmdStep DEF CmdInv
<1>4. CASE Accept
  BY <1>1, <1>2, <1>3, <1>4 DEF Accept, TypeOK, threads
<1>5. CASE Finish
  <2> DEFINE r == <<sel, treg.at>>
  <2>1. ph = "shift" /\ ph' = "clear" /\ UNCHANGED <<kind, lat, data, treg, threads, lost, overlap>>
    BY <1>5 DEF Finish
  <2>2. treg.at \in Nat /\ treg.val \in -1..255 /\ treg.rd \in BOOLEAN
    <3>1. treg \in WordSet
      BY <1>2
    <3>2. QED
      BY ONLY <3>1 DEF WordSet
  <2>3. chip' \in [Registers(kind) -> -1..255]
    BY <1>2, <1>5, <2>2 DEF Finish
  <2>4. rdata' \in Nat \X Nat \X Int
    <3>1. sel \in Nat /\ -1 \in Int
      BY <1>2
    <3>2. CASE treg.rd
      <4>1. rdata' = <<sel, treg.at, chip[r]>>
        BY <1>5, <3>2 DEF Finish
      <4>2. r \in Registers(kind)
        BY <1>1, <2>1, <3>2 DEF AddrInv
      <4> HIDE DEF r
      <4>3. chip[r] \in Int
        <5>1. chip \in [Registers(kind) -> -1..255]
          BY <1>2
        <5>2. chip[r] \in -1..255
          BY ONLY <4>2, <5>1
        <5>3. QED
          BY <5>2
      <4>4. QED
        BY <2>2, <3>1, <4>1, <4>3
    <3>3. CASE ~treg.rd
      <4>1. rdata' = <<0, 0, Unset>>
        BY <1>5, <3>3 DEF Finish
      <4>2. QED
        BY <3>1, <4>1 DEF Unset
    <3>4. QED
      BY <3>2, <3>3
  <2>5. conv' \in [0..(Chips - 1) -> {0, 4, 6}]
    <3>1. CASE kind = "therm" /\ treg.at = Start
      <4> DEFINE P == Prog(cmd["thermistor"])
                 i == pc["thermistor"] - 1
      <4>1. /\ treg = P[i].word
            /\ QueryRule(P, i) \/ SettingRule(P, i) \/ StartRule(P, i)
        BY <2>1, <3>1, ThermWire
      <4> HIDE DEF P, i
      <4>2. CASE QueryRule(P, i)
        <5>1. \E b \in 1..3 : treg.at = Result[Fresh(i)][b] /\ Fresh(i) \in {4, 6}
          BY <4>1, <4>2 DEF QueryRule
        <5>2. treg.at \in 29..39
          BY <5>1, ResultRegs
        <5>3. QED
          BY <3>1, <5>2 DEF Start
      <4>3. CASE SettingRule(P, i)
        <5>1. treg.at \in 4..23
          BY <4>1, <4>3 DEF SettingRule
        <5>2. QED
          BY <3>1, <5>1 DEF Start
      <4>4. CASE StartRule(P, i)
        <5>1. treg.val \in {4, 6}
          BY <4>1, <4>4 DEF StartRule
        <5>2. conv' = [conv EXCEPT ![sel] = treg.val]
          BY <1>5, <3>1 DEF Finish
        <5>3. QED
          BY <1>2, <5>1, <5>2
      <4>5. QED
        BY <4>1, <4>2, <4>3, <4>4
    <3>2. CASE ~(kind = "therm" /\ treg.at = Start)
      BY <1>2, <1>5, <3>2 DEF Finish
    <3>3. QED
      BY <3>1, <3>2
  <2>6. UNCHANGED <<sel, turn, owed, want>>
    BY <2>1 DEF threads
  <2>7. QED
    BY <1>1, <1>2, <1>3, <2>1, <2>3, <2>4, <2>5, <2>6 DEF TypeOK
<1>6. CASE Clear
  BY <1>1, <1>2, <1>3, <1>6 DEF Clear, TypeOK
<1>7. ASSUME NEW c \in 0..(Chips - 1), Convert(c)
      PROVE  TypeOK'
  <2>1. UNCHANGED <<kind, ph, lat, data, treg, rdata, sel, turn, owed, want, lost, overlap>>
    BY <1>7 DEF Convert, threads
  <2>2. chip' \in [Registers(kind) -> -1..255]
    <3>1. turn \in -1..255
      BY <1>2
    <3>2. QED
      BY <1>2, <1>7, <3>1 DEF Convert
  <2>3. conv' \in [0..(Chips - 1) -> {0, 4, 6}]
    <3>1. conv \in [0..(Chips - 1) -> {0, 4, 6}] /\ conv' = [conv EXCEPT ![c] = 0]
      BY <1>2, <1>7 DEF Convert
    <3>2. QED
      BY ONLY <3>1
  <2>4. /\ ph' \in {"idle", "shift", "clear"} /\ lat' \in BOOLEAN
        /\ data' \in WordSet /\ treg' \in WordSet /\ rdata' \in Nat \X Nat \X Int
        /\ want' \in [Registers(kind) -> -1..255] /\ sel' \in 0..(Chips - 1) /\ turn' \in {0, 1}
        /\ owed' \in [Thread -> BOOLEAN] /\ lost' \in BOOLEAN /\ overlap' \in BOOLEAN
    BY <1>2, <2>1
  <2>5. QED
    BY <1>1, <1>3, <2>2, <2>3, <2>4 DEF TypeOK
<1>8. ASSUME NEW t \in Thread, Step(t)
      PROVE  TypeOK'
  <2>1. pc[t] # 0 /\ (DoWrite(t) \/ DoSelect(t) \/ DoWait(t) \/ DoSend(t))
    BY <1>1, <1>8, StepKinds
  <2>2. CASE DoWrite(t)
    <3> DEFINE w == Back(t, 0).word
    <3>1. w \in WordSet
      BY <1>1, <2>2, WordAt
    <3>2. UNCHANGED <<kind, ph, treg, rdata, chip, sel, turn, conv, overlap>>
      BY <2>2 DEF DoWrite, WriteWord
    <3>3. /\ owed' = [owed EXCEPT ![t] = TRUE] /\ lat' = (lat \/ ~Blind)
          /\ data' = IF Blind THEN data ELSE w
          /\ lost' = (lost \/ Blind \/ (lat /\ kind # "dsa" /\ data # w))
          /\ want' = IF <<sel, w.at>> \in DOMAIN want /\ ~w.rd
                     THEN [want EXCEPT ![<<sel, w.at>>] = w.val] ELSE want
      BY <2>2 DEF DoWrite, WriteWord, Strobe, Latched
    <3> HIDE DEF w
    <3>4. want' \in [Registers(kind) -> -1..255]
      <4>1. w.val \in -1..255
        BY <3>1 DEF WordSet
      <4>2. QED
        BY <1>2, <3>3, <4>1
    <3>5. lat' \in BOOLEAN /\ lost' \in BOOLEAN
      BY <3>3
    <3>6. data' \in WordSet /\ owed' \in [Thread -> BOOLEAN]
      BY <1>2, <3>1, <3>3
    <3>7. QED
      BY <1>1, <1>2, <1>3, <3>2, <3>4, <3>5, <3>6 DEF TypeOK
  <2>3. CASE DoSelect(t)
    <3>1. Back(t, 0).op = "select" /\ sel' = Back(t, 0).chip
          /\ UNCHANGED <<kind, conv, overlap, master, owed, want, turn, lost>>
      BY <2>3 DEF DoSelect, SelectChip
    <3>2. /\ Good(kind, Prog(cmd[t])) /\ pc[t] \in 1..Len(Prog(cmd[t]))
          /\ Back(t, 0) = Prog(cmd[t])[pc[t]]
      BY <1>1, <2>1, AtWork
    <3>3. Back(t, 0) \in Instr
      BY <3>2, ElementOfSeq DEF Good
    <3>4. sel' \in 0..(Chips - 1)
      BY <3>1, <3>3, InstrFacts
    <3>5. QED
      BY <1>1, <1>2, <1>3, <3>1, <3>4 DEF TypeOK, master
  <2>4. CASE DoWait(t)
    BY <1>1, <1>2, <1>3, <2>4 DEF DoWait, WaitOrRead, TypeOK, master
  <2>5. CASE DoSend(t)
    <3>1. turn' \in {0, 1}
      BY <1>2, <2>5 DEF DoSend, SendRecord
    <3>2. UNCHANGED <<kind, conv, overlap, master, owed, want, sel, lost>>
      BY <2>5 DEF DoSend, SendRecord
    <3>3. QED
      BY <1>1, <1>2, <1>3, <3>1, <3>2 DEF TypeOK, master
  <2>6. QED
    BY <2>1, <2>2, <2>3, <2>4, <2>5
<1>9. ASSUME NEW t \in Client, NEW m \in Message, Receive(t, m)
      PROVE  TypeOK'
  <2>1. overlap' \in BOOLEAN
    BY <1>9 DEF Receive
  <2>2. UNCHANGED <<kind, master, conv, owed, want, sel, turn, lost>>
    BY <1>9 DEF Receive
  <2>3. QED
    BY <1>1, <1>2, <1>3, <2>1, <2>2 DEF TypeOK, master
<1>10. QED
  BY <1>4, <1>5, <1>6, <1>7, <1>8, <1>9 DEF Next

(***************************************************************************)
(* The chips follow what is written.                                       *)
(***************************************************************************)

\* Chips are selected by the thermistor thread alone, when all is idle.
LEMMA SelectIsTherm ==
  ASSUME Inv, NEW t \in Thread, DoSelect(t), Step(t)
  PROVE  kind = "therm" /\ Settled
<1>1. CmdInv /\ AloneInv /\ kind \in Kind /\ pc[t] # 0 /\ Back(t, 0).op = "select"
  BY DEF Inv, TypeOK, DoSelect
<1>2. /\ Good(kind, Prog(cmd[t])) /\ pc[t] \in 1..Len(Prog(cmd[t]))
      /\ Back(t, 0) = Prog(cmd[t])[pc[t]]
  BY <1>1, AtWork
<1>3. kind = "therm"
  BY <1>1, <1>2 DEF Good
<1>4. ~overlap
  BY <1>1, <1>3 DEF AloneInv
<1>5. QED
  BY <1>3, <1>4, Quiet

\* A register has, or is about to get, what was written last.
LEMMA FollowStep ==
  ASSUME Inv, Next
  PROVE  FollowInv'
<1>1. TypeOK /\ CmdInv /\ AloneInv /\ BusyInv /\ FollowInv /\ ConvInv
      /\ kind \in Kind /\ kind' = kind
  BY KindStays DEF Inv, TypeOK
<1>2. /\ ph \in {"idle", "shift", "clear"} /\ lat \in BOOLEAN /\ lost \in BOOLEAN
      /\ DOMAIN chip = Registers(kind) /\ DOMAIN want = Registers(kind)
      /\ Blind => ~lat
  BY <1>1 DEF TypeOK, BusyInv
<1>3. /\ ~lost => \A r \in Registers(kind) \ ResultReg : After(r) = want[r]
      /\ \A r \in ResultReg : want[r] = Unset
      /\ ResultReg' = ResultReg
  BY <1>1 DEF FollowInv, ResultReg
<1>4. ASSUME want' = want, ~lost' => ~lost,
             ~lost' => \A r \in Registers(kind) \ ResultReg : After(r)' = After(r)
      PROVE  FollowInv'
  BY <1>1, <1>3, <1>4 DEF FollowInv
<1>5. CASE Accept
  <2>1. /\ ph = "idle" /\ lat /\ ph' = "shift" /\ lat' = FALSE /\ treg' = data
        /\ chip' = chip /\ sel' = sel /\ want' = want /\ lost' = lost
    BY <1>5 DEF Accept, threads
  <2>2. \A r : After(r)' = After(r)
    BY <2>1 DEF After
  <2>3. QED
    BY <1>4, <2>1, <2>2
<1>6. CASE Finish
  <2>1. /\ ph = "shift" /\ ph' = "clear" /\ lat' = lat /\ ~lat
        /\ sel' = sel /\ want' = want /\ lost' = lost
    BY <1>2, <1>6 DEF Finish, threads, Blind
  <2>2. chip' = IF <<sel, treg.at>> \in Registers(kind) /\ ~treg.rd
                THEN [chip EXCEPT ![<<sel, treg.at>>] = treg.val] ELSE chip
    BY <1>2, <1>6 DEF Finish
  <2>3. \A r \in Registers(kind) :
          chip'[r] = IF ~treg.rd /\ r = <<sel, treg.at>> THEN treg.val ELSE chip[r]
    BY <1>2, <2>2
  <2>4. \A r \in Registers(kind) : After(r)' = After(r)
    BY <2>1, <2>3 DEF After
  <2>5. QED
    BY <1>4, <2>1, <2>4
<1>7. CASE Clear
  <2>1. /\ ph = "clear" /\ ph' = "idle" /\ lat' = lat /\ ~lat
        /\ chip' = chip /\ sel' = sel /\ want' = want /\ lost' = lost
    BY <1>2, <1>7 DEF Clear, Blind
  <2>2. \A r : After(r)' = After(r)
    BY <2>1 DEF After
  <2>3. QED
    BY <1>4, <2>1, <2>2
<1>8. ASSUME NEW c \in 0..(Chips - 1), Convert(c)
      PROVE  FollowInv'
  <2>1. /\ UNCHANGED <<ph, lat, data, treg, sel, want, lost>> /\ conv[c] # 0
        /\ chip' = [r \in DOMAIN chip |->
                      IF \E b \in 1..3 : r = <<c, Result[conv[c]][b]>> THEN turn ELSE chip[r]]
    BY <1>8 DEF Convert, threads
  <2>2. conv[c] \in {4, 6} /\ kind = "therm"
    BY <1>1, <2>1 DEF TypeOK, ConvInv
  <2>3. \A b \in 1..3 : <<c, Result[conv[c]][b]>> \in ResultReg
    BY <2>2 DEF ResultReg
  <2>4. \A r \in Registers(kind) \ ResultReg : chip'[r] = chip[r]
    BY <1>2, <2>1, <2>3
  <2>5. \A r \in Registers(kind) \ ResultReg : After(r)' = After(r)
    BY <2>1, <2>4 DEF After
  <2>6. QED
    BY <1>4, <2>1, <2>5
<1>9. ASSUME NEW t \in Thread, Step(t)
      PROVE  FollowInv'
  <2>1. pc[t] # 0 /\ (DoWrite(t) \/ DoSelect(t) \/ DoWait(t) \/ DoSend(t))
    BY <1>1, <1>9, StepKinds
  <2>2. CASE DoWrite(t)
    <3> DEFINE w == Back(t, 0).word
    <3>1. /\ ~w.rd => <<sel, w.at>> \notin ResultReg
          /\ kind = "dsa" => w.rd = FALSE /\ w.at = 0
      BY <1>1, <2>2, Targets
    <3>2. /\ ph' = ph /\ treg' = treg /\ chip' = chip /\ sel' = sel
          /\ lat' = (lat \/ ~Blind)
          /\ data' = IF Blind THEN data ELSE w
          /\ lost' = (lost \/ Blind \/ (lat /\ kind # "dsa" /\ data # w))
          /\ want' = IF <<sel, w.at>> \in Registers(kind) /\ ~w.rd
                     THEN [want EXCEPT ![<<sel, w.at>>] = w.val] ELSE want
      BY <1>2, <2>2 DEF DoWrite, WriteWord, Strobe, Latched
    <3> HIDE DEF w
    <3>3. \A r \in Registers(kind) :
            want'[r] = IF r = <<sel, w.at>> /\ ~w.rd THEN w.val ELSE want[r]
      BY <1>2, <3>2
    <3>4. \A r \in ResultReg : want'[r] = Unset
      <4> TAKE r \in ResultReg
      <4>1. r \in Registers(kind)
        BY DEF ResultReg, Registers
      <4>2. QED
        BY <1>3, <3>1, <3>3, <4>1
    <3>5. ASSUME ~lost', NEW r \in Registers(kind) \ ResultReg
          PROVE  After(r)' = want'[r]
      <4>1. ~lost /\ ~Blind /\ (lat => kind = "dsa" \/ data = w)
        BY <1>2, <3>2, <3>5
      <4>2. ph = "idle" /\ lat' = TRUE /\ data' = w
        BY <1>2, <3>2, <4>1 DEF Blind
      <4>3. After(r)' = IF ~w.rd /\ r = <<sel, w.at>> THEN w.val ELSE chip[r]
        BY <3>2, <4>2 DEF After
      <4>4. After(r) = want[r]
        BY <1>3, <4>1
      <4>5. ASSUME ~(~w.rd /\ r = <<sel, w.at>>)
            PROVE  After(r) = chip[r]
        <5>1. CASE lat /\ kind = "dsa"
          <6>1. r = <<0, 0>> /\ sel = 0
            BY <1>1, <5>1 DEF Registers, AloneInv
          <6>2. QED
            BY <3>1, <4>5, <5>1, <6>1
        <5>2. CASE ~lat
          BY <4>2, <5>2 DEF After
        <5>3. CASE lat /\ data = w
          BY <4>2, <4>5, <5>3 DEF After
        <5>4. QED
          BY <1>2, <4>1, <5>1, <5>2, <5>3
      <4>6. QED
        BY <3>3, <4>3, <4>4, <4>5
    <3>6. QED
      BY <1>1, <1>3, <3>4, <3>5 DEF FollowInv
  <2>3. CASE DoSelect(t)
    <3>1. Settled
      BY <1>9, <2>3, SelectIsTherm
    <3>2. UNCHANGED <<ph, lat, chip, want, lost>>
      BY <2>3 DEF DoSelect, SelectChip, master
    <3>3. \A r : After(r)' = After(r)
      BY <3>1, <3>2 DEF After, Settled
    <3>4. QED
      BY <1>4, <3>2, <3>3
  <2>4. CASE DoWait(t) \/ DoSend(t)
    <3>1. UNCHANGED <<ph, lat, data, treg, chip, sel, want, lost>>
      BY <2>4 DEF DoWait, DoSend, WaitOrRead, SendRecord, master
    <3>2. \A r : After(r)' = After(r)
      BY <3>1 DEF After
    <3>3. QED
      BY <1>4, <3>1, <3>2
  <2>5. QED
    BY <2>1, <2>2, <2>3, <2>4
<1>10. ASSUME NEW t \in Client, NEW m \in Message, Receive(t, m)
       PROVE  FollowInv'
  <2>1. UNCHANGED <<ph, lat, data, treg, chip, sel, want, lost>>
    BY <1>10 DEF Receive, master
  <2>2. \A r : After(r)' = After(r)
    BY <2>1 DEF After
  <2>3. QED
    BY <1>4, <2>1, <2>2
<1>11. QED
  BY <1>5, <1>6, <1>7, <1>8, <1>9, <1>10 DEF Next

(***************************************************************************)
(* The clock chip: the words before the update have arrived.               *)
(***************************************************************************)

\* The clock chip's words are bytes, for 32 different registers.
LEMMA PllWordFacts ==
  /\ \A j \in 1..32 : <<0, PllWord(j)[1]>> \in Registers("pll")
  /\ \A i, j \in 1..32 : PllWord(i)[1] = PllWord(j)[1] => i = j
  /\ PllWord(32) = Update /\ \A j \in 1..31 : PllWord(j) = PllSetup[j]
<1> DEFINE W == PllWords(PllSetup)
<1>1. Len(PllSetup) + 1 = 32
  BY PllSetupSeq
<1>2. \A j \in 1..32 : <<0, PllWord(j)[1]>> \in Registers("pll")
  <2> TAKE j \in 1..32
  <2>1. PllWord(j)[1] \in {PllWords(PllSetup)[i][1] : i \in 1..(Len(PllSetup) + 1)}
    BY <1>1 DEF PllWord
  <2>2. Registers("pll") =
          {0} \X {PllWords(PllSetup)[i][1] : i \in 1..(Len(PllSetup) + 1)}
    BY DEF Registers
  <2>3. QED
    BY <2>1, <2>2
<1>3. \A i, j \in 1..32 : W[i][1] = W[j][1] => i = j
  BY PllSteps
<1>4. W[32] = Update /\ \A j \in 1..31 : W[j] = PllSetup[j]
  BY PllSteps
<1>5. QED
  BY <1>2, <1>3, <1>4 DEF PllWord

\* The clock chip's words arrive one by one, the update as the last.
LEMMA PllStep ==
  ASSUME Inv, Next
  PROVE  PllInv'
<1> DEFINE R(j) == <<0, PllWord(j)[1]>>
           Value(p, j) == IF p \in 1..(2 * j - 1) THEN Unset ELSE PllWord(j)[2]
           p0 == pc["main"]
<1>1. kind' = kind
  BY KindStays
<1>2. SUFFICES ASSUME kind = "pll"
      PROVE  PllInv'
  BY <1>1, <1>2 DEF PllInv
<1>3. TypeOK /\ CmdInv /\ AloneInv /\ BusyInv /\ FollowInv /\ PllInv /\ ConvInv
      /\ LostByCrowdOnly
  BY DEF Inv
<1>4. ~overlap /\ ~lost /\ sel = 0 /\ ResultReg = {} /\ kind \in Kind
  BY <1>2, <1>3 DEF AloneInv, LostByCrowdOnly, ResultReg, Kind
<1>5. \A j \in 1..32 : R(j) \in Registers(kind) /\ R(j) \in DOMAIN chip /\ R(j) \in DOMAIN want
  BY <1>2, <1>3, PllWordFacts DEF TypeOK
<1>6. \A j \in 1..32 : After(R(j)) = want[R(j)]
  BY <1>3, <1>4, <1>5 DEF FollowInv
<1>7. /\ \A j \in 1..32 : want[R(j)] = Value(p0, j)
      /\ p0 \in 1..63 => chip[R(32)] = Unset
      /\ p0 \notin 1..63 => \A j \in 1..31 : chip[R(j)] = PllWord(j)[2]
  BY <1>2, <1>3, PllWordFacts DEF PllInv
<1>8. p0 \in Nat
  BY <1>3, ThreadFacts DEF CmdInv
<1>9. \A i, j \in 1..32 : R(i) = R(j) => i = j
  BY PllWordFacts
<1>10. ASSUME /\ \A j \in 1..32 : want'[R(j)] = Value(p0', j)
              /\ p0' \in 1..63 => chip'[R(32)] = Unset
              /\ p0' \notin 1..63 => \A j \in 1..31 : chip'[R(j)] = PllWord(j)[2]
       PROVE  PllInv'
  BY <1>10, PllWordFacts DEF PllInv
<1> HIDE DEF R
<1>11. CASE Accept \/ Clear
  <2>1. want' = want /\ chip' = chip /\ p0' = p0
    BY <1>11 DEF Accept, Clear, threads
  <2>2. QED
    BY <1>7, <1>10, <2>1
<1>12. CASE Finish
  <2>1. /\ ph = "shift" /\ want' = want /\ p0' = p0 /\ ~lat
        /\ chip' = IF <<sel, treg.at>> \in DOMAIN chip /\ ~treg.rd
                   THEN [chip EXCEPT ![<<sel, treg.at>>] = treg.val] ELSE chip
    BY <1>3, <1>12 DEF Finish, threads, BusyInv, Blind
  <2>2. \A j \in 1..32 : chip'[R(j)] = After(R(j))
    BY <1>5, <2>1 DEF After
  <2>3. \A j \in 1..32 : chip'[R(j)] = Value(p0, j)
    BY <1>6, <1>7, <2>2
  <2>4. p0 \notin 1..63 => \A j \in 1..31 : p0 \notin 1..(2 * j - 1)
    BY <1>8
  <2>5. QED
    BY <1>7, <1>10, <2>1, <2>3, <2>4
<1>13. ASSUME NEW c \in 0..(Chips - 1), Convert(c)
       PROVE  FALSE
  BY <1>2, <1>3, <1>13 DEF Convert, ConvInv, TypeOK
<1>14. ASSUME NEW t \in Thread, Step(t)
       PROVE  PllInv'
  <2>1. pc[t] # 0 /\ (DoWrite(t) \/ DoSelect(t) \/ DoWait(t) \/ DoSend(t))
    BY <1>3, <1>4, <1>14, StepKinds
  <2>2. /\ t = "main" /\ pc[t] \in 1..Len(Prog(cmd[t])) /\ Back(t, 0) = Prog(cmd[t])[pc[t]]
        /\ Good("pll", Prog(cmd[t]))
    BY <1>2, <1>3, <1>4, <2>1, AtWork
  <2>3. /\ Prog(cmd[t]) = prog_ad9510 /\ p0 \in 1..64 /\ Back(t, 0) = prog_ad9510[p0]
        /\ Len(Prog(cmd[t])) = 64
    BY <2>2, PllIsGood DEF Good
  <2>4. PICK j \in 1..32 : p0 = 2 * j - 1 \/ p0 = 2 * j
    <3>1. (p0 + 1) \div 2 \in 1..32
      BY <2>3
    <3>2. p0 = 2 * ((p0 + 1) \div 2) - 1 \/ p0 = 2 * ((p0 + 1) \div 2)
      BY <2>3
    <3>3. QED
      BY <3>1, <3>2
  <2>5. /\ prog_ad9510[2 * j - 1] = Write(Word(PllWord(j)[1], PllWord(j)[2]))
        /\ prog_ad9510[2 * j] = Usleep
    BY PllIsGood
  <2>6. Back(t, 0).op \in {"write", "usleep"}
    BY <2>3, <2>4, <2>5, InstrOps
  <2>7. DoWrite(t) \/ DoWait(t)
    BY <2>1, <2>6 DEF DoSelect, DoSend
  <2>8. Moves(t)
    <3>1. Goto(t)
      BY <2>7 DEF DoWrite, DoWait, WriteWord, WaitOrRead
    <3>2. QED
      BY <1>3, <1>4, <2>1, <3>1, GotoMoves
  <2>9. p0' = IF p0 = 64 THEN 0 ELSE p0 + 1
    BY <2>2, <2>3, <2>8 DEF Moves
  <2>10. chip' = chip
    BY <2>7 DEF DoWrite, DoWait, WriteWord, WaitOrRead, master
  <2>11. CASE DoWrite(t)
    <3>1. Back(t, 0).op = "write"
      BY <2>11 DEF DoWrite
    <3>2. p0 = 2 * j - 1 /\ Back(t, 0) = Write(Word(PllWord(j)[1], PllWord(j)[2]))
      BY <2>3, <2>4, <2>5, <3>1, InstrOps
    <3> DEFINE w == Back(t, 0).word
    <3>3. w = Word(PllWord(j)[1], PllWord(j)[2])
      BY <3>2, InstrOps
    <3>4. w.rd = FALSE /\ w.at = PllWord(j)[1] /\ w.val = PllWord(j)[2]
      BY <3>3 DEF Word
    <3>5. want' = IF <<sel, w.at>> \in DOMAIN want /\ ~w.rd
                  THEN [want EXCEPT ![<<sel, w.at>>] = w.val] ELSE want
      BY <2>11 DEF DoWrite, WriteWord, Strobe
    <3>6. <<sel, w.at>> = R(j)
      BY <1>4, <3>4 DEF R
    <3> HIDE DEF w
    <3>7. want' = [want EXCEPT ![R(j)] = PllWord(j)[2]]
      BY <1>5, <3>4, <3>5, <3>6
    <3>8. \A i \in 1..32 : want'[R(i)] = IF i = j THEN PllWord(j)[2] ELSE want[R(i)]
      BY <1>5, <1>9, <3>7
    <3>9. p0' = 2 * j
      BY <2>9, <3>2
    <3>10. \A i \in 1..32 : want'[R(i)] = Value(p0', i)
      <4> TAKE i \in 1..32
      <4>1. i # j => (p0 \in 1..(2 * i - 1) <=> p0' \in 1..(2 * i - 1))
        BY <3>2, <3>9
      <4>2. i = j => p0' \notin 1..(2 * i - 1)
        BY <3>9
      <4>3. want[R(i)] = Value(p0, i)
        BY <1>7
      <4>4. QED
        BY <3>8, <4>1, <4>2, <4>3
    <3>11. p0' \in 1..63 => chip'[R(32)] = Unset
      BY <1>7, <2>10, <3>2, <3>9
    <3>12. ASSUME p0' \notin 1..63, NEW i \in 1..31
           PROVE  chip'[R(i)] = PllWord(i)[2]
      <4>1. p0 = 63 /\ p0 \notin 1..(2 * i - 1) /\ i \in 1..32
        BY <3>2, <3>9, <3>12
      <4>2. Settled
        BY <1>2, <1>4, <1>14, Quiet
      <4>3. chip[R(i)] = After(R(i))
        BY <4>2 DEF Settled, After
      <4>4. QED
        BY <1>6, <1>7, <2>10, <4>1, <4>3
    <3>13. QED
      BY <1>10, <3>10, <3>11, <3>12
  <2>12. CASE DoWait(t)
    <3>1. want' = want
      BY <2>12 DEF DoWait, WaitOrRead
    <3>2. Back(t, 0).op # "write"
      BY <2>12 DEF DoWait
    <3>3. p0 = 2 * j
      BY <2>3, <2>4, <2>5, <3>2, InstrOps
    <3>4. \A i \in 1..32 : p0 \in 1..(2 * i - 1) <=> p0' \in 1..(2 * i - 1)
      BY <2>9, <3>3
    <3>5. p0' \in 1..63 <=> p0 \in 1..63
      BY <2>9, <3>3
    <3>6. QED
      BY <1>7, <1>10, <2>10, <3>1, <3>4, <3>5
  <2>13. QED
    BY <2>7, <2>11, <2>12
<1>15. ASSUME NEW t \in Client, NEW m \in Message
       PROVE  FALSE
  BY <1>2, <1>4, MessageWork
<1>16. QED
  BY <1>11, <1>12, <1>13, <1>14, <1>15 DEF Next

(***************************************************************************)
(* Reads, words on their way, conversions and their results.               *)
(***************************************************************************)

\* While a conversion runs the thermistor thread is in its delay.
LEMMA ConvFacts ==
  ASSUME Inv, NEW c \in DOMAIN conv, conv[c] # 0
  PROVE  LET t == "thermistor"
             w == Back(t, 1).word IN
         /\ kind = "therm" /\ c = sel /\ pc[t] > 1 /\ pc[t] \in Nat /\ ~lat /\ ph # "shift"
         /\ Back(t, 0).op = "delay" /\ conv[c] = w.val
         /\ Back(t, 1).op = "write" /\ w.rd = FALSE /\ w.at = Start /\ w.val \in {4, 6}
         /\ Fresh(pc[t]) = 0
<1> DEFINE t == "thermistor"
<1>1. CmdInv /\ ConvInv /\ "thermistor" \in Thread
  BY ThreadFacts DEF Inv
<1>2. /\ kind = "therm" /\ c = sel /\ pc[t] > 1 /\ ~lat /\ ph # "shift"
      /\ Back(t, 0).op = "delay" /\ conv[c] = Back(t, 1).word.val
  BY <1>1 DEF ConvInv
<1>3. pc[t] \in Nat /\ pc[t] # 0
  BY <1>1, <1>2 DEF CmdInv
<1>4. ThermRule(Prog(cmd[t]), pc[t])
  BY <1>1, <1>2, <1>3, ThermAt
<1>5. Prog(cmd[t])[pc[t]].op = "delay"
  BY <1>2, <1>3 DEF Back
<1>6. DelayRule(Prog(cmd[t]), pc[t])
  BY <1>4, <1>5 DEF ThermRule
<1>7. Back(t, 1) = Prog(cmd[t])[pc[t] - 1]
  BY DEF Back
<1>8. QED
  BY <1>2, <1>3, <1>6, <1>7 DEF DelayRule

\* A read finds the answer: its query was two steps before, the transfer is
\* over.
LEMMA ReadStep ==
  ASSUME Inv, Next
  PROVE  ReadInv'
<1>1. /\ TypeOK /\ CmdInv /\ AloneInv /\ SendInv /\ ReadInv
      /\ kind \in Kind /\ kind' = kind
  BY KindStays DEF Inv, TypeOK
<1>2. SUFFICES ASSUME ~overlap', NEW u \in Thread, pc'[u] # 0, Back(u, 0)'.op = "read"
      PROVE  (Settled /\ Answer(Back(u, 2).word))'
  BY DEF ReadInv
<1>3. ASSUME ~overlap, pc'[u] = pc[u], cmd'[u] = cmd[u]
      PROVE  /\ Settled /\ Answer(Back(u, 2).word) /\ Back(u, 0).op = "read" /\ pc[u] # 0
             /\ Back(u, 2)' = Back(u, 2)
  <2>1. Back(u, 0)' = Back(u, 0) /\ Back(u, 2)' = Back(u, 2)
    BY <1>3 DEF Back
  <2>2. QED
    BY <1>1, <1>2, <1>3, <2>1 DEF ReadInv
<1>4. CASE Accept \/ Finish \/ Clear
  <2>1. pc' = pc /\ cmd' = cmd /\ overlap' = overlap /\ ~Settled
    BY <1>4 DEF Accept, Finish, Clear, threads, Settled
  <2>2. QED
    BY <1>2, <1>3, <2>1
<1>5. ASSUME NEW c \in 0..(Chips - 1), Convert(c)
      PROVE  FALSE
  <2>1. pc' = pc /\ cmd' = cmd /\ overlap' = overlap /\ conv[c] # 0
    BY <1>5 DEF Convert, threads
  <2>2. c \in DOMAIN conv
    BY <1>1 DEF TypeOK
  <2>3. kind = "therm" /\ Back("thermistor", 0).op = "delay"
    BY <2>1, <2>2, ConvFacts
  <2>4. Back(u, 0).op = "read" /\ pc[u] # 0
    BY <1>2, <1>3, <2>1
  <2>5. u = "thermistor"
    BY <1>1, <2>3, <2>4, ThermAt
  <2>6. QED
    BY <2>3, <2>4, <2>5
<1>6. ASSUME NEW t \in Thread, Step(t)
      PROVE  (Settled /\ Answer(Back(u, 2).word))'
  <2>1. pc[t] # 0 /\ (DoWrite(t) \/ DoSelect(t) \/ DoWait(t) \/ DoSend(t))
    BY <1>1, <1>6, StepKinds
  <2>2. ~overlap
    BY <1>2, <1>6 DEF Step
  <2>3. /\ Good(kind, Prog(cmd[t])) /\ pc[t] \in 1..Len(Prog(cmd[t]))
        /\ Len(Prog(cmd[t])) \in Nat /\ Back(t, 0) = Prog(cmd[t])[pc[t]]
    BY <1>1, <2>1, AtWork
  <2>4. \A v \in Thread \ {t} : pc[v] = 0
    BY <1>1, <2>1, <2>2 DEF AloneInv
  <2>5. ~DoSend(t)
    <3>1. SUFFICES ASSUME DoSend(t) PROVE FALSE
      OBVIOUS
    <3>2. /\ t = "thermistor" /\ cmd' = cmd /\ pc'[t] = 26 * Chips + 1
          /\ \A v \in Thread \ {t} : pc'[v] = pc[v]
          /\ Prog(cmd[t]) = thermistors_push
      BY <1>1, <3>1, SendMoves
    <3>3. u = t
      BY <1>2, <2>4, <3>2
    <3>4. pc'[u] - 0 = 26 * Chips + 1
      BY <3>2, <3>3, ChipsAssumption
    <3>5. Back(u, 0)' = thermistors_push[26 * Chips + 1]
      BY <3>2, <3>3, <3>4 DEF Back
    <3>6. QED
      BY <1>2, <3>5, ThermRules
  <2>6. Moves(t)
    <3>1. Goto(t)
      BY <2>1, <2>5 DEF DoWrite, DoSelect, DoWait, WriteWord, SelectChip, WaitOrRead
    <3>2. QED
      BY <1>1, <2>1, <3>1, GotoMoves
  <2>7. u = t
    BY <1>2, <2>4, <2>6 DEF Moves
  <2>8. pc[t] < Len(Prog(cmd[t])) /\ pc'[t] = pc[t] + 1 /\ cmd'[t] = cmd[t]
    BY <1>2, <2>6, <2>7 DEF Moves
  <2> DEFINE P == Prog(cmd[t])
             i == pc[t] + 1
  <2>9. /\ i \in 1..Len(P) /\ i - 1 = pc[t] /\ i - 2 = pc[t] - 1 /\ pc'[t] - 0 = i
        /\ pc'[t] - 2 = pc[t] - 1
    BY <2>3, <2>8
  <2>10. Back(t, 0)' = P[i] /\ Back(t, 2)' = P[pc[t] - 1] /\ Back(t, 1) = P[pc[t] - 1]
    BY <2>8, <2>9 DEF Back
  <2>11. kind # "dsa"
    BY <2>3, <2>8 DEF Good
  <2>12. i > 2 /\ P[i - 1] = Usleep /\ P[i - 2].op = "write" /\ P[i - 2].word.rd
    BY <1>2, <2>3, <2>7, <2>9, <2>10, <2>11 DEF Good, Paced
  <2> HIDE DEF P
  <2>13. pc[t] > 1 /\ Back(t, 1).op = "write" /\ Back(t, 1).word.rd /\ Back(t, 0).op = "usleep"
    BY <2>3, <2>9, <2>10, <2>12, InstrOps DEF P
  <2>14. Settled
    BY <1>6, <2>2, <2>11, Quiet
  <2>15. Sent(Back(t, 1).word)
    BY <1>1, <2>2, <2>11, <2>13 DEF SendInv
  <2>16. Answer(Back(t, 1).word)
    BY <2>13, <2>14, <2>15 DEF Sent, Done, OnItsWay, Settled
  <2>17. DoWait(t)
    BY <2>1, <2>13 DEF DoWrite, DoSelect, DoSend
  <2>18. UNCHANGED <<kind, ph, lat, rdata, chip, sel, turn>>
    BY <2>17 DEF DoWait, WaitOrRead, master
  <2>19. Back(u, 2)' = Back(t, 1)
    BY <2>7, <2>10
  <2>20. QED
    BY <2>14, <2>16, <2>18, <2>19 DEF Settled, Answer
<1>7. ASSUME NEW t \in Client, NEW m \in Message, Receive(t, m)
      PROVE  (Settled /\ Answer(Back(u, 2).word))'
  <2>1. /\ kind \in {"adc", "dsa"} /\ Good(kind, Prog(m)) /\ t \in Thread
    BY <1>1, MessageWork, ThreadFacts
  <2>2. /\ UNCHANGED <<kind, ph, lat, rdata, chip, sel, turn>>
        /\ cmd' = [cmd EXCEPT ![t] = m] /\ pc' = [pc EXCEPT ![t] = 1]
        /\ overlap' = (overlap \/ \E v \in Client : pc[v] # 0)
    BY <1>7 DEF Receive, master
  <2>3. cmd \in [Thread -> Command] /\ pc \in [Thread -> Nat] /\ overlap \in BOOLEAN
    BY <1>1 DEF CmdInv, TypeOK
  <2>4. ~overlap
    BY <1>2, <2>2, <2>3
  <2>5. CASE u = t
    <3>1. cmd'[u] = m /\ pc'[u] = 1
      BY <2>1, <2>2, <2>3, <2>5
    <3>2. Back(u, 0)' = Prog(m)[1]
      BY <3>1 DEF Back
    <3>3. Prog(m)[1].op # "read"
      BY <2>1 DEF Good, Paced
    <3>4. QED
      BY <1>2, <3>2, <3>3
  <2>6. CASE u # t
    <3>1. pc'[u] = pc[u] /\ cmd'[u] = cmd[u]
      BY <2>2, <2>3, <2>6
    <3>2. Settled /\ Answer(Back(u, 2).word) /\ Back(u, 2)' = Back(u, 2)
      BY <1>3, <2>4, <3>1
    <3>3. QED
      BY <2>2, <3>2 DEF Settled, Answer
  <2>7. QED
    BY <2>5, <2>6
<1>8. QED
  BY <1>4, <1>5, <1>6, <1>7 DEF Next

\* A word is on its way, or it has arrived and has had its effect.
LEMMA SendStep ==
  ASSUME Inv, Next
  PROVE  SendInv'
<1>1. /\ TypeOK /\ CmdInv /\ AloneInv /\ BusyInv /\ SendInv /\ FreshInv
      /\ kind \in Kind /\ kind' = kind
  BY KindStays DEF Inv, TypeOK
<1>2. SUFFICES ASSUME ~overlap', kind # "dsa",
                      NEW u \in Thread, pc'[u] > 1, Back(u, 1)'.op = "write"
      PROVE  Sent(Back(u, 1).word)'
  BY <1>1 DEF SendInv
<1> DEFINE w == Back(u, 1).word
<1>3. ASSUME ~overlap, pc'[u] = pc[u], cmd'[u] = cmd[u]
      PROVE  Sent(w) /\ pc[u] > 1 /\ Back(u, 1).op = "write" /\ w' = w
  <2>1. Back(u, 1)' = Back(u, 1)
    BY <1>3 DEF Back
  <2>2. QED
    BY <1>1, <1>2, <1>3, <2>1 DEF SendInv
<1>4. CASE Accept
  <2>1. /\ ph = "idle" /\ lat /\ ph' = "shift" /\ treg' = data
        /\ pc' = pc /\ cmd' = cmd /\ overlap' = overlap
    BY <1>4 DEF Accept, threads
  <2>2. Sent(w) /\ w' = w
    BY <1>2, <1>3, <2>1
  <2>3. data = w
    BY <2>1, <2>2 DEF Sent, OnItsWay
  <2> HIDE DEF w
  <2>4. treg' = w'
    BY <2>1, <2>2, <2>3
  <2>5. QED
    BY <2>1, <2>4 DEF Sent, OnItsWay, w
<1>5. CASE Finish
  <2>1. /\ ph = "shift" /\ ph' = "clear" /\ lat' = lat /\ UNCHANGED <<kind, sel, turn>>
        /\ pc' = pc /\ cmd' = cmd /\ overlap' = overlap
    BY <1>5 DEF Finish, threads
  <2>2. /\ chip' = IF <<sel, treg.at>> \in DOMAIN chip /\ ~treg.rd
                   THEN [chip EXCEPT ![<<sel, treg.at>>] = treg.val] ELSE chip
        /\ rdata' = IF treg.rd THEN <<sel, treg.at, chip[<<sel, treg.at>>]>>
                    ELSE <<0, 0, Unset>>
        /\ conv' = IF kind = "therm" /\ treg.at = Start THEN [conv EXCEPT ![sel] = treg.val]
                   ELSE conv
    BY <1>5 DEF Finish
  <2>3. Sent(w) /\ w' = w /\ pc[u] > 1 /\ Back(u, 1).op = "write"
    BY <1>2, <1>3, <2>1
  <2>4. treg = w
    BY <2>1, <2>3 DEF Sent, OnItsWay
  <2>5. ~lat'
    BY <1>1, <2>1 DEF BusyInv, Blind
  <2>6. ASSUME w.rd
        PROVE  rdata' = <<sel, w.at, IF kind = "therm" THEN turn ELSE chip'[<<sel, w.at>>]>>
    <3>1. rdata' = <<sel, w.at, chip[<<sel, w.at>>]>> /\ chip' = chip
      BY <2>2, <2>4, <2>6
    <3>2. kind = "therm" => chip[<<sel, w.at>>] = turn
      <4>1. SUFFICES ASSUME kind = "therm" PROVE chip[<<sel, w.at>>] = turn
        OBVIOUS
      <4> DEFINE P == Prog(cmd["thermistor"])
                 i == pc["thermistor"] - 1
      <4>2. /\ treg = P[i].word /\ i + 1 = pc["thermistor"]
            /\ QueryRule(P, i) \/ SettingRule(P, i) \/ StartRule(P, i)
        BY <2>1, <4>1, ThermWire
      <4>3. P[i].word.rd
        BY <2>4, <2>6, <4>2
      <4> HIDE DEF P, i
      <4>4. QueryRule(P, i)
        BY <4>2, <4>3 DEF SettingRule, StartRule
      <4>5. /\ Fresh(pc["thermistor"]) \in {4, 6}
            /\ \E b \in 1..3 : w.at = Result[Fresh(pc["thermistor"])][b]
        BY <2>4, <4>2, <4>4 DEF QueryRule
      <4>6. Converted(Fresh(pc["thermistor"]))
        BY <1>1, <4>1, <4>5 DEF FreshInv
      <4>7. QED
        BY <4>5, <4>6 DEF Converted
    <3>3. QED
      BY <3>1, <3>2
  <2>7. ASSUME kind = "therm", ~w.rd, w.at = Start
        PROVE  conv'[sel] = w.val
    <3>1. conv' = [conv EXCEPT ![sel] = w.val]
      BY <2>2, <2>4, <2>7
    <3>2. sel \in DOMAIN conv
      BY <1>1 DEF TypeOK
    <3>3. QED
      BY <3>1, <3>2
  <2> HIDE DEF w
  <2>8. Done(w)'
    BY <2>1, <2>3, <2>6, <2>7 DEF Done, Answer
  <2>9. QED
    BY <2>1, <2>5, <2>8 DEF Sent, w
<1>6. CASE Clear
  <2>1. /\ ph = "clear" /\ ph' = "idle" /\ UNCHANGED <<kind, lat, rdata, chip, conv, sel, turn>>
        /\ pc' = pc /\ cmd' = cmd /\ overlap' = overlap
    BY <1>6 DEF Clear
  <2>2. Sent(w) /\ w' = w
    BY <1>2, <1>3, <2>1
  <2>3. ~lat /\ Done(w)
    BY <2>1, <2>2 DEF Sent, OnItsWay
  <2> HIDE DEF w
  <2>4. Done(w)'
    BY <2>1, <2>2, <2>3 DEF Done, Answer, Converted
  <2>5. QED
    BY <2>1, <2>3, <2>4 DEF Sent, w
<1>7. ASSUME NEW c \in 0..(Chips - 1), Convert(c)
      PROVE  Sent(w)'
  <2>1. /\ conv[c] # 0 /\ UNCHANGED <<kind, ph, lat, sel, turn>>
        /\ pc' = pc /\ cmd' = cmd /\ overlap' = overlap
        /\ chip' = [r \in DOMAIN chip |->
                      IF \E b \in 1..3 : r = <<c, Result[conv[c]][b]>> THEN turn ELSE chip[r]]
    BY <1>7 DEF Convert, threads
  <2>2. w' = w /\ pc[u] > 1
    BY <1>2, <1>3, <2>1
  <2>3. c \in DOMAIN conv
    BY <1>1 DEF TypeOK
  <2>4. kind = "therm"
    BY <2>1, <2>3, ConvFacts
  <2>5. u = "thermistor"
    <3>1. pc[u] # 0
      BY <2>2
    <3>2. QED
      BY <1>1, <2>4, <3>1, ThermAt
  <2>6. /\ c = sel /\ ~lat /\ ph # "shift" /\ conv[c] = w.val
        /\ w.rd = FALSE /\ w.val \in {4, 6}
    BY <2>1, <2>3, <2>5, ConvFacts
  <2> HIDE DEF w
  <2>7. ASSUME NEW b \in 1..3
        PROVE  chip'[<<sel, Result[w.val][b]>>] = turn
    <3>1. <<sel, Result[w.val][b]>> \in DOMAIN chip
      <4>1. Result[w.val][b] \in {Result[ch][d] : ch \in {4, 6}, d \in 1..3}
        BY <2>6
      <4>2. sel \in 0..(Chips - 1) /\ DOMAIN chip = Registers("therm")
        BY <1>1, <2>4 DEF TypeOK
      <4>3. QED
        BY <4>1, <4>2 DEF Registers
    <3>2. QED
      BY <2>1, <2>6, <3>1
  <2>8. Converted(w.val)'
    BY <2>1, <2>2, <2>7 DEF Converted
  <2>9. Done(w)'
    BY <2>2, <2>6, <2>8 DEF Done
  <2>10. QED
    BY <2>1, <2>6, <2>9 DEF Sent
<1>8. ASSUME NEW t \in Thread, Step(t)
      PROVE  Sent(w)'
  <2>1. pc[t] # 0 /\ (DoWrite(t) \/ DoSelect(t) \/ DoWait(t) \/ DoSend(t))
    BY <1>1, <1>8, StepKinds
  <2>2. ~overlap
    BY <1>2, <1>8 DEF Step
  <2>3. Settled /\ \A v \in Thread \ {t} : pc[v] = 0
    BY <1>2, <1>8, <2>2, Quiet
  <2>4. ~DoSend(t)
    <3>1. SUFFICES ASSUME DoSend(t) PROVE FALSE
      OBVIOUS
    <3>2. /\ t = "thermistor" /\ cmd' = cmd /\ pc'[t] = 26 * Chips + 1
          /\ \A v \in Thread \ {t} : pc'[v] = pc[v]
          /\ Prog(cmd[t]) = thermistors_push
      BY <1>1, <3>1, SendMoves
    <3>3. u = t
      BY <1>2, <2>3, <3>2
    <3>4. pc'[u] - 1 = 26 * Chips
      BY <3>2, <3>3, ChipsAssumption
    <3>5. Back(u, 1)' = thermistors_push[26 * Chips]
      BY <3>2, <3>3, <3>4 DEF Back
    <3>6. QED
      BY <1>2, <3>5, ThermRules, InstrOps
  <2>5. Moves(t)
    <3>1. Goto(t)
      BY <2>1, <2>4 DEF DoWrite, DoSelect, DoWait, WriteWord, SelectChip, WaitOrRead
    <3>2. QED
      BY <1>1, <2>1, <3>1, GotoMoves
  <2>6. u = t
    BY <1>2, <2>3, <2>5 DEF Moves
  <2>7. pc'[t] = pc[t] + 1 /\ cmd'[t] = cmd[t]
    BY <1>2, <2>5, <2>6 DEF Moves
  <2>8. Back(t, 1)' = Back(t, 0)
    <3>1. pc'[t] - 1 = pc[t] /\ pc[t] - 0 = pc[t]
      BY <1>1, <2>7 DEF CmdInv
    <3>2. QED
      BY <2>7, <3>1 DEF Back
  <2>9. DoWrite(t)
    <3>1. Back(t, 0).op = "write"
      BY <1>2, <2>6, <2>8
    <3>2. QED
      BY <2>1, <3>1 DEF DoSelect, DoWait, DoSend
  <2>10. /\ ph' = ph /\ lat' = (lat \/ ~Blind)
         /\ data' = IF Blind THEN data ELSE Back(t, 0).word
    BY <2>9 DEF DoWrite, WriteWord, Strobe, Latched
  <2>11. ph = "idle" /\ ~Blind
    BY <2>3 DEF Settled, Blind
  <2>12. ph' = "idle" /\ lat' = TRUE /\ data' = Back(u, 1)'.word
    BY <2>6, <2>8, <2>10, <2>11
  <2>13. QED
    BY <2>12 DEF Sent, OnItsWay
<1>9. ASSUME NEW t \in Client, NEW m \in Message, Receive(t, m)
      PROVE  Sent(w)'
  <2>1. /\ UNCHANGED <<kind, ph, lat, data, treg, rdata, chip, conv, sel, turn>>
        /\ cmd' = [cmd EXCEPT ![t] = m] /\ pc' = [pc EXCEPT ![t] = 1]
        /\ overlap' = (overlap \/ \E v \in Client : pc[v] # 0)
    BY <1>9 DEF Receive, master
  <2>2. cmd \in [Thread -> Command] /\ pc \in [Thread -> Nat] /\ overlap \in BOOLEAN
    BY <1>1 DEF CmdInv, TypeOK
  <2>3. ~overlap
    BY <1>2, <2>1, <2>2
  <2>4. u # t
    BY <1>2, <2>1, <2>2
  <2>5. pc'[u] = pc[u] /\ cmd'[u] = cmd[u]
    BY <2>1, <2>2, <2>4
  <2>6. Sent(w) /\ w' = w
    BY <1>3, <2>3, <2>5
  <2> HIDE DEF w
  <2>7. QED
    BY <2>1, <2>6 DEF Sent, OnItsWay, Done, Answer, Converted
<1>10. QED
  BY <1>4, <1>5, <1>6, <1>7, <1>8, <1>9 DEF Next

\* A conversion runs in the delay of the thread that has started it.
LEMMA ConvStep ==
  ASSUME Inv, Next
  PROVE  ConvInv'
<1> DEFINE t0 == "thermistor"
<1>1. /\ TypeOK /\ CmdInv /\ BusyInv /\ kind \in Kind /\ kind' = kind
      /\ conv \in [0..(Chips - 1) -> {0, 4, 6}] /\ DOMAIN conv = 0..(Chips - 1)
  BY KindStays DEF Inv, TypeOK
<1>2. ASSUME \A c \in DOMAIN conv : conv[c] = 0, conv' = conv
      PROVE  ConvInv'
  BY <1>2 DEF ConvInv
<1>3. ASSUME NEW c \in DOMAIN conv, conv[c] # 0
      PROVE  /\ kind = "therm" /\ c = sel /\ pc[t0] > 1 /\ ~lat /\ ph # "shift"
             /\ Back(t0, 0).op = "delay" /\ conv[c] = Back(t0, 1).word.val
  BY <1>3, ConvFacts
<1>4. CASE Accept
  BY <1>2, <1>3, <1>4 DEF Accept
<1>5. CASE Finish
  <2>1. ph = "shift" /\ ph' = "clear" /\ lat' = lat /\ UNCHANGED <<sel, pc, cmd, kind>>
    BY <1>5 DEF Finish, threads
  <2>2. \A c \in DOMAIN conv : conv[c] = 0
    BY <1>3, <2>1
  <2>3. CASE ~(kind = "therm" /\ treg.at = Start)
    BY <1>2, <1>5, <2>2, <2>3 DEF Finish
  <2>4. CASE kind = "therm" /\ treg.at = Start
    <3> DEFINE P == Prog(cmd[t0])
               i == pc[t0] - 1
    <3>1. /\ pc[t0] > 1 /\ pc[t0] \in Nat /\ i + 1 = pc[t0]
          /\ treg = P[i].word /\ Back(t0, 1) = P[i] /\ ~lat
          /\ QueryRule(P, i) \/ SettingRule(P, i) \/ StartRule(P, i)
      BY <2>1, <2>4, ThermWire
    <3>2. Back(t0, 0) = P[pc[t0]]
      <4>1. pc[t0] - 0 = pc[t0]
        BY <3>1
      <4>2. QED
        BY <4>1 DEF Back
    <3> HIDE DEF P, i
    <3>3. StartRule(P, i)
      <4>1. ~QueryRule(P, i)
        <5>1. SUFFICES ASSUME QueryRule(P, i) PROVE FALSE
          OBVIOUS
        <5>2. Fresh(i) \in {4, 6} /\ \E b \in 1..3 : treg.at = Result[Fresh(i)][b]
          BY <3>1, <5>1 DEF QueryRule
        <5>3. treg.at \in 29..39
          BY <5>2, ResultRegs
        <5>4. QED
          BY <2>4, <5>3 DEF Start
      <4>2. ~SettingRule(P, i)
        <5>1. SUFFICES ASSUME SettingRule(P, i) PROVE FALSE
          OBVIOUS
        <5>2. treg.at \in 4..23
          BY <3>1, <5>1 DEF SettingRule
        <5>3. QED
          BY <2>4, <5>2 DEF Start
      <4>3. QED
        BY <3>1, <4>1, <4>2
    <3>4. Back(t0, 0).op = "delay" /\ treg = Back(t0, 1).word
      <4>1. P[pc[t0]] = Op("delay")
        BY <3>1, <3>3 DEF StartRule
      <4>2. QED
        BY <3>1, <3>2, <4>1, InstrOps
    <3>5. conv' = [conv EXCEPT ![sel] = treg.val]
      BY <1>5, <2>4 DEF Finish
    <3>6. \A c \in DOMAIN conv' : conv'[c] # 0 => c = sel /\ conv'[c] = treg.val
      BY <1>1, <2>2, <3>5
    <3>7. pc'[t0] > 1 /\ ~lat' /\ ph' # "shift"
      BY <2>1, <3>1
    <3>8. Back(t0, 0)' = Back(t0, 0) /\ Back(t0, 1)' = Back(t0, 1)
      BY <2>1 DEF Back
    <3>9. QED
      BY <2>1, <2>4, <3>4, <3>6, <3>7, <3>8 DEF ConvInv
  <2>5. QED
    BY <2>3, <2>4
<1>6. ASSUME \A c \in DOMAIN conv' : c \in DOMAIN conv /\ (conv'[c] # 0 => conv'[c] = conv[c]),
             UNCHANGED <<kind, sel, pc, cmd, lat>>, ph' # "shift"
      PROVE  ConvInv'
  <2>1. Back(t0, 0)' = Back(t0, 0) /\ Back(t0, 1)' = Back(t0, 1)
    BY <1>6 DEF Back
  <2>2. QED
    BY <1>3, <1>6, <2>1 DEF ConvInv
<1>7. CASE Clear
  BY <1>6, <1>7 DEF Clear
<1>8. ASSUME NEW c \in 0..(Chips - 1), Convert(c)
      PROVE  ConvInv'
  <2>1. conv[c] # 0 /\ UNCHANGED <<kind, sel, pc, cmd, lat, ph>> /\ conv' = [conv EXCEPT ![c] = 0]
    BY <1>8 DEF Convert, threads
  <2>2. ph' # "shift"
    BY <1>1, <1>3, <2>1
  <2>3. \A d \in DOMAIN conv' : d \in DOMAIN conv /\ (conv'[d] # 0 => conv'[d] = conv[d])
    BY <1>1, <2>1
  <2>4. QED
    BY <1>6, <2>1, <2>2, <2>3
<1>9. ASSUME NEW t \in Thread, Step(t)
      PROVE  ConvInv'
  <2>1. ASSUME NEW c \in DOMAIN conv, conv[c] # 0 PROVE FALSE
    <3>1. kind = "therm" /\ Back(t0, 0).op = "delay"
      BY <1>3, <2>1
    <3>2. pc[t] # 0 /\ (DoWrite(t) \/ DoSelect(t) \/ DoWait(t) \/ DoSend(t))
      BY <1>1, <1>9, StepKinds
    <3>3. t = t0
      BY <1>1, <3>1, <3>2, ThermAt
    <3>4. DoWait(t)
      BY <3>1, <3>2, <3>3 DEF DoWrite, DoSelect, DoSend
    <3>5. LongDelay
      BY <3>1, <3>3, <3>4 DEF DoWait, WaitOrRead
    <3>6. QED
      BY <1>1, <2>1, <3>5 DEF LongDelay
  <2>2. conv' = conv
    BY <1>9 DEF Step
  <2>3. QED
    BY <1>2, <2>1, <2>2
<1>10. ASSUME NEW t \in Client, NEW m \in Message, Receive(t, m)
       PROVE  ConvInv'
  <2>1. kind # "therm" /\ conv' = conv
    BY <1>1, <1>10, MessageWork DEF Receive
  <2>2. QED
    BY <1>2, <1>3, <2>1
<1>11. QED
  BY <1>4, <1>5, <1>7, <1>8, <1>9, <1>10 DEF Next

\* After the delay the three bytes are of this round, until the next start.
LEMMA FreshStep ==
  ASSUME Inv, Next
  PROVE  FreshInv'
<1> DEFINE t0 == "thermistor"
<1>1. /\ TypeOK /\ CmdInv /\ AloneInv /\ SendInv /\ FreshInv /\ kind' = kind
  BY KindStays DEF Inv, TypeOK
<1>2. SUFFICES ASSUME kind = "therm", Fresh(pc'[t0]) # 0
      PROVE  Converted(Fresh(pc[t0]))'
  BY <1>1 DEF FreshInv
<1>3. ~overlap /\ kind \in Kind /\ kind # "dsa"
  BY <1>1, <1>2 DEF AloneInv, Kind
<1>4. ASSUME Fresh(pc'[t0]) = Fresh(pc[t0]), UNCHANGED <<chip, sel, turn>>
      PROVE  Converted(Fresh(pc[t0]))'
  BY <1>1, <1>2, <1>4 DEF FreshInv, Converted
<1>5. CASE Accept \/ Clear
  BY <1>4, <1>5 DEF Accept, Clear, threads
<1>6. CASE Finish
  <2> DEFINE P == Prog(cmd[t0])
             i == pc[t0] - 1
  <2>1. ph = "shift" /\ UNCHANGED <<sel, turn, pc>>
    BY <1>6 DEF Finish, threads
  <2>2. /\ treg = P[i].word /\ i + 1 = pc[t0]
        /\ QueryRule(P, i) \/ SettingRule(P, i) \/ StartRule(P, i)
    BY <1>2, <2>1, ThermWire
  <2> HIDE DEF P, i
  <2>3. QueryRule(P, i)
    BY <1>2, <2>1, <2>2 DEF SettingRule, StartRule
  <2>4. treg.rd = TRUE
    BY <2>2, <2>3 DEF QueryRule
  <2>5. chip' = chip
    BY <1>6, <2>4 DEF Finish
  <2>6. QED
    BY <1>4, <2>1, <2>5
<1>7. ASSUME NEW c \in 0..(Chips - 1), Convert(c)
      PROVE  FALSE
  <2>1. conv[c] # 0 /\ pc' = pc /\ c \in DOMAIN conv
    BY <1>1, <1>7 DEF Convert, threads, TypeOK
  <2>2. QED
    BY <1>2, <2>1, ConvFacts
<1>8. ASSUME NEW t \in Thread, Step(t)
      PROVE  Converted(Fresh(pc[t0]))'
  <2>1. pc[t] # 0 /\ (DoWrite(t) \/ DoSelect(t) \/ DoWait(t) \/ DoSend(t))
    BY <1>1, <1>3, <1>8, StepKinds
  <2>2. t = t0 /\ \A i \in 1..pc[t] : ThermRule(Prog(cmd[t]), i)
    BY <1>1, <1>2, <2>1, ThermAt
  <2>3. pc[t] \in 1..Len(Prog(cmd[t])) /\ pc[t] \in Nat /\ Back(t, 0) = Prog(cmd[t])[pc[t]]
    BY <1>1, <1>3, <2>1, AtWork
  <2>4. ~DoSend(t)
    <3>1. SUFFICES ASSUME DoSend(t) PROVE FALSE
      OBVIOUS
    <3>2. pc'[t] = 26 * Chips + 1
      BY <1>1, <1>3, <3>1, SendMoves
    <3>3. QED
      BY <1>2, <2>2, <3>2, ThermRules
  <2>5. Moves(t)
    <3>1. Goto(t)
      BY <2>1, <2>4 DEF DoWrite, DoSelect, DoWait, WriteWord, SelectChip, WaitOrRead
    <3>2. QED
      BY <1>1, <1>3, <2>1, <3>1, GotoMoves
  <2>6. pc'[t] = pc[t] + 1
    <3>1. pc'[t] # 0
      <4>1. 0 \in 0..(26 * Chips + 1)
        BY ChipsAssumption
      <4>2. Fresh(0) = 0
        BY <4>1, FreshAt
      <4>3. QED
        BY <1>2, <2>2, <4>2
    <3>2. QED
      BY <2>5, <3>1 DEF Moves
  <2> DEFINE P == Prog(cmd[t])
             i == pc[t]
  <2>7. ThermRule(P, i) /\ Back(t, 0) = P[i] /\ Fresh(i + 1) # 0
    <3>1. i \in 1..pc[t]
      BY <2>3
    <3>2. QED
      BY <1>2, <2>2, <2>3, <2>6, <3>1
  <2>8. Back(t, 1) = P[i - 1]
    BY DEF Back
  <2> HIDE DEF P
  <2>9. CASE DoWrite(t)
    <3>1. P[i].op = "write" /\ UNCHANGED <<chip, sel, turn>>
      BY <2>7, <2>9 DEF DoWrite, WriteWord
    <3>2. QueryRule(P, i)
      BY <2>7, <3>1 DEF ThermRule, SettingRule, StartRule
    <3>3. QED
      BY <1>4, <2>2, <2>6, <3>1, <3>2 DEF QueryRule
  <2>10. CASE DoSelect(t)
    BY <2>7, <2>10 DEF DoSelect, ThermRule
  <2>11. CASE DoWait(t) /\ Back(t, 0).op \in {"usleep", "read"}
    <3>1. UNCHANGED <<chip, sel, turn>>
      BY <2>11 DEF DoWait, WaitOrRead, master
    <3>2. Fresh(i + 1) = Fresh(i)
      BY <2>7, <2>11 DEF ThermRule
    <3>3. QED
      BY <1>4, <2>2, <2>6, <3>1, <3>2
  <2>12. CASE DoWait(t) /\ Back(t, 0).op = "delay"
    <3>1. UNCHANGED <<chip, sel, turn>> /\ LongDelay
      BY <2>12 DEF DoWait, WaitOrRead, master
    <3> DEFINE w == Back(t, 1).word
    <3>2. /\ pc[t] > 1 /\ Back(t, 1).op = "write" /\ w.rd = FALSE /\ w.at = Start
          /\ w.val \in {4, 6} /\ Fresh(i + 1) = w.val
      BY <2>7, <2>8, <2>12 DEF ThermRule, DelayRule
    <3>3. Sent(w)
      BY <1>1, <1>3, <3>2 DEF SendInv
    <3>4. Settled
      BY <1>3, <1>8, Quiet
    <3>5. conv[sel] = 0
      BY <1>1, <3>1 DEF LongDelay, TypeOK
    <3> HIDE DEF w
    <3>6. Done(w)
      BY <3>3, <3>4 DEF Sent, OnItsWay, Settled
    <3>7. Converted(w.val)
      BY <1>2, <3>2, <3>5, <3>6 DEF Done
    <3>8. Fresh(pc'[t0]) = w.val
      BY <2>2, <2>6, <3>2
    <3>9. QED
      BY <3>1, <3>7, <3>8 DEF Converted
  <2>13. QED
    BY <2>1, <2>4, <2>9, <2>10, <2>11, <2>12 DEF DoWait
<1>9. ASSUME NEW t \in Client, NEW m \in Message
      PROVE  FALSE
  BY <1>2, <1>3, MessageWork
<1>10. QED
  BY <1>5, <1>6, <1>7, <1>8, <1>9 DEF Next

(***************************************************************************)
(* The initial state, and the theorems.                                    *)
(***************************************************************************)

\* The invariant holds after start-up,
LEMMA InitInv ==
  ASSUME Init
  PROVE  Inv
<1>1. /\ kind \in Kind /\ ph = "idle" /\ lat = FALSE /\ data = NoWord /\ treg = NoWord
      /\ rdata = <<0, 0, Unset>>
      /\ chip = [r \in Registers(kind) |-> Unset] /\ want = chip
      /\ sel = 0 /\ conv = [c \in 0..(Chips - 1) |-> 0] /\ turn = 0
      /\ owed = [t \in Thread |-> FALSE] /\ lost = FALSE /\ overlap = FALSE
  BY DEF Init
<1>2. \A t \in Thread :
        /\ cmd[t] = CASE t = "main" /\ kind = "pll"         -> Own("pll")
                      [] t = "main" /\ kind = "adc"         -> Own("init")
                      [] t = "thermistor" /\ kind = "therm" -> Own("therm")
                      [] OTHER                              -> NoCmd
        /\ pc[t] = IF cmd[t] = NoCmd THEN 0 ELSE 1
  BY DEF Init, Own, NoCmd
<1>3. DOMAIN cmd = Thread /\ DOMAIN pc = Thread
      /\ cmd = [t \in DOMAIN cmd |-> cmd[t]] /\ pc = [t \in DOMAIN pc |-> pc[t]]
  BY DEF Init
<1>4. \A m : Own(m) = [msg |-> m, arg |-> <<0, 0>>]
      /\ NoCmd = [msg |-> "none", arg |-> <<0, 0>>]
  BY DEF Own, NoCmd
<1>5. /\ Own("pll") # NoCmd /\ Own("init") # NoCmd /\ Own("therm") # NoCmd
      /\ NoCmd \in Command /\ Prog(NoCmd) = <<>>
  BY <1>4 DEF Command, Prog
<1>6. ASSUME NEW t \in Thread
      PROVE  /\ cmd[t] \in Commands(t) /\ (pc[t] = 0 <=> cmd[t] = NoCmd)
             /\ cmd[t] # NoCmd => pc[t] = 1 /\ cmd[t] \in Work(kind)
             /\ cmd[t] # NoCmd => t \in {"main", "thermistor"} /\ kind # "dsa"
             /\ cmd[t] # NoCmd /\ kind = "therm" => t = "thermistor"
             /\ cmd[t] # NoCmd /\ kind # "therm" => t = "main"
  BY <1>1, <1>2, <1>5, ThreadFacts DEF Commands, Work, Kind
<1>7. ASSUME NEW t \in Thread
      PROVE  /\ cmd[t] \in Command /\ pc[t] \in 0..Len(Prog(cmd[t])) /\ pc[t] \in {0, 1}
             /\ pc[t] # 0 => Good(kind, Prog(cmd[t]))
  <2>1. CASE cmd[t] = NoCmd
    <3>1. Len(Prog(cmd[t])) = 0
      BY <1>5, <2>1
    <3>2. pc[t] = 0
      BY <1>6, <2>1
    <3>3. QED
      BY <1>5, <2>1, <3>1, <3>2
  <2>2. CASE cmd[t] # NoCmd
    <3>1. Good(kind, Prog(cmd[t])) /\ cmd[t] \in Command /\ pc[t] = 1
      BY <1>1, <1>6, <2>2, ProgGood
    <3>2. Len(Prog(cmd[t])) \in Nat /\ Len(Prog(cmd[t])) >= 1
      BY <3>1, LenProperties DEF Good
    <3>3. QED
      BY <3>1, <3>2
  <2>3. QED
    BY <2>1, <2>2
<1>8. TypeOK
  <2>1. NoWord \in WordSet /\ Unset \in -1..255 /\ Unset \in Int
    BY DEF NoWord, WordSet, Unset
  <2>2. 0 \in 0..(Chips - 1)
    BY ChipsAssumption
  <2>3. data \in WordSet /\ treg \in WordSet
    BY <1>1, <2>1
  <2>4. chip \in [Registers(kind) -> -1..255] /\ want \in [Registers(kind) -> -1..255]
    BY <1>1, <2>1
  <2>5. rdata \in Nat \X Nat \X Int
    BY <1>1, <2>1
  <2>6. conv \in [0..(Chips - 1) -> {0, 4, 6}] /\ owed \in [Thread -> BOOLEAN]
    BY <1>1
  <2>7. lat \in BOOLEAN /\ lost \in BOOLEAN /\ overlap \in BOOLEAN
    BY <1>1
  <2>8. \A t \in Thread : pc[t] \in 0..Len(Prog(cmd[t]))
    BY <1>7
  <2>9. ph \in {"idle", "shift", "clear"} /\ sel \in 0..(Chips - 1) /\ turn \in {0, 1}
    BY <1>1, <2>2
  <2>10. QED
    BY <1>1, <2>3, <2>4, <2>5, <2>6, <2>7, <2>8, <2>9 DEF TypeOK
<1>9. CmdInv
  <2>1. cmd \in [Thread -> Command] /\ pc \in [Thread -> Nat]
    <3>1. \A t \in Thread : cmd[t] \in Command /\ pc[t] \in Nat
      BY <1>7
    <3>2. QED
      BY ONLY <1>3, <3>1
  <2>2. QED
    BY <1>6, <1>7, <2>1 DEF CmdInv
<1>10. AloneInv
  <2>1. \A t, u \in Thread : pc[t] # 0 /\ pc[u] # 0 => t = u
    BY <1>6
  <2>2. QED
    BY <1>1, <2>1 DEF AloneInv
<1>11. BusyInv
  <2>1. Settled /\ ~Blind
    BY <1>1 DEF Settled, Blind
  <2>2. \A t \in Thread : Waiting(t)
    BY <1>1 DEF Waiting
  <2>3. QED
    BY <2>1, <2>2 DEF BusyInv
<1>12. AddrInv
  BY <1>1 DEF AddrInv
<1>13. FollowInv
  <2>1. \A r \in Registers(kind) : After(r) = want[r] /\ want[r] = Unset
    BY <1>1 DEF After
  <2>2. ResultReg \subseteq Registers(kind)
    BY DEF ResultReg, Registers
  <2>3. QED
    BY <2>1, <2>2 DEF FollowInv
<1>14. PllInv
  <2>1. SUFFICES ASSUME kind = "pll" PROVE PllInv
    BY DEF PllInv
  <2>2. pc["main"] = 1
    BY <1>2, <1>5, <2>1, ThreadFacts
  <2>3. \A j \in 1..32 : /\ want[<<0, PllWord(j)[1]>>] = Unset
                         /\ chip[<<0, PllWord(j)[1]>>] = Unset
    BY <1>1, <2>1, PllWordFacts
  <2>4. chip[<<0, Update[1]>>] = Unset
    <3>1. 32 \in 1..32
      OBVIOUS
    <3>2. QED
      BY <2>3, <3>1, PllWordFacts
  <2>5. \A j \in 1..32 : pc["main"] \in 1..(2 * j - 1)
    BY <2>2
  <2>6. pc["main"] \in 1..63
    BY <2>2
  <2>7. QED
    BY <2>3, <2>4, <2>5, <2>6 DEF PllInv
<1>15. SendInv
  <2>1. \A t \in Thread : ~(pc[t] > 1)
    BY <1>7
  <2>2. QED
    BY <2>1 DEF SendInv
<1>16. ReadInv
  <2>1. ASSUME NEW t \in Thread, pc[t] # 0
        PROVE  Back(t, 0).op # "read"
    <3>1. pc[t] = 1 /\ Good(kind, Prog(cmd[t]))
      BY <1>7, <2>1
    <3>2. Back(t, 0) = Prog(cmd[t])[1]
      BY <3>1 DEF Back
    <3>3. QED
      BY <3>1, <3>2 DEF Good, Paced
  <2>2. QED
    BY <2>1 DEF ReadInv
<1>17. ConvInv
  BY <1>1 DEF ConvInv
<1>18. FreshInv
  <2>1. "thermistor" \in Thread
    BY ThreadFacts
  <2>2. pc["thermistor"] \in 0..(26 * Chips + 1)
    BY <1>7, <2>1, ChipsAssumption
  <2>3. QED
    BY <2>2, FreshAt DEF FreshInv
<1>19. LostByCrowdOnly
  BY <1>1 DEF LostByCrowdOnly
<1>20. QED
  BY <1>8, <1>9, <1>10, <1>11, <1>12, <1>13, <1>14, <1>15, <1>16, <1>17, <1>18, <1>19 DEF Inv

\* when nothing happens,
LEMMA Unchanged ==
  ASSUME Inv, UNCHANGED vars
  PROVE  Inv'
<1>1. UNCHANGED <<kind, ph, lat, data, treg, rdata, chip, conv, cmd, pc, owed, want, sel, turn,
                  lost, overlap>>
  BY DEF vars, master, threads
<1>2. /\ TypeOK /\ CmdInv /\ AloneInv /\ BusyInv /\ AddrInv /\ FollowInv /\ PllInv
      /\ SendInv /\ ReadInv /\ ConvInv /\ FreshInv /\ LostByCrowdOnly
  BY DEF Inv
<1>3. \A t, n : Back(t, n)' = Back(t, n)
  BY <1>1 DEF Back
<1>4. TypeOK' /\ CmdInv' /\ AloneInv' /\ AddrInv' /\ LostByCrowdOnly' /\ PllInv' /\ FreshInv'
  <2>1. TypeOK' /\ AloneInv' /\ AddrInv' /\ LostByCrowdOnly'
    BY <1>1, <1>2 DEF TypeOK, AloneInv, AddrInv, LostByCrowdOnly
  <2>2. CmdInv' /\ PllInv' /\ FreshInv'
    BY <1>1, <1>2 DEF CmdInv, Commands, PllInv, FreshInv, Converted
  <2>3. QED
    BY <2>1, <2>2
<1>5. BusyInv'
  BY <1>1, <1>2, <1>3 DEF BusyInv, Waiting, Blind, Settled
<1>6. FollowInv'
  BY <1>1, <1>2 DEF FollowInv, After, ResultReg
<1>7. SendInv' /\ ReadInv'
  BY <1>1, <1>2, <1>3 DEF SendInv, ReadInv, Sent, OnItsWay, Done, Answer, Converted, Settled
<1>8. ConvInv'
  BY <1>1, <1>2, <1>3 DEF ConvInv
<1>9. QED
  BY <1>4, <1>5, <1>6, <1>7, <1>8 DEF Inv

\* and always.
LEMMA Invariance == Spec => []Inv
<1>1. Init => Inv
  BY InitInv
<1>2. Inv /\ [Next]_vars => Inv'
  <2>1. ASSUME Inv, Next
        PROVE  Inv'
    BY <2>1, TypeStep, CmdStep, AloneStep, BusyStep, AddrStep, FollowStep, PllStep, SendStep,
       ReadStep, ConvStep, FreshStep, LostStep DEF Inv
  <2>2. ASSUME Inv, UNCHANGED vars
        PROVE  Inv'
    BY <2>2, Unchanged
  <2>3. QED
    BY <2>1, <2>2
<1>3. QED
  BY <1>1, <1>2, PTL DEF Spec

\* Types of the masters' registers and of the threads' places: a thread is never
\* beyond its program, and a conversion is of a channel that exists.
THEOREM TypeCorrect == Spec => []TypeOK
<1>1. Inv => TypeOK
  BY DEF Inv
<1>2. QED
  BY <1>1, Invariance, PTL

\* A strobe is lost (the masters' latch is cleared in a transfer) only when two
\* clients' handlers met, or on the attenuator, which nobody waits for.
THEOREM CrowdOnlyLoses == Spec => []LostByCrowdOnly
<1>1. Inv => LostByCrowdOnly
  BY DEF Inv
<1>2. QED
  BY <1>1, Invariance, PTL

\* With the master idle and nothing lost, every register of the chip that was
\* written has the value that was written last.
THEOREM ChipsFollow == Spec => []ChipFollows
<1>1. ASSUME Inv
      PROVE  ChipFollows
  <2>1. DOMAIN chip = Registers(kind) /\ FollowInv
    BY <1>1 DEF Inv, TypeOK
  <2>2. SUFFICES ASSUME Settled, ~lost, NEW r \in Registers(kind), want[r] # Unset
        PROVE  chip[r] = want[r]
    BY <2>1 DEF ChipFollows
  <2>3. r \notin ResultReg
    BY <2>1, <2>2 DEF FollowInv
  <2>4. After(r) = want[r]
    BY <2>1, <2>2, <2>3 DEF FollowInv
  <2>5. After(r) = chip[r]
    BY <2>2 DEF After, Settled
  <2>6. QED
    BY <2>4, <2>5
<1>2. QED
  BY <1>1, Invariance, PTL

\* The AD9510 takes over its settings with the last word of ad9510_init, and all
\* of them have arrived then.
THEOREM PllIsReady == Spec => []PllReady
<1>1. ASSUME Inv
      PROVE  PllReady
  <2>1. PllInv
    BY <1>1 DEF Inv
  <2>2. SUFFICES ASSUME kind = "pll", chip[<<0, Update[1]>>] # Unset
        PROVE  \A i \in DOMAIN PllSetup : chip[<<0, PllSetup[i][1]>>] = PllSetup[i][2]
    BY DEF PllReady
  <2>3. \A j \in 1..31 : chip[<<0, PllWord(j)[1]>>] = PllWord(j)[2]
    BY <2>1, <2>2 DEF PllInv
  <2>4. \A j \in 1..31 : PllWord(j) = PllSetup[j]
    BY PllWordFacts
  <2>5. DOMAIN PllSetup = 1..31
    BY PllSetupSeq
  <2>6. QED
    BY ONLY <2>3, <2>4, <2>5
<1>2. QED
  BY <1>1, Invariance, PTL

\* What adc_spi and read_thermistors read from the data register is the answer
\* to their own query, and a thermistor's byte is of the conversion of this
\* round.
THEOREM AnswersAreOwn == Spec => []AnswersOwn
<1>1. ASSUME Inv
      PROVE  AnswersOwn
  <2>1. CmdInv /\ ReadInv
    BY <1>1 DEF Inv
  <2>2. SUFFICES ASSUME NEW t \in Thread, pc[t] # 0, Prog(cmd[t])[pc[t]].op = "read", ~overlap
        PROVE  LET q == Prog(cmd[t])[pc[t] - 2].word IN
               rdata = <<sel, q.at, IF kind = "therm" THEN turn ELSE chip[<<sel, q.at>>]>>
    BY DEF AnswersOwn
  <2>3. Back(t, 0) = Prog(cmd[t])[pc[t]] /\ Back(t, 2) = Prog(cmd[t])[pc[t] - 2]
    <3>1. pc[t] - 0 = pc[t]
      BY <2>1 DEF CmdInv
    <3>2. QED
      BY <3>1 DEF Back
  <2>4. Answer(Back(t, 2).word)
    BY <2>1, <2>2, <2>3 DEF ReadInv
  <2>5. QED
    BY <2>3, <2>4 DEF Answer
<1>2. QED
  BY <1>1, Invariance, PTL

=============================================================================
