---------------------------- MODULE RecordProofs ----------------------------
(***************************************************************************)
(* The records of the two threads that send what others write meanwhile:   *)
(* the board status thread on the I2C bus (I2cMux), for every number of    *)
(* SFP cages and every set of gain pairs, and slow acquisition (SaData),   *)
(* for every number of fields and every width of the count that is more    *)
(* than what two passes of the thread can miss.                            *)
(***************************************************************************)
EXTENDS I2cMux, SaData, TLAPS, SequenceTheorems

(***************************************************************************)
(* Board status.  The invariant follows the switches through a pass, a     *)
(* console command and main(): who reads or writes at a step has the       *)
(* outputs the steps before it selected, because whoever could have        *)
(* changed them since could not run.                                       *)
(***************************************************************************)

N == Len(Cages)

\* The switches keep to their outputs: no address but the EEPROM's and the
\* modules' is ever behind the first one.
SwitchInv ==
  /\ exp \in [{0, 1} -> Channel]
  /\ exp[0] \in {"none", "ee"} \cup Cage
  /\ exp[1] \in Outputs \ {"ee"}

TypeInv ==
  /\ SwitchInv
  /\ plugged \subseteq Cage
  /\ main \in 0..19 /\ st \in 0..(14 + 3 * N)
  /\ rec \in [Source -> SUBSET (Channel \X Nat)]
  /\ con \in [cmd : Command, pc : 0..5, bumped : BOOLEAN]
  /\ con.pc <= Len(Console[con.cmd.op])
  /\ ee \in [machine : 0..2, kxky : Nat \X Nat]
  /\ reg \in [machine : {0, 1}, kx : Int, ky : Int]
  /\ said \in [machine : SUBSET (0..2), kxky : SUBSET (Nat \X Nat)]
  /\ stray \in BOOLEAN
  /\ main # 0 => st = 0 /\ con = Idle

\* The devices D were read as what they are.
Good(D) == \A d \in D : rec[d] = {d} \/ (d[1] \in Cage /\ rec[d] = {})

\* The first readings of a pass, then the cages', then the power monitor's.
FirstInv ==
  /\ st = 2 => exp[1] = "dfe"
  /\ st >= 3 => Good(Dev("dfe", Behind("dfe")))
  /\ st \in {4, 5} => exp[1] = "afe"
  /\ st >= 5 => Good(Dev("afe", {\h48, \h4A}))
  /\ st >= 6 => Good(Dev("afe", {\h40}))
  /\ st \in 7..9 => exp[1] = "sup"
  /\ st >= 10 => Good(All("sup"))

CageInv ==
  \A i \in 1..N :
    /\ st \in {8 + 3 * i, 9 + 3 * i} => exp[0] = Cages[i]
    /\ st = 9 + 3 * i => exp[1] = "none"
    /\ st > 9 + 3 * i => Good(All(Cages[i]))

LastInv ==
  /\ st = 13 + 3 * N => exp[1] = "pwr"
  /\ st = 14 + 3 * N => Good(All("pwr"))

\* A command that was not disturbed has what it has selected.
Free == st = 0 \/ Sending
Selected(p) ==
  con.pc >= p => Free /\ exp[0] = "ee" /\ (con.pc > p => exp[1] = "none")
ConInv ==
  ~con.bumped =>
    /\ con.cmd.op = "machine" => Selected(2)
    /\ con.cmd.op = "kxky" => Selected(4)

\* What main() has selected, and what it has read from the EEPROM.
Gain(v) == IF v = Erased THEN Reset ELSE v
BootInv ==
  /\ main \in {10, 11, 13, 14} => exp[0] = "ee"
  /\ main \in {11, 14} => exp[1] = "none"
  /\ main > 11 => reg.machine = KnownMachine(ee.machine)
  /\ main \in 1..14 => reg.kx = Reset /\ reg.ky = Reset
  /\ main > 14 => reg.kx = Gain(ee.kxky[1]) /\ reg.ky = Gain(ee.kxky[2])

IInv == /\ TypeInv /\ FirstInv /\ CageInv /\ LastInv /\ ConInv /\ BootInv
        /\ SavedKept /\ NoStrayWrite

-----------------------------------------------------------------------------
(* The programs, step by step.                                             *)

LEMMA SeqOf ==
  ASSUME NEW S, NEW n \in Nat, NEW f \in [1..n -> S]
  PROVE  f \in Seq(S) /\ Len(f) = n
<1>1. f \in Seq(S)
  BY SeqDef
<1>2. Len(f) \in Nat /\ 1..Len(f) = 1..n
  BY <1>1, LenProperties
<1>3. QED
  BY <1>1, <1>2

LEMMA Join ==
  ASSUME NEW S, NEW s \in Seq(S), NEW t \in Seq(S)
  PROVE  /\ s \o t \in Seq(S)
         /\ Len(s \o t) = Len(s) + Len(t)
         /\ \A p \in 1..Len(s) : (s \o t)[p] = s[p]
         /\ \A p \in 1..Len(t) : (s \o t)[Len(s) + p] = t[p]
<1>1. Len(s) \in Nat /\ Len(t) \in Nat
  BY LenProperties
<1>2. /\ s \o t \in Seq(S) /\ Len(s \o t) = Len(s) + Len(t)
      /\ \A p \in 1..(Len(s) + Len(t)) :
           (s \o t)[p] = IF p <= Len(s) THEN s[p] ELSE t[p - Len(s)]
  BY ConcatProperties
<1>3. QED
  BY <1>1, <1>2

LEMMA CagesType == N \in Nat /\ \A i \in 1..N : Cages[i] \in Cage
BY CagesAssumption DEF N, Cage

LEMMA AllCagesSteps ==
  /\ AllCages = [p \in 1..(3 * N) |-> AllCages[p]]
  /\ \A i \in 1..N : /\ AllCages[3 * i - 2] = Sel(0, Cages[i])
                     /\ AllCages[3 * i - 1] = Sel(1, "none")
                     /\ AllCages[3 * i] = Get(All(Cages[i]))
<1>1. \A p \in 1..(3 * N) :
        AllCages[p] = SfpStats(Cages[((p - 1) \div 3) + 1])[((p - 1) % 3) + 1]
  BY CagesType DEF AllCages, N
<1>2. AllCages = [p \in 1..(3 * N) |-> AllCages[p]]
  BY DEF AllCages, N
<1>3. ASSUME NEW i \in 1..N
      PROVE  /\ AllCages[3 * i - 2] = SfpStats(Cages[i])[1]
             /\ AllCages[3 * i - 1] = SfpStats(Cages[i])[2]
             /\ AllCages[3 * i] = SfpStats(Cages[i])[3]
  <2>1. /\ 3 * i - 2 \in 1..(3 * N) /\ 3 * i - 1 \in 1..(3 * N) /\ 3 * i \in 1..(3 * N)
    BY CagesType
  <2>2. /\ ((3 * i - 2 - 1) \div 3) + 1 = i /\ ((3 * i - 2 - 1) % 3) + 1 = 1
        /\ ((3 * i - 1 - 1) \div 3) + 1 = i /\ ((3 * i - 1 - 1) % 3) + 1 = 2
        /\ ((3 * i - 1) \div 3) + 1 = i /\ ((3 * i - 1) % 3) + 1 = 3
    BY CagesType
  <2>3. QED
    BY <1>1, <2>1, <2>2
<1>4. QED
  BY <1>2, <1>3 DEF SfpStats

LEMMA PassSteps ==
  /\ Len(Pass) = 14 + 3 * N
  /\ Pass[1] = Sel(1, "dfe") /\ Pass[2] = ReadTemps("dfe", Behind("dfe"))
  /\ Pass[3] = Sel(1, "afe") /\ Pass[4] = ReadTemps("afe", {\h48, \h4A})
  /\ Pass[5] = InaRead
  /\ Pass[6] = Sel(1, "sup") /\ Pass[7] = Sel(1, "sup") /\ Pass[8] = Put(All("sup"))
  /\ Pass[9] = Get(All("sup"))
  /\ \A i \in 1..N : /\ Pass[7 + 3 * i] = Sel(0, Cages[i])
                     /\ Pass[8 + 3 * i] = Sel(1, "none")
                     /\ Pass[9 + 3 * i] = Get(All(Cages[i]))
  /\ Pass[10 + 3 * N] = Sel(1, "pwr") /\ Pass[11 + 3 * N] = Sel(0, "none")
  /\ Pass[12 + 3 * N] = Sel(1, "pwr") /\ Pass[13 + 3 * N] = Get(All("pwr"))
  /\ Pass[14 + 3 * N] = Do("send")
<1> DEFINE head == <<Sel(1, "dfe"), ReadTemps("dfe", Behind("dfe")), Sel(1, "afe"),
                     ReadTemps("afe", {\h48, \h4A}), InaRead, Sel(1, "sup"),
                     Sel(1, "sup"), Put(All("sup")), Get(All("sup"))>>
           tail == <<Sel(1, "pwr"), Sel(0, "none"), Sel(1, "pwr"), Get(All("pwr")),
                     Do("send")>>
<1>1. Pass = (head \o AllCages) \o tail
  <2>1. head = <<Sel(1, "dfe"), ReadTemps("dfe", Behind("dfe")), Sel(1, "afe"),
                 ReadTemps("afe", {\h48, \h4A}), InaRead, Sel(1, "sup")>>
               \o ConfigureLtc2991 \o <<ReadLtc2991>>
    BY DEF ConfigureLtc2991, ReadLtc2991
  <2>2. tail = <<Sel(1, "pwr")>> \o Ltc2977Stats \o <<Do("send")>>
    BY DEF Ltc2977Stats
  <2> HIDE DEF head, tail
  <2>3. QED
    BY <2>1, <2>2, Zenon DEF Pass
<1>2. /\ Len(head) = 9
      /\ head[1] = Sel(1, "dfe") /\ head[2] = ReadTemps("dfe", Behind("dfe"))
      /\ head[3] = Sel(1, "afe") /\ head[4] = ReadTemps("afe", {\h48, \h4A})
      /\ head[5] = InaRead /\ head[6] = Sel(1, "sup") /\ head[7] = Sel(1, "sup")
      /\ head[8] = Put(All("sup")) /\ head[9] = Get(All("sup"))
  OBVIOUS
<1>3. /\ Len(tail) = 5
      /\ tail[1] = Sel(1, "pwr") /\ tail[2] = Sel(0, "none") /\ tail[3] = Sel(1, "pwr")
      /\ tail[4] = Get(All("pwr")) /\ tail[5] = Do("send")
  OBVIOUS
<1> DEFINE S == {head[p] : p \in 1..9} \cup {AllCages[p] : p \in 1..(3 * N)}
                \cup {tail[p] : p \in 1..5}
<1>4. head = [p \in 1..9 |-> head[p]] /\ tail = [p \in 1..5 |-> tail[p]]
  OBVIOUS
<1> HIDE DEF head, tail
<1>5. /\ head \in Seq(S) /\ tail \in Seq(S) /\ AllCages \in Seq(S)
      /\ Len(AllCages) = 3 * N
  <2>1. head \in [1..9 -> S] /\ tail \in [1..5 -> S] /\ AllCages \in [1..(3 * N) -> S]
    BY <1>4, AllCagesSteps
  <2>2. 9 \in Nat /\ 5 \in Nat /\ 3 * N \in Nat
    BY CagesType
  <2>3. QED
    BY <2>1, <2>2, SeqOf
<1> HIDE DEF S
<1> DEFINE body == head \o AllCages
<1>6. /\ body \in Seq(S) /\ Len(body) = 9 + 3 * N
      /\ \A p \in 1..9 : body[p] = head[p]
      /\ \A p \in 1..(3 * N) : body[9 + p] = AllCages[p]
  <2>1. /\ body \in Seq(S)
        /\ Len(body) = Len(head) + Len(AllCages)
        /\ \A p \in 1..Len(head) : body[p] = head[p]
        /\ \A p \in 1..Len(AllCages) : body[Len(head) + p] = AllCages[p]
    <3>1. head \in Seq(S) /\ AllCages \in Seq(S)
      BY <1>5
    <3>2. QED
      BY <3>1, Join
  <2> HIDE DEF body
  <2>2. QED
    BY <2>1, <1>2, <1>5
<1>7. /\ Len(Pass) = 9 + 3 * N + 5
      /\ \A p \in 1..(9 + 3 * N) : Pass[p] = body[p]
      /\ \A p \in 1..5 : Pass[9 + 3 * N + p] = tail[p]
  <2> HIDE DEF body
  <2>1. Pass = body \o tail
    BY <1>1 DEF body
  <2>2. /\ Len(Pass) = Len(body) + Len(tail)
        /\ \A p \in 1..Len(body) : Pass[p] = body[p]
        /\ \A p \in 1..Len(tail) : Pass[Len(body) + p] = tail[p]
    <3>1. body \in Seq(S) /\ tail \in Seq(S)
      BY <1>5, <1>6
    <3>2. QED
      BY <2>1, <3>1, Join
  <2>3. QED
    BY <2>2, <1>3, <1>6
<1> HIDE DEF body
<1>8. \A i \in 1..N : /\ Pass[7 + 3 * i] = AllCages[3 * i - 2]
                      /\ Pass[8 + 3 * i] = AllCages[3 * i - 1]
                      /\ Pass[9 + 3 * i] = AllCages[3 * i]
  <2> TAKE i \in 1..N
  <2>1. /\ 3 * i - 2 \in 1..(3 * N) /\ 3 * i - 1 \in 1..(3 * N) /\ 3 * i \in 1..(3 * N)
        /\ 9 + (3 * i - 2) = 7 + 3 * i /\ 9 + (3 * i - 1) = 8 + 3 * i
        /\ 7 + 3 * i \in 1..(9 + 3 * N) /\ 8 + 3 * i \in 1..(9 + 3 * N)
        /\ 9 + 3 * i \in 1..(9 + 3 * N)
    BY CagesType
  <2>2. QED
    BY <1>6, <1>7, <2>1
<1>9. \A p \in 1..9 : Pass[p] = head[p]
  BY <1>6, <1>7, CagesType
<1>10. Len(Pass) = 14 + 3 * N
  BY <1>7, CagesType
<1>11. /\ Pass[10 + 3 * N] = tail[1] /\ Pass[11 + 3 * N] = tail[2]
       /\ Pass[12 + 3 * N] = tail[3] /\ Pass[13 + 3 * N] = tail[4]
       /\ Pass[14 + 3 * N] = tail[5]
  <2>1. /\ 9 + 3 * N + 1 = 10 + 3 * N /\ 9 + 3 * N + 2 = 11 + 3 * N
        /\ 9 + 3 * N + 3 = 12 + 3 * N /\ 9 + 3 * N + 4 = 13 + 3 * N
        /\ 9 + 3 * N + 5 = 14 + 3 * N
    BY CagesType
  <2>2. QED
    BY <1>7, <2>1
<1>12. \A i \in 1..N : /\ Pass[7 + 3 * i] = Sel(0, Cages[i])
                       /\ Pass[8 + 3 * i] = Sel(1, "none")
                       /\ Pass[9 + 3 * i] = Get(All(Cages[i]))
  BY <1>8, AllCagesSteps
<1>13. /\ Pass[1] = head[1] /\ Pass[2] = head[2] /\ Pass[3] = head[3]
       /\ Pass[4] = head[4] /\ Pass[5] = head[5] /\ Pass[6] = head[6]
       /\ Pass[7] = head[7] /\ Pass[8] = head[8] /\ Pass[9] = head[9]
  BY <1>9
<1>14. /\ Pass[1] = Sel(1, "dfe") /\ Pass[2] = ReadTemps("dfe", Behind("dfe"))
       /\ Pass[3] = Sel(1, "afe") /\ Pass[4] = ReadTemps("afe", {\h48, \h4A})
       /\ Pass[5] = InaRead
       /\ Pass[6] = Sel(1, "sup") /\ Pass[7] = Sel(1, "sup") /\ Pass[8] = Put(All("sup"))
       /\ Pass[9] = Get(All("sup"))
  BY <1>2, <1>13
<1>15. /\ Pass[10 + 3 * N] = Sel(1, "pwr") /\ Pass[11 + 3 * N] = Sel(0, "none")
       /\ Pass[12 + 3 * N] = Sel(1, "pwr") /\ Pass[13 + 3 * N] = Get(All("pwr"))
       /\ Pass[14 + 3 * N] = Do("send")
  BY <1>3, <1>11
<1> QED
  BY <1>10, <1>12, <1>14, <1>15, Zenon

LEMMA BootSteps ==
  /\ Len(Boot) = 19
  /\ Boot[1] = Sel(1, "afe") /\ Boot[2] = InaInit /\ Boot[3] = ProgSi569
  /\ Boot[4] = Sel(1, "clk") /\ Boot[5] = Put(All("clk"))
  /\ Boot[6] = Sel(1, "afe") /\ Boot[7] = ReadTemps("afe", {\h48, \h4A})
  /\ Boot[8] = Sel(1, "none")
  /\ Boot[9] = Sel(0, "ee") /\ Boot[10] = Sel(1, "none") /\ Boot[11] = Do("machine")
  /\ Boot[12] = Sel(0, "ee") /\ Boot[13] = Sel(1, "none") /\ Boot[14] = Do("kxky")
  /\ Boot[15] = Do("start")
  /\ Boot[16] = Sel(0, "ee") /\ Boot[17] = Sel(1, "none") /\ Boot[18] = Get(All("ee"))
  /\ Boot[19] = Do("start")
BY DEF Boot, WriteLmk, RestoreSettings, SelectEeprom, ReadMac

LEMMA ConsoleSteps ==
  /\ Len(Console["machine"]) = 4
  /\ Console["machine"][1] = Sel(0, "ee") /\ Console["machine"][2] = Sel(1, "none")
  /\ Console["machine"][3] = Do("save") /\ Console["machine"][4] = Do("reg")
  /\ Len(Console["kxky"]) = 5
  /\ Console["kxky"][1] = Do("kx") /\ Console["kxky"][2] = Do("ky")
  /\ Console["kxky"][3] = Sel(0, "ee") /\ Console["kxky"][4] = Sel(1, "none")
  /\ Console["kxky"][5] = Do("save")
  /\ Len(Console["dump"]) = 4
  /\ Console["dump"][1] = Sel(0, "ee") /\ Console["dump"][2] = Sel(1, "none")
  /\ Console["dump"][3] = Get(All("ee")) /\ Console["dump"][4] = Do("hold")
BY DEF Console, MachineSel, SetKxKy, DumpEeprom, SelectEeprom

-----------------------------------------------------------------------------
(* Transfers, and who answers them.                                        *)

LEMMA TransferSel ==
  ASSUME NEW e, NEW ch, Transfer(Sel(e, ch))
  PROVE  exp' = [exp EXCEPT ![e] = ch] /\ UNCHANGED <<rec, stray>>
BY DEF Transfer, Sel

LEMMA TransferGet ==
  ASSUME NEW D, Transfer(Get(D))
  PROVE  /\ rec' = [d \in Source |-> IF st # 0 /\ d \in D THEN At(d[2]) ELSE rec[d]]
         /\ UNCHANGED <<exp, stray>>
BY DEF Transfer, Get

LEMMA TransferPut ==
  ASSUME NEW D, Transfer(Put(D))
  PROVE  /\ stray' = (stray \/ \E d \in D : At(d[2]) \ {d} # {})
         /\ UNCHANGED <<exp, rec>>
BY DEF Transfer, Put

LEMMA NoTransfer ==
  ASSUME NEW op, op \notin {"sel", "get", "put"}
  PROVE  ~Transfer(Do(op))
BY DEF Transfer, Do

LEMMA BehindAll ==
  /\ Behind("none") = {} /\ Behind("ee") = {\h50}
  /\ Behind("dfe") = {\h48, \h49, \h4A, \h4B}
  /\ Behind("afe") = {\h40, \h48, \h4A, \h56}
  /\ Behind("sup") = {\h48, \h49, \h4A}
  /\ Behind("pwr") = {\h5C} /\ Behind("clk") = {\h5A}
  /\ \A s \in Cage : Behind(s) = {\h51}
<1>1. \A s \in Cage : s \notin Outputs
  BY CagesAssumption
<1>2. \A s \in Cage : Behind(s) = {\h51}
  BY <1>1 DEF Behind, Outputs
<1>3. {"none", "ee", "dfe", "afe", "sup", "pwr", "clk"} \cap Cage = {}
  BY <1>1 DEF Outputs
<1>4. QED
  BY <1>2, <1>3 DEF Behind

\* A device behind the second switch answers alone, and so does the EEPROM.
LEMMA AtSecond ==
  ASSUME SwitchInv, NEW ch \in {"dfe", "afe", "sup", "pwr"}, exp[1] = ch,
         NEW a \in Behind(ch)
  PROVE  At(a) = {<<ch, a>>}
<1>1. a \notin Behind(exp[0])
  BY BehindAll DEF SwitchInv
<1>2. ch \notin Cage
  BY CagesAssumption DEF Outputs
<1>3. QED
  BY <1>1, <1>2 DEF At

LEMMA AtEeprom ==
  ASSUME SwitchInv, exp[0] = "ee", exp[1] = "none"
  PROVE  At(\h50) = {<<"ee", \h50>>}
<1>1. "ee" \notin Cage /\ \h50 \in Behind(exp[0]) /\ \h50 \notin Behind(exp[1])
  BY BehindAll, CagesAssumption DEF Outputs
<1>2. QED
  BY <1>1 DEF At

LEMMA AtCage ==
  ASSUME SwitchInv, NEW s \in Cage, exp[0] = s, exp[1] = "none"
  PROVE  At(\h51) \in {{<<s, \h51>>}, {}}
<1>1. \h51 \notin Behind(exp[1])
  BY BehindAll
<1>2. QED
  BY <1>1 DEF At

LEMMA AtType ==
  ASSUME SwitchInv, NEW a \in Nat
  PROVE  At(a) \in SUBSET (Channel \X Nat)
BY DEF At, SwitchInv

\* Whatever the switches have selected, these writes reach the device they are
\* for or none: no other device has their address.
LEMMA PutsAreSafe ==
  ASSUME SwitchInv,
         NEW D \in {Dev("afe", {\h40}), Dev("afe", {\h56}), All("clk")}, NEW d \in D
  PROVE  At(d[2]) \ {d} = {}
<1>1. d \in {<<"afe", \h40>>, <<"afe", \h56>>, <<"clk", \h5A>>}
  BY BehindAll DEF Dev, All
<1>2. \A e \in {0, 1} : d[2] \in Behind(exp[e]) => exp[e] = d[1]
  BY <1>1, BehindAll DEF SwitchInv, Outputs
<1>3. QED
  BY <1>1, <1>2 DEF At

LEMMA SourceType ==
  /\ \A d \in Source : d[2] \in Nat
  /\ All("ee") \cap Source = {}
  /\ \A s \in Cage : All(s) = {<<s, \h51>>}
<1>1. \A s \in Cage : All(s) = {<<s, \h51>>}
  BY BehindAll DEF All, Dev
<1>2. "ee" \notin Cage
  BY CagesAssumption DEF Outputs
<1>3. QED
  BY <1>1, <1>2, BehindAll DEF Source, All, Dev

-----------------------------------------------------------------------------
(* The initial state, and what each action does to the shared state.       *)

LEMMA NeutralType ==
  /\ Idle \in [cmd : Command, pc : 0..5, bumped : BOOLEAN]
  /\ Idle.pc = 0 /\ Idle.cmd.op = "dump" /\ Idle.bumped = FALSE
  /\ 0 <= Len(Console["dump"])
<1>1. Idle.cmd \in Command
  BY DEF Idle, Command
<1>2. QED
  BY <1>1, ConsoleSteps DEF Idle

LEMMA SwitchesOff ==
  ASSUME exp = [e \in {0, 1} |-> "none"]
  PROVE  SwitchInv
BY DEF SwitchInv, Channel, Outputs

LEMMA InitInv == Init => IInv
<1> SUFFICES ASSUME Init PROVE IInv
  OBVIOUS
<1>1. SwitchInv
  BY SwitchesOff DEF Init
<1>2. TypeInv
  <2>1. rec \in [Source -> SUBSET (Channel \X Nat)]
    BY DEF Init
  <2>2. ee \in [machine : 0..2, kxky : Nat \X Nat] /\ reg \in [machine : {0, 1}, kx : Int, ky : Int]
    BY DEF Init, Erased, Reset
  <2>3. said \in [machine : SUBSET (0..2), kxky : SUBSET (Nat \X Nat)]
    BY DEF Init, Erased
  <2>4. st \in 0..(14 + 3 * N)
    BY CagesType DEF Init
  <2>5. /\ con \in [cmd : Command, pc : 0..5, bumped : BOOLEAN]
        /\ con.pc <= Len(Console[con.cmd.op])
        /\ con = Idle
    <3>1. con = Idle
      BY DEF Init
    <3>2. QED
      BY <3>1, NeutralType
  <2>6. plugged = {} /\ main = 1 /\ stray = FALSE /\ st = 0
    BY DEF Init
  <2>7. /\ plugged \subseteq Cage /\ main \in 0..19 /\ stray \in BOOLEAN
        /\ main # 0 => st = 0 /\ con = Idle
    <3>1. stray \in BOOLEAN
      BY <2>6, Zenon
    <3>2. plugged \subseteq Cage /\ main \in 0..19
      BY <2>6
    <3>3. QED
      BY <2>5, <2>6, <3>1, <3>2, Zenon
  <2>8. QED
    BY <1>1, <2>1, <2>2, <2>3, <2>4, <2>5, <2>7 DEF TypeInv
<1>3. FirstInv /\ CageInv /\ LastInv
  <2>1. \A i \in 1..N : 9 + 3 * i > 0 /\ 8 + 3 * i > 0
    BY CagesType
  <2>2. 13 + 3 * N > 0 /\ 14 + 3 * N > 0
    BY CagesType
  <2>3. QED
    BY <2>1, <2>2 DEF Init, FirstInv, CageInv, LastInv
<1>4. ConInv /\ BootInv
  BY NeutralType DEF Init, ConInv, BootInv, Selected
<1>5. SavedKept /\ NoStrayWrite
  BY DEF Init, SavedKept, NoStrayWrite
<1>6. QED
  BY <1>2, <1>3, <1>4, <1>5 DEF IInv

\* Before the threads run, a transfer changes neither the record nor another
\* device than it means to.
LEMMA MainTransfer ==
  ASSUME TypeInv, NoStrayWrite, MainStep, main \in (1..19) \ {11, 14, 15, 19}
  PROVE  /\ Transfer(Boot[main])
         /\ main' = main + 1 /\ UNCHANGED reg
<1>1. Boot[main].op \in {"sel", "get", "put"}
  BY BootSteps DEF Sel, Get, Put, InaInit, ProgSi569, ReadTemps
<1>2. QED
  BY <1>1 DEF MainStep

LEMMA MainFirst ==
  ASSUME TypeInv, MainStep
  PROVE  /\ main \in 1..19 /\ st = 0 /\ SwitchInv
         /\ UNCHANGED <<plugged, st, con, ee, said>>
<1>1. main # 0 /\ UNCHANGED <<plugged, st, con, ee, said>>
  BY DEF MainStep
<1>2. main \in 0..19 /\ SwitchInv /\ (main # 0 => st = 0)
  BY DEF TypeInv
<1>3. QED
  BY <1>1, <1>2

LEMMA MainSwitches ==
  ASSUME TypeInv, NoStrayWrite, MainStep
  PROVE  /\ SwitchInv' /\ stray' = stray
         /\ rec' = rec
         /\ main \in {9, 12} => exp'[0] = "ee"
         /\ main \in {10, 13} => exp'[0] = exp[0] /\ exp'[1] = "none"
<1> USE DEF NoStrayWrite
<1>1. main \in 1..19 /\ st = 0 /\ SwitchInv
  BY MainFirst
<1>2. CASE main \in {1, 4, 6, 8, 9, 10, 12, 13, 16, 17}
  <2>1. PICK e \in {0, 1}, ch \in Channel :
          /\ Boot[main] = Sel(e, ch)
          /\ main \in {9, 12, 16} => e = 0 /\ ch = "ee"
          /\ main \in {10, 13} => e = 1 /\ ch = "none"
          /\ main \notin {9, 12, 16} => e = 1 /\ ch \in {"afe", "clk", "none"}
    BY <1>2, BootSteps DEF Channel, Outputs
  <2>2. exp' = [exp EXCEPT ![e] = ch] /\ UNCHANGED <<rec, stray>>
    BY <1>2, <2>1, MainTransfer, TransferSel
  <2>3. QED
    BY <1>1, <1>2, <2>1, <2>2 DEF SwitchInv, Outputs
<1>3. CASE main \in {7, 18}
  <2>1. PICK D : Boot[main] = Get(D)
    BY <1>3, BootSteps DEF ReadTemps
  <2>2. /\ rec' = [d \in Source |-> IF st # 0 /\ d \in D THEN At(d[2]) ELSE rec[d]]
        /\ UNCHANGED <<exp, stray>>
    BY <1>3, <2>1, MainTransfer, TransferGet
  <2>3. rec' = rec
    BY <1>1, <2>2 DEF TypeInv
  <2>4. QED
    BY <1>1, <1>3, <2>2, <2>3 DEF SwitchInv
<1>4. CASE main \in {2, 3, 5}
  <2>1. PICK D \in {Dev("afe", {\h40}), Dev("afe", {\h56}), All("clk")} : Boot[main] = Put(D)
    BY <1>4, BootSteps DEF InaInit, ProgSi569
  <2>2. /\ stray' = (stray \/ \E d \in D : At(d[2]) \ {d} # {})
        /\ UNCHANGED <<exp, rec>>
    BY <1>4, <2>1, MainTransfer, TransferPut
  <2>3. stray' = stray
    BY <1>1, <2>1, <2>2, PutsAreSafe DEF TypeInv
  <2>4. QED
    BY <1>1, <1>4, <2>2, <2>3 DEF SwitchInv
<1>5. CASE main \in {11, 14, 15, 19}
  <2>1. \E op \in {"machine", "kxky", "start"} : Boot[main] = Do(op)
    BY <1>5, BootSteps
  <2>2. ~Transfer(Boot[main])
    BY <2>1, NoTransfer
  <2>3. UNCHANGED <<exp, rec, stray>>
    BY <2>2 DEF MainStep
  <2>4. QED
    BY <1>1, <1>5, <2>3 DEF SwitchInv
<1>6. QED
  BY <1>1, <1>2, <1>3, <1>4, <1>5

LEMMA ReadSaved ==
  ASSUME SwitchInv, exp[0] = "ee", exp[1] = "none", NEW item
  PROVE  Read(item) = {ee[item]}
BY AtEeprom DEF Read

LEMMA MainRegs ==
  ASSUME TypeInv, BootInv, MainStep
  PROVE  /\ main \in 1..19 /\ main' \in 0..19
         /\ main' = main + 1 \/ (main \in {15, 19} /\ main' = 0)
         /\ UNCHANGED <<plugged, st, con, ee, said>>
         /\ main \notin {11, 14} => reg' = reg
         /\ main = 11 => reg' = [reg EXCEPT !.machine = KnownMachine(ee.machine)]
         /\ main = 14 => reg' = [reg EXCEPT !.kx = Gain(ee.kxky[1]), !.ky = Gain(ee.kxky[2])]
<1>1. main \in 1..19 /\ UNCHANGED <<plugged, st, con, ee, said>>
  BY MainFirst
<1>2. SwitchInv
  BY MainFirst
<1>3. CASE main \notin {11, 14, 15, 19}
  <2>1. main' = main + 1 /\ UNCHANGED reg
    <3>1. Boot[main].op \in {"sel", "get", "put"}
      BY <1>1, <1>3, BootSteps DEF Sel, Get, Put, InaInit, ProgSi569, ReadTemps
    <3>2. QED
      BY <3>1 DEF MainStep
  <2>2. QED
    BY <1>1, <1>3, <2>1
<1>4. CASE main = 11
  <2>1. Boot[main] = Do("machine") /\ ~Transfer(Boot[main])
    BY <1>4, BootSteps, NoTransfer
  <2>2. /\ \E v \in Read("machine") : reg' = [reg EXCEPT !.machine = KnownMachine(v)]
        /\ main' = main + 1
    BY <2>1 DEF MainStep, Do
  <2>3. Read("machine") = {ee.machine}
    BY <1>2, <1>4, ReadSaved DEF BootInv
  <2>4. QED
    BY <1>1, <1>4, <2>2, <2>3
<1>5. CASE main = 14
  <2>1. Boot[main] = Do("kxky") /\ ~Transfer(Boot[main])
    BY <1>5, BootSteps, NoTransfer
  <2>2. Boot[main].op = "kxky"
    BY <2>1 DEF Do
  <2>3. Read("kxky") = {ee.kxky}
    BY <1>2, <1>5, ReadSaved DEF BootInv
  <2>4. reg.kx = Reset /\ reg.ky = Reset
    BY <1>5 DEF BootInv
  <2>5. /\ reg' = [reg EXCEPT !.kx = IF ee.kxky[1] # Erased THEN ee.kxky[1] ELSE @,
                              !.ky = IF ee.kxky[2] # Erased THEN ee.kxky[2] ELSE @]
        /\ main' = main + 1
    BY <2>1, <2>2, <2>3 DEF MainStep
  <2>6. reg' = [reg EXCEPT !.kx = Gain(ee.kxky[1]), !.ky = Gain(ee.kxky[2])]
    BY <2>4, <2>5 DEF Gain, TypeInv
  <2>7. QED
    BY <1>1, <1>5, <2>5, <2>6
<1>6. CASE main \in {15, 19}
  <2>1. Boot[main] = Do("start") /\ ~Transfer(Boot[main])
    BY <1>6, BootSteps, NoTransfer
  <2>2. UNCHANGED reg /\ main' \in {0} \cup (IF main < Len(Boot) THEN {main + 1} ELSE {})
    BY <2>1 DEF MainStep, Do
  <2>3. QED
    BY <1>1, <1>6, <2>2, BootSteps
<1>7. QED
  BY <1>1, <1>3, <1>4, <1>5, <1>6

\* Without a status pass there is no record to be wrong.
LEMMA NoPass ==
  ASSUME st' = 0
  PROVE  FirstInv' /\ CageInv' /\ LastInv'
<1>1. \A i \in 1..N : 9 + 3 * i > 0 /\ 8 + 3 * i > 0
  BY CagesType
<1>2. 13 + 3 * N > 0 /\ 14 + 3 * N > 0
  BY CagesType
<1>3. QED
  BY <1>1, <1>2 DEF FirstInv, CageInv, LastInv

LEMMA MainKeeps ==
  ASSUME IInv, MainStep
  PROVE  IInv'
<1> USE DEF IInv
<1>1. /\ main \in 1..19 /\ main' \in 0..19 /\ st = 0 /\ con = Idle
      /\ UNCHANGED <<plugged, st, con, ee, said>>
      /\ SwitchInv' /\ stray' = stray /\ rec' = rec
  <2>1. TypeInv /\ BootInv /\ NoStrayWrite
    OBVIOUS
  <2>2. /\ main \in 1..19 /\ st = 0
        /\ UNCHANGED <<plugged, st, con, ee, said>>
    BY <2>1, MainFirst
  <2>3. con = Idle
    BY <2>1, <2>2 DEF TypeInv
  <2>4. main' \in 0..19
    BY <2>1, MainRegs
  <2>5. SwitchInv' /\ stray' = stray /\ rec' = rec
    BY <2>1, MainSwitches
  <2>6. QED
    BY <2>2, <2>3, <2>4, <2>5
<1>2. TypeInv'
  <2>1. ee.machine \in 0..2 /\ ee.kxky[1] \in Nat /\ ee.kxky[2] \in Nat
    BY DEF TypeInv
  <2>2. /\ KnownMachine(ee.machine) \in {0, 1}
        /\ Gain(ee.kxky[1]) \in Int /\ Gain(ee.kxky[2]) \in Int
    BY <2>1 DEF KnownMachine, Gain, Reset
  <2>3. reg' \in [machine : {0, 1}, kx : Int, ky : Int]
    <3>1. reg \in [machine : {0, 1}, kx : Int, ky : Int]
      BY DEF TypeInv
    <3>2. CASE main = 11
      BY <2>2, <3>1, <3>2, MainRegs
    <3>3. CASE main = 14
      BY <2>2, <3>1, <3>3, MainRegs
    <3>4. QED
      BY <3>1, <3>2, <3>3, MainRegs
  <2>4. stray' \in BOOLEAN
    BY <1>1 DEF TypeInv
  <2>5. QED
    BY <1>1, <2>3, <2>4 DEF TypeInv
<1>3. BootInv'
  <2>1. main' \in {10, 11, 13, 14} => exp'[0] = "ee"
    <3>1. main \in {10, 13} => exp[0] = "ee"
      BY DEF BootInv
    <3>2. QED
      BY <1>1, <3>1, MainRegs, MainSwitches
  <2>2. main' \in {11, 14} => exp'[1] = "none"
    BY <1>1, MainRegs, MainSwitches
  <2>3. reg \in [machine : {0, 1}, kx : Int, ky : Int]
    BY DEF TypeInv
  <2>4. main' > 11 => reg'.machine = KnownMachine(ee.machine)
    <3>1. CASE main = 11
      BY <2>3, <3>1, MainRegs
    <3>2. CASE main = 14
      <4>1. reg' = [reg EXCEPT !.kx = Gain(ee.kxky[1]), !.ky = Gain(ee.kxky[2])]
        BY <3>2, MainRegs
      <4>2. reg.machine = KnownMachine(ee.machine)
        BY <3>2 DEF BootInv
      <4>3. QED
        BY <2>3, <4>1, <4>2
    <3>3. CASE main \notin {11, 14}
      BY <1>1, <3>3, MainRegs DEF BootInv
    <3>4. QED
      BY <3>1, <3>2, <3>3
  <2>5. main' \in 1..14 => reg'.kx = Reset /\ reg'.ky = Reset
    <3>1. main' \in 1..14 => main \in 1..13
      BY <1>1, MainRegs
    <3>2. CASE main = 11
      BY <2>3, <3>2, MainRegs DEF BootInv
    <3>3. CASE main # 11
      BY <1>1, <3>1, <3>3, MainRegs DEF BootInv
    <3>4. QED
      BY <3>2, <3>3
  <2>6. main' > 14 => reg'.kx = Gain(ee.kxky[1]) /\ reg'.ky = Gain(ee.kxky[2])
    <3>1. main' > 14 => main \in 14..19
      BY <1>1, MainRegs
    <3>2. CASE main = 14
      BY <2>3, <3>2, MainRegs
    <3>3. CASE main # 14
      BY <1>1, <3>1, <3>3, MainRegs DEF BootInv
    <3>4. QED
      BY <3>2, <3>3
  <2>7. QED
    BY <1>1, <2>1, <2>2, <2>4, <2>5, <2>6 DEF BootInv
<1>4. FirstInv' /\ CageInv' /\ LastInv'
  BY <1>1, NoPass
<1>5. ConInv' /\ SavedKept' /\ NoStrayWrite'
  BY <1>1, NeutralType DEF ConInv, SavedKept, NoStrayWrite
<1>6. QED
  BY <1>1, <1>2, <1>3, <1>4, <1>5

LEMMA RestartKeeps ==
  ASSUME IInv, Restart
  PROVE  IInv'
<1> USE DEF IInv
<1>1. /\ exp' = [e \in {0, 1} |-> "none"]
      /\ main' = 1 /\ st' = 0 /\ con' = Idle
      /\ rec' = [d \in Source |-> {}]
      /\ reg' = [machine |-> 0, kx |-> Reset, ky |-> Reset]
      /\ UNCHANGED <<plugged, ee, said, stray>>
  BY DEF Restart
<1>2. TypeInv'
  <2>1. SwitchInv'
    BY <1>1 DEF SwitchInv, Channel, Outputs
  <2>2. st' \in 0..(14 + 3 * N)
    BY <1>1, CagesType
  <2>3. reg' \in [machine : {0, 1}, kx : Int, ky : Int]
    BY <1>1 DEF Reset
  <2>4. /\ con' \in [cmd : Command, pc : 0..5, bumped : BOOLEAN]
        /\ con'.pc <= Len(Console[con'.cmd.op])
    BY <1>1, NeutralType
  <2>5. rec' \in [Source -> SUBSET (Channel \X Nat)]
    BY <1>1
  <2>6. QED
    BY <1>1, <2>1, <2>2, <2>3, <2>4, <2>5 DEF TypeInv
<1>3. FirstInv' /\ CageInv' /\ LastInv'
  BY <1>1, NoPass
<1>4. ConInv' /\ BootInv'
  BY <1>1, NeutralType DEF ConInv, BootInv, Selected
<1>5. SavedKept' /\ NoStrayWrite'
  BY <1>1 DEF SavedKept, NoStrayWrite
<1>6. QED
  BY <1>2, <1>3, <1>4, <1>5

LEMMA PlugKeeps ==
  ASSUME IInv, NEW s \in Cage, Plug(s)
  PROVE  IInv'
<1>1. /\ plugged' \subseteq Cage
      /\ UNCHANGED <<exp, main, st, rec, con, ee, reg, said, stray>>
  BY DEF IInv, TypeInv, Plug
<1>2. QED
  BY <1>1
     DEF IInv, TypeInv, SwitchInv, FirstInv, CageInv, LastInv, ConInv, BootInv, Good,
         Selected, Free, Sending, SavedKept, NoStrayWrite

\* Every place of the status pass.
LEMMA PassPlaces ==
  ASSUME NEW p \in 1..(14 + 3 * N)
  PROVE  \/ p \in 1..9
         \/ \E i \in 1..N : p \in {7 + 3 * i, 8 + 3 * i, 9 + 3 * i}
         \/ p \in {10 + 3 * N, 11 + 3 * N, 12 + 3 * N, 13 + 3 * N}
         \/ p = 14 + 3 * N
<1>1. CASE p > 9 /\ p <= 9 + 3 * N
  <2> DEFINE i == (p - 7) \div 3
  <2>1. i \in 1..N /\ p \in {7 + 3 * i, 8 + 3 * i, 9 + 3 * i}
    BY <1>1, CagesType
  <2>2. QED
    BY <2>1
<1>2. QED
  BY <1>1, CagesType

LEMMA PassKinds ==
  /\ \A p \in 1..9 : Pass[p].op \in {"sel", "get", "put"}
  /\ \A i \in 1..N : \A p \in {7 + 3 * i, 8 + 3 * i, 9 + 3 * i} :
        Pass[p].op \in {"sel", "get"}
  /\ \A p \in {10 + 3 * N, 11 + 3 * N, 12 + 3 * N, 13 + 3 * N} :
        Pass[p].op \in {"sel", "get"}
<1> DEFINE Op(s) == s.op
<1>1. /\ \A e, ch : Op(Sel(e, ch)) = "sel"
      /\ \A D : Op(Get(D)) = "get" /\ Op(Put(D)) = "put"
  BY DEF Sel, Get, Put
<1>2. \A p \in 1..9 : Op(Pass[p]) \in {"sel", "get", "put"}
  <2> HIDE DEF Op
  <2> QED
    BY <1>1, PassSteps DEF ReadTemps, InaRead
<1>3. \A i \in 1..N : \A p \in {7 + 3 * i, 8 + 3 * i, 9 + 3 * i} : Op(Pass[p]) \in {"sel", "get"}
  <2> HIDE DEF Op
  <2> TAKE i \in 1..N
  <2>1. /\ Pass[7 + 3 * i] = Sel(0, Cages[i]) /\ Pass[8 + 3 * i] = Sel(1, "none")
        /\ Pass[9 + 3 * i] = Get(All(Cages[i]))
    BY PassSteps
  <2> QED
    BY <1>1, <2>1
<1>4. \A p \in {10 + 3 * N, 11 + 3 * N, 12 + 3 * N, 13 + 3 * N} : Op(Pass[p]) \in {"sel", "get"}
  <2> HIDE DEF Op
  <2> QED
    BY <1>1, PassSteps
<1>5. QED
  BY <1>2, <1>3, <1>4

\* The status thread has the bus to itself: the console runs only before the
\* pass begins and after it.
LEMMA PassEnd ==
  ASSUME TypeInv
  PROVE  Sending <=> st = 14 + 3 * N
<1>1. st \in 0..(14 + 3 * N) /\ N \in Nat
  BY CagesType DEF TypeInv
<1>2. st # 0 /\ st # 14 + 3 * N => Pass[st].op \in {"sel", "get", "put"}
  <2> SUFFICES ASSUME st # 0, st # 14 + 3 * N
               PROVE  Pass[st].op \in {"sel", "get", "put"}
    OBVIOUS
  <2>1. st \in 1..(14 + 3 * N)
    BY <1>1
  <2>2. CASE st \in 1..9 \/ st \in {10 + 3 * N, 11 + 3 * N, 12 + 3 * N, 13 + 3 * N}
    BY <2>2, PassKinds
  <2>3. ASSUME NEW i \in 1..N, st \in {7 + 3 * i, 8 + 3 * i, 9 + 3 * i}
        PROVE  Pass[st].op \in {"sel", "get", "put"}
    BY <2>3, PassKinds
  <2>4. QED
    BY <2>1, <2>2, <2>3, PassPlaces
<1>3. Pass[14 + 3 * N].op = "send" /\ 14 + 3 * N # 0
  BY <1>1, PassSteps DEF Do
<1>4. QED
  BY <1>2, <1>3 DEF Sending

LEMMA WakeKeeps ==
  ASSUME IInv, Wake
  PROVE  IInv'
<1>1. /\ main = 0 /\ st = 0 /\ st' = 1
      /\ con' = [con EXCEPT !.bumped =
                    @ \/ \E i \in 1..(con.pc - 1) : Console[con.cmd.op][i].op = "sel"]
      /\ UNCHANGED <<exp, plugged, main, rec, ee, reg, said, stray>>
  BY DEF Wake
<1>2. con \in [cmd : Command, pc : 0..5, bumped : BOOLEAN] /\ N \in Nat
  BY CagesType DEF IInv, TypeInv
<1>3. /\ con' \in [cmd : Command, pc : 0..5, bumped : BOOLEAN]
      /\ con'.cmd = con.cmd /\ con'.pc = con.pc
      /\ ~con'.bumped => \A i \in 1..(con.pc - 1) : Console[con.cmd.op][i].op # "sel"
  <2> DEFINE b == con.bumped \/ \E i \in 1..(con.pc - 1) : Console[con.cmd.op][i].op = "sel"
  <2>1. b \in BOOLEAN /\ con' = [con EXCEPT !.bumped = b]
    BY <1>1, <1>2
  <2>2. ~b => \A i \in 1..(con.pc - 1) : Console[con.cmd.op][i].op # "sel"
    OBVIOUS
  <2> HIDE DEF b
  <2>3. QED
    BY <1>2, <2>1, <2>2
<1>4. TypeInv'
  <2>1. 1 \in 0..(14 + 3 * N)
    BY <1>2
  <2>2. con'.pc <= Len(Console[con'.cmd.op])
    BY <1>3 DEF IInv, TypeInv
  <2>3. QED
    BY <1>1, <1>3, <2>1, <2>2 DEF IInv, TypeInv, SwitchInv
<1>5. FirstInv' /\ CageInv' /\ LastInv'
  <2>1. \A i \in 1..N : 9 + 3 * i > 1 /\ 8 + 3 * i > 1
    BY <1>2
  <2>2. 13 + 3 * N > 1 /\ 14 + 3 * N > 1
    BY <1>2
  <2>3. QED
    BY <1>1, <2>1, <2>2 DEF FirstInv, CageInv, LastInv
<1>6. ConInv'
  <2>1. SUFFICES ASSUME ~con'.bumped
                 PROVE  /\ con.cmd.op = "machine" => con.pc < 2
                        /\ con.cmd.op = "kxky" => con.pc < 4
    BY <1>2, <1>3 DEF ConInv, Selected
  <2>2. \A i \in 1..(con.pc - 1) : Console[con.cmd.op][i].op # "sel"
    BY <1>3, <2>1
  <2>3. Console["machine"][1].op = "sel" /\ Console["kxky"][3].op = "sel"
    BY ConsoleSteps DEF Sel
  <2>4. QED
    BY <1>2, <2>2, <2>3
<1>7. BootInv' /\ SavedKept' /\ NoStrayWrite'
  BY <1>1 DEF IInv, BootInv, SavedKept, NoStrayWrite
<1>8. QED
  BY <1>4, <1>5, <1>6, <1>7 DEF IInv

LEMMA ChooseKeeps ==
  ASSUME IInv, NEW c \in Command, Choose(c)
  PROVE  IInv'
<1>1. /\ main = 0
      /\ con' = [cmd |-> c, pc |-> 1, bumped |-> FALSE]
      /\ UNCHANGED <<exp, plugged, main, st, rec, ee, reg, said, stray>>
  BY DEF Choose, MayRun
<1>2. c.op \in {"machine", "kxky", "dump"}
  BY DEF Command
<1>3. 1 <= Len(Console[c.op])
  BY <1>2, ConsoleSteps
<1>4. TypeInv'
  BY <1>1, <1>3 DEF IInv, TypeInv, SwitchInv
<1>5. ConInv'
  BY <1>1 DEF ConInv, Selected
<1>6. QED
  BY <1>1, <1>4, <1>5
     DEF IInv, FirstInv, CageInv, LastInv, BootInv, Good, SavedKept, NoStrayWrite

-----------------------------------------------------------------------------
(* The status pass.                                                        *)

LEMMA SourceParts ==
  /\ Dev("dfe", Behind("dfe")) \subseteq Source
  /\ Dev("afe", {\h48, \h4A}) \subseteq Source /\ Dev("afe", {\h40}) \subseteq Source
  /\ All("sup") \subseteq Source /\ All("pwr") \subseteq Source
  /\ \A i \in 1..N : All(Cages[i]) \subseteq Source
  /\ \A d \in Source :
        \/ d \in Dev("dfe", Behind("dfe")) \/ d \in Dev("afe", {\h48, \h4A})
        \/ d \in Dev("afe", {\h40}) \/ d \in All("sup") \/ d \in All("pwr")
        \/ \E i \in 1..N : d \in All(Cages[i])
<1>1. \A i \in 1..N : Cages[i] \in Cage
  BY CagesType
<1>2. \A s \in Cage : \E i \in 1..N : s = Cages[i]
  BY CagesAssumption DEF Cage, N
<1>3. \A d \in Source :
        \/ d \in All("dfe") \/ d \in Dev("afe", {\h40, \h48, \h4A})
        \/ d \in All("sup") \/ d \in All("pwr")
        \/ \E s \in Cage : d \in All(s)
  BY DEF Source
<1>4. All("dfe") = Dev("dfe", Behind("dfe"))
  BY DEF All
<1>5. \A d \in Dev("afe", {\h40, \h48, \h4A}) :
         d \in Dev("afe", {\h48, \h4A}) \/ d \in Dev("afe", {\h40})
  BY DEF Dev
<1>6. Dev("afe", {\h48, \h4A}) \subseteq Source /\ Dev("afe", {\h40}) \subseteq Source
  BY DEF Source, Dev
<1>7. /\ All("dfe") \subseteq Source /\ All("sup") \subseteq Source
      /\ All("pwr") \subseteq Source
      /\ \A s \in Cage : All(s) \subseteq Source
  BY DEF Source
<1>8. QED
  BY <1>1, <1>2, <1>3, <1>4, <1>5, <1>6, <1>7

\* A reading of devices that answer as themselves, or of an empty cage.
LEMMA StatusGet ==
  ASSUME TypeInv, st # 0, NEW D, D \subseteq Source, Transfer(Get(D)),
         \A d \in D : At(d[2]) = {d} \/ (d[1] \in Cage /\ At(d[2]) = {})
  PROVE  /\ UNCHANGED <<exp, stray>>
         /\ rec' \in [Source -> SUBSET (Channel \X Nat)]
         /\ Good(D)'
         /\ \A E \in SUBSET Source : Good(E) => Good(E)'
<1>1. /\ rec' = [d \in Source |-> IF st # 0 /\ d \in D THEN At(d[2]) ELSE rec[d]]
      /\ UNCHANGED <<exp, stray>>
  BY TransferGet
<1>2. rec' \in [Source -> SUBSET (Channel \X Nat)]
  BY <1>1, SourceType, AtType DEF TypeInv
<1>3. Good(D)'
  BY <1>1 DEF Good
<1>4. \A E \in SUBSET Source : Good(E) => Good(E)'
  BY <1>1 DEF Good
<1>5. QED
  BY <1>1, <1>2, <1>3, <1>4

\* What a second-switch reading needs is that its output is selected.
LEMMA ReadSecond ==
  ASSUME SwitchInv, NEW ch \in {"dfe", "afe", "sup", "pwr"}, exp[1] = ch,
         NEW A \in SUBSET Behind(ch)
  PROVE  \A d \in Dev(ch, A) : At(d[2]) = {d}
BY AtSecond DEF Dev

\* The one write of the pass: only the supply monitors have the address.
LEMMA PutSupply ==
  ASSUME SwitchInv, exp[1] = "sup", NEW d \in All("sup")
  PROVE  At(d[2]) \ {d} = {}
<1>1. All("sup") = Dev("sup", Behind("sup"))
  BY DEF All
<1>2. At(d[2]) = {d}
  BY <1>1, ReadSecond
<1>3. QED
  BY <1>2

\* The first readings of the pass.
LEMMA FirstKeeps ==
  ASSUME IInv, st \in 1..9, Transfer(Pass[st]), st' = st + 1
  PROVE  /\ SwitchInv' /\ rec' \in [Source -> SUBSET (Channel \X Nat)]
         /\ stray' = stray
         /\ FirstInv'
<1>1. TypeInv /\ SwitchInv /\ FirstInv /\ ~stray
  BY DEF IInv, TypeInv, NoStrayWrite
<1>2. CASE st \in {1, 3, 6, 7}
  <2>1. PICK ch \in {"dfe", "afe", "sup"} :
          /\ Pass[st] = Sel(1, ch)
          /\ st = 1 => ch = "dfe"
          /\ st = 3 => ch = "afe"
          /\ st \in {6, 7} => ch = "sup"
    BY <1>2, PassSteps
  <2>2. exp' = [exp EXCEPT ![1] = ch] /\ UNCHANGED <<rec, stray>>
    BY <2>1, TransferSel
  <2>3. SwitchInv' /\ exp'[1] = ch
    BY <1>1, <2>1, <2>2 DEF SwitchInv, Channel, Outputs
  <2>4. FirstInv'
    BY <1>1, <1>2, <2>1, <2>2, <2>3 DEF FirstInv, Good
  <2>5. QED
    BY <1>1, <2>2, <2>3, <2>4 DEF TypeInv
<1>3. ASSUME NEW ch \in {"dfe", "afe", "sup"}, NEW A \in SUBSET Behind(ch),
             Pass[st] = Get(Dev(ch, A)), exp[1] = ch, Dev(ch, A) \subseteq Source
      PROVE  /\ UNCHANGED <<exp, stray>> /\ SwitchInv'
             /\ rec' \in [Source -> SUBSET (Channel \X Nat)]
             /\ Good(Dev(ch, A))'
             /\ \A E \in SUBSET Source : Good(E) => Good(E)'
  <2>1. \A d \in Dev(ch, A) : At(d[2]) = {d}
    BY <1>1, <1>3, ReadSecond
  <2>2. /\ UNCHANGED <<exp, stray>>
        /\ rec' \in [Source -> SUBSET (Channel \X Nat)]
        /\ Good(Dev(ch, A))'
        /\ \A E \in SUBSET Source : Good(E) => Good(E)'
    BY <1>1, <1>3, <2>1, StatusGet
  <2>3. QED
    BY <1>1, <2>2 DEF SwitchInv
<1>4. CASE st = 2
  <2>1. /\ Pass[st] = Get(Dev("dfe", Behind("dfe"))) /\ exp[1] = "dfe"
    BY <1>1, <1>4, PassSteps DEF FirstInv, ReadTemps
  <2>2. QED
    BY <1>3, <1>4, <2>1, SourceParts DEF FirstInv
<1>5. CASE st = 4
  <2>1. /\ Pass[st] = Get(Dev("afe", {\h48, \h4A})) /\ exp[1] = "afe"
        /\ {\h48, \h4A} \in SUBSET Behind("afe")
    BY <1>1, <1>5, PassSteps, BehindAll DEF FirstInv, ReadTemps
  <2>2. /\ UNCHANGED <<exp, stray>> /\ SwitchInv'
        /\ rec' \in [Source -> SUBSET (Channel \X Nat)]
        /\ Good(Dev("afe", {\h48, \h4A}))'
        /\ \A E \in SUBSET Source : Good(E) => Good(E)'
    BY <1>3, <2>1, SourceParts
  <2>3. QED
    BY <1>1, <1>5, <2>1, <2>2, SourceParts DEF FirstInv
<1>6. CASE st = 5
  <2>1. /\ Pass[st] = Get(Dev("afe", {\h40})) /\ exp[1] = "afe"
        /\ {\h40} \in SUBSET Behind("afe")
    BY <1>1, <1>6, PassSteps, BehindAll DEF FirstInv, InaRead
  <2>2. /\ UNCHANGED <<exp, stray>> /\ SwitchInv'
        /\ rec' \in [Source -> SUBSET (Channel \X Nat)]
        /\ Good(Dev("afe", {\h40}))'
        /\ \A E \in SUBSET Source : Good(E) => Good(E)'
    BY <1>3, <2>1, SourceParts
  <2>3. QED
    BY <1>1, <1>6, <2>2, SourceParts DEF FirstInv
<1>7. CASE st = 8
  <2>1. Pass[st] = Put(All("sup")) /\ exp[1] = "sup"
    BY <1>1, <1>7, PassSteps DEF FirstInv
  <2>2. /\ stray' = (stray \/ \E d \in All("sup") : At(d[2]) \ {d} # {})
        /\ UNCHANGED <<exp, rec>>
    BY <2>1, TransferPut
  <2>3. stray' = stray
    BY <1>1, <2>1, <2>2, PutSupply DEF TypeInv
  <2>4. SwitchInv' /\ rec' \in [Source -> SUBSET (Channel \X Nat)]
    BY <1>1, <2>2 DEF SwitchInv, TypeInv
  <2>5. FirstInv'
    BY <1>1, <1>7, <2>1, <2>2 DEF FirstInv, Good
  <2>6. QED
    BY <2>3, <2>4, <2>5
<1>8. CASE st = 9
  <2>1. /\ Pass[st] = Get(Dev("sup", Behind("sup"))) /\ exp[1] = "sup"
        /\ All("sup") = Dev("sup", Behind("sup"))
    BY <1>1, <1>8, PassSteps DEF FirstInv, All
  <2>2. /\ UNCHANGED <<exp, stray>> /\ SwitchInv'
        /\ rec' \in [Source -> SUBSET (Channel \X Nat)]
        /\ Good(All("sup"))'
        /\ \A E \in SUBSET Source : Good(E) => Good(E)'
    BY <1>3, <2>1, SourceParts
  <2>3. QED
    BY <1>1, <1>8, <2>2, SourceParts DEF FirstInv
<1>9. QED
  BY <1>2, <1>4, <1>5, <1>6, <1>7, <1>8

\* The cages come after all of them.
LEMMA EarlyPass ==
  ASSUME st' \in 0..10
  PROVE  CageInv' /\ LastInv'
<1>1. \A i \in 1..N : 8 + 3 * i > 10 /\ 9 + 3 * i > 10
  BY CagesType
<1>2. 13 + 3 * N > 10 /\ 14 + 3 * N > 10
  BY CagesType
<1>3. QED
  BY <1>1, <1>2 DEF CageInv, LastInv

\* Once the first readings are done, they stay done.
LEMMA FirstDone ==
  ASSUME FirstInv, st \in Nat, st >= 10, st' = st + 1,
         \A E \in SUBSET Source : Good(E) => Good(E)'
  PROVE  FirstInv'
<1>1. /\ Good(Dev("dfe", Behind("dfe"))) /\ Good(Dev("afe", {\h48, \h4A}))
      /\ Good(Dev("afe", {\h40})) /\ Good(All("sup"))
  BY DEF FirstInv
<1>2. /\ Good(Dev("dfe", Behind("dfe")))' /\ Good(Dev("afe", {\h48, \h4A}))'
      /\ Good(Dev("afe", {\h40}))' /\ Good(All("sup"))'
  BY <1>1, SourceParts
<1>3. st' > 9 /\ st' \notin {2, 4, 5} /\ st' \notin 7..9
  OBVIOUS
<1>4. QED
  BY <1>2, <1>3 DEF FirstInv

LEMMA CageKeeps ==
  ASSUME IInv, NEW i \in 1..N, st \in {7 + 3 * i, 8 + 3 * i, 9 + 3 * i},
         Transfer(Pass[st]), st' = st + 1
  PROVE  /\ SwitchInv' /\ rec' \in [Source -> SUBSET (Channel \X Nat)]
         /\ stray' = stray
         /\ FirstInv' /\ CageInv' /\ LastInv'
<1>1. TypeInv /\ SwitchInv /\ FirstInv /\ CageInv /\ N \in Nat /\ i \in Nat
  BY CagesType DEF IInv, TypeInv
<1>2. /\ Pass[7 + 3 * i] = Sel(0, Cages[i]) /\ Pass[8 + 3 * i] = Sel(1, "none")
      /\ Pass[9 + 3 * i] = Get(All(Cages[i])) /\ Cages[i] \in Cage
  BY PassSteps, CagesType
<1>3. /\ st \in Nat /\ st >= 10 /\ st' \in 8..(10 + 3 * N) /\ 13 + 3 * N > 10 + 3 * N
      /\ 14 + 3 * N > 10 + 3 * N
  BY <1>1
<1>4. LastInv'
  <2>1. st' # 13 + 3 * N /\ st' # 14 + 3 * N
    BY <1>1, <1>3
  <2>2. QED
    BY <2>1 DEF LastInv
<1>5. CASE st = 7 + 3 * i
  <2>1. exp' = [exp EXCEPT ![0] = Cages[i]] /\ UNCHANGED <<rec, stray>>
    BY <1>2, <1>5, TransferSel
  <2>2. SwitchInv' /\ exp'[0] = Cages[i]
    BY <1>1, <1>2, <2>1 DEF SwitchInv, Channel
  <2>3. \A E \in SUBSET Source : Good(E) => Good(E)'
    BY <2>1 DEF Good
  <2>4. CageInv'
    <3>1. SUFFICES ASSUME NEW j \in 1..N
                   PROVE  /\ st' \in {8 + 3 * j, 9 + 3 * j} => exp'[0] = Cages[j]
                          /\ st' = 9 + 3 * j => exp'[1] = "none"
                          /\ st' > 9 + 3 * j => Good(All(Cages[j]))'
      BY DEF CageInv
    <3>2. st' \in {8 + 3 * j, 9 + 3 * j} => j = i /\ st' # 9 + 3 * j
      BY <1>1, <1>5
    <3>3. st' > 9 + 3 * j => st > 9 + 3 * j \/ st = 9 + 3 * j
      BY <1>1, <1>5
    <3>4. st # 9 + 3 * j
      BY <1>1, <1>5
    <3>5. st > 9 + 3 * j => Good(All(Cages[j]))'
      BY <1>1, <2>3, SourceParts DEF CageInv
    <3>6. QED
      BY <2>2, <3>2, <3>3, <3>4, <3>5
  <2>5. QED
    BY <1>1, <1>3, <1>4, <2>1, <2>2, <2>3, <2>4, FirstDone DEF TypeInv
<1>6. CASE st = 8 + 3 * i
  <2>1. exp' = [exp EXCEPT ![1] = "none"] /\ UNCHANGED <<rec, stray>>
    BY <1>2, <1>6, TransferSel
  <2>2. exp[0] = Cages[i]
    BY <1>1, <1>6 DEF CageInv
  <2>3. SwitchInv' /\ exp'[0] = Cages[i] /\ exp'[1] = "none"
    BY <1>1, <2>1, <2>2 DEF SwitchInv, Channel, Outputs
  <2>4. \A E \in SUBSET Source : Good(E) => Good(E)'
    BY <2>1 DEF Good
  <2>5. CageInv'
    <3>1. SUFFICES ASSUME NEW j \in 1..N
                   PROVE  /\ st' \in {8 + 3 * j, 9 + 3 * j} => exp'[0] = Cages[j]
                          /\ st' = 9 + 3 * j => exp'[1] = "none"
                          /\ st' > 9 + 3 * j => Good(All(Cages[j]))'
      BY DEF CageInv
    <3>2. st' \in {8 + 3 * j, 9 + 3 * j} => j = i
      BY <1>1, <1>6
    <3>3. st' > 9 + 3 * j => st > 9 + 3 * j
      BY <1>1, <1>6
    <3>4. st > 9 + 3 * j => Good(All(Cages[j]))'
      BY <1>1, <2>4, SourceParts DEF CageInv
    <3>5. QED
      BY <2>3, <3>2, <3>3, <3>4
  <2>6. QED
    BY <1>1, <1>3, <1>4, <2>1, <2>3, <2>4, <2>5, FirstDone DEF TypeInv
<1>7. CASE st = 9 + 3 * i
  <2>1. exp[0] = Cages[i] /\ exp[1] = "none"
    BY <1>1, <1>7 DEF CageInv
  <2>2. \A d \in All(Cages[i]) : At(d[2]) = {d} \/ (d[1] \in Cage /\ At(d[2]) = {})
    BY <1>1, <1>2, <2>1, AtCage, SourceType
  <2>3. All(Cages[i]) \subseteq Source /\ st # 0
    BY <1>3, SourceParts
  <2>4. /\ UNCHANGED <<exp, stray>>
        /\ rec' \in [Source -> SUBSET (Channel \X Nat)]
        /\ Good(All(Cages[i]))'
        /\ \A E \in SUBSET Source : Good(E) => Good(E)'
    BY <1>1, <1>2, <1>7, <2>2, <2>3, StatusGet
  <2>5. CageInv'
    <3>1. SUFFICES ASSUME NEW j \in 1..N
                   PROVE  /\ st' \notin {8 + 3 * j, 9 + 3 * j}
                          /\ st' > 9 + 3 * j => Good(All(Cages[j]))'
      BY DEF CageInv
    <3>2. st' \notin {8 + 3 * j, 9 + 3 * j}
      BY <1>1, <1>7
    <3>3. st' > 9 + 3 * j => st > 9 + 3 * j \/ j = i
      BY <1>1, <1>7
    <3>4. st > 9 + 3 * j => Good(All(Cages[j]))'
      BY <1>1, <2>4, SourceParts DEF CageInv
    <3>5. QED
      BY <2>4, <3>2, <3>3, <3>4
  <2>6. SwitchInv'
    BY <1>1, <2>4 DEF SwitchInv
  <2>7. QED
    BY <1>1, <1>3, <1>4, <2>4, <2>5, <2>6, FirstDone
<1>8. QED
  BY <1>5, <1>6, <1>7

LEMMA LastKeeps ==
  ASSUME IInv, st \in {10 + 3 * N, 11 + 3 * N, 12 + 3 * N, 13 + 3 * N},
         Transfer(Pass[st]), st' = st + 1
  PROVE  /\ SwitchInv' /\ rec' \in [Source -> SUBSET (Channel \X Nat)]
         /\ stray' = stray
         /\ FirstInv' /\ CageInv' /\ LastInv'
<1>1. TypeInv /\ SwitchInv /\ FirstInv /\ CageInv /\ LastInv /\ N \in Nat
  BY CagesType DEF IInv, TypeInv
<1>2. st \in Nat /\ st >= 10 /\ st # 0
  BY <1>1
<1>3. /\ Pass[10 + 3 * N] = Sel(1, "pwr") /\ Pass[11 + 3 * N] = Sel(0, "none")
      /\ Pass[12 + 3 * N] = Sel(1, "pwr") /\ Pass[13 + 3 * N] = Get(All("pwr"))
  BY PassSteps
<1>4. ASSUME \A E \in SUBSET Source : Good(E) => Good(E)'
      PROVE  FirstInv' /\ CageInv'
  <2>1. \A i \in 1..N : Good(All(Cages[i]))
    <3>1. \A i \in 1..N : st > 9 + 3 * i
      BY <1>1
    <3>2. QED
      BY <1>1, <3>1 DEF CageInv
  <2>2. \A i \in 1..N : Good(All(Cages[i]))'
    BY <1>4, <2>1, SourceParts
  <2>3. \A i \in 1..N : st' \notin {8 + 3 * i, 9 + 3 * i}
    BY <1>1
  <2>4. CageInv'
    BY <2>2, <2>3 DEF CageInv
  <2>5. QED
    BY <1>1, <1>2, <1>4, <2>4, FirstDone
<1>5. CASE st # 13 + 3 * N
  <2>1. PICK e \in {0, 1}, ch \in {"none", "pwr"} :
          /\ Pass[st] = Sel(e, ch)
          /\ e = 0 => ch = "none"
          /\ st = 12 + 3 * N => e = 1 /\ ch = "pwr"
    BY <1>3, <1>5
  <2>2. exp' = [exp EXCEPT ![e] = ch] /\ UNCHANGED <<rec, stray>>
    BY <2>1, TransferSel
  <2>3. SwitchInv'
    BY <1>1, <2>1, <2>2 DEF SwitchInv, Channel, Outputs
  <2>4. st = 12 + 3 * N => exp'[1] = "pwr"
    BY <1>1, <2>1, <2>2 DEF SwitchInv
  <2>5. LastInv'
    <3>1. st' # 14 + 3 * N /\ (st' = 13 + 3 * N => st = 12 + 3 * N)
      BY <1>1, <1>5
    <3>2. QED
      BY <2>4, <3>1 DEF LastInv
  <2>6. \A E \in SUBSET Source : Good(E) => Good(E)'
    BY <2>2 DEF Good
  <2>7. QED
    BY <1>1, <1>4, <2>2, <2>3, <2>5, <2>6 DEF TypeInv
<1>6. CASE st = 13 + 3 * N
  <2>1. exp[1] = "pwr"
    BY <1>1, <1>6 DEF LastInv
  <2>2. \A d \in All("pwr") : At(d[2]) = {d}
    BY <1>1, <2>1, ReadSecond DEF All
  <2>3. /\ UNCHANGED <<exp, stray>>
        /\ rec' \in [Source -> SUBSET (Channel \X Nat)]
        /\ Good(All("pwr"))'
        /\ \A E \in SUBSET Source : Good(E) => Good(E)'
    BY <1>1, <1>2, <1>3, <1>6, <2>2, SourceParts, StatusGet
  <2>4. st' # 13 + 3 * N
    BY <1>1, <1>6
  <2>5. LastInv'
    BY <2>3, <2>4 DEF LastInv
  <2>6. SwitchInv'
    BY <1>1, <2>3 DEF SwitchInv
  <2>7. QED
    BY <1>4, <2>3, <2>5, <2>6
<1>7. QED
  BY <1>5, <1>6

LEMMA StatusKeeps ==
  ASSUME IInv, StatusStep
  PROVE  IInv'
<1>1. TypeInv /\ ConInv /\ BootInv /\ SavedKept /\ ~stray /\ N \in Nat
  BY CagesType DEF IInv, NoStrayWrite
<1>2. /\ st # 0 /\ UNCHANGED <<plugged, main, con, ee, reg, said>>
      /\ \/ ~Held /\ Transfer(Pass[st]) /\ st' = st + 1
         \/ Sending /\ st' = AfterSend /\ UNCHANGED <<exp, rec, stray>>
  BY DEF StatusStep
<1>3. main = 0 /\ st \in 1..(14 + 3 * N)
  BY <1>1, <1>2 DEF TypeInv
<1>4. Sending => ~Transfer(Pass[st])
  BY <1>1, PassEnd, PassSteps, NoTransfer
<1>5. CASE Sending
  <2>1. st' = 0 /\ UNCHANGED <<exp, rec, stray>>
    BY <1>2, <1>4, <1>5 DEF AfterSend
  <2>2. FirstInv' /\ CageInv' /\ LastInv'
    BY <2>1, NoPass
  <2>3. TypeInv'
    <3>1. st' \in 0..(14 + 3 * N)
      BY <1>1, <2>1
    <3>2. QED
      BY <1>1, <1>2, <1>3, <2>1, <3>1 DEF TypeInv, SwitchInv
  <2>4. ConInv'
    BY <1>1, <1>2, <2>1 DEF ConInv, Selected, Free
  <2>5. BootInv' /\ SavedKept' /\ NoStrayWrite'
    BY <1>1, <1>2, <1>3, <2>1 DEF BootInv, SavedKept, NoStrayWrite
  <2>6. QED
    BY <2>2, <2>3, <2>4, <2>5 DEF IInv
<1>6. CASE ~Sending
  <2>1. Transfer(Pass[st]) /\ st' = st + 1
    BY <1>2, <1>6
  <2>2. st # 14 + 3 * N
    BY <1>1, <1>6, PassEnd
  <2>3. /\ SwitchInv' /\ rec' \in [Source -> SUBSET (Channel \X Nat)]
        /\ stray' = stray
        /\ FirstInv' /\ CageInv' /\ LastInv'
    <3>1. CASE st \in 1..9
      <4>1. st' \in 0..10
        BY <2>1, <3>1
      <4>2. QED
        BY <2>1, <3>1, <4>1, FirstKeeps, EarlyPass
    <3>2. ASSUME NEW i \in 1..N, st \in {7 + 3 * i, 8 + 3 * i, 9 + 3 * i}
          PROVE  /\ SwitchInv' /\ rec' \in [Source -> SUBSET (Channel \X Nat)]
                 /\ stray' = stray
                 /\ FirstInv' /\ CageInv' /\ LastInv'
      BY <2>1, <3>2, CageKeeps
    <3>3. CASE st \in {10 + 3 * N, 11 + 3 * N, 12 + 3 * N, 13 + 3 * N}
      BY <2>1, <3>3, LastKeeps
    <3>4. QED
      BY <1>3, <2>2, <3>1, <3>2, <3>3, PassPlaces
  <2>4. TypeInv'
    <3>1. st' \in 0..(14 + 3 * N)
      BY <1>1, <1>3, <2>1, <2>2
    <3>2. stray' \in BOOLEAN
      BY <1>1, <2>3 DEF TypeInv
    <3>3. QED
      BY <1>1, <1>2, <1>3, <2>3, <3>1, <3>2 DEF TypeInv
  <2>5. ConInv'
    <3>1. ~Free
      BY <1>2, <1>6 DEF Free
    <3>2. ~con.bumped => /\ con.cmd.op = "machine" => ~(con.pc >= 2)
                         /\ con.cmd.op = "kxky" => ~(con.pc >= 4)
      BY <1>1, <3>1 DEF ConInv, Selected
    <3>3. QED
      BY <1>2, <3>2 DEF ConInv, Selected
  <2>6. BootInv' /\ SavedKept' /\ NoStrayWrite'
    BY <1>1, <1>2, <1>3, <2>3 DEF BootInv, SavedKept, NoStrayWrite
  <2>7. QED
    BY <2>3, <2>4, <2>5, <2>6 DEF IInv
<1>7. QED
  BY <1>5, <1>6

-----------------------------------------------------------------------------
(* The console.                                                            *)

LEMMA CommandType ==
  ASSUME NEW c \in Command
  PROVE  /\ c.op \in {"machine", "kxky", "dump"}
         /\ c.op = "machine" => c.val \in 0..2
         /\ c.op = "kxky" => c.val \in Nat \X Nat
BY PairAssumption DEF Command

\* The console's selections leave a finished record alone.
LEMMA RecordStays ==
  ASSUME TypeInv, FirstInv, CageInv, LastInv, Free, UNCHANGED <<st, rec>>
  PROVE  FirstInv' /\ CageInv' /\ LastInv'
<1>1. CASE st = 0
  BY <1>1, NoPass
<1>2. CASE st = 14 + 3 * N
  <2>1. N \in Nat
    BY CagesType
  <2>2. /\ st \notin {2, 4, 5} /\ st \notin 7..9 /\ st # 13 + 3 * N
        /\ \A i \in 1..N : st \notin {8 + 3 * i, 9 + 3 * i}
    BY <1>2, <2>1
  <2>3. QED
    BY <2>2 DEF FirstInv, CageInv, LastInv, Good
<1>3. QED
  BY <1>1, <1>2, PassEnd DEF Free

\* A selection or a reading of the console, and what it has selected then.
LEMMA ConsoleTransfer ==
  ASSUME TypeInv, Free,
         NEW s \in {Sel(0, "ee"), Sel(1, "none"), Get(All("ee"))}, Transfer(s)
  PROVE  /\ UNCHANGED <<rec, stray>> /\ SwitchInv'
         /\ s = Sel(0, "ee") => exp'[0] = "ee"
         /\ s = Sel(1, "none") => exp'[0] = exp[0] /\ exp'[1] = "none"
<1>1. SwitchInv
  BY DEF TypeInv
<1>2. CASE s = Sel(0, "ee")
  <2>1. exp' = [exp EXCEPT ![0] = "ee"] /\ UNCHANGED <<rec, stray>>
    BY <1>2, TransferSel
  <2>2. s # Sel(1, "none")
    BY <1>2 DEF Sel
  <2>3. QED
    BY <1>1, <2>1, <2>2 DEF SwitchInv, Channel, Outputs
<1>3. CASE s = Sel(1, "none")
  <2>1. exp' = [exp EXCEPT ![1] = "none"] /\ UNCHANGED <<rec, stray>>
    BY <1>3, TransferSel
  <2>2. s # Sel(0, "ee")
    BY <1>3 DEF Sel
  <2>3. QED
    BY <1>1, <2>1, <2>2 DEF SwitchInv, Channel, Outputs
<1>4. CASE s = Get(All("ee"))
  <2>1. /\ rec' = [d \in Source |-> IF st # 0 /\ d \in All("ee") THEN At(d[2]) ELSE rec[d]]
        /\ UNCHANGED <<exp, stray>>
    BY <1>4, TransferGet
  <2>2. rec' = rec
    BY <2>1, SourceType DEF TypeInv
  <2>3. s.op = "get" /\ Sel(0, "ee").op = "sel" /\ Sel(1, "none").op = "sel"
    BY <1>4 DEF Get, Sel
  <2>4. QED
    BY <1>1, <2>1, <2>2, <2>3 DEF SwitchInv
<1>5. QED
  BY <1>2, <1>3, <1>4

\* What ConsoleStep comes to, for each kind of step.
LEMMA ConsoleKinds ==
  ASSUME ConsoleStep, NEW s, s = Console[con.cmd.op][con.pc]
  PROVE  /\ main = 0 /\ Free /\ con.pc # 0 /\ UNCHANGED <<plugged, main, st>>
         /\ con' = IF con.pc = Len(Console[con.cmd.op]) THEN Idle
                   ELSE [con EXCEPT !.pc = @ + 1]
         /\ \/ Transfer(s) /\ UNCHANGED <<ee, reg, said>>
            \/ s.op = "save" /\ Save(con.cmd) /\ UNCHANGED <<exp, rec, reg, stray>>
            \/ s.op \in {"reg", "kx", "ky"} /\ Program(con.cmd, s)
                  /\ UNCHANGED <<exp, rec, ee, said, stray>>
            \/ s.op = "hold" /\ UNCHANGED <<exp, rec, ee, reg, said, stray>>
BY DEF ConsoleStep, MayRun, Free

\* The places of the three commands.
LEMMA ConsolePlaces ==
  ASSUME TypeInv, con.pc # 0
  PROVE  /\ con.cmd \in Command
         /\ \/ con.cmd.op \in {"machine", "dump"} /\ con.pc \in 1..4
            \/ con.cmd.op = "kxky" /\ con.pc \in 1..5
<1>1. con.cmd \in Command /\ con.pc \in 1..5 /\ con.pc <= Len(Console[con.cmd.op])
  BY DEF TypeInv
<1>2. con.cmd.op \in {"machine", "kxky", "dump"}
  BY <1>1, CommandType
<1>3. /\ con.cmd.op \in {"machine", "dump"} => con.pc <= 4
      /\ con.cmd.op = "kxky" => con.pc <= 5
  BY <1>1, ConsoleSteps
<1>4. QED
  BY <1>1, <1>2, <1>3

\* A command that goes on keeps what it has selected.
LEMMA NextPlace ==
  ASSUME TypeInv, con.pc # 0,
         con' = IF con.pc = Len(Console[con.cmd.op]) THEN Idle
                ELSE [con EXCEPT !.pc = @ + 1]
  PROVE  /\ con' \in [cmd : Command, pc : 0..5, bumped : BOOLEAN]
         /\ con'.pc <= Len(Console[con'.cmd.op])
         /\ \/ con'.cmd.op = "dump"
            \/ con'.cmd = con.cmd /\ con'.bumped = con.bumped /\ con'.pc = con.pc + 1
<1>1. con \in [cmd : Command, pc : 0..5, bumped : BOOLEAN] /\ con.pc <= Len(Console[con.cmd.op])
  BY DEF TypeInv
<1>2. CASE con.pc = Len(Console[con.cmd.op])
  BY <1>2, NeutralType
<1>3. CASE con.pc # Len(Console[con.cmd.op])
  <2>1. PICK n \in {4, 5} : n = Len(Console[con.cmd.op])
    BY ConsolePlaces, ConsoleSteps
  <2>2. con.pc + 1 \in 0..5 /\ con.pc + 1 <= Len(Console[con.cmd.op])
    <3>1. con.pc \in 0..5 /\ con.pc <= n /\ con.pc # n
      BY <1>1, <1>3, <2>1
    <3>2. con.pc + 1 \in 0..5 /\ con.pc + 1 <= n
      BY <3>1
    <3>3. QED
      BY <2>1, <3>2
  <2>3. con' = [con EXCEPT !.pc = con.pc + 1]
    BY <1>1, <1>3
  <2>4. QED
    BY <1>1, <2>2, <2>3
<1>4. QED
  BY <1>2, <1>3

\* A save that nobody came between has reached the EEPROM.
LEMMA SaveKeeps ==
  ASSUME TypeInv, ConInv, SavedKept, Save(con.cmd),
         \/ con.cmd.op = "machine" /\ con.pc = 3
         \/ con.cmd.op = "kxky" /\ con.pc = 5
  PROVE  /\ ee' \in [machine : 0..2, kxky : Nat \X Nat]
         /\ said' \in [machine : SUBSET (0..2), kxky : SUBSET (Nat \X Nat)]
         /\ SavedKept'
<1> DEFINE c == con.cmd
<1>1. /\ ee' = IF At(\h50) = {<<"ee", \h50>>} THEN [ee EXCEPT ![c.op] = c.val] ELSE ee
      /\ said' = [said EXCEPT ![c.op] = IF con.bumped THEN {} ELSE {c.val}]
  BY DEF Save
<1>2. /\ SwitchInv /\ c \in Command /\ con.bumped \in BOOLEAN
      /\ ee \in [machine : 0..2, kxky : Nat \X Nat]
      /\ said \in [machine : SUBSET (0..2), kxky : SUBSET (Nat \X Nat)]
      /\ said.machine \subseteq {ee.machine} /\ said.kxky \subseteq {ee.kxky}
  BY DEF TypeInv, SavedKept
<1>3. ~con.bumped => At(\h50) = {<<"ee", \h50>>}
  BY <1>2, AtEeprom DEF ConInv, Selected
<1>4. CASE c.op = "machine"
  <2>1. c.val \in 0..2
    BY <1>2, <1>4, CommandType
  <2>2. /\ said' = [said EXCEPT !.machine = IF con.bumped THEN {} ELSE {c.val}]
        /\ \/ ee' = [ee EXCEPT !.machine = c.val]
           \/ ee' = ee /\ con.bumped
    BY <1>1, <1>3, <1>4
  <2>3. QED
    BY <1>2, <2>1, <2>2 DEF SavedKept
<1>5. CASE c.op = "kxky"
  <2>1. c.val \in Nat \X Nat
    BY <1>2, <1>5, CommandType
  <2>2. /\ said' = [said EXCEPT !.kxky = IF con.bumped THEN {} ELSE {c.val}]
        /\ \/ ee' = [ee EXCEPT !.kxky = c.val]
           \/ ee' = ee /\ con.bumped
    BY <1>1, <1>3, <1>5
  <2>3. QED
    BY <1>2, <2>1, <2>2 DEF SavedKept
<1>6. QED
  BY <1>4, <1>5

LEMMA ConsoleKeeps ==
  ASSUME IInv, ConsoleStep
  PROVE  IInv'
<1> DEFINE c == con.cmd
           s == Console[c.op][con.pc]
<1>1. /\ TypeInv /\ FirstInv /\ CageInv /\ LastInv /\ ConInv /\ BootInv /\ SavedKept
      /\ ~stray /\ SwitchInv
  BY DEF IInv, NoStrayWrite, TypeInv
<1>2. /\ main = 0 /\ Free /\ con.pc # 0 /\ UNCHANGED <<plugged, main, st>>
      /\ con' = IF con.pc = Len(Console[con.cmd.op]) THEN Idle
                ELSE [con EXCEPT !.pc = @ + 1]
      /\ \/ Transfer(s) /\ UNCHANGED <<ee, reg, said>>
         \/ s.op = "save" /\ Save(c) /\ UNCHANGED <<exp, rec, reg, stray>>
         \/ s.op \in {"reg", "kx", "ky"} /\ Program(c, s)
               /\ UNCHANGED <<exp, rec, ee, said, stray>>
         \/ s.op = "hold" /\ UNCHANGED <<exp, rec, ee, reg, said, stray>>
  BY ConsoleKinds
<1>3. /\ con' \in [cmd : Command, pc : 0..5, bumped : BOOLEAN]
      /\ con'.pc <= Len(Console[con'.cmd.op])
      /\ \/ con'.cmd.op = "dump"
         \/ con'.cmd = con.cmd /\ con'.bumped = con.bumped /\ con'.pc = con.pc + 1
  BY <1>1, <1>2, NextPlace
<1>4. /\ c \in Command
      /\ \/ c.op \in {"machine", "dump"} /\ con.pc \in 1..4
         \/ c.op = "kxky" /\ con.pc \in 1..5
  BY <1>1, <1>2, ConsolePlaces
<1>5. \* What the step is.
      \/ /\ s \in {Sel(0, "ee"), Sel(1, "none"), Get(All("ee"))} /\ s.op \in {"sel", "get"}
         /\ c.op = "machine" /\ con.pc = 1 => s = Sel(0, "ee")
         /\ c.op = "machine" /\ con.pc # 1 => con.pc = 2 /\ s = Sel(1, "none")
         /\ c.op = "kxky" /\ con.pc = 3 => s = Sel(0, "ee")
         /\ c.op = "kxky" /\ con.pc # 3 => con.pc = 4 /\ s = Sel(1, "none")
      \/ /\ s = Do("save")
         /\ \/ c.op = "machine" /\ con.pc = 3
            \/ c.op = "kxky" /\ con.pc = 5
      \/ s = Do("reg") /\ c.op = "machine" /\ con.pc = 4
      \/ s = Do("kx") /\ c.op = "kxky" /\ con.pc = 1
      \/ s = Do("ky") /\ c.op = "kxky" /\ con.pc = 2
      \/ s = Do("hold") /\ c.op = "dump"
  <2>1. CASE c.op = "machine" /\ con.pc \in 1..4
    BY <2>1, ConsoleSteps DEF Sel
  <2>2. CASE c.op = "kxky" /\ con.pc \in 1..5
    BY <2>2, ConsoleSteps DEF Sel
  <2>3. CASE c.op = "dump" /\ con.pc \in 1..4
    BY <2>3, ConsoleSteps DEF Sel, Get
  <2>4. QED
    BY <1>4, <2>1, <2>2, <2>3
<1> HIDE DEF s
<1>6. ASSUME UNCHANGED <<rec, stray>>, SwitchInv',
             ee' \in [machine : 0..2, kxky : Nat \X Nat],
             reg' \in [machine : {0, 1}, kx : Int, ky : Int],
             said' \in [machine : SUBSET (0..2), kxky : SUBSET (Nat \X Nat)],
             SavedKept',
             ~con.bumped =>
               /\ c.op = "machine" /\ con.pc >= 1 => exp'[0] = "ee"
               /\ c.op = "machine" /\ con.pc >= 2 => exp'[1] = "none"
               /\ c.op = "kxky" /\ con.pc >= 3 => exp'[0] = "ee"
               /\ c.op = "kxky" /\ con.pc >= 4 => exp'[1] = "none"
      PROVE  IInv'
  <2>1. TypeInv'
    BY <1>1, <1>2, <1>3, <1>6 DEF TypeInv
  <2>2. FirstInv' /\ CageInv' /\ LastInv'
    BY <1>1, <1>2, <1>6, RecordStays
  <2>3. ConInv'
    <3>1. con.pc \in Nat /\ (Free <=> Free')
      BY <1>2, <1>4 DEF Free, Sending
    <3>2. CASE con'.cmd.op = "dump"
      BY <3>2 DEF ConInv
    <3>3. CASE con'.cmd = c /\ con'.bumped = con.bumped /\ con'.pc = con.pc + 1
      <4>1. ASSUME ~con'.bumped, con'.cmd.op = "machine"
            PROVE  Selected(2)'
        BY <1>2, <1>6, <3>1, <3>3, <4>1 DEF Selected
      <4>2. ASSUME ~con'.bumped, con'.cmd.op = "kxky"
            PROVE  Selected(4)'
        BY <1>2, <1>6, <3>1, <3>3, <4>2 DEF Selected
      <4>3. QED
        BY <4>1, <4>2 DEF ConInv
    <3>4. QED
      BY <1>3, <3>2, <3>3
  <2>4. BootInv' /\ NoStrayWrite'
    BY <1>1, <1>2, <1>6 DEF BootInv, NoStrayWrite
  <2>5. QED
    BY <1>6, <2>1, <2>2, <2>3, <2>4 DEF IInv
\* What an undisturbed command has selected before the step.
<1>7. /\ ~con.bumped /\ c.op = "machine" /\ con.pc >= 2 => exp[0] = "ee"
      /\ ~con.bumped /\ c.op = "machine" /\ con.pc > 2 => exp[1] = "none"
      /\ ~con.bumped /\ c.op = "kxky" /\ con.pc >= 4 => exp[0] = "ee"
      /\ ~con.bumped /\ c.op = "kxky" /\ con.pc > 4 => exp[1] = "none"
  <2>1. con.pc \in Nat
    BY <1>4
  <2>2. QED
    BY <1>1, <2>1 DEF ConInv, Selected
<1>8. /\ ee \in [machine : 0..2, kxky : Nat \X Nat]
      /\ reg \in [machine : {0, 1}, kx : Int, ky : Int]
      /\ said \in [machine : SUBSET (0..2), kxky : SUBSET (Nat \X Nat)]
  BY <1>1 DEF TypeInv
<1>9. CASE s \in {Sel(0, "ee"), Sel(1, "none"), Get(All("ee"))} /\ s.op \in {"sel", "get"}
  <2>1. Transfer(s) /\ UNCHANGED <<ee, reg, said>>
    BY <1>2, <1>9
  <2>2. /\ UNCHANGED <<rec, stray>> /\ SwitchInv'
        /\ s = Sel(0, "ee") => exp'[0] = "ee"
        /\ s = Sel(1, "none") => exp'[0] = exp[0] /\ exp'[1] = "none"
    BY <1>1, <1>2, <1>9, <2>1, ConsoleTransfer
  <2>3. /\ c.op = "machine" /\ con.pc = 1 => s = Sel(0, "ee")
        /\ c.op = "machine" /\ con.pc # 1 => con.pc = 2 /\ s = Sel(1, "none")
        /\ c.op = "kxky" /\ con.pc = 3 => s = Sel(0, "ee")
        /\ c.op = "kxky" /\ con.pc # 3 => con.pc = 4 /\ s = Sel(1, "none")
    BY <1>5, <1>9 DEF Do
  <2>4. ~con.bumped =>
          /\ c.op = "machine" /\ con.pc >= 1 => exp'[0] = "ee"
          /\ c.op = "machine" /\ con.pc >= 2 => exp'[1] = "none"
          /\ c.op = "kxky" /\ con.pc >= 3 => exp'[0] = "ee"
          /\ c.op = "kxky" /\ con.pc >= 4 => exp'[1] = "none"
    BY <1>7, <2>2, <2>3
  <2>5. SavedKept'
    BY <1>1, <2>1 DEF SavedKept
  <2>6. QED
    BY <1>6, <1>8, <2>1, <2>2, <2>4, <2>5
<1>10. ASSUME s.op \notin {"sel", "get", "put"}, UNCHANGED exp, con.pc \in Nat,
              c.op = "machine" => con.pc >= 3,
              c.op = "kxky" => con.pc >= 5 \/ con.pc < 3
       PROVE  /\ SwitchInv'
              /\ ~con.bumped =>
                   /\ c.op = "machine" /\ con.pc >= 1 => exp'[0] = "ee"
                   /\ c.op = "machine" /\ con.pc >= 2 => exp'[1] = "none"
                   /\ c.op = "kxky" /\ con.pc >= 3 => exp'[0] = "ee"
                   /\ c.op = "kxky" /\ con.pc >= 4 => exp'[1] = "none"
  BY <1>1, <1>7, <1>10 DEF SwitchInv
<1>11. CASE s = Do("save") /\ (\/ c.op = "machine" /\ con.pc = 3
                               \/ c.op = "kxky" /\ con.pc = 5)
  <2>1. s.op = "save" /\ ~Transfer(s)
    BY <1>11, NoTransfer DEF Do
  <2>2. Save(c) /\ UNCHANGED <<exp, rec, reg, stray>>
    BY <1>2, <2>1
  <2>3. /\ ee' \in [machine : 0..2, kxky : Nat \X Nat]
        /\ said' \in [machine : SUBSET (0..2), kxky : SUBSET (Nat \X Nat)]
        /\ SavedKept'
    BY <1>1, <1>11, <2>2, SaveKeeps
  <2>4. QED
    BY <1>6, <1>8, <1>10, <1>11, <2>1, <2>2, <2>3
<1>12. CASE \/ s = Do("reg") /\ c.op = "machine" /\ con.pc = 4
            \/ s = Do("kx") /\ c.op = "kxky" /\ con.pc = 1
            \/ s = Do("ky") /\ c.op = "kxky" /\ con.pc = 2
  <2>1. s.op \in {"reg", "kx", "ky"} /\ ~Transfer(s)
    BY <1>12, NoTransfer DEF Do
  <2>2. Program(c, s) /\ UNCHANGED <<exp, rec, ee, said, stray>>
    BY <1>2, <2>1
  <2>3. /\ s.op = "reg" => c \in Command /\ c.op = "machine"
        /\ s.op # "reg" => c \in Command /\ c.op = "kxky"
    BY <1>4, <1>12 DEF Do
  <2>4. /\ s.op = "reg" => c.val \in {0, 1}
        /\ s.op # "reg" => c.val[1] \in Int /\ c.val[2] \in Int
    BY <2>3, CommandType DEF Command
  <2>5. reg' \in [machine : {0, 1}, kx : Int, ky : Int]
    BY <1>8, <2>1, <2>2, <2>4 DEF Program
  <2>6. SavedKept'
    BY <1>1, <2>2 DEF SavedKept
  <2>7. QED
    BY <1>6, <1>8, <1>10, <1>12, <2>1, <2>2, <2>5, <2>6
<1>13. CASE s = Do("hold") /\ c.op = "dump"
  <2>1. s.op = "hold" /\ ~Transfer(s)
    BY <1>13, NoTransfer DEF Do
  <2>2. UNCHANGED <<exp, rec, ee, reg, said, stray>>
    BY <1>2, <2>1
  <2>3. SavedKept' /\ con.pc \in Nat
    BY <1>1, <1>4, <2>2 DEF SavedKept
  <2>4. QED
    BY <1>6, <1>8, <1>10, <1>13, <2>1, <2>2, <2>3
<1>14. QED
  BY <1>5, <1>9, <1>11, <1>12, <1>13

-----------------------------------------------------------------------------
LEMMA NextInv == IInv /\ [Next]_vars => IInv'
<1> SUFFICES ASSUME IInv, [Next]_vars PROVE IInv'
  OBVIOUS
<1>1. CASE UNCHANGED vars
  BY <1>1
     DEF vars, IInv, TypeInv, SwitchInv, FirstInv, CageInv, LastInv, ConInv, BootInv,
         Good, Selected, Free, Sending, SavedKept, NoStrayWrite
<1>2. CASE Next
  BY <1>2, MainKeeps, WakeKeeps, StatusKeeps, ChooseKeeps, ConsoleKeeps, PlugKeeps,
     RestartKeeps
     DEF Next
<1>3. QED
  BY <1>1, <1>2

LEMMA Invariance == Spec => []IInv
<1>1. IInv /\ [Next]_vars => IInv'
  BY NextInv
<1>2. QED
  BY InitInv, <1>1, PTL DEF Spec

-----------------------------------------------------------------------------
(* The theorems.                                                           *)

LEMMA InvTrue == IInv => RecordTrue /\ NoStrayWrite /\ SavedKept
<1> SUFFICES ASSUME IInv, Sending PROVE RecordTrue
  BY DEF IInv, RecordTrue
<1>1. TypeInv /\ FirstInv /\ CageInv /\ LastInv /\ N \in Nat
  BY CagesType DEF IInv
<1>2. st = 14 + 3 * N
  BY <1>1, PassEnd
<1>3. /\ Good(Dev("dfe", Behind("dfe"))) /\ Good(Dev("afe", {\h48, \h4A}))
      /\ Good(Dev("afe", {\h40})) /\ Good(All("sup"))
  BY <1>1, <1>2 DEF FirstInv
<1>4. \A i \in 1..N : Good(All(Cages[i]))
  <2>1. \A i \in 1..N : st > 9 + 3 * i
    BY <1>1, <1>2
  <2>2. QED
    BY <1>1, <2>1 DEF CageInv
<1>5. Good(All("pwr"))
  BY <1>1, <1>2 DEF LastInv
<1>6. Good(Source)
  BY <1>3, <1>4, <1>5, SourceParts DEF Good
<1>7. QED
  BY <1>6 DEF RecordTrue, Good

LEMMA InvType == IInv => TypeOK
<1> SUFFICES ASSUME IInv PROVE TypeOK
  OBVIOUS
<1>1. TypeInv
  BY DEF IInv
<1>2. Len(Boot) = 19 /\ Len(Pass) = 14 + 3 * N
  BY BootSteps, PassSteps
<1>3. con.cmd \in Command /\ con.pc \in 0..Len(Console[con.cmd.op]) /\ con.bumped \in BOOLEAN
  <2>1. con \in [cmd : Command, pc : 0..5, bumped : BOOLEAN]
        /\ con.pc <= Len(Console[con.cmd.op])
    BY <1>1 DEF TypeInv
  <2>2. con.cmd.op \in {"machine", "kxky", "dump"}
    BY <2>1, CommandType
  <2>3. Len(Console[con.cmd.op]) \in {4, 5}
    BY <2>2, ConsoleSteps
  <2>4. QED
    BY <2>1, <2>3
<1>4. /\ ee.machine \in 0..2 /\ ee.kxky \in Nat \X Nat
      /\ reg.machine \in {0, 1} /\ reg.kx \in Int /\ reg.ky \in Int
      /\ said.machine \subseteq 0..2 /\ said.kxky \subseteq Nat \X Nat
  BY <1>1 DEF TypeInv
<1>5. QED
  BY <1>1, <1>2, <1>3, <1>4 DEF TypeInv, SwitchInv, TypeOK

\* Switches, program counters, records, EEPROM and registers keep to their values
\* through passes, commands, restarts and modules that come and go.
THEOREM TypeCorrect == Spec => []TypeOK
BY Invariance, InvType, PTL

\* Every value of a status record that is sent was answered by the device it is
\* named for and by no other, only an empty cage's may be missing (brdstats.c:105-182).
THEOREM RecordIsTrue == Spec => []RecordTrue
BY Invariance, InvTrue, PTL

\* No configuration write reaches a device behind another output that has the
\* same address (i2c_devices.c:607-636).
THEOREM WritesArriveRight == Spec => []NoStrayWrite
BY Invariance, InvTrue, PTL

\* What the console reports as saved is in the EEPROM, unless a status pass fell
\* into the command after a switch was set (console.c:140-206).
THEOREM SavedIsKept == Spec => []SavedKept
BY Invariance, InvTrue, PTL

\* main() programs the registers from what was saved, at whatever moment the
\* restart before it came (i2c_devices.c:182-257).
THEOREM RestartBringsBack == Spec => RestartRestores
<1> DEFINE Back == main # 0 /\ main' = 0 =>
                     /\ \A v \in said.machine : v # 2 => reg'.machine = v
                     /\ \A p \in said.kxky :
                           /\ reg'.kx = IF p[1] = Erased THEN Reset ELSE p[1]
                           /\ reg'.ky = IF p[2] = Erased THEN Reset ELSE p[2]
<1>1. IInv /\ [Next]_vars => [Back]_vars
  <2> SUFFICES ASSUME IInv, Next, main # 0, main' = 0
               PROVE  /\ \A v \in said.machine : v # 2 => reg'.machine = v
                      /\ \A p \in said.kxky :
                            /\ reg'.kx = IF p[1] = Erased THEN Reset ELSE p[1]
                            /\ reg'.ky = IF p[2] = Erased THEN Reset ELSE p[2]
    OBVIOUS
  <2>1. MainStep
    BY DEF Next, Wake, StatusStep, Choose, ConsoleStep, Plug, Restart
  <2>2. TypeInv /\ BootInv /\ SavedKept
    BY DEF IInv
  <2>3. /\ main \in {15, 19} /\ reg' = reg
    BY <2>1, <2>2, MainRegs
  <2>4. /\ reg'.machine = KnownMachine(ee.machine)
        /\ reg'.kx = Gain(ee.kxky[1]) /\ reg'.ky = Gain(ee.kxky[2])
    BY <2>2, <2>3 DEF BootInv
  <2>5. /\ \A v \in said.machine : v = ee.machine /\ v \in 0..2
        /\ \A p \in said.kxky : p = ee.kxky
    BY <2>2 DEF SavedKept, TypeInv
  <2>6. QED
    BY <2>4, <2>5 DEF KnownMachine, Gain
<1>2. QED
  BY Invariance, <1>1, PTL DEF Spec, RestartRestores

-----------------------------------------------------------------------------
(***************************************************************************)
(* Slow acquisition.                                                       *)
(***************************************************************************)

(***************************************************************************)
(* The invariant that carries the proofs.  What the thread has read is     *)
(* compared with the count as it is now: the blocks since the last read,   *)
(* and those between the reads before it.                                  *)
(***************************************************************************)

\* Where the thread keeps pace, two reads separate a block from the next.
RushInv == ~rushed => burst \in 0..1 /\ (burst = 1 => looks = 0)

\* The distances between the numbers the thread knows.  A number that was sent
\* twice is that of the last poll, so that the next record's is another one.
StepInv ==
    /\ again \in 0..2
    /\ pc = "poll" =>
         /\ Ahead(cnt, sent) = burst /\ Ahead(sent, prev) \in 0..2
         /\ again = 2 => sent = prev
    /\ pc = "delay" =>
         /\ Ahead(cnt, poll) = burst /\ Ahead(poll, sent) \in 0..2
         /\ Ahead(sent, prev) \in 0..2
         /\ again = 2 => sent = prev
    /\ pc = "count" =>
         /\ prev = poll
         /\ Ahead(cnt, poll) = burst /\ Ahead(poll, sent) \in 0..2
         /\ again = 2 => poll # sent
    /\ pc \in {"field", "send"} =>
         /\ prev = poll
         /\ Ahead(cnt, msg.count) = burst /\ Ahead(msg.count, poll) \in 0..2
         /\ Ahead(poll, sent) \in 0..2
         /\ again = 2 => poll # sent

\* At the thread's pace one block at most falls between two records.
PaceInv ==
    ~rushed =>
        /\ pc \in {"delay", "count"} =>
             /\ Ahead(poll, sent) \in 0..1
             /\ Ahead(poll, sent) = 1 => looks \in 0..1 /\ burst = 0
        /\ pc \in {"field", "send"} => Ahead(msg.count, sent) \in 0..1

\* The registers show the latest block or the one before it.
FabricInv == ~drift => IF shown THEN out = cnt ELSE Ahead(cnt, out) = 1

Near(c, b) == Ahead(c, b) \in {0, 1} \/ Ahead(b, c) = 1

FieldInv ==
    ~rushed /\ ~drift =>
        /\ pc = "field" => \A f \in 1..(fld - 1) : Near(msg.count, msg.field[f])
        /\ pc = "send" => \A f \in Field : Near(msg.count, msg.field[f])

SaInv == SaTypeOK /\ RushInv /\ StepInv /\ PaceInv /\ FabricInv /\ FieldInv
-----------------------------------------------------------------------------
(* Counts that wrap *)

LEMMA SmallMod == \A c \in Count : c % W = c
BY WAssumption DEF Count

LEMMA NextMod == \A c \in Count : (c + 1) % W = IF c = W - 1 THEN 0 ELSE c + 1
BY WAssumption DEF Count

LEMMA AheadIs ==
    \A a, b \in Count : Ahead(a, b) = IF a < b THEN a - b + W ELSE a - b
BY WAssumption DEF Count, Ahead

LEMMA AheadType == \A a, b \in Count : Ahead(a, b) \in Count
BY WAssumption, AheadIs DEF Count

LEMMA AheadZero == \A a, b \in Count : Ahead(a, b) = 0 <=> a = b
BY WAssumption, AheadIs DEF Count

LEMMA AheadSum ==
    \A a, b, c \in Count :
        Ahead(a, b) + Ahead(b, c) < W => Ahead(a, c) = Ahead(a, b) + Ahead(b, c)
BY WAssumption, AheadIs DEF Count

LEMMA AheadNext ==
    \A a, b \in Count :
        LET n == (a + 1) % W IN
        /\ n \in Count
        /\ Ahead(a, b) < W - 1 => Ahead(n, b) = Ahead(a, b) + 1
<1> SUFFICES ASSUME NEW a \in Count, NEW b \in Count
             PROVE  LET n == (a + 1) % W IN
                    /\ n \in Count
                    /\ Ahead(a, b) < W - 1 => Ahead(n, b) = Ahead(a, b) + 1
    OBVIOUS
<1> DEFINE n == (a + 1) % W
<1>1. n = IF a = W - 1 THEN 0 ELSE a + 1
    BY NextMod
<1>2. n \in Count
    BY <1>1, WAssumption DEF Count
<1>3. Ahead(a, b) = IF a < b THEN a - b + W ELSE a - b
    BY AheadIs
<1>4. Ahead(n, b) = IF n < b THEN n - b + W ELSE n - b
    BY <1>2, AheadIs
<1> HIDE DEF n
<1>5. QED
    BY <1>1, <1>2, <1>3, <1>4, WAssumption DEF Count, n
-----------------------------------------------------------------------------
LEMMA SaInitInv ==
    ASSUME SaInit
    PROVE  SaInv
<1>1. 0 \in Count
    BY WAssumption DEF Count
<1>2. SaTypeOK
    <2>1. msg \in [count : Count, field : [Field -> Count]] /\ fld \in Field
        BY <1>1, FieldsAssumption DEF SaInit, Field
    <2>2. /\ cnt \in Count /\ out \in Count /\ poll \in Count /\ prev \in Count
          /\ sent \in Count /\ again \in 0..3
        BY <1>1 DEF SaInit
    <2>3. looks \in 0..2 /\ burst \in 0..MaxBurst
        BY DEF SaInit, MaxBurst
    <2>4. /\ shown \in BOOLEAN /\ drift \in BOOLEAN /\ rushed \in BOOLEAN
          /\ pc \in {"poll", "delay", "count", "field", "send"}
        BY DEF SaInit
    <2>5. QED
        BY <2>1, <2>2, <2>3, <2>4 DEF SaTypeOK
<1>3. Ahead(0, 0) = 0
    BY <1>1, AheadZero
<1>4. QED
    BY <1>2, <1>3 DEF SaInit, SaInv, RushInv, StepInv, PaceInv, FabricInv, FieldInv

LEMMA SaNextType ==
    ASSUME SaTypeOK, again \in 0..2, [SaNext]_sa_vars
    PROVE  SaTypeOK'
<1>1. CASE Block
    <2>1. cnt' \in Count
        BY <1>1, AheadNext DEF Block, NextCount, SaTypeOK
    <2>2. /\ burst' \in 0..MaxBurst /\ looks' \in 0..2 /\ rushed' \in BOOLEAN
          /\ drift' \in BOOLEAN /\ shown' \in BOOLEAN
        <3>1. burst' \in 0..MaxBurst /\ looks' \in 0..2
            BY <1>1 DEF Block, SaTypeOK, MaxBurst
        <3>2. rushed' \in BOOLEAN /\ drift' \in BOOLEAN /\ shown' \in BOOLEAN
            BY <1>1, Zenon DEF Block, SaTypeOK
        <3>3. QED
            BY <3>1, <3>2
    <2>3. QED
        BY <1>1, <2>1, <2>2 DEF Block, SaTypeOK, thread
<1>2. CASE SaTrig
    BY <1>2, SmallMod DEF SaTrig, Latched, SaTypeOK, thread, pace
<1>3. CASE Poll
    BY <1>3 DEF Poll, Look, SaTypeOK, fabric, MaxBurst
<1>4. CASE Delay
    BY <1>4 DEF Delay, NextPrev, SaTypeOK, fabric, pace
<1>5. CASE ReadCount
    BY <1>5, FieldsAssumption DEF ReadCount, Look, SaTypeOK, fabric, Field, MaxBurst
<1>6. CASE ReadField
    <2>1. msg' \in [count : Count, field : [Field -> Count]]
        BY <1>6 DEF ReadField, SaTypeOK
    <2>2. fld' \in Field /\ pc' \in {"field", "send"}
        BY <1>6, FieldsAssumption DEF ReadField, SaTypeOK, Field
    <2>3. QED
        BY <1>6, <2>1, <2>2 DEF ReadField, SaTypeOK, fabric, pace
<1>7. CASE Send
    BY <1>7 DEF Send, SaTypeOK, fabric, pace
<1>8. CASE UNCHANGED sa_vars
    BY <1>8 DEF SaTypeOK, sa_vars, fabric, thread, pace
<1>9. QED
    BY <1>1, <1>2, <1>3, <1>4, <1>5, <1>6, <1>7, <1>8 DEF SaNext, sadata_push
-----------------------------------------------------------------------------
(* The steps of the thread's polls and the blocks *)

LEMMA BlockAhead ==
    ASSUME SaTypeOK, Block, NEW b \in Count, Ahead(cnt, b) \in 0..2
    PROVE  Ahead(cnt', b) = Ahead(cnt, b) + 1
BY AheadNext, WAssumption DEF Block, NextCount, SaTypeOK

LEMMA NextRush ==
    ASSUME SaTypeOK, RushInv, [SaNext]_sa_vars
    PROVE  RushInv'
<1> USE DEF RushInv
<1>1. CASE Block
    <2>1. SUFFICES ASSUME ~rushed'
                   PROVE  burst' = 1 /\ looks' = 0
        OBVIOUS
    <2>2. ~rushed /\ ~(looks < 2)
        BY <1>1, <2>1, Zenon DEF Block
    <2>3. looks \in 0..2 /\ burst \in 0..1 /\ (burst = 1 => looks = 0)
        BY <2>2 DEF SaTypeOK
    <2>4. burst = 0
        BY <2>2, <2>3
    <2>5. QED
        BY <1>1, <2>4 DEF Block
<1>2. CASE Poll \/ ReadCount
    BY <1>2 DEF Poll, ReadCount, Look
<1>3. CASE UNCHANGED pace
    BY <1>3 DEF pace
<1>4. CASE SaTrig \/ Delay \/ ReadField \/ Send \/ UNCHANGED sa_vars
    <2>1. UNCHANGED pace
        BY <1>4 DEF SaTrig, Delay, ReadField, Send, sa_vars
    <2>2. QED
        BY <1>3, <2>1
<1>5. QED
    BY <1>1, <1>2, <1>4 DEF SaNext, sadata_push

LEMMA NextStep ==
    ASSUME SaTypeOK, StepInv, [SaNext]_sa_vars
    PROVE  StepInv'
<1>1. /\ W \in Nat /\ W > 4 /\ burst \in 0..2
      /\ cnt \in Count /\ poll \in Count /\ prev \in Count /\ sent \in Count
      /\ msg \in [count : Count, field : [Field -> Count]]
    BY WAssumption DEF SaTypeOK, MaxBurst
<1>2. CASE Block
    <2>1. burst < 2 /\ burst' = burst + 1 /\ UNCHANGED <<thread, sent, again>>
        BY <1>2 DEF Block, MaxBurst
    <2>2. \A b \in Count : Ahead(cnt, b) = burst => Ahead(cnt', b) = burst'
        BY <1>1, <1>2, <2>1, BlockAhead
    <2>3. QED
        BY <1>1, <2>1, <2>2 DEF StepInv, thread
<1>3. CASE SaTrig
    BY <1>3 DEF SaTrig, StepInv, thread, pace
<1>4. CASE Poll
    <2>1. Ahead(cnt, cnt) = 0
        BY <1>1, AheadZero
    <2>2. QED
        BY <1>1, <1>4, <2>1 DEF Poll, Look, StepInv, fabric
<1>5. CASE Delay
    <2>1. CASE News
        <3>1. again = 2 => poll # sent
            BY <1>5, <2>1 DEF Delay, News, StepInv
        <3>2. QED
            BY <1>5, <2>1, <3>1 DEF Delay, NextPrev, StepInv, fabric, pace
    <2>2. CASE ~News
        <3>1. poll = prev /\ Ahead(poll, sent) \in 0..2 /\ Ahead(sent, prev) \in 0..2
            BY <1>5, <2>2 DEF Delay, News, StepInv
        <3>2. Ahead(poll, sent) + Ahead(sent, prev) = 0
            BY <1>1, <3>1, AheadSum, AheadZero
        <3>3. poll = sent /\ sent = prev /\ Ahead(sent, prev) = 0
            BY <1>1, <3>1, <3>2, AheadZero
        <3>4. QED
            BY <1>5, <2>2, <3>3 DEF Delay, StepInv, fabric, pace
    <2>3. QED
        BY <2>1, <2>2
<1>6. CASE ReadCount
    <2>1. msg'.count = cnt /\ Ahead(cnt, cnt) = 0
        BY <1>1, <1>6, AheadZero DEF ReadCount
    <2>2. QED
        BY <1>1, <1>6, <2>1 DEF ReadCount, Look, StepInv, fabric
<1>7. CASE ReadField
    <2>1. msg'.count = msg.count /\ pc' \in {"field", "send"}
        BY <1>1, <1>7 DEF ReadField
    <2>2. QED
        BY <1>7, <2>1 DEF ReadField, StepInv, fabric, pace
<1>8. CASE Send
    <2>1. /\ Ahead(cnt, msg.count) = burst /\ Ahead(msg.count, poll) \in 0..2
          /\ Ahead(poll, sent) \in 0..2 /\ prev = poll /\ again \in 0..2
          /\ again = 2 => poll # sent
        BY <1>8 DEF Send, StepInv
    <2>2. Ahead(msg.count, sent) = Ahead(msg.count, poll) + Ahead(poll, sent)
        BY <1>1, <2>1, AheadSum
    <2>3. sent = msg.count => msg.count = poll /\ poll = sent
        BY <1>1, <2>1, <2>2, AheadZero
    <2>4. again' \in 0..2 /\ (again' = 2 => sent' = prev')
        BY <1>8, <2>1, <2>3 DEF Send
    <2>5. QED
        BY <1>8, <2>1, <2>4 DEF Send, StepInv, fabric, pace
<1>9. CASE UNCHANGED sa_vars
    BY <1>9 DEF sa_vars, StepInv, fabric, thread, pace
<1>10. QED
    BY <1>2, <1>3, <1>4, <1>5, <1>6, <1>7, <1>8, <1>9 DEF SaNext, sadata_push

\* Neither the distance of two numbers that were read nor an earlier number
\* changes while the thread waits; only the pace of the blocks does.
LEMMA NextPace ==
    ASSUME SaTypeOK, RushInv, StepInv, PaceInv, [SaNext]_sa_vars
    PROVE  PaceInv'
<1>1. SUFFICES ASSUME ~rushed'
               PROVE  /\ pc' \in {"delay", "count"} =>
                           /\ Ahead(poll', sent') \in 0..1
                           /\ Ahead(poll', sent') = 1 => looks' \in 0..1 /\ burst' = 0
                      /\ pc' \in {"field", "send"} => Ahead(msg'.count, sent') \in 0..1
    BY DEF PaceInv, Ahead
<1>2. ~rushed
    BY <1>1, Zenon DEF SaNext, sadata_push, Block, SaTrig, Poll, Delay, ReadCount, ReadField,
                Send, Look, pace, sa_vars
<1>3. /\ W \in Nat /\ W > 4 /\ looks \in 0..2
      /\ cnt \in Count /\ poll \in Count /\ sent \in Count
      /\ msg \in [count : Count, field : [Field -> Count]]
    BY WAssumption DEF SaTypeOK
<1>4. burst \in 0..1 /\ (burst = 1 => looks = 0)
    BY <1>2 DEF RushInv
<1>5. CASE Block
    <2>1. ~(looks < 2)
        BY <1>1, <1>5, Zenon DEF Block
    <2>2. UNCHANGED <<thread, sent>>
        BY <1>5 DEF Block
    <2>3. QED
        BY <1>2, <1>3, <2>1, <2>2 DEF PaceInv, thread
<1>6. CASE Poll
    BY <1>3, <1>4, <1>6 DEF Poll, Look, StepInv
<1>7. CASE Delay
    BY <1>2, <1>7 DEF Delay, PaceInv, pace
<1>8. CASE ReadCount
    <2>1. /\ Ahead(cnt, poll) = burst /\ Ahead(poll, sent) \in 0..1
          /\ Ahead(poll, sent) = 1 => burst = 0
        BY <1>2, <1>8 DEF ReadCount, StepInv, PaceInv
    <2>2. Ahead(cnt, sent) = Ahead(cnt, poll) + Ahead(poll, sent)
        BY <1>3, <1>4, <2>1, AheadSum
    <2>3. msg'.count = cnt /\ sent' = sent /\ pc' = "field"
        BY <1>3, <1>8 DEF ReadCount
    <2>4. QED
        BY <1>4, <2>1, <2>2, <2>3
<1>9. CASE ReadField
    <2>1. msg'.count = msg.count /\ pc' \in {"field", "send"} /\ sent' = sent
        BY <1>3, <1>9 DEF ReadField
    <2>2. QED
        BY <1>2, <1>9, <2>1 DEF ReadField, PaceInv
<1>10. CASE SaTrig \/ Send \/ UNCHANGED sa_vars
    BY <1>2, <1>10 DEF SaTrig, Send, sa_vars, PaceInv, thread, pace
<1>11. QED
    BY <1>5, <1>6, <1>7, <1>8, <1>9, <1>10 DEF SaNext, sadata_push
-----------------------------------------------------------------------------
(* The registers *)

LEMMA NextFabric ==
    ASSUME SaTypeOK, FabricInv, [SaNext]_sa_vars
    PROVE  FabricInv'
<1> USE DEF FabricInv
<1>1. cnt \in Count /\ out \in Count
    BY DEF SaTypeOK
<1>2. CASE Block
    <2>1. CASE ~drift'
        <3>1. ~drift /\ shown
            BY <1>2, <2>1, Zenon DEF Block
        <3>2. Ahead(cnt, out) = 0
            BY <1>1, <3>1, AheadZero
        <3>3. Ahead(cnt', out) = 1
            BY <1>1, <1>2, <3>2, BlockAhead
        <3>4. QED
            BY <1>2, <3>3 DEF Block, Ahead
    <2>2. QED
        BY <2>1
<1>3. CASE SaTrig
    BY <1>1, <1>3, SmallMod DEF SaTrig, Latched
<1>4. CASE UNCHANGED fabric
    BY <1>4 DEF fabric, Ahead
<1>5. CASE sadata_push \/ UNCHANGED sa_vars
    <2>1. UNCHANGED fabric
        BY <1>5 DEF sadata_push, Poll, Delay, ReadCount, ReadField, Send, sa_vars
    <2>2. QED
        BY <1>4, <2>1
<1>6. QED
    BY <1>2, <1>3, <1>5 DEF SaNext

\* Between the reads of the number and of a field at most one block ends, and
\* the registers are at most one block behind it.
LEMMA FieldNear ==
    ASSUME SaTypeOK, RushInv, StepInv, FabricInv, pc = "field", ~rushed, ~drift
    PROVE  Near(msg.count, out)
<1>1. /\ W \in Nat /\ W > 4 /\ cnt \in Count /\ out \in Count /\ msg.count \in Count
    BY WAssumption DEF SaTypeOK
<1>2. Ahead(cnt, msg.count) \in 0..1
    BY DEF RushInv, StepInv
<1>3. CASE shown
    BY <1>1, <1>2, <1>3, AheadZero DEF FabricInv, Near
<1>4. CASE ~shown
    <2> DEFINE m == msg.count
    <2>1. Ahead(cnt, out) = 1
        BY <1>4 DEF FabricInv
    <2>2. /\ Ahead(cnt, out) = IF cnt < out THEN cnt - out + W ELSE cnt - out
          /\ Ahead(cnt, m) = IF cnt < m THEN cnt - m + W ELSE cnt - m
          /\ Ahead(m, out) = IF m < out THEN m - out + W ELSE m - out
        BY <1>1, AheadIs
    <2>3. m \in 0..(W - 1) /\ cnt \in 0..(W - 1) /\ out \in 0..(W - 1)
        BY <1>1 DEF Count
    <2> HIDE DEF m
    <2>4. Ahead(m, out) \in {0, 1}
        BY <1>1, <1>2, <2>1, <2>2, <2>3 DEF m
    <2>5. QED
        BY <2>4 DEF Near, m
<1>5. QED
    BY <1>3, <1>4

LEMMA NextField ==
    ASSUME SaTypeOK, RushInv, StepInv, FabricInv, FieldInv, [SaNext]_sa_vars
    PROVE  FieldInv'
<1>1. SUFFICES ASSUME ~rushed', ~drift'
               PROVE  /\ pc' = "field" => \A f \in 1..(fld' - 1) : Near(msg'.count, msg'.field[f])
                      /\ pc' = "send" => \A f \in Field : Near(msg'.count, msg'.field[f])
    BY DEF FieldInv, Near, Ahead
<1>2. ~rushed /\ ~drift
    <2>1. CASE Block
        BY <1>1, <2>1, Zenon DEF Block
    <2>2. CASE SaTrig \/ sadata_push \/ UNCHANGED sa_vars
        <3>1. rushed' = rushed /\ drift' = drift
            BY <2>2 DEF SaTrig, sadata_push, Poll, Delay, ReadCount, ReadField, Send, Look, pace,
                        fabric, sa_vars
        <3>2. QED
            BY <1>1, <3>1
    <2>3. QED
        BY <2>1, <2>2 DEF SaNext
<1>3. /\ msg \in [count : Count, field : [Field -> Count]] /\ fld \in Field
      /\ Fields \in Nat \ {0}
    BY FieldsAssumption DEF SaTypeOK
<1>4. CASE Block \/ SaTrig \/ UNCHANGED sa_vars
    BY <1>2, <1>4 DEF Block, SaTrig, sa_vars, FieldInv, thread
<1>5. CASE Poll \/ Delay \/ Send
    BY <1>5 DEF Poll, Delay, Send
<1>6. CASE ReadCount
    BY <1>6 DEF ReadCount
<1>7. CASE ReadField
    <2>1. /\ pc = "field" /\ msg'.count = msg.count
          /\ msg'.field = [msg.field EXCEPT ![fld] = out]
        BY <1>3, <1>7 DEF ReadField
    <2>2. \A f \in 1..(fld - 1) : Near(msg'.count, msg'.field[f])
        BY <1>2, <1>3, <2>1 DEF FieldInv, Field
    <2>3. Near(msg'.count, msg'.field[fld])
        BY <1>2, <1>3, <2>1, FieldNear
    <2>4. \A f \in 1..fld : Near(msg'.count, msg'.field[f])
        <3>1. \A f \in 1..fld : f = fld \/ f \in 1..(fld - 1)
            BY <1>3 DEF Field
        <3>2. QED
            BY <2>2, <2>3, <3>1
    <2>5. CASE fld = Fields
        BY <1>7, <2>4, <2>5 DEF ReadField, Field
    <2>6. CASE fld # Fields
        <3>1. fld' = fld + 1 /\ pc' = "field"
            BY <1>7, <2>6 DEF ReadField
        <3>2. fld' - 1 = fld
            BY <1>3, <3>1 DEF Field
        <3>3. QED
            BY <2>4, <3>1, <3>2
    <2>7. QED
        BY <2>5, <2>6
<1>8. QED
    BY <1>4, <1>5, <1>6, <1>7 DEF SaNext, sadata_push

LEMMA InvStep ==
    ASSUME SaInv, [SaNext]_sa_vars
    PROVE  SaInv'
<1>1. again \in 0..2
    BY DEF SaInv, StepInv
<1>2. QED
    BY <1>1, SaNextType, NextRush, NextStep, NextPace, NextFabric, NextField DEF SaInv

\* SaInv is inductive.
LEMMA SaInductive == SaSafetySpec => []SaInv
<1>1. QED
    BY SaInitInv, InvStep, PTL DEF SaSafetySpec
-----------------------------------------------------------------------------
(* Theorems *)

\* Counts stay counts where they wrap, and no field is read that is not there
\* (sadata.c, sa_dsp.vhd).
THEOREM SaTypeCorrect == SaSafetySpec => []SaTypeOK
<1>1. SaInv => SaTypeOK
    BY DEF SaInv
<1>2. QED
    BY <1>1, SaInductive, PTL

\* No number is sent three times, however the blocks come (sadata.c:52).
THEOREM NeverThrice == SaSafetySpec => []NotThrice
<1>1. SaInv => NotThrice
    BY DEF SaInv, StepInv, NotThrice
<1>2. QED
    BY <1>1, SaInductive, PTL

\* Number and fields of a record are of neighbouring blocks, as long as a
\* trigger follows each block and the thread keeps pace (sadata.c:57-69).
THEOREM FieldsAreNear == SaSafetySpec => []FieldsNear
<1>1. SaInv => FieldsNear
    BY DEF SaInv, FieldInv, FieldsNear, Near
<1>2. QED
    BY <1>1, SaInductive, PTL

\* Records follow each other by number, also where the count wraps, as long as
\* the thread keeps pace (sadata.c:46-57).
THEOREM BlocksAreConsecutive == SaSafetySpec => NoBlockSkipped
<1>1. ASSUME SaInv, [SaNext]_sa_vars
      PROVE  [Send /\ again # 0 /\ ~rushed => Ahead(sent', sent) \in {0, 1}]_sa_vars
    <2>1. ASSUME Send, ~rushed
          PROVE  Ahead(sent', sent) \in {0, 1}
        BY <1>1, <2>1 DEF SaInv, PaceInv, Send
    <2>2. QED
        BY <2>1
<1>2. QED
    BY <1>1, SaInductive, PTL DEF SaSafetySpec, NoBlockSkipped
=============================================================================
