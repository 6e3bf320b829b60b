----------------------------- MODULE SpiMaster -----------------------------
(***************************************************************************)
(* The four SPI masters of the FPGA and the threads that use them:         *)
(*   "pll"    AD9510 clock chip, programmed by main()       (ad9510.c)     *)
(*   "adc"    the two LTC2195, programmed by main() and by messages of     *)
(*            clients                          (ltc2195_init.c, control.c) *)
(*   "dsa"    PE43712 attenuator, set by messages           (control.c)    *)
(*   "therm"  LTC2986 thermistor readout, the thermistor thread            *)
(*                                            (ltc2986.c, thermistors.c)   *)
(* A write to a master's register strobes a word in.  No master has a busy *)
(* flag that the software reads: a strobe during a transfer is lost, and   *)
(* the software waits long enough instead.  The masters share nothing, so  *)
(* a behaviour looks at one of them, chosen in Init.                       *)
(*                                                                         *)
(* Time: a transfer, with the clock in which the latch is cleared, takes   *)
(* at most 82 us and usleep waits 1 ms or more.  So a usleep that starts   *)
(* during a transfer ends after it; a transfer that another thread starts  *)
(* meanwhile may still run.                                                *)
(***************************************************************************)
EXTENDS Integers, Sequences

CONSTANTS
    Client,     \* the threads of the PSC clients
    Chips,      \* the thermistor chips are 0..Chips-1
    AdcWord,    \* the words <<register, value>> clients send to the ADCs
    AttenMsg    \* the attenuations, in dB, that clients ask for

ASSUME ClientAssumption == "main" \notin Client /\ "thermistor" \notin Client
ASSUME ChipsAssumption == Chips \in Nat \ {0}
\* Both are bytes (control.c:370-371); register 0 would reset the chip.
ASSUME WordAssumption == AdcWord \subseteq (1..255) \X (0..255)
ASSUME AttenAssumption == AttenMsg \subseteq Nat

VARIABLES
    kind,       \* the master this behaviour looks at
    ph,         \* "idle", "shift" or "clear": the latch is held clear
    lat, data,  \* a strobe is latched, and its word
    treg,       \* the word being shifted
    rdata,      \* what the last transfer has read, <<chip, register, value>>
    chip,       \* value of a chip's register, a function of <<chip, register>>
    want,       \* the same as the software has written it
    sel,        \* thermistor chip that is selected
    conv,       \* channel a thermistor chip converts, 0 if none
    turn,       \* parity of the thermistor thread's round
    cmd, pc,    \* a thread's program, and its next step: 0 if it has none
    owed,       \* the transfer of this thread's last write is not over
    lost,       \* history: a strobed word was never transferred
    overlap     \* history: two clients were in a handler at once

master == <<ph, lat, data, treg, rdata, chip>>
threads == <<cmd, pc, owed, want, sel, turn>>
vars == <<kind, master, conv, threads, lost, overlap>>

Kind == {"pll", "adc", "dsa", "therm"}
Thread == Client \cup {"main", "thermistor"}
Unset == -1                     \* a register that was not written
NoWord == [rd |-> FALSE, at |-> 0, val |-> 0]

-----------------------------------------------------------------------------
(* What the threads do: writes of words, waits, reads of the data register.*)

Word(r, v)  == [rd |-> FALSE, at |-> r, val |-> v]
Query(r)    == [rd |-> TRUE, at |-> r, val |-> 0]
Write(w)    == [op |-> "write", word |-> w]
Select(c)   == [op |-> "select", chip |-> c]
Op(op)      == [op |-> op]
Usleep      == Op("usleep")
ReadData    == Op("read")

\* Every word followed by a wait.
Each(W) == [i \in 1..(2 * Len(W)) |->
              IF i % 2 = 1 THEN Write(Word(W[(i + 1) \div 2][1], W[(i + 1) \div 2][2]))
              ELSE Usleep]

Update == <<\h5A, \h01>>
PllSetup == << <<\h00, \h10>>, <<\h58, 0>>,     <<\h45, 0>>,     <<\h3C, \h08>>,
               <<\h4B, \h80>>, <<\h3D, \h08>>,  <<\h49, \h80>>,  <<\h3E, \h08>>,
               <<\h4D, \h80>>, <<\h3F, \h08>>,  <<\h4F, \h80>>,  <<\h40, \h02>>,
               <<\h51, \h80>>, <<\h41, \h02>>,  <<\h53, \h80>>,  <<\h42, \h02>>,
               <<\h55, \h80>>, <<\h38, 0>>,     <<\h39, \h1B>>,  <<\h3A, \h0A>>,
               <<\h43, \h02>>, <<\h57, \h80>>,  <<\h04, 0>>,     <<\h05, \h01>>,
               <<\h06, \h36>>, <<\h08, \h77>>,  <<\h09, \h30>>,  <<\h0A, \h02>>,
               <<\h0B, 0>>,    <<\h0C, \h01>>,  <<\h0D, 0>> >>
UpdateFirst(W) == <<Update>> \o W                                   \* faulty
PllWords(W) == Append(W, Update)
prog_ad9510 == Each(PllWords(PllSetup))

\* A word to both ADCs, then read back from the first and from the second.  The
\* highest bit of the register is the one that makes the word a query.
ReadBack(r) == <<Write(Query(r)), Usleep, ReadData>>
AdcReg(r) == r % 128
ToAdc(r, v) == Write(IF r < 128 THEN Word(r, v) ELSE Query(AdcReg(r)))
AdcSpiHasty(r, v) ==                                                \* faulty
    <<ToAdc(r, v)>> \o ReadBack(AdcReg(r)) \o ReadBack(AdcReg(r))
AdcSpi(r, v) == <<ToAdc(r, v), Usleep>> \o ReadBack(AdcReg(r))
                \o <<Usleep>> \o ReadBack(AdcReg(r))

ltc2195_init == AdcSpi(1, \h20) \o Each(<< <<3, \h01>> >>) \o ReadBack(3)
                \o AdcSpi(4, 0) \o Each(<< <<2, 1>> >>)

Atten(v) == (4 * v) % 256       \* the register has 8 bits
set_atten(v) == <<Write(Word(0, Atten(v)))>>

\* Thermistors: sense resistor, channels 4 and 6; then the readings.
ThermSetup == << <<4, \hE8>>,     <<5, \h9C>>,     <<6, \h40>>,     <<7, 0>>,
                 <<\h0C, \hB0>>,  <<\h0D, \h8C>>,  <<\h0E, 0>>,     <<\h0F, 0>>,
                 <<\h14, \hB0>>,  <<\h15, \h8C>>,  <<\h16, 0>>,     <<\h17, 0>> >>
Start == 0                      \* register that starts a conversion
Result == [ch \in {4, 6} |-> IF ch = 4 THEN <<\h1F, \h1E, \h1D>> ELSE <<\h27, \h26, \h25>>]

setup_thermistors(c) == <<Select(c), Usleep>> \o Each(ThermSetup)
ReadChannel(ch) == <<Write(Word(Start, ch)), Op("delay")>>
                   \o ReadBack(Result[ch][1]) \o ReadBack(Result[ch][2])
                   \o ReadBack(Result[ch][3])
read_thermistors(c) == <<Select(c), Usleep>> \o ReadChannel(4) \o ReadChannel(6)

\* P(0), P(1), ... one after the other; all have the same length.
ForChips(P(_)) == [i \in 1..(Chips * Len(P(0))) |->
                     P((i - 1) \div Len(P(0)))[((i - 1) % Len(P(0))) + 1]]
ThermLoop == ForChips(read_thermistors) \o <<Op("send")>>
thermistors_push == ForChips(setup_thermistors) \o ThermLoop

NoCmd == [msg |-> "none", arg |-> <<0, 0>>]
Prog(c) == CASE c.msg = "pll"   -> prog_ad9510
             [] c.msg = "init"  -> ltc2195_init
             [] c.msg = "adc"   -> AdcSpi(c.arg[1], c.arg[2])
             [] c.msg = "atten" -> set_atten(c.arg[1])
             [] c.msg = "therm" -> thermistors_push
             [] OTHER           -> <<>>

\* The messages of clients that concern the master.
Message == CASE kind = "adc" -> [msg : {"adc"}, arg : AdcWord]
             [] kind = "dsa" -> [msg : {"atten"}, arg : AttenMsg \X {0}]
             [] OTHER        -> {}

Registers(k) ==
    CASE k = "pll"   -> {0} \X {PllWords(PllSetup)[i][1] : i \in 1..(Len(PllSetup) + 1)}
      [] k = "adc"   -> {0} \X (1..4 \cup {AdcReg(w[1]) : w \in AdcWord})
      [] k = "dsa"   -> {<<0, 0>>}
      [] k = "therm" -> (0..(Chips - 1)) \X
           ({ThermSetup[i][1] : i \in DOMAIN ThermSetup}
            \cup {Result[ch][b] : ch \in {4, 6}, b \in 1..3})

-----------------------------------------------------------------------------
Init ==
    /\ kind \in Kind
    /\ ph = "idle" /\ lat = FALSE /\ data = NoWord /\ treg = NoWord
    /\ rdata = <<0, 0, Unset>>
    /\ chip = [r \in Registers(kind) |-> Unset] /\ want = chip
    /\ sel = 0 /\ conv = [c \in 0..(Chips - 1) |-> 0] /\ turn = 0
    /\ cmd = [t \in Thread |->
                [NoCmd EXCEPT !.msg =
                   CASE t = "main" /\ kind = "pll"         -> "pll"
                     [] t = "main" /\ kind = "adc"         -> "init"
                     [] t = "thermistor" /\ kind = "therm" -> "therm"
                     [] OTHER                              -> "none"]]
    /\ pc = [t \in Thread |-> IF cmd[t] = NoCmd THEN 0 ELSE 1]
    /\ owed = [t \in Thread |-> FALSE]
    /\ lost = FALSE /\ overlap = FALSE

-----------------------------------------------------------------------------
(* The masters.  From "shift" on the PLL's and the attenuator's hold their *)
(* latch clear; the others keep it set and clear it in "clear".  Both lose *)
(* a strobe in either phase; in "idle" a later word replaces an earlier.   *)

Blind == ph \in {"shift", "clear"}

FirstWins(w) == IF lat THEN data ELSE w                             \* faulty
Latched(w) == w

Strobe(w) ==
    /\ lat' = (lat \/ ~Blind)
    /\ data' = IF Blind THEN data ELSE Latched(w)
    /\ lost' = (lost \/ Blind \/ (lat /\ kind # "dsa" /\ data # w))
    /\ want' = IF <<sel, w.at>> \in DOMAIN want /\ ~w.rd
               THEN [want EXCEPT ![<<sel, w.at>>] = w.val] ELSE want

Accept ==
    /\ ph = "idle" /\ lat
    /\ ph' = "shift" /\ lat' = FALSE /\ treg' = data
    /\ UNCHANGED <<kind, data, rdata, chip, conv, threads, lost, overlap>>

\* The word has arrived.  A transfer that writes reads nothing of use.
Finish ==
    /\ ph = "shift"
    /\ ph' = "clear"
    /\ LET r == <<sel, treg.at>> IN
       /\ chip' = IF r \in DOMAIN chip /\ ~treg.rd THEN [chip EXCEPT ![r] = treg.val]
                  ELSE chip
       /\ rdata' = IF treg.rd THEN <<sel, treg.at, chip[r]>> ELSE <<0, 0, Unset>>
       /\ conv' = IF kind = "therm" /\ treg.at = Start THEN [conv EXCEPT ![sel] = treg.val]
                  ELSE conv
    /\ UNCHANGED <<kind, lat, data, treg, threads, lost, overlap>>

Clear ==
    /\ ph = "clear"
    /\ ph' = "idle"
    /\ owed' = [t \in Thread |-> FALSE]
    /\ UNCHANGED <<kind, lat, data, treg, rdata, chip, conv, cmd, pc, want, sel, turn,
                   lost, overlap>>

\* A conversion ends: the three bytes are replaced.
Convert(c) ==
    /\ conv[c] # 0
    /\ chip' = [r \in DOMAIN chip |->
                  IF \E b \in 1..3 : r = <<c, Result[conv[c]][b]>> THEN turn ELSE chip[r]]
    /\ conv' = [conv EXCEPT ![c] = 0]
    /\ UNCHANGED <<kind, ph, lat, data, treg, rdata, threads, lost, overlap>>

-----------------------------------------------------------------------------
(* The threads.  main() runs before the others.                            *)

\* Time enough for a conversion, which takes at most 170 ms.
ShortDelay == TRUE                                                  \* faulty
LongDelay == \A c \in 0..(Chips - 1) : conv[c] = 0

Goto(t) ==
    /\ pc' = [pc EXCEPT ![t] = IF @ = Len(Prog(cmd[t])) THEN 0 ELSE @ + 1]
    /\ cmd' = IF pc[t] = Len(Prog(cmd[t])) THEN [cmd EXCEPT ![t] = NoCmd] ELSE cmd

WriteWord(t, w) ==
    /\ Strobe(w)
    /\ owed' = [owed EXCEPT ![t] = TRUE]
    /\ Goto(t)
    /\ UNCHANGED <<ph, treg, rdata, chip, sel, turn>>

SelectChip(t, c) ==
    /\ sel' = c
    /\ Goto(t)
    /\ UNCHANGED <<master, owed, want, turn, lost>>

\* Waits and reads; what a read finds is looked at in AnswersOwn.
WaitOrRead(t, op) ==
    /\ op \in {"usleep", "delay", "read"}
    /\ op \in {"usleep", "delay"} => ~owed[t]
    /\ op = "delay" => LongDelay
    /\ Goto(t)
    /\ UNCHANGED <<master, owed, want, sel, turn, lost>>

SendRecord(t) ==
    /\ pc' = [pc EXCEPT ![t] = @ + 1 - Len(ThermLoop)]
    /\ turn' = 1 - turn
    /\ UNCHANGED <<master, cmd, owed, want, sel, lost>>

Step(t) ==
    /\ pc[t] # 0
    /\ LET s == Prog(cmd[t])[pc[t]] IN
       \/ s.op = "write"  /\ WriteWord(t, s.word)
       \/ s.op = "select" /\ SelectChip(t, s.chip)
       \/ s.op = "send"   /\ SendRecord(t)
       \/ WaitOrRead(t, s.op)
    /\ UNCHANGED <<kind, conv, overlap>>

Receive(t, m) ==
    /\ pc["main"] = 0 /\ pc[t] = 0
    /\ cmd' = [cmd EXCEPT ![t] = m]
    /\ pc' = [pc EXCEPT ![t] = 1]
    /\ overlap' = (overlap \/ \E u \in Client : pc[u] # 0)
    /\ UNCHANGED <<kind, master, conv, owed, want, sel, turn, lost>>

Next ==
    \/ Accept
    \/ Finish
    \/ Clear
    \/ \E c \in 0..(Chips - 1) : Convert(c)
    \/ \E t \in Thread : Step(t)
    \/ \E t \in Client : \E m \in Message : Receive(t, m)

Spec == Init /\ [][Next]_vars

-----------------------------------------------------------------------------
WordSet == [rd : BOOLEAN, at : 0..255, val : 0..255]

TypeOK ==
    /\ kind \in Kind /\ ph \in {"idle", "shift", "clear"} /\ lat \in BOOLEAN
    /\ data \in WordSet /\ treg \in WordSet
    /\ rdata \in Nat \X Nat \X Int
    /\ chip \in [Registers(kind) -> -1..255] /\ want \in [Registers(kind) -> -1..255]
    /\ sel \in 0..(Chips - 1) /\ turn \in {0, 1}
    /\ conv \in [0..(Chips - 1) -> {0, 4, 6}]
    /\ \A t \in Thread : pc[t] \in 0..Len(Prog(cmd[t]))
    /\ owed \in [Thread -> BOOLEAN]
    /\ lost \in BOOLEAN /\ overlap \in BOOLEAN

\* A word is lost in two ways only: two clients were in a handler at the same
\* time, or the attenuator, after whose setting nobody waits, was set again
\* within a transfer.
LostByCrowdOnly == lost => overlap \/ kind = "dsa"

\* When a master has nothing left to do and no strobe was lost, the chip has
\* what was written; in particular the attenuation that general data reports
\* from the register is the one the attenuator has.
Settled == ph = "idle" /\ ~lat
ChipFollows ==
    Settled /\ ~lost =>
        \A r \in DOMAIN chip : want[r] # Unset => chip[r] = want[r]

\* The AD9510 takes its new settings over at once, with the last word: then
\* all of them have arrived.
PllReady ==
    kind = "pll" /\ chip[<<0, Update[1]>>] # Unset =>
        \A i \in DOMAIN PllSetup : chip[<<0, PllSetup[i][1]>>] = PllSetup[i][2]

\* A thread that reads the data register finds the answer to its own query:
\* the register it has asked for, of the chip it has selected, and for a
\* thermistor a byte of this round's conversion.
AnswersOwn ==
    \A t \in Thread :
        /\ pc[t] # 0 /\ Prog(cmd[t])[pc[t]].op = "read"
        /\ ~overlap
        => LET q == Prog(cmd[t])[pc[t] - 2].word IN
           rdata = <<sel, q.at, IF kind = "therm" THEN turn ELSE chip[<<sel, q.at>>]>>

=============================================================================
