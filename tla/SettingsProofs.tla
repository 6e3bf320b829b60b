--------------------------- MODULE SettingsProofs ---------------------------
(***************************************************************************)
(* The settings reach the hardware as SettingsStore promises, for every    *)
(* number of clients, every set of messages and every range of values.     *)
(***************************************************************************)
EXTENDS Settings, TLAPS

(***************************************************************************)
(* The invariant that carries the proofs.  A register that is shared says  *)
(* by its value in which step some thread stands: a bit that is up belongs *)
(* to a thread about to clear it, and taps that differ from adc_idlywval   *)
(* to one about to load them.                                              *)
(***************************************************************************)

\* What a thread's step says of its message, and of what it has done.
StepInv ==
  \A c \in Client :
     /\ pc[c] = "set" => Valid(msg[c])
     /\ pc[c] = "clear" => msg[c].id \in Line
     /\ pc[c] \in {"load", "hold"} => msg[c].id = "adc_idly"
     /\ pc[c] \in {"blink", "set"} => (served[c] <=> ~Valid(msg[c]))
     /\ pc[c] \in {"clear", "hold", "done"} => served[c]

\* A client that keeps a line's bit up.
Raises(c, w) ==
  pc[c] = "clear" /\ Wire(msg[c].id) = w /\ Bit(msg[c].id) = strobe[w]

LedInv == ioc_access = 1 => \E c \in Client : pc[c] = "blink"

LineInv ==
  \A w \in {"dma_softtrig", "adc_fcommcm"} :
     strobe[w] # 0 => \E c \in Client : Raises(c, w)

\* The threads whose value for the taps is still to be loaded.
Unloaded == {c \in Client : pc[c] = "load" /\ ~served[c]}

TapInv ==
  /\ idlystr = 1 => (\E c \in Client : pc[c] = "hold") /\ Unloaded = {}
  /\ Unloaded = {} => taps = idlywval
  /\ Unloaded # {} => \E c \in Unloaded : msg[c].data % TapTop = idlywval

IInv == TypeOK /\ StepInv /\ LedInv /\ LineInv /\ TapInv
-----------------------------------------------------------------------------
(* Messages and values *)

LEMMA ModRange ==
  ASSUME NEW n \in Nat, NEW k \in Nat \ {0}
  PROVE  n % k \in 0..(k - 1)
OBVIOUS

LEMMA MessageFields ==
  ASSUME NEW m \in Message
  PROVE  /\ m.id \in Level \cup Line \cup {"adc_idly", "ignored"}
         /\ m.data \in Nat
BY MessageAssumption, HalfAssumption DEF Word

\* Levels, lines, the taps and the ignored addresses are told apart.
LEMMA NamesApart ==
  /\ Level \cap Line = {}
  /\ "adc_idly" \notin Level \cup Line
  /\ "ignored" \notin Level \cup Line
  /\ \A l \in Line : l # "adc_idly"
BY NamesAssumption DEF Level, Line, Fixed

\* A level's register always has a value it can hold: an unsigned message
\* becomes a length in range, an attenuation of eight bits, a source of two.
LEMMA StoredType ==
  ASSUME NEW m \in Message, m.id \in Level, Valid(m)
  PROVE  Stored(m) \in LevelValue(m.id)
<1>0. m.data \in Nat
  BY MessageFields
<1>1. CASE m.id \in Plain
  <2>1. PlainTop[m.id] \in Nat \ {0}
    BY <1>1, PlainAssumption
  <2>2. m.data % PlainTop[m.id] \in 0..(PlainTop[m.id] - 1)
    BY <1>0, <2>1, ModRange
  <2>3. m.id \notin Burst /\ m.id # "rf_dsa"
    BY <1>1, NamesAssumption DEF Fixed
  <2>4. QED
    BY <1>1, <2>2, <2>3 DEF Stored, LevelValue
<1>2. CASE m.id \in Burst
  <2>1. MaxLen[m.id] \in Nat /\ MinLen \in Nat /\ MinLen <= MaxLen[m.id]
    BY <1>2, BurstAssumption
  <2>2. AsInt(m.data) \in Int
    BY <1>0, HalfAssumption DEF AsInt
  <2>3. clamp(AsInt(m.data), MinLen, MaxLen[m.id]) \in MinLen..MaxLen[m.id]
    BY <2>1, <2>2 DEF clamp
  <2>4. m.id \notin Plain /\ m.id # "rf_dsa"
    BY <1>2, NamesAssumption DEF Fixed
  <2>5. QED
    BY <1>2, <2>3, <2>4 DEF Stored, LevelValue
<1>3. CASE m.id = "rf_dsa"
  <2>1. m.id \notin Plain /\ m.id \notin Burst
    BY <1>3, NamesAssumption DEF Fixed
  <2>2. (4 * m.data) % DsaTop \in 0..(DsaTop - 1)
    BY <1>0 DEF DsaTop
  <2>3. QED
    BY <1>3, <2>1, <2>2 DEF Stored, LevelValue
<1>4. CASE m.id = "dma_trigsrc"
  <2>1. m.id \notin Plain /\ m.id \notin Burst
    BY <1>4, NamesAssumption DEF Fixed
  <2>2. m.id # "ignored" /\ m.id \notin Line
    BY <1>4 DEF Line
  <2>3. m.data \in {0, 1}
    BY <1>4, <2>2 DEF Valid
  <2>4. QED
    BY <1>4, <2>1, <2>3 DEF Stored, LevelValue
<1>5. QED
  BY <1>1, <1>2, <1>3, <1>4 DEF Level, Fixed

\* When the register can hold the value asked for, it is the one it gets.
LEMMA LevelResult ==
  ASSUME NEW m \in Message, m.id \in Level, Valid(m)
  PROVE  Stored(m) \in Store!Results(m)
<1>0. m.data \in Nat /\ Half \in Nat
  BY MessageFields, HalfAssumption
<1>1. m.id \notin Store!Line /\ Store!Value(m.id) = LevelValue(m.id)
  BY NamesApart DEF Store!Line, Line, Store!Value, LevelValue, Store!LevelValue,
                    Store!Plain, Plain, Store!Burst, Burst, Store!DsaTop, DsaTop
<1>2. Stored(m) \in LevelValue(m.id)
  BY StoredType
<1>3. ASSUME Store!Wanted(m) \in LevelValue(m.id)
      PROVE  Stored(m) = Store!Wanted(m)
  <2>1. CASE m.id \in Plain
    <3>1. m.id \notin Burst /\ m.id # "rf_dsa"
      BY <2>1, NamesAssumption DEF Fixed
    <3>2. m.data \in 0..(PlainTop[m.id] - 1) /\ PlainTop[m.id] \in Nat \ {0}
      BY <1>3, <2>1, <3>1, PlainAssumption DEF Store!Wanted, LevelValue
    <3>3. m.data % PlainTop[m.id] = m.data
      BY <3>2
    <3>4. QED
      BY <2>1, <3>1, <3>3 DEF Stored, Store!Wanted
  <2>2. CASE m.id \in Burst
    <3>1. m.id \notin Plain /\ m.id # "rf_dsa"
      BY <2>2, NamesAssumption DEF Fixed
    <3>2. m.data \in MinLen..MaxLen[m.id] /\ MaxLen[m.id] \in Nat /\ MinLen \in Nat
          /\ MaxLen[m.id] < Half
      BY <1>3, <2>2, <3>1, BurstAssumption DEF Store!Wanted, LevelValue
    <3>3. AsInt(m.data) = m.data
      BY <1>0, <3>2 DEF AsInt
    <3>4. clamp(m.data, MinLen, MaxLen[m.id]) = m.data
      BY <1>0, <3>2 DEF clamp
    <3>5. QED
      BY <2>2, <3>1, <3>3, <3>4 DEF Stored, Store!Wanted
  <2>3. CASE m.id = "rf_dsa"
    <3>1. m.id \notin Plain /\ m.id \notin Burst
      BY <2>3, NamesAssumption DEF Fixed
    <3>2. 4 * m.data \in 0..(DsaTop - 1)
      BY <1>3, <2>3, <3>1 DEF Store!Wanted, LevelValue
    <3>3. (4 * m.data) % DsaTop = 4 * m.data
      BY <1>0, <3>2 DEF DsaTop
    <3>4. QED
      BY <2>3, <3>1, <3>3 DEF Stored, Store!Wanted
  <2>4. CASE m.id = "dma_trigsrc"
    BY <2>4, NamesAssumption DEF Fixed, Stored, Store!Wanted
  <2>5. QED
    BY <2>1, <2>2, <2>3, <2>4 DEF Level, Fixed
<1>4. QED
  BY <1>1, <1>2, <1>3 DEF Store!Results

\* The taps get the value asked for, or some value of nine bits.
LEMMA TapResult ==
  ASSUME NEW m \in Message, m.id = "adc_idly"
  PROVE  m.data % TapTop \in Store!Results(m)
<1>1. m.data \in Nat /\ TapTop = 512 /\ Store!TapTop = 512
  BY MessageFields DEF TapTop, Store!TapTop
<1>2. m.data % TapTop \in 0..(TapTop - 1)
  BY <1>1
<1>3. m.data \in 0..(TapTop - 1) => m.data % TapTop = m.data
  BY <1>1
<1>4. m.id \notin Store!Line /\ Store!Wanted(m) = m.data /\ Store!Value(m.id) = 0..(TapTop - 1)
  BY <1>1 DEF Store!Line, Store!Wanted, Store!Value
<1>5. QED
  BY <1>2, <1>3, <1>4 DEF Store!Results

LEMMA LevelNat ==
  ASSUME NEW r \in Level, NEW v \in LevelValue(r)
  PROVE  Shown(r, v) \in Nat
<1>1. LevelValue(r) \subseteq Nat
  BY PlainAssumption, BurstAssumption DEF LevelValue, DsaTop
<1>2. v \in Nat
  BY <1>1
<1>3. v \div 4 \in Nat
  BY <1>2
<1>4. QED
  BY <1>2, <1>3 DEF Shown
-----------------------------------------------------------------------------
(* Type correctness *)

LEMMA InitType ==
  ASSUME Init
  PROVE  TypeOK
<1>1. /\ DOMAIN reg = Level
      /\ \A r \in Level : reg[r] \in LevelValue(r)
  <2>1. DOMAIN reg = Level
    BY DEF Init
  <2>2. ASSUME NEW r \in Level
        PROVE  reg[r] \in LevelValue(r)
    <3>1. CASE r \in Burst
      <4>1. r \notin Plain /\ r # "rf_dsa" /\ reg[r] = MinLen
        BY <3>1, NamesAssumption DEF Init, Fixed
      <4>2. MinLen \in MinLen..MaxLen[r]
        BY <3>1, BurstAssumption
      <4>3. QED
        BY <3>1, <4>1, <4>2 DEF LevelValue
    <3>2. CASE r \notin Burst
      <4>1. reg[r] = 0
        BY <3>2 DEF Init
      <4>2. r \in Plain => 0 \in 0..(PlainTop[r] - 1)
        BY PlainAssumption
      <4>3. QED
        BY <3>2, <4>1, <4>2 DEF LevelValue, DsaTop
    <3>3. QED
      BY <3>1, <3>2
  <2>3. QED
    BY <2>1, <2>2
<1>2. /\ strobe \in [{"dma_softtrig", "adc_fcommcm"} -> 0..2]
      /\ events \in [Line -> {0, 1}]
  BY DEF Init
<1>3. /\ pc \in [Client -> Step] /\ msg \in [Client -> Message \cup {NoMsg}]
      /\ served \in [Client -> BOOLEAN]
      /\ \A c \in Client : pc[c] = "idle" <=> msg[c] = NoMsg
  BY DEF Init, Step
<1>4. ioc_access \in {0, 1} /\ idlywval \in Tap /\ taps \in Tap /\ idlystr \in {0, 1}
  BY DEF Init, Tap, TapTop
<1>5. read \in Seq(Nat) /\ Len(read) <= Len(Report) /\ sent \in Seq(Nat)
  BY ReportAssumption DEF Init
<1>6. QED
  BY <1>1, <1>2, <1>3, <1>4, <1>5 DEF TypeOK

\* A thread's own step keeps the types of what it may change.
LEMMA HandleType ==
  ASSUME TypeOK, StepInv, NEW c \in Client, Handle(c)
  PROVE  TypeOK'
<1>0. /\ read' = read /\ sent' = sent
      /\ pc' \in [Client -> Step] /\ served' \in [Client -> BOOLEAN]
  BY DEF TypeOK, Handle, reg_settings, SetLevel, RaiseLine, ClearLine, SetTaps,
         LoadTaps, HoldTaps, Return, Goto, Serve, Step, gen_vars
<1>1. /\ msg' \in [Client -> Message \cup {NoMsg}]
      /\ \A d \in Client : pc'[d] = "idle" <=> msg'[d] = NoMsg
  <2>1. CASE Return(c)
    BY <2>1 DEF TypeOK, Return, Goto
  <2>2. CASE ~Return(c)
    <3>1. /\ msg' = msg /\ pc[c] # "idle"
          /\ \E s \in Step \ {"idle"} : pc' = [pc EXCEPT ![c] = s]
      BY <2>2 DEF Handle, reg_settings, SetLevel, RaiseLine, ClearLine, SetTaps,
                  LoadTaps, HoldTaps, Goto, Step
    <3>2. QED
      BY <3>1 DEF TypeOK
  <2>3. QED
    BY <2>1, <2>2
<1>2. DOMAIN reg' = Level /\ \A r \in Level : reg'[r] \in LevelValue(r)
  <2>1. CASE SetLevel(c)
    <3>1. msg[c] \in Message /\ Valid(msg[c]) /\ msg[c].id \in Level
      BY <2>1 DEF TypeOK, StepInv, SetLevel, Goto
    <3>2. Stored(msg[c]) \in LevelValue(msg[c].id)
      BY <3>1, StoredType
    <3>3. QED
      BY <2>1, <3>1, <3>2 DEF TypeOK, SetLevel
  <2>2. CASE ~SetLevel(c)
    <3>1. reg' = reg
      BY <2>2 DEF Handle, reg_settings, RaiseLine, ClearLine, SetTaps,
                  LoadTaps, HoldTaps, Return
    <3>2. QED
      BY <3>1 DEF TypeOK
  <2>3. QED
    BY <2>1, <2>2
<1>3. /\ ioc_access' \in {0, 1} /\ idlystr' \in {0, 1}
      /\ idlywval' \in Tap /\ taps' \in Tap
  <2>1. CASE SetTaps(c)
    <3>1. msg[c].data \in Nat
      BY <2>1, MessageFields DEF TypeOK, SetTaps, Goto
    <3>2. msg[c].data % TapTop \in Tap
      BY <3>1 DEF Tap, TapTop
    <3>3. QED
      BY <2>1, <3>2 DEF TypeOK, SetTaps
  <2>2. CASE ~SetTaps(c)
    BY <2>2 DEF TypeOK, Handle, reg_settings, SetLevel, RaiseLine, ClearLine,
                LoadTaps, HoldTaps, Return, tap_vars
  <2>3. QED
    BY <2>1, <2>2
<1>4. /\ strobe' \in [{"dma_softtrig", "adc_fcommcm"} -> 0..2]
      /\ events' \in [Line -> {0, 1}]
  <2>1. CASE RaiseLine(c)
    <3>1. Bit(msg[c].id) \in 0..2
      BY DEF Bit
    <3>2. strobe' = [strobe EXCEPT ![Wire(msg[c].id)] = Bit(msg[c].id)]
      BY <2>1 DEF RaiseLine
    <3>3. strobe' \in [{"dma_softtrig", "adc_fcommcm"} -> 0..2]
      BY <3>1, <3>2 DEF TypeOK
    <3>4. events' \in [Line -> {0, 1}]
      <4>1. events' = events \/ events' = [events EXCEPT ![msg[c].id] = 1 - @]
        BY <2>1 DEF RaiseLine
      <4>2. msg[c].id \in Line /\ events[msg[c].id] \in {0, 1}
        BY <2>1 DEF TypeOK, RaiseLine
      <4>3. 1 - events[msg[c].id] \in {0, 1}
        BY <4>2
      <4>4. QED
        BY <4>1, <4>3 DEF TypeOK
    <3>5. QED
      BY <3>3, <3>4
  <2>2. CASE ClearLine(c)
    <3>1. strobe' = [strobe EXCEPT ![Wire(msg[c].id)] = 0] /\ events' = events
      BY <2>2 DEF ClearLine
    <3>2. 0 \in 0..2
      OBVIOUS
    <3>3. strobe' \in [{"dma_softtrig", "adc_fcommcm"} -> 0..2]
      BY <3>1, <3>2 DEF TypeOK
    <3>4. QED
      BY <3>1, <3>3 DEF TypeOK
  <2>3. CASE ~RaiseLine(c) /\ ~ClearLine(c)
    BY <2>3 DEF TypeOK, Handle, reg_settings, SetLevel, SetTaps, LoadTaps,
                HoldTaps, Return, line_vars
  <2>4. QED
    BY <2>1, <2>2, <2>3
<1>5. QED
  BY <1>0, <1>1, <1>2, <1>3, <1>4 DEF TypeOK

LEMMA NextType ==
  ASSUME TypeOK, StepInv, [Next]_vars
  PROVE  TypeOK'
<1>1. ASSUME NEW c \in Client, Handle(c)
      PROVE  TypeOK'
  BY <1>1, HandleType
<1>2. ASSUME NEW c \in Client, NEW m \in Message, client_msg(c, m)
      PROVE  TypeOK'
  <2>1. Valid(m) \in BOOLEAN
    BY DEF Valid
  <2>2. served' \in [Client -> BOOLEAN] /\ pc' \in [Client -> Step]
    BY <1>2, <2>1 DEF TypeOK, client_msg, Goto, Step
  <2>3. /\ msg' \in [Client -> Message \cup {NoMsg}]
        /\ \A d \in Client : pc'[d] = "idle" <=> msg'[d] = NoMsg
    BY <1>2, NoMsgAssumption DEF TypeOK, client_msg, Goto
  <2>4. QED
    BY <1>2, <2>2, <2>3 DEF TypeOK, client_msg, line_vars, tap_vars, gen_vars
<1>3. CASE gendata_push
  <2>1. CASE ReadLevel
    <3>1. Report[Len(read) + 1] \in Level /\ Len(read) + 1 <= Len(Report)
      BY <2>1, ReportAssumption DEF TypeOK, ReadLevel
    <3>2. reg[Report[Len(read) + 1]] \in LevelValue(Report[Len(read) + 1])
      BY <3>1 DEF TypeOK
    <3>3. Shown(Report[Len(read) + 1], reg[Report[Len(read) + 1]]) \in Nat
      BY <3>1, <3>2, LevelNat
    <3>4. read' \in Seq(Nat) /\ Len(read') <= Len(Report)
      BY <2>1, <3>1, <3>3 DEF TypeOK, ReadLevel
    <3>5. QED
      BY <2>1, <3>4 DEF TypeOK, ReadLevel, thread_vars, line_vars, tap_vars
  <2>2. CASE SendRecord
    <3>1. read' \in Seq(Nat) /\ Len(read') <= Len(Report) /\ sent' \in Seq(Nat)
      BY <2>2, ReportAssumption DEF TypeOK, SendRecord
    <3>2. QED
      BY <2>2, <3>1 DEF TypeOK, SendRecord, thread_vars, line_vars, tap_vars
  <2>3. QED
    BY <1>3, <2>1, <2>2 DEF gendata_push
<1>4. CASE UNCHANGED vars
  BY <1>4 DEF TypeOK, vars, thread_vars, line_vars, tap_vars, gen_vars
<1>5. ASSUME NEW l \in Mmcm, ShiftMore(l)
      PROVE  TypeOK'
  <2>1. events[l] \in {0, 1} /\ events' = [events EXCEPT ![l] = 1 - @]
    BY <1>5 DEF TypeOK, ShiftMore, Line, Mmcm
  <2>2. 1 - events[l] \in {0, 1}
    BY <2>1
  <2>3. events' \in [Line -> {0, 1}]
    BY <2>1, <2>2 DEF TypeOK
  <2>4. QED
    BY <1>5, <2>3 DEF TypeOK, ShiftMore, thread_vars, tap_vars, gen_vars
<1>6. QED
  BY <1>1, <1>2, <1>3, <1>4, <1>5 DEF Next
-----------------------------------------------------------------------------
(* The inductive invariant *)

LEMMA InitInv ==
  ASSUME Init
  PROVE  IInv
<1>1. StepInv
  BY DEF Init, StepInv
<1>2. LedInv /\ LineInv
  BY DEF Init, LedInv, LineInv
<1>3. TapInv
  BY DEF Init, TapInv, Unloaded
<1>4. QED
  BY <1>1, <1>2, <1>3, InitType DEF IInv

LEMMA StepStep ==
  ASSUME TypeOK, StepInv, [Next]_vars
  PROVE  StepInv'
<1>1. ASSUME NEW c \in Client, Handle(c)
      PROVE  StepInv'
  <2>1. CASE reg_settings(c)
    BY <2>1 DEF TypeOK, StepInv, reg_settings, Goto
  <2>2. CASE SetLevel(c)
    BY <2>2 DEF TypeOK, StepInv, SetLevel, Goto, Serve
  <2>3. CASE RaiseLine(c)
    BY <2>3 DEF TypeOK, StepInv, RaiseLine, Goto, Serve
  <2>4. CASE ClearLine(c)
    BY <2>4 DEF TypeOK, StepInv, ClearLine, Goto
  <2>5. CASE SetTaps(c)
    BY <2>5 DEF TypeOK, StepInv, SetTaps, Goto, Serve
  <2>6. CASE LoadTaps(c)
    <3>1. c \in AtLoad /\ \A d \in AtLoad : pc[d] = "load"
      BY <2>6 DEF LoadTaps, Goto, AtLoad
    <3>2. QED
      BY <2>6, <3>1 DEF TypeOK, StepInv, LoadTaps, Goto, Serve
  <2>7. CASE HoldTaps(c)
    BY <2>7 DEF TypeOK, StepInv, HoldTaps, Goto
  <2>8. CASE Return(c)
    BY <2>8 DEF TypeOK, StepInv, Return, Goto
  <2>9. QED
    BY <1>1, <2>1, <2>2, <2>3, <2>4, <2>5, <2>6, <2>7, <2>8 DEF Handle
<1>2. ASSUME NEW c \in Client, NEW m \in Message, client_msg(c, m)
      PROVE  StepInv'
  BY <1>2 DEF TypeOK, StepInv, client_msg, Goto
<1>3. CASE gendata_push
  BY <1>3 DEF StepInv, gendata_push, ReadLevel, SendRecord, thread_vars
<1>4. CASE UNCHANGED vars
  BY <1>4 DEF StepInv, vars, thread_vars
<1>5. ASSUME NEW l \in Mmcm, ShiftMore(l)
      PROVE  StepInv'
  BY <1>5 DEF StepInv, ShiftMore, thread_vars
<1>6. QED
  BY <1>1, <1>2, <1>3, <1>4, <1>5 DEF Next

\* Who switches the LED on is in "blink", and switches it off on leaving.
LEMMA LedStep ==
  ASSUME TypeOK, LedInv, [Next]_vars
  PROVE  LedInv'
<1>1. ASSUME NEW c \in Client, Handle(c)
      PROVE  LedInv'
  <2>1. CASE reg_settings(c)
    BY <2>1 DEF LedInv, reg_settings
  <2>2. CASE ~reg_settings(c)
    <3>1. /\ ioc_access' = ioc_access /\ pc[c] # "blink"
          /\ \E s \in Step : pc' = [pc EXCEPT ![c] = s]
      BY <1>1, <2>2 DEF Handle, SetLevel, RaiseLine, ClearLine, SetTaps,
                        LoadTaps, HoldTaps, Return, Goto, Step
    <3>2. QED
      BY <3>1 DEF TypeOK, LedInv
  <2>3. QED
    BY <2>1, <2>2
<1>2. ASSUME NEW c \in Client, NEW m \in Message, client_msg(c, m)
      PROVE  LedInv'
  BY <1>2 DEF TypeOK, LedInv, client_msg, Goto
<1>3. CASE gendata_push
  BY <1>3 DEF LedInv, gendata_push, ReadLevel, SendRecord, thread_vars
<1>4. CASE UNCHANGED vars
  BY <1>4 DEF LedInv, vars, thread_vars
<1>5. ASSUME NEW l \in Mmcm, ShiftMore(l)
      PROVE  LedInv'
  BY <1>5 DEF LedInv, ShiftMore, thread_vars
<1>6. QED
  BY <1>1, <1>2, <1>3, <1>4, <1>5 DEF Next

\* A bit that is up was written by a client that has not cleared it yet: its
\* own clearing takes it down, whoever else has written the register since.
LEMMA LineStep ==
  ASSUME TypeOK, LineInv, [Next]_vars
  PROVE  LineInv'
<1>1. ASSUME NEW c \in Client, Handle(c)
      PROVE  LineInv'
  <2>1. CASE RaiseLine(c)
    <3>1. /\ strobe' = [strobe EXCEPT ![Wire(msg[c].id)] = Bit(msg[c].id)]
          /\ pc' = [pc EXCEPT ![c] = "clear"] /\ pc[c] = "set" /\ msg' = msg
      BY <2>1 DEF RaiseLine, Goto
    <3>2. ASSUME NEW w \in {"dma_softtrig", "adc_fcommcm"}, strobe'[w] # 0
          PROVE  \E d \in Client : Raises(d, w)'
      <4>1. CASE w = Wire(msg[c].id)
        <5>1. Raises(c, w)'
          BY <3>1, <4>1 DEF TypeOK, Raises
        <5>2. QED
          BY <5>1
      <4>2. CASE w # Wire(msg[c].id)
        <5>1. strobe'[w] = strobe[w]
          BY <3>1, <4>2 DEF TypeOK
        <5>2. PICK d \in Client : Raises(d, w)
          BY <3>2, <5>1 DEF LineInv
        <5>3. d # c
          BY <3>1, <5>2 DEF Raises
        <5>4. Raises(d, w)'
          BY <3>1, <5>1, <5>2, <5>3 DEF TypeOK, Raises
        <5>5. QED
          BY <5>4
      <4>3. QED
        BY <4>1, <4>2
    <3>3. QED
      BY <3>2 DEF LineInv
  <2>2. CASE ClearLine(c)
    <3>1. /\ strobe' = [strobe EXCEPT ![Wire(msg[c].id)] = 0]
          /\ pc' = [pc EXCEPT ![c] = "done"] /\ msg' = msg
      BY <2>2 DEF ClearLine, Goto
    <3>2. ASSUME NEW w \in {"dma_softtrig", "adc_fcommcm"}, strobe'[w] # 0
          PROVE  \E d \in Client : Raises(d, w)'
      <4>1. w # Wire(msg[c].id) /\ strobe'[w] = strobe[w]
        BY <3>1, <3>2 DEF TypeOK
      <4>2. PICK d \in Client : Raises(d, w)
        BY <3>2, <4>1 DEF LineInv
      <4>3. d # c
        BY <4>1, <4>2 DEF Raises
      <4>4. Raises(d, w)'
        BY <3>1, <4>1, <4>2, <4>3 DEF TypeOK, Raises
      <4>5. QED
        BY <4>4
    <3>3. QED
      BY <3>2 DEF LineInv
  <2>3. CASE ~RaiseLine(c) /\ ~ClearLine(c)
    <3>1. /\ strobe' = strobe /\ pc[c] # "clear"
          /\ \A d \in Client : pc[d] = "clear" => pc'[d] = "clear" /\ msg'[d] = msg[d]
      BY <1>1, <2>3 DEF TypeOK, Handle, reg_settings, SetLevel, SetTaps,
                        LoadTaps, HoldTaps, Return, Goto, line_vars
    <3>2. QED
      BY <3>1 DEF LineInv, Raises
  <2>4. QED
    BY <2>1, <2>2, <2>3
<1>2. ASSUME NEW c \in Client, NEW m \in Message, client_msg(c, m)
      PROVE  LineInv'
  BY <1>2 DEF TypeOK, LineInv, Raises, client_msg, Goto, line_vars
<1>3. CASE gendata_push
  BY <1>3 DEF LineInv, Raises, gendata_push, ReadLevel, SendRecord, thread_vars,
              line_vars
<1>4. CASE UNCHANGED vars
  BY <1>4 DEF LineInv, Raises, vars, thread_vars, line_vars
<1>5. ASSUME NEW l \in Mmcm, ShiftMore(l)
      PROVE  LineInv'
  BY <1>5 DEF LineInv, Raises, ShiftMore, thread_vars
<1>6. QED
  BY <1>1, <1>2, <1>3, <1>4, <1>5 DEF Next
\* While the strobe is up, every value goes to the taps when it is written;
\* while it is down, the last value written belongs to a thread that will
\* raise it.
LEMMA TapStep ==
  ASSUME TypeOK, StepInv, TapInv, [Next]_vars
  PROVE  TapInv'
<1>1. ASSUME NEW c \in Client, Handle(c)
      PROVE  TapInv'
  <2>1. CASE SetTaps(c)
    <3>1. /\ pc[c] = "set" /\ pc' = [pc EXCEPT ![c] = "load"] /\ msg' = msg
          /\ idlystr' = idlystr /\ idlywval' = msg[c].data % TapTop
          /\ taps' = IF idlystr = 1 THEN idlywval' ELSE taps
          /\ served' = [d \in Client |->
                          served[d] \/ d \in IF idlystr = 1 THEN {c} ELSE {}]
      BY <2>1 DEF SetTaps, Goto, Serve
    <3>2. CASE idlystr = 1
      <4>1. Unloaded = {} /\ \E d \in Client : pc[d] = "hold"
        BY <3>2 DEF TapInv
      <4>2. Unloaded' = {}
        BY <3>1, <3>2, <4>1 DEF TypeOK, Unloaded
      <4>3. \E d \in Client : pc'[d] = "hold"
        BY <3>1, <4>1 DEF TypeOK
      <4>4. QED
        BY <3>1, <3>2, <4>2, <4>3 DEF TapInv
    <3>3. CASE idlystr # 1
      <4>1. ~served[c]
        BY <3>1 DEF StepInv
      <4>2. c \in Unloaded'
        BY <3>1, <3>3, <4>1 DEF TypeOK, Unloaded
      <4>3. msg'[c].data % TapTop = idlywval'
        BY <3>1
      <4>4. QED
        BY <3>1, <3>3, <4>2, <4>3 DEF TapInv
    <3>4. QED
      BY <3>2, <3>3
  <2>2. CASE LoadTaps(c)
    <3>1. /\ taps' = idlywval' /\ pc' = [pc EXCEPT ![c] = "hold"]
          /\ \A d \in Client : pc[d] = "load" => served'[d]
      BY <2>2 DEF LoadTaps, Goto, Serve, AtLoad
    <3>2. Unloaded' = {}
      BY <3>1 DEF TypeOK, Unloaded
    <3>3. pc'[c] = "hold"
      BY <3>1 DEF TypeOK
    <3>4. QED
      BY <3>1, <3>2, <3>3 DEF TapInv
  <2>3. CASE HoldTaps(c)
    <3>1. /\ idlystr' = 0 /\ idlywval' = idlywval /\ taps' = taps
          /\ pc[c] = "hold" /\ pc' = [pc EXCEPT ![c] = "done"]
          /\ msg' = msg /\ served' = served
      BY <2>3 DEF HoldTaps, Goto
    <3>2. Unloaded' = Unloaded
      BY <3>1 DEF TypeOK, Unloaded
    <3>3. QED
      BY <3>1, <3>2 DEF TapInv
  <2>4. CASE ~SetTaps(c) /\ ~LoadTaps(c) /\ ~HoldTaps(c)
    <3>1. /\ tap_vars' = tap_vars /\ pc[c] \notin {"load", "hold"}
          /\ pc'[c] \notin {"load", "hold"}
          /\ \A d \in Client \ {c} : /\ pc'[d] = pc[d] /\ msg'[d] = msg[d]
                                     /\ served'[d] = served[d]
      BY <1>1, <2>4 DEF TypeOK, Handle, reg_settings, SetLevel, RaiseLine,
                        ClearLine, Return, Goto, Serve
    <3>2. Unloaded' = Unloaded
      BY <3>1 DEF Unloaded
    <3>3. \A d \in Unloaded : msg'[d] = msg[d]
      BY <3>1 DEF Unloaded
    <3>4. (\E d \in Client : pc[d] = "hold") => \E d \in Client : pc'[d] = "hold"
      BY <3>1
    <3>5. QED
      BY <3>1, <3>2, <3>3, <3>4 DEF TapInv, tap_vars
  <2>5. QED
    BY <2>1, <2>2, <2>3, <2>4
<1>2. ASSUME NEW c \in Client, NEW m \in Message, client_msg(c, m)
      PROVE  TapInv'
  <2>1. /\ tap_vars' = tap_vars /\ pc[c] = "idle" /\ pc'[c] = "blink"
        /\ \A d \in Client \ {c} : /\ pc'[d] = pc[d] /\ msg'[d] = msg[d]
                                   /\ served'[d] = served[d]
    BY <1>2 DEF TypeOK, client_msg, Goto
  <2>2. Unloaded' = Unloaded
    BY <2>1 DEF Unloaded
  <2>3. \A d \in Unloaded : msg'[d] = msg[d]
    BY <2>1 DEF Unloaded
  <2>4. (\E d \in Client : pc[d] = "hold") => \E d \in Client : pc'[d] = "hold"
    BY <2>1
  <2>5. QED
    BY <2>1, <2>2, <2>3, <2>4 DEF TapInv, tap_vars
<1>3. CASE gendata_push
  BY <1>3 DEF TapInv, Unloaded, gendata_push, ReadLevel, SendRecord, thread_vars,
              tap_vars
<1>4. CASE UNCHANGED vars
  BY <1>4 DEF TapInv, Unloaded, vars, thread_vars, tap_vars
<1>5. ASSUME NEW l \in Mmcm, ShiftMore(l)
      PROVE  TapInv'
  BY <1>5 DEF TapInv, Unloaded, ShiftMore, thread_vars, tap_vars
<1>6. QED
  BY <1>1, <1>2, <1>3, <1>4, <1>5 DEF Next

LEMMA InvStep ==
  ASSUME IInv, [Next]_vars
  PROVE  IInv'
BY NextType, StepStep, LedStep, LineStep, TapStep DEF IInv

\* IInv is inductive.
LEMMA Inductive == SafetySpec => []IInv
<1>1. QED
  BY InitInv, InvStep, PTL DEF SafetySpec
-----------------------------------------------------------------------------
(* Theorems *)

\* Every register keeps to its range: whatever 32-bit word a message brings,
\* a burst length stays within its limits, the trigger source is 0 or 1 and
\* the attenuator's register has eight bits (control.c).
THEOREM TypeCorrect == SafetySpec => []TypeOK
<1>1. IInv => TypeOK
  BY DEF IInv
<1>2. QED
  BY <1>1, Inductive, PTL

\* With every client's message through, the LED and all strobes are down and
\* the taps hold what was last written to adc_idlywval, for any number of
\* clients and any interleaving of their register accesses (control.c).
THEOREM StrobesAtRest == SafetySpec => []StrobesRest
<1>1. ASSUME IInv
      PROVE  StrobesRest
  <2>1. SUFFICES ASSUME \A c \in Client : pc[c] = "idle"
                 PROVE  /\ ioc_access = 0 /\ idlystr = 0
                        /\ \A w \in DOMAIN strobe : strobe[w] = 0
                        /\ taps = idlywval
    BY DEF StrobesRest
  <2>2. ioc_access = 0
    BY <1>1, <2>1 DEF IInv, TypeOK, LedInv
  <2>3. idlystr = 0 /\ taps = idlywval
    BY <1>1, <2>1 DEF IInv, TypeOK, TapInv, Unloaded
  <2>4. \A w \in DOMAIN strobe : strobe[w] = 0
    BY <1>1, <2>1 DEF IInv, TypeOK, LineInv, Raises
  <2>5. QED
    BY <2>2, <2>3, <2>4
<1>2. QED
  BY <1>1, Inductive, PTL
-----------------------------------------------------------------------------
(* The store is implemented *)

\* The hardware as the store sees it.
Hardware == [p \in Level \cup Line \cup {"adc_idly"} |->
               IF p \in Level THEN reg[p]
               ELSE IF p \in Line THEN events[p] ELSE taps]

LEMMA StoreStart ==
  ASSUME Init
  PROVE  Store!StoreInit
<1>1. \A r \in Level : Hardware[r] = reg[r]
  BY DEF Hardware
<1>2. \A l \in Line : Hardware[l] = events[l]
  BY NamesApart DEF Hardware
<1>3. Hardware["adc_idly"] = taps
  BY NamesApart DEF Hardware
<1>4. \A r \in Level : reg[r] \in Store!LevelValue(r)
  BY InitType DEF TypeOK, LevelValue, Store!LevelValue, Store!Plain, Plain,
                  Store!Burst, Burst, Store!DsaTop, DsaTop
<1>5. (\A l \in Line : events[l] = 0) /\ taps \in 0..(Store!TapTop - 1)
  BY DEF Init, Store!TapTop
<1>6. /\ \A r \in Level : Hardware[r] \in Store!LevelValue(r)
      /\ \A l \in Line : Hardware[l] = 0
      /\ Hardware["adc_idly"] \in 0..(Store!TapTop - 1)
  BY <1>1, <1>2, <1>3, <1>4, <1>5
<1>7. msg = [c \in Client |-> NoMsg] /\ served = [c \in Client |-> FALSE]
  BY DEF Init
<1>8. Store!Level = Level /\ Store!Line = Line
  BY DEF Level, Line, Fixed, Plain, Burst, Store!Level, Store!Line, Store!Fixed,
         Store!Plain, Store!Burst
<1>9. QED
  BY <1>6, <1>7, <1>8 DEF Store!StoreInit, Hardware

\* A step that leaves hardware, messages and history alone is no step of the
\* store.
LEMMA Stutter ==
  ASSUME reg' = reg, events' = events, taps' = taps, msg' = msg, served' = served
  PROVE  UNCHANGED Store!vars
BY DEF Store!vars

\* A message is carried out: one place of the hardware gets its value, and
\* those of D are overtaken by it.
LEMMA CarriedOut ==
  ASSUME TypeOK, NEW c \in Client, msg[c] # NoMsg, ~served[c], msg' = msg,
         msg[c].id \in Level \cup Line \cup {"adc_idly"},
         NEW v, v \in Store!Results(msg[c]),
         Hardware' = [Hardware EXCEPT ![msg[c].id] = v],
         NEW D \in SUBSET Client,
         \A d \in D : msg[d] # NoMsg /\ msg[d].id = msg[c].id,
         served' = [d \in Client |-> served[d] \/ d = c \/ d \in D]
  PROVE  Store!CarryOut(c)
<1>1. D \in SUBSET {d \in Client : msg[d] # NoMsg /\ msg[d].id = msg[c].id}
  OBVIOUS
<1>2. Hardware'[msg[c].id] = v
  BY DEF Hardware
<1>3. QED
  BY <1>1, <1>2 DEF Store!CarryOut, Hardware

LEMMA LevelCarried ==
  ASSUME IInv, NEW c \in Client, SetLevel(c)
  PROVE  Store!CarryOut(c)
<1> DEFINE m == msg[c]
<1>1. /\ pc[c] = "set" /\ m.id \in Level /\ msg' = msg
      /\ reg' = [reg EXCEPT ![m.id] = Stored(m)]
      /\ events' = events /\ taps' = taps
      /\ served' = [d \in Client |-> served[d] \/ d \in {c}]
  BY DEF SetLevel, Goto, Serve, line_vars, tap_vars
<1>2. m # NoMsg /\ m \in Message /\ ~served[c]
  BY <1>1 DEF IInv, TypeOK, StepInv
<1>3. Stored(m) \in Store!Results(m)
  BY <1>1, <1>2, LevelResult DEF IInv, StepInv
<1>4. Hardware' = [Hardware EXCEPT ![m.id] = Stored(m)]
  BY <1>1 DEF Hardware, IInv, TypeOK
<1>5. served' = [d \in Client |-> served[d] \/ d = c \/ d \in {}]
  BY <1>1
<1>6. QED
  BY <1>1, <1>2, <1>3, <1>4, <1>5, CarriedOut DEF IInv

\* A rise is one event; a bit that is up already belongs to another client's
\* message about the same line, whose event is shared.
LEMMA LineCarried ==
  ASSUME IInv, NEW c \in Client, RaiseLine(c)
  PROVE  Store!CarryOut(c) \/ Store!Share(c)
<1> DEFINE m == msg[c]
<1>1. /\ pc[c] = "set" /\ m.id \in Line /\ msg' = msg
      /\ events' = IF strobe[Wire(m.id)] = Bit(m.id) THEN events
                   ELSE [events EXCEPT ![m.id] = 1 - @]
      /\ reg' = reg /\ taps' = taps
      /\ served' = [d \in Client |-> served[d] \/ d \in {c}]
  BY DEF RaiseLine, Goto, Serve, tap_vars
<1>2. m # NoMsg /\ m \in Message /\ ~served[c]
  BY <1>1 DEF IInv, TypeOK, StepInv
<1>3. CASE strobe[Wire(m.id)] # Bit(m.id)
  <2>1. m.id \notin Level /\ m.id # "adc_idly"
    BY <1>1, NamesApart
  <2>2. 1 - events[m.id] \in Store!Results(m)
    BY <1>1, <2>1 DEF Store!Results, Store!Line, Line, Hardware
  <2>3. Hardware' = [Hardware EXCEPT ![m.id] = 1 - events[m.id]]
    BY <1>1, <1>3, <2>1 DEF Hardware, IInv, TypeOK
  <2>4. served' = [d \in Client |-> served[d] \/ d = c \/ d \in {}]
    BY <1>1
  <2>5. QED
    BY <1>1, <1>2, <2>2, <2>3, <2>4, CarriedOut DEF IInv
<1>4. CASE strobe[Wire(m.id)] = Bit(m.id)
  <2>1. Wire(m.id) \in {"dma_softtrig", "adc_fcommcm"} /\ Bit(m.id) # 0
    BY DEF Wire, Bit
  <2>2. PICK d \in Client : Raises(d, Wire(m.id))
    BY <1>4, <2>1 DEF IInv, LineInv
  <2>3. msg[d].id \in Line /\ served[d] /\ d # c /\ msg[d] # NoMsg
    BY <1>1, <2>2 DEF Raises, IInv, TypeOK, StepInv
  <2>4. msg[d].id = m.id
    BY <1>1, <1>4, <2>2, <2>3 DEF Raises, Wire, Bit, Line
  <2>5. served' = [served EXCEPT ![c] = TRUE]
    BY <1>1 DEF IInv, TypeOK
  <2>6. m.id \in Store!Line
    BY <1>1 DEF Line, Store!Line
  <2>7. QED
    BY <1>1, <1>2, <1>4, <2>3, <2>4, <2>5, <2>6 DEF Store!Share
<1>5. QED
  BY <1>3, <1>4

\* With the strobe up, the value reaches the taps as it is written.
LEMMA ValueCarried ==
  ASSUME IInv, NEW c \in Client, SetTaps(c)
  PROVE  Store!CarryOut(c) \/ UNCHANGED Store!vars
<1> DEFINE m == msg[c]
<1>1. /\ pc[c] = "set" /\ m.id = "adc_idly" /\ msg' = msg
      /\ taps' = IF idlystr = 1 THEN m.data % TapTop ELSE taps
      /\ reg' = reg /\ events' = events
      /\ served' = [d \in Client |-> served[d] \/ d \in IF idlystr = 1 THEN {c} ELSE {}]
  BY DEF SetTaps, Goto, Serve, line_vars
<1>2. m # NoMsg /\ ~served[c] /\ m \in Message
  BY <1>1 DEF IInv, TypeOK, StepInv
<1>3. CASE idlystr = 1
  <2>1. m.data % TapTop \in Store!Results(m)
    BY <1>1, <1>2, TapResult
  <2>2. Hardware' = [Hardware EXCEPT ![m.id] = m.data % TapTop]
    BY <1>1, <1>3, NamesApart DEF Hardware
  <2>3. served' = [d \in Client |-> served[d] \/ d = c \/ d \in {}]
    BY <1>1, <1>3
  <2>4. QED
    BY <1>1, <1>2, <2>1, <2>2, <2>3, CarriedOut DEF IInv
<1>4. CASE idlystr # 1
  <2>1. served' = served
    BY <1>1, <1>4 DEF IInv, TypeOK
  <2>2. QED
    BY <1>1, <1>4, <2>1, Stutter
<1>5. QED
  BY <1>3, <1>4

\* The strobe carries out the value written last, and overtakes the others
\* that wait for it; when none waits it changes nothing.
LEMMA TapsCarried ==
  ASSUME IInv, NEW c \in Client, LoadTaps(c)
  PROVE  (\E d \in Client : Store!CarryOut(d)) \/ UNCHANGED Store!vars
<1>1. /\ taps' = idlywval /\ msg' = msg /\ reg' = reg /\ events' = events
      /\ served' = [d \in Client |-> served[d] \/ d \in AtLoad]
  BY DEF LoadTaps, Serve, line_vars
<1>2. CASE Unloaded = {}
  <2>1. \A d \in AtLoad : served[d]
    BY <1>2 DEF AtLoad, Unloaded
  <2>2. served' = served
    BY <1>1, <2>1 DEF IInv, TypeOK
  <2>3. taps' = taps
    BY <1>1, <1>2 DEF IInv, TapInv
  <2>4. QED
    BY <1>1, <2>2, <2>3, Stutter
<1>3. CASE Unloaded # {}
  <2>1. PICK e \in Unloaded : msg[e].data % TapTop = idlywval
    BY <1>3 DEF IInv, TapInv
  <2>2. e \in AtLoad /\ e \in Client /\ ~served[e]
    BY <2>1 DEF Unloaded, AtLoad
  <2>3. \A d \in AtLoad : msg[d] # NoMsg /\ msg[d].id = "adc_idly"
    BY DEF AtLoad, IInv, TypeOK, StepInv
  <2>4. idlywval \in Store!Results(msg[e])
    BY <2>1, <2>2, <2>3, TapResult DEF IInv, TypeOK
  <2>5. Hardware' = [Hardware EXCEPT ![msg[e].id] = idlywval]
    BY <1>1, <2>2, <2>3, NamesApart DEF Hardware
  <2>6. served' = [d \in Client |-> served[d] \/ d = e \/ d \in AtLoad]
    BY <1>1, <2>2
  <2>7. AtLoad \in SUBSET Client
    BY DEF AtLoad
  <2>8. Store!CarryOut(e)
    BY <1>1, <2>2, <2>3, <2>4, <2>5, <2>6, <2>7, CarriedOut DEF IInv
  <2>9. QED
    BY <2>2, <2>8
<1>4. QED
  BY <1>2, <1>3

\* A clock manager shifts further only while a thread keeps its bit up, which
\* has not ended its message about it yet.
LEMMA ShiftCarried ==
  ASSUME IInv, NEW l \in Mmcm, ShiftMore(l)
  PROVE  \E c \in Client : Store!Again(c)
<1>1. /\ strobe[Wire(l)] = Bit(l) /\ events' = [events EXCEPT ![l] = 1 - @]
      /\ reg' = reg /\ taps' = taps /\ msg' = msg /\ served' = served
  BY DEF ShiftMore, thread_vars, tap_vars
<1>2. Wire(l) = "adc_fcommcm" /\ Bit(l) # 0 /\ l \in Line
  BY DEF Wire, Bit, Mmcm, Line
<1>3. PICK c \in Client : Raises(c, Wire(l))
  BY <1>1, <1>2 DEF IInv, LineInv
<1>4. msg[c].id \in Line /\ served[c] /\ msg[c] # NoMsg
  BY <1>3 DEF Raises, IInv, TypeOK, StepInv
<1>5. msg[c].id = l
  BY <1>1, <1>3, <1>4 DEF Raises, Wire, Bit, Line, Mmcm
<1>6. l \notin Level /\ l # "adc_idly"
  BY <1>2, NamesApart
<1>7. Hardware' = [Hardware EXCEPT ![l] = 1 - @]
  BY <1>1, <1>2, <1>6 DEF Hardware, IInv, TypeOK
<1>8. l \in Store!Mmcm
  BY DEF Store!Mmcm, Mmcm
<1>9. Store!Again(c)
  BY <1>1, <1>4, <1>5, <1>7, <1>8 DEF Store!Again, Hardware
<1>10. QED
  BY <1>9

LEMMA StoreStep ==
  ASSUME IInv, [Next]_vars
  PROVE  [Store!StoreNext]_(Store!vars)
<1>1. ASSUME NEW c \in Client, Handle(c)
      PROVE  Store!StoreNext \/ UNCHANGED Store!vars
  <2>1. CASE reg_settings(c) \/ ClearLine(c) \/ HoldTaps(c)
    BY <2>1, Stutter DEF reg_settings, ClearLine, HoldTaps, line_vars, tap_vars
  <2>2. CASE SetLevel(c)
    BY <2>2, LevelCarried DEF Store!StoreNext
  <2>3. CASE RaiseLine(c)
    BY <2>3, LineCarried DEF Store!StoreNext
  <2>4. CASE SetTaps(c)
    BY <2>4, ValueCarried DEF Store!StoreNext
  <2>5. CASE LoadTaps(c)
    BY <2>5, TapsCarried DEF Store!StoreNext
  <2>6. CASE Return(c)
    <3>1. served[c] /\ msg[c] # NoMsg
      BY <2>6 DEF Return, Goto, IInv, TypeOK, StepInv
    <3>2. Hardware' = Hardware
      BY <2>6 DEF Return, line_vars, tap_vars, Hardware
    <3>3. Store!End(c)
      BY <2>6, <3>1, <3>2 DEF Return, Store!End, Hardware
    <3>4. QED
      BY <3>3 DEF Store!StoreNext
  <2>7. QED
    BY <1>1, <2>1, <2>2, <2>3, <2>4, <2>5, <2>6 DEF Handle
<1>2. ASSUME NEW c \in Client, NEW m \in Message, client_msg(c, m)
      PROVE  Store!StoreNext
  <2>1. msg[c] = NoMsg
    BY <1>2 DEF client_msg, Goto, IInv, TypeOK
  <2>2. Valid(m) <=> Store!Valid(m)
    BY DEF Valid, Store!Valid, Line, Store!Line
  <2>3. served' = [served EXCEPT ![c] = ~Store!Valid(m)]
    BY <1>2, <2>2 DEF client_msg
  <2>4. Hardware' = Hardware
    BY <1>2 DEF client_msg, line_vars, tap_vars, Hardware
  <2>5. Store!Begin(c, m)
    BY <1>2, <2>1, <2>3, <2>4 DEF client_msg, Store!Begin, Hardware
  <2>6. QED
    BY <2>5 DEF Store!StoreNext
<1>3. CASE gendata_push
  BY <1>3, Stutter DEF gendata_push, ReadLevel, SendRecord, thread_vars,
                      line_vars, tap_vars
<1>4. CASE UNCHANGED vars
  BY <1>4, Stutter DEF vars, thread_vars, line_vars, tap_vars
<1>5. ASSUME NEW l \in Mmcm, ShiftMore(l)
      PROVE  Store!StoreNext
  BY <1>5, ShiftCarried DEF Store!StoreNext
<1>6. QED
  BY <1>1, <1>2, <1>3, <1>4, <1>5 DEF Next

\* Each settings message is carried out between its receipt and its end, with
\* the value asked for where the hardware can hold it, unless another client's
\* about the same taps overtakes it or shares its line's event; a soft trigger is
\* carried out once, and a phase moves only while a message about it is under
\* way: what the clients' unguarded register accesses (control.c:186-391) do
\* together is what the store allows.
THEOREM SettingsImplementStore == SafetySpec => ImplementsStore
<1>1. Init => Store!StoreInit
  BY StoreStart
<1>2. IInv /\ [Next]_vars => [Store!StoreNext]_(Store!vars)
  BY StoreStep
<1>3. QED
  BY <1>1, <1>2, Inductive, PTL DEF SafetySpec, ImplementsStore, Store!StoreSpec
=============================================================================
