------------------------------ MODULE Settings ------------------------------
(***************************************************************************)
(* The clients' threads carry out settings messages (main.c, client_msg;   *)
(* control.c, reg_settings) while the general data thread reports the      *)
(* registers (gendata.c).  All have the same priority and share the        *)
(* registers without a lock, so that their accesses interleave anywhere.   *)
(* One action is one register access, with what the logic does at once:    *)
(* a line's event is its bit's rise, and the delay taps follow             *)
(* adc_idlywval for as long as adc_idlystr is 0xFFFF.  A clock manager     *)
(* samples its bit as a level and goes on shifting until it falls.         *)
(***************************************************************************)
EXTENDS SettingsMsg, Sequences

CONSTANTS
  Client,             \* the connected clients
  NoMsg,              \* no message
  Report              \* the reported levels, in the order they are read

ASSUME NoMsgAssumption == NoMsg \notin Message
ASSUME ReportAssumption == Report \in Seq(Level)

VARIABLES
  pc, msg,            \* per client thread: its next access, its message
  reg,                \* the levels' registers
  ioc_access,         \* IOC_ACCESS, the front panel LED
  strobe,             \* DMA_SOFTTRIG and ADC_FCOMMCM
  idlywval, idlystr,  \* ADC_IDLYWVAL; ADC_IDLYSTR, all bits alike
  taps, events,       \* the delay taps; events per line, modulo 2
  read, sent,         \* gendata: the record being filled, the one last sent
  served              \* history: the message has reached the hardware

thread_vars == <<pc, msg>>
tap_vars    == <<idlywval, idlystr, taps>>
line_vars   == <<strobe, events>>
gen_vars    == <<read, sent>>
vars == <<thread_vars, reg, ioc_access, line_vars, tap_vars, gen_vars, served>>

Step == {"idle", "blink", "set", "clear", "load", "hold", "done"}
Tap  == 0..(TapTop - 1)

\* The register of a line, and the line's bit in it.
Wire(l) == IF l = "dma_softtrig" THEN "dma_softtrig" ELSE "adc_fcommcm"
Bit(l)  == IF l = "adc1_mmcm" THEN 2 ELSE 1

\* What gendata reports of a register: the attenuation in dB.
Shown(r, v) == IF r = "rf_dsa" THEN v \div 4 ELSE v

TypeOK ==
  /\ pc \in [Client -> Step]
  /\ msg \in [Client -> Message \cup {NoMsg}]
  /\ \A c \in Client : pc[c] = "idle" <=> msg[c] = NoMsg
  /\ DOMAIN reg = Level /\ \A r \in Level : reg[r] \in LevelValue(r)
  /\ ioc_access \in {0, 1}
  /\ strobe \in [{"dma_softtrig", "adc_fcommcm"} -> 0..2]
  /\ idlywval \in Tap /\ taps \in Tap /\ idlystr \in {0, 1}
  /\ events \in [Line -> {0, 1}]
  /\ read \in Seq(Nat) /\ Len(read) <= Len(Report) /\ sent \in Seq(Nat)
  /\ served \in [Client -> BOOLEAN]

Goto(c, from, to) == pc[c] = from /\ pc' = [pc EXCEPT ![c] = to]

Serve(S) == served' = [d \in Client |-> served[d] \/ d \in S]

-----------------------------------------------------------------------------
(* client_msg, in each client's thread *)

\* The message is counted and the LED switched on.
client_msg(c, m) ==
  /\ Goto(c, "idle", "blink")
  /\ msg' = [msg EXCEPT ![c] = m]
  /\ ioc_access' = 1
  /\ served' = [served EXCEPT ![c] = ~Valid(m)]
  /\ UNCHANGED <<reg, line_vars, tap_vars, gen_vars>>

\* The LED is switched off and reg_settings called.
reg_settings(c) ==
  /\ Goto(c, "blink", IF Valid(msg[c]) THEN "set" ELSE "done")
  /\ ioc_access' = 0
  /\ UNCHANGED <<msg, reg, line_vars, tap_vars, gen_vars, served>>

SetLevel(c) ==
  /\ Goto(c, "set", "done")
  /\ msg[c].id \in Level
  /\ reg' = [reg EXCEPT ![msg[c].id] = Stored(msg[c])]
  /\ Serve({c})
  /\ UNCHANGED <<msg, ioc_access, line_vars, tap_vars, gen_vars>>

\* A line's bit is written alone: the other bit of the register falls.  A rise
\* is an event; there is none when the bit is up already.
RaiseLine(c) ==
  LET l == msg[c].id IN
  /\ Goto(c, "set", "clear")
  /\ l \in Line
  /\ strobe' = [strobe EXCEPT ![Wire(l)] = Bit(l)]
  /\ events' = IF strobe[Wire(l)] = Bit(l) THEN events
               ELSE [events EXCEPT ![l] = 1 - @]
  /\ Serve({c})
  /\ UNCHANGED <<msg, reg, ioc_access, tap_vars, gen_vars>>

\* Faulty variant: the bit is not taken back.
LeaveLine(c) ==
  /\ Goto(c, "clear", "done")
  /\ UNCHANGED <<msg, reg, ioc_access, line_vars, tap_vars, gen_vars, served>>

ClearLine(c) ==
  /\ Goto(c, "clear", "done")
  /\ strobe' = [strobe EXCEPT ![Wire(msg[c].id)] = 0]
  /\ UNCHANGED <<msg, reg, ioc_access, events, tap_vars, gen_vars, served>>

\* The bit drives the clock manager's PSEN as it is: one that is still up when a
\* shift is over starts the next one, however late the thread clears it.
ShiftMore(l) ==
  /\ strobe[Wire(l)] = Bit(l)
  /\ events' = [events EXCEPT ![l] = 1 - @]
  /\ UNCHANGED <<thread_vars, reg, ioc_access, strobe, tap_vars, gen_vars, served>>

AtLoad == {d \in Client : pc[d] = "load"}

SetTaps(c) ==
  /\ Goto(c, "set", "load")
  /\ msg[c].id = "adc_idly"
  /\ idlywval' = msg[c].data % TapTop
  /\ taps' = IF idlystr = 1 THEN idlywval' ELSE taps
  /\ Serve(IF idlystr = 1 THEN {c} ELSE {})
  /\ UNCHANGED <<msg, reg, ioc_access, line_vars, idlystr, gen_vars>>

\* Whoever has written the value, it is loaded.
LoadTaps(c) ==
  /\ Goto(c, "load", "hold")
  /\ idlystr' = 1
  /\ taps' = idlywval
  /\ Serve(AtLoad)
  /\ UNCHANGED <<msg, reg, ioc_access, line_vars, idlywval, gen_vars>>

\* Faulty variant: the strobe stays up.
KeepStrobe(c) ==
  /\ Goto(c, "hold", "done")
  /\ UNCHANGED <<msg, reg, ioc_access, line_vars, tap_vars, gen_vars, served>>

HoldTaps(c) ==
  /\ Goto(c, "hold", "done")
  /\ idlystr' = 0
  /\ UNCHANGED <<msg, reg, ioc_access, line_vars, idlywval, taps, gen_vars, served>>

Return(c) ==
  /\ Goto(c, "done", "idle")
  /\ msg' = [msg EXCEPT ![c] = NoMsg]
  /\ served' = [served EXCEPT ![c] = FALSE]
  /\ UNCHANGED <<reg, ioc_access, line_vars, tap_vars, gen_vars>>

Handle(c) ==
  \/ reg_settings(c) \/ SetLevel(c) \/ RaiseLine(c) \/ ClearLine(c)
  \/ SetTaps(c) \/ LoadTaps(c) \/ HoldTaps(c) \/ Return(c)

-----------------------------------------------------------------------------
(* gendata_push *)

\* Faulty variant: the attenuator's register is reported as it is.
ReadRaw ==
  /\ Len(read) < Len(Report)
  /\ read' = Append(read, reg[Report[Len(read) + 1]])
  /\ UNCHANGED <<thread_vars, reg, ioc_access, line_vars, tap_vars, sent, served>>

ReadLevel ==
  LET r == Report[Len(read) + 1] IN
  /\ Len(read) < Len(Report)
  /\ read' = Append(read, Shown(r, reg[r]))
  /\ UNCHANGED <<thread_vars, reg, ioc_access, line_vars, tap_vars, sent, served>>

SendRecord ==
  /\ Len(read) = Len(Report)
  /\ sent' = read /\ read' = <<>>
  /\ UNCHANGED <<thread_vars, reg, ioc_access, line_vars, tap_vars, served>>

gendata_push == ReadLevel \/ SendRecord

-----------------------------------------------------------------------------
\* main() has set the levels, the bursts to fixed lengths for which MinLen
\* stands, and loaded the taps (ltc2195_init).
Init ==
  /\ pc = [c \in Client |-> "idle"]
  /\ msg = [c \in Client |-> NoMsg]
  /\ reg = [r \in Level |-> IF r \in Burst THEN MinLen ELSE 0]
  /\ ioc_access = 0
  /\ strobe = [w \in {"dma_softtrig", "adc_fcommcm"} |-> 0]
  /\ idlywval = 300 /\ taps = 300 /\ idlystr = 0
  /\ events = [l \in Line |-> 0]
  /\ read = <<>> /\ sent = <<>>
  /\ served = [c \in Client |-> FALSE]

Next ==
  \/ \E c \in Client : Handle(c) \/ \E m \in Message : client_msg(c, m)
  \/ gendata_push
  \/ \E l \in Mmcm : ShiftMore(l)

SafetySpec == Init /\ [][Next]_vars

\* Every task gets its time slices.
Fairness ==
  /\ \A c \in Client : WF_vars(Handle(c))
  /\ WF_vars(gendata_push)

Spec == SafetySpec /\ Fairness

-----------------------------------------------------------------------------
(* Properties *)

\* However the threads' accesses fall, when all messages are through the LED
\* and the strobes are down, and the taps hold the value last written to
\* adc_idlywval, which is the one a client reads back as its own.
StrobesRest ==
  (\A c \in Client : pc[c] = "idle") =>
     /\ ioc_access = 0 /\ idlystr = 0
     /\ \A w \in DOMAIN strobe : strobe[w] = 0
     /\ taps = idlywval

\* The hardware as the clients see it.
Store == INSTANCE SettingsStore WITH
  store <- [p \in Level \cup Line \cup {"adc_idly"} |->
              IF p \in Level THEN reg[p]
              ELSE IF p \in Line THEN events[p] ELSE taps],
  req <- msg

\* No interleaving loses a message, triggers twice, shifts a phase while no
\* message about it is under way, or leaves a value nobody asked for: the
\* accesses implement the store, where each message is carried out at once.
ImplementsStore == Store!StoreSpec

\* What a client set and nobody changes any more is what gendata reports for
\* good, in the client's own units (an attenuation modulo 64 dB).
InUnits(m) == IF m.id = "rf_dsa" THEN m.data % 64 ELSE Stored(m)

SettingsReported ==
  \A i \in 1..Len(Report) : \A m \in {n \in Message : n.id = Report[i]} :
     <>[](reg[m.id] = Stored(m)) =>
        <>[](Len(sent) = Len(Report) /\ sent[i] = InUnits(m))
=============================================================================
