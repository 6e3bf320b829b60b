------------------------------- MODULE I2cMux -------------------------------
(***************************************************************************)
(* The I2C bus of the board: i2c_devices.c, the board status thread        *)
(* (brdstats.c), the console's EEPROM commands (console.c) and the part of *)
(* main() that uses the bus.                                               *)
(*                                                                         *)
(* Two one-byte switches (0x70, 0x71) put groups of devices on the bus;    *)
(* the same address is used behind several of their outputs.  Nothing      *)
(* locks the pair "set the switch, use the address".  The status thread    *)
(* has a higher priority than the console (console.c:441): it pre-empts a  *)
(* console command between two transfers, and the console runs only while  *)
(* the status thread waits.  main() uses the bus before there are threads. *)
(*                                                                         *)
(* A transfer is one step.  The exception is the 128-byte EEPROM dump: a   *)
(* polled transfer longer than the controller's FIFO keeps the bus busy    *)
(* until the thread that polls it runs again.                              *)
(***************************************************************************)
EXTENDS Integers, Sequences

CONSTANTS
    Cages,      \* the SFP cages in the order they are read: a sequence of strings
    Pair        \* the pairs <<Kx, Ky>> a user enters

Erased == 0     \* stands for 0 and 0xFFFFFFFF, which a restart ignores
Reset == -1     \* value of the Kx and Ky registers after power on
Cage == {Cages[i] : i \in DOMAIN Cages}
Outputs == {"none", "ee", "dfe", "afe", "sup", "pwr", "clk"}
Channel == Outputs \cup Cage

ASSUME CagesAssumption == Cages \in Seq(STRING) /\ Cage \cap Outputs = {}
ASSUME PairAssumption == Pair \subseteq Nat \X Nat

\* The addresses that answer behind an output of the switches.
Behind(ch) ==
    CASE ch = "ee"   -> {\h50}                         \* EEPROM, MAC address
      [] ch = "dfe"  -> {\h48, \h49, \h4A, \h4B}       \* temperatures
      [] ch = "afe"  -> {\h40, \h48, \h4A, \h56}       \* INA226, temps, Si569
      [] ch = "sup"  -> {\h48, \h49, \h4A}             \* LTC2991
      [] ch = "pwr"  -> {\h5C}                         \* LTC2977
      [] ch = "clk"  -> {\h5A}                         \* LMK61E2
      [] ch \in Cage -> {\h51}
      [] OTHER       -> {}

Dev(ch, A) == {ch} \X A
All(ch) == Dev(ch, Behind(ch))
Source == All("dfe") \cup Dev("afe", {\h40, \h48, \h4A}) \cup All("sup")
          \cup All("pwr") \cup UNION {All(s) : s \in Cage}

VARIABLES
    exp,        \* the output each switch has selected
    plugged,    \* the cages that hold a module
    main,       \* next step of main(), 0 once the threads run
    st,         \* next step of the status pass, 0 while the thread waits
    rec,        \* per item of the status record: the devices that answered
    con,        \* the console's command and its next step
    ee,         \* EEPROM: machine and the pair <<Kx, Ky>>
    reg,        \* the registers MACH_SEL, KX, KY
    said,       \* history: what the console last saved without a status pass
                \* in between, a set of at most one value per item
    stray       \* history: a write reached a device it was not meant for

vars == <<exp, plugged, main, st, rec, con, ee, reg, said, stray>>

\* The devices that answer a transfer to address a.
At(a) == {<<exp[e], a>> : e \in {x \in {0, 1} :
                            /\ a \in Behind(exp[x])
                            /\ exp[x] \in Cage => exp[x] \in plugged}}

-----------------------------------------------------------------------------
(* Programs: selections, transfers and what is done with their result.     *)
(* A reading writes the register's number and reads the data.              *)

Sel(e, ch) == [op |-> "sel", exp |-> e, ch |-> ch]
Get(D)     == [op |-> "get", dev |-> D]
Put(D)     == [op |-> "put", dev |-> D]
Do(op)     == [op |-> op]

SelectEepromHalf == <<Sel(1, "none")>>                     \* faulty
SelectEeprom == <<Sel(0, "ee"), Sel(1, "none")>>
ReadMac      == SelectEeprom \o <<Get(All("ee"))>>
ProgSi569    == Put(Dev("afe", {\h56}))
WriteLmk     == <<Sel(1, "clk"), Put(All("clk"))>>
InaInit      == Put(Dev("afe", {\h40}))
InaRead      == Get(Dev("afe", {\h40}))
ReadTemps(ch, A) == Get(Dev(ch, A))
ConfigureTemps == <<Sel(1, "dfe"), Put(All("sup"))>>       \* faulty
ConfigureLtc2991 == <<Sel(1, "sup"), Put(All("sup"))>>
ReadLtc2991  == Get(All("sup"))
SfpStats(s)  == <<Sel(0, s), Sel(1, "none"), Get(All(s))>>
Ltc2977Stats == <<Sel(0, "none"), Sel(1, "pwr"), Get(All("pwr"))>>
RestoreFirst == <<Do("machine")>> \o SelectEeprom \o <<Do("kxky")>>     \* faulty
RestoreSettings == SelectEeprom \o <<Do("machine")>> \o SelectEeprom \o <<Do("kxky")>>

\* main() up to the scheduler, then the MAC address if NET.CNF asks for it.
Boot == <<Sel(1, "afe"), InaInit, ProgSi569>> \o WriteLmk
        \o <<Sel(1, "afe"), ReadTemps("afe", {\h48, \h4A}), Sel(1, "none")>>
        \o RestoreSettings \o <<Do("start")>> \o ReadMac \o <<Do("start")>>

AllCages == [i \in 1..(3 * Len(Cages)) |->
               SfpStats(Cages[((i - 1) \div 3) + 1])[((i - 1) % 3) + 1]]

\* One pass of the status thread.
Pass == <<Sel(1, "dfe"), ReadTemps("dfe", Behind("dfe")),
          Sel(1, "afe"), ReadTemps("afe", {\h48, \h4A}), InaRead, Sel(1, "sup")>>
        \o ConfigureLtc2991 \o <<ReadLtc2991>> \o AllCages
        \o (<<Sel(1, "pwr")>> \o Ltc2977Stats \o <<Do("send")>>)

MachineSel == SelectEeprom \o <<Do("save"), Do("reg")>>
SetKxKy    == <<Do("kx"), Do("ky")>> \o SelectEeprom \o <<Do("save")>>
DumpEeprom == SelectEeprom \o <<Get(All("ee")), Do("hold")>>      \* the long read
Console == [machine |-> MachineSel, kxky |-> SetKxKy, dump |-> DumpEeprom]

Command == [op : {"machine"}, val : {0, 1}] \cup [op : {"kxky"}, val : Pair]
           \cup [op : {"dump"}, val : {0}]
Idle == [cmd |-> [op |-> "dump", val |-> 0], pc |-> 0, bumped |-> FALSE]

-----------------------------------------------------------------------------
Init ==
    /\ exp = [e \in {0, 1} |-> "none"]
    /\ plugged = {}
    /\ main = 1 /\ st = 0 /\ con = Idle
    /\ rec = [d \in Source |-> {}]
    /\ ee = [machine |-> 2, kxky |-> <<Erased, Erased>>]     \* never written
    /\ reg = [machine |-> 0, kx |-> Reset, ky |-> Reset]
    /\ said = [machine |-> {2}, kxky |-> {<<Erased, Erased>>}]
    /\ stray = FALSE

\* The transfers: i2c_set_port_expander, i2c_read, i2c_write.
Transfer(s) ==
    \/ /\ s.op = "sel"
       /\ exp' = [exp EXCEPT ![s.exp] = s.ch]
       /\ UNCHANGED <<rec, stray>>
    \/ /\ s.op = "get"
       /\ rec' = [d \in Source |-> IF st # 0 /\ d \in s.dev THEN At(d[2]) ELSE rec[d]]
       /\ UNCHANGED <<exp, stray>>
    \/ /\ s.op = "put"
       /\ stray' = (stray \/ \E d \in s.dev : At(d[2]) \ {d} # {})
       /\ UNCHANGED <<exp, rec>>

\* A buffer nothing was read into holds anything.
Read(item) == IF At(\h50) = {<<"ee", \h50>>} THEN {ee[item]}
              ELSE {v[item] : v \in [machine : 0..2, kxky : Pair]}

KnownMachine(v) == IF v \in {0, 1} THEN v ELSE 0

\* main(): a step of Boot.  Settings are programmed if they are valid.
MainStep ==
    /\ main # 0
    /\ LET s == Boot[main] IN
       \/ /\ Transfer(s)
          /\ main' = main + 1
          /\ UNCHANGED reg
       \/ /\ s.op = "machine"
          /\ \E v \in Read("machine") :
                reg' = [reg EXCEPT !.machine = KnownMachine(v)]
          /\ main' = main + 1
          /\ UNCHANGED <<exp, rec, stray>>
       \/ /\ s.op = "kxky"
          /\ \E v \in Read("kxky") :
                reg' = [reg EXCEPT !.kx = IF v[1] # Erased THEN v[1] ELSE @,
                                   !.ky = IF v[2] # Erased THEN v[2] ELSE @]
          /\ main' = main + 1
          /\ UNCHANGED <<exp, rec, stray>>
       \/ /\ s.op = "start"                  \* with or without the MAC address
          /\ main' \in {0} \cup (IF main < Len(Boot) THEN {main + 1} ELSE {})
          /\ UNCHANGED <<exp, rec, reg, stray>>
    /\ UNCHANGED <<plugged, st, con, ee, said>>

-----------------------------------------------------------------------------
(* The status thread: its transfers wait until the bus is not busy.        *)

Held == con.pc # 0 /\ Console[con.cmd.op][con.pc].op = "hold"

NoDelay == 1                                               \* faulty
AfterSend == 0                              \* the delay of a second

Sending == st # 0 /\ Pass[st].op = "send"

Wake ==
    /\ main = 0 /\ st = 0
    /\ st' = 1
    /\ con' = [con EXCEPT !.bumped =
                  @ \/ \E i \in 1..(con.pc - 1) : Console[con.cmd.op][i].op = "sel"]
    /\ UNCHANGED <<exp, plugged, main, rec, ee, reg, said, stray>>

StatusStep ==
    /\ st # 0
    /\ \/ /\ ~Held
          /\ Transfer(Pass[st])
          /\ st' = st + 1
       \/ /\ Sending
          /\ st' = AfterSend
          /\ UNCHANGED <<exp, rec, stray>>
    /\ UNCHANGED <<plugged, main, con, ee, reg, said>>

-----------------------------------------------------------------------------
(* The console: runs only while the status thread waits, in its delay or   *)
(* in psc_send.                                                            *)

SamePriority == main = 0                                   \* faulty
MayRun == main = 0 /\ (st = 0 \/ Sending)

Choose(c) ==
    /\ MayRun /\ con = Idle
    /\ con' = [cmd |-> c, pc |-> 1, bumped |-> FALSE]
    /\ UNCHANGED <<exp, plugged, main, st, rec, ee, reg, said, stray>>

\* Nobody looks at the status of the transfer before saying "Saved".
Save(c) ==
    /\ ee' = IF At(\h50) = {<<"ee", \h50>>} THEN [ee EXCEPT ![c.op] = c.val] ELSE ee
    /\ said' = [said EXCEPT ![c.op] = IF con.bumped THEN {} ELSE {c.val}]

Program(c, s) ==
    reg' = CASE s.op = "reg" -> [reg EXCEPT !.machine = c.val]
             [] s.op = "kx"  -> [reg EXCEPT !.kx = c.val[1]]
             [] OTHER        -> [reg EXCEPT !.ky = c.val[2]]

ConsoleStep ==
    /\ MayRun /\ con.pc # 0
    /\ LET c == con.cmd
           s == Console[c.op][con.pc] IN
       /\ con' = IF con.pc = Len(Console[c.op]) THEN Idle ELSE [con EXCEPT !.pc = @ + 1]
       /\ \/ Transfer(s) /\ UNCHANGED <<ee, reg, said>>
          \/ s.op = "save" /\ Save(c) /\ UNCHANGED <<exp, rec, reg, stray>>
          \/ s.op \in {"reg", "kx", "ky"} /\ Program(c, s)
                /\ UNCHANGED <<exp, rec, ee, said, stray>>
          \/ s.op = "hold" /\ UNCHANGED <<exp, rec, ee, reg, said, stray>>
    /\ UNCHANGED <<plugged, main, st>>

-----------------------------------------------------------------------------
\* An SFP module is plugged or pulled.
Plug(s) ==
    /\ plugged' = IF s \in plugged THEN plugged \ {s} ELSE plugged \cup {s}
    /\ UNCHANGED <<exp, main, st, rec, con, ee, reg, said, stray>>

\* The power fails, or the console's reboot: everything but the EEPROM is lost.
Restart ==
    /\ exp' = [e \in {0, 1} |-> "none"]
    /\ main' = 1 /\ st' = 0 /\ con' = Idle
    /\ rec' = [d \in Source |-> {}]
    /\ reg' = [machine |-> 0, kx |-> Reset, ky |-> Reset]
    /\ UNCHANGED <<plugged, ee, said, stray>>

Next ==
    \/ MainStep
    \/ Wake
    \/ StatusStep
    \/ \E c \in Command : Choose(c)
    \/ ConsoleStep
    \/ \E s \in Cage : Plug(s)
    \/ Restart

\* The scheduler runs main(), and the status thread when it has something to
\* do; nothing makes a user type.
Spec == Init /\ [][Next]_vars /\ WF_vars(MainStep) /\ WF_vars(StatusStep)

-----------------------------------------------------------------------------
TypeOK ==
    /\ exp \in [{0, 1} -> Channel]
    /\ plugged \subseteq Cage
    /\ main \in 0..Len(Boot) /\ st \in 0..Len(Pass)
    /\ rec \in [Source -> SUBSET (Channel \X Nat)]
    /\ con.cmd \in Command /\ con.pc \in 0..Len(Console[con.cmd.op])
    /\ con.bumped \in BOOLEAN
    /\ ee.machine \in 0..2 /\ ee.kxky \in Nat \X Nat
    /\ reg.machine \in {0, 1} /\ reg.kx \in Int /\ reg.ky \in Int
    /\ said.machine \subseteq 0..2 /\ said.kxky \subseteq Nat \X Nat
    /\ stray \in BOOLEAN

\* A status record that is sent holds, under each name, what that device and
\* no other has answered; only an empty cage may have answered nothing.  It
\* rests on the console's lower priority: its selections never fall into a pass.
RecordTrue ==
    Sending =>
        \A d \in Source : rec[d] = {d} \/ (d[1] \in Cage /\ rec[d] = {})

\* No configuration write reaches a device behind another output that has the
\* same address (the LTC2991 share theirs with the temperature sensors).
NoStrayWrite == ~stray

\* What the console has saved is in the EEPROM, unless the status thread has
\* changed the switches under the command: then the write is lost unnoticed.
SavedKept == \A item \in {"machine", "kxky"} : said[item] \subseteq {ee[item]}

\* A restart, at whatever moment, brings back the saved settings; the gains
\* that are not valid keep their value after power on.
RestartRestores ==
    [][main # 0 /\ main' = 0 =>
         /\ \A v \in said.machine : v # 2 => reg'.machine = v
         /\ \A p \in said.kxky : /\ reg'.kx = IF p[1] = Erased THEN Reset ELSE p[1]
                                 /\ reg'.ky = IF p[2] = Erased THEN Reset ELSE p[2]]_vars

\* Every status pass comes to its end, except when the console was pre-empted
\* in the long EEPROM read: the pass then waits for a bus that only the thread
\* it keeps from running can free.
StatusGoesOn == (st # 0) ~> (st = 0 \/ Held)

=============================================================================
