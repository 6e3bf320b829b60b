# ZuBPM: TLA+ models, checks and proofs

The repository holds the firmware and software of the ZuBPM beam position
monitor: programmable logic (`src/src/hw/hdl`, VHDL and Verilog) that digitises
four pick-up signals, computes positions and captures them into DDR on a
trigger, and a FreeRTOS and lwIP application (`src/src/sw/src`, C) that sends the
captures and a dozen periodic records to control-system clients over TCP (the
"PSC" protocol) and applies the settings they send. Paths below are relative to
`src/src`; line numbers are those of the commit beside this directory.

## 1. Inventory

Threads (FreeRTOS, pre-emptive, all of `DEFAULT_THREAD_PRIO` except the console,
one lower): the accept loop, one `handle_client` per connection, `dmadata`,
`sadata`, `livedata`, `gendata`, `lstats`, `brdstats`, `thermistor`, `console`, and
lwIP's own. They share the PSC server, the memory-mapped registers, one I2C bus
and the DDR buffers; the only lock is the server's `sendguard`. Clocks: the logic
runs on `adc_clk`, its registers are written and read over AXI.

| Part | State | Operations | Talks to | What makes it correct |
|---|---|---|---|---|
| Triggered acquisition (`trig_logic.vhd`, `sync_cdc.vhd`, `adc2dma.vhd`, `tbt2dma.vhd`, `fa2dma.vhd`, `dmadata.c`) | trigger latch, running flag, done pulse, trigger count; per channel a burst counter, FIFO and AXI DMA core; the thread's last count | trigger, burst, count; poll, send, acknowledge, re-arm | registers, DDR, `psc_send` | one capture at a time; each counted once and sent once; buffers not refilled while they are sent; the channel armed for the next trigger |
| PSC server (`listener.c`) | client slots (bit mask and descriptors), `sendguard`, a descriptor copy in each client thread | accept, allocate, drop; greet, receive, leave; broadcast | lwIP, every data thread | a slot has one owner; no descriptor is lost; bytes go to the client they are for; the guard is given back |
| Message framing (`pscmsg.c`) | position in the stream, lengths | receive head, body, skip the rest; send | lwIP, `handle_client` | headers are read where messages begin; oversized messages are cut cleanly |
| Client events and start-up (`main.c`) | the LED register, the start's progress | boot, `on_startup`, `client_event`, `client_msg` | everything | the server is set before tasks use it; whatever fails at the start, the board comes to serve |
| Settings (`control.c`) | registers: levels, bits that are raised and lowered, delay taps | `reg_settings` with one setter per message | registers, `dma_arm`, SPI masters | a message is carried out as a whole, whatever other clients send meanwhile, and a soft trigger once; what is reported is what was set |
| Live data (`livedata.c`, `adc2fifo.vhd`, `tbt2fifo.vhd`) | two FIFOs, their writers | enable, wait 10 ms, read 8000 samples, reset, send | registers | a record holds 8000 consecutive samples since its own enable, with the columns of one sample side by side |
| Slow acquisition (`sadata.c`, `sa_dsp.vhd`, `fa_dsp.vhd`, `pos_calc.vhd`) | accumulators, scaled outputs, block count | accumulate, latch, scale; poll, read, send | registers | no block is skipped; the fields of a record belong to its number |
| General data (`gendata.c`), statistics (`lstats.c`) | none | read, send | registers, lwIP | a setting, or a new address, comes to be reported |
| Board status and I2C (`i2c_devices.c`, `brdstats.c`) | the two switches' settings, the EEPROM | select, transfer | I2C devices; `main()` and the console use the same bus | a reading is reported under the name of the device that gave it; a write reaches the device it is for; what was saved comes back |
| Thermistors (`thermistors.c`, `ltc2986.c`, `ltc2986_spi.vhd`) | conversion in progress | set up, start, poll, read | SPI | a temperature belongs to the chip and channel asked for |
| Console (`console.c`) | the command in progress | menu over I2C and EEPROM, addresses, reboot | I2C, lwIP | "Saved" means saved |
| SD card, network (`sdcard.c`, `net_setup.c`, `discover.c`) | network configuration, `EEPROM.NEW` and `EEPROM.DAT` | parse, synchronise; add the interface, run DHCP | files, lwIP | the configuration is what NET.CNF says; what a power cut leaves the next start repairs, or finds equal to what it would write |
| Signal processing control (`dsp_cntrl.vhd`, `stretch.vhd`, `rffe_switch.vhd`) | delay and decimation counters | synchronise, delay, gate, divide | data path, burst engines | one turn pulse per turn, FA and SA pulses every n turns |
| Data path (`beam_ddc.vhd`, `tbt_dsp.vhd`, `mycordic.v`, ...) | pipelines | filter, rotate, divide | burst engines, FIFOs | numeric |
| SPI masters (`spi_ad9510.vhd`, `spi_pe43712.vhd`, `ltc2195_spi.vhd`, `ltc2986_spi.vhd`, `ad9510.c`, `ltc2195_init.c`) | write latch, shift register, state | latch, shift, finish; programs of words and waits | registers, chips | the chip has what was written to it; an answer is read by whom it is for |
| Event receiver (`evr/*`) | event decoder, seconds shift register, offset counter | receive event or bit | time stamps, triggers | the time is the one transmitted |
| Top level (`top.vhd`, `ps_io.vhd`, `hw/rdl`) | register file | read, write | all logic | wiring |

What is hard to test, and at which line, is the hazard list of `PROJECT.json`. The
largest groups are: threads that prepare the same DMA channel at once
(`dmadata.c:288`, `control.c:152`); the trigger latch against the acknowledge
register's level (`trig_logic.vhd:129`); slots and descriptors that change owner in
several unlocked steps (`listener.c:180`, `226`, `251`); the bytes a failed receive
leaves in the stream (`pscmsg.c:71`); a bus whose switch and whose address are set in
two transfers (`brdstats.c:114`); masters and FIFOs that are given a fixed time
instead of being asked (`ltc2986.c:102`, `livedata.c:62`); settings made of several
register accesses of several clients (`control.c:339`); a power cut in the middle of
the start (`sdcard.c:202`); and values read register by register while the logic
changes them (`sadata.c:58`, `dmadata.c:267`).

## 2. Plan

Done, in this order; the first four carry the data that the instrument exists for:

1. `AcqHandshake`, `TrigLogic`: the triggered acquisition's control, clock by clock.
2. `PscServer`: the server all data leave by.
3. `DmaArm`: one channel's way into DDR and the two threads that arm it; it takes
   the trigger logic as the `AcqHandshake` phase that `TrigLogic` implements.
4. `PscMsg`: the receive framing under `handle_client`.
5. `I2cMux`: the bus under the start, the status thread and the console, with power
   cuts and the settings in the EEPROM.
6. `LiveData`, `SaData`: the records that are polled, against the logic that fills
   them.
7. `SpiMaster`: the four masters and every program that writes them.
8. `SettingsStore`, `SettingsMsg`, `Settings`: the setters, several clients at once,
   and what general data reports of them.
9. `Startup`: from power-on to the tasks, over the SD card, the network and the
   server; then the address that is reported.

Next:

10. `BurstWords`: the 64-bit words of a sample in `tbt2dma.vhd`, `fa2dma.vhd` and
    `adc2dma.vhd` against their decoding in `process_*_dma`, with the pipeline that
    changes the sample's fields while they are written; composed with `DmaArm`'s FIFO.
11. `DspCntrl`: synchronisation to the turn clock and the dividers for FA and SA, as
    the source of the events that `SaData` and `LiveData` take as free.
12. `EvrTime`: seconds shifted in bit by bit and offset counter, with an abstract clock
    to refine.
13. The send side of `pscmsg.c` as bytes on the stream, composed with the data
    threads' sequences of messages.

Theorems worth having there: type correctness and the framing of words for
`BurstWords`; one divider pulse every n turns for every n of `DspCntrl`. Of what is
there every safety property of a run is a theorem (section 6).

## 3. Modules

The modules that end in `Proofs` hold theorems (section 6): about the module they are
named for, or, where one holds two, about `Startup` and `PscMsg` (`NetworkProofs`) and
about `I2cMux` and `SaData` (`RecordProofs`). Such a module extends both components, so
one of the two has prefixed names: `PscMsg`'s `Init`, `Next`, `TypeOK` and
specification begin with `Msg`, `SaData`'s with `Sa`. Modules that begin with `MC` give
constants values that a configuration file cannot write. A definition marked *faulty* is a plausible mistake in the code,
which `PROJECT.json` pairs with the property that would find it.

### AcqHandshake (abstract)

What the acquisition promises: one capture goes round `ready`, `capturing`,
`announced`, `sending`; it is announced by one increment of the count and fetched
before the next can start. `broken` marks the first trigger that meets the
acknowledge pulse, or the first count that is read while it changes; nothing is
promised after it. It never becomes false again, so a refinement owes the abstract
module nothing from there on.

### TrigLogic

`Clock` is one rising edge of `adc_clk`: every register of `trig_logic.vhd` takes its
next value from the old ones (`TrigNext`, `LatchNext`, `RunningNext`, `DoneNext`,
`CountNext`; `Shift` and `Rise` are `sync_cdc` and the edge detector), and each burst
engine its counter (`EngineNext`; the eight or five words of a sample are one step,
a *paced* engine waits for its strobe). `dmadata_push` is the thread: `PollCount`,
`SendBuffers`, `AckHigh`, `AckLow`, `Rearm` are its register accesses in program
order. `clocked` says that at least one edge falls between two accesses, since an AXI
access takes longer than a clock. `set_trigsrc` and `set_dmalen` are the client's
settings and may come at any moment. The trigger inputs are free. `PollMixed` is a
read of the count in the moment it is incremented: its clock is asynchronous to the
registers' (`hw/cstr/timing.xdc:10`) and its bits are not held together, so the read
may give a mixture of the two values (the model allows any other value). `broken` is
a history variable: the latch was cleared while a capture was in progress, or the
count was read mixed.

The lengths cross the clocks in the other direction. A trigger that samples a length
while it is written takes some length in range, as it would between two settings.

### PscServer

One program counter per thread. `accpc` walks `psc_run`: `Accept` (lwIP hands out the
lowest free descriptor), `Alloc`/`AllocFull` (`psc_client_alloc`, under the guard),
`Store` (descriptor stored and thread created, without the guard) or `Drop`. `pc[c]`
walks `handle_client`: `Start` (the local copy of the descriptor), `Hello`
(`client_event`'s `psc_send_one`), `RecvFails`, `ClientFree`, `Close`. A data thread's
`psc_send` takes the guard, does one slot per step and gives it back. A send may
fail at any time; it closes the descriptor and marks the slot. `PeerClose` is the
peer's. `reused` is a history variable: accept returned a descriptor that a client
thread still remembers. A call under the guard that cannot block is one step.

### DmaArm

One channel: burst engine (`Trigger`, `WriteSample`), FIFO, AXI DMA core (`Store`,
external, after its register description), the buffer in DDR (`ddr`), and the count
(`Announce`). Each register access of `dma_arm` is a step (`ReadLen`, `FifoReset`,
`FifoRun`, `DmaReset`, `DmaStart`, `DmaAddress`, `DmaLength`); it runs in the `dmadata`
thread and, after `set_dmalen`, in any client's thread, interleaved freely. The address
register `da` and the length are written apart, because the soft reset of another
thread's call may fall between the two and take the address away: a core that is then
started stores elsewhere (`dma.buf`), and the buffer keeps what it had. `dma.at` is the
place of the next sample. The trigger logic enters as the phases of `AcqHandshake`;
what happens once that promise is broken is `TrigLogic`'s. `PollCount`, `SendBuffers`
and `Acknowledge` are the rest of `dmadata_push`. A sample is *new* if it is of the
latest capture: enough to tell a stale one from a fresh one, in the FIFO and in the
buffer. Two history variables: `crossed`, the last calls of `dma_arm` overlapped; `due`,
how many samples the capture owes, which is none when it was triggered while a
`dma_arm` was under way or after calls that overlapped, when its length changed before
it was read, or when it was sent before the core had emptied the FIFO. Nothing is
assumed of a capture that is not due but what `NoStaleSamples` says. Writing the length
register of a busy core is undefined by its documentation, and may be ignored or
replace the length.

The channel is TbT or FA; the ADC's transfer length has 16 samples to spare and its
engine writes one word more than the burst length (`adc2dma.vhd`), which `BurstWords`
is to treat.

### PscMsg

The stream is the message at the reading position and the bytes of it read so far.
`RecvByte` is a `recv` that returns one byte (longer results are several steps);
`RecvFails` is a `recv` that returns an error, which may happen at any time because
`listener.c:155` sets a receive timeout and `sw/tcl/main.tcl:83` compiles it in. `pc`
is the place in `psc_recvmsg`: `psc_recvhead`, `BodyDone`, `ChunkDone` and `LastDone`
are what the code does when the bytes asked for have come. A header read out of
step tells any identifier and length, or is refused for its first two bytes. `torn`
is a history variable: a timeout ended `psc_recvskip`'s loop on this connection.

### I2cMux

The bus is the state of the two switches, `exp`; `At(a)` is the set of devices that
answer address `a` with them. What the threads do on the bus is written as programs,
sequences of selections, reads and writes in the order of the C functions whose names
they bear: `Boot` for `main()`, `Pass` for one round of the status thread, `Console` for
the console's three commands. `Transfer` carries out one of them; its result is the set
of devices that answered, kept in `rec` by the status thread. `MainStep`, `StatusStep`
and `ConsoleStep` walk the programs. The console has the lower priority
(`console.c:441`): it runs when the status thread waits (`MayRun`), is pre-empted
between any two transfers (`Wake`), and in the 128-byte dump also inside one (`Held`).
`Plug` inserts or pulls an SFP module, `Restart` is a power cut or the console's reboot
at any step: only the EEPROM survives. `said` and `stray` are history variables: what
the console has told its user is saved, and that a write went astray.

### LiveData

`livedata_push` register access by register access (`Enable`, `ReadAdc`, `ResetAdc`,
`SendAdc`, `ReadTbt`, `ResetTbt`, `SendTbt`) against the two writers. The ADC's,
at clock speed, is one step (`AdcWrite`); the turn-by-turn writer writes the two words
of a sample one by one (`TbtTrig`, `TbtWriteX`, `TbtWriteY`) and knows nothing of the
FIFO's reset or of its being full. A word is the pass, the sample and the column it
is of. `dry`, `cut` and `split` are history variables: a read met an empty FIFO, the
last reset met the writer at work, a sample's word got into the FIFO alone.

### SaData

`Block` ends an average of `sa_dsp.vhd` and counts it; `SaTrig` moves the latched
average to the registers; the thread polls the count, waits, reads the count and the
fields and sends (`sadata_push`). The count wraps at `W`. `rushed` (a block came before
the thread had read the count twice) and `drift` (no trigger came between two blocks)
are history variables. At the rates of the code `rushed` stays false, since a block takes
100 ms and a round of the thread 20 ms. `drift` becomes true now and then: the internal
trigger is one turn in 38000 slower than the blocks (section 5).

### SpiMaster

A behaviour looks at one of the four masters, chosen in `Init`, because they share
nothing. `Strobe`, `Accept`, `Finish`, `Clear` are the latch and the state machine of
the master, with the phases in which a strobe is lost; the bits of a word are one
step. The programs (`prog_ad9510`, `ltc2195_init`, `AdcSpi`, `set_atten`,
`thermistors_push`) are sequences of writes, waits and reads taken from the C functions,
with their register addresses and values. An ADC message whose register has its
highest bit set makes a query of its first word, since the master takes that bit for
read (`ToAdc`, `AdcReg`). A wait ends only when the transfer of this
thread's own last write is over (`owed`); another thread's may still run. `chip` is
what the chips have, `want` what the software has written. `lost` and `overlap` are
history variables. The two ADCs are not told apart: the one master selects both for
every word (`ltc2195_spi.vhd:134-136`), so that both are programmed alike; which of them a
read back is from is left out.

### SettingsMsg, Settings, SettingsStore (abstract)

`SettingsMsg` says of a message which part of the hardware it is about, whether it is
carried out, and the value it leaves there: clamped as a signed number, cut to the
width of the register, in quarters of a dB. `Settings` is the client threads'
`client_msg` and `reg_settings`, one register access per action, with the LED, bits
that are raised and lowered (`RaiseLine`, `ClearLine`; two share a register that is
written whole), and the delay taps that follow one register while another is up
(`SetTaps`, `LoadTaps`, `HoldTaps`); and `gendata_push` reading the levels back one by
one. The soft trigger has an edge detector: its event is the rise. The clock managers'
bits drive PSEN as they are (`ps_io.vhd:84`, `adc_ltc2195.vhd:215`, `229`), so that a bit
that is still up when a shift is over starts another (`ShiftMore`), any number of times
until it is lowered. A rise is taken to start a shift: one that comes within the
dozen clocks of the last shift of the same bit would not, but a bus access takes longer.

`SettingsStore` is what the clients may rely on. A message is carried out at one moment
between its receipt and its end: the place gets the value asked for, or, if it cannot
hold that one, some value of its range. It may instead be overtaken by one about the same
place. A soft trigger happens once per message, or is shared with a message that is
not over yet. A clock manager's message shifts at least once (or shares a shift), and
the phase moves only while a message about it is in progress. What follows a new burst
length is in `DmaArm`, a new trigger source in `TrigLogic`, `ADC_SPI_MSG` in
`SpiMaster`.

### Startup

`main` walks the main thread: partition, `NET.CNF` line by line, `EEPROM.NEW` and
`EEPROM.DAT` access by access, `net_setup`, `psc_run`, `on_startup`. Every access may
fail; `PowerCut` may come at any access to the card and leaves what had been written.
Of `EEPROM.DAT` the model has the size its directory entry gives, which is what
`sdcard_sync_eeprom` goes by (`sdcard.c:180`), and whether it is `torn`: truncated, or
truncated and rewritten, while the entry still describes the old file, as a cut before
the end of `f_sync` leaves it. A torn file whose entry gives the full size can be read,
compared, and found equal. Then `lstats_push` and `dhcp_client` report the address, both
through `inet_ntoa`'s one buffer, which `LogAddress` (listener and console) uses too;
`Lease` is DHCP's server. `pieces`, `faulted` and `matched` (the comparison of this start
found the file equal) are history variables, kept until `net_setup`.

## 4. Runs

| Run | Bounds | States | Shows |
|---|---|---|---|
| `trig_safety` | a free-running and a paced channel, bursts of 1 or 2, count of 3 values | 372,288 | `LatchGuardsCapture`, `BuffersStable` until `broken`; implements `AcqHandshake` |
| `trig_live` | bursts of 1 | 41,760 | `BurstCounted`, `CaptureServed` |
| `psc_safety` | 3 peers, 2 slots, 3 client descriptors, 1 data thread, symmetry | 537,979 | `SlotHasOneOwner`, `NoDescriptorLeak`, `OwnDescriptor` until `reused` |
| `psc_live` | 2 peers, 1 slot, 2 client descriptors | 6,888 | `ClientLeaves`, `AcceptReturns` |
| `dma_safety` | 2 client threads, bursts of 1 or 2, FIFO of 2, symmetry | 920,737 | `ArmedAtRest` and `NoStaleSamples` whatever overlaps, with address and length right if the last call was not `crossed`; `WholeCaptureSent` for what is `due` |
| `psc_msg` | bodies of 0 to 6 bytes, header, buffer and chunk of 2 | 78,856 | `StreamInStep`, `DeliveredWhole` until `torn`; `MessageHandled` |
| `i2c_mux` | 1 cage, a valid pair of gains and one with an invalid member | 300,576 | `RecordTrue`, `NoStrayWrite`, `SavedKept`, `RestartRestores`, `StatusGoesOn` |
| `live_data` | 3 samples read of 5 written, FIFOs of 12 words | 62,188 | `AdcWhole`; `TbtWhole` and `TbtPairs` where the thread has not overtaken the writer; `OnePassOld` always |
| `sa_data` | count of 6 values, 3 fields, at most 2 blocks between two reads of the count | 205,830 | `FieldsNear` and `NoBlockSkipped` at the thread's pace, `NewsSent` always |
| `spi_master` | 2 clients, 2 thermistor chips, 4 ADC words, 3 attenuations | 44,479 | `LostByCrowdOnly`, `ChipFollows`, `PllReady`, `AnswersOwn` |
| `settings` | 2 clients, words of 10 bits, 10 messages of every kind | 871,040 | `TypeOK`, `StrobesRest`, `SettingsReported`; implements `SettingsStore` |
| `startup` | 3 lines of NET.CNF, 1 power cut, 2 addresses, 2 tasks | 1,019,450 | `ConfigAsRead`, `CardRepaired`, `ServiceComes`, `AddressReported` |

Type invariants are proved for all ten detailed modules (section 6); `Settings`' is
also a property of its run because the ranges of the burst lengths are part of it.

Why the bounds are enough.

- TrigLogic: two channels of different kind make one finish before the other; a count
  of three values wraps and is still told from a count one ahead; bursts of two
  separate the first sample from the last.
- PscServer: three peers over two slots make slots and descriptors run out and come
  back while their last owner is still leaving; a second data thread adds nothing to
  `sendguard` that the client threads do not.
- DmaArm: three threads inside `dma_arm` are one more than the pair that any
  disagreement needs (two are enough to take the address from a core, or to leave the
  other length); a burst of two is longer and a burst of one shorter than the other
  length.
- PscMsg: a body of six over a buffer of two leaves four bytes, which are two chunks,
  one of them the last; shorter bodies give one chunk, part of one, and none.
- I2cMux: all outputs and addresses of the board are there; the cages are read one
  like the other. Two values per saved item tell an old one from a new one. Restarts
  are not bounded.
- LiveData: more is written than read, as in the code, and what one reset leaves and the
  next pass writes do not fit into the FIFO together, so that it can also be full.
- SaData: `MaxBurst` bounds the blocks between two reads of the count; two are one more
  than the thread's pace, and the widest distance between two numbers is four, less
  than `W`.
- SpiMaster: the programs are those of the code, word by word; two clients meet at
  every pair of steps; two words for one register, one for another and one with the
  bit that makes it a query; an attenuation beyond the 64 dB of its register.
- Settings: two clients meet at every pair of accesses with every pair of kinds of
  message; the lines are the soft trigger and the two that share a register; burst
  lengths above and negative as a signed number, an attenuation beyond 64 dB, a value
  wider than its register. Some of the values asked for are those of `Init`, which keeps
  the states few: what tells a lost message there is `served`. `ImplementsStore` for more
  clients and all values is proved.
- Startup: three lines are one that is overruled, the one that does, and another
  kind; one power cut meets every access of the first start and leaves the second one
  its remains, a torn file of the full size among them. A start begins from one of six
  states of `EEPROM.DAT`, and one cut reaches them all; further cuts are covered by the
  proof. Of the tasks only their number matters.

The proofs of section 6 cover all other sizes of the safety properties they state.

Deadlock is not checked where the system may stop: in `spi_master` (`main()` ends, and
clients need not send) and `startup` (a server that cannot be opened leaves nothing to
do). None of the other models can stop.

### Fairness

- TrigLogic: clock edges keep coming, a channel that waits for its strobe gets one
  (turn and FA pulses are periodic, `dsp_cntrl.vhd`), and the thread goes on (its
  loop has no exit and its sends time out, `listener.c:145`).
- PscServer: weak fairness of each thread's steps; strong fairness of those that
  wait for `sendguard`, because the FreeRTOS mutex queues its waiters but a data
  thread may take it again before a woken one runs. Nothing is assumed of accepting
  peers or of peers that stay connected: `RecvFails` is fair only when there is
  nobody left to send.
- PscMsg: the client thread goes on, because each `recv` ends with bytes or with
  the timeout. Nothing is assumed of the peer.
- I2cMux: `main()` and the status thread go on when they can run; nothing makes a user
  type, a module come or the power fail.
- SaData: the thread goes on; the beam and the events need not come.
- Settings: each client's thread and general data get their time slices (equal
  priorities, time slicing); nothing makes a client send.
- Startup: the main thread, the DHCP thread and statistics go on, and the calls to
  the card return; a lease need not come.
- AcqHandshake, DmaArm, LiveData, SpiMaster, SettingsStore: none; only safety is stated.

## 5. Observations

Where code, comments and the obvious intention differ. The properties state what
holds up to these points; history variables mark them.

Acquisition:

- The latch is cleared for as long as the acknowledge register is 1
  (`trig_logic.vhd:129`, `dmadata.c:280`): a trigger accepted in that time loses its
  latch while it is captured, and another can be accepted over it. The synchronised
  edge made for this at `trig_logic.vhd:193-200` is not used. History: `broken`.
- The acknowledge (`dmadata.c:281`) admits triggers before `dma_arm` (288, under the
  comment "Re-arm DMA for next trigger") has prepared FIFO and core.
- Two `dma_arm` calls overlap when a client changes a length (`control.c:151-152`) while
  `dmadata` re-arms, or another client does. The one that read the old length may finish
  last. Worse, the soft reset of one between the other's writes of S2MM_DA and S2MM_LEN
  (`dmadata.c:70-83`) takes the address away: the capture goes to the reset value of the
  address, and the buffer that is sent is the one of the capture before. The
  next call that is alone puts it right. History: `crossed`.
- The enable registers that `control.c:122-124` clears around a change reach no logic
  (`ps_io.vhd:130-134`), and the count is incremented when the engines have written into
  the FIFO (`trig_logic.vhd:125`), which the DMA core may not have emptied. History: `due`.

Server and framing:

- A slot is marked in use with descriptor 0 before its own is stored
  (`listener.c:180`). A broadcast in between sends on descriptor 0, which may be the
  listening socket, and closes it.
- `psc_send` closes a client's descriptor and relies on the client's thread to notice
  ("will wake up RX thread", `listener.c:251`). If accept hands the number out first,
  the old thread reads the new client's messages and finally closes its connection.
  History: `reused`.
- `psc_recvskip` loses an error inside its loop (`pscmsg.c:71-72`, against
  `pscmsg.h:92`): the last receive asks for all that is left and reads bytes of the
  following message, and, when more than 128 bytes are left, writes beyond its buffer of
  128 (`pscmsg.c:69`, `72`). History: `torn`. The model has the bytes' way from the
  stream, not the buffer's end: it goes on as if nothing had been overwritten.

Bus and SPI:

- A console command that the status thread pre-empts between its selection and its
  write reaches no EEPROM and reports "Saved" all the same (`i2c_devices.c:343`, `175`).
- The long EEPROM read, pre-empted inside its transfer, leaves the status thread
  spinning on a busy bus at the higher priority (`i2c_devices.c:295`).
- Gains of 0 and 0xFFFFFFFF can be saved but are ignored at a restart.
- `i2c_ltc2991_vcc_0v85_current` (`i2c_devices.c:765-767`) reads channel 6, as the voltage before it does, and not 7.
- The attenuator's register has eight bits: 64 dB and more wrap. Nobody waits after its
  write, so that two settings within one transfer lose the second in the chip but not
  in the report.

Live data and slow acquisition:

- The turn-by-turn FIFO is read after 10 ms, but takes 21 ms to fill; it is reset
  while its writer goes on. The message may have empty words, words of the pass before
  and, where a reset falls between the two words of a sample, columns exchanged. The
  ADC writer writes 8011 samples where the other writes 8010.
- The block count goes up at the end of a block (`sa_dsp.vhd:194`), the registers move
  with the 10 Hz trigger (131): a record's number and its fields may be one block
  apart, on either side.
- The internal 10 Hz trigger has a period of 38001 turns against blocks of 38000, and
  the Booster's period of 190000 is never reached (`dsp_cntrl.vhd:413-415`).

Settings:

- A burst length of 2^31 or more is negative when it is clamped and becomes the
  shortest one.
- The phase-shift enable of a clock manager is a level (`adc_ltc2195.vhd:215`, `229`):
  one message shifts the phase as often as fits between its two writes
  (`control.c:356-357`), which is longer than an access if the thread loses its time
  slice there. The bits of both are in one register that is written whole: a shift of one
  ends the other's.
- Two soft triggers whose ones overlap are one event.
- The calls for fine and coarse delay, beam threshold and front panel LED are commented
  out (`control.c:264`, `269`, `274`, `290`); their messages are accepted and ignored.

Start:

- The EEPROM accesses of `sdcard_sync_eeprom` are commented out (`sdcard.c:171`, `192`):
  `EEPROM.NEW` is deleted without having been written to the EEPROM, and `EEPROM.DAT` is
  compared with, and rewritten from, memory that nothing has filled.
- `sdcard.c:6` says that `EEPROM.DAT` is written if it has zero size; the code
  writes one of any size that does not compare equal (180-205), and creates one that is
  missing.
- The comparison (`sdcard.c:180`) looks at the length read and at the bytes: an
  `EEPROM.DAT` torn by a power cut in the middle of its rewriting, whose directory
  entry still gives 256 bytes, is left torn if its bytes happen to be equal.
- `NET.CNF` is read in pieces of 63 characters: the rest of a longer line is parsed as
  a line of its own. The same holds for the console's `uart_read_line`, where the rest,
  or the LF of a CR LF, answers the next question.
- Without a `hwaddr` line the MAC address is zero.
- `inet_ntoa` has one static buffer, shared by statistics, the DHCP thread, the listener
  and the console: a record may carry the text of another's address, until the next
  one.
- `dhcp_client` remembers an address after it has shown it (`net_setup.c:48-49`): one
  that changes meanwhile is remembered and not shown. The DHCP client's timers are
  called off lwIP's thread.

## 6. Proofs

Checked by TLAPS for all values of the constants under the modules' named assumptions
(non-empty sets, positive sizes, distinct special values; `W > 4` in `SaData`, FIFOs
that hold one pass in `LiveData`); no other assumption. Each theorem comes from one
inductive invariant `IInv`, of which the properties are parts or consequences.

- `TrigLogicProofs`: `TypeCorrect`, `LatchGuards`, `SendingIsUndisturbed`,
  `CountsAreConsecutive`, `Refinement`. The properties speak of a clear latch only,
  which says nothing of the steps towards it. The inductive invariant `IInv`
  describes every phase of a capture: the pulse is high exactly at the thread's step
  `clear` (`PulseInv`); latch clear (`ReadyInv`); capturing, with the thread having
  nothing to fetch (`CapturingInv`); counted but not fetched, one ahead
  (`AnnouncedInv`); fetched (`SendingInv`, with the point where the pulse has not
  seen an edge yet); and that a second trigger in the clock after an accepted one
  finds every engine busy (`RetriggerInv`). `Refinement` maps each step to one of
  `AcqHandshake` or to a stutter.
- `PscServerProofs`: `TypeCorrect`, `SlotsAreOwned`, `DescriptorsAreClosed`,
  `DescriptorsAreOwn`. Ownership and leak freedom are inductive together with
  `CallerInv` and `LocalInv` (what the accept loop and a young thread hold);
  `OwnDescriptor` needs `PristineInv`: until the first re-use, a slot that is not
  filled yet names descriptor 0, which was never a client's.
- `DmaArmProofs`: `TypeCorrect`, `RestIsArmed`, `SamplesAreCurrent`, `CaptureIsWhole`.
  `ReadyInv` and `OwnInv` say that stale samples, or a core that is not armed, always
  have a thread on its way that will flush or start (`Unflushed`, `Unreset`,
  `Pending`). `LoneInv` follows a call that is alone through its accesses, and keeps
  what it has established until the next call: the length read is the register's, the
  core is reset, then running, the address is there. `DueInv` accounts for every sample
  of a capture that is due: still to be written, in the FIFO or stored, with the core's
  length what is still to come (`Flowing`); or all in the buffer, which no call of
  `dma_arm` touches (`Stored`).
- `NetworkProofs`, framing: `MsgTypeCorrect`, `InStep`, `Delivers`. `CountInv` keeps the
  counters' relation also on a torn stream, so that `rxbuf` is never overrun; `StepInv`
  says how far into its message the thread is at each step of `psc_recvmsg`.
- `NetworkProofs`, start: `TypeCorrect`, `ConfigIsRead`, `CardIsRepaired`,
  `ServerIsFirst`. `CardInv` says how far the card has been put in order at each step
  without a fault, wherever the start before was cut short: only the comparison
  (`matched`) leaves a file as it is, and only `f_sync` makes one whole; `LastInv` that the lines of each kind have a last one, from which the
  lemma `Further` gives the effect of one line more.
- `SettingsProofs`: `TypeCorrect`, `StrobesAtRest`, `SettingsImplementStore`. `StrobesRest`
  speaks of the moments when nobody is at work; between them a bit that is up belongs
  to a thread about to clear it (`LedInv`, `LineInv`), and taps that differ from the
  register belong to a thread about to load them (`TapInv`). The refinement carries out
  a level's message at its write (lemma `LevelResult`: with the value asked for, if
  there is room for it), a line's at the rise of its bit (or shares the event, when it is
  up), and the taps' at the load, for all threads that wait there; a further shift
  belongs to the message whose thread keeps the bit up (`ShiftCarried`).
- `RecordProofs`, board status: `TypeCorrect`, `RecordIsTrue`, `WritesArriveRight`,
  `SavedIsKept`, `RestartBringsBack`, for any number of SFP cages and any gains. The
  properties look at the end of a pass, at a write, at an answer to the user, and at the
  end of `main()`; what decides them is where the switches stand at every step before. A
  first part of the proof says what each program has at each of its places (the cages'
  part of `Pass` for an arbitrary cage), and what the devices behind an output are. The
  invariant then follows the pass (`FirstInv`, `CageInv`, `LastInv`: which output is
  selected, and which entries of the record are already those of their own device), the
  console (`ConInv`: a command nobody has `bumped` still has the outputs it selected,
  because the status thread was waiting all the time) and `main()` (`BootInv`: what is
  selected, and which values have come back). `SwitchInv` keeps each switch to the
  outputs that are wired to it: the EEPROM and the modules are behind one, all other
  devices behind the other, so that a write meant for the EEPROM finds it or nothing.
- `RecordProofs`, slow acquisition: `SaTypeCorrect`, `NeverThrice`, `FieldsAreNear`,
  `BlocksAreConsecutive`. Everything the thread has read is compared with the count as it
  is now, by its distance modulo `W` (`StepInv`, `PaceInv`); `FabricInv` ties the registers
  to the count while triggers follow blocks. `W > 4` is what keeps the distances apart.
- `SpiMasterProofs`: `TypeCorrect`, `CrowdOnlyLoses`, `ChipsFollow`, `PllIsReady`,
  `AnswersAreOwn`, for any number of clients and thermistor chips and any words and
  attenuations the messages can carry. The properties depend on what stands where in
  the programs. The first part proves it from the pieces they are concatenated from:
  every word of the clock chip's and the ADCs' programs is followed by a wait, every
  read comes after a query and a wait (`Paced`), and `ThermRule` gives the thermistor
  thread's selections, starts and reads round by round for any chip. Of the
  invariant, `AloneInv` says that until two clients meet one thread at a time has a
  program; `BusyInv` that a master at work has an owner, who is about to wait for it,
  so that a thread that steps finds it idle (lemma `Quiet`); `FollowInv` speaks of the
  value a register has `After` the word on its way has arrived, which a transfer leaves
  as it is, and says it is the one written last; `PllInv` counts the clock chip's words;
  `SendInv` says that the last word is on its way or its answer is there (`Sent`, `Done`),
  and `ReadInv` that it is there when the thread reads; `ConvInv` and `FreshInv` that a
  conversion runs only while it is waited for and that what it leaves is of this round.
- `LiveDataProofs`: `TypeCorrect`, `AdcIsWhole`, `TbtIsWhole`, `TbtIsPaired`,
  `OnePassOldOnly`. The properties speak of a full message; the invariants speak of
  message and FIFO together (`Both`, `Total`), which a read leaves as they are and a
  write extends by one word: `WholeInv` says that they are what the writer has written
  in this pass, `PairInv` that the words come in pairs but for the one being completed,
  `AgeInv` of which passes they may be.

Only model-checked: the liveness properties (`BurstCounted`, `CaptureServed`,
`ClientLeaves`, `AcceptReturns`, `MessageHandled`, `StatusGoesOn`, `NewsSent`,
`SettingsReported`, `ServiceComes`, `AddressReported`), because the prover has no
reasoning about fairness and `ENABLED`. Every safety property of a run is also a
theorem. `ServerIsFirst` is a theorem only.

## 7. Not modelled

- The data path (filters, CORDIC, dividers, ADC capture; the averages' arithmetic in
  `sa_dsp.vhd`, `fa_dsp.vhd`, `pos_calc.vhd`): wide fixed-point arithmetic, out of a model
  checker's reach. Conversions of readings to volts and degrees likewise.
- The packing of channels into a sample's 64-bit words and their decoding, and the
  latched timestamp (next in section 2).
- Signal processing control: counters that divide the machine clock; their outputs
  enter `SaData` and `LiveData` as events that may come at any time.
- The event receiver: a serial link decoder; its trigger enters `TrigLogic` as an edge.
  The order of the time-of-day events is fixed by a generator outside this repository.
- Settings messages shorter than eight bytes, which would be read beyond their end:
  the models start from whole messages.
- The remaining fields of general data and statistics, which are copies of other
  components' or libraries' counters; console commands that only print; register
  writes of `main()` that nobody reads back.
- Testbenches, build scripts, vendor IP, block designs; `discover.c`, `read_si569`,
  `read_si571`, `prog_si571`, `ina226_read_power` and `psc_sendmsgsingle`, which nothing
  calls; wiring in `top.vhd` and `ps_io.vhd` beyond the registers the models use.
- Metastability of single bits: in a synchroniser's first stage it only delays a free
  input, and the unsynchronised acknowledge register feeds one flip-flop.
- lwIP, FreeRTOS, FatFs, the AXI DMA core, DHCP's server, the I2C devices and peers
  appear as external actions with the behaviour the code relies on, and no more.
- Sends are steps that succeed or fail (`PscServer`); their bytes are planned.

## 8. Running

In this directory: `tlc -config X.cfg M` for each run of `PROJECT.json` (`settings` and
`startup` take two to three minutes, the others less), `tlapm MProofs.tla` for each proof
module (one or two minutes each, `SpiMasterProofs` six).
