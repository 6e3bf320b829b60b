---------------------------- MODULE SettingsMsg -----------------------------
(***************************************************************************)
(* What a settings message asks for (control.c, reg_settings): the part of *)
(* the hardware it is about, whether it is carried out at all, and what it *)
(* leaves there.                                                           *)
(*                                                                         *)
(* Three kinds of setting differ in how they get there:                    *)
(*   - a level: one register, which the logic reads all the time;          *)
(*   - a line: a bit that is written 1 and then 0; the soft trigger's rise *)
(*     is one event, a clock manager shifts its phase while its bit is 1;  *)
(*   - the input delay taps, loaded from one register while another is 1.  *)
(* The addresses whose calls are commented out (fine and coarse delay,     *)
(* beam threshold, front panel LED) and the unknown ones are "ignored".    *)
(* ADC_SPI_MSG is in SpiMaster, what follows a new burst length in DmaArm. *)
(***************************************************************************)
EXTENDS Integers

CONSTANTS
  PlainTop,           \* [registers written as they are -> values they hold]
  MaxLen,             \* [registers with a burst length -> longest burst]
  MinLen,             \* shortest burst
  Half,               \* half the number of values of a 32-bit word
  Message             \* messages clients send: the address and the data

Plain == DOMAIN PlainTop
Burst == DOMAIN MaxLen

ASSUME PlainAssumption == \A r \in Plain : PlainTop[r] \in Nat \ {0}
ASSUME BurstAssumption ==
  /\ MinLen \in Nat
  /\ \A b \in Burst : MaxLen[b] \in Nat /\ MinLen <= MaxLen[b] /\ MaxLen[b] < Half
ASSUME HalfAssumption == Half \in Nat \ {0}

Line  == {"dma_softtrig", "adc0_mmcm", "adc1_mmcm"}
Mmcm  == {"adc0_mmcm", "adc1_mmcm"}
Fixed == {"dma_trigsrc", "rf_dsa"}
Level == Plain \cup Burst \cup Fixed

ASSUME NamesAssumption ==
  /\ Plain \cap Burst = {}
  /\ (Plain \cup Burst) \cap (Fixed \cup Line \cup {"adc_idly", "ignored"}) = {}

Word == 0..(2 * Half - 1)

ASSUME MessageAssumption ==
  Message \subseteq [id : Level \cup Line \cup {"adc_idly", "ignored"}, data : Word]

DsaTop == 256         \* the attenuator's register has 8 bits, 0.25 dB each
TapTop == 512         \* the delay's has 9

-----------------------------------------------------------------------------
\* Faulty variant: the upper limit is not applied.
ClampLow(val, min, max) == IF val < min THEN min ELSE val

clamp(val, min, max) ==
  IF val < min THEN min ELSE IF val > max THEN max ELSE val

\* The u32 of the message becomes the int that clamp takes.
AsInt(u) == IF u < Half THEN u ELSE u - 2 * Half

\* What the register of a level holds when the message has been carried out.
Stored(m) ==
  CASE m.id \in Plain      -> m.data % PlainTop[m.id]
    [] m.id \in Burst      -> clamp(AsInt(m.data), MinLen, MaxLen[m.id])
    [] m.id = "rf_dsa"      -> (4 * m.data) % DsaTop
    [] OTHER               -> m.data

\* The messages that reach the hardware.
Valid(m) ==
  /\ m.id # "ignored"
  /\ m.id = "dma_trigsrc" => m.data \in {0, 1}
  /\ m.id \in Line => m.data = 1

LevelValue(r) ==
  CASE r \in Plain     -> 0..(PlainTop[r] - 1)
    [] r \in Burst     -> MinLen..MaxLen[r]
    [] r = "rf_dsa"     -> 0..(DsaTop - 1)
    [] OTHER           -> {0, 1}
=============================================================================
