------------------------------- MODULE SaData -------------------------------
(***************************************************************************)
(* Slow acquisition: the FPGA's block average (sa_dsp.vhd) and the thread  *)
(* that sends it (sadata.c).                                               *)
(*                                                                         *)
(* Two events that are not tied to each other drive the registers.  Every  *)
(* 38000 turns a block is complete: it is latched and the count goes up.   *)
(* The 10 Hz trigger moves the latched block to the registers.  The thread *)
(* polls the count every 10 ms, waits once more, and reads the count again *)
(* and then the fields, register by register, while both events go on.     *)
(*                                                                         *)
(* Counts are 32 bits wide in the code; here they wrap at W.               *)
(***************************************************************************)
EXTENDS Integers

CONSTANTS
    W,          \* the count wraps here
    Fields      \* number of fields read after the count

ASSUME WAssumption == W \in Nat /\ W > 4
ASSUME FieldsAssumption == Fields \in Nat \ {0}

VARIABLES
    cnt,        \* SA_TRIGNUM: number of the latest complete block
    out,        \* the block on the registers
    pc,         \* "poll", "delay", "count", "field", "send"
    poll, prev, \* sa_cnt, sa_cnt_prev
    msg,        \* count: the number read, field[f]: the block field f is of
    fld,        \* next field
    sent,       \* history: number of the last record sent
    again,      \* history: how often it was sent
    looks,      \* history: reads of the count since the last block, up to 2
    burst,      \* history: blocks since the last read of the count
    rushed,     \* history: a block came before the second read
    shown,      \* history: a trigger came since the last block
    drift       \* history: no trigger came between two blocks

fabric == <<cnt, out, shown, drift>>
thread == <<pc, poll, prev, msg, fld>>
pace == <<looks, burst, rushed>>
sa_vars == <<fabric, thread, sent, again, pace>>

Field == 1..Fields
Count == 0..(W - 1)
Ahead(a, b) == (a - b) % W          \* how far count a is ahead of b

-----------------------------------------------------------------------------
SaInit ==
    /\ cnt = 0 /\ out = 0
    /\ pc = "poll" /\ poll = 0 /\ prev = 0 /\ fld = 1
    /\ msg = [count |-> 0, field |-> [f \in Field |-> 0]]
    /\ sent = 0 /\ again = 0
    /\ looks = 2 /\ burst = 0 /\ rushed = FALSE /\ shown = TRUE /\ drift = FALSE

MaxBurst == 2       \* bound on the blocks between two reads of the count
NextCount == (cnt + 1) % W

\* A block is complete.
Block ==
    /\ burst < MaxBurst
    /\ cnt' = NextCount
    /\ burst' = burst + 1 /\ looks' = 0 /\ rushed' = (rushed \/ looks < 2)
    /\ drift' = (drift \/ ~shown) /\ shown' = FALSE
    /\ UNCHANGED <<out, thread, sent, again>>

\* The 10 Hz trigger, from the event receiver or counted in the FPGA.
OneMoreStage == cnt - 1                                             \* faulty
Latched == cnt
SaTrig ==
    /\ out' = Latched % W /\ shown' = TRUE
    /\ UNCHANGED <<cnt, drift, thread, sent, again, pace>>

-----------------------------------------------------------------------------
Look == /\ looks' = IF looks = 2 THEN 2 ELSE looks + 1
        /\ burst' = 0 /\ UNCHANGED rushed

Poll ==
    /\ pc = "poll"
    /\ poll' = cnt /\ Look
    /\ pc' = "delay"
    /\ UNCHANGED <<fabric, prev, msg, fld, sent, again>>

NewerOnly == poll > prev                                            \* faulty
News == poll # prev

ExpectNext == (poll + 1) % W                                        \* faulty
NextPrev == poll

\* After the 10 ms: round again, or on to the record.
Delay ==
    /\ pc = "delay"
    /\ pc' = IF News THEN "count" ELSE "poll"
    /\ prev' = IF News THEN NextPrev ELSE prev
    /\ UNCHANGED <<fabric, poll, msg, fld, sent, again, pace>>

ReadCount ==
    /\ pc = "count"
    /\ msg' = [msg EXCEPT !.count = cnt] /\ Look
    /\ fld' = 1 /\ pc' = "field"
    /\ UNCHANGED <<fabric, poll, prev, sent, again>>

ReadField ==
    /\ pc = "field"
    /\ msg' = [msg EXCEPT !.field[fld] = out]
    /\ IF fld = Fields THEN pc' = "send" /\ fld' = 1 ELSE pc' = "field" /\ fld' = fld + 1
    /\ UNCHANGED <<fabric, poll, prev, sent, again, pace>>

Send ==
    /\ pc = "send"
    /\ sent' = msg.count
    /\ again' = IF sent # msg.count THEN 1 ELSE IF again = 3 THEN 3 ELSE again + 1
    /\ pc' = "poll"
    /\ UNCHANGED <<fabric, poll, prev, msg, fld, pace>>

sadata_push == Poll \/ Delay \/ ReadCount \/ ReadField \/ Send

SaNext == Block \/ SaTrig \/ sadata_push

SaSafetySpec == SaInit /\ [][SaNext]_sa_vars

\* The thread gets its turns, and psc_send returns; the beam and the events
\* need not come.
SaSpec == SaSafetySpec /\ WF_sa_vars(sadata_push)

-----------------------------------------------------------------------------
SaTypeOK ==
    /\ cnt \in Count /\ out \in Count /\ shown \in BOOLEAN /\ drift \in BOOLEAN
    /\ pc \in {"poll", "delay", "count", "field", "send"}
    /\ poll \in Count /\ prev \in Count /\ fld \in Field
    /\ msg \in [count : Count, field : [Field -> Count]]
    /\ sent \in Count /\ again \in 0..3
    /\ looks \in 0..2 /\ burst \in 0..MaxBurst /\ rushed \in BOOLEAN

\* A record that follows another has its number or the next, as long as the
\* thread reads the count twice between blocks: none is skipped and none comes
\* out of order, also where the count wraps.
NoBlockSkipped ==
    [][Send /\ again # 0 /\ ~rushed => Ahead(sent', sent) \in {0, 1}]_sa_vars

\* A block that ends between the poll and the second read is reported twice;
\* no number is ever sent three times, however the blocks come.
NotThrice == again < 3

\* The number and the fields of a record are of neighbouring blocks, as long
\* as a trigger follows each block and the thread keeps pace.  They need
\* not be of one block: the trigger may be late, or come while they are read.
FieldsNear ==
    pc = "send" /\ ~rushed /\ ~drift =>
        \A f \in Field : \/ Ahead(msg.count, msg.field[f]) \in {0, 1}
                        \/ Ahead(msg.field[f], msg.count) = 1

\* A new number always leads to a record.
NewsSent == cnt # prev ~> pc = "send"

=============================================================================
