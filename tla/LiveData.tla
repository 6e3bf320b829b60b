------------------------------ MODULE LiveData ------------------------------
(***************************************************************************)
(* Live data: livedata.c and the two FIFOs it reads word by word,          *)
(* adc2fifo.vhd and tbt2fifo.vhd.                                          *)
(*                                                                         *)
(* Once a second the thread starts both writers, waits 10 ms, reads and    *)
(* resets the ADC FIFO and sends it, then does the same with the           *)
(* turn-by-turn FIFO.  It looks at no count.  The ADC writer needs 0.1 ms; *)
(* the other one needs 21 ms for its 8010 turns, and runs on while the     *)
(* thread reads, or resets, its FIFO.                                      *)
(*                                                                         *)
(* A word is <<pass, sample, column>>.  Time: within the second between    *)
(* two passes both writers come to their end (the beam's turn clock runs), *)
(* within the 10 ms the ADC's.                                             *)
(***************************************************************************)
EXTENDS Integers, Sequences

CONSTANTS
    N,          \* samples read, 8000
    Extra,      \* samples written beyond them, 10 (the ADC's writer one more)
    AdcDepth,   \* words the ADC FIFO holds, 16384
    TbtDepth    \* words the turn-by-turn FIFO holds, 16384

ASSUME SizeAssumption == N \in Nat \ {0} /\ Extra \in Nat
ASSUME DepthAssumption == /\ AdcDepth \in Nat /\ AdcDepth >= 2 * (N + Extra + 1)
                          /\ TbtDepth \in Nat /\ TbtDepth >= 2 * (N + Extra)

VARIABLES
    pc, i,      \* step of the thread, word it reads
    pass,       \* number of the pass, modulo 3
    msg,        \* the words read
    adc, tbt,   \* the FIFOs' contents
    rst,        \* reset register of the turn-by-turn FIFO
    adcw, tbtw, \* the writers: [st, n]
    dry,        \* history: a read of this pass met an empty FIFO
    cut,        \* history: the last reset met the turn-by-turn writer at work
    split       \* history: since the last reset a sample's word got in alone

vars == <<pc, i, pass, msg, adc, tbt, rst, adcw, tbtw, dry, cut, split>>

Columns == [ch |-> <<"dc", "ba">>, pos |-> <<"x", "y">>]
None == <<-1, 0, "none">>       \* what an empty FIFO shows
Passes == 0..2
Idle == [st |-> "idle", n |-> 0]

-----------------------------------------------------------------------------
Init ==
    /\ pc = "start" /\ i = 0 /\ pass = 0 /\ msg = <<>>
    /\ adc = <<>> /\ tbt = <<>> /\ rst = FALSE
    /\ adcw = Idle /\ tbtw = Idle
    /\ dry = FALSE /\ cut = FALSE /\ split = FALSE

-----------------------------------------------------------------------------
(* The writers.  A reset empties the FIFO and keeps it empty while it is   *)
(* held; the writers know nothing of it.  In "alone" the x of the sample   *)
(* is not in the FIFO.                                                     *)

Full == Len(tbt) = TbtDepth
Dropped == rst \/ Full
Push(col) == IF Dropped THEN tbt ELSE Append(tbt, <<pass, tbtw.n + 1, col>>)

Cap(s, depth) == IF Len(s) > depth THEN SubSeq(s, 1, depth) ELSE s

\* The ADC's samples, at the speed of the clock: one step.
AdcWrite ==
    /\ adcw.st = "arm"
    /\ adcw' = Idle
    /\ adc' = Cap(adc \o [k \in 1..(2 * (N + Extra + 1)) |->
                               <<pass, (k + 1) \div 2, Columns.ch[((k + 1) % 2) + 1]>>],
                  AdcDepth)
    /\ UNCHANGED <<pc, i, pass, msg, tbt, rst, tbtw, dry, cut, split>>

TbtTrig ==
    /\ tbtw.st \in {"arm", "wait"}
    /\ tbtw' = [tbtw EXCEPT !.st = "x"]
    /\ UNCHANGED <<pc, i, pass, msg, adc, tbt, rst, adcw, dry, cut, split>>

TbtWriteX ==
    /\ tbtw.st = "x"
    /\ tbt' = Push("x")
    /\ tbtw' = [tbtw EXCEPT !.st = IF Dropped THEN "alone" ELSE "y"]
    /\ UNCHANGED <<pc, i, pass, msg, adc, rst, adcw, dry, cut, split>>

NextNum(n) == n + 1

TbtWriteY ==
    /\ tbtw.st \in {"y", "alone"}
    /\ tbt' = Push("y")
    /\ split' = (split \/ IF tbtw.st = "alone" THEN ~Dropped ELSE Full /\ ~rst)
    /\ tbtw' = IF NextNum(tbtw.n) = N + Extra THEN Idle
               ELSE [st |-> "wait", n |-> NextNum(tbtw.n)]
    /\ UNCHANGED <<pc, i, pass, msg, adc, rst, adcw, dry, cut>>

-----------------------------------------------------------------------------
(* The thread.                                                             *)

Goto(from, to) == pc = from /\ pc' = to

\* vTaskDelay(1000): the writers are done.
Second == adcw.st = "idle" /\ tbtw.st = "idle"

Enable ==
    /\ Goto("start", "adc") /\ Second
    /\ pass' = (pass + 1) % 3
    /\ adcw' = [st |-> "arm", n |-> 0] /\ tbtw' = [st |-> "arm", n |-> 0]
    /\ msg' = <<>> /\ i' = 0 /\ dry' = FALSE
    /\ UNCHANGED <<adc, tbt, rst, cut, split>>

\* One read of a FIFO's data register.
ReadWord(fifo) ==
    /\ msg' = Append(msg, IF fifo = <<>> THEN None ELSE Head(fifo))
    /\ i' = i + 1

Popped(fifo) == IF fifo = <<>> THEN fifo ELSE Tail(fifo)

ReadAdc ==
    /\ pc = "adc" /\ i < 2 * N
    /\ adcw.st = "idle"                     \* vTaskDelay(10)
    /\ ReadWord(adc) /\ adc' = Popped(adc)
    /\ UNCHANGED <<pc, pass, tbt, rst, adcw, tbtw, dry, cut, split>>

KeepAdc == adc                                                      \* faulty
EmptyAdc == <<>>

ResetAdc ==
    /\ i = 2 * N /\ Goto("adc", "adcreset")
    /\ adc' = EmptyAdc
    /\ UNCHANGED <<i, pass, msg, tbt, rst, adcw, tbtw, dry, cut, split>>

SendAdc ==
    /\ Goto("adcreset", "tbt")
    /\ msg' = <<>> /\ i' = 0
    /\ UNCHANGED <<pass, adc, tbt, rst, adcw, tbtw, dry, cut, split>>

ReadTbt ==
    /\ pc = "tbt" /\ i < 2 * N
    /\ ReadWord(tbt) /\ tbt' = Popped(tbt)
    /\ dry' = (dry \/ tbt = <<>>)
    /\ UNCHANGED <<pc, pass, adc, rst, adcw, tbtw, cut, split>>

KeepTbt == tbt                                                      \* faulty
EmptyTbt == <<>>

ResetTbt ==
    /\ i = 2 * N /\ Goto("tbt", "tbtreset")
    /\ rst' = TRUE /\ tbt' = EmptyTbt /\ split' = FALSE
    /\ cut' = (tbtw.st # "idle")
    /\ tbtw' = IF tbtw.st = "y" THEN [tbtw EXCEPT !.st = "alone"] ELSE tbtw
    /\ UNCHANGED <<i, pass, msg, adc, adcw, dry>>

SendTbt ==
    /\ Goto("tbtreset", "start")
    /\ rst' = FALSE
    /\ UNCHANGED <<i, pass, msg, adc, tbt, adcw, tbtw, dry, cut, split>>

livedata_push ==
    \/ Enable
    \/ ReadAdc \/ ResetAdc \/ SendAdc
    \/ ReadTbt \/ ResetTbt \/ SendTbt

Next == AdcWrite \/ TbtTrig \/ TbtWriteX \/ TbtWriteY \/ livedata_push

Spec == Init /\ [][Next]_vars

-----------------------------------------------------------------------------
Word(cols) == ({None} \cup Passes \X (1..(N + Extra + 1)) \X {cols[1], cols[2]})
WriterSt == {"idle", "arm", "x", "y", "alone", "wait"}

TypeOK ==
    /\ pc \in {"start", "adc", "adcreset", "tbt", "tbtreset"}
    /\ i \in 0..(2 * N) /\ pass \in Passes /\ rst \in BOOLEAN
    /\ msg \in Seq(Word(Columns.ch) \cup Word(Columns.pos)) /\ Len(msg) = i
    /\ adc \in Seq(Word(Columns.ch)) /\ Len(adc) <= AdcDepth
    /\ tbt \in Seq(Word(Columns.pos)) /\ Len(tbt) <= TbtDepth
    /\ adcw \in [st : {"idle", "arm"}, n : {0}]
    /\ tbtw \in [st : WriterSt, n : 0..(N + Extra - 1)]
    /\ dry \in BOOLEAN /\ cut \in BOOLEAN /\ split \in BOOLEAN

\* The samples 1..N of this pass, each with its two words.
Samples(cols) == [k \in 1..(2 * N) |-> <<pass, (k + 1) \div 2, cols[((k + 1) % 2) + 1]>>]

\* Message 51 holds the first N samples since this pass enabled the writer,
\* and nothing that an earlier pass has left in the FIFO.
AdcWhole == pc = "adcreset" => msg = Samples(Columns.ch)

AtEnd == pc = "tbt" /\ i = 2 * N

\* So does message 52, unless the thread has overtaken the writer: in this
\* pass, a read found the FIFO empty; or in the one before, the writer was
\* still at work when the FIFO was reset.
TbtWhole == AtEnd /\ ~dry /\ ~cut => msg = Samples(Columns.pos)

\* Even then x and y are those of one turn, unless a word got into the FIFO
\* without the other or a read found it empty.
TbtPairs ==
    AtEnd /\ ~dry /\ ~split =>
        \A k \in 1..N : /\ msg[2 * k - 1][3] = "x" /\ msg[2 * k][3] = "y"
                       /\ \A c \in 1..2 : msg[2 * k - 1][c] = msg[2 * k][c]

\* What the writer leaves behind after a reset is sent one pass later at most.
OnePassOld ==
    pc = "tbt" => \A k \in 1..i : msg[k] = None \/ msg[k][1] # (pass + 1) % 3

=============================================================================
