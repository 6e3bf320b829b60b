---------------------------- MODULE AcqHandshake ----------------------------
(***************************************************************************)
(* What the triggered acquisition promises its reader, without clocks,     *)
(* registers or channels.  One capture at a time goes round                *)
(*                                                                         *)
(*     ready -> capturing -> announced -> sending -> ready                 *)
(*                                                                         *)
(* A capture is announced by exactly one increment of the trigger count,   *)
(* the announcement is fetched before the next capture can start, and the  *)
(* buffers belong to the reader from the fetch to the release.             *)
(*                                                                         *)
(* The hardware keeps this promise until a trigger meets the acknowledge   *)
(* pulse of the previous one, or the count is read while it changes (see   *)
(* TrigLogic); Break marks that moment, and nothing is promised after it.  *)
(***************************************************************************)
EXTENDS Naturals

CONSTANT CntMax       \* largest value of the trigger count, which wraps to 0

VARIABLES
  phase,              \* where the one capture stands
  count,              \* captures announced so far (modulo wrap)
  fetched,            \* the announcement the reader has taken
  broken              \* the promise has ended

vars == <<phase, count, fetched, broken>>

Phase == {"ready", "capturing", "announced", "sending"}

\* The successor of a wrapping counter.
Inc(c) == IF c = CntMax THEN 0 ELSE c + 1

TypeOK ==
  /\ phase \in Phase
  /\ count \in 0..CntMax
  /\ fetched \in 0..CntMax
  /\ broken \in BOOLEAN

Init ==
  /\ phase = "ready"
  /\ count = 0
  /\ fetched = 0
  /\ broken = FALSE

Move(from, to) ==
  /\ ~broken
  /\ phase = from
  /\ phase' = to
  /\ UNCHANGED broken

Accept   == Move("ready", "capturing") /\ UNCHANGED <<count, fetched>>
Announce == /\ Move("capturing", "announced")
            /\ count' = Inc(count)
            /\ UNCHANGED fetched
Fetch    == /\ Move("announced", "sending")
            /\ fetched' = count
            /\ UNCHANGED count
Release  == Move("sending", "ready") /\ UNCHANGED <<count, fetched>>

\* Out of the contract: entered from a capture in progress, never left.
Break ==
  /\ broken \/ phase = "capturing"
  /\ broken' = TRUE
  /\ phase' \in Phase
  /\ count' \in 0..CntMax
  /\ fetched' \in 0..CntMax

Next == Accept \/ Announce \/ Fetch \/ Release \/ Break

Spec == Init /\ [][Next]_vars

\* Every capture is announced, fetched and released, unless the contract
\* is broken first.
Served == \A p \in Phase \ {"ready"} : phase = p ~> (phase = "ready" \/ broken)

=============================================================================
