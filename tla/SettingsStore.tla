--------------------------- MODULE SettingsStore ----------------------------
(***************************************************************************)
(* What the settings promise the clients, without registers' writes and    *)
(* strobes.  Each message is carried out at one moment between its receipt *)
(* and its end, as if the hardware changed at once: the place gets the     *)
(* value asked for, or some value of its range if it cannot hold that one. *)
(* Two things may happen to it instead: it is overtaken, when others about *)
(* the same place are carried out together and one of them stays; and a    *)
(* line's message may share the event of one that is not over yet.  A soft *)
(* trigger is carried out once; a clock manager's message shifts the phase *)
(* at least once, and it may shift further until the message ends.         *)
(***************************************************************************)
EXTENDS SettingsMsg

CONSTANTS Client, NoMsg

VARIABLES
  store,              \* levels, the taps, and each line's events (parity)
  req,                \* the message each client's thread is carrying out
  served              \* whether it has been

vars == <<store, req, served>>

Place == Level \cup Line \cup {"adc_idly"}

StoreInit ==
  /\ \A r \in Level : store[r] \in LevelValue(r)
  /\ \A l \in Line : store[l] = 0
  /\ store["adc_idly"] \in 0..(TapTop - 1)
  /\ req = [c \in Client |-> NoMsg]
  /\ served = [c \in Client |-> FALSE]

\* The values a place can have, and those a message may give it: one more event,
\* or the value asked for (4 steps per dB of attenuation), if there is such a one.
Value(p) == IF p = "adc_idly" THEN 0..(TapTop - 1) ELSE LevelValue(p)

Wanted(m) == IF m.id = "rf_dsa" THEN 4 * m.data ELSE m.data

Results(m) ==
  IF m.id \in Line THEN {1 - store[m.id]}
  ELSE IF Wanted(m) \in Value(m.id) THEN {Wanted(m)} ELSE Value(m.id)

Begin(c, m) ==
  /\ req[c] = NoMsg
  /\ req' = [req EXCEPT ![c] = m]
  /\ served' = [served EXCEPT ![c] = ~Valid(m)]
  /\ UNCHANGED store

\* The place of the message changes, and no other.  Others that wait for the
\* same place may be overtaken: c's value stays.
CarryOut(c) ==
  /\ req[c] # NoMsg /\ ~served[c]
  /\ store'[req[c].id] \in Results(req[c])
  /\ store' = [store EXCEPT ![req[c].id] = store'[req[c].id]]
  /\ \E D \in SUBSET {d \in Client : req[d] # NoMsg /\ req[d].id = req[c].id} :
        served' = [d \in Client |-> served[d] \/ d = c \/ d \in D]
  /\ UNCHANGED req

Share(c) ==
  /\ req[c] # NoMsg /\ req[c].id \in Line
  /\ \E d \in Client \ {c} :
        req[d] # NoMsg /\ req[d].id = req[c].id /\ served[d]
  /\ served' = [served EXCEPT ![c] = TRUE]
  /\ UNCHANGED <<store, req>>

Again(c) ==
  /\ req[c] # NoMsg /\ req[c].id \in Mmcm /\ served[c]
  /\ store' = [store EXCEPT ![req[c].id] = 1 - @]
  /\ UNCHANGED <<req, served>>

End(c) ==
  /\ req[c] # NoMsg /\ served[c]
  /\ req' = [req EXCEPT ![c] = NoMsg]
  /\ served' = [served EXCEPT ![c] = FALSE]
  /\ UNCHANGED store

StoreNext ==
  \E c \in Client :
     \/ \E m \in Message : Begin(c, m)
     \/ CarryOut(c) \/ Share(c) \/ Again(c) \/ End(c)

StoreSpec == StoreInit /\ [][StoreNext]_vars
=============================================================================
