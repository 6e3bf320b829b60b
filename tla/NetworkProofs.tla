--------------------------- MODULE NetworkProofs ----------------------------
(***************************************************************************)
(* Until the server listens, and what a client's thread then does with its *)
(* stream.  First the start of Startup, for every set of addresses, every  *)
(* NET.CNF, every number of power cuts and of tasks; then the framing of   *)
(* PscMsg, for every length of message, buffer, header and chunk.          *)
(***************************************************************************)
EXTENDS Startup, PscMsg, TLAPS

(***************************************************************************)
(* The invariant that carries the proofs.                                  *)
(***************************************************************************)

\* The tasks are started in one step of the main thread, when the server's key
\* has been set.
ServerInv ==
  /\ main \in {"start", "serve"} => the_server
  /\ main = "start" => tasks < NTask
  /\ main \notin {"start", "serve"} => tasks = 0

\* The statistics task holds the address whose text it writes.
TextInv == lstats.step = "text" => \E a \in Addr : lstats.got = <<a>>

\* How far the card has been put in order, when no access has failed.
CardInv ==
  ~faulted =>
    /\ main \in {"dat", "read", "trunc", "write", "sync", "close"} => ~eeprom_new
    /\ main = "close" => eeprom_dat = FullDat
    /\ main = "net" => /\ ~eeprom_new /\ eeprom_dat.size = "full"
                       /\ matched \/ ~eeprom_dat.torn

\* The lines of a kind that have been read have a last one.
HasLast(S) == S = {} \/ \E i \in S : \A j \in S : j <= i

LastInv ==
  /\ HasLast(ModeLines)
  /\ HasLast(LinesWith("addr", Address))
  /\ HasLast(LinesWith("gw", Address))
  /\ HasLast(Lines("hwaddr"))

IInv == TypeOK /\ ServerInv /\ TextInv /\ CardInv /\ LastInv /\ ConfigAsRead
-----------------------------------------------------------------------------
(* Lines of NET.CNF *)

LEMMA LastIs ==
  ASSUME NEW S \in SUBSET Nat, NEW n \in S, \A j \in S : j <= n
  PROVE  Last(S) = n
<1>1. \A i \in S : (\A j \in S : j <= i) => i = n
  OBVIOUS
<1>2. QED
  BY <1>1 DEF Last

\* A further line is the last of its kind, or leaves the kind as it was.
LEMMA Further ==
  ASSUME NEW n \in Nat, NEW S \in SUBSET (1..n), NEW T \in SUBSET (1..(n + 1)),
         \A k \in 1..n : k \in T <=> k \in S,
         HasLast(S)
  PROVE  /\ HasLast(T)
         /\ n + 1 \in T => Last(T) = n + 1
         /\ n + 1 \notin T => T = S
<1>1. CASE n + 1 \in T
  <2>1. \A j \in T : j <= n + 1
    OBVIOUS
  <2>2. T \in SUBSET Nat
    OBVIOUS
  <2>3. Last(T) = n + 1
    BY <1>1, <2>1, <2>2, LastIs
  <2>4. QED
    BY <1>1, <2>1, <2>3 DEF HasLast
<1>2. CASE n + 1 \notin T
  <2>1. T = S
    <3>1. \A k \in 1..(n + 1) : k # n + 1 => k \in 1..n
      OBVIOUS
    <3>2. QED
      BY <1>2, <3>1
  <2>2. QED
    BY <1>2, <2>1
<1>3. QED
  BY <1>1, <1>2

LEMMA LastIn ==
  ASSUME NEW n \in Nat, NEW S \in SUBSET (1..n), S # {}, HasLast(S)
  PROVE  Last(S) \in S
<1>1. PICK i \in S : \A j \in S : j <= i
  BY DEF HasLast
<1>2. Last(S) = i
  BY <1>1, LastIs
<1>3. QED
  BY <1>1, <1>2
-----------------------------------------------------------------------------
LEMMA InitInv ==
  ASSUME Init
  PROVE  IInv
<1>1. TypeOK
  <2>1. /\ main \in CardStep /\ part \in 0..1 /\ cuts \in 0..MaxCuts /\ tasks \in 0..NTask
    BY BoundAssumption DEF Init, CardStep
  <2>2. conf \in [use_static : BOOLEAN, addr : Addr, gw : Addr,
                  hwaddr : {"zero", "eeprom", "text"}]
    BY DEF Init, NoConf, Addr
  <2>3. pieces \in Seq(Piece) /\ Len(pieces) <= MaxPieces
    BY BoundAssumption DEF Init
  <2>4. text \in Text \X Text
    BY DEF Init, Text, Addr
  <2>5. lstats \in [step : {"sleep", "text", "copy", "copy2", "send"}, got : Seq(Text)]
    BY DEF Init
  <2>6. dhcpcd \in [step : {"sleep", "ip", "gw", "prev"}, prev : Addr] /\ ip_addr \in Addr
    BY DEF Init, Addr
  <2>7. QED
    BY <2>1, <2>2, <2>3, <2>4, <2>5, <2>6 DEF Init, TypeOK
<1>2. ServerInv /\ TextInv /\ CardInv
  BY BoundAssumption DEF Init, ServerInv, TextInv, CardInv, CardStep
<1>3. \A c : Lines(c) = {}
  BY DEF Init, Lines
<1>4. \A c, A : LinesWith(c, A) = {}
  BY <1>3 DEF LinesWith
<1>5. ModeLines = {}
  BY <1>3, <1>4 DEF ModeLines, StaticLines
<1>6. LastInv
  BY <1>3, <1>4, <1>5 DEF LastInv, HasLast
<1>7. AsRead
  BY <1>3, <1>4, <1>5 DEF AsRead, LastArg, Init, NoConf
<1>8. QED
  BY <1>1, <1>2, <1>6, <1>7 DEF IInv, ConfigAsRead
-----------------------------------------------------------------------------
(* Types *)

LEMMA CardType ==
  ASSUME TypeOK, CardOnly, UNCHANGED conf_vars,
         main' \in CardStep \cup {"net"}, part' \in 0..1, eeprom_new' \in BOOLEAN,
         eeprom_dat' \in Dat, matched' \in BOOLEAN, faulted' \in BOOLEAN
  PROVE  TypeOK'
BY DEF TypeOK, CardOnly, conf_vars, net_vars, task_vars, text_vars

LEMMA TaskType ==
  ASSUME TypeOK, BootOnly, UNCHANGED <<nic, dhcp>>,
         ip_addr' \in Addr, text' \in Text \X Text,
         lstats' \in [step : {"sleep", "text", "copy", "copy2", "send"}, got : Seq(Text)],
         dhcpcd' \in [step : {"sleep", "ip", "gw", "prev"}, prev : Addr]
  PROVE  TypeOK'
BY DEF TypeOK, BootOnly, conf_vars, card_vars, task_vars

LEMMA ParseType ==
  ASSUME NEW c \in [use_static : BOOLEAN, addr : Addr, gw : Addr,
                    hwaddr : {"zero", "eeprom", "text"}],
         NEW p \in Piece
  PROVE  Parse(c, p) \in [use_static : BOOLEAN, addr : Addr, gw : Addr,
                          hwaddr : {"zero", "eeprom", "text"}]
<1>1. \A a \in Addr : sdcard_parse_inet(p.arg, a) \in Addr
  BY DEF sdcard_parse_inet, Addr
<1>2. QED
  BY <1>1 DEF Parse

LEMMA DatType ==
  ASSUME NEW d \in Dat
  PROVE  /\ FullDat \in Dat /\ [size |-> "short", torn |-> FALSE] \in Dat
         /\ \A z \in {"short", "full"} : [d EXCEPT !.size = z] \in Dat
         /\ [d EXCEPT !.torn = TRUE] \in Dat
BY DEF Dat, FullDat

LEMMA CardStepType ==
  ASSUME TypeOK, sdcard_handle
  PROVE  TypeOK'
<1> USE DEF CardStep, Goto
<1>1. CASE EndCnf
  BY <1>1, CardType DEF EndCnf, TypeOK, card_vars
<1>2. CASE CloseDat
  <2>1. eeprom_dat \in Dat
    BY DEF TypeOK
  <2>2. eeprom_dat' \in Dat
    BY <1>2, <2>1, DatType DEF CloseDat
  <2>3. UNCHANGED <<part, conf_vars, eeprom_new, matched, faulted>> /\ main' = "net"
    BY <1>2 DEF CloseDat
  <2>4. QED
    BY <1>2, <2>2, <2>3, CardType DEF CloseDat, TypeOK
<1>3. ASSUME NEW p \in Piece, sdcard_netconf(p)
      PROVE  TypeOK'
  <2>1. conf' \in [use_static : BOOLEAN, addr : Addr, gw : Addr,
                   hwaddr : {"zero", "eeprom", "text"}]
    BY <1>3, ParseType DEF sdcard_netconf, TypeOK
  <2>2. pieces' \in Seq(Piece) /\ Len(pieces') = Len(pieces) + 1
    BY <1>3 DEF sdcard_netconf, TypeOK
  <2>3. Len(pieces') <= MaxPieces
    BY <1>3, <2>2, BoundAssumption DEF sdcard_netconf, TypeOK
  <2>4. QED
    BY <1>3, <2>1, <2>2, <2>3
       DEF sdcard_netconf, CardOnly, TypeOK, card_vars, net_vars, task_vars, text_vars
<1>4. ASSUME NEW ok \in BOOLEAN,
             \/ sdcard_trypart(ok) \/ OpenCnf(ok) \/ OpenNew(ok) \/ UnlinkNew(ok)
      PROVE  TypeOK'
  <2>1. CardOnly /\ UNCHANGED conf_vars
    BY <1>4 DEF sdcard_trypart, OpenCnf, OpenNew, UnlinkNew
  <2>2. main' \in CardStep \cup {"net"} /\ part' \in 0..1
    BY <1>4 DEF sdcard_trypart, OpenCnf, OpenNew, UnlinkNew, TypeOK
  <2>3. eeprom_new' \in BOOLEAN /\ faulted' \in BOOLEAN
    BY <1>4 DEF sdcard_trypart, OpenCnf, OpenNew, UnlinkNew, TypeOK, card_vars
  <2>4. UNCHANGED <<eeprom_dat, matched>>
    BY <1>4 DEF sdcard_trypart, OpenCnf, OpenNew, UnlinkNew, card_vars
  <2>5. QED
    BY <2>1, <2>2, <2>3, <2>4, CardType DEF TypeOK
<1>5. ASSUME NEW ok \in BOOLEAN, NEW match \in BOOLEAN,
             \/ OpenDat(ok) \/ Truncate(ok) \/ WriteDat(ok) \/ SyncDat(ok)
             \/ ReadDat(ok, match)
      PROVE  TypeOK'
  <2>1. CardOnly /\ UNCHANGED conf_vars
    BY <1>5 DEF OpenDat, Truncate, WriteDat, SyncDat, ReadDat
  <2>2. main' \in CardStep \cup {"net"} /\ part' \in 0..1
    BY <1>5 DEF OpenDat, Truncate, WriteDat, SyncDat, ReadDat, TypeOK
  <2>3. eeprom_new' \in BOOLEAN /\ faulted' \in BOOLEAN
    BY <1>5 DEF OpenDat, Truncate, WriteDat, SyncDat, ReadDat, TypeOK, card_vars
  <2>4. matched' \in BOOLEAN
    BY <1>5 DEF OpenDat, Truncate, WriteDat, SyncDat, ReadDat, TypeOK, card_vars
  <2>5. eeprom_dat \in Dat
    BY DEF TypeOK
  <2>6. eeprom_dat' \in Dat
    <3>1. CASE OpenDat(ok) \/ Truncate(ok)
      BY <2>5, <3>1, DatType DEF OpenDat, Truncate
    <3>2. CASE WriteDat(ok) \/ SyncDat(ok) \/ ReadDat(ok, match)
      BY <2>5, <3>2, DatType DEF WriteDat, SyncDat, ReadDat, card_vars
    <3>3. QED
      BY <1>5, <3>1, <3>2
  <2>7. QED
    BY <2>1, <2>2, <2>3, <2>4, <2>6, CardType
<1>6. QED
  BY <1>1, <1>2, <1>3, <1>4, <1>5 DEF sdcard_handle

LEMMA NextType ==
  ASSUME TypeOK, ServerInv, TextInv, [Next]_vars
  PROVE  TypeOK'
<1>1. CASE sdcard_handle
  BY <1>1, CardStepType
<1>2. CASE PowerCut
  <2>1. /\ cuts' \in 0..MaxCuts /\ main' \in CardStep /\ part' \in 0..1
        /\ faulted' \in BOOLEAN /\ matched' \in BOOLEAN
    <3>1. cuts \in 0..MaxCuts
      BY DEF TypeOK
    <3>2. cuts' \in 0..MaxCuts /\ part' \in 0..1
      BY <1>2, <3>1, BoundAssumption DEF PowerCut
    <3>3. main' \in CardStep /\ faulted' \in BOOLEAN /\ matched' \in BOOLEAN
      BY <1>2 DEF PowerCut, CardStep
    <3>4. QED
      BY <3>2, <3>3
  <2>2. conf' \in [use_static : BOOLEAN, addr : Addr, gw : Addr,
                   hwaddr : {"zero", "eeprom", "text"}]
    BY <1>2 DEF PowerCut, NoConf, Addr
  <2>3. pieces' \in Seq(Piece) /\ Len(pieces') <= MaxPieces
    BY <1>2, BoundAssumption DEF PowerCut
  <2>4. /\ UNCHANGED <<eeprom_new, eeprom_dat, nic, dhcp, ip_addr>>
        /\ UNCHANGED <<the_server, tasks, text, lstats, dhcpcd>>
    BY <1>2 DEF PowerCut, net_vars, task_vars, text_vars
  <2>5. QED
    BY <2>1, <2>2, <2>3, <2>4 DEF TypeOK
<1>3. ASSUME NEW ok \in BOOLEAN, NEW dhcp_ok \in BOOLEAN, net_setup(ok, dhcp_ok)
      PROVE  TypeOK'
  <2>1. NoConf \in [use_static : BOOLEAN, addr : Addr, gw : Addr,
                    hwaddr : {"zero", "eeprom", "text"}]
    BY DEF NoConf, Addr
  <2>2. pieces' \in Seq(Piece) /\ Len(pieces') <= MaxPieces
    BY <1>3, BoundAssumption DEF net_setup
  <2>3. nic' \in BOOLEAN /\ dhcp' \in BOOLEAN /\ (dhcp' => nic')
    BY <1>3 DEF net_setup, TypeOK
  <2>4. ip_addr' \in Addr /\ main' = "run"
    BY <1>3 DEF net_setup, TypeOK, Goto
  <2>5. QED
    BY <1>3, <2>1, <2>2, <2>3, <2>4 DEF net_setup, TypeOK, task_vars, text_vars
<1>4. ASSUME NEW ok \in BOOLEAN, psc_run(ok)
      PROVE  TypeOK'
  BY <1>4 DEF psc_run, Goto, TypeOK, conf_vars, card_vars, net_vars, text_vars
<1>5. CASE on_startup
  <2>1. tasks' \in 0..NTask
    BY <1>5, BoundAssumption DEF on_startup, TypeOK, ServerInv
  <2>2. main' \in {"start", "serve"}
    BY <1>5 DEF on_startup
  <2>3. QED
    BY <1>5, <2>1, <2>2 DEF on_startup, TypeOK, conf_vars, card_vars, net_vars, text_vars
<1>6. ASSUME NEW a \in Addr, Lease(a)
      PROVE  TypeOK'
  BY <1>6, TaskType DEF Lease, TypeOK, text_vars
<1>7. CASE LogAddress
  <2>1. text' \in Text \X Text
    BY <1>7 DEF LogAddress, TypeOK, Text
  <2>2. QED
    BY <1>7, <2>1, TaskType DEF LogAddress, TypeOK, net_vars
<1>8. CASE dhcp_client
  <2>1. text' \in Text \X Text
    BY <1>8 DEF dhcp_client, ShowNew, TypeOK, Text
  <2>2. dhcpcd' \in [step : {"sleep", "ip", "gw", "prev"}, prev : Addr]
    BY <1>8 DEF dhcp_client, ShowNew, TypeOK
  <2>3. QED
    BY <1>8, <2>1, <2>2, TaskType DEF dhcp_client, TypeOK, net_vars
<1>9. CASE lstats_push
  <2> USE DEF LstatsStep
  <2>1. lstats \in [step : {"sleep", "text", "copy", "copy2", "send"}, got : Seq(Text)]
        /\ text \in Text \X Text /\ ip_addr \in Text
    BY DEF TypeOK, Text
  <2>2. CASE LstatsStep("sleep", "text", <<ip_addr>>) /\ text' = <<ip_addr, text[2]>>
    BY <2>1, <2>2, TaskType DEF TypeOK, net_vars
  <2>3. CASE LstatsStep("text", "copy", <<>>) /\ text' = <<text[1], lstats.got[1]>>
    <3>1. lstats.got[1] \in Text
      BY <2>3 DEF TextInv, Text
    <3>2. text' \in Text \X Text
      BY <2>1, <2>3, <3>1
    <3>3. QED
      BY <2>1, <2>3, <3>2, TaskType DEF TypeOK, net_vars
  <2>4. CASE LstatsStep("copy", "copy2", <<text[1]>>) /\ UNCHANGED text
    BY <2>1, <2>4, TaskType DEF TypeOK, net_vars
  <2>5. CASE LstatsStep("copy2", "send", Append(lstats.got, text[2])) /\ UNCHANGED text
    BY <2>1, <2>5, TaskType DEF TypeOK, net_vars
  <2>6. CASE LstatsStep("send", "sleep", <<>>) /\ UNCHANGED text
    BY <2>1, <2>6, TaskType DEF TypeOK, net_vars
  <2>7. QED
    BY <1>9, <2>2, <2>3, <2>4, <2>5, <2>6 DEF lstats_push
<1>10. CASE UNCHANGED vars
  BY <1>10 DEF TypeOK, vars, conf_vars, card_vars, net_vars, task_vars, text_vars
<1>11. QED
  BY <1>1, <1>2, <1>3, <1>4, <1>5, <1>6, <1>7, <1>8, <1>9, <1>10 DEF Next, realmain
-----------------------------------------------------------------------------
(* The server's key, and the address record *)

LEMMA NextServer ==
  ASSUME TypeOK, ServerInv, [Next]_vars
  PROVE  ServerInv'
<1> USE DEF ServerInv
<1>1. CASE sdcard_handle
  <2>1. main \in CardStep /\ main' \in CardStep \cup {"net"} /\ UNCHANGED task_vars
    BY <1>1 DEF sdcard_handle, EndCnf, CloseDat, sdcard_netconf, sdcard_trypart,
         OpenCnf, OpenNew, UnlinkNew, OpenDat, Truncate, WriteDat, SyncDat, ReadDat,
         Goto, CardOnly, CardStep
  <2>2. QED
    BY <2>1 DEF CardStep, task_vars
<1>2. CASE PowerCut
  BY <1>2 DEF PowerCut, CardStep, task_vars
<1>3. ASSUME NEW ok \in BOOLEAN, NEW dhcp_ok \in BOOLEAN, net_setup(ok, dhcp_ok)
      PROVE  ServerInv'
  BY <1>3 DEF net_setup, Goto, task_vars
<1>4. ASSUME NEW ok \in BOOLEAN, psc_run(ok)
      PROVE  ServerInv'
  BY <1>4, BoundAssumption DEF psc_run, Goto
<1>5. CASE on_startup
  BY <1>5, BoundAssumption DEF on_startup, TypeOK
<1>6. CASE UNCHANGED <<main, task_vars>>
  BY <1>6 DEF task_vars
<1>7. ASSUME NEW a \in Addr, Lease(a)
      PROVE  UNCHANGED <<main, task_vars>>
  BY <1>7 DEF Lease, BootOnly
<1>8. ASSUME LogAddress \/ dhcp_client \/ lstats_push \/ UNCHANGED vars
      PROVE  UNCHANGED <<main, task_vars>>
  BY <1>8 DEF LogAddress, dhcp_client, lstats_push, LstatsStep, BootOnly, vars
<1>9. QED
  BY <1>1, <1>2, <1>3, <1>4, <1>5, <1>6, <1>7, <1>8 DEF Next, realmain

LEMMA NextText ==
  ASSUME TypeOK, TextInv, [Next]_vars
  PROVE  TextInv'
<1>1. CASE lstats_push
  <2>1. ip_addr \in Addr
    BY DEF TypeOK
  <2>2. QED
    BY <1>1, <2>1 DEF TextInv, lstats_push, LstatsStep
<1>2. ASSUME ~lstats_push
      PROVE  lstats' = lstats
  <2>1. ASSUME sdcard_handle
        PROVE  CardOnly
    BY <2>1 DEF sdcard_handle, EndCnf, CloseDat, sdcard_netconf, sdcard_trypart,
         OpenCnf, OpenNew, UnlinkNew, OpenDat, Truncate, WriteDat, SyncDat, ReadDat
  <2>2. ASSUME NEW a \in Addr, Lease(a)
        PROVE  UNCHANGED text_vars
    BY <2>2 DEF Lease
  <2>3. ASSUME NEW ok \in BOOLEAN, NEW d \in BOOLEAN, net_setup(ok, d) \/ psc_run(ok)
        PROVE  UNCHANGED text_vars
    BY <2>3 DEF net_setup, psc_run
  <2>4. CASE PowerCut \/ on_startup \/ UNCHANGED vars
    BY <2>4 DEF PowerCut, on_startup, vars, text_vars
  <2>5. CASE LogAddress \/ dhcp_client
    BY <2>5 DEF LogAddress, dhcp_client
  <2>6. QED
    BY <1>2, <2>1, <2>2, <2>3, <2>4, <2>5 DEF Next, realmain, CardOnly, text_vars
<1>3. QED
  BY <1>1, <1>2 DEF TextInv
-----------------------------------------------------------------------------
(* The card *)

LEMMA NextCard ==
  ASSUME TypeOK, CardInv, [Next]_vars
  PROVE  CardInv'
<1> USE DEF CardInv, CardStep
<1>1. CASE sdcard_handle
  <2> USE DEF Goto
  <2>1. CASE EndCnf \/ CloseDat
    BY <2>1 DEF EndCnf, CloseDat, card_vars, FullDat
  <2>2. ASSUME NEW p \in Piece, sdcard_netconf(p)
        PROVE  CardInv'
    BY <2>2 DEF sdcard_netconf, card_vars
  <2>3. ASSUME NEW ok \in BOOLEAN, sdcard_trypart(ok) \/ OpenCnf(ok)
        PROVE  CardInv'
    <3>1. part \in 0..1
      BY DEF TypeOK
    <3>2. ASSUME main' = "net"
          PROVE  faulted'
      <4>1. sdcard_trypart(ok) /\ ~ok /\ part # 0
        BY <2>3, <3>2 DEF sdcard_trypart, OpenCnf
      <4>2. part = 1
        BY <3>1, <4>1
      <4>3. QED
        BY <4>1, <4>2, Zenon DEF sdcard_trypart
    <3>3. main' \in {"mount", "cnf", "lines", "new", "net"}
      BY <2>3 DEF sdcard_trypart, OpenCnf
    <3>4. QED
      BY <3>2, <3>3
  <2>4. ASSUME NEW ok \in BOOLEAN, OpenNew(ok) \/ UnlinkNew(ok)
        PROVE  CardInv'
    BY <2>4 DEF OpenNew, UnlinkNew, card_vars
  <2>5. ASSUME NEW ok \in BOOLEAN, OpenDat(ok) \/ Truncate(ok)
        PROVE  CardInv'
    BY <2>5 DEF OpenDat, Truncate
  <2>6. ASSUME NEW ok \in BOOLEAN, WriteDat(ok) \/ SyncDat(ok)
        PROVE  CardInv'
    BY <2>6 DEF WriteDat, SyncDat, card_vars, FullDat
  <2>7. ASSUME NEW ok \in BOOLEAN, NEW match \in BOOLEAN, ReadDat(ok, match)
        PROVE  CardInv'
    BY <2>7 DEF ReadDat, card_vars
  <2>8. QED
    BY <1>1, <2>1, <2>2, <2>3, <2>4, <2>5, <2>6, <2>7 DEF sdcard_handle
<1>2. CASE PowerCut
  BY <1>2 DEF PowerCut
<1>3. ASSUME NEW ok \in BOOLEAN, NEW d \in BOOLEAN, net_setup(ok, d) \/ psc_run(ok)
      PROVE  CardInv'
  BY <1>3 DEF net_setup, psc_run, Goto, card_vars, TypeOK
<1>4. CASE on_startup
  BY <1>4 DEF on_startup, card_vars
<1>5. ASSUME UNCHANGED <<main, card_vars, faulted>>
      PROVE  CardInv'
  BY <1>5 DEF card_vars
<1>6. ASSUME NEW a \in Addr, Lease(a)
      PROVE  UNCHANGED <<main, card_vars, faulted>>
  BY <1>6 DEF Lease, BootOnly
<1>7. ASSUME LogAddress \/ dhcp_client \/ lstats_push \/ UNCHANGED vars
      PROVE  UNCHANGED <<main, card_vars, faulted>>
  BY <1>7 DEF LogAddress, dhcp_client, lstats_push, LstatsStep, BootOnly, vars
<1>8. QED
  BY <1>1, <1>2, <1>3, <1>4, <1>5, <1>6, <1>7 DEF Next, realmain
-----------------------------------------------------------------------------
(* The configuration *)

\* Without a change of the lines or of the configuration both parts stay.
LEMMA SameConf ==
  ASSUME LastInv, AsRead, UNCHANGED conf_vars
  PROVE  LastInv' /\ AsRead'
<1>1. \A c : Lines(c)' = Lines(c)
  BY DEF Lines, conf_vars
<1>2. \A c, A : LinesWith(c, A)' = LinesWith(c, A)
  BY <1>1 DEF LinesWith, conf_vars
<1>3. StaticLines' = StaticLines /\ ModeLines' = ModeLines
  BY <1>1, <1>2 DEF StaticLines, ModeLines
<1>4. \A S, x : LastArg(S, x)' = LastArg(S, x)
  BY DEF LastArg, conf_vars
<1>5. QED
  BY <1>1, <1>2, <1>3, <1>4 DEF LastInv, AsRead, conf_vars

\* What a further line p does to the sets of lines.
LEMMA MoreLines ==
  ASSUME TypeOK, NEW p \in Piece, pieces' = Append(pieces, p)
  PROVE  LET n == Len(pieces) IN
         /\ n \in Nat /\ Len(pieces') = n + 1 /\ pieces'[n + 1] = p
         /\ \A k \in 1..n : pieces'[k] = pieces[k]
         /\ \A c : /\ Lines(c) \in SUBSET (1..n) /\ Lines(c)' \in SUBSET (1..(n + 1))
                   /\ \A k \in 1..n : k \in Lines(c)' <=> k \in Lines(c)
                   /\ n + 1 \in Lines(c)' <=> p.cmd = c
<1> DEFINE n == Len(pieces)
<1>1. /\ n \in Nat /\ Len(pieces') = n + 1 /\ pieces'[n + 1] = p
      /\ \A k \in 1..n : pieces'[k] = pieces[k]
  BY DEF TypeOK
<1>2. ASSUME NEW c
      PROVE  /\ Lines(c) \in SUBSET (1..n) /\ Lines(c)' \in SUBSET (1..(n + 1))
             /\ \A k \in 1..n : k \in Lines(c)' <=> k \in Lines(c)
             /\ n + 1 \in Lines(c)' <=> p.cmd = c
  BY <1>1 DEF Lines
<1>3. QED
  BY <1>1, <1>2

LEMMA MoreLinesWith ==
  ASSUME TypeOK, NEW p \in Piece, pieces' = Append(pieces, p), NEW c, NEW A
  PROVE  LET n == Len(pieces) IN
         /\ LinesWith(c, A) \in SUBSET (1..n) /\ LinesWith(c, A)' \in SUBSET (1..(n + 1))
         /\ \A k \in 1..n : k \in LinesWith(c, A)' <=> k \in LinesWith(c, A)
         /\ n + 1 \in LinesWith(c, A)' <=> p.cmd = c /\ p.arg \in A
BY MoreLines DEF LinesWith

\* The argument of the last line of a kind: the new one's or the one before.
LEMMA LastArgStep ==
  ASSUME TypeOK, NEW p \in Piece, pieces' = Append(pieces, p),
         NEW S \in SUBSET (1..Len(pieces)), NEW T \in SUBSET (1..(Len(pieces) + 1)),
         \A k \in 1..Len(pieces) : k \in T <=> k \in S,
         HasLast(S), NEW x
  PROVE  /\ HasLast(T)
         /\ LastArg(T, x)' = IF Len(pieces) + 1 \in T THEN p.arg ELSE LastArg(S, x)
<1> DEFINE n == Len(pieces)
<1>1. n \in Nat /\ pieces'[n + 1] = p /\ \A k \in 1..n : pieces'[k] = pieces[k]
  BY MoreLines
<1>2. /\ HasLast(T) /\ (n + 1 \in T => Last(T) = n + 1) /\ (n + 1 \notin T => T = S)
  BY <1>1, Further
<1>3. CASE n + 1 \in T
  BY <1>1, <1>2, <1>3 DEF LastArg
<1>4. CASE n + 1 \notin T
  <2>1. S # {} => Last(S) \in 1..n
    BY <1>1, LastIn
  <2>2. QED
    BY <1>1, <1>2, <1>4, <2>1 DEF LastArg
<1>5. QED
  BY <1>2, <1>3, <1>4

\* A line adds to each kind what AsRead and Parse agree on.
LEMMA NewLine ==
  ASSUME TypeOK, LastInv, AsRead, NEW p \in Piece, sdcard_netconf(p)
  PROVE  LastInv' /\ AsRead'
<1> DEFINE n == Len(pieces)
<1>1. /\ pieces' = Append(pieces, p) /\ conf' = Parse(conf, p)
      /\ n \in Nat
  BY MoreLines DEF sdcard_netconf
<1>2. conf \in [use_static : BOOLEAN, addr : Addr, gw : Addr,
                hwaddr : {"zero", "eeprom", "text"}]
  BY DEF TypeOK
<1>3. /\ StaticLines \in SUBSET (1..n) /\ StaticLines' \in SUBSET (1..(n + 1))
      /\ \A k \in 1..n : k \in StaticLines' <=> k \in StaticLines
      /\ n + 1 \in StaticLines' <=> (p.cmd = "dhcp" /\ p.arg = "no") \/ p.cmd = "addr"
  <2>1. /\ LinesWith("dhcp", {"no"}) \in SUBSET (1..n)
        /\ LinesWith("dhcp", {"no"})' \in SUBSET (1..(n + 1))
        /\ \A k \in 1..n : k \in LinesWith("dhcp", {"no"})' <=> k \in LinesWith("dhcp", {"no"})
        /\ n + 1 \in LinesWith("dhcp", {"no"})' <=> p.cmd = "dhcp" /\ p.arg \in {"no"}
    BY <1>1, MoreLinesWith
  <2>2. /\ Lines("addr") \in SUBSET (1..n) /\ Lines("addr")' \in SUBSET (1..(n + 1))
        /\ \A k \in 1..n : k \in Lines("addr")' <=> k \in Lines("addr")
        /\ n + 1 \in Lines("addr")' <=> p.cmd = "addr"
    BY <1>1, MoreLines
  <2>3. QED
    BY <2>1, <2>2 DEF StaticLines
<1>4. /\ ModeLines \in SUBSET (1..n) /\ ModeLines' \in SUBSET (1..(n + 1))
      /\ \A k \in 1..n : k \in ModeLines' <=> k \in ModeLines
      /\ n + 1 \in ModeLines' <=> \/ p.cmd = "dhcp" /\ p.arg \in {"no", "none", "yes"}
                                 \/ p.cmd = "addr"
  <2> DEFINE A == {"none", "yes"}
  <2>1. /\ LinesWith("dhcp", A) \in SUBSET (1..n)
        /\ LinesWith("dhcp", A)' \in SUBSET (1..(n + 1))
        /\ \A k \in 1..n : k \in LinesWith("dhcp", A)' <=> k \in LinesWith("dhcp", A)
        /\ n + 1 \in LinesWith("dhcp", A)' <=> p.cmd = "dhcp" /\ p.arg \in A
    BY <1>1, MoreLinesWith
  <2>2. QED
    BY <1>3, <2>1 DEF ModeLines
<1>5. HasLast(ModeLines)' /\ (conf'.use_static <=> ModeLines' # {} /\ Last(ModeLines') \in StaticLines')
  <2>1. /\ HasLast(ModeLines') /\ (n + 1 \in ModeLines' => Last(ModeLines') = n + 1)
        /\ (n + 1 \notin ModeLines' => ModeLines' = ModeLines)
    BY <1>1, <1>4, Further DEF LastInv
  <2>2. CASE n + 1 \in ModeLines'
    <3>1. conf'.use_static <=> n + 1 \in StaticLines'
      BY <1>1, <1>2, <1>3, <1>4, <2>2 DEF Parse
    <3>2. QED
      BY <2>1, <2>2, <3>1 DEF HasLast
  <2>3. CASE n + 1 \notin ModeLines'
    <3>1. conf'.use_static = conf.use_static
      BY <1>1, <1>2, <1>4, <2>3 DEF Parse
    <3>2. ModeLines # {} => Last(ModeLines) \in 1..n
      BY <1>1, <1>4, LastIn DEF LastInv
    <3>3. QED
      BY <1>3, <2>1, <2>3, <3>1, <3>2 DEF AsRead, HasLast
  <2>4. QED
    BY <2>2, <2>3
<1>6. ASSUME NEW c, NEW S \in SUBSET (1..n), NEW T \in SUBSET (1..(n + 1)),
             \A k \in 1..n : k \in T <=> k \in S, HasLast(S)
      PROVE  /\ HasLast(T)
             /\ LastArg(T, c)' = IF n + 1 \in T THEN p.arg ELSE LastArg(S, c)
  BY <1>1, <1>6, LastArgStep
<1>7. /\ HasLast(LinesWith("addr", Address))'
      /\ conf'.addr = LastArg(LinesWith("addr", Address), "zero")'
  <2> DEFINE S == LinesWith("addr", Address)
  <2>1. /\ S \in SUBSET (1..n) /\ S' \in SUBSET (1..(n + 1))
        /\ \A k \in 1..n : k \in S' <=> k \in S
        /\ n + 1 \in S' <=> p.cmd = "addr" /\ p.arg \in Address
    BY <1>1, MoreLinesWith
  <2>2. conf'.addr = IF n + 1 \in S' THEN p.arg ELSE conf.addr
    BY <1>1, <1>2, <2>1 DEF Parse, sdcard_parse_inet
  <2>3. HasLast(S) /\ conf.addr = LastArg(S, "zero")
    BY DEF LastInv, AsRead
  <2> HIDE DEF S
  <2>4. HasLast(S') /\ LastArg(S, "zero")' = IF n + 1 \in S' THEN p.arg ELSE LastArg(S, "zero")
    BY <1>6, <2>1, <2>3 DEF LastArg
  <2>5. QED
    BY <2>2, <2>3, <2>4 DEF HasLast, S
<1>8. /\ HasLast(LinesWith("gw", Address))'
      /\ conf'.gw = LastArg(LinesWith("gw", Address), "zero")'
  <2> DEFINE S == LinesWith("gw", Address)
  <2>1. /\ S \in SUBSET (1..n) /\ S' \in SUBSET (1..(n + 1))
        /\ \A k \in 1..n : k \in S' <=> k \in S
        /\ n + 1 \in S' <=> p.cmd = "gw" /\ p.arg \in Address
    BY <1>1, MoreLinesWith
  <2>2. conf'.gw = IF n + 1 \in S' THEN p.arg ELSE conf.gw
    BY <1>1, <1>2, <2>1 DEF Parse, sdcard_parse_inet
  <2>3. HasLast(S) /\ conf.gw = LastArg(S, "zero")
    BY DEF LastInv, AsRead
  <2> HIDE DEF S
  <2>4. HasLast(S') /\ LastArg(S, "zero")' = IF n + 1 \in S' THEN p.arg ELSE LastArg(S, "zero")
    BY <1>6, <2>1, <2>3 DEF LastArg
  <2>5. QED
    BY <2>2, <2>3, <2>4 DEF HasLast, S
<1>9. /\ HasLast(Lines("hwaddr"))'
      /\ conf'.hwaddr = (IF Lines("hwaddr") = {} THEN "zero"
                         ELSE IF LastArg(Lines("hwaddr"), "none") = "mac" THEN "text"
                         ELSE "eeprom")'
  <2> DEFINE S == Lines("hwaddr")
  <2>1. /\ S \in SUBSET (1..n) /\ S' \in SUBSET (1..(n + 1))
        /\ \A k \in 1..n : k \in S' <=> k \in S
        /\ n + 1 \in S' <=> p.cmd = "hwaddr"
    BY <1>1, MoreLines
  <2>2. conf'.hwaddr = IF n + 1 \in S' THEN IF p.arg = "mac" THEN "text" ELSE "eeprom"
                       ELSE conf.hwaddr
    BY <1>1, <1>2, <2>1 DEF Parse
  <2>3. HasLast(S) /\ conf.hwaddr = IF S = {} THEN "zero"
                                    ELSE IF LastArg(S, "none") = "mac" THEN "text" ELSE "eeprom"
    BY DEF LastInv, AsRead
  <2>4. n + 1 \notin S' => S' = S
    BY <1>1, <2>1, <2>3, Further
  <2> HIDE DEF S
  <2>5. HasLast(S') /\ LastArg(S, "none")' = IF n + 1 \in S' THEN p.arg ELSE LastArg(S, "none")
    BY <1>6, <2>1, <2>3 DEF LastArg
  <2>6. conf'.hwaddr = IF S' = {} THEN "zero"
                       ELSE IF LastArg(S, "none")' = "mac" THEN "text" ELSE "eeprom"
    BY <2>2, <2>3, <2>4, <2>5
  <2>7. QED
    BY <2>5, <2>6 DEF HasLast, S
<1>10. QED
  BY <1>5, <1>7, <1>8, <1>9 DEF LastInv, AsRead

LEMMA NextConf ==
  ASSUME TypeOK, LastInv, ConfigAsRead, [Next]_vars
  PROVE  LastInv' /\ ConfigAsRead'
<1> USE DEF CardStep
<1>1. ASSUME pieces' = <<>>, conf' = NoConf
      PROVE  LastInv' /\ AsRead'
  <2>1. \A c : Lines(c)' = {}
    BY <1>1 DEF Lines
  <2>2. \A c, A : LinesWith(c, A)' = {}
    BY <2>1 DEF LinesWith
  <2>3. ModeLines' = {}
    BY <2>1, <2>2 DEF ModeLines, StaticLines
  <2>4. QED
    BY <1>1, <2>1, <2>2, <2>3 DEF LastInv, HasLast, AsRead, LastArg, NoConf
<1>2. ASSUME UNCHANGED conf_vars
      PROVE  LastInv' /\ (AsRead => AsRead')
  <2>1. \A c : Lines(c)' = Lines(c)
    BY <1>2 DEF Lines, conf_vars
  <2>2. \A c, A : LinesWith(c, A)' = LinesWith(c, A)
    BY <1>2, <2>1 DEF LinesWith, conf_vars
  <2>3. ModeLines' = ModeLines
    BY <2>1, <2>2 DEF ModeLines, StaticLines
  <2>4. QED
    BY <1>2, <2>1, <2>2, <2>3, SameConf DEF LastInv
<1>3. CASE sdcard_handle
  <2> USE DEF Goto
  <2>1. main \in CardStep
    BY <1>3 DEF sdcard_handle, EndCnf, CloseDat, sdcard_netconf, sdcard_trypart,
         OpenCnf, OpenNew, UnlinkNew, OpenDat, Truncate, WriteDat, SyncDat, ReadDat
  <2>2. ASSUME NEW p \in Piece, sdcard_netconf(p)
        PROVE  LastInv' /\ ConfigAsRead'
    BY <2>1, <2>2, NewLine DEF ConfigAsRead
  <2>3. ASSUME \A p \in Piece : ~sdcard_netconf(p)
        PROVE  UNCHANGED conf_vars
    BY <1>3, <2>3 DEF sdcard_handle, EndCnf, CloseDat, sdcard_trypart,
         OpenCnf, OpenNew, UnlinkNew, OpenDat, Truncate, WriteDat, SyncDat, ReadDat
  <2>4. QED
    BY <1>2, <2>1, <2>2, <2>3 DEF ConfigAsRead
<1>4. CASE PowerCut
  BY <1>1, <1>4 DEF PowerCut, ConfigAsRead
<1>5. ASSUME NEW ok \in BOOLEAN, NEW d \in BOOLEAN, net_setup(ok, d)
      PROVE  LastInv' /\ ConfigAsRead'
  BY <1>1, <1>5 DEF net_setup, ConfigAsRead
<1>6. ASSUME NEW ok \in BOOLEAN, psc_run(ok)
      PROVE  LastInv' /\ ConfigAsRead'
  <2>1. UNCHANGED conf_vars /\ main' \in {"start", "failed"}
    BY <1>6 DEF psc_run, Goto
  <2>2. QED
    BY <1>2, <2>1 DEF ConfigAsRead
<1>7. CASE on_startup
  <2>1. UNCHANGED conf_vars /\ main' \in {"start", "serve"}
    BY <1>7 DEF on_startup
  <2>2. QED
    BY <1>2, <2>1 DEF ConfigAsRead
<1>8. ASSUME NEW a \in Addr, Lease(a)
      PROVE  UNCHANGED <<main, conf_vars>>
  BY <1>8 DEF Lease, BootOnly
<1>9. ASSUME LogAddress \/ dhcp_client \/ lstats_push \/ UNCHANGED vars
      PROVE  UNCHANGED <<main, conf_vars>>
  BY <1>9 DEF LogAddress, dhcp_client, lstats_push, LstatsStep, BootOnly, vars
<1>10. ASSUME UNCHANGED <<main, conf_vars>>
       PROVE  LastInv' /\ ConfigAsRead'
  BY <1>2, <1>10 DEF ConfigAsRead
<1>11. QED
  BY <1>3, <1>4, <1>5, <1>6, <1>7, <1>8, <1>9, <1>10 DEF Next, realmain

LEMMA InvStep ==
  ASSUME IInv, [Next]_vars
  PROVE  IInv'
BY NextType, NextServer, NextText, NextCard, NextConf DEF IInv

\* IInv is inductive.
LEMMA Inductive == SafetySpec => []IInv
<1>1. QED
  BY InitInv, InvStep, PTL DEF SafetySpec
-----------------------------------------------------------------------------
(* Theorems *)

\* Every variable keeps to its range, for every NET.CNF and every failure of
\* the card; no task is started twice (main.c, on_startup).
THEOREM TypeCorrect == SafetySpec => []TypeOK
<1>1. IInv => TypeOK
  BY DEF IInv
<1>2. QED
  BY <1>1, Inductive, PTL

\* The configuration is the one the lines of NET.CNF say, however many lines
\* there are and in whatever order (sdcard.c:77-156).
THEOREM ConfigIsRead == SafetySpec => []ConfigAsRead
<1>1. IInv => ConfigAsRead
  BY DEF IInv
<1>2. QED
  BY <1>1, Inductive, PTL

\* A start that meets no fault leaves EEPROM.NEW deleted and EEPROM.DAT of its
\* size, written whole or found equal by this start, however often earlier ones
\* were cut short and wherever (sdcard.c:180, 199-211, 219-251).
THEOREM CardIsRepaired == SafetySpec => []CardRepaired
<1>1. IInv => CardRepaired
  BY DEF IInv, CardInv, CardRepaired
<1>2. QED
  BY <1>1, Inductive, PTL

\* No task that sends to the_server is started before psc_run has set it, for
\* any number of tasks (listener.c:119-123, main.c:231-243).
THEOREM ServerIsFirst == SafetySpec => []ServerFirst
<1>1. IInv => ServerFirst
  BY DEF IInv, ServerInv, ServerFirst
<1>2. QED
  BY <1>1, Inductive, PTL

-----------------------------------------------------------------------------
(***************************************************************************)
(* Message framing: the stream is cut where the messages end, on every     *)
(* connection on which no timeout has ended psc_recvskip's loop.           *)
(***************************************************************************)

\* What the loop counters say of each other, also on a torn stream.
CountInv ==
  /\ pc = "body" => got + want = rlen
  /\ pc = "chunk" => want <= Chunk /\ Chunk < rest

\* How far into its message the thread is, at each step of psc_recvmsg.
HeadInv ==
  pc = "head" =>
     /\ want <= HeadLen
     /\ off = IF want = HeadLen THEN Size(msg) ELSE HeadLen - want

HeaderKnown == pc \in {"body", "chunk", "last", "recv"} => mid = msg.mid /\ mlen = msg.len

BodyInv == pc = "body" => off = HeadLen + got

\* Before a chunk the thread is rest bytes from the end of the message.
ChunkInv ==
  pc = "chunk" =>
     /\ got = rlen
     /\ off + rest + want = Size(msg) + Chunk

\* The last read ends the message, or it follows an error and will fail too.
LastReadInv == pc = "last" => got = rlen /\ (off + want = Size(msg) \/ (cut /\ want # 0))

RecvInv == pc = "recv" => want = 0 /\ got = rlen /\ off = Size(msg)

StepInv == HeadInv /\ HeaderKnown /\ BodyInv /\ ChunkInv /\ LastReadInv /\ RecvInv

MsgIInv == MsgTypeOK /\ CountInv /\ (~torn => StepInv)

-----------------------------------------------------------------------------
LEMMA LesserType ==
  ASSUME NEW a \in Nat, NEW b \in Nat
  PROVE  /\ Lesser(a, b) \in Nat /\ Lesser(a, b) <= a /\ Lesser(a, b) <= b
         /\ Lesser(a, b) = a \/ Lesser(a, b) = b
BY DEF Lesser

LEMMA SizeType ==
  ASSUME NEW m \in Msg
  PROVE  /\ m.mid \in MsgId /\ m.len \in 0..MaxLen
         /\ Size(m) = HeadLen + m.len /\ Size(m) \in 0..(HeadLen + MaxLen)
BY LenAssumption, SizeAssumption DEF Msg, BodyLen, Size

LEMMA MsgInitInv == MsgInit => MsgIInv
<1> SUFFICES ASSUME MsgInit PROVE MsgIInv
  OBVIOUS
<1>1. /\ msg \in Msg /\ off = Size(msg) /\ cut = FALSE /\ torn = FALSE
      /\ pc = "head" /\ want = HeadLen
      /\ mid \in MsgId /\ mlen = 0 /\ got = 0 /\ rest = 0
  BY DEF MsgInit
<1>2. Size(msg) \in 0..(HeadLen + MaxLen)
  BY <1>1, SizeType
<1>3. MsgTypeOK
  <2>1. want \in Nat /\ mlen \in BodyLen /\ got \in 0..BufLen /\ rest \in BodyLen
    BY <1>1, LenAssumption, SizeAssumption DEF BodyLen
  <2>2. /\ cut \in BOOLEAN /\ torn \in BOOLEAN
        /\ pc \in {"head", "body", "chunk", "last", "recv", "closed"}
    BY <1>1
  <2>3. QED
    BY <1>1, <1>2, <2>1, <2>2 DEF MsgTypeOK
<1>4. CountInv /\ StepInv
  BY <1>1, SizeAssumption
     DEF CountInv, StepInv, HeadInv, HeaderKnown, BodyInv, ChunkInv, LastReadInv, RecvInv
<1>5. QED
  BY <1>3, <1>4 DEF MsgIInv

\* Ranges of the variables in the form the arithmetic needs.
LEMMA Ranges ==
  ASSUME MsgTypeOK
  PROVE  /\ msg \in Msg /\ msg.mid \in MsgId /\ msg.len \in 0..MaxLen /\ off \in Nat
         /\ want \in Nat /\ mlen \in 0..MaxLen /\ got \in 0..BufLen /\ rest \in 0..MaxLen
         /\ Size(msg) = HeadLen + msg.len
         /\ rlen \in Nat /\ rlen <= mlen /\ rlen <= BufLen
BY LesserType, LenAssumption, SizeAssumption DEF MsgTypeOK, Msg, BodyLen, Size, rlen

\* The length the body is read for, after either outcome of the header.
LEMMA HeadLength ==
  ASSUME MsgTypeOK, psc_recvhead, pc' = "body"
  PROVE  /\ mid' \in MsgId /\ mlen' \in BodyLen /\ got' = 0
         /\ want' \in 0..BufLen /\ rlen' = want'
<1>1. /\ mid' \in MsgId /\ mlen' \in BodyLen /\ got' = 0 /\ want' = Lesser(mlen', BufLen)
  BY Ranges DEF psc_recvhead, BodyLen
<1>2. mlen' \in Nat /\ BufLen \in Nat
  BY <1>1, LenAssumption DEF BodyLen
<1>3. Lesser(mlen', BufLen) \in 0..BufLen
  BY <1>2, LesserType
<1>4. rlen' = Lesser(mlen', BufLen)
  BY DEF rlen, Lesser
<1>5. QED
  BY <1>1, <1>3, <1>4

LEMMA MsgNextType ==
  ASSUME MsgTypeOK, CountInv, [MsgNext]_recv_vars
  PROVE  MsgTypeOK' /\ CountInv'
<1> USE LenAssumption, SizeAssumption, Ranges DEF CountInv
<1>1. CASE RecvByte
  <2>1. /\ want' = want - 1 /\ UNCHANGED <<cut, torn, pc, mid, mlen, rest>> /\ want # 0
        /\ got' = IF pc = "body" THEN got + 1 ELSE got
    BY <1>1 DEF RecvByte
  <2>2. msg' \in Msg /\ off' \in 0..(HeadLen + MaxLen)
    BY <1>1 DEF RecvByte
  <2>3. rlen' = rlen
    BY <2>1 DEF rlen
  <2>4. QED
    BY <2>1, <2>2, <2>3 DEF MsgTypeOK
<1>2. CASE RecvFails
  BY <1>2 DEF RecvFails, MsgTypeOK, msg_vars, BodyLen
<1>3. CASE psc_recvhead
  <2>1. CASE pc' = "body"
    BY <1>3, <2>1, HeadLength DEF psc_recvhead, MsgTypeOK, stream_vars
  <2>2. CASE pc' # "body"
    BY <1>3, <2>2 DEF psc_recvhead, MsgTypeOK, stream_vars
  <2>3. QED
    BY <2>1, <2>2
<1>4. CASE BodyDone
  <2>1. UNCHANGED <<msg, off, cut, torn, mid, mlen, got>> /\ pc = "body" /\ want = 0
    BY <1>4 DEF BodyDone, Done, stream_vars, msg_vars
  <2>2. CASE rlen < mlen
    <3>1. mlen - rlen \in 1..MaxLen /\ Skip(mlen - rlen)
      BY <1>4, <2>2 DEF BodyDone
    <3>2. QED
      BY <2>1, <3>1 DEF Skip, MsgTypeOK, BodyLen
  <2>3. CASE ~(rlen < mlen)
    BY <1>4, <2>1, <2>3 DEF BodyDone, MsgTypeOK, msg_vars
  <2>4. QED
    BY <2>2, <2>3
<1>5. CASE ChunkDone
  <2>1. UNCHANGED <<msg, off, cut, torn, mid, mlen, got>> /\ pc = "chunk"
    BY <1>5 DEF ChunkDone, Done, stream_vars
  <2>2. rest - Chunk \in 0..MaxLen /\ Skip(rest - Chunk)
    BY <1>5, <2>1 DEF ChunkDone
  <2>3. QED
    BY <2>1, <2>2 DEF Skip, MsgTypeOK, BodyLen
<1>6. CASE LastDone
  BY <1>6 DEF LastDone, Done, MsgTypeOK, stream_vars, msg_vars
<1>7. CASE NextMsg
  BY <1>7 DEF NextMsg, MsgTypeOK, stream_vars, msg_vars
<1>8. CASE Accept
  <2>1. /\ msg' \in Msg /\ off' = Size(msg') /\ cut' = FALSE /\ torn' = FALSE
        /\ pc' = "head" /\ want' = HeadLen /\ UNCHANGED <<mid, mlen, got, rest>>
    BY <1>8 DEF Accept, msg_vars
  <2>2. Size(msg') \in 0..(HeadLen + MaxLen)
    BY <2>1, SizeType
  <2>3. QED
    BY <2>1, <2>2 DEF MsgTypeOK
<1>9. CASE PeerStops
  BY <1>9 DEF PeerStops, MsgTypeOK, msg_vars, rlen
<1>10. CASE UNCHANGED recv_vars
  BY <1>10 DEF recv_vars, MsgTypeOK, stream_vars, msg_vars, rlen
<1>11. QED
  BY <1>1, <1>2, <1>3, <1>4, <1>5, <1>6, <1>7, <1>8, <1>9, <1>10
     DEF MsgNext, handle_client

\* One step of a connection that is not torn keeps the thread in step.
LEMMA NextStep ==
  ASSUME MsgTypeOK, CountInv, StepInv, [MsgNext]_recv_vars, ~torn, ~torn', ~Accept
  PROVE  StepInv'
<1> USE LenAssumption, SizeAssumption, Ranges
    DEF CountInv, StepInv, HeadInv, HeaderKnown, BodyInv, ChunkInv, LastReadInv, RecvInv
<1>1. CASE RecvByte
  <2>1. \/ off < Size(msg) /\ off' = off + 1 /\ msg' = msg
        \/ pc = "head" /\ want = HeadLen /\ off' = 1 /\ msg' \in Msg
    <3>1. CASE pc = "head"
      BY <1>1, <3>1 DEF RecvByte
    <3>2. CASE pc \in {"body", "chunk", "last"}
      <4>1. off < Size(msg)
        BY <1>1, <3>2 DEF RecvByte
      <4>2. QED
        BY <1>1, <4>1 DEF RecvByte
    <3>3. QED
      BY <1>1, <3>1, <3>2 DEF RecvByte, MsgTypeOK
  <2>2. /\ want' = want - 1 /\ UNCHANGED <<cut, pc, mid, mlen, rest>>
        /\ got' = IF pc = "body" THEN got + 1 ELSE got
        /\ ~cut /\ want # 0 /\ rlen' = rlen
    BY <1>1 DEF RecvByte, rlen
  <2>3. CASE pc = "head"
    BY <2>1, <2>2, <2>3
  <2>4. CASE pc # "head"
    <3>1. Size(msg') = Size(msg) /\ msg' = msg /\ off' = off + 1
      BY <2>1, <2>4
    <3>2. HeadInv' /\ HeaderKnown' /\ BodyInv' /\ RecvInv'
      BY <2>2, <2>4, <3>1, <1>1 DEF RecvByte
    <3>3. ChunkInv' /\ LastReadInv'
      BY <2>2, <2>4, <3>1
    <3>4. QED
      BY <3>2, <3>3
  <2>5. QED
    BY <2>3, <2>4
<1>2. CASE RecvFails
  <2>1. UNCHANGED <<msg, off, cut, mid, mlen, got, rest>> /\ rlen' = rlen
    BY <1>2 DEF RecvFails, msg_vars, rlen
  <2>2. CASE pc = "chunk"
    <3>1. cut
      BY <1>2, <2>2, Zenon DEF RecvFails
    <3>2. pc' = "last" /\ want' = rest
      BY <1>2, <2>2 DEF RecvFails
    <3>3. QED
      BY <2>1, <2>2, <3>1, <3>2
  <2>3. CASE pc # "chunk"
    <3>1. pc' = "closed"
      BY <1>2, <2>3 DEF RecvFails
    <3>2. QED
      BY <3>1
  <2>4. QED
    BY <2>2, <2>3
<1>3. CASE psc_recvhead
  <2>1. off = HeadLen
    BY <1>3 DEF psc_recvhead, Done
  <2>2. /\ mid' = msg.mid /\ mlen' = msg.len /\ pc' = "body" /\ got' = 0
        /\ UNCHANGED <<msg, off, cut, rest>>
    BY <1>3, <2>1 DEF psc_recvhead, stream_vars
  <2>3. HeaderKnown' /\ BodyInv'
    BY <2>1, <2>2
  <2>4. QED
    BY <2>2, <2>3
<1>4. CASE BodyDone
  <2>1. got = rlen /\ off = HeadLen + rlen /\ pc = "body" /\ want = 0
    BY <1>4 DEF BodyDone, Done
  <2>2. UNCHANGED <<msg, off, cut, mid, mlen, got>> /\ rlen' = rlen
    BY <1>4 DEF BodyDone, stream_vars, msg_vars, rlen
  <2>3. CASE rlen < mlen
    <3>1. Skip(mlen - rlen)
      BY <1>4, <2>3 DEF BodyDone
    <3>2. QED
      BY <2>1, <2>2, <2>3, <3>1 DEF Skip
  <2>4. CASE ~(rlen < mlen)
    BY <1>4, <2>1, <2>2, <2>4 DEF BodyDone, msg_vars
  <2>5. QED
    BY <2>3, <2>4
<1>5. CASE ChunkDone
  <2>1. /\ rest - Chunk \in 0..MaxLen /\ got = rlen
        /\ off + (rest - Chunk) = Size(msg) /\ pc = "chunk" /\ want = 0
    BY <1>5 DEF ChunkDone, Done
  <2>2. UNCHANGED <<msg, off, cut, mid, mlen, got>> /\ rlen' = rlen /\ Skip(rest - Chunk)
    BY <1>5 DEF ChunkDone, stream_vars, rlen
  <2>3. QED
    BY <2>1, <2>2 DEF Skip
<1>6. CASE LastDone
  BY <1>6 DEF LastDone, Done, stream_vars, msg_vars, rlen
<1>7. CASE NextMsg
  BY <1>7 DEF NextMsg, stream_vars, msg_vars
<1>8. CASE PeerStops
  BY <1>8 DEF PeerStops, msg_vars, rlen
<1>9. CASE UNCHANGED recv_vars
  BY <1>9 DEF recv_vars, stream_vars, msg_vars, rlen
<1>10. QED
  BY <1>1, <1>2, <1>3, <1>4, <1>5, <1>6, <1>7, <1>8, <1>9 DEF MsgNext, handle_client

\* A new connection begins in step, whatever became of the one before.
LEMMA AcceptStep ==
  ASSUME Accept
  PROVE  StepInv'
BY SizeAssumption
   DEF Accept, StepInv, HeadInv, HeaderKnown, BodyInv, ChunkInv, LastReadInv, RecvInv

LEMMA TornStays ==
  ASSUME MsgTypeOK, [MsgNext]_recv_vars, torn, ~Accept
  PROVE  torn'
<1>1. CASE UNCHANGED torn
  BY <1>1
<1>2. CASE RecvFails
  BY <1>2 DEF RecvFails
<1>3. QED
  BY <1>1, <1>2
     DEF MsgNext, handle_client, RecvByte, psc_recvhead, BodyDone, ChunkDone, LastDone,
         NextMsg, PeerStops, stream_vars, recv_vars

LEMMA MsgInvariance == MsgSafetySpec => []MsgIInv
<1>1. MsgIInv /\ [MsgNext]_recv_vars => MsgIInv'
  BY MsgNextType, NextStep, AcceptStep, TornStays DEF MsgIInv
<1>2. QED
  BY MsgInitInv, <1>1, PTL DEF MsgSafetySpec

\* Lengths and counters of the receive loop stay in their ranges, also on a torn
\* stream: rxbuf never gets more bytes of a message than it holds.
THEOREM MsgTypeCorrect == MsgSafetySpec => []MsgTypeOK
<1>1. MsgIInv => MsgTypeOK
  BY DEF MsgIInv
<1>2. QED
  BY MsgInvariance, <1>1, PTL

\* Every header is read where a message begins, until the stream is torn.
THEOREM InStep == MsgSafetySpec => []StreamInStep
<1>1. MsgIInv => StreamInStep
  BY DEF MsgIInv, StepInv, HeadInv, StreamInStep
<1>2. QED
  BY MsgInvariance, <1>1, PTL

\* The callback gets the message that was sent, truncated to rxbuf, and nothing
\* of it is left in the stream, until the stream is torn.
THEOREM Delivers == MsgSafetySpec => []DeliveredWhole
<1>1. MsgIInv => DeliveredWhole
  BY DEF MsgIInv, StepInv, HeaderKnown, RecvInv, DeliveredWhole, Whole, rlen
<1>2. QED
  BY MsgInvariance, <1>1, PTL
=============================================================================
