------------------------------ MODULE Startup -------------------------------
(***************************************************************************)
(* From power-on to a running server: the SD card is read (sdcard.c), the  *)
(* network interface added (net_setup.c), the server opened (listener.c,   *)
(* psc_run) and the periodic tasks started (main.c, on_startup); then the  *)
(* statistics task reports the address that DHCP may change (lstats.c).    *)
(*                                                                         *)
(* Any access to the card may fail, and the power may be cut at any of     *)
(* them: the card keeps what had been written.  A later cut finds the card *)
(* as one at the end of its use does.                                      *)
(*                                                                         *)
(* NET.CNF enters as the pieces f_gets delivers: a line of up to 63        *)
(* characters, or the next 63 of a longer one, which the parser takes for  *)
(* a line.  A piece is a command and the kind of its argument.             *)
(* Text of an address that inet_ntoa leaves in its static buffer has two   *)
(* halves, as it is written and copied character by character.             *)
(***************************************************************************)
EXTENDS Naturals, Sequences

CONSTANTS
  Address,            \* valid addresses that NET.CNF and DHCP may give
  Piece,              \* pieces of NET.CNF: records of cmd and arg
  MaxPieces,          \* pieces of NET.CNF read at most
  MaxCuts,            \* power cuts
  NTask               \* tasks on_startup starts, the first is lstats

ASSUME PieceAssumption ==
  Piece \subseteq [cmd : {"dhcp", "addr", "gw", "hwaddr", "other"},
                   arg : Address \cup {"none", "yes", "no", "eeprom", "mac", "bad"}]
ASSUME BoundAssumption == MaxPieces \in Nat /\ MaxCuts \in Nat /\ NTask \in Nat \ {0}
ASSUME AddressAssumption ==
  Address \cap {"none", "yes", "no", "eeprom", "mac", "bad", "zero", "gw", "peer"} = {}

VARIABLES
  main,               \* the main thread's next step
  part,               \* the partition it tries
  conf, pieces,       \* net_config; history: the pieces it was made from
  eeprom_new,         \* EEPROM.NEW is on the card
  eeprom_dat,         \* EEPROM.DAT: the size its directory entry gives ("full" is
                      \* EE_SIZE or more); torn: its clusters are not what that says
  matched,            \* history: the comparison found it up to date, likewise
  faulted,            \* history: an access to either failed, until net_setup
  cuts,               \* power cuts so far
  nic, dhcp,          \* the interface is up, the DHCP client runs
  the_server, tasks,  \* psc_run has set the key; tasks started
  ip_addr,            \* the interface's address
  text,               \* inet_ntoa's buffer
  lstats, dhcpcd      \* the two tasks: next step and what they hold

card_vars == <<eeprom_new, eeprom_dat, matched>>
conf_vars == <<conf, pieces>>
net_vars  == <<nic, dhcp, ip_addr>>
task_vars == <<the_server, tasks>>
text_vars == <<text, lstats, dhcpcd>>
vars == <<main, part, conf_vars, card_vars, faulted, cuts, net_vars, task_vars,
          text_vars>>

NoConf == [use_static |-> FALSE, addr |-> "zero", gw |-> "zero", hwaddr |-> "zero"]

Addr == Address \cup {"zero"}
Text == Addr \cup {"gw", "peer"}
CardStep == {"mount", "cnf", "lines", "new", "unlink", "dat", "read", "trunc",
             "write", "sync", "close"}
Dat == [size : {"none", "short", "full"}, torn : BOOLEAN]
FullDat == [size |-> "full", torn |-> FALSE]

TypeOK ==
  /\ main \in CardStep \cup {"net", "run", "start", "serve", "failed"}
  /\ part \in 0..1
  /\ conf \in [use_static : BOOLEAN, addr : Addr, gw : Addr,
               hwaddr : {"zero", "eeprom", "text"}]
  /\ pieces \in Seq(Piece) /\ Len(pieces) <= MaxPieces
  /\ eeprom_new \in BOOLEAN
  /\ eeprom_dat \in Dat /\ matched \in BOOLEAN
  /\ faulted \in BOOLEAN /\ cuts \in 0..MaxCuts
  /\ nic \in BOOLEAN /\ dhcp \in BOOLEAN /\ (dhcp => nic)
  /\ the_server \in BOOLEAN /\ tasks \in 0..NTask
  /\ ip_addr \in Addr
  /\ text \in Text \X Text
  /\ lstats \in [step : {"sleep", "text", "copy", "copy2", "send"}, got : Seq(Text)]
  /\ dhcpcd \in [step : {"sleep", "ip", "gw", "prev"}, prev : Addr]

Init ==
  /\ main = "mount" /\ part = 0
  /\ conf = NoConf /\ pieces = <<>>
  /\ eeprom_new \in BOOLEAN /\ eeprom_dat \in Dat /\ ~eeprom_dat.torn
  /\ matched = FALSE /\ faulted = FALSE /\ cuts = 0
  /\ nic = FALSE /\ dhcp = FALSE /\ ip_addr = "zero"
  /\ the_server = FALSE /\ tasks = 0
  /\ text = <<"zero", "zero">>
  /\ lstats = [step |-> "sleep", got |-> <<>>]
  /\ dhcpcd = [step |-> "sleep", prev |-> "zero"]

-----------------------------------------------------------------------------
(* The SD card, in the main thread *)

Goto(from, to) == main = from /\ main' = to

\* Nothing but the main thread's step and what the action names changes.
CardOnly == UNCHANGED <<cuts, net_vars, task_vars, text_vars>>

\* Faulty variant: the partitions are tried in turn until one has a card.
TryForever(ok) ==
  /\ main = "mount"
  /\ main' = IF ok THEN "cnf" ELSE "mount"
  /\ part' = IF ok THEN part ELSE 1 - part
  /\ faulted' = (faulted \/ ~ok)
  /\ UNCHANGED <<conf_vars, card_vars>> /\ CardOnly

\* f_mount and f_chdir; without either the next partition, or none.
sdcard_trypart(ok) ==
  /\ main = "mount"
  /\ main' = IF ok THEN "cnf" ELSE IF part = 0 THEN "mount" ELSE "net"
  /\ part' = IF ok THEN part ELSE 1
  /\ faulted' = (faulted \/ (~ok /\ part = 1))
  /\ UNCHANGED <<conf_vars, card_vars>> /\ CardOnly

OpenCnf(ok) ==
  /\ Goto("cnf", IF ok THEN "lines" ELSE "new")
  /\ UNCHANGED <<part, conf_vars, card_vars, faulted>> /\ CardOnly

\* sdcard_parse_inet: without a valid address the old one stays.
sdcard_parse_inet(arg, out) == IF arg \in Address THEN arg ELSE out

\* Faulty variant: a line with an address leaves the mode alone.
ParseModest(c, p) ==
  CASE p.cmd = "dhcp" -> [c EXCEPT !.use_static = IF p.arg = "no" THEN TRUE
                                    ELSE IF p.arg \in {"none", "yes"} THEN FALSE ELSE @]
    [] p.cmd = "addr" -> [c EXCEPT !.addr = sdcard_parse_inet(p.arg, @)]
    [] p.cmd = "gw"   -> [c EXCEPT !.gw = sdcard_parse_inet(p.arg, @)]
    [] p.cmd = "hwaddr" -> [c EXCEPT !.hwaddr = IF p.arg = "mac" THEN "text" ELSE "eeprom"]
    [] OTHER -> c

\* One line.  An address, valid or not, implies a static one; hwaddr takes the
\* EEPROM's MAC first, and the argument only when all six bytes are there.
\* mask is parsed like gw.
Parse(c, p) ==
  CASE p.cmd = "dhcp" -> [c EXCEPT !.use_static = IF p.arg = "no" THEN TRUE
                                    ELSE IF p.arg \in {"none", "yes"} THEN FALSE ELSE @]
    [] p.cmd = "addr" -> [c EXCEPT !.addr = sdcard_parse_inet(p.arg, @),
                                   !.use_static = TRUE]
    [] p.cmd = "gw"   -> [c EXCEPT !.gw = sdcard_parse_inet(p.arg, @)]
    [] p.cmd = "hwaddr" -> [c EXCEPT !.hwaddr = IF p.arg = "mac" THEN "text" ELSE "eeprom"]
    [] OTHER -> c

sdcard_netconf(p) ==
  /\ main = "lines" /\ Len(pieces) < MaxPieces
  /\ conf' = Parse(conf, p)
  /\ pieces' = Append(pieces, p)
  /\ UNCHANGED <<main, part, card_vars, faulted>> /\ CardOnly

\* The end of the file or a read error, with what was read before it.
EndCnf ==
  /\ Goto("lines", "new")
  /\ UNCHANGED <<part, conf_vars, card_vars, faulted>> /\ CardOnly

OpenNew(ok) ==
  /\ Goto("new", IF ok /\ eeprom_new THEN "unlink" ELSE "dat")
  /\ faulted' = (faulted \/ ~ok)
  /\ UNCHANGED <<part, conf_vars, card_vars>> /\ CardOnly

\* sdcard_sync_eeprom(fd, 1) reads the file and writes nothing, as the EEPROM's
\* accesses are commented out; the file is deleted whatever came of it.
UnlinkNew(ok) ==
  /\ Goto("unlink", "dat")
  /\ eeprom_new' = ~ok
  /\ faulted' = (faulted \/ ~ok)
  /\ UNCHANGED <<part, conf_vars, eeprom_dat, matched>> /\ CardOnly

\* FA_OPEN_ALWAYS creates the file; its entry may stay in memory until f_close.
OpenDat(ok) ==
  /\ Goto("dat", IF ok THEN "read" ELSE "net")
  /\ \/ UNCHANGED eeprom_dat
     \/ /\ ok /\ eeprom_dat.size = "none"
        /\ eeprom_dat' = [eeprom_dat EXCEPT !.size = "short"]
  /\ faulted' = (faulted \/ ~ok)
  /\ UNCHANGED <<part, conf_vars, eeprom_new, matched>> /\ CardOnly

\* Faulty variant: only a file that is not full is written, as sdcard.c:6 has it.
ReadEmpty(ok, match) ==
  /\ Goto("read", IF ok /\ eeprom_dat.size # "full" THEN "trunc" ELSE "net")
  /\ match => eeprom_dat.size = "full"
  /\ matched' = (ok /\ match)
  /\ faulted' = (faulted \/ ~ok)
  /\ UNCHANGED <<part, conf_vars, eeprom_new, eeprom_dat>> /\ CardOnly

\* sdcard_sync_eeprom(fd, 0): a file of at least EE_SIZE bytes, torn or not, is
\* compared with memory that nothing has filled, which may match.  A file that
\* is not written to is closed without an access to the card.
ReadDat(ok, match) ==
  /\ Goto("read", IF ok /\ ~match THEN "trunc" ELSE "net")
  /\ match => eeprom_dat.size = "full"
  /\ matched' = (ok /\ match)
  /\ faulted' = (faulted \/ ~ok)
  /\ UNCHANGED <<part, conf_vars, eeprom_new, eeprom_dat>> /\ CardOnly

\* f_lseek and f_truncate free the clusters; until f_sync the directory entry
\* has the old size.  A failure may come before the clusters are freed.
Truncate(ok) ==
  /\ Goto("trunc", IF ok THEN "write" ELSE "close")
  /\ \/ eeprom_dat' = [eeprom_dat EXCEPT !.torn = TRUE]
     \/ ~ok /\ UNCHANGED eeprom_dat
  /\ faulted' = (faulted \/ ~ok)
  /\ UNCHANGED <<part, conf_vars, eeprom_new, matched>> /\ CardOnly

\* A write that fails, or falls short on a full card.
WriteDat(ok) ==
  /\ Goto("write", IF ok THEN "sync" ELSE "close")
  /\ faulted' = (faulted \/ ~ok)
  /\ UNCHANGED <<part, conf_vars, card_vars>> /\ CardOnly

\* f_sync; one that fails may have written the entry.
SyncDat(ok) ==
  /\ Goto("sync", "close")
  /\ eeprom_dat' \in IF ok THEN {FullDat}
                     ELSE {eeprom_dat, [eeprom_dat EXCEPT !.size = "full"]}
  /\ faulted' = (faulted \/ ~ok)
  /\ UNCHANGED <<part, conf_vars, eeprom_new, matched>> /\ CardOnly

\* f_close writes the directory entry if it has not been written: of the file as
\* far as it was written, unless that fails too.
CloseDat ==
  /\ Goto("close", "net")
  /\ eeprom_dat' \in IF eeprom_dat.torn
                     THEN {eeprom_dat, [size |-> "short", torn |-> FALSE], FullDat}
                     ELSE {eeprom_dat}
  /\ UNCHANGED <<part, conf_vars, eeprom_new, matched, faulted>> /\ CardOnly

sdcard_handle ==
  \/ EndCnf \/ CloseDat
  \/ \E p \in Piece : sdcard_netconf(p)
  \/ \E ok \in BOOLEAN :
        \/ sdcard_trypart(ok) \/ OpenCnf(ok) \/ OpenNew(ok) \/ UnlinkNew(ok)
        \/ OpenDat(ok) \/ Truncate(ok) \/ WriteDat(ok) \/ SyncDat(ok)
        \/ \E match \in BOOLEAN : ReadDat(ok, match)

\* Nothing else has been started yet.
PowerCut ==
  /\ main \in CardStep /\ cuts < MaxCuts
  /\ cuts' = cuts + 1
  /\ main' = "mount" /\ part' = 0
  /\ conf' = NoConf /\ pieces' = <<>> /\ faulted' = FALSE
  /\ matched' = FALSE
  /\ UNCHANGED <<eeprom_new, eeprom_dat, net_vars, task_vars, text_vars>>

-----------------------------------------------------------------------------
(* The network and the server, in the main thread *)

\* xemac_add; without the interface the rest is skipped.  The DHCP client runs
\* unless the address is static or dhcp_start fails.  Nothing reads the histories
\* any more.
net_setup(ok, dhcp_ok) ==
  /\ Goto("net", "run")
  /\ nic' = ok
  /\ ip_addr' = IF ok THEN conf.addr ELSE ip_addr
  /\ dhcp' = (ok /\ ~conf.use_static /\ dhcp_ok)
  /\ conf' = NoConf /\ pieces' = <<>> /\ faulted' = FALSE /\ matched' = FALSE
  /\ UNCHANGED <<part, eeprom_new, eeprom_dat, cuts, task_vars, text_vars>>

\* psc_run up to its callback: any of its calls may fail, and it returns.
psc_run(ok) ==
  /\ Goto("run", IF ok THEN "start" ELSE "failed")
  /\ the_server' = ok
  /\ UNCHANGED <<part, conf_vars, card_vars, faulted, cuts, net_vars, tasks,
                 text_vars>>

\* The callback starts one task after the other; each runs at once.
on_startup ==
  /\ main = "start"
  /\ tasks' = tasks + 1
  /\ main' = IF tasks' = NTask THEN "serve" ELSE "start"
  /\ UNCHANGED <<part, conf_vars, card_vars, faulted, cuts, net_vars, the_server,
                 text_vars>>

realmain ==
  \/ sdcard_handle
  \/ \E ok, dhcp_ok \in BOOLEAN : net_setup(ok, dhcp_ok)
  \/ \E ok \in BOOLEAN : psc_run(ok)
  \/ on_startup

-----------------------------------------------------------------------------
(* Addresses as text *)

BootOnly == UNCHANGED <<main, part, conf_vars, card_vars, faulted, cuts, task_vars>>

\* DHCP (external) changes the address, or loses it.
Lease(a) ==
  /\ dhcp /\ a # ip_addr
  /\ ip_addr' = a
  /\ UNCHANGED <<nic, dhcp, text_vars>> /\ BootOnly

\* The listener prints the address of a client, the console the interface's.
LogAddress ==
  /\ main = "serve"
  /\ \E a \in {ip_addr, "peer"} : text' = <<a, a>>
  /\ UNCHANGED <<net_vars, lstats, dhcpcd>> /\ BootOnly

\* Faulty variant: the address shown is not remembered.
ForgetShown ==
  \/ /\ dhcpcd.step = "sleep" /\ ip_addr # dhcpcd.prev
     /\ dhcpcd' = [dhcpcd EXCEPT !.step = "ip"]
     /\ UNCHANGED text
  \/ /\ dhcpcd.step = "ip"
     /\ text' = <<ip_addr, ip_addr>>
     /\ dhcpcd' = [dhcpcd EXCEPT !.step = "gw"]
  \/ /\ dhcpcd.step = "gw"
     /\ text' = <<"gw", "gw">>
     /\ dhcpcd' = [dhcpcd EXCEPT !.step = "sleep"]

\* A new address is shown with mask and gateway, each through the buffer; what
\* is remembered is the address at the end.
ShowNew ==
  \/ /\ dhcpcd.step = "sleep" /\ ip_addr # dhcpcd.prev
     /\ dhcpcd' = [dhcpcd EXCEPT !.step = "ip"]
     /\ UNCHANGED text
  \/ /\ dhcpcd.step = "ip"
     /\ text' = <<ip_addr, ip_addr>>
     /\ dhcpcd' = [dhcpcd EXCEPT !.step = "gw"]
  \/ /\ dhcpcd.step = "gw"
     /\ text' = <<"gw", "gw">>
     /\ dhcpcd' = [dhcpcd EXCEPT !.step = "prev"]
  \/ /\ dhcpcd.step = "prev"
     /\ dhcpcd' = [step |-> "sleep", prev |-> ip_addr]
     /\ UNCHANGED text

dhcp_client == dhcp /\ ShowNew /\ UNCHANGED <<net_vars, lstats>> /\ BootOnly

\* The address is converted, copied from the buffer, and sent as record 103.
LstatsStep(from, to, got) ==
  /\ tasks > 0
  /\ lstats.step = from
  /\ lstats' = [step |-> to, got |-> got]
  /\ UNCHANGED <<net_vars, dhcpcd>> /\ BootOnly

lstats_push ==
  \/ LstatsStep("sleep", "text", <<ip_addr>>) /\ text' = <<ip_addr, text[2]>>
  \/ LstatsStep("text", "copy", <<>>) /\ text' = <<text[1], lstats.got[1]>>
  \/ LstatsStep("copy", "copy2", <<text[1]>>) /\ UNCHANGED text
  \/ LstatsStep("copy2", "send", Append(lstats.got, text[2])) /\ UNCHANGED text
  \/ LstatsStep("send", "sleep", <<>>) /\ UNCHANGED text

-----------------------------------------------------------------------------
Next ==
  \/ realmain \/ PowerCut
  \/ \E a \in Addr : Lease(a)
  \/ LogAddress \/ dhcp_client \/ lstats_push

SafetySpec == Init /\ [][Next]_vars

\* Every task gets its time slices; the card's calls return; the power is cut
\* MaxCuts times at most.
Spec == SafetySpec /\ WF_vars(realmain) /\ WF_vars(dhcp_client) /\ WF_vars(lstats_push)

-----------------------------------------------------------------------------
(* Properties *)

Last(S) == CHOOSE i \in S : \A j \in S : j <= i

Lines(cmd) == {i \in 1..Len(pieces) : pieces[i].cmd = cmd}
LinesWith(cmd, args) == {i \in Lines(cmd) : pieces[i].arg \in args}
LastArg(S, none) == IF S = {} THEN none ELSE pieces[Last(S)].arg

StaticLines == LinesWith("dhcp", {"no"}) \cup Lines("addr")
ModeLines == StaticLines \cup LinesWith("dhcp", {"none", "yes"})

AsRead ==
  /\ conf.use_static <=> ModeLines # {} /\ Last(ModeLines) \in StaticLines
  /\ conf.addr = LastArg(LinesWith("addr", Address), "zero")
  /\ conf.gw = LastArg(LinesWith("gw", Address), "zero")
  /\ conf.hwaddr = IF Lines("hwaddr") = {} THEN "zero"
                   ELSE IF LastArg(Lines("hwaddr"), "none") = "mac" THEN "text"
                   ELSE "eeprom"

\* The configuration is the one the lines of NET.CNF say, however many there
\* are and whatever they repeat (sdcard.c:77-156): an address is static if the
\* last line on the matter is "dhcp no" or an address, even an invalid one;
\* addresses are the last valid ones; the MAC depends on the last hwaddr line.
ConfigAsRead == main \in CardStep \cup {"net"} => AsRead

\* A start that uses the card without an error leaves EEPROM.NEW deleted and
\* EEPROM.DAT of its size, and either written whole by this start or found equal
\* in its comparison, whatever an earlier start was interrupted at
\* (sdcard.c:180, 199-211, 219-251).
CardRepaired ==
  main = "net" /\ ~faulted =>
    ~eeprom_new /\ eeprom_dat.size = "full" /\ (matched \/ ~eeprom_dat.torn)

\* No task that sends to the_server runs before psc_run has set it
\* (listener.c:119-123, main.c:231-243).
ServerFirst == tasks > 0 => the_server

\* Whatever fails on the card, and whether there is an interface or a lease,
\* the main thread comes to serve clients, unless the socket cannot be opened.
ServiceComes == <>[](main \in {"serve", "failed"})

\* When the address changes no more and no client's is printed, record 103
\* comes to hold the interface's own, in spite of the shared buffer
\* (lstats.c:108-117, net_setup.c:21-27).
AddressReported ==
  \A a \in Address :
     <>[](ip_addr = a) /\ <>[][text' # <<"peer", "peer">>]_text =>
        <>[](lstats.step = "send" => lstats.got = <<a, a>>)
=============================================================================
