----------------------------- MODULE MCStartup ------------------------------
(***************************************************************************)
(* Startup for TLC: every command of NET.CNF, with arguments that count    *)
(* and arguments that do not.                                              *)
(***************************************************************************)
EXTENDS Startup

MCPiece ==
  {[cmd |-> "dhcp", arg |-> "yes"], [cmd |-> "dhcp", arg |-> "no"],
   [cmd |-> "dhcp", arg |-> "bad"],
   [cmd |-> "addr", arg |-> "a1"], [cmd |-> "addr", arg |-> "a2"],
   [cmd |-> "addr", arg |-> "bad"],
   [cmd |-> "gw", arg |-> "a1"],
   [cmd |-> "hwaddr", arg |-> "mac"], [cmd |-> "hwaddr", arg |-> "bad"],
   [cmd |-> "other", arg |-> "none"]}
=============================================================================
