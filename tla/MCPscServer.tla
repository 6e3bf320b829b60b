---------------------------- MODULE MCPscServer -----------------------------
(***************************************************************************)
(* PscServer for TLC: peers, and data threads, are interchangeable.        *)
(***************************************************************************)
EXTENDS PscServer, TLC

Symmetry == Permutations(Conn) \cup Permutations(Sender)
=============================================================================
