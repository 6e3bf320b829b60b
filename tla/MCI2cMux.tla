------------------------------ MODULE MCI2cMux ------------------------------
(***************************************************************************)
(* I2cMux for TLC: constants that are not model values.                    *)
(***************************************************************************)
EXTENDS I2cMux

MCCages == <<"sfp0">>
MCPair == {<<7, 8>>, <<9, Erased>>}
=============================================================================
