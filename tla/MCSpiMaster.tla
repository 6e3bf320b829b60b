---------------------------- MODULE MCSpiMaster ----------------------------
(***************************************************************************)
(* SpiMaster for TLC: two words for one ADC register, one for another, one *)
(* with the bit that makes it a query; attenuations below and above the    *)
(* 64 dB at which the register wraps.                                      *)
(***************************************************************************)
EXTENDS SpiMaster

MCAdcWord == {<<2, 1>>, <<2, 5>>, <<3, 1>>, <<130, 1>>}
MCAttenMsg == {10, 31, 70}
=============================================================================
