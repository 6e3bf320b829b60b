----------------------------- MODULE MCSettings -----------------------------
(***************************************************************************)
(* Settings for TLC: words of 10 bits for those of 32, one register that   *)
(* is written as it is for the fifteen there are, one burst length for     *)
(* three, and messages of every kind, with values in and out of range: of  *)
(* the lines, the soft trigger and the two that share a register.  One of  *)
(* the values asked for is what Init has, to keep the states few.          *)
(***************************************************************************)
EXTENDS Settings

MCPlainTop == [kx |-> 64]
MCMaxLen == [dma_adcburstlen |-> 5]
MCMessage ==
  {[id |-> "rf_dsa", data |-> 70], [id |-> "dma_trigsrc", data |-> 2],
   [id |-> "dma_adcburstlen", data |-> 7], [id |-> "dma_adcburstlen", data |-> 700],
   [id |-> "kx", data |-> 64],
   [id |-> "dma_softtrig", data |-> 1],
   [id |-> "adc0_mmcm", data |-> 1], [id |-> "adc1_mmcm", data |-> 1],
   [id |-> "adc_idly", data |-> 1], [id |-> "adc_idly", data |-> 812]}
MCReport == <<"rf_dsa">>
=============================================================================
