------------------------------ MODULE MCTuner ------------------------------
(* A board with a CXD2820 of revision ES1.1.                                *)
EXTENDS Tuner

MCChips == {"CXD2820_ES1_1"}
MCBandwidths == {"8"}
=============================================================================
