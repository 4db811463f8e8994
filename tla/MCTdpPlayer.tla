---------------------------- MODULE MCTdpPlayer ----------------------------
(* TdpPlayer for TLC: the values of handles do not matter, and a handle    *)
(* may be given out again.                                                 *)
EXTENDS TdpPlayer, TLC
CONSTANTS h1, h2, f1
MCHandles == {h1, h2}
MCFunctions == {f1}
HandleSymmetry == Permutations(MCHandles)
=============================================================================
