---------------------------- MODULE MCLongEcho ----------------------------
(* Polls of 150 ms in place of 10: the same waits in fewer turns.          *)
EXTENDS LongEcho
=============================================================================
