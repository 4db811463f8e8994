----------------------------- MODULE MCMonitor -----------------------------
(* The application asks for the quality of the signal while the thread of *)
(* the tuner's status checks the lock.                                     *)
EXTENDS Monitor

CONSTANTS main, checker

MCBeside ==
  [t \in {main, checker} |->
     IF t = main THEN {"Tuner_Get_Signal_Quality", "SyncStat", "CheckDemodLock"}
     ELSE {"CheckTSLock"}]

\* The status thread optimises the output of DVB-T2 as well.
OptimisingBeside ==
  [MCBeside EXCEPT ![checker] = @ \cup {"OptimiseTSOutput_ES1_0", "OptimiseTSOutput_ES1_1"}]
=============================================================================
