------------------------- MODULE MCStreamController -------------------------
(***************************************************************************)
(* Instances of StreamController for TLC: a television program (0), a      *)
(* radio program (1) and a second television program (2).                  *)
(***************************************************************************)
EXTENDS StreamController, TLC

MCNoPid == 65000
MCBroadcast ==
  [p \in Programs |->
     CASE p = 0 -> [video |-> 100, audio |-> 101]
       [] p = 1 -> [video |-> MCNoPid, audio |-> 111]
       [] OTHER -> [video |-> 120, audio |-> 121]]

\* An unwritten entry holds an arbitrary number, possibly 65000 by chance.
MCGarbage == {MCNoPid, 7777}

\* For the liveness run: what an unwritten entry holds does not matter there.
MCTidy == {7777}

=============================================================================
