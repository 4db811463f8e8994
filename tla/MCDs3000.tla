------------------------------ MODULE MCDs3000 ------------------------------
(* Calls: a fast DVB-S and a slow and a fast DVB-S2 transponder, the last  *)
(* one also 4 MHz off.  Blind scan: the upper end of the band, with a wide *)
(* DVB-S transponder or an analogue carrier beside a narrow DVB-S2 one.    *)
EXTENDS BlindScan

CONSTANTS
  MaxCalls,   \* calls of the user and changes of the signal, together
  MaxScans    \* blind scans

VARIABLE calls      \* how many there have been

Sat(freq, type, rate, bits, num, den, tone, volt) ==
  [freq |-> freq, type |-> type, rate |-> rate, bits |-> bits, num |-> num,
   den |-> den, tone |-> tone, volt |-> volt]

MCSignals == {Sat(12100, "S", 45000, 2, 7, 8, TRUE, 18),
              Sat(10753, "S2", 4000, 2, 1, 2, FALSE, 18),
              Sat(12100, "S2", 30000, 3, 9, 10, TRUE, 18),
              Sat(12104, "S2", 30000, 3, 9, 10, TRUE, 18)}

Ask(freq, rate, type, tone, volt) ==
  [freq |-> freq, rate |-> rate, type |-> type, tone |-> tone, volt |-> volt]

MCTunings == {Ask(12100, 45000, "Unknown", TRUE, 18), Ask(10753, 4000, "Unknown", FALSE, 18),
              Ask(12100, 30000, "Unknown", TRUE, 18), Ask(12100, 30000, "S2", TRUE, 18)}

MCSkies ==
  LET wide   == Sat(2125000, "S", 27500, 2, 7, 8, FALSE, 18)
      narrow == Sat(2144000, "S2", 4000, 2, 1, 2, FALSE, 18)
      other  == Sat(2135000, "analogue", 6000, 2, 1, 2, FALSE, 18)
  IN  {{wide, narrow}, {other, narrow}}

MCInit == calls = 0 /\ ((Init /\ NoScanner) \/ ScanInit)

(* The front end is either called or scans, for as long as it runs.        *)
MCNext ==
  \/ /\ scan.pc = "off"
     /\ \/ (UserCall \/ AirChanges) /\ calls < MaxCalls /\ calls' = calls + 1
        \/ (Connecting \/ Search \/ \E t \in Threads : PollStep(t)) /\ UNCHANGED calls
     /\ UNCHANGED scanVars
  \/ BlindScanStart /\ calls < MaxScans /\ calls' = calls + 1
  \/ (Abort \/ Windows \/ Trials \/ ScanFinish) /\ UNCHANGED calls

MCSpec == MCInit /\ [][MCNext]_<<vars, scanVars, calls>>
=============================================================================
