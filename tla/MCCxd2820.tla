----------------------------- MODULE MCCxd2820 -----------------------------
(* Either an application calls the demodulator driver itself, on a chip     *)
(* with DVB-T2 or one without, with a bandwidth every system has and one    *)
(* that DVB-C does not; or one thread calls the integration driver while    *)
(* another cancels, on channels of 8 MHz.                                   *)
EXTENDS Cxd2820

MCChips == {"CXD2817", "CXD2820_ES1_1"}
MCBandwidths == {"7", "8"}

VARIABLE direct   \* which of the two

MCInit ==
  /\ DriverInit /\ direct \in BOOLEAN
  /\ direct \/ chipId = "CXD2820_ES1_1"

MCNext ==
  /\ \/ direct /\ Next /\ UNCHANGED driverVars
     \/ ~direct /\ DriverNext /\ \A t \in Threads : call'[t].bandWidth # "7"
  /\ UNCHANGED direct

MCSpec ==
  /\ MCInit /\ [][MCNext]_<<allVars, direct>>
  /\ \A t \in Threads : WF_allVars(~direct /\ Step(t))
=============================================================================
