------------------------------- MODULE Tuner -------------------------------
(***************************************************************************)
(* The tuner half of src/tdp_api/tdp_api.c, as the makefile builds it: a   *)
(* NuTune tuner and a CXD2820 without SATELITE, with DVB_T2_ON.  The       *)
(* application's thread initialises the front end and locks it to          *)
(* frequencies; every lock starts a thread that waits for the transport    *)
(* stream and reports it to the registered callback.                       *)
(***************************************************************************)
EXTENDS Cxd2820

CONSTANTS
  Main,      \* the application's thread; the other threads check for TS locks
  Reinit     \* the application initialises the tuner again

ASSUME MainAssumption == Main \in Threads /\ Reinit \in BOOLEAN

VARIABLES
  latch,       \* chip: the clock edge at which slaves T and T2 latch the TS
  oldEdge,     \* i32OldEdge of DMDi_Change_Config
  initDone,    \* InitDone
  registered,  \* TunerStatusCallback # NULL
  pc, want,    \* where Main is in a tuner call, and the system it is to lock
  locked,      \* the system for which the last Tuner_Lock_To_Frequency returned 0
  check        \* what each checking thread is doing, for which system

tunerVars == <<latch, oldEdge, initDone, registered, pc, want, locked, check>>
all == <<allVars, tunerVars>>

Checkers == Threads \ {Main}
EdgeOf(s) == IF s = "DVBT" THEN 1 ELSE 0
Slaves == {"DVBT", "DVBT2"}
NoCheck == [at |-> "off", system |-> "UNKNOWN"]

TunerInit ==
  /\ DriverInit
  /\ latch = [s \in Slaves |-> 1] /\ oldEdge = 2   \* no edge: -1 in the code
  /\ initDone = FALSE /\ registered = FALSE
  /\ pc = "idle" /\ want = "UNKNOWN" /\ locked = "UNKNOWN"
  /\ check = [t \in Checkers |-> NoCheck]

-----------------------------------------------------------------------------
(* Main.                                                                   *)

Then(p) == pc' = p
DriverRests ==
  QuietDemod /\ UNCHANGED driverVars
\* A call of the demodulator driver that leaves the integration driver alone.
DriverOnly == UNCHANGED driverVars

Tuner_Register_Status_Callback ==
  /\ pc = "idle" /\ ~registered /\ registered' = TRUE
  /\ DriverRests /\ UNCHANGED <<latch, oldEdge, initDone, pc, want, locked, check>>

Tuner_Unregister_Status_Callback ==
  /\ pc = "idle" /\ registered /\ registered' = FALSE
  /\ DriverRests /\ UNCHANGED <<latch, oldEdge, initDone, pc, want, locked, check>>

\* The structures are cleared and the chip is taken for asleep, whatever the
\* threads that check an older lock are doing.
Tuner_Init ==
  /\ pc = "idle" /\ (Reinit \/ ~initDone)
  /\ dvb_cxd2820_Initialize(Main)
  /\ pc' = IF result' = "OK" THEN "init_echo" ELSE "idle"
  /\ locked' = "UNKNOWN"
  /\ UNCHANGED <<latch, oldEdge, initDone, registered, want, check>>

\* Of this and the next configuration a failure is only printed.
EnableLongEcho ==
  /\ pc = "init_echo" /\ Then("init_latch")
  /\ SetLongEcho(TRUE) /\ DriverOnly
  /\ UNCHANGED <<latch, oldEdge, initDone, registered, want, locked, check>>

\* DEMOD_CONFIG_LATCH_ON_POSEDGE, which only a sleeping demodulator takes, at
\* slave T and then at slave T2.
SetLatch(edge) ==
  /\ dvb_demod_SetConfig("LATCH_ON_POSEDGE")
  /\ latch' \in IF result' = "OK" THEN {[s \in Slaves |-> edge]}
               ELSE IF result' = "I2C" THEN {latch, [latch EXCEPT !["DVBT"] = edge]}
               ELSE {latch}

InitLatch ==
  /\ pc = "init_latch" /\ Then("idle")
  /\ SetLatch(0) /\ DriverOnly
  /\ initDone' = TRUE
  /\ UNCHANGED <<oldEdge, registered, want, locked, check>>

Tuner_Lock_To_Frequency(s) ==
  /\ pc = "idle"
  /\ want' = s /\ locked' = "UNKNOWN"
  /\ Then(IF oldEdge # EdgeOf(s) THEN "sleep" ELSE "tune")
  /\ DriverRests /\ UNCHANGED <<latch, oldEdge, initDone, registered, check>>

\* DMDi_Change_Config: the result of the sleep is only printed.
SleepFirst ==
  /\ pc = "sleep" /\ Then("latch")
  /\ dvb_cxd2820_Sleep(Main)
  /\ UNCHANGED <<latch, oldEdge, initDone, registered, want, locked, check>>

\* Mutant of ChangeEdge: the edge is remembered although the configuration failed.
ChangeEdgeAlways ==
  /\ pc = "latch"
  /\ SetLatch(EdgeOf(want)) /\ DriverOnly
  /\ Then(IF result' = "OK" THEN "tune" ELSE "idle")
  /\ oldEdge' = EdgeOf(want)
  /\ UNCHANGED <<initDone, registered, want, locked, check>>

ChangeEdge ==
  /\ pc = "latch"
  /\ SetLatch(EdgeOf(want)) /\ DriverOnly
  /\ Then(IF result' = "OK" THEN "tune" ELSE "idle")
  /\ oldEdge' = IF result' = "OK" THEN EdgeOf(want) ELSE oldEdge
  /\ UNCHANGED <<initDone, registered, want, locked, check>>

BlindTune ==
  /\ pc = "tune" /\ Then("tuning")
  /\ \E bw \in Bandwidths : StartTune(Main, "BlindTune", want, bw)
  /\ UNCHANGED <<latch, oldEdge, initDone, registered, want, locked, check>>

\* The thread is created on success only; Main forgets an older one.
StartCheck ==
  /\ pc = "tuning" /\ At(Main, "idle") /\ Then("idle")
  /\ \/ /\ returned[Main] = want
        /\ locked' = want
        /\ \E t \in Checkers :
             /\ check[t] = NoCheck
             /\ check' = [check EXCEPT ![t] = [at |-> "start", system |-> want]]
     \/ returned[Main] # want /\ UNCHANGED <<locked, check>>
  /\ DriverRests /\ UNCHANGED <<latch, oldEdge, initDone, registered, want>>

MainStep ==
  \/ EnableLongEcho \/ InitLatch \/ SleepFirst \/ ChangeEdge \/ BlindTune \/ StartCheck
  \/ Step(Main) /\ UNCHANGED tunerVars

-----------------------------------------------------------------------------
(* myTuneStatusCheckThread.                                                *)

Thread(t, a) == check' = [check EXCEPT ![t].at = a]
MainKeeps == UNCHANGED <<latch, oldEdge, initDone, registered, pc, want, locked>>

StartWait(t) ==
  /\ check[t].at = "start" /\ Thread(t, "wait")
  /\ dvb_cxd2820_WaitTSLock(t)
  /\ MainKeeps

\* The callback is looked at twice: for the test and for the call.
EndsWait(t) ==
  /\ check[t].at = "wait" /\ At(t, "idle")
  /\ check' = [check EXCEPT ![t] = IF registered THEN [@ EXCEPT !.at = "call"] ELSE NoCheck]
  /\ DriverRests /\ MainKeeps

CallStatus(t) ==
  /\ check[t].at = "call"
  /\ check' = [check EXCEPT ![t] = NoCheck]
  /\ DriverRests /\ MainKeeps

CheckStep(t) ==
  \/ StartWait(t) \/ EndsWait(t) \/ CallStatus(t)
  \/ Step(t) /\ UNCHANGED tunerVars

-----------------------------------------------------------------------------
TunerNext ==
  \/ Tuner_Register_Status_Callback \/ Tuner_Unregister_Status_Callback
  \/ Tuner_Init \/ \E s \in {"DVBT", "DVBT2"} : Tuner_Lock_To_Frequency(s)
  \/ MainStep \/ \E t \in Checkers : CheckStep(t)

TunerSpec == TunerInit /\ [][TunerNext]_all

\* Threads in a call or in a check are scheduled; nobody has to call anything.
FairTunerSpec ==
  TunerSpec /\ WF_all(MainStep) /\ \A t \in Checkers : WF_all(CheckStep(t))

-----------------------------------------------------------------------------
\* The state of the tuner calls is well formed.
TunerTypeOK ==
  /\ DriverTypeOK
  /\ latch \in [Slaves -> 0..1] /\ oldEdge \in 0..2 /\ {initDone, registered} \subseteq BOOLEAN
  /\ pc \in {"idle", "init_echo", "init_latch", "sleep", "latch", "tune", "tuning"}
  /\ {want, locked} \subseteq {"UNKNOWN", "DVBT", "DVBT2"}
  /\ \A t \in Checkers : check[t].at \in {"off", "start", "wait", "call"}

\* When Tuner_Lock_To_Frequency has returned 0 the front end demodulates the
\* system that was asked for and, unless the two slaves were left with different
\* edges, latches its transport stream at the edge that system needs, whatever
\* failed in earlier calls.
LockTellsTruth ==
  locked # "UNKNOWN" =>
    /\ demod.state = "ACTIVE" /\ demod.system = locked
    /\ Runs(chip, locked)
    /\ latch["DVBT"] = latch["DVBT2"] => latch[locked] = EdgeOf(locked)

\* A lock that succeeded latches at the edge of its system, also when slave T2
\* failed to take an edge that slave T has taken.
LatchesAtItsEdge == locked # "UNKNOWN" => latch[locked] = EdgeOf(locked)

\* Every lock returns, and every checking thread ends.
TunerCallsEnd ==
  /\ pc # "idle" ~> pc = "idle"
  /\ \A t \in Checkers : check[t].at # "off" ~> check[t].at = "off"

\* A status is that of the lock it was asked for.
StatusOfItsLock ==
  \A t \in Checkers :
    check[t].at = "call" /\ returned[t] = Nothing => demod.system = check[t].system

\* The callback that was tested is the one that is called.
CallsRegisteredCallback == \A t \in Checkers : check[t].at = "call" => registered
=============================================================================
