------------------------------ MODULE Cxd2820 ------------------------------
(***************************************************************************)
(* The integration driver of the front end                                 *)
(* (src/tdp_api/Sony_Demod/SRC/sony_dvb_cxd2820.c): operations that tune   *)
(* the RF part and the demodulator and then poll for a lock, until it      *)
(* comes, cannot come, is given up or is cancelled by another thread.      *)
(* One step is one call of the demodulator driver or one poll.             *)
(***************************************************************************)
EXTENDS CxdDemod

CONSTANTS
  Threads,     \* the threads that call the driver
  MaxPolls,    \* polls of a wait before it times out
  P1Poll,      \* the poll at which DVB-T2 looks for a P1 symbol
  T2P1Poll,    \* ... and the one at which it looks for a T2 P1 symbol
  Frequencies, \* frequencies of a scan
  TornWrites   \* calls of the demodulator driver fail after any of their writes,
               \* not just at the first

ASSUME PollsAssumption ==
  /\ {MaxPolls, P1Poll, T2P1Poll, Frequencies} \subseteq Nat \ {0}
  /\ TornWrites \in BOOLEAN
  /\ P1Poll < T2P1Poll /\ T2P1Poll <= MaxPolls

VARIABLES
  scanMode,      \* pDemod->dvbt_scannmode
  autoSpectrum,  \* pDriver->t2AutoSpectrum
  cancel,        \* pDriver->cancel
  sense,         \* the spectrum sense the T2 core expects
  call,          \* the operation each thread is in
  returned       \* of each thread's last operation: what it acquired, or the error

driverVars == <<scanMode, autoSpectrum, cancel, sense, call, returned>>
allVars == <<vars, driverVars>>

Other(v) == IF v = "NORMAL" THEN "INV" ELSE "NORMAL"

\* A thread outside the driver.  polls, trial and senseFound are index,
\* specTrial and sense of t2_WaitDemodLock; systems and left say what of a scan
\* is still to do; result is the scan's so far.
Idle ==
  [op |-> "none", pc |-> "idle", system |-> "UNKNOWN", bandWidth |-> "none",
   polls |-> 0, trial |-> 0, senseFound |-> "NORMAL", systems |-> << >>, left |-> 0,
   result |-> "OK"]

Nothing == "nothing"

DriverInit ==
  /\ Init
  /\ scanMode = FALSE /\ autoSpectrum = TRUE /\ cancel = FALSE
  /\ sense = "NORMAL"
  /\ call = [t \in Threads |-> Idle]
  /\ returned = [t \in Threads |-> Nothing]

-----------------------------------------------------------------------------
(* Entering and leaving an operation.                                      *)

At(t, pc) == call[t].pc = pc
Goto(t, pc) == call' = [call EXCEPT ![t].pc = pc] /\ UNCHANGED returned
QuietDemod == UNCHANGED <<chipId, demod, chip, adopted, stale>> /\ result' = "OK"

Whole == TornWrites \/ result' = "OK" \/ chip' = chip

Begin(t, c) ==
  /\ At(t, "idle")
  /\ call' = [call EXCEPT ![t] = c]
  /\ returned' = [returned EXCEPT ![t] = Nothing]
  /\ UNCHANGED <<scanMode, autoSpectrum, cancel, sense>>
  /\ QuietDemod

Return(t, r) ==
  /\ call' = [call EXCEPT ![t] = Idle]
  /\ returned' = [returned EXCEPT ![t] =
       IF r # "OK" THEN r
       ELSE IF call[t].op \in {"BlindTune", "Tune"} THEN call[t].system ELSE Nothing]

\* After DoDemodTune.
EndTune(t, r) ==
  \/ /\ call[t].op = "Scan"
     /\ call' = [call EXCEPT ![t].pc = IF r \in {"OK", "UNLOCK", "TIMEOUT"}
                                       THEN "callback" ELSE "scan_off",
                             ![t].result = r]
     /\ UNCHANGED <<returned, cancel>>
  \/ /\ call[t].op = "Tune" /\ r = "OK" /\ call[t].system # "DVBC"
     /\ call' = [call EXCEPT ![t].pc = "ts", ![t].polls = 0]
     /\ UNCHANGED <<returned, cancel>>
  \/ /\ call[t].op = "BlindTune" \/ (call[t].op = "Tune" /\ (r # "OK" \/ call[t].system = "DVBC"))
     /\ Return(t, r) /\ cancel' = FALSE

\* After dvb_cxd2820_WaitTSLock: only Tune clears the cancellation.
EndWait(t, r) ==
  /\ Return(t, r)
  /\ cancel' = (cancel /\ call[t].op # "Tune")

TsWaits == {"ts", "ts_poll", "le_ts"}
Finish(t, r) == IF call[t].pc \in TsWaits THEN EndWait(t, r) ELSE EndTune(t, r)

\* Cancelled, timed out, or one more poll.
KeepPolling(t) ==
  IF cancel THEN Finish(t, "CANCEL")
  ELSE IF call[t].polls + 1 = MaxPolls THEN Finish(t, "TIMEOUT")
  ELSE call' = [call EXCEPT ![t].polls = @ + 1] /\ UNCHANGED <<returned, cancel>>

-----------------------------------------------------------------------------
(* The operations.                                                         *)

\* dvb_cxd2820_Create and _Initialize; the tuner has nothing to do.
dvb_cxd2820_Initialize(t) ==
  /\ At(t, "idle")
  /\ dvb_demod_Initialize
  /\ scanMode' = FALSE /\ autoSpectrum' = TRUE /\ cancel' = FALSE
  /\ returned' = [returned EXCEPT ![t] = Nothing]
  /\ UNCHANGED <<sense, call>>

dvb_cxd2820_Finalize(t) ==
  /\ At(t, "idle") /\ dvb_demod_Finalize /\ Whole
  /\ returned' = [returned EXCEPT ![t] = Nothing]
  /\ UNCHANGED <<scanMode, autoSpectrum, cancel, sense, call>>

dvb_cxd2820_Sleep(t) ==
  /\ At(t, "idle") /\ dvb_demod_Sleep /\ Whole
  /\ returned' = [returned EXCEPT ![t] = Nothing]
  /\ UNCHANGED <<scanMode, autoSpectrum, cancel, sense, call>>

Configure(t) ==
  /\ At(t, "idle")
  /\ \/ \E on \in BOOLEAN : SetLongEcho(on) /\ UNCHANGED autoSpectrum
     \/ \* dvb_cxd2820_SetT2AutoSpectrumDetection
        autoSpectrum' \in BOOLEAN /\ QuietDemod
  /\ returned' = [returned EXCEPT ![t] = Nothing]
  /\ UNCHANGED <<scanMode, cancel, sense, call>>

dvb_cxd2820_Cancel ==
  /\ cancel' = TRUE
  /\ UNCHANGED <<scanMode, autoSpectrum, sense, call, returned>> /\ QuietDemod

NoT2(s) == chipId = "CXD2817" /\ s = "DVBT2"

\* dvb_cxd2820_BlindTune and _Tune.
StartTune(t, op, s, bw) ==
  ~NoT2(s) /\ Begin(t, [Idle EXCEPT !.op = op, !.pc = "rf", !.system = s, !.bandWidth = bw])

dvb_cxd2820_WaitTSLock(t) == Begin(t, [Idle EXCEPT !.op = "WaitTSLock", !.pc = "ts"])

\* systems: the one asked for, and for a multiple scan the alternative.
dvb_cxd2820_Scan(t, s, multiple, bw) ==
  /\ ~NoT2(s) /\ (multiple => s # "DVBC" /\ chipId # "CXD2817")
  /\ Begin(t, [Idle EXCEPT !.op = "Scan", !.pc = "scan_on", !.system = s, !.bandWidth = bw,
                           !.systems = IF multiple
                                       THEN <<s, IF s = "DVBT2" THEN "DVBT" ELSE "DVBT2">>
                                       ELSE <<s>>,
                           !.left = Frequencies])

\* The NuTune FT3114 refuses a frequency out of its bands, or its I2C fails.
TuneRf(t) ==
  /\ At(t, "rf")
  /\ \/ /\ call[t].op = "Scan" /\ Goto(t, "tune") /\ UNCHANGED cancel
     \/ /\ call[t].op # "Scan" /\ Goto(t, "configure") /\ UNCHANGED cancel
     \/ /\ call[t].op = "Scan" /\ UNCHANGED <<returned, cancel>>
        /\ call' = [call EXCEPT ![t].pc = "scan_off", ![t].result = "I2C"]
     \/ /\ call[t].op # "Scan" /\ Return(t, "I2C") /\ UNCHANGED cancel
  /\ UNCHANGED <<scanMode, autoSpectrum, sense>> /\ QuietDemod

\* EnableBlindAcquisition, or the presets of dvb_cxd2820_Tune.
EnableAcquisition(t) ==
  /\ At(t, "configure")
  /\ \/ /\ Ready \/ call[t].system = "DVBC"
        /\ Goto(t, "tune")
     \/ Ready /\ call[t].system # "DVBC" /\ Return(t, "I2C")
     \/ ~Ready /\ call[t].system # "DVBC" /\ Return(t, "SW_STATE")
  /\ UNCHANGED <<scanMode, autoSpectrum, cancel, sense>> /\ QuietDemod

FirstWait(s) ==
  IF s # "DVBT2" THEN "poll" ELSE IF demod.longEcho THEN "le_init" ELSE "t2_poll"

\* DoDemodTune up to WaitDemodLock.
DoDemodTune(t) ==
  /\ At(t, "tune")
  /\ dvb_demod_Tune(call[t].system, call[t].bandWidth) /\ Whole
  /\ IF result' = "OK"
       THEN /\ call' = [call EXCEPT ![t].pc = FirstWait(call[t].system),
                                    ![t].polls = 0, ![t].trial = 0]
            /\ UNCHANGED <<returned, cancel>>
       ELSE EndTune(t, result')
  /\ UNCHANGED <<scanMode, autoSpectrum, sense>>

-----------------------------------------------------------------------------
(* Waiting for the demodulator's lock.                                     *)

\* What dvb_demod_CheckDemodLock and _CheckTSLock may say.
DemodLocks ==
  IF ~Awake THEN {"UNLOCKED"}
  ELSE {"LOCKED", "NOTDETECT", "I2C"} \cup
       (IF demod.system = "DVBC" \/ (demod.system = "DVBT" /\ scanMode)
        THEN {"UNLOCKED"} ELSE {})

LockedOr(t, lock) ==
  \/ lock = "LOCKED" /\ Finish(t, "OK")
  \/ lock = "UNLOCKED" /\ Finish(t, "UNLOCK")
  \/ lock = "I2C" /\ Finish(t, "I2C")
  \/ lock = "NOTDETECT" /\ KeepPolling(t)

\* DVB-T and DVB-C.
WaitDemodLock(t) ==
  /\ At(t, "poll")
  /\ \E lock \in DemodLocks : LockedOr(t, lock)
  /\ UNCHANGED <<scanMode, autoSpectrum, sense>> /\ QuietDemod

\* DVB-T2.  A bus failure in any of the calls of a poll ends the wait.
T2PollFails(t) ==
  /\ At(t, "t2_poll")
  /\ Finish(t, "I2C")
  /\ UNCHANGED <<scanMode, autoSpectrum>>
  /\ \/ sense' \in {sense, Other(sense)} /\ call[t].polls + 1 = P1Poll /\ QuietDemod
     \/ UNCHANGED sense /\ QuietDemod
     \/ \* the soft reset after the flip
        /\ call[t].polls + 1 = P1Poll /\ sense' = Other(sense)
        /\ dvb_demod_SoftReset /\ result' # "OK"

\* Mutant of FlipSense: the other sense is tried again and again.
FlipSenseAgain(t) ==
  /\ At(t, "t2_poll") /\ call[t].polls + 1 = P1Poll /\ autoSpectrum
  /\ sense' = Other(sense)
  /\ dvb_demod_SoftReset /\ result' = "OK"
  /\ call' = [call EXCEPT ![t].polls = 0, ![t].senseFound = sense]
  /\ UNCHANGED <<scanMode, autoSpectrum, cancel, returned>>

\* No P1 after 300 ms: the other sense is tried, once.
FlipSense(t) ==
  /\ At(t, "t2_poll") /\ call[t].polls + 1 = P1Poll /\ autoSpectrum
  /\ call[t].trial = 0
  /\ sense' = Other(sense)
  /\ dvb_demod_SoftReset /\ result' = "OK"
  /\ call' = [call EXCEPT ![t].polls = 0, ![t].trial = 1, ![t].senseFound = sense]
  /\ UNCHANGED <<scanMode, autoSpectrum, cancel, returned>>

\* Mutant of RestoreSense: the spectrum sense is left as it was tried last.
RestoreNothing(t) ==
  /\ At(t, "t2_poll") /\ call[t].polls + 1 = P1Poll
  /\ ~autoSpectrum \/ call[t].trial # 0
  /\ UNCHANGED sense
  /\ Finish(t, "UNLOCK")
  /\ UNCHANGED <<scanMode, autoSpectrum>> /\ QuietDemod

\* No P1 in either sense: the first is restored.
RestoreSense(t) ==
  /\ At(t, "t2_poll") /\ call[t].polls + 1 = P1Poll
  /\ ~autoSpectrum \/ call[t].trial # 0
  /\ sense' = IF autoSpectrum THEN call[t].senseFound ELSE sense
  /\ Finish(t, "UNLOCK")
  /\ UNCHANGED <<scanMode, autoSpectrum>> /\ QuietDemod

NoT2P1(t) ==
  /\ At(t, "t2_poll") /\ call[t].polls + 1 = T2P1Poll
  /\ Finish(t, "UNLOCK")
  /\ UNCHANGED <<scanMode, autoSpectrum, sense>> /\ QuietDemod

t2_WaitDemodLock(t) ==
  \/ T2PollFails(t) \/ FlipSense(t) \/ RestoreSense(t) \/ NoT2P1(t)
  \/ /\ At(t, "t2_poll")
     /\ \E lock \in DemodLocks \ {"I2C"} : LockedOr(t, lock)
     /\ UNCHANGED <<scanMode, autoSpectrum, sense>> /\ QuietDemod

\* DvbT2LongEchoSeqDemodLock: turns of the sequencer (module LongEcho), the
\* cancellation looked at after each of them, whatever it returned.
Turned(t, r, pc) ==
  IF cancel THEN Finish(t, "CANCEL")
  ELSE IF r # "OK" THEN Finish(t, r)
  ELSE Goto(t, pc) /\ UNCHANGED cancel

LongEchoInit(t) ==
  /\ At(t, "le_init")
  /\ \/ Turned(t, "OK", "le_start") \/ Turned(t, "I2C", "le_start")
  /\ UNCHANGED <<scanMode, autoSpectrum, sense>> /\ QuietDemod

LongEchoStart(t) ==
  /\ At(t, "le_start")
  /\ dvb_demod_SoftReset
  /\ Turned(t, result', "le_poll")
  /\ UNCHANGED <<scanMode, autoSpectrum, sense>>

\* Locked or not, one more turn, or a new attempt with other settings.
LongEchoPoll(t) ==
  /\ At(t, "le_poll")
  /\ \/ /\ UNCHANGED sense
        /\ \E r \in IF Awake THEN {"OK", "UNLOCK", "I2C"} ELSE {"SW_STATE"} :
             Finish(t, IF cancel THEN "CANCEL" ELSE r)
     \/ Awake /\ UNCHANGED sense /\ KeepPolling(t)
     \/ /\ Awake /\ ~cancel /\ call[t].polls + 1 < MaxPolls
        /\ call' = [call EXCEPT ![t].pc = "le_start", ![t].polls = @ + 1]
        /\ sense' \in IF autoSpectrum THEN {sense, Other(sense)} ELSE {sense}
        /\ UNCHANGED <<returned, cancel>>
  /\ UNCHANGED <<scanMode, autoSpectrum>> /\ QuietDemod

-----------------------------------------------------------------------------
(* Waiting for the lock of the transport stream.                           *)

StartTsWait(t) ==
  /\ At(t, "ts")
  /\ \/ demod.system = "UNKNOWN" /\ EndWait(t, "ARG")
     \/ /\ demod.system # "UNKNOWN" /\ UNCHANGED cancel
        /\ Goto(t, IF demod.system = "DVBT2" /\ demod.longEcho THEN "le_ts" ELSE "ts_poll")
  /\ UNCHANGED <<scanMode, autoSpectrum, sense>> /\ QuietDemod

\* A DVB-T2 lock is confirmed while its output is optimised
\* (dvb_demod_t2_OptimiseTSOutput): gone again, it is waited for further.
PollTsLock(t) ==
  /\ At(t, "ts_poll")
  /\ \/ \E lock \in DemodLocks : LockedOr(t, lock)
     \/ Awake /\ demod.system = "DVBT2" /\ KeepPolling(t)
  /\ UNCHANGED <<scanMode, autoSpectrum, sense>> /\ QuietDemod

LongEchoTsLock(t) ==
  /\ At(t, "le_ts")
  /\ \/ \E r \in IF Awake /\ demod.system = "DVBT2" THEN {"OK", "I2C"} ELSE {"SW_STATE"} :
          Finish(t, IF cancel THEN "CANCEL" ELSE r)
     \/ Awake /\ demod.system = "DVBT2" /\ KeepPolling(t)
  /\ UNCHANGED <<scanMode, autoSpectrum, sense>> /\ QuietDemod

-----------------------------------------------------------------------------
(* Scanning.                                                               *)

\* The scan mode goes on before the acquisition is configured; when that
\* fails the scan returns at once.
ScanOn(t) ==
  /\ At(t, "scan_on")
  /\ \/ ~Ready /\ Return(t, "SW_STATE") /\ UNCHANGED scanMode
     \/ /\ Ready /\ scanMode' = (scanMode \/ call[t].system # "DVBC")
        /\ Goto(t, "scan_rf") \/ Return(t, "I2C")
  /\ UNCHANGED <<autoSpectrum, cancel, sense>> /\ QuietDemod

\* The first of two RF tunings of a frequency, with the system asked for.
ScanFrequency(t) ==
  /\ At(t, "scan_rf")
  /\ \/ call' = [call EXCEPT ![t].pc = "rf", ![t].system = call[t].systems[1]]
     \/ call' = [call EXCEPT ![t].pc = "scan_off", ![t].result = "I2C"]
  /\ UNCHANGED <<scanMode, autoSpectrum, cancel, sense, returned>> /\ QuietDemod

\* The user is told, and the other system or the next frequency is tried.
Notify(t) ==
  /\ At(t, "callback")
  /\ \/ /\ Len(call[t].systems) = 2 /\ call[t].system = call[t].systems[1]
        /\ call' = [call EXCEPT ![t].pc = "rf", ![t].system = call[t].systems[2]]
     \/ /\ Len(call[t].systems) = 1 \/ call[t].system # call[t].systems[1]
        /\ call' = IF cancel
                     THEN [call EXCEPT ![t].pc = "scan_off", ![t].result = "CANCEL"]
                   ELSE IF call[t].left = 1
                     THEN [call EXCEPT ![t].pc = "scan_off", ![t].result = "OK"]
                     ELSE [call EXCEPT ![t].pc = "scan_rf", ![t].left = @ - 1]
  /\ UNCHANGED <<scanMode, autoSpectrum, cancel, sense, returned>> /\ QuietDemod

ScanOff(t) ==
  /\ At(t, "scan_off")
  /\ \/ ~Ready /\ Return(t, "SW_STATE") /\ UNCHANGED <<scanMode, cancel>>
     \/ call[t].systems = <<"DVBC">> /\ Ready /\ Return(t, "I2C") /\ UNCHANGED <<scanMode, cancel>>
     \/ /\ Ready /\ Return(t, call[t].result) /\ cancel' = FALSE
        /\ scanMode' = (scanMode /\ call[t].systems = <<"DVBC">>)
  /\ UNCHANGED <<autoSpectrum, sense>> /\ QuietDemod

-----------------------------------------------------------------------------
Step(t) ==
  \/ TuneRf(t) \/ EnableAcquisition(t) \/ DoDemodTune(t)
  \/ WaitDemodLock(t) \/ t2_WaitDemodLock(t)
  \/ LongEchoInit(t) \/ LongEchoStart(t) \/ LongEchoPoll(t)
  \/ StartTsWait(t) \/ PollTsLock(t) \/ LongEchoTsLock(t)
  \/ ScanOn(t) \/ ScanFrequency(t) \/ Notify(t) \/ ScanOff(t)

Operation(t) ==
  \/ dvb_cxd2820_Initialize(t) \/ dvb_cxd2820_Finalize(t) \/ dvb_cxd2820_Sleep(t)
  \/ Configure(t)
  \/ \E s \in Systems, bw \in Bandwidths :
       \/ \E op \in {"BlindTune", "Tune"} : StartTune(t, op, s, bw)
       \/ \E multiple \in BOOLEAN : dvb_cxd2820_Scan(t, s, multiple, bw)
  \/ dvb_cxd2820_WaitTSLock(t)

DriverNext == dvb_cxd2820_Cancel \/ \E t \in Threads : Operation(t) \/ Step(t)

DriverSpec == DriverInit /\ [][DriverNext]_allVars
\* The thread in an operation is scheduled.
FairDriverSpec == DriverSpec /\ \A t \in Threads : WF_allVars(Step(t))

-----------------------------------------------------------------------------
Errors ==
  {"ARG", "SW_STATE", "I2C", "NOSUPPORT", "UNLOCK", "TIMEOUT", "CANCEL"}

\* The state of the integration driver is well formed.
DriverTypeOK ==
  /\ {scanMode, autoSpectrum, cancel} \subseteq BOOLEAN
  /\ sense \in {"NORMAL", "INV"}
  /\ \A t \in Threads :
       /\ call[t].polls \in 0..MaxPolls /\ call[t].trial \in 0..1
       /\ call[t].left \in 0..Frequencies /\ Len(call[t].systems) <= 2
       /\ returned[t] \in Errors \cup Systems \cup {Nothing}

\* An acquisition that was reported as successful left the front end with the
\* system that was asked for: until the next call, a success can be relied on.
AcquiredRuns ==
  \A t \in Threads :
    returned[t] \in Systems =>
      /\ demod.state = "ACTIVE" /\ demod.system = returned[t]
      /\ Runs(chip, returned[t])

\* Of the scan's callback the header promises: "During the context of the
\* call-back, the device is in the same mode as indicated here."
CallbackInMode ==
  \A t \in Threads :
    At(t, "callback") =>
      /\ demod.state = "ACTIVE" /\ demod.system = call[t].system
      /\ Runs(chip, call[t].system)

\* A wait for DVB-T2 that found no P1 in either spectrum sense leaves the sense as
\* it found it: the senses tried are undone, not accumulated.
SenseRestored ==
  [][\A t \in Threads :
       At(t, "t2_poll") /\ call[t].trial = 1 /\ call[t].polls + 1 = P1Poll
         /\ call'[t].pc # "t2_poll" /\ returned'[t] = "UNLOCK" =>
       sense' = call[t].senseFound]_allVars

\* Every operation ends, whatever locks, fails or is cancelled.
OperationsEnd == \A t \in Threads : ~At(t, "idle") ~> At(t, "idle")

\* The end of dvb_cxd2820_Scan says "Configure driver device for normal
\* operation.": no scan leaves a working driver in scan mode.
ScanModeEnds ==
  [][\A t \in Threads :
       call[t].op = "Scan" /\ call'[t].op = "none" /\ Ready => ~scanMode']_allVars

\* The header says of dvb_cxd2820_Cancel: "Cancel any pending operations on the
\* demod."  An operation that starts later is not one of those.
StartsUncancelled ==
  [][\A t \in Threads : At(t, "idle") /\ call'[t].op # "none" => ~cancel]_allVars
=============================================================================
