------------------------------ MODULE Monitor ------------------------------
(***************************************************************************)
(* The monitor functions of the Sony CXD2820                               *)
(* (src/tdp_api/Sony_Demod/SRC/sony_dvb_demod_monitor.c, ...monitorT.c,    *)
(* ...monitorT2.c, ...monitorC.c) and the lock checks, the TS output       *)
(* optimisation, the GPIO and the AGC functions of sony_dvb_demod.c, as    *)
(* what they do on the bus: a call is a script of register accesses.  The  *)
(* chip answers as three slaves, each with a bank register that says what  *)
(* the other addresses mean and a freeze register that latches what they   *)
(* show.  What a register holds is kept only where a later access depends  *)
(* on it; the conversions to dB, Hz and error rates are left out.          *)
(***************************************************************************)
EXTENDS Naturals, Sequences

CONSTANTS
  Threads,
  Beside,      \* [Threads -> the calls it makes while another thread makes one]
  MerCount,    \* SONY_DVB_MONITORT2_MER_COUNT: 10
  PollMax,     \* MONITORT_PRERSBER_TIMEOUT / ..._CHECK_PERIOD: 100
  BusFails,    \* an access whose result is looked at may fail
  VoidFails,   \* an access whose result is thrown away may fail
  ScanMode     \* dvbt_scannmode

Systems == {"T", "T2", "C"}

ASSUME MonitorAssumption ==
  /\ DOMAIN Beside = Threads
  /\ MerCount \in Nat \ {0} /\ PollMax \in Nat \ {0}
  /\ {BusFails, VoidFails, ScanMode} \subseteq BOOLEAN

VARIABLES
  system,   \* the running system; the slave of the same name demodulates
  bank,     \* slave -> its bank; "any" before the first call
  frozen,   \* slave -> the registers are frozen
  locked,   \* the demodulator is locked
  changed,  \* L1_CHANGE_FLAG
  latch,    \* what the frozen registers show of these two
  oneMer,   \* MER_CTL2 asks for one value per symbol, not for the default
  call      \* thread -> the call it is in

monitorVars == <<system, bank, frozen, locked, changed, latch, oneMer, call>>
slaveVars == <<bank, frozen, locked, changed, latch, oneMer>>

-----------------------------------------------------------------------------
(* Accesses.  undo is what is left to do when one fails; a quiet one is    *)
(* tried and its failure is not the call's.                                *)

Access(do, s, b) ==
  [do |-> do, slave |-> s, bank |-> b, undo |-> <<>>, void |-> FALSE, quiet |-> FALSE]
Void(i) == [i EXCEPT !.void = TRUE]

SetBank(s, b) == Access("bank", s, b)
Freeze(s) == Access("freeze", s, "any")
Unfreeze(s) == Access("unfreeze", s, "any")
Read(s, b) == Access("read", s, b)
Value(s, b) == Access("value", s, b)     \* means something only with a lock
Lock(s, b) == Access("lock", s, b)       \* read the state of the lock
Write(s, b) == Access("write", s, b)
Poll(s, b) == Access("poll", s, b)
SetMer(short) == Access(IF short THEN "one mer" ELSE "default mer", "T2", "20")

\* Steps that touch no register.
Test == Access("test", "T", "any")       \* the lock that was read
Check == Access("check", "T", "any")     \* some other value that was read
SkipTo(rest) == [Access("skip", "T", "any") EXCEPT !.undo = rest]

\* Whatever step of s fails, undo is done before the call returns.
Guarded(s, undo) == [i \in DOMAIN s |-> [s[i] EXCEPT !.undo = @ \o undo]]

\* A failure of s is ignored and the call goes on with rest.
Ignored(s, rest) ==
  [i \in DOMAIN s |-> [s[i] EXCEPT !.undo = @ \o rest, !.quiet = TRUE]]

\* Mutant of Frozen: the values are read before the registers are frozen.
UnfrozenBody(s, body) ==
  LET done == <<Void(Unfreeze(s))>> IN Guarded(body, done) \o <<Freeze(s)>> \o done

\* Mutant of Frozen: a failure leaves the registers frozen.
FrozenUnguarded(s, body) == <<Freeze(s)>> \o body \o <<Void(Unfreeze(s))>>

Frozen(s, body) ==
  LET done == <<Void(Unfreeze(s))>> IN <<Freeze(s)>> \o Guarded(body, done) \o done

\* The rounds of a loop, one after the other.
Repeated(s, n) == [i \in 1..(n * Len(s)) |-> s[((i - 1) % Len(s)) + 1]]

SetRegisterBits(s, b) == <<Read(s, b), Write(s, b)>>
Plain(s, b) == <<SetBank(s, b), Read(s, b)>>

-----------------------------------------------------------------------------
(* DVB-T.                                                                  *)

T_SyncStat == <<SetBank("T", "0"), Lock("T", "0"), Read("T", "0")>>
IsTPSLocked == T_SyncStat \o <<Test>>
T_Locked(body) == Frozen("T", IsTPSLocked \o body)
T_Bank0 == T_Locked(<<SetBank("T", "0"), Value("T", "0")>>)

T_IPID == Plain("T", "0")
T_IFAGCOut == Plain("T", "0")
T_RFAGCOut == Plain("T", "0")
T_ModeGuard == T_Bank0
T_SpectrumSense == Plain("T", "7")
T_CarrierOffset == T_Bank0 \o T_SpectrumSense
T_MERDT == T_Bank0
T_CNValue == T_MERDT \o <<Check>>
T_MER == T_MERDT \o <<Check>> \o T_ModeGuard \o <<Check>>
T_SNRReg == T_Bank0
T_SNR == T_SNRReg \o <<Check>>
T_PreViterbiBitError ==
  T_Locked(<<SetBank("T", "0"), Value("T", "0"), Value("T", "0")>>)
T_PreViterbiBER == T_PreViterbiBitError \o <<Check>>
T_RSError == T_Bank0
T_TPSInfo == T_Bank0
T_SamplingOffset == T_Bank0 \o <<Check>>

\* The errors are counted on request; the count is polled for.
CountErrors(s) == <<SetBank(s, "0"), Write(s, "0"), Poll(s, "0"), Read(s, "0")>>

T_PreRSBitError == IsTPSLocked \o CountErrors("T")
T_PreRSBER == T_PreRSBitError \o <<Check>>
T_Quality == T_TPSInfo \o T_PreRSBER \o T_CNValue \o <<Check>>

-----------------------------------------------------------------------------
(* DVB-C.                                                                  *)

C_SyncStat == <<SetBank("C", "0"), Lock("C", "0"), Read("C", "0")>>
IsARLocked == C_SyncStat \o <<Test>>
C_Locked(body) == Frozen("C", IsARLocked \o body)
C_Bank0 == C_Locked(<<SetBank("C", "0"), Value("C", "0")>>)

C_IFAGCOut == Plain("C", "0")
C_RFAGCOut == T_RFAGCOut
C_QAM == C_Bank0
C_SymbolRate == C_Bank0
C_CarrierOffset == C_Bank0
C_SpectrumSense == C_Bank0
C_SNRReg == C_Bank0
C_SNR == C_QAM \o C_SNRReg \o <<Check>>
C_PreRSBitError == IsARLocked \o CountErrors("C")
C_PreRSBER == C_PreRSBitError \o <<Check>>
C_RSError == C_Bank0

-----------------------------------------------------------------------------
(* DVB-T2.                                                                 *)

T2_SyncStat == <<SetBank("T2", "20"), Lock("T2", "20")>>
T2_Locked(body) == Frozen("T2", T2_SyncStat \o <<Test>> \o body)
T2_Value(b) == T2_Locked(<<SetBank("T2", b), Value("T2", b)>>)

T2_IFAGCOut == Plain("T2", "20")
T2_RFAGCOut == T_RFAGCOut
T2_SpectrumSense == Plain("T2", "20")
T2_CarrierOffset == T2_Value("20") \o T2_SpectrumSense
T2_SNR == T2_Value("20") \o <<Check>>
T2_MER == T2_Value("20") \o <<Check>>

\* Mutant of T2_PreLDPCBERParam: the second bank is not selected.
PreLDPCBERParamOneBank ==
  <<SetBank("T2", "20"), Read("T2", "20"), Check, Read("T2", "20"), Read("T2", "22")>>

T2_PreLDPCBERParam ==
  <<SetBank("T2", "20"), Read("T2", "20"), Check, Read("T2", "20")>> \o Plain("T2", "22")
T2_PreLDPCBER == T2_PreLDPCBERParam \o <<Check>>
T2_PostBCHFERParam == Plain("T2", "20") \o <<Check, Read("T2", "20")>>
T2_PostBCHFER == T2_PostBCHFERParam \o <<Check>>
T2_L1Pre == T2_Value("22")
T2_Preset == T2_Value("20")
T2_ActivePLP == T2_Value("22") \o <<Check>>
T2_DataPLPError == T2_Value("22")
T2_SamplingOffset == T2_Value("20") \o <<Check>>
T2_TsRate == T2_Value("20")

\* L1POST_OK is their lock.
L1PostOK == <<Lock("T2", "22"), Test>>
T2_L1Post == Frozen("T2", <<SetBank("T2", "22")>> \o L1PostOK \o <<Value("T2", "22")>>)
T2_DataPLPs ==
  LET rest == <<SetBank("T2", "23"), Value("T2", "23")>>
  IN <<SetBank("T2", "22")>> \o
       Frozen("T2", L1PostOK \o <<Value("T2", "22"), Check, SetBank("T2", "22"),
                                  Value("T2", "22"), SkipTo(<<>>)>> \o rest)

T2_PreBCHBERParam ==
  Frozen("T2", Plain("T2", "20") \o <<Check, Read("T2", "20")>> \o Plain("T2", "24") \o
                 Plain("T2", "22") \o <<Read("T2", "22")>>) \o <<Check>>
T2_PreBCHBER == T2_PreBCHBERParam \o <<Check>>

\* Only clear the flag if it is set.
T2_L1Change ==
  T2_Locked(<<SetBank("T2", "22"), Access("flag", "T2", "22"), Access("clear", "T2", "22")>>)

\* One value per symbol, MerCount times; the default again, whatever happens.
T2_FilteredMER ==
  LET setMer(short) == <<SetBank("T2", "20"), SetMer(short)>>
      undo == [i \in 1..2 |-> Void(setMer(FALSE)[i])]
  IN setMer(TRUE) \o Guarded(Repeated(T2_MER, MerCount), undo) \o
       setMer(FALSE)

\* A frame error means quality 0; that there is no frame error rate does not matter.
T2_Quality(mer) ==
  LET rest == T2_ActivePLP \o <<Check>> \o mer \o T2_SNR
  IN Ignored(T2_PostBCHFER, rest) \o <<SkipTo(<<>>)>> \o rest

-----------------------------------------------------------------------------
(* The rest of sony_dvb_demod.c that reads or writes a few registers.      *)

ScanRead ==
  <<Freeze("T"), Lock("T", "0"), Read("T", "0")>> \o Plain("T", "A") \o
  <<SetBank("T", "0"), Unfreeze("T")>>

CheckTPSLock ==
  <<SetBank("T", "0")>> \o (IF ScanMode THEN ScanRead ELSE <<Lock("T", "0")>>)

\* dvb_demod_CheckTSLock, dvb_demod_CheckDemodLock.
T_CheckTSLock == CheckTPSLock \o <<SkipTo(<<>>)>> \o Plain("T", "0")
C_CheckTSLock == <<SetBank("C", "0"), Lock("C", "0"), SkipTo(<<>>), Read("C", "0")>>
T2_CheckTSLock == T2_SyncStat
T2_CheckDemodLock == <<SetBank("T2", "20"), Lock("T2", "20")>>
T2_CheckP1Lock == Plain("T2", "20") \o <<Read("T2", "20")>>
T2_CheckT2P1Lock == Plain("T2", "20")

monitorT2_TSRate == Plain("T2", "25") \o <<Check>>

\* A frame without FEF needs none of the reads after the first.
t2_es1_0_OptimiseTSOutput ==
  LET adjust == <<SetBank("T2", "25"), Write("T2", "25")>> \o SetRegisterBits("T2", "25") \o
                  <<Write("T2", "25")>>
  IN T2_Preset \o <<Check, SkipTo(adjust)>> \o T2_ActivePLP \o monitorT2_TSRate \o
       Plain("T2", "28") \o adjust
t2_es1_1_OptimiseTSOutput ==
  T2_Value("3F") \o <<SetBank("T2", "20"), Write("T2", "20")>>

SetPLPConfig == <<SetBank("T2", "23"), Write("T2", "23"), Write("T2", "23")>>
SetSpectrumSense == <<SetBank("T2", "20")>> \o SetRegisterBits("T2", "20")
RFAGCWrite(s, b) == <<SetBank(s, b), Write(s, b)>>
GPIOSetting ==
  <<SetBank("T", "0")>> \o SetRegisterBits("T", "0") \o <<SkipTo(<<>>)>> \o
  SetRegisterBits("T", "0")
GPIORead == Plain("T", "0")
GPIOWrite == <<SetBank("T", "0")>> \o SetRegisterBits("T", "0")

ChipID == Plain("T", "0")

\* The call of tdp_api.c; on a lock only.
Tuner_Get_Signal_Quality == T_SyncStat \o <<SkipTo(<<>>)>> \o T_Quality

-----------------------------------------------------------------------------
AnySystem ==
  [IPID |-> T_IPID, ChipID |-> ChipID, GPIOSetting |-> GPIOSetting,
   GPIORead |-> GPIORead, GPIOWrite |-> GPIOWrite]
\* What a system answers: what all do, and its own calls.
Answering(own) ==
  [n \in DOMAIN AnySystem \cup DOMAIN own |->
     IF n \in DOMAIN own THEN own[n] ELSE AnySystem[n]]

\* System -> the calls it answers -> their scripts.
Scripts ==
  [T |-> Answering(
     [SyncStat |-> T_SyncStat, IFAGCOut |-> T_IFAGCOut, RFAGCOut |-> T_RFAGCOut,
      ModeGuard |-> T_ModeGuard, CarrierOffset |-> T_CarrierOffset, MER |-> T_MER,
      SNR |-> T_SNR, PreViterbiBER |-> T_PreViterbiBER, PreRSBER |-> T_PreRSBER,
      RSError |-> T_RSError, TPSInfo |-> T_TPSInfo, SamplingOffset |-> T_SamplingOffset,
      CNValue |-> T_CNValue, Quality |-> T_Quality, RFAGCWrite |-> RFAGCWrite("T", "1"),
      CheckDemodLock |-> CheckTPSLock, CheckTSLock |-> T_CheckTSLock,
      Tuner_Get_Signal_Quality |-> Tuner_Get_Signal_Quality]),
   C |-> Answering(
     [SyncStat |-> C_SyncStat, IFAGCOut |-> C_IFAGCOut, RFAGCOut |-> C_RFAGCOut,
      QAM |-> C_QAM, SymbolRate |-> C_SymbolRate, CarrierOffset |-> C_CarrierOffset,
      SpectrumSense |-> C_SpectrumSense, SNR |-> C_SNR, PreRSBER |-> C_PreRSBER,
      RSError |-> C_RSError, RFAGCWrite |-> RFAGCWrite("C", "0"),
      CheckTSLock |-> C_CheckTSLock]),
   T2 |-> Answering(
     [SyncStat |-> T2_SyncStat, IFAGCOut |-> T2_IFAGCOut, RFAGCOut |-> T2_RFAGCOut,
      CarrierOffset |-> T2_CarrierOffset, SNR |-> T2_SNR, MER |-> T2_MER,
      PreLDPCBER |-> T2_PreLDPCBER, PostBCHFER |-> T2_PostBCHFER, L1Pre |-> T2_L1Pre,
      Preset |-> T2_Preset, DataPLPs |-> T2_DataPLPs, ActivePLP |-> T2_ActivePLP,
      DataPLPError |-> T2_DataPLPError, L1Change |-> T2_L1Change, L1Post |-> T2_L1Post,
      SpectrumSense |-> T2_SpectrumSense, PreBCHBER |-> T2_PreBCHBER,
      SamplingOffset |-> T2_SamplingOffset, TsRate |-> T2_TsRate,
      FilteredMER |-> T2_FilteredMER, Quality |-> T2_Quality(T2_MER),
      QualityV2 |-> T2_Quality(T2_FilteredMER), SetPLPConfig |-> SetPLPConfig,
      SetSpectrumSense |-> SetSpectrumSense, RFAGCWrite |-> RFAGCWrite("T2", "21"),
      CheckDemodLock |-> T2_CheckDemodLock, CheckTSLock |-> T2_CheckTSLock,
      CheckP1Lock |-> T2_CheckP1Lock, CheckT2P1Lock |-> T2_CheckT2P1Lock,
      OptimiseTSOutput_ES1_0 |-> t2_es1_0_OptimiseTSOutput,
      OptimiseTSOutput_ES1_1 |-> t2_es1_1_OptimiseTSOutput])]

-----------------------------------------------------------------------------
NoCall == [name |-> "none", todo |-> <<>>, lock |-> FALSE, flag |-> FALSE, polls |-> 0,
           result |-> "OK"]
NoLatch == [locked |-> FALSE, changed |-> FALSE]

MonitorInit ==
  /\ system \in Systems
  /\ bank = [s \in Systems |-> "any"] /\ frozen = [s \in Systems |-> FALSE]
  /\ locked = FALSE /\ changed = FALSE /\ latch = NoLatch /\ oneMer = FALSE
  /\ call = [t \in Threads |-> NoCall]

Busy(t) == call[t].name # "none"
Shown == IF frozen[system] THEN latch ELSE [locked |-> locked, changed |-> changed]

\* Two threads are inside these files at once only in the calls named by Beside.
Enter(t) ==
  /\ ~Busy(t)
  /\ \E n \in DOMAIN Scripts[system] :
       /\ \A u \in Threads \ {t} :
            Busy(u) => n \in Beside[t] /\ call[u].name \in Beside[u]
       /\ call' = [call EXCEPT ![t] = [NoCall EXCEPT !.name = n, !.todo = Scripts[system][n]]]
  /\ UNCHANGED <<system, slaveVars>>

Return(t) ==
  /\ Busy(t) /\ call[t].todo = <<>>
  /\ call' = [call EXCEPT ![t] = NoCall]
  /\ UNCHANGED <<system, slaveVars>>

Step(t) == Head(call[t].todo)
AtStep(t, do) == Busy(t) /\ call[t].todo # <<>> /\ Step(t).do = do
Advance(t, c) == call' = [call EXCEPT ![t] = [c EXCEPT !.todo = Tail(@)]]
Proceed(t) == Advance(t, call[t])
Abandon(t, r) ==
  call' = [call EXCEPT ![t].todo = Step(t).undo,
                       ![t].result = IF Step(t).quiet THEN @ ELSE r]

SetsBank(t) ==
  /\ AtStep(t, "bank") /\ Proceed(t)
  /\ bank' = [bank EXCEPT ![Step(t).slave] = Step(t).bank]
  /\ UNCHANGED <<system, frozen, locked, changed, latch, oneMer>>

\* What is frozen already stays as it is.
Freezes(t) ==
  /\ AtStep(t, "freeze") /\ Proceed(t)
  /\ frozen' = [frozen EXCEPT ![Step(t).slave] = TRUE]
  /\ latch' = IF Step(t).slave = system THEN Shown ELSE latch
  /\ UNCHANGED <<system, bank, locked, changed, oneMer>>

Unfreezes(t) ==
  /\ AtStep(t, "unfreeze") /\ Proceed(t)
  /\ frozen' = [frozen EXCEPT ![Step(t).slave] = FALSE]
  /\ latch' = IF Step(t).slave = system THEN NoLatch ELSE latch
  /\ UNCHANGED <<system, bank, locked, changed, oneMer>>

ReadsLock(t) ==
  /\ AtStep(t, "lock") /\ Advance(t, [call[t] EXCEPT !.lock = Shown.locked])
  /\ UNCHANGED <<system, slaveVars>>

Tests(t) ==
  /\ AtStep(t, "test") /\ UNCHANGED <<system, slaveVars>>
  /\ IF call[t].lock THEN Proceed(t) ELSE Abandon(t, "HW_STATE")

Checks(t) ==
  /\ AtStep(t, "check") /\ UNCHANGED <<system, slaveVars>>
  /\ Proceed(t) \/ Abandon(t, "HW_STATE")

Skips(t) ==
  /\ AtStep(t, "skip") /\ UNCHANGED <<system, slaveVars>>
  /\ Proceed(t) \/ call' = [call EXCEPT ![t].todo = Step(t).undo]

ReadsOrWrites(t) ==
  /\ \E do \in {"read", "value", "write"} : AtStep(t, do)
  /\ Proceed(t) /\ UNCHANGED <<system, slaveVars>>

\* A turn of the loop that did not find the count ready.
PollAgain(t) == call' = [call EXCEPT ![t].polls = (@ + 1) % PollMax]

PollLater(t) ==
  LET n == call[t].polls + 1 IN
  IF n < PollMax THEN call' = [call EXCEPT ![t].polls = n] ELSE Abandon(t, "HW_STATE")

Polls(t) ==
  /\ AtStep(t, "poll") /\ UNCHANGED <<system, slaveVars>>
  /\ Advance(t, [call[t] EXCEPT !.polls = 0]) \/ PollLater(t)

ReadsFlag(t) ==
  /\ AtStep(t, "flag") /\ Advance(t, [call[t] EXCEPT !.flag = Shown.changed])
  /\ UNCHANGED <<system, slaveVars>>

\* Only clear if set.
ClearsFlag(t) ==
  /\ AtStep(t, "clear") /\ Proceed(t)
  /\ changed' = IF call[t].flag THEN FALSE ELSE changed
  /\ UNCHANGED <<system, bank, frozen, locked, latch, oneMer>>

SetsMer(t) ==
  /\ \E do \in {"one mer", "default mer"} : AtStep(t, do) /\ oneMer' = (do = "one mer")
  /\ Proceed(t)
  /\ UNCHANGED <<system, bank, frozen, locked, changed, latch>>

\* An access that fails changes nothing in the chip.
Fails(t) ==
  /\ Busy(t) /\ call[t].todo # <<>> /\ Step(t).do \notin {"test", "check", "skip"}
  /\ Step(t).do = "clear" => call[t].flag
  /\ \/ BusFails /\ ~Step(t).void /\ Abandon(t, "I2C")
     \/ VoidFails /\ Step(t).void /\ Proceed(t)
  /\ UNCHANGED <<system, slaveVars>>

Works(t) ==
  \/ Return(t) \/ SetsBank(t) \/ Freezes(t) \/ Unfreezes(t) \/ ReadsLock(t) \/ Tests(t)
  \/ Checks(t) \/ Skips(t) \/ ReadsOrWrites(t) \/ Polls(t) \/ ReadsFlag(t) \/ ClearsFlag(t)
  \/ SetsMer(t) \/ Fails(t)

\* What the chip does by itself.
Relocks ==
  /\ locked' = ~locked
  /\ UNCHANGED <<system, bank, frozen, changed, latch, oneMer, call>>
L1Changes ==
  /\ system = "T2" /\ ~changed /\ changed' = TRUE
  /\ UNCHANGED <<system, bank, frozen, locked, latch, oneMer, call>>

MonitorNext == (\E t \in Threads : Enter(t) \/ Works(t)) \/ Relocks \/ L1Changes

MonitorSpec == MonitorInit /\ [][MonitorNext]_monitorVars

\* A thread inside a call is scheduled.
FairMonitorSpec == MonitorSpec /\ \A t \in Threads : WF_monitorVars(Works(t))

-----------------------------------------------------------------------------
CallResults == {"OK", "I2C", "HW_STATE"}
Banks == {"any", "0", "1", "7", "A", "20", "21", "22", "23", "24", "25", "28", "3F"}
Steps ==
  {"bank", "freeze", "unfreeze", "lock", "test", "check", "skip", "read", "value", "write",
   "poll", "flag", "clear", "one mer", "default mer"}

\* The chip's state and the calls are well formed.
MonitorTypeOK ==
  /\ system \in Systems
  /\ bank \in [Systems -> Banks] /\ frozen \in [Systems -> BOOLEAN]
  /\ {locked, changed, oneMer} \subseteq BOOLEAN
  /\ latch \in [locked : BOOLEAN, changed : BOOLEAN]
  /\ DOMAIN call = Threads
  /\ \A t \in Threads :
       /\ call[t].name \in {"none"} \cup DOMAIN Scripts[system]
       /\ {call[t].lock, call[t].flag} \subseteq BOOLEAN
       /\ call[t].polls \in 0..(PollMax - 1) /\ call[t].result \in CallResults
       /\ \A i \in DOMAIN call[t].todo :
            LET step == call[t].todo[i] IN
            step.do \in Steps /\ step.slave \in Systems /\ step.bank \in Banks

\* Every register is read and written in the bank it is in, although the bank is set
\* by hand, functions call functions that leave another one, and the lock checks of
\* the status thread run beside the application's quality call.
RightBank ==
  \A t \in Threads :
    Busy(t) /\ call[t].todo # <<>> /\ Step(t).do # "bank" /\ Step(t).bank # "any" =>
      bank[Step(t).slave] = Step(t).bank

\* No way out of a call leaves the registers frozen: what every later call reads
\* would be the past.
NothingStaysFrozen == (\A t \in Threads : ~Busy(t)) => \A s \in Systems : ~frozen[s]

\* A value that means something only with a lock was latched together with the lock
\* that the call tested.
ValuesOfTheLock ==
  \A t \in Threads : AtStep(t, "value") => call[t].lock /\ frozen[system] /\ latch.locked

\* A filtered MER that reports no bus error leaves the averaging at its default.
MerAveragingRestored ==
  \A t \in Threads :
    Busy(t) /\ call[t].todo = <<>> /\ call[t].name = "FilteredMER" /\ call[t].result # "I2C" =>
      ~oneMer

\* "Only clear if set, otherwise may miss indicator" (sony_dvb_demod_monitorT2.c:1054):
\* a change of the L1 signalling that came while the registers were frozen is still
\* there for the next call.
L1ChangesReported ==
  [][changed /\ ~changed' => \E t \in Threads : call[t].flag /\ call'[t].result = "OK"]_monitorVars

\* Every call returns.
CallsReturn == \A t \in Threads : Busy(t) ~> ~Busy(t)
=============================================================================
