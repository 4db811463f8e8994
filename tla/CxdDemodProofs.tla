--------------------------- MODULE CxdDemodProofs ---------------------------
(***************************************************************************)
(* Proofs about CxdDemod, for every kind of chip and every bandwidth:      *)
(* whatever bus writes fail, whenever, an ACTIVE driver and a sleeping one *)
(* are right about their chip.  Then about what is built on it: Cxd2820,   *)
(* the integration driver, with one thread that calls it (an acquisition   *)
(* reported as successful has set up the system asked for, a failed search *)
(* restores the spectrum sense), and Tuner, with any number of threads     *)
(* that check a lock (a lock that is reported is one).                     *)
(***************************************************************************)
EXTENDS Tuner, Integers, TLAPS

Bws == {"none", "5", "6", "7", "8"}
DemodRecords ==
  [state : States, system : Systems \cup {"UNKNOWN"}, bandWidth : Bws, longEcho : BOOLEAN]

-----------------------------------------------------------------------------
(* What the scripts write.                                                 *)

\* The registers a script of n writes has written when it is through.
LEMMA AllBand ==
  /\ BandOf("DVBT") = {"rateT", "delayT"}
  /\ BandOf("DVBC") = {}
  /\ BandOf("DVBT2") = {"rateT2", "tsifT2"}
  BY DEF BandOf, BandOrder, All, Systems

LEMMA AllEnter ==
  /\ All(EnterOrder["DVBT"]) = {"mode", "clocks", "adc", "rateT", "delayT", "hiz"}
  /\ All(EnterOrder["DVBC"]) = {"mode", "clocks", "adc", "hiz"}
  /\ All(EnterOrder["DVBT2"]) = {"mode", "clocks", "adc", "dram", "rateT2", "tsifT2", "hiz"}
  BY DEF EnterOrder, All, Systems

LEMMA AllLeave ==
  /\ All(LeaveOrder["DVBT"]) = {"hiz", "adc", "clocks", "mode"}
  /\ All(LeaveOrder["DVBC"]) = {"hiz", "adc", "clocks", "mode"}
  /\ All(LeaveOrder["DVBT2"]) = {"hiz", "adc", "dram", "clocks", "mode"}
  BY DEF LeaveOrder, All, Systems

\* Writing keeps a chip a chip.
LEMMA WrittenType ==
  ASSUME NEW c \in [Registers -> Values], NEW v \in [Registers -> Values], NEW W
  PROVE  Written(c, v, W) \in [Registers -> Values]
  BY DEF Written

LEMMA LeftType ==
  ASSUME NEW c \in [Registers -> Values] PROVE Left(c) \in [Registers -> Values]
  BY DEF Left, Values, Systems

LEMMA EnteredType ==
  ASSUME NEW c \in [Registers -> Values], NEW s \in Systems, NEW bw \in Bws
  PROVE  Entered(c, s, bw) \in [Registers -> Values]
  BY DEF Entered, Values, Bws

\* A chip that has been taken all the way into a system runs it.
LEMMA EnteredRuns ==
  ASSUME NEW c, NEW s \in Systems, NEW bw
  PROVE  LET c2 == Written(c, Entered(c, s, bw), All(EnterOrder[s]))
         IN  Runs(c2, s) /\ RunsBand(c2, s, bw)
<1>1. CASE s = "DVBT"
  BY <1>1, AllEnter, AllBand DEF Written, Entered, Runs, RunsBand, Registers
<1>2. CASE s = "DVBC"
  BY <1>2, AllEnter, AllBand DEF Written, Entered, Runs, RunsBand, Registers
<1>3. CASE s = "DVBT2"
  BY <1>3, AllEnter, AllBand DEF Written, Entered, Runs, RunsBand, Registers
<1> QED BY <1>1, <1>2, <1>3 DEF Systems

\* Setting the band of a running chip keeps it running, at the new band when
\* all of the setting was written.
LEMMA BandKeepsRunning ==
  ASSUME NEW c, NEW s \in Systems, NEW bw, NEW W \in SUBSET BandOf(s), Runs(c, s)
  PROVE  LET c2 == Written(c, Entered(c, s, bw), W)
         IN  Runs(c2, s) /\ (W = BandOf(s) => RunsBand(c2, s, bw))
<1>1. CASE s = "DVBT"
  BY <1>1, AllBand DEF Written, Entered, Runs, RunsBand, Registers
<1>2. CASE s = "DVBC"
  BY <1>2, AllBand DEF Written, Entered, Runs, RunsBand, Registers
<1>3. CASE s = "DVBT2"
  BY <1>3, AllBand DEF Written, Entered, Runs, RunsBand, Registers
<1> QED BY <1>1, <1>2, <1>3 DEF Systems

\* Leaving a system puts the chip to sleep; only DVB-T2 stops the memory.
LEMMA LeftSleeps ==
  ASSUME NEW c, NEW s \in Systems, s = "DVBT2" \/ c["dram"] = "off"
  PROVE  Asleep(Written(c, Left(c), All(LeaveOrder[s])))
<1>1. CASE s = "DVBT"
  BY <1>1, AllLeave DEF Written, Left, Asleep, Registers
<1>2. CASE s = "DVBC"
  BY <1>2, AllLeave DEF Written, Left, Asleep, Registers
<1>3. CASE s = "DVBT2"
  BY <1>3, AllLeave DEF Written, Left, Asleep, Registers
<1> QED BY <1>1, <1>2, <1>3 DEF Systems

-----------------------------------------------------------------------------
(* Type correctness.                                                       *)

LEMMA PowerOnType == PowerOn \in [Registers -> Values]
  BY DEF PowerOn, Values, Systems

LEMMA ForgottenType ==
  ASSUME TypeOK, NEW x \in States PROVE Forgotten(x) \in DemodRecords /\ Forgotten(x).state = x
         /\ Forgotten(x).system = "UNKNOWN" /\ Forgotten(x).longEcho = demod.longEcho
  BY DEF TypeOK, Forgotten, DemodRecords, Bws

LEMMA LeftChipType == ASSUME TypeOK PROVE LeftChip \in [Registers -> Values]
  BY LeftType, WrittenType DEF TypeOK, LeftChip

LEMMA LeaveFailsType ==
  ASSUME TypeOK, LeaveFails
  PROVE  demod' \in DemodRecords /\ chip' \in [Registers -> Values] /\ result' = "I2C"
  BY LeftType, WrittenType, ForgottenType DEF TypeOK, LeaveFails, States

LEMMA ClearedType ==
  \A x \in States : Cleared(x) \in DemodRecords
  BY DEF Cleared, DemodRecords, States, Bws

LEMMA InitType == Init => TypeOK
<1> SUFFICES ASSUME Init PROVE TypeOK
  OBVIOUS
<1>1. chipId \in Chips /\ result = "OK" /\ adopted = FALSE /\ stale = FALSE
  BY DEF Init
<1>2. demod \in DemodRecords
  BY DEF Init, Cleared, DemodRecords, States, Bws
<1>3. chip \in [Registers -> Values]
  BY PowerOnType DEF Init
<1> QED BY <1>1, <1>2, <1>3 DEF TypeOK, DemodRecords, Bws

LEMMA TypeStep == TypeOK /\ [Next]_vars => TypeOK'
<1> SUFFICES ASSUME TypeOK, [Next]_vars PROVE TypeOK'
  OBVIOUS
<1>r. TypeOK <=> /\ chipId \in Chips /\ demod \in DemodRecords /\ chip \in [Registers -> Values]
                 /\ result \in {"OK", "ARG", "SW_STATE", "NOSUPPORT", "I2C"}
                 /\ adopted \in BOOLEAN /\ stale \in BOOLEAN
  BY DEF TypeOK, DemodRecords, Bws
<1>n. TypeOK' <=> /\ chipId' \in Chips /\ demod' \in DemodRecords /\ chip' \in [Registers -> Values]
                  /\ result' \in {"OK", "ARG", "SW_STATE", "NOSUPPORT", "I2C"}
                  /\ adopted' \in BOOLEAN /\ stale' \in BOOLEAN
  BY DEF TypeOK, DemodRecords, Bws
<1>f. ASSUME NEW r \in {"OK", "ARG", "SW_STATE", "NOSUPPORT", "I2C"}, Refuse(r), UNCHANGED chipId
      PROVE  TypeOK'
  BY <1>f, <1>r, <1>n DEF Refuse
<1>1. CASE dvb_demod_Initialize
  <2>1. demod' \in DemodRecords /\ result' \in {"OK", "I2C"}
    BY <1>1, ClearedType DEF dvb_demod_Initialize, States
  <2>2. chip' \in [Registers -> Values]
    BY <1>1, <1>r DEF dvb_demod_Initialize, Values
  <2> QED BY <1>1, <2>1, <2>2, <1>r, <1>n DEF dvb_demod_Initialize, Asleep
<1>2. CASE dvb_demod_Finalize
  <2>1. CASE Awake /\ LeaveFails
    BY <1>2, <2>1, <1>r, <1>n, LeaveFailsType DEF dvb_demod_Finalize
  <2>2. CASE ~(Awake /\ LeaveFails)
    <3>1. PICK c \in {IF Awake THEN LeftChip ELSE chip}, failed \in BOOLEAN :
            LET d == IF Awake THEN Forgotten("SLEEP") ELSE demod IN
            /\ failed => chipId = "CXD2817"
            /\ chip' \in IF chipId # "CXD2817" THEN {c}
                         ELSE {[c EXCEPT !["pll"] = "off"]} \cup {c2 \in {c} : failed}
            /\ demod' = [d EXCEPT !.state = IF failed THEN "INVALID" ELSE "SHUTDOWN"]
            /\ result' = IF failed THEN "I2C" ELSE "OK"
      BY <1>2, <2>2 DEF dvb_demod_Finalize
    <3>2. c \in [Registers -> Values]
      BY <1>r, LeftChipType
    <3>3. chip' \in [Registers -> Values]
      BY <3>1, <3>2 DEF Values
    <3>4. demod' \in DemodRecords
      BY <3>1, <1>r, ForgottenType DEF DemodRecords, States
    <3> QED BY <3>1, <3>3, <3>4, <1>2, <1>r, <1>n DEF dvb_demod_Finalize
  <2> QED BY <2>1, <2>2
<1>3. CASE dvb_demod_Sleep
  BY <1>3, <1>r, <1>n, LeaveFailsType, LeftChipType, ForgottenType DEF dvb_demod_Sleep, States
<1>4. ASSUME NEW s \in Systems, NEW bw \in Bandwidths, dvb_demod_Tune(s, bw) PROVE TypeOK'
  <2>0. bw \in Bws
    BY BandwidthsAssumption DEF Bws
  <2>1. UNCHANGED chipId
    BY <1>4 DEF dvb_demod_Tune
  <2>2. CASE \E r \in {"ARG", "SW_STATE", "NOSUPPORT"} : Refuse(r)
    BY <2>1, <2>2, <1>f
  <2>3. CASE Enter(s, bw)
    <3>1. CASE Awake /\ LeaveFails /\ UNCHANGED <<stale, adopted>>
      BY <2>1, <3>1, <1>r, <1>n, LeaveFailsType
    <3>2. CASE ~(Awake /\ LeaveFails /\ UNCHANGED <<stale, adopted>>)
      <4>1. PICK c \in {IF Awake THEN LeftChip ELSE chip}, W \in Prefixes(EnterOrder[s]),
              failed \in BOOLEAN :
              LET d == [IF Awake THEN Forgotten("SLEEP") ELSE demod
                          EXCEPT !.system = s, !.bandWidth = bw] IN
              /\ chip' = Written(c, Entered(c, s, bw), W)
              /\ demod' = IF failed THEN [d EXCEPT !.state = "INVALID"]
                          ELSE IF SoftResetDone(s) THEN [d EXCEPT !.state = "ACTIVE"] ELSE d
              /\ result' = IF failed THEN "I2C" ELSE "OK"
              /\ stale' = FALSE
              /\ adopted' = (adopted \/ ~Asleep(c))
        BY <2>3, <3>2 DEF Enter
      <4>2. c \in [Registers -> Values]
        BY <1>r, LeftChipType
      <4>3. chip' \in [Registers -> Values]
        BY <4>1, <4>2, <2>0, EnteredType, WrittenType
      <4>4. (IF Awake THEN Forgotten("SLEEP") ELSE demod) \in DemodRecords
        BY <1>r, ForgottenType DEF States
      <4>5. demod' \in DemodRecords
        BY <4>1, <4>4, <2>0 DEF DemodRecords, States
      <4> QED BY <4>1, <4>3, <4>5, <2>1, <1>r, <1>n
    <3> QED BY <3>1, <3>2
  <2>4. CASE Reacquire(s, bw)
    <3>1. chip' \in [Registers -> Values]
      BY <2>4, <2>0, <1>r, EnteredType, WrittenType DEF Reacquire
    <3>2. demod' \in DemodRecords
      BY <2>4, <2>0, <1>r DEF Reacquire, DemodRecords, States
    <3> QED BY <2>4, <3>1, <3>2, <2>1, <1>r, <1>n DEF Reacquire
  <2> QED BY <1>4, <2>2, <2>3, <2>4 DEF dvb_demod_Tune
<1>5. CASE dvb_demod_SoftReset
  BY <1>5, <1>f, <1>r, <1>n DEF dvb_demod_SoftReset, DemodRecords, States
<1>6. ASSUME NEW id \in SleepOnly \cup Anytime, dvb_demod_SetConfig(id) PROVE TypeOK'
  BY <1>6, <1>f DEF dvb_demod_SetConfig, t2_SetConfig
<1>7. ASSUME NEW on \in BOOLEAN, SetLongEcho(on) PROVE TypeOK'
  BY <1>7, <1>f, <1>r, <1>n DEF SetLongEcho, DemodRecords
<1>8. CASE UNCHANGED vars
  BY <1>8, <1>r, <1>n DEF vars
<1> QED BY <1>1, <1>2, <1>3, <1>4, <1>5, <1>6, <1>7, <1>8 DEF Next

\* The types: TypeOK always holds.
THEOREM DemodTypeCorrect == Spec => []TypeOK
  BY InitType, TypeStep, PTL DEF Spec

-----------------------------------------------------------------------------
(* The inductive invariant.  A system that was not left in full stays with *)
(* a driver that is INVALID; the memory of DVB-T2 is what leaving another  *)
(* system does not stop.                                                   *)

BelievedSystemRuns ==
  Ready /\ demod.system # "UNKNOWN" =>
    Runs(chip, demod.system) /\ (stale \/ RunsBand(chip, demod.system, demod.bandWidth))
ActiveHasSystem == demod.state = "ACTIVE" => demod.system # "UNKNOWN"
OnlyT2Sleeps == demod.state = "SLEEP" => demod.system \in {"UNKNOWN", "DVBT2"}
MemoryOff ==
  demod.state = "ACTIVE" /\ demod.system # "DVBT2" => chip["dram"] = "off" \/ adopted

DemodInv ==
  TypeOK /\ BelievedSystemRuns /\ ActiveHasSystem /\ OnlyT2Sleeps /\ MemoryOff
    /\ SleepingChipSleeps

LEMMA InitInv == Init => DemodInv
  BY InitType DEF Init, DemodInv, BelievedSystemRuns, ActiveHasSystem, OnlyT2Sleeps, MemoryOff,
     SleepingChipSleeps, Cleared, Ready

\* A driver that trusts nothing makes every claim true.
LEMMA Distrust ==
  ASSUME ~(demod.state \in {"ACTIVE", "SLEEP"})'
  PROVE  BelievedSystemRuns' /\ ActiveHasSystem' /\ OnlyT2Sleeps' /\ MemoryOff' /\ SleepingChipSleeps'
  BY DEF BelievedSystemRuns, ActiveHasSystem, OnlyT2Sleeps, MemoryOff, SleepingChipSleeps, Ready

\* A step that leaves the state and the chip alone changes no claim.
LEMMA Unmoved ==
  ASSUME DemodInv, UNCHANGED <<chip, stale, adopted>>,
         demod'.state = demod.state, demod'.system = demod.system,
         demod'.bandWidth = demod.bandWidth
  PROVE  BelievedSystemRuns' /\ ActiveHasSystem' /\ OnlyT2Sleeps' /\ MemoryOff' /\ SleepingChipSleeps'
  BY DEF DemodInv, BelievedSystemRuns, ActiveHasSystem, OnlyT2Sleeps, MemoryOff, SleepingChipSleeps,
     Ready, Runs, RunsBand, Asleep

\* Leaving a system the driver is right about puts an owned chip to sleep.
LEMMA LeftChipSleeps ==
  ASSUME DemodInv, Awake, ~adopted PROVE Asleep(LeftChip)
<1>1. demod.system \in Systems
  BY DEF DemodInv, ActiveHasSystem, Awake, TypeOK
<1>2. demod.system = "DVBT2" \/ chip["dram"] = "off"
  BY DEF DemodInv, MemoryOff, Awake
<1> QED BY <1>1, <1>2, LeftSleeps DEF LeftChip

LEMMA LeaveFailsDistrusts == ASSUME TypeOK, LeaveFails PROVE demod'.state = "INVALID"
  BY ForgottenType DEF LeaveFails, States

LEMMA InvStep == DemodInv /\ [Next]_vars => DemodInv'
<1> SUFFICES ASSUME DemodInv, [Next]_vars PROVE DemodInv'
  OBVIOUS
<1> DEFINE Claims == BelievedSystemRuns /\ ActiveHasSystem /\ OnlyT2Sleeps /\ MemoryOff /\ SleepingChipSleeps
<1>t. TypeOK /\ TypeOK'
  BY TypeStep DEF DemodInv
<1> SUFFICES Claims'
  BY <1>t DEF DemodInv
<1>f. ASSUME NEW r, Refuse(r) PROVE Claims'
  BY <1>f, Unmoved DEF Refuse
<1>i. ASSUME demod'.state \notin {"ACTIVE", "SLEEP"} PROVE Claims'
  BY <1>i, Distrust
<1>1. CASE dvb_demod_Initialize
  <2>1. CASE demod'.state = "SLEEP"
    <3>1. demod'.system = "UNKNOWN" /\ adopted' = ~Asleep(chip)
      BY <1>1 DEF dvb_demod_Initialize, Cleared
    <3>2. Asleep(chip) => Asleep(chip')
      BY <1>1, <1>t DEF dvb_demod_Initialize, Asleep, TypeOK, Registers
    <3> QED BY <2>1, <3>1, <3>2 DEF BelievedSystemRuns, ActiveHasSystem, OnlyT2Sleeps, MemoryOff,
               SleepingChipSleeps
  <2> QED BY <1>1, <2>1, <1>i DEF dvb_demod_Initialize, Cleared
<1>2. CASE dvb_demod_Finalize
  <2>1. CASE Awake /\ LeaveFails
    BY <2>1, <1>t, <1>i, LeaveFailsDistrusts
  <2>2. CASE ~(Awake /\ LeaveFails)
    BY <1>2, <2>2, <1>t, <1>i, ForgottenType DEF dvb_demod_Finalize, TypeOK, DemodRecords, States
  <2> QED BY <2>1, <2>2
<1>3. CASE dvb_demod_Sleep
  <2>1. CASE Awake /\ LeaveFails
    BY <2>1, <1>t, <1>i, LeaveFailsDistrusts
  <2>2. CASE Awake /\ chip' = LeftChip /\ demod' = Forgotten("SLEEP") /\ UNCHANGED <<stale, adopted>>
    <3>1. demod'.state = "SLEEP" /\ demod'.system = "UNKNOWN"
      BY <2>2, <1>t, ForgottenType DEF States
    <3>2. Asleep(chip') \/ adopted'
      BY <2>2, LeftChipSleeps
    <3> QED BY <3>1, <3>2 DEF BelievedSystemRuns, ActiveHasSystem, OnlyT2Sleeps, MemoryOff,
               SleepingChipSleeps
  <2>3. CASE UNCHANGED <<demod, chip, stale, adopted>>
    BY <2>3, Unmoved
  <2> QED BY <1>3, <2>1, <2>2, <2>3 DEF dvb_demod_Sleep
<1>4. ASSUME NEW s \in Systems, NEW bw \in Bandwidths, dvb_demod_Tune(s, bw) PROVE Claims'
  <2>1. CASE \E r \in {"ARG", "SW_STATE", "NOSUPPORT"} : Refuse(r)
    BY <2>1, <1>f
  <2>2. CASE Ready /\ s # demod.system /\ Enter(s, bw)
    <3>1. CASE Awake /\ LeaveFails /\ UNCHANGED <<stale, adopted>>
      BY <3>1, <1>t, <1>i, LeaveFailsDistrusts
    <3>2. CASE ~(Awake /\ LeaveFails /\ UNCHANGED <<stale, adopted>>)
      <4>1. PICK c \in {IF Awake THEN LeftChip ELSE chip}, W \in Prefixes(EnterOrder[s]),
              failed \in BOOLEAN :
              LET d == [IF Awake THEN Forgotten("SLEEP") ELSE demod
                          EXCEPT !.system = s, !.bandWidth = bw] IN
              /\ ~failed => W = All(EnterOrder[s])
              /\ chip' = Written(c, Entered(c, s, bw), W)
              /\ demod' = IF failed THEN [d EXCEPT !.state = "INVALID"]
                          ELSE IF SoftResetDone(s) THEN [d EXCEPT !.state = "ACTIVE"] ELSE d
              /\ result' = IF failed THEN "I2C" ELSE "OK"
              /\ stale' = FALSE
              /\ adopted' = (adopted \/ ~Asleep(c))
        BY <2>2, <3>2 DEF Enter
      <4>2. (IF Awake THEN Forgotten("SLEEP") ELSE demod) \in DemodRecords
            /\ (IF Awake THEN Forgotten("SLEEP") ELSE demod).state = "SLEEP"
        BY <2>2, <1>t, ForgottenType DEF States, Awake, Ready, TypeOK, DemodRecords, Bws
      <4>3. demod' \in DemodRecords
        BY <1>t DEF TypeOK, DemodRecords, Bws
      <4>4. CASE failed
        <5>1. demod'.state = "INVALID"
          BY <4>1, <4>2, <4>4 DEF DemodRecords
        <5> QED BY <5>1, <1>i
      <4>5. CASE ~failed
        <5>1. /\ demod'.system = s /\ demod'.bandWidth = bw
              /\ demod'.state = IF SoftResetDone(s) THEN "ACTIVE" ELSE "SLEEP"
          BY <4>1, <4>2, <4>5 DEF DemodRecords
        <5>2. Runs(chip', s) /\ RunsBand(chip', s, bw)
          BY <4>1, <4>5, EnteredRuns
        <5>3. s # "DVBT2" => chip'["dram"] = "off" \/ adopted'
          <6>1. CASE s = "DVBT"
            BY <6>1, <4>1, <4>5, AllEnter DEF Written, Registers, Asleep
          <6>2. CASE s = "DVBC"
            BY <6>2, <4>1, <4>5, AllEnter DEF Written, Registers, Asleep
          <6> QED BY <6>1, <6>2 DEF Systems
        <5>4. SoftResetDone(s) \/ s = "DVBT2"
          BY DEF SoftResetDone
        <5>5. s # "UNKNOWN"
          BY DEF Systems
        <5> QED BY <5>1, <5>2, <5>3, <5>4, <5>5 DEF BelievedSystemRuns, ActiveHasSystem, OnlyT2Sleeps,
                   MemoryOff, SleepingChipSleeps
      <4> QED BY <4>4, <4>5
    <3> QED BY <3>1, <3>2
  <2>3. CASE Ready /\ s = demod.system /\ Reacquire(s, bw)
    <3> DEFINE d == [demod EXCEPT !.bandWidth = bw]
    <3>1. PICK W \in IF bw # demod.bandWidth THEN Prefixes(BandOrder[s]) ELSE {{}} :
            /\ chip' = Written(chip, Entered(chip, s, bw), W)
            /\ stale' = IF bw # demod.bandWidth THEN W # BandOf(s) ELSE stale
            /\ UNCHANGED adopted
            /\ \/ demod' = [d EXCEPT !.state = "ACTIVE"]
               \/ demod' = [d EXCEPT !.state = "INVALID"]
               \/ s = "DVBT2" /\ demod' = d
      <4>1. PICK W \in IF bw # demod.bandWidth THEN Prefixes(BandOrder[s]) ELSE {{}} :
              /\ chip' = Written(chip, Entered(chip, s, bw), W)
              /\ stale' = IF bw # demod.bandWidth THEN W # BandOf(s) ELSE stale
              /\ UNCHANGED adopted
              /\ \/ demod' = (IF SoftResetDone(s) THEN [d EXCEPT !.state = "ACTIVE"] ELSE d)
                 \/ s = "DVBT2" /\ demod' = d
                 \/ demod' = [d EXCEPT !.state = "INVALID"]
        BY <2>3 DEF Reacquire
      <4>2. ~SoftResetDone(s) => s = "DVBT2"
        BY DEF SoftResetDone
      <4> QED BY <4>1, <4>2
    <3>2. W \in SUBSET BandOf(s)
      BY <3>1 DEF Prefixes, BandOf, All
    <3>3. /\ demod'.system = s /\ demod'.bandWidth = bw
          /\ demod'.state \in {demod.state, "ACTIVE", "INVALID"}
          /\ demod'.state = "SLEEP" => s = "DVBT2"
      BY <3>1, <2>3, <1>t DEF TypeOK, d
    <3>4. Runs(chip, s) /\ (stale \/ RunsBand(chip, s, demod.bandWidth)) /\ s # "UNKNOWN"
      BY <2>3 DEF DemodInv, BelievedSystemRuns, Systems
    <3>5. Runs(chip', s) /\ (W = BandOf(s) => RunsBand(chip', s, bw))
      BY <3>1, <3>2, <3>4, BandKeepsRunning
    <3>6. stale' \/ RunsBand(chip', s, bw)
      <4>1. CASE bw = demod.bandWidth
        <5>1. \A r \in Registers : chip'[r] = chip[r]
          BY <3>1, <4>1 DEF Written
        <5>2. BandOf(s) \subseteq Registers
          BY AllBand DEF Systems, Registers
        <5> QED BY <3>1, <3>4, <4>1, <5>1, <5>2 DEF RunsBand
      <4> QED BY <3>1, <3>5, <4>1
    <3>7. s # "DVBT2" => chip'["dram"] = "off" \/ adopted'
      <4>1. s # "DVBT2" => demod.state = "ACTIVE" /\ (chip["dram"] = "off" \/ adopted)
        BY <2>3, <3>4 DEF DemodInv, OnlyT2Sleeps, MemoryOff, Ready
      <4>2. s # "DVBT2" => "dram" \notin W
        BY <3>2, AllBand DEF Systems
      <4> QED BY <3>1, <4>1, <4>2 DEF Written, Registers
    <3> QED BY <3>3, <3>4, <3>5, <3>6, <3>7 DEF BelievedSystemRuns, ActiveHasSystem, OnlyT2Sleeps,
               MemoryOff, SleepingChipSleeps
  <2> QED BY <1>4, <2>1, <2>2, <2>3 DEF dvb_demod_Tune
<1>5. CASE demod.system = "DVBT2" /\ dvb_demod_SoftReset
  <2>1. CASE \E r \in {"SW_STATE", "I2C"} : Refuse(r)
    BY <2>1, <1>f
  <2>2. CASE ~\E r \in {"SW_STATE", "I2C"} : Refuse(r)
    <3>1. /\ Ready /\ UNCHANGED <<chip, stale, adopted>>
          /\ demod'.system = "DVBT2" /\ demod'.bandWidth = demod.bandWidth
          /\ demod'.state \in {"ACTIVE", "INVALID"}
      BY <1>5, <2>2, <1>t DEF dvb_demod_SoftReset, TypeOK
    <3> QED BY <1>5, <3>1 DEF DemodInv, BelievedSystemRuns, ActiveHasSystem, OnlyT2Sleeps, MemoryOff,
               SleepingChipSleeps
  <2> QED BY <2>1, <2>2
<1>6. ASSUME NEW id \in SleepOnly \cup Anytime, dvb_demod_SetConfig(id) PROVE Claims'
  BY <1>6, <1>f DEF dvb_demod_SetConfig, t2_SetConfig
<1>7. ASSUME NEW on \in BOOLEAN, SetLongEcho(on) PROVE Claims'
  <2>1. CASE \E r \in {"SW_STATE", "OK", "I2C"} : Refuse(r)
    BY <2>1, <1>f
  <2>2. CASE /\ demod' = [demod EXCEPT !.longEcho = on] /\ UNCHANGED <<chip, stale, adopted>>
    BY <2>2, <1>t, Unmoved DEF TypeOK
  <2> QED BY <1>7, <2>1, <2>2 DEF SetLongEcho
<1>8. CASE UNCHANGED vars
  BY <1>8, Unmoved DEF vars
<1> QED BY <1>1, <1>2, <1>3, <1>4, <1>5, <1>6, <1>7, <1>8 DEF Next

LEMMA InvHolds == Spec => []DemodInv
  BY InitInv, InvStep, PTL DEF Spec

\* ActiveRunsItsSystem: whatever writes failed, a driver that says ACTIVE is on a
\* chip that runs its system.
THEOREM ActiveAlwaysRuns == Spec => []ActiveRunsItsSystem
<1>1. DemodInv => ActiveRunsItsSystem
  BY DEF DemodInv, BelievedSystemRuns, ActiveHasSystem, ActiveRunsItsSystem, Ready, TypeOK
<1> QED BY <1>1, InvHolds, PTL

\* SleepingChipSleeps: a driver in SLEEP without a system has put its chip to
\* sleep.
THEOREM SleepingAlwaysSleeps == Spec => []SleepingChipSleeps
<1>1. DemodInv => SleepingChipSleeps
  BY DEF DemodInv
<1> QED BY <1>1, InvHolds, PTL

\* SleepWithSystemRuns: a system is kept in SLEEP only while the chip already
\* runs for DVB-T2.
THEOREM SleepWithSystemAlwaysRuns == Spec => []SleepWithSystemRuns
<1>1. DemodInv => SleepWithSystemRuns
  BY DEF DemodInv, BelievedSystemRuns, OnlyT2Sleeps, SleepWithSystemRuns, Ready
<1> QED BY <1>1, InvHolds, PTL

-----------------------------------------------------------------------------
(* The integration driver.  A thread that tunes knows, while it waits for  *)
(* a lock, which system the demodulator is in, as long as no other thread  *)
(* moves the demodulator.                                                  *)

TuneOps == {"BlindTune", "Tune"}
T2Waits == {"t2_poll", "le_init", "le_start", "le_poll"}
DemodWaits == {"poll"} \cup T2Waits
ScanPcs == {"scan_on", "scan_rf", "callback", "scan_off"}
ScanLists == {<<"DVBT">>, <<"DVBC">>, <<"DVBT2">>, <<"DVBT", "DVBT2">>, <<"DVBT2", "DVBT">>}
Results == Errors \cup Systems \cup {Nothing}

Calls ==
  [op : {"none", "WaitTSLock", "Scan"} \cup TuneOps,
   pc : {"idle", "rf", "configure", "tune"} \cup TsWaits \cup DemodWaits \cup ScanPcs,
   system : Systems \cup {"UNKNOWN"}, bandWidth : Bandwidths \cup {"none"},
   polls : Nat, trial : {0, 1}, senseFound : {"NORMAL", "INV"},
   systems : ScanLists \cup {<< >>}, left : Int, result : {"OK"} \cup Errors]

\* What call c says of itself.
CallShape(c) ==
  /\ c \in Calls
  /\ c.pc = "idle" <=> c.op = "none"
  /\ c.pc \in ScanPcs => c.op = "Scan"
  /\ c.pc \in TsWaits <=> c.op = "WaitTSLock" \/ (c.op = "Tune" /\ c.pc \in TsWaits)
  /\ c.op \in TuneOps \cup {"Scan"} => c.system \in Systems /\ c.bandWidth \in Bandwidths
  /\ c.op = "Scan" => c.systems \in ScanLists
  /\ c.pc \in T2Waits => c.system = "DVBT2"

\* What it says of the demodulator d.
CallFacts(c, d, auto) ==
  /\ c.pc \in DemodWaits \/ (c.pc \in TsWaits /\ c.op = "Tune") => d.system = c.system
  /\ c.pc = "t2_poll" => d.state = "ACTIVE" /\ (c.trial = 1 => auto)

\* What is known of d from the last call, which returned r.
ReturnFacts(c, r, d) ==
  /\ c.op # "none" => r = Nothing
  /\ r \in Systems => d.state = "ACTIVE" /\ d.system = r

ThreadOK(t) ==
  CallShape(call[t]) /\ CallFacts(call[t], demod, autoSpectrum) /\ ReturnFacts(call[t], returned[t], demod)

Records ==
  /\ call \in [Threads -> Calls] /\ returned \in [Threads -> Results]
  /\ sense \in {"NORMAL", "INV"}

\* Thread t has gone on, and no other.
Acts(t) ==
  /\ Records' /\ ThreadOK(t)'
  /\ \A u \in Threads \ {t} : call'[u] = call[u] /\ returned'[u] = returned[u]

LEMMA IdleShape == CallShape(Idle) /\ Idle.pc = "idle" /\ Idle.op = "none"
  BY DEF CallShape, Idle, Calls, TsWaits, TuneOps, DemodWaits, T2Waits, ScanPcs

\* The demodulator driver keeps its invariant in every call the integration
\* driver makes of it.
LEMMA QuietInv == ASSUME DemodInv, QuietDemod PROVE DemodInv'
<1>1. TypeOK'
  BY DEF DemodInv, QuietDemod, TypeOK
<1> QED BY <1>1, Unmoved DEF QuietDemod, DemodInv

LEMMA CallsKeep ==
  ASSUME DemodInv
  PROVE  /\ dvb_demod_Initialize \/ dvb_demod_Finalize \/ dvb_demod_Sleep => DemodInv'
         /\ \A s \in Systems, bw \in Bandwidths : dvb_demod_Tune(s, bw) => DemodInv'
         /\ demod.system = "DVBT2" /\ dvb_demod_SoftReset => DemodInv'
         /\ \A id \in SleepOnly \cup Anytime : dvb_demod_SetConfig(id) => DemodInv'
         /\ \A on \in BOOLEAN : SetLongEcho(on) => DemodInv'
  BY InvStep DEF Next

\* A thread that goes on to call c, or out with result r.
LEMMA Going ==
  ASSUME Records, sense' \in {"NORMAL", "INV"}, NEW t \in Threads, NEW c, NEW r \in Results,
         call' = [call EXCEPT ![t] = c], returned' = [returned EXCEPT ![t] = r],
         CallShape(c), CallFacts(c, demod', autoSpectrum'), ReturnFacts(c, r, demod')
  PROVE  Acts(t)
  BY DEF Records, CallShape, Acts, ThreadOK

LEMMA Returning ==
  ASSUME Records, sense' \in {"NORMAL", "INV"}, NEW t \in Threads, ThreadOK(t),
         NEW r \in Errors \cup {"OK"}, Return(t, r),
         r = "OK" /\ call[t].op \in TuneOps =>
           demod'.state = "ACTIVE" /\ demod'.system = call[t].system
  PROVE  Acts(t)
<1> DEFINE x == IF r # "OK" THEN r
                ELSE IF call[t].op \in {"BlindTune", "Tune"} THEN call[t].system ELSE Nothing
<1>1. call' = [call EXCEPT ![t] = Idle] /\ returned' = [returned EXCEPT ![t] = x]
  BY DEF Return
<1>2. x \in Results /\ (x \in Systems => demod'.state = "ACTIVE" /\ demod'.system = x)
  BY DEF Results, Errors, Systems, Nothing, TuneOps, ThreadOK, CallShape
<1> HIDE DEF x
<1>3. CallFacts(Idle, demod', autoSpectrum') /\ ReturnFacts(Idle, x, demod')
  BY <1>2, IdleShape DEF CallFacts, ReturnFacts, TsWaits, DemodWaits, T2Waits
<1> QED BY <1>1, <1>2, <1>3, IdleShape, Going

\* A thread that goes on in its operation.
LEMMA Continuing ==
  ASSUME Records, sense' \in {"NORMAL", "INV"}, NEW t \in Threads, ThreadOK(t), call[t].op # "none",
         NEW c, c.op # "none", call' = [call EXCEPT ![t] = c], UNCHANGED returned,
         CallShape(c), CallFacts(c, demod', autoSpectrum')
  PROVE  Acts(t)
<1>1. returned' = [returned EXCEPT ![t] = Nothing]
  BY DEF Records, ThreadOK, ReturnFacts
<1>2. Nothing \in Results /\ Nothing \notin Systems
  BY DEF Results, Nothing, Systems
<1> QED BY <1>1, <1>2, Going DEF ReturnFacts

\* What several EXCEPTs make of a thread's call.
LEMMA Excepts ==
  ASSUME Records, NEW t \in Threads, NEW p, NEW x, NEW y
  PROVE  /\ [call EXCEPT ![t].pc = p] = [call EXCEPT ![t] = [call[t] EXCEPT !.pc = p]]
         /\ [call EXCEPT ![t].polls = x] = [call EXCEPT ![t] = [call[t] EXCEPT !.polls = x]]
         /\ [call EXCEPT ![t].pc = p, ![t].result = x]
              = [call EXCEPT ![t] = [call[t] EXCEPT !.pc = p, !.result = x]]
         /\ [call EXCEPT ![t].pc = p, ![t].polls = x]
              = [call EXCEPT ![t] = [call[t] EXCEPT !.pc = p, !.polls = x]]
         /\ [call EXCEPT ![t].pc = p, ![t].system = x]
              = [call EXCEPT ![t] = [call[t] EXCEPT !.pc = p, !.system = x]]
         /\ [call EXCEPT ![t].pc = p, ![t].left = x]
              = [call EXCEPT ![t] = [call[t] EXCEPT !.pc = p, !.left = x]]
         /\ [call EXCEPT ![t].pc = p, ![t].polls = x, ![t].trial = y]
              = [call EXCEPT ![t] = [call[t] EXCEPT !.pc = p, !.polls = x, !.trial = y]]
         /\ [call EXCEPT ![t].polls = x, ![t].trial = y, ![t].senseFound = p]
              = [call EXCEPT ![t] = [call[t] EXCEPT !.polls = x, !.trial = y, !.senseFound = p]]
  BY DEF Records

\* DoDemodTune, or the wait for the demodulator's lock, is over.
LEMMA EndTuneActs ==
  ASSUME Records, sense' \in {"NORMAL", "INV"}, NEW t \in Threads, ThreadOK(t),
         call[t].pc \in {"tune"} \cup DemodWaits, NEW r \in Errors \cup {"OK"}, EndTune(t, r),
         r = "OK" => demod'.state = "ACTIVE" /\ demod'.system = call[t].system
  PROVE  Acts(t)
<1> DEFINE c == call[t]
<1>0. /\ c \in Calls /\ CallShape(c) /\ c.op # "none"
      /\ c.pc \notin {"ts", "ts_poll", "le_ts"}
  BY DEF ThreadOK, CallShape, DemodWaits, T2Waits
<1>1. CASE c.op = "Scan" /\ UNCHANGED returned
           /\ call' = [call EXCEPT ![t].pc = IF r \in {"OK", "UNLOCK", "TIMEOUT"}
                                             THEN "callback" ELSE "scan_off", ![t].result = r]
  <2> DEFINE p == IF r \in {"OK", "UNLOCK", "TIMEOUT"} THEN "callback" ELSE "scan_off"
             d == [c EXCEPT !.pc = p, !.result = r]
  <2>1. p \in {"callback", "scan_off"}
    OBVIOUS
  <2>2. call' = [call EXCEPT ![t] = d]
    BY <1>1, Excepts
  <2> HIDE DEF p
  <2>3. d \in Calls /\ d.pc = p /\ d.op = "Scan" /\ d.system = c.system
        /\ d.bandWidth = c.bandWidth /\ d.systems = c.systems
    BY <1>0, <1>1, <2>1 DEF Calls, ScanPcs
  <2> HIDE DEF d
  <2>4. CallShape(d) /\ CallFacts(d, demod', autoSpectrum')
    BY <1>0, <1>1, <2>1, <2>3 DEF CallShape, CallFacts, ScanPcs, TsWaits, T2Waits, DemodWaits, TuneOps
  <2> QED BY <1>0, <1>1, <2>2, <2>3, <2>4, Continuing
<1>2. CASE c.op = "Tune" /\ r = "OK" /\ UNCHANGED returned
           /\ call' = [call EXCEPT ![t].pc = "ts", ![t].polls = 0]
  <2> DEFINE d == [c EXCEPT !.pc = "ts", !.polls = 0]
  <2>2. call' = [call EXCEPT ![t] = d]
    BY <1>2, Excepts
  <2>3. d \in Calls /\ d.pc = "ts" /\ d.op = "Tune" /\ d.system = c.system
        /\ d.bandWidth = c.bandWidth /\ d.systems = c.systems
    BY <1>0, <1>2 DEF Calls, TsWaits
  <2> HIDE DEF d
  <2>4. CallShape(d) /\ CallFacts(d, demod', autoSpectrum')
    BY <1>0, <1>2, <2>3 DEF CallShape, CallFacts, ScanPcs, TsWaits, T2Waits, DemodWaits, TuneOps
  <2> QED BY <1>0, <1>2, <2>2, <2>3, <2>4, Continuing
<1>3. CASE Return(t, r)
  BY <1>3, Returning
<1> QED BY <1>1, <1>2, <1>3 DEF EndTune

\* A wait is over.
LEMMA FinishActs ==
  ASSUME Records, sense' \in {"NORMAL", "INV"}, NEW t \in Threads, ThreadOK(t),
         call[t].pc \in DemodWaits \cup TsWaits, NEW r \in Errors \cup {"OK"}, Finish(t, r),
         r = "OK" => demod.state = "ACTIVE", r = "OK" => demod' = demod
  PROVE  Acts(t)
<1>1. CASE call[t].pc \in TsWaits
  <2>1. Return(t, r)
    BY <1>1 DEF Finish, EndWait
  <2>2. call[t].op \in TuneOps => demod.system = call[t].system
    BY <1>1 DEF ThreadOK, CallShape, CallFacts, TuneOps
  <2> QED BY <2>1, <2>2, Returning
<1>2. CASE call[t].pc \notin TsWaits
  <2>1. EndTune(t, r) /\ call[t].pc \in DemodWaits
    BY <1>2 DEF Finish
  <2>2. demod.system = call[t].system
    BY <2>1 DEF ThreadOK, CallFacts
  <2> QED BY <2>1, <2>2, EndTuneActs
<1> QED BY <1>1, <1>2

\* One more poll.
LEMMA KeepPollingActs ==
  ASSUME Records, sense' \in {"NORMAL", "INV"}, NEW t \in Threads, ThreadOK(t),
         call[t].pc \in DemodWaits \cup TsWaits, KeepPolling(t), UNCHANGED <<demod, autoSpectrum>>
  PROVE  Acts(t)
<1>1. CASE \E r \in {"CANCEL", "TIMEOUT"} : Finish(t, r)
  BY <1>1, FinishActs DEF Errors
<1>2. CASE call' = [call EXCEPT ![t].polls = @ + 1] /\ UNCHANGED returned
  <2> DEFINE c == call[t]
             d == [c EXCEPT !.polls = c.polls + 1]
  <2>1. call' = [call EXCEPT ![t].polls = c.polls + 1]
    BY <1>2 DEF Records
  <2>2. call' = [call EXCEPT ![t] = d]
    BY <2>1, Excepts
  <2>3. c \in Calls /\ CallShape(c) /\ CallFacts(c, demod, autoSpectrum) /\ c.op # "none"
    BY DEF ThreadOK, CallShape, DemodWaits, T2Waits, TsWaits
  <2>4. d \in Calls /\ d.pc = c.pc /\ d.op = c.op /\ d.system = c.system /\ d.trial = c.trial
        /\ d.bandWidth = c.bandWidth /\ d.systems = c.systems
    BY <2>3 DEF Calls
  <2> HIDE DEF d
  <2>5. CallShape(d) /\ CallFacts(d, demod', autoSpectrum')
    BY <2>3, <2>4 DEF CallShape, CallFacts
  <2> QED BY <1>2, <2>2, <2>3, <2>4, <2>5, Continuing
<1> QED BY <1>1, <1>2 DEF KeepPolling

LEMMA LockedOrActs ==
  ASSUME Records, sense' \in {"NORMAL", "INV"}, NEW t \in Threads, ThreadOK(t),
         call[t].pc \in DemodWaits \cup TsWaits, NEW lock \in DemodLocks, LockedOr(t, lock),
         UNCHANGED <<demod, autoSpectrum>>
  PROVE  Acts(t)
<1>1. CASE lock = "LOCKED" /\ Finish(t, "OK")
  <2>1. demod.state = "ACTIVE"
    BY <1>1 DEF DemodLocks, Awake
  <2> QED BY <1>1, <2>1, FinishActs
<1>2. CASE \E r \in {"UNLOCK", "I2C"} : Finish(t, r)
  BY <1>2, FinishActs DEF Errors
<1>3. CASE KeepPolling(t)
  BY <1>3, KeepPollingActs
<1> QED BY <1>1, <1>2, <1>3 DEF LockedOr

-----------------------------------------------------------------------------
(* The steps of a thread in an operation.                                  *)

\* A step that does nothing to the demodulator, and goes on, or returns a failure.
LEMMA GotoActs ==
  ASSUME Records, sense' \in {"NORMAL", "INV"}, NEW t \in Threads, ThreadOK(t),
         call[t].op # "none", NEW p, Goto(t, p), UNCHANGED autoSpectrum,
         \/ p \in {"configure", "tune"}
         \/ p \in {"le_start", "le_poll"} /\ call[t].system = "DVBT2" /\ demod'.system = "DVBT2"
         \/ p \in {"ts_poll", "le_ts"} /\ call[t].pc = "ts" /\ demod' = demod
         \/ p = "scan_rf" /\ call[t].op = "Scan",
         p \in {"configure", "tune", "le_start", "le_poll"} => call[t].op # "WaitTSLock"
  PROVE  Acts(t)
<1> DEFINE c == call[t]
           d == [c EXCEPT !.pc = p]
<1>1. call' = [call EXCEPT ![t] = d] /\ UNCHANGED returned
  BY Excepts DEF Goto
<1>2. c \in Calls /\ CallShape(c) /\ CallFacts(c, demod, autoSpectrum)
  BY DEF ThreadOK, CallShape
<1>3. d \in Calls /\ d.pc = p /\ d.op = c.op /\ d.system = c.system
      /\ d.bandWidth = c.bandWidth /\ d.systems = c.systems
  BY <1>2 DEF Calls, TsWaits, DemodWaits, T2Waits, ScanPcs
<1> HIDE DEF d
<1>4. CallShape(d)
  BY <1>2, <1>3 DEF CallShape, TsWaits, DemodWaits, T2Waits, ScanPcs, TuneOps, Calls
<1>5. CallFacts(d, demod', autoSpectrum')
  BY <1>2, <1>3 DEF CallFacts, TsWaits, DemodWaits, T2Waits
<1> QED BY <1>1, <1>2, <1>3, <1>4, <1>5, Continuing

LEMMA TuneRfActs ==
  ASSUME DemodInv, Records, NEW t \in Threads, ThreadOK(t), TuneRf(t)
  PROVE  Acts(t)
<1>0. call[t].op # "none" /\ call[t].op # "WaitTSLock" /\ sense' \in {"NORMAL", "INV"} /\ UNCHANGED autoSpectrum
  BY DEF TuneRf, ThreadOK, CallShape, At, Records, TsWaits
<1>1. CASE \E p \in {"tune", "configure"} : Goto(t, p)
  BY <1>0, <1>1, GotoActs
<1>2. CASE call[t].op = "Scan" /\ UNCHANGED returned
           /\ call' = [call EXCEPT ![t].pc = "scan_off", ![t].result = "I2C"]
  <2> DEFINE c == call[t]
             d == [c EXCEPT !.pc = "scan_off", !.result = "I2C"]
  <2>0. [call EXCEPT ![t].pc = "scan_off", ![t].result = "I2C"] = [call EXCEPT ![t] = d]
    BY DEF Records
  <2>1. call' = [call EXCEPT ![t] = d]
    BY <1>2, <2>0
  <2>2. c \in Calls /\ CallShape(c)
    BY DEF ThreadOK, CallShape
  <2>3. d \in Calls /\ d.pc = "scan_off" /\ d.op = "Scan" /\ d.system = c.system
        /\ d.bandWidth = c.bandWidth /\ d.systems = c.systems
    BY <1>2, <2>2 DEF Calls, ScanPcs, Errors
  <2> HIDE DEF d
  <2>4. CallShape(d) /\ CallFacts(d, demod', autoSpectrum')
    BY <1>2, <2>2, <2>3 DEF CallShape, CallFacts, ScanPcs, TsWaits, T2Waits, DemodWaits, TuneOps
  <2> QED BY <1>0, <1>2, <2>1, <2>3, <2>4, Continuing
<1>3. CASE Return(t, "I2C")
  BY <1>0, <1>3, Returning DEF Errors
<1> QED BY <1>1, <1>2, <1>3 DEF TuneRf

LEMMA EnableAcquisitionActs ==
  ASSUME DemodInv, Records, NEW t \in Threads, ThreadOK(t), EnableAcquisition(t)
  PROVE  Acts(t)
<1>0. call[t].op # "none" /\ call[t].op # "WaitTSLock" /\ sense' \in {"NORMAL", "INV"} /\ UNCHANGED autoSpectrum
  BY DEF EnableAcquisition, ThreadOK, CallShape, At, Records, TsWaits
<1>1. CASE Goto(t, "tune")
  BY <1>0, <1>1, GotoActs
<1>2. CASE \E r \in {"I2C", "SW_STATE"} : Return(t, r)
  BY <1>0, <1>2, Returning DEF Errors
<1> QED BY <1>1, <1>2 DEF EnableAcquisition

\* A tuning that succeeds has the demodulator in the system that was asked for.
LEMMA TuneOk ==
  ASSUME DemodInv, NEW s \in Systems, NEW bw, dvb_demod_Tune(s, bw)
  PROVE  /\ result' \in {"OK", "ARG", "SW_STATE", "NOSUPPORT", "I2C"}
         /\ result' = "OK" => demod'.system = s /\ (SoftResetDone(s) => demod'.state = "ACTIVE")
                              /\ demod'.longEcho = demod.longEcho
<1>t. demod \in DemodRecords
  BY DEF DemodInv, TypeOK, DemodRecords, Bws
<1>1. CASE \E r \in {"ARG", "SW_STATE", "NOSUPPORT"} : Refuse(r)
  BY <1>1 DEF Refuse
<1>2. CASE Enter(s, bw)
  <2>1. CASE LeaveFails
    BY <2>1 DEF LeaveFails
  <2>2. CASE ~LeaveFails
    <3>1. (IF Awake THEN Forgotten("SLEEP") ELSE demod) \in DemodRecords
          /\ (IF Awake THEN Forgotten("SLEEP") ELSE demod).longEcho = demod.longEcho
      BY <1>t, ForgottenType DEF DemodInv, States
    <3> DEFINE d0 == IF Awake THEN Forgotten("SLEEP") ELSE demod
    <3>2. PICK failed \in BOOLEAN :
            LET d == [d0 EXCEPT !.system = s, !.bandWidth = bw] IN
            /\ demod' = IF failed THEN [d EXCEPT !.state = "INVALID"]
                        ELSE IF SoftResetDone(s) THEN [d EXCEPT !.state = "ACTIVE"] ELSE d
            /\ result' = IF failed THEN "I2C" ELSE "OK"
      BY <1>2, <2>2 DEF Enter
    <3> HIDE DEF d0
    <3>3. d0 \in DemodRecords /\ d0.longEcho = demod.longEcho
      BY <3>1 DEF d0
    <3> QED BY <3>2, <3>3 DEF DemodRecords
  <2> QED BY <2>1, <2>2
<1>3. CASE s = demod.system /\ Reacquire(s, bw)
  <2> DEFINE d == [demod EXCEPT !.bandWidth = bw]
  <2>1. d.system = s /\ d.longEcho = demod.longEcho
        /\ [d EXCEPT !.state = "ACTIVE"].system = s /\ [d EXCEPT !.state = "ACTIVE"].state = "ACTIVE"
        /\ [d EXCEPT !.state = "ACTIVE"].longEcho = demod.longEcho
    BY <1>3, <1>t DEF DemodRecords
  <2>2. \/ demod' = (IF SoftResetDone(s) THEN [d EXCEPT !.state = "ACTIVE"] ELSE d) /\ result' = "OK"
        \/ result' = "I2C"
    BY <1>3 DEF Reacquire
  <2> HIDE DEF d
  <2> QED BY <2>1, <2>2
<1> QED BY <1>1, <1>2, <1>3 DEF dvb_demod_Tune

LEMMA DoDemodTuneActs ==
  ASSUME DemodInv, Records, NEW t \in Threads, ThreadOK(t), DoDemodTune(t)
  PROVE  DemodInv' /\ Acts(t)
<1> DEFINE c == call[t]
<1>0. c \in Calls /\ CallShape(c) /\ c.pc = "tune" /\ c.op # "none" /\ c.op # "WaitTSLock"
      /\ sense' \in {"NORMAL", "INV"} /\ UNCHANGED autoSpectrum
  BY DEF DoDemodTune, ThreadOK, CallShape, At, Records, TsWaits
<1>1. c.system \in Systems /\ c.bandWidth \in Bandwidths /\ dvb_demod_Tune(c.system, c.bandWidth)
  BY <1>0 DEF CallShape, Calls, TuneOps, DoDemodTune
<1>2. DemodInv'
  BY <1>1, CallsKeep
<1>3. CASE result' = "OK"
  <2> DEFINE p == FirstWait(c.system)
             d == [c EXCEPT !.pc = p, !.polls = 0, !.trial = 0]
  <2>0. [call EXCEPT ![t].pc = p, ![t].polls = 0, ![t].trial = 0] = [call EXCEPT ![t] = d]
    BY DEF Records
  <2>1. call' = [call EXCEPT ![t] = d] /\ UNCHANGED returned
    BY <1>3, <2>0 DEF DoDemodTune
  <2>2. /\ p \in {"poll", "le_init", "t2_poll"}
        /\ p # "poll" => c.system = "DVBT2"
        /\ p = "t2_poll" => SoftResetDone("DVBT2")
    BY DEF FirstWait, SoftResetDone
  <2>3. demod'.system = c.system /\ (p = "t2_poll" => demod'.state = "ACTIVE")
    BY <1>1, <1>3, <2>2, TuneOk
  <2> HIDE DEF p
  <2>4. d \in Calls /\ d.pc = p /\ d.op = c.op /\ d.system = c.system /\ d.trial = 0
        /\ d.bandWidth = c.bandWidth /\ d.systems = c.systems
    BY <1>0, <2>2 DEF Calls, DemodWaits, T2Waits
  <2> HIDE DEF d
  <2>5. CallShape(d)
    BY <1>0, <2>2, <2>4 DEF CallShape, TsWaits, DemodWaits, T2Waits, ScanPcs, TuneOps
  <2>6. CallFacts(d, demod', autoSpectrum')
    BY <1>0, <2>2, <2>3, <2>4 DEF CallFacts, TsWaits, DemodWaits, T2Waits
  <2> QED BY <1>0, <1>2, <2>1, <2>4, <2>5, <2>6, Continuing
<1>4. CASE result' # "OK"
  <2>1. result' \in Errors /\ EndTune(t, result')
    BY <1>1, <1>4, TuneOk DEF DoDemodTune, Errors
  <2> QED BY <1>0, <1>2, <1>4, <2>1, EndTuneActs
<1> QED BY <1>3, <1>4

\* What a soft reset does.
LEMMA SoftResetFacts ==
  ASSUME DemodInv, dvb_demod_SoftReset
  PROVE  /\ demod'.system = demod.system /\ result' \in {"OK", "SW_STATE", "I2C"}
         /\ result' = "OK" => demod'.state = "ACTIVE"
  BY DEF DemodInv, TypeOK, dvb_demod_SoftReset, Refuse

\* The steps of a wait for a DVB-T2 lock keep the demodulator in DVB-T2.
LEMMA InT2 ==
  ASSUME NEW t \in Threads, ThreadOK(t), call[t].pc \in T2Waits
  PROVE  /\ demod.system = "DVBT2" /\ call[t].system = "DVBT2"
         /\ call[t].op # "none" /\ call[t].op # "WaitTSLock"
  BY DEF ThreadOK, CallShape, CallFacts, T2Waits, DemodWaits, TsWaits

LEMMA FlipSenseActs ==
  ASSUME DemodInv, Records, NEW t \in Threads, ThreadOK(t), FlipSense(t)
  PROVE  DemodInv' /\ Acts(t)
<1> DEFINE c == call[t]
           d == [c EXCEPT !.polls = 0, !.trial = 1, !.senseFound = sense]
<1>1. c \in Calls /\ CallShape(c) /\ CallFacts(c, demod, autoSpectrum) /\ c.pc = "t2_poll"
  BY DEF FlipSense, ThreadOK, CallShape, At
<1>2. demod.system = "DVBT2" /\ c.system = "DVBT2" /\ c.op # "none"
  BY <1>1, InT2 DEF T2Waits
<1>3. DemodInv'
  BY <1>2, CallsKeep DEF FlipSense
<1>4. demod'.system = "DVBT2" /\ demod'.state = "ACTIVE"
  BY <1>2, SoftResetFacts DEF FlipSense
<1>5. [call EXCEPT ![t].polls = 0, ![t].trial = 1, ![t].senseFound = sense] = [call EXCEPT ![t] = d]
  BY DEF Records
<1>6. call' = [call EXCEPT ![t] = d] /\ UNCHANGED returned /\ autoSpectrum /\ autoSpectrum'
      /\ sense' \in {"NORMAL", "INV"}
  BY <1>5 DEF FlipSense, Other
<1>7. d \in Calls /\ d.pc = c.pc /\ d.op = c.op /\ d.system = c.system
      /\ d.bandWidth = c.bandWidth /\ d.systems = c.systems
  BY <1>1 DEF Calls, Records
<1> HIDE DEF d
<1>8. CallShape(d) /\ CallFacts(d, demod', autoSpectrum')
  BY <1>1, <1>2, <1>4, <1>6, <1>7 DEF CallShape, CallFacts, TsWaits
<1> QED BY <1>2, <1>3, <1>6, <1>7, <1>8, Continuing

LEMMA DemodWaitActs ==
  ASSUME DemodInv, Records, NEW t \in Threads, ThreadOK(t),
         WaitDemodLock(t) \/ t2_WaitDemodLock(t) \/ PollTsLock(t) \/ LongEchoTsLock(t)
  PROVE  DemodInv' /\ Acts(t) /\ (call[t].pc \in TsWaits => UNCHANGED <<demod, chip>>)
<1>s. call[t] \in Calls /\ Other(sense) \in {"NORMAL", "INV"} /\ sense \in {"NORMAL", "INV"}
  BY DEF ThreadOK, CallShape, Other, Records
<1>q. QuietDemod => UNCHANGED <<demod, chip>>
  BY DEF QuietDemod
<1>1. CASE WaitDemodLock(t)
  <2>1. call[t].pc \in DemodWaits /\ QuietDemod
    BY <1>1 DEF WaitDemodLock, At, DemodWaits
  <2> QED BY <1>1, <1>s, <1>q, <2>1, QuietInv, LockedOrActs DEF WaitDemodLock
<1>2. CASE PollTsLock(t)
  <2>1. call[t].pc \in TsWaits /\ QuietDemod
    BY <1>2 DEF PollTsLock, At, TsWaits
  <2> QED BY <1>2, <1>s, <1>q, <2>1, QuietInv, LockedOrActs, KeepPollingActs DEF PollTsLock
<1>3. CASE LongEchoTsLock(t)
  <2>1. call[t].pc \in TsWaits /\ QuietDemod
    BY <1>3 DEF LongEchoTsLock, At, TsWaits
  <2>2. CASE KeepPolling(t)
    BY <1>3, <1>s, <1>q, <2>1, <2>2, QuietInv, KeepPollingActs DEF LongEchoTsLock
  <2>3. CASE \E r \in IF Awake /\ demod.system = "DVBT2" THEN {"OK", "I2C"} ELSE {"SW_STATE"} :
               Finish(t, IF cancel THEN "CANCEL" ELSE r)
    <3>1. PICK r \in {"OK", "I2C", "SW_STATE", "CANCEL"} : Finish(t, r) /\ (r = "OK" => Awake)
      BY <2>3
    <3> QED BY <1>3, <1>s, <1>q, <2>1, <3>1, QuietInv, FinishActs DEF LongEchoTsLock, Errors, Awake
  <2> QED BY <1>3, <2>2, <2>3 DEF LongEchoTsLock
<1>4. CASE t2_WaitDemodLock(t)
  <2>1. call[t].pc = "t2_poll" /\ call[t].pc \in DemodWaits /\ call[t].pc \in T2Waits /\ call[t].pc \notin TsWaits
    BY <1>4 DEF t2_WaitDemodLock, T2PollFails, FlipSense, RestoreSense, NoT2P1, At, DemodWaits, T2Waits, TsWaits
  <2>2. demod.system = "DVBT2"
    BY <2>1, InT2
  <2>3. CASE T2PollFails(t)
    <3>1. sense' \in {"NORMAL", "INV"} /\ Finish(t, "I2C") /\ "I2C" \in Errors
      BY <1>s, <2>3 DEF T2PollFails, Errors
    <3>2. DemodInv'
      BY <2>2, <2>3, QuietInv, CallsKeep DEF T2PollFails
    <3> QED BY <2>1, <3>1, <3>2, FinishActs
  <2>4. CASE FlipSense(t)
    BY <2>1, <2>4, FlipSenseActs
  <2>5. CASE RestoreSense(t)
    <3>1. sense' \in {"NORMAL", "INV"} /\ Finish(t, "UNLOCK") /\ "UNLOCK" \in Errors
      BY <1>s, <2>5 DEF RestoreSense, Errors, Calls
    <3> QED BY <2>1, <2>5, <3>1, QuietInv, FinishActs DEF RestoreSense
  <2>6. CASE NoT2P1(t)
    BY <1>s, <2>1, <2>6, QuietInv, FinishActs DEF NoT2P1, Errors
  <2>7. CASE (\E lock \in DemodLocks \ {"I2C"} : LockedOr(t, lock)) /\ QuietDemod
             /\ UNCHANGED <<scanMode, autoSpectrum, sense>>
    BY <1>s, <1>q, <2>1, <2>7, QuietInv, LockedOrActs
  <2> QED BY <1>4, <2>3, <2>4, <2>5, <2>6, <2>7 DEF t2_WaitDemodLock
<1> QED BY <1>1, <1>2, <1>3, <1>4

LEMMA LongEchoActs ==
  ASSUME DemodInv, Records, NEW t \in Threads, ThreadOK(t),
         LongEchoInit(t) \/ LongEchoStart(t) \/ LongEchoPoll(t)
  PROVE  DemodInv' /\ Acts(t) /\ call[t].pc \notin TsWaits
<1>s. call[t] \in Calls /\ Other(sense) \in {"NORMAL", "INV"} /\ sense \in {"NORMAL", "INV"}
  BY DEF ThreadOK, CallShape, Other, Records
<1>p. call[t].pc \in T2Waits /\ call[t].pc \in DemodWaits /\ call[t].pc \notin TsWaits
  BY DEF LongEchoInit, LongEchoStart, LongEchoPoll, At, T2Waits, DemodWaits, TsWaits
<1>t. demod.system = "DVBT2" /\ call[t].system = "DVBT2" /\ call[t].op # "none" /\ call[t].op # "WaitTSLock"
  BY <1>p, InT2
<1>1. ASSUME NEW r \in {"OK", "I2C", "SW_STATE"}, NEW p \in {"le_start", "le_poll"}, Turned(t, r, p),
             UNCHANGED <<autoSpectrum, sense>>, demod'.system = "DVBT2"
      PROVE  Acts(t)
  <2>1. CASE \E x \in {"CANCEL", "I2C", "SW_STATE"} : Finish(t, x)
    BY <1>s, <1>p, <1>1, <2>1, FinishActs DEF Errors
  <2>2. CASE Goto(t, p)
    BY <1>s, <1>t, <1>1, <2>2, GotoActs
  <2> QED BY <1>1, <2>1, <2>2 DEF Turned
<1>2. CASE LongEchoInit(t)
  <2>1. DemodInv' /\ demod' = demod
    BY <1>2, QuietInv DEF LongEchoInit, QuietDemod
  <2> QED BY <1>1, <1>2, <1>p, <1>t, <2>1 DEF LongEchoInit
<1>3. CASE LongEchoStart(t)
  <2>1. DemodInv'
    BY <1>3, <1>t, CallsKeep DEF LongEchoStart
  <2>2. demod'.system = "DVBT2" /\ result' \in {"OK", "I2C", "SW_STATE"}
    BY <1>3, <1>t, SoftResetFacts DEF LongEchoStart
  <2> QED BY <1>1, <1>3, <1>p, <2>1, <2>2 DEF LongEchoStart
<1>4. CASE LongEchoPoll(t)
  <2>1. DemodInv' /\ demod' = demod /\ UNCHANGED autoSpectrum /\ sense' \in {"NORMAL", "INV"}
    BY <1>4, <1>s, QuietInv DEF LongEchoPoll, QuietDemod
  <2> DEFINE Ends == \E r \in IF Awake THEN {"OK", "UNLOCK", "I2C"} ELSE {"SW_STATE"} :
                       Finish(t, IF cancel THEN "CANCEL" ELSE r)
  <2>2. CASE Ends
    <3>1. PICK r \in {"OK", "UNLOCK", "I2C", "SW_STATE", "CANCEL"} : Finish(t, r) /\ (r = "OK" => Awake)
      BY <2>2
    <3> QED BY <1>p, <2>1, <3>1, FinishActs DEF Errors, Awake
  <2>3. CASE KeepPolling(t)
    BY <1>p, <2>1, <2>3, KeepPollingActs
  <2>4. CASE ~Ends /\ ~KeepPolling(t)
    <3> DEFINE c == call[t]
               n == c.polls + 1
               d == [c EXCEPT !.pc = "le_start", !.polls = n]
    <3>0. call' = [call EXCEPT ![t].pc = "le_start", ![t].polls = @ + 1] /\ UNCHANGED returned
      BY <1>4, <2>4 DEF LongEchoPoll
    <3>1. [call EXCEPT ![t].pc = "le_start", ![t].polls = @ + 1] = [call EXCEPT ![t] = d]
      BY DEF Records
    <3>2. call' = [call EXCEPT ![t] = d]
      BY <3>0, <3>1
    <3>n. n \in Nat
      BY <1>s DEF Calls
    <3> HIDE DEF n
    <3>3. d \in Calls /\ d.pc = "le_start" /\ d.op = c.op /\ d.system = c.system
          /\ d.bandWidth = c.bandWidth /\ d.systems = c.systems
      BY <1>s, <3>n DEF Calls, DemodWaits, T2Waits
    <3> HIDE DEF d
    <3>4. CallShape(c)
      BY DEF ThreadOK
    <3>5. CallShape(d) /\ CallFacts(d, demod', autoSpectrum')
      BY <1>t, <2>1, <3>3, <3>4 DEF CallShape, CallFacts, ScanPcs, TsWaits, T2Waits, DemodWaits, TuneOps
    <3> QED BY <1>p, <1>t, <2>1, <3>0, <3>2, <3>3, <3>5, Continuing
  <2> HIDE DEF Ends
  <2> QED BY <1>p, <2>1, <2>2, <2>3, <2>4
<1> QED BY <1>2, <1>3, <1>4

\* A thread that goes to pc p of its scan, with nothing else of note changed.
LEMMA ScanGoing ==
  ASSUME Records, sense' \in {"NORMAL", "INV"}, NEW t \in Threads, ThreadOK(t), call[t].op = "Scan",
         NEW d, d \in Calls, d.op = "Scan", d.pc \in {"rf", "scan_rf", "scan_off", "callback"},
         d.system \in Systems, d.bandWidth = call[t].bandWidth, d.systems = call[t].systems,
         call' = [call EXCEPT ![t] = d], UNCHANGED returned
  PROVE  Acts(t)
<1>1. CallShape(call[t])
  BY DEF ThreadOK
<1>2. CallShape(d) /\ CallFacts(d, demod', autoSpectrum')
  BY <1>1 DEF CallShape, CallFacts, ScanPcs, TsWaits, T2Waits, DemodWaits, TuneOps
<1> QED BY <1>2, Continuing

LEMMA ScanActs ==
  ASSUME DemodInv, Records, NEW t \in Threads, ThreadOK(t),
         ScanOn(t) \/ ScanFrequency(t) \/ Notify(t) \/ ScanOff(t)
  PROVE  Acts(t) /\ call[t].op = "Scan"
<1> DEFINE c == call[t]
<1>c. c \in Calls /\ CallShape(c) /\ c.op = "Scan" /\ c.systems \in ScanLists /\ c.system \in Systems
      /\ sense' \in {"NORMAL", "INV"} /\ UNCHANGED autoSpectrum
  BY DEF ThreadOK, CallShape, ScanOn, ScanFrequency, Notify, ScanOff, At, ScanPcs, Records, Calls
<1>l. /\ c.systems[1] \in Systems
      /\ Len(c.systems) = 2 => c.systems[2] \in Systems
  BY <1>c DEF ScanLists, Systems
<1>r. ASSUME NEW r \in {"OK"} \cup Errors, Return(t, r) PROVE Acts(t)
  BY <1>c, <1>r, Returning DEF TuneOps
<1>s. ASSUME NEW p \in {"rf", "scan_rf", "scan_off"}, NEW s \in Systems, UNCHANGED returned,
             call' = [call EXCEPT ![t].pc = p, ![t].system = s] PROVE Acts(t)
  <2> DEFINE d == [c EXCEPT !.pc = p, !.system = s]
  <2>1. [call EXCEPT ![t].pc = p, ![t].system = s] = [call EXCEPT ![t] = d]
    BY DEF Records
  <2>2. call' = [call EXCEPT ![t] = d]
    BY <1>s, <2>1
  <2>3. d \in Calls /\ d.pc = p /\ d.op = "Scan" /\ d.system = s
        /\ d.bandWidth = c.bandWidth /\ d.systems = c.systems
    BY <1>c DEF Calls, ScanPcs
  <2> HIDE DEF d
  <2> QED BY <1>c, <1>s, <2>2, <2>3, ScanGoing
<1>e. ASSUME NEW r \in {"OK"} \cup Errors, UNCHANGED returned,
             call' = [call EXCEPT ![t].pc = "scan_off", ![t].result = r] PROVE Acts(t)
  <2> DEFINE d == [c EXCEPT !.pc = "scan_off", !.result = r]
  <2>1. [call EXCEPT ![t].pc = "scan_off", ![t].result = r] = [call EXCEPT ![t] = d]
    BY DEF Records
  <2>2. call' = [call EXCEPT ![t] = d]
    BY <1>e, <2>1
  <2>3. d \in Calls /\ d.pc = "scan_off" /\ d.op = "Scan" /\ d.system = c.system
        /\ d.bandWidth = c.bandWidth /\ d.systems = c.systems
    BY <1>c DEF Calls, ScanPcs
  <2> HIDE DEF d
  <2> QED BY <1>c, <1>e, <2>2, <2>3, ScanGoing
<1>1. CASE ScanOn(t)
  <2>1. CASE Goto(t, "scan_rf")
    BY <1>c, <2>1, GotoActs
  <2>2. CASE \E r \in {"I2C", "SW_STATE"} : Return(t, r)
    BY <1>c, <1>r, <2>2 DEF Errors
  <2> QED BY <1>1, <1>c, <2>1, <2>2 DEF ScanOn
<1>2. CASE ScanFrequency(t)
  <2>1. CASE call' = [call EXCEPT ![t].pc = "rf", ![t].system = call[t].systems[1]]
    BY <1>2, <1>c, <1>l, <1>s, <2>1 DEF ScanFrequency
  <2>2. CASE call' = [call EXCEPT ![t].pc = "scan_off", ![t].result = "I2C"]
    BY <1>2, <1>c, <1>e, <2>2 DEF ScanFrequency, Errors
  <2> QED BY <1>2, <1>c, <2>1, <2>2 DEF ScanFrequency
<1>3. CASE Notify(t)
  <2>0. UNCHANGED returned
    BY <1>3 DEF Notify
  <2>1. CASE Len(c.systems) = 2 /\ call' = [call EXCEPT ![t].pc = "rf", ![t].system = c.systems[2]]
    BY <1>l, <1>s, <1>c, <2>0, <2>1
  <2>2. CASE \E r \in {"CANCEL", "OK"} : call' = [call EXCEPT ![t].pc = "scan_off", ![t].result = r]
    BY <1>c, <1>e, <2>0, <2>2 DEF Errors
  <2>3. CASE call' = [call EXCEPT ![t].pc = "scan_rf", ![t].left = @ - 1]
    <3> DEFINE n == c.left - 1
               d == [c EXCEPT !.pc = "scan_rf", !.left = n]
    <3>1. [call EXCEPT ![t].pc = "scan_rf", ![t].left = @ - 1] = [call EXCEPT ![t] = d]
      BY DEF Records
    <3>2. call' = [call EXCEPT ![t] = d]
      BY <2>3, <3>1
    <3>n. n \in Int
      BY <1>c DEF Calls
    <3> HIDE DEF n
    <3>3. d \in Calls /\ d.pc = "scan_rf" /\ d.op = "Scan" /\ d.system = c.system
          /\ d.bandWidth = c.bandWidth /\ d.systems = c.systems
      BY <1>c, <3>n DEF Calls, ScanPcs
    <3> HIDE DEF d
    <3> QED BY <1>c, <2>0, <3>2, <3>3, ScanGoing
  <2> QED BY <1>3, <1>c, <2>1, <2>2, <2>3 DEF Notify
<1>4. CASE ScanOff(t)
  <2>1. c.result \in {"OK"} \cup Errors
    BY <1>c DEF Calls
  <2> QED BY <1>4, <1>c, <1>r, <2>1 DEF ScanOff, Errors
<1> QED BY <1>1, <1>2, <1>3, <1>4

\* A step of thread t: the demodulator driver keeps its invariant, t knows what
\* it knew, and the wait for a transport stream leaves the demodulator alone.
LEMMA StepActs ==
  ASSUME DemodInv, Records, NEW t \in Threads, ThreadOK(t), Step(t)
  PROVE  /\ DemodInv' /\ Acts(t) /\ UNCHANGED autoSpectrum
         /\ call[t].op # "none" /\ (call[t].op = "WaitTSLock" => UNCHANGED demod)
<1>w. call[t].op = "WaitTSLock" => call[t].pc \in TsWaits
  BY DEF ThreadOK, CallShape
<1>1. CASE TuneRf(t) \/ EnableAcquisition(t)
  BY <1>1, QuietInv, TuneRfActs, EnableAcquisitionActs
     DEF TuneRf, EnableAcquisition, QuietDemod, At, ThreadOK, CallShape
<1>2. CASE DoDemodTune(t)
  BY <1>2, <1>w, DoDemodTuneActs DEF DoDemodTune, At, ThreadOK, CallShape, TsWaits
<1>3. CASE WaitDemodLock(t) \/ t2_WaitDemodLock(t) \/ PollTsLock(t) \/ LongEchoTsLock(t)
  <2>1. DemodInv' /\ Acts(t) /\ (call[t].op = "WaitTSLock" => UNCHANGED demod)
    BY <1>3, <1>w, DemodWaitActs
  <2>2. UNCHANGED autoSpectrum /\ call[t].op # "none"
    BY <1>3 DEF WaitDemodLock, t2_WaitDemodLock, PollTsLock, LongEchoTsLock, T2PollFails, FlipSense,
       RestoreSense, NoT2P1, At, ThreadOK, CallShape
  <2> QED BY <2>1, <2>2
<1>4. CASE LongEchoInit(t) \/ LongEchoStart(t) \/ LongEchoPoll(t)
  <2>1. UNCHANGED autoSpectrum /\ call[t].op # "none"
    BY <1>4 DEF LongEchoInit, LongEchoStart, LongEchoPoll, At, ThreadOK, CallShape
  <2> QED BY <1>4, <1>w, <2>1, LongEchoActs
<1>5. CASE StartTsWait(t)
  <2>0. sense' \in {"NORMAL", "INV"} /\ UNCHANGED <<autoSpectrum, demod>> /\ DemodInv'
        /\ call[t].pc = "ts" /\ call[t].op # "none"
    BY <1>5, QuietInv DEF StartTsWait, QuietDemod, At, Records, ThreadOK, CallShape
  <2>1. CASE Return(t, "ARG")
    BY <2>0, <2>1, Returning DEF Errors
  <2>2. CASE \E p \in {"ts_poll", "le_ts"} : Goto(t, p)
    BY <2>0, <2>2, GotoActs
  <2> QED BY <1>5, <2>0, <2>1, <2>2 DEF StartTsWait, EndWait
<1>6. CASE ScanOn(t) \/ ScanFrequency(t) \/ Notify(t) \/ ScanOff(t)
  BY <1>6, QuietInv, ScanActs DEF ScanOn, ScanFrequency, Notify, ScanOff
<1> QED BY <1>1, <1>2, <1>3, <1>4, <1>5, <1>6 DEF Step

-----------------------------------------------------------------------------
(* The operations of the integration driver, and what one thread that      *)
(* calls it, while any other may cancel, can rely on.                      *)

\* A thread that stays out of the driver, its last result forgotten.
LEMMA StaysOut ==
  ASSUME Records, sense' = sense, NEW t \in Threads, ThreadOK(t), At(t, "idle"),
         UNCHANGED call, returned' = [returned EXCEPT ![t] = Nothing]
  PROVE  Acts(t)
<1>1. call' = [call EXCEPT ![t] = call[t]] /\ sense' \in {"NORMAL", "INV"}
  BY DEF Records
<1>2. CallShape(call[t]) /\ call[t].pc = "idle"
  BY DEF ThreadOK, At
<1>3. CallFacts(call[t], demod', autoSpectrum')
  BY <1>2 DEF CallFacts, TsWaits, DemodWaits, T2Waits
<1>4. Nothing \in Results /\ ReturnFacts(call[t], Nothing, demod')
  BY DEF ReturnFacts, Results, Nothing, Systems
<1> QED BY <1>1, <1>2, <1>3, <1>4, Going

\* A thread that enters an operation.
LEMMA BeginActs ==
  ASSUME DemodInv, Records, NEW t \in Threads, ThreadOK(t), NEW c, Begin(t, c), CallShape(c),
         c.pc \in {"rf", "scan_on"} \/ c.op = "WaitTSLock"
  PROVE  DemodInv' /\ Acts(t)
<1>1. call' = [call EXCEPT ![t] = c] /\ returned' = [returned EXCEPT ![t] = Nothing]
      /\ sense' \in {"NORMAL", "INV"} /\ DemodInv'
  BY QuietInv DEF Begin, Records
<1>2. CallFacts(c, demod', autoSpectrum')
  BY DEF CallFacts, TsWaits, DemodWaits, T2Waits, CallShape
<1>3. Nothing \in Results /\ ReturnFacts(c, Nothing, demod')
  BY DEF ReturnFacts, Results, Nothing, Systems
<1> QED BY <1>1, <1>2, <1>3, Going

\* The calls that start.
TuneCall(op, s, bw) == [Idle EXCEPT !.op = op, !.pc = "rf", !.system = s, !.bandWidth = bw]
WaitCall == [Idle EXCEPT !.op = "WaitTSLock", !.pc = "ts"]
ScanCall(s, bw, lists) ==
  [Idle EXCEPT !.op = "Scan", !.pc = "scan_on", !.system = s, !.bandWidth = bw,
               !.systems = lists, !.left = Frequencies]

LEMMA StartShapes ==
  /\ \A op \in TuneOps, s \in Systems, bw \in Bandwidths :
       LET c == TuneCall(op, s, bw)
       IN  CallShape(c) /\ c.pc = "rf" /\ c.op = op /\ c.system = s
  /\ CallShape(WaitCall) /\ WaitCall.op = "WaitTSLock"
  /\ \A s \in Systems, bw \in Bandwidths, lists \in ScanLists :
       CallShape(ScanCall(s, bw, lists)) /\ ScanCall(s, bw, lists).pc = "scan_on"
<1>1. ASSUME NEW op \in TuneOps, NEW s \in Systems, NEW bw \in Bandwidths
      PROVE  LET c == TuneCall(op, s, bw)
             IN  CallShape(c) /\ c.pc = "rf" /\ c.op = op /\ c.system = s
  <2> DEFINE c == TuneCall(op, s, bw)
             c1 == [Idle EXCEPT !.op = op]
             c2 == [c1 EXCEPT !.pc = "rf"]
             c3 == [c2 EXCEPT !.system = s]
  <2>a. c = [c3 EXCEPT !.bandWidth = bw]
    BY DEF TuneCall
  <2>b. c1 = [op |-> op, pc |-> "idle", system |-> "UNKNOWN", bandWidth |-> "none", polls |-> 0, trial |-> 0,
              senseFound |-> "NORMAL", systems |-> << >>, left |-> 0, result |-> "OK"]
    BY DEF Idle
  <2> HIDE DEF c1
  <2>c. c2 = [op |-> op, pc |-> "rf", system |-> "UNKNOWN", bandWidth |-> "none", polls |-> 0, trial |-> 0,
              senseFound |-> "NORMAL", systems |-> << >>, left |-> 0, result |-> "OK"]
    BY <2>b
  <2> HIDE DEF c2
  <2>d. c3 = [op |-> op, pc |-> "rf", system |-> s, bandWidth |-> "none", polls |-> 0, trial |-> 0,
              senseFound |-> "NORMAL", systems |-> << >>, left |-> 0, result |-> "OK"]
    BY <2>c
  <2> HIDE DEF c3, c
  <2>1. c = [op |-> op, pc |-> "rf", system |-> s, bandWidth |-> bw, polls |-> 0, trial |-> 0,
             senseFound |-> "NORMAL", systems |-> << >>, left |-> 0, result |-> "OK"]
    BY <2>a, <2>d
  <2>2. c \in Calls
    BY <2>1 DEF Calls, TuneOps
  <2>3. c.pc = "rf" /\ c.op = op /\ c.system = s /\ c.bandWidth = bw
    BY <2>1
  <2>4. CallShape(c)
    BY <2>2, <2>3 DEF CallShape, TuneOps, TsWaits, DemodWaits, T2Waits, ScanPcs
  <2> QED BY <2>3, <2>4 DEF c
<1>2. CallShape(WaitCall) /\ WaitCall.op = "WaitTSLock"
  <2> DEFINE c1 == [Idle EXCEPT !.op = "WaitTSLock"]
  <2>a. WaitCall = [c1 EXCEPT !.pc = "ts"]
    BY DEF WaitCall
  <2>b. c1 = [op |-> "WaitTSLock", pc |-> "idle", system |-> "UNKNOWN", bandWidth |-> "none", polls |-> 0, trial |-> 0,
              senseFound |-> "NORMAL", systems |-> << >>, left |-> 0, result |-> "OK"]
    BY DEF Idle
  <2> HIDE DEF c1
  <2>1. WaitCall = [op |-> "WaitTSLock", pc |-> "ts", system |-> "UNKNOWN", bandWidth |-> "none", polls |-> 0, trial |-> 0,
              senseFound |-> "NORMAL", systems |-> << >>, left |-> 0, result |-> "OK"]
    BY <2>a, <2>b
  <2>2. WaitCall \in Calls
    BY <2>1 DEF Calls, TsWaits
  <2>3. WaitCall.pc = "ts" /\ WaitCall.op = "WaitTSLock"
    BY <2>1
  <2> QED BY <2>2, <2>3 DEF CallShape, TuneOps, TsWaits, DemodWaits, T2Waits, ScanPcs
<1>3. ASSUME NEW s \in Systems, NEW bw \in Bandwidths, NEW lists \in ScanLists
      PROVE  CallShape(ScanCall(s, bw, lists)) /\ ScanCall(s, bw, lists).pc = "scan_on"
  <2> DEFINE c == ScanCall(s, bw, lists)
             c1 == [Idle EXCEPT !.op = "Scan"]
             c2 == [c1 EXCEPT !.pc = "scan_on"]
             c3 == [c2 EXCEPT !.system = s]
             c4 == [c3 EXCEPT !.bandWidth = bw]
             c5 == [c4 EXCEPT !.systems = lists]
  <2>a. c = [c5 EXCEPT !.left = Frequencies]
    BY DEF ScanCall
  <2>b. c1 = [op |-> "Scan", pc |-> "idle", system |-> "UNKNOWN", bandWidth |-> "none", polls |-> 0, trial |-> 0,
              senseFound |-> "NORMAL", systems |-> << >>, left |-> 0, result |-> "OK"]
    BY DEF Idle
  <2> HIDE DEF c1
  <2>c. c2 = [op |-> "Scan", pc |-> "scan_on", system |-> "UNKNOWN", bandWidth |-> "none", polls |-> 0, trial |-> 0,
              senseFound |-> "NORMAL", systems |-> << >>, left |-> 0, result |-> "OK"]
    BY <2>b
  <2> HIDE DEF c2
  <2>d. c3 = [op |-> "Scan", pc |-> "scan_on", system |-> s, bandWidth |-> "none", polls |-> 0, trial |-> 0,
              senseFound |-> "NORMAL", systems |-> << >>, left |-> 0, result |-> "OK"]
    BY <2>c
  <2> HIDE DEF c3
  <2>e. c4 = [op |-> "Scan", pc |-> "scan_on", system |-> s, bandWidth |-> bw, polls |-> 0, trial |-> 0,
              senseFound |-> "NORMAL", systems |-> << >>, left |-> 0, result |-> "OK"]
    BY <2>d
  <2> HIDE DEF c4
  <2>f. c5 = [op |-> "Scan", pc |-> "scan_on", system |-> s, bandWidth |-> bw, polls |-> 0, trial |-> 0,
              senseFound |-> "NORMAL", systems |-> lists, left |-> 0, result |-> "OK"]
    BY <2>e
  <2> HIDE DEF c5, c
  <2>1. c = [op |-> "Scan", pc |-> "scan_on", system |-> s, bandWidth |-> bw, polls |-> 0, trial |-> 0,
              senseFound |-> "NORMAL", systems |-> lists, left |-> Frequencies, result |-> "OK"]
    BY <2>a, <2>f
  <2>i. Frequencies \in Int
    BY PollsAssumption
  <2>2. c \in Calls
    BY <2>1, <2>i DEF Calls, ScanPcs
  <2>3. c.pc = "scan_on" /\ c.op = "Scan" /\ c.system = s /\ c.bandWidth = bw /\ c.systems = lists
    BY <2>1
  <2>4. CallShape(c)
    BY <2>2, <2>3 DEF CallShape, TuneOps, TsWaits, DemodWaits, T2Waits, ScanPcs
  <2> QED BY <2>3, <2>4 DEF c
<1> QED BY <1>1, <1>2, <1>3

LEMMA OperationActs ==
  ASSUME DemodInv, Records, NEW t \in Threads, ThreadOK(t), Operation(t)
  PROVE  DemodInv' /\ Acts(t) /\ At(t, "idle")
<1>1. CASE dvb_cxd2820_Initialize(t) \/ dvb_cxd2820_Finalize(t) \/ dvb_cxd2820_Sleep(t)
  BY <1>1, CallsKeep, StaysOut DEF dvb_cxd2820_Initialize, dvb_cxd2820_Finalize, dvb_cxd2820_Sleep
<1>2. CASE Configure(t)
  BY <1>2, CallsKeep, QuietInv, StaysOut DEF Configure
<1>3. ASSUME NEW s \in Systems, NEW bw \in Bandwidths, NEW op \in {"BlindTune", "Tune"}, StartTune(t, op, s, bw)
      PROVE  DemodInv' /\ Acts(t) /\ At(t, "idle")
  <2> DEFINE c == TuneCall(op, s, bw)
  <2>1. CallShape(c) /\ c.pc = "rf"
    BY StartShapes DEF TuneOps
  <2>2. Begin(t, c)
    BY <1>3 DEF StartTune, TuneCall
  <2> HIDE DEF c
  <2> QED BY <2>1, <2>2, BeginActs DEF Begin
<1>4. ASSUME NEW s \in Systems, NEW bw \in Bandwidths, NEW multiple \in BOOLEAN,
             dvb_cxd2820_Scan(t, s, multiple, bw)
      PROVE  DemodInv' /\ Acts(t) /\ At(t, "idle")
  <2> DEFINE lists == IF multiple THEN <<s, IF s = "DVBT2" THEN "DVBT" ELSE "DVBT2">> ELSE <<s>>
             c == ScanCall(s, bw, lists)
  <2>1. lists \in ScanLists
    BY <1>4 DEF dvb_cxd2820_Scan, ScanLists, Systems
  <2>2. Begin(t, c)
    BY <1>4 DEF dvb_cxd2820_Scan, ScanCall
  <2> HIDE DEF lists
  <2>3. CallShape(c) /\ c.pc = "scan_on"
    BY <2>1, StartShapes
  <2> HIDE DEF c
  <2> QED BY <2>2, <2>3, BeginActs DEF Begin
<1>5. CASE dvb_cxd2820_WaitTSLock(t)
  <2>1. Begin(t, WaitCall)
    BY <1>5 DEF dvb_cxd2820_WaitTSLock, WaitCall
  <2> QED BY <2>1, StartShapes, BeginActs DEF Begin
<1> QED BY <1>1, <1>2, <1>3, <1>4, <1>5 DEF Operation

OneCaller == \A t, u \in Threads : t = u
DriverInv == DemodInv /\ Records /\ \A t \in Threads : ThreadOK(t)

LEMMA DriverInitInv == DriverInit => DriverInv
<1> SUFFICES ASSUME DriverInit PROVE DriverInv
  OBVIOUS
<1>1. DemodInv
  BY InitInv DEF DriverInit
<1>2. Records
  BY IdleShape DEF DriverInit, Records, CallShape, Results, Nothing
<1>3. ASSUME NEW t \in Threads PROVE ThreadOK(t)
  <2>1. call[t] = Idle /\ returned[t] = Nothing
    BY DEF DriverInit
  <2> QED BY <2>1, IdleShape
          DEF ThreadOK, CallFacts, ReturnFacts, Nothing, Systems, DemodWaits, T2Waits, TsWaits
<1> QED BY <1>1, <1>2, <1>3 DEF DriverInv

LEMMA DriverStep == ASSUME OneCaller, DriverInv, [DriverNext]_allVars PROVE DriverInv'
<1>1. ASSUME NEW t \in Threads, Operation(t) \/ Step(t) PROVE DriverInv'
  <2>1. DemodInv' /\ Acts(t)
    BY <1>1, OperationActs, StepActs DEF DriverInv
  <2> QED BY <2>1 DEF OneCaller, Acts, DriverInv
<1>2. CASE dvb_cxd2820_Cancel \/ UNCHANGED allVars
  <2>1. DemodInv'
    BY <1>2, QuietInv, InvStep DEF dvb_cxd2820_Cancel, allVars, DriverInv
  <2>2. UNCHANGED <<call, returned, sense, autoSpectrum, demod>>
    BY <1>2 DEF dvb_cxd2820_Cancel, QuietDemod, allVars, driverVars, vars
  <2> QED BY <2>1, <2>2 DEF DriverInv, Records, ThreadOK
<1> QED BY <1>1, <1>2 DEF DriverNext

\* AcquiredRuns: with one thread that calls the driver and others that cancel, an
\* acquisition that was reported as successful has left the front end with the
\* system that was asked for, until the next call.
THEOREM AcquiredAlwaysRuns ==
  ASSUME OneCaller PROVE DriverSpec => []AcquiredRuns
<1>1. DriverInv => AcquiredRuns
  BY DEF DriverInv, AcquiredRuns, ThreadOK, ReturnFacts, DemodInv, BelievedSystemRuns, Ready, Systems
<1>2. DriverInv /\ [DriverNext]_allVars => DriverInv'
  BY DriverStep
<1> QED BY DriverInitInv, <1>1, <1>2, PTL DEF DriverSpec

\* A wait that ends with r returns r, or the thread goes on in its scan.
LEMMA EndsWith ==
  ASSUME Records, NEW t \in Threads, call[t].pc = "t2_poll", NEW r, EndTune(t, r), returned'[t] = "UNLOCK",
         returned[t] # "UNLOCK"
  PROVE  r = "UNLOCK" \/ (r = "OK" /\ call[t].system = "UNLOCK")
<1>1. UNCHANGED returned \/ Return(t, r)
  BY DEF EndTune
<1> QED BY <1>1 DEF Return, Records, Nothing

\* SenseRestored: with one thread that calls the driver and others that cancel, a
\* wait for DVB-T2 that found no P1 in either spectrum sense leaves the sense as
\* it found it.
THEOREM SenseAlwaysRestored ==
  ASSUME OneCaller PROVE DriverSpec => SenseRestored
<1>1. ASSUME DriverInv, [DriverNext]_allVars, NEW t \in Threads,
             At(t, "t2_poll"), call[t].trial = 1, call[t].polls + 1 = P1Poll,
             call'[t].pc # "t2_poll", returned'[t] = "UNLOCK"
      PROVE  sense' = call[t].senseFound
  <2>1. /\ CallShape(call[t]) /\ call[t].pc = "t2_poll" /\ call[t].op # "none" /\ call[t].op # "WaitTSLock"
        /\ returned[t] # "UNLOCK" /\ call[t].system = "DVBT2" /\ call[t].polls \in Nat
    BY <1>1 DEF DriverInv, ThreadOK, ReturnFacts, CallShape, Calls, At, TsWaits, T2Waits, Nothing
  <2>2. Awake /\ demod.system = "DVBT2" /\ autoSpectrum
    BY <1>1, <2>1 DEF DriverInv, ThreadOK, CallFacts, At, DemodWaits, T2Waits, Awake
  <2>3. P1Poll < T2P1Poll /\ P1Poll \in Nat /\ T2P1Poll \in Nat /\ MaxPolls \in Nat
    BY PollsAssumption
  <2>4. ASSUME NEW r \in {"OK", "I2C", "CANCEL", "TIMEOUT"}, Finish(t, r) PROVE FALSE
    <3>1. EndTune(t, r)
      BY <2>1, <2>4 DEF Finish, TsWaits
    <3> QED BY <1>1, <2>1, <3>1, EndsWith DEF DriverInv
  <2>5. ~KeepPolling(t)
    <3>1. CASE returned' = returned
      BY <1>1, <2>1, <3>1
    <3>2. CASE returned' # returned
      BY <2>4, <3>2 DEF KeepPolling
    <3> QED BY <3>1, <3>2
  <2>6. PICK u \in Threads : Operation(u) \/ Step(u)
    <3>1. call' # call
      BY <1>1 DEF At
    <3> QED BY <1>1, <3>1 DEF DriverNext, dvb_cxd2820_Cancel, allVars, driverVars
  <2>7. u = t
    BY DEF OneCaller
  <2>8. ~Operation(t)
    BY <1>1, <2>1, OperationActs DEF DriverInv, At
  <2>9. t2_WaitDemodLock(t)
    BY <2>1, <2>6, <2>7, <2>8 DEF Step, TuneRf, EnableAcquisition, DoDemodTune, WaitDemodLock, LongEchoInit,
       LongEchoStart, LongEchoPoll, StartTsWait, PollTsLock, LongEchoTsLock, ScanOn, ScanFrequency,
       Notify, ScanOff, At
  <2>10. ~T2PollFails(t)
    BY <2>4 DEF T2PollFails
  <2>11. ~FlipSense(t)
    BY <1>1 DEF FlipSense
  <2>12. ~NoT2P1(t)
    BY <1>1, <2>1, <2>3 DEF NoT2P1
  <2>13. ASSUME NEW lock \in DemodLocks \ {"I2C"}, LockedOr(t, lock) PROVE FALSE
    BY <2>2, <2>4, <2>5, <2>13 DEF DemodLocks, LockedOr
  <2>14. RestoreSense(t)
    BY <2>9, <2>10, <2>11, <2>12, <2>13 DEF t2_WaitDemodLock
  <2> QED BY <2>2, <2>14 DEF RestoreSense
<1>2. DriverInv /\ [DriverNext]_allVars => DriverInv'
  BY DriverStep
<1>3. DriverInv /\ [DriverNext]_allVars =>
        [\A t \in Threads :
           At(t, "t2_poll") /\ call[t].trial = 1 /\ call[t].polls + 1 = P1Poll
             /\ call'[t].pc # "t2_poll" /\ returned'[t] = "UNLOCK" =>
           sense' = call[t].senseFound]_allVars
  BY <1>1
<1> QED BY DriverInitInv, <1>2, <1>3, PTL DEF DriverSpec, SenseRestored

-----------------------------------------------------------------------------
(* The tuner.  Only Main moves the demodulator: the checking threads wait  *)
(* for the transport stream.  The edge that is remembered is the one slave *)
(* T2 has been given last.                                                 *)

InInit == {"init_echo", "init_latch"}
InLock == {"sleep", "latch", "tune", "tuning"}

MainInv ==
  /\ Main \in Threads /\ ThreadOK(Main)
  /\ call[Main].op \in {"none", "BlindTune"}
  /\ call[Main].op = "BlindTune" => pc = "tuning" /\ call[Main].system = want

CheckersInv ==
  \A t \in Checkers :
    ThreadOK(t) /\ call[t].op \in {"none", "WaitTSLock"} /\ returned[t] \notin Systems

EdgeInv ==
  /\ oldEdge \in 0..2 /\ latch \in [Slaves -> 0..1]
  /\ oldEdge # 2 => latch["DVBT2"] = oldEdge
  /\ pc \in {"tune", "tuning"} => oldEdge = EdgeOf(want)

WantInv ==
  /\ pc \in {"idle"} \cup InInit \cup InLock
  /\ pc \in InLock => want \in Slaves

InitInvariant ==
  /\ pc \in InInit => ~initDone
  /\ ~initDone => oldEdge = 2 /\ (pc \notin InInit => ~Ready)

LockedInv ==
  locked # "UNKNOWN" =>
    /\ pc = "idle" /\ locked \in Slaves /\ oldEdge = EdgeOf(locked)
    /\ demod.state = "ACTIVE" /\ demod.system = locked

TunerInv ==
  /\ DemodInv /\ Records /\ MainInv /\ CheckersInv
  /\ EdgeInv /\ WantInv /\ InitInvariant /\ LockedInv

LEMMA EdgeValues == \A s \in Slaves : EdgeOf(s) \in {0, 1}
  BY DEF EdgeOf

LEMMA TunerInitInv == TunerInit => TunerInv
<1> SUFFICES ASSUME TunerInit PROVE TunerInv
  OBVIOUS
<1>1. DriverInv
  BY DriverInitInv DEF TunerInit
<1>2. /\ \A t \in Threads : call[t] = Idle /\ returned[t] = Nothing
      /\ demod.state = "UNKNOWN"
  BY DEF TunerInit, DriverInit, Init, Cleared
<1>3. MainInv /\ CheckersInv
  BY <1>1, <1>2, IdleShape, MainAssumption
     DEF MainInv, CheckersInv, Checkers, DriverInv, ThreadOK, Results, Systems, Nothing
<1>4. EdgeInv /\ WantInv /\ InitInvariant /\ LockedInv
  BY <1>2 DEF TunerInit, EdgeInv, WantInv, InitInvariant, LockedInv, InInit, InLock, Ready
<1> QED BY <1>1, <1>3, <1>4 DEF TunerInv, DriverInv

\* A step that leaves the driver's state alone, but for the demodulator's result.
LEMMA DriverStays ==
  ASSUME TunerInv, UNCHANGED <<call, returned, sense, autoSpectrum>>,
         demod'.state = demod.state, demod'.system = demod.system, DemodInv',
         pc = "tuning" /\ pc' # "tuning" => call[Main].op = "none",
         pc = "tuning" => want' = want
  PROVE  Records' /\ MainInv' /\ CheckersInv'
<1>1. Records'
  BY DEF TunerInv, Records
<1>2. MainInv'
  BY DEF TunerInv, MainInv, ThreadOK, CallFacts, ReturnFacts
<1>3. CheckersInv'
  BY DEF TunerInv, CheckersInv, ThreadOK, CallFacts, ReturnFacts
<1> QED BY <1>1, <1>2, <1>3

\* What the checking threads know when another has acted.
LEMMA OthersStay ==
  ASSUME TunerInv, NEW t \in Threads, Acts(t), NEW u \in Checkers, u # t
  PROVE  ThreadOK(u)' /\ call'[u].op \in {"none", "WaitTSLock"} /\ returned'[u] \notin Systems
<1>1. /\ call'[u] = call[u] /\ returned'[u] = returned[u] /\ CallShape(call[u])
      /\ call[u].op \in {"none", "WaitTSLock"} /\ returned[u] \notin Systems
      /\ ReturnFacts(call[u], returned[u], demod)
  BY DEF TunerInv, CheckersInv, Checkers, Acts, ThreadOK
<1>2. CallFacts(call[u], demod', autoSpectrum')
  BY <1>1 DEF CallFacts, CallShape, TsWaits, DemodWaits, T2Waits
<1> QED BY <1>1, <1>2 DEF ThreadOK, ReturnFacts

\* A thread in its operation keeps to it and to its system, or leaves it.
KeepsCall(t) ==
  /\ \/ call'[t].op = "none"
     \/ call'[t].op = call[t].op /\ call'[t].system = call[t].system
  /\ call[t].op = "WaitTSLock" => returned'[t] \in {returned[t], Nothing} \cup Errors

LEMMA KeepReturn ==
  ASSUME Records, NEW t \in Threads, NEW r \in {"OK"} \cup Errors, Return(t, r)
  PROVE  KeepsCall(t)
  BY IdleShape DEF Return, KeepsCall, Records

LEMMA KeepGoto ==
  ASSUME Records, NEW t \in Threads, NEW p, Goto(t, p)
  PROVE  KeepsCall(t)
  BY DEF Goto, KeepsCall, Records, Calls

LEMMA KeepFinish ==
  ASSUME Records, NEW t \in Threads, NEW r \in {"OK"} \cup Errors, Finish(t, r) \/ EndTune(t, r),
         call[t].op \in {"BlindTune", "WaitTSLock"}
  PROVE  KeepsCall(t)
<1>1. Return(t, r)
  BY DEF Finish, EndTune, EndWait
<1> QED BY <1>1, KeepReturn

LEMMA KeepPollingKeeps ==
  ASSUME Records, NEW t \in Threads, KeepPolling(t), call[t].op \in {"BlindTune", "WaitTSLock"}
  PROVE  KeepsCall(t)
<1>1. CASE \E r \in {"CANCEL", "TIMEOUT"} : Finish(t, r)
  BY <1>1, KeepFinish DEF Errors
<1>2. CASE call' = [call EXCEPT ![t].polls = @ + 1] /\ UNCHANGED returned
  BY <1>2 DEF KeepsCall, Records, Calls
<1> QED BY <1>1, <1>2 DEF KeepPolling

LEMMA StepKeepsCall ==
  ASSUME DemodInv, Records, NEW t \in Threads, ThreadOK(t), Step(t),
         call[t].op \in {"BlindTune", "WaitTSLock"}
  PROVE  KeepsCall(t)
<1>f. \A r \in {"OK"} \cup Errors : Finish(t, r) \/ EndTune(t, r) => KeepsCall(t)
  BY KeepFinish
<1>l. ASSUME NEW lock, LockedOr(t, lock) PROVE KeepsCall(t)
  BY <1>f, <1>l, KeepPollingKeeps DEF LockedOr, Errors
<1>r. \A r \in {"OK"} \cup Errors : Return(t, r) => KeepsCall(t)
  BY KeepReturn
<1>1. CASE TuneRf(t) \/ EnableAcquisition(t)
  BY <1>1, <1>r, KeepGoto DEF TuneRf, EnableAcquisition, Errors
<1>2. CASE DoDemodTune(t)
  <2>1. CASE result' = "OK"
    BY <1>2, <2>1 DEF DoDemodTune, KeepsCall, Records, Calls
  <2>2. CASE result' # "OK"
    <3>1. call[t].pc = "tune" /\ CallShape(call[t]) /\ call[t].op = "BlindTune"
      BY <1>2 DEF DoDemodTune, ThreadOK, CallShape, At, TsWaits
    <3>2. result' \in Errors
      BY <1>2, <2>2, <3>1, TuneOk DEF DoDemodTune, Errors, CallShape, Calls, TuneOps
    <3> QED BY <1>2, <2>2, <3>2, <1>f DEF DoDemodTune
  <2> QED BY <2>1, <2>2
<1>3. CASE WaitDemodLock(t) \/ PollTsLock(t)
  BY <1>3, <1>l, KeepPollingKeeps DEF WaitDemodLock, PollTsLock
<1>4. CASE t2_WaitDemodLock(t)
  <2>1. CASE FlipSense(t)
    BY <2>1 DEF FlipSense, KeepsCall, Records, Calls
  <2> QED BY <1>4, <2>1, <1>f, <1>l DEF t2_WaitDemodLock, T2PollFails, RestoreSense, NoT2P1, Errors
<1>5. CASE LongEchoInit(t) \/ LongEchoStart(t)
  <2>1. LongEchoStart(t) => result' \in {"OK", "I2C", "SW_STATE"}
    BY SoftResetFacts DEF LongEchoStart
  <2>2. \E r \in {"OK", "I2C", "SW_STATE"}, p \in {"le_start", "le_poll"} : Turned(t, r, p)
    BY <1>5, <2>1 DEF LongEchoInit, LongEchoStart
  <2> QED BY <2>2, <1>f, KeepGoto DEF Turned, Errors
<1>6. CASE LongEchoPoll(t) \/ LongEchoTsLock(t)
  <2>1. CASE \E r \in {"OK", "UNLOCK", "I2C", "SW_STATE", "CANCEL"} : Finish(t, r)
    BY <2>1, <1>f DEF Errors
  <2>2. CASE KeepPolling(t)
    BY <2>2, KeepPollingKeeps
  <2>3. CASE call' = [call EXCEPT ![t].pc = "le_start", ![t].polls = @ + 1] /\ UNCHANGED returned
    BY <2>3 DEF KeepsCall, Records, Calls
  <2> QED BY <1>6, <2>1, <2>2, <2>3 DEF LongEchoPoll, LongEchoTsLock
<1>7. CASE StartTsWait(t)
  BY <1>7, <1>r, KeepGoto DEF StartTsWait, EndWait, Errors
<1>8. ~(ScanOn(t) \/ ScanFrequency(t) \/ Notify(t) \/ ScanOff(t))
  BY ScanActs
<1> QED BY <1>1, <1>2, <1>3, <1>4, <1>5, <1>6, <1>7, <1>8 DEF Step

-----------------------------------------------------------------------------
(* The steps of the tuner.                                                 *)

\* The callbacks, and a lock that is asked for.
LEMMA QuietTunerStep ==
  ASSUME TunerInv, DriverRests, UNCHANGED <<latch, oldEdge, initDone>>,
         \/ UNCHANGED <<pc, want, locked>>
         \/ /\ pc = "idle" /\ want' \in Slaves /\ locked' = "UNKNOWN"
            /\ pc' = IF oldEdge # EdgeOf(want') THEN "sleep" ELSE "tune"
         \/ /\ pc = "tuning" /\ pc' = "idle" /\ UNCHANGED want /\ call[Main].op = "none"
            /\ (returned[Main] = want /\ locked' = want) \/ UNCHANGED locked
  PROVE  TunerInv'
<1>1. DemodInv' /\ UNCHANGED <<call, returned, sense, autoSpectrum, demod>>
  BY QuietInv DEF TunerInv, DriverRests, QuietDemod, driverVars
<1>2. Records' /\ MainInv' /\ CheckersInv'
  <2>1. CASE UNCHANGED <<pc, want, locked>>
    BY <1>1, <2>1, DriverStays
  <2>2. CASE pc = "idle"
    <3>1. call[Main].op = "none"
      BY <2>2 DEF TunerInv, MainInv
    <3> QED BY <1>1, <2>2, <3>1, DriverStays
  <2>3. CASE pc = "tuning" /\ UNCHANGED want /\ call[Main].op = "none"
    BY <1>1, <2>3, DriverStays
  <2> QED BY <2>1, <2>2, <2>3
<1>3. EdgeInv' /\ WantInv' /\ InitInvariant'
  BY <1>1, EdgeValues DEF TunerInv, EdgeInv, WantInv, InitInvariant, InInit, InLock, Ready
<1>4. LockedInv'
  <2>1. CASE UNCHANGED <<pc, want, locked>>
    BY <1>1, <2>1 DEF TunerInv, LockedInv
  <2>2. CASE locked' = "UNKNOWN"
    BY <2>2 DEF LockedInv
  <2>3. CASE pc = "tuning" /\ pc' = "idle" /\ locked' = want /\ returned[Main] = want
    <3>1. want \in Slaves /\ oldEdge = EdgeOf(want)
      BY <2>3 DEF TunerInv, WantInv, EdgeInv, InLock
    <3>2. demod.state = "ACTIVE" /\ demod.system = want
      BY <2>3, <3>1 DEF TunerInv, MainInv, ThreadOK, ReturnFacts, Slaves, Systems
    <3> QED BY <1>1, <2>3, <3>1, <3>2 DEF LockedInv
  <2>4. CASE pc = "tuning" /\ UNCHANGED locked
    BY <2>4 DEF TunerInv, LockedInv
  <2> QED BY <2>1, <2>2, <2>3, <2>4
<1> QED BY <1>1, <1>2, <1>3, <1>4 DEF TunerInv

\* A step in which Main acts on the driver and stays out of locked states.
LEMMA MainActs ==
  ASSUME TunerInv, Acts(Main), DemodInv', call'[Main].op \in {"none", "BlindTune"},
         call'[Main].op = "BlindTune" => pc' = "tuning" /\ call'[Main].system = want',
         EdgeInv', WantInv', InitInvariant', LockedInv'
  PROVE  TunerInv'
<1>1. Main \in Threads /\ \A u \in Checkers : u # Main
  BY MainAssumption DEF Checkers
<1>2. Records' /\ MainInv'
  BY <1>1 DEF Acts, MainInv
<1>3. CheckersInv'
  BY <1>1, OthersStay DEF CheckersInv
<1> QED BY <1>2, <1>3 DEF TunerInv

LEMMA TunerInitStep ==
  ASSUME TunerInv, ~Reinit, Tuner_Init PROVE TunerInv'
<1>1. /\ ~initDone /\ pc = "idle" /\ dvb_cxd2820_Initialize(Main) /\ locked' = "UNKNOWN"
      /\ UNCHANGED <<latch, oldEdge, initDone, want>>
      /\ pc' = IF result' = "OK" THEN "init_echo" ELSE "idle"
  BY DEF Tuner_Init
<1>2. DemodInv' /\ Acts(Main) /\ UNCHANGED call
  BY <1>1, OperationActs DEF TunerInv, MainInv, Operation, dvb_cxd2820_Initialize
<1>3. result' # "OK" => ~(demod.state \in {"ACTIVE", "SLEEP"})'
  BY <1>1 DEF dvb_cxd2820_Initialize, dvb_demod_Initialize, Cleared
<1>4. call[Main].op = "none"
  BY <1>1 DEF TunerInv, MainInv
<1>5. EdgeInv' /\ WantInv' /\ InitInvariant' /\ LockedInv'
  BY <1>1, <1>3 DEF TunerInv, EdgeInv, WantInv, InitInvariant, LockedInv, InInit, InLock, Ready
<1> QED BY <1>2, <1>4, <1>5, MainActs

LEMMA EchoStep ==
  ASSUME TunerInv, EnableLongEcho PROVE TunerInv'
<1>1. /\ SetLongEcho(TRUE) /\ UNCHANGED driverVars /\ pc = "init_echo" /\ pc' = "init_latch"
      /\ UNCHANGED <<latch, oldEdge, initDone, want, locked>>
  BY DEF EnableLongEcho, DriverOnly, Then
<1>2. DemodInv' /\ demod'.state = demod.state /\ demod'.system = demod.system
  BY <1>1, CallsKeep DEF TunerInv, SetLongEcho, Refuse, DemodInv, TypeOK
<1>3. Records' /\ MainInv' /\ CheckersInv'
  BY <1>1, <1>2, DriverStays DEF driverVars
<1>4. EdgeInv' /\ WantInv' /\ InitInvariant' /\ LockedInv'
  BY <1>1, <1>2 DEF TunerInv, EdgeInv, WantInv, InitInvariant, LockedInv, InInit, InLock, Ready
<1> QED BY <1>2, <1>3, <1>4 DEF TunerInv

\* An edge that is set reaches both slaves, or fails and has reached slave T at
\* most; only a sleeping demodulator takes it.
LEMMA SetLatchFacts ==
  ASSUME DemodInv, latch \in [Slaves -> 0..1], NEW edge \in {0, 1}, SetLatch(edge)
  PROVE  /\ DemodInv' /\ UNCHANGED demod
         /\ latch' \in [Slaves -> 0..1]
         /\ result' = "OK" => latch'["DVBT2"] = edge /\ demod.state = "SLEEP"
         /\ result' # "OK" => latch'["DVBT2"] = latch["DVBT2"]
<1>1. DemodInv'
  BY CallsKeep DEF SetLatch, SleepOnly
<1>2. UNCHANGED demod /\ (result' = "OK" => demod.state = "SLEEP")
  BY DEF SetLatch, dvb_demod_SetConfig, t2_SetConfig, Refuse, SleepOnly
<1> QED BY <1>1, <1>2 DEF SetLatch, Slaves

LEMMA LatchStep ==
  ASSUME TunerInv, InitLatch \/ ChangeEdge PROVE TunerInv'
<1>0. /\ UNCHANGED <<call, returned, sense, autoSpectrum, want, locked>>
      /\ pc \in {"init_latch", "latch"} /\ pc' \in {"idle", "tune"}
  BY DEF InitLatch, ChangeEdge, DriverOnly, driverVars, Then
<1>1. PICK edge \in {0, 1} : SetLatch(edge) /\ (pc = "latch" => edge = EdgeOf(want))
  BY EdgeValues DEF InitLatch, ChangeEdge, TunerInv, WantInv, InLock
<1>2. /\ DemodInv' /\ UNCHANGED demod /\ latch' \in [Slaves -> 0..1]
      /\ result' = "OK" => latch'["DVBT2"] = edge /\ demod.state = "SLEEP"
      /\ result' # "OK" => latch'["DVBT2"] = latch["DVBT2"]
  BY <1>1, SetLatchFacts DEF TunerInv, EdgeInv
<1>3. Records' /\ MainInv' /\ CheckersInv'
  BY <1>0, <1>2, DriverStays
<1>4. LockedInv'
  BY <1>0 DEF TunerInv, LockedInv
<1>5. CASE InitLatch
  <2>1. oldEdge = 2 /\ oldEdge' = 2 /\ initDone' /\ pc' = "idle"
    BY <1>5 DEF InitLatch, Then, TunerInv, InitInvariant, InInit
  <2>2. EdgeInv' /\ WantInv' /\ InitInvariant'
    BY <1>2, <2>1 DEF EdgeInv, WantInv, InitInvariant, InInit, InLock
  <2> QED BY <1>2, <1>3, <1>4, <2>2 DEF TunerInv
<1>6. CASE ChangeEdge
  <2>1. /\ pc = "latch" /\ edge = EdgeOf(want) /\ UNCHANGED initDone
        /\ pc' = IF result' = "OK" THEN "tune" ELSE "idle"
        /\ oldEdge' = IF result' = "OK" THEN edge ELSE oldEdge
        /\ want \in Slaves
    BY <1>1, <1>6 DEF ChangeEdge, Then, TunerInv, WantInv, InLock
  <2>2. EdgeInv' /\ WantInv'
    BY <1>0, <1>2, <2>1 DEF TunerInv, EdgeInv, WantInv, InInit, InLock
  <2>3. InitInvariant'
    BY <1>2, <2>1 DEF TunerInv, InitInvariant, InInit, Ready
  <2> QED BY <1>2, <1>3, <1>4, <2>2, <2>3 DEF TunerInv
<1> QED BY <1>5, <1>6

LEMMA SleepStep ==
  ASSUME TunerInv, SleepFirst PROVE TunerInv'
<1>1. /\ dvb_cxd2820_Sleep(Main) /\ pc = "sleep" /\ pc' = "latch"
      /\ UNCHANGED <<latch, oldEdge, initDone, want, locked>>
  BY DEF SleepFirst, Then
<1>2. DemodInv' /\ Acts(Main) /\ UNCHANGED call
  BY <1>1, OperationActs DEF TunerInv, MainInv, Operation, dvb_cxd2820_Sleep
<1>3. call[Main].op = "none"
  BY <1>1 DEF TunerInv, MainInv
<1>4. ~Ready => ~Ready'
  BY <1>1 DEF dvb_cxd2820_Sleep, dvb_demod_Sleep, Ready, Awake
<1>5. EdgeInv' /\ WantInv' /\ InitInvariant' /\ LockedInv'
  BY <1>1, <1>4 DEF TunerInv, EdgeInv, WantInv, InitInvariant, LockedInv, InInit, InLock
<1> QED BY <1>2, <1>3, <1>5, MainActs

LEMMA TuneStep ==
  ASSUME TunerInv, BlindTune PROVE TunerInv'
<1>1. PICK bw \in Bandwidths : StartTune(Main, "BlindTune", want, bw)
  BY DEF BlindTune
<1>2. /\ pc = "tune" /\ pc' = "tuning" /\ want \in Slaves
      /\ UNCHANGED <<latch, oldEdge, initDone, want, locked>>
  BY DEF BlindTune, Then, TunerInv, WantInv, InLock
<1>3. Main \in Threads /\ ThreadOK(Main) /\ want \in Systems /\ Records /\ DemodInv
  BY <1>2 DEF TunerInv, MainInv, Slaves, Systems
<1> DEFINE c == TuneCall("BlindTune", want, bw)
<1>4. CallShape(c) /\ c.pc = "rf" /\ c.op = "BlindTune" /\ c.system = want
  BY <1>3, StartShapes DEF TuneOps
<1>5. Begin(Main, c)
  BY <1>1 DEF StartTune, TuneCall
<1> HIDE DEF c
<1>6. DemodInv' /\ Acts(Main)
  BY <1>3, <1>4, <1>5, BeginActs
<1>7. call'[Main] = c /\ UNCHANGED demod
  BY <1>3, <1>5 DEF Begin, Records, QuietDemod
<1>8. EdgeInv' /\ WantInv' /\ InitInvariant' /\ LockedInv'
  BY <1>2, <1>7 DEF TunerInv, EdgeInv, WantInv, InitInvariant, LockedInv, InInit, InLock, Ready
<1> QED BY <1>2, <1>4, <1>6, <1>7, <1>8, MainActs

LEMMA MainGoes ==
  ASSUME TunerInv, Step(Main), UNCHANGED tunerVars PROVE TunerInv'
<1>1. Main \in Threads /\ ThreadOK(Main) /\ Records /\ DemodInv
  BY DEF TunerInv, MainInv
<1>2. DemodInv' /\ Acts(Main) /\ call[Main].op # "none"
  BY <1>1, StepActs
<1>3. call[Main].op = "BlindTune" /\ pc = "tuning" /\ call[Main].system = want
  BY <1>2 DEF TunerInv, MainInv
<1>4. KeepsCall(Main)
  BY <1>1, <1>3, StepKeepsCall
<1>5. UNCHANGED <<latch, oldEdge, initDone, pc, want, locked>>
  BY DEF tunerVars
<1>6. oldEdge = EdgeOf(want) /\ want \in Slaves
  BY <1>3 DEF TunerInv, EdgeInv, WantInv, InLock
<1>7. initDone
  BY <1>6, EdgeValues DEF TunerInv, InitInvariant
<1>8. EdgeInv' /\ WantInv' /\ InitInvariant' /\ LockedInv'
  BY <1>3, <1>5, <1>7 DEF TunerInv, EdgeInv, WantInv, InitInvariant, LockedInv, InInit
<1> QED BY <1>2, <1>3, <1>4, <1>5, <1>8, MainActs DEF KeepsCall

LEMMA CheckStepInv ==
  ASSUME TunerInv, NEW t \in Checkers, CheckStep(t) PROVE TunerInv'
<1>0. t \in Threads /\ t # Main /\ ThreadOK(t) /\ call[t].op \in {"none", "WaitTSLock"}
      /\ returned[t] \notin Systems /\ Records /\ DemodInv
  BY DEF Checkers, TunerInv, CheckersInv
<1>1. ASSUME DemodInv', Acts(t), UNCHANGED demod,
             call'[t].op \in {"none", "WaitTSLock"}, returned'[t] \notin Systems,
             UNCHANGED <<latch, oldEdge, initDone, pc, want, locked>>, UNCHANGED autoSpectrum
      PROVE  TunerInv'
  <2>1. call'[Main] = call[Main] /\ returned'[Main] = returned[Main]
    BY <1>0, <1>1, MainAssumption DEF Acts
  <2>2. MainInv'
    BY <1>1, <2>1 DEF TunerInv, MainInv, ThreadOK
  <2>3. CheckersInv'
    BY <1>0, <1>1, OthersStay DEF CheckersInv, Acts
  <2>4. EdgeInv' /\ WantInv' /\ InitInvariant' /\ LockedInv'
    BY <1>1 DEF TunerInv, EdgeInv, WantInv, InitInvariant, LockedInv, Ready
  <2> QED BY <1>1, <2>2, <2>3, <2>4 DEF TunerInv, Acts
<1>2. CASE StartWait(t)
  <2>1. Begin(t, WaitCall) /\ MainKeeps
    BY <1>2 DEF StartWait, dvb_cxd2820_WaitTSLock, WaitCall
  <2>2. DemodInv' /\ Acts(t)
    BY <1>0, <2>1, StartShapes, BeginActs
  <2>3. call'[t] = WaitCall /\ returned'[t] = Nothing /\ UNCHANGED <<demod, autoSpectrum>>
    BY <1>0, <2>1 DEF Begin, Records, QuietDemod
  <2> QED BY <1>1, <2>1, <2>2, <2>3, StartShapes DEF MainKeeps, Nothing, Systems
<1>3. CASE EndsWait(t) \/ CallStatus(t)
  BY <1>3, QuietTunerStep DEF EndsWait, CallStatus, MainKeeps
<1>4. CASE Step(t) /\ UNCHANGED tunerVars
  <2>1. DemodInv' /\ Acts(t) /\ UNCHANGED <<autoSpectrum, demod>> /\ call[t].op = "WaitTSLock"
    BY <1>0, <1>4, StepActs
  <2>2. KeepsCall(t)
    BY <1>0, <1>4, <2>1, StepKeepsCall
  <2>3. call'[t].op \in {"none", "WaitTSLock"} /\ returned'[t] \notin Systems
    BY <1>0, <2>1, <2>2 DEF KeepsCall, Errors, Nothing, Systems
  <2> QED BY <1>1, <1>4, <2>1, <2>3 DEF tunerVars
<1> QED BY <1>2, <1>3, <1>4 DEF CheckStep

LEMMA TunerStep == ASSUME ~Reinit, TunerInv, [TunerNext]_all PROVE TunerInv'
<1>1. CASE Tuner_Register_Status_Callback \/ Tuner_Unregister_Status_Callback
  BY <1>1, QuietTunerStep DEF Tuner_Register_Status_Callback, Tuner_Unregister_Status_Callback
<1>2. ASSUME NEW s \in {"DVBT", "DVBT2"}, Tuner_Lock_To_Frequency(s) PROVE TunerInv'
  BY <1>2, QuietTunerStep DEF Tuner_Lock_To_Frequency, Then, Slaves
<1>3. CASE StartCheck
  <2>1. call[Main].op = "none" /\ pc = "tuning" /\ pc' = "idle"
    BY <1>3 DEF StartCheck, At, Then, TunerInv, MainInv, ThreadOK, CallShape
  <2> QED BY <1>3, <2>1, QuietTunerStep DEF StartCheck
<1>4. CASE UNCHANGED all
  <2>1. DemodInv' /\ UNCHANGED <<call, returned, sense, autoSpectrum, demod>> /\ UNCHANGED tunerVars
    BY <1>4, InvStep DEF TunerInv, all, allVars, driverVars, vars
  <2>2. Records' /\ MainInv' /\ CheckersInv'
    BY <2>1, DriverStays DEF tunerVars
  <2> QED BY <2>1, <2>2
          DEF TunerInv, EdgeInv, WantInv, InitInvariant, LockedInv, tunerVars, Ready
<1>5. CASE MainStep
  BY <1>3, <1>5, EchoStep, LatchStep, SleepStep, TuneStep, MainGoes DEF MainStep
<1> QED BY <1>1, <1>2, <1>4, <1>5, TunerInitStep, CheckStepInv DEF TunerNext

\* LockTellsTruth: of a tuner that is initialised once, with any number of
\* checking threads and whatever failed in earlier calls, a lock that returned 0
\* has left the front end demodulating the system that was asked for, latching at
\* its edge unless the two slaves were left with different ones.
THEOREM LockAlwaysTellsTruth ==
  ASSUME Reinit = FALSE PROVE TunerSpec => []LockTellsTruth
<1>1. TunerInv => LockTellsTruth
  <2> SUFFICES ASSUME TunerInv, locked # "UNKNOWN"
               PROVE  /\ demod.state = "ACTIVE" /\ demod.system = locked
                      /\ Runs(chip, locked)
                      /\ latch["DVBT"] = latch["DVBT2"] => latch[locked] = EdgeOf(locked)
    BY DEF LockTellsTruth
  <2>1. demod.state = "ACTIVE" /\ demod.system = locked /\ locked \in Slaves /\ oldEdge = EdgeOf(locked)
    BY DEF TunerInv, LockedInv
  <2>2. Runs(chip, locked)
    BY <2>1 DEF TunerInv, DemodInv, BelievedSystemRuns, Ready
  <2>3. latch["DVBT2"] = oldEdge
    BY <2>1, EdgeValues DEF TunerInv, EdgeInv
  <2> QED BY <2>1, <2>2, <2>3 DEF Slaves
<1>2. TunerInv /\ [TunerNext]_all => TunerInv'
  BY TunerStep
<1> QED BY TunerInitInv, <1>1, <1>2, PTL DEF TunerSpec
=============================================================================
