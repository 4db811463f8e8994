------------------------------ MODULE CxdDemod ------------------------------
(***************************************************************************)
(* The CXD2820/CXD2817 demodulator driver                                  *)
(* (src/tdp_api/Sony_Demod/SRC/sony_dvb_demod.c): its software state, the  *)
(* registers of the chip that say what the chip is doing, and the calls    *)
(* that move both.  A call is a script of writes on an I2C bus, any of     *)
(* which may fail: the call then returns, and the chip is left with some   *)
(* of the writes.  The caller calls anything at any time, also after it    *)
(* was restarted over a running chip.                                      *)
(***************************************************************************)
EXTENDS Naturals, Sequences

CONSTANTS
  Chips,       \* the kinds of chip the board may carry
  Bandwidths   \* channel bandwidths callers ask for

ASSUME ChipsAssumption ==
  Chips \subseteq {"CXD2817", "IP", "CXD2820_TS", "CXD2820_ES1_0", "CXD2820_ES1_1"}
ASSUME BandwidthsAssumption == Bandwidths \subseteq {"5", "6", "7", "8"}

VARIABLES
  chipId,   \* the chip of this board
  demod,    \* pDemod: the software state
  chip,     \* the registers of the chip
  result,   \* of the last call
  adopted,  \* the driver took a chip for asleep that was not
  stale     \* a band setting that failed was reported as a success

vars == <<chipId, demod, chip, result, adopted, stale>>

Systems == {"DVBT", "DVBC", "DVBT2"}
ES11 == chipId \in {"CXD2820_ES1_1", "IP"}

-----------------------------------------------------------------------------
(* The chip.                                                               *)

Registers ==
  {"mode", "clocks", "adc", "dram", "rateT", "delayT", "rateT2", "tsifT2", "hiz", "pll"}

\* Each of the band settings of slaves T and T2 is a score of writes; two
\* registers stand for its first and its last write.
Values == Systems \cup {"off", "on", "none", "5", "6", "7", "8"}

\* The sets of registers a script that may fail has written: all, or some first.
All(order) == {order[i] : i \in DOMAIN order}
Prefixes(order) == {{order[i] : i \in 1..k} : k \in 0..Len(order)}

Written(c, value, W) == [r \in Registers |-> IF r \in W THEN value[r] ELSE c[r]]

BandOrder ==
  [s \in Systems |->
     IF s = "DVBT" THEN <<"rateT", "delayT">>
     ELSE IF s = "DVBT2" THEN <<"rateT2", "tsifT2">> ELSE << >>]
BandOf(s) == All(BandOrder[s])

\* Mutant of EnterOrder: the memory of DVB-T2 is not switched on.
EnterOrderNoMemory ==
  [s \in Systems |->
     IF s = "DVBC" THEN <<"mode", "clocks", "adc", "hiz">>
     ELSE <<"mode", "clocks", "adc">> \o BandOrder[s] \o <<"hiz">>]

\* What SL2NOT, SL2NOC and SL2NOG write, in their order, and what it makes of
\* the chip.
EnterOrder ==
  [s \in Systems |->
     IF s = "DVBT"
       THEN <<"mode", "clocks", "adc", "rateT", "delayT", "hiz">>
     ELSE IF s = "DVBC"
       THEN <<"mode", "clocks", "adc", "hiz">>
       ELSE <<"mode", "clocks", "adc", "dram", "rateT2", "tsifT2", "hiz">>]

Entered(c, s, bw) ==
  [r \in Registers |->
     IF r \in {"mode", "clocks"} THEN s
     ELSE IF r \in BandOf(s) THEN bw
     ELSE IF r = "hiz" THEN "off"
     ELSE IF r = "adc" \/ (r = "dram" /\ s = "DVBT2") THEN "on" ELSE c[r]]

\* Mutant of LeaveOrder: the clocks are left running.
LeaveOrderKeepsClocks ==
  [s \in Systems |->
     IF s = "DVBT2" THEN <<"hiz", "adc", "dram", "mode">>
     ELSE <<"hiz", "adc", "clocks", "mode">>]

\* NOG2SL stops the eDRAM as well; NOT2SL and NOC2SL are the same.
LeaveOrder ==
  [s \in Systems |->
     IF s = "DVBT2" THEN <<"hiz", "adc", "dram", "clocks", "mode">>
     ELSE <<"hiz", "adc", "clocks", "mode">>]

Left(c) ==
  [r \in Registers |->
     IF r = "hiz" THEN "on"
     ELSE IF r \in {"adc", "dram", "clocks"} THEN "off"
     ELSE IF r = "mode" THEN "DVBT" ELSE c[r]]

\* Nothing of the chip runs and its outputs float.
Asleep(c) ==
  /\ c["clocks"] = "off" /\ c["adc"] = "off" /\ c["dram"] = "off"
  /\ c["hiz"] = "on" /\ c["mode"] = "DVBT"

\* The chip demodulates system s.
Runs(c, s) ==
  /\ c["mode"] = s /\ c["clocks"] = s /\ c["adc"] = "on" /\ c["hiz"] = "off"
  /\ s = "DVBT2" => c["dram"] = "on"

\* ... for channels of bandwidth bw.
RunsBand(c, s, bw) == \A r \in BandOf(s) : c[r] = bw

-----------------------------------------------------------------------------
(* Calls.                                                                  *)

Awake == demod.state = "ACTIVE"
Ready == demod.state \in {"ACTIVE", "SLEEP"}
Refuse(r) == result' = r /\ UNCHANGED <<demod, chip, stale, adopted>>

Cleared(state) ==
  [state |-> state, system |-> "UNKNOWN", bandWidth |-> "none", longEcho |-> FALSE]

\* Power-on reset leaves the chip asleep, a CXD2817 with its PLL down.
PowerOn ==
  [r \in Registers |->
     IF r = "mode" THEN "DVBT"
     ELSE IF r \in {"rateT", "delayT", "rateT2", "tsifT2"} THEN "none"
     ELSE IF r = "hiz" \/ (r = "pll" /\ chipId # "CXD2817") THEN "on" ELSE "off"]

Init ==
  /\ chipId \in Chips
  /\ demod = Cleared("UNKNOWN")
  /\ chip = PowerOn
  /\ result = "OK" /\ adopted = FALSE /\ stale = FALSE

\* Only the PLL of a CXD2817 is touched: whatever else the chip is doing, it
\* goes on doing.
dvb_demod_Initialize ==
  /\ \/ \* the chip's identity cannot be read
        /\ demod' = Cleared("UNKNOWN") /\ result' = "I2C" /\ UNCHANGED chip
     \/ /\ chipId # "CXD2817"
        /\ demod' = Cleared("SLEEP") /\ result' = "OK" /\ UNCHANGED chip
     \/ /\ chipId = "CXD2817"
        /\ \/ /\ demod' = Cleared("SLEEP") /\ result' = "OK"
              /\ chip' = [chip EXCEPT !["pll"] = "on"]
           \/ /\ demod' = Cleared("INVALID") /\ result' = "I2C"
              /\ chip' \in {chip, [chip EXCEPT !["pll"] = "on"]}
  /\ adopted' = ~Asleep(chip)
  /\ stale' = FALSE
  /\ UNCHANGED chipId

\* NOT2SL, NOC2SL or NOG2SL, of which a failure leaves the writes in W.
Forgotten(state) ==
  [demod EXCEPT !.state = state, !.system = "UNKNOWN", !.bandWidth = "none"]

LeaveFails ==
  \E W \in Prefixes(LeaveOrder[demod.system]) :
    /\ chip' = Written(chip, Left(chip), W)
    /\ demod' = Forgotten("INVALID")
    /\ result' = "I2C"

LeftChip == Written(chip, Left(chip), All(LeaveOrder[demod.system]))

dvb_demod_Sleep ==
  /\ \/ Awake /\ LeaveFails
     \/ /\ Awake
        /\ chip' = LeftChip /\ demod' = Forgotten("SLEEP") /\ result' = "OK"
     \/ demod.state = "SLEEP" /\ result' = "OK" /\ UNCHANGED <<demod, chip>>
     \/ ~Ready /\ result' = "SW_STATE" /\ UNCHANGED <<demod, chip>>
  /\ UNCHANGED <<chipId, stale, adopted>>

dvb_demod_Finalize ==
  /\ \/ Awake /\ LeaveFails
     \/ \E c \in {IF Awake THEN LeftChip ELSE chip}, failed \in BOOLEAN :
          LET d == IF Awake THEN Forgotten("SLEEP") ELSE demod IN
          /\ failed => chipId = "CXD2817"
          /\ chip' \in IF chipId # "CXD2817" THEN {c}
                       ELSE {[c EXCEPT !["pll"] = "off"]} \cup {c2 \in {c} : failed}
          /\ demod' = [d EXCEPT !.state = IF failed THEN "INVALID" ELSE "SHUTDOWN"]
          /\ result' = IF failed THEN "I2C" ELSE "OK"
  /\ UNCHANGED <<chipId, stale, adopted>>

\* The long echo sequence does the soft reset itself, later.
SoftResetDone(s) == ~(s = "DVBT2" /\ demod.longEcho)

\* Another system than the current one: out of it, and into s.
Enter(s, bw) ==
  \/ Awake /\ LeaveFails /\ UNCHANGED <<stale, adopted>>
  \/ \E c \in {IF Awake THEN LeftChip ELSE chip}, W \in Prefixes(EnterOrder[s]),
        failed \in BOOLEAN :
       LET d == [IF Awake THEN Forgotten("SLEEP") ELSE demod
                   EXCEPT !.system = s, !.bandWidth = bw] IN
       /\ ~failed => W = All(EnterOrder[s])
       /\ chip' = Written(c, Entered(c, s, bw), W)
       /\ demod' = IF failed THEN [d EXCEPT !.state = "INVALID"]
                   ELSE IF SoftResetDone(s) THEN [d EXCEPT !.state = "ACTIVE"] ELSE d
       /\ result' = IF failed THEN "I2C" ELSE "OK"
       /\ stale' = FALSE
       /\ adopted' = (adopted \/ ~Asleep(c))

\* The same system: the band is set when it changed, and the result of that is
\* overwritten by the calls that follow it.
Reacquire(s, bw) ==
  \E W \in IF bw # demod.bandWidth THEN Prefixes(BandOrder[s]) ELSE {{}} :
    LET d == [demod EXCEPT !.bandWidth = bw] IN
    /\ chip' = Written(chip, Entered(chip, s, bw), W)
    /\ stale' = IF bw # demod.bandWidth THEN W # BandOf(s) ELSE stale
    /\ UNCHANGED adopted
    /\ \/ /\ demod' = IF SoftResetDone(s) THEN [d EXCEPT !.state = "ACTIVE"] ELSE d
          /\ result' = "OK"
       \/ \* t2_PrepareAcquisition fails
          /\ s = "DVBT2" /\ ES11
          /\ demod' = d /\ result' = "I2C"
       \/ \* dvb_demod_SoftReset fails
          /\ SoftResetDone(s)
          /\ demod' = [d EXCEPT !.state = "INVALID"] /\ result' = "I2C"

BandwidthsOf(s) ==
  IF s = "DVBT" THEN {"6", "7", "8"} ELSE IF s = "DVBC" THEN {"8"} ELSE {"5", "6", "7", "8"}

dvb_demod_Tune(s, bw) ==
  /\ \/ bw \notin BandwidthsOf(s) /\ Refuse(IF s = "DVBC" THEN "ARG" ELSE "NOSUPPORT")
     \/ bw \in BandwidthsOf(s) /\ ~Ready /\ Refuse("SW_STATE")
     \/ /\ bw \in BandwidthsOf(s) /\ Ready
        /\ \/ chipId = "CXD2817" /\ s = "DVBT2" /\ Refuse("NOSUPPORT")
           \/ /\ ~(chipId = "CXD2817" /\ s = "DVBT2")
              /\ IF s # demod.system THEN Enter(s, bw) ELSE Reacquire(s, bw)
  /\ UNCHANGED chipId

\* The bank is selected before the reset is written; a chip ES1.1 has its
\* smoothing scale reset afterwards.
dvb_demod_SoftReset ==
  /\ \/ ~Ready /\ Refuse("SW_STATE")
     \/ Ready /\ Refuse("I2C")
     \/ /\ Ready /\ UNCHANGED <<chip, stale, adopted>>
        /\ \E failed \in BOOLEAN :
             /\ demod' = [demod EXCEPT !.state = IF failed THEN "INVALID" ELSE "ACTIVE"]
             /\ result' = IF failed THEN "I2C" ELSE "OK"
  /\ UNCHANGED chipId

\* Most configurations write registers of the stream interface or the
\* acquisition, which nothing here reads, at slave T and then in the shadow of
\* slave T2; some the driver takes only in SLEEP, "can change only in SLEEP
\* state".
SleepOnly ==
  {"PARALLEL_SEL", "LATCH_ON_POSEDGE", "RFLVMON_ENABLE", "RFAGC_ENABLE", "SCR_ENABLE"}
Anytime == {"TSCLK_CONT", "TS_AUTO_RATE_ENABLE", "DVBT_FORCE_MODEGI"}

\* The shadow in slave T2, of those that have one.
t2_SetConfig == Refuse("OK") \/ Refuse("I2C")

dvb_demod_SetConfig(id) ==
  /\ \/ /\ demod.state = "SLEEP" \/ (Awake /\ id \notin SleepOnly)
        /\ Refuse("I2C") \/ IF chipId = "CXD2817" THEN Refuse("OK") ELSE t2_SetConfig
     \/ /\ ~(demod.state = "SLEEP" \/ (Awake /\ id \notin SleepOnly))
        /\ Refuse("SW_STATE")
  /\ UNCHANGED chipId

\* DVBT2_PP2_LONG_ECHO: leaving it resets its registers first (le_seq_Init).
\* A CXD2817 ignores it.
SetLongEcho(on) ==
  /\ \/ ~Ready /\ Refuse("SW_STATE")
     \/ Ready /\ chipId = "CXD2817" /\ Refuse("OK")
     \/ Ready /\ chipId # "CXD2817" /\ demod.longEcho /\ ~on /\ Refuse("I2C")
     \/ /\ Ready /\ chipId # "CXD2817"
        /\ demod' = [demod EXCEPT !.longEcho = on]
        /\ result' = "OK" /\ UNCHANGED <<chip, stale, adopted>>
  /\ UNCHANGED chipId

-----------------------------------------------------------------------------
(* Of the soft resets only those of the DVB-T2 acquisition come from       *)
(* outside this file.                                                      *)

Next ==
  \/ dvb_demod_Initialize \/ dvb_demod_Finalize \/ dvb_demod_Sleep
  \/ \E s \in Systems, bw \in Bandwidths : dvb_demod_Tune(s, bw)
  \/ demod.system = "DVBT2" /\ dvb_demod_SoftReset
  \/ \E id \in SleepOnly \cup Anytime : dvb_demod_SetConfig(id)
  \/ \E on \in BOOLEAN : SetLongEcho(on)

Spec == Init /\ [][Next]_vars

-----------------------------------------------------------------------------
States == {"UNKNOWN", "SHUTDOWN", "SLEEP", "ACTIVE", "INVALID"}

\* The state is well formed.
TypeOK ==
  /\ chipId \in Chips
  /\ demod \in [state : States, system : Systems \cup {"UNKNOWN"},
                bandWidth : {"none", "5", "6", "7", "8"}, longEcho : BOOLEAN]
  /\ chip \in [Registers -> Values]
  /\ result \in {"OK", "ARG", "SW_STATE", "NOSUPPORT", "I2C"}
  /\ adopted \in BOOLEAN /\ stale \in BOOLEAN

\* An ACTIVE driver is right about its chip whatever writes failed before and
\* whatever chip it was started on: the chip runs the driver's system, for its
\* bandwidth unless a failed band setting was reported as a success.
ActiveRunsItsSystem ==
  demod.state = "ACTIVE" =>
    /\ demod.system \in Systems
    /\ Runs(chip, demod.system)
    /\ stale \/ RunsBand(chip, demod.system, demod.bandWidth)

\* A driver in SLEEP without a system has put the whole chip to sleep, unless it
\* was started on a chip that was running.
SleepingChipSleeps ==
  demod.state = "SLEEP" /\ demod.system = "UNKNOWN" => Asleep(chip) \/ adopted

\* SLEEP with a system is the wait of the long echo sequence for its soft reset:
\* the chip already runs, for DVB-T2.
SleepWithSystemRuns ==
  demod.state = "SLEEP" /\ demod.system # "UNKNOWN" =>
    demod.system = "DVBT2" /\ Runs(chip, "DVBT2")

\* The header says of SONY_DVB_DEMOD_STATE_SLEEP: "Chip is in Sleep state".
SleepMeansAsleep == demod.state = "SLEEP" => Asleep(chip) \/ adopted
=============================================================================
