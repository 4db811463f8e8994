------------------------------- MODULE Ds3000 -------------------------------
(***************************************************************************)
(* The satellite front end of the TDP API: tdp_api.c built with SATELITE   *)
(* on top of the Montage DS3002B/DS3103 demodulator driver and its         *)
(* M88TS2022 tuner.  One user calls the API; every successful              *)
(* Tuner_Lock_To_Frequency leaves a thread behind that polls               *)
(* mt_fe_dmd_ds3k_get_lock_state, which itself reprograms the chip while   *)
(* it looks for the type of the signal.  Nothing locks the driver.         *)
(*                                                                         *)
(* A register is modelled by the field of the chip it controls.  The chip  *)
(* and the dish are the environment.                                       *)
(***************************************************************************)
EXTENDS Integers, FiniteSets, FiniteSetsExt

CONSTANTS
  Chips,      \* the identities the demodulator may answer with
  Signals,    \* what a transponder may send
  Tunings,    \* what the user may ask for
  Polls,      \* how often the thread asks for the lock (60)
  Threads,    \* names for the polling threads
  None,       \* no signal, no tuning, no answer
  TunerFails, \* may the tuner fail to tell its version?
  Overlap     \* may the user call while a thread still polls?

Types == {"S", "S2"}

ASSUME Ds3000Assumption ==
  /\ Chips \subseteq {"DS3002B", "DS3103"}
  /\ Polls \in Nat \ {0}
  /\ Overlap \in BOOLEAN /\ TunerFails \in BOOLEAN
  /\ None \notin Signals /\ None \notin Tunings
  /\ None \notin {"Waiting", "Locked", "Unlocked", "LOCKED", "ERROR"}

ASSUME SignalsAssumption ==
  \A s \in Signals :
    /\ s.type \in Types /\ {s.freq, s.rate, s.bits, s.num} \subseteq Nat /\ s.den \in Nat \ {0}
    /\ s.tone \in BOOLEAN /\ s.volt \in {13, 18}

ASSUME TuningsAssumption ==
  \A t \in Tunings :
    /\ t.type \in Types \cup {"Unknown"} /\ {t.freq, t.rate} \subseteq Nat
    /\ t.tone \in BOOLEAN /\ t.volt \in {13, 18}

VARIABLES
  chip,       \* the demodulator and the tuner: what their registers say
  lnb,        \* registers 0xa1 and 0xa2: what goes up the cable
  g,          \* the driver's globals
  air,        \* the signal of the dish, or None
  user,       \* where the user's Tuner_Lock_To_Frequency stands
  poller,     \* the threads of myTuneStatusCheckThread
  ask,        \* the last tuning asked for, and whether it had a fair chance
  told        \* what the status callback was last told about it

vars == <<chip, lnb, g, air, user, poller, ask, told>>

-----------------------------------------------------------------------------
(* Numbers the driver computes, in its own integer arithmetic (kHz, kS/s,  *)
(* KB/s).                                                                  *)

(* What the PLL of the tuner makes of a frequency: whole MHz, and an even  *)
(* divider of the 27 MHz crystal; the low end of the band is divided again *)
(* by two.                                                                 *)
TunedTo(khz) ==
  LET mhz == (khz + 500) \div 1000
      low == mhz < 1103
      n   == (mhz * 14 * (IF low THEN 4000 ELSE 2000)) \div 27000
  IN  ((((n + (n % 2)) * 27000) \div 14) \div (IF low THEN 2 ELSE 1)) \div 2

(* A tuner that did not tell its version is not set ...                    *)
SetTuner(c, khz) == IF g.tuner THEN [c EXCEPT !.freq = TunedTo(khz)] ELSE c

(* ... and is taken to be where it was asked to go, in whole MHz.          *)
TunerOffset(khz) ==
  (IF g.tuner THEN TunedTo(khz) ELSE ((khz + 500) \div 1000) * 1000) - khz

(* A slow signal is received beside the middle of the tuner's filter.      *)
SlowOffset(rate) == IF rate < 5000 THEN 3000 ELSE 0

TargetMclk(type, rate, mode) ==
  CASE type = "S"                            -> 96000
    [] type = "S2" /\ mode = "Serial"        -> IF rate > 18000 THEN 144000 ELSE 96000
    [] type = "S2" /\ mode # "Serial"        -> IF rate > 28000 THEN 192000
                                                ELSE IF rate > 18000 THEN 144000
                                                ELSE 96000

Between(n, lo, hi) == Max({lo, Min({n, hi})})

(* The divider the output gets before anything is locked: both halves are  *)
(* stored as six bits less one, so that "no divider" becomes 64 + 64.      *)
FirstRatio(type, mclk, mode) ==
  LET clk == CASE mode = "Serial"   -> 0
               [] mode = "Parallel" -> 24000
               [] mode = "Common"   -> IF type = "S2" THEN 8471 ELSE 8000
  IN  IF clk = 0 THEN 128 ELSE Between((mclk + clk - 1) \div clk, 2, 128)

(* Bytes the transport stream of a signal carries.                         *)
DataRate(s) == IF s.type = "S2" THEN (s.rate * s.bits * s.num) \div (8 * s.den)
                                ELSE (s.rate * 2 * s.num) \div (8 * s.den)

LockedRatio(mclk, s) ==
  Between(IF DataRate(s) = 0 THEN 255 ELSE mclk \div DataRate(s), 2, 128)

SerialMclk(s) ==
  LET bits == (DataRate(s) * 46) \div 5
  IN  CASE s.type = "S2" /\ bits > 115200 -> 144000
        [] s.type = "S2" /\ bits > 96000 /\ bits <= 115200 -> 115200
        [] s.type = "S2" /\ bits > 72000 /\ bits <= 96000 -> 96000
        [] s.type = "S" /\ bits > 72000 -> 96000
        [] bits <= 72000 -> 72000

-----------------------------------------------------------------------------
(* The chip.  It works when every part of it is awake, it has its firmware *)
(* and it is not held in reset.                                            *)

Parts == {"0x08", "0x04", "0x23", "tuner"}

Working(c) == ~c.held /\ c.awake = Parts /\ c.fw

(* A continuous 22 kHz tone reaches the LNB when the transmitter sends it  *)
(* and the output pin is not forced.                                       *)
Tone(l) == l.a1 = "tone" /\ l.out = "free"

(* The LNB brings the upper part of the band down by 10600 MHz when it     *)
(* gets the tone, the lower part by 9750 MHz when it does not.             *)
Intermediate(mhz, tone) == mhz - (IF tone THEN 10600 ELSE 9750)

(* How far signal s is from where a chip looks for it, in kHz.             *)
Apart(m, n) == IF m > n THEN m - n ELSE n - m
Off(c, s) == Apart(Intermediate(s.freq, s.tone) * 1000, c.freq - c.offset)

(* What it takes to find signal s: a carrier is searched for within half   *)
(* its width.                                                              *)
Receives(c, s) ==
  /\ Working(c)
  /\ s # None
  /\ Off(c, s) <= s.rate \div 2
  /\ s.rate = c.rate
  /\ s.type = c.type
  /\ lnb.on /\ lnb.volt = s.volt /\ Tone(lnb) = s.tone

IsLocked == chip.search = "lock" /\ Receives(chip, air)

(* Pulsing b2 starts the search again.                                     *)
Restarted(c) == [c EXCEPT !.held = FALSE, !.search = "cci"]
Held(c) == [c EXCEPT !.held = TRUE, !.search = "cci"]

(* The identity bits of a DS3103 make b2 read 0xC1 when it is held.        *)
SeesHold(c, id) == c.held /\ id = "DS3002B"

GlobalReset(c) == [c EXCEPT !.offset = 0]

(* Two bits each of 0x22 and 0x24 select the clock; any frequency the      *)
(* registers do not know becomes the default one.                          *)
Mclks == [k \in {192000, 144000, 115200, 96000, 72000} |->
            CASE k = 192000 -> <<3, 0>> [] k = 144000 -> <<0, 1>> [] k = 115200 -> <<1, 1>>
              [] k = 96000 -> <<2, 1>> [] k = 72000 -> <<0, 3>>]

SetMclk(c, khz) ==
  [c EXCEPT !.sel = Mclks[IF khz \in DOMAIN Mclks THEN khz ELSE 96000]]

GetMclk(c) == CHOOSE k \in DOMAIN Mclks : Mclks[k] = c.sel

SetDemod(c, type, rate) ==
  LET mclk == TargetMclk(type, rate, c.mode)
  IN  [SetMclk(c, mclk) EXCEPT !.type = type, !.rate = rate,
                               !.ratio = FirstRatio(type, mclk, c.mode)]

(* _mt_fe_dmd_ds3k_set_clock_ratio: the chip tells the symbol rate, the    *)
(* modulation and the code rate of the signal it is locked to; it tells    *)
(* nothing (0) when the lock is gone.                                      *)
SetClockRatio(c, s) ==
  CASE s = None                      -> c
    [] s # None /\ c.mode = "Serial" -> SetMclk(c, SerialMclk(s))
    [] s # None /\ c.mode # "Serial" -> [c EXCEPT !.ratio = LockedRatio(GetMclk(c), s)]

-----------------------------------------------------------------------------
Globals == [current: Types, connect: Types \cup {"Unknown"}, rate: Nat,
            auto: BOOLEAN, cci: BOOLEAN, check: BOOLEAN, eq: BOOLEAN,
            offset: Int, serial: Nat, dmd_id: Chips \cup {"Undef", "Unknown"},
            set_tuner: BOOLEAN, tuner: BOOLEAN, InitDone: BOOLEAN]

NotAsked == [tuning |-> None, steady |-> FALSE, fair |-> FALSE]

FreshChip(id) ==
  [id |-> id, held |-> FALSE, awake |-> Parts, fw |-> FALSE,
   type |-> "S", rate |-> 0, freq |-> 0, offset |-> 0, sel |-> <<2, 1>>, ratio |-> 128,
   mode |-> "Common", search |-> "cci"]

FreshGlobals ==
  [current |-> "S", connect |-> "S", rate |-> 0, auto |-> FALSE,
   cci |-> FALSE, check |-> FALSE, eq |-> FALSE, offset |-> 0,
   serial |-> 96000, dmd_id |-> "Undef", set_tuner |-> FALSE, tuner |-> TRUE,
   InitDone |-> FALSE]

Idle ==
  /\ user = "idle"
  /\ poller = [t \in Threads |-> [pc |-> "none", i |-> 0, state |-> None]]
  /\ ask = NotAsked
  /\ told = None

Init ==
  /\ \E id \in Chips : chip = FreshChip(id)
  /\ lnb = [on |-> FALSE, volt |-> 13, out |-> "forced", a1 |-> "stop"]
  /\ g = FreshGlobals
  /\ air \in Signals \cup {None}
  /\ Idle

Polling == {t \in Threads : poller[t].pc # "none"}

(* The user is between two calls.                                          *)
Free == user = "idle" /\ (Overlap \/ Polling = {})

-----------------------------------------------------------------------------
(* The user's calls.  A call forgets what the last tuning was told.        *)

SetLnb(on, tone, volt) ==
  [lnb EXCEPT !.on = on,
              !.volt = IF on THEN volt ELSE @,
              !.a1 = IF ~on THEN "stop" ELSE IF tone THEN "tone" ELSE @,
              !.out = IF on /\ tone THEN "free" ELSE "forced"]

(* mt_fe_dmd_ds3k_hard_reset, the demodulator answering with id.           *)
ResetGlobals(id) ==
  IF id = "Unknown" THEN [g EXCEPT !.dmd_id = id]
  ELSE [g EXCEPT !.dmd_id = id, !.current = "S", !.connect = "S", !.rate = 0,
                 !.auto = FALSE, !.cci = FALSE, !.eq = FALSE, !.check = FALSE]

HardReset(c, id) ==
  IF id = "Unknown" THEN c
  ELSE LET r == IF SeesHold(c, id) THEN Restarted(c) ELSE c
       IN  [GlobalReset(r) EXCEPT !.awake = @ \cup {"0x08"}]

(* mt_fe_dmd_ds3k_soft_reset for an identified demodulator.                *)
SoftReset(c) == IF g.dmd_id \in Chips THEN Restarted(c) ELSE Held(c)

(* The firmware is loaded with the chip held; a failed write ends the      *)
(* load, and lets go of the chip all the same.                             *)
DownloadFw(c, ok) == [Restarted(c) EXCEPT !.fw = ok]

SetTsOutMode(c, mode) == [c EXCEPT !.mode = mode, !.ratio = 17]

(* Any answer but the two the driver knows leaves it without a version.    *)
CheckTunerVersion == IF TunerFails THEN BOOLEAN ELSE {TRUE}

InitialTuner(c) == [c EXCEPT !.awake = @ \cup {"tuner"}]

Tuner_Init ==
  /\ Free
  /\ \E id \in {chip.id, "Unknown"}, ok \in BOOLEAN, version \in CheckTunerVersion :
       LET power == InitialTuner(HardReset(chip, id))
       IN  /\ g' = [ResetGlobals(id) EXCEPT !.set_tuner = TRUE, !.tuner = version,
                      !.InitDone = @ \/ (id # "Unknown" /\ ok)]
           /\ chip' = IF id = "Unknown" THEN power
                      ELSE IF ~ok THEN DownloadFw(power, FALSE)
                      ELSE SetTsOutMode(DownloadFw(power, TRUE), "Common")
  /\ ask' = NotAsked /\ told' = None
  /\ UNCHANGED <<lnb, air, user, poller>>

Tuner_Deinit ==
  /\ Free
  /\ g.InitDone
  /\ \E id \in {chip.id, "Unknown"} :
       /\ chip' = HardReset(SoftReset(chip), id)
       /\ g' = [ResetGlobals(id) EXCEPT !.InitDone = FALSE]
  /\ ask' = NotAsked /\ told' = None
  /\ UNCHANGED <<lnb, air, user, poller>>

(* Could the signal of the dish be the one asked for?                      *)
Wanted(s, t) ==
  /\ s # None
  /\ s.freq = t.freq /\ s.rate = t.rate /\ s.volt = t.volt /\ s.tone = t.tone
  /\ t.type \in {"Unknown", s.type}

Tuner_Lock_To_Frequency(t) ==
  /\ Free
  /\ lnb' = SetLnb(TRUE, t.tone, t.volt)
  /\ ask' = [tuning |-> t, steady |-> TRUE,
             fair |-> Wanted(air, t) /\ chip.awake = Parts /\ chip.fw /\ g.tuner]
  /\ user' = "connect"
  /\ told' = None
  /\ UNCHANGED <<chip, g, air, poller>>

Return(ret) == user' = IF ret = "Ok" THEN "spawn" ELSE "idle"

\* Mutant of ConnectedGlobals: the divider of the last lock is taken for that of the next one.
ConnectedGlobalsNoCheck(t) ==
  [g EXCEPT !.connect = t.type, !.rate = t.rate, !.auto = FALSE, !.cci = TRUE,
            !.eq = FALSE,
            !.current = IF t.type = "Unknown" THEN "S" ELSE t.type]

ConnectedGlobals(t) ==
  [g EXCEPT !.connect = t.type, !.rate = t.rate, !.auto = FALSE, !.cci = TRUE,
            !.eq = FALSE, !.check = TRUE,
            !.current = CASE g.dmd_id \notin Chips -> @
                          [] g.dmd_id \in Chips /\ t.type = "Unknown" -> "S"
                          [] g.dmd_id \in Chips /\ t.type # "Unknown" -> t.type]

(* mt_fe_dmd_ds3k_connect, down to the choice of the type.                 *)
ConnectGlobals ==
  /\ user = "connect"
  /\ IF ~g.set_tuner
     THEN Return("NullPointer") /\ UNCHANGED <<chip, g>>
     ELSE /\ g' = ConnectedGlobals(ask.tuning)
          /\ IF g.dmd_id \notin Chips
             THEN Return("NoSupportDemod") /\ UNCHANGED chip
             ELSE /\ user' = "tune"
                  /\ chip' = IF SeesHold(chip, g.dmd_id) THEN Restarted(chip) ELSE chip
  /\ UNCHANGED <<lnb, air, poller, ask, told>>

(* What the API takes for the LNB's part of it.                            *)
AttenuateFreq(mhz) ==
  mhz - (IF mhz > (10700 + 12750) \div 2 THEN 10600 ELSE IF mhz >= 10700 THEN 9750 ELSE 0)

Beside(t) == AttenuateFreq(t.freq) * 1000 + SlowOffset(t.rate)

(* The tuner is set beside a slow signal, then the chip is held.           *)
ConnectTuner ==
  /\ user = "tune"
  /\ chip' = Held(SetTuner(chip, Beside(ask.tuning)))
  /\ user' = "program"
  /\ UNCHANGED <<lnb, g, air, poller, ask, told>>

SetCarrierOffset(c, khz) == [c EXCEPT !.offset = khz]

ConnectDemod ==
  /\ user = "program"
  /\ LET khz == TunerOffset(Beside(ask.tuning)) + SlowOffset(ask.tuning.rate)
     IN  /\ chip' = SetCarrierOffset(SetDemod(chip, g.current, ask.tuning.rate), khz)
         /\ g' = [g EXCEPT !.offset = khz]
  /\ user' = "release"
  /\ UNCHANGED <<lnb, air, poller, ask, told>>

ConnectRelease ==
  /\ user = "release"
  /\ chip' = Restarted(chip)
  /\ Return("Ok")
  /\ UNCHANGED <<lnb, g, air, poller, ask, told>>

StartThread(t) ==
  /\ user = "spawn"
  /\ t \notin Polling
  /\ poller' = [poller EXCEPT ![t] = [pc |-> "poll", i |-> 0, state |-> None]]
  /\ user' = "idle"
  /\ UNCHANGED <<chip, lnb, g, air, ask, told>>

(* The driver's other calls.                                               *)
Call(c, l) ==
  /\ Free
  /\ chip' = c /\ lnb' = l
  /\ ask' = NotAsked /\ told' = None
  /\ UNCHANGED <<air, user, poller>>

Sleep == Call([chip EXCEPT !.awake = {}], lnb) /\ UNCHANGED g
WakeUp == Call([chip EXCEPT !.awake = Parts], lnb) /\ UNCHANGED g

SetLnbOff == Call(chip, SetLnb(FALSE, FALSE, 13)) /\ UNCHANGED g

(* A DiSEqC message takes the output pin, and every way out gives it up:   *)
(* sent and nothing expected, answered, no answer, parity error, time-out. *)
(* Only the first leaves the transmitter as the message set it.            *)
SendMessage ==
  /\ \E a1 \in {"msg", "stop"} : Call(chip, [lnb EXCEPT !.a1 = a1, !.out = "forced"])
  /\ UNCHANGED g

SendToneBurst ==
  Call(chip, [lnb EXCEPT !.a1 = "burst", !.out = "forced"]) /\ UNCHANGED g

(* mt_fe_dmd_ds3k_change_ts_out_mode: the clock of the new mode, for the   *)
(* symbol rate of the lock or, without one, of the last connection.        *)
ModeMclk(mode) ==
  IF mode = "Serial" THEN g.serial
  ELSE TargetMclk(g.current, IF IsLocked THEN air.rate ELSE g.rate, mode)

ChangeTsOutMode(mode) ==
  /\ g.dmd_id \in Chips
  /\ LET c == [SetMclk(chip, ModeMclk(mode)) EXCEPT !.mode = mode]
     IN  /\ Call(IF IsLocked THEN SetClockRatio(c, air) ELSE c, lnb)
         /\ g' = [g EXCEPT !.serial = IF IsLocked THEN SerialMclk(air) ELSE @]

-----------------------------------------------------------------------------
(* mt_fe_dmd_ds3k_get_lock_state, in the steps of a polling thread.        *)

GoTo(t, pc, state) == poller' = [poller EXCEPT ![t].pc = pc, ![t].state = state]
Ended(t, state) == GoTo(t, "ended", state)

(* A poll made before the chip has come to a result gives the search no    *)
(* fair chance.                                                            *)
PollHold(t) ==
  /\ poller[t].pc = "poll"
  /\ IF SeesHold(chip, g.dmd_id) THEN Ended(t, "Unlocked")
     ELSE GoTo(t, IF g.cci THEN "cci" ELSE "bits", "Waiting")
  /\ ask' = [ask EXCEPT !.fair = @ /\ chip.search \notin {"cci", "run"}]
  /\ UNCHANGED <<chip, lnb, g, air, user, told>>

PollCci(t) ==
  /\ poller[t].pc = "cci"
  /\ IF chip.search = "cci"
     THEN Ended(t, "Unlocked") /\ UNCHANGED g
     ELSE GoTo(t, "bits", poller[t].state) /\ g' = [g EXCEPT !.cci = FALSE]
  /\ UNCHANGED <<chip, lnb, air, user, ask, told>>

(* The equaliser of a DVB-S2 chip is looked at once; a strong echo starts  *)
(* the search again with another setting.                                  *)
EchoReset(t) ==
  /\ poller[t].pc = "bits"
  /\ g.current = "S2" /\ ~g.eq
  /\ chip.search \in {"run", "lock"}
  /\ chip' = Restarted(chip)
  /\ g' = [g EXCEPT !.eq = TRUE, !.check = TRUE]
  /\ GoTo(t, "unlocked", poller[t].state)
  /\ UNCHANGED <<lnb, air, user, ask, told>>

(* The bits of the other type's lock say nothing of this one.              *)
PollBits(t) ==
  /\ poller[t].pc = "bits"
  /\ IF IsLocked /\ chip.type = g.current
     THEN GoTo(t, "offset", "Locked") /\ g' = [g EXCEPT !.auto = TRUE]
     ELSE GoTo(t, "unlocked", poller[t].state) /\ g' = [g EXCEPT !.check = TRUE]
  /\ UNCHANGED <<chip, lnb, air, user, ask, told>>

(* mt_fe_dmd_ds3k_get_total_carrier_offset: noise, when the signal is gone. *)
TotalOffset == IF IsLocked THEN {Off(chip, air)} ELSE {0, 4000}

\* Mutant of PollOffset: the chip is held, but the lock is reported all the same.
PollOffsetStillLocked(t) ==
  /\ poller[t].pc = "offset"
  /\ \E khz \in TotalOffset : chip' = IF khz >= 4000 THEN Held(chip) ELSE chip
  /\ GoTo(t, "clock", "Locked")
  /\ UNCHANGED <<lnb, g, air, user, ask, told>>

(* A carrier that is 4 MHz off is another transponder's: the chip is held. *)
PollOffset(t) ==
  /\ poller[t].pc = "offset"
  /\ \E khz \in TotalOffset :
       IF khz >= 4000 THEN GoTo(t, "clock", "Unlocked") /\ chip' = Held(chip)
                      ELSE GoTo(t, "clock", "Locked") /\ UNCHANGED chip
  /\ UNCHANGED <<lnb, g, air, user, ask, told>>

PollClock(t) ==
  /\ poller[t].pc = "clock"
  /\ LET s == IF IsLocked THEN air ELSE None IN
     /\ chip' = IF g.check THEN SetClockRatio(chip, s) ELSE chip
     /\ g' = [g EXCEPT !.check = FALSE,
                       !.serial = IF g.check /\ s # None THEN SerialMclk(s) ELSE @]
  /\ Ended(t, poller[t].state)
  /\ UNCHANGED <<lnb, air, user, ask, told>>

(* Without a lock, register 0xb3 tells what became of the search.          *)
PollSearch(t) ==
  /\ poller[t].pc = "unlocked"
  /\ LET known == g.connect # "Unknown" IN
     \/ /\ known /\ chip.search \in {"miss", "fail"}
        /\ Ended(t, "Unlocked") /\ UNCHANGED chip
     \/ /\ ~known /\ chip.search = "fail"
        /\ Ended(t, "Unlocked") /\ chip' = Restarted(chip)
     \/ /\ ~known /\ chip.search = "miss" /\ ~g.auto
        /\ GoTo(t, "other", poller[t].state) /\ UNCHANGED chip
     \/ /\ chip.search = "miss" => ~known /\ g.auto
        /\ chip.search # "fail"
        /\ Ended(t, poller[t].state) /\ UNCHANGED chip
  /\ UNCHANGED <<lnb, g, air, user, ask, told>>

\* Mutant of OtherType: the global reset of the search loses the carrier offset.
OtherTypeNoOffset(t) ==
  /\ poller[t].pc = "other"
  /\ g' = [g EXCEPT !.current = IF @ = "S" THEN "S2" ELSE "S"]
  /\ chip' = Held(GlobalReset(chip))
  /\ GoTo(t, "reprogram", poller[t].state)
  /\ UNCHANGED <<lnb, air, user, ask, told>>

(* A signal of unknown type is tried as the other type.                    *)
OtherType(t) ==
  /\ poller[t].pc = "other"
  /\ g' = [g EXCEPT !.current = IF @ = "S" THEN "S2" ELSE "S"]
  /\ chip' = Held(SetCarrierOffset(GlobalReset(chip), g.offset))
  /\ GoTo(t, "reprogram", poller[t].state)
  /\ UNCHANGED <<lnb, air, user, ask, told>>

Reprogram(t) ==
  /\ poller[t].pc = "reprogram"
  /\ chip' = Restarted(SetDemod(chip, g.current, g.rate))
  /\ Ended(t, poller[t].state)
  /\ UNCHANGED <<lnb, g, air, user, ask, told>>

(* myTuneStatusCheckThread, when the driver has answered.                  *)
PollAgain(t) ==
  /\ poller[t].pc = "ended"
  /\ poller[t].state # "Locked"
  /\ poller[t].i + 1 < Polls
  /\ poller' = [poller EXCEPT ![t] = [pc |-> "poll", i |-> @.i + 1, state |-> None]]
  /\ UNCHANGED <<chip, lnb, g, air, user, ask, told>>

Tuner_NotificationCallback(t) ==
  /\ poller[t].pc = "ended"
  /\ \/ poller[t].state = "Locked" /\ told' = "LOCKED"
     \/ poller[t].state # "Locked" /\ poller[t].i + 1 = Polls /\ told' = "ERROR"
  /\ poller' = [poller EXCEPT ![t] = [pc |-> "none", i |-> 0, state |-> None]]
  /\ UNCHANGED <<chip, lnb, g, air, user, ask>>

-----------------------------------------------------------------------------
(* The chip and the dish.  A search that gives up on a signal it could     *)
(* have tried as the other type is no fair chance either.                  *)

Search ==
  /\ Working(chip)
  /\ \/ chip.search = "cci" /\ chip' = [chip EXCEPT !.search = "run"] /\ UNCHANGED ask
     \/ /\ chip.search = "run" /\ Receives(chip, air)
        /\ chip' = [chip EXCEPT !.search = "lock"] /\ UNCHANGED ask
     \/ /\ chip.search = "run" /\ ~Receives(chip, air)
        /\ chip' = [chip EXCEPT !.search = "miss"] /\ UNCHANGED ask
     \/ /\ chip.search = "run" /\ ~Receives(chip, air)
        /\ chip' = [chip EXCEPT !.search = "fail"]
        /\ ask' = [ask EXCEPT !.fair = FALSE]
     \/ /\ chip.search = "lock" /\ ~Receives(chip, air)
        /\ chip' = [chip EXCEPT !.search = "run"] /\ UNCHANGED ask
  /\ UNCHANGED <<lnb, g, air, user, poller, told>>

AirChanges ==
  /\ \E s \in (Signals \cup {None}) \ {air} : air' = s
  /\ ask' = [ask EXCEPT !.steady = FALSE, !.fair = FALSE]
  /\ UNCHANGED <<chip, lnb, g, user, poller, told>>

UserCall ==
  \/ Tuner_Init \/ Tuner_Deinit
  \/ \E t \in Tunings : Tuner_Lock_To_Frequency(t)
  \/ Sleep \/ WakeUp \/ SetLnbOff \/ SendMessage \/ SendToneBurst
  \/ \E mode \in {"Common", "Parallel", "Serial"} : ChangeTsOutMode(mode)

Connecting ==
  \/ ConnectGlobals \/ ConnectTuner \/ ConnectDemod \/ ConnectRelease
  \/ \E t \in Threads : StartThread(t)

PollStep(t) ==
  \/ PollHold(t) \/ PollCci(t) \/ EchoReset(t) \/ PollBits(t) \/ PollOffset(t)
  \/ PollClock(t) \/ PollSearch(t) \/ OtherType(t) \/ Reprogram(t)
  \/ PollAgain(t) \/ Tuner_NotificationCallback(t)

Next == UserCall \/ Connecting \/ (\E t \in Threads : PollStep(t)) \/ Search \/ AirChanges

Spec == Init /\ [][Next]_vars

-----------------------------------------------------------------------------
TypeOK ==
  /\ chip \in [id: Chips, held: BOOLEAN, awake: SUBSET Parts, fw: BOOLEAN,
               type: Types, rate: Nat, freq: Nat, offset: Int, sel: (0..3) \X (0..3), ratio: Nat,
               mode: {"Common", "Parallel", "Serial"},
               search: {"cci", "run", "lock", "miss", "fail"}]
  /\ lnb \in [on: BOOLEAN, volt: {13, 18}, out: {"forced", "free"},
              a1: {"stop", "tone", "msg", "burst"}]
  /\ g \in Globals
  /\ air \in Signals \cup {None}
  /\ user \in {"idle", "connect", "tune", "program", "release", "spawn"}
  /\ poller \in [Threads -> [pc: {"none", "poll", "cci", "bits", "offset", "clock",
                                  "unlocked", "other", "reprogram", "ended"},
                             i: 0..Polls - 1,
                             state: {None, "Waiting", "Locked", "Unlocked"}]]
  /\ ask \in [tuning: Tunings \cup {None}, steady: BOOLEAN, fair: BOOLEAN]
  /\ told \in {None, "LOCKED", "ERROR"}

(* LOCKED is told only of the tuning that was asked for: the chip looks    *)
(* for that frequency and symbol rate, as the type the driver takes it for and *)
(* the user allows, with the voltage and the tone of that tuning on the    *)
(* cable, and a signal that never changed since is no neighbour's          *)
(* (get_lock_state, which also reprograms the chip).                       *)
LockedReportIsTrue ==
  told = "LOCKED" /\ ask.tuning # None =>
    LET t == ask.tuning IN
    /\ Working(chip)
    /\ chip.freq - chip.offset = Intermediate(t.freq, t.tone) * 1000 /\ chip.rate = t.rate
    /\ chip.type = g.current /\ t.type \in {"Unknown", chip.type}
    /\ lnb.on /\ lnb.volt = t.volt /\ Tone(lnb) = t.tone
    /\ ask.steady => Apart(air.freq, t.freq) < 4

(* After a LOCKED the transport stream leaves the chip no slower than the  *)
(* signal brings it, whatever was locked, and in whatever output mode,     *)
(* before (g_check_TS_clock decides whether the divider is set again).     *)
TsKeepsUp ==
  told = "LOCKED" /\ ask.steady =>
    GetMclk(chip) >= DataRate(air) * (IF chip.mode = "Serial" THEN 8 ELSE chip.ratio)

(* A signal that is there from the call on and is given the time to be     *)
(* found is never reported as an error: whatever the calls before left     *)
(* behind, and of whichever type it is (the search in get_lock_state).     *)
SteadySignalIsFound == told = "ERROR" => ~ask.fair
=============================================================================
