---------------------------- MODULE Ds3000Proofs ----------------------------
(***************************************************************************)
(* Proofs about Ds3000, for any chips, signals, tunings and number of      *)
(* polls, and about its blind scan, for any sky, band and size of table.   *)
(*   - The types hold whatever happens (TInv, in the second half).         *)
(*   - What is reported as locked is what was asked for, its transport     *)
(*     stream gets through, and a signal that was there all the time is    *)
(*     found (DInv).                                                       *)
(* The second needs what the runs give it and a front end in order has:    *)
(* no call while a thread still polls (Alone), a tuner that tells its      *)
(* version (Readable), tunings of the Ku band whose tone says in which     *)
(* half of it they are (Consistent).                                       *)
(*   - The table of a first scan holds what was locked, each transponder   *)
(*     once and in front (ScanInv, at the end).                            *)
(***************************************************************************)
EXTENDS BlindScan, FiniteSetTheorems, TLAPS

\* The user waits for the report before the next call.
Alone == ~Overlap

\* The tuner always tells its version.
Readable == ~TunerFails

\* A tuning is in the Ku band, and asks for the tone where the LNB needs it.
Consistent == \A t \in Tunings : t.freq >= 10700 /\ (t.tone <=> t.freq > 11725)

\* No signal brings more than a serial output takes: a bit of it per tick of
\* the fastest clock that is used for its type.
Carried == \A s \in Signals : 8 * DataRate(s) <= IF s.type = "S" THEN 96000 ELSE 144000

\* There are at least as many polls as the search may need.
Patient == Polls >= 3

-----------------------------------------------------------------------------
\* A tuning is being worked on, or has been reported.
Asked == user # "idle" \/ Polling # {} \/ told # None

\* ... and the connection has come at least to one of these stages.
Past(stages) == user \in stages \/ Polling # {} \/ told # None

\* One thing at a time: connecting, polling, or nothing and a report.
OneAtATime ==
  /\ user # "idle" => Polling = {}
  /\ \A p, q \in Polling : p = q
  /\ told # None => user = "idle" /\ Polling = {}

\* The cable carries what the tuning asks for; a fair chance is that of a
\* signal that is there and a chip that is awake and has its firmware.
AskFacts ==
  /\ ask.fair => ask.steady
  /\ Asked =>
       /\ ask.tuning \in Tunings
       /\ lnb.on /\ lnb.volt = ask.tuning.volt /\ (Tone(lnb) <=> ask.tuning.tone)
  /\ Asked /\ ask.fair => Wanted(air, ask.tuning) /\ chip.awake = Parts /\ chip.fw

\* Where the tuner is set, and the offset the chip is told of it.
Where == Beside(ask.tuning)
Shift == (TunedTo(Where) - Where) + SlowOffset(ask.tuning.rate)

\* What the steps of the connection have set so far.
ConnFacts ==
  /\ Past({"tune", "program", "release", "spawn"}) =>
       /\ g.connect = ask.tuning.type /\ g.rate = ask.tuning.rate
       /\ ask.tuning.type # "Unknown" => g.current = ask.tuning.type
  /\ user \in {"tune", "program", "release", "spawn"} =>
       /\ g.check /\ ~g.auto
       /\ ask.tuning.type = "Unknown" => g.current = "S"
  /\ Past({"program", "release", "spawn"}) => chip.freq = TunedTo(Where)
  /\ user \in {"release", "spawn"} => chip.type = g.current
  /\ Past({"release", "spawn"}) =>
       /\ chip.offset = Shift /\ g.offset = Shift
       /\ chip.rate = ask.tuning.rate
       /\ chip.mode # "Serial" => chip.sel \in {Mclks[192000], Mclks[144000], Mclks[96000]}

\* The chip has a clock that the driver knows.
SelKnown == \E k \in DOMAIN Mclks : chip.sel = Mclks[k]

\* The output takes what the signal brings.
KeepsUp ==
  Carried => GetMclk(chip) >= DataRate(air) * (IF chip.mode = "Serial" THEN 8 ELSE chip.ratio)

\* The chip is locked, and not to a neighbour.
Near == IsLocked /\ Off(chip, air) < 4000

\* What thread p has found out, and whether it still holds.  A divider that was
\* set already (~g.check) is that of this lock, or there is no lock.
PollFact(p) ==
  /\ poller[p].state = "Locked" => poller[p].pc \in {"offset", "clock", "ended"} /\ Working(chip)
  /\ poller[p].pc = "offset" => poller[p].state = "Locked" /\ (ask.steady => IsLocked)
  /\ poller[p].pc = "clock" => poller[p].state = "Locked" \/ (chip.held /\ chip.search = "cci")
  /\ poller[p].pc # "reprogram" => chip.type = g.current
  /\ poller[p].pc \in {"other", "reprogram"} => ask.tuning.type = "Unknown"
  /\ poller[p].pc \in {"unlocked", "other", "reprogram"} => g.check
  /\ ~g.check => \/ poller[p].pc = "ended" /\ poller[p].state = "Locked"
                 \/ chip.held /\ chip.search = "cci"
                 \/ ~ask.steady
  /\ poller[p].state = "Locked" /\ poller[p].pc \in {"clock", "ended"} /\ ask.steady => Near
  /\ poller[p].state = "Locked" /\ poller[p].pc = "ended" /\ ask.steady => KeepsUp

PollFacts == \A p \in Polling : PollFact(p)

\* What was reported as locked still is.
ToldFacts ==
  told = "LOCKED" =>
    /\ Working(chip) /\ chip.type = g.current
    /\ ask.steady => Near /\ KeepsUp

\* The chip looks for the type the signal has.
Matching == chip.type = air.type

\* How many polls end without a lock: one for an echo, one for the type.
Turns == IF g.current = "S2" /\ ~g.eq THEN 1 ELSE 2

\* The search is on its way to the lock.
OnItsWay == chip.search \in {"cci", "run", "lock"}

\* With a fair chance, a search of the right type does not give up, one of the
\* wrong type ends as a miss.
FairSpawn ==
  /\ ~chip.held
  /\ Matching => OnItsWay
  /\ ~Matching => chip.search \in {"cci", "run", "miss"}

\* How far thread p has come when the signal has a fair chance.
FairPoll(p) ==
  /\ poller[p].pc # "reprogram" => FairSpawn
  /\ poller[p].pc # "reprogram" /\ ~Matching =>
       /\ ~g.auto /\ g.connect = "Unknown" /\ g.current = "S" /\ poller[p].i = 0
       /\ poller[p].pc \in {"poll", "cci", "bits", "unlocked", "other"}
  /\ poller[p].pc \in {"cci", "bits"} => chip.search = IF Matching THEN "lock" ELSE "miss"
  /\ poller[p].pc = "unlocked" /\ ~Matching => chip.search = "miss"
  /\ poller[p].pc = "unlocked" /\ Matching => poller[p].i + 1 <= Turns
  /\ poller[p].pc = "other" => ~Matching
  /\ poller[p].pc = "reprogram" => g.current = air.type /\ poller[p].i = 0
  /\ Matching /\ poller[p].pc \in {"poll", "cci", "bits"} => poller[p].i <= Turns
  /\ poller[p].pc = "ended" /\ poller[p].state # "Locked" => poller[p].i + 1 <= Turns
  /\ poller[p].pc = "clock" => poller[p].state = "Locked"

\* The same from the call on.
FairFacts ==
  ask.fair =>
    /\ user \in {"program", "release"} => chip.held /\ chip.search = "cci"
    /\ user = "spawn" => FairSpawn
    /\ \A p \in Polling : FairPoll(p)

\* The inductive invariant of the reports.
DInv ==
  /\ TypeOK /\ g.tuner /\ SelKnown
  /\ OneAtATime /\ AskFacts /\ ConnFacts /\ PollFacts /\ ToldFacts /\ FairFacts
  /\ (Patient /\ told = "ERROR" => ~ask.fair)

-----------------------------------------------------------------------------
\* The states of the chip, and what two of them may have in common.
ChipStates ==
  [id: Chips, held: BOOLEAN, awake: SUBSET Parts, fw: BOOLEAN,
   type: Types, rate: Nat, freq: Nat, offset: Int, sel: (0..3) \X (0..3), ratio: Nat,
   mode: {"Common", "Parallel", "Serial"},
   search: {"cci", "run", "lock", "miss", "fail"}]

SameRadio(c, d) == d.freq = c.freq /\ d.offset = c.offset /\ d.rate = c.rate /\ d.type = c.type
SamePower(c, d) == d.id = c.id /\ d.awake = c.awake /\ d.fw = c.fw
SameClock(c, d) == d.sel = c.sel /\ d.ratio = c.ratio /\ d.mode = c.mode
SameState(c, d) == d.held = c.held /\ d.search = c.search

\* What pulsing b2 leaves alone.
LEMMA RestartedIs ==
  ASSUME NEW c \in ChipStates
  PROVE  /\ Restarted(c) \in ChipStates /\ SameRadio(c, Restarted(c)) /\ SamePower(c, Restarted(c))
         /\ SameClock(c, Restarted(c)) /\ Restarted(c).held = FALSE /\ Restarted(c).search = "cci"
BY DEF ChipStates, Restarted, SameRadio, SamePower, SameClock

\* What holding the chip leaves alone.
LEMMA HeldIs ==
  ASSUME NEW c \in ChipStates
  PROVE  /\ Held(c) \in ChipStates /\ SameRadio(c, Held(c)) /\ SamePower(c, Held(c))
         /\ SameClock(c, Held(c)) /\ Held(c).held = TRUE /\ Held(c).search = "cci"
BY DEF ChipStates, Held, SameRadio, SamePower, SameClock

\* Only the offset is set.
LEMMA OffsetIs ==
  ASSUME NEW c \in ChipStates, NEW khz \in Int
  PROVE  /\ SetCarrierOffset(c, khz) \in ChipStates
         /\ SetCarrierOffset(c, khz).freq = c.freq /\ SetCarrierOffset(c, khz).offset = khz
         /\ SetCarrierOffset(c, khz).rate = c.rate /\ SetCarrierOffset(c, khz).type = c.type
         /\ SamePower(c, SetCarrierOffset(c, khz)) /\ SameClock(c, SetCarrierOffset(c, khz))
         /\ SameState(c, SetCarrierOffset(c, khz))
BY DEF ChipStates, SetCarrierOffset, SamePower, SameClock, SameState

\* A global reset loses the offset.
LEMMA GlobalResetIs ==
  ASSUME NEW c \in ChipStates
  PROVE  GlobalReset(c) = SetCarrierOffset(c, 0)
BY DEF GlobalReset, SetCarrierOffset

\* Division of natural numbers.
LEMMA DivIsNat == ASSUME NEW n \in Nat, NEW d \in Nat \ {0} PROVE n \div d \in Nat /\ (n \div d) * d <= n
  OBVIOUS

\* The PLL makes a frequency of a frequency.
LEMMA TunedToIsNat == ASSUME NEW khz \in Nat PROVE TunedTo(khz) \in Nat
<1> DEFINE mhz == (khz + 500) \div 1000
           low == mhz < 1103
           n == (mhz * 14 * (IF low THEN 4000 ELSE 2000)) \div 27000
           k == ((n + (n % 2)) * 27000) \div 14
<1>1. mhz \in Nat
  OBVIOUS
<1>2. n \in Nat
  BY <1>1
<1>3. k \in Nat
  BY <1>2
<1>4. TunedTo(khz) = (k \div (IF low THEN 2 ELSE 1)) \div 2
  BY DEF TunedTo
<1> HIDE DEF k, low
<1> QED BY <1>3, <1>4

\* A tuner that told its version is where the PLL puts it.
LEMMA TunerIs ==
  ASSUME g.tuner, NEW c \in ChipStates, NEW khz \in Nat
  PROVE  /\ SetTuner(c, khz) \in ChipStates
         /\ SetTuner(c, khz).freq = TunedTo(khz) /\ SetTuner(c, khz).offset = c.offset
         /\ SetTuner(c, khz).rate = c.rate /\ SetTuner(c, khz).type = c.type
         /\ SamePower(c, SetTuner(c, khz)) /\ SameClock(c, SetTuner(c, khz))
         /\ SameState(c, SetTuner(c, khz))
<1> DEFINE f == TunedTo(khz)
<1>1. f \in Nat
  BY TunedToIsNat
<1>2. SetTuner(c, khz) = [c EXCEPT !.freq = f]
  BY DEF SetTuner
<1> HIDE DEF f
<1>3. /\ SetTuner(c, khz) \in ChipStates
      /\ SetTuner(c, khz).freq = f /\ SetTuner(c, khz).offset = c.offset
      /\ SetTuner(c, khz).rate = c.rate /\ SetTuner(c, khz).type = c.type
      /\ SamePower(c, SetTuner(c, khz)) /\ SameClock(c, SetTuner(c, khz))
      /\ SameState(c, SetTuner(c, khz))
  BY <1>1, <1>2 DEF ChipStates, SamePower, SameClock, SameState
<1> QED BY <1>3 DEF f

\* The clocks the driver knows.
Clocks == {192000, 144000, 115200, 96000, 72000}

\* The table of the clocks.
LEMMA MclksIs ==
  /\ DOMAIN Mclks = Clocks
  /\ Mclks[192000] = <<3, 0>> /\ Mclks[144000] = <<0, 1>> /\ Mclks[115200] = <<1, 1>>
  /\ Mclks[96000] = <<2, 1>> /\ Mclks[72000] = <<0, 3>>
  /\ \A k \in Clocks : Mclks[k] \in (0..3) \X (0..3)
BY DEF Mclks, Clocks

\* A clock that was set is read back.
LEMMA GetMclkIs ==
  ASSUME NEW c, NEW k \in Clocks, c.sel = Mclks[k]
  PROVE  GetMclk(c) = k
<1>1. \A j \in Clocks : Mclks[j] = Mclks[k] => j = k
  BY MclksIs DEF Clocks
<1> QED BY <1>1, MclksIs DEF GetMclk

\* A clock the registers know is set, another becomes the default one.
LEMMA SetMclkIs ==
  ASSUME NEW c \in ChipStates, NEW khz
  PROVE  LET k == IF khz \in Clocks THEN khz ELSE 96000
             d == SetMclk(c, khz)
         IN  /\ d \in ChipStates /\ SameRadio(c, d) /\ SamePower(c, d) /\ SameState(c, d)
             /\ d.ratio = c.ratio /\ d.mode = c.mode
             /\ k \in Clocks /\ d.sel = Mclks[k] /\ GetMclk(d) = k
<1> DEFINE k == IF khz \in Clocks THEN khz ELSE 96000
           s == Mclks[k]
           d == SetMclk(c, khz)
<1>1. k \in Clocks
  BY DEF Clocks
<1>2. s \in (0..3) \X (0..3)
  BY <1>1, MclksIs
<1>3. d = [c EXCEPT !.sel = s]
  BY MclksIs DEF SetMclk
<1> HIDE DEF s, d
<1>4. /\ d \in ChipStates /\ SameRadio(c, d) /\ SamePower(c, d) /\ SameState(c, d)
      /\ d.ratio = c.ratio /\ d.mode = c.mode /\ d.sel = s
  BY <1>2, <1>3 DEF ChipStates, SameRadio, SamePower, SameState
<1>5. GetMclk(d) = k
  BY <1>1, <1>4, GetMclkIs DEF s
<1> QED BY <1>1, <1>4, <1>5 DEF s, d

\* Between cuts off at both ends.
LEMMA BetweenIs ==
  ASSUME NEW n \in Nat, NEW lo \in Nat, NEW hi \in Nat, lo <= hi
  PROVE  Between(n, lo, hi) = IF n <= lo THEN lo ELSE IF n >= hi THEN hi ELSE n
<1>1. Min({n, hi}) = IF n <= hi THEN n ELSE hi
  BY DEF Min
<1> DEFINE m == IF n <= hi THEN n ELSE hi
<1>2. m \in Nat
  OBVIOUS
<1>3. Between(n, lo, hi) = Max({lo, m})
  BY <1>1 DEF Between
<1> HIDE DEF m
<1>4. Max({lo, m}) = IF lo <= m THEN m ELSE lo
  BY <1>2 DEF Max
<1> QED BY <1>3, <1>4 DEF m

\* The output modes.
Modes == {"Common", "Parallel", "Serial"}

\* The clocks a connection uses.
LEMMA TargetMclkIs ==
  ASSUME NEW type \in Types, NEW rate \in Nat, NEW mode \in Modes
  PROVE  TargetMclk(type, rate, mode) \in {192000, 144000, 96000}
BY DEF TargetMclk, Types, Modes

\* The first divider is a number.
LEMMA FirstRatioIs ==
  ASSUME NEW type \in Types, NEW mclk \in Clocks, NEW mode \in Modes
  PROVE  FirstRatio(type, mclk, mode) \in Nat
<1> DEFINE clk == CASE mode = "Serial"   -> 0
                    [] mode = "Parallel" -> 24000
                    [] mode = "Common"   -> IF type = "S2" THEN 8471 ELSE 8000
           n == (mclk + clk - 1) \div clk
<1>1. clk \in {0, 24000, 8471, 8000}
  BY DEF Modes
<1>2. FirstRatio(type, mclk, mode) = IF clk = 0 THEN 128 ELSE Between(n, 2, 128)
  BY DEF FirstRatio
<1>3. mclk \in Nat
  BY DEF Clocks
<1> HIDE DEF clk
<1>4. clk # 0 => n \in Nat
  BY <1>1, <1>3
<1> HIDE DEF n
<1>5. n \in Nat => Between(n, 2, 128) \in Nat
  BY BetweenIs
<1> QED BY <1>2, <1>4, <1>5

\* What programming the demodulator sets and leaves alone.
LEMMA SetDemodIs ==
  ASSUME NEW c \in ChipStates, NEW type \in Types, NEW rate \in Nat
  PROVE  LET d == SetDemod(c, type, rate)
         IN  /\ d \in ChipStates /\ SamePower(c, d) /\ SameState(c, d)
             /\ d.freq = c.freq /\ d.offset = c.offset /\ d.mode = c.mode
             /\ d.type = type /\ d.rate = rate
             /\ d.sel \in {Mclks[192000], Mclks[144000], Mclks[96000]}
<1> DEFINE mclk == TargetMclk(type, rate, c.mode)
           r == FirstRatio(type, mclk, c.mode)
           e == SetMclk(c, mclk)
           d == SetDemod(c, type, rate)
<1>1. c.mode \in Modes
  BY DEF ChipStates, Modes
<1>2. mclk \in {192000, 144000, 96000}
  BY <1>1, TargetMclkIs
<1>3. d = [e EXCEPT !.type = type, !.rate = rate, !.ratio = r]
  BY DEF SetDemod
<1> HIDE DEF mclk, d
<1>4. mclk \in Clocks
  BY <1>2 DEF Clocks
<1>5. r \in Nat
  BY <1>1, <1>4, FirstRatioIs
<1> HIDE DEF r
<1>6. /\ e \in ChipStates /\ SameRadio(c, e) /\ SamePower(c, e) /\ SameState(c, e)
      /\ e.mode = c.mode /\ e.sel = Mclks[mclk]
  BY <1>4, SetMclkIs
<1> HIDE DEF e
<1>7. /\ d \in ChipStates /\ SamePower(e, d) /\ SameState(e, d)
      /\ d.freq = e.freq /\ d.offset = e.offset /\ d.mode = e.mode
      /\ d.type = type /\ d.rate = rate /\ d.sel = e.sel
  BY <1>3, <1>5, <1>6 DEF ChipStates, SamePower, SameState
<1>8. SamePower(c, d) /\ SameState(c, d) /\ d.freq = c.freq /\ d.offset = c.offset
  BY <1>6, <1>7 DEF SamePower, SameState, SameRadio
<1> QED BY <1>2, <1>6, <1>7, <1>8 DEF d

\* Products of natural numbers.
LEMMA TimesIsNat == ASSUME NEW m \in Nat, NEW n \in Nat PROVE m * n \in Nat
  OBVIOUS

\* The data rate of a signal is a number.
LEMMA DataRateIsNat == ASSUME NEW s \in Signals PROVE DataRate(s) \in Nat
<1>1. s.rate \in Nat /\ s.bits \in Nat /\ s.num \in Nat /\ s.den \in Nat \ {0}
  BY SignalsAssumption
<1>2. s.rate * s.bits \in Nat /\ s.rate * 2 \in Nat
  BY <1>1, TimesIsNat
<1>3. (s.rate * s.bits) * s.num \in Nat /\ (s.rate * 2) * s.num \in Nat
  BY <1>1, <1>2, TimesIsNat
<1>4. 8 * s.den \in Nat \ {0}
  BY <1>1
<1> QED BY <1>3, <1>4, DivIsNat DEF DataRate

\* The cases of the serial clock, one after the other.
LEMMA SerialCases ==
  ASSUME NEW type \in {"S", "S2"}, NEW bits \in Nat
  PROVE  (CASE type = "S2" /\ bits > 115200 -> 144000
            [] type = "S2" /\ bits > 96000 /\ bits <= 115200 -> 115200
            [] type = "S2" /\ bits > 72000 /\ bits <= 96000 -> 96000
            [] type = "S" /\ bits > 72000 -> 96000
            [] bits <= 72000 -> 72000)
         = IF type = "S2"
           THEN IF bits > 115200 THEN 144000 ELSE IF bits > 96000 THEN 115200
                ELSE IF bits > 72000 THEN 96000 ELSE 72000
           ELSE IF bits > 72000 THEN 96000 ELSE 72000
OBVIOUS

\* The serial clock is fast enough for a signal within the limit.
LEMMA SerialMclkIs ==
  ASSUME NEW s \in Signals
  PROVE  /\ SerialMclk(s) \in Clocks
         /\ 8 * DataRate(s) <= (IF s.type = "S" THEN 96000 ELSE 144000)
              => DataRate(s) * 8 <= SerialMclk(s)
<1> DEFINE bits == (DataRate(s) * 46) \div 5
<1>1. DataRate(s) \in Nat
  BY DataRateIsNat
<1>2. bits \in Nat /\ 5 * bits + 4 >= DataRate(s) * 46
  BY <1>1
<1>3. s.type \in {"S", "S2"}
  BY SignalsAssumption DEF Types
<1>4. SerialMclk(s) = IF s.type = "S2"
                      THEN IF bits > 115200 THEN 144000 ELSE IF bits > 96000 THEN 115200
                           ELSE IF bits > 72000 THEN 96000 ELSE 72000
                      ELSE IF bits > 72000 THEN 96000 ELSE 72000
  BY <1>2, <1>3, SerialCases DEF SerialMclk
<1> HIDE DEF bits
<1> QED BY <1>1, <1>2, <1>3, <1>4 DEF Clocks

\* The divider of a lock is never too large.
LEMMA LockedRatioIs ==
  ASSUME NEW mclk \in Clocks, NEW s \in Signals
  PROVE  /\ LockedRatio(mclk, s) \in Nat
         /\ 2 * DataRate(s) <= mclk => DataRate(s) * LockedRatio(mclk, s) <= mclk
<1> DEFINE d == DataRate(s)
           q == IF d = 0 THEN 255 ELSE mclk \div d
           r == LockedRatio(mclk, s)
<1>1. d \in Nat /\ mclk \in Nat
  BY DataRateIsNat DEF Clocks
<1> HIDE DEF d
<1>2. q \in Nat /\ (d # 0 => q * d <= mclk)
  BY <1>1, DivIsNat
<1>3. r = Between(q, 2, 128)
  BY DEF LockedRatio, d
<1> HIDE DEF q, r
<1>4. r = IF q <= 2 THEN 2 ELSE IF q >= 128 THEN 128 ELSE q
  BY <1>2, <1>3, BetweenIs
<1>5. r \in Nat
  BY <1>2, <1>4
<1>6. ASSUME 2 * d <= mclk PROVE d * r <= mclk
  <2>1. CASE d = 0
    BY <2>1, <1>1, <1>5
  <2>2. CASE r = 2
    BY <2>2, <1>1, <1>6
  <2>3. CASE d # 0 /\ r <= q
    <3>1. d * r <= d * q
      BY <2>3, <1>1, <1>2, <1>5
    <3> QED BY <3>1, <2>3, <1>1, <1>2, <1>5
  <2> QED BY <2>1, <2>2, <2>3, <1>2, <1>4
<1> QED BY <1>5, <1>6 DEF d, r

\* The fastest clock a serial output gets for the type of signal s.
Limit(s) == IF s.type = "S" THEN 96000 ELSE 144000

\* After the divider was set, the output takes what the signal brings.
LEMMA SetClockRatioIs ==
  ASSUME NEW c \in ChipStates, NEW k \in Clocks, c.sel = Mclks[k], NEW s \in Signals
  PROVE  LET d == SetClockRatio(c, s)
         IN  /\ d \in ChipStates /\ SameRadio(c, d) /\ SamePower(c, d) /\ SameState(c, d)
             /\ d.mode = c.mode /\ (\E j \in Clocks : d.sel = Mclks[j])
             /\ c.mode # "Serial" => d.sel = c.sel
             /\ 8 * DataRate(s) <= Limit(s) /\ (c.mode # "Serial" => k >= 96000)
                  => GetMclk(d) >= DataRate(s) * (IF d.mode = "Serial" THEN 8 ELSE d.ratio)
<1> DEFINE d == SetClockRatio(c, s)
<1>0. DataRate(s) \in Nat /\ s # None /\ c.mode \in Modes
  BY DataRateIsNat, Ds3000Assumption DEF ChipStates, Modes
<1>1. CASE c.mode = "Serial"
  <2>1. d = SetMclk(c, SerialMclk(s))
    BY <1>0, <1>1 DEF SetClockRatio
  <2> DEFINE j == SerialMclk(s)
  <2>2. j \in Clocks /\ (8 * DataRate(s) <= Limit(s) => DataRate(s) * 8 <= j)
    BY SerialMclkIs DEF Limit
  <2> HIDE DEF j, d
  <2>3. /\ d \in ChipStates /\ SameRadio(c, d) /\ SamePower(c, d) /\ SameState(c, d)
        /\ d.mode = c.mode /\ d.sel = Mclks[j] /\ GetMclk(d) = j
    BY <2>1, <2>2, SetMclkIs DEF j
  <2>4. j \in Nat
    BY <2>2 DEF Clocks
  <2> QED BY <1>0, <1>1, <2>2, <2>3, <2>4 DEF d
<1>2. CASE c.mode # "Serial"
  <2> DEFINE r == LockedRatio(k, s)
  <2>1. GetMclk(c) = k
    BY GetMclkIs
  <2>2. d = [c EXCEPT !.ratio = r]
    BY <1>0, <1>2, <2>1 DEF SetClockRatio
  <2>3. r \in Nat /\ (2 * DataRate(s) <= k => DataRate(s) * r <= k)
    BY LockedRatioIs
  <2> HIDE DEF r, d
  <2>4. /\ d \in ChipStates /\ SameRadio(c, d) /\ SamePower(c, d) /\ SameState(c, d)
        /\ d.mode = c.mode /\ d.sel = c.sel /\ d.ratio = r
    BY <2>2, <2>3 DEF ChipStates, SameRadio, SamePower, SameState
  <2>5. GetMclk(d) = k /\ k \in Nat
    BY <2>4, GetMclkIs DEF Clocks
  <2>6. 8 * DataRate(s) <= Limit(s) /\ k >= 96000 => 2 * DataRate(s) <= k
    BY <1>0, <2>5 DEF Limit
  <2> QED BY <1>2, <2>3, <2>4, <2>5, <2>6 DEF d
<1> QED BY <1>1, <1>2 DEF d

-----------------------------------------------------------------------------
\* The states of the threads, the cable, the user and the tuning.
PollStates ==
  [pc: {"none", "poll", "cci", "bits", "offset", "clock", "unlocked", "other", "reprogram", "ended"},
   i: 0..Polls - 1, state: {None, "Waiting", "Locked", "Unlocked"}]
LnbStates ==
  [on: BOOLEAN, volt: {13, 18}, out: {"forced", "free"}, a1: {"stop", "tone", "msg", "burst"}]
Users == {"idle", "connect", "tune", "program", "release", "spawn"}
Asks == [tuning: Tunings \cup {None}, steady: BOOLEAN, fair: BOOLEAN]

\* The conjuncts of TypeOK by their names.
LEMMA TypeOKIs ==
  TypeOK <=> /\ chip \in ChipStates /\ lnb \in LnbStates /\ g \in Globals
             /\ air \in Signals \cup {None} /\ user \in Users
             /\ poller \in [Threads -> PollStates]
             /\ ask \in Asks
             /\ told \in {None, "LOCKED", "ERROR"}
BY DEF TypeOK, ChipStates, LnbStates, Users, PollStates, Asks

\* What a step of get_lock_state does to its thread.
LEMMA GoesTo ==
  ASSUME poller \in [Threads -> PollStates], NEW t \in Threads, NEW pc, NEW state, GoTo(t, pc, state)
  PROVE  /\ poller' = [poller EXCEPT ![t] = [pc |-> pc, i |-> poller[t].i, state |-> state]]
         /\ poller'[t].pc = pc /\ poller'[t].i = poller[t].i /\ poller'[t].state = state
         /\ poller[t].i \in 0..Polls - 1 /\ poller[t].state \in {None, "Waiting", "Locked", "Unlocked"}
<1>1. poller[t] \in PollStates
  OBVIOUS
<1>2. poller' = [poller EXCEPT ![t].pc = pc, ![t].state = state]
  BY DEF GoTo
<1>3. [[poller[t] EXCEPT !.pc = pc] EXCEPT !.state = state]
        = [pc |-> pc, i |-> poller[t].i, state |-> state]
  <2>1. \A r \in PollStates : [r EXCEPT !.pc = pc] = [pc |-> pc, i |-> r.i, state |-> r.state]
    BY DEF PollStates
  <2>2. \A a, b, c : [[pc |-> a, i |-> b, state |-> c] EXCEPT !.state = state]
                       = [pc |-> a, i |-> b, state |-> state]
    OBVIOUS
  <2> DEFINE i == poller[t].i
             old == poller[t].state
             q == [poller[t] EXCEPT !.pc = pc]
  <2>3. q = [pc |-> pc, i |-> i, state |-> old]
    BY <1>1, <2>1
  <2> HIDE DEF i, old, q
  <2>4. [q EXCEPT !.state = state] = [pc |-> pc, i |-> i, state |-> state]
    BY <2>2, <2>3
  <2> QED BY <2>4 DEF q, i
<1>4. poller' = [poller EXCEPT ![t] = [[poller[t] EXCEPT !.pc = pc] EXCEPT !.state = state]]
  BY <1>1, <1>2
<1> QED BY <1>1, <1>3, <1>4 DEF PollStates

\* Between two calls, with nothing asked for, there is little to know.
LEMMA Resting ==
  ASSUME TypeOK', g'.tuner, SelKnown', user' = "idle", Polling' = {}, told' = None, ask' = NotAsked
  PROVE  DInv'
<1>1. told' # "LOCKED" /\ told' # "ERROR"
  BY Ds3000Assumption
<1>2. ~ask'.fair
  BY DEF NotAsked
<1>3. OneAtATime' /\ AskFacts'
  BY <1>2 DEF OneAtATime, AskFacts, Asked
<1>4. ConnFacts' /\ PollFacts'
  BY DEF ConnFacts, PollFacts, Past
<1>5. ToldFacts' /\ FairFacts'
  BY <1>1, <1>2 DEF ToldFacts, FairFacts
<1> QED BY <1>1, <1>3, <1>4, <1>5 DEF DInv

\* Nothing has been asked for.
LEMMA InitDInv == Init => DInv
<1> SUFFICES ASSUME Init PROVE DInv
  OBVIOUS
<1>1. PICK id \in Chips : chip = FreshChip(id)
  BY DEF Init
<1>2. chip \in ChipStates
  BY <1>1 DEF FreshChip, ChipStates, Parts, Types
<1>3. lnb \in LnbStates /\ g \in Globals /\ g.tuner
  BY DEF Init, FreshGlobals, Globals, LnbStates, Types
<1>4. poller = [t \in Threads |-> [pc |-> "none", i |-> 0, state |-> None]]
  BY DEF Init, Idle
<1>5. poller \in [Threads -> PollStates] /\ Polling = {}
  BY <1>4, Ds3000Assumption DEF PollStates, Polling
<1>6. TypeOK
  <2>1. ask \in Asks /\ user \in Users /\ air \in Signals \cup {None} /\ told \in {None, "LOCKED", "ERROR"}
    BY DEF Init, Idle, NotAsked, Asks, Users
  <2> QED BY <1>2, <1>3, <1>5, <2>1, TypeOKIs
<1>7. chip.sel = Mclks[96000] /\ 96000 \in DOMAIN Mclks
  BY <1>1, MclksIs DEF FreshChip, Clocks
<1>8. user = "idle" /\ told = None /\ ask = NotAsked
  BY DEF Init, Idle
<1>9. told # "LOCKED" /\ told # "ERROR" /\ ~ask.fair
  BY <1>8, Ds3000Assumption DEF NotAsked
<1>10. OneAtATime /\ AskFacts
  BY <1>5, <1>8, <1>9 DEF OneAtATime, AskFacts, Asked
<1>11. ConnFacts /\ PollFacts /\ ToldFacts /\ FairFacts
  BY <1>5, <1>8, <1>9 DEF ConnFacts, PollFacts, Past, ToldFacts, FairFacts
<1> QED BY <1>3, <1>6, <1>7, <1>9, <1>10, <1>11 DEF DInv, SelKnown

\* A call that asks for nothing leaves the front end at rest.
LEMMA CallRests ==
  ASSUME Alone, DInv, Free, chip' \in ChipStates, \E k \in Clocks : chip'.sel = Mclks[k],
         lnb' \in LnbStates, g' \in Globals, g'.tuner,
         ask' = NotAsked, told' = None, UNCHANGED <<air, user, poller>>
  PROVE  DInv'
<1>1. user = "idle" /\ Polling = {}
  BY DEF Free, Alone
<1>2. user' = "idle" /\ Polling' = {}
  BY <1>1 DEF Polling
<1>3. TypeOK'
  <2>1. /\ air' \in Signals \cup {None} /\ user' \in Users /\ poller' \in [Threads -> PollStates]
        /\ told' \in {None, "LOCKED", "ERROR"}
    BY TypeOKIs DEF DInv
  <2>2. ask' \in Asks
    BY DEF NotAsked, Asks
  <2> QED BY <2>1, <2>2, TypeOKIs DEF TypeOK, ChipStates, LnbStates, Users, PollStates, Asks
<1>4. SelKnown'
  BY MclksIs DEF SelKnown
<1> QED BY <1>2, <1>3, <1>4, Resting

\* SelKnown, with the clocks listed.
LEMMA SelIs == SelKnown <=> \E k \in Clocks : chip.sel = Mclks[k]
  BY MclksIs DEF SelKnown

\* A hard reset leaves the clock alone.
LEMMA HardResetIs ==
  ASSUME NEW c \in ChipStates, NEW id \in Chips \cup {"Unknown"}
  PROVE  HardReset(c, id) \in ChipStates /\ HardReset(c, id).sel = c.sel
<1>1. CASE id = "Unknown"
  BY <1>1 DEF HardReset
<1>2. CASE id # "Unknown"
  <2> DEFINE r == IF SeesHold(c, id) THEN Restarted(c) ELSE c
             e == SetCarrierOffset(r, 0)
             d == HardReset(c, id)
  <2>1. r \in ChipStates /\ r.sel = c.sel
    BY RestartedIs DEF SameClock
  <2> HIDE DEF r
  <2>2. e \in ChipStates /\ e.sel = r.sel
    BY <2>1, OffsetIs DEF SameClock
  <2>3. d = [e EXCEPT !.awake = @ \cup {"0x08"}]
    BY <1>2, <2>1, GlobalResetIs DEF HardReset, r
  <2> HIDE DEF e, d
  <2>4. d \in ChipStates /\ d.sel = e.sel
    BY <2>2, <2>3 DEF ChipStates, Parts
  <2> QED BY <2>1, <2>2, <2>4 DEF d
<1> QED BY <1>1, <1>2

\* Tuner_Init leaves the clock alone.
LEMMA Tuner_InitIs ==
  ASSUME chip \in ChipStates, g \in Globals, Tuner_Init
  PROVE  chip' \in ChipStates /\ chip'.sel = chip.sel /\ g' \in Globals /\ (Readable => g'.tuner)
<1>1. PICK id \in {chip.id, "Unknown"}, ok \in BOOLEAN, version \in CheckTunerVersion :
        LET power == InitialTuner(HardReset(chip, id))
        IN  /\ g' = [ResetGlobals(id) EXCEPT !.set_tuner = TRUE, !.tuner = version,
                       !.InitDone = @ \/ (id # "Unknown" /\ ok)]
            /\ chip' = IF id = "Unknown" THEN power
                       ELSE IF ~ok THEN DownloadFw(power, FALSE)
                       ELSE SetTsOutMode(DownloadFw(power, TRUE), "Common")
  BY DEF Tuner_Init
<1>3. id \in Chips \cup {"Unknown"}
  BY DEF ChipStates
<1>4. version \in BOOLEAN /\ (Readable => version = TRUE)
  BY DEF Readable, CheckTunerVersion
<1> DEFINE h == HardReset(chip, id)
           power == InitialTuner(h)
           loaded == Restarted(power)
<1>5. h \in ChipStates /\ h.sel = chip.sel
  BY <1>3, HardResetIs
<1> HIDE DEF h
<1>6. power \in ChipStates /\ power.sel = chip.sel
  BY <1>5 DEF ChipStates, InitialTuner, Parts
<1>7. chip' = IF id = "Unknown" THEN power
              ELSE IF ~ok THEN DownloadFw(power, FALSE)
              ELSE SetTsOutMode(DownloadFw(power, TRUE), "Common")
  BY <1>1 DEF h
<1> HIDE DEF power
<1>8. loaded \in ChipStates /\ loaded.sel = chip.sel
  BY <1>6, RestartedIs DEF SameClock
<1>9. \A b \in BOOLEAN : DownloadFw(power, b) = [loaded EXCEPT !.fw = b]
  BY DEF DownloadFw
<1> HIDE DEF loaded
<1>10. \A b \in BOOLEAN : [loaded EXCEPT !.fw = b] \in ChipStates /\ [loaded EXCEPT !.fw = b].sel = chip.sel
  BY <1>8 DEF ChipStates
<1>11. \A b \in BOOLEAN : DownloadFw(power, b) \in ChipStates /\ DownloadFw(power, b).sel = chip.sel
  BY <1>9, <1>10
<1>12. \A c \in ChipStates : SetTsOutMode(c, "Common") \in ChipStates /\ SetTsOutMode(c, "Common").sel = c.sel
  BY DEF ChipStates, SetTsOutMode
<1>13. chip' \in ChipStates /\ chip'.sel = chip.sel
  BY <1>6, <1>7, <1>11, <1>12
<1> DEFINE r == ResetGlobals(id)
<1>14. r \in Globals
  BY <1>3 DEF Globals, ResetGlobals, Types
<1>15. g' = [r EXCEPT !.set_tuner = TRUE, !.tuner = version, !.InitDone = @ \/ (id # "Unknown" /\ ok)]
  BY <1>1
<1> HIDE DEF r
<1>16. g' \in Globals /\ (Readable => g'.tuner)
  BY <1>4, <1>14, <1>15, ZenonT(60) DEF Globals
<1> QED BY <1>13, <1>16

\* Tuner_Init leaves the front end at rest.
LEMMA StepTuner_Init == ASSUME Alone, Readable, DInv, Tuner_Init PROVE DInv'
<1>1. chip \in ChipStates /\ g \in Globals /\ lnb \in LnbStates /\ (\E k \in Clocks : chip.sel = Mclks[k])
  BY TypeOKIs, SelIs DEF DInv
<1>2. chip' \in ChipStates /\ chip'.sel = chip.sel /\ g' \in Globals /\ g'.tuner
  BY <1>1, Tuner_InitIs
<1> QED BY <1>1, <1>2, CallRests DEF Tuner_Init

\* Tuner_Deinit leaves the clock alone.
LEMMA Tuner_DeinitIs ==
  ASSUME chip \in ChipStates, g \in Globals, Tuner_Deinit
  PROVE  chip' \in ChipStates /\ chip'.sel = chip.sel /\ g' \in Globals /\ g'.tuner = g.tuner
<1>1. PICK id \in {chip.id, "Unknown"} :
        /\ chip' = HardReset(SoftReset(chip), id)
        /\ g' = [ResetGlobals(id) EXCEPT !.InitDone = FALSE]
  BY DEF Tuner_Deinit
<1>3. id \in Chips \cup {"Unknown"}
  BY DEF ChipStates
<1>4. SoftReset(chip) \in ChipStates /\ SoftReset(chip).sel = chip.sel
  BY RestartedIs, HeldIs DEF SoftReset, SameClock
<1>5. chip' \in ChipStates /\ chip'.sel = chip.sel
  BY <1>1, <1>3, <1>4, HardResetIs
<1> DEFINE r == ResetGlobals(id)
<1>6. r \in Globals /\ r.tuner = g.tuner
  BY <1>3 DEF Globals, ResetGlobals, Types
<1> HIDE DEF r
<1>7. g' \in Globals /\ g'.tuner = g.tuner
  BY <1>1, <1>6 DEF Globals, r
<1> QED BY <1>5, <1>7

\* Tuner_Deinit leaves the front end at rest.
LEMMA StepTuner_Deinit == ASSUME Alone, DInv, Tuner_Deinit PROVE DInv'
<1>1. /\ chip \in ChipStates /\ g \in Globals /\ g.tuner /\ lnb \in LnbStates
      /\ \E k \in Clocks : chip.sel = Mclks[k]
  BY TypeOKIs, SelIs DEF DInv
<1>2. chip' \in ChipStates /\ chip'.sel = chip.sel /\ g' \in Globals /\ g'.tuner
  BY <1>1, Tuner_DeinitIs
<1> QED BY <1>1, <1>2, CallRests DEF Tuner_Deinit

\* The calls that touch neither the clock nor the globals.
LEMMA CallsAre ==
  ASSUME chip \in ChipStates, lnb \in LnbStates,
         Sleep \/ WakeUp \/ SetLnbOff \/ SendMessage \/ SendToneBurst
  PROVE  \E c \in ChipStates, l \in LnbStates : c.sel = chip.sel /\ Call(c, l) /\ UNCHANGED g
<1>1. [chip EXCEPT !.awake = {}] \in ChipStates /\ [chip EXCEPT !.awake = {}].sel = chip.sel
  BY DEF ChipStates
<1>2. [chip EXCEPT !.awake = Parts] \in ChipStates /\ [chip EXCEPT !.awake = Parts].sel = chip.sel
  BY DEF ChipStates
<1>3. SetLnb(FALSE, FALSE, 13) \in LnbStates
  BY DEF SetLnb, LnbStates
<1>4. \A a1 \in {"msg", "stop", "burst"} : [lnb EXCEPT !.a1 = a1, !.out = "forced"] \in LnbStates
  BY DEF LnbStates
<1> QED BY <1>1, <1>2, <1>3, <1>4 DEF Sleep, WakeUp, SetLnbOff, SendMessage, SendToneBurst

\* They leave the front end at rest.
LEMMA StepCalls ==
  ASSUME Alone, DInv, Sleep \/ WakeUp \/ SetLnbOff \/ SendMessage \/ SendToneBurst
  PROVE  DInv'
<1>1. /\ chip \in ChipStates /\ g \in Globals /\ g.tuner /\ lnb \in LnbStates
      /\ \E k \in Clocks : chip.sel = Mclks[k]
  BY TypeOKIs, SelIs DEF DInv
<1>2. PICK c \in ChipStates, l \in LnbStates : c.sel = chip.sel /\ Call(c, l) /\ UNCHANGED g
  BY <1>1, CallsAre
<1> QED BY <1>1, <1>2, CallRests DEF Call

\* A change of the output mode sets a clock the driver knows.
LEMMA ChangeTsOutModeIs ==
  ASSUME chip \in ChipStates, g \in Globals, air \in Signals \cup {None},
         NEW mode \in Modes, ChangeTsOutMode(mode)
  PROVE  /\ \E c \in ChipStates : (\E k \in Clocks : c.sel = Mclks[k]) /\ Call(c, lnb)
         /\ g' \in Globals /\ g'.tuner = g.tuner
<1> DEFINE e == SetMclk(chip, ModeMclk(mode))
           c == [e EXCEPT !.mode = mode]
           d == IF IsLocked THEN SetClockRatio(c, air) ELSE c
<1>2. e \in ChipStates /\ \E k \in Clocks : e.sel = Mclks[k]
  BY SetMclkIs
<1>3. Call(d, lnb) /\ g' = [g EXCEPT !.serial = IF IsLocked THEN SerialMclk(air) ELSE @]
  BY DEF ChangeTsOutMode
<1> HIDE DEF e
<1>4. c \in ChipStates /\ \E k \in Clocks : c.sel = Mclks[k]
  BY <1>2 DEF ChipStates, Modes
<1> HIDE DEF c
<1>5. IsLocked => air \in Signals
  BY DEF IsLocked, Receives
<1>6. d \in ChipStates /\ \E k \in Clocks : d.sel = Mclks[k]
  BY <1>4, <1>5, SetClockRatioIs
<1>7. IsLocked => SerialMclk(air) \in Nat
  BY <1>5, SerialMclkIs DEF Clocks
<1>8. g' \in Globals /\ g'.tuner = g.tuner
  BY <1>3, <1>7 DEF Globals
<1> HIDE DEF d
<1> QED BY <1>3, <1>6, <1>8

\* It leaves the front end at rest.
LEMMA StepChangeTsOutMode ==
  ASSUME Alone, DInv, NEW mode \in Modes, ChangeTsOutMode(mode)
  PROVE  DInv'
<1>1. /\ chip \in ChipStates /\ g \in Globals /\ g.tuner /\ lnb \in LnbStates
      /\ air \in Signals \cup {None}
  BY TypeOKIs DEF DInv
<1>2. /\ \E c \in ChipStates : (\E k \in Clocks : c.sel = Mclks[k]) /\ Call(c, lnb)
      /\ g' \in Globals /\ g'.tuner
  BY <1>1, ChangeTsOutModeIs
<1> QED BY <1>1, <1>2, CallRests DEF Call

-----------------------------------------------------------------------------
\* The tuner is asked for a frequency.
LEMMA BesideIsNat == ASSUME NEW t \in Tunings PROVE Beside(t) \in Nat
<1>1. t.freq \in Nat /\ (10700 + 12750) \div 2 = 11725
  BY TuningsAssumption
<1>2. AttenuateFreq(t.freq) \in Nat
  BY <1>1 DEF AttenuateFreq
<1>3. SlowOffset(t.rate) \in Nat
  BY DEF SlowOffset
<1> DEFINE f == AttenuateFreq(t.freq)
           o == SlowOffset(t.rate)
<1> HIDE DEF f, o
<1>4. f \in Nat /\ o \in Nat => f * 1000 + o \in Nat
  OBVIOUS
<1> QED BY <1>2, <1>3, <1>4 DEF Beside, f, o

\* The API and the LNB agree on what a frequency is brought down to.
LEMMA AttenuateIs ==
  ASSUME Consistent, NEW t \in Tunings
  PROVE  AttenuateFreq(t.freq) = Intermediate(t.freq, t.tone) /\ AttenuateFreq(t.freq) \in Int
<1>1. t.freq \in Nat /\ t.freq >= 10700 /\ (t.tone <=> t.freq > 11725) /\ (10700 + 12750) \div 2 = 11725
  BY TuningsAssumption DEF Consistent
<1> QED BY <1>1 DEF AttenuateFreq, Intermediate

\* The offset makes up for where the tuner is.
LEMMA ShiftIs ==
  ASSUME NEW i \in Int, NEW s \in Int, NEW w, NEW n \in Int, w = i * 1000 + s
  PROVE  (n - w) + s \in Int /\ n - ((n - w) + s) = i * 1000
OBVIOUS

\* Beside or not, the chip looks for the frequency the tuning asks for.
LEMMA LooksFor ==
  ASSUME Consistent, ask.tuning \in Tunings
  PROVE  /\ Where \in Nat /\ Shift \in Int
         /\ TunedTo(Where) - Shift = Intermediate(ask.tuning.freq, ask.tuning.tone) * 1000
<1> DEFINE t == ask.tuning
           i == AttenuateFreq(t.freq)
           s == SlowOffset(t.rate)
           w == Where
           n == TunedTo(w)
<1>1. i = Intermediate(t.freq, t.tone) /\ i \in Int
  BY AttenuateIs
<1>2. s \in Int
  BY DEF SlowOffset
<1>3. w \in Nat /\ w = i * 1000 + s
  BY BesideIsNat DEF Where, Beside
<1>4. n \in Nat
  BY <1>3, TunedToIsNat
<1>5. Shift = (n - w) + s
  BY DEF Shift
<1> HIDE DEF i, s, w, n
<1>6. Shift \in Int /\ n - Shift = i * 1000
  BY <1>2, <1>1, <1>3, <1>4, <1>5, ShiftIs
<1> QED BY <1>1, <1>3, <1>6 DEF w, n, t

\* What a connection that had a fair chance finds depends on the type alone.
LEMMA FairSees ==
  ASSUME Consistent, DInv, ask.fair, Past({"release", "spawn"})
  PROVE  /\ air \in Signals /\ Wanted(air, ask.tuning) /\ ask.steady
         /\ Off(chip, air) = 0
         /\ Working(chip) <=> ~chip.held
         /\ Receives(chip, air) <=> ~chip.held /\ Matching
<1>1. Asked
  BY DEF Past, Asked
<1>2. /\ ask.tuning \in Tunings /\ Wanted(air, ask.tuning) /\ chip.awake = Parts /\ chip.fw
      /\ lnb.on /\ lnb.volt = ask.tuning.volt /\ (Tone(lnb) <=> ask.tuning.tone)
      /\ ask.steady
  BY <1>1 DEF DInv, AskFacts
<1>3. air \in Signals /\ air # None
  BY <1>2, TypeOKIs DEF Wanted, DInv
<1>4. chip.freq = TunedTo(Where) /\ chip.offset = Shift /\ chip.rate = ask.tuning.rate
  BY DEF DInv, ConnFacts, Past
<1>5. chip.freq - chip.offset = Intermediate(ask.tuning.freq, ask.tuning.tone) * 1000
  BY <1>2, <1>4, LooksFor
<1>6. /\ air.freq = ask.tuning.freq /\ air.tone = ask.tuning.tone
      /\ air.rate = ask.tuning.rate /\ air.volt = ask.tuning.volt
  BY <1>2 DEF Wanted
<1>7. air.freq \in Nat /\ air.rate \in Nat /\ air.tone \in BOOLEAN
  BY <1>3, SignalsAssumption
<1>8. Intermediate(air.freq, air.tone) \in Int
  BY <1>7 DEF Intermediate
<1> DEFINE m == Intermediate(air.freq, air.tone)
<1>9. Off(chip, air) = Apart(m * 1000, m * 1000)
  BY <1>5, <1>6 DEF Off
<1> HIDE DEF m
<1>10. Off(chip, air) = 0
  BY <1>8, <1>9 DEF Apart, m
<1>11. Working(chip) <=> ~chip.held
  BY <1>2 DEF Working
<1>12. 0 <= air.rate \div 2
  BY <1>7
<1>13. Tone(lnb) = air.tone
  BY <1>2, <1>6, <1>7 DEF Tone
<1>14. Receives(chip, air) <=> ~chip.held /\ Matching
  BY <1>2, <1>3, <1>4, <1>6, <1>10, <1>11, <1>12, <1>13 DEF Receives, Matching
<1> QED BY <1>2, <1>3, <1>10, <1>11, <1>14

-----------------------------------------------------------------------------
\* The cable carries what the tuning asks for.
LEMMA LockIs ==
  ASSUME lnb \in LnbStates, g \in Globals, NEW t \in Tunings, Tuner_Lock_To_Frequency(t)
  PROVE  /\ lnb' \in LnbStates /\ lnb'.on /\ lnb'.volt = t.volt /\ (Tone(lnb') <=> t.tone)
         /\ ask' \in Asks
<1>1. t.tone \in BOOLEAN /\ t.volt \in {13, 18} /\ lnb' = SetLnb(TRUE, t.tone, t.volt)
  BY TuningsAssumption DEF Tuner_Lock_To_Frequency
<1>2. lnb' = [lnb EXCEPT !.on = TRUE, !.volt = t.volt, !.a1 = IF t.tone THEN "tone" ELSE @,
                         !.out = IF t.tone THEN "free" ELSE "forced"]
  BY <1>1 DEF SetLnb
<1>3. ask' \in Asks
  BY DEF Tuner_Lock_To_Frequency, Asks, Globals
<1> QED BY <1>1, <1>2, <1>3 DEF LnbStates, Tone

\* A tuning is asked for.
LEMMA StepLock ==
  ASSUME Alone, DInv, NEW t \in Tunings, Tuner_Lock_To_Frequency(t)
  PROVE  DInv'
<1>1. Polling = {} /\ Polling' = {} /\ user' = "connect" /\ told' = None /\ UNCHANGED <<chip, g, air, poller>>
  BY DEF Tuner_Lock_To_Frequency, Free, Alone, Polling
<1>2. lnb' \in LnbStates /\ lnb'.on /\ lnb'.volt = t.volt /\ (Tone(lnb') <=> t.tone)
  BY LockIs, TypeOKIs DEF DInv
<1>3. ask' \in Asks
  BY LockIs, TypeOKIs DEF DInv
<1>4. /\ ask'.tuning = t /\ ask'.steady = TRUE
      /\ ask'.fair = (Wanted(air, t) /\ chip.awake = Parts /\ chip.fw /\ g.tuner)
  BY DEF Tuner_Lock_To_Frequency
<1>5. TypeOK'
  <2>1. /\ chip' \in ChipStates /\ g' \in Globals /\ air' \in Signals \cup {None}
        /\ poller' \in [Threads -> PollStates]
    BY <1>1, TypeOKIs DEF DInv
  <2> QED BY <1>1, <1>2, <1>3, <2>1 DEF TypeOK, ChipStates, LnbStates, PollStates, Asks
<1>6. g'.tuner /\ SelKnown'
  BY <1>1 DEF DInv, SelKnown
<1>7. OneAtATime'
  BY <1>1 DEF OneAtATime
<1>8. AskFacts'
  BY <1>1, <1>2, <1>4 DEF AskFacts, Asked, Wanted, Tone
<1>9. told' # "LOCKED" /\ told' # "ERROR"
  BY <1>1, Ds3000Assumption
<1>10. ConnFacts' /\ PollFacts' /\ ToldFacts' /\ FairFacts'
  BY <1>1, <1>9 DEF ConnFacts, PollFacts, Past, ToldFacts, FairFacts
<1> QED BY <1>5, <1>6, <1>7, <1>8, <1>9, <1>10 DEF DInv

\* While the connection is made there is no thread, and nothing was told.
LEMMA ConnectingIs ==
  ASSUME DInv, user # "idle"
  PROVE  /\ Polling = {} /\ told = None /\ told # "LOCKED" /\ told # "ERROR"
         /\ Asked /\ ask.tuning \in Tunings
BY Ds3000Assumption DEF DInv, OneAtATime, AskFacts, Asked

\* The frame of a step of the connection.
LEMMA ConnectKeeps ==
  ASSUME DInv, user # "idle", user' \in Users, chip' \in ChipStates, SelKnown', g' \in Globals, g'.tuner,
         chip'.awake = chip.awake, chip'.fw = chip.fw,
         UNCHANGED <<lnb, air, poller, ask, told>>,
         user' # "idle" => ConnFacts',
         ask.fair => /\ user' \in {"program", "release"} => chip'.held /\ chip'.search = "cci"
                     /\ user' = "spawn" => FairSpawn'
  PROVE  DInv'
<1>1. Polling = {} /\ told = None /\ Asked /\ Polling' = {} /\ told' # "LOCKED" /\ told' # "ERROR" /\ told' = None
  BY ConnectingIs DEF Polling
<1>2. TypeOK'
  <2>1. /\ lnb' \in LnbStates /\ air' \in Signals \cup {None} /\ poller' \in [Threads -> PollStates]
        /\ ask' \in Asks
        /\ told' \in {None, "LOCKED", "ERROR"}
    BY TypeOKIs DEF DInv
  <2> QED BY <2>1 DEF TypeOK, ChipStates, LnbStates, Users, PollStates, Asks
<1>3. OneAtATime'
  BY <1>1 DEF OneAtATime
<1>4. AskFacts'
  BY <1>1 DEF DInv, AskFacts, Asked, Tone, Wanted
<1>5. ConnFacts'
  BY <1>1 DEF ConnFacts, Past
<1>6. PollFacts' /\ ToldFacts' /\ FairFacts'
  BY <1>1 DEF PollFacts, ToldFacts, FairFacts
<1> QED BY <1>1, <1>2, <1>3, <1>4, <1>5, <1>6 DEF DInv

\* The globals a connection starts with.
LEMMA ConnectedIs ==
  ASSUME g \in Globals, NEW t \in Tunings, g' = ConnectedGlobals(t)
  PROVE  /\ g' \in Globals /\ g'.tuner = g.tuner /\ g'.connect = t.type /\ g'.rate = t.rate
         /\ g'.check /\ ~g'.auto
         /\ g.dmd_id \in Chips => g'.current = IF t.type = "Unknown" THEN "S" ELSE t.type
<1> DEFINE c == CASE g.dmd_id \notin Chips -> g.current
                  [] g.dmd_id \in Chips /\ t.type = "Unknown" -> "S"
                  [] g.dmd_id \in Chips /\ t.type # "Unknown" -> t.type
<1>1. t.type \in Types \cup {"Unknown"} /\ t.rate \in Nat
  BY TuningsAssumption
<1>2. c \in Types /\ (g.dmd_id \in Chips => c = IF t.type = "Unknown" THEN "S" ELSE t.type)
  <2>1. CASE g.dmd_id \notin Chips
    BY <2>1 DEF Globals
  <2>2. CASE g.dmd_id \in Chips /\ t.type = "Unknown"
    BY <2>2 DEF Types
  <2>3. CASE g.dmd_id \in Chips /\ t.type # "Unknown"
    BY <2>3, <1>1
  <2> QED BY <2>1, <2>2, <2>3
<1>3. g' = [g EXCEPT !.connect = t.type, !.rate = t.rate, !.auto = FALSE, !.cci = TRUE,
                     !.eq = FALSE, !.check = TRUE, !.current = c]
  BY DEF ConnectedGlobals
<1> HIDE DEF c
<1>4. g' \in Globals
  BY <1>1, <1>2, <1>3 DEF Globals
<1>5. /\ g'.tuner = g.tuner /\ g'.connect = t.type /\ g'.rate = t.rate /\ g'.check = TRUE
      /\ g'.auto = FALSE /\ g'.current = c
  BY <1>3 DEF Globals
<1> QED BY <1>2, <1>4, <1>5

\* The connection forgets what the last one found.
LEMMA StepConnectGlobals == ASSUME DInv, ConnectGlobals PROVE DInv'
<1> DEFINE t == ask.tuning
<1>0. user = "connect" /\ UNCHANGED <<lnb, air, poller, ask, told>>
  BY DEF ConnectGlobals
<1>1. /\ chip \in ChipStates /\ g \in Globals /\ g.tuner /\ SelKnown /\ t \in Tunings
      /\ Polling = {} /\ told = None
  BY <1>0, TypeOKIs, ConnectingIs DEF DInv
<1>2. CASE ~g.set_tuner
  <2>1. user' = "idle" /\ UNCHANGED <<chip, g>>
    BY <1>2 DEF ConnectGlobals, Return
  <2> QED BY <1>0, <1>1, <2>1, ConnectKeeps DEF Users, SelKnown
<1>3. CASE g.set_tuner
  <2>1. g' = ConnectedGlobals(t)
    BY <1>3 DEF ConnectGlobals
  <2>3. /\ g' \in Globals /\ g'.tuner /\ g'.connect = t.type /\ g'.rate = t.rate /\ g'.check /\ ~g'.auto
        /\ g.dmd_id \in Chips => g'.current = IF t.type = "Unknown" THEN "S" ELSE t.type
    BY <1>1, <2>1, ConnectedIs
  <2>4. CASE g.dmd_id \notin Chips
    <3>1. user' = "idle" /\ UNCHANGED chip
      BY <1>3, <2>4 DEF ConnectGlobals, Return
    <3> QED BY <1>0, <1>1, <2>3, <3>1, ConnectKeeps DEF Users, SelKnown
  <2>5. CASE g.dmd_id \in Chips
    <3>1. user' = "tune" /\ chip' = IF SeesHold(chip, g.dmd_id) THEN Restarted(chip) ELSE chip
      BY <1>3, <2>5 DEF ConnectGlobals
    <3>2. chip' \in ChipStates /\ chip'.awake = chip.awake /\ chip'.fw = chip.fw /\ chip'.sel = chip.sel
      BY <1>1, <3>1, RestartedIs DEF SamePower, SameClock
    <3>3. SelKnown'
      BY <1>1, <3>2 DEF SelKnown
    <3>4. ConnFacts'
      BY <1>0, <1>1, <2>3, <2>5, <3>1 DEF ConnFacts, Past, Polling
    <3> QED BY <1>0, <2>3, <3>1, <3>2, <3>3, <3>4, ConnectKeeps DEF Users
  <2> QED BY <2>4, <2>5
<1> QED BY <1>2, <1>3

\* The tuner is set and the chip is held.
LEMMA StepConnectTuner == ASSUME Consistent, DInv, ConnectTuner PROVE DInv'
<1> DEFINE c == SetTuner(chip, Where)
<1>0. user = "tune" /\ user' = "program" /\ chip' = Held(c) /\ UNCHANGED <<lnb, g, air, poller, ask, told>>
  BY DEF ConnectTuner, Where
<1>1. /\ chip \in ChipStates /\ g \in Globals /\ g.tuner /\ SelKnown /\ ask.tuning \in Tunings
      /\ Polling = {} /\ told = None
  BY <1>0, TypeOKIs, ConnectingIs DEF DInv
<1>2. Where \in Nat
  BY <1>1, LooksFor
<1>3. c \in ChipStates /\ c.freq = TunedTo(Where) /\ SamePower(chip, c) /\ SameClock(chip, c)
  BY <1>1, <1>2, TunerIs
<1> HIDE DEF c
<1>4. /\ chip' \in ChipStates /\ chip'.freq = TunedTo(Where) /\ chip'.held /\ chip'.search = "cci"
      /\ chip'.awake = chip.awake /\ chip'.fw = chip.fw /\ chip'.sel = chip.sel
  BY <1>0, <1>3, HeldIs DEF SameRadio, SamePower, SameClock
<1>5. SelKnown'
  BY <1>1, <1>4 DEF SelKnown
<1>6. Where' = Where
  BY <1>0 DEF Where, Beside, AttenuateFreq, SlowOffset
<1>7. ConnFacts'
  BY <1>0, <1>1, <1>4, <1>6 DEF DInv, ConnFacts, Past, Polling
<1> QED BY <1>0, <1>1, <1>4, <1>5, <1>7, ConnectKeeps DEF Users

\* The demodulator is programmed, and told where the tuner is.
LEMMA StepConnectDemod == ASSUME Consistent, DInv, ConnectDemod PROVE DInv'
<1> DEFINE khz == TunerOffset(Beside(ask.tuning)) + SlowOffset(ask.tuning.rate)
           c == SetDemod(chip, g.current, ask.tuning.rate)
<1>0. /\ user = "program" /\ user' = "release" /\ chip' = SetCarrierOffset(c, khz)
      /\ g' = [g EXCEPT !.offset = khz] /\ UNCHANGED <<lnb, air, poller, ask, told>>
  BY DEF ConnectDemod
<1>1. /\ chip \in ChipStates /\ g \in Globals /\ g.tuner /\ SelKnown /\ ask.tuning \in Tunings
      /\ Polling = {} /\ told = None
  BY <1>0, TypeOKIs, ConnectingIs DEF DInv
<1>2. Shift \in Int
  BY <1>1, LooksFor
<1>3. khz = Shift
  BY <1>1 DEF TunerOffset, Shift, Where
<1> HIDE DEF khz
<1>4. ask.tuning.rate \in Nat /\ g.current \in Types
  BY <1>1, TuningsAssumption DEF Globals
<1>5. /\ c \in ChipStates /\ SamePower(chip, c) /\ SameState(chip, c)
      /\ c.freq = chip.freq /\ c.type = g.current /\ c.rate = ask.tuning.rate
      /\ c.sel \in {Mclks[192000], Mclks[144000], Mclks[96000]}
  <2> DEFINE type == g.current
             rate == ask.tuning.rate
             d == SetDemod(chip, type, rate)
  <2>1. chip \in ChipStates /\ type \in Types /\ rate \in Nat
    BY <1>1, <1>4
  <2> HIDE DEF type, rate
  <2>2. /\ d \in ChipStates /\ SamePower(chip, d) /\ SameState(chip, d)
        /\ d.freq = chip.freq /\ d.type = type /\ d.rate = rate
        /\ d.sel \in {Mclks[192000], Mclks[144000], Mclks[96000]}
    BY <2>1, SetDemodIs
  <2> QED BY <2>2 DEF type, rate
<1> HIDE DEF c
<1>6. /\ chip' \in ChipStates /\ SamePower(c, chip') /\ SameClock(c, chip') /\ SameState(c, chip')
      /\ chip'.freq = c.freq /\ chip'.offset = Shift /\ chip'.rate = c.rate /\ chip'.type = c.type
  BY <1>0, <1>2, <1>3, <1>5, OffsetIs
<1>7. /\ chip'.awake = chip.awake /\ chip'.fw = chip.fw /\ chip'.held = chip.held
      /\ chip'.search = chip.search /\ chip'.sel = c.sel /\ chip'.freq = chip.freq
      /\ chip'.rate = ask.tuning.rate /\ chip'.type = g.current
  BY <1>5, <1>6 DEF SamePower, SameClock, SameState
<1>8. SelKnown'
  BY <1>5, <1>7, MclksIs DEF SelKnown, Clocks
<1>9. /\ g' \in Globals /\ g'.tuner /\ g'.offset = Shift /\ g'.connect = g.connect /\ g'.rate = g.rate
      /\ g'.current = g.current /\ g'.check = g.check /\ g'.auto = g.auto
  BY <1>0, <1>1, <1>2, <1>3 DEF Globals
<1>10. Where' = Where /\ Shift' = Shift
  BY <1>0 DEF Shift, Where, Beside, AttenuateFreq, SlowOffset, TunedTo
<1>11. ConnFacts'
  BY <1>0, <1>1, <1>5, <1>7, <1>6, <1>9, <1>10 DEF DInv, ConnFacts, Past, Polling
<1>12. ask.fair => chip'.held /\ chip'.search = "cci"
  BY <1>0, <1>7 DEF DInv, FairFacts
<1> QED BY <1>0, <1>6, <1>7, <1>8, <1>9, <1>11, <1>12, ConnectKeeps DEF Users

\* The chip is let go.
LEMMA StepConnectRelease == ASSUME DInv, ConnectRelease PROVE DInv'
<1>0. /\ user = "release" /\ user' = "spawn" /\ chip' = Restarted(chip)
      /\ UNCHANGED <<lnb, g, air, poller, ask, told>>
  BY DEF ConnectRelease, Return
<1>1. /\ chip \in ChipStates /\ g \in Globals /\ g.tuner /\ SelKnown /\ ask.tuning \in Tunings
      /\ Polling = {} /\ told = None
  BY <1>0, TypeOKIs, ConnectingIs DEF DInv
<1>2. /\ chip' \in ChipStates /\ SameRadio(chip, chip') /\ SamePower(chip, chip')
      /\ SameClock(chip, chip') /\ chip'.held = FALSE /\ chip'.search = "cci"
  BY <1>0, <1>1, RestartedIs
<1>3. chip'.awake = chip.awake /\ chip'.fw = chip.fw /\ SelKnown'
  BY <1>1, <1>2 DEF SamePower, SameClock, SelKnown
<1>4. Where' = Where /\ Shift' = Shift
  BY <1>0 DEF Shift, Where, Beside, AttenuateFreq, SlowOffset, TunedTo
<1>5. ConnFacts'
  BY <1>0, <1>1, <1>2, <1>4 DEF DInv, ConnFacts, Past, Polling, SameRadio, SameClock
<1>6. FairSpawn'
  BY <1>2 DEF FairSpawn, OnItsWay
<1> QED BY <1>0, <1>1, <1>2, <1>3, <1>5, <1>6, ConnectKeeps DEF Users

\* The thread that polls starts when the connection is made.
LEMMA StepStartThread == ASSUME DInv, NEW t \in Threads, StartThread(t) PROVE DInv'
<1> DEFINE e == [pc |-> "poll", i |-> 0, state |-> None]
<1>0. /\ user = "spawn" /\ user' = "idle" /\ t \notin Polling
      /\ poller' = [poller EXCEPT ![t] = e]
      /\ UNCHANGED <<chip, lnb, g, air, ask, told>>
  BY DEF StartThread
<1>1. /\ chip \in ChipStates /\ g \in Globals /\ g.tuner /\ SelKnown /\ ask.tuning \in Tunings
      /\ Polling = {} /\ told = None /\ Asked /\ poller \in [Threads -> PollStates]
      /\ told # "LOCKED" /\ told # "ERROR"
  BY <1>0, TypeOKIs, ConnectingIs DEF DInv
<1>2. e \in PollStates /\ None # "Locked" /\ None # "Unlocked"
  BY Ds3000Assumption DEF PollStates
<1>3. poller' \in [Threads -> PollStates] /\ poller'[t].pc = "poll" /\ poller'[t].i = 0 /\ poller'[t].state = None
  BY <1>0, <1>1, <1>2
<1>4. Polling' = {t}
  BY <1>0, <1>1 DEF Polling
<1>5. TypeOK'
  <2>1. /\ chip' \in ChipStates /\ lnb' \in LnbStates /\ g' \in Globals /\ air' \in Signals \cup {None}
        /\ ask' \in Asks
        /\ told' \in {None, "LOCKED", "ERROR"}
    BY <1>0, TypeOKIs DEF DInv
  <2> QED BY <1>0, <1>3, <2>1 DEF TypeOK, ChipStates, LnbStates, PollStates, Asks
<1>6. OneAtATime' /\ SelKnown' /\ g'.tuner
  BY <1>0, <1>1, <1>4 DEF OneAtATime, SelKnown
<1>7. AskFacts'
  BY <1>0, <1>1 DEF DInv, AskFacts, Asked, Tone, Wanted
<1>8. Where' = Where /\ Shift' = Shift
  BY <1>0 DEF Shift, Where, Beside, AttenuateFreq, SlowOffset, TunedTo
<1>9. ConnFacts'
  BY <1>0, <1>8 DEF DInv, ConnFacts, Past
<1>10. chip.type = g.current /\ g.check
  BY <1>0 DEF DInv, ConnFacts
<1>11. PollFact(t)'
  BY <1>0, <1>2, <1>3, <1>10 DEF PollFact
<1>12. ask.fair => FairPoll(t)'
  <2> SUFFICES ASSUME ask.fair PROVE FairPoll(t)'
    OBVIOUS
  <2>1. FairSpawn
    BY <1>0 DEF DInv, FairFacts
  <2>2. FairSpawn'
    BY <1>0, <2>1 DEF FairSpawn, Matching, OnItsWay
  <2>3. Wanted(air, ask.tuning)
    BY <1>1 DEF DInv, AskFacts
  <2>4. ~Matching => ~g.auto /\ g.connect = "Unknown" /\ g.current = "S"
    BY <1>0, <1>10, <2>3 DEF DInv, ConnFacts, Past, Matching, Wanted
  <2>5. Turns' \in Nat /\ 0 <= Turns'
    BY DEF Turns
  <2> QED BY <1>0, <1>2, <1>3, <2>2, <2>4, <2>5 DEF FairPoll, Matching
<1>13. PollFacts' /\ ToldFacts' /\ FairFacts'
  BY <1>0, <1>1, <1>4, <1>11, <1>12 DEF PollFacts, ToldFacts, FairFacts
<1> QED BY <1>0, <1>1, <1>5, <1>6, <1>7, <1>9, <1>13 DEF DInv

-----------------------------------------------------------------------------
\* A thread that polls does it alone.
LEMMA PollerIs ==
  ASSUME DInv, NEW t \in Threads, poller[t].pc # "none"
  PROVE  /\ t \in Polling /\ Polling = {t} /\ user = "idle" /\ told = None
         /\ told # "LOCKED" /\ told # "ERROR" /\ None # "Locked" /\ None # "Unlocked" /\ None # "Waiting"
         /\ Asked /\ ask.tuning \in Tunings /\ Past({"release", "spawn"})
         /\ chip \in ChipStates /\ g \in Globals /\ g.tuner /\ SelKnown
         /\ poller \in [Threads -> PollStates] /\ poller[t] \in PollStates
         /\ PollFact(t) /\ (ask.fair => FairPoll(t))
<1>1. t \in Polling
  BY DEF Polling
<1>2. Polling = {t} /\ user = "idle" /\ told = None
  BY <1>1 DEF DInv, OneAtATime
<1>3. /\ told # "LOCKED" /\ told # "ERROR" /\ None # "Locked" /\ None # "Unlocked" /\ None # "Waiting"
  BY <1>2, Ds3000Assumption
<1>4. Asked /\ ask.tuning \in Tunings /\ Past({"release", "spawn"})
  BY <1>1 DEF DInv, AskFacts, Asked, Past
<1>5. /\ chip \in ChipStates /\ g \in Globals /\ g.tuner /\ SelKnown
      /\ poller \in [Threads -> PollStates]
  BY TypeOKIs DEF DInv
<1>6. PollFact(t) /\ (ask.fair => FairPoll(t))
  BY <1>1 DEF DInv, PollFacts, FairFacts
<1> QED BY <1>1, <1>2, <1>3, <1>4, <1>5, <1>6

\* Chip d looks for what the chip looks for, and its clock is one the driver sets.
Kept(d) ==
  /\ d \in ChipStates /\ (\E k \in Clocks : d.sel = Mclks[k])
  /\ d.freq = chip.freq /\ d.offset = chip.offset /\ d.rate = chip.rate
  /\ d.awake = chip.awake /\ d.fw = chip.fw
  /\ d.mode # "Serial" => d.sel \in {Mclks[192000], Mclks[144000], Mclks[96000]}

\* The frame of a step of the driver under a polling thread.
LEMMA PollKeeps ==
  ASSUME DInv, NEW t \in Threads, poller[t].pc # "none",
         NEW pc \in {"poll", "cci", "bits", "offset", "clock", "unlocked", "other", "reprogram", "ended"},
         NEW i \in 0..Polls - 1, NEW state \in {None, "Waiting", "Locked", "Unlocked"},
         poller' = [poller EXCEPT ![t] = [pc |-> pc, i |-> i, state |-> state]],
         Kept(chip'),
         g' \in Globals, g'.tuner, g'.connect = g.connect, g'.rate = g.rate, g'.offset = g.offset,
         ask.tuning.type # "Unknown" => g'.current = g.current,
         UNCHANGED <<lnb, air, user, told>>, ask'.tuning = ask.tuning, ask'.steady = ask.steady,
         ask' \in Asks, ask'.fair => ask.fair,
         PollFact(t)', ask'.fair => FairPoll(t)'
  PROVE  DInv'
<1> DEFINE e == [pc |-> pc, i |-> i, state |-> state]
<1>1. /\ t \in Polling /\ Polling = {t} /\ user = "idle" /\ told = None
      /\ told # "LOCKED" /\ told # "ERROR"
      /\ Asked /\ ask.tuning \in Tunings /\ poller \in [Threads -> PollStates]
  BY PollerIs
<1>2. e \in PollStates
  BY DEF PollStates
<1>3. poller' \in [Threads -> PollStates] /\ poller'[t].pc = pc
  BY <1>1, <1>2
<1>4. Polling' = {t}
  BY <1>1, <1>3 DEF Polling
<1>0. /\ chip' \in ChipStates /\ SelKnown'
      /\ chip'.freq = chip.freq /\ chip'.offset = chip.offset /\ chip'.rate = chip.rate
      /\ chip'.awake = chip.awake /\ chip'.fw = chip.fw
      /\ chip'.mode # "Serial" => chip'.sel \in {Mclks[192000], Mclks[144000], Mclks[96000]}
  BY MclksIs DEF Kept, SelKnown
<1>5. TypeOK'
  <2>1. /\ lnb' \in LnbStates /\ air' \in Signals \cup {None} /\ user' \in Users
        /\ told' \in {None, "LOCKED", "ERROR"}
    BY TypeOKIs DEF DInv
  <2>2. ask' \in Asks
    OBVIOUS
  <2>3. poller' \in [Threads -> PollStates] /\ chip' \in ChipStates
    BY <1>0, <1>3
  <2> QED BY <2>1, <2>2, <2>3 DEF TypeOK, ChipStates, LnbStates, PollStates, Users, Asks
<1>6. OneAtATime'
  BY <1>1, <1>4 DEF OneAtATime
<1>7. AskFacts'
  BY <1>0, <1>1 DEF DInv, AskFacts, Asked, Tone, Wanted
<1>8. Where' = Where /\ Shift' = Shift
  BY DEF Shift, Where, Beside, AttenuateFreq, SlowOffset, TunedTo
<1>9. ConnFacts'
  BY <1>0, <1>1, <1>4, <1>8 DEF DInv, ConnFacts, Past
<1>10. PollFacts' /\ ToldFacts' /\ FairFacts'
  BY <1>1, <1>4 DEF PollFacts, ToldFacts, FairFacts
<1> QED BY <1>0, <1>1, <1>5, <1>6, <1>7, <1>9, <1>10 DEF DInv

\* Pulsing and holding the chip keep what it looks for.
LEMMA KeptIs ==
  ASSUME DInv, NEW t \in Threads, poller[t].pc # "none"
  PROVE  /\ Kept(chip)
         /\ Kept(Restarted(chip)) /\ Restarted(chip).type = chip.type
         /\ Restarted(chip).held = FALSE /\ Restarted(chip).search = "cci"
         /\ Kept(Held(chip)) /\ Held(chip).type = chip.type
         /\ Held(chip).held = TRUE /\ Held(chip).search = "cci"
<1>1. chip \in ChipStates /\ (\E k \in Clocks : chip.sel = Mclks[k])
  BY PollerIs, SelIs
<1>2. chip.mode # "Serial" => chip.sel \in {Mclks[192000], Mclks[144000], Mclks[96000]}
  BY PollerIs DEF DInv, ConnFacts
<1>3. Kept(chip)
  BY <1>1, <1>2 DEF Kept
<1>4. ASSUME NEW c \in ChipStates, SameRadio(chip, c), SamePower(chip, c), SameClock(chip, c)
      PROVE  Kept(c)
  BY <1>3, <1>4 DEF Kept, SameRadio, SamePower, SameClock
<1>5. Kept(Restarted(chip)) /\ Restarted(chip).type = chip.type
      /\ Restarted(chip).held = FALSE /\ Restarted(chip).search = "cci"
  BY <1>1, <1>4, RestartedIs DEF SameRadio
<1>6. Kept(Held(chip)) /\ Held(chip).type = chip.type
      /\ Held(chip).held = TRUE /\ Held(chip).search = "cci"
  BY <1>1, <1>4, HeldIs DEF SameRadio
<1> QED BY <1>3, <1>5, <1>6

\* The thread finds a chip that is not held, with a fair chance a result.
LEMMA StepPollHold == ASSUME Consistent, DInv, NEW t \in Threads, PollHold(t) PROVE DInv'
<1>0. poller[t].pc = "poll" /\ poller[t].pc # "none"
  BY DEF PollHold
<1>1. /\ PollFact(t) /\ (ask.fair => FairPoll(t)) /\ Kept(chip) /\ g \in Globals /\ g.tuner
      /\ ask \in Asks /\ None # "Locked"
  BY <1>0, PollerIs, KeptIs, TypeOKIs DEF DInv
<1>2. /\ UNCHANGED <<chip, lnb, g, air, user, told>> /\ ask'.tuning = ask.tuning /\ ask'.steady = ask.steady
      /\ ask' \in Asks
      /\ ask'.fair = (ask.fair /\ chip.search \notin {"cci", "run"})
  <2>1. ask' = [ask EXCEPT !.fair = @ /\ chip.search \notin {"cci", "run"}]
    BY DEF PollHold
  <2> QED BY <1>1, <2>1 DEF PollHold, Asks
<1>3. PICK pc \in {"ended", "cci", "bits"}, state \in {"Unlocked", "Waiting"} :
        /\ GoTo(t, pc, state)
        /\ SeesHold(chip, g.dmd_id) \/ (pc \in {"cci", "bits"} /\ state = "Waiting")
  BY <1>0 DEF PollHold, Ended
<1>4. /\ poller' = [poller EXCEPT ![t] = [pc |-> pc, i |-> poller[t].i, state |-> state]]
      /\ poller'[t].pc = pc /\ poller'[t].i = poller[t].i /\ poller'[t].state = state
      /\ poller[t].i \in 0..Polls - 1
  BY <1>0, <1>3, PollerIs, GoesTo
<1>5. PollFact(t)'
  BY <1>0, <1>1, <1>2, <1>4 DEF PollFact
<1>6. ask'.fair => FairPoll(t)'
  <2> SUFFICES ASSUME ask'.fair PROVE FairPoll(t)'
    OBVIOUS
  <2>1. FairPoll(t) /\ chip.search \notin {"cci", "run"}
    BY <1>1, <1>2
  <2>2. FairSpawn /\ ~chip.held
    BY <1>0, <2>1 DEF FairPoll, FairSpawn
  <2>3. pc \in {"cci", "bits"} /\ state = "Waiting"
    BY <1>3, <2>2 DEF SeesHold
  <2>4. FairSpawn' /\ Matching' = Matching /\ Turns' = Turns
    BY <1>2, <2>2 DEF FairSpawn, Matching, OnItsWay, Turns
  <2>5. chip.search = IF Matching THEN "lock" ELSE "miss"
    BY <2>1, <2>2 DEF FairSpawn, OnItsWay
  <2> QED BY <1>0, <1>2, <1>4, <2>1, <2>3, <2>4, <2>5 DEF FairPoll
<1>7. Kept(chip')
  BY <1>1, <1>2
<1> QED BY <1>0, <1>1, <1>2, <1>4, <1>5, <1>6, <1>7, PollKeeps, ZenonT(60)

\* The first result ends the wait for it.
LEMMA StepPollCci == ASSUME Consistent, DInv, NEW t \in Threads, PollCci(t) PROVE DInv'
<1>0. poller[t].pc = "cci" /\ poller[t].pc # "none" /\ UNCHANGED <<chip, lnb, air, user, ask, told>>
  BY DEF PollCci
<1>1. /\ PollFact(t) /\ (ask.fair => FairPoll(t)) /\ Kept(chip) /\ g \in Globals /\ g.tuner
      /\ ask \in Asks /\ None # "Locked"
  BY <1>0, PollerIs, KeptIs, TypeOKIs DEF DInv
<1>2. /\ g' \in Globals /\ g'.tuner /\ g'.connect = g.connect /\ g'.rate = g.rate /\ g'.offset = g.offset
      /\ g'.current = g.current /\ g'.auto = g.auto /\ g'.check = g.check /\ g'.eq = g.eq
  BY <1>1, ZenonT(60) DEF PollCci, Globals
<1>3. PICK pc \in {"ended", "bits"}, state \in {"Unlocked", poller[t].state} :
        /\ GoTo(t, pc, state) /\ (chip.search = "cci" \/ pc = "bits")
  BY DEF PollCci, Ended
<1>4. /\ poller' = [poller EXCEPT ![t] = [pc |-> pc, i |-> poller[t].i, state |-> state]]
      /\ poller'[t].pc = pc /\ poller'[t].i = poller[t].i /\ poller'[t].state = state
      /\ poller[t].i \in 0..Polls - 1 /\ poller[t].state \in {None, "Waiting", "Locked", "Unlocked"}
  BY <1>0, <1>3, PollerIs, GoesTo
<1>5. PollFact(t)'
  BY <1>0, <1>1, <1>2, <1>4 DEF PollFact
<1>6. ask'.fair => FairPoll(t)'
  <2> SUFFICES ASSUME ask.fair PROVE FairPoll(t)'
    BY <1>0
  <2>1. FairPoll(t) /\ chip.search # "cci"
    BY <1>0, <1>1 DEF FairPoll
  <2>2. FairSpawn' /\ Matching' = Matching /\ Turns' = Turns
    BY <1>0, <1>2, <2>1 DEF FairPoll, FairSpawn, Matching, OnItsWay, Turns
  <2> QED BY <1>0, <1>2, <1>3, <1>4, <2>1, <2>2 DEF FairPoll
<1> QED BY <1>0, <1>1, <1>2, <1>4, <1>5, <1>6, PollKeeps, ZenonT(60)

\* The echo costs a poll, once.
LEMMA StepEchoReset == ASSUME Consistent, DInv, NEW t \in Threads, EchoReset(t) PROVE DInv'
<1>0. /\ poller[t].pc = "bits" /\ poller[t].pc # "none" /\ UNCHANGED <<lnb, air, user, ask, told>>
      /\ g.current = "S2" /\ ~g.eq /\ chip.search \in {"run", "lock"} /\ chip' = Restarted(chip)
      /\ GoTo(t, "unlocked", poller[t].state)
  BY DEF EchoReset
<1>1. /\ PollFact(t) /\ (ask.fair => FairPoll(t)) /\ g \in Globals /\ g.tuner
      /\ ask \in Asks /\ Kept(chip') /\ chip'.type = chip.type
      /\ chip'.held = FALSE /\ chip'.search = "cci"
  BY <1>0, PollerIs, KeptIs, TypeOKIs DEF DInv
<1>2. /\ g' \in Globals /\ g'.tuner /\ g'.connect = g.connect /\ g'.rate = g.rate /\ g'.offset = g.offset
      /\ g'.current = g.current /\ g'.auto = g.auto /\ g'.check = TRUE /\ g'.eq = TRUE
  BY <1>1 DEF EchoReset, Globals
<1>4. /\ poller' = [poller EXCEPT ![t] = [pc |-> "unlocked", i |-> poller[t].i, state |-> poller[t].state]]
      /\ poller'[t].pc = "unlocked" /\ poller'[t].i = poller[t].i /\ poller'[t].state = poller[t].state
      /\ poller[t].i \in 0..Polls - 1 /\ poller[t].state \in {None, "Waiting", "Locked", "Unlocked"}
  BY <1>0, PollerIs, GoesTo
<1>5. PollFact(t)'
  BY <1>0, <1>1, <1>2, <1>4 DEF PollFact
<1>6. ask'.fair => FairPoll(t)'
  <2> SUFFICES ASSUME ask.fair PROVE FairPoll(t)'
    BY <1>0
  <2>1. FairPoll(t) /\ Matching /\ poller[t].i <= 1
    BY <1>0, <1>1 DEF FairPoll, Turns
  <2>2. FairSpawn' /\ Matching' /\ Turns' = 2
    BY <1>0, <1>1, <1>2, <2>1 DEF FairSpawn, Matching, OnItsWay, Turns
  <2>3. poller[t].i + 1 <= 2
    BY <1>4, <2>1
  <2> QED BY <1>4, <2>2, <2>3 DEF FairPoll
<1> QED BY <1>0, <1>1, <1>2, <1>4, <1>5, <1>6, PollKeeps

\* The lock bits of the chip count for its type.
LEMMA StepPollBits == ASSUME Consistent, DInv, NEW t \in Threads, PollBits(t) PROVE DInv'
<1>0. poller[t].pc = "bits" /\ poller[t].pc # "none" /\ UNCHANGED <<chip, lnb, air, user, ask, told>>
  BY DEF PollBits
<1>1. /\ PollFact(t) /\ (ask.fair => FairPoll(t)) /\ Kept(chip) /\ g \in Globals /\ g.tuner
      /\ ask \in Asks /\ None # "Locked" /\ Past({"release", "spawn"})
  BY <1>0, PollerIs, KeptIs, TypeOKIs DEF DInv
<1>2. CASE IsLocked /\ chip.type = g.current
  <2>1. GoTo(t, "offset", "Locked") /\ g' = [g EXCEPT !.auto = TRUE]
    BY <1>2 DEF PollBits
  <2>2. /\ g' \in Globals /\ g'.tuner /\ g'.connect = g.connect /\ g'.rate = g.rate /\ g'.offset = g.offset
        /\ g'.current = g.current /\ g'.auto = TRUE /\ g'.check = g.check /\ g'.eq = g.eq
    BY <1>1, <2>1 DEF Globals
  <2>3. /\ poller' = [poller EXCEPT ![t] = [pc |-> "offset", i |-> poller[t].i, state |-> "Locked"]]
        /\ poller'[t].pc = "offset" /\ poller'[t].i = poller[t].i /\ poller'[t].state = "Locked"
        /\ poller[t].i \in 0..Polls - 1
    BY <1>0, <2>1, PollerIs, GoesTo
  <2>4. IsLocked' /\ Working(chip)'
    BY <1>0, <1>2 DEF IsLocked, Receives, Off, Tone, Working
  <2>5. PollFact(t)'
    BY <1>0, <1>1, <2>2, <2>3, <2>4 DEF PollFact
  <2>6. ask'.fair => FairPoll(t)'
    <3> SUFFICES ASSUME ask.fair PROVE FairPoll(t)'
      BY <1>0
    <3>1. FairPoll(t) /\ Matching
      BY <1>0, <1>1, <1>2, FairSees DEF FairPoll, IsLocked
    <3>2. FairSpawn' /\ Matching' /\ Turns' = Turns
      BY <1>0, <2>2, <3>1 DEF FairPoll, FairSpawn, Matching, OnItsWay, Turns
    <3> QED BY <2>3, <3>2 DEF FairPoll
  <2> QED BY <1>0, <1>1, <2>2, <2>3, <2>5, <2>6, PollKeeps
<1>3. CASE ~(IsLocked /\ chip.type = g.current)
  <2>1. GoTo(t, "unlocked", poller[t].state) /\ g' = [g EXCEPT !.check = TRUE]
    BY <1>3 DEF PollBits
  <2>2. /\ g' \in Globals /\ g'.tuner /\ g'.connect = g.connect /\ g'.rate = g.rate /\ g'.offset = g.offset
        /\ g'.current = g.current /\ g'.auto = g.auto /\ g'.check = TRUE /\ g'.eq = g.eq
    BY <1>1, <2>1 DEF Globals
  <2>3. /\ poller' = [poller EXCEPT ![t] = [pc |-> "unlocked", i |-> poller[t].i, state |-> poller[t].state]]
        /\ poller'[t].pc = "unlocked" /\ poller'[t].i = poller[t].i /\ poller'[t].state = poller[t].state
        /\ poller[t].i \in 0..Polls - 1 /\ poller[t].state \in {None, "Waiting", "Locked", "Unlocked"}
    BY <1>0, <2>1, PollerIs, GoesTo
  <2>4. PollFact(t)'
    BY <1>0, <1>1, <2>2, <2>3 DEF PollFact
  <2>5. ask'.fair => FairPoll(t)'
    <3> SUFFICES ASSUME ask.fair PROVE FairPoll(t)'
      BY <1>0
    <3>1. FairPoll(t) /\ FairSpawn /\ ~chip.held /\ chip.type = g.current
      BY <1>0, <1>1 DEF FairPoll, FairSpawn, PollFact
    <3>2. ~Matching
      BY <1>0, <1>1, <1>3, <3>1, FairSees DEF FairPoll, IsLocked
    <3>3. FairSpawn' /\ ~Matching' /\ Turns' = Turns
      BY <1>0, <2>2, <3>1, <3>2 DEF FairPoll, FairSpawn, Matching, OnItsWay, Turns
    <3> QED BY <1>0, <2>2, <2>3, <3>1, <3>2, <3>3 DEF FairPoll
  <2> QED BY <1>0, <1>1, <2>2, <2>3, <2>4, <2>5, PollKeeps
<1> QED BY <1>2, <1>3

\* A neighbour is let go.
LEMMA StepPollOffset == ASSUME Consistent, DInv, NEW t \in Threads, PollOffset(t) PROVE DInv'
<1>0. poller[t].pc = "offset" /\ poller[t].pc # "none" /\ UNCHANGED <<lnb, g, air, user, ask, told>>
  BY DEF PollOffset
<1>1. /\ PollFact(t) /\ (ask.fair => FairPoll(t)) /\ Kept(chip) /\ g \in Globals /\ g.tuner
      /\ ask \in Asks /\ None # "Locked" /\ Past({"release", "spawn"})
      /\ Kept(Held(chip)) /\ Held(chip).type = chip.type
      /\ Held(chip).held = TRUE /\ Held(chip).search = "cci"
  BY <1>0, PollerIs, KeptIs, TypeOKIs DEF DInv
<1>2. /\ Working(chip) /\ ~chip.held /\ chip.type = g.current
      /\ (ask.steady => IsLocked) /\ (~g.check => ~ask.steady)
  BY <1>0, <1>1 DEF PollFact, Working
<1>3. PICK khz \in TotalOffset :
        IF khz >= 4000 THEN GoTo(t, "clock", "Unlocked") /\ chip' = Held(chip)
                       ELSE GoTo(t, "clock", "Locked") /\ UNCHANGED chip
  BY DEF PollOffset
<1>4. CASE khz >= 4000
  <2>1. GoTo(t, "clock", "Unlocked") /\ chip' = Held(chip)
    BY <1>3, <1>4
  <2>2. /\ poller' = [poller EXCEPT ![t] = [pc |-> "clock", i |-> poller[t].i, state |-> "Unlocked"]]
        /\ poller'[t].pc = "clock" /\ poller'[t].i = poller[t].i /\ poller'[t].state = "Unlocked"
        /\ poller[t].i \in 0..Polls - 1
    BY <1>0, <2>1, PollerIs, GoesTo
  <2>3. PollFact(t)'
    BY <1>0, <1>1, <1>2, <2>1, <2>2 DEF PollFact
  <2>4. ~ask.fair
    <3> SUFFICES ASSUME ask.fair PROVE FALSE
      OBVIOUS
    <3>1. Off(chip, air) = 0 /\ ask.steady
      BY <1>1, FairSees
    <3> QED BY <1>2, <1>3, <1>4, <3>1 DEF TotalOffset
  <2> QED BY <1>0, <1>1, <2>1, <2>2, <2>3, <2>4, PollKeeps
<1>5. CASE ~(khz >= 4000)
  <2>1. GoTo(t, "clock", "Locked") /\ chip' = chip
    BY <1>3, <1>5
  <2>2. /\ poller' = [poller EXCEPT ![t] = [pc |-> "clock", i |-> poller[t].i, state |-> "Locked"]]
        /\ poller'[t].pc = "clock" /\ poller'[t].i = poller[t].i /\ poller'[t].state = "Locked"
        /\ poller[t].i \in 0..Polls - 1
    BY <1>0, <2>1, PollerIs, GoesTo
  <2>3. ask.steady => Near
    <3> SUFFICES ASSUME ask.steady PROVE Near
      OBVIOUS
    <3>1. IsLocked /\ khz = Off(chip, air)
      BY <1>2, <1>3 DEF TotalOffset
    <3>2. Off(chip, air) \in Int
      <4>1. air \in Signals /\ chip \in ChipStates
        BY <1>0, <3>1, PollerIs, TypeOKIs DEF IsLocked, Receives, DInv
      <4>2. air.freq \in Nat /\ chip.freq \in Int /\ chip.offset \in Int
        BY <4>1, SignalsAssumption DEF ChipStates
      <4> QED BY <4>2 DEF Off, Apart, Intermediate
    <3> QED BY <1>5, <3>1, <3>2 DEF Near
  <2>4. (Near => Near') /\ Working(chip)'
    BY <1>0, <1>2, <2>1 DEF Near, IsLocked, Receives, Off, Tone, Working
  <2>5. PollFact(t)'
    BY <1>0, <1>1, <1>2, <2>1, <2>2, <2>3, <2>4 DEF PollFact
  <2>6. ask'.fair => FairPoll(t)'
    <3> SUFFICES ASSUME ask.fair PROVE FairPoll(t)'
      BY <1>0
    <3>1. FairSpawn' /\ Matching'
      BY <1>0, <1>1, <2>1 DEF FairPoll, FairSpawn, Matching, OnItsWay
    <3> QED BY <2>2, <3>1 DEF FairPoll
  <2> QED BY <1>0, <1>1, <2>1, <2>2, <2>5, <2>6, PollKeeps
<1> QED BY <1>4, <1>5

\* The divider is set if it is not that of this lock.
LEMMA StepPollClock == ASSUME Consistent, DInv, NEW t \in Threads, PollClock(t) PROVE DInv'
<1> DEFINE s == IF IsLocked THEN air ELSE None
           i == poller[t].i
           state == poller[t].state
<1>0. /\ poller[t].pc = "clock" /\ poller[t].pc # "none" /\ UNCHANGED <<lnb, air, user, ask, told>>
      /\ chip' = IF g.check THEN SetClockRatio(chip, s) ELSE chip
      /\ g' = [g EXCEPT !.check = FALSE,
                        !.serial = IF g.check /\ s # None THEN SerialMclk(s) ELSE @]
      /\ GoTo(t, "ended", state)
  BY DEF PollClock, Ended
<1>1. /\ PollFact(t) /\ (ask.fair => FairPoll(t)) /\ Kept(chip) /\ g \in Globals /\ g.tuner
      /\ ask \in Asks /\ Past({"release", "spawn"}) /\ chip \in ChipStates
  BY <1>0, PollerIs, KeptIs, TypeOKIs DEF DInv
<1>2. IsLocked => air \in Signals /\ air # None
  BY TypeOKIs DEF DInv, IsLocked, Receives
<1>3. /\ g' \in Globals /\ g'.tuner /\ g'.connect = g.connect /\ g'.rate = g.rate /\ g'.offset = g.offset
      /\ g'.current = g.current /\ g'.auto = g.auto /\ g'.check = FALSE /\ g'.eq = g.eq
  <2>1. s # None => SerialMclk(s) \in Nat
    BY <1>2, SerialMclkIs DEF Clocks
  <2> DEFINE serial == IF g.check /\ s # None THEN SerialMclk(s) ELSE g.serial
  <2>2. serial \in Nat
    BY <1>1, <2>1 DEF Globals
  <2>3. g' = [g EXCEPT !.check = FALSE, !.serial = serial]
    BY <1>0
  <2> HIDE DEF serial
  <2> QED BY <1>1, <2>2, <2>3 DEF Globals
<1>4. /\ poller' = [poller EXCEPT ![t] = [pc |-> "ended", i |-> i, state |-> state]]
      /\ poller'[t].pc = "ended" /\ poller'[t].i = i /\ poller'[t].state = state
      /\ i \in 0..Polls - 1 /\ state \in {None, "Waiting", "Locked", "Unlocked"}
  BY <1>0, PollerIs, GoesTo
<1>5. PICK k \in Clocks : chip.sel = Mclks[k]
  BY <1>1 DEF Kept
<1>6. chip.mode # "Serial" => k \in {192000, 144000, 96000} /\ k >= 96000
  BY <1>1, <1>5, MclksIs DEF Kept, Clocks
<1>7. /\ Kept(chip') /\ SameState(chip, chip') /\ chip'.type = chip.type
      /\ g.check /\ IsLocked /\ Carried =>
           GetMclk(chip') >= DataRate(air) * (IF chip'.mode = "Serial" THEN 8 ELSE chip'.ratio)
  <2>1. CASE g.check /\ IsLocked
    <3> DEFINE d == SetClockRatio(chip, air)
    <3>1. chip' = d /\ (Carried => 8 * DataRate(air) <= Limit(air))
      BY <1>0, <1>2, <2>1 DEF Carried, Limit
    <3>2. /\ d \in ChipStates /\ SameRadio(chip, d) /\ SamePower(chip, d) /\ SameState(chip, d)
          /\ d.mode = chip.mode /\ (\E j \in Clocks : d.sel = Mclks[j])
          /\ chip.mode # "Serial" => d.sel = chip.sel
          /\ 8 * DataRate(air) <= Limit(air) /\ (chip.mode # "Serial" => k >= 96000)
               => GetMclk(d) >= DataRate(air) * (IF d.mode = "Serial" THEN 8 ELSE d.ratio)
      BY <1>1, <1>2, <1>5, <2>1, SetClockRatioIs
    <3> HIDE DEF d
    <3>3. Kept(d)
      BY <1>1, <3>2 DEF Kept, SameRadio, SamePower
    <3> QED BY <1>6, <3>1, <3>2, <3>3 DEF SameRadio
  <2>2. CASE ~(g.check /\ IsLocked)
    <3>1. SetClockRatio(chip, None) = chip
      BY DEF SetClockRatio
    <3>2. chip' = chip
      BY <1>0, <2>2, <3>1
    <3> QED BY <1>1, <2>2, <3>2 DEF SameState
  <2> QED BY <2>1, <2>2
<1>8. Working(chip') <=> Working(chip)
  BY <1>7 DEF Working, Kept, SameState
<1>9. Near => Near'
  BY <1>0, <1>7, <1>8 DEF Near, IsLocked, Receives, Off, Tone, Kept, SameState
<1>10. state = "Locked" /\ ask.steady => g.check /\ IsLocked
  BY <1>0, <1>1 DEF PollFact, Working, Near
<1>11. state = "Locked" /\ ask.steady => KeepsUp'
  BY <1>0, <1>7, <1>10 DEF KeepsUp, Carried
<1>12. PollFact(t)'
  <2>1. /\ state = "Locked" => Working(chip') /\ (ask.steady => Near')
        /\ state = "Locked" \/ (chip'.held /\ chip'.search = "cci")
        /\ chip'.type = g'.current
    BY <1>0, <1>1, <1>3, <1>7, <1>8, <1>9 DEF PollFact, SameState
  <2> QED BY <1>0, <1>3, <1>4, <1>11, <2>1 DEF PollFact
<1>13. ask'.fair => FairPoll(t)'
  <2> SUFFICES ASSUME ask.fair PROVE FairPoll(t)'
    BY <1>0
  <2>1. FairSpawn' /\ Matching' /\ state = "Locked"
    BY <1>0, <1>1, <1>7 DEF FairPoll, FairSpawn, Matching, OnItsWay, SameState
  <2> QED BY <1>4, <2>1 DEF FairPoll
<1> HIDE DEF s, i, state
<1> QED BY <1>0, <1>1, <1>3, <1>4, <1>7, <1>12, <1>13, PollKeeps

\* What the search has come to ends the poll or tries the other type.
LEMMA StepPollSearch == ASSUME Consistent, DInv, NEW t \in Threads, PollSearch(t) PROVE DInv'
<1> DEFINE i == poller[t].i
           state == poller[t].state
<1>0. poller[t].pc = "unlocked" /\ poller[t].pc # "none" /\ UNCHANGED <<lnb, g, air, user, ask, told>>
  BY DEF PollSearch
<1>1. /\ PollFact(t) /\ (ask.fair => FairPoll(t)) /\ Kept(chip) /\ g \in Globals /\ g.tuner
      /\ ask \in Asks /\ None # "Locked" /\ Asked
      /\ Kept(Restarted(chip)) /\ Restarted(chip).type = chip.type
      /\ Restarted(chip).held = FALSE /\ Restarted(chip).search = "cci"
  BY <1>0, PollerIs, KeptIs, TypeOKIs DEF DInv
<1>2. state # "Locked" /\ chip.type = g.current /\ g.check
  BY <1>0, <1>1 DEF PollFact
<1>3. g.connect = ask.tuning.type
  BY <1>0, PollerIs DEF DInv, ConnFacts, Past
<1>4. ASSUME NEW q \in {"Unlocked", state}, GoTo(t, "ended", q), chip' = chip \/ chip' = Restarted(chip),
             ask.fair => chip' = chip /\ Matching
      PROVE  DInv'
  <2>1. /\ poller' = [poller EXCEPT ![t] = [pc |-> "ended", i |-> i, state |-> q]]
        /\ poller'[t].pc = "ended" /\ poller'[t].i = i /\ poller'[t].state = q
        /\ i \in 0..Polls - 1 /\ q \in {None, "Waiting", "Locked", "Unlocked"}
    BY <1>0, <1>4, PollerIs, GoesTo
  <2>2. Kept(chip') /\ chip'.type = chip.type
    BY <1>1, <1>4
  <2>3. PollFact(t)'
    BY <1>0, <1>2, <2>1, <2>2 DEF PollFact
  <2>4. ask'.fair => FairPoll(t)'
    <3> SUFFICES ASSUME ask.fair PROVE FairPoll(t)'
      BY <1>0
    <3>1. chip' = chip /\ Matching /\ FairSpawn /\ i + 1 <= Turns
      BY <1>0, <1>1, <1>4 DEF FairPoll
    <3>2. FairSpawn' /\ Matching' /\ Turns' = Turns
      BY <1>0, <3>1 DEF FairSpawn, Matching, OnItsWay, Turns
    <3> QED BY <2>1, <3>1, <3>2 DEF FairPoll
  <2> HIDE DEF i, state
  <2> QED BY <1>0, <1>1, <2>1, <2>2, <2>3, <2>4, PollKeeps
<1>5. ask.fair => IF Matching THEN chip.search \in {"cci", "run", "lock"}
                              ELSE g.connect = "Unknown" /\ ~g.auto /\ chip.search = "miss"
  BY <1>0, <1>1 DEF FairPoll, FairSpawn, OnItsWay
<1>6. CASE g.connect # "Unknown" /\ chip.search \in {"miss", "fail"} /\ Ended(t, "Unlocked") /\ UNCHANGED chip
  BY <1>4, <1>5, <1>6 DEF Ended
<1>7. CASE g.connect = "Unknown" /\ chip.search = "fail" /\ Ended(t, "Unlocked") /\ chip' = Restarted(chip)
  BY <1>4, <1>5, <1>7 DEF Ended
<1>8. CASE /\ chip.search = "miss" => g.connect = "Unknown" /\ g.auto
           /\ Ended(t, state) /\ UNCHANGED chip
  BY <1>4, <1>5, <1>8 DEF Ended
<1>9. CASE /\ g.connect = "Unknown" /\ chip.search = "miss" /\ ~g.auto
           /\ GoTo(t, "other", state) /\ UNCHANGED chip
  <2>1. /\ poller' = [poller EXCEPT ![t] = [pc |-> "other", i |-> i, state |-> state]]
        /\ poller'[t].pc = "other" /\ poller'[t].i = i /\ poller'[t].state = state
        /\ i \in 0..Polls - 1 /\ state \in {None, "Waiting", "Locked", "Unlocked"}
    BY <1>0, <1>9, PollerIs, GoesTo
  <2>2. PollFact(t)'
    BY <1>0, <1>2, <1>3, <1>9, <2>1 DEF PollFact
  <2>3. ask'.fair => FairPoll(t)'
    <3> SUFFICES ASSUME ask.fair PROVE FairPoll(t)'
      BY <1>0
    <3>1. FairPoll(t) /\ ~Matching
      BY <1>1, <1>5, <1>9
    <3>2. FairSpawn' /\ ~Matching'
      BY <1>0, <1>9, <3>1 DEF FairPoll, FairSpawn, Matching, OnItsWay
    <3> QED BY <1>0, <1>9, <2>1, <3>1, <3>2 DEF FairPoll
  <2>4. Kept(chip')
    BY <1>1, <1>9
  <2> HIDE DEF i, state
  <2> QED BY <1>0, <1>1, <2>1, <2>2, <2>3, <2>4, PollKeeps
<1> QED BY <1>6, <1>7, <1>8, <1>9 DEF PollSearch

\* The other type is tried with the same offset.
LEMMA StepOtherType == ASSUME Consistent, DInv, NEW t \in Threads, OtherType(t) PROVE DInv'
<1> DEFINE i == poller[t].i
           state == poller[t].state
           r == SetCarrierOffset(chip, 0)
           c == SetCarrierOffset(r, g.offset)
<1>0. /\ poller[t].pc = "other" /\ poller[t].pc # "none" /\ UNCHANGED <<lnb, air, user, ask, told>>
      /\ g' = [g EXCEPT !.current = IF @ = "S" THEN "S2" ELSE "S"]
      /\ GoTo(t, "reprogram", state)
  BY DEF OtherType
<1>1. /\ PollFact(t) /\ (ask.fair => FairPoll(t)) /\ Kept(chip) /\ g \in Globals /\ g.tuner
      /\ ask \in Asks /\ None # "Locked" /\ Past({"release", "spawn"}) /\ chip \in ChipStates
      /\ ask.tuning \in Tunings
  BY <1>0, PollerIs, KeptIs, TypeOKIs DEF DInv
<1>2. chip' = Held(c)
  BY <1>1, GlobalResetIs DEF OtherType
<1>3. chip.offset = Shift /\ g.offset = Shift /\ Shift \in Int
  BY <1>1, LooksFor DEF DInv, ConnFacts, Past
<1>4. /\ r \in ChipStates /\ r.freq = chip.freq /\ r.rate = chip.rate
      /\ SamePower(chip, r) /\ SameClock(chip, r)
  BY <1>1, OffsetIs
<1> HIDE DEF r
<1>5. /\ c \in ChipStates /\ c.freq = chip.freq /\ c.offset = chip.offset /\ c.rate = chip.rate
      /\ SamePower(r, c) /\ SameClock(r, c)
  BY <1>3, <1>4, OffsetIs
<1> HIDE DEF c
<1>6. /\ chip' \in ChipStates /\ SameRadio(c, chip') /\ SamePower(c, chip') /\ SameClock(c, chip')
  BY <1>2, <1>5, HeldIs
<1>7. /\ chip'.freq = chip.freq /\ chip'.offset = chip.offset /\ chip'.rate = chip.rate
      /\ chip'.awake = chip.awake /\ chip'.fw = chip.fw /\ chip'.sel = chip.sel /\ chip'.mode = chip.mode
  BY <1>4, <1>5, <1>6 DEF SameRadio, SamePower, SameClock
<1>8. Kept(chip')
  BY <1>1, <1>6, <1>7 DEF Kept
<1>9. /\ poller' = [poller EXCEPT ![t] = [pc |-> "reprogram", i |-> i, state |-> state]]
      /\ poller'[t].pc = "reprogram" /\ poller'[t].i = i /\ poller'[t].state = state
      /\ i \in 0..Polls - 1 /\ state \in {None, "Waiting", "Locked", "Unlocked"}
  BY <1>0, PollerIs, GoesTo
<1>10. /\ g' \in Globals /\ g'.tuner /\ g'.connect = g.connect /\ g'.rate = g.rate /\ g'.offset = g.offset
       /\ g'.check = g.check /\ g'.current = IF g.current = "S" THEN "S2" ELSE "S"
  BY <1>0, <1>1 DEF Globals, Types
<1>11. ask.tuning.type = "Unknown" /\ g.check /\ state # "Locked" /\ chip.type = g.current
  BY <1>0, <1>1 DEF PollFact
<1>12. PollFact(t)'
  BY <1>0, <1>9, <1>10, <1>11 DEF PollFact
<1>13. ask'.fair => FairPoll(t)'
  <2> SUFFICES ASSUME ask.fair PROVE FairPoll(t)'
    BY <1>0
  <2>1. ~Matching /\ g.current = "S" /\ i = 0
    BY <1>0, <1>1 DEF FairPoll
  <2>2. air.type \in Types
    BY <1>1, FairSees, SignalsAssumption
  <2>3. g'.current = air.type
    BY <1>10, <1>11, <2>1, <2>2 DEF Matching, Types
  <2> QED BY <1>0, <1>9, <2>1, <2>3 DEF FairPoll
<1> HIDE DEF i, state
<1> QED BY <1>0, <1>1, <1>8, <1>9, <1>10, <1>11, <1>12, <1>13, PollKeeps

\* The other type is tried with the same symbol rate.
LEMMA StepReprogram == ASSUME Consistent, DInv, NEW t \in Threads, Reprogram(t) PROVE DInv'
<1> DEFINE i == poller[t].i
           state == poller[t].state
           type == g.current
           rate == g.rate
           c == SetDemod(chip, type, rate)
<1>0. /\ poller[t].pc = "reprogram" /\ poller[t].pc # "none" /\ UNCHANGED <<lnb, g, air, user, ask, told>>
      /\ chip' = Restarted(c) /\ GoTo(t, "ended", state)
  BY DEF Reprogram, Ended
<1>1. /\ PollFact(t) /\ (ask.fair => FairPoll(t)) /\ Kept(chip) /\ g \in Globals /\ g.tuner
      /\ ask \in Asks /\ None # "Locked" /\ Past({"release", "spawn"}) /\ chip \in ChipStates
      /\ ask.tuning \in Tunings
  BY <1>0, PollerIs, KeptIs, TypeOKIs DEF DInv
<1>2. type \in Types /\ rate \in Nat /\ rate = chip.rate
  BY <1>1 DEF Globals, DInv, ConnFacts, Past
<1>3. /\ poller' = [poller EXCEPT ![t] = [pc |-> "ended", i |-> i, state |-> state]]
      /\ poller'[t].pc = "ended" /\ poller'[t].i = i /\ poller'[t].state = state
      /\ i \in 0..Polls - 1 /\ state \in {None, "Waiting", "Locked", "Unlocked"}
  BY <1>0, PollerIs, GoesTo
<1>4. state # "Locked" /\ g.check
  BY <1>0, <1>1 DEF PollFact
<1>5. ask.fair => g.current = air.type /\ i = 0
  BY <1>0, <1>1 DEF FairPoll
<1> HIDE DEF type, rate
<1>6. /\ c \in ChipStates /\ SamePower(chip, c)
      /\ c.freq = chip.freq /\ c.offset = chip.offset /\ c.type = type /\ c.rate = rate
      /\ c.sel \in {Mclks[192000], Mclks[144000], Mclks[96000]}
  BY <1>1, <1>2, SetDemodIs
<1> HIDE DEF c
<1>7. /\ chip' \in ChipStates /\ SameRadio(c, chip') /\ SamePower(c, chip') /\ SameClock(c, chip')
      /\ chip'.held = FALSE /\ chip'.search = "cci"
  <2>1. chip' = Restarted(c) /\ c \in ChipStates
    BY <1>0, <1>6
  <2> QED BY <2>1, RestartedIs
<1>8. /\ chip'.freq = chip.freq /\ chip'.offset = chip.offset /\ chip'.rate = chip.rate
      /\ chip'.awake = chip.awake /\ chip'.fw = chip.fw /\ chip'.sel = c.sel /\ chip'.type = g.current
  BY <1>2, <1>6, <1>7 DEF SameRadio, SamePower, SameClock, type
<1>9. Kept(chip')
  BY <1>6, <1>7, <1>8 DEF Kept, Clocks
<1>10. PollFact(t)'
  BY <1>0, <1>3, <1>4, <1>8 DEF PollFact
<1>11. ask'.fair => FairPoll(t)'
  <2> SUFFICES ASSUME ask.fair PROVE FairPoll(t)'
    BY <1>0
  <2>1. FairSpawn' /\ Matching'
    BY <1>0, <1>5, <1>7, <1>8 DEF FairSpawn, Matching, OnItsWay
  <2>2. i + 1 <= Turns'
    BY <1>5 DEF Turns
  <2> QED BY <1>3, <2>1, <2>2 DEF FairPoll
<1> HIDE DEF i, state
<1> QED BY <1>0, <1>1, <1>3, <1>9, <1>10, <1>11, PollKeeps

\* A poll without a lock is followed by another.
LEMMA StepPollAgain == ASSUME Consistent, DInv, NEW t \in Threads, PollAgain(t) PROVE DInv'
<1> DEFINE i == poller[t].i + 1
<1>0. /\ poller[t].pc = "ended" /\ poller[t].pc # "none" /\ UNCHANGED <<chip, lnb, g, air, user, ask, told>>
      /\ poller[t].state # "Locked" /\ i < Polls
      /\ poller' = [poller EXCEPT ![t] = [pc |-> "poll", i |-> @.i + 1, state |-> None]]
  BY DEF PollAgain
<1>1. /\ PollFact(t) /\ (ask.fair => FairPoll(t)) /\ Kept(chip) /\ g \in Globals /\ g.tuner
      /\ ask \in Asks /\ None # "Locked" /\ poller \in [Threads -> PollStates] /\ poller[t] \in PollStates
  BY <1>0, PollerIs, KeptIs, TypeOKIs DEF DInv
<1>2. i \in 0..Polls - 1
  BY <1>0, <1>1, Ds3000Assumption DEF PollStates
<1>3. /\ poller' = [poller EXCEPT ![t] = [pc |-> "poll", i |-> i, state |-> None]]
      /\ poller'[t].pc = "poll" /\ poller'[t].i = i /\ poller'[t].state = None
  BY <1>0, <1>1
<1>4. PollFact(t)'
  BY <1>0, <1>1, <1>3 DEF PollFact
<1>5. ask'.fair => FairPoll(t)'
  <2> SUFFICES ASSUME ask.fair PROVE FairPoll(t)'
    BY <1>0
  <2>1. FairSpawn /\ Matching /\ i <= Turns
    BY <1>0, <1>1 DEF FairPoll
  <2>2. FairSpawn' /\ Matching' /\ Turns' = Turns
    BY <1>0, <2>1 DEF FairSpawn, Matching, OnItsWay, Turns
  <2> QED BY <1>3, <2>1, <2>2 DEF FairPoll
<1>6. Kept(chip')
  BY <1>0, <1>1
<1> HIDE DEF i
<1> QED BY <1>0, <1>1, <1>2, <1>3, <1>4, <1>5, <1>6, PollKeeps

\* What is reported is what the thread has found.
LEMMA StepNotification ==
  ASSUME Consistent, DInv, NEW t \in Threads, Tuner_NotificationCallback(t)
  PROVE  DInv'
<1> DEFINE e == [pc |-> "none", i |-> 0, state |-> None]
<1>0. /\ poller[t].pc = "ended" /\ poller[t].pc # "none" /\ UNCHANGED <<chip, lnb, g, air, user, ask>>
      /\ poller' = [poller EXCEPT ![t] = e]
      /\ \/ poller[t].state = "Locked" /\ told' = "LOCKED"
         \/ poller[t].state # "Locked" /\ poller[t].i + 1 = Polls /\ told' = "ERROR"
  BY DEF Tuner_NotificationCallback
<1>1. /\ PollFact(t) /\ (ask.fair => FairPoll(t)) /\ Polling = {t} /\ user = "idle" /\ Asked
      /\ poller \in [Threads -> PollStates] /\ ask.tuning \in Tunings /\ told' # None
      /\ poller[t] \in PollStates
  BY <1>0, PollerIs, Ds3000Assumption
<1>2. poller' \in [Threads -> PollStates] /\ Polling' = {}
  <2>1. e \in PollStates
    BY Ds3000Assumption DEF PollStates
  <2>2. poller' \in [Threads -> PollStates] /\ poller'[t].pc = "none" /\ \A q \in Threads \ {t} : poller'[q] = poller[q]
    BY <1>0, <1>1, <2>1
  <2> QED BY <1>1, <2>2 DEF Polling
<1>3. TypeOK'
  <2>1. /\ chip' \in ChipStates /\ lnb' \in LnbStates /\ g' \in Globals /\ air' \in Signals \cup {None}
        /\ user' \in Users /\ ask' \in Asks
    BY <1>0, TypeOKIs DEF DInv
  <2>2. told' \in {None, "LOCKED", "ERROR"}
    BY <1>0
  <2> QED BY <1>2, <2>1, <2>2 DEF TypeOK, ChipStates, LnbStates, PollStates, Users, Asks
<1>4. g'.tuner /\ SelKnown' /\ OneAtATime'
  BY <1>0, <1>1, <1>2 DEF DInv, SelKnown, OneAtATime
<1>5. AskFacts'
  BY <1>0, <1>1 DEF DInv, AskFacts, Asked, Tone, Wanted
<1>6. Where' = Where /\ Shift' = Shift
  BY <1>0 DEF Shift, Where, Beside, AttenuateFreq, SlowOffset, TunedTo
<1>7. ConnFacts'
  BY <1>0, <1>1, <1>6 DEF DInv, ConnFacts, Past
<1>8. PollFacts' /\ FairFacts'
  BY <1>0, <1>1, <1>2 DEF PollFacts, FairFacts
<1>9. ToldFacts'
  <2> SUFFICES ASSUME told' = "LOCKED" PROVE ToldFacts'
    BY DEF ToldFacts
  <2>1. poller[t].state = "Locked"
    BY <1>0
  <2>2. Working(chip) /\ chip.type = g.current /\ (ask.steady => Near /\ KeepsUp)
    BY <1>0, <1>1, <2>1 DEF PollFact
  <2>3. (Near => Near') /\ (KeepsUp => KeepsUp')
    BY <1>0 DEF Near, IsLocked, Receives, Off, Tone, Working, KeepsUp, GetMclk
  <2> QED BY <1>0, <2>2, <2>3 DEF ToldFacts, Working
<1>10. Patient /\ told' = "ERROR" => ~ask'.fair
  <2> SUFFICES ASSUME Patient, told' = "ERROR", ask.fair PROVE FALSE
    BY <1>0
  <2>1. poller[t].i + 1 = Polls /\ poller[t].i + 1 <= Turns
    BY <1>0, <1>1 DEF FairPoll
  <2>2. Turns \in {1, 2}
    BY DEF Turns
  <2>3. poller[t].i \in Nat /\ Polls \in Nat
    BY <1>1, Ds3000Assumption DEF PollStates
  <2> QED BY <2>1, <2>2, <2>3 DEF Patient
<1> QED BY <1>3, <1>4, <1>5, <1>7, <1>8, <1>9, <1>10 DEF DInv

-----------------------------------------------------------------------------
\* A chip that receives what the driver looks for goes on to the lock and keeps it.
LEMMA SearchIs ==
  ASSUME DInv, Search
  PROVE  /\ Working(chip) /\ chip' = [chip EXCEPT !.search = chip'.search]
         /\ chip' \in ChipStates /\ SameRadio(chip, chip') /\ SamePower(chip, chip')
         /\ SameClock(chip, chip') /\ chip'.held = chip.held /\ ~chip.held
         /\ ask' \in Asks /\ ask'.tuning = ask.tuning /\ ask'.steady = ask.steady
         /\ (ask'.fair => ask.fair)
         /\ \/ chip.search = "cci" /\ chip'.search = "run"
            \/ chip.search = "run" /\ Receives(chip, air) /\ chip'.search = "lock"
            \/ chip.search = "run" /\ ~Receives(chip, air) /\ chip'.search = "miss"
            \/ chip.search = "run" /\ ~Receives(chip, air) /\ ~ask'.fair
            \/ chip.search = "lock" /\ ~Receives(chip, air) /\ chip'.search = "run"
<1>1. chip \in ChipStates /\ ask \in Asks
  BY TypeOKIs DEF DInv
<1>2. PICK s \in {"run", "lock", "miss", "fail"} :
        /\ chip' = [chip EXCEPT !.search = s]
        /\ \/ ask' = ask
           \/ s = "fail" /\ ask' = [ask EXCEPT !.fair = FALSE]
        /\ \/ chip.search = "cci" /\ s = "run"
           \/ chip.search = "run" /\ Receives(chip, air) /\ s = "lock"
           \/ chip.search = "run" /\ ~Receives(chip, air) /\ s = "miss"
           \/ chip.search = "run" /\ ~Receives(chip, air) /\ s = "fail" /\ ask' = [ask EXCEPT !.fair = FALSE]
           \/ chip.search = "lock" /\ ~Receives(chip, air) /\ s = "run"
  BY DEF Search
<1>3. /\ chip' \in ChipStates /\ SameRadio(chip, chip') /\ SamePower(chip, chip')
      /\ SameClock(chip, chip') /\ chip'.held = chip.held /\ chip'.search = s
  BY <1>1, <1>2 DEF ChipStates, SameRadio, SamePower, SameClock
<1>4. /\ ask' \in Asks /\ ask'.tuning = ask.tuning /\ ask'.steady = ask.steady
      /\ (ask'.fair => ask.fair) /\ (ask' = [ask EXCEPT !.fair = FALSE] => ~ask'.fair)
  BY <1>1, <1>2 DEF Asks
<1>5. Working(chip) /\ ~chip.held
  BY DEF Search, Working
<1> QED BY <1>2, <1>3, <1>4, <1>5

\* The search goes on under the driver.
LEMMA StepSearch == ASSUME Consistent, DInv, Search PROVE DInv'
<1>0. UNCHANGED <<lnb, g, air, user, poller, told>>
  BY DEF Search
<1>1. /\ chip' \in ChipStates /\ ~chip.held /\ ~chip'.held /\ ask' \in Asks
      /\ ask'.tuning = ask.tuning /\ ask'.steady = ask.steady /\ (ask'.fair => ask.fair)
  BY SearchIs
<1>2. /\ chip'.freq = chip.freq /\ chip'.offset = chip.offset /\ chip'.rate = chip.rate
      /\ chip'.type = chip.type /\ chip'.awake = chip.awake /\ chip'.fw = chip.fw
      /\ chip'.sel = chip.sel /\ chip'.ratio = chip.ratio /\ chip'.mode = chip.mode
  BY SearchIs DEF SameRadio, SamePower, SameClock
<1>3. Polling' = Polling
  BY <1>0 DEF Polling
<1>4. TypeOK'
  <2>1. /\ lnb' \in LnbStates /\ g' \in Globals /\ air' \in Signals \cup {None} /\ user' \in Users
        /\ poller' \in [Threads -> PollStates] /\ told' \in {None, "LOCKED", "ERROR"}
    BY <1>0, TypeOKIs DEF DInv
  <2> QED BY <1>1, <2>1 DEF TypeOK, ChipStates, LnbStates, PollStates, Users, Asks
<1>5. g'.tuner /\ SelKnown' /\ OneAtATime'
  BY <1>0, <1>2, <1>3 DEF DInv, SelKnown, OneAtATime
<1>6. AskFacts'
  BY <1>0, <1>1, <1>2, <1>3 DEF DInv, AskFacts, Asked, Tone, Wanted
<1>7. Where' = Where /\ Shift' = Shift
  BY <1>1 DEF Shift, Where, Beside, AttenuateFreq, SlowOffset, TunedTo
<1>8. ConnFacts'
  BY <1>0, <1>1, <1>2, <1>3, <1>7 DEF DInv, ConnFacts, Past
<1>9. Working(chip') /\ Working(chip) /\ (Receives(chip, air))' = Receives(chip, air) /\ (Off(chip, air))' = Off(chip, air)
  <2>1. Working(chip') /\ Working(chip)
    BY <1>1, <1>2, SearchIs DEF Working
  <2> QED BY <1>0, <1>2, <2>1 DEF Receives, Off, Tone
<1>10. (IsLocked => IsLocked') /\ (Near => Near') /\ (KeepsUp => KeepsUp')
  <2>1. IsLocked => IsLocked'
    BY <1>9, SearchIs DEF IsLocked
  <2>2. KeepsUp' = KeepsUp
    BY <1>0, <1>2 DEF KeepsUp, GetMclk
  <2> QED BY <1>9, <2>1, <2>2 DEF Near
<1>11. ASSUME NEW p \in Polling, PollFact(p) PROVE PollFact(p)'
  BY <1>0, <1>1, <1>2, <1>9, <1>10, <1>11 DEF PollFact
<1>12. PollFacts' /\ ToldFacts'
  <2>1. PollFacts'
    BY <1>3, <1>11 DEF DInv, PollFacts
  <2>2. ToldFacts'
    BY <1>0, <1>1, <1>2, <1>9, <1>10 DEF DInv, ToldFacts
  <2> QED BY <2>1, <2>2
<1>13. ASSUME ask'.fair PROVE FairFacts'
  <2>1. ask.fair
    BY <1>1, <1>13
  <2>2. user \notin {"program", "release"}
    BY <1>1, <2>1 DEF DInv, FairFacts
  <2>3. Matching' = Matching /\ Turns' = Turns
    BY <1>0, <1>2 DEF Matching, Turns
  <2>4. ASSUME Past({"release", "spawn"}), FairSpawn PROVE FairSpawn' /\ (Matching \/ chip.search # "lock")
    <3>1. Receives(chip, air) <=> Matching
      BY <1>1, <2>1, <2>4, FairSees
    <3>2. CASE Matching
      BY <1>1, <1>13, <2>3, <2>4, <3>1, <3>2, SearchIs DEF FairSpawn, OnItsWay
    <3>3. CASE ~Matching
      BY <1>1, <1>13, <2>3, <2>4, <3>1, <3>3, SearchIs DEF FairSpawn, OnItsWay
    <3> QED BY <3>2, <3>3
  <2>5. user' = "spawn" => FairSpawn'
    BY <1>0, <2>1, <2>4 DEF DInv, FairFacts, Past
  <2>6. ASSUME NEW p \in Polling PROVE FairPoll(p)'
    <3>1. FairPoll(p) /\ Past({"release", "spawn"})
      BY <2>1, <2>6 DEF DInv, FairFacts, Past
    <3>2. Receives(chip, air) <=> Matching
      BY <1>1, <2>1, <3>1, FairSees
    <3>3. poller[p].pc # "reprogram" => FairSpawn'
      BY <2>4, <3>1 DEF FairPoll
    <3>4. poller[p].pc \notin {"cci", "bits"}
      BY <3>1, <3>2, SearchIs DEF FairPoll
    <3>5. ~(poller[p].pc = "unlocked" /\ ~Matching)
      BY <3>1, <3>2, SearchIs DEF FairPoll
    <3> QED BY <1>0, <2>3, <3>1, <3>3, <3>4, <3>5 DEF FairPoll
  <2> QED BY <1>0, <1>3, <2>2, <2>5, <2>6 DEF FairFacts
<1>14. FairFacts' /\ (Patient /\ told' = "ERROR" => ~ask'.fair)
  BY <1>0, <1>1, <1>13 DEF DInv, FairFacts
<1> QED BY <1>4, <1>5, <1>6, <1>8, <1>12, <1>14 DEF DInv

\* A signal that changed is not steady.
LEMMA StepAirChanges == ASSUME DInv, AirChanges PROVE DInv'
<1>0. UNCHANGED <<chip, lnb, g, user, poller, told>>
  BY DEF AirChanges
<1>1. /\ ask' \in Asks /\ ask'.tuning = ask.tuning /\ ~ask'.steady /\ ~ask'.fair
      /\ air' \in Signals \cup {None}
  <2>1. ask \in Asks /\ ask' = [ask EXCEPT !.steady = FALSE, !.fair = FALSE]
    BY TypeOKIs DEF DInv, AirChanges
  <2>2. air' \in Signals \cup {None}
    BY DEF AirChanges
  <2> QED BY <2>1, <2>2 DEF Asks
<1>2. Polling' = Polling
  BY <1>0 DEF Polling
<1>3. TypeOK'
  <2>1. /\ chip' \in ChipStates /\ lnb' \in LnbStates /\ g' \in Globals /\ user' \in Users
        /\ poller' \in [Threads -> PollStates] /\ told' \in {None, "LOCKED", "ERROR"}
    BY <1>0, TypeOKIs DEF DInv
  <2> QED BY <1>1, <2>1 DEF TypeOK, ChipStates, LnbStates, PollStates, Users, Asks
<1>4. g'.tuner /\ SelKnown' /\ OneAtATime'
  BY <1>0, <1>2 DEF DInv, SelKnown, OneAtATime
<1>5. AskFacts'
  BY <1>0, <1>1, <1>2 DEF DInv, AskFacts, Asked, Tone
<1>6. Where' = Where /\ Shift' = Shift
  BY <1>1 DEF Shift, Where, Beside, AttenuateFreq, SlowOffset, TunedTo
<1>7. ConnFacts'
  BY <1>0, <1>1, <1>2, <1>6 DEF DInv, ConnFacts, Past
<1>8. Working(chip)' = Working(chip)
  BY <1>0 DEF Working
<1>9. ASSUME NEW p \in Polling, PollFact(p) PROVE PollFact(p)'
  BY <1>0, <1>1, <1>8, <1>9 DEF PollFact
<1>10. PollFacts' /\ ToldFacts' /\ FairFacts'
  <2>1. PollFacts'
    BY <1>2, <1>9 DEF DInv, PollFacts
  <2>2. ToldFacts' /\ FairFacts'
    BY <1>0, <1>1, <1>8 DEF DInv, ToldFacts, FairFacts
  <2> QED BY <2>1, <2>2
<1> QED BY <1>0, <1>1, <1>3, <1>4, <1>5, <1>7, <1>10 DEF DInv

\* A stuttering step.
LEMMA StepNothing == ASSUME DInv, UNCHANGED vars PROVE DInv'
<1>0. UNCHANGED <<chip, lnb, g, air, user, poller, ask, told>>
  BY DEF vars
<1>1. Polling' = Polling
  BY <1>0 DEF Polling
<1>2. TypeOK' /\ g'.tuner /\ SelKnown' /\ OneAtATime'
  BY <1>0, <1>1 DEF DInv, TypeOK, SelKnown, OneAtATime
<1>3. AskFacts'
  BY <1>0, <1>1 DEF DInv, AskFacts, Asked, Tone, Wanted
<1>4. Where' = Where /\ Shift' = Shift
  BY <1>0 DEF Shift, Where, Beside, AttenuateFreq, SlowOffset, TunedTo
<1>5. ConnFacts'
  BY <1>0, <1>1, <1>4 DEF DInv, ConnFacts, Past
<1>6. Near' = Near /\ KeepsUp' = KeepsUp /\ IsLocked' = IsLocked /\ Working(chip)' = Working(chip)
  BY <1>0 DEF Near, IsLocked, Receives, Off, Tone, Working, KeepsUp, GetMclk
<1>7. \A p \in Threads : PollFact(p)' = PollFact(p)
  BY <1>0, <1>6 DEF PollFact
<1>8. PollFacts' /\ ToldFacts'
  BY <1>0, <1>1, <1>6, <1>7 DEF DInv, PollFacts, ToldFacts, Polling
<1>9. FairSpawn' = FairSpawn /\ Matching' = Matching /\ Turns' = Turns
  BY <1>0 DEF FairSpawn, Matching, OnItsWay, Turns
<1>10. \A p \in Threads : FairPoll(p)' = FairPoll(p)
  BY <1>0, <1>9 DEF FairPoll
<1>11. FairFacts'
  BY <1>0, <1>1, <1>9, <1>10 DEF DInv, FairFacts, Polling
<1> QED BY <1>0, <1>2, <1>3, <1>5, <1>8, <1>11 DEF DInv

\* The inductive invariant of the types: a connection has a tuning.
TInv == TypeOK /\ SelKnown /\ (user # "idle" => ask.tuning \in Tunings)

\* Its conjuncts by their names.
LEMMA TInvIs ==
  TInv <=> /\ chip \in ChipStates /\ (\E k \in Clocks : chip.sel = Mclks[k])
           /\ lnb \in LnbStates /\ g \in Globals /\ air \in Signals \cup {None} /\ user \in Users
           /\ poller \in [Threads -> PollStates] /\ ask \in Asks
           /\ told \in {None, "LOCKED", "ERROR"} /\ (user # "idle" => ask.tuning \in Tunings)
BY TypeOKIs, SelIs DEF TInv

\* It holds when every variable keeps its type.
LEMMA TInvNext ==
  ASSUME TInv,
         chip' \in ChipStates, \E k \in Clocks : chip'.sel = Mclks[k],
         lnb' \in LnbStates, g' \in Globals, air' \in Signals \cup {None}, user' \in Users,
         poller' \in [Threads -> PollStates], ask' \in Asks, told' \in {None, "LOCKED", "ERROR"},
         user' # "idle" => ask'.tuning \in Tunings
  PROVE  TInv'
<1>1. TypeOK'
  BY DEF TypeOK, ChipStates, LnbStates, PollStates, Users, Asks
<1>2. SelKnown'
  BY MclksIs DEF SelKnown
<1> QED BY <1>1, <1>2 DEF TInv

\* A call that asks for nothing and gives the chip a clock the driver knows.
LEMMA TInvCall ==
  ASSUME TInv, user = "idle", chip' \in ChipStates, \E k \in Clocks : chip'.sel = Mclks[k],
         lnb' \in LnbStates, g' \in Globals, ask' = NotAsked, told' = None,
         UNCHANGED <<air, user, poller>>
  PROVE  TInv'
<1>1. NotAsked \in Asks
  BY DEF NotAsked, Asks
<1> QED BY <1>1, TInvIs, TInvNext

\* The calls keep the types.
LEMMA TInvUserCall == ASSUME TInv, UserCall PROVE TInv'
<1>1. /\ chip \in ChipStates /\ (\E k \in Clocks : chip.sel = Mclks[k])
      /\ lnb \in LnbStates /\ g \in Globals /\ air \in Signals \cup {None} /\ user \in Users
      /\ poller \in [Threads -> PollStates] /\ ask \in Asks
  BY TInvIs
<1>2. CASE Tuner_Init
  <2>1. chip' \in ChipStates /\ chip'.sel = chip.sel /\ g' \in Globals
    BY <1>1, <1>2, Tuner_InitIs
  <2> QED BY <1>1, <1>2, <2>1, TInvCall DEF Tuner_Init, Free
<1>3. CASE Tuner_Deinit
  <2>1. chip' \in ChipStates /\ chip'.sel = chip.sel /\ g' \in Globals
    BY <1>1, <1>3, Tuner_DeinitIs
  <2> QED BY <1>1, <1>3, <2>1, TInvCall DEF Tuner_Deinit, Free
<1>4. ASSUME NEW t \in Tunings, Tuner_Lock_To_Frequency(t) PROVE TInv'
  <2>1. lnb' \in LnbStates /\ ask' \in Asks
    BY <1>1, <1>4, LockIs
  <2>2. ask'.tuning = t /\ user' = "connect" /\ told' = None /\ UNCHANGED <<chip, g, air, poller>>
    BY <1>4 DEF Tuner_Lock_To_Frequency
  <2> QED BY <1>1, <2>1, <2>2, TInvNext DEF Users
<1>5. CASE Sleep \/ WakeUp \/ SetLnbOff \/ SendMessage \/ SendToneBurst
  <2>1. PICK c \in ChipStates, l \in LnbStates : c.sel = chip.sel /\ Call(c, l) /\ UNCHANGED g
    BY <1>1, <1>5, CallsAre
  <2> QED BY <1>1, <2>1, TInvCall DEF Call, Free
<1>6. ASSUME NEW mode \in Modes, ChangeTsOutMode(mode) PROVE TInv'
  <2>1. /\ \E c \in ChipStates : (\E k \in Clocks : c.sel = Mclks[k]) /\ Call(c, lnb)
        /\ g' \in Globals
    BY <1>1, <1>6, ChangeTsOutModeIs
  <2> QED BY <1>1, <2>1, TInvCall DEF Call, Free
<1> QED BY <1>2, <1>3, <1>4, <1>5, <1>6 DEF UserCall, Modes

\* Wherever the tuner is, it is at a frequency.
LEMMA SetTunerIs ==
  ASSUME g.tuner \in BOOLEAN, NEW c \in ChipStates, NEW khz \in Nat
  PROVE  /\ SetTuner(c, khz) \in ChipStates /\ SetTuner(c, khz).sel = c.sel
         /\ TunerOffset(khz) \in Int
<1>1. TunedTo(khz) \in Nat
  BY TunedToIsNat
<1>2. TunerOffset(khz) \in Int
  <2>1. ((khz + 500) \div 1000) * 1000 \in Int
    OBVIOUS
  <2> DEFINE a == TunedTo(khz)
             b == ((khz + 500) \div 1000) * 1000
  <2>2. TunerOffset(khz) = (IF g.tuner THEN a ELSE b) - khz
    BY DEF TunerOffset
  <2>3. a \in Int /\ b \in Int
    BY <1>1, <2>1
  <2> HIDE DEF a, b
  <2> QED BY <2>2, <2>3
<1>3. CASE g.tuner = TRUE
  <2> DEFINE d == SetTuner(c, khz)
  <2>1. d \in ChipStates /\ SameClock(c, d)
    BY <1>3, TunerIs
  <2> HIDE DEF d
  <2>2. d.sel = c.sel
    BY <2>1 DEF SameClock
  <2> QED BY <1>2, <2>1, <2>2 DEF d
<1>4. CASE g.tuner = FALSE
  BY <1>2, <1>4 DEF SetTuner
<1> QED BY <1>2, <1>3, <1>4

\* The connection keeps the types.
LEMMA TInvConnecting == ASSUME TInv, Connecting PROVE TInv'
<1>1. /\ chip \in ChipStates /\ (\E k \in Clocks : chip.sel = Mclks[k])
      /\ lnb \in LnbStates /\ g \in Globals /\ air \in Signals \cup {None} /\ user \in Users
      /\ poller \in [Threads -> PollStates] /\ ask \in Asks /\ told \in {None, "LOCKED", "ERROR"}
      /\ (user # "idle" => ask.tuning \in Tunings)
  BY TInvIs
<1>2. Restarted(chip) \in ChipStates /\ Restarted(chip).sel = chip.sel
  BY <1>1, RestartedIs DEF SameClock
<1>3. CASE ConnectGlobals
  <2>1. /\ user = "connect" /\ user' \in {"idle", "tune"} /\ chip' \in {chip, Restarted(chip)}
        /\ g' \in {g, ConnectedGlobals(ask.tuning)} /\ UNCHANGED <<lnb, air, poller, ask, told>>
    BY <1>3 DEF ConnectGlobals, Return
  <2>2. g' \in Globals
    BY <1>1, <2>1, ConnectedIs
  <2> QED BY <1>1, <1>2, <2>1, <2>2, TInvNext DEF Users
<1>4. CASE ConnectTuner
  <2> DEFINE c == SetTuner(chip, Where)
  <2>1. /\ user = "tune" /\ user' = "program" /\ chip' = Held(c)
        /\ UNCHANGED <<lnb, g, air, poller, ask, told>>
    BY <1>4 DEF ConnectTuner, Where
  <2>2. c \in ChipStates /\ c.sel = chip.sel
    BY <1>1, <2>1, BesideIsNat, SetTunerIs DEF Where, Globals
  <2> HIDE DEF c
  <2>3. chip' \in ChipStates /\ chip'.sel = chip.sel
    BY <2>1, <2>2, HeldIs DEF SameClock
  <2> QED BY <1>1, <2>1, <2>3, TInvNext DEF Users
<1>5. CASE ConnectDemod
  <2> DEFINE khz == TunerOffset(Beside(ask.tuning)) + SlowOffset(ask.tuning.rate)
             type == g.current
             rate == ask.tuning.rate
             c == SetDemod(chip, type, rate)
  <2>1. /\ user = "program" /\ user' = "release" /\ chip' = SetCarrierOffset(c, khz)
        /\ g' = [g EXCEPT !.offset = khz] /\ UNCHANGED <<lnb, air, poller, ask, told>>
    BY <1>5 DEF ConnectDemod
  <2>2. khz \in Int
    <3>1. TunerOffset(Beside(ask.tuning)) \in Int
      BY <1>1, <2>1, BesideIsNat, SetTunerIs DEF Globals
    <3>2. SlowOffset(ask.tuning.rate) \in Int
      BY DEF SlowOffset
    <3> QED BY <3>1, <3>2
  <2>3. type \in Types /\ rate \in Nat
    BY <1>1, <2>1, TuningsAssumption DEF Globals
  <2> HIDE DEF khz, type, rate
  <2>4. c \in ChipStates /\ c.sel \in {Mclks[192000], Mclks[144000], Mclks[96000]}
    BY <1>1, <2>3, SetDemodIs
  <2> HIDE DEF c
  <2>5. chip' \in ChipStates /\ chip'.sel = c.sel
    BY <2>1, <2>2, <2>4, OffsetIs DEF SameClock
  <2>6. g' \in Globals /\ (\E k \in Clocks : chip'.sel = Mclks[k])
    BY <1>1, <2>1, <2>2, <2>4, <2>5 DEF Globals, Clocks
  <2> QED BY <1>1, <2>1, <2>5, <2>6, TInvNext DEF Users
<1>6. CASE ConnectRelease
  BY <1>1, <1>2, <1>6, TInvNext DEF ConnectRelease, Return, Users
<1>7. ASSUME NEW t \in Threads, StartThread(t) PROVE TInv'
  <2>1. [pc |-> "poll", i |-> 0, state |-> None] \in PollStates
    BY Ds3000Assumption DEF PollStates
  <2>2. poller' \in [Threads -> PollStates] /\ user' = "idle" /\ UNCHANGED <<chip, lnb, g, air, ask, told>>
    BY <1>1, <1>7, <2>1 DEF StartThread
  <2> QED BY <1>1, <2>2, TInvNext DEF Users
<1> QED BY <1>3, <1>4, <1>5, <1>6, <1>7 DEF Connecting

\* What a step of get_lock_state does to the types.
LEMMA TInvGoTo ==
  ASSUME TInv, NEW t \in Threads, NEW pc, NEW state, GoTo(t, pc, state),
         pc \in {"cci", "bits", "offset", "clock", "unlocked", "other", "reprogram", "ended"},
         state \in {"Waiting", "Locked", "Unlocked", poller[t].state},
         chip' \in ChipStates, \E k \in Clocks : chip'.sel = Mclks[k], g' \in Globals,
         ask' \in Asks, ask'.tuning = ask.tuning, UNCHANGED <<lnb, air, user, told>>
  PROVE  TInv'
<1>1. /\ lnb \in LnbStates /\ air \in Signals \cup {None} /\ user \in Users
      /\ poller \in [Threads -> PollStates] /\ told \in {None, "LOCKED", "ERROR"}
      /\ (user # "idle" => ask.tuning \in Tunings)
  BY TInvIs
<1> DEFINE e == [pc |-> pc, i |-> poller[t].i, state |-> state]
<1>2. poller' = [poller EXCEPT ![t] = e] /\ e \in PollStates
  BY <1>1, GoesTo DEF PollStates
<1>3. poller' \in [Threads -> PollStates]
  BY <1>1, <1>2
<1> QED BY <1>1, <1>3, TInvNext

\* The threads keep the types.
LEMMA TInvPollStep == ASSUME TInv, NEW t \in Threads, PollStep(t) PROVE TInv'
<1>1. /\ chip \in ChipStates /\ (\E k \in Clocks : chip.sel = Mclks[k])
      /\ lnb \in LnbStates /\ g \in Globals /\ air \in Signals \cup {None} /\ user \in Users
      /\ poller \in [Threads -> PollStates] /\ ask \in Asks /\ told \in {None, "LOCKED", "ERROR"}
      /\ (user # "idle" => ask.tuning \in Tunings)
  BY TInvIs
<1>2. /\ Restarted(chip) \in ChipStates /\ Restarted(chip).sel = chip.sel
      /\ Held(chip) \in ChipStates /\ Held(chip).sel = chip.sel
  BY <1>1, RestartedIs, HeldIs DEF SameClock
<1>3. CASE PollHold(t)
  <2>1. ask' \in Asks /\ ask'.tuning = ask.tuning
    BY <1>1, <1>3 DEF PollHold, Asks
  <2>2. GoTo(t, "ended", "Unlocked") \/ GoTo(t, "cci", "Waiting") \/ GoTo(t, "bits", "Waiting")
    BY <1>3 DEF PollHold, Ended
  <2> QED BY <1>1, <1>3, <2>1, <2>2, TInvGoTo DEF PollHold
<1>4. CASE PollCci(t)
  <2>1. g' \in Globals
    BY <1>1, <1>4, ZenonT(60) DEF PollCci, Globals
  <2>2. GoTo(t, "ended", "Unlocked") \/ GoTo(t, "bits", poller[t].state)
    BY <1>4 DEF PollCci, Ended
  <2> QED BY <1>1, <1>4, <2>1, <2>2, TInvGoTo DEF PollCci
<1>5. CASE EchoReset(t)
  <2>1. g' \in Globals
    BY <1>1, <1>5 DEF EchoReset, Globals
  <2> QED BY <1>1, <1>2, <1>5, <2>1, TInvGoTo DEF EchoReset
<1>6. CASE PollBits(t)
  <2>1. g' \in Globals
    BY <1>1, <1>6, ZenonT(60) DEF PollBits, Globals
  <2>2. GoTo(t, "offset", "Locked") \/ GoTo(t, "unlocked", poller[t].state)
    BY <1>6 DEF PollBits
  <2> QED BY <1>1, <1>6, <2>1, <2>2, TInvGoTo DEF PollBits
<1>7. CASE PollOffset(t)
  <2>1. chip' \in {chip, Held(chip)} /\ (GoTo(t, "clock", "Unlocked") \/ GoTo(t, "clock", "Locked"))
    BY <1>7 DEF PollOffset
  <2> QED BY <1>1, <1>2, <1>7, <2>1, TInvGoTo DEF PollOffset
<1>8. CASE PollClock(t)
  <2> DEFINE s == IF IsLocked THEN air ELSE None
             serial == IF g.check /\ s # None THEN SerialMclk(s) ELSE g.serial
  <2>1. s = None \/ s \in Signals
    BY <1>1
  <2>2. /\ chip' = IF g.check THEN SetClockRatio(chip, s) ELSE chip
        /\ g' = [g EXCEPT !.check = FALSE, !.serial = serial]
        /\ GoTo(t, "ended", poller[t].state) /\ UNCHANGED <<lnb, air, user, ask, told>>
    BY <1>8 DEF PollClock, Ended
  <2> HIDE DEF s
  <2>3. chip' \in ChipStates /\ \E k \in Clocks : chip'.sel = Mclks[k]
    <3>1. CASE s = None
      BY <1>1, <2>2, <3>1 DEF SetClockRatio
    <3>2. CASE s \in Signals
      BY <1>1, <2>2, <3>2, SetClockRatioIs
    <3> QED BY <2>1, <3>1, <3>2
  <2>4. serial \in Nat
    BY <1>1, <2>1, SerialMclkIs DEF Globals, Clocks
  <2> HIDE DEF serial
  <2>5. g' \in Globals
    BY <1>1, <2>2, <2>4 DEF Globals
  <2> QED BY <1>1, <2>2, <2>3, <2>5, TInvGoTo
<1>9. CASE PollSearch(t)
  <2>1. /\ chip' \in {chip, Restarted(chip)} /\ UNCHANGED <<lnb, g, air, user, ask, told>>
        /\ \/ GoTo(t, "ended", "Unlocked") \/ GoTo(t, "other", poller[t].state)
           \/ GoTo(t, "ended", poller[t].state)
    BY <1>9 DEF PollSearch, Ended
  <2> QED BY <1>1, <1>2, <2>1, TInvGoTo
<1>10. CASE OtherType(t)
  <2> DEFINE r == SetCarrierOffset(chip, 0)
             c == SetCarrierOffset(r, g.offset)
  <2>1. /\ chip' = Held(c) /\ g' = [g EXCEPT !.current = IF @ = "S" THEN "S2" ELSE "S"]
        /\ GoTo(t, "reprogram", poller[t].state) /\ UNCHANGED <<lnb, air, user, ask, told>>
    BY <1>1, <1>10, GlobalResetIs DEF OtherType
  <2>2. r \in ChipStates /\ r.sel = chip.sel
    BY <1>1, OffsetIs DEF SameClock
  <2> HIDE DEF r
  <2>3. c \in ChipStates /\ c.sel = r.sel
    BY <1>1, <2>2, OffsetIs DEF SameClock, Globals
  <2> HIDE DEF c
  <2>4. chip' \in ChipStates /\ chip'.sel = chip.sel
    BY <2>1, <2>2, <2>3, HeldIs DEF SameClock
  <2>5. g' \in Globals
    BY <1>1, <2>1 DEF Globals, Types
  <2> QED BY <1>1, <2>1, <2>4, <2>5, TInvGoTo
<1>11. CASE Reprogram(t)
  <2> DEFINE type == g.current
             rate == g.rate
             c == SetDemod(chip, type, rate)
  <2>1. /\ chip' = Restarted(c) /\ GoTo(t, "ended", poller[t].state)
        /\ UNCHANGED <<lnb, g, air, user, ask, told>>
    BY <1>11 DEF Reprogram, Ended
  <2>2. type \in Types /\ rate \in Nat
    BY <1>1 DEF Globals
  <2> HIDE DEF type, rate
  <2>3. c \in ChipStates /\ c.sel \in {Mclks[192000], Mclks[144000], Mclks[96000]}
    BY <1>1, <2>2, SetDemodIs
  <2> HIDE DEF c
  <2>4. chip' \in ChipStates /\ chip'.sel = c.sel
    <3>1. chip' = Restarted(c) /\ c \in ChipStates
      BY <2>1, <2>3
    <3> QED BY <3>1, RestartedIs DEF SameClock
  <2>5. \E k \in Clocks : chip'.sel = Mclks[k]
    BY <2>3, <2>4 DEF Clocks
  <2> QED BY <1>1, <2>1, <2>4, <2>5, TInvGoTo
<1>12. CASE PollAgain(t) \/ Tuner_NotificationCallback(t)
  <2> DEFINE again == [pc |-> "poll", i |-> poller[t].i + 1, state |-> None]
             none == [pc |-> "none", i |-> 0, state |-> None]
  <2>1. none \in PollStates /\ (poller[t].i + 1 < Polls => again \in PollStates)
    BY <1>1, Ds3000Assumption DEF PollStates
  <2>2. /\ UNCHANGED <<chip, lnb, g, air, user, ask>> /\ told' \in {None, "LOCKED", "ERROR"}
        /\ \/ poller' = [poller EXCEPT ![t] = none]
           \/ poller[t].i + 1 < Polls /\ poller' = [poller EXCEPT ![t] = again]
    BY <1>1, <1>12 DEF PollAgain, Tuner_NotificationCallback
  <2> HIDE DEF again, none
  <2>3. poller' \in [Threads -> PollStates]
    BY <1>1, <2>1, <2>2
  <2> QED BY <1>1, <2>2, <2>3, TInvNext
<1> QED BY <1>3, <1>4, <1>5, <1>6, <1>7, <1>8, <1>9, <1>10, <1>11, <1>12 DEF PollStep

\* The types hold always.
LEMMA TInvAlways == Spec => []TInv
<1>1. Init => TInv
  BY InitDInv DEF DInv, TInv, Init, Idle
<1>2. TInv /\ [Next]_vars => TInv'
  <2> SUFFICES ASSUME TInv, [Next]_vars PROVE TInv'
    OBVIOUS
  <2>1. /\ chip \in ChipStates /\ (\E k \in Clocks : chip.sel = Mclks[k])
        /\ lnb \in LnbStates /\ g \in Globals /\ air \in Signals \cup {None} /\ user \in Users
        /\ poller \in [Threads -> PollStates] /\ ask \in Asks /\ told \in {None, "LOCKED", "ERROR"}
        /\ (user # "idle" => ask.tuning \in Tunings)
    BY TInvIs
  <2>2. CASE Search
    <3>1. PICK s \in {"run", "lock", "miss", "fail"} : chip' = [chip EXCEPT !.search = s]
      BY <2>2 DEF Search
    <3>2. ask' = ask \/ ask' = [ask EXCEPT !.fair = FALSE]
      BY <2>2 DEF Search
    <3>3. UNCHANGED <<lnb, g, air, user, poller, told>>
      BY <2>2 DEF Search
    <3>4. chip' \in ChipStates /\ chip'.sel = chip.sel
      BY <2>1, <3>1 DEF ChipStates
    <3>5. ask' \in Asks /\ ask'.tuning = ask.tuning
      BY <2>1, <3>2 DEF Asks
    <3> QED BY <2>1, <3>3, <3>4, <3>5, TInvNext
  <2>3. CASE AirChanges
    <3>1. /\ air' \in Signals \cup {None} /\ ask' \in Asks /\ ask'.tuning = ask.tuning
          /\ UNCHANGED <<chip, lnb, g, user, poller, told>>
      BY <2>1, <2>3 DEF AirChanges, Asks
    <3> QED BY <2>1, <3>1, TInvNext
  <2>4. CASE UNCHANGED vars
    BY <2>1, <2>4, TInvNext DEF vars
  <2> QED BY <2>2, <2>3, <2>4, TInvUserCall, TInvConnecting, TInvPollStep DEF Next
<1> QED BY <1>1, <1>2, PTL DEF Spec

\* TypeOK holds for every value of the constants: also when calls overlap with
\* the threads and when the tuner fails.
THEOREM Ds3000TypeOK == Spec => []TypeOK
<1>1. TInv => TypeOK
  BY DEF TInv
<1> QED BY <1>1, TInvAlways, PTL

-----------------------------------------------------------------------------
\* Every step keeps DInv.
LEMMA NextDInv ==
  ASSUME Alone, Readable, Consistent, DInv, [Next]_vars
  PROVE  DInv'
<1>1. CASE UserCall
  BY <1>1, StepTuner_Init, StepTuner_Deinit, StepLock, StepCalls, StepChangeTsOutMode DEF UserCall, Modes
<1>2. CASE Connecting
  BY <1>2, StepConnectGlobals, StepConnectTuner, StepConnectDemod, StepConnectRelease, StepStartThread
     DEF Connecting
<1>3. ASSUME NEW t \in Threads, PollStep(t) PROVE DInv'
  BY <1>3, StepPollHold, StepPollCci, StepEchoReset, StepPollBits, StepPollOffset, StepPollClock,
     StepPollSearch, StepOtherType, StepReprogram, StepPollAgain, StepNotification DEF PollStep
<1>4. CASE Search \/ AirChanges
  BY <1>4, StepSearch, StepAirChanges
<1>5. CASE UNCHANGED vars
  BY <1>5, StepNothing
<1> QED BY <1>1, <1>2, <1>3, <1>4, <1>5 DEF Next

\* DInv holds always.
LEMMA DInvAlways == Alone /\ Readable /\ Consistent => (Spec => []DInv)
<1> SUFFICES ASSUME Alone, Readable, Consistent PROVE Spec => []DInv
  OBVIOUS
<1>1. Init => DInv
  BY InitDInv
<1>2. DInv /\ [Next]_vars => DInv'
  BY NextDInv
<1> QED BY <1>1, <1>2, PTL DEF Spec

\* LOCKED is reported of the tuning that was asked for, whatever was locked and
\* searched before (get_lock_state and myTuneStatusCheckThread).
THEOREM Ds3000LockedReportIsTrue ==
  Alone /\ Readable /\ Consistent => (Spec => []LockedReportIsTrue)
<1>1. ASSUME Consistent, DInv PROVE LockedReportIsTrue
  <2> DEFINE t == ask.tuning
  <2> SUFFICES ASSUME told = "LOCKED", t # None
               PROVE  /\ Working(chip)
                      /\ chip.freq - chip.offset = Intermediate(t.freq, t.tone) * 1000 /\ chip.rate = t.rate
                      /\ chip.type = g.current /\ t.type \in {"Unknown", chip.type}
                      /\ lnb.on /\ lnb.volt = t.volt /\ Tone(lnb) = t.tone
                      /\ ask.steady => Apart(air.freq, t.freq) < 4
    BY DEF LockedReportIsTrue
  <2>1. told # None
    BY Ds3000Assumption
  <2>2. Asked /\ Past({"tune", "program", "release", "spawn"}) /\ Past({"program", "release", "spawn"}) /\ Past({"release", "spawn"})
    BY <2>1 DEF Asked, Past
  <2>3. t \in Tunings /\ lnb.on /\ lnb.volt = t.volt /\ (Tone(lnb) <=> t.tone)
    BY <1>1, <2>2 DEF DInv, AskFacts
  <2>4. Working(chip) /\ chip.type = g.current /\ (ask.steady => Near)
    BY <1>1 DEF DInv, ToldFacts
  <2>5. /\ chip.freq = TunedTo(Where) /\ chip.offset = Shift /\ chip.rate = t.rate
        /\ t.type # "Unknown" => g.current = t.type
    BY <1>1, <2>2 DEF DInv, ConnFacts
  <2>6. chip.freq - chip.offset = Intermediate(t.freq, t.tone) * 1000
    BY <1>1, <2>3, <2>5, LooksFor
  <2>7. t.freq \in Nat /\ t.tone \in BOOLEAN
    BY <2>3, TuningsAssumption
  <2>8. Tone(lnb) = t.tone
    BY <2>3, <2>7 DEF Tone
  <2>9. ASSUME ask.steady PROVE Apart(air.freq, t.freq) < 4
    <3>1. Near /\ air \in Signals
      BY <1>1, <2>4, <2>9, TypeOKIs DEF DInv, Near, IsLocked, Receives
    <3>2. air.freq \in Nat /\ air.tone = t.tone /\ Off(chip, air) < 4000
      BY <2>8, <3>1, SignalsAssumption DEF Near, IsLocked, Receives
    <3> DEFINE d == IF t.tone THEN 10600 ELSE 9750
               m == air.freq
               n == t.freq
    <3>3. Apart((m - d) * 1000, (n - d) * 1000) < 4000
      BY <2>6, <3>2 DEF Off, Intermediate
    <3>4. m \in Int /\ n \in Int /\ d \in Int
      BY <2>7, <3>2
    <3> HIDE DEF d, m, n
    <3>5. Apart(m, n) < 4
      BY <3>3, <3>4 DEF Apart
    <3> QED BY <3>5 DEF m, n
  <2> QED BY <2>3, <2>4, <2>5, <2>6, <2>8, <2>9
<1> SUFFICES ASSUME Alone, Readable, Consistent PROVE Spec => []LockedReportIsTrue
  OBVIOUS
<1>2. DInv => LockedReportIsTrue
  BY <1>1
<1> QED BY <1>2, DInvAlways, PTL

\* The output of the chip takes what the reported signal brings, in whatever mode
\* (g_check_TS_clock), if it can be taken at all.
THEOREM Ds3000TsKeepsUp ==
  Alone /\ Readable /\ Consistent /\ Carried => (Spec => []TsKeepsUp)
<1> SUFFICES ASSUME Alone, Readable, Consistent, Carried PROVE Spec => []TsKeepsUp
  OBVIOUS
<1>1. DInv => TsKeepsUp
  BY DEF DInv, ToldFacts, KeepsUp, TsKeepsUp
<1> QED BY <1>1, DInvAlways, PTL

\* A signal that is there from the call on, and is given the time to be found, is
\* never reported as an error: sixty polls are enough, and so are three.
THEOREM Ds3000SteadySignalIsFound ==
  Alone /\ Readable /\ Consistent /\ Patient => (Spec => []SteadySignalIsFound)
<1> SUFFICES ASSUME Alone, Readable, Consistent, Patient PROVE Spec => []SteadySignalIsFound
  OBVIOUS
<1>1. DInv => SteadySignalIsFound
  BY DEF DInv, SteadySignalIsFound
<1> QED BY <1>1, DInvAlways, PTL

-----------------------------------------------------------------------------
(* The blind scan.                                                         *)

Freqs == {f \in Int : f < FreqMax}

\* An entry in use waits for its trial, was tried in vain, or is locked.
Entries == [freq : Freqs, rate : Int, type : Types \cup {"Unknown", "Checked"}]

\* The first cnt places of the table are in use.
Laid(tp, cnt) ==
  /\ cnt \in Nat
  /\ tp \in [0..MaxNum - 1 -> Entries \cup {Zero}]
  /\ \A i \in 0..MaxNum - 1 : tp[i] # Zero <=> i < cnt

Entry(p) == [freq |-> p.freq, rate |-> p.rate, type |-> p.type]

LockedAt(tp) == {i \in 0..MaxNum - 1 : Locked(tp[i])}

\* The locked entries are the transponders that were told, each of them once.
Holding(tp, said) ==
  /\ \A i \in LockedAt(tp) : \E a \in 1..Len(said) : tp[i] = Entry(said[a])
  /\ \A a \in 1..Len(said) : \E i \in LockedAt(tp) : tp[i] = Entry(said[a])
  /\ \A i, k \in LockedAt(tp) : tp[i] = tp[k] => i = k
  /\ \A a, b \in 1..Len(said) : Entry(said[a]) = Entry(said[b]) => a = b

\* No entry below n waits for its trial.
Tried(tp, n) == \A i \in 0..MaxNum - 1 : i < n => tp[i].type # "Unknown"

\* What the chip shows of a transponder is not above it by more than a bin.
Things(freq) ==
  {q \in [at : Int, width : Int, of : sky] : freq + q.at * Bin <= q.of.freq + Bin}

\* What the walk through the window knows.
WindowFacts ==
  /\ scan.pc \in {"deal", "compare"} => scan.todo \in Seq(Things(scan.freq))
  /\ scan.pc = "compare" => scan.todo # <<>>

\* Whatever waits will be tried: algorithm A connects when there is something
\* new, algorithm B before the pass ends.
WillBeTried ==
  /\ scan.pc \in {"pass", "passed", "remove"} => Tried(tab.tp, MaxNum)
  /\ scan.algorithm = "A" => scan.connected \in Nat /\ scan.connected <= tab.cnt
  /\ scan.algorithm = "A" /\ scan.pc \in {"window", "fft"} => Tried(tab.tp, MaxNum)
  /\ scan.algorithm = "A" /\ scan.pc \in {"deal", "compare", "slide"} =>
       Tried(tab.tp, MaxNum) \/ scan.connected < tab.cnt

\* The entry under trial waits, and the chip looks for the type it is tried as.
TrialFacts ==
  /\ scan.pc \in {"connect", "trial"} => scan.n \in Nat /\ Tried(tab.tp, scan.n)
  /\ scan.pc = "trial" =>
       /\ scan.n < MaxNum /\ tab.tp[scan.n].type = "Unknown"
       /\ g.current \in Types /\ chip.type = g.current

\* A scan under way that nobody aborted.
Scanning ==
  /\ ~scan.cancel
  /\ scan.algorithm \in {"A", "B"} /\ scan.freq \in Nat
  /\ Laid(tab.tp, tab.cnt)
  /\ seen.told \in Seq(sky)
  /\ Holding(tab.tp, seen.told)
  /\ tab.locked = Len(seen.told) /\ tab.tp_num = Len(seen.told)
  /\ WindowFacts /\ WillBeTried /\ TrialFacts

\* The records have the fields the scan sets.
Shaped ==
  /\ DOMAIN scan = DOMAIN NoScan /\ DOMAIN tab = DOMAIN NoTable /\ DOMAIN seen = DOMAIN NothingSeen
  /\ "type" \in DOMAIN chip /\ {"current", "eq"} \subseteq DOMAIN g

Stages == {"idle", "pass", "window", "fft", "deal", "compare", "slide", "connect", "trial", "passed", "remove", "done"}

\* The inductive invariant.
ScanInv ==
  /\ Shaped /\ scan.pc \in Stages /\ sky \in Skies /\ seen.aborted \in BOOLEAN
  /\ scan.pc = "idle" => tab = NoTable
  /\ scan.pc \notin {"idle", "done"} /\ ~seen.aborted => Scanning
  /\ TableHoldsTheLocked

-----------------------------------------------------------------------------
(* Least elements.                                                         *)

LEMMA LeastNat ==
  ASSUME NEW S, S \subseteq Nat, S # {}
  PROVE  Min(S) \in S /\ \A k \in S : Min(S) <= k
<1>1. PICK m \in S : \A k \in S : ~(<<k, m>> \in OpToRel(<, Nat))
  BY NatLessThanWellFounded, WFMin
<1>2. \A k \in S : ~(k < m)
  BY <1>1 DEF OpToRel
<1>3. \A k \in S : m <= k
  BY <1>2
<1> QED BY <1>3 DEF Min

-----------------------------------------------------------------------------
(* The table.                                                              *)

\* An entry is in use, or zero.
LEMMA EntryIs ==
  ASSUME NEW e
  PROVE  /\ e \in Entries => e # Zero /\ e.type # "Undef" /\ e.freq < FreqMax
         /\ Zero.type = "Undef" /\ Zero.freq = 0 /\ ~Locked(Zero) /\ Zero \notin Entries
<1>1. Zero.type = "Undef" /\ Zero.freq = 0
  BY DEF Zero
<1>2. ASSUME e \in Entries PROVE e.type # "Undef" /\ e.freq < FreqMax
  BY <1>2 DEF Entries, Freqs, Types
<1>3. e \in Entries => e # Zero /\ e.type # "Undef" /\ e.freq < FreqMax
  BY <1>1, <1>2
<1>4. Zero \notin Entries
  BY <1>1 DEF Entries, Types
<1> QED BY <1>1, <1>3, <1>4 DEF Locked, Types

LEMMA SizeIs == MaxNum \in Nat /\ MaxNum >= 1 /\ MaxNum <= 255
BY BlindScanAssumption

\* A new entry e that is not locked comes to place k, and what was there moves up.
Moved(tp, cnt, k, e, new) ==
  /\ k \in 0..cnt
  /\ DOMAIN new = 0..MaxNum - 1
  /\ \A i \in 0..MaxNum - 1 : new[i] = IF i < k THEN tp[i] ELSE IF i = k THEN e
                                       ELSE IF i <= cnt THEN tp[i - 1] ELSE Zero
  /\ new = [i \in DOMAIN new |-> new[i]]

LEMMA MovedLaid ==
  ASSUME NEW tp, NEW cnt, NEW k, NEW e \in Entries, NEW new,
         Laid(tp, cnt), cnt < MaxNum, Moved(tp, cnt, k, e, new)
  PROVE  Laid(new, cnt + 1)
<1>1. cnt \in Nat /\ k \in 0..cnt /\ MaxNum \in Nat
  BY SizeIs DEF Laid, Moved
<1>2. ASSUME NEW i \in 0..MaxNum - 1
      PROVE  new[i] \in Entries \cup {Zero} /\ (new[i] # Zero <=> i < cnt + 1)
  <2>1. new[i] = IF i < k THEN tp[i] ELSE IF i = k THEN e ELSE IF i <= cnt THEN tp[i - 1] ELSE Zero
    BY DEF Moved
  <2>2. CASE i < k
    <3>1. new[i] = tp[i] /\ i < cnt /\ i < cnt + 1
      BY <1>1, <2>1, <2>2
    <3> QED BY <3>1 DEF Laid
  <2>3. CASE i = k
    <3>1. new[i] = e /\ i < cnt + 1
      BY <1>1, <2>1, <2>3
    <3> QED BY <3>1, EntryIs
  <2>4. CASE i > k /\ i <= cnt
    <3>1. new[i] = tp[i - 1] /\ i - 1 \in 0..MaxNum - 1 /\ i - 1 < cnt /\ i < cnt + 1
      BY <1>1, <2>1, <2>4
    <3> QED BY <3>1 DEF Laid
  <2>5. CASE i > cnt
    <3>1. new[i] = Zero /\ ~(i < cnt + 1)
      BY <1>1, <2>1, <2>5
    <3> QED BY <3>1
  <2> QED BY <1>1, <2>2, <2>3, <2>4, <2>5
<1>3. new \in [0..MaxNum - 1 -> Entries \cup {Zero}]
  BY <1>2 DEF Moved
<1> QED BY <1>1, <1>2, <1>3 DEF Laid

\* The locked entries are the same ones, at places that moved.
LEMMA MovedLocked ==
  ASSUME NEW tp, NEW cnt, NEW k, NEW e, NEW new,
         Laid(tp, cnt), cnt < MaxNum, Moved(tp, cnt, k, e, new), ~Locked(e)
  PROVE  /\ \A i \in LockedAt(tp) : \E j \in LockedAt(new) : new[j] = tp[i]
         /\ \A j \in LockedAt(new) :
              \E i \in LockedAt(tp) : new[j] = tp[i] /\ j = IF i < k THEN i ELSE i + 1
<1>1. cnt \in Nat /\ k \in 0..cnt /\ MaxNum \in Nat
  BY SizeIs DEF Laid, Moved
<1>2. ASSUME NEW i \in LockedAt(tp) PROVE \E j \in LockedAt(new) : new[j] = tp[i]
  <2>1. i \in 0..MaxNum - 1 /\ Locked(tp[i]) /\ i < cnt
    BY EntryIs DEF LockedAt, Laid
  <2> DEFINE j == IF i < k THEN i ELSE i + 1
  <2>2. j \in 0..MaxNum - 1
    BY <1>1, <2>1
  <2>3. new[j] = IF j < k THEN tp[j] ELSE IF j = k THEN e ELSE IF j <= cnt THEN tp[j - 1] ELSE Zero
    BY <2>2 DEF Moved
  <2>4. new[j] = tp[i]
    <3>1. CASE i < k
      BY <2>3, <3>1
    <3>2. CASE ~(i < k)
      <4>1. j = i + 1 /\ ~(j < k) /\ j # k /\ j <= cnt /\ j - 1 = i
        BY <1>1, <2>1, <3>2
      <4> QED BY <2>3, <4>1
    <3> QED BY <3>1, <3>2
  <2>5. j \in LockedAt(new)
    BY <2>1, <2>2, <2>4 DEF LockedAt
  <2> QED BY <2>4, <2>5
<1>3. ASSUME NEW j \in LockedAt(new)
      PROVE  \E i \in LockedAt(tp) : new[j] = tp[i] /\ j = IF i < k THEN i ELSE i + 1
  <2>1. j \in 0..MaxNum - 1 /\ Locked(new[j])
    BY DEF LockedAt
  <2>2. new[j] = IF j < k THEN tp[j] ELSE IF j = k THEN e ELSE IF j <= cnt THEN tp[j - 1] ELSE Zero
    BY <2>1 DEF Moved
  <2>3. j # k /\ ~(j > k /\ j > cnt)
    <3>1. j # k
      BY <1>1, <2>1, <2>2
    <3>2. ASSUME j > k, j > cnt PROVE FALSE
      <4>1. new[j] = Zero
        BY <1>1, <2>1, <2>2, <3>2
      <4> QED BY <2>1, <4>1, EntryIs
    <3> QED BY <3>1, <3>2
  <2>4. CASE j < k
    <3>1. new[j] = tp[j]
      BY <2>2, <2>4
    <3>2. j \in LockedAt(tp)
      BY <2>1, <3>1 DEF LockedAt
    <3> QED BY <2>4, <3>1, <3>2
  <2>5. CASE j > k
    <3>1. new[j] = tp[j - 1] /\ j - 1 \in 0..MaxNum - 1 /\ ~(j - 1 < k) /\ j = (j - 1) + 1
      BY <1>1, <2>1, <2>2, <2>3, <2>5
    <3>2. j - 1 \in LockedAt(tp)
      BY <2>1, <3>1 DEF LockedAt
    <3> QED BY <3>1, <3>2
  <2> QED BY <1>1, <2>1, <2>3, <2>4, <2>5
<1> QED BY <1>2, <1>3

LEMMA MovedHolding ==
  ASSUME NEW tp, NEW cnt, NEW k, NEW e, NEW new, NEW said,
         Laid(tp, cnt), cnt < MaxNum, Moved(tp, cnt, k, e, new), ~Locked(e), Holding(tp, said)
  PROVE  Holding(new, said)
<1>1. /\ \A i \in LockedAt(tp) : \E j \in LockedAt(new) : new[j] = tp[i]
      /\ \A j \in LockedAt(new) :
           \E i \in LockedAt(tp) : new[j] = tp[i] /\ j = IF i < k THEN i ELSE i + 1
  BY MovedLocked
<1>2. ASSUME NEW j \in LockedAt(new) PROVE \E a \in 1..Len(said) : new[j] = Entry(said[a])
  BY <1>1 DEF Holding
<1>3. ASSUME NEW a \in 1..Len(said) PROVE \E j \in LockedAt(new) : new[j] = Entry(said[a])
  <2>1. PICK i \in LockedAt(tp) : tp[i] = Entry(said[a])
    BY DEF Holding
  <2>2. PICK j \in LockedAt(new) : new[j] = tp[i]
    BY <1>1
  <2> QED BY <2>1, <2>2
<1>4. ASSUME NEW i \in LockedAt(new), NEW j \in LockedAt(new), new[i] = new[j] PROVE i = j
  <2>1. PICK a \in LockedAt(tp) : new[i] = tp[a] /\ i = IF a < k THEN a ELSE a + 1
    BY <1>1
  <2>2. PICK b \in LockedAt(tp) : new[j] = tp[b] /\ j = IF b < k THEN b ELSE b + 1
    BY <1>1
  <2>3. a = b
    BY <1>4, <2>1, <2>2 DEF Holding
  <2> QED BY <2>1, <2>2, <2>3
<1> QED BY <1>2, <1>3, <1>4 DEF Holding

\* A trial that fails leaves the entry checked.
LEMMA CheckedIs ==
  ASSUME NEW tp, NEW cnt, NEW n \in 0..MaxNum - 1, NEW said, NEW new,
         Laid(tp, cnt), Holding(tp, said), tp[n].type = "Unknown",
         new = [tp EXCEPT ![n].type = "Checked"]
  PROVE  /\ Laid(new, cnt) /\ Holding(new, said)
         /\ Tried(tp, n) => Tried(new, n + 1)
         /\ new[n].type = "Checked" /\ \A i \in 0..MaxNum - 1 : i # n => new[i] = tp[i]
<1>1. tp \in [0..MaxNum - 1 -> Entries \cup {Zero}] /\ tp[n] \in Entries
  BY EntryIs DEF Laid, Zero
<1> DEFINE e == [tp[n] EXCEPT !.type = "Checked"]
<1>2. e \in Entries /\ e.type = "Checked"
  BY <1>1 DEF Entries
<1>3. new = [tp EXCEPT ![n] = e]
  OBVIOUS
<1> HIDE DEF e
<1>4. new[n] = e /\ \A i \in 0..MaxNum - 1 : i # n => new[i] = tp[i]
  BY <1>1, <1>3
<1>5. Laid(new, cnt)
  <2>1. new \in [0..MaxNum - 1 -> Entries \cup {Zero}]
    BY <1>1, <1>2, <1>3
  <2>2. ASSUME NEW i \in 0..MaxNum - 1 PROVE new[i] # Zero <=> i < cnt
    <3>1. tp[n] # Zero /\ e # Zero
      BY <1>1, <1>2, EntryIs
    <3> QED BY <1>4, <3>1 DEF Laid
  <2> QED BY <2>1, <2>2 DEF Laid
<1>6. LockedAt(new) = LockedAt(tp) /\ \A i \in LockedAt(tp) : new[i] = tp[i]
  <2>1. ~Locked(tp[n]) /\ ~Locked(e)
    BY <1>2 DEF Locked, Types
  <2>2. ASSUME NEW i \in 0..MaxNum - 1 PROVE Locked(new[i]) <=> Locked(tp[i])
    <3>1. CASE i = n
      BY <1>4, <2>1, <3>1
    <3>2. CASE i # n
      BY <1>4, <3>2
    <3> QED BY <3>1, <3>2
  <2>3. \A i \in LockedAt(tp) : i # n /\ i \in 0..MaxNum - 1
    BY <2>1 DEF LockedAt
  <2>4. LockedAt(new) = LockedAt(tp)
    BY <2>2 DEF LockedAt
  <2> QED BY <1>4, <2>3, <2>4
<1>7. Holding(new, said)
  <2>1. \A i \in LockedAt(new) : \E a \in 1..Len(said) : new[i] = Entry(said[a])
    BY <1>6 DEF Holding
  <2>2. \A a \in 1..Len(said) : \E i \in LockedAt(new) : new[i] = Entry(said[a])
    BY <1>6 DEF Holding
  <2>3. \A i, k \in LockedAt(new) : new[i] = new[k] => i = k
    BY <1>6 DEF Holding
  <2> QED BY <2>1, <2>2, <2>3 DEF Holding
<1>8. ASSUME Tried(tp, n) PROVE Tried(new, n + 1)
  BY <1>2, <1>4, <1>8, SizeIs DEF Tried
<1> QED BY <1>2, <1>4, <1>5, <1>7, <1>8

\* A trial that succeeds leaves the entry locked, and it is told.
LEMMA LockedIs ==
  ASSUME NEW tp, NEW cnt, NEW n \in 0..MaxNum - 1, NEW S, NEW said \in Seq(S), NEW p \in S, NEW new,
         Laid(tp, cnt), Holding(tp, said), tp[n].type = "Unknown",
         Entry(p) \in Entries, p.type \in Types,
         \A a \in 1..Len(said) : Entry(said[a]) # Entry(p),
         new = [tp EXCEPT ![n] = Entry(p)]
  PROVE  /\ Laid(new, cnt) /\ Holding(new, Append(said, p))
         /\ Tried(tp, n) => Tried(new, n + 1)
<1>1. tp \in [0..MaxNum - 1 -> Entries \cup {Zero}] /\ tp[n] \in Entries
  BY EntryIs DEF Laid, Zero
<1> DEFINE e == Entry(p)
<1>2. e.type \in Types /\ Locked(e) /\ ~Locked(tp[n]) /\ e \in Entries
  BY DEF Entry, Locked, Types
<1> HIDE DEF e
<1>3. new = [tp EXCEPT ![n] = e]
  BY DEF e
<1>4. new[n] = e /\ \A i \in 0..MaxNum - 1 : i # n => new[i] = tp[i]
  BY <1>1, <1>3
<1>5. Laid(new, cnt)
  <2>1. new \in [0..MaxNum - 1 -> Entries \cup {Zero}]
    BY <1>1, <1>2, <1>3
  <2>2. ASSUME NEW i \in 0..MaxNum - 1 PROVE new[i] # Zero <=> i < cnt
    <3>1. tp[n] # Zero /\ e # Zero
      BY <1>1, <1>2, EntryIs
    <3> QED BY <1>4, <3>1 DEF Laid
  <2> QED BY <2>1, <2>2 DEF Laid
<1>6. LockedAt(new) = LockedAt(tp) \cup {n} /\ n \notin LockedAt(tp)
      /\ \A i \in LockedAt(tp) : new[i] = tp[i]
  BY <1>2, <1>4 DEF LockedAt
<1> DEFINE more == Append(said, p)
<1>7. /\ Len(said) \in Nat /\ Len(more) = Len(said) + 1 /\ more[Len(said) + 1] = p
      /\ \A a \in 1..Len(said) : more[a] = said[a]
  OBVIOUS
<1> HIDE DEF more
<1>8. \A i \in LockedAt(new) : \E a \in 1..Len(more) : new[i] = Entry(more[a])
  <2>1. ASSUME NEW i \in LockedAt(tp) PROVE \E a \in 1..Len(more) : new[i] = Entry(more[a])
    <3>1. PICK a \in 1..Len(said) : tp[i] = Entry(said[a])
      BY DEF Holding
    <3>2. a \in 1..Len(more) /\ new[i] = Entry(more[a])
      BY <1>6, <1>7, <3>1
    <3> QED BY <3>2
  <2>2. Len(said) + 1 \in 1..Len(more) /\ new[n] = Entry(more[Len(said) + 1])
    BY <1>4, <1>7 DEF e
  <2> QED BY <1>6, <2>1, <2>2
<1>9. \A a \in 1..Len(more) : \E i \in LockedAt(new) : new[i] = Entry(more[a])
  <2> SUFFICES ASSUME NEW a \in 1..Len(more) PROVE \E i \in LockedAt(new) : new[i] = Entry(more[a])
    OBVIOUS
  <2>1. CASE a \in 1..Len(said)
    <3>1. PICK i \in LockedAt(tp) : tp[i] = Entry(said[a])
      BY <2>1 DEF Holding
    <3> QED BY <1>6, <1>7, <2>1, <3>1
  <2>2. CASE a = Len(said) + 1
    <3>1. more[a] = p /\ new[n] = Entry(p) /\ n \in LockedAt(new)
      BY <1>4, <1>6, <1>7, <2>2 DEF e
    <3> QED BY <3>1
  <2>3. a \in 1..Len(said) \/ a = Len(said) + 1
    BY <1>7
  <2> QED BY ONLY <2>1, <2>2, <2>3
<1>10. \A i, k \in LockedAt(new) : new[i] = new[k] => i = k
  <2>1. \A i \in LockedAt(tp) : new[i] # e
    BY <1>6 DEF Holding, e
  <2> QED BY <1>4, <1>6, <2>1 DEF Holding
<1>11. \A a, b \in 1..Len(more) : Entry(more[a]) = Entry(more[b]) => a = b
  <2> SUFFICES ASSUME NEW a \in 1..Len(more), NEW b \in 1..Len(more), Entry(more[a]) = Entry(more[b])
               PROVE  a = b
    OBVIOUS
  <2>1. \A c \in 1..Len(more) : c \in 1..Len(said) \/ c = Len(said) + 1
    BY <1>7
  <2>2. \A c \in 1..Len(said) : Entry(more[c]) # Entry(more[Len(said) + 1])
    BY <1>7
  <2>3. CASE a \in 1..Len(said) /\ b \in 1..Len(said)
    BY <1>7, <2>3 DEF Holding
  <2> QED BY <2>1, <2>2, <2>3
<1>12. ASSUME Tried(tp, n) PROVE Tried(new, n + 1)
  <2>1. e.type # "Unknown"
    BY <1>2 DEF Types
  <2> QED BY <1>4, <1>12, <2>1, SizeIs DEF Tried
<1>13. Holding(new, more)
  BY <1>8, <1>9, <1>10, <1>11 DEF Holding
<1> QED BY <1>5, <1>12, <1>13 DEF more

-----------------------------------------------------------------------------
(* remove_unlocked is a stable partition: what was tried in vain goes      *)
(* behind the others.                                                      *)

TriedBefore(tp, i) == {k \in 0..i - 1 : tp[k].type = "Checked"}
KeptBefore(tp, i) == {k \in 0..i - 1 : tp[k].type # "Checked"}

\* The places before i are those of the entries tried in vain and of the others.
LEMMA MoveStepsIs ==
  ASSUME NEW tp, NEW i \in Nat
  PROVE  /\ IsFiniteSet(TriedBefore(tp, i)) /\ MoveSteps(tp, i) = Cardinality(TriedBefore(tp, i))
         /\ IsFiniteSet(KeptBefore(tp, i)) /\ Cardinality(KeptBefore(tp, i)) = i - MoveSteps(tp, i)
         /\ MoveSteps(tp, i) \in Nat /\ MoveSteps(tp, i) <= i
<1> DEFINE D == 0..i - 1  C == TriedBefore(tp, i)  K == KeptBefore(tp, i)
<1>1. IsFiniteSet(D) /\ Cardinality(D) = i
  <2>1. 0 \in Int /\ i - 1 \in Int
    OBVIOUS
  <2>2. IsFiniteSet(D) /\ Cardinality(D) = IF 0 > i - 1 THEN 0 ELSE (i - 1) - 0 + 1
    BY ONLY <2>1, FS_Interval
  <2> QED BY ONLY <2>2, i \in Nat
<1>2. C \subseteq D /\ K = D \ C /\ D \cap C = C
  BY DEF TriedBefore, KeptBefore
<1>3. MoveSteps(tp, i) = Cardinality(C)
  BY DEF MoveSteps, TriedBefore
<1> HIDE DEF D, C, K
<1>4. IsFiniteSet(C) /\ Cardinality(C) <= i
  BY <1>1, <1>2, FS_Subset
<1>5. Cardinality(C) \in Nat
  BY <1>4, FS_CardinalityType
<1>6. IsFiniteSet(K) /\ Cardinality(K) = i - Cardinality(C)
  BY <1>1, <1>2, FS_Difference
<1> QED BY <1>3, <1>4, <1>5, <1>6 DEF C, K

LEMMA MoveStepsNext ==
  ASSUME NEW tp, NEW i \in Nat
  PROVE  MoveSteps(tp, i + 1) = IF tp[i].type = "Checked" THEN MoveSteps(tp, i) + 1 ELSE MoveSteps(tp, i)
<1>1. IsFiniteSet(TriedBefore(tp, i)) /\ i \notin TriedBefore(tp, i)
  <2>1. IsFiniteSet(TriedBefore(tp, i))
    BY MoveStepsIs
  <2>2. i \notin TriedBefore(tp, i)
    BY DEF TriedBefore
  <2> QED BY <2>1, <2>2
<1>2. CASE tp[i].type = "Checked"
  <2>1. TriedBefore(tp, i + 1) = TriedBefore(tp, i) \cup {i}
    BY <1>2 DEF TriedBefore
  <2>2. Cardinality(TriedBefore(tp, i) \cup {i}) = Cardinality(TriedBefore(tp, i)) + 1
    BY <1>1, FS_AddElement
  <2>3. i + 1 \in Nat
    OBVIOUS
  <2>4. MoveSteps(tp, i + 1) = Cardinality(TriedBefore(tp, i + 1))
    BY ONLY <2>3, MoveStepsIs
  <2>5. MoveSteps(tp, i) = Cardinality(TriedBefore(tp, i))
    BY MoveStepsIs
  <2> QED BY ONLY <1>2, <2>1, <2>2, <2>4, <2>5
<1>3. CASE tp[i].type # "Checked"
  <2>1. TriedBefore(tp, i + 1) = TriedBefore(tp, i)
    BY <1>3 DEF TriedBefore
  <2> QED BY <1>3, <2>1, MoveStepsIs
<1> QED BY <1>2, <1>3

\* An entry that is kept goes before the place of the next one kept.
LEMMA KeptGrows ==
  ASSUME NEW tp, NEW i \in Nat, NEW k \in 0..i - 1, tp[k].type # "Checked"
  PROVE  k - MoveSteps(tp, k) < i - MoveSteps(tp, i)
<1> DEFINE A == KeptBefore(tp, k)  B == KeptBefore(tp, i)
<1>1. k \in Nat /\ k \notin A /\ A \cup {k} \subseteq B
  BY DEF KeptBefore
<1>2. /\ IsFiniteSet(A) /\ Cardinality(A) = k - MoveSteps(tp, k)
      /\ IsFiniteSet(B) /\ Cardinality(B) = i - MoveSteps(tp, i)
      /\ MoveSteps(tp, k) \in Nat /\ MoveSteps(tp, i) \in Nat
  BY <1>1, MoveStepsIs
<1> HIDE DEF A, B
<1>3. Cardinality(A \cup {k}) = Cardinality(A) + 1
  BY <1>1, <1>2, FS_AddElement
<1>4. Cardinality(A \cup {k}) <= Cardinality(B)
  BY <1>1, <1>2, FS_Subset
<1> QED BY <1>1, <1>2, <1>3, <1>4

\* What the sweep does at place k of q, and f is the function that Swept is read from.
SweptAt(tp, k, q) ==
  LET to == k - MoveSteps(tp, k)
  IN  IF tp[k].type = "Checked" THEN q ELSE [q EXCEPT ![to] = q[k], ![k] = q[to]]

Sweeps(tp, n, f) == f = [i \in 0..n |-> IF i = 0 THEN tp ELSE SweptAt(tp, i - 1, f[i - 1])]

\* There is such a function: were there none for some n, for the least one there is.
LEMMA SweepsExist ==
  ASSUME NEW tp, NEW n \in Nat
  PROVE  \E f : Sweeps(tp, n, f)
<1> DEFINE Not == {m \in Nat : ~ \E f : Sweeps(tp, m, f)}
<1> SUFFICES ASSUME Not # {} PROVE FALSE
  OBVIOUS
<1>1. Not \subseteq Nat
  OBVIOUS
<1>2. Min(Not) \in Not /\ \A k \in Not : Min(Not) <= k
  BY <1>1, LeastNat
<1>3. PICK m \in Not : \A k \in Not : m <= k
  BY <1>2
<1>4. m \in Nat
  OBVIOUS
<1>5. CASE m = 0
  <2> DEFINE f == [i \in 0..m |-> tp]
  <2>1. Sweeps(tp, m, f)
    BY <1>5 DEF Sweeps
  <2> QED BY <2>1
<1>6. CASE m # 0
  <2>1. m - 1 \in Nat /\ m - 1 \notin Not
    BY <1>3, <1>4, <1>6
  <2>2. PICK h : Sweeps(tp, m - 1, h)
    BY <2>1
  <2> DEFINE f == [i \in 0..m |-> IF i = m THEN SweptAt(tp, m - 1, h[m - 1]) ELSE h[i]]
  <2>3. \A i \in 0..m - 1 : f[i] = h[i] /\ h[i] = IF i = 0 THEN tp ELSE SweptAt(tp, i - 1, h[i - 1])
    BY <1>4, <2>2 DEF Sweeps
  <2>4. \A i \in 0..m : f[i] = IF i = 0 THEN tp ELSE SweptAt(tp, i - 1, f[i - 1])
    <3> SUFFICES ASSUME NEW i \in 0..m PROVE f[i] = IF i = 0 THEN tp ELSE SweptAt(tp, i - 1, f[i - 1])
      OBVIOUS
    <3>1. f[m] = SweptAt(tp, m - 1, h[m - 1]) /\ m - 1 \in 0..m - 1
      BY <1>4, <2>1
    <3> HIDE DEF f
    <3>2. CASE i = m
      BY <1>6, <2>3, <3>1, <3>2
    <3>3. CASE i # m
      <4>1. i \in 0..m - 1 /\ (i # 0 => i - 1 \in 0..m - 1)
        BY <1>4, <3>3
      <4> QED BY <2>3, <4>1
    <3> QED BY <3>2, <3>3
  <2>5. f = [i \in 0..m |-> f[i]]
    OBVIOUS
  <2> HIDE DEF f
  <2>6. Sweeps(tp, m, f)
    BY ONLY <2>4, <2>5 DEF Sweeps
  <2> QED BY <2>6
<1> QED BY <1>5, <1>6

LEMMA SweptIs ==
  ASSUME NEW tp, NEW last \in Nat
  PROVE  \E f : Sweeps(tp, last + 1, f) /\ Swept(tp, last) = f[last + 1]
<1> DEFINE f == CHOOSE f : Sweeps(tp, last + 1, f)
<1>1. Sweeps(tp, last + 1, f)
  BY SweepsExist
<1>2. f = CHOOSE h : h = [i \in 0..last + 1 |-> IF i = 0 THEN tp ELSE SweptAt(tp, i - 1, h[i - 1])]
  BY DEF Sweeps
<1>3. Swept(tp, last) = f[last + 1]
  BY <1>2 DEF Swept, SweptAt
<1> QED BY <1>1, <1>3

\* Before place i the entries kept stand in front, and those tried in vain
\* behind them; from i on nothing has changed.
Staged(tp, i, q) ==
  /\ DOMAIN q = 0..MaxNum - 1
  /\ \A k \in 0..i - 1 : tp[k].type # "Checked" => q[k - MoveSteps(tp, k)] = tp[k]
  /\ \A p \in 0..i - 1 : p >= i - MoveSteps(tp, i) => q[p].type = "Checked"
  /\ \A p \in 0..MaxNum - 1 : p >= i => q[p] = tp[p]

LEMMA StagedNext ==
  ASSUME NEW tp, NEW i \in Nat, i < MaxNum, NEW q, Staged(tp, i, q)
  PROVE  Staged(tp, i + 1, SweptAt(tp, i, q))
<1> DEFINE m == MoveSteps(tp, i)  new == SweptAt(tp, i, q)  to == i - m
<1>1. m \in Nat /\ m <= i /\ MaxNum \in Nat
  BY MoveStepsIs, SizeIs
<1>2. /\ DOMAIN q = 0..MaxNum - 1
      /\ \A k \in 0..i - 1 : tp[k].type # "Checked" => q[k - MoveSteps(tp, k)] = tp[k]
      /\ \A p \in 0..i - 1 : p >= i - m => q[p].type = "Checked"
      /\ \A p \in 0..MaxNum - 1 : p >= i => q[p] = tp[p]
  BY DEF Staged
<1>3. MoveSteps(tp, i + 1) = IF tp[i].type = "Checked" THEN m + 1 ELSE m
  BY MoveStepsNext
<1>4. i \in 0..MaxNum - 1 /\ q[i] = tp[i]
  BY <1>1, <1>2
<1>5. CASE tp[i].type = "Checked"
  <2>1. new = q /\ MoveSteps(tp, i + 1) = m + 1
    BY <1>3, <1>5 DEF SweptAt
  <2> HIDE DEF m, new
  <2>2. \A k \in 0..(i + 1) - 1 : tp[k].type # "Checked" => q[k - MoveSteps(tp, k)] = tp[k]
    <3> SUFFICES ASSUME NEW k \in 0..(i + 1) - 1, tp[k].type # "Checked" PROVE q[k - MoveSteps(tp, k)] = tp[k]
      OBVIOUS
    <3>1. k # i
      BY <1>5
    <3>2. k \in 0..i - 1
      BY ONLY <3>1, i \in Nat, k \in 0..(i + 1) - 1
    <3> QED BY <1>2, <3>2
  <2>3. \A p \in 0..(i + 1) - 1 : p >= (i + 1) - (m + 1) => q[p].type = "Checked"
    <3> SUFFICES ASSUME NEW p \in 0..(i + 1) - 1, p >= (i + 1) - (m + 1) PROVE q[p].type = "Checked"
      OBVIOUS
    <3>1. p >= i - m /\ (p = i \/ p \in 0..i - 1)
      BY <1>1
    <3> QED BY <1>2, <1>4, <1>5, <3>1
  <2>4. \A p \in 0..MaxNum - 1 : p >= i + 1 => q[p] = tp[p]
    BY <1>2
  <2> QED BY <1>2, <2>1, <2>2, <2>3, <2>4 DEF new, Staged
<1>6. CASE tp[i].type # "Checked"
  <2>1. new = [q EXCEPT ![to] = q[i], ![i] = q[to]] /\ MoveSteps(tp, i + 1) = m
    BY <1>3, <1>6 DEF SweptAt
  <2>2. to \in 0..MaxNum - 1 /\ to <= i /\ to \in Nat
    BY <1>1, <1>4
  <2> HIDE DEF m, new, to
  <2>3. /\ DOMAIN new = 0..MaxNum - 1
        /\ new[i] = q[to] /\ new[to] = q[i]
        /\ \A p \in 0..MaxNum - 1 : p # i /\ p # to => new[p] = q[p]
    BY <1>2, <1>4, <2>1, <2>2
  <2>4. \A k \in 0..(i + 1) - 1 : tp[k].type # "Checked" => new[k - MoveSteps(tp, k)] = tp[k]
    <3> SUFFICES ASSUME NEW k \in 0..(i + 1) - 1, tp[k].type # "Checked" PROVE new[k - MoveSteps(tp, k)] = tp[k]
      OBVIOUS
    <3>1. CASE k = i
      BY <1>4, <2>3, <3>1 DEF to, m
    <3>2. CASE k # i
      <4>1. k \in 0..i - 1 /\ k \in Nat
        BY ONLY <3>2, i \in Nat, k \in 0..(i + 1) - 1
      <4>2. q[k - MoveSteps(tp, k)] = tp[k]
        BY <1>2, <4>1
      <4>3. k - MoveSteps(tp, k) < to
        BY <4>1, KeptGrows DEF to, m
      <4>4. MoveSteps(tp, k) \in Nat /\ MoveSteps(tp, k) <= k
        BY <4>1, MoveStepsIs
      <4>5. k - MoveSteps(tp, k) \in 0..MaxNum - 1
        BY <1>1, <1>4, <4>1, <4>4
      <4>6. k - MoveSteps(tp, k) # i /\ k - MoveSteps(tp, k) # to
        BY <2>2, <4>1, <4>3, <4>4
      <4> QED BY <2>3, <4>2, <4>5, <4>6
    <3> QED BY <3>1, <3>2
  <2>5. \A p \in 0..(i + 1) - 1 : p >= (i + 1) - m => new[p].type = "Checked"
    <3> SUFFICES ASSUME NEW p \in 0..(i + 1) - 1, p >= (i + 1) - m PROVE new[p].type = "Checked"
      OBVIOUS
    <3>1. to = i - m
      BY DEF to, m
    <3>2. CASE p = i
      <4>1. to \in 0..i - 1 /\ to >= i - m
        BY <1>1, <2>2, <3>1, <3>2
      <4>2. q[to].type = "Checked"
        BY ONLY <1>2, <4>1
      <4> QED BY <2>3, <3>2, <4>2
    <3>3. CASE p # i
      <4>1. p \in 0..i - 1 /\ p >= i - m /\ p # to /\ p \in 0..MaxNum - 1
        BY <1>1, <1>4, <3>1, <3>3
      <4>2. q[p].type = "Checked"
        BY ONLY <1>2, <4>1
      <4> QED BY <2>3, <3>3, <4>1, <4>2
    <3> QED BY <3>2, <3>3
  <2>6. \A p \in 0..MaxNum - 1 : p >= i + 1 => new[p] = tp[p]
    <3> SUFFICES ASSUME NEW p \in 0..MaxNum - 1, p >= i + 1 PROVE new[p] = tp[p]
      OBVIOUS
    <3>1. p # i /\ p # to /\ p >= i
      BY <1>1, <2>2
    <3> QED BY <1>2, <2>3, <3>1
  <2> QED BY <2>1, <2>3, <2>4, <2>5, <2>6 DEF new, Staged
<1> QED BY <1>5, <1>6

\* So the sweep passes through the stages: where it first did not, it does.
LEMMA SweptStaged ==
  ASSUME NEW tp, NEW last \in Nat, DOMAIN tp = 0..MaxNum - 1, last < MaxNum
  PROVE  Staged(tp, last + 1, Swept(tp, last))
<1>1. PICK f : Sweeps(tp, last + 1, f) /\ Swept(tp, last) = f[last + 1]
  BY SweptIs
<1>2. \A i \in 0..last + 1 : f[i] = IF i = 0 THEN tp ELSE SweptAt(tp, i - 1, f[i - 1])
  BY <1>1 DEF Sweeps
<1> DEFINE Not == {i \in 0..last + 1 : ~Staged(tp, i, f[i])}
<1>3. ASSUME Not # {} PROVE FALSE
  <2>1. Not \subseteq Nat
    OBVIOUS
  <2>2. Min(Not) \in Not /\ \A k \in Not : Min(Not) <= k
    BY <1>3, <2>1, LeastNat
  <2>3. PICK i \in Not : \A k \in Not : i <= k
    BY <2>2
  <2>4. i \in Nat /\ i <= last + 1 /\ i \in 0..last + 1 /\ ~Staged(tp, i, f[i])
    OBVIOUS
  <2>5. CASE i = 0
    <3>1. f[i] = tp
      BY <1>2, <2>4, <2>5
    <3>2. Staged(tp, 0, tp)
      BY DEF Staged
    <3> QED BY <2>4, <2>5, <3>1, <3>2
  <2>6. CASE i # 0
    <3> DEFINE h == i - 1
    <3>1. h \in Nat /\ h \in 0..last + 1 /\ h < i /\ i = h + 1 /\ h < MaxNum
      BY <2>4, <2>6, SizeIs
    <3>2. f[i] = SweptAt(tp, h, f[h])
      BY <1>2, <2>4, <2>6
    <3> HIDE DEF h
    <3>3. Staged(tp, h, f[h])
      BY <2>3, <3>1
    <3>4. Staged(tp, h + 1, SweptAt(tp, h, f[h]))
      BY ONLY <3>1, <3>3, StagedNext
    <3> QED BY <2>4, <3>1, <3>2, <3>4
  <2> QED BY <2>5, <2>6
<1>4. last + 1 \in 0..last + 1
  OBVIOUS
<1> QED BY <1>1, <1>3, <1>4

\* What place k's entry comes behind, among the places up to last.
Ahead(tp, last, k) ==
  {j \in 0..last : IF tp[k].type = "Checked" THEN ~(tp[j].type = "Checked") \/ j < k
                                             ELSE ~(tp[j].type = "Checked") /\ j < k}

Rank(tp, last, k) == Cardinality(Ahead(tp, last, k))

LEMMA RankIs ==
  ASSUME NEW tp, NEW last \in Nat, NEW k \in 0..last
  PROVE  IsFiniteSet(Ahead(tp, last, k)) /\ Rank(tp, last, k) \in 0..last
<1> DEFINE S == 0..last
<1>1. IsFiniteSet(S) /\ Cardinality(S) = last + 1
  BY FS_Interval
<1> HIDE DEF S
<1>2. k \in S
  BY DEF S
<1>3. IsFiniteSet(S \ {k}) /\ Cardinality(S \ {k}) = last
  BY <1>1, <1>2, FS_RemoveElement
<1>4. Ahead(tp, last, k) \in SUBSET (S \ {k})
  BY DEF Ahead, S
<1>5. IsFiniteSet(Ahead(tp, last, k)) /\ Cardinality(Ahead(tp, last, k)) <= last
  BY <1>3, <1>4, FS_Subset
<1>6. Cardinality(Ahead(tp, last, k)) \in Nat
  BY <1>5, FS_CardinalityType
<1> QED BY <1>5, <1>6 DEF Rank

LEMMA RankGrows ==
  ASSUME NEW tp, NEW last \in Nat, NEW k \in 0..last, NEW l \in 0..last, k \in Ahead(tp, last, l)
  PROVE  Rank(tp, last, k) < Rank(tp, last, l)
<1> DEFINE A == Ahead(tp, last, k)  B == Ahead(tp, last, l)
<1>1. k \notin A /\ A \cup {k} \subseteq B
  <2>1. k \notin A
    BY DEF Ahead
  <2>2. ASSUME NEW j \in A PROVE j \in B
    BY DEF Ahead
  <2> QED BY <2>1, <2>2
<1>2. IsFiniteSet(A) /\ IsFiniteSet(B) /\ Rank(tp, last, k) = Cardinality(A) /\ Rank(tp, last, l) = Cardinality(B)
      /\ Rank(tp, last, k) \in 0..last /\ Rank(tp, last, l) \in 0..last
  BY RankIs DEF Rank
<1> HIDE DEF A, B
<1>3. Cardinality(A \cup {k}) = Cardinality(A) + 1
  BY <1>1, <1>2, FS_AddElement
<1>4. Cardinality(A \cup {k}) <= Cardinality(B)
  BY <1>1, <1>2, FS_Subset
<1> QED BY <1>2, <1>3, <1>4

LEMMA RankOnce ==
  ASSUME NEW tp, NEW last \in Nat, NEW k \in 0..last, NEW l \in 0..last,
         Rank(tp, last, k) = Rank(tp, last, l)
  PROVE  k = l
<1>1. k # l => k \in Ahead(tp, last, l) \/ l \in Ahead(tp, last, k)
  BY DEF Ahead
<1>2. ASSUME NEW a \in 0..last, NEW b \in 0..last, a \in Ahead(tp, last, b)
      PROVE  Rank(tp, last, a) # Rank(tp, last, b)
  <2>1. Rank(tp, last, a) < Rank(tp, last, b) /\ Rank(tp, last, a) \in 0..last /\ Rank(tp, last, b) \in 0..last
    BY <1>2, RankGrows, RankIs
  <2> QED BY <2>1
<1> QED BY <1>1, <1>2

LEMMA RankOnto ==
  ASSUME NEW tp, NEW last \in Nat, NEW i \in 0..last
  PROVE  \E k \in 0..last : Rank(tp, last, k) = i
<1> DEFINE S == 0..last  f == [k \in S |-> Rank(tp, last, k)]
<1>1. IsFiniteSet(S)
  BY FS_Interval
<1>2. \A k \in S : f[k] \in S
  BY RankIs
<1>3. \A k, l \in S : f[k] = f[l] => k = l
  BY RankOnce
<1>4. f \in [S -> S]
  BY <1>2
<1>5. i \in S /\ \A k \in S : f[k] = Rank(tp, last, k)
  OBVIOUS
<1> HIDE DEF S, f
<1>6. f \in Injection(S, S)
  BY <1>3, <1>4 DEF Injection, IsInjective
<1>7. f \in Surjection(S, S)
  BY <1>1, <1>6, FS_Injection
<1>8. PICK k \in S : f[k] = i
  BY <1>5, <1>7 DEF Surjection
<1> QED BY <1>5, <1>8 DEF S

\* Place i of q has the entry of k, or one tried in vain if that was.
Placed(tp, last, q, k, i) ==
  /\ Rank(tp, last, k) = i
  /\ tp[k].type # "Checked" => q[i] = tp[k]
  /\ tp[k].type = "Checked" => q[i].type = "Checked"

\* Every place gets the entry of its rank.
LEMMA SweptHolds ==
  ASSUME NEW tp, NEW last \in Nat, DOMAIN tp = 0..MaxNum - 1, last < MaxNum, NEW i \in 0..last
  PROVE  \E k \in 0..last : Placed(tp, last, Swept(tp, last), k, i)
<1> DEFINE q == Swept(tp, last)
<1>1. PICK k \in 0..last : Rank(tp, last, k) = i
  BY RankOnto
<1>2. /\ \A j \in 0..(last + 1) - 1 : tp[j].type # "Checked" => q[j - MoveSteps(tp, j)] = tp[j]
      /\ \A p \in 0..(last + 1) - 1 : p >= (last + 1) - MoveSteps(tp, last + 1) => q[p].type = "Checked"
  BY SweptStaged DEF Staged
<1>3. k \in Nat /\ k \in 0..(last + 1) - 1 /\ i \in 0..(last + 1) - 1 /\ last + 1 \in Nat
  OBVIOUS
<1>4. IsFiniteSet(Ahead(tp, last, k)) /\ Cardinality(Ahead(tp, last, k)) = i
  BY <1>1, RankIs DEF Rank
<1> HIDE DEF q
<1>5. ASSUME tp[k].type # "Checked" PROVE q[i] = tp[k]
  <2>1. Ahead(tp, last, k) = KeptBefore(tp, k)
    BY <1>5 DEF Ahead, KeptBefore
  <2>2. Cardinality(KeptBefore(tp, k)) = k - MoveSteps(tp, k)
    BY <1>3, MoveStepsIs
  <2> QED BY <1>2, <1>3, <1>4, <1>5, <2>1, <2>2
<1>6. ASSUME tp[k].type = "Checked" PROVE q[i].type = "Checked"
  <2>1. KeptBefore(tp, last + 1) \subseteq Ahead(tp, last, k)
    BY <1>6 DEF Ahead, KeptBefore
  <2>2. Cardinality(KeptBefore(tp, last + 1)) <= i
    BY <1>4, <2>1, FS_Subset
  <2>3. /\ Cardinality(KeptBefore(tp, last + 1)) = (last + 1) - MoveSteps(tp, last + 1)
        /\ MoveSteps(tp, last + 1) \in Nat
    BY <1>3, MoveStepsIs
  <2>4. i >= (last + 1) - MoveSteps(tp, last + 1)
    BY <1>3, <2>2, <2>3
  <2> QED BY <1>2, <1>3, <2>4
<1> QED BY <1>1, <1>5, <1>6 DEF q, Placed

\* There are as many locked entries as transponders that were told.
LEMMA LockedCount ==
  ASSUME NEW tp, NEW S, NEW said \in Seq(S), Holding(tp, said)
  PROVE  IsFiniteSet(LockedAt(tp)) /\ Cardinality(LockedAt(tp)) = Len(said)
<1> DEFINE T == LockedAt(tp)  n == Len(said)
           f == [a \in 1..n |-> CHOOSE i \in T : tp[i] = Entry(said[a])]
<1>1. n \in Nat
  OBVIOUS
<1>2. /\ \A i \in T : \E a \in 1..n : tp[i] = Entry(said[a])
      /\ \A a \in 1..n : \E i \in T : tp[i] = Entry(said[a])
      /\ \A i, k \in T : tp[i] = tp[k] => i = k
      /\ \A a, b \in 1..n : Entry(said[a]) = Entry(said[b]) => a = b
  BY DEF Holding
<1> HIDE DEF T, n
<1>3. \A a \in 1..n : f[a] \in T /\ tp[f[a]] = Entry(said[a])
  BY <1>2
<1>4. f \in [1..n -> T]
  BY <1>3
<1> HIDE DEF f
<1>5. \A a, b \in 1..n : f[a] = f[b] => a = b
  BY <1>2, <1>3
<1>6. \A i \in T : \E a \in 1..n : f[a] = i
  <2> SUFFICES ASSUME NEW i \in T PROVE \E a \in 1..n : f[a] = i
    OBVIOUS
  <2>1. PICK a \in 1..n : tp[i] = Entry(said[a])
    BY <1>2
  <2>2. f[a] = i
    BY <1>2, <1>3, <2>1
  <2> QED BY <2>2
<1>7. f \in Bijection(1..n, T)
  BY <1>4, <1>5, <1>6 DEF Bijection, Injection, Surjection, IsInjective
<1>8. ExistsBijection(1..n, T)
  BY <1>7 DEF ExistsBijection
<1>9. IsFiniteSet(1..n) /\ Cardinality(1..n) = n
  BY <1>1, FS_Interval
<1>10. IsFiniteSet(T) /\ Cardinality(T) = n
  BY <1>8, <1>9, FS_Bijection
<1> QED BY <1>10 DEF T, n

\* How far the sweep goes: to the first place not in use.
Last(cnt) == IF cnt < MaxNum THEN cnt ELSE MaxNum - 1

\* A locked entry has a smaller rank than all others.
LEMMA RankOfLocked ==
  ASSUME NEW tp, NEW cnt, Laid(tp, cnt), Tried(tp, MaxNum), NEW k \in 0..Last(cnt),
         IsFiniteSet(LockedAt(tp))
  PROVE  Locked(tp[k]) <=> Rank(tp, Last(cnt), k) < Cardinality(LockedAt(tp))
<1> DEFINE last == Last(cnt)  T == LockedAt(tp)  A == Ahead(tp, last, k)
<1>1. cnt \in Nat /\ MaxNum \in Nat /\ last \in Nat /\ last < MaxNum /\ last <= cnt
      /\ \A i \in 0..MaxNum - 1 : i < cnt => i <= last
  BY SizeIs DEF Laid, Last
<1>2. k \in Nat /\ k <= last /\ k \in 0..MaxNum - 1
  BY <1>1
<1>3. \A i \in 0..MaxNum - 1 :
        /\ i < cnt => tp[i].type \in Types \cup {"Checked"}
        /\ ~(i < cnt) => tp[i] = Zero
  <2> SUFFICES ASSUME NEW i \in 0..MaxNum - 1
               PROVE  /\ i < cnt => tp[i].type \in Types \cup {"Checked"}
                      /\ ~(i < cnt) => tp[i] = Zero
    OBVIOUS
  <2>1. tp[i] \in Entries \cup {Zero} /\ (tp[i] # Zero <=> i < cnt)
    BY DEF Laid
  <2>2. tp[i].type # "Unknown"
    BY SizeIs DEF Tried
  <2>3. tp[i] \in Entries => tp[i].type \in Types \cup {"Unknown", "Checked"}
    BY DEF Entries
  <2> QED BY <2>1, <2>2, <2>3
<1>4. \A i \in 0..MaxNum - 1 : i \in T <=> i < cnt /\ tp[i].type # "Checked"
  <2> SUFFICES ASSUME NEW i \in 0..MaxNum - 1
               PROVE  Locked(tp[i]) <=> i < cnt /\ tp[i].type # "Checked"
    BY DEF LockedAt
  <2>1. CASE i < cnt
    BY <1>3, <2>1 DEF Locked, Types
  <2>2. CASE ~(i < cnt)
    BY <1>3, <2>2, EntryIs
  <2> QED BY <2>1, <2>2
<1>5. IsFiniteSet(A) /\ Cardinality(A) = Rank(tp, last, k)
  BY <1>1, RankIs DEF Rank
<1>6. k \in T <=> Locked(tp[k])
  BY <1>2 DEF LockedAt
<1>7. T \subseteq 0..last /\ T \subseteq 0..MaxNum - 1
  BY <1>1, <1>4 DEF LockedAt
<1>8. A = {j \in 0..last : IF tp[k].type = "Checked" THEN tp[j].type # "Checked" \/ j < k
                                                     ELSE tp[j].type # "Checked" /\ j < k}
  BY DEF Ahead
<1> HIDE DEF last, T, A
<1>9. ASSUME k \in T PROVE Cardinality(A) < Cardinality(T)
  <2>1. A \subseteq T \ {k}
    <3> SUFFICES ASSUME NEW j \in A PROVE j \in T /\ j # k
      OBVIOUS
    <3>1. tp[k].type # "Checked" /\ k < cnt
      BY <1>2, <1>4, <1>9
    <3>2. j \in 0..last /\ tp[j].type # "Checked" /\ j < k
      BY <1>8, <3>1
    <3>3. j \in 0..MaxNum - 1 /\ j < cnt /\ j # k
      BY <1>1, <1>2, <3>1, <3>2
    <3> QED BY <1>4, <3>2, <3>3
  <2>2. IsFiniteSet(T \ {k}) /\ Cardinality(T \ {k}) = Cardinality(T) - 1
    BY <1>9, FS_RemoveElement, IsFiniteSet(T) DEF T
  <2>3. Cardinality(A) <= Cardinality(T) - 1
    BY <2>1, <2>2, FS_Subset
  <2>4. Cardinality(A) \in Nat /\ Cardinality(T) \in Nat
    BY <1>5, FS_CardinalityType, IsFiniteSet(T) DEF T
  <2> QED BY <2>3, <2>4
<1>10. ASSUME k \notin T PROVE ~(Cardinality(A) < Cardinality(T))
  <2>1. T \subseteq A
    <3> SUFFICES ASSUME NEW j \in T PROVE j \in A
      OBVIOUS
    <3>1. j \in 0..last /\ j < cnt /\ tp[j].type # "Checked"
      BY <1>4, <1>7
    <3>2. CASE tp[k].type = "Checked"
      BY <1>8, <3>1, <3>2
    <3>3. CASE tp[k].type # "Checked"
      <4>1. ~(k < cnt)
        BY <1>2, <1>4, <1>10, <3>3
      <4>2. j < k
        BY <1>1, <1>2, <3>1, <4>1
      <4> QED BY <1>8, <3>1, <3>3, <4>2
    <3> QED BY <3>2, <3>3
  <2>2. Cardinality(T) <= Cardinality(A)
    BY <1>5, <2>1, FS_Subset
  <2>3. Cardinality(A) \in Nat /\ Cardinality(T) \in Nat
    BY <1>5, FS_CardinalityType, IsFiniteSet(T) DEF T
  <2> QED BY <2>2, <2>3
<1> QED BY <1>5, <1>6, <1>9, <1>10 DEF last, T

\* In front are the transponders that were told, each of them once, and no
\* other entry in use is locked.
InFront(new, cnt, said) ==
  /\ \A i \in 0..Len(said) - 1 : i \in 0..MaxNum - 1 /\ Locked(new[i])
  /\ {new[i] : i \in 0..Len(said) - 1} = {Entry(said[a]) : a \in 1..Len(said)}
  /\ \A i, k \in 0..Len(said) - 1 : new[i] = new[k] => i = k
  /\ \A i \in 0..MaxNum - 1 : i < cnt /\ i >= Len(said) => ~Locked(new[i])

LEMMA SweepHolds ==
  ASSUME NEW tp, NEW cnt, NEW S, NEW said \in Seq(S), NEW new,
         Laid(tp, cnt), Tried(tp, MaxNum), Holding(tp, said), new = Swept(tp, Last(cnt))
  PROVE  InFront(new, cnt, said)
<1> DEFINE last == Last(cnt)  n == Len(said)  T == LockedAt(tp)
<1>1. cnt \in Nat /\ MaxNum \in Nat /\ last \in Nat /\ last < MaxNum /\ n \in Nat
      /\ \A i \in 0..MaxNum - 1 : i < cnt => i <= last
  BY SizeIs DEF Laid, Last
<1>2. IsFiniteSet(T) /\ Cardinality(T) = n
  BY LockedCount
<1>3. \A k \in 0..last : Locked(tp[k]) <=> Rank(tp, last, k) < n
  BY <1>2, RankOfLocked
<1>4. DOMAIN tp = 0..MaxNum - 1
  BY DEF Laid
<1>5. \A i \in 0..last : \E k \in 0..last : Placed(tp, last, new, k, i)
  <2>1. new = Swept(tp, last)
    OBVIOUS
  <2>2. last \in Nat /\ last < MaxNum
    BY <1>1
  <2> HIDE DEF last
  <2>3. ASSUME NEW i \in 0..last PROVE \E k \in 0..last : Placed(tp, last, Swept(tp, last), k, i)
    BY ONLY <1>4, <2>2, SweptHolds, i \in 0..last
  <2> QED BY ONLY <2>1, <2>3
<1>6. T \subseteq 0..last
  <2> SUFFICES ASSUME NEW i \in T PROVE i \in 0..last
    OBVIOUS
  <2>1. i \in 0..MaxNum - 1 /\ Locked(tp[i])
    BY DEF LockedAt
  <2>2. i < cnt
    BY <2>1, EntryIs DEF Laid
  <2> QED BY <1>1, <2>1, <2>2
<1>7. n <= last + 1
  <2>1. IsFiniteSet(0..last) /\ Cardinality(0..last) = last + 1
    BY <1>1, FS_Interval
  <2>2. Cardinality(T) <= Cardinality(0..last)
    BY <1>6, <2>1, FS_Subset
  <2> QED BY <1>2, <2>1, <2>2
<1>8. /\ \A i \in T : \E a \in 1..n : tp[i] = Entry(said[a])
      /\ \A a \in 1..n : \E i \in T : tp[i] = Entry(said[a])
      /\ \A i, k \in T : tp[i] = tp[k] => i = k
  BY DEF Holding
<1>9. \A k \in 0..last : k \in T <=> Locked(tp[k])
  BY <1>1 DEF LockedAt
<1>10. \A k \in 0..last : Rank(tp, last, k) \in 0..last
  BY <1>1, RankIs
<1>11. \A k, l \in 0..last : Rank(tp, last, k) = Rank(tp, last, l) => k = l
  BY <1>1, RankOnce
<1>11a. \A k \in T : tp[k].type # "Checked"
  BY DEF LockedAt, Locked, Types
<1> HIDE DEF last, n, T
<1>12. \A i \in 0..n - 1 : i \in 0..last /\ i \in 0..MaxNum - 1 /\ i < n
  BY <1>1, <1>7
<1>13. ASSUME NEW i \in 0..n - 1
       PROVE  \E k \in T : Rank(tp, last, k) = i /\ new[i] = tp[k]
  <2>1. PICK k \in 0..last : Rank(tp, last, k) = i /\ (tp[k].type # "Checked" => new[i] = tp[k])
    BY <1>5, <1>12 DEF Placed
  <2>2. k \in T
    BY <1>3, <1>9, <1>12, <2>1
  <2> QED BY <1>11a, <2>1, <2>2
<1>14. ASSUME NEW k \in T PROVE Rank(tp, last, k) \in 0..n - 1 /\ new[Rank(tp, last, k)] = tp[k]
  <2> DEFINE i == Rank(tp, last, k)
  <2>1. k \in 0..last /\ i < n /\ i \in 0..last
    BY <1>3, <1>6, <1>9, <1>10
  <2>2. PICK l \in 0..last : Rank(tp, last, l) = i /\ (tp[l].type # "Checked" => new[i] = tp[l])
    BY <1>5, <2>1 DEF Placed
  <2>3. l = k
    BY <1>11, <2>1, <2>2
  <2> QED BY <1>1, <1>11a, <2>1, <2>2, <2>3
<1>15. \A i \in 0..n - 1 : i \in 0..MaxNum - 1 /\ Locked(new[i])
  BY <1>6, <1>9, <1>12, <1>13
<1>16. {new[i] : i \in 0..n - 1} = {Entry(said[a]) : a \in 1..n}
  <2>1. ASSUME NEW i \in 0..n - 1 PROVE \E a \in 1..n : new[i] = Entry(said[a])
    BY <1>8, <1>13
  <2>2. ASSUME NEW a \in 1..n PROVE \E i \in 0..n - 1 : new[i] = Entry(said[a])
    <3>1. PICK k \in T : tp[k] = Entry(said[a])
      BY <1>8
    <3> QED BY <1>14, <3>1
  <2>3. ASSUME NEW x \in {new[i] : i \in 0..n - 1} PROVE x \in {Entry(said[a]) : a \in 1..n}
    <3>1. PICK i \in 0..n - 1 : x = new[i]
      BY ONLY x \in {new[i] : i \in 0..n - 1}
    <3>2. PICK a \in 1..n : new[i] = Entry(said[a])
      BY <2>1
    <3> QED BY ONLY <3>1, <3>2
  <2>4. ASSUME NEW x \in {Entry(said[a]) : a \in 1..n} PROVE x \in {new[i] : i \in 0..n - 1}
    <3>1. PICK a \in 1..n : x = Entry(said[a])
      BY ONLY x \in {Entry(said[a]) : a \in 1..n}
    <3>2. PICK i \in 0..n - 1 : new[i] = Entry(said[a])
      BY <2>2
    <3> QED BY ONLY <3>1, <3>2
  <2> QED BY <2>3, <2>4
<1>17. ASSUME NEW i \in 0..n - 1, NEW j \in 0..n - 1, new[i] = new[j] PROVE i = j
  <2>1. PICK k \in T : Rank(tp, last, k) = i /\ new[i] = tp[k]
    BY <1>13
  <2>2. PICK l \in T : Rank(tp, last, l) = j /\ new[j] = tp[l]
    BY <1>13
  <2> QED BY <1>8, <1>17, <2>1, <2>2
<1>18. ASSUME NEW i \in 0..MaxNum - 1, i < cnt, i >= n PROVE ~Locked(new[i])
  <2>1. i \in 0..last
    BY <1>1, <1>18
  <2>2. PICK k \in 0..last : Placed(tp, last, new, k, i)
    BY <1>5, <2>1
  <2>3. ~(i < n)
    BY <1>1, <1>18
  <2>4. ~Locked(tp[k])
    BY <1>3, <2>2, <2>3 DEF Placed
  <2> QED BY <2>2, <2>4 DEF Placed, Locked, Types
<1> QED BY <1>15, <1>16, <1>17, <1>18 DEF n, InFront

\* With every frequency below FREQ_MAX, the sweep goes as far as the entries.
LEMMA RemoveUnlockedIs ==
  ASSUME Laid(tab.tp, tab.cnt) PROVE RemoveUnlocked = Swept(tab.tp, Last(tab.cnt))
<1> DEFINE ends == {i \in Used : At(i).freq >= FreqMax} \cup {tab.cnt}
           span == Min({Min(ends), MaxNum - 1})
<1>1. RemoveUnlocked = Swept(tab.tp, span)
  BY DEF RemoveUnlocked
<1>2. tab.cnt \in Nat /\ MaxNum \in Nat /\ MaxNum - 1 \in Nat
  BY SizeIs DEF Laid
<1>3. \A i \in Used : ~(At(i).freq >= FreqMax)
  <2> SUFFICES ASSUME NEW i \in Used PROVE ~(At(i).freq >= FreqMax)
    OBVIOUS
  <2>1. i \in Nat /\ i < tab.cnt
    BY <1>2 DEF Used
  <2>2. CASE i < MaxNum
    <3>1. At(i) = tab.tp[i] /\ i \in 0..MaxNum - 1
      BY <1>2, <2>1, <2>2 DEF At
    <3>2. tab.tp[i] \in Entries
      BY <2>1, <3>1 DEF Laid
    <3> QED BY <3>1, <3>2 DEF Entries, Freqs, FreqMax
  <2>3. CASE ~(i < MaxNum)
    BY <2>3, EntryIs DEF At, FreqMax
  <2> QED BY <2>2, <2>3
<1>4. ends = {tab.cnt}
  BY <1>3
<1>5. Min({tab.cnt}) = tab.cnt
  <2>1. {tab.cnt} \subseteq Nat /\ {tab.cnt} # {}
    BY <1>2
  <2>2. Min({tab.cnt}) \in {tab.cnt}
    BY ONLY <2>1, LeastNat
  <2> QED BY ONLY <2>2
<1>6. span = Min({tab.cnt, MaxNum - 1})
  BY <1>4, <1>5
<1> HIDE DEF span
<1>7. Min({tab.cnt, MaxNum - 1}) = Last(tab.cnt)
  <2> DEFINE S == {tab.cnt, MaxNum - 1}
  <2>1. S \subseteq Nat /\ S # {} /\ tab.cnt \in S /\ MaxNum - 1 \in S
    BY <1>2
  <2>2. \A x \in S : x = tab.cnt \/ x = MaxNum - 1
    OBVIOUS
  <2> HIDE DEF S
  <2>3. Min(S) \in S /\ \A k \in S : Min(S) <= k
    BY ONLY <2>1, LeastNat
  <2>4. (Min(S) = tab.cnt \/ Min(S) = MaxNum - 1) /\ Min(S) <= tab.cnt /\ Min(S) <= MaxNum - 1
    BY ONLY <2>1, <2>2, <2>3
  <2>5. Min(S) = Last(tab.cnt)
    BY ONLY <1>2, <2>4 DEF Last
  <2> QED BY <2>5 DEF S
<1> QED BY <1>1, <1>6, <1>7

\* So a scan that ends leaves the table as it is promised.
LEMMA FinishHolds ==
  ASSUME Shaped, Scanning, scan.pc = "remove", ScanFinish
  PROVE  TableHoldsTheLocked'
<1> DEFINE new == Swept(tab.tp, Last(tab.cnt))  said == seen.told  n == Len(said)
<1>1. Laid(tab.tp, tab.cnt) /\ Tried(tab.tp, MaxNum) /\ said \in Seq(sky) /\ Holding(tab.tp, said) /\ tab.tp_num = n
  BY DEF Scanning, WillBeTried
<1>2. tab'.tp = new /\ tab'.cnt = tab.cnt /\ tab'.tp_num = n /\ seen' = seen
  BY <1>1, RemoveUnlockedIs DEF ScanFinish, Shaped, NoTable
<1>3. /\ \A i \in 0..n - 1 : i \in 0..MaxNum - 1 /\ Locked(new[i])
      /\ {new[i] : i \in 0..n - 1} = {Entry(said[a]) : a \in 1..n}
      /\ \A i, k \in 0..n - 1 : new[i] = new[k] => i = k
      /\ \A i \in 0..MaxNum - 1 : i < tab.cnt /\ i >= n => ~Locked(new[i])
  <2> DEFINE tp == tab.tp  cnt == tab.cnt
  <2>1. /\ Laid(tp, cnt) /\ Tried(tp, MaxNum) /\ said \in Seq(sky) /\ Holding(tp, said)
        /\ new = Swept(tp, Last(cnt))
    BY <1>1
  <2> HIDE DEF tp, cnt, new, said
  <2>2. InFront(new, cnt, said)
    BY ONLY <2>1, SweepHolds
  <2> QED BY ONLY <2>2 DEF cnt, InFront
<1>4. n \in Nat /\ DOMAIN said = 1..n /\ tab.cnt \in Nat /\ MaxNum \in Nat
  BY <1>1, SizeIs DEF Laid
<1> DEFINE at(i) == IF i < MaxNum THEN new[i] ELSE Zero
<1> HIDE DEF new, n
<1>5. \A i \in 0..n - 1 : at(i) = new[i]
  BY <1>3, <1>4
<1>6. {at(i) : i \in 0..n - 1} = {new[i] : i \in 0..n - 1}
  BY <1>5
<1>7. Cardinality({new[i] : i \in 0..n - 1}) = n
  <2> DEFINE D == 0..n - 1  R == {new[i] : i \in D}  f == [i \in D |-> new[i]]
  <2>1. IsFiniteSet(D) /\ Cardinality(D) = n
    <3>1. 0 \in Int /\ n - 1 \in Int
      BY <1>4
    <3>2. IsFiniteSet(D) /\ Cardinality(D) = IF 0 > n - 1 THEN 0 ELSE (n - 1) - 0 + 1
      BY ONLY <3>1, FS_Interval
    <3> QED BY ONLY <1>4, <3>2
  <2>2. f \in [D -> R] /\ \A i \in D : f[i] = new[i]
    OBVIOUS
  <2>3. \A i, k \in D : f[i] = f[k] => i = k
    BY <1>3
  <2>4. \A x \in R : \E i \in D : f[i] = x
    OBVIOUS
  <2> HIDE DEF D, R, f
  <2>5. f \in Bijection(D, R)
    BY <2>2, <2>3, <2>4 DEF Bijection, Injection, Surjection, IsInjective
  <2>6. ExistsBijection(D, R)
    BY <2>5 DEF ExistsBijection
  <2>7. Cardinality(R) = n
    BY <2>1, <2>6, FS_Bijection
  <2> QED BY <2>7 DEF D, R
<1>8. {Entry(said[a]) : a \in 1..n} = {Entry(p) : p \in {said[a] : a \in DOMAIN said}}
  BY <1>4
<1>9. \A i \in 0..tab.cnt - 1 : i >= n => ~Locked(at(i))
  <2> SUFFICES ASSUME NEW i \in 0..tab.cnt - 1, i >= n PROVE ~Locked(at(i))
    OBVIOUS
  <2>1. CASE i < MaxNum
    BY <1>3, <1>4, <2>1
  <2>2. CASE ~(i < MaxNum)
    BY <2>2, EntryIs
  <2> QED BY <2>1, <2>2
<1>10. /\ \A i \in 0..n - 1 : Locked(at(i))
       /\ {at(i) : i \in 0..n - 1} = {Entry(p) : p \in {said[a] : a \in DOMAIN said}}
       /\ Cardinality({at(i) : i \in 0..n - 1}) = n
       /\ \A i \in 0..tab.cnt - 1 : i >= n => ~Locked(at(i))
  BY <1>3, <1>5, <1>6, <1>7, <1>8, <1>9
<1> QED BY <1>2, <1>10 DEF TableHoldsTheLocked, At, Used, Entry, n

-----------------------------------------------------------------------------
(* The chip.                                                               *)

\* The chip looks for a signal of type t.
Looks(c, t) == "type" \in DOMAIN c /\ c.type = t

\* Only set_demod changes what the chip looks for.
LEMMA LooksKept ==
  ASSUME NEW c, NEW t, Looks(c, t)
  PROVE  /\ Looks(Restarted(c), t) /\ Looks(Held(c), t) /\ Looks(GlobalReset(c), t) /\ Looks(SoftReset(c), t)
         /\ \A khz : Looks(SetTuner(c, khz), t) /\ Looks(SetCarrierOffset(c, khz), t)
         /\ \A s : Looks(SetClockRatio(c, s), t)
<1>1. "type" \in DOMAIN c /\ c.type = t
  BY DEF Looks
<1>2. Looks(Restarted(c), t) /\ Looks(Held(c), t) /\ Looks(GlobalReset(c), t)
  BY <1>1 DEF Looks, Restarted, Held, GlobalReset
<1>3. Looks(SoftReset(c), t)
  BY <1>2 DEF SoftReset
<1>4. \A khz : Looks(SetTuner(c, khz), t) /\ Looks(SetCarrierOffset(c, khz), t)
  BY <1>1 DEF Looks, SetTuner, SetCarrierOffset
<1>5. \A s : Looks(SetClockRatio(c, s), t)
  <2> SUFFICES ASSUME NEW s PROVE Looks(SetClockRatio(c, s), t)
    OBVIOUS
  <2>1. ASSUME NEW v PROVE Looks([c EXCEPT !.ratio = v], t) /\ Looks([c EXCEPT !.sel = v], t)
    BY <1>1 DEF Looks
  <2>2. ASSUME NEW khz PROVE Looks(SetMclk(c, khz), t)
    <3> DEFINE v == Mclks[IF khz \in DOMAIN Mclks THEN khz ELSE 96000]
    <3>1. SetMclk(c, khz) = [c EXCEPT !.sel = v]
      BY DEF SetMclk
    <3> HIDE DEF v
    <3> QED BY <2>1, <3>1
  <2>3. CASE s = None
    BY <2>3, <1>1 DEF SetClockRatio, Looks
  <2>4. CASE s # None /\ c.mode = "Serial"
    <3>1. SetClockRatio(c, s) = SetMclk(c, SerialMclk(s))
      BY <2>4 DEF SetClockRatio
    <3> QED BY <2>2, <3>1
  <2>5. CASE s # None /\ c.mode # "Serial"
    <3>1. SetClockRatio(c, s) = [c EXCEPT !.ratio = LockedRatio(GetMclk(c), s)]
      BY <2>5 DEF SetClockRatio
    <3> QED BY <2>1, <3>1
  <2> QED BY <2>3, <2>4, <2>5
<1> QED BY <1>2, <1>3, <1>4, <1>5

\* An entry is tried as the type the chip is programmed to look for.
LEMMA ProgrammedLooks ==
  ASSUME NEW t, NEW wide, "type" \in DOMAIN chip
  PROVE  Looks(Programmed(t, wide), t)
<1> DEFINE slow == SlowOffset(Trying.rate)
           khz  == Trying.freq + slow
           from == IF wide THEN chip ELSE GlobalReset(chip)
           tuned == SetTuner(from, khz)
           demod == BsSetDemod(Held(tuned), t, Trying.rate)
<1>1. Programmed(t, wide) = Restarted(SetCarrierOffset(demod, TunerOffset(khz) + slow))
  BY DEF Programmed
<1>2. Looks(chip, chip.type)
  BY DEF Looks
<1>3. Looks(from, chip.type)
  BY <1>2, LooksKept
<1> HIDE DEF from
<1>4. Looks(tuned, chip.type)
  BY <1>3, LooksKept
<1> HIDE DEF tuned
<1>5. Looks(Held(tuned), chip.type)
  BY <1>4, LooksKept
<1>6. Looks(demod, t)
  <2>1. ASSUME NEW c, "type" \in DOMAIN c, NEW rate PROVE Looks(SetDemod(c, t, rate), t)
    <3>1. "type" \in DOMAIN SetMclk(c, TargetMclk(t, rate, c.mode))
      BY <2>1 DEF SetMclk
    <3> QED BY <3>1 DEF SetDemod, Looks
  <2> QED BY <1>5, <2>1 DEF BsSetDemod, Looks
<1> HIDE DEF demod
<1> QED BY <1>1, <1>6, LooksKept

-----------------------------------------------------------------------------
(* A candidate that is taken.                                              *)

LEMMA AppendedMoved ==
  ASSUME NEW c, Laid(tab.tp, tab.cnt), tab.cnt < MaxNum
  PROVE  Moved(tab.tp, tab.cnt, tab.cnt, c, Appended(c))
<1> DEFINE tp == tab.tp  cnt == tab.cnt
<1>1. cnt \in Nat /\ DOMAIN tp = 0..MaxNum - 1 /\ cnt < MaxNum
      /\ \A i \in 0..MaxNum - 1 : tp[i] # Zero <=> i < cnt
  BY DEF Laid
<1>2. Appended(c) = [tp EXCEPT ![cnt] = c]
  BY DEF Appended
<1> HIDE DEF tp, cnt
<1>3. Moved(tp, cnt, cnt, c, Appended(c))
  <2> DEFINE new == [tp EXCEPT ![cnt] = c]
  <2>1. DOMAIN new = 0..MaxNum - 1 /\ new = [i \in DOMAIN new |-> new[i]]
    BY <1>1
  <2>2. ASSUME NEW i \in 0..MaxNum - 1
        PROVE  new[i] = IF i < cnt THEN tp[i] ELSE IF i = cnt THEN c
                        ELSE IF i <= cnt THEN tp[i - 1] ELSE Zero
    BY <1>1, SizeIs
  <2>3. cnt \in 0..cnt
    BY <1>1
  <2> HIDE DEF new
  <2>4. Moved(tp, cnt, cnt, c, new)
    BY <2>1, <2>2, <2>3 DEF Moved
  <2> QED BY <1>2, <2>4 DEF new
<1> QED BY <1>3 DEF tp, cnt

LEMMA InsertedMoved ==
  ASSUME NEW c, Laid(tab.tp, tab.cnt), tab.cnt < MaxNum
  PROVE  \E k \in 0..tab.cnt : Moved(tab.tp, tab.cnt, k, c, Inserted(c))
<1> DEFINE tp == tab.tp  cnt == tab.cnt
           above == {i \in 0..tab.cnt : At(i).freq >= c.freq}
           k == Min(above \cup {tab.cnt})
           moved == IF above = {} THEN {} ELSE k + 1..tab.cnt + 1
           new == [i \in DOMAIN tp |-> IF i = k THEN c ELSE IF i \in moved THEN tp[i - 1] ELSE tp[i]]
<1>1. cnt \in Nat /\ DOMAIN tp = 0..MaxNum - 1 /\ cnt < MaxNum
      /\ \A i \in 0..MaxNum - 1 : tp[i] # Zero <=> i < cnt
  BY DEF Laid
<1>2. Inserted(c) = new
  BY DEF Inserted
<1>3. above \subseteq 0..cnt
  OBVIOUS
<1>4. k = Min(above \cup {cnt}) /\ moved = IF above = {} THEN {} ELSE k + 1..cnt + 1
  OBVIOUS
<1> HIDE DEF tp, cnt, above, k, moved
<1>5. k \in 0..cnt /\ (above = {} => k = cnt)
  <2> DEFINE S == above \cup {cnt}
  <2>1. S \subseteq Nat /\ S # {} /\ \A x \in S : x \in 0..cnt
    BY <1>1, <1>3
  <2>2. above = {} => \A x \in S : x = cnt
    OBVIOUS
  <2>3. k = Min(S)
    BY <1>4
  <2> HIDE DEF S
  <2>4. Min(S) \in S
    BY ONLY <2>1, LeastNat
  <2> QED BY ONLY <2>1, <2>2, <2>3, <2>4
<1>6. ASSUME NEW i \in 0..MaxNum - 1
      PROVE  new[i] = IF i < k THEN tp[i] ELSE IF i = k THEN c
                      ELSE IF i <= cnt THEN tp[i - 1] ELSE Zero
  <2>1. new[i] = IF i = k THEN c ELSE IF i \in moved THEN tp[i - 1] ELSE tp[i]
    BY <1>1
  <2>2. i \in Nat /\ k \in Nat /\ k <= cnt /\ cnt \in Nat /\ MaxNum \in Nat /\ i < MaxNum
    BY <1>1, <1>5, SizeIs
  <2>3. CASE i <= k
    <3>1. i \notin moved
      BY <1>4, <2>2, <2>3
    <3> QED BY <2>1, <2>2, <2>3, <3>1
  <2>4. CASE i > k /\ i <= cnt
    <3>1. above # {}
      BY <1>5, <2>2, <2>4
    <3>2. i \in moved
      BY <1>4, <2>2, <2>4, <3>1
    <3> QED BY <2>1, <2>2, <2>4, <3>2
  <2>5. CASE i > cnt
    <3>1. tp[i] = Zero
      BY <1>1, <2>2, <2>5
    <3>2. i \in moved => i = cnt + 1 /\ i - 1 = cnt
      BY <1>4, <2>2, <2>5
    <3>3. tp[cnt] = Zero
      BY <1>1, <2>2
    <3> QED BY <2>1, <2>2, <2>5, <3>1, <3>2, <3>3
  <2> QED BY <2>2, <2>3, <2>4, <2>5
<1>7. DOMAIN new = 0..MaxNum - 1 /\ new = [i \in DOMAIN new |-> new[i]]
  BY <1>1
<1> HIDE DEF new
<1>8. Moved(tp, cnt, k, c, new)
  BY <1>5, <1>6, <1>7 DEF Moved
<1> QED BY <1>2, <1>5, <1>8 DEF tp, cnt

\* What the FFT shows gives an entry below FREQ_MAX.
LEMMA CandidateIs ==
  ASSUME sky \in Skies, scan.freq \in Nat, scan.todo \in Seq(Things(scan.freq)), scan.todo # <<>>
  PROVE  Candidate \in Entries /\ ~Locked(Candidate)
<1> DEFINE f == scan.freq
<1>1. Head(scan.todo) \in Things(f)
  OBVIOUS
<1>2. /\ Found.at \in Int /\ Found.width \in Int /\ Found.of \in sky
      /\ f + Found.at * Bin <= Found.of.freq + Bin
  BY <1>1 DEF Found, Things
<1>3. Found.of.freq \in Nat /\ Found.of.freq + Bin < FreqMax
  BY <1>2, SkiesAssumption
<1>4. f + Found.at * Bin \in Freqs
  BY <1>2, <1>3, SMTT(40) DEF Freqs, Bin, FreqMax
<1>5. RawRate \in Int
  BY <1>2 DEF RawRate
<1>6. Candidate.type = "Unknown" /\ Candidate \in Entries
  BY <1>4, <1>5 DEF Candidate, Entries
<1> QED BY <1>6 DEF Locked, Types

\* A table that is full only counts.
LEMMA LaidFull ==
  ASSUME NEW tp, NEW cnt, Laid(tp, cnt), ~(cnt < MaxNum) PROVE Laid(tp, cnt + 1)
<1>1. cnt \in Nat /\ MaxNum \in Nat
  BY SizeIs DEF Laid
<1>2. \A i \in 0..MaxNum - 1 : i < cnt /\ i < cnt + 1
  BY <1>1
<1> QED BY <1>1, <1>2 DEF Laid

\* Whatever is done with the candidate, the table stays in order.
LEMMA TakenIs ==
  ASSUME Shaped, Scanning, sky \in Skies, scan.todo \in Seq(Things(scan.freq)), scan.todo # <<>>,
         NEW tp, tp \in {Appended(Candidate), Inserted(Candidate)}
  PROVE  /\ DOMAIN Taken(tp) = DOMAIN NoTable
         /\ Laid(Taken(tp).tp, Taken(tp).cnt) /\ Holding(Taken(tp).tp, seen.told)
         /\ Taken(tp).cnt = tab.cnt + 1 /\ tab.cnt \in Nat
         /\ Taken(tp).locked = tab.locked /\ Taken(tp).tp_num = tab.tp_num
<1>1. Laid(tab.tp, tab.cnt) /\ Holding(tab.tp, seen.told) /\ tab.cnt \in Nat /\ MaxNum \in Nat
  BY SizeIs DEF Scanning, Laid
<1>2. /\ DOMAIN Taken(tp) = DOMAIN NoTable
      /\ Taken(tp).cnt = tab.cnt + 1
      /\ Taken(tp).tp = IF tab.cnt + 1 > MaxNum THEN tab.tp ELSE tp
      /\ Taken(tp).locked = tab.locked /\ Taken(tp).tp_num = tab.tp_num
  BY DEF Taken, Shaped, NoTable
<1>3. CASE tab.cnt < MaxNum
  <2>1. Taken(tp).tp = tp
    BY <1>1, <1>2, <1>3
  <2>2. Candidate \in Entries /\ ~Locked(Candidate)
    BY CandidateIs DEF Scanning
  <2>3. \E k \in 0..tab.cnt : Moved(tab.tp, tab.cnt, k, Candidate, tp)
    <3>1. tab.cnt \in 0..tab.cnt
      BY <1>1
    <3>2. Moved(tab.tp, tab.cnt, tab.cnt, Candidate, Appended(Candidate))
      BY <1>1, <1>3, AppendedMoved
    <3>3. \E k \in 0..tab.cnt : Moved(tab.tp, tab.cnt, k, Candidate, Inserted(Candidate))
      BY <1>1, <1>3, InsertedMoved
    <3>4. CASE tp = Appended(Candidate)
      BY <3>1, <3>2, <3>4
    <3>5. CASE tp = Inserted(Candidate)
      BY <3>3, <3>5
    <3> QED BY <3>4, <3>5
  <2>4. Laid(tp, tab.cnt + 1) /\ Holding(tp, seen.told)
    BY <1>1, <1>3, <2>2, <2>3, MovedLaid, MovedHolding
  <2> QED BY <1>1, <1>2, <2>1, <2>4
<1>4. CASE ~(tab.cnt < MaxNum)
  <2>1. Taken(tp).tp = tab.tp
    BY <1>1, <1>2, <1>4
  <2> QED BY <1>1, <1>2, <1>4, <2>1, LaidFull
<1> QED BY <1>3, <1>4

-----------------------------------------------------------------------------
(* The steps.                                                              *)

\* What a step makes of the scan, as far as the invariant asks.
Goes(pc, freq, todo, n, connected) ==
  /\ DOMAIN scan' = DOMAIN NoScan
  /\ scan'.pc = pc /\ scan'.freq = freq /\ scan'.todo = todo /\ scan'.n = n
  /\ scan'.connected = connected
  /\ scan'.algorithm = scan.algorithm /\ scan'.cancel = scan.cancel

LEMMA StageGoes ==
  ASSUME Shaped, NEW pc, scan' = Stage(pc)
  PROVE  Goes(pc, scan.freq, scan.todo, scan.n, scan.connected)
BY DEF Goes, Stage, Shaped, NoScan

\* The chip keeps its fields.
LEMMA ChipKept ==
  ASSUME Shaped
  PROVE  /\ Looks(chip, chip.type)
         /\ Looks(Restarted(chip), chip.type) /\ Looks(SoftReset(chip), chip.type)
         /\ \A khz, offset : Looks(SetCarrierOffset(SetTuner(chip, khz), offset), chip.type)
         /\ \A khz, offset : Looks(SetCarrierOffset(SetTuner(Restarted(chip), khz), offset), chip.type)
         /\ \A s : Looks(SetClockRatio(chip, s), chip.type)
         /\ Looks(GlobalReset(chip), chip.type)
<1>1. Looks(chip, chip.type)
  BY DEF Shaped, Looks
<1>2. /\ Looks(Restarted(chip), chip.type) /\ Looks(SoftReset(chip), chip.type)
      /\ Looks(GlobalReset(chip), chip.type)
      /\ \A s : Looks(SetClockRatio(chip, s), chip.type)
  BY <1>1, LooksKept
<1>3. ASSUME NEW c, Looks(c, chip.type), NEW khz, NEW offset
      PROVE  Looks(SetCarrierOffset(SetTuner(c, khz), offset), chip.type)
  <2> DEFINE d == SetTuner(c, khz)
  <2>1. Looks(d, chip.type)
    BY <1>3, LooksKept
  <2> HIDE DEF d
  <2>2. Looks(SetCarrierOffset(d, offset), chip.type)
    BY <2>1, LooksKept
  <2> QED BY <2>2 DEF d
<1> QED BY <1>1, <1>2, <1>3

\* A scan that goes on keeps the invariant when it keeps what is known of it.
LEMMA GoesOn ==
  ASSUME ScanInv, scan.pc \notin {"idle", "done"}, scan'.pc \in Stages \ {"idle", "done"},
         Shaped', sky' = sky, seen'.aborted = seen.aborted, Scanning => Scanning'
  PROVE  ScanInv'
BY DEF ScanInv, TableHoldsTheLocked, Stages

\* With the table as it was, where the scan stands is all that counts.
LEMMA TableStays ==
  ASSUME Scanning, sky' = sky, tab' = tab, seen'.told = seen.told,
         scan'.cancel = scan.cancel, scan'.algorithm = scan.algorithm, scan'.freq \in Nat,
         WindowFacts', WillBeTried', TrialFacts'
  PROVE  Scanning'
BY DEF Scanning

LEMMA StartPassKeeps ==
  ASSUME ScanInv, StartPass PROVE ScanInv'
<1>1. Shaped /\ scan.pc = "pass" /\ UNCHANGED <<sky, tab, seen, g>>
  BY DEF ScanInv, StartPass
<1>2. \/ Goes("remove", scan.freq, scan.todo, scan.n, scan.connected)
      \/ Goes("window", Begin, scan.todo, scan.n, 0)
  <2>1. CASE scan.pass = Times
    BY <1>1, <2>1, StageGoes DEF StartPass
  <2>2. CASE scan.pass # Times
    BY <1>1, <2>2 DEF StartPass, Stage, Goes, Shaped, NoScan
  <2> QED BY <2>1, <2>2
<1>3. "type" \in DOMAIN chip'
  BY <1>1, ChipKept DEF StartPass, BsSetReg, Looks
<1>4. Shaped' /\ scan'.pc \in Stages \ {"idle", "done"}
  BY <1>1, <1>2, <1>3 DEF Shaped, Goes, Stages
<1>5. ASSUME Scanning PROVE Scanning'
  <2>1. Tried(tab.tp, MaxNum) /\ scan.freq \in Nat
        /\ (scan.algorithm = "A" => scan.connected \in Nat /\ scan.connected <= tab.cnt)
    BY <1>1, <1>5 DEF Scanning, WillBeTried
  <2>2. tab.cnt \in Nat /\ Begin \in Nat
    BY <1>5, BlindScanAssumption DEF Scanning, Laid
  <2>3. WillBeTried'
    BY <1>1, <1>2, <2>1, <2>2 DEF WillBeTried, Goes
  <2>4. WindowFacts' /\ TrialFacts' /\ scan'.freq \in Nat
    BY <1>2, <2>1, <2>2 DEF WindowFacts, TrialFacts, Goes
  <2> QED BY <1>1, <1>2, <1>5, <2>3, <2>4, TableStays DEF Goes
<1> QED BY <1>1, <1>4, <1>5, GoesOn

LEMMA EndPassKeeps ==
  ASSUME ScanInv, EndPass PROVE ScanInv'
<1>1. Shaped /\ scan.pc = "passed" /\ UNCHANGED <<sky, tab, seen, chip, g>>
  BY DEF ScanInv, EndPass
<1>2. CASE scan.cancel
  <2>1. DOMAIN scan' = DOMAIN NoScan /\ scan'.pc = "remove"
    BY <1>1, <1>2 DEF EndPass, Stage, Shaped, NoScan
  <2>2. Shaped' /\ scan'.pc \in Stages \ {"idle", "done"}
    BY <1>1, <2>1 DEF Shaped, Stages
  <2>3. ~Scanning
    BY <1>2 DEF Scanning
  <2> QED BY <1>1, <2>2, <2>3, GoesOn
<1>3. CASE ~scan.cancel
  <2>1. Goes("pass", scan.freq, scan.todo, scan.n, scan.connected)
    BY <1>1, <1>3 DEF EndPass, Stage, Shaped, NoScan, Goes
  <2>2. Shaped' /\ scan'.pc \in Stages \ {"idle", "done"}
    BY <1>1, <2>1 DEF Shaped, Stages, Goes
  <2>3. ASSUME Scanning PROVE Scanning'
    <3>1. WillBeTried'
      BY <1>1, <2>1, <2>3 DEF Scanning, WillBeTried, Goes
    <3>2. WindowFacts' /\ TrialFacts' /\ scan'.freq \in Nat
      BY <2>1, <2>3 DEF Scanning, WindowFacts, TrialFacts, Goes
    <3> QED BY <1>1, <2>1, <2>3, <3>1, <3>2, TableStays DEF Goes
  <2> QED BY <1>1, <2>2, <2>3, GoesOn
<1> QED BY <1>2, <1>3

\* A window is opened.
LEMMA WindowKeeps ==
  ASSUME ScanInv, scan.pc = "window", Window(chip) \/ Window(BsSetReg(chip)) PROVE ScanInv'
<1>1. Shaped /\ UNCHANGED <<sky, tab, seen, g>>
  BY DEF ScanInv, Window
<1>2. Goes("fft", scan.freq, scan.todo, scan.n, scan.connected)
  BY <1>1 DEF Window, Stage, Shaped, NoScan, Goes
<1>3. "type" \in DOMAIN chip'
  BY <1>1, ChipKept DEF Window, BsSetReg, Looks
<1>4. Shaped' /\ scan'.pc \in Stages \ {"idle", "done"}
  BY <1>1, <1>2, <1>3 DEF Shaped, Goes, Stages
<1>5. ASSUME Scanning PROVE Scanning'
  <2>1. WillBeTried'
    BY <1>1, <1>2, <1>5 DEF Scanning, WillBeTried, Goes
  <2>2. WindowFacts' /\ TrialFacts' /\ scan'.freq \in Nat
    BY <1>2, <1>5 DEF Scanning, WindowFacts, TrialFacts, Goes
  <2> QED BY <1>1, <1>2, <1>5, <2>1, <2>2, TableStays DEF Goes
<1> QED BY <1>1, <1>4, <1>5, GoesOn

LEMMA CloseAKeeps ==
  ASSUME ScanInv, CloseA PROVE ScanInv'
<1>1. Shaped /\ scan.pc = "window" /\ scan.algorithm = "A" /\ UNCHANGED <<sky, tab, seen, chip, g>>
  BY DEF ScanInv, CloseA
<1>2. Goes("passed", scan.freq, scan.todo, scan.n, scan.connected)
  BY <1>1, StageGoes DEF CloseA
<1>3. Shaped' /\ scan'.pc \in Stages \ {"idle", "done"}
  BY <1>1, <1>2 DEF Shaped, Goes, Stages
<1>4. ASSUME Scanning PROVE Scanning'
  <2>1. WillBeTried'
    BY <1>1, <1>2, <1>4 DEF Scanning, WillBeTried, Goes
  <2>2. WindowFacts' /\ TrialFacts' /\ scan'.freq \in Nat
    BY <1>2, <1>4 DEF Scanning, WindowFacts, TrialFacts, Goes
  <2> QED BY <1>1, <1>2, <1>4, <2>1, <2>2, TableStays DEF Goes
<1> QED BY <1>1, <1>3, <1>4, GoesOn

LEMMA CloseBKeeps ==
  ASSUME ScanInv, CloseB PROVE ScanInv'
<1>1. Shaped /\ scan.pc = "window" /\ scan.algorithm = "B" /\ UNCHANGED <<sky, tab, seen, chip, g>>
  BY DEF ScanInv, CloseB
<1>2. Goes("connect", scan.freq, scan.todo, 0, scan.connected)
  BY <1>1 DEF CloseB, Stage, Shaped, NoScan, Goes
<1>3. Shaped' /\ scan'.pc \in Stages \ {"idle", "done"}
  BY <1>1, <1>2 DEF Shaped, Goes, Stages
<1>4. ASSUME Scanning PROVE Scanning'
  <2>1. WillBeTried'
    BY <1>1, <1>2 DEF WillBeTried, Goes
  <2>2. Tried(tab.tp, 0)
    BY SizeIs DEF Tried
  <2>3. WindowFacts' /\ TrialFacts' /\ scan'.freq \in Nat
    BY <1>1, <1>2, <1>4, <2>2 DEF Scanning, WindowFacts, TrialFacts, Goes
  <2> QED BY <1>1, <1>2, <1>4, <2>1, <2>3, TableStays DEF Goes
<1> QED BY <1>1, <1>3, <1>4, GoesOn

\* The FFT shows a finite number of things of this sky, in their order.
LEMMA ShownIs ==
  ASSUME sky \in Skies, scan.freq \in Nat, NEW there \in SUBSET Visible,
         NEW c \in [there -> UNION {Shows(p) : p \in there}], \A p \in there : c[p].of = p,
         NEW q \in InOrder({c[p] : p \in there})
  PROVE  q \in Seq(Things(scan.freq))
<1> DEFINE S == {c[p] : p \in there}
<1>1. there \subseteq sky /\ IsFiniteSet(sky) /\ \A p \in sky : p.freq \in Nat /\ p.rate \in Nat
  BY SkiesAssumption DEF Visible
<1>2. IsFiniteSet(there)
  BY <1>1, FS_Subset
<1>3. IsFiniteSet(S)
  <2>1. c \in [there -> S] /\ \A x \in S : \E p \in there : c[p] = x
    OBVIOUS
  <2> HIDE DEF S
  <2>2. c \in Surjection(there, S)
    BY <2>1 DEF Surjection
  <2> QED BY <1>2, <2>2, FS_Surjection
<1>4. Cardinality(S) \in Nat
  BY <1>3, FS_CardinalityType
<1>5. ASSUME NEW p \in there PROVE c[p] \in Things(scan.freq)
  <2>1. PICK r \in there : c[p] \in Shows(r)
    OBVIOUS
  <2>2. p \in sky /\ p.freq \in Nat /\ p.rate \in Nat /\ r.freq \in Nat /\ r.rate \in Nat
    BY <1>1
  <2>3. c[p] \in [at: {(r.freq - scan.freq) \div Bin, (r.freq - scan.freq) \div Bin + 1},
                  width: {((r.rate + 400) * 512) \div 96000 + 1}, of: {r}]
    BY <2>1 DEF Shows
  <2>4. c[p].of = p
    OBVIOUS
  <2>5. r = p
    BY <2>3, <2>4
  <2> DEFINE d == p.freq - scan.freq  a == d \div Bin  w == ((p.rate + 400) * 512) \div 96000 + 1
  <2>6. w \in Int
    BY <2>2
  <2>7. d \in Int
    BY <2>2
  <2>8. p.freq = scan.freq + d
    BY <2>2
  <2>9. c[p] \in [at: {a, a + 1}, width: {w}, of: {p}]
    BY <2>3, <2>5
  <2> HIDE DEF d, w
  <2>10. a \in Int /\ a * Bin <= d /\ Bin \in Int /\ (a + 1) * Bin = a * Bin + Bin /\ Bin >= 0
    BY <2>7 DEF Bin
  <2> HIDE DEF a
  <2>11. \A x \in {a, a + 1} : x \in Int /\ scan.freq + x * Bin <= p.freq + Bin
    <3> DEFINE b == a * Bin  f == scan.freq  h == p.freq
    <3>1. b \in Int /\ f \in Int /\ h \in Int /\ d \in Int /\ Bin \in Int /\ b <= d /\ h = f + d /\ Bin >= 0
      BY <2>2, <2>7, <2>8, <2>10
    <3>2. a * Bin = b /\ (a + 1) * Bin = b + Bin
      BY <2>10
    <3> HIDE DEF b, f, h
    <3>3. f + b <= h + Bin /\ f + (b + Bin) <= h + Bin
      BY ONLY <3>1
    <3>4. f + a * Bin <= h + Bin /\ f + (a + 1) * Bin <= h + Bin
      BY ONLY <3>2, <3>3
    <3>5. a \in Int /\ a + 1 \in Int
      BY <2>10
    <3>6. \A x \in {a, a + 1} : x \in Int /\ f + x * Bin <= h + Bin
      BY ONLY <3>4, <3>5
    <3> QED BY ONLY <3>6 DEF f, h
  <2>12. c[p].at \in {a, a + 1} /\ c[p] = [at |-> c[p].at, width |-> w, of |-> p]
    BY <2>9
  <2> DEFINE x == c[p].at
  <2>13. x \in Int /\ scan.freq + x * Bin <= p.freq + Bin /\ c[p] = [at |-> x, width |-> w, of |-> p]
    BY <2>11, <2>12
  <2> HIDE DEF x
  <2> DEFINE e == [at |-> x, width |-> w, of |-> p]
  <2>14. e \in [at : Int, width : Int, of : sky] /\ e.at = x /\ e.of = p
    BY <2>2, <2>6, <2>13
  <2>15. c[p] = e
    BY <2>13
  <2> HIDE DEF e
  <2>16. scan.freq + e.at * Bin <= e.of.freq + Bin
    BY ONLY <2>13, <2>14
  <2>17. e \in Things(scan.freq)
    BY ONLY <2>14, <2>16 DEF Things
  <2> QED BY ONLY <2>15, <2>17
<1>6. S \subseteq Things(scan.freq)
  BY <1>5
<1>7. q \in [1..Cardinality(S) -> S]
  BY DEF InOrder
<1> HIDE DEF S
<1>8. q \in [1..Cardinality(S) -> Things(scan.freq)]
  BY <1>6, <1>7
<1> QED BY <1>4, <1>8

LEMMA ShowKeeps ==
  ASSUME ScanInv, ProcessScannedTP PROVE ScanInv'
<1>1. Shaped /\ scan.pc = "fft" /\ sky \in Skies /\ UNCHANGED <<sky, tab, seen, chip, g>>
  BY DEF ScanInv, ProcessScannedTP
<1>2. PICK there \in SUBSET Visible : \E c \in [there -> UNION {Shows(p) : p \in there}] :
        /\ \A p \in there : c[p].of = p
        /\ \E q \in InOrder({c[p] : p \in there}) : scan' = [Stage("deal") EXCEPT !.todo = q]
  BY DEF ProcessScannedTP
<1>3. PICK c \in [there -> UNION {Shows(p) : p \in there}] :
        /\ \A p \in there : c[p].of = p
        /\ \E q \in InOrder({c[p] : p \in there}) : scan' = [Stage("deal") EXCEPT !.todo = q]
  BY <1>2
<1>4. PICK q \in InOrder({c[p] : p \in there}) : scan' = [Stage("deal") EXCEPT !.todo = q]
  BY <1>3
<1>5. Goes("deal", scan.freq, q, scan.n, scan.connected)
  BY <1>1, <1>4 DEF Stage, Shaped, NoScan, Goes
<1>6. Shaped' /\ scan'.pc \in Stages \ {"idle", "done"}
  BY <1>1, <1>5 DEF Shaped, Goes, Stages
<1>7. ASSUME Scanning PROVE Scanning'
  <2>1. scan.freq \in Nat
    BY <1>7 DEF Scanning
  <2>2. q \in Seq(Things(scan.freq))
    BY <1>1, <1>3, <2>1, ShownIs
  <2>3. Things(scan.freq)' = Things(scan'.freq)
    BY <1>1 DEF Things
  <2>4. scan'.todo \in Seq(Things(scan.freq)') /\ scan'.freq = scan.freq
    BY <1>1, <1>5, <2>2 DEF Things, Goes
  <2>5. WillBeTried'
    BY <1>1, <1>5, <1>7 DEF Scanning, WillBeTried, Goes
  <2>6. WindowFacts' /\ TrialFacts' /\ scan'.freq \in Nat
    BY <1>5, <2>1, <2>4 DEF WindowFacts, TrialFacts, Goes
  <2> QED BY <1>1, <1>5, <1>7, <2>5, <2>6, TableStays DEF Goes
<1> QED BY <1>1, <1>6, <1>7, GoesOn

\* Steps that only move the scan within a walk through the window.
LEMMA DealOverKeeps ==
  ASSUME ScanInv, DealOver PROVE ScanInv'
<1>1. Shaped /\ scan.pc = "deal" /\ UNCHANGED <<sky, tab, seen, chip, g>>
  BY DEF ScanInv, DealOver
<1>2. Goes("slide", scan.freq, <<>>, scan.n, scan.connected)
  BY <1>1 DEF DealOver, Stage, Shaped, NoScan, Goes
<1>3. Shaped' /\ scan'.pc \in Stages \ {"idle", "done"}
  BY <1>1, <1>2 DEF Shaped, Goes, Stages
<1>4. ASSUME Scanning PROVE Scanning'
  <2>1. WillBeTried'
    BY <1>1, <1>2, <1>4 DEF Scanning, WillBeTried, Goes
  <2>2. WindowFacts' /\ TrialFacts' /\ scan'.freq \in Nat
    BY <1>2, <1>4 DEF Scanning, WindowFacts, TrialFacts, Goes
  <2> QED BY <1>1, <1>2, <1>4, <2>1, <2>2, TableStays DEF Goes
<1> QED BY <1>1, <1>3, <1>4, GoesOn

\* The rest of a window is of the window.
LEMMA RestIs ==
  ASSUME NEW S, NEW q \in Seq(S), q # <<>> PROVE Tail(q) \in Seq(S)
OBVIOUS

\* The next candidate, with the table as it was.
LEMMA NextDealKeeps ==
  ASSUME ScanInv, scan.pc \in {"deal", "compare"}, scan.todo # <<>>,
         Goes("deal", scan.freq, Tail(scan.todo), scan.n, scan.connected),
         UNCHANGED <<sky, tab, chip, g>>, DOMAIN seen' = DOMAIN seen,
         seen'.told = seen.told, seen'.aborted = seen.aborted
  PROVE  ScanInv'
<1>1. Shaped
  BY DEF ScanInv
<1>2. Shaped' /\ scan'.pc \in Stages \ {"idle", "done"}
  BY <1>1 DEF Shaped, Goes, Stages
<1>3. ASSUME Scanning PROVE Scanning'
  <2>1. WillBeTried'
    BY <1>3 DEF Scanning, WillBeTried, Goes
  <2>2. scan.todo \in Seq(Things(scan.freq)) /\ scan.freq \in Nat
    BY <1>3 DEF Scanning, WindowFacts
  <2>3. Tail(scan.todo) \in Seq(Things(scan.freq))
    BY <2>2, RestIs
  <2>4. scan'.todo \in Seq(Things(scan.freq)') /\ scan'.freq = scan.freq
    BY <2>3 DEF Things, Goes
  <2>5. WindowFacts' /\ TrialFacts' /\ scan'.freq \in Nat
    BY <2>2, <2>4 DEF WindowFacts, TrialFacts, Goes
  <2> QED BY <1>3, <2>1, <2>5, TableStays DEF Goes
<1> QED BY <1>2, <1>3, GoesOn

\* The next candidate, this one taken.
LEMMA TakenKeeps ==
  ASSUME ScanInv, scan.pc \in {"deal", "compare"}, scan.todo # <<>>,
         Goes("deal", scan.freq, Tail(scan.todo), scan.n, scan.connected),
         NEW tp, tp \in {Appended(Candidate), Inserted(Candidate)}, tab' = Taken(tp),
         UNCHANGED <<sky, chip, g>>, DOMAIN seen' = DOMAIN seen,
         seen'.told = seen.told, seen'.aborted = seen.aborted
  PROVE  ScanInv'
<1>1. Shaped /\ sky \in Skies
  BY DEF ScanInv
<1>2. Shaped' /\ scan'.pc \in Stages \ {"idle", "done"}
  <2>1. DOMAIN tab' = DOMAIN NoTable
    BY <1>1 DEF Taken, Shaped, NoTable
  <2> QED BY <1>1, <2>1 DEF Shaped, Goes, Stages
<1>3. ASSUME Scanning PROVE Scanning'
  <2>1. scan.todo \in Seq(Things(scan.freq)) /\ scan.freq \in Nat
    BY <1>3 DEF Scanning, WindowFacts
  <2>2. /\ Laid(tab'.tp, tab'.cnt) /\ Holding(tab'.tp, seen.told)
        /\ tab'.cnt = tab.cnt + 1 /\ tab.cnt \in Nat
        /\ tab'.locked = tab.locked /\ tab'.tp_num = tab.tp_num
    BY <1>1, <1>3, <2>1, TakenIs
  <2>3. Tail(scan.todo) \in Seq(Things(scan.freq))
    BY <2>1, RestIs
  <2>4. scan'.todo \in Seq(Things(scan.freq)') /\ scan'.freq = scan.freq
    BY <2>3 DEF Things, Goes
  <2>5. WindowFacts' /\ TrialFacts' /\ scan'.freq \in Nat
    BY <2>1, <2>4 DEF WindowFacts, TrialFacts, Goes
  <2>6. scan.algorithm = "A" => scan.connected \in Nat /\ scan.connected <= tab.cnt
    BY <1>3 DEF Scanning, WillBeTried
  <2>7. scan.algorithm = "A" => scan.connected < tab'.cnt /\ scan.connected <= tab'.cnt
    BY <2>2, <2>6
  <2>8. WillBeTried'
    BY <2>6, <2>7 DEF WillBeTried, Goes
  <2> QED BY <1>3, <2>2, <2>5, <2>8 DEF Scanning, Goes
<1> QED BY <1>2, <1>3, GoesOn

LEMMA DealFilteredKeeps ==
  ASSUME ScanInv, DealFiltered PROVE ScanInv'
<1>1. Shaped /\ scan.pc = "deal" /\ scan.todo # <<>> /\ UNCHANGED <<sky, tab, seen, chip, g>>
  BY DEF ScanInv, DealFiltered, Dealing
<1>2. Goes("deal", scan.freq, Tail(scan.todo), scan.n, scan.connected)
  BY <1>1 DEF DealFiltered, NextDeal, Stage, Shaped, NoScan, Goes
<1> QED BY <1>1, <1>2, NextDealKeeps

LEMMA DealKeptKeeps ==
  ASSUME ScanInv, DealKept PROVE ScanInv'
<1>1. Shaped /\ scan.pc = "deal" /\ scan.todo # <<>> /\ UNCHANGED <<sky, chip, g>>
  BY DEF ScanInv, DealKept, Dealing
<1>2. DOMAIN seen' = DOMAIN seen /\ seen'.told = seen.told /\ seen'.aborted = seen.aborted
  BY <1>1 DEF DealKept, Shaped, NothingSeen
<1>3. CASE FirstPass
  <2>1. Goes("deal", scan.freq, Tail(scan.todo), scan.n, scan.connected)
    BY <1>1, <1>3 DEF DealKept, NextDeal, Stage, Shaped, NoScan, Goes
  <2>2. tab' = Taken(Appended(Candidate))
    BY <1>3 DEF DealKept
  <2> QED BY <1>1, <1>2, <2>1, <2>2, TakenKeeps
<1>4. CASE ~FirstPass
  <2>1. scan' = Stage("compare") /\ tab' = tab
    BY <1>4 DEF DealKept
  <2>2. Goes("compare", scan.freq, scan.todo, scan.n, scan.connected)
    BY <1>1, <2>1, StageGoes
  <2>3. Shaped' /\ scan'.pc \in Stages \ {"idle", "done"}
    BY <1>1, <1>2, <2>1, <2>2 DEF Shaped, Goes, Stages
  <2>4. ASSUME Scanning PROVE Scanning'
    <3>1. WillBeTried'
      BY <1>1, <2>1, <2>2, <2>4 DEF Scanning, WillBeTried, Goes
    <3>2. scan.todo \in Seq(Things(scan.freq)) /\ scan.freq \in Nat
      BY <1>1, <2>4 DEF Scanning, WindowFacts
    <3>3. scan'.todo \in Seq(Things(scan.freq)') /\ scan'.freq = scan.freq /\ scan'.todo # <<>>
      BY <1>1, <2>2, <3>2 DEF Things, Goes
    <3>4. WindowFacts' /\ TrialFacts' /\ scan'.freq \in Nat
      BY <2>2, <3>2, <3>3 DEF WindowFacts, TrialFacts, Goes
    <3> QED BY <1>1, <1>2, <2>1, <2>2, <2>4, <3>1, <3>4, TableStays DEF Goes
  <2> QED BY <1>1, <1>2, <2>3, <2>4, GoesOn
<1> QED BY <1>3, <1>4

LEMMA CompareLeftKeeps ==
  ASSUME ScanInv, CompareLeft PROVE ScanInv'
<1>1. Shaped /\ scan.pc = "compare" /\ UNCHANGED <<sky, seen, chip, g>>
      /\ tab' = Taken(Inserted(Candidate))
  BY DEF ScanInv, CompareLeft
<1>2. Goes("deal", scan.freq, Tail(scan.todo), scan.n, scan.connected)
  <2>1. \E i : scan' = [NextDeal EXCEPT !.index = i]
    BY DEF CompareLeft
  <2> QED BY <1>1, <2>1 DEF NextDeal, Stage, Shaped, NoScan, Goes
<1>3. Scanning => scan.todo # <<>>
  BY <1>1 DEF Scanning, WindowFacts
<1>4. CASE Scanning
  BY <1>1, <1>2, <1>3, <1>4, TakenKeeps
<1>5. CASE ~Scanning
  <2>1. DOMAIN tab' = DOMAIN NoTable
    BY <1>1 DEF Taken, Shaped, NoTable
  <2>2. Shaped' /\ scan'.pc \in Stages \ {"idle", "done"}
    BY <1>1, <1>2, <2>1 DEF Shaped, Goes, Stages
  <2> QED BY <1>1, <1>5, <2>2, GoesOn
<1> QED BY <1>4, <1>5

LEMMA CompareKnownKeeps ==
  ASSUME ScanInv, CompareKnown PROVE ScanInv'
<1>1. Shaped /\ scan.pc = "compare" /\ UNCHANGED <<sky, tab, seen, chip, g>>
  BY DEF ScanInv, CompareKnown
<1>2. Goes("deal", scan.freq, Tail(scan.todo), scan.n, scan.connected)
  BY <1>1 DEF CompareKnown, NextDeal, Stage, Shaped, NoScan, Goes
<1>3. CASE Scanning
  <2>1. scan.todo # <<>>
    BY <1>1, <1>3 DEF Scanning, WindowFacts
  <2> QED BY <1>1, <1>2, <2>1, NextDealKeeps
<1>4. CASE ~Scanning
  <2>1. Shaped' /\ scan'.pc \in Stages \ {"idle", "done"}
    BY <1>1, <1>2 DEF Shaped, Goes, Stages
  <2> QED BY <1>1, <1>4, <2>1, GoesOn
<1> QED BY <1>3, <1>4

LEMMA CompareNextKeeps ==
  ASSUME ScanInv, CompareNext PROVE ScanInv'
<1>1. Shaped /\ scan.pc = "compare" /\ UNCHANGED <<sky, seen, chip, g>>
  BY DEF ScanInv, CompareNext
<1>2. CASE scan.last_tpA \/ scan.index + 1 >= tab.cnt
  <2>1. tab' = Taken(Inserted(Candidate)) /\ scan' = [NextDeal EXCEPT !.last_tpA = TRUE]
    BY <1>2 DEF CompareNext
  <2>2. Goes("deal", scan.freq, Tail(scan.todo), scan.n, scan.connected)
    BY <1>1, <2>1 DEF NextDeal, Stage, Shaped, NoScan, Goes
  <2>3. CASE Scanning
    <3>1. scan.todo # <<>>
      BY <1>1, <2>3 DEF Scanning, WindowFacts
    <3> QED BY <1>1, <2>1, <2>2, <3>1, TakenKeeps
  <2>4. CASE ~Scanning
    <3>1. DOMAIN tab' = DOMAIN NoTable
      BY <1>1, <2>1 DEF Taken, Shaped, NoTable
    <3>2. Shaped' /\ scan'.pc \in Stages \ {"idle", "done"}
      BY <1>1, <2>2, <3>1 DEF Shaped, Goes, Stages
    <3> QED BY <1>1, <2>4, <3>2, GoesOn
  <2> QED BY <2>3, <2>4
<1>3. CASE ~(scan.last_tpA \/ scan.index + 1 >= tab.cnt)
  <2>1. tab' = tab /\ \E i : scan' = [scan EXCEPT !.index = i]
    BY <1>3 DEF CompareNext
  <2>2. Goes("compare", scan.freq, scan.todo, scan.n, scan.connected)
    BY <1>1, <2>1 DEF Shaped, NoScan, Goes
  <2>3. Shaped' /\ scan'.pc \in Stages \ {"idle", "done"}
    BY <1>1, <2>1, <2>2 DEF Shaped, Goes, Stages
  <2>4. ASSUME Scanning PROVE Scanning'
    <3>1. WillBeTried'
      BY <1>1, <2>1, <2>2, <2>4 DEF Scanning, WillBeTried, Goes
    <3>2. scan.todo \in Seq(Things(scan.freq)) /\ scan.freq \in Nat /\ scan.todo # <<>>
      BY <1>1, <2>4 DEF Scanning, WindowFacts
    <3>3. scan'.todo \in Seq(Things(scan.freq)') /\ scan'.freq = scan.freq /\ scan'.todo # <<>>
      BY <1>1, <2>2, <3>2 DEF Things, Goes
    <3>4. WindowFacts' /\ TrialFacts' /\ scan'.freq \in Nat
      BY <2>2, <3>2, <3>3 DEF WindowFacts, TrialFacts, Goes
    <3> QED BY <1>1, <2>1, <2>2, <2>4, <3>1, <3>4, TableStays DEF Goes
  <2> QED BY <1>1, <2>3, <2>4, GoesOn
<1> QED BY <1>2, <1>3

LEMMA CompareCancelledKeeps ==
  ASSUME ScanInv, CompareCancelled PROVE ScanInv'
<1>1. Shaped /\ scan.pc = "compare" /\ scan.cancel /\ UNCHANGED <<sky, tab, seen, chip, g>>
  BY DEF ScanInv, CompareCancelled
<1>2. Goes("deal", scan.freq, scan.todo, scan.n, scan.connected)
  BY <1>1, StageGoes DEF CompareCancelled
<1>3. Shaped' /\ scan'.pc \in Stages \ {"idle", "done"}
  BY <1>1, <1>2 DEF Shaped, Goes, Stages
<1>4. ~Scanning
  BY <1>1 DEF Scanning
<1> QED BY <1>1, <1>3, <1>4, GoesOn

\* The window slides to a frequency in kHz.
LEMMA SlideIs ==
  ASSUME Shaped, scan.freq \in Nat, NEW slip \in Slips
  PROVE  SlideTo(Slid(slip)).freq \in Nat
<1> DEFINE khz == (slip * 96000) \div 512
           far == IF khz > 96000 THEN 10000 ELSE IF khz = 0 THEN 36000 ELSE khz
           to  == Slid(slip)
           freq == IF scan.last_window THEN End ELSE Min({to, LastWindow})
<1>1. slip \in Nat /\ End \in Nat
  BY BlindScanAssumption
<1>2. khz \in Nat
  BY ONLY <1>1
<1>3. to = scan.freq + far
  BY DEF Slid
<1> HIDE DEF khz, to
<1>4. far \in Nat
  BY <1>2
<1> HIDE DEF far
<1>5. to \in Nat /\ LastWindow \in Nat
  BY <1>3, <1>4 DEF LastWindow
<1>6. Min({to, LastWindow}) \in Nat
  <2> DEFINE S == {to, LastWindow}
  <2>1. S \subseteq Nat /\ S # {}
    BY <1>5
  <2> HIDE DEF S
  <2>2. Min(S) \in S
    BY ONLY <2>1, LeastNat
  <2>3. Min(S) \in Nat
    BY ONLY <2>1, <2>2
  <2> QED BY <2>3 DEF S
<1>7. SlideTo(Slid(slip)).freq = freq
  BY DEF SlideTo, Shaped, NoScan, to
<1> QED BY <1>1, <1>6, <1>7

LEMMA SlideToGoes ==
  ASSUME Shaped, NEW freq
  PROVE  /\ DOMAIN SlideTo(freq) = DOMAIN NoScan /\ SlideTo(freq).pc = "window"
         /\ SlideTo(freq).todo = scan.todo /\ SlideTo(freq).n = scan.n
         /\ SlideTo(freq).connected = scan.connected
         /\ SlideTo(freq).algorithm = scan.algorithm /\ SlideTo(freq).cancel = scan.cancel
BY DEF SlideTo, Shaped, NoScan

LEMMA SlideAKeeps ==
  ASSUME ScanInv, SlideA PROVE ScanInv'
<1>1. Shaped /\ scan.pc = "slide" /\ scan.algorithm = "A" /\ UNCHANGED <<sky, tab, seen, chip, g>>
  BY DEF ScanInv, SlideA
<1>2. PICK slip \in Slips :
        scan' = IF scan.connected < tab.cnt
                THEN [SlideTo(Slid(slip)) EXCEPT !.pc = "connect", !.n = 0, !.connected = tab.cnt]
                ELSE SlideTo(Slid(slip))
  BY DEF SlideA
<1> DEFINE new == SlideTo(Slid(slip))
<1>3. /\ DOMAIN new = DOMAIN NoScan /\ new.pc = "window" /\ new.todo = scan.todo /\ new.n = scan.n
      /\ new.connected = scan.connected /\ new.algorithm = scan.algorithm /\ new.cancel = scan.cancel
  BY <1>1, SlideToGoes
<1>4. scan.freq \in Nat => new.freq \in Nat
  BY <1>1, SlideIs
<1> HIDE DEF new
<1>5. \/ scan.connected < tab.cnt /\ Goes("connect", new.freq, scan.todo, 0, tab.cnt)
      \/ ~(scan.connected < tab.cnt) /\ Goes("window", new.freq, scan.todo, scan.n, scan.connected)
  <2>1. CASE scan.connected < tab.cnt
    <3>1. scan' = [new EXCEPT !.pc = "connect", !.n = 0, !.connected = tab.cnt]
      BY <1>2, <2>1 DEF new
    <3> QED BY <1>3, <2>1, <3>1 DEF Goes, NoScan
  <2>2. CASE ~(scan.connected < tab.cnt)
    <3>1. scan' = new
      BY <1>2, <2>2 DEF new
    <3> QED BY <1>3, <2>2, <3>1 DEF Goes
  <2> QED BY <2>1, <2>2
<1>6. Shaped' /\ scan'.pc \in Stages \ {"idle", "done"}
  BY <1>1, <1>5 DEF Shaped, Goes, Stages
<1>7. ASSUME Scanning PROVE Scanning'
  <2>1. tab.cnt \in Nat /\ scan.connected \in Nat /\ scan.connected <= tab.cnt /\ scan.freq \in Nat
        /\ (Tried(tab.tp, MaxNum) \/ scan.connected < tab.cnt)
    BY <1>1, <1>7 DEF Scanning, WillBeTried, Laid
  <2>2. Tried(tab.tp, 0)
    BY SizeIs DEF Tried
  <2>3. WillBeTried'
    BY <1>1, <1>5, <2>1 DEF WillBeTried, Goes
  <2>4. WindowFacts' /\ TrialFacts' /\ scan'.freq \in Nat
    BY <1>1, <1>4, <1>5, <2>1, <2>2 DEF WindowFacts, TrialFacts, Goes
  <2> QED BY <1>1, <1>5, <1>7, <2>3, <2>4, TableStays DEF Goes
<1> QED BY <1>1, <1>6, <1>7, GoesOn

LEMMA SlideBKeeps ==
  ASSUME ScanInv, SlideB PROVE ScanInv'
<1>1. Shaped /\ scan.pc = "slide" /\ scan.algorithm = "B" /\ UNCHANGED <<sky, tab, seen, chip, g>>
  BY DEF ScanInv, SlideB
<1>2. PICK slip \in Slips : scan' = SlideTo(Slid(slip))
  BY DEF SlideB
<1>3. Goes("window", scan'.freq, scan.todo, scan.n, scan.connected)
  BY <1>1, <1>2, SlideToGoes DEF Goes
<1>4. scan.freq \in Nat => scan'.freq \in Nat
  BY <1>1, <1>2, SlideIs
<1>5. Shaped' /\ scan'.pc \in Stages \ {"idle", "done"}
  BY <1>1, <1>3 DEF Shaped, Goes, Stages
<1>6. ASSUME Scanning PROVE Scanning'
  <2>1. scan'.freq \in Nat
    BY <1>4, <1>6 DEF Scanning
  <2>2. WillBeTried'
    BY <1>1, <1>3 DEF WillBeTried, Goes
  <2>3. WindowFacts' /\ TrialFacts'
    BY <1>3 DEF WindowFacts, TrialFacts, Goes
  <2> QED BY <1>1, <1>3, <1>6, <2>1, <2>2, <2>3, TableStays DEF Goes
<1> QED BY <1>1, <1>5, <1>6, GoesOn

LEMMA WindowsKeep ==
  ASSUME ScanInv, Windows PROVE ScanInv'
<1>1. CASE StartPass
  BY <1>1, StartPassKeeps
<1>2. CASE EndPass
  BY <1>2, EndPassKeeps
<1>3. CASE ProcessScannedTP
  BY <1>3, ShowKeeps
<1>4. CASE WindowA \/ WindowB
  BY <1>4, WindowKeeps DEF WindowA, WindowB
<1>5. CASE CloseA \/ CloseB
  BY <1>5, CloseAKeeps, CloseBKeeps
<1>6. CASE SlideA \/ SlideB
  BY <1>6, SlideAKeeps, SlideBKeeps
<1>7. CASE DealOver \/ DealFiltered \/ DealKept
  BY <1>7, DealOverKeeps, DealFilteredKeeps, DealKeptKeeps
<1>8. CASE CompareLeft \/ CompareKnown
  BY <1>8, CompareLeftKeeps, CompareKnownKeeps
<1>9. CASE CompareNext \/ CompareCancelled
  BY <1>9, CompareNextKeeps, CompareCancelledKeeps
<1> QED BY <1>1, <1>2, <1>3, <1>4, <1>5, <1>6, <1>7, <1>8, <1>9 DEF Windows

-----------------------------------------------------------------------------
(* The trials.                                                             *)

\* Nothing waits beyond the entries in use.
LEMMA TriedAll ==
  ASSUME NEW tp, NEW cnt, NEW n \in Nat, Laid(tp, cnt), Tried(tp, n), n >= cnt PROVE Tried(tp, MaxNum)
<1>1. ASSUME NEW i \in 0..MaxNum - 1 PROVE tp[i].type # "Unknown"
  <2>1. cnt \in Nat /\ (tp[i] # Zero <=> i < cnt)
    BY DEF Laid
  <2>2. CASE i < n
    BY <2>2 DEF Tried
  <2>3. CASE ~(i < n)
    <3>1. tp[i] = Zero
      BY <2>1, <2>3, SizeIs
    <3> QED BY <3>1, EntryIs
  <2> QED BY <2>2, <2>3
<1> QED BY <1>1 DEF Tried

LEMMA ConnectOverKeeps ==
  ASSUME ScanInv, ConnectOver PROVE ScanInv'
<1>1. Shaped /\ scan.pc = "connect" /\ (scan.cancel \/ scan.n >= tab.cnt)
      /\ UNCHANGED <<sky, tab, seen, chip, g>>
  BY DEF ScanInv, ConnectOver
<1>2. Goes(IF scan.algorithm = "A" THEN "window" ELSE "passed",
           scan.freq, scan.todo, scan.n, scan.connected)
  BY <1>1, StageGoes DEF ConnectOver, AfterConnect
<1>3. Shaped' /\ scan'.pc \in Stages \ {"idle", "done"}
  BY <1>1, <1>2 DEF Shaped, Goes, Stages
<1>4. ASSUME Scanning PROVE Scanning'
  <2>1. Laid(tab.tp, tab.cnt) /\ scan.n \in Nat /\ Tried(tab.tp, scan.n) /\ scan.n >= tab.cnt
    BY <1>1, <1>4 DEF Scanning, TrialFacts
  <2>2. Tried(tab.tp, MaxNum)
    BY <2>1, TriedAll
  <2>3. scan.algorithm = "A" => scan.connected \in Nat /\ scan.connected <= tab.cnt
    BY <1>4 DEF Scanning, WillBeTried
  <2>4. WillBeTried'
    BY <1>1, <1>2, <2>2, <2>3 DEF WillBeTried, Goes
  <2>5. WindowFacts' /\ TrialFacts' /\ scan'.freq \in Nat
    BY <1>2, <1>4 DEF Scanning, WindowFacts, TrialFacts, Goes
  <2> QED BY <1>1, <1>2, <1>4, <2>4, <2>5, TableStays DEF Goes
<1> QED BY <1>1, <1>3, <1>4, GoesOn

LEMMA NextEntryGoes ==
  ASSUME Shaped, scan' = NextEntry
  PROVE  Goes("connect", scan.freq, scan.todo, scan.n + 1, scan.connected)
BY DEF NextEntry, Stage, Shaped, NoScan, Goes

LEMMA ConnectSkipKeeps ==
  ASSUME ScanInv, ConnectSkip PROVE ScanInv'
<1>1. Shaped /\ scan.pc = "connect" /\ Trying.type # "Unknown" /\ UNCHANGED <<sky, tab, seen, chip, g>>
  BY DEF ScanInv, ConnectSkip
<1>2. Goes("connect", scan.freq, scan.todo, scan.n + 1, scan.connected)
  BY <1>1, NextEntryGoes DEF ConnectSkip
<1>3. Shaped' /\ scan'.pc \in Stages \ {"idle", "done"}
  BY <1>1, <1>2 DEF Shaped, Goes, Stages
<1>4. ASSUME Scanning PROVE Scanning'
  <2>1. scan.n \in Nat /\ Tried(tab.tp, scan.n) /\ scan.freq \in Nat
    BY <1>1, <1>4 DEF Scanning, TrialFacts
  <2>2. Tried(tab.tp, scan.n + 1)
    <3> SUFFICES ASSUME NEW i \in 0..MaxNum - 1, i < scan.n + 1 PROVE tab.tp[i].type # "Unknown"
      BY DEF Tried
    <3>1. CASE i < scan.n
      BY <2>1, <3>1 DEF Tried
    <3>2. CASE i = scan.n
      BY <1>1, <3>2, SizeIs DEF Trying, At
    <3> QED BY <2>1, <3>1, <3>2
  <2>3. WillBeTried'
    BY <1>1, <1>2, <1>4 DEF Scanning, WillBeTried, Goes
  <2>4. WindowFacts' /\ TrialFacts' /\ scan'.freq \in Nat
    BY <1>1, <1>2, <2>1, <2>2 DEF WindowFacts, TrialFacts, Goes
  <2> QED BY <1>1, <1>2, <1>4, <2>3, <2>4, TableStays DEF Goes
<1> QED BY <1>1, <1>3, <1>4, GoesOn

\* An entry is under trial as type t.
LEMMA TryKeeps ==
  ASSUME ScanInv, scan.pc \in {"connect", "trial"}, NEW t \in Types, Try(t), UNCHANGED <<sky, tab, seen>>,
         Scanning => scan.n \in Nat /\ scan.n < MaxNum /\ tab.tp[scan.n].type = "Unknown" /\ Tried(tab.tp, scan.n)
  PROVE  ScanInv'
<1>1. Shaped
  BY DEF ScanInv
<1>2. Goes("trial", scan.freq, scan.todo, scan.n, scan.connected)
  BY <1>1 DEF Try, Stage, Shaped, NoScan, Goes
<1>3. "type" \in DOMAIN chip' /\ chip'.type = t
  <2>1. Looks(chip', t)
    BY <1>1, ProgrammedLooks DEF Try, Shaped
  <2> QED BY <2>1 DEF Looks
<1>4. DOMAIN g' = DOMAIN g /\ g'.current = t
  BY <1>1 DEF Try, Shaped
<1>5. Shaped' /\ scan'.pc \in Stages \ {"idle", "done"}
  BY <1>1, <1>2, <1>3, <1>4 DEF Shaped, Goes, Stages
<1>6. ASSUME Scanning PROVE Scanning'
  <2>1. WillBeTried'
    BY <1>2, <1>6 DEF Scanning, WillBeTried, Goes
  <2>2. WindowFacts' /\ scan'.freq \in Nat
    BY <1>2, <1>6 DEF Scanning, WindowFacts, Goes
  <2>3. TrialFacts'
    BY <1>2, <1>3, <1>4, <1>6 DEF TrialFacts, Goes
  <2> QED BY <1>2, <1>6, <2>1, <2>2, <2>3, TableStays DEF Goes
<1> QED BY <1>5, <1>6, GoesOn

LEMMA ConnectEntryKeeps ==
  ASSUME ScanInv, ConnectEntry PROVE ScanInv'
<1>1. scan.pc = "connect" /\ Trying.type = "Unknown" /\ Try("S") /\ UNCHANGED <<sky, tab, seen>>
  BY DEF ConnectEntry
<1>2. ASSUME Scanning
      PROVE  scan.n \in Nat /\ scan.n < MaxNum /\ tab.tp[scan.n].type = "Unknown" /\ Tried(tab.tp, scan.n)
  <2>1. scan.n \in Nat /\ Tried(tab.tp, scan.n)
    BY <1>1, <1>2 DEF Scanning, TrialFacts
  <2>2. scan.n < MaxNum
    <3> SUFFICES ASSUME ~(scan.n < MaxNum) PROVE FALSE
      OBVIOUS
    <3>1. Trying = Zero
      BY DEF Trying, At
    <3> QED BY <1>1, <3>1, EntryIs
  <2>3. Trying = tab.tp[scan.n]
    BY <2>2 DEF Trying, At
  <2> QED BY <1>1, <2>1, <2>2, <2>3
<1>3. "S" \in Types
  BY DEF Types
<1> QED BY <1>1, <1>2, <1>3, TryKeeps

\* The entry under trial is given up.
LEMMA CheckedKeeps ==
  ASSUME ScanInv, scan.pc = "trial", Checked, UNCHANGED <<sky, chip, g>>,
         DOMAIN seen' = DOMAIN seen, seen'.told = seen.told, seen'.aborted = seen.aborted
  PROVE  ScanInv'
<1>1. Shaped
  BY DEF ScanInv
<1>2. Goes("connect", scan.freq, scan.todo, scan.n + 1, scan.connected)
  BY <1>1, NextEntryGoes DEF Checked
<1>3. /\ DOMAIN tab' = DOMAIN NoTable /\ tab'.cnt = tab.cnt
      /\ tab'.tp = [tab.tp EXCEPT ![scan.n].type = "Checked"]
      /\ tab'.locked = tab.locked /\ tab'.tp_num = tab.tp_num
  <2> DEFINE new == [tab.tp EXCEPT ![scan.n].type = "Checked"]
  <2>1. tab' = [tab EXCEPT !.tp = new]
    BY DEF Checked
  <2> HIDE DEF new
  <2>2. /\ DOMAIN tab' = DOMAIN NoTable /\ tab'.cnt = tab.cnt /\ tab'.tp = new
        /\ tab'.locked = tab.locked /\ tab'.tp_num = tab.tp_num
    BY <1>1, <2>1 DEF Shaped, NoTable
  <2> QED BY <2>2 DEF new
<1>4. Shaped' /\ scan'.pc \in Stages \ {"idle", "done"}
  BY <1>1, <1>2, <1>3 DEF Shaped, Goes, Stages
<1>5. ASSUME Scanning PROVE Scanning'
  <2>1. scan.n \in Nat /\ scan.n < MaxNum /\ tab.tp[scan.n].type = "Unknown" /\ Tried(tab.tp, scan.n)
        /\ scan.freq \in Nat /\ Laid(tab.tp, tab.cnt) /\ Holding(tab.tp, seen.told)
    BY <1>5 DEF Scanning, TrialFacts
  <2>2. scan.n \in 0..MaxNum - 1
    BY <2>1, SizeIs
  <2>3. Laid(tab'.tp, tab.cnt) /\ Holding(tab'.tp, seen.told) /\ Tried(tab'.tp, scan.n + 1)
    <3> DEFINE new == [tab.tp EXCEPT ![scan.n].type = "Checked"]
    <3>1. new = [tab.tp EXCEPT ![scan.n].type = "Checked"]
      OBVIOUS
    <3> HIDE DEF new
    <3>2. Laid(new, tab.cnt) /\ Holding(new, seen.told) /\ (Tried(tab.tp, scan.n) => Tried(new, scan.n + 1))
      BY <2>1, <2>2, <3>1, CheckedIs
    <3> QED BY <1>3, <2>1, <3>1, <3>2
  <2>4. WillBeTried'
    BY <1>2, <1>3, <1>5 DEF Scanning, WillBeTried, Goes
  <2>5. WindowFacts' /\ TrialFacts' /\ scan'.freq \in Nat
    BY <1>2, <2>1, <2>3 DEF WindowFacts, TrialFacts, Goes
  <2> QED BY <1>2, <1>3, <1>5, <2>3, <2>4, <2>5 DEF Scanning, Goes
<1> QED BY <1>4, <1>5, GoesOn

LEMMA GivenUpKeeps ==
  ASSUME ScanInv, TrialGivenUp \/ TrialTimingFailed PROVE ScanInv'
<1>1. Shaped /\ scan.pc = "trial" /\ Checked /\ UNCHANGED <<sky, chip, g>>
  BY DEF ScanInv, TrialGivenUp, TrialTimingFailed
<1>2. DOMAIN seen' = DOMAIN seen /\ seen'.told = seen.told /\ seen'.aborted = seen.aborted
  BY <1>1 DEF TrialGivenUp, TrialTimingFailed, Shaped, NothingSeen
<1> QED BY <1>1, <1>2, CheckedKeeps

LEMMA RestartedKeeps ==
  ASSUME ScanInv, TrialRestarted PROVE ScanInv'
<1>1. Shaped /\ scan.pc = "trial" /\ UNCHANGED <<sky, tab>>
  BY DEF ScanInv, TrialRestarted
<1>2. Goes("trial", scan.freq, scan.todo, scan.n, scan.connected)
  <2>1. \/ scan' = scan
        \/ scan' = [scan EXCEPT !.wide = TRUE]
        \/ scan' = [scan EXCEPT !.timing = 1]
    BY DEF TrialRestarted
  <2>2. CASE scan' = scan
    BY <1>1, <2>2 DEF Shaped, Goes
  <2>3. CASE scan' = [scan EXCEPT !.wide = TRUE]
    BY <1>1, <2>3 DEF Shaped, NoScan, Goes
  <2>4. CASE scan' = [scan EXCEPT !.timing = 1]
    BY <1>1, <2>4 DEF Shaped, NoScan, Goes
  <2> QED BY <2>1, <2>2, <2>3, <2>4
<1>3. DOMAIN seen' = DOMAIN seen /\ seen'.told = seen.told /\ seen'.aborted = seen.aborted
  BY <1>1 DEF TrialRestarted, Shaped, NothingSeen
<1>4. DOMAIN g' = DOMAIN g /\ g'.current = g.current
  BY <1>1 DEF TrialRestarted, Shaped
<1>5. "type" \in DOMAIN chip' /\ (chip.type = g.current => chip'.type = g.current)
  <2>1. chip' = Restarted(chip) \/ chip' = Programmed(g.current, TRUE) \/ chip' = SoftReset(chip)
    BY DEF TrialRestarted
  <2>2. Looks(Restarted(chip), chip.type) /\ Looks(SoftReset(chip), chip.type)
    BY <1>1, ChipKept
  <2>3. Looks(Programmed(g.current, TRUE), g.current)
    BY <1>1, ProgrammedLooks DEF Shaped
  <2>4. Looks(chip', chip.type) \/ Looks(chip', g.current)
    BY <2>1, <2>2, <2>3
  <2> QED BY <2>4 DEF Looks
<1>6. Shaped' /\ scan'.pc \in Stages \ {"idle", "done"}
  BY <1>1, <1>2, <1>3, <1>4, <1>5 DEF Shaped, Goes, Stages
<1>7. ASSUME Scanning PROVE Scanning'
  <2>1. WillBeTried'
    BY <1>1, <1>2, <1>7 DEF Scanning, WillBeTried, Goes
  <2>2. WindowFacts' /\ scan'.freq \in Nat
    BY <1>2, <1>7 DEF Scanning, WindowFacts, Goes
  <2>3. TrialFacts
    BY <1>7 DEF Scanning
  <2>4. TrialFacts'
    BY <1>1, <1>2, <1>4, <1>5, <2>3 DEF TrialFacts, Goes
  <2> QED BY <1>1, <1>2, <1>3, <1>7, <2>1, <2>2, <2>4, TableStays DEF Goes
<1> QED BY <1>1, <1>3, <1>6, <1>7, GoesOn

LEMMA CarrierFailedKeeps ==
  ASSUME ScanInv, TrialCarrierFailed PROVE ScanInv'
<1>1. Shaped /\ scan.pc = "trial" /\ UNCHANGED <<sky, seen>>
  BY DEF ScanInv, TrialCarrierFailed
<1>2. CASE g.current = "S"
  <2>1. Try("S2") /\ tab' = tab /\ "S2" \in Types
    BY <1>2 DEF TrialCarrierFailed, Types
  <2>2. Scanning => scan.n \in Nat /\ scan.n < MaxNum /\ tab.tp[scan.n].type = "Unknown" /\ Tried(tab.tp, scan.n)
    BY <1>1 DEF Scanning, TrialFacts
  <2> QED BY <1>1, <2>1, <2>2, TryKeeps
<1>3. CASE g.current # "S"
  <2>1. Checked /\ UNCHANGED <<chip, g>>
    BY <1>3 DEF TrialCarrierFailed
  <2> QED BY <1>1, <2>1, CheckedKeeps
<1> QED BY <1>2, <1>3

LEMMA CancelledKeeps ==
  ASSUME ScanInv, TrialCancelled PROVE ScanInv'
<1>1. Shaped /\ scan.pc = "trial" /\ scan.cancel /\ UNCHANGED <<sky, seen, chip, g>>
  BY DEF ScanInv, TrialCancelled
<1>2. CASE g.current = "S2"
  <2>1. Checked
    BY <1>2 DEF TrialCancelled
  <2> QED BY <1>1, <2>1, CheckedKeeps
<1>3. CASE g.current # "S2"
  <2>1. scan' = NextEntry /\ tab' = tab
    BY <1>3 DEF TrialCancelled
  <2>2. Goes("connect", scan.freq, scan.todo, scan.n + 1, scan.connected)
    BY <1>1, <2>1, NextEntryGoes
  <2>3. Shaped' /\ scan'.pc \in Stages \ {"idle", "done"}
    BY <1>1, <2>1, <2>2 DEF Shaped, Goes, Stages
  <2>4. ~Scanning
    BY <1>1 DEF Scanning
  <2> QED BY <1>1, <2>3, <2>4, GoesOn
<1> QED BY <1>2, <1>3

\* A transponder that no entry is taken for was not told yet.
LEMMA NotTold ==
  ASSUME Scanning, sky \in Skies, NEW p \in sky, ~\E i \in Used : SameTransponder(At(i), p)
  PROVE  \A a \in 1..Len(seen.told) : Entry(seen.told[a]) # Entry(p)
<1> SUFFICES ASSUME NEW a \in 1..Len(seen.told), Entry(seen.told[a]) = Entry(p) PROVE FALSE
  OBVIOUS
<1>1. Laid(tab.tp, tab.cnt) /\ Holding(tab.tp, seen.told)
  BY DEF Scanning
<1>2. PICK i \in LockedAt(tab.tp) : tab.tp[i] = Entry(p)
  BY <1>1 DEF Holding
<1>3. i \in 0..MaxNum - 1 /\ i < tab.cnt /\ tab.cnt \in Nat
  BY <1>1, EntryIs DEF LockedAt, Laid
<1>4. i \in Used /\ At(i) = tab.tp[i]
  BY <1>3, SizeIs DEF Used, At
<1>5. At(i).type = p.type /\ At(i).rate = p.rate /\ At(i).freq = p.freq
  BY <1>2, <1>4 DEF Entry
<1>6. p.rate \in Nat /\ p.freq \in Nat /\ p.rate > 1
  BY SkiesAssumption
<1>7. SameTransponder(At(i), p)
  <2> DEFINE r == p.rate  f == p.freq
  <2>1. r \in Nat /\ f \in Nat /\ r > 1
    BY <1>6
  <2> HIDE DEF r, f
  <2>2. Apart(r, r) = 0 /\ Apart(f, f) = 0 /\ r \div 2 >= 1 /\ r \div 2 \in Nat
    BY ONLY <2>1 DEF Apart
  <2>3. Apart(r, r) < 50 /\ Apart(f, f) < r \div 2
    BY ONLY <2>2
  <2> QED BY <1>5, <2>3 DEF SameTransponder, r, f
<1> QED BY <1>4, <1>7

LEMMA LockedKeeps ==
  ASSUME ScanInv, TrialLocked PROVE ScanInv'
<1>1. Shaped /\ scan.pc = "trial" /\ sky \in Skies /\ UNCHANGED <<sky, g>>
  BY DEF ScanInv, TrialLocked
<1>2. PICK p \in Heard :
        IF ~scan.cancel /\ \E i \in Used : SameTransponder(At(i), p)
        THEN Checked /\ UNCHANGED <<chip, seen>>
        ELSE /\ tab' = [tab EXCEPT !.locked = @ + 1, !.tp_num = tab.locked + 1,
                          !.tp[scan.n] = [freq |-> p.freq, rate |-> p.rate, type |-> p.type]]
             /\ chip' = SetClockRatio(chip, p)
             /\ seen' = [seen EXCEPT !.told = Append(@, p)]
             /\ scan' = NextEntry
  BY DEF TrialLocked
<1>3. CASE ~scan.cancel /\ \E i \in Used : SameTransponder(At(i), p)
  <2>1. Checked /\ UNCHANGED <<chip, seen>>
    BY <1>2, <1>3
  <2> QED BY <1>1, <2>1, CheckedKeeps
<1>4. CASE ~(~scan.cancel /\ \E i \in Used : SameTransponder(At(i), p))
  <2> DEFINE new == [tab.tp EXCEPT ![scan.n] = Entry(p)]
  <2>1. /\ tab' = [tab EXCEPT !.locked = @ + 1, !.tp_num = tab.locked + 1, !.tp = new]
        /\ chip' = SetClockRatio(chip, p) /\ seen' = [seen EXCEPT !.told = Append(@, p)]
        /\ scan' = NextEntry
    BY <1>2, <1>4 DEF Entry
  <2>2. new = [tab.tp EXCEPT ![scan.n] = Entry(p)]
    OBVIOUS
  <2> HIDE DEF new
  <2>3. /\ DOMAIN tab' = DOMAIN NoTable /\ tab'.cnt = tab.cnt /\ tab'.tp = new
        /\ tab'.locked = tab.locked + 1 /\ tab'.tp_num = tab.locked + 1
    BY <1>1, <2>1 DEF Shaped, NoTable
  <2>4. DOMAIN seen' = DOMAIN NothingSeen /\ seen'.aborted = seen.aborted /\ seen'.told = Append(seen.told, p)
    BY <1>1, <2>1 DEF Shaped, NothingSeen
  <2>5. Goes("connect", scan.freq, scan.todo, scan.n + 1, scan.connected)
    BY <1>1, <2>1, NextEntryGoes
  <2>6. "type" \in DOMAIN chip'
    BY <1>1, <2>1, ChipKept DEF Looks
  <2>7. Shaped' /\ scan'.pc \in Stages \ {"idle", "done"}
    BY <1>1, <2>3, <2>4, <2>5, <2>6 DEF Shaped, Goes, Stages
  <2>8. ASSUME Scanning PROVE Scanning'
    <3>1. /\ scan.n \in Nat /\ scan.n < MaxNum /\ tab.tp[scan.n].type = "Unknown" /\ Tried(tab.tp, scan.n)
          /\ scan.freq \in Nat /\ Laid(tab.tp, tab.cnt) /\ Holding(tab.tp, seen.told)
          /\ seen.told \in Seq(sky) /\ tab.locked = Len(seen.told) /\ ~scan.cancel
          /\ g.current \in Types /\ chip.type = g.current
      BY <1>1, <2>8 DEF Scanning, TrialFacts
    <3>2. scan.n \in 0..MaxNum - 1
      BY <3>1, SizeIs
    <3>3. p \in sky /\ p.type \in Types
      BY <3>1 DEF Heard, Finds
    <3>4. Entry(p) \in Entries
      <4>1. p.freq \in Nat /\ p.rate \in Nat /\ p.freq + Bin < FreqMax
        BY <1>1, <3>3, SkiesAssumption
      <4>2. p.freq \in Freqs
        BY <4>1 DEF Freqs, Bin, FreqMax
      <4>3. p.rate \in Int /\ p.type \in Types \cup {"Unknown", "Checked"}
        BY <3>3, <4>1
      <4> QED BY ONLY <4>2, <4>3 DEF Entry, Entries
    <3>5. \A a \in 1..Len(seen.told) : Entry(seen.told[a]) # Entry(p)
      BY <1>1, <1>4, <2>8, <3>1, <3>3, NotTold
    <3>6. Laid(new, tab.cnt) /\ Holding(new, Append(seen.told, p)) /\ Tried(new, scan.n + 1)
      <4> DEFINE tp == tab.tp  cnt == tab.cnt  n == scan.n  said == seen.told
      <4>1. /\ n \in 0..MaxNum - 1 /\ said \in Seq(sky) /\ p \in sky /\ Laid(tp, cnt) /\ Holding(tp, said)
            /\ tp[n].type = "Unknown" /\ Entry(p) \in Entries /\ p.type \in Types
            /\ \A a \in 1..Len(said) : Entry(said[a]) # Entry(p)
            /\ new = [tp EXCEPT ![n] = Entry(p)] /\ Tried(tp, n)
        BY <2>2, <3>1, <3>2, <3>3, <3>4, <3>5
      <4> HIDE DEF tp, cnt, n, said
      <4>2. Laid(new, cnt) /\ Holding(new, Append(said, p)) /\ (Tried(tp, n) => Tried(new, n + 1))
        BY ONLY <4>1, LockedIs
      <4> QED BY <4>1, <4>2 DEF cnt, n, said
    <3>7. Append(seen.told, p) \in Seq(sky) /\ Len(Append(seen.told, p)) = Len(seen.told) + 1
      BY <3>1, <3>3
    <3>8. WillBeTried'
      BY <1>1, <2>3, <2>5, <2>8 DEF Scanning, WillBeTried, Goes
    <3>9. WindowFacts' /\ TrialFacts' /\ scan'.freq \in Nat
      BY <2>3, <2>5, <3>1, <3>6 DEF WindowFacts, TrialFacts, Goes
    <3> QED BY <1>1, <2>3, <2>4, <2>5, <2>8, <3>1, <3>6, <3>7, <3>8, <3>9 DEF Scanning, Goes
  <2> QED BY <1>1, <2>4, <2>7, <2>8, GoesOn
<1> QED BY <1>3, <1>4

LEMMA TrialsKeep ==
  ASSUME ScanInv, Trials PROVE ScanInv'
<1>1. CASE ConnectOver \/ ConnectSkip \/ ConnectEntry
  BY <1>1, ConnectOverKeeps, ConnectSkipKeeps, ConnectEntryKeeps
<1>2. CASE TrialGivenUp \/ TrialTimingFailed \/ TrialRestarted
  BY <1>2, GivenUpKeeps, RestartedKeeps
<1>3. CASE TrialCarrierFailed \/ TrialCancelled \/ TrialLocked
  BY <1>3, CarrierFailedKeeps, CancelledKeeps, LockedKeeps
<1> QED BY <1>1, <1>2, <1>3 DEF Trials

-----------------------------------------------------------------------------
(* The beginning and the end of a scan.                                    *)

LEMMA NothingHeld ==
  ASSUME NEW tp, tp = [i \in 0..MaxNum - 1 |-> Zero] PROVE Laid(tp, 0) /\ Holding(tp, <<>>) /\ Tried(tp, MaxNum)
<1>1. \A i \in 0..MaxNum - 1 : tp[i] = Zero
  OBVIOUS
<1>2. Laid(tp, 0)
  BY <1>1, SizeIs DEF Laid
<1>3. LockedAt(tp) = {}
  BY <1>1, EntryIs DEF LockedAt
<1>4. Holding(tp, <<>>)
  <2>1. \A a \in 1..Len(<<>>) : FALSE
    OBVIOUS
  <2> QED BY <1>3, <2>1 DEF Holding
<1>5. Tried(tp, MaxNum)
  BY <1>1, EntryIs DEF Tried
<1> QED BY <1>2, <1>4, <1>5

LEMMA StartKeeps ==
  ASSUME ScanInv, scan.pc = "idle", BlindScanStart PROVE ScanInv'
<1>1. Shaped /\ tab = NoTable /\ sky' \in Skies /\ seen' = NothingSeen /\ UNCHANGED g
      /\ chip' = GlobalReset(chip)
  BY DEF ScanInv, BlindScanStart
<1>2. tab' = [NoTable EXCEPT !.cnt = 0, !.locked = 0, !.tp_num = 0]
  BY <1>1 DEF BlindScanStart
<1> DEFINE tp == [i \in 0..MaxNum - 1 |-> Zero]
<1>3. Laid(tp, 0) /\ Holding(tp, <<>>) /\ Tried(tp, MaxNum)
  BY NothingHeld
<1>4. NoTable = [tp |-> tp, cnt |-> 0, locked |-> 0, tp_num |-> 0]
  BY DEF NoTable
<1> HIDE DEF tp
<1>5. DOMAIN tab' = DOMAIN NoTable /\ tab'.tp = tp /\ tab'.cnt = 0 /\ tab'.locked = 0 /\ tab'.tp_num = 0
  BY <1>2, <1>4
<1>6. PICK a \in Algorithms : scan' = [NoScan EXCEPT !.pc = "pass", !.algorithm = a]
  BY DEF BlindScanStart
<1>7. DOMAIN scan' = DOMAIN NoScan /\ scan'.pc = "pass" /\ scan'.algorithm = a /\ scan'.freq = 0
      /\ scan'.connected = 0 /\ scan'.cancel = FALSE /\ a \in {"A", "B"}
  BY <1>6, BlindScanAssumption DEF NoScan
<1>8. "type" \in DOMAIN chip'
  BY <1>1, ChipKept DEF Looks
<1>9. seen'.told = <<>> /\ seen'.aborted = FALSE
  BY <1>1 DEF NothingSeen
<1>10. Shaped'
  BY <1>1, <1>5, <1>7, <1>8 DEF Shaped
<1>11. WindowFacts' /\ TrialFacts'
  BY <1>7 DEF WindowFacts, TrialFacts
<1>12. WillBeTried'
  BY <1>3, <1>5, <1>7 DEF WillBeTried
<1>13. Scanning'
  BY <1>3, <1>5, <1>7, <1>9, <1>11, <1>12 DEF Scanning
<1>14. "pass" \in Stages
  BY DEF Stages
<1> QED BY <1>1, <1>7, <1>9, <1>10, <1>13, <1>14 DEF ScanInv, TableHoldsTheLocked

LEMMA AbortKeeps ==
  ASSUME ScanInv, Abort PROVE ScanInv'
<1>1. Shaped /\ UNCHANGED <<sky, tab, chip, g>>
  BY DEF ScanInv, Abort
<1>2. DOMAIN scan' = DOMAIN NoScan /\ scan'.pc = scan.pc
  BY <1>1 DEF Abort, Shaped, NoScan
<1>3. DOMAIN seen' = DOMAIN NothingSeen /\ seen'.aborted = TRUE
  BY <1>1 DEF Abort, Shaped, NothingSeen
<1>4. Shaped'
  BY <1>1, <1>2, <1>3 DEF Shaped
<1> QED BY <1>1, <1>2, <1>3, <1>4 DEF ScanInv, TableHoldsTheLocked

LEMMA ScanFinishKeeps ==
  ASSUME ScanInv, ScanFinish PROVE ScanInv'
<1>1. Shaped /\ scan.pc = "remove" /\ UNCHANGED <<sky, seen, chip, g>>
  BY DEF ScanInv, ScanFinish
<1>2. DOMAIN scan' = DOMAIN NoScan /\ scan'.pc = "done"
  BY <1>1 DEF ScanFinish, Stage, Shaped, NoScan
<1>3. DOMAIN tab' = DOMAIN NoTable
  BY <1>1 DEF ScanFinish, Shaped
<1>4. Shaped'
  BY <1>1, <1>2, <1>3 DEF Shaped
<1>5. TableHoldsTheLocked'
  <2>1. CASE seen.aborted
    BY <1>1, <2>1 DEF TableHoldsTheLocked
  <2>2. CASE ~seen.aborted
    <3>1. Scanning
      BY <1>1, <2>2 DEF ScanInv
    <3> QED BY <1>1, <3>1, FinishHolds
  <2> QED BY <2>1, <2>2
<1>6. "done" \in Stages
  BY DEF Stages
<1> QED BY <1>1, <1>2, <1>4, <1>5, <1>6 DEF ScanInv

-----------------------------------------------------------------------------
\* A scan begins with an empty table.
LEMMA ScanBegins == ScanInit => ScanInv
<1> SUFFICES ASSUME ScanInit PROVE ScanInv
  OBVIOUS
<1>1. tab = NoTable /\ seen = NothingSeen /\ sky \in Skies /\ scan = [NoScan EXCEPT !.pc = "idle"]
  BY DEF ScanInit
<1>2. DOMAIN scan = DOMAIN NoScan /\ scan.pc = "idle" /\ seen.aborted = FALSE
  BY <1>1 DEF NoScan, NothingSeen
<1>3. "type" \in DOMAIN chip
  <2>1. PICK id \in Chips : chip = [FreshChip(id) EXCEPT !.fw = TRUE, !.ratio = 17]
    BY DEF ScanInit
  <2> QED BY <2>1 DEF FreshChip
<1>4. {"current", "eq"} \subseteq DOMAIN g
  <2>1. PICK id \in Chips : g = [FreshGlobals EXCEPT !.dmd_id = id, !.set_tuner = TRUE, !.InitDone = TRUE]
    BY DEF ScanInit
  <2> QED BY <2>1 DEF FreshGlobals
<1>5. Shaped
  BY <1>1, <1>2, <1>3, <1>4 DEF Shaped
<1> QED BY <1>1, <1>2, <1>5 DEF ScanInv, Stages, TableHoldsTheLocked

\* Every step keeps the invariant.
LEMMA ScanKeeps == ScanInv /\ [FirstScanNext]_<<vars, scanVars>> => ScanInv'
<1> SUFFICES ASSUME ScanInv, [FirstScanNext]_<<vars, scanVars>> PROVE ScanInv'
  OBVIOUS
<1>1. CASE Abort
  BY <1>1, AbortKeeps
<1>2. CASE scan.pc = "idle" /\ BlindScanStart
  BY <1>2, StartKeeps
<1>3. CASE Windows
  BY <1>3, WindowsKeep
<1>4. CASE Trials
  BY <1>4, TrialsKeep
<1>5. CASE ScanFinish
  BY <1>5, ScanFinishKeeps
<1>6. CASE UNCHANGED <<vars, scanVars>>
  <2>1. UNCHANGED <<chip, g, sky, scan, tab, seen>>
    BY <1>6 DEF vars, scanVars
  <2>2. Shaped => Shaped'
    BY <2>1 DEF Shaped
  <2>3. Things(scan.freq)' = Things(scan.freq)
    BY <2>1 DEF Things
  <2>4. (WindowFacts => WindowFacts') /\ (WillBeTried => WillBeTried') /\ (TrialFacts => TrialFacts')
    BY <2>1, <2>3 DEF WindowFacts, WillBeTried, TrialFacts
  <2>5. Scanning => Scanning'
    BY <2>1, <2>4 DEF Scanning
  <2>6. \A i : At(i)' = At(i)
    BY <2>1 DEF At
  <2>7. TableHoldsTheLocked => TableHoldsTheLocked'
    BY <2>1, <2>6 DEF TableHoldsTheLocked, Used, At
  <2> QED BY <2>1, <2>2, <2>5, <2>7 DEF ScanInv
<1> QED BY <1>1, <1>2, <1>3, <1>4, <1>5, <1>6 DEF FirstScanNext

\* When the first scan is over that nobody aborted, the caller finds at the
\* front of the table the transponders that were reported, every one once, and
\* no other entry in use is locked: for any sky within the tuner's reach, any
\* band, any size of the table, either algorithm, and whatever goes wrong in
\* the trials (_mt_fe_dmd_ds3k_bs_connect, bs_remove_unlocked_TP).
THEOREM BlindScanTable == FirstScanSpec => []TableHoldsTheLocked
<1>1. ScanInv => TableHoldsTheLocked
  BY DEF ScanInv
<1> QED BY <1>1, ScanBegins, ScanKeeps, PTL DEF FirstScanSpec
=============================================================================
