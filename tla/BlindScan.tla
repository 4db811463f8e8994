----------------------------- MODULE BlindScan -----------------------------
(***************************************************************************)
(* The blind scan of the satellite front end: mt_fe_dmd_ds3k_blindscan     *)
(* slides a window over the band, takes what the FFT of the chip shows in  *)
(* it for candidates, keeps those in the caller's table, and tries every   *)
(* candidate as DVB-S and then as DVB-S2.  Another thread may abort it at  *)
(* any time.  Frequencies are in kHz, symbol rates in kS/s.                *)
(***************************************************************************)
EXTENDS Ds3000, Sequences

CONSTANTS
  Skies,      \* what may be on the air: sets of transponders
  Begin, End, \* the band
  Algorithms, \* "A" connects after every window, "B" after every pass
  Times,      \* the passes of a scan (bs_times)
  MaxNum,     \* the size of the caller's table (tp_max_num)
  Slips,      \* by how many bins the FFT lets the window slide
  Faults      \* what may go wrong: "cci", "timing", "slow"

(* The loops of remove_unlocked count in a byte.                           *)
ASSUME BlindScanAssumption ==
  /\ Algorithms \subseteq {"A", "B"}
  /\ Times \in 1..3
  /\ MaxNum \in 1..255
  /\ Faults \subseteq {"cci", "timing", "slow"}
  /\ Begin \in Nat /\ End \in Nat /\ Slips \subseteq Nat

VARIABLES
  sky,        \* the transponders there are, and other carriers
  scan,       \* where the scan stands, and its globals
  tab,        \* the caller's table and the number of entries in use
  seen        \* what happened since BSStart

scanVars == <<sky, scan, tab, seen>>

Bin == 187                \* MT_FE_MCLK_KHZ / FFT_LENGTH
LastWindow == 2149000
FreqMax == 9999000

(* What is on the air is in the reach of the tuner and has a symbol rate.  *)
ASSUME SkiesAssumption ==
  \A s \in Skies :
    /\ IsFiniteSet(s)
    /\ \A p \in s : {p.freq, p.rate} \subseteq Nat /\ p.freq + Bin < FreqMax /\ p.rate > 1

Zero == [freq |-> 0, rate |-> 0, type |-> "Undef"]
Locked(e) == e.type \in Types

(* What the caller's memory holds at i: nothing beyond the table.          *)
At(i) == IF i < MaxNum THEN tab.tp[i] ELSE Zero
Used == 0..tab.cnt - 1

NothingSeen == [told |-> <<>>, shown |-> {}, smooth |-> TRUE, aborted |-> FALSE]

NoScan == [pc |-> "off", algorithm |-> "A", pass |-> 0, freq |-> 0, last_window |-> FALSE,
           todo |-> <<>>, index |-> 0, last_tpA |-> FALSE, connected |-> 0,
           n |-> 0, wide |-> FALSE, timing |-> 0, cancel |-> FALSE]

NoTable == [tp |-> [i \in 0..MaxNum - 1 |-> Zero], cnt |-> 0, locked |-> 0, tp_num |-> 0]

NoScanner == sky = {} /\ scan = NoScan /\ tab = NoTable /\ seen = NothingSeen

(* A scan begins on a front end that Tuner_Init has set up.                *)
ScanInit ==
  /\ \E id \in Chips :
       /\ chip = [FreshChip(id) EXCEPT !.fw = TRUE, !.ratio = 17]
       /\ g = [FreshGlobals EXCEPT !.dmd_id = id, !.set_tuner = TRUE, !.InitDone = TRUE]
  /\ lnb = [on |-> TRUE, volt |-> 18, out |-> "forced", a1 |-> "stop"]
  /\ air = None
  /\ Idle
  /\ sky \in Skies
  /\ scan = [NoScan EXCEPT !.pc = "idle"]
  /\ tab = NoTable
  /\ seen = NothingSeen

Stage(pc) == [scan EXCEPT !.pc = pc]
KeepCalls == UNCHANGED <<lnb, air, user, poller, ask, told>>

-----------------------------------------------------------------------------
(* The caller and the other thread.                                        *)

Abort ==
  /\ scan.pc # "off" /\ ~scan.cancel
  /\ scan' = [scan EXCEPT !.cancel = TRUE]
  /\ seen' = [seen EXCEPT !.aborted = TRUE]
  /\ UNCHANGED <<sky, tab, chip, g>> /\ KeepCalls

(* An abort that came before BSStart is forgotten; the entries of the      *)
(* scan before are not.                                                    *)
BlindScanStart ==
  /\ scan.pc \in {"idle", "done"}
  /\ sky' \in Skies
  /\ \E a \in Algorithms : scan' = [NoScan EXCEPT !.pc = "pass", !.algorithm = a]
  /\ tab' = [tab EXCEPT !.cnt = 0, !.locked = 0, !.tp_num = 0]
  /\ seen' = NothingSeen
  /\ chip' = GlobalReset(chip)
  /\ UNCHANGED g /\ KeepCalls

(* What the FFT looks for in this pass; the chip is held meanwhile.        *)
BsSetReg(c) == Restarted(c)

StartPass ==
  /\ scan.pc = "pass"
  /\ scan' = IF scan.pass = Times THEN Stage("remove")
             ELSE [Stage("window") EXCEPT !.freq = Begin, !.last_window = FALSE, !.connected = 0]
  /\ chip' = IF scan.pass < Times /\ scan.algorithm = "B" THEN BsSetReg(chip) ELSE chip
  /\ UNCHANGED <<sky, tab, seen, g>> /\ KeepCalls

EndPass ==
  /\ scan.pc = "passed"
  /\ scan' = IF scan.cancel THEN [Stage("remove") EXCEPT !.cancel = FALSE]
             ELSE [Stage("pass") EXCEPT !.pass = @ + 1]
  /\ UNCHANGED <<sky, tab, seen, chip, g>> /\ KeepCalls

\* Mutant of RemoveUnlocked: without an entry beyond FREQ_MAX the first entry is the last one.
RemoveUnlockedFirst == tab.tp

(* The sweep of remove_unlocked over the places up to last: an entry that  *)
(* was not tried in vain changes places with the first of those before it  *)
(* that were.                                                              *)
MoveSteps(tp, i) == Cardinality({k \in 0..i - 1 : tp[k].type = "Checked"})

Swept(tp, last) ==
  LET f[i \in 0..last + 1] ==
        IF i = 0 THEN tp
        ELSE LET k == i - 1
                 before == f[k]
                 to == k - MoveSteps(tp, k)
             IN  IF tp[k].type = "Checked" THEN before
                 ELSE [before EXCEPT ![to] = before[k], ![k] = before[to]]
  IN  f[last + 1]

(* _mt_fe_dmd_ds3k_bs_remove_unlocked_TP: the sweep goes as far as the     *)
(* first entry beyond FREQ_MAX or the first one not in use.  A place       *)
(* beyond the table is not one.                                            *)
RemoveUnlocked ==
  LET ends == {i \in Used : At(i).freq >= FreqMax} \cup {tab.cnt}
      span == Min({Min(ends), MaxNum - 1})
  IN  Swept(tab.tp, span)

ScanFinish ==
  /\ scan.pc = "remove"
  /\ tab' = [tab EXCEPT !.tp = RemoveUnlocked]
  /\ scan' = Stage("done")
  /\ UNCHANGED <<sky, seen, chip, g>> /\ KeepCalls

-----------------------------------------------------------------------------
(* A window: the chip computes the spectrum around the tuner's frequency   *)
(* and tells candidates as bins, rising in frequency.                      *)

WindowsLeft == scan.freq < End /\ ~scan.cancel

Window(c) ==
  /\ chip' = SetCarrierOffset(SetTuner(c, scan.freq), TunerOffset(scan.freq))
  /\ scan' = [Stage("fft") EXCEPT !.index = 0, !.last_tpA = FALSE]
  /\ UNCHANGED <<sky, tab, seen, g>> /\ KeepCalls

(* Algorithm A sets the registers for every window ...                     *)
WindowA == scan.pc = "window" /\ scan.algorithm = "A" /\ WindowsLeft /\ Window(BsSetReg(chip))

CloseA ==
  /\ scan.pc = "window" /\ scan.algorithm = "A" /\ ~WindowsLeft
  /\ scan' = Stage("passed")
  /\ UNCHANGED <<sky, tab, seen, chip, g>> /\ KeepCalls

(* ... algorithm B once a pass, and it tries the candidates when the pass  *)
(* has seen the whole band.                                                *)
WindowB == scan.pc = "window" /\ scan.algorithm = "B" /\ WindowsLeft /\ Window(chip)

CloseB ==
  /\ scan.pc = "window" /\ scan.algorithm = "B" /\ ~WindowsLeft
  /\ scan' = [Stage("connect") EXCEPT !.n = 0]
  /\ UNCHANGED <<sky, tab, seen, chip, g>> /\ KeepCalls

Visible == {p \in sky : Apart(p.freq, scan.freq) <= 20000}

(* Half a bin of doubt about where a transponder is, and how wide.         *)
Shows(p) ==
  [at: {(p.freq - scan.freq) \div Bin, (p.freq - scan.freq) \div Bin + 1},
   width: {((p.rate + 400) * 512) \div 96000 + 1}, of: {p}]

InOrder(S) == {q \in [1..Cardinality(S) -> S] :
                 \A i, k \in DOMAIN q : i < k => q[i].of.freq < q[k].of.freq}

ProcessScannedTP ==
  /\ scan.pc = "fft"
  /\ \E there \in SUBSET Visible :
     \E c \in [there -> UNION {Shows(p) : p \in there}] :
        /\ \A p \in there : c[p].of = p
        /\ \E q \in InOrder({c[p] : p \in there}) : scan' = [Stage("deal") EXCEPT !.todo = q]
  /\ UNCHANGED <<sky, tab, seen, chip, g>> /\ KeepCalls

-----------------------------------------------------------------------------
(* _mt_fe_dmd_ds3k_bs_compare_deal_TP                                      *)

FirstPass == scan.pass = 0 \/ Times = 1

Found == Head(scan.todo)
RawRate == (Found.width * 96000) \div 512
Candidate == [freq |-> scan.freq + Found.at * Bin,
              rate |-> IF RawRate > 45000 THEN 45000 ELSE RawRate - 400,
              type |-> "Unknown"]

(* Too low, too wide or too narrow for a transponder, or for this pass.    *)
Filtered ==
  \/ Candidate.freq < 950000
  \/ RawRate > 50000 \/ RawRate <= 2000
  \/ RawRate < 10000 /\ scan.pass = 0 /\ Times > 1
  \/ RawRate > 15000 /\ scan.pass = 2

(* A full table counts the candidate and does not take it.                 *)
Taken(tp) == [tab EXCEPT !.cnt = @ + 1,
                         !.tp = IF tab.cnt + 1 > MaxNum THEN @ ELSE tp]

Appended(c) == IF tab.cnt < MaxNum THEN [tab.tp EXCEPT ![tab.cnt] = c] ELSE tab.tp

(* The first entry the candidate is not above and what follows it, down to *)
(* the first entry not in use, move up.                                    *)
Inserted(c) ==
  LET above == {i \in 0..tab.cnt : At(i).freq >= c.freq}
      k == Min(above \cup {tab.cnt})
      moved == IF above = {} THEN {} ELSE k + 1..tab.cnt + 1
  IN  [i \in DOMAIN tab.tp |-> IF i = k THEN c
                               ELSE IF i \in moved THEN tab.tp[i - 1] ELSE tab.tp[i]]

NextDeal == [Stage("deal") EXCEPT !.todo = Tail(@)]

DealOver ==
  /\ scan.pc = "deal"
  /\ scan.todo = <<>> \/ scan.cancel
  /\ scan' = [Stage("slide") EXCEPT !.todo = <<>>]
  /\ UNCHANGED <<sky, tab, seen, chip, g>> /\ KeepCalls

Dealing == scan.pc = "deal" /\ scan.todo # <<>> /\ ~scan.cancel

DealFiltered ==
  /\ Dealing /\ Filtered
  /\ scan' = NextDeal
  /\ UNCHANGED <<sky, tab, seen, chip, g>> /\ KeepCalls

(* A first pass takes every candidate; a later one compares it first.      *)
DealKept ==
  /\ Dealing /\ ~Filtered
  /\ seen' = [seen EXCEPT !.shown = @ \cup {Found.of}]
  /\ IF FirstPass THEN scan' = NextDeal /\ tab' = Taken(Appended(Candidate))
                  ELSE scan' = Stage("compare") /\ UNCHANGED tab
  /\ UNCHANGED <<sky, chip, g>> /\ KeepCalls

LeftOf(c, e) == c.freq + c.rate \div 2 <= e.freq - e.rate \div 2

(* The candidate is the transponder of a locked entry: it covers enough of *)
(* it and is not far off.                                                  *)
SameLocked(c, e) ==
  LET low  == IF c.freq >= e.freq THEN e ELSE c
      high == IF c.freq >= e.freq THEN c ELSE e
      far  == CASE c.rate > 25000 -> 7000
                [] c.rate \in 10001..25000 -> 4000
                [] c.rate \in 5001..10000 -> 3000
                [] c.rate \in 3001..5000 -> 2000
                [] c.rate <= 3000 -> 1000
  IN  /\ (low.freq + low.rate \div 2) - (high.freq - high.rate \div 2)
           >= c.rate \div (IF c.rate > 6000 THEN 2 ELSE 3)
      /\ Apart(c.freq, e.freq) <= far

(* The candidate is that of an entry which was tried in vain or waits.     *)
Similar(c, e) ==
  CASE c.rate > 25000 -> Apart(c.rate, e.rate) <= 400 /\ Apart(c.freq, e.freq) <= 1000
    [] c.rate \in 10001..25000 -> Apart(c.rate, e.rate) <= 250 /\ Apart(c.freq, e.freq) <= 800
    [] c.rate \in 3001..10000 -> Apart(c.rate, e.rate) <= 200 /\ Apart(c.freq, e.freq) <= 500
    [] c.rate <= 3000 -> Apart(c.rate, e.rate) <= 100 /\ Apart(c.freq, e.freq) <= 500

Known(c, e) == IF Locked(e) THEN SameLocked(c, e) ELSE Similar(c, e)

(* Left of the entry it is compared with, the candidate is new; the entry  *)
(* below stays the one to compare with.                                    *)
CompareLeft ==
  /\ scan.pc = "compare" /\ ~scan.cancel
  /\ LeftOf(Candidate, At(scan.index))
  /\ tab' = Taken(Inserted(Candidate))
  /\ LET below == At(IF scan.index > 0 THEN scan.index - 1 ELSE 0).freq
         same == {i \in Used \cup {tab.cnt} : tab.cnt < MaxNum /\ tab'.tp[i].freq = below}
     IN  scan' = [NextDeal EXCEPT !.index =
                    IF same # {} THEN Min(same) ELSE IF @ > 0 THEN @ - 1 ELSE 0]
  /\ UNCHANGED <<sky, seen, chip, g>> /\ KeepCalls

CompareKnown ==
  /\ scan.pc = "compare" /\ ~scan.cancel
  /\ ~LeftOf(Candidate, At(scan.index)) /\ Known(Candidate, At(scan.index))
  /\ scan' = NextDeal
  /\ UNCHANGED <<sky, tab, seen, chip, g>> /\ KeepCalls

(* The next entry that does not wait for its trial; the search for it      *)
(* knows no end but its first step.                                        *)
CompareNext ==
  /\ scan.pc = "compare" /\ ~scan.cancel
  /\ ~LeftOf(Candidate, At(scan.index)) /\ ~Known(Candidate, At(scan.index))
  /\ LET next == scan.index + 1
         last == scan.last_tpA \/ next >= tab.cnt
     IN  IF last
         THEN /\ tab' = Taken(Inserted(Candidate))
              /\ scan' = [NextDeal EXCEPT !.last_tpA = TRUE]
         ELSE /\ scan' = [scan EXCEPT !.index =
                            Min({i \in next..MaxNum : At(i).type # "Unknown"})]
              /\ UNCHANGED tab
  /\ UNCHANGED <<sky, seen, chip, g>> /\ KeepCalls

CompareCancelled ==
  /\ scan.pc = "compare" /\ scan.cancel
  /\ scan' = Stage("deal")
  /\ UNCHANGED <<sky, tab, seen, chip, g>> /\ KeepCalls

(* The window slides by what the chip tells, in kHz.                       *)
Slid(slip) ==
  LET khz == (slip * 96000) \div 512
  IN  scan.freq + (IF khz > 96000 THEN 10000 ELSE IF khz = 0 THEN 36000 ELSE khz)

(* The last window of the band is opened once.                             *)
SlideTo(freq) ==
  [scan EXCEPT !.pc = "window",
               !.freq = IF scan.last_window THEN End ELSE Min({freq, LastWindow}),
               !.last_window = freq >= LastWindow]

(* Algorithm A tries what is new before it slides on.                      *)
SlideA ==
  /\ scan.pc = "slide" /\ scan.algorithm = "A"
  /\ \E slip \in Slips :
       scan' = IF scan.connected < tab.cnt
               THEN [SlideTo(Slid(slip)) EXCEPT !.pc = "connect", !.n = 0, !.connected = tab.cnt]
               ELSE SlideTo(Slid(slip))
  /\ UNCHANGED <<sky, tab, seen, chip, g>> /\ KeepCalls

SlideB ==
  /\ scan.pc = "slide" /\ scan.algorithm = "B"
  /\ \E slip \in Slips : scan' = SlideTo(Slid(slip))
  /\ UNCHANGED <<sky, tab, seen, chip, g>> /\ KeepCalls

-----------------------------------------------------------------------------
(* _mt_fe_dmd_ds3k_bs_connect: the entries that wait, one after the other. *)
(* scan.n is the entry under trial, chip.type the type it is tried as.     *)

Trying == At(scan.n)
AfterConnect == Stage(IF scan.algorithm = "A" THEN "window" ELSE "passed")
NextEntry == [Stage("connect") EXCEPT !.n = @ + 1]

ConnectOver ==
  /\ scan.pc = "connect"
  /\ scan.cancel \/ scan.n >= tab.cnt
  /\ scan' = AfterConnect
  /\ UNCHANGED <<sky, tab, seen, chip, g>> /\ KeepCalls

ConnectSkip ==
  /\ scan.pc = "connect" /\ ~scan.cancel /\ scan.n < tab.cnt
  /\ Trying.type # "Unknown"
  /\ scan' = NextEntry
  /\ UNCHANGED <<sky, tab, seen, chip, g>> /\ KeepCalls

(* _mt_fe_dmd_ds3k_bs_set_demod takes its registers from tables of its     *)
(* own; the clock and the divider come out as those of set_demod.          *)
BsSetDemod(c, type, rate) == SetDemod(c, type, rate)

Programmed(type, wide) ==
  LET slow == SlowOffset(Trying.rate)
      khz  == Trying.freq + slow
      tuned == SetTuner(IF wide THEN chip ELSE GlobalReset(chip), khz)
      demod == BsSetDemod(Held(tuned), type, Trying.rate)
  IN  Restarted(SetCarrierOffset(demod, TunerOffset(khz) + slow))

Try(type) ==
  /\ chip' = Programmed(type, FALSE)
  /\ g' = [g EXCEPT !.current = type, !.eq = FALSE]
  /\ scan' = [Stage("trial") EXCEPT !.wide = FALSE, !.timing = 0]

(* The tuner of the build, an M88TS2022, is set without an error: its      *)
(* mt_fe_tn_set_freq_ts2022 returns MtFeErr_Ok whatever became of it.      *)
ConnectEntry ==
  /\ scan.pc = "connect" /\ ~scan.cancel /\ scan.n < tab.cnt
  /\ Trying.type = "Unknown"
  /\ Try("S")
  /\ UNCHANGED <<sky, tab, seen>> /\ KeepCalls

Finds(c, p) ==
  /\ Working(c)
  /\ c.type = p.type
  /\ Apart(c.freq - c.offset, p.freq) <= p.rate \div 2
  /\ Apart(c.rate, p.rate) <= 500

Heard == {p \in sky : Finds(chip, p)}

(* The entry is given up.                                                  *)
Checked == tab' = [tab EXCEPT !.tp[scan.n].type = "Checked"] /\ scan' = NextEntry

(* Another carrier in the channel, or no result before the count is up:    *)
(* the second type is not tried.                                           *)
TrialGivenUp ==
  /\ scan.pc = "trial"
  /\ Faults \cap {"cci", "slow"} # {}
  /\ Checked
  /\ seen' = [seen EXCEPT !.smooth = FALSE]
  /\ UNCHANGED <<sky, chip, g>> /\ KeepCalls

(* The search is started again: after a strong echo, once; with the filter *)
(* of the tuner widened when the carrier is off by more than the symbol    *)
(* rate, once; and after the first failure of the timing recovery.         *)
TrialRestarted ==
  /\ scan.pc = "trial" /\ ~scan.cancel
  /\ \/ /\ g.current = "S2" /\ ~g.eq
        /\ chip' = Restarted(chip) /\ g' = [g EXCEPT !.eq = TRUE]
        /\ UNCHANGED <<scan, seen>>
     \/ /\ ~scan.wide /\ Heard # {}
        /\ chip' = Programmed(g.current, TRUE) /\ scan' = [scan EXCEPT !.wide = TRUE]
        /\ UNCHANGED <<g, seen>>
     \/ /\ "timing" \in Faults /\ scan.timing = 0
        /\ chip' = SoftReset(chip) /\ scan' = [scan EXCEPT !.timing = 1]
        /\ seen' = [seen EXCEPT !.smooth = FALSE] /\ UNCHANGED g
  /\ UNCHANGED <<sky, tab>> /\ KeepCalls

(* The timing recovery fails again -- or it failed once, whatever came of  *)
(* the second search.                                                      *)
TrialTimingFailed ==
  /\ scan.pc = "trial" /\ scan.timing = 1
  /\ Checked
  /\ UNCHANGED <<sky, seen, chip, g>> /\ KeepCalls

\* Mutant of TrialCarrierFailed: a carrier that is not locked as DVB-S is not tried as DVB-S2.
TrialCarrierFailedOnce ==
  /\ scan.pc = "trial" /\ ~scan.cancel
  /\ scan.timing = 0 /\ Heard = {}
  /\ Checked
  /\ UNCHANGED <<sky, seen, chip, g>> /\ KeepCalls

(* The carrier recovery fails: DVB-S2 is tried after DVB-S.                *)
TrialCarrierFailed ==
  /\ scan.pc = "trial" /\ ~scan.cancel
  /\ scan.timing = 0 /\ Heard = {}
  /\ IF g.current = "S"
     THEN Try("S2") /\ UNCHANGED tab
     ELSE Checked /\ UNCHANGED <<chip, g>>
  /\ UNCHANGED <<sky, seen>> /\ KeepCalls

(* An abort leaves the entry to wait, unless it was tried as both types.   *)
TrialCancelled ==
  /\ scan.pc = "trial" /\ scan.cancel
  /\ scan.timing = 0
  /\ IF g.current = "S2" THEN Checked ELSE scan' = NextEntry /\ UNCHANGED tab
  /\ UNCHANGED <<sky, seen, chip, g>> /\ KeepCalls

SameTransponder(e, p) ==
  e.type = p.type /\ Apart(e.rate, p.rate) < 50 /\ Apart(e.freq, p.freq) < e.rate \div 2

(* The lock tells the true values.  A transponder that was locked before   *)
(* is given up; a new one is reported.                                     *)
TrialLocked ==
  /\ scan.pc = "trial"
  /\ scan.timing = 0
  /\ \E p \in Heard :
       IF ~scan.cancel /\ \E i \in Used : SameTransponder(At(i), p)
       THEN Checked /\ UNCHANGED <<chip, seen>>
       ELSE /\ tab' = [tab EXCEPT !.locked = @ + 1, !.tp_num = tab.locked + 1,
                          !.tp[scan.n] = [freq |-> p.freq, rate |-> p.rate, type |-> p.type]]
            /\ chip' = SetClockRatio(chip, p)
            /\ seen' = [seen EXCEPT !.told = Append(@, p)]
            /\ scan' = NextEntry
  /\ UNCHANGED <<sky, g>> /\ KeepCalls

-----------------------------------------------------------------------------
Windows ==
  \/ StartPass \/ EndPass \/ ProcessScannedTP
  \/ WindowA \/ CloseA \/ SlideA \/ WindowB \/ CloseB \/ SlideB
  \/ DealOver \/ DealFiltered \/ DealKept
  \/ CompareLeft \/ CompareKnown \/ CompareNext \/ CompareCancelled

Trials ==
  \/ ConnectOver \/ ConnectSkip \/ ConnectEntry
  \/ TrialGivenUp \/ TrialRestarted \/ TrialTimingFailed \/ TrialCarrierFailed
  \/ TrialCancelled \/ TrialLocked

ScanNext == Abort \/ BlindScanStart \/ Windows \/ Trials \/ ScanFinish

ScanSpec == ScanInit /\ [][ScanNext]_<<vars, scanVars>>

(* The first scan: the caller's table is empty when it begins.             *)
FirstScanNext == Abort \/ (scan.pc = "idle" /\ BlindScanStart) \/ Windows \/ Trials \/ ScanFinish

FirstScanSpec == ScanInit /\ [][FirstScanNext]_<<vars, scanVars>>

(* When a scan is over that nobody aborted, the first tp_num entries of    *)
(* the table are the transponders that were reported, every one once, and  *)
(* no other entry in use is                                                *)
(* (remove_unlocked moves the entries that were tried in vain behind them; *)
(* the caller reads the table up to tp_num.)                               *)
TableHoldsTheLocked ==
  scan.pc = "done" /\ ~seen.aborted =>
    /\ tab.tp_num = Len(seen.told)
    /\ \A i \in 0..tab.tp_num - 1 : Locked(At(i))
    /\ {At(i) : i \in 0..tab.tp_num - 1} =
         {[freq |-> p.freq, rate |-> p.rate, type |-> p.type] : p \in {seen.told[i] : i \in DOMAIN seen.told}}
    /\ Cardinality({At(i) : i \in 0..tab.tp_num - 1}) = tab.tp_num
    /\ \A i \in Used : i >= tab.tp_num => ~Locked(At(i))

(* A transponder whose candidate passed the filters of some pass is        *)
(* reported by the end of the scan, when no trial went wrong and nobody    *)
(* aborted: no other entry hides it, and it is tried as the type it has.   *)
EverySignalIsFound ==
  scan.pc = "done" /\ seen.smooth /\ ~seen.aborted /\ tab.cnt <= MaxNum =>
    \A p \in {p \in seen.shown : p.type \in Types} : \E i \in DOMAIN seen.told : seen.told[i] = p
=============================================================================
