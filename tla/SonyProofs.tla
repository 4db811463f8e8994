----------------------------- MODULE SonyProofs -----------------------------
(***************************************************************************)
(* Proofs about two parts of the Sony driver.                              *)
(*                                                                         *)
(* LongEcho, for every interval of polling: the trials end before the      *)
(* sanity check of the loop, and the settings they try are undone.         *)
(*                                                                         *)
(* Monitor, for every number of threads, of values of a filtered MER and   *)
(* of turns of a loop: every script reads and writes in the bank it has    *)
(* selected, reads values under the lock it has tested and unfreezes what  *)
(* it froze, on every way through it; the scripts of two threads do not    *)
(* disturb each other.                                                     *)
(***************************************************************************)
EXTENDS LongEcho, Monitor, SequenceTheorems, TLAPS

(***************************************************************************)
(* The acquisition with long echoes.                                       *)
(***************************************************************************)
Regs == [crl : 0..1, ofst : 0..2, syr : {3, 7}, alpha : {0, 3}]
Senses == {"NORMAL", "INV"}
SeqRecords ==
  [state : SeqStates, waitTime : Nat, total : Nat, auto : BOOLEAN,
   crlOpenTrial : BOOLEAN, pOfst : BOOLEAN, mOfst : BOOLEAN, noOfst : BOOLEAN,
   spectTrial : BOOLEAN, unlockDetDone : BOOLEAN, first : Senses]

-----------------------------------------------------------------------------
(* The registers.                                                          *)

LEMMA DefaultsType == Defaults \in Regs
  BY DEF Defaults, Regs

LEMMA AfterTrialType ==
  ASSUME NEW o \in 0..2 PROVE AfterTrial(o) \in Regs
  BY DEF AfterTrial, Regs

\* Some of the writes of a script leave registers that are well formed.
LEMMA AfterWritesType ==
  ASSUME reg \in Regs, NEW new \in Regs, NEW order, NEW k
  PROVE  AfterWrites(order, new, k) \in Regs
  BY DEF AfterWrites, Regs

-----------------------------------------------------------------------------
(* The loop.                                                               *)

LEMMA IdleType == Idle \in SeqRecords
  BY DEF Idle, SeqRecords, SeqStates, Senses

\* How long an acquisition that has tried what s says may have taken before the
\* attempt it is in; a CRL trial and a flip that are not yet followed by an
\* attempt count with it.
N(b) == IF b THEN 1 ELSE 0
Spent(s) ==
  P1Wait * (N(s.crlOpenTrial) + 2 * N(s.spectTrial) + N(s.unlockDetDone))
    + WaitLock * (N(s.pOfst) + N(s.mOfst) + N(s.noOfst))

TimeOf(s) ==
  /\ s.state \in {"idle", "INIT"} => s.total = 0
  /\ s.state = "START" => s.total <= Spent(s)
  /\ s.state = "WAIT_P1" => s.total <= Spent(s) + s.waitTime /\ s.waitTime <= WaitLock
  /\ s.state = "WAIT_LOCK" =>
       s.total <= Spent(s) + s.waitTime /\ s.waitTime <= WaitLock + PollInterval
  /\ s.state = "TIMING_TRIAL" => s.total <= Spent(s) + s.waitTime /\ s.waitTime <= WaitLock
  /\ s.state = "CRL_OPEN_TRIAL" => s.total <= Spent(s) + P1Wait
  /\ s.state = "SPECTRUM_TRIAL" => s.total <= Spent(s) + 2 * P1Wait

\* No acquisition takes longer than 23 s.
LEMMA TimeBound ==
  ASSUME NEW s \in SeqRecords, TimeOf(s)
  PROVE  s.total <= 23000
<1>1. /\ N(s.crlOpenTrial) \in 0..1 /\ N(s.spectTrial) \in 0..1
      /\ N(s.unlockDetDone) \in 0..1 /\ N(s.pOfst) \in 0..1
      /\ N(s.mOfst) \in 0..1 /\ N(s.noOfst) \in 0..1
  BY DEF N
<1>2. Spent(s) \in Nat /\ Spent(s) <= 16200
  BY <1>1 DEF Spent, P1Wait, WaitLock
<1>3. s.total \in Nat /\ s.waitTime \in Nat /\ s.state \in SeqStates
  BY DEF SeqRecords
<1>4. PollInterval \in Nat /\ PollInterval <= 300
  BY PollAssumption
<1> QED
  BY <1>2, <1>3, <1>4 DEF TimeOf, SeqStates, P1Wait, WaitLock

\* What a turn that continues with s leaves.
LEMMA Continues ==
  ASSUME NEW s \in SeqRecords, TimeOf(s), s.state # "idle", Continue(s)
  PROVE  \/ seq' = s /\ ended' = ended
         \/ seq' = Idle /\ ended' = "CANCEL"
<1>1. s.total <= Sanity
  BY TimeBound DEF Sanity, SeqRecords
<1>2. s.total \in Nat
  BY DEF SeqRecords
<1> QED
  BY <1>1, <1>2 DEF Continue, End, Sanity

-----------------------------------------------------------------------------
(* What the sequence keeps, turn by turn.                                  *)

\* The flip of the sense is undone or remembered.
Flips(s, sn) ==
  s.state # "idle" =>
    /\ sn = IF s.spectTrial THEN Flipped(s.first) ELSE s.first
    /\ s.spectTrial => s.auto
Good(s, sn) == s \in SeqRecords /\ TimeOf(s) /\ Flips(s, sn)

LEMMA IdleGood == \A sn : Good(Idle, sn)
  BY IdleType DEF Good, Idle, TimeOf, Flips

\* The turn goes on, or ends with a result of R.
Ends(R) == IF seq'.state = "idle" THEN ended' \in R ELSE ended' = ended

\* A turn keeps the invariant when the record it continues with does.
LEMMA ContinuesGood ==
  ASSUME NEW s, Good(s, sense'), s.state # "idle", Continue(s)
  PROVE  Good(seq', sense') /\ Ends({"CANCEL"})
<1>1. s \in SeqRecords /\ TimeOf(s)
  BY DEF Good
<1>2. \/ seq' = s /\ ended' = ended
      \/ seq' = Idle /\ ended' = "CANCEL"
  BY <1>1, Continues
<1>3. CASE seq' = s /\ ended' = ended
  BY <1>3 DEF Ends
<1>4. CASE seq' = Idle /\ ended' = "CANCEL"
  BY <1>4, IdleGood DEF Ends, Idle
<1> QED
  BY <1>2, <1>3, <1>4

LEMMA EndGood ==
  ASSUME NEW r, End(r)
  PROVE  Good(seq', sense') /\ Ends({r, "CANCEL"})
  BY IdleGood DEF End, Ends, Idle

LEMMA InitKeeps ==
  ASSUME Good(seq, sense), t2_le_SeqInit
  PROVE  Good(seq', sense') /\ Ends({"CANCEL", "I2C"})
<1> DEFINE s == [seq EXCEPT !.state = "START"]
<1>1. seq \in SeqRecords /\ seq.state = "INIT" /\ sense' = sense /\ PollInterval \in Nat
  BY PollAssumption DEF Good, t2_le_SeqInit, InState
<1>2. s \in SeqRecords /\ s.state = "START"
  BY <1>1 DEF SeqRecords, SeqStates
<1>3. TimeOf(s) /\ Flips(s, sense')
  BY <1>1, <1>2 DEF Good, TimeOf, Flips, SeqRecords, Spent, N, P1Wait, WaitLock
<1>4. CASE Continue(s)
  BY <1>2, <1>3, <1>4, ContinuesGood DEF Good, Ends
<1>5. CASE End("I2C")
  BY <1>5, EndGood DEF Ends
<1> QED
  BY <1>4, <1>5 DEF t2_le_SeqInit, FailsIn

LEMMA StartKeeps ==
  ASSUME Good(seq, sense), t2_le_SeqStart
  PROVE  Good(seq', sense') /\ Ends({"CANCEL", "I2C", "SW_STATE"})
<1> DEFINE s == [seq EXCEPT !.state = "WAIT_P1", !.waitTime = 0]
<1>1. seq \in SeqRecords /\ seq.state = "START" /\ sense' = sense /\ PollInterval \in Nat
  BY PollAssumption DEF Good, t2_le_SeqStart, InState
<1>2. s \in SeqRecords /\ s.state = "WAIT_P1" /\ s.waitTime = 0 /\ s.total = seq.total
      /\ Spent(s) = Spent(seq)
  BY <1>1 DEF SeqRecords, SeqStates, Spent
<1>3. TimeOf(s) /\ Flips(s, sense')
  <2>1. Spent(s) \in Nat
    BY <1>2 DEF Spent, N, P1Wait, WaitLock, SeqRecords
  <2> QED
    BY <1>1, <1>2, <2>1 DEF Good, TimeOf, Flips, SeqRecords, P1Wait, WaitLock
<1>4. CASE Continue(s)
  BY <1>2, <1>3, <1>4, ContinuesGood DEF Good, Ends
<1>5. CASE End("I2C") \/ End("SW_STATE")
  BY <1>5, EndGood DEF Ends
<1> QED
  BY <1>4, <1>5 DEF t2_le_SeqStart

\* The records a wait for P1 continues with.
LEMMA SpentType ==
  ASSUME NEW s \in SeqRecords PROVE Spent(s) \in Nat
  BY DEF Spent, N, P1Wait, WaitLock, SeqRecords

LEMMA SleptGood ==
  ASSUME Good(seq, sense), seq.state = "WAIT_P1"
  PROVE  LET lock == [Slept EXCEPT !.state = "WAIT_LOCK"]
             again == [Slept EXCEPT !.state = "START", !.unlockDetDone = TRUE]
             crl == [Slept EXCEPT !.state = "CRL_OPEN_TRIAL"]
         IN  /\ Good(lock, sense) /\ lock.state # "idle"
             /\ Slept.waitTime = P1Wait /\ ~seq.unlockDetDone =>
                  Good(again, sense) /\ again.state # "idle"
             /\ Slept.waitTime = P1Wait => Good(crl, sense) /\ crl.state # "idle"
<1> DEFINE lock == [Slept EXCEPT !.state = "WAIT_LOCK"]
           again == [Slept EXCEPT !.state = "START", !.unlockDetDone = TRUE]
           crl == [Slept EXCEPT !.state = "CRL_OPEN_TRIAL"]
<1>1. seq \in SeqRecords /\ PollInterval \in Nat /\ PollInterval <= 300 /\ Spent(seq) \in Nat
      /\ seq.total \in Nat /\ seq.waitTime \in Nat
      /\ seq.total <= Spent(seq) + seq.waitTime /\ seq.waitTime <= WaitLock
  BY PollAssumption, SpentType DEF Good, TimeOf, SeqRecords
<1>2. /\ Slept \in SeqRecords
      /\ Slept.waitTime = seq.waitTime + PollInterval /\ Slept.total = seq.total + PollInterval
      /\ Slept.spectTrial = seq.spectTrial /\ Slept.first = seq.first /\ Slept.auto = seq.auto
      /\ Slept.unlockDetDone = seq.unlockDetDone
      /\ Slept.state = seq.state
      /\ Spent(Slept) = Spent(seq)
  <2>1. Slept \in SeqRecords
    <3>1. seq.waitTime + PollInterval \in Nat /\ seq.total + PollInterval \in Nat
      BY <1>1
    <3> QED
      BY <1>1, <3>1, Zenon DEF Slept, SeqRecords
  <2>2. /\ Slept.waitTime = seq.waitTime + PollInterval /\ Slept.total = seq.total + PollInterval
        /\ Slept.spectTrial = seq.spectTrial /\ Slept.first = seq.first /\ Slept.auto = seq.auto
        /\ Slept.unlockDetDone = seq.unlockDetDone /\ Slept.state = seq.state
        /\ Slept.crlOpenTrial = seq.crlOpenTrial /\ Slept.pOfst = seq.pOfst
        /\ Slept.mOfst = seq.mOfst /\ Slept.noOfst = seq.noOfst
    BY <1>1 DEF Slept, SeqRecords
  <2> QED
    BY <2>1, <2>2 DEF Spent
<1> HIDE DEF lock, again, crl
<1>3. /\ lock \in SeqRecords /\ lock.state = "WAIT_LOCK" /\ lock.waitTime = Slept.waitTime
      /\ lock.total = Slept.total /\ Spent(lock) = Spent(Slept)
      /\ lock.spectTrial = Slept.spectTrial /\ lock.first = Slept.first /\ lock.auto = Slept.auto
  BY <1>2 DEF lock, SeqRecords, SeqStates, Spent
<1>4. /\ again \in SeqRecords /\ again.state = "START" /\ again.total = Slept.total
      /\ again.spectTrial = Slept.spectTrial /\ again.first = Slept.first /\ again.auto = Slept.auto
      /\ ~Slept.unlockDetDone => Spent(again) = Spent(Slept) + P1Wait
  <2>1. again \in SeqRecords
    BY <1>2 DEF again, SeqRecords, SeqStates
  <2>2. /\ again.state = "START" /\ again.total = Slept.total
        /\ again.spectTrial = Slept.spectTrial /\ again.first = Slept.first /\ again.auto = Slept.auto
        /\ again.unlockDetDone /\ again.crlOpenTrial = Slept.crlOpenTrial
        /\ again.pOfst = Slept.pOfst /\ again.mOfst = Slept.mOfst
        /\ again.noOfst = Slept.noOfst
    BY <1>2 DEF again, SeqRecords
  <2>3. ~Slept.unlockDetDone => Spent(again) = Spent(Slept) + P1Wait
    BY <2>2 DEF Spent, N, P1Wait, WaitLock
  <2> QED
    BY <2>1, <2>2, <2>3
<1>5. /\ crl \in SeqRecords /\ crl.state = "CRL_OPEN_TRIAL"
      /\ crl.total = Slept.total /\ Spent(crl) = Spent(Slept)
      /\ crl.spectTrial = Slept.spectTrial /\ crl.first = Slept.first /\ crl.auto = Slept.auto
  BY <1>2 DEF crl, SeqRecords, SeqStates, Spent
<1>6. Flips(lock, sense) /\ Flips(again, sense) /\ Flips(crl, sense)
  BY <1>2, <1>3, <1>4, <1>5 DEF Good, Flips
<1>7. TimeOf(lock)
  BY <1>1, <1>2, <1>3 DEF TimeOf, P1Wait, WaitLock
<1>8. Slept.waitTime = P1Wait /\ ~seq.unlockDetDone => TimeOf(again)
  BY <1>1, <1>2, <1>4 DEF TimeOf, P1Wait, WaitLock
<1>9. Slept.waitTime = P1Wait => TimeOf(crl)
  BY <1>1, <1>2, <1>5 DEF TimeOf, P1Wait, WaitLock
<1> QED
  BY <1>3, <1>4, <1>5, <1>6, <1>7, <1>8, <1>9 DEF Good, lock, again, crl

LEMMA WaitP1Keeps ==
  ASSUME Good(seq, sense), t2_le_SeqWaitP1
  PROVE  Good(seq', sense') /\ Ends({"CANCEL", "I2C", "SW_STATE", "UNLOCK"})
<1> DEFINE lock == [Slept EXCEPT !.state = "WAIT_LOCK"]
           again == [Slept EXCEPT !.state = "START", !.unlockDetDone = TRUE]
           crl == [Slept EXCEPT !.state = "CRL_OPEN_TRIAL"]
<1>1. seq.state = "WAIT_P1" /\ sense' = sense
  BY DEF t2_le_SeqWaitP1, InState
<1>2. /\ Good(lock, sense') /\ lock.state # "idle"
      /\ Slept.waitTime = P1Wait /\ ~seq.unlockDetDone =>
           Good(again, sense') /\ again.state # "idle"
      /\ Slept.waitTime = P1Wait => Good(crl, sense') /\ crl.state # "idle"
  BY <1>1, SleptGood
<1>3. \/ End("UNLOCK") \/ End("I2C") \/ End("SW_STATE")
      \/ Continue(lock)
      \/ Slept.waitTime = P1Wait /\ ~seq.unlockDetDone /\ Continue(again)
      \/ Slept.waitTime = P1Wait /\ Continue(crl)
  BY DEF t2_le_SeqWaitP1, FirstP1, T2P1, FailsReading
<1> HIDE DEF lock, again, crl
<1>4. CASE End("UNLOCK") \/ End("I2C") \/ End("SW_STATE")
  BY <1>4, EndGood DEF Ends
<1>5. CASE Continue(lock)
  BY <1>2, <1>5, ContinuesGood DEF Ends
<1>6. CASE Slept.waitTime = P1Wait /\ ~seq.unlockDetDone /\ Continue(again)
  BY <1>2, <1>6, ContinuesGood DEF Ends
<1>7. CASE Slept.waitTime = P1Wait /\ Continue(crl)
  BY <1>2, <1>7, ContinuesGood DEF Ends
<1> QED
  BY <1>3, <1>4, <1>5, <1>6, <1>7

\* A record of which only the state changes.
LEMMA Moved ==
  ASSUME Good(seq, sense), NEW st \in SeqStates
  PROVE  LET s == [seq EXCEPT !.state = st]
         IN  /\ s \in SeqRecords /\ s.state = st /\ Spent(s) = Spent(seq)
             /\ s.total = seq.total /\ s.waitTime = seq.waitTime
             /\ s.spectTrial = seq.spectTrial /\ s.first = seq.first /\ s.auto = seq.auto
<1>1. seq \in SeqRecords
  BY DEF Good
<1> QED
  BY <1>1 DEF SeqRecords, Spent

LEMMA WaitDmdLockKeeps ==
  ASSUME Good(seq, sense), t2_le_SeqWaitDmdLock
  PROVE  /\ Good(seq', sense') /\ Ends({"CANCEL", "I2C", "SW_STATE", "OK", "TIMEOUT"})
         /\ seq'.state = "idle" /\ ended' = "TIMEOUT" => TimedOut
<1> DEFINE trial == [seq EXCEPT !.state = "TIMING_TRIAL"]
           wait == [seq EXCEPT !.state = "WAIT_P1"]
<1>1. seq \in SeqRecords /\ seq.state = "WAIT_LOCK" /\ sense' = sense
  BY DEF Good, t2_le_SeqWaitDmdLock, InState
<1>2. \/ End("OK") \/ End("I2C") \/ End("SW_STATE")
      \/ TimedOut /\ End("TIMEOUT")
      \/ ~TimedOut /\ Continue(trial)
      \/ ~TimedOut /\ Continue(wait)
  BY DEF t2_le_SeqWaitDmdLock, Locked, FailsReading
<1>3. CASE End("OK") \/ End("I2C") \/ End("SW_STATE")
  BY <1>3, EndGood DEF Ends, Results
<1>4. CASE TimedOut /\ End("TIMEOUT")
  BY <1>4, EndGood DEF Ends, Results
<1>5. ~TimedOut => seq.waitTime <= WaitLock
  BY <1>1 DEF TimedOut, SeqRecords, WaitLock, NoOfstWait
<1>6. ~TimedOut => Good(trial, sense') /\ trial.state # "idle"
  <2>1. /\ trial \in SeqRecords /\ trial.state = "TIMING_TRIAL" /\ Spent(trial) = Spent(seq)
        /\ trial.total = seq.total /\ trial.waitTime = seq.waitTime
        /\ trial.spectTrial = seq.spectTrial /\ trial.first = seq.first /\ trial.auto = seq.auto
    BY Moved DEF SeqStates
  <2> HIDE DEF trial
  <2> QED
    BY <1>1, <1>5, <2>1 DEF Good, TimeOf, Flips
<1>7. ~TimedOut => Good(wait, sense') /\ wait.state # "idle"
  <2>1. /\ wait \in SeqRecords /\ wait.state = "WAIT_P1" /\ Spent(wait) = Spent(seq)
        /\ wait.total = seq.total /\ wait.waitTime = seq.waitTime
        /\ wait.spectTrial = seq.spectTrial /\ wait.first = seq.first /\ wait.auto = seq.auto
    BY Moved DEF SeqStates
  <2> HIDE DEF wait
  <2> QED
    BY <1>1, <1>5, <2>1 DEF Good, TimeOf, Flips
<1> HIDE DEF trial, wait
<1>8. CASE ~TimedOut /\ Continue(trial)
  BY <1>6, <1>8, ContinuesGood DEF Ends, Results
<1>9. CASE ~TimedOut /\ Continue(wait)
  BY <1>7, <1>9, ContinuesGood DEF Ends, Results
<1> QED
  BY <1>2, <1>3, <1>4, <1>8, <1>9

\* One more trial lets the next attempt start with its time accounted for.
LEMMA TrialGood ==
  ASSUME Good(seq, sense), sense' = sense, seq.state = "TIMING_TRIAL",
         NEW s0 \in SeqRecords, s0.state = seq.state, s0.total = seq.total,
         s0.spectTrial = seq.spectTrial, s0.first = seq.first /\ s0.auto = seq.auto,
         s0.crlOpenTrial = seq.crlOpenTrial, s0.unlockDetDone = seq.unlockDetDone,
         N(s0.pOfst) + N(s0.mOfst) + N(s0.noOfst) =
           N(seq.pOfst) + N(seq.mOfst) + N(seq.noOfst) + 1,
         NEW new, Trial(new, s0)
  PROVE  Good(seq', sense') /\ Ends({"CANCEL", "I2C"})
<1> DEFINE s == [s0 EXCEPT !.state = "START", !.unlockDetDone = TRUE]
<1>1. seq \in SeqRecords /\ seq.total <= Spent(seq) + WaitLock
      /\ Spent(seq) \in Nat /\ seq.total \in Nat
  BY SpentType DEF Good, TimeOf, SeqRecords, WaitLock
<1>2. s \in SeqRecords
  BY DEF SeqRecords, SeqStates
<1>3. /\ s.state = "START" /\ s.total = seq.total /\ s.unlockDetDone = TRUE
      /\ s.crlOpenTrial = seq.crlOpenTrial
      /\ s.spectTrial = seq.spectTrial /\ s.first = seq.first /\ s.auto = seq.auto
      /\ s.pOfst = s0.pOfst /\ s.mOfst = s0.mOfst /\ s.noOfst = s0.noOfst
  BY DEF SeqRecords
<1> HIDE DEF s
<1>4. Spent(s) >= Spent(seq) + WaitLock
  <2>1. N(s.pOfst) + N(s.mOfst) + N(s.noOfst) =
          N(seq.pOfst) + N(seq.mOfst) + N(seq.noOfst) + 1
    BY <1>3
  <2>2. N(s.crlOpenTrial) = N(seq.crlOpenTrial) /\ N(s.spectTrial) = N(seq.spectTrial)
    BY <1>3
  <2>3. N(s.unlockDetDone) = 1 /\ N(seq.unlockDetDone) \in 0..1
    BY <1>3 DEF N
  <2>4. \A b : N(b) \in 0..1
    BY DEF N
  <2> DEFINE k == N(seq.pOfst) + N(seq.mOfst) + N(seq.noOfst)
             c == N(seq.crlOpenTrial)  f == N(seq.spectTrial)  u == N(seq.unlockDetDone)
  <2>5. k \in Nat /\ c \in Nat /\ f \in Nat /\ u \in 0..1
    BY <2>4
  <2>6. Spent(seq) = 300 * (c + 2 * f + u) + 5000 * k
    BY DEF Spent, P1Wait, WaitLock
  <2>7. Spent(s) = 300 * (c + 2 * f + 1) + 5000 * (k + 1)
    BY <2>1, <2>2, <2>3 DEF Spent, P1Wait, WaitLock
  <2> HIDE DEF k, c, f, u
  <2> QED
    BY <2>5, <2>6, <2>7 DEF WaitLock
<1>5. Good(s, sense') /\ s.state # "idle"
  <2>1. s.total <= Spent(s)
    BY <1>1, <1>2, <1>3, <1>4, SpentType DEF WaitLock
  <2> QED
    BY <1>2, <1>3, <2>1 DEF Good, TimeOf, Flips
<1>6. Continue(s) \/ End("I2C")
  BY DEF Trial, FailsIn, s
<1>7. CASE Continue(s)
  BY <1>5, <1>7, ContinuesGood DEF Ends
<1>8. CASE End("I2C")
  BY <1>8, EndGood DEF Ends
<1> QED
  BY <1>6, <1>7, <1>8

LEMMA TimingTrialKeeps ==
  ASSUME Good(seq, sense), t2_le_SeqTimingTrial
  PROVE  Good(seq', sense') /\ Ends({"CANCEL", "I2C", "SW_STATE"})
<1>1. seq \in SeqRecords /\ seq.state = "TIMING_TRIAL" /\ sense' = sense
  BY DEF Good, t2_le_SeqTimingTrial, InState
<1>3. CASE ~seq.pOfst /\ Trial(AfterTrial(1), [seq EXCEPT !.pOfst = TRUE])
  <2> DEFINE s == [seq EXCEPT !.pOfst = TRUE]
  <2>1. s \in SeqRecords
    BY <1>1 DEF SeqRecords
  <2>2. /\ s.state = seq.state /\ s.total = seq.total /\ s.spectTrial = seq.spectTrial
        /\ s.first = seq.first /\ s.auto = seq.auto /\ s.crlOpenTrial = seq.crlOpenTrial
        /\ s.unlockDetDone = seq.unlockDetDone
        /\ s.pOfst = TRUE /\ s.mOfst = seq.mOfst /\ s.noOfst = seq.noOfst
    BY <1>1 DEF SeqRecords
  <2>3. seq.pOfst = FALSE
    BY <1>1, <1>3 DEF SeqRecords
  <2> HIDE DEF s
  <2>4. N(s.pOfst) + N(s.mOfst) + N(s.noOfst) = N(seq.pOfst) + N(seq.mOfst) + N(seq.noOfst) + 1
    <3>1. N(s.pOfst) = 1 /\ N(seq.pOfst) = 0
      BY <2>2, <2>3 DEF N
    <3>2. N(s.mOfst) = N(seq.mOfst) /\ N(s.noOfst) = N(seq.noOfst)
      BY <2>2
    <3>3. N(seq.mOfst) \in Nat /\ N(seq.noOfst) \in Nat
      BY DEF N
    <3> QED
      BY <3>1, <3>2, <3>3
  <2>5. Trial(AfterTrial(1), s)
    BY <1>3 DEF s
  <2> QED
    BY <1>1, <2>1, <2>2, <2>4, <2>5, TrialGood DEF Ends
<1>4. CASE seq.pOfst /\ ~seq.mOfst /\ Trial(AfterTrial(2), [seq EXCEPT !.mOfst = TRUE])
  <2> DEFINE s == [seq EXCEPT !.mOfst = TRUE]
  <2>1. s \in SeqRecords
    BY <1>1 DEF SeqRecords
  <2>2. /\ s.state = seq.state /\ s.total = seq.total /\ s.spectTrial = seq.spectTrial
        /\ s.first = seq.first /\ s.auto = seq.auto /\ s.crlOpenTrial = seq.crlOpenTrial
        /\ s.unlockDetDone = seq.unlockDetDone
        /\ s.mOfst = TRUE /\ s.pOfst = seq.pOfst /\ s.noOfst = seq.noOfst
    BY <1>1 DEF SeqRecords
  <2>3. seq.mOfst = FALSE
    BY <1>1, <1>4 DEF SeqRecords
  <2> HIDE DEF s
  <2>4. N(s.pOfst) + N(s.mOfst) + N(s.noOfst) = N(seq.pOfst) + N(seq.mOfst) + N(seq.noOfst) + 1
    <3>1. N(s.mOfst) = 1 /\ N(seq.mOfst) = 0
      BY <2>2, <2>3 DEF N
    <3>2. N(s.pOfst) = N(seq.pOfst) /\ N(s.noOfst) = N(seq.noOfst)
      BY <2>2
    <3>3. N(seq.pOfst) \in Nat /\ N(seq.noOfst) \in Nat
      BY DEF N
    <3> QED
      BY <3>1, <3>2, <3>3
  <2>5. Trial(AfterTrial(2), s)
    BY <1>4 DEF s
  <2> QED
    BY <1>1, <2>1, <2>2, <2>4, <2>5, TrialGood DEF Ends
<1>5. CASE seq.pOfst /\ seq.mOfst /\ ~seq.noOfst /\ Trial(Defaults, [seq EXCEPT !.noOfst = TRUE])
  <2> DEFINE s == [seq EXCEPT !.noOfst = TRUE]
  <2>1. s \in SeqRecords
    BY <1>1 DEF SeqRecords
  <2>2. /\ s.state = seq.state /\ s.total = seq.total /\ s.spectTrial = seq.spectTrial
        /\ s.first = seq.first /\ s.auto = seq.auto /\ s.crlOpenTrial = seq.crlOpenTrial
        /\ s.unlockDetDone = seq.unlockDetDone
        /\ s.noOfst = TRUE /\ s.pOfst = seq.pOfst /\ s.mOfst = seq.mOfst
    BY <1>1 DEF SeqRecords
  <2>3. seq.noOfst = FALSE
    BY <1>1, <1>5 DEF SeqRecords
  <2> HIDE DEF s
  <2>4. N(s.pOfst) + N(s.mOfst) + N(s.noOfst) = N(seq.pOfst) + N(seq.mOfst) + N(seq.noOfst) + 1
    <3>1. N(s.noOfst) = 1 /\ N(seq.noOfst) = 0
      BY <2>2, <2>3 DEF N
    <3>2. N(s.pOfst) = N(seq.pOfst) /\ N(s.mOfst) = N(seq.mOfst)
      BY <2>2
    <3>3. N(seq.pOfst) \in Nat /\ N(seq.mOfst) \in Nat
      BY DEF N
    <3> QED
      BY <3>1, <3>2, <3>3
  <2>5. Trial(Defaults, s)
    BY <1>5 DEF s
  <2> QED
    BY <1>1, <2>1, <2>2, <2>4, <2>5, TrialGood DEF Ends
<1>6. CASE Continue([seq EXCEPT !.state = "WAIT_P1"])
  <2> DEFINE s == [seq EXCEPT !.state = "WAIT_P1"]
  <2>1. /\ s \in SeqRecords /\ s.state = "WAIT_P1" /\ Spent(s) = Spent(seq)
        /\ s.total = seq.total /\ s.waitTime = seq.waitTime
        /\ s.spectTrial = seq.spectTrial /\ s.first = seq.first /\ s.auto = seq.auto
    BY Moved DEF SeqStates
  <2>2. Continue(s)
    BY <1>6
  <2> HIDE DEF s
  <2>3. Good(s, sense')
    BY <1>1, <2>1 DEF Good, TimeOf, Flips
  <2> QED
    BY <2>1, <2>2, <2>3, ContinuesGood DEF Ends
<1>7. CASE End("SW_STATE")
  BY <1>7, EndGood DEF Ends
<1> QED
  BY <1>3, <1>4, <1>5, <1>6, <1>7 DEF t2_le_SeqTimingTrial

LEMMA CrlOpenTrialKeeps ==
  ASSUME Good(seq, sense), t2_le_SeqCrlOpenTrial
  PROVE  Good(seq', sense') /\ Ends({"CANCEL", "I2C", "SW_STATE"})
<1>1. seq \in SeqRecords /\ seq.state = "CRL_OPEN_TRIAL" /\ sense' = sense
      /\ seq.total <= Spent(seq) + P1Wait /\ seq.total \in Nat /\ Spent(seq) \in Nat
  BY SpentType DEF Good, TimeOf, t2_le_SeqCrlOpenTrial, InState, SeqRecords
<1>2. CASE seq.crlOpenTrial
           /\ Continue([seq EXCEPT !.crlOpenTrial = FALSE, !.state = "SPECTRUM_TRIAL"])
  <2> DEFINE s == [seq EXCEPT !.crlOpenTrial = FALSE, !.state = "SPECTRUM_TRIAL"]
  <2>1. s \in SeqRecords
    BY <1>1 DEF SeqRecords, SeqStates
  <2>2. /\ s.state = "SPECTRUM_TRIAL" /\ s.total = seq.total /\ s.crlOpenTrial = FALSE
        /\ s.spectTrial = seq.spectTrial /\ s.first = seq.first /\ s.auto = seq.auto
        /\ s.unlockDetDone = seq.unlockDetDone
        /\ s.pOfst = seq.pOfst /\ s.mOfst = seq.mOfst /\ s.noOfst = seq.noOfst
    BY <1>1 DEF SeqRecords
  <2>3. Continue(s)
    BY <1>2
  <2> HIDE DEF s
  <2>4. Spent(s) + P1Wait = Spent(seq)
    BY <1>2, <2>2 DEF Spent, N, P1Wait, WaitLock
  <2>5. Spent(s) \in Nat
    BY <2>1, SpentType
  <2>6. Good(s, sense')
    BY <1>1, <2>1, <2>2, <2>4, <2>5 DEF Good, TimeOf, Flips, P1Wait
  <2> QED
    BY <2>2, <2>3, <2>6, ContinuesGood DEF Ends
<1>3. CASE Continue([seq EXCEPT !.state = "SPECTRUM_TRIAL"])
  <2> DEFINE s == [seq EXCEPT !.state = "SPECTRUM_TRIAL"]
  <2>1. /\ s \in SeqRecords /\ s.state = "SPECTRUM_TRIAL" /\ Spent(s) = Spent(seq)
        /\ s.total = seq.total /\ s.waitTime = seq.waitTime
        /\ s.spectTrial = seq.spectTrial /\ s.first = seq.first /\ s.auto = seq.auto
    BY Moved DEF SeqStates
  <2>2. Continue(s)
    BY <1>3
  <2> HIDE DEF s
  <2>3. Good(s, sense')
    BY <1>1, <2>1 DEF Good, TimeOf, Flips, P1Wait
  <2> QED
    BY <2>1, <2>2, <2>3, ContinuesGood DEF Ends
<1>4. CASE ~seq.crlOpenTrial
           /\ Continue([seq EXCEPT !.crlOpenTrial = TRUE, !.state = "START"])
  <2> DEFINE s == [seq EXCEPT !.crlOpenTrial = TRUE, !.state = "START"]
  <2>1. s \in SeqRecords
    BY <1>1 DEF SeqRecords, SeqStates
  <2>2. /\ s.state = "START" /\ s.total = seq.total /\ s.crlOpenTrial = TRUE
        /\ s.spectTrial = seq.spectTrial /\ s.first = seq.first /\ s.auto = seq.auto
        /\ s.unlockDetDone = seq.unlockDetDone
        /\ s.pOfst = seq.pOfst /\ s.mOfst = seq.mOfst /\ s.noOfst = seq.noOfst
    BY <1>1 DEF SeqRecords
  <2>3. Continue(s)
    BY <1>4
  <2> HIDE DEF s
  <2>4. Spent(s) = Spent(seq) + P1Wait
    BY <1>4, <2>2 DEF Spent, N, P1Wait, WaitLock
  <2>5. Good(s, sense')
    BY <1>1, <2>1, <2>2, <2>4 DEF Good, TimeOf, Flips, P1Wait
  <2> QED
    BY <2>2, <2>3, <2>5, ContinuesGood DEF Ends
<1>5. CASE End("I2C") \/ End("SW_STATE")
  BY <1>5, EndGood DEF Ends
<1> QED
  BY <1>2, <1>3, <1>4, <1>5 DEF t2_le_SeqCrlOpenTrial, FailsReading

LEMMA FlippedTwice ==
  ASSUME NEW s \in Senses PROVE Flipped(s) \in Senses /\ Flipped(Flipped(s)) = s
  BY DEF Flipped, Senses

LEMMA SpectrumTrialKeeps ==
  ASSUME Good(seq, sense), t2_le_SeqSpectrumTrial
  PROVE  /\ Good(seq', sense') /\ Ends({"CANCEL", "I2C", "SW_STATE", "UNLOCK"})
         /\ ended # "UNLOCK" /\ ended' = "UNLOCK" => sense' = seq.first
<1>1. seq \in SeqRecords /\ seq.state = "SPECTRUM_TRIAL"
      /\ seq.total <= Spent(seq) + 2 * P1Wait /\ seq.total \in Nat /\ Spent(seq) \in Nat
      /\ seq.first \in Senses
  BY SpentType DEF Good, TimeOf, t2_le_SeqSpectrumTrial, InState, SeqRecords
<1>2. /\ sense = IF seq.spectTrial THEN Flipped(seq.first) ELSE seq.first
      /\ seq.spectTrial => seq.auto
  BY <1>1 DEF Good, Flips
<1>3. CASE ~seq.auto /\ sense' = sense /\ End("UNLOCK")
  BY <1>2, <1>3, EndGood DEF Ends
<1>4. CASE GiveUp
  BY <1>1, <1>2, <1>4, EndGood, FlippedTwice DEF Ends, GiveUp
<1>5. CASE sense' = sense /\ (End("I2C") \/ End("SW_STATE"))
  BY <1>5, EndGood DEF Ends
<1>6. CASE seq.auto /\ ~seq.spectTrial /\ sense' = Flipped(sense)
           /\ Continue([seq EXCEPT !.spectTrial = TRUE, !.state = "START"])
  <2> DEFINE s == [seq EXCEPT !.spectTrial = TRUE, !.state = "START"]
  <2>1. s \in SeqRecords
    BY <1>1 DEF SeqRecords, SeqStates
  <2>2. /\ s.state = "START" /\ s.total = seq.total /\ s.crlOpenTrial = seq.crlOpenTrial
        /\ s.spectTrial = TRUE /\ s.first = seq.first /\ s.auto = seq.auto
        /\ s.unlockDetDone = seq.unlockDetDone
        /\ s.pOfst = seq.pOfst /\ s.mOfst = seq.mOfst /\ s.noOfst = seq.noOfst
    BY <1>1 DEF SeqRecords
  <2>3. Continue(s)
    BY <1>6
  <2> HIDE DEF s
  <2>4. Spent(s) = Spent(seq) + 2 * P1Wait
    BY <1>6, <2>2 DEF Spent, N, P1Wait, WaitLock
  <2>5. Good(s, sense')
    BY <1>1, <1>2, <1>6, <2>1, <2>2, <2>4 DEF Good, TimeOf, Flips, P1Wait
  <2> QED
    BY <2>2, <2>3, <2>5, ContinuesGood DEF Ends
<1> QED
  BY <1>3, <1>4, <1>5, <1>6 DEF t2_le_SeqSpectrumTrial, GiveUp

-----------------------------------------------------------------------------
(* The invariant of the sequences.                                         *)

SeqInv ==
  /\ Good(seq, sense)
  /\ reg \in Regs /\ sense \in Senses /\ longEcho \in BOOLEAN
  /\ ended \in Results /\ ts \in [on : BOOLEAN, waitTime : Nat]
  /\ Running => ended # "UNLOCK"

LEMMA SeqInvType == SeqInv => TypeOK
  BY DEF SeqInv, TypeOK, Good, Regs, SeqRecords, Senses

LEMMA InitInv == Init => SeqInv
<1> SUFFICES ASSUME Init PROVE SeqInv
  OBVIOUS
<1>1. seq = Idle /\ ~Running
  BY DEF Init, Running, Idle
<1>2. Good(seq, sense)
  BY <1>1, IdleType DEF Good, Idle, TimeOf, Flips
<1>3. ts \in [on : BOOLEAN, waitTime : Nat]
  BY DEF Init, NoWait
<1> QED
  BY <1>1, <1>2, <1>3, DefaultsType DEF Init, SeqInv, Senses, Results

\* What a turn of the crank does, whichever it is.
LEMMA TurnKeeps ==
  ASSUME SeqInv, Turn
  PROVE  /\ Good(seq', sense') /\ Ends(Results)
         /\ seq'.state = "idle" /\ ended' = "TIMEOUT" => InState("WAIT_LOCK") /\ TimedOut
         /\ seq'.state = "idle" /\ ended' = "OK" => t2_le_SeqWaitDmdLock
         /\ InState("SPECTRUM_TRIAL") /\ ended' = "UNLOCK" => sense' = seq.first
<1>1. Good(seq, sense) /\ (seq.state # "idle" => ended # "UNLOCK")
  BY DEF SeqInv, Running
<1>2. CASE t2_le_SeqInit
  BY <1>1, <1>2, InitKeeps DEF Ends, Results, t2_le_SeqInit, InState
<1>3. CASE t2_le_SeqStart
  BY <1>1, <1>3, StartKeeps DEF Ends, Results, t2_le_SeqStart, InState
<1>4. CASE t2_le_SeqWaitP1
  BY <1>1, <1>4, WaitP1Keeps DEF Ends, Results, t2_le_SeqWaitP1, InState
<1>5. CASE t2_le_SeqWaitDmdLock
  <2>1. InState("WAIT_LOCK") /\ ~InState("SPECTRUM_TRIAL")
    BY <1>5 DEF t2_le_SeqWaitDmdLock, InState
  <2>2. /\ Good(seq', sense') /\ Ends({"CANCEL", "I2C", "SW_STATE", "OK", "TIMEOUT"})
        /\ seq'.state = "idle" /\ ended' = "TIMEOUT" => TimedOut
    BY <1>1, <1>5, WaitDmdLockKeeps
  <2>3. Ends(Results)
    BY <2>2 DEF Ends, Results
  <2> QED
    BY <1>5, <2>1, <2>2, <2>3
<1>6. CASE t2_le_SeqTimingTrial
  BY <1>1, <1>6, TimingTrialKeeps DEF Ends, Results, t2_le_SeqTimingTrial, InState
<1>7. CASE t2_le_SeqCrlOpenTrial
  BY <1>1, <1>7, CrlOpenTrialKeeps DEF Ends, Results, t2_le_SeqCrlOpenTrial, InState
<1>8. CASE t2_le_SeqSpectrumTrial
  <2>1. seq.state = "SPECTRUM_TRIAL" /\ ended # "UNLOCK"
    BY <1>1, <1>8 DEF t2_le_SeqSpectrumTrial, InState
  <2>2. /\ Good(seq', sense') /\ Ends({"CANCEL", "I2C", "SW_STATE", "UNLOCK"})
        /\ ended # "UNLOCK" /\ ended' = "UNLOCK" => sense' = seq.first
    BY <1>1, <1>8, SpectrumTrialKeeps
  <2>3. /\ Ends(Results)
        /\ seq'.state = "idle" => ended' # "TIMEOUT" /\ ended' # "OK"
    BY <2>2 DEF Ends, Results
  <2> QED
    BY <2>1, <2>2, <2>3
<1> QED
  BY <1>2, <1>3, <1>4, <1>5, <1>6, <1>7, <1>8 DEF Turn

\* The registers stay well formed.
LEMMA FailsInRegs ==
  ASSUME reg \in Regs, NEW new \in Regs, NEW order, FailsIn(order, new)
  PROVE  reg' \in Regs
<1>1. PICK k \in 0..Len(order) : reg' = AfterWrites(order, new, k)
  BY DEF FailsIn
<1> QED
  BY <1>1, AfterWritesType

LEMMA TurnRegs ==
  ASSUME reg \in Regs, Turn
  PROVE  reg' \in Regs /\ longEcho' = longEcho /\ ts' = ts
<1>1. longEcho' = longEcho /\ ts' = ts
  BY DEF Turn, t2_le_SeqInit, t2_le_SeqStart, t2_le_SeqWaitP1, t2_le_SeqWaitDmdLock,
         t2_le_SeqTimingTrial, t2_le_SeqCrlOpenTrial, t2_le_SeqSpectrumTrial
<1>2. CASE t2_le_SeqInit
  BY <1>2, DefaultsType, FailsInRegs DEF t2_le_SeqInit
<1>3. CASE t2_le_SeqStart
  BY <1>3 DEF t2_le_SeqStart
<1>4. CASE t2_le_SeqWaitP1
  BY <1>4 DEF t2_le_SeqWaitP1, FirstP1, T2P1, SetCrlOpen, FailsReading, Regs
<1>5. CASE t2_le_SeqWaitDmdLock
  BY <1>5 DEF t2_le_SeqWaitDmdLock, Locked, FailsReading, Regs
<1>6. CASE t2_le_SeqTimingTrial
  <2>1. ASSUME NEW new \in Regs, NEW s, Trial(new, s) PROVE reg' \in Regs
    <3>1. CASE reg' = [new EXCEPT !.crl = reg.crl]
      BY <3>1 DEF Regs
    <3>2. CASE FailsIn(SetTrial, new)
      BY <3>2, FailsInRegs
    <3> QED
      BY <2>1, <3>1, <3>2 DEF Trial
  <2>2. AfterTrial(1) \in Regs /\ AfterTrial(2) \in Regs /\ Defaults \in Regs
    BY AfterTrialType, DefaultsType
  <2> QED
    BY <1>6, <2>1, <2>2 DEF t2_le_SeqTimingTrial
<1>7. CASE t2_le_SeqCrlOpenTrial
  BY <1>7 DEF t2_le_SeqCrlOpenTrial, SetCrlOpen, FailsReading, Regs
<1>8. CASE t2_le_SeqSpectrumTrial
  BY <1>8 DEF t2_le_SeqSpectrumTrial
<1> QED
  BY <1>1, <1>2, <1>3, <1>4, <1>5, <1>6, <1>7, <1>8 DEF Turn

LEMMA TsRegs ==
  ASSUME reg \in Regs, ts \in [on : BOOLEAN, waitTime : Nat], dvb_demod_le_SeqWaitTsLock
  PROVE  /\ reg' \in Regs /\ ts' \in [on : BOOLEAN, waitTime : Nat]
         /\ ended' \in {ended, "OK", "I2C", "SW_STATE", "TIMEOUT", "CANCEL"}
         /\ UNCHANGED <<sense, longEcho, seq>>
         /\ ended' = "TIMEOUT" /\ ~ts'.on => ts.waitTime > WaitTsLock
         /\ ended' = "OK" /\ ~ts'.on => reg'.syr = 7
<1>1. PollInterval \in Nat /\ PollInterval <= 300 /\ ts.waitTime \in Nat
  BY PollAssumption
<1>2. ts.on /\ UNCHANGED <<sense, longEcho, seq>>
  BY DEF dvb_demod_le_SeqWaitTsLock
<1> DEFINE Quit(R) == ts' \in [on : BOOLEAN, waitTime : Nat] /\ ended' \in R
<1>0. \A r : EndTs(r) => Quit({r, "CANCEL"})
  BY DEF EndTs, NoWait
<1>3. CASE TsLocked
  <2>1. CASE EndTs("OK") /\ reg' = IF reg.syr = 3 THEN [reg EXCEPT !.syr = 7] ELSE reg
    <3>1. reg' \in Regs /\ reg'.syr = 7
      BY <2>1 DEF Regs
    <3>2. Quit({"OK", "CANCEL"})
      BY <1>0, <2>1
    <3> QED
      BY <1>2, <3>1, <3>2
  <2>2. CASE EndTs("I2C") /\ reg' = reg
    <3>1. Quit({"I2C", "CANCEL"})
      BY <1>0, <2>2
    <3> QED
      BY <1>2, <2>2, <3>1
  <2> QED
    BY <1>3, <2>1, <2>2 DEF TsLocked
<1>4. CASE TsWaits
  <2>1. reg' \in Regs
    BY <1>4 DEF TsWaits, Regs
  <2>2. CASE ts.waitTime > WaitTsLock /\ EndTs("TIMEOUT")
    BY <1>2, <2>1, <2>2 DEF EndTs, NoWait
  <2>3. CASE ~(ts.waitTime > WaitTsLock) /\ ContinueTs
    <3>1. ts.waitTime + PollInterval \in Nat /\ ~(ts.waitTime + PollInterval > TsSanity)
      BY <1>1, <2>3 DEF WaitTsLock, TsSanity
    <3>2. CASE ts' = [ts EXCEPT !.waitTime = ts.waitTime + PollInterval] /\ ended' = ended
      BY <1>2, <2>1, <3>1, <3>2
    <3>3. CASE EndTs("CANCEL")
      BY <1>2, <2>1, <3>3 DEF EndTs, NoWait
    <3> QED
      BY <2>3, <3>1, <3>2, <3>3 DEF ContinueTs
  <2> QED
    BY <1>4, <2>2, <2>3 DEF TsWaits
<1>5. CASE UNCHANGED reg /\ (EndTs("I2C") \/ EndTs("SW_STATE"))
  <2>1. Quit({"I2C", "SW_STATE", "CANCEL"})
    <3>1. Quit({"I2C", "CANCEL"}) \/ Quit({"SW_STATE", "CANCEL"})
      BY <1>0, <1>5
    <3> QED
      BY <3>1
  <2> QED
    BY <1>2, <1>5, <2>1
<1> QED
  BY <1>3, <1>4, <1>5 DEF dvb_demod_le_SeqWaitTsLock

\* Everything but the turns: the sequence rests, or is started.
LEMMA StartInv ==
  ASSUME SeqInv, Start PROVE SeqInv'
<1>1. PICK auto \in BOOLEAN :
        seq' = [Idle EXCEPT !.state = "INIT", !.auto = auto, !.first = sense]
  BY DEF Start
<1>2. sense \in Senses /\ sense' = sense /\ ended' = "none" /\ reg' = reg
      /\ longEcho' = longEcho /\ ts' = ts
  BY DEF SeqInv, Start, chipVars
<1>3. Idle \in SeqRecords
  BY IdleType
<1>4. seq' \in SeqRecords
  BY <1>1, <1>2, <1>3 DEF SeqRecords, SeqStates
<1>5. seq'.state = "INIT" /\ seq'.first = sense /\ seq'.total = Idle.total
      /\ seq'.spectTrial = Idle.spectTrial
  BY <1>1, <1>3 DEF SeqRecords
<1>6. Idle.total = 0 /\ Idle.spectTrial = FALSE
  BY DEF Idle
<1>7. Good(seq', sense')
  BY <1>2, <1>4, <1>5, <1>6 DEF Good, TimeOf, Flips
<1> QED
  BY <1>2, <1>7 DEF SeqInv, Results

LEMMA SetLongEchoRegs ==
  ASSUME reg \in Regs, longEcho \in BOOLEAN, SetLongEcho
  PROVE  reg' \in Regs /\ longEcho' \in BOOLEAN /\ UNCHANGED <<sense, seq, ended, ts>>
<1>1. CASE Leave
  <2>1. PICK k \in 0..Len(SetDefaults) :
          reg' = AfterWrites(SetDefaults, Defaults, k) /\ longEcho' = (k < Len(SetDefaults))
    BY <1>1 DEF Leave
  <2>2. (k < Len(SetDefaults)) \in BOOLEAN
    OBVIOUS
  <2> QED
    BY <1>1, <2>1, <2>2, AfterWritesType, DefaultsType DEF Leave
<1>2. CASE ~Leave
  BY <1>2 DEF SetLongEcho
<1> QED
  BY <1>1, <1>2

LEMMA NextInv == SeqInv /\ [Next]_vars => SeqInv'
<1> SUFFICES ASSUME SeqInv, [Next]_vars PROVE SeqInv'
  OBVIOUS
<1>1. CASE Start
  BY <1>1, StartInv
<1>2. CASE SetLongEcho
  BY <1>2, SetLongEchoRegs DEF SeqInv, Running
<1>3. CASE Turn
  <2>1. Good(seq', sense') /\ Ends(Results)
    BY <1>3, TurnKeeps
  <2>2. reg' \in Regs /\ longEcho' = longEcho /\ ts' = ts
    BY <1>3, TurnRegs DEF SeqInv
  <2>3. Running
    BY <1>3 DEF Turn, Running, InState, t2_le_SeqInit, t2_le_SeqStart, t2_le_SeqWaitP1,
                t2_le_SeqWaitDmdLock, t2_le_SeqTimingTrial, t2_le_SeqCrlOpenTrial,
                t2_le_SeqSpectrumTrial
  <2>4. sense' \in Senses
    <3>1. sense' = sense \/ sense' = Flipped(sense)
      BY <1>3 DEF Turn, t2_le_SeqInit, t2_le_SeqStart, t2_le_SeqWaitP1,
                  t2_le_SeqWaitDmdLock, t2_le_SeqTimingTrial, t2_le_SeqCrlOpenTrial,
                  t2_le_SeqSpectrumTrial, GiveUp
    <3> QED
      BY <3>1, FlippedTwice DEF SeqInv
  <2> QED
    BY <2>1, <2>2, <2>3, <2>4 DEF SeqInv, Ends, Running
<1>4. CASE StartTs
  BY <1>4 DEF StartTs, SeqInv, chipVars, Running, Results
<1>5. CASE dvb_demod_le_SeqWaitTsLock
  <2>1. /\ reg' \in Regs /\ ts' \in [on : BOOLEAN, waitTime : Nat]
        /\ ended' \in {ended, "OK", "I2C", "SW_STATE", "TIMEOUT", "CANCEL"}
        /\ UNCHANGED <<sense, longEcho, seq>>
    BY <1>5, TsRegs DEF SeqInv
  <2> QED
    BY <2>1 DEF SeqInv, Running, Results
<1>6. CASE UNCHANGED vars
  BY <1>6 DEF vars, SeqInv, Running
<1> QED
  BY <1>1, <1>2, <1>3, <1>4, <1>5, <1>6 DEF Next

-----------------------------------------------------------------------------
(* The theorems.                                                           *)

LEMMA SeqInvHolds == Spec => []SeqInv
<1>1. Init => SeqInv
  BY InitInv
<1>2. SeqInv /\ [Next]_vars => SeqInv'
  BY NextInv
<1> QED
  BY <1>1, <1>2, PTL DEF Spec

\* The sequences are always well formed.
THEOREM SequencesTypeCorrect == Spec => []TypeOK
<1>1. SeqInv => TypeOK
  BY SeqInvType
<1> QED
  BY <1>1, SeqInvHolds, PTL

\* The sanity checks of the loops around the sequences never fire, for any interval
\* of polling: only the waits that the sequences limit themselves time out.
THEOREM SanityIsNeverNeeded == Spec => SanityNeverNeeded
<1> DEFINE A == /\ Running /\ seq'.state = "idle" /\ ended' = "TIMEOUT" =>
                     InState("WAIT_LOCK") /\ TimedOut
                /\ ts.on /\ ~ts'.on /\ ended' = "TIMEOUT" => ts.waitTime > WaitTsLock
<1>1. SeqInv /\ [Next]_vars => [A]_vars
  <2> SUFFICES ASSUME SeqInv, Next PROVE A
    OBVIOUS
  <2>1. CASE Start
    BY <2>1 DEF Start, Unused
  <2>2. CASE SetLongEcho
    BY <2>2, SetLongEchoRegs DEF SeqInv, Running
  <2>3. CASE Turn
    <3>1. ts' = ts
      BY <2>3, TurnRegs DEF SeqInv
    <3>2. seq'.state = "idle" /\ ended' = "TIMEOUT" => InState("WAIT_LOCK") /\ TimedOut
      BY <2>3, TurnKeeps
    <3> QED
      BY <3>1, <3>2
  <2>4. CASE StartTs
    BY <2>4 DEF StartTs, Running
  <2>5. CASE dvb_demod_le_SeqWaitTsLock
    <3>1. seq' = seq
      BY <2>5 DEF dvb_demod_le_SeqWaitTsLock
    <3>2. ended' = "TIMEOUT" /\ ~ts'.on => ts.waitTime > WaitTsLock
      BY <2>5, TsRegs DEF SeqInv
    <3> QED
      BY <3>1, <3>2 DEF Running
  <2> QED
    BY <2>1, <2>2, <2>3, <2>4, <2>5 DEF Next
<1> QED
  BY <1>1, SeqInvHolds, PTL DEF Spec, SanityNeverNeeded

\* Locks restore the settings the trials changed, whatever failed before.
THEOREM LocksAlwaysRestoreSettings == Spec => LocksRestoreSettings
<1> DEFINE A == /\ Running /\ seq'.state = "idle" /\ ended' = "OK" => reg'.alpha = 3
                /\ ts.on /\ ~ts'.on /\ ended' = "OK" => reg'.syr = 7
<1>1. SeqInv /\ [Next]_vars => [A]_vars
  <2> SUFFICES ASSUME SeqInv, Next PROVE A
    OBVIOUS
  <2>1. CASE Start
    BY <2>1 DEF Start, Unused
  <2>2. CASE SetLongEcho
    BY <2>2, SetLongEchoRegs DEF SeqInv, Running
  <2>3. CASE Turn
    <3>1. ts' = ts
      BY <2>3, TurnRegs DEF SeqInv
    <3>2. ASSUME seq'.state = "idle", ended' = "OK" PROVE reg'.alpha = 3
      <4>1. t2_le_SeqWaitDmdLock
        BY <2>3, <3>2, TurnKeeps
      <4>2. reg \in Regs /\ seq.state = "WAIT_LOCK"
        BY <4>1 DEF SeqInv, t2_le_SeqWaitDmdLock, InState
      <4>3. CASE Locked
        BY <3>2, <4>2, <4>3 DEF Locked, FailsReading, End, Regs
      <4>4. CASE End("I2C") \/ End("TIMEOUT") \/ End("SW_STATE")
        BY <3>2, <4>4 DEF End
      <4>5. ASSUME NEW st \in {"TIMING_TRIAL", "WAIT_P1"}, ~TimedOut,
                   Continue([seq EXCEPT !.state = st])
            PROVE  FALSE
        <5>1. [seq EXCEPT !.state = st].state # "idle"
          BY <4>5, Moved DEF SeqInv, SeqStates
        <5>2. ended' = "CANCEL" \/ ended' = "TIMEOUT" \/ seq' = [seq EXCEPT !.state = st]
          BY <4>5 DEF Continue, End
        <5> QED
          BY <3>2, <5>1, <5>2
      <4> QED
        BY <4>1, <4>3, <4>4, <4>5 DEF t2_le_SeqWaitDmdLock, FailsReading
    <3> QED
      BY <3>1, <3>2
  <2>4. CASE StartTs
    BY <2>4 DEF StartTs, Running
  <2>5. CASE dvb_demod_le_SeqWaitTsLock
    <3>1. seq' = seq
      BY <2>5 DEF dvb_demod_le_SeqWaitTsLock
    <3>2. ended' = "OK" /\ ~ts'.on => reg'.syr = 7
      BY <2>5, TsRegs DEF SeqInv
    <3> QED
      BY <3>1, <3>2 DEF Running
  <2> QED
    BY <2>1, <2>2, <2>3, <2>4, <2>5 DEF Next
<1> QED
  BY <1>1, SeqInvHolds, PTL DEF Spec, LocksRestoreSettings

\* A search that found nothing in either sense leaves the sense as it was.
THEOREM SearchAlwaysRestoresSense == Spec => SearchRestoresSense
<1> DEFINE A == InState("SPECTRUM_TRIAL") /\ ended' = "UNLOCK" => sense' = seq.first
<1>1. SeqInv /\ [Next]_vars => [A]_vars
  <2> SUFFICES ASSUME SeqInv, Next, InState("SPECTRUM_TRIAL"), ended' = "UNLOCK"
               PROVE  sense' = seq.first
    OBVIOUS
  <2>1. Running /\ ended # "UNLOCK"
    BY DEF SeqInv, Running, InState
  <2>2. CASE Turn
    BY <2>2, TurnKeeps
  <2>3. CASE SetLongEcho
    BY <2>1, <2>3, SetLongEchoRegs DEF SeqInv
  <2>4. CASE StartTs
    BY <2>4 DEF StartTs
  <2>5. CASE dvb_demod_le_SeqWaitTsLock
    BY <2>1, <2>5, TsRegs DEF SeqInv
  <2> QED
    BY <2>1, <2>2, <2>3, <2>4, <2>5 DEF Next, Start, Unused
<1> QED
  BY <1>1, SeqInvHolds, PTL DEF Spec, SearchRestoresSense

-----------------------------------------------------------------------------
(* Waits for a stream that do not outlive their lock.                      *)

FirstInv ==
  /\ Running \/ ts.on => longEcho
  /\ ~(Running /\ ts.on)
  /\ PlainModeHasDefaults
  /\ seq.state = "INIT" => ~(seq.pOfst \/ seq.spectTrial \/ seq.crlOpenTrial)
  /\ Running /\ seq.state # "INIT" /\ ~(seq.pOfst \/ seq.spectTrial) =>
       /\ reg.ofst = 0 /\ reg.syr = 7 /\ reg.alpha = 3
       /\ seq.crlOpenTrial \/ reg.crl = 0

LEMMA Either ==
  ASSUME NEW s, Continue(s) PROVE seq' \in {s, Idle}
  BY DEF Continue, End

\* The last conjunct of FirstInv, of a record and the registers.
Untried(s, rg) ==
  s.state \notin {"idle", "INIT"} /\ ~(s.pOfst \/ s.spectTrial) =>
    /\ rg.ofst = 0 /\ rg.syr = 7 /\ rg.alpha = 3
    /\ s.crlOpenTrial \/ rg.crl = 0

LEMMA TurnPlain ==
  ASSUME SeqInv, FirstInv, Turn
  PROVE  Untried(seq', reg') /\ seq'.state # "INIT"
<1>1. seq \in SeqRecords /\ reg \in Regs /\ Untried(seq, reg) /\ seq.state # "idle"
  <2>1. seq.state # "idle"
    BY DEF Turn, InState, t2_le_SeqInit, t2_le_SeqStart, t2_le_SeqWaitP1,
           t2_le_SeqWaitDmdLock, t2_le_SeqTimingTrial, t2_le_SeqCrlOpenTrial,
           t2_le_SeqSpectrumTrial
  <2> QED
    BY <2>1 DEF SeqInv, Good, FirstInv, Untried, Running
<1>2. Idle.state = "idle" /\ Untried(Idle, reg')
  BY DEF Idle, Untried
<1>3. ASSUME NEW r, End(r) PROVE Untried(seq', reg') /\ seq'.state # "INIT"
  BY <1>2, <1>3 DEF End
<1>4. ASSUME NEW s, Continue(s), Untried(s, reg'), s.state # "INIT"
      PROVE  Untried(seq', reg') /\ seq'.state # "INIT"
  BY <1>2, <1>4, Either
<1>5. CASE t2_le_SeqInit
  <2> DEFINE s == [seq EXCEPT !.state = "START"]
  <2>1. CASE reg' = Defaults /\ Continue(s)
    <3>1. s.state = "START"
      BY <1>1 DEF SeqRecords
    <3>2. Untried(s, reg')
      BY <2>1 DEF Untried, Defaults
    <3> QED
      BY <1>4, <2>1, <3>1, <3>2
  <2>2. CASE End("I2C")
    BY <1>3, <2>2
  <2> QED
    BY <1>5, <2>1, <2>2 DEF t2_le_SeqInit, FailsIn
<1>6. ASSUME seq.state # "INIT", NEW s, s.state \notin {"INIT"}, Continue(s),
             s.pOfst = seq.pOfst, s.spectTrial = seq.spectTrial,
             s.crlOpenTrial = seq.crlOpenTrial, reg' = reg \/ reg' = [reg EXCEPT !.crl = 0]
      PROVE  Untried(seq', reg') /\ seq'.state # "INIT"
  <2>1. Untried(s, reg')
    BY <1>1, <1>6 DEF Untried, Regs
  <2> QED
    BY <1>4, <1>6, <2>1
<1>7. CASE t2_le_SeqStart
  <2> DEFINE s == [seq EXCEPT !.state = "WAIT_P1", !.waitTime = 0]
  <2>1. /\ s.state = "WAIT_P1" /\ s.pOfst = seq.pOfst /\ s.spectTrial = seq.spectTrial
        /\ s.crlOpenTrial = seq.crlOpenTrial
    BY <1>1 DEF SeqRecords
  <2>2. seq.state = "START" /\ reg' = reg
    BY <1>7 DEF t2_le_SeqStart, InState
  <2>3. Continue(s) \/ End("I2C") \/ End("SW_STATE")
    BY <1>7 DEF t2_le_SeqStart
  <2> HIDE DEF s
  <2> QED
    BY <1>3, <1>6, <2>1, <2>2, <2>3
<1>8. CASE t2_le_SeqWaitP1
  <2>1. /\ Slept.pOfst = seq.pOfst /\ Slept.spectTrial = seq.spectTrial
        /\ Slept.crlOpenTrial = seq.crlOpenTrial
    BY <1>1 DEF Slept, SeqRecords
  <2> DEFINE lock == [Slept EXCEPT !.state = "WAIT_LOCK"]
             again == [Slept EXCEPT !.state = "START", !.unlockDetDone = TRUE]
             crl == [Slept EXCEPT !.state = "CRL_OPEN_TRIAL"]
  <2>2. \A s \in {lock, again, crl} :
          /\ s.state # "INIT" /\ s.pOfst = seq.pOfst /\ s.spectTrial = seq.spectTrial
          /\ s.crlOpenTrial = seq.crlOpenTrial
    BY <1>1, <2>1 DEF Slept, SeqRecords
  <2>3. seq.state = "WAIT_P1" /\ (reg' = reg \/ reg' = [reg EXCEPT !.crl = 0])
    BY <1>8 DEF t2_le_SeqWaitP1, InState, FirstP1, T2P1, FailsReading, SetCrlOpen
  <2>4. \/ End("UNLOCK") \/ End("I2C") \/ End("SW_STATE")
        \/ \E s \in {lock, again, crl} : Continue(s)
    BY <1>8 DEF t2_le_SeqWaitP1, FirstP1, T2P1, FailsReading
  <2> HIDE DEF lock, again, crl
  <2> QED
    BY <1>3, <1>6, <2>2, <2>3, <2>4
<1>9. CASE t2_le_SeqWaitDmdLock
  <2> DEFINE trial == [seq EXCEPT !.state = "TIMING_TRIAL"]
             wait == [seq EXCEPT !.state = "WAIT_P1"]
  <2>1. \A s \in {trial, wait} :
          /\ s.state # "INIT" /\ s.pOfst = seq.pOfst /\ s.spectTrial = seq.spectTrial
          /\ s.crlOpenTrial = seq.crlOpenTrial
    BY <1>1 DEF SeqRecords
  <2>2. seq.state = "WAIT_LOCK"
    BY <1>9 DEF t2_le_SeqWaitDmdLock, InState
  <2>3. \/ End("OK") \/ End("I2C") \/ End("SW_STATE") \/ End("TIMEOUT")
        \/ reg' = reg /\ \E s \in {trial, wait} : Continue(s)
    BY <1>9 DEF t2_le_SeqWaitDmdLock, Locked, FailsReading
  <2> HIDE DEF trial, wait
  <2> QED
    BY <1>3, <1>6, <2>1, <2>2, <2>3
<1>10. CASE t2_le_SeqTimingTrial
  <2>1. seq.state = "TIMING_TRIAL"
    BY <1>10 DEF t2_le_SeqTimingTrial, InState
  <2>2. ASSUME NEW new, NEW s \in SeqRecords, s.pOfst, Trial(new, s)
        PROVE  Untried(seq', reg') /\ seq'.state # "INIT"
    <3> DEFINE s2 == [s EXCEPT !.state = "START", !.unlockDetDone = TRUE]
    <3>1. s2.state = "START" /\ s2.pOfst = s.pOfst
      BY DEF SeqRecords
    <3>2. Continue(s2) \/ End("I2C")
      BY <2>2 DEF Trial, FailsIn
    <3> HIDE DEF s2
    <3>3. Untried(s2, reg')
      BY <2>2, <3>1 DEF Untried
    <3> QED
      BY <1>3, <1>4, <3>1, <3>2, <3>3
  <2> DEFINE s3 == [seq EXCEPT !.state = "WAIT_P1"]
  <2>3. CASE reg' = reg /\ Continue(s3)
    <3>1. s3.state = "WAIT_P1" /\ s3.pOfst = seq.pOfst /\ s3.spectTrial = seq.spectTrial
          /\ s3.crlOpenTrial = seq.crlOpenTrial
      BY <1>1 DEF SeqRecords
    <3> HIDE DEF s3
    <3> QED
      BY <1>6, <2>1, <2>3, <3>1
  <2> DEFINE p == [seq EXCEPT !.pOfst = TRUE]
             m == [seq EXCEPT !.mOfst = TRUE]
             n == [seq EXCEPT !.noOfst = TRUE]
  <2>4. p \in SeqRecords /\ m \in SeqRecords /\ n \in SeqRecords
        /\ p.pOfst /\ m.pOfst = seq.pOfst /\ n.pOfst = seq.pOfst
    BY <1>1 DEF SeqRecords
  <2>5. \/ Trial(AfterTrial(1), p)
        \/ seq.pOfst /\ Trial(AfterTrial(2), m)
        \/ seq.pOfst /\ Trial(Defaults, n)
        \/ reg' = reg /\ Continue(s3)
        \/ End("SW_STATE")
    BY <1>10 DEF t2_le_SeqTimingTrial
  <2> HIDE DEF p, m, n, s3
  <2> QED
    BY <1>3, <2>2, <2>3, <2>4, <2>5
<1>11. CASE t2_le_SeqCrlOpenTrial
  <2>1. seq.state = "CRL_OPEN_TRIAL"
    BY <1>11 DEF t2_le_SeqCrlOpenTrial, InState
  <2> DEFINE shut == [seq EXCEPT !.crlOpenTrial = FALSE, !.state = "SPECTRUM_TRIAL"]
             next == [seq EXCEPT !.state = "SPECTRUM_TRIAL"]
             open == [seq EXCEPT !.crlOpenTrial = TRUE, !.state = "START"]
  <2>2. /\ shut.state = "SPECTRUM_TRIAL" /\ next.state = "SPECTRUM_TRIAL" /\ open.state = "START"
        /\ shut.pOfst = seq.pOfst /\ shut.spectTrial = seq.spectTrial
        /\ next.pOfst = seq.pOfst /\ next.spectTrial = seq.spectTrial
        /\ next.crlOpenTrial = seq.crlOpenTrial
        /\ open.pOfst = seq.pOfst /\ open.spectTrial = seq.spectTrial /\ open.crlOpenTrial
    BY <1>1 DEF SeqRecords
  <2>3. \/ reg' = [reg EXCEPT !.crl = 0] /\ Continue(shut)
        \/ reg' = reg /\ Continue(next)
        \/ reg' = [reg EXCEPT !.crl = 1] /\ Continue(open)
        \/ End("I2C") \/ End("SW_STATE")
    BY <1>11 DEF t2_le_SeqCrlOpenTrial, SetCrlOpen, FailsReading
  <2> HIDE DEF shut, next, open
  <2>4. CASE reg' = [reg EXCEPT !.crl = 0] /\ Continue(shut)
    <3>1. Untried(shut, reg')
      BY <1>1, <2>1, <2>2, <2>4 DEF Untried, Regs
    <3> QED
      BY <1>4, <2>2, <2>4, <3>1
  <2>5. CASE reg' = reg /\ Continue(next)
    BY <1>6, <2>1, <2>2, <2>5
  <2>6. CASE reg' = [reg EXCEPT !.crl = 1] /\ Continue(open)
    <3>1. Untried(open, reg')
      BY <1>1, <2>1, <2>2, <2>6 DEF Untried, Regs
    <3> QED
      BY <1>4, <2>2, <2>6, <3>1
  <2> QED
    BY <1>3, <2>3, <2>4, <2>5, <2>6
<1>12. CASE t2_le_SeqSpectrumTrial
  <2> DEFINE s == [seq EXCEPT !.spectTrial = TRUE, !.state = "START"]
  <2>1. s.state = "START" /\ s.spectTrial
    BY <1>1 DEF SeqRecords
  <2>2. Continue(s) \/ End("UNLOCK") \/ End("I2C") \/ End("SW_STATE")
    BY <1>12 DEF t2_le_SeqSpectrumTrial, GiveUp
  <2> HIDE DEF s
  <2>3. Untried(s, reg')
    BY <2>1 DEF Untried
  <2> QED
    BY <1>3, <1>4, <2>1, <2>2, <2>3
<1> QED
  BY <1>5, <1>7, <1>8, <1>9, <1>10, <1>11, <1>12 DEF Turn

LEMMA AllDefaults ==
  ASSUME NEW rg \in Regs, rg.crl = 0, rg.ofst = 0, rg.syr = 7, rg.alpha = 3
  PROVE  rg = Defaults
  BY DEF Regs, Defaults

\* All four writes of the script.
LEMMA AllWritten ==
  ASSUME reg \in Regs PROVE AfterWrites(SetDefaults, Defaults, 4) = Defaults
<1>1. AfterWrites(SetDefaults, Defaults, 4) \in Regs
  BY AfterWritesType, DefaultsType
<1>2. /\ \E i \in 1..4 : SetDefaults[i] = "crl"
      /\ \E i \in 1..4 : SetDefaults[i] = "ofst"
      /\ \E i \in 1..4 : SetDefaults[i] = "syr"
      /\ \E i \in 1..4 : SetDefaults[i] = "alpha"
  BY DEF SetDefaults
<1>3. DOMAIN reg = {"crl", "ofst", "syr", "alpha"}
  BY DEF Regs
<1>4. LET w == AfterWrites(SetDefaults, Defaults, 4) IN
        /\ w["crl"] = Defaults["crl"] /\ w["ofst"] = Defaults["ofst"]
        /\ w["syr"] = Defaults["syr"] /\ w["alpha"] = Defaults["alpha"]
  BY <1>2, <1>3 DEF AfterWrites
<1>5. LET w == AfterWrites(SetDefaults, Defaults, 4) IN
        w.crl = 0 /\ w.ofst = 0 /\ w.syr = 7 /\ w.alpha = 3
  BY <1>4 DEF Defaults
<1> QED
  BY <1>1, <1>5, AllDefaults

LEMMA FirstStep ==
  ASSUME Overlap = FALSE, SeqInv, FirstInv, [Next]_vars PROVE FirstInv'
<1>1. CASE Start
  <2>1. /\ ~ts.on /\ longEcho /\ ts' = ts /\ longEcho' = longEcho /\ reg' = reg
    BY <1>1 DEF Start, Unused, chipVars
  <2>2. PICK auto \in BOOLEAN :
          seq' = [Idle EXCEPT !.state = "INIT", !.auto = auto, !.first = sense]
    BY <1>1 DEF Start
  <2>3. seq'.state = "INIT" /\ seq'.pOfst = Idle.pOfst /\ seq'.spectTrial = Idle.spectTrial
        /\ seq'.crlOpenTrial = Idle.crlOpenTrial
    BY <2>2, IdleType DEF SeqRecords
  <2>4. ~Idle.pOfst /\ ~Idle.spectTrial /\ ~Idle.crlOpenTrial
    BY DEF Idle
  <2> QED
    BY <2>1, <2>3, <2>4 DEF FirstInv, PlainModeHasDefaults, Running
<1>2. CASE SetLongEcho
  <2>1. ~Running /\ ~ts.on /\ seq' = seq /\ ts' = ts
    BY <1>2 DEF SetLongEcho, Leave, Unused
  <2>2. ~longEcho' => reg' = Defaults
    <3>1. CASE Leave
      <4>1. PICK k \in 0..Len(SetDefaults) :
              reg' = AfterWrites(SetDefaults, Defaults, k) /\ longEcho' = (k < Len(SetDefaults))
        BY <3>1 DEF Leave
      <4>2. Len(SetDefaults) = 4
        BY DEF SetDefaults
      <4>3. k \in Nat /\ k <= 4
        BY <4>1, <4>2
      <4>4. CASE k < Len(SetDefaults)
        BY <4>1, <4>4
      <4>5. CASE ~(k < Len(SetDefaults))
        <5>1. k = 4
          BY <4>2, <4>3, <4>5
        <5> QED
          BY <5>1, <4>1, AllWritten DEF SeqInv
      <4> QED
        BY <4>4, <4>5
    <3>2. CASE longEcho' = TRUE
      BY <3>2
    <3> QED
      BY <1>2, <3>1, <3>2 DEF SetLongEcho
  <2> QED
    BY <2>1, <2>2 DEF FirstInv, PlainModeHasDefaults, Running
<1>3. CASE Turn
  <2>1. Running
    BY <1>3 DEF Turn, Running, InState, t2_le_SeqInit, t2_le_SeqStart, t2_le_SeqWaitP1,
                t2_le_SeqWaitDmdLock, t2_le_SeqTimingTrial, t2_le_SeqCrlOpenTrial,
                t2_le_SeqSpectrumTrial
  <2>2. longEcho' = longEcho /\ ts' = ts
    BY <1>3, TurnRegs DEF SeqInv
  <2>3. Untried(seq', reg') /\ seq'.state # "INIT"
    BY <1>3, TurnPlain
  <2> QED
    BY <2>1, <2>2, <2>3 DEF FirstInv, PlainModeHasDefaults, Running, Untried
<1>4. CASE StartTs
  <2>1. ~Running /\ longEcho /\ longEcho' = longEcho /\ reg' = reg /\ seq' = seq
    BY <1>4 DEF StartTs, chipVars
  <2> QED
    BY <2>1 DEF FirstInv, PlainModeHasDefaults, Running
<1>5. CASE dvb_demod_le_SeqWaitTsLock
  <2>1. ts.on /\ seq' = seq /\ longEcho' = longEcho
    BY <1>5 DEF dvb_demod_le_SeqWaitTsLock
  <2> QED
    BY <2>1 DEF FirstInv, PlainModeHasDefaults, Running
<1>6. CASE UNCHANGED vars
  BY <1>6 DEF vars, FirstInv, PlainModeHasDefaults, Running
<1> QED
  BY <1>1, <1>2, <1>3, <1>4, <1>5, <1>6 DEF Next

LEMMA FirstInit == Init => FirstInv
  BY DEF Init, FirstInv, Running, Idle, NoWait, PlainModeHasDefaults, Defaults

LEMMA FirstIsPlain == SeqInv /\ FirstInv => FirstAttemptPlain /\ PlainModeHasDefaults
<1> SUFFICES ASSUME SeqInv, FirstInv PROVE FirstAttemptPlain /\ PlainModeHasDefaults
  OBVIOUS
<1>1. ASSUME Running, seq.state # "INIT", ~(seq.pOfst \/ seq.spectTrial \/ seq.crlOpenTrial)
      PROVE  reg = Defaults
  BY <1>1, AllDefaults DEF SeqInv, FirstInv
<1> QED
  BY <1>1 DEF FirstAttemptPlain, FirstInv

\* As long as no wait for a stream outlives its lock, the first attempt of every
\* acquisition runs with the default settings.
THEOREM FirstAttemptAlwaysPlain ==
  ASSUME Overlap = FALSE PROVE Spec => []FirstAttemptPlain
<1>1. SeqInv /\ FirstInv /\ [Next]_vars => FirstInv'
  BY FirstStep
<1> QED
  BY <1>1, FirstInit, FirstIsPlain, SeqInvHolds, PTL DEF Spec

\* ... and an acquisition without long echo has its own settings.
THEOREM PlainModeAlwaysHasDefaults ==
  ASSUME Overlap = FALSE PROVE Spec => []PlainModeHasDefaults
<1>1. SeqInv /\ FirstInv /\ [Next]_vars => FirstInv'
  BY FirstStep
<1> QED
  BY <1>1, FirstInit, FirstIsPlain, SeqInvHolds, PTL DEF Spec

(***************************************************************************)
(* The monitor functions.                                                  *)
(***************************************************************************)
-----------------------------------------------------------------------------
(* Scripts.                                                                *)

\* The accesses of a call of system y; undo is one of U.
Accesses(y, U) ==
  {a \in [do : Steps, slave : Systems, bank : Banks, undo : U, void : BOOLEAN, quiet : BOOLEAN] :
     a.do \in {"freeze", "unfreeze"} => a.slave = y}

\* The bank that access i of s is for is the one selected between j and i, or the
\* one that was selected before.
Needs(s, i) == s[i].do # "bank" /\ s[i].bank # "any"
StaysIn(s, j, i) ==
  \A k \in (j + 1)..(i - 1) :
    s[k].do = "bank" /\ s[k].slave = s[i].slave => s[k].bank = s[i].bank
Selected(s, i) ==
  \E j \in 1..(i - 1) :
    s[j].do = "bank" /\ s[j].slave = s[i].slave /\ s[j].bank = s[i].bank /\ StaysIn(s, j, i)
SelectsBanks(s) == \A i \in DOMAIN s : Needs(s, i) => Selected(s, i)

\* The lock that is read and tested between j and i.
Tested(s, j, i) ==
  \E k \in (j + 1)..(i - 1) : s[k].do = "test" /\ \E m \in (j + 1)..(k - 1) : s[m].do = "lock"
StaysFrozen(s, j, i) == \A k \in (j + 1)..(i - 1) : s[k].do # "unfreeze"
Vouched(s, i) ==
  \E j \in 1..(i - 1) : s[j].do = "freeze" /\ StaysFrozen(s, j, i) /\ Tested(s, j, i)
TestsLocks(s) == \A i \in DOMAIN s : s[i].do = "value" => Vouched(s, i)

\* After access j, every way through s unfreezes.
Releases(a) == a.do = "unfreeze" /\ a.void
Thaws(s, j) ==
  \E m \in (j + 1)..Len(s) :
    /\ Releases(s[m])
    /\ \A k \in (j + 1)..(m - 1) : s[k].undo # <<>> /\ Releases(s[k].undo[1])
ThawsAll(s) == \A i \in DOMAIN s : s[i].do = "freeze" => Thaws(s, i)

Sound(y, U) ==
  {s \in Seq(Accesses(y, U)) : SelectsBanks(s) /\ TestsLocks(s) /\ ThawsAll(s)}

\* What is done to undo has nothing to undo itself, or only something simple.
Simple(y) == Sound(y, {<<>>})
Undone(y) == Sound(y, Simple(y))
Called(y) == Sound(y, Undone(y))

-----------------------------------------------------------------------------
LEMMA CatAt ==
  ASSUME NEW S, NEW a \in Seq(S), NEW b \in Seq(S)
  PROVE  /\ a \o b \in Seq(S) /\ Len(a \o b) = Len(a) + Len(b)
         /\ Len(a) \in Nat /\ Len(b) \in Nat
         /\ \A i \in 1..Len(a) : (a \o b)[i] = a[i]
         /\ \A i \in 1..Len(b) : (a \o b)[Len(a) + i] = b[i]
         /\ \A i \in (Len(a) + 1)..(Len(a) + Len(b)) : (a \o b)[i] = b[i - Len(a)] /\ i - Len(a) \in 1..Len(b)
  OBVIOUS

LEMMA ElementIn == ASSUME NEW S, NEW s \in Seq(S), NEW i \in 1..Len(s) PROVE s[i] \in S
  OBVIOUS

LEMMA CatLen ==
  ASSUME NEW S, NEW a \in Seq(S), NEW b \in Seq(S)
  PROVE  a \o b \in Seq(S) /\ Len(a \o b) = Len(a) + Len(b) /\ Len(a) \in Nat /\ Len(b) \in Nat
  OBVIOUS

\* s stands in c after place n.
Within(s, c, n) == n + Len(s) <= Len(c) /\ \A h \in 1..Len(s) : c[n + h] = s[h]

LEMMA WithinBanks ==
  ASSUME NEW S, NEW s \in Seq(S), NEW c \in Seq(S), NEW n \in Nat, Within(s, c, n),
         SelectsBanks(s), NEW h \in 1..Len(s), Needs(c, n + h)
  PROVE  Selected(c, n + h)
<1> DEFINE i == n + h
<1>0. Len(s) \in Nat /\ h \in Nat /\ i \in Nat /\ c[i] = s[h] /\ DOMAIN s = 1..Len(s)
  BY DEF Within
<1>1. PICK j \in 1..(h - 1) :
        s[j].do = "bank" /\ s[j].slave = s[h].slave /\ s[j].bank = s[h].bank /\ StaysIn(s, j, h)
  BY <1>0 DEF SelectsBanks, Needs, Selected
<1>2. n + j \in 1..(i - 1) /\ j \in 1..Len(s)
  BY <1>0, <1>1
<1>3. c[n + j] = s[j]
  BY <1>2 DEF Within
<1>4. StaysIn(c, n + j, i)
  <2> SUFFICES ASSUME NEW k \in (n + j + 1)..(i - 1), c[k].do = "bank", c[k].slave = c[i].slave
               PROVE  c[k].bank = c[i].bank
    BY DEF StaysIn
  <2>1. k - n \in (j + 1)..(h - 1) /\ k - n \in 1..Len(s) /\ k = n + (k - n)
    BY <1>0, <1>1
  <2>2. c[k] = s[k - n]
    BY <2>1 DEF Within
  <2> HIDE DEF i
  <2> QED BY <1>0, <1>1, <2>1, <2>2 DEF StaysIn
<1> HIDE DEF i
<1>5. Selected(c, i)
  BY <1>0, <1>1, <1>2, <1>3, <1>4 DEF Selected
<1> QED BY <1>5 DEF i

LEMMA WithinLocks ==
  ASSUME NEW S, NEW s \in Seq(S), NEW c \in Seq(S), NEW n \in Nat, Within(s, c, n),
         TestsLocks(s), NEW h \in 1..Len(s), c[n + h].do = "value"
  PROVE  Vouched(c, n + h)
<1> DEFINE i == n + h
<1>0. Len(s) \in Nat /\ h \in Nat /\ i \in Nat /\ c[i] = s[h] /\ DOMAIN s = 1..Len(s)
  BY DEF Within
<1>1. PICK j \in 1..(h - 1) : s[j].do = "freeze" /\ StaysFrozen(s, j, h) /\ Tested(s, j, h)
  BY <1>0 DEF TestsLocks, Vouched
<1>2. n + j \in 1..(i - 1) /\ j \in 1..Len(s)
  BY <1>0, <1>1
<1>3. c[n + j] = s[j]
  BY <1>2 DEF Within
<1>4. StaysFrozen(c, n + j, i)
  <2> SUFFICES ASSUME NEW k \in (n + j + 1)..(i - 1) PROVE c[k].do # "unfreeze"
    BY DEF StaysFrozen
  <2>1. k - n \in (j + 1)..(h - 1) /\ k - n \in 1..Len(s) /\ k = n + (k - n)
    BY <1>0, <1>1
  <2>2. c[k] = s[k - n]
    BY <2>1 DEF Within
  <2> QED BY <1>1, <2>1, <2>2 DEF StaysFrozen
<1>5. Tested(c, n + j, i)
  <2>1. PICK k \in (j + 1)..(h - 1) : s[k].do = "test" /\ \E m \in (j + 1)..(k - 1) : s[m].do = "lock"
    BY <1>1 DEF Tested
  <2>2. PICK m \in (j + 1)..(k - 1) : s[m].do = "lock"
    BY <2>1
  <2>3. /\ n + k \in (n + j + 1)..(i - 1) /\ n + m \in (n + j + 1)..(n + k - 1)
        /\ k \in 1..Len(s) /\ m \in 1..Len(s)
    BY <1>0, <1>1, <2>1, <2>2
  <2>4. c[n + k] = s[k] /\ c[n + m] = s[m]
    BY <2>3 DEF Within
  <2> QED BY <2>1, <2>2, <2>3, <2>4 DEF Tested
<1> HIDE DEF i
<1>6. Vouched(c, i)
  BY <1>1, <1>2, <1>3, <1>4, <1>5 DEF Vouched
<1> QED BY <1>6 DEF i

LEMMA WithinThaws ==
  ASSUME NEW S, NEW s \in Seq(S), NEW c \in Seq(S), NEW n \in Nat, Within(s, c, n),
         ThawsAll(s), NEW h \in 1..Len(s), c[n + h].do = "freeze"
  PROVE  Thaws(c, n + h)
<1> DEFINE i == n + h
<1>0. Len(s) \in Nat /\ Len(c) \in Nat /\ n + Len(s) <= Len(c) /\ h \in Nat /\ i \in Nat
      /\ c[i] = s[h] /\ DOMAIN s = 1..Len(s)
  BY DEF Within
<1>1. PICK m \in (h + 1)..Len(s) :
        Releases(s[m]) /\ \A k \in (h + 1)..(m - 1) : s[k].undo # <<>> /\ Releases(s[k].undo[1])
  BY <1>0 DEF ThawsAll, Thaws
<1> DEFINE q == n + m
<1>2. q \in (i + 1)..Len(c) /\ m \in 1..Len(s)
  BY <1>0, <1>1
<1>3. Releases(c[q])
  BY <1>1, <1>2 DEF Within
<1>4. ASSUME NEW k \in (i + 1)..(q - 1)
      PROVE  c[k].undo # <<>> /\ Releases(c[k].undo[1])
  <2>1. k - n \in (h + 1)..(m - 1) /\ k - n \in 1..Len(s) /\ k = n + (k - n)
    BY <1>0, <1>1
  <2>2. c[k] = s[k - n]
    BY <2>1 DEF Within
  <2> QED BY <1>1, <2>1, <2>2
<1> HIDE DEF i, q
<1>5. Thaws(c, i)
  BY <1>2, <1>3, <1>4 DEF Thaws
<1> QED BY <1>5 DEF i

\* A script is sound when each of its accesses is in a part that is.
LEMMA PartsSound ==
  ASSUME NEW y, NEW U, NEW c \in Seq(Accesses(y, U)),
         \A i \in 1..Len(c) : \E s \in Sound(y, U), n \in Nat :
           Within(s, c, n) /\ i \in (n + 1)..(n + Len(s))
  PROVE  c \in Sound(y, U)
<1> DEFINE S == Accesses(y, U)
<1>0. \A s \in Sound(y, U) : s \in Seq(S) /\ SelectsBanks(s) /\ TestsLocks(s) /\ ThawsAll(s)
  BY DEF Sound
<1>1. c \in Seq(S) /\ DOMAIN c = 1..Len(c)
  OBVIOUS
<1> HIDE DEF S
<1>2. ASSUME NEW i \in 1..Len(c)
      PROVE  /\ Needs(c, i) => Selected(c, i)
             /\ c[i].do = "value" => Vouched(c, i)
             /\ c[i].do = "freeze" => Thaws(c, i)
  <2>1. PICK s \in Sound(y, U), n \in Nat : Within(s, c, n) /\ i \in (n + 1)..(n + Len(s))
    OBVIOUS
  <2>2. s \in Seq(S) /\ SelectsBanks(s) /\ TestsLocks(s) /\ ThawsAll(s) /\ Len(s) \in Nat
    BY <1>0
  <2> DEFINE h == i - n
  <2>3. h \in 1..Len(s) /\ i = n + h
    BY <2>1, <2>2
  <2> HIDE DEF h
  <2>4. Needs(c, n + h) => Selected(c, n + h)
    BY <1>1, <2>1, <2>2, <2>3, WithinBanks
  <2>5. c[n + h].do = "value" => Vouched(c, n + h)
    BY <1>1, <2>1, <2>2, <2>3, WithinLocks
  <2>6. c[n + h].do = "freeze" => Thaws(c, n + h)
    BY <1>1, <2>1, <2>2, <2>3, WithinThaws
  <2> QED BY <2>3, <2>4, <2>5, <2>6
<1>3. SelectsBanks(c) /\ TestsLocks(c) /\ ThawsAll(c)
  BY <1>1, <1>2 DEF SelectsBanks, TestsLocks, ThawsAll
<1> QED BY <1>1, <1>3 DEF Sound, S

LEMMA WithinCat ==
  ASSUME NEW S, NEW a \in Seq(S), NEW b \in Seq(S)
  PROVE  /\ Within(a, a \o b, 0) /\ Within(b, a \o b, Len(a))
         /\ \A i \in 1..Len(a \o b) : i \in (0 + 1)..(0 + Len(a)) \/ i \in (Len(a) + 1)..(Len(a) + Len(b))
<1> DEFINE c == a \o b
<1>0. /\ Len(c) = Len(a) + Len(b) /\ Len(a) \in Nat /\ Len(b) \in Nat
      /\ \A i \in 1..Len(a) : c[i] = a[i]
      /\ \A i \in 1..Len(b) : c[Len(a) + i] = b[i]
  BY CatAt
<1> HIDE DEF c
<1>1. Within(a, c, 0)
  BY <1>0 DEF Within
<1>2. Within(b, c, Len(a))
  BY <1>0 DEF Within
<1> QED BY <1>0, <1>1, <1>2 DEF c

LEMMA SelectsBanksCat ==
  ASSUME NEW S, NEW a \in Seq(S), NEW b \in Seq(S), SelectsBanks(a), SelectsBanks(b)
  PROVE  SelectsBanks(a \o b)
<1> DEFINE c == a \o b
<1>1. c \in Seq(S) /\ DOMAIN c = 1..Len(c) /\ Len(a) \in Nat
  OBVIOUS
<1>2. /\ Within(a, c, 0) /\ Within(b, c, Len(a))
      /\ \A i \in 1..Len(c) : i \in (0 + 1)..(0 + Len(a)) \/ i \in (Len(a) + 1)..(Len(a) + Len(b))
  BY WithinCat
<1> HIDE DEF c
<1>3. ASSUME NEW i \in 1..Len(c), Needs(c, i) PROVE Selected(c, i)
  <2>1. CASE i \in 1..Len(a)
    <3>1. 0 + i = i /\ 0 \in Nat
      OBVIOUS
    <3>2. Selected(c, 0 + i)
      BY <1>1, <1>2, <1>3, <2>1, <3>1, WithinBanks
    <3> QED BY <3>1, <3>2
  <2>2. CASE i \in (Len(a) + 1)..(Len(a) + Len(b))
    <3> DEFINE h == i - Len(a)
    <3>1. h \in 1..Len(b) /\ i = Len(a) + h
      BY <1>1, <2>2
    <3> HIDE DEF h
    <3>2. Selected(c, Len(a) + h)
      BY <1>1, <1>2, <1>3, <3>1, WithinBanks
    <3> QED BY <3>1, <3>2
  <2> QED BY <1>1, <1>2, <2>1, <2>2
<1> QED BY <1>1, <1>3 DEF SelectsBanks, c

\* Sound scripts one after the other are sound.
LEMMA SoundCat ==
  ASSUME NEW y, NEW U, NEW a \in Sound(y, U), NEW b \in Sound(y, U)
  PROVE  a \o b \in Sound(y, U)
<1> DEFINE S == Accesses(y, U)  c == a \o b
<1>1. a \in Seq(S) /\ b \in Seq(S) /\ c \in Seq(S) /\ Len(a) \in Nat
  BY DEF Sound
<1>2. /\ Within(a, c, 0) /\ Within(b, c, Len(a))
      /\ \A i \in 1..Len(c) : i \in (0 + 1)..(0 + Len(a)) \/ i \in (Len(a) + 1)..(Len(a) + Len(b))
  <2> HIDE DEF S
  <2> QED BY <1>1, WithinCat
<1> HIDE DEF c
<1>3. \A i \in 1..Len(c) : \E s \in Sound(y, U), n \in Nat :
        Within(s, c, n) /\ i \in (n + 1)..(n + Len(s))
  BY <1>1, <1>2
<1>4. c \in Sound(y, U)
  BY <1>1, <1>3, PartsSound
<1> QED BY <1>4 DEF c

LEMMA SoundMore ==
  ASSUME NEW y, NEW U, NEW V, U \subseteq V
  PROVE  Sound(y, U) \subseteq Sound(y, V)
<1>1. Accesses(y, U) \subseteq Accesses(y, V)
  BY DEF Accesses
<1>2. \A s \in Seq(Accesses(y, U)) : s \in Seq(Accesses(y, V))
  BY <1>1
<1> QED BY <1>2 DEF Sound

LEMMA EmptySound == ASSUME NEW y, NEW U PROVE <<>> \in Sound(y, U)
  BY DEF Sound, SelectsBanks, TestsLocks, ThawsAll

LEMMA Levels ==
  ASSUME NEW y
  PROVE  /\ <<>> \in Simple(y) /\ <<>> \in Undone(y) /\ <<>> \in Called(y)
         /\ Simple(y) \subseteq Undone(y) /\ Undone(y) \subseteq Called(y)
<1>1. <<>> \in Simple(y) /\ <<>> \in Undone(y) /\ <<>> \in Called(y)
  BY EmptySound DEF Simple, Undone, Called
<1>2. {<<>>} \subseteq Simple(y)
  BY <1>1
<1>3. Simple(y) \subseteq Undone(y)
  BY <1>2, SoundMore DEF Simple, Undone
<1>4. Undone(y) \subseteq Called(y)
  BY <1>3, SoundMore DEF Undone, Called
<1> QED BY <1>1, <1>3, <1>4

\* A script whose accesses are the same but for what there is to undo after them.
Same(s, r) ==
  /\ DOMAIN s = DOMAIN r
  /\ \A i \in DOMAIN s :
       /\ s[i].do = r[i].do /\ s[i].slave = r[i].slave /\ s[i].bank = r[i].bank
       /\ s[i].void = r[i].void

LEMMA SameSound ==
  ASSUME NEW S, NEW s \in Seq(S), NEW T, NEW r \in Seq(T), Same(s, r),
         SelectsBanks(s), TestsLocks(s), ThawsAll(s),
         \A i \in DOMAIN s :
           s[i].undo # <<>> /\ Releases(s[i].undo[1]) => r[i].undo # <<>> /\ Releases(r[i].undo[1])
  PROVE  SelectsBanks(r) /\ TestsLocks(r) /\ ThawsAll(r)
<1>0. DOMAIN s = 1..Len(s) /\ DOMAIN r = 1..Len(r) /\ Len(r) = Len(s) /\ Len(s) \in Nat
  BY DEF Same
<1>1. SelectsBanks(r)
  <2> SUFFICES ASSUME NEW i \in 1..Len(s), Needs(r, i) PROVE Selected(r, i)
    BY <1>0 DEF SelectsBanks
  <2>1. PICK j \in 1..(i - 1) : s[j].do = "bank" /\ s[j].slave = s[i].slave /\ s[j].bank = s[i].bank /\ StaysIn(s, j, i)
    BY <1>0 DEF SelectsBanks, Selected, Needs, Same
  <2>2. StaysIn(r, j, i)
    BY <1>0, <2>1 DEF StaysIn, Same
  <2> QED BY <1>0, <2>1, <2>2 DEF Selected, Same
<1>2. TestsLocks(r)
  <2> SUFFICES ASSUME NEW i \in 1..Len(s), r[i].do = "value" PROVE Vouched(r, i)
    BY <1>0 DEF TestsLocks
  <2>1. PICK j \in 1..(i - 1) : s[j].do = "freeze" /\ StaysFrozen(s, j, i) /\ Tested(s, j, i)
    BY <1>0 DEF TestsLocks, Vouched, Same
  <2>2. StaysFrozen(r, j, i)
    BY <1>0, <2>1 DEF StaysFrozen, Same
  <2>3. Tested(r, j, i)
    BY <1>0, <2>1 DEF Tested, Same
  <2> QED BY <1>0, <2>1, <2>2, <2>3 DEF Vouched, Same
<1>3. ThawsAll(r)
  <2> SUFFICES ASSUME NEW i \in 1..Len(s), r[i].do = "freeze" PROVE Thaws(r, i)
    BY <1>0 DEF ThawsAll
  <2>1. PICK m \in (i + 1)..Len(s) :
          Releases(s[m]) /\ \A k \in (i + 1)..(m - 1) : s[k].undo # <<>> /\ Releases(s[k].undo[1])
    BY <1>0 DEF ThawsAll, Thaws, Same
  <2>2. \A k \in (i + 1)..(m - 1) : r[k].undo # <<>> /\ Releases(r[k].undo[1])
    BY <1>0, <2>1
  <2>3. Releases(r[m])
    BY <1>0, <2>1 DEF Releases, Same
  <2> QED BY <1>0, <2>2, <2>3 DEF Thaws
<1> QED BY <1>1, <1>2, <1>3

\* What is undone by one of U, and then by d, is undone by one of V.
Longer(U, d, V) == \A u \in U : u \o d \in V
UndoneAfter(s, d, r) == \A i \in DOMAIN s : r[i].undo = s[i].undo \o d

LEMMA GuardedIs ==
  ASSUME NEW y, NEW U, NEW V, NEW d, NEW s \in Seq(Accesses(y, U)), Longer(U, d, V)
  PROVE  /\ Guarded(s, d) \in Seq(Accesses(y, V)) /\ Same(s, Guarded(s, d))
         /\ Len(Guarded(s, d)) = Len(s) /\ UndoneAfter(s, d, Guarded(s, d))
<1> DEFINE g == Guarded(s, d)
<1>0. DOMAIN s = 1..Len(s) /\ Len(s) \in Nat
  OBVIOUS
<1>1. g = [i \in 1..Len(s) |-> [s[i] EXCEPT !.undo = @ \o d]]
  BY <1>0 DEF Guarded
<1>2. ASSUME NEW i \in 1..Len(s)
      PROVE  /\ g[i] \in Accesses(y, V) /\ g[i].undo = s[i].undo \o d
             /\ s[i].do = g[i].do /\ s[i].slave = g[i].slave /\ s[i].bank = g[i].bank
             /\ s[i].void = g[i].void
  <2>1. g[i] = [s[i] EXCEPT !.undo = s[i].undo \o d]
    BY <1>1
  <2>2. s[i] \in Accesses(y, U)
    BY <1>0
  <2>3. s[i].undo \o d \in V
    BY <2>2 DEF Accesses, Longer
  <2> HIDE DEF g
  <2> QED BY <2>1, <2>2, <2>3 DEF Accesses
<1> HIDE DEF g
<1>3. g \in [1..Len(s) -> Accesses(y, V)]
  BY <1>1, <1>2
<1>4. g \in Seq(Accesses(y, V)) /\ Len(g) = Len(s)
  BY <1>0, <1>3
<1>5. DOMAIN g = 1..Len(s)
  BY <1>3
<1>6. Same(s, g)
  BY <1>0, <1>2, <1>5 DEF Same
<1>7. UndoneAfter(s, d, g)
  BY <1>0, <1>2 DEF UndoneAfter
<1> QED BY <1>4, <1>6, <1>7 DEF g

LEMMA GuardedSound ==
  ASSUME NEW y, NEW U, NEW V, NEW s \in Sound(y, U), NEW d,
         Longer(U, d, V), \A u \in U : u # <<>> => u \o d # <<>> /\ (u \o d)[1] = u[1]
  PROVE  Guarded(s, d) \in Sound(y, V)
<1> DEFINE g == Guarded(s, d)
<1>1. s \in Seq(Accesses(y, U)) /\ SelectsBanks(s) /\ TestsLocks(s) /\ ThawsAll(s)
  BY DEF Sound
<1>20. Longer(U, d, V)
  OBVIOUS
<1>2. g \in Seq(Accesses(y, V)) /\ Same(s, g) /\ UndoneAfter(s, d, g)
  BY <1>1, <1>20, GuardedIs
<1>3. \A i \in DOMAIN s : s[i].undo \in U
  BY <1>1 DEF Accesses
<1> HIDE DEF g
<1>4. \A i \in DOMAIN s :
        s[i].undo # <<>> /\ Releases(s[i].undo[1]) => g[i].undo # <<>> /\ Releases(g[i].undo[1])
  BY <1>2, <1>3 DEF UndoneAfter
<1>5. SelectsBanks(g) /\ TestsLocks(g) /\ ThawsAll(g)
  BY <1>1, <1>2, <1>4, SameSound
<1> QED BY <1>2, <1>5 DEF Sound, g

LEMMA UnfreezeIs ==
  ASSUME NEW y \in Systems
  PROVE  /\ <<Void(Unfreeze(y))>> \in Simple(y)
         /\ Releases(Void(Unfreeze(y))) /\ Void(Unfreeze(y)) \in Accesses(y, {<<>>})
         /\ Void(Unfreeze(y)).bank = "any" /\ Void(Unfreeze(y)).do = "unfreeze"
         /\ Freeze(y) \in Accesses(y, {<<>>})
         /\ Freeze(y).bank = "any" /\ Freeze(y).do = "freeze"
<1> DEFINE v == Void(Unfreeze(y))
<1> DEFINE w == Unfreeze(y)
<1>0. w = [do |-> "unfreeze", slave |-> y, bank |-> "any", undo |-> <<>>, void |-> FALSE, quiet |-> FALSE]
  BY DEF Unfreeze, Access
<1>00. v = [w EXCEPT !.void = TRUE]
  BY DEF Void
<1> HIDE DEF w, v
<1>1. /\ v \in [do : Steps, slave : Systems, bank : Banks, undo : {<<>>}, void : BOOLEAN, quiet : BOOLEAN]
      /\ v.do = "unfreeze" /\ v.slave = y /\ v.bank = "any" /\ v.undo = <<>> /\ v.void = TRUE
  BY <1>0, <1>00 DEF Steps, Banks
<1>2. Freeze(y) = [do |-> "freeze", slave |-> y, bank |-> "any", undo |-> <<>>, void |-> FALSE, quiet |-> FALSE]
  BY DEF Freeze, Access
<1>3. Releases(v) /\ v \in Accesses(y, {<<>>}) /\ v.bank = "any" /\ v.do = "unfreeze"
  BY <1>1 DEF Releases, Accesses
<1>4. Freeze(y) \in Accesses(y, {<<>>}) /\ Freeze(y).bank = "any" /\ Freeze(y).do = "freeze"
  BY <1>2 DEF Accesses, Steps, Banks
<1> HIDE DEF v
<1>5. <<v>> \in Simple(y)
  BY <1>3 DEF Simple, Sound, SelectsBanks, TestsLocks, ThawsAll, Needs
<1> QED BY <1>3, <1>4, <1>5 DEF v

\* The body of a function that freezes the registers: values come after the test of
\* the lock.
Body(y) ==
  {s \in Seq(Accesses(y, {<<>>})) :
     /\ \A i \in DOMAIN s : s[i].do \notin {"freeze", "unfreeze"}
     /\ \A i \in DOMAIN s : s[i].do = "value" => Tested(s, 0, i)}

LEMMA FrozenAt ==
  ASSUME NEW y \in Systems, NEW body \in Seq(Accesses(y, {<<>>}))
  PROVE  LET c == Frozen(y, body)  n == Len(body) IN
         /\ c \in Seq(Accesses(y, Simple(y))) /\ Len(c) = n + 2 /\ n \in Nat /\ DOMAIN body = 1..n
         /\ c[1] = Freeze(y) /\ c[n + 2] = Void(Unfreeze(y))
         /\ \A i \in 1..n :
              /\ c[i + 1].do = body[i].do /\ c[i + 1].slave = body[i].slave
              /\ c[i + 1].bank = body[i].bank /\ c[i + 1].undo = <<Void(Unfreeze(y))>>
<1> DEFINE v == Void(Unfreeze(y))  f == Freeze(y)  d == <<v>>  g == Guarded(body, d)
           P == Simple(y)  S == Accesses(y, P)
<1>1. /\ <<v>> \in Simple(y) /\ Releases(v) /\ v \in S /\ v.bank = "any" /\ v.do = "unfreeze"
      /\ f \in S /\ f.bank = "any" /\ f.do = "freeze"
  BY UnfreezeIs, Levels DEF Accesses
<1>2. body \in Seq(Accesses(y, {<<>>}))
  OBVIOUS
<1>3. <<>> \o d = d
  OBVIOUS
<1>4. \A u \in {<<>>} : u \o d \in P
  BY <1>1, <1>3
<1>7. Frozen(y, body) = <<f>> \o g \o <<v>>
  BY DEF Frozen
<1> DEFINE E == {<<>>}
<1>40. body \in Seq(Accesses(y, E)) /\ Longer(E, d, P)
  BY <1>2, <1>4 DEF Longer
<1> HIDE DEF P, d, v, f, E
<1>5. /\ g \in Seq(S) /\ Same(body, g) /\ Len(g) = Len(body) /\ UndoneAfter(body, d, g)
  BY <1>40, GuardedIs
<1>6. \A i \in DOMAIN body : g[i].undo = <<v>>
  <2>1. \A i \in DOMAIN body : body[i] \in Accesses(y, {<<>>})
    BY <1>2
  <2>2. \A i \in DOMAIN body : body[i].undo = <<>>
    BY <2>1 DEF Accesses
  <2>3. \A i \in DOMAIN body : g[i].undo = body[i].undo \o d
    BY <1>5 DEF UndoneAfter
  <2>4. \A i \in DOMAIN body : g[i].undo = d
    BY <1>3, <2>2, <2>3
  <2> QED BY <2>4 DEF d
<1> DEFINE n == Len(body)  c == <<f>> \o g \o <<v>>
<1> HIDE DEF g, S, c
<1>80. n \in Nat /\ Len(g) = n /\ DOMAIN body = 1..n
  BY <1>2, <1>5
<1> DEFINE fg == <<f>> \o g
<1>81. /\ fg \in Seq(S) /\ Len(fg) = n + 1 /\ fg[1] = f
       /\ \A i \in 1..n : fg[i + 1] = g[i]
  BY <1>1, <1>5, <1>80
<1>82. c = fg \o <<v>>
  BY DEF c
<1> HIDE DEF fg, n
<1>83. /\ c \in Seq(S) /\ Len(c) = n + 2 /\ c[n + 2] = v /\ \A i \in 1..(n + 1) : c[i] = fg[i]
  BY <1>1, <1>80, <1>81, <1>82
<1>8. /\ c \in Seq(S) /\ Len(c) = n + 2 /\ n \in Nat /\ DOMAIN body = 1..n
      /\ c[1] = f /\ c[n + 2] = v /\ \A i \in 1..n : c[i + 1] = g[i]
  BY <1>80, <1>81, <1>83
<1>9. \A i \in 1..n : /\ c[i + 1].do = body[i].do /\ c[i + 1].slave = body[i].slave
                      /\ c[i + 1].bank = body[i].bank /\ c[i + 1].undo = <<v>>
  <2> SUFFICES ASSUME NEW i \in 1..n
               PROVE  /\ c[i + 1].do = body[i].do /\ c[i + 1].slave = body[i].slave
                      /\ c[i + 1].bank = body[i].bank /\ c[i + 1].undo = <<v>>
    OBVIOUS
  <2>1. i \in DOMAIN body /\ c[i + 1] = g[i]
    BY <1>8
  <2>2. g[i].do = body[i].do /\ g[i].slave = body[i].slave /\ g[i].bank = body[i].bank
    BY <1>5, <2>1 DEF Same
  <2>3. g[i].undo = <<v>>
    BY <1>6, <2>1
  <2> QED BY <2>1, <2>2, <2>3
<1> QED BY <1>7, <1>8, <1>9 DEF S, P, c, n, f, v

LEMMA FrozenIs ==
  ASSUME NEW y \in Systems, NEW body \in Body(y)
  PROVE  /\ Frozen(y, body) \in Seq(Accesses(y, Simple(y)))
         /\ TestsLocks(Frozen(y, body)) /\ ThawsAll(Frozen(y, body))
         /\ (SelectsBanks(body) => SelectsBanks(Frozen(y, body)))
<1> DEFINE v == Void(Unfreeze(y))  f == Freeze(y)  S == Accesses(y, Simple(y))
           n == Len(body)  c == Frozen(y, body)
<1>1. Releases(v) /\ v.bank = "any" /\ v.do = "unfreeze" /\ f.bank = "any" /\ f.do = "freeze"
  BY UnfreezeIs
<1>2. /\ body \in Seq(Accesses(y, {<<>>}))
      /\ \A i \in DOMAIN body : body[i].do \notin {"freeze", "unfreeze"}
      /\ \A i \in DOMAIN body : body[i].do = "value" => Tested(body, 0, i)
  BY DEF Body
<1>8. /\ c \in Seq(S) /\ Len(c) = n + 2 /\ n \in Nat /\ DOMAIN body = 1..n
      /\ c[1] = f /\ c[n + 2] = v
  BY <1>2, FrozenAt
<1>9. \A i \in 1..n : /\ c[i + 1].do = body[i].do /\ c[i + 1].slave = body[i].slave
                      /\ c[i + 1].bank = body[i].bank /\ c[i + 1].undo = <<v>>
  BY <1>2, FrozenAt
<1> HIDE DEF v, f, S, n, c
<1>10. ASSUME NEW i \in 1..(n + 2) PROVE i = 1 \/ i = n + 2 \/ (i - 1 \in 1..n /\ c[i] = c[(i - 1) + 1])
  BY <1>8
<1>11. ASSUME SelectsBanks(body) PROVE SelectsBanks(c)
  <2> SUFFICES ASSUME NEW i \in 1..(n + 2), Needs(c, i) PROVE Selected(c, i)
    BY <1>8 DEF SelectsBanks
  <2> DEFINE h == i - 1
  <2>1. h \in 1..n /\ i = h + 1 /\ c[i].do = body[h].do /\ c[i].slave = body[h].slave /\ c[i].bank = body[h].bank
    BY <1>1, <1>8, <1>9, <1>10 DEF Needs
  <2>2. Selected(body, h)
    BY <1>8, <1>11, <2>1 DEF SelectsBanks, Needs
  <2>3. PICK j \in 1..(h - 1) :
          body[j].do = "bank" /\ body[j].slave = body[h].slave /\ body[j].bank = body[h].bank /\ StaysIn(body, j, h)
    BY <2>2 DEF Selected
  <2>4. j + 1 \in 1..(i - 1) /\ j \in 1..n
    BY <1>8, <2>1, <2>3
  <2>5. StaysIn(c, j + 1, i)
    <3> SUFFICES ASSUME NEW k \in (j + 1 + 1)..(i - 1), c[k].do = "bank", c[k].slave = c[i].slave
                 PROVE  c[k].bank = c[i].bank
      BY DEF StaysIn
    <3>1. k - 1 \in (j + 1)..(h - 1) /\ k - 1 \in 1..n /\ k = (k - 1) + 1
      BY <1>8, <2>1, <2>3
    <3>2. c[k].do = body[k - 1].do /\ c[k].slave = body[k - 1].slave /\ c[k].bank = body[k - 1].bank
      BY <1>9, <3>1
    <3> HIDE DEF h
    <3> QED BY <2>1, <2>3, <3>1, <3>2 DEF StaysIn
  <2> HIDE DEF h
  <2> QED BY <1>9, <2>1, <2>3, <2>4, <2>5 DEF Selected
<1>12. TestsLocks(c)
  <2> SUFFICES ASSUME NEW i \in 1..(n + 2), c[i].do = "value" PROVE Vouched(c, i)
    BY <1>8 DEF TestsLocks
  <2> DEFINE h == i - 1
  <2>1. h \in 1..n /\ i = h + 1 /\ c[i].do = body[h].do
    BY <1>1, <1>8, <1>9, <1>10
  <2>2. PICK k \in 1..(h - 1) : body[k].do = "test" /\ \E m \in 1..(k - 1) : body[m].do = "lock"
    BY <1>2, <1>8, <2>1 DEF Tested
  <2>3. PICK m \in 1..(k - 1) : body[m].do = "lock"
    BY <2>2
  <2>4. k + 1 \in 2..(i - 1) /\ m + 1 \in 2..(k + 1 - 1) /\ k \in 1..n /\ m \in 1..n
    BY <1>8, <2>1, <2>2, <2>3
  <2>5. c[k + 1].do = "test" /\ c[m + 1].do = "lock"
    BY <1>9, <2>2, <2>3, <2>4
  <2>6. 1 + 1 = 2
    OBVIOUS
  <2>7. Tested(c, 1, i)
    BY <2>4, <2>5, <2>6 DEF Tested
  <2>8. StaysFrozen(c, 1, i)
    <3> SUFFICES ASSUME NEW p \in 2..(i - 1) PROVE c[p].do # "unfreeze"
      BY <2>6 DEF StaysFrozen
    <3>1. p - 1 \in 1..n /\ p = (p - 1) + 1
      BY <1>8, <2>1
    <3> QED BY <1>2, <1>8, <1>9, <3>1
  <2>9. 1 \in 1..(i - 1)
    BY <2>1
  <2> QED BY <1>1, <1>8, <2>7, <2>8, <2>9 DEF Vouched
<1>13. ThawsAll(c)
  <2> SUFFICES ASSUME NEW i \in 1..(n + 2), c[i].do = "freeze" PROVE Thaws(c, i)
    BY <1>8 DEF ThawsAll
  <2>1. i = 1
    <3>1. CASE i = n + 2
      BY <1>1, <1>8, <3>1
    <3>2. CASE i - 1 \in 1..n /\ c[i] = c[(i - 1) + 1]
      BY <1>2, <1>8, <1>9, <3>2
    <3> QED BY <1>10, <3>1, <3>2
  <2>2. \A k \in 2..(n + 1) : c[k].undo # <<>> /\ Releases(c[k].undo[1])
    <3> SUFFICES ASSUME NEW k \in 2..(n + 1) PROVE c[k].undo # <<>> /\ Releases(c[k].undo[1])
      OBVIOUS
    <3>1. k - 1 \in 1..n /\ k = (k - 1) + 1
      BY <1>8
    <3>2. c[k].undo = <<v>>
      BY <1>9, <3>1
    <3> QED BY <1>1, <3>2
  <2>3. n + 2 \in (i + 1)..Len(c) /\ i + 1 = 2 /\ (n + 2) - 1 = n + 1
    BY <1>8, <2>1
  <2> QED BY <1>1, <1>8, <2>2, <2>3 DEF Thaws
<1> QED BY <1>8, <1>11, <1>12, <1>13 DEF S, c

LEMMA FrozenSound ==
  ASSUME NEW y \in Systems, NEW body \in Body(y), SelectsBanks(body)
  PROVE  Frozen(y, body) \in Undone(y)
  BY FrozenIs DEF Undone, Sound

-----------------------------------------------------------------------------
(* Accesses in one bank.                                                   *)

\* The accesses that stay in bank b of slave z, and those that touch no register.
InBank(y, z, b) ==
  {a \in Accesses(y, {<<>>}) :
     /\ a.do \notin {"freeze", "unfreeze"}
     /\ \/ a.slave = z /\ a.bank = b
        \/ a.do # "bank" /\ a.bank = "any"}
Quiet(y, z, b) == {a \in InBank(y, z, b) : a.do # "value"}

LEMMA AccessIs ==
  ASSUME NEW y, NEW do \in Steps \ {"freeze", "unfreeze"}, NEW z \in Systems, NEW b \in Banks
  PROVE  /\ Access(do, z, b).do = do /\ Access(do, z, b).slave = z /\ Access(do, z, b).bank = b
         /\ Access(do, z, b).undo = <<>>
         /\ Access(do, z, b) \in InBank(y, z, b)
         /\ (do # "value" => Access(do, z, b) \in Quiet(y, z, b))
         /\ (do # "bank" /\ b = "any" => \A x, d : Access(do, z, b) \in InBank(y, x, d))
         /\ (do \notin {"bank", "value"} /\ b = "any" => \A x, d : Access(do, z, b) \in Quiet(y, x, d))
  BY DEF Access, InBank, Quiet, Accesses

LEMMA AccessesIn ==
  ASSUME NEW y, NEW z \in Systems, NEW b \in Banks
  PROVE  /\ SetBank(z, b).do = "bank" /\ SetBank(z, b).slave = z /\ SetBank(z, b).bank = b
         /\ {SetBank(z, b), Read(z, b), Lock(z, b), Write(z, b), Poll(z, b), Test, Check}
              \subseteq Quiet(y, z, b)
         /\ Value(z, b) \in InBank(y, z, b) /\ Quiet(y, z, b) \subseteq InBank(y, z, b)
         /\ Lock(z, b).do = "lock" /\ Value(z, b).do = "value"
<1>1. {"bank", "read", "lock", "write", "poll", "value", "test", "check"}
        \subseteq Steps \ {"freeze", "unfreeze"}
  BY DEF Steps
<1>2. "T" \in Systems /\ "any" \in Banks
  BY DEF Systems, Banks
<1>3. SetBank(z, b).do = "bank" /\ SetBank(z, b).slave = z /\ SetBank(z, b).bank = b
  BY DEF SetBank, Access
<1>4. SetBank(z, b) \in Quiet(y, z, b)
  BY <1>1, AccessIs DEF SetBank
<1>5. Read(z, b) \in Quiet(y, z, b) /\ Write(z, b) \in Quiet(y, z, b)
  BY <1>1, AccessIs DEF Read, Write
<1>6. Lock(z, b) \in Quiet(y, z, b) /\ Poll(z, b) \in Quiet(y, z, b)
  BY <1>1, AccessIs DEF Lock, Poll
<1>7. Value(z, b) \in InBank(y, z, b)
  BY <1>1, AccessIs DEF Value
<1>11. Lock(z, b).do = "lock" /\ Value(z, b).do = "value"
  BY DEF Lock, Value, Access
<1>8. Test \in Quiet(y, z, b)
  BY <1>1, <1>2, AccessIs DEF Test
<1>9. Check \in Quiet(y, z, b)
  BY <1>1, <1>2, AccessIs DEF Check
<1>10. Quiet(y, z, b) \subseteq InBank(y, z, b)
  BY DEF Quiet
<1> QED BY <1>3, <1>4, <1>5, <1>6, <1>7, <1>8, <1>9, <1>10, <1>11

LEMMA TestIs == Test.do = "test" /\ Test.bank = "any" /\ Check.do = "check" /\ Check.bank = "any"
  BY DEF Test, Check, Access

LEMMA OneBank ==
  ASSUME NEW S, NEW s \in Seq(S), NEW z, NEW b, b # "any", s # <<>>,
         s[1].do = "bank", s[1].slave = z, s[1].bank = b,
         \A i \in DOMAIN s : \/ s[i].slave = z /\ s[i].bank = b
                             \/ s[i].do # "bank" /\ s[i].bank = "any"
  PROVE  SelectsBanks(s)
<1>0. DOMAIN s = 1..Len(s) /\ Len(s) \in Nat
  OBVIOUS
<1> SUFFICES ASSUME NEW i \in 1..Len(s), Needs(s, i) PROVE Selected(s, i)
  BY <1>0 DEF SelectsBanks
<1>1. s[i].slave = z /\ s[i].bank = b /\ i # 1
  BY <1>0 DEF Needs
<1>2. 1 \in 1..(i - 1) /\ \A k \in 2..(i - 1) : k \in DOMAIN s
  BY <1>0, <1>1
<1>3. StaysIn(s, 1, i)
  BY <1>1, <1>2 DEF StaysIn
<1> QED BY <1>1, <1>2, <1>3 DEF Selected

\* Accesses of a call that nothing freezes and that selects its banks.
Unfrozen(y) ==
  {s \in Seq(Accesses(y, {<<>>})) :
     SelectsBanks(s) /\ \A i \in DOMAIN s : s[i].do \notin {"freeze", "unfreeze"}}

LEMMA FirstSelects ==
  ASSUME NEW y, NEW z, NEW b, b # "any", NEW s \in Seq(InBank(y, z, b)), s # <<>>,
         s[1].do = "bank", s[1].slave = z, s[1].bank = b
  PROVE  s \in Unfrozen(y)
<1>2. \A i \in DOMAIN s : s[i] \in InBank(y, z, b)
  OBVIOUS
<1>3. InBank(y, z, b) \subseteq Accesses(y, {<<>>})
  BY DEF InBank
<1>4. s \in Seq(Accesses(y, {<<>>}))
  BY <1>3
<1>5. \A i \in DOMAIN s : /\ s[i].do \notin {"freeze", "unfreeze"}
                          /\ \/ s[i].slave = z /\ s[i].bank = b
                             \/ s[i].do # "bank" /\ s[i].bank = "any"
  BY <1>2 DEF InBank
<1>6. SelectsBanks(s)
  BY <1>4, <1>5, OneBank
<1> QED BY <1>4, <1>5, <1>6 DEF Unfrozen

LEMMA FirstSelectsQuiet ==
  ASSUME NEW y, NEW z, NEW b, b # "any", NEW s \in Seq(Quiet(y, z, b)), s # <<>>,
         s[1].do = "bank", s[1].slave = z, s[1].bank = b
  PROVE  s \in Simple(y) /\ s \in Unfrozen(y)
<1>1. Quiet(y, z, b) \subseteq InBank(y, z, b)
  BY DEF Quiet
<1>2. s \in Seq(InBank(y, z, b))
  BY <1>1
<1>3. s \in Unfrozen(y)
  BY <1>2, FirstSelects
<1>4. \A i \in DOMAIN s : s[i] \in Quiet(y, z, b)
  OBVIOUS
<1>5. \A i \in DOMAIN s : s[i].do # "value"
  BY <1>4 DEF Quiet
<1>6. TestsLocks(s) /\ ThawsAll(s)
  BY <1>3, <1>5 DEF TestsLocks, ThawsAll, Unfrozen
<1> QED BY <1>3, <1>6 DEF Unfrozen, Simple, Sound

LEMMA BlockUnfrozen ==
  ASSUME NEW y, NEW z \in Systems, NEW b \in Banks, b # "any", NEW s \in Seq(InBank(y, z, b)),
         s # <<>>, s[1] = SetBank(z, b)
  PROVE  s \in Unfrozen(y)
<1>1. s[1].do = "bank" /\ s[1].slave = z /\ s[1].bank = b
  BY AccessesIn
<1> QED BY <1>1, FirstSelects

LEMMA BlockSimple ==
  ASSUME NEW y, NEW z \in Systems, NEW b \in Banks, b # "any", NEW s \in Seq(Quiet(y, z, b)),
         s # <<>>, s[1] = SetBank(z, b)
  PROVE  s \in Simple(y) /\ s \in Unfrozen(y)
<1>1. s[1].do = "bank" /\ s[1].slave = z /\ s[1].bank = b
  BY AccessesIn
<1> QED BY <1>1, FirstSelectsQuiet

LEMMA UnfrozenCat ==
  ASSUME NEW y, NEW a \in Unfrozen(y), NEW b \in Unfrozen(y)
  PROVE  a \o b \in Unfrozen(y)
<1> DEFINE S == Accesses(y, {<<>>})  c == a \o b
<1>1. /\ a \in Seq(S) /\ b \in Seq(S) /\ SelectsBanks(a) /\ SelectsBanks(b)
      /\ \A i \in DOMAIN a : a[i].do \notin {"freeze", "unfreeze"}
      /\ \A i \in DOMAIN b : b[i].do \notin {"freeze", "unfreeze"}
  BY DEF Unfrozen
<1>2. c \in Seq(S) /\ SelectsBanks(c)
  <2> HIDE DEF S
  <2> QED BY <1>1, SelectsBanksCat
<1>3. \A i \in DOMAIN c : c[i].do \notin {"freeze", "unfreeze"}
  <2> HIDE DEF S
  <2> SUFFICES ASSUME NEW i \in DOMAIN c PROVE c[i].do \notin {"freeze", "unfreeze"}
    OBVIOUS
  <2>1. \/ i \in 1..Len(a) /\ c[i] = a[i]
        \/ c[i] = b[i - Len(a)] /\ i - Len(a) \in 1..Len(b)
    BY <1>1, CatAt
  <2> QED BY <1>1, <2>1
<1> QED BY <1>2, <1>3 DEF Unfrozen

\* What comes after the test of the lock that was read.
LEMMA BodyCat ==
  ASSUME NEW y, NEW a \in Seq(Accesses(y, {<<>>})), NEW b \in Seq(Accesses(y, {<<>>})),
         \A i \in DOMAIN (a \o b) : (a \o b)[i].do \notin {"freeze", "unfreeze"},
         \A i \in DOMAIN a : a[i].do # "value",
         NEW k \in 1..Len(a), NEW m \in 1..(k - 1), a[k].do = "test", a[m].do = "lock"
  PROVE  a \o b \in Body(y)
<1> DEFINE c == a \o b
<1>0. Len(a) \in Nat /\ Len(b) \in Nat /\ DOMAIN a = 1..Len(a)
  OBVIOUS
<1>1. \A i \in 1..Len(a) : c[i] = a[i]
  OBVIOUS
<1>2. /\ c \in Seq(Accesses(y, {<<>>}))
      /\ \A i \in DOMAIN c : c[i].do \notin {"freeze", "unfreeze"}
  OBVIOUS
<1>3. DOMAIN c = 1..Len(c)
  BY <1>2
<1> HIDE DEF c
<1>4. ASSUME NEW i \in DOMAIN c, c[i].do = "value" PROVE Tested(c, 0, i)
  <2>1. i > Len(a)
    BY <1>0, <1>1, <1>3, <1>4
  <2>2. k \in 1..(i - 1) /\ c[k] = a[k] /\ c[m] = a[m]
    BY <1>0, <1>1, <1>3, <2>1
  <2> QED BY <2>2 DEF Tested
<1> QED BY <1>2, <1>4 DEF Body, c

-----------------------------------------------------------------------------
(* The scripts.                                                            *)

LEMMA HeadCat ==
  ASSUME NEW S, NEW a \in Seq(S), NEW b \in Seq(S), a # <<>>
  PROVE  a \o b \in Seq(S) /\ a \o b # <<>> /\ (a \o b)[1] = a[1]
<1>1. Len(a) \in Nat /\ Len(a) # 0
  OBVIOUS
<1>2. 1 \in 1..Len(a)
  BY <1>1
<1>3. Len(a \o b) = Len(a) + Len(b) /\ Len(b) \in Nat
  OBVIOUS
<1>4. a \o b # <<>>
  BY <1>1, <1>3
<1> QED BY <1>2, <1>4, CatAt

LEMMA CheckSound == ASSUME NEW y PROVE <<Check>> \in Simple(y) /\ <<Check>> \in Undone(y)
<1>1. Check \in Accesses(y, {<<>>}) /\ Check.do = "check" /\ Check.bank = "any"
  <2>1. Check \in Quiet(y, "T", "0")
    BY AccessesIn DEF Banks, Systems
  <2> QED BY <2>1, TestIs DEF Quiet, InBank
<1>2. <<Check>> \in Simple(y)
  BY <1>1 DEF Simple, Sound, SelectsBanks, TestsLocks, ThawsAll, Needs
<1> QED BY <1>2, Levels

LEMMA PlainSound ==
  ASSUME NEW y, NEW z \in Systems, NEW b \in Banks \ {"any"}
  PROVE  /\ Plain(z, b) \in Simple(y) /\ Plain(z, b) \in Unfrozen(y)
         /\ RFAGCWrite(z, b) \in Simple(y)
         /\ <<SetBank(z, b)>> \o SetRegisterBits(z, b) \in Simple(y)
<1> DEFINE Q == Quiet(y, z, b)  sb == SetBank(z, b)  rd == Read(z, b)  wr == Write(z, b)
<1>1. {sb, rd, wr} \subseteq Q
  BY AccessesIn
<1>2. Plain(z, b) = <<sb, rd>> /\ RFAGCWrite(z, b) = <<sb, wr>>
  BY DEF Plain, RFAGCWrite
<1>3. SetRegisterBits(z, b) = <<rd, wr>>
  BY DEF SetRegisterBits
<1> HIDE DEF Q, sb, rd, wr
<1>4. /\ <<sb, rd>> \in Seq(Q) /\ <<sb, wr>> \in Seq(Q) /\ <<sb>> \in Seq(Q) /\ <<rd, wr>> \in Seq(Q)
      /\ <<sb, rd>> # <<>> /\ <<sb, wr>> # <<>> /\ <<sb>> # <<>>
      /\ <<sb, rd>>[1] = sb /\ <<sb, wr>>[1] = sb /\ <<sb>>[1] = sb
  BY <1>1
<1> DEFINE u == <<sb>>  w == <<rd, wr>>
<1> HIDE DEF u, w
<1>6. u \o w \in Seq(Q) /\ u \o w # <<>> /\ (u \o w)[1] = sb
  BY <1>4, HeadCat DEF u, w
<1>5. \A s \in Seq(Q) : s # <<>> /\ s[1] = sb => s \in Simple(y) /\ s \in Unfrozen(y)
  BY BlockSimple DEF Q, sb
<1>7. u \o w \in Simple(y)
  BY <1>5, <1>6
<1> QED BY <1>2, <1>3, <1>4, <1>5, <1>7 DEF u, w, sb

LEMMA CountSound ==
  ASSUME NEW y, NEW z \in Systems
  PROVE  CountErrors(z) \in Simple(y)
<1> DEFINE Q == Quiet(y, z, "0")  sb == SetBank(z, "0")  rd == Read(z, "0")
           wr == Write(z, "0")  po == Poll(z, "0")
<1>0. "0" \in Banks /\ "0" # "any"
  BY DEF Banks
<1>1. {sb, rd, wr, po} \subseteq Q
  BY <1>0, AccessesIn
<1>2. CountErrors(z) = <<sb, wr, po, rd>>
  BY DEF CountErrors
<1> HIDE DEF Q, sb, rd, wr, po
<1>3. <<sb, wr, po, rd>> \in Seq(Q) /\ <<sb, wr, po, rd>> # <<>> /\ <<sb, wr, po, rd>>[1] = sb
  BY <1>1
<1>4. \A s \in Seq(Q) : s # <<>> /\ s[1] = sb => s \in Simple(y) /\ s \in Unfrozen(y)
  BY <1>0, BlockSimple DEF Q, sb
<1> QED BY <1>2, <1>3, <1>4

\* A function that freezes the registers, tests the lock and then reads values.
LEMMA LockedSound ==
  ASSUME NEW y \in Systems, NEW a \in Unfrozen(y), NEW b \in Unfrozen(y),
         \A i \in DOMAIN a : a[i].do # "value",
         NEW k \in 1..Len(a), NEW m \in 1..(k - 1), a[k].do = "test", a[m].do = "lock"
  PROVE  Frozen(y, a \o b) \in Undone(y)
<1>1. a \o b \in Unfrozen(y)
  BY UnfrozenCat
<1>2. a \in Seq(Accesses(y, {<<>>})) /\ b \in Seq(Accesses(y, {<<>>}))
  BY DEF Unfrozen
<1>4. SelectsBanks(a \o b) /\ \A i \in DOMAIN (a \o b) : (a \o b)[i].do \notin {"freeze", "unfreeze"}
  BY <1>1 DEF Unfrozen
<1>3. a \o b \in Body(y) /\ SelectsBanks(a \o b)
  BY <1>2, <1>4, BodyCat
<1> QED BY <1>3, FrozenSound

LEMMA ValuesUnfrozen ==
  ASSUME NEW y, NEW z \in Systems, NEW b \in Banks \ {"any"}
  PROVE  /\ <<SetBank(z, b), Value(z, b)>> \in Unfrozen(y)
         /\ <<SetBank(z, b), Value(z, b), Value(z, b)>> \in Unfrozen(y)
<1> DEFINE I == InBank(y, z, b)  sb == SetBank(z, b)  v == Value(z, b)
<1>1. {sb, v} \subseteq I
  BY AccessesIn
<1>2. \A s \in Seq(I) : s # <<>> /\ s[1] = sb => s \in Unfrozen(y)
  BY BlockUnfrozen
<1> HIDE DEF I, sb, v
<1>30. /\ <<sb, v>> \in Seq(I) /\ <<sb, v>> # <<>> /\ <<sb, v>>[1] = sb
       /\ <<sb, v, v>> \in Seq(I) /\ <<sb, v, v>> # <<>> /\ <<sb, v, v>>[1] = sb
  BY <1>1
<1>3. <<sb, v>> \in Unfrozen(y) /\ <<sb, v, v>> \in Unfrozen(y)
  BY <1>2, <1>30
<1> QED BY <1>3 DEF sb, v

\* The lock that DVB-T and DVB-C test before they read anything else.
LEMMA SyncSound ==
  ASSUME NEW y, NEW z \in Systems
  PROVE  LET s == <<SetBank(z, "0"), Lock(z, "0"), Read(z, "0")>> \o <<Test>> IN
         /\ <<SetBank(z, "0"), Lock(z, "0"), Read(z, "0")>> \in Simple(y)
         /\ s \in Simple(y) /\ s \in Unfrozen(y) /\ Len(s) = 4
         /\ s[4].do = "test" /\ s[2].do = "lock" /\ \A i \in DOMAIN s : s[i].do # "value"
<1> DEFINE Q == Quiet(y, z, "0")  sb == SetBank(z, "0")  rd == Read(z, "0")
           lk == Lock(z, "0")  te == Test
<1>0. "0" \in Banks /\ "0" # "any"
  BY DEF Banks
<1>1. {sb, rd, lk, te} \subseteq Q /\ te.do = "test" /\ lk.do = "lock"
  BY <1>0, AccessesIn, TestIs
<1>2. \A s \in Seq(Q) : s # <<>> /\ s[1] = sb => s \in Simple(y) /\ s \in Unfrozen(y)
  BY <1>0, BlockSimple
<1>3. \A a \in Q : a.do # "value"
  BY DEF Quiet
<1> HIDE DEF Q, sb, rd, lk, te
<1> DEFINE p == <<sb, lk, rd>>  tt == <<te>>  q == p \o tt
<1>4. /\ p \in Seq(Q) /\ p # <<>> /\ p[1] = sb /\ p[2] = lk /\ Len(p) = 3
      /\ tt \in Seq(Q) /\ tt[1] = te /\ Len(tt) = 1
  BY <1>1
<1> HIDE DEF p, tt
<1>40. q \in Seq(Q) /\ q # <<>> /\ q[1] = sb
  BY <1>4, HeadCat
<1>41. Len(q) = 4 /\ q[4] = te /\ q[2] = lk
  <2>2. 1 \in 1..Len(tt) /\ 2 \in 1..Len(p)
    BY <1>4
  <2>3. /\ Len(q) = Len(p) + Len(tt)
        /\ \A i \in 1..Len(p) : q[i] = p[i]
        /\ \A i \in 1..Len(tt) : q[Len(p) + i] = tt[i]
    <3>1. p \in Seq(Q) /\ tt \in Seq(Q)
      BY <1>4
    <3> HIDE DEF q
    <3>2. \A a, b \in Seq(Q) : /\ Len(a \o b) = Len(a) + Len(b)
                               /\ \A i \in 1..Len(a) : (a \o b)[i] = a[i]
                               /\ \A i \in 1..Len(b) : (a \o b)[Len(a) + i] = b[i]
      BY CatAt
    <3> QED BY <3>1, <3>2 DEF q
  <2>1. Len(q) = Len(p) + Len(tt) /\ q[Len(p) + 1] = tt[1] /\ q[2] = p[2]
    BY <2>2, <2>3
  <2> QED BY <1>4, <2>1
<1>5. q \in Seq(Q) /\ q # <<>> /\ q[1] = sb /\ Len(q) = 4 /\ q[4] = te /\ q[2] = lk
  BY <1>40, <1>41
<1> HIDE DEF q
<1>6. p \in Simple(y) /\ q \in Simple(y) /\ q \in Unfrozen(y)
  BY <1>2, <1>4, <1>5
<1>7. \A i \in DOMAIN q : q[i].do # "value"
  BY <1>3, <1>5
<1> QED BY <1>1, <1>5, <1>6, <1>7 DEF p, q, tt, sb, rd, lk, te

\* DVB-T.
LEMMA LockedT ==
  /\ T_SyncStat \in Simple("T") /\ IsTPSLocked \in Simple("T")
  /\ \A b \in Unfrozen("T") : T_Locked(b) \in Undone("T")
<1>0. "T" \in Systems
  BY DEF Systems
<1> DEFINE s == <<SetBank("T", "0"), Lock("T", "0"), Read("T", "0")>>  q == s \o <<Test>>
<1>1. /\ s \in Simple("T") /\ q \in Simple("T") /\ q \in Unfrozen("T") /\ Len(q) = 4
      /\ q[4].do = "test" /\ q[2].do = "lock" /\ \A i \in DOMAIN q : q[i].do # "value"
  BY <1>0, SyncSound
<1>2. T_SyncStat = s /\ IsTPSLocked = q
  BY DEF T_SyncStat, IsTPSLocked
<1> HIDE DEF s, q
<1>3. 4 \in 1..Len(q) /\ 2 \in 1..(4 - 1)
  BY <1>1
<1>4. ASSUME NEW b \in Unfrozen("T") PROVE T_Locked(b) \in Undone("T")
  <2>1. T_Locked(b) = Frozen("T", q \o b)
    BY <1>2 DEF T_Locked
  <2> QED BY <1>0, <1>1, <1>3, <2>1, LockedSound
<1> QED BY <1>1, <1>2, <1>4

LEMMA LockedC ==
  /\ C_SyncStat \in Simple("C") /\ IsARLocked \in Simple("C")
  /\ \A b \in Unfrozen("C") : C_Locked(b) \in Undone("C")
<1>0. "C" \in Systems
  BY DEF Systems
<1> DEFINE s == <<SetBank("C", "0"), Lock("C", "0"), Read("C", "0")>>  q == s \o <<Test>>
<1>1. /\ s \in Simple("C") /\ q \in Simple("C") /\ q \in Unfrozen("C") /\ Len(q) = 4
      /\ q[4].do = "test" /\ q[2].do = "lock" /\ \A i \in DOMAIN q : q[i].do # "value"
  BY <1>0, SyncSound
<1>2. C_SyncStat = s /\ IsARLocked = q
  BY DEF C_SyncStat, IsARLocked
<1> HIDE DEF s, q
<1>3. 4 \in 1..Len(q) /\ 2 \in 1..(4 - 1)
  BY <1>1
<1>4. ASSUME NEW b \in Unfrozen("C") PROVE C_Locked(b) \in Undone("C")
  <2>1. C_Locked(b) = Frozen("C", q \o b)
    BY <1>2 DEF C_Locked
  <2> QED BY <1>0, <1>1, <1>3, <2>1, LockedSound
<1> QED BY <1>1, <1>2, <1>4

LEMMA UndoneCat ==
  ASSUME NEW y, NEW a \in Undone(y), NEW b \in Undone(y) PROVE a \o b \in Undone(y)
  BY SoundCat DEF Undone

LEMMA SimpleUndone == ASSUME NEW y, NEW a \in Simple(y) PROVE a \in Undone(y)
  BY Levels

LEMMA FunctionsT ==
  /\ T_Bank0 \in Undone("T") /\ T_CarrierOffset \in Undone("T") /\ T_CNValue \in Undone("T")
  /\ T_MER \in Undone("T") /\ T_SNR \in Undone("T") /\ T_PreViterbiBER \in Undone("T")
  /\ T_SamplingOffset \in Undone("T") /\ T_PreRSBER \in Undone("T") /\ T_Quality \in Undone("T")
<1>0. "T" \in Systems /\ {"0", "7"} \subseteq Banks \ {"any"}
  BY DEF Systems, Banks
<1>1. <<Check>> \in Undone("T")
  BY CheckSound
<1>2. T_Bank0 \in Undone("T") /\ T_PreViterbiBitError \in Undone("T")
  BY <1>0, ValuesUnfrozen, LockedT DEF T_Bank0, T_PreViterbiBitError
<1>3. T_SpectrumSense \in Undone("T")
  BY <1>0, PlainSound, SimpleUndone DEF T_SpectrumSense
<1>4. T_PreRSBitError \in Undone("T")
  BY <1>0, LockedT, CountSound, SimpleUndone, UndoneCat DEF T_PreRSBitError
<1>5. T_CarrierOffset \in Undone("T")
  BY <1>2, <1>3, UndoneCat DEF T_CarrierOffset
<1>6. T_CNValue \in Undone("T")
  BY <1>1, <1>2, UndoneCat DEF T_CNValue, T_MERDT
<1>7. T_MER \in Undone("T")
  BY <1>1, <1>2, UndoneCat DEF T_MER, T_MERDT, T_ModeGuard
<1>8. T_SNR \in Undone("T") /\ T_SamplingOffset \in Undone("T")
  BY <1>1, <1>2, UndoneCat DEF T_SNR, T_SNRReg, T_SamplingOffset
<1>9. T_PreViterbiBER \in Undone("T") /\ T_PreRSBER \in Undone("T")
  BY <1>1, <1>2, <1>4, UndoneCat DEF T_PreViterbiBER, T_PreRSBER
<1>10. T_Quality \in Undone("T")
  BY <1>1, <1>2, <1>6, <1>9, UndoneCat DEF T_Quality, T_TPSInfo
<1> QED BY <1>2, <1>5, <1>6, <1>7, <1>8, <1>9, <1>10

\* DVB-C.
LEMMA FunctionsC ==
  /\ C_Bank0 \in Undone("C") /\ C_SNR \in Undone("C") /\ C_PreRSBER \in Undone("C")
<1>0. "C" \in Systems /\ "0" \in Banks \ {"any"}
  BY DEF Systems, Banks
<1>1. <<Check>> \in Undone("C")
  BY CheckSound
<1>2. C_Bank0 \in Undone("C")
  BY <1>0, ValuesUnfrozen, LockedC DEF C_Bank0
<1>3. C_PreRSBitError \in Undone("C")
  BY <1>0, LockedC, CountSound, SimpleUndone, UndoneCat DEF C_PreRSBitError
<1>4. C_SNR \in Undone("C")
  BY <1>1, <1>2, UndoneCat DEF C_SNR, C_QAM, C_SNRReg
<1>5. C_PreRSBER \in Undone("C")
  BY <1>1, <1>3, UndoneCat DEF C_PreRSBER
<1> QED BY <1>2, <1>4, <1>5

\* DVB-T2.
LEMMA Eighths ==
  ASSUME NEW n \in Nat, NEW i \in 1..(n * 8)
  PROVE  \E p \in Nat : /\ p * 8 + 8 <= n * 8 /\ i \in (p * 8 + 1)..(p * 8 + 8)
                        /\ \A h \in 1..8 : (((p * 8 + h) - 1) % 8) + 1 = h
<1> DEFINE p == (i - 1) \div 8
<1>1. p \in Nat /\ 8 * p <= i - 1 /\ i - 1 < 8 * p + 8
  OBVIOUS
<1> HIDE DEF p
<1>2. p * 8 + 8 <= n * 8 /\ i \in (p * 8 + 1)..(p * 8 + 8)
  BY <1>1
<1>3. ASSUME NEW h \in 1..8 PROVE (((p * 8 + h) - 1) % 8) + 1 = h
  BY <1>1
<1> QED BY <1>1, <1>2, <1>3

LEMMA RepeatedSound ==
  ASSUME NEW y, NEW U, NEW s \in Sound(y, U), Len(s) = 8, NEW n \in Nat
  PROVE  Repeated(s, n) \in Sound(y, U)
<1> DEFINE S == Accesses(y, U)  c == Repeated(s, n)
<1>1. s \in Seq(S)
  BY DEF Sound
<1>2. c = [i \in 1..(n * 8) |-> s[((i - 1) % 8) + 1]]
  BY DEF Repeated
<1>3. ASSUME NEW i \in 1..(n * 8) PROVE ((i - 1) % 8) + 1 \in 1..8
  OBVIOUS
<1> HIDE DEF c, S
<1>4. c \in [1..(n * 8) -> S]
  <2>0. Len(s) = 8
    OBVIOUS
  <2>1. \A j \in 1..8 : s[j] \in S
    <3> SUFFICES ASSUME NEW j \in 1..8 PROVE s[j] \in S
      OBVIOUS
    <3>1. j \in 1..Len(s)
      BY <2>0
    <3> QED BY <1>1, <3>1, ElementIn
  <2> QED BY <1>2, <1>3, <2>1
<1>5. c \in Seq(S) /\ Len(c) = n * 8
  BY <1>4
<1>6. ASSUME NEW i \in 1..Len(c)
      PROVE  \E r \in Sound(y, U), m \in Nat : Within(r, c, m) /\ i \in (m + 1)..(m + Len(r))
  <2>1. PICK p \in Nat : /\ p * 8 + 8 <= n * 8 /\ i \in (p * 8 + 1)..(p * 8 + 8)
                         /\ \A h \in 1..8 : (((p * 8 + h) - 1) % 8) + 1 = h
    BY <1>5, Eighths
  <2> DEFINE m == p * 8
  <2>2. ASSUME NEW h \in 1..8 PROVE c[m + h] = s[h]
    <3>1. m + h \in 1..(n * 8)
      BY <2>1
    <3>2. c[m + h] = s[(((m + h) - 1) % 8) + 1]
      BY <1>2, <3>1
    <3> QED BY <2>1, <3>2
  <2>3. m \in Nat /\ Within(s, c, m) /\ i \in (m + 1)..(m + Len(s))
    BY <1>5, <2>1, <2>2 DEF Within
  <2> HIDE DEF m
  <2> QED BY <2>3
<1>7. c \in Sound(y, U)
  BY <1>5, <1>6, PartsSound DEF S
<1> QED BY <1>7 DEF c

LEMMA LockedT2 ==
  /\ T2_SyncStat \in Simple("T2")
  /\ \A b \in Unfrozen("T2") : T2_Locked(b) \in Undone("T2") /\ Len(T2_Locked(b)) = Len(b) + 5
<1>0. "T2" \in Systems /\ "20" \in Banks /\ "20" # "any"
  BY DEF Systems, Banks
<1> DEFINE Q == Quiet("T2", "T2", "20")  sb == SetBank("T2", "20")  lk == Lock("T2", "20")  te == Test
           s == <<sb, lk>>  r == <<te>>  q == s \o r
<1>1. {sb, lk, te} \subseteq Q /\ te.do = "test" /\ lk.do = "lock"
  BY <1>0, AccessesIn, TestIs
<1>2. \A x \in Seq(Q) : x # <<>> /\ x[1] = sb => x \in Simple("T2") /\ x \in Unfrozen("T2")
  BY <1>0, BlockSimple
<1>3. \A a \in Q : a.do # "value"
  BY DEF Quiet
<1>30. T2_SyncStat = s /\ \A b : T2_Locked(b) = Frozen("T2", q \o b)
  BY DEF T2_SyncStat, T2_Locked
<1> HIDE DEF Q, sb, lk, te
<1>4. /\ s \in Seq(Q) /\ s # <<>> /\ s[1] = sb /\ s[2] = lk /\ Len(s) = 2
      /\ r \in Seq(Q) /\ r[1] = te /\ Len(r) = 1
  BY <1>1
<1> HIDE DEF s, r
<1>5. q \in Seq(Q) /\ q # <<>> /\ q[1] = sb
  BY <1>4, HeadCat
<1>6. Len(q) = 3 /\ q[3] = te /\ q[2] = lk
  <2>1. 1 \in 1..Len(r) /\ 2 \in 1..Len(s) /\ s \in Seq(Q) /\ r \in Seq(Q)
    BY <1>4
  <2>2. \A a, b \in Seq(Q) : /\ Len(a \o b) = Len(a) + Len(b)
                             /\ \A i \in 1..Len(a) : (a \o b)[i] = a[i]
                             /\ \A i \in 1..Len(b) : (a \o b)[Len(a) + i] = b[i]
    BY CatAt
  <2> HIDE DEF q
  <2>3. /\ Len(q) = Len(s) + Len(r) /\ q[2] = s[2] /\ q[Len(s) + 1] = r[1]
    BY <2>1, <2>2 DEF q
  <2> QED BY <1>4, <2>3
<1> HIDE DEF q
<1>7. s \in Simple("T2") /\ q \in Unfrozen("T2")
  BY <1>2, <1>4, <1>5
<1>8. \A i \in DOMAIN q : q[i].do # "value"
  BY <1>3, <1>5
<1>9. 3 \in 1..Len(q) /\ 2 \in 1..(3 - 1) /\ q[3].do = "test" /\ q[2].do = "lock"
  BY <1>1, <1>6
<1>10. ASSUME NEW b \in Unfrozen("T2")
       PROVE  T2_Locked(b) \in Undone("T2") /\ Len(T2_Locked(b)) = Len(b) + 5
  <2>1. T2_Locked(b) = Frozen("T2", q \o b)
    BY <1>30
  <2>2. Frozen("T2", q \o b) \in Undone("T2")
    BY <1>0, <1>7, <1>8, <1>9, LockedSound
  <2>3. q \o b \in Seq(Accesses("T2", {<<>>})) /\ Len(q \o b) = 3 + Len(b) /\ Len(b) \in Nat
    <3>1. q \o b \in Unfrozen("T2")
      BY <1>7, UnfrozenCat
    <3>2. b \in Seq(Accesses("T2", {<<>>})) /\ q \in Seq(Accesses("T2", {<<>>}))
      BY <1>7 DEF Unfrozen
    <3>3. q \o b \in Seq(Accesses("T2", {<<>>})) /\ Len(q \o b) = Len(q) + Len(b) /\ Len(b) \in Nat
      BY <3>2, CatLen
    <3> QED BY <1>6, <3>3
  <2>4. Len(Frozen("T2", q \o b)) = Len(q \o b) + 2
    BY <1>0, <2>3, FrozenAt
  <2> QED BY <2>1, <2>2, <2>3, <2>4
<1> QED BY <1>7, <1>10, <1>30

LEMMA ValuesT2 ==
  ASSUME NEW b \in Banks \ {"any"}
  PROVE  T2_Value(b) \in Undone("T2") /\ Len(T2_Value(b)) = 7
<1> DEFINE s == <<SetBank("T2", b), Value("T2", b)>>
<1>1. s \in Unfrozen("T2")
  BY ValuesUnfrozen DEF Systems
<1>2. Len(s) = 2
  OBVIOUS
<1>3. T2_Value(b) = T2_Locked(s)
  BY DEF T2_Value
<1> HIDE DEF s
<1>4. T2_Locked(s) \in Undone("T2") /\ Len(T2_Locked(s)) = Len(s) + 5
  BY <1>1, LockedT2
<1> QED BY <1>2, <1>3, <1>4

LEMMA MerT2 == T2_MER \in Undone("T2") /\ Len(T2_MER) = 8
<1>1. T2_Value("20") \in Undone("T2") /\ Len(T2_Value("20")) = 7
  BY ValuesT2 DEF Banks
<1> DEFINE c == <<Check>>  v == T2_Value("20")
<1>2. c \in Undone("T2") /\ Len(c) = 1
  BY CheckSound
<1>3. T2_MER = v \o c
  BY DEF T2_MER
<1> HIDE DEF v, c
<1>4. v \in Seq(Accesses("T2", Simple("T2"))) /\ c \in Seq(Accesses("T2", Simple("T2")))
  BY <1>1, <1>2 DEF Undone, Sound, v
<1>5. v \o c \in Undone("T2")
  BY <1>1, <1>2, UndoneCat DEF v
<1>6. Len(v \o c) = Len(v) + Len(c)
  BY <1>4, CatLen
<1>7. Len(v) = 7
  BY <1>1 DEF v
<1>8. Len(v \o c) = 8
  BY <1>2, <1>6, <1>7
<1> QED BY <1>3, <1>5, <1>8

\* What is done in any case can be put behind what there was to undo.
LEMMA GuardedUndone ==
  ASSUME NEW y, NEW s \in Undone(y), NEW d \in Simple(y)
  PROVE  Guarded(s, d) \in Undone(y)
<1>1. Longer(Simple(y), d, Simple(y))
  BY SoundCat DEF Longer, Simple
<1>2. ASSUME NEW u \in Simple(y), u # <<>> PROVE u \o d # <<>> /\ (u \o d)[1] = u[1]
  <2>1. u \in Seq(Accesses(y, {<<>>})) /\ d \in Seq(Accesses(y, {<<>>}))
    BY DEF Simple, Sound
  <2> QED BY <1>2, <2>1, HeadCat
<1>3. s \in Sound(y, Simple(y))
  BY DEF Undone
<1> DEFINE P == Simple(y)
<1> HIDE DEF P
<1>4. s \in Sound(y, P) /\ Longer(P, d, P) /\ \A u \in P : u # <<>> => u \o d # <<>> /\ (u \o d)[1] = u[1]
  BY <1>1, <1>2, <1>3 DEF P
<1>5. Guarded(s, d) \in Sound(y, P)
  BY <1>4, GuardedSound
<1> QED BY <1>5 DEF P, Undone

LEMMA FilteredMerT2 == T2_FilteredMER \in Undone("T2")
<1> DEFINE Q == Quiet("T2", "T2", "20")  sb == SetBank("T2", "20")
           on == SetMer(TRUE)  off == SetMer(FALSE)
           d == [i \in 1..2 |-> Void(<<sb, off>>[i])]
           vb == Void(sb)  vo == Void(off)  r == Repeated(T2_MER, MerCount)
<1>0. "T2" \in Systems /\ "20" \in Banks /\ "20" # "any"
  BY DEF Systems, Banks
<1>1. sb \in Q /\ sb.do = "bank" /\ sb.slave = "T2" /\ sb.bank = "20"
  BY <1>0, AccessesIn
<1>2. on \in Q /\ off \in Q
  BY <1>0, AccessIs DEF SetMer, Steps
<1>3. \A a \in Q : Void(a) \in Q /\ Void(a).do = a.do /\ Void(a).slave = a.slave /\ Void(a).bank = a.bank
  BY DEF Void, Quiet, InBank, Accesses
<1>4. \A x \in Seq(Q) : x # <<>> /\ x[1] = sb => x \in Simple("T2")
  BY <1>0, BlockSimple
<1>5. T2_FilteredMER = <<sb, on>> \o Guarded(r, d) \o <<sb, off>>
  BY DEF T2_FilteredMER
<1>6. MerCount \in Nat
  BY MonitorAssumption
<1>7. r \in Undone("T2")
  BY <1>6, MerT2, RepeatedSound DEF Undone
<1> HIDE DEF Q, sb, on, off, r
<1>8. d = <<vb, vo>> /\ vb \in Q /\ vo \in Q /\ vb.do = "bank" /\ vb.slave = "T2" /\ vb.bank = "20"
  BY <1>1, <1>2, <1>3
<1> HIDE DEF d, vb, vo
<1>9. d \in Simple("T2")
  <2>1. <<vb, vo>> \in Seq(Q) /\ <<vb, vo>> # <<>> /\ <<vb, vo>>[1] = vb
    BY <1>8
  <2> QED BY <1>0, <1>8, <2>1, FirstSelectsQuiet DEF Q
<1>10. <<sb, on>> \in Undone("T2") /\ <<sb, off>> \in Undone("T2")
  <2>1. /\ <<sb, on>> \in Seq(Q) /\ <<sb, on>> # <<>> /\ <<sb, on>>[1] = sb
        /\ <<sb, off>> \in Seq(Q) /\ <<sb, off>> # <<>> /\ <<sb, off>>[1] = sb
    BY <1>1, <1>2
  <2>2. <<sb, on>> \in Simple("T2") /\ <<sb, off>> \in Simple("T2")
    BY <1>4, <2>1
  <2> QED BY <2>2, SimpleUndone
<1>11. Guarded(r, d) \in Undone("T2")
  BY <1>7, <1>9, GuardedUndone
<1>12. <<sb, on>> \o Guarded(r, d) \in Undone("T2")
  BY <1>10, <1>11, UndoneCat
<1> QED BY <1>5, <1>10, <1>12, UndoneCat

LEMMA PartsT2 ==
  /\ T2_PreLDPCBER \in Simple("T2") /\ T2_PostBCHFER \in Simple("T2")
  /\ T2_L1Change \in Undone("T2") /\ T2_PreBCHBER \in Undone("T2")
<1> DEFINE Q == Quiet("T2", "T2", "20")  sb == SetBank("T2", "20")  rd == Read("T2", "20")
           ch == Check
<1>0. "T2" \in Systems /\ {"20", "22", "24"} \subseteq Banks \ {"any"}
  BY DEF Systems, Banks
<1>1. {sb, rd, ch} \subseteq Q
  BY <1>0, AccessesIn
<1>2. \A x \in Seq(Q) : x # <<>> /\ x[1] = sb => x \in Simple("T2") /\ x \in Unfrozen("T2")
  BY <1>0, BlockSimple
<1>3. Plain("T2", "20") = <<sb, rd>>
  BY DEF Plain
<1>4. /\ <<ch>> \in Simple("T2")
      /\ \A b \in {"20", "22", "24"} : Plain("T2", b) \in Simple("T2") /\ Plain("T2", b) \in Unfrozen("T2")
  BY <1>0, CheckSound, PlainSound
<1> DEFINE s == <<sb, rd, ch, rd>>  p == <<sb, rd>>  r == <<ch, rd>>  pr == p \o r
           c == <<ch>>
<1>5. T2_PreLDPCBER = s \o Plain("T2", "22") \o c
  BY DEF T2_PreLDPCBER, T2_PreLDPCBERParam
<1>6. T2_PostBCHFER = pr \o c
  BY <1>3 DEF T2_PostBCHFER, T2_PostBCHFERParam
<1> HIDE DEF Q, sb, rd, ch
<1>7. /\ s \in Seq(Q) /\ s # <<>> /\ s[1] = sb /\ p \in Seq(Q) /\ p # <<>> /\ p[1] = sb
      /\ r \in Seq(Q)
  BY <1>1
<1> HIDE DEF s, p, r
<1>8. pr \in Seq(Q) /\ pr # <<>> /\ pr[1] = sb
  BY <1>7, HeadCat
<1> HIDE DEF pr
<1>9. s \in Simple("T2") /\ pr \in Simple("T2") /\ pr \in Unfrozen("T2")
  BY <1>2, <1>7, <1>8
<1> DEFINE P == Simple("T2")
<1>10. \A a, b \in P : a \o b \in P
  BY SoundCat DEF Simple
<1>11. s \in P /\ pr \in P /\ c \in P /\ Plain("T2", "22") \in P
  BY <1>4, <1>9
<1> HIDE DEF P, c
<1>12. T2_PreLDPCBER \in P /\ T2_PostBCHFER \in P
  BY <1>5, <1>6, <1>10, <1>11
<1>13. T2_L1Change \in Undone("T2")
  <2> DEFINE I == Quiet("T2", "T2", "22")  b1 == SetBank("T2", "22")
             fl == Access("flag", "T2", "22")  cl == Access("clear", "T2", "22")
             t == <<b1, fl, cl>>
  <2>1. {b1, fl, cl} \subseteq I
    <3>1. "flag" \in Steps \ {"freeze", "unfreeze"} /\ "clear" \in Steps \ {"freeze", "unfreeze"}
      BY DEF Steps
    <3>2. fl \in I /\ cl \in I
      BY <1>0, <3>1, AccessIs
    <3> QED BY <1>0, <3>2, AccessesIn
  <2>2. \A x \in Seq(I) : x # <<>> /\ x[1] = b1 => x \in Unfrozen("T2")
    BY <1>0, BlockSimple
  <2>3. T2_L1Change = T2_Locked(t)
    BY DEF T2_L1Change
  <2> HIDE DEF I, b1, fl, cl
  <2>4. t \in Seq(I) /\ t # <<>> /\ t[1] = b1
    BY <2>1
  <2> HIDE DEF t
  <2>5. t \in Unfrozen("T2")
    BY <2>2, <2>4
  <2> QED BY <2>3, <2>5, LockedT2
<1>14. T2_PreBCHBER \in Undone("T2")
  <2> DEFINE b2 == SetBank("T2", "22")  r2 == Read("T2", "22")  J == Quiet("T2", "T2", "22")
             q2 == <<b2, r2>>  l2 == <<r2>>  e2 == q2 \o l2
  <2>1. {b2, r2} \subseteq J /\ Plain("T2", "22") = q2
    BY <1>0, AccessesIn DEF Plain
  <2>2. \A x \in Seq(J) : x # <<>> /\ x[1] = b2 => x \in Simple("T2") /\ x \in Unfrozen("T2")
    BY <1>0, BlockSimple
  <2> DEFINE body == p \o r \o Plain("T2", "24") \o Plain("T2", "22") \o l2
             p24 == Plain("T2", "24")
  <2>3. T2_PreBCHBER = Frozen("T2", body) \o <<Check>> \o <<Check>>
    BY <1>3 DEF T2_PreBCHBER, T2_PreBCHBERParam, p, r, sb, rd, ch
  <2>4. /\ q2 \in Seq(J) /\ q2 # <<>> /\ q2[1] = b2 /\ l2 \in Seq(J)
    <3> HIDE DEF b2, r2, J
    <3> QED BY <2>1
  <2> HIDE DEF b2, r2, J, q2, l2
  <2>5. e2 \in Seq(J) /\ e2 # <<>> /\ e2[1] = b2
    BY <2>4, HeadCat
  <2> HIDE DEF e2
  <2>6. e2 \in Simple("T2") /\ e2 \in Unfrozen("T2") /\ p24 \in Simple("T2") /\ p24 \in Unfrozen("T2")
    BY <1>4, <2>2, <2>5
  <2>7. body = pr \o p24 \o q2 \o l2
    BY <2>1 DEF pr
  <2>8. pr \o p24 \o q2 \o l2 = pr \o p24 \o e2
    <3>1. q2 \in Seq(J) /\ l2 \in Seq(J)
      BY <2>4
    <3> QED BY <3>1, ConcatAssociative DEF e2
  <2> HIDE DEF p24, body
  <2>9. pr \o p24 \o e2 \in Unfrozen("T2") /\ pr \o p24 \o e2 \in Simple("T2")
    BY <1>9, <2>6, UnfrozenCat, SoundCat DEF Simple
  <2>10. body \in Unfrozen("T2") /\ body \in Simple("T2")
    BY <2>7, <2>8, <2>9
  <2>11. body \in Body("T2") /\ SelectsBanks(body)
    <3>1. TestsLocks(body) /\ body \in Seq(Accesses("T2", {<<>>}))
      BY <2>10 DEF Simple, Sound
    <3>2. SelectsBanks(body) /\ \A i \in DOMAIN body : body[i].do \notin {"freeze", "unfreeze"}
      BY <2>10 DEF Unfrozen
    <3>3. \A i \in DOMAIN body : body[i].do # "value"
      <4> SUFFICES ASSUME NEW i \in DOMAIN body, body[i].do = "value" PROVE FALSE
        OBVIOUS
      <4>1. PICK j \in 1..(i - 1) : body[j].do = "freeze"
        BY <3>1 DEF TestsLocks, Vouched
      <4>2. j \in DOMAIN body
        BY <3>1, <4>1
      <4> QED BY <3>2, <4>1, <4>2
    <3> QED BY <3>1, <3>2, <3>3 DEF Body
  <2>12. Frozen("T2", body) \in Undone("T2")
    BY <1>0, <2>11, FrozenSound
  <2>13. <<Check>> \in Undone("T2")
    BY CheckSound
  <2> QED BY <2>3, <2>12, <2>13, UndoneCat
<1> QED BY <1>12, <1>13, <1>14 DEF P

\* L1POST_OK is read and tested.
LEMMA L1PostOKIs ==
  /\ L1PostOK \in Seq(Quiet("T2", "T2", "22")) /\ Len(L1PostOK) = 2
  /\ L1PostOK[1] = Lock("T2", "22") /\ L1PostOK[2] = Test
<1> DEFINE Q == Quiet("T2", "T2", "22")  lk == Lock("T2", "22")  te == Test
<1>1. {lk, te} \subseteq Q
  BY AccessesIn DEF Systems, Banks
<1>2. L1PostOK = <<lk, te>>
  BY DEF L1PostOK
<1> HIDE DEF Q, lk, te
<1>3. <<lk, te>> \in Seq(Q) /\ Len(<<lk, te>>) = 2 /\ <<lk, te>>[1] = lk /\ <<lk, te>>[2] = te
  BY <1>1
<1> QED BY <1>2, <1>3 DEF Q, lk, te

LEMMA L1PostT2 == T2_L1Post \in Undone("T2")
<1> DEFINE I == InBank("T2", "T2", "22")  sb == SetBank("T2", "22")  v == Value("T2", "22")
           p == <<sb>>  l == L1PostOK  a == p \o l  b == <<v>>  body == a \o b
<1>0. "T2" \in Systems /\ "22" \in Banks /\ "22" # "any"
  BY DEF Systems, Banks
<1>1. {sb, v} \subseteq I /\ Quiet("T2", "T2", "22") \subseteq I /\ sb.do = "bank"
  BY <1>0, AccessesIn
<1>2. l \in Seq(I) /\ Len(l) = 2 /\ l[1].do = "lock" /\ l[2].do = "test"
  <2>1. l \in Seq(Quiet("T2", "T2", "22"))
    BY L1PostOKIs
  <2>2. l \in Seq(I)
    BY <1>1, <2>1
  <2>3. Lock("T2", "22").do = "lock" /\ Test.do = "test"
    BY <1>0, AccessesIn, TestIs
  <2> QED BY <2>2, <2>3, L1PostOKIs
<1>3. T2_L1Post = Frozen("T2", body)
  BY DEF T2_L1Post
<1>4. \A x \in Seq(I) : x # <<>> /\ x[1] = sb => x \in Unfrozen("T2")
  BY <1>0, BlockUnfrozen
<1>5. I \subseteq Accesses("T2", {<<>>})
  BY DEF InBank
<1> HIDE DEF I, sb, v, l
<1>6. p \in Seq(I) /\ p # <<>> /\ p[1] = sb /\ Len(p) = 1 /\ b \in Seq(I)
  BY <1>1
<1> HIDE DEF p, b
<1>7. a \in Seq(I) /\ a # <<>> /\ a[1] = sb
  BY <1>2, <1>6, HeadCat
<1>8. Len(a) = 3 /\ a[2] = l[1] /\ a[3] = l[2]
  <2>1. /\ Len(a) = Len(p) + Len(l)
        /\ \A i \in 1..Len(l) : a[Len(p) + i] = l[i]
    <3>1. p \in Seq(I) /\ l \in Seq(I)
      BY <1>2, <1>6
    <3> QED BY <3>1, CatAt
  <2>2. 1 \in 1..Len(l) /\ 2 \in 1..Len(l) /\ Len(p) + 1 = 2 /\ Len(p) + 2 = 3
    BY <1>2, <1>6
  <2> HIDE DEF a
  <2> QED BY <1>2, <1>6, <2>1, <2>2
<1> HIDE DEF a
<1>9. body \in Seq(I) /\ body # <<>> /\ body[1] = sb
  BY <1>6, <1>7, HeadCat
<1>10. body \in Unfrozen("T2")
  BY <1>4, <1>9
<1>11. 3 \in 1..Len(a) /\ 2 \in 1..(3 - 1) /\ a[3].do = "test" /\ a[2].do = "lock"
  BY <1>2, <1>8
<1>12. \A i \in DOMAIN a : a[i].do # "value"
  <2>1. ASSUME NEW i \in 1..3 PROVE i = 1 \/ i = 2 \/ i = 3
    OBVIOUS
  <2>2. DOMAIN a = 1..3
    BY <1>7, <1>8
  <2> QED BY <1>1, <1>2, <1>7, <1>8, <2>1, <2>2
<1>13. a \in Seq(Accesses("T2", {<<>>})) /\ b \in Seq(Accesses("T2", {<<>>}))
  BY <1>5, <1>6, <1>7
<1>14. SelectsBanks(body) /\ \A i \in DOMAIN body : body[i].do \notin {"freeze", "unfreeze"}
  BY <1>10 DEF Unfrozen
<1>15. body \in Body("T2")
  BY <1>11, <1>12, <1>13, <1>14, BodyCat
<1> QED BY <1>0, <1>3, <1>14, <1>15, FrozenSound

\* A bank that is selected before the registers are frozen stays selected.
LEMMA SelectedBefore ==
  ASSUME NEW y \in Systems, NEW body \in Body(y), NEW sb \in Accesses(y, {<<>>}),
         sb.do = "bank", SelectsBanks(<<sb>> \o body)
  PROVE  <<sb>> \o Frozen(y, body) \in Undone(y)
<1> DEFINE f == Freeze(y)  v == Void(Unfreeze(y))  S == Accesses(y, Simple(y))
           n == Len(body)  c == Frozen(y, body)  b == <<sb>> \o body  x == <<sb>> \o c
<1>1. v.bank = "any" /\ v.do = "unfreeze" /\ f.bank = "any" /\ f.do = "freeze"
  BY UnfreezeIs
<1>2. body \in Seq(Accesses(y, {<<>>}))
  BY DEF Body
<1>3. /\ c \in Seq(S) /\ Len(c) = n + 2 /\ n \in Nat /\ c[1] = f /\ c[n + 2] = v
      /\ \A i \in 1..n : /\ c[i + 1].do = body[i].do /\ c[i + 1].slave = body[i].slave
                         /\ c[i + 1].bank = body[i].bank
  BY <1>2, FrozenAt
<1>4. sb \in S
  BY Levels DEF Accesses
<1>5. TestsLocks(c) /\ ThawsAll(c)
  BY FrozenIs
<1>6. /\ b \in Seq(Accesses(y, {<<>>})) /\ Len(b) = n + 1 /\ b[1] = sb
      /\ \A i \in 1..n : b[i + 1] = body[i]
  BY <1>2
<1> HIDE DEF f, v, S, n, c, b
<1>7. /\ x \in Seq(S) /\ Len(x) = n + 3 /\ x[1] = sb
      /\ \A i \in 1..(n + 2) : x[i + 1] = c[i]
  BY <1>3, <1>4
<1> HIDE DEF x
<1>8. /\ x[2] = f /\ x[n + 3] = v
      /\ \A i \in 1..n : /\ x[i + 2].do = b[i + 1].do /\ x[i + 2].slave = b[i + 1].slave
                         /\ x[i + 2].bank = b[i + 1].bank
  <2>1. 1 \in 1..(n + 2) /\ n + 2 \in 1..(n + 2) /\ (n + 2) + 1 = n + 3 /\ 1 + 1 = 2
    BY <1>3
  <2>2. ASSUME NEW i \in 1..n
        PROVE  /\ x[i + 2].do = b[i + 1].do /\ x[i + 2].slave = b[i + 1].slave
               /\ x[i + 2].bank = b[i + 1].bank
    <3>1. i + 1 \in 1..(n + 2) /\ (i + 1) + 1 = i + 2
      BY <1>3
    <3>2. x[i + 2] = c[i + 1] /\ b[i + 1] = body[i]
      BY <1>6, <1>7, <3>1
    <3> QED BY <1>3, <3>2
  <2>3. x[2] = c[1] /\ x[n + 3] = c[n + 2]
    BY <1>7, <2>1
  <2> QED BY <1>3, <2>2, <2>3
<1>9. \A i \in 1..Len(c) : x[1 + i] = c[i]
  BY <1>3, <1>7
<1>10. Within(c, x, 1)
  BY <1>3, <1>7, <1>9 DEF Within
<1>11. TestsLocks(x)
  <2> SUFFICES ASSUME NEW i \in 1..(n + 3), x[i].do = "value" PROVE Vouched(x, i)
    BY <1>7 DEF TestsLocks
  <2> DEFINE h == i - 1
  <2>1. i # 1
    BY <1>4, <1>7
  <2>2. h \in 1..Len(c) /\ i = 1 + h
    BY <1>3, <2>1
  <2> HIDE DEF h
  <2>3. x[1 + h].do = "value" /\ 1 \in Nat
    BY <2>2
  <2>4. Vouched(x, 1 + h)
    BY <1>3, <1>5, <1>7, <1>10, <2>2, <2>3, WithinLocks
  <2> QED BY <2>2, <2>4
<1>12. ThawsAll(x)
  <2> SUFFICES ASSUME NEW i \in 1..(n + 3), x[i].do = "freeze" PROVE Thaws(x, i)
    BY <1>7 DEF ThawsAll
  <2> DEFINE h == i - 1
  <2>1. i # 1
    BY <1>4, <1>7
  <2>2. h \in 1..Len(c) /\ i = 1 + h
    BY <1>3, <2>1
  <2> HIDE DEF h
  <2>3. x[1 + h].do = "freeze" /\ 1 \in Nat
    BY <2>2
  <2>4. Thaws(x, 1 + h)
    BY <1>3, <1>5, <1>7, <1>10, <2>2, <2>3, WithinThaws
  <2> QED BY <2>2, <2>4
<1>13. SelectsBanks(x)
  <2> SUFFICES ASSUME NEW i \in 1..(n + 3), Needs(x, i) PROVE Selected(x, i)
    BY <1>7 DEF SelectsBanks
  <2> DEFINE h == i - 1
  <2>1. i # 1 /\ i # 2 /\ i # n + 3
    BY <1>1, <1>7, <1>8 DEF Needs
  <2>2. h \in 2..(n + 1) /\ i = h + 1 /\ h - 1 \in 1..n
    BY <1>3, <2>1
  <2>3. x[i].do = b[h].do /\ x[i].slave = b[h].slave /\ x[i].bank = b[h].bank
    <3>1. (h - 1) + 2 = i /\ (h - 1) + 1 = h
      BY <2>2
    <3> QED BY <1>8, <2>2, <3>1
  <2>4. h \in DOMAIN b
    BY <1>3, <1>6, <2>2
  <2> HIDE DEF h
  <2>5. PICK j \in 1..(h - 1) : b[j].do = "bank" /\ b[j].slave = b[h].slave /\ b[j].bank = b[h].bank /\ StaysIn(b, j, h)
    BY <2>3, <2>4 DEF SelectsBanks, Selected, Needs, b
  <2>6. \A k \in 3..(i - 1) : /\ k - 1 \in 2..(h - 1) /\ x[k].do = b[k - 1].do
                              /\ x[k].slave = b[k - 1].slave /\ x[k].bank = b[k - 1].bank
    <3> SUFFICES ASSUME NEW k \in 3..(i - 1)
                 PROVE  /\ k - 1 \in 2..(h - 1) /\ x[k].do = b[k - 1].do
                        /\ x[k].slave = b[k - 1].slave /\ x[k].bank = b[k - 1].bank
      OBVIOUS
    <3>1. k - 2 \in 1..n /\ (k - 2) + 2 = k /\ (k - 2) + 1 = k - 1 /\ k - 1 \in 2..(h - 1)
      BY <1>3, <2>2
    <3> QED BY <1>8, <3>1
  <2>7. CASE j = 1
    <3>1. 1 \in 1..(i - 1) /\ 1 + 1 = 2
      BY <2>2
    <3>2. StaysIn(x, 1, i)
      <4> SUFFICES ASSUME NEW k \in 2..(i - 1), x[k].do = "bank", x[k].slave = x[i].slave
                   PROVE  x[k].bank = x[i].bank
        BY <3>1 DEF StaysIn
      <4>1. k # 2
        BY <1>1, <1>8
      <4>2. k \in 3..(i - 1)
        BY <4>1
      <4> QED BY <2>3, <2>5, <2>6, <2>7, <3>1, <4>2 DEF StaysIn
    <3> QED BY <1>6, <1>7, <2>3, <2>5, <2>7, <3>1, <3>2 DEF Selected
  <2>8. CASE j # 1
    <3>1. j + 1 \in 3..(i - 1) /\ j + 1 \in 1..(i - 1) /\ (j + 1) - 1 = j
      BY <2>2, <2>8
    <3>2. StaysIn(x, j + 1, i)
      <4> SUFFICES ASSUME NEW k \in (j + 1 + 1)..(i - 1), x[k].do = "bank", x[k].slave = x[i].slave
                   PROVE  x[k].bank = x[i].bank
        BY DEF StaysIn
      <4>1. k \in 3..(i - 1) /\ k - 1 \in (j + 1)..(h - 1)
        BY <2>2, <2>8
      <4> QED BY <2>3, <2>5, <2>6, <4>1 DEF StaysIn
    <3> QED BY <2>3, <2>5, <2>6, <3>1, <3>2 DEF Selected
  <2> QED BY <2>7, <2>8
<1> QED BY <1>7, <1>11, <1>12, <1>13 DEF Undone, Sound, S, c, x

LEMMA SkipIs ==
  ASSUME NEW y, NEW U, NEW u \in U
  PROVE  /\ SkipTo(u) \in Accesses(y, U) /\ SkipTo(u).do = "skip" /\ SkipTo(u).bank = "any"
         /\ SkipTo(u).undo = u /\ <<SkipTo(u)>> \in Sound(y, U)
<1> DEFINE w == Access("skip", "T", "any")  s == SkipTo(u)
<1>1. w = [do |-> "skip", slave |-> "T", bank |-> "any", undo |-> <<>>, void |-> FALSE, quiet |-> FALSE]
  BY DEF Access
<1>2. s = [w EXCEPT !.undo = u]
  BY DEF SkipTo
<1> HIDE DEF w, s
<1>3. s = [do |-> "skip", slave |-> "T", bank |-> "any", undo |-> u, void |-> FALSE, quiet |-> FALSE]
  BY <1>1, <1>2
<1>4. s \in Accesses(y, U) /\ s.do = "skip" /\ s.bank = "any" /\ s.undo = u
  BY <1>3 DEF Accesses, Steps, Systems, Banks
<1>5. <<s>> \in Sound(y, U)
  BY <1>4 DEF Sound, SelectsBanks, TestsLocks, ThawsAll, Needs
<1> QED BY <1>4, <1>5 DEF s

LEMMA SkipQuiet == ASSUME NEW y, NEW z, NEW b PROVE SkipTo(<<>>) \in Quiet(y, z, b)
<1>1. SkipTo(<<>>) \in Accesses(y, {<<>>}) /\ SkipTo(<<>>).do = "skip" /\ SkipTo(<<>>).bank = "any"
  BY SkipIs
<1> HIDE DEF SkipTo
<1> QED BY <1>1 DEF Quiet, InBank

LEMMA DataPLPsT2 == T2_DataPLPs \in Undone("T2")
<1> DEFINE I == InBank("T2", "T2", "22")  E == Accesses("T2", {<<>>})
           sb == SetBank("T2", "22")  v == Value("T2", "22")  ch == Check  sk == SkipTo(<<>>)
           w == <<SetBank("T2", "23"), Value("T2", "23")>>
           p == <<sb>>  l == L1PostOK  m == <<v, ch, sb, v, sk>>  b == m \o w
           body == l \o m \o w
<1>0. "T2" \in Systems /\ {"22", "23"} \subseteq Banks \ {"any"} /\ "22" \in Banks
  BY DEF Systems, Banks
<1>1. /\ {sb, v, ch} \subseteq I /\ Quiet("T2", "T2", "22") \subseteq I /\ sb.do = "bank"
      /\ sk \in I
  BY <1>0, AccessesIn, SkipQuiet
<1>2. l \in Seq(I) /\ Len(l) = 2 /\ l[1].do = "lock" /\ l[2].do = "test"
  <2>1. l \in Seq(Quiet("T2", "T2", "22"))
    BY L1PostOKIs
  <2>2. l \in Seq(I)
    BY <1>1, <2>1
  <2>3. Lock("T2", "22").do = "lock" /\ Test.do = "test"
    BY TestIs DEF Lock, Access
  <2> QED BY <2>2, <2>3, L1PostOKIs
<1>3. T2_DataPLPs = p \o Frozen("T2", body)
  BY DEF T2_DataPLPs
<1>4. \A x \in Seq(I) : x # <<>> /\ x[1] = sb => x \in Unfrozen("T2")
  BY <1>0, BlockUnfrozen
<1>5. I \subseteq E /\ Unfrozen("T2") \subseteq Seq(E)
  BY DEF InBank, Unfrozen
<1>6. w \in Unfrozen("T2")
  BY <1>0, ValuesUnfrozen
<1> HIDE DEF I, E, sb, v, ch, sk, l, w
<1>7. p \in Seq(I) /\ p # <<>> /\ p[1] = sb /\ Len(p) = 1 /\ m \in Seq(I)
  BY <1>1
<1>8. sb \in E /\ l \in Seq(E) /\ m \in Seq(E) /\ w \in Seq(E) /\ p \in Seq(E)
  BY <1>1, <1>2, <1>5, <1>6, <1>7
<1>80. \A x, q, z \in Seq(E) : (x \o q) \o z = x \o (q \o z)
  BY ConcatAssociative
<1> HIDE DEF p, m
<1> DEFINE lm == l \o m  plm == p \o lm
<1>9. lm \in Seq(I)
  BY <1>2, <1>7
<1> HIDE DEF lm
<1>10. plm \in Seq(I) /\ plm # <<>> /\ plm[1] = sb
  BY <1>7, <1>9, HeadCat
<1> HIDE DEF plm
<1>11. plm \in Unfrozen("T2")
  BY <1>4, <1>10
<1>12. plm \o w \in Unfrozen("T2")
  BY <1>6, <1>11, UnfrozenCat
<1>13. body = lm \o w /\ body \in Seq(E)
  <2>1. body = lm \o w
    BY DEF lm
  <2>2. lm \in Seq(E)
    BY <1>5, <1>9
  <2> QED BY <1>8, <2>1, <2>2
<1>14. plm \o w = p \o body
  <2>1. lm \in Seq(E)
    BY <1>5, <1>9
  <2>2. (p \o lm) \o w = p \o (lm \o w)
    BY <1>8, <1>80, <2>1
  <2> QED BY <1>13, <2>2 DEF plm
<1>15. body = l \o b
  BY <1>8, <1>80
<1> HIDE DEF body, b
<1>16. SelectsBanks(p \o body) /\ \A i \in DOMAIN (p \o body) : (p \o body)[i].do \notin {"freeze", "unfreeze"}
  BY <1>12, <1>14 DEF Unfrozen
<1>17. \A i \in DOMAIN body : body[i].do \notin {"freeze", "unfreeze"}
  <2> SUFFICES ASSUME NEW i \in DOMAIN body PROVE body[i].do \notin {"freeze", "unfreeze"}
    OBVIOUS
  <2>1. i \in 1..Len(body)
    BY <1>13
  <2>2. (p \o body)[Len(p) + i] = body[i] /\ Len(p \o body) = Len(p) + Len(body)
    BY <1>8, <1>13, <2>1, CatAt
  <2>3. p \o body \in Seq(E) /\ Len(body) \in Nat
    BY <1>8, <1>13
  <2>4. Len(p) + i \in 1..Len(p \o body)
    BY <1>7, <2>1, <2>2, <2>3
  <2>5. Len(p) + i \in DOMAIN (p \o body)
    BY <2>3, <2>4
  <2> QED BY <1>16, <2>2, <2>5
<1>18. \A i \in DOMAIN l : l[i].do # "value"
  <2>1. ASSUME NEW i \in 1..2 PROVE i = 1 \/ i = 2
    OBVIOUS
  <2>2. DOMAIN l = 1..2
    BY <1>2
  <2> QED BY <1>2, <2>1, <2>2
<1>19. body \in Body("T2")
  <2>1. b \in Seq(E)
    BY <1>8 DEF b
  <2>2. 2 \in 1..Len(l) /\ 1 \in 1..(2 - 1)
    BY <1>2
  <2> QED BY <1>2, <1>8, <1>15, <1>17, <1>18, <2>1, <2>2, BodyCat DEF E
<1>20. sb \in Accesses("T2", {<<>>}) /\ sb.do = "bank" /\ SelectsBanks(<<sb>> \o body)
  BY <1>1, <1>8, <1>16 DEF E, p
<1>21. <<sb>> \o Frozen("T2", body) \in Undone("T2")
  BY <1>0, <1>19, <1>20, SelectedBefore
<1> QED BY <1>3, <1>21 DEF p

\* A function whose failure does not matter.
LEMMA IgnoredSound ==
  ASSUME NEW y, NEW s \in Simple(y), NEW rest \in Undone(y)
  PROVE  Ignored(s, rest) \in Called(y)
<1> DEFINE S == Accesses(y, {<<>>})  V == Undone(y)  g == Ignored(s, rest)
<1>1. s \in Seq(S) /\ SelectsBanks(s) /\ TestsLocks(s) /\ ThawsAll(s) /\ rest \in V
  BY DEF Simple, Sound
<1>2. DOMAIN s = 1..Len(s) /\ Len(s) \in Nat
  BY <1>1
<1>3. <<>> \o rest = rest
  <2>1. rest \in Seq(Accesses(y, Simple(y)))
    BY DEF Undone, Sound
  <2> QED BY <2>1
<1>4. g = [i \in 1..Len(s) |-> [s[i] EXCEPT !.undo = @ \o rest, !.quiet = TRUE]]
  BY <1>2 DEF Ignored
<1> HIDE DEF g, V
<1>5. ASSUME NEW i \in 1..Len(s)
      PROVE  /\ g[i] \in Accesses(y, V)
             /\ s[i].do = g[i].do /\ s[i].slave = g[i].slave /\ s[i].bank = g[i].bank
             /\ s[i].void = g[i].void /\ s[i].undo = <<>>
  <2>1. g[i] = [s[i] EXCEPT !.undo = s[i].undo \o rest, !.quiet = TRUE]
    BY <1>4
  <2>2. s[i] \in S
    BY <1>1, <1>2
  <2>3. s[i].undo = <<>>
    BY <2>2 DEF Accesses
  <2>4. g[i] = [s[i] EXCEPT !.undo = rest, !.quiet = TRUE]
    BY <1>3, <2>1, <2>3
  <2> QED BY <1>1, <2>2, <2>3, <2>4 DEF Accesses
<1>6. g \in [1..Len(s) -> Accesses(y, V)]
  BY <1>4, <1>5
<1>7. g \in Seq(Accesses(y, V)) /\ DOMAIN g = 1..Len(s)
  BY <1>2, <1>6
<1>8. Same(s, g)
  BY <1>2, <1>5, <1>7 DEF Same
<1>9. \A i \in DOMAIN s :
        s[i].undo # <<>> /\ Releases(s[i].undo[1]) => g[i].undo # <<>> /\ Releases(g[i].undo[1])
  BY <1>2, <1>5
<1> HIDE DEF S
<1>10. SelectsBanks(g) /\ TestsLocks(g) /\ ThawsAll(g)
  BY <1>1, <1>7, <1>8, <1>9, SameSound
<1> QED BY <1>7, <1>10 DEF Called, Sound, V, g

LEMMA CalledCat ==
  ASSUME NEW y, NEW a \in Called(y), NEW b \in Called(y) PROVE a \o b \in Called(y)
  BY SoundCat DEF Called

LEMMA FunctionsT2 ==
  /\ T2_CarrierOffset \in Undone("T2") /\ T2_SNR \in Undone("T2")
  /\ T2_L1Pre \in Undone("T2") /\ T2_Preset \in Undone("T2") /\ T2_ActivePLP \in Undone("T2")
  /\ T2_DataPLPError \in Undone("T2") /\ T2_SamplingOffset \in Undone("T2")
  /\ T2_TsRate \in Undone("T2") /\ T2_Value("3F") \in Undone("T2")
  /\ T2_SpectrumSense \in Simple("T2")
<1>0. {"20", "22", "3F"} \subseteq Banks \ {"any"} /\ "T2" \in Systems
  BY DEF Systems, Banks
<1>1. <<Check>> \in Undone("T2")
  BY CheckSound
<1>2. \A b \in {"20", "22", "3F"} : T2_Value(b) \in Undone("T2")
  BY <1>0, ValuesT2
<1>3. T2_SpectrumSense \in Simple("T2")
  BY <1>0, PlainSound DEF T2_SpectrumSense
<1>4. T2_SpectrumSense \in Undone("T2")
  BY <1>3, SimpleUndone
<1> HIDE DEF T2_Value
<1>5. /\ T2_CarrierOffset \in Undone("T2") /\ T2_SNR \in Undone("T2")
      /\ T2_L1Pre \in Undone("T2") /\ T2_Preset \in Undone("T2")
      /\ T2_DataPLPError \in Undone("T2") /\ T2_TsRate \in Undone("T2")
  BY <1>1, <1>2, <1>4, UndoneCat
     DEF T2_CarrierOffset, T2_SNR, T2_L1Pre, T2_Preset, T2_DataPLPError, T2_TsRate
<1>6. T2_ActivePLP \in Undone("T2") /\ T2_SamplingOffset \in Undone("T2")
  BY <1>1, <1>2, UndoneCat DEF T2_ActivePLP, T2_SamplingOffset
<1> QED BY <1>2, <1>3, <1>5, <1>6

LEMMA QualityT2 ==
  ASSUME NEW mer \in Undone("T2")
  PROVE  T2_Quality(mer) \in Called("T2")
<1> DEFINE rest == T2_ActivePLP \o <<Check>> \o mer \o T2_SNR
<1>1. rest \in Undone("T2")
  BY CheckSound, FunctionsT2, UndoneCat
<1>2. T2_Quality(mer) = Ignored(T2_PostBCHFER, rest) \o <<SkipTo(<<>>)>> \o rest
  BY DEF T2_Quality
<1> HIDE DEF rest
<1>3. Ignored(T2_PostBCHFER, rest) \in Called("T2")
  BY <1>1, PartsT2, IgnoredSound
<1>4. <<SkipTo(<<>>)>> \in Called("T2")
  <2>1. <<>> \in Undone("T2")
    BY Levels
  <2> QED BY <2>1, SkipIs DEF Called
<1>5. rest \in Called("T2")
  BY <1>1, Levels
<1> QED BY <1>2, <1>3, <1>4, <1>5, CalledCat

\* The lock checks, and what else stays in one bank.
LEMMA BlocksSimple ==
  ASSUME NEW y, NEW z \in Systems, NEW b \in Banks \ {"any"}
  PROVE  LET sb == SetBank(z, b)  rd == Read(z, b)  wr == Write(z, b)  lk == Lock(z, b)
             sk == SkipTo(<<>>)  bits == SetRegisterBits(z, b) IN
         /\ {<<sb, lk>>, <<sb, lk, rd>>, <<sb>> \o <<lk>>, <<sb, lk, sk, rd>>,
             <<sb>> \o <<lk>> \o <<sk>> \o Plain(z, b)} \subseteq Seq(Quiet(y, z, b)) \cap Simple(y)
         /\ {<<sb, wr, wr>>, Plain(z, b) \o <<rd>>, <<sb, wr>> \o bits \o <<wr>>,
             <<sb>> \o bits \o <<sk>> \o bits} \subseteq Simple(y)
<1> DEFINE Q == Quiet(y, z, b)  sb == SetBank(z, b)  rd == Read(z, b)  wr == Write(z, b)
           lk == Lock(z, b)  sk == SkipTo(<<>>)  bits == SetRegisterBits(z, b)  pl == Plain(z, b)
           s1 == <<sb>>  s2 == <<sb, lk>>  s3 == <<sb, lk, rd>>  s4 == <<sb, lk, sk, rd>>
           s5 == <<sb, wr, wr>>  s6 == <<sb, wr>>  k == <<lk>>  t == <<sk>>  r == <<rd>>  w == <<wr>>
           First(x) == x \in Seq(Q) /\ x # <<>> /\ x[1] = sb
<1>1. {sb, rd, wr, lk, sk} \subseteq Q
  BY AccessesIn, SkipQuiet
<1>2. \A x \in Seq(Q) : x # <<>> /\ x[1] = sb => x \in Simple(y)
  BY BlockSimple
<1>3. bits = <<rd, wr>> /\ pl = <<sb, rd>>
  BY DEF SetRegisterBits, Plain
<1> HIDE DEF Q, sb, rd, wr, lk, sk, bits, pl
<1>4. \A a, c : First(a) /\ c \in Seq(Q) => First(a \o c)
  BY HeadCat
<1>5. First(s1) /\ First(s2) /\ First(s3) /\ First(s4) /\ First(s5) /\ First(s6) /\ First(pl)
  BY <1>1, <1>3
<1>6. bits \in Seq(Q) /\ k \in Seq(Q) /\ t \in Seq(Q) /\ r \in Seq(Q) /\ w \in Seq(Q) /\ pl \in Seq(Q)
  BY <1>1, <1>3
<1>7. \A x : First(x) => x \in Seq(Q) \cap Simple(y)
  BY <1>2
<1> HIDE DEF First, s1, s2, s3, s4, s5, s6, k, t, r, w
<1>8. /\ First(s1 \o k) /\ First(pl \o r)
      /\ First(s6 \o bits) /\ First(s6 \o bits \o w)
      /\ First(s1 \o bits) /\ First(s1 \o bits \o t) /\ First(s1 \o bits \o t \o bits)
      /\ First(s1 \o k \o t) /\ First(s1 \o k \o t \o pl)
  BY <1>4, <1>5, <1>6
<1>9. /\ {s2, s3, s1 \o k, s4, s1 \o k \o t \o pl} \subseteq Seq(Q) \cap Simple(y)
      /\ {s5, pl \o r, s6 \o bits \o w, s1 \o bits \o t \o bits} \subseteq Simple(y)
  BY <1>5, <1>7, <1>8
<1> QED BY <1>9 DEF s1, s2, s3, s4, s5, s6, k, t, r, w, Q, sb, rd, wr, lk, sk, bits, pl

LEMMA ChecksQuiet ==
  /\ T_SyncStat \in Seq(Quiet("T", "T", "0")) \cap Simple("T")
  /\ ~ScanMode => CheckTPSLock \in Seq(Quiet("T", "T", "0")) \cap Simple("T")
  /\ ~ScanMode => T_CheckTSLock \in Seq(Quiet("T", "T", "0")) \cap Simple("T")
  /\ C_SyncStat \in Seq(Quiet("C", "C", "0")) \cap Simple("C")
  /\ C_CheckTSLock \in Seq(Quiet("C", "C", "0")) \cap Simple("C")
  /\ T2_SyncStat \in Seq(Quiet("T2", "T2", "20")) \cap Simple("T2")
  /\ T2_CheckDemodLock \in Seq(Quiet("T2", "T2", "20")) \cap Simple("T2")
<1>0. Systems = {"T", "T2", "C"} /\ {"0", "20"} \subseteq Banks \ {"any"}
  BY DEF Systems, Banks
<1>1. /\ T_SyncStat \in Seq(Quiet("T", "T", "0")) \cap Simple("T")
      /\ C_SyncStat \in Seq(Quiet("C", "C", "0")) \cap Simple("C")
  BY <1>0, BlocksSimple DEF T_SyncStat, C_SyncStat
<1>2. ASSUME ~ScanMode
      PROVE  /\ CheckTPSLock \in Seq(Quiet("T", "T", "0")) \cap Simple("T")
             /\ T_CheckTSLock \in Seq(Quiet("T", "T", "0")) \cap Simple("T")
  <2>1. CheckTPSLock = <<SetBank("T", "0")>> \o <<Lock("T", "0")>>
    BY <1>2 DEF CheckTPSLock
  <2>2. T_CheckTSLock = <<SetBank("T", "0")>> \o <<Lock("T", "0")>> \o <<SkipTo(<<>>)>> \o Plain("T", "0")
    BY <2>1 DEF T_CheckTSLock
  <2> QED BY <1>0, <2>1, <2>2, BlocksSimple
<1>3. C_CheckTSLock \in Seq(Quiet("C", "C", "0")) \cap Simple("C")
  BY <1>0, BlocksSimple DEF C_CheckTSLock
<1>4. /\ T2_SyncStat \in Seq(Quiet("T2", "T2", "20")) \cap Simple("T2")
      /\ T2_CheckDemodLock \in Seq(Quiet("T2", "T2", "20")) \cap Simple("T2")
  BY <1>0, BlocksSimple DEF T2_SyncStat, T2_CheckDemodLock
<1> QED BY <1>1, <1>2, <1>3, <1>4

LEMMA OthersSimple ==
  ASSUME NEW y \in Systems
  PROVE  /\ {T_IPID, ChipID, GPIOSetting, GPIORead, GPIOWrite} \subseteq Simple(y)
         /\ {T_IFAGCOut, C_IFAGCOut, T2_IFAGCOut, T_RFAGCOut} \subseteq Simple(y)
         /\ {T2_SpectrumSense, T2_CheckP1Lock, T2_CheckT2P1Lock} \subseteq Simple(y)
         /\ {SetPLPConfig, SetSpectrumSense} \subseteq Simple(y)
         /\ {RFAGCWrite("T", "1"), RFAGCWrite("C", "0"), RFAGCWrite("T2", "21")} \subseteq Simple(y)
<1>0. {"T", "T2", "C"} \subseteq Systems /\ {"0", "1", "20", "21", "23"} \subseteq Banks \ {"any"}
  BY DEF Systems, Banks
<1>1. {T_IPID, ChipID, GPIORead, GPIOWrite} \subseteq Simple(y)
  BY <1>0, PlainSound DEF T_IPID, ChipID, GPIORead, GPIOWrite
<1>2. GPIOSetting \in Simple(y)
  BY <1>0, BlocksSimple DEF GPIOSetting
<1>3. {T_IFAGCOut, C_IFAGCOut, T2_IFAGCOut, T_RFAGCOut, T2_SpectrumSense, T2_CheckT2P1Lock} \subseteq Simple(y)
  BY <1>0, PlainSound DEF T_IFAGCOut, C_IFAGCOut, T2_IFAGCOut, T_RFAGCOut, T2_SpectrumSense, T2_CheckT2P1Lock
<1>4. {T2_CheckP1Lock, SetPLPConfig} \subseteq Simple(y)
  <2>1. T2_CheckP1Lock \in Simple(y)
    <3>1. Plain("T2", "20") \o <<Read("T2", "20")>> \in Simple(y)
      BY <1>0, BlocksSimple
    <3> QED BY <3>1 DEF T2_CheckP1Lock
  <2>2. SetPLPConfig \in Simple(y)
    <3>1. <<SetBank("T2", "23"), Write("T2", "23"), Write("T2", "23")>> \in Simple(y)
      BY <1>0, BlocksSimple
    <3> QED BY <3>1 DEF SetPLPConfig
  <2> QED BY <2>1, <2>2
<1>5. SetSpectrumSense \in Simple(y)
  BY <1>0, PlainSound DEF SetSpectrumSense
<1>6. {RFAGCWrite("T", "1"), RFAGCWrite("C", "0"), RFAGCWrite("T2", "21")} \subseteq Simple(y)
  BY <1>0, PlainSound
<1> QED BY <1>1, <1>2, <1>3, <1>4, <1>5, <1>6

LEMMA OptimiseT2 ==
  t2_es1_0_OptimiseTSOutput \in Undone("T2") /\ t2_es1_1_OptimiseTSOutput \in Undone("T2")
<1> DEFINE U == Undone("T2")
           adjust == <<SetBank("T2", "25"), Write("T2", "25")>> \o SetRegisterBits("T2", "25") \o
                       <<Write("T2", "25")>>
           sk == SkipTo(adjust)  s == <<Check, sk>>
<1>0. {"T", "T2", "C"} \subseteq Systems /\ {"20", "25", "28"} \subseteq Banks \ {"any"}
  BY DEF Systems, Banks
<1>1. adjust \in Simple("T2")
  BY <1>0, BlocksSimple
<1>2. /\ t2_es1_0_OptimiseTSOutput =
           T2_Preset \o s \o T2_ActivePLP \o monitorT2_TSRate \o Plain("T2", "28") \o adjust
      /\ t2_es1_1_OptimiseTSOutput = T2_Value("3F") \o RFAGCWrite("T2", "20")
  BY DEF t2_es1_0_OptimiseTSOutput, t2_es1_1_OptimiseTSOutput, RFAGCWrite
<1> HIDE DEF adjust, U
<1>3. sk \in Accesses("T2", Simple("T2")) /\ sk.do = "skip" /\ sk.bank = "any"
  BY <1>1, SkipIs
<1>4. Check \in Accesses("T2", Simple("T2")) /\ Check.do = "check" /\ Check.bank = "any"
  <2>1. Check \in Quiet("T2", "T2", "20")
    BY <1>0, AccessesIn
  <2>2. Check \in Accesses("T2", {<<>>})
    BY <2>1 DEF Quiet, InBank
  <2> QED BY <2>2, TestIs, Levels DEF Accesses
<1> HIDE DEF sk
<1>5. s \in U
  BY <1>3, <1>4 DEF Undone, Sound, SelectsBanks, TestsLocks, ThawsAll, Needs, U
<1> HIDE DEF s
<1>6. adjust \in U /\ Plain("T2", "28") \in U /\ RFAGCWrite("T2", "20") \in U
  BY <1>0, <1>1, PlainSound, SimpleUndone DEF U
<1>7. \A a, b \in U : a \o b \in U
  BY UndoneCat DEF U
<1>8. monitorT2_TSRate \in U
  <2>1. Plain("T2", "25") \in U /\ <<Check>> \in U
    BY <1>0, PlainSound, CheckSound, SimpleUndone DEF U
  <2> QED BY <1>7, <2>1 DEF monitorT2_TSRate
<1>9. T2_Preset \in U /\ T2_ActivePLP \in U /\ T2_Value("3F") \in U
  BY FunctionsT2 DEF U
<1>10. t2_es1_0_OptimiseTSOutput \in U /\ t2_es1_1_OptimiseTSOutput \in U
  BY <1>2, <1>5, <1>6, <1>7, <1>8, <1>9
<1> QED BY <1>10 DEF U

LEMMA AnsweringSound ==
  ASSUME NEW y \in Systems, NEW own, \A n \in DOMAIN own : own[n] \in Called(y)
  PROVE  \A n \in DOMAIN Answering(own) : Answering(own)[n] \in Called(y)
<1> DEFINE P == Called(y)
<1>1. {T_IPID, ChipID, GPIOSetting, GPIORead, GPIOWrite} \subseteq P
  BY OthersSimple, Levels
<1> HIDE DEF P
<1>2. \A n \in DOMAIN AnySystem : AnySystem[n] \in P
  BY <1>1 DEF AnySystem
<1> QED BY <1>2 DEF P, Answering

\* What only a tuner's thread calls beside the application's thread, and the bank
\* that it stays in.
Home(y) == IF y = "T2" THEN "20" ELSE "0"
LockChecks == {"SyncStat", "CheckDemodLock", "CheckTSLock"}
Homely(y) ==
  {a \in Accesses(y, {<<>>, <<Void(Unfreeze(y))>>}) :
     \/ a.slave = y /\ a.bank = Home(y)
     \/ a.do # "bank" /\ a.bank = "any"}

LEMMA FrozenHomely ==
  ASSUME NEW body \in Seq(InBank("T", "T", "0"))
  PROVE  Frozen("T", body) \in Seq(Homely("T"))
<1> DEFINE I == InBank("T", "T", "0")  v == Void(Unfreeze("T"))  f == Freeze("T")
           n == Len(body)  c == Frozen("T", body)
<1>0. "T" \in Systems /\ Home("T") = "0"
  BY DEF Systems, Home
<1>1. body \in Seq(Accesses("T", {<<>>}))
  BY DEF InBank
<1>2. /\ v \in Accesses("T", {<<>>}) /\ v.bank = "any" /\ v.do = "unfreeze"
      /\ f \in Accesses("T", {<<>>}) /\ f.bank = "any" /\ f.do = "freeze"
  BY <1>0, UnfreezeIs
<1>3. /\ c \in Seq(Accesses("T", Simple("T"))) /\ Len(c) = n + 2 /\ n \in Nat /\ DOMAIN body = 1..n
      /\ c[1] = f /\ c[n + 2] = v
      /\ \A i \in 1..n :
           /\ c[i + 1].do = body[i].do /\ c[i + 1].slave = body[i].slave
           /\ c[i + 1].bank = body[i].bank /\ c[i + 1].undo = <<v>>
  BY <1>0, <1>1, FrozenAt
<1>4. \A i \in 1..n : body[i] \in I
  BY <1>3
<1> HIDE DEF v, f, n, c, I
<1>5. v \in Homely("T") /\ f \in Homely("T")
  BY <1>2 DEF Homely, Accesses
<1>6. ASSUME NEW i \in 1..(n + 2) PROVE c[i] \in Homely("T")
  <2>1. CASE i = 1 \/ i = n + 2
    BY <1>3, <1>5, <2>1
  <2>2. CASE i # 1 /\ i # n + 2
    <3>1. i - 1 \in 1..n /\ (i - 1) + 1 = i
      BY <1>3, <2>2
    <3>2. /\ c[i].do = body[i - 1].do /\ c[i].slave = body[i - 1].slave
          /\ c[i].bank = body[i - 1].bank /\ c[i].undo = <<v>> /\ body[i - 1] \in I
      BY <1>3, <1>4, <3>1
    <3>3. c[i] \in Accesses("T", Simple("T"))
      BY <1>3
    <3>4. c[i] \in Accesses("T", {<<>>, <<v>>})
      BY <3>2, <3>3 DEF Accesses
    <3> QED BY <1>0, <3>2, <3>4 DEF I, InBank, Homely, v
  <2> QED BY <2>1, <2>2
<1>7. c \in [1..(n + 2) -> Homely("T")]
  BY <1>3, <1>6
<1> QED BY <1>3, <1>7 DEF c

LEMMA QualityCall ==
  /\ Tuner_Get_Signal_Quality \in Undone("T")
  /\ Tuner_Get_Signal_Quality \in Seq(Homely("T"))
<1> DEFINE I == InBank("T", "T", "0")  H == Homely("T")  sk == SkipTo(<<>>)
           sb == SetBank("T", "0")  v == Value("T", "0")  wr == Write("T", "0")
           rd == Read("T", "0")  po == Poll("T", "0")  lk == Lock("T", "0")
           te == Test  ch == Check
           s == <<sb, lk, rd>>  t == <<te>>  k == <<ch>>  w == <<sb, v>>  e == <<sb, wr, po, rd>>
           x == <<sb, v, v>>  z == <<sk>>
<1>0. "T" \in Systems /\ "0" \in Banks /\ Home("T") = "0"
  BY DEF Systems, Banks, Home
<1>1. {sb, v, wr, rd, po, lk, te, ch, sk} \subseteq I
  BY <1>0, AccessesIn, SkipQuiet
<1>2. I \subseteq H
  BY <1>0 DEF InBank, Homely, Accesses
<1>3. /\ T_SyncStat = s /\ IsTPSLocked = s \o t /\ CountErrors("T") = e
      /\ T_Bank0 = Frozen("T", s \o t \o w)
      /\ Tuner_Get_Signal_Quality = s \o z \o T_Quality
  BY DEF T_SyncStat, IsTPSLocked, CountErrors, T_Bank0, T_Locked, Tuner_Get_Signal_Quality
<1>4. /\ T_Quality = T_Bank0 \o (s \o t \o e \o k) \o (T_Bank0 \o k) \o k
  BY <1>3 DEF T_Quality, T_TPSInfo, T_PreRSBER, T_PreRSBitError, T_CNValue, T_MERDT
<1>5. s \in Simple("T") /\ T_Quality \in Undone("T") /\ z \in Undone("T")
  BY <1>3, LockedT, FunctionsT, SkipIs, Levels DEF Undone
<1> HIDE DEF I, H, sk, sb, v, wr, rd, po, lk, te, ch
<1>6. /\ s \in Seq(I) /\ t \in Seq(I) /\ k \in Seq(I) /\ w \in Seq(I) /\ e \in Seq(I)
      /\ z \in Seq(I)
  BY <1>1
<1> HIDE DEF s, t, k, w, e, z
<1>7. \A a, b \in Seq(I) : a \o b \in Seq(I)
  OBVIOUS
<1>8. \A a, b \in Seq(H) : a \o b \in Seq(H)
  OBVIOUS
<1>9. \A a \in Seq(I) : a \in Seq(H)
  BY <1>2
<1>10. s \o t \o w \in Seq(I) /\ s \o t \o e \o k \in Seq(I)
  BY <1>6, <1>7
<1>11. T_Bank0 \in Seq(H)
  BY <1>3, <1>10, FrozenHomely DEF I, H
<1>12. T_Quality \in Seq(H)
  BY <1>4, <1>6, <1>8, <1>9, <1>10, <1>11
<1>13. s \o z \o T_Quality \in Seq(H)
  BY <1>6, <1>8, <1>9, <1>12
<1>14. s \o z \o T_Quality \in Undone("T")
  BY <1>5, SimpleUndone, UndoneCat
<1> QED BY <1>3, <1>13, <1>14 DEF H

LEMMA ScriptsSound ==
  ASSUME ~ScanMode, NEW y \in Systems, NEW n \in DOMAIN Scripts[y]
  PROVE  Scripts[y][n] \in Called(y)
<1>0. "T" \in Systems /\ "C" \in Systems /\ "T2" \in Systems
  BY DEF Systems
<1>1. CASE y = "T"
  <2> DEFINE P == Called("T")  bits == RFAGCWrite("T", "1")
             own == [SyncStat |-> T_SyncStat, IFAGCOut |-> T_IFAGCOut, RFAGCOut |-> T_RFAGCOut,
               ModeGuard |-> T_ModeGuard, CarrierOffset |-> T_CarrierOffset, MER |-> T_MER,
               SNR |-> T_SNR, PreViterbiBER |-> T_PreViterbiBER, PreRSBER |-> T_PreRSBER,
               RSError |-> T_RSError, TPSInfo |-> T_TPSInfo, SamplingOffset |-> T_SamplingOffset,
               CNValue |-> T_CNValue, Quality |-> T_Quality, RFAGCWrite |-> bits,
               CheckDemodLock |-> CheckTPSLock, CheckTSLock |-> T_CheckTSLock,
               Tuner_Get_Signal_Quality |-> Tuner_Get_Signal_Quality]
  <2>1. T_SyncStat \in P /\ CheckTPSLock \in P /\ T_CheckTSLock \in P
    BY ChecksQuiet, Levels
  <2>2. T_IFAGCOut \in P /\ T_RFAGCOut \in P /\ bits \in P
    BY <1>0, OthersSimple, Levels
  <2>3. /\ T_ModeGuard \in P /\ T_RSError \in P /\ T_TPSInfo \in P
        /\ T_CarrierOffset \in P /\ T_MER \in P /\ T_SNR \in P /\ T_PreViterbiBER \in P
        /\ T_PreRSBER \in P /\ T_SamplingOffset \in P /\ T_CNValue \in P /\ T_Quality \in P
    BY FunctionsT, Levels DEF T_ModeGuard, T_RSError, T_TPSInfo
  <2>4. Tuner_Get_Signal_Quality \in P
    BY QualityCall, Levels
  <2>5. Scripts["T"] = Answering(own)
    BY DEF Scripts
  <2> HIDE DEF P, bits
  <2>6. \A m \in DOMAIN own : own[m] \in P
    BY <2>1, <2>2, <2>3, <2>4
  <2> HIDE DEF own
  <2> QED BY <1>0, <1>1, <2>5, <2>6, AnsweringSound DEF P
<1>2. CASE y = "C"
  <2> DEFINE P == Called("C")  bits == RFAGCWrite("C", "0")
             own == [SyncStat |-> C_SyncStat, IFAGCOut |-> C_IFAGCOut, RFAGCOut |-> C_RFAGCOut,
               QAM |-> C_QAM, SymbolRate |-> C_SymbolRate, CarrierOffset |-> C_CarrierOffset,
               SpectrumSense |-> C_SpectrumSense, SNR |-> C_SNR, PreRSBER |-> C_PreRSBER,
               RSError |-> C_RSError, RFAGCWrite |-> bits, CheckTSLock |-> C_CheckTSLock]
  <2>1. C_SyncStat \in P /\ C_CheckTSLock \in P
    BY ChecksQuiet, Levels
  <2>2. C_IFAGCOut \in P /\ C_RFAGCOut \in P /\ bits \in P
    BY <1>0, OthersSimple, Levels DEF C_RFAGCOut
  <2>3. /\ C_QAM \in P /\ C_SymbolRate \in P /\ C_CarrierOffset \in P /\ C_SpectrumSense \in P
        /\ C_RSError \in P /\ C_SNR \in P /\ C_PreRSBER \in P
    BY FunctionsC, Levels DEF C_QAM, C_SymbolRate, C_CarrierOffset, C_SpectrumSense, C_RSError
  <2>5. Scripts["C"] = Answering(own)
    BY DEF Scripts
  <2> HIDE DEF P, bits
  <2>6. \A m \in DOMAIN own : own[m] \in P
    BY <2>1, <2>2, <2>3
  <2> HIDE DEF own
  <2> QED BY <1>0, <1>2, <2>5, <2>6, AnsweringSound DEF P
<1>3. CASE y = "T2"
  <2> DEFINE P == Called("T2")  bits == RFAGCWrite("T2", "21")  q1 == T2_Quality(T2_MER)
             q2 == T2_Quality(T2_FilteredMER)
             own == [SyncStat |-> T2_SyncStat, IFAGCOut |-> T2_IFAGCOut, RFAGCOut |-> T2_RFAGCOut,
               CarrierOffset |-> T2_CarrierOffset, SNR |-> T2_SNR, MER |-> T2_MER,
               PreLDPCBER |-> T2_PreLDPCBER, PostBCHFER |-> T2_PostBCHFER, L1Pre |-> T2_L1Pre,
               Preset |-> T2_Preset, DataPLPs |-> T2_DataPLPs, ActivePLP |-> T2_ActivePLP,
               DataPLPError |-> T2_DataPLPError, L1Change |-> T2_L1Change, L1Post |-> T2_L1Post,
               SpectrumSense |-> T2_SpectrumSense, PreBCHBER |-> T2_PreBCHBER,
               SamplingOffset |-> T2_SamplingOffset, TsRate |-> T2_TsRate,
               FilteredMER |-> T2_FilteredMER, Quality |-> q1,
               QualityV2 |-> q2, SetPLPConfig |-> SetPLPConfig,
               SetSpectrumSense |-> SetSpectrumSense, RFAGCWrite |-> bits,
               CheckDemodLock |-> T2_CheckDemodLock, CheckTSLock |-> T2_CheckTSLock,
               CheckP1Lock |-> T2_CheckP1Lock, CheckT2P1Lock |-> T2_CheckT2P1Lock,
               OptimiseTSOutput_ES1_0 |-> t2_es1_0_OptimiseTSOutput,
               OptimiseTSOutput_ES1_1 |-> t2_es1_1_OptimiseTSOutput]
  <2>1. T2_SyncStat \in P /\ T2_CheckDemodLock \in P /\ T2_CheckTSLock \in P
    BY ChecksQuiet, Levels DEF T2_CheckTSLock
  <2>2. /\ T2_IFAGCOut \in P /\ T2_RFAGCOut \in P /\ bits \in P /\ T2_SpectrumSense \in P
        /\ SetPLPConfig \in P /\ SetSpectrumSense \in P /\ T2_CheckP1Lock \in P
        /\ T2_CheckT2P1Lock \in P
    BY <1>0, OthersSimple, Levels DEF T2_RFAGCOut
  <2>3. /\ T2_CarrierOffset \in P /\ T2_SNR \in P /\ T2_L1Pre \in P /\ T2_Preset \in P
        /\ T2_ActivePLP \in P /\ T2_DataPLPError \in P /\ T2_SamplingOffset \in P
        /\ T2_TsRate \in P
    BY FunctionsT2, Levels
  <2>4. /\ T2_PreLDPCBER \in P /\ T2_PostBCHFER \in P /\ T2_L1Change \in P /\ T2_PreBCHBER \in P
    BY PartsT2, Levels
  <2>5. T2_MER \in P /\ T2_FilteredMER \in P /\ T2_DataPLPs \in P /\ T2_L1Post \in P
    BY MerT2, FilteredMerT2, DataPLPsT2, L1PostT2, Levels
  <2>6. q1 \in P /\ q2 \in P
    BY QualityT2, MerT2, FilteredMerT2
  <2>7. t2_es1_0_OptimiseTSOutput \in P /\ t2_es1_1_OptimiseTSOutput \in P
    BY OptimiseT2, Levels
  <2>8. Scripts["T2"] = Answering(own)
    BY DEF Scripts
  <2> HIDE DEF P, bits, q1, q2
  <2>9. \A m \in DOMAIN own : own[m] \in P
    BY <2>1, <2>2, <2>3, <2>4, <2>5, <2>6, <2>7
  <2> HIDE DEF own
  <2> QED BY <1>0, <1>3, <2>8, <2>9, AnsweringSound DEF P
<1> QED BY <1>1, <1>2, <1>3 DEF Systems

LEMMA ScriptsOfChecks ==
  ASSUME ~ScanMode, NEW y \in Systems, NEW n \in DOMAIN Scripts[y]
  PROVE  /\ n # "none"
         /\ n \in LockChecks => Scripts[y][n] \in Seq(Quiet(y, y, Home(y)))
         /\ n = "Tuner_Get_Signal_Quality" => Scripts[y][n] \in Seq(Homely(y))
<1> DEFINE q == "Tuner_Get_Signal_Quality"
<1>1. CASE y = "T"
  <2>1. n # "none" /\ Home(y) = "0"
    BY <1>1 DEF Scripts, Answering, AnySystem, Home
  <2>2. /\ n = "SyncStat" => Scripts[y][n] = T_SyncStat
        /\ n = "CheckDemodLock" => Scripts[y][n] = CheckTPSLock
        /\ n = "CheckTSLock" => Scripts[y][n] = T_CheckTSLock
        /\ n = q => Scripts[y][n] = Tuner_Get_Signal_Quality
    BY <1>1 DEF Scripts, Answering, AnySystem
  <2> QED BY <1>1, <2>1, <2>2, ChecksQuiet, QualityCall DEF LockChecks
<1>2. CASE y = "C"
  <2>1. n # "none" /\ Home(y) = "0" /\ n # q /\ n # "CheckDemodLock"
    BY <1>2 DEF Scripts, Answering, AnySystem, Home
  <2>2. /\ n = "SyncStat" => Scripts[y][n] = C_SyncStat
        /\ n = "CheckTSLock" => Scripts[y][n] = C_CheckTSLock
    BY <1>2 DEF Scripts, Answering, AnySystem
  <2> QED BY <1>2, <2>1, <2>2, ChecksQuiet DEF LockChecks
<1>3. CASE y = "T2"
  <2>1. n # "none" /\ Home(y) = "20" /\ n # q
    BY <1>3 DEF Scripts, Answering, AnySystem, Home
  <2>2. /\ n = "SyncStat" => Scripts[y][n] = T2_SyncStat
        /\ n = "CheckDemodLock" => Scripts[y][n] = T2_CheckDemodLock
        /\ n = "CheckTSLock" => Scripts[y][n] = T2_SyncStat
    BY <1>3 DEF Scripts, Answering, AnySystem, T2_CheckTSLock
  <2> QED BY <1>3, <2>1, <2>2, ChecksQuiet DEF LockChecks
<1> QED BY <1>1, <1>2, <1>3 DEF Systems

-----------------------------------------------------------------------------
(* What is left of a script.                                               *)

\* Every access of s finds the bank it needs, bk being what is selected now.
InBanks(s, bk) ==
  \A i \in DOMAIN s : Needs(s, i) =>
    Selected(s, i) \/ (bk[s[i].slave] = s[i].bank /\ StaysIn(s, 0, i))

\* Every value of s is read under a lock: lk is the lock that was read, fr says that
\* the registers are frozen and la what they show of the lock.
TestLeft(s, i) == \E k \in 1..(i - 1) : s[k].do = "test"
UnderLock(s, i, lk, la) ==
  Tested(s, 0, i) \/ ((lk => la) /\ TestLeft(s, i)) \/ (lk /\ la)
OfLock(s, lk, fr, la) ==
  \A i \in DOMAIN s : s[i].do = "value" =>
    Vouched(s, i) \/ (fr /\ StaysFrozen(s, 0, i) /\ UnderLock(s, i, lk, la))

LEMMA TailIs ==
  ASSUME NEW S, NEW s \in Seq(S), s # <<>>
  PROVE  /\ Tail(s) \in Seq(S) /\ Len(s) \in Nat \ {0} /\ Len(Tail(s)) = Len(s) - 1
         /\ DOMAIN Tail(s) = 1..(Len(s) - 1) /\ DOMAIN s = 1..Len(s)
         /\ \A i \in 1..(Len(s) - 1) : Tail(s)[i] = s[i + 1]
         /\ Head(s) = s[1] /\ s[1] \in S
  OBVIOUS

LEMMA NextInBanks ==
  ASSUME NEW y, NEW U, NEW s \in Seq(Accesses(y, U)), s # <<>>, NEW bk \in [Systems -> Banks],
         NEW bk2, InBanks(s, bk),
         bk2 = IF s[1].do = "bank" THEN [bk EXCEPT ![s[1].slave] = s[1].bank] ELSE bk
  PROVE  InBanks(Tail(s), bk2)
<1> DEFINE S == Accesses(y, U)  r == Tail(s)  n == Len(s)
<1>1. /\ r \in Seq(S) /\ n \in Nat /\ n # 0 /\ DOMAIN r = 1..(n - 1) /\ DOMAIN s = 1..n
      /\ \A i \in 1..(n - 1) : r[i] = s[i + 1]
  BY TailIs
<1>2. \A i \in 1..n : s[i] \in S
  BY <1>1
<1>3. \A i \in 1..n : s[i].slave \in Systems
  BY <1>2 DEF Accesses
<1> HIDE DEF r, n
<1> SUFFICES ASSUME NEW i \in 1..(n - 1), Needs(r, i)
             PROVE  Selected(r, i) \/ (bk2[r[i].slave] = r[i].bank /\ StaysIn(r, 0, i))
  BY <1>1 DEF InBanks, r
<1> DEFINE h == i + 1
<1>4. h \in 2..n /\ h - 1 = i /\ r[i] = s[h] /\ Needs(s, h) /\ s[h].slave \in Systems
  BY <1>1, <1>3 DEF Needs
<1> HIDE DEF h
<1>5. ASSUME NEW j \in 0..(h - 1), StaysIn(s, j, h), NEW m \in 0..(i - 1), j <= m + 1
      PROVE  StaysIn(r, m, i)
  <2> SUFFICES ASSUME NEW k \in (m + 1)..(i - 1), r[k].do = "bank", r[k].slave = r[i].slave
               PROVE  r[k].bank = r[i].bank
    BY DEF StaysIn
  <2>1. k + 1 \in (j + 1)..(h - 1) /\ k \in 1..(n - 1)
    BY <1>1, <1>4, <1>5
  <2> QED BY <1>1, <1>4, <1>5, <2>1 DEF StaysIn
<1>6. ASSUME NEW j \in 1..(h - 1), s[j].do = "bank", s[j].slave = s[h].slave, s[j].bank = s[h].bank,
             StaysIn(s, j, h)
      PROVE  Selected(r, i) \/ (bk2[r[i].slave] = r[i].bank /\ StaysIn(r, 0, i))
  <2>1. CASE j = 1
    <3>1. StaysIn(r, 0, i)
      <4>1. 0 \in 0..(i - 1) /\ j <= 0 + 1 /\ j \in 0..(h - 1)
        BY <1>4, <2>1
      <4> QED BY <1>5, <1>6, <4>1
    <3> QED BY <1>4, <1>6, <2>1, <3>1
  <2>2. CASE j # 1
    <3> DEFINE m == j - 1
    <3>1. m \in 0..(i - 1) /\ j <= m + 1 /\ m \in 1..(i - 1) /\ m \in 1..(n - 1) /\ m + 1 = j
          /\ j \in 0..(h - 1)
      BY <1>1, <1>4, <2>2
    <3> HIDE DEF m
    <3>2. StaysIn(r, m, i)
      BY <1>5, <1>6, <3>1
    <3>3. r[m] = s[j]
      BY <1>1, <3>1
    <3> QED BY <1>4, <1>6, <3>1, <3>2, <3>3 DEF Selected
  <2> QED BY <2>1, <2>2
<1>7. ASSUME bk[s[h].slave] = s[h].bank, StaysIn(s, 0, h)
      PROVE  bk2[r[i].slave] = r[i].bank /\ StaysIn(r, 0, i)
  <2>1. StaysIn(r, 0, i)
    <3>1. 0 \in 0..(i - 1) /\ 0 <= 0 + 1 /\ 0 \in 0..(h - 1)
      BY <1>4
    <3> QED BY <1>5, <1>7, <3>1
  <2>2. CASE s[1].do = "bank" /\ s[1].slave = s[h].slave
    <3>1. 1 \in 1..(h - 1) /\ 0 + 1 = 1
      BY <1>4
    <3>2. s[1].bank = s[h].bank
      BY <1>7, <2>2, <3>1 DEF StaysIn
    <3> QED BY <1>4, <2>1, <2>2, <3>2
  <2>3. CASE ~(s[1].do = "bank" /\ s[1].slave = s[h].slave)
    BY <1>4, <1>7, <2>1, <2>3
  <2> QED BY <2>2, <2>3
<1>8. Selected(s, h) \/ (bk[s[h].slave] = s[h].bank /\ StaysIn(s, 0, h))
  BY <1>1, <1>4 DEF InBanks
<1> QED BY <1>6, <1>7, <1>8 DEF Selected

LEMMA NextOfLock ==
  ASSUME NEW S, NEW s \in Seq(S), s # <<>>, NEW lk, NEW fr, NEW la, NEW lk2, NEW fr2, NEW la2,
         OfLock(s, lk, fr, la),
         s[1].do = "freeze" => fr2,
         s[1].do # "unfreeze" /\ fr => fr2 /\ la2 = la,
         s[1].do = "lock" /\ fr => lk2 = la,
         s[1].do # "lock" => lk2 = lk,
         s[1].do = "test" => lk
  PROVE  OfLock(Tail(s), lk2, fr2, la2)
<1> DEFINE r == Tail(s)  n == Len(s)
<1>1. /\ r \in Seq(S) /\ n \in Nat /\ n # 0 /\ DOMAIN r = 1..(n - 1) /\ DOMAIN s = 1..n
      /\ \A i \in 1..(n - 1) : r[i] = s[i + 1]
  BY TailIs
<1> HIDE DEF r, n
<1> SUFFICES ASSUME NEW i \in 1..(n - 1), r[i].do = "value"
             PROVE  Vouched(r, i) \/ (fr2 /\ StaysFrozen(r, 0, i) /\ UnderLock(r, i, lk2, la2))
  BY <1>1 DEF OfLock, r
<1> DEFINE h == i + 1
<1>2. h \in 2..n /\ h - 1 = i /\ r[i] = s[h]
  BY <1>1
<1> HIDE DEF h
<1>3. ASSUME NEW j \in 0..(h - 1), StaysFrozen(s, j, h), NEW m \in 0..(i - 1), j <= m + 1
      PROVE  StaysFrozen(r, m, i)
  <2> SUFFICES ASSUME NEW k \in (m + 1)..(i - 1) PROVE r[k].do # "unfreeze"
    BY DEF StaysFrozen
  <2>1. k + 1 \in (j + 1)..(h - 1) /\ k \in 1..(n - 1)
    BY <1>1, <1>2, <1>3
  <2> QED BY <1>1, <1>3, <2>1 DEF StaysFrozen
<1>4. ASSUME NEW j \in 1..(h - 1), Tested(s, j, h)
      PROVE  Tested(r, j - 1, i)
  <2>1. PICK k \in (j + 1)..(h - 1) : s[k].do = "test" /\ \E m \in (j + 1)..(k - 1) : s[m].do = "lock"
    BY <1>4 DEF Tested
  <2>2. PICK m \in (j + 1)..(k - 1) : s[m].do = "lock"
    BY <2>1
  <2> DEFINE k1 == k - 1  m1 == m - 1
  <2>3. /\ k1 \in (j - 1 + 1)..(i - 1) /\ m1 \in (j - 1 + 1)..(k1 - 1)
        /\ k1 \in 1..(n - 1) /\ m1 \in 1..(n - 1) /\ k1 + 1 = k /\ m1 + 1 = m
    BY <1>1, <1>2, <2>1, <2>2
  <2> HIDE DEF k1, m1
  <2>4. r[k1] = s[k] /\ r[m1] = s[m]
    BY <1>1, <2>3
  <2> QED BY <2>1, <2>2, <2>3, <2>4 DEF Tested
<1>5. CASE Vouched(s, h)
  <2>1. PICK j \in 1..(h - 1) : s[j].do = "freeze" /\ StaysFrozen(s, j, h) /\ Tested(s, j, h)
    BY <1>5 DEF Vouched
  <2> DEFINE m == j - 1
  <2>2. m \in 0..(i - 1) /\ j <= m + 1 /\ j \in 0..(h - 1) /\ m + 1 = j
    BY <1>2
  <2>3. Tested(r, m, i)
    BY <1>4, <2>1
  <2> HIDE DEF m
  <2>4. StaysFrozen(r, m, i)
    BY <1>3, <2>1, <2>2
  <2>5. CASE m = 0
    BY <2>1, <2>2, <2>3, <2>4, <2>5 DEF UnderLock
  <2>6. CASE m # 0
    <3>1. m \in 1..(i - 1) /\ m \in 1..(n - 1)
      BY <1>1, <1>2, <2>2, <2>6
    <3>2. r[m] = s[j]
      BY <1>1, <2>2, <3>1
    <3> QED BY <2>1, <2>3, <2>4, <3>1, <3>2 DEF Vouched
  <2> QED BY <2>5, <2>6
<1>6. CASE fr /\ StaysFrozen(s, 0, h) /\ UnderLock(s, h, lk, la)
  <2>1. StaysFrozen(r, 0, i)
    <3>1. 0 \in 0..(h - 1) /\ 0 \in 0..(i - 1) /\ 0 <= 0 + 1
      BY <1>2
    <3> QED BY <1>3, <1>6, <3>1
  <2>2. s[1].do # "unfreeze"
    <3>1. 1 \in (0 + 1)..(h - 1)
      BY <1>2
    <3> QED BY <1>6, <3>1 DEF StaysFrozen
  <2>3. fr2 /\ la2 = la
    BY <1>6, <2>2
  <2>4. ASSUME NEW k \in 1..(h - 1), s[k].do = "test", k # 1 PROVE TestLeft(r, i)
    <3> DEFINE k1 == k - 1
    <3>1. k1 \in 1..(i - 1) /\ k1 \in 1..(n - 1) /\ k1 + 1 = k
      BY <1>1, <1>2, <2>4
    <3> HIDE DEF k1
    <3>2. r[k1] = s[k]
      BY <1>1, <3>1
    <3> QED BY <2>4, <3>1, <3>2 DEF TestLeft
  <2>5. CASE Tested(s, 0, h)
    <3>1. PICK k \in 1..(h - 1) : s[k].do = "test" /\ \E m \in 1..(k - 1) : s[m].do = "lock"
      BY <2>5 DEF Tested
    <3>2. PICK m \in 1..(k - 1) : s[m].do = "lock"
      BY <3>1
    <3>3. CASE m = 1
      <4>1. lk2 = la
        BY <1>6, <3>2, <3>3
      <4>2. TestLeft(r, i)
        BY <2>4, <3>1
      <4> QED BY <2>1, <2>3, <4>1, <4>2 DEF UnderLock
    <3>4. CASE m # 1
      <4> DEFINE k1 == k - 1  m1 == m - 1
      <4>1. /\ k1 \in (0 + 1)..(i - 1) /\ m1 \in (0 + 1)..(k1 - 1)
            /\ k1 \in 1..(n - 1) /\ m1 \in 1..(n - 1) /\ k1 + 1 = k /\ m1 + 1 = m
        BY <1>1, <1>2, <3>1, <3>2, <3>4
      <4> HIDE DEF k1, m1
      <4>2. r[k1] = s[k] /\ r[m1] = s[m]
        BY <1>1, <4>1
      <4>3. Tested(r, 0, i)
        BY <3>1, <3>2, <4>1, <4>2 DEF Tested
      <4> QED BY <2>1, <2>3, <4>3 DEF UnderLock
    <3> QED BY <3>3, <3>4
  <2>6. CASE (lk => la) /\ TestLeft(s, h)
    <3>1. PICK k \in 1..(h - 1) : s[k].do = "test"
      BY <2>6 DEF TestLeft
    <3>2. CASE k = 1
      BY <2>1, <2>3, <2>6, <3>1, <3>2 DEF UnderLock
    <3>3. CASE k # 1
      <4>1. TestLeft(r, i)
        BY <2>4, <3>1, <3>3
      <4>2. lk2 => la2
        BY <1>6, <2>3, <2>6
      <4> QED BY <2>1, <2>3, <4>1, <4>2 DEF UnderLock
    <3> QED BY <3>2, <3>3
  <2>7. CASE lk /\ la
    BY <1>6, <2>1, <2>3, <2>7 DEF UnderLock
  <2> QED BY <1>6, <2>5, <2>6, <2>7 DEF UnderLock
<1>7. Vouched(s, h) \/ (fr /\ StaysFrozen(s, 0, h) /\ UnderLock(s, h, lk, la))
  BY <1>1, <1>2 DEF OfLock
<1> QED BY <1>5, <1>6, <1>7

LEMMA NextThaws ==
  ASSUME NEW S, NEW s \in Seq(S), s # <<>>
  PROVE  /\ ThawsAll(s) => ThawsAll(Tail(s))
         /\ ThawsAll(s) /\ s[1].do = "freeze" => Thaws(Tail(s), 0)
         /\ Thaws(s, 0) /\ ~Releases(s[1]) => Thaws(Tail(s), 0)
         /\ Thaws(s, 0) /\ ~Releases(s[1]) => s[1].undo # <<>> /\ Releases(s[1].undo[1])
<1> DEFINE r == Tail(s)  n == Len(s)
<1>1. /\ r \in Seq(S) /\ n \in Nat /\ n # 0 /\ DOMAIN r = 1..(n - 1) /\ DOMAIN s = 1..n
      /\ \A i \in 1..(n - 1) : r[i] = s[i + 1]
      /\ Len(r) = n - 1 /\ Len(s) = n
  BY TailIs
<1> HIDE DEF r, n
<1>2. ASSUME NEW i \in 1..n, Thaws(s, i) PROVE Thaws(r, i - 1)
  <2>1. PICK m \in (i + 1)..n :
          Releases(s[m]) /\ \A k \in (i + 1)..(m - 1) : s[k].undo # <<>> /\ Releases(s[k].undo[1])
    BY <1>1, <1>2 DEF Thaws
  <2> DEFINE q == m - 1
  <2>2. q \in (i - 1 + 1)..(n - 1) /\ q \in 1..(n - 1) /\ q + 1 = m
    BY <1>1, <2>1
  <2> HIDE DEF q
  <2>3. Releases(r[q])
    BY <1>1, <2>1, <2>2
  <2>4. ASSUME NEW k \in (i - 1 + 1)..(q - 1) PROVE r[k].undo # <<>> /\ Releases(r[k].undo[1])
    <3>1. k + 1 \in (i + 1)..(m - 1) /\ k \in 1..(n - 1)
      BY <1>1, <2>1, <2>2
    <3> QED BY <1>1, <2>1, <3>1
  <2> QED BY <1>1, <2>2, <2>3, <2>4 DEF Thaws
<1>3. ASSUME ThawsAll(s) PROVE ThawsAll(r)
  <2> SUFFICES ASSUME NEW i \in 1..(n - 1), r[i].do = "freeze" PROVE Thaws(r, i)
    BY <1>1 DEF ThawsAll
  <2> DEFINE h == i + 1
  <2>1. h \in 1..n /\ h - 1 = i /\ s[h].do = "freeze"
    BY <1>1
  <2> HIDE DEF h
  <2>2. Thaws(s, h)
    BY <1>1, <1>3, <2>1 DEF ThawsAll
  <2>3. Thaws(r, h - 1)
    BY <1>2, <2>1, <2>2
  <2> QED BY <2>1, <2>3
<1>4. ASSUME ThawsAll(s), s[1].do = "freeze" PROVE Thaws(r, 0)
  <2>1. 1 \in 1..n /\ 1 - 1 = 0
    BY <1>1
  <2>2. Thaws(s, 1)
    BY <1>1, <1>4, <2>1 DEF ThawsAll
  <2>3. Thaws(r, 1 - 1)
    BY <1>2, <2>1, <2>2
  <2> QED BY <2>1, <2>3
<1>5. ASSUME Thaws(s, 0), ~Releases(s[1])
      PROVE  Thaws(r, 0) /\ s[1].undo # <<>> /\ Releases(s[1].undo[1])
  <2>0. 0 + 1 = 1
    OBVIOUS
  <2>1. PICK m \in 1..n :
          Releases(s[m]) /\ \A k \in 1..(m - 1) : s[k].undo # <<>> /\ Releases(s[k].undo[1])
    BY <1>1, <1>5, <2>0 DEF Thaws
  <2>2. m # 1
    BY <1>5, <2>1
  <2>3. 1 \in 1..(m - 1) /\ m \in (1 + 1)..n /\ 1 \in 1..n /\ 1 - 1 = 0
    BY <1>1, <2>2
  <2>4. \A k \in (1 + 1)..(m - 1) : s[k].undo # <<>> /\ Releases(s[k].undo[1])
    BY <2>1
  <2>5. Thaws(s, 1)
    BY <1>1, <2>1, <2>3, <2>4 DEF Thaws
  <2>6. Thaws(r, 1 - 1)
    BY <1>2, <2>3, <2>5
  <2> QED BY <2>1, <2>3, <2>6
<1> QED BY <1>3, <1>4, <1>5 DEF r

LEMMA UndoThaws ==
  ASSUME NEW S, NEW u \in Seq(S), u # <<>>, Releases(u[1])
  PROVE  Thaws(u, 0)
<1>1. Len(u) \in Nat /\ Len(u) # 0
  OBVIOUS
<1>2. 1 \in (0 + 1)..Len(u) /\ \A k \in (0 + 1)..(1 - 1) : FALSE
  BY <1>1
<1> QED BY <1>2 DEF Thaws

\* What a script promises holds whatever the chip is in when it begins.
LEMMA Begins ==
  ASSUME NEW y, NEW U, NEW s \in Sound(y, U), NEW bk, NEW lk, NEW fr, NEW la
  PROVE  s \in Seq(Accesses(y, U)) /\ InBanks(s, bk) /\ OfLock(s, lk, fr, la) /\ ThawsAll(s)
  BY DEF Sound, InBanks, OfLock, SelectsBanks, TestsLocks

\* Another thread that selects the bank they both stay in does no harm.
LEMMA HomeBank ==
  ASSUME NEW y, NEW s \in Seq(Homely(y)), NEW bk \in [Systems -> Banks], InBanks(s, bk),
         y \in Systems
  PROVE  InBanks(s, [bk EXCEPT ![y] = Home(y)])
<1>1. \A i \in DOMAIN s : s[i] \in Homely(y)
  OBVIOUS
<1>2. \A i \in DOMAIN s : Needs(s, i) => s[i].slave = y /\ s[i].bank = Home(y)
  BY <1>1 DEF Homely, Needs
<1> QED BY <1>2 DEF InBanks

LEMMA QuietHomely ==
  ASSUME NEW y
  PROVE  /\ Seq(Quiet(y, y, Home(y))) \subseteq Seq(Homely(y))
         /\ \A s \in Seq(Quiet(y, y, Home(y))) : \A i \in DOMAIN s :
              s[i].do \notin {"freeze", "unfreeze", "value"} /\ s[i].undo = <<>>
<1>1. Quiet(y, y, Home(y)) \subseteq Homely(y)
  BY DEF Quiet, InBank, Homely, Accesses
<1>2. \A a \in Quiet(y, y, Home(y)) : a.do \notin {"freeze", "unfreeze", "value"} /\ a.undo = <<>>
  BY DEF Quiet, InBank, Accesses
<1> QED BY <1>1, <1>2

-----------------------------------------------------------------------------
(* A call and the chip.                                                    *)

Quality == "Tuner_Get_Signal_Quality"

Calls(y) ==
  [name : {"none"} \cup DOMAIN Scripts[y], todo : Seq(Accesses(y, Undone(y))),
   lock : BOOLEAN, flag : BOOLEAN, polls : 0..(PollMax - 1), result : CallResults]

\* bk, fr and la are what the chip has selected, frozen and latched of the lock.
CallOk(y, c, bk, fr, la) ==
  /\ c \in Calls(y)
  /\ c.name = "none" => c.todo = <<>>
  /\ InBanks(c.todo, bk) /\ OfLock(c.todo, c.lock, fr, la) /\ ThawsAll(c.todo)
  /\ c.name \in LockChecks => c.todo \in Seq(Quiet(y, y, Home(y)))
  /\ c.name = Quality => c.todo \in Seq(Homely(y))

LEMMA NoCallOk ==
  ASSUME NEW y, NEW bk, NEW fr, NEW la
  PROVE  CallOk(y, NoCall, bk, fr, la)
<1>1. 0 \in 0..(PollMax - 1)
  BY MonitorAssumption
<1>2. /\ NoCall.name = "none" /\ NoCall.todo = <<>> /\ NoCall.lock = FALSE /\ NoCall.flag = FALSE
      /\ NoCall.polls = 0 /\ NoCall.result = "OK"
      /\ NoCall = [name |-> "none", todo |-> <<>>, lock |-> FALSE, flag |-> FALSE, polls |-> 0,
                   result |-> "OK"]
  BY DEF NoCall
<1>3. NoCall \in Calls(y)
  BY <1>1, <1>2 DEF Calls, CallResults
<1>4. <<>> \in Sound(y, Undone(y))
  BY EmptySound
<1>5. InBanks(<<>>, bk) /\ OfLock(<<>>, FALSE, fr, la) /\ ThawsAll(<<>>)
  BY <1>4, Begins
<1> HIDE DEF NoCall
<1> QED BY <1>2, <1>3, <1>5 DEF CallOk, LockChecks, Quality

LEMMA EnterOk ==
  ASSUME ~ScanMode, NEW y \in Systems, NEW n \in DOMAIN Scripts[y], NEW bk, NEW fr, NEW la
  PROVE  CallOk(y, [NoCall EXCEPT !.name = n, !.todo = Scripts[y][n]], bk, fr, la)
<1> DEFINE s == Scripts[y][n]  c == [NoCall EXCEPT !.name = n, !.todo = s]
<1>1. 0 \in 0..(PollMax - 1)
  BY MonitorAssumption
<1>2. s \in Sound(y, Undone(y))
  BY ScriptsSound DEF Called
<1>3. s \in Seq(Accesses(y, Undone(y)))
  BY <1>2, Begins
<1>7. /\ n # "none"
      /\ n \in LockChecks => s \in Seq(Quiet(y, y, Home(y)))
      /\ n = Quality => s \in Seq(Homely(y))
  BY ScriptsOfChecks DEF Quality
<1> DEFINE names == DOMAIN Scripts[y]
<1>8. n \in names
  OBVIOUS
<1>80. Calls(y) = [name : {"none"} \cup names, todo : Seq(Accesses(y, Undone(y))),
                  lock : BOOLEAN, flag : BOOLEAN, polls : 0..(PollMax - 1), result : CallResults]
  BY DEF Calls
<1> DEFINE w == NoCall
<1>40. w = [name |-> "none", todo |-> <<>>, lock |-> FALSE, flag |-> FALSE, polls |-> 0,
            result |-> "OK"]
  BY DEF NoCall
<1>41. c = [w EXCEPT !.name = n, !.todo = s]
  OBVIOUS
<1> HIDE DEF s, names, w, c
<1>4. c = [name |-> n, todo |-> s, lock |-> FALSE, flag |-> FALSE, polls |-> 0, result |-> "OK"]
  BY <1>40, <1>41
<1>5. c \in Calls(y) /\ c.name = n /\ c.todo = s
  BY <1>1, <1>3, <1>4, <1>8, <1>80 DEF CallResults
<1> HIDE DEF c
<1>6. InBanks(s, bk) /\ OfLock(s, c.lock, fr, la) /\ ThawsAll(s)
  BY <1>2, Begins
<1>9. CallOk(y, c, bk, fr, la)
  BY <1>5, <1>6, <1>7 DEF CallOk
<1> QED BY <1>9 DEF c, s

\* What one access does: it is done, ...
Effect(a, bk, bk2, fr, fr2, la, la2) ==
  /\ bk2 = IF a.do = "bank" THEN [bk EXCEPT ![a.slave] = a.bank] ELSE bk
  /\ a.do = "freeze" => fr2
  /\ a.do # "unfreeze" /\ fr => fr2 /\ la2 = la
  /\ a.do \notin {"freeze", "unfreeze"} => fr2 = fr /\ la2 = la

LEMMA AdvanceOk ==
  ASSUME NEW y, NEW bk \in [Systems -> Banks], NEW fr, NEW la, NEW c, CallOk(y, c, bk, fr, la),
         NEW bk2, NEW fr2, NEW la2, NEW c2 \in Calls(y),
         c.todo # <<>>, c2.name = c.name, c2.todo = Tail(c.todo),
         Effect(c.todo[1], bk, bk2, fr, fr2, la, la2),
         c.todo[1].do = "lock" /\ fr => c2.lock = la,
         c.todo[1].do # "lock" => c2.lock = c.lock,
         c.todo[1].do = "test" => c.lock
  PROVE  CallOk(y, c2, bk2, fr2, la2)
<1> DEFINE s == c.todo  S == Accesses(y, Undone(y))
<1>1. /\ s \in Seq(S) /\ s # <<>> /\ InBanks(s, bk) /\ OfLock(s, c.lock, fr, la) /\ ThawsAll(s)
      /\ c.name # "none"
      /\ c.name \in LockChecks => s \in Seq(Quiet(y, y, Home(y)))
      /\ c.name = Quality => s \in Seq(Homely(y))
  BY DEF CallOk, Calls
<1>2. bk2 = IF s[1].do = "bank" THEN [bk EXCEPT ![s[1].slave] = s[1].bank] ELSE bk
  BY DEF Effect
<1>3. /\ s[1].do = "freeze" => fr2
      /\ s[1].do # "unfreeze" /\ fr => fr2 /\ la2 = la
      /\ s[1].do = "lock" /\ fr => c2.lock = la
      /\ s[1].do # "lock" => c2.lock = c.lock
      /\ s[1].do = "test" => c.lock
  BY DEF Effect
<1> DEFINE lk == c.lock  lk2 == c2.lock
<1>4. c2.name = c.name /\ c2.todo = Tail(s) /\ c2 \in Calls(y)
  OBVIOUS
<1> HIDE DEF s, lk, lk2
<1>5. InBanks(Tail(s), bk2)
  BY <1>1, <1>2, NextInBanks
<1>6. OfLock(Tail(s), lk2, fr2, la2)
  <2> HIDE DEF S
  <2> QED BY <1>1, <1>3, NextOfLock DEF lk, lk2
<1>7. ThawsAll(Tail(s))
  <2> HIDE DEF S
  <2> QED BY <1>1, NextThaws
<1>8. /\ c.name \in LockChecks => Tail(s) \in Seq(Quiet(y, y, Home(y)))
      /\ c.name = Quality => Tail(s) \in Seq(Homely(y))
  BY <1>1
<1> QED BY <1>1, <1>4, <1>5, <1>6, <1>7, <1>8 DEF CallOk, lk2

\* ... or the call goes on with what there is to undo.
LEMMA AbandonOk ==
  ASSUME NEW y \in Systems, NEW bk, NEW fr, NEW la, NEW c, CallOk(y, c, bk, fr, la),
         NEW c2 \in Calls(y), c.todo # <<>>, c2.name = c.name, c2.todo = c.todo[1].undo
  PROVE  CallOk(y, c2, bk, fr, la)
<1> DEFINE s == c.todo  S == Accesses(y, Undone(y))  u == s[1].undo
<1>1. /\ s \in Seq(S) /\ s # <<>> /\ c.name # "none"
      /\ c.name \in LockChecks => s \in Seq(Quiet(y, y, Home(y)))
      /\ c.name = Quality => s \in Seq(Homely(y))
  BY DEF CallOk, Calls
<1>2. s[1] \in S /\ 1 \in DOMAIN s
  <2> HIDE DEF S
  <2> QED BY <1>1, TailIs
<1>3. u \in Sound(y, Simple(y))
  BY <1>2 DEF Accesses, Undone
<1>4. InBanks(u, bk) /\ OfLock(u, c2.lock, fr, la) /\ ThawsAll(u)
  BY <1>3, Begins
<1> HIDE DEF s
<1>5. c.name \in LockChecks => u \in Seq(Quiet(y, y, Home(y)))
  <2> SUFFICES ASSUME c.name \in LockChecks PROVE u \in Seq(Quiet(y, y, Home(y)))
    OBVIOUS
  <2>1. u = <<>>
    BY <1>1, <1>2, QuietHomely
  <2> QED BY <2>1
<1>6. c.name = Quality => u \in Seq(Homely(y))
  <2> SUFFICES ASSUME c.name = Quality PROVE u \in Seq(Homely(y))
    OBVIOUS
  <2> DEFINE v == Void(Unfreeze(y))
  <2>1. s[1] \in Homely(y)
    BY <1>1, <1>2
  <2>2. u \in {<<>>, <<v>>}
    BY <2>1 DEF Homely, Accesses
  <2>3. v \in Homely(y)
    BY UnfreezeIs DEF Homely, Accesses
  <2> DEFINE H == Homely(y)
  <2> HIDE DEF v, H
  <2>4. <<v>> \in Seq(H) /\ <<>> \in Seq(H)
    <3>1. v \in H
      BY <2>3 DEF H
    <3> QED BY <3>1
  <2> HIDE DEF u
  <2>5. u = <<>> \/ u = <<v>>
    BY <2>2
  <2> QED BY <2>4, <2>5 DEF H
<1> QED BY <1>1, <1>4, <1>5, <1>6 DEF CallOk, s

\* A call is not disturbed by what another thread does beside it.
LEMMA OtherOk ==
  ASSUME NEW y \in Systems, NEW bk \in [Systems -> Banks], NEW fr, NEW la, NEW c,
         CallOk(y, c, bk, fr, la), NEW bk2, NEW fr2, NEW la2,
         NEW a \in Homely(y), Effect(a, bk, bk2, fr, fr2, la, la2),
         \/ c.name \in LockChecks
         \/ c.name = Quality /\ a.do \notin {"freeze", "unfreeze"}
  PROVE  CallOk(y, c, bk2, fr2, la2)
<1> DEFINE s == c.todo
<1>1. s \in Seq(Homely(y)) /\ InBanks(s, bk)
  BY QuietHomely DEF CallOk
<1>2. a.do = "bank" => a.slave = y /\ a.bank = Home(y)
  BY DEF Homely
<1>3. bk2 = bk \/ bk2 = [bk EXCEPT ![y] = Home(y)]
  BY <1>2 DEF Effect
<1>4. InBanks(s, bk2)
  <2> HIDE DEF s
  <2> QED BY <1>1, <1>3, HomeBank
<1>5. OfLock(s, c.lock, fr2, la2)
  <2>1. CASE c.name \in LockChecks
    <3>1. \A i \in DOMAIN s : s[i].do # "value"
      BY <2>1, QuietHomely DEF CallOk
    <3> QED BY <3>1 DEF OfLock
  <2>2. CASE a.do \notin {"freeze", "unfreeze"}
    BY <2>2 DEF CallOk, Effect
  <2> QED BY <2>1, <2>2
<1> QED BY <1>4, <1>5 DEF CallOk

-----------------------------------------------------------------------------
(* The invariant.                                                          *)

\* tdp_api.c is the application here: it knows the quality call, and the threads of
\* its tuner check the lock; no two threads ask for the quality at once.
AsTdpApi ==
  /\ \A t \in Threads : Beside[t] \subseteq LockChecks \cup {Quality}
  /\ \A t, u \in Threads : t # u => ~(Quality \in Beside[t] /\ Quality \in Beside[u])

ChipType ==
  /\ system \in Systems
  /\ bank \in [Systems -> Banks] /\ frozen \in [Systems -> BOOLEAN]
  /\ {locked, changed, oneMer} \subseteq BOOLEAN
  /\ latch \in [locked : BOOLEAN, changed : BOOLEAN]

CallsOk ==
  /\ DOMAIN call = Threads
  /\ \A t \in Threads : CallOk(system, call[t], bank, frozen[system], latch.locked)

\* Whoever froze the registers is on the way to unfreeze them.
FrozenByCalls ==
  \A s \in Systems : frozen[s] => s = system /\ \E t \in Threads : Thaws(call[t].todo, 0)

OnlyBeside == \A t, u \in Threads : t # u /\ Busy(t) /\ Busy(u) => call[t].name \in Beside[t]

MonitorInv == ChipType /\ CallsOk /\ FrozenByCalls /\ OnlyBeside

\* One thread's call becomes c.
Becomes(t, c) == DOMAIN call' = Threads /\ call'[t] = c /\ \A u \in Threads \ {t} : call'[u] = call[u]

LEMMA BesideStays ==
  ASSUME MonitorInv, NEW t \in Threads, Busy(t), NEW c, Becomes(t, c), c.name \in {"none", call[t].name}
  PROVE  OnlyBeside'
<1> SUFFICES ASSUME NEW u \in Threads, NEW w \in Threads, u # w, Busy(u)', Busy(w)'
             PROVE  call'[u].name \in Beside[u]
  BY DEF OnlyBeside
<1>1. \A x \in Threads : Busy(x)' => Busy(x) /\ call'[x].name = call[x].name
  BY DEF Becomes, Busy
<1> QED BY <1>1 DEF MonitorInv, OnlyBeside

\* The other threads' calls.
LEMMA OthersOk ==
  ASSUME AsTdpApi, MonitorInv, ChipType', system' = system,
         NEW t \in Threads, Busy(t), call[t].todo # <<>>,
         Effect(call[t].todo[1], bank, bank', frozen[system], frozen'[system], latch.locked, latch'.locked),
         NEW c, Becomes(t, c)
  PROVE  \A u \in Threads \ {t} : CallOk(system, call'[u], bank', frozen'[system], latch'.locked)
<1> SUFFICES ASSUME NEW u \in Threads \ {t}
             PROVE  CallOk(system, call[u], bank', frozen'[system], latch'.locked)
  BY DEF Becomes
<1>1. /\ CallOk(system, call[u], bank, frozen[system], latch.locked)
      /\ CallOk(system, call[t], bank, frozen[system], latch.locked)
      /\ system \in Systems /\ bank \in [Systems -> Banks]
  BY DEF MonitorInv, CallsOk, ChipType
<1>2. CASE ~Busy(u)
  <2>1. call[u].name = "none" /\ call[u].todo = <<>>
    BY <1>1, <1>2 DEF Busy, CallOk
  <2>2. <<>> \in Sound(system, Undone(system))
    BY EmptySound
  <2> DEFINE lk == call[u].lock  fr2 == frozen'[system]  la2 == latch'.locked  bk2 == bank'
  <2> HIDE DEF lk, fr2, la2, bk2
  <2>3. InBanks(<<>>, bk2) /\ OfLock(<<>>, lk, fr2, la2) /\ ThawsAll(<<>>)
    BY <2>2, Begins
  <2> QED BY <1>1, <2>1, <2>3 DEF CallOk, LockChecks, Quality, lk, fr2, la2, bk2
<1>3. CASE Busy(u)
  <2> DEFINE a == call[t].todo[1]
  <2>1. call[t].name \in Beside[t] /\ call[u].name \in Beside[u]
    BY <1>3 DEF MonitorInv, OnlyBeside
  <2>2. /\ call[t].name \in LockChecks \cup {Quality} /\ call[u].name \in LockChecks \cup {Quality}
        /\ ~(call[t].name = Quality /\ call[u].name = Quality)
    BY <2>1 DEF AsTdpApi
  <2>3. call[t].todo \in Seq(Homely(system))
    BY <1>1, <2>2, QuietHomely DEF CallOk
  <2>4. a \in Homely(system) /\ 1 \in DOMAIN call[t].todo
    BY <2>3, TailIs
  <2>5. call[t].name \in LockChecks => a.do \notin {"freeze", "unfreeze"}
    BY <1>1, <2>4, QuietHomely DEF CallOk
  <2> DEFINE y == system  bk == bank  fr == frozen[system]  la == latch.locked  cu == call[u]
             bk2 == bank'  fr2 == frozen'[system]  la2 == latch'.locked
  <2>6. /\ y \in Systems /\ bk \in [Systems -> Banks] /\ CallOk(y, cu, bk, fr, la) /\ a \in Homely(y)
        /\ Effect(a, bk, bk2, fr, fr2, la, la2)
        /\ cu.name \in LockChecks \/ (cu.name = Quality /\ a.do \notin {"freeze", "unfreeze"})
    BY <1>1, <2>2, <2>4, <2>5
  <2> HIDE DEF a, y, bk, fr, la, cu, bk2, fr2, la2
  <2>7. CallOk(y, cu, bk2, fr2, la2)
    BY <2>6, OtherOk
  <2> QED BY <2>7 DEF y, cu, bk2, fr2, la2
<1> QED BY <1>2, <1>3

LEMMA ThreadOk ==
  ASSUME MonitorInv, NEW t \in Threads, call[t].todo # <<>>
  PROVE  /\ system \in Systems /\ bank \in [Systems -> Banks] /\ call[t] \in Calls(system)
         /\ CallOk(system, call[t], bank, frozen[system], latch.locked)
         /\ Busy(t) /\ call[t].todo \in Seq(Accesses(system, Undone(system)))
         /\ Step(t) = call[t].todo[1] /\ Step(t) \in Accesses(system, Undone(system))
         /\ Tail(call[t].todo) \in Seq(Accesses(system, Undone(system)))
<1> DEFINE s == call[t].todo  S == Accesses(system, Undone(system))
<1>1. /\ system \in Systems /\ bank \in [Systems -> Banks]
      /\ CallOk(system, call[t], bank, frozen[system], latch.locked)
  BY DEF MonitorInv, ChipType, CallsOk
<1>2. call[t] \in Calls(system) /\ s \in Seq(S) /\ Busy(t)
  BY <1>1 DEF CallOk, Calls, Busy
<1>3. s[1] \in S /\ Head(s) = s[1] /\ Tail(s) \in Seq(S)
  <2> HIDE DEF S, s
  <2> QED BY <1>2, TailIs DEF s
<1> QED BY <1>1, <1>2, <1>3 DEF Step

\* An access that is done.
LEMMA Advances ==
  ASSUME AsTdpApi, MonitorInv, ChipType', system' = system,
         NEW t \in Threads, call[t].todo # <<>>, NEW c \in Calls(system), Becomes(t, c),
         c.name = call[t].name, c.todo = Tail(call[t].todo),
         bank' = IF Step(t).do = "bank" THEN [bank EXCEPT ![Step(t).slave] = Step(t).bank] ELSE bank,
         frozen' = IF Step(t).do = "freeze" THEN [frozen EXCEPT ![Step(t).slave] = TRUE]
                   ELSE IF Step(t).do = "unfreeze" THEN [frozen EXCEPT ![Step(t).slave] = FALSE]
                   ELSE frozen,
         Step(t).do # "unfreeze" /\ frozen[system] => latch' = latch,
         Step(t).do \notin {"freeze", "unfreeze"} => latch' = latch,
         Step(t).do = "lock" /\ frozen[system] => c.lock = latch.locked,
         Step(t).do # "lock" => c.lock = call[t].lock,
         Step(t).do = "test" => call[t].lock
  PROVE  MonitorInv'
<1> DEFINE s == call[t].todo  a == Step(t)
<1>1. /\ system \in Systems /\ bank \in [Systems -> Banks] /\ Busy(t)
      /\ CallOk(system, call[t], bank, frozen[system], latch.locked)
      /\ a = call[t].todo[1] /\ a \in Accesses(system, Undone(system))
      /\ call[t].todo \in Seq(Accesses(system, Undone(system)))
  BY ThreadOk
<1>2. a.do \in {"freeze", "unfreeze"} => a.slave = system
  BY <1>1 DEF Accesses
<1>3. frozen \in [Systems -> BOOLEAN]
  BY DEF MonitorInv, ChipType
<1>4. Effect(a, bank, bank', frozen[system], frozen'[system], latch.locked, latch'.locked)
  BY <1>1, <1>2, <1>3 DEF Effect
<1>5. CallOk(system, c, bank', frozen'[system], latch'.locked)
  <2> DEFINE y == system  bk == bank  fr == frozen[system]  la == latch.locked  ct == call[t]
             bk2 == bank'  fr2 == frozen'[system]  la2 == latch'.locked
  <2>1. /\ bk \in [Systems -> Banks] /\ CallOk(y, ct, bk, fr, la) /\ c \in Calls(y)
        /\ ct.todo # <<>> /\ c.name = ct.name /\ c.todo = Tail(ct.todo)
        /\ Effect(ct.todo[1], bk, bk2, fr, fr2, la, la2)
        /\ ct.todo[1].do = "lock" /\ fr => c.lock = la
        /\ ct.todo[1].do # "lock" => c.lock = ct.lock
        /\ ct.todo[1].do = "test" => ct.lock
    BY <1>1, <1>4
  <2> HIDE DEF y, bk, fr, la, ct, bk2, fr2, la2
  <2>2. CallOk(y, c, bk2, fr2, la2)
    BY <2>1, AdvanceOk
  <2> QED BY <2>2 DEF y, bk2, fr2, la2
<1>6. \A u \in Threads \ {t} : CallOk(system, call'[u], bank', frozen'[system], latch'.locked)
  BY <1>1, <1>4, OthersOk
<1>7. CallsOk'
  BY <1>5, <1>6 DEF CallsOk, Becomes
<1>8. OnlyBeside'
  BY <1>1, BesideStays
<1>9. FrozenByCalls'
  <2>0. /\ ThawsAll(s) /\ s[1].do = "freeze" => Thaws(Tail(s), 0)
        /\ Thaws(s, 0) /\ ~Releases(s[1]) => Thaws(Tail(s), 0)
    <3> DEFINE S == Accesses(system, Undone(system))
    <3>1. s \in Seq(S) /\ s # <<>>
      BY <1>1
    <3> HIDE DEF S, s
    <3> QED BY <3>1, NextThaws
  <2>1. FrozenByCalls /\ ThawsAll(s)
    BY <1>1 DEF MonitorInv, CallOk
  <2> SUFFICES ASSUME NEW z \in Systems, frozen'[z]
               PROVE  z = system /\ \E w \in Threads : Thaws(call'[w].todo, 0)
    BY DEF FrozenByCalls
  <2>2. CASE a.do = "freeze"
    <3>1. z = system
      BY <1>1, <1>2, <1>3, <2>1, <2>2 DEF FrozenByCalls
    <3>2. Thaws(call'[t].todo, 0)
      BY <1>1, <2>0, <2>1, <2>2 DEF Becomes
    <3> QED BY <3>1, <3>2
  <2>3. CASE a.do = "unfreeze"
    BY <1>1, <1>2, <1>3, <2>1, <2>3 DEF FrozenByCalls
  <2>4. CASE a.do \notin {"freeze", "unfreeze"}
    <3>1. frozen[z]
      BY <2>4
    <3>2. PICK w \in Threads : Thaws(call[w].todo, 0)
      BY <2>1, <3>1 DEF FrozenByCalls
    <3>3. ~Releases(s[1])
      BY <1>1, <2>4 DEF Releases
    <3>4. Thaws(call'[w].todo, 0)
      BY <2>0, <3>2, <3>3 DEF Becomes
    <3> QED BY <2>1, <3>1, <3>4 DEF FrozenByCalls
  <2> QED BY <2>2, <2>3, <2>4
<1> QED BY <1>7, <1>8, <1>9 DEF MonitorInv

\* An access that fails, or a test.
LEMMA Abandons ==
  ASSUME MonitorInv, UNCHANGED <<system, slaveVars>>,
         NEW t \in Threads, call[t].todo # <<>>, NEW c \in Calls(system), Becomes(t, c),
         c.name = call[t].name, c.todo = Step(t).undo, ~Releases(Step(t))
  PROVE  MonitorInv'
<1> DEFINE s == call[t].todo
<1>1. /\ system \in Systems /\ Busy(t)
      /\ CallOk(system, call[t], bank, frozen[system], latch.locked)
      /\ Step(t) = call[t].todo[1] /\ Step(t) \in Accesses(system, Undone(system))
      /\ call[t].todo \in Seq(Accesses(system, Undone(system)))
  BY ThreadOk
<1>2. ChipType'
  BY DEF slaveVars, MonitorInv, ChipType
<1>3. CallOk(system, c, bank, frozen[system], latch.locked)
  BY <1>1, AbandonOk
<1>4. \A u \in Threads \ {t} : CallOk(system, call'[u], bank, frozen[system], latch.locked)
  BY DEF Becomes, MonitorInv, CallsOk
<1>5. CallsOk'
  BY <1>3, <1>4 DEF CallsOk, Becomes, slaveVars
<1>6. OnlyBeside'
  BY <1>1, BesideStays
<1>7. FrozenByCalls'
  <2>0. Thaws(s, 0) /\ ~Releases(s[1]) => s[1].undo # <<>> /\ Releases(s[1].undo[1])
    <3> DEFINE S == Accesses(system, Undone(system))
    <3>1. s \in Seq(S) /\ s # <<>>
      BY <1>1
    <3> HIDE DEF S, s
    <3> QED BY <3>1, NextThaws
  <2>1. Step(t).undo \in Seq(Accesses(system, Simple(system)))
    BY <1>1 DEF Accesses, Undone, Sound
  <2>2. Thaws(s, 0) => Thaws(call'[t].todo, 0)
    BY <1>1, <2>0, <2>1, UndoThaws DEF Becomes
  <2> QED BY <2>2 DEF FrozenByCalls, MonitorInv, Becomes, slaveVars
<1> QED BY <1>2, <1>5, <1>6, <1>7 DEF MonitorInv

\* A turn of a loop, or a return.
LEMMA Remains ==
  ASSUME MonitorInv, UNCHANGED <<system, slaveVars>>,
         NEW t \in Threads, Busy(t), NEW c, Becomes(t, c),
         \/ c = NoCall /\ call[t].todo = <<>>
         \/ c \in Calls(system) /\ c.name = call[t].name /\ c.todo = call[t].todo /\ c.lock = call[t].lock
  PROVE  MonitorInv'
<1>1. ChipType'
  BY DEF slaveVars, MonitorInv, ChipType
<1>2. CallOk(system, call[t], bank, frozen[system], latch.locked)
  BY DEF MonitorInv, CallsOk
<1>3. CallOk(system, c, bank, frozen[system], latch.locked)
  BY <1>2, NoCallOk DEF CallOk
<1>4. \A u \in Threads \ {t} : CallOk(system, call'[u], bank, frozen[system], latch.locked)
  BY DEF Becomes, MonitorInv, CallsOk
<1>5. CallsOk'
  BY <1>3, <1>4 DEF CallsOk, Becomes, slaveVars
<1>6. c.todo = call[t].todo /\ c.name \in {"none", call[t].name}
  BY DEF NoCall
<1>7. OnlyBeside'
  BY <1>6, BesideStays
<1>8. FrozenByCalls'
  BY <1>6 DEF FrozenByCalls, MonitorInv, Becomes, slaveVars
<1> QED BY <1>1, <1>5, <1>7, <1>8 DEF MonitorInv

LEMMA AdvanceBecomes ==
  ASSUME MonitorInv, NEW t \in Threads, call[t].todo # <<>>, NEW c0 \in Calls(system),
         c0.todo = call[t].todo, Advance(t, c0)
  PROVE  \E c \in Calls(system) :
           Becomes(t, c) /\ c.name = c0.name /\ c.todo = Tail(call[t].todo) /\ c.lock = c0.lock
<1> DEFINE todos == Seq(Accesses(system, Undone(system)))
           names == {"none"} \cup DOMAIN Scripts[system]
           r == Tail(call[t].todo)
<1>1. r \in todos
  BY ThreadOk
<1>2. Calls(system) = [name : names, todo : todos, lock : BOOLEAN, flag : BOOLEAN, polls : 0..(PollMax - 1),
                       result : CallResults]
  BY DEF Calls
<1> DEFINE c == [c0 EXCEPT !.todo = Tail(@)]
<1>3. DOMAIN call = Threads /\ call' = [call EXCEPT ![t] = c]
  BY DEF MonitorInv, CallsOk, Advance
<1>4. c = [c0 EXCEPT !.todo = r]
  OBVIOUS
<1> HIDE DEF todos, names, r, c
<1>5. c \in Calls(system) /\ c.name = c0.name /\ c.todo = r /\ c.lock = c0.lock
  BY <1>1, <1>2, <1>4
<1>6. Becomes(t, c)
  BY <1>3 DEF Becomes
<1> QED BY <1>5, <1>6 DEF r

LEMMA AbandonBecomes ==
  ASSUME MonitorInv, NEW t \in Threads, call[t].todo # <<>>, NEW r \in CallResults,
         Abandon(t, r) \/ call' = [call EXCEPT ![t].todo = Step(t).undo]
  PROVE  \E c \in Calls(system) : Becomes(t, c) /\ c.name = call[t].name /\ c.todo = Step(t).undo
<1> DEFINE todos == Seq(Accesses(system, Undone(system)))
           names == {"none"} \cup DOMAIN Scripts[system]
           c0 == call[t]  u == Step(t).undo  q == Step(t).quiet
<1>1. c0 \in Calls(system) /\ u \in todos
  <2>1. call[t] \in Calls(system) /\ Step(t) \in Accesses(system, Undone(system))
    BY ThreadOk
  <2>2. u \in Seq(Accesses(system, Simple(system)))
    BY <2>1 DEF Accesses, Undone, Sound
  <2>3. Accesses(system, Simple(system)) \subseteq Accesses(system, Undone(system))
    BY Levels DEF Accesses
  <2> QED BY <2>1, <2>2, <2>3
<1>2. Calls(system) = [name : names, todo : todos, lock : BOOLEAN, flag : BOOLEAN, polls : 0..(PollMax - 1),
                       result : CallResults]
  BY DEF Calls
<1> DEFINE v == IF q THEN c0.result ELSE r
           c == [c0 EXCEPT !.todo = u, !.result = v]  d == [c0 EXCEPT !.todo = u]
<1>3. DOMAIN call = Threads
  BY DEF MonitorInv, CallsOk
<1>4. CASE Abandon(t, r)
  <2>1. call' = [call EXCEPT ![t] = c]
    BY <1>4 DEF Abandon
  <2> HIDE DEF todos, names, c0, u, q
  <2>2. v \in CallResults
    BY <1>1, <1>2
  <2> HIDE DEF v
  <2>5. d \in Calls(system) /\ d.name = c0.name /\ d.todo = u
    BY <1>1, <1>2
  <2>6. c = [d EXCEPT !.result = v]
    BY <1>1, <1>2
  <2> HIDE DEF d
  <2>7. [d EXCEPT !.result = v] \in Calls(system)
    BY <1>2, <2>2, <2>5
  <2>8. [d EXCEPT !.result = v].name = d.name /\ [d EXCEPT !.result = v].todo = d.todo
    BY <1>2, <2>5
  <2>3. c \in Calls(system) /\ c.name = c0.name /\ c.todo = u
    BY <2>5, <2>6, <2>7, <2>8
  <2> HIDE DEF c
  <2>4. Becomes(t, c)
    BY <1>3, <2>1 DEF Becomes
  <2> QED BY <2>3, <2>4 DEF c0, u
<1>5. CASE call' = [call EXCEPT ![t].todo = Step(t).undo]
  <2>1. call' = [call EXCEPT ![t] = d]
    BY <1>5
  <2> HIDE DEF todos, names, c0, u
  <2>3. d \in Calls(system) /\ d.name = c0.name /\ d.todo = u
    BY <1>1, <1>2
  <2> HIDE DEF d
  <2>4. Becomes(t, d)
    BY <1>3, <2>1 DEF Becomes
  <2> QED BY <2>3, <2>4 DEF c0, u
<1> QED BY <1>4, <1>5

LEMMA MonitorInvInit == ASSUME MonitorInit PROVE MonitorInv
<1>1. ChipType
  BY DEF MonitorInit, ChipType, Banks, NoLatch
<1>2. /\ DOMAIN call = Threads /\ \A t \in Threads : call[t] = NoCall
  BY DEF MonitorInit
<1>3. CallsOk
  BY <1>2, NoCallOk DEF CallsOk
<1>4. FrozenByCalls
  BY DEF FrozenByCalls, MonitorInit
<1>5. OnlyBeside
  BY <1>2 DEF OnlyBeside, Busy, NoCall
<1> QED BY <1>1, <1>3, <1>4, <1>5 DEF MonitorInv

\* One step per action.
LEMMA MonitorInvNext ==
  ASSUME ~VoidFails, ~ScanMode, AsTdpApi, MonitorInv, [MonitorNext]_monitorVars
  PROVE  MonitorInv'
<1>0. ChipType /\ CallsOk /\ FrozenByCalls /\ OnlyBeside /\ system \in Systems
  BY DEF MonitorInv, ChipType
<1>1. CASE UNCHANGED monitorVars
  BY <1>0, <1>1 DEF monitorVars, MonitorInv, ChipType, CallsOk, FrozenByCalls, OnlyBeside, Busy
<1>2. CASE Relocks \/ L1Changes
  <2>1. ChipType'
    BY <1>0, <1>2 DEF Relocks, L1Changes, ChipType
  <2> QED BY <1>0, <1>2, <2>1 DEF Relocks, L1Changes, MonitorInv, CallsOk, FrozenByCalls, OnlyBeside, Busy
<1>3. ASSUME NEW t \in Threads, Enter(t) PROVE MonitorInv'
  <2>1. PICK n \in DOMAIN Scripts[system] :
          /\ \A u \in Threads \ {t} : Busy(u) => n \in Beside[t] /\ call[u].name \in Beside[u]
          /\ call' = [call EXCEPT ![t] = [NoCall EXCEPT !.name = n, !.todo = Scripts[system][n]]]
    BY <1>3 DEF Enter
  <2> DEFINE c == [NoCall EXCEPT !.name = n, !.todo = Scripts[system][n]]
  <2>2. UNCHANGED <<system, slaveVars>> /\ ~Busy(t)
    BY <1>3 DEF Enter
  <2>3. CallOk(system, c, bank, frozen[system], latch.locked) /\ c.name = n
    BY <1>0, EnterOk DEF NoCall
  <2>4. Becomes(t, c)
    BY <1>0, <2>1 DEF Becomes, CallsOk
  <2> HIDE DEF c
  <2>5. \A u \in Threads \ {t} : CallOk(system, call'[u], bank, frozen[system], latch.locked)
    BY <1>0, <2>4 DEF Becomes, CallsOk
  <2>6. CallsOk'
    BY <2>2, <2>3, <2>4, <2>5 DEF CallsOk, Becomes, slaveVars
  <2>7. OnlyBeside'
    <3> SUFFICES ASSUME NEW u \in Threads, NEW w \in Threads, u # w, Busy(u)', Busy(w)'
                 PROVE  call'[u].name \in Beside[u]
      BY DEF OnlyBeside
    <3>1. \A x \in Threads \ {t} : call'[x] = call[x] /\ (Busy(x)' => Busy(x))
      BY <2>4 DEF Becomes, Busy
    <3>2. call'[t].name = n
      BY <2>3, <2>4 DEF Becomes
    <3>3. CASE u = t
      BY <2>1, <3>1, <3>2, <3>3
    <3>4. CASE w = t
      BY <2>1, <3>1, <3>4
    <3>5. CASE u # t /\ w # t
      BY <1>0, <3>1, <3>5 DEF OnlyBeside
    <3> QED BY <3>3, <3>4, <3>5
  <2>8. FrozenByCalls'
    <3>1. ASSUME NEW w \in Threads, Thaws(call[w].todo, 0) PROVE w # t
      <4> SUFFICES ASSUME w = t PROVE FALSE
        OBVIOUS
      <4>1. call[t].todo = <<>>
        BY <1>0, <2>2 DEF CallsOk, CallOk, Busy
      <4>2. Thaws(<<>>, 0)
        BY <3>1, <4>1
      <4> QED BY <4>2 DEF Thaws
    <3> QED BY <1>0, <2>2, <2>4, <3>1 DEF FrozenByCalls, Becomes, slaveVars
  <2>9. ChipType'
    BY <1>0, <2>2 DEF ChipType, slaveVars
  <2> QED BY <2>6, <2>7, <2>8, <2>9 DEF MonitorInv
<1>4. ASSUME NEW t \in Threads, Works(t) PROVE MonitorInv'
  <2> DEFINE a == Step(t)
  <2>1. CASE Return(t)
    <3>1. Busy(t) /\ call[t].todo = <<>> /\ call' = [call EXCEPT ![t] = NoCall] /\ UNCHANGED <<system, slaveVars>>
      BY <2>1 DEF Return
    <3> DEFINE c == NoCall
    <3> HIDE DEF c
    <3>2. Becomes(t, c)
      BY <1>0, <3>1 DEF Becomes, CallsOk, c
    <3> QED BY <3>1, <3>2, Remains DEF c
  <2>2. CASE call[t].todo # <<>>
    <3>0. /\ system \in Systems /\ bank \in [Systems -> Banks] /\ call[t] \in Calls(system)
          /\ Busy(t) /\ a \in Accesses(system, Undone(system))
      BY <2>2, ThreadOk
    <3>1. a.slave \in Systems /\ a.bank \in Banks /\ a.do \in Steps
      BY <3>0 DEF Accesses
    <3>00. frozen \in [Systems -> BOOLEAN] /\ latch \in [locked : BOOLEAN, changed : BOOLEAN]
           /\ Shown \in [locked : BOOLEAN, changed : BOOLEAN] /\ (frozen[system] => Shown = latch)
      BY <1>0 DEF ChipType, Shown
    \* Nothing but the call changes.
    <3>2. ASSUME NEW c0 \in Calls(system), c0.name = call[t].name, c0.todo = call[t].todo,
                 Advance(t, c0), UNCHANGED <<system, slaveVars>>,
                 a.do \notin {"bank", "freeze", "unfreeze"},
                 a.do = "lock" /\ frozen[system] => c0.lock = latch.locked,
                 a.do # "lock" => c0.lock = call[t].lock,
                 a.do = "test" => call[t].lock
          PROVE  MonitorInv'
      <4>1. PICK c \in Calls(system) :
              Becomes(t, c) /\ c.name = c0.name /\ c.todo = Tail(call[t].todo) /\ c.lock = c0.lock
        BY <2>2, <3>2, AdvanceBecomes
      <4>2. ChipType'
        BY <1>0, <3>2 DEF ChipType, slaveVars
      <4>3. UNCHANGED <<system, bank, frozen, latch>>
        BY <3>2 DEF slaveVars
      <4> QED BY <2>2, <3>2, <4>1, <4>2, <4>3, Advances
    \* The chip changes.
    <3>3. ASSUME Proceed(t), system' = system, ChipType', a.do \notin {"lock", "test"},
                 bank' = IF a.do = "bank" THEN [bank EXCEPT ![a.slave] = a.bank] ELSE bank,
                 frozen' = IF a.do = "freeze" THEN [frozen EXCEPT ![a.slave] = TRUE]
                           ELSE IF a.do = "unfreeze" THEN [frozen EXCEPT ![a.slave] = FALSE]
                           ELSE frozen,
                 a.do # "unfreeze" /\ frozen[system] => latch' = latch,
                 a.do \notin {"freeze", "unfreeze"} => latch' = latch
          PROVE  MonitorInv'
      <4>1. PICK c \in Calls(system) :
              Becomes(t, c) /\ c.name = call[t].name /\ c.todo = Tail(call[t].todo) /\ c.lock = call[t].lock
        BY <2>2, <3>0, <3>3, AdvanceBecomes DEF Proceed
      <4> QED BY <2>2, <3>3, <4>1, Advances
    <3>4. ASSUME NEW r \in CallResults, UNCHANGED <<system, slaveVars>>, ~Releases(a),
                 Abandon(t, r) \/ call' = [call EXCEPT ![t].todo = Step(t).undo]
          PROVE  MonitorInv'
      <4>1. PICK c \in Calls(system) : Becomes(t, c) /\ c.name = call[t].name /\ c.todo = Step(t).undo
        BY <2>2, <3>4, AbandonBecomes
      <4> QED BY <2>2, <3>4, <4>1, Abandons
    <3>5. "OK" \in CallResults /\ "I2C" \in CallResults /\ "HW_STATE" \in CallResults
      BY DEF CallResults
    <3>6. ASSUME UNCHANGED <<system, slaveVars>>, Proceed(t),
                 a.do \notin {"bank", "freeze", "unfreeze", "lock"}, a.do = "test" => call[t].lock
          PROVE  MonitorInv'
      BY <3>0, <3>2, <3>6 DEF Proceed
    <3>7. CASE SetsBank(t)
      <4>1. /\ a.do = "bank" /\ Proceed(t) /\ bank' = [bank EXCEPT ![a.slave] = a.bank]
            /\ UNCHANGED <<system, frozen, locked, changed, latch, oneMer>>
        BY <3>7 DEF SetsBank, AtStep
      <4>2. ChipType'
        BY <1>0, <3>1, <4>1 DEF ChipType
      <4> QED BY <3>3, <4>1, <4>2
    <3>8. CASE Freezes(t)
      <4>1. /\ a.do = "freeze" /\ Proceed(t) /\ frozen' = [frozen EXCEPT ![a.slave] = TRUE]
            /\ latch' = IF a.slave = system THEN Shown ELSE latch
            /\ UNCHANGED <<system, bank, locked, changed, oneMer>>
        BY <3>8 DEF Freezes, AtStep
      <4>2. ChipType' /\ (frozen[system] => latch' = latch)
        BY <1>0, <3>1, <3>00, <4>1 DEF ChipType
      <4> QED BY <3>3, <4>1, <4>2
    <3>9. CASE Unfreezes(t)
      <4>1. /\ a.do = "unfreeze" /\ Proceed(t) /\ frozen' = [frozen EXCEPT ![a.slave] = FALSE]
            /\ latch' = IF a.slave = system THEN NoLatch ELSE latch
            /\ UNCHANGED <<system, bank, locked, changed, oneMer>>
        BY <3>9 DEF Unfreezes, AtStep
      <4>2. ChipType'
        BY <1>0, <3>1, <3>00, <4>1 DEF ChipType, NoLatch
      <4> QED BY <3>3, <4>1, <4>2
    <3>10. CASE ReadsLock(t)
      <4> DEFINE x == Shown.locked  c0 == [call[t] EXCEPT !.lock = x]
      <4>1. a.do = "lock" /\ Advance(t, c0) /\ UNCHANGED <<system, slaveVars>>
        BY <3>10 DEF ReadsLock, AtStep
      <4>2. x \in BOOLEAN /\ (frozen[system] => x = latch.locked)
        BY <3>00
      <4> HIDE DEF x
      <4>3. /\ c0 \in Calls(system) /\ c0.name = call[t].name /\ c0.todo = call[t].todo /\ c0.lock = x
        BY <3>0, <4>2 DEF Calls
      <4> HIDE DEF c0
      <4> QED BY <3>2, <4>1, <4>2, <4>3
    <3>11. CASE Tests(t)
      <4>1. a.do = "test" /\ UNCHANGED <<system, slaveVars>>
            /\ IF call[t].lock THEN Proceed(t) ELSE Abandon(t, "HW_STATE")
        BY <3>11 DEF Tests, AtStep
      <4>2. CASE call[t].lock
        BY <3>6, <4>1, <4>2
      <4>3. CASE ~call[t].lock
        BY <3>4, <3>5, <4>1, <4>3 DEF Releases
      <4> QED BY <4>2, <4>3
    <3>12. CASE Checks(t)
      <4>1. a.do = "check" /\ UNCHANGED <<system, slaveVars>>
            /\ (Proceed(t) \/ Abandon(t, "HW_STATE"))
        BY <3>12 DEF Checks, AtStep
      <4> QED BY <3>4, <3>5, <3>6, <4>1 DEF Releases
    <3>13. CASE Skips(t)
      <4>1. a.do = "skip" /\ UNCHANGED <<system, slaveVars>>
            /\ (Proceed(t) \/ call' = [call EXCEPT ![t].todo = Step(t).undo])
        BY <3>13 DEF Skips, AtStep
      <4> QED BY <3>4, <3>5, <3>6, <4>1 DEF Releases
    <3>14. CASE ReadsOrWrites(t)
      <4>1. a.do \in {"read", "value", "write"} /\ UNCHANGED <<system, slaveVars>> /\ Proceed(t)
        BY <3>14 DEF ReadsOrWrites, AtStep
      <4> QED BY <3>6, <4>1
    <3>15. CASE Polls(t)
      <4>1. a.do = "poll" /\ UNCHANGED <<system, slaveVars>>
            /\ (Advance(t, [call[t] EXCEPT !.polls = 0]) \/ PollLater(t))
        BY <3>15 DEF Polls, AtStep
      <4>2. CASE Advance(t, [call[t] EXCEPT !.polls = 0])
        <5> DEFINE c0 == [call[t] EXCEPT !.polls = 0]
        <5>1. 0 \in 0..(PollMax - 1)
          BY MonitorAssumption
        <5>2. /\ c0 \in Calls(system) /\ c0.name = call[t].name /\ c0.todo = call[t].todo
              /\ c0.lock = call[t].lock
          BY <3>0, <5>1 DEF Calls
        <5>3. Advance(t, c0)
          BY <4>2
        <5> HIDE DEF c0
        <5> QED BY <3>2, <4>1, <5>2, <5>3
      <4>3. CASE PollLater(t)
        <5> DEFINE n == call[t].polls + 1  c == [call[t] EXCEPT !.polls = n]
        <5>1. IF n < PollMax THEN call' = [call EXCEPT ![t].polls = n] ELSE Abandon(t, "HW_STATE")
          BY <4>3 DEF PollLater
        <5>2. CASE n < PollMax
          <6>1. call[t].polls \in 0..(PollMax - 1)
            BY <3>0 DEF Calls
          <6>2. n \in 0..(PollMax - 1)
            BY <5>2, <6>1, MonitorAssumption
          <6>3. call' = [call EXCEPT ![t] = c]
            BY <5>1, <5>2
          <6> HIDE DEF n
          <6>4. c \in Calls(system) /\ c.name = call[t].name /\ c.todo = call[t].todo /\ c.lock = call[t].lock
            BY <3>0, <6>2 DEF Calls
          <6> HIDE DEF c
          <6>5. Becomes(t, c)
            BY <1>0, <6>3 DEF Becomes, CallsOk
          <6> QED BY <3>0, <4>1, <6>4, <6>5, Remains
        <5>3. CASE ~(n < PollMax)
          BY <3>4, <3>5, <4>1, <5>1, <5>3 DEF Releases
        <5> QED BY <5>2, <5>3
      <4> QED BY <4>1, <4>2, <4>3
    <3>16. CASE ReadsFlag(t)
      <4> DEFINE x == Shown.changed  c0 == [call[t] EXCEPT !.flag = x]
      <4>1. a.do = "flag" /\ Advance(t, c0) /\ UNCHANGED <<system, slaveVars>>
        BY <3>16 DEF ReadsFlag, AtStep
      <4>2. x \in BOOLEAN
        BY <3>00
      <4> HIDE DEF x
      <4>3. /\ c0 \in Calls(system) /\ c0.name = call[t].name /\ c0.todo = call[t].todo
            /\ c0.lock = call[t].lock
        BY <3>0, <4>2 DEF Calls
      <4> HIDE DEF c0
      <4> QED BY <3>2, <4>1, <4>3
    <3>17. CASE ClearsFlag(t)
      <4>1. /\ a.do = "clear" /\ Proceed(t) /\ changed' = IF call[t].flag THEN FALSE ELSE changed
            /\ UNCHANGED <<system, bank, frozen, locked, latch, oneMer>>
        BY <3>17 DEF ClearsFlag, AtStep
      <4>2. ChipType'
        BY <1>0, <4>1 DEF ChipType
      <4> QED BY <3>3, <4>1, <4>2
    <3>18. CASE SetsMer(t)
      <4>1. /\ a.do \in {"one mer", "default mer"} /\ oneMer' \in BOOLEAN /\ Proceed(t)
            /\ UNCHANGED <<system, bank, frozen, locked, changed, latch>>
        BY <3>18 DEF SetsMer, AtStep
      <4>2. ChipType'
        BY <1>0, <4>1 DEF ChipType
      <4> QED BY <3>3, <4>1, <4>2
    <3>19. CASE Fails(t)
      <4>1. ~a.void /\ Abandon(t, "I2C") /\ UNCHANGED <<system, slaveVars>>
        BY <3>19 DEF Fails
      <4> QED BY <3>4, <3>5, <4>1 DEF Releases
    <3> QED BY <1>4, <2>2, <3>7, <3>8, <3>9, <3>10, <3>11, <3>12, <3>13, <3>14, <3>15, <3>16, <3>17,
               <3>18, <3>19 DEF Works, Return
  <2>3. Return(t) \/ call[t].todo # <<>>
    BY <1>4 DEF Works, SetsBank, Freezes, Unfreezes, ReadsLock, Tests, Checks, Skips, ReadsOrWrites,
                Polls, ReadsFlag, ClearsFlag, SetsMer, Fails, AtStep
  <2> QED BY <2>1, <2>2, <2>3
<1> QED BY <1>1, <1>2, <1>3, <1>4 DEF MonitorNext

LEMMA MonitorInvAlways ==
  ASSUME ~VoidFails, ~ScanMode, AsTdpApi PROVE MonitorSpec => []MonitorInv
<1>1. MonitorInit => MonitorInv
  BY MonitorInvInit
<1>2. MonitorInv /\ [MonitorNext]_monitorVars => MonitorInv'
  BY MonitorInvNext
<1> QED BY <1>1, <1>2, PTL DEF MonitorSpec

LEMMA InvMeansType == ASSUME MonitorInv PROVE MonitorTypeOK
<1>1. ChipType /\ CallsOk
  BY DEF MonitorInv
<1>2. ASSUME NEW t \in Threads
      PROVE  /\ call[t].name \in {"none"} \cup DOMAIN Scripts[system]
             /\ {call[t].lock, call[t].flag} \subseteq BOOLEAN
             /\ call[t].polls \in 0..(PollMax - 1) /\ call[t].result \in CallResults
             /\ \A i \in DOMAIN call[t].todo :
                  LET step == call[t].todo[i] IN
                  step.do \in Steps /\ step.slave \in Systems /\ step.bank \in Banks
  <2>1. call[t] \in Calls(system)
    BY <1>1 DEF CallsOk, CallOk
  <2>2. /\ call[t].name \in {"none"} \cup DOMAIN Scripts[system]
        /\ call[t].lock \in BOOLEAN /\ call[t].flag \in BOOLEAN
        /\ call[t].polls \in 0..(PollMax - 1) /\ call[t].result \in CallResults
        /\ call[t].todo \in Seq(Accesses(system, Undone(system)))
    BY <2>1 DEF Calls
  <2>3. \A i \in DOMAIN call[t].todo : call[t].todo[i] \in Accesses(system, Undone(system))
    BY <2>2
  <2>4. \A i \in DOMAIN call[t].todo :
          call[t].todo[i].do \in Steps /\ call[t].todo[i].slave \in Systems /\ call[t].todo[i].bank \in Banks
    BY <2>3 DEF Accesses
  <2> QED BY <2>2, <2>4
<1> QED BY <1>1, <1>2 DEF ChipType, CallsOk, MonitorTypeOK

LEMMA InvMeansRightBank == ASSUME MonitorInv PROVE RightBank
<1> SUFFICES ASSUME NEW t \in Threads, Busy(t), call[t].todo # <<>>, Step(t).do # "bank",
                    Step(t).bank # "any"
             PROVE  bank[Step(t).slave] = Step(t).bank
  BY DEF RightBank
<1> DEFINE s == call[t].todo  S == Accesses(system, Undone(system))
<1>1. s \in Seq(S) /\ Step(t) = s[1] /\ InBanks(s, bank)
  BY ThreadOk DEF CallOk
<1>2. 1 \in DOMAIN s /\ s # <<>>
  BY <1>1
<1>3. Needs(s, 1)
  BY <1>1 DEF Needs
<1>4. ~Selected(s, 1)
  BY DEF Selected
<1> QED BY <1>1, <1>2, <1>3, <1>4 DEF InBanks

LEMMA InvMeansLock == ASSUME MonitorInv PROVE ValuesOfTheLock
<1> SUFFICES ASSUME NEW t \in Threads, AtStep(t, "value")
             PROVE  call[t].lock /\ frozen[system] /\ latch.locked
  BY DEF ValuesOfTheLock
<1> DEFINE s == call[t].todo  S == Accesses(system, Undone(system))
<1>1. s \in Seq(S) /\ s # <<>> /\ s[1].do = "value"
      /\ OfLock(s, call[t].lock, frozen[system], latch.locked)
  BY ThreadOk DEF CallOk, AtStep
<1>2. 1 \in DOMAIN s
  BY <1>1
<1>3. ~Vouched(s, 1) /\ ~Tested(s, 0, 1) /\ ~TestLeft(s, 1)
  BY DEF Vouched, Tested, TestLeft
<1> QED BY <1>1, <1>2, <1>3 DEF OfLock, UnderLock

LEMMA InvMeansThawed == ASSUME MonitorInv PROVE NothingStaysFrozen
<1> SUFFICES ASSUME \A t \in Threads : ~Busy(t), NEW z \in Systems, frozen[z] PROVE FALSE
  BY DEF NothingStaysFrozen
<1>1. PICK t \in Threads : Thaws(call[t].todo, 0)
  BY DEF MonitorInv, FrozenByCalls
<1>2. call[t].todo = <<>>
  BY DEF MonitorInv, CallsOk, CallOk, Busy
<1> QED BY <1>1, <1>2 DEF Thaws

\* The chip's state and the calls stay well formed.
THEOREM MonitorTypeAlways ==
  ASSUME ~VoidFails, ~ScanMode, AsTdpApi PROVE MonitorSpec => []MonitorTypeOK
<1>1. MonitorInv => MonitorTypeOK
  BY InvMeansType
<1> QED BY <1>1, MonitorInvAlways, PTL

\* Every register is read and written in the bank it is in: on every way through every
\* monitor function, lock check and helper, whatever access fails, and although the bank
\* is set by hand, functions call functions that leave another one, and the lock checks
\* of the status thread run beside the application's quality call.
THEOREM AlwaysRightBank ==
  ASSUME ~VoidFails, ~ScanMode, AsTdpApi PROVE MonitorSpec => []RightBank
<1>1. MonitorInv => RightBank
  BY InvMeansRightBank
<1> QED BY <1>1, MonitorInvAlways, PTL

\* No way out of a call leaves the registers frozen, if the write that unfreezes them
\* works: what every later call reads would be the past.
THEOREM NothingEverStaysFrozen ==
  ASSUME ~VoidFails, ~ScanMode, AsTdpApi PROVE MonitorSpec => []NothingStaysFrozen
<1>1. MonitorInv => NothingStaysFrozen
  BY InvMeansThawed
<1> QED BY <1>1, MonitorInvAlways, PTL

\* A value that means something only with a lock was latched together with the lock
\* that the call tested.
THEOREM ValuesAlwaysOfTheLock ==
  ASSUME ~VoidFails, ~ScanMode, AsTdpApi PROVE MonitorSpec => []ValuesOfTheLock
<1>1. MonitorInv => ValuesOfTheLock
  BY InvMeansLock
<1> QED BY <1>1, MonitorInvAlways, PTL
=============================================================================
