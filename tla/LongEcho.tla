------------------------------ MODULE LongEcho ------------------------------
(***************************************************************************)
(* The acquisition sequence for DVB-T2 with long echoes                    *)
(* (src/tdp_api/Sony_Demod/SRC/sony_dvb_demod.c, dvb_demod_le_Seq...), as  *)
(* the loops of sony_dvb_cxd2820.c turn it: one step is one turn of the    *)
(* crank.  One thread acquires; another waits for the transport stream     *)
(* with the sequence of its own.  What the chip finds is a free choice at  *)
(* every turn; any bus access may fail, which ends the sequence with what  *)
(* it has written so far.                                                  *)
(***************************************************************************)
EXTENDS Naturals, Sequences

CONSTANTS
  PollInterval,  \* ms a turn sleeps: 10 in the code
  Quick,         \* the chip may lock, or give up three times, before P1Wait
  Overlap        \* the wait for one lock's stream runs on while the next acquires

\* The sequences look for exact multiples of the interval.
ASSUME PollAssumption ==
  /\ PollInterval \in 1..300
  /\ \A ms \in {300, 600, 3000} : ms % PollInterval = 0
ASSUME ChoicesAssumption == Quick \in BOOLEAN /\ Overlap \in BOOLEAN

VARIABLES
  reg,       \* chip: OREG_CRL_OPEN, GTHETA_OFST, SYR_ACTMODE and FCS_ALPHA_U
  sense,     \* chip: the expected spectrum sense
  longEcho,  \* pDemod->t2LongEchoPP2
  seq,       \* the sony_dvb_le_seq_t of the acquisition
  ts,        \* the sony_dvb_le_seq_ts_lock_t
  ended      \* how the sequence that ended last has ended

vars == <<reg, sense, longEcho, seq, ts, ended>>
chipVars == <<reg, sense, longEcho>>

\* DVB_DEMOD_DVBT2_P1_WAIT and its like; the sanity checks of the loops.
P1Wait == 300
T2P1Wait == 600
WaitLock == 5000
NoOfstWait == 3500
WaitSyr == 3000
WaitTsLock == 5000
Sanity == 30 * 1000
TsSanity == 20 * 1000

Flipped(s) == IF s = "NORMAL" THEN "INV" ELSE "NORMAL"

\* The offsets are 0, 1 and 2 for none, +250us and -250us.
Defaults == [crl |-> 0, ofst |-> 0, syr |-> 7, alpha |-> 3]
SetDefaults == <<"crl", "ofst", "syr", "alpha">>
SetTrial == <<"ofst", "syr", "alpha">>

\* The registers after the first k writes of a script that makes them new.
AfterWrites(order, new, k) ==
  [r \in DOMAIN reg |-> IF \E i \in 1..k : order[i] = r THEN new[r] ELSE reg[r]]

\* first is the sense the acquisition was started with.
Idle ==
  [state |-> "idle", waitTime |-> 0, total |-> 0, auto |-> FALSE, crlOpenTrial |-> FALSE,
   pOfst |-> FALSE, mOfst |-> FALSE, noOfst |-> FALSE, spectTrial |-> FALSE,
   unlockDetDone |-> FALSE, first |-> "NORMAL"]
NoWait == [on |-> FALSE, waitTime |-> 0]

Init ==
  /\ reg = Defaults /\ sense = "NORMAL" /\ longEcho = FALSE
  /\ seq = Idle /\ ts = NoWait /\ ended = "none"

-----------------------------------------------------------------------------
(* The loop around the turns: an error, a completion, too much time in all *)
(* or a cancellation ends it.                                              *)

Running == seq.state # "idle"
InState(s) == seq.state = s

End(r) == seq' = Idle /\ ended' \in {r, "CANCEL"}

Continue(s) ==
  \/ s.total <= Sanity /\ seq' = s /\ UNCHANGED ended
  \/ s.total > Sanity /\ End("TIMEOUT")
  \/ End("CANCEL")

\* An access failed: of the writes the first k were done.
FailsIn(order, new) ==
  \E k \in 0..Len(order) :
    k < Len(order) /\ reg' = AfterWrites(order, new, k) /\ End("I2C")

FailsReading == reg' = reg /\ End("I2C")
SetCrlOpen(v) == reg' = [reg EXCEPT !.crl = v]

-----------------------------------------------------------------------------
(* Outside the sequences.                                                  *)

Unused == ~Running /\ (Overlap \/ ~ts.on)

Start ==
  /\ Unused /\ longEcho
  /\ \E auto \in BOOLEAN :
       seq' = [Idle EXCEPT !.state = "INIT", !.auto = auto, !.first = sense]
  /\ ended' = "none" /\ UNCHANGED <<chipVars, ts>>

\* DEMOD_CONFIG_DVBT2_PP2_LONG_ECHO: leaving it resets its registers.
Leave ==
  /\ Unused /\ longEcho
  /\ \E k \in 0..Len(SetDefaults) :
       /\ reg' = AfterWrites(SetDefaults, Defaults, k)
       /\ longEcho' = (k < Len(SetDefaults))
  /\ UNCHANGED <<sense, seq, ended, ts>>

SetLongEcho ==
  \/ Leave
  \/ Unused /\ longEcho' = TRUE /\ UNCHANGED <<reg, sense, seq, ended, ts>>

-----------------------------------------------------------------------------
(* The states of the acquisition.                                          *)

\* Mutant of t2_le_SeqInit: a setting of the last trial is kept.
t2_le_SeqInitKeepsSyr ==
  /\ InState("INIT")
  /\ reg' = [Defaults EXCEPT !.syr = reg.syr] /\ Continue([seq EXCEPT !.state = "START"])
  /\ UNCHANGED <<sense, longEcho, ts>>

\* le_seq_Init.
t2_le_SeqInit ==
  /\ InState("INIT")
  /\ \/ reg' = Defaults /\ Continue([seq EXCEPT !.state = "START"])
     \/ FailsIn(SetDefaults, Defaults)
  /\ UNCHANGED <<sense, longEcho, ts>>

t2_le_SeqStart ==
  /\ InState("START")
  /\ UNCHANGED reg
  /\ \/ Continue([seq EXCEPT !.state = "WAIT_P1", !.waitTime = 0])
     \/ End("I2C") \/ End("SW_STATE")
  /\ UNCHANGED <<sense, longEcho, ts>>

\* A turn that sleeps.
Slept == [seq EXCEPT !.waitTime = @ + PollInterval, !.total = @ + PollInterval]

\* Looking for any P1, 300 ms after the start.
FirstP1 ==
  \/ /\ seq.crlOpenTrial /\ SetCrlOpen(0)
     /\ Continue([Slept EXCEPT !.state = "START", !.unlockDetDone = TRUE])
  \/ ~seq.crlOpenTrial /\ UNCHANGED reg /\ Continue([Slept EXCEPT !.state = "WAIT_LOCK"])
  \/ UNCHANGED reg /\ Continue([Slept EXCEPT !.state = "CRL_OPEN_TRIAL"])
  \/ FailsReading

\* Looking for a P1 of T2, 600 ms after the start.
T2P1 ==
  /\ UNCHANGED reg
  /\ End("UNLOCK") \/ End("I2C") \/ Continue([Slept EXCEPT !.state = "WAIT_LOCK"])

t2_le_SeqWaitP1 ==
  /\ InState("WAIT_P1")
  /\ \/ ~seq.unlockDetDone /\ Slept.waitTime = P1Wait /\ FirstP1
     \/ ~seq.unlockDetDone /\ Slept.waitTime = T2P1Wait /\ T2P1
     \/ /\ seq.unlockDetDone \/ Slept.waitTime \notin {P1Wait, T2P1Wait}
        /\ UNCHANGED reg /\ Continue([Slept EXCEPT !.state = "WAIT_LOCK"])
     \/ UNCHANGED reg /\ End("SW_STATE")
  /\ UNCHANGED <<sense, longEcho, ts>>

Ripe == Quick \/ seq.unlockDetDone \/ seq.waitTime >= P1Wait

\* Locked: the FCS is given its default back.
Locked ==
  /\ Ripe
  /\ \/ /\ reg' = IF reg.alpha = 0 THEN [reg EXCEPT !.alpha = 3] ELSE reg
        /\ End("OK")
     \/ FailsReading

TimedOut == seq.waitTime > (IF seq.noOfst THEN NoOfstWait ELSE WaitLock)

t2_le_SeqWaitDmdLock ==
  /\ InState("WAIT_LOCK")
  /\ \/ Locked
     \/ FailsReading
     \/ TimedOut /\ UNCHANGED reg /\ End("TIMEOUT")
     \/ /\ ~TimedOut /\ UNCHANGED reg
        /\ \/ Ripe /\ Continue([seq EXCEPT !.state = "TIMING_TRIAL"])
           \/ Continue([seq EXCEPT !.state = "WAIT_P1"])
     \/ UNCHANGED reg /\ End("SW_STATE")
  /\ UNCHANGED <<sense, longEcho, ts>>

\* The offsets +250us, -250us and none are tried in that order.
Trial(new, s) ==
  \/ /\ reg' = [new EXCEPT !.crl = reg.crl]
     /\ Continue([s EXCEPT !.state = "START", !.unlockDetDone = TRUE])
  \/ FailsIn(SetTrial, new)

AfterTrial(ofst) == [crl |-> 0, ofst |-> ofst, syr |-> 3, alpha |-> 0]

\* Mutant of t2_le_SeqTimingTrial: the trials of a timing are not counted.
t2_le_SeqTimingTrialAgain ==
  /\ InState("TIMING_TRIAL")
  /\ IF ~seq.pOfst THEN Trial(AfterTrial(1), [seq EXCEPT !.pOfst = TRUE])
     ELSE Trial(AfterTrial(2), seq)
  /\ UNCHANGED <<sense, longEcho, ts>>

t2_le_SeqTimingTrial ==
  /\ InState("TIMING_TRIAL")
  /\ \/ ~seq.pOfst /\ Trial(AfterTrial(1), [seq EXCEPT !.pOfst = TRUE])
     \/ seq.pOfst /\ ~seq.mOfst /\ Trial(AfterTrial(2), [seq EXCEPT !.mOfst = TRUE])
     \/ /\ seq.pOfst /\ seq.mOfst /\ ~seq.noOfst
        /\ Trial(Defaults, [seq EXCEPT !.noOfst = TRUE])
     \/ /\ seq.pOfst /\ seq.mOfst /\ seq.noOfst
        /\ UNCHANGED reg /\ Continue([seq EXCEPT !.state = "WAIT_P1"])
     \/ UNCHANGED reg /\ End("SW_STATE")
  /\ UNCHANGED <<sense, longEcho, ts>>

t2_le_SeqCrlOpenTrial ==
  /\ InState("CRL_OPEN_TRIAL")
  /\ \/ /\ seq.crlOpenTrial /\ SetCrlOpen(0)
        /\ Continue([seq EXCEPT !.crlOpenTrial = FALSE, !.state = "SPECTRUM_TRIAL"])
     \/ /\ ~seq.crlOpenTrial /\ UNCHANGED reg
        /\ Continue([seq EXCEPT !.state = "SPECTRUM_TRIAL"])
     \/ /\ ~seq.crlOpenTrial /\ SetCrlOpen(1)
        /\ Continue([seq EXCEPT !.crlOpenTrial = TRUE, !.state = "START"])
     \/ FailsReading
     \/ UNCHANGED reg /\ End("SW_STATE")
  /\ UNCHANGED <<sense, longEcho, ts>>

\* The second flip restores the sense.
GiveUp == seq.auto /\ seq.spectTrial /\ sense' = Flipped(sense) /\ End("UNLOCK")

t2_le_SeqSpectrumTrial ==
  /\ InState("SPECTRUM_TRIAL")
  /\ \/ ~seq.auto /\ UNCHANGED sense /\ End("UNLOCK")
     \/ GiveUp
     \/ /\ seq.auto /\ ~seq.spectTrial /\ sense' = Flipped(sense)
        /\ Continue([seq EXCEPT !.spectTrial = TRUE, !.state = "START"])
     \/ UNCHANGED sense /\ (End("I2C") \/ End("SW_STATE"))
  /\ UNCHANGED <<reg, longEcho, ts>>

Turn ==
  \/ t2_le_SeqInit \/ t2_le_SeqStart \/ t2_le_SeqWaitP1 \/ t2_le_SeqWaitDmdLock
  \/ t2_le_SeqTimingTrial \/ t2_le_SeqCrlOpenTrial \/ t2_le_SeqSpectrumTrial

-----------------------------------------------------------------------------
(* dvb_demod_le_SeqWaitTsLock.                                             *)

StartTs ==
  /\ ~ts.on /\ longEcho /\ (Overlap \/ ~Running)
  /\ ts' = [on |-> TRUE, waitTime |-> 0] /\ ended' = "none"
  /\ UNCHANGED <<chipVars, seq>>

EndTs(r) == ts' = NoWait /\ ended' \in {r, "CANCEL"}

ContinueTs ==
  LET waited == ts.waitTime + PollInterval IN
  \/ waited <= TsSanity /\ ts' = [ts EXCEPT !.waitTime = waited] /\ UNCHANGED ended
  \/ waited > TsSanity /\ EndTs("TIMEOUT")
  \/ EndTs("CANCEL")

\* Locked: SYR_ACTMODE 3 becomes 7.
TsLocked ==
  \/ reg' = (IF reg.syr = 3 THEN [reg EXCEPT !.syr = 7] ELSE reg) /\ EndTs("OK")
  \/ UNCHANGED reg /\ EndTs("I2C")

\* Not locked: SYR_ACTMODE is 3 from 3 s on.
TsWaits ==
  /\ reg' = IF ts.waitTime = WaitSyr THEN [reg EXCEPT !.syr = 3] ELSE reg
  /\ IF ts.waitTime > WaitTsLock THEN EndTs("TIMEOUT") ELSE ContinueTs

dvb_demod_le_SeqWaitTsLock ==
  /\ ts.on
  /\ \/ TsLocked
     \/ TsWaits
     \/ UNCHANGED reg /\ (EndTs("I2C") \/ EndTs("SW_STATE"))
  /\ UNCHANGED <<sense, longEcho, seq>>

-----------------------------------------------------------------------------
Next == Start \/ SetLongEcho \/ Turn \/ StartTs \/ dvb_demod_le_SeqWaitTsLock

Spec == Init /\ [][Next]_vars

\* The threads that turn the cranks are scheduled.
FairSpec == Spec /\ WF_vars(Turn) /\ WF_vars(dvb_demod_le_SeqWaitTsLock)

-----------------------------------------------------------------------------
Results == {"none", "OK", "UNLOCK", "TIMEOUT", "I2C", "SW_STATE", "CANCEL"}
SeqStates ==
  {"idle", "INIT", "START", "WAIT_P1", "WAIT_LOCK", "CRL_OPEN_TRIAL", "TIMING_TRIAL",
   "SPECTRUM_TRIAL"}

\* The state of the sequences is well formed.
TypeOK ==
  /\ reg \in [crl : 0..1, ofst : 0..2, syr : {3, 7}, alpha : {0, 3}]
  /\ sense \in {"NORMAL", "INV"} /\ longEcho \in BOOLEAN
  /\ seq \in [state : SeqStates, waitTime : Nat, total : Nat, auto : BOOLEAN,
              crlOpenTrial : BOOLEAN, pOfst : BOOLEAN, mOfst : BOOLEAN, noOfst : BOOLEAN,
              spectTrial : BOOLEAN, unlockDetDone : BOOLEAN, first : {"NORMAL", "INV"}]
  /\ ended \in Results
  /\ ts \in [on : BOOLEAN, waitTime : Nat]

\* The trials together never last as long as the sanity checks of the loops allow:
\* only the waits time out that the sequence itself limits, and no acquisition that
\* still makes progress is cut off.
SanityNeverNeeded ==
  [][/\ Running /\ seq'.state = "idle" /\ ended' = "TIMEOUT" => InState("WAIT_LOCK") /\ TimedOut
     /\ ts.on /\ ~ts'.on /\ ended' = "TIMEOUT" => ts.waitTime > WaitTsLock]_vars

\* The first attempt of an acquisition runs with the default settings, whatever
\* trial or failure the acquisition before it ended in.
FirstAttemptPlain ==
  Running /\ seq.state # "INIT" /\ ~(seq.pOfst \/ seq.spectTrial \/ seq.crlOpenTrial) =>
    reg = Defaults

\* Once long echo is off its registers are those of a plain DVB-T2 acquisition.
PlainModeHasDefaults == ~longEcho => reg = Defaults

\* An acquisition that comes to an end of its own, with or without a lock, leaves
\* the carrier recovery loop closed.
LeavesCrlClosed ==
  [][Running /\ seq'.state = "idle" /\ ended' \in {"OK", "UNLOCK", "TIMEOUT"} =>
       reg'.crl = 0]_vars

\* A locked demodulator has its FCS at the default again, a locked transport
\* stream its SYR_ACTMODE.
LocksRestoreSettings ==
  [][/\ Running /\ seq'.state = "idle" /\ ended' = "OK" => reg'.alpha = 3
     /\ ts.on /\ ~ts'.on /\ ended' = "OK" => reg'.syr = 7]_vars

\* A search that found nothing in either sense leaves the sense as it was.
SearchRestoresSense ==
  [][InState("SPECTRUM_TRIAL") /\ ended' = "UNLOCK" => sense' = seq.first]_vars

\* Every sequence ends.
SequencesEnd == (Running ~> ~Running) /\ (ts.on ~> ~ts.on)
=============================================================================
