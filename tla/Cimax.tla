------------------------------- MODULE Cimax -------------------------------
(***************************************************************************)
(* The driver of the CIMaX+ chip, through which the receiver talks to the  *)
(* conditional access modules (CAMs): cimax.c with hal_os.c and            *)
(* cimax_spi_pio.c.  The application initialises and terminates it, clients *)
(* call it, and a thread of its own asks the chip for events whenever the  *)
(* interrupt pin is low.  Every command and its answer are exchanged under *)
(* one mutex; an answer that misses its time-out stays in the chip and is  *)
(* taken for the answer to the next command.                               *)
(*                                                                         *)
(* The chip, the CAMs and the SPI device are the environment.  A register  *)
(* holds the set of its bits, or of the pieces of the image written there. *)
(***************************************************************************)
EXTENDS Integers, Sequences, FiniteSets

CONSTANTS
  Clients,    \* threads of the software that uses the CAMs
  Calls,      \* what they call
  Tries,      \* how often a download is tried (5)
  Pluggable,  \* the slots whose CAM comes and goes
  Faults,     \* "write": a transfer may fail; "late": an answer may miss its time-out
  Callback,   \* what CIMAX_Init is given: "NULL", or a callback that "notes" or "calls"
  Overlap,    \* may CIMAX_Term come while a client is in a call?
  Quick       \* does the thread see the stop flag within the 100 ms of CIMAX_Term?

Slots == {"A", "B"}
Threads == Clients \cup {"app", "event"}

ASSUME CimaxAssumption ==
  /\ Tries \in Nat \ {0}
  /\ Pluggable \subseteq Slots
  /\ Faults \subseteq {"write", "late"}
  /\ Callback \in {"NULL", "notes", "calls"}
  /\ Overlap \in BOOLEAN /\ Quick \in BOOLEAN
  /\ Clients \cap {"app", "event", "null", "free"} = {}

VARIABLES
  chip,       \* the chip: its firmware, registers, CAMs, answers and events
  mutex,      \* hIntMutex: "null", "free" or who holds it
  buf,        \* responseBuff: the last answer read
  drv,        \* the rest of the driver's context and globals
  th,         \* the threads: the commands still to exchange, and how far they are
  app,        \* where CIMAX_Init and CIMAX_Term stand
  crashed     \* has a NULL pointer been used?

vars == <<chip, mutex, buf, drv, th, app, crashed>>

-----------------------------------------------------------------------------
(* Commands.  "at" is a register or a slot.  "V" reads a register and      *)
(* compares it, "O" sets bits in it, "S" reads it until bits are set.      *)

W(reg, val) == [op |-> "W", at |-> reg, val |-> val]
R(reg)      == [op |-> "R", at |-> reg, val |-> {}]
V(reg, val) == [op |-> "V", at |-> reg, val |-> val]
O(reg, val) == [op |-> "O", at |-> reg, val |-> val]
S(reg, val) == [op |-> "S", at |-> reg, val |-> val]
Cam(op, slot, val) == [op |-> op, at |-> slot, val |-> val]
INIT        == [op |-> "INIT", at |-> "none", val |-> {}]
GetEvt      == [op |-> "GetEvt", at |-> "none", val |-> {}]

Reads == {"R", "V", "O", "S"}
CamOps == {"CAMReset", "GetCIS", "WriteCor", "Negotiate", "WriteLPDU", "ReadLPDU", "ReadStatus"}

(* downloadFW: every piece is written, read back and compared, the chip    *)
(* checks the signature of the whole, and INIT starts it.                  *)
FwScript ==
  << W("code", {"image"}), V("code", {"image"}), W("vectors", {"image"}),
     V("vectors", {"image"}), W("bist", {"run"}), V("BOOT_Status", {"ok"}), INIT >>

(* spiRegSettings: inputs closed, the power of the slots switched under    *)
(* the configuration lock, the router set, inputs opened.                  *)
Cfg ==
  << W("IN_SEL", {}), W("CFG_2", {}), W("CFG_1", {}), W("CFG_2", {"lock"}),
     S("CFG_1", {"vcc"}), O("CFG_1", {"pcmcia"}), S("CFG_1", {"pcmcia"}),
     W("ROUTER", {}), W("IN_SEL", {"open"}) >>

ResetPatch == << W("IN_SEL", {"closed"}), W("P2S", {"reset"}), W("P2S", {"on"}), W("IN_SEL", {"open"}) >>

Regs == {"code", "vectors", "bist", "BOOT_Status", "IN_SEL", "CFG_1", "CFG_2", "ROUTER", "P2S"}

(* CIMAX_CAMPassThrough: how the stream is led through the modules.        *)
Route(inserted, pass) ==
  LET through == {s \in Slots : inserted[s] /\ pass[s]}
      modules == {s \in Slots : inserted[s]}
  IN  << W("ROUTER_MOD", modules \cup IF through = Slots THEN {"chained"} ELSE {}),
         W("ROUTER_CH", IF "B" \in through THEN {"B"} ELSE through) >>

Routers == {"ROUTER_MOD", "ROUTER_CH"}

(* accessCAM sends a payload of more than 256 bytes in pieces of 256, and  *)
(* the header's four bytes with the last piece, if one is left: so many    *)
(* bytes of a message of 4 + n go out.                                     *)
Sent(n) == IF n > 256 /\ n % 256 = 0 THEN n ELSE n + 4

\* What a client calls names a register, a slot or neither.
ASSUME CallsAssumption ==
  \A call \in Calls :
    \/ call.op \in {"WriteRegister", "ReadRegister"} /\ call.at \in Regs
    \/ call.op \in CamOps \cup {"PassThrough"} /\ call.at \in Slots
    \/ call.op = "ResetPatch"

-----------------------------------------------------------------------------
(* The chip.                                                               *)

NoAnswer == [op |-> "none", at |-> "none", val |-> {}]
Answer(c, ans) == [c EXCEPT !.out = Append(@, ans)]

Checked(reg) == IF reg["code"] = {"image"} /\ reg["vectors"] = {"image"} THEN {"ok"} ELSE {}
Written(reg, cmd) ==
  [reg EXCEPT ![cmd.at] = cmd.val,
              !["BOOT_Status"] = IF cmd.at = "bist" THEN Checked(reg) ELSE @]

Event(c) == IF c.events = <<>> THEN [op |-> "NoEvt", at |-> "none", val |-> {}] ELSE Head(c.events)

Det(slot, in) == [op |-> "Det", at |-> slot, val |-> IF in THEN {"in"} ELSE {}]
Found(c) ==
  (IF c.cam["A"] THEN <<Det("A", TRUE)>> ELSE <<>>) \o (IF c.cam["B"] THEN <<Det("B", TRUE)>> ELSE <<>>)

(* What the chip makes of a command.  A module may refuse; a message that  *)
(* is too short takes the next command for its end.                        *)
Served(c, cmd) ==
  CASE c.short # {} ->
         { Answer([c EXCEPT !.short = {}, !.lpdu = {"torn"}],
                  [op |-> "WriteLPDU", at |-> s, val |-> {}]) : s \in c.short }
    [] c.short = {} /\ cmd.op = "W" ->
         { Answer([c EXCEPT !.reg = Written(@, cmd)], [cmd EXCEPT !.val = {}]) }
    [] c.short = {} /\ cmd.op \in Reads ->
         { Answer(c, [op |-> "R", at |-> cmd.at, val |-> c.reg[cmd.at]]) }
    [] c.short = {} /\ cmd.op = "INIT" ->
         { IF c.reg["BOOT_Status"] = {"ok"}
           THEN Answer([c EXCEPT !.run = TRUE], cmd)
           ELSE Answer(c, [cmd EXCEPT !.op = "Nok"]) }
    [] c.short = {} /\ cmd.op = "GetEvt" ->
         { Answer([c EXCEPT !.events = IF @ = <<>> THEN @ ELSE Tail(@)], Event(c)) }
    [] c.short = {} /\ cmd.op \in CamOps ->
         IF ~c.cam[cmd.at] THEN { Answer(c, [op |-> "NoCam", at |-> cmd.at, val |-> {}]) }
         ELSE { Answer(c, [op |-> "CamError", at |-> cmd.at, val |-> {}]),
                IF cmd.op = "WriteLPDU" /\ \E n \in cmd.val : Sent(n) < n + 4
                THEN [c EXCEPT !.short = {cmd.at}]
                ELSE Answer([c EXCEPT !.lpdu = IF cmd.op = "WriteLPDU" THEN cmd.val ELSE @],
                            [op |-> cmd.op, at |-> cmd.at, val |-> {}]) }

(* GPIO 28: the chip forgets everything but the modules in its slots.      *)
Reset(c) == [c EXCEPT !.run = FALSE, !.reg = [r \in DOMAIN @ |-> {}], !.out = <<>>,
                      !.events = <<>>, !.short = {}, !.slip = FALSE]

INTActive == chip.out # <<>> \/ chip.events # <<>>

-----------------------------------------------------------------------------
Idle == [pc |-> "off", todo |-> <<>>, ret |-> "none", val |-> {}]
NoFlag == [s \in Slots |-> FALSE]

InCall == {"wait", "got", "told"}

Init ==
  /\ \E ins \in [Slots -> BOOLEAN] :
       /\ \A s \in Slots \ Pluggable : ~ins[s]
       /\ chip = [run |-> FALSE, reg |-> [r \in Regs \cup Routers |-> {}], cam |-> ins,
                  lpdu |-> {}, out |-> <<>>, events |-> <<>>, short |-> {}, slip |-> FALSE]
  /\ mutex = "null"
  /\ buf = NoAnswer
  /\ drv = [spi |-> FALSE, stop |-> FALSE, cb |-> FALSE, inserted |-> NoFlag,
            CAM_Inserted |-> NoFlag, TSPassThrough |-> NoFlag]
  /\ th = [t \in Threads |-> Idle]
  /\ app = [stage |-> "down", tries |-> 0, result |-> "none"]
  /\ crashed = FALSE

Do(t, script) == th' = [th EXCEPT ![t] = [pc |-> "run", todo |-> script, ret |-> "none", val |-> {}]]

-----------------------------------------------------------------------------
(* One command and its answer, by thread t.                                *)

Cmd(t) == IF t = "event" THEN GetEvt ELSE Head(th[t].todo)

(* A command that failed ends the call; the thread of the driver goes on.  *)
Failed(t) ==
  th' = [th EXCEPT ![t] = IF t = "event" THEN [@ EXCEPT !.pc = "run"]
                          ELSE [pc |-> "off", todo |-> <<>>, ret |-> "ERROR", val |-> {}]]

(* Is thread t about to exchange a command?  The driver's thread looks at  *)
(* the stop flag, takes the mutex and looks at the interrupt pin first.    *)
Wants(t) ==
  /\ th[t].pc = "run"
  /\ t = "event" => ~drv.stop /\ INTActive

Send(t) ==
  /\ Wants(t) /\ mutex = "free" /\ drv.spi
  /\ chip' \in Served(chip, Cmd(t))
  /\ mutex' = t
  /\ th' = [th EXCEPT ![t].pc = "wait"]
  /\ UNCHANGED <<buf, drv, app, crashed>>

(* CIMAX_SPI_Write fails, with the mutex taken and given back.             *)
SendFails(t) ==
  /\ Wants(t) /\ mutex = "free"
  /\ "write" \in Faults \/ ~drv.spi
  /\ Failed(t)
  /\ UNCHANGED <<chip, mutex, buf, drv, app, crashed>>

(* getResponse: the header is read when the pin is low.                    *)
Receive(t) ==
  /\ th[t].pc = "wait" /\ chip.out # <<>>
  /\ buf' = Head(chip.out)
  /\ chip' = [chip EXCEPT !.out = Tail(@)]
  /\ th' = [th EXCEPT ![t].pc = "got"]
  /\ UNCHANGED <<mutex, drv, app, crashed>>

\* Mutant of NoResponse: the mutex is kept.
NoResponseKeepsLock(t) ==
  /\ th[t].pc = "wait" /\ mutex = t
  /\ chip.out = <<>> \/ "late" \in Faults
  /\ chip' = [chip EXCEPT !.slip = TRUE]
  /\ Failed(t)
  /\ UNCHANGED <<mutex, buf, drv, app, crashed>>

(* It ends without an answer: the pin stays high for 400 ms or five        *)
(* seconds, the transfer fails, or the pin is low for an event and what is *)
(* read before the answer is there is none ("invalid response").           *)
NoResponse(t) ==
  /\ th[t].pc = "wait" /\ mutex = t
  /\ chip.out = <<>> \/ "late" \in Faults
  /\ chip' = [chip EXCEPT !.slip = TRUE]
  /\ mutex' = "free"
  /\ Failed(t)
  /\ UNCHANGED <<buf, drv, app, crashed>>

(* The module is not there (responseCamNoCam), or it refuses, is busy or   *)
(* has not done yet (responseCamError, ...WriteBusy, ...CmdPending).       *)
NoCam(cmd)   == cmd.op \in CamOps /\ buf.op = "NoCam" /\ buf.at = cmd.at
Refused(cmd) == cmd.op \in CamOps /\ buf.op = "CamError" /\ buf.at = cmd.at

(* Is the answer the one to this command?                                  *)
Accepts(cmd) ==
  /\ ~NoCam(cmd) /\ ~Refused(cmd)
  /\ \/ cmd.op \in Reads /\ buf.op = "R" /\ buf.at = cmd.at
     \/ cmd.op \notin Reads /\ buf.op = cmd.op /\ buf.at = cmd.at

(* The flags after the answer: no module clears the flag of its slot.      *)
Cleared(cmd) == [drv EXCEPT !.inserted = [s \in Slots |-> @[s] /\ ~(NoCam(cmd) /\ s = cmd.at)]]

(* What is left to do of a call when a command has been answered.          *)
Rest(t) ==
  LET cmd == Cmd(t) IN
  CASE cmd.op = "O" -> << W(cmd.at, buf.val \cup cmd.val) >> \o Tail(th[t].todo)
    [] cmd.op = "S" /\ ~(cmd.val \subseteq buf.val) -> th[t].todo
    [] OTHER -> Tail(th[t].todo)

\* Mutant of Finish: the bytes of the answer are not compared with those of the command.
FinishAnyAnswer(t) ==
  /\ t # "event" /\ th[t].pc = "got" /\ mutex = t
  /\ mutex' = "free"
  /\ th' = [th EXCEPT ![t] = [pc |-> IF Rest(t) = <<>> THEN "off" ELSE "run", todo |-> Rest(t),
                              ret |-> "OK", val |-> buf.val]]
  /\ drv' = Cleared(Cmd(t))
  /\ UNCHANGED <<chip, buf, app, crashed>>

Finish(t) ==
  /\ t # "event" /\ th[t].pc = "got" /\ mutex = t
  /\ mutex' = "free"
  /\ drv' = Cleared(Cmd(t))
  /\ IF Accepts(Cmd(t)) /\ (Cmd(t).op = "V" => buf.val = Cmd(t).val)
     THEN th' = [th EXCEPT ![t] = [pc |-> IF Rest(t) = <<>> THEN "off" ELSE "run", todo |-> Rest(t),
                                   ret |-> "OK", val |-> buf.val]]
     ELSE Failed(t)
  /\ UNCHANGED <<chip, buf, app, crashed>>

-----------------------------------------------------------------------------
(* asyncEventsThreadFunction with an answer, and its callbacks.            *)

\* Mutant of HandleEvent: only insertions change the state.
HandleEventInsertedOnly(t) ==
  /\ t = "event" /\ th[t].pc = "got" /\ mutex = t
  /\ drv' = IF buf.op = "Det" /\ buf.val = {"in"} THEN [drv EXCEPT !.inserted[buf.at] = TRUE] ELSE drv
  /\ th' = [th EXCEPT ![t].pc = IF buf.op \in {"Det", "Data"} THEN "told" ELSE "run"]
  /\ mutex' = IF buf.op \in {"Det", "Data"} THEN mutex ELSE "free"
  /\ UNCHANGED <<chip, buf, app, crashed>>

HandleEvent(t) ==
  /\ t = "event" /\ th[t].pc = "got" /\ mutex = t
  /\ drv' = IF buf.op = "Det" THEN [drv EXCEPT !.inserted[buf.at] = buf.val = {"in"}] ELSE drv
  /\ th' = [th EXCEPT ![t].pc = IF buf.op \in {"Det", "Data"} THEN "told" ELSE "run"]
  /\ mutex' = IF buf.op \in {"Det", "Data"} THEN mutex ELSE "free"
  /\ UNCHANGED <<chip, buf, app, crashed>>

(* The callback runs with the mutex held: one that calls the driver never  *)
(* comes back.                                                             *)
Tell ==
  /\ th["event"].pc = "told" /\ mutex = "event"
  /\ drv.cb /\ Callback # "calls"
  /\ mutex' = "free"
  /\ th' = [th EXCEPT !["event"].pc = "run"]
  /\ UNCHANGED <<chip, buf, drv, app, crashed>>

LeaveThread ==
  /\ th["event"].pc = "run" /\ drv.stop
  /\ th' = [th EXCEPT !["event"] = Idle]
  /\ UNCHANGED <<chip, mutex, buf, drv, app, crashed>>

(* A NULL mutex is taken or given back, or a NULL callback called.         *)
Crash(t) ==
  /\ \/ mutex = "null" /\ (Wants(t) \/ th[t].pc \in InCall)
     \/ th[t].pc = "told" /\ ~drv.cb
  /\ crashed' = TRUE
  /\ UNCHANGED <<chip, mutex, buf, drv, th, app>>

-----------------------------------------------------------------------------
(* CIMAX_Init and CIMAX_Term.  A device that cannot be opened is not       *)
(* noticed: CIMAX_SPI_Init then returns NULL, which is CIMAX_NO_ERROR.     *)

Stage(stage) == app' = [app EXCEPT !.stage = stage]

StartInit ==
  /\ app.stage = "down"
  /\ \E open \in IF "write" \in Faults THEN BOOLEAN ELSE {TRUE} :
       drv' = [drv EXCEPT !.spi = open, !.inserted = NoFlag]
  /\ mutex' = "free"
  /\ app' = [app EXCEPT !.stage = "boot", !.result = "none"]
  /\ Do("app", <<R("BOOT_Status")>>)
  /\ UNCHANGED <<chip, buf, crashed>>

(* A script of the application has ended.                                  *)
Ended(stage) == app.stage = stage /\ th["app"].todo = <<>>

BootStatus ==
  /\ Ended("boot")
  /\ IF th["app"].val = {"ok"}
     THEN /\ app' = [app EXCEPT !.stage = "cfg", !.tries = Tries]
          /\ Do("app", Cfg) /\ UNCHANGED chip
     ELSE /\ app' = [app EXCEPT !.stage = "fw", !.tries = Tries]
          /\ Do("app", FwScript) /\ chip' = Reset(chip)
  /\ UNCHANGED <<mutex, buf, drv, crashed>>

(* Whatever the last try brings, it counts as a failure.                   *)
FwEnds ==
  /\ Ended("fw")
  /\ LET ok == th["app"].ret = "OK" IN
     /\ chip' = IF ok THEN chip ELSE Reset(chip)
     /\ \/ ok /\ app.tries > 1 /\ app' = [app EXCEPT !.stage = "cfg", !.tries = Tries] /\ Do("app", Cfg)
        \/ ~ok /\ app.tries > 1 /\ app' = [app EXCEPT !.tries = @ - 1] /\ Do("app", FwScript)
        \/ app.tries = 1 /\ Stage("failed") /\ UNCHANGED th
  /\ UNCHANGED <<mutex, buf, drv, crashed>>

\* Mutant of CfgEnds: the tries are not counted at the end.
CfgEndsUncounted ==
  /\ Ended("cfg")
  /\ LET ok == th["app"].ret = "OK" IN
     \/ (ok \/ app.tries = 1) /\ Stage("thread") /\ UNCHANGED th
     \/ ~ok /\ app.tries > 1 /\ app' = [app EXCEPT !.tries = @ - 1] /\ Do("app", Cfg)
  /\ UNCHANGED <<chip, mutex, buf, drv, crashed>>

CfgEnds ==
  /\ Ended("cfg")
  /\ LET ok == th["app"].ret = "OK" IN
     \/ ok /\ app.tries > 1 /\ Stage("thread") /\ UNCHANGED th
     \/ ~ok /\ app.tries > 1 /\ app' = [app EXCEPT !.tries = @ - 1] /\ Do("app", Cfg)
     \/ app.tries = 1 /\ Stage("failed") /\ UNCHANGED th
  /\ UNCHANGED <<chip, mutex, buf, drv, crashed>>

CreateThread ==
  /\ app.stage = "thread"
  /\ \/ Stage("callbacks") /\ th' = [th EXCEPT !["event"].pc = "run"]
     \/ Stage("failed") /\ UNCHANGED th
  /\ UNCHANGED <<chip, mutex, buf, drv, crashed>>

SetCallbacks ==
  /\ app.stage = "callbacks"
  /\ app' = [app EXCEPT !.stage = "up", !.result = "OK"]
  /\ drv' = [drv EXCEPT !.cb = Callback # "NULL"]
  /\ UNCHANGED <<chip, mutex, buf, th, crashed>>

(* CIMAX_Term forgets the context; the thread is not joined.               *)
Terminated ==
  /\ mutex' = "null"
  /\ buf' = NoAnswer
  /\ drv' = [drv EXCEPT !.spi = FALSE, !.stop = FALSE, !.inserted = NoFlag]

InitFails ==
  /\ app.stage = "failed"
  /\ app' = [stage |-> "down", tries |-> 0, result |-> "ERROR"]
  /\ Terminated
  /\ UNCHANGED <<chip, th, crashed>>

CIMAX_Term ==
  /\ app.stage = "up"
  /\ Overlap \/ \A t \in Clients : th[t].pc = "off"
  /\ drv' = [drv EXCEPT !.stop = TRUE]
  /\ Stage("stopping")
  /\ UNCHANGED <<chip, mutex, buf, th, crashed>>

TermEnds ==
  /\ app.stage = "stopping"
  /\ Quick => th["event"].pc = "off"
  /\ app' = [stage |-> "down", tries |-> 0, result |-> "none"]
  /\ Terminated
  /\ UNCHANGED <<chip, th, crashed>>

-----------------------------------------------------------------------------
(* The clients' calls, while the driver is up.                             *)

CIMAX_WriteRegister(reg, val) == << W(reg, val) >>
CIMAX_ReadRegister(reg)       == << R(reg) >>
CIMAX_CAMReset(slot)          == << Cam("CAMReset", slot, {}) >>
CIMAX_GetCIS(slot)            == << Cam("GetCIS", slot, {}) >>
CIMAX_WriteCor(slot)          == << Cam("WriteCor", slot, {}) >>
CIMAX_ReadStatus(slot)        == << Cam("ReadStatus", slot, {}) >>
CIMAX_Negotiate(slot)         == << Cam("Negotiate", slot, {}) >>
CIMAX_WriteLPDU(slot, size)   == << Cam("WriteLPDU", slot, size) >>
CIMAX_ReadLPDU(slot)          == << Cam("ReadLPDU", slot, {}) >>
CIMAX_CAMPassThrough(slot, passes) ==
  Route(drv.CAM_Inserted, [drv.TSPassThrough EXCEPT ![slot] = passes])

Script(call) ==
  CASE call.op = "WriteRegister" -> CIMAX_WriteRegister(call.at, call.val)
    [] call.op = "ReadRegister"  -> CIMAX_ReadRegister(call.at)
    [] call.op = "ResetPatch"    -> ResetPatch
    [] call.op = "PassThrough"   -> CIMAX_CAMPassThrough(call.at, call.val = {0})
    [] call.op = "CAMReset"      -> CIMAX_CAMReset(call.at)
    [] call.op = "GetCIS"        -> CIMAX_GetCIS(call.at)
    [] call.op = "WriteCor"      -> CIMAX_WriteCor(call.at)
    [] call.op = "ReadStatus"    -> CIMAX_ReadStatus(call.at)
    [] call.op = "Negotiate"     -> CIMAX_Negotiate(call.at)
    [] call.op = "WriteLPDU"     -> CIMAX_WriteLPDU(call.at, call.val)
    [] call.op = "ReadLPDU"      -> CIMAX_ReadLPDU(call.at)

Enter(t, call) ==
  /\ t \in Clients /\ th[t].pc = "off"
  /\ app.stage = "up"
  /\ Do(t, Script(call))
  /\ drv' = IF call.op = "PassThrough"
            THEN [drv EXCEPT !.TSPassThrough[call.at] = call.val = {0}] ELSE drv
  /\ UNCHANGED <<chip, mutex, buf, app, crashed>>

(* CIMAX_CAMDetect: the client says what it was told.                      *)
CIMAX_CAMDetect(slot, in) ==
  /\ app.stage = "up" /\ slot \in Pluggable
  /\ drv' = [drv EXCEPT !.CAM_Inserted[slot] = in]
  /\ UNCHANGED <<chip, mutex, buf, th, app, crashed>>

-----------------------------------------------------------------------------
(* The chip and its modules on their own.                                  *)

(* The slots get their power once the configuration is locked: the bit is  *)
(* set and the modules in them are found.                                  *)
Power ==
  /\ chip.run
  /\ chip.reg["CFG_2"] = {"lock"} /\ "vcc" \notin chip.reg["CFG_1"]
  /\ chip' = [chip EXCEPT !.reg["CFG_1"] = @ \cup {"vcc"}, !.events = Found(chip)]
  /\ UNCHANGED <<mutex, buf, drv, th, app, crashed>>

Plug(slot) ==
  /\ slot \in Pluggable
  /\ Len(chip.events) < 2
  /\ chip' = [chip EXCEPT !.cam[slot] = ~@,
                !.events = IF "vcc" \in chip.reg["CFG_1"]
                           THEN Append(@, Det(slot, ~chip.cam[slot])) ELSE @]
  /\ UNCHANGED <<mutex, buf, drv, th, app, crashed>>

DataReady(slot) ==
  /\ chip.cam[slot] /\ "vcc" \in chip.reg["CFG_1"]
  /\ Len(chip.events) < 2
  /\ chip' = [chip EXCEPT !.events = Append(@, [op |-> "Data", at |-> slot, val |-> {}])]
  /\ UNCHANGED <<mutex, buf, drv, th, app, crashed>>

Exchange(t) ==
  \/ Send(t) \/ SendFails(t) \/ Receive(t) \/ NoResponse(t) \/ Finish(t)
  \/ HandleEvent(t) \/ Crash(t)

Application ==
  \/ StartInit \/ BootStatus \/ FwEnds \/ CfgEnds \/ CreateThread \/ SetCallbacks
  \/ InitFails \/ CIMAX_Term \/ TermEnds

Client ==
  \/ \E t \in Clients, call \in Calls : Enter(t, call)
  \/ \E slot \in Slots, in \in BOOLEAN : CIMAX_CAMDetect(slot, in)

Environment ==
  \/ Power
  \/ \E slot \in Slots : Plug(slot) \/ DataReady(slot)

Next ==
  /\ ~crashed
  /\ \/ \E t \in Threads : Exchange(t)
     \/ Tell \/ LeaveThread \/ Application \/ Client \/ Environment

Spec == Init /\ [][Next]_vars

-----------------------------------------------------------------------------
TypeOK ==
  /\ mutex \in {"null", "free"} \cup Threads
  /\ chip.run \in BOOLEAN /\ chip.slip \in BOOLEAN /\ chip.short \in SUBSET Slots
  /\ chip.cam \in [Slots -> BOOLEAN] /\ DOMAIN chip.reg = Regs \cup Routers
  /\ drv.spi \in BOOLEAN /\ drv.stop \in BOOLEAN /\ drv.cb \in BOOLEAN
  /\ \A f \in {drv.inserted, drv.CAM_Inserted, drv.TSPassThrough} : f \in [Slots -> BOOLEAN]
  /\ \A t \in Threads : th[t].pc \in {"off", "run"} \cup InCall
                       /\ th[t].ret \in {"none", "OK", "ERROR"}
  /\ app.stage \in {"down", "boot", "fw", "cfg", "thread", "callbacks", "up", "stopping", "failed"}
  /\ app.tries \in 0..Tries /\ app.result \in {"none", "OK", "ERROR"}
  /\ crashed \in BOOLEAN

(* The mutex is held from the command to the end of its answer and at no   *)
(* other time, whichever way out a call takes; CIMAX_Term destroys it only *)
(* when nobody is inside (every OS_MutexLock and OS_MutexUnlock).          *)
LockHeldInCalls ==
  /\ mutex \in Threads => th[mutex].pc \in InCall
  /\ \A t \in Threads : th[t].pc \in InCall => mutex = t

(* What has been done when the answer to a command is accepted.            *)
Done(cmd, val) ==
  CASE cmd.op = "W" -> chip.reg[cmd.at] \ {"vcc"} = cmd.val \ {"vcc"}
    [] cmd.op \in Reads -> val \ {"vcc"} = chip.reg[cmd.at] \ {"vcc"}
    [] cmd.op = "INIT" -> chip.run
    [] cmd.op = "WriteLPDU" -> chip.lpdu = cmd.val
    [] OTHER -> chip.cam[cmd.at] \/ \E i \in 1..Len(chip.events) : chip.events[i] = Det(cmd.at, FALSE)

(* As long as no answer has missed its time-out, a call that reports       *)
(* success has done what it was called for: a register holds what was      *)
(* written, a value read is the register's, an LPDU has arrived whole, a   *)
(* module that answered was in its slot.                                   *)
OkMeansDone ==
  [][\A t \in Threads \ {"event"} :
       th[t].pc = "got" /\ th'[t].pc \in {"off", "run"} /\ th'[t].ret = "OK" /\ ~chip.slip
         => Done(Cmd(t), th'[t].val)]_vars

(* CIMAX_Init reports success only of a chip whose firmware runs, which    *)
(* has its whole configuration and the thread that serves it; when it      *)
(* fails, nothing of it is left.                                           *)
InitTellsTruth ==
  /\ app.stage \in {"thread", "callbacks"} =>
       /\ chip.run /\ drv.spi
       /\ chip.reg["CFG_2"] = {"lock"} /\ chip.reg["CFG_1"] = {"vcc", "pcmcia"}
       /\ chip.reg["ROUTER"] = {} /\ chip.reg["IN_SEL"] = {"open"}
  /\ app.result = "OK" /\ app.stage = "up" => th["event"].pc # "off"
  /\ app.result = "ERROR" => mutex = "null" /\ ~drv.spi /\ \A t \in Threads : th[t].pc = "off"

(* When the events are handled and no answer has missed its time-out, the  *)
(* driver knows which slots have a module, however removals, insertions    *)
(* and calls that were told "no module" have interleaved.                  *)
CamStateKnown ==
  app.stage = "up" /\ mutex = "free" /\ ~INTActive /\ ~chip.slip =>
    drv.inserted = chip.cam

-----------------------------------------------------------------------------
(* What does not hold; the README names the configuration that shows it.   *)

(* No NULL mutex is used and no NULL callback called: the thread starts    *)
(* before the callbacks are set, and the TDP API passes NULL for both.     *)
NothingCrashes == ~crashed

(* A module gets the LPDU that was written: one of a whole number of       *)
(* pieces lacks its last four bytes (accessCAM).                           *)
LpduArrivesWhole == chip.lpdu # {"torn"}
=============================================================================
