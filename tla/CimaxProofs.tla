---------------------------- MODULE CimaxProofs ----------------------------
(***************************************************************************)
(* Proofs about Cimax, for any number of clients, any calls, any number of *)
(* tries and any faults.                                                   *)
(*   - The mutex is held from a command to the end of its answer and at no *)
(*     other time, and nobody is at work without it (IInv).                *)
(*   - A call that reports success has done what it was called for, the    *)
(*     flags of the modules are true, and CIMAX_Init tells the truth       *)
(*     (CInv, in the second half).                                         *)
(* Two hypotheses are needed for all of it, and the README shows what      *)
(* happens without them: CIMAX_Term comes when no client is in a call, and *)
(* the thread of the driver sees the stop flag before CIMAX_Term goes on   *)
(* (Orderly).  The second half supposes that no client takes the slots     *)
(* their power (PowerKept).                                                *)
(***************************************************************************)
EXTENDS Cimax, TLAPS

\* CIMAX_Term waits long enough, and for everybody.
Orderly == Quick /\ ~Overlap

\* A thread and the application are records; th is a function on Threads.
Shape ==
  /\ th = [t \in Threads |-> th[t]]
  /\ \A t \in Threads :
       th[t] = [pc |-> th[t].pc, todo |-> th[t].todo, ret |-> th[t].ret, val |-> th[t].val]
  /\ app = [stage |-> app.stage, tries |-> app.tries, result |-> app.result]

\* Who may be at work in a stage of CIMAX_Init and CIMAX_Term.
AtWork ==
  /\ app.stage \notin {"boot", "fw", "cfg"} => th["app"].pc = "off"
  /\ app.stage \notin {"callbacks", "up", "stopping"} => th["event"].pc = "off"
  /\ app.stage # "up" => \A t \in Clients : th[t].pc = "off"

\* The application has a command to exchange as long as its script runs.
ScriptRuns == th["app"].pc # "off" => th["app"].todo # <<>>

\* Without a mutex, nothing has been initialised.
NullIsDown == mutex = "null" => app.stage = "down"

\* The invariant of the mutex.
IInv == Shape /\ AtWork /\ ScriptRuns /\ NullIsDown /\ LockHeldInCalls

-----------------------------------------------------------------------------
LEMMA Names ==
  /\ "app" \in Threads /\ "event" \in Threads /\ "app" # "event"
  /\ "free" \notin Threads /\ "null" \notin Threads
  /\ "app" \notin Clients /\ "event" \notin Clients
  BY CimaxAssumption DEF Threads

LEMMA InitIInv == Init => IInv
<1> SUFFICES ASSUME Init PROVE IInv
  OBVIOUS
<1>1. th = [t \in Threads |-> Idle] /\ mutex = "null"
      /\ app = [stage |-> "down", tries |-> 0, result |-> "none"]
  BY DEF Init
<1>2. Shape
  BY <1>1 DEF Shape, Idle
<1>3. \A t \in Threads : th[t].pc = "off"
  BY <1>1 DEF Idle
<1>4. AtWork /\ ScriptRuns /\ NullIsDown
  BY <1>1, <1>3, Names DEF AtWork, ScriptRuns, NullIsDown, Threads
<1>5. LockHeldInCalls
  BY <1>1, <1>3, Names DEF LockHeldInCalls, InCall
<1> QED BY <1>2, <1>4, <1>5 DEF IInv

\* What EXCEPT makes of the record of a thread.
LEMMA ThreadRecord ==
  ASSUME NEW x, x = [pc |-> x.pc, todo |-> x.todo, ret |-> x.ret, val |-> x.val], NEW pc
  PROVE  [x EXCEPT !.pc = pc] = [pc |-> pc, todo |-> x.todo, ret |-> x.ret, val |-> x.val]
  OBVIOUS

\* A thread that leaves its call, and gives the mutex back, keeps the
\* invariant; it goes off, or on with what is left to do.
LEMMA Leaving ==
  ASSUME IInv, NEW t \in Threads, th[t].pc # "off",
         NEW r, r = [pc |-> r.pc, todo |-> r.todo, ret |-> r.ret, val |-> r.val],
         r.pc \in {"off", "run"}, t = "app" /\ r.pc # "off" => r.todo # <<>>,
         th' = [th EXCEPT ![t] = r],
         \/ th[t].pc \in InCall /\ mutex' = "free"
         \/ th[t].pc = "run" /\ mutex' = mutex,
         app' = app
  PROVE  IInv'
<1>1. \A u \in Threads : th'[u] = IF u = t THEN r ELSE th[u]
  BY DEF IInv, Shape
<1>2. Shape'
  BY <1>1 DEF IInv, Shape
<1>3. AtWork' /\ ScriptRuns'
  BY <1>1, Names DEF IInv, AtWork, ScriptRuns, Threads
<1>4. NullIsDown'
  BY Names DEF IInv, NullIsDown
<1>5. LockHeldInCalls'
  BY <1>1, Names DEF IInv, LockHeldInCalls, InCall
<1> QED BY <1>2, <1>3, <1>4, <1>5 DEF IInv

\* A thread inside its call, or entering it with the free mutex, keeps it.
LEMMA Inside ==
  ASSUME IInv, NEW t \in Threads, NEW pc \in InCall,
         th' = [th EXCEPT ![t].pc = pc],
         mutex' = t,
         \/ mutex = "free" /\ th[t].pc = "run"
         \/ mutex = t /\ th[t].pc \in InCall,
         app' = app
  PROVE  IInv'
<1>1. \A u \in Threads : th'[u] = IF u = t THEN [th[t] EXCEPT !.pc = pc] ELSE th[u]
  BY DEF IInv, Shape
<1>2. [th[t] EXCEPT !.pc = pc] = [pc |-> pc, todo |-> th[t].todo, ret |-> th[t].ret, val |-> th[t].val]
  BY DEF IInv, Shape
<1>3. Shape'
  BY <1>1, <1>2 DEF IInv, Shape
<1>4. th[t].pc # "off" /\ pc # "off"
  BY DEF InCall
<1>5. AtWork' /\ ScriptRuns'
  BY <1>1, <1>2, <1>4, Names DEF IInv, AtWork, ScriptRuns, Threads
<1>6. NullIsDown'
  BY Names DEF IInv, NullIsDown
<1>7. LockHeldInCalls'
  BY <1>1, <1>2, Names DEF IInv, LockHeldInCalls, InCall
<1> QED BY <1>3, <1>5, <1>6, <1>7 DEF IInv

\* A command that failed ends the call of its thread.
LEMMA FailedIInv ==
  ASSUME IInv, NEW t \in Threads, Failed(t),
         \/ th[t].pc \in InCall /\ mutex' = "free"
         \/ th[t].pc = "run" /\ mutex' = mutex,
         app' = app
  PROVE  IInv'
<1>1. th[t] = [pc |-> th[t].pc, todo |-> th[t].todo, ret |-> th[t].ret, val |-> th[t].val]
  BY DEF IInv, Shape
<1>2. th[t].pc # "off"
  BY DEF InCall
<1>3. CASE t = "event"
  <2> DEFINE r == [pc |-> "run", todo |-> th[t].todo, ret |-> th[t].ret, val |-> th[t].val]
  <2>1. [th[t] EXCEPT !.pc = "run"] = r
    BY <1>1, ThreadRecord
  <2>2. th' = [th EXCEPT ![t] = [th[t] EXCEPT !.pc = "run"]]
    BY <1>3 DEF Failed
  <2>3. r = [pc |-> r.pc, todo |-> r.todo, ret |-> r.ret, val |-> r.val] /\ r.pc = "run"
    OBVIOUS
  <2>4. th' = [th EXCEPT ![t] = r]
    BY <2>1, <2>2
  <2> HIDE DEF r
  <2> QED BY <1>2, <1>3, <2>3, <2>4, Leaving, Names
<1>4. CASE t # "event"
  <2> DEFINE r == [pc |-> "off", todo |-> <<>>, ret |-> "ERROR", val |-> {}]
  <2>1. th' = [th EXCEPT ![t] = r]
    BY <1>4 DEF Failed
  <2>2. r = [pc |-> r.pc, todo |-> r.todo, ret |-> r.ret, val |-> r.val] /\ r.pc = "off"
    OBVIOUS
  <2> HIDE DEF r
  <2> QED BY <1>2, <2>1, <2>2, Leaving
<1> QED BY <1>3, <1>4

\* An exchange of thread t.
LEMMA ExchangeIInv ==
  ASSUME IInv, NEW t \in Threads, Exchange(t)
  PROVE  IInv'
<1>1. CASE Send(t)
  <2>1. th' = [th EXCEPT ![t].pc = "wait"] /\ mutex' = t /\ app' = app
    BY <1>1 DEF Send
  <2>2. mutex = "free" /\ th[t].pc = "run" /\ "wait" \in InCall
    BY <1>1 DEF Send, Wants, InCall
  <2> QED BY <2>1, <2>2, Inside
<1>2. CASE SendFails(t)
  BY <1>2, FailedIInv DEF SendFails, Wants
<1>3. CASE Receive(t)
  <2>1. th' = [th EXCEPT ![t].pc = "got"] /\ mutex' = mutex /\ app' = app
    BY <1>3 DEF Receive
  <2>2. th[t].pc \in InCall /\ "got" \in InCall
    BY <1>3 DEF Receive, InCall
  <2>3. mutex = t
    BY <2>2 DEF IInv, LockHeldInCalls
  <2> QED BY <2>1, <2>2, <2>3, Inside
<1>4. CASE NoResponse(t)
  BY <1>4, FailedIInv DEF NoResponse, InCall
<1>5. CASE Finish(t)
  <2>1. th[t].pc \in InCall /\ th[t].pc # "off" /\ mutex' = "free" /\ app' = app /\ t # "event"
    BY <1>5 DEF Finish, InCall
  <2>2. CASE Failed(t)
    BY <2>1, <2>2, FailedIInv
  <2>3. CASE ~Failed(t)
    <3> DEFINE r == [pc |-> IF Rest(t) = <<>> THEN "off" ELSE "run", todo |-> Rest(t),
                     ret |-> "OK", val |-> buf.val]
    <3>1. th' = [th EXCEPT ![t] = r]
      BY <1>5, <2>3 DEF Finish
    <3>2. r = [pc |-> r.pc, todo |-> r.todo, ret |-> r.ret, val |-> r.val]
      OBVIOUS
    <3>3. r.pc \in {"off", "run"} /\ (r.pc # "off" => r.todo # <<>>)
      OBVIOUS
    <3> HIDE DEF r
    <3> QED BY <2>1, <3>1, <3>2, <3>3, Leaving
  <2> QED BY <2>2, <2>3
<1>6. CASE HandleEvent(t)
  <2>1. CASE buf.op \in {"Det", "Data"}
    <3>1. th' = [th EXCEPT ![t].pc = "told"] /\ mutex' = mutex /\ app' = app
      BY <1>6, <2>1 DEF HandleEvent
    <3>2. th[t].pc \in InCall /\ "told" \in InCall /\ mutex = t
      BY <1>6 DEF HandleEvent, InCall
    <3> QED BY <3>1, <3>2, Inside
  <2>2. CASE buf.op \notin {"Det", "Data"}
    <3> DEFINE r == [pc |-> "run", todo |-> th[t].todo, ret |-> th[t].ret, val |-> th[t].val]
    <3>1. [th[t] EXCEPT !.pc = "run"] = r
      BY ThreadRecord DEF IInv, Shape
    <3>2. th' = [th EXCEPT ![t] = [th[t] EXCEPT !.pc = "run"]]
      BY <1>6, <2>2 DEF HandleEvent
    <3>3. th[t].pc \in InCall /\ th[t].pc # "off" /\ mutex' = "free" /\ app' = app /\ t # "app"
      BY <1>6, <2>2, Names DEF HandleEvent, InCall
    <3>4. r = [pc |-> r.pc, todo |-> r.todo, ret |-> r.ret, val |-> r.val] /\ r.pc = "run"
      OBVIOUS
    <3>5. th' = [th EXCEPT ![t] = r]
      BY <3>1, <3>2
    <3> HIDE DEF r
    <3> QED BY <3>3, <3>4, <3>5, Leaving
  <2> QED BY <2>1, <2>2
<1>7. CASE Crash(t)
  BY <1>7 DEF Crash, IInv, Shape, AtWork, ScriptRuns, NullIsDown, LockHeldInCalls
<1> QED BY <1>1, <1>2, <1>3, <1>4, <1>5, <1>6, <1>7 DEF Exchange

-----------------------------------------------------------------------------
\* A script of the application starts: nobody else is at work where it does
\* so, and the mutex is there.
LEMMA Starting ==
  ASSUME IInv, NEW script, script # <<>>, Do("app", script),
         th["app"].pc = "off", app.stage \in {"down", "boot", "fw", "cfg"},
         NEW stage \in {"boot", "fw", "cfg"}, NEW tries, NEW result,
         app' = [stage |-> stage, tries |-> tries, result |-> result],
         \/ mutex' = "free" /\ mutex \notin Threads
         \/ mutex' = mutex /\ mutex # "null"
  PROVE  IInv'
<1> DEFINE r == [pc |-> "run", todo |-> script, ret |-> "none", val |-> {}]
<1>1. r = [pc |-> r.pc, todo |-> r.todo, ret |-> r.ret, val |-> r.val]
      /\ r.pc = "run" /\ r.todo = script
  OBVIOUS
<1>2. th' = [th EXCEPT !["app"] = r]
  BY DEF Do
<1> HIDE DEF r
<1>3. \A u \in Threads : th'[u] = IF u = "app" THEN r ELSE th[u]
  BY <1>2 DEF IInv, Shape
<1>4. Shape'
  BY <1>1, <1>2, <1>3 DEF IInv, Shape
<1>5. app'.stage = stage
  OBVIOUS
<1>6. AtWork' /\ ScriptRuns'
  BY <1>1, <1>3, <1>5, Names DEF IInv, AtWork, ScriptRuns, Threads
<1>7. NullIsDown'
  BY <1>5 DEF IInv, NullIsDown
<1>8. LockHeldInCalls'
  BY <1>1, <1>3, Names DEF IInv, LockHeldInCalls, InCall
<1> QED BY <1>4, <1>6, <1>7, <1>8 DEF IInv

\* The application goes to another stage, and no thread moves.
LEMMA Staging ==
  ASSUME IInv, th' = th, NEW stage, NEW tries, NEW result,
         app' = [stage |-> stage, tries |-> tries, result |-> result],
         stage \notin {"boot", "fw", "cfg"} => th["app"].pc = "off",
         stage \notin {"callbacks", "up", "stopping"} => th["event"].pc = "off",
         stage # "up" => \A t \in Clients : th[t].pc = "off",
         \/ mutex' = mutex /\ (mutex = "null" => stage = "down")
         \/ mutex' = "null" /\ stage = "down" /\ \A t \in Threads : th[t].pc = "off"
  PROVE  IInv'
<1>1. Shape'
  BY DEF IInv, Shape
<1>2. AtWork' /\ ScriptRuns' /\ NullIsDown'
  BY DEF IInv, AtWork, ScriptRuns, NullIsDown
<1>3. LockHeldInCalls'
  BY Names DEF IInv, LockHeldInCalls, InCall
<1> QED BY <1>1, <1>2, <1>3 DEF IInv

\* Scripts have commands.
LEMMA Scripts == Cfg # <<>> /\ FwScript # <<>> /\ <<R("BOOT_Status")>> # <<>>
  BY DEF Cfg, FwScript

\* What EXCEPT makes of the record of the application.
LEMMA AppRecord ==
  ASSUME NEW x, x = [stage |-> x.stage, tries |-> x.tries, result |-> x.result],
         NEW stage, NEW tries
  PROVE  /\ [x EXCEPT !.stage = stage] = [stage |-> stage, tries |-> x.tries, result |-> x.result]
         /\ [x EXCEPT !.tries = tries] = [stage |-> x.stage, tries |-> tries, result |-> x.result]
         /\ [x EXCEPT !.stage = stage, !.tries = tries]
              = [stage |-> stage, tries |-> tries, result |-> x.result]
<1>1. [x EXCEPT !.stage = stage] = [stage |-> stage, tries |-> x.tries, result |-> x.result]
  OBVIOUS
<1>2. [x EXCEPT !.tries = tries] = [stage |-> x.stage, tries |-> tries, result |-> x.result]
  OBVIOUS
<1> DEFINE y == [x EXCEPT !.stage = stage]
<1>3. y.stage = stage /\ y.tries = x.tries /\ y.result = x.result
      /\ y = [stage |-> y.stage, tries |-> y.tries, result |-> y.result]
  BY <1>1
<1>4. [x EXCEPT !.stage = stage, !.tries = tries] = [y EXCEPT !.tries = tries]
  OBVIOUS
<1> HIDE DEF y
<1>5. [y EXCEPT !.tries = tries] = [stage |-> y.stage, tries |-> tries, result |-> y.result]
  BY <1>3
<1>6. [x EXCEPT !.stage = stage, !.tries = tries]
        = [stage |-> stage, tries |-> tries, result |-> x.result]
  BY <1>3, <1>4, <1>5
<1> QED BY <1>1, <1>2, <1>6

-----------------------------------------------------------------------------
\* A step of CIMAX_Init or CIMAX_Term.
LEMMA ApplicationIInv ==
  ASSUME Orderly, IInv, Application
  PROVE  IInv'
<1> USE DEF Stage
<1>a. app = [stage |-> app.stage, tries |-> app.tries, result |-> app.result]
  BY DEF IInv, Shape
<1>b. ASSUME NEW stage, Ended(stage), stage \in {"boot", "fw", "cfg"}
      PROVE  /\ th["app"].pc = "off" /\ th["event"].pc = "off"
             /\ \A t \in Clients : th[t].pc = "off"
             /\ mutex # "null" /\ app.stage = stage
  BY <1>b DEF Ended, IInv, AtWork, ScriptRuns, NullIsDown
<1>1. CASE StartInit
  <2>1. th["app"].pc = "off" /\ mutex \notin Threads
    BY <1>1, Names DEF StartInit, IInv, AtWork, LockHeldInCalls, InCall, Threads
  <2>2. app' = [stage |-> "boot", tries |-> app.tries, result |-> "none"]
    BY <1>1, <1>a DEF StartInit
  <2> QED BY <1>1, <2>1, <2>2, Starting, Scripts DEF StartInit
<1>2. CASE BootStatus
  <2>1. CASE th["app"].val = {"ok"}
    <3>1. app' = [stage |-> "cfg", tries |-> Tries, result |-> app.result]
      BY <1>2, <2>1, <1>a, AppRecord DEF BootStatus
    <3> QED BY <1>2, <1>b, <2>1, <3>1, Starting, Scripts DEF BootStatus
  <2>2. CASE th["app"].val # {"ok"}
    <3>1. app' = [stage |-> "fw", tries |-> Tries, result |-> app.result]
      BY <1>2, <2>2, <1>a, AppRecord DEF BootStatus
    <3> QED BY <1>2, <1>b, <2>2, <3>1, Starting, Scripts DEF BootStatus
  <2> QED BY <2>1, <2>2
<1>3. CASE FwEnds
  <2>0. Ended("fw") /\ mutex' = mutex
    BY <1>3 DEF FwEnds
  <2>1. CASE app' = [app EXCEPT !.stage = "cfg", !.tries = Tries] /\ Do("app", Cfg)
    <3>1. app' = [stage |-> "cfg", tries |-> Tries, result |-> app.result]
      BY <2>1, <1>a, AppRecord
    <3> QED BY <2>0, <1>b, <2>1, <3>1, Starting, Scripts
  <2>2. CASE app' = [app EXCEPT !.tries = @ - 1] /\ Do("app", FwScript)
    <3>1. app' = [stage |-> "fw", tries |-> app.tries - 1, result |-> app.result]
      BY <2>0, <2>2, <1>a, <1>b, AppRecord
    <3> QED BY <2>0, <1>b, <2>2, <3>1, Starting, Scripts
  <2>3. CASE Stage("failed") /\ UNCHANGED th
    <3>1. app' = [stage |-> "failed", tries |-> app.tries, result |-> app.result]
      BY <2>3, <1>a, AppRecord
    <3> QED BY <2>0, <1>b, <2>3, <3>1, Staging
  <2> QED BY <1>3, <2>1, <2>2, <2>3 DEF FwEnds
<1>4. CASE CfgEnds
  <2>0. Ended("cfg") /\ mutex' = mutex
    BY <1>4 DEF CfgEnds
  <2>1. CASE Stage("thread") /\ UNCHANGED th
    <3>1. app' = [stage |-> "thread", tries |-> app.tries, result |-> app.result]
      BY <2>1, <1>a, AppRecord
    <3> QED BY <2>0, <1>b, <2>1, <3>1, Staging
  <2>2. CASE app' = [app EXCEPT !.tries = @ - 1] /\ Do("app", Cfg)
    <3>1. app' = [stage |-> "cfg", tries |-> app.tries - 1, result |-> app.result]
      BY <2>0, <2>2, <1>a, <1>b, AppRecord
    <3> QED BY <2>0, <1>b, <2>2, <3>1, Starting, Scripts
  <2>3. CASE Stage("failed") /\ UNCHANGED th
    <3>1. app' = [stage |-> "failed", tries |-> app.tries, result |-> app.result]
      BY <2>3, <1>a, AppRecord
    <3> QED BY <2>0, <1>b, <2>3, <3>1, Staging
  <2> QED BY <1>4, <2>1, <2>2, <2>3 DEF CfgEnds
<1>5. CASE CreateThread
  <2>0. mutex' = mutex /\ mutex # "null" /\ th["app"].pc = "off" /\ th["event"].pc = "off"
        /\ \A t \in Clients : th[t].pc = "off"
    BY <1>5 DEF CreateThread, IInv, AtWork, NullIsDown
  <2>1. CASE Stage("callbacks") /\ th' = [th EXCEPT !["event"].pc = "run"]
    <3>1. app' = [stage |-> "callbacks", tries |-> app.tries, result |-> app.result]
      BY <2>1, <1>a, AppRecord
    <3> DEFINE r == [pc |-> "run", todo |-> th["event"].todo,
                     ret |-> th["event"].ret, val |-> th["event"].val]
    <3>2. [th["event"] EXCEPT !.pc = "run"] = r
      BY ThreadRecord, Names DEF IInv, Shape
    <3>3. th' = [th EXCEPT !["event"] = [th["event"] EXCEPT !.pc = "run"]]
      BY <2>1
    <3>4. th' = [th EXCEPT !["event"] = r]
      BY <3>2, <3>3
    <3>5. r = [pc |-> r.pc, todo |-> r.todo, ret |-> r.ret, val |-> r.val] /\ r.pc = "run"
      OBVIOUS
    <3> HIDE DEF r
    <3>6. \A u \in Threads : th'[u] = IF u = "event" THEN r ELSE th[u]
      BY <3>4 DEF IInv, Shape
    <3>7. Shape'
      BY <3>1, <3>4, <3>5, <3>6 DEF IInv, Shape
    <3>8. AtWork' /\ ScriptRuns' /\ NullIsDown'
      BY <2>0, <3>1, <3>6, Names DEF AtWork, ScriptRuns, NullIsDown, Threads
    <3>9. LockHeldInCalls'
      BY <2>0, <3>5, <3>6, Names DEF IInv, LockHeldInCalls, InCall
    <3> QED BY <3>7, <3>8, <3>9 DEF IInv
  <2>2. CASE Stage("failed") /\ UNCHANGED th
    <3>1. app' = [stage |-> "failed", tries |-> app.tries, result |-> app.result]
      BY <2>2, <1>a, AppRecord
    <3> QED BY <2>0, <2>2, <3>1, Staging
  <2> QED BY <1>5, <2>1, <2>2 DEF CreateThread
<1>6. CASE SetCallbacks
  <2>1. app' = [stage |-> "up", tries |-> app.tries, result |-> "OK"]
    BY <1>6, <1>a DEF SetCallbacks
  <2>2. th["app"].pc = "off" /\ mutex # "null" /\ mutex' = mutex /\ th' = th
    BY <1>6 DEF SetCallbacks, IInv, AtWork, NullIsDown
  <2> QED BY <2>1, <2>2, Staging
<1>7. CASE InitFails
  <2>1. app' = [stage |-> "down", tries |-> 0, result |-> "ERROR"] /\ mutex' = "null" /\ th' = th
    BY <1>7 DEF InitFails, Terminated
  <2>2. \A t \in Threads : th[t].pc = "off"
    BY <1>7 DEF InitFails, IInv, AtWork, Threads
  <2> QED BY <2>1, <2>2, Names, Staging DEF Threads
<1>8. CASE CIMAX_Term
  <2>1. app' = [stage |-> "stopping", tries |-> app.tries, result |-> app.result]
    BY <1>8, <1>a, AppRecord DEF CIMAX_Term
  <2>2. \A t \in Clients : th[t].pc = "off"
    BY <1>8 DEF CIMAX_Term, Orderly
  <2>3. th["app"].pc = "off" /\ mutex # "null" /\ mutex' = mutex /\ th' = th
    BY <1>8 DEF CIMAX_Term, IInv, AtWork, NullIsDown
  <2> QED BY <2>1, <2>2, <2>3, Staging
<1>9. CASE TermEnds
  <2>1. app' = [stage |-> "down", tries |-> 0, result |-> "none"] /\ mutex' = "null" /\ th' = th
    BY <1>9 DEF TermEnds, Terminated
  <2>2. \A t \in Threads : th[t].pc = "off"
    BY <1>9 DEF TermEnds, IInv, AtWork, Threads, Orderly
  <2> QED BY <2>1, <2>2, Names, Staging DEF Threads
<1> QED BY <1>1, <1>2, <1>3, <1>4, <1>5, <1>6, <1>7, <1>8, <1>9 DEF Application

\* The steps of the clients, of the driver's thread and of the chip.
LEMMA OtherIInv ==
  ASSUME IInv, Tell \/ LeaveThread \/ Client \/ Environment
  PROVE  IInv'
<1>1. CASE Tell
  <2> DEFINE r == [pc |-> "run", todo |-> th["event"].todo,
                   ret |-> th["event"].ret, val |-> th["event"].val]
  <2>1. [th["event"] EXCEPT !.pc = "run"] = r
    BY ThreadRecord, Names DEF IInv, Shape
  <2>2. th' = [th EXCEPT !["event"] = [th["event"] EXCEPT !.pc = "run"]]
    BY <1>1 DEF Tell
  <2>3. th["event"].pc \in InCall /\ th["event"].pc # "off" /\ mutex' = "free" /\ app' = app
    BY <1>1 DEF Tell, InCall
  <2>4. r = [pc |-> r.pc, todo |-> r.todo, ret |-> r.ret, val |-> r.val] /\ r.pc = "run"
    OBVIOUS
  <2>5. th' = [th EXCEPT !["event"] = r]
    BY <2>1, <2>2
  <2> HIDE DEF r
  <2> QED BY <2>3, <2>4, <2>5, Leaving, Names
<1>2. CASE LeaveThread
  <2>1. th' = [th EXCEPT !["event"] = Idle] /\ mutex' = mutex /\ app' = app /\ th["event"].pc = "run"
    BY <1>2 DEF LeaveThread
  <2>2. Idle = [pc |-> Idle.pc, todo |-> Idle.todo, ret |-> Idle.ret, val |-> Idle.val]
        /\ Idle.pc = "off"
    BY DEF Idle
  <2> QED BY <2>1, <2>2, Leaving, Names
<1>3. CASE \E t \in Clients, call \in Calls : Enter(t, call)
  <2>1. PICK t \in Clients, call \in Calls : Enter(t, call)
    BY <1>3
  <2> DEFINE r == [pc |-> "run", todo |-> Script(call), ret |-> "none", val |-> {}]
  <2>2. th' = [th EXCEPT ![t] = r] /\ mutex' = mutex /\ app' = app
        /\ th[t].pc = "off" /\ app.stage = "up"
    BY <2>1 DEF Enter, Do
  <2>3. r = [pc |-> r.pc, todo |-> r.todo, ret |-> r.ret, val |-> r.val] /\ r.pc = "run"
    OBVIOUS
  <2> HIDE DEF r
  <2>4. \A u \in Threads : th'[u] = IF u = t THEN r ELSE th[u]
    BY <2>2 DEF IInv, Shape
  <2>5. Shape'
    BY <2>2, <2>3, <2>4 DEF IInv, Shape
  <2>6. t # "app" /\ t # "event" /\ t \in Threads
    BY Names DEF Threads
  <2>7. AtWork' /\ ScriptRuns' /\ NullIsDown'
    BY <2>2, <2>4, <2>6, Names DEF IInv, AtWork, ScriptRuns, NullIsDown, Threads
  <2>8. LockHeldInCalls'
    BY <2>2, <2>3, <2>4, <2>6 DEF IInv, LockHeldInCalls, InCall
  <2> QED BY <2>5, <2>7, <2>8 DEF IInv
<1>4. CASE UNCHANGED <<mutex, th, app>>
  BY <1>4 DEF IInv, Shape, AtWork, ScriptRuns, NullIsDown, LockHeldInCalls
<1> QED BY <1>1, <1>2, <1>3, <1>4 DEF Client, Environment, CIMAX_CAMDetect, Power, Plug, DataReady

LEMMA NextIInv ==
  ASSUME Orderly, IInv, [Next]_vars
  PROVE  IInv'
<1>1. CASE Next
  BY <1>1, ExchangeIInv, ApplicationIInv, OtherIInv DEF Next
<1>2. CASE UNCHANGED vars
  BY <1>2 DEF vars, IInv, Shape, AtWork, ScriptRuns, NullIsDown, LockHeldInCalls
<1> QED BY <1>1, <1>2

-----------------------------------------------------------------------------
\* In an orderly use the mutex of cimax.c is held from the command to the end
\* of its answer and at no other time, whichever way out a call takes, and no
\* two threads are between a command and its answer at once.
THEOREM CimaxLockHeldInCalls == Orderly => (Spec => []LockHeldInCalls)
<1> SUFFICES ASSUME Orderly PROVE Spec => []LockHeldInCalls
  OBVIOUS
<1>1. IInv => LockHeldInCalls
  BY DEF IInv
<1>2. IInv /\ [Next]_vars => IInv'
  BY NextIInv
<1> QED BY InitIInv, <1>1, <1>2, PTL DEF Spec

-----------------------------------------------------------------------------
(* Whose answer is whose.  An answer that missed its time-out is taken for *)
(* that of a later command; the chip has none of these as long as none was *)
(* late (Prompt), and until the first one since the chip was reset.        *)

\* No answer is late, or none has been since the chip was reset.
Prompt == "late" \notin Faults
Fresh == Prompt \/ ~chip.slip

\* The clients leave the slots their power.
PowerKept ==
  \A call \in Calls : call.op = "WriteRegister" /\ call.at = "CFG_1" => "vcc" \in call.val

\* The stages in which the firmware runs.
Up == {"cfg", "thread", "callbacks", "up", "stopping"}

\* Nothing of the driver is left.
AllReleased == mutex = "null" /\ ~drv.spi /\ \A t \in Threads : th[t].pc = "off"

\* Commands, answers and the records.
Values ==
  (UNION {call.val : call \in Calls}) \cup Slots
    \cup {"in", "torn", "image", "run", "ok", "lock", "vcc", "pcmcia", "chained", "closed", "open", "reset", "on"}
Places == Regs \cup Routers \cup Slots \cup {"none"}
Happenings == [op : {"Det", "Data"}, at : Slots, val : {{}, {"in"}}]

\* What is sent, what clients send, and what the chip answers.
Commands ==
  [op : {"W"} \cup Reads, at : Regs \cup Routers, val : SUBSET Values]
    \cup [op : CamOps, at : Slots, val : SUBSET Values] \cup {INIT}
ClientCmds ==
  {c \in Commands : c.op \notin {"INIT", "O"} /\ (c.op = "W" /\ c.at = "CFG_1" => "vcc" \in c.val)}

Answers ==
  [op : {"none", "W", "R", "INIT", "Nok", "Det", "Data", "NoEvt", "NoCam", "CamError"} \cup CamOps,
   at : Places, val : SUBSET Values]

\* The states of the chip and of the driver.
Chips ==
  [run : BOOLEAN, reg : [Regs \cup Routers -> SUBSET Values], cam : [Slots -> BOOLEAN],
   lpdu : SUBSET Values, out : Seq(Answers), events : Seq(Happenings),
   short : SUBSET Slots, slip : BOOLEAN]

Drivers ==
  [spi : BOOLEAN, stop : BOOLEAN, cb : BOOLEAN, inserted : [Slots -> BOOLEAN],
   CAM_Inserted : [Slots -> BOOLEAN], TSPassThrough : [Slots -> BOOLEAN]]

\* The types, and a thread with a call has a command left.
Typed ==
  /\ chip \in Chips /\ drv \in Drivers /\ buf \in Answers
  /\ th["app"].todo \in Seq(Commands)
  /\ \A t \in Clients : th[t].todo \in Seq(ClientCmds)
  /\ \A t \in Threads \ {"event"} : th[t].pc # "off" => th[t].todo # <<>>

\* What the stages of CIMAX_Init and CIMAX_Term mean for the driver.
StageFacts ==
  /\ app.stage = "down" => mutex = "null" /\ ~drv.spi
  /\ app.result = "ERROR" => app.stage = "down"
  /\ drv.stop => app.stage = "stopping"
  /\ app.stage \in {"callbacks", "up"} => th["event"].pc # "off"
  /\ app.stage \in Up => drv.spi
  /\ app.stage \in {"boot", "fw"} /\ (th["app"].pc \in InCall \/ th["app"].ret = "OK" \/ th["app"].val # {})
       => drv.spi
  /\ app.stage \in {"boot", "fw", "cfg", "thread"} => drv.inserted = NoFlag

\* The answer a thread waits for, once the chip has it or the thread has read it.
InHand(t) == th[t].pc = "got" \/ (th[t].pc = "wait" /\ chip.out # <<>>)
Hand(t) == IF th[t].pc = "got" THEN buf ELSE Head(chip.out)

\* The chip has an answer only while a thread waits for it, and no end of a
\* message is missing but that of the message being sent.
OneAnswer ==
  /\ Fresh /\ chip.out # <<>> =>
       mutex \in Threads /\ th[mutex].pc = "wait" /\ chip.out = <<Head(chip.out)>>
  /\ ~chip.slip /\ chip.short # {} =>
       mutex \in Threads /\ th[mutex].pc = "wait" /\ chip.out = <<>>

\* What an answer means for chip c: a register has the value, but for the power
\* that the chip switches on itself; a module was there, or was not, when asked.
Holds(c, at, val) ==
  \/ c.reg[at] = val
  \/ at = "CFG_1" /\ val \subseteq c.reg[at] /\ c.reg[at] \subseteq val \cup {"vcc"}

\* An event that waits in chip c says that slot s has a module, or has none.
Told(c, s, in) == \E i \in 1..Len(c.events) : c.events[i] = Det(s, in)

\* Answer a is accepted for cmd; what the chip has then done; and what an
\* answer means at all, refusals included.
Matches(cmd, a) ==
  \/ cmd.op \in Reads /\ a.op = "R" /\ a.at = cmd.at
  \/ cmd.op \notin Reads /\ a.op = cmd.op /\ a.at = cmd.at

Effect(c, cmd, a) ==
  /\ cmd.op = "W" => Holds(c, cmd.at, cmd.val)
  /\ cmd.op \in Reads => Holds(c, cmd.at, a.val)
  /\ cmd.op = "INIT" => c.run
  /\ cmd.op = "WriteLPDU" => c.lpdu = cmd.val
  /\ cmd.op \in CamOps \ {"WriteLPDU"} => c.cam[cmd.at] \/ Told(c, cmd.at, FALSE)

Means(c, cmd, a) ==
  /\ Matches(cmd, a) => Effect(c, cmd, a)
  /\ cmd.op \in CamOps /\ a.op = "NoCam" /\ a.at = cmd.at => ~c.cam[cmd.at] \/ Told(c, cmd.at, TRUE)

\* The answer a thread has in hand is to its own command.
AnswersMean ==
  \A t \in Threads \ {"event"} :
    InHand(t) /\ Fresh /\ (chip.slip => Cmd(t).op \notin CamOps) => Means(chip, Cmd(t), Hand(t))

\* The scripts of CIMAX_Init: the current one has not failed, so many commands
\* are left, and these are an end of the script, where the write that O makes
\* (Pcmcia) may stand in its place.
Progress == th["app"].pc # "off" \/ th["app"].ret = "OK"
Left == Len(th["app"].todo)
BootTodo == th["app"].todo \in {<<>>, <<R("BOOT_Status")>>}
FwTodo ==
  /\ \A i \in 1..Left : th["app"].todo[i].op \in {"W", "V", "INIT"}
  /\ Left > 0 => th["app"].todo[Left] = INIT

Pcmcia == W("CFG_1", {"vcc", "pcmcia"})
CfgTodo ==
  /\ Left \in 0..9
  /\ \A i \in 1..Left : \/ th["app"].todo[i] = Cfg[i + 9 - Left]
                        \/ Left = 4 /\ i = 1 /\ th["app"].todo[i] = Pcmcia

\* How far chip c is configured, with n commands left of which cmd is the next
\* and, if heard, a the answer to it.
CfgFacts(c, n, cmd, heard, a) ==
  /\ n = 7 => c.reg["CFG_2"] = {} /\ (heard /\ a.op = "W" => "vcc" \notin c.reg["CFG_1"])
  /\ n \in {5, 6} => c.reg["CFG_1"] \subseteq {"vcc"}
  /\ n = 4 => c.reg["CFG_1"] \subseteq {"vcc"} \cup IF cmd.op = "O" THEN {} ELSE {"pcmcia"}
  /\ n \in 0..5 => c.reg["CFG_2"] = {"lock"}
  /\ n \in 0..4 => "vcc" \in c.reg["CFG_1"]
  /\ n = 4 /\ cmd.op = "O" /\ heard /\ a.op = "R" => "vcc" \in a.val
  /\ n \in 0..3 => c.reg["CFG_1"] = {"vcc", "pcmcia"}
  /\ n \in 0..1 => c.reg["ROUTER"] = {}
  /\ n = 0 => c.reg["IN_SEL"] = {"open"}

CfgSoFar == CfgFacts(chip, Left, Cmd("app"), InHand("app"), Hand("app"))

\* What the scripts have left to do, and what the chip has of them.
ScriptFacts ==
  /\ app.stage = "boot" => BootTodo
  /\ app.stage = "fw" => FwTodo
  /\ Fresh /\ app.stage = "cfg" => CfgTodo /\ (Progress => CfgSoFar)

\* What the chip is in a stage.
Configured(c) ==
  /\ c.reg["CFG_2"] = {"lock"} /\ c.reg["CFG_1"] = {"vcc", "pcmcia"}
  /\ c.reg["ROUTER"] = {} /\ c.reg["IN_SEL"] = {"open"}

\* What the driver believes of the chip in a stage is true.
ChipFacts ==
  Fresh =>
    /\ app.stage \in Up => chip.run
    /\ app.stage \in {"down", "boot", "failed"} /\ chip.reg["BOOT_Status"] = {"ok"} => chip.run
    /\ app.stage = "boot" /\ th["app"].pc = "off" /\ th["app"].val = {"ok"} => chip.reg["BOOT_Status"] = {"ok"}
    /\ app.stage = "fw" /\ th["app"].pc = "off" /\ th["app"].ret = "OK" => chip.run
    /\ app.stage \in {"thread", "callbacks"} => Configured(chip)
    /\ app.stage = "up" => "vcc" \in chip.reg["CFG_1"]

\* The driver knows a module from the last event about its slot that is left,
\* from the one in hand if there is none, and else from its flag.
Silent(c, s) == ~Told(c, s, TRUE) /\ ~Told(c, s, FALSE)
LastSays(c, s, in) ==
  \E i \in 1..Len(c.events) :
    /\ c.events[i] = Det(s, in)
    /\ \A j \in (i + 1)..Len(c.events) : c.events[j] \notin {Det(s, TRUE), Det(s, FALSE)}
Tracks(c, s, heard, a, flag) ==
  \/ LastSays(c, s, c.cam[s])
  \/ Silent(c, s) /\ heard /\ a = Det(s, c.cam[s])
  \/ Silent(c, s) /\ (heard => a \notin {Det(s, TRUE), Det(s, FALSE)}) /\ flag = c.cam[s]

\* The slots have power, so that the chip tells of modules that come and go.
Powered ==
  \/ app.stage \in {"thread", "callbacks", "up"}
  \/ app.stage = "cfg" /\ Progress /\ Left <= 6 /\ "vcc" \in chip.reg["CFG_1"]

\* No event is lost: flag, event in hand and events left give the slots.
EventsTracked ==
  ~chip.slip =>
    /\ InHand("event") => Hand("event") \in Happenings \cup {[op |-> "NoEvt", at |-> "none", val |-> {}]}
    /\ Powered => \A s \in Slots : Tracks(chip, s, InHand("event"), Hand("event"), drv.inserted[s])

\* The invariant of the second half.
CInv ==
  /\ IInv /\ Typed /\ StageFacts
  /\ OneAnswer /\ AnswersMean /\ ScriptFacts /\ ChipFacts /\ EventsTracked

-----------------------------------------------------------------------------
\* The constants of commands and answers.
LEMMA Types ==
  /\ GetEvt \notin Commands /\ INIT \in Commands /\ INIT.op = "INIT" /\ GetEvt.op = "GetEvt"
  /\ \A cmd \in Commands :
       /\ cmd.op \in {"W", "INIT"} \cup Reads \cup CamOps
       /\ cmd.op \in {"W"} \cup Reads => cmd.at \in Regs \cup Routers
       /\ cmd.op \in CamOps => cmd.at \in Slots
       /\ cmd.op = "INIT" => cmd = INIT
       /\ cmd.at \in Places /\ cmd.val \in SUBSET Values
  BY DEF Commands, INIT, GetEvt, Reads, CamOps, Places

\* What EXCEPT makes of the fields of the chip.
LEMMA AnswerFields ==
  ASSUME NEW c \in Chips, NEW a \in Answers
  PROVE  /\ Answer(c, a) \in Chips
         /\ Answer(c, a).out = Append(c.out, a) /\ Answer(c, a).run = c.run /\ Answer(c, a).reg = c.reg
         /\ Answer(c, a).cam = c.cam /\ Answer(c, a).lpdu = c.lpdu /\ Answer(c, a).events = c.events
         /\ Answer(c, a).short = c.short /\ Answer(c, a).slip = c.slip
  <1> DEFINE q == Append(c.out, a)
  <1>1. q \in Seq(Answers)
    BY DEF Chips
  <1>2. Answer(c, a) = [c EXCEPT !.out = q]
    BY DEF Answer
  <1> HIDE DEF q
  <1>3. /\ Answer(c, a) \in Chips /\ Answer(c, a).out = q
        /\ Answer(c, a).run = c.run /\ Answer(c, a).reg = c.reg
        /\ Answer(c, a).cam = c.cam /\ Answer(c, a).lpdu = c.lpdu /\ Answer(c, a).events = c.events
        /\ Answer(c, a).short = c.short /\ Answer(c, a).slip = c.slip
    BY <1>1, <1>2 DEF Chips
  <1> QED BY <1>3 DEF q

\* Every answer the chip gives is one.
LEMMA AnswerTypes ==
  /\ \A s \in Slots : [op |-> "WriteLPDU", at |-> s, val |-> {}] \in Answers
  /\ \A cmd \in Commands :
       /\ cmd.op = "W" => [cmd EXCEPT !.val = {}] \in Answers
                          /\ [cmd EXCEPT !.val = {}] = [op |-> "W", at |-> cmd.at, val |-> {}]
       /\ cmd.op \in Reads => \A v \in SUBSET Values : [op |-> "R", at |-> cmd.at, val |-> v] \in Answers
       /\ cmd.op = "INIT" => cmd \in Answers /\ [cmd EXCEPT !.op = "Nok"] \in Answers
                             /\ [cmd EXCEPT !.op = "Nok"] = [op |-> "Nok", at |-> "none", val |-> {}]
       /\ cmd.op \in CamOps => \A op \in {"NoCam", "CamError", cmd.op} : [op |-> op, at |-> cmd.at, val |-> {}] \in Answers
  /\ [op |-> "NoEvt", at |-> "none", val |-> {}] \in Answers /\ Happenings \subseteq Answers
  <1>1. \A s \in Slots : [op |-> "WriteLPDU", at |-> s, val |-> {}] \in Answers
    BY DEF Answers, Places, CamOps
  <1>2. ASSUME NEW cmd \in Commands, cmd.op = "W"
        PROVE  [cmd EXCEPT !.val = {}] \in Answers /\ [cmd EXCEPT !.val = {}] = [op |-> "W", at |-> cmd.at, val |-> {}]
    BY <1>2 DEF Commands, Answers, Places, Reads, CamOps, INIT
  <1>3. ASSUME NEW cmd \in Commands, cmd.op \in Reads, NEW v \in SUBSET Values
        PROVE  [op |-> "R", at |-> cmd.at, val |-> v] \in Answers
    BY <1>3, Types DEF Answers
  <1>4. ASSUME NEW cmd \in Commands, cmd.op = "INIT"
        PROVE  cmd \in Answers /\ [cmd EXCEPT !.op = "Nok"] \in Answers
               /\ [cmd EXCEPT !.op = "Nok"] = [op |-> "Nok", at |-> "none", val |-> {}]
    <2>1. cmd = INIT
      BY <1>4, Types
    <2>2. INIT \in Answers /\ [op |-> "Nok", at |-> "none", val |-> {}] \in Answers
      BY DEF Answers, Places, INIT
    <2>3. [INIT EXCEPT !.op = "Nok"] = [op |-> "Nok", at |-> "none", val |-> {}]
      BY DEF INIT
    <2> QED BY <2>1, <2>2, <2>3
  <1>5. ASSUME NEW cmd \in Commands, cmd.op \in CamOps, NEW op \in {"NoCam", "CamError", cmd.op}
        PROVE  [op |-> op, at |-> cmd.at, val |-> {}] \in Answers
    BY <1>5, Types DEF Answers
  <1>6. [op |-> "NoEvt", at |-> "none", val |-> {}] \in Answers /\ Happenings \subseteq Answers
    <2>1. [op |-> "NoEvt", at |-> "none", val |-> {}] \in Answers
      BY DEF Answers, Places
    <2>2. "in" \in Values /\ Slots \subseteq Places
      BY DEF Values, Places
    <2>3. ASSUME NEW h \in Happenings PROVE h \in Answers
      BY <2>2 DEF Happenings, Answers
    <2> QED BY <2>1, <2>3
  <1> QED BY <1>1, <1>2, <1>3, <1>4, <1>5, <1>6

\* What the chip makes of a register's write: the register, and the state of
\* the boot once its self-test is started.
LEMMA ServedWrite ==
  ASSUME NEW c \in Chips, NEW cmd \in Commands, cmd.op = "W", c.short = {}, NEW d \in Served(c, cmd)
  PROVE  /\ d \in Chips /\ d.out = Append(c.out, [op |-> "W", at |-> cmd.at, val |-> {}])
         /\ d.run = c.run /\ d.cam = c.cam /\ d.lpdu = c.lpdu /\ d.events = c.events
         /\ d.short = c.short /\ d.slip = c.slip
         /\ d.reg[cmd.at] = cmd.val
         /\ \A r \in (Regs \cup Routers) \ {cmd.at} : r # "BOOT_Status" \/ cmd.at # "bist" => d.reg[r] = c.reg[r]
  <1> DEFINE a == [op |-> "W", at |-> cmd.at, val |-> {}]
             reg1 == Written(c.reg, cmd)
             e == [c EXCEPT !.reg = reg1]
  <1>1. cmd.op # "INIT" /\ cmd.op \notin Reads /\ cmd.op \notin CamOps /\ cmd.at \in Regs \cup Routers /\ cmd.val \in SUBSET Values
    BY Types DEF Reads, CamOps
  <1>2. a \in Answers /\ [cmd EXCEPT !.val = {}] = a
    BY AnswerTypes
  <1>3. c.reg \in [Regs \cup Routers -> SUBSET Values]
    BY DEF Chips
  <1>4. Checked(c.reg) \in SUBSET Values /\ "BOOT_Status" \in Regs /\ "bist" \in Regs
    BY DEF Checked, Values, Regs
  <1>5. reg1 \in [Regs \cup Routers -> SUBSET Values] /\ reg1[cmd.at] = cmd.val
        /\ \A r \in (Regs \cup Routers) \ {cmd.at} : r # "BOOT_Status" \/ cmd.at # "bist" => reg1[r] = c.reg[r]
    <2> DEFINE m == [c.reg EXCEPT ![cmd.at] = cmd.val]
               v == IF cmd.at = "bist" THEN Checked(c.reg) ELSE m["BOOT_Status"]
    <2>1. m \in [Regs \cup Routers -> SUBSET Values] /\ m[cmd.at] = cmd.val
          /\ \A r \in (Regs \cup Routers) \ {cmd.at} : m[r] = c.reg[r]
      BY <1>1, <1>3
    <2>2. reg1 = [m EXCEPT !["BOOT_Status"] = v]
      BY DEF Written
    <2>3. v \in SUBSET Values /\ (cmd.at # "bist" => v = m["BOOT_Status"])
      BY <1>4, <2>1
    <2> HIDE DEF m, v
    <2> QED BY <1>1, <1>4, <2>1, <2>2, <2>3
  <1> HIDE DEF reg1
  <1>8. e \in Chips /\ e.reg = reg1 /\ e.run = c.run /\ e.cam = c.cam /\ e.lpdu = c.lpdu
        /\ e.events = c.events /\ e.short = c.short /\ e.slip = c.slip /\ e.out = c.out
    BY <1>5 DEF Chips
  <1>9. d = Answer(e, a)
    BY <1>1, <1>2 DEF Served, Reads, reg1
  <1> HIDE DEF e, a
  <1>10. /\ d \in Chips /\ d.out = Append(c.out, a) /\ d.reg = reg1
         /\ d.run = c.run /\ d.cam = c.cam /\ d.lpdu = c.lpdu /\ d.events = c.events
         /\ d.short = c.short /\ d.slip = c.slip
    BY <1>2, <1>8, <1>9, AnswerFields
  <1> QED BY <1>5, <1>10 DEF a

\* What it makes of the other commands that find no end of a message missing.
LEMMA ServedRead ==
  ASSUME NEW c \in Chips, NEW cmd \in Commands, cmd.op \in Reads, c.short = {}, NEW d \in Served(c, cmd)
  PROVE  /\ d \in Chips /\ d.out = Append(c.out, [op |-> "R", at |-> cmd.at, val |-> c.reg[cmd.at]])
         /\ d.run = c.run /\ d.cam = c.cam /\ d.lpdu = c.lpdu /\ d.events = c.events
         /\ d.short = c.short /\ d.slip = c.slip /\ d.reg = c.reg
  <1> DEFINE a == [op |-> "R", at |-> cmd.at, val |-> c.reg[cmd.at]]
  <1>1. cmd.op \notin {"INIT", "W", "GetEvt"} /\ cmd.op \notin CamOps /\ cmd.at \in Regs \cup Routers
    BY Types DEF Reads, CamOps
  <1>2. c.reg[cmd.at] \in SUBSET Values
    BY <1>1 DEF Chips
  <1>3. a \in Answers
    BY <1>2, AnswerTypes
  <1> HIDE DEF a
  <1>4. d = Answer(c, a)
    BY <1>1 DEF Served, a
  <1> QED BY <1>3, <1>4, AnswerFields DEF a

LEMMA ServedINIT ==
  ASSUME NEW c \in Chips, c.short = {}, NEW d \in Served(c, INIT)
  PROVE  /\ d \in Chips /\ d.cam = c.cam /\ d.lpdu = c.lpdu /\ d.events = c.events
         /\ d.short = c.short /\ d.slip = c.slip /\ d.reg = c.reg
         /\ \/ d.run /\ d.out = Append(c.out, INIT)
            \/ d.run = c.run /\ d.out = Append(c.out, [op |-> "Nok", at |-> "none", val |-> {}])
  <1>0. INIT \in Commands /\ INIT.op = "INIT" /\ "INIT" \notin Reads \cup CamOps
    BY Types DEF Reads, CamOps
  <1>1. INIT \in Answers /\ [INIT EXCEPT !.op = "Nok"] \in Answers
        /\ [INIT EXCEPT !.op = "Nok"] = [op |-> "Nok", at |-> "none", val |-> {}]
    BY <1>0, AnswerTypes
  <1>2. CASE c.reg["BOOT_Status"] = {"ok"}
    <2> DEFINE e == [c EXCEPT !.run = TRUE]
    <2>1. e \in Chips /\ e.run /\ e.reg = c.reg /\ e.cam = c.cam /\ e.lpdu = c.lpdu
          /\ e.events = c.events /\ e.short = c.short /\ e.slip = c.slip /\ e.out = c.out
      BY DEF Chips
    <2>2. d = Answer(e, INIT)
      BY <1>0, <1>2 DEF Served
    <2> HIDE DEF e
    <2>3. /\ d \in Chips /\ d.out = Append(e.out, INIT) /\ d.run = e.run /\ d.reg = e.reg
          /\ d.cam = e.cam /\ d.lpdu = e.lpdu /\ d.events = e.events
          /\ d.short = e.short /\ d.slip = e.slip
      BY <1>1, <2>1, <2>2, AnswerFields
    <2> QED BY <2>1, <2>3
  <1>3. CASE c.reg["BOOT_Status"] # {"ok"}
    <2>1. d = Answer(c, [INIT EXCEPT !.op = "Nok"])
      BY <1>0, <1>3 DEF Served
    <2> DEFINE a == [INIT EXCEPT !.op = "Nok"]
    <2>2. a \in Answers /\ d = Answer(c, a)
      BY <1>1, <2>1
    <2>3. a = [op |-> "Nok", at |-> "none", val |-> {}]
      BY <1>1
    <2> HIDE DEF a
    <2>4. /\ d \in Chips /\ d.out = Append(c.out, a) /\ d.run = c.run /\ d.reg = c.reg
          /\ d.cam = c.cam /\ d.lpdu = c.lpdu /\ d.events = c.events
          /\ d.short = c.short /\ d.slip = c.slip
      BY <2>2, AnswerFields
    <2> QED BY <2>3, <2>4
  <1> QED BY <1>2, <1>3

LEMMA ServedGetEvt ==
  ASSUME NEW c \in Chips, c.short = {}, NEW d \in Served(c, GetEvt)
  PROVE  /\ d \in Chips /\ d.cam = c.cam /\ d.lpdu = c.lpdu /\ d.run = c.run
         /\ d.short = c.short /\ d.slip = c.slip /\ d.reg = c.reg
         /\ \/ c.events = <<>> /\ d.events = <<>>
               /\ d.out = Append(c.out, [op |-> "NoEvt", at |-> "none", val |-> {}])
            \/ c.events # <<>> /\ d.events = Tail(c.events) /\ d.out = Append(c.out, Head(c.events))
  <1> DEFINE evs == IF c.events = <<>> THEN c.events ELSE Tail(c.events)
             e == [c EXCEPT !.events = evs]
  <1>0. GetEvt.op = "GetEvt" /\ "GetEvt" \notin Reads \cup CamOps
    BY Types DEF Reads, CamOps
  <1>1. c.events \in Seq(Happenings) /\ (c.events # <<>> => Head(c.events) \in Happenings)
    BY DEF Chips
  <1>2. evs \in Seq(Happenings)
    BY <1>1
  <1>3. [c EXCEPT !.events = IF @ = <<>> THEN @ ELSE Tail(@)] = e
    BY DEF Chips
  <1>s. c.events # <<>> => evs = Tail(c.events)
    OBVIOUS
  <1>t. c.events = <<>> => evs = <<>>
    OBVIOUS
  <1> HIDE DEF evs
  <1>4. e \in Chips /\ e.reg = c.reg /\ e.run = c.run /\ e.cam = c.cam /\ e.lpdu = c.lpdu
        /\ e.events = evs /\ e.short = c.short /\ e.slip = c.slip /\ e.out = c.out
    BY <1>2 DEF Chips
  <1> HIDE DEF e
  <1>5. Event(c) \in Answers
    BY <1>1, AnswerTypes DEF Event
  <1>6. d = Answer(e, Event(c))
    BY <1>0, <1>3 DEF Served
  <1>7. /\ d \in Chips /\ d.cam = c.cam /\ d.lpdu = c.lpdu /\ d.run = c.run
        /\ d.short = c.short /\ d.slip = c.slip /\ d.reg = c.reg
        /\ d.events = evs /\ d.out = Append(c.out, Event(c))
    BY <1>4, <1>5, <1>6, AnswerFields
  <1> QED BY <1>7, <1>s, <1>t DEF Event

\* What the chip makes of a command for a module: the module is not there, it
\* refuses, it waits for the end of the message, or it does what it was asked.
LEMMA ServedCam ==
  ASSUME NEW c \in Chips, NEW cmd \in Commands, cmd.op \in CamOps, c.short = {}, NEW d \in Served(c, cmd)
  PROVE  /\ d \in Chips /\ d.run = c.run /\ d.reg = c.reg /\ d.cam = c.cam /\ d.events = c.events /\ d.slip = c.slip
         /\ \/ /\ ~c.cam[cmd.at] /\ d.lpdu = c.lpdu /\ d.short = {}
               /\ d.out = Append(c.out, [op |-> "NoCam", at |-> cmd.at, val |-> {}])
            \/ /\ c.cam[cmd.at] /\ d.lpdu = c.lpdu /\ d.short = {}
               /\ d.out = Append(c.out, [op |-> "CamError", at |-> cmd.at, val |-> {}])
            \/ c.cam[cmd.at] /\ d.lpdu = c.lpdu /\ cmd.op = "WriteLPDU" /\ d.out = c.out
            \/ /\ c.cam[cmd.at] /\ (cmd.op = "WriteLPDU" => d.lpdu = cmd.val) /\ d.short = {}
               /\ d.out = Append(c.out, [op |-> cmd.op, at |-> cmd.at, val |-> {}])
  <1> DEFINE lpdu == IF cmd.op = "WriteLPDU" THEN cmd.val ELSE c.lpdu
             e == [c EXCEPT !.lpdu = lpdu]
             f == [c EXCEPT !.short = {cmd.at}]
             no == [op |-> "NoCam", at |-> cmd.at, val |-> {}]
             err == [op |-> "CamError", at |-> cmd.at, val |-> {}]
             ans == [op |-> cmd.op, at |-> cmd.at, val |-> {}]
  <1>1. cmd.op \notin {"INIT", "W", "GetEvt"} /\ cmd.op \notin Reads /\ cmd.at \in Slots /\ cmd.val \in SUBSET Values
    BY Types DEF Reads, CamOps
  <1>2. no \in Answers /\ err \in Answers /\ ans \in Answers
    BY AnswerTypes
  <1>3. lpdu \in SUBSET Values
    BY <1>1 DEF Chips
  <1>l. cmd.op = "WriteLPDU" => lpdu = cmd.val
    OBVIOUS
  <1>4. [c EXCEPT !.lpdu = IF cmd.op = "WriteLPDU" THEN cmd.val ELSE @] = e
    BY DEF Chips
  <1> HIDE DEF lpdu
  <1>5. /\ e \in Chips /\ e.run = c.run /\ e.reg = c.reg /\ e.cam = c.cam /\ e.events = c.events
        /\ e.short = c.short /\ e.slip = c.slip /\ e.out = c.out /\ e.lpdu = lpdu
    BY <1>3 DEF Chips
  <1>6. /\ f \in Chips /\ f.run = c.run /\ f.reg = c.reg /\ f.cam = c.cam /\ f.events = c.events
        /\ f.slip = c.slip /\ f.out = c.out /\ f.lpdu = c.lpdu
    BY <1>1 DEF Chips
  <1> HIDE DEF e, f, no, err, ans
  <1>7. \/ ~c.cam[cmd.at] /\ d = Answer(c, no)
        \/ c.cam[cmd.at] /\ d = Answer(c, err)
        \/ c.cam[cmd.at] /\ cmd.op = "WriteLPDU" /\ d = f
        \/ c.cam[cmd.at] /\ d = Answer(e, ans)
    BY <1>1, <1>4 DEF Served, e, f, no, err, ans
  <1>8. CASE ~c.cam[cmd.at] /\ d = Answer(c, no)
    <2>1. /\ d \in Chips /\ d.out = Append(c.out, no) /\ d.run = c.run /\ d.reg = c.reg
          /\ d.cam = c.cam /\ d.lpdu = c.lpdu /\ d.events = c.events
          /\ d.short = c.short /\ d.slip = c.slip
      BY <1>2, <1>8, AnswerFields
    <2> QED BY <1>8, <2>1 DEF no
  <1>9. CASE c.cam[cmd.at] /\ d = Answer(c, err)
    <2>1. /\ d \in Chips /\ d.out = Append(c.out, err) /\ d.run = c.run /\ d.reg = c.reg
          /\ d.cam = c.cam /\ d.lpdu = c.lpdu /\ d.events = c.events
          /\ d.short = c.short /\ d.slip = c.slip
      BY <1>2, <1>9, AnswerFields
    <2> QED BY <1>9, <2>1 DEF err
  <1>10. CASE c.cam[cmd.at] /\ cmd.op = "WriteLPDU" /\ d = f
    BY <1>6, <1>10
  <1>11. CASE c.cam[cmd.at] /\ d = Answer(e, ans)
    <2>1. /\ d \in Chips /\ d.out = Append(e.out, ans) /\ d.run = e.run /\ d.reg = e.reg
          /\ d.cam = e.cam /\ d.lpdu = e.lpdu /\ d.events = e.events
          /\ d.short = e.short /\ d.slip = e.slip
      BY <1>2, <1>5, <1>11, AnswerFields
    <2>2. cmd.op = "WriteLPDU" => d.lpdu = cmd.val
      BY <1>5, <1>l, <2>1
    <2> QED BY <1>5, <1>11, <2>1, <2>2 DEF ans
  <1> QED BY <1>7, <1>8, <1>9, <1>10, <1>11

\* A command that is taken for the end of a message.
LEMMA ServedTorn ==
  ASSUME NEW c \in Chips, NEW cmd, c.short # {}, NEW d \in Served(c, cmd)
  PROVE  /\ d \in Chips /\ d.run = c.run /\ d.reg = c.reg /\ d.cam = c.cam /\ d.events = c.events /\ d.slip = c.slip
         /\ \E s \in Slots : d.out = Append(c.out, [op |-> "WriteLPDU", at |-> s, val |-> {}])
  <1> DEFINE e1 == [c EXCEPT !.short = {}]
             e == [c EXCEPT !.short = {}, !.lpdu = {"torn"}]
  <1>1. PICK s \in c.short : d = Answer(e, [op |-> "WriteLPDU", at |-> s, val |-> {}])
    BY DEF Served
  <1>2. s \in Slots
    BY DEF Chips
  <1>3. {"torn"} \in SUBSET Values
    BY DEF Values
  <1>4. /\ e1 \in Chips /\ e1.run = c.run /\ e1.reg = c.reg /\ e1.cam = c.cam /\ e1.events = c.events
        /\ e1.slip = c.slip /\ e1.out = c.out
    BY DEF Chips
  <1>5. e = [e1 EXCEPT !.lpdu = {"torn"}]
    OBVIOUS
  <1> HIDE DEF e1, e
  <1>6. /\ e \in Chips /\ e.run = c.run /\ e.reg = c.reg /\ e.cam = c.cam /\ e.events = c.events
        /\ e.slip = c.slip /\ e.out = c.out
    BY <1>3, <1>4, <1>5 DEF Chips
  <1> DEFINE a == [op |-> "WriteLPDU", at |-> s, val |-> {}]
  <1>7. a \in Answers /\ d = Answer(e, a)
    BY <1>1, <1>2, AnswerTypes
  <1> HIDE DEF a
  <1>8. /\ d \in Chips /\ d.out = Append(e.out, a) /\ d.run = e.run /\ d.reg = e.reg
        /\ d.cam = e.cam /\ d.events = e.events /\ d.slip = e.slip
    BY <1>6, <1>7, AnswerFields
  <1> QED BY <1>2, <1>6, <1>8 DEF a

\* Of the chip's state a command changes at most the registers and what runs,
\* takes at most the first event, and gives at most one answer.
LEMMA ServedFacts ==
  ASSUME NEW c \in Chips, NEW cmd \in Commands \cup {GetEvt}, NEW d \in Served(c, cmd)
  PROVE  /\ d \in Chips /\ (c.run => d.run) /\ d.cam = c.cam /\ d.slip = c.slip
         /\ d.out = c.out \/ \E a \in Answers : d.out = Append(c.out, a)
         /\ c.short = {} /\ d.short # {} => d.out = c.out
         /\ cmd.op # "GetEvt" => d.events = c.events
         /\ cmd.op # "W" => d.reg = c.reg
         /\ c.short # {} => d.reg = c.reg
  <1>1. cmd \in Commands \/ cmd = GetEvt
    OBVIOUS
  <1>2. CASE c.short # {}
    <2>1. /\ d \in Chips /\ d.run = c.run /\ d.reg = c.reg /\ d.cam = c.cam /\ d.events = c.events
          /\ d.slip = c.slip /\ \E s \in Slots : d.out = Append(c.out, [op |-> "WriteLPDU", at |-> s, val |-> {}])
      BY <1>2, ServedTorn
    <2>2. PICK s \in Slots : d.out = Append(c.out, [op |-> "WriteLPDU", at |-> s, val |-> {}])
      BY <2>1
    <2>3. [op |-> "WriteLPDU", at |-> s, val |-> {}] \in Answers
      BY AnswerTypes
    <2> QED BY <1>2, <2>1, <2>2, <2>3
  <1>3. CASE c.short = {} /\ cmd = GetEvt
    <2>1. c.events # <<>> => Head(c.events) \in Answers
      <3>1. c.events \in Seq(Happenings) /\ Happenings \subseteq Answers
        BY AnswerTypes DEF Chips
      <3> QED BY <3>1
    <2>2. cmd.op = "GetEvt" /\ [op |-> "NoEvt", at |-> "none", val |-> {}] \in Answers
      BY <1>3, Types, AnswerTypes
    <2>3. /\ d \in Chips /\ d.cam = c.cam /\ d.run = c.run /\ d.short = c.short /\ d.slip = c.slip /\ d.reg = c.reg
          /\ d.out = Append(c.out, [op |-> "NoEvt", at |-> "none", val |-> {}])
             \/ (c.events # <<>> /\ d.out = Append(c.out, Head(c.events)))
      BY <1>3, ServedGetEvt
    <2>4. \E a \in Answers : d.out = Append(c.out, a)
      BY <2>1, <2>2, <2>3
    <2> QED BY <1>3, <2>2, <2>3, <2>4
  <1>4. CASE c.short = {} /\ cmd \in Commands
    <2>1. cmd.op \in {"W", "INIT"} \cup Reads \cup CamOps /\ cmd.op # "GetEvt" /\ (cmd.op = "INIT" => cmd = INIT)
          /\ cmd.at \in Places /\ (cmd.op \in Reads => cmd.at \in Regs \cup Routers)
      BY <1>4, Types DEF Reads, CamOps
    <2>2. CASE cmd.op = "W"
      <3>1. [op |-> "W", at |-> cmd.at, val |-> {}] \in Answers
        BY <1>4, <2>2, AnswerTypes
      <3>2. /\ d \in Chips /\ d.out = Append(c.out, [op |-> "W", at |-> cmd.at, val |-> {}])
            /\ d.run = c.run /\ d.cam = c.cam /\ d.events = c.events
            /\ d.short = c.short /\ d.slip = c.slip
        BY <1>4, <2>2, ServedWrite
      <3> QED BY <1>4, <2>2, <3>1, <3>2
    <2>3. CASE cmd.op = "INIT"
      <3>1. INIT \in Answers /\ [op |-> "Nok", at |-> "none", val |-> {}] \in Answers
        BY AnswerTypes, Types
      <3>2. /\ d \in Chips /\ d.cam = c.cam /\ d.events = c.events
            /\ d.short = c.short /\ d.slip = c.slip /\ d.reg = c.reg /\ (c.run => d.run)
            /\ \/ d.out = Append(c.out, INIT)
               \/ d.out = Append(c.out, [op |-> "Nok", at |-> "none", val |-> {}])
        BY <1>4, <2>1, <2>3, ServedINIT
      <3> QED BY <1>4, <2>3, <3>1, <3>2
    <2>4. CASE cmd.op \in Reads
      <3>1. c.reg[cmd.at] \in SUBSET Values
        BY <2>1, <2>4 DEF Chips
      <3>2. [op |-> "R", at |-> cmd.at, val |-> c.reg[cmd.at]] \in Answers
        BY <1>4, <2>4, <3>1, AnswerTypes
      <3>3. /\ d \in Chips /\ d.out = Append(c.out, [op |-> "R", at |-> cmd.at, val |-> c.reg[cmd.at]])
            /\ d.run = c.run /\ d.cam = c.cam /\ d.events = c.events
            /\ d.short = c.short /\ d.slip = c.slip /\ d.reg = c.reg
        BY <1>4, <2>4, ServedRead
      <3> QED BY <1>4, <3>2, <3>3
    <2>5. CASE cmd.op \in CamOps
      <3>1. /\ [op |-> "NoCam", at |-> cmd.at, val |-> {}] \in Answers
            /\ [op |-> "CamError", at |-> cmd.at, val |-> {}] \in Answers
            /\ [op |-> cmd.op, at |-> cmd.at, val |-> {}] \in Answers
        BY <1>4, <2>5, AnswerTypes
      <3>2. /\ d \in Chips /\ d.run = c.run /\ d.reg = c.reg /\ d.cam = c.cam /\ d.events = c.events /\ d.slip = c.slip
            /\ \/ d.short = {} /\ d.out = Append(c.out, [op |-> "NoCam", at |-> cmd.at, val |-> {}])
               \/ d.short = {} /\ d.out = Append(c.out, [op |-> "CamError", at |-> cmd.at, val |-> {}])
               \/ d.out = c.out
               \/ d.short = {} /\ d.out = Append(c.out, [op |-> cmd.op, at |-> cmd.at, val |-> {}])
        BY <1>4, <2>5, ServedCam
      <3> QED BY <1>4, <3>1, <3>2
    <2> QED BY <2>1, <2>2, <2>3, <2>4, <2>5
  <1> QED BY <1>1, <1>2, <1>3, <1>4

\* The answer the chip gives to a command means what it says.
LEMMA ServedMeans ==
  ASSUME NEW c \in Chips, NEW cmd \in Commands, NEW d \in Served(c, cmd),
         c.out = <<>>, d.out # <<>>, c.short # {} => cmd.op \notin CamOps
  PROVE  Means(d, cmd, Head(d.out))
  <1> DEFINE a == Head(d.out)
  <1>0. \A x : Head(Append(<<>>, x)) = x
    OBVIOUS
  <1>1. cmd.op \in {"W", "INIT"} \cup Reads \cup CamOps /\ (cmd.op = "INIT" => cmd = INIT)
    BY Types
  <1>t. "WriteLPDU" \in CamOps /\ "ReadStatus" \in CamOps /\ "WriteLPDU" \notin Reads
    BY DEF CamOps, Reads
  <1>2. CASE c.short # {}
    <2>1. a.op = "WriteLPDU"
      <3>1. PICK s \in Slots : d.out = Append(<<>>, [op |-> "WriteLPDU", at |-> s, val |-> {}])
        BY <1>2, ServedTorn
      <3> QED BY <1>0, <3>1
    <2> HIDE DEF a
    <2>2. cmd.op \notin CamOps
      BY <1>2
    <2>3. ~Matches(cmd, a)
      BY <2>1, <2>2, <1>t DEF Matches, Reads, CamOps
    <2>4. Means(d, cmd, a)
      BY <2>2, <2>3 DEF Means
    <2> QED BY <2>4 DEF a
  <1>3. CASE c.short = {} /\ cmd.op = "W"
    <2>1. d.reg[cmd.at] = cmd.val
      BY <1>3, ServedWrite
    <2>2. cmd.op \notin Reads \cup CamOps \cup {"INIT", "WriteLPDU"}
      BY <1>3 DEF Reads, CamOps
    <2>3. Means(d, cmd, a)
      BY <2>1, <2>2 DEF Means, Effect, Holds
    <2> QED BY <2>3
  <1>4. CASE c.short = {} /\ cmd.op = "INIT"
    <2>1. (d.run /\ a = INIT) \/ a = [op |-> "Nok", at |-> "none", val |-> {}]
      BY <1>0, <1>1, <1>4, ServedINIT
    <2> HIDE DEF a
    <2>2. cmd.op \notin Reads \cup CamOps \cup {"W", "WriteLPDU", "ReadStatus"}
      BY <1>4 DEF Reads, CamOps
    <2>3. Matches(cmd, a) => d.run
      BY <1>4, <2>1, <2>2 DEF Matches
    <2>4. Means(d, cmd, a)
      BY <2>2, <2>3 DEF Means, Effect
    <2> QED BY <2>4 DEF a
  <1>5. CASE c.short = {} /\ cmd.op \in Reads
    <2>1. a = [op |-> "R", at |-> cmd.at, val |-> c.reg[cmd.at]] /\ d.reg = c.reg
      BY <1>0, <1>5, ServedRead
    <2> HIDE DEF a
    <2>2. cmd.op \notin CamOps \cup {"W", "WriteLPDU", "INIT"}
      BY <1>5 DEF Reads, CamOps
    <2>3. Holds(d, cmd.at, a.val)
      BY <2>1 DEF Holds
    <2>4. Means(d, cmd, a)
      BY <2>2, <2>3 DEF Means, Effect
    <2> QED BY <2>4 DEF a
  <1>6. CASE c.short = {} /\ cmd.op \in CamOps
    <2>1. /\ d.cam = c.cam
          /\ \/ ~c.cam[cmd.at] /\ a = [op |-> "NoCam", at |-> cmd.at, val |-> {}]
             \/ c.cam[cmd.at] /\ a = [op |-> "CamError", at |-> cmd.at, val |-> {}]
             \/ c.cam[cmd.at] /\ (cmd.op = "WriteLPDU" => d.lpdu = cmd.val)
                  /\ a = [op |-> cmd.op, at |-> cmd.at, val |-> {}]
      <3>1. /\ d.cam = c.cam
            /\ \/ ~c.cam[cmd.at] /\ d.out = Append(<<>>, [op |-> "NoCam", at |-> cmd.at, val |-> {}])
               \/ c.cam[cmd.at] /\ d.out = Append(<<>>, [op |-> "CamError", at |-> cmd.at, val |-> {}])
               \/ /\ c.cam[cmd.at] /\ (cmd.op = "WriteLPDU" => d.lpdu = cmd.val)
                  /\ d.out = Append(<<>>, [op |-> cmd.op, at |-> cmd.at, val |-> {}])
        <4>1. /\ d.cam = c.cam
              /\ \/ ~c.cam[cmd.at] /\ d.out = Append(c.out, [op |-> "NoCam", at |-> cmd.at, val |-> {}])
                 \/ c.cam[cmd.at] /\ d.out = Append(c.out, [op |-> "CamError", at |-> cmd.at, val |-> {}])
                 \/ d.out = c.out
                 \/ /\ c.cam[cmd.at] /\ (cmd.op = "WriteLPDU" => d.lpdu = cmd.val)
                    /\ d.out = Append(c.out, [op |-> cmd.op, at |-> cmd.at, val |-> {}])
          BY <1>6, ServedCam
        <4> QED BY <4>1
      <3> QED BY <1>0, <3>1
    <2> HIDE DEF a
    <2>2. cmd.op \notin Reads \cup {"W", "INIT", "NoCam", "CamError"}
      BY <1>6 DEF Reads, CamOps
    <2>3. Matches(cmd, a) => c.cam[cmd.at] /\ (cmd.op = "WriteLPDU" => d.lpdu = cmd.val)
      BY <2>1, <2>2 DEF Matches
    <2>4. a.op = "NoCam" => ~c.cam[cmd.at]
      BY <2>1, <2>2
    <2>5. Means(d, cmd, a)
      BY <2>1, <2>2, <2>3, <2>4 DEF Means, Effect
    <2> QED BY <2>5 DEF a
  <1> QED BY <1>1, <1>2, <1>3, <1>4, <1>5, <1>6

-----------------------------------------------------------------------------
\* What an answer means stays true as long as the chip does not move.
LEMMA MeansStays ==
  ASSUME NEW c, NEW d, NEW cmd, NEW a, Means(c, cmd, a), d.reg = c.reg, d.run = c.run,
         d.lpdu = c.lpdu, d.cam = c.cam, d.events = c.events
  PROVE  Means(d, cmd, a)
  BY DEF Means, Effect, Holds, Told

\* ... when it gives the slots their power: no module had been asked,
LEMMA MeansPowered ==
  ASSUME NEW c \in Chips, NEW d \in Chips, NEW cmd \in Commands, NEW a \in Answers, Means(c, cmd, a),
         cmd.op \notin CamOps, d.reg["CFG_1"] = c.reg["CFG_1"] \cup {"vcc"},
         \A r \in (Regs \cup Routers) \ {"CFG_1"} : d.reg[r] = c.reg[r], d.run = c.run
  PROVE  Means(d, cmd, a)
<1>1. ASSUME NEW r \in Regs \cup Routers, NEW val, Holds(c, r, val) PROVE Holds(d, r, val)
  <2>1. CASE r = "CFG_1"
    BY <1>1, <2>1 DEF Holds
  <2>2. CASE r # "CFG_1"
    BY <1>1, <2>2 DEF Holds
  <2> QED BY <2>1, <2>2
<1>2. cmd.op \in {"W"} \cup Reads => cmd.at \in Regs \cup Routers
  BY Types
<1>3. cmd.op # "WriteLPDU"
  BY DEF CamOps
<1> QED BY <1>1, <1>2, <1>3 DEF Means, Effect

\* ... and when a module comes or goes, or has data, of which an event tells.
LEMMA MeansPlugged ==
  ASSUME NEW c \in Chips, NEW d, NEW cmd, NEW a, Means(c, cmd, a), d.reg = c.reg, d.run = c.run, d.lpdu = c.lpdu,
         NEW h, cmd.op \in CamOps => d.events = Append(c.events, h),
         cmd.op \in CamOps => d.cam[cmd.at] = c.cam[cmd.at] \/ h = Det(cmd.at, d.cam[cmd.at]),
         cmd.op \in CamOps => d.cam[cmd.at] \in BOOLEAN
  PROVE  Means(d, cmd, a)
<1>1. CASE cmd.op \notin CamOps
  BY <1>1 DEF Means, Effect, Holds
<1>2. CASE cmd.op \in CamOps
  <2>1. c.events \in Seq(Happenings) /\ d.events = Append(c.events, h)
    BY <1>2 DEF Chips
  <2>2. /\ Len(d.events) = Len(c.events) + 1 /\ d.events[Len(d.events)] = h
        /\ \A i \in 1..Len(c.events) : i \in 1..Len(d.events) /\ d.events[i] = c.events[i]
        /\ Len(d.events) \in 1..Len(d.events)
    BY <2>1
  <2>3. ASSUME NEW s, NEW in, Told(c, s, in) PROVE Told(d, s, in)
    BY <2>2, <2>3 DEF Told
  <2>4. ASSUME NEW in, h = Det(cmd.at, in) PROVE Told(d, cmd.at, in)
    BY <2>2, <2>4 DEF Told
  <2>5. cmd.op \notin Reads \cup {"W", "INIT"}
    BY <1>2 DEF Reads, CamOps
  <2>6. c.cam[cmd.at] \/ Told(c, cmd.at, FALSE) => d.cam[cmd.at] \/ Told(d, cmd.at, FALSE)
    BY <1>2, <2>3, <2>4
  <2>7. ~c.cam[cmd.at] \/ Told(c, cmd.at, TRUE) => ~d.cam[cmd.at] \/ Told(d, cmd.at, TRUE)
    BY <1>2, <2>3, <2>4
  <2> QED BY <2>5, <2>6, <2>7 DEF Means, Effect
<1> QED BY <1>1, <1>2

-----------------------------------------------------------------------------
\* The events of a slot.
LEMMA DetFacts ==
  /\ \A s \in Slots, in \in BOOLEAN : Det(s, in) \in Happenings /\ Det(s, in).op = "Det" /\ Det(s, in).at = s
  /\ \A s : Det(s, TRUE) # Det(s, FALSE)
  /\ \A h \in Happenings, s \in Slots : h.op = "Det" /\ h.at = s => h = Det(s, h.val = {"in"})
  BY DEF Det, Happenings

\* The driver takes the first event.
LEMMA TracksTake ==
  ASSUME NEW c \in Chips, NEW d, NEW s, NEW x, NEW flag, Tracks(c, s, FALSE, x, flag),
         c.events # <<>>, d.events = Tail(c.events), d.cam = c.cam
  PROVE  Tracks(d, s, TRUE, Head(c.events), flag)
<1> DEFINE e == c.events
           f == d.events
           dets == {Det(s, TRUE), Det(s, FALSE)}
<1>0. \A in \in BOOLEAN : Det(s, in) \in dets
  BY DEF Det
<1>c. c.cam = d.cam
  OBVIOUS
<1>1. e \in Seq(Happenings) /\ f = Tail(e) /\ e # <<>>
  BY DEF Chips
<1>2. /\ Len(f) = Len(e) - 1 /\ Len(e) \in Nat /\ Len(e) > 0 /\ Head(e) = e[1]
      /\ \A i \in 1..Len(f) : f[i] = e[i + 1]
  BY <1>1
<1> HIDE DEF e, f, dets
<1>3. ASSUME NEW in, Told(d, s, in) PROVE \E j \in 2..Len(e) : e[j] = Det(s, in)
  BY <1>2, <1>3 DEF Told, f
<1>4. CASE LastSays(c, s, c.cam[s])
  <2>1. PICK i \in 1..Len(e) : /\ e[i] = Det(s, c.cam[s])
                               /\ \A j \in (i + 1)..Len(e) : e[j] \notin dets
    BY <1>4 DEF LastSays, e, dets
  <2>2. CASE i = 1
    <3>1. ASSUME NEW in \in BOOLEAN, Told(d, s, in) PROVE FALSE
      <4>1. PICK j \in 2..Len(e) : e[j] = Det(s, in)
        BY <1>3, <3>1
      <4> QED BY <1>0, <2>1, <2>2, <4>1
    <3>2. Silent(d, s)
      BY <3>1 DEF Silent
    <3>3. Head(e) = Det(s, d.cam[s])
      BY <1>2, <1>c, <2>1, <2>2
    <3> QED BY <3>2, <3>3 DEF Tracks, e
  <2>3. CASE i # 1
    <3>1. i - 1 \in 1..Len(f) /\ f[i - 1] = Det(s, d.cam[s])
      BY <1>2, <2>1, <2>3
    <3>2. ASSUME NEW j \in ((i - 1) + 1)..Len(f) PROVE f[j] \notin dets
      <4>1. j \in 1..Len(f) /\ j + 1 \in (i + 1)..Len(e)
        BY <1>2, <2>1, <2>3
      <4> QED BY <1>2, <2>1, <4>1
    <3>3. LastSays(d, s, d.cam[s])
      BY <3>1, <3>2 DEF LastSays, f, dets
    <3> QED BY <3>3 DEF Tracks
  <2> QED BY <2>2, <2>3
<1>5. CASE Silent(c, s) /\ flag = c.cam[s]
  <2>1. ASSUME NEW i \in 1..Len(e) PROVE e[i] \notin dets
    BY <1>5 DEF Silent, Told, e, dets
  <2>2. ASSUME NEW in \in BOOLEAN, Told(d, s, in) PROVE FALSE
    <3>1. PICK j \in 2..Len(e) : e[j] = Det(s, in)
      BY <1>3, <2>2
    <3> QED BY <1>0, <1>2, <2>1, <3>1
  <2>3. Silent(d, s)
    BY <2>2 DEF Silent
  <2>4. Head(e) \notin dets
    BY <1>2, <2>1
  <2> QED BY <1>5, <2>3, <2>4 DEF Tracks, e, dets
<1> QED BY <1>4, <1>5 DEF Tracks

\* It has read the event and sets the flag.
LEMMA TracksHandle ==
  ASSUME NEW c \in Chips, NEW s \in Slots, NEW a \in Happenings \cup {[op |-> "NoEvt", at |-> "none", val |-> {}]},
         NEW flag, Tracks(c, s, TRUE, a, flag), NEW x, NEW new,
         new = IF a.op = "Det" /\ a.at = s THEN a.val = {"in"} ELSE flag
  PROVE  Tracks(c, s, FALSE, x, new)
<1>1. c.cam[s] \in BOOLEAN
  BY DEF Chips
<1>2. CASE LastSays(c, s, c.cam[s])
  BY <1>2 DEF Tracks
<1>3. CASE Silent(c, s) /\ a = Det(s, c.cam[s])
  <2>1. new = c.cam[s]
    BY <1>1, <1>3 DEF Det
  <2> QED BY <1>3, <2>1 DEF Tracks
<1>4. CASE Silent(c, s) /\ a \notin {Det(s, TRUE), Det(s, FALSE)} /\ flag = c.cam[s]
  <2>1. ASSUME a.op = "Det", a.at = s PROVE FALSE
    <3>1. a \in Happenings
      BY <2>1
    <3>2. a = Det(s, a.val = {"in"})
      BY <2>1, <3>1, DetFacts
    <3>3. (a.val = {"in"}) \in BOOLEAN
      OBVIOUS
    <3> QED BY <1>4, <3>2, <3>3
  <2> QED BY <1>4, <2>1 DEF Tracks
<1> QED BY <1>2, <1>3, <1>4 DEF Tracks

\* Another event comes.
LEMMA TracksOther ==
  ASSUME NEW c \in Chips, NEW d, NEW s, NEW heard, NEW a, NEW flag, Tracks(c, s, heard, a, flag),
         NEW h, h \notin {Det(s, TRUE), Det(s, FALSE)}, d.events = Append(c.events, h), d.cam[s] = c.cam[s]
  PROVE  Tracks(d, s, heard, a, flag)
<1>1. c.events \in Seq(Happenings)
  BY DEF Chips
<1>2. /\ Len(d.events) = Len(c.events) + 1 /\ Len(c.events) \in Nat /\ d.events[Len(d.events)] = h
      /\ \A i \in 1..Len(c.events) : d.events[i] = c.events[i]
  BY <1>1
<1>3. Silent(c, s) => Silent(d, s)
  <2>1. ASSUME NEW in \in BOOLEAN, Told(d, s, in) PROVE Told(c, s, in)
    <3>1. PICK i \in 1..Len(d.events) : d.events[i] = Det(s, in)
      BY <2>1 DEF Told
    <3>2. i # Len(d.events)
      BY <1>2, <3>1
    <3>3. i \in 1..Len(c.events) /\ c.events[i] = Det(s, in)
      BY <1>2, <3>1, <3>2
    <3> QED BY <3>3 DEF Told
  <2> QED BY <2>1 DEF Silent
<1>4. ASSUME LastSays(c, s, c.cam[s]) PROVE LastSays(d, s, d.cam[s])
  <2>1. PICK i \in 1..Len(c.events) :
          /\ c.events[i] = Det(s, c.cam[s])
          /\ \A j \in (i + 1)..Len(c.events) : c.events[j] \notin {Det(s, TRUE), Det(s, FALSE)}
    BY <1>4 DEF LastSays
  <2>2. i \in 1..Len(d.events) /\ d.events[i] = Det(s, d.cam[s])
    BY <1>2, <2>1
  <2>3. ASSUME NEW j \in (i + 1)..Len(d.events) PROVE d.events[j] \notin {Det(s, TRUE), Det(s, FALSE)}
    <3>1. j = Len(d.events) \/ (j \in (i + 1)..Len(c.events) /\ j \in 1..Len(c.events))
      BY <1>2, <2>1
    <3> QED BY <1>2, <2>1, <3>1
  <2> QED BY <2>2, <2>3 DEF LastSays
<1> QED BY <1>3, <1>4 DEF Tracks

\* The event of a module that has come or gone is the last one.
LEMMA TracksPlug ==
  ASSUME NEW c \in Chips, NEW d, NEW s, NEW heard, NEW a, NEW flag,
         d.events = Append(c.events, Det(s, d.cam[s]))
  PROVE  Tracks(d, s, heard, a, flag)
<1>1. c.events \in Seq(Happenings)
  BY DEF Chips
<1>2. Len(d.events) = Len(c.events) + 1 /\ Len(c.events) \in Nat /\ d.events[Len(d.events)] = Det(s, d.cam[s])
  BY <1>1
<1> DEFINE n == Len(c.events) + 1
<1>3. n \in 1..Len(d.events) /\ d.events[n] = Det(s, d.cam[s]) /\ (n + 1)..Len(d.events) = {}
  BY <1>2
<1> HIDE DEF n
<1>4. LastSays(d, s, d.cam[s])
  BY <1>3 DEF LastSays
<1> QED BY <1>4 DEF Tracks

\* The modules that are found when the slots get their power.
LEMMA TracksFound ==
  ASSUME NEW c \in Chips, NEW d, NEW s \in Slots, NEW a, d.events = Found(c), d.cam = c.cam
  PROVE  Tracks(d, s, FALSE, a, FALSE)
<1>1. c.cam \in [Slots -> BOOLEAN] /\ Slots = {"A", "B"}
  BY DEF Chips, Slots
<1> DEFINE good == Tracks(d, s, FALSE, a, FALSE)
           dets == {Det(s, TRUE), Det(s, FALSE)}
           in == Det(s, TRUE)
           da == Det("A", TRUE)
           db == Det("B", TRUE)
<1> SUFFICES good
  OBVIOUS
<1>2. /\ s = "A" => in = da /\ db \notin dets
      /\ s = "B" => in = db /\ da \notin dets
  BY DEF Det
<1>f. Found(c) = (IF c.cam["A"] THEN <<da>> ELSE <<>>) \o (IF c.cam["B"] THEN <<db>> ELSE <<>>)
  BY DEF Found
<1> HIDE DEF good, dets, in, da, db
<1>3. ASSUME NEW i \in 1..Len(d.events), d.events[i] = in, c.cam[s],
             \A j \in (i + 1)..Len(d.events) : d.events[j] \notin dets
      PROVE  good
  <2>1. LastSays(d, s, TRUE) /\ d.cam[s] = TRUE
    BY <1>1, <1>3 DEF LastSays, dets, in
  <2> QED BY <2>1 DEF Tracks, good
<1>4. ASSUME \A i \in 1..Len(d.events) : d.events[i] \notin dets, ~c.cam[s]
      PROVE  good
  <2>1. Silent(d, s) /\ d.cam[s] = FALSE
    BY <1>1, <1>4 DEF Silent, Told, dets
  <2> QED BY <2>1 DEF Tracks, good
<1>5. CASE c.cam["A"] /\ c.cam["B"]
  <2>1. d.events = <<da>> \o <<db>>
    BY <1>f, <1>5
  <2>2. Len(d.events) = 2 /\ d.events[1] = da /\ d.events[2] = db
    BY <2>1
  <2>3. CASE s = "A"
    BY <1>2, <1>3, <1>5, <2>2, <2>3
  <2>4. CASE s = "B"
    BY <1>2, <1>3, <1>5, <2>2, <2>4
  <2> QED BY <1>1, <2>3, <2>4
<1>6. CASE c.cam["A"] /\ ~c.cam["B"]
  <2>1. d.events = <<da>> \o <<>>
    BY <1>f, <1>6
  <2>2. Len(d.events) = 1 /\ d.events[1] = da
    BY <2>1
  <2>3. CASE s = "A"
    BY <1>2, <1>3, <1>4, <1>6, <2>2, <2>3
  <2>4. CASE s = "B"
    BY <1>2, <1>3, <1>4, <1>6, <2>2, <2>4
  <2> QED BY <1>1, <2>3, <2>4
<1>7. CASE ~c.cam["A"] /\ c.cam["B"]
  <2>1. d.events = <<>> \o <<db>>
    BY <1>f, <1>7
  <2>2. Len(d.events) = 1 /\ d.events[1] = db
    BY <2>1
  <2>3. CASE s = "A"
    BY <1>2, <1>3, <1>4, <1>7, <2>2, <2>3
  <2>4. CASE s = "B"
    BY <1>2, <1>3, <1>4, <1>7, <2>2, <2>4
  <2> QED BY <1>1, <2>3, <2>4
<1>8. CASE ~c.cam["A"] /\ ~c.cam["B"]
  <2>1. d.events = <<>> \o <<>>
    BY <1>f, <1>8
  <2>2. Len(d.events) = 0
    BY <2>1
  <2> QED BY <1>1, <1>4, <1>8, <2>2
<1> QED BY <1>5, <1>6, <1>7, <1>8

-----------------------------------------------------------------------------
\* The script of the configuration.
CfgCommand(n, cmd) ==
  \/ n = 9 /\ cmd = W("IN_SEL", {})
  \/ n = 8 /\ cmd = W("CFG_2", {})
  \/ n = 7 /\ cmd = W("CFG_1", {})
  \/ n = 6 /\ cmd = W("CFG_2", {"lock"})
  \/ n = 5 /\ cmd = S("CFG_1", {"vcc"})
  \/ n = 4 /\ cmd \in {O("CFG_1", {"pcmcia"}), Pcmcia}
  \/ n = 3 /\ cmd = S("CFG_1", {"pcmcia"})
  \/ n = 2 /\ cmd = W("ROUTER", {})
  \/ n = 1 /\ cmd = W("IN_SEL", {"open"})

LEMMA CfgIs ==
  /\ Cfg \in Seq(Commands) /\ Len(Cfg) = 9
  /\ \A n \in 1..9 : CfgCommand(n, Cfg[10 - n]) /\ (n = 4 => Cfg[10 - n] = O("CFG_1", {"pcmcia"}))
<1>1. Len(Cfg) = 9
  BY DEF Cfg
<1>2. /\ Cfg[1] = W("IN_SEL", {}) /\ Cfg[2] = W("CFG_2", {}) /\ Cfg[3] = W("CFG_1", {})
      /\ Cfg[4] = W("CFG_2", {"lock"}) /\ Cfg[5] = S("CFG_1", {"vcc"}) /\ Cfg[6] = O("CFG_1", {"pcmcia"})
      /\ Cfg[7] = S("CFG_1", {"pcmcia"}) /\ Cfg[8] = W("ROUTER", {}) /\ Cfg[9] = W("IN_SEL", {"open"})
  BY DEF Cfg
<1>3. ASSUME NEW n \in 1..9 PROVE CfgCommand(n, Cfg[10 - n]) /\ (n = 4 => Cfg[10 - n] = O("CFG_1", {"pcmcia"}))
  <2>1. n \in {1, 2, 3, 4, 5, 6, 7, 8, 9}
    OBVIOUS
  <2>2. /\ 10 - 1 = 9 /\ 10 - 2 = 8 /\ 10 - 3 = 7 /\ 10 - 4 = 6 /\ 10 - 5 = 5
        /\ 10 - 6 = 4 /\ 10 - 7 = 3 /\ 10 - 8 = 2 /\ 10 - 9 = 1
    OBVIOUS
  <2> QED BY <1>2, <2>1, <2>2 DEF CfgCommand
<1>4. /\ {"CFG_1", "CFG_2", "IN_SEL", "ROUTER"} \subseteq Regs \cup Routers
      /\ {"lock", "vcc", "pcmcia", "open"} \subseteq Values
  BY DEF Regs, Values
<1>5. /\ {Cfg[1], Cfg[2], Cfg[3], Cfg[4], Cfg[5], Cfg[6], Cfg[7], Cfg[8], Cfg[9]} \subseteq Commands
  BY <1>2, <1>4 DEF Commands, W, S, O, Reads
<1>6. Cfg \in Seq(Commands)
  <2>1. \A i \in 1..9 : Cfg[i] \in Commands
    BY <1>5
  <2>2. Cfg = [i \in 1..9 |-> Cfg[i]]
    BY DEF Cfg
  <2> QED BY <2>1, <2>2
<1> QED BY <1>1, <1>3, <1>6

\* The next command of the configuration.
LEMMA CfgNext ==
  ASSUME CfgTodo, th["app"].todo \in Seq(Commands), th["app"].todo # <<>>
  PROVE  Left \in 1..9 /\ CfgCommand(Left, Cmd("app"))
<1>1. Left \in 1..9 /\ Cmd("app") = th["app"].todo[1] /\ 1 \in 1..Left
  BY Names DEF CfgTodo, Left, Cmd
<1>2. th["app"].todo[1] = Cfg[1 + 9 - Left] \/ (Left = 4 /\ th["app"].todo[1] = Pcmcia)
  BY <1>1 DEF CfgTodo
<1>3. 1 + 9 - Left = 10 - Left
  BY <1>1
<1>4. CASE th["app"].todo[1] = Cfg[10 - Left]
  BY <1>1, <1>4, CfgIs
<1>5. CASE Left = 4 /\ th["app"].todo[1] = Pcmcia
  BY <1>1, <1>5 DEF CfgCommand
<1> QED BY <1>1, <1>2, <1>3, <1>4, <1>5

LEMMA CfgOps ==
  ASSUME NEW n, NEW cmd, CfgCommand(n, cmd)
  PROVE  cmd.op \in {"W", "S", "O"} /\ cmd.op \notin CamOps
         /\ (cmd.op \in {"S", "O"} => cmd.op \in Reads) /\ (cmd.op = "W" => cmd.op \notin Reads)
         /\ n \in 1..9
  BY DEF CfgCommand, W, S, O, Pcmcia, Reads, CamOps

\* The chip makes a command of the configuration.
LEMMA CfgSend ==
  ASSUME NEW c \in Chips, NEW cmd \in Commands, NEW d \in Served(c, cmd), c.out = <<>>,
         NEW n, CfgCommand(n, cmd), NEW x, CfgFacts(c, n, cmd, FALSE, x)
  PROVE  CfgFacts(d, n, cmd, d.out # <<>>, Head(d.out))
<1>0. \A y : Head(Append(<<>>, y)) = y
  OBVIOUS
<1> DEFINE a == Head(d.out)
<1>1. CASE c.short # {}
  <2>1. d.reg = c.reg
    BY <1>1, ServedTorn
  <2>2. PICK s \in Slots : d.out = Append(<<>>, [op |-> "WriteLPDU", at |-> s, val |-> {}])
    BY <1>1, ServedTorn
  <2>3. a.op = "WriteLPDU"
    BY <1>0, <2>2
  <2> HIDE DEF a
  <2>4. CfgFacts(d, n, cmd, d.out # <<>>, a)
    BY <2>1, <2>3 DEF CfgFacts
  <2> QED BY <2>4 DEF a
<1>2. CASE c.short = {} /\ cmd.op = "W"
  <2>1. /\ d.reg[cmd.at] = cmd.val
        /\ \A r \in (Regs \cup Routers) \ {cmd.at} : r # "BOOT_Status" => d.reg[r] = c.reg[r]
        /\ d.out = Append(<<>>, [op |-> "W", at |-> cmd.at, val |-> {}])
    BY <1>2, ServedWrite
  <2>2. a.op = "W"
    BY <1>0, <2>1
  <2> HIDE DEF a
  <2>3. {"CFG_1", "CFG_2", "IN_SEL", "ROUTER"} \subseteq Regs
    BY DEF Regs
  <2>4. CfgFacts(d, n, cmd, d.out # <<>>, a)
    BY <1>2, <2>1, <2>2, <2>3 DEF CfgFacts, CfgCommand, W, S, O, Pcmcia
  <2> QED BY <2>4 DEF a
<1>3. CASE c.short = {} /\ cmd.op \in Reads
  <2>1. d.reg = c.reg /\ d.out = Append(<<>>, [op |-> "R", at |-> cmd.at, val |-> c.reg[cmd.at]])
    BY <1>3, ServedRead
  <2>2. a.op = "R" /\ a.val = c.reg[cmd.at]
    BY <1>0, <2>1
  <2> HIDE DEF a
  <2>3. cmd.op \in {"S", "O"}
    BY <1>3, CfgOps
  <2>4. CfgFacts(d, n, cmd, d.out # <<>>, a)
    BY <2>1, <2>2, <2>3 DEF CfgFacts, CfgCommand, W, S, O, Pcmcia
  <2> QED BY <2>4 DEF a
<1> QED BY <1>1, <1>2, <1>3, CfgOps

\* Its answer is the one to the command.
LEMMA CfgDone ==
  ASSUME NEW c \in Chips, NEW n, NEW cmd, CfgCommand(n, cmd), NEW a, CfgFacts(c, n, cmd, TRUE, a),
         Matches(cmd, a), Effect(c, cmd, a), NEW x
  PROVE  /\ cmd.op = "O" => W(cmd.at, a.val \cup cmd.val) = Pcmcia /\ CfgFacts(c, n, Pcmcia, FALSE, x)
         /\ cmd.op = "S" => CfgFacts(c, n, cmd, FALSE, x)
         /\ cmd.op = "W" \/ (cmd.op = "S" /\ cmd.val \subseteq a.val) =>
              \A next : (n = 5 => next.op = "O") => CfgFacts(c, n - 1, next, FALSE, x)
<1>1. /\ cmd.op = "W" => Holds(c, cmd.at, cmd.val)
      /\ cmd.op \in {"S", "O"} => Holds(c, cmd.at, a.val) /\ a.op = "R"
  BY DEF Effect, Matches, Reads
<1>2. ASSUME cmd.op = "O"
      PROVE  W(cmd.at, a.val \cup cmd.val) = Pcmcia /\ CfgFacts(c, n, Pcmcia, FALSE, x)
  <2>1. n = 4 /\ cmd = O("CFG_1", {"pcmcia"})
    BY <1>2 DEF CfgCommand, W, S, O, Pcmcia
  <2>2. "vcc" \in a.val /\ c.reg["CFG_1"] \subseteq {"vcc"} /\ c.reg["CFG_2"] = {"lock"} /\ "vcc" \in c.reg["CFG_1"]
    BY <1>1, <1>2, <2>1 DEF CfgFacts
  <2>3. a.val = {"vcc"}
    BY <1>1, <1>2, <2>1, <2>2 DEF Holds, O
  <2>4. W(cmd.at, a.val \cup cmd.val) = Pcmcia
    BY <2>1, <2>3 DEF W, O, Pcmcia
  <2>5. CfgFacts(c, 4, Pcmcia, FALSE, x)
    BY <2>2 DEF CfgFacts, Pcmcia, W
  <2> QED BY <2>1, <2>4, <2>5
<1>3. ASSUME cmd.op = "S" PROVE CfgFacts(c, n, cmd, FALSE, x)
  BY <1>3 DEF CfgFacts
<1>4. ASSUME cmd.op = "W" \/ (cmd.op = "S" /\ cmd.val \subseteq a.val),
             NEW next, n = 5 => next.op = "O"
      PROVE  CfgFacts(c, n - 1, next, FALSE, x)
  <2>1. CASE n = 9
    <3>1. CfgFacts(c, 8, next, FALSE, x)
      BY DEF CfgFacts
    <3>9. n - 1 = 8
      BY <2>1
    <3> QED BY <3>9, <3>1
  <2>8. CASE n = 8
    <3>1. cmd = W("CFG_2", {})
      BY <2>8 DEF CfgCommand
    <3>2. c.reg["CFG_2"] = {}
      BY <1>1, <3>1 DEF W, Holds
    <3>3. CfgFacts(c, 7, next, FALSE, x)
      BY <3>2 DEF CfgFacts
    <3>9. n - 1 = 7
      BY <2>8
    <3> QED BY <3>9, <3>3
  <2>7. CASE n = 7
    <3>1. cmd = W("CFG_1", {})
      BY <2>7 DEF CfgCommand
    <3>2. c.reg["CFG_1"] \subseteq {"vcc"}
      BY <1>1, <3>1 DEF W, Holds
    <3>3. CfgFacts(c, 6, next, FALSE, x)
      BY <3>2 DEF CfgFacts
    <3>9. n - 1 = 6
      BY <2>7
    <3> QED BY <3>9, <3>3
  <2>6. CASE n = 6
    <3>1. cmd = W("CFG_2", {"lock"})
      BY <2>6 DEF CfgCommand
    <3>2. c.reg["CFG_2"] = {"lock"}
      BY <1>1, <3>1 DEF W, Holds
    <3>3. c.reg["CFG_1"] \subseteq {"vcc"}
      BY <2>6 DEF CfgFacts
    <3>4. CfgFacts(c, 5, next, FALSE, x)
      BY <3>2, <3>3 DEF CfgFacts
    <3>9. n - 1 = 5
      BY <2>6
    <3> QED BY <3>9, <3>4
  <2>2. CASE n = 5
    <3>1. c.reg["CFG_1"] \subseteq {"vcc"} /\ c.reg["CFG_2"] = {"lock"} /\ cmd = S("CFG_1", {"vcc"})
      BY <2>2 DEF CfgFacts, CfgCommand
    <3>2. "vcc" \in c.reg["CFG_1"]
      BY <1>1, <1>4, <3>1 DEF Holds, S
    <3>3. CfgFacts(c, 4, next, FALSE, x)
      BY <3>1, <3>2 DEF CfgFacts
    <3>9. n - 1 = 4
      BY <2>2
    <3> QED BY <3>9, <3>3
  <2>3. CASE n = 4
    <3>1. cmd = Pcmcia /\ cmd.op = "W"
      BY <1>4, <2>3 DEF CfgCommand, W, S, O, Pcmcia
    <3>2. Holds(c, "CFG_1", {"vcc", "pcmcia"})
      BY <1>1, <3>1 DEF Pcmcia, W
    <3>3. c.reg["CFG_1"] = {"vcc", "pcmcia"}
      BY <3>2 DEF Holds
    <3>4. c.reg["CFG_2"] = {"lock"}
      BY <2>3 DEF CfgFacts
    <3>5. CfgFacts(c, 3, next, FALSE, x)
      BY <3>3, <3>4 DEF CfgFacts
    <3>9. n - 1 = 3
      BY <2>3
    <3> QED BY <3>9, <3>5
  <2>4. CASE n \in {1, 2, 3}
    <3>1. c.reg["CFG_1"] = {"vcc", "pcmcia"} /\ c.reg["CFG_2"] = {"lock"} /\ (n = 1 => c.reg["ROUTER"] = {})
      BY <2>4 DEF CfgFacts
    <3>2. CASE n = 3
      <4>1. CfgFacts(c, 2, next, FALSE, x)
        BY <3>1 DEF CfgFacts
      <4>9. n - 1 = 2
        BY <3>2
      <4> QED BY <4>9, <4>1
    <3>3. CASE n = 2
      <4>1. cmd = W("ROUTER", {})
        BY <3>3 DEF CfgCommand
      <4>2. c.reg["ROUTER"] = {}
        BY <1>1, <4>1 DEF W, Holds
      <4>3. CfgFacts(c, 1, next, FALSE, x)
        BY <3>1, <4>2 DEF CfgFacts
      <4>9. n - 1 = 1
        BY <3>3
      <4> QED BY <4>9, <4>3
    <3>4. CASE n = 1
      <4>1. cmd = W("IN_SEL", {"open"})
        BY <3>4 DEF CfgCommand
      <4>2. c.reg["IN_SEL"] = {"open"}
        BY <1>1, <4>1 DEF W, Holds
      <4>3. CfgFacts(c, 0, next, FALSE, x)
        BY <3>1, <3>4, <4>2 DEF CfgFacts
      <4>9. n - 1 = 0
        BY <3>4
      <4> QED BY <4>9, <4>3
    <3>5. n = 3 \/ n = 2 \/ n = 1
      BY <2>4
    <3> QED BY <3>2, <3>3, <3>4, <3>5
  <2>5. n = 9 \/ n = 8 \/ n = 7 \/ n = 6 \/ n = 5 \/ n = 4 \/ n \in {1, 2, 3}
    <3>1. n \in 1..9
      BY CfgOps
    <3> QED BY <3>1
  <2> QED BY <2>1, <2>2, <2>3, <2>4, <2>5, <2>6, <2>7, <2>8
<1> QED BY <1>2, <1>3, <1>4

\* The chip gives the slots their power when the configuration is locked.
LEMMA CfgPowered ==
  ASSUME NEW c, NEW d, NEW n, NEW cmd, NEW heard, NEW a, CfgFacts(c, n, cmd, heard, a),
         c.reg["CFG_2"] = {"lock"}, "vcc" \notin c.reg["CFG_1"],
         d.reg["CFG_1"] = c.reg["CFG_1"] \cup {"vcc"},
         \A r \in (Regs \cup Routers) \ {"CFG_1"} : d.reg[r] = c.reg[r], n \in 0..9
  PROVE  CfgFacts(d, n, cmd, heard, a)
<1>1. d.reg["CFG_2"] = {"lock"}
  BY DEF Regs
<1> QED BY <1>1 DEF CfgFacts

-----------------------------------------------------------------------------
\* Who is inside, and what of.

\* Without the mutex nobody has an answer in hand.
LEMMA NobodyIn ==
  ASSUME IInv, mutex \notin Threads, NEW t \in Threads
  PROVE  th[t].pc \notin InCall /\ ~InHand(t)
  BY DEF IInv, LockHeldInCalls, InHand, InCall

\* Whoever is inside is alone.
LEMMA OnlyOne ==
  ASSUME IInv, NEW t \in Threads, th[t].pc \in InCall
  PROVE  mutex = t /\ \A u \in Threads \ {t} : th[u].pc \notin InCall /\ ~InHand(u)
  BY DEF IInv, LockHeldInCalls, InHand, InCall

\* Unless a thread waits for it, the chip has no answer.
LEMMA NoneLeft ==
  ASSUME OneAnswer, mutex \in Threads => th[mutex].pc # "wait"
  PROVE  (Fresh => chip.out = <<>>) /\ (~chip.slip => chip.short = {})
  BY DEF OneAnswer

LEMMA NotLate == ~chip.slip => Fresh
  BY DEF Fresh

\* What the threads are about.
LEMMA Doing ==
  ASSUME IInv, Typed, NEW t \in Threads \ {"event"}, th[t].pc # "off"
  PROVE  /\ th[t].todo # <<>> /\ th[t].todo \in Seq(Commands) /\ Cmd(t) = Head(th[t].todo) /\ Cmd(t) \in Commands
         /\ t # "app" => t \in Clients /\ app.stage = "up" /\ th[t].todo \in Seq(ClientCmds) /\ Cmd(t) \in ClientCmds
         /\ t = "app" => app.stage \in {"boot", "fw", "cfg"}
<1>1. th[t].todo # <<>> /\ Cmd(t) = Head(th[t].todo)
  BY DEF Typed, Cmd
<1>2. CASE t = "app"
  <2>1. th[t].todo \in Seq(Commands) /\ app.stage \in {"boot", "fw", "cfg"}
    BY <1>2 DEF Typed, IInv, AtWork
  <2> QED BY <1>1, <1>2, <2>1
<1>3. CASE t # "app"
  <2>1. t \in Clients
    BY <1>3 DEF Threads
  <2>2. th[t].todo \in Seq(ClientCmds) /\ app.stage = "up"
    BY <2>1 DEF Typed, IInv, AtWork
  <2>3. ClientCmds \subseteq Commands
    BY DEF ClientCmds
  <2>4. th[t].todo \in Seq(Commands)
    BY <2>2, <2>3
  <2>5. Head(th[t].todo) \in ClientCmds
    BY <1>1, <2>2
  <2> QED BY <1>1, <1>3, <2>1, <2>2, <2>3, <2>4, <2>5
<1> QED BY <1>2, <1>3

LEMMA AppDoes ==
  ASSUME IInv, Typed, ScriptFacts, th["app"].pc # "off", Fresh
  PROVE  /\ Cmd("app").op \notin CamOps
         /\ app.stage = "boot" => Cmd("app") = R("BOOT_Status") /\ Tail(th["app"].todo) = <<>>
         /\ app.stage = "fw" => Cmd("app").op \in {"W", "V", "INIT"}
         /\ app.stage = "cfg" => Left \in 1..9 /\ CfgCommand(Left, Cmd("app"))
<1>1. /\ th["app"].todo # <<>> /\ th["app"].todo \in Seq(Commands) /\ Cmd("app") = Head(th["app"].todo)
      /\ app.stage \in {"boot", "fw", "cfg"}
  BY Doing, Names
<1>2. CASE app.stage = "boot"
  <2>1. th["app"].todo = <<R("BOOT_Status")>>
    BY <1>1, <1>2 DEF ScriptFacts, BootTodo
  <2>2. Cmd("app") = R("BOOT_Status") /\ Tail(th["app"].todo) = <<>>
    BY <1>1, <2>1
  <2>3. R("BOOT_Status").op \notin CamOps
    BY DEF R, CamOps
  <2> QED BY <1>2, <2>2, <2>3
<1>3. CASE app.stage = "fw"
  <2>1. FwTodo
    BY <1>3 DEF ScriptFacts
  <2>2. 1 \in 1..Left /\ Cmd("app") = th["app"].todo[1]
    BY <1>1 DEF Left
  <2>3. Cmd("app").op \in {"W", "V", "INIT"}
    BY <2>1, <2>2 DEF FwTodo
  <2> QED BY <1>3, <2>3 DEF CamOps
<1>4. CASE app.stage = "cfg"
  <2>1. CfgTodo
    BY <1>4 DEF ScriptFacts
  <2>2. Left \in 1..9 /\ CfgCommand(Left, Cmd("app"))
    BY <1>1, <2>1, CfgNext
  <2> QED BY <1>4, <2>2, CfgOps
<1> QED BY <1>1, <1>2, <1>3, <1>4

\* What a step leaves of the other threads.
LEMMA PcStep ==
  ASSUME IInv, NEW t \in Threads, NEW pc, th' = [th EXCEPT ![t].pc = pc]
  PROVE  /\ \A u \in Threads \ {t} : th'[u] = th[u]
         /\ th'[t].pc = pc /\ th'[t].todo = th[t].todo /\ th'[t].ret = th[t].ret /\ th'[t].val = th[t].val
<1>1. \A u \in Threads : th'[u] = IF u = t THEN [th[t] EXCEPT !.pc = pc] ELSE th[u]
  BY DEF IInv, Shape
<1>2. [th[t] EXCEPT !.pc = pc] = [pc |-> pc, todo |-> th[t].todo, ret |-> th[t].ret, val |-> th[t].val]
  BY DEF IInv, Shape
<1> QED BY <1>1, <1>2

LEMMA RecordStep ==
  ASSUME IInv, NEW t \in Threads, NEW r, th' = [th EXCEPT ![t] = r]
  PROVE  th'[t] = r /\ \A u \in Threads \ {t} : th'[u] = th[u]
  BY DEF IInv, Shape

\* A command that failed leaves nothing to do.
LEMMA FailedStep ==
  ASSUME IInv, NEW t \in Threads, Failed(t)
  PROVE  /\ \A u \in Threads \ {t} : th'[u] = th[u]
         /\ t = "event" => th'[t].pc = "run"
         /\ t # "event" => th'[t].pc = "off" /\ th'[t].todo = <<>> /\ th'[t].ret = "ERROR" /\ th'[t].val = {}
<1>1. CASE t = "event"
  <2>1. th' = [th EXCEPT ![t].pc = "run"]
    BY <1>1 DEF Failed
  <2> QED BY <1>1, <2>1, PcStep
<1>2. CASE t # "event"
  <2>1. th' = [th EXCEPT ![t] = [pc |-> "off", todo |-> <<>>, ret |-> "ERROR", val |-> {}]]
    BY <1>2 DEF Failed
  <2>2. th'[t] = [pc |-> "off", todo |-> <<>>, ret |-> "ERROR", val |-> {}]
        /\ \A u \in Threads \ {t} : th'[u] = th[u]
    BY <2>1, RecordStep
  <2> QED BY <1>2, <2>2
<1> QED BY <1>1, <1>2

-----------------------------------------------------------------------------
\* The parts of the invariant that only look at some of the state.

\* No thread that a client's or the application's call would have hears now.
LEMMA NobodyMeans ==
  ASSUME \A t \in Threads \ {"event"} : th'[t].pc \notin InCall
  PROVE  AnswersMean'
<1>1. \A t \in Threads \ {"event"} : ~InHand(t)'
  BY DEF InHand, InCall
<1> QED BY <1>1 DEF AnswersMean

\* The script of CIMAX_Init, with the chip and the answer as they were.
LEMMA ScriptStays ==
  ASSUME ScriptFacts, app'.stage = app.stage, th'["app"] = th["app"], Fresh' => Fresh,
         chip'.reg = chip.reg, InHand("app")' = InHand("app"), InHand("app") => Hand("app")' = Hand("app")
  PROVE  ScriptFacts'
<1>1. BootTodo' = BootTodo /\ FwTodo' = FwTodo /\ CfgTodo' = CfgTodo /\ Progress' = Progress /\ Left' = Left
      /\ Cmd("app")' = Cmd("app")
  BY Names DEF BootTodo, FwTodo, CfgTodo, Progress, Left, Cmd
<1>2. CASE ~InHand("app")
  <2>1. CfgSoFar => CfgSoFar'
    BY <1>1, <1>2 DEF CfgSoFar, CfgFacts
  <2> QED BY <1>1, <2>1 DEF ScriptFacts
<1>3. CASE InHand("app")
  <2>1. CfgSoFar => CfgSoFar'
    BY <1>1, <1>3 DEF CfgSoFar, CfgFacts
  <2> QED BY <1>1, <2>1 DEF ScriptFacts
<1> QED BY <1>2, <1>3

\* The chip in its stage, as it was.
LEMMA ChipStays ==
  ASSUME ChipFacts, app'.stage = app.stage, Fresh' => Fresh, chip'.reg = chip.reg, chip'.run = chip.run,
         th'["app"] = th["app"] \/ th'["app"].pc # "off" \/ (th'["app"].ret # "OK" /\ th'["app"].val = {})
  PROVE  ChipFacts'
  BY DEF ChipFacts, Configured

\* The events, as they were.
LEMMA EventsStay ==
  ASSUME EventsTracked, ~chip'.slip => ~chip.slip, ~chip'.slip /\ Powered' => Powered,
         chip'.events = chip.events, chip'.cam = chip.cam, drv'.inserted = drv.inserted,
         InHand("event")' = InHand("event"), InHand("event") => Hand("event")' = Hand("event")
  PROVE  EventsTracked'
<1>1. ASSUME ~chip'.slip PROVE InHand("event")' => Hand("event")' \in Happenings \cup {[op |-> "NoEvt", at |-> "none", val |-> {}]}
  BY <1>1 DEF EventsTracked
<1>2. ASSUME ~chip'.slip, Powered', NEW s \in Slots
      PROVE  Tracks(chip', s, InHand("event")', Hand("event")', drv'.inserted[s])
  <2>1. Tracks(chip, s, InHand("event"), Hand("event"), drv.inserted[s])
    BY <1>2 DEF EventsTracked
  <2>2. CASE InHand("event")
    BY <2>1, <2>2 DEF Tracks, LastSays, Silent, Told
  <2>3. CASE ~InHand("event")
    BY <2>1, <2>3 DEF Tracks, LastSays, Silent, Told
  <2> QED BY <2>2, <2>3
<1> QED BY <1>1, <1>2 DEF EventsTracked

LEMMA PowerStays ==
  ASSUME app'.stage = app.stage, chip'.reg = chip.reg, th'["app"] = th["app"]
  PROVE  Powered' = Powered
  BY DEF Powered, Progress, Left

-----------------------------------------------------------------------------
\* A command is sent.
LEMMA SendStep ==
  ASSUME CInv, IInv', NEW t \in Threads, Send(t)
  PROVE  CInv'
<1> DEFINE cmd == Cmd(t)
<1>1. /\ th[t].pc = "run" /\ mutex = "free" /\ mutex \notin Threads /\ drv.spi /\ chip' \in Served(chip, cmd) /\ mutex' = t
      /\ th' = [th EXCEPT ![t].pc = "wait"] /\ UNCHANGED <<buf, drv, app>>
  BY Names DEF Send, Wants
<1>2. /\ \A u \in Threads \ {t} : th'[u] = th[u]
      /\ th'[t].pc = "wait" /\ th'[t].todo = th[t].todo /\ th'[t].ret = th[t].ret /\ th'[t].val = th[t].val
  BY <1>1, PcStep DEF CInv
<1>3. \A u \in Threads : th[u].pc \notin InCall /\ ~InHand(u)
  BY <1>1, NobodyIn DEF CInv
<1>4. /\ t = "event" => cmd = GetEvt
      /\ t # "event" => cmd \in Commands /\ th[t].todo # <<>>
      /\ \A u \in Threads : Cmd(u)' = Cmd(u)
  <2>1. t # "event" => cmd \in Commands /\ th[t].todo # <<>>
    BY <1>1, Doing DEF CInv
  <2>2. \A u \in Threads : th'[u].todo = th[u].todo
    BY <1>2
  <2> QED BY <2>1, <2>2 DEF Cmd
<1> HIDE DEF cmd
<1>5. /\ chip' \in Chips /\ (chip.run => chip'.run) /\ chip'.cam = chip.cam /\ chip'.slip = chip.slip
      /\ chip'.out = chip.out \/ \E a \in Answers : chip'.out = Append(chip.out, a)
      /\ chip.short = {} /\ chip'.short # {} => chip'.out = chip.out
      /\ cmd.op # "GetEvt" => chip'.events = chip.events
      /\ cmd.op # "W" => chip'.reg = chip.reg
      /\ chip.short # {} => chip'.reg = chip.reg
  <2>1. chip \in Chips /\ cmd \in Commands \cup {GetEvt}
    BY <1>4 DEF CInv, Typed
  <2> QED BY <1>1, <2>1, ServedFacts
<1>6. (Fresh => chip.out = <<>>) /\ (~chip.slip => chip.short = {}) /\ Fresh' = Fresh
  BY <1>1, <1>5, NoneLeft DEF CInv, Fresh
<1>7. Typed'
  <2>1. \A u \in Threads : th'[u].todo = th[u].todo
    BY <1>2
  <2>2. \A u \in Threads \ {"event"} : th'[u].pc # "off" => th'[u].todo # <<>>
    BY <1>2, <1>4 DEF CInv, Typed
  <2>3. "app" \in Threads /\ Clients \subseteq Threads
    BY DEF Threads
  <2> QED BY <1>1, <1>5, <2>1, <2>2, <2>3 DEF CInv, Typed
<1>8. StageFacts'
  BY <1>1, <1>2, Names DEF CInv, StageFacts, InCall
<1>9. OneAnswer'
  <2>1. ASSUME Fresh', chip'.out # <<>> PROVE chip'.out = <<Head(chip'.out)>>
    <3>1. PICK a \in Answers : chip'.out = Append(chip.out, a)
      BY <1>5, <1>6, <2>1
    <3>2. chip'.out = Append(<<>>, a)
      BY <1>6, <2>1, <3>1
    <3>3. \A y : Append(<<>>, y) = <<Head(Append(<<>>, y))>>
      OBVIOUS
    <3> QED BY <3>2, <3>3
  <2>2. ASSUME ~chip'.slip, chip'.short # {} PROVE chip'.out = <<>>
    BY <1>5, <1>6, <2>2, NotLate
  <2> QED BY <1>1, <1>2, <2>1, <2>2 DEF OneAnswer
<1>10. AnswersMean'
  <2>1. ASSUME NEW u \in Threads \ {"event"}, InHand(u)', Fresh', (chip.slip => Cmd(u).op \notin CamOps)'
        PROVE  Means(chip, Cmd(u), Hand(u))'
    <3>1. u = t
      BY <1>2, <1>3, <2>1 DEF InHand, InCall
    <3>2. Cmd(u)' = cmd /\ cmd \in Commands
      BY <1>4, <2>1, <3>1 DEF cmd
    <3>3. chip'.out # <<>> /\ Hand(u)' = Head(chip'.out)
      BY <1>2, <2>1, <3>1 DEF InHand, Hand
    <3>4. chip.out = <<>> /\ (chip.short # {} => cmd.op \notin CamOps) /\ chip \in Chips
      BY <1>5, <1>6, <2>1, <3>2 DEF CInv, Typed
    <3>5. Means(chip', cmd, Head(chip'.out))
      BY <1>1, <3>2, <3>3, <3>4, ServedMeans
    <3> QED BY <3>2, <3>3, <3>5
  <2> QED BY <2>1 DEF AnswersMean
<1>11. t # "event" /\ t # "app" => app.stage = "up" /\ cmd \in ClientCmds
  BY <1>1, Doing DEF CInv, cmd
<1>12. t = "app" => app.stage \in {"boot", "fw", "cfg"}
  BY <1>1, Doing, Names DEF CInv
<1>13. t = "event" => app.stage \in {"callbacks", "up", "stopping"}
  BY <1>1 DEF CInv, IInv, AtWork
<1>14. t = "app" /\ Fresh /\ app.stage = "cfg" => Left \in 1..9 /\ CfgCommand(Left, cmd)
  BY <1>1, AppDoes DEF CInv, cmd
<1>15. th'["app"].todo = th["app"].todo /\ Left' = Left /\ Progress' = Progress
  BY <1>1, <1>2, Names DEF Left, Progress
<1>16. ScriptFacts'
  <2>1. BootTodo' = BootTodo /\ FwTodo' = FwTodo /\ CfgTodo' = CfgTodo
    BY <1>15 DEF BootTodo, FwTodo, CfgTodo, Left
  <2>2. ASSUME Fresh', app.stage = "cfg", Progress' PROVE CfgSoFar'
    <3>1. t = "app" /\ "app" \in Threads
      BY <1>11, <1>13, <2>2, Names
    <3>2. Cmd("app")' = cmd /\ Cmd("app") = cmd /\ cmd \in Commands
      BY <1>4, <3>1, Names DEF cmd
    <3>3. InHand("app")' = (chip'.out # <<>>) /\ Hand("app")' = Head(chip'.out)
      BY <1>2, <3>1 DEF InHand, Hand
    <3>4. InHand("app") = FALSE
      BY <1>3, <3>1 DEF InHand
    <3>5. CfgFacts(chip, Left, cmd, FALSE, Hand("app"))
      <4>1. CfgSoFar
        BY <1>6, <1>15, <2>2 DEF CInv, ScriptFacts
      <4> QED BY <3>2, <3>4, <4>1 DEF CfgSoFar
    <3>6. chip \in Chips /\ chip.out = <<>> /\ CfgCommand(Left, cmd)
      BY <1>6, <1>14, <2>2, <3>1 DEF CInv, Typed
    <3>7. CfgFacts(chip', Left, cmd, chip'.out # <<>>, Head(chip'.out))
      BY <1>1, <3>2, <3>5, <3>6, CfgSend
    <3> QED BY <1>15, <3>2, <3>3, <3>7 DEF CfgSoFar
  <2> QED BY <1>1, <1>6, <1>15, <2>1, <2>2 DEF CInv, ScriptFacts
<1>17. ChipFacts'
  <2>1. ASSUME Fresh PROVE app.stage = "boot" => cmd.op # "W"
    <3>1. app.stage = "boot" => t = "app"
      BY <1>11, <1>13
    <3>2. app.stage = "boot" => cmd = R("BOOT_Status")
      BY <1>1, <2>1, <3>1, AppDoes DEF CInv, cmd
    <3> QED BY <3>2 DEF R
  <2>2. app.stage \in {"thread", "callbacks", "stopping"} => t = "event"
    BY <1>11, <1>12
  <2>3. app.stage \notin {"down", "failed"}
    BY <1>11, <1>12, <1>13
  <2>4. t = "event" => chip'.reg = chip.reg
    BY <1>4, <1>5, Types
  <2>5. ASSUME app.stage = "up", "vcc" \in chip.reg["CFG_1"] PROVE "vcc" \in chip'.reg["CFG_1"]
    <3>1. CASE t = "event" \/ cmd.op # "W" \/ chip.short # {}
      BY <1>5, <2>4, <2>5, <3>1
    <3>2. CASE t # "event" /\ cmd.op = "W" /\ chip.short = {}
      <4>1. t # "app" /\ cmd \in ClientCmds /\ cmd \in Commands /\ chip \in Chips
        BY <1>4, <1>11, <1>12, <2>5, <3>2 DEF CInv, Typed
      <4>2. /\ chip'.reg[cmd.at] = cmd.val
            /\ \A r \in (Regs \cup Routers) \ {cmd.at} : r # "BOOT_Status" => chip'.reg[r] = chip.reg[r]
        BY <1>1, <3>2, <4>1, ServedWrite
      <4>3. cmd.at = "CFG_1" => "vcc" \in cmd.val
        BY <3>2, <4>1 DEF ClientCmds
      <4>4. "CFG_1" \in Regs
        BY DEF Regs
      <4> QED BY <2>5, <4>2, <4>3, <4>4
    <3> QED BY <3>1, <3>2
  <2>6. th'["app"] = th["app"] \/ th'["app"].pc # "off"
    BY <1>2, Names
  <2>7. t # "app" => th'["app"] = th["app"]
    BY <1>2, Names
  <2>8. t = "app" => th'["app"].pc # "off"
    BY <1>2
  <2>9. ASSUME Fresh PROVE app.stage \in {"boot", "thread", "callbacks"} => chip'.reg = chip.reg
    BY <1>5, <2>1, <2>2, <2>4, <2>9
  <2> QED BY <1>1, <1>5, <1>6, <2>3, <2>5, <2>6, <2>9 DEF CInv, ChipFacts, Configured
<1>18. EventsTracked'
  <2>1. ASSUME ~chip'.slip, Powered' PROVE Powered
    <3>1. CASE app.stage = "cfg"
      <4>1. t = "app" /\ Fresh
        BY <1>5, <1>11, <1>13, <2>1, <3>1, NotLate
      <4>2. Progress /\ Left <= 6 /\ "vcc" \in chip'.reg["CFG_1"]
        BY <1>1, <1>15, <2>1, <3>1 DEF Powered
      <4>3. CfgCommand(Left, cmd) /\ cmd \in Commands /\ chip \in Chips
        BY <1>4, <1>14, <3>1, <4>1, Names DEF CInv, Typed
      <4>4. "vcc" \in chip.reg["CFG_1"]
        <5>1. CASE cmd.op = "W" /\ chip.short = {}
          <6>1. /\ chip'.reg[cmd.at] = cmd.val
                /\ \A r \in (Regs \cup Routers) \ {cmd.at} : r # "BOOT_Status" => chip'.reg[r] = chip.reg[r]
            BY <1>1, <4>3, <5>1, ServedWrite
          <6>2. cmd.at = "CFG_1" => Left = 4
            BY <4>2, <4>3, <5>1 DEF CfgCommand, W, S, O, Pcmcia
          <6>3. Left = 4 => "vcc" \in chip.reg["CFG_1"]
            BY <3>1, <4>1, <4>2 DEF CInv, ScriptFacts, CfgSoFar, CfgFacts
          <6>4. "CFG_1" \in Regs
            BY DEF Regs
          <6> QED BY <4>2, <6>1, <6>2, <6>3, <6>4
        <5>2. CASE cmd.op # "W" \/ chip.short # {}
          BY <1>5, <4>2, <5>2
        <5> QED BY <5>1, <5>2
      <4> QED BY <3>1, <4>2, <4>4 DEF Powered
    <3>2. CASE app.stage # "cfg"
      BY <1>1, <2>1, <3>2 DEF Powered
    <3> QED BY <3>1, <3>2
  <2>2. CASE t # "event"
    <3>1. chip'.events = chip.events
      <4>1. cmd.op # "GetEvt"
        BY <1>4, <2>2, Types DEF Reads, CamOps
      <4> QED BY <1>5, <4>1
    <3>2. ~InHand("event") /\ ~InHand("event")'
      BY <1>2, <1>3, <2>2, Names DEF InHand, InCall
    <3>3. InHand("event")' = InHand("event")
      BY <3>2 DEF InHand
    <3> QED BY <1>1, <1>5, <2>1, <3>1, <3>2, <3>3, EventsStay DEF CInv
  <2>3. CASE t = "event"
    <3>1. ASSUME ~chip'.slip
          PROVE  /\ chip'.out # <<>> /\ Hand("event")' = Head(chip'.out)
                 /\ \/ chip.events = <<>> /\ chip'.events = <<>>
                       /\ Head(chip'.out) = [op |-> "NoEvt", at |-> "none", val |-> {}]
                    \/ /\ chip.events # <<>> /\ chip'.events = Tail(chip.events)
                       /\ Head(chip'.out) = Head(chip.events) /\ Head(chip.events) \in Happenings
      <4>1. chip.short = {} /\ chip.out = <<>> /\ chip \in Chips /\ chip' \in Served(chip, GetEvt)
        BY <1>1, <1>4, <1>5, <1>6, <2>3, <3>1, NotLate DEF CInv, Typed
      <4>2. \/ chip.events = <<>> /\ chip'.events = <<>>
               /\ chip'.out = Append(<<>>, [op |-> "NoEvt", at |-> "none", val |-> {}])
            \/ chip.events # <<>> /\ chip'.events = Tail(chip.events) /\ chip'.out = Append(<<>>, Head(chip.events))
        BY <4>1, ServedGetEvt
      <4>3. \A y : Append(<<>>, y) # <<>> /\ Head(Append(<<>>, y)) = y
        OBVIOUS
      <4>4. Hand("event")' = Head(chip'.out)
        BY <1>2, <2>3 DEF Hand
      <4>5. chip.events # <<>> => Head(chip.events) \in Happenings
        BY <4>1 DEF Chips
      <4> QED BY <4>2, <4>3, <4>4, <4>5
    <3>2. ~chip'.slip => InHand("event")' /\ (InHand("event")' = TRUE)
      BY <1>2, <2>3, <3>1 DEF InHand
    <3>3. InHand("event") = FALSE
      BY <1>3, Names DEF InHand
    <3>4. ASSUME ~chip'.slip, Powered', NEW s \in Slots
          PROVE  Tracks(chip', s, TRUE, Hand("event")', drv'.inserted[s])
      <4>1. Tracks(chip, s, FALSE, Hand("event"), drv.inserted[s])
        BY <1>5, <2>1, <3>3, <3>4 DEF CInv, EventsTracked
      <4>2. CASE chip.events # <<>>
        <5>1. Tracks(chip', s, TRUE, Head(chip.events), drv.inserted[s])
          BY <1>5, <3>1, <3>4, <4>1, <4>2, TracksTake DEF CInv, Typed
        <5> QED BY <1>1, <3>1, <3>4, <4>2, <5>1
      <4>3. CASE chip.events = <<>>
        <5>1. chip'.events = <<>> /\ Hand("event")' = [op |-> "NoEvt", at |-> "none", val |-> {}]
          BY <3>1, <3>4, <4>3
        <5>2. Hand("event")' \notin {Det(s, TRUE), Det(s, FALSE)}
          BY <5>1 DEF Det
        <5>3. drv.inserted[s] = chip.cam[s]
          BY <4>1, <4>3 DEF Tracks, LastSays
        <5>4. Silent(chip', s)
          BY <5>1 DEF Silent, Told
        <5> QED BY <1>1, <1>5, <5>2, <5>3, <5>4 DEF Tracks
      <4> QED BY <4>2, <4>3
    <3> QED BY <3>1, <3>2, <3>4 DEF EventsTracked
  <2> QED BY <2>2, <2>3
<1> QED BY <1>7, <1>8, <1>9, <1>10, <1>16, <1>17, <1>18 DEF CInv

\* A command has failed.  The flag of a slot may have been cleared, if no module was there.
LEMMA FailStep ==
  ASSUME CInv, IInv', NEW t \in Threads, Failed(t), th[t].pc # "off",
         \A u \in Threads \ {t} : th[u].pc \notin InCall,
         UNCHANGED <<buf, app>>,
         chip' \in Chips, chip'.reg = chip.reg, chip'.run = chip.run, chip'.cam = chip.cam,
         chip'.events = chip.events, chip.slip => chip'.slip,
         Fresh' => chip'.out = <<>>, ~chip'.slip => chip'.short = {},
         ~chip'.slip => ~InHand("event"),
         drv' \in Drivers, drv'.spi = drv.spi, drv'.stop = drv.stop,
         drv.inserted = NoFlag => drv'.inserted = NoFlag,
         ~chip'.slip /\ Powered' =>
           \A s \in Slots : \/ drv'.inserted[s] = drv.inserted[s]
                            \/ drv'.inserted[s] = FALSE /\ (~chip.cam[s] \/ Told(chip, s, TRUE))
  PROVE  CInv'
<1>1. /\ \A u \in Threads \ {t} : th'[u] = th[u]
      /\ t = "event" => th'[t].pc = "run"
      /\ t # "event" => th'[t].pc = "off" /\ th'[t].todo = <<>> /\ th'[t].ret = "ERROR" /\ th'[t].val = {}
  BY FailedStep DEF CInv
<1>2. \A u \in Threads : th'[u].pc \notin InCall
  BY <1>1 DEF InCall
<1>3. \A u \in Threads : ~InHand(u)'
  BY <1>2 DEF InHand, InCall
<1>4. Fresh' => Fresh
  BY DEF Fresh
<1>5. Typed'
  <2>1. "app" \in Threads /\ Clients \subseteq Threads /\ "event" \notin Clients
    BY Names DEF Threads
  <2>2. th'["app"].todo \in Seq(Commands) /\ \A u \in Clients : th'[u].todo \in Seq(ClientCmds)
    <3>1. <<>> \in Seq(Commands) /\ <<>> \in Seq(ClientCmds)
      OBVIOUS
    <3>2. ASSUME NEW u \in Threads \ {"event"} PROVE th'[u].todo = <<>> \/ th'[u].todo = th[u].todo
      BY <1>1
    <3> QED BY <2>1, <3>1, <3>2, Names DEF CInv, Typed
  <2>3. \A u \in Threads \ {"event"} : th'[u].pc # "off" => th'[u].todo # <<>>
    BY <1>1 DEF CInv, Typed
  <2> QED BY <2>2, <2>3 DEF CInv, Typed
<1>6. StageFacts'
  <2>1. th'["event"].pc = "off" => th["event"].pc = "off"
    BY <1>1, Names
  <2>2. th'["app"] = th["app"] \/ (th'["app"].ret = "ERROR" /\ th'["app"].val = {})
    BY <1>1, Names
  <2>3. th'["app"].pc \notin InCall
    BY <1>2, Names
  <2>4. app.stage # "down"
    BY Names DEF CInv, IInv, AtWork, Threads
  <2> QED BY <2>1, <2>2, <2>3, <2>4 DEF CInv, StageFacts
<1>7. OneAnswer'
  BY DEF OneAnswer
<1>8. AnswersMean'
  BY <1>2, NobodyMeans
<1>9. ScriptFacts'
  <2>1. CASE t = "app"
    <3>1. th'["app"].todo = <<>> /\ th'["app"].pc = "off" /\ th'["app"].ret = "ERROR"
      BY <1>1, <2>1, Names
    <3>2. BootTodo' /\ Left' = 0 /\ ~Progress'
      BY <3>1 DEF BootTodo, Left, Progress
    <3>3. FwTodo' /\ CfgTodo'
      BY <3>2 DEF FwTodo, CfgTodo
    <3> QED BY <3>2, <3>3 DEF ScriptFacts
  <2>2. CASE t # "app"
    <3>1. th'["app"] = th["app"] /\ ~InHand("app") /\ ~InHand("app")'
      BY <1>1, <1>3, <2>2, Names DEF InHand, InCall
    <3>2. InHand("app")' = InHand("app")
      BY <3>1 DEF InHand
    <3> QED BY <1>4, <3>1, <3>2, ScriptStays DEF CInv
  <2> QED BY <2>1, <2>2
<1>10. ChipFacts'
  <2>1. th'["app"] = th["app"] \/ (th'["app"].ret # "OK" /\ th'["app"].val = {})
    BY <1>1, Names
  <2> QED BY <1>4, <2>1, ChipStays DEF CInv
<1>11. EventsTracked'
  <2>1. ASSUME Powered' PROVE Powered
    <3>1. CASE t = "app"
      <4>1. ~Progress'
        BY <1>1, <3>1, Names DEF Progress
      <4> QED BY <2>1, <4>1 DEF Powered
    <3>2. CASE t # "app"
      BY <1>1, <2>1, <3>2, PowerStays, Names
    <3> QED BY <3>1, <3>2
  <2>2. ASSUME ~chip'.slip, Powered', NEW s \in Slots
        PROVE  Tracks(chip', s, InHand("event")', Hand("event")', drv'.inserted[s])
    <3>1. InHand("event") = FALSE /\ InHand("event")' = FALSE
      BY <1>3, <2>2, Names DEF InHand
    <3>2. Tracks(chip, s, FALSE, Hand("event"), drv.inserted[s])
      BY <2>1, <2>2, <3>1 DEF CInv, EventsTracked
    <3>3. chip.cam[s] \in BOOLEAN
      BY DEF CInv, Typed, Chips
    <3>4. Tracks(chip', s, FALSE, Hand("event")', drv'.inserted[s])
      <4>1. CASE LastSays(chip, s, chip.cam[s])
        BY <4>1 DEF Tracks, LastSays
      <4>2. CASE Silent(chip, s) /\ drv.inserted[s] = chip.cam[s]
        <5>1. ~Told(chip, s, TRUE)
          BY <4>2 DEF Silent
        <5>2. drv'.inserted[s] = chip.cam[s]
          BY <2>2, <3>3, <4>2, <5>1
        <5>3. Silent(chip', s)
          BY <4>2 DEF Silent, Told
        <5> QED BY <5>2, <5>3 DEF Tracks
      <4> QED BY <3>2, <4>1, <4>2 DEF Tracks
    <3> QED BY <3>1, <3>4
  <2> QED BY <1>3, <2>2, Names DEF EventsTracked
<1> QED BY <1>5, <1>6, <1>7, <1>8, <1>9, <1>10, <1>11 DEF CInv

\* A command cannot be sent.
LEMMA SendFailsStep ==
  ASSUME CInv, IInv', NEW t \in Threads, SendFails(t)
  PROVE  CInv'
<1>1. Failed(t) /\ th[t].pc = "run" /\ mutex \notin Threads /\ UNCHANGED <<chip, buf, drv, app>>
  BY Names DEF SendFails, Wants
<1>2. \A u \in Threads : th[u].pc \notin InCall /\ ~InHand(u)
  BY <1>1, NobodyIn DEF CInv
<1>3. (Fresh => chip.out = <<>>) /\ (~chip.slip => chip.short = {})
  BY <1>1, NoneLeft DEF CInv
<1>4. Fresh' => Fresh
  BY <1>1 DEF Fresh
<1> QED BY <1>1, <1>2, <1>3, <1>4, FailStep, Names DEF CInv, Typed

\* There is no answer in time.
LEMMA NoResponseStep ==
  ASSUME CInv, IInv', NEW t \in Threads, NoResponse(t)
  PROVE  CInv'
<1>1. /\ Failed(t) /\ th[t].pc = "wait" /\ UNCHANGED <<buf, drv, app>>
      /\ chip.out = <<>> \/ ~Prompt
      /\ chip' = [chip EXCEPT !.slip = TRUE]
  BY DEF NoResponse, Prompt
<1>2. \A u \in Threads \ {t} : th[u].pc \notin InCall
  BY <1>1, OnlyOne DEF CInv, InCall
<1>3. /\ chip' \in Chips /\ chip'.reg = chip.reg /\ chip'.run = chip.run /\ chip'.cam = chip.cam
      /\ chip'.events = chip.events /\ chip'.slip /\ chip'.out = chip.out
  BY <1>1 DEF CInv, Typed, Chips
<1>4. Fresh' => chip'.out = <<>>
  BY <1>1, <1>3 DEF Fresh
<1> QED BY <1>1, <1>2, <1>3, <1>4, FailStep DEF CInv, Typed

\* The answer is read.
LEMMA ReceiveStep ==
  ASSUME CInv, IInv', NEW t \in Threads, Receive(t)
  PROVE  CInv'
<1>1. /\ th[t].pc = "wait" /\ chip.out # <<>> /\ buf' = Head(chip.out) /\ chip' = [chip EXCEPT !.out = Tail(@)]
      /\ th' = [th EXCEPT ![t].pc = "got"] /\ UNCHANGED <<mutex, drv, app>>
  BY DEF Receive
<1>2. /\ \A u \in Threads \ {t} : th'[u] = th[u]
      /\ th'[t].pc = "got" /\ th'[t].todo = th[t].todo /\ th'[t].ret = th[t].ret /\ th'[t].val = th[t].val
  BY <1>1, PcStep DEF CInv
<1>3. mutex = t /\ \A u \in Threads \ {t} : th[u].pc \notin InCall /\ ~InHand(u)
  BY <1>1, OnlyOne DEF CInv, InCall
<1>4. /\ chip' \in Chips /\ chip'.reg = chip.reg /\ chip'.run = chip.run /\ chip'.cam = chip.cam /\ chip'.lpdu = chip.lpdu
      /\ chip'.events = chip.events /\ chip'.slip = chip.slip /\ chip'.short = chip.short /\ chip'.out = Tail(chip.out)
      /\ buf' \in Answers
  <2>1. chip \in Chips /\ chip.out \in Seq(Answers)
    BY DEF CInv, Typed, Chips
  <2>2. Tail(chip.out) \in Seq(Answers) /\ Head(chip.out) \in Answers
    BY <1>1, <2>1
  <2>3. chip' = [chip EXCEPT !.out = Tail(chip.out)]
    BY <1>1
  <2> QED BY <1>1, <2>1, <2>2, <2>3 DEF Chips
<1>5. /\ InHand(t) /\ InHand(t)' /\ Hand(t)' = Hand(t) /\ \A u \in Threads : InHand(u)' = InHand(u) /\ Cmd(u)' = Cmd(u)
  <2>1. InHand(t) /\ InHand(t)' /\ Hand(t)' = Hand(t)
    BY <1>1, <1>2 DEF InHand, Hand
  <2>2. \A u \in Threads \ {t} : ~InHand(u) /\ ~InHand(u)'
    BY <1>2, <1>3 DEF InHand, InCall
  <2>3. \A u \in Threads : th'[u].todo = th[u].todo
    BY <1>2
  <2>4. \A u \in Threads : InHand(u)' = InHand(u)
    BY <2>1, <2>2 DEF InHand
  <2> QED BY <2>1, <2>3, <2>4 DEF Cmd
<1>6. Fresh' = Fresh
  BY <1>4 DEF Fresh
<1>7. \A u \in Threads : InHand(u) => Hand(u)' = Hand(u)
  BY <1>3, <1>5
<1>8. Typed'
  <2>1. \A u \in Threads : th'[u].todo = th[u].todo
    BY <1>2
  <2>2. \A u \in Threads : th[u].pc = "off" => th'[u].pc = "off"
    BY <1>1, <1>2
  <2>3. "app" \in Threads /\ Clients \subseteq Threads
    BY DEF Threads
  <2> QED BY <1>1, <1>4, <2>1, <2>2, <2>3 DEF CInv, Typed
<1>9. StageFacts'
  BY <1>1, <1>2, Names DEF CInv, StageFacts, InCall
<1>10. OneAnswer'
  <2>1. ASSUME Fresh' PROVE chip'.out = <<>>
    <3>1. chip.out = <<Head(chip.out)>>
      BY <1>1, <1>6, <2>1 DEF CInv, OneAnswer
    <3>2. \A y : Tail(<<y>>) = <<>>
      OBVIOUS
    <3> QED BY <1>4, <3>1, <3>2
  <2>2. ASSUME ~chip'.slip PROVE chip'.short = {}
    BY <1>1, <1>4, <2>2 DEF CInv, OneAnswer
  <2> QED BY <2>1, <2>2 DEF OneAnswer
<1>11. AnswersMean'
  <2>1. ASSUME NEW u \in Threads \ {"event"}, InHand(u)', Fresh', (chip.slip => Cmd(u).op \notin CamOps)'
        PROVE  Means(chip, Cmd(u), Hand(u))'
    <3>1. Means(chip, Cmd(u), Hand(u))
      BY <1>4, <1>5, <1>6, <2>1 DEF CInv, AnswersMean
    <3>2. Means(chip', Cmd(u), Hand(u))
      BY <1>4, <3>1, MeansStays
    <3> QED BY <1>5, <1>7, <2>1, <3>2
  <2> QED BY <2>1 DEF AnswersMean
<1>12. /\ app'.stage = app.stage /\ th'["app"].todo = th["app"].todo /\ th'["app"].ret = th["app"].ret /\ th'["app"].val = th["app"].val
       /\ th'["app"].pc = "off" <=> th["app"].pc = "off"
  BY <1>1, <1>2, Names
<1>13. ScriptFacts'
  <2>1. BootTodo' = BootTodo /\ FwTodo' = FwTodo /\ CfgTodo' = CfgTodo /\ Left' = Left /\ Progress' = Progress
    BY <1>12 DEF BootTodo, FwTodo, CfgTodo, Left, Progress
  <2>2. CfgSoFar => CfgSoFar'
    <3>1. CASE InHand("app")
      BY <1>4, <1>5, <1>7, <2>1, <3>1, Names DEF CfgSoFar, CfgFacts
    <3>2. CASE ~InHand("app")
      BY <1>4, <1>5, <2>1, <3>2, Names DEF CfgSoFar, CfgFacts
    <3> QED BY <3>1, <3>2
  <2> QED BY <1>6, <1>12, <2>1, <2>2 DEF CInv, ScriptFacts
<1>14. ChipFacts'
  BY <1>4, <1>6, <1>12 DEF CInv, ChipFacts, Configured
<1>15. EventsTracked'
  <2>1. Powered' = Powered
    BY <1>4, <1>12 DEF Powered, Progress, Left
  <2> QED BY <1>1, <1>4, <1>5, <1>7, <2>1, Names, EventsStay DEF CInv
<1> QED BY <1>8, <1>9, <1>10, <1>11, <1>13, <1>14, <1>15 DEF CInv

\* What the clearing of flags leaves of the driver.
LEMMA ClearedFacts ==
  ASSUME NEW cmd, drv \in Drivers, drv' = Cleared(cmd)
  PROVE  /\ drv' \in Drivers /\ drv'.spi = drv.spi /\ drv'.stop = drv.stop
         /\ drv.inserted = NoFlag => drv'.inserted = NoFlag
         /\ \A s \in Slots : \/ drv'.inserted[s] = drv.inserted[s]
                             \/ drv'.inserted[s] = FALSE /\ NoCam(cmd) /\ s = cmd.at
         /\ ~NoCam(cmd) => drv'.inserted = drv.inserted
<1> DEFINE f == [s \in Slots |-> drv.inserted[s] /\ ~(NoCam(cmd) /\ s = cmd.at)]
<1>1. drv.inserted \in [Slots -> BOOLEAN]
  BY DEF Drivers
<1>2. f \in [Slots -> BOOLEAN]
  BY <1>1
<1>3. drv' = [drv EXCEPT !.inserted = f]
  BY DEF Cleared
<1>4. \A s \in Slots : f[s] = (drv.inserted[s] /\ ~(NoCam(cmd) /\ s = cmd.at))
  OBVIOUS
<1> HIDE DEF f
<1>5. drv' \in Drivers /\ drv'.spi = drv.spi /\ drv'.stop = drv.stop /\ drv'.inserted = f
  BY <1>2, <1>3 DEF Drivers
<1>6. ASSUME NEW s \in Slots
      PROVE  f[s] = drv.inserted[s] \/ (f[s] = FALSE /\ NoCam(cmd) /\ s = cmd.at)
  BY <1>1, <1>2, <1>4
<1>7. ~NoCam(cmd) => f = drv.inserted
  <2>1. ~NoCam(cmd) => \A s \in Slots : f[s] = drv.inserted[s]
    BY <1>6
  <2> QED BY <1>1, <1>2, <2>1
<1>8. drv.inserted = NoFlag => f = NoFlag
  <2>1. drv.inserted = NoFlag => \A s \in Slots : f[s] = FALSE
    BY <1>6 DEF NoFlag
  <2> QED BY <1>2, <2>1 DEF NoFlag
<1> QED BY <1>5, <1>6, <1>7, <1>8

\* What is left to do of a call that has been answered.
LEMMA RestFacts ==
  ASSUME NEW t \in Threads, NEW cmd \in Commands, cmd = Cmd(t), th[t].todo # <<>>, buf \in Answers
  PROVE  /\ th[t].todo \in Seq(Commands) => Rest(t) \in Seq(Commands)
         /\ th[t].todo \in Seq(ClientCmds) /\ cmd \in ClientCmds => Rest(t) \in Seq(ClientCmds)
         /\ cmd.op = "O" => Rest(t) = <<W(cmd.at, buf.val \cup cmd.val)>> \o Tail(th[t].todo)
         /\ cmd.op = "S" /\ ~(cmd.val \subseteq buf.val) => Rest(t) = th[t].todo
         /\ cmd.op # "O" /\ (cmd.op = "S" => cmd.val \subseteq buf.val) => Rest(t) = Tail(th[t].todo)
<1> DEFINE w == W(cmd.at, buf.val \cup cmd.val)
<1>1. /\ cmd.op = "O" => Rest(t) = <<w>> \o Tail(th[t].todo)
      /\ cmd.op = "S" /\ ~(cmd.val \subseteq buf.val) => Rest(t) = th[t].todo
      /\ cmd.op # "O" /\ (cmd.op = "S" => cmd.val \subseteq buf.val) => Rest(t) = Tail(th[t].todo)
  BY DEF Rest
<1>2. cmd.op = "O" => w \in Commands
  <2>1. cmd.op = "O" => cmd.at \in Regs \cup Routers /\ cmd.val \in SUBSET Values
    BY Types DEF Reads
  <2>2. buf.val \in SUBSET Values
    BY DEF Answers
  <2> QED BY <2>1, <2>2 DEF W, Commands
<1> HIDE DEF w
<1>3. ASSUME th[t].todo \in Seq(Commands) PROVE Rest(t) \in Seq(Commands)
  <2>1. Tail(th[t].todo) \in Seq(Commands)
    BY <1>3
  <2>2. cmd.op = "O" => <<w>> \o Tail(th[t].todo) \in Seq(Commands)
    BY <1>2, <2>1
  <2> QED BY <1>1, <1>3, <2>1, <2>2
<1>4. ASSUME th[t].todo \in Seq(ClientCmds), cmd \in ClientCmds PROVE Rest(t) \in Seq(ClientCmds)
  <2>1. Tail(th[t].todo) \in Seq(ClientCmds) /\ cmd.op # "O"
    BY <1>4 DEF ClientCmds
  <2> QED BY <1>1, <1>4, <2>1
<1> QED BY <1>1, <1>3, <1>4 DEF w

-----------------------------------------------------------------------------
\* What is known of the rest of a sequence.
LEMMA TailFacts ==
  ASSUME NEW T, NEW s \in Seq(T), s # <<>>
  PROVE  /\ Len(s) \in Nat \ {0} /\ Head(s) = s[1] /\ Head(s) \in T
         /\ Tail(s) \in Seq(T) /\ Len(Tail(s)) = Len(s) - 1
         /\ \A i \in 1..(Len(s) - 1) : Tail(s)[i] = s[i + 1]
  OBVIOUS

\* A command of the configuration has been answered.
LEMMA CfgFinish ==
  ASSUME CInv, th["app"].pc = "got", app.stage = "cfg", Fresh,
         Matches(Cmd("app"), buf), Effect(chip, Cmd("app"), buf),
         th'["app"].todo = Rest("app"), th'["app"].pc \notin InCall, chip' = chip
  PROVE  CfgTodo' /\ CfgSoFar' /\ (Left' <= 6 /\ "vcc" \in chip.reg["CFG_1"] => Left <= 6)
<1> DEFINE cmd == Cmd("app")
           n == Left
           todo == th["app"].todo
           new == th'["app"].todo
<1>1. /\ todo # <<>> /\ todo \in Seq(Commands) /\ cmd = Head(todo) /\ cmd \in Commands
      /\ n \in 1..9 /\ CfgCommand(n, cmd)
  BY Doing, AppDoes, Names DEF CInv
<1>2. CfgFacts(chip, n, cmd, TRUE, buf)
  <2>1. CfgSoFar
    BY DEF CInv, ScriptFacts, Progress
  <2>2. InHand("app") = TRUE /\ Hand("app") = buf
    BY DEF InHand, Hand
  <2> QED BY <2>1, <2>2 DEF CfgSoFar
<1>3. InHand("app")' = FALSE
  BY DEF InHand, InCall
<1>4. CfgTodo
  BY DEF CInv, ScriptFacts
<1>5. Left' = Len(new) /\ n = Len(todo) /\ Cmd("app")' = Head(new)
  BY Names DEF Left, Cmd
<1>6. /\ cmd.op = "O" => new = <<W(cmd.at, buf.val \cup cmd.val)>> \o Tail(todo)
      /\ cmd.op = "S" /\ ~(cmd.val \subseteq buf.val) => new = todo
      /\ cmd.op # "O" /\ (cmd.op = "S" => cmd.val \subseteq buf.val) => new = Tail(todo)
  <2>1. "app" \in Threads /\ buf \in Answers
    BY Names DEF CInv, Typed
  <2> QED BY <1>1, <2>1, RestFacts
<1>7. \A x : /\ cmd.op = "O" => W(cmd.at, buf.val \cup cmd.val) = Pcmcia /\ CfgFacts(chip, n, Pcmcia, FALSE, x)
             /\ cmd.op = "S" => CfgFacts(chip, n, cmd, FALSE, x)
             /\ cmd.op = "W" \/ (cmd.op = "S" /\ cmd.val \subseteq buf.val) =>
                  \A next : (n = 5 => next.op = "O") => CfgFacts(chip, n - 1, next, FALSE, x)
  BY <1>1, <1>2, CfgDone DEF CInv, Typed
<1>8. cmd.op \in {"W", "S", "O"}
  BY <1>1, CfgOps
<1>9. \A i \in 1..n : todo[i] = Cfg[i + 9 - n] \/ (n = 4 /\ i = 1 /\ todo[i] = Pcmcia)
  BY <1>4 DEF CfgTodo
<1>f. CfgSoFar' = CfgFacts(chip, Len(new), Head(new), FALSE, Hand("app")')
  BY <1>3, <1>5 DEF CfgSoFar
<1>t. CfgTodo' = (/\ Len(new) \in 0..9
                  /\ \A i \in 1..Len(new) : \/ new[i] = Cfg[i + 9 - Len(new)]
                                            \/ Len(new) = 4 /\ i = 1 /\ new[i] = Pcmcia)
  BY DEF CfgTodo, Left
<1>n. Left = n /\ n \in Nat /\ Len(todo) = n
  BY <1>1, <1>5
<1>m. Matches(cmd, buf)
  OBVIOUS
<1> HIDE DEF cmd, n, todo, new
<1>10. CASE cmd.op = "O"
  <2>1. n = 4
    BY <1>1, <1>10 DEF CfgCommand, W, S, O, Pcmcia
  <2>2. new = <<Pcmcia>> \o Tail(todo)
    BY <1>6, <1>7, <1>10
  <2>3. Len(new) = 4 /\ new[1] = Pcmcia /\ Head(new) = Pcmcia /\ \A i \in 2..4 : new[i] = todo[i]
    <3>1. Tail(todo) \in Seq(Commands) /\ Len(Tail(todo)) = 3 /\ \A i \in 1..3 : Tail(todo)[i] = todo[i + 1]
      <4>1. 1..(Len(todo) - 1) = 1..3 /\ Len(todo) - 1 = 3
        BY <1>n, <2>1
      <4> QED BY <1>1, <4>1, TailFacts
    <3> DEFINE rest == Tail(todo)
    <3>2. \A p : /\ Len(<<p>> \o rest) = 4 /\ (<<p>> \o rest)[1] = p /\ Head(<<p>> \o rest) = p
                 /\ \A i \in 2..4 : (<<p>> \o rest)[i] = rest[i - 1]
      <4> HIDE DEF rest
      <4> QED BY <3>1 DEF rest
    <3> HIDE DEF rest
    <3>3. \A i \in 2..4 : rest[i - 1] = todo[i]
      BY <3>1 DEF rest
    <3> QED BY <2>2, <3>2, <3>3 DEF rest
  <2>4. CfgTodo'
    <3>1. ASSUME NEW i \in 1..4 PROVE new[i] = Cfg[i + 9 - 4] \/ (i = 1 /\ new[i] = Pcmcia)
      BY <1>9, <2>1, <2>3
    <3> QED BY <1>t, <2>3, <3>1
  <2>5. CfgSoFar'
    BY <1>7, <1>10, <1>f, <2>1, <2>3
  <2> QED BY <1>n, <2>1, <2>4, <2>5
<1>11. CASE cmd.op = "S" /\ ~(cmd.val \subseteq buf.val)
  <2>1. new = todo
    BY <1>6, <1>11
  <2>2. CfgTodo' /\ Left' = n
    <3>1. Len(new) = n /\ n \in 0..9 /\ Left' = n
      <4>1. Len(new) = n
        BY <1>n, <2>1
      <4>2. Left' = Len(new)
        BY <1>5
      <4>3. n \in 0..9
        BY <1>1
      <4> QED BY <4>1, <4>2, <4>3
    <3>2. \A i \in 1..n : new[i] = Cfg[i + 9 - n] \/ (n = 4 /\ i = 1 /\ new[i] = Pcmcia)
      BY <1>9, <2>1
    <3> QED BY <1>t, <3>1, <3>2
  <2>3. CfgSoFar'
    BY <1>1, <1>5, <1>7, <1>11, <1>f, <2>1
  <2> QED BY <1>n, <2>2, <2>3
<1>12. CASE cmd.op = "W" \/ (cmd.op = "S" /\ cmd.val \subseteq buf.val)
  <2>1. new = Tail(todo)
    BY <1>6, <1>12
  <2>2. Len(new) = n - 1 /\ \A i \in 1..(n - 1) : new[i] = todo[i + 1]
    BY <1>1, <1>n, <2>1
  <2>3. \A i \in 1..(n - 1) : new[i] = Cfg[i + 9 - (n - 1)]
    <3>1. ASSUME NEW i \in 1..(n - 1) PROVE new[i] = Cfg[i + 9 - (n - 1)]
      <4>1. i + 1 \in 1..n /\ i + 1 # 1 /\ (i + 1) + 9 - n = i + 9 - (n - 1)
        BY <1>1
      <4> QED BY <1>9, <2>2, <4>1
    <3> QED BY <3>1
  <2>4. CfgTodo'
    BY <1>1, <1>n, <1>t, <2>2, <2>3
  <2>5. n = 5 => Head(new).op = "O"
    <3>1. ASSUME n = 5 PROVE Head(new).op = "O"
      <4>1. Head(new) = new[1] /\ 1 \in 1..(n - 1) /\ 1 + 9 - (n - 1) = 6
        <5>1. new \in Seq(Commands) /\ Len(new) = 4
          <6>1. Tail(todo) \in Seq(Commands)
            BY <1>1, TailFacts
          <6>2. n - 1 = 4
            BY <3>1
          <6> QED BY <2>1, <2>2, <6>1, <6>2
        <5>2. Head(new) = new[1]
          BY <5>1
        <5> QED BY <3>1, <5>2
      <4>2. Cfg[10 - 4] = O("CFG_1", {"pcmcia"}) /\ 10 - 4 = 6 /\ 4 \in 1..9
        BY CfgIs
      <4>3. Head(new) = O("CFG_1", {"pcmcia"})
        BY <2>3, <4>1, <4>2
      <4> QED BY <4>3 DEF O
    <3> QED BY <3>1
  <2>6. CfgSoFar'
    <3>1. \A next : (n = 5 => next.op = "O") => CfgFacts(chip, n - 1, next, FALSE, Hand("app")')
      BY <1>7, <1>12
    <3> DEFINE k == n - 1
    <3>2. \A next : (n = 5 => next.op = "O") => CfgFacts(chip, k, next, FALSE, Hand("app")')
      BY <3>1
    <3>3. Len(new) = k
      BY <2>2
    <3> HIDE DEF k
    <3> QED BY <1>f, <2>5, <3>2, <3>3
  <2>7. Left' <= 6 /\ "vcc" \in chip.reg["CFG_1"] => n <= 6
    <3>1. CASE n = 7
      <4>1. cmd = W("CFG_1", {})
        BY <1>1, <3>1 DEF CfgCommand
      <4>2. buf.op = "W"
        BY <1>m, <4>1 DEF Matches, W, Reads
      <4> QED BY <1>2, <3>1, <4>2 DEF CfgFacts
    <3>2. CASE n # 7
      <4>1. Left' = n - 1 /\ n \in Nat
        BY <1>5, <1>n, <2>2
      <4>2. n - 1 <= 6 => n <= 6
        BY <3>2, <4>1
      <4> QED BY <4>1, <4>2
    <3> QED BY <3>1, <3>2
  <2> QED BY <1>n, <2>4, <2>6, <2>7
<1> QED BY <1>8, <1>10, <1>11, <1>12

\* A command of the download has been answered.
LEMMA FwFinish ==
  ASSUME CInv, th["app"].pc = "got", app.stage = "fw",
         th'["app"].todo = Rest("app")
  PROVE  FwTodo' /\ (Rest("app") = <<>> => Cmd("app") = INIT)
<1> DEFINE todo == th["app"].todo
           new == th'["app"].todo
           n == Len(todo)
<1>1. /\ todo # <<>> /\ todo \in Seq(Commands) /\ Cmd("app") = Head(todo) /\ Cmd("app") \in Commands
  BY Doing, Names DEF CInv
<1>2. (\A i \in 1..n : todo[i].op \in {"W", "V", "INIT"}) /\ (n > 0 => todo[n] = INIT)
  BY DEF CInv, ScriptFacts, FwTodo, Left
<1>3. FwTodo' = ((\A i \in 1..Len(new) : new[i].op \in {"W", "V", "INIT"}) /\ (Len(new) > 0 => new[Len(new)] = INIT))
  BY DEF FwTodo, Left
<1>4. Rest("app") = new
  OBVIOUS
<1> HIDE DEF todo, new
<1>5. /\ n \in Nat \ {0} /\ Head(todo) = todo[1] /\ Len(Tail(todo)) = n - 1
      /\ \A i \in 1..(n - 1) : Tail(todo)[i] = todo[i + 1]
  BY <1>1, TailFacts
<1> HIDE DEF n
<1>6. Cmd("app") = todo[1] /\ todo[1].op \in {"W", "V", "INIT"}
  BY <1>1, <1>2, <1>5
<1>7. new = Tail(todo)
  <2>1. "app" \in Threads /\ buf \in Answers /\ th["app"].todo # <<>>
    BY <1>1, Names DEF CInv, Typed, todo
  <2>2. Cmd("app").op \notin {"O", "S"}
    BY <1>6
  <2>3. Rest("app") = Tail(th["app"].todo)
    BY <1>1, <2>1, <2>2, RestFacts
  <2> QED BY <1>4, <2>3 DEF todo
<1>8. Len(new) = n - 1 /\ \A i \in 1..(n - 1) : new[i] = todo[i + 1]
  BY <1>5, <1>7
<1>9. \A i \in 1..Len(new) : new[i].op \in {"W", "V", "INIT"}
  <2>1. ASSUME NEW i \in 1..Len(new) PROVE new[i].op \in {"W", "V", "INIT"}
    <3>1. i \in 1..(n - 1) /\ i + 1 \in 1..n
      BY <1>5, <1>8
    <3> QED BY <1>2, <1>8, <3>1
  <2> QED BY <2>1
<1>10. Len(new) > 0 => new[Len(new)] = INIT
  <2>1. ASSUME Len(new) > 0 PROVE new[Len(new)] = INIT
    <3>1. n - 1 \in 1..(n - 1) /\ (n - 1) + 1 = n /\ n > 0
      BY <1>5, <1>8, <2>1
    <3>2. new[n - 1] = todo[n]
      BY <1>8, <3>1
    <3> QED BY <1>2, <1>8, <3>1, <3>2
  <2> QED BY <2>1
<1>11. new = <<>> => Cmd("app") = INIT
  <2>1. ASSUME new = <<>> PROVE Cmd("app") = INIT
    <3>1. Len(new) = 0
      BY <2>1
    <3>2. n = 1
      BY <1>5, <1>8, <3>1
    <3> QED BY <1>2, <1>6, <3>2
  <2> QED BY <2>1
<1> QED BY <1>3, <1>4, <1>9, <1>10, <1>11

\* The answer has been read: it is the one to the command, or the call ends.
LEMMA FinishStep ==
  ASSUME CInv, IInv', NEW t \in Threads, Finish(t)
  PROVE  CInv'
<1> DEFINE cmd == Cmd(t)
           rest == Rest(t)
           r == [pc |-> IF rest = <<>> THEN "off" ELSE "run", todo |-> rest, ret |-> "OK", val |-> buf.val]
           good == Accepts(cmd) /\ (cmd.op = "V" => buf.val = cmd.val)
<1>1. /\ t # "event" /\ th[t].pc = "got" /\ mutex = t /\ drv' = Cleared(cmd) /\ UNCHANGED <<chip, buf, app>>
      /\ IF good THEN th' = [th EXCEPT ![t] = r] ELSE Failed(t)
  BY DEF Finish
<1>2. cmd \in Commands /\ th[t].todo # <<>> /\ th[t].todo \in Seq(Commands) /\ th[t].pc # "off" /\ buf \in Answers
  BY <1>1, Doing DEF CInv, Typed
<1>3. \A u \in Threads \ {t} : th[u].pc \notin InCall /\ ~InHand(u)
  BY <1>1, OnlyOne DEF CInv, InCall
<1>4. (Fresh => chip.out = <<>>) /\ (~chip.slip => chip.short = {})
  BY <1>1, NoneLeft DEF CInv
<1>5. Fresh /\ (chip.slip => cmd.op \notin CamOps) => Means(chip, cmd, buf)
  BY <1>1 DEF CInv, AnswersMean, InHand, Hand
<1>r. r.pc = (IF rest = <<>> THEN "off" ELSE "run") /\ r.todo = rest /\ r.ret = "OK" /\ r.val = buf.val
  OBVIOUS
<1>c. /\ drv' \in Drivers /\ drv'.spi = drv.spi /\ drv'.stop = drv.stop
      /\ drv.inserted = NoFlag => drv'.inserted = NoFlag
      /\ \A s \in Slots : \/ drv'.inserted[s] = drv.inserted[s]
                          \/ drv'.inserted[s] = FALSE /\ NoCam(cmd) /\ s = cmd.at
      /\ ~NoCam(cmd) => drv'.inserted = drv.inserted
  <2>1. drv \in Drivers
    BY DEF CInv, Typed
  <2> HIDE DEF cmd
  <2> QED BY <1>1, <2>1, ClearedFacts
<1> HIDE DEF r, rest, cmd
<1>6. CASE ~good
  <2>1. Failed(t)
    BY <1>1, <1>6
  <2>2. ASSUME ~chip.slip, NEW s \in Slots, NoCam(cmd), s = cmd.at
        PROVE  ~chip.cam[s] \/ Told(chip, s, TRUE)
    BY <1>5, <2>2, NotLate DEF NoCam, Means
  <2>3. \A s \in Slots : ~chip.slip =>
          \/ drv'.inserted[s] = drv.inserted[s]
          \/ drv'.inserted[s] = FALSE /\ (~chip.cam[s] \/ Told(chip, s, TRUE))
    BY <1>c, <2>2
  <2>4. Fresh' = Fresh
    BY <1>1 DEF Fresh
  <2>5. ~InHand("event")
    BY <1>1, <1>3, Names
  <2> QED BY <1>1, <1>2, <1>3, <1>4, <1>c, <2>1, <2>3, <2>4, <2>5, FailStep DEF CInv, Typed
<1>7. CASE good
  <2>1. th'[t] = r /\ \A u \in Threads \ {t} : th'[u] = th[u]
    BY <1>1, <1>7, RecordStep DEF CInv
  <2>2. Matches(cmd, buf) /\ drv'.inserted = drv.inserted
    BY <1>7, <1>c DEF Accepts, Matches
  <2>3. Fresh /\ (chip.slip => cmd.op \notin CamOps) => Effect(chip, cmd, buf)
    BY <1>5, <2>2 DEF Means
  <2>4. /\ rest \in Seq(Commands)
        /\ th[t].todo \in Seq(ClientCmds) /\ cmd \in ClientCmds => rest \in Seq(ClientCmds)
        /\ cmd.op \notin {"O", "S"} => rest = Tail(th[t].todo)
    BY <1>2, RestFacts DEF rest, cmd
  <2>5. \A u \in Threads : th'[u].pc \notin InCall
    BY <1>3, <1>r, <2>1 DEF InCall
  <2>6. \A u \in Threads : ~InHand(u)'
    BY <2>5 DEF InHand, InCall
  <2>7. Fresh' = Fresh /\ chip' = chip /\ buf' = buf /\ app' = app
    BY <1>1 DEF Fresh
  <2>8. Typed'
    <3>1. th'["app"].todo \in Seq(Commands)
      BY <1>r, <2>1, <2>4, Names DEF CInv, Typed
    <3>2. ASSUME NEW u \in Clients PROVE th'[u].todo \in Seq(ClientCmds)
      <4>1. u \in Threads /\ u # "app"
        BY Names DEF Threads
      <4>2. u = t => th[t].todo \in Seq(ClientCmds) /\ cmd \in ClientCmds
        BY <1>1, <1>2, <4>1, Doing DEF CInv, cmd
      <4> QED BY <1>r, <2>1, <2>4, <4>1, <4>2 DEF CInv, Typed
    <3>3. \A u \in Threads \ {"event"} : th'[u].pc # "off" => th'[u].todo # <<>>
      BY <1>r, <2>1 DEF CInv, Typed
    <3> QED BY <1>c, <2>7, <3>1, <3>2, <3>3 DEF CInv, Typed
  <2>9. StageFacts'
    <3>1. th'["event"] = th["event"]
      BY <1>1, <2>1, Names
    <3>2. th'["app"] = th["app"] \/ th["app"].pc \in InCall
      BY <1>1, <2>1, Names DEF InCall
    <3>3. th'["app"].pc \notin InCall
      BY <2>5, Names
    <3>4. app.stage # "down"
      BY <1>2, Names DEF CInv, IInv, AtWork, Threads
    <3> QED BY <1>c, <2>7, <3>1, <3>2, <3>3, <3>4 DEF CInv, StageFacts
  <2>10. OneAnswer'
    BY <1>4, <2>7 DEF OneAnswer
  <2>11. AnswersMean'
    BY <2>5, NobodyMeans
  <2>a. t # "app" => th'["app"] = th["app"]
    BY <2>1, Names
  <2>b. t = "app" => /\ app.stage \in {"boot", "fw", "cfg"}
                     /\ th'["app"].todo = Rest("app") /\ th["app"].pc = "got" /\ cmd = Cmd("app")
    BY <1>1, <1>2, <1>r, <2>1, Doing DEF CInv, rest, cmd
  <2>d. ASSUME t = "app", app.stage = "cfg", Fresh
        PROVE  CfgTodo' /\ CfgSoFar' /\ (Left' <= 6 /\ "vcc" \in chip.reg["CFG_1"] => Left <= 6)
    <3>1. Effect(chip, cmd, buf)
      <4>1. cmd.op \notin CamOps
        BY <1>2, <2>d, AppDoes DEF CInv, cmd
      <4> QED BY <2>3, <2>d, <4>1
    <3> QED BY <2>2, <2>5, <2>7, <2>b, <2>d, <3>1, CfgFinish, Names
  <2>e. ASSUME t = "app", app.stage = "fw" PROVE FwTodo' /\ (rest = <<>> => cmd = INIT)
    BY <2>b, <2>e, FwFinish DEF rest
  <2>f. ASSUME t = "app", app.stage = "boot"
        PROVE  rest = <<>> /\ cmd = R("BOOT_Status")
    <3>1. th["app"].todo = <<R("BOOT_Status")>>
      BY <1>2, <2>f DEF CInv, ScriptFacts, BootTodo
    <3>2. \A x : Head(<<x>>) = x /\ Tail(<<x>>) = <<>>
      OBVIOUS
    <3>3. cmd = R("BOOT_Status")
      BY <2>f, <3>1, <3>2, Names DEF cmd, Cmd
    <3>4. cmd.op = "R"
      BY <3>3 DEF R
    <3> QED BY <2>4, <2>f, <3>1, <3>2, <3>3, <3>4
  <2>12. ScriptFacts'
    <3>1. CASE t = "app"
      <4>1. app.stage = "boot" => BootTodo'
        BY <2>b, <2>f, <3>1 DEF BootTodo, rest
      <4> QED BY <2>7, <2>b, <2>d, <2>e, <3>1, <4>1 DEF ScriptFacts
    <3>2. CASE t # "app"
      <4>1. ~InHand("app") /\ ~InHand("app")'
        BY <1>3, <2>6, <3>2, Names
      <4>2. InHand("app")' = InHand("app")
        BY <4>1 DEF InHand
      <4> QED BY <2>7, <2>a, <3>2, <4>1, <4>2, ScriptStays DEF CInv
    <3> QED BY <3>1, <3>2
  <2>13. ChipFacts'
    <3>1. CASE t = "app"
      <4>1. ASSUME Fresh PROVE Effect(chip, cmd, buf)
        <5>1. cmd.op \notin CamOps
          BY <1>2, <3>1, <4>1, AppDoes DEF CInv, cmd
        <5> QED BY <2>3, <4>1, <5>1
      <4>2. th'["app"].val = buf.val /\ (th'["app"].pc = "off" => rest = <<>>)
        BY <1>r, <2>1, <3>1
      <4>3. ASSUME Fresh, app.stage = "boot", buf.val = {"ok"} PROVE chip.reg["BOOT_Status"] = {"ok"}
        <5>1. cmd = R("BOOT_Status") /\ cmd.op \in Reads /\ cmd.at = "BOOT_Status"
          BY <2>f, <3>1, <4>3 DEF R, Reads
        <5>2. Holds(chip, "BOOT_Status", buf.val)
          BY <4>1, <4>3, <5>1 DEF Effect
        <5> QED BY <4>3, <5>2 DEF Holds
      <4>4. ASSUME Fresh, app.stage = "fw", rest = <<>> PROVE chip.run
        <5>1. cmd.op = "INIT"
          BY <2>e, <3>1, <4>4, Types
        <5> QED BY <4>1, <4>4, <5>1 DEF Effect
      <4> QED BY <2>7, <2>b, <3>1, <4>2, <4>3, <4>4 DEF CInv, ChipFacts
    <3>2. CASE t # "app"
      BY <2>7, <2>a, <3>2, ChipStays DEF CInv
    <3> QED BY <3>1, <3>2
  <2>14. EventsTracked'
    <3>1. ASSUME ~chip'.slip, Powered' PROVE Powered
      <4>1. CASE t = "app"
        <5>1. Fresh /\ Progress
          BY <1>2, <2>7, <3>1, <4>1, NotLate DEF Progress
        <5> QED BY <2>7, <2>b, <2>d, <3>1, <4>1, <5>1 DEF Powered
      <4>2. CASE t # "app"
        BY <2>7, <2>a, <3>1, <4>2, PowerStays
      <4> QED BY <4>1, <4>2
    <3>2. ~InHand("event") /\ ~InHand("event")'
      BY <1>1, <1>3, <2>6, Names
    <3>3. InHand("event")' = InHand("event")
      BY <3>2 DEF InHand
    <3> QED BY <2>2, <2>7, <3>1, <3>2, <3>3, EventsStay DEF CInv
  <2> QED BY <2>8, <2>9, <2>10, <2>11, <2>12, <2>13, <2>14 DEF CInv
<1> QED BY <1>6, <1>7

-----------------------------------------------------------------------------
\* The thread of the driver handles an event.
LEMMA HandleEventStep ==
  ASSUME CInv, IInv', NEW t \in Threads, HandleEvent(t)
  PROVE  CInv'
<1> DEFINE pc == IF buf.op \in {"Det", "Data"} THEN "told" ELSE "run"
<1>1. /\ t = "event" /\ th[t].pc = "got" /\ mutex = t /\ UNCHANGED <<chip, buf, app>>
      /\ drv' = IF buf.op = "Det" THEN [drv EXCEPT !.inserted[buf.at] = buf.val = {"in"}] ELSE drv
      /\ th' = [th EXCEPT ![t].pc = pc] /\ pc \in {"told", "run"}
  BY DEF HandleEvent
<1> HIDE DEF pc
<1>2. /\ \A u \in Threads \ {t} : th'[u] = th[u]
      /\ th'[t].pc = pc
  BY <1>1, PcStep DEF CInv
<1>3. \A u \in Threads \ {t} : th[u].pc \notin InCall /\ ~InHand(u)
  BY <1>1, OnlyOne DEF CInv, InCall
<1>4. (Fresh => chip.out = <<>>) /\ (~chip.slip => chip.short = {})
  BY <1>1, NoneLeft DEF CInv
<1>5. app.stage \in {"callbacks", "up", "stopping"}
  BY <1>1 DEF CInv, IInv, AtWork
<1>6. /\ drv' \in Drivers /\ drv'.spi = drv.spi /\ drv'.stop = drv.stop
      /\ \A s \in Slots : drv'.inserted[s] = IF buf.op = "Det" /\ buf.at = s THEN buf.val = {"in"} ELSE drv.inserted[s]
  <2> DEFINE in == buf.val = {"in"}
             f == [drv.inserted EXCEPT ![buf.at] = in]
  <2>1. drv \in Drivers /\ drv.inserted \in [Slots -> BOOLEAN] /\ in \in BOOLEAN
    BY DEF CInv, Typed, Drivers
  <2>i. in = (buf.val = {"in"})
    OBVIOUS
  <2> HIDE DEF in
  <2>2. f \in [Slots -> BOOLEAN] /\ \A s \in Slots : f[s] = IF buf.at = s THEN in ELSE drv.inserted[s]
    BY <2>1
  <2>f. f = [drv.inserted EXCEPT ![buf.at] = in]
    OBVIOUS
  <2> HIDE DEF f
  <2>3. CASE buf.op = "Det"
    <3>1. drv' = [drv EXCEPT !.inserted = f]
      BY <1>1, <2>1, <2>3, <2>f DEF Drivers, in
    <3>2. drv' \in Drivers /\ drv'.spi = drv.spi /\ drv'.stop = drv.stop /\ drv'.inserted = f
      BY <2>1, <2>2, <3>1 DEF Drivers
    <3>3. \A s \in Slots : drv'.inserted[s] = IF buf.at = s THEN in ELSE drv.inserted[s]
      BY <2>2, <3>2
    <3> QED BY <2>3, <2>i, <3>2, <3>3
  <2>4. CASE buf.op # "Det"
    BY <1>1, <2>1, <2>4
  <2> QED BY <2>3, <2>4
<1>7. Fresh' = Fresh
  BY <1>1 DEF Fresh
<1>8. th'["app"] = th["app"] /\ \A u \in Clients : th'[u] = th[u]
  BY <1>1, <1>2, Names DEF Threads
<1>9. Typed'
  <2>1. \A u \in Threads \ {"event"} : th'[u] = th[u]
    BY <1>1, <1>2
  <2> QED BY <1>1, <1>6, <1>8, <2>1 DEF CInv, Typed
<1>10. StageFacts'
  BY <1>1, <1>2, <1>5, <1>6, <1>8 DEF CInv, StageFacts
<1>11. OneAnswer'
  BY <1>1, <1>4, <1>7 DEF OneAnswer
<1>12. AnswersMean'
  <2>1. \A u \in Threads \ {"event"} : th'[u].pc \notin InCall
    BY <1>1, <1>2, <1>3
  <2> QED BY <2>1, NobodyMeans
<1>13. ScriptFacts' /\ ChipFacts'
  <2>1. ~InHand("app")
    BY <1>1, <1>3, Names
  <2>2. InHand("app")' = InHand("app")
    BY <1>1, <1>8 DEF InHand
  <2> QED BY <1>1, <1>7, <1>8, <2>1, <2>2, ScriptStays, ChipStays DEF CInv
<1>14. EventsTracked'
  <2>1. InHand("event") = TRUE /\ Hand("event") = buf /\ InHand("event")' = FALSE
    BY <1>1, <1>2 DEF InHand, Hand
  <2>2. ASSUME ~chip.slip, Powered', NEW s \in Slots
        PROVE  Tracks(chip', s, FALSE, Hand("event")', drv'.inserted[s])
    <3>1. Powered
      BY <1>1, <1>8, <2>2, PowerStays
    <3>2. Tracks(chip, s, TRUE, buf, drv.inserted[s])
      BY <2>1, <2>2, <3>1 DEF CInv, EventsTracked
    <3>3. buf \in Happenings \cup {[op |-> "NoEvt", at |-> "none", val |-> {}]}
      BY <2>1, <2>2 DEF CInv, EventsTracked
    <3>4. drv'.inserted[s] = IF buf.op = "Det" /\ buf.at = s THEN buf.val = {"in"} ELSE drv.inserted[s]
      BY <1>6
    <3>5. chip \in Chips
      BY DEF CInv, Typed
    <3>6. Tracks(chip, s, FALSE, Hand("event")', drv'.inserted[s])
      BY <3>2, <3>3, <3>4, <3>5, TracksHandle
    <3> QED BY <1>1, <3>6
  <2> QED BY <1>1, <2>1, <2>2 DEF EventsTracked
<1> QED BY <1>9, <1>10, <1>11, <1>12, <1>13, <1>14 DEF CInv

\* The thread of the driver goes on, or ends.
LEMMA EventThreadStep ==
  ASSUME CInv, IInv', Tell \/ LeaveThread
  PROVE  CInv'
<1>1. /\ UNCHANGED <<chip, buf, drv, app>> /\ th["event"].pc \in {"told", "run"}
      /\ th["event"].pc = "run" => drv.stop /\ mutex' = mutex
      /\ th["event"].pc = "told" => mutex = "event" /\ mutex' = "free"
      /\ \E r : /\ th' = [th EXCEPT !["event"] = r]
                /\ r.pc = "run" \/ (r.pc = "off" /\ drv.stop)
  <2>1. CASE Tell
    <3>1. th' = [th EXCEPT !["event"].pc = "run"]
      BY <2>1 DEF Tell
    <3>2. th' = [th EXCEPT !["event"] = [th["event"] EXCEPT !.pc = "run"]]
      BY <3>1
    <3>3. [th["event"] EXCEPT !.pc = "run"].pc = "run"
      <4>1. th["event"] = [pc |-> th["event"].pc, todo |-> th["event"].todo, ret |-> th["event"].ret, val |-> th["event"].val]
        BY Names DEF CInv, IInv, Shape
      <4> QED BY <4>1
    <3> QED BY <2>1, <3>2, <3>3 DEF Tell
  <2>2. CASE LeaveThread
    <3>1. th' = [th EXCEPT !["event"] = Idle] /\ Idle.pc = "off"
      BY <2>2 DEF LeaveThread, Idle
    <3> QED BY <2>2, <3>1 DEF LeaveThread
  <2> QED BY <2>1, <2>2
<1>2. PICK r : th' = [th EXCEPT !["event"] = r] /\ (r.pc = "run" \/ (r.pc = "off" /\ drv.stop))
  BY <1>1
<1>3. th'["event"] = r /\ \A u \in Threads \ {"event"} : th'[u] = th[u]
  BY <1>2, RecordStep, Names DEF CInv
<1>4. /\ th'["app"] = th["app"] /\ \A u \in Clients : th'[u] = th[u]
      /\ \A u \in Threads \ {"event"} : Cmd(u)' = Cmd(u) /\ InHand(u)' = InHand(u) /\ Hand(u)' = Hand(u)
  BY <1>1, <1>3, Names DEF Threads, InHand, Hand, Cmd
<1>5. InHand("event") = FALSE /\ InHand("event")' = FALSE
  BY <1>1, <1>2, <1>3 DEF InHand
<1>6. Fresh' = Fresh
  BY <1>1 DEF Fresh
<1>7. Typed'
  BY <1>1, <1>3, <1>4 DEF CInv, Typed
<1>8. StageFacts'
  BY <1>1, <1>2, <1>3, <1>4 DEF CInv, StageFacts
<1>9. OneAnswer'
  <2>1. CASE th["event"].pc = "told"
    <3>1. (Fresh => chip.out = <<>>) /\ (~chip.slip => chip.short = {})
      BY <1>1, <2>1, NoneLeft DEF CInv
    <3> QED BY <1>1, <1>6, <3>1 DEF OneAnswer
  <2>2. CASE th["event"].pc = "run"
    <3>1. mutex' = mutex /\ (mutex \in Threads /\ th[mutex].pc = "wait" => mutex # "event" /\ th'[mutex] = th[mutex])
      BY <1>1, <1>3, <2>2
    <3> QED BY <1>1, <1>6, <3>1 DEF CInv, OneAnswer
  <2> QED BY <1>1, <2>1, <2>2
<1>10. AnswersMean'
  <2>1. ASSUME NEW u \in Threads \ {"event"}, InHand(u)', Fresh', (chip.slip => Cmd(u).op \notin CamOps)'
        PROVE  Means(chip, Cmd(u), Hand(u))'
    <3>1. Means(chip, Cmd(u), Hand(u))
      BY <1>1, <1>4, <1>6, <2>1 DEF CInv, AnswersMean
    <3> QED BY <1>1, <1>4, <2>1, <3>1
  <2> QED BY <2>1 DEF AnswersMean
<1>11. ScriptFacts' /\ ChipFacts'
  BY <1>1, <1>4, <1>6, ScriptStays, ChipStays, Names DEF CInv
<1>12. EventsTracked'
  <2>1. Powered' = Powered
    BY <1>1, <1>4, PowerStays
  <2>2. InHand("event")' = InHand("event") /\ ~InHand("event")
    BY <1>5
  <2> QED BY <1>1, <2>1, <2>2, EventsStay DEF CInv
<1> QED BY <1>7, <1>8, <1>9, <1>10, <1>11, <1>12 DEF CInv

\* Nothing of it moves.
LEMMA SameStep ==
  ASSUME CInv, IInv', UNCHANGED <<chip, mutex, buf, drv, th, app>>
  PROVE  CInv'
<1>1. Typed' /\ StageFacts'
  BY DEF CInv, Typed, StageFacts
<1>2. Fresh' = Fresh /\ \A u \in Threads : Cmd(u)' = Cmd(u) /\ InHand(u)' = InHand(u) /\ Hand(u)' = Hand(u)
  BY DEF Fresh, Cmd, InHand, Hand
<1>3. OneAnswer'
  BY <1>2 DEF CInv, OneAnswer
<1>4. AnswersMean'
  <2>1. ASSUME NEW u \in Threads \ {"event"}, InHand(u)', Fresh', (chip.slip => Cmd(u).op \notin CamOps)'
        PROVE  Means(chip, Cmd(u), Hand(u))'
    <3>1. Means(chip, Cmd(u), Hand(u))
      BY <1>2, <2>1 DEF CInv, AnswersMean
    <3> QED BY <1>2, <2>1, <3>1
  <2> QED BY <2>1 DEF AnswersMean
<1>5. ScriptFacts' /\ ChipFacts'
  BY <1>2, ScriptStays, ChipStays, Names DEF CInv
<1>6. EventsTracked'
  BY <1>2, PowerStays, EventsStay, Names DEF CInv
<1> QED BY <1>1, <1>3, <1>4, <1>5, <1>6 DEF CInv

\* An exchange of thread t.
LEMMA ExchangeStep ==
  ASSUME CInv, NEW t \in Threads, Exchange(t)
  PROVE  CInv'
<1>1. IInv'
  BY ExchangeIInv DEF CInv
<1>2. CASE Crash(t)
  BY <1>1, <1>2, SameStep DEF Crash
<1> QED BY <1>1, <1>2, SendStep, SendFailsStep, ReceiveStep, NoResponseStep, FinishStep, HandleEventStep DEF Exchange

-----------------------------------------------------------------------------
LEMMA InitCInv == Init => CInv
<1> SUFFICES ASSUME Init PROVE CInv
  OBVIOUS
<1>1. PICK ins \in [Slots -> BOOLEAN] :
        chip = [run |-> FALSE, reg |-> [r \in Regs \cup Routers |-> {}], cam |-> ins,
                lpdu |-> {}, out |-> <<>>, events |-> <<>>, short |-> {}, slip |-> FALSE]
  BY DEF Init
<1>2. /\ chip.run = FALSE /\ chip.reg = [r \in Regs \cup Routers |-> {}] /\ chip.cam = ins /\ chip.lpdu = {}
      /\ chip.out = <<>> /\ chip.events = <<>> /\ chip.short = {} /\ chip.slip = FALSE
  BY <1>1
<1>3. mutex = "null" /\ buf = NoAnswer /\ th = [t \in Threads |-> Idle]
      /\ drv = [spi |-> FALSE, stop |-> FALSE, cb |-> FALSE, inserted |-> NoFlag,
                CAM_Inserted |-> NoFlag, TSPassThrough |-> NoFlag]
      /\ app = [stage |-> "down", tries |-> 0, result |-> "none"]
  BY DEF Init
<1>4. \A t \in Threads : th[t].pc = "off" /\ th[t].todo = <<>> /\ th[t].ret = "none" /\ th[t].val = {}
  BY <1>3 DEF Idle
<1>5. drv.spi = FALSE /\ drv.stop = FALSE /\ app.stage = "down" /\ app.result = "none"
  BY <1>3
<1>6. \A t \in Threads : ~InHand(t)
  BY <1>4 DEF InHand
<1>7. Typed
  <2>1. chip \in Chips
    <3>1. chip.reg \in [Regs \cup Routers -> SUBSET Values]
      BY <1>2
    <3>2. <<>> \in Seq(Answers) /\ <<>> \in Seq(Happenings)
      OBVIOUS
    <3>3. [r \in Regs \cup Routers |-> {}] \in [Regs \cup Routers -> SUBSET Values]
      OBVIOUS
    <3> QED BY <1>1, <3>2, <3>3 DEF Chips
  <2>2. drv \in Drivers
    BY <1>3 DEF Drivers, NoFlag
  <2>3. buf \in Answers
    BY <1>3 DEF NoAnswer, Answers, Places
  <2>4. <<>> \in Seq(Commands) /\ <<>> \in Seq(ClientCmds) /\ Clients \subseteq Threads
    BY DEF Threads
  <2>5. th["app"].todo \in Seq(Commands) /\ \A t \in Clients : th[t].todo \in Seq(ClientCmds)
    BY <1>4, <2>4, Names
  <2> QED BY <1>4, <2>1, <2>2, <2>3, <2>5 DEF Typed
<1>8. StageFacts
  BY <1>3, <1>4, <1>5, Names DEF StageFacts, Up
<1>9. OneAnswer
  BY <1>2 DEF OneAnswer
<1>10. AnswersMean
  BY <1>6 DEF AnswersMean
<1>11. ScriptFacts
  BY <1>5 DEF ScriptFacts
<1>12. ChipFacts
  <2>1. chip.reg["BOOT_Status"] = {}
    BY <1>2 DEF Regs
  <2> QED BY <1>5, <2>1 DEF ChipFacts, Up
<1>13. EventsTracked
  BY <1>5, <1>6, Names DEF EventsTracked, Powered
<1> QED BY <1>7, <1>8, <1>9, <1>10, <1>11, <1>12, <1>13, InitIInv DEF CInv

\* The chip after GPIO 28.
LEMMA ResetFacts ==
  ASSUME NEW c \in Chips
  PROVE  /\ Reset(c) \in Chips /\ Reset(c).run = FALSE /\ Reset(c).out = <<>> /\ Reset(c).events = <<>>
         /\ Reset(c).short = {} /\ Reset(c).slip = FALSE /\ Reset(c).cam = c.cam
         /\ \A r \in Regs \cup Routers : Reset(c).reg[r] = {}
<1> DEFINE none == [r \in Regs \cup Routers |-> {}]
<1>1. c = [run |-> c.run, reg |-> c.reg, cam |-> c.cam, lpdu |-> c.lpdu, out |-> c.out,
           events |-> c.events, short |-> c.short, slip |-> c.slip]
      /\ DOMAIN c.reg = Regs \cup Routers /\ c.cam \in [Slots -> BOOLEAN] /\ c.lpdu \in SUBSET Values
  BY DEF Chips
<1>2. [r \in DOMAIN c.reg |-> {}] = none /\ none \in [Regs \cup Routers -> SUBSET Values]
      /\ \A r \in Regs \cup Routers : none[r] = {}
  BY <1>1
<1> HIDE DEF none
<1> DEFINE d == [run |-> FALSE, reg |-> none, cam |-> c.cam, lpdu |-> c.lpdu, out |-> <<>>,
                 events |-> <<>>, short |-> {}, slip |-> FALSE]
<1>3. Reset(c) = d
  <2> DEFINE e1 == [c EXCEPT !.run = FALSE, !.reg = [r \in DOMAIN @ |-> {}]]
             e2 == [e1 EXCEPT !.out = <<>>, !.events = <<>>]
             f1 == [run |-> FALSE, reg |-> none, cam |-> c.cam, lpdu |-> c.lpdu, out |-> c.out,
                    events |-> c.events, short |-> c.short, slip |-> c.slip]
             f2 == [run |-> FALSE, reg |-> none, cam |-> c.cam, lpdu |-> c.lpdu, out |-> <<>>,
                    events |-> <<>>, short |-> c.short, slip |-> c.slip]
  <2>1. Reset(c) = [e2 EXCEPT !.short = {}, !.slip = FALSE]
    BY DEF Reset
  <2>2. e1 = f1
    <3>1. c.reg = c.reg /\ e1 = [c EXCEPT !.run = FALSE, !.reg = [r \in DOMAIN c.reg |-> {}]]
      OBVIOUS
    <3>2. e1 = [c EXCEPT !.run = FALSE, !.reg = none]
      BY <1>2, <3>1
    <3> HIDE DEF e1
    <3> QED BY <1>1, <3>2
  <2>3. e2 = f2
    <3>1. e2 = [f1 EXCEPT !.out = <<>>, !.events = <<>>]
      BY <2>2
    <3> HIDE DEF e2
    <3> QED BY <3>1
  <2>4. Reset(c) = [f2 EXCEPT !.short = {}, !.slip = FALSE]
    BY <2>1, <2>3
  <2> QED BY <2>4
<1>4. <<>> \in Seq(Answers) /\ <<>> \in Seq(Happenings)
  OBVIOUS
<1>5. d \in Chips
  BY <1>1, <1>2, <1>4 DEF Chips
<1>6. d.run = FALSE /\ d.reg = none /\ d.cam = c.cam /\ d.out = <<>> /\ d.events = <<>> /\ d.short = {} /\ d.slip = FALSE
  OBVIOUS
<1> HIDE DEF d
<1> QED BY <1>2, <1>3, <1>5, <1>6

\* A script of the application starts.
LEMMA AppStarts ==
  ASSUME IInv, NEW script, Do("app", script)
  PROVE  /\ th'["app"].pc = "run" /\ th'["app"].todo = script /\ th'["app"].ret = "none" /\ th'["app"].val = {}
         /\ \A u \in Threads \ {"app"} : th'[u] = th[u]
<1> DEFINE r == [pc |-> "run", todo |-> script, ret |-> "none", val |-> {}]
<1>1. th' = [th EXCEPT !["app"] = r]
  BY DEF Do
<1>2. r.pc = "run" /\ r.todo = script /\ r.ret = "none" /\ r.val = {}
  OBVIOUS
<1> HIDE DEF r
<1>3. th'["app"] = r /\ \A u \in Threads \ {"app"} : th'[u] = th[u]
  BY <1>1, RecordStep, Names
<1> QED BY <1>2, <1>3

\* Where the application stands when nobody is at work.
LEMMA NobodyWorks ==
  ASSUME CInv, \A t \in Threads : th[t].pc = "off"
  PROVE  /\ mutex \notin Threads /\ (Fresh => chip.out = <<>>) /\ (~chip.slip => chip.short = {})
         /\ \A t \in Threads : InHand(t) = FALSE
<1>1. mutex \notin Threads
  BY DEF CInv, IInv, LockHeldInCalls, InCall
<1>2. (Fresh => chip.out = <<>>) /\ (~chip.slip => chip.short = {})
  BY <1>1, NoneLeft DEF CInv
<1> QED BY <1>1, <1>2 DEF InHand

LEMMA AllOff ==
  ASSUME IInv, \/ app.stage \in {"down", "thread", "failed"}
               \/ \E stage \in {"boot", "fw", "cfg"} : Ended(stage)
  PROVE  \A t \in Threads : th[t].pc = "off"
<1>1. th["app"].pc = "off" /\ app.stage \in {"down", "thread", "failed", "boot", "fw", "cfg"}
  BY DEF IInv, AtWork, ScriptRuns, Ended
<1> QED BY <1>1 DEF IInv, AtWork, Threads

\* A stage ends with nobody at work, and another begins.
LEMMA StageStep ==
  ASSUME CInv, IInv', \A t \in Threads : th[t].pc = "off" /\ th'[t].pc \notin InCall,
         chip' \in Chips, Fresh' => chip'.out = <<>>, ~chip'.slip => chip'.short = {},
         buf' \in Answers, drv' \in Drivers,
         th'["app"].todo \in Seq(Commands), \A t \in Clients : th'[t] = th[t],
         StageFacts', ScriptFacts', ChipFacts',
         ~chip'.slip /\ Powered' =>
           /\ Powered /\ ~chip.slip
           /\ chip'.events = chip.events /\ chip'.cam = chip.cam /\ drv'.inserted = drv.inserted
  PROVE  CInv'
<1>1. Typed'
  <2>1. ASSUME NEW t \in Threads \ {"event"}, th'[t].pc # "off" PROVE th'[t].todo # <<>>
    <3>1. CASE t = "app"
      BY <2>1, <3>1 DEF IInv, ScriptRuns
    <3>2. CASE t # "app"
      <4>1. t \in Clients
        BY <3>2 DEF Threads
      <4> QED BY <2>1, <4>1
    <3> QED BY <3>1, <3>2
  <2> QED BY <2>1 DEF CInv, Typed
<1>2. OneAnswer'
  BY DEF OneAnswer
<1>3. AnswersMean'
  BY NobodyMeans
<1>4. EventsTracked'
  <2>1. InHand("event") = FALSE /\ InHand("event")' = FALSE
    BY NobodyWorks, Names DEF InHand, InCall
  <2>2. ASSUME ~chip'.slip, Powered', NEW s \in Slots
        PROVE  Tracks(chip', s, FALSE, Hand("event")', drv'.inserted[s])
    <3>1. Tracks(chip, s, FALSE, Hand("event"), drv.inserted[s])
      BY <2>1, <2>2 DEF CInv, EventsTracked
    <3> QED BY <2>2, <3>1 DEF Tracks, LastSays, Silent, Told
  <2> QED BY <2>1, <2>2 DEF EventsTracked
<1> QED BY <1>1, <1>2, <1>3, <1>4 DEF CInv

\* What CIMAX_Init and CIMAX_Term make of the record of the application.
LEMMA StageIs ==
  ASSUME IInv, NEW stage, NEW tries
  PROVE  /\ app' = [app EXCEPT !.stage = stage] => app'.stage = stage /\ app'.result = app.result
         /\ app' = [app EXCEPT !.tries = tries] => app'.stage = app.stage /\ app'.result = app.result
         /\ app' = [app EXCEPT !.stage = stage, !.tries = tries] => app'.stage = stage /\ app'.result = app.result
<1>1. app = [stage |-> app.stage, tries |-> app.tries, result |-> app.result]
  BY DEF IInv, Shape
<1>2. /\ [app EXCEPT !.stage = stage] = [stage |-> stage, tries |-> app.tries, result |-> app.result]
      /\ [app EXCEPT !.tries = tries] = [stage |-> app.stage, tries |-> tries, result |-> app.result]
      /\ [app EXCEPT !.stage = stage, !.tries = tries] = [stage |-> stage, tries |-> tries, result |-> app.result]
  <2> DEFINE x == app
  <2>1. x = [stage |-> x.stage, tries |-> x.tries, result |-> x.result]
    BY <1>1
  <2> HIDE DEF x
  <2>2. /\ [x EXCEPT !.stage = stage] = [stage |-> stage, tries |-> x.tries, result |-> x.result]
        /\ [x EXCEPT !.tries = tries] = [stage |-> x.stage, tries |-> tries, result |-> x.result]
        /\ [x EXCEPT !.stage = stage, !.tries = tries] = [stage |-> stage, tries |-> tries, result |-> x.result]
    <3>1. [x EXCEPT !.stage = stage] = [stage |-> stage, tries |-> x.tries, result |-> x.result]
      BY <2>1, AppRecord
    <3>2. [x EXCEPT !.tries = tries] = [stage |-> x.stage, tries |-> tries, result |-> x.result]
      BY <2>1, AppRecord
    <3>3. [x EXCEPT !.stage = stage, !.tries = tries] = [stage |-> stage, tries |-> tries, result |-> x.result]
      <4> DEFINE y == [x EXCEPT !.stage = stage]
                 z == [stage |-> stage, tries |-> x.tries, result |-> x.result]
      <4>1. [x EXCEPT !.stage = stage, !.tries = tries] = [y EXCEPT !.tries = tries]
        OBVIOUS
      <4>2. y = z
        BY <3>1
      <4> HIDE DEF y
      <4>3. [z EXCEPT !.tries = tries] = [stage |-> stage, tries |-> tries, result |-> x.result]
        OBVIOUS
      <4> HIDE DEF z
      <4> QED BY <4>1, <4>2, <4>3
    <3> QED BY <3>1, <3>2, <3>3
  <2> QED BY <2>2 DEF x
<1> QED BY <1>2

\* The scripts are scripts.
LEMMA ScriptsTyped ==
  /\ <<R("BOOT_Status")>> \in Seq(Commands)
  /\ FwScript \in Seq(Commands) /\ Len(FwScript) = 7 /\ FwScript[7] = INIT
  /\ \A i \in 1..7 : FwScript[i].op \in {"W", "V", "INIT"}
<1>1. R("BOOT_Status") \in Commands
  BY DEF R, Commands, Regs, Reads
<1>2. /\ Len(FwScript) = 7
      /\ FwScript[1] = W("code", {"image"}) /\ FwScript[2] = V("code", {"image"})
      /\ FwScript[3] = W("vectors", {"image"}) /\ FwScript[4] = V("vectors", {"image"})
      /\ FwScript[5] = W("bist", {"run"}) /\ FwScript[6] = V("BOOT_Status", {"ok"}) /\ FwScript[7] = INIT
  BY DEF FwScript
<1>3. {"code", "vectors", "bist", "BOOT_Status"} \subseteq Regs \cup Routers /\ {"image", "run", "ok"} \subseteq Values
  BY DEF Regs, Values
<1>4. {FwScript[1], FwScript[2], FwScript[3], FwScript[4], FwScript[5], FwScript[6], FwScript[7]} \subseteq Commands
  BY <1>2, <1>3 DEF Commands, W, V, Reads
<1>5. /\ FwScript[1].op = "W" /\ FwScript[2].op = "V" /\ FwScript[3].op = "W" /\ FwScript[4].op = "V"
      /\ FwScript[5].op = "W" /\ FwScript[6].op = "V" /\ FwScript[7].op = "INIT"
  BY <1>2 DEF W, V, INIT
<1>6. FwScript = [i \in 1..7 |-> FwScript[i]]
  BY DEF FwScript
<1>7. \A i \in 1..7 : FwScript[i] \in Commands /\ FwScript[i].op \in {"W", "V", "INIT"}
  BY <1>4, <1>5
<1> QED BY <1>1, <1>2, <1>6, <1>7

\* CIMAX_Init starts.
LEMMA StartInitStep ==
  ASSUME CInv, IInv', StartInit
  PROVE  CInv'
<1>1. \A t \in Threads : th[t].pc = "off"
  BY AllOff DEF StartInit, CInv
<1>2. /\ Do("app", <<R("BOOT_Status")>>) /\ UNCHANGED <<chip, buf>> /\ app.stage = "down"
      /\ app' = [app EXCEPT !.stage = "boot", !.result = "none"]
      /\ \E open \in BOOLEAN : drv' = [drv EXCEPT !.spi = open, !.inserted = NoFlag]
  BY DEF StartInit
<1>3. /\ th'["app"].pc = "run" /\ th'["app"].todo = <<R("BOOT_Status")>> /\ th'["app"].ret = "none" /\ th'["app"].val = {}
      /\ \A u \in Threads \ {"app"} : th'[u] = th[u]
  BY <1>2, AppStarts DEF CInv
<1>4. app'.stage = "boot" /\ app'.result = "none"
  <2>1. app = [stage |-> app.stage, tries |-> app.tries, result |-> app.result]
    BY DEF CInv, IInv, Shape
  <2> QED BY <1>2, <2>1
<1>5. drv' \in Drivers /\ drv'.inserted = NoFlag /\ drv'.stop = FALSE
  <2>1. PICK open \in BOOLEAN : drv' = [drv EXCEPT !.spi = open, !.inserted = NoFlag]
    BY <1>2
  <2>2. drv \in Drivers /\ NoFlag \in [Slots -> BOOLEAN] /\ drv.stop = FALSE
    BY <1>2 DEF CInv, Typed, StageFacts, NoFlag, Drivers
  <2> DEFINE d == [drv EXCEPT !.spi = open]
  <2>3. d \in Drivers /\ d.stop = drv.stop
    BY <2>2 DEF Drivers
  <2>4. drv' = [d EXCEPT !.inserted = NoFlag]
    BY <2>1
  <2> HIDE DEF d
  <2> QED BY <2>2, <2>3, <2>4 DEF Drivers
<1>6. \A t \in Threads : th'[t].pc \notin InCall
  BY <1>1, <1>3 DEF InCall
<1>7. StageFacts'
  BY <1>3, <1>4, <1>5 DEF StageFacts, InCall, Up
<1>8. ScriptFacts'
  BY <1>3, <1>4 DEF ScriptFacts, BootTodo
<1>9. ChipFacts'
  BY <1>2, <1>3, <1>4 DEF CInv, ChipFacts, Fresh, Up
<1>10. ~Powered'
  BY <1>4 DEF Powered
<1>11. (Fresh' => chip'.out = <<>>) /\ (~chip'.slip => chip'.short = {})
  BY <1>1, <1>2, NobodyWorks DEF Fresh
<1>12. \A t \in Clients : th'[t] = th[t]
  BY <1>3, Names DEF Threads
<1> QED BY <1>1, <1>2, <1>3, <1>5, <1>6, <1>7, <1>8, <1>9, <1>10, <1>11, <1>12, StageStep, ScriptsTyped DEF CInv, Typed

\* The configuration starts.
LEMMA CfgStarts ==
  ASSUME CInv, IInv', \A t \in Threads : th[t].pc = "off", Do("app", Cfg),
         app.stage \in {"boot", "fw", "cfg"}, app'.stage = "cfg", app'.result = app.result, drv.spi, Fresh => chip.run,
         UNCHANGED <<chip, buf, drv>>
  PROVE  CInv'
<1>1. /\ th'["app"].pc = "run" /\ th'["app"].todo = Cfg /\ th'["app"].ret = "none" /\ th'["app"].val = {}
      /\ \A u \in Threads \ {"app"} : th'[u] = th[u]
  BY AppStarts DEF CInv
<1>2. \A t \in Threads : th'[t].pc \notin InCall
  BY <1>1 DEF InCall
<1>3. StageFacts'
  BY <1>1 DEF CInv, StageFacts, InCall, Up
<1>4. Left' = 9
  BY <1>1, CfgIs DEF Left
<1>5. CfgTodo'
  <2>1. \A i \in 1..9 : Cfg[i] = Cfg[i + 9 - 9]
    OBVIOUS
  <2> QED BY <1>1, <1>4, <2>1 DEF CfgTodo
<1>6. CfgSoFar'
  BY <1>4 DEF CfgSoFar, CfgFacts
<1>7. ScriptFacts'
  BY <1>5, <1>6 DEF ScriptFacts
<1>8. ChipFacts'
  BY DEF ChipFacts, Fresh
<1>9. ~Powered'
  BY <1>4 DEF Powered
<1>10. (Fresh' => chip'.out = <<>>) /\ (~chip'.slip => chip'.short = {})
  BY NobodyWorks DEF Fresh
<1>11. \A t \in Clients : th'[t] = th[t]
  BY <1>1, Names DEF Threads
<1> QED BY <1>1, <1>2, <1>3, <1>7, <1>8, <1>9, <1>10, <1>11, StageStep, CfgIs DEF CInv, Typed

\* The download starts, and the chip is reset for it.
LEMMA FwStarts ==
  ASSUME CInv, IInv', \A t \in Threads : th[t].pc = "off", Do("app", FwScript),
         app.stage \in {"boot", "fw"}, app'.stage = "fw", app'.result = app.result,
         chip' = Reset(chip), UNCHANGED <<buf, drv>>
  PROVE  CInv'
<1>1. /\ th'["app"].pc = "run" /\ th'["app"].todo = FwScript /\ th'["app"].ret = "none" /\ th'["app"].val = {}
      /\ \A u \in Threads \ {"app"} : th'[u] = th[u]
  BY AppStarts DEF CInv
<1>2. \A t \in Threads : th'[t].pc \notin InCall
  BY <1>1 DEF InCall
<1>3. StageFacts'
  BY <1>1 DEF CInv, StageFacts, InCall, Up
<1>4. Left' = 7
  BY <1>1, ScriptsTyped DEF Left
<1>5. FwTodo'
  BY <1>1, <1>4, ScriptsTyped DEF FwTodo
<1>6. ScriptFacts'
  BY <1>5 DEF ScriptFacts
<1>7. ChipFacts'
  BY <1>1 DEF ChipFacts, Up
<1>8. ~Powered'
  BY DEF Powered
<1>9. chip' \in Chips /\ chip'.out = <<>> /\ chip'.short = {}
  BY ResetFacts DEF CInv, Typed
<1>10. \A t \in Clients : th'[t] = th[t]
  BY <1>1, Names DEF Threads
<1> QED BY <1>1, <1>2, <1>3, <1>6, <1>7, <1>8, <1>9, <1>10, StageStep, ScriptsTyped DEF CInv, Typed

\* CIMAX_Init fails; a failed download resets the chip.
LEMMA FailsStep ==
  ASSUME CInv, IInv', \A t \in Threads : th[t].pc = "off",
         app.stage \in {"fw", "cfg", "thread"}, app'.stage = "failed", app'.result = app.result,
         UNCHANGED <<buf, drv, th>>,
         \/ chip' = Reset(chip)
         \/ chip' = chip /\ (Fresh => chip.run)
  PROVE  CInv'
<1>1. \A t \in Threads : th'[t].pc \notin InCall
  BY DEF InCall
<1>2. StageFacts'
  BY DEF CInv, StageFacts, Up
<1>3. ScriptFacts'
  BY DEF ScriptFacts
<1>4. /\ chip' \in Chips /\ (Fresh' => chip'.out = <<>>) /\ (~chip'.slip => chip'.short = {})
      /\ Fresh' /\ chip'.reg["BOOT_Status"] = {"ok"} => chip'.run
  <2>1. CASE chip' = Reset(chip)
    <3>1. "BOOT_Status" \in Regs
      BY DEF Regs
    <3>2. chip' \in Chips /\ chip'.out = <<>> /\ chip'.short = {} /\ chip'.reg["BOOT_Status"] = {}
      BY <2>1, <3>1, ResetFacts DEF CInv, Typed
    <3> QED BY <3>2
  <2>2. CASE chip' = chip /\ (Fresh => chip.run)
    BY <2>2, NobodyWorks DEF CInv, Typed, Fresh
  <2> QED BY <2>1, <2>2
<1>5. ChipFacts'
  BY <1>4 DEF ChipFacts, Up
<1>6. ~Powered'
  BY DEF Powered
<1>7. \A t \in Clients : th'[t] = th[t]
  OBVIOUS
<1> QED BY <1>1, <1>2, <1>3, <1>4, <1>5, <1>6, <1>7, StageStep DEF CInv, Typed

\* The first read of the chip's state has ended.
LEMMA BootStatusStep ==
  ASSUME CInv, IInv', BootStatus
  PROVE  CInv'
<1>1. app.stage = "boot" /\ UNCHANGED <<buf, drv>>
  BY DEF BootStatus, Ended
<1>2. \A t \in Threads : th[t].pc = "off"
  BY AllOff DEF BootStatus, CInv
<1>3. CASE th["app"].val = {"ok"}
  <2>1. app' = [app EXCEPT !.stage = "cfg", !.tries = Tries] /\ Do("app", Cfg) /\ chip' = chip
    BY <1>3 DEF BootStatus
  <2>2. app'.stage = "cfg" /\ app'.result = app.result
    BY <2>1, StageIs DEF CInv
  <2>3. drv.spi
    <3>1. {"ok"} # {}
      OBVIOUS
    <3> QED BY <1>1, <1>3, <3>1 DEF CInv, StageFacts
  <2>4. Fresh => chip.run
    <3>1. th["app"].pc = "off"
      BY <1>2, Names
    <3> QED BY <1>1, <1>3, <3>1 DEF CInv, ChipFacts
  <2> QED BY <1>1, <1>2, <2>1, <2>2, <2>3, <2>4, CfgStarts
<1>4. CASE th["app"].val # {"ok"}
  <2>1. app' = [app EXCEPT !.stage = "fw", !.tries = Tries] /\ Do("app", FwScript) /\ chip' = Reset(chip)
    BY <1>4 DEF BootStatus
  <2>2. app'.stage = "fw" /\ app'.result = app.result
    BY <2>1, StageIs DEF CInv
  <2> QED BY <1>1, <1>2, <2>1, <2>2, FwStarts
<1> QED BY <1>3, <1>4

\* A try of the download has ended.
LEMMA FwEndsStep ==
  ASSUME CInv, IInv', FwEnds
  PROVE  CInv'
<1>1. app.stage = "fw" /\ UNCHANGED <<buf, drv>>
  BY DEF FwEnds, Ended
<1>2. \A t \in Threads : th[t].pc = "off"
  BY AllOff DEF FwEnds, CInv
<1> DEFINE ok == th["app"].ret = "OK"
<1>3. chip' = IF ok THEN chip ELSE Reset(chip)
  BY DEF FwEnds
<1>4. ok => drv.spi /\ (Fresh => chip.run)
  <2>1. th["app"].pc = "off"
    BY <1>2, Names
  <2> QED BY <1>1, <2>1 DEF CInv, StageFacts, ChipFacts
<1>5. \/ ok /\ app' = [app EXCEPT !.stage = "cfg", !.tries = Tries] /\ Do("app", Cfg)
      \/ ~ok /\ app' = [app EXCEPT !.tries = app.tries - 1] /\ Do("app", FwScript)
      \/ app' = [app EXCEPT !.stage = "failed"] /\ UNCHANGED th
  BY DEF FwEnds, Stage
<1> HIDE DEF ok
<1>6. CASE ok /\ app' = [app EXCEPT !.stage = "cfg", !.tries = Tries] /\ Do("app", Cfg)
  <2>1. app'.stage = "cfg" /\ app'.result = app.result
    BY <1>6, StageIs DEF CInv
  <2> QED BY <1>1, <1>2, <1>3, <1>4, <1>6, <2>1, CfgStarts
<1>7. CASE ~ok /\ app' = [app EXCEPT !.tries = app.tries - 1] /\ Do("app", FwScript)
  <2>1. app'.stage = "fw" /\ app'.result = app.result
    BY <1>1, <1>7, StageIs DEF CInv
  <2> QED BY <1>1, <1>2, <1>3, <1>7, <2>1, FwStarts
<1>8. CASE app' = [app EXCEPT !.stage = "failed"] /\ UNCHANGED th
  <2>1. app'.stage = "failed" /\ app'.result = app.result
    BY <1>8, StageIs DEF CInv
  <2> QED BY <1>1, <1>2, <1>3, <1>4, <1>8, <2>1, FailsStep
<1> QED BY <1>5, <1>6, <1>7, <1>8

\* A try of the configuration has ended.
LEMMA CfgEndsStep ==
  ASSUME CInv, IInv', CfgEnds
  PROVE  CInv'
<1>1. app.stage = "cfg" /\ th["app"].todo = <<>> /\ UNCHANGED <<chip, buf, drv>>
  BY DEF CfgEnds, Ended
<1>2. \A t \in Threads : th[t].pc = "off"
  BY AllOff DEF CfgEnds, CInv
<1> DEFINE ok == th["app"].ret = "OK"
<1>3. drv.spi /\ (Fresh => chip.run)
  BY <1>1 DEF CInv, StageFacts, ChipFacts, Up
<1>4. \/ ok /\ app' = [app EXCEPT !.stage = "thread"] /\ UNCHANGED th
      \/ app' = [app EXCEPT !.tries = app.tries - 1] /\ Do("app", Cfg)
      \/ app' = [app EXCEPT !.stage = "failed"] /\ UNCHANGED th
  BY DEF CfgEnds, Stage
<1>5. CASE ok /\ app' = [app EXCEPT !.stage = "thread"] /\ UNCHANGED th
  <2>1. app'.stage = "thread" /\ app'.result = app.result
    BY <1>5, StageIs DEF CInv
  <2>2. Progress /\ Left = 0
    BY <1>1, <1>5 DEF Progress, Left
  <2>3. Fresh => Configured(chip)
    <3>1. Fresh => CfgFacts(chip, 0, Cmd("app"), InHand("app"), Hand("app"))
      BY <1>1, <2>2 DEF CInv, ScriptFacts, CfgSoFar
    <3> QED BY <3>1 DEF CfgFacts, Configured
  <2>4. ~chip.slip => Powered
    BY <1>1, <2>2, <2>3, NotLate DEF Powered, Configured
  <2>5. StageFacts'
    BY <1>1, <1>3, <2>1 DEF CInv, StageFacts, Up
  <2>6. ScriptFacts'
    BY <2>1 DEF ScriptFacts
  <2>7. ChipFacts'
    BY <1>1, <1>3, <2>1, <2>3 DEF ChipFacts, Fresh, Configured
  <2>8. (Fresh' => chip'.out = <<>>) /\ (~chip'.slip => chip'.short = {})
    BY <1>1, <1>2, NobodyWorks DEF Fresh
  <2>9. \A t \in Threads : th'[t].pc \notin InCall /\ th'[t] = th[t]
    BY <1>2, <1>5 DEF InCall
  <2> QED BY <1>1, <1>2, <1>5, <2>4, <2>5, <2>6, <2>7, <2>8, <2>9, StageStep DEF CInv, Typed, Threads
<1>6. CASE app' = [app EXCEPT !.tries = app.tries - 1] /\ Do("app", Cfg)
  <2>1. app'.stage = "cfg" /\ app'.result = app.result
    BY <1>1, <1>6, StageIs DEF CInv
  <2> QED BY <1>1, <1>2, <1>3, <1>6, <2>1, CfgStarts
<1>7. CASE app' = [app EXCEPT !.stage = "failed"] /\ UNCHANGED th
  <2>1. app'.stage = "failed" /\ app'.result = app.result
    BY <1>7, StageIs DEF CInv
  <2> QED BY <1>1, <1>2, <1>3, <1>7, <2>1, FailsStep
<1> QED BY <1>4, <1>5, <1>6, <1>7

\* The thread of the driver is created, or not.
LEMMA CreateThreadStep ==
  ASSUME CInv, IInv', CreateThread
  PROVE  CInv'
<1>1. app.stage = "thread" /\ UNCHANGED <<chip, buf, drv>>
  BY DEF CreateThread
<1>2. \A t \in Threads : th[t].pc = "off"
  BY <1>1, AllOff DEF CInv
<1>3. CASE Stage("callbacks") /\ th' = [th EXCEPT !["event"].pc = "run"]
  <2>1. app'.stage = "callbacks" /\ app'.result = app.result
    BY <1>3, StageIs DEF CInv, Stage
  <2>2. th'["event"].pc = "run" /\ \A u \in Threads \ {"event"} : th'[u] = th[u]
    BY <1>3, PcStep, Names DEF CInv
  <2>3. StageFacts'
    BY <1>1, <2>1, <2>2 DEF CInv, StageFacts, Up
  <2>4. ScriptFacts' /\ ChipFacts'
    BY <1>1, <2>1 DEF CInv, ScriptFacts, ChipFacts, Fresh, Configured, Up
  <2>5. (Fresh' => chip'.out = <<>>) /\ (~chip'.slip => chip'.short = {}) /\ Powered
    BY <1>1, <1>2, NobodyWorks DEF Fresh, Powered
  <2>6. \A t \in Threads : th'[t].pc \notin InCall
    BY <1>2, <2>2 DEF InCall
  <2>7. th'["app"] = th["app"] /\ \A t \in Clients : th'[t] = th[t]
    BY <2>2, Names DEF Threads
  <2> QED BY <1>1, <1>2, <2>3, <2>4, <2>5, <2>6, <2>7, StageStep DEF CInv, Typed
<1>4. CASE Stage("failed") /\ UNCHANGED th
  <2>1. app'.stage = "failed" /\ app'.result = app.result
    BY <1>4, StageIs DEF CInv, Stage
  <2>2. Fresh => chip.run
    BY <1>1 DEF CInv, ChipFacts, Up
  <2> QED BY <1>1, <1>2, <1>4, <2>1, <2>2, FailsStep
<1> QED BY <1>3, <1>4 DEF CreateThread

\* CIMAX_Init succeeds, or CIMAX_Term starts, while the thread of the driver is at work.
LEMMA StandStill ==
  ASSUME CInv, IInv', UNCHANGED <<chip, mutex, buf, th>>,
         drv' \in Drivers, drv'.inserted = drv.inserted, StageFacts', ChipFacts',
         app'.stage \notin {"boot", "fw", "cfg"}, Powered' => Powered
  PROVE  CInv'
<1>1. Typed'
  BY DEF CInv, Typed
<1>2. Fresh' = Fresh /\ \A u \in Threads : Cmd(u)' = Cmd(u) /\ InHand(u)' = InHand(u) /\ Hand(u)' = Hand(u)
  BY DEF Fresh, Cmd, InHand, Hand
<1>3. OneAnswer'
  BY <1>2 DEF CInv, OneAnswer
<1>4. AnswersMean'
  <2>1. ASSUME NEW u \in Threads \ {"event"}, InHand(u)', Fresh', (chip.slip => Cmd(u).op \notin CamOps)'
        PROVE  Means(chip, Cmd(u), Hand(u))'
    <3>1. Means(chip, Cmd(u), Hand(u))
      BY <1>2, <2>1 DEF CInv, AnswersMean
    <3> QED BY <1>2, <2>1, <3>1
  <2> QED BY <2>1 DEF AnswersMean
<1>5. ScriptFacts'
  BY DEF ScriptFacts
<1>6. EventsTracked'
  BY <1>2, EventsStay, Names DEF CInv
<1> QED BY <1>1, <1>3, <1>4, <1>5, <1>6 DEF CInv

LEMMA SetCallbacksStep ==
  ASSUME CInv, IInv', SetCallbacks
  PROVE  CInv'
<1>1. /\ app.stage = "callbacks" /\ UNCHANGED <<chip, mutex, buf, th>>
      /\ app' = [app EXCEPT !.stage = "up", !.result = "OK"]
      /\ drv' = [drv EXCEPT !.cb = Callback # "NULL"]
  BY DEF SetCallbacks
<1>2. app'.stage = "up" /\ app'.result = "OK"
  <2>1. app = [stage |-> app.stage, tries |-> app.tries, result |-> app.result]
    BY DEF CInv, IInv, Shape
  <2> QED BY <1>1, <2>1
<1>3. drv' \in Drivers /\ drv'.inserted = drv.inserted /\ drv'.spi = drv.spi /\ drv'.stop = drv.stop
  BY <1>1 DEF CInv, Typed, Drivers
<1>4. StageFacts'
  BY <1>1, <1>2, <1>3 DEF CInv, StageFacts, Up
<1>5. ChipFacts'
  BY <1>1, <1>2 DEF CInv, ChipFacts, Fresh, Configured, Up
<1>6. Powered
  BY <1>1 DEF Powered
<1> QED BY <1>1, <1>2, <1>3, <1>4, <1>5, <1>6, StandStill

LEMMA TermStep ==
  ASSUME CInv, IInv', CIMAX_Term
  PROVE  CInv'
<1>1. /\ app.stage = "up" /\ UNCHANGED <<chip, mutex, buf, th>>
      /\ app' = [app EXCEPT !.stage = "stopping"]
      /\ drv' = [drv EXCEPT !.stop = TRUE]
  BY DEF CIMAX_Term, Stage
<1>2. app'.stage = "stopping" /\ app'.result = app.result
  BY <1>1, StageIs DEF CInv
<1>3. drv' \in Drivers /\ drv'.inserted = drv.inserted /\ drv'.spi = drv.spi
  BY <1>1 DEF CInv, Typed, Drivers
<1>4. StageFacts'
  BY <1>1, <1>2, <1>3 DEF CInv, StageFacts, Up
<1>5. ChipFacts'
  BY <1>1, <1>2 DEF CInv, ChipFacts, Fresh, Up
<1>6. ~Powered'
  BY <1>2 DEF Powered
<1> QED BY <1>1, <1>2, <1>3, <1>4, <1>5, <1>6, StandStill

\* Nothing of the driver is left.
LEMMA GoneStep ==
  ASSUME CInv, IInv', \A t \in Threads : th[t].pc = "off", Terminated, UNCHANGED <<chip, th>>,
         app.stage \in {"failed", "stopping"}, app'.stage = "down"
  PROVE  CInv'
<1>1. /\ mutex' = "null" /\ buf' = NoAnswer
      /\ drv' = [drv EXCEPT !.spi = FALSE, !.stop = FALSE, !.inserted = NoFlag]
  BY DEF Terminated
<1>2. drv' \in Drivers /\ drv'.spi = FALSE /\ drv'.stop = FALSE
  <2>1. drv = [spi |-> drv.spi, stop |-> drv.stop, cb |-> drv.cb, inserted |-> drv.inserted,
               CAM_Inserted |-> drv.CAM_Inserted, TSPassThrough |-> drv.TSPassThrough]
        /\ drv.cb \in BOOLEAN /\ drv.CAM_Inserted \in [Slots -> BOOLEAN] /\ drv.TSPassThrough \in [Slots -> BOOLEAN]
    BY DEF CInv, Typed, Drivers
  <2>2. NoFlag \in [Slots -> BOOLEAN]
    BY DEF NoFlag
  <2>3. drv' = [spi |-> FALSE, stop |-> FALSE, cb |-> drv.cb, inserted |-> NoFlag,
                CAM_Inserted |-> drv.CAM_Inserted, TSPassThrough |-> drv.TSPassThrough]
    BY <1>1, <2>1
  <2> QED BY <2>1, <2>2, <2>3 DEF Drivers
<1>3. buf' \in Answers
  BY <1>1 DEF NoAnswer, Answers, Places
<1>4. StageFacts'
  BY <1>1, <1>2 DEF StageFacts, Up
<1>5. ScriptFacts' /\ ChipFacts' /\ ~Powered'
  BY DEF CInv, ScriptFacts, ChipFacts, Powered, Fresh, Up
<1>6. (Fresh' => chip'.out = <<>>) /\ (~chip'.slip => chip'.short = {})
  BY NobodyWorks DEF Fresh
<1>7. \A t \in Threads : th'[t].pc \notin InCall /\ th'[t] = th[t]
  BY DEF InCall
<1> QED BY <1>2, <1>3, <1>4, <1>5, <1>6, <1>7, StageStep DEF CInv, Typed, Threads

LEMMA ApplicationStep ==
  ASSUME Orderly, CInv, Application
  PROVE  CInv'
<1>1. IInv'
  BY ApplicationIInv DEF CInv
<1>2. CASE InitFails
  <2>1. app.stage = "failed" /\ app' = [stage |-> "down", tries |-> 0, result |-> "ERROR"]
        /\ Terminated /\ UNCHANGED <<chip, th>>
    BY <1>2 DEF InitFails
  <2>2. \A t \in Threads : th[t].pc = "off"
    BY <2>1, AllOff DEF CInv
  <2>3. app'.stage = "down"
    BY <2>1
  <2> QED BY <1>1, <2>1, <2>2, <2>3, GoneStep
<1>3. CASE TermEnds
  <2>1. app.stage = "stopping" /\ app' = [stage |-> "down", tries |-> 0, result |-> "none"]
        /\ Terminated /\ UNCHANGED <<chip, th>> /\ th["event"].pc = "off"
    BY <1>3 DEF TermEnds, Orderly
  <2>2. \A t \in Threads : th[t].pc = "off"
    BY <2>1 DEF CInv, IInv, AtWork, Threads
  <2>3. app'.stage = "down"
    BY <2>1
  <2> QED BY <1>1, <2>1, <2>2, <2>3, GoneStep
<1> QED BY <1>1, <1>2, <1>3, StartInitStep, BootStatusStep, FwEndsStep, CfgEndsStep, CreateThreadStep,
           SetCallbacksStep, TermStep DEF Application

-----------------------------------------------------------------------------
\* A client's call is a script of commands for registers and modules; none
\* takes the power from the slots.
LEMMA ScriptTyped ==
  ASSUME PowerKept, drv \in Drivers, NEW call \in Calls
  PROVE  Script(call) \in Seq(ClientCmds) /\ Script(call) # <<>>
<1>1. \/ call.op \in {"WriteRegister", "ReadRegister"} /\ call.at \in Regs
      \/ call.op \in CamOps \cup {"PassThrough"} /\ call.at \in Slots
      \/ call.op = "ResetPatch"
  BY CallsAssumption
<1>2. call.val \in SUBSET Values /\ {} \in SUBSET Values
  BY DEF Values
<1>3. ASSUME NEW reg \in Regs \cup Routers, NEW val \in SUBSET Values, reg = "CFG_1" => "vcc" \in val
      PROVE  W(reg, val) \in ClientCmds
  <2>1. W(reg, val) \in Commands
    BY <1>3 DEF W, Commands
  <2> QED BY <1>3, <2>1 DEF ClientCmds, W
<1>4. ASSUME NEW reg \in Regs PROVE R(reg) \in ClientCmds
  <2>1. R(reg) \in Commands
    BY <1>2, <1>4 DEF R, Commands, Reads
  <2> QED BY <2>1 DEF ClientCmds, R
<1>5. ASSUME NEW op \in CamOps, NEW slot \in Slots, NEW val \in SUBSET Values PROVE Cam(op, slot, val) \in ClientCmds
  <2>1. Cam(op, slot, val) \in Commands
    BY <1>5 DEF Cam, Commands
  <2> QED BY <2>1 DEF ClientCmds, Cam, CamOps
<1>6. \A cmd \in ClientCmds : <<cmd>> \in Seq(ClientCmds) /\ <<cmd>> # <<>>
  OBVIOUS
<1>7. CASE call.op = "WriteRegister"
  <2>1. call.at \in Regs
    BY <1>1, <1>7 DEF CamOps
  <2>2. W(call.at, call.val) \in ClientCmds
    BY <1>2, <1>3, <1>7, <2>1 DEF PowerKept
  <2>3. Script(call) = <<W(call.at, call.val)>>
    BY <1>7 DEF Script, CIMAX_WriteRegister
  <2> QED BY <1>6, <2>2, <2>3
<1>8. CASE call.op = "ReadRegister"
  <2>1. call.at \in Regs
    BY <1>1, <1>8 DEF CamOps
  <2>2. Script(call) = <<R(call.at)>>
    BY <1>8 DEF Script, CIMAX_ReadRegister
  <2> QED BY <1>4, <1>6, <2>1, <2>2
<1>9. CASE call.op = "ResetPatch"
  <2> DEFINE a == W("IN_SEL", {"closed"})
             b == W("P2S", {"reset"})
             c == W("P2S", {"on"})
             d == W("IN_SEL", {"open"})
  <2>1. a \in ClientCmds /\ b \in ClientCmds /\ c \in ClientCmds /\ d \in ClientCmds
    <3>1. /\ "IN_SEL" \in Regs \cup Routers /\ "P2S" \in Regs \cup Routers /\ "IN_SEL" # "CFG_1" /\ "P2S" # "CFG_1"
          /\ {"closed"} \in SUBSET Values /\ {"reset"} \in SUBSET Values /\ {"on"} \in SUBSET Values /\ {"open"} \in SUBSET Values
      BY DEF Regs, Values
    <3> QED BY <1>3, <3>1
  <2>2. Script(call) = <<a, b, c, d>>
    BY <1>9 DEF Script, ResetPatch
  <2> HIDE DEF a, b, c, d
  <2>3. <<a, b, c, d>> \in Seq(ClientCmds) /\ <<a, b, c, d>> # <<>>
    BY <2>1
  <2> QED BY <2>2, <2>3
<1>10. CASE call.op = "PassThrough"
  <2> DEFINE inserted == drv.CAM_Inserted
             passes == call.val = {0}
             pass == [drv.TSPassThrough EXCEPT ![call.at] = passes]
             through == {s \in Slots : inserted[s] /\ pass[s]}
             modules == {s \in Slots : inserted[s]}
             v1 == modules \cup IF through = Slots THEN {"chained"} ELSE {}
             v2 == IF "B" \in through THEN {"B"} ELSE through
             a == W("ROUTER_MOD", v1)
             b == W("ROUTER_CH", v2)
  <2>1. v1 \in SUBSET Values /\ v2 \in SUBSET Values
    <3>1. Slots \subseteq Values /\ "chained" \in Values /\ "B" \in Slots /\ through \subseteq Slots /\ modules \subseteq Slots
      BY DEF Values, Slots
    <3> HIDE DEF through, modules
    <3> QED BY <3>1
  <2>2. Script(call) = <<a, b>>
    BY <1>10 DEF Script, CIMAX_CAMPassThrough, Route
  <2> HIDE DEF v1, v2
  <2>3. a \in ClientCmds /\ b \in ClientCmds
    <3>1. "ROUTER_MOD" \in Regs \cup Routers /\ "ROUTER_CH" \in Regs \cup Routers /\ "ROUTER_MOD" # "CFG_1" /\ "ROUTER_CH" # "CFG_1"
      BY DEF Routers
    <3> QED BY <1>3, <2>1, <3>1
  <2> HIDE DEF a, b
  <2>4. <<a, b>> \in Seq(ClientCmds) /\ <<a, b>> # <<>>
    BY <2>3
  <2> QED BY <2>2, <2>4
<1>11. CASE call.op \in CamOps
  <2>1. call.at \in Slots
    BY <1>1, <1>11 DEF CamOps
  <2>2. \E val \in SUBSET Values : Script(call) = <<Cam(call.op, call.at, val)>>
    <3>1. CASE call.op = "WriteLPDU"
      <4>1. Script(call) = <<Cam("WriteLPDU", call.at, call.val)>>
        BY <3>1 DEF Script, CIMAX_WriteLPDU
      <4> QED BY <1>2, <3>1, <4>1
    <3>2. CASE call.op # "WriteLPDU"
      <4>1. call.op \in {"CAMReset", "GetCIS", "WriteCor", "Negotiate", "ReadLPDU", "ReadStatus"}
        BY <1>11, <3>2 DEF CamOps
      <4>2. Script(call) = <<Cam(call.op, call.at, {})>>
        BY <4>1 DEF Script, CIMAX_CAMReset, CIMAX_GetCIS, CIMAX_WriteCor, CIMAX_ReadStatus, CIMAX_Negotiate, CIMAX_ReadLPDU
      <4> QED BY <1>2, <4>2
    <3> QED BY <3>1, <3>2
  <2> QED BY <1>5, <1>6, <1>11, <2>1, <2>2
<1> QED BY <1>1, <1>7, <1>8, <1>9, <1>10, <1>11

\* A client calls.
LEMMA EnterStep ==
  ASSUME PowerKept, CInv, IInv', NEW t \in Clients, NEW call \in Calls, Enter(t, call)
  PROVE  CInv'
<1>1. /\ th[t].pc = "off" /\ app.stage = "up" /\ UNCHANGED <<chip, mutex, buf, app>>
      /\ drv' = IF call.op = "PassThrough" THEN [drv EXCEPT !.TSPassThrough[call.at] = call.val = {0}] ELSE drv
  BY DEF Enter
<1> DEFINE r == [pc |-> "run", todo |-> Script(call), ret |-> "none", val |-> {}]
<1>2. th' = [th EXCEPT ![t] = r]
  BY DEF Enter, Do
<1>3. r.pc = "run" /\ r.todo \in Seq(ClientCmds) /\ r.todo # <<>>
  BY ScriptTyped DEF CInv, Typed
<1> HIDE DEF r
<1>4. t \in Threads /\ t # "app" /\ t # "event"
  BY Names DEF Threads
<1>5. th'[t] = r /\ \A u \in Threads \ {t} : th'[u] = th[u]
  BY <1>2, <1>4, RecordStep DEF CInv
<1>6. drv' \in Drivers /\ drv'.inserted = drv.inserted /\ drv'.spi = drv.spi /\ drv'.stop = drv.stop
  <2> DEFINE passes == call.val = {0}
             f == [drv.TSPassThrough EXCEPT ![call.at] = passes]
  <2>1. drv \in Drivers /\ drv.TSPassThrough \in [Slots -> BOOLEAN] /\ passes \in BOOLEAN
    BY DEF CInv, Typed, Drivers
  <2>2. call.op = "PassThrough" => drv' = [drv EXCEPT !.TSPassThrough = f]
    BY <1>1, <2>1 DEF Drivers
  <2> HIDE DEF passes
  <2>3. f \in [Slots -> BOOLEAN]
    BY <2>1
  <2> HIDE DEF f
  <2>4. CASE call.op = "PassThrough"
    BY <2>1, <2>2, <2>3, <2>4 DEF Drivers
  <2>5. CASE call.op # "PassThrough"
    BY <1>1, <2>1, <2>5
  <2> QED BY <2>4, <2>5
<1>7. Fresh' = Fresh /\ InHand(t) = FALSE /\ InHand(t)' = FALSE
      /\ \A u \in Threads \ {t} : Cmd(u)' = Cmd(u) /\ InHand(u)' = InHand(u) /\ Hand(u)' = Hand(u)
  BY <1>1, <1>3, <1>5 DEF Fresh, Cmd, InHand, Hand
<1>8. th'["app"] = th["app"] /\ th'["event"] = th["event"]
  BY <1>4, <1>5, Names
<1>9. Typed'
  <2>1. ASSUME NEW u \in Clients PROVE th'[u].todo \in Seq(ClientCmds)
    <3>1. u \in Threads
      BY DEF Threads
    <3> QED BY <1>3, <1>5, <3>1 DEF CInv, Typed
  <2>2. \A u \in Threads \ {"event"} : th'[u].pc # "off" => th'[u].todo # <<>>
    BY <1>3, <1>5 DEF CInv, Typed
  <2> QED BY <1>1, <1>6, <1>8, <2>1, <2>2 DEF CInv, Typed
<1>10. StageFacts'
  BY <1>1, <1>6, <1>8 DEF CInv, StageFacts
<1>11. OneAnswer'
  <2>1. mutex \in Threads /\ th[mutex].pc = "wait" => th'[mutex] = th[mutex]
    BY <1>1, <1>5
  <2> QED BY <1>1, <1>7, <2>1 DEF CInv, OneAnswer
<1>12. AnswersMean'
  <2>1. ASSUME NEW u \in Threads \ {"event"}, InHand(u)', Fresh', (chip.slip => Cmd(u).op \notin CamOps)'
        PROVE  Means(chip, Cmd(u), Hand(u))'
    <3>1. u # t
      BY <1>7, <2>1
    <3>2. Means(chip, Cmd(u), Hand(u))
      BY <1>1, <1>7, <2>1, <3>1 DEF CInv, AnswersMean
    <3> QED BY <1>1, <1>7, <2>1, <3>1, <3>2
  <2> QED BY <2>1 DEF AnswersMean
<1>13. ScriptFacts' /\ ChipFacts'
  BY <1>1, <1>7, <1>8, ScriptStays, ChipStays, <1>4, Names DEF CInv
<1>14. EventsTracked'
  <2>1. Powered' = Powered
    BY <1>1, <1>8, PowerStays
  <2> QED BY <1>1, <1>4, <1>6, <1>7, <2>1, EventsStay, Names DEF CInv
<1> QED BY <1>9, <1>10, <1>11, <1>12, <1>13, <1>14 DEF CInv

\* CIMAX_CAMDetect.
LEMMA CAMDetectStep ==
  ASSUME CInv, IInv', NEW slot \in Slots, NEW in \in BOOLEAN, CIMAX_CAMDetect(slot, in)
  PROVE  CInv'
<1>1. /\ app.stage = "up" /\ UNCHANGED <<chip, mutex, buf, th, app>>
      /\ drv' = [drv EXCEPT !.CAM_Inserted[slot] = in]
  BY DEF CIMAX_CAMDetect
<1>2. drv' \in Drivers /\ drv'.inserted = drv.inserted /\ drv'.spi = drv.spi /\ drv'.stop = drv.stop
  <2> DEFINE f == [drv.CAM_Inserted EXCEPT ![slot] = in]
  <2>1. drv \in Drivers /\ drv.CAM_Inserted \in [Slots -> BOOLEAN]
    BY DEF CInv, Typed, Drivers
  <2>2. f \in [Slots -> BOOLEAN]
    BY <2>1
  <2>3. drv' = [drv EXCEPT !.CAM_Inserted = f]
    BY <1>1, <2>1 DEF Drivers
  <2> HIDE DEF f
  <2> QED BY <2>1, <2>2, <2>3 DEF Drivers
<1>3. StageFacts'
  BY <1>1, <1>2 DEF CInv, StageFacts
<1>4. ChipFacts'
  BY <1>1 DEF CInv, ChipFacts, Fresh, Up
<1>5. Powered
  BY <1>1 DEF Powered
<1> QED BY <1>1, <1>2, <1>3, <1>4, <1>5, StandStill

-----------------------------------------------------------------------------
\* The chip gives the slots their power, and finds the modules in them.
LEMMA PowerStep ==
  ASSUME CInv, IInv', Power
  PROVE  CInv'
<1>1. /\ chip.run /\ chip.reg["CFG_2"] = {"lock"} /\ "vcc" \notin chip.reg["CFG_1"]
      /\ chip' = [chip EXCEPT !.reg["CFG_1"] = @ \cup {"vcc"}, !.events = Found(chip)]
      /\ UNCHANGED <<mutex, buf, drv, th, app>>
  BY DEF Power
<1>2. chip \in Chips /\ "CFG_1" \in Regs \cup Routers
  BY DEF CInv, Typed, Regs
<1>3. Found(chip) \in Seq(Happenings)
  <2> DEFINE da == Det("A", TRUE)
             db == Det("B", TRUE)
  <2>1. da \in Happenings /\ db \in Happenings
    BY DetFacts DEF Slots
  <2>2. Found(chip) = (IF chip.cam["A"] THEN <<da>> ELSE <<>>) \o (IF chip.cam["B"] THEN <<db>> ELSE <<>>)
    BY DEF Found
  <2> HIDE DEF da, db
  <2> QED BY <2>1, <2>2
<1>4. /\ chip' \in Chips /\ chip'.run = chip.run /\ chip'.cam = chip.cam /\ chip'.lpdu = chip.lpdu
      /\ chip'.out = chip.out /\ chip'.short = chip.short /\ chip'.slip = chip.slip /\ chip'.events = Found(chip)
      /\ chip'.reg["CFG_1"] = chip.reg["CFG_1"] \cup {"vcc"}
      /\ \A r \in (Regs \cup Routers) \ {"CFG_1"} : chip'.reg[r] = chip.reg[r]
  <2> DEFINE reg == [chip.reg EXCEPT !["CFG_1"] = @ \cup {"vcc"}]
             d == [chip EXCEPT !.reg = reg]
  <2>1. "vcc" \in Values /\ chip.reg \in [Regs \cup Routers -> SUBSET Values]
    BY <1>2 DEF Values, Chips
  <2>2. /\ reg \in [Regs \cup Routers -> SUBSET Values] /\ reg["CFG_1"] = chip.reg["CFG_1"] \cup {"vcc"}
        /\ \A r \in (Regs \cup Routers) \ {"CFG_1"} : reg[r] = chip.reg[r]
    BY <1>2, <2>1
  <2>d. [chip EXCEPT !.reg["CFG_1"] = @ \cup {"vcc"}] = d
    BY <1>2 DEF Chips
  <2> HIDE DEF reg
  <2>3. /\ d \in Chips /\ d.reg = reg /\ d.run = chip.run /\ d.cam = chip.cam /\ d.lpdu = chip.lpdu
        /\ d.out = chip.out /\ d.short = chip.short /\ d.slip = chip.slip
    BY <1>2, <2>2 DEF Chips
  <2>4. chip' = [d EXCEPT !.events = Found(chip)]
    <3>1. chip' = [[chip EXCEPT !.reg["CFG_1"] = @ \cup {"vcc"}] EXCEPT !.events = Found(chip)]
      BY <1>1
    <3> HIDE DEF d
    <3> QED BY <2>d, <3>1
  <2> HIDE DEF d
  <2> DEFINE evs == Found(chip)
  <2>5. evs \in Seq(Happenings) /\ chip' = [d EXCEPT !.events = evs]
    BY <1>3, <2>4
  <2> HIDE DEF evs
  <2>6. /\ chip' \in Chips /\ chip'.reg = d.reg /\ chip'.run = d.run /\ chip'.cam = d.cam /\ chip'.lpdu = d.lpdu
        /\ chip'.out = d.out /\ chip'.short = d.short /\ chip'.slip = d.slip /\ chip'.events = evs
    BY <2>3, <2>5 DEF Chips
  <2> QED BY <2>2, <2>3, <2>6 DEF evs
<1>5. Fresh' = Fresh /\ \A u \in Threads : Cmd(u)' = Cmd(u) /\ InHand(u)' = InHand(u) /\ Hand(u)' = Hand(u)
  BY <1>1, <1>4 DEF Fresh, Cmd, InHand, Hand
<1>6. Fresh => app.stage \notin {"thread", "callbacks", "up"}
  BY <1>1 DEF CInv, ChipFacts, Configured
<1>7. Typed'
  BY <1>1, <1>4 DEF CInv, Typed
<1>8. StageFacts'
  BY <1>1 DEF CInv, StageFacts
<1>9. OneAnswer'
  BY <1>1, <1>4, <1>5 DEF CInv, OneAnswer
<1>10. AnswersMean'
  <2>1. ASSUME NEW u \in Threads \ {"event"}, InHand(u)', Fresh', (chip.slip => Cmd(u).op \notin CamOps)'
        PROVE  Means(chip, Cmd(u), Hand(u))'
    <3>1. Means(chip, Cmd(u), Hand(u))
      BY <1>4, <1>5, <2>1 DEF CInv, AnswersMean
    <3>2. th[u].pc \in InCall /\ th[u].pc # "off"
      BY <1>5, <2>1 DEF InHand, InCall
    <3>3. u = "app"
      BY <1>5, <1>6, <2>1, <3>2, Doing DEF CInv
    <3>4. Cmd(u).op \notin CamOps /\ Cmd(u) \in Commands
      BY <1>5, <2>1, <3>2, <3>3, AppDoes, Doing DEF CInv
    <3>5. Hand(u) \in Answers
      <4>1. CASE th[u].pc = "got"
        BY <4>1 DEF Hand, CInv, Typed
      <4>2. CASE th[u].pc # "got"
        <5>1. chip.out # <<>> /\ chip.out \in Seq(Answers) /\ Hand(u) = Head(chip.out)
          BY <1>2, <1>5, <2>1, <4>2 DEF InHand, Hand, Chips
        <5> QED BY <5>1
      <4> QED BY <4>1, <4>2
    <3>6. Means(chip', Cmd(u), Hand(u))
      BY <1>2, <1>4, <3>1, <3>4, <3>5, MeansPowered
    <3> QED BY <1>5, <3>6
  <2> QED BY <2>1 DEF AnswersMean
<1>11. BootTodo' = BootTodo /\ FwTodo' = FwTodo /\ CfgTodo' = CfgTodo /\ Progress' = Progress /\ Left' = Left
  BY <1>1 DEF BootTodo, FwTodo, CfgTodo, Progress, Left
<1>12. ScriptFacts'
  <2>1. ASSUME Fresh', app.stage = "cfg", Progress' PROVE CfgSoFar'
    <3>1. CfgTodo /\ CfgSoFar
      BY <1>5, <1>11, <2>1 DEF CInv, ScriptFacts
    <3>2. CfgFacts(chip', Left, Cmd("app"), InHand("app"), Hand("app"))
      <4> DEFINE n == Left
                 cmd == Cmd("app")
                 heard == InHand("app")
                 a == Hand("app")
      <4>1. CfgFacts(chip, n, cmd, heard, a) /\ n \in 0..9
        BY <3>1 DEF CfgSoFar, CfgTodo
      <4> HIDE DEF n, cmd, heard, a
      <4>2. CfgFacts(chip', n, cmd, heard, a)
        <5> DEFINE c == chip
                   d == chip'
        <5>1. /\ CfgFacts(c, n, cmd, heard, a) /\ c.reg["CFG_2"] = {"lock"} /\ "vcc" \notin c.reg["CFG_1"]
              /\ d.reg["CFG_1"] = c.reg["CFG_1"] \cup {"vcc"} /\ n \in 0..9
              /\ \A r \in (Regs \cup Routers) \ {"CFG_1"} : d.reg[r] = c.reg[r]
          BY <1>1, <1>4, <4>1
        <5> HIDE DEF c, d
        <5>2. CfgFacts(d, n, cmd, heard, a)
          BY <5>1, CfgPowered
        <5> QED BY <5>2 DEF d
      <4> QED BY <4>2 DEF n, cmd, heard, a
    <3> QED BY <1>5, <1>11, <3>2, Names DEF CfgSoFar
  <2> QED BY <1>1, <1>5, <1>11, <2>1 DEF CInv, ScriptFacts
<1>13. ChipFacts'
  <2>1. chip'.reg["BOOT_Status"] = chip.reg["BOOT_Status"]
    BY <1>4 DEF Regs
  <2> QED BY <1>1, <1>4, <1>5, <1>6, <2>1 DEF CInv, ChipFacts
<1>14. EventsTracked'
  <2>1. ASSUME ~chip'.slip, Powered', NEW s \in Slots
        PROVE  Tracks(chip', s, InHand("event")', Hand("event")', drv'.inserted[s])
    <3>1. app.stage = "cfg"
      BY <1>1, <1>4, <1>6, <2>1, NotLate DEF Powered
    <3>2. InHand("event")' = FALSE
      BY <1>5, <3>1, Names DEF CInv, IInv, AtWork, InHand
    <3>3. drv'.inserted[s] = FALSE
      BY <1>1, <3>1 DEF CInv, StageFacts, NoFlag
    <3>4. Tracks(chip', s, FALSE, Hand("event")', FALSE)
      BY <1>2, <1>4, TracksFound
    <3> QED BY <3>2, <3>3, <3>4
  <2>2. ASSUME ~chip'.slip, InHand("event")'
        PROVE  Hand("event")' \in Happenings \cup {[op |-> "NoEvt", at |-> "none", val |-> {}]}
    BY <1>4, <1>5, <2>2, Names DEF CInv, EventsTracked
  <2> QED BY <2>1, <2>2 DEF EventsTracked
<1> QED BY <1>7, <1>8, <1>9, <1>10, <1>12, <1>13, <1>14 DEF CInv

\* An event comes: a module has come or gone, or has data.
LEMMA EventComes ==
  ASSUME CInv, IInv', UNCHANGED <<mutex, buf, drv, th, app>>,
         chip' \in Chips, chip'.run = chip.run, chip'.reg = chip.reg, chip'.lpdu = chip.lpdu,
         chip'.out = chip.out, chip'.short = chip.short, chip'.slip = chip.slip,
         NEW h, "vcc" \in chip.reg["CFG_1"] => chip'.events = Append(chip.events, h),
         \A s \in Slots : \/ h = Det(s, chip'.cam[s])
                          \/ h \notin {Det(s, TRUE), Det(s, FALSE)} /\ chip'.cam[s] = chip.cam[s]
  PROVE  CInv'
<1>1. Fresh' = Fresh /\ \A u \in Threads : Cmd(u)' = Cmd(u) /\ InHand(u)' = InHand(u) /\ Hand(u)' = Hand(u)
  BY DEF Fresh, Cmd, InHand, Hand
<1>2. chip \in Chips
  BY DEF CInv, Typed
<1>3. Typed' /\ StageFacts'
  BY DEF CInv, Typed, StageFacts
<1>4. OneAnswer'
  BY <1>1 DEF CInv, OneAnswer
<1>5. AnswersMean'
  <2>1. ASSUME NEW u \in Threads \ {"event"}, InHand(u)', Fresh', (chip.slip => Cmd(u).op \notin CamOps)'
        PROVE  Means(chip, Cmd(u), Hand(u))'
    <3>1. Means(chip, Cmd(u), Hand(u))
      BY <1>1, <2>1 DEF CInv, AnswersMean
    <3>2. th[u].pc # "off"
      BY <1>1, <2>1 DEF InHand
    <3>3. Cmd(u) \in Commands
      BY <3>2, Doing DEF CInv
    <3>4. Cmd(u).op \in CamOps => "vcc" \in chip.reg["CFG_1"]
      <4>1. ASSUME Cmd(u).op \in CamOps PROVE app.stage = "up"
        BY <1>1, <2>1, <3>2, <4>1, Doing, AppDoes DEF CInv
      <4> QED BY <1>1, <2>1, <4>1 DEF CInv, ChipFacts
    <3>5. Cmd(u).op \in CamOps =>
            /\ chip'.events = Append(chip.events, h)
            /\ chip'.cam[Cmd(u).at] = chip.cam[Cmd(u).at] \/ h = Det(Cmd(u).at, chip'.cam[Cmd(u).at])
            /\ chip'.cam[Cmd(u).at] \in BOOLEAN
      <4>1. Cmd(u).op \in CamOps => Cmd(u).at \in Slots
        BY <3>3, Types
      <4>2. \A s \in Slots : chip'.cam[s] \in BOOLEAN
        BY DEF Chips
      <4> QED BY <3>4, <4>1, <4>2
    <3> DEFINE cmd == Cmd(u)
               a == Hand(u)
    <3>6. Means(chip, cmd, a) /\ (cmd.op \in CamOps =>
            /\ chip'.events = Append(chip.events, h)
            /\ chip'.cam[cmd.at] = chip.cam[cmd.at] \/ h = Det(cmd.at, chip'.cam[cmd.at])
            /\ chip'.cam[cmd.at] \in BOOLEAN)
      BY <3>1, <3>5
    <3> HIDE DEF cmd, a
    <3>7. Means(chip', cmd, a)
      BY <1>2, <3>6, MeansPlugged
    <3> QED BY <1>1, <3>7 DEF cmd, a
  <2> QED BY <2>1 DEF AnswersMean
<1>6. ScriptFacts' /\ ChipFacts'
  BY <1>1, ScriptStays, ChipStays, Names DEF CInv
<1>7. EventsTracked'
  <2>1. Powered' = Powered
    BY PowerStays
  <2>2. ASSUME ~chip'.slip, Powered', NEW s \in Slots
        PROVE  Tracks(chip', s, InHand("event")', Hand("event")', drv'.inserted[s])
    <3>1. "vcc" \in chip.reg["CFG_1"]
      <4>1. Fresh
        BY <2>2, NotLate
      <4> QED BY <2>1, <2>2, <4>1 DEF CInv, Powered, ChipFacts, Configured
    <3>2. Tracks(chip, s, InHand("event"), Hand("event"), drv.inserted[s])
      BY <2>1, <2>2 DEF CInv, EventsTracked
    <3> DEFINE heard == InHand("event")
               a == Hand("event")
               flag == drv.inserted[s]
    <3>3. Tracks(chip, s, heard, a, flag) /\ chip'.events = Append(chip.events, h)
      BY <3>1, <3>2
    <3>4. heard = InHand("event")' /\ a = Hand("event")' /\ flag = drv'.inserted[s]
      BY <1>1, Names
    <3> HIDE DEF heard, a, flag
    <3>5. CASE h = Det(s, chip'.cam[s])
      <4>1. Tracks(chip', s, heard, a, flag)
        BY <1>2, <3>3, <3>5, TracksPlug
      <4> QED BY <3>4, <4>1
    <3>6. CASE h \notin {Det(s, TRUE), Det(s, FALSE)} /\ chip'.cam[s] = chip.cam[s]
      <4>1. Tracks(chip', s, heard, a, flag)
        BY <1>2, <3>3, <3>6, TracksOther
      <4> QED BY <3>4, <4>1
    <3> QED BY <3>5, <3>6
  <2>3. ASSUME ~chip'.slip, InHand("event")'
        PROVE  Hand("event")' \in Happenings \cup {[op |-> "NoEvt", at |-> "none", val |-> {}]}
    BY <1>1, <2>3, Names DEF CInv, EventsTracked
  <2> QED BY <2>2, <2>3 DEF EventsTracked
<1> QED BY <1>3, <1>4, <1>5, <1>6, <1>7 DEF CInv

LEMMA PlugStep ==
  ASSUME CInv, IInv', NEW slot \in Slots, Plug(slot)
  PROVE  CInv'
<1> DEFINE vcc == "vcc" \in chip.reg["CFG_1"]
           h == Det(slot, ~chip.cam[slot])
           cam == [chip.cam EXCEPT ![slot] = ~@]
           evs == IF vcc THEN Append(chip.events, h) ELSE chip.events
           d == [chip EXCEPT !.cam = cam]
<1>1. chip \in Chips /\ chip.cam \in [Slots -> BOOLEAN] /\ chip.events \in Seq(Happenings)
  BY DEF CInv, Typed, Chips
<1>2. h \in Happenings /\ cam \in [Slots -> BOOLEAN]
  BY <1>1, DetFacts
<1>3. /\ h = Det(slot, cam[slot]) /\ \A s \in Slots \ {slot} : cam[s] = chip.cam[s]
      /\ \A s \in Slots \ {slot} : h \notin {Det(s, TRUE), Det(s, FALSE)}
  BY <1>1 DEF Det
<1>4. [chip EXCEPT !.cam[slot] = ~@] = d
  BY <1>1 DEF Chips
<1>e. (IF "vcc" \in chip.reg["CFG_1"] THEN Append(chip.events, Det(slot, ~chip.cam[slot])) ELSE chip.events) = evs
  OBVIOUS
<1>v. vcc => evs = Append(chip.events, h)
  OBVIOUS
<1>5. chip' = [[chip EXCEPT !.cam[slot] = ~@] EXCEPT
                 !.events = IF "vcc" \in chip.reg["CFG_1"] THEN Append(chip.events, Det(slot, ~chip.cam[slot])) ELSE chip.events]
      /\ UNCHANGED <<mutex, buf, drv, th, app>>
  BY DEF Plug
<1> HIDE DEF h
<1>6. evs \in Seq(Happenings)
  BY <1>1, <1>2
<1> HIDE DEF cam, evs
<1>7. /\ d \in Chips /\ d.run = chip.run /\ d.reg = chip.reg /\ d.lpdu = chip.lpdu /\ d.cam = cam
      /\ d.out = chip.out /\ d.short = chip.short /\ d.slip = chip.slip
  BY <1>1, <1>2 DEF Chips
<1> HIDE DEF d
<1>8. chip' = [d EXCEPT !.events = evs]
  BY <1>4, <1>5, <1>e
<1>9. /\ chip' \in Chips /\ chip'.run = chip.run /\ chip'.reg = chip.reg /\ chip'.lpdu = chip.lpdu /\ chip'.cam = cam
      /\ chip'.out = chip.out /\ chip'.short = chip.short /\ chip'.slip = chip.slip /\ chip'.events = evs
  BY <1>6, <1>7, <1>8 DEF Chips
<1>10. "vcc" \in chip.reg["CFG_1"] => chip'.events = Append(chip.events, h)
  BY <1>9, <1>v
<1>11. \A s \in Slots : \/ h = Det(s, chip'.cam[s])
                        \/ h \notin {Det(s, TRUE), Det(s, FALSE)} /\ chip'.cam[s] = chip.cam[s]
  BY <1>3, <1>9
<1> QED BY <1>5, <1>9, <1>10, <1>11, EventComes

LEMMA DataReadyStep ==
  ASSUME CInv, IInv', NEW slot \in Slots, DataReady(slot)
  PROVE  CInv'
<1> DEFINE h == [op |-> "Data", at |-> slot, val |-> {}]
           evs == Append(chip.events, h)
<1>1. chip \in Chips /\ chip.events \in Seq(Happenings)
  BY DEF CInv, Typed, Chips
<1>2. h \in Happenings /\ \A s \in Slots : h \notin {Det(s, TRUE), Det(s, FALSE)}
  BY DEF Happenings, Det
<1>3. chip' = [chip EXCEPT !.events = evs] /\ UNCHANGED <<mutex, buf, drv, th, app>>
  BY DEF DataReady
<1> HIDE DEF h
<1>4. evs \in Seq(Happenings)
  BY <1>1, <1>2
<1>v. evs = Append(chip.events, h)
  OBVIOUS
<1> HIDE DEF evs
<1>5. /\ chip' \in Chips /\ chip'.run = chip.run /\ chip'.reg = chip.reg /\ chip'.lpdu = chip.lpdu /\ chip'.cam = chip.cam
      /\ chip'.out = chip.out /\ chip'.short = chip.short /\ chip'.slip = chip.slip /\ chip'.events = evs
  BY <1>1, <1>3, <1>4 DEF Chips
<1> QED BY <1>2, <1>3, <1>5, <1>v, EventComes

LEMMA NextCInv ==
  ASSUME Orderly, PowerKept, CInv, [Next]_vars
  PROVE  CInv'
<1>1. IInv'
  BY NextIInv DEF CInv
<1>2. CASE UNCHANGED vars
  BY <1>1, <1>2, SameStep DEF vars
<1>3. CASE Environment
  BY <1>1, <1>3, PowerStep, PlugStep, DataReadyStep DEF Environment
<1>4. CASE Client
  BY <1>1, <1>4, EnterStep, CAMDetectStep DEF Client
<1>5. CASE Application
  BY <1>5, ApplicationStep
<1>6. CASE Tell \/ LeaveThread
  BY <1>1, <1>6, EventThreadStep
<1>7. CASE \E t \in Threads : Exchange(t)
  BY <1>7, ExchangeStep
<1> QED BY <1>2, <1>3, <1>4, <1>5, <1>6, <1>7 DEF Next

-----------------------------------------------------------------------------
\* What an answer means for a chip is what the call was for.
LEMMA EffectIsDone ==
  ASSUME NEW cmd \in Commands, NEW a, Effect(chip, cmd, a)
  PROVE  Done(cmd, a.val)
<1>1. ASSUME NEW r, NEW val, Holds(chip, r, val) PROVE chip.reg[r] \ {"vcc"} = val \ {"vcc"}
  BY <1>1 DEF Holds
<1>2. cmd.op \in {"W", "INIT"} \cup Reads \cup CamOps
  BY Types
<1>3. CASE cmd.op = "W"
  BY <1>1, <1>3 DEF Effect, Done
<1>4. CASE cmd.op \in Reads
  <2>1. a.val \ {"vcc"} = chip.reg[cmd.at] \ {"vcc"}
    BY <1>1, <1>4 DEF Effect
  <2>2. cmd.op # "W"
    BY <1>4 DEF Reads
  <2> QED BY <1>4, <2>1, <2>2 DEF Done, Reads
<1>5. CASE cmd.op = "INIT"
  BY <1>5 DEF Effect, Done, Reads
<1>6. CASE cmd.op = "WriteLPDU"
  BY <1>6 DEF Effect, Done, Reads
<1>7. CASE cmd.op \in CamOps \ {"WriteLPDU"}
  <2>1. cmd.op \notin {"W", "INIT", "WriteLPDU"} \cup Reads
    BY <1>7 DEF CamOps, Reads
  <2> QED BY <1>7, <2>1 DEF Effect, Done, Told
<1> QED BY <1>2, <1>3, <1>4, <1>5, <1>6, <1>7

\* A thread that has read its answer goes on only by finishing its command.
LEMMA OnlyFinish ==
  ASSUME IInv, Next, NEW t \in Threads \ {"event"}, th[t].pc = "got", th'[t].pc # "got"
  PROVE  Finish(t)
<1>1. ASSUME NEW u \in Threads, Exchange(u), u # t PROVE FALSE
  <2>1. \E r : th' = [th EXCEPT ![u] = r] \/ th' = th
    <3>1. CASE Send(u)
      BY <3>1 DEF Send
    <3>2. CASE Receive(u)
      BY <3>2 DEF Receive
    <3>3. CASE SendFails(u) \/ NoResponse(u)
      BY <3>3 DEF SendFails, NoResponse, Failed
    <3>4. CASE Finish(u)
      BY <3>4 DEF Finish, Failed
    <3>5. CASE HandleEvent(u)
      BY <3>5 DEF HandleEvent
    <3>6. CASE Crash(u)
      BY <3>6 DEF Crash
    <3> QED BY <1>1, <3>1, <3>2, <3>3, <3>4, <3>5, <3>6 DEF Exchange
  <2> QED BY <1>1, <2>1, RecordStep
<1>2. ASSUME Exchange(t) PROVE Finish(t)
  BY <1>2 DEF Exchange, Send, SendFails, Wants, Receive, NoResponse, HandleEvent, Crash
<1>3. ASSUME Tell \/ LeaveThread PROVE FALSE
  <2>1. \E r : th' = [th EXCEPT !["event"] = r]
    BY <1>3 DEF Tell, LeaveThread
  <2> QED BY <2>1, RecordStep, Names
<1>4. ASSUME Application PROVE FALSE
  <2>1. \/ th' = th
        \/ \E r : th' = [th EXCEPT !["event"] = r]
        \/ \E script : Do("app", script) /\ th["app"].pc = "off"
    <3>1. CASE StartInit
      <4>1. app.stage = "down"
        BY <3>1 DEF StartInit
      <4> QED BY <3>1, <4>1 DEF StartInit, IInv, AtWork
    <3>2. CASE BootStatus \/ FwEnds \/ CfgEnds
      <4>1. th["app"].pc = "off"
        BY <3>2 DEF BootStatus, FwEnds, CfgEnds, Ended, IInv, ScriptRuns
      <4> QED BY <3>2, <4>1 DEF BootStatus, FwEnds, CfgEnds
    <3>3. CASE CreateThread \/ SetCallbacks \/ InitFails \/ CIMAX_Term \/ TermEnds
      BY <3>3 DEF CreateThread, SetCallbacks, InitFails, CIMAX_Term, TermEnds
    <3> QED BY <1>4, <3>1, <3>2, <3>3 DEF Application
  <2>2. ASSUME NEW script, Do("app", script), th["app"].pc = "off" PROVE FALSE
    BY <2>2, AppStarts
  <2> QED BY <2>1, <2>2, RecordStep, Names
<1>5. ASSUME Client PROVE FALSE
  <2>1. \/ th' = th
        \/ \E u \in Clients : \E r : th' = [th EXCEPT ![u] = r] /\ th[u].pc = "off"
    BY <1>5 DEF Client, Enter, Do, CIMAX_CAMDetect
  <2> QED BY <2>1, RecordStep DEF Threads
<1>6. ASSUME Environment PROVE FALSE
  BY <1>6 DEF Environment, Power, Plug, DataReady
<1> QED BY <1>1, <1>2, <1>3, <1>4, <1>5, <1>6 DEF Next

-----------------------------------------------------------------------------
\* As long as no answer has missed its time-out, a call of cimax.c that
\* reports success has done what it was called for, whatever the clients, the
\* thread of the driver, the modules and the chip do in between: a register
\* holds what was written, a value read is the register's, an LPDU has arrived
\* whole, a module that answered was in its slot.
THEOREM CimaxOkMeansDone == Orderly /\ PowerKept => (Spec => OkMeansDone)
<1> SUFFICES ASSUME Orderly, PowerKept PROVE Spec => OkMeansDone
  OBVIOUS
<1>1. CInv /\ [Next]_vars => CInv'
  BY NextCInv
<1>2. CInv /\ Next =>
        \A t \in Threads \ {"event"} :
          th[t].pc = "got" /\ th'[t].pc \in {"off", "run"} /\ th'[t].ret = "OK" /\ ~chip.slip
            => Done(Cmd(t), th'[t].val)
  <2> SUFFICES ASSUME CInv, Next, NEW t \in Threads \ {"event"},
                      th[t].pc = "got", th'[t].pc \in {"off", "run"}, th'[t].ret = "OK", ~chip.slip
               PROVE  Done(Cmd(t), th'[t].val)
    OBVIOUS
  <2>1. Finish(t)
    BY OnlyFinish DEF CInv
  <2>2. ~Failed(t)
    BY FailedStep DEF CInv
  <2>3. Accepts(Cmd(t)) /\ th'[t].val = buf.val
    <3> DEFINE r == [pc |-> IF Rest(t) = <<>> THEN "off" ELSE "run", todo |-> Rest(t), ret |-> "OK", val |-> buf.val]
    <3>1. Accepts(Cmd(t)) /\ th' = [th EXCEPT ![t] = r]
      BY <2>1, <2>2 DEF Finish
    <3>2. r.val = buf.val
      OBVIOUS
    <3> HIDE DEF r
    <3>3. th'[t] = r
      BY <3>1, RecordStep DEF CInv
    <3> QED BY <3>1, <3>2, <3>3
  <2>4. Matches(Cmd(t), buf)
    BY <2>3 DEF Accepts, Matches
  <2>5. Means(chip, Cmd(t), buf)
    BY NotLate DEF CInv, AnswersMean, InHand, Hand
  <2>6. Effect(chip, Cmd(t), buf) /\ Cmd(t) \in Commands
    BY <2>4, <2>5, Doing DEF Means, CInv
  <2> QED BY <2>3, <2>6, EffectIsDone
<1>3. CInv /\ [Next]_vars =>
        [\A t \in Threads \ {"event"} :
           th[t].pc = "got" /\ th'[t].pc \in {"off", "run"} /\ th'[t].ret = "OK" /\ ~chip.slip
             => Done(Cmd(t), th'[t].val)]_vars
  BY <1>2
<1> QED BY InitCInv, <1>1, <1>3, PTL DEF Spec, OkMeansDone

\* When the events are handled and no answer has missed its time-out, the
\* flags of cimax.c say which slots have a module, however removals,
\* insertions and calls that were told "no module" have interleaved.
THEOREM CimaxCamStateKnown == Orderly /\ PowerKept => (Spec => []CamStateKnown)
<1> SUFFICES ASSUME Orderly, PowerKept PROVE Spec => []CamStateKnown
  OBVIOUS
<1>1. CInv /\ [Next]_vars => CInv'
  BY NextCInv
<1>2. CInv => CamStateKnown
  <2> SUFFICES ASSUME CInv, app.stage = "up", mutex = "free", ~INTActive, ~chip.slip
               PROVE  drv.inserted = chip.cam
    BY DEF CamStateKnown
  <2>1. Powered /\ InHand("event") = FALSE /\ chip.events = <<>>
    BY NobodyIn, Names DEF Powered, CInv, InHand, InCall, INTActive
  <2>2. ASSUME NEW s \in Slots PROVE drv.inserted[s] = chip.cam[s]
    <3>1. Tracks(chip, s, FALSE, Hand("event"), drv.inserted[s])
      BY <2>1 DEF CInv, EventsTracked
    <3> QED BY <2>1, <3>1 DEF Tracks, LastSays
  <2>3. drv.inserted \in [Slots -> BOOLEAN] /\ chip.cam \in [Slots -> BOOLEAN]
    BY DEF CInv, Typed, Chips, Drivers
  <2> QED BY <2>2, <2>3
<1> QED BY InitCInv, <1>1, <1>2, PTL DEF Spec

\* As long as no answer since the chip was reset has missed its time-out,
\* CIMAX_Init reports success only of a chip whose firmware runs, which has its
\* whole configuration and the thread that serves it.  When it fails, nothing
\* of it is left, however late the answers were.
THEOREM CimaxInitTellsTruth ==
  Orderly /\ PowerKept =>
    (Spec => []((Fresh => InitTellsTruth) /\ (app.result = "ERROR" => AllReleased)))
<1> SUFFICES ASSUME Orderly, PowerKept
             PROVE  Spec => []((Fresh => InitTellsTruth) /\ (app.result = "ERROR" => AllReleased))
  OBVIOUS
<1>1. CInv /\ [Next]_vars => CInv'
  BY NextCInv
<1>2. CInv => (Fresh => InitTellsTruth) /\ (app.result = "ERROR" => AllReleased)
  <2> SUFFICES ASSUME CInv PROVE (Fresh => InitTellsTruth) /\ (app.result = "ERROR" => AllReleased)
    OBVIOUS
  <2>1. Fresh /\ app.stage \in {"thread", "callbacks"} =>
          chip.run /\ drv.spi /\ Configured(chip)
    BY DEF CInv, ChipFacts, StageFacts, Up
  <2>2. app.result = "OK" /\ app.stage = "up" => th["event"].pc # "off"
    BY DEF CInv, StageFacts
  <2>3. app.result = "ERROR" => AllReleased
    BY AllOff DEF CInv, StageFacts, AllReleased
  <2> QED BY <2>1, <2>2, <2>3 DEF InitTellsTruth, Configured, AllReleased
<1> QED BY InitCInv, <1>1, <1>2, PTL DEF Spec
=============================================================================
