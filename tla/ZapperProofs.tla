----------------------------- MODULE ZapperProofs -----------------------------
(***************************************************************************)
(* Proofs about Zapper for any programs and keys: the event buffer         *)
(* outlives its reader, a leaked mutex means that main gives up, the       *)
(* player needs a tuner that locks and the stream thread its tables, with  *)
(* what an invalid deadline of the wait for the lock leaves of it.         *)
(***************************************************************************)
EXTENDS Zapper, ConfigParser, TLAPS

\* The order of stream_init's steps.
LEMMA StepTable ==
  /\ DOMAIN AfterStep =
       {"tuner_init", "register_tuner", "lock", "wait_lock", "player_init",
        "source_open", "filter_pat", "register_demux", "wait_pat", "free_pat",
        "filter_sdt", "wait_sdt", "free_sdt", "filter_pmt", "wait_pmt",
        "check_pids", "create_audio", "create_video"}
  /\ AfterStep["tuner_init"] = "register_tuner" /\ AfterStep["register_tuner"] = "lock"
  /\ AfterStep["lock"] = "wait_lock" /\ AfterStep["wait_lock"] = "player_init"
  /\ AfterStep["player_init"] = "source_open" /\ AfterStep["source_open"] = "filter_pat"
  /\ AfterStep["filter_pat"] = "register_demux"
  /\ AfterStep["register_demux"] = "wait_pat" /\ AfterStep["wait_pat"] = "free_pat"
  /\ AfterStep["free_pat"] = "filter_sdt" /\ AfterStep["filter_sdt"] = "wait_sdt"
  /\ AfterStep["wait_sdt"] = "free_sdt" /\ AfterStep["free_sdt"] = "filter_pmt"
  /\ AfterStep["filter_pmt"] = "wait_pmt" /\ AfterStep["wait_pmt"] = "check_pids"
  /\ AfterStep["check_pids"] = "create_audio"
  /\ AfterStep["create_audio"] = "create_video"
  /\ AfterStep["create_video"] = "start_thread"
BY DEF AfterStep

\* The places of the main thread.
LEMMA Places ==
  /\ MainPcs = {"remote_init", "register", "load_config", "tuner_init",
       "register_tuner", "lock", "wait_lock", "player_init", "source_open",
       "filter_pat", "register_demux", "wait_pat", "free_pat", "filter_sdt",
       "wait_sdt", "free_sdt", "filter_pmt", "wait_pmt", "check_pids",
       "create_audio", "create_video", "start_thread", "graphics_init",
       "wait_exit", "graph_deinit", "str_deinit", "free_filter", "free_tables",
       "unregister", "rc_deinit", "rc_join", "exit", "crashed"}
  /\ Calls = {"tuner_init", "register_tuner", "lock", "player_init", "source_open",
       "filter_pat", "register_demux", "free_pat", "filter_sdt", "free_sdt",
       "filter_pmt", "create_audio", "create_video"}
  /\ Waits = {"wait_lock", "wait_pat", "wait_sdt", "wait_pmt"}
<1>1. Waits = {"wait_lock", "wait_pat", "wait_sdt", "wait_pmt"}
  BY DEF Waits
<1>2. Calls = {"tuner_init", "register_tuner", "lock", "player_init", "source_open",
       "filter_pat", "register_demux", "free_pat", "filter_sdt", "free_sdt",
       "filter_pmt", "create_audio", "create_video"}
  BY StepTable, <1>1 DEF Calls
<1> QED
  BY StepTable, <1>1, <1>2 DEF MainPcs, Ended

\* What follows a step of stream_init is a place of the main thread.
LEMMA AfterStepType ==
  ASSUME NEW pc \in Calls \cup Waits \cup {"check_pids"}
  PROVE  AfterStep[pc] \in MainPcs
BY StepTable, Places

-----------------------------------------------------------------------------
(* Type correctness. *)

\* A signal and a crash leave the main thread well formed.
LEMMA SignalType ==
  ASSUME MainTypeOK, SignalStatus \/ Crash \/ UNCHANGED mainVars
  PROVE  MainTypeOK'
<1>1. CASE SignalStatus /\ waiting /\ main_pc \in Waits
  <2>1. AfterStep[main_pc] \in MainPcs /\ main_pc \notin Calls
    BY <1>1, AfterStepType, Places
  <2> QED
    BY <1>1, <2>1 DEF SignalStatus, MainTypeOK
<1>2. CASE Crash
  BY <1>2, Places DEF Crash, MainTypeOK
<1>3. CASE UNCHANGED mainVars
  BY <1>3 DEF mainVars, MainTypeOK
<1> QED
  BY <1>1, <1>2, <1>3 DEF SignalStatus

\* So does a move of a main thread that neither waits nor tests a result.
LEMMA MoveType ==
  ASSUME MainTypeOK, NEW pc \in MainPcs, GoTo(pc) \/ Fail(pc), ~checking, ~waiting
  PROVE  MainTypeOK'
<1>1. CASE GoTo(pc)
  BY <1>1 DEF MainTypeOK, GoTo
<1>2. CASE Fail(pc)
  BY <1>2 DEF MainTypeOK, Fail
<1> QED
  BY <1>1, <1>2

\* So does every step of its own.
LEMMA MainThreadType ==
  ASSUME MainTypeOK, main \/ LockTimeout
  PROVE  MainTypeOK'
<1>1. CASE TdpCall
  <2>1. CASE Crash
    BY <2>1, SignalType
  <2>2. CASE ~Crash
    <3>1. /\ main_pc \in Calls /\ checking' = TRUE
          /\ UNCHANGED <<main_pc, waiting, failed, deadline_ok>>
      BY <1>1, <2>2 DEF TdpCall
    <3> QED
      BY <3>1 DEF MainTypeOK
  <2> QED
    BY <2>1, <2>2
<1>2. CASE AssertResult
  BY <1>2, AfterStepType, Places DEF AssertResult, MainTypeOK
<1>3. CASE WaitForStatus
  <2>1. main_pc \in Waits /\ ~waiting /\ ~checking
    BY <1>3, Places DEF WaitForStatus, MainTypeOK
  <2>2. CASE waiting' = TRUE /\ UNCHANGED <<main_pc, checking, failed, deadline_ok>>
    BY <2>1, <2>2 DEF MainTypeOK
  <2>3. CASE GoTo(AfterStep[main_pc])
    BY <2>1, <2>3, AfterStepType, MoveType
  <2> QED
    BY <1>3, <2>2, <2>3 DEF WaitForStatus
<1>4. CASE graphics_init
  <2>1. ~checking /\ ~waiting
    BY <1>4, Places DEF graphics_init, MainTypeOK
  <2>2. "wait_exit" \in MainPcs /\ "graph_deinit" \in MainPcs
    BY Places
  <2>3. GoTo("wait_exit") \/ Crash \/ Fail("graph_deinit")
    BY <1>4 DEF graphics_init
  <2> QED
    BY <2>1, <2>2, <2>3, MoveType, SignalType
<1>5. CASE WaitForExit
  BY <1>5, Places DEF WaitForExit, MainTypeOK
<1>6. CASE LockTimeout
  BY <1>6, Places DEF LockTimeout, MainTypeOK
<1>7. CASE remote_init \/ remote_callback_register \/ LoadConfig \/ CheckPids
           \/ StartThread \/ graphics_deinit \/ stream_deinit
           \/ remote_callback_unregister \/ remote_deinit
  <2>1. \E pc \in MainPcs : GoTo(pc) \/ Fail(pc)
    <3>1. AfterStep["check_pids"] \in MainPcs
      BY AfterStepType
    <3> QED
      BY <1>7, <3>1, Places
         DEF remote_init, remote_callback_register, LoadConfig, CheckPids, StartThread,
             graphics_deinit, stream_deinit, JoinStream, CloseStream, FreeTables,
             remote_callback_unregister, remote_deinit, StopRemote, JoinRemote
  <2>2. main_pc \notin Calls \cup Waits \cup {"wait_exit"}
    BY <1>7, Places
       DEF remote_init, remote_callback_register, LoadConfig, CheckPids, StartThread,
           graphics_deinit, stream_deinit, JoinStream, CloseStream, FreeTables,
           remote_callback_unregister, remote_deinit, StopRemote, JoinRemote
  <2>3. ~checking /\ ~waiting
    BY <2>2 DEF MainTypeOK
  <2> QED
    BY <2>1, <2>3, MoveType
<1> QED
  BY <1>1, <1>2, <1>3, <1>4, <1>5, <1>6, <1>7
     DEF main, stream_init, stream_deinit, remote_deinit

\* The steps of the main thread keep everything else well formed.
LEMMA MainOthersType ==
  ASSUME TypeOK, main \/ LockTimeout
  PROVE  RemoteTypeOK' /\ StreamTypeOK' /\ TablesTypeOK'
<1> USE DEF TypeOK
<1>1. RemoteTypeOK'
  <2>1. CASE remote_init
    BY <2>1 DEF remote_init, RemoteTypeOK
  <2>2. CASE remote_callback_register
    BY <2>2 DEF remote_callback_register, RemoteTypeOK
  <2>3. CASE remote_callback_unregister
    BY <2>3 DEF remote_callback_unregister, RemoteTypeOK
  <2>4. CASE remote_deinit
    BY <2>4 DEF remote_deinit, StopRemote, JoinRemote, RemoteTypeOK
  <2>5. CASE stream_init \/ LockTimeout \/ graphics_init \/ WaitForExit
             \/ graphics_deinit \/ stream_deinit
    <3>1. UNCHANGED rcVars
      BY <2>5 DEF stream_init, LoadConfig, TdpCall, AssertResult, WaitForStatus,
         CheckPids, StartThread, LockTimeout, graphics_init, WaitForExit,
         graphics_deinit, stream_deinit, JoinStream, CloseStream, FreeTables
    <3> QED
      BY <3>1 DEF rcVars, RemoteTypeOK
  <2> QED
    BY <2>1, <2>2, <2>3, <2>4, <2>5 DEF main
<1>2. StreamTypeOK'
  <2>1. CASE TdpCall
    <3>1. error' \in BOOLEAN /\ player' \in BOOLEAN /\ demux' \in BOOLEAN
      BY <2>1 DEF TdpCall, Results, Outcomes, StreamTypeOK, playerVars
    <3>2. /\ filter' \in Programs \cup {"none", "PAT", "SDT", "garbage"}
          /\ tuner' \in {"none", "checking", "locked", "unlocked"}
      BY <2>1 DEF TdpCall, StreamTypeOK, playerVars
    <3>3. UNCHANGED <<leaked, pr_counter, stream>>
      BY <2>1 DEF TdpCall
    <3> QED
      BY <3>1, <3>2, <3>3 DEF StreamTypeOK
  <2>2. CASE LoadConfig
    BY <2>2, ZapperAssumption DEF ZapperAssumption, LoadConfig, StreamTypeOK, playerVars
  <2>3. CASE StartThread
    BY <2>3 DEF StartThread, StreamTypeOK, playerVars
  <2>4. CASE JoinStream
    BY <2>4 DEF JoinStream, StreamTypeOK, playerVars
  <2>5. CASE CloseStream
    BY <2>5 DEF CloseStream, StreamTypeOK, playerVars
  <2>6. CASE LockTimeout
    BY <2>6 DEF LockTimeout, StreamTypeOK, playerVars
  <2>7. CASE remote_init \/ remote_callback_register \/ AssertResult \/ WaitForStatus
             \/ CheckPids \/ graphics_init \/ WaitForExit \/ graphics_deinit
             \/ FreeTables \/ remote_callback_unregister \/ remote_deinit
    <3>1. UNCHANGED <<error, leaked, pr_counter, tuner, playerVars, stream>>
      BY <2>7 DEF remote_init, remote_callback_register, AssertResult, WaitForStatus,
         CheckPids, graphics_init, WaitForExit, graphics_deinit, FreeTables,
         remote_callback_unregister, remote_deinit, StopRemote, JoinRemote
    <3> QED
      BY <3>1 DEF StreamTypeOK, playerVars
  <2> QED
    BY <2>1, <2>2, <2>3, <2>4, <2>5, <2>6, <2>7 DEF main, stream_init, stream_deinit
<1>3. TablesTypeOK'
  <2>1. CASE FreeTables
    BY <2>1 DEF FreeTables, TablesTypeOK
  <2>2. CASE ~FreeTables
    <3>1. UNCHANGED tableVars
      BY <2>2 DEF main, stream_init, LoadConfig, TdpCall, AssertResult, WaitForStatus,
         CheckPids, StartThread, LockTimeout, graphics_init, WaitForExit,
         graphics_deinit, stream_deinit, JoinStream, CloseStream, remote_init,
         remote_callback_register, remote_callback_unregister, remote_deinit,
         StopRemote, JoinRemote
    <3> QED
      BY <3>1 DEF tableVars, TablesTypeOK
  <2> QED
    BY <2>1, <2>2
<1> QED
  BY <1>1, <1>2, <1>3

\* The steps of the other threads: the remote controller's, the tuner check, the
\* section and the stream thread.
Others ==
  \/ remote_loop \/ ReadFails \/ \E k \in Events : ReadEvent(k)
  \/ TunerChecked
  \/ SectionReceived \/ filter_callback
  \/ StreamThreadEnds \/ StreamThreadFails

\* ExitKey wakes a main thread that waits for it; otherwise the remote
\* controller's thread leaves main alone or crashes.
LEMMA RemoteLoopMain ==
  ASSUME remote_loop
  PROVE  \/ UNCHANGED mainVars
         \/ Crash
         \/ /\ main_pc = "wait_exit" /\ main_pc' = "graph_deinit"
            /\ waiting' = FALSE /\ UNCHANGED <<checking, failed, deadline_ok>>
BY DEF remote_loop, TestCallback, CallCallback, CallNothing, change_program,
   set_volume, ExitKey, LoopRemote

\* The steps of the other threads keep the state well formed.
LEMMA OthersType ==
  ASSUME TypeOK, Others
  PROVE  TypeOK'
<1> USE DEF TypeOK
<1>1. CASE remote_loop
  <2>1. MainTypeOK'
    <3>1. ASSUME main_pc = "wait_exit", main_pc' = "graph_deinit", waiting' = FALSE,
                 UNCHANGED <<checking, failed, deadline_ok>>
          PROVE  MainTypeOK'
      BY <3>1, Places DEF MainTypeOK
    <3> QED
      BY <1>1, <3>1, RemoteLoopMain, SignalType
  <2>2. RemoteTypeOK'
    <3>1. /\ rc_pc' \in {"none", "read", "test", "call", "handle", "loop", "ended", "failed"}
          /\ UNCHANGED <<key, rc_running, callback, event_buf>>
      BY <1>1 DEF remote_loop, TestCallback, CallCallback, CallNothing, change_program,
         set_volume, ExitKey, LoopRemote, rcVars, RemoteTypeOK
    <3> QED
      BY <3>1 DEF RemoteTypeOK
  <2>3. StreamTypeOK'
    <3>1. CASE change_program
      BY <1>1, <3>1 DEF change_program, StreamTypeOK, playerVars
    <3>2. CASE set_volume
      BY <3>2 DEF set_volume, Outcomes, StreamTypeOK, playerVars
    <3>3. CASE ~change_program /\ ~set_volume
      <4>1. UNCHANGED <<error, leaked, pr_counter, tuner, playerVars, stream>>
        BY <1>1, <3>3 DEF remote_loop, TestCallback, CallCallback, CallNothing,
           ExitKey, LoopRemote
      <4> QED
        BY <4>1 DEF StreamTypeOK, playerVars
    <3> QED
      BY <3>1, <3>2, <3>3
  <2>4. UNCHANGED tableVars
    BY <1>1 DEF remote_loop, TestCallback, CallCallback, CallNothing, change_program,
       set_volume, ExitKey, LoopRemote
  <2> QED
    BY <2>1, <2>2, <2>3, <2>4 DEF tableVars, TablesTypeOK
<1>2. CASE ReadFails \/ \E k \in Events : ReadEvent(k)
  <2>1. RemoteTypeOK'
    BY <1>2 DEF ReadFails, ReadEvent, RemoteTypeOK
  <2>2. UNCHANGED <<mainVars, error, leaked, pr_counter, tuner, playerVars, tableVars, stream>>
    BY <1>2 DEF ReadFails, ReadEvent
  <2> QED
    BY <2>1, <2>2, SignalType DEF playerVars, tableVars, StreamTypeOK, TablesTypeOK
<1>3. CASE TunerChecked
  <2>1. MainTypeOK' /\ tuner' \in {"locked", "unlocked"}
    BY <1>3, SignalType DEF TunerChecked
  <2>2. UNCHANGED <<error, leaked, rcVars, pr_counter, playerVars, tableVars, stream>>
    BY <1>3 DEF TunerChecked
  <2> QED
    BY <2>1, <2>2 DEF rcVars, playerVars, tableVars, RemoteTypeOK, StreamTypeOK, TablesTypeOK
<1>4. CASE SectionReceived \/ filter_callback
  <2>1. MainTypeOK'
    BY <1>4, SignalType DEF SectionReceived, filter_callback
  <2>2. UNCHANGED <<error, leaked, rcVars, pr_counter, tuner, playerVars, stream>>
    BY <1>4 DEF SectionReceived, filter_callback
  <2>3. TablesTypeOK'
    <3>1. CASE SectionReceived
      BY <3>1 DEF SectionReceived, Filtered, TablesTypeOK
    <3>2. CASE filter_callback
      BY <3>2 DEF filter_callback, Idle, BeginTable, EndTable, TablesTypeOK
    <3> QED
      BY <1>4, <3>1, <3>2
  <2> QED
    BY <2>1, <2>2, <2>3 DEF rcVars, playerVars, RemoteTypeOK, StreamTypeOK
<1>5. CASE StreamThreadEnds \/ StreamThreadFails
  <2>1. /\ stream' \in {"ended", "failed"}
        /\ UNCHANGED <<mainVars, error, leaked, rcVars, pr_counter, tuner, playerVars, tableVars>>
    BY <1>5 DEF StreamThreadEnds, StreamThreadFails
  <2> QED
    BY <2>1, SignalType DEF rcVars, playerVars, tableVars, RemoteTypeOK, StreamTypeOK, TablesTypeOK
<1> QED
  BY <1>1, <1>2, <1>3, <1>4, <1>5 DEF Others

\* The state of all the threads is well formed in every behaviour of the zapper.
THEOREM TypeCorrect == Spec => []TypeOK
<1>1. Init => TypeOK
  <2> SUFFICES ASSUME Init PROVE TypeOK
    OBVIOUS
  <2>1. MainTypeOK
    BY Places DEF Init, MainTypeOK
  <2>2. RemoteTypeOK
    BY DEF Init, RemoteTypeOK, Events
  <2>3. StreamTypeOK
    BY ZapperAssumption DEF ZapperAssumption, Init, StreamTypeOK
  <2>4. TablesTypeOK
    BY DEF Init, TablesTypeOK
  <2> QED
    BY <2>1, <2>2, <2>3, <2>4 DEF TypeOK
<1>2. TypeOK /\ [Next]_vars => TypeOK'
  <2> SUFFICES ASSUME TypeOK, [Next]_vars PROVE TypeOK'
    OBVIOUS
  <2>1. CASE UNCHANGED vars
    BY <2>1, SignalType DEF TypeOK, RemoteTypeOK, StreamTypeOK, TablesTypeOK, vars,
       rcVars, tableVars, playerVars
  <2>2. CASE main \/ LockTimeout
    BY <2>2, MainThreadType, MainOthersType DEF TypeOK
  <2>3. CASE Others
    BY <2>3, OthersType
  <2> QED
    BY <2>1, <2>2, <2>3 DEF Next, Others
<1> QED
  BY <1>1, <1>2, PTL DEF Spec

-----------------------------------------------------------------------------
(* The event buffer: EventBufOutlivesReader is inductive. *)

\* On every path of main, the event buffer is only freed once the remote
\* controller's thread no longer reads into it.
THEOREM EventBuffer == Spec => []EventBufOutlivesReader
<1>1. Init => EventBufOutlivesReader
  BY DEF Init, EventBufOutlivesReader
<1>2. EventBufOutlivesReader /\ [Next]_vars => EventBufOutlivesReader'
  <2> SUFFICES ASSUME EventBufOutlivesReader, [Next]_vars
               PROVE  EventBufOutlivesReader'
    OBVIOUS
  <2>1. CASE remote_init \/ remote_deinit
    BY <2>1 DEF remote_init, remote_deinit, StopRemote, JoinRemote,
       EventBufOutlivesReader
  <2>2. CASE UNCHANGED rcVars
    BY <2>2 DEF rcVars, EventBufOutlivesReader
  <2>3. CASE remote_loop \/ ReadFails \/ \E k \in Events : ReadEvent(k)
    <3>1. UNCHANGED event_buf /\ (rc_pc' # rc_pc => rc_pc \in {"read", "test", "call", "handle", "loop"})
      BY <2>3 DEF remote_loop, TestCallback, CallCallback, CallNothing, change_program,
         set_volume, ExitKey, LoopRemote, ReadFails, ReadEvent, RemoteAt, rcVars
    <3> QED
      BY <3>1 DEF EventBufOutlivesReader
  <2>4. CASE remote_callback_register \/ remote_callback_unregister
    BY <2>4 DEF remote_callback_register, remote_callback_unregister,
       EventBufOutlivesReader
  <2>5. CASE \/ stream_init \/ graphics_init \/ WaitForExit \/ graphics_deinit
             \/ stream_deinit \/ LockTimeout
    <3>1. UNCHANGED <<rc_pc, event_buf>>
      BY <2>5 DEF stream_init, LoadConfig, TdpCall, AssertResult, WaitForStatus,
         CheckPids, StartThread, graphics_init, WaitForExit, graphics_deinit,
         stream_deinit, JoinStream, CloseStream, FreeTables, LockTimeout, rcVars
    <3> QED
      BY <3>1 DEF EventBufOutlivesReader
  <2>6. CASE \/ TunerChecked \/ SectionReceived \/ filter_callback
             \/ StreamThreadEnds \/ StreamThreadFails
    BY <2>6 DEF TunerChecked, SectionReceived, filter_callback,
       StreamThreadEnds, StreamThreadFails, rcVars, EventBufOutlivesReader
  <2>7. CASE UNCHANGED vars
    BY <2>7 DEF vars, rcVars, EventBufOutlivesReader
  <2> QED
    BY <2>1, <2>2, <2>3, <2>4, <2>5, <2>6, <2>7 DEF Next, main
<1> QED
  BY <1>1, <1>2, PTL DEF Spec

-----------------------------------------------------------------------------
(* The status mutex, the lock of the tuner and the player. *)

\* Up to the wait for the lock there is neither a player nor a demultiplexer.
Early == {"remote_init", "register", "load_config", "tuner_init",
          "register_tuner", "lock", "wait_lock"}

\* Then and until main gives up or shuts down, the tuner is locked.
Tuned == {"player_init", "source_open", "filter_pat", "register_demux", "wait_pat",
          "free_pat", "filter_sdt", "wait_sdt", "free_sdt", "filter_pmt", "wait_pmt",
          "check_pids", "create_audio", "create_video", "start_thread",
          "graphics_init", "wait_exit", "graph_deinit"}

EarlyInv == main_pc \in Early => ~player /\ ~demux /\ ~leaked /\ stream = "none"
LeakInv == leaked => ~player /\ stream = "none"
SectionInv == ~demux => section = Idle
MutexInv == EarlyInv /\ LeakInv /\ SectionInv /\ LeakedMutexMeansExit
LockInv == (main_pc \in Tuned => tuner = "locked") /\ PlayerWaitsForLock

\* A signal moves main past the lock only when it waits for the lock.
LEMMA SignalSteps ==
  ASSUME SignalStatus
  PROVE  /\ UNCHANGED failed
         /\ \/ UNCHANGED main_pc
            \/ main_pc = "wait_lock" /\ main_pc' = "player_init"
            \/ main_pc \in Waits \ {"wait_lock"} /\ main_pc' \in Tuned
<1>1. main_pc \in Waits =>
         \/ main_pc = "wait_lock" /\ AfterStep[main_pc] = "player_init"
         \/ main_pc \in Waits \ {"wait_lock"} /\ AfterStep[main_pc] \in Tuned
  BY StepTable DEF Waits, Tuned
<1> QED
  BY <1>1 DEF SignalStatus, mainVars

\* stream_init's steps stay early, stay tuned or pass the lock.
LEMMA AfterStepTuned ==
  ASSUME NEW pc \in Calls \cup Waits \cup {"check_pids"}
  PROVE  /\ AfterStep[pc] \in Early \cup Tuned
         /\ AfterStep[pc] \in Early => pc \in Early
         /\ AfterStep[pc] \in Tuned => pc \in Tuned \cup {"wait_lock"}
         /\ pc \in Early \cup Tuned
BY StepTable, Places DEF Early, Tuned

\* MutexInv is preserved when main moves forward and nothing else changes.
LEMMA MutexMove ==
  ASSUME MutexInv, UNCHANGED <<player, demux, leaked, stream, section>>,
         main_pc' \in Early => main_pc \in Early,
         leaked => main_pc' \in {"str_deinit", "free_filter"} \cup Ended /\ failed'
  PROVE  MutexInv'
BY DEF MutexInv, EarlyInv, LeakInv, SectionInv, LeakedMutexMeansExit, Idle

\* The steps of the main thread preserve MutexInv.
LEMMA MainMutex ==
  ASSUME TypeOK, MutexInv, main \/ LockTimeout
  PROVE  MutexInv'
<1> USE DEF MutexInv
<1>1. CASE TdpCall
  <2>1. main_pc \in Calls /\ ~leaked
    BY <1>1, Places DEF TdpCall, LeakedMutexMeansExit, Ended
  <2>2. /\ UNCHANGED <<leaked, stream, section>>
        /\ player' # player => main_pc = "player_init"
        /\ demux' # demux => main_pc = "register_demux" /\ demux'
        /\ main_pc' \in {main_pc, "crashed"}
    BY <1>1 DEF TdpCall, Crash, tableVars, playerVars, TypeOK, StreamTypeOK
  <2> QED
    BY <2>1, <2>2 DEF EarlyInv, LeakInv, SectionInv, LeakedMutexMeansExit, Early,
       Ended, Idle
<1>2. CASE AssertResult
  <2>1. main_pc \in Calls /\ ~leaked
    BY <1>2, Places DEF AssertResult, LeakedMutexMeansExit, Ended, TypeOK, MainTypeOK
  <2>2. main_pc' \in Early => main_pc \in Early
    BY <1>2, <2>1, AfterStepTuned DEF AssertResult, Early
  <2> QED
    BY <1>2, <2>1, <2>2, MutexMove DEF AssertResult, playerVars, tableVars
<1>3. CASE WaitForStatus
  <2>1. main_pc \in Waits /\ ~leaked
    BY <1>3, Places DEF WaitForStatus, LeakedMutexMeansExit, Ended
  <2>2. main_pc' \in Early => main_pc \in Early
    BY <1>3, <2>1, AfterStepTuned DEF WaitForStatus, GoTo
  <2> QED
    BY <1>3, <2>1, <2>2, MutexMove DEF WaitForStatus, playerVars, tableVars
<1>4. CASE LockTimeout
  BY <1>4 DEF LockTimeout, EarlyInv, LeakInv, SectionInv, LeakedMutexMeansExit, Early,
     Idle, tableVars, playerVars
<1>5. CASE remote_init \/ remote_callback_register \/ LoadConfig
  BY <1>5, MutexMove
     DEF remote_init, remote_callback_register, LoadConfig, GoTo, Fail, Early,
         LeakedMutexMeansExit, Ended, playerVars, tableVars
<1>6. CASE CheckPids
  <2>1. ~leaked /\ main_pc' \notin Early
    BY <1>6, StepTable DEF CheckPids, LeakedMutexMeansExit, Ended, GoTo, Fail, Early
  <2> QED
    BY <1>6, <2>1, MutexMove DEF CheckPids, playerVars, tableVars
<1>7. CASE StartThread
  BY <1>7 DEF StartThread, GoTo, Fail, EarlyInv, LeakInv, SectionInv,
     LeakedMutexMeansExit, Early, Ended, Idle, playerVars, tableVars
<1>8. CASE graphics_init \/ WaitForExit \/ graphics_deinit
  BY <1>8, MutexMove
     DEF graphics_init, WaitForExit, graphics_deinit, GoTo, Fail, Crash, Early,
         LeakedMutexMeansExit, Ended, playerVars, tableVars
<1>9. CASE JoinStream
  BY <1>9 DEF JoinStream, GoTo, Fail, EarlyInv, LeakInv, SectionInv,
     LeakedMutexMeansExit, Early, Ended, Idle, playerVars, tableVars
<1>10. CASE CloseStream
  BY <1>10 DEF CloseStream, GoTo, Fail, EarlyInv, LeakInv, SectionInv,
     LeakedMutexMeansExit, Early, Ended, Idle, playerVars, tableVars
<1>11. CASE FreeTables \/ remote_callback_unregister \/ remote_deinit
  <2>1. /\ UNCHANGED <<player, demux, leaked, stream, section>>
        /\ main_pc \in {"free_tables", "unregister", "rc_deinit", "rc_join"}
        /\ main_pc' \in {"unregister", "rc_deinit", "rc_join", "exit"}
    BY <1>11 DEF FreeTables, remote_callback_unregister, remote_deinit, StopRemote,
       JoinRemote, GoTo, Fail, playerVars, tableVars
  <2> QED
    BY <2>1, MutexMove DEF LeakedMutexMeansExit, Ended, Early
<1> QED
  BY <1>1, <1>2, <1>3, <1>4, <1>5, <1>6, <1>7, <1>8, <1>9, <1>10, <1>11
     DEF main, stream_init, stream_deinit

\* So do the steps of the other threads.
LEMMA OthersMutex ==
  ASSUME TypeOK, MutexInv, Others
  PROVE  MutexInv'
<1> USE DEF MutexInv
<1>1. CASE remote_loop \/ ReadFails \/ \E k \in Events : ReadEvent(k)
  <2>1. /\ UNCHANGED <<player, demux, leaked, stream, section>>
        /\ UNCHANGED <<main_pc, failed>>
              \/ (main_pc' = "crashed" /\ UNCHANGED failed)
              \/ (main_pc = "wait_exit" /\ main_pc' = "graph_deinit")
    BY <1>1 DEF remote_loop, TestCallback, CallCallback, CallNothing, change_program,
       set_volume, ExitKey, LoopRemote, ReadFails, ReadEvent, RemoteAt, Crash,
       mainVars, playerVars, tableVars
  <2> QED
    BY <2>1, MutexMove DEF LeakedMutexMeansExit, Ended, Early
<1>2. CASE TunerChecked
  <2>1. /\ UNCHANGED <<player, demux, leaked, stream, section>>
        /\ (SignalStatus /\ ~leaked) \/ UNCHANGED mainVars
    BY <1>2 DEF TunerChecked, playerVars, tableVars
  <2> QED
    BY <2>1, SignalSteps, MutexMove DEF mainVars, Tuned, Early, LeakedMutexMeansExit
<1>3. CASE SectionReceived
  BY <1>3 DEF SectionReceived, Filtered, EarlyInv, LeakInv, SectionInv,
     LeakedMutexMeansExit, mainVars, playerVars
<1>4. CASE filter_callback
  <2>1. /\ UNCHANGED <<player, demux, leaked, stream>> /\ demux
        /\ (SignalStatus /\ ~leaked) \/ UNCHANGED mainVars
    BY <1>4 DEF filter_callback, SectionInv, playerVars
  <2>2. main_pc' \in Early => main_pc \in Early
    BY <2>1, SignalSteps DEF mainVars, Tuned, Early
  <2> QED
    BY <2>1, <2>2 DEF EarlyInv, LeakInv, SectionInv, LeakedMutexMeansExit, mainVars
<1>5. CASE StreamThreadEnds \/ StreamThreadFails
  BY <1>5 DEF StreamThreadEnds, StreamThreadFails, EarlyInv, LeakInv, SectionInv,
     LeakedMutexMeansExit, mainVars, playerVars, tableVars, Idle
<1> QED
  BY <1>1, <1>2, <1>3, <1>4, <1>5 DEF Others

\* TypeOK /\ MutexInv is inductive.
LEMMA MutexInductive == Spec => [](TypeOK /\ MutexInv)
<1>1. Init => MutexInv
  BY DEF Init, MutexInv, EarlyInv, LeakInv, SectionInv, LeakedMutexMeansExit, Idle
<1>2. TypeOK /\ MutexInv /\ [Next]_vars => MutexInv'
  <2> SUFFICES ASSUME TypeOK, MutexInv, [Next]_vars PROVE MutexInv'
    OBVIOUS
  <2>1. CASE UNCHANGED vars
    BY <2>1 DEF vars, mainVars, playerVars, tableVars, MutexInv, EarlyInv, LeakInv,
       SectionInv, LeakedMutexMeansExit, Idle
  <2> QED
    BY <2>1, MainMutex, OthersMutex DEF Next, Others
<1> QED
  BY <1>1, <1>2, TypeCorrect, PTL DEF Spec

\* A status mutex that was left locked belongs to a main thread that gives up.
THEOREM MutexLeak == Spec => []LeakedMutexMeansExit
<1>1. MutexInv => LeakedMutexMeansExit
  BY DEF MutexInv
<1> QED
  BY <1>1, MutexInductive, PTL

\* LockInv is preserved when the tuner is left alone, main does not get past the
\* lock and no player is initialised before it.
LEMMA LockMove ==
  ASSUME LockInv, UNCHANGED tuner, main_pc' \in Tuned => main_pc \in Tuned,
         player' => player \/ main_pc \in Tuned
  PROVE  LockInv'
BY DEF LockInv, PlayerWaitsForLock

\* The main thread only gets past the lock by the signal.
LEMMA MainLock ==
  ASSUME TypeOK, MutexInv, LockInv, deadline_ok, main \/ LockTimeout
  PROVE  LockInv'
<1>1. CASE TdpCall
  <2>1. CASE main_pc = "lock"
    BY <1>1, <2>1 DEF TdpCall, Crash, LockInv, PlayerWaitsForLock, MutexInv, EarlyInv,
       Early, Tuned, playerVars, TypeOK, StreamTypeOK
  <2>2. CASE main_pc # "lock"
    <3>1. /\ UNCHANGED tuner
          /\ main_pc' \in {main_pc, "crashed"}
          /\ player' # player => main_pc = "player_init"
      BY <1>1, <2>2 DEF TdpCall, Crash, playerVars, TypeOK, StreamTypeOK
    <3> QED
      BY <3>1, LockMove DEF Tuned, TypeOK, StreamTypeOK
  <2> QED
    BY <2>1, <2>2
<1>2. CASE AssertResult
  <2>1. main_pc \in Calls
    BY <1>2 DEF AssertResult, TypeOK, MainTypeOK
  <2>2. main_pc' \in Tuned => main_pc \in Tuned
    BY <1>2, <2>1, AfterStepTuned, Places DEF AssertResult, Tuned
  <2> QED
    BY <1>2, <2>2, LockMove DEF AssertResult, playerVars
<1>3. CASE WaitForStatus
  BY <1>3, LockMove DEF WaitForStatus, playerVars
<1>4. CASE LockTimeout
  BY <1>4, LockMove DEF LockTimeout, Tuned, playerVars
<1>5. CASE remote_init \/ remote_callback_register \/ LoadConfig
  <2>1. UNCHANGED <<tuner, player>>
    BY <1>5 DEF remote_init, remote_callback_register, LoadConfig, playerVars
  <2>2. main_pc' \in {"register", "exit", "load_config", "tuner_init"}
    BY <1>5 DEF remote_init, remote_callback_register, LoadConfig, GoTo, Fail
  <2> QED
    BY <2>1, <2>2, LockMove DEF Tuned
<1>6. CASE CheckPids
  BY <1>6, LockMove DEF CheckPids, GoTo, Fail, Tuned, playerVars
<1>7. CASE StartThread \/ graphics_init \/ WaitForExit \/ graphics_deinit
  BY <1>7, LockMove DEF StartThread, graphics_init, WaitForExit, graphics_deinit,
     GoTo, Fail, Crash, Tuned, playerVars
<1>8. CASE stream_deinit
  <2>1. UNCHANGED tuner
    BY <1>8 DEF stream_deinit, JoinStream, CloseStream, FreeTables
  <2>2. player' => player
    BY <1>8 DEF stream_deinit, JoinStream, CloseStream, FreeTables, playerVars
  <2>3. main_pc' \in {"exit", "free_filter", "free_tables", "unregister"}
    BY <1>8 DEF stream_deinit, JoinStream, CloseStream, FreeTables, GoTo, Fail
  <2> QED
    BY <2>1, <2>2, <2>3, LockMove DEF Tuned
<1>9. CASE remote_callback_unregister \/ remote_deinit
  <2>1. UNCHANGED <<tuner, player>>
    BY <1>9 DEF remote_callback_unregister, remote_deinit, StopRemote, JoinRemote,
       playerVars
  <2>2. main_pc' \in {"exit", "rc_deinit", "rc_join"}
    BY <1>9 DEF remote_callback_unregister, remote_deinit, StopRemote, JoinRemote,
       GoTo, Fail
  <2> QED
    BY <2>1, <2>2, LockMove DEF Tuned
<1> QED
  BY <1>1, <1>2, <1>3, <1>4, <1>5, <1>6, <1>7, <1>8, <1>9 DEF main, stream_init

\* While main waits for the lock no section is parsed, so the signal that ends
\* the wait is the tuner's.
LEMMA OthersLock ==
  ASSUME TypeOK, MutexInv, LockInv, Others
  PROVE  LockInv'
<1>1. CASE remote_loop \/ ReadFails \/ \E k \in Events : ReadEvent(k)
  <2>1. /\ UNCHANGED <<tuner, player>>
        /\ \/ UNCHANGED main_pc
           \/ main_pc' = "crashed"
           \/ main_pc = "wait_exit"
    BY <1>1 DEF remote_loop, TestCallback, CallCallback, CallNothing, change_program,
       set_volume, ExitKey, LoopRemote, ReadFails, ReadEvent, RemoteAt, Crash,
       mainVars, playerVars
  <2> QED
    BY <2>1, LockMove DEF Tuned
<1>2. CASE TunerChecked
  <2>1. UNCHANGED player /\ tuner = "checking"
    BY <1>2 DEF TunerChecked, playerVars
  <2>2. ~player /\ main_pc \notin Tuned
    BY <2>1 DEF LockInv, PlayerWaitsForLock
  <2>3. CASE tuner' = "locked"
    BY <2>1, <2>2, <2>3 DEF LockInv, PlayerWaitsForLock
  <2>4. CASE UNCHANGED mainVars
    BY <2>1, <2>2, <2>4 DEF mainVars, LockInv, PlayerWaitsForLock
  <2> QED
    BY <1>2, <2>3, <2>4 DEF TunerChecked
<1>3. CASE SectionReceived \/ filter_callback
  <2>1. /\ UNCHANGED <<tuner, player>>
        /\ demux
        /\ SignalStatus \/ UNCHANGED mainVars
    BY <1>3 DEF SectionReceived, filter_callback, Filtered, MutexInv,
       SectionInv, playerVars
  <2>2. main_pc \notin Early
    BY <2>1 DEF MutexInv, EarlyInv
  <2>3. main_pc' \in Tuned => main_pc \in Tuned
    BY <2>1, <2>2, SignalSteps, Places DEF Early, Tuned, mainVars
  <2> QED
    BY <2>1, <2>3, LockMove
<1>4. CASE StreamThreadEnds \/ StreamThreadFails
  BY <1>4, LockMove DEF StreamThreadEnds, StreamThreadFails, mainVars, playerVars
<1> QED
  BY <1>1, <1>2, <1>3, <1>4 DEF Others

\* A deadline that is valid stays so.
LEMMA DeadlineStays ==
  ASSUME [Next]_vars
  PROVE  deadline_ok' = deadline_ok
<1>1. CASE main \/ LockTimeout
  BY <1>1 DEF main, stream_init, stream_deinit, remote_deinit, remote_init,
     remote_callback_register, LoadConfig, TdpCall, AssertResult, WaitForStatus,
     CheckPids, StartThread, graphics_init, WaitForExit, graphics_deinit, JoinStream,
     CloseStream, FreeTables, remote_callback_unregister, StopRemote, JoinRemote,
     LockTimeout, GoTo, Fail, Crash
<1>2. CASE Others
  BY <1>2 DEF Others, remote_loop, TestCallback, CallCallback, CallNothing,
     change_program, set_volume, ExitKey, LoopRemote, ReadFails, ReadEvent,
     TunerChecked, SectionReceived, filter_callback, StreamThreadEnds,
     StreamThreadFails, SignalStatus, Crash, mainVars
<1>3. CASE UNCHANGED vars
  BY <1>3 DEF vars, mainVars
<1> QED
  BY <1>1, <1>2, <1>3 DEF Next, Others

\* Where the stream thread can be, and where the tables are freed.
AtWork == {"graphics_init", "wait_exit", "graph_deinit", "str_deinit"}
TablesFreed == {"unregister", "rc_deinit", "rc_join"} \cup Ended
StreamLives == stream \in {"running", "ended", "failed"} /\ Alive

\* What holds with any deadline: main is only past the call that locks when the
\* tuner was told to, whatever the volume key does to error; and the stream thread
\* is joined before the tables are freed.
Asked ==
  /\ main_pc \in Tuned \cup {"wait_lock"} \/ player => tuner # "none"
  /\ main_pc = "lock" /\ checking /\ ~error => tuner # "none"
Joined ==
  /\ sdt = "freed" => main_pc \in TablesFreed
  /\ StreamLives => main_pc \in AtWork
AnyDeadline == Asked /\ Joined

LEMMA AskedMove ==
  ASSUME Asked, tuner' = "none" => tuner = "none",
         main_pc' \in Tuned \cup {"wait_lock"} => main_pc \in Tuned \cup {"wait_lock"},
         main_pc' = "lock" /\ checking' /\ ~error' => main_pc = "lock" /\ checking /\ ~error,
         player' => player \/ main_pc \in Tuned
  PROVE  Asked'
BY DEF Asked

LEMMA JoinedMove ==
  ASSUME Joined, UNCHANGED stream, sdt' = "freed" => sdt = "freed",
         main_pc \in TablesFreed => main_pc' \in TablesFreed,
         StreamLives' => Alive /\ (main_pc \in AtWork => main_pc' \in AtWork)
  PROVE  Joined'
BY DEF Joined, StreamLives

\* A call of start-up and its test.
LEMMA CallsAny ==
  ASSUME TypeOK, MutexInv, AnyDeadline, TdpCall \/ AssertResult
  PROVE  AnyDeadline'
<1>0. main_pc \in Calls /\ UNCHANGED <<stream, sdt>>
  BY DEF TdpCall, AssertResult, tableVars, TypeOK, MainTypeOK
<1>1. CASE TdpCall
  <2>1. \/ Crash /\ UNCHANGED <<tuner, player>>
        \/ /\ UNCHANGED main_pc
           /\ tuner' = (IF main_pc = "lock" /\ ~error' THEN "checking" ELSE tuner)
           /\ player' => player \/ main_pc = "player_init"
    <3>1. CASE main_pc = "filter_pmt" /\ pat = "null"
      BY <1>1, <3>1 DEF TdpCall, playerVars
    <3>2. ASSUME NEW r, error' = r, UNCHANGED main_pc,
                 tuner' = IF main_pc = "lock" /\ ~r THEN "checking" ELSE tuner,
                 player' = (player \/ (main_pc = "player_init" /\ ~r))
          PROVE  /\ tuner' = (IF main_pc = "lock" /\ ~error' THEN "checking" ELSE tuner)
                 /\ player' => player \/ main_pc = "player_init"
      BY <3>2
    <3> QED
      BY <1>1, <3>1, <3>2 DEF TdpCall
  <2>2. Asked'
    BY <2>1 DEF Crash, Asked, AnyDeadline, Tuned
  <2>3. Joined'
    BY <1>0, <2>1, Places DEF Crash, Joined, AnyDeadline, StreamLives, TablesFreed, Ended,
       AtWork, Alive
  <2> QED
    BY <2>2, <2>3 DEF AnyDeadline
<1>2. CASE AssertResult
  <2>1. /\ UNCHANGED <<tuner, player, error>> /\ checking /\ ~checking'
        /\ main_pc' = "str_deinit" \/ (~error /\ main_pc' = AfterStep[main_pc])
    BY <1>2 DEF AssertResult, playerVars
  <2>2. main_pc' \in Tuned \cup {"wait_lock"} =>
          main_pc \in Tuned \/ (main_pc = "lock" /\ ~error)
    BY <1>0, <2>1, StepTable, Places DEF Tuned
  <2>3. Asked'
    BY <2>1, <2>2 DEF Asked, AnyDeadline
  <2>4. Joined'
    BY <1>0, <2>1, StepTable, Places DEF Joined, AnyDeadline, StreamLives, TablesFreed,
       Ended, AtWork, Alive
  <2> QED
    BY <2>3, <2>4 DEF AnyDeadline
<1> QED
  BY <1>1, <1>2

\* The other steps of the main thread.
LEMMA MainAny ==
  ASSUME TypeOK, MutexInv, AnyDeadline, main \/ LockTimeout
  PROVE  AnyDeadline'
<1> USE DEF AnyDeadline, TablesFreed, Ended, Alive, AtWork
<1>1. CASE TdpCall \/ AssertResult
  BY <1>1, CallsAny
<1>2. CASE WaitForStatus \/ LockTimeout
  <2>1. /\ UNCHANGED <<tuner, player, stream, sdt>>
        /\ main_pc \in Waits
        /\ \/ UNCHANGED main_pc
           \/ main_pc' = "str_deinit"
           \/ main_pc = "wait_lock" /\ main_pc' = "player_init"
    BY <1>2, StepTable DEF WaitForStatus, LockTimeout, GoTo, Waits, playerVars, tableVars
  <2> QED
    BY <2>1, AskedMove, JoinedMove DEF Joined, StreamLives, Tuned, Waits
<1>3. CASE remote_init \/ remote_callback_register \/ LoadConfig \/ CheckPids
           \/ graphics_init \/ WaitForExit \/ graphics_deinit
           \/ remote_callback_unregister \/ remote_deinit
  <2>1. /\ UNCHANGED <<tuner, player, stream, sdt>>
        /\ \/ main_pc \in {"remote_init", "register", "load_config"}
              /\ main_pc' \in {"register", "load_config", "tuner_init", "exit"}
           \/ main_pc = "check_pids" /\ main_pc' \in {"create_audio", "str_deinit"}
           \/ main_pc = "graphics_init" /\ main_pc' \in {"wait_exit", "crashed", "graph_deinit"}
           \/ main_pc = "wait_exit" /\ main_pc' = "wait_exit"
           \/ main_pc = "graph_deinit" /\ main_pc' = "str_deinit"
           \/ main_pc \in {"unregister", "rc_deinit", "rc_join"}
              /\ main_pc' \in {"rc_deinit", "rc_join", "exit"}
    BY <1>3, StepTable DEF remote_init, remote_callback_register, LoadConfig, CheckPids,
       graphics_init, WaitForExit, graphics_deinit, remote_callback_unregister,
       remote_deinit, StopRemote, JoinRemote, GoTo, Fail, Crash, playerVars, tableVars
  <2>2. Asked'
    BY <2>1, AskedMove DEF Tuned
  <2>3. Joined'
    BY <2>1 DEF Joined, StreamLives
  <2> QED
    BY <2>2, <2>3
<1>4. CASE StartThread
  <2>1. /\ UNCHANGED <<tuner, player, sdt>> /\ main_pc = "start_thread"
        /\ \/ main_pc' = "graphics_init"
           \/ main_pc' = "str_deinit" /\ UNCHANGED stream
    BY <1>4 DEF StartThread, GoTo, Fail, playerVars, tableVars
  <2>2. Asked'
    BY <2>1, AskedMove DEF Tuned
  <2>3. Joined'
    BY <2>1 DEF Joined, StreamLives
  <2> QED
    BY <2>2, <2>3
<1>5. CASE stream_deinit
  <2>1. /\ UNCHANGED tuner /\ (player' => player)
        /\ \/ main_pc = "str_deinit" /\ main_pc' \in {"exit", "free_filter"}
              /\ stream' \in {"none", "joined"} /\ UNCHANGED sdt
           \/ main_pc = "free_filter" /\ main_pc' \in {"exit", "free_tables"}
              /\ UNCHANGED <<stream, sdt>>
           \/ main_pc = "free_tables" /\ main_pc' = "unregister" /\ UNCHANGED stream
    BY <1>5 DEF stream_deinit, JoinStream, CloseStream, FreeTables, GoTo, Fail,
       playerVars, tableVars
  <2>2. Asked'
    BY <2>1, AskedMove DEF Tuned
  <2>3. Joined'
    BY <2>1 DEF Joined, StreamLives
  <2> QED
    BY <2>2, <2>3
<1> QED
  BY <1>1, <1>2, <1>3, <1>4, <1>5 DEF main, stream_init

\* The other threads: a failed volume call never clears the error of the lock, as
\* there is no player yet.
LEMMA OthersAny ==
  ASSUME TypeOK, MutexInv, AnyDeadline, Others
  PROVE  AnyDeadline'
<1> USE DEF AnyDeadline, TablesFreed, Ended, Alive, AtWork
<1>1. CASE remote_loop \/ ReadFails \/ \E k \in Events : ReadEvent(k)
  <2>1. /\ UNCHANGED <<tuner, player, stream, sdt>> /\ Alive
        /\ \/ UNCHANGED <<main_pc, checking>> /\ (error' = error \/ (player \/ error'))
           \/ main_pc' = "crashed"
           \/ main_pc = "wait_exit" /\ main_pc' = "graph_deinit"
    BY <1>1 DEF remote_loop, TestCallback, CallCallback, CallNothing, change_program,
       set_volume, ExitKey, LoopRemote, ReadFails, ReadEvent, RemoteAt, Crash,
       mainVars, playerVars, tableVars
  <2>2. main_pc = "lock" => ~player
    BY DEF MutexInv, EarlyInv, Early
  <2>3. Asked'
    BY <2>1, <2>2, AskedMove DEF Tuned
  <2>4. Joined'
    BY <2>1 DEF Joined, StreamLives
  <2> QED
    BY <2>3, <2>4
<1>2. CASE TunerChecked \/ SectionReceived \/ filter_callback
  <2>1. /\ UNCHANGED <<player, stream, error>> /\ Alive
        /\ tuner' = tuner \/ tuner' # "none"
        /\ sdt' = "freed" => sdt = "freed"
        /\ SignalStatus \/ UNCHANGED mainVars
    BY <1>2 DEF TunerChecked, SectionReceived, filter_callback, BeginTable, EndTable,
       playerVars, tableVars
  <2>2. /\ UNCHANGED checking
        /\ \/ UNCHANGED main_pc
           \/ main_pc \in Waits /\ main_pc' \in {"player_init", "free_pat", "free_sdt", "check_pids"}
    BY <2>1, StepTable DEF SignalStatus, Waits, mainVars
  <2>3. Asked'
    BY <2>1, <2>2, AskedMove DEF Tuned, Waits
  <2>4. Joined'
    BY <2>1, <2>2 DEF Joined, StreamLives, Waits
  <2> QED
    BY <2>3, <2>4
<1>3. CASE StreamThreadEnds \/ StreamThreadFails
  <2>1. /\ UNCHANGED <<main_pc, checking, tuner, player, error, sdt>>
        /\ stream = "running" /\ Alive
    BY <1>3 DEF StreamThreadEnds, StreamThreadFails, mainVars, playerVars, tableVars
  <2>2. Asked'
    BY <2>1, AskedMove
  <2>3. Joined'
    BY <2>1 DEF Joined, StreamLives
  <2> QED
    BY <2>2, <2>3
<1> QED
  BY <1>1, <1>2, <1>3 DEF Others

LEMMA AnyDeadlineHolds == Spec => []AnyDeadline
<1>1. Init => AnyDeadline
  BY DEF Init, AnyDeadline, Asked, Joined, StreamLives, Tuned
<1>2. TypeOK /\ MutexInv /\ AnyDeadline /\ [Next]_vars => AnyDeadline'
  <2> SUFFICES ASSUME TypeOK, MutexInv, AnyDeadline, [Next]_vars PROVE AnyDeadline'
    OBVIOUS
  <2>1. CASE UNCHANGED vars
    BY <2>1 DEF vars, mainVars, playerVars, tableVars, AnyDeadline, Asked, Joined,
       StreamLives, Alive
  <2> QED
    BY <2>1, MainAny, OthersAny DEF Next, Others
<1> QED
  BY <1>1, <1>2, MutexInductive, PTL DEF Spec

\* The player is never initialised before the tuner was told to lock, whatever the
\* stack holds for the deadline; and never before the lock unless that is an
\* invalid deadline, with which there is no wait.
THEOREM LockBeforePlayer == Spec => []PlayerNeedsLock
<1>1. Init => (deadline_ok => LockInv)
  BY DEF Init, LockInv, PlayerWaitsForLock, Tuned
<1>2. TypeOK /\ MutexInv /\ (deadline_ok => LockInv) /\ [Next]_vars
        => (deadline_ok => LockInv)'
  <2> SUFFICES ASSUME TypeOK, MutexInv, deadline_ok => LockInv, [Next]_vars, deadline_ok'
               PROVE  LockInv'
    OBVIOUS
  <2>1. deadline_ok /\ LockInv
    BY DeadlineStays
  <2>2. CASE UNCHANGED vars
    BY <2>1, <2>2, LockMove DEF vars, mainVars, playerVars
  <2> QED
    BY <2>1, <2>2, MainLock, OthersLock DEF Next, Others
<1>3. (deadline_ok => LockInv) /\ AnyDeadline => PlayerNeedsLock
  BY DEF LockInv, PlayerWaitsForLock, PlayerNeedsLock, AnyDeadline, Asked
<1> QED
  BY <1>1, <1>2, <1>3, MutexInductive, AnyDeadlineHolds, PTL DEF Spec

-----------------------------------------------------------------------------
(* The tables of the stream thread. *)

\* The phases of start-up: what the filter lets through in each.
PatPhase == Early \cup {"player_init", "source_open", "filter_pat", "register_demux",
                        "wait_pat", "free_pat"}
SdtPhase == {"filter_sdt", "wait_sdt"}
PmtPhase == {"free_sdt", "filter_pmt", "wait_pmt", "check_pids", "create_audio",
             "create_video", "start_thread", "graphics_init", "wait_exit",
             "graph_deinit"}

\* PAT is incomplete only while filter_callback is at it.
PatInv ==
  /\ pat = "allocated" => section = [table |-> "PAT", pc |-> "end"]
  /\ section.table = "PAT" /\ section.pc = "signal" => pat \in {"filled", "freed"}
  /\ section.table = "none" => section = Idle

PhaseInv ==
  /\ main_pc \in PatPhase =>
       filter \in {"none", "PAT"} /\ section.table \in {"none", "PAT"}
  /\ main_pc = "free_pat" /\ checking => filter = "none"
  /\ main_pc \in SdtPhase => filter \in {"none", "SDT"}
  /\ main_pc \in PmtPhase => filter # "PAT" /\ section.table # "PAT"
  /\ main_pc \in {"free_pat"} \cup SdtPhase \cup PmtPhase => pat # "null"
  /\ pat = "freed" \/ sdt = "freed" => main_pc \in TablesFreed

StreamInv ==
  stream \in {"running", "ended", "failed"} /\ Alive =>
    /\ main_pc \in {"graphics_init", "wait_exit", "graph_deinit", "str_deinit"}
    /\ filter # "PAT" /\ section.table # "PAT" /\ pat # "null"

TablesInv == PatInv /\ PhaseInv /\ StreamInv

\* A running stream thread finds its tables.
LEMMA TablesServe ==
  ASSUME TypeOK, deadline_ok => TablesInv, AnyDeadline
  PROVE  TablesServeStreamThread
<1>1. StreamLives => sdt # "freed"
  BY DEF AnyDeadline, Joined, StreamLives, AtWork, TablesFreed, Ended
<1>2. deadline_ok /\ StreamLives => pat = "filled"
  BY DEF TypeOK, TablesTypeOK, TablesInv, PatInv, PhaseInv, StreamInv, StreamLives,
     TablesFreed, Alive
<1> QED
  BY <1>1, <1>2 DEF TablesServeStreamThread, StreamLives

\* TablesInv is preserved when main moves within a phase or out of start-up.
LEMMA TablesMove ==
  ASSUME TablesInv, UNCHANGED <<filter, section, pat, sdt, stream>>,
         main_pc' \in PatPhase => main_pc \in PatPhase,
         main_pc' = "free_pat" => main_pc = "free_pat" /\ (checking' => checking),
         main_pc' \in SdtPhase => main_pc \in SdtPhase,
         main_pc' \in PmtPhase => main_pc \in PmtPhase,
         main_pc \in TablesFreed => main_pc' \in TablesFreed,
         stream \in {"running", "ended", "failed"} /\ Alive' =>
           /\ Alive
           /\ main_pc' \in {"graphics_init", "wait_exit", "graph_deinit", "str_deinit"}
  PROVE  TablesInv'
<1>1. PatInv'
  BY DEF TablesInv, PatInv, Idle
<1>2. PhaseInv'
  BY DEF TablesInv, PhaseInv
<1>3. StreamInv'
  BY DEF TablesInv, StreamInv
<1> QED
  BY <1>1, <1>2, <1>3 DEF TablesInv

\* A call sets the filter of its phase.
LEMMA CallTables ==
  ASSUME ZapperAssumption, TypeOK, TablesInv, TdpCall
  PROVE  TablesInv'
<1>1. main_pc \in Calls /\ UNCHANGED <<section, pat, sdt, stream>>
  BY DEF TdpCall, tableVars
<1>2. ~(stream \in {"running", "ended", "failed"} /\ Alive)
  BY <1>1, Places DEF TablesInv, StreamInv
<1>3. CASE Crash
  BY <1>1, <1>2, <1>3, Places
     DEF Crash, TablesInv, PatInv, PhaseInv, StreamInv, Idle, PatPhase, Early, SdtPhase,
         PmtPhase, TablesFreed, Ended, Alive
<1>4. CASE ~Crash
  <2>1. /\ UNCHANGED main_pc /\ checking' = TRUE
        /\ \/ UNCHANGED filter /\ main_pc # "free_pat"
           \/ filter' = "none"
           \/ main_pc = "filter_pat" /\ filter' = "PAT"
           \/ main_pc = "filter_sdt" /\ filter' = "SDT"
           \/ main_pc = "filter_pmt" /\ filter' # "PAT"
    <3>1. pr_counter # "PAT"
      BY DEF ZapperAssumption, TypeOK, StreamTypeOK
    <3>2. UNCHANGED main_pc /\ checking' = TRUE
      BY <1>4 DEF TdpCall
    <3>3. PICK r \in Results(main_pc) :
             filter' = IF r THEN filter ELSE
                  CASE main_pc \in Frees -> "none"
                    [] main_pc = "filter_pat" -> "PAT"
                    [] main_pc = "filter_sdt" -> "SDT"
                    [] main_pc = "filter_pmt" ->
                         IF pat = "filled" THEN pr_counter ELSE "garbage"
                    [] OTHER -> filter
      BY <1>4 DEF TdpCall
    <3>4. CASE main_pc = "free_pat"
      BY <3>2, <3>3, <3>4 DEF Results, Frees
    <3>5. CASE main_pc # "free_pat"
      BY <3>1, <3>2, <3>3, <3>5 DEF Frees
    <3> QED
      BY <3>4, <3>5
  <2>2. PatInv'
    BY <1>1 DEF TablesInv, PatInv, Idle
  <2>3. PhaseInv'
    BY <1>1, <2>1 DEF TablesInv, PhaseInv, PatPhase, Early, SdtPhase, PmtPhase
  <2>4. StreamInv'
    BY <1>1, <1>2, <2>1 DEF StreamInv, Alive
  <2> QED
    BY <2>2, <2>3, <2>4 DEF TablesInv
<1> QED
  BY <1>3, <1>4

\* A tested call goes on to the next phase with the filter freed, or gives up.
LEMMA ResultTables ==
  ASSUME TypeOK, TablesInv, AssertResult
  PROVE  TablesInv'
<1>1. main_pc \in Calls /\ checking /\ UNCHANGED <<filter, section, pat, sdt, stream>>
  BY DEF AssertResult, TypeOK, MainTypeOK, playerVars, tableVars
<1>2. ~(stream \in {"running", "ended", "failed"} /\ Alive) /\ Alive
  BY <1>1, Places DEF TablesInv, StreamInv, Alive, Ended
<1>3. CASE main_pc = "free_pat" /\ main_pc' = "filter_sdt"
  <2>1. PatInv'
    BY <1>1 DEF TablesInv, PatInv, Idle
  <2>2. PhaseInv'
    BY <1>1, <1>3 DEF TablesInv, PhaseInv, PatPhase, Early, SdtPhase, PmtPhase,
       TablesFreed, Ended
  <2>3. StreamInv'
    BY <1>1, <1>2 DEF StreamInv
  <2> QED
    BY <2>1, <2>2, <2>3 DEF TablesInv
<1>4. CASE ~(main_pc = "free_pat" /\ main_pc' = "filter_sdt")
  <2>1. main_pc' = "str_deinit" \/ main_pc' = AfterStep[main_pc]
    BY DEF AssertResult
  <2>2. /\ main_pc' \in PatPhase => main_pc \in PatPhase
        /\ main_pc' # "free_pat"
        /\ main_pc' \in SdtPhase => main_pc \in SdtPhase
        /\ main_pc' \in PmtPhase => main_pc \in PmtPhase
        /\ main_pc \notin TablesFreed
    BY <1>1, <1>4, <2>1, StepTable, Places
       DEF PatPhase, Early, SdtPhase, PmtPhase, TablesFreed, Ended
  <2> QED
    BY <1>1, <1>2, <2>2, TablesMove
<1> QED
  BY <1>3, <1>4

\* The other steps of the main thread.
LEMMA MainTables ==
  ASSUME ZapperAssumption, TypeOK, MutexInv, TablesInv, deadline_ok,
         main \/ LockTimeout
  PROVE  TablesInv'
<1> USE DEF PatPhase, Early, SdtPhase, PmtPhase, TablesFreed, Ended, Alive
<1>1. CASE TdpCall \/ AssertResult
  BY <1>1, CallTables, ResultTables
<1>2. CASE remote_init \/ remote_callback_register \/ LoadConfig
  <2>1. stream = "none"
    BY <1>2 DEF remote_init, remote_callback_register, LoadConfig, MutexInv, EarlyInv
  <2> QED
    BY <1>2, <2>1, TablesMove DEF remote_init, remote_callback_register, LoadConfig,
       GoTo, Fail, playerVars, tableVars
<1>3. CASE WaitForStatus
  BY <1>3, TablesMove DEF WaitForStatus, TablesInv, StreamInv, Waits, playerVars,
     tableVars
<1>4. CASE LockTimeout
  BY <1>4, TablesMove DEF LockTimeout, TablesInv, StreamInv, playerVars, tableVars
<1>5. CASE CheckPids
  BY <1>5, StepTable, TablesMove DEF CheckPids, GoTo, Fail, TablesInv, StreamInv,
     playerVars, tableVars
<1>6. CASE StartThread
  <2>1. main_pc = "start_thread" /\ main_pc' \in {"graphics_init", "str_deinit"}
        /\ UNCHANGED <<filter, section, pat, sdt>>
        /\ (main_pc' = "str_deinit" => UNCHANGED stream)
    BY <1>6 DEF StartThread, GoTo, Fail, playerVars, tableVars
  <2>2. PatInv' /\ PhaseInv'
    BY <2>1 DEF TablesInv, PatInv, PhaseInv, Idle
  <2>3. StreamInv'
    BY <2>1 DEF TablesInv, PhaseInv, StreamInv
  <2> QED
    BY <2>2, <2>3 DEF TablesInv
<1>7. CASE graphics_init \/ WaitForExit \/ graphics_deinit
  BY <1>7, TablesMove DEF graphics_init, WaitForExit, graphics_deinit, GoTo, Fail,
     Crash, playerVars, tableVars
<1>8. CASE JoinStream
  <2>1. main_pc = "str_deinit" /\ main_pc' \in {"exit", "free_filter"}
        /\ UNCHANGED <<filter, section, pat, sdt>>
        /\ stream' \in {"none", "joined"}
    BY <1>8 DEF JoinStream, GoTo, Fail, playerVars, tableVars
  <2>2. PatInv' /\ PhaseInv'
    BY <2>1 DEF TablesInv, PatInv, PhaseInv, Idle
  <2>3. StreamInv'
    BY <2>1 DEF StreamInv
  <2> QED
    BY <2>2, <2>3 DEF TablesInv
<1>9. CASE CloseStream \/ FreeTables
  <2>1. /\ main_pc \in {"free_filter", "free_tables"}
        /\ main_pc' \in {"exit", "free_tables", "unregister"}
        /\ UNCHANGED <<section, stream>>
        /\ \/ UNCHANGED <<pat, sdt>>
           \/ pat' = "freed" /\ sdt' = "freed" /\ main_pc' = "unregister"
    BY <1>9 DEF CloseStream, FreeTables, GoTo, Fail, playerVars, tableVars
  <2>2. PatInv' /\ PhaseInv'
    BY <2>1 DEF TablesInv, PatInv, PhaseInv, Idle
  <2>3. StreamInv'
    BY <2>1 DEF TablesInv, StreamInv
  <2> QED
    BY <2>2, <2>3 DEF TablesInv
<1>10. CASE remote_callback_unregister \/ remote_deinit
  BY <1>10, TablesMove DEF remote_callback_unregister, remote_deinit, StopRemote,
     JoinRemote, GoTo, Fail, TablesInv, StreamInv, playerVars, tableVars
<1> QED
  BY <1>1, <1>2, <1>3, <1>4, <1>5, <1>6, <1>7, <1>8, <1>9, <1>10
     DEF main, stream_init, stream_deinit

\* The signal of a section that has been parsed ends a wait of start-up with the
\* PAT filled, and with no PAT section left once main waits for SDT or the PMT.
LEMMA SignalTables ==
  ASSUME TypeOK, TablesInv, SignalStatus, Alive, demux, MutexInv,
         UNCHANGED <<filter, stream>>, PatInv', section' = Idle,
         pat' \in {"filled", "freed"} \/ UNCHANGED pat,
         pat' = "freed" \/ sdt' = "freed" => pat = "freed" \/ sdt = "freed",
         main_pc = "wait_pat" => pat' # "null"
  PROVE  TablesInv'
<1> USE DEF PatPhase, Early, SdtPhase, PmtPhase, TablesFreed, Ended, Alive, Idle
<1>1. \/ UNCHANGED <<main_pc, checking>>
      \/ /\ UNCHANGED checking
         /\ \/ main_pc = "wait_pat" /\ main_pc' = "free_pat"
            \/ main_pc = "wait_sdt" /\ main_pc' = "free_sdt"
            \/ main_pc = "wait_pmt" /\ main_pc' = "check_pids"
  <2>1. main_pc # "wait_lock"
    BY DEF MutexInv, EarlyInv
  <2> QED
    BY <2>1, StepTable DEF SignalStatus, Waits, mainVars
<1>2. ~checking \/ UNCHANGED main_pc
  BY <1>1, Places DEF TypeOK, MainTypeOK
<1>3. PhaseInv'
  BY <1>1, <1>2 DEF TablesInv, PhaseInv
<1>4. StreamInv'
  BY <1>1 DEF TablesInv, StreamInv
<1> QED
  BY <1>3, <1>4 DEF TablesInv

\* The steps of a section.
LEMMA SectionTables ==
  ASSUME ZapperAssumption, TypeOK, MutexInv, TablesInv,
         SectionReceived \/ filter_callback
  PROVE  TablesInv'
<1>1. CASE SectionReceived
  <2>1. /\ section' = [table |-> filter, pc |-> "begin"]
        /\ UNCHANGED <<main_pc, checking, filter, pat, sdt, stream>>
        /\ section = Idle
        /\ filter # "none"
    BY <1>1 DEF SectionReceived, Filtered, mainVars, playerVars, ZapperAssumption
  <2>2. PatInv'
    BY <2>1 DEF TablesInv, PatInv, Idle
  <2>3. PhaseInv'
    BY <2>1 DEF TablesInv, PhaseInv
  <2>4. StreamInv'
    BY <2>1 DEF TablesInv, StreamInv, Alive
  <2> QED
    BY <2>2, <2>3, <2>4 DEF TablesInv
<1>2. CASE filter_callback /\ section.pc # "signal"
  <2>1. /\ UNCHANGED <<main_pc, checking, filter, stream>>
        /\ section'.table = section.table
        /\ (pat' = "freed" => pat = "freed") /\ (sdt' = "freed" => sdt = "freed")
        /\ (pat # "null" => pat' # "null")
    BY <1>2 DEF filter_callback, BeginTable, EndTable, TablesInv, PatInv, TypeOK,
       TablesTypeOK, mainVars, playerVars
  <2>2. PatInv'
    BY <1>2 DEF filter_callback, BeginTable, EndTable, TablesInv, PatInv, TypeOK,
       TablesTypeOK
  <2>3. PhaseInv'
    BY <2>1 DEF TablesInv, PhaseInv
  <2>4. StreamInv'
    BY <2>1 DEF TablesInv, StreamInv, Alive
  <2> QED
    BY <2>2, <2>3, <2>4 DEF TablesInv
<1>3. CASE filter_callback /\ section.pc = "signal"
  <2>1. /\ SignalStatus /\ Alive /\ section' = Idle /\ demux
        /\ UNCHANGED <<filter, stream, pat, sdt>>
    BY <1>3 DEF filter_callback, MutexInv, SectionInv, playerVars
  <2>2. PatInv'
    BY <1>3, <2>1 DEF TablesInv, PatInv, Idle
  <2>3. main_pc = "wait_pat" => pat' # "null"
    BY <1>3, <2>1 DEF TablesInv, PatInv, PhaseInv, PatPhase, filter_callback, Idle,
       TypeOK, TablesTypeOK
  <2> QED
    BY <2>1, <2>2, <2>3, SignalTables
<1> QED
  BY <1>1, <1>2, <1>3

\* The steps of the other threads.
LEMMA OthersTables ==
  ASSUME ZapperAssumption, TypeOK, MutexInv, LockInv, TablesInv, Others
  PROVE  TablesInv'
<1> USE DEF PatPhase, Early, SdtPhase, PmtPhase, TablesFreed, Ended, Alive
<1>1. CASE remote_loop \/ ReadFails \/ \E k \in Events : ReadEvent(k)
  <2>1. /\ UNCHANGED <<filter, section, pat, sdt, stream>>
        /\ \/ UNCHANGED mainVars
           \/ main_pc' = "crashed"
           \/ main_pc = "wait_exit" /\ main_pc' = "graph_deinit"
        /\ Alive
    BY <1>1 DEF remote_loop, TestCallback, CallCallback, CallNothing, change_program,
       set_volume, ExitKey, LoopRemote, ReadFails, ReadEvent, RemoteAt, Crash,
       playerVars, tableVars
  <2> QED
    BY <2>1, TablesMove DEF mainVars, TablesInv, StreamInv
<1>2. CASE TunerChecked
  <2>1. /\ UNCHANGED <<filter, section, pat, sdt, stream>>
        /\ SignalStatus \/ UNCHANGED mainVars
        /\ tuner = "checking" /\ Alive
    BY <1>2 DEF TunerChecked, playerVars, tableVars
  <2>2. main_pc \notin Tuned
    BY <2>1 DEF LockInv
  <2>3. CASE UNCHANGED mainVars
    BY <2>1, <2>3, TablesMove DEF mainVars, TablesInv, StreamInv
  <2>4. CASE main_pc = "wait_lock" /\ main_pc' = "player_init"
    BY <2>1, <2>4, TablesMove DEF TablesInv, StreamInv
  <2>5. CASE UNCHANGED main_pc /\ SignalStatus
    <3>1. UNCHANGED checking
      BY <2>5 DEF SignalStatus, mainVars
    <3> QED
      BY <2>1, <2>5, <3>1, TablesMove DEF TablesInv, StreamInv
  <2> QED
    BY <2>1, <2>2, <2>3, <2>4, <2>5, SignalSteps DEF Waits, Tuned
<1>3. CASE SectionReceived \/ filter_callback
  BY <1>3, SectionTables
<1>4. CASE StreamThreadEnds \/ StreamThreadFails
  <2>1. /\ stream = "running" /\ Alive
        /\ UNCHANGED <<main_pc, checking, filter, section, pat, sdt>>
    BY <1>4 DEF StreamThreadEnds, StreamThreadFails, mainVars, playerVars, tableVars
  <2>2. PatInv' /\ PhaseInv'
    BY <2>1 DEF TablesInv, PatInv, PhaseInv, Idle
  <2>3. StreamInv'
    BY <2>1 DEF TablesInv, StreamInv
  <2> QED
    BY <2>2, <2>3 DEF TablesInv
<1> QED
  BY <1>1, <1>2, <1>3, <1>4 DEF Others

\* The stream thread finds the tables as long as it runs, however the signals of the
\* sections fall, whichever keys are pressed and whichever calls fail: they are not
\* freed, and the PAT is complete unless the deadline is invalid.
THEOREM StreamThreadTables == Spec => []TablesServeStreamThread
<1> DEFINE Inv == LockInv /\ TablesInv
<1>1. Init => (deadline_ok => Inv)
  BY DEF Init, LockInv, PlayerWaitsForLock, Tuned, TablesInv, PatInv, PhaseInv, StreamInv,
     PatPhase, Early, SdtPhase, PmtPhase, Idle
<1>2. TypeOK /\ MutexInv /\ (deadline_ok => Inv) /\ [Next]_vars => (deadline_ok => Inv)'
  <2> SUFFICES ASSUME TypeOK, MutexInv, deadline_ok => Inv, [Next]_vars, deadline_ok'
               PROVE  LockInv' /\ TablesInv'
    OBVIOUS
  <2>1. deadline_ok /\ LockInv /\ TablesInv
    BY DeadlineStays
  <2>2. CASE UNCHANGED vars
    <3>1. LockInv'
      BY <2>1, <2>2, LockMove DEF vars, mainVars, playerVars
    <3>2. TablesInv'
      BY <2>1, <2>2 DEF vars, mainVars, playerVars, tableVars, TablesInv, PatInv, PhaseInv,
         StreamInv, Idle, Alive
    <3> QED
      BY <3>1, <3>2
  <2> QED
    BY <2>1, <2>2, MainLock, OthersLock, MainTables, OthersTables, ZapperAssumption
       DEF Next, Others
<1>3. TypeOK /\ (deadline_ok => Inv) /\ AnyDeadline => TablesServeStreamThread
  BY TablesServe
<1> HIDE DEF Inv
<1> QED
  BY <1>1, <1>2, <1>3, MutexInductive, AnyDeadlineHolds, PTL DEF Spec


-----------------------------------------------------------------------------
(* The configuration file that main has parsed first.  It is accepted      *)
(* exactly if it is complete, for every set of files: nothing is assumed   *)
(* of their length or of their words.                                      *)

\* The lines of parameter p that have been read.
Read(p) == {k \in Lines(file, p) : k < word}

\* What loaded and params say of the words that were read.
Progress ==
  file # None =>
    /\ word \in 1..(Len(file) + 1)
    /\ \A k \in DOMAIN file : k < word => file[k].value # None
    /\ \A p \in Parameters : p \notin loaded => Read(p) = {}
    /\ \A p \in loaded : \E k \in Read(p) :
         /\ Read(p) = {k} /\ Valid(file[k])
         /\ verdict # "ERROR" /\ p \in Numbers => params[p] = Stored(file[k])

\* Whoever returned had a reason.
Verdict ==
  /\ verdict \in {"OK", "not_closed"} => file # None /\ word \notin DOMAIN file
  /\ verdict = "OK" => loaded = Parameters
  /\ verdict = "ERROR" => ~Complete(file)

IInv == ConfigTypeOK /\ Progress /\ Verdict

\* A file that can be opened is a sequence of words.
LEMMA FileIsWords ==
  ASSUME file \in Files, file # None
  PROVE  /\ file \in Seq([param : STRING, value : STRING \cup {None}, number : Int])
         /\ DOMAIN file = 1..Len(file) /\ Len(file) \in Nat
         /\ \A k \in DOMAIN file : file[k].number \in Int
<1> DEFINE W == [param : STRING, value : STRING \cup {None}, number : Int]
<1>1. file \in Seq(W)
  BY FilesAssumption
<1>2. DOMAIN file = 1..Len(file) /\ Len(file) \in Nat /\ \A k \in DOMAIN file : file[k] \in W
  <2> HIDE DEF W
  <2> QED
    BY <1>1
<1> QED
  BY <1>1, <1>2

\* What is stored in the parameters is a number.
LEMMA StoredIsInt ==
  ASSUME NEW w, w.number \in Int
  PROVE  Stored(w) \in Int
BY DEF Stored

\* A number that is in range as the file gives it is in range as it is stored.
LEMMA InRangeIsValid ==
  ASSUME NEW w, w.number \in Int, w.param \in Numbers => InRange(w.param, w.number)
  PROVE  Valid(w)
BY DEF InRange, Valid, Stored

\* A valid parameter is in range, and is the number of the file if that fits.
LEMMA ValidIsInRange ==
  ASSUME NEW w, w.number \in Int, w.param \in Numbers, Valid(w)
  PROVE  /\ InRange(w.param, Stored(w))
         /\ Fits(w.param, w.number) => Stored(w) = w.number
BY DEF InRange, Valid, Stored, Fits

\* The sections of code that lead to an error do so on files that are not complete.
LEMMA RefusedIsIncomplete ==
  ASSUME IInv, Refuse,
         \/ file = None
         \/ InFile /\ Here.value = None
         \/ InFile /\ Recognised(Here) /\ (Here.param \in loaded \/ ~Valid(Here))
  PROVE  ~Complete(file)
<1>1. CASE file = None
  BY <1>1 DEF Complete, OnceEach
<1>2. CASE InFile /\ Here.value = None
  BY <1>2 DEF Complete, OnceEach, InFile, Reading, Here
<1>3. CASE InFile /\ Recognised(Here) /\ (Here.param \in loaded \/ ~Valid(Here))
  <2> SUFFICES ASSUME Complete(file) PROVE FALSE
    OBVIOUS
  <2>1. word \in DOMAIN file /\ file # None
    BY <1>3 DEF InFile, Reading
  <2>2. Here.param \in Parameters /\ word \in Lines(file, Here.param)
    BY <1>3, <2>1 DEF Recognised, Parameters, Lines, Here
  <2>3. PICK k \in Lines(file, Here.param) : Lines(file, Here.param) = {k}
    BY <2>2 DEF Complete, OnceEach
  <2>4. k = word /\ Valid(Here)
    <3>1. Here.number \in Int
      BY <2>1, FileIsWords DEF Here, IInv, ConfigTypeOK
    <3>2. Here.param \in Numbers => InRange(Here.param, Here.number)
      BY <2>2 DEF Complete, Given, Here
    <3> QED
      BY <2>2, <2>3, <3>1, <3>2, InRangeIsValid
  <2>5. Here.param \in loaded
    BY <1>3, <2>4
  <2>6. PICK n \in Read(Here.param) : Read(Here.param) = {n}
    BY <2>5, <2>1 DEF IInv, Progress
  <2>7. n \in Lines(file, Here.param) /\ n < word
    BY <2>6 DEF Read
  <2>8. word \in Nat
    BY DEF IInv, ConfigTypeOK
  <2> QED
    BY <2>3, <2>4, <2>7, <2>8
<1> QED
  BY <1>1, <1>2, <1>3

\* The parser keeps the invariant: one step for each way a turn can end.
LEMMA Step ==
  ASSUME IInv, [parse_config_file]_configVars
  PROVE  IInv'
<1> USE DEF IInv
<1>0. file' = file
  BY DEF parse_config_file, FileNotOpened, ValueMissing, SkipWord, DeclaredAgain, LoadParam,
         EndOfFile, Refuse, configVars
<1>1. ASSUME Refuse, UNCHANGED params,
             \/ file = None
             \/ InFile /\ Here.value = None
             \/ InFile /\ Recognised(Here) /\ (Here.param \in loaded \/ ~Valid(Here))
      PROVE  IInv'
  <2>1. ~Complete(file)
    BY <1>1, RefusedIsIncomplete
  <2>2. ConfigTypeOK'
    BY <1>1 DEF ConfigTypeOK, Refuse
  <2>3. Progress'
    BY <1>1 DEF Progress, Refuse, Read, Lines, Valid, Recognised, Stored
  <2>4. Verdict'
    BY <1>1, <2>1 DEF Verdict, Refuse, Complete, OnceEach, Given, InRange, Lines, Recognised
  <2> QED
    BY <2>2, <2>3, <2>4
<1>2. CASE FileNotOpened
  BY <1>1, <1>2 DEF FileNotOpened
<1>3. CASE ValueMissing
  BY <1>1, <1>3 DEF ValueMissing
<1>4. CASE DeclaredAgain
  BY <1>1, <1>4 DEF DeclaredAgain
<1>5. CASE SkipWord
  <2>1. word \in DOMAIN file /\ file # None /\ verdict = "reading"
    BY <1>5 DEF SkipWord, InFile, Reading
  <2>2. DOMAIN file = 1..Len(file) /\ Len(file) \in Nat /\ word \in Nat
    BY <2>1, FileIsWords DEF ConfigTypeOK
  <2>3. ConfigTypeOK'
    BY <1>5, <2>2 DEF SkipWord, ConfigTypeOK
  <2>4. \A p : Read(p)' = Read(p)
    <3>1. \A p : word \notin Lines(file, p)
      BY <1>5 DEF SkipWord, Here, Lines
    <3>2. \A p : Lines(file, p)' = Lines(file, p) /\ Lines(file, p) \subseteq DOMAIN file
      BY <1>0 DEF Lines, Recognised
    <3> QED
      BY <1>5, <2>2, <3>1, <3>2 DEF SkipWord, Read
  <2>5. Progress'
    <3>1. word' \in 1..(Len(file) + 1)
      BY <1>5, <2>1, <2>2 DEF SkipWord
    <3>2. \A k \in DOMAIN file : k < word' => file[k].value # None
      BY <1>5, <2>1, <2>2 DEF SkipWord, Progress, Here
    <3>3. loaded' = loaded /\ params' = params /\ verdict' = verdict
      BY <1>5 DEF SkipWord
    <3> QED
      BY <1>0, <2>1, <2>4, <3>1, <3>2, <3>3 DEF Progress, Valid, Stored
  <2>6. Verdict'
    BY <1>5, <2>1 DEF SkipWord, Verdict
  <2> QED
    BY <2>3, <2>5, <2>6
<1>6. CASE LoadParam
  <2>1. word \in DOMAIN file /\ file # None /\ verdict = "reading"
    BY <1>6 DEF LoadParam, InFile, Reading
  <2>2. DOMAIN file = 1..Len(file) /\ Len(file) \in Nat /\ word \in Nat /\ Here.number \in Int
    BY <2>1, FileIsWords DEF ConfigTypeOK, Here
  <2>3. Here.param \in Parameters /\ word \in Lines(file, Here.param) /\ Here.param \notin loaded
    BY <1>6, <2>1 DEF LoadParam, Recognised, Parameters, Lines, Here
  <2>4. params' \in [Numbers -> Int]
    BY <1>6, <2>2, StoredIsInt DEF LoadParam, SetParam, ConfigTypeOK
  <2>5. CASE ~Valid(Here)
    <3>1. Refuse
      BY <1>6, <2>5 DEF LoadParam
    <3>2. ~Complete(file)
      BY <1>6, <2>5, <3>1, RefusedIsIncomplete DEF LoadParam
    <3>3. ConfigTypeOK'
      BY <2>4, <3>1 DEF ConfigTypeOK, Refuse
    <3>4. Progress'
      BY <2>1, <3>1 DEF Progress, Refuse, Read, Lines, Valid, Recognised, Stored
    <3>5. Verdict'
      BY <3>1, <3>2 DEF Verdict, Refuse, Complete, OnceEach, Given, InRange, Lines, Recognised
    <3> QED
      BY <3>3, <3>4, <3>5
  <2>6. CASE Valid(Here)
    <3>1. /\ word' = word + 1 /\ loaded' = loaded \cup {Here.param}
          /\ file' = file /\ verdict' = verdict
      BY <1>6, <2>6 DEF LoadParam
    <3>2. ConfigTypeOK'
      BY <2>2, <2>3, <2>4, <3>1 DEF ConfigTypeOK
    <3>3. \A p : Lines(file, p)' = Lines(file, p) /\ Lines(file, p) \subseteq DOMAIN file
      BY <1>0 DEF Lines, Recognised
    <3>4. \A p : p # Here.param => Read(p)' = Read(p)
      <4>1. \A p : p # Here.param => word \notin Lines(file, p)
        BY DEF Here, Lines
      <4> QED
        BY <2>2, <3>1, <3>3, <4>1 DEF Read
    <3>5. \A p : p = Here.param => Read(p)' = {word}
      <4>1. Read(Here.param) = {}
        BY <2>1, <2>3 DEF Progress
      <4> QED
        BY <2>2, <2>3, <3>1, <3>3, <4>1 DEF Read
    <3>6. \A p \in Numbers : p # Here.param => params'[p] = params[p]
      BY <1>6 DEF LoadParam, SetParam, ConfigTypeOK
    <3>7. Here.param \in Numbers => params'[Here.param] = Stored(Here)
      BY <1>6 DEF LoadParam, SetParam, ConfigTypeOK
    <3>8. Progress'
      <4>1. word' \in 1..(Len(file) + 1)
        BY <2>1, <2>2, <3>1
      <4>2. \A k \in DOMAIN file : k < word' => file[k].value # None
        BY <1>6, <2>1, <2>2, <3>1 DEF LoadParam, Progress, Here
      <4>3. \A p \in Parameters : p \notin loaded' => Read(p)' = {}
        BY <2>1, <3>1, <3>4 DEF Progress
      <4>4. ASSUME NEW p \in loaded'
            PROVE  \E k \in Read(p)' :
                     /\ Read(p)' = {k} /\ Valid(file[k])
                     /\ verdict' # "ERROR" /\ p \in Numbers => params'[p] = Stored(file[k])
        <5>1. CASE p = Here.param
          BY <2>6, <3>5, <3>7, <5>1 DEF Here
        <5>2. CASE p # Here.param
          BY <2>1, <3>1, <3>4, <3>6, <4>4, <5>2 DEF Progress
        <5> QED
          BY <5>1, <5>2
      <4> QED
        BY <3>1, <4>1, <4>2, <4>3, <4>4 DEF Progress, Valid, Stored
    <3>9. Verdict'
      BY <2>1, <3>1 DEF Verdict
    <3> QED
      BY <3>2, <3>8, <3>9
  <2> QED
    BY <2>5, <2>6
<1>7. CASE EndOfFile
  <2>1. /\ file # None /\ word \notin DOMAIN file
        /\ file' = file /\ word' = word /\ loaded' = loaded /\ params' = params
        /\ verdict' \in {IF loaded = Parameters THEN "OK" ELSE "ERROR", "not_closed"}
    BY <1>7 DEF EndOfFile, Reading
  <2>2. ConfigTypeOK'
    BY <2>1 DEF ConfigTypeOK
  <2>3. Progress'
    <3>1. \A p : Read(p)' = Read(p)
      BY <2>1 DEF Read, Lines, Recognised
    <3>2. verdict = "reading"
      BY <1>7 DEF EndOfFile, Reading
    <3> QED
      BY <2>1, <3>1, <3>2 DEF Progress, Valid, Stored
  <2>4. loaded # Parameters => ~Complete(file)
    <3> SUFFICES ASSUME loaded # Parameters PROVE ~Complete(file)
      OBVIOUS
    <3>1. PICK p \in Parameters : p \notin loaded
      BY DEF ConfigTypeOK
    <3>2. Read(p) = {}
      BY <2>1, <3>1 DEF Progress
    <3>3. \A k \in DOMAIN file : k < word
      BY <2>1, FileIsWords DEF Progress, ConfigTypeOK
    <3>4. Lines(file, p) = {}
      BY <3>2, <3>3 DEF Read, Lines
    <3> QED
      BY <3>1, <3>4 DEF Complete, OnceEach
  <2>5. Verdict'
    <3>1. Complete(file)' <=> Complete(file)
      BY <2>1 DEF Complete, OnceEach, Given, InRange, Lines, Recognised
    <3> QED
      BY <2>1, <2>4, <3>1 DEF Verdict
  <2> QED
    BY <2>2, <2>3, <2>5
<1>8. CASE UNCHANGED configVars
  <2>1. /\ word' = word /\ loaded' = loaded /\ params' = params /\ verdict' = verdict
    BY <1>8 DEF configVars
  <2>2. \A p : Lines(file, p)' = Lines(file, p)
    BY <1>0 DEF Lines, Recognised
  <2>3. Complete(file)' <=> Complete(file)
    BY <1>0, <2>2 DEF Complete, OnceEach, Given, InRange
  <2>4. ConfigTypeOK' /\ Progress'
    BY <1>0, <2>1, <2>2 DEF ConfigTypeOK, Progress, Read, Valid, Stored
  <2> QED
    BY <1>0, <2>1, <2>3, <2>4 DEF Verdict
<1> QED
  BY <1>2, <1>3, <1>4, <1>5, <1>6, <1>7, <1>8 DEF parse_config_file

\* The parser starts in the invariant.
LEMMA Start == ConfigInit => IInv
<1> SUFFICES ASSUME ConfigInit PROVE IInv
  OBVIOUS
<1>1. ConfigTypeOK
  BY DEF ConfigInit, ConfigTypeOK
<1>2. Progress
  <2> SUFFICES ASSUME file # None PROVE Progress
    BY DEF Progress
  <2>1. DOMAIN file = 1..Len(file) /\ Len(file) \in Nat /\ word = 1 /\ loaded = {}
    BY FileIsWords DEF ConfigInit
  <2>2. \A p : Read(p) = {}
    BY <2>1 DEF Read, Lines
  <2> QED
    BY <2>1, <2>2 DEF Progress
<1>3. Verdict
  BY DEF ConfigInit, Verdict
<1> QED
  BY <1>1, <1>2, <1>3 DEF IInv

\* The invariant says when a file is accepted and when it is refused.
LEMMA InvariantAccepts == IInv => AcceptsTheComplete
<1> SUFFICES ASSUME IInv PROVE AcceptsTheComplete
  OBVIOUS
<1> USE DEF IInv
<1>1. ASSUME verdict = "OK"
      PROVE  /\ OnceEach(file)
             /\ \A p \in Numbers :
                  /\ InRange(p, params[p])
                  /\ \A n \in Given(file, p) : Fits(p, n) => params[p] = n
  <2>1. file # None /\ word \notin DOMAIN file /\ loaded = Parameters
    BY <1>1 DEF Verdict
  <2>2. \A k \in DOMAIN file : k < word
    BY <2>1, FileIsWords DEF Progress, ConfigTypeOK
  <2>3. \A p : Read(p) = Lines(file, p)
    BY <2>2 DEF Read, Lines
  <2>4. \A p \in Parameters : \E k \in Lines(file, p) :
          /\ Lines(file, p) = {k} /\ Valid(file[k])
          /\ p \in Numbers => params[p] = Stored(file[k])
    BY <1>1, <2>1, <2>3 DEF Progress
  <2>5. OnceEach(file)
    BY <2>1, <2>2, <2>4 DEF OnceEach, Progress
  <2>6. ASSUME NEW p \in Numbers
        PROVE  /\ InRange(p, params[p])
               /\ \A n \in Given(file, p) : Fits(p, n) => params[p] = n
    <3>1. PICK k \in Lines(file, p) :
            /\ Lines(file, p) = {k} /\ Valid(file[k])
            /\ params[p] = Stored(file[k])
      BY <2>4 DEF Parameters
    <3>2. file[k].param = p /\ file[k].number \in Int
      BY <2>1, <3>1, FileIsWords DEF Lines, ConfigTypeOK
    <3>3. Given(file, p) = {file[k].number}
      BY <3>1 DEF Given
    <3> QED
      BY <3>1, <3>2, <3>3, ValidIsInRange
  <2> QED
    BY <2>5, <2>6
<1> QED
  BY <1>1 DEF AcceptsTheComplete, Verdict

\* The parser's state is well formed, whatever the files hold.
THEOREM ConfigTypeCorrect == ConfigSpec => []ConfigTypeOK
<1>1. IInv => ConfigTypeOK
  BY DEF IInv
<1> QED
  BY Start, Step, <1>1, PTL DEF ConfigSpec

\* No complete file is refused, and of an accepted file each of the eight parameters
\* is given once, is in range and, where its field can hold it, is the number of the
\* file.  That is all: of the number of the program only the byte is looked at
\* (src/config_parser.c:20-181).
THEOREM AcceptsExactlyTheComplete == ConfigSpec => []AcceptsTheComplete
BY Start, Step, InvariantAccepts, PTL DEF ConfigSpec
===============================================================================
