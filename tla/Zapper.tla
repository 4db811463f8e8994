-------------------------------- MODULE Zapper --------------------------------
(***************************************************************************)
(* The life of the zapper: src/main.c, src/remote_controller.c, and        *)
(* stream_init and stream_deinit of src/stream_controller.c.               *)
(*                                                                         *)
(* The main thread starts the remote controller, which reads keys from     *)
(* then on, then tunes and parses PAT, SDT and the PMT of the configured   *)
(* program, each time waiting on the same condition variable; it starts    *)
(* the stream thread, waits for the EXIT key and undoes it all in the      *)
(* reverse order.  Meanwhile the remote controller's thread handles keys,  *)
(* the tuner check thread reports the lock once and the player's section   *)
(* thread runs filter_callback.  What the stream thread does in between is *)
(* the subject of StreamController, the screen that of GraphicsController. *)
(* When main returns the process and all its threads are gone.             *)
(***************************************************************************)
CONSTANTS
  Programs,      \* the programs of the stream, the entries of PAT.pmts
  FirstProgram,  \* the entry with index 0
  StartProgram,  \* the configured program; only its PIDs are in the file
  Keys,          \* the program keys that may be pressed
  OtherKeys,     \* the other keys that may be pressed
  CallsMayFail   \* whether tuner, player, timer and thread calls may fail

ASSUME ZapperAssumption ==
  /\ StartProgram \in Programs /\ FirstProgram \in Programs
  /\ Keys \subseteq Programs
  /\ Programs \cap {"none", "PAT", "SDT", "garbage", "release", "volume", "exit"} = {}
  /\ OtherKeys \subseteq {"volume", "exit"}
  /\ CallsMayFail \in BOOLEAN

VARIABLES
  main_pc,     \* where the main thread is
  checking,    \* a call of it returned, the test of error is next
  waiting,     \* it is blocked on the condition variable of its wait
  failed,      \* main's error: what stream_init and so on returned
  deadline_ok, \* whether lockStatusWaitTime.tv_nsec, which is never initialised,
               \* happens to be in range
  error,       \* stream_controller.c's file-scope result: TRUE is an error
  leaked,      \* status_mutex was left locked by a return
  rc_pc,       \* where the remote controller's thread is
  key,         \* the event it has read
  rc_running,  \* rc_thread_running
  callback,    \* whether remote_controller.c's callback is registered
  event_buf,   \* event_buf: "none", "live" or "freed"
  pr_counter,  \* the current program
  tuner,       \* the tuner check thread: "none", "checking", "locked", "unlocked"
  player,      \* whether the player engine is initialised
  filter,      \* what the demux filter lets through
  demux,       \* whether filter_callback is registered
  section,     \* the section filter_callback is working on
  pat,         \* PAT.pmts: "null", "allocated", "filled" or "freed"
  sdt,         \* SDT.services: "null", "filled" or "freed"
  parsed,      \* the programs whose entry of PAT.pmts is parsed
  stream       \* the stream thread: "none", "running", "ended", "failed" after
               \* a failed call (it keeps stream_params_mutex), "joined"

mainVars == <<main_pc, checking, waiting, failed, deadline_ok>>
rcVars == <<rc_pc, key, rc_running, callback, event_buf>>
tableVars == <<section, pat, sdt, parsed>>
playerVars == <<player, filter, demux>>
vars == <<mainVars, error, leaked, rcVars, pr_counter, tuner, playerVars,
          tableVars, stream>>

-----------------------------------------------------------------------------
(* The program of the main thread. *)

\* stream_init from its first call to the creation of its thread.
AfterStep ==
  [tuner_init     |-> "register_tuner", register_tuner |-> "lock",
   lock           |-> "wait_lock",      wait_lock      |-> "player_init",
   player_init    |-> "source_open",    source_open    |-> "filter_pat",
   filter_pat     |-> "register_demux", register_demux |-> "wait_pat",
   wait_pat       |-> "free_pat",       free_pat       |-> "filter_sdt",
   filter_sdt     |-> "wait_sdt",       wait_sdt       |-> "free_sdt",
   free_sdt       |-> "filter_pmt",     filter_pmt     |-> "wait_pmt",
   wait_pmt       |-> "check_pids",     check_pids     |-> "create_audio",
   create_audio   |-> "create_video",   create_video   |-> "start_thread"]

Waits == {"wait_lock", "wait_pat", "wait_sdt", "wait_pmt"}
Calls == DOMAIN AfterStep \ (Waits \cup {"check_pids"})
Frees == {"free_pat", "free_sdt"}

Ended == {"exit", "crashed"}
Alive == main_pc \notin Ended

Init ==
  /\ main_pc = "remote_init" /\ checking = FALSE /\ waiting = FALSE
  /\ deadline_ok \in BOOLEAN
  /\ failed = FALSE /\ error = FALSE /\ leaked = FALSE
  /\ rc_pc = "none" /\ key = "release" /\ rc_running = FALSE
  /\ callback = FALSE /\ event_buf = "none"
  /\ pr_counter = FirstProgram
  /\ tuner = "none" /\ player = FALSE /\ filter = "none" /\ demux = FALSE
  /\ section = [table |-> "none", pc |-> "idle"]
  /\ pat = "null" /\ sdt = "null" /\ parsed = {}
  /\ stream = "none"

GoTo(pc) == main_pc' = pc /\ UNCHANGED <<checking, waiting, failed, deadline_ok>>
Fail(pc) == main_pc' = pc /\ failed' = TRUE /\ UNCHANGED <<checking, waiting, deadline_ok>>
Crash ==
  /\ main_pc' = "crashed" /\ checking' = FALSE /\ waiting' = FALSE
  /\ UNCHANGED <<failed, deadline_ok>>
Outcomes == IF CallsMayFail THEN BOOLEAN ELSE {FALSE}   \* TRUE: an error

\* Demux_Free_Filter reports an error only when no filter is set.
Results(call) == IF call \in Frees THEN {filter = "none"} ELSE Outcomes

\* remote_init opens the device and starts the thread; main returns on an error.
remote_init ==
  /\ main_pc = "remote_init"
  /\ \/ /\ GoTo("register")
        /\ event_buf' = "live" /\ rc_running' = TRUE /\ rc_pc' = "read"
     \/ /\ CallsMayFail
        /\ Fail("exit")
        /\ UNCHANGED <<event_buf, rc_running, rc_pc>>
  /\ UNCHANGED <<error, leaked, key, callback, pr_counter, tuner, playerVars,
                 tableVars, stream>>

remote_callback_register ==
  /\ main_pc = "register"
  /\ callback' = TRUE
  /\ GoTo("load_config")
  /\ UNCHANGED <<error, leaked, rc_pc, key, rc_running, event_buf, pr_counter,
                 tuner, playerVars, tableVars, stream>>

\* "load program counter from config file"
LoadConfig ==
  /\ main_pc = "load_config"
  /\ pr_counter' = StartProgram
  /\ GoTo("tuner_init")
  /\ UNCHANGED <<error, leaked, rcVars, tuner, playerVars, tableVars, stream>>

\* A TDP call of stream_init.  The filter of the PMT is set with the table_id
\* of the current program's entry.
TdpCall ==
  /\ main_pc \in Calls /\ ~checking
  /\ \/ /\ main_pc = "filter_pmt" /\ pat = "null"
        /\ Crash
        /\ UNCHANGED <<error, tuner, playerVars>>
     \/ /\ ~(main_pc = "filter_pmt" /\ pat = "null")
        /\ \E r \in Results(main_pc) :
             /\ error' = r
             /\ tuner' = IF main_pc = "lock" /\ ~r THEN "checking" ELSE tuner
             /\ player' = (player \/ (main_pc = "player_init" /\ ~r))
             /\ demux' = (demux \/ (main_pc = "register_demux" /\ ~r))
             /\ filter' =
                  IF r THEN filter ELSE
                  CASE main_pc \in Frees -> "none"
                    [] main_pc = "filter_pat" -> "PAT"
                    [] main_pc = "filter_sdt" -> "SDT"
                    [] main_pc = "filter_pmt" ->
                         IF pat = "filled" THEN pr_counter ELSE "garbage"
                    [] OTHER -> filter
        /\ checking' = TRUE
        /\ UNCHANGED <<main_pc, waiting, failed, deadline_ok>>
  /\ UNCHANGED <<leaked, rcVars, pr_counter, tableVars, stream>>

\* Mutant of AssertResult: the result is not looked at.
AssertNothing ==
  /\ checking
  /\ checking' = FALSE /\ main_pc' = AfterStep[main_pc]
  /\ UNCHANGED <<failed, deadline_ok, waiting, error, leaked, rcVars, pr_counter, tuner,
                 playerVars, tableVars, stream>>

\* ASSERT_TDP_RESULT: on an error stream_init returns and main cleans up.
AssertResult ==
  /\ checking
  /\ checking' = FALSE
  /\ IF error THEN main_pc' = "str_deinit" /\ failed' = TRUE
              ELSE main_pc' = AfterStep[main_pc] /\ UNCHANGED failed
  /\ UNCHANGED <<waiting, deadline_ok, error, leaked, rcVars, pr_counter, tuner, playerVars,
                 tableVars, stream>>

\* Mutant of WaitForStatus: no wait at all.
SkipWait ==
  /\ main_pc \in Waits
  /\ GoTo(AfterStep[main_pc])
  /\ UNCHANGED <<error, leaked, rcVars, pr_counter, tuner, playerVars, tableVars,
                 stream>>

\* pthread_cond_wait without a predicate, and pthread_cond_timedwait, which fails at
\* once for an invalid deadline; that is taken for the notification.
WaitForStatus ==
  /\ main_pc \in Waits /\ ~waiting
  /\ \/ /\ main_pc = "wait_lock" => deadline_ok
        /\ waiting' = TRUE
        /\ UNCHANGED <<main_pc, checking, failed, deadline_ok>>
     \/ /\ main_pc = "wait_lock" /\ ~deadline_ok
        /\ GoTo(AfterStep[main_pc])
  /\ UNCHANGED <<error, leaked, rcVars, pr_counter, tuner, playerVars, tableVars,
                 stream>>

\* "Lock timeout exceeded!": the return leaves status_mutex locked.
LockTimeout ==
  /\ main_pc = "wait_lock" /\ waiting
  /\ waiting' = FALSE /\ leaked' = TRUE
  /\ main_pc' = "str_deinit" /\ failed' = TRUE
  /\ UNCHANGED <<checking, deadline_ok, error, rcVars, pr_counter, tuner, playerVars,
                 tableVars, stream>>

\* "if config file pids do not match pids received in pmt program exits"; an
\* entry that was not parsed may hold anything.
CheckPids ==
  /\ main_pc = "check_pids"
  /\ \/ /\ pr_counter \in parsed => pr_counter = StartProgram
        /\ GoTo(AfterStep[main_pc])
     \/ /\ ~(pr_counter \in parsed /\ pr_counter = StartProgram)
        /\ Fail("str_deinit")
  /\ UNCHANGED <<error, leaked, rcVars, pr_counter, tuner, playerVars, tableVars,
                 stream>>

\* The stream thread is created and the program number shown; stream_init has
\* no return statement, so at -O0 its caller finds the result of
\* ch_prog_callback, NO_ERROR.
StartThread ==
  /\ main_pc = "start_thread"
  /\ \/ stream' = "running" /\ GoTo("graphics_init")
     \/ CallsMayFail /\ Fail("str_deinit") /\ UNCHANGED stream
  /\ UNCHANGED <<error, leaked, rcVars, pr_counter, tuner, playerVars, tableVars>>

\* When a timer cannot be created graphics_deinit joins a thread that was never
\* created, because render_thread_running is initialised to 1.
graphics_init ==
  /\ main_pc = "graphics_init"
  /\ \/ GoTo("wait_exit")
     \/ CallsMayFail /\ Crash     \* timer_create failed
     \/ CallsMayFail /\ Fail("graph_deinit") \* pthread_create failed
  /\ UNCHANGED <<error, leaked, rcVars, pr_counter, tuner, playerVars, tableVars,
                 stream>>

WaitForExit ==
  /\ main_pc = "wait_exit" /\ ~waiting
  /\ waiting' = TRUE
  /\ UNCHANGED <<main_pc, checking, failed, deadline_ok, error, leaked, rcVars, pr_counter,
                 tuner, playerVars, tableVars, stream>>

graphics_deinit ==
  /\ main_pc = "graph_deinit"
  /\ GoTo("str_deinit")
  /\ UNCHANGED <<error, leaked, rcVars, pr_counter, tuner, playerVars, tableVars,
                 stream>>

\* Mutant of JoinStream: stream_deinit does not wait for the thread.
StopStreamOnly ==
  /\ main_pc = "str_deinit"
  /\ UNCHANGED stream
  /\ GoTo("free_filter")
  /\ UNCHANGED <<error, leaked, rcVars, pr_counter, tuner, playerVars, tableVars>>

\* stream_deinit stops and joins the stream thread if there is one; when that
\* thread has failed it returns an error and so does main.
JoinStream ==
  /\ main_pc = "str_deinit" /\ stream # "running"
  /\ stream' = IF stream = "none" THEN stream ELSE "joined"
  /\ IF stream = "failed" THEN Fail("exit") ELSE GoTo("free_filter")
  /\ UNCHANGED <<error, leaked, rcVars, pr_counter, tuner, playerVars, tableVars>>

\* The rest of stream_deinit: the streams, the filter, the source and the
\* player.  Without a player or a filter, when a call fails or when set_volume
\* overwrites its result, it returns an error and main returns at once.
CloseStream ==
  /\ main_pc = "free_filter"
  /\ \/ /\ player /\ filter # "none"
        /\ GoTo("free_tables")
        /\ filter' = "none" /\ player' = FALSE
     \/ /\ ~player \/ filter = "none" \/ CallsMayFail \/ "volume" \in OtherKeys
        /\ Fail("exit")
        /\ UNCHANGED <<filter, player>>
  /\ UNCHANGED <<error, leaked, rcVars, pr_counter, tuner, demux, tableVars, stream>>

FreeTables ==
  /\ main_pc = "free_tables"
  /\ pat' = "freed" /\ sdt' = "freed"
  /\ GoTo("unregister")
  /\ UNCHANGED <<error, leaked, rcVars, pr_counter, tuner, playerVars, section,
                 parsed, stream>>

remote_callback_unregister ==
  /\ main_pc = "unregister"
  /\ callback' = FALSE
  /\ GoTo("rc_deinit")
  /\ UNCHANGED <<error, leaked, rc_pc, key, rc_running, event_buf, pr_counter,
                 tuner, playerVars, tableVars, stream>>

\* remote_deinit resets the flag, joins the thread and frees the buffer.
StopRemote ==
  /\ main_pc = "rc_deinit"
  /\ rc_running' = FALSE
  /\ GoTo("rc_join")
  /\ UNCHANGED <<error, leaked, rc_pc, key, callback, event_buf, pr_counter,
                 tuner, playerVars, tableVars, stream>>

\* The thread has ended; after a failed read main returns without freeing.
JoinRemote ==
  /\ main_pc = "rc_join"
  /\ \/ rc_pc = "ended" /\ event_buf' = "freed" /\ GoTo("exit")
     \/ rc_pc = "failed" /\ Fail("exit") /\ UNCHANGED event_buf
  /\ UNCHANGED <<error, leaked, rc_pc, key, rc_running, callback, pr_counter,
                 tuner, playerVars, tableVars, stream>>

stream_init == LoadConfig \/ TdpCall \/ AssertResult \/ WaitForStatus
               \/ CheckPids \/ StartThread
stream_deinit == JoinStream \/ CloseStream \/ FreeTables
remote_deinit == StopRemote \/ JoinRemote

main == \/ remote_init \/ remote_callback_register \/ stream_init
        \/ graphics_init \/ WaitForExit \/ graphics_deinit \/ stream_deinit
        \/ remote_callback_unregister \/ remote_deinit

-----------------------------------------------------------------------------
(* The remote controller's thread. *)

RemoteAt(pc) == Alive /\ rc_pc = pc

\* read returns an event: a key press, or the release of a key.
ReadEvent(k) ==
  /\ RemoteAt("read")
  /\ key' = k /\ rc_pc' = "test"
  /\ UNCHANGED <<mainVars, error, leaked, rc_running, callback, event_buf,
                 pr_counter, tuner, playerVars, tableVars, stream>>

\* get_keys failed: the thread ends.
ReadFails ==
  /\ CallsMayFail /\ RemoteAt("read")
  /\ rc_pc' = "failed"
  /\ UNCHANGED <<mainVars, error, leaked, key, rc_running, callback, event_buf,
                 pr_counter, tuner, playerVars, tableVars, stream>>

\* "callback is used here if registered"
TestCallback ==
  /\ RemoteAt("test")
  /\ rc_pc' = IF callback THEN "call" ELSE "loop"
  /\ UNCHANGED <<mainVars, error, leaked, key, rc_running, callback, event_buf,
                 pr_counter, tuner, playerVars, tableVars, stream>>

\* The callback is read a second time for the call, and main.c's callback runs.
CallCallback ==
  /\ RemoteAt("call") /\ callback
  /\ rc_pc' = IF key = "release" THEN "loop" ELSE "handle"
  /\ UNCHANGED <<mainVars, error, leaked, key, rc_running, callback, event_buf,
                 pr_counter, tuner, playerVars, tableVars, stream>>

CallNothing ==
  /\ RemoteAt("call") /\ ~callback
  /\ Crash
  /\ UNCHANGED <<error, leaked, rcVars, pr_counter, tuner, playerVars, tableVars,
                 stream>>

\* Choosing the current program looks at its entry of PAT.pmts.  A stream thread
\* that failed holds the mutex for ever.
change_program ==
  /\ RemoteAt("handle") /\ key \in Programs /\ stream # "failed"
  /\ \/ /\ key # pr_counter
        /\ pr_counter' = key /\ rc_pc' = "loop"
        /\ UNCHANGED mainVars
     \/ /\ key = pr_counter /\ pat # "null"
        /\ rc_pc' = "loop"
        /\ UNCHANGED <<pr_counter, mainVars>>
     \/ /\ key = pr_counter /\ pat = "null"
        /\ Crash
        /\ UNCHANGED <<pr_counter, rc_pc>>
  /\ UNCHANGED <<error, leaked, key, rc_running, callback, event_buf, tuner,
                 playerVars, tableVars, stream>>

\* Player_Volume_Set fails as long as the player is not initialised; its result
\* is stored in the error variable stream_init uses.
set_volume ==
  /\ RemoteAt("handle") /\ key = "volume"
  /\ error' \in IF player THEN Outcomes ELSE {TRUE}
  /\ rc_pc' = "loop"
  /\ UNCHANGED <<mainVars, leaked, key, rc_running, callback, event_buf,
                 pr_counter, tuner, playerVars, tableVars, stream>>

\* Mutant of ExitKey: no signal.
IgnoreExit ==
  /\ RemoteAt("handle") /\ key = "exit"
  /\ rc_pc' = "loop"
  /\ UNCHANGED <<mainVars, error, leaked, key, rc_running, callback, event_buf,
                 pr_counter, tuner, playerVars, tableVars, stream>>

\* The EXIT key signals zapper_exit_condition; the signal is lost unless main
\* waits for it.
ExitKey ==
  /\ RemoteAt("handle") /\ key = "exit"
  /\ \/ /\ main_pc = "wait_exit" /\ waiting
        /\ main_pc' = "graph_deinit" /\ waiting' = FALSE
        /\ UNCHANGED <<checking, failed, deadline_ok>>
     \/ /\ ~(main_pc = "wait_exit" /\ waiting)
        /\ UNCHANGED mainVars
  /\ rc_pc' = "loop"
  /\ UNCHANGED <<error, leaked, key, rc_running, callback, event_buf, pr_counter,
                 tuner, playerVars, tableVars, stream>>

LoopRemote ==
  /\ RemoteAt("loop")
  /\ rc_pc' = IF rc_running THEN "read" ELSE "ended"
  /\ UNCHANGED <<mainVars, error, leaked, key, rc_running, callback, event_buf,
                 pr_counter, tuner, playerVars, tableVars, stream>>

remote_loop == \/ TestCallback \/ CallCallback \/ CallNothing \/ change_program
               \/ set_volume \/ ExitKey \/ LoopRemote

-----------------------------------------------------------------------------
(* The tuner check thread, the section thread and the stream thread. *)

\* Whoever waits on status_condition goes on, whatever happened.
SignalStatus ==
  IF waiting /\ main_pc \in Waits
  THEN waiting' = FALSE /\ main_pc' = AfterStep[main_pc]
       /\ UNCHANGED <<checking, failed, deadline_ok>>
  ELSE UNCHANGED mainVars

\* dvb_cxd2820_WaitTSLock returned; only a lock is signalled.
TunerChecked ==
  /\ Alive /\ tuner = "checking"
  /\ \/ tuner' = "locked" /\ ~leaked /\ SignalStatus
     \/ tuner' = "unlocked" /\ UNCHANGED mainVars
  /\ UNCHANGED <<error, leaked, rcVars, pr_counter, playerVars, tableVars, stream>>

Idle == [table |-> "none", pc |-> "idle"]

\* What parsing does first: a PAT gets new memory for its entries, a PMT's
\* entry is reset; then the rest.
BeginTable(t) ==
  /\ pat' = IF t = "PAT" THEN "allocated" ELSE pat
  /\ sdt' = sdt
  /\ parsed' = IF t = "PAT" THEN {} ELSE parsed \ {t}
EndTable(t) ==
  /\ pat' = IF t = "PAT" THEN "filled" ELSE pat
  /\ sdt' = IF t = "SDT" THEN "filled" ELSE sdt
  /\ parsed' = IF t \in Programs THEN parsed \cup {t} ELSE parsed

Filtered == filter \in Programs \cup {"PAT", "SDT"} /\ demux

SectionReceived ==
  /\ Alive /\ section = Idle /\ Filtered
  /\ section' = [table |-> filter, pc |-> "begin"]
  /\ UNCHANGED <<mainVars, error, leaked, rcVars, pr_counter, tuner, playerVars,
                 pat, sdt, parsed, stream>>

\* A section in flight when the tables are freed only touches freed memory.
filter_callback ==
  /\ Alive /\ section # Idle
  /\ \/ /\ section.pc = "begin" /\ section' = [section EXCEPT !.pc = "end"]
        /\ IF pat = "freed" THEN UNCHANGED <<pat, sdt, parsed>> ELSE BeginTable(section.table)
        /\ UNCHANGED mainVars
     \/ /\ section.pc = "end" /\ section' = [section EXCEPT !.pc = "signal"]
        /\ IF pat = "freed" THEN UNCHANGED <<pat, sdt, parsed>> ELSE EndTable(section.table)
        /\ UNCHANGED mainVars
     \/ /\ section.pc = "signal" /\ section' = Idle
        /\ ~leaked /\ SignalStatus
        /\ UNCHANGED <<pat, sdt, parsed>>
  /\ UNCHANGED <<error, leaked, rcVars, pr_counter, tuner, playerVars, stream>>

\* stream_deinit has reset stream_thread_running.
StreamThreadEnds ==
  /\ stream = "running" /\ main_pc = "str_deinit"
  /\ stream' = "ended"
  /\ UNCHANGED <<mainVars, error, leaked, rcVars, pr_counter, tuner, playerVars,
                 tableVars>>

\* A call of a zap failed (ASSERT_TDP_THREAD_RESULT).
StreamThreadFails ==
  /\ Alive /\ CallsMayFail /\ stream = "running"
  /\ stream' = "failed"
  /\ UNCHANGED <<mainVars, error, leaked, rcVars, pr_counter, tuner, playerVars,
                 tableVars>>

-----------------------------------------------------------------------------
Events == Keys \cup OtherKeys \cup {"release"}

Next ==
  \/ main \/ LockTimeout
  \/ remote_loop \/ ReadFails \/ \E k \in Events : ReadEvent(k)
  \/ TunerChecked
  \/ SectionReceived \/ filter_callback
  \/ StreamThreadEnds \/ StreamThreadFails

Spec == Init /\ [][Next]_vars

\* Threads that can run do run, the deadline of the lock passes, and the tables
\* of the stream are repeated for ever.  Nobody has to press or release a key.
Fairness ==
  /\ WF_vars(main) /\ WF_vars(LockTimeout)
  /\ WF_vars(remote_loop)
  /\ WF_vars(TunerChecked) /\ WF_vars(StreamThreadEnds)
  /\ WF_vars(SectionReceived) /\ WF_vars(filter_callback)

FairSpec == Spec /\ Fairness

-----------------------------------------------------------------------------
MainPcs == DOMAIN AfterStep \cup Ended \cup
  {"remote_init", "register", "load_config", "start_thread", "graphics_init",
   "wait_exit", "graph_deinit", "str_deinit", "free_filter", "free_tables",
   "unregister", "rc_deinit", "rc_join"}

MainTypeOK ==
  /\ main_pc \in MainPcs
  /\ checking \in BOOLEAN /\ (checking => main_pc \in Calls)
  /\ waiting \in BOOLEAN /\ (waiting => main_pc \in Waits \cup {"wait_exit"})
  /\ failed \in BOOLEAN /\ deadline_ok \in BOOLEAN

RemoteTypeOK ==
  /\ rc_pc \in {"none", "read", "test", "call", "handle", "loop", "ended", "failed"}
  /\ key \in Events /\ rc_running \in BOOLEAN /\ callback \in BOOLEAN
  /\ event_buf \in {"none", "live", "freed"}

StreamTypeOK ==
  /\ error \in BOOLEAN /\ leaked \in BOOLEAN /\ pr_counter \in Programs
  /\ tuner \in {"none", "checking", "locked", "unlocked"}
  /\ player \in BOOLEAN /\ demux \in BOOLEAN
  /\ filter \in Programs \cup {"none", "PAT", "SDT", "garbage"}
  /\ stream \in {"none", "running", "ended", "failed", "joined"}

TablesTypeOK ==
  /\ section \in [table : Programs \cup {"none", "PAT", "SDT"},
                  pc : {"idle", "begin", "end", "signal"}]
  /\ pat \in {"null", "allocated", "filled", "freed"}
  /\ sdt \in {"null", "filled", "freed"}
  /\ parsed \subseteq Programs

TypeOK == MainTypeOK /\ RemoteTypeOK /\ StreamTypeOK /\ TablesTypeOK

\* The buffer read fills is not freed while the remote controller's thread may
\* read into it, on whatever path main gets to remote_deinit
\* (remote_controller.c:93-119, main.c:137-143).
EventBufOutlivesReader ==
  /\ rc_pc \in {"read", "test", "call", "handle", "loop"} => event_buf = "live"
  /\ event_buf = "freed" => rc_pc \in {"ended", "failed"}

\* The stream thread finds the tables of a complete PAT as long as it runs: it is
\* started after PAT was parsed, however the signals of the sections fall, and
\* joined before PAT and SDT are freed (stream_controller.c:381-447, 465-527).  With
\* an invalid deadline the signal of a late lock may end the wait for PAT.
TablesServeStreamThread ==
  stream \in {"running", "ended", "failed"} /\ Alive =>
    sdt # "freed" /\ (deadline_ok => pat = "filled")

\* status_mutex is only left locked by a main thread on its way out
\* (stream_controller.c:367-373).
LeakedMutexMeansExit ==
  leaked => main_pc \in {"str_deinit", "free_filter"} \cup Ended /\ failed

\* EXIT ends the zapper: when it is handled while main waits for it, main gets
\* through the whole shutdown to the join of the remote controller's thread
\* (main.c:74-78, 116-142).
ExitHonoured ==
  (rc_pc = "handle" /\ key = "exit" /\ main_pc = "wait_exit" /\ waiting)
    ~> (main_pc \in {"rc_join"} \cup Ended)

\* No volume key is handled between a call and its test: set_volume would
\* overwrite the error the test is about (stream_controller.c:573-580).
ErrorsAreSeen == [](checking => ~(rc_pc = "handle" /\ key = "volume"))

\* Start-up does not hang: main gets to wait for EXIT or gives up, unless the
\* volume key hides a failed call from it or the deadline is invalid
\* (stream_controller.c:320-463).
StartUpEnds ==
  deadline_ok /\ ErrorsAreSeen =>
    ((main_pc = "load_config")
       ~> (main_pc \in {"wait_exit", "str_deinit"} \cup Ended))

\* "Lock to frequency  (wait for tuner status notification)": the player is not
\* initialised before the tuner was told to lock, nor before it is locked if there
\* is a wait at all: an invalid deadline ends it before it begins
\* (stream_controller.c:354-373).
PlayerNeedsLock ==
  player => tuner # "none" /\ (deadline_ok => tuner = "locked")

\* The same, if the deadline were always valid (stream_controller.c:356).
PlayerWaitsForLock == player => tuner = "locked"

\* "Lock timeout exceeded!" is only reported for a tuner that has not locked
\* (stream_controller.c:356, 370).
TimeoutMeansNoLock == [][LockTimeout => tuner # "locked"]_vars

\* "load program counter from config file": the program tuned to at start-up is
\* the configured one, whose PIDs are compared (stream_controller.c:343, 415).
StartsConfiguredProgram ==
  main_pc \in DOMAIN AfterStep => pr_counter = StartProgram

\* "callback is used here if registered" (remote_controller.c:31).
CallsRegisteredCallback == rc_pc = "call" => callback

\* "remote controller thread flag: 1-running 0-stopped": once it is reset the
\* thread stops (remote_controller.c:13).
ResetFlagStopsThread == (main_pc = "rc_join") ~> (rc_pc \in {"ended", "failed"})

\* SDT holds "information from service description table" when the program list
\* can be asked for (stream_controller.c:50, 393-402).
ListIsParsed == stream = "running" => sdt = "filled"

===============================================================================
