--------------------------- MODULE StreamController ---------------------------
(***************************************************************************)
(* The stream controller of the zapper after a successful stream_init:     *)
(* src/stream_controller.c, its use of the player and demux calls of       *)
(* src/tdp_api/tdp_api.c, the PMT parser of src/table_parser.c, and the    *)
(* part of the on-screen state of src/graphics_controller.c it drives.     *)
(*                                                                         *)
(* Four kinds of threads run concurrently:                                 *)
(*   - the stream thread (stream_loop), which serves the requests kept in  *)
(*     str_prm while it holds stream_params_mutex;                         *)
(*   - the remote controller's thread, which runs the handler of one key   *)
(*     at a time (change_program, next_program, ..., set_volume);          *)
(*   - the player's section thread, which runs filter_callback on each     *)
(*     PMT section the demux filter lets through;                          *)
(*   - the threads SIGEV_THREAD starts when the program-change timer       *)
(*     expires (pr_change_timer), which take no lock of this module.       *)
(* Programs are the indices of PAT.pmts.  A handler's critical section is  *)
(* one step; everything that another thread can observe half-done is       *)
(* several steps.                                                          *)
(***************************************************************************)
EXTENDS Integers

CONSTANTS
  NumPrograms,   \* PAT.pmt_count
  Broadcast,     \* Broadcast[p][k]: the PID of kind k in the PMT sections of p
  NoPid,         \* 65000, "the program has no stream of this kind"
  Garbage,       \* the values a PMT entry that was never written may hold
  None,          \* no stream, no filter, no banner
  StartProgram,  \* the program stream_init tuned to
  Keys,          \* the arguments change_program is called with
  Requests,      \* the other handlers the remote controller may call
  TimerThreads,  \* bound: timer routines that run at the same time
  CallsMayFail,  \* whether a player or demux call may return an error
  SlowSections   \* whether other threads can run during filter_callback

Programs == 0 .. NumPrograms - 1
Kinds == {"audio", "video"}
Flags == {"change", "next", "previous", "info", "list"}
NO_ERROR == 0
ERROR == -1

ASSUME ProgramsAssumption ==
  /\ NumPrograms \in Nat \ {0}
  /\ StartProgram \in Programs
  /\ Keys \subseteq Nat
ASSUME PidsAssumption ==
  /\ NoPid \in Nat
  /\ Broadcast \in [Programs -> [Kinds -> Nat]]
  /\ Garbage \subseteq Nat /\ Garbage # {}
  /\ None \notin Nat
ASSUME RequestsAssumption ==
  Requests \subseteq {"next", "previous", "info", "list", "volume"}
ASSUME RegimeAssumption == CallsMayFail \in BOOLEAN /\ SlowSections \in BOOLEAN

VARIABLES
  pr_counter,    \* the current program
  str_prm,       \* the five request flags
  stream_pc,     \* where the stream thread is; "unlocked": mutex not held
  checking,      \* a TDP call returned, its ASSERT_TDP_THREAD_RESULT is next
  error,         \* the file-scope result variable, shared by two threads
  returned,      \* what the stream thread's last call returned (history)
  status,        \* status.audio_on and status.video_on
  streams,       \* the PID of the stream hStreamA or hStreamV refers to
  orphans,       \* kinds with a live stream no handle refers to (history)
  filter,        \* the program whose PMT the demux filter lets through
  pmts,          \* PAT.pmts: the two PIDs of each entry
  section,       \* the section filter_callback is working on
  rc,            \* the key handler the remote controller's thread runs
  timer_armed,   \* the program-change timer is running
  timer_spec,    \* pr_change_timer_spec holds a non-zero time
  timer_pc,      \* where each timer routine is
  screen         \* render_fnp: black screen, radio picture, info banner

streamVars == <<stream_pc, checking, error, returned>>
playerVars == <<status, streams, orphans>>
timerVars == <<timer_armed, timer_spec, timer_pc>>
vars == <<pr_counter, str_prm, streamVars, playerVars, filter, pmts, section,
          rc, timerVars, screen>>

-----------------------------------------------------------------------------
(* Program counters of the threads. *)

RemovePc == [audio |-> "remove_audio", video |-> "remove_video"]
TestPc   == [audio |-> "test_audio", video |-> "test_video"]
CreatePc == [audio |-> "create_audio", video |-> "create_video"]

\* The statement that follows each checked call of the zap sequence.
AfterCall == [remove_audio |-> "remove_video", remove_video |-> "free_filter",
              free_filter  |-> "set_filter",   set_filter   |-> "wait",
              create_video |-> "test_audio",   create_audio |-> "present"]

ZapPcs == DOMAIN AfterCall \cup
            {"wait", "waiting", "test_video", "test_audio", "present",
             "store_spec", "set_timer"}
StreamPcs == ZapPcs \cup {"unlocked", "unlock", "dead", "black"} \cup
               {"change", "next", "previous", "info", "list"}

NoSection == [pc |-> "idle", prog |-> StartProgram, todo |-> {}]
IdleKey == [op |-> "idle", arg |-> 0]
KeyPresses == {[op |-> "change", arg |-> k] : k \in Keys} \cup
              {[op |-> r, arg |-> 0] : r \in Requests}

\* The next block of stream_loop whose flag is set, in the order of the loop.
FirstPending(f) ==
  IF f["change"] THEN "change" ELSE
  IF f["next"] THEN "next" ELSE
  IF f["previous"] THEN "previous" ELSE
  IF f["info"] THEN "info" ELSE
  IF f["list"] THEN "list" ELSE "unlock"

MutexFree == stream_pc = "unlocked"

\* What a read of PAT.pmts[pr_counter] may give; past the end of the array
\* it is whatever the heap holds.
ReadPid(k) == IF pr_counter \in Programs THEN {pmts[pr_counter][k]} ELSE Garbage

(* What the callbacks into the graphics controller do to render_fnp. *)
print_prog_num(radio) == screen' = [screen EXCEPT !.radio = radio, !.wait = FALSE]

\* Mutant of print_black_screen: the information banner is left on the screen.
print_black_screen_keeping_banner == screen' = [screen EXCEPT !.wait = TRUE]

print_black_screen == screen' = [screen EXCEPT !.wait = TRUE, !.info = None]
print_info_banner(p) == screen' = [screen EXCEPT !.info = p]

-----------------------------------------------------------------------------
\* The state stream_init leaves: the PMT of the start program is parsed and
\* its streams are created; the other entries of PAT.pmts were never written.
Init ==
  /\ pr_counter = StartProgram
  /\ str_prm = [r \in Flags |-> FALSE]
  /\ stream_pc = "unlocked" /\ checking = FALSE
  /\ error = NO_ERROR /\ returned = NO_ERROR
  /\ \E junk \in [Programs -> [Kinds -> Garbage]] :
        pmts = [junk EXCEPT ![StartProgram] = Broadcast[StartProgram]]
  /\ status = [k \in Kinds |-> Broadcast[StartProgram][k] # NoPid]
  /\ streams = [k \in Kinds |-> IF status[k] THEN Broadcast[StartProgram][k]
                                ELSE None]
  /\ orphans = {}
  /\ filter = StartProgram
  /\ section = NoSection
  /\ rc = IdleKey
  /\ timer_armed = FALSE /\ timer_spec = FALSE
  /\ timer_pc = [t \in TimerThreads |-> "idle"]
  /\ screen = [wait |-> FALSE, radio |-> ~status.video, info |-> None]

-----------------------------------------------------------------------------
(* The stream thread. *)

GoTo(pc) == stream_pc' = pc /\ UNCHANGED <<checking, error, returned>>

\* A TDP call returns r into the shared variable error.
Return(r) == /\ error' = r /\ returned' = r /\ checking' = TRUE
             /\ UNCHANGED stream_pc

Results == IF CallsMayFail THEN {NO_ERROR, ERROR} ELSE {NO_ERROR}

At(pc) == stream_pc = pc /\ ~checking

\* Mutant of Finish: the flag of the served request is not reset.
FinishKeepingFlag(r) == UNCHANGED str_prm /\ GoTo("unlock")

\* The end of a served block: its flag is reset and the next block is tested.
Finish(r) == /\ str_prm' = [str_prm EXCEPT ![r] = FALSE]
             /\ GoTo(FirstPending(str_prm'))

\* The zap being served: while the mutex is held the flags only go down.
Serving == FirstPending(str_prm)

LockStreamParams ==
  /\ At("unlocked")
  /\ GoTo(FirstPending(str_prm))
  /\ UNCHANGED <<pr_counter, str_prm, playerVars, filter, pmts, section, rc,
                 timerVars, screen>>

\* Mutant of UnlockStreamParams: the mutex is not released.
KeepStreamParams ==
  /\ At("unlock")
  /\ GoTo("unlock")
  /\ UNCHANGED <<pr_counter, str_prm, playerVars, filter, pmts, section, rc,
                 timerVars, screen>>

UnlockStreamParams ==
  /\ At("unlock")
  /\ GoTo("unlocked")
  /\ UNCHANGED <<pr_counter, str_prm, playerVars, filter, pmts, section, rc,
                 timerVars, screen>>

ServeChange ==
  /\ At("change")
  /\ GoTo("black")
  /\ UNCHANGED <<pr_counter, str_prm, playerVars, filter, pmts, section, rc,
                 timerVars, screen>>

ServeNext ==
  /\ At("next")
  /\ pr_counter' = IF pr_counter + 1 = NumPrograms THEN 0 ELSE pr_counter + 1
  /\ GoTo("black")
  /\ UNCHANGED <<str_prm, playerVars, filter, pmts, section, rc, timerVars,
                 screen>>

ServePrevious ==
  /\ At("previous")
  /\ pr_counter' = IF pr_counter = 0 THEN NumPrograms - 1 ELSE pr_counter - 1
  /\ GoTo("black")
  /\ UNCHANGED <<str_prm, playerVars, filter, pmts, section, rc, timerVars,
                 screen>>

BlackScreen ==
  /\ At("black")
  /\ print_black_screen
  /\ GoTo("remove_audio")
  /\ UNCHANGED <<pr_counter, str_prm, playerVars, filter, pmts, section, rc,
                 timerVars>>

\* Player_Stream_Remove fails when no stream of the kind exists (the handle
\* passed is then stale) and may fail in the player engine.
RemoveStream(k) ==
  /\ At(RemovePc[k])
  /\ \/ /\ ~status[k]
        /\ GoTo(AfterCall[RemovePc[k]])
        /\ UNCHANGED streams
     \/ /\ status[k]
        /\ \E r \in Results :
             LET removed == streams[k] # None /\ r = NO_ERROR IN
             /\ streams' = IF removed THEN [streams EXCEPT ![k] = None]
                                      ELSE streams
             /\ Return(IF removed THEN NO_ERROR ELSE ERROR)
  /\ UNCHANGED <<pr_counter, str_prm, status, orphans, filter, pmts, section,
                 rc, timerVars, screen>>

\* Demux_Free_Filter only fails when there is no filter (hFilter is 0 and
\* filter_handle is not); a failure of the player engine is only printed.
FreeFilter ==
  /\ At("free_filter")
  /\ filter' = None
  /\ Return(IF filter = None THEN ERROR ELSE NO_ERROR)
  /\ UNCHANGED <<pr_counter, str_prm, playerVars, pmts, section, rc, timerVars,
                 screen>>

\* Demux_Set_Filter on PAT.pmts[pr_counter].table_id.
SetFilter ==
  /\ At("set_filter")
  /\ \E r \in Results :
       /\ filter' = IF r = NO_ERROR THEN pr_counter ELSE filter
       /\ Return(r)
  /\ UNCHANGED <<pr_counter, str_prm, playerVars, pmts, section, rc, timerVars,
                 screen>>

\* Mutant of WaitForSection: the streams are created without waiting.
SkipWaitForSection ==
  /\ At("wait")
  /\ GoTo("test_video")
  /\ UNCHANGED <<pr_counter, str_prm, playerVars, filter, pmts, section, rc,
                 timerVars, screen>>

\* pthread_cond_wait on status_condition: there is no predicate.
WaitForSection ==
  /\ At("wait")
  /\ GoTo("waiting")
  /\ UNCHANGED <<pr_counter, str_prm, playerVars, filter, pmts, section, rc,
                 timerVars, screen>>

\* if (PAT.pmts[pr_counter].video_pid != 65000), and the same for audio.
TestStream(k) ==
  /\ At(TestPc[k])
  /\ \E pid \in ReadPid(k) :
       GoTo(IF pid # NoPid THEN CreatePc[k] ELSE AfterCall[CreatePc[k]])
  /\ UNCHANGED <<pr_counter, str_prm, playerVars, filter, pmts, section, rc,
                 timerVars, screen>>

\* Player_Stream_Create reads the PID again.  When MV_PE_VideoSetVisible fails
\* the video stream exists although the call returns an error.
CreateStream(k) ==
  /\ At(CreatePc[k])
  /\ \E pid \in ReadPid(k), r \in Results, made \in BOOLEAN :
       /\ r = NO_ERROR => made
       /\ made /\ r = ERROR => k = "video"
       /\ streams' = IF made THEN [streams EXCEPT ![k] = pid] ELSE streams
       /\ orphans' = IF made /\ streams[k] # None THEN orphans \cup {k}
                                                  ELSE orphans
       /\ Return(r)
  /\ UNCHANGED <<pr_counter, str_prm, status, filter, pmts, section, rc,
                 timerVars, screen>>

\* Mutant of AssertResult: status is not reset after a stream was removed.
AssertResultKeepingStatus ==
  /\ checking
  /\ checking' = FALSE
  /\ IF error = NO_ERROR
       THEN /\ stream_pc' = AfterCall[stream_pc]
            /\ status' = [k \in Kinds |-> status[k] \/ stream_pc = CreatePc[k]]
       ELSE stream_pc' = "dead" /\ UNCHANGED status
  /\ UNCHANGED <<pr_counter, str_prm, error, returned, streams, orphans, filter,
                 pmts, section, rc, timerVars, screen>>

\* ASSERT_TDP_THREAD_RESULT tests the shared variable.  On an error the thread
\* returns without releasing stream_params_mutex; otherwise the status of the
\* stream just removed or created is updated.
AssertResult ==
  /\ checking
  /\ checking' = FALSE
  /\ IF error = NO_ERROR
       THEN /\ stream_pc' = AfterCall[stream_pc]
            /\ status' = [k \in Kinds |->
                           \/ status[k] /\ stream_pc # RemovePc[k]
                           \/ stream_pc = CreatePc[k]]
       ELSE stream_pc' = "dead" /\ UNCHANGED status
  /\ UNCHANGED <<pr_counter, str_prm, error, returned, streams, orphans, filter,
                 pmts, section, rc, timerVars, screen>>

\* A radio program is shown at once; for a television program the timer will
\* lift the black screen.
Present ==
  /\ At("present")
  /\ \E pid \in ReadPid("video") :
       \/ /\ pid = NoPid
          /\ print_prog_num(TRUE)
          /\ Finish(Serving)
       \/ /\ pid # NoPid
          /\ GoTo("store_spec")
          /\ UNCHANGED <<screen, str_prm>>
  /\ UNCHANGED <<pr_counter, playerVars, filter, pmts, section, rc, timerVars>>

StoreTimerSpec ==
  /\ At("store_spec")
  /\ timer_spec' = TRUE
  /\ GoTo("set_timer")
  /\ UNCHANGED <<pr_counter, str_prm, playerVars, filter, pmts, section, rc,
                 timer_armed, timer_pc, screen>>

\* Mutant of SetTimer: the timer is not started.
SetTimerForgotten ==
  /\ At("set_timer")
  /\ Finish(Serving)
  /\ UNCHANGED <<pr_counter, playerVars, filter, pmts, section, rc, timerVars,
                 screen>>

\* timer_settime with the spec as it now is: all zeros would stop the timer.
SetTimer ==
  /\ At("set_timer")
  /\ timer_armed' = timer_spec
  /\ Finish(Serving)
  /\ UNCHANGED <<pr_counter, playerVars, filter, pmts, section, rc, timer_spec,
                 timer_pc, screen>>

ServeInfo ==
  /\ At("info")
  /\ print_info_banner(pr_counter)
  /\ Finish("info")
  /\ UNCHANGED <<pr_counter, playerVars, filter, pmts, section, rc, timerVars>>

ServeList ==
  /\ At("list")
  /\ Finish("list")
  /\ UNCHANGED <<pr_counter, playerVars, filter, pmts, section, rc, timerVars,
                 screen>>

stream_loop ==
  \/ LockStreamParams \/ UnlockStreamParams
  \/ ServeChange \/ ServeNext \/ ServePrevious \/ BlackScreen
  \/ \E k \in Kinds : RemoveStream(k) \/ TestStream(k) \/ CreateStream(k)
  \/ FreeFilter \/ SetFilter \/ WaitForSection \/ AssertResult
  \/ Present \/ StoreTimerSpec \/ SetTimer
  \/ ServeInfo \/ ServeList

-----------------------------------------------------------------------------
(* The section thread: filter_callback and parse_PMT. *)

\* pthread_cond_signal on status_condition; a signal nobody waits for is lost.
SignalStatus ==
  stream_pc' = IF stream_pc = "waiting" THEN "test_video" ELSE stream_pc

\* m_sectionReceivedCallback has read a section of the filtered program from
\* the buffer; nothing it does later looks at the filter again.
SectionReceived ==
  /\ SlowSections
  /\ section.pc = "idle" /\ filter \in Programs
  /\ section' = [pc |-> "reset_video", prog |-> filter, todo |-> {}]
  /\ UNCHANGED <<pr_counter, str_prm, streamVars, playerVars, filter, pmts, rc,
                 timerVars, screen>>

\* parse_PMT first resets both PIDs of the entry, one after the other.
ResetPids ==
  /\ \/ /\ section.pc = "reset_video"
        /\ pmts' = [pmts EXCEPT ![section.prog]["video"] = NoPid]
        /\ section' = [section EXCEPT !.pc = "reset_audio"]
     \/ /\ section.pc = "reset_audio"
        /\ pmts' = [pmts EXCEPT ![section.prog]["audio"] = NoPid]
        /\ section' = [section EXCEPT !.pc = "fill",
             !.todo = {k \in Kinds : Broadcast[section.prog][k] # NoPid}]
  /\ UNCHANGED <<pr_counter, str_prm, streamVars, playerVars, filter, rc,
                 timerVars, screen>>

\* Mutant of FillPid: the PIDs go to the entry of the current program.
FillPidOfCurrent(k) ==
  /\ section.pc = "fill" /\ k \in section.todo
  /\ pmts' = [pmts EXCEPT ![pr_counter][k] = Broadcast[section.prog][k]]
  /\ section' = [section EXCEPT !.todo = @ \ {k}]
  /\ UNCHANGED <<pr_counter, str_prm, streamVars, playerVars, filter, rc,
                 timerVars, screen>>

\* One entry of the elementary stream loop; the section lists them in any order.
FillPid(k) ==
  /\ section.pc = "fill" /\ k \in section.todo
  /\ pmts' = [pmts EXCEPT ![section.prog][k] = Broadcast[section.prog][k]]
  /\ section' = [section EXCEPT !.todo = @ \ {k}]
  /\ UNCHANGED <<pr_counter, str_prm, streamVars, playerVars, filter, rc,
                 timerVars, screen>>

SectionParsed ==
  /\ section.pc = "fill" /\ section.todo = {}
  /\ SignalStatus
  /\ section' = NoSection
  /\ UNCHANGED <<pr_counter, str_prm, checking, error, returned, playerVars,
                 filter, pmts, rc, timerVars, screen>>

\* The same handler when no other thread gets to run meanwhile.
SectionAtOnce ==
  /\ ~SlowSections
  /\ filter \in Programs
  /\ pmts' = [pmts EXCEPT ![filter] = Broadcast[filter]]
  /\ SignalStatus
  /\ UNCHANGED <<pr_counter, str_prm, checking, error, returned, playerVars,
                 filter, section, rc, timerVars, screen>>

filter_callback ==
  ResetPids \/ (\E k \in Kinds : FillPid(k)) \/ SectionParsed

-----------------------------------------------------------------------------
(* The program-change timer and its routine pr_change_timer. *)

\* Mutant of AfterTimerPc: the screen is lifted before the timer is stopped.
LiftFirst == [idle |-> "lift", lift |-> "clear_spec",
              clear_spec |-> "set_time", set_time |-> "idle"]

\* The statements of the routine in their order.
AfterTimerPc == [idle |-> "clear_spec", clear_spec |-> "set_time",
                 set_time |-> "lift", lift |-> "idle"]

\* The one-shot timer expires and a thread is started for the routine.
TimerExpires(t) ==
  /\ timer_armed /\ timer_pc[t] = "idle"
  /\ timer_armed' = FALSE
  /\ timer_pc' = [timer_pc EXCEPT ![t] = AfterTimerPc["idle"]]
  /\ UNCHANGED <<pr_counter, str_prm, streamVars, playerVars, filter, pmts,
                 section, rc, timer_spec, screen>>

\* The routine shares pr_change_timer_spec with the stream thread, so its
\* timer_settime may start the timer again; it always reports a television
\* program.
pr_change_timer(t) ==
  /\ timer_pc[t] # "idle"
  /\ timer_pc' = [timer_pc EXCEPT ![t] = AfterTimerPc[@]]
  /\ \/ /\ timer_pc[t] = "clear_spec"
        /\ timer_spec' = FALSE
        /\ UNCHANGED <<timer_armed, screen>>
     \/ /\ timer_pc[t] = "set_time"
        /\ timer_armed' = timer_spec
        /\ UNCHANGED <<timer_spec, screen>>
     \/ /\ timer_pc[t] = "lift"
        /\ print_prog_num(FALSE)
        /\ UNCHANGED <<timer_armed, timer_spec>>
  /\ UNCHANGED <<pr_counter, str_prm, streamVars, playerVars, filter, pmts,
                 section, rc>>

-----------------------------------------------------------------------------
(* The remote controller's thread. *)

KeyPressed(key) ==
  /\ rc = IdleKey
  /\ rc' = key
  /\ UNCHANGED <<pr_counter, str_prm, streamVars, playerVars, filter, pmts,
                 section, timerVars, screen>>

\* A handler that only sets a flag under stream_params_mutex.
SetFlag(r) ==
  /\ rc.op = r /\ MutexFree
  /\ str_prm' = [str_prm EXCEPT ![r] = TRUE]
  /\ rc' = IdleKey
  /\ UNCHANGED <<pr_counter, streamVars, playerVars, filter, pmts, section,
                 timerVars, screen>>

next_program     == SetFlag("next")
previous_program == SetFlag("previous")
get_prog_info    == SetFlag("info")
get_prog_list    == SetFlag("list")

\* Choosing the current program only shows its number again, as a radio or a
\* television program by what its PMT entry holds at this moment.
change_program ==
  /\ rc.op = "change" /\ MutexFree
  /\ \/ /\ rc.arg # pr_counter
        /\ str_prm' = [str_prm EXCEPT !["change"] = TRUE]
        /\ pr_counter' = rc.arg
        /\ UNCHANGED screen
     \/ /\ rc.arg = pr_counter
        /\ \E pid \in ReadPid("video") : print_prog_num(pid = NoPid)
        /\ UNCHANGED <<str_prm, pr_counter>>
  /\ rc' = IdleKey
  /\ UNCHANGED <<streamVars, playerVars, filter, pmts, section, timerVars>>

\* set_volume takes no lock and stores its call's result in error; its own
\* test of error only decides a return value the key handler ignores.
set_volume ==
  /\ rc.op = "volume"
  /\ error' \in Results
  /\ rc' = IdleKey
  /\ UNCHANGED <<pr_counter, str_prm, stream_pc, checking, returned, playerVars,
                 filter, pmts, section, timerVars, screen>>

Handler == \/ next_program \/ previous_program \/ get_prog_info
           \/ get_prog_list \/ change_program \/ set_volume

-----------------------------------------------------------------------------
Next ==
  \/ stream_loop
  \/ SectionReceived \/ filter_callback \/ SectionAtOnce
  \/ \E t \in TimerThreads : TimerExpires(t) \/ pr_change_timer(t)
  \/ \E key \in KeyPresses : KeyPressed(key)
  \/ Handler

Spec == Init /\ [][Next]_vars

\* Threads that can run do run, the timer expires, and the PMT of a filtered
\* program is repeated for ever.  The stream thread takes and releases its
\* mutex in a loop, so the remote controller's thread needs the mutex to be
\* granted to it when it is free again and again.  Nobody has to press a key.
Fairness ==
  /\ WF_vars(stream_loop)
  /\ WF_vars(SectionReceived) /\ WF_vars(filter_callback)
  /\ WF_vars(SectionAtOnce)
  /\ \A t \in TimerThreads : WF_vars(TimerExpires(t)) /\ WF_vars(pr_change_timer(t))
  /\ SF_vars(Handler)

FairSpec == Spec /\ Fairness

-----------------------------------------------------------------------------
(* Type invariant. *)

TypeOK ==
  /\ pr_counter \in Nat
  /\ str_prm \in [Flags -> BOOLEAN]
  /\ stream_pc \in StreamPcs /\ checking \in BOOLEAN
  /\ checking => stream_pc \in DOMAIN AfterCall
  /\ error \in {NO_ERROR, ERROR} /\ returned \in {NO_ERROR, ERROR}
  /\ status \in [Kinds -> BOOLEAN]
  /\ streams \in [Kinds -> Nat \cup {None}]
  /\ orphans \subseteq Kinds
  /\ filter \in Nat \cup {None}
  /\ pmts \in [Programs -> [Kinds -> Nat]]
  /\ section \in [pc : {"idle", "reset_video", "reset_audio", "fill"},
                  prog : Programs, todo : SUBSET Kinds]
  /\ rc \in KeyPresses \cup {IdleKey}
  /\ timer_armed \in BOOLEAN /\ timer_spec \in BOOLEAN
  /\ timer_pc \in [TimerThreads -> DOMAIN AfterTimerPc]
  /\ screen \in [wait : BOOLEAN, radio : BOOLEAN, info : Nat \cup {None}]

-----------------------------------------------------------------------------
(* Safety. *)

\* The status flags, which decide what the next zap removes, agree with the
\* streams that exist in the player engine whenever no call is in flight, and
\* no stream is created over a live one: as long as the result of a call is not
\* overwritten by the other thread (stream_controller.c:115-126, 139-154).
HandlesMatchStreams ==
  /\ orphans = {}
  /\ stream_pc # "dead" =>
       \A k \in Kinds :
         \/ status[k] <=> streams[k] # None
         \/ checking /\ stream_pc \in {RemovePc[k], CreatePc[k]}

\* No stream of another program is left playing: outside the interval from the
\* change of pr_counter to the removal of the old stream, a live stream has a
\* PID of the current program or one read from an unwritten or half-written
\* entry, whatever sections of other programs are still being parsed
\* (stream_controller.c:111-154, 92-93).
OwnStreamsOnly ==
  \A k \in Kinds :
    \/ streams[k] \in Garbage \cup {None, NoPid}
    \/ pr_counter \in Programs /\ streams[k] = Broadcast[pr_counter][k]
    \/ stream_pc \in {"black", "remove_audio", RemovePc[k], "dead"}
    \/ str_prm["change"] /\ stream_pc \in {"unlocked", "change"}

\* A black screen is never left behind: outside a zap something that will lift
\* it is still under way, although the stream thread and the timer routine
\* overwrite each other's timer setting (stream_controller.c:52-59, 163-165).
BlackScreenWillLift ==
  screen.wait => \/ stream_pc \in ZapPcs \cup {"dead"}
                 \/ timer_armed
                 \/ \E t \in TimerThreads : timer_pc[t] # "idle"

\* The information banner of a program is gone as soon as the zap away from it
\* blackens the screen (stream_controller.c:113, 298-305; graphics_controller.c:503-514).
BannerOfCurrentProgram ==
  \/ screen.info \in {None, pr_counter}
  \/ stream_pc = "black"
  \/ str_prm["change"] /\ stream_pc \in {"unlocked", "change"}

Settled == stream_pc \in {"unlocked", "unlock", "info", "list"} /\ ~str_prm["change"]

\* Between zaps exactly the streams the current program broadcasts are playing
\* (stream_controller.c:139 and 148: "create player stream for video if video
\* exists for current program").
PlaysCurrentProgram ==
  Settled => streams = [k \in Kinds |-> IF Broadcast[pr_counter][k] = NoPid
                                        THEN None ELSE Broadcast[pr_counter][k]]

\* The screen is black during the whole zap (graphics_controller.c:294:
\* "blacken screen while changing program").
BlackWhileZapping == stream_pc \in ZapPcs => screen.wait

\* Once no timer is pending the radio picture is shown exactly for a program
\* without video (graphics_controller.c:475: "0-tv program 1-radio program").
RadioShownForRadio ==
  Settled /\ ~timer_armed /\ (\A t \in TimerThreads : timer_pc[t] = "idle") =>
    screen.radio = (Broadcast[pr_counter]["video"] = NoPid)

\* pr_counter always designates a program of the PAT (stream_controller.c:41:
\* "current program").
CurrentProgramExists == pr_counter \in Programs

(* Liveness. *)

\* Every request that was recorded is served (stream_controller.c:111-313).
RequestsServed ==
  \A r \in Flags : str_prm[r] ~> ~str_prm[r]

\* The remote controller's thread gets through every handler, also while zaps
\* hold the mutex over a wait for a section (stream_controller.c:529-598).
KeysHandled == (rc # IdleKey) ~> (rc = IdleKey)

\* When no more keys are pressed the screen ends up visible, for every
\* interleaving of the stream thread with late timer routines
\* (stream_controller.c:52-59, 156-166).
BlackScreenLifts == <>[](rc = IdleKey) => <>[](~screen.wait)

\* Pressing P- sets the flag (stream_controller.c:563: "set flag for switching to
\* previous program").
PreviousFlagSet == (rc.op = "previous") ~> str_prm["previous"]

=============================================================================
