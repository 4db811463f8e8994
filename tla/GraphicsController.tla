-------------------------- MODULE GraphicsController --------------------------
(***************************************************************************)
(* The graphics controller after its timers and surfaces were created:     *)
(* src/graphics_controller.c from the end of graphics_init to the end of   *)
(* graphics_deinit.                                                        *)
(*                                                                         *)
(* Any thread of the zapper calls the print functions, which set flags in  *)
(* render_fnp under render_fnp_mutex.  The render thread draws one frame   *)
(* after another from those flags and starts a three-second timer for each *)
(* indicator whose key has just been pressed.  Each expiry of a timer runs *)
(* its routine on a thread of its own; the setting of a timer is shared by *)
(* the render thread and the routines, which take the mutex only for the   *)
(* flag.  What the elements look like is left out.                         *)
(***************************************************************************)
EXTENDS Naturals

CONSTANTS
  Calls,         \* the print calls that other threads make
  TimerThreads   \* bound: routines of one timer that run at the same time

Indicators == {"prog_num", "volume", "info_banner"}
Elements == Indicators \cup {"black", "radio", "prog_list"}

ASSUME CallsAssumption ==
  Calls \subseteq {"volume", "tv", "radio", "info_banner", "black", "list",
                   "remove_list"}

VARIABLES
  flags,       \* the elements whose flag in render_fnp is set: the print_*
               \* flags, wait ("black") and radio_program ("radio")
  keypress,    \* the indicators whose *_keypress flag is set
  render_pc,   \* where the render thread is
  restart,     \* how far it is with restarting an indicator's timer
  work,        \* what the working buffer holds
  displayed,   \* what the displayed buffer holds
  armed,       \* the indicators whose timer is running
  spec,        \* the indicators whose *_timer_spec holds a non-zero time
  routine,     \* where each routine of each indicator's timer is
  running,     \* render_thread_running
  surfaces     \* the DirectFB surfaces: "none", "ready" or "released"

timerVars == <<armed, spec, routine>>
vars == <<flags, keypress, render_pc, restart, work, displayed, timerVars,
          running, surfaces>>

\* Mutant of AfterDraw: the black screen is not drawn.
AfterDrawNoBlack == [prog_list |-> "prog_num", prog_num |-> "volume",
                     volume |-> "info_banner", info_banner |-> "flip",
                     black |-> "flip"]

\* The elements the render thread draws while it holds render_fnp_mutex, and
\* what follows each of them.
AfterDraw == [prog_list |-> "prog_num", prog_num |-> "volume",
              volume |-> "info_banner", info_banner |-> "black",
              black |-> "flip"]

\* Mutant of Locked: the mutex is released too early.
LockedForList == render_pc = "prog_list"

Locked == render_pc \in DOMAIN AfterDraw

\* Mutant of SetTime: the timer is only ever stopped.
StopTime(o) == armed' = armed \ {o}

\* timer_settime with the indicator's setting as it is: zero stops the timer.
SetTime(o) == armed' = IF o \in spec THEN armed \cup {o} ELSE armed \ {o}

\* Before graphics_init; render_thread_running is initialised to 1.
Init ==
  /\ flags = {} /\ keypress = {}
  /\ render_pc = "off" /\ restart = "no"
  /\ work = {} /\ displayed = {}
  /\ armed = {} /\ spec = {}
  /\ routine = [o \in Indicators |-> [t \in TimerThreads |-> "idle"]]
  /\ running = TRUE /\ surfaces = "none"

-----------------------------------------------------------------------------
(* The calls of the other threads. *)

\* Sets flags and resets others, and says whose keys have been pressed.
SetFlags(set, reset, pressed) ==
  /\ ~Locked
  /\ flags' = (flags \ reset) \cup set
  /\ keypress' = keypress \cup pressed
  /\ UNCHANGED <<render_pc, restart, work, displayed, timerVars, running, surfaces>>

print_volume == "volume" \in Calls /\ SetFlags({"volume"}, {}, {"volume"})

print_prog_num ==
  \/ "tv" \in Calls /\ SetFlags({"prog_num"}, {"black", "radio"}, {"prog_num"})
  \/ "radio" \in Calls /\ SetFlags({"prog_num", "radio"}, {"black"}, {"prog_num"})

print_info_banner ==
  /\ "info_banner" \in Calls
  /\ SetFlags({"info_banner", "prog_num"}, {}, {"info_banner", "prog_num"})

print_black_screen ==
  "black" \in Calls /\ SetFlags({"black"}, Indicators \cup {"prog_list"}, {})

print_prog_list == "list" \in Calls /\ SetFlags({"prog_list"}, {}, {})

remove_prog_list == "remove_list" \in Calls /\ SetFlags({}, {"prog_list"}, {})

PrintCall == \/ print_volume \/ print_prog_num \/ print_info_banner
             \/ print_black_screen \/ print_prog_list \/ remove_prog_list

-----------------------------------------------------------------------------
(* The render thread. *)

\* The while condition, and a new frame: the working buffer is cleared.
NewFrame ==
  /\ render_pc = "clear"
  /\ \/ running /\ render_pc' = "look" /\ work' = {}
     \/ ~running /\ render_pc' = "ended" /\ UNCHANGED work
  /\ UNCHANGED <<flags, keypress, restart, displayed, timerVars, running, surfaces>>

\* The radio flag is tested under the mutex, which is released again to draw
\* the picture.
LookForRadio ==
  /\ render_pc = "look"
  /\ render_pc' = IF "radio" \in flags THEN "radio" ELSE "prog_list"
  /\ UNCHANGED <<flags, keypress, restart, work, displayed, timerVars, running,
                 surfaces>>

DrawRadio ==
  /\ render_pc = "radio"
  /\ work' = work \cup {"radio"}
  /\ render_pc' = "prog_list"
  /\ UNCHANGED <<flags, keypress, restart, displayed, timerVars, running, surfaces>>

DrawBackground(e) ==
  /\ render_pc = e
  /\ work' = work \cup ({e} \cap flags)
  /\ render_pc' = AfterDraw[e]
  /\ UNCHANGED <<flags, keypress, restart, displayed, timerVars, running, surfaces>>

\* Mutant of DrawIndicator: the key press is forgotten, the timer not started.
DrawIndicatorOnly(o) ==
  /\ render_pc = o /\ restart = "no"
  /\ work' = work \cup ({o} \cap flags)
  /\ render_pc' = AfterDraw[o]
  /\ keypress' = keypress \ ({o} \cap flags)
  /\ UNCHANGED <<flags, restart, displayed, timerVars, running, surfaces>>

DrawIndicator(o) ==
  /\ render_pc = o /\ restart = "no"
  /\ work' = work \cup ({o} \cap flags)
  /\ \/ /\ o \in flags \cap keypress
        /\ restart' = "zero" /\ UNCHANGED render_pc
     \/ /\ o \notin flags \cap keypress
        /\ render_pc' = AfterDraw[o] /\ UNCHANGED restart
  /\ UNCHANGED <<flags, keypress, displayed, timerVars, running, surfaces>>

\* "start/restart a 3 second timer".  The program number's branch zeroes the
\* setting of the information banner's timer instead of its own.
RestartTimer(o) ==
  /\ render_pc = o
  /\ \/ /\ restart = "zero" /\ restart' = "halt"
        /\ spec' = spec \ {IF o = "prog_num" THEN "info_banner" ELSE o}
        /\ UNCHANGED <<armed, keypress, render_pc>>
     \/ /\ restart = "halt" /\ restart' = "store"
        /\ SetTime(o)
        /\ UNCHANGED <<spec, keypress, render_pc>>
     \/ /\ restart = "store" /\ restart' = "start"
        /\ spec' = spec \cup {o}
        /\ UNCHANGED <<armed, keypress, render_pc>>
     \/ /\ restart = "start" /\ restart' = "no"
        /\ SetTime(o)
        /\ keypress' = keypress \ {o}
        /\ render_pc' = AfterDraw[o]
        /\ UNCHANGED spec
  /\ UNCHANGED <<flags, work, displayed, routine, running, surfaces>>

Flip ==
  /\ render_pc = "flip"
  /\ displayed' = work
  /\ render_pc' = "clear"
  /\ UNCHANGED <<flags, keypress, restart, work, timerVars, running, surfaces>>

render_loop ==
  \/ NewFrame \/ LookForRadio \/ DrawRadio \/ Flip
  \/ \E e \in {"prog_list", "black"} : DrawBackground(e)
  \/ \E o \in Indicators : DrawIndicator(o) \/ RestartTimer(o)

-----------------------------------------------------------------------------
(* The timers and their routines volume_timer, info_timer, pr_num_timer. *)

TimerExpires(o, t) ==
  /\ o \in armed /\ routine[o][t] = "idle"
  /\ armed' = armed \ {o}
  /\ routine' = [routine EXCEPT ![o][t] = "zero"]
  /\ UNCHANGED <<flags, keypress, render_pc, restart, work, displayed, spec,
                 running, surfaces>>

TimerRoutine(o, t) ==
  /\ \/ /\ routine[o][t] = "zero"
        /\ spec' = spec \ {o}
        /\ routine' = [routine EXCEPT ![o][t] = "stop"]
        /\ UNCHANGED <<armed, flags>>
     \/ /\ routine[o][t] = "stop"
        /\ SetTime(o)
        /\ routine' = [routine EXCEPT ![o][t] = "reset"]
        /\ UNCHANGED <<spec, flags>>
     \/ /\ routine[o][t] = "reset" /\ ~Locked
        /\ flags' = flags \ {o}
        /\ routine' = [routine EXCEPT ![o][t] = "idle"]
        /\ UNCHANGED <<armed, spec>>
  /\ UNCHANGED <<keypress, render_pc, restart, work, displayed, running, surfaces>>

-----------------------------------------------------------------------------
(* The main thread: the end of graphics_init, and graphics_deinit. *)

graphics_init ==
  /\ surfaces = "none"
  /\ surfaces' = "ready" /\ running' = TRUE /\ render_pc' = "clear"
  /\ UNCHANGED <<flags, keypress, restart, work, displayed, timerVars>>

StopRendering ==
  /\ surfaces = "ready" /\ running
  /\ running' = FALSE
  /\ UNCHANGED <<flags, keypress, render_pc, restart, work, displayed, timerVars,
                 surfaces>>

\* pthread_join and the Release calls.  The timers are not deleted.
ReleaseSurfaces ==
  /\ surfaces = "ready" /\ ~running /\ render_pc = "ended"
  /\ surfaces' = "released"
  /\ UNCHANGED <<flags, keypress, render_pc, restart, work, displayed, timerVars,
                 running>>

graphics_deinit == StopRendering \/ ReleaseSurfaces

-----------------------------------------------------------------------------
Next ==
  \/ PrintCall
  \/ render_loop
  \/ \E o \in Indicators, t \in TimerThreads : TimerExpires(o, t) \/ TimerRoutine(o, t)
  \/ graphics_init \/ graphics_deinit

Spec == Init /\ [][Next]_vars

\* The render thread and the routines run, timers expire and main gets to the
\* end of graphics_init.  The render thread takes the mutex for every frame
\* and releases it to flip the buffers, so a routine needs it to be granted
\* when it is free again and again.  Nobody has to make a call.
Fairness ==
  /\ WF_vars(render_loop) /\ WF_vars(graphics_init)
  /\ \A o \in Indicators, t \in TimerThreads :
       WF_vars(TimerExpires(o, t)) /\ SF_vars(TimerRoutine(o, t))

FairSpec == Spec /\ Fairness

-----------------------------------------------------------------------------
TypeOK ==
  /\ flags \subseteq Elements /\ keypress \subseteq Indicators
  /\ render_pc \in {"off", "clear", "look", "radio", "flip", "ended"} \cup DOMAIN AfterDraw
  /\ restart \in {"no", "zero", "halt", "store", "start"}
  /\ work \subseteq Elements /\ displayed \subseteq Elements
  /\ armed \subseteq Indicators /\ spec \subseteq Indicators
  /\ routine \in [Indicators -> [TimerThreads -> {"idle", "zero", "stop", "reset"}]]
  /\ running \in BOOLEAN /\ surfaces \in {"none", "ready", "released"}

\* An indicator is never left on the screen: while its flag is set its key press
\* is still to be handled, its timer runs or one of its routines is under way,
\* although the render thread and the routines overwrite each other's timer
\* setting (graphics_controller.c:68-104, 205-229, 281-291).
IndicatorWillLift ==
  \A o \in Indicators \cap flags :
    o \in keypress \cup armed \/ \E t \in TimerThreads : routine[o][t] # "idle"

\* The surfaces exist as long as the render thread may draw on them or the
\* other buffer is put on the screen (graphics_controller.c:425-457).
SurfacesOutliveRendering ==
  surfaces # "ready" => render_pc \in {"off", "ended"}

\* The displayed frames are complete frames of what the callers asked for: the
\* critical section of a frame is never interleaved with a call or a routine
\* (graphics_controller.c:106-310, 459-536).
Promise == INSTANCE Screen WITH
  asked <- flags,
  radio_seen <- IF render_pc \in {"off", "clear", "look", "ended"}
                THEN "radio" \in displayed
                ELSE render_pc = "radio" \/ "radio" \in work,
  frame <- IF render_pc = "flip" THEN work ELSE displayed

CompleteFrames == Promise!Spec

\* What is asked for reaches the screen, unless it is taken back before
\* (graphics_controller.c:106-310).
ElementsReachScreen ==
  \A e \in Elements :
    (e \in flags) ~> (e \in displayed \/ e \notin flags \/ ~running)

\* An indicator nobody asks for any more disappears from the screen
\* (graphics_controller.c:68-104).
IndicatorsDisappear ==
  \A o \in Indicators :
    \/ []<><<PrintCall>>_vars
    \/ <>[](o \notin displayed)
    \/ <>(~running)

\* A key press restarts the indicator's timer (graphics_controller.c:205, 221,
\* 281: "start/restart a 3 second timer"), so only a program change takes the
\* indicator away before that key press has been drawn.
PressedIndicatorStays ==
  [][\A o \in Indicators \cap flags \cap keypress :
       o \in flags' \/ o \notin keypress' \/ print_black_screen]_vars

===============================================================================
