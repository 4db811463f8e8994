----------------------- MODULE GraphicsAndParserProofs -----------------------
(***************************************************************************)
(* Proofs about GraphicsController for any calls and any number of timer   *)
(* routines: indicators do not stay on the screen, the surfaces outlive    *)
(* the render thread, and the frames are those the specification Screen    *)
(* allows.                                                                 *)
(*                                                                         *)
(* And about TableParser, whose tables the graphics controller shows: for  *)
(* any multiplex that the parsers handle, with any number of streams and   *)
(* of descriptors, the tables are what is broadcast.                       *)
(***************************************************************************)
EXTENDS GraphicsController, TableParser, FiniteSetTheorems, TLAPS

-----------------------------------------------------------------------------
(* Type correctness. *)

\* Every program counter that follows a drawing step exists.
LEMMA AfterDrawType ==
  /\ DOMAIN AfterDraw = {"prog_list", "prog_num", "volume", "info_banner", "black"}
  /\ AfterDraw["prog_list"] = "prog_num" /\ AfterDraw["prog_num"] = "volume"
  /\ AfterDraw["volume"] = "info_banner" /\ AfterDraw["info_banner"] = "black"
  /\ AfterDraw["black"] = "flip"
BY DEF AfterDraw

\* A print call keeps the state well formed.
LEMMA PrintType ==
  ASSUME TypeOK, PrintCall
  PROVE  TypeOK'
<1>1. ASSUME NEW set \in SUBSET Elements, NEW reset, NEW pressed \in SUBSET Indicators,
             SetFlags(set, reset, pressed)
      PROVE  TypeOK'
  <2>1. flags' \subseteq Elements /\ keypress' \subseteq Indicators
    BY <1>1 DEF TypeOK, SetFlags
  <2>2. UNCHANGED <<render_pc, restart, work, displayed, armed, spec, routine,
                    running, surfaces>>
    BY <1>1 DEF SetFlags, timerVars
  <2> QED
    BY <2>1, <2>2 DEF TypeOK
<1>2. /\ {"volume"} \in SUBSET Elements /\ {"prog_num"} \in SUBSET Elements
      /\ {"prog_num", "radio"} \in SUBSET Elements
      /\ {"info_banner", "prog_num"} \in SUBSET Elements
      /\ {"black"} \in SUBSET Elements /\ {"prog_list"} \in SUBSET Elements
      /\ {} \in SUBSET Elements /\ {} \in SUBSET Indicators
      /\ {"volume"} \in SUBSET Indicators /\ {"prog_num"} \in SUBSET Indicators
      /\ {"info_banner", "prog_num"} \in SUBSET Indicators
  BY DEF Elements, Indicators
<1> QED
  BY <1>1, <1>2 DEF PrintCall, print_volume, print_prog_num, print_info_banner,
     print_black_screen, print_prog_list, remove_prog_list

\* A step of the render thread keeps the state well formed.
LEMMA RenderType ==
  ASSUME TypeOK, render_loop
  PROVE  TypeOK'
<1> USE AfterDrawType DEF TypeOK, timerVars
<1>1. CASE NewFrame
  BY <1>1 DEF NewFrame
<1>2. CASE LookForRadio
  BY <1>2 DEF LookForRadio
<1>3. CASE DrawRadio
  BY <1>3 DEF DrawRadio, Elements
<1>4. CASE Flip
  BY <1>4 DEF Flip
<1>5. ASSUME NEW e \in {"prog_list", "black"}, DrawBackground(e)
      PROVE  TypeOK'
  BY <1>5 DEF DrawBackground, Elements
<1>6. ASSUME NEW o \in Indicators, DrawIndicator(o)
      PROVE  TypeOK'
  <2>1. work' \subseteq Elements
    BY <1>6 DEF DrawIndicator, Elements
  <2> QED
    BY <1>6, <2>1 DEF DrawIndicator, Indicators
<1>7. ASSUME NEW o \in Indicators, RestartTimer(o)
      PROVE  TypeOK'
  <2>1. armed' \subseteq Indicators
    BY <1>7 DEF RestartTimer, SetTime
  <2>2. spec' \subseteq Indicators /\ keypress' \subseteq Indicators
    BY <1>7 DEF RestartTimer
  <2>3. render_pc' \in {"off", "clear", "look", "radio", "flip", "ended"} \cup DOMAIN AfterDraw
    BY <1>7 DEF RestartTimer, Indicators
  <2> QED
    BY <1>7, <2>1, <2>2, <2>3 DEF RestartTimer
<1> QED
  BY <1>1, <1>2, <1>3, <1>4, <1>5, <1>6, <1>7 DEF render_loop

\* A step of a timer or of its routine keeps the state well formed.
LEMMA TimerType ==
  ASSUME TypeOK, NEW o \in Indicators, NEW t \in TimerThreads,
         TimerExpires(o, t) \/ TimerRoutine(o, t)
  PROVE  TypeOK'
<1>1. armed' \subseteq Indicators
  BY DEF TypeOK, TimerExpires, TimerRoutine, SetTime
<1>2. spec' \subseteq Indicators /\ flags' \subseteq Elements
  BY DEF TypeOK, TimerExpires, TimerRoutine
<1>3. routine' \in [Indicators -> [TimerThreads -> {"idle", "zero", "stop", "reset"}]]
  <2>1. ASSUME NEW pc \in {"idle", "zero", "stop", "reset"}
        PROVE  [routine EXCEPT ![o][t] = pc]
                 \in [Indicators -> [TimerThreads -> {"idle", "zero", "stop", "reset"}]]
    BY DEF TypeOK
  <2> QED
    BY <2>1 DEF TimerExpires, TimerRoutine
<1>4. UNCHANGED <<keypress, render_pc, restart, work, displayed, running, surfaces>>
  BY DEF TimerExpires, TimerRoutine
<1> QED
  BY <1>1, <1>2, <1>3, <1>4 DEF TypeOK

\* The main thread changes nothing but what it starts, stops and releases.
LEMMA MainType ==
  ASSUME TypeOK, graphics_init \/ StopRendering \/ ReleaseSurfaces
  PROVE  TypeOK'
<1>1. UNCHANGED <<flags, keypress, restart, work, displayed, armed, spec, routine>>
  BY DEF graphics_init, StopRendering, ReleaseSurfaces, timerVars
<1>2. /\ render_pc' = render_pc \/ render_pc' = "clear"
      /\ running' \in {running, TRUE, FALSE}
      /\ surfaces' \in {surfaces, "ready", "released"}
  BY DEF graphics_init, StopRendering, ReleaseSurfaces
<1> QED BY <1>1, <1>2 DEF TypeOK

\* The state of the graphics controller is always well formed.
THEOREM TypeCorrect == Spec => []TypeOK
<1>1. TypeOK /\ UNCHANGED vars => TypeOK'
  BY DEF TypeOK, vars, timerVars
<1>2. TypeOK /\ (graphics_init \/ graphics_deinit) => TypeOK'
  BY MainType DEF graphics_deinit
<1>3. ASSUME TypeOK, NEW o \in Indicators, NEW t \in TimerThreads,
             TimerExpires(o, t) \/ TimerRoutine(o, t)
      PROVE  TypeOK'
  BY <1>3, TimerType
<1>4. TypeOK /\ [Next]_vars => TypeOK'
  BY <1>1, <1>2, <1>3, PrintType, RenderType DEF Next
<1>5. Init => TypeOK
  BY DEF Init, TypeOK, AfterDraw
<1> QED BY <1>4, <1>5, PTL DEF Spec

-----------------------------------------------------------------------------
(* The surfaces. *)

\* Whoever asks for a drawing or takes it away leaves the render thread and the
\* surfaces alone.
LEMMA CallersLeaveSurfaces ==
  ASSUME \/ PrintCall
         \/ \E o \in Indicators, t \in TimerThreads : TimerExpires(o, t) \/ TimerRoutine(o, t)
  PROVE  UNCHANGED <<render_pc, surfaces>>
<1>1. PrintCall => UNCHANGED <<render_pc, surfaces>>
  BY DEF PrintCall, print_volume, print_prog_num, print_info_banner,
     print_black_screen, print_prog_list, remove_prog_list, SetFlags
<1> QED BY <1>1 DEF TimerExpires, TimerRoutine

\* A render thread that takes a step is drawing, and leaves the surfaces alone.
LEMMA DrawingLeavesSurfaces ==
  ASSUME render_loop
  PROVE  render_pc \notin {"off", "ended"} /\ surfaces' = surfaces
BY DEF render_loop, NewFrame, LookForRadio, DrawRadio, Flip, DrawBackground,
   DrawIndicator, RestartTimer, Indicators

\* The render thread never draws on a surface that was released or not yet
\* created (graphics_controller.c:425-457).
THEOREM SurfacesLive == Spec => []SurfacesOutliveRendering
<1> USE DEF SurfacesOutliveRendering
<1>1. graphics_init => SurfacesOutliveRendering'
  BY DEF graphics_init
<1>2. ReleaseSurfaces => SurfacesOutliveRendering'
  BY DEF ReleaseSurfaces
<1>3. SurfacesOutliveRendering /\ render_loop => SurfacesOutliveRendering'
  BY DrawingLeavesSurfaces
<1>4. StopRendering \/ UNCHANGED vars => UNCHANGED <<render_pc, surfaces>>
  BY DEF StopRendering, vars
<1>5. SurfacesOutliveRendering /\ [Next]_vars => SurfacesOutliveRendering'
  BY <1>1, <1>2, <1>3, <1>4, CallersLeaveSurfaces DEF Next, graphics_deinit
<1>6. Init => SurfacesOutliveRendering
  BY DEF Init
<1> QED BY <1>5, <1>6, PTL DEF Spec

-----------------------------------------------------------------------------
(* Indicators do not stay on the screen. *)

\* While a timer is restarted its indicator's key press is remembered, and when
\* the setting just stored is gone the routine that zeroed it is still running.
RestartInv ==
  /\ restart # "no" => render_pc \in Indicators \cap keypress
  /\ restart = "start" =>
       \/ render_pc \in spec
       \/ \E t \in TimerThreads : routine[render_pc][t] \in {"stop", "reset"}

LiftInv == TypeOK /\ SurfacesOutliveRendering /\ RestartInv /\ IndicatorWillLift

\* A print call keeps the invariant: what it sets is marked as pressed.
LEMMA PrintLifts ==
  ASSUME LiftInv, PrintCall
  PROVE  RestartInv' /\ IndicatorWillLift'
<1>1. PICK set, reset, pressed : /\ SetFlags(set, reset, pressed)
                                 /\ set \cap Indicators \subseteq pressed
  BY DEF PrintCall, print_volume, print_prog_num, print_info_banner,
     print_black_screen, print_prog_list, remove_prog_list, Indicators
<1>2. restart = "no"
  BY <1>1, AfterDrawType DEF LiftInv, RestartInv, SetFlags, Locked, Indicators
<1>3. RestartInv'
  BY <1>1, <1>2 DEF RestartInv, SetFlags
<1>4. IndicatorWillLift'
  <2> SUFFICES ASSUME NEW o \in Indicators, o \in flags'
               PROVE  \/ o \in keypress' \cup armed'
                      \/ \E t \in TimerThreads : routine'[o][t] # "idle"
    BY DEF IndicatorWillLift
  <2>1. CASE o \in set
    BY <1>1, <2>1 DEF SetFlags
  <2>2. CASE o \notin set
    BY <1>1, <2>2 DEF SetFlags, LiftInv, IndicatorWillLift, timerVars
  <2> QED
    BY <2>1, <2>2
<1> QED
  BY <1>3, <1>4

\* A step of a timer or its routine keeps the invariant: the routine that stops
\* a timer or zeroes its setting is itself the one that will lift the indicator.
LEMMA TimerLifts ==
  ASSUME LiftInv, NEW o \in Indicators, NEW t \in TimerThreads,
         TimerExpires(o, t) \/ TimerRoutine(o, t)
  PROVE  RestartInv' /\ IndicatorWillLift'
<1>1. routine \in [Indicators -> [TimerThreads -> {"idle", "zero", "stop", "reset"}]]
  BY DEF LiftInv, TypeOK
<1>2. UNCHANGED <<keypress, render_pc, restart>>
  BY DEF TimerExpires, TimerRoutine
<1>3. ASSUME NEW p \in Indicators, NEW u \in TimerThreads, p # o \/ u # t
      PROVE  routine'[p][u] = routine[p][u]
  BY <1>1, <1>3 DEF TimerExpires, TimerRoutine
<1>4. CASE TimerExpires(o, t)
  <2>1. routine'[o][t] = "zero" /\ routine[o][t] = "idle"
    BY <1>1, <1>4 DEF TimerExpires
  <2>2. RestartInv'
    BY <1>2, <1>3, <1>4, <2>1 DEF LiftInv, RestartInv, TimerExpires
  <2>3. IndicatorWillLift'
    BY <1>2, <1>3, <1>4, <2>1 DEF LiftInv, IndicatorWillLift, TimerExpires
  <2> QED
    BY <2>2, <2>3
<1>5. CASE TimerRoutine(o, t) /\ routine[o][t] = "zero"
  <2>1. routine'[o][t] = "stop" /\ spec' = spec \ {o} /\ UNCHANGED <<armed, flags>>
    BY <1>1, <1>5 DEF TimerRoutine
  <2>2. RestartInv'
    BY <1>2, <1>3, <2>1 DEF LiftInv, RestartInv
  <2>3. IndicatorWillLift'
    BY <1>2, <1>3, <2>1 DEF LiftInv, IndicatorWillLift
  <2> QED
    BY <2>2, <2>3
<1>6. CASE TimerRoutine(o, t) /\ routine[o][t] = "stop"
  <2>1. routine'[o][t] = "reset" /\ SetTime(o) /\ UNCHANGED <<spec, flags>>
    BY <1>1, <1>6 DEF TimerRoutine
  <2>2. RestartInv'
    BY <1>2, <1>3, <2>1 DEF LiftInv, RestartInv
  <2>3. IndicatorWillLift'
    BY <1>2, <1>3, <2>1 DEF LiftInv, IndicatorWillLift, SetTime
  <2> QED
    BY <2>2, <2>3
<1>7. CASE TimerRoutine(o, t) /\ routine[o][t] = "reset"
  <2>1. ~Locked /\ flags' = flags \ {o} /\ UNCHANGED <<armed, spec>>
    BY <1>7 DEF TimerRoutine
  <2>2. restart = "no"
    BY <2>1, AfterDrawType DEF LiftInv, RestartInv, Locked, Indicators
  <2>3. RestartInv'
    BY <1>2, <2>2 DEF RestartInv
  <2>4. IndicatorWillLift'
    BY <1>2, <1>3, <2>1 DEF LiftInv, IndicatorWillLift
  <2> QED
    BY <2>3, <2>4
<1> QED
  BY <1>4, <1>5, <1>6, <1>7 DEF TimerRoutine

\* A step of the render thread keeps the invariant: it forgets a key press only
\* when it has started the timer or a routine has just stopped it.
LEMMA RenderLifts ==
  ASSUME LiftInv, render_loop
  PROVE  RestartInv' /\ IndicatorWillLift'
<1>1. UNCHANGED <<flags, routine>>
  BY DEF render_loop, NewFrame, LookForRadio, DrawRadio, Flip, DrawBackground,
     DrawIndicator, RestartTimer, timerVars
<1>2. ASSUME UNCHANGED <<keypress, restart, armed, spec>>, restart = "no"
      PROVE  RestartInv' /\ IndicatorWillLift'
  BY <1>1, <1>2 DEF LiftInv, RestartInv, IndicatorWillLift
<1>3. restart # "no" => render_pc \in Indicators
  BY DEF LiftInv, RestartInv
<1>4. CASE NewFrame \/ LookForRadio \/ DrawRadio \/ Flip
  BY <1>2, <1>3, <1>4 DEF NewFrame, LookForRadio, DrawRadio, Flip, timerVars, Indicators
<1>5. ASSUME NEW e \in {"prog_list", "black"}, DrawBackground(e)
      PROVE  RestartInv' /\ IndicatorWillLift'
  BY <1>2, <1>3, <1>5 DEF DrawBackground, timerVars, Indicators
<1>6. ASSUME NEW o \in Indicators, DrawIndicator(o)
      PROVE  RestartInv' /\ IndicatorWillLift'
  BY <1>1, <1>6 DEF DrawIndicator, timerVars, LiftInv, RestartInv, IndicatorWillLift
<1>7. ASSUME NEW o \in Indicators, RestartTimer(o)
      PROVE  RestartInv' /\ IndicatorWillLift'
  <2>1. render_pc = o /\ restart # "no" /\ o \in keypress
    BY <1>7 DEF RestartTimer, LiftInv, RestartInv
  <2>2. CASE restart = "start"
    <3>1. restart' = "no" /\ SetTime(o) /\ keypress' = keypress \ {o}
      BY <1>7, <2>2 DEF RestartTimer
    <3>2. o \in armed' \/ \E t \in TimerThreads : routine'[o][t] # "idle"
      BY <1>1, <2>1, <2>2, <3>1 DEF LiftInv, RestartInv, SetTime
    <3>3. \A p \in Indicators : p # o => (p \in armed' <=> p \in armed)
      BY <3>1 DEF SetTime
    <3>4. IndicatorWillLift'
      BY <1>1, <3>1, <3>2, <3>3 DEF LiftInv, IndicatorWillLift
    <3> QED
      BY <3>1, <3>4 DEF RestartInv
  <2>3. CASE restart # "start"
    <3>1. UNCHANGED <<keypress, render_pc>>
      BY <1>7, <2>1, <2>3 DEF RestartTimer
    <3>2. restart' = "start" => o \in spec'
      BY <1>7, <2>1, <2>3 DEF RestartTimer
    <3>3. \A p \in Indicators : p # o => (p \in armed' <=> p \in armed)
      BY <1>7 DEF RestartTimer, SetTime
    <3>4. RestartInv'
      BY <2>1, <3>1, <3>2, <1>7 DEF RestartInv
    <3>5. IndicatorWillLift'
      BY <1>1, <2>1, <3>1, <3>3 DEF LiftInv, IndicatorWillLift
    <3> QED
      BY <3>4, <3>5
  <2> QED
    BY <2>2, <2>3
<1> QED
  BY <1>4, <1>5, <1>6, <1>7 DEF render_loop

\* An indicator on the screen always has something under way that will take it
\* away (graphics_controller.c:68-104, 205-229, 281-291).
THEOREM IndicatorsLift == Spec => []IndicatorWillLift
<1>1. Init => RestartInv /\ IndicatorWillLift
  BY DEF Init, RestartInv, IndicatorWillLift
<1>2. LiftInv /\ [Next]_vars => RestartInv' /\ IndicatorWillLift'
  <2> SUFFICES ASSUME LiftInv, [Next]_vars
               PROVE  RestartInv' /\ IndicatorWillLift'
    OBVIOUS
  <2>1. CASE PrintCall
    BY <2>1, PrintLifts
  <2>2. CASE render_loop
    BY <2>2, RenderLifts
  <2>3. ASSUME NEW o \in Indicators, NEW t \in TimerThreads,
               TimerExpires(o, t) \/ TimerRoutine(o, t)
        PROVE  RestartInv' /\ IndicatorWillLift'
    BY <2>3, TimerLifts
  <2>4. ASSUME graphics_init \/ graphics_deinit \/ UNCHANGED vars, restart = "no"
        PROVE  RestartInv' /\ IndicatorWillLift'
    BY <2>4 DEF LiftInv, RestartInv, IndicatorWillLift, graphics_init,
       graphics_deinit, StopRendering, ReleaseSurfaces, vars, timerVars
  <2>5. ASSUME graphics_deinit \/ UNCHANGED vars
        PROVE  RestartInv' /\ IndicatorWillLift'
    BY <2>5 DEF LiftInv, RestartInv, IndicatorWillLift, graphics_deinit,
       StopRendering, ReleaseSurfaces, vars, timerVars
  <2>6. ASSUME graphics_init
        PROVE  restart = "no"
    BY <2>6 DEF LiftInv, RestartInv, SurfacesOutliveRendering, graphics_init, Indicators
  <2> QED
    BY <2>1, <2>2, <2>3, <2>4, <2>5, <2>6 DEF Next
<1> QED
  BY <1>1, <1>2, TypeCorrect, SurfacesLive, PTL DEF Spec, LiftInv

-----------------------------------------------------------------------------
(* The frames are those Screen allows. *)

\* What the render thread has drawn when it comes to an element.
DrawnBefore ==
  [prog_list |-> {}, prog_num |-> {"prog_list"},
   volume |-> {"prog_list", "prog_num"},
   info_banner |-> {"prog_list", "prog_num", "volume"},
   black |-> {"prog_list", "prog_num", "volume", "info_banner"}]

\* While it holds the mutex the working buffer holds the elements asked for,
\* up to the one it is at, and possibly the radio picture.
FrameInv ==
  /\ render_pc \in {"look", "radio"} => work = {}
  /\ restart # "no" => render_pc \in Indicators
  /\ Locked =>
       work \ {"radio"} =
         flags \cap (DrawnBefore[render_pc] \cup
                      (IF restart # "no" THEN {render_pc} ELSE {}))

ScreenInv == TypeOK /\ SurfacesOutliveRendering /\ FrameInv

\* The state of Screen that a state of the graphics controller stands for.
screenRadio == IF render_pc \in {"off", "clear", "look", "ended"}
               THEN "radio" \in displayed
               ELSE render_pc = "radio" \/ "radio" \in work
screenFrame == IF render_pc = "flip" THEN work ELSE displayed
screenVars == <<flags, screenRadio, screenFrame, displayed>>

\* What is drawn before an element, and that it is none of it.
LEMMA DrawnBeforeValues ==
  /\ DrawnBefore["prog_list"] = {} /\ DrawnBefore["prog_num"] = {"prog_list"}
  /\ DrawnBefore["volume"] = {"prog_list", "prog_num"}
  /\ DrawnBefore["info_banner"] = {"prog_list", "prog_num", "volume"}
  /\ DrawnBefore["black"] = {"prog_list", "prog_num", "volume", "info_banner"}
BY DEF DrawnBefore

\* A step of the render thread keeps FrameInv.
LEMMA RenderFrame ==
  ASSUME ScreenInv, render_loop
  PROVE  FrameInv'
<1> USE AfterDrawType, DrawnBeforeValues DEF Locked
<1>0. FrameInv /\ TypeOK
  BY DEF ScreenInv
<1>1. CASE NewFrame
  BY <1>0, <1>1 DEF NewFrame, FrameInv, Indicators
<1>2. CASE LookForRadio
  BY <1>0, <1>2 DEF LookForRadio, FrameInv, Indicators
<1>3. CASE DrawRadio
  BY <1>0, <1>3 DEF DrawRadio, FrameInv, Indicators
<1>4. CASE Flip
  BY <1>0, <1>4 DEF Flip, FrameInv, Indicators
<1>5. ASSUME NEW e \in {"prog_list", "black"}, DrawBackground(e)
      PROVE  FrameInv'
  <2>1. restart = "no" /\ restart' = "no" /\ flags' = flags
    BY <1>0, <1>5 DEF DrawBackground, FrameInv, Indicators
  <2>2. CASE e = "prog_list"
    BY <1>0, <1>5, <2>1, <2>2 DEF DrawBackground, FrameInv
  <2>3. CASE e = "black"
    BY <1>5, <2>1, <2>3 DEF DrawBackground, FrameInv
  <2> QED
    BY <2>2, <2>3
<1>6. ASSUME NEW o \in Indicators, DrawIndicator(o)
      PROVE  FrameInv'
  <2>1. /\ render_pc = o /\ restart = "no" /\ flags' = flags
        /\ work' = work \cup ({o} \cap flags)
        /\ o \in {"prog_num", "volume", "info_banner"}
    BY <1>6 DEF DrawIndicator, Indicators
  <2>2. work \ {"radio"} = flags \cap DrawnBefore[o]
    BY <1>0, <2>1 DEF FrameInv
  <2>3. work' \ {"radio"} = flags \cap (DrawnBefore[o] \cup {o})
    BY <2>1, <2>2
  <2>4. DrawnBefore[o] \cup {o} = DrawnBefore[AfterDraw[o]]
    BY <2>1
  <2> QED
    BY <1>6, <2>1, <2>3, <2>4 DEF DrawIndicator, FrameInv, Indicators
<1>7. ASSUME NEW o \in Indicators, RestartTimer(o)
      PROVE  FrameInv'
  <2>1. /\ render_pc = o /\ restart # "no" /\ flags' = flags /\ work' = work
        /\ o \in {"prog_num", "volume", "info_banner"}
    BY <1>7 DEF RestartTimer, Indicators
  <2>2. work \ {"radio"} = flags \cap (DrawnBefore[o] \cup {o})
    BY <1>0, <2>1 DEF FrameInv
  <2>3. DrawnBefore[o] \cup {o} = DrawnBefore[AfterDraw[o]]
    BY <2>1
  <2>4. \/ restart' # "no" /\ render_pc' = o
        \/ restart' = "no" /\ render_pc' = AfterDraw[o]
    BY <1>7, <2>1 DEF RestartTimer
  <2> QED
    BY <2>1, <2>2, <2>3, <2>4 DEF FrameInv, Indicators
<1> QED
  BY <1>1, <1>2, <1>3, <1>4, <1>5, <1>6, <1>7 DEF render_loop

\* A step of another thread keeps FrameInv: it sets or resets a flag of what is
\* drawn only while the mutex is free.
LEMMA OthersFrame ==
  ASSUME ScreenInv,
         UNCHANGED <<render_pc, restart, work>>,
         Locked => flags' = flags
  PROVE  FrameInv'
BY DEF ScreenInv, FrameInv, Locked

\* The other threads keep FrameInv.
LEMMA CallersFrame ==
  ASSUME ScreenInv,
         \/ PrintCall
         \/ \E o \in Indicators, t \in TimerThreads : TimerExpires(o, t) \/ TimerRoutine(o, t)
         \/ graphics_deinit
  PROVE  FrameInv'
<1>1. CASE PrintCall
  BY <1>1, OthersFrame DEF PrintCall, print_volume, print_prog_num,
     print_info_banner, print_black_screen, print_prog_list,
     remove_prog_list, SetFlags
<1>2. ASSUME NEW o \in Indicators, NEW t \in TimerThreads,
             TimerExpires(o, t) \/ TimerRoutine(o, t)
      PROVE  FrameInv'
  BY <1>2, OthersFrame DEF TimerExpires, TimerRoutine
<1>3. CASE graphics_deinit
  BY <1>3, OthersFrame DEF graphics_deinit, StopRendering, ReleaseSurfaces
<1> QED BY <1>1, <1>2, <1>3

\* The invariant of the refinement.
THEOREM FrameContents == Spec => []ScreenInv
<1>1. Init => FrameInv
  BY AfterDrawType DEF Init, FrameInv, Locked
<1>2. ScreenInv /\ graphics_init => FrameInv'
  BY AfterDrawType DEF ScreenInv, FrameInv, SurfacesOutliveRendering,
     graphics_init, Locked, Indicators
<1>3. ScreenInv /\ UNCHANGED vars => FrameInv'
  BY OthersFrame DEF vars
<1>4. ScreenInv /\ [Next]_vars => FrameInv'
  BY <1>2, <1>3, CallersFrame, RenderFrame DEF Next
<1> QED BY <1>1, <1>4, TypeCorrect, SurfacesLive, PTL DEF Spec, ScreenInv

\* A print call is the call of the same name in Screen.
LEMMA PrintRefines ==
  ASSUME ScreenInv, PrintCall
  PROVE  Promise!Next
<1>1. ASSUME NEW set, NEW reset, NEW pressed, SetFlags(set, reset, pressed)
      PROVE  Promise!Ask((flags \ reset) \cup set)
  BY <1>1 DEF SetFlags, Promise!Ask
<1>2. flags \subseteq Elements
  BY DEF ScreenInv, TypeOK
<1>3. CASE print_volume
  BY <1>1, <1>3 DEF print_volume, Promise!Next, Promise!ShowVolume
<1>4. CASE print_prog_num
  <2>1. CASE SetFlags({"prog_num"}, {"black", "radio"}, {"prog_num"})
    BY <1>1, <2>1 DEF Promise!Next, Promise!ShowProgram
  <2>2. CASE SetFlags({"prog_num", "radio"}, {"black"}, {"prog_num"})
    BY <1>1, <2>2 DEF Promise!Next, Promise!ShowProgram
  <2> QED
    BY <1>4, <2>1, <2>2 DEF print_prog_num
<1>5. CASE print_info_banner
  BY <1>1, <1>5 DEF print_info_banner, Promise!Next, Promise!ShowBanner
<1>6. CASE print_black_screen
  <2>1. (flags \ (Indicators \cup {"prog_list"})) \cup {"black"}
          = (flags \cap {"radio"}) \cup {"black"}
    BY <1>2 DEF Elements, Indicators
  <2> QED
    BY <1>1, <1>6, <2>1 DEF print_black_screen, Promise!Next, Promise!Blacken
<1>7. CASE print_prog_list
  BY <1>1, <1>7 DEF print_prog_list, Promise!Next, Promise!ShowList
<1>8. CASE remove_prog_list
  BY <1>1, <1>8 DEF remove_prog_list, Promise!Next, Promise!RemoveList
<1> QED
  BY <1>3, <1>4, <1>5, <1>6, <1>7, <1>8 DEF PrintCall

\* A step of the render thread composes or flips a frame, looks at the radio
\* flag, or is invisible in Screen.
LEMMA RenderRefines ==
  ASSUME ScreenInv, render_loop
  PROVE  Promise!Next \/ UNCHANGED screenVars
<1> USE AfterDrawType DEF screenVars, screenRadio, screenFrame
<1>0. TypeOK /\ FrameInv
  BY DEF ScreenInv
<1>1. CASE NewFrame
  BY <1>1 DEF NewFrame
<1>2. CASE LookForRadio
  <2>1. Promise!LookForRadio
    BY <1>0, <1>2 DEF LookForRadio, Promise!LookForRadio, FrameInv
  <2> QED
    BY <2>1 DEF Promise!Next
<1>3. CASE DrawRadio
  BY <1>3 DEF DrawRadio
<1>4. CASE Flip
  <2>1. Promise!Flip
    BY <1>4 DEF Flip, Promise!Flip
  <2> QED
    BY <2>1 DEF Promise!Next
<1>5. CASE DrawBackground("prog_list")
  BY <1>5 DEF DrawBackground
<1>6. CASE DrawBackground("black")
  <2>1. /\ render_pc = "black" /\ render_pc' = "flip"
        /\ work' = work \cup ({"black"} \cap flags)
        /\ flags' = flags /\ displayed' = displayed
    BY <1>6 DEF DrawBackground
  <2>2. work \ {"radio"} = flags \cap {"prog_list", "prog_num", "volume", "info_banner"}
    BY <1>0, <2>1, DrawnBeforeValues DEF FrameInv, Locked, Indicators
  <2>3. flags \subseteq Elements
    BY <1>0 DEF TypeOK
  <2>4. work' \ {"radio"} = flags \ {"radio"}
    BY <2>1, <2>2, <2>3 DEF Elements, Indicators
  <2>5. "radio" \in work' <=> "radio" \in work
    BY <2>1
  <2>6. work' = (flags \ {"radio"}) \cup (IF "radio" \in work THEN {"radio"} ELSE {})
    BY <2>4, <2>5
  <2>7. Promise!Compose
    BY <2>1, <2>5, <2>6 DEF Promise!Compose
  <2> QED
    BY <2>7 DEF Promise!Next
<1>7. ASSUME NEW o \in Indicators, DrawIndicator(o) \/ RestartTimer(o)
      PROVE  UNCHANGED screenVars
  <2>1. /\ render_pc \in Indicators
        /\ render_pc' \in Indicators \cup {"black"}
        /\ "radio" \in work' <=> "radio" \in work
        /\ UNCHANGED <<flags, displayed>>
    BY <1>7 DEF DrawIndicator, RestartTimer, Indicators
  <2> QED
    BY <2>1 DEF Indicators
<1> QED
  BY <1>1, <1>2, <1>3, <1>4, <1>5, <1>6, <1>7 DEF render_loop

\* The displayed frames are complete frames of what the callers asked for
\* (graphics_controller.c:106-310, 459-536).
THEOREM ImplementsScreen == Spec => CompleteFrames
<1>1. Init => Promise!Init
  BY DEF Init, Promise!Init
<1>2. ScreenInv /\ [Next]_vars => [Promise!Next]_screenVars
  <2> SUFFICES ASSUME ScreenInv, [Next]_vars
               PROVE  Promise!Next \/ UNCHANGED screenVars
    OBVIOUS
  <2>1. CASE PrintCall
    BY <2>1, PrintRefines
  <2>2. CASE render_loop
    BY <2>2, RenderRefines
  <2>3. ASSUME NEW o \in Indicators, NEW t \in TimerThreads,
               TimerExpires(o, t) \/ TimerRoutine(o, t)
        PROVE  Promise!Next \/ UNCHANGED screenVars
    <3>1. UNCHANGED <<render_pc, work, displayed>>
      BY <2>3 DEF TimerExpires, TimerRoutine
    <3>2. CASE flags' = flags
      BY <3>1, <3>2 DEF screenVars, screenRadio, screenFrame
    <3>3. CASE flags' = flags \ {o}
      <4>1. Promise!Expire(o)
        BY <3>1, <3>3 DEF Promise!Expire, Promise!Ask
      <4> QED
        BY <4>1 DEF Promise!Next, Promise!Indicators, Indicators
    <3> QED
      BY <2>3, <3>2, <3>3 DEF TimerExpires, TimerRoutine
  <2>4. CASE graphics_init
    BY <2>4 DEF ScreenInv, SurfacesOutliveRendering, graphics_init,
       screenVars, screenRadio, screenFrame
  <2>5. CASE graphics_deinit \/ UNCHANGED vars
    BY <2>5 DEF graphics_deinit, StopRendering, ReleaseSurfaces, vars,
       screenVars, screenRadio, screenFrame
  <2> QED
    BY <2>1, <2>2, <2>3, <2>4, <2>5 DEF Next
<1> QED
  BY <1>1, <1>2, FrameContents, PTL DEF Spec, CompleteFrames, Promise!Spec,
     screenVars, screenRadio, screenFrame

-----------------------------------------------------------------------------
(* The parsers of the tables.  FlattenSeq is a recursive function, so what *)
(* a section holds follows from a least number of parts for which it would *)
(* not hold.                                                               *)

\* A set of numbers that is not empty has a least one.
LEMMA NatMin ==
  ASSUME NEW S, S \subseteq Nat, S # {}
  PROVE  \E m \in S : \A k \in S : m <= k
<1>1. PICK m \in S : \A k \in S : ~(<<k, m>> \in OpToRel(<, Nat))
  BY NatLessThanWellFounded, WFMin
<1>2. \A k \in S : ~(k < m)
  BY <1>1 DEF OpToRel
<1> QED BY <1>2

\* Min of the community modules is that one.
LEMMA MinIs ==
  ASSUME NEW S, S \subseteq Nat, S # {}
  PROVE  Min(S) \in S /\ \A k \in S : Min(S) <= k
<1>1. \E m \in S : \A k \in S : m <= k
  BY NatMin
<1> QED BY <1>1 DEF Min

-----------------------------------------------------------------------------
(* Where the parts of a flattened sequence begin.                          *)

\* What a concatenation holds, and where.
LEMMA CatAt ==
  ASSUME NEW S, NEW a \in Seq(S), NEW b \in Seq(S)
  PROVE  /\ a \o b \in Seq(S) /\ Len(a \o b) = Len(a) + Len(b)
         /\ Len(a) \in Nat /\ Len(b) \in Nat
         /\ \A i \in 1..Len(a) : (a \o b)[i] = a[i]
         /\ \A i \in 1..Len(b) : (a \o b)[Len(a) + i] = b[i]
  OBVIOUS

\* Nothing behind a sequence leaves it as it is.
LEMMA NothingBehind ==
  ASSUME NEW S, NEW a \in Seq(S), NEW b \in Seq(S), Len(b) = 0 PROVE a \o b = a
<1>1. a \o b \in Seq(S) /\ Len(a \o b) = Len(a) /\ \A i \in 1..Len(a) : (a \o b)[i] = a[i]
  BY CatAt
<1> DEFINE c == a \o b
<1> HIDE DEF c
<1>2. c \in Seq(S) /\ Len(c) = Len(a) /\ \A i \in 1..Len(a) : c[i] = a[i]
  BY <1>1 DEF c
<1>3. c = a
  BY ONLY <1>2, a \in Seq(S)
<1> QED BY <1>3 DEF c

\* f is the function that FlattenSeq is read from.
Flattens(seqs, f) ==
  f = [i \in 1..Len(seqs) |-> IF i = 1 THEN seqs[i] ELSE f[i - 1] \o seqs[i]]

\* st says where each part begins behind, and the last one where all end.
Begins(seqs, n, st) ==
  /\ st \in [1..(n + 1) -> Nat] /\ st[1] = 0
  /\ \A k \in 1..n : st[k + 1] = st[k] + Len(seqs[k]) /\ st[k + 1] <= st[n + 1]

\* s is made of the parts, each where st says.
Consists(seqs, n, st, s) ==
  /\ Len(s) = st[n + 1]
  /\ \A k \in 1..n : \A i \in 1..Len(seqs[k]) : s[st[k] + i] = seqs[k][i]

\* There is one such function: where two first differ, they do not.
LEMMA FlattenIs ==
  ASSUME NEW seqs, Len(seqs) \in Nat \ {0}, NEW f, Flattens(seqs, f)
  PROVE  FlattenSeq(seqs) = f[Len(seqs)]
<1> DEFINE n == Len(seqs)
<1>1. \A g : Flattens(seqs, g) => g = f
  <2> SUFFICES ASSUME NEW g, Flattens(seqs, g), g # f PROVE FALSE
    OBVIOUS
  <2>1. f = [i \in 1..n |-> f[i]] /\ g = [i \in 1..n |-> g[i]]
    BY DEF Flattens
  <2>2. \A i \in 1..n : f[i] = (IF i = 1 THEN seqs[i] ELSE f[i - 1] \o seqs[i])
    BY DEF Flattens
  <2>3. \A i \in 1..n : g[i] = (IF i = 1 THEN seqs[i] ELSE g[i - 1] \o seqs[i])
    BY DEF Flattens
  <2> DEFINE D == {i \in 1..n : f[i] # g[i]}
  <2>4. D # {} /\ D \subseteq Nat
    BY <2>1
  <2>5. PICK m \in D : \A k \in D : m <= k
    BY <2>4, NatMin
  <2>6. CASE m = 1
    BY <2>2, <2>3, <2>5, <2>6
  <2>7. CASE m # 1
    <3>1. m - 1 \in 1..n /\ m - 1 \notin D
      BY <2>5, <2>7
    <3> QED BY <2>2, <2>3, <2>5, <2>7, <3>1
  <2> QED BY <2>6, <2>7
<1>2. (CHOOSE g : Flattens(seqs, g)) = f
  BY <1>1
<1>3. (CHOOSE g : g = [i \in 1..Len(seqs) |-> IF i = 1 THEN seqs[i] ELSE g[i - 1] \o seqs[i]]) = f
  BY <1>2 DEF Flattens
<1> QED BY <1>3 DEF FlattenSeq

\* The parts up to n, flattened.
FlatUpTo(S, seqs, n) ==
  \E st, f :
    /\ Begins(seqs, n, st)
    /\ f \in [1..n -> Seq(S)]
    /\ \A i \in 1..n : f[i] = (IF i = 1 THEN seqs[i] ELSE f[i - 1] \o seqs[i])
    /\ n > 0 => Consists(seqs, n, st, f[n])

\* One part more.
LEMMA FlatGrows ==
  ASSUME NEW S, NEW seqs \in Seq(Seq(S)), NEW n \in 1..Len(seqs), FlatUpTo(S, seqs, n - 1)
  PROVE  FlatUpTo(S, seqs, n)
<1>1. PICK st, f :
        /\ Begins(seqs, n - 1, st)
        /\ f \in [1..n - 1 -> Seq(S)]
        /\ \A i \in 1..n - 1 : f[i] = (IF i = 1 THEN seqs[i] ELSE f[i - 1] \o seqs[i])
        /\ n - 1 > 0 => Consists(seqs, n - 1, st, f[n - 1])
  BY DEF FlatUpTo
<1>0. n \in Nat /\ n > 0 /\ Len(seqs) \in Nat
  OBVIOUS
<1>2. \A k \in 1..n : seqs[k] \in Seq(S) /\ Len(seqs[k]) \in Nat
  BY <1>0
<1> DEFINE last == IF n = 1 THEN seqs[n] ELSE f[n - 1] \o seqs[n]
           st2 == [k \in 1..(n + 1) |-> IF k = n + 1 THEN st[n] + Len(seqs[n]) ELSE st[k]]
           f2 == [i \in 1..n |-> IF i = n THEN last ELSE f[i]]
<1>3. last \in Seq(S)
  BY <1>0, <1>1, <1>2
<1>4. f2 \in [1..n -> Seq(S)]
  BY <1>0, <1>1, <1>3
<1>5. \A i \in 1..n : f2[i] = (IF i = 1 THEN seqs[i] ELSE f2[i - 1] \o seqs[i])
  <2> SUFFICES ASSUME NEW i \in 1..n PROVE f2[i] = (IF i = 1 THEN seqs[i] ELSE f2[i - 1] \o seqs[i])
    OBVIOUS
  <2>1. CASE i = n
    <3>1. f2[i] = last /\ (i # 1 => f2[i - 1] = f[i - 1])
      BY <1>0, <2>1
    <3> QED BY <2>1, <3>1
  <2>2. CASE i # n
    <3>1. f2[i] = f[i] /\ i \in 1..n - 1 /\ (i # 1 => f2[i - 1] = f[i - 1])
      BY <1>0, <2>2
    <3> QED BY <1>1, <3>1
  <2> QED BY <2>1, <2>2
<1>6. /\ st \in [1..n -> Nat] /\ st[1] = 0
      /\ \A k \in 1..n - 1 : st[k + 1] = st[k] + Len(seqs[k]) /\ st[k + 1] <= st[n]
  BY <1>0, <1>1 DEF Begins
<1>7. Begins(seqs, n, st2)
  <2>1. st2 \in [1..(n + 1) -> Nat] /\ st2[1] = 0 /\ st2[n + 1] = st[n] + Len(seqs[n])
    BY <1>0, <1>2, <1>6
  <2>2. \A k \in 1..n : st2[k] = st[k]
    BY <1>0
  <2>3. ASSUME NEW k \in 1..n PROVE st2[k + 1] = st2[k] + Len(seqs[k]) /\ st2[k + 1] <= st2[n + 1]
    <3>1. CASE k = n
      <4>1. st2[n] = st[n] /\ st2[n + 1] \in Nat
        BY <1>0, <2>1, <2>2
      <4> HIDE DEF st2
      <4> QED BY <1>0, <2>1, <3>1, <4>1
    <3>2. CASE k # n
      <4>1. k \in 1..n - 1 /\ k + 1 \in 1..n /\ k \in 1..n
        BY <1>0, <3>2
      <4>2. st2[k + 1] = st[k + 1] /\ st2[k] = st[k]
        BY <2>2, <4>1
      <4> HIDE DEF st2
      <4>3. st[k + 1] = st[k] + Len(seqs[k]) /\ st[k + 1] <= st[n] /\ st[k + 1] \in Nat /\ st[n] \in Nat
        <5>1. n \in 1..n
          BY <1>0
        <5> QED BY ONLY <1>6, <4>1, <5>1
      <4>4. st2[n + 1] = st[n] + Len(seqs[n]) /\ Len(seqs[n]) \in Nat
        BY <1>0, <1>2, <2>1
      <4> QED BY <4>2, <4>3, <4>4
    <3> QED BY <3>1, <3>2
  <2> QED BY <2>1, <2>3 DEF Begins
<1>8. Consists(seqs, n, st2, f2[n])
  <2>1. f2[n] = last /\ st2[n + 1] = st[n] + Len(seqs[n]) /\ \A k \in 1..n : st2[k] = st[k]
    BY <1>0
  <2>2. CASE n = 1
    <3>1. \A k \in 1..n : k = 1
      BY <2>2
    <3>2. st[1] = 0 /\ st[n] = 0 /\ Len(seqs[n]) \in Nat /\ st2[1] = 0
      BY <1>0, <1>2, <1>6, <2>1, <2>2
    <3>3. f2[n] = seqs[1]
      BY <2>1, <2>2
    <3>4. Len(f2[n]) = st2[n + 1]
      BY <2>1, <2>2, <3>2, <3>3
    <3> HIDE DEF st2, f2
    <3>5. \A i \in 1..Len(seqs[1]) : f2[n][st2[1] + i] = seqs[1][i]
      BY <3>2, <3>3
    <3> QED BY <2>2, <3>1, <3>4, <3>5 DEF Consists
  <2>3. CASE n # 1
    <3> DEFINE w == f[n - 1]  v == seqs[n]
    <3>0. last = w \o v
      BY <2>3
    <3>1. /\ w \in Seq(S) /\ Len(w) = st[n]
          /\ \A k \in 1..n - 1 : \A i \in 1..Len(seqs[k]) : w[st[k] + i] = seqs[k][i]
      <4>1. Consists(seqs, n - 1, st, w) /\ n - 1 \in 1..n - 1
        BY <1>0, <1>1, <2>3
      <4> QED BY <1>0, <1>1, <4>1 DEF Consists
    <3>11. v \in Seq(S)
      BY <1>0, <1>2
    <3> HIDE DEF last, w, v
    <3>12. w \in Seq(S)
      BY <3>1
    <3>13. /\ Len(w \o v) = Len(w) + Len(v)
           /\ \A i \in 1..Len(w) : (w \o v)[i] = w[i]
           /\ \A i \in 1..Len(v) : (w \o v)[Len(w) + i] = v[i]
      BY ONLY <3>11, <3>12, CatAt
    <3>2. Len(last) = st[n] + Len(v)
      BY <3>0, <3>1, <3>13
    <3>22. /\ \A i \in 1..Len(w) : last[i] = w[i]
           /\ \A i \in 1..Len(v) : last[Len(w) + i] = v[i]
      BY <3>0, <3>13
    <3>3. ASSUME NEW k \in 1..n, NEW i \in 1..Len(seqs[k]) PROVE last[st[k] + i] = seqs[k][i]
      <4>1. CASE k = n
        BY <3>1, <3>22, <4>1 DEF v
      <4>2. CASE k # n
        <5>1. k \in 1..n - 1 /\ st[k] \in Nat /\ st[n] \in Nat /\ st[k] + Len(seqs[k]) <= st[n] /\ Len(seqs[k]) \in Nat
          BY <1>0, <1>2, <1>6, <4>2
        <5>2. st[k] + i \in 1..Len(w)
          <6>1. i \in Nat /\ i >= 1 /\ i <= Len(seqs[k])
            BY <5>1
          <6>2. Len(w) = st[n]
            BY <3>1
          <6>3. st[k] + i \in Nat /\ st[k] + i >= 1 /\ st[k] + i <= st[n]
            BY ONLY <5>1, <6>1
          <6> QED BY ONLY <5>1, <6>2, <6>3
        <5> QED BY <3>1, <3>22, <5>1, <5>2
      <4> QED BY <4>1, <4>2
    <3> HIDE DEF st2, f2
    <3> QED BY <2>1, <3>2, <3>3 DEF Consists, v
  <2> QED BY <2>2, <2>3
<1> HIDE DEF st2, f2
<1> QED BY <1>0, <1>4, <1>5, <1>7, <1>8 DEF FlatUpTo

\* All of the parts: the first number of them to fail would follow one that does not.
LEMMA FlatAll ==
  ASSUME NEW S, NEW seqs \in Seq(Seq(S)) PROVE FlatUpTo(S, seqs, Len(seqs))
<1> DEFINE D == {n \in 0..Len(seqs) : ~FlatUpTo(S, seqs, n)}
<1>0. Len(seqs) \in Nat
  OBVIOUS
<1>1. FlatUpTo(S, seqs, 0)
  <2> DEFINE st == [k \in 1..1 |-> 0]  f == [i \in 1..0 |-> <<>>]
  <2>1. Begins(seqs, 0, st) /\ f \in [1..0 -> Seq(S)] /\ \A i \in 1..0 : FALSE
    BY DEF Begins
  <2> HIDE DEF st, f
  <2>2. /\ \A i \in 1..0 : f[i] = (IF i = 1 THEN seqs[i] ELSE f[i - 1] \o seqs[i])
        /\ 0 > 0 => Consists(seqs, 0, st, f[0])
    BY <2>1
  <2> QED BY ONLY <2>1, <2>2 DEF FlatUpTo
<1> SUFFICES ASSUME D # {} PROVE FALSE
  BY <1>0
<1>2. PICK m \in D : \A k \in D : m <= k
  <2> D \subseteq Nat
    BY <1>0
  <2> HIDE DEF D
  <2> QED BY NatMin
<1>3. m \in 1..Len(seqs) /\ m - 1 \in 0..Len(seqs) /\ m - 1 \notin D
  BY <1>0, <1>1, <1>2
<1> QED BY <1>2, <1>3, FlatGrows

\* Where the parts of a flattened sequence are.
Starts(seqs) ==
  CHOOSE st : Begins(seqs, Len(seqs), st) /\ Consists(seqs, Len(seqs), st, FlattenSeq(seqs))

\* FlattenSeq puts the parts one behind the other.
LEMMA FlattenedParts ==
  ASSUME NEW S, NEW seqs \in Seq(Seq(S))
  PROVE  /\ FlattenSeq(seqs) \in Seq(S)
         /\ Begins(seqs, Len(seqs), Starts(seqs))
         /\ Consists(seqs, Len(seqs), Starts(seqs), FlattenSeq(seqs))
<1> DEFINE n == Len(seqs)
<1>1. PICK st, f :
        /\ Begins(seqs, n, st)
        /\ f \in [1..n -> Seq(S)]
        /\ \A i \in 1..n : f[i] = (IF i = 1 THEN seqs[i] ELSE f[i - 1] \o seqs[i])
        /\ n > 0 => Consists(seqs, n, st, f[n])
  BY FlatAll DEF FlatUpTo
<1>2. FlattenSeq(seqs) \in Seq(S) /\ Consists(seqs, n, st, FlattenSeq(seqs))
  <2>1. CASE n = 0
    <3>1. FlattenSeq(seqs) = <<>>
      BY <2>1 DEF FlattenSeq
    <3>2. <<>> \in Seq(S) /\ Len(<<>>) = 0
      OBVIOUS
    <3>3. st[n + 1] = 0 /\ \A k \in 1..n : FALSE
      BY <1>1, <2>1 DEF Begins
    <3> QED BY <3>1, <3>2, <3>3 DEF Consists
  <2>2. CASE n # 0
    <3>1. n \in Nat \ {0}
      BY <2>2
    <3>2. f = [i \in 1..n |-> IF i = 1 THEN seqs[i] ELSE f[i - 1] \o seqs[i]]
      BY <1>1
    <3>3. FlattenSeq(seqs) = f[n]
      BY <3>1, <3>2, FlattenIs DEF Flattens
    <3>4. f[n] \in Seq(S) /\ Consists(seqs, n, st, f[n])
      <4>1. n > 0 /\ n \in 1..n
        BY <3>1
      <4> QED BY ONLY <1>1, <4>1
    <3> QED BY <3>3, <3>4
  <2> QED BY <2>1, <2>2
<1>3. \E t : Begins(seqs, n, t) /\ Consists(seqs, n, t, FlattenSeq(seqs))
  BY <1>1, <1>2
<1> QED BY <1>2, <1>3 DEF Starts

-----------------------------------------------------------------------------
(* The bytes of a section.                                                 *)

\* t is part of s, behind its first o elements.
Lies(s, o, t) == o + Len(t) <= Len(s) /\ \A i \in 1..Len(t) : s[o + i] = t[i]

\* The whole holds the part that lies in it, byte for byte.
LEMMA LiesIn ==
  ASSUME NEW S, NEW s \in Seq(S), NEW t \in Seq(S), NEW u \in Seq(S), NEW o \in Nat, NEW p \in Nat,
         Lies(s, o, t), Lies(t, p, u)
  PROVE  Lies(s, o + p, u)
<1>1. Len(s) \in Nat /\ Len(t) \in Nat /\ Len(u) \in Nat
  OBVIOUS
<1>2. ASSUME NEW i \in 1..Len(u) PROVE s[(o + p) + i] = u[i]
  <2>1. p + i \in 1..Len(t) /\ t[p + i] = u[i]
    <3>1. p + Len(u) <= Len(t) /\ t[p + i] = u[i]
      BY DEF Lies
    <3>2. i \in Nat /\ i >= 1 /\ i <= Len(u)
      BY <1>1
    <3>3. p + i \in Nat /\ p + i >= 1 /\ p + i <= Len(t)
      BY ONLY <1>1, <3>1, <3>2, p \in Nat
    <3> QED BY ONLY <1>1, <3>1, <3>3
  <2>2. s[o + (p + i)] = t[p + i] /\ o + (p + i) = (o + p) + i
    BY <2>1 DEF Lies
  <2> QED BY <2>1, <2>2
<1>3. (o + p) + Len(u) <= Len(s)
  BY <1>1 DEF Lies
<1> QED BY <1>2, <1>3 DEF Lies

\* What is put behind a head lies behind it.
LEMMA LiesBehind ==
  ASSUME NEW S, NEW a \in Seq(S), NEW b \in Seq(S)
  PROVE  a \o b \in Seq(S) /\ Len(a \o b) = Len(a) + Len(b)
         /\ Lies(a \o b, 0, a) /\ Lies(a \o b, Len(a), b)
<1>1. Len(a) \in Nat /\ Len(b) \in Nat /\ Len(a \o b) = Len(a) + Len(b)
  OBVIOUS
<1>2. \A i \in 1..Len(a) : (a \o b)[0 + i] = a[i]
  BY CatAt
<1> QED BY <1>1, <1>2, CatAt DEF Lies

\* Bytes nothing is asked of.
LEMMA FillerIs ==
  ASSUME NEW n \in Nat PROVE Filler(n) \in Seq(Bytes) /\ Len(Filler(n)) = n
<1>1. Filler(n) \in [1..n -> Bytes]
  BY DEF Filler, Bytes
<1> QED BY <1>1

\* The four widths are sets of numbers.
LEMMA ByteIs ==
  ASSUME NEW n \in Bytes PROVE n \in Nat /\ n <= 255
  BY DEF Bytes

LEMMA LengthIs ==
  ASSUME NEW n \in Lengths PROVE n \in Nat /\ n <= 4095
  BY SMTT(20) DEF Lengths

LEMMA WordIs ==
  ASSUME NEW n \in Words PROVE n \in Nat /\ n < 65536
<1> DEFINE top == 65535
<1>1. top \in Nat /\ Words = 0..top
  BY DEF Words
<1>2. top < 65536
  OBVIOUS
<1> HIDE DEF top
<1> QED BY ONLY <1>1, <1>2, n \in Words

LEMMA PidIs ==
  ASSUME NEW n \in Pids PROVE n \in Nat
<1> DEFINE top == 8191
<1>1. top \in Nat /\ Pids = 0..top
  BY DEF Pids
<1> HIDE DEF top
<1> QED BY ONLY <1>1, n \in Pids

\* What fits is of the width.
LEMMA SomeWord ==
  ASSUME NEW n \in Nat, n < 65536 PROVE n \in Words
<1> DEFINE top == 65535
<1>1. top \in Nat /\ n <= top
  OBVIOUS
<1>2. Words = 0..top
  BY DEF Words
<1> HIDE DEF top
<1>3. n \in 0..top
  BY ONLY <1>1
<1> QED BY ONLY <1>2, <1>3

LEMMA SomeLength ==
  ASSUME NEW n \in Nat, n <= 4095 PROVE n \in Lengths
  BY DEF Lengths

\* The numbers the encoder adds flags to stay bytes.
LEMMA PartOfByte ==
  ASSUME NEW p \in Nat, NEW n \in Nat, 3 + p + n \in Bytes PROVE n \in Bytes
  BY DEF Bytes

\* A word is what its two bytes are read as.
LEMMA TwoBytes ==
  ASSUME NEW n \in Words
  PROVE  High(n) \in Bytes /\ Low(n) \in Bytes /\ High(n) * 256 + Low(n) = n
<1>1. n \in Nat /\ n < 65536
  BY WordIs
<1>2. n \div 256 \in 0..255 /\ n % 256 \in 0..255 /\ (n \div 256) * 256 + (n % 256) = n
  BY ONLY <1>1
<1> QED BY <1>2 DEF High, Low, Bytes

\* A PID is what its two bytes are read as, without the flags above it.
LEMMA PidBytes ==
  ASSUME NEW n \in Pids
  PROVE  224 + High(n) \in Bytes /\ Low(n) \in Bytes /\ ((224 + High(n)) * 256 + Low(n)) % 8192 = n
  BY DEF High, Low, Bytes, Pids

\* And so is a length.
LEMMA LengthBytes ==
  ASSUME NEW n \in Lengths
  PROVE  /\ 176 + High(n) \in Bytes /\ 240 + High(n) \in Bytes /\ 128 + High(n) \in Bytes
         /\ Low(n) \in Bytes
         /\ ((176 + High(n)) % 16) * 256 + Low(n) = n
         /\ ((240 + High(n)) * 256 + Low(n)) % 4096 = n
         /\ ((128 + High(n)) * 256 + Low(n)) % 4096 = n
<1>1. High(n) \in 0..15 /\ Low(n) \in 0..255 /\ n = High(n) * 256 + Low(n)
  BY DEF High, Low, Lengths
<1> DEFINE h == High(n)  l == Low(n)
<1>2. h \in 0..15 /\ l \in 0..255 /\ n = h * 256 + l
  BY <1>1
<1> HIDE DEF h, l
<1>3. (176 + h) % 16 = h
  BY <1>2
<1>4. ((240 + h) * 256 + l) % 4096 = h * 256 + l
  BY <1>2
<1>5. ((128 + h) * 256 + l) % 4096 = h * 256 + l
  BY <1>2
<1> QED BY <1>2, <1>3, <1>4, <1>5 DEF h, l, Bytes

\* The header, the body and the checksum of a section, and the length it states.
LEMMA SectionIs ==
  ASSUME NEW id \in Bytes, NEW body \in Seq(Bytes), Len(body) + 4 < 4096
  PROVE  /\ Section(id, body) \in Seq(Bytes) /\ Len(Section(id, body)) = Len(body) + 7
         /\ Section(id, body)[1] = id
         /\ (Section(id, body)[2] % 16) * 256 + Section(id, body)[3] = Len(body) + 4
         /\ Lies(Section(id, body), 3, body)
<1> DEFINE n == Len(body) + 4  b == 176 + High(n)  c == Low(n)  top == <<id, b, c>>
           t == top \o body  s == Section(id, body)
<1>0. Len(body) \in Nat /\ Len(body) + 4 < 4096
  OBVIOUS
<1>00. body \in Seq(Bytes) /\ id \in Bytes
  OBVIOUS
<1>1. n \in Lengths
  <2>1. n \in Nat /\ n <= 4095
    BY ONLY <1>0
  <2> QED BY ONLY <2>1, SomeLength
<1>2. s = t \o Crc
  BY DEF Section
<1>3. b \in Bytes /\ c \in Bytes /\ (b % 16) * 256 + c = n
  BY ONLY <1>1, LengthBytes
<1> HIDE DEF n, b, c, s
<1>4. top \in Seq(Bytes) /\ Len(top) = 3 /\ top[1] = id /\ top[2] = b /\ top[3] = c
  BY <1>3
<1>5. Crc \in Seq(Bytes) /\ Len(Crc) = 4
  BY DEF Crc, Bytes
<1> HIDE DEF top
<1>6. t \in Seq(Bytes) /\ Lies(t, 0, top) /\ Lies(t, Len(top), body) /\ Len(t) = Len(top) + Len(body)
  BY ONLY <1>4, <1>00, LiesBehind, CatAt, ZenonT(40)
<1> HIDE DEF t
<1>7. s \in Seq(Bytes) /\ Lies(s, 0, t) /\ Len(s) = Len(t) + Len(Crc)
  BY ONLY <1>2, <1>5, <1>6, LiesBehind, CatAt, ZenonT(40)
<1>8. Lies(s, 0 + 3, body)
  <2>1. Lies(t, 3, body) /\ 3 \in Nat /\ 0 \in Nat
    BY <1>4, <1>6
  <2> QED BY <1>6, <1>7, <2>1, LiesIn
<1>9. Lies(s, 0 + 0, top)
  <2>1. 0 \in Nat
    OBVIOUS
  <2> QED BY <1>4, <1>6, <1>7, <2>1, LiesIn
<1>10. s[1] = id /\ s[2] = b /\ s[3] = c
  BY <1>4, <1>9 DEF Lies
<1>11. Len(s) = Len(body) + 7
  BY <1>0, <1>4, <1>5, <1>6, <1>7
<1> QED BY <1>3, <1>7, <1>8, <1>10, <1>11 DEF s, n

-----------------------------------------------------------------------------
(* The entries of the tables.                                              *)

\* The four bytes of an entry of the PAT.
LEMMA ProgramEntryIs ==
  ASSUME NEW e \in ProgramEntries
  PROVE  LET t == ProgramEntry(e) IN
         /\ t \in Seq(Bytes) /\ Len(t) = 4
         /\ t[1] * 256 + t[2] = e.pr /\ (t[3] * 256 + t[4]) % 8192 = e.pid
         /\ t[1] # 0 <=> e.pr >= 256
<1> DEFINE a == High(e.pr)  b == Low(e.pr)  c == 224 + High(e.pid)  d == Low(e.pid)
<1>0. e.pr \in Words /\ e.pid \in Pids
  BY DEF ProgramEntries
<1>1. a \in Bytes /\ b \in Bytes /\ a * 256 + b = e.pr
  BY ONLY <1>0, TwoBytes
<1>2. c \in Bytes /\ d \in Bytes /\ (c * 256 + d) % 8192 = e.pid
  BY ONLY <1>0, PidBytes
<1>3. ProgramEntry(e) = <<a, b, c, d>>
  BY DEF ProgramEntry
<1> HIDE DEF a, b, c, d
<1>4. a # 0 <=> e.pr >= 256
  BY ONLY <1>1 DEF Bytes
<1> QED BY <1>1, <1>2, <1>3, <1>4

\* The bytes of an entry of a PMT.
LEMMA StreamEntryIs ==
  ASSUME NEW e \in StreamEntries
  PROVE  LET t == StreamEntry(e) IN
         /\ t \in Seq(Bytes) /\ Len(t) = 5 + e.info
         /\ t[1] = e.type /\ (t[2] * 256 + t[3]) % 8192 = e.pid
         /\ (t[4] * 256 + t[5]) % 4096 = e.info
<1> DEFINE b == 224 + High(e.pid)  c == Low(e.pid)  d == 240 + High(e.info)  f == Low(e.info)
           top == <<e.type, b, c, d, f>>
<1>0. e.type \in Bytes /\ e.pid \in Pids /\ e.info \in Lengths /\ e.info \in Nat
  <2>1. e.type \in Bytes /\ e.pid \in Pids /\ e.info \in Lengths
    BY DEF StreamEntries
  <2>2. e.info \in Nat
    BY ONLY <2>1, LengthIs
  <2> QED BY ONLY <2>1, <2>2
<1>1. b \in Bytes /\ c \in Bytes /\ (b * 256 + c) % 8192 = e.pid
  BY ONLY <1>0, PidBytes
<1>2. d \in Bytes /\ f \in Bytes /\ (d * 256 + f) % 4096 = e.info
  BY ONLY <1>0, LengthBytes
<1>3. StreamEntry(e) = top \o Filler(e.info)
  BY DEF StreamEntry
<1> HIDE DEF b, c, d, f
<1>4. top \in Seq(Bytes) /\ Len(top) = 5 /\ top[1] = e.type /\ top[2] = b /\ top[3] = c /\ top[4] = d /\ top[5] = f
  BY <1>0, <1>1, <1>2
<1> HIDE DEF top
<1>5. Filler(e.info) \in Seq(Bytes) /\ Len(Filler(e.info)) = e.info
  BY <1>0, FillerIs
<1> DEFINE t == StreamEntry(e)
<1>6. t \in Seq(Bytes) /\ Len(t) = 5 + e.info /\ Lies(t, 0, top)
  <2>1. t \in Seq(Bytes) /\ Len(t) = Len(top) + Len(Filler(e.info)) /\ Lies(t, 0, top)
    BY ONLY <1>3, <1>4, <1>5, LiesBehind DEF t
  <2> QED BY ONLY <1>4, <1>5, <2>1
<1> HIDE DEF t
<1>7. t[1] = top[1] /\ t[2] = top[2] /\ t[3] = top[3] /\ t[4] = top[4] /\ t[5] = top[5]
  <2>1. \A i \in 1..5 : t[0 + i] = top[i]
    BY ONLY <1>4, <1>6 DEF Lies
  <2> QED BY ONLY <2>1
<1> QED BY <1>1, <1>2, <1>4, <1>6, <1>7 DEF t

\* The bytes of an entry of the SDT, down to the name of the service.
LEMMA ServiceEntryIs ==
  ASSUME NEW e \in Services, 3 + e.provider + Len(e.name) \in Bytes, Len(Descriptors(e)) \in Lengths
  PROVE  LET t == ServiceEntry(e) IN
         /\ t \in Seq(Bytes) /\ Len(t) = 5 + Len(Descriptors(e)) /\ Len(Descriptors(e)) \in Nat
         /\ 10 + e.provider + Len(e.name) <= Len(t)
         /\ t[1] * 256 + t[2] = e.id
         /\ (t[4] * 256 + t[5]) % 4096 = Len(Descriptors(e))
         /\ t[8] = e.type /\ t[9] = e.provider
         /\ t[10 + e.provider] = Len(e.name) /\ Lies(t, 10 + e.provider, e.name)
<1> DEFINE p == e.provider  n == Len(e.name)  D == Descriptors(e)  d == Len(D)
           top == <<72, 3 + p + n, e.type, p>>
           top2 == top \o Filler(p)  top3 == top2 \o <<n>>  top4 == top3 \o e.name
<1>0. e.id \in Words /\ e.type \in Bytes /\ p \in Bytes /\ e.name \in Seq(Bytes) /\ e.more \in Nat
  BY DEF Services
<1>1. p \in Nat /\ n \in Nat
  BY ONLY <1>0, ByteIs
<1>2. D = top4 \o Filler(e.more)
  BY DEF Descriptors
<1>3. n \in Bytes
  BY ONLY 3 + p + n \in Bytes, <1>1, PartOfByte
<1>4. top \in Seq(Bytes) /\ Len(top) = 4 /\ top[3] = e.type /\ top[4] = p
  <2> DEFINE q == 3 + p + n
  <2>1. q \in Bytes /\ 72 \in Bytes
    BY DEF Bytes
  <2>2. top = <<72, q, e.type, p>>
    OBVIOUS
  <2> HIDE DEF q, p
  <2> QED BY <1>0, <2>1, <2>2
<1>5. Filler(p) \in Seq(Bytes) /\ Len(Filler(p)) = p /\ Filler(e.more) \in Seq(Bytes)
  BY ONLY <1>0, <1>1, FillerIs
<1>6. <<n>> \in Seq(Bytes) /\ Len(<<n>>) = 1 /\ <<n>>[1] = n
  BY <1>3
<1> HIDE DEF top, D, p
<1>7. top2 \in Seq(Bytes) /\ Lies(top2, 0, top) /\ Len(top2) = 4 + p
  <2>1. top2 \in Seq(Bytes) /\ Lies(top2, 0, top) /\ Len(top2) = Len(top) + Len(Filler(p))
    BY ONLY <1>4, <1>5, LiesBehind DEF top2
  <2> QED BY ONLY <1>4, <1>5, <2>1
<1> HIDE DEF top2
<1>8. top3 \in Seq(Bytes) /\ Lies(top3, 0, top2) /\ Lies(top3, Len(top2), <<n>>) /\ Len(top3) = 5 + p
  <2>1. /\ top3 \in Seq(Bytes) /\ Lies(top3, 0, top2) /\ Lies(top3, Len(top2), <<n>>)
        /\ Len(top3) = Len(top2) + Len(<<n>>)
    BY ONLY <1>6, <1>7, LiesBehind DEF top3
  <2> QED BY ONLY <1>1, <1>6, <1>7, <2>1
<1> HIDE DEF top3
<1>9. top4 \in Seq(Bytes) /\ Lies(top4, 0, top3) /\ Lies(top4, Len(top3), e.name) /\ Len(top4) = 5 + p + n
  <2>1. /\ top4 \in Seq(Bytes) /\ Lies(top4, 0, top3) /\ Lies(top4, Len(top3), e.name)
        /\ Len(top4) = Len(top3) + Len(e.name)
    BY ONLY <1>0, <1>8, LiesBehind DEF top4
  <2> QED BY ONLY <1>1, <1>8, <2>1 DEF n
<1> HIDE DEF top4, n
<1>10. D \in Seq(Bytes) /\ Lies(D, 0, top4)
  BY <1>2, <1>5, <1>9, LiesBehind
<1>11. Lies(D, 5 + p, e.name)
  <2>1. Lies(top4, 5 + p, e.name) /\ 5 + p \in Nat /\ 0 \in Nat /\ 0 + (5 + p) = 5 + p
    BY <1>1, <1>8, <1>9
  <2>2. Lies(D, 0 + (5 + p), e.name)
    BY <1>0, <1>9, <1>10, <2>1, LiesIn
  <2> QED BY <2>1, <2>2
<1>12. Lies(D, 0, top3)
  <2>1. 0 \in Nat /\ 0 + 0 = 0
    OBVIOUS
  <2> QED BY <1>8, <1>9, <1>10, <2>1, LiesIn
<1>13. Lies(D, 4 + p, <<n>>) /\ Lies(D, 0, top2)
  <2>1. 4 + p \in Nat /\ 0 \in Nat /\ 0 + 0 = 0 /\ 0 + (4 + p) = 4 + p /\ Lies(top3, 4 + p, <<n>>)
    BY <1>1, <1>7, <1>8
  <2>2. Lies(D, 0 + (4 + p), <<n>>)
    BY ONLY <1>6, <1>8, <1>10, <1>12, <2>1, LiesIn
  <2>3. Lies(D, 0 + 0, top2)
    BY ONLY <1>7, <1>8, <1>10, <1>12, <2>1, LiesIn
  <2> QED BY <2>1, <2>2, <2>3
<1>14. Lies(D, 0, top)
  <2>1. 0 \in Nat /\ 0 + 0 = 0
    OBVIOUS
  <2> QED BY <1>4, <1>7, <1>10, <1>13, <2>1, LiesIn
<1>15. d \in Lengths /\ d \in Nat
  BY LengthIs DEF D
<1> DEFINE a == High(e.id)  b == Low(e.id)  h == 128 + High(d)  l == Low(d)
           first == <<a, b, 252, h, l>>  t == ServiceEntry(e)
<1>16. a \in Bytes /\ b \in Bytes /\ a * 256 + b = e.id
  BY ONLY <1>0, TwoBytes
<1>17. h \in Bytes /\ l \in Bytes /\ (h * 256 + l) % 4096 = d
  BY ONLY <1>15, LengthBytes
<1>18. t = first \o D
  BY DEF ServiceEntry, D
<1> HIDE DEF a, b, h, l, d, t
<1>19. first \in Seq(Bytes) /\ Len(first) = 5 /\ first[1] = a /\ first[2] = b /\ first[4] = h /\ first[5] = l
  <2>1. 252 \in Bytes
    BY DEF Bytes
  <2> QED BY <1>16, <1>17, <2>1
<1> HIDE DEF first
<1>20. t \in Seq(Bytes) /\ Lies(t, 0, first) /\ Lies(t, 5, D) /\ Len(t) = 5 + d
  <2>1. t \in Seq(Bytes) /\ Lies(t, 0, first) /\ Lies(t, Len(first), D) /\ Len(t) = Len(first) + Len(D)
    BY ONLY <1>10, <1>18, <1>19, LiesBehind
  <2> QED BY <1>19, <2>1 DEF d
<1>21. t[1] = a /\ t[2] = b /\ t[4] = h /\ t[5] = l
  BY <1>19, <1>20 DEF Lies
<1>22. t[8] = e.type /\ t[9] = p
  <2>1. Lies(t, 5 + 0, top)
    <3>1. 0 \in Nat /\ 5 \in Nat
      OBVIOUS
    <3> QED BY <1>4, <1>10, <1>14, <1>20, <3>1, LiesIn
  <2>2. t[5 + 3] = top[3] /\ t[5 + 4] = top[4]
    BY <1>4, <2>1 DEF Lies
  <2> QED BY <1>4, <2>2
<1>23. t[10 + p] = n
  <2>1. Lies(t, 5 + (4 + p), <<n>>)
    <3>1. 4 + p \in Nat /\ 5 \in Nat
      BY <1>1
    <3> QED BY ONLY <1>6, <1>10, <1>13, <1>20, <3>1, LiesIn
  <2>2. t[(5 + (4 + p)) + 1] = n
    BY <1>6, <2>1 DEF Lies
  <2>3. (5 + (4 + p)) + 1 = 10 + p
    BY <1>1
  <2> QED BY <2>2, <2>3
<1>24. Lies(t, 10 + p, e.name)
  <2>1. 5 + p \in Nat /\ 5 \in Nat /\ 5 + (5 + p) = 10 + p
    BY <1>1
  <2>2. Lies(t, 5 + (5 + p), e.name)
    BY <1>0, <1>10, <1>11, <1>20, <2>1, LiesIn
  <2> QED BY <2>1, <2>2
<1>25. 10 + p + n <= Len(t)
  BY <1>24 DEF Lies, n
<1> QED BY <1>15, <1>16, <1>17, <1>20, <1>21, <1>22, <1>23, <1>24, <1>25 DEF t, d, p, n, D

-----------------------------------------------------------------------------
(* The sections, and where their entries are.                              *)

\* s is a section with h bytes of head and n entries, behind which st says they begin.
MadeOf(s, id, head, h, seqs, n, st) ==
  /\ s \in Seq(Bytes) /\ s[1] = id
  /\ (s[2] % 16) * 256 + s[3] = h + st[n + 1] + 4
  /\ Len(s) = h + st[n + 1] + 7
  /\ Lies(s, 3, head)
  /\ \A k \in 1..n : Lies(s, 3 + h + st[k], seqs[k])

\* The bytes of a table of entries.
LEMMA TableBytes ==
  ASSUME NEW id \in Bytes, NEW head \in Seq(Bytes), NEW seqs \in Seq(Seq(Bytes)),
         NEW s, s = Section(id, head \o FlattenSeq(seqs)), Len(s) < 4096,
         NEW st, st = Starts(seqs), NEW n, n = Len(seqs), NEW h, h = Len(head)
  PROVE  MadeOf(s, id, head, h, seqs, n, st)
<1> DEFINE flat == FlattenSeq(seqs)  body == head \o flat
<1>0. n \in Nat /\ h \in Nat
  OBVIOUS
<1>1. /\ flat \in Seq(Bytes)
      /\ Begins(seqs, n, st)
      /\ Consists(seqs, n, st, flat)
  BY FlattenedParts
<1>2. /\ st \in [1..(n + 1) -> Nat]
      /\ Len(flat) = st[n + 1]
      /\ \A k \in 1..n : /\ st[k + 1] = st[k] + Len(seqs[k]) /\ st[k + 1] <= st[n + 1]
                         /\ \A i \in 1..Len(seqs[k]) : flat[st[k] + i] = seqs[k][i]
  BY <1>1 DEF Begins, Consists
<1>3. st[n + 1] \in Nat /\ \A k \in 1..n : st[k] \in Nat
  <2>1. n + 1 \in 1..(n + 1) /\ \A k \in 1..n : k \in 1..(n + 1)
    BY ONLY <1>0
  <2> QED BY ONLY <1>2, <2>1
<1>4. \A k \in 1..n : seqs[k] \in Seq(Bytes)
  OBVIOUS
<1>5. \A k \in 1..n : Lies(flat, st[k], seqs[k])
  BY <1>2 DEF Lies
<1>6. Len(s) < 4096 /\ s = (<<id, 176 + High(Len(body) + 4), Low(Len(body) + 4)>> \o body) \o Crc
  BY DEF Section
<1>00. head \in Seq(Bytes) /\ id \in Bytes /\ h = Len(head) /\ s = Section(id, body)
  OBVIOUS
<1> HIDE DEF flat, body
<1>7. body \in Seq(Bytes) /\ Len(body) = h + st[n + 1] /\ Lies(body, 0, head) /\ Lies(body, h, flat)
  <2>1. body \in Seq(Bytes) /\ Len(body) = h + Len(flat) /\ Lies(body, 0, head) /\ Lies(body, h, flat)
    BY ONLY <1>00, <1>1, LiesBehind DEF body
  <2> QED BY ONLY <1>2, <2>1
<1>8. Len(body) + 4 < 4096
  <2> DEFINE top == <<id, 176 + High(Len(body) + 4), Low(Len(body) + 4)>>
  <2>1. top \in Seq({id, 176 + High(Len(body) + 4), Low(Len(body) + 4)}) /\ Len(top) = 3
    OBVIOUS
  <2>2. Crc \in Seq(Bytes) /\ Len(Crc) = 4
    BY DEF Crc, Bytes
  <2> DEFINE S == Bytes \cup {id, 176 + High(Len(body) + 4), Low(Len(body) + 4)}
  <2>3. top \in Seq(S) /\ body \in Seq(S) /\ Crc \in Seq(S)
    BY <1>7, <2>1, <2>2
  <2>4. s = (top \o body) \o Crc
    BY <1>6
  <2> HIDE DEF top, S
  <2>5. top \o body \in Seq(S) /\ Len(top \o body) = Len(top) + Len(body)
    BY ONLY <2>3, CatAt
  <2>6. Len(s) = Len(top \o body) + Len(Crc)
    BY ONLY <2>3, <2>4, <2>5, CatAt
  <2>7. Len(body) \in Nat
    BY ONLY <1>0, <1>3, <1>7
  <2> QED BY ONLY <1>6, <2>1, <2>2, <2>5, <2>6, <2>7
<1>9. /\ s \in Seq(Bytes) /\ Len(s) = Len(body) + 7
      /\ s[1] = id
      /\ (s[2] % 16) * 256 + s[3] = Len(body) + 4
      /\ Lies(s, 3, body)
  <2>1. id \in Bytes /\ body \in Seq(Bytes) /\ Len(body) + 4 < 4096
    BY ONLY <1>00, <1>7, <1>8
  <2>2. /\ Section(id, body) \in Seq(Bytes) /\ Len(Section(id, body)) = Len(body) + 7
        /\ Section(id, body)[1] = id
        /\ (Section(id, body)[2] % 16) * 256 + Section(id, body)[3] = Len(body) + 4
        /\ Lies(Section(id, body), 3, body)
    BY ONLY <2>1, SectionIs
  <2> QED BY ONLY <1>00, <2>2
<1>10. Lies(s, 3, head)
  <2>1. 3 \in Nat /\ 0 \in Nat /\ 3 + 0 = 3
    OBVIOUS
  <2> QED BY ONLY <1>00, <1>7, <1>9, <2>1, LiesIn
<1>11. ASSUME NEW k \in 1..n PROVE Lies(s, 3 + h + st[k], seqs[k])
  <2>1. 3 \in Nat /\ st[k] \in Nat /\ 3 + h \in Nat /\ seqs[k] \in Seq(Bytes) /\ Lies(flat, st[k], seqs[k])
    BY <1>0, <1>3, <1>4, <1>5
  <2>2. Lies(s, 3 + h, flat)
    BY ONLY <1>0, <1>1, <1>7, <1>9, <2>1, LiesIn
  <2> QED BY ONLY <1>1, <1>9, <2>1, <2>2, LiesIn
<1>12. (s[2] % 16) * 256 + s[3] = h + st[n + 1] + 4 /\ Len(s) = h + st[n + 1] + 7
  BY ONLY <1>0, <1>3, <1>7, <1>9
<1> QED BY ONLY <1>9, <1>10, <1>11, <1>12 DEF MadeOf

\* Entries of four bytes begin at the multiples of four.
LEMMA EntriesOfFour ==
  ASSUME NEW seqs \in Seq(Seq(Bytes)), \A k \in DOMAIN seqs : Len(seqs[k]) = 4
  PROVE  \A k \in 1..(Len(seqs) + 1) : Starts(seqs)[k] = 4 * (k - 1)
<1> DEFINE st == Starts(seqs)  n == Len(seqs)
           D == {k \in 1..(n + 1) : st[k] # 4 * (k - 1)}
<1>0. n \in Nat
  OBVIOUS
<1>1. st[1] = 0 /\ \A k \in 1..n : st[k + 1] = st[k] + 4
  <2>1. Begins(seqs, n, st) /\ \A k \in 1..n : Len(seqs[k]) = 4
    BY FlattenedParts
  <2> QED BY <2>1 DEF Begins
<1> HIDE DEF st, n
<1> SUFFICES ASSUME D # {} PROVE FALSE
  BY DEF st, n
<1>2. PICK m \in D : \A k \in D : m <= k
  <2>1. D \subseteq Nat
    BY <1>0
  <2> HIDE DEF D
  <2> QED BY <2>1, NatMin
<1>3. CASE m = 1
  BY <1>1, <1>2, <1>3
<1>4. CASE m # 1
  <2>1. m \in 1..(n + 1) /\ st[m] # 4 * (m - 1)
    BY <1>2
  <2>2. m - 1 \in 1..n /\ m - 1 \in 1..(n + 1) /\ m - 1 \notin D /\ (m - 1) + 1 = m
    BY <1>0, <1>2, <1>4, <2>1
  <2>3. st[m - 1] = 4 * ((m - 1) - 1)
    BY <2>2
  <2>4. st[m] = st[m - 1] + 4
    BY <1>1, <2>2
  <2> QED BY ONLY <1>0, <2>1, <2>3, <2>4
<1> QED BY <1>3, <1>4

\* The bytes of the PAT.
LEMMA PatBytes ==
  ASSUME NEW m, HandledPat(m.pat)
  PROVE  LET s == PatSection(m)  N == Len(m.pat) IN
         /\ N \in 1..256
         /\ s \in Seq(Bytes) /\ s[1] = 0 /\ Len(s) = 12 + 4 * N
         /\ (s[2] % 16) * 256 + s[3] = 9 + 4 * N
         /\ \A k \in 1..N : m.pat[k] \in ProgramEntries /\ Lies(s, 8 + 4 * (k - 1), ProgramEntry(m.pat[k]))
<1> DEFINE N == Len(m.pat)  seqs == [k \in DOMAIN m.pat |-> ProgramEntry(m.pat[k])]
           head == <<0, 1, 193, 0, 0>>  s == PatSection(m)  st == Starts(seqs)
<1>0. m.pat \in Seq(ProgramEntries) /\ N \in 1..256
  BY DEF HandledPat
<1>1. N \in Nat /\ DOMAIN m.pat = 1..N /\ \A k \in 1..N : m.pat[k] \in ProgramEntries
  BY <1>0
<1>2. \A k \in 1..N : ProgramEntry(m.pat[k]) \in Seq(Bytes) /\ Len(ProgramEntry(m.pat[k])) = 4
  BY <1>1, ProgramEntryIs
<1> HIDE DEF N
<1>3. seqs \in Seq(Seq(Bytes)) /\ Len(seqs) = N /\ \A k \in 1..N : seqs[k] = ProgramEntry(m.pat[k])
  BY <1>1, <1>2
<1>4. head \in Seq(Bytes) /\ Len(head) = 5 /\ 0 \in Bytes
  BY DEF Bytes
<1>5. s = Section(0, head \o FlattenSeq(seqs))
  BY DEF PatSection
<1> HIDE DEF s, seqs, head
<1>6. \A k \in 1..(N + 1) : st[k] = 4 * (k - 1)
  <2>1. \A k \in DOMAIN seqs : Len(seqs[k]) = 4
    BY <1>2, <1>3
  <2> QED BY <1>3, <2>1, EntriesOfFour
<1> HIDE DEF st
<1>7. st[N + 1] = 4 * N
  BY <1>1, <1>6
<1>8. Len(s) < 4096
  <2>1. /\ FlattenSeq(seqs) \in Seq(Bytes) /\ Len(FlattenSeq(seqs)) = st[N + 1]
    BY <1>3, FlattenedParts DEF Consists, st
  <2> DEFINE body == head \o FlattenSeq(seqs)
  <2>2. body \in Seq(Bytes) /\ Len(body) = 5 + 4 * N
    <3>1. body \in Seq(Bytes) /\ Len(body) = Len(head) + Len(FlattenSeq(seqs))
      BY ONLY <1>4, <2>1, CatAt
    <3> QED BY <1>1, <1>4, <1>7, <2>1, <3>1
  <2>3. s = Section(0, body)
    BY <1>5
  <2> HIDE DEF body
  <2>4. Len(body) + 4 < 4096
    BY <1>0, <1>1, <2>2
  <2>5. Len(Section(0, body)) = Len(body) + 7
    BY ONLY <1>4, <2>2, <2>4, SectionIs
  <2>6. N \in Nat /\ N <= 256
    BY <1>0
  <2> QED BY ONLY <2>2, <2>3, <2>5, <2>6
<1>9. /\ s \in Seq(Bytes) /\ s[1] = 0
      /\ (s[2] % 16) * 256 + s[3] = 5 + st[N + 1] + 4
      /\ Len(s) = 5 + st[N + 1] + 7
      /\ \A k \in 1..N : Lies(s, 3 + 5 + st[k], seqs[k])
  <2>1. st = Starts(seqs) /\ N = Len(seqs) /\ 5 = Len(head)
    BY <1>3, <1>4 DEF st
  <2>2. MadeOf(s, 0, head, 5, seqs, N, st)
    <3>1. 0 \in Bytes /\ head \in Seq(Bytes) /\ seqs \in Seq(Seq(Bytes))
      BY <1>3, <1>4
    <3>2. MadeOf(s, 0, head, Len(head), seqs, Len(seqs), Starts(seqs))
      BY ONLY <1>5, <1>8, <3>1, TableBytes
    <3> QED BY ONLY <2>1, <3>2
  <2> QED BY ONLY <2>2 DEF MadeOf
<1>10. (s[2] % 16) * 256 + s[3] = 9 + 4 * N /\ Len(s) = 12 + 4 * N
  BY <1>1, <1>7, <1>9
<1>11. ASSUME NEW k \in 1..N PROVE Lies(s, 8 + 4 * (k - 1), ProgramEntry(m.pat[k]))
  <2>1. Lies(s, 3 + 5 + st[k], seqs[k])
    BY <1>9
  <2>2. 3 + 5 + st[k] = 8 + 4 * (k - 1)
    BY <1>1, <1>6
  <2>3. seqs[k] = ProgramEntry(m.pat[k])
    BY <1>3
  <2> QED BY <2>1, <2>2, <2>3
<1> QED BY <1>0, <1>1, <1>9, <1>10, <1>11 DEF s, N

\* The entries of the PMT p, and where each begins.
PmtEntries(p) == [k \in DOMAIN p.es |-> StreamEntry(p.es[k])]
PmtStarts(p) == Starts(PmtEntries(p))

\* The bytes of a PMT.
LEMMA PmtBytes ==
  ASSUME NEW p \in Pmts, Len(PmtSection(p)) < 4096
  PROVE  LET s == PmtSection(p)  n == Len(p.es)  st == PmtStarts(p) IN
         /\ n \in Nat /\ \A k \in 1..n : p.es[k] \in StreamEntries
         /\ st \in [1..(n + 1) -> Nat] /\ st[1] = 0
         /\ \A k \in 1..n : st[k + 1] = st[k] + (5 + p.es[k].info) /\ st[k + 1] <= st[n + 1]
         /\ s \in Seq(Bytes) /\ s[1] = 2 /\ s[4] * 256 + s[5] = p.pr
         /\ (s[2] % 16) * 256 + s[3] = 13 + st[n + 1]
         /\ Len(s) = 16 + st[n + 1] /\ Len(s) < 4096
         /\ \A k \in 1..n : Lies(s, 12 + st[k], StreamEntry(p.es[k]))
<1> DEFINE n == Len(p.es)  st == PmtStarts(p)  s == PmtSection(p)  seqs == PmtEntries(p)
           a == High(p.pr)  b == Low(p.pr)
           first == <<a, b, 193, 0, 0, 224, 0, 240 + High(p.info), Low(p.info)>>
           head == first \o Filler(p.info)
<1>0. p.pr \in Words /\ p.info = 0 /\ p.es \in Seq(StreamEntries)
  BY DEF Pmts
<1>1. n \in Nat /\ DOMAIN p.es = 1..n /\ \A k \in 1..n : p.es[k] \in StreamEntries
  BY <1>0
<1>2. \A k \in 1..n : StreamEntry(p.es[k]) \in Seq(Bytes) /\ Len(StreamEntry(p.es[k])) = 5 + p.es[k].info
  BY <1>1, StreamEntryIs
<1>3. s = Section(2, head \o FlattenSeq(seqs))
  BY DEF PmtSection, PmtEntries
<1> HIDE DEF n, s
<1>4. seqs \in Seq(Seq(Bytes)) /\ Len(seqs) = n /\ \A k \in 1..n : seqs[k] = StreamEntry(p.es[k])
  BY <1>1, <1>2 DEF PmtEntries
<1>5. a \in Bytes /\ b \in Bytes /\ a * 256 + b = p.pr
  BY ONLY <1>0, TwoBytes
<1>6. 240 + High(p.info) = 240 /\ Low(p.info) = 0
  BY <1>0 DEF High, Low
<1> HIDE DEF a, b
<1>7. head = <<a, b, 193, 0, 0, 224, 0, 240, 0>> \o Filler(0)
  BY <1>0, <1>6
<1>8. head \in Seq(Bytes) /\ Len(head) = 9 /\ head[1] = a /\ head[2] = b /\ 2 \in Bytes
  <2> DEFINE top == <<a, b, 193, 0, 0, 224, 0, 240, 0>>
  <2>1. 193 \in Bytes /\ 0 \in Bytes /\ 224 \in Bytes /\ 240 \in Bytes /\ 2 \in Bytes
    BY DEF Bytes
  <2>2. top \in Seq(Bytes) /\ Len(top) = 9 /\ top[1] = a /\ top[2] = b
    BY <1>5, <2>1
  <2> DEFINE none == Filler(0)
  <2>3. none \in Seq(Bytes) /\ Len(none) = 0
    <3>1. 0 \in Nat
      OBVIOUS
    <3> QED BY ONLY <3>1, FillerIs
  <2>4. head = top \o none
    BY ONLY <1>7
  <2> HIDE DEF top, head, none
  <2>5. top \in Seq(Bytes) /\ none \in Seq(Bytes) /\ Len(none) = 0
    BY ONLY <2>2, <2>3
  <2>6. top \o none = top
    BY ONLY <2>5, NothingBehind
  <2>7. head = top
    BY ONLY <2>4, <2>6
  <2> QED BY ONLY <2>1, <2>2, <2>7
<1> HIDE DEF first, head, seqs
<1>9. MadeOf(s, 2, head, 9, seqs, n, st)
  <2>1. st = Starts(seqs) /\ Len(s) < 4096
    BY DEF s, seqs, PmtStarts
  <2>2. 2 \in Bytes /\ head \in Seq(Bytes) /\ seqs \in Seq(Seq(Bytes))
    BY <1>4, <1>8
  <2>3. MadeOf(s, 2, head, Len(head), seqs, Len(seqs), Starts(seqs))
    BY ONLY <1>3, <2>1, <2>2, TableBytes
  <2>4. Len(head) = 9 /\ Len(seqs) = n
    BY <1>4, <1>8
  <2> QED BY ONLY <2>1, <2>3, <2>4
<1>10. Begins(seqs, n, st)
  <2>1. Begins(seqs, Len(seqs), Starts(seqs))
    BY <1>4, FlattenedParts
  <2> QED BY <1>4, <2>1 DEF seqs, PmtStarts
<1> HIDE DEF st
<1>11. /\ st \in [1..(n + 1) -> Nat] /\ st[1] = 0
       /\ \A k \in 1..n : st[k + 1] = st[k] + Len(seqs[k]) /\ st[k + 1] <= st[n + 1]
  BY <1>10 DEF Begins
<1>12. \A k \in 1..n : st[k + 1] = st[k] + (5 + p.es[k].info)
  BY ONLY <1>2, <1>4, <1>11
<1>13. st[n + 1] \in Nat
  <2>1. n + 1 \in 1..(n + 1)
    BY <1>1
  <2> QED BY ONLY <1>11, <2>1
<1>14. /\ s \in Seq(Bytes) /\ s[1] = 2
       /\ (s[2] % 16) * 256 + s[3] = 9 + st[n + 1] + 4
       /\ Len(s) = 9 + st[n + 1] + 7
       /\ Lies(s, 3, head)
       /\ \A k \in 1..n : Lies(s, 3 + 9 + st[k], seqs[k])
  BY <1>9 DEF MadeOf
<1>15. (s[2] % 16) * 256 + s[3] = 13 + st[n + 1] /\ Len(s) = 16 + st[n + 1]
  BY ONLY <1>13, <1>14
<1>16. s[4] * 256 + s[5] = p.pr
  <2>0. Lies(s, 3, head) /\ Len(head) = 9
    BY ONLY <1>8, <1>14
  <2>1. \A i \in 1..9 : s[3 + i] = head[i]
    BY ONLY <2>0 DEF Lies
  <2>2. s[3 + 1] = a /\ s[3 + 2] = b
    BY ONLY <1>8, <2>1
  <2> QED BY ONLY <1>5, <2>2
<1>17. ASSUME NEW k \in 1..n PROVE Lies(s, 12 + st[k], StreamEntry(p.es[k]))
  <2>1. Lies(s, 3 + 9 + st[k], seqs[k]) /\ seqs[k] = StreamEntry(p.es[k])
    BY <1>4, <1>14
  <2>2. 3 + 9 = 12
    OBVIOUS
  <2> QED BY <2>1, <2>2
<1>18. Len(s) < 4096
  BY DEF s
<1>19. \A k \in 1..n : st[k + 1] = st[k] + (5 + p.es[k].info) /\ st[k + 1] <= st[n + 1]
  BY ONLY <1>11, <1>12
<1>20. st \in [1..(n + 1) -> Nat] /\ st[1] = 0
  BY ONLY <1>11
<1>21. s \in Seq(Bytes) /\ s[1] = 2
  BY ONLY <1>14
<1>22. \A k \in 1..n : Lies(s, 12 + st[k], StreamEntry(p.es[k]))
  BY <1>17
<1> QED BY ONLY <1>1, <1>15, <1>16, <1>18, <1>19, <1>20, <1>21, <1>22 DEF s, n, st

\* The entries of the SDT, and where each begins.
SdtEntries(m) == [k \in DOMAIN m.sdt |-> ServiceEntry(m.sdt[k])]
SdtStarts(m) == Starts(SdtEntries(m))

\* The bytes of the SDT.
LEMMA SdtBytes ==
  ASSUME NEW m, HandledSdt(m)
  PROVE  LET s == SdtSection(m)  n == Len(m.sdt)  st == SdtStarts(m) IN
         /\ n \in Nat
         /\ \A k \in 1..n : /\ m.sdt[k] \in Services /\ Len(Descriptors(m.sdt[k])) \in Lengths
                            /\ 3 + m.sdt[k].provider + Len(m.sdt[k].name) \in Bytes
         /\ st \in [1..(n + 1) -> Nat] /\ st[1] = 0
         /\ \A k \in 1..n : st[k + 1] = st[k] + (5 + Len(Descriptors(m.sdt[k]))) /\ st[k + 1] <= st[n + 1]
         /\ s \in Seq(Bytes) /\ s[1] = 66
         /\ (s[2] % 16) * 256 + s[3] = 12 + st[n + 1]
         /\ Len(s) = 15 + st[n + 1] /\ Len(s) < 4096
         /\ \A k \in 1..n : Lies(s, 11 + st[k], ServiceEntry(m.sdt[k]))
<1> DEFINE n == Len(m.sdt)  st == SdtStarts(m)  s == SdtSection(m)  seqs == SdtEntries(m)
           head == <<0, 1, 193, 0, 0, 0, 1, 255>>
<1>0. /\ m.sdt \in Seq(Services) /\ Len(s) < 4096
      /\ \A k \in DOMAIN m.sdt : /\ 3 + m.sdt[k].provider + Len(m.sdt[k].name) \in Bytes
                                 /\ Len(Descriptors(m.sdt[k])) \in Lengths
  BY DEF HandledSdt
<1>1. /\ n \in Nat /\ DOMAIN m.sdt = 1..n
      /\ \A k \in 1..n : /\ m.sdt[k] \in Services /\ Len(Descriptors(m.sdt[k])) \in Lengths
                         /\ 3 + m.sdt[k].provider + Len(m.sdt[k].name) \in Bytes
  BY <1>0
<1>2. \A k \in 1..n : /\ ServiceEntry(m.sdt[k]) \in Seq(Bytes)
                      /\ Len(ServiceEntry(m.sdt[k])) = 5 + Len(Descriptors(m.sdt[k]))
  BY <1>1, ServiceEntryIs, SMTT(20)
<1>3. s = Section(66, head \o FlattenSeq(seqs))
  BY DEF SdtSection, SdtEntries
<1> HIDE DEF n, s
<1>4. seqs \in Seq(Seq(Bytes)) /\ Len(seqs) = n /\ \A k \in 1..n : seqs[k] = ServiceEntry(m.sdt[k])
  BY <1>1, <1>2 DEF SdtEntries
<1>5. head \in Seq(Bytes) /\ Len(head) = 8 /\ 66 \in Bytes
  BY DEF Bytes
<1> HIDE DEF head, seqs
<1>9. MadeOf(s, 66, head, 8, seqs, n, st)
  <2>1. st = Starts(seqs)
    BY DEF seqs, SdtStarts
  <2>2. MadeOf(s, 66, head, Len(head), seqs, Len(seqs), Starts(seqs))
    <3>1. 66 \in Bytes /\ head \in Seq(Bytes) /\ seqs \in Seq(Seq(Bytes)) /\ Len(s) < 4096
      <4>1. Len(s) < 4096
        BY <1>0
      <4> QED BY ONLY <1>4, <1>5, <4>1
    <3> QED BY ONLY <1>3, <3>1, TableBytes
  <2>4. Len(head) = 8 /\ Len(seqs) = n
    BY <1>4, <1>5
  <2> QED BY ONLY <2>1, <2>2, <2>4
<1>10. Begins(seqs, n, st)
  <2>1. Begins(seqs, Len(seqs), Starts(seqs))
    BY <1>4, FlattenedParts
  <2> QED BY <1>4, <2>1 DEF seqs, SdtStarts
<1> HIDE DEF st
<1>11. /\ st \in [1..(n + 1) -> Nat] /\ st[1] = 0
       /\ \A k \in 1..n : st[k + 1] = st[k] + Len(seqs[k]) /\ st[k + 1] <= st[n + 1]
  BY <1>10 DEF Begins
<1>12. \A k \in 1..n : st[k + 1] = st[k] + (5 + Len(Descriptors(m.sdt[k])))
  BY ONLY <1>2, <1>4, <1>11
<1>13. st[n + 1] \in Nat
  <2>1. n + 1 \in 1..(n + 1)
    BY <1>1
  <2> QED BY ONLY <1>11, <2>1
<1>14. /\ s \in Seq(Bytes) /\ s[1] = 66
       /\ (s[2] % 16) * 256 + s[3] = 8 + st[n + 1] + 4
       /\ Len(s) = 8 + st[n + 1] + 7
       /\ \A k \in 1..n : Lies(s, 3 + 8 + st[k], seqs[k])
  BY <1>9 DEF MadeOf
<1>15. (s[2] % 16) * 256 + s[3] = 12 + st[n + 1] /\ Len(s) = 15 + st[n + 1]
  BY ONLY <1>13, <1>14
<1>17. ASSUME NEW k \in 1..n PROVE Lies(s, 11 + st[k], ServiceEntry(m.sdt[k]))
  <2>1. Lies(s, 3 + 8 + st[k], seqs[k]) /\ seqs[k] = ServiceEntry(m.sdt[k])
    BY <1>4, <1>14
  <2>2. 3 + 8 = 11
    OBVIOUS
  <2> QED BY <2>1, <2>2
<1>18. Len(s) < 4096
  BY ONLY <1>0 DEF s
<1>19. \A k \in 1..n : st[k + 1] = st[k] + (5 + Len(Descriptors(m.sdt[k]))) /\ st[k + 1] <= st[n + 1]
  BY ONLY <1>11, <1>12
<1>20. /\ n \in Nat
       /\ \A k \in 1..n : /\ m.sdt[k] \in Services /\ Len(Descriptors(m.sdt[k])) \in Lengths
                          /\ 3 + m.sdt[k].provider + Len(m.sdt[k].name) \in Bytes
  BY ONLY <1>1
<1>21. st \in [1..(n + 1) -> Nat] /\ st[1] = 0
  BY ONLY <1>11
<1>22. s \in Seq(Bytes) /\ s[1] = 66
  BY ONLY <1>14
<1>23. \A k \in 1..n : Lies(s, 11 + st[k], ServiceEntry(m.sdt[k]))
  BY <1>17
<1> QED BY ONLY <1>15, <1>18, <1>19, <1>20, <1>21, <1>22, <1>23 DEF s, n, st

-----------------------------------------------------------------------------
(* What the tables should say, one entry at a time.                        *)

\* The entry of the network is z.
Places(pat, z) ==
  /\ z \in 1..Len(pat) /\ pat[z].pr = 0
  /\ \A k \in 1..Len(pat) : k # z => pat[k].pr >= 256
  /\ \A k \in 0..Len(pat) : Place(pat, k) = IF k < z THEN k ELSE k - 1

\* The programs keep their order around the network's entry.
LEMMA PlaceIs ==
  ASSUME NEW pat, HandledPat(pat) PROVE \E z : Places(pat, z)
<1> DEFINE N == Len(pat)
<1>0. pat \in Seq(ProgramEntries) /\ N \in Nat /\ DOMAIN pat = 1..N
  <2>1. pat \in Seq(ProgramEntries)
    BY DEF HandledPat
  <2> QED BY ONLY <2>1
<1>1. PICK z \in 1..N : pat[z].pr = 0 /\ \A k \in 1..N : k # z => pat[k].pr >= 256
  <2>1. \E z \in DOMAIN pat : pat[z].pr = 0 /\ \A k \in DOMAIN pat \ {z} : pat[k].pr >= 256
    BY DEF HandledPat
  <2>2. DOMAIN pat = 1..N
    BY <1>0
  <2> HIDE DEF N
  <2> QED BY ONLY <2>1, <2>2
<1>2. ASSUME NEW k \in 0..N PROVE Place(pat, k) = IF k < z THEN k ELSE k - 1
  <2> DEFINE I == {i \in 1..k : pat[i].pr # 0}
  <2>0. k \in Nat /\ z \in Nat /\ z >= 1 /\ 1 <= k + 1
    BY <1>0
  <2>1. IsFiniteSet(1..k) /\ Cardinality(1..k) = k
    <3>1. /\ IsFiniteSet(1..k)
          /\ Cardinality(1..k) = (IF 1 > k THEN 0 ELSE k - 1 + 1)
      BY <2>0, FS_Interval
    <3> QED BY <2>0, <3>1
  <2>2. CASE k < z
    <3>1. \A i \in 1..k : pat[i].pr # 0
      <4>1. \A i \in 1..k : i \in 1..N /\ i # z
        BY <1>0, <2>0, <2>2
      <4>2. \A i \in 1..N : i # z => pat[i].pr # 0
        <5>1. \A x : x >= 256 => x # 0
          OBVIOUS
        <5> QED BY ONLY <1>1, <5>1
      <4> QED BY ONLY <4>1, <4>2
    <3>2. I = 1..k
      BY <3>1
    <3> QED BY <2>1, <2>2, <3>2 DEF Place
  <2>3. CASE ~(k < z)
    <3>1. z \in 1..k
      BY <2>0, <2>3
    <3>2. \A i \in 1..k : i # z => pat[i].pr # 0
      <4>1. \A i \in 1..k : i \in 1..N
        BY <1>0, <2>0
      <4>2. \A i \in 1..N : i # z => pat[i].pr # 0
        <5>1. \A x : x >= 256 => x # 0
          OBVIOUS
        <5> QED BY ONLY <1>1, <5>1
      <4> QED BY ONLY <4>1, <4>2
    <3>3. I = (1..k) \ {z}
      BY <1>1, <3>1, <3>2
    <3>4. Cardinality((1..k) \ {z}) = k - 1
      BY <2>1, <3>1, FS_RemoveElement
    <3> QED BY <2>3, <3>3, <3>4 DEF Place
  <2> QED BY <2>2, <2>3
<1> QED BY <1>1, <1>2 DEF Places

\* What follows from where the network is.
LEMMA PlacesGrow ==
  ASSUME NEW pat, HandledPat(pat)
  PROVE  /\ Len(pat) \in 1..256 /\ Place(pat, 0) = 0 /\ Place(pat, Len(pat)) = Len(pat) - 1
         /\ \A k \in 1..Len(pat) :
              /\ pat[k].pr # 0 <=> pat[k].pr >= 256
              /\ Place(pat, k - 1) \in 0..Len(pat) - 1
              /\ Place(pat, k) = (IF pat[k].pr # 0 THEN Place(pat, k - 1) + 1 ELSE Place(pat, k - 1))
              /\ pat[k].pr # 0 => Place(pat, k) \in 1..Len(pat) - 1
              /\ \A l \in 1..k - 1 : pat[k].pr # 0 /\ pat[l].pr # 0 => Place(pat, l) < Place(pat, k)
         /\ \A j \in 1..Len(pat) - 1 : \E k \in 1..Len(pat) : pat[k].pr # 0 /\ Place(pat, k) = j
<1> DEFINE N == Len(pat)
<1>0. N \in 1..256 /\ N \in Nat
  BY DEF HandledPat
<1>1. PICK z : Places(pat, z)
  BY PlaceIs
<1>2. /\ z \in 1..N /\ pat[z].pr = 0
      /\ \A k \in 1..N : k # z => pat[k].pr >= 256
      /\ \A k \in 0..N : Place(pat, k) = IF k < z THEN k ELSE k - 1
  BY <1>1 DEF Places
<1>3. \A k \in 1..N : /\ pat[k].pr # 0 <=> k # z
                      /\ pat[k].pr # 0 <=> pat[k].pr >= 256
  <2>1. (\A x : x >= 256 => x # 0) /\ ~(0 >= 256)
    OBVIOUS
  <2> QED BY ONLY <1>2, <2>1
<1> HIDE DEF N
<1>4. Place(pat, 0) = 0 /\ Place(pat, N) = N - 1
  BY <1>0, <1>2
<1>5. ASSUME NEW k \in 1..N
      PROVE  /\ Place(pat, k - 1) \in 0..N - 1
             /\ Place(pat, k) = (IF pat[k].pr # 0 THEN Place(pat, k - 1) + 1 ELSE Place(pat, k - 1))
             /\ pat[k].pr # 0 => Place(pat, k) \in 1..N - 1
             /\ \A l \in 1..k - 1 : pat[k].pr # 0 /\ pat[l].pr # 0 => Place(pat, l) < Place(pat, k)
  <2>1. k \in 0..N /\ k - 1 \in 0..N /\ k \in Nat /\ z \in Nat /\ z >= 1 /\ z <= N /\ k <= N /\ k >= 1
    BY <1>0, <1>2
  <2>2. /\ Place(pat, k) = IF k < z THEN k ELSE k - 1
        /\ Place(pat, k - 1) = IF k - 1 < z THEN k - 1 ELSE k - 2
    BY <1>2, <2>1
  <2>3. pat[k].pr # 0 <=> k # z
    BY <1>3
  <2>4. Place(pat, k - 1) \in 0..N - 1
    BY <1>0, <2>1, <2>2
  <2>5. Place(pat, k) = (IF pat[k].pr # 0 THEN Place(pat, k - 1) + 1 ELSE Place(pat, k - 1))
    BY <1>0, <2>1, <2>2, <2>3
  <2>6. pat[k].pr # 0 => Place(pat, k) \in 1..N - 1
    BY <1>0, <2>1, <2>2, <2>3
  <2>7. ASSUME NEW l \in 1..k - 1, pat[k].pr # 0, pat[l].pr # 0 PROVE Place(pat, l) < Place(pat, k)
    <3>1. l \in 1..N /\ l \in 0..N /\ l \in Nat /\ l < k
      BY <1>0, <2>1
    <3>2. Place(pat, l) = (IF l < z THEN l ELSE l - 1) /\ l # z
      BY <1>2, <1>3, <2>7, <3>1
    <3> QED BY <1>0, <2>1, <2>2, <2>3, <2>7, <3>1, <3>2
  <2> QED BY <2>4, <2>5, <2>6, <2>7
<1>6. ASSUME NEW j \in 1..N - 1 PROVE \E k \in 1..N : pat[k].pr # 0 /\ Place(pat, k) = j
  <2>1. j \in Nat /\ j >= 1 /\ j < N /\ z \in Nat
    BY <1>0, <1>2
  <2>2. CASE j < z
    <3>1. j \in 1..N /\ j \in 0..N /\ j # z
      BY <1>0, <2>1, <2>2
    <3>2. Place(pat, j) = j
      BY <1>2, <2>2, <3>1
    <3> QED BY <1>3, <3>1, <3>2
  <2>3. CASE ~(j < z)
    <3>1. j + 1 \in 1..N /\ j + 1 \in 0..N /\ j + 1 # z /\ ~(j + 1 < z)
      BY <1>0, <2>1, <2>3
    <3>2. Place(pat, j + 1) = (j + 1) - 1
      BY <1>2, <3>1
    <3> QED BY <1>3, <2>1, <3>1, <3>2
  <2> QED BY <2>2, <2>3
<1> QED BY <1>0, <1>3, <1>4, <1>5, <1>6 DEF N

\* The first stream of a kind among one stream more.
LEMMA FirstPidGrows ==
  ASSUME NEW es, NEW e \in Nat \ {0}, NEW types, \A k \in 1..e : es[k].pid # NoPid
  PROVE  FirstPid(es, e, types) =
           IF es[e].type \in types /\ FirstPid(es, e - 1, types) = NoPid THEN es[e].pid
           ELSE FirstPid(es, e - 1, types)
<1> DEFINE A == {k \in 1..e - 1 : es[k].type \in types}
           B == {k \in 1..e : es[k].type \in types}
<1>1. B = IF es[e].type \in types THEN A \cup {e} ELSE A
  OBVIOUS
<1>2. A \subseteq Nat /\ A \subseteq 1..e /\ B \subseteq Nat /\ \A k \in A : k < e
  OBVIOUS
<1>3. /\ FirstPid(es, e - 1, types) = IF A = {} THEN NoPid ELSE es[Min(A)].pid
      /\ FirstPid(es, e, types) = IF B = {} THEN NoPid ELSE es[Min(B)].pid
  BY DEF FirstPid
<1> HIDE DEF A, B
<1>4. CASE es[e].type \notin types
  BY <1>1, <1>3, <1>4
<1>5. CASE es[e].type \in types /\ A = {}
  <2>1. B = {e}
    BY <1>1, <1>5
  <2>2. Min(B) = e
    BY <1>2, <2>1, MinIs
  <2> QED BY <1>3, <1>5, <2>1, <2>2
<1>6. CASE es[e].type \in types /\ A # {}
  <2>1. Min(A) \in A /\ (\A k \in A : Min(A) <= k) /\ Min(B) \in B /\ \A k \in B : Min(B) <= k
    BY <1>1, <1>2, <1>6, MinIs
  <2>2. Min(B) = Min(A)
    <3>1. Min(A) \in Nat /\ Min(B) \in Nat /\ Min(A) < e /\ Min(A) \in B
      BY <1>1, <1>2, <1>6, <2>1
    <3>2. Min(B) <= Min(A)
      BY <2>1, <3>1
    <3>3. Min(B) \in A
      BY <1>1, <1>6, <2>1, <3>1, <3>2
    <3>4. Min(A) <= Min(B)
      BY <2>1, <3>3
    <3> QED BY <3>1, <3>2, <3>4
  <2>3. es[Min(A)].pid # NoPid /\ B # {}
    BY <1>2, <2>1
  <2> QED BY <1>3, <1>6, <2>2, <2>3
<1> QED BY <1>4, <1>5, <1>6

\* Among no streams there is none.
LEMMA FirstPidStarts ==
  ASSUME NEW es, NEW types PROVE FirstPid(es, 0, types) = NoPid /\ HasTeletext(es, 0) = 0
<1>1. 1..0 = {}
  OBVIOUS
<1> QED BY <1>1 DEF FirstPid, HasTeletext

\* Teletext among one stream more.
LEMMA HasTeletextGrows ==
  ASSUME NEW es, NEW e \in Nat \ {0}
  PROVE  HasTeletext(es, e) = IF es[e].type = 6 THEN 1 ELSE HasTeletext(es, e - 1)
<1>1. 1..e = (1..e - 1) \cup {e}
  OBVIOUS
<1> QED BY <1>1 DEF HasTeletext

-----------------------------------------------------------------------------
(* The invariant of the parsers.                                           *)

\* What the memory of a program holds.
PmtRecords == [pr_num : Nat, table_id : Nat, video_pid : Nat \cup {NoPid},
               audio_pid : Nat \cup {NoPid}, has_teletext : {0, 1}]

\* A parser that has not strayed.
AtTypes == [pc : {"idle", "parse_PAT", "PAT", "find_PMT", "parse_PMT", "PMT", "parse_SDT", "SDT"},
            i : Nat, j : Nat, sl : Words, pos : Nat]

\* Well-formed memory.
ParserTypes ==
  /\ mux \in Multiplexes
  /\ section \in Seq(Bytes)
  /\ at \in AtTypes
  /\ PAT \in [pmt_count : Bytes, pmts : Seq(PmtRecords)]
  /\ Len(PAT.pmts) = PAT.pmt_count
  /\ parsed \in [PAT : BOOLEAN, SDT : BOOLEAN, PMT : SUBSET Nat]

\* The tables are parsed in this order.
InOrder ==
  /\ parsed.PMT # {} => parsed.SDT
  /\ parsed.SDT => parsed.PAT
  /\ at.pc \in {"parse_PAT", "PAT"} => ~parsed.PAT
  /\ at.pc \in {"parse_SDT", "SDT"} => parsed.PAT /\ ~parsed.SDT
  /\ at.pc \in {"find_PMT", "parse_PMT", "PMT"} => parsed.SDT

\* The programs among the first n entries of the PAT are in the list.
Listed(n) ==
  \A k \in 1..n : mux.pat[k].pr # 0 =>
    /\ PAT.pmts[Place(mux.pat, k)].pr_num = mux.pat[k].pr
    /\ PAT.pmts[Place(mux.pat, k)].table_id = mux.pat[k].pid

\* Once it is parsed, the PAT lists all programs.
ProgramsListed == parsed.PAT => PAT.pmt_count = Len(mux.pat) - 1 /\ Listed(Len(mux.pat))

\* The first n services are in the list.
Named(n) ==
  \A k \in 1..n : /\ SDT[k].service_id = mux.sdt[k].id
                  /\ SDT[k].service_name = mux.sdt[k].name

\* Once it is parsed, the SDT lists all services.
ServicesListed == parsed.SDT => DOMAIN SDT = 1..Len(mux.sdt) /\ Named(Len(mux.sdt))

\* The program p has what the first n streams give it.
Shows(p, es, n) ==
  /\ p.video_pid = FirstPid(es, n, {1, 2})
  /\ p.audio_pid = FirstPid(es, n, {3, 4})
  /\ p.has_teletext = HasTeletext(es, n)

\* All but the one whose PMT is being parsed.
ProgramsShown ==
  \A k \in DOMAIN PAT.pmts, n \in DOMAIN mux.pmts :
    /\ mux.pmts[n].pr = PAT.pmts[k].pr_num /\ mux.pmts[n].pr \in parsed.PMT
    /\ ~(at.pc = "PMT" /\ k = at.j + 1)
    => Shows(PAT.pmts[k], mux.pmts[n].es, Len(mux.pmts[n].es))

\* While the PAT is parsed, the programs of the entries that were read are listed.
InPat ==
  /\ at.pc \in {"parse_PAT", "PAT"} => section = PatSection(mux)
  /\ at.pc = "parse_PAT" => at.i = 0 /\ at.j = 0
  /\ at.pc = "PAT" => /\ at.i \in 0..Len(mux.pat) /\ at.j = Place(mux.pat, at.i)
                      /\ PAT.pmt_count = Len(mux.pat) - 1 /\ Listed(at.i)

\* st says where the entries of the section begin; entry e is next.
AtEntry(st, n, e, first) == at.pos = first + st[e] /\ at.sl = st[n + 1] - st[e]

\* While the SDT is parsed, the services of the entries that were read are named.
InSdt ==
  /\ at.pc \in {"parse_SDT", "SDT"} => section = SdtSection(mux)
  /\ at.pc = "parse_SDT" => at.j = 0
  /\ at.pc = "SDT" => /\ at.j \in 0..Len(mux.sdt) /\ AtEntry(SdtStarts(mux), Len(mux.sdt), at.j + 1, 11)
                      /\ DOMAIN SDT = 1..Len(mux.sdt) /\ Named(at.j)

\* The section is the PMT p, and its program has been found or will be.
InPmtOf(p) ==
  /\ section = PmtSection(p)
  /\ at.pc = "find_PMT" => \A k \in DOMAIN PAT.pmts : k <= at.j => PAT.pmts[k].pr_num # p.pr
  /\ at.pc # "find_PMT" => at.j + 1 \in DOMAIN PAT.pmts /\ PAT.pmts[at.j + 1].pr_num = p.pr
  /\ at.pc = "PMT" =>
       \E e \in 1..(Len(p.es) + 1) : /\ AtEntry(PmtStarts(p), Len(p.es), e, 12)
                                     /\ Shows(PAT.pmts[at.j + 1], p.es, e - 1)

\* A PMT is parsed for one of the programs of the multiplex.
InPmt ==
  at.pc \in {"find_PMT", "parse_PMT", "PMT"} => \E n \in DOMAIN mux.pmts : InPmtOf(mux.pmts[n])

\* The inductive invariant.
TableInv ==
  /\ ParserTypes /\ InOrder /\ ProgramsListed /\ ServicesListed /\ ProgramsShown
  /\ InPat /\ InSdt /\ InPmt

-----------------------------------------------------------------------------
(* What the parsers read.                                                  *)

\* A byte of what lies in the section.
LEMMA Reads ==
  ASSUME section \in Seq(Bytes), NEW t \in Seq(Bytes), NEW o \in Nat, Lies(section, o, t),
         NEW i \in Nat, i + 1 <= Len(t)
  PROVE  InSection(o + i) /\ Byte(o + i) = t[i + 1]
<1>1. Len(section) \in Nat /\ DOMAIN section = 1..Len(section) /\ Len(t) \in Nat
  OBVIOUS
<1>2. section[o + (i + 1)] = t[i + 1] /\ o + Len(t) <= Len(section)
  BY <1>1 DEF Lies
<1>3. o + (i + 1) = (o + i) + 1
  OBVIOUS
<1>4. (o + i) + 1 \in 1..Len(section)
  BY <1>1, <1>2
<1> QED BY <1>1, <1>2, <1>3, <1>4 DEF InSection, Byte

\* And two bytes of it.
LEMMA ReadsWord ==
  ASSUME section \in Seq(Bytes), NEW t \in Seq(Bytes), NEW o \in Nat, Lies(section, o, t),
         NEW i \in Nat, i + 2 <= Len(t)
  PROVE  InSection(o + i) /\ InSection(o + i + 1) /\ Word(o + i) = t[i + 1] * 256 + t[i + 2]
<1>1. Len(t) \in Nat
  OBVIOUS
<1>2. InSection(o + i) /\ Byte(o + i) = t[i + 1]
  BY <1>1, Reads
<1>3. i + 1 \in Nat /\ (i + 1) + 1 <= Len(t) /\ (i + 1) + 1 = i + 2 /\ o + (i + 1) = (o + i) + 1
  BY <1>1
<1>4. InSection(o + (i + 1)) /\ Byte(o + (i + 1)) = t[(i + 1) + 1]
  BY <1>3, Reads
<1>5. InSection((o + i) + 1) /\ Byte((o + i) + 1) = t[i + 2]
  BY ONLY <1>3, <1>4
<1> QED BY ONLY <1>2, <1>5 DEF Word

\* The same as predicates: what is read i bytes behind o is what t has there.
ByteAt(o, i, t) == InSection(o + i) /\ Byte(o + i) = t[i + 1]
WordAt(o, i, t) == InSection(o + i + 1) /\ Word(o + i) = t[i + 1] * 256 + t[i + 2]
Holds(o, t) == section \in Seq(Bytes) /\ t \in Seq(Bytes) /\ o \in Nat /\ Lies(section, o, t)

\* Whatever of t is read, is in the section.
LEMMA ReadsAt ==
  ASSUME NEW t, NEW o, Holds(o, t), NEW i \in Nat
  PROVE  /\ i + 1 <= Len(t) => ByteAt(o, i, t)
         /\ i + 2 <= Len(t) => WordAt(o, i, t)
<1>1. section \in Seq(Bytes) /\ t \in Seq(Bytes) /\ o \in Nat /\ Lies(section, o, t)
  BY DEF Holds
<1>2. ASSUME i + 1 <= Len(t) PROVE InSection(o + i) /\ Byte(o + i) = t[i + 1]
  BY ONLY <1>1, <1>2, i \in Nat, Reads
<1>3. ASSUME i + 2 <= Len(t) PROVE InSection(o + i + 1) /\ Word(o + i) = t[i + 1] * 256 + t[i + 2]
  BY ONLY <1>1, <1>3, i \in Nat, ReadsWord
<1> QED BY ONLY <1>2, <1>3 DEF ByteAt, WordAt

\* What parse_PAT reads of entry i is what the broadcaster wrote.
LEMMA PatReads ==
  ASSUME NEW m, HandledPat(m.pat), section = PatSection(m), NEW i \in 0..Len(m.pat) - 1
  PROVE  LET pos == 8 + i * 4  e == m.pat[i + 1] IN
         /\ InSection(pos + 3) /\ (Byte(pos) # 0 <=> e.pr # 0)
         /\ Word(pos) = e.pr /\ Word(pos + 2) % 8192 = e.pid
         /\ e.pr \in Nat /\ e.pid \in Nat
<1> DEFINE pos == 8 + i * 4  e == m.pat[i + 1]  t == ProgramEntry(e)  N == Len(m.pat)
<1>1. /\ N \in 1..256 /\ section \in Seq(Bytes)
      /\ \A k \in 1..N : m.pat[k] \in ProgramEntries /\ Lies(section, 8 + 4 * (k - 1), ProgramEntry(m.pat[k]))
  BY PatBytes
<1>2. i \in Nat /\ i + 1 \in 1..N /\ 8 + 4 * ((i + 1) - 1) = pos /\ pos \in Nat
  BY <1>1
<1>3. e \in ProgramEntries /\ Lies(section, pos, t)
  BY <1>1, <1>2
<1>4. e.pr # 0 <=> e.pr >= 256
  BY <1>2, PlacesGrow
<1> HIDE DEF pos, e, t, N
<1>5. /\ t \in Seq(Bytes) /\ Len(t) = 4
      /\ t[1] * 256 + t[2] = e.pr /\ (t[3] * 256 + t[4]) % 8192 = e.pid
      /\ t[1] # 0 <=> e.pr >= 256
  BY <1>3, ProgramEntryIs DEF t
<1>20. Holds(pos, t)
  BY ONLY <1>1, <1>2, <1>3, <1>5 DEF Holds
<1>6. ByteAt(pos, 0, t) /\ WordAt(pos, 0, t) /\ WordAt(pos, 2, t)
  <2>1. 0 \in Nat /\ 2 \in Nat /\ 0 + 1 <= Len(t) /\ 0 + 2 <= Len(t) /\ 2 + 2 <= Len(t)
    BY ONLY <1>5
  <2> QED BY ONLY <1>20, <2>1, ReadsAt
<1>7. /\ Byte(pos + 0) = t[0 + 1] /\ Word(pos + 0) = t[0 + 1] * 256 + t[0 + 2]
      /\ InSection(pos + 2 + 1) /\ Word(pos + 2) = t[2 + 1] * 256 + t[2 + 2]
  BY ONLY <1>6 DEF ByteAt, WordAt
<1>8. Byte(pos) = t[1] /\ Word(pos) = t[1] * 256 + t[2] /\ pos + 2 + 1 = pos + 3
      /\ Word(pos + 2) = t[3] * 256 + t[4]
  BY ONLY <1>2, <1>7
<1>9. e.pr \in Nat /\ e.pid \in Nat
  <2>1. e.pr \in Words /\ e.pid \in Pids
    BY <1>3 DEF ProgramEntries
  <2> QED BY ONLY <2>1, WordIs, PidIs
<1>10. InSection(pos + 3)
  BY ONLY <1>7, <1>8
<1> QED BY <1>4, <1>5, <1>8, <1>9, <1>10, SMTT(20) DEF pos, e

\* What parse_PMT reads of stream k is what the broadcaster wrote.
LEMMA PmtReads ==
  ASSUME NEW p \in Pmts, Len(PmtSection(p)) < 4096, section = PmtSection(p), NEW k \in 1..Len(p.es)
  PROVE  LET pos == 12 + PmtStarts(p)[k]  e == p.es[k] IN
         /\ InSection(pos + 4) /\ Byte(pos) = e.type
         /\ Word(pos + 1) % 8192 = e.pid /\ Word(pos + 3) % 4096 = e.info
         /\ e.type \in Nat /\ e.pid \in Pids /\ e.info \in Nat
<1> DEFINE st == PmtStarts(p)  pos == 12 + st[k]  e == p.es[k]  t == StreamEntry(e)
<1>1. /\ st \in [1..(Len(p.es) + 1) -> Nat] /\ section \in Seq(Bytes) /\ Len(p.es) \in Nat
      /\ e \in StreamEntries /\ Lies(section, 12 + st[k], t)
  BY PmtBytes
<1>2. pos \in Nat /\ Lies(section, pos, t) /\ section \in Seq(Bytes)
  <2>1. k \in 1..(Len(p.es) + 1)
    BY <1>1
  <2>2. st[k] \in Nat
    BY <1>1, <2>1
  <2> QED BY <1>1, <2>2
<1> HIDE DEF pos, e, t
<1>3. e.type \in Bytes /\ e.pid \in Pids /\ e.info \in Lengths
  BY <1>1 DEF StreamEntries
<1>4. e.type \in Nat /\ e.info \in Nat
  BY ONLY <1>3, ByteIs, LengthIs
<1>5. /\ t \in Seq(Bytes) /\ Len(t) = 5 + e.info
      /\ t[1] = e.type /\ (t[2] * 256 + t[3]) % 8192 = e.pid
      /\ (t[4] * 256 + t[5]) % 4096 = e.info
  BY <1>1, StreamEntryIs DEF t
<1>6. 0 \in Nat /\ 0 + 1 <= Len(t) /\ 1 \in Nat /\ 1 + 2 <= Len(t) /\ 3 \in Nat /\ 3 + 2 <= Len(t)
  <2>1. Len(t) = 5 + e.info /\ e.info \in Nat
    BY ONLY <1>4, <1>5
  <2> QED BY ONLY <2>1
<1>7. Holds(pos, t)
  BY ONLY <1>2, <1>5 DEF Holds
<1>8. ByteAt(pos, 0, t) /\ WordAt(pos, 1, t) /\ WordAt(pos, 3, t)
  BY ONLY <1>6, <1>7, ReadsAt
<1>9. /\ Byte(pos + 0) = t[0 + 1] /\ Word(pos + 1) = t[1 + 1] * 256 + t[1 + 2]
      /\ InSection(pos + 3 + 1) /\ Word(pos + 3) = t[3 + 1] * 256 + t[3 + 2]
  BY ONLY <1>8 DEF ByteAt, WordAt
<1>10. Byte(pos) = t[1] /\ Word(pos + 1) = t[2] * 256 + t[3] /\ pos + 3 + 1 = pos + 4
       /\ Word(pos + 3) = t[4] * 256 + t[5]
  BY ONLY <1>2, <1>9
<1>11. InSection(pos + 4)
  BY ONLY <1>9, <1>10
<1> QED BY <1>3, <1>4, <1>5, <1>10, <1>11 DEF pos, e

\* The fixed parts of a service entry are in it.
LEMMA ServiceFits ==
  ASSUME NEW p \in Nat, NEW n \in Nat, NEW l \in Nat, 10 + p + n <= l
  PROVE  /\ 0 \in Nat /\ 0 + 2 <= l /\ 3 \in Nat /\ 3 + 2 <= l /\ 7 \in Nat /\ 7 + 1 <= l
         /\ 8 \in Nat /\ 8 + 1 <= l /\ 9 + p \in Nat /\ (9 + p) + 1 <= l
  OBVIOUS

\* The byte q of a name of n bytes, behind p bytes of its service's provider.
NameFits(p, n, l, q, pos, name) ==
  /\ (9 + p) + q \in Nat /\ ((9 + p) + q) + 1 <= l /\ ((9 + p) + q) + 1 = (10 + p) + q
  /\ pos + ((9 + p) + q) = name + q - 1

\* And so is its name.
LEMMA NameDoesFit ==
  ASSUME NEW p \in Nat, NEW n \in Nat, NEW l \in Nat, 10 + p + n <= l,
         NEW q \in Nat, q <= n, NEW pos \in Nat, NEW name, name = pos + 10 + p
  PROVE  NameFits(p, n, l, q, pos, name)
  BY DEF NameFits

\* What parse_SDT reads of service k, behind its provider's name, is what the broadcaster wrote.
LEMMA SdtReads ==
  ASSUME NEW m, HandledSdt(m), section = SdtSection(m), NEW k \in 1..Len(m.sdt)
  PROVE  LET pos == 11 + SdtStarts(m)[k]  e == m.sdt[k]  name == NameAt(pos) IN
         /\ InSection(pos + 8) /\ InSection(name - 1) /\ InSection(name + Byte(name - 1) - 1)
         /\ Word(pos) = e.id /\ Word(pos + 3) % 4096 = Len(Descriptors(e)) /\ Byte(pos + 7) = e.type
         /\ [q \in 1..Byte(name - 1) |-> Byte(name + q - 1)] = e.name
<1> DEFINE st == SdtStarts(m)  pos == 11 + st[k]  e == m.sdt[k]  t == ServiceEntry(e)
           name == NameAt(pos)  pv == e.provider
<1>1. /\ st \in [1..(Len(m.sdt) + 1) -> Nat] /\ section \in Seq(Bytes) /\ Len(m.sdt) \in Nat
      /\ e \in Services /\ Len(Descriptors(e)) \in Lengths /\ 3 + e.provider + Len(e.name) \in Bytes
      /\ Lies(section, 11 + st[k], t)
  <2>1. /\ st \in [1..(Len(m.sdt) + 1) -> Nat] /\ section \in Seq(Bytes) /\ Len(m.sdt) \in Nat
        /\ \A l \in 1..Len(m.sdt) : Lies(section, 11 + st[l], ServiceEntry(m.sdt[l]))
    BY SdtBytes
  <2>2. \A l \in 1..Len(m.sdt) : /\ m.sdt[l] \in Services /\ Len(Descriptors(m.sdt[l])) \in Lengths
                                /\ 3 + m.sdt[l].provider + Len(m.sdt[l].name) \in Bytes
    <3>1. m.sdt \in Seq(Services)
      BY DEF HandledSdt
    <3>2. DOMAIN m.sdt = 1..Len(m.sdt) /\ \A l \in 1..Len(m.sdt) : m.sdt[l] \in Services
      BY ONLY <3>1
    <3>3. \A l \in DOMAIN m.sdt : /\ 3 + m.sdt[l].provider + Len(m.sdt[l].name) \in Bytes
                                  /\ Len(Descriptors(m.sdt[l])) \in Lengths
      BY DEF HandledSdt
    <3> QED BY ONLY <3>2, <3>3
  <2> QED BY <2>1, <2>2
<1>2. pos \in Nat /\ Lies(section, pos, t) /\ section \in Seq(Bytes)
  <2>1. k \in 1..(Len(m.sdt) + 1)
    BY <1>1
  <2>2. st[k] \in Nat
    BY <1>1, <2>1
  <2> QED BY <1>1, <2>2
<1> HIDE DEF pos, e, t
<1>3. e.name \in Seq(Bytes) /\ pv \in Bytes
  BY <1>1 DEF Services
<1>4. pv \in Nat /\ Len(e.name) \in Nat
  BY ONLY <1>3, ByteIs
<1>5. /\ t \in Seq(Bytes) /\ 10 + pv + Len(e.name) <= Len(t)
      /\ t[1] * 256 + t[2] = e.id /\ (t[4] * 256 + t[5]) % 4096 = Len(Descriptors(e))
      /\ t[8] = e.type /\ t[9] = pv /\ t[10 + pv] = Len(e.name) /\ Lies(t, 10 + pv, e.name)
  BY <1>1, ServiceEntryIs DEF t
<1> HIDE DEF pv, name
<1>6. /\ 0 \in Nat /\ 0 + 2 <= Len(t) /\ 3 \in Nat /\ 3 + 2 <= Len(t) /\ 7 \in Nat /\ 7 + 1 <= Len(t)
      /\ 8 \in Nat /\ 8 + 1 <= Len(t) /\ 9 + pv \in Nat /\ (9 + pv) + 1 <= Len(t)
  <2>1. Len(t) \in Nat
    BY <1>5
  <2>2. 10 + pv + Len(e.name) <= Len(t)
    BY ONLY <1>5
  <2> QED BY ONLY <1>4, <2>1, <2>2, ServiceFits
<1>7. Holds(pos, t)
  BY ONLY <1>2, <1>5 DEF Holds
<1>8. WordAt(pos, 0, t) /\ WordAt(pos, 3, t) /\ ByteAt(pos, 7, t) /\ ByteAt(pos, 8, t)
      /\ ByteAt(pos, 9 + pv, t)
  BY ONLY <1>6, <1>7, ReadsAt
<1>9. /\ Word(pos + 0) = t[0 + 1] * 256 + t[0 + 2] /\ Word(pos + 3) = t[3 + 1] * 256 + t[3 + 2]
      /\ Byte(pos + 7) = t[7 + 1]
  BY ONLY <1>8 DEF ByteAt, WordAt
<1>10. InSection(pos + 8) /\ Byte(pos + 8) = t[8 + 1]
  BY ONLY <1>8 DEF ByteAt
<1>11. InSection(pos + (9 + pv)) /\ Byte(pos + (9 + pv)) = t[(9 + pv) + 1]
  BY ONLY <1>8 DEF ByteAt
<1>12. Word(pos) = e.id /\ Word(pos + 3) % 4096 = Len(Descriptors(e)) /\ Byte(pos + 7) = e.type
  <2>1. t[1] * 256 + t[2] = e.id /\ (t[4] * 256 + t[5]) % 4096 = Len(Descriptors(e)) /\ t[8] = e.type
    BY ONLY <1>5
  <2> QED BY ONLY <1>2, <1>9, <2>1
<1>13. name = pos + 10 + pv
  BY ONLY <1>5, <1>10 DEF name, NameAt
<1>14. name - 1 = pos + (9 + pv) /\ (9 + pv) + 1 = 10 + pv
  BY ONLY <1>2, <1>4, <1>13
<1>15. InSection(name - 1) /\ Byte(name - 1) = Len(e.name)
  BY ONLY <1>5, <1>11, <1>14
<1>16. ASSUME NEW q \in 1..Len(e.name) PROVE Byte(name + q - 1) = e.name[q] /\ InSection(name + q - 1)
  <2>1. q \in Nat /\ q <= Len(e.name) /\ Len(t) \in Nat
    BY <1>4, <1>5
  <2>2. (9 + pv) + q \in Nat /\ ((9 + pv) + q) + 1 <= Len(t) /\ ((9 + pv) + q) + 1 = (10 + pv) + q
        /\ pos + ((9 + pv) + q) = name + q - 1
    <3>1. 10 + pv + Len(e.name) <= Len(t) /\ pos \in Nat
      BY ONLY <1>2, <1>5
    <3>2. NameFits(pv, Len(e.name), Len(t), q, pos, name)
      BY ONLY <1>4, <1>13, <2>1, <3>1, NameDoesFit
    <3> QED BY ONLY <3>2 DEF NameFits
  <2>3. InSection(pos + ((9 + pv) + q)) /\ Byte(pos + ((9 + pv) + q)) = t[((9 + pv) + q) + 1]
    <3>1. ByteAt(pos, (9 + pv) + q, t)
      BY ONLY <1>7, <2>2, ReadsAt
    <3> QED BY ONLY <3>1 DEF ByteAt
  <2>4. t[(10 + pv) + q] = e.name[q]
    <3>1. Lies(t, 10 + pv, e.name)
      BY <1>5
    <3> QED BY ONLY <3>1, q \in 1..Len(e.name) DEF Lies
  <2> QED BY ONLY <2>2, <2>3, <2>4
<1>17. [q \in 1..Byte(name - 1) |-> Byte(name + q - 1)] = e.name
  <2>1. e.name = [q \in 1..Len(e.name) |-> e.name[q]]
    BY <1>3
  <2>2. \A q \in 1..Len(e.name) : Byte(name + q - 1) = e.name[q]
    BY <1>16
  <2> QED BY ONLY <1>15, <2>1, <2>2
<1>18. InSection(name + Byte(name - 1) - 1)
  <2>1. CASE Len(e.name) = 0
    <3>1. name + Byte(name - 1) - 1 = name - 1
      BY ONLY <1>2, <1>4, <1>13, <1>15, <2>1
    <3> QED BY ONLY <1>15, <3>1
  <2>2. CASE Len(e.name) # 0
    <3>1. Len(e.name) \in 1..Len(e.name)
      BY ONLY <1>4, <2>2
    <3>2. InSection(name + Len(e.name) - 1)
      BY ONLY <1>16, <3>1
    <3> QED BY ONLY <1>15, <3>2
  <2> QED BY <2>1, <2>2
<1> QED BY ONLY <1>10, <1>12, <1>15, <1>17, <1>18 DEF pos, e, name

\* One element of a sequence is written.
LEMMA SeqUpdated ==
  ASSUME NEW S, NEW s \in Seq(S), NEW q \in 1..Len(s), NEW v \in S
  PROVE  LET t == [s EXCEPT ![q] = v] IN
         /\ t \in Seq(S) /\ Len(t) = Len(s) /\ DOMAIN t = DOMAIN s /\ t[q] = v
         /\ \A k \in DOMAIN s : k # q => t[k] = s[k]
  OBVIOUS

\* The memory of the programs with another record in place q.
Rewritten(q, v) ==
  /\ PAT' \in [pmt_count : Bytes, pmts : Seq(PmtRecords)]
  /\ Len(PAT'.pmts) = Len(PAT.pmts) /\ DOMAIN PAT'.pmts = DOMAIN PAT.pmts
  /\ PAT'.pmt_count = PAT.pmt_count /\ PAT'.pmts[q] = v
  /\ \A k \in DOMAIN PAT.pmts : k # q => PAT'.pmts[k] = PAT.pmts[k]

\* One record in the memory of the programs is written.
LEMMA PatUpdated ==
  ASSUME PAT \in [pmt_count : Bytes, pmts : Seq(PmtRecords)], NEW q \in DOMAIN PAT.pmts,
         NEW v \in PmtRecords, PAT' = [PAT EXCEPT !.pmts = [@ EXCEPT ![q] = v]]
  PROVE  Rewritten(q, v)
<1>1. PAT.pmts \in Seq(PmtRecords) /\ q \in 1..Len(PAT.pmts) /\ PAT.pmt_count \in Bytes
  OBVIOUS
<1>2. PAT'.pmts = [PAT.pmts EXCEPT ![q] = v] /\ PAT'.pmt_count = PAT.pmt_count
      /\ PAT' = [pmt_count |-> PAT.pmt_count, pmts |-> [PAT.pmts EXCEPT ![q] = v]]
  OBVIOUS
<1>3. LET t == [PAT.pmts EXCEPT ![q] = v] IN
      /\ t \in Seq(PmtRecords) /\ Len(t) = Len(PAT.pmts) /\ DOMAIN t = DOMAIN PAT.pmts /\ t[q] = v
      /\ \A k \in DOMAIN PAT.pmts : k # q => t[k] = PAT.pmts[k]
  BY ONLY <1>1, v \in PmtRecords, SeqUpdated
<1>4. PAT' \in [pmt_count : Bytes, pmts : Seq(PmtRecords)]
  BY <1>1, <1>2, <1>3
<1> QED BY <1>2, <1>3, <1>4 DEF Rewritten

\* The hypothesis, of the multiplex that is on the air.
LEMMA HandledIs ==
  ASSUME AllHandled, TableInv
  PROVE  HandledPat(mux.pat) /\ HandledPmts(mux.pmts, mux.pat) /\ HandledSdt(mux)
  BY DEF AllHandled, TableInv, ParserTypes, Handled

\* Nothing has been parsed.
LEMMA TableInvStarts ==
  ASSUME TableInit PROVE TableInv
<1>1. ParserTypes
  <2>1. Idle \in AtTypes
    <3>1. 0 \in Words
      BY DEF Words
    <3> QED BY <3>1 DEF Idle, AtTypes
  <2>2. PAT \in [pmt_count : Bytes, pmts : Seq(PmtRecords)] /\ Len(PAT.pmts) = PAT.pmt_count
    <3>1. 0 \in Bytes
      BY DEF Bytes
    <3> QED BY <3>1 DEF TableInit
  <2> QED BY <2>1, <2>2 DEF TableInit, ParserTypes
<1>2. InOrder /\ ProgramsListed /\ ServicesListed /\ InPat /\ InSdt /\ InPmt
  BY DEF TableInit, InOrder, ProgramsListed, ServicesListed, InPat, InSdt, InPmt, Idle
<1>3. ProgramsShown
  BY DEF TableInit, ProgramsShown
<1> QED BY <1>1, <1>2, <1>3 DEF TableInv

\* Nothing changes.
LEMMA TableInvStutters ==
  ASSUME TableInv, UNCHANGED tableVars PROVE TableInv'
  BY DEF TableInv, tableVars, ParserTypes, InOrder, ProgramsListed, ServicesListed, InPat, InSdt, InPmt,
         InPmtOf, ProgramsShown, Listed, Named, Shows, AtEntry

\* filter_callback: a section arrives, whole.
LEMMA ArrivalKeeps ==
  ASSUME AllHandled, TableInv, filter_callback PROVE TableInv'
<1>1. HandledPat(mux.pat) /\ HandledPmts(mux.pmts, mux.pat) /\ HandledSdt(mux)
  BY HandledIs
<1>2. /\ at.pc = "idle" /\ section' \in Filtered /\ UNCHANGED <<mux, PAT, SDT, parsed>>
      /\ at' = [Idle EXCEPT !.pc = CASE section'[1] = 0  -> "parse_PAT"
                                     [] section'[1] = 2  -> "find_PMT"
                                     [] section'[1] = 66 -> "parse_SDT"]
  BY DEF filter_callback
<1>3. ProgramsListed' /\ ServicesListed'
  BY <1>2 DEF TableInv, ProgramsListed, ServicesListed, Listed, Named
<1>4. \A q \in {"parse_PAT", "find_PMT", "parse_SDT"} :
        at' = [Idle EXCEPT !.pc = q] => /\ at' \in AtTypes /\ at'.pc = q
                                        /\ at'.i = 0 /\ at'.j = 0
  <2>1. 0 \in Words
    BY DEF Words
  <2> QED BY <2>1 DEF Idle, AtTypes
<1>5. ProgramsShown' /\ (parsed.PMT # {} => parsed.SDT) /\ (parsed.SDT => parsed.PAT)
  BY <1>2 DEF TableInv, ProgramsShown, Shows, InOrder
<1>6. mux \in Multiplexes /\ PAT \in [pmt_count : Bytes, pmts : Seq(PmtRecords)]
      /\ Len(PAT.pmts) = PAT.pmt_count /\ parsed \in [PAT : BOOLEAN, SDT : BOOLEAN, PMT : SUBSET Nat]
  BY DEF TableInv, ParserTypes
<1>7. CASE ~parsed.PAT
  <2>1. section' = PatSection(mux)
    BY <1>2, <1>7, SMTT(20) DEF Filtered
  <2>2. section' \in Seq(Bytes) /\ section'[1] = 0
    BY <1>1, <2>1, PatBytes
  <2>3. at' = [Idle EXCEPT !.pc = "parse_PAT"]
    BY <1>2, <2>2
  <2>4. at' \in AtTypes /\ at'.pc = "parse_PAT" /\ at'.i = 0 /\ at'.j = 0
    BY <1>4, <2>3
  <2>5. ParserTypes'
    BY <1>2, <1>6, <2>2, <2>4 DEF ParserTypes, AtTypes
  <2>6. InOrder'
    BY <1>2, <1>5, <1>7, <2>4 DEF InOrder
  <2>7. InPat' /\ InSdt' /\ InPmt'
    BY <1>2, <2>1, <2>4 DEF InPat, InSdt, InPmt
  <2> QED BY <1>3, <1>5, <2>5, <2>6, <2>7 DEF TableInv
<1>8. CASE parsed.PAT /\ ~parsed.SDT
  <2>1. section' = SdtSection(mux)
    BY <1>2, <1>8 DEF Filtered
  <2>2. section' \in Seq(Bytes) /\ section'[1] = 66
    BY <1>1, <2>1, SdtBytes
  <2>3. at' = [Idle EXCEPT !.pc = "parse_SDT"]
    BY <1>2, <2>2
  <2>4. at' \in AtTypes /\ at'.pc = "parse_SDT" /\ at'.i = 0 /\ at'.j = 0
    BY <1>4, <2>3
  <2>5. ParserTypes'
    BY <1>2, <1>6, <2>2, <2>4 DEF ParserTypes, AtTypes
  <2>6. InOrder'
    BY <1>2, <1>5, <1>8, <2>4 DEF InOrder
  <2>7. InPat' /\ InSdt' /\ InPmt'
    BY <1>2, <2>1, <2>4 DEF InPat, InSdt, InPmt
  <2> QED BY <1>3, <1>5, <2>5, <2>6, <2>7 DEF TableInv
<1>9. CASE parsed.PAT /\ parsed.SDT
  <2>1. PICK n \in DOMAIN mux.pmts : section' = PmtSection(mux.pmts[n])
    BY <1>2, <1>9 DEF Filtered, Range
  <2>2. mux.pmts[n] \in Pmts /\ Len(PmtSection(mux.pmts[n])) < 4096
    BY <1>1 DEF HandledPmts
  <2>3. section' \in Seq(Bytes) /\ section'[1] = 2
    BY <2>1, <2>2, PmtBytes
  <2>4. at' = [Idle EXCEPT !.pc = "find_PMT"]
    BY <1>2, <2>3
  <2>5. at' \in AtTypes /\ at'.pc = "find_PMT" /\ at'.i = 0 /\ at'.j = 0
    BY <1>4, <2>4
  <2>6. ParserTypes'
    BY <1>2, <1>6, <2>3, <2>5 DEF ParserTypes, AtTypes
  <2>7. InOrder'
    BY <1>2, <1>5, <1>9, <2>5 DEF InOrder
  <2>8. InPat' /\ InSdt'
    BY <2>5 DEF InPat, InSdt
  <2>9. InPmt'
    <3>1. \A k \in DOMAIN PAT.pmts : ~(k <= 0)
      BY <1>6
    <3>2. \A k \in DOMAIN PAT'.pmts : k <= at'.j => PAT'.pmts[k].pr_num # mux'.pmts[n].pr
      BY <1>2, <2>5, <3>1
    <3>3. n \in DOMAIN mux'.pmts /\ section' = PmtSection(mux'.pmts[n])
      BY <1>2, <2>1
    <3> QED BY <2>5, <3>2, <3>3 DEF InPmt, InPmtOf
  <2> QED BY <1>3, <1>5, <2>6, <2>7, <2>8, <2>9 DEF TableInv
<1> QED BY <1>7, <1>8, <1>9

\* The length a section states.
LEMMA SectionLengthIs ==
  ASSUME NEW n \in Nat, (section[2] % 16) * 256 + section[3] = n
  PROVE  SectionLength = n
<1>1. Byte(1) = section[2] /\ Byte(2) = section[3]
  BY DEF Byte
<1> QED BY <1>1 DEF SectionLength

\* The count parse_PAT computes from a section_length of l is n - 1, and fits into its eight bits.
Counts(l, n) == ((l - 9) \div 4 - 1) % 256 = n - 1 /\ n - 1 \in Bytes /\ l \in Nat

LEMMA CountIs ==
  ASSUME NEW n \in 1..256
  PROVE  Counts(9 + 4 * n, n)
<1>1. n \in Nat /\ 1 <= n /\ n <= 256
  OBVIOUS
<1>2. (9 + 4 * n) - 9 = 4 * n /\ (4 * n) \div 4 = n /\ 9 + 4 * n \in Nat
  BY ONLY <1>1
<1>3. (n - 1) % 256 = n - 1 /\ n - 1 \in Nat /\ n - 1 <= 255
  BY ONLY <1>1
<1>4. n - 1 \in Bytes
  BY ONLY <1>3 DEF Bytes
<1>5. ((9 + 4 * n) - 9) \div 4 = n
  BY ONLY <1>2
<1> QED BY ONLY <1>2, <1>3, <1>4, <1>5 DEF Counts

\* An array is a sequence.
LEMMA FunctionIsSeq ==
  ASSUME NEW S, NEW n \in Nat, NEW f \in [1..n -> S] PROVE f \in Seq(S) /\ Len(f) = n
  OBVIOUS

\* parse_PAT: there is memory for all entries but the network's.
LEMMA ParsePatKeeps ==
  ASSUME AllHandled, TableInv, parse_PAT PROVE TableInv'
<1> DEFINE N == Len(mux.pat)
<1>1. HandledPat(mux.pat)
  BY HandledIs
<1>2. at.pc = "parse_PAT" /\ at' = [at EXCEPT !.pc = "PAT"] /\ UNCHANGED <<mux, section, SDT, parsed>>
  BY DEF parse_PAT
<1>3. section = PatSection(mux) /\ at.i = 0 /\ at.j = 0 /\ ~parsed.PAT
  BY <1>2, SMTT(20) DEF TableInv, InPat, InOrder
<1>4. N \in 1..256 /\ (section[2] % 16) * 256 + section[3] = 9 + 4 * N
  BY <1>1, <1>3, PatBytes
<1>5. SectionLength = 9 + 4 * N /\ ((SectionLength - 9) \div 4 - 1) % 256 = N - 1 /\ N - 1 \in Bytes
  <2> HIDE DEF N
  <2>1. Counts(9 + 4 * N, N)
    BY ONLY <1>4, CountIs
  <2>2. SectionLength = 9 + 4 * N
    <3>1. 9 + 4 * N \in Nat
      BY ONLY <2>1 DEF Counts
    <3> QED BY ONLY <1>4, <3>1, SectionLengthIs
  <2>3. Counts(SectionLength, N)
    BY ONLY <2>1, <2>2
  <2> QED BY ONLY <2>2, <2>3 DEF Counts
<1>6. PAT' = [pmt_count |-> N - 1, pmts |-> [k \in 1..(N - 1) |-> Unwritten]]
  BY <1>5 DEF parse_PAT
<1>7. PAT' \in [pmt_count : Bytes, pmts : Seq(PmtRecords)] /\ Len(PAT'.pmts) = PAT'.pmt_count
      /\ PAT'.pmt_count = N - 1
  <2>1. Unwritten \in PmtRecords
    BY DEF Unwritten, PmtRecords
  <2>2. N - 1 \in Nat
    <3>1. \A n \in 1..256 : n - 1 \in Nat
      OBVIOUS
    <3> QED BY ONLY <1>4, <3>1
  <2> DEFINE c == N - 1  ps == [k \in 1..c |-> Unwritten]
  <2>3. c \in Nat /\ PAT' = [pmt_count |-> c, pmts |-> ps] /\ c \in Bytes
    BY <1>5, <1>6, <2>2
  <2> HIDE DEF c
  <2>4. ps \in [1..c -> PmtRecords]
    BY <2>1
  <2> HIDE DEF ps
  <2>5. ps \in Seq(PmtRecords) /\ Len(ps) = c
    BY ONLY <2>3, <2>4, FunctionIsSeq
  <2>6. PAT' \in [pmt_count : Bytes, pmts : Seq(PmtRecords)] /\ Len(PAT'.pmts) = PAT'.pmt_count
        /\ PAT'.pmt_count = c
    BY ONLY <2>3, <2>5
  <2> QED BY ONLY <2>6 DEF c
<1>8. at \in AtTypes /\ at' \in AtTypes /\ at'.pc = "PAT" /\ at'.i = 0 /\ at'.j = 0
  BY <1>2, <1>3 DEF TableInv, ParserTypes, AtTypes
<1>9. parsed.PMT = {} /\ ~parsed.SDT
  BY <1>3 DEF TableInv, InOrder
<1>10. ParserTypes'
  BY <1>2, <1>7, <1>8 DEF TableInv, ParserTypes, AtTypes
<1>11. InOrder' /\ ProgramsListed' /\ ServicesListed' /\ ProgramsShown' /\ InSdt' /\ InPmt'
  BY <1>2, <1>3, <1>8, <1>9 DEF InOrder, ProgramsListed, ServicesListed, ProgramsShown, InSdt, InPmt
<1>12. InPat'
  <2>1. Listed(0)'
    BY SMTT(20) DEF Listed
  <2>2. 0 \in 0..N /\ Place(mux.pat, 0) = 0
    BY <1>1, <1>4, PlacesGrow
  <2> QED BY <1>2, <1>3, <1>7, <1>8, <2>1, <2>2 DEF InPat
<1> QED BY <1>10, <1>11, <1>12 DEF TableInv

\* Entry i of the PAT is read.
PatEntryRead(m, i) ==
  LET pos == 8 + i * 4  e == m.pat[i + 1] IN
  /\ InSection(pos + 3) /\ (Byte(pos) # 0 <=> e.pr # 0)
  /\ Word(pos) = e.pr /\ Word(pos + 2) % 8192 = e.pid
  /\ e.pr \in Nat /\ e.pid \in Nat

\* The lemma above in these words.
LEMMA PatReadsIt ==
  ASSUME NEW m, HandledPat(m.pat), section = PatSection(m), NEW i \in 0..Len(m.pat) - 1
  PROVE  PatEntryRead(m, i)
  BY PatReads DEF PatEntryRead

\* Arithmetic of the places and of the eight bits they are counted in.
LEMMA NotLast ==
  ASSUME NEW i \in Nat, NEW k \in 1..(i + 1), k # i + 1 PROVE k \in 1..i
  OBVIOUS

LEMMA StaysByte ==
  ASSUME NEW n \in 1..256, NEW j \in 0..n - 1, j + 1 \in 1..n - 1
  PROVE  (j + 1) % 256 = j + 1 /\ j + 1 \in Nat
  OBVIOUS

\* The parser goes on in the PAT.
LEMMA AtMoves ==
  ASSUME at \in AtTypes, NEW a \in Nat, NEW b \in Nat, at' = [at EXCEPT !.i = a, !.j = b]
  PROVE  at' \in AtTypes /\ at'.pc = at.pc /\ at'.i = a /\ at'.j = b
  BY DEF AtTypes

\* A turn of the loop of parse_PAT lists one entry more.
LEMMA PatEntryKeeps ==
  ASSUME AllHandled, TableInv, PatEntry PROVE TableInv'
<1> DEFINE N == Len(mux.pat)  i == at.i  e == mux.pat[i + 1]  pos == 8 + i * 4  q == at.j + 1
<1>1. HandledPat(mux.pat)
  BY HandledIs
<1>2. at.pc = "PAT" /\ i < PAT.pmt_count + 1
  BY DEF PatEntry
<1>3. /\ section = PatSection(mux) /\ ~parsed.PAT
      /\ i \in 0..N /\ at.j = Place(mux.pat, i) /\ PAT.pmt_count = N - 1 /\ Listed(i)
  BY <1>2 DEF TableInv, InPat, InOrder
<1>4. /\ at \in AtTypes /\ PAT \in [pmt_count : Bytes, pmts : Seq(PmtRecords)]
      /\ Len(PAT.pmts) = PAT.pmt_count
  BY DEF TableInv, ParserTypes, AtTypes
<1>5. N \in 1..256
  BY <1>1, PlacesGrow
<1>6. i \in 0..N - 1 /\ i \in Nat /\ i + 1 \in 1..N /\ (i + 1) - 1 = i
  BY <1>2, <1>3, <1>5
<1>7. /\ InSection(pos + 3) /\ (Byte(pos) # 0 <=> e.pr # 0)
      /\ Word(pos) = e.pr /\ Word(pos + 2) % 8192 = e.pid /\ e.pr \in Nat /\ e.pid \in Nat
  <2>1. section = PatSection(mux) /\ i \in 0..Len(mux.pat) - 1
    BY <1>3, <1>6
  <2>2. PatEntryRead(mux, i)
    BY ONLY <1>1, <2>1, PatReadsIt
  <2> QED BY ONLY <2>2 DEF PatEntryRead
<1>8. /\ at.j \in 0..N - 1
      /\ Place(mux.pat, i + 1) = (IF e.pr # 0 THEN at.j + 1 ELSE at.j)
      /\ e.pr # 0 => q \in 1..N - 1
      /\ e.pr # 0 => \A l \in 1..i : mux.pat[l].pr # 0 => Place(mux.pat, l) < q
  <2> DEFINE k == i + 1
  <2>1. k \in 1..N /\ k - 1 = i
    BY <1>6
  <2> HIDE DEF k
  <2>2. /\ Place(mux.pat, k - 1) \in 0..N - 1
        /\ Place(mux.pat, k) = (IF mux.pat[k].pr # 0 THEN Place(mux.pat, k - 1) + 1 ELSE Place(mux.pat, k - 1))
        /\ mux.pat[k].pr # 0 => Place(mux.pat, k) \in 1..N - 1
        /\ \A l \in 1..k - 1 : mux.pat[k].pr # 0 /\ mux.pat[l].pr # 0 => Place(mux.pat, l) < Place(mux.pat, k)
    BY <1>1, <2>1, PlacesGrow
  <2> QED BY <1>3, <2>1, <2>2 DEF k
<1>9. parsed.PMT = {} /\ ~parsed.SDT
  BY <1>3 DEF TableInv, InOrder
<1>10. DOMAIN PAT.pmts = 1..N - 1
  BY <1>3, <1>4
<1> HIDE DEF N, i, e, pos, q
<1>11. ~(~InSection(pos + 3) \/ (Byte(pos) # 0 /\ q \notin DOMAIN PAT.pmts))
  BY <1>7, <1>8, <1>10
<1>12. /\ UNCHANGED <<mux, section, SDT, parsed>>
       /\ IF Byte(pos) # 0
          THEN /\ PAT' = [PAT EXCEPT !.pmts[q].pr_num = Word(pos), !.pmts[q].table_id = Word(pos + 2) % 8192]
               /\ at' = [at EXCEPT !.i = @ + 1, !.j = (@ + 1) % 256]
          ELSE at' = [at EXCEPT !.i = @ + 1] /\ UNCHANGED PAT
  BY <1>11 DEF PatEntry, pos, q, i
<1>13. /\ at' \in AtTypes /\ at'.pc = "PAT" /\ at'.i = i + 1 /\ at'.j = Place(mux.pat, i + 1)
  <2>1. CASE e.pr = 0
    <3>1. at' = [at EXCEPT !.i = @ + 1] /\ at.j = Place(mux.pat, i + 1)
      BY <1>7, <1>8, <1>12, <2>1
    <3> QED BY <1>2, <1>4, <3>1 DEF AtTypes, i
  <2>2. CASE e.pr # 0
    <3>1. at' = [at EXCEPT !.i = @ + 1, !.j = (@ + 1) % 256] /\ at.j + 1 = Place(mux.pat, i + 1)
      BY <1>7, <1>8, <1>12, <2>2
    <3>2. (at.j + 1) % 256 = at.j + 1 /\ at.j + 1 \in Nat
      BY ONLY <1>5, <1>8, <2>2, StaysByte DEF q
    <3> DEFINE a == at.i + 1  b == (at.j + 1) % 256
    <3>3. a \in Nat /\ b \in Nat /\ at \in AtTypes /\ at' = [at EXCEPT !.i = a, !.j = b]
      BY <1>4, <1>6, <3>1, <3>2 DEF i
    <3>4. a = i + 1 /\ b = Place(mux.pat, i + 1)
      BY ONLY <3>1, <3>2 DEF i
    <3> HIDE DEF a, b
    <3>5. at' \in AtTypes /\ at'.pc = at.pc /\ at'.i = a /\ at'.j = b
      BY ONLY <3>3, AtMoves
    <3> QED BY ONLY <1>2, <3>4, <3>5
  <2> QED BY <2>1, <2>2
<1>14. /\ PAT' \in [pmt_count : Bytes, pmts : Seq(PmtRecords)]
       /\ Len(PAT'.pmts) = PAT'.pmt_count /\ PAT'.pmt_count = N - 1
       /\ \A k \in 1..(i + 1) : mux'.pat[k].pr # 0 =>
            /\ PAT'.pmts[Place(mux'.pat, k)].pr_num = mux'.pat[k].pr
            /\ PAT'.pmts[Place(mux'.pat, k)].table_id = mux'.pat[k].pid
  <2>1. CASE e.pr = 0
    <3>1. PAT' = PAT /\ mux' = mux
      BY <1>7, <1>12, <2>1
    <3>2. ASSUME NEW k \in 1..(i + 1), mux'.pat[k].pr # 0
          PROVE  /\ PAT'.pmts[Place(mux'.pat, k)].pr_num = mux'.pat[k].pr
                 /\ PAT'.pmts[Place(mux'.pat, k)].table_id = mux'.pat[k].pid
      <4>1. k # i + 1
        BY <2>1, <3>1, <3>2 DEF e
      <4>2. k \in 1..i
        BY ONLY <1>6, <3>2, <4>1, NotLast
      <4>3. Listed(i)
        BY <1>3
      <4> QED BY ONLY <3>1, <3>2, <4>2, <4>3 DEF Listed
    <3>3. /\ PAT' \in [pmt_count : Bytes, pmts : Seq(PmtRecords)]
          /\ Len(PAT'.pmts) = PAT'.pmt_count /\ PAT'.pmt_count = N - 1
      BY ONLY <1>3, <1>4, <3>1
    <3> QED BY ONLY <3>2, <3>3
  <2>2. CASE e.pr # 0
    <3> DEFINE a == Word(pos)  b == Word(pos + 2) % 8192
               v == [PAT.pmts[q] EXCEPT !.pr_num = a, !.table_id = b]
    <3>1. q \in DOMAIN PAT.pmts /\ mux' = mux
      BY <1>8, <1>10, <1>12, <2>2
    <3>2. PAT.pmts[q] \in PmtRecords
      BY <1>4, <3>1
    <3>3. a \in Nat /\ b \in Nat /\ a = e.pr /\ b = e.pid
      BY ONLY <1>7
    <3>4. PAT' = [PAT EXCEPT !.pmts[q].pr_num = a, !.pmts[q].table_id = b]
      <4>1. Byte(pos) # 0
        BY ONLY <1>7, <2>2
      <4> QED BY ONLY <1>12, <4>1
    <3> HIDE DEF a, b
    <3>5. v \in PmtRecords /\ v.pr_num = a /\ v.table_id = b
      BY ONLY <3>2, <3>3 DEF PmtRecords
    <3>50. PAT' = [PAT EXCEPT !.pmts = [@ EXCEPT ![q] = v]]
      BY ONLY <1>4, <3>1, <3>2, <3>4 DEF PmtRecords
    <3> HIDE DEF v
    <3>6. Rewritten(q, v)
      BY ONLY <1>4, <3>1, <3>5, <3>50, PatUpdated
    <3>7. ASSUME NEW k \in 1..(i + 1), mux.pat[k].pr # 0
          PROVE  /\ PAT'.pmts[Place(mux.pat, k)].pr_num = mux.pat[k].pr
                 /\ PAT'.pmts[Place(mux.pat, k)].table_id = mux.pat[k].pid
      <4>1. CASE k = i + 1
        <5>1. Place(mux.pat, k) = q
          BY <1>8, <2>2, <4>1 DEF q
        <5> QED BY <3>3, <3>5, <3>6, <4>1, <5>1 DEF Rewritten, e
      <4>2. CASE k # i + 1
        <5>1. k \in 1..i
          BY ONLY <1>6, <3>7, <4>2, NotLast
        <5>2. k \in 1..N
          <6>1. \A x \in 1..i : x \in 1..N
            BY <1>5, <1>6
          <6> QED BY ONLY <5>1, <6>1
        <5>3. Place(mux.pat, k) < q /\ Place(mux.pat, k) \in 1..N - 1
          BY <1>1, <1>8, <2>2, <3>7, <5>1, <5>2, PlacesGrow DEF N
        <5>4. Place(mux.pat, k) # q /\ Place(mux.pat, k) \in DOMAIN PAT.pmts
          <6>1. Place(mux.pat, k) \in DOMAIN PAT.pmts /\ q \in 1..N - 1
            BY ONLY <1>8, <1>10, <2>2, <5>3
          <6>2. \A x, y \in 1..N - 1 : x < y => x # y
            BY <1>5
          <6> QED BY ONLY <5>3, <6>1, <6>2
        <5>5. Listed(i)
          BY <1>3
        <5> QED BY ONLY <3>6, <3>7, <5>1, <5>4, <5>5 DEF Rewritten, Listed
      <4> QED BY <4>1, <4>2
    <3>8. \A k \in 1..(i + 1) : mux'.pat[k].pr # 0 =>
                /\ PAT'.pmts[Place(mux'.pat, k)].pr_num = mux'.pat[k].pr
                /\ PAT'.pmts[Place(mux'.pat, k)].table_id = mux'.pat[k].pid
      BY ONLY <3>1, <3>7
    <3> QED BY ONLY <1>3, <1>4, <3>6, <3>8 DEF Rewritten
  <2> QED BY <2>1, <2>2
<1>15. ParserTypes'
  BY <1>12, <1>13, <1>14 DEF TableInv, ParserTypes, AtTypes
<1>16. InOrder' /\ ProgramsListed' /\ ServicesListed' /\ ProgramsShown' /\ InSdt' /\ InPmt'
  BY <1>3, <1>9, <1>12, <1>13 DEF InOrder, ProgramsListed, ServicesListed, ProgramsShown, InSdt, InPmt
<1>17. InPat'
  <2>1. i + 1 \in 0..N
    <3>1. \A x \in 1..N : x \in 0..N
      BY <1>5
    <3> QED BY ONLY <1>6, <3>1
  <2>2. Listed(at.i)'
    BY ONLY <1>13, <1>14 DEF Listed
  <2> QED BY ONLY <1>3, <1>12, <1>13, <1>14, <2>1, <2>2 DEF InPat, N
<1> QED BY <1>15, <1>16, <1>17 DEF TableInv

\* parse_PAT returns: the loop has seen every entry.
LEMMA PatEndsKeeps ==
  ASSUME AllHandled, TableInv, PatEnds PROVE TableInv'
<1>1. HandledPat(mux.pat)
  BY HandledIs
<1>2. /\ at.pc = "PAT" /\ at.i >= PAT.pmt_count + 1
      /\ at' = Idle /\ section' = <<>> /\ parsed' = [parsed EXCEPT !["PAT"] = TRUE]
      /\ UNCHANGED <<mux, PAT, SDT>>
  BY DEF PatEnds, Parsed
<1>3. at.i \in 0..Len(mux.pat) /\ PAT.pmt_count = Len(mux.pat) - 1 /\ Listed(at.i) /\ ~parsed.PAT
  BY <1>2, SMTT(20) DEF TableInv, InPat, InOrder
<1>4. at.i = Len(mux.pat)
  <2>1. Len(mux.pat) \in 1..256
    BY <1>1, PlacesGrow
  <2> QED BY <1>2, <1>3, <2>1
<1>5. Listed(Len(mux.pat))'
  BY <1>2, <1>3, <1>4 DEF Listed
<1>6. at' \in AtTypes /\ at'.pc = "idle"
  <2>1. 0 \in Words
    BY DEF Words
  <2> QED BY <1>2, <2>1 DEF Idle, AtTypes
<1>7. parsed' \in [PAT : BOOLEAN, SDT : BOOLEAN, PMT : SUBSET Nat] /\ parsed'.PAT
      /\ parsed'.PMT = parsed.PMT /\ parsed'.SDT = parsed.SDT
  BY <1>2 DEF TableInv, ParserTypes
<1>8. parsed.PMT = {} /\ ~parsed.SDT
  BY <1>3 DEF TableInv, InOrder
<1>9. ParserTypes'
  BY <1>2, <1>6, <1>7, SMTT(20) DEF TableInv, ParserTypes, AtTypes
<1>10. InOrder' /\ ProgramsListed' /\ ServicesListed' /\ ProgramsShown' /\ InPat' /\ InSdt' /\ InPmt'
  BY <1>2, <1>3, <1>5, <1>6, <1>7, <1>8
     DEF InOrder, ProgramsListed, ServicesListed, ProgramsShown, InPat, InSdt, InPmt
<1> QED BY <1>9, <1>10 DEF TableInv

\* What is left of a section of l bytes when x bytes of entries follow h others.
Left(l, h, x) == (l - h) % 65536 = x /\ x \in Words /\ x < 65536

\* The 16 bits of the count-down hold it.
LEMMA LeftIs ==
  ASSUME NEW x \in Nat, 15 + x < 4096, NEW h \in Nat, NEW l \in Nat, l = h + x
  PROVE  Left(l, h, x)
<1>0. l - h = x
  OBVIOUS
<1>1. x \in Nat /\ x < 65536
  OBVIOUS
<1>2. x % 65536 = x
  BY ONLY <1>1
<1>3. x \in Words
  BY ONLY <1>1, SomeWord
<1> QED BY ONLY <1>0, <1>1, <1>2, <1>3 DEF Left

\* An entry of 5 + d bytes from a to b is skipped, of c bytes behind the first ones.
Skipped(first, a, b, c, d) ==
  /\ ((c - a) - (d + 5)) % 65536 = c - b /\ c - b \in Words
  /\ (first + a) + (d + 5) = first + b /\ first + b \in Nat

\* The count-down does not pass zero while an entry is left.
LEMMA SkipIs ==
  ASSUME NEW first \in Nat, NEW a \in Nat, NEW c \in Nat, c < 65536, NEW d \in Nat,
         NEW b, b = a + (5 + d), b <= c
  PROVE  Skipped(first, a, b, c, d)
<1>1. (c - a) - (d + 5) = c - b /\ c - b \in Nat /\ c - b < 65536
  OBVIOUS
<1> DEFINE x == c - b
<1>2. x % 65536 = x /\ x \in Words
  <2>1. x \in Nat /\ x < 65536
    BY <1>1
  <2> HIDE DEF x
  <2> QED BY ONLY <2>1, SomeWord
<1>3. ((c - a) - (d + 5)) % 65536 = x
  <2>1. (c - a) - (d + 5) = x
    BY <1>1
  <2> HIDE DEF x
  <2> QED BY ONLY <1>2, <2>1
<1>4. (first + a) + (d + 5) = first + b /\ first + b \in Nat
  OBVIOUS
<1> QED BY ONLY <1>2, <1>3, <1>4 DEF Skipped

\* The parser enters a loop.
LEMMA AtSets ==
  ASSUME at \in AtTypes, NEW a \in Words, NEW b \in Nat, NEW c \in {"SDT", "PMT"},
         at' = [at EXCEPT !.pc = c, !.sl = a, !.pos = b]
  PROVE  at' \in AtTypes /\ at'.pc = c /\ at'.sl = a /\ at'.pos = b /\ at'.j = at.j
  BY DEF AtTypes

\* parse_SDT: there is memory for all services.
LEMMA ParseSdtKeeps ==
  ASSUME AllHandled, TableInv, parse_SDT PROVE TableInv'
<1> DEFINE n == Len(mux.sdt)  st == SdtStarts(mux)  left == (SectionLength - 12) % 65536
<1>1. HandledPat(mux.pat) /\ HandledSdt(mux)
  BY HandledIs
<1>2. /\ at.pc = "parse_SDT" /\ SDT' = [k \in 1..PAT.pmt_count |-> NoService]
      /\ at' = [at EXCEPT !.pc = "SDT", !.sl = left, !.pos = 11]
      /\ UNCHANGED <<mux, section, PAT, parsed>>
  BY DEF parse_SDT
<1>3. section = SdtSection(mux) /\ at.j = 0 /\ parsed.PAT /\ ~parsed.SDT
  BY <1>2 DEF TableInv, InSdt, InOrder
<1>4. PAT.pmt_count = n
  <2>1. PAT.pmt_count = Len(mux.pat) - 1
    BY <1>3 DEF TableInv, ProgramsListed
  <2>2. Len(mux.sdt) = Len(mux.pat) - 1
    BY <1>1 DEF HandledSdt
  <2> QED BY ONLY <2>1, <2>2
<1>5. /\ n \in Nat /\ st \in [1..(n + 1) -> Nat] /\ st[1] = 0
      /\ (section[2] % 16) * 256 + section[3] = 12 + st[n + 1]
      /\ Len(section) = 15 + st[n + 1] /\ Len(section) < 4096
  BY <1>1, <1>3, SdtBytes
<1>6. st[n + 1] \in Nat /\ 15 + st[n + 1] < 4096
  <2>1. n + 1 \in 1..(n + 1)
    BY <1>5
  <2>2. st \in [1..(n + 1) -> Nat] /\ 15 + st[n + 1] < 4096
    BY ONLY <1>5
  <2> QED BY ONLY <2>1, <2>2
<1> HIDE DEF n, st
<1>7. left = st[n + 1] /\ st[n + 1] \in Words
  <2> DEFINE x == st[n + 1]  l == 12 + x
  <2>1. x \in Nat /\ 15 + x < 4096 /\ 12 \in Nat
    BY ONLY <1>6
  <2>2. l \in Nat /\ (section[2] % 16) * 256 + section[3] = l
    BY ONLY <1>5, <2>1
  <2> HIDE DEF x
  <2>3. Left(l, 12, x)
    BY ONLY <2>1, LeftIs
  <2> HIDE DEF l
  <2>4. SectionLength = l
    BY ONLY <2>2, SectionLengthIs
  <2>5. (SectionLength - 12) % 65536 = x /\ x \in Words
    BY ONLY <2>3, <2>4 DEF Left
  <2> QED BY ONLY <2>5 DEF x, left
<1> HIDE DEF left
<1>9. at' \in AtTypes /\ at'.pc = "SDT" /\ at'.sl = st[n + 1] /\ at'.pos = 11 /\ at'.j = 0
  <2>1. at \in AtTypes
    BY DEF TableInv, ParserTypes, AtTypes
  <2>2. left \in Words /\ 11 \in Nat /\ "SDT" \in {"SDT", "PMT"} /\ at' = [at EXCEPT !.pc = "SDT", !.sl = left, !.pos = 11]
    BY ONLY <1>2, <1>7
  <2>3. at' \in AtTypes /\ at'.pc = "SDT" /\ at'.sl = left /\ at'.pos = 11 /\ at'.j = at.j
    BY ONLY <2>1, <2>2, AtSets
  <2> QED BY ONLY <1>3, <1>7, <2>3
<1>10. parsed.PMT = {}
  BY <1>3 DEF TableInv, InOrder
<1>11. ParserTypes'
  BY <1>2, <1>9 DEF TableInv, ParserTypes, AtTypes
<1>12. InOrder' /\ ProgramsListed' /\ ServicesListed' /\ ProgramsShown' /\ InPat' /\ InPmt'
  BY <1>2, <1>3, <1>9, <1>10
     DEF TableInv, InOrder, ProgramsListed, Listed, ServicesListed, ProgramsShown, InPat, InPmt
<1>13. InSdt'
  <2>1. section' = SdtSection(mux') /\ DOMAIN SDT' = 1..Len(mux'.sdt)
    BY <1>2, <1>3, <1>4 DEF n
  <2>2. 0 \in 0..Len(mux'.sdt)
    BY <1>2, <1>5 DEF n
  <2>3. Named(at.j)'
    BY <1>9 DEF Named
  <2>4. 11 = 11 + st[0 + 1] /\ st[n + 1] = st[n + 1] - st[0 + 1]
    BY ONLY <1>5, <1>6
  <2>5. AtEntry(SdtStarts(mux), Len(mux.sdt), at.j + 1, 11)'
    BY ONLY <1>2, <1>9, <2>4 DEF AtEntry, n, st
  <2> QED BY ONLY <1>9, <2>1, <2>2, <2>3, <2>5 DEF InSdt
<1> QED BY <1>11, <1>12, <1>13 DEF TableInv

\* Entry j + 1 of n, with something left.
LEMMA EntryIsLeft ==
  ASSUME NEW n \in Nat, NEW st \in [1..(n + 1) -> Nat], NEW e \in 1..(n + 1),
         \A k \in 1..n : st[k] < st[k + 1] /\ st[k + 1] <= st[n + 1]
  PROVE  st[n + 1] - st[e] = 0 <=> e = n + 1
<1>1. st[e] \in Nat /\ st[n + 1] \in Nat
  OBVIOUS
<1>2. CASE e = n + 1
  BY <1>1, <1>2
<1>3. CASE e # n + 1
  <2>1. e \in 1..n /\ e + 1 \in 1..(n + 1)
    BY <1>3
  <2>2. st[e + 1] \in Nat /\ st[e] < st[e + 1] /\ st[e + 1] <= st[n + 1]
    BY <2>1
  <2>3. st[n + 1] - st[e] # 0
    BY <1>1, <2>2
  <2> QED BY <1>3, <2>3
<1> QED BY <1>2, <1>3

\* The n entries from st[1] on, of at least five bytes.
Growing(n, st) ==
  /\ n \in Nat /\ st \in [1..(n + 1) -> Nat] /\ st[1] = 0
  /\ \A k \in 1..n : st[k] < st[k + 1] /\ st[k + 1] <= st[n + 1]
  /\ st[n + 1] \in Nat /\ 15 + st[n + 1] < 4096

\* The sections of the services and of a program, laid out.
SdtLaid(m, s, n, st) ==
  /\ n \in Nat
  /\ \A k \in 1..n : m.sdt[k] \in Services /\ Len(Descriptors(m.sdt[k])) \in Lengths
  /\ st \in [1..(n + 1) -> Nat] /\ st[1] = 0
  /\ \A k \in 1..n : st[k + 1] = st[k] + (5 + Len(Descriptors(m.sdt[k]))) /\ st[k + 1] <= st[n + 1]
  /\ Len(s) = 15 + st[n + 1] /\ Len(s) < 4096

\* It is.
LEMMA SdtIsLaid ==
  ASSUME NEW m, HandledSdt(m) PROVE SdtLaid(m, SdtSection(m), Len(m.sdt), SdtStarts(m))
<1> DEFINE n == Len(m.sdt)  st == SdtStarts(m)  s == SdtSection(m)
<1>1. n \in Nat /\ st \in [1..(n + 1) -> Nat] /\ st[1] = 0
  BY SdtBytes
<1>2. Len(s) = 15 + st[n + 1] /\ Len(s) < 4096
  BY SdtBytes
<1>3. \A k \in 1..n : st[k + 1] = st[k] + (5 + Len(Descriptors(m.sdt[k]))) /\ st[k + 1] <= st[n + 1]
  BY SdtBytes
<1>4. \A k \in 1..n : m.sdt[k] \in Services /\ Len(Descriptors(m.sdt[k])) \in Lengths
  <2>1. m.sdt \in Seq(Services)
    BY DEF HandledSdt
  <2>2. DOMAIN m.sdt = 1..n /\ \A k \in 1..n : m.sdt[k] \in Services
    BY ONLY <2>1
  <2>3. \A k \in DOMAIN m.sdt : Len(Descriptors(m.sdt[k])) \in Lengths
    BY DEF HandledSdt
  <2> QED BY ONLY <2>2, <2>3
<1> HIDE DEF n, st, s
<1>5. SdtLaid(m, s, n, st)
  BY ONLY <1>1, <1>2, <1>3, <1>4 DEF SdtLaid
<1> QED BY ONLY <1>5 DEF n, st, s

\* And that of the PMT p.
PmtLaid(p, s, n, st) ==
  /\ n \in Nat
  /\ \A k \in 1..n : p.es[k] \in StreamEntries
  /\ st \in [1..(n + 1) -> Nat] /\ st[1] = 0
  /\ \A k \in 1..n : st[k + 1] = st[k] + (5 + p.es[k].info) /\ st[k + 1] <= st[n + 1]
  /\ Len(s) = 16 + st[n + 1] /\ Len(s) < 4096

\* It is.
LEMMA PmtIsLaid ==
  ASSUME NEW p \in Pmts, Len(PmtSection(p)) < 4096
  PROVE  PmtLaid(p, PmtSection(p), Len(p.es), PmtStarts(p))
  BY PmtBytes DEF PmtLaid

\* An entry of five bytes and d more is behind the one before it.
LEMMA EntryGrows ==
  ASSUME NEW a \in Nat, NEW d \in Nat, NEW b, b = a + (5 + d) PROVE a < b
  OBVIOUS

\* The entries of the SDT follow each other.
LEMMA SdtGrows ==
  ASSUME NEW m, HandledSdt(m) PROVE Growing(Len(m.sdt), SdtStarts(m))
<1> DEFINE n == Len(m.sdt)  st == SdtStarts(m)  s == SdtSection(m)
<1>1. SdtLaid(m, s, n, st)
  BY SdtIsLaid
<1> HIDE DEF n, st, s
<1>2. /\ n \in Nat /\ st \in [1..(n + 1) -> Nat] /\ st[1] = 0
      /\ Len(s) = 15 + st[n + 1] /\ Len(s) < 4096
      /\ \A k \in 1..n : Len(Descriptors(m.sdt[k])) \in Lengths
      /\ \A k \in 1..n : st[k + 1] = st[k] + (5 + Len(Descriptors(m.sdt[k]))) /\ st[k + 1] <= st[n + 1]
  BY ONLY <1>1 DEF SdtLaid
<1>3. ASSUME NEW k \in 1..n PROVE st[k] < st[k + 1] /\ st[k + 1] <= st[n + 1]
  <2> DEFINE a == st[k]  b == st[k + 1]  z == st[n + 1]  d == Len(Descriptors(m.sdt[k]))
  <2>1. b = a + (5 + d) /\ b <= z /\ d \in Lengths
    BY ONLY <1>2, k \in 1..n
  <2>2. a \in Nat
    BY <1>2
  <2>3. d \in Nat
    BY ONLY <2>1, LengthIs
  <2> HIDE DEF a, b, z, d
  <2>4. a < b
    BY ONLY <2>1, <2>2, <2>3, EntryGrows
  <2> QED BY ONLY <2>1, <2>4 DEF a, b, z
<1>4. st[n + 1] \in Nat
  BY <1>2
<1>5. 15 + st[n + 1] < 4096
  BY ONLY <1>2
<1>6. \A k \in 1..n : st[k] < st[k + 1] /\ st[k + 1] <= st[n + 1]
  BY ONLY <1>3
<1>7. n \in Nat /\ st \in [1..(n + 1) -> Nat] /\ st[1] = 0
  BY ONLY <1>2
<1>8. Growing(n, st)
  BY ONLY <1>4, <1>5, <1>6, <1>7 DEF Growing
<1> QED BY ONLY <1>8 DEF n, st

\* The entries of a PMT follow each other.
LEMMA PmtGrows ==
  ASSUME NEW p \in Pmts, Len(PmtSection(p)) < 4096 PROVE Growing(Len(p.es), PmtStarts(p))
<1> DEFINE n == Len(p.es)  st == PmtStarts(p)  s == PmtSection(p)
<1>1. PmtLaid(p, s, n, st)
  BY PmtIsLaid
<1> HIDE DEF n, st, s
<1>2. /\ n \in Nat /\ st \in [1..(n + 1) -> Nat] /\ st[1] = 0
      /\ Len(s) = 16 + st[n + 1] /\ Len(s) < 4096
      /\ \A k \in 1..n : p.es[k] \in StreamEntries
      /\ \A k \in 1..n : st[k + 1] = st[k] + (5 + p.es[k].info) /\ st[k + 1] <= st[n + 1]
  BY ONLY <1>1 DEF PmtLaid
<1>3. ASSUME NEW k \in 1..n PROVE st[k] < st[k + 1] /\ st[k + 1] <= st[n + 1]
  <2> DEFINE a == st[k]  b == st[k + 1]  z == st[n + 1]  d == p.es[k].info
  <2>1. b = a + (5 + d) /\ b <= z /\ p.es[k] \in StreamEntries
    BY ONLY <1>2, k \in 1..n
  <2>2. a \in Nat
    BY <1>2
  <2>3. d \in Nat
    <3>1. d \in Lengths
      BY ONLY <2>1 DEF StreamEntries
    <3> QED BY ONLY <3>1, LengthIs
  <2> HIDE DEF a, b, z, d
  <2>4. a < b
    BY ONLY <2>1, <2>2, <2>3, EntryGrows
  <2> QED BY ONLY <2>1, <2>4 DEF a, b, z
<1>4. st[n + 1] \in Nat
  BY <1>2
<1>5. 15 + st[n + 1] < 4096
  <2>1. 16 + st[n + 1] < 4096
    BY ONLY <1>2
  <2>2. \A x \in Nat : 16 + x < 4096 => 15 + x < 4096
    OBVIOUS
  <2> QED BY ONLY <1>4, <2>1, <2>2
<1>6. \A k \in 1..n : st[k] < st[k + 1] /\ st[k + 1] <= st[n + 1]
  BY ONLY <1>3
<1>7. n \in Nat /\ st \in [1..(n + 1) -> Nat] /\ st[1] = 0
  BY ONLY <1>2
<1>8. Growing(n, st)
  BY ONLY <1>4, <1>5, <1>6, <1>7 DEF Growing
<1> QED BY ONLY <1>8 DEF n, st

\* So the count-down is zero behind the last entry, and nowhere else.
LEMMA GrowingIsLeft ==
  ASSUME NEW n, NEW st, Growing(n, st), NEW e \in 1..(n + 1)
  PROVE  st[n + 1] - st[e] = 0 <=> e = n + 1
<1>1. /\ n \in Nat /\ st \in [1..(n + 1) -> Nat]
      /\ \A k \in 1..n : st[k] < st[k + 1] /\ st[k + 1] <= st[n + 1]
  BY DEF Growing
<1> QED BY ONLY <1>1, e \in 1..(n + 1), EntryIsLeft

\* The parser goes on in the SDT.
LEMMA AtSkips ==
  ASSUME at \in AtTypes, NEW a \in Words, NEW b \in Nat, NEW c \in Nat,
         at' = [at EXCEPT !.sl = a, !.pos = b, !.j = c]
  PROVE  at' \in AtTypes /\ at'.pc = at.pc /\ at'.sl = a /\ at'.pos = b /\ at'.j = c
  BY DEF AtTypes

\* The next entry, e of n, has this place and length, d bytes behind its first five.
NextEntry(n, st, e, d) ==
  /\ e \in 1..n /\ e + 1 \in 1..(n + 1)
  /\ st[e] \in Nat /\ st[e + 1] \in Nat /\ st[n + 1] \in Nat
  /\ st[e + 1] = st[e] + (5 + d) /\ st[e + 1] <= st[n + 1] /\ st[n + 1] < 65536

\* Skipping it, the parser is at the one behind it.
LEMMA NextIsSkipped ==
  ASSUME NEW n, NEW st, NEW e, NEW d \in Nat, NEW first \in Nat, NextEntry(n, st, e, d),
         AtEntry(st, n, e, first)
  PROVE  /\ (at.sl - (d + 5)) % 65536 = st[n + 1] - st[e + 1]
         /\ st[n + 1] - st[e + 1] \in Words
         /\ at.pos + (d + 5) = first + st[e + 1] /\ first + st[e + 1] \in Nat
<1> DEFINE a == st[e]  b == st[e + 1]  c == st[n + 1]
<1>1. a \in Nat /\ b \in Nat /\ c \in Nat /\ b = a + (5 + d) /\ b <= c /\ c < 65536
  BY DEF NextEntry
<1>2. at.sl = c - a /\ at.pos = first + a
  BY DEF AtEntry
<1> HIDE DEF a, b, c
<1>3. Skipped(first, a, b, c, d)
  BY ONLY <1>1, d \in Nat, first \in Nat, SkipIs
<1>4. /\ ((c - a) - (d + 5)) % 65536 = c - b /\ c - b \in Words
      /\ (first + a) + (d + 5) = first + b /\ first + b \in Nat
  BY ONLY <1>3 DEF Skipped
<1>5. (at.sl - (d + 5)) % 65536 = c - b
  BY ONLY <1>2, <1>4
<1>6. at.pos + (d + 5) = first + b
  BY ONLY <1>2, <1>4
<1>7. /\ (at.sl - (d + 5)) % 65536 = c - b
      /\ c - b \in Words /\ at.pos + (d + 5) = first + b /\ first + b \in Nat
  BY ONLY <1>4, <1>5, <1>6
<1> QED BY ONLY <1>7 DEF a, b, c

\* Service k is read.
SdtEntryRead(m, k) ==
  LET pos == 11 + SdtStarts(m)[k]  e == m.sdt[k]  name == NameAt(pos) IN
  /\ InSection(pos + 8) /\ InSection(name - 1) /\ InSection(name + Byte(name - 1) - 1)
  /\ Word(pos) = e.id /\ Word(pos + 3) % 4096 = Len(Descriptors(e)) /\ Byte(pos + 7) = e.type
  /\ [q \in 1..Byte(name - 1) |-> Byte(name + q - 1)] = e.name

\* The lemma above in these words.
LEMMA SdtReadsIt ==
  ASSUME NEW m, HandledSdt(m), section = SdtSection(m), NEW k \in 1..Len(m.sdt)
  PROVE  SdtEntryRead(m, k)
  BY SdtReads DEF SdtEntryRead

\* Entry k of the table, in its place.
LEMMA SdtNext ==
  ASSUME NEW m, HandledSdt(m), NEW k \in 1..Len(m.sdt)
  PROVE  NextEntry(Len(m.sdt), SdtStarts(m), k, Len(Descriptors(m.sdt[k])))
         /\ Len(Descriptors(m.sdt[k])) \in Nat
<1> DEFINE n == Len(m.sdt)  st == SdtStarts(m)  s == SdtSection(m)
<1>1. SdtLaid(m, s, n, st)
  BY SdtIsLaid
<1>2. k \in 1..n
  OBVIOUS
<1>3. Growing(n, st)
  BY SdtGrows
<1> HIDE DEF n, st, s
<1> DEFINE d == Len(Descriptors(m.sdt[k]))
<1>4. n \in Nat /\ st \in [1..(n + 1) -> Nat] /\ d \in Lengths
      /\ st[k + 1] = st[k] + (5 + d) /\ st[k + 1] <= st[n + 1]
  BY ONLY <1>1, <1>2 DEF SdtLaid
<1>5. d \in Nat
  BY ONLY <1>4, LengthIs
<1> HIDE DEF d
<1>6. k \in 1..(n + 1) /\ k + 1 \in 1..(n + 1) /\ n + 1 \in 1..(n + 1)
  BY ONLY <1>2, <1>4
<1>7. st[k] \in Nat /\ st[k + 1] \in Nat /\ st[n + 1] \in Nat
  BY ONLY <1>4, <1>6
<1>8. st[n + 1] < 65536
  <2>1. 15 + st[n + 1] < 4096
    BY ONLY <1>3 DEF Growing
  <2>2. \A x \in Nat : 15 + x < 4096 => x < 65536
    OBVIOUS
  <2> QED BY ONLY <1>7, <2>1, <2>2
<1>9. NextEntry(n, st, k, d)
  BY ONLY <1>2, <1>4, <1>6, <1>7, <1>8 DEF NextEntry
<1> QED BY ONLY <1>5, <1>9 DEF n, st, d

\* A turn of the loop of parse_SDT names one service more.
LEMMA SdtEntryKeeps ==
  ASSUME AllHandled, TableInv, SdtEntry PROVE TableInv'
<1> DEFINE n == Len(mux.sdt)  st == SdtStarts(mux)  k == at.j + 1  e == mux.sdt[k]
           d == Len(Descriptors(e))  pos == at.pos  name == NameAt(pos)
<1>1. HandledPat(mux.pat) /\ HandledSdt(mux)
  BY HandledIs
<1>2. at.pc = "SDT" /\ at.sl # 0 /\ at \in AtTypes
  BY DEF SdtEntry, TableInv, ParserTypes, AtTypes
<1>3. /\ section = SdtSection(mux) /\ at.j \in 0..n /\ DOMAIN SDT = 1..n
      /\ AtEntry(st, n, k, 11) /\ Named(at.j)
      /\ parsed.PAT /\ ~parsed.SDT
  BY <1>2 DEF TableInv, InSdt, InOrder
<1>4. Growing(n, st)
  BY <1>1, SdtGrows
<1>5. n \in Nat
  BY <1>4 DEF Growing
<1>6. k \in 1..(n + 1) /\ at.j \in Nat /\ k \in Nat
  BY <1>3, <1>5
<1> HIDE DEF n, st
<1>7. k # n + 1
  <2>1. st[n + 1] - st[k] = 0 <=> k = n + 1
    BY ONLY <1>4, <1>6, GrowingIsLeft
  <2>2. at.sl = st[n + 1] - st[k]
    BY ONLY <1>3 DEF AtEntry
  <2> QED BY ONLY <1>2, <2>1, <2>2
<1>8. k \in 1..n
  BY ONLY <1>5, <1>6, <1>7
<1>9. NextEntry(n, st, k, d) /\ d \in Nat
  BY ONLY <1>1, <1>8, SdtNext DEF n, st
<1>10. SdtEntryRead(mux, k)
  BY ONLY <1>1, <1>3, <1>8, SdtReadsIt DEF n
<1>11. pos = 11 + st[k]
  BY ONLY <1>3 DEF AtEntry
<1>12. /\ InSection(pos + 8) /\ InSection(name - 1) /\ InSection(name + Byte(name - 1) - 1)
       /\ Word(pos) = e.id /\ Word(pos + 3) % 4096 = d
       /\ [q \in 1..Byte(name - 1) |-> Byte(name + q - 1)] = e.name
  BY ONLY <1>10, <1>11 DEF SdtEntryRead, st
<1> HIDE DEF k, e, d, pos, name
<1> DEFINE id == Word(pos)  w == Word(pos + 3) % 4096  type == Byte(pos + 7)
           nm == [q \in 1..Byte(name - 1) |-> Byte(name + q - 1)]
           v == [service_id |-> id, service_type |-> type, service_name |-> nm]
<1>120. id = e.id /\ w = d /\ nm = e.name
  BY ONLY <1>12
<1>13. /\ UNCHANGED <<mux, section, PAT, parsed>>
       /\ SDT' = [SDT EXCEPT ![k] = v]
       /\ at' = [at EXCEPT !.sl = (@ - (w + 5)) % 65536, !.pos = @ + (w + 5), !.j = @ + 1]
  <2>1. k \in DOMAIN SDT
    BY <1>3, <1>8
  <2> QED BY <1>12, <2>1 DEF SdtEntry, k, pos, name
<1>14. v.service_id = id /\ v.service_name = nm
  OBVIOUS
<1> HIDE DEF id, w, type, nm, v
<1>15. /\ (at.sl - (d + 5)) % 65536 = st[n + 1] - st[k + 1]
       /\ st[n + 1] - st[k + 1] \in Words
       /\ at.pos + (d + 5) = 11 + st[k + 1] /\ 11 + st[k + 1] \in Nat
  <2>1. 11 \in Nat
    OBVIOUS
  <2> QED BY ONLY <1>3, <1>9, <2>1, NextIsSkipped
<1>16. at' \in AtTypes /\ at'.pc = "SDT" /\ at'.sl = st[n + 1] - st[k + 1] /\ at'.pos = 11 + st[k + 1]
       /\ at'.j = k
  <2> DEFINE a == (at.sl - (d + 5)) % 65536  b == at.pos + (d + 5)  c == at.j + 1
  <2>1. at' = [at EXCEPT !.sl = (@ - (d + 5)) % 65536, !.pos = @ + (d + 5), !.j = @ + 1]
    BY ONLY <1>120, <1>13
  <2>2. at' = [at EXCEPT !.sl = a, !.pos = b, !.j = c]
    BY ONLY <1>2, <2>1 DEF AtTypes
  <2>3. a \in Words /\ b \in Nat /\ c \in Nat /\ a = st[n + 1] - st[k + 1] /\ b = 11 + st[k + 1] /\ c = k
    BY ONLY <1>6, <1>15 DEF k
  <2> HIDE DEF a, b, c
  <2>4. at' \in AtTypes /\ at'.pc = at.pc /\ at'.sl = a /\ at'.pos = b /\ at'.j = c
    BY ONLY <1>2, <2>2, <2>3, AtSkips
  <2> QED BY ONLY <1>2, <2>3, <2>4
<1>17. parsed.PMT = {}
  BY <1>3 DEF TableInv, InOrder
<1>18. ParserTypes'
  BY <1>13, <1>16 DEF TableInv, ParserTypes, AtTypes
<1>19. InOrder' /\ ProgramsListed' /\ ServicesListed' /\ ProgramsShown' /\ InPat' /\ InPmt'
  BY <1>3, <1>13, <1>16, <1>17
     DEF TableInv, InOrder, ProgramsListed, Listed, ServicesListed, ProgramsShown, InPat, InPmt
<1>20. InSdt'
  <2>1. section' = SdtSection(mux') /\ DOMAIN SDT' = 1..Len(mux'.sdt)
    BY ONLY <1>3, <1>13 DEF n
  <2>2. at'.j \in 0..Len(mux'.sdt)
    <3>1. k \in 0..n
      BY ONLY <1>5, <1>8
    <3> QED BY ONLY <1>13, <1>16, <3>1 DEF n
  <2>30. ASSUME NEW l \in 1..k
         PROVE  SDT'[l].service_id = mux.sdt[l].id /\ SDT'[l].service_name = mux.sdt[l].name
    <3>1. l \in 1..n /\ l \in DOMAIN SDT
      BY ONLY <1>3, <1>5, <1>8
    <3>2. CASE l = k
      <4>1. k \in DOMAIN SDT
        BY ONLY <3>1, <3>2
      <4>2. SDT'[k] = v
        BY ONLY <1>13, <4>1
      <4>3. SDT'[k].service_id = e.id /\ SDT'[k].service_name = e.name
        BY ONLY <1>120, <1>14, <4>2
      <4>4. SDT'[k].service_id = mux.sdt[k].id /\ SDT'[k].service_name = mux.sdt[k].name
        BY ONLY <4>3 DEF e
      <4> QED BY ONLY <3>2, <4>4
    <3>3. CASE l # k
      <4>1. l \in 1..at.j
        BY ONLY <1>6, <3>3, NotLast, l \in 1..k DEF k
      <4>2. SDT'[l] = SDT[l]
        BY ONLY <1>13, <3>1, <3>3
      <4> QED BY ONLY <1>3, <4>1, <4>2 DEF Named
    <3> QED BY <3>2, <3>3
  <2>31. mux' = mux
    BY ONLY <1>13
  <2>3. \A l \in 1..k : /\ SDT'[l].service_id = mux'.sdt[l].id
                        /\ SDT'[l].service_name = mux'.sdt[l].name
    BY ONLY <2>30, <2>31
  <2>4. Named(at.j)'
    BY ONLY <1>16, <2>3 DEF Named
  <2>5. AtEntry(SdtStarts(mux), Len(mux.sdt), at.j + 1, 11)'
    BY ONLY <1>13, <1>16 DEF AtEntry, n, st
  <2> QED BY ONLY <1>16, <2>1, <2>2, <2>4, <2>5 DEF InSdt
<1> QED BY <1>18, <1>19, <1>20 DEF TableInv

\* parse_SDT returns: the loop has seen every service.
LEMMA SdtEndsKeeps ==
  ASSUME AllHandled, TableInv, SdtEnds PROVE TableInv'
<1> DEFINE n == Len(mux.sdt)  st == SdtStarts(mux)  k == at.j + 1
<1>1. HandledSdt(mux)
  BY HandledIs
<1>2. /\ at.pc = "SDT" /\ at.sl = 0
      /\ at' = Idle /\ section' = <<>> /\ parsed' = [parsed EXCEPT !["SDT"] = TRUE]
      /\ UNCHANGED <<mux, PAT, SDT>>
  BY DEF SdtEnds, Parsed
<1>3. /\ at.j \in 0..n /\ DOMAIN SDT = 1..n /\ AtEntry(st, n, k, 11) /\ Named(at.j)
      /\ parsed.PAT /\ ~parsed.SDT
  BY <1>2 DEF TableInv, InSdt, InOrder
<1>4. Growing(n, st)
  BY <1>1, SdtGrows
<1>5. n \in Nat /\ k \in 1..(n + 1)
  BY <1>3, <1>4 DEF Growing
<1>6. at.j = n
  <2>1. st[n + 1] - st[k] = 0 <=> k = n + 1
    BY ONLY <1>4, <1>5, GrowingIsLeft
  <2>2. at.sl = st[n + 1] - st[k]
    BY ONLY <1>3 DEF AtEntry
  <2>3. at.j + 1 = n + 1
    BY ONLY <1>2, <2>1, <2>2
  <2>4. \A x \in 0..n : x + 1 = n + 1 => x = n
    BY <1>5
  <2> QED BY ONLY <1>3, <2>3, <2>4
<1>7. at' \in AtTypes /\ at'.pc = "idle"
  <2>1. 0 \in Words
    BY DEF Words
  <2> QED BY <1>2, <2>1 DEF Idle, AtTypes
<1>8. parsed' \in [PAT : BOOLEAN, SDT : BOOLEAN, PMT : SUBSET Nat] /\ parsed'.SDT
      /\ parsed'.PMT = parsed.PMT /\ parsed'.PAT = parsed.PAT
  BY <1>2 DEF TableInv, ParserTypes
<1>9. parsed.PMT = {}
  BY <1>3 DEF TableInv, InOrder
<1>10. ParserTypes'
  BY <1>2, <1>7, <1>8 DEF TableInv, ParserTypes, AtTypes
<1>11. DOMAIN SDT' = 1..Len(mux'.sdt) /\ Named(Len(mux.sdt))'
  BY <1>2, <1>3, <1>6 DEF Named
<1>12. InOrder' /\ ProgramsListed' /\ ServicesListed' /\ ProgramsShown' /\ InPat' /\ InSdt' /\ InPmt'
  BY <1>2, <1>3, <1>7, <1>8, <1>9, <1>11
     DEF TableInv, InOrder, ProgramsListed, Listed, ServicesListed, ProgramsShown, InPat, InSdt, InPmt
<1> QED BY <1>10, <1>12 DEF TableInv

\* The programs in the memory of the PAT are those of the multiplex, each once.
ProgramsAre ==
  /\ DOMAIN PAT.pmts = 1..Len(PAT.pmts) /\ Len(PAT.pmts) \in Nat
  /\ \A k \in 1..Len(mux.pat) : mux.pat[k].pr # 0 => Place(mux.pat, k) \in DOMAIN PAT.pmts
  /\ \A k, l \in DOMAIN PAT.pmts : PAT.pmts[k].pr_num = PAT.pmts[l].pr_num => k = l
  /\ \A n \in DOMAIN mux.pmts : \E k \in DOMAIN PAT.pmts : PAT.pmts[k].pr_num = mux.pmts[n].pr

\* Once the PAT is parsed.
LEMMA TheProgramsAre ==
  ASSUME AllHandled, TableInv, parsed.PAT PROVE ProgramsAre
<1> DEFINE N == Len(mux.pat)
<1>1. HandledPat(mux.pat) /\ HandledPmts(mux.pmts, mux.pat)
  BY HandledIs
<1>2. PAT \in [pmt_count : Bytes, pmts : Seq(PmtRecords)] /\ Len(PAT.pmts) = PAT.pmt_count
      /\ PAT.pmt_count = N - 1 /\ Listed(N)
  BY DEF TableInv, ParserTypes, ProgramsListed
<1>3. DOMAIN PAT.pmts = 1..Len(PAT.pmts) /\ Len(PAT.pmts) \in Nat /\ Len(PAT.pmts) = N - 1
  BY ONLY <1>2, SMTT(20)
<1>4. /\ N \in 1..256 /\ DOMAIN mux.pat = 1..N
      /\ \A k, l \in 1..N : mux.pat[k].pr = mux.pat[l].pr => k = l
  BY ONLY <1>1 DEF HandledPat
<1>5. /\ \A k \in 1..N : mux.pat[k].pr # 0 => Place(mux.pat, k) \in 1..N - 1
      /\ \A j \in 1..N - 1 : \E k \in 1..N : mux.pat[k].pr # 0 /\ Place(mux.pat, k) = j
  BY <1>1, PlacesGrow
<1>6. \A k \in 1..N : mux.pat[k].pr # 0 => PAT.pmts[Place(mux.pat, k)].pr_num = mux.pat[k].pr
  BY ONLY <1>2 DEF Listed
<1>7. \A n \in DOMAIN mux.pmts : \E k \in 1..N : mux.pat[k].pr = mux.pmts[n].pr /\ mux.pat[k].pr # 0
  BY ONLY <1>1, <1>4 DEF HandledPmts
<1> HIDE DEF N
<1>8. DOMAIN PAT.pmts = 1..N - 1
  BY ONLY <1>3
<1>9. ASSUME NEW j \in DOMAIN PAT.pmts, NEW l \in DOMAIN PAT.pmts, PAT.pmts[j].pr_num = PAT.pmts[l].pr_num
      PROVE  j = l
  <2>1. PICK a \in 1..N : mux.pat[a].pr # 0 /\ Place(mux.pat, a) = j
    BY ONLY <1>5, <1>8, j \in DOMAIN PAT.pmts
  <2>2. PICK b \in 1..N : mux.pat[b].pr # 0 /\ Place(mux.pat, b) = l
    BY ONLY <1>5, <1>8, l \in DOMAIN PAT.pmts
  <2>3. mux.pat[a].pr = mux.pat[b].pr
    BY ONLY <1>6, <1>9, <2>1, <2>2
  <2>4. a = b
    BY ONLY <1>4, <2>3
  <2> QED BY ONLY <2>1, <2>2, <2>4
<1>10. ASSUME NEW n \in DOMAIN mux.pmts PROVE \E k \in DOMAIN PAT.pmts : PAT.pmts[k].pr_num = mux.pmts[n].pr
  <2>1. PICK k \in 1..N : mux.pat[k].pr = mux.pmts[n].pr /\ mux.pat[k].pr # 0
    BY ONLY <1>7, n \in DOMAIN mux.pmts
  <2> QED BY ONLY <1>5, <1>6, <1>8, <2>1
<1>11. \A k \in 1..Len(mux.pat) : mux.pat[k].pr # 0 => Place(mux.pat, k) \in DOMAIN PAT.pmts
  BY ONLY <1>5, <1>8 DEF N
<1>12. \A k, l \in DOMAIN PAT.pmts : PAT.pmts[k].pr_num = PAT.pmts[l].pr_num => k = l
  BY ONLY <1>9
<1>13. \A n \in DOMAIN mux.pmts : \E k \in DOMAIN PAT.pmts : PAT.pmts[k].pr_num = mux.pmts[n].pr
  BY ONLY <1>10
<1> QED BY ONLY <1>3, <1>11, <1>12, <1>13 DEF ProgramsAre

\* Which PMT is being parsed.
LEMMA PmtUnderway ==
  ASSUME AllHandled, TableInv, at.pc \in {"find_PMT", "parse_PMT", "PMT"}
  PROVE  /\ parsed.SDT /\ parsed.PAT /\ at \in AtTypes
         /\ PAT \in [pmt_count : Bytes, pmts : Seq(PmtRecords)] /\ Len(PAT.pmts) = PAT.pmt_count
         /\ ProgramsAre
         /\ \E n \in DOMAIN mux.pmts, p \in Pmts :
              p = mux.pmts[n] /\ Len(PmtSection(p)) < 4096 /\ InPmtOf(p)
<1>1. parsed.SDT /\ parsed.PAT
  BY DEF TableInv, InOrder
<1>2. ProgramsAre
  BY <1>1, TheProgramsAre
<1>3. PICK n \in DOMAIN mux.pmts : InPmtOf(mux.pmts[n])
  BY DEF TableInv, InPmt
<1>4. mux.pmts[n] \in Pmts /\ Len(PmtSection(mux.pmts[n])) < 4096
  <2>1. HandledPmts(mux.pmts, mux.pat)
    BY HandledIs
  <2> QED BY <2>1 DEF HandledPmts
<1>5. at \in AtTypes /\ PAT \in [pmt_count : Bytes, pmts : Seq(PmtRecords)] /\ Len(PAT.pmts) = PAT.pmt_count
  BY DEF TableInv, ParserTypes, AtTypes
<1> QED BY ONLY <1>1, <1>2, <1>3, <1>4, <1>5

\* The program a PMT is for.
LEMMA PmtNumber ==
  ASSUME NEW p \in Pmts, Len(PmtSection(p)) < 4096, section = PmtSection(p)
  PROVE  Word(3) = p.pr /\ p.pr \in Nat
<1>1. section[4] * 256 + section[5] = p.pr
  BY PmtBytes
<1>2. Byte(3) = section[4] /\ Byte(3 + 1) = section[5]
  BY DEF Byte
<1>3. p.pr \in Words
  BY DEF Pmts
<1> QED BY ONLY <1>1, <1>2, <1>3, WordIs DEF Word

\* The search of parse_PMT stays in the array: the program is behind.
LEMMA FindPmtKeeps ==
  ASSUME AllHandled, TableInv, FindPmt PROVE TableInv'
<1> DEFINE q == at.j + 1
<1>1. at.pc = "find_PMT"
  BY DEF FindPmt
<1>2. /\ parsed.SDT /\ parsed.PAT /\ at \in AtTypes /\ ProgramsAre
      /\ \E n \in DOMAIN mux.pmts, p \in Pmts :
           p = mux.pmts[n] /\ Len(PmtSection(p)) < 4096 /\ InPmtOf(p)
  BY <1>1, PmtUnderway
<1>3. PICK n \in DOMAIN mux.pmts, p \in Pmts :
        p = mux.pmts[n] /\ Len(PmtSection(p)) < 4096 /\ InPmtOf(p)
  BY ONLY <1>2
<1>4. /\ section = PmtSection(p)
      /\ \A k \in DOMAIN PAT.pmts : k <= at.j => PAT.pmts[k].pr_num # p.pr
  BY ONLY <1>1, <1>3 DEF InPmtOf
<1>5. Word(3) = p.pr
  BY ONLY <1>3, <1>4, PmtNumber
<1>6. at.j \in Nat
  BY <1>2 DEF AtTypes
<1>7. q \in DOMAIN PAT.pmts
  <2>1. PICK k \in DOMAIN PAT.pmts : PAT.pmts[k].pr_num = p.pr
    BY ONLY <1>2, <1>3 DEF ProgramsAre
  <2>2. ~(k <= at.j)
    BY ONLY <1>4, <2>1
  <2>3. DOMAIN PAT.pmts = 1..Len(PAT.pmts) /\ Len(PAT.pmts) \in Nat
    BY ONLY <1>2 DEF ProgramsAre
  <2> QED BY ONLY <1>6, <2>1, <2>2, <2>3
<1>8. /\ UNCHANGED <<mux, section, PAT, SDT, parsed>>
      /\ at' = IF PAT.pmts[q].pr_num = p.pr THEN [at EXCEPT !.pc = "parse_PMT"] ELSE [at EXCEPT !.j = @ + 1]
  BY <1>5, <1>7 DEF FindPmt
<1>9. CASE PAT.pmts[q].pr_num = p.pr
  <2>1. at' \in AtTypes /\ at'.pc = "parse_PMT" /\ at'.j = at.j
    BY <1>2, <1>8, <1>9 DEF AtTypes
  <2>2. ParserTypes'
    BY <1>8, <2>1 DEF TableInv, ParserTypes, AtTypes
  <2>3. InOrder' /\ ProgramsListed' /\ ServicesListed' /\ ProgramsShown' /\ InPat' /\ InSdt'
    BY <1>1, <1>2, <1>8, <2>1
       DEF TableInv, InOrder, ProgramsListed, Listed, ServicesListed, Named, ProgramsShown, InPat, InSdt
  <2>4. InPmtOf(p)'
    BY <1>4, <1>7, <1>8, <1>9, <2>1 DEF InPmtOf
  <2>5. InPmt'
    BY <1>3, <1>8, <2>4 DEF InPmt
  <2> QED BY <2>2, <2>3, <2>5 DEF TableInv
<1>10. CASE PAT.pmts[q].pr_num # p.pr
  <2>1. at' \in AtTypes /\ at'.pc = "find_PMT" /\ at'.j = at.j + 1
    BY <1>1, <1>2, <1>8, <1>10 DEF AtTypes
  <2>2. ParserTypes'
    BY <1>8, <2>1 DEF TableInv, ParserTypes, AtTypes
  <2>3. InOrder' /\ ProgramsListed' /\ ServicesListed' /\ ProgramsShown' /\ InPat' /\ InSdt'
    BY <1>1, <1>2, <1>8, <2>1
       DEF TableInv, InOrder, ProgramsListed, Listed, ServicesListed, Named, ProgramsShown, InPat, InSdt
  <2>4. \A k \in DOMAIN PAT.pmts : k <= at.j + 1 => PAT.pmts[k].pr_num # p.pr
    <3>1. \A k \in DOMAIN PAT.pmts : k \in Nat
      BY ONLY <1>2 DEF ProgramsAre
    <3>2. \A k \in Nat : k <= at.j + 1 => k <= at.j \/ k = q
      BY ONLY <1>6
    <3> QED BY ONLY <1>4, <1>10, <3>1, <3>2
  <2>5. InPmtOf(p)'
    BY <1>4, <1>8, <2>1, <2>4 DEF InPmtOf
  <2>6. InPmt'
    BY <1>3, <1>8, <2>5 DEF InPmt
  <2> QED BY <2>2, <2>3, <2>6 DEF TableInv
<1> QED BY <1>9, <1>10

\* Writing the streams of a program leaves its number and its PID.
LEMMA NumbersStay ==
  ASSUME NEW q \in DOMAIN PAT.pmts, NEW v, Rewritten(q, v),
         v.pr_num = PAT.pmts[q].pr_num, v.table_id = PAT.pmts[q].table_id
  PROVE  \A k \in DOMAIN PAT.pmts : /\ PAT'.pmts[k].pr_num = PAT.pmts[k].pr_num
                                    /\ PAT'.pmts[k].table_id = PAT.pmts[k].table_id
  BY DEF Rewritten

\* So the list still is the PAT's.
LEMMA ListStays ==
  ASSUME AllHandled, TableInv, parsed.PAT, mux' = mux, parsed' = parsed,
         NEW q \in DOMAIN PAT.pmts, NEW v, Rewritten(q, v),
         v.pr_num = PAT.pmts[q].pr_num, v.table_id = PAT.pmts[q].table_id
  PROVE  ProgramsListed'
<1>1. ProgramsAre
  BY TheProgramsAre
<1>2. \A k \in DOMAIN PAT.pmts : /\ PAT'.pmts[k].pr_num = PAT.pmts[k].pr_num
                                 /\ PAT'.pmts[k].table_id = PAT.pmts[k].table_id
  BY NumbersStay
<1>3. PAT'.pmt_count = PAT.pmt_count
  BY DEF Rewritten
<1>4. PAT.pmt_count = Len(mux.pat) - 1 /\ Listed(Len(mux.pat))
  BY DEF TableInv, ProgramsListed
<1>5. \A k \in 1..Len(mux.pat) : mux.pat[k].pr # 0 => Place(mux.pat, k) \in DOMAIN PAT.pmts
  BY ONLY <1>1 DEF ProgramsAre
<1>6. \A k \in 1..Len(mux.pat) : mux.pat[k].pr # 0 =>
        /\ PAT'.pmts[Place(mux.pat, k)].pr_num = mux.pat[k].pr
        /\ PAT'.pmts[Place(mux.pat, k)].table_id = mux.pat[k].pid
  BY ONLY <1>2, <1>4, <1>5 DEF Listed
<1>7. Listed(Len(mux.pat))'
  BY ONLY <1>6, mux' = mux DEF Listed
<1> QED BY ONLY <1>3, <1>4, <1>7, mux' = mux DEF ProgramsListed

\* The other programs still have what their PMTs say.
LEMMA OthersStay ==
  ASSUME TableInv, mux' = mux, parsed' = parsed, NEW q \in DOMAIN PAT.pmts, NEW v, Rewritten(q, v),
         v.pr_num = PAT.pmts[q].pr_num,
         at.pc = "PMT" => q = at.j + 1, at'.pc = "PMT", q = at'.j + 1
  PROVE  ProgramsShown'
<1> SUFFICES ASSUME NEW k \in DOMAIN PAT'.pmts, NEW n \in DOMAIN mux'.pmts,
                    mux'.pmts[n].pr = PAT'.pmts[k].pr_num, mux'.pmts[n].pr \in parsed'.PMT,
                    ~(at'.pc = "PMT" /\ k = at'.j + 1)
             PROVE  Shows(PAT'.pmts[k], mux'.pmts[n].es, Len(mux'.pmts[n].es))
  BY DEF ProgramsShown, Shows
<1>1. k # q /\ k \in DOMAIN PAT.pmts /\ PAT'.pmts[k] = PAT.pmts[k]
  BY DEF Rewritten
<1>2. ProgramsShown
  BY DEF TableInv
<1>3. Shows(PAT.pmts[k], mux.pmts[n].es, Len(mux.pmts[n].es))
  BY <1>1, <1>2 DEF ProgramsShown
<1> QED BY <1>1, <1>3

\* No stream has been read.
LEMMA NothingShown ==
  ASSUME NEW r \in PmtRecords, NEW es, NEW v,
         v = [r EXCEPT !.video_pid = NoPid, !.audio_pid = NoPid, !.has_teletext = 0]
  PROVE  v \in PmtRecords /\ v.pr_num = r.pr_num /\ v.table_id = r.table_id /\ Shows(v, es, 0)
<1>1. \A types : FirstPid(es, 0, types) = NoPid /\ HasTeletext(es, 0) = 0
  BY FirstPidStarts
<1> QED BY <1>1 DEF PmtRecords, Shows

\* parse_PMT: the streams of its program are forgotten.
LEMMA ParsePmtKeeps ==
  ASSUME AllHandled, TableInv, parse_PMT PROVE TableInv'
<1> DEFINE q == at.j + 1  r == PAT.pmts[q]  left == (SectionLength - 13) % 65536
           v == [r EXCEPT !.video_pid = NoPid, !.audio_pid = NoPid, !.has_teletext = 0]
<1>1. at.pc = "parse_PMT"
  BY DEF parse_PMT
<1>2. /\ parsed.SDT /\ parsed.PAT /\ at \in AtTypes
      /\ PAT \in [pmt_count : Bytes, pmts : Seq(PmtRecords)] /\ Len(PAT.pmts) = PAT.pmt_count
      /\ ProgramsAre
      /\ \E n \in DOMAIN mux.pmts, p \in Pmts :
           p = mux.pmts[n] /\ Len(PmtSection(p)) < 4096 /\ InPmtOf(p)
  BY <1>1, PmtUnderway
<1>3. PICK n \in DOMAIN mux.pmts, p \in Pmts :
        p = mux.pmts[n] /\ Len(PmtSection(p)) < 4096 /\ InPmtOf(p)
  BY ONLY <1>2
<1>4. section = PmtSection(p) /\ q \in DOMAIN PAT.pmts /\ PAT.pmts[q].pr_num = p.pr
  BY <1>1, <1>3 DEF InPmtOf
<1>5. r \in PmtRecords
  BY ONLY <1>2, <1>4
<1>6. /\ UNCHANGED <<mux, section, SDT, parsed>>
      /\ at' = [at EXCEPT !.pc = "PMT", !.sl = left, !.pos = 12]
  BY DEF parse_PMT
<1>7. PAT' = [PAT EXCEPT !.pmts = [@ EXCEPT ![q] = v]]
  <2>1. PAT' = [PAT EXCEPT !.pmts[q] = [@ EXCEPT !.video_pid = NoPid, !.audio_pid = NoPid, !.has_teletext = 0]]
    BY DEF parse_PMT
  <2> QED BY ONLY <1>2, <1>4, <2>1
<1>8. v \in PmtRecords /\ v.pr_num = r.pr_num /\ v.table_id = r.table_id /\ Shows(v, p.es, 0)
  BY ONLY <1>5, NothingShown
<1> DEFINE m == Len(p.es)  st == PmtStarts(p)
<1>9. Growing(m, st)
  BY ONLY <1>3, PmtGrows
<1>10. (section[2] % 16) * 256 + section[3] = 13 + st[m + 1]
  BY ONLY <1>3, <1>4, PmtBytes, SMTT(20)
<1> HIDE DEF v, m, st
<1>11. /\ m \in Nat /\ st \in [1..(m + 1) -> Nat] /\ st[1] = 0
       /\ st[m + 1] \in Nat /\ 15 + st[m + 1] < 4096
  BY ONLY <1>9 DEF Growing
<1>12. left = st[m + 1] /\ st[m + 1] \in Words
  <2> DEFINE x == st[m + 1]  l == 13 + x
  <2>1. x \in Nat /\ 15 + x < 4096 /\ 13 \in Nat
    BY ONLY <1>11
  <2>2. l \in Nat /\ (section[2] % 16) * 256 + section[3] = l
    BY ONLY <1>10, <2>1
  <2> HIDE DEF x
  <2>3. Left(l, 13, x)
    BY ONLY <2>1, LeftIs
  <2> HIDE DEF l
  <2>4. SectionLength = l
    BY ONLY <2>2, SectionLengthIs
  <2>5. (SectionLength - 13) % 65536 = x /\ x \in Words
    BY ONLY <2>3, <2>4 DEF Left
  <2> QED BY ONLY <2>5 DEF x, left
<1> HIDE DEF left
<1>13. at' \in AtTypes /\ at'.pc = "PMT" /\ at'.sl = st[m + 1] /\ at'.pos = 12 /\ at'.j = at.j
  <2>1. left \in Words /\ 12 \in Nat /\ "PMT" \in {"SDT", "PMT"}
        /\ at' = [at EXCEPT !.pc = "PMT", !.sl = left, !.pos = 12]
    BY ONLY <1>6, <1>12
  <2>2. at' \in AtTypes /\ at'.pc = "PMT" /\ at'.sl = left /\ at'.pos = 12 /\ at'.j = at.j
    <3>1. at \in AtTypes
      BY ONLY <1>2
    <3> QED BY ONLY <2>1, <3>1, AtSets
  <2> QED BY ONLY <1>12, <2>2
<1>14. Rewritten(q, v)
  BY ONLY <1>2, <1>4, <1>7, <1>8, PatUpdated
<1>15. ProgramsListed'
  <2>1. mux' = mux /\ parsed' = parsed /\ parsed.PAT /\ v.pr_num = PAT.pmts[q].pr_num
        /\ v.table_id = PAT.pmts[q].table_id
    BY ONLY <1>2, <1>6, <1>8
  <2>2. AllHandled /\ TableInv
    OBVIOUS
  <2> QED BY ONLY <1>4, <1>14, <2>1, <2>2, ListStays
<1>16. ProgramsShown'
  <2>1. mux' = mux /\ parsed' = parsed /\ v.pr_num = PAT.pmts[q].pr_num
        /\ (at.pc = "PMT" => q = at.j + 1) /\ at'.pc = "PMT" /\ q = at'.j + 1
    BY ONLY <1>1, <1>6, <1>8, <1>13
  <2>2. TableInv
    OBVIOUS
  <2> QED BY ONLY <1>4, <1>14, <2>1, <2>2, OthersStay
<1>17. ParserTypes'
  BY <1>2, <1>6, <1>13, <1>14 DEF TableInv, ParserTypes, AtTypes, Rewritten
<1>18. InOrder' /\ ServicesListed' /\ InPat' /\ InSdt'
  BY <1>2, <1>6, <1>13 DEF TableInv, InOrder, ServicesListed, Named, InPat, InSdt
<1>19. InPmtOf(p)'
  <2>1. section' = PmtSection(p)
    BY ONLY <1>4, <1>6
  <2>2. at'.j + 1 = q /\ q \in DOMAIN PAT'.pmts /\ PAT'.pmts[q] = v /\ v.pr_num = p.pr
    BY ONLY <1>4, <1>8, <1>13, <1>14 DEF Rewritten
  <2>3. 1 \in 1..(m + 1) /\ 12 = 12 + st[1] /\ st[m + 1] = st[m + 1] - st[1] /\ 1 - 1 = 0
    BY ONLY <1>11
  <2>4. AtEntry(st, m, 1, 12)'
    BY ONLY <1>13, <2>3 DEF AtEntry
  <2>5. Shows(PAT'.pmts[at'.j + 1], p.es, 1 - 1)
    BY ONLY <1>8, <2>2, <2>3
  <2>6. at'.j + 1 \in DOMAIN PAT'.pmts /\ PAT'.pmts[at'.j + 1].pr_num = p.pr
    BY ONLY <2>2
  <2> QED BY ONLY <1>13, <2>1, <2>3, <2>4, <2>5, <2>6 DEF InPmtOf, m, st
<1>20. InPmt'
  <2>1. n \in DOMAIN mux'.pmts /\ mux'.pmts[n] = p
    BY ONLY <1>3, <1>6
  <2> QED BY ONLY <1>19, <2>1 DEF InPmt
<1> QED BY <1>15, <1>16, <1>17, <1>18, <1>20 DEF TableInv

\* One stream more.
LEMMA StreamShown ==
  ASSUME NEW r \in PmtRecords, NEW es, NEW e \in Nat \ {0}, Shows(r, es, e - 1),
         \A k \in 1..e : es[k].pid \in Pids, NoPid \notin Pids,
         NEW v, v = WithStream(r, es[e].type, es[e].pid)
  PROVE  v \in PmtRecords /\ v.pr_num = r.pr_num /\ v.table_id = r.table_id /\ Shows(v, es, e)
<1>1. \A k \in 1..e : es[k].pid # NoPid
  OBVIOUS
<1>2. \A types : FirstPid(es, e, types) =
        IF es[e].type \in types /\ FirstPid(es, e - 1, types) = NoPid THEN es[e].pid
        ELSE FirstPid(es, e - 1, types)
  BY ONLY <1>1, FirstPidGrows, e \in Nat \ {0}
<1>3. HasTeletext(es, e) = IF es[e].type = 6 THEN 1 ELSE HasTeletext(es, e - 1)
  BY ONLY HasTeletextGrows, e \in Nat \ {0}
<1>4. es[e].pid \in Nat
  BY PidIs
<1> DEFINE a == FirstPid(es, e - 1, {1, 2})  b == FirstPid(es, e - 1, {3, 4})
           c == HasTeletext(es, e - 1)  ty == es[e].type  pid == es[e].pid
<1>5. r.video_pid = a /\ r.audio_pid = b /\ r.has_teletext = c
  BY DEF Shows
<1>6. /\ FirstPid(es, e, {1, 2}) = IF ty \in {1, 2} /\ a = NoPid THEN pid ELSE a
      /\ FirstPid(es, e, {3, 4}) = IF ty \in {3, 4} /\ b = NoPid THEN pid ELSE b
      /\ HasTeletext(es, e) = IF ty = 6 THEN 1 ELSE c
  BY ONLY <1>2, <1>3
<1> HIDE DEF a, b, c, ty, pid
<1>7. v = [r EXCEPT !.video_pid = IF ty \in {1, 2} /\ @ = NoPid THEN pid ELSE @,
                    !.audio_pid = IF ty \in {3, 4} /\ @ = NoPid THEN pid ELSE @,
                    !.has_teletext = IF ty = 6 THEN 1 ELSE @]
  BY DEF WithStream, ty, pid
<1>8. pid \in Nat
  BY ONLY <1>4 DEF pid
<1>9. /\ v \in PmtRecords /\ v.pr_num = r.pr_num /\ v.table_id = r.table_id
      /\ v.video_pid = (IF ty \in {1, 2} /\ a = NoPid THEN pid ELSE a)
      /\ v.audio_pid = (IF ty \in {3, 4} /\ b = NoPid THEN pid ELSE b)
      /\ v.has_teletext = (IF ty = 6 THEN 1 ELSE c)
  BY ONLY <1>5, <1>7, <1>8, r \in PmtRecords DEF PmtRecords
<1> QED BY ONLY <1>6, <1>9 DEF Shows

\* Stream k is read.
PmtEntryRead(p, k) ==
  LET pos == 12 + PmtStarts(p)[k]  e == p.es[k] IN
  /\ InSection(pos + 4) /\ Byte(pos) = e.type
  /\ Word(pos + 1) % 8192 = e.pid /\ Word(pos + 3) % 4096 = e.info
  /\ e.type \in Nat /\ e.pid \in Pids /\ e.info \in Nat

\* The lemma above in these words.
LEMMA PmtReadsIt ==
  ASSUME NEW p \in Pmts, Len(PmtSection(p)) < 4096, section = PmtSection(p), NEW k \in 1..Len(p.es)
  PROVE  PmtEntryRead(p, k)
  BY PmtReads DEF PmtEntryRead

\* Stream k of the program, in its place.
LEMMA PmtNext ==
  ASSUME NEW p \in Pmts, Len(PmtSection(p)) < 4096, NEW k \in 1..Len(p.es)
  PROVE  NextEntry(Len(p.es), PmtStarts(p), k, p.es[k].info) /\ p.es[k].info \in Nat
         /\ \A l \in 1..k : p.es[l].pid \in Pids
<1> DEFINE n == Len(p.es)  st == PmtStarts(p)  s == PmtSection(p)
<1>1. PmtLaid(p, s, n, st)
  BY PmtIsLaid
<1>2. k \in 1..n
  OBVIOUS
<1>3. Growing(n, st)
  BY PmtGrows
<1> HIDE DEF n, st, s
<1> DEFINE d == p.es[k].info
<1>4. n \in Nat /\ st \in [1..(n + 1) -> Nat] /\ p.es[k] \in StreamEntries
      /\ st[k + 1] = st[k] + (5 + d) /\ st[k + 1] <= st[n + 1]
  BY ONLY <1>1, <1>2 DEF PmtLaid
<1>5. d \in Nat
  <2>1. d \in Lengths
    BY ONLY <1>4 DEF StreamEntries
  <2> QED BY ONLY <2>1, LengthIs
<1> HIDE DEF d
<1>6. k \in 1..(n + 1) /\ k + 1 \in 1..(n + 1) /\ n + 1 \in 1..(n + 1)
  BY ONLY <1>2, <1>4
<1>7. st[k] \in Nat /\ st[k + 1] \in Nat /\ st[n + 1] \in Nat
  BY ONLY <1>4, <1>6
<1>8. st[n + 1] < 65536
  <2>1. 15 + st[n + 1] < 4096
    BY ONLY <1>3 DEF Growing
  <2>2. \A x \in Nat : 15 + x < 4096 => x < 65536
    OBVIOUS
  <2> QED BY ONLY <1>7, <2>1, <2>2
<1>9. NextEntry(n, st, k, d)
  BY ONLY <1>2, <1>4, <1>6, <1>7, <1>8 DEF NextEntry
<1>10. \A l \in 1..k : p.es[l].pid \in Pids
  <2>1. \A l \in 1..n : p.es[l] \in StreamEntries
    BY ONLY <1>1 DEF PmtLaid
  <2>2. \A l \in 1..k : l \in 1..n
    BY ONLY <1>2, <1>4
  <2>3. \A x \in StreamEntries : x.pid \in Pids
    BY DEF StreamEntries
  <2> QED BY ONLY <2>1, <2>2, <2>3
<1> QED BY ONLY <1>5, <1>9, <1>10 DEF n, st, d

\* The parser goes on in a PMT.
LEMMA AtSkipsOn ==
  ASSUME at \in AtTypes, NEW a \in Words, NEW b \in Nat, at' = [at EXCEPT !.sl = a, !.pos = b]
  PROVE  at' \in AtTypes /\ at'.pc = at.pc /\ at'.sl = a /\ at'.pos = b /\ at'.j = at.j
  BY DEF AtTypes

\* A turn of the loop of parse_PMT shows one stream more.
LEMMA PmtEntryKeeps ==
  ASSUME AllHandled, TableInv, PmtEntry PROVE TableInv'
<1> DEFINE q == at.j + 1  r == PAT.pmts[q]  pos == at.pos
<1>1. at.pc = "PMT" /\ at.sl # 0
  BY DEF PmtEntry
<1>2. /\ parsed.SDT /\ parsed.PAT /\ at \in AtTypes
      /\ PAT \in [pmt_count : Bytes, pmts : Seq(PmtRecords)] /\ Len(PAT.pmts) = PAT.pmt_count
      /\ ProgramsAre
      /\ \E n \in DOMAIN mux.pmts, p \in Pmts :
           p = mux.pmts[n] /\ Len(PmtSection(p)) < 4096 /\ InPmtOf(p)
  BY <1>1, PmtUnderway
<1>3. PICK n \in DOMAIN mux.pmts, p \in Pmts :
        p = mux.pmts[n] /\ Len(PmtSection(p)) < 4096 /\ InPmtOf(p)
  BY ONLY <1>2
<1> DEFINE m == Len(p.es)  st == PmtStarts(p)
<1>4. section = PmtSection(p) /\ q \in DOMAIN PAT.pmts /\ PAT.pmts[q].pr_num = p.pr
  BY <1>1, <1>3 DEF InPmtOf
<1>5. PICK e \in 1..(m + 1) : AtEntry(st, m, e, 12) /\ Shows(r, p.es, e - 1)
  BY ONLY <1>1, <1>3 DEF InPmtOf
<1>6. r \in PmtRecords
  BY ONLY <1>2, <1>4
<1>7. Growing(m, st)
  BY ONLY <1>3, PmtGrows
<1> HIDE DEF m, st
<1>8. m \in Nat
  BY ONLY <1>7 DEF Growing
<1>9. e # m + 1
  <2>1. st[m + 1] - st[e] = 0 <=> e = m + 1
    BY ONLY <1>7, e \in 1..(m + 1), GrowingIsLeft
  <2>2. at.sl = st[m + 1] - st[e]
    BY ONLY <1>5 DEF AtEntry
  <2> QED BY ONLY <1>1, <2>1, <2>2
<1>10. e \in 1..m /\ e \in Nat \ {0} /\ e + 1 \in 1..(m + 1) /\ (e + 1) - 1 = e
  BY ONLY <1>8, <1>9, e \in 1..(m + 1)
<1> DEFINE d == p.es[e].info  pid == p.es[e].pid  type == p.es[e].type
<1>11. NextEntry(m, st, e, d) /\ d \in Nat /\ \A l \in 1..e : p.es[l].pid \in Pids
  BY ONLY <1>3, <1>10, PmtNext DEF m, st
<1>12. PmtEntryRead(p, e)
  BY ONLY <1>3, <1>4, <1>10, PmtReadsIt DEF m
<1>13. pos = 12 + st[e]
  BY ONLY <1>5 DEF AtEntry
<1>14. /\ InSection(pos + 4) /\ Byte(pos) = type
       /\ Word(pos + 1) % 8192 = pid /\ Word(pos + 3) % 4096 = d
  BY ONLY <1>12, <1>13 DEF PmtEntryRead, st
<1> DEFINE b0 == Byte(pos)  w1 == Word(pos + 1) % 8192  w3 == Word(pos + 3) % 4096
           v == WithStream(r, b0, w1)
<1>15. b0 = type /\ w1 = pid /\ w3 = d
  BY ONLY <1>14
<1>16. /\ UNCHANGED <<mux, section, SDT, parsed>>
       /\ at' = [at EXCEPT !.sl = (@ - (w3 + 5)) % 65536, !.pos = @ + (w3 + 5)]
       /\ PAT' = [PAT EXCEPT !.pmts[q] = WithStream(@, b0, w1)]
  BY <1>14 DEF PmtEntry, Skip
<1> HIDE DEF b0, w1, w3, d, pid, type
<1>17. PAT' = [PAT EXCEPT !.pmts = [@ EXCEPT ![q] = v]]
  <2>1. PAT' = [PAT EXCEPT !.pmts[q] = WithStream(@, b0, w1)]
    BY ONLY <1>16
  <2> QED BY ONLY <1>2, <1>4, <2>1
<1>18. v \in PmtRecords /\ v.pr_num = r.pr_num /\ v.table_id = r.table_id /\ Shows(v, p.es, e)
  <2>1. v = WithStream(r, p.es[e].type, p.es[e].pid)
    BY ONLY <1>15 DEF type, pid
  <2>2. NoPid \notin Pids /\ \A l \in 1..e : p.es[l].pid \in Pids
    BY <1>11 DEF AllHandled
  <2> HIDE DEF v
  <2> QED BY ONLY <1>5, <1>6, <1>10, <2>1, <2>2, StreamShown
<1> HIDE DEF v
<1>19. /\ (at.sl - (d + 5)) % 65536 = st[m + 1] - st[e + 1]
       /\ st[m + 1] - st[e + 1] \in Words
       /\ at.pos + (d + 5) = 12 + st[e + 1] /\ 12 + st[e + 1] \in Nat
  <2>1. 12 \in Nat
    OBVIOUS
  <2> QED BY ONLY <1>5, <1>11, <2>1, NextIsSkipped
<1>20. at' \in AtTypes /\ at'.pc = "PMT" /\ at'.sl = st[m + 1] - st[e + 1]
       /\ at'.pos = 12 + st[e + 1] /\ at'.j = at.j
  <2> DEFINE a == (at.sl - (d + 5)) % 65536  b == at.pos + (d + 5)
  <2>1. at' = [at EXCEPT !.sl = (@ - (d + 5)) % 65536, !.pos = @ + (d + 5)]
    BY ONLY <1>15, <1>16
  <2>2. at' = [at EXCEPT !.sl = a, !.pos = b]
    BY ONLY <1>2, <2>1 DEF AtTypes
  <2>3. a \in Words /\ b \in Nat /\ a = st[m + 1] - st[e + 1] /\ b = 12 + st[e + 1]
    BY ONLY <1>19
  <2> HIDE DEF a, b
  <2>4. at' \in AtTypes /\ at'.pc = at.pc /\ at'.sl = a /\ at'.pos = b /\ at'.j = at.j
    <3>1. at \in AtTypes
      BY ONLY <1>2
    <3> QED BY ONLY <2>2, <2>3, <3>1, AtSkipsOn
  <2> QED BY ONLY <1>1, <2>3, <2>4
<1>21. Rewritten(q, v)
  BY ONLY <1>2, <1>4, <1>17, <1>18, PatUpdated
<1>22. mux' = mux /\ parsed' = parsed /\ section' = section /\ SDT' = SDT
  BY ONLY <1>16
<1>23. ProgramsListed'
  <2>1. v.pr_num = PAT.pmts[q].pr_num /\ v.table_id = PAT.pmts[q].table_id /\ parsed.PAT
    BY ONLY <1>2, <1>18
  <2>2. AllHandled /\ TableInv
    OBVIOUS
  <2> QED BY ONLY <1>4, <1>21, <1>22, <2>1, <2>2, ListStays
<1>24. ProgramsShown'
  <2>1. /\ v.pr_num = PAT.pmts[q].pr_num
        /\ (at.pc = "PMT" => q = at.j + 1) /\ at'.pc = "PMT" /\ q = at'.j + 1
    BY ONLY <1>18, <1>20
  <2>2. TableInv
    OBVIOUS
  <2> QED BY ONLY <1>4, <1>21, <1>22, <2>1, <2>2, OthersStay
<1>25. ParserTypes'
  BY <1>2, <1>22, <1>20, <1>21 DEF TableInv, ParserTypes, AtTypes, Rewritten
<1>26. InOrder' /\ ServicesListed' /\ InPat' /\ InSdt'
  BY <1>2, <1>20, <1>22 DEF TableInv, InOrder, ServicesListed, Named, InPat, InSdt
<1>27. InPmtOf(p)'
  <2>1. section' = PmtSection(p)
    BY ONLY <1>4, <1>22
  <2>2. at'.j + 1 = q /\ q \in DOMAIN PAT'.pmts /\ PAT'.pmts[q] = v /\ v.pr_num = p.pr
    BY ONLY <1>4, <1>18, <1>20, <1>21 DEF Rewritten
  <2>4. AtEntry(st, m, e + 1, 12)'
    BY ONLY <1>20 DEF AtEntry
  <2>5. Shows(PAT'.pmts[at'.j + 1], p.es, (e + 1) - 1)
    BY ONLY <1>10, <1>18, <2>2
  <2>6. at'.j + 1 \in DOMAIN PAT'.pmts /\ PAT'.pmts[at'.j + 1].pr_num = p.pr
    BY ONLY <2>2
  <2> QED BY ONLY <1>10, <1>20, <2>1, <2>4, <2>5, <2>6 DEF InPmtOf, m, st
<1>28. InPmt'
  <2>1. n \in DOMAIN mux'.pmts /\ mux'.pmts[n] = p
    BY ONLY <1>3, <1>22
  <2> QED BY ONLY <1>27, <2>1 DEF InPmt
<1> QED BY <1>23, <1>24, <1>25, <1>26, <1>28 DEF TableInv

\* parse_PMT returns: the loop has seen every stream, and no other program has this number.
LEMMA PmtEndsKeeps ==
  ASSUME AllHandled, TableInv, PmtEnds PROVE TableInv'
<1> DEFINE q == at.j + 1
<1>1. at.pc = "PMT" /\ at.sl = 0
  BY DEF PmtEnds
<1>2. /\ parsed.SDT /\ parsed.PAT /\ at \in AtTypes
      /\ PAT \in [pmt_count : Bytes, pmts : Seq(PmtRecords)] /\ Len(PAT.pmts) = PAT.pmt_count
      /\ ProgramsAre
      /\ \E n \in DOMAIN mux.pmts, p \in Pmts :
           p = mux.pmts[n] /\ Len(PmtSection(p)) < 4096 /\ InPmtOf(p)
  BY <1>1, PmtUnderway
<1>3. PICK n \in DOMAIN mux.pmts, p \in Pmts :
        p = mux.pmts[n] /\ Len(PmtSection(p)) < 4096 /\ InPmtOf(p)
  BY ONLY <1>2
<1> DEFINE m == Len(p.es)  st == PmtStarts(p)
<1>4. section = PmtSection(p) /\ q \in DOMAIN PAT.pmts /\ PAT.pmts[q].pr_num = p.pr
  BY <1>1, <1>3 DEF InPmtOf
<1>5. PICK e \in 1..(m + 1) : AtEntry(st, m, e, 12) /\ Shows(PAT.pmts[q], p.es, e - 1)
  BY ONLY <1>1, <1>3 DEF InPmtOf
<1>6. Word(3) = p.pr /\ p.pr \in Nat
  BY ONLY <1>3, <1>4, PmtNumber
<1>7. Growing(m, st)
  BY ONLY <1>3, PmtGrows
<1> HIDE DEF m, st
<1>8. m \in Nat
  BY ONLY <1>7 DEF Growing
<1>9. e = m + 1 /\ e - 1 = m
  <2>1. st[m + 1] - st[e] = 0 <=> e = m + 1
    BY ONLY <1>7, e \in 1..(m + 1), GrowingIsLeft
  <2>2. at.sl = st[m + 1] - st[e]
    BY ONLY <1>5 DEF AtEntry
  <2>3. e = m + 1
    BY ONLY <1>1, <2>1, <2>2
  <2> QED BY ONLY <1>8, <2>3
<1>10. Shows(PAT.pmts[q], p.es, Len(p.es))
  BY ONLY <1>5, <1>9 DEF m
<1>11. /\ at' = Idle /\ section' = <<>> /\ parsed' = [parsed EXCEPT !["PMT"] = parsed.PMT \cup {p.pr}]
       /\ mux' = mux /\ PAT' = PAT /\ SDT' = SDT
  BY <1>6 DEF PmtEnds, Parsed
<1>12. at' \in AtTypes /\ at'.pc = "idle"
  <2>1. 0 \in Words
    BY DEF Words
  <2> QED BY <1>11, <2>1 DEF Idle, AtTypes
<1>13. parsed' \in [PAT : BOOLEAN, SDT : BOOLEAN, PMT : SUBSET Nat] /\ parsed'.PAT = parsed.PAT
       /\ parsed'.PMT = parsed.PMT \cup {p.pr} /\ parsed'.SDT = parsed.SDT
  <2>1. parsed \in [PAT : BOOLEAN, SDT : BOOLEAN, PMT : SUBSET Nat]
    BY DEF TableInv, ParserTypes
  <2> QED BY ONLY <1>6, <1>11, <2>1
<1>14. ParserTypes'
  BY <1>11, <1>12, <1>13 DEF TableInv, ParserTypes, AtTypes
<1>15. InOrder' /\ ProgramsListed' /\ ServicesListed' /\ InPat' /\ InSdt' /\ InPmt'
  <2>1. ProgramsListed /\ ServicesListed /\ parsed.SDT /\ parsed.PAT
    BY <1>2 DEF TableInv
  <2>2. ProgramsListed'
    BY ONLY <1>11, <1>13, <2>1 DEF ProgramsListed, Listed
  <2>3. ServicesListed'
    BY ONLY <1>11, <1>13, <2>1 DEF ServicesListed, Named
  <2>4. InOrder'
    BY ONLY <1>12, <1>13, <2>1 DEF InOrder
  <2>5. InPat' /\ InSdt' /\ InPmt'
    BY ONLY <1>12 DEF InPat, InSdt, InPmt
  <2> QED BY ONLY <2>2, <2>3, <2>4, <2>5
<1>16. ASSUME NEW k \in DOMAIN PAT.pmts, NEW l \in DOMAIN mux.pmts,
              mux.pmts[l].pr = PAT.pmts[k].pr_num, mux.pmts[l].pr \in parsed.PMT \cup {p.pr}
       PROVE  Shows(PAT.pmts[k], mux.pmts[l].es, Len(mux.pmts[l].es))
  <2>1. CASE k = q
    <3>1. mux.pmts[l].pr = mux.pmts[n].pr
      BY ONLY <1>3, <1>4, <1>16, <2>1
    <3>2. HandledPmts(mux.pmts, mux.pat)
      BY HandledIs
    <3>3. l = n
      BY ONLY <1>3, <3>1, <3>2, l \in DOMAIN mux.pmts DEF HandledPmts
    <3> QED BY ONLY <1>3, <1>10, <2>1, <3>3
  <2>2. CASE k # q
    <3>1. PAT.pmts[k].pr_num # PAT.pmts[q].pr_num
      BY ONLY <1>2, <1>4, <2>2, k \in DOMAIN PAT.pmts DEF ProgramsAre
    <3>2. mux.pmts[l].pr \in parsed.PMT
      BY ONLY <1>4, <1>16, <3>1
    <3>3. ProgramsShown
      BY DEF TableInv
    <3> QED BY ONLY <1>16, <2>2, <3>2, <3>3, k \in DOMAIN PAT.pmts, l \in DOMAIN mux.pmts DEF ProgramsShown
  <2> QED BY <2>1, <2>2
<1>17. ProgramsShown'
  BY ONLY <1>11, <1>13, <1>16 DEF ProgramsShown, Shows
<1> QED BY <1>14, <1>15, <1>17 DEF TableInv

\* The invariant is inductive.
LEMMA TableInvIs ==
  ASSUME AllHandled PROVE TableSpec => []TableInv
<1>1. TableInit => TableInv
  BY TableInvStarts
<1>2. TableInv /\ [filter_callback \/ Parse]_tableVars => TableInv'
  <2> SUFFICES ASSUME TableInv, [filter_callback \/ Parse]_tableVars PROVE TableInv'
    OBVIOUS
  <2>1. CASE filter_callback
    BY <2>1, ArrivalKeeps
  <2>2. CASE parse_PAT
    BY <2>2, ParsePatKeeps
  <2>3. CASE PatEntry
    BY <2>3, PatEntryKeeps
  <2>4. CASE PatEnds
    BY <2>4, PatEndsKeeps
  <2>5. CASE FindPmt
    BY <2>5, FindPmtKeeps
  <2>6. CASE parse_PMT
    BY <2>6, ParsePmtKeeps
  <2>7. CASE PmtEntry
    BY <2>7, PmtEntryKeeps
  <2>8. CASE PmtEnds
    BY <2>8, PmtEndsKeeps
  <2>9. CASE parse_SDT
    BY <2>9, ParseSdtKeeps
  <2>10. CASE SdtEntry
    BY <2>10, SdtEntryKeeps
  <2>11. CASE SdtEnds
    BY <2>11, SdtEndsKeeps
  <2>12. CASE UNCHANGED tableVars
    BY <2>12, TableInvStutters
  <2> QED BY <2>1, <2>2, <2>3, <2>4, <2>5, <2>6, <2>7, <2>8, <2>9, <2>10, <2>11, <2>12 DEF Parse
<1> QED BY <1>1, <1>2, PTL DEF TableSpec

\* What it says of the memory.
LEMMA TypesAreBroadcast ==
  ASSUME AllHandled, TableInv PROVE TableTypeOK /\ ParsersStayInside
<1>1. /\ mux \in Multiplexes /\ section \in Seq(Bytes) /\ at \in AtTypes
      /\ PAT \in [pmt_count : Bytes, pmts : Seq(PmtRecords)] /\ Len(PAT.pmts) = PAT.pmt_count
  BY DEF TableInv, ParserTypes, AtTypes
<1>2. \A k \in DOMAIN section : section[k] \in Bytes
  BY ONLY <1>1
<1>3. /\ at.pc \in {"idle", "parse_PAT", "PAT", "find_PMT", "parse_PMT", "PMT", "parse_SDT", "SDT"}
      /\ at.i \in Nat /\ at.j \in Nat /\ at.pos \in Nat /\ at.sl \in Words
  BY ONLY <1>1 DEF AtTypes
<1>4. PAT.pmt_count \in Bytes /\ DOMAIN PAT.pmts = 1..PAT.pmt_count
  BY ONLY <1>1
<1>5. at.pc # "strayed"
      /\ at.pc \in {"idle", "parse_PAT", "PAT", "find_PMT", "parse_PMT", "PMT", "parse_SDT", "SDT", "strayed"}
  BY ONLY <1>3
<1> QED BY ONLY <1>1, <1>2, <1>3, <1>4, <1>5 DEF TableTypeOK, ParsersStayInside

\* What it says of the PAT and the PMTs.
LEMMA TheyMatch ==
  ASSUME AllHandled, TableInv PROVE TablesMatchBroadcast
<1> DEFINE N == Len(mux.pat)
<1>1. HandledPat(mux.pat)
  BY HandledIs
<1>2. at.pc # "strayed"
  BY TypesAreBroadcast, SMTT(20) DEF ParsersStayInside
<1>3. N \in 1..256 /\ Place(mux.pat, N) = N - 1 /\ DOMAIN mux.pat = 1..N
  <2>1. mux.pat \in Seq(ProgramEntries)
    BY ONLY <1>1 DEF HandledPat
  <2> QED BY <1>1, <2>1, PlacesGrow
<1>4. ASSUME parsed.PAT
      PROVE  /\ PAT.pmt_count = Place(mux.pat, N)
             /\ \A k \in DOMAIN mux.pat : mux.pat[k].pr # 0 =>
                  /\ PAT.pmts[Place(mux.pat, k)].pr_num = mux.pat[k].pr
                  /\ PAT.pmts[Place(mux.pat, k)].table_id = mux.pat[k].pid
  <2>1. PAT.pmt_count = N - 1 /\ Listed(N)
    BY <1>4 DEF TableInv, ProgramsListed
  <2> QED BY ONLY <1>3, <2>1 DEF Listed
<1>5. ASSUME at.pc = "idle", NEW k \in DOMAIN PAT.pmts, NEW n \in DOMAIN mux.pmts,
             mux.pmts[n].pr = PAT.pmts[k].pr_num, mux.pmts[n].pr \in parsed.PMT
      PROVE  Shows(PAT.pmts[k], mux.pmts[n].es, Len(mux.pmts[n].es))
  <2>1. ProgramsShown
    BY DEF TableInv
  <2> QED BY ONLY <1>5, <2>1, k \in DOMAIN PAT.pmts, n \in DOMAIN mux.pmts DEF ProgramsShown
<1> QED BY ONLY <1>2, <1>4, <1>5 DEF TablesMatchBroadcast, Shows

\* What it says of the SDT: the entry in the place of a program is the service the
\* broadcaster has in this place, whichever program it is of.
LEMMA TheListNames ==
  ASSUME AllHandled, TableInv PROVE ListNamesPrograms
<1> DEFINE N == Len(mux.pat)
<1> SUFFICES ASSUME parsed.SDT
             PROVE  /\ DOMAIN SDT = DOMAIN PAT.pmts
                    /\ \A k \in DOMAIN mux.pat : mux.pat[k].pr # 0 =>
                         LET digit == Place(mux.pat, k) IN
                         /\ SDT[digit].service_name = mux.sdt[digit].name
                         /\ SDT[digit].service_id = PAT.pmts[digit].pr_num
                              <=> mux.sdt[digit].id = mux.pat[k].pr
  BY DEF ListNamesPrograms
<1>1. HandledPat(mux.pat) /\ HandledSdt(mux)
  BY HandledIs
<1>2. /\ parsed.PAT /\ DOMAIN SDT = 1..Len(mux.sdt) /\ Named(Len(mux.sdt))
      /\ PAT.pmt_count = N - 1 /\ Listed(N)
  BY DEF TableInv, InOrder, ServicesListed, ProgramsListed
<1>3. Len(mux.sdt) = N - 1 /\ DOMAIN mux.pat = 1..N
  BY ONLY <1>1 DEF HandledSdt, HandledPat
<1>4. DOMAIN PAT.pmts = 1..PAT.pmt_count
  BY TypesAreBroadcast DEF TableTypeOK
<1>5. \A a \in 1..N : mux.pat[a].pr # 0 => Place(mux.pat, a) \in 1..N - 1
  BY <1>1, PlacesGrow
<1>6. \A a \in 1..N : mux.pat[a].pr # 0 => PAT.pmts[Place(mux.pat, a)].pr_num = mux.pat[a].pr
  BY ONLY <1>2 DEF Listed
<1>7. \A j \in 1..N - 1 : /\ SDT[j].service_id = mux.sdt[j].id
                         /\ SDT[j].service_name = mux.sdt[j].name
  BY ONLY <1>2, <1>3 DEF Named
<1> HIDE DEF N
<1>8. DOMAIN SDT = DOMAIN PAT.pmts
  BY ONLY <1>2, <1>3, <1>4
<1>9. ASSUME NEW k \in DOMAIN mux.pat, mux.pat[k].pr # 0
      PROVE  LET digit == Place(mux.pat, k) IN
             /\ SDT[digit].service_name = mux.sdt[digit].name
             /\ SDT[digit].service_id = PAT.pmts[digit].pr_num
                  <=> mux.sdt[digit].id = mux.pat[k].pr
  <2> DEFINE d == Place(mux.pat, k)
  <2>1. k \in 1..N
    BY ONLY <1>3, k \in DOMAIN mux.pat
  <2>2. d \in 1..N - 1 /\ PAT.pmts[d].pr_num = mux.pat[k].pr
    BY ONLY <1>5, <1>6, <1>9, <2>1
  <2> HIDE DEF d
  <2>3. SDT[d].service_id = mux.sdt[d].id /\ SDT[d].service_name = mux.sdt[d].name
    BY ONLY <1>7, <2>2
  <2>4. /\ SDT[d].service_name = mux.sdt[d].name
        /\ SDT[d].service_id = PAT.pmts[d].pr_num <=> mux.sdt[d].id = mux.pat[k].pr
    BY ONLY <2>2, <2>3
  <2> QED BY ONLY <2>4 DEF d
<1> QED BY ONLY <1>8, <1>9

(* The PAT and the PMTs are parsed into what is broadcast, and no parser   *)
(* strays: for any multiplex that the parsers handle, however many         *)
(* programs, streams and descriptors it has.                               *)
THEOREM TablesAreTheBroadcast ==
  ASSUME AllHandled PROVE TableSpec => []TablesMatchBroadcast
<1>1. TableInv => TablesMatchBroadcast
  BY TheyMatch
<1> QED BY <1>1, TableInvIs, PTL

(* The list has a line for each digit, with the service that the SDT has   *)
(* in this place: it is that of the digit's program exactly if the         *)
(* broadcaster lists both in one order, which is not assumed.              *)
THEOREM TheListIsOfThePrograms ==
  ASSUME AllHandled PROVE TableSpec => []ListNamesPrograms
<1>1. TableInv => ListNamesPrograms
  BY TheListNames
<1> QED BY <1>1, TableInvIs, PTL

(* The parsers' memory is well formed, and they read and write inside it.  *)
THEOREM TheParsersStayInside ==
  ASSUME AllHandled PROVE TableSpec => [](TableTypeOK /\ ParsersStayInside)
<1>1. TableInv => TableTypeOK /\ ParsersStayInside
  BY TypesAreBroadcast
<1> QED BY <1>1, TableInvIs, PTL
=============================================================================
