------------------------ MODULE StreamControllerProofs ------------------------
(***************************************************************************)
(* Proofs about StreamController for every number of programs, every PMT   *)
(* contents, every set of keys and any number of timer routines.           *)
(***************************************************************************)
EXTENDS StreamController, TLAPS

-----------------------------------------------------------------------------
(* Type correctness. *)

\* The block chosen next is one of the program counters of the stream thread.
LEMMA FirstPendingType ==
  ASSUME NEW f
  PROVE  FirstPending(f) \in {"change", "next", "previous", "info", "list", "unlock"}
BY DEF FirstPending

\* The tables of program counters map program counters to program counters.
LEMMA PcTables ==
  /\ DOMAIN AfterCall = {"remove_audio", "remove_video", "free_filter",
                         "set_filter", "create_video", "create_audio"}
  /\ \A pc \in DOMAIN AfterCall : AfterCall[pc] \in StreamPcs
  /\ \A k \in Kinds : /\ RemovePc[k] \in DOMAIN AfterCall
                      /\ CreatePc[k] \in DOMAIN AfterCall
                      /\ TestPc[k] \in StreamPcs
  /\ DOMAIN AfterTimerPc = {"idle", "clear_spec", "set_time", "lift"}
  /\ \A pc \in DOMAIN AfterTimerPc : AfterTimerPc[pc] \in DOMAIN AfterTimerPc
BY DEF AfterCall, RemovePc, CreatePc, TestPc, StreamPcs, ZapPcs, AfterTimerPc, Kinds

\* A PMT entry holds numbers, also when it is read past the end of the array.
LEMMA ReadPidType ==
  ASSUME TypeOK, NEW k \in Kinds
  PROVE  ReadPid(k) \subseteq Nat
<1>1. CASE pr_counter \in Programs
  <2>1. pmts[pr_counter] \in [Kinds -> Nat]
    BY <1>1 DEF TypeOK
  <2>2. pmts[pr_counter][k] \in Nat
    BY <2>1
  <2> QED
    BY <1>1, <2>2 DEF ReadPid
<1>2. CASE pr_counter \notin Programs
  BY <1>2, PidsAssumption DEF PidsAssumption, ReadPid
<1> QED
  BY <1>1, <1>2

\* The argument of a key handler is a number, and that of change_program a key.
LEMMA KeyType ==
  ASSUME NEW key \in KeyPresses \cup {IdleKey}
  PROVE  /\ key.arg \in Nat
         /\ key.op = "change" => key.arg \in Keys
         /\ key.op \in Requests \cup {"change", "idle"}
<1>1. CASE key = IdleKey
  BY <1>1 DEF IdleKey
<1>2. ASSUME NEW k \in Keys, key = [op |-> "change", arg |-> k]
      PROVE  key.arg \in Nat /\ key.arg \in Keys /\ key.op = "change"
  BY <1>2, ProgramsAssumption DEF ProgramsAssumption
<1>3. ASSUME NEW r \in Requests, key = [op |-> r, arg |-> 0]
      PROVE  key.arg \in Nat /\ key.op = r /\ r # "change"
  BY <1>3, RequestsAssumption DEF RequestsAssumption
<1> QED
  BY <1>1, <1>2, <1>3 DEF KeyPresses

\* Init establishes the type invariant.
LEMMA InitType == Init => TypeOK
<1> SUFFICES ASSUME Init PROVE TypeOK
  OBVIOUS
<1>1. pmts \in [Programs -> [Kinds -> Nat]]
  <2>1. PICK junk \in [Programs -> [Kinds -> Garbage]] :
          pmts = [junk EXCEPT ![StartProgram] = Broadcast[StartProgram]]
    BY DEF Init
  <2>2. [Kinds -> Garbage] \subseteq [Kinds -> Nat]
    BY PidsAssumption DEF PidsAssumption
  <2>3. Broadcast[StartProgram] \in [Kinds -> Nat]
    BY ProgramsAssumption, PidsAssumption DEF ProgramsAssumption, PidsAssumption
  <2> QED
    BY <2>1, <2>2, <2>3
<1>2. streams \in [Kinds -> Nat \cup {None}]
  <2>1. Broadcast[StartProgram] \in [Kinds -> Nat]
    BY ProgramsAssumption, PidsAssumption DEF ProgramsAssumption, PidsAssumption
  <2> QED
    BY <2>1 DEF Init
<1>3. section \in [pc : {"idle", "reset_video", "reset_audio", "fill"},
                   prog : Programs, todo : SUBSET Kinds]
  BY ProgramsAssumption DEF ProgramsAssumption, Init, NoSection
<1>4. timer_pc \in [TimerThreads -> DOMAIN AfterTimerPc]
  BY PcTables DEF Init
<1>5. pr_counter \in Nat /\ filter \in Nat
  BY ProgramsAssumption DEF ProgramsAssumption, Init, Programs
<1>6. /\ screen \in [wait : BOOLEAN, radio : BOOLEAN, info : Nat \cup {None}]
      /\ status \in [Kinds -> BOOLEAN]
  BY DEF Init, Kinds
<1> QED
  BY <1>1, <1>2, <1>3, <1>4, <1>5, <1>6
     DEF Init, TypeOK, StreamPcs, NO_ERROR

\* Every step of the stream thread preserves the type invariant.
LEMMA StreamLoopType ==
  ASSUME TypeOK, stream_loop
  PROVE  TypeOK'
<1> USE DEF TypeOK, At, GoTo, Return, playerVars, timerVars
<1>1. CASE LockStreamParams
  BY <1>1, FirstPendingType DEF LockStreamParams, StreamPcs
<1>2. CASE UnlockStreamParams
  BY <1>2 DEF UnlockStreamParams, StreamPcs
<1>3. CASE ServeChange
  BY <1>3 DEF ServeChange, StreamPcs
<1>4. CASE ServeNext
  BY <1>4 DEF ServeNext, StreamPcs
<1>5. CASE ServePrevious
  BY <1>5, ProgramsAssumption DEF ServePrevious, StreamPcs, ProgramsAssumption
<1>6. CASE BlackScreen
  BY <1>6, PcTables DEF BlackScreen, print_black_screen, StreamPcs, ZapPcs
<1>7. ASSUME NEW k \in Kinds, RemoveStream(k)
      PROVE  TypeOK'
  <2>1. CASE ~status[k]
    <3>1. AfterCall[RemovePc[k]] \in StreamPcs
      BY PcTables
    <3> QED
      BY <1>7, <2>1, <3>1 DEF RemoveStream
  <2>2. CASE status[k]
    <3>1. /\ streams' \in [Kinds -> Nat \cup {None}]
          /\ error' \in {NO_ERROR, ERROR} /\ returned' \in {NO_ERROR, ERROR}
          /\ checking' = TRUE /\ stream_pc' = stream_pc
      BY <1>7, <2>2 DEF RemoveStream, Results
    <3>2. stream_pc \in DOMAIN AfterCall
      BY <1>7, PcTables DEF RemoveStream
    <3> QED
      BY <1>7, <3>1, <3>2 DEF RemoveStream
  <2> QED
    BY <2>1, <2>2
<1>8. ASSUME NEW k \in Kinds, TestStream(k)
      PROVE  TypeOK'
  BY <1>8, PcTables DEF TestStream, StreamPcs, ZapPcs
<1>9. ASSUME NEW k \in Kinds, CreateStream(k)
      PROVE  TypeOK'
  BY <1>9, PcTables, ReadPidType DEF CreateStream, Results, NO_ERROR, ERROR
<1>10. CASE FreeFilter
  BY <1>10, PcTables DEF FreeFilter, NO_ERROR, ERROR
<1>11. CASE SetFilter
  BY <1>11, PcTables DEF SetFilter, Results, NO_ERROR, ERROR
<1>12. CASE WaitForSection
  BY <1>12 DEF WaitForSection, StreamPcs, ZapPcs
<1>13. CASE AssertResult
  <2>1. status' \in [Kinds -> BOOLEAN]
    BY <1>13 DEF AssertResult
  <2>2. stream_pc' \in StreamPcs /\ checking' = FALSE
    BY <1>13, PcTables DEF AssertResult, StreamPcs
  <2> QED
    BY <1>13, <2>1, <2>2 DEF AssertResult
<1>14. CASE Present
  <2>1. stream_pc' \in StreamPcs
    BY <1>14, FirstPendingType DEF Present, Finish, StreamPcs, ZapPcs
  <2>2. str_prm' \in [Flags -> BOOLEAN]
    BY <1>14 DEF Present, Finish
  <2>3. screen' \in [wait : BOOLEAN, radio : BOOLEAN, info : Nat \cup {None}]
    BY <1>14 DEF Present, print_prog_num
  <2>4. ~checking /\ UNCHANGED <<checking, error, returned>>
    BY <1>14 DEF Present, Finish
  <2> QED
    BY <1>14, <2>1, <2>2, <2>3, <2>4 DEF Present
<1>15. CASE StoreTimerSpec
  BY <1>15 DEF StoreTimerSpec, StreamPcs, ZapPcs
<1>16. CASE SetTimer
  BY <1>16, FirstPendingType DEF SetTimer, Finish, StreamPcs
<1>17. CASE ServeInfo
  BY <1>17, FirstPendingType DEF ServeInfo, print_info_banner, Finish, StreamPcs
<1>18. CASE ServeList
  BY <1>18, FirstPendingType DEF ServeList, Finish, StreamPcs
<1> QED
  BY <1>1, <1>2, <1>3, <1>4, <1>5, <1>6, <1>7, <1>8, <1>9, <1>10, <1>11, <1>12,
     <1>13, <1>14, <1>15, <1>16, <1>17, <1>18 DEF stream_loop

\* A step of the section thread, a timer or the remote controller's thread
\* preserves the type invariant.
LEMMA OtherThreadsType ==
  ASSUME TypeOK,
         \/ SectionReceived \/ filter_callback \/ SectionAtOnce
         \/ \E t \in TimerThreads : TimerExpires(t) \/ pr_change_timer(t)
         \/ \E key \in KeyPresses : KeyPressed(key)
         \/ Handler
  PROVE  TypeOK'
<1> USE DEF TypeOK, streamVars, playerVars, timerVars
<1>1. CASE SectionReceived
  BY <1>1 DEF SectionReceived
<1>2. CASE ResetPids
  <2>1. section.prog \in Programs
    OBVIOUS
  <2>2. pmts' \in [Programs -> [Kinds -> Nat]]
    BY <1>2, <2>1, PidsAssumption DEF ResetPids, PidsAssumption, Kinds
  <2>3. section' \in [pc : {"idle", "reset_video", "reset_audio", "fill"},
                      prog : Programs, todo : SUBSET Kinds]
    <3>1. CASE section.pc = "reset_video"
      BY <1>2, <2>1, <3>1 DEF ResetPids
    <3>2. CASE section.pc = "reset_audio"
      <4>1. {k \in Kinds : Broadcast[section.prog][k] # NoPid} \in SUBSET Kinds
        OBVIOUS
      <4> QED
        BY <1>2, <2>1, <3>2, <4>1 DEF ResetPids
    <3> QED
      BY <1>2, <3>1, <3>2 DEF ResetPids
  <2> QED
    BY <1>2, <2>2, <2>3 DEF ResetPids
<1>3. ASSUME NEW k \in Kinds, FillPid(k)
      PROVE  TypeOK'
  <2>1. Broadcast[section.prog][k] \in Nat
    <3>1. Broadcast[section.prog] \in [Kinds -> Nat]
      BY PidsAssumption DEF PidsAssumption
    <3> QED
      BY <3>1
  <2>2. pmts' \in [Programs -> [Kinds -> Nat]]
    BY <1>3, <2>1 DEF FillPid
  <2>3. section' \in [pc : {"idle", "reset_video", "reset_audio", "fill"},
                      prog : Programs, todo : SUBSET Kinds]
    BY <1>3 DEF FillPid
  <2> QED
    BY <1>3, <2>2, <2>3 DEF FillPid
<1>4. CASE SectionParsed
  <2>1. NoSection \in [pc : {"idle", "reset_video", "reset_audio", "fill"},
                       prog : Programs, todo : SUBSET Kinds]
    BY ProgramsAssumption DEF ProgramsAssumption, NoSection
  <2>2. stream_pc' \in StreamPcs /\ (checking => stream_pc' = stream_pc)
    BY <1>4, PcTables DEF SectionParsed, SignalStatus, StreamPcs, ZapPcs
  <2> QED
    BY <1>4, <2>1, <2>2 DEF SectionParsed
<1>5. CASE SectionAtOnce
  <2>1. pmts' \in [Programs -> [Kinds -> Nat]]
    BY <1>5, PidsAssumption DEF SectionAtOnce, PidsAssumption
  <2>2. stream_pc' \in StreamPcs /\ (checking => stream_pc' = stream_pc)
    BY <1>5, PcTables DEF SectionAtOnce, SignalStatus, StreamPcs, ZapPcs
  <2> QED
    BY <1>5, <2>1, <2>2 DEF SectionAtOnce
<1>6. ASSUME NEW t \in TimerThreads, TimerExpires(t)
      PROVE  TypeOK'
  BY <1>6, PcTables DEF TimerExpires
<1>7. ASSUME NEW t \in TimerThreads, pr_change_timer(t)
      PROVE  TypeOK'
  <2>1. timer_pc' \in [TimerThreads -> DOMAIN AfterTimerPc]
    BY <1>7, PcTables DEF pr_change_timer
  <2>2. screen' \in [wait : BOOLEAN, radio : BOOLEAN, info : Nat \cup {None}]
    BY <1>7 DEF pr_change_timer, print_prog_num
  <2>3. timer_armed' \in BOOLEAN /\ timer_spec' \in BOOLEAN
    BY <1>7 DEF pr_change_timer
  <2> QED
    BY <1>7, <2>1, <2>2, <2>3 DEF pr_change_timer
<1>8. ASSUME NEW key \in KeyPresses, KeyPressed(key)
      PROVE  TypeOK'
  BY <1>8 DEF KeyPressed
<1>9. ASSUME NEW r \in Flags, SetFlag(r)
      PROVE  TypeOK'
  BY <1>9 DEF SetFlag
<1>10. CASE change_program
  <2>1. rc.arg \in Nat
    BY KeyType DEF change_program
  <2>2. screen' \in [wait : BOOLEAN, radio : BOOLEAN, info : Nat \cup {None}]
    BY <1>10 DEF change_program, print_prog_num
  <2>3. pr_counter' \in Nat /\ str_prm' \in [Flags -> BOOLEAN]
    BY <1>10, <2>1 DEF change_program
  <2> QED
    BY <1>10, <2>2, <2>3 DEF change_program
<1>11. CASE set_volume
  BY <1>11 DEF set_volume, Results
<1> QED
  BY <1>1, <1>2, <1>3, <1>4, <1>5, <1>6, <1>7, <1>8, <1>9, <1>10, <1>11
     DEF filter_callback, Handler, next_program, previous_program,
         get_prog_info, get_prog_list, Flags

\* The state of the modelled threads is always well formed.
THEOREM TypeCorrect == Spec => []TypeOK
<1>1. Init => TypeOK
  BY InitType
<1>2. TypeOK /\ [Next]_vars => TypeOK'
  <2>1. TypeOK /\ Next => TypeOK'
    BY StreamLoopType, OtherThreadsType DEF Next
  <2>2. TypeOK /\ UNCHANGED vars => TypeOK'
    BY DEF TypeOK, vars, streamVars, playerVars, timerVars
  <2> QED
    BY <2>1, <2>2
<1> QED
  BY <1>1, <1>2, PTL DEF Spec

-----------------------------------------------------------------------------
(* The black screen is never left behind.                                  *)
(*                                                                         *)
(* BlackScreenWillLift alone is not inductive: a timer routine may clear   *)
(* pr_change_timer_spec between the stream thread's store and its          *)
(* timer_settime, which then stops the timer.  The routine that did it has *)
(* still to lift the screen, unless it already has.                        *)

\* Some timer routine has cleared the timer's setting but not lifted the screen.
RoutineWillLift == \E t \in TimerThreads : timer_pc[t] \in {"set_time", "lift"}

BlackScreenInv ==
  /\ BlackScreenWillLift
  /\ stream_pc = "set_timer" /\ screen.wait => timer_spec \/ RoutineWillLift

\* A step of the stream thread preserves the invariant.
LEMMA StreamLoopBlackScreen ==
  ASSUME TypeOK, BlackScreenInv, stream_loop
  PROVE  BlackScreenInv'
<1> USE DEF BlackScreenInv, BlackScreenWillLift, RoutineWillLift, At, GoTo,
            playerVars, timerVars
<1>1. CASE LockStreamParams \/ UnlockStreamParams \/ ServeChange
  BY <1>1, FirstPendingType
     DEF LockStreamParams, UnlockStreamParams, ServeChange, ZapPcs, AfterCall
<1>2. CASE ServeNext \/ ServePrevious
  BY <1>2 DEF ServeNext, ServePrevious, ZapPcs, AfterCall
<1>3. CASE BlackScreen
  BY <1>3 DEF BlackScreen, ZapPcs, AfterCall
<1>4. ASSUME NEW k \in Kinds, RemoveStream(k) \/ TestStream(k) \/ CreateStream(k)
      PROVE  BlackScreenInv'
  <2>1. stream_pc' \in ZapPcs \ {"set_timer"}
    BY <1>4 DEF RemoveStream, TestStream, CreateStream, Return, Kinds, RemovePc,
                TestPc, CreatePc, AfterCall, ZapPcs
  <2> QED
    BY <2>1
<1>5. CASE FreeFilter \/ SetFilter \/ WaitForSection
  <2>1. stream_pc' \in ZapPcs \ {"set_timer"}
    BY <1>5 DEF FreeFilter, SetFilter, WaitForSection, Return, AfterCall, ZapPcs
  <2> QED
    BY <2>1
<1>6. CASE AssertResult
  <2>1. stream_pc \in DOMAIN AfterCall
    BY <1>6 DEF AssertResult, TypeOK
  <2>2. stream_pc' \in (ZapPcs \cup {"dead"}) \ {"set_timer"}
    BY <1>6, <2>1 DEF AssertResult, AfterCall, ZapPcs
  <2> QED
    BY <2>2
<1>7. CASE Present
  <2>1. CASE stream_pc' = "store_spec"
    BY <2>1 DEF ZapPcs
  <2>2. CASE stream_pc' # "store_spec"
    <3>1. ~screen'.wait
      BY <1>7, <2>2 DEF Present, print_prog_num, TypeOK
    <3> QED
      BY <3>1
  <2> QED
    BY <2>1, <2>2
<1>8. CASE StoreTimerSpec
  BY <1>8 DEF StoreTimerSpec, ZapPcs
<1>9. CASE SetTimer
  <2>1. stream_pc' \notin ZapPcs
    BY <1>9, FirstPendingType DEF SetTimer, Finish, ZapPcs, AfterCall
  <2>2. screen.wait => timer_armed' \/ RoutineWillLift
    BY <1>9 DEF SetTimer
  <2> QED
    BY <1>9, <2>1, <2>2 DEF SetTimer, ZapPcs
<1>10. CASE ServeInfo \/ ServeList
  <2>1. stream_pc' # "set_timer" /\ stream_pc \notin ZapPcs \cup {"dead"}
    BY <1>10, FirstPendingType DEF ServeInfo, ServeList, Finish, ZapPcs, AfterCall
  <2>2. screen'.wait = screen.wait /\ UNCHANGED timerVars
    BY <1>10 DEF ServeInfo, ServeList, print_info_banner, TypeOK
  <2> QED
    BY <2>1, <2>2
<1> QED
  BY <1>1, <1>2, <1>3, <1>4, <1>5, <1>6, <1>7, <1>8, <1>9, <1>10 DEF stream_loop

\* A step of another thread preserves the invariant.
LEMMA OtherThreadsBlackScreen ==
  ASSUME TypeOK, BlackScreenInv,
         \/ SectionReceived \/ filter_callback \/ SectionAtOnce
         \/ \E t \in TimerThreads : TimerExpires(t) \/ pr_change_timer(t)
         \/ \E key \in KeyPresses : KeyPressed(key)
         \/ Handler
  PROVE  BlackScreenInv'
<1> USE DEF BlackScreenInv, BlackScreenWillLift, RoutineWillLift, streamVars,
            playerVars, timerVars
<1>1. CASE SectionReceived \/ ResetPids \/ \E k \in Kinds : FillPid(k)
  BY <1>1 DEF SectionReceived, ResetPids, FillPid
<1>2. CASE SectionParsed \/ SectionAtOnce
  <2>1. \/ stream_pc' = stream_pc
        \/ stream_pc = "waiting" /\ stream_pc' = "test_video"
    BY <1>2 DEF SectionParsed, SectionAtOnce, SignalStatus
  <2>2. UNCHANGED <<timerVars, screen>>
    BY <1>2 DEF SectionParsed, SectionAtOnce
  <2> QED
    BY <2>1, <2>2 DEF ZapPcs
<1>3. ASSUME NEW t \in TimerThreads, TimerExpires(t)
      PROVE  BlackScreenInv'
  BY <1>3 DEF TimerExpires, AfterTimerPc, TypeOK
<1>4. ASSUME NEW t \in TimerThreads, pr_change_timer(t)
      PROVE  BlackScreenInv'
  <2>1. CASE timer_pc[t] = "clear_spec"
    <3>1. timer_pc'[t] = "set_time"
      BY <1>4, <2>1 DEF pr_change_timer, AfterTimerPc, TypeOK
    <3> QED
      BY <3>1
  <2>2. CASE timer_pc[t] = "set_time"
    <3>1. timer_pc'[t] = "lift"
      BY <1>4, <2>2 DEF pr_change_timer, AfterTimerPc, TypeOK
    <3> QED
      BY <3>1
  <2>3. CASE timer_pc[t] = "lift"
    <3>1. ~screen'.wait
      BY <1>4, <2>3 DEF pr_change_timer, print_prog_num, TypeOK
    <3> QED
      BY <3>1
  <2> QED
    BY <1>4, <2>1, <2>2, <2>3 DEF pr_change_timer
<1>5. CASE (\E key \in KeyPresses : KeyPressed(key)) \/ (\E r \in Flags : SetFlag(r))
           \/ set_volume
  BY <1>5 DEF KeyPressed, SetFlag, set_volume
<1>6. CASE change_program
  <2>1. screen'.wait => screen.wait
    BY <1>6 DEF change_program, print_prog_num, TypeOK
  <2> QED
    BY <1>6, <2>1 DEF change_program
<1> QED
  BY <1>1, <1>2, <1>3, <1>4, <1>5, <1>6
     DEF filter_callback, Handler, next_program, previous_program,
         get_prog_info, get_prog_list, Flags

\* Outside a zap a black screen always has something under way that lifts it,
\* however the stream thread and any number of timer routines interleave.
THEOREM BlackScreenIsLifted == Spec => []BlackScreenWillLift
<1>1. Init => BlackScreenInv
  BY DEF Init, BlackScreenInv, BlackScreenWillLift
<1>2. TypeOK /\ BlackScreenInv /\ [Next]_vars => BlackScreenInv'
  <2>1. TypeOK /\ BlackScreenInv /\ Next => BlackScreenInv'
    BY StreamLoopBlackScreen, OtherThreadsBlackScreen DEF Next
  <2>2. BlackScreenInv /\ UNCHANGED vars => BlackScreenInv'
    BY DEF BlackScreenInv, BlackScreenWillLift, RoutineWillLift, vars, streamVars,
           playerVars, timerVars
  <2> QED
    BY <2>1, <2>2
<1>3. BlackScreenInv => BlackScreenWillLift
  BY DEF BlackScreenInv
<1> QED
  BY <1>1, <1>2, <1>3, TypeCorrect, PTL DEF Spec

-----------------------------------------------------------------------------
(* The status flags agree with the live streams.                           *)
(*                                                                         *)
(* The stream thread decides by the status flags and by the shared result  *)
(* variable, so the argument needs that nobody else stores a result there  *)
(* (no volume key), that a result it goes on from tells the truth about    *)
(* the stream, and that both streams are gone when they are created anew.  *)

\* Where the stream thread has removed the stream of a kind and not yet reached
\* the call that creates the next one.
NoStreamPcs ==
  [k \in Kinds |->
     {"free_filter", "set_filter", "wait", "waiting", "test_video"} \cup
       (IF k = "audio" THEN {"remove_video", "create_video", "test_audio"} ELSE {})]

HandlesInv ==
  /\ HandlesMatchStreams
  /\ error = returned
  /\ \A k \in Kinds :
       /\ stream_pc \in NoStreamPcs[k] => streams[k] = None
       /\ ~checking /\ stream_pc = CreatePc[k] => streams[k] = None
       /\ checking /\ error = NO_ERROR =>
            /\ stream_pc = RemovePc[k] => streams[k] = None
            /\ stream_pc = CreatePc[k] => streams[k] # None

\* What the stream thread's own calls return: without a failure of the player
\* engine no call fails, because the demux filter exists wherever it is freed.
CallsInv ==
  /\ ~CallsMayFail => error = NO_ERROR /\ returned = NO_ERROR
  /\ filter = None => \/ stream_pc \in {"set_filter", "dead"}
                      \/ stream_pc = "free_filter" /\ checking
  /\ stream_pc = "set_filter" /\ checking /\ error = NO_ERROR => filter # None

\* The volume key cannot hide a failed call: there is none, or none fails.
Quiet == "volume" \notin Requests \/ ~CallsMayFail

\* The calls of the zap sequence, kind by kind.
LEMMA PcOfKind ==
  ASSUME NEW k \in Kinds, NEW j \in Kinds
  PROVE  /\ RemovePc[k] = RemovePc[j] => k = j
         /\ CreatePc[k] = CreatePc[j] => k = j
         /\ RemovePc[k] # CreatePc[j]
         /\ TestPc[k] \notin {RemovePc[j], CreatePc[j]}
         /\ RemovePc[k] \notin NoStreamPcs[k] /\ CreatePc[k] \notin NoStreamPcs[k]
         /\ TestPc[k] \in NoStreamPcs[k]
         /\ AfterCall[RemovePc[k]] \in NoStreamPcs[k]
         /\ AfterCall[CreatePc[k]] \notin NoStreamPcs[k]
BY DEF Kinds, RemovePc, CreatePc, TestPc, NoStreamPcs, AfterCall

\* Away from the checked calls, and as long as neither the streams nor the
\* results change, only the program counter matters.
LEMMA HandlesInvFrame ==
  ASSUME TypeOK, HandlesInv, ~checking, ~checking',
         UNCHANGED <<playerVars, error, returned>>,
         \A k \in Kinds :
           stream_pc' \in NoStreamPcs[k] \cup {CreatePc[k]} =>
             stream_pc \in NoStreamPcs[k],
         stream_pc # "dead"
  PROVE  HandlesInv'
BY DEF HandlesInv, HandlesMatchStreams, playerVars

\* A step of the stream thread preserves the invariant.
LEMMA StreamLoopHandles ==
  ASSUME TypeOK, HandlesInv, stream_loop
  PROVE  HandlesInv'
<1>1. CASE \/ LockStreamParams \/ UnlockStreamParams \/ ServeChange \/ ServeNext
           \/ ServePrevious \/ BlackScreen \/ WaitForSection \/ Present
           \/ StoreTimerSpec \/ SetTimer \/ ServeInfo \/ ServeList
  <2>1. /\ ~checking /\ stream_pc # "dead"
        /\ UNCHANGED <<checking, playerVars, error, returned>>
    BY <1>1 DEF LockStreamParams, UnlockStreamParams, ServeChange, ServeNext,
       ServePrevious, BlackScreen, WaitForSection, Present, StoreTimerSpec,
       SetTimer, ServeInfo, ServeList, Finish, At, GoTo, playerVars
  <2>2. \/ stream_pc = "wait" /\ stream_pc' = "waiting"
        \/ stream_pc' \in {"change", "next", "previous", "info", "list", "unlock",
                           "unlocked", "black", "remove_audio", "store_spec",
                           "set_timer"}
    BY <1>1, FirstPendingType
       DEF LockStreamParams, UnlockStreamParams, ServeChange, ServeNext,
       ServePrevious, BlackScreen, WaitForSection, Present, StoreTimerSpec,
       SetTimer, ServeInfo, ServeList, Finish, At, GoTo
  <2>3. \A k \in Kinds : stream_pc' \in NoStreamPcs[k] \cup {CreatePc[k]} =>
                           stream_pc \in NoStreamPcs[k]
    BY <2>2 DEF NoStreamPcs, CreatePc, Kinds
  <2> QED
    BY <2>1, <2>3, HandlesInvFrame
<1>2. ASSUME NEW k \in Kinds, RemoveStream(k)
      PROVE  HandlesInv'
  <2>1. CASE ~status[k]
    <3>1. streams[k] = None
      BY <1>2, <2>1 DEF RemoveStream, At, HandlesInv, HandlesMatchStreams, RemovePc, Kinds
    <3>2. /\ ~checking /\ ~checking' /\ stream_pc = RemovePc[k]
          /\ stream_pc' = AfterCall[RemovePc[k]]
          /\ UNCHANGED <<playerVars, error, returned>>
      BY <1>2, <2>1 DEF RemoveStream, At, GoTo, playerVars
    <3> QED
      BY <3>1, <3>2
         DEF HandlesInv, HandlesMatchStreams, playerVars, Kinds, RemovePc,
             CreatePc, NoStreamPcs, AfterCall
  <2>2. CASE status[k]
    <3>1. /\ ~checking /\ checking' /\ stream_pc = RemovePc[k]
          /\ stream_pc' = stream_pc /\ error' = returned'
          /\ UNCHANGED <<status, orphans>>
          /\ \A j \in Kinds : streams'[j] # streams[j] => j = k /\ streams'[j] = None
          /\ error' = NO_ERROR => streams'[k] = None
      BY <1>2, <2>2 DEF RemoveStream, At, Return, TypeOK, NO_ERROR, ERROR
    <3> QED
      BY <3>1
         DEF HandlesInv, HandlesMatchStreams, Kinds, RemovePc, CreatePc, NoStreamPcs
  <2> QED
    BY <2>1, <2>2
<1>3. ASSUME NEW k \in Kinds, TestStream(k)
      PROVE  HandlesInv'
  <2>1. /\ ~checking /\ ~checking' /\ stream_pc = TestPc[k]
        /\ stream_pc' \in {CreatePc[k], AfterCall[CreatePc[k]]}
        /\ UNCHANGED <<playerVars, error, returned>>
    BY <1>3 DEF TestStream, At, GoTo, playerVars
  <2>2. \A j \in Kinds : stream_pc' \in NoStreamPcs[j] \cup {CreatePc[j]} =>
                           stream_pc \in NoStreamPcs[j]
    BY <2>1 DEF Kinds, TestPc, CreatePc, NoStreamPcs, AfterCall
  <2>3. stream_pc # "dead"
    BY <2>1 DEF Kinds, TestPc
  <2> QED
    BY <2>1, <2>2, <2>3, HandlesInvFrame
<1>4. ASSUME NEW k \in Kinds, CreateStream(k)
      PROVE  HandlesInv'
  <2>1. streams[k] = None
    BY <1>4 DEF CreateStream, At, HandlesInv
  <2>2. /\ ~checking /\ checking' /\ stream_pc = CreatePc[k]
        /\ stream_pc' = stream_pc /\ error' = returned'
        /\ UNCHANGED <<status, orphans>>
        /\ \A j \in Kinds : j # k => streams'[j] = streams[j]
    BY <1>4, <2>1 DEF CreateStream, At, Return, TypeOK
  <2>3. error' = NO_ERROR => streams'[k] # None
    <3>1. \A pid \in ReadPid(k) : pid # None
      BY ReadPidType, PidsAssumption DEF PidsAssumption
    <3> QED
      BY <1>4, <3>1 DEF CreateStream, Return, TypeOK, NO_ERROR, ERROR
  <2> QED
    BY <2>2, <2>3
       DEF HandlesInv, HandlesMatchStreams, Kinds, RemovePc, CreatePc, NoStreamPcs
<1>5. CASE FreeFilter \/ SetFilter
  <2>1. /\ ~checking /\ checking' /\ stream_pc \in {"free_filter", "set_filter"}
        /\ stream_pc' = stream_pc /\ error' = returned'
        /\ UNCHANGED playerVars
    BY <1>5 DEF FreeFilter, SetFilter, At, Return
  <2> QED
    BY <2>1
       DEF HandlesInv, HandlesMatchStreams, playerVars, Kinds, RemovePc, CreatePc,
           NoStreamPcs
<1>6. CASE AssertResult
  <2>1. checking /\ ~checking' /\ UNCHANGED <<error, returned, streams, orphans>>
    BY <1>6 DEF AssertResult, TypeOK
  <2>2. CASE error # NO_ERROR
    <3>1. stream_pc' = "dead"
      BY <1>6, <2>2 DEF AssertResult
    <3> QED
      BY <2>1, <3>1
         DEF HandlesInv, HandlesMatchStreams, Kinds, CreatePc, NoStreamPcs
  <2>3. CASE error = NO_ERROR
    <3>1. /\ stream_pc \in DOMAIN AfterCall /\ stream_pc' = AfterCall[stream_pc]
          /\ \A k \in Kinds :
               status'[k] <=> \/ status[k] /\ stream_pc # RemovePc[k]
                              \/ stream_pc = CreatePc[k]
      BY <1>6, <2>3 DEF AssertResult, TypeOK
    <3>2. stream_pc # "dead" /\ stream_pc' # "dead"
      BY <3>1 DEF AfterCall
    <3>3. \A k \in Kinds : status'[k] <=> streams[k] # None
      BY <2>1, <2>3, <3>1, <3>2 DEF HandlesInv, HandlesMatchStreams, Kinds, RemovePc, CreatePc
    <3>4. \A k \in Kinds : stream_pc' \in NoStreamPcs[k] \cup {CreatePc[k]} =>
                             streams[k] = None
      BY <2>1, <2>3, <3>1 DEF HandlesInv, AfterCall, Kinds, RemovePc, CreatePc, NoStreamPcs
    <3>5. \A k \in Kinds : status'[k] <=> streams'[k] # None
      BY <2>1, <3>3
    <3> QED
      BY <2>1, <3>2, <3>4, <3>5 DEF HandlesInv, HandlesMatchStreams
  <2> QED
    BY <2>2, <2>3
<1> QED
  BY <1>1, <1>2, <1>3, <1>4, <1>5, <1>6 DEF stream_loop

\* A step of another thread preserves the invariant, unless it hides a failure.
LEMMA OtherThreadsHandles ==
  ASSUME TypeOK, HandlesInv, CallsInv, Quiet,
         \/ SectionReceived \/ filter_callback \/ SectionAtOnce
         \/ \E t \in TimerThreads : TimerExpires(t) \/ pr_change_timer(t)
         \/ \E key \in KeyPresses : KeyPressed(key)
         \/ Handler
  PROVE  HandlesInv'
<1>1. ~set_volume \/ error' = error
  BY KeyType DEF set_volume, TypeOK, Quiet, CallsInv, Results
<1>2. CASE SectionParsed \/ SectionAtOnce
  <2>1. /\ UNCHANGED <<checking, error, returned, playerVars>>
        /\ \/ stream_pc' = stream_pc
           \/ stream_pc = "waiting" /\ stream_pc' = "test_video"
    BY <1>2 DEF SectionParsed, SectionAtOnce, SignalStatus
  <2> QED
    BY <2>1 DEF HandlesInv, HandlesMatchStreams, playerVars, Kinds, NoStreamPcs,
                CreatePc, RemovePc, TypeOK, AfterCall
<1>3. CASE ~(SectionParsed \/ SectionAtOnce)
  <2>1. UNCHANGED <<streamVars, playerVars>>
    BY <1>1, <1>3
       DEF SectionReceived, filter_callback, ResetPids, FillPid, TimerExpires,
           pr_change_timer, KeyPressed, Handler, next_program, previous_program,
           get_prog_info, get_prog_list, SetFlag, change_program, set_volume,
           streamVars
  <2> QED
    BY <2>1 DEF HandlesInv, HandlesMatchStreams, streamVars, playerVars
<1> QED
  BY <1>2, <1>3

\* Init establishes the invariant.
LEMMA InitHandles == Init => HandlesInv
<1> SUFFICES ASSUME Init PROVE HandlesInv
  OBVIOUS
<1>1. \A k \in Kinds : status[k] <=> streams[k] # None
  <2>1. \A k \in Kinds : Broadcast[StartProgram][k] \in Nat
    BY ProgramsAssumption, PidsAssumption DEF ProgramsAssumption, PidsAssumption
  <2> QED
    BY <2>1, PidsAssumption DEF Init, PidsAssumption
<1> QED
  BY <1>1 DEF Init, HandlesInv, HandlesMatchStreams, NoStreamPcs, Kinds, CreatePc

\* Every step preserves the invariant when no failure is hidden.
LEMMA NextHandles ==
  ASSUME TypeOK, HandlesInv, CallsInv, Quiet, [Next]_vars
  PROVE  HandlesInv'
<1>1. CASE Next
  BY <1>1, StreamLoopHandles, OtherThreadsHandles DEF Next
<1>2. CASE UNCHANGED vars
  BY <1>2 DEF HandlesInv, HandlesMatchStreams, vars, streamVars, playerVars
<1> QED
  BY <1>1, <1>2

\* Every step keeps what is known of the calls.
LEMMA NextCalls ==
  ASSUME TypeOK, HandlesInv, CallsInv, Quiet, [Next]_vars
  PROVE  CallsInv'
<1>1. ASSUME NEW k \in Kinds, RemoveStream(k)
      PROVE  CallsInv'
  <2>1. stream_pc \notin {"free_filter", "set_filter", "dead"} /\ filter # None /\ filter' = filter
    BY <1>1 DEF RemoveStream, At, RemovePc, Kinds, CallsInv
  <2>2. status[k] => streams[k] # None
    BY <1>1, <2>1 DEF RemoveStream, At, HandlesInv, HandlesMatchStreams
  <2>3. ~CallsMayFail => error' = NO_ERROR /\ returned' = NO_ERROR
    BY <1>1, <2>2 DEF RemoveStream, Return, GoTo, Results, CallsInv
  <2> QED
    BY <2>1, <2>3 DEF CallsInv
<1>2. ASSUME NEW k \in Kinds, TestStream(k) \/ CreateStream(k)
      PROVE  CallsInv'
  <2>1. stream_pc \notin {"free_filter", "set_filter", "dead"} /\ filter # None /\ filter' = filter
    BY <1>2 DEF TestStream, CreateStream, At, TestPc, CreatePc, Kinds, CallsInv
  <2>2. ~CallsMayFail => error' = NO_ERROR /\ returned' = NO_ERROR
    BY <1>2 DEF TestStream, CreateStream, Return, GoTo, Results, CallsInv
  <2> QED
    BY <2>1, <2>2 DEF CallsInv
<1>3. CASE FreeFilter
  BY <1>3 DEF FreeFilter, At, Return, CallsInv
<1>4. CASE SetFilter
  BY <1>4, PidsAssumption DEF SetFilter, At, Return, Results, CallsInv, TypeOK, PidsAssumption, NO_ERROR, ERROR
<1>5. CASE AssertResult
  BY <1>5 DEF AssertResult, CallsInv, TypeOK, AfterCall
<1>6. CASE set_volume
  <2>1. error' = error
    BY <1>6, KeyType DEF set_volume, TypeOK, Quiet, CallsInv, Results
  <2> QED
    BY <1>6, <2>1 DEF set_volume, CallsInv
<1>7. CASE UNCHANGED <<error, returned, filter, checking>>
           /\ (stream_pc' = stream_pc \/ stream_pc \notin {"free_filter", "set_filter", "dead"})
  BY <1>7 DEF CallsInv
<1> QED
  <2>1. CASE \/ LockStreamParams \/ UnlockStreamParams \/ ServeChange \/ ServeNext
             \/ ServePrevious \/ BlackScreen \/ WaitForSection \/ Present
             \/ StoreTimerSpec \/ SetTimer \/ ServeInfo \/ ServeList
    BY <1>7, <2>1
       DEF LockStreamParams, UnlockStreamParams, ServeChange, ServeNext,
           ServePrevious, BlackScreen, WaitForSection, Present, StoreTimerSpec,
           SetTimer, ServeInfo, ServeList, Finish, At, GoTo
  <2>2. CASE SectionParsed \/ SectionAtOnce
    BY <1>7, <2>2 DEF SectionParsed, SectionAtOnce, SignalStatus
  <2>3. CASE \/ SectionReceived \/ ResetPids \/ (\E k \in Kinds : FillPid(k))
             \/ \E t \in TimerThreads : TimerExpires(t) \/ pr_change_timer(t)
             \/ \E key \in KeyPresses : KeyPressed(key)
             \/ next_program \/ previous_program \/ get_prog_info
             \/ get_prog_list \/ change_program
    BY <1>7, <2>3
       DEF SectionReceived, ResetPids, FillPid, TimerExpires, pr_change_timer,
           KeyPressed, next_program, previous_program, get_prog_info,
           get_prog_list, SetFlag, change_program, streamVars
  <2>4. CASE UNCHANGED vars
    BY <1>7, <2>4 DEF vars, streamVars
  <2> QED
    BY <1>1, <1>2, <1>3, <1>4, <1>5, <1>6, <2>1, <2>2, <2>3, <2>4
       DEF Next, stream_loop, filter_callback, Handler

LEMMA InitCalls == Init => CallsInv
BY ProgramsAssumption, PidsAssumption
   DEF Init, CallsInv, ProgramsAssumption, PidsAssumption, Programs

\* What has been shown of the stream thread's calls so far holds together.
LEMMA CallsCorrect ==
  ASSUME Quiet
  PROVE  Spec => [](TypeOK /\ HandlesInv /\ CallsInv)
<1>1. TypeOK /\ HandlesInv /\ CallsInv /\ [Next]_vars => HandlesInv' /\ CallsInv'
  BY NextHandles, NextCalls
<1> QED
  BY <1>1, InitHandles, InitCalls, TypeCorrect, PTL DEF Spec

\* As long as the volume key cannot hide a failed call, and whatever calls fail,
\* the status flags agree with the live streams between the calls and no stream
\* is created over a live one.
THEOREM HandlesMatch ==
  ASSUME Quiet
  PROVE  Spec => []HandlesMatchStreams
<1>1. HandlesInv => HandlesMatchStreams
  BY DEF HandlesInv
<1> QED
  BY <1>1, CallsCorrect, PTL

-----------------------------------------------------------------------------
(* No stream of another program survives a zap.                            *)
(*                                                                         *)
(* What is played was read from the entry of the current program, so the   *)
(* argument needs that an entry only ever holds PIDs of its own program,   *)
(* whichever section is parsed when, and that pr_counter changes only      *)
(* where the old streams are still to be removed.                          *)

OwnInv ==
  /\ OwnStreamsOnly
  /\ pr_counter \in Programs
  /\ \A p \in Programs, k \in Kinds :
       pmts[p][k] \in {Broadcast[p][k], NoPid} \cup Garbage

\* An entry of PAT.pmts only ever holds PIDs of its own program.
LEMMA OwnPids ==
  ASSUME TypeOK, OwnInv, [Next]_vars
  PROVE  \A p \in Programs, k \in Kinds :
           pmts'[p][k] \in {Broadcast[p][k], NoPid} \cup Garbage
<1>1. CASE pmts' = pmts
  BY <1>1 DEF OwnInv
<1>2. CASE ResetPids
  BY <1>2 DEF ResetPids, OwnInv, TypeOK, Kinds
<1>3. ASSUME NEW k \in Kinds, FillPid(k)
      PROVE  \A p \in Programs, j \in Kinds :
               pmts'[p][j] \in {Broadcast[p][j], NoPid} \cup Garbage
  BY <1>3 DEF FillPid, OwnInv, TypeOK
<1>4. CASE SectionAtOnce
  BY <1>4 DEF SectionAtOnce, OwnInv, TypeOK
<1> QED
  <2>1. \/ pmts' = pmts \/ ResetPids \/ SectionAtOnce
        \/ \E k \in Kinds : FillPid(k)
    BY DEF Next, vars, stream_loop, LockStreamParams, UnlockStreamParams,
       ServeChange, ServeNext, ServePrevious, BlackScreen, RemoveStream,
       TestStream, CreateStream, FreeFilter, SetFilter, WaitForSection,
       AssertResult, Present, StoreTimerSpec, SetTimer, ServeInfo, ServeList,
       SectionReceived, filter_callback, SectionParsed, TimerExpires,
       pr_change_timer, KeyPressed, Handler, next_program, previous_program,
       get_prog_info, get_prog_list, SetFlag, change_program, set_volume
  <2> QED
    BY <1>1, <1>2, <1>3, <1>4, <2>1

\* pr_counter stays a program of the PAT when every digit key is one.
LEMMA CounterInPrograms ==
  ASSUME TypeOK, pr_counter \in Programs, Keys \subseteq Programs, [Next]_vars
  PROVE  pr_counter' \in Programs
<1>1. CASE pr_counter' = pr_counter
  BY <1>1
<1>2. CASE ServeNext \/ ServePrevious
  BY <1>2, ProgramsAssumption
     DEF ServeNext, ServePrevious, Programs, ProgramsAssumption
<1>3. CASE change_program
  <2>1. rc.op = "change" => rc.arg \in Keys
    BY KeyType DEF TypeOK
  <2> QED
    BY <1>3, <2>1 DEF change_program
<1> QED
  <2>1. pr_counter' = pr_counter \/ ServeNext \/ ServePrevious \/ change_program
    BY DEF Next, vars, stream_loop, LockStreamParams, UnlockStreamParams,
       ServeChange, BlackScreen, RemoveStream, TestStream, CreateStream,
       FreeFilter, SetFilter, WaitForSection, AssertResult, Present,
       StoreTimerSpec, SetTimer, ServeInfo, ServeList, SectionReceived,
       filter_callback, ResetPids, FillPid, SectionParsed, SectionAtOnce,
       TimerExpires, pr_change_timer, KeyPressed, Handler, next_program,
       previous_program, get_prog_info, get_prog_list, SetFlag, set_volume
  <2> QED
    BY <1>1, <1>2, <1>3, <2>1

\* Where the old streams are still to be removed a foreign PID is allowed.
LEMMA OwnWhileTearingDown ==
  ASSUME stream_pc' \in {"black", "remove_audio", "dead"}
  PROVE  OwnStreamsOnly'
BY DEF OwnStreamsOnly

\* A step that keeps the streams and the current program, and does not leave the
\* interval in which a foreign PID is allowed, preserves the property.
LEMMA OwnFrame ==
  ASSUME OwnStreamsOnly, UNCHANGED <<streams, pr_counter>>,
         \A k \in Kinds :
           \/ stream_pc \notin {"black", "remove_audio", RemovePc[k], "dead"}
           \/ stream_pc' = stream_pc,
         \/ stream_pc \notin {"unlocked", "change"}
         \/ ~str_prm["change"]
         \/ str_prm'["change"] /\ stream_pc' \in {"unlocked", "change"}
  PROVE  OwnStreamsOnly'
BY DEF OwnStreamsOnly

\* A step of the stream thread keeps foreign streams out.
LEMMA StreamLoopOwn ==
  ASSUME TypeOK, HandlesInv, HandlesInv', OwnInv, stream_loop
  PROVE  OwnStreamsOnly'
<1> USE DEF At, GoTo, playerVars
<1>1. CASE LockStreamParams
  <2>1. /\ UNCHANGED <<streams, pr_counter, str_prm>> /\ stream_pc = "unlocked"
        /\ str_prm["change"] => stream_pc' = "change"
    BY <1>1 DEF LockStreamParams, FirstPending
  <2> QED
    BY <2>1, OwnFrame DEF OwnInv, Kinds, RemovePc
<1>2. CASE ServeChange \/ ServeNext \/ ServePrevious \/ BlackScreen
  <2>1. stream_pc' \in {"black", "remove_audio"}
    BY <1>2 DEF ServeChange, ServeNext, ServePrevious, BlackScreen
  <2> QED
    BY <2>1, OwnWhileTearingDown
<1>3. ASSUME NEW k \in Kinds, RemoveStream(k)
      PROVE  OwnStreamsOnly'
  <2>1. \A j \in Kinds : streams'[j] = streams[j] \/ streams'[j] = None
    BY <1>3 DEF RemoveStream, TypeOK
  <2>2. UNCHANGED <<pr_counter, str_prm>> /\ stream_pc = RemovePc[k]
    BY <1>3 DEF RemoveStream
  <2>3. stream_pc' \in {stream_pc} \cup NoStreamPcs[k]
    BY <1>3, PcOfKind DEF RemoveStream, Return
  <2>4. stream_pc' \in NoStreamPcs[k] => streams'[k] = None
    BY DEF HandlesInv
  <2>5. \A j \in Kinds : stream_pc = RemovePc[j] => j = k
    BY <2>2, PcOfKind
  <2>6. stream_pc' = stream_pc \/ stream_pc' = AfterCall[RemovePc[k]]
    BY <1>3 DEF RemoveStream, Return
  <2>7. ASSUME NEW j \in Kinds
        PROVE  \/ streams'[j] \in Garbage \cup {None, NoPid}
               \/ pr_counter \in Programs /\ streams'[j] = Broadcast[pr_counter][j]
               \/ stream_pc' \in {"remove_audio", RemovePc[j]}
    BY <2>1, <2>2, <2>3, <2>4, <2>6
       DEF OwnInv, OwnStreamsOnly, Kinds, RemovePc, AfterCall, NoStreamPcs
  <2> QED
    BY <2>2, <2>7 DEF OwnStreamsOnly
<1>4. ASSUME NEW k \in Kinds, CreateStream(k)
      PROVE  OwnStreamsOnly'
  <2>1. /\ UNCHANGED <<pr_counter, str_prm>>
        /\ stream_pc = CreatePc[k] /\ stream_pc' = stream_pc
        /\ \A j \in Kinds : streams'[j] = streams[j] \/ (j = k /\ streams'[k] \in ReadPid(k))
    BY <1>4 DEF CreateStream, Return, TypeOK
  <2>2. ReadPid(k) \subseteq {Broadcast[pr_counter][k], NoPid} \cup Garbage
    BY DEF ReadPid, OwnInv
  <2> QED
    BY <2>1, <2>2 DEF OwnInv, OwnStreamsOnly, Kinds, CreatePc, RemovePc
<1>5. CASE AssertResult
  <2>1. UNCHANGED <<streams, pr_counter, str_prm>> /\ stream_pc \in DOMAIN AfterCall
    BY <1>5 DEF AssertResult, TypeOK
  <2>2. CASE stream_pc' = "dead"
    BY <2>2, OwnWhileTearingDown
  <2>3. CASE stream_pc' = AfterCall[stream_pc]
    <3>1. ASSUME NEW k \in Kinds
          PROVE  \/ streams'[k] = None
                 \/ stream_pc' = RemovePc[k]
                 \/ stream_pc \notin {"remove_audio", RemovePc[k]}
      <4>1. stream_pc' \in NoStreamPcs[k] => streams'[k] = None
        BY DEF HandlesInv
      <4> QED
        BY <2>3, <4>1 DEF AfterCall, Kinds, RemovePc, NoStreamPcs
    <3> QED
      BY <2>1, <3>1 DEF OwnInv, OwnStreamsOnly, AfterCall, Kinds, RemovePc
  <2> QED
    BY <1>5, <2>2, <2>3 DEF AssertResult
<1>6. CASE \/ UnlockStreamParams \/ WaitForSection \/ FreeFilter \/ SetFilter
           \/ Present \/ StoreTimerSpec \/ SetTimer \/ ServeInfo \/ ServeList
  <2>1. UNCHANGED <<streams, pr_counter>>
    BY <1>6 DEF UnlockStreamParams, WaitForSection, FreeFilter, SetFilter, Present,
       StoreTimerSpec, SetTimer, ServeInfo, ServeList
  <2>2. stream_pc \in {"unlock", "wait", "free_filter", "set_filter", "present",
                       "store_spec", "set_timer", "info", "list"}
    BY <1>6 DEF UnlockStreamParams, WaitForSection, FreeFilter, SetFilter, Present,
       StoreTimerSpec, SetTimer, ServeInfo, ServeList
  <2> QED
    BY <2>1, <2>2, OwnFrame DEF OwnInv, Kinds, RemovePc
<1>7. ASSUME NEW k \in Kinds, TestStream(k)
      PROVE  OwnStreamsOnly'
  <2>1. UNCHANGED <<streams, pr_counter>> /\ stream_pc = TestPc[k]
    BY <1>7 DEF TestStream
  <2>2. stream_pc \in {"test_video", "test_audio"}
    BY <2>1 DEF TestPc, Kinds
  <2> QED
    BY <2>1, <2>2, OwnFrame DEF OwnInv, Kinds, RemovePc
<1> QED
  BY <1>1, <1>2, <1>3, <1>4, <1>5, <1>6, <1>7 DEF stream_loop

\* A step of another thread keeps foreign streams out.
LEMMA OtherThreadsOwn ==
  ASSUME TypeOK, OwnInv,
         \/ SectionReceived \/ filter_callback \/ SectionAtOnce
         \/ \E t \in TimerThreads : TimerExpires(t) \/ pr_change_timer(t)
         \/ \E key \in KeyPresses : KeyPressed(key)
         \/ Handler
  PROVE  OwnStreamsOnly'
<1>1. CASE change_program
  <2>1. /\ UNCHANGED <<streams, stream_pc>> /\ stream_pc = "unlocked"
        /\ \/ str_prm'["change"]
           \/ UNCHANGED <<str_prm, pr_counter>>
    BY <1>1 DEF change_program, streamVars, playerVars, MutexFree, TypeOK, Flags
  <2> QED
    BY <2>1 DEF OwnInv, OwnStreamsOnly
<1>2. CASE ~change_program
  <2>1. UNCHANGED <<streams, pr_counter>>
    BY <1>2
       DEF SectionReceived, filter_callback, ResetPids, FillPid, SectionParsed,
           SectionAtOnce, TimerExpires, pr_change_timer, KeyPressed, Handler,
           next_program, previous_program, get_prog_info, get_prog_list, SetFlag,
           set_volume, playerVars
  <2>2. stream_pc' = stream_pc \/ stream_pc = "waiting"
    <3>1. CASE SectionParsed \/ SectionAtOnce
      BY <3>1 DEF SectionParsed, SectionAtOnce, SignalStatus
    <3>2. CASE ~(SectionParsed \/ SectionAtOnce)
      BY <1>2, <3>2
         DEF SectionReceived, filter_callback, ResetPids, FillPid, TimerExpires,
             pr_change_timer, KeyPressed, Handler, next_program, previous_program,
             get_prog_info, get_prog_list, SetFlag, set_volume, streamVars
    <3> QED
      BY <3>1, <3>2
  <2>3. str_prm["change"] => str_prm'["change"]
    BY <1>2
       DEF SectionReceived, filter_callback, ResetPids, FillPid, SectionParsed,
           SectionAtOnce, TimerExpires, pr_change_timer, KeyPressed, Handler,
           next_program, previous_program, get_prog_info, get_prog_list, SetFlag,
           set_volume, TypeOK, Flags
  <2> QED
    BY <2>1, <2>2, <2>3, OwnFrame DEF OwnInv, Kinds, RemovePc
<1> QED
  BY <1>1, <1>2

\* Init establishes the invariant.
LEMMA InitOwn == Init => OwnInv
<1> SUFFICES ASSUME Init PROVE OwnInv
  OBVIOUS
<1>1. PICK junk \in [Programs -> [Kinds -> Garbage]] :
        pmts = [junk EXCEPT ![StartProgram] = Broadcast[StartProgram]]
  BY DEF Init
<1>2. \A p \in Programs, k \in Kinds :
        pmts[p][k] \in {Broadcast[p][k], NoPid} \cup Garbage
  BY <1>1
<1>3. pr_counter \in Programs
  BY ProgramsAssumption DEF Init, ProgramsAssumption
<1>4. \A k \in Kinds : streams[k] \in {None, Broadcast[pr_counter][k]}
  BY DEF Init
<1> QED
  BY <1>2, <1>3, <1>4 DEF OwnInv, OwnStreamsOnly

\* The invariant holds when every digit key is a program and no failure hides.
LEMMA OwnCorrect ==
  ASSUME Quiet, Keys \subseteq Programs
  PROVE  Spec => []OwnInv
<1>1. TypeOK /\ HandlesInv /\ HandlesInv' /\ OwnInv /\ [Next]_vars => OwnInv'
  <2> SUFFICES ASSUME TypeOK, HandlesInv, HandlesInv', OwnInv, [Next]_vars
               PROVE  OwnInv'
    OBVIOUS
  <2>2. pr_counter' \in Programs
    BY CounterInPrograms DEF OwnInv
  <2>3. OwnStreamsOnly'
    <3>1. CASE Next
      BY <3>1, StreamLoopOwn, OtherThreadsOwn DEF Next
    <3>2. CASE UNCHANGED vars
      BY <3>2 DEF OwnInv, OwnStreamsOnly, vars, streamVars, playerVars
    <3> QED
      BY <3>1, <3>2
  <2> QED
    BY <2>2, <2>3, OwnPids DEF OwnInv
<1> QED
  BY <1>1, CallsCorrect, InitOwn, PTL DEF Spec

\* When every digit key is a program and the volume key cannot hide a failed
\* call, no stream of another program survives a zap, whatever is parsed or fails
\* in the meantime.
THEOREM NoForeignStream ==
  ASSUME Quiet, Keys \subseteq Programs
  PROVE  Spec => []OwnStreamsOnly
<1>1. OwnInv => OwnStreamsOnly
  BY DEF OwnInv
<1> QED
  BY <1>1, OwnCorrect, PTL

-----------------------------------------------------------------------------
(* The information banner: BannerOfCurrentProgram is inductive. *)

\* It is preserved when the banner stays or goes, the program does not change
\* and a change that is pending is served first.
LEMMA BannerStays ==
  ASSUME BannerOfCurrentProgram, UNCHANGED pr_counter,
         screen'.info \in {None, screen.info},
         stream_pc = "black" => stream_pc' = "black" \/ screen'.info = None,
         str_prm["change"] /\ stream_pc \in {"unlocked", "change"} =>
           \/ stream_pc' = "black"
           \/ str_prm'["change"] /\ stream_pc' \in {"unlocked", "change"}
  PROVE  BannerOfCurrentProgram'
BY DEF BannerOfCurrentProgram

\* The steps of the stream thread preserve it.
LEMMA StreamLoopBanner ==
  ASSUME TypeOK, BannerOfCurrentProgram, stream_loop
  PROVE  BannerOfCurrentProgram'
<1> USE DEF At, GoTo
<1>1. CASE LockStreamParams
  <2>1. str_prm["change"] => FirstPending(str_prm) = "change"
    BY DEF FirstPending
  <2> QED
    BY <1>1, <2>1, BannerStays DEF LockStreamParams
<1>2. CASE UnlockStreamParams \/ ServeChange
  BY <1>2, BannerStays DEF UnlockStreamParams, ServeChange
<1>3. CASE ServeNext \/ ServePrevious
  BY <1>3 DEF ServeNext, ServePrevious, BannerOfCurrentProgram
<1>4. CASE BlackScreen
  BY <1>4 DEF BlackScreen, print_black_screen, BannerOfCurrentProgram, TypeOK
<1>5. CASE AssertResult
  <2>1. stream_pc \notin {"black", "unlocked", "change"}
    BY <1>5, PcTables DEF AssertResult, TypeOK
  <2> QED
    BY <1>5, <2>1, BannerStays DEF AssertResult
<1>6. CASE \/ \E k \in Kinds : RemoveStream(k) \/ TestStream(k) \/ CreateStream(k)
           \/ FreeFilter \/ SetFilter \/ WaitForSection
  <2>1. stream_pc \notin {"black", "unlocked", "change"}
    BY <1>6 DEF RemoveStream, TestStream, CreateStream, FreeFilter, SetFilter,
       WaitForSection, RemovePc, TestPc, CreatePc, Kinds
  <2>2. UNCHANGED <<pr_counter, screen>>
    BY <1>6 DEF RemoveStream, TestStream, CreateStream, FreeFilter, SetFilter,
       WaitForSection
  <2> QED
    BY <2>1, <2>2, BannerStays
<1>7. CASE Present \/ StoreTimerSpec \/ SetTimer \/ ServeList
  <2>1. /\ stream_pc \notin {"black", "unlocked", "change"}
        /\ UNCHANGED pr_counter
        /\ screen'.info = screen.info
    BY <1>7 DEF Present, StoreTimerSpec, SetTimer, ServeList, print_prog_num, TypeOK
  <2> QED
    BY <2>1, BannerStays
<1>8. CASE ServeInfo
  BY <1>8 DEF ServeInfo, print_info_banner, BannerOfCurrentProgram, TypeOK
<1> QED
  BY <1>1, <1>2, <1>3, <1>4, <1>5, <1>6, <1>7, <1>8 DEF stream_loop

\* So do the steps of the other threads: a key changes the program only while
\* the mutex is free, and records the change in the same step.
LEMMA OtherThreadsBanner ==
  ASSUME TypeOK, BannerOfCurrentProgram, Next, ~stream_loop
  PROVE  BannerOfCurrentProgram'
<1>1. CASE change_program
  BY <1>1 DEF change_program, MutexFree, print_prog_num, BannerOfCurrentProgram,
     TypeOK, Flags, streamVars
<1>2. CASE \E r \in Flags : SetFlag(r)
  <2>1. str_prm["change"] => str_prm'["change"]
    BY <1>2 DEF SetFlag, TypeOK, Flags
  <2> QED
    BY <1>2, <2>1, BannerStays DEF SetFlag, streamVars
<1>3. CASE set_volume \/ \E key \in KeyPresses : KeyPressed(key)
  BY <1>3, BannerStays DEF set_volume, KeyPressed, streamVars
<1>4. CASE SectionReceived \/ filter_callback \/ SectionAtOnce
  <2>1. /\ UNCHANGED <<pr_counter, str_prm, screen>>
        /\ stream_pc \in {"black", "unlocked", "change"} => UNCHANGED stream_pc
    BY <1>4 DEF SectionReceived, filter_callback, ResetPids, FillPid, SectionParsed,
       SectionAtOnce, SignalStatus, streamVars
  <2> QED
    BY <2>1, BannerStays
<1>5. CASE \E t \in TimerThreads : TimerExpires(t) \/ pr_change_timer(t)
  <2>1. /\ UNCHANGED <<pr_counter, str_prm, stream_pc>>
        /\ screen'.info = screen.info
    BY <1>5 DEF TimerExpires, pr_change_timer, print_prog_num, streamVars, TypeOK
  <2> QED
    BY <2>1, BannerStays
<1> QED
  BY <1>1, <1>2, <1>3, <1>4, <1>5
     DEF Next, Handler, next_program, previous_program, get_prog_info, get_prog_list,
         Flags

\* The information banner never outlives its program, whichever keys are pressed
\* while it is shown and whichever program they are the keys of.
THEOREM BannerCurrent == Spec => []BannerOfCurrentProgram
<1>1. Init => BannerOfCurrentProgram
  BY DEF Init, BannerOfCurrentProgram
<1>2. TypeOK /\ BannerOfCurrentProgram /\ [Next]_vars => BannerOfCurrentProgram'
  <2>1. CASE UNCHANGED vars
    BY <2>1 DEF vars, streamVars, BannerOfCurrentProgram
  <2> QED
    BY <2>1, StreamLoopBanner, OtherThreadsBanner
<1> QED
  BY <1>1, <1>2, TypeCorrect, PTL DEF Spec

-----------------------------------------------------------------------------
(* Between zaps the current program plays.                                 *)
(*                                                                         *)
(* The section that ends the wait is of the program whose entry is read    *)
(* next, because it is parsed at once: the filter was set for the current  *)
(* program before the wait, no key changes the program while the mutex is  *)
(* held, and a program that changes afterwards has a request pending.      *)

Wanted(k) == IF Broadcast[pr_counter][k] = NoPid THEN None ELSE Broadcast[pr_counter][k]
Playing(k) == streams[k] = Wanted(k)

\* The call of the stream thread at pc has returned and is about to pass its test.
Succeeded(pc) == stream_pc = pc /\ checking /\ error = NO_ERROR

PlaysInv ==
  /\ section.pc = "idle"
  /\ stream_pc \in {"wait", "waiting"} \/ Succeeded("set_filter") => filter = pr_counter
  /\ stream_pc \in {"test_video", "create_video", "test_audio", "create_audio", "present"} =>
       pmts[pr_counter] = Broadcast[pr_counter]
  /\ \A k \in Kinds : stream_pc = CreatePc[k] => Broadcast[pr_counter][k] # NoPid
  /\ stream_pc \in {"test_audio", "create_audio"} \/ Succeeded("create_video") =>
       Playing("video")
  /\ Succeeded("create_audio") => Playing("audio")
  /\ stream_pc \in {"present", "store_spec", "set_timer"} => \A k \in Kinds : Playing(k)
  /\ stream_pc \in {"unlock", "next", "previous", "info", "list"} => ~str_prm["change"]
  /\ /\ stream_pc \in {"unlocked", "unlock", "next", "previous", "info", "list"}
     /\ ~str_prm["change"]
     => \A k \in Kinds : Playing(k)

LEMMA InitPlays == Init => PlaysInv
<1> SUFFICES ASSUME Init PROVE PlaysInv
  OBVIOUS
<1>1. \A k \in Kinds : Playing(k)
  BY DEF Init, Playing, Wanted
<1> QED
  BY <1>1 DEF Init, PlaysInv, NoSection, Succeeded, CreatePc, Kinds

\* A step that neither creates nor removes a stream, keeps the program and the
\* results, and goes nowhere more is asked of, preserves the invariant.
LEMMA PlaysFrame ==
  ASSUME PlaysInv, UNCHANGED <<pr_counter, streams, checking, error, section, filter>>,
         pmts' = pmts \/ pmts'[pr_counter] = Broadcast[pr_counter],
         str_prm["change"] => str_prm'["change"] \/ stream_pc' # stream_pc,
         \/ stream_pc' = stream_pc /\ (stream_pc # "unlocked" => str_prm' = str_prm)
         \/ stream_pc' \in {"change", "black", "remove_audio", "dead"}
  PROVE  PlaysInv'
BY DEF PlaysInv, Playing, Wanted, Succeeded, CreatePc, Kinds

\* The block that is served next, when everything plays as it should.
LEMMA PlaysFinish ==
  ASSUME TypeOK, PlaysInv, UNCHANGED <<pr_counter, streams, section>>, ~checking,
         NEW r, Finish(r), \A k \in Kinds : Playing(k),
         str_prm["change"] => r = "change"
  PROVE  PlaysInv'
<1>1. ~str_prm'["change"] /\ ~checking' /\ stream_pc' = FirstPending(str_prm')
  BY DEF Finish, GoTo, TypeOK, Flags
<1>2. stream_pc' \in {"next", "previous", "info", "list", "unlock"}
  BY <1>1 DEF FirstPending
<1>3. \A k \in Kinds : Playing(k)'
  BY DEF Playing, Wanted
<1> QED
  BY <1>1, <1>2, <1>3 DEF PlaysInv, Succeeded, CreatePc, Kinds

\* The steps of the stream thread.
LEMMA StreamLoopPlays ==
  ASSUME TypeOK, HandlesInv, CallsInv, OwnInv, PlaysInv, stream_loop
  PROVE  PlaysInv'
<1> USE DEF At, GoTo, playerVars
<1>a. pr_counter \in Programs
  BY DEF OwnInv
<1>b. \A k \in Kinds : stream_pc \in {"test_video", "create_video", "test_audio",
                                       "create_audio", "present"} =>
                          ReadPid(k) = {Broadcast[pr_counter][k]}
  BY <1>a DEF PlaysInv, ReadPid
<1>1. CASE LockStreamParams
  <2>1. /\ UNCHANGED <<pr_counter, streams, checking, error, section, filter, pmts, str_prm>>
        /\ ~checking /\ stream_pc = "unlocked" /\ stream_pc' = FirstPending(str_prm)
    BY <1>1 DEF LockStreamParams
  <2>2. CASE str_prm["change"]
    <3>1. stream_pc' = "change"
      BY <2>1, <2>2 DEF FirstPending
    <3> QED
      BY <2>1, <3>1, PlaysFrame
  <2>3. CASE ~str_prm["change"]
    <3>1. stream_pc' \in {"next", "previous", "info", "list", "unlock"}
      BY <2>1, <2>3 DEF FirstPending
    <3>2. \A k \in Kinds : Playing(k)'
      BY <2>1, <2>3 DEF PlaysInv, Playing, Wanted
    <3> QED
      BY <2>1, <2>3, <3>1, <3>2 DEF PlaysInv, Succeeded, CreatePc, Kinds
  <2> QED
    BY <2>2, <2>3
<1>2. CASE UnlockStreamParams
  BY <1>2 DEF UnlockStreamParams, PlaysInv, Playing, Wanted, Succeeded, CreatePc, Kinds
<1>3. CASE ServeChange \/ BlackScreen
  BY <1>3, PlaysFrame DEF ServeChange, BlackScreen
<1>4. CASE ServeNext \/ ServePrevious
  BY <1>4 DEF ServeNext, ServePrevious, PlaysInv, Succeeded, CreatePc, Kinds
<1>5. ASSUME NEW k \in Kinds, RemoveStream(k)
      PROVE  PlaysInv'
  <2>1. stream_pc' \in {"remove_audio", "remove_video", "free_filter"} /\ UNCHANGED section
    BY <1>5 DEF RemoveStream, Return, RemovePc, AfterCall, Kinds
  <2> QED
    BY <2>1 DEF PlaysInv, Succeeded, CreatePc, Kinds
<1>6. CASE FreeFilter
  BY <1>6 DEF FreeFilter, Return, PlaysInv, Succeeded, CreatePc, Kinds
<1>7. CASE SetFilter
  BY <1>7 DEF SetFilter, Return, PlaysInv, Succeeded, CreatePc, Kinds, NO_ERROR, ERROR
<1>8. CASE WaitForSection
  BY <1>8 DEF WaitForSection, PlaysInv, Succeeded, CreatePc, Kinds
<1>9. ASSUME NEW k \in Kinds, TestStream(k)
      PROVE  PlaysInv'
  <2>1. /\ ~checking /\ stream_pc = TestPc[k]
        /\ UNCHANGED <<checking, error, pr_counter, streams, section, pmts, str_prm, filter>>
    BY <1>9 DEF TestStream
  <2>2. stream_pc' = IF Broadcast[pr_counter][k] # NoPid THEN CreatePc[k] ELSE AfterCall[CreatePc[k]]
    BY <1>9, <1>b, <2>1 DEF TestStream, TestPc, Kinds
  <2>3. streams[k] = None
    BY <2>1, PcOfKind DEF HandlesInv
  <2> QED
    BY <2>1, <2>2, <2>3
       DEF PlaysInv, Playing, Wanted, Succeeded, TestPc, CreatePc, AfterCall, Kinds
<1>10. ASSUME NEW k \in Kinds, CreateStream(k)
       PROVE  PlaysInv'
  <2>1. /\ ~checking /\ checking' /\ stream_pc = CreatePc[k] /\ stream_pc' = stream_pc
        /\ UNCHANGED <<pr_counter, section, pmts, str_prm, filter>>
    BY <1>10 DEF CreateStream, Return
  <2>2. /\ \A j \in Kinds : j # k => streams'[j] = streams[j]
        /\ error' = NO_ERROR => streams'[k] = Broadcast[pr_counter][k]
    BY <1>10, <1>b, <2>1 DEF CreateStream, Return, TypeOK, CreatePc, Kinds
  <2> QED
    BY <2>1, <2>2 DEF PlaysInv, Playing, Wanted, Succeeded, CreatePc, Kinds
<1>11. CASE AssertResult
  <2>1. /\ checking /\ ~checking' /\ stream_pc \in DOMAIN AfterCall
        /\ UNCHANGED <<pr_counter, streams, section, pmts, str_prm, filter>>
    BY <1>11 DEF AssertResult, TypeOK
  <2>2. CASE error # NO_ERROR
    BY <1>11, <2>1, <2>2 DEF AssertResult, PlaysInv, Succeeded, CreatePc, Kinds
  <2>3. CASE error = NO_ERROR
    <3>1. stream_pc' = AfterCall[stream_pc]
      BY <1>11, <2>3 DEF AssertResult
    <3> QED
      BY <2>1, <2>3, <3>1
         DEF PlaysInv, Playing, Wanted, Succeeded, CreatePc, AfterCall, Kinds
  <2> QED
    BY <2>2, <2>3
<1>12. CASE Present
  <2>1. CASE Finish(Serving)
    <3>1. /\ \A k \in Kinds : Playing(k)
          /\ UNCHANGED <<pr_counter, streams, section>> /\ ~checking
      BY <1>12 DEF Present, PlaysInv
    <3>2. str_prm["change"] => Serving = "change"
      BY DEF Serving, FirstPending
    <3> QED
      BY <2>1, <3>1, <3>2, PlaysFinish
  <2>2. CASE stream_pc' = "store_spec"
    BY <1>12, <2>2 DEF Present, Finish, PlaysInv, Playing, Wanted, Succeeded, CreatePc, Kinds
  <2> QED
    BY <1>12, <2>1, <2>2 DEF Present
<1>13. CASE StoreTimerSpec
  BY <1>13 DEF StoreTimerSpec, PlaysInv, Playing, Wanted, Succeeded, CreatePc, Kinds
<1>14. CASE SetTimer
  <2>1. /\ \A k \in Kinds : Playing(k)
        /\ UNCHANGED <<pr_counter, streams, section>> /\ ~checking /\ Finish(Serving)
    BY <1>14 DEF SetTimer, PlaysInv
  <2>2. str_prm["change"] => Serving = "change"
    BY DEF Serving, FirstPending
  <2> QED
    BY <2>1, <2>2, PlaysFinish
<1>15. CASE ServeInfo \/ ServeList
  <2>1. PICK r \in {"info", "list"} : stream_pc = r /\ Finish(r)
    BY <1>15 DEF ServeInfo, ServeList
  <2>2. /\ ~str_prm["change"] /\ \A k \in Kinds : Playing(k)
        /\ UNCHANGED <<pr_counter, streams, section>> /\ ~checking
    BY <1>15, <2>1 DEF ServeInfo, ServeList, PlaysInv
  <2> QED
    BY <2>1, <2>2, PlaysFinish DEF Flags
<1> QED
  BY <1>1, <1>2, <1>3, <1>4, <1>5, <1>6, <1>7, <1>8, <1>9, <1>10, <1>11, <1>12,
     <1>13, <1>14, <1>15 DEF stream_loop

\* The steps of the other threads, when a section is parsed at once.
LEMMA OtherThreadsPlays ==
  ASSUME TypeOK, CallsInv, Quiet, OwnInv, PlaysInv, ~SlowSections, Next, ~stream_loop
  PROVE  PlaysInv'
<1>1. CASE SectionReceived \/ filter_callback
  BY <1>1 DEF SectionReceived, filter_callback, ResetPids, FillPid, SectionParsed, PlaysInv
<1>2. CASE SectionAtOnce
  <2>1. /\ UNCHANGED <<pr_counter, streams, checking, error, section, filter, str_prm>>
        /\ \/ pmts'[pr_counter] = Broadcast[pr_counter]
           \/ pmts'[pr_counter] = pmts[pr_counter] /\ filter # pr_counter
    BY <1>2 DEF SectionAtOnce, playerVars, OwnInv, TypeOK
  <2>2. CASE stream_pc = "waiting"
    <3>1. stream_pc' = "test_video" /\ pmts'[pr_counter] = Broadcast[pr_counter]
      BY <1>2, <2>1, <2>2 DEF SectionAtOnce, SignalStatus, PlaysInv
    <3> QED
      BY <2>1, <3>1 DEF PlaysInv, Succeeded, CreatePc, Kinds
  <2>3. CASE stream_pc # "waiting"
    <3>1. stream_pc' = stream_pc
      BY <1>2, <2>3 DEF SectionAtOnce, SignalStatus
    <3> QED
      BY <2>1, <3>1 DEF PlaysInv, Playing, Wanted, Succeeded, CreatePc, Kinds
  <2> QED
    BY <2>2, <2>3
<1>3. CASE \E t \in TimerThreads : TimerExpires(t) \/ pr_change_timer(t)
  BY <1>3, PlaysFrame DEF TimerExpires, pr_change_timer, streamVars, playerVars
<1>4. CASE \E key \in KeyPresses : KeyPressed(key)
  BY <1>4, PlaysFrame DEF KeyPressed, streamVars, playerVars
<1>5. CASE \E r \in Flags : SetFlag(r)
  <2>1. PICK r \in Flags : SetFlag(r)
    BY <1>5
  <2>2. str_prm["change"] => str_prm'["change"]
    BY <2>1 DEF SetFlag, TypeOK, Flags
  <2> QED
    BY <2>1, <2>2, PlaysFrame DEF SetFlag, MutexFree, streamVars, playerVars
<1>6. CASE change_program
  <2>1. /\ stream_pc = "unlocked" /\ UNCHANGED <<streams, stream_pc, checking, section>>
        /\ str_prm'["change"] \/ UNCHANGED <<pr_counter, str_prm>>
    BY <1>6 DEF change_program, MutexFree, streamVars, playerVars, TypeOK, Flags
  <2> QED
    BY <2>1 DEF PlaysInv, Playing, Wanted, Succeeded, CreatePc, Kinds
<1>7. CASE set_volume
  <2>1. error' = error
    BY <1>7, KeyType DEF set_volume, TypeOK, Quiet, CallsInv, Results
  <2> QED
    BY <1>7, <2>1, PlaysFrame DEF set_volume, playerVars
<1> QED
  BY <1>1, <1>2, <1>3, <1>4, <1>5, <1>6, <1>7
     DEF Next, Handler, next_program, previous_program, get_prog_info, get_prog_list,
         Flags

\* Between zaps exactly the streams of the current program are playing, for
\* every order of keys, sections, timers and failing calls, as long as a section
\* is parsed before another thread runs, the digit keys are programs and the
\* volume key cannot hide a failed call.
THEOREM CurrentProgramPlays ==
  ASSUME Quiet, Keys \subseteq Programs, ~SlowSections
  PROVE  Spec => []PlaysCurrentProgram
<1>1. TypeOK /\ HandlesInv /\ CallsInv /\ OwnInv /\ PlaysInv /\ [Next]_vars => PlaysInv'
  <2>1. CASE UNCHANGED vars
    BY <2>1 DEF vars, streamVars, playerVars, PlaysInv, Playing, Wanted, Succeeded
  <2> QED
    BY <2>1, StreamLoopPlays, OtherThreadsPlays
<1>2. TypeOK /\ PlaysInv => PlaysCurrentProgram
  BY DEF PlaysInv, Playing, Wanted, PlaysCurrentProgram, Settled, TypeOK
<1> QED
  BY <1>1, <1>2, InitPlays, CallsCorrect, OwnCorrect, PTL DEF Spec

===============================================================================
