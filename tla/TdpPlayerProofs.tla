------------------------- MODULE TdpPlayerProofs -------------------------
(***************************************************************************)
(* The objects of the player and demux, for every set of handles and every *)
(* number of failing engine calls.                                         *)
(***************************************************************************)
EXTENDS TdpPlayer, TLAPS

\* Objects of different kinds or numbers are different objects.
LEMMA ObjectEquality ==
  ASSUME NEW k, NEW h, NEW e, NEW k2, NEW h2, NEW e2
  PROVE  Object(k, h, e) = Object(k2, h2, e2) <=> k = k2 /\ h = h2 /\ e = e2
  BY DEF Object

\* Each global has its kind.
LEMMA KindsOfGlobals ==
  /\ KindOf("hPE") = "engine" /\ KindOf("hSource") = "source"
  /\ KindOf("hStreamV") = "stream" /\ KindOf("hStreamA") = "stream"
  /\ KindOf("hFilter") = "filter" /\ KindOf("hBuffer") = "buffer"
  BY DEF KindOf, Streams

\* A handle or 0 is read from every global.
LEMMA HandleType ==
  ASSUME TypeOK, NEW g \in Globals
  PROVE  hdl[g] \in Handles \cup {0} /\ held[g] \in Handles \cup {0}
  BY DEF TypeOK

\* An object of a kind, with handles for its number and its engine, is one.
LEMMA ObjectType ==
  ASSUME NEW k \in Kinds, NEW h \in Handles, NEW e \in Handles
  PROVE  Object(k, h, e) \in [kind : Kinds, id : Handles, engine : Handles]
  BY DEF Object

\* What is closed gets the handle 0, and nothing is opened.
LEMMA ClosedType ==
  ASSUME TypeOK, NEW gs, Closed(gs)
  PROVE  opened' \subseteq Openable /\ held' \in [Globals -> Handles \cup {0}]
  <1>1. opened' \subseteq Openable
    BY DEF Closed, TypeOK
  <1>2. held' \in [Globals -> Handles \cup {0}]
    BY DEF Closed, TypeOK
  <1> QED BY <1>1, <1>2

\* What is given is a handle and something a caller opens.
LEMMA GivenType ==
  ASSUME TypeOK, NEW g \in Globals \ {"hBuffer"}, NEW h \in Handles, Given(g, h)
  PROVE  opened' \subseteq Openable /\ held' \in [Globals -> Handles \cup {0}]
  BY DEF Given, TypeOK, Openable

\* Failures are counted up to one more than their bound.
LEMMA FailedType ==
  ASSUME TypeOK, Failed
  PROVE  failures' \in 0..(MaxFailures + 1) /\ failures' > 0
  BY RegimeAssumption DEF TypeOK, Failed

-----------------------------------------------------------------------------
LEMMA TypeInit == Init => TypeOK
  BY HandlesAssumption, FunctionsAssumption, RegimeAssumption DEF Init, TypeOK, Globals, Openable

\* The types of the variables a call changes, by what the call is.
TypeCaller == held \in [Globals -> Handles \cup {0}] /\ opened \subseteq Openable
TypeRest ==
  /\ hdl \in [Globals -> Handles \cup {0}]
  /\ objects \subseteq [kind : Kinds, id : Handles, engine : Handles]
  /\ misuse \subseteq {"caller", "section"} \X (Globals \cup {"callback"})
  /\ failures \in 0..(MaxFailures + 1)

\* An engine call that fails keeps the types.
LEMMA EngineErrorType ==
  ASSUME TypeOK, NEW g \in Globals, EngineError(g)
  PROVE  /\ misuse' \subseteq {"caller", "section"} \X (Globals \cup {"callback"})
         /\ failures' \in 0..(MaxFailures + 1)
  <1>1. failures' \in 0..(MaxFailures + 1)
    BY FailedType DEF EngineError, TypeOK
  <1>2. misuse' \subseteq {"caller", "section"} \X (Globals \cup {"callback"})
    BY DEF EngineError, TypeOK
  <1> QED BY <1>1, <1>2

\* Making an object keeps the types.
LEMMA NewObjectType ==
  ASSUME TypeOK, NEW g \in Globals, NEW h \in Handles, hdl["hPE"] \in Handles,
         objects' = objects \cup {Object(KindOf(g), h, IF g = "hPE" THEN h ELSE hdl["hPE"])},
         hdl' = [hdl EXCEPT ![g] = h]
  PROVE  /\ hdl' \in [Globals -> Handles \cup {0}]
         /\ objects' \subseteq [kind : Kinds, id : Handles, engine : Handles]
  <1>1. KindOf(g) \in Kinds
    BY KindsOfGlobals DEF Globals, Kinds
  <1>2. Object(KindOf(g), h, IF g = "hPE" THEN h ELSE hdl["hPE"]) \in [kind : Kinds, id : Handles, engine : Handles]
    BY <1>1, ObjectType
  <1>3. objects' \subseteq [kind : Kinds, id : Handles, engine : Handles]
    BY <1>2 DEF TypeOK
  <1>4. hdl' \in [Globals -> Handles \cup {0}]
    BY DEF TypeOK
  <1> QED BY <1>3, <1>4

\* The types of the variables every call may change.
NextTypes ==
  /\ hdl' \in [Globals -> Handles \cup {0}]
  /\ objects' \subseteq [kind : Kinds, id : Handles, engine : Handles]
  /\ misuse' \subseteq {"caller", "section"} \X (Globals \cup {"callback"})
  /\ failures' \in 0..(MaxFailures + 1)
  /\ held' \in [Globals -> Handles \cup {0}]
  /\ opened' \subseteq Openable

\* A refused call keeps the types.
LEMMA RefuseTypes ==
  ASSUME TypeOK, Refuse
  PROVE  NextTypes /\ UNCHANGED <<callback, hooked>> /\ pc' = "idle" /\ result' = 1
  BY DEF TypeOK, Refuse, Return, NextTypes, caller

LEMMA TypeStep == TypeOK /\ [Next]_vars => TypeOK'
<1> SUFFICES ASSUME TypeOK, [Next]_vars PROVE TypeOK'
  OBVIOUS
<1> DEFINE Rest == /\ callback' \in Functions \cup {NULL}
                   /\ hooked' \subseteq Handles
                   /\ pc' \in {"idle", "add", "release", "clear"}
                   /\ section' \in {"none", "fullness", "read", "test", "call"}
                   /\ result' \in {0, 1}
<1>0. ASSUME NextTypes, Rest PROVE TypeOK'
  BY <1>0 DEF NextTypes, TypeOK
<1>g. /\ {"hPE", "hSource"} \cup Streams \subseteq Globals \ {"hBuffer"}
      /\ "hFilter" \in Globals \ {"hBuffer"} /\ "hBuffer" \in Globals
  BY DEF Globals, Streams
<1>1. CASE Player_Init
  <2>1. Rest
    BY <1>1 DEF Player_Init, Return, TypeOK
  <2>2. CASE NoObject("hPE") /\ UNCHANGED <<hdl, objects, caller>>
    BY <1>0, <2>1, <2>2, FailedType DEF NoObject, NextTypes, TypeOK, caller
  <2>3. ASSUME NEW h \in Handles,
               objects' = objects \cup {Object("engine", h, h)}, hdl' = [hdl EXCEPT !["hPE"] = h],
               UNCHANGED misuse,
               (UNCHANGED failures /\ Given("hPE", h)) \/ (Failed /\ UNCHANGED caller)
        PROVE  NextTypes
    <3>1. Object("engine", h, h) \in [kind : Kinds, id : Handles, engine : Handles]
      BY ObjectType DEF Kinds
    <3>2. held' \in [Globals -> Handles \cup {0}] /\ opened' \subseteq Openable
      BY <2>3, <1>g, GivenType DEF TypeOK, caller
    <3>3. failures' \in 0..(MaxFailures + 1)
      BY <2>3, FailedType DEF TypeOK
    <3> QED BY <2>3, <3>1, <3>2, <3>3 DEF NextTypes, TypeOK
  <2> QED BY <1>0, <1>1, <2>1, <2>2, <2>3 DEF Player_Init, Unused
<1>2. ASSUME NEW p \in Argument, Player_Deinit(p) PROVE TypeOK'
  <2>1. Rest
    BY <1>2 DEF Player_Deinit, Return, TypeOK, Refuse
  <2>2. CASE Refuse
    BY <1>0, <2>1, <2>2, RefuseTypes
  <2>3. CASE ~Refuse
    <3>1. hdl' \in [Globals -> Handles \cup {0}]
      BY <1>2, <2>3 DEF Player_Deinit
    <3>2. objects' \subseteq objects
      BY <1>2, <2>3 DEF Player_Deinit
    <3>3. misuse' \subseteq {"caller", "section"} \X (Globals \cup {"callback"})
      BY <1>2, <2>3 DEF Player_Deinit, TypeOK
    <3>4. failures' \in 0..(MaxFailures + 1)
      BY <1>2, <2>3, FailedType DEF Player_Deinit, TypeOK
    <3>5. held' \in [Globals -> Handles \cup {0}] /\ opened' \subseteq Openable
      BY <1>2, <2>3, ClosedType DEF Player_Deinit
    <3> QED BY <1>0, <2>1, <3>1, <3>2, <3>3, <3>4, <3>5 DEF NextTypes, TypeOK
  <2> QED BY <2>2, <2>3
<1>3. ASSUME NEW p \in Argument, Player_Source_Open(p) PROVE TypeOK'
  <2>1. Rest
    BY <1>3 DEF Player_Source_Open, Return, TypeOK, Refuse
  <2>2. CASE Refuse
    BY <1>0, <2>1, <2>2, RefuseTypes
  <2>3. CASE NoObject("hSource") /\ UNCHANGED <<hdl, objects, caller>>
    BY <1>0, <2>1, <2>3, FailedType DEF NoObject, NextTypes, TypeOK, caller
  <2>4. ASSUME HasPlayer(p), NEW h \in Handles,
               objects' = objects \cup {Object("source", h, hdl["hPE"])},
               hdl' = [hdl EXCEPT !["hSource"] = h], UNCHANGED misuse,
               (UNCHANGED failures /\ Given("hSource", h)) \/ (Failed /\ UNCHANGED caller)
        PROVE  NextTypes
    <3>1. hdl["hPE"] \in Handles
      BY <2>4, <1>g, HandleType DEF HasPlayer
    <3>2. hdl' \in [Globals -> Handles \cup {0}] /\ objects' \subseteq [kind : Kinds, id : Handles, engine : Handles]
      BY <2>4, <3>1, <1>g, NewObjectType, KindsOfGlobals
    <3>3. held' \in [Globals -> Handles \cup {0}] /\ opened' \subseteq Openable
      BY <2>4, <1>g, GivenType DEF TypeOK, caller
    <3>4. failures' \in 0..(MaxFailures + 1)
      BY <2>4, FailedType DEF TypeOK
    <3> QED BY <2>4, <3>2, <3>3, <3>4 DEF NextTypes, TypeOK
  <2> QED BY <1>0, <1>3, <2>1, <2>2, <2>3, <2>4 DEF Player_Source_Open, Unused
<1>4. ASSUME NEW p \in Argument, NEW s \in Argument, Player_Source_Close(p, s) PROVE TypeOK'
  <2>1. Rest
    BY <1>4 DEF Player_Source_Close, Return, TypeOK, Refuse, StopOrCloseFails
  <2>2. CASE Refuse
    BY <1>0, <2>1, <2>2, RefuseTypes
  <2>3. CASE StopOrCloseFails
    BY <1>0, <2>1, <2>3, <1>g, EngineErrorType DEF StopOrCloseFails, NextTypes, TypeOK, caller
  <2>4. CASE ~Refuse /\ ~StopOrCloseFails
    <3>1. held' \in [Globals -> Handles \cup {0}] /\ opened' \subseteq Openable
      BY <1>4, <2>4, ClosedType DEF Player_Source_Close
    <3>2. hdl' = [hdl EXCEPT !["hSource"] = 0] /\ objects' \subseteq objects /\ EngineOk
      BY <1>4, <2>4 DEF Player_Source_Close
    <3> QED BY <1>0, <2>1, <3>1, <3>2 DEF NextTypes, TypeOK, EngineOk
  <2> QED BY <2>2, <2>3, <2>4
<1>5. ASSUME NEW p \in Argument, NEW s \in Argument, NEW g \in Streams, Player_Stream_Create(p, s, g)
      PROVE  TypeOK'
  <2>1. Rest
    BY <1>5 DEF Player_Stream_Create, Return, TypeOK, Refuse
  <2>2. CASE Refuse
    BY <1>0, <2>1, <2>2, RefuseTypes
  <2>3. CASE NoObject(g) /\ UNCHANGED <<hdl, objects, caller>>
    BY <1>0, <2>1, <2>3, FailedType DEF NoObject, NextTypes, TypeOK, caller
  <2>4. ASSUME HasSource(p, s), NEW h \in Unused("stream"),
               objects' = objects \cup {Object("stream", h, hdl["hPE"])},
               hdl' = [hdl EXCEPT ![g] = h], UNCHANGED misuse,
               \/ UNCHANGED failures /\ Given(g, h)
               \/ Failed /\ held' = [held EXCEPT ![g] = h] /\ UNCHANGED opened
        PROVE  NextTypes
    <3>0. h \in Handles
      BY <2>4 DEF Unused
    <3>1. hdl["hPE"] \in Handles
      BY <2>4, <1>g, HandleType DEF HasSource, HasPlayer
    <3>2. KindOf(g) = "stream" /\ g # "hPE" /\ g \in Globals \ {"hBuffer"}
      BY KindsOfGlobals DEF Streams, Globals
    <3>3. hdl' \in [Globals -> Handles \cup {0}] /\ objects' \subseteq [kind : Kinds, id : Handles, engine : Handles]
      BY <2>4, <3>0, <3>1, <3>2, NewObjectType
    <3>4. held' \in [Globals -> Handles \cup {0}] /\ opened' \subseteq Openable
      BY <2>4, <3>0, <3>2, GivenType DEF TypeOK
    <3>5. failures' \in 0..(MaxFailures + 1)
      BY <2>4, FailedType DEF TypeOK
    <3> QED BY <2>4, <3>3, <3>4, <3>5 DEF NextTypes, TypeOK
  <2> QED BY <1>0, <1>5, <2>1, <2>2, <2>3, <2>4 DEF Player_Stream_Create
<1>6. ASSUME NEW p \in Argument, NEW s \in Argument, NEW t \in Argument, Player_Stream_Remove(p, s, t)
      PROVE  TypeOK'
  <2>1. Rest
    BY <1>6 DEF Player_Stream_Remove, Return, TypeOK, Refuse
  <2>2. CASE Refuse
    BY <1>0, <2>1, <2>2, RefuseTypes
  <2>3. CASE EngineError(StreamOf(t)) /\ UNCHANGED <<hdl, objects, caller>>
    BY <1>0, <2>1, <2>3, <1>g, EngineErrorType DEF NextTypes, TypeOK, caller, StreamOf, Streams
  <2>4. ASSUME EngineOk, objects' = objects \ {Destroyed(StreamOf(t))},
               hdl' = [hdl EXCEPT ![StreamOf(t)] = 0], Closed({StreamOf(t)})
        PROVE  NextTypes
    <3>1. held' \in [Globals -> Handles \cup {0}] /\ opened' \subseteq Openable
      BY <2>4, ClosedType
    <3> QED BY <2>4, <3>1 DEF NextTypes, TypeOK, EngineOk
  <2> QED BY <1>0, <1>6, <2>1, <2>2, <2>3, <2>4 DEF Player_Stream_Remove
<1>7. ASSUME NEW f \in Functions, Demux_Register_Section_Filter_Callback(f) PROVE TypeOK'
  <2>1. CASE Refuse
    BY <1>0, <1>7, <2>1, RefuseTypes DEF Demux_Register_Section_Filter_Callback, TypeOK
  <2>2. CASE ~Refuse
    <3>1. NextTypes
      BY <1>7, <2>2, <1>g, EngineErrorType
      DEF Demux_Register_Section_Filter_Callback, NextTypes, TypeOK, caller, EngineOk, Openable
    <3>2. hooked' \subseteq Handles
      <4>1. Exists("engine", hdl["hPE"]) => hdl["hPE"] \in Handles
        BY ObjectType DEF Exists, Object, TypeOK
      <4> QED BY <1>7, <2>2, <4>1 DEF Demux_Register_Section_Filter_Callback, TypeOK
    <3> QED BY <1>0, <1>7, <2>2, <3>1, <3>2 DEF Demux_Register_Section_Filter_Callback, TypeOK, Return
  <2> QED BY <2>1, <2>2
<1>8. ASSUME NEW f \in Functions, Demux_Unregister_Section_Filter_Callback(f) PROVE TypeOK'
  <2>1. CASE Refuse
    BY <1>0, <1>8, <2>1, RefuseTypes DEF Demux_Unregister_Section_Filter_Callback, TypeOK
  <2>2. CASE ~Refuse
    <3>1. NextTypes
      BY <1>8, <2>2, <1>g, EngineErrorType, ClosedType
      DEF Demux_Unregister_Section_Filter_Callback, NextTypes, TypeOK, caller, EngineOk
    <3> QED BY <1>0, <1>8, <2>2, <3>1 DEF Demux_Unregister_Section_Filter_Callback, TypeOK, Return
  <2> QED BY <2>1, <2>2
<1>9. ASSUME NEW p \in Argument, Demux_Set_Filter(p) PROVE TypeOK'
  <2>1. Rest
    BY <1>9 DEF Demux_Set_Filter, Return, TypeOK, Refuse
  <2>2. CASE Refuse
    BY <1>0, <2>1, <2>2, RefuseTypes
  <2>3. CASE NoObject("hBuffer") /\ UNCHANGED <<hdl, objects, caller>>
    BY <1>0, <2>1, <2>3, FailedType DEF NoObject, NextTypes, TypeOK, caller
  <2>4. ASSUME HasPlayer(p), NEW h \in Handles, NewObject("hBuffer", h), UNCHANGED caller PROVE NextTypes
    <3>1. hdl["hPE"] \in Handles
      BY <2>4, <1>g, HandleType DEF HasPlayer
    <3>2. hdl' \in [Globals -> Handles \cup {0}] /\ objects' \subseteq [kind : Kinds, id : Handles, engine : Handles]
      BY <2>4, <3>1, <1>g, NewObjectType DEF NewObject
    <3> QED BY <2>4, <3>2 DEF NewObject, NextTypes, TypeOK, EngineOk, caller
  <2> QED BY <1>0, <1>9, <2>1, <2>2, <2>3, <2>4 DEF Demux_Set_Filter
<1>10. CASE AddSectionFilter
  <2>1. Rest
    BY <1>10 DEF AddSectionFilter, Return, TypeOK
  <2>2. ASSUME NoObject("hFilter") \/ EngineError("hSource"), objects' = objects \ {Destroyed("hBuffer")},
               UNCHANGED <<hdl, caller>>
        PROVE  NextTypes
    BY <2>2, <1>g, FailedType, EngineErrorType DEF NoObject, NextTypes, TypeOK, caller
  <2>3. ASSUME NEW h \in Handles, Exists("source", hdl["hSource"]), NewObject("hFilter", h), Given("hFilter", h)
        PROVE  NextTypes
    <3>1. hdl["hPE"] \in Handles
      BY <2>3 DEF Exists, Object, TypeOK
    <3>2. hdl' \in [Globals -> Handles \cup {0}] /\ objects' \subseteq [kind : Kinds, id : Handles, engine : Handles]
      BY <2>3, <3>1, <1>g, NewObjectType DEF NewObject
    <3> QED BY <2>3, <3>2, <1>g, GivenType DEF NewObject, NextTypes, TypeOK, EngineOk
  <2> QED BY <1>0, <1>10, <2>1, <2>2, <2>3 DEF AddSectionFilter
<1>11. ASSUME NEW p \in Argument, NEW f \in Argument, Demux_Free_Filter(p, f) PROVE TypeOK'
  <2>1. Rest
    BY <1>11 DEF Demux_Free_Filter, Return, TypeOK, Refuse
  <2>2. CASE Refuse
    BY <1>0, <2>1, <2>2, RefuseTypes
  <2>3. CASE ~Refuse
    BY <1>0, <1>11, <2>1, <2>3, <1>g, EngineErrorType DEF Demux_Free_Filter, NextTypes, TypeOK, EngineOk, caller
  <2> QED BY <2>2, <2>3
<1>12. CASE BufRelease
  BY <1>12, <1>g, EngineErrorType DEF BufRelease, TypeOK, EngineOk, caller
<1>13. CASE ClearFilter
  BY <1>0, <1>13, ClosedType DEF ClearFilter, NextTypes, TypeOK, Return
<1>14. CASE m_sectionReceivedCallback
  <2>1. misuse' \subseteq {"caller", "section"} \X (Globals \cup {"callback"})
    BY <1>14, <1>g DEF m_sectionReceivedCallback, SectionArrives, UseBuffer, TestCallback, CallCallback, TypeOK
  <2>2. section' \in {"none", "fullness", "read", "test", "call"}
    BY <1>14 DEF m_sectionReceivedCallback, SectionArrives, UseBuffer, TestCallback, CallCallback
  <2>3. OnlySection
    BY <1>14 DEF m_sectionReceivedCallback, SectionArrives, UseBuffer, TestCallback, CallCallback
  <2> QED BY <2>1, <2>2, <2>3 DEF OnlySection, TypeOK, caller
<1>15. CASE UNCHANGED vars
  BY <1>15 DEF vars, TypeOK
<1>16. ASSUME NEW p \in Argument, Refuse \/ Volume(p), UNCHANGED section PROVE TypeOK'
  <2>1. CASE Refuse
    BY <1>0, <1>16, <2>1, RefuseTypes DEF TypeOK
  <2>2. CASE Volume(p)
    <3>1. NextTypes
      BY <2>2, <1>g, EngineErrorType DEF Volume, NextTypes, TypeOK, caller, EngineOk
    <3> QED BY <1>0, <1>16, <2>2, <3>1 DEF Volume, TypeOK, Return
  <2> QED BY <1>16, <2>1, <2>2
<1>17. ASSUME NEW p \in Argument, Player_Volume_Set(p) \/ \E room \in BOOLEAN : Player_Volume_Get(p, room)
       PROVE  TypeOK'
  BY <1>16, <1>17 DEF Player_Volume_Set, Player_Volume_Get
<1> QED
  BY <1>1, <1>2, <1>3, <1>4, <1>5, <1>6, <1>7, <1>8, <1>9, <1>10, <1>11, <1>12, <1>13, <1>14, <1>15, <1>17
  DEF Next, Call

\* Every state of the player and demux is well formed.
THEOREM PlayerTypeCorrect == Spec => []TypeOK
  BY TypeInit, TypeStep, PTL DEF Spec

-----------------------------------------------------------------------------
(* What the caller relies on.                                               *)

\* An object the globals know, under the engine they know.
Known(g) == Exists(KindOf(g), hdl[g])
Relied == {"hPE", "hSource"} \cup Streams

\* The caller opens in order.
InOrder ==
  /\ opened # {} => "hPE" \in opened
  /\ opened \cap (Streams \cup {"hFilter"}) # {} => "hSource" \in opened
  /\ pc = "add" => "hSource" \in opened /\ "hFilter" \notin opened
  /\ pc \in {"release", "clear"} => "hFilter" \in opened

\* The caller has the handles of what it opened.
HandlesHeld == \A g \in opened \ {"callback"} : hdl[g] = held[g] /\ hdl[g] # 0

\* Player, source and streams that have a handle exist; the streams have
\* different ones; nothing has a handle before the player.
ReliedExist ==
  /\ \A g \in Relied : hdl[g] # 0 => Known(g)
  /\ hdl["hStreamV"] # 0 => hdl["hStreamA"] # hdl["hStreamV"]
  /\ "hPE" \notin opened => \A g \in Globals \ {"hPE"} : hdl[g] = 0

\* Filter and buffer exist from Demux_Set_Filter to Demux_Free_Filter, and the
\* filter has no handle otherwise.
FilterExists ==
  /\ "hFilter" \notin opened => hdl["hFilter"] = 0
  /\ "hFilter" \in opened /\ pc = "idle" => Known("hFilter")
  /\ "hFilter" \in opened /\ pc # "clear" => Known("hBuffer")
  /\ pc = "add" => Known("hBuffer")
  /\ failures = 0 /\ pc # "clear" /\ hdl["hBuffer"] # 0 => Known("hBuffer")

PlayerInv == TypeOK /\ InOrder /\ HandlesHeld /\ ReliedExist /\ FilterExists /\ CallsOnLiveObjects

\* The invariant gives what the caller may rely on.
LEMMA InvOpenedExists == PlayerInv => OpenedExists
<1> SUFFICES ASSUME PlayerInv, pc \in {"idle", "add"}, NEW g \in opened \ {"callback"}
             PROVE  /\ hdl[g] = held[g]
                    /\ Exists(KindOf(g), hdl[g])
                    /\ g = "hFilter" => Exists("buffer", hdl["hBuffer"])
  BY DEF OpenedExists
<1>1. g \in Relied \cup {"hFilter"}
  BY DEF PlayerInv, TypeOK, Openable, Globals, Relied, Streams
<1>2. hdl[g] = held[g] /\ hdl[g] # 0
  BY DEF PlayerInv, HandlesHeld
<1>3. CASE g \in Relied
  <2>1. g # "hFilter"
    BY <1>3 DEF Relied, Streams
  <2> QED BY <1>2, <1>3, <2>1 DEF PlayerInv, ReliedExist, Known
<1>4. CASE g = "hFilter"
  BY <1>2, <1>4, KindsOfGlobals DEF PlayerInv, FilterExists, InOrder, Known
<1> QED BY <1>1, <1>3, <1>4

\* Initially nothing is open.
LEMMA InvInit == Init => PlayerInv
  BY TypeInit DEF Init, PlayerInv, InOrder, HandlesHeld, ReliedExist, FilterExists, CallsOnLiveObjects,
     Relied, Globals, Streams

\* An object stays known while nothing is destroyed and its handle is kept.
LEMMA KnownStays ==
  ASSUME NEW g, Known(g), hdl'[g] = hdl[g], hdl'["hPE"] = hdl["hPE"], objects \subseteq objects'
  PROVE  Known(g)'
  BY DEF Known, Exists

\* Destroying another object leaves an object known.
LEMMA KnownUnlessDestroyed ==
  ASSUME NEW g, NEW d, Known(g), hdl'[g] = hdl[g], hdl'["hPE"] = hdl["hPE"],
         objects' = objects \ {Destroyed(d)}, KindOf(g) # KindOf(d) \/ hdl[g] # hdl[d]
  PROVE  Known(g)'
  BY ObjectEquality DEF Known, Exists, Destroyed

\* An object that was just made is known.
LEMMA NewKnown ==
  ASSUME TypeOK, NEW g \in Globals, NEW h \in Handles,
         objects' = objects \cup {Object(KindOf(g), h, IF g = "hPE" THEN h ELSE hdl["hPE"])},
         hdl' = [hdl EXCEPT ![g] = h]
  PROVE  Known(g)' /\ hdl'[g] = h /\ h # 0
  <1>1. hdl'[g] = h /\ (g # "hPE" => hdl'["hPE"] = hdl["hPE"])
    BY DEF TypeOK
  <1>2. Known(g)'
    BY <1>1 DEF Known, Exists
  <1> QED BY <1>1, <1>2, HandlesAssumption

\* A call that fails without touching an object that does not exist.
LEMMA CallsStay ==
  ASSUME CallsOnLiveObjects, misuse' = misuse, failures' = failures \/ failures' > 0
  PROVE  CallsOnLiveObjects'
  BY DEF CallsOnLiveObjects

LEMMA ErrorOnKnown ==
  ASSUME TypeOK, NEW g, EngineError(g), Known(g)
  PROVE  misuse' = misuse /\ failures' > 0
  BY FailedType DEF EngineError, Known

\* A call that changes no handle and no object.
LEMMA InvFrame ==
  ASSUME PlayerInv, TypeOK', CallsOnLiveObjects',
         UNCHANGED <<hdl, objects, opened, held>>, pc' = pc, failures' = failures \/ failures' > 0
  PROVE  PlayerInv'
  <1>1. \A g \in Globals : Known(g)' <=> Known(g)
    BY DEF Known, Exists
  <1>2. Relied \subseteq Globals /\ {"hFilter", "hBuffer"} \subseteq Globals
    BY DEF Relied, Globals, Streams
  <1>3. InOrder' /\ HandlesHeld'
    BY DEF PlayerInv, InOrder, HandlesHeld
  <1>4. ReliedExist'
    BY <1>1, <1>2 DEF PlayerInv, ReliedExist
  <1>5. FilterExists'
    BY <1>1, <1>2 DEF PlayerInv, FilterExists
  <1> QED BY <1>3, <1>4, <1>5 DEF PlayerInv

\* Opening a player, a source or a stream, whether or not the caller is told.
LEMMA InvOpen ==
  ASSUME PlayerInv, TypeOK', NEW g \in Relied, g \notin opened, pc = "idle", pc' = "idle",
         NEW h \in Unused(KindOf(g)),
         objects' = objects \cup {Object(KindOf(g), h, IF g = "hPE" THEN h ELSE hdl["hPE"])},
         hdl' = [hdl EXCEPT ![g] = h],
         g = "hSource" => "hPE" \in opened,
         g \in Streams => "hSource" \in opened,
         misuse' = misuse,
         \/ failures' = failures /\ Given(g, h)
         \/ failures' > 0 /\ opened' = opened /\ held' \in {held, [held EXCEPT ![g] = h]}
  PROVE  PlayerInv'
  <1>0. /\ g \in Globals /\ h \in Handles /\ h # 0
        /\ {"hPE", "hFilter", "hBuffer"} \cup Relied \subseteq Globals
        /\ g # "hFilter" /\ g # "hBuffer" /\ g # "callback"
        /\ opened' \in {opened, opened \cup {g}}
    BY HandlesAssumption DEF Relied, Globals, Streams, Unused, Given
  <1>1. Known(g)' /\ hdl'[g] = h
    BY <1>0, NewKnown DEF PlayerInv
  <1>2. \A d \in Globals \ {g} : hdl'[d] = hdl[d]
    BY DEF PlayerInv, TypeOK
  <1>3. ASSUME g # "hPE", NEW d \in Globals \ {g}, Known(d) PROVE Known(d)'
    BY <1>0, <1>2, <1>3, KnownStays
  <1>4. g # "hPE" => "hPE" \in opened
    BY DEF PlayerInv, InOrder, Relied, Streams
  <1>5. g = "hPE" => opened = {} /\ \A d \in Globals \ {"hPE"} : hdl[d] = 0
    BY DEF PlayerInv, InOrder, ReliedExist
  <1>6. InOrder'
    BY <1>0, <1>4, <1>5 DEF PlayerInv, InOrder, Relied
  <1>7. HandlesHeld'
    <2> SUFFICES ASSUME NEW d \in opened' \ {"callback"} PROVE hdl'[d] = held'[d] /\ hdl'[d] # 0
      BY DEF HandlesHeld
    <2>1. CASE d = g
      BY <1>0, <1>1, <2>1 DEF Given, PlayerInv, TypeOK
    <2>2. CASE d # g
      <3>1. d \in opened /\ d \in Globals
        BY <1>0, <2>2 DEF PlayerInv, TypeOK, Openable
      <3>2. held'[d] = held[d]
        BY <2>2, <3>1 DEF Given, PlayerInv, TypeOK
      <3> QED BY <1>2, <2>2, <3>1, <3>2 DEF PlayerInv, HandlesHeld
    <2> QED BY <2>1, <2>2
  <1>8. ReliedExist'
    <2>1. ASSUME NEW d \in Relied, hdl'[d] # 0 PROVE Known(d)'
      BY <1>0, <1>1, <1>2, <1>3, <1>5, <2>1 DEF PlayerInv, ReliedExist
    <2>2. hdl'["hStreamV"] # 0 => hdl'["hStreamA"] # hdl'["hStreamV"]
      <3>1. CASE g \notin Streams
        BY <1>2, <3>1 DEF PlayerInv, ReliedExist, Streams, Globals
      <3>2. CASE g \in Streams
        <4> PICK d \in Streams : d # g /\ Streams = {d, g}
          BY <3>2 DEF Streams
        <4>1. d \in Relied \ {g} /\ KindOf(d) = "stream" /\ KindOf(g) = "stream"
          BY <3>2, KindsOfGlobals DEF Relied, Streams
        <4>2. hdl[d] # 0 => Object("stream", hdl[d], hdl["hPE"]) \in objects
          BY <4>1 DEF PlayerInv, ReliedExist, Known, Exists
        <4>3. hdl[d] # 0 => hdl[d] # h
          BY <4>1, <4>2 DEF Unused, Object
        <4>4. hdl'[d] # hdl'[g]
          BY <1>0, <1>1, <1>2, <4>1, <4>3
        <4> QED BY <3>2, <4>4 DEF Streams
      <3> QED BY <3>1, <3>2
    <2>3. "hPE" \notin opened' => \A d \in Globals \ {"hPE"} : hdl'[d] = 0
      BY <1>0, <1>2, <1>4, <1>5
    <2> QED BY <2>1, <2>2, <2>3 DEF ReliedExist
  <1>9. FilterExists'
    <2>1. hdl'["hFilter"] = hdl["hFilter"] /\ hdl'["hBuffer"] = hdl["hBuffer"]
      BY <1>0, <1>2
    <2>2. "hFilter" \in opened' <=> "hFilter" \in opened
      BY <1>0
    <2>3. CASE g = "hPE"
      BY <1>0, <1>5, <2>1, <2>2, <2>3 DEF FilterExists
    <2>4. CASE g # "hPE"
      <3>1. (Known("hFilter") => Known("hFilter")') /\ (Known("hBuffer") => Known("hBuffer")')
        BY <1>0, <1>3, <2>4
      <3>2. failures' = 0 => failures = 0
        BY DEF PlayerInv, TypeOK
      <3> QED BY <2>1, <2>2, <3>1, <3>2 DEF PlayerInv, FilterExists
    <2> QED BY <2>3, <2>4
  <1>10. CallsOnLiveObjects'
    BY CallsStay DEF PlayerInv
  <1> QED BY <1>6, <1>7, <1>8, <1>9, <1>10 DEF PlayerInv

\* Closing the source or a stream.
LEMMA InvClose ==
  ASSUME PlayerInv, TypeOK', NEW g \in Relied \ {"hPE"}, g \in opened, pc = "idle", pc' = "idle",
         g = "hSource" => opened \cap (Streams \cup {"hFilter"}) = {},
         objects' = objects \ {Destroyed(g)}, hdl' = [hdl EXCEPT ![g] = 0], Closed({g}), EngineOk
  PROVE  PlayerInv'
  <1>0. /\ g \in Globals /\ {"hPE", "hFilter", "hBuffer"} \cup Relied \subseteq Globals
        /\ g # "hFilter" /\ g # "hBuffer" /\ g # "hPE" /\ g # "callback"
        /\ opened' = opened \ {g} /\ failures' = failures /\ misuse' = misuse
    BY DEF Relied, Globals, Streams, Closed, EngineOk
  <1>1. hdl'[g] = 0 /\ \A d \in Globals \ {g} : hdl'[d] = hdl[d] /\ held'[d] = held[d]
    BY <1>0 DEF PlayerInv, TypeOK, Closed
  <1>2. ASSUME NEW d \in Globals \ {g}, Known(d), KindOf(d) # KindOf(g) \/ hdl[d] # hdl[g] PROVE Known(d)'
    <2>1. hdl'[d] = hdl[d] /\ hdl'["hPE"] = hdl["hPE"]
      BY <1>0, <1>1, <1>2
    <2> QED BY <1>2, <2>1, KnownUnlessDestroyed
  <1>3. ASSUME NEW d \in Relied \ {g}, hdl[d] # 0 PROVE KindOf(d) # KindOf(g) \/ hdl[d] # hdl[g]
    BY <1>3, KindsOfGlobals DEF PlayerInv, ReliedExist, Relied, Streams
  <1>4. KindOf("hFilter") # KindOf(g) /\ KindOf("hBuffer") # KindOf(g)
    BY KindsOfGlobals DEF Relied, Streams
  <1>6. InOrder'
    BY <1>0 DEF PlayerInv, InOrder, Relied
  <1>7. HandlesHeld'
    BY <1>0, <1>1 DEF PlayerInv, HandlesHeld, TypeOK, Openable
  <1>8. ReliedExist'
    <2>1. ASSUME NEW d \in Relied, hdl'[d] # 0 PROVE Known(d)'
      BY <1>0, <1>1, <1>2, <1>3, <2>1 DEF PlayerInv, ReliedExist
    <2>2. hdl'["hStreamV"] # 0 => hdl'["hStreamA"] # hdl'["hStreamV"]
      BY <1>0, <1>1 DEF PlayerInv, ReliedExist, Relied, Streams
    <2>3. "hPE" \in opened'
      BY <1>0 DEF PlayerInv, InOrder
    <2> QED BY <2>1, <2>2, <2>3 DEF ReliedExist
  <1>9. FilterExists'
    BY <1>0, <1>1, <1>2, <1>4 DEF PlayerInv, FilterExists
  <1>10. CallsOnLiveObjects'
    BY <1>0, CallsStay DEF PlayerInv
  <1> QED BY <1>6, <1>7, <1>8, <1>9, <1>10 DEF PlayerInv

\* A careful caller keeps the invariant.
LEMMA InvStep ==
  ASSUME Careful = TRUE, PlayerInv, [Next]_vars
  PROVE  PlayerInv'
<1>0. TypeOK /\ TypeOK'
  BY TypeStep DEF PlayerInv
<1>g. /\ Relied \cup {"hFilter", "hBuffer"} = Globals /\ Streams \subseteq Relied
      /\ "hPE" \in Relied /\ "hSource" \in Relied \ {"hPE"} /\ "hSource" \notin Streams /\ "hPE" \notin Streams
      /\ Relied \cap {"hFilter", "hBuffer", "callback"} = {} /\ KindOf("hPE") = "engine" /\ KindOf("hSource") = "source"
  BY KindsOfGlobals DEF Relied, Globals, Streams
<1>r. CASE Refuse /\ pc = "idle"
  BY <1>0, <1>r, CallsStay, InvFrame DEF Refuse, Return, PlayerInv, caller
<1>n. ASSUME NEW g, NoObject(g), pc = "idle", pc' = "idle", UNCHANGED <<hdl, objects, caller>> PROVE PlayerInv'
  BY <1>0, <1>n, FailedType, CallsStay, InvFrame DEF NoObject, PlayerInv, caller
<1>e. ASSUME NEW g, EngineError(g), Known(g), pc = "idle", pc' = "idle", UNCHANGED <<hdl, objects, caller>>
      PROVE  PlayerInv'
  BY <1>0, <1>e, ErrorOnKnown, CallsStay, InvFrame DEF PlayerInv, caller
<1>k. \A g \in Relied : g \in opened => Known(g)
  BY <1>g DEF PlayerInv, HandlesHeld, ReliedExist
<1>1. CASE Player_Init
  <2>1. pc = "idle" /\ pc' = "idle" /\ "hPE" \notin opened
    BY <1>1 DEF Player_Init, MayOpen, Return
  <2>2. CASE NoObject("hPE") /\ UNCHANGED <<hdl, objects, caller>>
    BY <1>n, <2>1, <2>2
  <2>3. CASE ~(NoObject("hPE") /\ UNCHANGED <<hdl, objects, caller>>)
    <3> PICK h \in Unused("engine") :
          /\ objects' = objects \cup {Object("engine", h, h)}
          /\ hdl' = [hdl EXCEPT !["hPE"] = h]
          /\ UNCHANGED misuse
          /\ \/ UNCHANGED failures /\ Given("hPE", h)
             \/ Failed /\ UNCHANGED caller
      BY <1>1, <2>3 DEF Player_Init
    <3>1. Failed => failures' > 0
      BY <1>0, FailedType
    <3> QED BY <1>0, <1>g, <2>1, <3>1, InvOpen DEF caller
  <2> QED BY <2>2, <2>3
<1>2. ASSUME NEW p \in Argument, Player_Deinit(p) PROVE PlayerInv'
  <2>1. CASE Refuse
    BY <1>2, <1>r, <2>1 DEF Player_Deinit
  <2>2. CASE ~Refuse
    <3> DEFINE tracked == {g \in Globals : hdl[g] # 0}
               closable == {g \in tracked \ {"hFilter"} : Exists(KindOf(g), hdl[g])}
    <3>1. pc = "idle" /\ pc' = "idle" /\ opened \cap {"hFilter", "callback"} = {}
      BY <1>2, <2>2 DEF Player_Deinit, Return, MayClose
    <3>2. PICK kept \in SUBSET closable :
            /\ misuse' = misuse \cup {<<"caller", g>> : g \in tracked \ closable}
            /\ IF kept # {} THEN Failed ELSE UNCHANGED failures
      BY <1>2, <2>2 DEF Player_Deinit
    <3>3. hdl' = [g \in Globals |-> 0] /\ Closed({"hPE", "hSource"} \cup Streams)
      BY <1>2, <2>2 DEF Player_Deinit
    <3>4. opened' = {}
      BY <1>0, <3>1, <3>3 DEF Closed, TypeOK, Openable, Globals, Streams
    <3>g. \A g \in Globals : hdl'[g] = 0
      BY <3>3
    <3>r. Relied \subseteq Globals /\ {"hStreamV", "hFilter", "hBuffer"} \subseteq Globals
      BY DEF Relied, Globals, Streams
    <3>h. InOrder' /\ HandlesHeld'
      BY <3>1, <3>4 DEF InOrder, HandlesHeld
    <3>e. ReliedExist'
      BY <3>g, <3>r DEF ReliedExist
    <3>f. FilterExists'
      BY <3>1, <3>4, <3>g, <3>r DEF FilterExists
    <3>5. InOrder' /\ HandlesHeld' /\ ReliedExist' /\ FilterExists'
      BY <3>h, <3>e, <3>f
    <3>6. tracked \ closable \subseteq {"hBuffer"} /\ (failures = 0 => tracked = closable)
      BY <1>g, <3>1 DEF PlayerInv, ReliedExist, FilterExists, Known
    <3>7. failures' = failures \/ failures' > 0
      BY <1>0, <3>2, FailedType
    <3>8. tracked # closable => failures' > 0
      BY <1>0, <3>6, <3>7 DEF TypeOK
    <3>9. CallsOnLiveObjects'
      <4> SUFFICES ASSUME NEW g \in Globals, <<"caller", g>> \in misuse' PROVE failures' > 0 /\ g = "hBuffer"
        BY DEF CallsOnLiveObjects
      <4>1. CASE <<"caller", g>> \in misuse
        BY <3>7, <4>1 DEF PlayerInv, CallsOnLiveObjects
      <4>2. CASE g \in tracked \ closable
        BY <3>6, <3>8, <4>2
      <4> QED BY <3>2, <4>1, <4>2
    <3> QED BY <1>0, <3>5, <3>9 DEF PlayerInv
  <2> QED BY <2>1, <2>2
<1>3. ASSUME NEW p \in Argument, Player_Source_Open(p) PROVE PlayerInv'
  <2>0. pc = "idle" /\ "hSource" \notin opened /\ "hPE" \in opened
    BY <1>3 DEF Player_Source_Open, MayOpen
  <2>1. CASE Refuse
    BY <1>r, <2>0, <2>1
  <2>2. CASE NoObject("hSource") /\ UNCHANGED <<hdl, objects, caller>> /\ pc' = "idle"
    BY <1>n, <2>0, <2>2
  <2>3. CASE ~Refuse /\ ~(NoObject("hSource") /\ UNCHANGED <<hdl, objects, caller>> /\ pc' = "idle")
    <3> PICK h \in Unused("source") :
          /\ objects' = objects \cup {Object("source", h, hdl["hPE"])}
          /\ hdl' = [hdl EXCEPT !["hSource"] = h]
          /\ UNCHANGED misuse /\ pc' = "idle"
          /\ \/ UNCHANGED failures /\ Given("hSource", h)
             \/ Failed /\ UNCHANGED caller
      BY <1>3, <2>3 DEF Player_Source_Open, Return
    <3>1. Failed => failures' > 0
      BY <1>0, FailedType
    <3> QED BY <1>0, <1>g, <2>0, <3>1, InvOpen DEF caller
  <2> QED BY <2>1, <2>2, <2>3
<1>4. ASSUME NEW p \in Argument, NEW s \in Argument, Player_Source_Close(p, s) PROVE PlayerInv'
  <2>0. pc = "idle" /\ "hSource" \in opened /\ opened \cap (Streams \cup {"hFilter"}) = {}
    BY <1>4 DEF Player_Source_Close, MayClose
  <2>1. CASE Refuse
    BY <1>r, <2>0, <2>1
  <2>2. CASE StopOrCloseFails
    BY <1>e, <1>g, <1>k, <2>0, <2>2 DEF StopOrCloseFails, Return
  <2>3. CASE ~Refuse /\ ~StopOrCloseFails
    BY <1>0, <1>4, <1>g, <2>0, <2>3, InvClose DEF Player_Source_Close, Return
  <2> QED BY <2>1, <2>2, <2>3
<1>5. ASSUME NEW p \in Argument, NEW s \in Argument, NEW g \in Streams, Player_Stream_Create(p, s, g)
      PROVE  PlayerInv'
  <2>0. pc = "idle" /\ g \notin opened /\ "hSource" \in opened /\ g # "hPE" /\ KindOf(g) = "stream"
    BY <1>5, <1>g, KindsOfGlobals DEF Player_Stream_Create, MayOpen, Streams
  <2>1. CASE Refuse
    BY <1>r, <2>0, <2>1
  <2>2. CASE NoObject(g) /\ UNCHANGED <<hdl, objects, caller>> /\ pc' = "idle"
    BY <1>n, <2>0, <2>2
  <2>3. CASE ~Refuse /\ ~(NoObject(g) /\ UNCHANGED <<hdl, objects, caller>> /\ pc' = "idle")
    <3> PICK h \in Unused(KindOf(g)) :
          /\ objects' = objects \cup {Object(KindOf(g), h, hdl["hPE"])}
          /\ hdl' = [hdl EXCEPT ![g] = h]
          /\ UNCHANGED misuse /\ pc' = "idle"
          /\ \/ UNCHANGED failures /\ Given(g, h)
             \/ Failed /\ held' = [held EXCEPT ![g] = h] /\ UNCHANGED opened
      BY <1>5, <2>0, <2>3 DEF Player_Stream_Create, Return
    <3>1. Failed => failures' > 0
      BY <1>0, FailedType
    <3> QED BY <1>0, <1>g, <2>0, <3>1, InvOpen
  <2> QED BY <2>1, <2>2, <2>3
<1>6. ASSUME NEW p \in Argument, NEW s \in Argument, NEW t \in Argument, Player_Stream_Remove(p, s, t)
      PROVE  PlayerInv'
  <2>0. pc = "idle" /\ StreamOf(t) \in Streams /\ StreamOf(t) \in opened
    BY <1>6 DEF Player_Stream_Remove, MayClose, StreamOf, Streams
  <2>1. CASE Refuse
    BY <1>r, <2>0, <2>1
  <2>2. CASE EngineError(StreamOf(t)) /\ UNCHANGED <<hdl, objects, caller>> /\ pc' = "idle"
    BY <1>e, <1>g, <1>k, <2>0, <2>2
  <2>3. CASE ~Refuse /\ ~(EngineError(StreamOf(t)) /\ UNCHANGED <<hdl, objects, caller>> /\ pc' = "idle")
    BY <1>0, <1>6, <1>g, <2>0, <2>3, InvClose DEF Player_Stream_Remove, Return
  <2> QED BY <2>1, <2>2, <2>3
<1>7. ASSUME NEW f \in Functions, Demux_Register_Section_Filter_Callback(f) PROVE PlayerInv'
  <2>0. pc = "idle" /\ "hPE" \in opened
    BY <1>7 DEF Demux_Register_Section_Filter_Callback
  <2>1. CASE Refuse
    BY <1>r, <2>0, <2>1
  <2>2. CASE EngineError("hPE") /\ UNCHANGED <<hdl, objects, caller>> /\ pc' = "idle"
    BY <1>e, <1>g, <1>k, <2>0, <2>2
  <2>3. CASE EngineOk /\ pc' = "idle" /\ opened' = opened \cup {"callback"} /\ UNCHANGED <<held, hdl, objects>>
    <3>1. \A g \in Globals : Known(g)' <=> Known(g)
      BY <2>3 DEF Known, Exists
    <3>2. "callback" \notin Globals /\ "callback" \notin Streams
      BY DEF Globals, Streams
    <3>3. InOrder' /\ HandlesHeld'
      BY <2>0, <2>3, <3>2, <1>g DEF PlayerInv, InOrder, HandlesHeld
    <3>4. ReliedExist' /\ FilterExists'
      BY <2>0, <2>3, <3>1, <3>2, <1>g DEF PlayerInv, ReliedExist, FilterExists, EngineOk
    <3>5. CallsOnLiveObjects'
      BY <2>3, CallsStay DEF PlayerInv, EngineOk
    <3> QED BY <1>0, <3>3, <3>4, <3>5 DEF PlayerInv
  <2> QED BY <1>7, <2>1, <2>2, <2>3 DEF Demux_Register_Section_Filter_Callback, Return
<1>8. ASSUME NEW f \in Functions, Demux_Unregister_Section_Filter_Callback(f) PROVE PlayerInv'
  <2>0. pc = "idle" /\ "callback" \in opened /\ "hPE" \in opened
    BY <1>8 DEF Demux_Unregister_Section_Filter_Callback, MayClose, PlayerInv, InOrder
  <2>1. CASE Refuse
    BY <1>r, <2>0, <2>1
  <2>2. CASE EngineError("hPE") /\ UNCHANGED <<hdl, objects, caller>> /\ pc' = "idle"
    BY <1>e, <1>g, <1>k, <2>0, <2>2
  <2>3. CASE EngineOk /\ pc' = "idle" /\ Closed({"callback"}) /\ UNCHANGED <<hdl, objects>>
    <3>1. \A g \in Globals : Known(g)' <=> Known(g)
      BY <2>3 DEF Known, Exists
    <3>2. "callback" \notin Globals /\ "callback" \notin Streams
      BY DEF Globals, Streams
    <3>h. opened' = opened \ {"callback"} /\ \A g \in Globals : held'[g] = held[g]
      BY <1>0, <2>3, <3>2 DEF Closed, TypeOK
    <3>3. InOrder' /\ HandlesHeld'
      BY <1>0, <2>0, <2>3, <3>2, <3>h, <1>g DEF PlayerInv, InOrder, HandlesHeld, Openable, TypeOK
    <3>4. ReliedExist' /\ FilterExists'
      BY <2>0, <2>3, <3>1, <3>2, <3>h, <1>g DEF PlayerInv, ReliedExist, FilterExists, EngineOk
    <3>5. CallsOnLiveObjects'
      BY <2>3, CallsStay DEF PlayerInv, EngineOk
    <3> QED BY <1>0, <3>3, <3>4, <3>5 DEF PlayerInv
  <2> QED BY <1>8, <2>1, <2>2, <2>3 DEF Demux_Unregister_Section_Filter_Callback, Return
<1>9. ASSUME NEW p \in Argument, Demux_Set_Filter(p) PROVE PlayerInv'
  <2>0. pc = "idle" /\ "hFilter" \notin opened /\ "hSource" \in opened
    BY <1>9 DEF Demux_Set_Filter, MayOpen
  <2>1. CASE Refuse
    BY <1>r, <2>0, <2>1
  <2>2. CASE NoObject("hBuffer") /\ UNCHANGED <<hdl, objects, caller>> /\ pc' = "idle"
    BY <1>n, <2>0, <2>2
  <2>3. ASSUME NEW h \in Handles, NewObject("hBuffer", h), pc' = "add", UNCHANGED caller PROVE PlayerInv'
    <3>1. Known("hBuffer")' /\ hdl'["hBuffer"] = h /\ h # 0
      BY <1>0, <1>g, <2>3, NewKnown DEF NewObject
    <3>2. \A d \in Globals \ {"hBuffer"} : hdl'[d] = hdl[d]
      BY <1>0, <2>3 DEF NewObject, TypeOK
    <3>3. \A d \in Globals \ {"hBuffer"} : Known(d) => Known(d)'
      BY <1>g, <2>3, <3>2, KnownStays DEF NewObject
    <3>4. opened' = opened /\ held' = held /\ failures' = failures /\ misuse' = misuse
      BY <2>3 DEF caller, NewObject, EngineOk
    <3>5. InOrder' /\ HandlesHeld'
      BY <1>0, <1>g, <2>0, <2>3, <3>2, <3>4 DEF PlayerInv, InOrder, HandlesHeld, TypeOK, Openable
    <3>6. ReliedExist'
      <4>1. "hPE" \in opened
        BY <2>0 DEF PlayerInv, InOrder
      <4> QED BY <1>g, <3>2, <3>3, <3>4, <4>1 DEF PlayerInv, ReliedExist, Streams
    <3>7. FilterExists'
      BY <1>g, <2>0, <2>3, <3>1, <3>2, <3>4 DEF PlayerInv, FilterExists
    <3>8. CallsOnLiveObjects'
      BY <3>4, CallsStay DEF PlayerInv
    <3> QED BY <1>0, <3>5, <3>6, <3>7, <3>8 DEF PlayerInv
  <2> QED BY <1>9, <2>1, <2>2, <2>3 DEF Demux_Set_Filter, Return
<1>10. CASE AddSectionFilter
  <2>0. pc = "add" /\ pc' = "idle" /\ "hFilter" \notin opened /\ "hSource" \in opened /\ "hPE" \in opened
    BY <1>10 DEF AddSectionFilter, PlayerInv, InOrder, Return
  <2>s. Exists("source", hdl["hSource"])
    BY <1>g, <1>k, <2>0 DEF Known
  <2>1. CASE /\ NoObject("hFilter") \/ EngineError("hSource")
             /\ objects' = objects \ {Destroyed("hBuffer")} /\ UNCHANGED <<hdl, caller>>
    <3>0. Known("hSource")
      BY <1>g, <2>s DEF Known
    <3>1. misuse' = misuse /\ failures' > 0
      BY <1>0, <2>1, <3>0, FailedType, ErrorOnKnown DEF NoObject
    <3>2. \A d \in Globals \ {"hBuffer"} : KindOf(d) # KindOf("hBuffer")
      BY KindsOfGlobals DEF Globals
    <3>3. \A d \in Globals \ {"hBuffer"} : Known(d) => Known(d)'
      BY <2>1, <3>2, KnownUnlessDestroyed
    <3>4. InOrder' /\ HandlesHeld'
      BY <2>0, <2>1 DEF PlayerInv, InOrder, HandlesHeld, caller
    <3>5. ReliedExist' /\ FilterExists'
      BY <1>g, <2>0, <2>1, <3>1, <3>3 DEF PlayerInv, ReliedExist, FilterExists, caller
    <3>6. CallsOnLiveObjects'
      BY <2>1, <3>1, CallsStay DEF PlayerInv
    <3> QED BY <1>0, <3>4, <3>5, <3>6 DEF PlayerInv
  <2>2. ASSUME NEW h \in Handles, NewObject("hFilter", h), Given("hFilter", h) PROVE PlayerInv'
    <3>1. Known("hFilter")' /\ hdl'["hFilter"] = h /\ h # 0
      BY <1>0, <1>g, <2>2, NewKnown DEF NewObject
    <3>2. \A d \in Globals \ {"hFilter"} : hdl'[d] = hdl[d] /\ held'[d] = held[d]
      BY <1>0, <2>2 DEF NewObject, TypeOK, Given
    <3>3. \A d \in Globals \ {"hFilter"} : Known(d) => Known(d)'
      BY <1>g, <2>2, <3>2, KnownStays DEF NewObject
    <3>4. /\ opened' = opened \cup {"hFilter"} /\ held'["hFilter"] = h
          /\ failures' = failures /\ misuse' = misuse
      BY <1>0, <1>g, <2>2 DEF Given, NewObject, EngineOk, TypeOK
    <3>5. InOrder'
      BY <2>0, <3>4 DEF PlayerInv, InOrder
    <3>6. HandlesHeld'
      BY <1>0, <3>1, <3>2, <3>4 DEF PlayerInv, HandlesHeld, TypeOK, Openable
    <3>7. ReliedExist'
      BY <1>g, <2>0, <3>2, <3>3, <3>4 DEF PlayerInv, ReliedExist, Streams
    <3>8. FilterExists'
      BY <1>g, <2>0, <3>1, <3>3, <3>4 DEF PlayerInv, FilterExists
    <3>9. CallsOnLiveObjects'
      BY <3>4, CallsStay DEF PlayerInv
    <3> QED BY <1>0, <3>5, <3>6, <3>7, <3>8, <3>9 DEF PlayerInv
  <2> QED BY <1>10, <2>s, <2>1, <2>2 DEF AddSectionFilter
<1>11. ASSUME NEW p \in Argument, NEW f \in Argument, Demux_Free_Filter(p, f) PROVE PlayerInv'
  <2>0. pc = "idle" /\ "hFilter" \in opened /\ Known("hFilter") /\ Known("hBuffer")
    BY <1>11 DEF Demux_Free_Filter, MayClose, PlayerInv, FilterExists
  <2>1. CASE Refuse
    BY <1>r, <2>0, <2>1
  <2>2. CASE ~Refuse
    <3>1. pc' = "release" /\ UNCHANGED <<hdl, opened, held>>
      BY <1>11, <2>2 DEF Demux_Free_Filter, caller
    <3>2. misuse' = misuse /\ (failures' = failures \/ failures' > 0)
      BY <1>0, <1>11, <2>0, <2>2, ErrorOnKnown DEF Demux_Free_Filter, EngineOk
    <3>3. objects' = objects \/ objects' = objects \ {Destroyed("hFilter")}
      BY <1>11, <2>2 DEF Demux_Free_Filter
    <3>4. \A d \in Globals \ {"hFilter"} : KindOf(d) # KindOf("hFilter")
      BY KindsOfGlobals DEF Globals
    <3>5. \A d \in Globals \ {"hFilter"} : Known(d) => Known(d)'
      BY <3>1, <3>3, <3>4, KnownUnlessDestroyed DEF Known, Exists
    <3>6. InOrder' /\ HandlesHeld'
      BY <2>0, <3>1 DEF PlayerInv, InOrder, HandlesHeld
    <3>7. ReliedExist'
      BY <1>g, <3>1, <3>5 DEF PlayerInv, ReliedExist
    <3>8. FilterExists'
      BY <1>g, <2>0, <3>1, <3>5 DEF PlayerInv, FilterExists
    <3>9. CallsOnLiveObjects'
      BY <3>2, CallsStay DEF PlayerInv
    <3> QED BY <1>0, <3>6, <3>7, <3>8, <3>9 DEF PlayerInv
  <2> QED BY <2>1, <2>2
<1>12. CASE BufRelease
  <2>0. pc = "release" /\ pc' = "clear" /\ "hFilter" \in opened /\ Known("hBuffer") /\ UNCHANGED <<hdl, opened, held>>
    BY <1>12 DEF BufRelease, PlayerInv, InOrder, FilterExists, caller
  <2>1. misuse' = misuse /\ (failures' = failures \/ failures' > 0)
    BY <1>0, <1>12, <2>0, ErrorOnKnown DEF BufRelease, EngineOk
  <2>2. objects' = objects \/ objects' = objects \ {Destroyed("hBuffer")}
    BY <1>12 DEF BufRelease
  <2>3. \A d \in Globals \ {"hBuffer"} : KindOf(d) # KindOf("hBuffer")
    BY KindsOfGlobals DEF Globals
  <2>4. \A d \in Globals \ {"hBuffer"} : Known(d) => Known(d)'
    BY <2>0, <2>2, <2>3, KnownUnlessDestroyed DEF Known, Exists
  <2>5. InOrder' /\ HandlesHeld'
    BY <2>0 DEF PlayerInv, InOrder, HandlesHeld
  <2>6. ReliedExist'
    BY <1>g, <2>0, <2>4 DEF PlayerInv, ReliedExist
  <2>7. FilterExists'
    BY <2>0 DEF FilterExists
  <2>8. CallsOnLiveObjects'
    BY <2>1, CallsStay DEF PlayerInv
  <2> QED BY <1>0, <2>5, <2>6, <2>7, <2>8 DEF PlayerInv
<1>13. CASE ClearFilter
  <2>0. /\ pc = "clear" /\ pc' = "idle" /\ "hFilter" \in opened /\ "hPE" \in opened
        /\ hdl' = [hdl EXCEPT !["hBuffer"] = 0, !["hFilter"] = 0]
        /\ Closed({"hFilter"}) /\ UNCHANGED <<objects, misuse, failures>>
    BY <1>13 DEF ClearFilter, PlayerInv, InOrder, Return
  <2>1. opened' = opened \ {"hFilter"} /\ \A d \in Relied : hdl'[d] = hdl[d] /\ held'[d] = held[d]
    BY <1>0, <1>g, <2>0 DEF Closed, TypeOK
  <2>2. hdl'["hFilter"] = 0 /\ hdl'["hBuffer"] = 0
    BY <1>0, <1>g, <2>0 DEF TypeOK
  <2>3. \A d \in Relied : Known(d) => Known(d)'
    BY <1>g, <2>0, <2>1, KnownStays
  <2>5. InOrder' /\ HandlesHeld'
    BY <1>0, <1>g, <2>0, <2>1 DEF PlayerInv, InOrder, HandlesHeld, TypeOK, Openable
  <2>6. ReliedExist'
    <3>1. {"hStreamV", "hStreamA"} \subseteq Relied
      BY DEF Relied, Streams
    <3>2. "hPE" \in opened'
      BY <2>0, <2>1
    <3>3. hdl'["hStreamV"] # 0 => hdl'["hStreamA"] # hdl'["hStreamV"]
      BY <2>1, <3>1 DEF PlayerInv, ReliedExist
    <3> QED BY <2>1, <2>3, <3>2, <3>3 DEF PlayerInv, ReliedExist
  <2>7. FilterExists'
    BY <2>0, <2>1, <2>2 DEF FilterExists
  <2>8. CallsOnLiveObjects'
    BY <2>0, CallsStay DEF PlayerInv
  <2> QED BY <1>0, <2>5, <2>6, <2>7, <2>8 DEF PlayerInv
<1>14. CASE m_sectionReceivedCallback
  <2>1. OnlySection
    BY <1>14 DEF m_sectionReceivedCallback, SectionArrives, UseBuffer, TestCallback, CallCallback
  <2>2. \A g \in Globals : <<"caller", g>> \in misuse' => <<"caller", g>> \in misuse
    BY <1>14 DEF m_sectionReceivedCallback, SectionArrives, UseBuffer, TestCallback, CallCallback
  <2>3. CallsOnLiveObjects'
    BY <2>1, <2>2 DEF OnlySection, CallsOnLiveObjects, PlayerInv
  <2> QED BY <1>0, <2>1, <2>3, InvFrame DEF OnlySection, caller
<1>15. CASE UNCHANGED vars
  BY <1>0, <1>15, CallsStay, InvFrame DEF vars, PlayerInv
<1>16. ASSUME NEW p \in Argument, Volume(p), pc = "idle" PROVE PlayerInv'
  <2>1. Known("hPE")
    BY <1>16, <1>g DEF Volume, HasPlayer, PlayerInv, ReliedExist
  <2>2. CASE EngineOk
    BY <1>0, <1>16, <2>2, CallsStay, InvFrame DEF Volume, EngineOk, Return, PlayerInv, caller
  <2>3. CASE EngineError("hPE")
    BY <1>e, <1>16, <2>1, <2>3 DEF Volume, Return
  <2> QED BY <1>16, <2>2, <2>3 DEF Volume
<1>17. ASSUME NEW p \in Argument, Player_Volume_Set(p) \/ \E room \in BOOLEAN : Player_Volume_Get(p, room)
       PROVE  PlayerInv'
  BY <1>r, <1>16, <1>17 DEF Player_Volume_Set, Player_Volume_Get
<1> QED
  BY <1>1, <1>2, <1>3, <1>4, <1>5, <1>6, <1>7, <1>8, <1>9, <1>10, <1>11, <1>12, <1>13, <1>14, <1>15, <1>17
  DEF Next, Call

\* What a careful caller has opened and not closed exists and has the handle it
\* was given, whichever calls fail.
THEOREM OpenedAlwaysExists == ASSUME Careful = TRUE PROVE Spec => []OpenedExists
  BY InvInit, InvStep, InvOpenedExists, PTL DEF Spec

\* A careful caller never makes the API use an object that does not exist, but
\* for the section buffer after a failure.
THEOREM CallsAlwaysOnLiveObjects == ASSUME Careful = TRUE PROVE Spec => []CallsOnLiveObjects
<1>1. PlayerInv => CallsOnLiveObjects
  BY DEF PlayerInv
<1> QED BY <1>1, InvInit, InvStep, PTL DEF Spec
-----------------------------------------------------------------------------
(* Without failures the engine has exactly what the caller opened.          *)

InUse == {g \in Globals : hdl[g] # 0}

\* The objects a Demux_Free_Filter under way has released already.
Released == CASE pc = "release" -> {"hFilter"} [] pc = "clear" -> {"hFilter", "hBuffer"} [] OTHER -> {}

\* The engine has the objects of the globals, and the globals are those of what
\* the caller opened.
ExactlyOpened ==
  /\ objects = {Destroyed(g) : g \in InUse \ Released}
  /\ \A g \in Globals \ {"hBuffer"} : hdl[g] # 0 <=> g \in opened
  /\ hdl["hBuffer"] # 0 <=> "hFilter" \in opened \/ pc = "add"
  /\ hooked = {hdl["hPE"] : c \in opened \cap {"callback"}}

LeakInv == failures = 0 => ExactlyOpened

\* Nothing leaked between two calls.
LEMMA ExactLeaksNothing == TypeOK /\ LeakInv => NothingLeaks
<1> SUFFICES ASSUME TypeOK, LeakInv, failures = 0, pc = "idle" PROVE NothingLeaks
  BY DEF NothingLeaks
<1>1. ExactlyOpened /\ Released = {}
  BY DEF LeakInv, Released
<1>2. {g \in Globals : hdl[g] # 0} \ {"hBuffer"} = opened \ {"callback"}
  <2>1. opened \ {"callback"} \subseteq Globals \ {"hBuffer"}
    BY DEF TypeOK, Openable
  <2>2. "callback" \notin Globals
    BY DEF Globals
  <2>3. \A g \in Globals \ {"hBuffer"} : hdl[g] # 0 <=> g \in opened \ {"callback"}
    BY <1>1, <2>2 DEF ExactlyOpened
  <2> QED BY <2>1, <2>3
<1>3. objects = {Destroyed(g) : g \in {g2 \in Globals : hdl[g2] # 0}}
  BY <1>1 DEF ExactlyOpened, InUse
<1> QED BY <1>1, <1>2, <1>3 DEF NothingLeaks, ExactlyOpened

LEMMA LeakInit == Init => LeakInv
<1> SUFFICES ASSUME Init PROVE ExactlyOpened
  BY DEF LeakInv
<1>1. InUse = {} /\ "hBuffer" \in Globals
  BY DEF Init, InUse, Globals
<1> QED BY <1>1 DEF Init, ExactlyOpened

\* Failures are never forgotten.
LEMMA FailuresStay ==
  ASSUME TypeOK, [Next]_vars, failures' = 0
  PROVE  failures = 0
<1>1. failures' = failures \/ Failed
  BY DEF Next, Call, Player_Init, Player_Deinit, Player_Source_Open, Player_Source_Close, StopOrCloseFails,
     Player_Stream_Create, Player_Stream_Remove, Player_Volume_Set, Player_Volume_Get, Volume, Refuse,
     Demux_Register_Section_Filter_Callback, Demux_Unregister_Section_Filter_Callback, Demux_Set_Filter,
     AddSectionFilter, Demux_Free_Filter, BufRelease, ClearFilter, m_sectionReceivedCallback, SectionArrives,
     UseBuffer, TestCallback, CallCallback, OnlySection, EngineError, EngineOk, NoObject, NewObject, vars
<1> QED BY <1>1, FailedType

\* A call that changes no handle, object or callback.
LEMMA ExactFrame ==
  ASSUME ExactlyOpened, UNCHANGED <<hdl, objects, hooked, opened, pc>>
  PROVE  ExactlyOpened'
<1>1. InUse' = InUse /\ Released' = Released /\ \A g : Destroyed(g)' = Destroyed(g)
  BY DEF InUse, Released, Destroyed
<1> QED BY <1>1 DEF ExactlyOpened

\* What is opened gets its object, its handle and its entry in opened.
LEMMA ExactOpen ==
  ASSUME PlayerInv, ExactlyOpened, NEW g \in Relied, g \notin opened, pc = "idle", pc' = "idle",
         NEW h \in Handles,
         objects' = objects \cup {Object(KindOf(g), h, IF g = "hPE" THEN h ELSE hdl["hPE"])},
         hdl' = [hdl EXCEPT ![g] = h], Given(g, h), hooked' = hooked,
         g # "hPE" => "hPE" \in opened
  PROVE  ExactlyOpened'
<1>0. /\ g \in Globals /\ h # 0 /\ {"hPE", "hBuffer", "hFilter"} \subseteq Globals
      /\ g \notin {"hBuffer", "hFilter", "callback"} /\ opened' = opened \cup {g}
      /\ Released = {} /\ Released' = {}
  BY HandlesAssumption DEF Relied, Globals, Streams, Given, Released
<1>1. hdl'[g] = h /\ \A d \in Globals \ {g} : hdl'[d] = hdl[d]
  BY <1>0 DEF PlayerInv, TypeOK
<1>2. InUse' = InUse \cup {g}
  BY <1>0, <1>1 DEF InUse
<1>3. CASE g = "hPE"
  <2>1. opened = {} /\ InUse = {}
    BY <1>3 DEF PlayerInv, InOrder, ExactlyOpened, InUse
  <2>2. objects = {} /\ hooked = {}
    BY <1>0, <2>1 DEF ExactlyOpened
  <2>3. Destroyed(g)' = Object(KindOf(g), h, h)
    BY <1>1, <1>3 DEF Destroyed
  <2>4. objects' = {Destroyed(d)' : d \in InUse' \ Released'}
    BY <1>0, <1>2, <1>3, <2>1, <2>2, <2>3
  <2> QED BY <1>0, <1>1, <1>3, <2>1, <2>2, <2>4 DEF ExactlyOpened
<1>4. CASE g # "hPE"
  <2>1. hdl'["hPE"] = hdl["hPE"]
    BY <1>0, <1>1, <1>4
  <2>2. \A d \in InUse \ {g} : Destroyed(d)' = Destroyed(d)
    BY <1>1, <2>1 DEF Destroyed, InUse
  <2>3. g \notin InUse
    BY <1>0 DEF ExactlyOpened, InUse
  <2>4. Destroyed(g)' = Object(KindOf(g), h, hdl["hPE"])
    BY <1>1, <2>1 DEF Destroyed
  <2>5. objects' = {Destroyed(d)' : d \in InUse' \ Released'}
    BY <1>0, <1>2, <1>4, <2>2, <2>3, <2>4 DEF ExactlyOpened
  <2> QED BY <1>0, <1>1, <2>1, <2>5 DEF ExactlyOpened
<1> QED BY <1>3, <1>4

\* What is closed loses its object, its handle and its entry in opened.
LEMMA ExactClose ==
  ASSUME PlayerInv, ExactlyOpened, NEW g \in Relied \ {"hPE"}, g \in opened, pc = "idle", pc' = "idle",
         objects' = objects \ {Destroyed(g)}, hdl' = [hdl EXCEPT ![g] = 0], Closed({g}), hooked' = hooked
  PROVE  ExactlyOpened'
<1>0. /\ g \in Globals /\ {"hPE", "hBuffer", "hFilter"} \subseteq Globals
      /\ g \notin {"hPE", "hBuffer", "hFilter", "callback"} /\ opened' = opened \ {g}
      /\ Released = {} /\ Released' = {}
  BY DEF Relied, Globals, Streams, Closed, Released
<1>1. hdl'[g] = 0 /\ \A d \in Globals \ {g} : hdl'[d] = hdl[d]
  BY <1>0 DEF PlayerInv, TypeOK
<1>2. InUse' = InUse \ {g}
  BY <1>0, <1>1 DEF InUse
<1>3. \A d \in InUse \ {g} : Destroyed(d)' = Destroyed(d)
  BY <1>0, <1>1 DEF Destroyed, InUse
<1>4. ASSUME NEW d \in InUse \ {g} PROVE Destroyed(d) # Destroyed(g)
  <2>1. KindOf(d) # KindOf(g) \/ hdl[d] # hdl[g]
    BY KindsOfGlobals DEF PlayerInv, ReliedExist, Relied, Streams, InUse, Globals
  <2> QED BY <2>1, ObjectEquality DEF Destroyed
<1>5. objects' = {Destroyed(d)' : d \in InUse' \ Released'}
  BY <1>0, <1>2, <1>3, <1>4 DEF ExactlyOpened
<1> QED BY <1>0, <1>1, <1>5 DEF ExactlyOpened
\* No step of a careful caller without failures leaks an object.
LEMMA LeakStep ==
  ASSUME Careful = TRUE, PlayerInv, LeakInv, [Next]_vars
  PROVE  LeakInv'
<1> SUFFICES ASSUME failures' = 0 PROVE ExactlyOpened'
  BY DEF LeakInv
<1>0. TypeOK /\ failures = 0 /\ ExactlyOpened
  BY FailuresStay DEF PlayerInv, LeakInv
<1>g. /\ Relied \cup {"hFilter", "hBuffer"} = Globals /\ Streams \subseteq Relied
      /\ "hPE" \in Relied /\ "hSource" \in Relied \ {"hPE"} /\ "hSource" \notin Streams /\ "hPE" \notin Streams
      /\ Relied \cap {"hFilter", "hBuffer", "callback"} = {} /\ KindOf("hPE") = "engine" /\ KindOf("hSource") = "source"
  BY KindsOfGlobals DEF Relied, Globals, Streams
<1>k. \A g \in Relied : g \in opened => Known(g)
  BY <1>g DEF PlayerInv, HandlesHeld, ReliedExist
<1>f. ~Failed
  BY <1>0, FailedType
<1>n. ASSUME NEW g, NoObject(g) PROVE FALSE
  BY <1>f, <1>n DEF NoObject
<1>e. ASSUME NEW g, EngineError(g), Known(g) PROVE FALSE
  BY <1>f, <1>e DEF EngineError, Known
<1>r. CASE Refuse /\ pc = "idle"
  BY <1>0, <1>r, ExactFrame DEF Refuse, Return, caller
<1>1. CASE Player_Init
  <2>1. pc = "idle" /\ pc' = "idle" /\ "hPE" \notin opened /\ hooked' = hooked
    BY <1>1 DEF Player_Init, MayOpen, Return
  <2>2. PICK h \in Handles :
          /\ objects' = objects \cup {Object("engine", h, h)}
          /\ hdl' = [hdl EXCEPT !["hPE"] = h]
          /\ Given("hPE", h)
    BY <1>1, <1>f, <1>n DEF Player_Init, Unused
  <2> QED BY <1>0, <1>g, <2>1, <2>2, ExactOpen
<1>2. ASSUME NEW p \in Argument, Player_Deinit(p) PROVE ExactlyOpened'
  <2>1. CASE Refuse
    BY <1>2, <1>r, <2>1 DEF Player_Deinit
  <2>2. CASE ~Refuse
    <3> DEFINE tracked == {g \in Globals : hdl[g] # 0}
               closable == {g \in tracked \ {"hFilter"} : Exists(KindOf(g), hdl[g])}
    <3>1. /\ pc = "idle" /\ pc' = "idle" /\ opened \cap {"hFilter", "callback"} = {}
          /\ hdl' = [g \in Globals |-> 0] /\ Closed({"hPE", "hSource"} \cup Streams) /\ hooked' = hooked
      BY <1>2, <2>2 DEF Player_Deinit, Return, MayClose
    <3>2. objects' = objects \ {Destroyed(g) : g \in closable}
      BY <1>2, <1>f, <2>2 DEF Player_Deinit
    <3>3. hdl["hFilter"] = 0 /\ hdl["hBuffer"] = 0
      BY <1>0, <1>g, <3>1 DEF ExactlyOpened
    <3>4. closable = InUse
      BY <1>g, <3>3 DEF PlayerInv, ReliedExist, Known, InUse
    <3>5. objects' = {}
      BY <1>0, <3>1, <3>2, <3>4 DEF ExactlyOpened, Released
    <3>6. opened' = {}
      BY <1>0, <3>1 DEF Closed, TypeOK, Openable, Globals, Streams
    <3>7. InUse' = {} /\ \A g \in Globals : hdl'[g] = 0
      BY <3>1 DEF InUse
    <3>8. hooked' = {}
      BY <1>0, <3>1 DEF ExactlyOpened
    <3> QED BY <1>g, <3>1, <3>5, <3>6, <3>7, <3>8 DEF ExactlyOpened
  <2> QED BY <2>1, <2>2
<1>3. ASSUME NEW p \in Argument, Player_Source_Open(p) PROVE ExactlyOpened'
  <2>0. pc = "idle" /\ "hSource" \notin opened /\ "hPE" \in opened
    BY <1>3 DEF Player_Source_Open, MayOpen
  <2>1. CASE Refuse
    BY <1>r, <2>0, <2>1
  <2>2. CASE ~Refuse
    <3> PICK h \in Handles :
          /\ objects' = objects \cup {Object("source", h, hdl["hPE"])}
          /\ hdl' = [hdl EXCEPT !["hSource"] = h]
          /\ pc' = "idle" /\ hooked' = hooked /\ Given("hSource", h)
      BY <1>3, <1>f, <1>n, <2>2 DEF Player_Source_Open, Return, Unused
    <3> QED BY <1>0, <1>g, <2>0, ExactOpen
  <2> QED BY <2>1, <2>2
<1>4. ASSUME NEW p \in Argument, NEW s \in Argument, Player_Source_Close(p, s) PROVE ExactlyOpened'
  <2>0. pc = "idle" /\ "hSource" \in opened
    BY <1>4 DEF Player_Source_Close, MayClose
  <2>1. CASE Refuse
    BY <1>r, <2>0, <2>1
  <2>2. CASE ~Refuse
    <3>1. ~StopOrCloseFails
      BY <1>e, <1>g, <1>k, <2>0 DEF StopOrCloseFails
    <3> QED BY <1>0, <1>4, <1>g, <2>0, <2>2, <3>1, ExactClose DEF Player_Source_Close, Return
  <2> QED BY <2>1, <2>2
<1>5. ASSUME NEW p \in Argument, NEW s \in Argument, NEW g \in Streams, Player_Stream_Create(p, s, g)
      PROVE  ExactlyOpened'
  <2>0. pc = "idle" /\ g \notin opened /\ "hSource" \in opened /\ "hPE" \in opened /\ g # "hPE" /\ KindOf(g) = "stream"
    BY <1>5, <1>g, KindsOfGlobals DEF Player_Stream_Create, MayOpen, Streams, PlayerInv, InOrder
  <2>1. CASE Refuse
    BY <1>r, <2>0, <2>1
  <2>2. CASE ~Refuse
    <3> PICK h \in Handles :
          /\ objects' = objects \cup {Object("stream", h, hdl["hPE"])}
          /\ hdl' = [hdl EXCEPT ![g] = h]
          /\ pc' = "idle" /\ hooked' = hooked /\ Given(g, h)
      BY <1>5, <1>f, <1>n, <2>2 DEF Player_Stream_Create, Return, Unused
    <3> QED BY <1>0, <1>g, <2>0, ExactOpen
  <2> QED BY <2>1, <2>2
<1>6. ASSUME NEW p \in Argument, NEW s \in Argument, NEW t \in Argument, Player_Stream_Remove(p, s, t)
      PROVE  ExactlyOpened'
  <2>0. pc = "idle" /\ StreamOf(t) \in Streams /\ StreamOf(t) \in opened
    BY <1>6 DEF Player_Stream_Remove, MayClose, StreamOf, Streams
  <2>1. CASE Refuse
    BY <1>r, <2>0, <2>1
  <2>2. CASE ~Refuse
    <3>1. ~EngineError(StreamOf(t))
      BY <1>e, <1>g, <1>k, <2>0
    <3>2. /\ objects' = objects \ {Destroyed(StreamOf(t))} /\ hdl' = [hdl EXCEPT ![StreamOf(t)] = 0]
          /\ Closed({StreamOf(t)}) /\ hooked' = hooked /\ pc' = "idle"
      BY <1>6, <2>2, <3>1 DEF Player_Stream_Remove, Return
    <3>3. StreamOf(t) \in Relied \ {"hPE"}
      BY <1>g, <2>0
    <3> QED BY <1>0, <2>0, <3>2, <3>3, ExactClose
  <2> QED BY <2>1, <2>2
<1>7. ASSUME NEW f \in Functions, Demux_Register_Section_Filter_Callback(f) PROVE ExactlyOpened'
  <2>0. pc = "idle" /\ "hPE" \in opened
    BY <1>7 DEF Demux_Register_Section_Filter_Callback
  <2>1. CASE Refuse
    BY <1>r, <2>0, <2>1
  <2>2. CASE ~Refuse
    <3>1. /\ pc' = "idle" /\ opened' = opened \cup {"callback"} /\ hooked' = hooked \cup {hdl["hPE"]}
          /\ UNCHANGED <<hdl, objects>>
      BY <1>7, <1>e, <1>g, <1>k, <2>0, <2>2 DEF Demux_Register_Section_Filter_Callback, Return
    <3>2. InUse' = InUse /\ Released' = Released /\ \A g : Destroyed(g)' = Destroyed(g)
      BY <2>0, <3>1 DEF InUse, Released, Destroyed
    <3>3. \A g \in Globals : g \in opened' <=> g \in opened
      BY <3>1 DEF Globals
    <3>4. hooked' = {hdl'["hPE"] : c \in opened' \cap {"callback"}}
      BY <1>0, <3>1 DEF ExactlyOpened
    <3>5. "hFilter" \in Globals
      BY DEF Globals
    <3> QED BY <1>0, <2>0, <3>1, <3>2, <3>3, <3>4, <3>5 DEF ExactlyOpened
  <2> QED BY <2>1, <2>2
<1>8. ASSUME NEW f \in Functions, Demux_Unregister_Section_Filter_Callback(f) PROVE ExactlyOpened'
  <2>0. pc = "idle" /\ "callback" \in opened /\ "hPE" \in opened
    BY <1>8 DEF Demux_Unregister_Section_Filter_Callback, MayClose, PlayerInv, InOrder
  <2>1. CASE Refuse
    BY <1>r, <2>0, <2>1
  <2>2. CASE ~Refuse
    <3>1. /\ pc' = "idle" /\ opened' = opened \ {"callback"} /\ hooked' = hooked \ {hdl["hPE"]}
          /\ UNCHANGED <<hdl, objects>>
      BY <1>8, <1>e, <1>g, <1>k, <2>0, <2>2 DEF Demux_Unregister_Section_Filter_Callback, Return, Closed
    <3>2. InUse' = InUse /\ Released' = Released /\ \A g : Destroyed(g)' = Destroyed(g)
      BY <2>0, <3>1 DEF InUse, Released, Destroyed
    <3>3. \A g \in Globals : g \in opened' <=> g \in opened
      BY <3>1 DEF Globals
    <3>4. hooked' = {hdl'["hPE"] : c \in opened' \cap {"callback"}}
      BY <1>0, <3>1 DEF ExactlyOpened
    <3>5. "hFilter" \in Globals
      BY DEF Globals
    <3> QED BY <1>0, <2>0, <3>1, <3>2, <3>3, <3>4, <3>5 DEF ExactlyOpened
  <2> QED BY <2>1, <2>2
<1>9. ASSUME NEW p \in Argument, Demux_Set_Filter(p) PROVE ExactlyOpened'
  <2>0. pc = "idle" /\ "hFilter" \notin opened /\ "hSource" \in opened
    BY <1>9 DEF Demux_Set_Filter, MayOpen
  <2>1. CASE Refuse
    BY <1>r, <2>0, <2>1
  <2>2. ASSUME NEW h \in Handles, NewObject("hBuffer", h), pc' = "add", UNCHANGED <<hooked, opened>>
        PROVE  ExactlyOpened'
    <3>1. hdl'["hBuffer"] = h /\ h # 0 /\ \A d \in Globals \ {"hBuffer"} : hdl'[d] = hdl[d]
      BY <1>0, <1>g, <2>2, HandlesAssumption DEF NewObject, TypeOK
    <3>2. hdl'["hPE"] = hdl["hPE"] /\ "hBuffer" \notin InUse
      BY <1>0, <1>g, <2>0, <3>1 DEF ExactlyOpened, InUse
    <3>3. InUse' = InUse \cup {"hBuffer"} /\ Released = {} /\ Released' = {}
      BY <1>g, <2>0, <2>2, <3>1 DEF InUse, Released
    <3>4. \A d \in InUse : Destroyed(d)' = Destroyed(d)
      BY <3>1, <3>2 DEF Destroyed, InUse
    <3>5. Destroyed("hBuffer")' = Object(KindOf("hBuffer"), h, hdl["hPE"])
      BY <3>1, <3>2 DEF Destroyed
    <3>6. objects' = objects \cup {Destroyed("hBuffer")'}
      BY <2>2, <3>5 DEF NewObject
    <3>7. objects' = {Destroyed(d)' : d \in InUse' \ Released'}
      BY <1>0, <3>3, <3>4, <3>6 DEF ExactlyOpened
    <3> QED BY <1>0, <1>g, <2>2, <3>1, <3>2, <3>7 DEF ExactlyOpened
  <2> QED BY <1>9, <1>n, <2>1, <2>2 DEF Demux_Set_Filter, caller
<1>10. CASE AddSectionFilter
  <2>0. /\ pc = "add" /\ pc' = "idle" /\ "hFilter" \notin opened /\ "hSource" \in opened /\ "hPE" \in opened
        /\ hooked' = hooked
    BY <1>10 DEF AddSectionFilter, PlayerInv, InOrder, Return
  <2>1. ~NoObject("hFilter") /\ ~EngineError("hSource")
    BY <1>e, <1>g, <1>k, <1>n, <2>0
  <2> PICK h \in Handles : NewObject("hFilter", h) /\ Given("hFilter", h)
    BY <1>10, <2>1 DEF AddSectionFilter
  <2>2. hdl'["hFilter"] = h /\ h # 0 /\ \A d \in Globals \ {"hFilter"} : hdl'[d] = hdl[d]
    BY <1>0, <1>g, HandlesAssumption DEF NewObject, TypeOK
  <2>3. hdl'["hPE"] = hdl["hPE"] /\ "hFilter" \notin InUse /\ opened' = opened \cup {"hFilter"}
    BY <1>0, <1>g, <2>0, <2>2 DEF ExactlyOpened, InUse, Given
  <2>4. InUse' = InUse \cup {"hFilter"} /\ Released = {} /\ Released' = {}
    BY <1>g, <2>0, <2>2 DEF InUse, Released
  <2>5. \A d \in InUse : Destroyed(d)' = Destroyed(d)
    BY <2>2, <2>3 DEF Destroyed, InUse
  <2>6. Destroyed("hFilter")' = Object(KindOf("hFilter"), h, hdl["hPE"])
    BY <2>2, <2>3 DEF Destroyed
  <2>7. objects' = objects \cup {Destroyed("hFilter")'}
    BY <2>6 DEF NewObject
  <2>8. objects' = {Destroyed(d)' : d \in InUse' \ Released'}
    BY <1>0, <2>4, <2>5, <2>7 DEF ExactlyOpened
  <2> QED BY <1>0, <1>g, <2>0, <2>2, <2>3, <2>8 DEF ExactlyOpened
<1>11. ASSUME NEW p \in Argument, NEW f \in Argument, Demux_Free_Filter(p, f) PROVE ExactlyOpened'
  <2>0. pc = "idle" /\ "hFilter" \in opened /\ Known("hFilter")
    BY <1>11 DEF Demux_Free_Filter, MayClose, PlayerInv, FilterExists
  <2>1. CASE Refuse
    BY <1>r, <2>0, <2>1
  <2>2. CASE ~Refuse
    <3>1. /\ pc' = "release" /\ UNCHANGED <<hdl, opened, hooked>>
          /\ objects' = objects \ {Destroyed("hFilter")}
      BY <1>11, <1>e, <2>0, <2>2 DEF Demux_Free_Filter, caller
    <3>2. InUse' = InUse /\ Released = {} /\ Released' = {"hFilter"} /\ \A g : Destroyed(g)' = Destroyed(g)
      BY <2>0, <3>1 DEF InUse, Released, Destroyed
    <3>3. ASSUME NEW d \in InUse \ {"hFilter"} PROVE Destroyed(d) # Destroyed("hFilter")
      BY KindsOfGlobals, ObjectEquality DEF Destroyed, InUse, Globals
    <3>4. objects' = {Destroyed(d)' : d \in InUse' \ Released'}
      BY <1>0, <3>1, <3>2, <3>3 DEF ExactlyOpened
    <3> QED BY <1>0, <2>0, <3>1, <3>4 DEF ExactlyOpened
  <2> QED BY <2>1, <2>2
<1>12. CASE BufRelease
  <2>0. /\ pc = "release" /\ pc' = "clear" /\ "hFilter" \in opened /\ Known("hBuffer")
        /\ UNCHANGED <<hdl, opened, hooked>>
    BY <1>12 DEF BufRelease, PlayerInv, InOrder, FilterExists, caller
  <2>1. objects' = objects \ {Destroyed("hBuffer")}
    BY <1>12, <1>e, <2>0 DEF BufRelease
  <2>2. InUse' = InUse /\ Released = {"hFilter"} /\ Released' = {"hFilter", "hBuffer"} /\ \A g : Destroyed(g)' = Destroyed(g)
    BY <2>0 DEF InUse, Released, Destroyed
  <2>3. ASSUME NEW d \in InUse \ {"hBuffer"} PROVE Destroyed(d) # Destroyed("hBuffer")
    BY KindsOfGlobals, ObjectEquality DEF Destroyed, InUse, Globals
  <2>4. objects' = {Destroyed(d)' : d \in InUse' \ Released'}
    BY <1>0, <2>1, <2>2, <2>3 DEF ExactlyOpened
  <2> QED BY <1>0, <2>0, <2>4 DEF ExactlyOpened
<1>13. CASE ClearFilter
  <2>0. /\ pc = "clear" /\ pc' = "idle" /\ "hFilter" \in opened
        /\ hdl' = [hdl EXCEPT !["hBuffer"] = 0, !["hFilter"] = 0]
        /\ Closed({"hFilter"}) /\ UNCHANGED <<objects, hooked>>
    BY <1>13 DEF ClearFilter, PlayerInv, InOrder, Return
  <2>1. /\ opened' = opened \ {"hFilter"} /\ hdl'["hFilter"] = 0 /\ hdl'["hBuffer"] = 0
        /\ \A d \in Relied : hdl'[d] = hdl[d]
    BY <1>0, <1>g, <2>0 DEF Closed, TypeOK
  <2>2. InUse' = InUse \ {"hFilter", "hBuffer"} /\ Released = {"hFilter", "hBuffer"} /\ Released' = {}
    BY <1>g, <2>0, <2>1 DEF InUse, Released
  <2>3. \A d \in InUse' : Destroyed(d)' = Destroyed(d)
    BY <1>g, <2>1, <2>2 DEF Destroyed, InUse
  <2>4. objects' = {Destroyed(d)' : d \in InUse' \ Released'}
    BY <1>0, <2>0, <2>2, <2>3 DEF ExactlyOpened
  <2> QED BY <1>0, <1>g, <2>0, <2>1, <2>4 DEF ExactlyOpened
<1>14. CASE m_sectionReceivedCallback
  <2>1. OnlySection
    BY <1>14 DEF m_sectionReceivedCallback, SectionArrives, UseBuffer, TestCallback, CallCallback
  <2> QED BY <1>0, <2>1, ExactFrame DEF OnlySection, caller
<1>15. CASE UNCHANGED vars
  BY <1>0, <1>15, ExactFrame DEF vars
<1>16. ASSUME NEW p \in Argument, Volume(p), pc = "idle" PROVE ExactlyOpened'
  BY <1>0, <1>16, ExactFrame DEF Volume, Return, caller
<1>17. ASSUME NEW p \in Argument, Player_Volume_Set(p) \/ \E room \in BOOLEAN : Player_Volume_Get(p, room)
       PROVE  ExactlyOpened'
  BY <1>r, <1>16, <1>17 DEF Player_Volume_Set, Player_Volume_Get
<1> QED
  BY <1>1, <1>2, <1>3, <1>4, <1>5, <1>6, <1>7, <1>8, <1>9, <1>10, <1>11, <1>12, <1>13, <1>14, <1>15, <1>17
  DEF Next, Call

\* While no call of the engine fails, the engine has between two calls exactly
\* the objects of what a careful caller has opened, its callback included.
THEOREM NothingEverLeaks == ASSUME Careful = TRUE PROVE Spec => []NothingLeaks
<1>1. PlayerInv /\ LeakInv => NothingLeaks
  BY ExactLeaksNothing DEF PlayerInv
<1> QED BY <1>1, InvInit, InvStep, LeakInit, LeakStep, PTL DEF Spec
==========================================================================
