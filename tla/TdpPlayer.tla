----------------------------- MODULE TdpPlayer -----------------------------
(***************************************************************************)
(* The player and demux half of the TDP API (src/tdp_api/tdp_api.c): six   *)
(* global handles over the objects of the platform's player engine MV_PE,  *)
(* and the engine's thread that delivers sections.  MV_PE is external: it  *)
(* is a set of objects, each of one kind and owned by one player engine,   *)
(* and a call of it may fail.  It refuses an object that does not exist.   *)
(* The caller passes any handle, in order (Careful) or in any order.      *)
(***************************************************************************)
EXTENDS Naturals, FiniteSets

CONSTANTS
  Handles,      \* values of the engine's handles; 0 is no handle
  Functions,    \* section callbacks of callers
  NULL,         \* no callback
  MaxFailures,  \* bound of the MV_PE calls that fail for reasons of their own
  Careful       \* the caller opens and closes objects in order

ASSUME HandlesAssumption == 0 \notin Handles
ASSUME FunctionsAssumption == NULL \notin Functions
ASSUME RegimeAssumption == MaxFailures \in Nat /\ Careful \in BOOLEAN

Globals == {"hPE", "hSource", "hStreamV", "hStreamA", "hFilter", "hBuffer"}
Streams == {"hStreamV", "hStreamA"}
Kinds == {"engine", "source", "stream", "filter", "buffer"}

\* What a caller opens and closes: the player, the source, the streams and the
\* filter, named by their global, and its callback.
Openable == (Globals \ {"hBuffer"}) \cup {"callback"}

KindOf(g) ==
  IF g \in Streams THEN "stream"
  ELSE [hPE |-> "engine", hSource |-> "source", hFilter |-> "filter", hBuffer |-> "buffer"][g]

VARIABLES
  hdl,      \* the globals hPE, hSource, hStreamV, hStreamA, hFilter, hBuffer
  callback, \* DemuxSectionFilterCallback
  objects,  \* the engine's objects
  hooked,   \* engines m_sectionReceivedCallback is registered with
  held,     \* the handles the caller was given, 0 for what it closed
  opened,   \* what the caller has opened and not closed
  pc,       \* the caller's place in a call of more than one step
  section,  \* the section thread's place in m_sectionReceivedCallback
  result,   \* of the last call
  misuse,   \* MV_PE calls on objects that do not exist: <<who, global>>
  failures  \* MV_PE calls of the caller that failed, up to MaxFailures + 1

vars == <<hdl, callback, objects, hooked, held, opened, pc, section, result, misuse, failures>>
caller == <<held, opened>>

Object(k, h, e) == [kind |-> k, id |-> h, engine |-> e]
Exists(k, h) == Object(k, h, hdl["hPE"]) \in objects
Unused(k) == {h \in Handles : \A o \in objects : o.kind = k => o.id # h}

Init ==
  /\ hdl = [g \in Globals |-> 0]
  /\ callback = NULL
  /\ objects = {} /\ hooked = {}
  /\ held = [g \in Globals |-> 0] /\ opened = {}
  /\ pc = "idle" /\ section = "none"
  /\ result = 0 /\ misuse = {} /\ failures = 0

-----------------------------------------------------------------------------
(* The caller passes any handle.  In order means: one object of a kind at  *)
(* a time, and what belongs to an object is closed before it.              *)

Argument == Handles \cup {0}
MayOpen(g) == Careful => g \notin opened
MayClose(g, parts) == Careful => g \in opened /\ opened \cap parts = {}
Given(g, h) == held' = [held EXCEPT ![g] = h] /\ opened' = opened \cup {g}
Closed(gs) ==
  /\ opened' = opened \ gs
  /\ held' = [g \in Globals |-> IF g \in gs THEN 0 ELSE held[g]]

-----------------------------------------------------------------------------
(* How engine calls fail and calls end.                                                          *)

MayFail == failures < MaxFailures
Failed == failures' = IF failures > MaxFailures THEN failures ELSE failures + 1
Return(r) == pc' = "idle" /\ result' = r
Refuse == Return(1) /\ UNCHANGED <<hdl, callback, objects, hooked, caller, misuse, failures>>

\* The engine fails on a call, or refuses it, and changes nothing else.
EngineError(g) ==
  \/ Exists(KindOf(g), hdl[g]) /\ MayFail /\ Failed /\ UNCHANGED misuse
  \/ /\ ~Exists(KindOf(g), hdl[g])
     /\ misuse' = misuse \cup {<<"caller", g>>} /\ UNCHANGED failures
EngineOk == UNCHANGED <<failures, misuse>>
\* No object could be made.
NoObject(g) ==
  /\ MayFail \/ Unused(KindOf(g)) = {}
  /\ Failed /\ UNCHANGED misuse
NewObject(g, h) ==
  /\ h \in Unused(KindOf(g))
  /\ objects' = objects \cup {Object(KindOf(g), h, IF g = "hPE" THEN h ELSE hdl["hPE"])}
  /\ hdl' = [hdl EXCEPT ![g] = h]
  /\ EngineOk
Destroyed(g) == Object(KindOf(g), hdl[g], hdl["hPE"])

HasPlayer(p) == p = hdl["hPE"] /\ hdl["hPE"] # 0
HasSource(p, s) == HasPlayer(p) /\ s = hdl["hSource"] /\ hdl["hSource"] # 0

-----------------------------------------------------------------------------
(* The calls of the player.                                                *)

Player_Init ==
  /\ pc = "idle" /\ MayOpen("hPE")
  /\ \/ NoObject("hPE") /\ Return(1) /\ UNCHANGED <<hdl, objects, caller>>
     \/ \E h \in Unused("engine") :
          /\ objects' = objects \cup {Object("engine", h, h)}
          /\ hdl' = [hdl EXCEPT !["hPE"] = h]
          /\ UNCHANGED misuse
          /\ \/ UNCHANGED failures /\ Return(0) /\ Given("hPE", h)
             \/ \* MV_PE_ClearScreen fails
                MayFail /\ Failed /\ Return(1) /\ UNCHANGED caller
  /\ UNCHANGED <<callback, hooked, section>>

\* Player_Deinit goes on whatever fails; hSource is already 0 when the section
\* filter is removed, so the engine refuses that call.
Player_Deinit(p) ==
  /\ pc = "idle" /\ MayClose("hPE", {"hFilter", "callback"})
  /\ \/ ~HasPlayer(p) /\ Refuse
     \/ /\ HasPlayer(p)
        /\ LET tracked == {g \in Globals : hdl[g] # 0}
               closable == {g \in tracked \ {"hFilter"} : Exists(KindOf(g), hdl[g])}
           IN \E kept \in SUBSET closable :
                /\ MayFail \/ kept = {}
                /\ objects' = objects \ {Destroyed(g) : g \in closable \ kept}
                /\ misuse' = misuse \cup {<<"caller", g>> : g \in tracked \ closable}
                /\ IF kept # {} THEN Failed ELSE UNCHANGED failures
        /\ hdl' = [g \in Globals |-> 0]
        /\ Return(0) /\ Closed({"hPE", "hSource"} \cup Streams)
        /\ UNCHANGED <<callback, hooked>>
  /\ UNCHANGED section

Player_Source_Open(p) ==
  /\ pc = "idle" /\ MayOpen("hSource") /\ (Careful => "hPE" \in opened)
  /\ \/ ~HasPlayer(p) /\ Refuse
     \/ /\ HasPlayer(p)
        /\ \/ NoObject("hSource") /\ Return(1) /\ UNCHANGED <<hdl, objects, caller>>
           \/ \E h \in Unused("source") :
                /\ objects' = objects \cup {Object("source", h, hdl["hPE"])}
                /\ hdl' = [hdl EXCEPT !["hSource"] = h]
                /\ UNCHANGED misuse
                /\ \/ UNCHANGED failures /\ Return(0) /\ Given("hSource", h)
                   \/ \* MV_PE_Play fails
                      MayFail /\ Failed /\ Return(1) /\ UNCHANGED caller
        /\ UNCHANGED <<callback, hooked>>
  /\ UNCHANGED section

\* Mutant of StopOrCloseFails: the global is cleared although the call failed.
StopOrCloseFailsClearing ==
  /\ EngineError("hSource") /\ Return(1)
  /\ hdl' = [hdl EXCEPT !["hSource"] = 0]
  /\ UNCHANGED <<objects, caller>>

\* MV_PE_Stop or MV_PE_SourceClose fails.
StopOrCloseFails == EngineError("hSource") /\ Return(1) /\ UNCHANGED <<hdl, objects, caller>>

Player_Source_Close(p, s) ==
  /\ pc = "idle" /\ MayClose("hSource", Streams \cup {"hFilter"})
  /\ \/ ~HasSource(p, s) /\ Refuse
     \/ /\ HasSource(p, s)
        /\ \/ StopOrCloseFails
           \/ /\ Exists("source", hdl["hSource"]) /\ EngineOk
              /\ objects' = objects \ {Destroyed("hSource")}
              /\ hdl' = [hdl EXCEPT !["hSource"] = 0]
              /\ Return(0) /\ Closed({"hSource"})
        /\ UNCHANGED <<callback, hooked>>
  /\ UNCHANGED section

\* streamType >= 39 is a video type and picks hStreamV.
Player_Stream_Create(p, s, g) ==
  /\ pc = "idle" /\ MayOpen(g) /\ (Careful => "hSource" \in opened)
  /\ \/ ~HasSource(p, s) /\ Refuse
     \/ /\ HasSource(p, s)
        /\ \/ NoObject(g) /\ Return(1) /\ UNCHANGED <<hdl, objects, caller>>
           \/ \E h \in Unused("stream") :
                /\ objects' = objects \cup {Object("stream", h, hdl["hPE"])}
                /\ hdl' = [hdl EXCEPT ![g] = h]
                /\ UNCHANGED misuse
                /\ \/ UNCHANGED failures /\ Return(0) /\ Given(g, h)
                   \/ \* MV_PE_VideoSetVisible fails; *streamHandle is already set
                      /\ g = "hStreamV" /\ MayFail /\ Failed
                      /\ held' = [held EXCEPT ![g] = h]
                      /\ Return(1) /\ UNCHANGED opened
        /\ UNCHANGED <<callback, hooked>>
  /\ UNCHANGED section

\* hStreamA is compared first.
StreamOf(t) == IF t = hdl["hStreamA"] THEN "hStreamA" ELSE "hStreamV"

Player_Stream_Remove(p, s, t) ==
  /\ pc = "idle" /\ MayClose(StreamOf(t), {})
  /\ LET known == HasSource(p, s) /\ t # 0 /\ t \in {hdl["hStreamA"], hdl["hStreamV"]} IN
     \/ ~known /\ Refuse
     \/ /\ known
        /\ \/ EngineError(StreamOf(t)) /\ Return(1) /\ UNCHANGED <<hdl, objects, caller>>
           \/ /\ Exists("stream", t) /\ EngineOk
              /\ objects' = objects \ {Destroyed(StreamOf(t))}
              /\ hdl' = [hdl EXCEPT ![StreamOf(t)] = 0]
              /\ Return(0) /\ Closed({StreamOf(t)})
        /\ UNCHANGED <<callback, hooked>>
  /\ UNCHANGED section

\* The engine keeps the volume.
Volume(p) ==
  /\ HasPlayer(p)
  /\ \/ Exists("engine", p) /\ EngineOk /\ Return(0)
     \/ EngineError("hPE") /\ Return(1)
  /\ UNCHANGED <<hdl, callback, objects, hooked, caller>>

Player_Volume_Set(p) ==
  /\ pc = "idle"
  /\ (~HasPlayer(p) /\ Refuse) \/ Volume(p)
  /\ UNCHANGED section

\* The caller may have no room for the answer.
Player_Volume_Get(p, room) ==
  /\ pc = "idle"
  /\ (~(HasPlayer(p) /\ room) /\ Refuse) \/ (room /\ Volume(p))
  /\ UNCHANGED section

-----------------------------------------------------------------------------
(* The calls of the demux.                                                 *)

Demux_Register_Section_Filter_Callback(f) ==
  /\ pc = "idle" /\ (Careful => "hPE" \in opened)
  /\ \/ callback # NULL /\ Refuse
     \/ /\ callback = NULL
        /\ \/ EngineError("hPE") /\ Return(1) /\ UNCHANGED <<callback, hooked, caller>>
           \/ /\ Exists("engine", hdl["hPE"]) /\ EngineOk
              /\ hooked' = hooked \cup {hdl["hPE"]}
              /\ callback' = f
              /\ Return(0) /\ opened' = opened \cup {"callback"} /\ UNCHANGED held
        /\ UNCHANGED <<hdl, objects>>
  /\ UNCHANGED section

Demux_Unregister_Section_Filter_Callback(f) ==
  /\ pc = "idle" /\ MayClose("callback", {})
  /\ \/ (callback = NULL \/ f # callback) /\ Refuse
     \/ /\ callback = f
        /\ \/ EngineError("hPE") /\ Return(1) /\ UNCHANGED <<callback, hooked, caller>>
           \/ /\ Exists("engine", hdl["hPE"]) /\ EngineOk
              /\ hooked' = hooked \ {hdl["hPE"]}
              /\ callback' = NULL
              /\ Return(0) /\ Closed({"callback"})
        /\ UNCHANGED <<hdl, objects>>
  /\ UNCHANGED section

\* The buffer is allocated over hBuffer, ...
Demux_Set_Filter(p) ==
  /\ pc = "idle" /\ MayOpen("hFilter") /\ (Careful => "hSource" \in opened)
  /\ \/ ~HasPlayer(p) /\ Refuse
     \/ /\ HasPlayer(p)
        /\ \/ NoObject("hBuffer") /\ Return(1) /\ UNCHANGED <<hdl, objects>>
           \/ \E h \in Handles : NewObject("hBuffer", h) /\ pc' = "add" /\ UNCHANGED result
        /\ UNCHANGED <<callback, hooked, caller>>
  /\ UNCHANGED section

\* ... and when the filter cannot be added it is released, but hBuffer stays.
AddSectionFilter ==
  /\ pc = "add"
  /\ \/ /\ NoObject("hFilter") \/ EngineError("hSource")
        /\ objects' = objects \ {Destroyed("hBuffer")}
        /\ Return(1) /\ UNCHANGED <<hdl, caller>>
     \/ \E h \in Handles :
          /\ Exists("source", hdl["hSource"])
          /\ NewObject("hFilter", h) /\ Return(0) /\ Given("hFilter", h)
  /\ UNCHANGED <<callback, hooked, section>>

\* Failures of Demux_Free_Filter are printed and forgotten.
Demux_Free_Filter(p, f) ==
  /\ pc = "idle" /\ MayClose("hFilter", {})
  /\ \/ ~(HasPlayer(p) /\ f = hdl["hFilter"] /\ hdl["hFilter"] # 0) /\ Refuse
     \/ /\ HasPlayer(p) /\ f = hdl["hFilter"] /\ hdl["hFilter"] # 0
        /\ \/ EngineError("hFilter") /\ UNCHANGED objects
           \/ /\ Exists("filter", f) /\ EngineOk
              /\ objects' = objects \ {Destroyed("hFilter")}
        /\ pc' = "release"
        /\ UNCHANGED <<hdl, callback, hooked, caller, result>>
  /\ UNCHANGED section

\* Mutant of BufRelease: the section buffer is not released.
BufReleaseForgotten ==
  /\ pc = "release"
  /\ pc' = "clear"
  /\ UNCHANGED <<hdl, callback, objects, hooked, caller, section, result, misuse, failures>>

BufRelease ==
  /\ pc = "release"
  /\ \/ EngineError("hBuffer") /\ UNCHANGED objects
     \/ /\ Exists("buffer", hdl["hBuffer"]) /\ EngineOk
        /\ objects' = objects \ {Destroyed("hBuffer")}
  /\ pc' = "clear"
  /\ UNCHANGED <<hdl, callback, hooked, caller, section, result>>

ClearFilter ==
  /\ pc = "clear"
  /\ hdl' = [hdl EXCEPT !["hBuffer"] = 0, !["hFilter"] = 0]
  /\ Return(0) /\ Closed({"hFilter"})
  /\ UNCHANGED <<callback, objects, hooked, section, misuse, failures>>

-----------------------------------------------------------------------------
(* m_sectionReceivedCallback in the engine's thread: section_mutex lets    *)
(* one section through at a time, and no other function takes it.          *)

OnlySection == UNCHANGED <<hdl, callback, objects, hooked, caller, pc, result, failures>>

SectionArrives ==
  /\ section = "none"
  /\ \E o \in objects : o.kind = "filter" /\ o.engine \in hooked
  /\ section' = "fullness"
  /\ OnlySection /\ UNCHANGED misuse

\* MV_PE_StreamBufGetFullness and MV_PE_StreamBufRead on hBuffer, as it is now.
UseBuffer(from, to) ==
  /\ section = from
  /\ IF Exists("buffer", hdl["hBuffer"])
       THEN section' \in {to, "none"} /\ UNCHANGED misuse
       ELSE section' = "none" /\ misuse' = misuse \cup {<<"section", "hBuffer">>}
  /\ OnlySection

\* DemuxSectionFilterCallback is tested ...
TestCallback ==
  /\ section = "test"
  /\ section' = IF callback # NULL THEN "call" ELSE "none"
  /\ OnlySection /\ UNCHANGED misuse

\* ... and read again to be called.
CallCallback ==
  /\ section = "call"
  /\ section' = "none"
  /\ misuse' = IF callback = NULL THEN misuse \cup {<<"section", "callback">>} ELSE misuse
  /\ OnlySection

m_sectionReceivedCallback ==
  \/ SectionArrives
  \/ UseBuffer("fullness", "read")
  \/ UseBuffer("read", "test")
  \/ TestCallback
  \/ CallCallback

-----------------------------------------------------------------------------
Call ==
  \/ Player_Init
  \/ \E p \in Argument : Player_Deinit(p) \/ Player_Source_Open(p) \/ Demux_Set_Filter(p)
  \/ \E p \in Argument : Player_Volume_Set(p) \/ \E room \in BOOLEAN : Player_Volume_Get(p, room)
  \/ \E p, h \in Argument : Player_Source_Close(p, h) \/ Demux_Free_Filter(p, h)
  \/ \E p, s \in Argument :
       \/ \E g \in Streams : Player_Stream_Create(p, s, g)
       \/ \E t \in Argument : Player_Stream_Remove(p, s, t)
  \/ \E f \in Functions :
       \/ Demux_Register_Section_Filter_Callback(f)
       \/ Demux_Unregister_Section_Filter_Callback(f)

Next == Call \/ AddSectionFilter \/ BufRelease \/ ClearFilter \/ m_sectionReceivedCallback

Spec == Init /\ [][Next]_vars

-----------------------------------------------------------------------------
\* The state is well formed.
TypeOK ==
  /\ hdl \in [Globals -> Handles \cup {0}]
  /\ callback \in Functions \cup {NULL}
  /\ objects \subseteq [kind : Kinds, id : Handles, engine : Handles]
  /\ hooked \subseteq Handles
  /\ held \in [Globals -> Handles \cup {0}]
  /\ opened \subseteq Openable
  /\ pc \in {"idle", "add", "release", "clear"}
  /\ section \in {"none", "fullness", "read", "test", "call"}
  /\ result \in {0, 1}
  /\ misuse \subseteq {"caller", "section"} \X (Globals \cup {"callback"})
  /\ failures \in 0..(MaxFailures + 1)

\* What a careful caller has opened exists, is what its handle says and belongs
\* to the current engine, and its filter has its section buffer: no failing
\* call, of whichever object, takes away or renames an object the caller relies
\* on.
OpenedExists ==
  pc \in {"idle", "add"} =>
    \A g \in opened \ {"callback"} :
      /\ hdl[g] = held[g]
      /\ Exists(KindOf(g), hdl[g])
      /\ g = "hFilter" => Exists("buffer", hdl["hBuffer"])

\* A careful caller never makes the API use an object that does not exist; once
\* a call has failed only the section buffer can be used after its release, by
\* Player_Deinit or the next filter.
CallsOnLiveObjects ==
  \A g \in Globals : <<"caller", g>> \in misuse => failures > 0 /\ g = "hBuffer"

\* Without failures nothing leaks: between two calls of a careful caller the
\* engine has exactly the objects the six globals know, which are those the
\* caller has opened.
NothingLeaks ==
  failures = 0 /\ pc = "idle" =>
    /\ objects = {Destroyed(g) : g \in {g2 \in Globals : hdl[g2] # 0}}
    /\ {g \in Globals : hdl[g] # 0} \ {"hBuffer"} = opened \ {"callback"}
    /\ hdl["hBuffer"] # 0 <=> "hFilter" \in opened
    /\ hooked = {hdl["hPE"] : c \in opened \cap {"callback"}}

\* The error paths of the calls say "Deinit and exit": a call that fails leaves
\* no object behind that was not there before it.
FailedCallUndone == [][result' = 1 /\ pc' = "idle" => objects' \subseteq objects]_vars

\* The section thread only uses the section buffer and the callback while they
\* are there.
SectionUsesLiveObjects == \A g \in Globals \cup {"callback"} : <<"section", g>> \notin misuse
=============================================================================
