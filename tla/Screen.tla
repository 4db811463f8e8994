-------------------------------- MODULE Screen --------------------------------
(***************************************************************************)
(* What the graphics controller promises its callers, without threads,     *)
(* locks or timers: the elements asked for are put on the screen one       *)
(* complete frame at a time.  Only the radio picture, which lies behind    *)
(* everything else, may be in a frame although it was asked for, or taken  *)
(* back, before the rest of the frame was looked at.                       *)
(* GraphicsController is shown to implement this specification.            *)
(***************************************************************************)
EXTENDS Naturals

Indicators == {"prog_num", "volume", "info_banner"}
Elements == Indicators \cup {"black", "radio", "prog_list"}

VARIABLES
  asked,       \* the elements that should be on the screen
  radio_seen,  \* whether the next frame will have the radio picture
  frame,       \* the last complete frame
  displayed    \* the frame on the screen

Init ==
  /\ asked = {} /\ radio_seen = FALSE
  /\ frame = {} /\ displayed = {}

Ask(new) == asked' = new /\ UNCHANGED <<radio_seen, frame, displayed>>

\* A caller asks for elements, or a program change takes them all back.
ShowVolume == Ask(asked \cup {"volume"})
ShowBanner == Ask(asked \cup {"info_banner", "prog_num"})
ShowProgram == \/ Ask((asked \ {"black", "radio"}) \cup {"prog_num"})
               \/ Ask((asked \ {"black"}) \cup {"prog_num", "radio"})
Blacken == Ask((asked \cap {"radio"}) \cup {"black"})
ShowList == Ask(asked \cup {"prog_list"})
RemoveList == Ask(asked \ {"prog_list"})

\* An indicator has been shown for long enough.
Expire(o) == Ask(asked \ {o})

LookForRadio ==
  /\ radio_seen' = ("radio" \in asked)
  /\ UNCHANGED <<asked, frame, displayed>>

Compose ==
  /\ frame' = (asked \ {"radio"}) \cup (IF radio_seen THEN {"radio"} ELSE {})
  /\ UNCHANGED <<asked, radio_seen, displayed>>

Flip ==
  /\ displayed' = frame
  /\ UNCHANGED <<asked, radio_seen, frame>>

Next ==
  \/ ShowVolume \/ ShowBanner \/ ShowProgram \/ Blacken \/ ShowList \/ RemoveList
  \/ \E o \in Indicators : Expire(o)
  \/ LookForRadio \/ Compose \/ Flip

Spec == Init /\ [][Next]_<<asked, radio_seen, frame, displayed>>

===============================================================================
