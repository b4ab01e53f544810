--------------------------------- MODULE Vnc ---------------------------------
(***************************************************************************)
(* The VNC connector (src/src/connector_vnc.cpp).                          *)
(*                                                                         *)
(* A screen that libvncserver serves, a surface as its frame buffer, and a *)
(* card of the script that is drawn on it.  Viewers act while the          *)
(* connector lets the library process events: they move and click, and ask *)
(* for another size.  Scripts act between calls and within their handlers, *)
(* where they may also close the server by giving it another port.         *)
(*                                                                         *)
(* Width and height are one size, cards are not told apart, and a pointer  *)
(* is only its buttons: whether it has moved as well is left open.         *)
(***************************************************************************)
EXTENDS Integers, Sequences

CONSTANTS
  Sizes,        \* sizes of the screen, none of which is 0
  MouseButtons,  \* buttons of a pointer
  MaxQueue,     \* bound: pointer events that wait (8 fit into the vector before it moves)
  Nothing       \* no surface; no knowledge

VncAssumption ==
  Sizes \subseteq Nat \ {0} /\ Sizes # {} /\ Nothing \notin Nat \cup BOOLEAN /\ MaxQueue \in Nat

VARIABLES
  pc,       \* where in tick_inputs or tick_outputs the connector is
  screen,   \* m_screen_info: is there a server?
  frame,    \* its frame buffer: "none" yet, "live", or "dangling", memory that is not all there
  surface,  \* m_screen_surface: its size, 0 after initial_setup, or Nothing
  want,     \* m_screen_width and m_screen_height
  queue,    \* m_pointer_events: for each the buttons that are pressed
  at, end,  \* the iteration over them
  pointer,  \* m_pointer_state: the buttons
  card,     \* m_card: is there one?
  dirty,    \* m_dirty_flags[DirtyCard]
  shown,    \* does the surface show the card as of the last redraw?
  told,     \* the size the script was told last
  own,      \* has it asked for another one itself since?
  clicks    \* what it was told of each button last: is it pressed?

vars == <<pc, screen, frame, surface, want, queue, at, end, pointer, card, dirty, shown, told, own, clicks>>

serverVars  == <<screen, frame, surface>>
queueVars   == <<queue, at, end>>
pictureVars == <<card, dirty, shown>>
scriptVars  == <<told, own, clicks>>

TypeOK ==
  /\ pc \in {"idle", "pumping", "resizing", "pointing", "moved", "clicked", "ticked", "opened", "crashed"}
  /\ screen \in BOOLEAN /\ frame \in {"none", "live", "dangling"}
  /\ surface \in Sizes \cup {0, Nothing} /\ want \in Sizes
  /\ queue \in Seq(SUBSET MouseButtons) /\ at \in Nat /\ end \in Nat /\ pointer \in SUBSET MouseButtons
  /\ card \in BOOLEAN /\ dirty \in BOOLEAN /\ shown \in BOOLEAN
  /\ told \in Sizes \cup {Nothing} /\ own \in BOOLEAN
  /\ clicks \in [MouseButtons -> BOOLEAN \cup {Nothing}]

\* The constructor leaves m_pointer_state as it finds it.
Init ==
  /\ pc = "idle" /\ screen = FALSE /\ frame = "none" /\ surface = Nothing
  /\ want = CHOOSE s \in Sizes : \A o \in Sizes : s <= o
  /\ queue = <<>> /\ at = 0 /\ end = 0 /\ pointer \in SUBSET MouseButtons
  /\ card = FALSE /\ dirty = FALSE /\ shown = TRUE
  /\ told = Nothing /\ own = FALSE /\ clicks = [b \in MouseButtons |-> Nothing]

-----------------------------------------------------------------------------
\* What viewers do while the library processes events: set_desktop_size_hook and
\* ptr_event_hook.  A screen without a frame buffer does not listen yet.
Viewer ==
  \/ \E s \in Sizes : want' = s /\ UNCHANGED queue
  \/ \E mask \in SUBSET MouseButtons : Len(queue) < MaxQueue /\ queue' = Append(queue, mask) /\ UNCHANGED want
ViewerInClose == (frame # "none" /\ Viewer) \/ UNCHANGED <<want, queue>>

\* close_vnc: viewers are sent away, which may bring a last event of theirs.
CloseVnc ==
  /\ screen' = FALSE /\ frame' = "none" /\ surface' = Nothing
  /\ IF screen THEN ViewerInClose ELSE UNCHANGED <<want, queue>>

\* Scripts run between the calls of the connector and in its handlers.
ScriptRuns == pc \in {"idle", "resizing", "moved", "clicked", "ticked", "opened"}

SetPort ==
  /\ ScriptRuns /\ CloseVnc
  /\ UNCHANGED <<pc, at, end, pointer, pictureVars, scriptVars>>

SetSize(s) ==
  /\ ScriptRuns /\ s # want
  /\ want' = s /\ own' = TRUE
  /\ UNCHANGED <<pc, serverVars, queueVars, pointer, pictureVars, told, clicks>>

\* Another card or none, or redraw().
SetCard(c) ==
  /\ ScriptRuns
  /\ card' = c /\ dirty' = TRUE /\ shown' = FALSE
  /\ UNCHANGED <<pc, serverVars, want, queueVars, pointer, scriptVars>>
Redraw ==
  /\ ScriptRuns
  /\ dirty' = TRUE /\ shown' = FALSE
  /\ UNCHANGED <<pc, serverVars, want, queueVars, pointer, card, scriptVars>>

\* initial_setup, also after a reload, when there may be a surface.
InitialSetup ==
  /\ pc = "idle"
  /\ surface' = IF surface = Nothing THEN Nothing ELSE 0
  /\ UNCHANGED <<pc, screen, frame, want, queueVars, pointer, pictureVars, scriptVars>>

-----------------------------------------------------------------------------
\* tick_inputs
NoScreen ==
  /\ pc = "idle" /\ ~screen /\ pc' = "ticked"
  /\ UNCHANGED <<serverVars, want, queueVars, pointer, pictureVars, scriptVars>>
StartPump ==
  /\ pc = "idle" /\ screen /\ pc' = "pumping"
  /\ UNCHANGED <<serverVars, want, queueVars, pointer, pictureVars, scriptVars>>

Pump ==
  /\ pc = "pumping" /\ frame # "none" /\ Viewer
  /\ UNCHANGED <<pc, serverVars, at, end, pointer, pictureVars, scriptVars>>
\* The library sends a frame buffer that is not there any more.
PumpDangling ==
  /\ pc = "pumping" /\ frame = "dangling" /\ pc' = "crashed"
  /\ UNCHANGED <<serverVars, want, queueVars, pointer, pictureVars, scriptVars>>

MustResize == surface # Nothing /\ surface # want
EmitResize ==
  /\ pc = "pumping" /\ MustResize /\ pc' = "resizing"
  /\ told' = want /\ own' = FALSE
  /\ UNCHANGED <<serverVars, want, queueVars, pointer, pictureVars, clicks>>

\* The loop over the pointer events, whose end is taken before it starts.
StartPointing ==
  /\ pc = "resizing" \/ (pc = "pumping" /\ ~MustResize)
  /\ pc' = "pointing" /\ at' = 1 /\ end' = Len(queue) + 1
  /\ UNCHANGED <<serverVars, want, queue, pointer, pictureVars, scriptVars>>

\* Coordinates are scaled from the surface to the card, by dividing by its size.
CanScale == ~(card /\ surface = 0)
ScaleFails ==
  /\ pc = "pointing" /\ at < end /\ ~CanScale /\ pc' = "crashed"
  /\ UNCHANGED <<serverVars, want, queueVars, pointer, pictureVars, scriptVars>>
Motion ==
  /\ pc = "pointing" /\ at < end /\ CanScale /\ pc' = "moved"
  /\ UNCHANGED <<serverVars, want, queueVars, pointer, pictureVars, scriptVars>>

\* The script is told of every button that has changed; its handlers run in
\* between, but the state is taken over only when all are told.
Clicks ==
  /\ (pc = "pointing" /\ CanScale) \/ pc = "moved"
  /\ at < end
  /\ clicks' = [b \in MouseButtons |-> IF (b \in pointer) # (b \in queue[at]) THEN b \in queue[at] ELSE clicks[b]]
  /\ pointer' = queue[at]
  /\ at' = at + 1
  /\ pc' = IF pointer = queue[at] THEN "pointing" ELSE "clicked"
  /\ UNCHANGED <<serverVars, want, queue, end, pictureVars, told, own>>
Clicked ==
  /\ pc = "clicked" /\ pc' = "pointing"
  /\ UNCHANGED <<serverVars, want, queueVars, pointer, pictureVars, scriptVars>>

EndPointing ==
  /\ pc = "pointing" /\ at = end /\ pc' = "ticked"
  /\ queue' = <<>> /\ at' = 0 /\ end' = 0
  /\ UNCHANGED <<serverVars, want, pointer, pictureVars, scriptVars>>

TickInputs == NoScreen \/ StartPump \/ Pump \/ PumpDangling \/ EmitResize \/ StartPointing
              \/ ScaleFails \/ Motion \/ Clicks \/ Clicked \/ EndPointing

-----------------------------------------------------------------------------
\* tick_outputs
ScreenFails ==
  /\ pc = "ticked" /\ ~screen /\ pc' = "idle"
  /\ UNCHANGED <<serverVars, want, queueVars, pointer, pictureVars, scriptVars>>

\* A screen that is made marks everything as dirty.
DirtyNow == dirty \/ ~screen
NeedsSurface == surface = Nothing \/ surface # want

SurfaceFails ==
  /\ pc = "ticked" /\ NeedsSurface /\ pc' = "idle"
  /\ screen' = TRUE /\ surface' = Nothing /\ dirty' = DirtyNow
  /\ frame' = IF frame = "live" THEN "dangling" ELSE frame
  /\ UNCHANGED <<want, queueVars, pointer, card, shown, scriptVars>>

\* The first surface is told to the script before the card is drawn on it.
FirstSurface ==
  /\ pc = "ticked" /\ surface = Nothing /\ pc' = "opened"
  /\ screen' = TRUE /\ surface' = want /\ dirty' = DirtyNow /\ shown' = FALSE
  /\ told' = want /\ own' = FALSE
  /\ UNCHANGED <<frame, want, queueVars, pointer, card, clicks>>
NewSurface ==
  /\ pc = "ticked" /\ surface \notin {Nothing, want} /\ pc' = "idle"
  /\ screen' = TRUE /\ surface' = want /\ frame' = "live"
  /\ dirty' = FALSE /\ shown' = card
  /\ UNCHANGED <<want, queueVars, pointer, card, scriptVars>>

\* The handler has closed the server: its surface is used all the same.
OpenedClosed ==
  /\ pc = "opened" /\ surface = Nothing /\ pc' = "crashed"
  /\ UNCHANGED <<serverVars, want, queueVars, pointer, pictureVars, scriptVars>>

\* Mutant of Opened: the card is drawn before the script is told, and the mark is cleared after.
OpenedUndrawn ==
  /\ pc = "opened" /\ surface # Nothing /\ pc' = "idle"
  /\ frame' = IF want <= surface THEN "live" ELSE "dangling"
  /\ dirty' = FALSE
  /\ UNCHANGED <<screen, surface, want, queueVars, pointer, card, shown, scriptVars>>

\* The frame buffer has the size that is wanted now, not the one of the surface.
Opened ==
  /\ pc = "opened" /\ surface # Nothing /\ pc' = "idle"
  /\ frame' = IF want <= surface THEN "live" ELSE "dangling"
  /\ dirty' = FALSE /\ shown' = card
  /\ UNCHANGED <<screen, surface, want, queueVars, pointer, card, scriptVars>>

Draw ==
  /\ pc = "ticked" /\ ~NeedsSurface /\ pc' = "idle"
  /\ screen' = TRUE
  /\ IF DirtyNow /\ card THEN dirty' = FALSE /\ shown' = TRUE ELSE dirty' = DirtyNow /\ UNCHANGED shown
  /\ UNCHANGED <<frame, surface, want, queueVars, pointer, card, scriptVars>>

TickOutputs == ScreenFails \/ SurfaceFails \/ FirstSurface \/ NewSurface \/ OpenedClosed \/ Opened \/ Draw

\* shutdown
Shutdown ==
  /\ pc = "idle" /\ CloseVnc
  /\ UNCHANGED <<pc, at, end, pointer, pictureVars, scriptVars>>

Script == SetPort \/ (\E s \in Sizes : SetSize(s)) \/ (\E c \in BOOLEAN : SetCard(c)) \/ Redraw
Next == Script \/ InitialSetup \/ TickInputs \/ TickOutputs \/ Shutdown
Spec == Init /\ [][Next]_vars

-----------------------------------------------------------------------------
\* Between turns the surface has the size that the script was told, whoever asked
\* for it and whatever was closed or failed, unless the script has asked for
\* another one since.
SizeTold == pc = "idle" /\ surface \in Sizes /\ ~own => surface = want /\ told = want

\* No redraw of the card is forgotten, also one that is asked for while the
\* surface is being replaced or the server opened.
PictureShown == pc # "opened" /\ surface # Nothing /\ card /\ ~dirty => shown

\* The last that the script was told of a button is what the next event is compared
\* with, also after the viewer has gone with the button pressed.
ButtonsTold == \A b \in MouseButtons : clicks[b] # Nothing => clicks[b] = (b \in pointer)

VncHolds == SizeTold /\ PictureShown /\ ButtonsTold
=============================================================================
