------------------------------- MODULE Window -------------------------------
(***************************************************************************)
(* ConnectorWindow (src/src/connector_window.cpp): a window whose events   *)
(* arrive in an event watch, "out of context", and are handled in          *)
(* tick_inputs.                                                            *)
(*                                                                         *)
(* SDL calls the watches one event at a time and lets none be added or     *)
(* removed meanwhile; whichever thread it does that on may run beside the  *)
(* main thread.  The two meet in m_mutex, which tick_inputs holds from its *)
(* first line to its last, handlers included.  Events are a change of      *)
(* size, a request to close, a gain of focus, and numbered inputs, which   *)
(* stand for the pointer and the keys.  Pictures are left out, but for     *)
(* whether one is due.                                                     *)
(***************************************************************************)
EXTENDS Integers, Sequences

CONSTANTS
  Sizes,      \* sizes a window may have
  None,       \* no size is wanted; no event
  MaxEvents   \* bound on what the user, and the script about sizes, may do

\* An event is its kind and, for an input, which one it is.
Inputs == {"input"} \X (1..MaxEvents)
Events == Inputs \cup ({"size", "close", "focus"} \X {0})

SizesAssumption == None \notin Sizes \cup Events /\ Sizes # {} /\ MaxEvents \in Nat

VARIABLES
  pc,          \* what comes next on the main thread: "inputs", "create", "watch",
               \* "handle", "resize", "outputs"; "ended"
  window,      \* m_window
  locked,      \* the main thread holds m_mutex
  pending,     \* m_pending_events
  at, end,     \* where tick_inputs is in them, and the end it goes to
  sizeChanged, \* m_event_size_changed
  dirty,       \* m_event_surface_dirty
  wantedSize,  \* m_wanted_width and m_wanted_height
  hide,        \* m_wanted_visible says false
  exitOnClose, \* m_exit_on_close
  requests,    \* what DeckModule was asked for, of "reload" and "exit"
  watched,     \* SDL has the event watch
  size,        \* the size of the window
  raised,      \* events SDL has not called the watch with
  calling,     \* the event it is calling the watch with
  count,       \* how many events there were, and which input is next
  told,        \* history: the size the last on_resize told
  taken,       \* history: the events the watch was called with
  seen,        \* history: the events that were handled
  collected    \* history: the connector was collected without a shutdown

tickVars    == <<window, locked, pending, at, end>>
wantVars    == <<sizeChanged, dirty, wantedSize, hide, exitOnClose, requests>>
sdlVars     == <<watched, size, raised, calling, count>>
historyVars == <<told, taken, seen, collected>>
vars == <<pc, tickVars, wantVars, sdlVars, historyVars>>

TypeOK ==
  /\ pc \in {"inputs", "create", "watch", "handle", "resize", "outputs", "ended"}
  /\ {window, locked, sizeChanged, dirty, hide, exitOnClose, watched, collected} \subseteq BOOLEAN
  /\ pending \in Seq(Events) /\ raised \in Seq(Events)
  /\ at \in Nat /\ end \in Nat
  /\ wantedSize \in Sizes \cup {None} /\ size \in Sizes /\ told \in Sizes \cup {None}
  /\ requests \subseteq {"reload", "exit"}
  /\ calling \in Events \cup {None} /\ count \in 0..MaxEvents
  /\ taken \in Seq(Events) /\ seen \in Seq(Events)

\* The size the constructor wants
InitialSize == CHOOSE s \in Sizes : TRUE

Init ==
  /\ pc = "inputs" /\ window = FALSE /\ locked = FALSE
  /\ pending = <<>> /\ at = 1 /\ end = 0
  /\ sizeChanged = FALSE /\ dirty = FALSE /\ hide = FALSE
  /\ size = InitialSize /\ wantedSize = InitialSize
  /\ exitOnClose = TRUE /\ requests = {}
  /\ watched = FALSE /\ raised = <<>> /\ calling = None /\ count = 0
  /\ told = None /\ taken = <<>> /\ seen = <<>> /\ collected = FALSE

-----------------------------------------------------------------------------
(* SDL and the user.                                                       *)

Raise(e) ==
  /\ window /\ count < MaxEvents
  /\ raised' = Append(raised, e)
  /\ count' = count + 1

UserResizes(s) ==
  /\ s # size /\ size' = s
  /\ Raise(<<"size", 0>>)
  /\ UNCHANGED <<pc, tickVars, wantVars, watched, calling, historyVars>>

UserActs ==
  /\ \E e \in {<<"close", 0>>, <<"focus", 0>>, <<"input", count + 1>>} : Raise(e)
  /\ UNCHANGED <<pc, tickVars, wantVars, watched, size, calling, historyVars>>

\* SDL calls the watch, if there is one.
CallWatch ==
  /\ raised # <<>> /\ calling = None
  /\ raised' = Tail(raised)
  /\ IF watched
       THEN calling' = Head(raised) /\ taken' = Append(taken, Head(raised))
       ELSE UNCHANGED <<calling, taken>>
  /\ UNCHANGED <<pc, tickVars, wantVars, watched, size, count, told, seen, collected>>

\* _sdl_event_filter puts the event with the others.
TakeEvent ==
  /\ pending' = Append(pending, calling)
  /\ calling' = None
  /\ UNCHANGED <<pc, window, locked, at, end, wantVars, watched, size, raised, count, historyVars>>

\* Mutant of Filter: the watch does not take the mutex.
FilterUnlocked == calling # None /\ TakeEvent

Filter == calling # None /\ ~locked /\ TakeEvent

-----------------------------------------------------------------------------
(* The script, at any time, in a handler or between tick functions.        *)

WantSize(s) ==
  /\ pc # "ended" /\ count < MaxEvents
  /\ wantedSize' = s /\ count' = count + 1
  /\ UNCHANGED <<pc, tickVars, sizeChanged, dirty, hide, exitOnClose, requests, watched, size, raised,
                 calling, historyVars>>

SetExitOnClose(b) ==
  /\ pc # "ended" /\ exitOnClose' = b
  /\ UNCHANGED <<pc, tickVars, sizeChanged, dirty, wantedSize, hide, requests, sdlVars, historyVars>>

SetVisible(b) ==
  /\ pc # "ended" /\ hide' = ~b
  /\ UNCHANGED <<pc, tickVars, sizeChanged, dirty, wantedSize, exitOnClose, requests, sdlVars, historyVars>>

\* connector:redraw(), or another card
Redraw ==
  /\ pc # "ended" /\ dirty' = TRUE
  /\ UNCHANGED <<pc, tickVars, sizeChanged, wantedSize, hide, exitOnClose, requests, sdlVars, historyVars>>

\* deck:Connector of a connector that exists calls initial_setup.
InitialSetup ==
  /\ pc # "ended" /\ window /\ sizeChanged' = TRUE
  /\ UNCHANGED <<pc, tickVars, dirty, wantedSize, hide, exitOnClose, requests, sdlVars, historyVars>>

\* The last reference is dropped, and the connector collected; nobody takes the
\* watch away.
Collected ==
  /\ pc = "inputs" /\ window
  /\ window' = FALSE /\ collected' = TRUE
  /\ pc' = "ended"
  /\ UNCHANGED <<locked, pending, at, end, wantVars, sdlVars, told, taken, seen>>

-----------------------------------------------------------------------------
(* tick_inputs.                                                            *)

\* std::lock_guard, and the loop over the events if there is a window
BeginInputs ==
  /\ pc = "inputs" /\ "exit" \notin requests
  /\ locked' = TRUE
  /\ at' = 1 /\ end' = Len(pending)
  /\ pc' = IF window THEN "handle" ELSE "create"
  /\ requests' = requests \ {"reload"}
  /\ UNCHANGED <<window, pending, sizeChanged, dirty, wantedSize, hide, exitOnClose, sdlVars, historyVars>>

\* attempt_create_window; what was wanted is forgotten either way
Create ==
  /\ pc = "create"
  /\ window' = TRUE
  /\ size' = IF wantedSize = None THEN size ELSE wantedSize
  /\ wantedSize' = None /\ hide' = FALSE
  /\ pc' = "watch"
  /\ UNCHANGED <<locked, pending, at, end, sizeChanged, dirty, exitOnClose, requests,
                 watched, raised, calling, count, historyVars>>

CreateFails ==
  /\ pc = "create"
  /\ wantedSize' = None /\ hide' = FALSE
  /\ locked' = FALSE
  /\ pc' = "outputs"
  /\ UNCHANGED <<window, pending, at, end, sizeChanged, dirty, exitOnClose, requests, sdlVars, historyVars>>

\* SDL_AddEventWatch waits until no watch is being called.
AddWatch ==
  /\ pc = "watch" /\ calling = None
  /\ watched' = TRUE
  /\ sizeChanged' = TRUE /\ dirty' = TRUE
  /\ pc' = "handle"
  /\ UNCHANGED <<tickVars, wantedSize, hide, exitOnClose, requests, size, raised, calling, count,
                 historyVars>>

\* handle_window_event and the handlers of inputs
HandleWindowEvent(e) ==
  /\ sizeChanged' = (sizeChanged \/ e[1] = "size")
  /\ dirty'       = (dirty \/ e[1] = "size")
  /\ requests'    = requests \cup (IF e[1] = "focus" THEN {"reload"} ELSE {})
                             \cup (IF e[1] = "close" /\ exitOnClose THEN {"exit"} ELSE {})
  /\ hide'        = (hide \/ (e[1] = "close" /\ ~exitOnClose))
  /\ seen'        = Append(seen, e)

Handle ==
  /\ pc = "handle" /\ at <= end
  /\ HandleWindowEvent(pending[at])
  /\ at' = at + 1
  /\ UNCHANGED <<pc, window, locked, pending, end, wantedSize, exitOnClose, sdlVars, told, taken, collected>>

\* All are handled, and the vector is cleared.
AllHandled ==
  /\ pc = "handle" /\ at > end
  /\ pending' = <<>> /\ at' = 1 /\ end' = 0
  /\ pc' = IF sizeChanged THEN "resize" ELSE "outputs"
  /\ locked' = sizeChanged
  /\ UNCHANGED <<window, wantVars, sdlVars, historyVars>>

\* on_resize, with the size the window has now
Resize ==
  /\ pc = "resize"
  /\ sizeChanged' = FALSE /\ dirty' = TRUE
  /\ told' = size
  /\ locked' = FALSE
  /\ pc' = "outputs"
  /\ UNCHANGED <<window, pending, at, end, wantedSize, hide, exitOnClose, requests, sdlVars,
                 taken, seen, collected>>

-----------------------------------------------------------------------------
(* tick_outputs and shutdown.                                              *)

NoWindow ==
  /\ pc = "outputs" /\ ~window
  /\ pc' = "inputs"
  /\ UNCHANGED <<tickVars, wantVars, sdlVars, historyVars>>

\* What is wanted is applied, and the card drawn; SDL raises an event about a
\* size that changes.
TickOutputs ==
  /\ pc = "outputs" /\ window
  /\ IF wantedSize \in Sizes \ {size}
       THEN size' = wantedSize /\ raised' = Append(raised, <<"size", 0>>)
       ELSE UNCHANGED <<size, raised>>
  /\ wantedSize' = None /\ hide' = FALSE /\ dirty' = FALSE
  /\ pc' = "inputs"
  /\ UNCHANGED <<tickVars, sizeChanged, exitOnClose, requests, watched, calling, count, historyVars>>

\* SDL_DelEventWatch waits until no watch is being called.
Shutdown ==
  /\ pc = "inputs" /\ "exit" \in requests
  /\ calling = None
  /\ watched' = FALSE /\ window' = FALSE
  /\ pc' = "ended"
  /\ UNCHANGED <<locked, pending, at, end, wantVars, size, raised, calling, count, historyVars>>

-----------------------------------------------------------------------------
Script ==
  \/ \E s \in Sizes : WantSize(s)
  \/ \E b \in BOOLEAN : SetExitOnClose(b) \/ SetVisible(b)
  \/ Redraw \/ InitialSetup \/ Collected

User == UserActs \/ \E s \in Sizes : UserResizes(s)

Main ==
  \/ BeginInputs \/ Create \/ CreateFails \/ AddWatch \/ Handle \/ AllHandled \/ Resize
  \/ NoWindow \/ TickOutputs \/ Shutdown

Next == User \/ Script \/ Main \/ CallWatch \/ Filter

\* The loop goes on, SDL calls the watch, and the watch gets the mutex, which the
\* main thread does not hold while it sleeps.
Fairness == WF_vars(Main) /\ WF_vars(CallWatch) /\ SF_vars(Filter)

Spec == Init /\ [][Next]_vars /\ Fairness

-----------------------------------------------------------------------------
(* Properties.                                                             *)

\* The event watch, which may run on another thread: every event it was called with
\* is handled once and in order, or waits for it, and none is lost to the clearing of
\* the vector it was added to; it runs only as long as the window that its first line
\* reads is there, also when the program ends beside it, but for a connector that was
\* collected, whose destructor leaves the watch behind.
WindowHolds ==
  /\ taken = seen \o SubSeq(pending, at, Len(pending)) \o (IF calling = None THEN <<>> ELSE <<calling>>)
  /\ calling # None => window \/ collected

\* The script is told of the size the window has, from wherever that was changed,
\* before or after the watch was there.
SizeIsTold ==
  \A s \in Sizes :
    window /\ size = s ~> told = s \/ size # s \/ pc = "ended"
=============================================================================
