-------------------------------- MODULE Link ---------------------------------
(***************************************************************************)
(* What a ConnectorWebsocket promises the script that uses it, without     *)
(* frames, sockets or ticks: a connection that is wanted is tried, comes   *)
(* up or not, and goes down, at once or after a close frame; each of these *)
(* is the step of one event, which is called with the step, except for the *)
(* end of a connection that was closing, of which the script may hear      *)
(* again or not at all.  Websocket implements it; Obs and Twitch are built *)
(* on it.                                                                  *)
(***************************************************************************)
VARIABLES
  link,   \* "down", "trying", "up", or "closing": a close frame went out
  wanted  \* is the connector enabled

vars == <<link, wanted>>

Init == link = "down" /\ wanted \in BOOLEAN

\* An attempt begins, of which the script is told nothing.
Try == link = "down" /\ wanted /\ link' = "trying"

\* An attempt goes on even if it is not wanted any more.
OnConnectFailed == link = "trying" /\ link' = "down"
OnConnect       == link = "trying" /\ link' = "up"

\* The connection is lost, even before it was up, or broken and about to be closed;
\* while it is closing this may be said again.
OnDisconnect ==
  \/ link = "trying" /\ link' = "down"
  \/ link \in {"up", "closing"} /\ link' \in {"down", "closing"}

\* A connection that is not wanted is closed, which calls on_disconnect.
Disabled == link = "up" /\ ~wanted /\ link' = "closing"

\* The peer has answered the close frame.
Closed == link = "closing" /\ link' = "down"

\* It cannot be done, and is not tried again: on_connect_failed.
Refused == link = "down" /\ wanted /\ wanted' = FALSE /\ UNCHANGED link

\* The shutdown, of which the script is told nothing.
Stopped == link' = "down" /\ wanted' = FALSE

Switched == wanted' = ~wanted /\ UNCHANGED link

Next ==
  \/ (Try \/ OnConnectFailed \/ OnConnect \/ OnDisconnect \/ Disabled \/ Closed) /\ UNCHANGED wanted
  \/ Refused \/ Stopped \/ Switched

Spec == Init /\ [][Next]_vars

-----------------------------------------------------------------------------
\* A connection that is wanted is tried (again), and one that is not is closed.
Follows ==
  /\ wanted /\ link = "down" ~> ~wanted \/ link # "down"
  /\ ~wanted /\ link = "up" ~> wanted \/ link # "up"
=============================================================================
