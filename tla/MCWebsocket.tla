---------------------------- MODULE MCWebsocket -----------------------------
(***************************************************************************)
(* Websocket for TLC.  Frames are numbered up to MaxFrames, so that their  *)
(* order shows; the history of close frames stops at two.                  *)
(***************************************************************************)
EXTENDS Websocket

=============================================================================
