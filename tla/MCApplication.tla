--------------------------- MODULE MCApplication ----------------------------
(***************************************************************************)
(* Application for TLC, with at least one edit and one connector that is   *)
(* made: without them there is nothing to reload or to call.               *)
(***************************************************************************)
EXTENDS Application

ASSUME MaxMade >= 1 /\ MaxStamp >= 1
=============================================================================
