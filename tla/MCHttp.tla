------------------------------- MODULE MCHttp -------------------------------
(***************************************************************************)
(* Http for TLC: requests are numbered in the order they are made, and the *)
(* waits keep the order they have in the code, AnswerWait < RetryWait <    *)
(* PauseWait, with Timeout between the last two.                           *)
(***************************************************************************)
EXTENDS Http

ASSUME AnswerWait < RetryWait /\ RetryWait <= Timeout /\ Timeout < PauseWait
=============================================================================
