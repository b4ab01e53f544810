----------------------------- MODULE Connection -----------------------------
(***************************************************************************)
(* What util::Socket promises its users, without threads, handles or       *)
(* sessions: a connection is asked for, comes up to the very host that was *)
(* asked for, may have to shake hands first, and goes down at any time.    *)
(* A connection that is down comes up only by being asked for again, or,   *)
(* accepted from a remote peer, in a Socket that was not in use.           *)
(***************************************************************************)
CONSTANTS
  Sockets,
  Destinations,  \* what may be asked for: host names, or to listen
  Remote,        \* the far end of an accepted connection
  Nobody         \* no far end

VARIABLES
  phase,   \* phase[s], one of the four states
  wanted,  \* wanted[s], the destination that was asked for last
  linked   \* linked[s], the far end of the connection, if it is up

vars == <<phase, wanted, linked>>

Up == {"TLSHandshaking", "Connected"}

Init ==
  /\ phase  = [s \in Sockets |-> "Disconnected"]
  /\ wanted = [s \in Sockets |-> Nobody]
  /\ linked = [s \in Sockets |-> Nobody]

\* A Socket is constructed: it wants nothing yet.
Renew(s) ==
  /\ phase[s] = "Disconnected"
  /\ wanted' = [wanted EXCEPT ![s] = Nobody]
  /\ UNCHANGED <<phase, linked>>

Ask(s, d) ==
  /\ phase[s] = "Disconnected"
  /\ phase'  = [phase EXCEPT ![s] = "Connecting"]
  /\ wanted' = [wanted EXCEPT ![s] = d]
  /\ UNCHANGED linked

Establish(s) ==
  /\ phase[s] = "Connecting"
  /\ \E up \in Up : phase' = [phase EXCEPT ![s] = up]
  /\ linked' = [linked EXCEPT ![s] = wanted[s]]
  /\ UNCHANGED wanted

Secure(s) ==
  /\ phase[s] = "TLSHandshaking"
  /\ phase' = [phase EXCEPT ![s] = "Connected"]
  /\ UNCHANGED <<wanted, linked>>

GoDown(s) ==
  /\ phase'  = [phase EXCEPT ![s] = "Disconnected"]
  /\ linked' = [linked EXCEPT ![s] = Nobody]
  /\ UNCHANGED wanted

\* Somebody connects to a listening socket.
Accepted(s) ==
  /\ phase[s] = "Disconnected"
  /\ phase'  = [phase EXCEPT ![s] = "Connected"]
  /\ wanted' = [wanted EXCEPT ![s] = Remote]
  /\ linked' = [linked EXCEPT ![s] = Remote]

Next ==
  \E s \in Sockets :
    \/ Renew(s)
    \/ \E d \in Destinations : Ask(s, d)
    \/ Establish(s)
    \/ Secure(s)
    \/ GoDown(s)
    \/ Accepted(s)

Spec == Init /\ [][Next]_vars
=============================================================================
