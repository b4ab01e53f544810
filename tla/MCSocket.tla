------------------------------ MODULE MCSocket ------------------------------
(***************************************************************************)
(* Socket for TLC: small sets of sockets, threads, handles and hosts.      *)
(***************************************************************************)
EXTENDS Socket, TLC

\* Sockets, threads and handles are interchangeable.
Symmetry ==
  Permutations(Sockets) \cup Permutations(Workers) \cup Permutations(Handles)
=============================================================================
