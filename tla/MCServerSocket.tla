--------------------------- MODULE MCServerSocket ---------------------------
(***************************************************************************)
(* ServerSocket for TLC: the LuaRefs that a pass hands out go up to the    *)
(* number of clients.                                                      *)
(***************************************************************************)
EXTENDS ServerSocket, FiniteSets

ASSUME MaxRefs = Cardinality(Clients)
=============================================================================
