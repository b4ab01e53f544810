---------------------------- MODULE ServerEvents ----------------------------
(***************************************************************************)
(* What a script is told by a ServerSocket: that the port is open and      *)
(* closed again, in turns, and of every client that it came, that it said  *)
(* something, and that it left, each client once and in this order.  A     *)
(* client comes only while the port is open; it may stay after that.       *)
(***************************************************************************)
CONSTANT Clients

VARIABLES
  open,  \* the last of on_connect and on_disconnect was on_connect
  life   \* of each client the last of on_accept, on_receive and on_close

Lives == {"unknown", "accepted", "heard", "left"}

Here(c) == life[c] \in {"accepted", "heard"}

Init == open = FALSE /\ life = [c \in Clients |-> "unknown"]

Opens  == ~open /\ open' = TRUE /\ UNCHANGED life
Closes == open /\ open' = FALSE /\ UNCHANGED life

Comes(c) == open /\ life[c] = "unknown" /\ life' = [life EXCEPT ![c] = "accepted"] /\ UNCHANGED open
Speaks(c) == Here(c) /\ life' = [life EXCEPT ![c] = "heard"] /\ UNCHANGED open
Leaves(c) == Here(c) /\ life' = [life EXCEPT ![c] = "left"] /\ UNCHANGED open

Next == Opens \/ Closes \/ \E c \in Clients : Comes(c) \/ Speaks(c) \/ Leaves(c)

Spec == Init /\ [][Next]_<<open, life>>
=============================================================================
