---------------------------- MODULE ServerSocket ----------------------------
(***************************************************************************)
(* ConnectorServerSocket (src/src/connector_server_socket.cpp): a port     *)
(* that is opened while the connector is enabled, and the clients it has   *)
(* accepted, which it keeps in a Lua table under 1..m_num_clients.  Every  *)
(* tick reads from all of them, in one pass over the table that closes the *)
(* gaps of those that are gone.                                            *)
(*                                                                         *)
(* A step ends where an event handler runs, so that the script, which may  *)
(* act in every handler, may act before the next one.  Where no handler    *)
(* runs between two steps, what the script does there might as well have   *)
(* been done at the handler before.  A client is a number for its          *)
(* connection; what it sends is pieces without content.                    *)
(***************************************************************************)
EXTENDS Integers

CONSTANTS
  Clients,    \* bound: every connection anyone makes to the port
  Nobody,     \* nil, in the table
  MaxRefs,    \* bound on m_num_clients
  Ports,      \* the ports a script may assign
  MaxPieces,  \* bound on the pieces of one client not read yet
  RetryWait   \* ticks between attempts to open the port (5000 ms)

NoPort == 0

ASSUME BoundsAssumption ==
  /\ MaxRefs \in Nat /\ MaxPieces \in Nat /\ RetryWait \in Nat
  /\ Ports \subseteq Nat \ {NoPort}
  /\ Nobody \notin Clients

VARIABLES
  pc,       \* what comes next, see TypeOK
  state,    \* m_server_state
  wanted,   \* m_wanted_port
  active,   \* m_active_port
  enabled,  \* m_enabled
  wait,     \* ticks until m_listen_last_attempt + 5000
  table,    \* the clients in the instance table
  num,      \* m_num_clients
  ref,      \* the pass: the next client to look at
  lastOk,   \* the pass: the last that was kept, last_ok_ref
  net,      \* Socket::get_state of m_socket
  link,     \* of each client: "away", "waiting" in the backlog, "open", "closed"
  gone,     \* the clients that have closed their end
  pieces,   \* of each client, what it sent and was not read
  open,     \* history: ServerEvents
  life      \* history: ServerEvents

serverVars == <<state, wanted, active, enabled, wait>>
passVars   == <<table, num, ref, lastOk>>
peerVars   == <<link, gone, pieces>>
toldVars   == <<open, life>>
vars == <<pc, serverVars, passVars, net, peerVars, toldVars>>

Refs == 1..MaxRefs

Told == INSTANCE ServerEvents

TypeOK ==
  /\ pc      \in {"inputs", "bind", "listen", "accepted", "clients", "received",
                  "outputs", "sleep", "ended"}
  /\ state   \in {"Disconnected", "Binding", "Listening"}
  /\ wanted  \in Ports \cup {NoPort}
  /\ active  \in Ports \cup {NoPort}
  /\ enabled \in BOOLEAN
  /\ wait    \in 0..RetryWait
  /\ table   \in [Refs -> Clients \cup {Nobody}]
  /\ num     \in 0..MaxRefs
  /\ ref     \in 1..(MaxRefs + 1)
  /\ lastOk  \in 0..MaxRefs
  /\ net     \in {"Disconnected", "Connecting", "Connected"}
  /\ link    \in [Clients -> {"away", "waiting", "open", "closed"}]
  /\ gone    \subseteq Clients
  /\ pieces  \in [Clients -> 0..MaxPieces]
  /\ open    \in BOOLEAN
  /\ life    \in [Clients -> Told!Lives]

Init ==
  /\ pc = "inputs"
  /\ state = "Disconnected" /\ wanted = NoPort /\ active = NoPort /\ enabled = TRUE /\ wait = 0
  /\ table = [i \in Refs |-> Nobody] /\ num = 0 /\ ref = 1 /\ lastOk = 0
  /\ net = "Disconnected"
  /\ link = [c \in Clients |-> "away"] /\ gone = {} /\ pieces = [c \in Clients |-> 0]
  /\ Told!Init

-----------------------------------------------------------------------------
(* The sockets and whoever connects to them.                               *)

BindAnswers ==
  /\ net = "Connecting"
  /\ net' \in {"Connected", "Disconnected"}
  /\ UNCHANGED <<pc, serverVars, passVars, peerVars, toldVars>>

PeerConnects(c) ==
  /\ net = "Connected" /\ link[c] = "away"
  /\ link' = [link EXCEPT ![c] = "waiting"]
  /\ UNCHANGED <<pc, serverVars, passVars, net, gone, pieces, toldVars>>

PeerSends(c) ==
  /\ link[c] \in {"waiting", "open"} /\ c \notin gone /\ pieces[c] < MaxPieces
  /\ pieces' = [pieces EXCEPT ![c] = @ + 1]
  /\ UNCHANGED <<pc, serverVars, passVars, net, link, gone, toldVars>>

\* In good order, or with a reset that loses what was not read.
PeerCloses(c) ==
  /\ link[c] \in {"waiting", "open"} /\ c \notin gone
  /\ gone' = gone \cup {c}
  /\ pieces' \in {pieces, [pieces EXCEPT ![c] = 0]}
  /\ UNCHANGED <<pc, serverVars, passVars, net, link, toldVars>>

\* The port is closed, and with it whoever waits to be accepted.
ClosePort ==
  /\ net' = "Disconnected"
  /\ link' = [c \in Clients |-> IF link[c] = "waiting" THEN "closed" ELSE link[c]]

-----------------------------------------------------------------------------
(* The script.                                                             *)

ScriptRuns == pc \notin {"bind", "ended"}

\* server.enabled = b
SetEnabled(b) ==
  /\ ScriptRuns /\ enabled # b
  /\ enabled' = b
  /\ UNCHANGED <<pc, state, wanted, active, wait, passVars, net, peerVars, toldVars>>

\* server.port = p; an open port stays open.
SetPort(p) ==
  /\ ScriptRuns /\ wanted # p
  /\ wanted' = p
  /\ UNCHANGED <<pc, state, active, enabled, wait, passVars, net, peerVars, toldVars>>

\* server:reset_timer()
ResetTimer ==
  /\ ScriptRuns
  /\ wait' = 0 /\ enabled' = TRUE
  /\ UNCHANGED <<pc, state, wanted, active, passVars, net, peerVars, toldVars>>

\* client:close(), or a client:write() that fails
ScriptCloses(c) ==
  /\ ScriptRuns /\ life[c] # "unknown" /\ link[c] = "open"
  /\ link' = [link EXCEPT ![c] = "closed"]
  /\ UNCHANGED <<pc, serverVars, passVars, net, gone, pieces, toldVars>>

-----------------------------------------------------------------------------
(* tick_server_input.                                                      *)

Due == enabled /\ wait = 0

NotDue ==
  /\ pc = "inputs" /\ state = "Disconnected" /\ ~Due
  /\ pc' = "clients"
  /\ UNCHANGED <<serverVars, passVars, net, peerVars, toldVars>>

\* on_connect_failed: no port was assigned
NoPortGiven ==
  /\ pc = "inputs" /\ state = "Disconnected" /\ Due /\ wanted = NoPort
  /\ wait' = RetryWait /\ enabled' = FALSE
  /\ pc' = "clients"
  /\ UNCHANGED <<state, wanted, active, passVars, net, peerVars, toldVars>>

Bind ==
  /\ pc = "inputs" /\ state = "Disconnected" /\ Due /\ wanted # NoPort
  /\ wait' = RetryWait
  /\ active' = wanted
  /\ net' = "Connecting"
  /\ state' = "Binding"
  /\ pc' = "bind"
  /\ UNCHANGED <<wanted, enabled, passVars, peerVars, toldVars>>

Binding == pc \in {"inputs", "bind"} /\ state = "Binding"

NotBoundYet ==
  /\ Binding /\ net = "Connecting"
  /\ pc' = "clients"
  /\ UNCHANGED <<serverVars, passVars, net, peerVars, toldVars>>

\* on_connect_failed: the port could not be opened
BindFails ==
  /\ Binding /\ net = "Disconnected"
  /\ state' = "Disconnected" /\ active' = NoPort
  /\ pc' = "clients"
  /\ UNCHANGED <<wanted, enabled, wait, passVars, net, peerVars, toldVars>>

\* on_connect
Bound ==
  /\ Binding /\ net = "Connected"
  /\ state' = "Listening"
  /\ open' = TRUE
  /\ pc' = "listen"
  /\ UNCHANGED <<wanted, active, enabled, wait, passVars, net, peerVars, life>>

\* Mutant of Accepting: asks the socket, not m_server_state.
AcceptingEarly == pc \in {"inputs", "listen"} /\ net = "Connected"

Accepting == pc \in {"inputs", "listen"} /\ state = "Listening"

\* on_accept
Accept(c) ==
  /\ Accepting /\ link[c] = "waiting"
  /\ num < MaxRefs
  /\ link' = [link EXCEPT ![c] = "open"]
  /\ num' = num + 1
  /\ table' = [table EXCEPT ![num'] = c]
  /\ life' = [life EXCEPT ![c] = "accepted"]
  /\ pc' = "accepted"
  /\ UNCHANGED <<serverVars, ref, lastOk, net, gone, pieces, open>>

\* The SocketSet has no room for it.
AcceptRefuses(c) ==
  /\ Accepting /\ link[c] = "waiting"
  /\ link' = [link EXCEPT ![c] = "closed"]
  /\ pc' = "clients"
  /\ UNCHANGED <<serverVars, passVars, net, gone, pieces, toldVars>>

NobodyWaits ==
  /\ Accepting
  /\ pc' = "clients"
  /\ UNCHANGED <<serverVars, passVars, net, peerVars, toldVars>>

\* on_disconnect, when accept_nonblock fails
AcceptFails ==
  /\ Accepting
  /\ ClosePort
  /\ state' = "Disconnected" /\ active' = NoPort
  /\ open' = FALSE
  /\ pc' = "clients"
  /\ UNCHANGED <<wanted, enabled, wait, passVars, gone, pieces, life>>

AfterAccept ==
  /\ pc = "accepted"
  /\ pc' = "clients"
  /\ UNCHANGED <<serverVars, passVars, net, peerVars, toldVars>>

-----------------------------------------------------------------------------
(* tick_clients_input, one client after the other.                         *)

This == table[ref]

\* on_receive
Receive ==
  /\ pc = "clients" /\ ref <= num
  /\ link[This] = "open"
  /\ \E n \in 1..pieces[This] : pieces' = [pieces EXCEPT ![This] = @ - n]
  /\ life' = [life EXCEPT ![This] = "heard"]
  /\ pc' = "received"
  /\ UNCHANGED <<serverVars, passVars, net, link, gone, open>>

\* The client is looked at, when what it sent was read or there was nothing.
Looking ==
  /\ pc \in {"clients", "received"} /\ ref <= num
  /\ pc = "clients" /\ link[This] = "open" => pieces[This] = 0

\* is_connected, after a read that may have found the end
StillThere == link[This] = "open" /\ (pc = "received" \/ This \notin gone)

\* Mutant of Keep: gaps stay.
KeepInPlace ==
  /\ Looking /\ StillThere
  /\ lastOk' = lastOk + 1
  /\ ref' = ref + 1
  /\ pc' = "clients"
  /\ UNCHANGED <<serverVars, table, num, net, peerVars, toldVars>>

Keep ==
  /\ Looking /\ StillThere
  /\ lastOk' = lastOk + 1
  /\ table' = [i \in Refs |->
                 CASE i = lastOk'              -> This
                   [] i = ref /\ ref > lastOk' -> Nobody
                   [] OTHER                    -> table[i]]
  /\ ref' = ref + 1
  /\ pc' = "clients"
  /\ UNCHANGED <<serverVars, num, net, peerVars, toldVars>>

\* Mutant of Drop: no event for a client that the script has closed.
DropSilently ==
  /\ Looking /\ ~StillThere
  /\ link' = [link EXCEPT ![This] = "closed"]
  /\ life' = IF link[This] = "open" THEN [life EXCEPT ![This] = "left"] ELSE life
  /\ table' = [table EXCEPT ![ref] = Nobody]
  /\ ref' = ref + 1
  /\ pc' = "clients"
  /\ UNCHANGED <<serverVars, num, lastOk, net, gone, pieces, open>>

\* on_close
Drop ==
  /\ Looking /\ ~StillThere
  /\ link' = [link EXCEPT ![This] = "closed"]
  /\ life' = [life EXCEPT ![This] = "left"]
  /\ table' = [table EXCEPT ![ref] = Nobody]
  /\ ref' = ref + 1
  /\ pc' = "clients"
  /\ UNCHANGED <<serverVars, num, lastOk, net, gone, pieces, open>>

PassEnds ==
  /\ pc = "clients" /\ ref > num
  /\ num' = lastOk
  /\ ref' = 1 /\ lastOk' = 0
  /\ pc' = "outputs"
  /\ UNCHANGED <<serverVars, table, net, peerVars, toldVars>>

-----------------------------------------------------------------------------
(* tick_server_output, the sleep, and shutdown.                            *)

MustClose == state = "Listening" /\ ~enabled

\* on_disconnect, because the connector was disabled
CloseDisabled ==
  /\ pc = "outputs" /\ MustClose
  /\ ClosePort
  /\ state' = "Disconnected" /\ active' = NoPort
  /\ open' = FALSE
  /\ pc' = "sleep"
  /\ UNCHANGED <<wanted, enabled, wait, passVars, gone, pieces, life>>

NothingToClose ==
  /\ pc = "outputs" /\ ~MustClose
  /\ pc' = "sleep"
  /\ UNCHANGED <<serverVars, passVars, net, peerVars, toldVars>>

Sleep ==
  /\ pc = "sleep"
  /\ wait' = IF wait > 0 THEN wait - 1 ELSE 0
  /\ pc' = "inputs"
  /\ UNCHANGED <<state, wanted, active, enabled, passVars, net, peerVars, toldVars>>

\* Mutant of Shutdown: one reference too few.
ShutdownFew ==
  /\ pc = "inputs"
  /\ net' = "Disconnected"
  /\ link' = [c \in Clients |->
                IF link[c] = "waiting" \/ \E i \in 1..(num - 1) : table[i] = c THEN "closed" ELSE link[c]]
  /\ state' = "Disconnected" /\ active' = NoPort
  /\ table' = [i \in Refs |-> IF i < num THEN Nobody ELSE table[i]] /\ num' = 0
  /\ pc' = "ended"
  /\ UNCHANGED <<wanted, enabled, wait, ref, lastOk, gone, pieces, toldVars>>

\* Nobody is told of it.
Shutdown ==
  /\ pc = "inputs"
  /\ net' = "Disconnected"
  /\ link' = [c \in Clients |->
                IF link[c] = "waiting" \/ \E i \in 1..num : table[i] = c THEN "closed" ELSE link[c]]
  /\ state' = "Disconnected" /\ active' = NoPort
  /\ table' = [i \in Refs |-> IF i <= num THEN Nobody ELSE table[i]] /\ num' = 0
  /\ pc' = "ended"
  /\ UNCHANGED <<wanted, enabled, wait, ref, lastOk, gone, pieces, toldVars>>

ServerInput ==
  \/ NotDue \/ NoPortGiven \/ Bind \/ NotBoundYet \/ BindFails \/ Bound
  \/ \E c \in Clients : Accept(c) \/ AcceptRefuses(c)
  \/ NobodyWaits \/ AcceptFails \/ AfterAccept

ClientsInput == Receive \/ Keep \/ Drop \/ PassEnds

Tick == ServerInput \/ ClientsInput \/ CloseDisabled \/ NothingToClose \/ Sleep

Script ==
  \/ \E b \in BOOLEAN : SetEnabled(b)
  \/ \E p \in Ports : SetPort(p)
  \/ ResetTimer
  \/ \E c \in Clients : ScriptCloses(c)

Network == BindAnswers \/ \E c \in Clients : PeerConnects(c) \/ PeerSends(c) \/ PeerCloses(c)

Next == Tick \/ Shutdown \/ Script \/ Network

\* Ticks go on until the shutdown, and opening a port ends (AttemptsSettle of
\* Socket).
Spec == Init /\ [][Next]_vars /\ WF_vars(Tick) /\ WF_vars(BindAnswers)

-----------------------------------------------------------------------------
(* Properties.                                                             *)

\* The references in use: 1..m_num_clients, but in the pass the gap between
\* what was kept and what is still to be looked at.
Used == 1..lastOk \cup ref..num

\* The table holds the clients the script knows of, every one once, and no
\* other; a pass that moves them forgets none and leaves none behind.
TableExact ==
  pc # "ended" =>
    /\ \A i \in Refs : table[i] # Nobody <=> i \in Used
    /\ \A i, j \in Used : table[i] = table[j] => i = j
    /\ \A c \in Clients : Told!Here(c) <=> \E i \in Used : table[i] = c

\* m_server_state, m_active_port, the socket and what the script was told agree:
\* no port stays open behind a connector that is Disconnected.
PortInSync ==
  pc # "ended" =>
    /\ state = "Disconnected" <=> active = NoPort
    /\ state = "Disconnected" => net = "Disconnected"
    /\ state = "Listening" => net = "Connected"
    /\ open <=> state = "Listening"

\* A connection that is open has a client the script knows of: what is closed
\* or shut down leaves none behind.
NoneLeaks ==
  \A c \in Clients : link[c] = "open" => pc # "ended" /\ Told!Here(c)

\* What the script is told are ServerEvents.
EventsInTurn == Told!Spec

\* Who leaves, or is closed by the script, is reported; a connector that is disabled
\* gives up its port, and one that is enabled tries to have it.
RequestsFollowed ==
  /\ \A c \in Clients :
       Told!Here(c) /\ (c \in gone \/ link[c] = "closed") ~> life[c] = "left" \/ pc = "ended"
  /\ ~enabled ~> (state = "Disconnected" \/ enabled)
  /\ enabled /\ wanted # NoPort /\ state = "Disconnected" ~> state # "Disconnected" \/ ~enabled \/ pc = "ended"
=============================================================================
