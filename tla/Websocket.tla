------------------------------ MODULE Websocket ------------------------------
(***************************************************************************)
(* ConnectorWebsocket (src/src/connector_websocket.cpp): a client that     *)
(* keeps a connection to a WebSocket server open for as long as a script   *)
(* wants it, and tells the script of it with events.                       *)
(*                                                                         *)
(* The main thread calls tick_inputs and then tick_outputs in every tick.  *)
(* The part of tick_inputs that takes frames out of the receive buffer is  *)
(* one step per frame, because the script runs, as an event handler,       *)
(* between two frames and may disable the connector or write to it.  An    *)
(* event after which the connector does nothing more in this tick needs no *)
(* step of its own: the script may do the same between the ticks.          *)
(*                                                                         *)
(* The socket is seen as Connection shows it, with the bytes that the peer *)
(* sent in `wire`.  Frames are what check_for_complete_frame makes of the  *)
(* bytes; a frame whose last byte is not there yet has not been read.      *)
(* Abstracted: the URL, keys, protocols, payloads, and continuation frames *)
(* that are not the last of their message.                                 *)
(***************************************************************************)
EXTENDS Naturals, Sequences

CONSTANTS
  Retry,      \* ticks between two attempts to connect (5000 ms)
  MaxFrames   \* bound on the frames that the peer sends

ASSUME BoundsAssumption == Retry \in Nat \ {0} /\ MaxFrames \in Nat

VARIABLES
  ws,         \* m_connect_state
  enabled,    \* m_enabled
  closeSent,  \* m_close_sent
  tls,        \* m_connect_url has the schema wss
  since,      \* ticks since m_connect_last_attempt, up to Retry
  received,   \* m_received
  pending,    \* m_pending_opcode and m_pending_frame: the frames put together
  pc,         \* what comes next: "inputs" or "outputs", the start of a tick
              \* function; "on", the next stage of the connection, and
              \* "frames", the loop over frames, in tick_inputs; "handler", the
              \* end of an event handler called there; "ended"
  net,        \* Socket::get_state
  netTLS,     \* the socket was told to use TLS
  wire,       \* what the peer sent and we have not read
  peer,       \* where the peer is: "quiet", "asked", "open", "split" between
              \* the two frames of a message, "done"
  gone,       \* the peer has closed the TCP connection
  sent,       \* how many frames the peer has sent
  tlsBuilt,   \* the program was built with a TLS library
  told,       \* history: what the script was last told in this attempt
  got,        \* history: the frames of the message last given to on_message
  calls,      \* history: how many times on_message was called
  closes      \* history: how many close frames went out on this connection

connectorVars == <<ws, enabled, closeSent, tls, since, received, pending, pc>>
netVars  == <<net, netTLS, wire, peer, gone, sent, tlsBuilt>>
toldVars == <<told, got, calls, closes>>
vars == <<connectorVars, netVars, toldVars>>

Numbers == 0..MaxFrames
Frames  == [kind : {"text", "first", "last"}, number : Numbers] \cup
           [kind : {"ping", "pong", "close", "bad", "upgrade", "junk"}, number : {0}]
Plain(kind) == [kind |-> kind, number |-> 0]

TypeOK ==
  /\ ws        \in {"Disconnected", "Connecting", "Handshaking", "Connected"}
  /\ enabled   \in BOOLEAN
  /\ closeSent \in BOOLEAN
  /\ tls       \in BOOLEAN
  /\ since     \in 0..Retry
  /\ received  \in Seq(Frames)
  /\ pending   \in Seq(Frames)
  /\ pc        \in {"inputs", "on", "frames", "handler", "outputs", "ended"}
  /\ net       \in {"Disconnected", "Connecting", "TLSHandshaking", "Connected"}
  /\ netTLS    \in BOOLEAN
  /\ wire      \in Seq(Frames)
  /\ peer      \in {"quiet", "asked", "open", "split", "done"}
  /\ gone      \in BOOLEAN
  /\ sent      \in Numbers
  /\ tlsBuilt  \in BOOLEAN
  /\ told      \in {"nothing", "failed", "connected", "disconnected"}
  /\ got       \in Seq(Frames)
  /\ calls     \in Nat
  /\ closes    \in Nat

Init ==
  /\ ws = "Disconnected" /\ enabled = TRUE /\ closeSent = FALSE
  /\ tls = FALSE /\ since = Retry /\ received = <<>> /\ pending = <<>>
  /\ pc = "inputs"
  /\ net = "Disconnected" /\ netTLS = FALSE /\ wire = <<>> /\ peer = "quiet"
  /\ gone = FALSE /\ sent = 0 /\ tlsBuilt \in BOOLEAN
  /\ told = "nothing" /\ got = <<>> /\ calls = 0
  /\ closes = 0

-----------------------------------------------------------------------------
(* The socket and the peer.                                                *)

\* The socket is closed, and what was under way with it is lost.
Down ==
  /\ net'  = "Disconnected"
  /\ wire' = <<>>
  /\ peer' = "quiet"
  /\ gone' = FALSE
  /\ UNCHANGED <<netTLS, sent, tlsBuilt>>

\* Socket::write: a failing write closes the socket.  With TLS so does a write
\* that comes before there is a session (see WriteTLS in Socket).
Write ==
  \/ UNCHANGED netVars
  \/ net = "Connected" /\ gone /\ Down
  \/ net = "Connecting" /\ netTLS /\ Down

\* A worker of the socket has finished with an attempt.
NetAnswers ==
  /\ net = "Connecting"
  /\ \/ /\ net' = IF netTLS THEN "TLSHandshaking" ELSE "Connected"
        /\ UNCHANGED <<netTLS, wire, peer, gone, sent, tlsBuilt>>
     \/ Down
  /\ UNCHANGED <<connectorVars, toldVars>>

\* The server answers the upgrade request, or something else does.
PeerAnswers ==
  /\ net = "Connected" /\ peer = "asked" /\ ~gone
  /\ \/ wire' = Append(wire, Plain("upgrade")) /\ peer' = "open"
     \/ wire' = Append(wire, Plain("junk")) /\ peer' = "done"
  /\ UNCHANGED <<connectorVars, toldVars, net, netTLS, gone, sent, tlsBuilt>>

\* The server sends a frame: a message, whole or in two frames, or a control
\* frame, which may come between the two.
PeerSends ==
  /\ net = "Connected" /\ peer \in {"open", "split"} /\ ~gone
  /\ sent < MaxFrames
  /\ sent' = sent + 1
  /\ \/ \E kind \in {"ping", "pong"} :
          wire' = Append(wire, Plain(kind)) /\ UNCHANGED peer
     \/ \E kind \in {"close", "bad"} :
          wire' = Append(wire, Plain(kind)) /\ peer' = "done"
     \/ /\ peer = "open"
        /\ \/ /\ wire' = Append(wire, [kind |-> "text", number |-> sent'])
              /\ UNCHANGED peer
           \/ /\ wire' = Append(wire, [kind |-> "first", number |-> sent'])
              /\ peer' = "split"
     \/ /\ peer = "split"
        /\ wire' = Append(wire, [kind |-> "last", number |-> sent'])
        /\ peer' = "open"
  /\ UNCHANGED <<connectorVars, toldVars, net, netTLS, gone, tlsBuilt>>

PeerDrops ==
  /\ net = "Connected" /\ ~gone
  /\ gone' = TRUE
  /\ UNCHANGED <<connectorVars, toldVars, net, netTLS, wire, peer, sent, tlsBuilt>>

-----------------------------------------------------------------------------
(* The script: event handlers and everything that runs between ticks.      *)

Scripting == pc \in {"inputs", "handler", "outputs"}

\* websocket.enabled = b
SetEnabled(b) ==
  /\ Scripting /\ enabled # b
  /\ enabled' = b
  /\ UNCHANGED <<ws, closeSent, tls, since, received, pending, pc, netVars, toldVars>>

\* websocket.tls = b, or a connection string with the other schema
SetTLS(b) ==
  /\ Scripting /\ tls # b
  /\ tls' = b
  /\ UNCHANGED <<ws, enabled, closeSent, since, received, pending, pc, netVars, toldVars>>

\* websocket:send(message), in any state
SendMessage ==
  /\ Scripting
  /\ Write
  /\ UNCHANGED <<connectorVars, toldVars>>

-----------------------------------------------------------------------------
(* tick_inputs, up to the frames.                                          *)

Attempting == ws = "Connecting" /\ pc \in {"inputs", "on"}
Reading    == ws \in {"Handshaking", "Connected"} /\ pc \in {"inputs", "on"}

\* Not enabled, or not yet time for another attempt.
Rest ==
  /\ pc = "inputs" /\ ws = "Disconnected"
  /\ ~enabled \/ since < Retry
  /\ pc' = "outputs"
  /\ UNCHANGED <<ws, enabled, closeSent, tls, since, received, pending, netVars, toldVars>>

NewAttempt == since' = 0 /\ closeSent' = FALSE

\* Mutant of Connect: m_enabled is not looked at.
ConnectUnwanted ==
  /\ pc = "inputs" /\ ws = "Disconnected" /\ since = Retry
  /\ tlsBuilt
  /\ NewAttempt
  /\ ws' = "Connecting" /\ pc' = "on"
  /\ net' = "Connecting" /\ netTLS' = tls
  /\ told' = "nothing" /\ closes' = 0
  /\ UNCHANGED <<enabled, tls, received, pending, wire, peer, gone, sent, tlsBuilt, got, calls>>

\* The socket is told to use TLS or not, and to connect.
Connect ==
  /\ pc = "inputs" /\ ws = "Disconnected"
  /\ enabled /\ since = Retry
  /\ tlsBuilt
  /\ NewAttempt
  /\ ws' = "Connecting" /\ pc' = "on"
  /\ net' = "Connecting" /\ netTLS' = tls
  /\ told' = "nothing" /\ closes' = 0
  /\ UNCHANGED <<enabled, tls, received, pending, wire, peer, gone, sent, tlsBuilt, got, calls>>

\* Mutant of CannotConnect: the connector stays enabled.
CannotConnectRetry ==
  /\ pc = "inputs" /\ ws = "Disconnected"
  /\ enabled /\ since = Retry
  /\ ~tlsBuilt
  /\ NewAttempt
  /\ told' = "failed" /\ closes' = 0
  /\ pc' = "outputs"
  /\ UNCHANGED <<ws, enabled, tls, received, pending, netVars, got, calls>>

\* A program without a TLS library cannot connect at all: set_tls refuses there,
\* whether it is told to use TLS or not to.
CannotConnect ==
  /\ pc = "inputs" /\ ws = "Disconnected"
  /\ enabled /\ since = Retry
  /\ ~tlsBuilt
  /\ NewAttempt
  /\ enabled' = FALSE
  /\ told' = "failed" /\ closes' = 0
  /\ pc' = "outputs"
  /\ UNCHANGED <<ws, tls, received, pending, netVars, got, calls>>

\* Mutant of ConnectFailed: a TLS handshake counts as a failure.
ConnectFailedEarly ==
  /\ Attempting /\ net \in {"Disconnected", "TLSHandshaking"}
  /\ ws' = "Disconnected"
  /\ told' = "failed"
  /\ pc' = "outputs"
  /\ UNCHANGED <<enabled, closeSent, tls, since, received, pending, netVars, got, calls, closes>>

ConnectFailed ==
  /\ Attempting /\ net = "Disconnected"
  /\ ws' = "Disconnected"
  /\ told' = "failed"
  /\ pc' = "outputs"
  /\ UNCHANGED <<enabled, closeSent, tls, since, received, pending, netVars, got, calls, closes>>

StillConnecting ==
  /\ Attempting /\ net = "Connecting"
  /\ pc' = "outputs"
  /\ UNCHANGED <<ws, enabled, closeSent, tls, since, received, pending, netVars, toldVars>>

\* Socket::tls_handshake goes on, is through, or fails.
ShakeHands ==
  /\ Attempting /\ net = "TLSHandshaking"
  /\ \/ UNCHANGED netVars
     \/ net' = "Connected" /\ UNCHANGED <<netTLS, wire, peer, gone, sent, tlsBuilt>>
     \/ Down
  /\ pc' = "outputs"
  /\ UNCHANGED <<ws, enabled, closeSent, tls, since, received, pending, toldVars>>

\* The upgrade request is written; nobody looks at whether that works.
SendUpgrade ==
  /\ Attempting /\ net = "Connected"
  /\ \/ peer' = "asked" /\ UNCHANGED <<net, netTLS, wire, gone, sent, tlsBuilt>>
     \/ gone /\ Down
  /\ ws' = "Handshaking" /\ pc' = "on"
  /\ UNCHANGED <<enabled, closeSent, tls, since, received, pending, toldVars>>

\* read_nonblock fails and closes the socket.  The state is Disconnected by the
\* time the event is chosen, so that it is on_disconnect after all.
ReadFails ==
  /\ Reading
  /\ \/ net = "Disconnected" /\ UNCHANGED netVars
     \/ net = "Connected" /\ gone /\ Down
  /\ ws' = "Disconnected" /\ received' = <<>>
  /\ told' = "disconnected"
  /\ pc' = "outputs"
  /\ UNCHANGED <<enabled, closeSent, tls, since, pending, got, calls, closes>>

ReadNothing ==
  /\ Reading /\ net = "Connected" /\ ~gone
  /\ wire = <<>>
  /\ pc' = "outputs"
  /\ UNCHANGED <<ws, enabled, closeSent, tls, since, received, pending, netVars, toldVars>>

\* Some bytes come in, and with them the ends of the first k frames.
Take(k) ==
  /\ Reading /\ net = "Connected" /\ wire # <<>>
  /\ wire' = SubSeq(wire, k + 1, Len(wire))

\* The headers are not complete.
HeadersMissing ==
  /\ ws = "Handshaking" /\ Take(0)
  /\ pc' = "outputs"
  /\ UNCHANGED <<ws, enabled, closeSent, tls, since, received, pending,
                 net, netTLS, peer, gone, sent, tlsBuilt, toldVars>>

\* verify_http_upgrade_headers agrees; what follows the headers is frames.
Upgraded ==
  /\ ws = "Handshaking" /\ wire # <<>> /\ Head(wire).kind = "upgrade"
  /\ \E k \in 1..Len(wire) : Take(k) /\ received' = SubSeq(wire, 2, k)
  /\ ws' = "Connected"
  /\ told' = "connected"
  /\ pc' = "handler"
  /\ UNCHANGED <<enabled, closeSent, tls, since, pending,
                 net, netTLS, peer, gone, sent, tlsBuilt, got, calls, closes>>

\* The socket is closed, with it what was received, and the state follows.
Closed == Down /\ received' = <<>> /\ ws' = "Disconnected"

\* The headers are not those of a websocket, or do not end.
Rejected ==
  /\ Reading /\ net = "Connected"
  /\ ws = "Handshaking" /\ wire # <<>> /\ Head(wire).kind = "junk"
  /\ Closed
  /\ told' = "failed"
  /\ pc' = "outputs"
  /\ UNCHANGED <<enabled, closeSent, tls, since, pending, got, calls, closes>>

ReadFrames ==
  /\ ws = "Connected"
  /\ \E k \in 0..Len(wire) : Take(k) /\ received' = received \o SubSeq(wire, 1, k)
  /\ pc' = "frames"
  /\ UNCHANGED <<ws, enabled, closeSent, tls, since, pending,
                 net, netTLS, peer, gone, sent, tlsBuilt, toldVars>>

-----------------------------------------------------------------------------
(* tick_inputs, the loop over frames.                                      *)

NoFrame ==
  /\ pc = "frames" /\ received = <<>>
  /\ pc' = "outputs"
  /\ UNCHANGED <<ws, enabled, closeSent, tls, since, received, pending, netVars, toldVars>>

\* check_for_complete_frame: a frame that continues is put to what is pending,
\* any other, a control frame in between included, takes its place.
Frame     == Head(received)
Complete  == pc = "frames" /\ received # <<>> /\ Frame.kind # "bad"

Assembled == IF Frame.kind = "last" THEN Append(pending, Frame) ELSE <<Frame>>
Opcode    == Head(Assembled).kind

\* Mutant of Consume: the frame is taken, and stays where it is, too.
ConsumeTwice ==
  /\ Complete
  /\ received' = received
  /\ pending'  = Assembled

Consume ==
  /\ Complete
  /\ received' = Tail(received)
  /\ pending'  = Assembled

\* Mutant of StartClosing: m_close_sent is not set.
StartClosingAgain == Write /\ closes' = closes + 1 /\ UNCHANGED closeSent

\* send_close_frame, and m_close_sent
StartClosing == Write /\ closes' = closes + 1 /\ closeSent' = TRUE

\* A frame that breaks the protocol stays where it is.
BadFrame ==
  /\ pc = "frames" /\ received # <<>> /\ Frame.kind = "bad"
  /\ IF closeSent
       THEN UNCHANGED <<netVars, closeSent, closes>>
       ELSE StartClosing
  /\ told' = "disconnected"
  /\ pc' = "outputs"
  /\ UNCHANGED <<ws, enabled, tls, since, received, pending, got, calls>>

\* After a fragment the loop ends, even with more frames there.
Fragment ==
  /\ Consume /\ Frame.kind = "first"
  /\ pc' = "outputs"
  /\ UNCHANGED <<ws, enabled, closeSent, tls, since, netVars, toldVars>>

CloseFrame ==
  /\ Complete /\ Frame.kind = "close"
  /\ pending' = Assembled
  /\ Closed
  /\ IF closeSent
       THEN UNCHANGED <<told, closes>>
       ELSE told' = "disconnected" /\ closes' = closes + 1
  /\ pc' = "outputs"
  /\ UNCHANGED <<enabled, closeSent, tls, since, got, calls>>

\* A ping is answered, with a frame that may fail to go out.
Control ==
  /\ Consume /\ Frame.kind # "first" /\ Opcode \in {"ping", "pong"}
  /\ IF Opcode = "ping" THEN Write ELSE UNCHANGED netVars
  /\ UNCHANGED <<ws, enabled, closeSent, tls, since, pc, toldVars>>

Wanted == enabled /\ ~closeSent

Message ==
  /\ Consume /\ Frame.kind # "first" /\ Opcode \in {"text", "first"}
  /\ IF Wanted
       THEN got' = Assembled /\ calls' = calls + 1 /\ pc' = "handler"
       ELSE UNCHANGED <<got, calls, pc>>
  /\ UNCHANGED <<ws, enabled, closeSent, tls, since, netVars, told, closes>>

HandlerReturns ==
  /\ pc = "handler"
  /\ pc' = "frames"
  /\ UNCHANGED <<ws, enabled, closeSent, tls, since, received, pending, netVars, toldVars>>

-----------------------------------------------------------------------------

MustClose == ws = "Connected" /\ ~enabled /\ ~closeSent

Later == IF since < Retry THEN since + 1 ELSE since

\* tick_outputs, and the time to the next tick
TickOutputs ==
  /\ pc = "outputs"
  /\ IF MustClose
       THEN StartClosing /\ told' = "disconnected"
       ELSE UNCHANGED <<netVars, closeSent, closes, told>>
  /\ since' = Later
  /\ pc' = "inputs"
  /\ UNCHANGED <<ws, enabled, tls, received, pending, got, calls>>

\* shutdown, between two ticks, at the end of the program or before a reload
Shutdown ==
  /\ pc = "inputs"
  /\ closes' = IF ws = "Connected" THEN closes + 1 ELSE closes
  /\ Closed
  /\ enabled' = FALSE
  /\ pc' = "ended"
  /\ UNCHANGED <<closeSent, tls, since, pending, told, got, calls>>

TickInputs ==
  \/ Rest \/ Connect \/ CannotConnect
  \/ ConnectFailed \/ StillConnecting \/ ShakeHands \/ SendUpgrade
  \/ ReadFails \/ ReadNothing \/ HeadersMissing \/ Upgraded \/ Rejected \/ ReadFrames
  \/ NoFrame \/ BadFrame \/ Fragment \/ CloseFrame \/ Control \/ Message
  \/ HandlerReturns

Script ==
  \/ \E b \in BOOLEAN : SetEnabled(b) \/ SetTLS(b)
  \/ SendMessage

Network == NetAnswers \/ PeerAnswers \/ PeerSends \/ PeerDrops

Tick == TickInputs \/ TickOutputs

Next == Tick \/ Shutdown \/ Script \/ Network

\* Ticks go on until the shutdown.  The network owes nothing to anybody.
Spec == Init /\ [][Next]_vars /\ WF_vars(Tick)

-----------------------------------------------------------------------------
(* Properties.                                                             *)

\* m_connect_state and the socket belong together: a connector that rests has
\* closed its socket, and one that talks has one that talks, unless a write has
\* just closed it.
SocketInSync ==
  /\ ws = "Disconnected" => net = "Disconnected"
  /\ ws \in {"Handshaking", "Connected"} => net \in {"Disconnected", "Connected"}

\* No byte of one connection is taken for one of the next (m_received).
NoStaleBytes == ws # "Connected" => received = <<>>

\* The script takes the connection for up, by the events it was given, exactly
\* while it is and no close frame was sent on it.
ScriptKnows ==
  pc # "ended" => (told = "connected" <=> ws = "Connected" /\ ~closeSent)

\* The connection as the script may see it.
Shown ==
  IF ws = "Disconnected" THEN "down"
  ELSE IF ws # "Connected" THEN "trying"
  ELSE IF closeSent THEN "closing" ELSE "up"

Lk == INSTANCE Link WITH link <- Shown, wanted <- enabled

\* The step of the connection that the script is told of, if it is told anything.
Telling ==
  \/ told' = told
  \/ told' = "nothing"      /\ Lk!Try
  \/ told' = "failed"       /\ (Lk!OnConnectFailed \/ Lk!Refused)
  \/ told' = "connected"    /\ Lk!OnConnect
  \/ told' = "disconnected" /\ Lk!OnDisconnect

\* What a script may rely on (tick_inputs, tick_outputs, shutdown): its connection
\* goes up and down as Link has it, what it is told is a step of Link with the name
\* of the event, and no connection comes up or is lost without one.
ImplementsLink == Lk!Spec /\ []ScriptKnows /\ [][Telling]_vars

\* On every connection at most one close frame is sent, whoever starts closing.
\* (shutdown sends another one.)
CloseFrameOnce == pc # "ended" => closes <= 1

\* What on_message is given was sent as one message: never the end of one put
\* to another frame, whatever came in between (check_for_complete_frame).
WholeMessages ==
  got # <<>> =>
    \/ Len(got) = 1 /\ Head(got).kind = "text"
    \/ Len(got) = 2 /\ got[1].kind = "first" /\ got[2].kind = "last"

\* Messages come whole, in the order they were sent, each at most once, and only to
\* a script that wants them and takes the connection for up: this is said of every
\* call of on_message, also of one with the message it was last given.
MessagesIntact ==
  [][calls' # calls \/ got' # got =>
       /\ WholeMessages'
       /\ enabled /\ told = "connected"
       /\ got # <<>> => Head(got').number > got[Len(got)].number]_vars

\* The socket is used as Connection allows: it is never told to connect while
\* it is in use (start_connect).
Sock == INSTANCE Connection WITH
          Sockets <- {"socket"}, Destinations <- {"server"},
          Remote <- "remote", Nobody <- "nobody",
          phase  <- [s \in {"socket"} |-> net],
          wanted <- [s \in {"socket"} |-> "server"],
          linked <- [s \in {"socket"} |->
                      IF net \in {"TLSHandshaking", "Connected"} THEN "server" ELSE "nobody"]
UsesConnection == [][Sock!Next]_Sock!vars

\* While it is enabled a connector that is not connected tries again; one that
\* is disabled starts to close its connection.
FollowsEnabled == Lk!Follows

\* A connection that was lost before the upgrade was answered is reported as a
\* failed attempt (line 206): on_disconnect follows on_connect.
DisconnectFollowsConnect ==
  [][told' = "disconnected" /\ told # "disconnected" => told = "connected"]_vars
=============================================================================
