--------------------------- MODULE WebsocketProofs ---------------------------
(***************************************************************************)
(* Websocket, for every interval between attempts and any number of        *)
(* frames.                                                                 *)
(*                                                                         *)
(* The invariant joins what the properties say with what the steps of a    *)
(* tick take for granted: the loop over frames runs only while connected   *)
(* (Looping), nothing is left of a connection that was shut down (Ending), *)
(* and whether close frames went out agrees with m_close_sent (Counting).  *)
(* For the messages, the frames that were received and those on the wire   *)
(* are one stream, and Flow says what may come next in it.                 *)
(***************************************************************************)
EXTENDS Websocket, SequenceTheorems, TLAPS

\* In tick_inputs, the loop over frames follows the states before it.
Looping == pc \in {"frames", "handler"} => ws = "Connected"

Ending == pc = "ended" => ws = "Disconnected"

\* m_close_sent is reset with every attempt, and then set by the only code that
\* sends a close frame without ending the connection.
Counting ==
  /\ closes \in {0, 1}
  /\ ws \in {"Connecting", "Handshaking"} => closes = 0 /\ ~closeSent
  /\ ws = "Connected" /\ ~closeSent => closes = 0

Booleans == closeSent \in BOOLEAN /\ enabled \in BOOLEAN

Inv ==
  /\ Booleans
  /\ SocketInSync
  /\ NoStaleBytes
  /\ ScriptKnows
  /\ Looping
  /\ Ending
  /\ pc # "ended" => Counting

\* Every step of the program keeps the invariant (tick_inputs, tick_outputs,
\* shutdown, the script's assignments, the network).
LEMMA InvStep == Inv /\ [Next]_vars => Inv'
<1> SUFFICES ASSUME Inv, [Next]_vars PROVE Inv'
  OBVIOUS
<1> USE DEF Inv, Booleans, SocketInSync, NoStaleBytes, ScriptKnows, Looping, Ending, Counting,
            connectorVars, netVars, toldVars
<1>1. CASE Rest
  BY <1>1 DEF Rest
<1>2. CASE Connect
  BY <1>2 DEF Connect, NewAttempt
<1>3. CASE CannotConnect
  BY <1>3 DEF CannotConnect, NewAttempt
<1>4. CASE ConnectFailed
  BY <1>4 DEF ConnectFailed, Attempting
<1>5. CASE StillConnecting
  BY <1>5 DEF StillConnecting, Attempting
<1>6. CASE ShakeHands
  BY <1>6 DEF ShakeHands, Attempting, Down
<1>7. CASE SendUpgrade
  BY <1>7 DEF SendUpgrade, Attempting, Down
<1>8. CASE ReadFails
  BY <1>8 DEF ReadFails, Reading, Down
<1>9. CASE ReadNothing
  BY <1>9 DEF ReadNothing, Reading
<1>10. CASE HeadersMissing
  BY <1>10 DEF HeadersMissing, Reading, Take
<1>11. CASE Upgraded
  BY <1>11 DEF Upgraded, Reading, Take
<1>12. CASE Rejected
  BY <1>12 DEF Rejected, Reading, Closed, Down
<1>13. CASE ReadFrames
  BY <1>13 DEF ReadFrames, Reading, Take
<1>14. CASE NoFrame
  BY <1>14 DEF NoFrame
<1>15. CASE BadFrame
  <2>1. CASE closeSent
    BY <1>15, <2>1 DEF BadFrame
  <2>2. CASE ~closeSent
    <3>1. closes' = 1 /\ closeSent' = TRUE /\ told' = "disconnected"
      BY <1>15, <2>2 DEF BadFrame, StartClosing
    <3>2. net' \in {net, "Disconnected"}
      BY <1>15, <2>2 DEF BadFrame, StartClosing, Write, Down
    <3> QED
      BY <1>15, <3>1, <3>2 DEF BadFrame
  <2> QED
    BY <2>1, <2>2
<1>16. CASE Fragment
  BY <1>16 DEF Fragment, Consume, Complete, Assembled, Frame
<1>17. CASE CloseFrame
  BY <1>17 DEF CloseFrame, Complete, Assembled, Frame, Closed, Down
<1>18. CASE Control
  BY <1>18 DEF Control, Consume, Complete, Assembled, Frame, Write, Down
<1>19. CASE Message
  BY <1>19 DEF Message, Consume, Complete, Assembled, Frame, Wanted
<1>20. CASE HandlerReturns
  BY <1>20 DEF HandlerReturns
<1>21. CASE TickOutputs
  <2>1. CASE MustClose
    <3>1. closes' = 1 /\ closeSent' = TRUE /\ told' = "disconnected" /\ pc' = "inputs"
      BY <1>21, <2>1 DEF TickOutputs, MustClose, StartClosing
    <3>2. net' \in {net, "Disconnected"}
      BY <1>21, <2>1 DEF TickOutputs, StartClosing, Write, Down
    <3> QED
      BY <1>21, <2>1, <3>1, <3>2 DEF TickOutputs, MustClose
  <2>2. CASE ~MustClose
    BY <1>21, <2>2 DEF TickOutputs
  <2> QED
    BY <2>1, <2>2
<1>22. CASE Shutdown
  BY <1>22 DEF Shutdown, Closed, Down
<1>23. ASSUME NEW b \in BOOLEAN, SetEnabled(b) PROVE Inv'
  BY <1>23 DEF SetEnabled, Scripting
<1>24. ASSUME NEW b \in BOOLEAN, SetTLS(b) PROVE Inv'
  BY <1>24 DEF SetTLS, Scripting
<1>25. CASE SendMessage
  BY <1>25 DEF SendMessage, Scripting, Write, Down
<1>26. CASE NetAnswers
  BY <1>26 DEF NetAnswers, Down
<1>27. CASE PeerAnswers
  BY <1>27 DEF PeerAnswers
<1>28. CASE PeerSends
  BY <1>28 DEF PeerSends
<1>29. CASE PeerDrops
  BY <1>29 DEF PeerDrops
<1>30. CASE UNCHANGED vars
  BY <1>30 DEF vars
<1> QED
  BY <1>1, <1>2, <1>3, <1>4, <1>5, <1>6, <1>7, <1>8, <1>9, <1>10, <1>11, <1>12, <1>13, <1>14, <1>15, <1>16, <1>17, <1>18, <1>19, <1>20, <1>21, <1>22, <1>23, <1>24, <1>25, <1>26, <1>27, <1>28, <1>29, <1>30
     DEF Next, Tick, TickInputs, Script, Network

\* The invariant holds in every state of ConnectorWebsocket.
THEOREM Invariance == Spec => []Inv
<1>1. Init => Inv
  BY DEF Init, Inv, Booleans, SocketInSync, NoStaleBytes, ScriptKnows, Looping, Ending, Counting
<1> QED
  BY <1>1, InvStep, PTL DEF Spec

\* Between ticks a resting connector has no socket, and a talking one has one
\* that talks or has just failed (m_connect_state, Socket::get_state).
THEOREM InSync == Spec => []SocketInSync
BY Invariance, PTL DEF Inv

\* m_received is empty unless the connection is up.
THEOREM NothingStale == Spec => []NoStaleBytes
BY Invariance, PTL DEF Inv

\* The last event the script was given says whether the connection is up.
THEOREM ScriptIsTold == Spec => []ScriptKnows
BY Invariance, PTL DEF Inv

\* No connection sees two close frames of the tick functions.
THEOREM OneCloseFrame == Spec => []CloseFrameOnce
<1>1. Inv => CloseFrameOnce
  BY DEF Inv, Counting, CloseFrameOnce
<1> QED
  BY <1>1, Invariance, PTL

-----------------------------------------------------------------------------
(* The socket as Connection has it.                                        *)

\* What a step can do to the socket.
LEMMA NetSteps ==
  ASSUME Inv, [Next]_vars
  PROVE  \/ net' = net
         \/ net' = "Disconnected"
         \/ net = "Disconnected" /\ net' = "Connecting"
         \/ net = "Connecting" /\ net' \in {"TLSHandshaking", "Connected"}
         \/ net = "TLSHandshaking" /\ net' = "Connected"
<1> USE DEF netVars
<1>1. CASE TickInputs
  BY <1>1 DEF TickInputs, Rest, Connect, CannotConnect, ConnectFailed, StillConnecting, ShakeHands,
     SendUpgrade, ReadFails, ReadNothing, HeadersMissing, Upgraded, Rejected, ReadFrames, NoFrame,
     BadFrame, Fragment, CloseFrame, Control, Message, HandlerReturns, StartClosing, Closed, Down,
     Write, Inv, SocketInSync
<1>2. CASE TickOutputs \/ Shutdown
  BY <1>2 DEF TickOutputs, Shutdown, StartClosing, Closed, Down, Write
<1>3. CASE Script
  BY <1>3 DEF Script, SetEnabled, SetTLS, SendMessage, Down, Write
<1>4. CASE Network
  BY <1>4 DEF Network, NetAnswers, PeerAnswers, PeerSends, PeerDrops, Down
<1>5. CASE UNCHANGED vars
  BY <1>5 DEF vars
<1> QED
  BY <1>1, <1>2, <1>3, <1>4, <1>5 DEF Next, Tick

\* The connector uses its socket as Connection allows, and start_connect only
\* while the socket is not in use.
THEOREM ConnectionUse == Spec => UsesConnection
<1>1. ASSUME Inv, [Next]_vars PROVE [Sock!Next]_Sock!vars
  <2> USE DEF Sock!Next, Sock!vars, Sock!Up
  <2>1. CASE net' = net
    BY <2>1
  <2>2. CASE net' = "Disconnected"
    <3>1. Sock!GoDown("socket")
      BY <2>2 DEF Sock!GoDown
    <3> QED
      BY <3>1
  <2>3. CASE net = "Disconnected" /\ net' = "Connecting"
    <3>1. Sock!Ask("socket", "server")
      BY <2>3 DEF Sock!Ask
    <3> QED
      BY <3>1
  <2>4. CASE net = "Connecting" /\ net' \in {"TLSHandshaking", "Connected"}
    <3>1. Sock!Establish("socket")
      BY <2>4 DEF Sock!Establish
    <3> QED
      BY <3>1
  <2>5. CASE net = "TLSHandshaking" /\ net' = "Connected"
    <3>1. Sock!Secure("socket")
      BY <2>5 DEF Sock!Secure
    <3> QED
      BY <3>1
  <2> QED
    BY <1>1, <2>1, <2>2, <2>3, <2>4, <2>5, NetSteps
<1> QED
  BY <1>1, Invariance, PTL DEF Spec, UsesConnection

-----------------------------------------------------------------------------
(* The connector as Link has it.                                           *)

LinkStep == [Lk!Next]_Lk!vars /\ Telling

\* A step that is not one of the connection.
LEMMA NoLinkStep ==
  ASSUME UNCHANGED <<ws, closeSent, enabled, told>>
  PROVE  LinkStep
BY DEF LinkStep, Lk!vars, Shown, Telling

\* An attempt begins, or cannot.
LEMMA AttemptLinks ==
  ASSUME Inv, Connect \/ CannotConnect
  PROVE  LinkStep
<1>1. CASE Connect
  <2>1. /\ Shown = "down" /\ enabled /\ Shown' = "trying" /\ enabled' = enabled /\ told' = "nothing"
    BY <1>1 DEF Connect, Shown
  <2>2. Lk!Try
    BY <2>1 DEF Lk!Try
  <2> QED
    BY <2>1, <2>2 DEF LinkStep, Lk!Next, Telling
<1>2. CASE CannotConnect
  <2>1. /\ Shown = "down" /\ enabled /\ Shown' = "down" /\ enabled' = FALSE /\ told' = "failed"
    BY <1>2 DEF CannotConnect, Shown
  <2>2. Lk!Refused
    BY <2>1 DEF Lk!Refused
  <2> QED
    BY <2>1, <2>2 DEF LinkStep, Lk!Next, Telling
<1> QED
  BY <1>1, <1>2

\* An attempt ends.
LEMMA AnswerLinks ==
  ASSUME Inv, ConnectFailed \/ Upgraded \/ Rejected
  PROVE  LinkStep
<1>1. CASE Upgraded
  <2>1. /\ Shown = "trying" /\ Shown' = "up" /\ enabled' = enabled /\ told' = "connected"
    BY <1>1 DEF Upgraded, Shown, Inv, Counting, Ending
  <2>2. Lk!OnConnect
    BY <2>1 DEF Lk!OnConnect
  <2> QED
    BY <2>1, <2>2 DEF LinkStep, Lk!Next, Telling
<1>2. CASE ConnectFailed \/ Rejected
  <2>1. /\ Shown = "trying" /\ Shown' = "down" /\ enabled' = enabled /\ told' = "failed"
    BY <1>2 DEF ConnectFailed, Rejected, Closed, Attempting, Shown
  <2>2. Lk!OnConnectFailed
    BY <2>1 DEF Lk!OnConnectFailed
  <2> QED
    BY <2>1, <2>2 DEF LinkStep, Lk!Next, Telling
<1> QED
  BY <1>1, <1>2

\* A connection is lost, broken or closed, by the peer or because it is not wanted.
LEMMA LossLinks ==
  ASSUME Inv, ReadFails \/ BadFrame \/ CloseFrame \/ TickOutputs
  PROVE  LinkStep
<1>1. ASSUME Shown \in {"trying", "up", "closing"}, Shown' \in {"down", "closing"},
             Shown = "trying" => Shown' = "down", enabled' = enabled,
             told' = "disconnected" \/ (told' = told /\ Shown = "closing" /\ Shown' = "down")
      PROVE  LinkStep
  <2>1. Lk!OnDisconnect
    BY <1>1 DEF Lk!OnDisconnect
  <2> QED
    BY <1>1, <2>1 DEF LinkStep, Lk!Next, Telling
<1>2. CASE ReadFails
  BY <1>1, <1>2 DEF ReadFails, Reading, Shown
<1>3. CASE BadFrame
  <2>1. ws = "Connected" /\ ws' = ws /\ enabled' = enabled /\ told' = "disconnected"
    BY <1>3 DEF BadFrame, Inv, Looping
  <2>2. closeSent' = TRUE
    BY <1>3 DEF BadFrame, StartClosing, Inv, Booleans
  <2> QED
    BY <1>1, <2>1, <2>2 DEF Shown
<1>4. CASE CloseFrame
  <2>1. ws = "Connected" /\ ws' = "Disconnected" /\ enabled' = enabled /\ closeSent' = closeSent
    BY <1>4 DEF CloseFrame, Complete, Closed, Inv, Looping
  <2>2. IF closeSent THEN told' = told ELSE told' = "disconnected"
    BY <1>4 DEF CloseFrame
  <2> QED
    BY <1>1, <2>1, <2>2 DEF Shown
<1>5. CASE TickOutputs
  <2>1. CASE MustClose
    <3>1. ws = "Connected" /\ ~closeSent /\ closeSent' = TRUE /\ told' = "disconnected"
      BY <1>5, <2>1 DEF TickOutputs, MustClose, StartClosing
    <3> QED
      BY <1>1, <1>5, <3>1 DEF TickOutputs, Shown
  <2>2. CASE ~MustClose
    BY <1>5, <2>2, NoLinkStep DEF TickOutputs
  <2> QED
    BY <2>1, <2>2
<1> QED
  BY <1>2, <1>3, <1>4, <1>5

\* The program, or the script, has had enough.
LEMMA WishLinks ==
  ASSUME Inv, Shutdown \/ \E b \in BOOLEAN : SetEnabled(b)
  PROVE  LinkStep
<1>1. CASE Shutdown
  <2>1. Shown' = "down" /\ enabled' = FALSE /\ told' = told
    BY <1>1 DEF Shutdown, Closed, Shown
  <2>2. Lk!Stopped
    BY <2>1 DEF Lk!Stopped
  <2> QED
    BY <2>1, <2>2 DEF LinkStep, Lk!Next, Telling
<1>2. ASSUME NEW b \in BOOLEAN, SetEnabled(b) PROVE LinkStep
  <2>1. Shown' = Shown /\ enabled' = ~enabled /\ told' = told
    <3>1. enabled' = b /\ enabled # b /\ enabled \in BOOLEAN /\ UNCHANGED <<ws, closeSent, told>>
      BY <1>2 DEF SetEnabled, toldVars, Inv, Booleans
    <3>2. enabled' = ~enabled
      BY <3>1
    <3> QED
      BY <3>1, <3>2 DEF Shown
  <2>2. Lk!Switched
    BY <2>1 DEF Lk!Switched
  <2> QED
    BY <2>1, <2>2 DEF LinkStep, Lk!Next, Telling
<1> QED
  BY <1>1, <1>2

\* Every step of the connector is one of its connection, or none.
LEMMA LinkSteps == ASSUME Inv, [Next]_vars PROVE LinkStep
<1> USE DEF connectorVars, toldVars
<1>1. CASE TickInputs
  <2>1. CASE Connect \/ CannotConnect
    BY <2>1, AttemptLinks
  <2>2. CASE ConnectFailed \/ Upgraded \/ Rejected
    BY <2>2, AnswerLinks
  <2>3. CASE ReadFails \/ BadFrame \/ CloseFrame
    BY <2>3, LossLinks
  <2>4. CASE SendUpgrade
    BY <2>4 DEF SendUpgrade, Attempting, LinkStep, Lk!vars, Shown, Telling
  <2>5. CASE Rest \/ StillConnecting \/ ShakeHands \/ ReadNothing \/ HeadersMissing \/ ReadFrames
             \/ NoFrame \/ Fragment \/ Control \/ Message \/ HandlerReturns
    BY <2>5, NoLinkStep DEF Rest, StillConnecting, ShakeHands, ReadNothing, HeadersMissing, ReadFrames,
       NoFrame, Fragment, Control, Message, HandlerReturns
  <2> QED
    BY <1>1, <2>1, <2>2, <2>3, <2>4, <2>5 DEF TickInputs
<1>2. CASE TickOutputs
  BY <1>2, LossLinks
<1>3. CASE Shutdown \/ \E b \in BOOLEAN : SetEnabled(b)
  BY <1>3, WishLinks
<1>4. CASE SendMessage \/ \E b \in BOOLEAN : SetTLS(b)
  BY <1>4, NoLinkStep DEF SendMessage, SetTLS
<1>5. CASE Network
  BY <1>5, NoLinkStep DEF Network, NetAnswers, PeerAnswers, PeerSends, PeerDrops
<1>6. CASE UNCHANGED vars
  BY <1>6, NoLinkStep DEF vars
<1> QED
  BY <1>1, <1>2, <1>3, <1>4, <1>5, <1>6 DEF Next, Tick, Script

\* ConnectorWebsocket, whatever its peer sends and its script does, is a Link whose
\* every change the script is told of by the event of that name.
THEOREM LinkImplemented == Spec => ImplementsLink
<1>1. Init => Lk!Init
  BY DEF Init, Lk!Init, Shown
<1>2. Inv /\ [Next]_vars => [Lk!Next]_Lk!vars /\ [Telling]_vars
  BY LinkSteps DEF LinkStep
<1>3. Inv => ScriptKnows
  BY DEF Inv
<1> QED
  BY <1>1, <1>2, <1>3, Invariance, PTL DEF Spec, Lk!Spec, ImplementsLink

-----------------------------------------------------------------------------
(* Types.                                                                  *)

\* What is left after, or between, some frames is frames (m_received.substr).
LEMMA PartOfFrames ==
  ASSUME NEW s \in Seq(Frames), NEW i \in Nat \ {0}, NEW j \in 0..Len(s)
  PROVE  SubSeq(s, i, j) \in Seq(Frames)
<1>1. CASE i <= j
  BY <1>1, SubSeqProperties
<1>2. CASE ~(i <= j)
  BY <1>2, SubSeqProperties
<1> QED
  BY <1>1, <1>2

\* What the members of Frames are.
LEMMA FrameTypes ==
  /\ \A kind \in {"ping", "pong", "close", "bad", "upgrade", "junk"} : Plain(kind) \in Frames
  /\ \A kind \in {"text", "first", "last"}, n \in Numbers :
       [kind |-> kind, number |-> n] \in Frames
BY BoundsAssumption DEF Frames, Plain, Numbers

\* Buffers are sequences of frames when they are cleared or added to.
LEMMA Buffers ==
  /\ <<>> \in Seq(Frames)
  /\ \A s \in Seq(Frames), f \in Frames : Append(s, f) \in Seq(Frames)
BY EmptySeq, AppendProperties

Flags ==
  /\ enabled \in BOOLEAN /\ closeSent \in BOOLEAN /\ tls \in BOOLEAN
  /\ netTLS \in BOOLEAN /\ gone \in BOOLEAN /\ tlsBuilt \in BOOLEAN

Data ==
  /\ ws       \in {"Disconnected", "Connecting", "Handshaking", "Connected"}
  /\ since    \in 0..Retry
  /\ received \in Seq(Frames)
  /\ pending  \in Seq(Frames)
  /\ pc       \in {"inputs", "on", "frames", "handler", "outputs", "ended"}
  /\ net      \in {"Disconnected", "Connecting", "TLSHandshaking", "Connected"}
  /\ wire     \in Seq(Frames)
  /\ peer     \in {"quiet", "asked", "open", "split", "done"}
  /\ sent     \in Numbers
  /\ told     \in {"nothing", "failed", "connected", "disconnected"}
  /\ got      \in Seq(Frames)
  /\ calls    \in Nat
  /\ closes   \in Nat

\* The flags stay flags, whatever step is taken.
LEMMA FlagsStep == ASSUME Flags, [Next]_vars PROVE Flags'
<1> USE DEF Flags, connectorVars, netVars, toldVars
<1>1. CASE Rest \/ Connect \/ CannotConnect \/ ConnectFailed \/ StillConnecting
  BY <1>1, Zenon DEF Rest, Connect, CannotConnect, ConnectFailed, StillConnecting, NewAttempt
<1>2. CASE ShakeHands \/ SendUpgrade \/ ReadFails \/ ReadNothing \/ NoFrame \/ HandlerReturns
  BY <1>2, Zenon DEF ShakeHands, SendUpgrade, ReadFails, ReadNothing, NoFrame, HandlerReturns, Down
<1>3. CASE HeadersMissing \/ Upgraded \/ ReadFrames \/ Rejected
  BY <1>3, Zenon DEF HeadersMissing, Upgraded, ReadFrames, Rejected, Closed, Down
<1>4. CASE BadFrame \/ Fragment \/ CloseFrame
  BY <1>4, Zenon DEF BadFrame, Fragment, CloseFrame, StartClosing, Closed, Write, Down
<1>5. CASE Control \/ Message
  BY <1>5, Zenon DEF Control, Message, Write, Down
<1>6. CASE TickOutputs \/ Shutdown
  BY <1>6, Zenon DEF TickOutputs, Shutdown, StartClosing, Closed, Write, Down
<1>7. CASE Script
  BY <1>7, Zenon DEF Script, SetEnabled, SetTLS, SendMessage, Write, Down
<1>8. CASE Network
  BY <1>8, Zenon DEF Network, NetAnswers, PeerAnswers, PeerSends, PeerDrops, Down
<1>9. CASE UNCHANGED vars
  BY <1>9, Zenon DEF vars
<1> QED
  BY <1>1, <1>2, <1>3, <1>4, <1>5, <1>6, <1>7, <1>8, <1>9 DEF Next, Tick, TickInputs

\* The other variables keep their types.
LEMMA DataStep == ASSUME Data, [Next]_vars PROVE Data'
<1> USE Buffers, BoundsAssumption DEF Data, connectorVars, netVars, toldVars
<1>0. ASSUME Write
      PROVE  /\ net' \in {"Disconnected", "Connecting", "TLSHandshaking", "Connected"}
             /\ wire' \in Seq(Frames) /\ sent' \in Numbers
             /\ peer' \in {"quiet", "asked", "open", "split", "done"}
  BY <1>0 DEF Write, Down
<1>1. CASE Rest \/ Connect \/ CannotConnect \/ ConnectFailed \/ StillConnecting
  BY <1>1 DEF Rest, Connect, CannotConnect, ConnectFailed, StillConnecting, NewAttempt
<1>2. CASE ShakeHands \/ SendUpgrade \/ ReadFails \/ ReadNothing \/ NoFrame \/ HandlerReturns
  BY <1>2 DEF ShakeHands, SendUpgrade, ReadFails, ReadNothing, NoFrame, HandlerReturns, Down
<1>3. CASE HeadersMissing
  BY <1>3, PartOfFrames DEF HeadersMissing, Take
<1>4. CASE Upgraded
  BY <1>4, PartOfFrames DEF Upgraded, Take
<1>5. CASE ReadFrames
  <2>1. PICK k \in 0..Len(wire) : Take(k) /\ received' = received \o SubSeq(wire, 1, k)
    BY <1>5 DEF ReadFrames
  <2>2. SubSeq(wire, 1, k) \in Seq(Frames) /\ SubSeq(wire, k + 1, Len(wire)) \in Seq(Frames)
    BY PartOfFrames
  <2>3. received' \in Seq(Frames) /\ wire' \in Seq(Frames)
    BY <2>1, <2>2 DEF Take
  <2> QED
    BY <1>5, <2>3 DEF ReadFrames
<1>6. CASE Rejected
  BY <1>6 DEF Rejected, Closed, Down
<1>7. CASE BadFrame
  <2>1. CASE closeSent
    BY <1>7, <2>1 DEF BadFrame
  <2>2. CASE ~closeSent
    BY <1>7, <1>0, <2>2 DEF BadFrame, StartClosing
  <2> QED
    BY <2>1, <2>2
<1>8. ASSUME Complete PROVE Assembled \in Seq(Frames) /\ Tail(received) \in Seq(Frames)
  <2>1. Frame \in Frames /\ Tail(received) \in Seq(Frames)
    BY <1>8 DEF Complete, Frame
  <2> QED
    BY <2>1 DEF Assembled
<1>9. CASE Fragment
  BY <1>9, <1>8 DEF Fragment, Consume
<1>10. CASE CloseFrame
  BY <1>10, <1>8 DEF CloseFrame, Closed, Down
<1>11. CASE Control
  BY <1>11, <1>8 DEF Control, Consume, Write, Down
<1>12. CASE Message
  BY <1>12, <1>8 DEF Message, Consume
<1>13. CASE TickOutputs
  <2>1. since' \in 0..Retry /\ pc' = "inputs" /\ UNCHANGED <<ws, received, pending, got, calls>>
    BY <1>13 DEF TickOutputs, Later
  <2>2. CASE MustClose
    BY <1>13, <1>0, <2>1, <2>2 DEF TickOutputs, StartClosing
  <2>3. CASE ~MustClose
    BY <1>13, <2>1, <2>3 DEF TickOutputs
  <2> QED
    BY <2>2, <2>3
<1>14. CASE Shutdown
  BY <1>14 DEF Shutdown, Closed, Down
<1>15. CASE Script
  BY <1>15, <1>0 DEF Script, SetEnabled, SetTLS, SendMessage
<1>16. CASE NetAnswers
  BY <1>16 DEF NetAnswers, Down
<1>17. CASE PeerAnswers
  BY <1>17, FrameTypes DEF PeerAnswers
<1>18. CASE PeerSends
  <2>1. sent' \in Numbers
    BY <1>18 DEF PeerSends, Numbers
  <2> QED
    BY <1>18, <2>1, FrameTypes DEF PeerSends
<1>19. CASE PeerDrops
  BY <1>19 DEF PeerDrops
<1>20. CASE UNCHANGED vars
  BY <1>20 DEF vars
<1> QED
  BY <1>1, <1>2, <1>3, <1>4, <1>5, <1>6, <1>7, <1>9, <1>10, <1>11, <1>12, <1>13, <1>14,
     <1>15, <1>16, <1>17, <1>18, <1>19, <1>20
     DEF Next, Tick, TickInputs, Network

\* Every variable of ConnectorWebsocket and its socket keeps its type.
THEOREM TypeCorrect == Spec => []TypeOK
<1>1. Init => Flags
  BY Zenon DEF Init, Flags
<1>2. Init => Data
  BY Buffers, BoundsAssumption DEF Init, Data, Numbers
<1>3. TypeOK <=> Flags /\ Data
  BY Zenon DEF TypeOK, Flags, Data
<1> QED
  BY <1>1, <1>2, <1>3, FlagsStep, DataStep, PTL DEF Spec
-----------------------------------------------------------------------------
(* Messages.                                                               *)

\* A frame of a message, not one of control.
Carries(f) == f.kind \in {"text", "first", "last"}

\* The message that the end of a message at i belongs to was begun: by a frame further
\* ahead, of which it is the next, or by the frame that is pending, unless a control
\* frame has taken its place.
Begun(s, i, pend, given) ==
  \/ \E j \in 1..(i - 1) : s[j].kind = "first" /\ \A k \in (j + 1)..(i - 1) : ~Carries(s[k])
  \/ /\ \A k \in 1..(i - 1) : ~Carries(s[k])
     /\ Len(pend) = 1 /\ pend[1].kind \in {"first", "ping", "pong"}
     /\ pend[1].kind = "first" /\ given # <<>> => given[Len(given)].number < pend[1].number

\* The frames s that were not looked at yet, of n that were sent so far: they are in the
\* order they were sent in, after what is pending and what the script was given; what
\* ends a message was begun, also what the peer, in the middle of one, will send.
InOrder(s, pend, given, n) ==
  /\ \A i \in 1..Len(s) : Carries(s[i]) =>
       /\ 0 < s[i].number /\ s[i].number <= n
       /\ \A p \in 1..Len(pend) : pend[p].number < s[i].number
       /\ given # <<>> => given[Len(given)].number < s[i].number
  /\ \A i, j \in 1..Len(s) : i < j /\ Carries(s[i]) /\ Carries(s[j]) => s[i].number < s[j].number
InTurn(s, middle, pend, given, n) ==
  /\ InOrder(s, pend, given, n)
  /\ \A i \in 1..Len(s) : s[i].kind = "last" => Begun(s, i, pend, given)
  /\ middle => Begun(s, Len(s) + 1, pend, given)
  /\ \A p \in 1..Len(pend) : pend[p].number <= n
  /\ given # <<>> => given[Len(given)].number <= n

Flow == InTurn(received \o wire, peer = "split", pending, got, sent)

\* Nothing is in turn after what was sent before.
LEMMA NothingInTurn ==
  ASSUME NEW pend, NEW given, NEW n \in Nat,
         \A p \in 1..Len(pend) : pend[p].number <= n,
         given # <<>> => given[Len(given)].number <= n
  PROVE  InTurn(<<>>, FALSE, pend, given, n)
BY DEF InTurn, InOrder

\* What was received stays in turn when the rest is lost with the connection.
LEMMA RestLost ==
  ASSUME NEW u \in Seq(Frames), NEW w \in Seq(Frames), NEW middle, NEW pend, NEW given, NEW n \in Nat,
         InTurn(u \o w, middle, pend, given, n)
  PROVE  InTurn(u, FALSE, pend, given, n)
<1>1. /\ Len(u) \in Nat /\ Len(u \o w) \in Nat /\ Len(u) <= Len(u \o w)
      /\ \A i \in 1..Len(u) : i \in 1..Len(u \o w) /\ (u \o w)[i] = u[i]
  OBVIOUS
<1>2. InOrder(u, pend, given, n)
  <2>1. InOrder(u \o w, pend, given, n)
    BY DEF InTurn
  <2> QED
    BY <1>1, <2>1 DEF InOrder
<1>3. ASSUME NEW i \in 1..Len(u), u[i].kind = "last" PROVE Begun(u, i, pend, given)
  <2>1. Begun(u \o w, i, pend, given)
    BY <1>1, <1>3 DEF InTurn
  <2>2. \A k \in 1..(i - 1) : (u \o w)[k] = u[k]
    BY <1>1
  <2>3. CASE \E j \in 1..(i - 1) :
               (u \o w)[j].kind = "first" /\ \A k \in (j + 1)..(i - 1) : ~Carries((u \o w)[k])
    <3>1. PICK j \in 1..(i - 1) :
                 (u \o w)[j].kind = "first" /\ \A k \in (j + 1)..(i - 1) : ~Carries((u \o w)[k])
      BY <2>3
    <3>2. \A k \in (j + 1)..(i - 1) : k \in 1..(i - 1)
      BY <1>1
    <3> QED
      BY <2>2, <3>1, <3>2 DEF Begun
  <2>4. CASE \A k \in 1..(i - 1) : ~Carries((u \o w)[k])
    BY <2>1, <2>2, <2>3, <2>4 DEF Begun
  <2> QED
    BY <2>1, <2>3, <2>4 DEF Begun
<1> QED
  BY <1>2, <1>3 DEF InTurn

\* What the peer sends next is in turn behind the rest: a frame of control, or the next
\* number, and the end of a message only in the middle of one.
LEMMA SentInTurn ==
  ASSUME NEW s \in Seq(Frames), NEW f \in Frames, NEW middle, NEW still,
         NEW pend, NEW given, NEW n \in Nat, NEW m \in {n, n + 1},
         \A p \in 1..Len(pend) : pend[p].number \in Nat,
         given # <<>> => given[Len(given)].number \in Nat,
         InTurn(s, middle, pend, given, n),
         Carries(f) => m = n + 1 /\ f.number = m,
         f.kind = "last" => middle,
         still => f.kind = "first" \/ (middle /\ ~Carries(f))
  PROVE  InTurn(Append(s, f), still, pend, given, m)
<1> DEFINE t == Append(s, f)
<1>1. /\ Len(s) \in Nat /\ Len(t) = Len(s) + 1 /\ t[Len(s) + 1] = f
      /\ \A i \in 1..Len(s) : t[i] = s[i]
  OBVIOUS
<1>2. \A i \in 1..Len(s) : s[i] \in Frames
  OBVIOUS
<1>3. \A g \in Frames : g.number \in Nat
  BY BoundsAssumption DEF Frames, Numbers
<1> HIDE DEF t
<1>4. InOrder(s, pend, given, n)
  BY DEF InTurn
<1>5. InOrder(t, pend, given, m)
  <2>1. ASSUME NEW i \in 1..Len(t), Carries(t[i])
        PROVE  /\ 0 < t[i].number /\ t[i].number <= m
               /\ \A p \in 1..Len(pend) : pend[p].number < t[i].number
               /\ given # <<>> => given[Len(given)].number < t[i].number
    <3>1. CASE i = Len(s) + 1
      <4>1. t[i] = f /\ f.number = n + 1 /\ m = n + 1
        BY <1>1, <2>1, <3>1
      <4>2. \A p \in 1..Len(pend) : pend[p].number <= n
        BY DEF InTurn
      <4>3. given # <<>> => given[Len(given)].number <= n
        BY DEF InTurn
      <4> QED
        BY <4>1, <4>2, <4>3
    <3>2. CASE i # Len(s) + 1
      <4>1. i \in 1..Len(s) /\ t[i] = s[i]
        BY <1>1, <3>2
      <4>2. s[i].number <= n /\ s[i].number \in Nat
        BY <1>2, <1>3, <1>4, <2>1, <4>1 DEF InOrder
      <4> QED
        BY <1>4, <2>1, <4>1, <4>2 DEF InOrder
    <3> QED
      BY <3>1, <3>2
  <2>2. ASSUME NEW i \in 1..Len(t), NEW j \in 1..Len(t), i < j, Carries(t[i]), Carries(t[j])
        PROVE  t[i].number < t[j].number
    <3>1. i \in 1..Len(s) /\ t[i] = s[i]
      BY <1>1, <2>2
    <3>2. CASE j = Len(s) + 1
      <4>1. t[j] = f /\ f.number = n + 1
        BY <1>1, <2>2, <3>2
      <4>2. s[i].number <= n /\ s[i].number \in Nat
        BY <1>2, <1>3, <1>4, <2>2, <3>1 DEF InOrder
      <4> QED
        BY <3>1, <4>1, <4>2
    <3>3. CASE j # Len(s) + 1
      <4>1. j \in 1..Len(s) /\ t[j] = s[j]
        BY <1>1, <3>3
      <4> QED
        BY <1>4, <2>2, <3>1, <4>1 DEF InOrder
    <3> QED
      BY <3>2, <3>3
  <2> QED
    BY <2>1, <2>2 DEF InOrder
<1>6. ASSUME NEW i \in 1..(Len(s) + 1), Begun(s, i, pend, given)
      PROVE  Begun(t, i, pend, given)
  <2>1. \A k \in 1..(i - 1) : t[k] = s[k]
    BY <1>1
  <2>2. CASE \E j \in 1..(i - 1) : s[j].kind = "first" /\ \A k \in (j + 1)..(i - 1) : ~Carries(s[k])
    <3>1. PICK j \in 1..(i - 1) : s[j].kind = "first" /\ \A k \in (j + 1)..(i - 1) : ~Carries(s[k])
      BY <2>2
    <3>2. \A k \in (j + 1)..(i - 1) : k \in 1..(i - 1)
      BY <1>1
    <3> QED
      BY <2>1, <3>1, <3>2 DEF Begun
  <2>3. CASE ~ \E j \in 1..(i - 1) : s[j].kind = "first" /\ \A k \in (j + 1)..(i - 1) : ~Carries(s[k])
    BY <1>6, <2>1, <2>3 DEF Begun
  <2> QED
    BY <2>2, <2>3
<1>7. ASSUME NEW i \in 1..Len(t), t[i].kind = "last" PROVE Begun(t, i, pend, given)
  <2>1. CASE i = Len(s) + 1
    BY <1>1, <1>6, <1>7, <2>1 DEF InTurn
  <2>2. CASE i # Len(s) + 1
    <3>1. i \in 1..Len(s) /\ t[i] = s[i]
      BY <1>1, <2>2
    <3> QED
      BY <1>6, <1>7, <3>1, <1>1 DEF InTurn
  <2> QED
    BY <2>1, <2>2
<1>8. ASSUME still PROVE Begun(t, Len(t) + 1, pend, given)
  <2>1. CASE f.kind = "first"
    <3>1. t[Len(s) + 1].kind = "first" /\ Len(s) + 1 \in 1..((Len(t) + 1) - 1)
      BY <1>1, <2>1
    <3>2. \A k \in ((Len(s) + 1) + 1)..((Len(t) + 1) - 1) : FALSE
      BY <1>1
    <3> QED
      BY <3>1, <3>2 DEF Begun
  <2>2. CASE f.kind # "first"
    <3>1. middle /\ ~Carries(t[Len(s) + 1]) /\ (Len(t) + 1) - 1 = Len(s) + 1
      BY <1>1, <1>8, <2>2
    <3>2. Begun(t, Len(s) + 1, pend, given)
      BY <1>6, <1>1, <3>1 DEF InTurn
    <3>3. CASE \E j \in 1..((Len(s) + 1) - 1) :
                 t[j].kind = "first" /\ \A k \in (j + 1)..((Len(s) + 1) - 1) : ~Carries(t[k])
      <4>1. PICK j \in 1..((Len(s) + 1) - 1) :
                   t[j].kind = "first" /\ \A k \in (j + 1)..((Len(s) + 1) - 1) : ~Carries(t[k])
        BY <3>3
      <4>2. j \in 1..((Len(t) + 1) - 1)
        BY <1>1, <4>1
      <4>3. \A k \in (j + 1)..((Len(t) + 1) - 1) : k = Len(s) + 1 \/ k \in (j + 1)..((Len(s) + 1) - 1)
        BY <1>1
      <4> QED
        BY <3>1, <4>1, <4>2, <4>3 DEF Begun
    <3>4. CASE \A k \in 1..((Len(s) + 1) - 1) : ~Carries(t[k])
      <4>1. \A k \in 1..((Len(t) + 1) - 1) : k = Len(s) + 1 \/ k \in 1..((Len(s) + 1) - 1)
        BY <1>1
      <4>2. \A k \in 1..((Len(t) + 1) - 1) : ~Carries(t[k])
        BY <3>1, <3>4, <4>1
      <4> QED
        BY <3>2, <3>3, <4>2 DEF Begun
    <3> QED
      BY <3>2, <3>3, <3>4 DEF Begun
  <2> QED
    BY <2>1, <2>2
<1>9. /\ \A p \in 1..Len(pend) : pend[p].number <= m
      /\ given # <<>> => given[Len(given)].number <= m
  BY DEF InTurn
<1> QED
  BY <1>5, <1>7, <1>8, <1>9 DEF InTurn, t

\* What comes behind the first frame stays in turn when that is taken: if it is of
\* control and nobody looks at it (the headers), or if it is assembled and the script
\* perhaps given the message that is complete with it.
LEMMA TakenInTurn ==
  ASSUME NEW s \in Seq(Frames), NEW middle, NEW pend \in Seq(Frames), NEW given \in Seq(Frames),
         NEW n \in Nat, NEW pend2 \in Seq(Frames), NEW given2 \in Seq(Frames),
         InTurn(s, middle, pend, given, n), s # <<>>,
         \/ ~Carries(s[1]) /\ pend2 = pend /\ given2 = given
         \/ /\ s[1].kind \in {"text", "first", "last", "ping", "pong"}
            /\ pend2 = IF s[1].kind = "last" THEN Append(pend, s[1]) ELSE <<s[1]>>
            /\ given2 = given \/ (given2 = pend2 /\ s[1].kind \in {"text", "last"})
  PROVE  InTurn(Tail(s), middle, pend2, given2, n)
<1> DEFINE f == s[1]
           t == Tail(s)
           lead == ~Carries(f) /\ pend2 = pend /\ given2 = given
           new == given2 = pend2 /\ f.kind \in {"text", "last"}
<1>1. /\ Len(s) \in Nat \ {0} /\ Len(t) = Len(s) - 1 /\ Len(t) \in Nat
      /\ \A i \in 1..Len(t) : i + 1 \in 1..Len(s) /\ t[i] = s[i + 1]
  OBVIOUS
<1>2. f \in Frames /\ \A i \in 1..Len(s) : s[i] \in Frames
  BY <1>1
<1>3. \A g \in Frames : g.number \in Nat /\ (~Carries(g) => g.number = 0)
  BY BoundsAssumption DEF Frames, Numbers, Carries
<1>4. InOrder(s, pend, given, n)
  BY DEF InTurn
<1>5. /\ Len(pend) \in Nat /\ Len(given) \in Nat
      /\ \A p \in 1..Len(pend) : pend[p] \in Frames
      /\ given # <<>> => Len(given) \in 1..Len(given) /\ given[Len(given)] \in Frames
  OBVIOUS
<1>a. lead \/ given2 = given \/ new
  OBVIOUS
<1>b. ~lead => /\ f.kind \in {"text", "first", "last", "ping", "pong"}
               /\ pend2 = IF f.kind = "last" THEN Append(pend, f) ELSE <<f>>
  OBVIOUS
\* What is pending afterwards: what was, and the frame.
<1>7. \A p \in 1..Len(pend2) : pend2[p] = f \/ (p \in 1..Len(pend) /\ pend2[p] = pend[p])
  <2>1. CASE lead
    BY <2>1
  <2>2. CASE ~lead /\ f.kind = "last"
    <3>1. pend2 = Append(pend, f)
      BY <1>b, <2>2
    <3>2. Len(pend2) = Len(pend) + 1 /\ pend2[Len(pend) + 1] = f
      BY <1>2, <3>1
    <3>3. \A p \in 1..Len(pend) : pend2[p] = pend[p]
      BY <1>2, <3>1
    <3> QED
      BY <1>5, <3>2, <3>3
  <2>3. CASE ~lead /\ f.kind # "last"
    <3>1. Len(pend2) = 1 /\ pend2[1] = f
      BY <1>b, <2>3
    <3> QED
      BY <3>1
  <2> QED
    BY <2>1, <2>2, <2>3
\* The script was given the frame, or what it had.
<1>8. given2 = given \/ (given2 # <<>> /\ given2[Len(given2)] = f /\ Carries(f))
  <2>1. CASE new /\ ~lead
    <3>1. CASE f.kind = "last"
      <4>1. given2 = Append(pend, f)
        BY <1>b, <2>1, <3>1
      <4>2. Len(given2) = Len(pend) + 1 /\ given2[Len(pend) + 1] = f
        BY <1>2, <4>1
      <4> QED
        BY <1>5, <3>1, <4>2 DEF Carries
    <3>2. CASE f.kind # "last"
      <4>1. given2 = <<f>>
        BY <1>b, <2>1, <3>2
      <4> QED
        BY <2>1, <4>1 DEF Carries
    <3> QED
      BY <3>1, <3>2
  <2> QED
    BY <1>a, <2>1
<1> HIDE DEF f, t, lead, new
<1>9. \A i \in 2..Len(s) : Carries(s[i]) => f.number < s[i].number
  <2> SUFFICES ASSUME NEW i \in 2..Len(s), Carries(s[i]) PROVE f.number < s[i].number
    OBVIOUS
  <2>1. 1 \in 1..Len(s) /\ i \in 1..Len(s) /\ 1 < i /\ f = s[1]
    BY <1>1 DEF f
  <2>2. CASE Carries(f)
    BY <1>4, <2>1, <2>2 DEF InOrder
  <2>3. CASE ~Carries(f)
    <3>1. f.number = 0
      BY <1>2, <1>3, <2>3
    <3> QED
      BY <1>4, <2>1, <3>1 DEF InOrder
  <2> QED
    BY <2>2, <2>3
<1>10. f.number <= n
  <2>1. CASE Carries(f)
    <3>1. 1 \in 1..Len(s) /\ f = s[1]
      BY <1>1 DEF f
    <3> QED
      BY <1>4, <2>1, <3>1 DEF InOrder
  <2>2. CASE ~Carries(f)
    BY <1>2, <1>3, <2>2
  <2> QED
    BY <2>1, <2>2
<1>11. InOrder(t, pend2, given2, n)
  <2>1. ASSUME NEW i \in 1..Len(t), Carries(t[i])
        PROVE  /\ 0 < t[i].number /\ t[i].number <= n
               /\ \A p \in 1..Len(pend2) : pend2[p].number < t[i].number
               /\ given2 # <<>> => given2[Len(given2)].number < t[i].number
    <3>1. i + 1 \in 2..Len(s) /\ i + 1 \in 1..Len(s) /\ t[i] = s[i + 1]
      BY <1>1
    <3>2. f.number < t[i].number
      BY <1>9, <2>1, <3>1
    <3>3. /\ 0 < t[i].number /\ t[i].number <= n
          /\ \A p \in 1..Len(pend) : pend[p].number < t[i].number
          /\ given # <<>> => given[Len(given)].number < t[i].number
      BY <1>4, <2>1, <3>1 DEF InOrder
    <3> QED
      BY <1>7, <1>8, <3>2, <3>3
  <2>2. ASSUME NEW i \in 1..Len(t), NEW j \in 1..Len(t), i < j, Carries(t[i]), Carries(t[j])
        PROVE  t[i].number < t[j].number
    <3>1. /\ i + 1 \in 1..Len(s) /\ t[i] = s[i + 1] /\ j + 1 \in 1..Len(s) /\ t[j] = s[j + 1]
          /\ i + 1 < j + 1
      <4>1. /\ i + 1 \in 1..Len(s) /\ t[i] = s[i + 1]
            /\ j + 1 \in 1..Len(s) /\ t[j] = s[j + 1]
        BY <1>1, Zenon
      <4>2. i \in Int /\ j \in Int
        OBVIOUS
      <4> QED
        BY <2>2, <4>1, <4>2
    <3>2. \A a, b \in 1..Len(s) :
            a < b /\ Carries(s[a]) /\ Carries(s[b]) => s[a].number < s[b].number
      BY <1>4 DEF InOrder
    <3>3. Carries(s[i + 1]) /\ Carries(s[j + 1])
      BY <2>2, <3>1
    <3>4. s[i + 1].number < s[j + 1].number
      BY <3>1, <3>2, <3>3
    <3> QED
      BY <3>1, <3>4
  <2> QED
    BY <2>1, <2>2 DEF InOrder
<1>12. ASSUME NEW i \in 2..(Len(s) + 1), Begun(s, i, pend, given)
       PROVE  Begun(t, i - 1, pend2, given2)
  <2>1. /\ i - 1 \in Nat /\ (i - 1) - 1 \in Nat
        /\ \A k \in 1..((i - 1) - 1) : k + 1 \in 1..(i - 1) /\ t[k] = s[k + 1]
    <3>1. Len(s) \in Nat /\ Len(t) = Len(s) - 1 /\ \A k \in 1..Len(t) : t[k] = s[k + 1]
      BY <1>1
    <3>2. i \in Nat /\ 2 <= i /\ i <= Len(s) + 1
      BY <3>1
    <3>3. \A k \in 1..((i - 1) - 1) : k + 1 \in 1..(i - 1) /\ k \in 1..Len(t)
      BY <3>1, <3>2
    <3> QED
      BY <3>1, <3>2, <3>3
  <2>2. 1 \in 1..(i - 1) /\ s[1] = f
    BY DEF f
  <2>3. ASSUME NEW j \in 1..(i - 1), s[j].kind = "first",
               \A k \in (j + 1)..(i - 1) : ~Carries(s[k])
        PROVE  Begun(t, i - 1, pend2, given2)
    <3>1. CASE j = 1
      <4>1. f.kind = "first" /\ Carries(f)
        BY <2>2, <2>3, <3>1 DEF Carries
      <4>2. ~lead /\ ~new
        BY <4>1 DEF lead, new
      <4>3. pend2 = <<f>> /\ given2 = given
        BY <1>a, <1>b, <4>1, <4>2
      <4>4. given # <<>> => given[Len(given)].number < f.number
        <5>1. 1 \in 1..Len(s)
          BY <1>1
        <5> QED
          BY <1>4, <2>2, <4>1, <5>1 DEF InOrder
      <4>5. \A k \in 1..((i - 1) - 1) : ~Carries(t[k])
        <5>1. \A k \in 1..((i - 1) - 1) : k + 1 \in (j + 1)..(i - 1)
          BY <2>1, <3>1
        <5> QED
          BY <2>1, <2>3, <5>1
      <4>6. Len(pend2) = 1 /\ pend2[1] = f
        BY <4>3
      <4> QED
        BY <4>1, <4>3, <4>4, <4>5, <4>6 DEF Begun
    <3>2. CASE j # 1
      <4>0. j - 1 \in 1..((i - 1) - 1) /\ (j - 1) + 1 = j
        BY <3>2
      <4>1. j - 1 \in 1..((i - 1) - 1) /\ t[j - 1] = s[j]
        BY <2>1, <4>0
      <4>2. \A k \in ((j - 1) + 1)..((i - 1) - 1) : k + 1 \in (j + 1)..(i - 1) /\ t[k] = s[k + 1]
        BY <2>1, <3>2
      <4>3. \A k \in ((j - 1) + 1)..((i - 1) - 1) : ~Carries(t[k])
        BY <2>3, <4>2
      <4> QED
        BY <2>3, <4>1, <4>3 DEF Begun
    <3> QED
      BY <3>1, <3>2
  <2>4. CASE /\ \A k \in 1..(i - 1) : ~Carries(s[k])
             /\ Len(pend) = 1 /\ pend[1].kind \in {"first", "ping", "pong"}
             /\ pend[1].kind = "first" /\ given # <<>> => given[Len(given)].number < pend[1].number
    <3>1. ~Carries(f)
      BY <2>2, <2>4
    <3>2. \A k \in 1..((i - 1) - 1) : ~Carries(t[k])
      BY <2>1, <2>4
    <3>3. CASE lead
      BY <2>4, <3>2, <3>3 DEF Begun, lead
    <3>4. CASE ~lead
      <4>1. f.kind \in {"ping", "pong"}
        BY <1>b, <3>1, <3>4 DEF Carries
      <4>2. pend2 = <<f>>
        BY <1>b, <3>4, <4>1
      <4>3. Len(pend2) = 1 /\ pend2[1] = f
        BY <4>2
      <4> QED
        BY <3>2, <4>1, <4>3 DEF Begun
    <3> QED
      BY <3>3, <3>4
  <2> QED
    BY <1>12, <2>3, <2>4 DEF Begun
<1>13. ASSUME NEW i \in 1..Len(t), t[i].kind = "last" PROVE Begun(t, i, pend2, given2)
  <2>1. i + 1 \in 2..(Len(s) + 1) /\ i + 1 \in 1..Len(s) /\ t[i] = s[i + 1] /\ (i + 1) - 1 = i
    BY <1>1
  <2>2. Begun(s, i + 1, pend, given)
    BY <1>13, <2>1 DEF InTurn
  <2> QED
    BY <1>12, <2>1, <2>2
<1>14. ASSUME middle PROVE Begun(t, Len(t) + 1, pend2, given2)
  <2>1. Len(s) + 1 \in 2..(Len(s) + 1) /\ (Len(s) + 1) - 1 = Len(t) + 1
    BY <1>1
  <2>2. Begun(s, Len(s) + 1, pend, given)
    BY <1>14 DEF InTurn
  <2> QED
    BY <1>12, <2>1, <2>2
<1>15. \A p \in 1..Len(pend2) : pend2[p].number <= n
  <2>1. \A p \in 1..Len(pend) : pend[p].number <= n
    BY DEF InTurn
  <2> QED
    BY <1>7, <1>10, <2>1
<1>16. given2 # <<>> => given2[Len(given2)].number <= n
  BY <1>8, <1>10 DEF InTurn
<1>17. InTurn(t, middle, pend2, given2, n)
  BY <1>11, <1>13, <1>14, <1>15, <1>16 DEF InTurn
<1> QED
  BY <1>17 DEF t

\* Parts of a sequence that are put together again.
LEMMA Joined ==
  ASSUME NEW s \in Seq(Frames), NEW m \in 1..(Len(s) + 1), NEW n \in (m - 1)..Len(s)
  PROVE  SubSeq(s, m, n) \o SubSeq(s, n + 1, Len(s)) = SubSeq(s, m, Len(s))
<1>1. Len(s) \in n..Len(s)
  OBVIOUS
<1> QED
  BY <1>1, ConcatAdjacentSubSeq

\* The order of joining does not matter (m_received.append).
LEMMA Regrouped ==
  ASSUME NEW u \in Seq(Frames), NEW v \in Seq(Frames), NEW w \in Seq(Frames)
  PROVE  (u \o v) \o w = u \o (v \o w)
BY ConcatAssociative

\* Of a socket that is closed nothing is left.
Silent == net = "Disconnected" => wire = <<>> /\ peer = "quiet"

\* A step that closes the socket drops what was under way, and nothing is sent without it.
LEMMA SilentStep == ASSUME Inv, Silent, [Next]_vars PROVE Silent'
<1> USE DEF Silent, connectorVars, netVars, toldVars
<1>0. Down => Silent'
  BY DEF Down
<1>1. CASE Rest \/ Connect \/ CannotConnect \/ ConnectFailed \/ StillConnecting
  BY <1>1 DEF Rest, Connect, CannotConnect, ConnectFailed, StillConnecting
<1>2. CASE ShakeHands \/ SendUpgrade \/ ReadFails \/ ReadNothing \/ NoFrame \/ HandlerReturns
  BY <1>0, <1>2 DEF ShakeHands, SendUpgrade, ReadFails, ReadNothing, NoFrame, HandlerReturns
<1>3. CASE HeadersMissing \/ Upgraded \/ ReadFrames \/ Rejected
  BY <1>0, <1>3 DEF HeadersMissing, Upgraded, ReadFrames, Rejected, Closed, Take
<1>4. CASE BadFrame \/ Fragment \/ CloseFrame
  BY <1>0, <1>4 DEF BadFrame, Fragment, CloseFrame, StartClosing, Closed, Write
<1>5. CASE Control \/ Message
  BY <1>0, <1>5 DEF Control, Message, Write
<1>6. CASE TickOutputs \/ Shutdown
  BY <1>0, <1>6 DEF TickOutputs, Shutdown, StartClosing, Closed, Write
<1>7. CASE Script
  BY <1>0, <1>7 DEF Script, SetEnabled, SetTLS, SendMessage, Write
<1>8. CASE Network
  BY <1>0, <1>8 DEF Network, NetAnswers, PeerAnswers, PeerSends, PeerDrops
<1>9. CASE UNCHANGED vars
  BY <1>9 DEF vars
<1> QED
  BY <1>1, <1>2, <1>3, <1>4, <1>5, <1>6, <1>7, <1>8, <1>9 DEF Next, Tick, TickInputs

\* Every step keeps the frames in turn: what the peer sends comes behind the rest, a read
\* moves them, the loop takes the first, a connection that ends leaves those received.
LEMMA FlowStep == ASSUME TypeOK, TypeOK', Inv, Silent, Flow, [Next]_vars PROVE Flow'
<1> DEFINE line == received \o wire
           middle == peer = "split"
<1>1. /\ received \in Seq(Frames) /\ wire \in Seq(Frames) /\ pending \in Seq(Frames)
      /\ got \in Seq(Frames) /\ sent \in Nat
      /\ pending' \in Seq(Frames) /\ got' \in Seq(Frames)
  BY BoundsAssumption DEF TypeOK, Numbers
<1>2. InTurn(line, middle, pending, got, sent) /\ line \in Seq(Frames)
  BY <1>1, Zenon, ConcatProperties DEF Flow
<1>3. /\ \A p \in 1..Len(pending) : pending[p].number \in Nat
      /\ got # <<>> => got[Len(got)].number \in Nat
  <2>1. \A f \in Frames : f.number \in Nat
    BY BoundsAssumption DEF Frames, Numbers
  <2>2. \A p \in 1..Len(pending) : pending[p] \in Frames
    BY <1>1
  <2>3. got # <<>> => got[Len(got)] \in Frames
    BY <1>1
  <2> QED
    BY <2>1, <2>2, <2>3
\* The socket may close; then what was received is there.
<1>4. ASSUME Down, received' = received, pending' = pending, got' = got PROVE Flow'
  <2>1. InTurn(received, FALSE, pending, got, sent)
    BY <1>1, <1>2, RestLost
  <2>2. received \o <<>> = received
    BY <1>1
  <2>3. (received \o wire)' = received /\ ~(peer' = "split") /\ sent' = sent
    BY <1>4, <2>2 DEF Down
  <2> QED
    BY <1>4, <2>1, <2>3 DEF Flow
<1>5. ASSUME Closed, got' = got,
             \A p \in 1..Len(pending') : pending'[p].number <= sent
      PROVE  Flow'
  <2>1. got # <<>> => got[Len(got)].number <= sent
    BY <1>2 DEF InTurn
  <2>2. InTurn(<<>>, FALSE, pending', got, sent)
    BY <1>1, <1>5, <2>1, NothingInTurn
  <2>3. (received \o wire)' = <<>> /\ ~(peer' = "split") /\ sent' = sent
    BY <1>5 DEF Closed, Down
  <2> QED
    BY <1>5, <2>2, <2>3 DEF Flow
<1>6. \A p \in 1..Len(pending) : pending[p].number <= sent
  BY <1>2 DEF InTurn
\* Nothing is sent or received.
<1>7. ASSUME UNCHANGED <<received, wire, peer, pending, got, sent>> PROVE Flow'
  BY <1>7 DEF Flow
<1>8. ASSUME Write, received' = received, pending' = pending, got' = got PROVE Flow'
  BY <1>4, <1>7, <1>8 DEF Write, netVars
<1>9. CASE Rest \/ Connect \/ CannotConnect \/ ConnectFailed \/ StillConnecting
  BY <1>7, <1>9 DEF Rest, Connect, CannotConnect, ConnectFailed, StillConnecting, netVars, toldVars
<1>10. CASE ShakeHands \/ SendUpgrade
  <2>1. UNCHANGED <<received, pending, got>>
    BY <1>10 DEF ShakeHands, SendUpgrade, toldVars
  <2>2. CASE Down
    BY <1>4, <2>1, <2>2
  <2>3. CASE ~Down /\ ~(peer' = "asked")
    BY <1>7, <1>10, <2>1, <2>3 DEF ShakeHands, SendUpgrade, netVars
  <2>4. CASE ~Down /\ peer' = "asked"
    <3>1. UNCHANGED <<wire, sent>> /\ ~(peer' = "split")
      BY <1>10, <2>4 DEF ShakeHands, SendUpgrade, netVars
    <3> QED
      BY <2>1, <3>1 DEF Flow, InTurn
  <2> QED
    BY <2>2, <2>3, <2>4
<1>11. CASE ReadFails
  <2>1. UNCHANGED <<pending, got>> /\ received' = <<>>
    BY <1>11 DEF ReadFails
  <2>2. got # <<>> => got[Len(got)].number <= sent
    BY <1>2 DEF InTurn
  <2>3. wire' = <<>> /\ peer' = "quiet" /\ sent' = sent
    BY <1>11 DEF ReadFails, Down, Silent, netVars
  <2>4. InTurn(<<>>, FALSE, pending, got, sent)
    BY <1>1, <1>6, <2>2, NothingInTurn
  <2>5. (received \o wire)' = <<>> /\ ~(peer' = "split")
    BY <2>1, <2>3
  <2> QED
    BY <2>1, <2>3, <2>4, <2>5 DEF Flow
<1>12. CASE ReadNothing \/ NoFrame \/ HandlerReturns
  BY <1>7, <1>12 DEF ReadNothing, NoFrame, HandlerReturns, netVars, toldVars
<1>13. CASE HeadersMissing
  <2>1. wire' = SubSeq(wire, 0 + 1, Len(wire))
    BY <1>13 DEF HeadersMissing, Take
  <2>2. wire' = wire
    BY <1>1, <2>1
  <2> QED
    BY <1>7, <1>13, <2>2 DEF HeadersMissing, toldVars
\* A read moves the first k frames on the wire to the others.
<1>14. ASSUME NEW k \in 0..Len(wire)
       PROVE  SubSeq(wire, 1, k) \o SubSeq(wire, k + 1, Len(wire)) = wire
  <2>1. 1 \in 1..(Len(wire) + 1) /\ k \in (1 - 1)..Len(wire)
    BY <1>1
  <2>2. SubSeq(wire, 1, Len(wire)) = wire
    BY <1>1, SubSeqFull
  <2> QED
    BY <1>1, <2>1, <2>2, Joined
<1>15. CASE ReadFrames
  <2>1. PICK k \in 0..Len(wire) : Take(k) /\ received' = received \o SubSeq(wire, 1, k)
    BY <1>15 DEF ReadFrames
  <2>2. SubSeq(wire, 1, k) \in Seq(Frames) /\ SubSeq(wire, k + 1, Len(wire)) \in Seq(Frames)
    BY <1>1, PartOfFrames
  <2>3. (received \o SubSeq(wire, 1, k)) \o SubSeq(wire, k + 1, Len(wire))
          = received \o (SubSeq(wire, 1, k) \o SubSeq(wire, k + 1, Len(wire)))
    <3>1. PICK u \in Seq(Frames), v \in Seq(Frames) :
                 u = SubSeq(wire, 1, k) /\ v = SubSeq(wire, k + 1, Len(wire))
      BY <2>2
    <3>2. (received \o u) \o v = received \o (u \o v)
      <4>1. PICK r \in Seq(Frames) : r = received
        BY <1>1
      <4>2. (r \o u) \o v = r \o (u \o v)
        BY <3>1, Regrouped
      <4> QED
        BY <4>1, <4>2
    <3> QED
      BY <3>1, <3>2
  <2>4. (received \o wire)' = received \o wire
    BY <1>14, <2>1, <2>3 DEF Take
  <2>5. UNCHANGED <<peer, pending, got, sent>>
    BY <1>15 DEF ReadFrames, toldVars
  <2> QED
    BY <2>4, <2>5 DEF Flow
<1>16. CASE Upgraded
  <2>1. PICK k \in 1..Len(wire) : Take(k) /\ received' = SubSeq(wire, 2, k)
    BY <1>16 DEF Upgraded
  <2>2. received = <<>> /\ wire # <<>> /\ Head(wire).kind = "upgrade"
    BY <1>16 DEF Upgraded, Inv, NoStaleBytes
  <2>3. line = wire
    BY <1>1, <2>2
  <2>4. wire[1].kind = "upgrade"
    BY <1>1, <2>2
  <2>5. ~Carries(wire[1])
    BY <2>4 DEF Carries
  <2>6. InTurn(Tail(wire), middle, pending, got, sent)
    BY <1>1, <1>2, <2>2, <2>3, <2>5, TakenInTurn
  <2>7. (received \o wire)' = Tail(wire)
    <3>1. SubSeq(wire, 2, k) \o SubSeq(wire, k + 1, Len(wire)) = Tail(wire)
      <4>1. 2 \in 1..(Len(wire) + 1) /\ k \in (2 - 1)..Len(wire)
        BY <1>1, <2>2
      <4>2. Tail(wire) = SubSeq(wire, 2, Len(wire))
        BY <1>1, <2>2, TailIsSubSeq
      <4>3. SubSeq(wire, 2, k) \o SubSeq(wire, k + 1, Len(wire)) = SubSeq(wire, 2, Len(wire))
        BY <1>1, <4>1, Joined
      <4> QED
        BY <4>2, <4>3
    <3> QED
      BY <2>1, <3>1 DEF Take
  <2>8. UNCHANGED <<peer, pending, got, sent>>
    BY <1>16 DEF Upgraded
  <2> QED
    BY <2>6, <2>7, <2>8 DEF Flow
<1>17. CASE Rejected
  BY <1>5, <1>6, <1>17 DEF Rejected
<1>18. CASE BadFrame
  <2>1. UNCHANGED <<received, pending, got>>
    BY <1>18 DEF BadFrame
  <2> QED
    BY <1>7, <1>8, <1>18, <2>1 DEF BadFrame, StartClosing, netVars
<1>19. CASE TickOutputs
  <2>1. UNCHANGED <<received, pending, got>>
    BY <1>19 DEF TickOutputs
  <2> QED
    BY <1>7, <1>8, <1>19, <2>1 DEF TickOutputs, StartClosing, netVars
<1>20. CASE CloseFrame
  <2>1. received # <<>> /\ Frame = received[1] /\ Frame.kind = "close"
    BY <1>1, <1>20 DEF CloseFrame, Complete, Frame
  <2>2. pending' = <<Frame>> /\ Frame \in Frames
    BY <1>1, <1>20, <2>1 DEF CloseFrame, Assembled
  <2>3. Frame.number = 0
    BY <2>1, <2>2 DEF Frames
  <2>4. \A p \in 1..Len(pending') : pending'[p].number <= sent
    BY <1>1, <2>2, <2>3
  <2> QED
    BY <1>5, <1>20, <2>4 DEF CloseFrame
\* The loop takes the first frame.
<1>21. ASSUME Consume, Frame.kind \in {"text", "first", "last", "ping", "pong"},
              got' = got \/ (got' = Assembled /\ Frame.kind \in {"text", "last"})
       PROVE  InTurn(Tail(received) \o wire, middle, pending', got', sent)
  <2>1. received # <<>> /\ Frame = received[1]
    BY <1>1, <1>21 DEF Consume, Complete, Frame
  <2>2. line # <<>> /\ line[1] = received[1]
    BY <1>1, <2>1
  <2>3. Tail(line) = Tail(received) \o wire
    BY <1>1, <2>1
  <2>4. pending' = IF line[1].kind = "last" THEN Append(pending, line[1]) ELSE <<line[1]>>
    BY <1>21, <2>1, <2>2 DEF Consume, Assembled
  <2>5. got' = got \/ (got' = pending' /\ line[1].kind \in {"text", "last"})
    BY <1>21, <2>1, <2>2 DEF Consume
  <2>6. line[1].kind \in {"text", "first", "last", "ping", "pong"}
    BY <1>21, <2>1, <2>2
  <2> HIDE DEF line, middle
  <2>7. InTurn(Tail(line), middle, pending', got', sent)
    BY <1>1, <1>2, <2>2, <2>4, <2>5, <2>6, TakenInTurn
  <2> QED
    BY <2>3, <2>7
<1>22. ASSUME Consume, Frame.kind \in {"text", "first", "last", "ping", "pong"},
              got' = got \/ (got' = Assembled /\ Frame.kind \in {"text", "last"}),
              UNCHANGED netVars
       PROVE  Flow'
  <2>1. (received \o wire)' = Tail(received) \o wire /\ peer' = peer /\ sent' = sent
    BY <1>22 DEF Consume, netVars
  <2> QED
    BY <1>21, <1>22, <2>1 DEF Flow
<1>23. CASE Fragment
  <2>1. Consume /\ got' = got /\ UNCHANGED netVars
    BY <1>23 DEF Fragment, toldVars
  <2>2. Frame.kind \in {"text", "first", "last", "ping", "pong"}
    BY <1>23 DEF Fragment
  <2> QED
    BY <1>22, <2>1, <2>2, Zenon
<1>24. CASE Message
  <2>1. Frame.kind = "last" \/ Frame.kind = "text"
    <3>1. CASE Frame.kind # "last"
      BY <1>24, <3>1 DEF Message, Opcode, Assembled
    <3> QED
      BY <3>1
  <2>2. Consume /\ UNCHANGED netVars /\ (got' = got \/ got' = Assembled)
    BY <1>24 DEF Message
  <2> QED
    BY <1>22, <2>1, <2>2
<1>25. CASE Control
  <2>1. Frame.kind \in {"text", "first", "last", "ping", "pong"}
    <3>1. CASE Frame.kind # "last"
      BY <1>25, <3>1 DEF Control, Opcode, Assembled
    <3> QED
      BY <3>1
  <2>2. Consume /\ got' = got /\ (Write \/ UNCHANGED netVars)
    BY <1>25 DEF Control, toldVars
  <2>3. CASE UNCHANGED netVars
    BY <1>22, <2>1, <2>2, <2>3, Zenon
  <2>4. CASE Down
    <3>1. InTurn(Tail(received) \o wire, middle, pending', got', sent)
      BY <1>21, <2>1, <2>2, Zenon
    <3>2. Tail(received) \in Seq(Frames) /\ received' = Tail(received)
      BY <1>1, <2>2 DEF Consume, Complete
    <3>3. InTurn(Tail(received), FALSE, pending', got', sent)
      BY <1>1, <3>1, <3>2, RestLost
    <3>4. (received \o wire)' = Tail(received) /\ ~(peer' = "split") /\ sent' = sent
      BY <2>4, <3>2 DEF Down
    <3> QED
      BY <3>3, <3>4 DEF Flow
  <2> QED
    BY <2>2, <2>3, <2>4 DEF Write
<1>26. CASE Shutdown
  BY <1>5, <1>6, <1>26 DEF Shutdown
<1>27. CASE Script
  BY <1>7, <1>8, <1>27 DEF Script, SetEnabled, SetTLS, SendMessage, connectorVars, netVars, toldVars
<1>28. CASE NetAnswers
  BY <1>4, <1>7, <1>28 DEF NetAnswers, connectorVars, toldVars
<1>29. CASE PeerDrops
  BY <1>7, <1>29 DEF PeerDrops, connectorVars, toldVars
\* The peer sends frame f.
<1>30. ASSUME NEW f \in Frames, wire' = Append(wire, f),
              UNCHANGED <<received, pending, got>>, sent' \in {sent, sent + 1},
              Carries(f) => sent' = sent + 1 /\ f.number = sent',
              f.kind = "last" => peer = "split",
              peer' = "split" => f.kind = "first" \/ (peer = "split" /\ ~Carries(f))
       PROVE  Flow'
  <2>1. received \o Append(wire, f) = Append(line, f)
    BY <1>1
  <2> DEFINE still == peer' = "split"
  <2>2. /\ f.kind = "last" => middle
        /\ still => f.kind = "first" \/ (middle /\ ~Carries(f))
    BY <1>30
  <2>3. InTurn(line, middle, pending, got, sent)
    BY <1>2
  <2> HIDE DEF line, middle, still
  <2>4. InTurn(Append(line, f), still, pending, got, sent')
    BY <1>1, <1>2, <1>3, <1>30, <2>2, <2>3, SentInTurn
  <2> QED
    BY <1>30, <2>1, <2>4 DEF Flow, still
<1>31. CASE PeerAnswers
  <2>1. PICK f \in {Plain("upgrade"), Plain("junk")} : wire' = Append(wire, f)
    BY <1>31 DEF PeerAnswers
  <2>2. f \in Frames /\ f.kind \in {"upgrade", "junk"}
    BY <2>1, FrameTypes DEF Plain
  <2>3. ~Carries(f)
    BY <2>2 DEF Carries
  <2>4. UNCHANGED <<received, pending, got, sent>> /\ ~(peer' = "split")
    BY <1>31 DEF PeerAnswers, connectorVars, toldVars
  <2> QED
    BY <1>30, <2>1, <2>2, <2>3, <2>4
<1>32. CASE PeerSends
  <2>1. sent' = sent + 1 /\ sent' \in Numbers /\ UNCHANGED <<received, pending, got>>
    BY <1>1, <1>32, BoundsAssumption DEF PeerSends, connectorVars, toldVars, Numbers
  <2>2. ASSUME NEW kind \in {"ping", "pong", "close", "bad"}, wire' = Append(wire, Plain(kind)),
               peer' = peer \/ peer' = "done"
        PROVE  Flow'
    <3>1. Plain(kind) \in Frames /\ Plain(kind).kind = kind
      BY FrameTypes DEF Plain
    <3>2. ~Carries(Plain(kind))
      BY <3>1 DEF Carries
    <3> QED
      BY <1>30, <2>1, <2>2, <3>1, <3>2
  <2>3. ASSUME NEW kind \in {"text", "first", "last"},
               wire' = Append(wire, [kind |-> kind, number |-> sent']),
               kind = "last" => peer = "split", peer' = "split" => kind = "first"
        PROVE  Flow'
    <3> DEFINE f == [kind |-> kind, number |-> sent']
    <3>1. f \in Frames /\ f.kind = kind /\ f.number = sent'
      BY <2>1, FrameTypes
    <3> HIDE DEF f
    <3> QED
      BY <1>30, <2>1, <2>3, <3>1 DEF f
  <2> QED
    BY <1>32, <2>2, <2>3 DEF PeerSends
<1>33. CASE UNCHANGED vars
  BY <1>7, <1>33 DEF vars, connectorVars, netVars, toldVars
<1> QED
  BY <1>9, <1>10, <1>11, <1>12, <1>13, <1>15, <1>16, <1>17, <1>18, <1>19, <1>20, <1>23, <1>24,
     <1>25, <1>26, <1>27, <1>28, <1>29, <1>31, <1>32, <1>33
     DEF Next, Tick, TickInputs, Network

\* What is put to a sequence comes last.
LEMMA Appended ==
  ASSUME NEW w \in Seq(Frames), NEW f \in Frames
  PROVE  Len(Append(w, f)) = Len(w) + 1 /\ Append(w, f)[Len(w) + 1] = f /\
         \A i \in 1..Len(w) : Append(w, f)[i] = w[i]
OBVIOUS

\* What a step gives to on_message is a whole message, sent after the last one
\* that was given.
LEMMA MessageStep ==
  ASSUME TypeOK, Inv, Flow, [Next]_vars, calls' # calls \/ got' # got
  PROVE  /\ WholeMessages'
         /\ enabled /\ told = "connected"
         /\ got # <<>> => Head(got').number > got[Len(got)].number
<1>1. Message
  <2>1. CASE Tick \/ Shutdown
    BY <2>1 DEF Tick, TickInputs, TickOutputs, Shutdown, Rest, Connect, CannotConnect, ConnectFailed,
       StillConnecting, ShakeHands, SendUpgrade, ReadFails, ReadNothing, HeadersMissing, Upgraded,
       Rejected, ReadFrames, NoFrame, BadFrame, Fragment, CloseFrame, Control, HandlerReturns, toldVars
  <2>2. CASE Script \/ Network \/ UNCHANGED vars
    BY <2>2 DEF Script, SetEnabled, SetTLS, SendMessage, Network, NetAnswers, PeerAnswers, PeerSends,
       PeerDrops, vars, toldVars
  <2> QED
    BY <2>1, <2>2 DEF Next
<1>2. enabled /\ told = "connected"
  BY <1>1 DEF Message, Wanted, Consume, Complete, Inv, Looping, ScriptKnows
<1>3. /\ received \in Seq(Frames) /\ wire \in Seq(Frames) /\ pending \in Seq(Frames)
      /\ got \in Seq(Frames)
  BY DEF TypeOK
<1>4. received # <<>> /\ Frame = received[1] /\ Frame \in Frames /\ got' = Assembled
  BY <1>1, <1>3 DEF Message, Consume, Complete, Frame
<1> DEFINE line == received \o wire
<1>5. 1 \in 1..Len(line) /\ line[1] = Frame
  BY <1>3, <1>4
<1>6. InTurn(line, peer = "split", pending, got, sent)
  BY DEF Flow
<1>7. CASE Frame.kind = "last"
  <2>1. Begun(line, 1, pending, got)
    BY <1>5, <1>6, <1>7 DEF InTurn
  <2>2. Len(pending) = 1 /\ pending[1].kind \in {"first", "ping", "pong"}
    BY <2>1 DEF Begun
  <2>3. got' = Append(pending, Frame)
    BY <1>4, <1>7 DEF Assembled
  <2>4. /\ Len(got') = 2 /\ got'[1] = pending[1] /\ got'[2] = Frame /\ Head(got') = pending[1]
    <3>1. PICK w \in Seq(Frames) : w = pending
      BY <1>3
    <3>2. Len(w) = 1
      BY <2>2, <3>1
    <3>3. Len(Append(w, Frame)) = 2 /\ Append(w, Frame)[1] = w[1] /\ Append(w, Frame)[2] = Frame
      <4>1. 1 \in 1..Len(w)
        BY <3>2
      <4> QED
        <5>1. PICK g \in Frames : g = Frame
          BY <1>4
        <5>2. Len(Append(w, g)) = Len(w) + 1 /\ Append(w, g)[Len(w) + 1] = g /\ Append(w, g)[1] = w[1]
          BY <4>1, Appended
        <5>3. Len(w) + 1 = 2
          BY <3>2
        <5> QED
          BY <5>1, <5>2, <5>3
    <3> QED
      BY <2>3, <3>1, <3>3
  <2>5. pending[1].kind = "first"
    BY <1>1, <1>4, <2>2, <2>4 DEF Message, Opcode
  <2>6. got # <<>> => got[Len(got)].number < pending[1].number
    BY <2>1, <2>5 DEF Begun
  <2>7. WholeMessages'
    BY <1>7, <2>4, <2>5 DEF WholeMessages
  <2>8. got # <<>> => got[Len(got)] \in Frames /\ pending[1] \in Frames
    <3>1. PICK w \in Seq(Frames) : w = pending
      BY <1>3
    <3>2. 1 \in 1..Len(w)
      BY <2>2, <3>1
    <3>3. w[1] \in Frames
      BY <3>2
    <3>4. got # <<>> => got[Len(got)] \in Frames
      BY <1>3
    <3> QED
      BY <3>1, <3>3, <3>4
  <2>9. \A f \in Frames : f.number \in Nat
    BY BoundsAssumption DEF Frames, Numbers
  <2> QED
    BY <1>2, <2>4, <2>6, <2>7, <2>8, <2>9
<1>8. CASE Frame.kind # "last"
  <2>1. got' = <<Frame>>
    BY <1>4, <1>8 DEF Assembled
  <2>2. Frame.kind = "text" /\ Len(got') = 1 /\ Head(got') = Frame
    BY <1>1, <1>4, <2>1 DEF Message, Opcode
  <2>3. got # <<>> => got[Len(got)].number < Frame.number
    BY <1>5, <1>6, <2>2 DEF InTurn, InOrder, Carries
  <2>4. got # <<>> => got[Len(got)] \in Frames
    BY <1>3
  <2>5. \A f \in Frames : f.number \in Nat
    BY BoundsAssumption DEF Frames, Numbers
  <2>6. WholeMessages'
    BY <2>2 DEF WholeMessages
  <2> QED
    BY <1>2, <1>4, <2>2, <2>3, <2>4, <2>5, <2>6
<1> QED
  BY <1>7, <1>8

\* What peers send reaches the script in whole messages, in their order and each at
\* most once, while it wants them and takes the connection for up
\* (check_for_complete_frame, on_frame_received, m_pending_frame).
THEOREM MessagesWhole == Spec => MessagesIntact
<1>1. Init => Silent /\ Flow
  <2> SUFFICES ASSUME Init PROVE Silent /\ Flow
    OBVIOUS
  <2>1. InTurn(<<>>, FALSE, <<>>, <<>>, 0)
    BY DEF InTurn, InOrder
  <2>2. received \o wire = <<>> /\ ~(peer = "split") /\ pending = <<>> /\ got = <<>> /\ sent = 0
    BY DEF Init
  <2> QED
    BY <2>1, <2>2 DEF Init, Silent, Flow
<1>2. Spec => [](Silent /\ Flow)
  <2>1. Inv /\ Silent /\ [Next]_vars => Silent'
    BY SilentStep
  <2>2. TypeOK /\ TypeOK' /\ Inv /\ Silent /\ Flow /\ [Next]_vars => Flow'
    BY FlowStep
  <2> QED
    BY <1>1, <2>1, <2>2, Invariance, TypeCorrect, PTL DEF Spec
<1>3. TypeOK /\ Inv /\ Flow /\ [Next]_vars =>
        [calls' # calls \/ got' # got =>
           /\ WholeMessages'
           /\ enabled /\ told = "connected"
           /\ got # <<>> => Head(got').number > got[Len(got)].number]_vars
  BY MessageStep
<1> QED
  BY <1>2, <1>3, Invariance, TypeCorrect, PTL DEF Spec, MessagesIntact
==============================================================================
