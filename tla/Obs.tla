-------------------------------- MODULE Obs ---------------------------------
(***************************************************************************)
(* connector.obs.lua: a connector over a Websocket that identifies itself  *)
(* to OBS, gives up when that takes too long, and keeps a copy of what OBS *)
(* shows and does up to date by events, requests and their responses.      *)
(*                                                                         *)
(* A callback of the script that waits for a response suspends the handler *)
(* that called it: the handler goes on when the callback returns, and      *)
(* others run before that, even on another connection.  A callback at the  *)
(* end of a handler leaves nothing to do, and waits for all we know.       *)
(*                                                                         *)
(* The Websocket is a Link.  OBS answers its requests in order.            *)
(* Abstracted: the password, recording, which is like streaming, inputs,   *)
(* which nothing follows on, and how a callback waits, which is Promises.  *)
(***************************************************************************)
EXTENDS Naturals, Sequences

CONSTANTS
  Scenes,
  Limit,           \* ticks that the handshake may take (2000 ms)
  MaxShows,        \* bound on the changes in OBS
  MaxConnections,  \* bound on the connections
  MaxTurns,        \* bound on changes and connections together
  Handlers,        \* bound on the handlers that are suspended at once
  Nothing          \* nil

\* What an instance must satisfy.
ObsAssumption ==
  /\ Scenes # {} /\ Nothing \notin Scenes \cup Nat \cup BOOLEAN
  /\ Limit \in Nat /\ MaxShows \in Nat /\ MaxConnections \in Nat /\ MaxTurns \in Nat

VARIABLES
  pc,            \* what comes next: "inputs", "socket", its tick_inputs, "outputs", or "ended"
  enabled,       \* instance.enabled
  socketEnabled, \* instance.socket.enabled
  link,          \* the Websocket: "down", "trying", "up" or "closing"
  handshaking,   \* the ticks since instance.handshaking, or Nothing
  copy,          \* StreamActive, StreamStatus, Scene, and SceneItems by their scene
  obs,           \* external: what OBS does and shows
  inbox,         \* what we sent and OBS has not taken yet
  wire,          \* what OBS sent and we have not read
  greeted,       \* external: OBS sends events on this connection
  shows,         \* how often OBS has changed
  connections,   \* how many connections there were
  told,          \* history: what on_connect, on_connect_failed and on_disconnect said last
  learnt,        \* history: StreamActive was set on this connection
  waiting,       \* what is left of the handlers that are suspended, or Done
  setter         \* history: by when the handler came that set Scene last, and that asked for the items

Lk == INSTANCE Link WITH wanted <- socketEnabled

serverVars == <<obs, inbox, wire, greeted, shows, connections>>
handlerVars == <<waiting, setter>>
vars == <<pc, enabled, socketEnabled, link, handshaking, copy, serverVars, told, learnt, handlerVars>>

Say(kind, value) == [kind |-> kind, value |-> value]
Requests  == [kind : {"identify", "stream", "scenes"}, value : {Nothing}] \cup [kind : {"items"}, value : Scenes]
Responses == [kind : {"scenes", "items", "switched"}, value : Scenes] \cup
             [kind : {"hello", "identified", "failed"}, value : {Nothing}] \cup
             [kind : {"stream", "streaming"}, value : BOOLEAN]

\* What is left of a handler.  It is late once a newer message about the same has been
\* read, or its connection lost.
Left(step, value, when) == [step |-> step, value |-> value, when |-> when]
Whens == {"timely", "late"}
Done  == Left("none", Nothing, "timely")
Lefts == [step : {"scene", "items"}, value : Scenes, when : Whens] \cup
         [step : {"active"}, value : BOOLEAN, when : Whens] \cup {Done, Left("stream", Nothing, "timely")}

TypeOK ==
  /\ pc \in {"inputs", "socket", "outputs", "ended"} /\ enabled \in BOOLEAN /\ socketEnabled \in BOOLEAN
  /\ link \in {"down", "trying", "up", "closing"} /\ handshaking \in {Nothing} \cup 0..Limit + 1
  /\ copy \in [active : BOOLEAN \cup {Nothing}, status : BOOLEAN \cup {Nothing},
               scene : Scenes \cup {Nothing}, items : Scenes \cup {Nothing}]
  /\ obs \in [streaming : BOOLEAN, scene : Scenes] /\ greeted \in BOOLEAN
  /\ inbox \in Seq(Requests) /\ wire \in Seq(Responses)
  /\ shows \in 0..MaxShows /\ connections \in 0..MaxConnections
  /\ told \in {"nothing", "failed", "connected", "disconnected"} /\ learnt \in BOOLEAN
  /\ waiting \in [Handlers -> Lefts] /\ setter \in [scene : Whens, items : Whens]

Init ==
  /\ pc = "inputs" /\ enabled = TRUE /\ socketEnabled = TRUE /\ link = "down" /\ handshaking = Nothing
  /\ copy = [active |-> Nothing, status |-> Nothing, scene |-> Nothing, items |-> Nothing]
  /\ obs = [streaming |-> FALSE, scene |-> CHOOSE s \in Scenes : TRUE]
  /\ inbox = <<>> /\ wire = <<>> /\ greeted = FALSE /\ shows = 0 /\ connections = 0
  /\ told = "nothing" /\ learnt = FALSE
  /\ waiting = [h \in Handlers |-> Done] /\ setter = [scene |-> "timely", items |-> "timely"]

-----------------------------------------------------------------------------
(* OBS.                                                                    *)

\* What the answer to a request says.  A scene that is not shown may be gone.
Answers(request) ==
  CASE request.kind = "identify" -> {Say("identified", Nothing)}
    [] request.kind = "stream"   -> {Say("stream", obs.streaming)}
    [] request.kind = "scenes"   -> {Say("scenes", obs.scene)}
    [] request.kind = "items"    -> {Say("items", request.value)} \cup
                                    {Say("failed", Nothing) : s \in {obs.scene} \ {request.value}}

\* Who has not been identified is not answered.
Answer ==
  /\ link = "up" /\ inbox # <<>> /\ inbox' = Tail(inbox)
  /\ greeted' = (greeted \/ Head(inbox).kind = "identify")
  /\ IF greeted' THEN \E answer \in Answers(Head(inbox)) : wire' = Append(wire, answer) ELSE UNCHANGED wire
  /\ UNCHANGED <<pc, enabled, socketEnabled, link, handshaking, copy, obs, shows, connections, told, learnt,
                handlerVars>>

Event(event) == wire' = IF greeted /\ link = "up" THEN Append(wire, event) ELSE wire

\* Somebody uses OBS, or a request of ours does.
Change ==
  /\ shows < MaxShows /\ shows + connections < MaxTurns /\ shows' = shows + 1
  /\ \/ obs' = [obs EXCEPT !.streaming = ~@] /\ Event(Say("streaming", ~obs.streaming))
     \/ \E s \in Scenes \ {obs.scene} : obs' = [obs EXCEPT !.scene = s] /\ Event(Say("switched", s))
  /\ UNCHANGED <<pc, enabled, socketEnabled, link, handshaking, copy, inbox, greeted, connections, told, learnt,
                handlerVars>>

-----------------------------------------------------------------------------
(* The events of the socket.                                               *)

\* What is left of the handlers, some of it late from now on.
Overtaken(steps) ==
  [h \in Handlers |-> IF waiting[h].step \in steps THEN [waiting[h] EXCEPT !.when = "late"] ELSE waiting[h]]

\* What was under way is lost; who waits for an answer waits until the time is over.
Lost ==
  /\ inbox' = <<>> /\ wire' = <<>> /\ greeted' = FALSE
  /\ waiting' = Overtaken({"scene", "items", "active"})
  /\ UNCHANGED <<obs, shows, connections, setter>>

Try ==
  /\ pc = "socket" /\ Lk!Try
  /\ UNCHANGED <<pc, enabled, socketEnabled, handshaking, copy, serverVars, told, learnt, handlerVars>>

\* Without a TLS library no connection is tried, with TLS or without; the next
\* tick_inputs asks for one again.
Refused ==
  /\ pc = "socket" /\ Lk!Refused
  /\ told' = "failed"
  /\ UNCHANGED <<pc, enabled, handshaking, copy, serverVars, learnt, handlerVars>>

OnConnectFailed ==
  /\ pc = "socket" /\ Lk!OnConnectFailed
  /\ told' = "failed"
  /\ UNCHANGED <<pc, enabled, socketEnabled, handshaking, copy, serverVars, learnt, handlerVars>>

\* The connection is there, with our protocol or another, and even if it is not
\* wanted any more.
OnConnect ==
  /\ pc = "socket" /\ Lk!OnConnect /\ connections < MaxConnections /\ shows + connections < MaxTurns
  /\ wire' = <<Say("hello", Nothing)>> /\ connections' = connections + 1
  /\ learnt' = FALSE
  /\ \/ handshaking' = 0 /\ told' = "nothing" /\ UNCHANGED socketEnabled
     \/ socketEnabled' = FALSE /\ told' = "failed" /\ UNCHANGED handshaking
  /\ UNCHANGED <<pc, enabled, copy, obs, inbox, greeted, shows, handlerVars>>

OnDisconnect ==
  /\ pc = "socket" /\ Lk!OnDisconnect /\ Lost
  /\ handshaking' = Nothing /\ told' = "disconnected"
  /\ UNCHANGED <<pc, enabled, socketEnabled, copy, learnt>>

Closed ==
  /\ pc = "socket" /\ Lk!Closed
  /\ UNCHANGED <<pc, enabled, socketEnabled, handshaking, copy, serverVars, told, learnt, handlerVars>>

\* on_message gets the next message.
Handle(kind) ==
  /\ pc = "socket" /\ link = "up" /\ socketEnabled /\ wire # <<>> /\ Head(wire).kind = kind
  /\ wire' = Tail(wire)
  /\ UNCHANGED <<pc, enabled, socketEnabled, link, obs, greeted, shows, connections>>

Value == Head(wire).value

\* What is sent without a connection does not arrive.
Send(asked) == inbox' = IF link = "up" THEN inbox \o asked ELSE inbox

\* A handler sends requests and is done, or is suspended, apart from the others.
Ends(others, asked) == waiting' = others /\ Send(asked)
Waits(others, left) ==
  /\ \E h \in Handlers : others[h] = Done /\ waiting' = [others EXCEPT ![h] = left]
  /\ UNCHANGED inbox

\* Without the password that is asked for the handler fails.
Hello ==
  /\ Handle("hello")
  /\ Ends(waiting, <<Say("identify", Nothing)>>) \/ Ends(waiting, <<>>)
  /\ UNCHANGED <<handshaking, copy, told, learnt, setter>>

Identified ==
  /\ Handle("identified")
  /\ handshaking' = Nothing /\ told' = "connected"
  /\ Ends(waiting, <<Say("stream", Nothing), Say("scenes", Nothing)>>)
  /\ UNCHANGED <<copy, learnt, setter>>

\* A callback is called for a value that has changed.
StreamStateChanged ==
  /\ Handle("streaming")
  /\ copy' = [copy EXCEPT !.active = Value] /\ learnt' = TRUE
  /\ \/ Ends(waiting, <<Say("stream", Nothing)>>)
     \/ copy.active # Value /\ Waits(waiting, Left("stream", Nothing, "timely"))
  /\ UNCHANGED <<handshaking, told, setter>>

\* StreamActive is set only the first time, after the callback for StreamStatus.
StreamStatus ==
  /\ Handle("stream")
  /\ \/ /\ copy' = [copy EXCEPT !.status = Value, !.active = IF @ = Nothing THEN Value ELSE @]
        /\ learnt' = (learnt \/ copy.active = Nothing)
        /\ Ends(waiting, <<>>)
     \/ /\ copy.active = Nothing /\ Waits(waiting, Left("active", Value, "timely"))
        /\ copy' = [copy EXCEPT !.status = Value] /\ UNCHANGED learnt
  /\ UNCHANGED <<handshaking, told, setter>>

\* The scene is set, and its items are asked for after the callback.
AskItems(others, s)       == Ends(others, <<Say("items", s)>>)
SetScene(others, s, when) ==
  /\ copy' = [copy EXCEPT !.scene = s]
  /\ \/ AskItems(others, s) /\ setter' = [scene |-> when, items |-> when]
     \/ /\ copy.scene # s /\ Waits(others, Left("items", s, when))
        /\ setter' = [setter EXCEPT !.scene = when]

\* The handlers of older messages about the scene.
Overtaking == Overtaken({"scene", "items"})

\* Mutant of SceneChanged: the items are left as they are.
SceneChangedOnly ==
  /\ Handle("switched")
  /\ copy' = [copy EXCEPT !.scene = Value] /\ Ends(Overtaking, <<>>)
  /\ setter' = [scene |-> "timely", items |-> "timely"]
  /\ UNCHANGED <<handshaking, told, learnt>>

SceneChanged ==
  /\ Handle("switched")
  /\ SetScene(Overtaking, Value, "timely")
  /\ UNCHANGED <<handshaking, told, learnt>>

\* Scenes, a new table, always changes: its callback comes before the scene is set.
SceneList ==
  /\ Handle("scenes")
  /\ \/ SetScene(Overtaking, Value, "timely")
     \/ Waits(Overtaking, Left("scene", Value, "timely")) /\ UNCHANGED <<copy, setter>>
  /\ UNCHANGED <<handshaking, told, learnt>>

\* The response does not say which scene the items are of.
SceneItemList ==
  /\ Handle("items")
  /\ copy' = [copy EXCEPT !.items = Value] /\ Ends(waiting, <<>>)
  /\ UNCHANGED <<handshaking, told, learnt, setter>>

Failed == Handle("failed") /\ Ends(waiting, <<>>) /\ UNCHANGED <<handshaking, copy, told, learnt, setter>>

-----------------------------------------------------------------------------
(* Callbacks return, in any order and whatever became of the connection.   *)

Without(h) == [waiting EXCEPT ![h] = Done]

Returns(h, step) ==
  /\ pc # "ended" /\ waiting[h].step = step
  /\ UNCHANGED <<pc, enabled, socketEnabled, link, handshaking, obs, wire, greeted, shows, connections, told>>

ThenScene(h) ==
  /\ Returns(h, "scene") /\ SetScene(Without(h), waiting[h].value, waiting[h].when)
  /\ UNCHANGED learnt

ThenItems(h) ==
  /\ Returns(h, "items") /\ AskItems(Without(h), waiting[h].value)
  /\ setter' = [setter EXCEPT !.items = waiting[h].when]
  /\ UNCHANGED <<copy, learnt>>

ThenStream(h) ==
  /\ Returns(h, "stream") /\ Ends(Without(h), <<Say("stream", Nothing)>>)
  /\ UNCHANGED <<copy, learnt, setter>>

ThenActive(h) ==
  /\ Returns(h, "active") /\ Ends(Without(h), <<>>)
  /\ copy' = [copy EXCEPT !.active = IF @ = Nothing THEN waiting[h].value ELSE @]
  /\ learnt' = (learnt \/ (copy.active = Nothing /\ waiting[h].when = "timely"))
  /\ UNCHANGED setter

-----------------------------------------------------------------------------
(* Ticks.                                                                  *)

SetEnabled ==
  /\ pc = "inputs" /\ enabled' = ~enabled
  /\ UNCHANGED <<pc, socketEnabled, link, handshaking, copy, serverVars, told, learnt, handlerVars>>

TickInputs ==
  /\ pc = "inputs" /\ pc' = "socket"
  /\ socketEnabled' = enabled
  /\ UNCHANGED <<enabled, link, handshaking, copy, serverVars, told, learnt, handlerVars>>

TimedOut == handshaking # Nothing /\ handshaking > Limit

GiveUp == handshaking' = Nothing /\ told' = "failed" /\ socketEnabled' = FALSE

\* The end of tick_inputs.
Watch ==
  /\ pc = "socket" /\ pc' = "outputs"
  /\ IF TimedOut THEN GiveUp ELSE UNCHANGED <<handshaking, told, socketEnabled>>
  /\ UNCHANGED <<enabled, link, copy, serverVars, learnt, handlerVars>>

Older == IF handshaking = Nothing \/ handshaking > Limit THEN handshaking ELSE handshaking + 1

\* The socket's tick_outputs closes what is not enabled; then time goes by.
TickOutputs ==
  /\ pc = "outputs" /\ pc' = "inputs"
  /\ IF link = "up" /\ ~socketEnabled
       THEN Lk!Disabled /\ handshaking' = Nothing /\ told' = "disconnected" /\ Lost
       ELSE handshaking' = Older /\ UNCHANGED <<link, told, serverVars, handlerVars>>
  /\ UNCHANGED <<enabled, socketEnabled, copy, learnt>>

Shutdown ==
  /\ pc = "inputs" /\ pc' = "ended"
  /\ Lk!Stopped /\ Lost
  /\ UNCHANGED <<enabled, handshaking, copy, told, learnt>>

Tick      == TickInputs \/ Watch \/ TickOutputs
OnMessage ==
  Hello \/ Identified \/ StreamStateChanged \/ SceneChanged \/ StreamStatus \/ SceneList \/ SceneItemList \/ Failed
Goes(h)   == ThenScene(h) \/ ThenItems(h) \/ ThenStream(h) \/ ThenActive(h)
Socket    == Try \/ Refused \/ OnConnectFailed \/ OnConnect \/ OnDisconnect \/ Closed \/ OnMessage
Next ==
  \/ Tick \/ Shutdown \/ Socket \/ SetEnabled \/ Answer \/ Change
  \/ \E h \in Handlers : Goes(h)

Spec == Init /\ [][Next]_vars /\ WF_vars(Tick)

-----------------------------------------------------------------------------
\* The script is told that OBS is there only while the connection is up, and while
\* the handshake is timed there is a connection to close.
ConnectedIsUp ==
  pc # "ended" =>
    /\ told = "connected" => link = "up"
    /\ handshaking # Nothing => link = "up" /\ told = "nothing"

Quiet ==
  /\ pc # "ended" /\ told = "connected" /\ inbox = <<>> /\ wire = <<>>
  /\ \A h \in Handlers : waiting[h] = Done

\* Once everything sent on a connection has been answered and read, and every callback
\* has returned, the copy agrees with OBS, whatever came in between and however often
\* the connection was lost.  Of the scene, and of the items of that very scene, this
\* holds if the handler of the newest message about it was the last to set it, and to
\* ask for them: one that is late overwrites what is newer, and so it stays.
\* StreamActive agrees if it was set on this connection: the first one sets it, or an
\* event.
CopyAgrees ==
  Quiet =>
    /\ copy.status = obs.streaming
    /\ setter.scene = "timely" => copy.scene = obs.scene
    /\ setter.items = "timely" => copy.items = obs.scene
    /\ copy.active # Nothing /\ (learnt => copy.active = obs.streaming)

ObsHolds == ConnectedIsUp /\ CopyAgrees

\* A connection is identified or given up: it does not stay open in between.
HandshakeEnds == link = "up" /\ told # "connected" ~> link # "up" \/ told = "connected"
=============================================================================
