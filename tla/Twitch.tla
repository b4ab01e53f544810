------------------------------- MODULE Twitch -------------------------------
(***************************************************************************)
(* The Twitch connector of connector.twitch.lua: a state machine that is   *)
(* moved by its own ticks, by the events of a Websocket and by coroutines  *)
(* that wait for answers, while the script may disable it and enable it    *)
(* again at any time.                                                      *)
(*                                                                         *)
(* A turn of the loop is TickInputs, in which the Websocket may come       *)
(* before or after the connector, the coroutines whose promise was         *)
(* fulfilled or timed out, and TickOutputs.  The Websocket is a Link; it   *)
(* is never refused, for without TLS no token is found valid.  Abstracted: *)
(* what is subscribed to, notifications, and the OAuth2 connector, of      *)
(* which wait() gives a token or nothing.                                  *)
(***************************************************************************)
EXTENDS Naturals

CONSTANTS
  Runs,            \* coroutines
  Tokens,
  NoToken,         \* the empty token
  MaxSwitches,     \* bound: how often the script disables or enables
  MaxConnections,  \* bound on the connections
  Nothing

\* What an instance must satisfy.
TwitchAssumption ==
  /\ Nothing \notin Tokens \cup {NoToken} /\ NoToken \notin Tokens
  /\ MaxSwitches \in Nat /\ MaxConnections \in Nat

VARIABLES
  pc,          \* "inputs", before the connector's tick_inputs, or "middle", after it
  on,          \* enabled
  state,       \* _internal_state
  run,         \* of each coroutine: what it waits for, and with which token
  header,      \* the token in the headers of _api
  secret,      \* the token that is stored
  wsEnabled,   \* _ws.enabled
  ws,          \* _ws: "down", "trying", "up" or "closing"
  welcomed,    \* the server has sent its session_welcome on this connection
  connections, \* how many connections there were
  switches,    \* how often the script has set enabled
  checked,     \* history: the tokens that were found to be valid
  died,        \* history: a coroutine has failed, because wait() gave nil
  hasty        \* history: it was enabled again before everything had come to rest

Lk == INSTANCE Link WITH link <- ws, wanted <- wsEnabled

wsVars == <<wsEnabled, ws, welcomed, connections>>
vars == <<pc, on, state, run, header, secret, wsVars, switches, checked, died, hasty>>

Idle == [at |-> "idle", token |-> Nothing]
At(where, token) == [at |-> where, token |-> token]

States == {"inactive", "awaiting", "getting", "validating", "connecting", "subscribing", "active"}

TypeOK ==
  /\ pc \in {"inputs", "middle"} /\ on \in BOOLEAN /\ state \in States
  /\ run \in [Runs -> [at : {"idle", "stored", "asking", "granted", "subscribing"},
                       token : Tokens \cup {NoToken, Nothing}]]
  /\ header \in Tokens \cup {Nothing} /\ secret \in Tokens \cup {NoToken, Nothing}
  /\ wsEnabled \in BOOLEAN /\ ws \in {"down", "trying", "up", "closing"} /\ welcomed \in BOOLEAN
  /\ connections \in 0..MaxConnections /\ switches \in 0..MaxSwitches
  /\ checked \subseteq Tokens /\ died \in BOOLEAN /\ hasty \in BOOLEAN

Init ==
  /\ pc = "inputs" /\ on = TRUE /\ state = "inactive"
  /\ run = [c \in Runs |-> Idle] /\ header = Nothing /\ secret \in Tokens \cup {Nothing}
  /\ wsEnabled = FALSE /\ ws = "down" /\ welcomed = FALSE /\ connections = 0
  /\ switches = 0 /\ checked = {} /\ died = FALSE /\ hasty = FALSE

-----------------------------------------------------------------------------

\* Coroutines are made as they are needed.
Started(where, token) ==
  LET free == {c \in Runs : run[c] = Idle} IN
  free # {} /\ run' = [run EXCEPT ![CHOOSE c \in free : TRUE] = At(where, token)]

\* _do_connect up to its first wait
Connect ==
  IF secret = Nothing THEN state' = "getting" /\ Started("asking", Nothing)
                      ELSE state' = "validating" /\ Started("stored", secret)

\* Mutant of TickInputs: the websocket is left enabled.
TickInputsOpen ==
  /\ pc = "inputs" /\ pc' = "middle"
  /\ IF on THEN IF state = "inactive" THEN Connect ELSE UNCHANGED <<state, run>>
           ELSE state' = "inactive" /\ UNCHANGED run
  /\ UNCHANGED <<on, header, secret, wsVars, switches, checked, died, hasty>>

TickInputs ==
  /\ pc = "inputs" /\ pc' = "middle"
  /\ \/ ~on /\ wsEnabled' = FALSE /\ state' = "inactive" /\ UNCHANGED run
     \/ on /\ state = "inactive" /\ Connect /\ UNCHANGED wsEnabled
     \/ on /\ state # "inactive" /\ UNCHANGED <<wsEnabled, state, run>>
  /\ UNCHANGED <<on, header, secret, ws, welcomed, connections, switches, checked, died, hasty>>

-----------------------------------------------------------------------------
(* What a coroutine does when it is resumed.                               *)

Goes(c, where, token) == run' = [run EXCEPT ![c] = At(where, token)]
Ends(c)               == run' = [run EXCEPT ![c] = Idle]

\* The end of _do_connect.
Finish(token) ==
  /\ header' = token /\ state' = "connecting" /\ wsEnabled' = TRUE
  /\ UNCHANGED on

GiveUp(c) ==
  /\ Ends(c) /\ state' = "inactive" /\ on' = FALSE
  /\ UNCHANGED <<header, secret, wsEnabled, checked, died>>

\* wait() gives nil, and looking into it fails.
Dies(c) ==
  /\ run[c].at \in {"stored", "granted", "subscribing"}
  /\ Ends(c) /\ died' = TRUE
  /\ UNCHANGED <<on, state, header, secret, wsEnabled, checked>>

StoredIsValid(c) ==
  /\ run[c].at = "stored" /\ run[c].token # NoToken
  /\ checked' = checked \cup {run[c].token} /\ Finish(run[c].token) /\ Ends(c)
  /\ UNCHANGED <<secret, died>>

\* The stored token is refused, or could not be looked at: it is forgotten, and
\* the user asked for another one.
StoredIsRefused(c) ==
  /\ run[c].at = "stored"
  /\ secret' = NoToken /\ state' = "getting" /\ Goes(c, "asking", Nothing)
  /\ UNCHANGED <<on, header, wsEnabled, checked, died>>

Granted(c) ==
  /\ run[c].at = "asking"
  /\ state' = "validating" /\ \E t \in Tokens : Goes(c, "granted", t)
  /\ UNCHANGED <<on, header, secret, wsEnabled, checked, died>>

GrantedIsValid(c) ==
  /\ run[c].at = "granted"
  /\ checked' = checked \cup {run[c].token} /\ secret' = run[c].token
  /\ Finish(run[c].token) /\ Ends(c)
  /\ UNCHANGED died

\* The user did not answer, or with what is no use.
Refused(c) == run[c].at \in {"asking", "granted"} /\ GiveUp(c)

\* The last subscription was answered, with success or not.
Subscribed(c) ==
  /\ run[c].at = "subscribing"
  /\ Ends(c) /\ state' = "active"
  /\ UNCHANGED <<on, header, secret, wsEnabled, checked, died>>

Resume(c) ==
  /\ pc = "middle"
  /\ \/ Dies(c) \/ StoredIsValid(c) \/ StoredIsRefused(c)
     \/ Granted(c) \/ GrantedIsValid(c) \/ Refused(c) \/ Subscribed(c)
  /\ UNCHANGED <<pc, ws, welcomed, connections, switches, hasty>>

-----------------------------------------------------------------------------
(* The websocket, and the script.                                          *)

Quietly == UNCHANGED <<pc, on, header, secret, wsEnabled, switches, checked, died, hasty>>

Try ==
  /\ Lk!Try
  /\ Quietly /\ UNCHANGED <<state, run, welcomed, connections>>

\* _ws.on_connect
OnConnect ==
  /\ Lk!OnConnect /\ connections < MaxConnections
  /\ connections' = connections + 1
  /\ state' = "awaiting" /\ welcomed' = FALSE
  /\ Quietly /\ UNCHANGED run

\* Nobody listens to on_connect_failed.
Fails ==
  /\ Lk!OnConnectFailed \/ Lk!Closed
  /\ Quietly /\ UNCHANGED <<state, run, welcomed, connections>>

\* _ws.on_message with the session_welcome: the coroutine of the handler waits for
\* its subscriptions, if there are any.
Welcome ==
  /\ ws = "up" /\ wsEnabled /\ ~welcomed /\ welcomed' = TRUE
  /\ \/ state' = "subscribing" /\ Started("subscribing", Nothing)
     \/ state' = "active" /\ UNCHANGED run
  /\ Quietly /\ UNCHANGED <<ws, connections>>

\* _ws.on_disconnect
Disconnected == state' = IF on THEN "connecting" ELSE "inactive"

OnDisconnect ==
  /\ Lk!OnDisconnect /\ Disconnected
  /\ Quietly /\ UNCHANGED <<run, welcomed, connections>>

\* The websocket's tick_outputs.
TickOutputs ==
  /\ pc = "middle" /\ pc' = "inputs"
  /\ IF ws = "up" /\ ~wsEnabled THEN Lk!Disabled /\ Disconnected ELSE UNCHANGED <<ws, state>>
  /\ UNCHANGED <<on, run, header, secret, wsEnabled, welcomed, connections, switches, checked, died, hasty>>

AtRest == state = "inactive" /\ ~wsEnabled /\ ws = "down" /\ \A c \in Runs : run[c] = Idle

Switch ==
  /\ switches < MaxSwitches /\ switches' = switches + 1
  /\ on' = ~on /\ hasty' = (hasty \/ (~on /\ ~AtRest))
  /\ UNCHANGED <<pc, state, run, header, secret, wsVars, checked, died>>

Turn    == TickInputs \/ TickOutputs
Events  == Try \/ OnConnect \/ Fails \/ Welcome \/ OnDisconnect
Resumes == \E c \in Runs : Resume(c)
Next    == Turn \/ Events \/ Switch \/ Resumes

\* Turns follow each other, and while coroutines wait one of them is resumed in the
\* end: every promise is fulfilled or times out (EveryWaiterWakes of Promises).
Spec == Init /\ [][Next]_vars /\ WF_vars(Turn) /\ SF_vars(Resumes)

-----------------------------------------------------------------------------
\* The websocket is enabled only with a token in the headers of the requests, and
\* no token gets there that was not found valid.
TokensChecked == (wsEnabled => header # Nothing) /\ header \in checked \cup {Nothing}

Connecting(c) == run[c].at \in {"stored", "asking", "granted"}
Working == {"validating", "getting"}

\* The state is never that of a coroutine that is no more: one _do_connect runs at a
\* time, and only while the state says so, a connector that says it subscribes does,
\* and one that is enabled and neither inactive nor connecting keeps its websocket
\* enabled.  This is so as long as no wait() gave nil, and the connector was not
\* enabled again before it had come to rest.
OneConnects ==
  ~died /\ ~hasty =>
    /\ \A c, d \in Runs : Connecting(c) /\ Connecting(d) => c = d
    /\ on => (state \in Working <=> \E c \in Runs : Connecting(c))
    /\ state = "subscribing" => \E c \in Runs : run[c].at = "subscribing"
    /\ on /\ state \notin Working \cup {"inactive"} => wsEnabled

TwitchHolds == TokensChecked /\ OneConnects

\* A connector that is left disabled comes to rest, whatever coroutines still wait
\* and whatever they do to its state when they are resumed.
DisabledRests == <>[]~on => <>[](state = "inactive" /\ ~wsEnabled /\ ws # "up")
=============================================================================
