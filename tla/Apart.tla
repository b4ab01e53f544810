-------------------------------- MODULE Apart --------------------------------
(***************************************************************************)
(* Parts that have nothing to do with each other: which one moves is       *)
(* chosen at first, and the others stay as they were made.  For TLC, their *)
(* state spaces add up instead of being multiplied; what ApartProofs       *)
(* proves of a part holds whatever the others are.                         *)
(*                                                                         *)
(* The part with recursive operators, tables, has no state here: MCApart   *)
(* adds it.                                                                *)
(***************************************************************************)
EXTENDS Integers, Sequences

CONSTANTS
  None, Nothing,
  Coroutines, Promises, Keys, Values, Timeouts, DefaultTimeout, MaxResets,  \* Promises
  Devices, Images, Levels, MaxChanges,                                      \* StreamDeck
  Sizes, MaxEvents,                                                         \* Window; Sizes also of Vnc
  MouseButtons, MaxQueue,                                                   \* Vnc
  Flight, MaxRecords, Reserved, Room, Bye, Slack,                           \* TlsSession; Slack of BlobBuffer
  Rectangles, MaxAt, MaxLen,                                                \* Rectangle
  MaxSize, ListChanges, Gone,                                               \* RectangleList
  Bytes, MaxBytes, MaxWrite, MaxCap,                                        \* BlobBuffer
  SecretKeys, Cores, Begins(_), Comment,                                    \* Secrets
  LogTexts, NewLine, Parsed(_), MaxAppends,                                 \* EventLog
  Chars, MaxText, Ports,                                                    \* Url
  Scenes, Limit, MaxShows, MaxConnections, MaxTurns, Handlers,              \* Obs; MaxConnections of both
  Runs, Tokens, NoToken, MaxSwitches                                        \* Twitch

VARIABLES
  part,  \* the part that moves
  phase, todo, stack, status, table, kind, fulfilled, age, timeout, value, list, resets, answer, woke,
    waits,
  deckPc, device, lastScan, buttons, wanted, actual, images, changes, plugged, alive, deckTold, held, failed,
  windowPc, window, locked, pending, at, end, sizeChanged, dirty, wantedSize, hide, exitOnClose, requests,
  watched, size, raised, calling, count, told, taken, seen, collected,
  vncPc, screen, frame, surface, want, queue, vncAt, vncEnd, pointer, card, vncDirty, shown, vncTold, own, clicks,
  tls, served, wrote, got,
  rect,
  cells, listSize, slots, free, walk,
  buffer, written, position, floor,
  sandbox, user, last, unsure, cut,
  logFile, entries,
  url, odd,
  obsPc, enabled, socketEnabled, link, handshaking, copy, obs, inbox, wire, greeted, shows, obsConnections,
    obsTold, learnt, waiting, setter,
  twitchPc, on, state, run, header, secret, wsEnabled, ws, welcomed, connections, switches, checked, died, hasty

promisesVars ==
  <<phase, todo, stack, status, table, kind, fulfilled, age, timeout, value, list, resets, answer, woke,
    waits>>
deckVars ==
  <<deckPc, device, lastScan, buttons, wanted, actual, images, changes, plugged, alive, deckTold, held, failed>>
windowVars ==
  <<windowPc, window, locked, pending, at, end, sizeChanged, dirty, wantedSize, hide, exitOnClose, requests,
    watched, size, raised, calling, count, told, taken, seen, collected>>
vncVars ==
  <<vncPc, screen, frame, surface, want, queue, vncAt, vncEnd, pointer, card, vncDirty, shown, vncTold, own, clicks>>
tlsVars    == <<tls, served, wrote, got>>
listVars   == <<cells, listSize, slots, free, walk>>
bufferVars == <<buffer, written, position, floor>>
secretVars == <<sandbox, user, last, unsure, cut>>
logVars    == <<logFile, entries>>
urlVars    == <<url, odd>>
obsVars ==
  <<obsPc, enabled, socketEnabled, link, handshaking, copy, obs, inbox, wire, greeted, shows, obsConnections,
    obsTold, learnt, waiting, setter>>
twitchVars ==
  <<twitchPc, on, state, run, header, secret, wsEnabled, ws, welcomed, connections, switches, checked, died, hasty>>
vars == <<part, promisesVars, deckVars, windowVars, vncVars, tlsVars, rect, listVars, bufferVars, secretVars,
          logVars, urlVars, obsVars, twitchVars>>

P  == INSTANCE Promises
SD == INSTANCE StreamDeck WITH pc <- deckPc, told <- deckTold
W  == INSTANCE Window WITH pc <- windowPc
V  == INSTANCE Vnc WITH pc <- vncPc, at <- vncAt, end <- vncEnd, dirty <- vncDirty, told <- vncTold
T  == INSTANCE TlsSession
R  == INSTANCE Rectangle
L  == INSTANCE RectangleList WITH size <- listSize, MaxChanges <- ListChanges
B  == INSTANCE BlobBuffer
S  == INSTANCE Secrets WITH Keys <- SecretKeys
EL == INSTANCE EventLog WITH file <- logFile
U  == INSTANCE Url
O  == INSTANCE Obs WITH pc <- obsPc, connections <- obsConnections, told <- obsTold
TW == INSTANCE Twitch WITH pc <- twitchPc

ASSUME WaitAssumption   == P!NamesAssumption /\ P!TimeAssumption
ASSUME DeckAssumption   == SD!DevicesAssumption
ASSUME WindowAssumption == W!SizesAssumption
ASSUME ServerAssumption == V!VncAssumption /\ T!TlsAssumption
ASSUME DataAssumption   == R!RectangleAssumption /\ L!ListAssumption /\ B!BufferAssumption /\ S!SecretsAssumption
                           /\ EL!LogAssumption /\ U!UrlAssumption
ASSUME ScriptAssumption == O!ObsAssumption /\ TW!TwitchAssumption

Parts == {"promises", "streamdeck", "window", "vnc", "tls", "rectangle", "list", "buffer", "secrets", "log",
          "tables", "url", "obs", "twitch"}

\* Where there is a choice of initial states, a part that does not move has one.
Init ==
  /\ part \in Parts
  /\ P!Init /\ SD!Init /\ W!Init /\ V!Init /\ T!Init /\ R!Init /\ L!Init /\ B!Init /\ S!Init
  /\ EL!Init /\ U!Init /\ O!Init /\ TW!Init
  /\ part # "streamdeck" => plugged = None
  /\ part # "vnc"        => pointer = {}
  /\ part # "tls"        => tls = T!NoSession
  /\ part # "buffer"     => buffer = B!NewBuffer(0)
  /\ part # "secrets"    => user = <<>>
  /\ part # "twitch"     => secret = Nothing

Still(p, v) == IF part = p THEN TRUE ELSE UNCHANGED v

\* A step A of part p, in which the others do nothing.
Moves(p, A) ==
  /\ part = p /\ A /\ UNCHANGED part
  /\ Still("promises", promisesVars) /\ Still("streamdeck", deckVars) /\ Still("window", windowVars)
  /\ Still("vnc", vncVars) /\ Still("tls", tlsVars) /\ Still("rectangle", rect) /\ Still("list", listVars)
  /\ Still("buffer", bufferVars) /\ Still("secrets", secretVars) /\ Still("log", logVars)
  /\ Still("url", urlVars) /\ Still("obs", obsVars) /\ Still("twitch", twitchVars)

Next ==
  \/ Moves("promises", P!Next) \/ Moves("streamdeck", SD!Next) \/ Moves("window", W!Next)
  \/ Moves("vnc", V!Next) \/ Moves("tls", T!Next)
  \/ Moves("rectangle", R!Next) \/ Moves("list", L!Next) \/ Moves("buffer", B!Next)
  \/ Moves("secrets", S!Next) \/ Moves("log", EL!Next) \/ Moves("url", U!Next)
  \/ Moves("obs", O!Next) \/ Moves("twitch", TW!Next)

\* The fairness of the part that moves; nothing is asked of the others.
Fairness ==
  /\ WF_vars(\/ Moves("promises", P!Loop) \/ Moves("streamdeck", SD!Tick)
             \/ Moves("window", W!Main) \/ Moves("tls", T!Polled)
             \/ Moves("obs", O!Tick) \/ Moves("twitch", TW!Turn))
  /\ \A c \in Coroutines : WF_vars(Moves("promises", P!Leave(c)))
  /\ WF_vars(Moves("window", W!CallWatch) \/ Moves("tls", T!ServerFlight))
  /\ SF_vars(Moves("window", W!Filter) \/ Moves("twitch", TW!Resumes))

Spec == Init /\ [][Next]_vars /\ Fairness

-----------------------------------------------------------------------------
\* What holds of part p: while another one moves, p is in a state it can begin in.
Of(p, I) == part = p => I

\* The type invariants of the parts.
TypesOK ==
  /\ Of("promises", P!TypeOK) /\ Of("streamdeck", SD!TypeOK) /\ Of("window", W!TypeOK)
  /\ Of("vnc", V!TypeOK) /\ Of("tls", T!TypeOK) /\ Of("rectangle", R!TypeOK) /\ Of("list", L!TypeOK)
  /\ Of("buffer", B!TypeOK) /\ Of("secrets", S!TypeOK) /\ Of("log", EL!TypeOK) /\ Of("url", U!TypeOK)
  /\ Of("obs", O!TypeOK) /\ Of("twitch", TW!TypeOK)

\* The properties of the parts, whose modules say of what they are.
DevicesHold       == Of("streamdeck", SD!ScriptKnowsDevice) /\ Of("window", W!WindowHolds)
VncHolds          == Of("vnc", V!VncHolds)
StreamsIntact     == Of("tls", T!StreamsIntact)
RectanglesHold    == Of("rectangle", R!GeometryHolds) /\ Of("list", L!ListHolds)
DataKept          == Of("buffer", B!BytesKept) /\ Of("secrets", S!SecretsKept) /\ Of("log", EL!LogKept)
PartsAgree        == Of("url", U!PartsAgree)
ScriptsHold       == Of("obs", O!ObsHolds) /\ Of("twitch", TW!TwitchHolds)
EveryWaiterWakes  == P!Wakes(CHOOSE c \in Coroutines : TRUE)  \* any: they are interchangeable
DevicesFollow     == SD!PluggedConnects /\ W!SizeIsTold
RecordsArrive     == T!RecordsArrive
ScriptsSettle     == O!HandshakeEnds /\ TW!DisabledRests
=============================================================================
