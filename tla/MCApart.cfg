\* Two waiters of one promise, with different timeouts; two devices of different
\* sizes that come and go; a window with two events; a VNC server that is resized
\* and clicked; a TLS session with records both ways; two rectangles; a list of
\* three; a buffer that grows; tables within each other; a log of three entries; secrets; a URL;
\* OBS that changes twice, or once and is lost once, with a handler that is suspended at
\* a time; Twitch that is disabled and enabled again.
SPECIFICATION AllSpec
CONSTANTS
  None = None
  Nothing = Nothing
  Coroutines = {c1, c2}
  Promises = {p1}
  Keys = {k1}
  Values = {v1}
  Timeouts = {2}
  DefaultTimeout = 1
  MaxResets = 1
  Devices = {1, 2}
  Images = {i1}
  Levels = {l1}
  MaxChanges = 2
  Sizes = {10, 20}
  MaxEvents = 2
  MouseButtons = {b1}
  MaxQueue = 1
  Flight = 2
  MaxRecords = 2
  Reserved = 2
  Room = 1
  Bye = 9
  Slack = 1
  Rectangles = {r1, r2}
  MaxAt = 1
  MaxLen = 2
  MaxSize = 3
  ListChanges = 1
  Gone = Gone
  Bytes = {7, 249}
  MaxBytes = 4
  MaxWrite = 2
  MaxCap = 3
  Tables = {t1, t2}
  Text = Text
  Number = Number
  TooLong = TooLong
  Infinity = Infinity
  NoRoom = NoRoom
  NoNumeral = NoNumeral
  Rest = Rest
  Fields = {11}
  MaxList = 2
  HeapChanges = 2
  SecretKeys = {s1, s2}
  Cores = {o1, o2}
  Shorter = o2
  Begins <- CoreBegins
  Comment = Comment
  LogTexts <- JsonTexts
  NewLine = NewLine
  Parsed <- ParsedJson
  MaxAppends = 3
  Chars = {0, 8, 10, 11}
  MaxText = 3
  Ports = {0, 8}
  Scenes = {n1, n2}
  Limit = 1
  MaxShows = 2
  MaxConnections = 2
  MaxTurns = 3
  Handlers = {h1}
  Runs = {x1, x2, x3, x4}
  Tokens = {o3}
  NoToken = NoToken
  MaxSwitches = 2
CHECK_DEADLOCK FALSE
INVARIANTS
  TypesOK
  DevicesHold
  VncHolds
  StreamsIntact
  RectanglesHold
  DataKept
  StoresHold
  PartsAgree
  ScriptsHold
PROPERTIES
  EveryWaiterWakes
  DevicesFollow
  RecordsArrive
  ScriptsSettle
