# Deck Assistant: specifications, model checking and proofs

Deck Assistant runs *deckfiles*: Lua scripts that turn button boxes, windows, VNC
clients and network services into one control panel. A single main thread runs
everything at 50 ticks per second; connectors do the talking. This directory holds
TLA+ modules of the parts of it that are hard to get right, the configurations with
which TLC checks them, and proofs that TLAPS checks of what they must never do.

Paths are relative to the repository; `connector_http.cpp:288` is short for
`src/src/connector_http.cpp:288`, since `src/` is the checkout and its `src/src/`
the C++ code.

## 1. The system

| component | state it keeps | operations | talks to |
| --- | --- | --- | --- |
| `Application` (application.cpp) | the deckfile, its time and size, the table `ACTIVE_SCRIPT_ENV`, the table of yielded calls | `init`, `run`, `reload_deckfile`, `process_yielded_functions` | DeckModule; scripts |
| `DeckModule`, `DeckConnectorContainer`, factory | requests to exit and reload, a weak table of connectors by name | `deck:Connector`, `tick_inputs`, `tick_outputs`, `shutdown`, `request_quit`, `request_reload` | every connector; `SocketSet::poll` |
| `DeckPromise`, `DeckPromiseList`, `yieldable_call` | value, times, a weak table of promises by key; suspended coroutines | `wait`, `fulfill`, `reset`, `new` | the run loop resumes who waits |
| `util::Socket`, `SocketSet`, `TLSSession` | a `SharedState` behind a mutex, one worker thread per attempt, TCP handles | `start_connect`, `close`, `read`/`write_nonblock`, `accept_nonblock`, `poll` | connectors; worker threads; the network |
| `ConnectorWebsocket` | connection state, received bytes, the pending message | tick functions, `send`, `close`, `enabled`, `connection_string` | Socket; script events |
| `ConnectorHttp` | a queue of requests, the response so far, attempts and times | tick functions, `get`, `post`, `enabled` | Socket; PromiseList; script events |
| `ConnectorServerSocket` and its clients | port state, a table of clients | tick functions, `reset_timer`, `port`, `enabled`; `client:close` | Socket; script events |
| Stream Deck, window, VNC, Spout connectors | a device, window or server; pending events and images | tick functions, `set_button`, `redraw`, ... | HID, SDL, libvncserver |
| rectangles and rectangle lists | x, y, w, h; references to rectangles | `clip`, `merge`, `contains`; `add`, `remove`, `foreach` | scripts call and are called |
| scripts: OAuth2, OBS, Twitch, LLM, widgets | handshakes, ports, tokens, subscriptions, in Lua tables | connectors written in Lua on top of those above | ServerSocket, Websocket, Http, promises |
| `util.store_table`, secrets, event logs (deck_util.cpp), JSON (util_text.cpp) | files, which a crash cuts short | `store_secret`, `retrieve_table`, `append_event_log`, `to_json`, `from_json`, ... | scripts |
| `Blob`, `BlobBuffer`, `URL` | bytes with an offset and a capacity; a text and its parts | `write`, `flush`, `rewind`, `from_base64`; `set_host`, ... | Socket, TLSSession, connectors |
| cards, fonts, colours, paths, logger, Lua binding | values | pure functions, pictures | scripts |

### How the parts interact

* The **run loop** calls `tick_inputs` of every connector, resumes coroutines whose
  promise is answered or timed out, calls the script's `tick`, calls `tick_outputs` of
  every connector, collects garbage and sleeps until the next tick.
* A connector tells a script of things by **events**, calls of handlers with
  `emit_event`. The handler may call back: into the connector that is calling it, into
  another, or into the container. Each handler is run as a coroutine; if it waits for
  a promise, the connector goes on without it.
* A **worker thread** per attempt to connect resolves a name and opens the connection.
  It shares a `SharedState` with its Socket. `close` never waits for a worker: it tells
  it to stop and detaches it, so that abandoned workers run beside the current one.
* Scripts hold connectors and promises; the **containers hold them weakly**, so that
  what nobody holds disappears with the next garbage collection.

### What is hard, and what must be true

| part | hard behaviour | must be true |
| --- | --- | --- |
| Socket | a late worker of an abandoned attempt; a join with the mutex held; a full SocketSet; one handle in two hands | connected to whom was asked for last; no handle leaks or is closed twice; the join needs no lock |
| promises | answered while nobody waits; answered twice; timed out at the moment of the answer; lost by the weak list; a table that changes while it is walked | every waiter wakes, with the answer if there is one; the first answer stands |
| websocket | frames split over reads, control frames within messages, the script closing from within the loop over frames, loss in every phase | messages whole, in order, once; events agree with the state; one close frame |
| HTTP | late and left-over responses, timeouts, a queue that is emptied while something is under way, retries | each response goes to its request; each request is answered once; the queue is not empty when its front is used |
| server socket | clients closed by handlers in the middle of the pass that closes gaps in the table | the table holds exactly whom the script knows of; nothing stays open unknown; events in turn |
| VNC | viewers and scripts resize, click, close and redraw in the middle of each other | size, picture and buttons are those that were told |
| TLS session | records in pieces, what the library keeps back, buffers that move | bytes in order and once, none left behind |
| rectangle list | the script changes the list that is being walked | references are neither lost nor kept; a walk that was left alone is complete |
| files, JSON | a restart in the middle of writing; a file that cannot be read for once | what is read was stored, or is a part of it; never something else |
| buffers, encodings, URLs | offsets when memory moves; parts that change the text they are parsed from | what was put in comes out |
| OBS | a handshake that does not end, events before and after responses, a connection lost with requests under way, handlers that are suspended between two of their steps | a connection is identified or given up; once all is answered and every handler is done the copy agrees with OBS |
| Twitch | disabled and enabled again while coroutines wait for answers and set the state when they come | the state is that of a coroutine there is; only tokens found valid are used; disabled means at rest in the end |
| application | a reload during a reload, a script that fails half-way, an edit between two reads of the file, connectors collected or made during a traversal | no edit is missed; each connector is called once per tick; connectors survive reloads |

`PROJECT.json` lists the hazards at their lines with the properties that cover them.

## 2. The modules

| module | what it is | lines of C++ it stands for |
| --- | --- | --- |
| `Connection` | abstract: what a Socket promises its users | |
| `Socket` | util::Socket, its workers, the SocketSet | util_socket.cpp, util_tls_session.cpp |
| `Promises` | promises, lists, coroutines and the table of yielded calls | deck_promise.cpp, deck_promise_list.cpp, lua_helpers.cpp, application.cpp |
| `Websocket` | ConnectorWebsocket over a Connection | connector_websocket.cpp |
| `Link` | abstract: what a websocket promises the script that uses it | |
| `Http` | ConnectorHttp over a Connection | connector_http.cpp |
| `ServerEvents` | abstract: what a script is told by a server socket | |
| `ServerSocket` | ConnectorServerSocket and its clients | connector_server_socket.cpp, connector_server_socket_client.cpp |
| `Application` | the run loop, reload, the container | application.cpp, deck_module.cpp, deck_connector_container.cpp |
| `StreamDeck` | ConnectorElgatoStreamDeck and the device on USB | connector_elgato_streamdeck.cpp |
| `Window` | ConnectorWindow, its event watch and mutex | connector_window.cpp |
| `Vnc` | ConnectorVnc, its hooks and libvncserver's frame buffer | connector_vnc.cpp |
| `TlsSession` | TLSSession, its two buffers, GnuTLS behind and the network before it | util_tls_session.cpp, util_socket.cpp |
| `Blob`, `BlobBuffer` | operators on buffers, base64, hex; a buffer under any calls | util_blob.cpp |
| `Rectangle`, `RectangleList` | geometry; a list with a `foreach` whose callback changes it | deck_rectangle.cpp, deck_rectangle_list.cpp |
| `Json`, `TableStore` | JSON token by token in both directions; stored tables | util_text.cpp, deck_util.cpp |
| `EventLog` | an event log, a line per entry, in whatever form values are written | deck_util.cpp, util_text.cpp |
| `Secrets` | secrets.conf of the sandbox and the user | deck_util.cpp |
| `Selection` | some elements of a sequence, in their order | |
| `Url` | a connection string and its parts | util_url.cpp |
| `Obs` | the OBS script over a Link, and OBS | connector.obs.lua |
| `Twitch` | the state machine of the Twitch script, its coroutines, over a Link | connector.twitch.lua |
| `MC...` | instances for TLC: symmetry sets and what an instance must satisfy | |
| `Apart` | `Promises`, `StreamDeck`, `Window` and the modules from `Vnc` to `Twitch` side by side, one of which moves; without stored tables, whose JSON is recursive | |
| `MCApart` | `Apart` with `TableStore`, and with JSON for the entries of `EventLog` | |
| `...Proofs` | theorems | |

Three abstract specifications tie them together. `Socket` is shown to implement
`Connection` by the refinement mapping at the end of Socket.tla (`Conn`): states are
`phase`, targets are `wanted`, the peers of the handles are `linked`, and workers do
not show at all. `Websocket` is shown to use its socket as `Connection` allows
(`UsesConnection`); with that, a connector can be checked without threads, which would
not fit in one model with it. One layer up, `Websocket` is shown to implement `Link`
(`ImplementsLink`; `Shown` is the mapping, and `Telling` says which event goes with which
step), and the socket's steps in `Obs` and `Twitch` are the actions of `Link`, all of
them but that `Twitch` is never refused, joined with what the script's handlers do: a script
is checked against whatever a websocket may do. `ServerSocket` implements `ServerEvents`: its history
variables `open` and `life` are what the script could have written down itself.

### Conventions

* An action is one piece of code that no other party can act within. Where a handler
  runs, a step ends, because the script may act there: `Websocket` has one step per
  frame, `ServerSocket` one per client of the pass, `Application` one per connector of
  `for_each`. Between two steps with no handler between them, the script's actions are
  those it might as well have done at the handler before.
* In `Socket`, where threads do run side by side, an action is one critical section of
  the mutex. The one wait with the mutex held, the join in `start_connect`, is two.
* Times are counted in ticks, down to the next event or up to a limit; only their
  order matters, and the configurations keep that order.
* Variables that are not in the code are marked `history`; no guard reads them.
* `\* Mutant of X:` introduces the definition `X` as a plausible bug would have it. It
  is used by nothing; it takes the place of `X` to see that a property notices.
  Every property of every passing run has one that violates it.

### Socket

Each `SharedState` is an element of `Sockets`, each thread one of `Workers`, each `TCPsocket`
one of `Handles`; identities are used again when they are free. `StartConnect`, `JoinReturns`,
`Close`, `Poll`, the reads and writes, `Accept` and the destructor are the main thread's;
`Worker(w)` is the thread function with one step per critical section, and one for the resolver
and the opening, which hold no lock. `peer` says what the world has at the other end of a
handle, and so which handles are open. Left out: the bytes, error texts, ports. TLS is a session
that is none, handshaking or up.

### Promises

A coroutine is unborn, active (on the C stack), suspended or dead; `table` is the
table of yielded calls, `todo` what the pass over it has still to visit. The pass is
`lua_next` over a table that handlers insert into; what it visits after an insertion is
undefined and is modelled as any subset. The clock is kept per promise (`age`), which is
all that `check_wakeup` compares. A script fulfils promises directly or by their key, and
puts promises, or nil, under keys as it likes (`Put`, the list's `newindex`); the default
timeout of a list may be set at any time, so a new promise has any positive one. `waits` is a
history of what each suspended coroutine waits for, apart from its entry in the table.

### Websocket

`ws` is `m_connect_state`, `net` what the socket says. The server answers the upgrade
or does not, sends text, first and last parts of messages, pings, pongs, closes and bad
frames, in any order it may, and closes or drops the connection at any time. A frame is
what `check_for_complete_frame` makes of the bytes: one whose last byte is missing has
not arrived. `calls` counts the calls of `on_message`, so that a message given twice would
show. A program without a TLS library (`tlsBuilt`) refuses every attempt, of plain `ws` too,
because `set_tls` fails there whatever it is asked for. Continuation frames other than the
last are left out, as are masks, lengths, URLs and keys.

### Http

A request is its number, a response is its pieces. `started` is `m_request_started_at`, `wait`
the time to `m_next_connect_attempt`. `written` says whether the first request's payload was
given to the socket. The server answers whole, in parts, until the end of the connection, badly
or never, and closes whenever it likes; a part may end within the name of a header (`cut`),
which `parse_http_message` takes for an invalid one unless more has come with it. Whatever is
refused, and whatever is longer than its `Content-Length`, leaves the connection open with the
rest of it still to come (connector_http.cpp:225-252), and that rest is read for the next
request: `spoilt` notes it, `Outcome` lets such a rest look like anything, and `OwnAnswers`
promises nothing about the requests after it on the same connection. A later connection begins
with nothing. `Schemas` are the URL schemes that a script may ask for, one per connection;
without a TLS library, `https` is sent in plain.

### ServerSocket

`table`, `num`, `ref`, `lastOk` are the client table, `m_num_clients`, and the two
indices of `tick_clients_input`. The port is opened through the socket's worker
(`BindAnswers`). Clients are connections, each made once.

### Application

`init` and `reload_deckfile` are split where they read the file and where scripts run:
`Load`, `Stat`, `Started`; `SomethingNew` (time and size), `LoadAgain`, `Reloaded`.
`Edit` may fall between any two of them. The deckfile is the kind of thing that running
it comes to, with a stamp for time and size. `container` is the weak table, `kept`
what the active script holds and `fresh` what the script that is being run holds, which
is everything it has got until it has returned. `made` counts the connectors made under
a name, and so tells them apart. `todo` is what `lua_next` has still to find; `Make`
during a traversal leaves any subset of the table in it.

### StreamDeck

A device is its number of buttons. `pc` says which part of a tick comes next; `Scan`
and `Found` are two steps, since the device may be pulled out or another one plugged in
between the count of changes and the enumeration. `alive` says whether the open device
is still the one on USB; a read or write of one that is not fails, and of one that is may
fail. `held` is what the script was told of the buttons. An image is pending or not; its
slices are one write.

### Window

SDL calls the event watch (`CallWatch`), which then waits for `m_mutex` (`Filter`), while
the main thread goes on; `tick_inputs` holds the mutex (`locked`) from `BeginInputs` to its
end. `SDL_AddEventWatch` and `SDL_DelEventWatch` wait for a watch that is being called.
`raised` is what SDL has not handed over yet, `size` the size of the window, wherever it
was changed, and `told` the one the last `on_resize` had.

### Vnc

Viewers act only while the connector pumps the library's events (`Pump`) or closes the
server; scripts act between calls and in every handler (`ScriptRuns`). Width and height are
one size. `frame` says whether the memory that the library has as its frame buffer is all
there: it is not after a surface could not be made, or was larger than what was asked for;
what follows from using it is the end `crashed`, as is scaling by a size of 0. `told`,
`own` and `clicks` are history.

### TlsSession

One record is `tls`, since a failing call ends the session with all that is in it (`None`).
A unit of `arriving`, `in` and `out` is a piece of the handshake (0), a record (its number)
or the closing alert; a record decrypts to two bytes, so that reading one leaves one with
the library (`pending`). `PumpRead` and `PumpWrite` are the sets of their outcomes, and
`TLSHandshake` and `ReadNonblock` are what Socket does with them. The buffers are those
of `Blob`, with the capacities scaled down.

### Rectangle, RectangleList

A rectangle is two spans. What the code does for both directions in two lines is one
operator on spans. A list is `m_refs` (`cells` is its memory as long as its capacity, so that a
vector that moves can be told from one that does not) and the instance table with its free
slots, which `luaL_ref` takes in the order they were given back. `list[k]` looks in that table
before it calls `index` (lua_class.hpp:414), so that it gives the rectangle in slot `k`, or a number
of the chain of free slots, and only where there is neither the `k`-th rectangle: `IndexFinds`
says what is left of "element `k`". `walk` is `foreach`.

### Blob, BlobBuffer

A buffer is its bytes, its capacity and its read offset. `BlobBuffer` calls everything on one
buffer and remembers the stream that went in. Encodings are checked on the stream itself.
`from_base64` goes over its text until it meets padding; without any it goes on behind the end,
where `FromBase64` says no more than that it fails and leaves its block.

### Json, TableStore, EventLog, Secrets

JSON is a sequence of tokens: strings, numbers and booleans are atoms, and blanks are there
where the code writes them or skips them. What a number is written as is a constant (`Rounded`):
another number, for it has 8 decimals; null, if it does not fit into the buffer; or inf or nan, which
are written and cannot be read. `ToJson` follows convert_to_json_impl down to the
comma it forgets to leave out; `FromJson` follows convert_from_json_impl, which takes the end
of the text for the end of a list. The script's tables may contain each other. A file is what was
written to it; writing may end anywhere, in the middle of a token, too (`CutShort`), and then the
tables are gone (`Restarted`). What a part of an atom is read as is a constant (`Beginnings`): of a
number a shorter one (util_text.cpp:456), of a string the empty one (412) or one that ends in
a broken escape (437); all else has no end and is refused.

`EventLog` knows nothing of JSON: what values are written as (`LogTexts`) and what reading a line
gives (`Parsed`) are constants, of which it asks that a text is not empty and has no end of a
line in it, and that an empty line cannot be read; convert_to_json escapes the ends of lines in
strings, and writes none of its own unless it is to be pretty. In `MCApart` they are `ToJson`, of
a number, of a table and of a table that cannot be read back, and `Parsed`. `Lines` is `split`, and an
entry may be cut short anywhere. `entries` is history: what was appended, on which line it
begins, and whether it was cut short. An entry is `Alone` if neither it nor the one before it
was cut short, for the next one goes onto the same line.

In `Secrets` a file is its lines; reading may fail without being noticed, and writing may end
between two of them or within the value of one, of which `Begins` are the beginnings that
parse_settings then takes for a value.

### Url

Texts are sequences of characters, of which those that the code looks at (`:`, `/`, digits) are
told apart. Every setter builds the text and parses it again, as in the code. Numbers are
read as `std::from_chars` does, up to the largest int, but for a sign, which no text in the model
has in front of its port. `odd` is a history variable: the text that was set last had a colon
in its host, and no host was set since.

### Obs

`link` is that of `Link`: up between `on_connect` and `on_disconnect`, and closing after a close
frame went out until the peer has answered it, for which there is no limit. `inbox` and `wire`
are what is under way on the connection; both are gone with it. `copy` is StreamActive,
StreamStatus, Scene and SceneItems, where a list of items is the scene it is of. OBS answers
requests in their order, and tells of changes from the moment it has accepted us (`greeted`).
`TickInputs` and `Watch` are the two halves of `tick_inputs`, with the events of the socket
between them.

`set_value` calls the script for a value that has changed (connector.obs.lua:157), in the middle
of a handler. A callback that waits for an answer suspends the handler, and what is left of it is
in `waiting`: to set the scene (`ThenScene`), to ask for its items or for the state of the stream
(`ThenItems`, `ThenStream`), to set StreamActive (`ThenActive`). It goes on whenever
its callback returns, before or after newer messages, on this connection or on the next, in any
order with the others. What is left is marked late as soon as a newer message about the same
is read or the connection is lost; that mark is history, and `setter`, a history variable,
remembers whether the handler that set the scene last, and the one that asked for items last,
was late.

### Twitch

`state` is `_internal_state`, `run` what each coroutine waits for; the last wait of
`_do_connect` and those of the subscriptions are told apart, and the subscriptions of one
welcome are one wait. `wait()` gives an answer or nil (`Dies`). The websocket may tick
before or after the connector, since a container's order is that of a table; its events are
those of `Link`. `died` and
`hasty` are history: they mark the two cases that `OneConnects` leaves out (section 4).

## 3. What the runs check

Each run takes from a few seconds to three and a half minutes (`apart`) with two workers; the
largest, `application`, has 680 thousand states.

| run | instance | shows |
| --- | --- | --- |
| `socket_client` | 1 socket, 2 threads, 3 handles, 2 hosts | abandoned attempts beside the current one: the right host, handles owned, the join safe; attempts end, leftovers are closed; implements `Connection` |
| `socket_pool` | 3 sockets that listen or are accepted, 2 threads, room for 2 in the set | what is polled, what a full set does to a worker and to a client, no handle left when a socket is destroyed |
| `promises` | 2 coroutines, 2 promises, 1 key, 2 values | the table holds the suspended; the first answer stands, but for a promise still under its key; wakes are true; an awaited promise stays under its key unless it is answered or the script puts something else there |
| `apart` | 2 coroutines and 1 promise with a timeout of 2; 2 devices of 1 and 2 buttons, 2 changes on USB; 1 window, 2 sizes, 2 events | every waiter wakes; the script knows of the device and its buttons, a device that is plugged in is connected to; no input is lost, the watch sees its window, the size is told |
| `apart`, continued | a VNC server with 2 sizes, 1 button, 1 event at a time; a TLS session with a flight of 2 and 2 records each way; 2 rectangles of up to 2 by 2; a list of 3; a buffer of 4 bytes that is written 2 at a time; 2 tables with 4 atoms and 2 changes; a log of 3 entries of 3 kinds, each of which may be cut anywhere; 2 secrets with 2 values, one a beginning of the other, in a file that may be cut anywhere; URLs of up to 3 characters, 8 of which is a letter too, set at once | size, picture and buttons are as told; the bytes of TLS are in order and arrive; geometry and references hold; buffers, hexadecimal text, base64 with padding, files, secrets and URLs give back what was put in, or of a file that was cut short its beginning, and a log all entries that are alone on their lines |
| `apart`, scripts | OBS with 2 scenes, 2 changes on 1 connection or 1 change and 2 connections, 1 handler suspended at a time, a handshake of 1 tick; Twitch with 4 coroutines, 1 token, disabled and enabled twice in all, 2 connections | the copy agrees with OBS once all is answered and every handler is done, the scene unless a late handler set it; a connection is identified or given up; tokens are checked, the state of Twitch has its coroutine, and Twitch comes to rest when it is disabled |
| `websocket` | 3 frames, 2 ticks between attempts | implements `Link`: the connection and what the script is told of it; messages whole and in order, one close frame, the socket used as `Connection` allows; retries, and disabling closes |
| `http` | 3 requests, 3 attempts, with and without TLS | 2 pieces to a response; responses go to their requests, but behind the rest of one that was refused; one answer each; every request leaves the queue |
| `server_socket` | 2 clients, 1 port | the table is exact in the middle of passes; nothing leaks; implements `ServerEvents`; who leaves is reported, the port follows `enabled` |
| `application` | 2 names, 2 edits of every kind, 2 connectors made | each connector called once; no edit missed; connectors survive reloads; requests to reload and to exit are served |
| `socket_write`, `websocket_events`, `http_timeout`, `application_reload` | the smallest that show it | the four disagreements of section 4 |

**Why the bounds are enough.** Each is the least number at which every case of the code occurs:
two threads for a worker that outlives its attempt, three handles so that it may hold one while
two are in use; three sockets so that one is refused when the set is full; two clients so that
the pass moves one over a gap; three frames so that a control frame falls between the parts of a
message; two edits so that one falls within the reload of the other; three requests so that
there is one behind the one that is answered and one made meanwhile; three attempts to reach the
pause; two connections so that what was left by one meets the other, and one handler that is
suspended, which is overtaken by a change or by the next connection; four coroutines so that two
runs of `_do_connect` and two of subscriptions may overlap. Timeouts are the smallest that keep
their order (a request timeout of one tick is longer than none and shorter than the pause). The
theorems below have no bounds.

**`apart`** puts parts that do not interact into one model, in which one of them, chosen
at first, moves: their state spaces add up, and fairness is asked of the part that moves
alone. The properties are those of the parts: `DataKept` is what `BlobBuffer`, `Secrets` and
`EventLog` keep, `StoresHold` speaks of `TableStore`, `PartsAgree` of `Url`.

**Deadlock** is checked where the system must go on (`Socket`, `Promises`). `Websocket`, `Http`,
`ServerSocket`, `Application` and the parts of `apart` have a shutdown after which the program
ends, so their configurations say `CHECK_DEADLOCK FALSE`.

**Symmetry** is used in `socket_pool` and `promises`, which check no liveness.

### Fairness

* `Socket`: each worker is strongly fair. The main thread sleeps without any mutex
  between ticks (application.cpp:343), so a worker that waits for the mutex gets it,
  although `start_connect` may take it time and again. The resolver and `TCP_Open`
  return. A join returns when its thread has ended. The user need do nothing.
* `Promises`: the loop goes round, and a handler that runs yields or returns.
* `Websocket`, `Http`, `ServerSocket`: ticks go on until the shutdown. For `Http` and
  `ServerSocket` an attempt ends, which is what `AttemptsSettle` of `Socket` shows for a
  set with room. No server and no client is assumed to do anything.
* `StreamDeck`, `Window`: ticks go on until the shutdown. SDL calls the watch with what
  was raised, and the watch, strongly fair, gets the mutex, which the main thread does not
  hold while it sleeps.
* `TlsSession`: the socket is polled in every turn, and the server answers the hello. Calls need
  not fail: only steps that keep the session are fair (`Polled`), or a failure would be bound to
  come whenever there is nothing else to do, and nothing could be left behind for good.
* `Obs`: ticks go on. OBS need do nothing: that is what the limit of the handshake is for.
* `Twitch`: ticks go on, and of the coroutines that wait one is resumed in the end, which is what
  `EveryWaiterWakes` of `Promises` shows: an answer or the timeout. No server is assumed to answer.
* `Application`: the loop goes on and scripts return. A script that never returns stops
  the whole program, since there is one thread.

## 4. What does not hold

Four runs check what a comment, an assertion or a message in the code says, and find it
violated.

* **`socket_write`.** `Socket::write` asserts that it fails or writes everything
  (`written < 0 || written == len`, util_socket.cpp:287). `TLSSession::write` returns 0 while
  the handshake is going on. A debug build aborts; a release build drops the bytes and
  returns false, which a script that calls `send` is given.
* **`websocket_events`.** The event for a lost connection is chosen by
  `m_connect_state` (connector_websocket.cpp:206) after that was overwritten (line 202),
  so a connection lost in the upgrade gives `on_disconnect` without `on_connect`. `Link` has this
  step, and with it the scripts for OBS and Twitch, whose properties hold all the same.
* **`http_timeout`.** Giving up empties the queue and leaves `m_request_started_at`
  (connector_http.cpp:288); the first request of the next connection "times out" before
  it was sent.
* **`application_reload`.** `init` makes a placeholder when a script returns no table
  (application.cpp:257); `reload_deckfile` stores whatever it returned (591) and looks
  up `on_reload` in it outside of any protected call, which ends the program if it is
  nil.

More limits are part of the models:

* An edit between loading and reading the time in `init` is missed (`EarlyEdits` allows it; the
  runs do not).
* Connectors made by handlers during `for_each` make `lua_next` undefined, as coroutines parked
  during the pass do for the table of yielded calls: `CalledOnce` speaks of a traversal up to
  the first insertion.
* A Stream Deck that is there, but could not be opened or written, is tried again only after the
  next change on USB (`PluggedConnects`, a part of `DevicesFollow`, leaves it out).
* A window that is collected without a shutdown leaves its event watch behind, with a dangling
  pointer (`WindowHolds`, a part of `DevicesHold`, leaves it out).
* A request made by the handler that is told of giving up is dropped with the rest of the queue,
  and leaves it without an answer.
* A handler of `on_resize` that sets the port of a VNC connector, or a larger width, ends in
  `crashed` or leaves a frame buffer that is not all there (connector_vnc.cpp:242-251).
* `from_base64` finds the end of a text only by its padding (util_blob.cpp:489): what was
  encoded from a multiple of three bytes has none, so that
  `util.from_base64(util.to_base64("abc"))` fails and writes behind its block (`Base64Returns`).
* A list of which the first element cannot be converted becomes JSON with a comma in front,
  which cannot be read back (`Readable`).
* JSON that is cut short is accepted if what is missing are ends of lists or of a number, or if
  it ends right behind the quote or a backslash of a string: a stored table may come back as a
  part of it whose last atom is another (`Cut`). If it is a key that ends so, the code looks for
  a colon behind the end of the text (util_text.cpp:334), of which nothing is said (`Behind`).
* A secrets file that is cut short may give a beginning of a secret for the secret.
* An event that was cut short takes the next one with it.
* A secrets file that cannot be read for a moment loses all but the secret that is stored next.
* A text with two colons in front of its path is taken apart at the last of them, written as it
  is and taken apart again: the host keeps a colon, which the next part that is set turns into a
  port; or the host is missing in front of a port until then; or the port keeps zeros in front
  (`PartsAgree` leaves out what is `odd`).
* After a connection to OBS was lost, StreamActive stays what it was until an event sets it
  (connector.obs.lua:227 sets it only when it is nil; `CopyAgrees` leaves that time out).
* If the callback for a list of scenes waits, Scene is set only after it has returned, and if
  the one for a scene waits, its items are asked for only then (lines 213-214, 246-248).
  Meanwhile OBS may switch to another scene, whose event is handled; then the first handler sets
  the older scene, or asks for its items, and so it stays until the next event (`CopyAgrees`
  speaks of the scene and of its items only if the last to set it, or to ask for them, was not
  late: `setter`).
* When a `wait()` of the Twitch script times out, looking into the nil it gives ends the
  coroutine, and the connector stays in VALIDATING_TOKEN or SUBSCRIBING for good
  (connector.twitch.lua:168, 264).
* If the connector is disabled and enabled again while a coroutine waits, that coroutine sets a
  state that is not its own, so that it may say ACTIVE with the websocket disabled
  (`OneConnects` leaves out this case and the one before).

## 5. What is proved

All theorems are about the specifications as they are checked, for every value of the
constants that their assumptions allow (`NoneAssumption`, `BoundsAssumption`, ...: sets
of names are disjoint, bounds are natural numbers). Each rests on an inductive
invariant made of named parts, `IInv` or `Inv` where the module has one component; the
proof goes action by action, and under an action by the parts that it can disturb.

* **SocketProofs.** `WorkerInv` says what a worker knows at each point of its run, and
  is why the properties are inductive: a worker that was not told to stop is its
  socket's own and works on its current target. From it follow the seven safety
  theorems of `Socket`, for any number of sockets, threads and handles.
  The second half proves that `Socket` implements `Connection`, step by step, and from it
  that no late worker revives a closed socket.
* **PromisesProofs.** Coroutines on the stack are the active ones, suspended ones have an entry
  for what they wait for; a promise is answered in this round exactly when there is an answer.
  From it: the table holds the suspended ones whenever the loop looks, the first answer stands,
  wakes are true, awaited promises stay listed.
* **WebsocketProofs.** Types, agreement of the connector with its socket, no stale
  bytes, the script's knowledge, one close frame, and the use of `Connection`; and that
  `Websocket` implements `Link`, step by step, every step with its event. Needed
  besides: the loop over frames runs only while connected, and close frames are counted
  by `m_close_sent`. `MessagesIntact`, which says of every step that what it gives to the
  script is a whole message, sent after those before it, rests on `Flow`: what the connector
  has received and what is still on the wire are one stream in the order of sending,
  wherever a read has cut it, and every end of a message in it has its beginning further
  ahead or in the pending frame (`Begun`).
* **HttpProofs.** Responses go to their requests, on a connection on which nothing was left of
  one that was answered before its end. That is a fact about steps, from `OneUnderWay`, which is
  inductive with `Fresh` (a connection starts with nothing): an answer either leaves nothing
  under way or is noted in `spoilt`. `TypeOK` is that and the ranges of the other variables
  (`Rest`); `AnswersStand`, that an answer is never taken back or given twice, wants that
  requests are queued in the order of their numbers and that nothing answered is still queued
  (`Once`).
* **ServerSocketProofs.** The table in the middle of a pass, for any number of clients;
  the port and the connections; `ServerSocket` implements `ServerEvents`. Needed
  besides: the pass stays within the table (`PassInv`), nobody is known before he is
  accepted (`Unmet`).
* **ApplicationProofs.** Types; each connector called once, which is inductive by
  itself; no edit missed, from `Older`: the time that is remembered is not newer than
  the script it is remembered for, which is why it must be read before loading;
  connectors survive, from `OldOnesStay`: the old script keeps what it holds until the
  new one has taken its place.
* **TwitchProofs.** Types, `TokensChecked` and `OneConnects`, under `TwitchAssumption`
  (which `MCApart` has TLC evaluate). Needed besides: what a coroutine that waits for a
  validation holds (`Holding`), and that an enabled connector that is inactive or has a
  `_do_connect` running has no connection and no subscription under way (`Rest`), so that
  neither an event nor a late answer takes the state away from it.
* **ApartProofs.** All of `Apart`: eight theorems, one for each invariant of the run `apart`
  that is not about stored tables. A step is one of the part that moves (`Parting`), and
  each part has its own invariant:
  - *Stream Deck* (`DeckInv`): reports are read only with a device, and one is looked for only
    without.
  - *Window* (`WindowInv`): `Turns` says at which points of a tick the mutex is held, that the
    list of events is no longer than when its handling began, and that the watch is called
    only while there is a window, or after a collection that left it behind.
  - *VNC* (`VncInv`): `VncTurns` says at which points of a turn the size of the surface is the
    one that is wanted, and the one that the script was told; and that the iterator over
    the events stays within those that were there before.
  - *TLS* (`TlsInv`): `Good` follows the session through the calls of one step. Its part `Flow`
    is the stream: of the server's *n* records, *k* have been decrypted, what has been read
    and what the library keeps back are their bytes, and the *z* units of the flight that are
    to come and then the other records are in the buffer or on the network, in this order;
    `Goes` is the same for the way out.
  - *lists* (`ListInv`): `Owned`, that slots in use and slots given back are apart and
    are all there are; `Walking`, that a walk stays within the vector as it was at first;
    `OnItsWay`, what it has met if nothing was erased or moved. Queries are a selection of
    places in their order.
  - *buffers* (`BufferInv`): `Keeps` relates bytes, capacity and offset to the stream that went
    in, through every move of the memory. That hexadecimal text and base64 give back what they
    were made from, and that base64 without padding does not, is proved for any length, from
    closed forms of both: base64 takes its text in groups, and a group is 6 and 8 bits of
    arithmetic (`SixAndEight`).
  - *secrets* (`SecretInv`): the file sets no key twice, and none to anything but what was
    stored last for it, or a beginning of that if the file was cut there since (`Stored`); and
    it does set every key of which that is sure.
  - *event logs* (`LogInv`): entries go onto the lines in their order and one that was not cut
    short ends its line (`LogOrder`); the last line is that of an entry that was cut short last, or
    empty (`LogEnd`), which is why the next entry stands alone on it; an entry that is alone is all
    of its line (`LogAlone`), and a line is an entry unless one that begins on it was cut short
    (`LogMadeUp`). That a step changes nothing but the last line is `Unended` and `Ended`, from
    what a place behind all others does to a selection (`PlaceAdded`); that what is
    traversed has the entries in their order, from the order of ranks (`RankOrder`). All of it
    holds for any form of values that the assumption allows, JSON or not.
  - *URLs* (`UrlInv`): unless it is `odd`, the text is what `Build` makes of the parts, the schema
    has no colon and the host neither a colon nor a slash. A text of such parts is four pieces
    with known places (`Places`), `Parse` finds where they end (`ParsePlaces`), and a port
    is read as the number that was written, for every int (`NumberOfDigits`): so `Parse`
    undoes `Build` (`Adopts`), whatever the length of the parts.
  - *OBS* (`ObsInv`): `Greeting`, what may be on the connection before OBS has accepted the
    script; `InOrder`, that the last that is on the wire on a subject is what OBS has now
    unless an event is behind it; `Follows`, that the copy is that when nothing on its subject
    is under way, and with the items of the scene that was asked for last, or that a handler
    which is not late has yet to set or to ask for it (`Timely`, `Means`). What a suspended handler
    adds to these, takes away when it goes on, and loses when it is overtaken are lemmas of their
    own (`ObsSuspends`, `ObsWithout`, `ObsOvertakes`).
  - *Promises* and *Twitch*: the invariants of their modules, whose theorems are instantiated.

  The lemmas on which these rest (a selection keeps the order and all there is; where the
  places of a concatenation and of a part of a sequence go) come before the parts that use them.

Only model-checked: liveness, which is beyond this prover (`AttemptsSettle`, `EveryWaiterWakes`,
`FollowsEnabled`, `AnsweredOnce` but for `AnswersStand`, `RequestsFollowed`, `RequestsServed`,
`DevicesFollow`, `RecordsArrive`, `ScriptsSettle`); `StoresHold`, which is about JSON alone since
event logs have a proof: JSON is recursive, and what a recursion computes for every text is out
of reach. The other way round, some invariants are proved and in no run, for they are the steps
by which a checked property is proved: the type invariants of `Socket`, `Websocket`,
`ServerSocket` and `Application`, `OneActiveWorker`, `TLSBeforeConnected`,
`ConnectingHasWorker`, `NoLateConnect`, `ScriptKnows` (a part of `ImplementsLink`),
`SocketInSync`, `NoStaleBytes`, `OneUnderWay`, `PortInSync`.

## 6. What is not modelled, and the plan

Not modelled, and not planned: pixels, fonts, colours, JPEG, paths, logging, the Lua stack,
Spout. They are sequential, and wrong in ways that tests
find. Also left out: the contents of what is sent (masks, keys, headers, certificates),
and what the operating system does to sockets beyond closing them.

Not modelled either, for another reason: `OAuth2` is a list of ports over a server socket
and one promise, of which `Twitch` sees a `wait()` that gives a token or nothing; the LLM
connector is a layer over Http, and the widgets lay out pictures. In the modules that
are there, the length of a websocket frame is left out, so that no property sees what a
message of 65536 bytes becomes (connector_websocket.cpp:689).

Of the plan nothing is left. What would pay off next is the length of a frame in `Websocket`,
and messages in `Link`, which a script now gets in order and whole by `MessagesIntact` alone.

## 7. Files

`PROJECT.json` holds the components, runs, mutants, findings, hazards and theorems, and
for every definition that models code the lines it stands for.

    tlc -workers 2 -config MCSocketClient.cfg MCSocket.tla
    tlapm SocketProofs.tla
