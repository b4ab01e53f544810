-------------------------------- MODULE Http --------------------------------
(***************************************************************************)
(* ConnectorHttp (src/src/connector_http.cpp): a queue of requests to one  *)
(* server, sent one at a time over a connection that is opened when there  *)
(* is something to send and kept while there is.  Every request has a      *)
(* promise; a request whose promise nobody kept is answered with an event. *)
(*                                                                         *)
(* A tick is tick_inputs, tick_outputs and the sleep until the next one;   *)
(* the script may run before each of them.  Requests are numbered as       *)
(* m_request_counter numbers them, and are all there is to their payload.  *)
(* A response is made of pieces: some part of it; a part that ends within  *)
(* the name of a header ("cut"), which is refused unless more has come     *)
(* with it; the end of what Content-Length announces ("whole"); the        *)
(* headers of one that ends with the connection ("open"); or something     *)
(* that is never accepted ("bad").  Whatever was refused or was enough,    *)
(* more pieces of the response may follow: the connection is kept, and     *)
(* they are read for the next request.                                     *)
(***************************************************************************)
EXTENDS Integers, Sequences

CONSTANTS
  MaxRequests,  \* bound on m_request_counter
  Timeout,      \* m_request_timeout, in ticks
  AnswerWait,   \* ticks between an answer and a new connection (200 ms)
  RetryWait,    \* ticks between attempts to connect (1000 ms)
  PauseWait,    \* ticks of rest after too many of them (6000 ms)
  MaxAttempts,  \* attempts before that (3)
  MaxPieces,    \* bound on the pieces of a response
  Schemas       \* what scripts may make the schema of m_base_url; "https" is the
                \* same as "http" in a program without a TLS library

ASSUME BoundsAssumption ==
  /\ {MaxRequests, Timeout, AnswerWait, RetryWait, PauseWait} \subseteq Nat
  /\ MaxAttempts \in Nat \ {0} /\ MaxPieces \in Nat \ {0}
  /\ Schemas \subseteq {"http", "https"}

VARIABLES
  pc,        \* what comes next: "inputs", "outputs", "sleep"; "ended"
  queue,     \* m_queue, the numbers of its requests
  written,   \* the payload of the first one was given to the socket
  started,   \* ticks since m_request_started_at, Never if that is 0
  wait,      \* ticks until m_next_connect_attempt
  attempts,  \* m_connect_attempts
  enabled,   \* m_enabled
  counter,   \* m_request_counter
  response,  \* m_response
  promised,  \* the requests whose promise is in the promise list
  net,       \* Socket::get_state
  wire,      \* pieces on their way to us
  inbox,     \* requests the server has received on this connection
  gone,      \* the server has closed the connection
  spoilt,    \* history: a request was answered with something of a response still
             \* to come on this connection
  tried,     \* history: the requests of which a write was tried
  answer     \* history: what each request was answered with

connectorVars == <<queue, written, started, wait, attempts, enabled, counter, response, promised>>
lineVars      == <<wire, inbox, gone, spoilt>>
netVars       == <<net, lineVars>>
historyVars   == <<tried, answer>>
vars == <<pc, connectorVars, netVars, historyVars>>

Requests == 1..MaxRequests
Never    == -1
Pieces   == [to : Requests, kind : {"part", "cut", "whole", "open", "bad"},
             first : BOOLEAN]  \* of its response

\* Answers: the number of a request stands for the response to it.
NoAnswer == 0
TimedOut == -1
Failed   == -2
GivenUp  == -3
Answers  == {NoAnswer, TimedOut, Failed, GivenUp} \cup Requests

Longest == IF AnswerWait > RetryWait
             THEN IF AnswerWait > PauseWait THEN AnswerWait ELSE PauseWait
             ELSE IF RetryWait > PauseWait THEN RetryWait ELSE PauseWait

TypeOK ==
  /\ pc       \in {"inputs", "outputs", "sleep", "ended"}
  /\ queue    \in Seq(Requests)
  /\ written  \in BOOLEAN
  /\ started  \in {Never} \cup 0..(Timeout + 1)
  /\ wait     \in 0..Longest
  /\ attempts \in 0..MaxAttempts
  /\ enabled  \in BOOLEAN
  /\ counter  \in 0..MaxRequests
  /\ response \in Seq(Pieces)
  /\ promised \subseteq Requests
  /\ net      \in {"Disconnected", "Connecting", "TLSHandshaking", "Connected"}
  /\ wire     \in Seq(Pieces)
  /\ inbox    \in Seq([to : Requests, sent : 0..(MaxPieces - 1)])
  /\ gone     \in BOOLEAN
  /\ spoilt   \in BOOLEAN
  /\ tried    \subseteq Requests
  /\ answer   \in [Requests -> Answers]

Init ==
  /\ pc = "inputs"
  /\ queue = <<>> /\ written = FALSE /\ started = Never /\ wait = 0
  /\ attempts = 0 /\ enabled = TRUE /\ counter = 0
  /\ response = <<>> /\ promised = {}
  /\ net = "Disconnected" /\ wire = <<>> /\ inbox = <<>> /\ gone = FALSE
  /\ spoilt = FALSE
  /\ tried = {} /\ answer = [r \in Requests |-> NoAnswer]

-----------------------------------------------------------------------------
(* The socket and the server.                                              *)

Down ==
  /\ net' = "Disconnected"
  /\ wire' = <<>> /\ inbox' = <<>> /\ gone' = FALSE /\ spoilt' = FALSE

NetAnswers ==
  /\ net = "Connecting"
  /\ \/ /\ \/ "https" \in Schemas /\ net' = "TLSHandshaking"
           \/ "http" \in Schemas /\ net' = "Connected"
        /\ UNCHANGED lineVars
     \/ Down
  /\ UNCHANGED <<pc, connectorVars, historyVars>>

\* The server answers the first request it has, piece by piece.
Respond ==
  /\ net = "Connected" /\ inbox # <<>> /\ ~gone
  /\ LET r == Head(inbox) IN
     \E kind \in {"part", "cut", "whole", "open", "bad"} :
       /\ wire' = Append(wire, [to |-> r.to, kind |-> kind, first |-> r.sent = 0])
       /\ \/ r.sent + 1 < MaxPieces /\ inbox' = [inbox EXCEPT ![1].sent = @ + 1]
          \/ kind \in {"whole", "open", "bad"} /\ inbox' = Tail(inbox)
  /\ UNCHANGED <<pc, connectorVars, historyVars, net, gone, spoilt>>

ServerDrops ==
  /\ net = "Connected" /\ ~gone
  /\ gone' = TRUE
  /\ UNCHANGED <<pc, connectorVars, historyVars, net, wire, inbox, spoilt>>

\* Socket::tls_handshake goes on, is through, or fails.
Handshake ==
  /\ net = "TLSHandshaking"
  /\ \/ UNCHANGED netVars
     \/ net' = "Connected" /\ UNCHANGED lineVars
     \/ Down

-----------------------------------------------------------------------------
(* The script.                                                             *)

\* http:get, http:post and http:delete put a request in the queue
Request ==
  /\ pc # "ended" /\ counter < MaxRequests
  /\ counter'  = counter + 1
  /\ promised' = promised \cup {counter'}
  /\ queue'    = Append(queue, counter')
  /\ UNCHANGED <<pc, written, started, wait, attempts, enabled, response, netVars, historyVars>>

\* A promise that nobody kept is collected.
Forget ==
  /\ pc # "ended"
  /\ \E r \in promised : promised' = promised \ {r}
  /\ UNCHANGED <<pc, queue, written, started, wait, attempts, enabled, counter, response,
                 netVars, historyVars>>

\* http.enabled = b
SetEnabled(b) ==
  /\ pc # "ended" /\ enabled # b
  /\ enabled' = b
  /\ UNCHANGED <<pc, queue, written, started, wait, attempts, counter, response, promised,
                 netVars, historyVars>>

-----------------------------------------------------------------------------
(* tick_inputs.                                                            *)

Front == Head(queue)

NothingToRead ==
  /\ pc = "inputs"
  /\ started = Never \/ net \in {"Disconnected", "Connecting"}
  /\ pc' = "outputs"
  /\ UNCHANGED <<connectorVars, netVars, historyVars>>

HandshakeInputs ==
  /\ pc = "inputs" /\ started # Never
  /\ Handshake
  /\ pc' = "outputs"
  /\ UNCHANGED <<connectorVars, historyVars>>

Reading == pc = "inputs" /\ started # Never /\ net = "Connected"

\* convert_to_http_message, what it may make of the pieces.  What begins in the
\* middle of an earlier response may look like anything.
Outcome(pieces, eof) ==
  LET to == Head(pieces).to
      Has(kind) == \E i \in 1..Len(pieces) : pieces[i].to = to /\ pieces[i].kind = kind
  IN  IF pieces = <<>> THEN {IF eof THEN Failed ELSE NoAnswer}
      ELSE IF ~Head(pieces).first THEN {to, Failed, IF eof THEN Failed ELSE NoAnswer}
      ELSE IF Has("bad") THEN {Failed}
      ELSE IF Has("whole") THEN {to}
      ELSE IF Has("open") THEN {IF eof THEN to ELSE NoAnswer}
      ELSE IF eof \/ pieces[Len(pieces)].kind = "cut" THEN {Failed}
      ELSE {NoAnswer}

Late == started > Timeout

\* Mutant of Answer: m_request_started_at is not set back.
AnswerUnderWay(a) ==
  /\ wait' = AnswerWait
  /\ answer' = [answer EXCEPT ![Front] = a]
  /\ promised' = promised \ {Front}
  /\ response' = <<>>
  /\ queue' = Tail(queue) /\ written' = FALSE
  /\ UNCHANGED <<started, enabled, counter, tried>>

\* The first request gets its answer, by its promise or else by an event, and
\* makes place for the next.
Answer(a) ==
  /\ wait' = AnswerWait
  /\ answer' = [answer EXCEPT ![Front] = a]
  /\ promised' = promised \ {Front}
  /\ response' = <<>>
  /\ queue' = Tail(queue) /\ written' = FALSE
  /\ started' = Never
  /\ UNCHANGED <<enabled, counter, tried>>

\* The first k pieces on the wire arrive.
Arrive(k) == wire' = SubSeq(wire, k + 1, Len(wire)) /\ UNCHANGED <<net, inbox, gone>>

\* Something is still to come on the connection, which is kept.
Spoils == spoilt' = (spoilt \/ wire' # <<>> \/ inbox # <<>>)

Received(k) == response \o SubSeq(wire, 1, k)

ReadNothing ==
  /\ Reading /\ ~Late
  /\ pc' = "outputs"
  /\ UNCHANGED <<connectorVars, netVars, historyVars>>

ReadPart ==
  /\ Reading /\ ~Late
  /\ \E k \in 1..Len(wire) :
       /\ NoAnswer \in Outcome(Received(k), FALSE)
       /\ Arrive(k)
       /\ response' = Received(k)
  /\ UNCHANGED spoilt
  /\ attempts' = 0
  /\ pc' = "outputs"
  /\ UNCHANGED <<queue, written, started, wait, enabled, counter, promised, historyVars>>

ReadAnswer ==
  /\ Reading
  /\ \E k \in 1..Len(wire) :
       /\ \E a \in Outcome(Received(k), FALSE) \ {NoAnswer} : Answer(a)
       /\ Arrive(k)
  /\ Spoils
  /\ attempts' = 0
  /\ pc' = "outputs"

\* read_nonblock fails and closes the socket.
ReadEnd ==
  /\ Reading /\ gone
  /\ \E a \in Outcome(response, TRUE) : Answer(a)
  /\ Down
  /\ pc' = "outputs"
  /\ UNCHANGED attempts

\* Mutant of TimeOut: looks at the time only when something was read.
TimeOutOnBytes ==
  /\ Reading /\ Late
  /\ \E k \in 1..Len(wire) : NoAnswer \in Outcome(Received(k), FALSE)
  /\ Answer(TimedOut)
  /\ Down
  /\ attempts' = 0
  /\ pc' = "outputs"

\* Mutant of TimeOut: the connection stays open.
TimeOutOpen ==
  /\ Reading /\ Late
  /\ \E k \in 0..Len(wire) : NoAnswer \in Outcome(Received(k), FALSE)
  /\ Answer(TimedOut)
  /\ attempts' = 0
  /\ pc' = "outputs"
  /\ UNCHANGED netVars

\* Nothing, or not enough, arrives in time.
TimeOut ==
  /\ Reading /\ Late
  /\ \E k \in 0..Len(wire) : NoAnswer \in Outcome(Received(k), FALSE)
  /\ Answer(TimedOut)
  /\ Down
  /\ attempts' = 0
  /\ pc' = "outputs"

-----------------------------------------------------------------------------
(* tick_outputs.                                                           *)

MayConnect == net = "Disconnected" /\ queue # <<>> /\ enabled /\ wait = 0

\* Mutant of MayTry: one attempt too many.
TryOnceMore == attempts <= MaxAttempts
MayTry == attempts < MaxAttempts

NothingToDo ==
  /\ pc = "outputs"
  /\ net = "Connecting" \/ (net = "Disconnected" /\ ~MayConnect)
  /\ pc' = "sleep"
  /\ UNCHANGED <<connectorVars, netVars, historyVars>>

HandshakeOutputs ==
  /\ pc = "outputs"
  /\ Handshake
  /\ pc' = "sleep"
  /\ UNCHANGED <<connectorVars, historyVars>>

Connect ==
  /\ pc = "outputs" /\ MayConnect /\ MayTry
  /\ attempts' = attempts + 1
  /\ written' = FALSE /\ response' = <<>>
  /\ net' = "Connecting" /\ UNCHANGED lineVars
  /\ wait' = RetryWait
  /\ pc' = "sleep"
  /\ UNCHANGED <<queue, started, enabled, counter, promised, historyVars>>

\* Too many attempts: every promise is fulfilled with an error or, if there is
\* none, on_request_failed is emitted; then the queue is emptied, of a request
\* that the event handler has just made, too.
GiveUp ==
  /\ pc = "outputs" /\ MayConnect
  /\ ~MayTry
  /\ answer' = [r \in Requests |-> IF r \in promised THEN GivenUp ELSE answer[r]]
  /\ \/ promised' = {} /\ UNCHANGED counter
     \/ /\ promised = {} /\ counter < MaxRequests
        /\ counter' = counter + 1 /\ promised' = {counter'}
  /\ queue' = <<>> /\ written' = FALSE /\ response' = <<>>
  /\ attempts' = 0
  /\ wait' = PauseWait
  /\ pc' = "sleep"
  /\ UNCHANGED <<started, enabled, tried, netVars>>

\* Nothing to send, or disabled
Close ==
  /\ pc = "outputs" /\ net = "Connected"
  /\ queue = <<>> \/ ~enabled
  /\ Down
  /\ pc' = "sleep"
  /\ UNCHANGED <<connectorVars, historyVars>>

\* The first request is written, unless it was written before; the write may
\* fail, or seem to succeed, when the server has closed the connection.
Send ==
  /\ pc = "outputs" /\ net = "Connected"
  /\ queue # <<>> /\ enabled
  /\ started' = IF started = Never THEN 0 ELSE started
  /\ IF written
       THEN UNCHANGED <<netVars, tried>>
       ELSE /\ \/ /\ inbox' = Append(inbox, [to |-> Front, sent |-> 0])
                  /\ UNCHANGED <<net, wire, gone, spoilt>>
               \/ gone /\ Down
            /\ tried' = tried \cup {Front}
  /\ written' = TRUE
  /\ pc' = "sleep"
  /\ UNCHANGED <<queue, wait, attempts, enabled, counter, response, promised, answer>>

Sleep ==
  /\ pc = "sleep"
  /\ started' = IF started \in 0..Timeout THEN started + 1 ELSE started
  /\ wait' = IF wait > 0 THEN wait - 1 ELSE 0
  /\ pc' = "inputs"
  /\ UNCHANGED <<queue, written, attempts, enabled, counter, response, promised, netVars, historyVars>>

\* shutdown, between two ticks
Shutdown ==
  /\ pc = "inputs"
  /\ enabled' = FALSE /\ started' = Never
  /\ response' = <<>> /\ queue' = <<>> /\ written' = FALSE
  /\ Down
  /\ pc' = "ended"
  /\ UNCHANGED <<wait, attempts, counter, promised, historyVars>>

Tick ==
  \/ NothingToRead \/ HandshakeInputs \/ ReadNothing \/ ReadPart \/ ReadAnswer \/ ReadEnd \/ TimeOut
  \/ NothingToDo \/ HandshakeOutputs \/ Connect \/ GiveUp \/ Close \/ Send
  \/ Sleep

Script  == Request \/ Forget \/ \E b \in BOOLEAN : SetEnabled(b)
Network == NetAnswers \/ Respond \/ ServerDrops

Next == Tick \/ Shutdown \/ Script \/ Network

\* Ticks go on until the shutdown, and an attempt to connect ends (AttemptsSettle
\* of Socket, with room in the SocketSet).  The server owes no answer.
Spec == Init /\ [][Next]_vars /\ WF_vars(Tick) /\ WF_vars(NetAnswers)

-----------------------------------------------------------------------------
(* Properties.                                                             *)

Queued(r) == \E i \in 1..Len(queue) : queue[i] = r

\* tick_inputs uses m_queue.front() whenever it has something to read from: a
\* request is under way only while there is one.
FrontExists == started # Never /\ net = "Connected" => queue # <<>>

\* What is on its way, here or there, belongs to the first request; nothing is
\* left of a request that timed out or of an earlier connection, unless one was
\* answered on this connection before all of its response had come.
OneUnderWay ==
  net = "Connected" /\ ~spoilt =>
    /\ Len(inbox) <= 1
    /\ \A i \in 1..Len(inbox)    : queue # <<>> /\ inbox[i].to = Front /\ written
    /\ \A i \in 1..Len(wire)     : queue # <<>> /\ wire[i].to = Front /\ written
    /\ \A i \in 1..Len(response) : queue # <<>> /\ response[i].to = Front /\ written

\* A response goes to the request it was sent for, over time-outs, closed
\* connections and requests that are sent again.  It may go to another one only
\* over a connection on which a request was answered with something still to come:
\* a refused response does not close the connection (tick_inputs).
OwnAnswers ==
  [][\A r \in Requests :
       answer'[r] # answer[r] /\ answer'[r] \in Requests => answer'[r] = r \/ spoilt]_vars

\* An answer stands, and what is answered is not sent again.
AnswersStand ==
  [][\A r \in Requests : answer[r] # NoAnswer => answer'[r] = answer[r] /\ ~Queued(r)']_vars

\* Every request is answered or given up, whatever the server does, unless the
\* connector is disabled or the server leaves it in a TLS handshake, on which
\* there is no time limit.  It is answered once, and is not sent again after that.
AnsweredOnce ==
  /\ AnswersStand
  /\ \A r \in Requests : Queued(r) ~> ~Queued(r) \/ ~enabled \/ net = "TLSHandshaking"

\* "request timed out, closing socket" (line 221): a request that is answered
\* so was sent, or its sending was tried.
TimedOutWasTried == \A r \in Requests : answer[r] = TimedOut => r \in tried
=============================================================================
