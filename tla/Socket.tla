------------------------------- MODULE Socket -------------------------------
(***************************************************************************)
(* util::Socket (src/src/util_socket.cpp): a non-blocking TCP or TLS       *)
(* socket.  The main thread owns the Socket objects; resolving a host name *)
(* and opening the connection is done by one worker thread per attempt.    *)
(* Socket and worker share a SharedState behind a mutex.  close() does not *)
(* wait for the worker: it asks it to stop and detaches it, so a worker of *)
(* an abandoned attempt runs on beside the worker of the next one.         *)
(*                                                                         *)
(* Every critical section of the mutex is one action.  The one place that  *)
(* waits for a thread with the mutex held, the join in start_connect, is   *)
(* two steps: StartConnect may leave the main thread `blocked` in the join *)
(* and JoinReturns ends it.                                                *)
(*                                                                         *)
(* Abstracted: the bytes that travel, error texts, ports, and the error    *)
(* of start_connect on a busy socket, which changes nothing else.          *)
(* Socket::shutdown is part of Close: every caller calls close() right     *)
(* after it.                                                               *)
(***************************************************************************)
EXTENDS Naturals, FiniteSets

CONSTANTS
  Sockets,     \* identities of SharedStates; one per util::Socket object
  Workers,     \* thread identities (bound: at most this many threads at once)
  Handles,     \* TCPsocket pointers (bound: at most this many open at once)
  Hosts,       \* host names to connect to
  MaxSockets,  \* capacity of the SocketSet
  None         \* nullptr, no thread

Anyone == "INADDR_ANY"   \* the empty host name: open a listening socket
Remote == "remote"       \* the peer of an accepted connection
NoHost == "no host"
Closed == "closed"

ASSUME NoneAssumption ==
  None \notin Sockets \cup Workers \cup Handles
ASSUME HostAssumption ==
  Hosts \cap {Anyone, Remote, NoHost, Closed} = {}
ASSUME CapacityAssumption == MaxSockets \in Nat \ {0} /\ IsFiniteSet(Handles)

States   == {"Disconnected", "Connecting", "TLSHandshaking", "Connected"}
Sessions == {"none", "handshaking", "up"}
Phases   == {"idle", "start", "resolving", "opening", "opened", "exit", "done"}
Peers    == Hosts \cup {Anyone, Remote}

VARIABLES
  owner,     \* owner[s]: the Socket object of SharedState s exists
  state,     \* SharedState::state
  useTLS,    \* SharedState::use_tls # NoTLS
  target,    \* SharedState::host
  handle,    \* SharedState::socket
  session,   \* SharedState::tls_session
  thread,    \* Socket::m_worker_thread, None when not joinable
  pc,        \* where a worker thread is
  stop,      \* its stop_token
  of,        \* the SharedState it holds on to
  goal,      \* its local copy of the host
  sock,      \* its local TCPsocket
  peer,      \* peer[h]: who handle h talks to, Closed when h is not open
  inSet,     \* the handles in the SocketSet
  blocked,   \* the socket whose start_connect waits in join(), or None
  request,   \* the host argument of that start_connect
  refused,   \* refused[s]: the attempt ended because the SocketSet was full
  wrote      \* what the last Socket::write did

sharedVars == <<owner, state, useTLS, target, handle, session, refused>>
workerVars == <<pc, stop, of, goal, sock>>
vars == <<sharedVars, workerVars, thread, peer, inSet, blocked, request, wrote>>

TypeOK ==
  /\ owner   \in [Sockets -> BOOLEAN]
  /\ state   \in [Sockets -> States]
  /\ useTLS  \in [Sockets -> BOOLEAN]
  /\ target  \in [Sockets -> Peers \cup {NoHost}]
  /\ handle  \in [Sockets -> Handles \cup {None}]
  /\ session \in [Sockets -> Sessions]
  /\ thread  \in [Sockets -> Workers \cup {None}]
  /\ pc      \in [Workers -> Phases]
  /\ stop    \in [Workers -> BOOLEAN]
  /\ of      \in [Workers -> Sockets \cup {None}]
  /\ goal    \in [Workers -> Peers \cup {NoHost}]
  /\ sock    \in [Workers -> Handles \cup {None}]
  /\ peer    \in [Handles -> Peers \cup {Closed}]
  /\ inSet   \in SUBSET Handles
  /\ blocked \in Sockets \cup {None}
  /\ request \in Peers \cup {NoHost}
  /\ refused \in [Sockets -> BOOLEAN]
  /\ wrote   \in {"nothing", "all", "short", "error"}

Init ==
  /\ owner   = [s \in Sockets |-> FALSE]
  /\ state   = [s \in Sockets |-> "Disconnected"]
  /\ useTLS  = [s \in Sockets |-> FALSE]
  /\ target  = [s \in Sockets |-> NoHost]
  /\ handle  = [s \in Sockets |-> None]
  /\ session = [s \in Sockets |-> "none"]
  /\ thread  = [s \in Sockets |-> None]
  /\ pc      = [w \in Workers |-> "idle"]
  /\ stop    = [w \in Workers |-> FALSE]
  /\ of      = [w \in Workers |-> None]
  /\ goal    = [w \in Workers |-> NoHost]
  /\ sock    = [w \in Workers |-> None]
  /\ peer    = [h \in Handles |-> Closed]
  /\ inSet   = {}
  /\ blocked = None
  /\ request = NoHost
  /\ refused = [s \in Sockets |-> FALSE]
  /\ wrote   = "nothing"

-----------------------------------------------------------------------------
(* Helpers.                                                                *)

\* The main thread is not waiting in a join and uses Socket s.
Main(s) == blocked = None /\ owner[s]

\* No thread keeps SharedState s alive and no Socket owns it.
Unused(s) == ~owner[s] /\ \A w \in Workers : pc[w] # "idle" => of[w] # s

HasRoom == Cardinality(inSet) < MaxSockets

\* Mutant of CloseShared: the handle stays in the SocketSet.
CloseSharedNoDel(s) ==
  /\ peer'    = [h \in Handles |-> IF h = handle[s] THEN Closed ELSE peer[h]]
  /\ handle'  = [handle EXCEPT ![s] = None]
  /\ state'   = [state EXCEPT ![s] = "Disconnected"]
  /\ session' = [session EXCEPT ![s] = "none"]
  /\ refused' = [refused EXCEPT ![s] = FALSE]
  /\ UNCHANGED inSet

\* SharedState::close: take the handle out of the set, close it, forget it.
CloseShared(s) ==
  /\ inSet'   = inSet \ {handle[s]}
  /\ peer'    = [h \in Handles |-> IF h = handle[s] THEN Closed ELSE peer[h]]
  /\ handle'  = [handle EXCEPT ![s] = None]
  /\ state'   = [state EXCEPT ![s] = "Disconnected"]
  /\ session' = [session EXCEPT ![s] = "none"]
  /\ refused' = [refused EXCEPT ![s] = FALSE]

\* Mutant of DetachWorker: the thread is asked to stop but kept joinable.
StopWorkerOnly(s) ==
  /\ stop' = [w \in Workers |-> stop[w] \/ w = thread[s]]
  /\ UNCHANGED <<thread, pc>>

\* request_stop and detach, if the thread is joinable.
DetachWorker(s) ==
  /\ thread' = [thread EXCEPT ![s] = None]
  /\ stop'   = [w \in Workers |-> stop[w] \/ w = thread[s]]
  /\ pc'     = [w \in Workers |-> IF w = thread[s] /\ pc[w] = "done"
                                    THEN "idle" ELSE pc[w]]

\* Socket::close_impl
CloseImpl(s) ==
  /\ CloseShared(s)
  /\ DetachWorker(s)
  /\ UNCHANGED <<useTLS, target, of, goal, sock, blocked, request>>

\* A failed SDLNet_TCP_Recv or SDLNet_TCP_Send (SharedState::set_result):
\* the finished worker stays joinable.
DropConnection(s) ==
  /\ handle[s] # None
  /\ CloseShared(s)
  /\ UNCHANGED <<owner, useTLS, target, thread, workerVars, blocked, request>>

-----------------------------------------------------------------------------
(* Operations of the main thread.                                          *)

\* Socket::Socket
Construct(s) ==
  /\ blocked = None
  /\ Unused(s)
  /\ owner'  = [owner EXCEPT ![s] = TRUE]
  /\ useTLS' = [useTLS EXCEPT ![s] = FALSE]
  /\ target' = [target EXCEPT ![s] = NoHost]
  /\ UNCHANGED <<state, handle, session, refused, thread, workerVars, peer,
                 inSet, blocked, request, wrote>>

\* Socket::~Socket
Destroy(s) ==
  /\ Main(s)
  /\ owner' = [owner EXCEPT ![s] = FALSE]
  /\ CloseImpl(s)
  /\ UNCHANGED wrote

\* Socket::set_tls; its callers set it only ahead of start_connect.
SetTLS(s) ==
  /\ Main(s)
  /\ state[s] = "Disconnected"
  /\ useTLS' = [useTLS EXCEPT ![s] = ~useTLS[s]]
  /\ UNCHANGED <<owner, state, target, handle, session, refused, thread,
                 workerVars, peer, inSet, blocked, request, wrote>>

\* The rest of start_connect, once no thread of an earlier attempt is left
\* to join: remember the host and start a worker.
Launch(s, host) ==
  /\ \E w \in Workers :
       /\ pc[w] = "idle" \/ w = thread[s]
       /\ thread' = [thread EXCEPT ![s] = w]
       /\ pc'     = [v \in Workers |-> IF v = w THEN "start"
                                       ELSE IF v = thread[s] THEN "idle"
                                       ELSE pc[v]]
       /\ stop'   = [stop EXCEPT ![w] = FALSE]
       /\ of'     = [of EXCEPT ![w] = s]
       /\ goal'   = [goal EXCEPT ![w] = NoHost]
       /\ sock'   = [sock EXCEPT ![w] = None]
  /\ state'   = [state EXCEPT ![s] = "Connecting"]
  /\ target'  = [target EXCEPT ![s] = host]
  /\ refused' = [refused EXCEPT ![s] = FALSE]
  /\ UNCHANGED <<owner, useTLS, handle, session, peer, inSet, wrote>>

\* Socket::start_connect up to the join.  Nothing keeps a socket that was told to
\* use TLS from listening; ConnectorHttp does so with an https URL without a host.
StartConnect(s, host) ==
  /\ Main(s)
  /\ state[s] = "Disconnected"
  /\ \/ /\ thread[s] # None => pc[thread[s]] = "done"
        /\ Launch(s, host)
        /\ UNCHANGED <<blocked, request>>
     \/ /\ thread[s] # None /\ pc[thread[s]] # "done"
        /\ blocked' = s
        /\ request' = host
        /\ UNCHANGED <<sharedVars, workerVars, thread, peer, inSet, wrote>>

\* m_worker_thread.join() returns, with the mutex still held.
JoinReturns(s) ==
  /\ blocked = s
  /\ pc[thread[s]] = "done"
  /\ Launch(s, request)
  /\ blocked' = None
  /\ request' = NoHost

\* Socket::tls_handshake; its callers call it only while TLSHandshaking.
TLSHandshake(s) ==
  /\ Main(s)
  /\ state[s] = "TLSHandshaking"
  /\ UNCHANGED wrote
  /\ \/ /\ session[s] # "none"
        /\ session' = [session EXCEPT ![s] = "up"]
        /\ state'   = [state EXCEPT ![s] = "Connected"]
        /\ UNCHANGED <<owner, useTLS, target, handle, refused, thread,
                       workerVars, peer, inSet, blocked, request>>
     \/ /\ CloseImpl(s)
        /\ UNCHANGED owner

\* Socket::read_nonblock finds the connection gone; reading data or nothing
\* changes no state.  Callers do not read while Connecting or TLSHandshaking.
ReadFails(s) ==
  /\ Main(s)
  /\ state[s] \in {"Disconnected", "Connected"}
  /\ UNCHANGED wrote
  /\ IF useTLS[s]
       THEN CloseImpl(s) /\ UNCHANGED owner
       ELSE DropConnection(s)

\* Socket::write without TLS, in any state
WritePlain(s) ==
  /\ Main(s)
  /\ ~useTLS[s]
  /\ \/ /\ handle[s] # None
        /\ wrote' = "all"
        /\ UNCHANGED <<sharedVars, workerVars, thread, peer, inSet, blocked,
                       request>>
     \/ /\ handle[s] = None
        /\ wrote' = "error"
        /\ UNCHANGED <<sharedVars, workerVars, thread, peer, inSet, blocked,
                       request>>
     \/ /\ DropConnection(s)
        /\ wrote' = "error"

\* Socket::write with TLS, in any state.  A session that still shakes hands
\* takes nothing; without a session the socket is closed, also when a worker
\* is busy connecting it.  The record may be taken and the flush after it
\* fail, so "all" does not mean that the connection survived.
WriteTLS(s) ==
  /\ Main(s)
  /\ useTLS[s]
  /\ UNCHANGED owner
  /\ \/ /\ session[s] = "handshaking"
        /\ wrote' = "short"
        /\ UNCHANGED <<state, useTLS, target, handle, session, refused,
                       workerVars, thread, peer, inSet, blocked, request>>
     \/ /\ session[s] = "up"
        /\ wrote' = "all"
        /\ UNCHANGED <<state, useTLS, target, handle, session, refused,
                       workerVars, thread, peer, inSet, blocked, request>>
     \/ /\ session[s] = "up"
        /\ wrote' \in {"all", "error"}
        /\ CloseImpl(s)
     \/ /\ session[s] = "none"
        /\ wrote' = "error"
        /\ CloseImpl(s)

\* Socket::close, with the Socket::shutdown that precedes it
Close(s) ==
  /\ Main(s)
  /\ CloseImpl(s)
  /\ UNCHANGED <<owner, wrote>>

\* Socket::accept_nonblock on a listening socket; a client that does not fit
\* into the SocketSet is closed at once.
Accept(s, c) ==
  /\ Main(s) /\ Unused(c)
  /\ state[s] = "Connected" /\ target[s] = Anyone
  /\ HasRoom
  /\ \E h \in Handles :
       /\ peer[h] = Closed
       /\ peer'   = [peer EXCEPT ![h] = Remote]
       /\ handle' = [handle EXCEPT ![c] = h]
       /\ inSet'  = inSet \cup {h}
  /\ owner'  = [owner EXCEPT ![c] = TRUE]
  /\ state'  = [state EXCEPT ![c] = "Connected"]
  /\ useTLS' = [useTLS EXCEPT ![c] = FALSE]
  /\ target' = [target EXCEPT ![c] = Remote]
  /\ UNCHANGED <<session, refused, thread, workerVars, blocked, request, wrote>>

\* SDLNet_TCP_Accept fails
AcceptFails(s) ==
  /\ Main(s)
  /\ state[s] = "Connected" /\ target[s] = Anyone
  /\ CloseImpl(s)
  /\ UNCHANGED <<owner, wrote>>

-----------------------------------------------------------------------------
(* Socket::worker, one action per critical section or blocking call.       *)

\* The mutex of the worker's SharedState is free.
Lock(w) == pc[w] # "idle" /\ blocked # of[w]

Goto(w, phase) == pc' = [pc EXCEPT ![w] = phase]

\* Mutant of WorkerStopped: the socket that was opened meanwhile is dropped.
WorkerStoppedLeaks(w) ==
  /\ Lock(w) /\ stop[w]
  /\ pc[w] \in {"start", "resolving", "opened"}
  /\ Goto(w, "exit")
  /\ UNCHANGED <<sharedVars, stop, of, goal, sock, thread, peer, inSet, blocked,
                 request, wrote>>

\* A stop was requested: leave without touching the shared state.  A socket
\* that was opened meanwhile is the worker's own to close.
WorkerStopped(w) ==
  /\ Lock(w) /\ stop[w]
  /\ pc[w] \in {"start", "resolving", "opened"}
  /\ Goto(w, "exit")
  /\ peer' = [h \in Handles |-> IF h = sock[w] THEN Closed ELSE peer[h]]
  /\ sock' = [sock EXCEPT ![w] = None]
  /\ UNCHANGED <<sharedVars, stop, of, goal, thread, inSet, blocked, request,
                 wrote>>

\* First critical section: copy the host.  A server has nothing to resolve.
WorkerStart(w) ==
  /\ Lock(w) /\ ~stop[w]
  /\ pc[w] = "start"
  /\ goal' = [goal EXCEPT ![w] = target[of[w]]]
  /\ Goto(w, IF target[of[w]] = Anyone THEN "opening" ELSE "resolving")
  /\ UNCHANGED <<sharedVars, stop, of, sock, thread, peer, inSet, blocked,
                 request, wrote>>

\* Mutant of WorkerFailsEarly: the state is left alone.
WorkerFailsSilently(w) ==
  /\ Lock(w) /\ ~stop[w]
  /\ pc[w] = "resolving"
  /\ Goto(w, "exit")
  /\ UNCHANGED <<sharedVars, stop, of, goal, sock, thread, peer, inSet, blocked,
                 request, wrote>>

\* SDLNet_ResolveHost succeeded; start a TLS session when asked to.
WorkerResolved(w) ==
  /\ Lock(w) /\ ~stop[w]
  /\ pc[w] = "resolving"
  /\ session' = IF useTLS[of[w]] THEN [session EXCEPT ![of[w]] = "handshaking"]
                                 ELSE session
  /\ Goto(w, "opening")
  /\ UNCHANGED <<owner, state, useTLS, target, handle, refused, stop, of, goal,
                 sock, thread, peer, inSet, blocked, request, wrote>>

\* SDLNet_ResolveHost failed, or the TLS session could not be set up.
WorkerFailsEarly(w) ==
  /\ Lock(w) /\ ~stop[w]
  /\ pc[w] = "resolving"
  /\ \/ UNCHANGED session
     \/ /\ useTLS[of[w]]
        /\ session' = [session EXCEPT ![of[w]] = "none"]
  /\ state' = [state EXCEPT ![of[w]] = "Disconnected"]
  /\ Goto(w, "exit")
  /\ UNCHANGED <<owner, useTLS, target, handle, refused, stop, of, goal, sock,
                 thread, peer, inSet, blocked, request, wrote>>

\* SDLNet_TCP_Open returns, without the mutex: a new handle or nullptr.
WorkerOpen(w) ==
  /\ pc[w] = "opening"
  /\ Goto(w, "opened")
  /\ \/ \E h \in Handles :
          /\ peer[h] = Closed
          /\ peer' = [peer EXCEPT ![h] = goal[w]]
          /\ sock' = [sock EXCEPT ![w] = h]
     \/ UNCHANGED <<peer, sock>>
  /\ UNCHANGED <<sharedVars, stop, of, goal, thread, inSet, blocked, request,
                 wrote>>

\* TCP_Open had failed.  A TLS session that was set up stays behind.
WorkerOpenFailed(w) ==
  /\ Lock(w) /\ ~stop[w]
  /\ pc[w] = "opened" /\ sock[w] = None
  /\ state' = [state EXCEPT ![of[w]] = "Disconnected"]
  /\ Goto(w, "exit")
  /\ UNCHANGED <<owner, useTLS, target, handle, session, refused, stop, of,
                 goal, sock, thread, peer, inSet, blocked, request, wrote>>

\* The SocketSet is full: the handle is closed, the state stays Connecting.
WorkerRefused(w) ==
  /\ Lock(w) /\ ~stop[w]
  /\ pc[w] = "opened" /\ sock[w] # None
  /\ ~HasRoom
  /\ peer'    = [peer EXCEPT ![sock[w]] = Closed]
  /\ sock'    = [sock EXCEPT ![w] = None]
  /\ refused' = [refused EXCEPT ![of[w]] = TRUE]
  /\ Goto(w, "exit")
  /\ UNCHANGED <<owner, state, useTLS, target, handle, session, stop, of, goal,
                 thread, inSet, blocked, request, wrote>>

\* Mutant of WorkerPublish: no look at the stop token after TCP_Open.
WorkerPublishLate(w) ==
  /\ Lock(w)
  /\ pc[w] = "opened" /\ sock[w] # None
  /\ HasRoom
  /\ inSet'  = inSet \cup {sock[w]}
  /\ handle' = [handle EXCEPT ![of[w]] = sock[w]]
  /\ sock'   = [sock EXCEPT ![w] = None]
  /\ state'  = [state EXCEPT ![of[w]] = IF useTLS[of[w]] THEN "TLSHandshaking"
                                                         ELSE "Connected"]
  /\ Goto(w, "exit")
  /\ UNCHANGED <<owner, useTLS, target, session, refused, stop, of, goal,
                 thread, peer, blocked, request, wrote>>

\* Hand the handle over to the SharedState.
WorkerPublish(w) ==
  /\ Lock(w) /\ ~stop[w]
  /\ pc[w] = "opened" /\ sock[w] # None
  /\ HasRoom
  /\ inSet'  = inSet \cup {sock[w]}
  /\ handle' = [handle EXCEPT ![of[w]] = sock[w]]
  /\ sock'   = [sock EXCEPT ![w] = None]
  /\ state'  = [state EXCEPT ![of[w]] = IF useTLS[of[w]] THEN "TLSHandshaking"
                                                         ELSE "Connected"]
  /\ Goto(w, "exit")
  /\ UNCHANGED <<owner, useTLS, target, session, refused, stop, of, goal,
                 thread, peer, blocked, request, wrote>>

\* The thread ends: joinable until joined or detached.
WorkerExit(w) ==
  /\ pc[w] = "exit"
  /\ Goto(w, IF thread[of[w]] = w THEN "done" ELSE "idle")
  /\ UNCHANGED <<sharedVars, stop, of, goal, sock, thread, peer, inSet,
                 blocked, request, wrote>>

Worker(w) ==
  \/ WorkerStopped(w)
  \/ WorkerStart(w)
  \/ WorkerResolved(w)
  \/ WorkerFailsEarly(w)
  \/ WorkerOpen(w)
  \/ WorkerOpenFailed(w)
  \/ WorkerRefused(w)
  \/ WorkerPublish(w)
  \/ WorkerExit(w)

User(s) ==
  \/ Construct(s)
  \/ Destroy(s)
  \/ SetTLS(s)
  \/ \E host \in Hosts \cup {Anyone} : StartConnect(s, host)
  \/ TLSHandshake(s)
  \/ ReadFails(s)
  \/ WritePlain(s)
  \/ WriteTLS(s)
  \/ Close(s)
  \/ \E c \in Sockets : Accept(s, c)
  \/ AcceptFails(s)

Next ==
  \/ \E s \in Sockets : User(s) \/ JoinReturns(s)
  \/ \E w \in Workers : Worker(w)

\* Threads are scheduled, resolving and opening return some day, and a join
\* returns once its thread has ended.  Strong fairness: the main thread sleeps
\* between its ticks without any mutex (application.cpp:343), so a worker that
\* waits for the mutex gets it although start_connect may hold it time and
\* again.  Nothing forces the user to do anything.
Fairness ==
  /\ \A w \in Workers : SF_vars(Worker(w))
  /\ \A s \in Sockets : WF_vars(JoinReturns(s))

Spec == Init /\ [][Next]_vars /\ Fairness

-----------------------------------------------------------------------------
(* Properties.                                                             *)

Active(w) == pc[w] \in {"start", "resolving", "opening", "opened"}

\* Handle h is held by a SharedState or is still in the hands of a worker.
Held(h) == (\E s \in Sockets : handle[s] = h) \/ (\E w \in Workers : sock[w] = h)

\* A TCP handle is open exactly while someone holds it, and never two hold it:
\* no attempt, abandoned, failed or refused, leaks a connection, and none is
\* closed twice or under someone's feet (close_impl, worker).
HandlesOwned ==
  /\ \A h \in Handles : peer[h] # Closed <=> Held(h)
  /\ \A s, t \in Sockets : s # t /\ handle[s] # None => handle[s] # handle[t]
  /\ \A v, w \in Workers : v # w /\ sock[v] # None => sock[v] # sock[w]
  /\ \A s \in Sockets, w \in Workers :
       handle[s] # None => handle[s] # sock[w]

\* SocketSet::poll looks at exactly the published sockets, never at a closed
\* one, and a socket is published exactly in the two states that use it.
PollsPublishedOnly ==
  /\ inSet = {handle[s] : s \in Sockets} \ {None}
  /\ \A s \in Sockets :
       handle[s] # None <=> state[s] \in {"TLSHandshaking", "Connected"}

\* A socket is connected to the host that was asked for last, although the
\* worker of an abandoned attempt to another host may finish at any time.
ConnectedToTarget ==
  \A s \in Sockets : handle[s] # None => peer[handle[s]] = target[s]

\* At most one worker per socket was not told to stop, it is the one that
\* m_worker_thread refers to, and it works on a Connecting socket of an owner.
OneActiveWorker ==
  \A w \in Workers :
    Active(w) /\ ~stop[w] =>
      /\ thread[of[w]] = w
      /\ state[of[w]] = "Connecting"
      /\ owner[of[w]]

\* start_connect joins with the mutex held; it never waits for a thread that
\* needs the mutex.
JoinNeedsNoLock ==
  blocked # None => thread[blocked] # None
                    /\ pc[thread[blocked]] \in {"exit", "done"}

\* A Connecting socket has its worker busy with it; the only way to lose the
\* worker and stay Connecting is a full SocketSet.
ConnectingHasWorker ==
  \A s \in Sockets :
    state[s] = "Connecting" =>
      refused[s] \/ (thread[s] # None /\ Active(thread[s]) /\ ~stop[thread[s]]
                     /\ of[thread[s]] = s)

\* A TLS client is Connected only when its handshake is through, and it has a
\* session from the moment its socket is published.
TLSBeforeConnected ==
  \A s \in Sockets :
    useTLS[s] /\ target[s] # Anyone =>
      /\ state[s] = "TLSHandshaking" => session[s] # "none"
      /\ state[s] = "Connected" => session[s] = "up"

\* ~SharedState asserts "socket not closed at SharedState destruction"
\* (util_socket.cpp:41): without an owner there is no handle, whatever worker
\* still runs.
ClosedAtDestruction ==
  \A s \in Sockets : ~owner[s] => handle[s] = None /\ state[s] = "Disconnected"

\* What the pool of sockets must hold to, with a full set, too: no handle is polled
\* that is not a published one, none outlives its socket, and one that does not fit is
\* closed by whom it was left with (SocketSet::poll, ~SharedState, worker,
\* accept_nonblock).
PoolHolds == PollsPublishedOnly /\ ClosedAtDestruction /\ HandlesOwned

\* A socket that was closed stays closed until its owner connects it again: no
\* worker, whatever it still has in hand, turns Disconnected into a live state
\* (the only socket born live is the one accept_nonblock constructs).
NoLateConnect ==
  [][\A s \in Sockets :
       state[s] = "Disconnected" /\ state'[s] \in {"TLSHandshaking", "Connected"}
         => ~owner[s] /\ owner'[s]]_vars

\* Every attempt comes to an end, unless the SocketSet was full, and what an
\* abandoned worker has opened is closed in the end (worker).
AttemptsSettle ==
  /\ \A s \in Sockets :
       state[s] = "Connecting" ~> (state[s] # "Connecting" \/ refused[s])
  /\ \A w \in Workers : (stop[w] /\ sock[w] # None) ~> sock[w] = None

\* Where a socket leads: the peer of its handle.
FarEnd == [s \in Sockets |-> IF handle[s] = None THEN NoHost ELSE peer[handle[s]]]

\* Users may think of a Socket as a Connection: workers, their handles and
\* their leftovers never show (start_connect, worker, close_impl).
Conn == INSTANCE Connection WITH
          Destinations <- Hosts \cup {Anyone}, Nobody <- NoHost,
          phase <- state, wanted <- target, linked <- FarEnd
ImplementsConnection == Conn!Spec

\* util_socket.cpp:287 asserts that a write sends everything or fails.
WriteAllOrError == wrote # "short"

=============================================================================
