---------------------------- MODULE SocketProofs ----------------------------
(***************************************************************************)
(* Proofs about Socket for any number of sockets, threads and handles, and *)
(* that a Socket with its workers implements a Connection: every step of   *)
(* the main thread or of a worker is a step of the Connection or none at   *)
(* all.                                                                    *)
(***************************************************************************)
EXTENDS Socket, TLAPS

USE NoneAssumption

(***************************************************************************)
(* The inductive invariant.  Its first part says what a worker knows of    *)
(* its socket at every point of its run, the second what the main thread   *)
(* may rely on, the third who holds which TCP handle.                      *)
(***************************************************************************)

\* A worker that is under way belongs to a socket; it has a handle only
\* between TCP_Open and the critical section after it; unless it was told to
\* stop it works on the current target, and it is the socket's own thread.
WorkerInv ==
  \A w \in Workers :
    /\ pc[w] # "idle" => of[w] \in Sockets
    /\ sock[w] # None => pc[w] = "opened" /\ peer[sock[w]] = goal[w]
                         /\ goal[w] \in Peers
    /\ pc[w] = "opening" => goal[w] \in Peers
    /\ Active(w) /\ ~stop[w] => thread[of[w]] = w /\ state[of[w]] = "Connecting"
    /\ pc[w] \in {"resolving", "opening", "opened"} /\ ~stop[w]
         => goal[w] = target[of[w]]
    /\ pc[w] = "done" => thread[of[w]] = w

\* What holds between a socket and its thread.
SocketInv ==
  \A s \in Sockets :
    /\ thread[s] # None => /\ of[thread[s]] = s
                           /\ pc[thread[s]] # "idle"
                           /\ ~stop[thread[s]]
    /\ ~owner[s] => thread[s] = None /\ state[s] = "Disconnected"
    /\ state[s] = "Connecting" => target[s] \in Peers
    /\ handle[s] # None <=> state[s] \in {"TLSHandshaking", "Connected"}
    /\ handle[s] # None => peer[handle[s]] = target[s]
    /\ state[s] = "Connecting" =>
         refused[s] \/ (thread[s] # None /\ Active(thread[s]))

\* The main thread waits only for the thread of a socket that it owns.
JoinInv ==
  blocked # None => /\ owner[blocked]
                    /\ state[blocked] = "Disconnected"
                    /\ thread[blocked] # None
                    /\ request \in Hosts \cup {Anyone}

\* The SocketSet holds exactly the published handles.
SetInv == inSet = {handle[s] : s \in Sockets} \ {None}

\* TLS is for clients; its session is there when the handle is published.
TLSInv ==
  /\ \A s \in Sockets :
       useTLS[s] /\ target[s] # Anyone =>
         /\ state[s] = "TLSHandshaking" => session[s] # "none"
         /\ state[s] = "Connected" => session[s] = "up"
  /\ \A w \in Workers :
       pc[w] \in {"opening", "opened"} /\ ~stop[w] /\ useTLS[of[w]] /\ target[of[w]] # Anyone
         => session[of[w]] # "none"

IInv ==
  /\ TypeOK
  /\ WorkerInv
  /\ SocketInv
  /\ JoinInv
  /\ HandlesOwned
  /\ SetInv
  /\ TLSInv

\* Initially nothing is held, nothing runs.
LEMMA InitIInv == Init => IInv
BY HostAssumption DEF Init, IInv, TypeOK, WorkerInv, SocketInv, JoinInv, HandlesOwned, Held,
   SetInv, TLSInv, States, Sessions, Phases, Peers, Active

\* close_impl gives up handle, session and thread together, whether or not the
\* owner goes with them (close, ~Socket, and the failing TLS operations).
LEMMA CloseImplStep ==
  ASSUME IInv, NEW s \in Sockets, Main(s), CloseImpl(s),
         owner' = owner \/ owner' = [owner EXCEPT ![s] = FALSE],
         wrote' \in {"nothing", "all", "short", "error"}
  PROVE  IInv'
<1> USE HostAssumption DEF IInv, TypeOK, States, Sessions, Phases, Peers,
           CloseImpl, CloseShared, DetachWorker, Main
<1>1. TypeOK'
  <2>1. owner' \in [Sockets -> BOOLEAN]
    OBVIOUS
  <2>2. pc' \in [Workers -> Phases] /\ stop' \in [Workers -> BOOLEAN]
    OBVIOUS
  <2>3. inSet' \in SUBSET Handles /\ peer' \in [Handles -> Peers \cup {Closed}]
    OBVIOUS
  <2> QED
    BY <2>1, <2>2, <2>3
<1>2. WorkerInv'
  BY DEF WorkerInv, SocketInv, JoinInv, HandlesOwned, Held, Active
<1>3. SocketInv'
  BY DEF WorkerInv, SocketInv, JoinInv, HandlesOwned, Held, Active
<1>4. JoinInv'
  BY DEF JoinInv, SocketInv
<1>5. HandlesOwned'
  BY DEF WorkerInv, SocketInv, HandlesOwned, Held
<1>6. SetInv'
  BY DEF SetInv, SocketInv, HandlesOwned
<1>7. TLSInv'
  BY DEF TLSInv, WorkerInv, SocketInv, JoinInv, Active
<1> QED
  BY <1>1, <1>2, <1>3, <1>4, <1>5, <1>6, <1>7

\* A dropped connection gives up the handle and keeps the finished thread
\* (SharedState::set_result).
LEMMA DropStep ==
  ASSUME IInv, NEW s \in Sockets, Main(s), DropConnection(s),
         wrote' \in {"nothing", "all", "short", "error"}
  PROVE  IInv'
<1> USE HostAssumption DEF IInv, TypeOK, States, Sessions, Phases, Peers,
           DropConnection, CloseShared, Main, workerVars, sharedVars, vars
<1>1. TypeOK'
  BY DEF WorkerInv, JoinInv
<1>2. WorkerInv'
  BY DEF WorkerInv, SocketInv, JoinInv, HandlesOwned, Held, Active
<1>3. SocketInv'
  BY DEF WorkerInv, SocketInv, JoinInv, HandlesOwned, Held, Active
<1>4. JoinInv'
  BY DEF JoinInv, SocketInv
<1>5. HandlesOwned'
  BY DEF WorkerInv, SocketInv, HandlesOwned, Held
<1>6. SetInv'
  BY DEF SetInv, SocketInv, HandlesOwned
<1>7. TLSInv'
  BY DEF TLSInv, WorkerInv, SocketInv, JoinInv, Active
<1> QED
  BY <1>1, <1>2, <1>3, <1>4, <1>5, <1>6, <1>7

\* A worker is started on a Disconnected socket once its last thread is done,
\* so it is the only one that is not stopped (start_connect after the join).
LEMMA LaunchStep ==
  ASSUME IInv, NEW s \in Sockets, NEW host \in Hosts \cup {Anyone},
         Launch(s, host), owner[s], state[s] = "Disconnected",
         thread[s] # None => pc[thread[s]] = "done",
         blocked' = None, blocked \in {s, None}, request' \in Peers \cup {NoHost}
  PROVE  IInv'
<1> USE HostAssumption DEF IInv, TypeOK, States, Sessions, Phases, Peers,
           Launch, Main, workerVars, sharedVars, vars
<1>1. TypeOK'
  BY DEF WorkerInv, JoinInv
<1>2. WorkerInv'
  BY DEF WorkerInv, SocketInv, JoinInv, HandlesOwned, Held, Active
<1>3. SocketInv'
  BY DEF WorkerInv, SocketInv, JoinInv, HandlesOwned, Held, Active
<1>4. JoinInv'
  BY DEF JoinInv, SocketInv
<1>5. HandlesOwned'
  BY DEF WorkerInv, SocketInv, HandlesOwned, Held
<1>6. SetInv'
  BY DEF SetInv, SocketInv, HandlesOwned
<1>7. TLSInv'
  BY DEF TLSInv, WorkerInv, SocketInv, JoinInv, Active
<1> QED
  BY <1>1, <1>2, <1>3, <1>4, <1>5, <1>6, <1>7

\* What tls_handshake does when the handshake is through.
Handshaken(s) ==
  /\ session' = [session EXCEPT ![s] = "up"]
  /\ state'   = [state EXCEPT ![s] = "Connected"]
  /\ UNCHANGED <<owner, useTLS, target, handle, refused, thread, workerVars,
                 peer, inSet, blocked, request>>

\* The session is up at the moment the socket becomes Connected (tls_handshake).
LEMMA HandshakenStep ==
  ASSUME IInv, NEW s \in Sockets, Main(s), state[s] = "TLSHandshaking",
         Handshaken(s), UNCHANGED wrote
  PROVE  IInv'
<1> USE HostAssumption DEF IInv, TypeOK, States, Sessions, Phases, Peers,
           Handshaken, Main, workerVars
<1>1. TypeOK'
  OBVIOUS
<1>2. WorkerInv'
  BY DEF WorkerInv, SocketInv, Active
<1>3. SocketInv'
  BY DEF SocketInv, Active
<1>4. JoinInv'
  BY DEF JoinInv
<1>5. HandlesOwned'
  BY DEF HandlesOwned, Held
<1>6. SetInv'
  BY DEF SetInv
<1>7. TLSInv'
  BY DEF TLSInv, WorkerInv, SocketInv, JoinInv, Active
<1> QED
  BY <1>1, <1>2, <1>3, <1>4, <1>5, <1>6, <1>7

\* A write or read that changes nothing but what it returns (write).
LEMMA WroteStep ==
  ASSUME IInv, wrote' \in {"nothing", "all", "short", "error"},
         UNCHANGED <<sharedVars, workerVars, thread, peer, inSet, blocked, request>>
  PROVE  IInv'
BY DEF IInv, sharedVars, workerVars, TypeOK, WorkerInv, SocketInv, JoinInv,
       HandlesOwned, Held, SetInv, TLSInv, Active

\* start_connect either starts a worker or waits for the last one.
LEMMA StartConnectStep ==
  ASSUME IInv, NEW s \in Sockets, NEW host \in Hosts \cup {Anyone},
         StartConnect(s, host)
  PROVE  IInv'
<1>1. ASSUME thread[s] # None => pc[thread[s]] = "done",
             Launch(s, host), UNCHANGED <<blocked, request>>
      PROVE  IInv'
  BY <1>1, LaunchStep DEF StartConnect, Main, IInv, TypeOK
<1>2. CASE /\ thread[s] # None /\ blocked' = s /\ request' = host
           /\ UNCHANGED <<sharedVars, workerVars, thread, peer, inSet, wrote>>
  BY <1>2 DEF StartConnect, Main, IInv, sharedVars, workerVars, TypeOK, Peers, WorkerInv,
     SocketInv, JoinInv, HandlesOwned, Held, SetInv, TLSInv, Active
<1> QED
  BY <1>1, <1>2 DEF StartConnect

\* A new SharedState is one that no worker holds any more, so nothing of an
\* earlier owner's attempts is left in it (Socket::Socket).
LEMMA ConstructStep ==
  ASSUME IInv, NEW s \in Sockets, Construct(s)
  PROVE  IInv'
<1> USE HostAssumption DEF IInv, TypeOK, States, Sessions, Phases, Peers,
           Construct, Main, Unused, workerVars, sharedVars, vars
<1>1. TypeOK'
  BY DEF WorkerInv, JoinInv
<1>2. WorkerInv'
  BY DEF WorkerInv, SocketInv, JoinInv, HandlesOwned, Held, Active
<1>3. SocketInv'
  BY DEF WorkerInv, SocketInv, JoinInv, HandlesOwned, Held, Active
<1>4. JoinInv'
  BY DEF JoinInv, SocketInv
<1>5. HandlesOwned'
  BY DEF WorkerInv, SocketInv, HandlesOwned, Held
<1>6. SetInv'
  BY DEF SetInv, SocketInv, HandlesOwned
<1>7. TLSInv'
  BY DEF TLSInv, WorkerInv, SocketInv, JoinInv, Active
<1> QED
  BY <1>1, <1>2, <1>3, <1>4, <1>5, <1>6, <1>7

\* set_tls is called on a Disconnected socket only; no live session and no
\* worker that has passed its TLS step depends on the flag it turns.
LEMMA SetTLSStep ==
  ASSUME IInv, NEW s \in Sockets, SetTLS(s)
  PROVE  IInv'
<1> USE HostAssumption DEF IInv, TypeOK, States, Sessions, Phases, Peers,
           SetTLS, Main, Unused, workerVars, sharedVars, vars
<1>1. TypeOK'
  BY DEF WorkerInv, JoinInv
<1>2. WorkerInv'
  BY DEF WorkerInv, SocketInv, JoinInv, HandlesOwned, Held, Active
<1>3. SocketInv'
  BY DEF WorkerInv, SocketInv, JoinInv, HandlesOwned, Held, Active
<1>4. JoinInv'
  BY DEF JoinInv, SocketInv
<1>5. HandlesOwned'
  BY DEF WorkerInv, SocketInv, HandlesOwned, Held
<1>6. SetInv'
  BY DEF SetInv, SocketInv, HandlesOwned
<1>7. TLSInv'
  BY DEF TLSInv, WorkerInv, SocketInv, JoinInv, Active
<1> QED
  BY <1>1, <1>2, <1>3, <1>4, <1>5, <1>6, <1>7

\* An accepted client is born connected, with a handle that nobody held
\* (accept_nonblock).
LEMMA AcceptStep ==
  ASSUME IInv, NEW s \in Sockets, NEW c \in Sockets, Accept(s, c)
  PROVE  IInv'
<1> USE HostAssumption DEF IInv, TypeOK, States, Sessions, Phases, Peers,
           Accept, Main, Unused, HasRoom, workerVars, sharedVars, vars
<1>1. TypeOK'
  BY DEF WorkerInv, JoinInv
<1>2. WorkerInv'
  BY DEF WorkerInv, SocketInv, JoinInv, HandlesOwned, Held, Active
<1>3. SocketInv'
  BY DEF WorkerInv, SocketInv, JoinInv, HandlesOwned, Held, Active
<1>4. JoinInv'
  BY DEF JoinInv, SocketInv
<1>5. HandlesOwned'
  <2>1. PICK h \in Handles : /\ peer[h] = Closed
                             /\ peer' = [peer EXCEPT ![h] = Remote]
                             /\ handle' = [handle EXCEPT ![c] = h]
    OBVIOUS
  <2>2. ~Held(h) /\ handle[c] = None
    BY <2>1 DEF HandlesOwned, SocketInv
  <2>3. \A g \in Handles : (peer[g] # Closed <=> Held(g))'
    BY <2>1, <2>2 DEF HandlesOwned, Held, Remote, Closed
  <2>4. \A t \in Sockets : t # c => handle'[t] = handle[t] /\ handle'[t] # h
    BY <2>1, <2>2 DEF Held
  <2>5. \A w \in Workers : sock'[w] = sock[w] /\ sock[w] # h
    BY <2>2 DEF Held
  <2> QED
    BY <2>1, <2>2, <2>3, <2>4, <2>5 DEF HandlesOwned
<1>6. SetInv'
  BY DEF SetInv, SocketInv, HandlesOwned
<1>7. TLSInv'
  BY DEF TLSInv, WorkerInv, SocketInv, JoinInv, Active
<1> QED
  BY <1>1, <1>2, <1>3, <1>4, <1>5, <1>6, <1>7

\* A stopped worker closes the handle that only it held and leaves the shared
\* state alone (worker).
LEMMA WorkerStoppedStep ==
  ASSUME IInv, NEW w \in Workers, WorkerStopped(w)
  PROVE  IInv'
<1> USE HostAssumption DEF IInv, TypeOK, States, Sessions, Phases, Peers,
           WorkerStopped, Lock, Goto, HasRoom, workerVars, sharedVars, vars
<1>1. TypeOK'
  BY DEF WorkerInv, JoinInv
<1>2. WorkerInv'
  BY DEF WorkerInv, SocketInv, JoinInv, HandlesOwned, Held, Active
<1>3. SocketInv'
  BY DEF WorkerInv, SocketInv, JoinInv, HandlesOwned, Held, Active
<1>4. JoinInv'
  BY DEF JoinInv, SocketInv
<1>5. HandlesOwned'
  BY DEF WorkerInv, SocketInv, HandlesOwned, Held
<1>6. SetInv'
  BY DEF SetInv, SocketInv, HandlesOwned
<1>7. TLSInv'
  BY DEF TLSInv, WorkerInv, SocketInv, JoinInv, Active
<1> QED
  BY <1>1, <1>2, <1>3, <1>4, <1>5, <1>6, <1>7

\* From here on a worker that is not stopped has the current target as its
\* goal (worker, first critical section).
LEMMA WorkerStartStep ==
  ASSUME IInv, NEW w \in Workers, WorkerStart(w)
  PROVE  IInv'
<1> USE HostAssumption DEF IInv, TypeOK, States, Sessions, Phases, Peers,
           WorkerStart, Lock, Goto, HasRoom, workerVars, sharedVars, vars
<1>1. TypeOK'
  BY DEF WorkerInv, JoinInv
<1>2. WorkerInv'
  BY DEF WorkerInv, SocketInv, JoinInv, HandlesOwned, Held, Active
<1>3. SocketInv'
  BY DEF WorkerInv, SocketInv, JoinInv, HandlesOwned, Held, Active
<1>4. JoinInv'
  BY DEF JoinInv, SocketInv
<1>5. HandlesOwned'
  BY DEF WorkerInv, SocketInv, HandlesOwned, Held
<1>6. SetInv'
  BY DEF SetInv, SocketInv, HandlesOwned
<1>7. TLSInv'
  BY DEF TLSInv, WorkerInv, SocketInv, JoinInv, Active
<1> QED
  BY <1>1, <1>2, <1>3, <1>4, <1>5, <1>6, <1>7

\* The TLS session is there before the connection is opened (worker, after
\* SDLNet_ResolveHost).
LEMMA WorkerResolvedStep ==
  ASSUME IInv, NEW w \in Workers, WorkerResolved(w)
  PROVE  IInv'
<1> USE HostAssumption DEF IInv, TypeOK, States, Sessions, Phases, Peers,
           WorkerResolved, Lock, Goto, HasRoom, workerVars, sharedVars, vars
<1>1. TypeOK'
  BY DEF WorkerInv, JoinInv
<1>2. WorkerInv'
  BY DEF WorkerInv, SocketInv, JoinInv, HandlesOwned, Held, Active
<1>3. SocketInv'
  BY DEF WorkerInv, SocketInv, JoinInv, HandlesOwned, Held, Active
<1>4. JoinInv'
  BY DEF JoinInv, SocketInv
<1>5. HandlesOwned'
  BY DEF WorkerInv, SocketInv, HandlesOwned, Held
<1>6. SetInv'
  BY DEF SetInv, SocketInv, HandlesOwned
<1>7. TLSInv'
  BY DEF TLSInv, WorkerInv, SocketInv, JoinInv, Active
<1> QED
  BY <1>1, <1>2, <1>3, <1>4, <1>5, <1>6, <1>7

\* An attempt that cannot be resolved ends Disconnected, with no handle (worker).
LEMMA WorkerFailsEarlyStep ==
  ASSUME IInv, NEW w \in Workers, WorkerFailsEarly(w)
  PROVE  IInv'
<1> USE HostAssumption DEF IInv, TypeOK, States, Sessions, Phases, Peers,
           WorkerFailsEarly, Lock, Goto, HasRoom, workerVars, sharedVars, vars
<1>1. TypeOK'
  BY DEF WorkerInv, JoinInv
<1>2. WorkerInv'
  BY DEF WorkerInv, SocketInv, JoinInv, HandlesOwned, Held, Active
<1>3. SocketInv'
  BY DEF WorkerInv, SocketInv, JoinInv, HandlesOwned, Held, Active
<1>4. JoinInv'
  BY DEF JoinInv, SocketInv
<1>5. HandlesOwned'
  BY DEF WorkerInv, SocketInv, HandlesOwned, Held
<1>6. SetInv'
  BY DEF SetInv, SocketInv, HandlesOwned
<1>7. TLSInv'
  BY DEF TLSInv, WorkerInv, SocketInv, JoinInv, Active
<1> QED
  BY <1>1, <1>2, <1>3, <1>4, <1>5, <1>6, <1>7

\* SDLNet_TCP_Open gives the worker a handle that nobody held (worker, without
\* the mutex).
LEMMA WorkerOpenStep ==
  ASSUME IInv, NEW w \in Workers, WorkerOpen(w)
  PROVE  IInv'
<1> USE HostAssumption DEF IInv, TypeOK, States, Sessions, Phases, Peers,
           WorkerOpen, Lock, Goto, HasRoom, workerVars, sharedVars, vars
<1>1. TypeOK'
  BY DEF WorkerInv, JoinInv
<1>2. WorkerInv'
  BY DEF WorkerInv, SocketInv, JoinInv, HandlesOwned, Held, Active
<1>3. SocketInv'
  BY DEF WorkerInv, SocketInv, JoinInv, HandlesOwned, Held, Active
<1>4. JoinInv'
  BY DEF JoinInv, SocketInv
<1>5. HandlesOwned'
  <2>1. CASE UNCHANGED <<peer, sock>>
    BY <2>1 DEF HandlesOwned, Held
  <2>2. ASSUME NEW h \in Handles, peer[h] = Closed,
               peer' = [peer EXCEPT ![h] = goal[w]],
               sock' = [sock EXCEPT ![w] = h]
        PROVE  HandlesOwned'
    <3>1. ~Held(h) /\ sock[w] = None /\ goal[w] # Closed
      BY <2>2 DEF HandlesOwned, WorkerInv, Anyone, Remote, Closed
    <3>2. \A g \in Handles : (peer[g] # Closed <=> Held(g))'
      BY <2>2, <3>1 DEF HandlesOwned, Held
    <3>3. \A v \in Workers : v # w => sock'[v] = sock[v] /\ sock'[v] # h
      BY <2>2, <3>1 DEF Held
    <3>4. \A t \in Sockets : handle'[t] = handle[t] /\ handle[t] # h
      BY <3>1 DEF Held
    <3> QED
      BY <2>2, <3>1, <3>2, <3>3, <3>4 DEF HandlesOwned
  <2> QED
    BY <2>1, <2>2
<1>6. SetInv'
  BY DEF SetInv, SocketInv, HandlesOwned
<1>7. TLSInv'
  BY DEF TLSInv, WorkerInv, SocketInv, JoinInv, Active
<1> QED
  BY <1>1, <1>2, <1>3, <1>4, <1>5, <1>6, <1>7

\* A failed SDLNet_TCP_Open ends the attempt Disconnected (worker).
LEMMA WorkerOpenFailedStep ==
  ASSUME IInv, NEW w \in Workers, WorkerOpenFailed(w)
  PROVE  IInv'
<1> USE HostAssumption DEF IInv, TypeOK, States, Sessions, Phases, Peers,
           WorkerOpenFailed, Lock, Goto, HasRoom, workerVars, sharedVars, vars
<1>1. TypeOK'
  BY DEF WorkerInv, JoinInv
<1>2. WorkerInv'
  BY DEF WorkerInv, SocketInv, JoinInv, HandlesOwned, Held, Active
<1>3. SocketInv'
  BY DEF WorkerInv, SocketInv, JoinInv, HandlesOwned, Held, Active
<1>4. JoinInv'
  BY DEF JoinInv, SocketInv
<1>5. HandlesOwned'
  BY DEF WorkerInv, SocketInv, HandlesOwned, Held
<1>6. SetInv'
  BY DEF SetInv, SocketInv, HandlesOwned
<1>7. TLSInv'
  BY DEF TLSInv, WorkerInv, SocketInv, JoinInv, Active
<1> QED
  BY <1>1, <1>2, <1>3, <1>4, <1>5, <1>6, <1>7

\* A handle that the full SocketSet refuses is closed by the worker (worker).
LEMMA WorkerRefusedStep ==
  ASSUME IInv, NEW w \in Workers, WorkerRefused(w)
  PROVE  IInv'
<1> USE HostAssumption DEF IInv, TypeOK, States, Sessions, Phases, Peers,
           WorkerRefused, Lock, Goto, HasRoom, workerVars, sharedVars, vars
<1>1. TypeOK'
  BY DEF WorkerInv, JoinInv
<1>2. WorkerInv'
  BY DEF WorkerInv, SocketInv, JoinInv, HandlesOwned, Held, Active
<1>3. SocketInv'
  BY DEF WorkerInv, SocketInv, JoinInv, HandlesOwned, Held, Active
<1>4. JoinInv'
  BY DEF JoinInv, SocketInv
<1>5. HandlesOwned'
  BY DEF WorkerInv, SocketInv, HandlesOwned, Held
<1>6. SetInv'
  BY DEF SetInv, SocketInv, HandlesOwned
<1>7. TLSInv'
  BY DEF TLSInv, WorkerInv, SocketInv, JoinInv, Active
<1> QED
  BY <1>1, <1>2, <1>3, <1>4, <1>5, <1>6, <1>7

\* The handle passes from the worker to the SharedState: one holder before and
\* one after (worker, last critical section).
LEMMA WorkerPublishStep ==
  ASSUME IInv, NEW w \in Workers, WorkerPublish(w)
  PROVE  IInv'
<1> USE HostAssumption DEF IInv, TypeOK, States, Sessions, Phases, Peers,
           WorkerPublish, Lock, Goto, HasRoom, workerVars, sharedVars, vars
<1>1. TypeOK'
  BY DEF WorkerInv, JoinInv
<1>2. WorkerInv'
  BY DEF WorkerInv, SocketInv, JoinInv, HandlesOwned, Held, Active
<1>3. SocketInv'
  BY DEF WorkerInv, SocketInv, JoinInv, HandlesOwned, Held, Active
<1>4. JoinInv'
  BY DEF JoinInv, SocketInv
<1>5. HandlesOwned'
  <2>1. of[w] \in Sockets /\ handle[of[w]] = None
    BY DEF WorkerInv, SocketInv, Active
  <2>2. \A g \in Handles : (peer[g] # Closed <=> Held(g))'
    BY <2>1 DEF HandlesOwned, Held
  <2>3. \A t \in Sockets : t # of[w] => handle'[t] = handle[t] /\ handle[t] # sock[w]
    BY DEF HandlesOwned
  <2>4. handle'[of[w]] = sock[w] /\ sock'[w] = None
    BY <2>1
  <2>5. \A v \in Workers : v # w => sock'[v] = sock[v] /\ (sock[v] # None => sock[v] # sock[w])
    BY DEF HandlesOwned
  <2> QED
    BY <2>1, <2>2, <2>3, <2>4, <2>5 DEF HandlesOwned
<1>6. SetInv'
  <2>1. of[w] \in Sockets /\ handle[of[w]] = None
    BY DEF WorkerInv, SocketInv, Active
  <2>2. \A t \in Sockets : handle'[t] = IF t = of[w] THEN sock[w] ELSE handle[t]
    BY <2>1
  <2> QED
    BY <2>1, <2>2 DEF SetInv
<1>7. TLSInv'
  BY DEF TLSInv, WorkerInv, SocketInv, JoinInv, Active
<1> QED
  BY <1>1, <1>2, <1>3, <1>4, <1>5, <1>6, <1>7

\* A thread that ends holds nothing; it stays joinable if it is still the
\* socket's own (worker's return).
LEMMA WorkerExitStep ==
  ASSUME IInv, NEW w \in Workers, WorkerExit(w)
  PROVE  IInv'
<1> USE HostAssumption DEF IInv, TypeOK, States, Sessions, Phases, Peers,
           WorkerExit, Lock, Goto, HasRoom, workerVars, sharedVars, vars
<1>1. TypeOK'
  BY DEF WorkerInv, JoinInv
<1>2. WorkerInv'
  BY DEF WorkerInv, SocketInv, JoinInv, HandlesOwned, Held, Active
<1>3. SocketInv'
  BY DEF WorkerInv, SocketInv, JoinInv, HandlesOwned, Held, Active
<1>4. JoinInv'
  BY DEF JoinInv, SocketInv
<1>5. HandlesOwned'
  BY DEF WorkerInv, SocketInv, HandlesOwned, Held
<1>6. SetInv'
  BY DEF SetInv, SocketInv, HandlesOwned
<1>7. TLSInv'
  BY DEF TLSInv, WorkerInv, SocketInv, JoinInv, Active
<1> QED
  BY <1>1, <1>2, <1>3, <1>4, <1>5, <1>6, <1>7

\* Every operation of the main thread and every step of a worker keeps the
\* invariant: close() may leave any number of stopped workers behind.
LEMMA NextIInv == IInv /\ [Next]_vars => IInv'
<1> SUFFICES ASSUME IInv, [Next]_vars
             PROVE  IInv'
  OBVIOUS
<1>1. ASSUME NEW s \in Sockets, User(s)
      PROVE  IInv'
  <2>1. CASE Construct(s)
    BY <2>1, ConstructStep
  <2>2. CASE Destroy(s)
    BY <2>2, CloseImplStep DEF Destroy, IInv, TypeOK
  <2>3. CASE SetTLS(s)
    BY <2>3, SetTLSStep
  <2>4. ASSUME NEW host \in Hosts \cup {Anyone}, StartConnect(s, host)
        PROVE  IInv'
    BY <2>4, StartConnectStep
  <2>5. CASE TLSHandshake(s)
    BY <2>5, CloseImplStep, HandshakenStep DEF TLSHandshake, Handshaken, IInv, TypeOK
  <2>6. CASE ReadFails(s)
    BY <2>6, CloseImplStep, DropStep DEF ReadFails, DropConnection, IInv, TypeOK
  <2>7. CASE WritePlain(s)
    BY <2>7, DropStep, WroteStep DEF WritePlain
  <2>8. CASE WriteTLS(s)
    BY <2>8, CloseImplStep, WroteStep DEF WriteTLS, sharedVars
  <2>9. CASE Close(s)
    BY <2>9, CloseImplStep DEF Close, IInv, TypeOK
  <2>10. ASSUME NEW c \in Sockets, Accept(s, c)
         PROVE  IInv'
    BY <2>10, AcceptStep
  <2>11. CASE AcceptFails(s)
    BY <2>11, CloseImplStep DEF AcceptFails, IInv, TypeOK
  <2> QED
    BY <1>1, <2>1, <2>2, <2>3, <2>4, <2>5, <2>6, <2>7, <2>8, <2>9, <2>10, <2>11
    DEF User
<1>2. ASSUME NEW s \in Sockets, JoinReturns(s)
      PROVE  IInv'
  BY <1>2, LaunchStep DEF JoinReturns, IInv, JoinInv, TypeOK
<1>3. ASSUME NEW w \in Workers, Worker(w)
      PROVE  IInv'
  BY <1>3, WorkerStoppedStep, WorkerStartStep, WorkerResolvedStep,
     WorkerFailsEarlyStep, WorkerOpenStep, WorkerOpenFailedStep,
     WorkerRefusedStep, WorkerPublishStep, WorkerExitStep DEF Worker
<1>4. CASE UNCHANGED vars
  BY <1>4 DEF vars, sharedVars, workerVars, IInv, TypeOK, WorkerInv, SocketInv,
     JoinInv, HandlesOwned, Held, SetInv, TLSInv, Active
<1> QED
  BY <1>1, <1>2, <1>3, <1>4 DEF Next

\* The inductive invariant holds whatever the main thread calls (start_connect,
\* close, read, write, accept) and wherever the workers are.
THEOREM Invariance == Spec => []IInv
<1> QED
  BY InitIInv, NextIInv, PTL DEF Spec

(***************************************************************************)
(* What follows from it.                                                   *)
(***************************************************************************)

\* Every TCP handle that is open is held by exactly one SharedState or worker:
\* close_impl, failing, refused and abandoned workers leak none.
THEOREM NoHandleLeaks == Spec => []HandlesOwned
<1>1. IInv => HandlesOwned
  BY DEF IInv
<1> QED
  BY <1>1, Invariance, PTL

\* SocketSet::poll never looks at a closed handle (SharedState::close, worker),
\* and the assertion of ~SharedState (util_socket.cpp:41) holds.
THEOREM PoolSafety == Spec => []PoolHolds
<1>1. IInv => PollsPublishedOnly
  BY DEF IInv, SetInv, SocketInv, PollsPublishedOnly
<1>2. IInv => ClosedAtDestruction
  BY DEF IInv, SocketInv, ClosedAtDestruction
<1>3. IInv => HandlesOwned
  BY DEF IInv
<1> QED
  BY <1>1, <1>2, <1>3, Invariance, PTL DEF PoolHolds

\* However many workers of abandoned attempts are still busy, a socket is
\* connected to the host that start_connect was called with last.
THEOREM ConnectsToTarget == Spec => []ConnectedToTarget
<1>1. IInv => ConnectedToTarget
  BY DEF IInv, SocketInv, ConnectedToTarget
<1> QED
  BY <1>1, Invariance, PTL

\* At most one worker of a socket has not been told to stop.
THEOREM SingleWorker == Spec => []OneActiveWorker
<1>1. IInv => OneActiveWorker
  <2> SUFFICES ASSUME IInv, NEW w \in Workers, Active(w), ~stop[w]
               PROVE  /\ thread[of[w]] = w
                      /\ state[of[w]] = "Connecting"
                      /\ owner[of[w]]
    BY DEF OneActiveWorker
  <2>1. of[w] \in Sockets /\ thread[of[w]] = w /\ state[of[w]] = "Connecting"
    BY DEF IInv, WorkerInv, Active
  <2> QED
    BY <2>1 DEF IInv, SocketInv, TypeOK
<1> QED
  BY <1>1, Invariance, PTL

\* The join that start_connect does with the mutex held only ever waits for a
\* thread that is done with the mutex.
THEOREM JoinIsSafe == Spec => []JoinNeedsNoLock
<1>1. IInv => JoinNeedsNoLock
  <2> SUFFICES ASSUME IInv, blocked # None
               PROVE  thread[blocked] # None
                      /\ pc[thread[blocked]] \in {"exit", "done"}
    BY DEF JoinNeedsNoLock
  <2>1. blocked \in Sockets /\ thread[blocked] \in Workers
        /\ thread[blocked] # None
    BY DEF IInv, TypeOK, JoinInv
  <2>2. pc[thread[blocked]] # "idle" /\ ~stop[thread[blocked]]
        /\ of[thread[blocked]] = blocked
    BY <2>1 DEF IInv, SocketInv
  <2>3. ~Active(thread[blocked])
    BY <2>1, <2>2 DEF IInv, WorkerInv, JoinInv
  <2> QED
    BY <2>1, <2>2, <2>3 DEF IInv, TypeOK, Phases, Active
<1> QED
  BY <1>1, Invariance, PTL

\* A Connecting socket has lost its worker only if the SocketSet was full.
THEOREM NeverStranded == Spec => []ConnectingHasWorker
<1>1. IInv => ConnectingHasWorker
  BY DEF IInv, SocketInv, ConnectingHasWorker
<1> QED
  BY <1>1, Invariance, PTL

\* No TLS client is Connected before its handshake is through.
THEOREM TLSHandshakeFirst == Spec => []TLSBeforeConnected
<1>1. IInv => TLSBeforeConnected
  BY DEF IInv, TLSInv, TLSBeforeConnected
<1> QED
  BY <1>1, Invariance, PTL
-----------------------------------------------------------------------------
(* Socket implements Connection.                                           *)

USE DEF Conn!vars

\* Far ends stay what they are when no published handle is touched.
LEMMA FarEndUnchanged ==
  ASSUME IInv, handle' = handle,
         \A s \in Sockets : handle[s] # None => peer'[handle[s]] = peer[handle[s]]
  PROVE  FarEnd' = FarEnd
BY DEF FarEnd

\* A step that touches neither states, targets nor far ends does not show.
LEMMA StutterStep ==
  ASSUME UNCHANGED <<state, target>>, FarEnd' = FarEnd
  PROVE  UNCHANGED Conn!vars
OBVIOUS

\* Closing takes the connection down and no other with it: handles are not
\* shared.
LEMMA CloseRefines ==
  ASSUME IInv, NEW s \in Sockets, CloseShared(s), UNCHANGED target
  PROVE  Conn!GoDown(s)
<1>1. FarEnd' = [FarEnd EXCEPT ![s] = NoHost]
  <2> SUFFICES ASSUME NEW t \in Sockets
               PROVE  FarEnd'[t] = [FarEnd EXCEPT ![s] = NoHost][t]
    BY DEF FarEnd
  <2>1. CASE t = s
    BY <2>1 DEF FarEnd, CloseShared, IInv, TypeOK
  <2>2. CASE t # s
    <3>1. handle'[t] = handle[t]
      BY <2>2 DEF CloseShared, IInv, TypeOK
    <3>2. handle[t] # None => peer'[handle[t]] = peer[handle[t]]
      BY <2>2 DEF CloseShared, IInv, TypeOK, HandlesOwned
    <3> QED
      BY <2>2, <3>1, <3>2 DEF FarEnd
  <2> QED
    BY <2>1, <2>2
<1> QED
  BY <1>1 DEF Conn!GoDown, CloseShared

\* Starting a worker asks for a connection; nothing shows of the thread
\* (start_connect).
LEMMA LaunchRefines ==
  ASSUME IInv, NEW s \in Sockets, NEW host \in Hosts \cup {Anyone},
         Launch(s, host), state[s] = "Disconnected"
  PROVE  Conn!Ask(s, host)
<1>1. FarEnd' = FarEnd
  BY FarEndUnchanged DEF Launch
<1> QED
  BY <1>1 DEF Conn!Ask, Launch

\* A worker that publishes its handle establishes the connection to the
\* target: it was not told to stop, so its goal is still the target.
LEMMA PublishRefines ==
  ASSUME IInv, NEW w \in Workers, WorkerPublish(w)
  PROVE  Conn!Establish(of[w])
<1> DEFINE s == of[w]
<1>1. /\ s \in Sockets /\ state[s] = "Connecting"
      /\ sock[w] \in Handles /\ peer[sock[w]] = target[s]
  BY DEF WorkerPublish, IInv, TypeOK, WorkerInv, Active
<1>2. FarEnd' = [FarEnd EXCEPT ![s] = target[s]]
  <2> SUFFICES ASSUME NEW t \in Sockets
               PROVE  FarEnd'[t] = [FarEnd EXCEPT ![s] = target[s]][t]
    BY DEF FarEnd
  <2>1. handle'[t] = IF t = s THEN sock[w] ELSE handle[t]
    BY <1>1 DEF WorkerPublish, IInv, TypeOK
  <2> QED
    BY <1>1, <2>1 DEF FarEnd, WorkerPublish
<1>3. \E up \in Conn!Up : state' = [state EXCEPT ![s] = up]
  BY DEF WorkerPublish, Conn!Up
<1> QED
  BY <1>1, <1>2, <1>3 DEF Conn!Establish, WorkerPublish

\* A worker that gives up takes a connection down that was not up.
LEMMA GiveUpRefines ==
  ASSUME IInv, NEW w \in Workers, WorkerFailsEarly(w) \/ WorkerOpenFailed(w)
  PROVE  of[w] \in Sockets /\ Conn!GoDown(of[w])
<1> DEFINE s == of[w]
<1>1. s \in Sockets /\ state[s] = "Connecting" /\ handle[s] = None
  BY DEF WorkerFailsEarly, WorkerOpenFailed, IInv, TypeOK, WorkerInv, SocketInv,
         Active
<1>2. FarEnd' = FarEnd
  BY FarEndUnchanged DEF WorkerFailsEarly, WorkerOpenFailed
<1>3. FarEnd = [FarEnd EXCEPT ![s] = NoHost]
  BY <1>1 DEF FarEnd
<1> QED
  BY <1>1, <1>2, <1>3 DEF Conn!GoDown, WorkerFailsEarly, WorkerOpenFailed

\* An accepted client is born connected to its remote peer.
LEMMA AcceptRefines ==
  ASSUME IInv, NEW s \in Sockets, NEW c \in Sockets, Accept(s, c)
  PROVE  Conn!Accepted(c)
<1>1. PICK h \in Handles : /\ peer[h] = Closed
                           /\ peer' = [peer EXCEPT ![h] = Remote]
                           /\ handle' = [handle EXCEPT ![c] = h]
  BY DEF Accept
<1>2. state[c] = "Disconnected"
  BY DEF Accept, Unused, IInv, SocketInv
<1>3. ~Held(h)
  BY <1>1 DEF IInv, HandlesOwned
<1>4. FarEnd' = [FarEnd EXCEPT ![c] = Remote]
  <2> SUFFICES ASSUME NEW t \in Sockets
               PROVE  FarEnd'[t] = [FarEnd EXCEPT ![c] = Remote][t]
    BY DEF FarEnd
  <2>1. handle'[t] = IF t = c THEN h ELSE handle[t]
    BY <1>1 DEF IInv, TypeOK
  <2>2. t # c /\ handle[t] # None => peer'[handle[t]] = peer[handle[t]]
    BY <1>1, <1>3 DEF Held, IInv, TypeOK
  <2> QED
    BY <1>1, <2>1, <2>2 DEF FarEnd, IInv, TypeOK
<1> QED
  BY <1>2, <1>4 DEF Conn!Accepted, Accept

\* What a worker does to handles of its own never shows.
LEMMA WorkerHandleHidden ==
  ASSUME IInv, NEW w \in Workers,
         WorkerStopped(w) \/ WorkerOpen(w) \/ WorkerRefused(w)
  PROVE  UNCHANGED Conn!vars
<1>1. handle' = handle /\ UNCHANGED <<state, target>>
  BY DEF WorkerStopped, WorkerOpen, WorkerRefused, sharedVars
<1>2. ASSUME NEW s \in Sockets, handle[s] # None
      PROVE  peer'[handle[s]] = peer[handle[s]]
  <2>1. /\ handle[s] \in Handles /\ handle[s] # sock[w]
        /\ peer[handle[s]] # Closed
    BY <1>2 DEF IInv, TypeOK, HandlesOwned, Held
  <2> QED
    BY <2>1 DEF WorkerStopped, WorkerOpen, WorkerRefused, IInv, TypeOK
<1> QED
  BY <1>1, <1>2, FarEndUnchanged, StutterStep

\* Every operation and every worker step is a step of the Connection, or leaves
\* what users see as it was.
LEMMA StepRefines == IInv /\ [Next]_vars => [Conn!Next]_(Conn!vars)
<1> SUFFICES ASSUME IInv, [Next]_vars
             PROVE  Conn!Next \/ UNCHANGED Conn!vars
  OBVIOUS
<1>1. ASSUME UNCHANGED <<state, target, handle, peer>>
      PROVE  UNCHANGED Conn!vars
  BY <1>1, FarEndUnchanged, StutterStep
<1>2. ASSUME NEW s \in Sockets, User(s)
      PROVE  Conn!Next \/ UNCHANGED Conn!vars
  <2>1. ASSUME CloseShared(s), UNCHANGED target
        PROVE  Conn!Next
    BY <2>1, CloseRefines DEF Conn!Next
  <2>2. CASE Construct(s)
    <3>1. state[s] = "Disconnected" /\ FarEnd' = FarEnd
      BY <2>2, FarEndUnchanged DEF Construct, Unused, IInv, SocketInv
    <3> QED
      BY <2>2, <3>1 DEF Construct, Conn!Next, Conn!Renew
  <2>3. CASE SetTLS(s)
    BY <2>3, <1>1 DEF SetTLS
  <2>4. ASSUME NEW host \in Hosts \cup {Anyone}, StartConnect(s, host)
        PROVE  Conn!Next \/ UNCHANGED Conn!vars
    BY <2>4, <1>1, LaunchRefines DEF StartConnect, Conn!Next, sharedVars
  <2>5. CASE TLSHandshake(s)
    <3>1. CASE CloseImpl(s)
      BY <2>1, <3>1 DEF CloseImpl
    <3>2. CASE /\ state' = [state EXCEPT ![s] = "Connected"]
               /\ UNCHANGED <<target, handle, peer>>
      <4>1. FarEnd' = FarEnd
        BY <3>2, FarEndUnchanged
      <4> QED
        BY <2>5, <3>2, <4>1 DEF TLSHandshake, Conn!Next, Conn!Secure
    <3> QED
      BY <2>5, <3>1, <3>2 DEF TLSHandshake
  <2>6. CASE Destroy(s) \/ Close(s) \/ AcceptFails(s)
    BY <2>1, <2>6 DEF Destroy, Close, AcceptFails, CloseImpl
  <2>7. CASE ReadFails(s)
    BY <2>1, <2>7 DEF ReadFails, CloseImpl, DropConnection
  <2>8. CASE WritePlain(s) \/ WriteTLS(s)
    BY <1>1, <2>1, <2>8
    DEF WritePlain, WriteTLS, CloseImpl, DropConnection, sharedVars
  <2>9. ASSUME NEW c \in Sockets, Accept(s, c)
        PROVE  Conn!Next
    BY <2>9, AcceptRefines DEF Conn!Next
  <2> QED
    BY <1>2, <2>2, <2>3, <2>4, <2>5, <2>6, <2>7, <2>8, <2>9 DEF User
<1>3. ASSUME NEW s \in Sockets, JoinReturns(s)
      PROVE  Conn!Next
  <2>1. state[s] = "Disconnected" /\ request \in Hosts \cup {Anyone}
    BY <1>3 DEF JoinReturns, IInv, JoinInv
  <2> QED
    BY <1>3, <2>1, LaunchRefines DEF JoinReturns, Conn!Next
<1>4. ASSUME NEW w \in Workers, Worker(w)
      PROVE  Conn!Next \/ UNCHANGED Conn!vars
  <2>1. CASE WorkerStopped(w) \/ WorkerOpen(w) \/ WorkerRefused(w)
    BY <2>1, WorkerHandleHidden
  <2>2. CASE WorkerStart(w) \/ WorkerResolved(w) \/ WorkerExit(w)
    BY <1>1, <2>2 DEF WorkerStart, WorkerResolved, WorkerExit, sharedVars
  <2>3. CASE WorkerFailsEarly(w) \/ WorkerOpenFailed(w)
    BY <2>3, GiveUpRefines DEF Conn!Next
  <2>4. CASE WorkerPublish(w)
    <3>1. of[w] \in Sockets
      BY <2>4 DEF WorkerPublish, IInv, WorkerInv
    <3> QED
      BY <2>4, <3>1, PublishRefines DEF Conn!Next
  <2> QED
    BY <1>4, <2>1, <2>2, <2>3, <2>4 DEF Worker
<1>5. CASE UNCHANGED vars
  BY <1>1, <1>5 DEF vars, sharedVars
<1> QED
  BY <1>2, <1>3, <1>4, <1>5 DEF Next

\* Threads, handles and abandoned attempts never show: what users of a Socket
\* see is a Connection.
THEOREM Refinement == Spec => ImplementsConnection
<1>1. Init => Conn!Init
  BY DEF Init, Conn!Init, FarEnd
<1> QED
  BY <1>1, StepRefines, Invariance, PTL DEF Spec, ImplementsConnection, Conn!Spec

\* A closed socket is brought to life only by its owner: no worker that close()
\* left behind publishes its handle.
THEOREM LateWorkersStayQuiet == Spec => NoLateConnect
<1>1. IInv /\ [Next]_vars =>
        [\A s \in Sockets :
           state[s] = "Disconnected" /\ state'[s] \in {"TLSHandshaking", "Connected"}
             => ~owner[s] /\ owner'[s]]_vars
  <2> SUFFICES ASSUME IInv, [Next]_vars, NEW s \in Sockets,
                      state[s] = "Disconnected",
                      state'[s] \in {"TLSHandshaking", "Connected"}
               PROVE  ~owner[s] /\ owner'[s]
    OBVIOUS
  <2>1. ASSUME NEW t \in Sockets, User(t)
        PROVE  ~owner[s] /\ owner'[s]
    BY <2>1 DEF User, Construct, Destroy, SetTLS, StartConnect, Launch, TLSHandshake,
       ReadFails, WritePlain, WriteTLS, Close, Accept, AcceptFails, CloseImpl,
       CloseShared, DropConnection, Unused, sharedVars, IInv, TypeOK
  <2>2. ASSUME NEW t \in Sockets, JoinReturns(t)
        PROVE  FALSE
    BY <2>2 DEF JoinReturns, Launch, IInv, TypeOK
  <2>3. ASSUME NEW w \in Workers, Worker(w)
        PROVE  FALSE
    BY <2>3 DEF Worker, WorkerStopped, WorkerStart, WorkerResolved, WorkerFailsEarly,
       WorkerOpen, WorkerOpenFailed, WorkerRefused, WorkerPublish, WorkerExit,
       sharedVars, IInv, TypeOK, WorkerInv, Active
  <2>4. CASE UNCHANGED vars
    BY <2>4 DEF vars, sharedVars
  <2> QED
    BY <2>1, <2>2, <2>3, <2>4 DEF Next
<1> QED
  BY <1>1, Invariance, PTL DEF Spec, NoLateConnect
=============================================================================
