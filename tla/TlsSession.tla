----------------------------- MODULE TlsSession -----------------------------
(***************************************************************************)
(* A TLS session between a socket and GnuTLS                               *)
(* (src/src/util_tls_session.cpp).                                         *)
(*                                                                         *)
(* The library never touches the network: what arrives is put into         *)
(* inbuffer, from which it pulls, and what it pushes into outbuffer is     *)
(* sent later.  The socket pumps both, and reads only if pump_read says    *)
(* that there is something to be read.                                     *)
(*                                                                         *)
(* Ciphertext is a sequence of units.  The server's are Flight units of    *)
(* its handshake, which are 0, and then its records; the client's are 0    *)
(* for its hello, 1 for the end of its handshake, and then its records;    *)
(* Bye is the alert that ends either.  A record n carries two bytes,       *)
(* 2 n - 1 and 2 n.                                                        *)
(***************************************************************************)
EXTENDS Blob

CONSTANTS
  Flight,      \* units of the server's handshake
  MaxRecords,  \* bound: records in each direction
  Reserved,    \* first capacity of the buffers; 17 k in the code
  Room,        \* least space that is kept for reading; 4096 in the code
  Bye          \* the closing alert

TlsAssumption ==
  {MaxRecords, Reserved, Slack, Bye} \subseteq Nat /\ {Flight, Room} \subseteq Nat \ {0} /\ Bye > MaxRecords + 2

VARIABLES
  tls,      \* the session, its buffers, the library behind and the network before it
  served,   \* records the server has sent
  wrote,    \* records the application has written
  got       \* bytes the application has read

tlsVars == <<tls, served, wrote, got>>

\* Without a session there is no state; what was in it is gone.
NoSession == [state |-> "none", in |-> NewBuffer(0), out |-> NewBuffer(0), flights |-> 0, pending |-> <<>>,
         arriving |-> <<>>, sent |-> <<>>, bye |-> FALSE]

TypeOK ==
  /\ tls.state \in {"none", "handshaking", "connected"}
  /\ tls.in.offset \in 0 .. Len(tls.in.bytes) /\ tls.out.offset \in 0 .. Len(tls.out.bytes)
  /\ tls.flights \in 0 .. Flight /\ Len(tls.pending) \in 0 .. 1 /\ tls.bye \in BOOLEAN
  /\ served \in 0 .. MaxRecords /\ wrote \in 0 .. MaxRecords /\ got \in Seq(Nat)

\* init_as_client: the first handshake call pushes the hello.
Opened == [NoSession EXCEPT !.state = "handshaking", !.in = NewBuffer(Reserved),
                       !.out = BufferWrite(NewBuffer(Reserved), <<0>>)]
Init == tls \in {Opened, NoSession} /\ served = 0 /\ wrote = 0 /\ got = <<>>

-----------------------------------------------------------------------------
\* The library's end.
Done(s)     == s.flights = Flight
Push(s, u)  == [s EXCEPT !.out = BufferWrite(@, <<u>>)]

\* gnutls_handshake: pulls what there is of the server's flight.
Handshake(s) ==
  LET left == Flight - s.flights  n == IF left < Len(Unread(s.in)) THEN left ELSE Len(Unread(s.in))
      to == [s EXCEPT !.in = Advance(@, n), !.flights = @ + n]
  IN IF Done(to) THEN Push(to, 1) ELSE to

\* gnutls_record_recv of at most maxlen bytes: the rest of the last record, or the
\* next one; what is left of it stays with the library.
Received(s, maxlen) ==
  LET plain == IF s.pending # <<>> THEN s.pending
               ELSE IF Unread(s.in) = <<>> THEN <<>>
               ELSE <<2 * Head(Unread(s.in)) - 1, 2 * Head(Unread(s.in))>>
      n == IF maxlen < Len(plain) THEN maxlen ELSE Len(plain)
  IN [bytes |-> SubSeq(plain, 1, n),
      to |-> [s EXCEPT !.pending = SubSeq(plain, n + 1, Len(plain)),
                       !.in = IF s.pending # <<>> THEN @ ELSE Advance(@, 1)]]

-----------------------------------------------------------------------------
\* Mutant of WithRoom: pump_read makes room by dropping what was read, and keeps the offset.
WithRoomStale(b) ==
  LET flushed == IF Space(b) < Room THEN PopFront(b, b.offset) ELSE b
  IN IF Space(flushed) < Room THEN Reserve(flushed, flushed.cap + Room) ELSE flushed

\* pump_read: keeps room in inbuffer, takes what has arrived, and goes on with the
\* handshake.  It tells whether there is something to be read.  Any of its calls
\* may fail, which ends the session.
WithRoom(b) ==
  LET flushed == IF Space(b) < Room THEN Flush(b) ELSE b
  IN IF Space(flushed) < Room THEN Reserve(flushed, flushed.cap + Room) ELSE flushed
Taken(s) ==
  LET b == WithRoom(s.in)  n == IF Space(b) < Len(s.arriving) THEN Space(b) ELSE Len(s.arriving)
  IN [s EXCEPT !.in = AddedToTail(b, SubSeq(s.arriving, 1, n)), !.arriving = SubSeq(@, n + 1, Len(@))]
Shaken(s) ==
  IF Unread(s.in) = <<>> \/ s.state # "handshaking" THEN s
  ELSE LET to == Handshake(s) IN [to EXCEPT !.state = IF Done(to) THEN "connected" ELSE "handshaking"]

\* Mutant of SomethingToRead: what the library has decrypted does not count.
SomethingInBuffer(s) == Unread(s.in) # <<>>

SomethingToRead(s) == Unread(s.in) # <<>> \/ s.pending # <<>>
PumpRead(s) ==
  IF s.state = "none" THEN {[to |-> s, pumped |-> FALSE]}
  ELSE LET to == Shaken(Taken(s)) IN
       { [to |-> to, pumped |-> to.state = "connected" /\ SomethingToRead(to)],
         [to |-> NoSession, pumped |-> FALSE] }

\* pump_write: the network takes some of outbuffer, or fails.
PumpWrite(s) ==
  IF s.state = "none" \/ Unread(s.out) = <<>> THEN {s}
  ELSE {NoSession} \cup {[s EXCEPT !.out = Advance(@, n), !.sent = @ \o SubSeq(Unread(s.out), 1, n)] :
                      n \in 1 .. Len(Unread(s.out))}

\* read: nothing while the handshake goes on; the library fails if it was only shut
\* down in the middle of it.
Read(s, maxlen) ==
  IF s.state # "connected" THEN {[to |-> s, bytes |-> <<>>]}
  ELSE {[to |-> NoSession, bytes |-> <<>>]} \cup (IF Done(s) THEN {Received(s, maxlen)} ELSE {})

-----------------------------------------------------------------------------
\* Socket::tls_handshake
TLSHandshake ==
  /\ tls.state = "handshaking"
  /\ \E r \in PumpRead(tls) : tls' \in PumpWrite(r.to)
  /\ UNCHANGED <<served, wrote, got>>

\* Socket::read_nonblock
ReadNonblock(maxlen) ==
  /\ tls.state = "connected"
  /\ \E r \in PumpRead(tls) : \E to \in PumpWrite(r.to) :
       \E last \in (IF r.pumped THEN Read(to, maxlen) ELSE {[to |-> to, bytes |-> <<>>]}) :
         tls' = last.to /\ got' = got \o last.bytes
  /\ UNCHANGED <<served, wrote>>

\* Socket::write, of a record, once connected: pushed, and sent as far as it goes.
WriteRecord ==
  /\ tls.state = "connected" /\ Done(tls) /\ ~tls.bye /\ wrote < MaxRecords
  /\ tls' \in PumpWrite(Push(tls, wrote + 2)) \cup {NoSession}
  /\ wrote' = wrote + 1
  /\ UNCHANGED <<served, got>>

\* Socket::shutdown: the handshake counts as over, and the alert goes out.
Shutdown ==
  /\ tls.state # "none" /\ ~tls.bye
  /\ tls' \in PumpWrite(Push([tls EXCEPT !.state = "connected", !.bye = TRUE], Bye))
  /\ UNCHANGED <<served, wrote, got>>

\* Socket::close_impl
Deinit ==
  /\ tls.state # "none" /\ tls' = NoSession
  /\ UNCHANGED <<served, wrote, got>>

\* The server answers the hello with its flight, and sends records after it.
ServerFlight ==
  /\ tls.sent # <<>> /\ tls.flights = 0 /\ Unread(tls.in) = <<>> /\ tls.arriving = <<>>
  /\ tls' = [tls EXCEPT !.arriving = [i \in 1 .. Flight |-> 0]]
  /\ UNCHANGED <<served, wrote, got>>
ServerRecord ==
  /\ tls.state # "none" /\ served < MaxRecords
  /\ \/ Done(tls)
     \/ Len(Unread(tls.in)) + Len(tls.arriving) + tls.flights >= Flight
  /\ tls' = [tls EXCEPT !.arriving = Append(@, served + 1)]
  /\ served' = served + 1
  /\ UNCHANGED <<wrote, got>>

Socket == TLSHandshake \/ (\E maxlen \in 1 .. 2 : ReadNonblock(maxlen))
Next == Socket \/ WriteRecord \/ Shutdown \/ Deinit \/ ServerFlight \/ ServerRecord

\* The socket is polled in every turn, and the server answers.  Calls need not fail:
\* fairness asks only for steps that keep the session, or a failure would be bound
\* to come whenever there is nothing else to do.
Polled == Socket /\ tls'.state # "none"
Spec == Init /\ [][Next]_tlsVars /\ WF_tlsVars(Polled) /\ WF_tlsVars(ServerFlight)

-----------------------------------------------------------------------------
Came    == got \o tls.pending
Coming  == Unread(tls.in) \o tls.arriving
Records == Len(Came) \div 2
Zeros   == IF Coming = <<>> THEN 0 ELSE Flight - tls.flights

\* What the application has read and the library holds for it are the bytes of the
\* server's first records, each once and in its order; in inbuffer and on the network
\* there is what the client needs of the server's flight, and then the other records.
BytesInTurn ==
  /\ Came = [i \in 1 .. 2 * Records |-> i]
  /\ Coming = [i \in 1 .. Zeros + served - Records |-> IF i <= Zeros THEN 0 ELSE Records + i - Zeros]

\* What has gone out and what waits in outbuffer are the client's handshake, its
\* records and the alert, in this order.
AllGoesOut ==
  tls.sent \o Unread(tls.out) = (IF Done(tls) THEN [i \in 1 .. wrote + 2 |-> i - 1] ELSE <<0>>)
                                \o (IF tls.bye THEN <<Bye>> ELSE <<>>)

StreamsIntact == tls.state # "none" => BytesInTurn /\ AllGoesOut

\* Over and over everything the server has sent is read, and everything written is
\* sent, the closing alert included, by a socket that reads only when it is told to,
\* unless the session ends, or is shut down before the handshake was through.
RecordsArrive ==
  []<>(\/ tls.state = "none" \/ (tls.bye /\ ~Done(tls))
       \/ /\ Len(got) = 2 * served \/ tls.bye
          /\ Len(tls.sent) >= wrote + 2 /\ Unread(tls.out) = <<>>)
=============================================================================
