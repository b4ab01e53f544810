------------------------- MODULE ServerSocketProofs -------------------------
(***************************************************************************)
(* ServerSocket, for any number of clients and any ports: the table holds  *)
(* exactly the clients the script knows of, the port and the connections   *)
(* agree with what it was told, and it is told ServerEvents.               *)
(*                                                                         *)
(* TableExact speaks of a pass in its middle, too, and needs only that the *)
(* pass has not run past its own end (PassInv).  That a client comes once  *)
(* needs that nobody is known before it is accepted (Unmet), and that it   *)
(* comes while the port is open, that what comes next agrees with          *)
(* m_server_state (Phase).                                                 *)
(***************************************************************************)
EXTENDS ServerSocket, TLAPS

InPass == pc \in {"clients", "received"}

PassInv ==
  /\ lastOk < ref /\ ref <= num + 1
  /\ ~InPass => ref = 1 /\ lastOk = 0
  /\ pc = "received" => ref <= num

Phase ==
  /\ pc = "bind" => state = "Binding"
  /\ pc \in {"listen", "accepted"} => state = "Listening"

Unmet == \A c \in Clients : link[c] \in {"away", "waiting"} => life[c] = "unknown"

\* TypeOK in three parts: what is counted, what is named, what is true or false.
Counts ==
  /\ table \in [Refs -> Clients \cup {Nobody}]
  /\ num \in 0..MaxRefs /\ ref \in 1..(MaxRefs + 1) /\ lastOk \in 0..MaxRefs
  /\ wait \in 0..RetryWait /\ pieces \in [Clients -> 0..MaxPieces]

Names ==
  /\ pc \in {"inputs", "bind", "listen", "accepted", "clients", "received",
             "outputs", "sleep", "ended"}
  /\ state \in {"Disconnected", "Binding", "Listening"}
  /\ wanted \in Ports \cup {NoPort} /\ active \in Ports \cup {NoPort}
  /\ net \in {"Disconnected", "Connecting", "Connected"}
  /\ link \in [Clients -> {"away", "waiting", "open", "closed"}]
  /\ gone \subseteq Clients
  /\ life \in [Clients -> Told!Lives]

Flags == enabled \in BOOLEAN /\ open \in BOOLEAN

Inv == Counts /\ Names /\ Flags /\ PassInv /\ Phase /\ Unmet /\ TableExact /\ PortInSync /\ NoneLeaks

\* The steps that leave the clients and their table alone.
TableRests == UNCHANGED <<table, num, ref, lastOk, life>>

\* The steps that touch the table, and all others.
LEMMA Others ==
  ASSUME Next \/ UNCHANGED vars,
         ~\E c \in Clients : Accept(c), ~Receive, ~Keep, ~Drop, ~PassEnds, ~Shutdown
  PROVE  /\ TableRests
         /\ pc' = pc \/ pc' = "clients" \/ (pc' \notin {"received", "ended"} /\ ~InPass)
         /\ pc = "ended" => pc' = "ended"
BY DEF Next, vars, serverVars, passVars, peerVars, toldVars, TableRests, InPass, Tick, ServerInput,
       ClientsInput, Script, Network, NotDue, NoPortGiven, Bind, NotBoundYet, BindFails, Bound,
       AcceptRefuses, NobodyWaits, AcceptFails, AfterAccept, CloseDisabled, NothingToClose, Sleep,
       SetEnabled, SetPort, ResetTimer, ScriptCloses, BindAnswers, PeerConnects, PeerSends, PeerCloses,
       ScriptRuns, Binding, Accepting

\* The client that is looked at in a pass is one of the clients it started with.
LEMMA ThisIsClient ==
  ASSUME Inv, pc # "ended", ref <= num
  PROVE  /\ ref \in Refs /\ ref \in Used /\ This \in Clients /\ Told!Here(This)
         /\ num \in Int /\ lastOk \in Int /\ lastOk < ref /\ MaxRefs \in Nat
<1>1. ref \in Refs /\ ref \in Used
  BY BoundsAssumption DEF Inv, Counts, Refs, Used
<1>2. table[ref] \in Clients
  BY <1>1 DEF Inv, TableExact, Counts
<1> QED
  BY <1>1, <1>2, BoundsAssumption DEF This, Inv, TableExact, Counts, PassInv

-----------------------------------------------------------------------------
(* The table.                                                              *)

\* A pass and its table, through every step (tick_clients_input).
LEMMA PassStep ==
  ASSUME Inv, [Next]_vars
  PROVE  PassInv'
<1> USE BoundsAssumption DEF Inv, PassInv, Counts, InPass
<1>1. CASE \E c \in Clients : Accept(c)
  BY <1>1 DEF Accept, Accepting
<1>2. CASE Receive
  BY <1>2 DEF Receive, serverVars, passVars
<1>3. CASE Keep
  BY <1>3 DEF Keep, Looking
<1>4. CASE Drop
  BY <1>4 DEF Drop, Looking
<1>5. CASE PassEnds
  BY <1>5 DEF PassEnds
<1>6. CASE Shutdown
  BY <1>6 DEF Shutdown
<1>7. CASE ~(\E c \in Clients : Accept(c)) /\ ~Receive /\ ~Keep /\ ~Drop /\ ~PassEnds /\ ~Shutdown
  <2>1. TableRests /\ (pc' = pc \/ pc' = "clients" \/ (pc' \notin {"received", "ended"} /\ ~InPass))
    BY <1>7, Others
  <2>2. pc' \notin {"clients", "received"} => ref = 1 /\ lastOk = 0
    BY <2>1
  <2> QED
    BY <2>1, <2>2 DEF TableRests
<1> QED
  BY <1>1, <1>2, <1>3, <1>4, <1>5, <1>6, <1>7

\* A client that is kept moves to the end of what was kept.
LEMMA KeepTable ==
  ASSUME Inv, Keep
  PROVE  TableExact'
<1>1. pc # "ended" /\ ref <= num
  BY DEF Keep, Looking
<1>2. /\ ref \in Refs /\ ref \in Used /\ This \in Clients /\ Told!Here(This)
      /\ num \in Int /\ lastOk \in Int /\ lastOk < ref /\ MaxRefs \in Nat
  BY <1>1, ThisIsClient
<1>3. ref \in Int /\ num <= MaxRefs /\ lastOk >= 0 /\ Refs = 1..MaxRefs
  BY BoundsAssumption DEF Inv, Counts, Refs
<1>4. /\ lastOk' = lastOk + 1 /\ ref' = ref + 1 /\ num' = num /\ life' = life
  BY DEF Keep, toldVars
<1>5. \A i \in Refs : table'[i] = CASE i = lastOk + 1                -> This
                                  [] i = ref /\ ref > lastOk + 1 -> Nobody
                                  [] OTHER                       -> table[i]
  BY <1>4 DEF Keep
<1>6. Used' = 1..(lastOk + 1) \cup (ref + 1)..num
  BY <1>4 DEF Used
<1>7. \A i \in Refs : table[i] # Nobody <=> i \in Used
  BY <1>1 DEF Inv, TableExact
<1>8. This # Nobody /\ This = table[ref]
  BY <1>2, BoundsAssumption DEF This
<1>9. \A i \in Refs : i \in Used' <=> i = lastOk + 1 \/ (i \in Used /\ i # ref)
  BY <1>2, <1>3, <1>6 DEF Used
<1>10. \A i \in Refs : i \in Used' => table'[i] = IF i = lastOk + 1 THEN table[ref] ELSE table[i]
  BY <1>2, <1>3, <1>5, <1>8, <1>9
<1>11. \A i \in Refs : table'[i] # Nobody <=> i \in Used'
  <2> SUFFICES ASSUME NEW i \in Refs PROVE table'[i] # Nobody <=> i \in Used'
    OBVIOUS
  <2>1. CASE i = lastOk + 1
    BY <1>8, <1>9, <1>10, <2>1
  <2>2. CASE i # lastOk + 1 /\ i = ref
    BY <1>2, <1>3, <1>5, <1>9, <2>2
  <2>3. CASE i # lastOk + 1 /\ i # ref
    BY <1>5, <1>7, <1>9, <2>3
  <2> QED
    BY <2>1, <2>2, <2>3
<1>12. Used \subseteq Refs /\ Used' \subseteq Refs /\ lastOk + 1 \in Used'
  BY <1>2, <1>3, <1>6 DEF Used
<1>13. \A i, j \in Used : table[i] = table[j] => i = j
  BY <1>1 DEF Inv, TableExact
<1>14. \A i, j \in Used' : table'[i] = table'[j] => i = j
  BY <1>2, <1>9, <1>10, <1>12, <1>13
<1>15. \A c \in Clients : Told!Here(c) <=> \E i \in Used : table[i] = c
  BY <1>1 DEF Inv, TableExact
<1>16. \A c \in Clients : (\E i \in Used : table[i] = c) <=> \E i \in Used' : table'[i] = c
  <2> SUFFICES ASSUME NEW c \in Clients
      PROVE  (\E i \in Used : table[i] = c) <=> \E i \in Used' : table'[i] = c
    OBVIOUS
  <2>1. ASSUME NEW i \in Used, table[i] = c PROVE \E k \in Used' : table'[k] = c
    <3>1. CASE i = ref
      BY <1>10, <1>12, <2>1, <3>1
    <3>2. CASE i # ref
      <4>1. i \in Used' /\ i # lastOk + 1
        <5>1. i \in Used'
          BY <1>9, <1>12, <3>2
        <5>2. i # lastOk + 1
          BY <1>2, <1>3, <2>1, <3>2 DEF Used
        <5> QED
          BY <5>1, <5>2
      <4> QED
        BY <1>10, <1>12, <2>1, <4>1
    <3> QED
      BY <3>1, <3>2
  <2>2. ASSUME NEW i \in Used', table'[i] = c PROVE \E k \in Used : table[k] = c
    BY <1>2, <1>9, <1>10, <1>12, <2>2
  <2> QED
    BY <2>1, <2>2
<1>17. \A c \in Clients : Told!Here(c)' <=> Told!Here(c)
  BY <1>4 DEF Told!Here
<1> QED
  BY <1>11, <1>14, <1>15, <1>16, <1>17 DEF TableExact

\* A client that has left, or is closed, leaves its place.
LEMMA DropTable ==
  ASSUME Inv, Drop
  PROVE  TableExact'
<1>1. pc # "ended" /\ ref <= num
  BY DEF Drop, Looking
<1>2. /\ ref \in Refs /\ ref \in Used /\ This \in Clients /\ Told!Here(This)
      /\ num \in Int /\ lastOk \in Int /\ lastOk < ref /\ MaxRefs \in Nat
  BY <1>1, ThisIsClient
<1>3. ref \in Int /\ num <= MaxRefs /\ lastOk >= 0 /\ Refs = 1..MaxRefs
  BY BoundsAssumption DEF Inv, Counts, Refs
<1>4. /\ lastOk' = lastOk /\ ref' = ref + 1 /\ num' = num
      /\ life' = [life EXCEPT ![This] = "left"] /\ table' = [table EXCEPT ![ref] = Nobody]
  BY DEF Drop
<1>5. \A i \in Refs : table'[i] = IF i = ref THEN Nobody ELSE table[i]
  BY <1>2, <1>4 DEF Inv, Counts
<1>6. \A c \in Clients : life'[c] = IF c = This THEN "left" ELSE life[c]
  BY <1>2, <1>4 DEF Inv, Names
<1>7. Used' = Used \ {ref}
  BY <1>2, <1>3, <1>4 DEF Used
<1>8. Used \subseteq Refs
  BY <1>2, <1>3 DEF Used
<1>9. /\ \A i \in Refs : table[i] # Nobody <=> i \in Used
      /\ \A i, j \in Used : table[i] = table[j] => i = j
      /\ \A c \in Clients : Told!Here(c) <=> \E i \in Used : table[i] = c
  BY <1>1 DEF Inv, TableExact
<1>10. \A c \in Clients : Told!Here(c)' <=> c # This /\ Told!Here(c)
  BY <1>6 DEF Told!Here
<1>11. \A c \in Clients : c # This /\ (\E i \in Used : table[i] = c) <=> \E i \in Used' : table'[i] = c
  BY <1>2, <1>5, <1>7, <1>8, <1>9 DEF This
<1>12. \A c \in Clients : Told!Here(c)' <=> \E i \in Used' : table'[i] = c
  BY <1>9, <1>10, <1>11
<1>13. \A i \in Refs : table'[i] # Nobody <=> i \in Used'
  BY <1>5, <1>7, <1>9
<1>14. \A i, j \in Used' : table'[i] = table'[j] => i = j
  BY <1>5, <1>7, <1>8, <1>9
<1> QED
  BY <1>12, <1>13, <1>14 DEF TableExact

\* A client that comes is put behind the others.
LEMMA AcceptTable ==
  ASSUME Inv, NEW c \in Clients, Accept(c)
  PROVE  TableExact'
<1>1. /\ pc # "ended" /\ ref = 1 /\ lastOk = 0 /\ num \in Nat /\ num < MaxRefs /\ Refs = 1..MaxRefs
      /\ link[c] = "waiting" /\ MaxRefs \in Nat
  BY BoundsAssumption DEF Accept, Accepting, Inv, PassInv, InPass, Counts, Refs
<1>2. life[c] = "unknown" /\ ~Told!Here(c)
  BY <1>1 DEF Inv, Unmet, Told!Here
<1>3. /\ num' = num + 1 /\ table' = [table EXCEPT ![num + 1] = c]
      /\ life' = [life EXCEPT ![c] = "accepted"] /\ ref' = ref /\ lastOk' = lastOk
  BY DEF Accept
<1>4. num + 1 \in Refs /\ Used = 1..num /\ Used' = 1..(num + 1) /\ Used \subseteq Refs
  BY <1>1, <1>3 DEF Used
<1>5. \A i \in Refs : table'[i] = IF i = num + 1 THEN c ELSE table[i]
  BY <1>3, <1>4 DEF Inv, Counts
<1>6. \A d \in Clients : life'[d] = IF d = c THEN "accepted" ELSE life[d]
  BY <1>3 DEF Inv, Names
<1>7. Used' = Used \cup {num + 1} /\ num + 1 \notin Used
  BY <1>1, <1>4
<1>8. /\ \A i \in Refs : table[i] # Nobody <=> i \in Used
      /\ \A i, j \in Used : table[i] = table[j] => i = j
      /\ \A d \in Clients : Told!Here(d) <=> \E i \in Used : table[i] = d
  BY <1>1 DEF Inv, TableExact
<1>9. \A d \in Clients : Told!Here(d)' <=> d = c \/ Told!Here(d)
  BY <1>6 DEF Told!Here
<1>10. \A i \in Used : table[i] # c
  BY <1>2, <1>8
<1>11. \A i \in Refs : table'[i] # Nobody <=> i \in Used'
  BY <1>5, <1>7, <1>8, BoundsAssumption
<1>12. \A i, j \in Used' : table'[i] = table'[j] => i = j
  BY <1>4, <1>5, <1>7, <1>8, <1>10
<1>13. \A d \in Clients : Told!Here(d)' <=> \E i \in Used' : table'[i] = d
  BY <1>4, <1>5, <1>7, <1>8, <1>9
<1> QED
  BY <1>11, <1>12, <1>13 DEF TableExact

\* The table, through every step.
LEMMA TableStep ==
  ASSUME Inv, [Next]_vars
  PROVE  TableExact'
<1>1. CASE \E c \in Clients : Accept(c)
  BY <1>1, AcceptTable
<1>2. CASE Receive
  <2>1. pc # "ended" /\ ref <= num /\ UNCHANGED <<table, num, ref, lastOk>>
        /\ life' = [life EXCEPT ![This] = "heard"]
    BY <1>2 DEF Receive, passVars
  <2>2. This \in Clients /\ Told!Here(This)
    BY <2>1, ThisIsClient
  <2>3. \A c \in Clients : life'[c] = IF c = This THEN "heard" ELSE life[c]
    BY <2>1, <2>2 DEF Inv, Names
  <2>4. \A c \in Clients : Told!Here(c)' <=> Told!Here(c)
    BY <2>2, <2>3 DEF Told!Here
  <2>5. Used' = Used
    BY <2>1 DEF Used
  <2> QED
    BY <2>1, <2>4, <2>5 DEF Inv, TableExact
<1>3. CASE Keep
  BY <1>3, KeepTable
<1>4. CASE Drop
  BY <1>4, DropTable
<1>5. CASE PassEnds
  <2>1. /\ pc # "ended" /\ ref > num /\ num' = lastOk /\ ref' = 1 /\ lastOk' = 0
        /\ table' = table /\ life' = life
    BY <1>5 DEF PassEnds, toldVars
  <2>2. Used' = Used
    BY <2>1 DEF Used, Inv, Counts
  <2>3. \A c : Told!Here(c)' <=> Told!Here(c)
    BY <2>1 DEF Told!Here
  <2> QED
    BY <2>1, <2>2, <2>3 DEF Inv, TableExact
<1>6. CASE Shutdown
  BY <1>6 DEF Shutdown, TableExact
<1>7. CASE ~(\E c \in Clients : Accept(c)) /\ ~Receive /\ ~Keep /\ ~Drop /\ ~PassEnds /\ ~Shutdown
  <2>1. TableRests /\ (pc' # "ended" => pc # "ended")
    BY <1>7, Others
  <2>2. Used' = Used /\ \A c : Told!Here(c)' <=> Told!Here(c)
    BY <2>1 DEF TableRests, Used, Told!Here
  <2> QED
    BY <2>1, <2>2 DEF TableRests, Inv, TableExact
<1> QED
  BY <1>1, <1>2, <1>3, <1>4, <1>5, <1>6, <1>7

-----------------------------------------------------------------------------
(* The port, the connections and the types.                                *)

\* The port's variables rest while clients are looked at, and elsewhere.
PortRests == UNCHANGED <<state, active, net, open>>

\* The steps of the port, and all others.
LEMMA NotThePort ==
  ASSUME Next \/ UNCHANGED vars,
         ~BindAnswers, ~Bind, ~BindFails, ~Bound, ~AcceptFails, ~CloseDisabled, ~Shutdown
  PROVE  /\ PortRests
         /\ pc = "ended" => pc' = "ended"
         /\ pc' \in {"bind", "listen"} => pc' = pc
         /\ pc' = "accepted" => pc = "accepted" \/ Accepting
BY DEF Next, vars, serverVars, passVars, peerVars, toldVars, PortRests, Tick, ServerInput,
       ClientsInput, Script, Network, NotDue, NoPortGiven, NotBoundYet, Accept, Receive, Keep, Drop,
       PassEnds, Looking, AcceptRefuses, NobodyWaits, AfterAccept, NothingToClose, Sleep,
       SetEnabled, SetPort, ResetTimer, ScriptCloses, PeerConnects, PeerSends, PeerCloses,
       ScriptRuns, Binding, Accepting

\* What comes next, and the port, through every step (tick_server_input).
LEMMA PortStep ==
  ASSUME Inv, [Next]_vars
  PROVE  Phase' /\ PortInSync'
<1> USE BoundsAssumption DEF Inv, Phase, PortInSync, Names, Flags
<1>1. CASE BindAnswers
  BY <1>1 DEF BindAnswers, serverVars, toldVars
<1>2. CASE Bind
  BY <1>2 DEF Bind, toldVars
<1>3. CASE BindFails
  BY <1>3 DEF BindFails, Binding, toldVars
<1>4. CASE Bound
  BY <1>4 DEF Bound, Binding
<1>5. CASE AcceptFails
  BY <1>5 DEF AcceptFails, ClosePort
<1>6. CASE CloseDisabled
  BY <1>6 DEF CloseDisabled, ClosePort
<1>7. CASE Shutdown
  BY <1>7 DEF Shutdown
<1>8. CASE /\ ~BindAnswers /\ ~Bind /\ ~BindFails /\ ~Bound /\ ~AcceptFails /\ ~CloseDisabled
           /\ ~Shutdown
  <2>1. /\ PortRests
        /\ pc = "ended" => pc' = "ended"
        /\ pc' \in {"bind", "listen"} => pc' = pc
        /\ pc' = "accepted" => pc = "accepted" \/ Accepting
    BY <1>8, NotThePort
  <2> QED
    BY <2>1 DEF PortRests, Accepting
<1> QED
  BY <1>1, <1>2, <1>3, <1>4, <1>5, <1>6, <1>7, <1>8

\* What is counted keeps its bounds.
LEMMA CountsStep ==
  ASSUME Inv, [Next]_vars
  PROVE  Counts'
<1> USE BoundsAssumption DEF Inv, PassInv, Counts, InPass, Refs
<1>1. CASE \E c \in Clients : Accept(c)
  <2>1. PICK c \in Clients : Accept(c)
    BY <1>1
  <2> QED
    BY <2>1 DEF Accept, serverVars
<1>2. CASE Receive
  <2>1. This \in Clients
    BY <1>2, ThisIsClient DEF Receive
  <2>2. PICK n \in 1..pieces[This] : pieces' = [pieces EXCEPT ![This] = @ - n]
    BY <1>2 DEF Receive
  <2>3. pieces[This] \in 0..MaxPieces /\ pieces[This] - n \in 0..MaxPieces
    BY <2>1, <2>2
  <2>4. pieces' \in [Clients -> 0..MaxPieces]
    BY <2>1, <2>2, <2>3
  <2> QED
    BY <1>2, <2>4 DEF Receive, serverVars, passVars
<1>3. CASE Keep
  <2>1. pc # "ended" /\ ref <= num
    BY <1>3 DEF Keep, Looking
  <2>2. This \in Clients /\ lastOk < ref
    BY <2>1, ThisIsClient
  <2>3. table' \in [Refs -> Clients \cup {Nobody}]
    BY <1>3, <2>2 DEF Keep
  <2> QED
    BY <1>3, <2>1, <2>2, <2>3 DEF Keep, serverVars, peerVars
<1>4. CASE Drop
  <2>1. pc # "ended" /\ ref <= num
    BY <1>4 DEF Drop, Looking
  <2> QED
    BY <1>4, <2>1 DEF Drop, serverVars
<1>5. CASE PassEnds
  BY <1>5 DEF PassEnds, serverVars, peerVars
<1>6. CASE Shutdown
  BY <1>6 DEF Shutdown
<1>7. CASE \E c \in Clients : PeerSends(c)
  <2>1. PICK c \in Clients : PeerSends(c)
    BY <1>7
  <2>2. pieces[c] + 1 \in 0..MaxPieces /\ pieces' = [pieces EXCEPT ![c] = pieces[c] + 1]
    BY <2>1 DEF PeerSends
  <2>3. pieces' \in [Clients -> 0..MaxPieces]
    BY <2>2
  <2> QED
    BY <2>1, <2>3 DEF PeerSends, serverVars, passVars
<1>8. CASE \E c \in Clients : PeerCloses(c)
  <2>1. PICK c \in Clients : PeerCloses(c)
    BY <1>8
  <2>2. pieces' \in [Clients -> 0..MaxPieces]
    BY <2>1 DEF PeerCloses
  <2> QED
    BY <2>1, <2>2 DEF PeerCloses, serverVars, passVars
<1>9. CASE NoPortGiven \/ Bind \/ ResetTimer \/ Sleep
  BY <1>9 DEF NoPortGiven, Bind, ResetTimer, Sleep, passVars, peerVars
<1>10. CASE \/ NotDue \/ NotBoundYet \/ BindFails \/ Bound \/ AcceptFails \/ NobodyWaits \/ AfterAccept
            \/ CloseDisabled \/ NothingToClose \/ BindAnswers \/ UNCHANGED vars
            \/ \E c \in Clients : AcceptRefuses(c) \/ ScriptCloses(c) \/ PeerConnects(c)
            \/ (\E b \in BOOLEAN : SetEnabled(b)) \/ (\E p \in Ports : SetPort(p))
  <2>1. UNCHANGED <<table, num, ref, lastOk, wait, pieces>>
    BY <1>10 DEF NotDue, NotBoundYet, BindFails, Bound, AcceptFails, NobodyWaits, AfterAccept,
         CloseDisabled, NothingToClose, BindAnswers, vars, AcceptRefuses, ScriptCloses, PeerConnects,
         SetEnabled, SetPort, serverVars, passVars, peerVars
  <2> QED
    BY <2>1
<1> QED
  BY <1>1, <1>2, <1>3, <1>4, <1>5, <1>6, <1>7, <1>8, <1>9, <1>10
     DEF Next, Tick, ServerInput, ClientsInput, Script, Network

\* The steps that change what a client's connection is, or what was said of it.
LinkRests == UNCHANGED <<link, life>>

LEMMA NoLink ==
  ASSUME Next \/ UNCHANGED vars, ~AcceptFails, ~CloseDisabled, ~Receive, ~Drop, ~Shutdown,
         \A c \in Clients : ~Accept(c) /\ ~AcceptRefuses(c) /\ ~ScriptCloses(c) /\ ~PeerConnects(c)
  PROVE  LinkRests /\ (pc' = "ended" => pc = "ended")
BY DEF Next, vars, serverVars, passVars, peerVars, toldVars, LinkRests, Tick, ServerInput,
       ClientsInput, Script, Network, NotDue, NoPortGiven, Bind, NotBoundYet, BindFails, Bound, Keep,
       PassEnds, Looking, NobodyWaits, AfterAccept, NothingToClose, Sleep,
       SetEnabled, SetPort, ResetTimer, BindAnswers, PeerSends, PeerCloses, ScriptRuns, Binding, Accepting

\* Whoever is connected is known, and nobody is known before, through every step.
LEMMA LinkStep ==
  ASSUME Inv, [Next]_vars
  PROVE  /\ Unmet' /\ NoneLeaks'
         /\ link' \in [Clients -> {"away", "waiting", "open", "closed"}]
         /\ life' \in [Clients -> Told!Lives]
<1> USE DEF Inv, Unmet, NoneLeaks, Names, Told!Here
<1>0. {"unknown", "accepted", "heard", "left"} = Told!Lives
  BY DEF Told!Lives
<1>1. ASSUME NEW c \in Clients, Accept(c) PROVE
         /\ Unmet' /\ NoneLeaks'
         /\ link' \in [Clients -> {"away", "waiting", "open", "closed"}]
         /\ life' \in [Clients -> Told!Lives]
  BY <1>0, <1>1 DEF Accept, Accepting
<1>2. ASSUME NEW c \in Clients, AcceptRefuses(c) \/ ScriptCloses(c) \/ PeerConnects(c) PROVE
         /\ Unmet' /\ NoneLeaks'
         /\ link' \in [Clients -> {"away", "waiting", "open", "closed"}]
         /\ life' \in [Clients -> Told!Lives]
  BY <1>0, <1>2 DEF AcceptRefuses, ScriptCloses, PeerConnects, Accepting, toldVars
<1>3. CASE AcceptFails \/ CloseDisabled
  BY <1>0, <1>3 DEF AcceptFails, CloseDisabled, ClosePort, Accepting
<1>4. CASE Receive
  <2>1. This \in Clients /\ Told!Here(This)
    BY <1>4, ThisIsClient DEF Receive
  <2> QED
    BY <1>0, <1>4, <2>1 DEF Receive
<1>5. CASE Drop
  <2>1. This \in Clients /\ Told!Here(This)
    BY <1>5, ThisIsClient DEF Drop, Looking
  <2> QED
    BY <1>0, <1>5, <2>1 DEF Drop
<1>6. CASE Shutdown
  <2>1. pc = "inputs" /\ Used = 1..num
    BY <1>6 DEF Shutdown, PassInv, InPass, Used, Counts
  <2>2. \A c \in Clients : Told!Here(c) => \E i \in 1..num : table[i] = c
    BY <2>1 DEF TableExact
  <2>3. \A c \in Clients : link'[c] \in {"away", "closed"}
    BY <1>6, <2>2 DEF Shutdown
  <2>4. \A c \in Clients : link'[c] = "away" => link[c] = "away"
    BY <1>6 DEF Shutdown
  <2>5. life' = life /\ link' \in [Clients -> {"away", "waiting", "open", "closed"}]
    BY <1>6 DEF Shutdown, toldVars
  <2> QED
    BY <2>3, <2>4, <2>5
<1>7. CASE /\ ~AcceptFails /\ ~CloseDisabled /\ ~Receive /\ ~Drop /\ ~Shutdown
           /\ \A c \in Clients : ~Accept(c) /\ ~AcceptRefuses(c) /\ ~ScriptCloses(c) /\ ~PeerConnects(c)
  <2>1. LinkRests /\ (pc' = "ended" => pc = "ended")
    BY <1>7, NoLink
  <2> QED
    BY <2>1 DEF LinkRests
<1> QED
  BY <1>1, <1>2, <1>3, <1>4, <1>5, <1>6, <1>7

\* What is named, and what is true or false.
LEMMA NamesStep ==
  ASSUME Inv, [Next]_vars
  PROVE  Names' /\ Flags'
<1>1. /\ link' \in [Clients -> {"away", "waiting", "open", "closed"}]
      /\ life' \in [Clients -> Told!Lives]
  BY LinkStep
<1> USE DEF Inv, Names, Flags
<1>2. CASE ServerInput
  BY <1>1, <1>2 DEF ServerInput, NotDue, NoPortGiven, Bind, NotBoundYet, BindFails, Bound, Accept,
     AcceptRefuses, NobodyWaits, AcceptFails, AfterAccept, ClosePort, serverVars, passVars, peerVars, toldVars
<1>3. CASE ClientsInput \/ CloseDisabled \/ NothingToClose \/ Sleep
  BY <1>1, <1>3 DEF ClientsInput, Receive, Keep, Drop, PassEnds, CloseDisabled, NothingToClose, Sleep,
     ClosePort, serverVars, passVars, peerVars, toldVars
<1>4. CASE Shutdown
  BY <1>1, <1>4 DEF Shutdown, toldVars
<1>5. CASE Script
  BY <1>1, <1>5 DEF Script, SetEnabled, SetPort, ResetTimer, ScriptCloses, serverVars, passVars, peerVars,
     toldVars
<1>6. CASE Network
  BY <1>1, <1>6 DEF Network, BindAnswers, PeerConnects, PeerSends, PeerCloses, serverVars, passVars,
     peerVars, toldVars
<1>7. CASE UNCHANGED vars
  BY <1>1, <1>7 DEF vars, serverVars, peerVars, toldVars
<1> QED
  BY <1>2, <1>3, <1>4, <1>5, <1>6, <1>7 DEF Next, Tick

\* The first state, with an empty table and no port.
LEMMA InvInit == Init => Inv
<1> SUFFICES ASSUME Init PROVE Inv
  OBVIOUS
<1> USE BoundsAssumption DEF Init, Told!Init
<1>1. Used = {}
  BY DEF Used
<1>2. TableExact
  BY <1>1 DEF TableExact, Told!Here
<1>3. Counts /\ PassInv
  BY DEF Counts, PassInv, Refs
<1>4. Names /\ Phase /\ Unmet /\ PortInSync /\ NoneLeaks
  BY DEF Names, Phase, Unmet, PortInSync, NoneLeaks, Told!Lives
<1>5. Flags
  BY DEF Flags
<1> QED
  BY <1>2, <1>3, <1>4, <1>5 DEF Inv

-----------------------------------------------------------------------------
(* The theorems.                                                           *)

\* The inductive invariant of the server socket: table, pass, port, connections.
THEOREM Invariance == Spec => []Inv
<1>1. Inv /\ [Next]_vars => Inv'
  BY PassStep, TableStep, PortStep, CountsStep, LinkStep, NamesStep DEF Inv
<1> QED
  BY <1>1, InvInit, PTL DEF Spec

\* Every variable keeps its type (the members of ConnectorServerSocket).
THEOREM TypeCorrect == Spec => []TypeOK
<1>1. Inv => TypeOK
  BY DEF Inv, Counts, Names, Flags, TypeOK
<1> QED
  BY <1>1, Invariance, PTL

\* The table holds the clients the script knows of, each once, also while
\* tick_clients_input moves them.
THEOREM TableHolds == Spec => []TableExact
BY Invariance, PTL DEF Inv

\* m_server_state, m_active_port, the socket and the events agree, and no
\* connection is open that the script does not know of.
THEOREM NothingLeaks == Spec => [](PortInSync /\ NoneLeaks)
<1>1. Inv => PortInSync /\ NoneLeaks
  BY DEF Inv
<1> QED
  BY <1>1, Invariance, PTL

\* Every step tells the script nothing, or what ServerEvents allows next.
LEMMA StepTells ==
  ASSUME Inv, [Next]_vars
  PROVE  [Told!Next]_<<open, life>>
<1> USE DEF Inv
<1>1. CASE \E c \in Clients : Accept(c)
  <2>1. PICK c \in Clients : Accept(c)
    BY <1>1
  <2>2. open /\ life[c] = "unknown"
    BY <2>1 DEF Accept, Accepting, PortInSync, Unmet, Flags
  <2>3. Told!Comes(c)
    BY <2>1, <2>2 DEF Accept, Told!Comes
  <2> QED
    BY <2>3 DEF Told!Next
<1>2. CASE Receive
  <2>1. This \in Clients /\ Told!Here(This)
    BY <1>2, ThisIsClient DEF Receive
  <2>2. Told!Speaks(This)
    BY <1>2, <2>1 DEF Receive, Told!Speaks
  <2> QED
    BY <2>1, <2>2 DEF Told!Next
<1>3. CASE Drop
  <2>1. This \in Clients /\ Told!Here(This)
    BY <1>3, ThisIsClient DEF Drop, Looking
  <2>2. Told!Leaves(This)
    BY <1>3, <2>1 DEF Drop, Told!Leaves
  <2> QED
    BY <2>1, <2>2 DEF Told!Next
<1>4. CASE Bound
  BY <1>4 DEF Bound, Binding, PortInSync, Told!Next, Told!Opens
<1>5. CASE AcceptFails \/ CloseDisabled
  <2>1. open
    BY <1>5 DEF AcceptFails, Accepting, CloseDisabled, MustClose, PortInSync
  <2>2. open' = FALSE /\ life' = life
    BY <1>5 DEF AcceptFails, CloseDisabled
  <2> QED
    BY <2>1, <2>2 DEF Told!Next, Told!Closes
<1>6. CASE /\ ~(\E c \in Clients : Accept(c)) /\ ~Receive /\ ~Drop /\ ~Bound /\ ~AcceptFails
           /\ ~CloseDisabled
  BY <1>6 DEF Next, vars, Tick, ServerInput, ClientsInput, Script, Network, NotDue, NoPortGiven, Bind,
     NotBoundYet, BindFails, AcceptRefuses, NobodyWaits, AfterAccept, Keep, PassEnds, NothingToClose, Sleep,
     Shutdown, SetEnabled, SetPort, ResetTimer, ScriptCloses, BindAnswers, PeerConnects, PeerSends,
     PeerCloses, toldVars
<1> QED
  BY <1>1, <1>2, <1>3, <1>4, <1>5, <1>6

\* ServerSocket implements ServerEvents: the events of the port and of every
\* client come in turn, whatever the handlers do in a pass.
THEOREM Implements == Spec => EventsInTurn
<1>1. Init => Told!Init
  BY DEF Init
<1>2. Inv /\ [Next]_vars => [Told!Next]_<<open, life>>
  BY StepTells
<1> QED
  BY <1>1, <1>2, Invariance, PTL DEF Spec, EventsInTurn, Told!Spec
=============================================================================
