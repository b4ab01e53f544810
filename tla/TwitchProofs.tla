---------------------------- MODULE TwitchProofs ----------------------------
(***************************************************************************)
(* Twitch, for any number of coroutines, tokens, connections and switches: *)
(* no token is used that was not found valid, and the state is that of a   *)
(* coroutine there is.                                                     *)
(*                                                                         *)
(* OneConnects rests on Rest: an enabled connector that is inactive or has *)
(* a _do_connect running has no connection, so that no event of one, and   *)
(* no late answer to a subscription, takes the state away from it.         *)
(***************************************************************************)
EXTENDS Twitch, TLAPS

\* What a coroutine that waits for a validation holds.
Holding ==
  \A c \in Runs :
    /\ run[c].at = "stored"  => run[c].token \in Tokens \cup {NoToken}
    /\ run[c].at = "granted" => run[c].token \in Tokens

Rest ==
  ~died /\ ~hasty /\ on /\ state \in Working \cup {"inactive"} =>
    /\ ~wsEnabled /\ ws = "down"
    /\ \A c \in Runs : run[c].at # "subscribing"

IInv == TypeOK /\ Holding /\ TokensChecked /\ OneConnects /\ Rest

-----------------------------------------------------------------------------
(* Coroutines.                                                             *)

\* What a coroutine may wait for.
Waits == [at : {"idle", "stored", "asking", "granted", "subscribing"}, token : Tokens \cup {NoToken, Nothing}]

\* A coroutine is made from one that is idle.
LEMMA StartedFromIdle ==
  ASSUME NEW where, NEW token, Started(where, token)
  PROVE  \E c \in Runs : run[c] = Idle /\ run' = [run EXCEPT ![c] = At(where, token)]
<1> DEFINE free == {c \in Runs : run[c] = Idle}
<1>1. free # {} /\ run' = [run EXCEPT ![CHOOSE c \in free : TRUE] = At(where, token)]
  BY DEF Started
<1>2. (CHOOSE c \in free : TRUE) \in free
  BY <1>1
<1> QED
  BY <1>1, <1>2

\* What a change of one coroutine does to what it waits for.
LEMMA OneChanges ==
  ASSUME TypeOK, NEW c \in Runs, NEW r \in Waits,
         run' = [run EXCEPT ![c] = r]
  PROVE  /\ run' \in [Runs -> Waits]
         /\ run'[c] = r
         /\ \A d \in Runs \ {c} : run'[d] = run[d]
BY DEF TypeOK, Waits

-----------------------------------------------------------------------------
(* The steps.                                                              *)

LEMMA InitHolds == ASSUME TwitchAssumption, Init PROVE IInv
<1>1. TypeOK
  <2>1. run \in [Runs -> Waits]
    BY DEF Init, Idle, Waits
  <2>2. 0 \in 0..MaxConnections /\ 0 \in 0..MaxSwitches
    BY DEF TwitchAssumption
  <2> QED
    BY <2>1, <2>2 DEF Init, TypeOK, Waits, States
<1>2. \A c \in Runs : run[c].at = "idle"
  BY DEF Init, Idle
<1>3. Holding
  BY <1>2 DEF Holding
<1>4. TokensChecked
  BY DEF Init, TokensChecked
<1>5. OneConnects
  BY <1>2 DEF Init, OneConnects, Connecting, Working
<1>6. Rest
  BY <1>2 DEF Init, Rest
<1> QED
  BY <1>1, <1>3, <1>4, <1>5, <1>6 DEF IInv

LEMMA TickInputsKeeps == ASSUME TwitchAssumption, IInv, TickInputs PROVE IInv'
<1> USE DEF IInv
<1>1. CASE ~on
  <2>1. /\ ~on' /\ wsEnabled' = FALSE /\ state' = "inactive" /\ run' = run
        /\ UNCHANGED <<on, header, secret, ws, welcomed, connections, switches, checked, died, hasty>>
        /\ pc' = "middle"
    BY <1>1 DEF TickInputs
  <2>2. TypeOK'
    BY <2>1 DEF TypeOK, States
  <2>3. Holding' /\ TokensChecked'
    BY <2>1 DEF Holding, TokensChecked
  <2>4. OneConnects' /\ Rest'
    BY <2>1 DEF OneConnects, Connecting, Working, Rest
  <2> QED
    BY <2>2, <2>3, <2>4
<1>2. CASE on /\ state = "inactive"
  <2>1. /\ Connect /\ pc' = "middle"
        /\ UNCHANGED <<on, wsVars, header, secret, switches, checked, died, hasty>>
    BY <1>2 DEF TickInputs, wsVars
  <2>2. PICK c \in Runs, r \in {At("asking", Nothing), At("stored", secret)} :
          /\ run[c] = Idle /\ run' = [run EXCEPT ![c] = r]
          /\ r = At("asking", Nothing) => state' = "getting"
          /\ r = At("stored", secret) => state' = "validating" /\ secret # Nothing
    <3>1. CASE secret = Nothing
      <4>1. state' = "getting" /\ Started("asking", Nothing)
        BY <2>1, <3>1 DEF Connect
      <4>2. At("asking", Nothing) # At("stored", secret)
        BY DEF At
      <4> QED
        BY <4>1, <4>2, StartedFromIdle
    <3>2. CASE secret # Nothing
      <4>1. state' = "validating" /\ Started("stored", secret)
        BY <2>1, <3>2 DEF Connect
      <4>2. At("asking", Nothing) # At("stored", secret)
        BY DEF At
      <4> QED
        BY <4>1, <4>2, <3>2, StartedFromIdle
    <3> QED
      BY <3>1, <3>2
  <2>3. /\ r.at \in {"asking", "stored"} /\ r.token \in Tokens \cup {NoToken, Nothing}
        /\ r \in Waits
        /\ r.at = "stored" => r.token \in Tokens \cup {NoToken}
        /\ state' \in Working
    BY <2>2 DEF At, Waits, Working, IInv, TypeOK
  <2>4. /\ run' \in [Runs -> Waits]
        /\ run'[c] = r
        /\ \A d \in Runs \ {c} : run'[d] = run[d]
    BY <2>2, <2>3, OneChanges
  <2>5. TypeOK'
    BY <2>1, <2>3, <2>4 DEF TypeOK, Waits, wsVars, States, Working
  <2>6. Holding' /\ TokensChecked'
    BY <2>1, <2>3, <2>4 DEF Holding, TokensChecked, wsVars
  <2>7. OneConnects'
    <3>1. ~died /\ ~hasty => \A d \in Runs : ~Connecting(d)
      BY <1>2 DEF OneConnects, Working
    <3>2. ~died /\ ~hasty => \A d \in Runs : Connecting(d)' <=> d = c
      BY <2>3, <2>4, <3>1 DEF Connecting
    <3> QED
      BY <2>1, <2>3, <3>2 DEF OneConnects, Working
  <2>8. Rest'
    BY <1>2, <2>1, <2>3, <2>4 DEF Rest, wsVars
  <2> QED
    BY <2>5, <2>6, <2>7, <2>8
<1>3. CASE on /\ state # "inactive"
  <2>1. UNCHANGED <<on, state, run, header, secret, wsVars, switches, checked, died, hasty>> /\ pc' = "middle"
    BY <1>3 DEF TickInputs, wsVars
  <2>2. TypeOK'
    BY <2>1 DEF TypeOK, wsVars
  <2>3. Holding' /\ TokensChecked' /\ OneConnects' /\ Rest'
    BY <2>1 DEF Holding, TokensChecked, OneConnects, Connecting, Rest, wsVars
  <2> QED
    BY <2>2, <2>3
<1> QED
  BY <1>1, <1>2, <1>3
-----------------------------------------------------------------------------
(* Resuming a coroutine.                                                   *)

\* What stays as it is while a coroutine runs.
Aside == UNCHANGED <<pc, ws, welcomed, connections, switches, hasty>>

\* The types and the tokens, whichever coroutine goes on to wait for what it may.
LEMMA GoingOn ==
  ASSUME IInv, Aside, NEW c \in Runs, NEW r \in Waits, run' = [run EXCEPT ![c] = r],
         r.at = "stored" => r.token \in Tokens \cup {NoToken},
         r.at = "granted" => r.token \in Tokens,
         on' \in BOOLEAN, state' \in States, header' \in Tokens \cup {Nothing},
         secret' \in Tokens \cup {NoToken, Nothing}, wsEnabled' \in BOOLEAN,
         checked' \subseteq Tokens, died' \in BOOLEAN
  PROVE  /\ TypeOK' /\ Holding'
         /\ run'[c] = r /\ \A d \in Runs \ {c} : run'[d] = run[d]
<1>1. /\ run' \in [Runs -> Waits] /\ run'[c] = r
      /\ \A d \in Runs \ {c} : run'[d] = run[d]
  BY OneChanges DEF IInv
<1>2. TypeOK'
  BY <1>1 DEF IInv, TypeOK, Aside, Waits
<1>3. Holding'
  BY <1>1 DEF IInv, Holding
<1> QED
  BY <1>1, <1>2, <1>3

LEMMA DiesKeeps ==
  ASSUME IInv, Aside, NEW c \in Runs, Dies(c) PROVE IInv'
<1>1. Idle \in Waits /\ Idle.at = "idle"
  BY DEF Idle, Waits
<1>2. TypeOK' /\ Holding'
  BY <1>1, GoingOn DEF Dies, Ends, IInv, TypeOK
<1>3. TokensChecked' /\ OneConnects' /\ Rest'
  BY DEF Dies, IInv, TokensChecked, OneConnects, Rest
<1> QED
  BY <1>2, <1>3 DEF IInv

\* The last wait of a _do_connect is over, with a token that is valid.
LEMMA FinishKeeps ==
  ASSUME TwitchAssumption, IInv, Aside, NEW c \in Runs,
         Connecting(c), run[c].token \in Tokens,
         checked' = checked \cup {run[c].token}, Finish(run[c].token), Ends(c),
         secret' \in {secret, run[c].token}, died' = died
  PROVE  IInv'
<1>1. Idle \in Waits /\ Idle.at = "idle"
  BY DEF Idle, Waits
<1>2. /\ TypeOK' /\ Holding'
      /\ run'[c] = Idle /\ \A d \in Runs \ {c} : run'[d] = run[d]
  <2>1. on' \in BOOLEAN /\ state' \in States /\ header' \in Tokens \cup {Nothing}
    BY DEF Finish, IInv, TypeOK, States
  <2>2. wsEnabled' \in BOOLEAN /\ checked' \subseteq Tokens /\ died' \in BOOLEAN
    BY DEF Finish, IInv, TypeOK
  <2>3. secret' \in Tokens \cup {NoToken, Nothing}
    BY DEF IInv, TypeOK
  <2> QED
    BY <1>1, <2>1, <2>2, <2>3, GoingOn DEF Ends
<1>3. TokensChecked'
  BY DEF Finish, TokensChecked, TwitchAssumption
<1>4. OneConnects'
  <2>1. ~died /\ ~hasty => \A d \in Runs : Connecting(d) => d = c
    BY DEF IInv, OneConnects
  <2>2. ~died /\ ~hasty => \A d \in Runs : ~Connecting(d)'
    BY <1>1, <1>2, <2>1 DEF Connecting
  <2> QED
    BY <2>2 DEF Finish, Aside, OneConnects, Working
<1>5. Rest'
  BY DEF Finish, Rest, Working
<1> QED
  BY <1>2, <1>3, <1>4, <1>5 DEF IInv

LEMMA StoredIsValidKeeps ==
  ASSUME TwitchAssumption, IInv, Aside, NEW c \in Runs, StoredIsValid(c) PROVE IInv'
<1>1. Connecting(c) /\ run[c].token \in Tokens
  BY DEF StoredIsValid, IInv, Holding, Connecting
<1> QED
  BY <1>1, FinishKeeps DEF StoredIsValid

LEMMA GrantedIsValidKeeps ==
  ASSUME TwitchAssumption, IInv, Aside, NEW c \in Runs, GrantedIsValid(c) PROVE IInv'
<1>1. Connecting(c) /\ run[c].token \in Tokens
  BY DEF GrantedIsValid, IInv, Holding, Connecting
<1> QED
  BY <1>1, FinishKeeps DEF GrantedIsValid

\* A _do_connect goes on to its next wait.
LEMMA NextWaitKeeps ==
  ASSUME IInv, Aside, NEW c \in Runs, Connecting(c), NEW r \in Waits,
         run' = [run EXCEPT ![c] = r], r.at \in {"asking", "granted"},
         r.at = "granted" => r.token \in Tokens,
         state' \in Working, secret' \in {secret, NoToken},
         UNCHANGED <<on, header, wsEnabled, checked, died>>
  PROVE  IInv'
<1>1. /\ TypeOK' /\ Holding'
      /\ run'[c] = r /\ \A d \in Runs \ {c} : run'[d] = run[d]
  <2>1. /\ on' \in BOOLEAN /\ state' \in States /\ header' \in Tokens \cup {Nothing}
        /\ secret' \in Tokens \cup {NoToken, Nothing} /\ wsEnabled' \in BOOLEAN
        /\ checked' \subseteq Tokens /\ died' \in BOOLEAN
    BY DEF IInv, TypeOK, States, Working
  <2> QED
    BY <2>1, GoingOn
<1>2. TokensChecked'
  BY DEF IInv, TokensChecked
<1>3. \A d \in Runs : Connecting(d)' <=> Connecting(d)
  BY <1>1 DEF Connecting
<1>4. OneConnects'
  <2>1. state' \notin {"subscribing", "inactive"}
    BY DEF Working
  <2> QED
    BY <1>3, <2>1 DEF IInv, Aside, OneConnects
<1>5. Rest'
  <2>1. ~died /\ ~hasty /\ on => state \in Working
    BY DEF IInv, OneConnects
  <2> QED
    BY <1>1, <2>1 DEF IInv, Aside, Rest
<1> QED
  BY <1>1, <1>2, <1>4, <1>5 DEF IInv

LEMMA StoredIsRefusedKeeps ==
  ASSUME IInv, Aside, NEW c \in Runs, StoredIsRefused(c) PROVE IInv'
<1> DEFINE r == At("asking", Nothing)
<1>1. r \in Waits /\ r.at = "asking"
  BY DEF At, Waits
<1>2. Connecting(c) /\ state' \in Working /\ run' = [run EXCEPT ![c] = r]
  BY DEF StoredIsRefused, Connecting, Working, Goes
<1> QED
  BY <1>1, <1>2, NextWaitKeeps DEF StoredIsRefused

LEMMA GrantedKeeps ==
  ASSUME IInv, Aside, NEW c \in Runs, Granted(c) PROVE IInv'
<1>1. PICK t \in Tokens : Goes(c, "granted", t)
  BY DEF Granted
<1> DEFINE r == At("granted", t)
<1>2. r \in Waits /\ r.at = "granted" /\ r.token \in Tokens
  BY DEF At, Waits
<1>3. Connecting(c) /\ state' \in Working /\ run' = [run EXCEPT ![c] = r]
  BY <1>1 DEF Granted, Connecting, Working, Goes
<1> QED
  BY <1>2, <1>3, NextWaitKeeps DEF Granted

LEMMA RefusedKeeps ==
  ASSUME IInv, Aside, NEW c \in Runs, Refused(c) PROVE IInv'
<1>1. Idle \in Waits /\ Idle.at = "idle"
  BY DEF Idle, Waits
<1>2. /\ run' = [run EXCEPT ![c] = Idle] /\ state' = "inactive" /\ on' = FALSE
      /\ UNCHANGED <<header, secret, wsEnabled, checked, died>>
  BY DEF Refused, GiveUp, Ends
<1>3. /\ TypeOK' /\ Holding'
      /\ run'[c] = Idle /\ \A d \in Runs \ {c} : run'[d] = run[d]
  <2>1. /\ state' \in States /\ header' \in Tokens \cup {Nothing}
        /\ secret' \in Tokens \cup {NoToken, Nothing} /\ wsEnabled' \in BOOLEAN
        /\ checked' \subseteq Tokens /\ died' \in BOOLEAN
    BY <1>2 DEF IInv, TypeOK, States
  <2> QED
    BY <1>1, <1>2, <2>1, GoingOn
<1>4. TokensChecked' /\ Rest'
  BY <1>2 DEF IInv, TokensChecked, Rest
<1>5. OneConnects'
  <2>1. \A d \in Runs : Connecting(d)' => Connecting(d)
    BY <1>1, <1>3 DEF Connecting
  <2> QED
    BY <1>2, <2>1 DEF IInv, Aside, OneConnects
<1> QED
  BY <1>3, <1>4, <1>5 DEF IInv

LEMMA SubscribedKeeps ==
  ASSUME IInv, Aside, NEW c \in Runs, Subscribed(c) PROVE IInv'
<1>1. Idle \in Waits /\ Idle.at = "idle"
  BY DEF Idle, Waits
<1>2. /\ run' = [run EXCEPT ![c] = Idle] /\ state' = "active" /\ run[c].at = "subscribing"
      /\ UNCHANGED <<on, header, secret, wsEnabled, checked, died>>
  BY DEF Subscribed, Ends
<1>3. /\ TypeOK' /\ Holding'
      /\ run'[c] = Idle /\ \A d \in Runs \ {c} : run'[d] = run[d]
  <2>1. /\ on' \in BOOLEAN /\ state' \in States /\ header' \in Tokens \cup {Nothing}
        /\ secret' \in Tokens \cup {NoToken, Nothing} /\ wsEnabled' \in BOOLEAN
        /\ checked' \subseteq Tokens /\ died' \in BOOLEAN
    BY <1>2 DEF IInv, TypeOK, States
  <2> QED
    BY <1>1, <1>2, <2>1, GoingOn
<1>4. TokensChecked' /\ Rest'
  BY <1>2 DEF IInv, TokensChecked, Rest, Working
<1>5. OneConnects'
  <2>1. \A d \in Runs : Connecting(d)' <=> Connecting(d)
    BY <1>1, <1>2, <1>3 DEF Connecting
  <2>2. ~died /\ ~hasty /\ on => state \notin Working \cup {"inactive"}
    BY <1>2 DEF IInv, Rest
  <2> QED
    BY <1>2, <2>1, <2>2 DEF IInv, Aside, OneConnects, Working
<1> QED
  BY <1>3, <1>4, <1>5 DEF IInv

LEMMA ResumeKeeps ==
  ASSUME TwitchAssumption, IInv, NEW c \in Runs, Resume(c) PROVE IInv'
<1>1. Aside
  BY DEF Resume, Aside
<1> QED
  BY <1>1, DiesKeeps, StoredIsValidKeeps, StoredIsRefusedKeeps, GrantedKeeps, GrantedIsValidKeeps,
     RefusedKeeps, SubscribedKeeps DEF Resume
-----------------------------------------------------------------------------
(* The websocket, and the script.                                          *)

\* An enabled connector with a connection, or with one on its way, has come through
\* its _do_connect.
LEMMA NoneConnects ==
  ASSUME IInv, ~died, ~hasty, on, wsEnabled \/ ws # "down"
  PROVE  state \notin Working \cup {"inactive"} /\ \A c \in Runs : ~Connecting(c)
<1>1. state \notin Working \cup {"inactive"}
  BY DEF IInv, Rest
<1> QED
  BY <1>1 DEF IInv, OneConnects

Steady == UNCHANGED <<on, header, secret, wsEnabled, checked, died, hasty>>

\* An event that makes the state one of an open connection, or leaves it.
LEMMA EventKeeps ==
  ASSUME IInv, Steady, run' = run, TypeOK',
         \/ state' = state
         \/ (wsEnabled \/ ws # "down") /\ state' \in {"awaiting", "connecting", "active", "inactive"},
         state' = "inactive" => state = "inactive" \/ ~on,
         ws' # "down" => ws # "down" \/ wsEnabled
  PROVE  IInv'
<1>1. Holding' /\ TokensChecked'
  BY DEF IInv, Steady, Holding, TokensChecked
<1>2. CASE state' = state
  <2>1. OneConnects'
    BY <1>2 DEF IInv, Steady, OneConnects, Connecting
  <2>2. Rest'
    BY <1>2 DEF IInv, Steady, Rest
  <2> QED
    BY <1>1, <2>1, <2>2 DEF IInv
<1>3. CASE state' # state
  <2>1. ~died /\ ~hasty /\ on => state \notin Working \cup {"inactive"} /\ \A c \in Runs : ~Connecting(c)
    BY <1>3, NoneConnects
  <2>2. state' \notin Working \cup {"subscribing"} /\ (on => state' # "inactive")
    BY <1>3, <2>1 DEF Working
  <2>3. \A c \in Runs : Connecting(c)' <=> Connecting(c)
    BY DEF Connecting
  <2>4. OneConnects'
    BY <2>1, <2>2, <2>3 DEF IInv, Steady, OneConnects
  <2>5. Rest'
    BY <2>2 DEF Steady, Rest
  <2> QED
    BY <1>1, <2>4, <2>5 DEF IInv
<1> QED
  BY <1>2, <1>3
LEMMA TryKeeps == ASSUME IInv, Try PROVE IInv'
<1>1. TypeOK'
  BY DEF Try, Lk!Try, Quietly, IInv, TypeOK
<1> QED
  BY <1>1, EventKeeps DEF Try, Lk!Try, Quietly, Steady

LEMMA OnConnectKeeps == ASSUME TwitchAssumption, IInv, OnConnect PROVE IInv'
<1>1. connections + 1 \in 0..MaxConnections
  BY DEF OnConnect, IInv, TypeOK, TwitchAssumption
<1>2. TypeOK'
  BY <1>1 DEF OnConnect, Lk!OnConnect, Quietly, IInv, TypeOK, States
<1>3. ws # "down" /\ state' = "awaiting" /\ run' = run
  BY DEF OnConnect, Lk!OnConnect
<1>4. Steady
  BY DEF OnConnect, Quietly, Steady
<1> QED
  BY <1>2, <1>3, <1>4, EventKeeps

LEMMA FailsKeeps == ASSUME IInv, Fails PROVE IInv'
<1>1. TypeOK'
  BY DEF Fails, Lk!OnConnectFailed, Lk!Closed, Quietly, IInv, TypeOK
<1> QED
  BY <1>1, EventKeeps DEF Fails, Lk!OnConnectFailed, Lk!Closed, Quietly, Steady

LEMMA OnDisconnectKeeps == ASSUME IInv, OnDisconnect PROVE IInv'
<1>1. TypeOK'
  BY DEF OnDisconnect, Lk!OnDisconnect, Disconnected, Quietly, IInv, TypeOK, States
<1>2. ws # "down" /\ state' \in {"connecting", "inactive"} /\ (state' = "inactive" => ~on) /\ run' = run
  BY DEF OnDisconnect, Lk!OnDisconnect, Disconnected
<1>3. Steady
  BY DEF OnDisconnect, Quietly, Steady
<1> QED
  BY <1>1, <1>2, <1>3, EventKeeps

LEMMA TickOutputsKeeps == ASSUME IInv, TickOutputs PROVE IInv'
<1>1. TypeOK'
  BY DEF TickOutputs, Lk!Disabled, Disconnected, IInv, TypeOK, States
<1>2. Steady /\ run' = run
  BY DEF TickOutputs, Steady
<1>3. \/ ws # "down" /\ state' \in {"connecting", "inactive"} /\ (state' = "inactive" => ~on)
      \/ ws' = ws /\ state' = state
  BY DEF TickOutputs, Lk!Disabled, Disconnected
<1> QED
  BY <1>1, <1>2, <1>3, EventKeeps

LEMMA WelcomeKeeps == ASSUME TwitchAssumption, IInv, Welcome PROVE IInv'
<1>1. Steady /\ wsEnabled /\ ws = "up" /\ UNCHANGED <<pc, ws, connections, switches>> /\ welcomed' = TRUE
  BY DEF Welcome, Quietly, Steady
<1>2. CASE state' = "active" /\ run' = run
  <2>1. TypeOK'
    BY <1>1, <1>2 DEF Steady, IInv, TypeOK, States
  <2> QED
    BY <1>1, <1>2, <2>1, EventKeeps
<1>3. CASE state' = "subscribing" /\ Started("subscribing", Nothing)
  <2> DEFINE r == At("subscribing", Nothing)
  <2>1. PICK c \in Runs : run[c] = Idle /\ run' = [run EXCEPT ![c] = r]
    BY <1>3, StartedFromIdle
  <2>2. r \in Waits /\ r.at = "subscribing" /\ Idle.at = "idle"
    BY DEF At, Waits, Idle
  <2>3. /\ run' \in [Runs -> Waits] /\ run'[c] = r
        /\ \A d \in Runs \ {c} : run'[d] = run[d]
    BY <2>1, <2>2, OneChanges DEF IInv
  <2>4. TypeOK'
    BY <1>1, <1>3, <2>3 DEF Steady, IInv, TypeOK, Waits, States
  <2>5. Holding' /\ TokensChecked'
    BY <1>1, <2>2, <2>3 DEF Steady, IInv, Holding, TokensChecked
  <2>6. OneConnects'
    <3>1. ~died /\ ~hasty /\ on => \A d \in Runs : ~Connecting(d)
      BY <1>1, NoneConnects
    <3>2. \A d \in Runs : Connecting(d)' <=> Connecting(d)
      BY <2>1, <2>2, <2>3 DEF Connecting
    <3>3. state' \notin Working /\ run'[c].at = "subscribing"
      BY <1>3, <2>2, <2>3 DEF Working
    <3> QED
      BY <1>1, <3>1, <3>2, <3>3 DEF Steady, IInv, OneConnects
  <2>7. Rest'
    BY <1>3 DEF Rest, Working
  <2> QED
    BY <2>4, <2>5, <2>6, <2>7 DEF IInv
<1> QED
  BY <1>2, <1>3 DEF Welcome

LEMMA SwitchKeeps == ASSUME TwitchAssumption, IInv, Switch PROVE IInv'
<1>1. /\ on' = ~on /\ hasty' = (hasty \/ (~on /\ ~AtRest))
      /\ UNCHANGED <<pc, state, run, header, secret, wsVars, checked, died>>
  BY DEF Switch
<1>2. switches' \in 0..MaxSwitches
  BY DEF Switch, IInv, TypeOK, TwitchAssumption
<1>3. TypeOK'
  BY <1>1, <1>2 DEF wsVars, IInv, TypeOK
<1>4. Holding' /\ TokensChecked'
  BY <1>1 DEF wsVars, IInv, Holding, TokensChecked
<1>5. \A c \in Runs : Connecting(c)' <=> Connecting(c)
  BY <1>1 DEF Connecting
<1>6. ~hasty' /\ on' => /\ state = "inactive" /\ ~wsEnabled /\ ws = "down"
                        /\ \A c \in Runs : run[c].at = "idle"
  BY <1>1 DEF AtRest, Idle, IInv, TypeOK
<1>7. OneConnects'
  <2>1. ~hasty' /\ on' => state \notin Working \cup {"subscribing"} /\ \A c \in Runs : ~Connecting(c)
    BY <1>6 DEF Working, Connecting
  <2>2. ~hasty' => ~hasty
    BY <1>1
  <2>3. on' => ~on
    BY <1>1 DEF IInv, TypeOK
  <2> QED
    BY <1>1, <1>5, <1>6, <2>1, <2>2, <2>3 DEF wsVars, IInv, OneConnects
<1>8. Rest'
  BY <1>1, <1>6 DEF wsVars, Rest
<1> QED
  BY <1>3, <1>4, <1>7, <1>8 DEF IInv

-----------------------------------------------------------------------------
(* Every step, and the theorems.                                           *)

LEMMA StepKeeps == ASSUME TwitchAssumption, IInv, [Next]_vars PROVE IInv'
<1>1. CASE Turn
  BY <1>1, TickInputsKeeps, TickOutputsKeeps DEF Turn
<1>2. CASE Events
  BY <1>2, TryKeeps, OnConnectKeeps, FailsKeeps, WelcomeKeeps, OnDisconnectKeeps DEF Events
<1>3. CASE Switch
  BY <1>3, SwitchKeeps
<1>4. CASE Resumes
  BY <1>4, ResumeKeeps DEF Resumes
<1>5. CASE UNCHANGED vars
  <2>1. TypeOK'
    BY <1>5 DEF vars, wsVars, IInv, TypeOK
  <2>2. Holding' /\ TokensChecked' /\ Rest'
    BY <1>5 DEF vars, wsVars, IInv, Holding, TokensChecked, Rest
  <2>3. OneConnects'
    BY <1>5 DEF vars, wsVars, IInv, OneConnects, Connecting
  <2> QED
    BY <2>1, <2>2, <2>3 DEF IInv
<1> QED
  BY <1>1, <1>2, <1>3, <1>4, <1>5 DEF Next

THEOREM Invariance == ASSUME TwitchAssumption PROVE Spec => []IInv
<1>1. Init => IInv
  BY InitHolds
<1>2. IInv /\ [Next]_vars => IInv'
  BY StepKeeps
<1> QED
  BY <1>1, <1>2, PTL DEF Spec

\* Every variable of the Twitch script has its type.
THEOREM TypesHold == ASSUME TwitchAssumption PROVE Spec => []TypeOK
<1>1. IInv => TypeOK
  BY DEF IInv
<1> QED
  BY <1>1, Invariance, PTL

\* The Twitch script opens its websocket, and makes requests, only with a token that
\* a server has found valid, whichever coroutine puts it there.
THEOREM OnlyCheckedTokens == ASSUME TwitchAssumption PROVE Spec => []TokensChecked
<1>1. IInv => TokensChecked
  BY DEF IInv
<1> QED
  BY <1>1, Invariance, PTL

\* Unless a wait() gave nil or the script was enabled again too soon, no two
\* _do_connect run, and the script is in no state whose coroutine is gone.
THEOREM StatesHaveCoroutines == ASSUME TwitchAssumption PROVE Spec => []OneConnects
<1>1. IInv => OneConnects
  BY DEF IInv
<1> QED
  BY <1>1, Invariance, PTL
=============================================================================
