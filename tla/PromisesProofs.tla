--------------------------- MODULE PromisesProofs ---------------------------
(***************************************************************************)
(* Proofs about Promises for any number of coroutines, promises, keys and  *)
(* values, and any timeouts.                                               *)
(***************************************************************************)
EXTENDS Promises, SequenceTheorems, TLAPS

USE NamesAssumption, TimeAssumption

-----------------------------------------------------------------------------
(* The inductive invariant: coroutines first, promises second.             *)

\* The coroutines on the stack are the active ones, each once; a suspended
\* coroutine has an entry for what it waits for, and only one that is on the
\* stack may have a stale one, until it yields again or ends.
ThreadInv ==
  /\ \A i, j \in 1..Len(stack) : stack[i] = stack[j] => i = j
  /\ \A c \in Coroutines :
       status[c] = "active" <=> \E i \in 1..Len(stack) : stack[i] = c
  /\ \A c \in Coroutines : status[c] = "suspended" => table[c] # None /\ waits[c] = table[c]
  /\ \A c \in Coroutines : table[c] # None => status[c] \in {"suspended", "active"}
  /\ \A c \in Coroutines : waits[c] # None => status[c] = "suspended"

\* A promise is answered in this round when there is an answer; then it has a
\* value.  A promise is timed out only for as long as its timeout is over.
PromiseInv ==
  /\ \A p \in Promises :
       /\ Answered(p) <=> answer[p] # None
       /\ Answered(p) => value[p] # None
       /\ kind[p] = "unborn" => fulfilled[p] = "not"
       /\ fulfilled[p] = "timedout" => Due(p)
  /\ \A k \in Keys : list[k] # None => kind[list[k]] # "unborn"

\* Coroutines wait for promises that were made.
AwaitInv == \A c \in Coroutines : table[c] \in Promises => kind[table[c]] # "unborn"

IInv == TypeOK /\ ThreadInv /\ PromiseInv /\ AwaitInv

\* Before anything runs there are no coroutines and no promises.
LEMMA InitIInv == Init => IInv
BY DEF Init, IInv, TypeOK, ThreadInv, PromiseInv, AwaitInv, Answered, Due

\* Operations that leave the coroutines alone keep ThreadInv.
LEMMA ThreadsAlone ==
  ASSUME ThreadInv, UNCHANGED <<stack, status, table, waits>>
  PROVE  ThreadInv'
BY DEF ThreadInv

\* Steps of the loop that leave the promises alone keep PromiseInv.
LEMMA PromisesAlone ==
  ASSUME PromiseInv, UNCHANGED promiseVars
  PROVE  PromiseInv'
BY DEF PromiseInv, promiseVars, Answered, Due

-----------------------------------------------------------------------------
(* The stack of coroutines.                                                *)

\* A coroutine that takes the processor was not on the stack
\* (yieldable_call, and the resume of the pass on an empty stack).
LEMMA Push ==
  ASSUME TypeOK, ThreadInv, NEW c \in Coroutines, status[c] # "active",
         stack' = Append(stack, c),
         status' = [status EXCEPT ![c] = "active"]
  PROVE  /\ stack' \in Seq(Coroutines)
         /\ \A i, j \in 1..Len(stack') : stack'[i] = stack'[j] => i = j
         /\ \A d \in Coroutines :
              status'[d] = "active" <=> \E i \in 1..Len(stack') : stack'[i] = d
<1>1. /\ stack' \in Seq(Coroutines)
      /\ Len(stack') = Len(stack) + 1 /\ Len(stack) \in Nat
      /\ \A i \in 1..Len(stack) : stack'[i] = stack[i]
      /\ stack'[Len(stack) + 1] = c
  BY DEF TypeOK
<1>2. \A i \in 1..Len(stack) : stack[i] # c
  BY DEF ThreadInv
<1>3. ASSUME NEW i \in 1..Len(stack'), NEW j \in 1..Len(stack'),
             stack'[i] = stack'[j]
      PROVE  i = j
  BY <1>1, <1>2, <1>3 DEF ThreadInv
<1>4. ASSUME NEW d \in Coroutines
      PROVE  status'[d] = "active" <=> \E i \in 1..Len(stack') : stack'[i] = d
  <2>1. CASE d = c
    BY <1>1, <2>1 DEF TypeOK
  <2>2. CASE d # c
    BY <1>1, <2>2 DEF TypeOK, ThreadInv
  <2> QED
    BY <2>1, <2>2
<1> QED
  BY <1>1, <1>3, <1>4

\* The coroutine that leaves the processor is nowhere else on the stack, so it
\* stops being active, and nobody else does (lua_yield, and the end of a
\* coroutine).
LEMMA Pop ==
  ASSUME TypeOK, ThreadInv, NEW c \in Coroutines, running = c,
         stack' = Callers, NEW next \in {"suspended", "dead"},
         status' = [status EXCEPT ![c] = next]
  PROVE  /\ stack' \in Seq(Coroutines)
         /\ \A i, j \in 1..Len(stack') : stack'[i] = stack'[j] => i = j
         /\ \A d \in Coroutines :
              status'[d] = "active" <=> \E i \in 1..Len(stack') : stack'[i] = d
<1> DEFINE n == Len(stack)
<1>1. /\ n \in Nat \ {0} /\ stack[n] = c
      /\ stack' \in Seq(Coroutines)
      /\ Len(stack') = n - 1
      /\ \A i \in 1..(n - 1) : stack'[i] = stack[i]
  <2>1. stack # <<>> /\ stack[n] = c
    BY DEF running, Main
  <2>2. stack \in Seq(Coroutines) /\ n \in Nat \ {0}
    BY <2>1 DEF TypeOK
  <2>3. stack' = SubSeq(stack, 1, n - 1)
    BY DEF Callers
  <2>4. stack' \in Seq(Coroutines) /\ Len(stack') = n - 1
    <3> DEFINE m == n - 1
    <3>1. m \in Nat /\ \A i \in 1..m : stack[i] \in Coroutines
      BY <2>2
    <3>2. stack' = SubSeq(stack, 1, m)
      BY <2>3
    <3> HIDE DEF m
    <3>3. /\ SubSeq(stack, 1, m) \in Seq(Coroutines)
          /\ Len(SubSeq(stack, 1, m)) = IF 1 <= m THEN m - 1 + 1 ELSE 0
      BY <3>1, SubSeqProperties
    <3>4. stack' \in Seq(Coroutines) /\ Len(stack') = m
      BY <3>1, <3>2, <3>3
    <3> QED
      BY <3>4 DEF m
  <2>5. ASSUME NEW i \in 1..(n - 1)
        PROVE  stack'[i] = stack[i]
    BY <2>2, <2>3
  <2> QED
    BY <2>1, <2>2, <2>4, <2>5
<1>2. \A i \in 1..(n - 1) : stack'[i] # c
  BY <1>1 DEF ThreadInv
<1>3. ASSUME NEW d \in Coroutines
      PROVE  status'[d] = "active" <=> \E i \in 1..Len(stack') : stack'[i] = d
  <2>1. CASE d = c
    BY <1>1, <1>2, <2>1 DEF TypeOK
  <2>2. CASE d # c
    <3>1. status'[d] = status[d]
      BY <2>2 DEF TypeOK
    <3>2. (\E i \in 1..n : stack[i] = d) <=> (\E i \in 1..(n - 1) : stack'[i] = d)
      BY <1>1, <2>2
    <3> QED
      BY <1>1, <3>1, <3>2 DEF ThreadInv
  <2> QED
    BY <2>1, <2>2
<1>4. \A i, j \in 1..Len(stack') : stack'[i] = stack'[j] => i = j
  BY <1>1 DEF ThreadInv
<1> QED
  BY <1>1, <1>3, <1>4

-----------------------------------------------------------------------------
(* One lemma per kind of step.                                             *)

\* Making, fulfilling, resetting and collecting promises, and the failing
\* wait, touch no coroutine and keep the books of the promises.
LEMMA ScriptStep ==
  ASSUME IInv,
         \/ \E p \in Promises, t \in Timeouts : NewSingle(p, t)
         \/ \E p \in Promises, k \in Keys, t \in Defaults : NewListed(p, k, t)
         \/ \E p \in Promises \cup {None}, k \in Keys : Put(k, p)
         \/ \E p \in Promises, v \in Values : Fulfill(p, v)
         \/ \E k \in Keys, v \in Values : FulfillKey(k, v)
         \/ \E v \in Values : FulfillAll(v)
         \/ \E p \in Promises : Reset(p)
         \/ \E p \in Promises, t \in Timeouts : WaitOutside(p, t)
         \/ \E k \in Keys : Collect(k)
  PROVE  IInv'
<1> USE DEF IInv, TypeOK, PromiseInv, Answered, Due, threadVars, historyVars
<1>1. UNCHANGED threadVars /\ UNCHANGED historyVars
  BY DEF NewSingle, NewListed, Put, Fulfill, FulfillKey, FulfillAll, Reset,
         WaitOutside, Collect
<1>2. ThreadInv'
  BY <1>1, ThreadsAlone DEF historyVars
<1>3. TypeOK' /\ PromiseInv' /\ AwaitInv'
  <2> USE DEF AwaitInv
  <2>1. ASSUME NEW p \in Promises, NEW t \in Timeouts, NewSingle(p, t)
        PROVE  TypeOK' /\ PromiseInv' /\ AwaitInv'
    BY <1>1, <2>1 DEF NewSingle
  <2>2. ASSUME NEW p \in Promises, NEW k \in Keys, NEW t \in Defaults,
               NewListed(p, k, t)
        PROVE  TypeOK' /\ PromiseInv' /\ AwaitInv'
    BY <1>1, <2>2 DEF NewListed, Defaults
  <2>3. ASSUME NEW p \in Promises, NEW v \in Values, Fulfill(p, v)
        PROVE  TypeOK' /\ PromiseInv' /\ AwaitInv'
    BY <1>1, <2>3 DEF Fulfill, Mark
  <2>4. ASSUME NEW k \in Keys, NEW v \in Values, FulfillKey(k, v)
        PROVE  TypeOK' /\ PromiseInv' /\ AwaitInv'
    BY <1>1, <2>4 DEF FulfillKey, Mark
  <2>5. ASSUME NEW v \in Values, FulfillAll(v)
        PROVE  TypeOK' /\ PromiseInv' /\ AwaitInv'
    BY <1>1, <2>5 DEF FulfillAll, Mark
  <2>6. ASSUME NEW p \in Promises, Reset(p)
        PROVE  TypeOK' /\ PromiseInv' /\ AwaitInv'
    BY <1>1, <2>6 DEF Reset
  <2>7. ASSUME NEW p \in Promises, NEW t \in Timeouts, WaitOutside(p, t)
        PROVE  TypeOK' /\ PromiseInv' /\ AwaitInv'
    BY <1>1, <2>7 DEF WaitOutside, Await
  <2>8. ASSUME NEW k \in Keys, Collect(k)
        PROVE  TypeOK' /\ PromiseInv' /\ AwaitInv'
    BY <1>1, <2>8 DEF Collect
  <2>9. ASSUME NEW p \in Promises \cup {None}, NEW k \in Keys, Put(k, p)
        PROVE  TypeOK' /\ PromiseInv' /\ AwaitInv'
    BY <1>1, <2>9 DEF Put
  <2> QED
    BY <2>1, <2>2, <2>3, <2>4, <2>5, <2>6, <2>7, <2>8, <2>9
<1> QED
  BY <1>2, <1>3

\* A handler that starts has no entry in the table (yieldable_call).
LEMMA CallStep ==
  ASSUME IInv, NEW c \in Coroutines, Call(c)
  PROVE  IInv'
<1>1. PromiseInv'
  BY PromisesAlone DEF IInv, Call
<1>2. /\ stack' = Append(stack, c) /\ table' = table
      /\ status' = [status EXCEPT ![c] = "active"] /\ status[c] = "unborn"
  BY DEF Call
<1>4. /\ stack' \in Seq(Coroutines)
      /\ \A i, j \in 1..Len(stack') : stack'[i] = stack'[j] => i = j
      /\ \A d \in Coroutines :
           status'[d] = "active" <=> \E i \in 1..Len(stack') : stack'[i] = d
  BY <1>2, Push DEF IInv
<1>5. ThreadInv'
  BY <1>2, <1>4 DEF IInv, TypeOK, ThreadInv, Call, historyVars
<1>6. TypeOK'
  BY <1>2, <1>4 DEF IInv, TypeOK, Call, promiseVars, historyVars
<1>3. AwaitInv'
  BY DEF IInv, AwaitInv, Call, promiseVars
<1> QED
  BY <1>1, <1>3, <1>5, <1>6 DEF IInv

\* A coroutine that yields is in the table from then on (yieldable_call and
\* process_yielded_functions after LUA_YIELD).
LEMMA ParkStep ==
  ASSUME IInv, NEW c \in Coroutines, NEW e \in Promises \cup {True}, Park(c, e),
         \/ e = True /\ UNCHANGED promiseVars
         \/ e \in Promises /\ \E t \in Timeouts \cup {DefaultTimeout} : Await(e, t)
  PROVE  IInv'
<1>1. PromiseInv'
  <2>1. CASE UNCHANGED promiseVars
    BY <2>1, PromisesAlone DEF IInv
  <2>2. ASSUME NEW t \in Timeouts \cup {DefaultTimeout}, Await(e, t), e \in Promises
        PROVE  PromiseInv'
    BY <2>2 DEF IInv, TypeOK, PromiseInv, Await, Answered, Due
  <2> QED
    BY <2>1, <2>2
<1>2. ThreadInv' /\ stack' \in Seq(Coroutines)
  <2>1. /\ running = c /\ stack' = Callers
        /\ status' = [status EXCEPT ![c] = "suspended"]
        /\ table' = [table EXCEPT ![c] = e] /\ e # None
        /\ waits' = [waits EXCEPT ![c] = e]
    BY DEF Park
  <2>2. /\ stack' \in Seq(Coroutines)
        /\ \A i, j \in 1..Len(stack') : stack'[i] = stack'[j] => i = j
        /\ \A d \in Coroutines :
             status'[d] = "active" <=> \E i \in 1..Len(stack') : stack'[i] = d
    BY <2>1, Pop DEF IInv
  <2> QED
    BY <2>1, <2>2 DEF IInv, TypeOK, ThreadInv
<1>3. /\ phase' = phase
      /\ todo' \in SUBSET Coroutines
      /\ status' \in [Coroutines -> {"unborn", "active", "suspended", "dead"}]
      /\ table' \in [Coroutines -> Promises \cup {True, None}]
      /\ woke' \in [Coroutines -> {"no", "answer", "timeout"}]
      /\ waits' \in [Coroutines -> Promises \cup {True, None}]
  BY DEF IInv, TypeOK, Park, Parked
<1>4. /\ fulfilled' \in [Promises -> {"not", "yes", "timedout", "seen"}]
      /\ timeout' \in [Promises -> Timeouts \cup {DefaultTimeout}]
      /\ UNCHANGED <<kind, age, value, list, resets, answer>>
  <2>1. CASE UNCHANGED promiseVars
    BY <2>1 DEF IInv, TypeOK, promiseVars
  <2>2. ASSUME NEW t \in Timeouts \cup {DefaultTimeout}, Await(e, t)
        PROVE  /\ fulfilled' \in [Promises -> {"not", "yes", "timedout", "seen"}]
               /\ timeout' \in [Promises -> Timeouts \cup {DefaultTimeout}]
               /\ UNCHANGED <<kind, age, value, list, resets, answer>>
    BY <2>2 DEF IInv, TypeOK, Await
  <2> QED
    BY <2>1, <2>2
<1>5. TypeOK'
  BY <1>2, <1>3, <1>4 DEF IInv, TypeOK
<1>6. AwaitInv'
  BY <1>4 DEF IInv, TypeOK, AwaitInv, Park, Await
<1> QED
  BY <1>1, <1>2, <1>5, <1>6 DEF IInv

\* A coroutine that ended has no entry (process_yielded_functions).
LEMMA FinishStep ==
  ASSUME IInv, NEW c \in Coroutines, Finish(c)
  PROVE  IInv'
<1>1. PromiseInv'
  BY PromisesAlone DEF IInv, Finish
<1>2. /\ running = c /\ stack' = Callers
      /\ status' = [status EXCEPT ![c] = "dead"]
      /\ table' = [table EXCEPT ![c] = None]
      /\ UNCHANGED historyVars
  BY DEF Finish
<1>3. /\ stack' \in Seq(Coroutines)
      /\ \A i, j \in 1..Len(stack') : stack'[i] = stack'[j] => i = j
      /\ \A d \in Coroutines :
           status'[d] = "active" <=> \E i \in 1..Len(stack') : stack'[i] = d
  BY <1>2, Pop DEF IInv
<1>4. ThreadInv'
  <2>1. stack # <<>> /\ stack[Len(stack)] = c
    BY <1>2 DEF running, Main
  <2>2. Len(stack) \in 1..Len(stack)
    BY <2>1 DEF IInv, TypeOK
  <2>3. status[c] = "active"
    BY <2>1, <2>2 DEF IInv, ThreadInv
  <2> QED
    BY <1>2, <1>3, <2>3 DEF IInv, TypeOK, ThreadInv, historyVars
<1>5. TypeOK'
  BY <1>2, <1>3 DEF IInv, TypeOK, Finish, promiseVars, historyVars
<1>6. AwaitInv'
  BY <1>2 DEF IInv, TypeOK, AwaitInv, Finish, promiseVars
<1> QED
  BY <1>1, <1>4, <1>5, <1>6 DEF IInv

\* The pass resumes suspended coroutines only, and check_wakeup changes a
\* promise the way its clock says.
LEMMA ResumeStep ==
  ASSUME IInv, NEW c \in Coroutines, Resume(c)
  PROVE  IInv'
<1>1. stack = <<>>
  BY DEF Resume, running, IInv, TypeOK, Main
<1>2. status[c] = "suspended" /\ stack' = Append(stack, c)
  BY <1>1 DEF Resume, IInv, TypeOK, ThreadInv
<1>3. /\ stack' \in Seq(Coroutines)
      /\ ThreadInv'
  <2>1. /\ status' = [status EXCEPT ![c] = "active"] /\ table' = table
        /\ waits' = [waits EXCEPT ![c] = None]
    BY DEF Resume
  <2>2. /\ stack' \in Seq(Coroutines)
        /\ \A i, j \in 1..Len(stack') : stack'[i] = stack'[j] => i = j
        /\ \A d \in Coroutines :
             status'[d] = "active" <=> \E i \in 1..Len(stack') : stack'[i] = d
    BY <1>2, <2>1, Push DEF IInv
  <2> QED
    BY <1>2, <2>1, <2>2 DEF IInv, TypeOK, ThreadInv
<1>4. PromiseInv' /\ fulfilled' \in [Promises -> {"not", "yes", "timedout", "seen"}]
  <2>1. CASE UNCHANGED fulfilled
    BY <2>1, PromisesAlone DEF Resume, IInv, TypeOK, promiseVars
  <2>2. ASSUME NEW p \in Promises, p = table[c],
               fulfilled' = [fulfilled EXCEPT ![p] = Checked(p)]
        PROVE  PromiseInv' /\ fulfilled' \in [Promises -> {"not", "yes", "timedout", "seen"}]
    <3>1. /\ fulfilled' \in [Promises -> {"not", "yes", "timedout", "seen"}]
          /\ UNCHANGED <<kind, age, timeout, value, list, resets, answer>>
      BY <2>2 DEF Resume, IInv, TypeOK, Checked
    <3>2. ASSUME NEW q \in Promises
          PROVE  /\ Answered(q)' <=> Answered(q)
                 /\ fulfilled'[q] = "timedout" => Due(q)
                 /\ kind[q] = "unborn" => fulfilled'[q] = "not" \/ q = p
      BY <2>2 DEF IInv, TypeOK, PromiseInv, Checked, Answered
    <3>3. kind[p] # "unborn"
      BY <2>2 DEF IInv, AwaitInv
    <3> QED
      BY <3>1, <3>2, <3>3 DEF IInv, PromiseInv, Due
  <2> QED
    BY <2>1, <2>2 DEF Resume
<1>5. TypeOK'
  BY <1>3, <1>4 DEF Resume, IInv, TypeOK
<1>6. AwaitInv'
  BY DEF IInv, AwaitInv, Resume
<1> QED
  BY <1>3, <1>4, <1>5, <1>6 DEF IInv

\* The rest of the loop: entries that are skipped, and the turn of a tick.
LEMMA TurnStep ==
  ASSUME IInv, StartPass \/ EndPass \/ EndTick \/ \E c \in Coroutines : Skip(c)
  PROVE  IInv'
<1>1. ThreadInv'
  BY ThreadsAlone DEF IInv, StartPass, EndPass, EndTick, Skip, historyVars
<1>2. CASE StartPass \/ EndPass \/ \E c \in Coroutines : Skip(c)
  BY <1>1, <1>2, PromisesAlone
  DEF IInv, AwaitInv, TypeOK, StartPass, EndPass, Skip, Parked, promiseVars, historyVars
<1>3. CASE EndTick
  <2>1. /\ age' \in [Promises -> Nat]
        /\ \A p \in Promises : age'[p] >= age[p]
    BY <1>3 DEF EndTick, IInv, TypeOK
  <2>2. TypeOK'
    BY <1>3, <2>1 DEF EndTick, IInv, TypeOK, historyVars
  <2>3. timeout' = timeout /\ \A p \in Promises : timeout[p] \in Nat
    <3>1. timeout' = timeout
      BY <1>3 DEF EndTick
    <3>2. \A p \in Promises : timeout[p] \in Timeouts \cup {DefaultTimeout}
      BY DEF IInv, TypeOK
    <3> QED
      BY <3>1, <3>2
  <2>4. \A p \in Promises : Due(p) => Due(p)'
    BY <2>1, <2>3 DEF Due, IInv, TypeOK
  <2> QED
    BY <1>1, <1>3, <2>2, <2>4 DEF EndTick, IInv, AwaitInv, PromiseInv, Answered
<1> QED
  BY <1>2, <1>3

\* Every step keeps the invariant: scripts, handlers and the loop.
LEMMA NextIInv == IInv /\ [Next]_vars => IInv'
<1> SUFFICES ASSUME IInv, [Next]_vars
             PROVE  IInv'
  OBVIOUS
<1>1. CASE Script
  BY <1>1, ScriptStep, CallStep DEF Script
<1>2. ASSUME NEW c \in Coroutines, Leave(c)
      PROVE  IInv'
  <2>1. CASE Yield(c)
    BY <2>1, ParkStep DEF Yield
  <2>2. ASSUME NEW p \in Promises, NEW t \in Timeouts \cup {DefaultTimeout},
               Wait(c, p, t)
        PROVE  IInv'
    BY <2>2, ParkStep DEF Wait
  <2>3. ASSUME NEW p \in Promises, WaitDefault(c, p)
        PROVE  IInv'
    BY <2>2, <2>3 DEF WaitDefault, IInv, TypeOK
  <2>4. CASE Finish(c)
    BY <2>4, FinishStep
  <2> QED
    BY <1>2, <2>1, <2>2, <2>3, <2>4 DEF Leave
<1>3. CASE Loop
  BY <1>3, TurnStep, ResumeStep DEF Loop
<1>4. CASE \E k \in Keys : Collect(k)
  BY <1>4, ScriptStep
<1>5. CASE UNCHANGED vars
  BY <1>5, ThreadsAlone, PromisesAlone
  DEF vars, threadVars, promiseVars, historyVars, IInv, AwaitInv, TypeOK
<1> QED
  BY <1>1, <1>2, <1>3, <1>4, <1>5 DEF Next

\* The invariant holds whatever scripts do and however long passes take.
THEOREM Invariance == Spec => []IInv
<1> QED
  BY InitIInv, NextIInv, PTL DEF Spec

-----------------------------------------------------------------------------
(* What follows from it.                                                   *)

\* The two assertions of process_yielded_functions hold (application.cpp:510):
\* between resumes the table holds exactly the suspended coroutines.
THEOREM TableHoldsSuspended == Spec => []OnlySuspendedParked
<1>1. IInv => OnlySuspendedParked
  <2> SUFFICES ASSUME IInv, running = Main, NEW c \in Coroutines
               PROVE  table[c] # None <=> status[c] = "suspended"
    BY DEF OnlySuspendedParked
  <2>1. stack = <<>>
    BY DEF running, IInv, TypeOK, Main
  <2>2. status[c] # "active"
    BY <2>1 DEF IInv, ThreadInv
  <2> QED
    BY <2>2 DEF IInv, ThreadInv
<1> QED
  BY <1>1, Invariance, PTL

\* The first answer to a promise stands until it is reset, unless the promise is
\* still under a key of the list (mark_as_fulfilled, _lua_fulfill, fulfill_promise).
THEOREM FirstAnswerStands == Spec => AnswerStands
<1>1. IInv /\ [Next]_vars =>
        [\A p \in Promises : Answered(p)' =>
           IF Answered(p) THEN value'[p] = value[p] \/ \E k \in Keys : list[k] = p
                          ELSE value'[p] = answer'[p]]_vars
  <2> SUFFICES ASSUME IInv, Next, NEW p \in Promises, Answered(p)'
               PROVE  IF Answered(p)
                        THEN value'[p] = value[p] \/ \E k \in Keys : list[k] = p
                        ELSE value'[p] = answer'[p]
    OBVIOUS
  <2> USE DEF IInv, TypeOK, Answered
  <2>1. ASSUME NEW q \in Promises, NEW v \in Values, Fulfill(q, v)
        PROVE  IF Answered(p) THEN value'[p] = value[p] ELSE value'[p] = answer'[p]
    BY <2>1 DEF Fulfill, Mark
  <2>2. ASSUME NEW k \in Keys, NEW v \in Values, FulfillKey(k, v)
        PROVE  IF Answered(p) THEN value'[p] = value[p] \/ list[k] = p
                              ELSE value'[p] = answer'[p]
    BY <2>2 DEF FulfillKey, Mark
  <2>3. ASSUME NEW v \in Values, FulfillAll(v)
        PROVE  IF Answered(p)
                 THEN value'[p] = value[p] \/ \E k \in Keys : list[k] = p
                 ELSE value'[p] = answer'[p]
    BY <2>3 DEF FulfillAll, Mark
  <2>4. ASSUME NEW c \in Coroutines, Resume(c)
        PROVE  value' = value /\ Answered(p)
    BY <2>4 DEF Resume, Checked
  <2>5. ASSUME NEW q \in Promises, NEW t \in Timeouts \cup {DefaultTimeout}, Await(q, t)
        PROVE  value' = value /\ Answered(p)
    BY <2>5 DEF Await
  <2>6. ASSUME NEW q \in Promises, Reset(q)
        PROVE  value' = value /\ Answered(p)
    BY <2>6 DEF Reset
  <2>7. ASSUME NEW c \in Coroutines, Leave(c)
        PROVE  value' = value /\ Answered(p)
    BY <2>5, <2>7 DEF Leave, Yield, Wait, WaitDefault, Finish, promiseVars
  <2> QED
    BY <2>1, <2>2, <2>3, <2>4, <2>5, <2>6, <2>7
    DEF Next, Script, Loop, NewSingle, NewListed, Put, WaitOutside, Call, StartPass,
        EndPass, EndTick, Skip, Collect, promiseVars
<1> QED
  BY <1>1, Invariance, PTL DEF Spec, AnswerStands

\* A waiter is resumed with an answer if there is one, and otherwise when the
\* timeout is over, whatever other waiters did to the promise (check_wakeup).
THEOREM WakesAreTrue == Spec => WakeTruth
<1>1. IInv /\ [Next]_vars =>
        [\A c \in Coroutines, p \in Promises :
           table[c] = p /\ running = Main /\ running' = c =>
             IF answer[p] # None THEN woke'[c] = "answer" /\ value[p] # None
                                 ELSE woke'[c] = "timeout" /\ age[p] >= timeout[p]
        ]_vars
  <2> SUFFICES ASSUME IInv, Next, NEW c \in Coroutines, NEW p \in Promises,
                      table[c] = p, running = Main, running' = c
               PROVE  IF answer[p] # None
                        THEN woke'[c] = "answer" /\ value[p] # None
                        ELSE woke'[c] = "timeout" /\ age[p] >= timeout[p]
    OBVIOUS
  <2>1. stack = <<>> /\ table[c] # None /\ c # Main
    BY DEF running, IInv, TypeOK, Main
  <2>2. stack' # stack
    BY <2>1 DEF running
  <2>3. \A d \in Coroutines : ~Leave(d)
    BY DEF Leave, Yield, Wait, WaitDefault, Park, Finish, Main
  <2>4. \A d \in Coroutines : Call(d) => d = c
    BY <2>1 DEF Call, running, IInv, TypeOK
  <2>5. ~Call(c)
    BY <2>1 DEF Call, IInv, ThreadInv
  <2>6. PICK d \in Coroutines : Resume(d)
    BY <2>2, <2>3, <2>4, <2>5 DEF Next, Script, Loop, NewSingle, NewListed, Put,
       Fulfill, FulfillKey, FulfillAll, Reset, WaitOutside, Collect, StartPass, EndPass,
       EndTick, Skip, threadVars
  <2>7. d = c
    BY <2>6 DEF Resume, running
  <2> QED
    BY <2>6, <2>7 DEF Resume, IInv, TypeOK, PromiseInv, Answered, Due, WakesUp, Checked
<1> QED
  BY <1>1, Invariance, PTL DEF Spec, WakeTruth

\* A promise that a coroutine waits for is never lost: it stays under its key
\* until it is answered, and nothing but the script's own assignment to that key
\* takes it away (new_promise, newindex, fulfill_promise, fulfill_all_promises).
THEOREM AwaitedStay == Spec => AwaitedStaysListed
<1>1. IInv /\ [Next]_vars =>
        [\A k \in Keys, c \in Coroutines :
           list[k] # None /\ waits[c] = list[k] /\ list'[k] # list[k] =>
             \/ list'[k] = None /\ answer'[list[k]] # None
             \/ Put(k, list'[k])]_vars
  <2> SUFFICES ASSUME IInv, Next, NEW k \in Keys, NEW c \in Coroutines,
                      list[k] # None, waits[c] = list[k], list'[k] # list[k]
               PROVE  \/ list'[k] = None /\ answer'[list[k]] # None
                      \/ Put(k, list'[k])
    OBVIOUS
  <2>1. table[c] = list[k]
    BY DEF IInv, ThreadInv
  <2>2. /\ \A p \in Promises, j \in Keys, t \in Defaults : ~NewListed(p, j, t)
        /\ \A j \in Keys : ~Collect(j)
    BY <2>1 DEF NewListed, Collect, IInv, TypeOK
  <2>3. CASE \E j \in Keys, v \in Values : FulfillKey(j, v)
    BY <2>3 DEF FulfillKey, Mark, IInv, TypeOK, PromiseInv, Answered
  <2>4. CASE \E v \in Values : FulfillAll(v)
    BY <2>4 DEF FulfillAll, Mark, IInv, TypeOK, PromiseInv, Answered
  <2>5. ASSUME NEW p \in Promises \cup {None}, NEW j \in Keys, Put(j, p)
        PROVE  Put(k, list'[k])
    <3>1. j = k /\ list'[k] = p
      BY <2>5 DEF Put, IInv, TypeOK
    <3> QED
      BY <2>5, <3>1
  <2> QED
    BY <2>2, <2>3, <2>4, <2>5 DEF Next, Script, Loop, Leave, NewSingle, Fulfill, Reset,
       WaitOutside, Await, Call, Yield, Wait, WaitDefault, Finish, StartPass, EndPass,
       EndTick, Skip, Resume, promiseVars
<1> QED
  BY <1>1, Invariance, PTL DEF Spec, AwaitedStaysListed
=============================================================================
