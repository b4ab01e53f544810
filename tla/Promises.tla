------------------------------ MODULE Promises ------------------------------
(***************************************************************************)
(* Promises and the coroutines that wait for them: DeckPromise             *)
(* (deck_promise.cpp), DeckPromiseList (deck_promise_list.cpp), the table  *)
(* of yielded calls filled by LuaHelpers::yieldable_call (lua_helpers.cpp) *)
(* and drained once per tick by Application::process_yielded_functions     *)
(* (application.cpp).                                                      *)
(*                                                                         *)
(* Everything runs on one thread.  An event handler runs as a coroutine;   *)
(* when it waits for a promise, the coroutine is parked in the table and   *)
(* its caller goes on.  The clock is kept per promise, as the ticks since  *)
(* it was made: that is all that check_wakeup compares with the timeout.   *)
(*                                                                         *)
(* Parking a new coroutine from within the pass over the table inserts a   *)
(* key into a table that lua_next is traversing, whose order is undefined  *)
(* from there on: the pass may then skip or repeat any entry.              *)
(***************************************************************************)
EXTENDS Integers, FiniteSets, Sequences

CONSTANTS
  Coroutines,    \* threads; each is started once (bound)
  Promises,      \* DeckPromise instances; each is made once (bound)
  Keys,          \* keys of the PromiseList
  Values,        \* what a promise may be fulfilled with
  Timeouts,      \* timeouts given to wait and to Promise(), in ticks
  DefaultTimeout,\* what DeckPromiseList::m_default_timeout begins with, in ticks
  MaxResets,     \* bound on the calls of DeckPromise::reset
  None           \* nil: no value, no entry

Main == "main"   \* the run loop itself
True == "true"   \* the sentinel of a coroutine that waits for no promise

ASSUME NamesAssumption ==
  /\ None \notin Coroutines \cup Promises \cup Values
  /\ Main \notin Coroutines /\ True \notin Promises /\ True # None
ASSUME TimeAssumption ==
  Timeouts \subseteq Nat /\ DefaultTimeout \in Nat /\ MaxResets \in Nat

VARIABLES
  phase,      \* of the run loop: the table is drained in "pass"
  todo,       \* the entries that the pass still has to visit
  stack,      \* the coroutines that were resumed and have not left, innermost last
  status,     \* lua_status and whether it was started
  table,      \* the table of yielded calls: thread -> promise or True
  kind,       \* "unborn", "single" (Promise()), "listed" (PromiseList:new())
  fulfilled,  \* m_time_fulfilled: "not", "yes", "timedout" or, a time, "seen"
  age,        \* clock - m_time_promised, capped at the longest timeout
  timeout,    \* m_timeout
  value,      \* the field "value" of the instance table
  list,       \* instance table of the PromiseList: key -> promise
  resets,     \* calls of reset so far
  answer,     \* history: the value that fulfilled the promise in this round
  woke,       \* history: why the pass last resumed a coroutine
  waits       \* history: what a suspended coroutine waits for

threadVars  == <<phase, todo, stack, status, table>>
promiseVars == <<kind, fulfilled, age, timeout, value, list, resets, answer>>
historyVars == <<woke, waits>>
vars == <<threadVars, promiseVars, historyVars>>

LongestTimeout == CHOOSE m \in Timeouts \cup {DefaultTimeout} :
                    \A t \in Timeouts \cup {DefaultTimeout} : t <= m

TypeOK ==
  /\ phase     \in {"inputs", "pass", "outputs"}
  /\ todo      \in SUBSET Coroutines
  /\ stack     \in Seq(Coroutines)
  /\ status    \in [Coroutines -> {"unborn", "active", "suspended", "dead"}]
  /\ table     \in [Coroutines -> Promises \cup {True, None}]
  /\ kind      \in [Promises -> {"unborn", "single", "listed"}]
  /\ fulfilled \in [Promises -> {"not", "yes", "timedout", "seen"}]
  /\ age       \in [Promises -> Nat]
  /\ timeout   \in [Promises -> Timeouts \cup {DefaultTimeout}]
  /\ value     \in [Promises -> Values \cup {None}]
  /\ list      \in [Keys -> Promises \cup {None}]
  /\ resets    \in 0..MaxResets
  /\ answer    \in [Promises -> Values \cup {None}]
  /\ woke      \in [Coroutines -> {"no", "answer", "timeout"}]
  /\ waits     \in [Coroutines -> Promises \cup {True, None}]

Init ==
  /\ phase     = "inputs"
  /\ todo      = {}
  /\ stack     = <<>>
  /\ status    = [c \in Coroutines |-> "unborn"]
  /\ table     = [c \in Coroutines |-> None]
  /\ kind      = [p \in Promises |-> "unborn"]
  /\ fulfilled = [p \in Promises |-> "not"]
  /\ age       = [p \in Promises |-> 0]
  /\ timeout   = [p \in Promises |-> DefaultTimeout]
  /\ value     = [p \in Promises |-> None]
  /\ list      = [k \in Keys |-> None]
  /\ resets    = 0
  /\ answer    = [p \in Promises |-> None]
  /\ woke      = [c \in Coroutines |-> "no"]
  /\ waits     = [c \in Coroutines |-> None]

Parked == {c \in Coroutines : table[c] # None}

\* The coroutine that executes, Main if none does; it leaves for its caller.
running == IF stack = <<>> THEN Main ELSE stack[Len(stack)]
Callers == SubSeq(stack, 1, Len(stack) - 1)

\* Lua or C++ code of the application executes; Main itself does so outside
\* the pass only.
Executing == running # Main \/ phase # "pass"

\* m_default_timeout: the script may set it to any number above zero at any
\* time (newindex), so it is chosen where it is read.
Defaults == {t \in Timeouts : t > 0} \cup {DefaultTimeout}

Answered(p) == fulfilled[p] \in {"yes", "seen"}
Due(p)      == age[p] >= timeout[p]

-----------------------------------------------------------------------------
(* Promises.                                                               *)

\* deck:Promise(timeout)
NewSingle(p, t) ==
  /\ Executing
  /\ kind[p] = "unborn"
  /\ kind'    = [kind EXCEPT ![p] = "single"]
  /\ timeout' = [timeout EXCEPT ![p] = t]
  /\ UNCHANGED <<threadVars, fulfilled, age, value, list, resets, answer, historyVars>>

\* Mutant of NewListed: the negative timeout that stands for the default is
\* passed on.
NewListedNegative(p, k, t) ==
  /\ Executing
  /\ kind[p] = "unborn" /\ list[k] = None
  /\ kind'    = [kind EXCEPT ![p] = "listed"]
  /\ timeout' = [timeout EXCEPT ![p] = -1]
  /\ list'    = [list EXCEPT ![k] = p]
  /\ UNCHANGED <<threadVars, fulfilled, age, value, resets, answer, historyVars>>

\* PromiseList:new(key); a key that is in use is an error.  The timeout that
\* the Lua function accepts is not passed on.
NewListed(p, k, t) ==
  /\ Executing
  /\ kind[p] = "unborn" /\ list[k] = None
  /\ kind'    = [kind EXCEPT ![p] = "listed"]
  /\ timeout' = [timeout EXCEPT ![p] = t]
  /\ list'    = [list EXCEPT ![k] = p]
  /\ UNCHANGED <<threadVars, fulfilled, age, value, resets, answer, historyVars>>

\* list[key] = promise, or nil (DeckPromiseList::newindex): what was under the
\* key is replaced, whether or not somebody waits for it.
Put(k, p) ==
  /\ Executing
  /\ p # None => kind[p] # "unborn"
  /\ list' = [list EXCEPT ![k] = p]
  /\ UNCHANGED <<threadVars, kind, fulfilled, age, timeout, value, resets, answer,
                 historyVars>>

\* DeckPromise::mark_as_fulfilled for the promises in P that are not yet: a
\* late answer still counts.
Mark(P, v) ==
  LET fresh == {p \in P : ~Answered(p)}
  IN  /\ fulfilled' = [p \in Promises |-> IF p \in fresh THEN "yes"
                                                         ELSE fulfilled[p]]
      /\ answer'    = [p \in Promises |-> IF p \in fresh THEN v ELSE answer[p]]

\* Mutant of Fulfill: a second answer replaces the value.
FulfillAgain(p, v) ==
  /\ Executing
  /\ kind[p] # "unborn"
  /\ Mark({p}, v)
  /\ value' = [value EXCEPT ![p] = v]
  /\ UNCHANGED <<threadVars, kind, age, timeout, list, resets, historyVars>>

\* promise:fulfill(value): the first answer stands.
Fulfill(p, v) ==
  /\ Executing
  /\ kind[p] # "unborn"
  /\ Mark({p}, v)
  /\ value' = IF Answered(p) THEN value ELSE [value EXCEPT ![p] = v]
  /\ UNCHANGED <<threadVars, kind, age, timeout, list, resets, historyVars>>

\* PromiseList:fulfill(key, value): the promise leaves the list and takes the
\* value, also when it had one.
FulfillKey(k, v) ==
  /\ Executing
  /\ list[k] # None
  /\ Mark({list[k]}, v)
  /\ value' = [value EXCEPT ![list[k]] = v]
  /\ list'  = [list EXCEPT ![k] = None]
  /\ UNCHANGED <<threadVars, kind, age, timeout, resets, historyVars>>

\* DeckPromiseList::fulfill_all_promises, as the HTTP connector calls it
FulfillAll(v) ==
  LET P == {list[k] : k \in Keys} \ {None}
  IN  /\ Executing
      /\ P # {}
      /\ Mark(P, v)
      /\ value' = [p \in Promises |-> IF p \in P THEN v ELSE value[p]]
      /\ list'  = [k \in Keys |-> None]
      /\ UNCHANGED <<threadVars, kind, age, timeout, resets, historyVars>>

\* promise:reset(): a new round begins; the old value stays where it was.
Reset(p) ==
  /\ Executing
  /\ kind[p] # "unborn"
  /\ resets < MaxResets
  /\ resets'    = resets + 1
  /\ fulfilled' = [fulfilled EXCEPT ![p] = "not"]
  /\ age'       = [age EXCEPT ![p] = 0]
  /\ answer'    = [answer EXCEPT ![p] = None]
  /\ UNCHANGED <<threadVars, kind, timeout, value, list, historyVars>>

-----------------------------------------------------------------------------
(* Coroutines.                                                             *)

\* LuaHelpers::yieldable_call: a handler starts, its caller waits for it to
\* return or to yield.
Call(c) ==
  /\ Executing
  /\ status[c] = "unborn"
  /\ status'  = [status EXCEPT ![c] = "active"]
  /\ stack'   = Append(stack, c)
  /\ UNCHANGED <<phase, todo, table, promiseVars, historyVars>>

\* Mutant of Park: an entry that is there already stays as it was.
ParkOnce(c, e) ==
  /\ running = c
  /\ status'  = [status EXCEPT ![c] = "suspended"]
  /\ table'   = IF table[c] = None THEN [table EXCEPT ![c] = e] ELSE table
  /\ stack'   = Callers
  /\ IF phase = "pass" /\ table[c] = None
       THEN todo' \in SUBSET (Parked \cup {c})
       ELSE UNCHANGED todo
  /\ woke'  = [woke EXCEPT ![c] = "no"]
  /\ waits' = [waits EXCEPT ![c] = e]
  /\ UNCHANGED phase

\* lua_yield of coroutine c with promise or sentinel e: c is parked and its
\* caller goes on.  A new key in the middle of a pass upsets the traversal.
Park(c, e) ==
  /\ running = c
  /\ status'  = [status EXCEPT ![c] = "suspended"]
  /\ table'   = [table EXCEPT ![c] = e]
  /\ stack'   = Callers
  /\ IF phase = "pass" /\ table[c] = None
       THEN todo' \in SUBSET (Parked \cup {c})
       ELSE UNCHANGED todo
  /\ woke'  = [woke EXCEPT ![c] = "no"]
  /\ waits' = [waits EXCEPT ![c] = e]
  /\ UNCHANGED phase

\* coroutine.yield()
Yield(c) ==
  /\ Park(c, True)
  /\ UNCHANGED promiseVars

\* promise:wait(t) on a promise without an answer, up to lua_yield.  The timeout
\* belongs to the promise, so it changes for all who wait.
Await(p, t) ==
  /\ kind[p] # "unborn"
  /\ ~Answered(p)
  /\ fulfilled' = [fulfilled EXCEPT ![p] = "not"]
  /\ timeout'   = [timeout EXCEPT ![p] = t]
  /\ UNCHANGED <<kind, age, value, list, resets, answer>>

Wait(c, p, t) == Await(p, t) /\ Park(c, p)

\* promise:wait() without an argument keeps the timeout.
WaitDefault(c, p) == Wait(c, p, timeout[p])

\* Outside a coroutine, or below a call that cannot be suspended, lua_yield
\* fails, when the promise has been changed.
WaitOutside(p, t) ==
  /\ Executing
  /\ Await(p, t)
  /\ UNCHANGED <<threadVars, historyVars>>

\* Mutant of Finish: the entry stays.
FinishParked(c) ==
  /\ running = c
  /\ status'  = [status EXCEPT ![c] = "dead"]
  /\ stack'   = Callers
  /\ UNCHANGED <<phase, todo, table, promiseVars, historyVars>>

\* The coroutine returns, or fails with a logged error.
Finish(c) ==
  /\ running = c
  /\ status'  = [status EXCEPT ![c] = "dead"]
  /\ table'   = [table EXCEPT ![c] = None]
  /\ todo'    = todo \ {c}
  /\ stack'   = Callers
  /\ UNCHANGED <<phase, promiseVars, historyVars>>

-----------------------------------------------------------------------------
(* The run loop.                                                           *)

StartPass ==
  /\ phase = "inputs" /\ running = Main
  /\ phase' = "pass"
  /\ todo'  = Parked
  /\ UNCHANGED <<stack, status, table, promiseVars, historyVars>>

\* Mutants of WakesUp and Checked: only the promise's own time-out wakes the
\* waiters that come after; the clock is looked at before the answer.
WakesUpOnce(p) == (fulfilled[p] = "yes") \/ (fulfilled[p] = "not" /\ Due(p))
CheckedLate(p) == IF Due(p) THEN "timedout"
                  ELSE IF fulfilled[p] = "yes" THEN "seen" ELSE fulfilled[p]

\* DeckPromise::check_wakeup: what becomes of the promise, and whether a
\* coroutine that waits for it is resumed.
WakesUp(p) == fulfilled[p] # "not" \/ Due(p)
Checked(p) ==
  CASE fulfilled[p] = "not" /\ Due(p) -> "timedout"
    [] fulfilled[p] = "yes"           -> "seen"
    [] OTHER                          -> fulfilled[p]

\* The pass comes to entry c and leaves it, its promise being open.
Skip(c) ==
  /\ phase = "pass" /\ running = Main
  /\ c \in todo
  /\ table[c] \in Promises /\ ~WakesUp(table[c])
  /\ todo' = todo \ {c}
  /\ UNCHANGED <<phase, stack, status, table, promiseVars, historyVars>>

\* The pass comes to entry c and resumes it.  The entry stays in the table
\* until the coroutine yields again or ends.
Resume(c) ==
  /\ phase = "pass" /\ running = Main
  /\ c \in todo
  /\ \/ /\ table[c] = True
        /\ UNCHANGED <<fulfilled, woke>>
     \/ /\ table[c] \in Promises /\ WakesUp(table[c])
        /\ fulfilled' = [fulfilled EXCEPT ![table[c]] = Checked(table[c])]
        /\ woke' = [woke EXCEPT ![c] = IF fulfilled'[table[c]] = "seen"
                                         THEN "answer" ELSE "timeout"]
  /\ waits'   = [waits EXCEPT ![c] = None]
  /\ todo'    = todo \ {c}
  /\ status'  = [status EXCEPT ![c] = "active"]
  /\ stack'   = <<c>>
  /\ UNCHANGED <<phase, table, kind, age, timeout, value, list, resets, answer>>

\* The pass is over; the script's tick and the output ticks follow.
EndPass ==
  /\ phase = "pass" /\ running = Main /\ todo = {}
  /\ phase' = "outputs"
  /\ UNCHANGED <<todo, stack, status, table, promiseVars, historyVars>>

\* The loop sleeps and sets the clock of the next tick.
EndTick ==
  /\ phase = "outputs" /\ running = Main
  /\ phase' = "inputs"
  /\ age' = [p \in Promises |-> IF kind[p] = "unborn" \/ age[p] = LongestTimeout
                                  THEN age[p] ELSE age[p] + 1]
  /\ UNCHANGED <<todo, stack, status, table, kind, fulfilled, timeout, value,
                 list, resets, answer, historyVars>>

\* The PromiseList holds its promises weakly: one that nobody waits for and no
\* script variable refers to may go, at any allocation or at the end of a tick.
Collect(k) ==
  /\ list[k] # None
  /\ \A c \in Coroutines : table[c] # list[k]
  /\ list' = [list EXCEPT ![k] = None]
  /\ UNCHANGED <<threadVars, kind, fulfilled, age, timeout, value, resets,
                 answer, historyVars>>

Script ==
  \/ \E p \in Promises, t \in Timeouts : NewSingle(p, t)
  \/ \E p \in Promises, k \in Keys, t \in Defaults : NewListed(p, k, t)
  \/ \E p \in Promises \cup {None}, k \in Keys : Put(k, p)
  \/ \E p \in Promises, v \in Values : Fulfill(p, v)
  \/ \E k \in Keys, v \in Values : FulfillKey(k, v)
  \/ \E v \in Values : FulfillAll(v)
  \/ \E p \in Promises : Reset(p)
  \/ \E p \in Promises, t \in Timeouts : WaitOutside(p, t)
  \/ \E c \in Coroutines : Call(c)

\* What takes coroutine c off the processor
Leave(c) ==
  \/ Yield(c)
  \/ \E p \in Promises : WaitDefault(c, p) \/ \E t \in Timeouts : Wait(c, p, t)
  \/ Finish(c)

Loop == \/ StartPass \/ EndPass \/ EndTick
        \/ \E c \in Coroutines : Skip(c) \/ Resume(c)

Next ==
  \/ Script \/ Loop
  \/ \E c \in Coroutines : Leave(c)
  \/ \E k \in Keys : Collect(k)

\* The run loop goes round, and a handler that was called yields or returns
\* some day; if it does not, the whole program stands still.
Fairness == WF_vars(Loop) /\ \A c \in Coroutines : WF_vars(Leave(c))

Spec == Init /\ [][Next]_vars /\ Fairness

-----------------------------------------------------------------------------
(* Properties.                                                             *)

\* process_yielded_functions asserts that every entry it meets is a suspended
\* thread (application.cpp:510-511): nothing that ended, or runs, is left in
\* the table when the pass goes on.
OnlySuspendedParked ==
  running = Main => \A c \in Coroutines : table[c] # None <=> status[c] = "suspended"

\* The first answer to a promise is its value, and it stands until the promise is
\* reset: only a promise that is still under a key of the list when it is answered
\* there once more gets another value (mark_as_fulfilled, _lua_fulfill,
\* fulfill_promise, fulfill_all_promises).
AnswerStands ==
  [][\A p \in Promises : Answered(p)' =>
       IF Answered(p) THEN value'[p] = value[p] \/ \E k \in Keys : list[k] = p
                      ELSE value'[p] = answer'[p]]_vars

\* Nobody is told of a time-out when the answer is there, and nobody is woken
\* with neither: a waiter comes back with an answer of this round or after
\* its promise's timeout.
WakeTruth ==
  [][\A c \in Coroutines, p \in Promises :
       table[c] = p /\ running = Main /\ running' = c =>
         IF answer[p] # None THEN woke'[c] = "answer" /\ value[p] # None
                             ELSE woke'[c] = "timeout" /\ age[p] >= timeout[p]
    ]_vars

\* A promise that a suspended coroutine waits for stays under its key until it
\* is answered, in every step of scripts, handlers, loop and collector: only the
\* script itself may put another one, or nil, in its place.
AwaitedStaysListed ==
  [][\A k \in Keys, c \in Coroutines :
       list[k] # None /\ waits[c] = list[k] /\ list'[k] # list[k] =>
         \/ list'[k] = None /\ answer'[list[k]] # None
         \/ Put(k, list'[k])]_vars

\* Nobody waits for ever, given that resets end: each parked coroutine is
\* resumed, by the answer or by the timeout, even if passes go astray as long
\* as handlers park new coroutines during them.
Wakes(c) == status[c] = "suspended" ~> status[c] # "suspended"
EveryWaiterWakes == \A c \in Coroutines : Wakes(c)
=============================================================================
