---------------------------- MODULE Application -----------------------------
(***************************************************************************)
(* Application::run with DeckModule and DeckConnectorContainer: the        *)
(* deckfile is loaded and, on request, loaded again; in every turn of the  *)
(* loop each connector in the container gets tick_inputs and, after the    *)
(* script's own tick, tick_outputs; at the end each gets shutdown.         *)
(*                                                                         *)
(* The container refers to its connectors weakly: one that no script holds *)
(* is collected.  The script may act while it runs, and in the handlers of *)
(* every connector that was called.  The deckfile is what running it comes *)
(* to, with a stamp for its time and size; every edit gives it a new one.  *)
(***************************************************************************)
EXTENDS Naturals

CONSTANTS
  Names,      \* the names of connectors
  Kinds,      \* what deckfiles come to, see Files
  MaxStamp,   \* bound on the edits of the deckfile
  MaxMade,    \* bound on the connectors made under one name
  EarlyEdits  \* the deckfile may be edited while the program starts

ASSUME BoundsAssumption ==
  /\ MaxStamp \in Nat /\ MaxMade \in Nat
  /\ "table" \in Kinds /\ Kinds \subseteq {"table", "nil", "raises", "syntax", "missing"}
  /\ EarlyEdits \in BOOLEAN

VARIABLES
  pc,        \* what comes next, see TypeOK
  file,      \* the deckfile
  known,     \* m_deckfile_mtime and m_deckfile_size
  stat,      \* reload_deckfile's deckfile_mtime and deckfile_size
  loaded,    \* the script that was loaded last
  env,       \* ACTIVE_SCRIPT_ENV
  container, \* the connectors in the container, by name
  made,      \* how many connectors were made under a name
  kept,      \* the names of those the active script holds
  fresh,     \* the names of those the script that is running holds
  todo,      \* for_each: the entries that lua_next has still to find
  exit,      \* m_exit_requested
  reload,    \* m_reload_requested
  due,       \* history: for_each: what was in the container when it began
  visits,    \* history: for_each: the calls so far, up to 2
  clean,     \* history: for_each: no connector was added so far
  before     \* history: made and kept when the reload under way began

fileVars  == <<file, known, stat, loaded, env>>
heldVars  == <<container, made, kept, fresh>>
eachVars  == <<todo, due, visits, clean>>
flagVars  == <<exit, reload>>
vars == <<pc, fileVars, heldVars, eachVars, flagVars, before>>

\* "table" is a script that returns a table, "nil" one that returns what has no
\* fields; "raises" one that fails, "syntax" one that is none, "missing" no file
Files == [kind : Kinds \cup {"none"}, stamp : 0..MaxStamp]
Ends       == {"ended", "panic"}
Traversals == {"inputs", "outputs", "shutdown"}
Counts == [Names -> 0..MaxMade]

TypeOK ==
  /\ pc \in Traversals \cup Ends \cup {"init", "initstat", "starting", "top", "reload", "load", "reloading",
                             "reloaded", "begin", "tick", "collect", "sleep"}
  /\ file \in Files
  /\ loaded \in {f \in Files : f.kind \notin {"syntax", "missing"}}
  /\ env \in {f \in Files : f.kind \in {"none", "table", "nil"}}
  /\ {known, stat} \subseteq 0..MaxStamp
  /\ container \subseteq Names /\ kept \subseteq Names /\ fresh \subseteq Names
  /\ made \in Counts
  /\ todo \subseteq Names /\ due \subseteq Names
  /\ visits \in [Names -> 0..2]
  /\ exit \in BOOLEAN /\ reload \in BOOLEAN /\ clean \in BOOLEAN
  /\ before \in [made : Counts, kept : SUBSET Names]

NoFile  == [kind |-> "none", stamp |-> 0]
Nothing == [made |-> [n \in Names |-> 0], kept |-> {}]

Init ==
  /\ pc = "init"
  /\ file \in [kind : Kinds, stamp : {0}]
  /\ known = 0 /\ stat = 0 /\ loaded = NoFile /\ env = NoFile
  /\ container = {} /\ made = [n \in Names |-> 0] /\ kept = {} /\ fresh = {}
  /\ todo = {} /\ due = {} /\ visits = [n \in Names |-> 0] /\ clean = TRUE
  /\ exit = FALSE /\ reload = FALSE
  /\ before = Nothing

-----------------------------------------------------------------------------
(* The script, and the user who edits it.                                  *)

Edit ==
  /\ pc \notin Ends
  /\ pc \in {"init", "initstat"} => EarlyEdits
  /\ file.stamp < MaxStamp
  /\ \E kind \in Kinds : file' = [kind |-> kind, stamp |-> file.stamp + 1]
  /\ UNCHANGED <<pc, known, stat, loaded, env, heldVars, eachVars, flagVars, before>>

Called  == pc \in Traversals /\ \E n \in Names : visits[n] > 0
Running == pc \in {"starting", "reloading"}
Acting  == Called \/ Running \/ pc \in {"reloaded", "tick"}

\* The script that runs or acts has got hold of a connector.
Hold(n) ==
  IF Running THEN fresh' = fresh \cup {n} /\ UNCHANGED kept
             ELSE kept' = kept \cup {n} /\ UNCHANGED fresh

\* deck:Connector makes a connector and puts it in the container.  If for_each
\* is under way then what lua_next finds after that is undefined.
Make(n) ==
  /\ Acting
  /\ n \notin container /\ made[n] < MaxMade
  /\ container' = container \cup {n}
  /\ made' = [made EXCEPT ![n] = @ + 1]
  /\ Hold(n)
  /\ IF Called THEN todo' \in SUBSET container' /\ clean' = FALSE
               ELSE UNCHANGED <<todo, clean>>
  /\ UNCHANGED <<pc, fileVars, due, visits, flagVars, before>>

\* deck:Connector finds it there.
Find(n) ==
  /\ Acting /\ n \in container
  /\ Hold(n)
  /\ UNCHANGED <<pc, fileVars, container, made, eachVars, flagVars, before>>

Forget(n) ==
  /\ Acting /\ ~Running /\ n \in kept
  /\ kept' = kept \ {n}
  /\ UNCHANGED <<pc, fileVars, container, made, fresh, eachVars, flagVars, before>>

RequestExit ==
  /\ Acting /\ ~exit
  /\ exit' = TRUE
  /\ UNCHANGED <<pc, fileVars, heldVars, eachVars, reload, before>>

RequestReload ==
  /\ Acting /\ ~reload
  /\ reload' = TRUE
  /\ UNCHANGED <<pc, fileVars, heldVars, eachVars, exit, before>>

\* What nobody holds may be collected whenever something is allocated.
Collected == container \ (kept \cup fresh)

Collect ==
  /\ Acting
  /\ \E gone \in SUBSET Collected \ {{}} :
       container' = container \ gone /\ todo' = todo \ gone
  /\ UNCHANGED <<pc, fileVars, made, kept, fresh, due, visits, clean, flagVars, before>>

-----------------------------------------------------------------------------
(* Application::init.                                                      *)

LoadFails == file.kind \in {"syntax", "missing"}

Load ==
  /\ pc = "init"
  /\ IF LoadFails
       THEN pc' = "ended" /\ UNCHANGED loaded
       ELSE pc' = "initstat" /\ loaded' = file
  /\ UNCHANGED <<file, known, stat, env, heldVars, eachVars, flagVars, before>>

Stat ==
  /\ pc = "initstat"
  /\ known' = file.stamp
  /\ pc' = "starting"
  /\ UNCHANGED <<file, stat, loaded, env, heldVars, eachVars, flagVars, before>>

StartFails ==
  /\ pc = "starting" /\ loaded.kind = "raises"
  /\ fresh' = {}
  /\ pc' = "ended"
  /\ UNCHANGED <<fileVars, container, made, kept, eachVars, flagVars, before>>

\* A script that returned no table gets one that holds all connectors.
Started ==
  /\ pc = "starting" /\ loaded.kind # "raises"
  /\ env' = [loaded EXCEPT !.kind = "table"]
  /\ kept' = IF loaded.kind = "table" THEN fresh ELSE container
  /\ fresh' = {}
  /\ pc' = "top"
  /\ UNCHANGED <<file, known, stat, loaded, container, made, eachVars, flagVars, before>>

-----------------------------------------------------------------------------
(* Application::run and reload_deckfile.                                   *)

\* The next turn of the loop, which reloads first if that was requested.
Turn ==
  /\ pc = "top" /\ ~exit
  /\ pc' = IF reload THEN "reload" ELSE "begin"
  /\ reload' = FALSE
  /\ UNCHANGED <<fileVars, heldVars, eachVars, exit, before>>

\* The file is as it was, or is not there.
NothingNew ==
  /\ pc = "reload"
  /\ file.kind = "missing" \/ file.stamp = known
  /\ pc' = "begin"
  /\ UNCHANGED <<fileVars, heldVars, eachVars, flagVars, before>>

\* Mutant of SomethingNew: the script that is to be replaced is let go at once.
SomethingNewAlone ==
  /\ pc = "reload"
  /\ file.kind # "missing" /\ file.stamp # known
  /\ stat' = file.stamp
  /\ before' = [made |-> made, kept |-> kept]
  /\ kept' = {}
  /\ pc' = "load"
  /\ UNCHANGED <<file, known, loaded, env, container, made, fresh, eachVars, flagVars>>

SomethingNew ==
  /\ pc = "reload"
  /\ file.kind # "missing" /\ file.stamp # known
  /\ stat' = file.stamp
  /\ before' = [made |-> made, kept |-> kept]
  /\ pc' = "load"
  /\ UNCHANGED <<file, known, loaded, env, heldVars, eachVars, flagVars>>

LoadAgain ==
  /\ pc = "load"
  /\ IF LoadFails
       THEN pc' = "begin" /\ UNCHANGED loaded
       ELSE pc' = "reloading" /\ loaded' = file
  /\ UNCHANGED <<file, known, stat, env, heldVars, eachVars, flagVars, before>>

ReloadFails ==
  /\ pc = "reloading" /\ loaded.kind = "raises"
  /\ fresh' = {}
  /\ pc' = "begin"
  /\ UNCHANGED <<fileVars, container, made, kept, eachVars, flagVars, before>>

\* Mutant of Reloaded: time and size are those of the file as it is now.
ReloadedNow ==
  /\ pc = "reloading" /\ loaded.kind # "raises"
  /\ known' = file.stamp
  /\ env' = loaded
  /\ kept' = fresh /\ fresh' = {}
  /\ pc' = IF loaded.kind = "table" THEN "reloaded" ELSE "panic"
  /\ UNCHANGED <<file, stat, loaded, container, made, eachVars, flagVars, before>>

\* Whatever the script returned takes the place of the old table; on_reload is
\* looked up in it, outside of any protected call.
Reloaded ==
  /\ pc = "reloading" /\ loaded.kind # "raises"
  /\ known' = stat
  /\ env' = loaded
  /\ kept' = fresh /\ fresh' = {}
  /\ pc' = IF loaded.kind = "table" THEN "reloaded" ELSE "panic"
  /\ UNCHANGED <<file, stat, loaded, container, made, eachVars, flagVars, before>>

AfterReload ==
  /\ pc = "reloaded"
  /\ pc' = "begin"
  /\ UNCHANGED <<fileVars, heldVars, eachVars, flagVars, before>>

\* SDL_QUIT, which SDL_PollEvent finds
SystemQuits ==
  /\ pc = "begin" /\ ~exit
  /\ exit' = TRUE
  /\ UNCHANGED <<pc, fileVars, heldVars, eachVars, reload, before>>

\* for_each begins.
Begin ==
  /\ todo' = container /\ due' = container
  /\ visits' = [n \in Names |-> 0]
  /\ clean' = TRUE

\* Mutant of BeginInputs: the request is cleared when the reload is over.
BeginInputsClears ==
  /\ pc = "begin"
  /\ Begin
  /\ pc' = "inputs"
  /\ reload' = FALSE
  /\ before' = Nothing
  /\ UNCHANGED <<fileVars, heldVars, exit>>

BeginInputs ==
  /\ pc = "begin"
  /\ Begin
  /\ pc' = "inputs"
  /\ before' = Nothing
  /\ UNCHANGED <<fileVars, heldVars, flagVars>>

\* Mutant of Visit: for_each ends with the first call that fails.
VisitUntilError(n) ==
  /\ pc \in Traversals /\ n \in todo
  /\ todo' \in {todo \ {n}, {}}
  /\ visits' = [visits EXCEPT ![n] = IF @ < 2 THEN @ + 1 ELSE 2]
  /\ UNCHANGED <<pc, fileVars, heldVars, due, clean, flagVars, before>>

\* for_each calls one connector; an error in it is logged.
Visit(n) ==
  /\ pc \in Traversals /\ n \in todo
  /\ todo' = todo \ {n}
  /\ visits' = [visits EXCEPT ![n] = IF @ < 2 THEN @ + 1 ELSE 2]
  /\ UNCHANGED <<pc, fileVars, heldVars, due, clean, flagVars, before>>

\* for_each has ended; its history is not needed any more.
EachDone ==
  /\ due' = {} /\ visits' = [n \in Names |-> 0] /\ clean' = TRUE
  /\ UNCHANGED todo

\* process_yielded_functions and the script's tick
Tick ==
  /\ pc = "inputs" /\ todo = {}
  /\ EachDone
  /\ pc' = IF env.kind = "table" THEN "tick" ELSE "panic"
  /\ UNCHANGED <<fileVars, heldVars, flagVars, before>>

BeginOutputs ==
  /\ pc = "tick"
  /\ Begin
  /\ pc' = "outputs"
  /\ UNCHANGED <<fileVars, heldVars, flagVars, before>>

OutputsDone ==
  /\ pc = "outputs" /\ todo = {}
  /\ EachDone
  /\ pc' = "collect"
  /\ UNCHANGED <<fileVars, heldVars, flagVars, before>>

CollectAll ==
  /\ pc = "collect"
  /\ container' = container \ Collected
  /\ pc' = "sleep"
  /\ UNCHANGED <<fileVars, made, kept, fresh, eachVars, flagVars, before>>

Sleep ==
  /\ pc = "sleep"
  /\ pc' = "top"
  /\ UNCHANGED <<fileVars, heldVars, eachVars, flagVars, before>>

BeginShutdown ==
  /\ pc = "top" /\ exit
  /\ Begin
  /\ pc' = "shutdown"
  /\ UNCHANGED <<fileVars, heldVars, flagVars, before>>

End ==
  /\ pc = "shutdown" /\ todo = {}
  /\ pc' = "ended"
  /\ UNCHANGED <<fileVars, heldVars, eachVars, flagVars, before>>

Loop ==
  \/ Load \/ Stat \/ StartFails \/ Started
  \/ Turn \/ NothingNew \/ SomethingNew \/ LoadAgain \/ ReloadFails \/ Reloaded \/ AfterReload
  \/ BeginInputs \/ Tick \/ BeginOutputs \/ OutputsDone \/ CollectAll \/ Sleep
  \/ BeginShutdown \/ End
  \/ \E n \in Names : Visit(n)

Script ==
  \/ RequestExit \/ RequestReload \/ Collect
  \/ \E n \in Names : Make(n) \/ Find(n) \/ Forget(n)

Next == Loop \/ Script \/ Edit \/ SystemQuits

\* The loop goes on, and scripts return.
Spec == Init /\ [][Next]_vars /\ WF_vars(Loop)

-----------------------------------------------------------------------------
(* Properties.                                                             *)

\* tick_inputs, tick_outputs and shutdown each reach every connector that is
\* there from the first call to the last, and reach it once, whatever fails
\* and whatever is collected meanwhile, as long as no connector is added.
CalledOnce ==
  pc \in Traversals /\ clean =>
    \A n \in due \cap container : visits[n] = IF n \in todo THEN 0 ELSE 1

\* When the deckfile seems to be the one that was loaded, it is: a request to
\* reload passes over no edit.
NothingMissed ==
  env.kind # "none" /\ known = file.stamp => env.stamp = file.stamp

\* A connector that the old script and the new one hold is the same one.
SurvivesReload ==
  [][pc = "reloading" /\ pc' = "reloaded" =>
       \A n \in kept' \cap before.kept : made'[n] = before.made[n]]_vars

\* Who asked for a reload after an edit, at any moment, gets the edited
\* deckfile, unless it is edited again or the program comes to its end; who
\* asked to exit gets that, whatever the script asks for after it.
RequestsServed ==
  /\ \A f \in [kind : {"table"}, stamp : 0..MaxStamp] :
       reload /\ file = f ~> env.stamp = f.stamp \/ file # f \/ exit \/ pc \in Ends
  /\ exit ~> pc \in Ends

\* "we expect a table" (application.cpp:257): the active script is one.
ActiveIsTable == env.kind \in {"none", "table"}
=============================================================================
