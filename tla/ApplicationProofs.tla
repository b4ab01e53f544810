------------------------- MODULE ApplicationProofs --------------------------
(***************************************************************************)
(* Application, for any connectors, deckfiles and bounds: for_each reaches *)
(* every connector once, no edit is passed over by a reload, and what the  *)
(* old script and the new one hold is the same.                            *)
(*                                                                         *)
(* CalledOnce needs nothing but the types.  That no edit is missed needs   *)
(* that the time and size in m_deckfile_mtime are never newer than the     *)
(* script they were stored for (Older), and so, while the program starts,  *)
(* that the file is not edited.  That connectors survive needs that who is *)
(* held is in the container (HeldAreThere), and that the old script keeps  *)
(* what it holds until the new one has taken its place (OldOnesStay).      *)
(***************************************************************************)
EXTENDS Application, TLAPS

\* The types of what scripts hold, and of the rest.
HeldTypes ==
  /\ container \subseteq Names /\ kept \subseteq Names /\ fresh \subseteq Names
  /\ made \in Counts
  /\ before \in [made : Counts, kept : SUBSET Names]

EachTypes ==
  /\ todo \subseteq Names /\ due \subseteq Names
  /\ visits \in [Names -> 0..2]

FileTypes ==
  /\ file \in Files
  /\ loaded \in {f \in Files : f.kind \notin {"syntax", "missing"}}
  /\ env \in {f \in Files : f.kind \in {"none", "table", "nil"}}
  /\ {known, stat} \subseteq 0..MaxStamp

PlaceTypes ==
  pc \in Traversals \cup Ends \cup {"init", "initstat", "starting", "top", "reload", "load", "reloading",
                          "reloaded", "begin", "tick", "collect", "sleep"}

FlagTypes == exit \in BOOLEAN /\ reload \in BOOLEAN /\ clean \in BOOLEAN


-----------------------------------------------------------------------------
(* What each variable may become.                                          *)

\* Connectors are made, held and let go in a few steps; the rest leave them.
LEMMA OthersHold ==
  ASSUME Next \/ UNCHANGED vars,
         ~\E n \in Names : Make(n) \/ Find(n) \/ Forget(n), ~Collect, ~StartFails, ~Started,
         ~Turn, ~BeginInputs, ~SomethingNew, ~ReloadFails, ~Reloaded, ~CollectAll
  PROVE  /\ UNCHANGED <<heldVars, before>>
         /\ pc' \in {"load", "reloading"} => pc \in {"load", "reloading"}
BY DEF Next, vars, fileVars, heldVars, eachVars, flagVars, Loop, Script, Load, Stat, NothingNew,
       LoadAgain, AfterReload, Tick, BeginOutputs, OutputsDone, Sleep, BeginShutdown, End, Visit, RequestExit, RequestReload, Edit, SystemQuits, Traversals

\* for_each is begun, goes on and is disturbed in a few steps; the rest leave it.
LEMMA OthersCall ==
  ASSUME Next \/ UNCHANGED vars,
         ~\E n \in Names : Make(n) \/ Visit(n), ~Collect,
         ~BeginInputs, ~BeginOutputs, ~BeginShutdown, ~Tick, ~OutputsDone
  PROVE  /\ UNCHANGED eachVars
         /\ pc' \in Traversals => pc' = pc /\ UNCHANGED container
BY DEF Next, vars, fileVars, heldVars, eachVars, flagVars, Loop, Script, Load, Stat, StartFails,
       Started, Turn, NothingNew, SomethingNew, LoadAgain, ReloadFails, Reloaded, AfterReload,
       CollectAll, Sleep, End, RequestExit, RequestReload, Find, Forget, Edit,
       SystemQuits, Traversals, Hold, Running

\* The deckfile and what is known of it change in a few steps; the rest leave them.
LEMMA OthersLoad ==
  ASSUME Next \/ UNCHANGED vars,
         ~Edit, ~Load, ~Stat, ~Started, ~SomethingNew, ~LoadAgain, ~Reloaded
  PROVE  /\ UNCHANGED fileVars
         /\ pc' = pc \/ pc' \notin {"init", "initstat", "starting", "load", "reloading"}
BY DEF Next, vars, fileVars, heldVars, eachVars, flagVars, Loop, Script, StartFails, Turn, NothingNew,
       ReloadFails, AfterReload, BeginInputs, Tick, BeginOutputs, OutputsDone, CollectAll, Sleep,
       BeginShutdown, End, Visit, RequestExit, RequestReload, Collect, Make, Find, Forget, SystemQuits

-----------------------------------------------------------------------------
(* Types.                                                                  *)

LEMMA HeldTypesStep ==
  ASSUME HeldTypes, Next \/ UNCHANGED vars
  PROVE  HeldTypes'
<1> USE DEF HeldTypes, heldVars
<1>1. CASE \E n \in Names : Make(n)
  <2>1. PICK n \in Names : Make(n)
    BY <1>1
  <2>2. made' \in Counts
    BY <2>1, BoundsAssumption DEF Make, Counts
  <2> QED
    BY <2>1, <2>2 DEF Make, Hold
<1>2. CASE \E n \in Names : Find(n)
  BY <1>2 DEF Find, Hold
<1>3. CASE \E n \in Names : Forget(n)
  BY <1>3 DEF Forget
<1>4. CASE Collect
  BY <1>4 DEF Collect
<1>5. CASE StartFails
  BY <1>5 DEF StartFails
<1>6. CASE Started
  BY <1>6 DEF Started
<1>7. CASE SomethingNew
  BY <1>7 DEF SomethingNew
<1>8. CASE ReloadFails
  BY <1>8 DEF ReloadFails
<1>9. CASE Reloaded
  BY <1>9 DEF Reloaded
<1>10. CASE CollectAll
  BY <1>10 DEF CollectAll
<1>11. CASE Turn \/ BeginInputs
  BY <1>11, BoundsAssumption DEF Turn, BeginInputs, Nothing, Counts
<1> QED
  BY <1>1, <1>2, <1>3, <1>4, <1>5, <1>6, <1>7, <1>8, <1>9, <1>10, <1>11, OthersHold

LEMMA EachTypesStep ==
  ASSUME EachTypes, HeldTypes, HeldTypes', Next \/ UNCHANGED vars
  PROVE  EachTypes'
<1> USE DEF EachTypes, HeldTypes, eachVars
<1>1. CASE \E n \in Names : Make(n)
  BY <1>1 DEF Make
<1>2. CASE \E n \in Names : Visit(n)
  BY <1>2 DEF Visit
<1>3. CASE Collect
  BY <1>3 DEF Collect
<1>4. CASE BeginInputs \/ BeginOutputs \/ BeginShutdown
  BY <1>4 DEF BeginInputs, BeginOutputs, BeginShutdown, Begin
<1>5. CASE Tick \/ OutputsDone
  BY <1>5 DEF Tick, OutputsDone, EachDone
<1> QED
  BY <1>1, <1>2, <1>3, <1>4, <1>5, OthersCall

LEMMA FileTypesStep ==
  ASSUME FileTypes, Next \/ UNCHANGED vars
  PROVE  FileTypes'
<1> USE DEF FileTypes, fileVars, Files
<1>1. CASE Edit
  BY <1>1, BoundsAssumption DEF Edit
<1>2. CASE Load
  BY <1>2 DEF Load, LoadFails
<1>3. CASE Stat
  BY <1>3 DEF Stat
<1>4. CASE Started
  BY <1>4, BoundsAssumption DEF Started
<1>5. CASE SomethingNew
  BY <1>5 DEF SomethingNew
<1>6. CASE LoadAgain
  BY <1>6 DEF LoadAgain, LoadFails
<1>7. CASE Reloaded
  BY <1>7, BoundsAssumption DEF Reloaded
<1> QED
  BY <1>1, <1>2, <1>3, <1>4, <1>5, <1>6, <1>7, OthersLoad

LEMMA PlaceTypesStep ==
  ASSUME PlaceTypes, Next \/ UNCHANGED vars
  PROVE  PlaceTypes'
BY DEF PlaceTypes, Traversals, Ends, Next, vars, Loop, Script, Load, Stat, StartFails, Started, Turn,
       NothingNew, SomethingNew, LoadAgain, ReloadFails, Reloaded, AfterReload, BeginInputs, Tick,
       BeginOutputs, OutputsDone, CollectAll, Sleep, BeginShutdown, End, Visit, RequestExit,
       RequestReload, Collect, Make, Find, Forget, Edit, SystemQuits

LEMMA FlagTypesStep ==
  ASSUME FlagTypes, Next \/ UNCHANGED vars
  PROVE  FlagTypes'
BY Zenon DEF FlagTypes, Next, vars, eachVars, flagVars, Loop, Script, Load, Stat, StartFails, Started,
       Turn, NothingNew, SomethingNew, LoadAgain, ReloadFails, Reloaded, AfterReload, BeginInputs,
       Tick, BeginOutputs, OutputsDone, CollectAll, Sleep, BeginShutdown, End, Visit, RequestExit,
       RequestReload, Collect, Make, Find, Forget, Edit, SystemQuits, Begin, EachDone

-----------------------------------------------------------------------------
(* for_each.                                                               *)

\* for_each begins with every connector before it; each call takes one from what
\* is before it; what is collected was either called or is not called any more.
LEMMA CallsStep ==
  ASSUME HeldTypes, EachTypes, CalledOnce, Next \/ UNCHANGED vars
  PROVE  CalledOnce'
<1> USE DEF CalledOnce, HeldTypes, EachTypes
<1>1. CASE \E n \in Names : Make(n)
  <2>1. PICK n \in Names : Make(n)
    BY <1>1
  <2>2. CASE Called
    BY <2>1, <2>2 DEF Make
  <2>3. CASE ~Called
    <3>1. pc' = pc /\ Acting
      BY <2>1 DEF Make
    <3>2. pc \notin Traversals
      BY <2>3, <3>1 DEF Acting, Running, Traversals
    <3> QED
      BY <3>1, <3>2
  <2> QED
    BY <2>2, <2>3
<1>2. CASE \E n \in Names : Visit(n)
  <2>1. PICK n \in Names : Visit(n)
    BY <1>2
  <2> SUFFICES ASSUME clean, NEW m \in due \cap container
               PROVE  visits'[m] = IF m \in todo' THEN 0 ELSE 1
    BY <2>1 DEF Visit, heldVars
  <2>2. visits[m] = IF m \in todo THEN 0 ELSE 1
    BY <2>1 DEF Visit
  <2> QED
    BY <2>1, <2>2 DEF Visit
<1>3. CASE Collect
  BY <1>3 DEF Collect
<1>4. CASE BeginInputs \/ BeginOutputs \/ BeginShutdown
  BY <1>4 DEF BeginInputs, BeginOutputs, BeginShutdown, Begin
<1>5. CASE Tick \/ OutputsDone
  BY <1>5 DEF Tick, OutputsDone, Traversals
<1> QED
  BY <1>1, <1>2, <1>3, <1>4, <1>5, OthersCall DEF eachVars

-----------------------------------------------------------------------------
(* Edits.                                                                  *)

\* What is remembered of the deckfile is not newer than the script it is
\* remembered for, nor is that newer than the deckfile.
Older ==
  /\ known <= file.stamp
  /\ pc = "initstat" => loaded.stamp = file.stamp /\ env.kind = "none"
  /\ pc = "init" => env.kind = "none"
  /\ pc = "starting" => known <= loaded.stamp /\ loaded.stamp <= file.stamp /\ env.kind = "none"
  /\ pc = "load" => stat <= file.stamp
  /\ pc = "reloading" => stat <= loaded.stamp /\ loaded.stamp <= file.stamp
  /\ env.kind # "none" => known <= env.stamp /\ env.stamp <= file.stamp

LEMMA OlderStep ==
  ASSUME EarlyEdits = FALSE, FileTypes, Older, Next \/ UNCHANGED vars
  PROVE  Older'
<1> USE BoundsAssumption DEF Older, FileTypes, Files
<1>1. CASE Edit
  BY <1>1 DEF Edit
<1>2. CASE Load
  BY <1>2 DEF Load
<1>3. CASE Stat
  BY <1>3 DEF Stat
<1>4. CASE Started
  BY <1>4 DEF Started
<1>5. CASE SomethingNew
  BY <1>5 DEF SomethingNew
<1>6. CASE LoadAgain
  BY <1>6 DEF LoadAgain
<1>7. CASE Reloaded
  BY <1>7 DEF Reloaded
<1>8. CASE pc' = pc /\ UNCHANGED fileVars
  BY <1>8 DEF fileVars
<1>9. CASE pc' \notin {"init", "initstat", "starting", "load", "reloading"} /\ UNCHANGED fileVars
  BY <1>9 DEF fileVars
<1> QED
  BY <1>1, <1>2, <1>3, <1>4, <1>5, <1>6, <1>7, <1>8, <1>9, OthersLoad

-----------------------------------------------------------------------------
(* Connectors across a reload.                                             *)

HeldAreThere == kept \cup fresh \subseteq container

OldOnesStay ==
  pc \in {"load", "reloading"} =>
    before.kept \subseteq kept /\ \A n \in before.kept : made[n] = before.made[n]

LEMMA HeldStep ==
  ASSUME HeldTypes, HeldAreThere, OldOnesStay, Next \/ UNCHANGED vars
  PROVE  HeldAreThere' /\ OldOnesStay'
<1> USE DEF HeldTypes, HeldAreThere, OldOnesStay, heldVars
<1>1. CASE \E n \in Names : Make(n)
  <2>1. PICK n \in Names : Make(n)
    BY <1>1
  <2>2. n \notin kept /\ pc' = pc /\ before' = before /\ kept \subseteq kept'
        /\ \A m \in Names \ {n} : made'[m] = made[m]
    BY <2>1 DEF Make, Hold, Counts
  <2> QED
    BY <2>1, <2>2 DEF Make, Hold
<1>2. CASE \E n \in Names : Find(n)
  BY <1>2 DEF Find, Hold
<1>3. CASE \E n \in Names : Forget(n)
  BY <1>3 DEF Forget, Acting, Called, Running, Traversals
<1>4. CASE Collect
  BY <1>4 DEF Collect, Collected
<1>5. CASE StartFails
  BY <1>5 DEF StartFails
<1>6. CASE Started
  BY <1>6 DEF Started
<1>7. CASE SomethingNew
  BY <1>7 DEF SomethingNew
<1>8. CASE ReloadFails
  BY <1>8 DEF ReloadFails
<1>9. CASE Reloaded
  BY <1>9 DEF Reloaded
<1>10. CASE CollectAll
  BY <1>10 DEF CollectAll, Collected
<1>11. CASE Turn \/ BeginInputs
  BY <1>11 DEF Turn, BeginInputs
<1> QED
  BY <1>1, <1>2, <1>3, <1>4, <1>5, <1>6, <1>7, <1>8, <1>9, <1>10, <1>11, OthersHold

-----------------------------------------------------------------------------
(* The theorems.                                                           *)

IInv ==
  /\ HeldTypes /\ EachTypes /\ FileTypes /\ PlaceTypes /\ FlagTypes
  /\ CalledOnce /\ HeldAreThere /\ OldOnesStay

LEMMA IInvInit == Init => IInv
<1> SUFFICES ASSUME Init PROVE IInv
  OBVIOUS
<1>1. HeldTypes
  BY BoundsAssumption DEF Init, HeldTypes, Counts, Nothing
<1>2. EachTypes
  BY DEF Init, EachTypes
<1>3. FileTypes
  BY BoundsAssumption DEF Init, FileTypes, Files, NoFile
<1>4. PlaceTypes
  BY DEF Init, PlaceTypes
<1>5. FlagTypes
  BY DEF Init, FlagTypes
<1> QED
  BY <1>1, <1>2, <1>3, <1>4, <1>5 DEF Init, IInv, CalledOnce, HeldAreThere, OldOnesStay, Traversals

\* The inductive invariant of the loop, without what EarlyEdits would break.
THEOREM Invariance == Spec => []IInv
<1>1. IInv /\ [Next]_vars => IInv'
  BY HeldTypesStep, EachTypesStep, FileTypesStep, PlaceTypesStep, FlagTypesStep, CallsStep, HeldStep
     DEF IInv
<1> QED
  BY <1>1, IInvInit, PTL DEF Spec

\* Every variable keeps its type (the members of Application and DeckModule).
THEOREM TypeCorrect == Spec => []TypeOK
<1>1. IInv => TypeOK
  BY DEF IInv, HeldTypes, EachTypes, FileTypes, PlaceTypes, FlagTypes, TypeOK
<1> QED
  BY <1>1, Invariance, PTL

\* DeckConnectorContainer::for_each calls every connector that is there from
\* the first call to the last, and calls it once.
THEOREM EachIsCalledOnce == Spec => []CalledOnce
<1>1. IInv => CalledOnce
  BY DEF IInv
<1> QED
  BY <1>1, Invariance, PTL

\* reload_deckfile passes over no edit, if none is made while the program starts.
THEOREM NoEditIsMissed ==
  ASSUME EarlyEdits = FALSE
  PROVE  Spec => []NothingMissed
<1>1. Init => Older
  BY BoundsAssumption DEF Init, Older, NoFile
<1>2. IInv /\ Older /\ [Next]_vars => Older'
  BY OlderStep DEF IInv
<1>3. IInv /\ Older => NothingMissed
  BY BoundsAssumption DEF IInv, FileTypes, Files, Older, NothingMissed
<1> QED
  BY <1>1, <1>2, <1>3, Invariance, PTL DEF Spec

\* A connector that the old script and the new one hold is the same one: it
\* was not collected and made again while the deckfile was reloaded.
THEOREM ConnectorsSurvive == Spec => SurvivesReload
<1>1. IInv /\ [Next]_vars =>
        [pc = "reloading" /\ pc' = "reloaded" =>
           \A n \in kept' \cap before.kept : made'[n] = before.made[n]]_vars
  <2> SUFFICES ASSUME IInv, Next, pc = "reloading", pc' = "reloaded"
               PROVE  \A n \in kept' \cap before.kept : made'[n] = before.made[n]
    OBVIOUS
  <2>1. UNCHANGED made
    BY DEF Next, heldVars, Loop, Script, Load, Stat, StartFails, Started, Turn, NothingNew,
           SomethingNew, LoadAgain, ReloadFails, Reloaded, AfterReload, BeginInputs, Tick,
           BeginOutputs, OutputsDone, CollectAll, Sleep, BeginShutdown, End, Visit, RequestExit,
           RequestReload, Collect, Make, Find, Forget, Edit, SystemQuits
  <2> QED
    BY <2>1 DEF IInv, OldOnesStay
<1> QED
  BY <1>1, Invariance, PTL DEF Spec, SurvivesReload
=============================================================================
